------------------------------ MODULE Container ------------------------------
(***************************************************************************)
(* The host resources of a session: container_start and container_stop     *)
(* (src/src/lib/container.c), session_disk_setup and session_disk_cleanup  *)
(* (src/src/lib/session_disk.c) and pty_bridge_init (pty_bridge.c), run by *)
(* any number of caalsh processes at once.  A session's directory, image,  *)
(* loop mount and socket are its own; the mount point of its overlay, the  *)
(* rootfs of its bundle, it shares with every session of that bundle.      *)
(***************************************************************************)
EXTENDS Integers, Sequences, SequencesExt, FiniteSets

CONSTANTS
  Procs,          \* caalsh processes, one per login
  Bundles,        \* OCI bundles
  BundleOf,       \* the bundle each process is configured with
  MaxStackDepth   \* overlays that the kernel lets rest on each other: 2

ASSUME ProcsAssumption  == IsFiniteSet(Procs)
ASSUME BundleAssumption == BundleOf \in [Procs -> Bundles]
ASSUME DepthAssumption  == MaxStackDepth \in Nat

VARIABLES
  pc,             \* where each process is
  made,           \* its files and mounts that exist
  overlays,       \* the overlays mounted on each bundle's rootfs, the topmost last
  lower,          \* the layers below each process's overlay
  child,          \* its crun process
  view,           \* the layers its container was started on
  helperFailed,   \* processes one of whose cleanup commands could not be run
  dead            \* processes that a signal has ended, wherever they were

hostVars == <<pc, made, overlays, lower, child, view, helperFailed, dead>>

Resources    == {"dir", "image", "loop", "socket"}
PartialDisks == {{}, {"image"}, {"image", "loop"}}

(***************************************************************************)
(* idle: not begun.  mkdir .. fork: in container_start, before that call.  *)
(* up: container_start has returned.  err_sock, err_mounted, err_disk: on  *)
(* its error paths.  failed: it has returned -1 and the process is gone.   *)
(* stop, stop_disk, stop_crun: in container_stop.  exited: it has returned *)
(* and the process is gone.                                                *)
(***************************************************************************)
StartPcs == {"mkdir", "disk", "overlay", "socket", "fork"}
ErrPcs   == {"err_sock", "err_mounted", "err_disk"}
StopPcs  == {"stop", "stop_disk", "stop_crun"}
LivePcs  == StartPcs \cup ErrPcs \cup StopPcs \cup {"up"}
Pcs      == LivePcs \cup {"idle", "failed", "exited"}

\* none: not forked.  forked: not yet in the container.  unborn: crun has failed before it
\* handed over the terminal.  running, exited: the container runs, has ended.
ChildStates == {"none", "forked", "unborn", "running", "exited"}

TypeOK ==
  /\ pc \in [Procs -> Pcs]
  /\ made \in [Procs -> SUBSET Resources]
  /\ overlays \in [Bundles -> Seq(Procs)]
  /\ lower \in [Procs -> Seq(Procs)]
  /\ child \in [Procs -> ChildStates]
  /\ view \in [Procs -> Seq(Procs)]
  /\ helperFailed \in SUBSET Procs
  /\ dead \in SUBSET Procs

Init ==
  /\ pc = [p \in Procs |-> "idle"]
  /\ made = [p \in Procs |-> {}]
  /\ overlays = [b \in Bundles |-> <<>>]
  /\ lower = [p \in Procs |-> <<>>]
  /\ child = [p \in Procs |-> "none"]
  /\ view = [p \in Procs |-> <<>>]
  /\ helperFailed = {}
  /\ dead = {}

-----------------------------------------------------------------------------
(* container_start *)

Go(p, from, to) ==
  /\ pc[p] = from /\ p \notin dead
  /\ pc' = [pc EXCEPT ![p] = to]
  /\ UNCHANGED dead

Make(p, R)      == made' = [made EXCEPT ![p] = @ \cup R]
Unmake(p, R)    == made' = [made EXCEPT ![p] = @ \ R]

overlayVars == <<overlays, lower>>
crunVars    == <<child, view>>

container_start(p) ==
  /\ Go(p, "idle", "mkdir")
  /\ UNCHANGED <<made, overlayVars, crunVars, helperFailed>>

\* upper and work are made beside the loop mount.
session_disk_setup_misplaced(p) ==
  /\ \/ Go(p, "mkdir", "disk")   /\ Make(p, {"dir"})
     \/ Go(p, "disk", "overlay") /\ Make(p, {"image", "loop", "upper", "work"})
  /\ UNCHANGED <<overlayVars, crunVars, helperFailed>>

\* Any step may fail, and then leaves what the earlier ones made: the directory, the image,
\* which exists before it is allocated and formatted, and the mount.
session_disk_setup(p) ==
  /\ \/ Go(p, "mkdir", "disk")   /\ Make(p, {"dir"})
     \/ Go(p, "mkdir", "failed") /\ UNCHANGED made
     \/ Go(p, "disk", "overlay") /\ Make(p, {"image", "loop"})
     \/ Go(p, "disk", "failed")  /\ \E R \in PartialDisks : Make(p, R)
  /\ UNCHANGED <<overlayVars, crunVars, helperFailed>>

\* What is seen at the rootfs of the bundle: its overlays as they lie on each other, the
\* topmost last.  Nothing is left of them when none is mounted.
Visible(b) == IF overlays[b] = <<>> THEN <<>>
              ELSE Append(lower[Last(overlays[b])], Last(overlays[b]))

\* mount("overlay", rootfs, ..., "lowerdir=rootfs,..."): on top of whatever is there.
MountOverlay(p) ==
  LET b == BundleOf[p] IN
  /\ \/ /\ Go(p, "overlay", "socket")
        /\ Len(Visible(b)) < MaxStackDepth
        /\ overlays' = [overlays EXCEPT ![b] = Append(@, p)]
        /\ lower' = [lower EXCEPT ![p] = Visible(b)]
     \/ Go(p, "overlay", "err_disk") /\ UNCHANGED overlayVars
  /\ UNCHANGED <<made, crunVars, helperFailed>>

\* bind() makes the socket file; when listen() then fails the file stays.
pty_bridge_init(p) ==
  /\ \/ Go(p, "socket", "fork") /\ Make(p, {"socket"})
     \/ Go(p, "socket", "err_mounted") /\ Make(p, {"socket"})
     \/ Go(p, "socket", "err_mounted") /\ UNCHANGED made
  /\ UNCHANGED <<overlayVars, crunVars, helperFailed>>

ForkCrun(p) ==
  /\ \/ Go(p, "fork", "up") /\ child' = [child EXCEPT ![p] = "forked"]
     \/ Go(p, "fork", "err_sock") /\ UNCHANGED child
  /\ UNCHANGED <<made, overlayVars, view, helperFailed>>

\* Both labels unmount.
err_sock_unmounting(p) ==
  LET b == BundleOf[p] IN
  /\ Go(p, "err_sock", "err_mounted")
  /\ Unmake(p, {"socket"})
  /\ overlays' = [overlays EXCEPT ![b] = IF @ = <<>> THEN @ ELSE Front(@)]
  /\ UNCHANGED <<lower, crunVars, helperFailed>>

err_sock(p) ==
  /\ Go(p, "err_sock", "err_mounted")
  /\ Unmake(p, {"socket"})
  /\ UNCHANGED <<overlayVars, crunVars, helperFailed>>

-----------------------------------------------------------------------------
(* container_stop, and what it shares with the error paths *)

\* umount2(rootfs, MNT_DETACH): takes the topmost overlay away, whoever mounted it.
Umount(b) == overlays' = [overlays EXCEPT ![b] = IF @ = <<>> THEN @ ELSE Front(@)]

err_mounted(p) ==
  /\ Go(p, "err_mounted", "err_disk")
  /\ Umount(BundleOf[p])
  /\ UNCHANGED <<made, lower, crunVars, helperFailed>>

container_stop(p) ==
  /\ Go(p, "up", "stop")
  /\ UNCHANGED <<made, overlayVars, crunVars, helperFailed>>

\* The umount left out.
StopUnmount_none(p) ==
  /\ Go(p, "stop", "stop_disk")
  /\ Unmake(p, {"socket"})
  /\ UNCHANGED <<overlayVars, crunVars, helperFailed>>

StopUnmount(p) ==
  /\ Go(p, "stop", "stop_disk")
  /\ Unmake(p, {"socket"})
  /\ Umount(BundleOf[p])
  /\ UNCHANGED <<lower, crunVars, helperFailed>>

\* The image is forgotten.
session_disk_cleanup_keeping_image(p) ==
  /\ Go(p, "stop_disk", "stop_crun") \/ Go(p, "err_disk", "failed")
  /\ Unmake(p, {"loop", "dir"})
  /\ UNCHANGED <<overlayVars, crunVars, helperFailed>>

\* "rm" is a command of its own: the directory stays when it cannot be forked or fails.
session_disk_cleanup(p) ==
  /\ Go(p, "stop_disk", "stop_crun") \/ Go(p, "err_disk", "failed")
  /\ \/ Unmake(p, {"loop", "image", "dir"}) /\ UNCHANGED helperFailed
     \/ Unmake(p, {"loop", "image"}) /\ helperFailed' = helperFailed \cup {p}
  /\ UNCHANGED <<overlayVars, crunVars>>

\* crun delete --force ends the container if it still runs.
crun_delete(p) ==
  /\ Go(p, "stop_crun", "exited")
  /\ \/ child' = [child EXCEPT ![p] = IF @ = "running" THEN "exited" ELSE @]
        /\ UNCHANGED helperFailed
     \/ UNCHANGED child /\ helperFailed' = helperFailed \cup {p}
  /\ UNCHANGED <<made, overlayVars, view>>

-----------------------------------------------------------------------------
(* crun, and signals that end caalsh before its handlers are armed *)

\* crun sets the container up and, from inside, hands its terminal over through the socket,
\* without which it gives up; container_stop has closed and unlinked that.
CrunStart(p) ==
  /\ child[p] = "forked" /\ pc[p] = "up"
  /\ child' = [child EXCEPT ![p] = "running"]
  /\ view' = [view EXCEPT ![p] = Visible(BundleOf[p])]
  /\ UNCHANGED <<pc, made, overlayVars, helperFailed, dead>>

CrunEnds(p) ==
  /\ \/ child[p] = "forked"  /\ child' = [child EXCEPT ![p] = "unborn"]
     \/ child[p] = "running" /\ child' = [child EXCEPT ![p] = "exited"]
  /\ UNCHANGED <<pc, made, overlayVars, view, helperFailed, dead>>

\* Between the steps of session_disk_setup too.
Killed(p) ==
  /\ pc[p] \in LivePcs /\ p \notin dead
  /\ dead' = dead \cup {p}
  /\ \/ UNCHANGED made
     \/ pc[p] = "disk" /\ \E R \in PartialDisks : Make(p, R)
  /\ UNCHANGED <<pc, overlayVars, crunVars, helperFailed>>

-----------------------------------------------------------------------------

\* The steps of container_start after its call, and of container_stop after its.
StartStep(p) ==
  \/ session_disk_setup(p) \/ MountOverlay(p) \/ pty_bridge_init(p) \/ ForkCrun(p)
  \/ err_sock(p) \/ err_mounted(p)

StopStep(p) == StopUnmount(p) \/ session_disk_cleanup(p) \/ crun_delete(p)

Crun(p) == CrunStart(p) \/ CrunEnds(p)

Next == \E p \in Procs :
  \/ container_start(p) \/ StartStep(p) \/ container_stop(p) \/ StopStep(p)
  \/ Crun(p) \/ Killed(p)

Spec == Init /\ [][Next]_hostVars

-----------------------------------------------------------------------------
(* Properties *)

\* A process that has mounted its overlay, and has not yet unmounted one.
Holds(p)   == pc[p] \in {"socket", "fork", "err_sock", "err_mounted", "up", "stop"}
Holders(b) == {p \in Procs : BundleOf[p] = b /\ Holds(p)}

(***************************************************************************)
(* Although umount2 takes away whichever overlay is on top, a rootfs has   *)
(* as many overlays as there are sessions that have mounted one and not    *)
(* yet unmounted one, the dead ones included (container.c:67, 107, 119).   *)
(***************************************************************************)
OverlayPerHolder == \A b \in Bundles : Len(overlays[b]) = Cardinality(Holders(b))

(***************************************************************************)
(* No container ever runs on the bare rootfs of its bundle, whatever the   *)
(* sessions beside it mount, unmount, fail at or are killed in: "the base  *)
(* image stays untouched" (README.md:27; container.c:63-71, 80-91).        *)
(***************************************************************************)
BaseUntouched == \A p \in Procs : child[p] \in {"running", "exited"} => view[p] # <<>>

(***************************************************************************)
(* When the last session is over and none was killed, no overlay is left   *)
(* on any bundle, in whatever order they ended or failed: "the host is     *)
(* left exactly as it was" (README.md:31).                                 *)
(***************************************************************************)
QuiescentHostClean ==
  (\A p \in Procs : pc[p] \in {"idle", "failed", "exited"})
    => \A b \in Bundles : overlays[b] = <<>>

(***************************************************************************)
(* A session that has been stopped leaves no directory, image, mount,      *)
(* socket or container.  When a cleanup command could not be run it still  *)
(* leaves no more of its own than its directory: never the mount, the      *)
(* image or the socket (container.c:112-128, session_disk.c:78-89).        *)
(***************************************************************************)
StopLeavesNothing ==
  \A p \in Procs : pc[p] = "exited" =>
    /\ made[p] \subseteq {"dir"}
    /\ p \notin helperFailed => made[p] = {} /\ child[p] # "running"

Leftovers == {{}, {"socket"}} \cup {{"dir"} \cup R : R \in PartialDisks}

(***************************************************************************)
(* All that a failed container_start leaves is what a session_disk_setup   *)
(* that broke off had made, or the socket file of a listen() that failed,  *)
(* never both and nothing else, where the cleanup commands run: "On        *)
(* failure all partial state is cleaned up" (container.h:45-46) holds from *)
(* the overlay on (container.c:55-58, 103-109).                            *)
(***************************************************************************)
FailedStartLeaves ==
  \A p \in Procs : pc[p] = "failed" /\ p \notin helperFailed => made[p] \in Leftovers

(***************************************************************************)
(* A container runs on its own overlay, directly on the base image: "the   *)
(* container rootfs is always clean" (README.md:381), "nothing persists    *)
(* between logins" (README.md:33).                                         *)
(***************************************************************************)
OwnCleanRootfs == \A p \in Procs : child[p] = "running" => view[p] = <<p>>

=============================================================================
