--------------------------- MODULE SessionRegistry ---------------------------
(***************************************************************************)
(* What caald promises its clients, without its table: a registry with a   *)
(* number of places, each empty or holding one session.  A registration    *)
(* succeeds whenever a place is free, whichever one; a session leaves only *)
(* when it is unregistered or killed, and exactly the processes of the     *)
(* sessions that a kill removes are signalled.  Requests are served one at *)
(* a time, each on the state the earlier ones left.  The capacity grows    *)
(* and never shrinks while the daemon lives; its death empties everything. *)
(***************************************************************************)
EXTENDS CaaldProto, FiniteSets

VARIABLES
  active,       \* the places taken, with the session in each
  capacity,     \* the number of places; 0 while the daemon is not serving
  answer,       \* the request being answered with its answer, or NoAnswer
  signalled     \* the processes that this request sent SIGTERM

registryVars == <<active, capacity, answer, signalled>>

NoAnswer == [req |-> NoRequest, resp |-> ZeroResp]

Init ==
  /\ active = <<>>
  /\ capacity = 0
  /\ answer = NoAnswer
  /\ signalled = {}

-----------------------------------------------------------------------------

Serving == capacity > 0 /\ answer = NoAnswer /\ UNCHANGED capacity

Answer(r, ok, n, l) == answer' = [req |-> r, resp |-> Resp(ok, n, l)]

Without(P) == [p \in DOMAIN active \ P |-> active[p]]

Register(r) ==
  /\ Serving
  /\ r.type = "REGISTER"
  /\ \E p \in (1..capacity) \ DOMAIN active :
       active' = [q \in DOMAIN active \cup {p} |-> IF q = p THEN r.session ELSE active[q]]
  /\ Answer(r, TRUE, 0, <<>>)
  /\ signalled' = {}

RejectFull(r) ==
  /\ Serving
  /\ r.type = "REGISTER"
  /\ 1..capacity \subseteq DOMAIN active
  /\ Answer(r, FALSE, 0, <<>>)
  /\ signalled' = {}
  /\ UNCHANGED active

Holds(p, id) == active[p].container_id = id

Remove(r) ==
  /\ Serving
  /\ r.type \in {"UNREGISTER", "KILL"}
  /\ \E p \in DOMAIN active :
       /\ Holds(p, r.session.container_id)
       /\ active' = Without({p})
       /\ signalled' = IF r.type = "KILL" THEN {active[p].pid} ELSE {}
  /\ Answer(r, TRUE, 0, <<>>)

NotFound(r) ==
  /\ Serving
  /\ r.type \in {"UNREGISTER", "KILL"}
  /\ \A p \in DOMAIN active : ~Holds(p, r.session.container_id)
  /\ Answer(r, FALSE, 0, <<>>)
  /\ signalled' = {}
  /\ UNCHANGED active

RemoveUser(r) ==
  LET P == {p \in DOMAIN active : active[p].username = r.session.username} IN
  /\ Serving
  /\ r.type = "KILL_USER"
  /\ active' = Without(P)
  /\ signalled' = {active[p].pid : p \in P}
  /\ Answer(r, P # {}, Cardinality(P), <<>>)

Report(r) ==
  /\ Serving
  /\ r.type \in {"COUNT", "LIST"}
  /\ Answer(r, TRUE, Cardinality(DOMAIN active), IF r.type = "LIST" THEN active ELSE <<>>)
  /\ signalled' = {}
  /\ UNCHANGED active

Refuse(r) ==
  /\ Serving
  /\ r.type = "UNKNOWN"
  /\ Answer(r, FALSE, 0, <<>>)
  /\ signalled' = {}
  /\ UNCHANGED active

\* The answer has left, or its client has gone.
Answered ==
  /\ answer # NoAnswer
  /\ answer' = NoAnswer
  /\ signalled' = {}
  /\ UNCHANGED <<active, capacity>>

Enlarge ==
  /\ answer = NoAnswer
  /\ capacity' \in Nat /\ capacity' > capacity
  /\ UNCHANGED <<active, answer, signalled>>

Close ==
  /\ active' = <<>>
  /\ capacity' = 0
  /\ answer' = NoAnswer
  /\ signalled' = {}

Serve(r) ==
  \/ Register(r) \/ RejectFull(r) \/ Remove(r) \/ NotFound(r) \/ RemoveUser(r)
  \/ Report(r) \/ Refuse(r)

Next == (\E r \in Requests : Serve(r)) \/ Answered \/ Enlarge \/ Close

Spec == Init /\ [][Next]_registryVars

=============================================================================
