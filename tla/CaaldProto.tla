----------------------------- MODULE CaaldProto -----------------------------
(***************************************************************************)
(* The protocol between caald and its clients (src/src/lib/caald_proto.h): *)
(* one request and one response per connection, both fixed-size structs.   *)
(***************************************************************************)
EXTENDS Integers

CONSTANTS
  Sessions,       \* the sessions that may be registered: user, container id and pid
  Zero            \* a zeroed string or pid

ASSUME SessionRecords ==
  \A e \in Sessions : e = [username     |-> e.username,
                           container_id |-> e.container_id,
                           pid          |-> e.pid]

Users == {e.username : e \in Sessions}
Ids   == {e.container_id : e \in Sessions}
Pids  == {e.pid : e \in Sessions}

\* The zeroed strings and pid of an unused field or of a fresh table slot.
ZeroSession == [username |-> Zero, container_id |-> Zero, pid |-> Zero]

\* A request names the session it is about; what it leaves out is zeroed.
Req(t, e) == [type |-> t, session |-> e]

RegisterReq(e)  == Req("REGISTER", e)
UnregisterReq(i) == Req("UNREGISTER", [ZeroSession EXCEPT !.container_id = i])
KillReq(i)       == Req("KILL", [ZeroSession EXCEPT !.container_id = i])
KillUserReq(u)   == Req("KILL_USER", [ZeroSession EXCEPT !.username = u])
CountReq         == Req("COUNT", ZeroSession)
ListReq          == Req("LIST", ZeroSession)
UnknownReq       == Req("UNKNOWN", ZeroSession)

Requests ==
  {RegisterReq(e) : e \in Sessions} \cup {KillUserReq(u) : u \in Users}
    \cup {UnregisterReq(i) : i \in Ids} \cup {KillReq(i) : i \in Ids}
    \cup {CountReq, ListReq, UnknownReq}

NoRequest == Req("NONE", ZeroSession)

(***************************************************************************)
(* A response; list stands for the structs streamed after the header of a  *)
(* LIST response, by table slot.  The error text is never read.            *)
(***************************************************************************)
Resp(ok, n, l) == [ok |-> ok, count |-> n, list |-> l]
ZeroResp       == Resp(FALSE, 0, <<>>)

=============================================================================
