------------------------------- MODULE Caald -------------------------------
(***************************************************************************)
(* The session daemon (src/src/caald.c) and the socket its clients reach   *)
(* it through.  The daemon is one thread: it accepts a connection, reads   *)
(* one request, runs the handler, writes the response and closes.  Around  *)
(* it move the clients, which may hang up at any moment, the administrator *)
(* who edits the config, SIGHUP, and whoever stops and starts the service. *)
(***************************************************************************)
EXTENDS SessionTable, Sequences

CONSTANTS
  Clients,            \* processes that talk to the daemon: caalsh and caalctl
  NoClient,           \* no connection is being served
  Configs,            \* contents the config file may have
  DefaultMaxSessions, \* capacity when max_sessions is missing or not positive: 1024
  IntMax,             \* INT_MAX of the build
  IgnoreSIGPIPE       \* what the daemon inherits: TRUE from systemd, FALSE from a shell

ASSUME ClientsAssumption == NoClient \notin Clients
ASSUME IntAssumption     == IntMax \in Nat \ {0}
ASSUME ConfigsAssumption == Configs \subseteq [readable : BOOLEAN, max_sessions : Int]
ASSUME DefaultAssumption == DefaultMaxSessions \in Nat \ {0}
ASSUME SigpipeAssumption == IgnoreSIGPIPE \in BOOLEAN

VARIABLES
  sessions,           \* the table, a function on 1..max_sessions
  session_count,      \* slots ever used
  max_sessions,       \* slots allocated
  g_reload_config,    \* set by the SIGHUP handler, cleared by the main loop
  phase,              \* where the daemon's thread is
  client,             \* the connection being served (client_fd)
  resp,               \* the response to be written
  sigterm,            \* the pids the current handler sent SIGTERM
  backlog,            \* connections waiting to be accepted, in order
  conn,               \* each client's end of its connection
  request,            \* what each client has written
  config              \* the config file

tableVars  == <<sessions, session_count, max_sessions>>
socketVars == <<backlog, conn, request>>
vars == <<tableVars, g_reload_config, phase, client, resp, sigterm, socketVars, config>>

(***************************************************************************)
(* down: not running (the pid file is unlocked).  start: listening, config *)
(* not loaded, SIGHUP not yet caught.  loop: at the top of the loop.       *)
(* accept: waiting for a client.  read: reading its request.  reply:       *)
(* handler done, response not yet written.                                 *)
(***************************************************************************)
Phases == {"down", "start", "loop", "accept", "read", "reply"}

(***************************************************************************)
(* idle: no connection.  open: connected, request not written.  sent:      *)
(* request written, waiting for the response.  left, gone: the client has  *)
(* closed its end before, after writing its request.                       *)
(***************************************************************************)
ConnStates == {"idle", "open", "sent", "left", "gone"}

TypeOK ==
  /\ session_count \in Nat
  /\ max_sessions \in Nat
  /\ sessions \in [1..max_sessions -> Slot]
  /\ g_reload_config \in BOOLEAN
  /\ phase \in Phases
  /\ client \in Clients \cup {NoClient}
  /\ resp.ok \in BOOLEAN
  /\ sigterm \subseteq Pids
  /\ backlog \in Seq(Clients)
  /\ conn \in [Clients -> ConnStates]
  /\ request \in [Clients -> Requests \cup {NoRequest}]
  /\ config \in Configs

Init ==
  /\ sessions = <<>> /\ session_count = 0 /\ max_sessions = 0
  /\ g_reload_config = FALSE
  /\ phase = "down"
  /\ client = NoClient /\ resp = ZeroResp /\ sigterm = {}
  /\ backlog = <<>>
  /\ conn = [c \in Clients |-> "idle"]
  /\ request = [c \in Clients |-> NoRequest]
  /\ config \in Configs

-----------------------------------------------------------------------------
(* Process life cycle *)

\* The process ends: its memory is gone and every connection is reset.
Die ==
  /\ phase' = "down"
  /\ sessions' = <<>> /\ session_count' = 0 /\ max_sessions' = 0
  /\ g_reload_config' = FALSE
  /\ client' = NoClient /\ resp' = ZeroResp /\ sigterm' = {}
  /\ backlog' = <<>>
  /\ conn' = [c \in Clients |-> "idle"]
  /\ request' = [c \in Clients |-> NoRequest]
  /\ UNCHANGED config

\* main() up to listen(); the pid file lock keeps a second instance from getting here.
Start ==
  /\ phase = "down"
  /\ phase' = "start"
  /\ UNCHANGED <<tableVars, g_reload_config, client, resp, sigterm, socketVars, config>>

\* systemctl stop, a reboot: SIGTERM has its default action.
Stop == phase # "down" /\ Die

\* (int)int64, as gcc converts: reduced modulo 2^w into the range of int.
to_int(v) == ((v + IntMax + 1) % (2 * (IntMax + 1))) - (IntMax + 1)

new_max == IF config.max_sessions > 0 THEN to_int(config.max_sessions)
                                       ELSE DefaultMaxSessions

\* The table follows the config in both directions.
reload_config_shrinking ==
  IF config.readable /\ new_max > 0
  THEN /\ sessions' = grow(sessions, new_max)
       /\ max_sessions' = new_max
  ELSE UNCHANGED <<sessions, max_sessions>>

\* The table only grows.  It stays as it is when the file cannot be read or parsed, when
\* the new limit is not larger, and when realloc fails.
reload_config ==
  \/ /\ config.readable
     /\ new_max > max_sessions
     /\ sessions' = grow(sessions, new_max)
     /\ max_sessions' = new_max
  \/ UNCHANGED <<sessions, max_sessions>>

\* The first load, before the loop; without a table the daemon exits.
LoadConfig_unchecked ==
  /\ phase = "start"
  /\ reload_config
  /\ phase' = "loop"
  /\ UNCHANGED <<session_count, g_reload_config, client, resp, sigterm, socketVars, config>>

LoadConfig ==
  /\ phase = "start"
  /\ reload_config
  /\ max_sessions' > 0
  /\ phase' = "loop"
  /\ UNCHANGED <<session_count, g_reload_config, client, resp, sigterm, socketVars, config>>

\* The config cannot be used or the table cannot be allocated: exit with an error.
LoadFails == phase = "start" /\ Die

-----------------------------------------------------------------------------
(* The accept loop *)

\* The flag is never reset.
LoopTop_keeping_flag ==
  /\ phase = "loop"
  /\ IF g_reload_config THEN reload_config ELSE UNCHANGED <<sessions, max_sessions>>
  /\ phase' = "accept"
  /\ UNCHANGED <<session_count, g_reload_config, client, resp, sigterm, socketVars, config>>

LoopTop ==
  /\ phase = "loop"
  /\ IF g_reload_config THEN reload_config ELSE UNCHANGED <<sessions, max_sessions>>
  /\ g_reload_config' = FALSE
  /\ phase' = "accept"
  /\ UNCHANGED <<session_count, client, resp, sigterm, socketVars, config>>

Accept ==
  /\ phase = "accept"
  /\ backlog # <<>>
  /\ client' = Head(backlog)
  /\ backlog' = Tail(backlog)
  /\ phase' = "read"
  /\ UNCHANGED <<tableVars, g_reload_config, resp, sigterm, conn, request, config>>

\* The loop goes round and the client_fd it holds is still the old one.
CloseClient_keeping_fd ==
  /\ phase' = "loop"
  /\ conn' = [conn EXCEPT ![client] = "idle"]
  /\ request' = [request EXCEPT ![client] = NoRequest]
  /\ resp' = ZeroResp
  /\ sigterm' = {}
  /\ UNCHANGED <<tableVars, client, backlog, config>>

\* close(client_fd): the connection is over for both ends.
CloseClient ==
  /\ phase' = "loop"
  /\ client' = NoClient
  /\ conn' = [conn EXCEPT ![client] = "idle"]
  /\ request' = [request EXCEPT ![client] = NoRequest]
  /\ resp' = ZeroResp
  /\ sigterm' = {}
  /\ UNCHANGED <<tableVars, backlog, config>>

\* Without SO_RCVTIMEO only a client that has closed is dropped.
DropClient_no_timeout ==
  /\ phase = "read"
  /\ conn[client] = "left"
  /\ CloseClient
  /\ UNCHANGED g_reload_config

\* read_all fails: the client closed without a request, or stalled for five seconds.
DropClient ==
  /\ phase = "read"
  /\ conn[client] \in {"open", "left"}
  /\ CloseClient
  /\ UNCHANGED g_reload_config

\* The request has arrived and is of this type; it is read even if its client has gone.
Reading(t) == phase = "read" /\ conn[client] \in {"sent", "gone"} /\ request[client].type = t

\* The handler returns with this response, having signalled these processes.
Respond(r, pids) ==
  /\ resp' = r
  /\ sigterm' = pids
  /\ phase' = "reply"
  /\ UNCHANGED <<max_sessions, g_reload_config, client, socketVars, config>>

OK     == Resp(TRUE, 0, <<>>)
Failed == ZeroResp

Requested == request[client].session

handle_register ==
  LET i == register_slot(sessions, session_count) IN
  /\ Reading("REGISTER")
  /\ ~table_full(sessions, session_count, max_sessions)
  /\ sessions' = put(sessions, i, Requested)
  /\ session_count' = IF i > session_count THEN i ELSE session_count
  /\ Respond(OK, {})

handle_register_full ==
  /\ Reading("REGISTER")
  /\ table_full(sessions, session_count, max_sessions)
  /\ Respond(Failed, {})
  /\ UNCHANGED <<sessions, session_count>>

Found == HasId(sessions, session_count, Requested.container_id) # {}

handle_unregister ==
  LET i == find_session(sessions, session_count, Requested.container_id) IN
  /\ Reading("UNREGISTER")
  /\ Found
  /\ sessions' = deactivate(sessions, {i})
  /\ Respond(OK, {})
  /\ UNCHANGED session_count

\* The slot is freed and the process is never told.
handle_kill_silent ==
  LET i == find_session(sessions, session_count, Requested.container_id) IN
  /\ Reading("KILL")
  /\ Found
  /\ sessions' = deactivate(sessions, {i})
  /\ Respond(OK, {})
  /\ UNCHANGED session_count

handle_kill ==
  LET i == find_session(sessions, session_count, Requested.container_id) IN
  /\ Reading("KILL")
  /\ Found
  /\ sessions' = deactivate(sessions, {i})
  /\ Respond(OK, {sessions[i].session.pid})
  /\ UNCHANGED session_count

handle_not_found ==
  /\ Reading("UNREGISTER") \/ Reading("KILL")
  /\ ~Found
  /\ Respond(Failed, {})
  /\ UNCHANGED <<sessions, session_count>>

handle_kill_user ==
  LET S == OfUser(sessions, session_count, Requested.username) IN
  /\ Reading("KILL_USER")
  /\ sessions' = deactivate(sessions, S)
  /\ Respond(Resp(S # {}, Cardinality(S), <<>>), {sessions[i].session.pid : i \in S})
  /\ UNCHANGED session_count

\* The high-water mark in place of the number of active slots.
handle_count_mark ==
  /\ Reading("COUNT")
  /\ Respond(Resp(TRUE, session_count, <<>>), {})
  /\ UNCHANGED <<sessions, session_count>>

handle_count ==
  /\ Reading("COUNT")
  /\ Respond(Resp(TRUE, Cardinality(ActiveSlots(sessions, session_count)), <<>>), {})
  /\ UNCHANGED <<sessions, session_count>>

handle_list ==
  LET l == Registered(sessions, session_count) IN
  /\ Reading("LIST")
  /\ Respond(Resp(TRUE, Cardinality(ActiveSlots(sessions, session_count)), l), {})
  /\ UNCHANGED <<sessions, session_count>>

handle_unknown ==
  /\ Reading("UNKNOWN")
  /\ Respond(Failed, {})
  /\ UNCHANGED <<sessions, session_count>>

handle_client ==
  \/ handle_register \/ handle_register_full \/ handle_unregister \/ handle_kill
  \/ handle_not_found \/ handle_kill_user \/ handle_count \/ handle_list \/ handle_unknown

\* write_all reaches the client, or fails because it has gone; either way the connection
\* is closed and the loop goes on.
Reply ==
  /\ phase = "reply"
  /\ conn[client] = "gone" => IgnoreSIGPIPE
  /\ CloseClient
  /\ UNCHANGED g_reload_config

\* write_all to a client that has gone, in a daemon that neither handles SIGPIPE nor was
\* started with it ignored.
SigpipeKills ==
  /\ phase = "reply"
  /\ conn[client] = "gone"
  /\ ~IgnoreSIGPIPE
  /\ Die

-----------------------------------------------------------------------------
(* The clients, the administrator and the signals *)

\* caald_connect(): succeeds while the daemon listens.
Connect(c) ==
  /\ phase # "down"
  /\ conn[c] = "idle"
  /\ conn' = [conn EXCEPT ![c] = "open"]
  /\ backlog' = Append(backlog, c)
  /\ UNCHANGED <<tableVars, g_reload_config, phase, client, resp, sigterm, request, config>>

\* send_request() of one of the client library's calls.
SendRequest(c) ==
  /\ conn[c] = "open"
  /\ conn' = [conn EXCEPT ![c] = "sent"]
  /\ \E r \in Requests : request' = [request EXCEPT ![c] = r]
  /\ UNCHANGED <<tableVars, g_reload_config, phase, client, resp, sigterm, backlog, config>>

\* The client process is interrupted or killed; the kernel closes its socket.
HangUp(c) ==
  /\ conn[c] \in {"open", "sent"}
  /\ conn' = [conn EXCEPT ![c] = IF conn[c] = "open" THEN "left" ELSE "gone"]
  /\ UNCHANGED <<tableVars, g_reload_config, phase, client, resp, sigterm, backlog, request, config>>

EditConfig ==
  /\ config' \in Configs
  /\ UNCHANGED <<tableVars, g_reload_config, phase, client, resp, sigterm, socketVars>>

(***************************************************************************)
(* SIGHUP.  Before sigaction() it kills the daemon.  Later the handler     *)
(* sets the flag, and a blocked accept() or read() fails with EINTR; when  *)
(* the signal lands just before the call, the flag is set and the call     *)
(* still blocks.                                                           *)
(***************************************************************************)
SighupKills == phase = "start" /\ Die

on_sighup ==
  /\ phase \notin {"down", "start"}
  /\ g_reload_config' = TRUE
  /\ UNCHANGED <<tableVars, phase, client, resp, sigterm, socketVars, config>>

SighupInterruptsAccept ==
  /\ phase = "accept"
  /\ backlog = <<>>
  /\ g_reload_config' = TRUE
  /\ phase' = "loop"
  /\ UNCHANGED <<tableVars, client, resp, sigterm, socketVars, config>>

SighupInterruptsRead ==
  /\ phase = "read"
  /\ conn[client] = "open"
  /\ g_reload_config' = TRUE
  /\ CloseClient

Sighup == SighupKills \/ on_sighup \/ SighupInterruptsAccept \/ SighupInterruptsRead

-----------------------------------------------------------------------------

\* What the daemon's own thread does once started.
Daemon ==
  \/ LoadConfig \/ LoadFails \/ LoopTop \/ Accept \/ DropClient \/ handle_client
  \/ Reply \/ SigpipeKills

Environment ==
  \/ Start \/ Stop \/ EditConfig \/ Sighup
  \/ \E c \in Clients : Connect(c) \/ SendRequest(c) \/ HangUp(c)

Next == Daemon \/ Environment

Spec == Init /\ [][Next]_vars

\* The daemon's thread is scheduled, and its five second limit on a read elapses; nothing
\* is assumed of clients, signals or the administrator.
FairSpec == Spec /\ WF_vars(Daemon)

-----------------------------------------------------------------------------
(* Properties *)

(***************************************************************************)
(* The table never reaches past what is allocated, nothing is active above *)
(* the high-water mark that every scan stops at, and the loop never runs   *)
(* without a table (caald.c:140-152, 177-198, 421-425).                    *)
(***************************************************************************)
TableInv ==
  /\ session_count <= max_sessions
  /\ \A i \in 1..max_sessions : sessions[i].active =>
       i <= session_count /\ sessions[i].session \in Sessions
  /\ phase \notin {"down", "start"} => max_sessions > 0

(***************************************************************************)
(* The connection in hand is a client's, its whole request has been read   *)
(* before a response exists, and nobody is signalled but by a handler; and *)
(* without its config the daemon has no table (caald.c:326-332, 439-449).  *)
(***************************************************************************)
ServingInv ==
  /\ phase \in {"read", "reply"} <=> client \in Clients
  /\ phase = "reply" => conn[client] \in {"sent", "gone"}
  /\ phase # "reply" => sigterm = {}
  /\ \A c \in Clients : conn[c] \in {"sent", "gone"} => request[c] \in Requests
  /\ phase \in {"down", "start"} => session_count = 0 /\ max_sessions = 0

(***************************************************************************)
(* "max sessions reached" is answered only when every allocated slot holds *)
(* an active session: no sequence of registrations, kills and reloads      *)
(* loses capacity (caald.c:177-192).                                       *)
(***************************************************************************)
RejectOnlyWhenFull ==
  phase = "reply" /\ request[client].type = "REGISTER" /\ ~resp.ok
    => \A i \in 1..max_sessions : sessions[i].active

(***************************************************************************)
(* The count that caalsh compares with its limit, and that heads a list,   *)
(* is the number of active slots of the whole table, although the scan     *)
(* stops at session_count (caald.c:225-233, 242-250).                      *)
(***************************************************************************)
CountIsExact ==
  phase = "reply" /\ request[client].type \in {"COUNT", "LIST"}
    => resp.count = Cardinality({i \in 1..max_sessions : sessions[i].active})

(***************************************************************************)
(* While the daemon lives its capacity never shrinks, and a slot changes   *)
(* only under a request: "active sessions are never lost" to a reload      *)
(* (caald.c:99-103).                                                       *)
(***************************************************************************)
ReloadKeepsSessions ==
  [][phase # "down" /\ phase' # "down" =>
       /\ max_sessions' >= max_sessions
       /\ phase # "read" =>
            \A i \in 1..max_sessions : sessions'[i] = sessions[i]]_vars

(***************************************************************************)
(* A client that has sent its request is not left waiting: it gets its     *)
(* response, or its connection is closed, even behind clients that stall   *)
(* or hang up (caald.c:432-450).                                           *)
(***************************************************************************)
ClientsAreServed == \A c \in Clients : conn[c] = "sent" ~> conn[c] # "sent"

(***************************************************************************)
(* A pending reload is done once a client is waiting: at the latest before *)
(* the next client after it is accepted (caald.c:434-441).                 *)
(***************************************************************************)
ReloadAtNextClient == (g_reload_config /\ backlog # <<>>) ~> ~g_reload_config

(***************************************************************************)
(* A reload asked for by SIGHUP happens (caald.c:93, "reload config on     *)
(* SIGHUP"), whether or not anyone connects.                               *)
(***************************************************************************)
ReloadOnSighup == g_reload_config ~> ~g_reload_config

(***************************************************************************)
(* The daemon implements the registry it promises to be: the table is its  *)
(* set of places, and the response in hand is the answer.                  *)
(***************************************************************************)
Registry == INSTANCE SessionRegistry WITH
  active    <- Registered(sessions, session_count),
  capacity  <- max_sessions,
  answer    <- IF phase = "reply" THEN [req |-> request[client], resp |-> resp]
                                  ELSE [req |-> NoRequest, resp |-> ZeroResp],
  signalled <- sigterm

ImplementsRegistry == Registry!Spec

=============================================================================
