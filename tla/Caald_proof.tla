----------------------------- MODULE Caald_proof -----------------------------
(***************************************************************************)
(* Proofs about the session daemon, for any number of clients, sessions    *)
(* and table slots and any config files.                                   *)
(***************************************************************************)
EXTENDS Caald, FiniteSetTheorems, WellFoundedInduction, TLAPS

(***************************************************************************)
(* The scans of the table                                                  *)
(***************************************************************************)

\* A scan for the first slot with some property finds the least one (caald.c:155-166, 170-176).
LEMMA MinOfSlots ==
  ASSUME NEW S \in SUBSET Nat, S # {}
  PROVE  Min(S) \in S /\ \A y \in S : Min(S) <= y
<1> DEFINE R == {ss \in Nat \X Nat : ss[1] < ss[2]}
<1>1. IsWellFoundedOn(R, Nat)
  BY NatLessThanWellFounded DEF OpToRel
<1> HIDE DEF R
<1>2. PICK x \in S : \A y \in S : <<y, x>> \notin R
  BY <1>1, WFMin
<1>3. ASSUME NEW y \in S, y < x PROVE FALSE
  <2>1. <<y, x>> \in Nat \X Nat /\ <<y, x>>[1] = y /\ <<y, x>>[2] = x
    OBVIOUS
  <2>2. <<y, x>> \in R
    BY <1>3, <2>1, Zenon DEF R
  <2> QED
    BY <1>2, <2>2
<1>4. \A y \in S : x <= y
  BY <1>3
<1> QED
  BY <1>4 DEF Min

\* find_session returns an active slot with the id it was asked for (caald.c:155-166).
LEMMA FindSession ==
  ASSUME NEW tab, NEW n \in Nat, NEW id, HasId(tab, n, id) # {}
  PROVE  find_session(tab, n, id) \in HasId(tab, n, id)
BY MinOfSlots DEF find_session, HasId, ActiveSlots

\* handle_register writes to a slot that holds no session, in the allocated part of the
\* table, and the slots up to it have all been used (caald.c:170-187).
LEMMA RegisterSlot ==
  ASSUME NEW tab, NEW n \in Nat, NEW max \in Nat, n <= max, ~table_full(tab, n, max)
  PROVE  LET i == register_slot(tab, n)
         IN  i \in 1..max /\ i \notin ActiveSlots(tab, n) /\ i <= n + 1
<1>1. CASE FreeSlots(tab, n) # {}
  <2>1. Min(FreeSlots(tab, n)) \in FreeSlots(tab, n)
    BY <1>1, MinOfSlots DEF FreeSlots
  <2> QED
    BY <1>1, <2>1 DEF register_slot, FreeSlots, ActiveSlots
<1>2. CASE FreeSlots(tab, n) = {}
  BY <1>2 DEF register_slot, table_full, ActiveSlots
<1> QED
  BY <1>1, <1>2

(***************************************************************************)
(* Type correctness and the inductive invariant                            *)
(***************************************************************************)

\* (int) turns the 64-bit limit into an integer (caald.c:120-122).
LEMMA NewMaxType == TypeOK => new_max \in Int
<1> SUFFICES ASSUME TypeOK PROVE new_max \in Int
  OBVIOUS
<1>1. config.max_sessions \in Int
  BY ConfigsAssumption DEF TypeOK
<1>2. to_int(config.max_sessions) \in Int
  BY <1>1, IntAssumption DEF to_int
<1> QED
  BY <1>2, DefaultAssumption DEF new_max

\* What realloc and memset return is a table of the new size (caald.c:140-152).
LEMMA GrowType ==
  ASSUME NEW m \in Nat, NEW tab \in [1..m -> Slot], NEW max \in Nat
  PROVE  grow(tab, max) \in [1..max -> Slot]
BY DEF grow, Slot, ZeroSlot

\* Freeing slots keeps a table a table (caald.c:217, 289, 306).
LEMMA DeactivateType ==
  ASSUME NEW m \in Nat, NEW tab \in [1..m -> Slot], NEW S
  PROVE  deactivate(tab, S) \in [1..m -> Slot]
BY DEF deactivate, Slot

\* So does filling one (caald.c:189-193).
LEMMA PutType ==
  ASSUME NEW m \in Nat, NEW tab \in [1..m -> Slot], NEW i, NEW e \in Sessions
  PROVE  put(tab, i, e) \in [1..m -> Slot]
BY DEF put, Slot

\* A reload enlarges the table or leaves it alone: the old slots keep their contents and
\* the new ones are free (caald.c:99-153).
LEMMA ReloadConfig ==
  ASSUME TypeOK, reload_config
  PROVE  /\ max_sessions' \in Nat
         /\ max_sessions' >= max_sessions
         /\ sessions' \in [1..max_sessions' -> Slot]
         /\ \A i \in 1..max_sessions : sessions'[i] = sessions[i]
         /\ \A i \in 1..max_sessions' : i > max_sessions => ~sessions'[i].active
         /\ max_sessions' = max_sessions => sessions' = sessions
<1>1. CASE UNCHANGED <<sessions, max_sessions>>
  BY <1>1 DEF TypeOK
<1>2. CASE /\ new_max > max_sessions
           /\ sessions' = grow(sessions, new_max)
           /\ max_sessions' = new_max
  <2>1. new_max \in Nat /\ max_sessions \in Nat /\ sessions \in [1..max_sessions -> Slot]
    BY <1>2, NewMaxType DEF TypeOK
  <2>2. sessions' \in [1..max_sessions' -> Slot]
    BY <1>2, <2>1, GrowType
  <2>3. \A i \in 1..new_max :
          sessions'[i] = IF i \in 1..max_sessions THEN sessions[i] ELSE ZeroSlot
    BY <1>2, <2>1 DEF grow
  <2> QED
    BY <1>2, <2>1, <2>2, <2>3 DEF ZeroSlot
<1> QED
  BY <1>1, <1>2 DEF reload_config

\* What a whole request is (caald_client.c:59-168).
LEMMA RequestFacts ==
  ASSUME NEW r \in Requests
  PROVE  /\ r.type # "NONE"
         /\ r # NoRequest
         /\ r.type = "REGISTER" => r.session \in Sessions
         /\ r.type \in {"REGISTER", "UNREGISTER", "KILL", "KILL_USER", "COUNT", "LIST", "UNKNOWN"}
BY DEF Requests, NoRequest, Req, RegisterReq, UnregisterReq, KillReq, KillUserReq, CountReq,
       ListReq, UnknownReq

\* The invariant that a step needs to preserve the safety properties: they speak of the
\* response in hand, which is right only because the table is well formed and the request
\* it answers cannot change under it.
IInv == TypeOK /\ TableInv /\ ServingInv

\* The process ends in a state like the initial one (caald.c:366-425).
LEMMA DieFacts == TypeOK /\ Die => IInv'
<1> SUFFICES ASSUME TypeOK, Die PROVE IInv'
  OBVIOUS
<1>1. sessions' \in [1..max_sessions' -> Slot]
  BY DEF Die
<1>a. conn' \in [Clients -> ConnStates] /\ request' \in [Clients -> Requests \cup {NoRequest}]
  BY DEF Die, ConnStates
<1>b. resp'.ok \in BOOLEAN /\ backlog' \in Seq(Clients) /\ config' \in Configs
  BY DEF Die, TypeOK, ZeroResp, Resp
<1>2. TypeOK'
  BY <1>1, <1>a, <1>b DEF Die, TypeOK, Phases
<1>3. TableInv'
  BY DEF Die, TableInv
<1>4. ServingInv'
  BY ClientsAssumption DEF Die, ServingInv
<1> QED
  BY <1>2, <1>3, <1>4 DEF IInv

\* The daemon starts from such a state.
LEMMA InitIInv == Init => IInv
<1> SUFFICES ASSUME Init PROVE IInv
  OBVIOUS
<1>1. sessions \in [1..max_sessions -> Slot]
  BY DEF Init
<1>a. conn \in [Clients -> ConnStates] /\ request \in [Clients -> Requests \cup {NoRequest}]
  BY DEF Init, ConnStates
<1>b. resp.ok \in BOOLEAN /\ backlog \in Seq(Clients) /\ config \in Configs
  BY DEF Init, TypeOK, ZeroResp, Resp
<1>2. TypeOK
  BY <1>1, <1>a, <1>b DEF Init, TypeOK, Phases
<1>3. TableInv
  BY DEF Init, TableInv
<1>4. ServingInv
  BY ClientsAssumption DEF Init, ServingInv
<1> QED
  BY <1>2, <1>3, <1>4 DEF IInv

\* Closing the connection in hand (caald.c:449).
LEMMA CloseClientFacts ==
  ASSUME IInv, CloseClient, g_reload_config' \in BOOLEAN, phase \in {"read", "reply"}
  PROVE  IInv'
<1> USE DEF IInv
<1>1. TypeOK'
  BY DEF CloseClient, TypeOK, ZeroResp, Resp, Phases, ConnStates, tableVars
<1>2. TableInv'
  BY DEF CloseClient, TableInv, tableVars
<1>3. ServingInv'
  BY ClientsAssumption DEF CloseClient, ServingInv, TypeOK
<1> QED
  BY <1>1, <1>2, <1>3

\* What all handlers have in common: a whole request becomes a response.
Responding ==
  /\ phase = "read" /\ phase' = "reply"
  /\ conn[client] \in {"sent", "gone"}
  /\ resp'.ok \in BOOLEAN
  /\ UNCHANGED <<max_sessions, g_reload_config, client, socketVars, config>>

\* A handler that leaves the table as it is.
LEMMA RespondFacts ==
  ASSUME IInv, Responding, sigterm' = {}, UNCHANGED <<sessions, session_count>>
  PROVE  IInv'
<1> USE DEF IInv
<1>1. TypeOK'
  BY DEF Responding, TypeOK, Phases, socketVars
<1>2. TableInv'
  BY DEF Responding, TableInv, socketVars
<1>3. ServingInv'
  BY DEF Responding, ServingInv, socketVars
<1> QED
  BY <1>1, <1>2, <1>3

\* A handler that frees slots and signals the processes in them.
LEMMA DeactivateFacts ==
  ASSUME IInv, Responding,
         NEW S \in SUBSET ActiveSlots(sessions, session_count),
         sigterm' \subseteq {sessions[i].session.pid : i \in S},
         sessions' = deactivate(sessions, S), session_count' = session_count
  PROVE  IInv'
<1> USE DEF IInv
<1>1. sessions' \in [1..max_sessions -> Slot]
  BY DeactivateType DEF TypeOK
<1>2. sigterm' \subseteq Pids
  BY DEF Pids, ActiveSlots, TableInv, TypeOK
<1>3. TypeOK'
  BY <1>1, <1>2 DEF Responding, TypeOK, Phases, socketVars
<1>4. \A i \in 1..max_sessions : /\ sessions'[i].active => sessions[i].active
                               /\ sessions'[i].session = sessions[i].session
  BY DEF deactivate, TypeOK, Slot
<1>5. TableInv'
  BY <1>4 DEF Responding, TableInv, socketVars
<1>6. ServingInv'
  BY DEF Responding, ServingInv, socketVars
<1> QED
  BY <1>3, <1>5, <1>6

\* A registration fills a free slot, and the mark rises to it when it was the next one
\* (caald.c:168-202).
LEMMA RegisterFacts == IInv /\ handle_register => IInv'
<1> SUFFICES ASSUME IInv, handle_register PROVE IInv'
  OBVIOUS
<1> USE DEF IInv
<1> DEFINE i == register_slot(sessions, session_count)
<1>1. /\ i \in 1..max_sessions /\ i <= session_count + 1
      /\ session_count \in Nat /\ max_sessions \in Nat
  BY RegisterSlot DEF handle_register, TypeOK, TableInv
<1>2. Requested \in Sessions
  BY RequestFacts DEF handle_register, Reading, ServingInv, Requested
<1>3. /\ sessions' = put(sessions, i, Requested)
      /\ session_count' = IF i > session_count THEN i ELSE session_count
      /\ Reading("REGISTER") /\ Respond(OK, {})
  BY DEF handle_register
<1> HIDE DEF i
<1>4. sessions' \in [1..max_sessions -> Slot]
  BY <1>2, <1>3, PutType DEF TypeOK
<1>5. \A j \in 1..max_sessions :
        sessions'[j] = IF j = i THEN [session |-> Requested, active |-> TRUE] ELSE sessions[j]
  BY <1>3 DEF put, TypeOK
<1>6. session_count' \in Nat /\ session_count' <= max_sessions /\ i <= session_count'
      /\ session_count <= session_count'
  BY <1>1, <1>3 DEF TableInv
<1>7. TypeOK'
  BY <1>3, <1>4, <1>6 DEF Respond, TypeOK, Phases, OK, Resp, socketVars
<1>8. TableInv'
  <2>1. max_sessions' = max_sessions /\ max_sessions > 0
    BY <1>3 DEF Respond, Reading, TableInv
  <2>2. ASSUME NEW j \in 1..max_sessions, sessions'[j].active
        PROVE  j <= session_count' /\ sessions'[j].session \in Sessions
    BY <1>1, <1>2, <1>5, <1>6, <2>2 DEF TableInv
  <2> QED
    BY <1>6, <2>1, <2>2 DEF TableInv
<1>9. ServingInv'
  BY <1>3 DEF Respond, Reading, ServingInv, socketVars
<1> QED
  BY <1>7, <1>8, <1>9

\* Every handler (caald.c:322-364).
LEMMA HandleClientFacts == IInv /\ handle_client => IInv'
<1> SUFFICES ASSUME IInv, handle_client PROVE IInv'
  OBVIOUS
<1>n. session_count \in Nat
  BY DEF IInv, TypeOK
<1> USE DEF Respond, Reading, Responding, OK, Failed, ZeroResp, Resp
<1>1. CASE handle_register
  BY <1>1, RegisterFacts
<1>2. CASE handle_register_full
  BY <1>2, RespondFacts DEF handle_register_full
<1>3. CASE handle_unregister
  <2> DEFINE i == find_session(sessions, session_count, Requested.container_id)
  <2>1. {i} \in SUBSET ActiveSlots(sessions, session_count)
    BY <1>3, <1>n, FindSession DEF handle_unregister, Found, HasId
  <2> QED
    BY <1>3, <2>1, DeactivateFacts DEF handle_unregister
<1>4. CASE handle_kill
  <2> DEFINE i == find_session(sessions, session_count, Requested.container_id)
  <2>1. {i} \in SUBSET ActiveSlots(sessions, session_count)
    BY <1>4, <1>n, FindSession DEF handle_kill, Found, HasId
  <2> QED
    BY <1>4, <2>1, DeactivateFacts DEF handle_kill
<1>5. CASE handle_not_found
  BY <1>5, RespondFacts DEF handle_not_found
<1>6. CASE handle_kill_user
  <2> DEFINE S == OfUser(sessions, session_count, Requested.username)
  <2>1. S \in SUBSET ActiveSlots(sessions, session_count)
    BY DEF OfUser
  <2> QED
    BY <1>6, <2>1, DeactivateFacts DEF handle_kill_user
<1>7. CASE handle_count
  BY <1>7, RespondFacts DEF handle_count
<1>8. CASE handle_list
  BY <1>8, RespondFacts DEF handle_list
<1>9. CASE handle_unknown
  BY <1>9, RespondFacts DEF handle_unknown
<1> QED
  BY <1>1, <1>2, <1>3, <1>4, <1>5, <1>6, <1>7, <1>8, <1>9 DEF handle_client

\* The table that a reload leaves satisfies the invariant (caald.c:99-153).
LEMMA ReloadFacts ==
  ASSUME IInv, reload_config, session_count' = session_count,
         g_reload_config' \in BOOLEAN, max_sessions' > 0,
         phase \in {"start", "loop"}, phase' \in {"loop", "accept"},
         UNCHANGED <<client, resp, sigterm, socketVars, config>>
  PROVE  IInv'
<1> USE DEF IInv
<1>1. TypeOK'
  BY ReloadConfig DEF TypeOK, Phases, socketVars
<1>2. TableInv'
  BY ReloadConfig DEF TypeOK, TableInv
<1>3. ServingInv'
  BY DEF ServingInv, socketVars
<1> QED
  BY <1>1, <1>2, <1>3

\* Clients, the administrator and SIGHUP do not touch the table, nor the connection and
\* the request being answered (caald_client.c:16-65, caald.c:93-97).
LEMMA OutsideFacts ==
  ASSUME IInv, NEW c \in Clients, Connect(c) \/ SendRequest(c) \/ HangUp(c)
  PROVE  IInv'
<1> USE DEF IInv
<1>1. CASE Connect(c)
  <2>1. backlog' \in Seq(Clients)
    BY <1>1 DEF Connect, TypeOK
  <2>2. TypeOK'
    BY <1>1, <2>1 DEF Connect, TypeOK, ConnStates, tableVars
  <2>3. TableInv' /\ ServingInv'
    BY <1>1 DEF Connect, TypeOK, TableInv, ServingInv, tableVars
  <2> QED
    BY <2>2, <2>3
<1>2. CASE SendRequest(c)
  <2>1. PICK r \in Requests : request' = [request EXCEPT ![c] = r]
    BY <1>2 DEF SendRequest
  <2>2. TypeOK'
    BY <1>2, <2>1 DEF SendRequest, TypeOK, ConnStates, tableVars
  <2>3. TableInv'
    BY <1>2 DEF SendRequest, TableInv, tableVars
  <2>4. ServingInv'
    BY <1>2, <2>1 DEF SendRequest, TypeOK, ServingInv, tableVars
  <2> QED
    BY <2>2, <2>3, <2>4
<1>3. CASE HangUp(c)
  <2>1. TypeOK'
    BY <1>3 DEF HangUp, TypeOK, ConnStates, tableVars
  <2>2. TableInv'
    BY <1>3 DEF HangUp, TableInv, tableVars
  <2>3. ServingInv'
    BY <1>3 DEF HangUp, TypeOK, ServingInv, tableVars
  <2> QED
    BY <2>1, <2>2, <2>3
<1> QED
  BY <1>1, <1>2, <1>3

\* The inductive step.
LEMMA NextIInv == IInv /\ [Next]_vars => IInv'
<1> SUFFICES ASSUME IInv, [Next]_vars PROVE IInv'
  OBVIOUS
<1>t. TypeOK
  BY DEF IInv
<1>1. CASE Start
  BY <1>1 DEF Start, IInv, TypeOK, TableInv, ServingInv, Phases, tableVars, socketVars
<1>2. CASE Stop \/ LoadFails \/ SigpipeKills \/ SighupKills
  BY <1>2, <1>t, DieFacts DEF Stop, LoadFails, SigpipeKills, SighupKills
<1>3. CASE LoadConfig
  BY <1>3, <1>t, ReloadFacts DEF LoadConfig, TypeOK
<1>4. CASE LoopTop
  <2>1. reload_config /\ g_reload_config' \in BOOLEAN
    BY <1>4 DEF LoopTop, reload_config
  <2>2. max_sessions' > 0
    BY <1>4, <1>t, <2>1, ReloadConfig DEF LoopTop, IInv, TableInv, TypeOK
  <2> QED
    BY <1>4, <2>1, <2>2, ReloadFacts DEF LoopTop
<1>5. CASE Accept
  <2>1. client' \in Clients /\ backlog' \in Seq(Clients)
    BY <1>5, <1>t DEF Accept, TypeOK
  <2>2. TypeOK'
    BY <1>5, <1>t, <2>1 DEF Accept, TypeOK, Phases, tableVars
  <2>3. TableInv' /\ ServingInv'
    BY <1>5, <2>1 DEF Accept, IInv, TableInv, ServingInv, tableVars
  <2> QED
    BY <2>2, <2>3 DEF IInv
<1>6. CASE DropClient \/ Reply
  BY <1>6, <1>t, CloseClientFacts DEF DropClient, Reply, TypeOK
<1>7. CASE handle_client
  BY <1>7, HandleClientFacts
<1>8. CASE EditConfig
  BY <1>8 DEF EditConfig, IInv, TypeOK, TableInv, ServingInv, tableVars, socketVars
<1>9. CASE on_sighup \/ SighupInterruptsAccept
  BY <1>9 DEF on_sighup, SighupInterruptsAccept, IInv, TypeOK, TableInv, ServingInv, Phases,
              tableVars, socketVars
<1>10. CASE SighupInterruptsRead
  BY <1>10, CloseClientFacts DEF SighupInterruptsRead
<1>11. CASE \E c \in Clients : Connect(c) \/ SendRequest(c) \/ HangUp(c)
  BY <1>11, OutsideFacts
<1>12. CASE UNCHANGED vars
  BY <1>12 DEF vars, IInv, TypeOK, TableInv, ServingInv, tableVars, socketVars
<1> QED
  BY <1>1, <1>2, <1>3, <1>4, <1>5, <1>6, <1>7, <1>8, <1>9, <1>10, <1>11, <1>12
     DEF Next, Daemon, Environment, Sighup

\* Every state the daemon reaches is well formed.
THEOREM Invariant == Spec => []IInv
BY InitIInv, NextIInv, PTL DEF Spec

\* Type correctness: whatever is registered, killed, reloaded or cut short, the table has
\* exactly the slots that max_sessions says (caald.c:39-50, 140-152).
THEOREM TypeCorrect == Spec => []TypeOK
<1>1. IInv => TypeOK
  BY DEF IInv
<1> QED
  BY <1>1, Invariant, PTL

\* The scans of the table never leave it, and see every active session
\* (caald.c:140-152, 177-198, 421-425).
THEOREM TableSafe == Spec => []TableInv
<1>1. IInv => TableInv
  BY DEF IInv
<1> QED
  BY <1>1, Invariant, PTL

\* One client at a time is served, and its signals are sent before the next one's request is
\* looked at (caald.c:322-364, 432-450).
THEOREM ServesOne == Spec => []ServingInv
<1>1. IInv => ServingInv
  BY DEF IInv
<1> QED
  BY <1>1, Invariant, PTL

(***************************************************************************)
(* What the responses say                                                  *)
(***************************************************************************)

\* A response comes from a handler, and until it is written neither it nor the request it
\* answers nor the table changes: the daemon is one thread and a client has one request
\* per connection (caald.c:322-364, 432-450).
LEMMA ReplyStable ==
  ASSUME IInv, [Next]_vars, phase' = "reply", ~handle_client
  PROVE  phase = "reply" /\ UNCHANGED <<tableVars, resp, sigterm, client, request[client]>>
<1> USE DEF tableVars, socketVars
<1>1. CASE \E c \in Clients : Connect(c) \/ SendRequest(c) \/ HangUp(c)
  <2>1. PICK c \in Clients : Connect(c) \/ SendRequest(c) \/ HangUp(c)
    BY <1>1
  <2>2. CASE Connect(c) \/ HangUp(c)
    BY <2>2 DEF Connect, HangUp
  <2>3. CASE SendRequest(c)
    <3>1. phase = "reply" /\ client # c
      BY <2>3 DEF SendRequest, IInv, ServingInv
    <3>2. PICK r : request' = [request EXCEPT ![c] = r]
      BY <2>3 DEF SendRequest
    <3>3. client' = client /\ client \in Clients /\ request \in [Clients -> Requests \cup {NoRequest}]
      BY <2>3, <3>1 DEF SendRequest, IInv, TypeOK, ServingInv
    <3>4. request'[client] = request[client]
      BY <3>1, <3>2, <3>3
    <3> QED
      BY <2>3, <3>1, <3>3, <3>4 DEF SendRequest
  <2> QED
    BY <2>1, <2>2, <2>3
<1>2. CASE Daemon
  BY <1>2 DEF Daemon, LoadConfig, LoadFails, LoopTop, Accept, DropClient, Reply, SigpipeKills,
              Die, CloseClient
<1>3. CASE Start \/ Stop \/ EditConfig \/ Sighup
  BY <1>3 DEF Start, Stop, EditConfig, Sighup, SighupKills, on_sighup, SighupInterruptsAccept,
              SighupInterruptsRead, Die, CloseClient
<1>4. CASE UNCHANGED vars
  BY <1>4 DEF vars
<1> QED
  BY <1>1, <1>2, <1>3, <1>4 DEF Next, Environment

\* The slots that a scan up to session_count finds active are all that are
\* (caald.c:225-233).
LEMMA AllActive ==
  ASSUME IInv
  PROVE  ActiveSlots(sessions, session_count) = {i \in 1..max_sessions : sessions[i].active}
BY DEF IInv, TypeOK, TableInv, ActiveSlots

\* "max sessions reached" is answered with every slot taken (caald.c:177-192).
LEMMA RejectStep == IInv /\ RejectOnlyWhenFull /\ [Next]_vars => RejectOnlyWhenFull'
<1> SUFFICES ASSUME IInv, RejectOnlyWhenFull, [Next]_vars, phase' = "reply",
                    request'[client'].type = "REGISTER", ~resp'.ok
             PROVE  \A i \in 1..max_sessions' : sessions'[i].active
  BY DEF RejectOnlyWhenFull
<1>1. CASE handle_client
  <2>1. request[client].type = "REGISTER"
    BY <1>1 DEF handle_client, handle_register, handle_register_full, handle_unregister,
                handle_kill, handle_not_found, handle_kill_user, handle_count, handle_list,
                handle_unknown, Respond, socketVars
  <2>2. handle_register \/ handle_register_full
    BY <1>1, <2>1 DEF handle_client, handle_register, handle_register_full, handle_unregister,
                handle_kill, handle_not_found, handle_kill_user, handle_count, handle_list,
                handle_unknown, Reading
  <2>3. handle_register_full
    BY <2>2 DEF handle_register, Respond, OK, Resp
  <2>4. session_count = max_sessions /\ FreeSlots(sessions, session_count) = {}
    BY <2>3 DEF handle_register_full, table_full, IInv, TypeOK, TableInv
  <2> QED
    BY <2>3, <2>4 DEF handle_register_full, Respond, FreeSlots, IInv, TypeOK, Slot
<1>2. CASE ~handle_client
  BY <1>2, ReplyStable DEF RejectOnlyWhenFull, tableVars
<1> QED
  BY <1>1, <1>2

\* A count is the number of active slots of the whole table (caald.c:225-233, 242-250).
LEMMA CountStep == IInv /\ CountIsExact /\ [Next]_vars => CountIsExact'
<1> SUFFICES ASSUME IInv, CountIsExact, [Next]_vars, phase' = "reply",
                    request'[client'].type \in {"COUNT", "LIST"}
             PROVE  resp'.count = Cardinality({i \in 1..max_sessions' : sessions'[i].active})
  BY DEF CountIsExact
<1>1. CASE handle_client
  <2>1. request[client].type \in {"COUNT", "LIST"}
    BY <1>1 DEF handle_client, handle_register, handle_register_full, handle_unregister,
                handle_kill, handle_not_found, handle_kill_user, handle_count, handle_list,
                handle_unknown, Respond, socketVars
  <2>2. handle_count \/ handle_list
    BY <1>1, <2>1 DEF handle_client, handle_register, handle_register_full, handle_unregister,
                handle_kill, handle_not_found, handle_kill_user, handle_count, handle_list,
                handle_unknown, Reading
  <2>3. /\ resp'.count = Cardinality(ActiveSlots(sessions, session_count))
        /\ max_sessions' = max_sessions /\ sessions' = sessions
    BY <2>2 DEF handle_count, handle_list, Respond, Resp
  <2> QED
    BY <2>3, AllActive
<1>2. CASE ~handle_client
  BY <1>2, ReplyStable DEF CountIsExact, tableVars
<1> QED
  BY <1>1, <1>2

\* No sequence of registrations, kills, reloads and lost clients loses capacity: a
\* registration fails only when every allocated slot holds a session (caald.c:177-192).
THEOREM NoCapacityLost == Spec => []RejectOnlyWhenFull
<1>1. Init => RejectOnlyWhenFull
  BY DEF Init, RejectOnlyWhenFull
<1> QED
  BY <1>1, Invariant, RejectStep, PTL DEF Spec

\* The number that caalsh compares with its limit is exact at the moment the daemon
\* computes it (caald.c:225-233).
THEOREM CountExact == Spec => []CountIsExact
<1>1. Init => CountIsExact
  BY DEF Init, CountIsExact
<1> QED
  BY <1>1, Invariant, CountStep, PTL DEF Spec

(***************************************************************************)
(* What a step may do to the table                                         *)
(***************************************************************************)

\* Outside a handler the table of a living daemon changes only by growing.
LEMMA TableStep ==
  ASSUME IInv, [Next]_vars, phase # "down", phase' # "down", ~handle_client
  PROVE  \/ UNCHANGED tableVars
         \/ /\ phase \in {"start", "loop"} /\ phase' \in {"loop", "accept"}
            /\ reload_config
            /\ UNCHANGED <<session_count, resp, sigterm>>
BY DEF Next, Daemon, Environment, LoadConfig, LoadFails, LoopTop, Accept, DropClient, Reply,
       SigpipeKills, Start, Stop, EditConfig, Sighup, SighupKills, on_sighup,
       SighupInterruptsAccept, SighupInterruptsRead, Die, CloseClient, Connect, SendRequest,
       HangUp, vars, tableVars

\* "Active sessions are never lost": capacity never shrinks and slots change only under a
\* request (caald.c:99-103, 132-139).
THEOREM ReloadSafe == Spec => ReloadKeepsSessions
<1> DEFINE Keeps ==
      phase # "down" /\ phase' # "down" =>
        /\ max_sessions' >= max_sessions
        /\ phase # "read" => \A i \in 1..max_sessions : sessions'[i] = sessions[i]
<1>1. ASSUME IInv, [Next]_vars PROVE Keeps
  <2> SUFFICES ASSUME phase # "down", phase' # "down"
               PROVE  /\ max_sessions' >= max_sessions
                      /\ phase # "read" => \A i \in 1..max_sessions : sessions'[i] = sessions[i]
    OBVIOUS
  <2>t. TypeOK
    BY <1>1 DEF IInv
  <2>1. CASE handle_client
    <3>1. phase = "read" /\ max_sessions' = max_sessions
      BY <2>1 DEF handle_client, handle_register, handle_register_full, handle_unregister,
                  handle_kill, handle_not_found, handle_kill_user, handle_count, handle_list,
                  handle_unknown, Reading, Respond
    <3> QED
      BY <3>1, <2>t DEF TypeOK
  <2>2. CASE UNCHANGED tableVars
    BY <2>2, <2>t DEF tableVars, TypeOK
  <2>3. CASE reload_config
    BY <2>3, <2>t, ReloadConfig
  <2> QED
    BY <1>1, <2>1, <2>2, <2>3, TableStep
<1>2. IInv /\ [Next]_vars => [Keeps]_vars
  BY <1>1
<1> QED
  BY <1>2, Invariant, PTL DEF Spec, ReloadKeepsSessions

-----------------------------------------------------------------------------
(***************************************************************************)
(* The daemon implements the registry that its clients rely on: every step *)
(* of Caald is a step of SessionRegistry or leaves it unchanged.           *)
(***************************************************************************)

\* The places taken, and the answer in hand, as Caald maps them.
Active == Registered(sessions, session_count)
Answer == IF phase = "reply" THEN [req |-> request[client], resp |-> resp]
                             ELSE [req |-> NoRequest, resp |-> ZeroResp]

\* The instance speaks of the same requests and responses.
LEMMA SameProtocol ==
  /\ Registry!Requests = Requests
  /\ Registry!NoAnswer = [req |-> NoRequest, resp |-> ZeroResp]
BY DEF Registry!Requests, Requests, Registry!NoAnswer, Registry!NoRequest, NoRequest,
       Registry!Req, Req, Registry!ZeroSession, ZeroSession, Registry!ZeroResp, ZeroResp,
       Registry!Resp, Resp, Registry!RegisterReq, RegisterReq, Registry!UnregisterReq,
       UnregisterReq, Registry!KillReq, KillReq, Registry!KillUserReq, KillUserReq,
       Registry!CountReq, CountReq, Registry!ListReq, ListReq, Registry!UnknownReq, UnknownReq,
       Registry!Users, Users, Registry!Ids, Ids

\* It counts the same way.
LEMMA SameCardinality == ASSUME NEW S PROVE Registry!Cardinality(S) = Cardinality(S)
BY DEF Registry!Cardinality, Cardinality

\* A table that has never been used has no session in it (caald.c:46-49).
LEMMA NoPlaces == ASSUME NEW tab PROVE Registered(tab, 0) = <<>>
<1>1. ActiveSlots(tab, 0) = {}
  BY DEF ActiveSlots
<1>2. ASSUME NEW f, f = Registered(tab, 0) PROVE f = <<>>
  <2>1. DOMAIN f = {} /\ f = [i \in DOMAIN f |-> f[i]]
    BY <1>1, <1>2 DEF Registered
  <2> QED
    BY <2>1
<1> QED
  BY <1>2

\* The daemon starts as an empty registry.
LEMMA InitRefines == Init => Registry!Init
BY NoPlaces, SameProtocol DEF Init, Registry!Init

\* A daemon that dies takes its registry with it.
LEMMA DieRefines == Die => Registry!Close
BY NoPlaces, SameProtocol DEF Die, Registry!Close

\* While a handler runs the registry is open and between two answers.
LEMMA ReadingFacts ==
  ASSUME IInv, NEW t, Reading(t)
  PROVE  /\ request[client] \in Requests
         /\ request[client].type = t
         /\ Answer = [req |-> NoRequest, resp |-> ZeroResp]
         /\ max_sessions > 0
<1>1. client \in Clients /\ conn[client] \in {"sent", "gone"} /\ phase = "read"
  BY DEF IInv, ServingInv, Reading
<1> QED
  BY <1>1 DEF IInv, ServingInv, TableInv, Reading, Answer

\* The sessions that a table reports are those of all its active slots.
LEMMA Places ==
  ASSUME NEW tab, NEW n \in Nat, NEW max \in Nat, n <= max,
         \A i \in 1..max : tab[i].active => i <= n
  PROVE  /\ DOMAIN Registered(tab, n) = {i \in 1..max : tab[i].active}
         /\ Registered(tab, n) = [p \in {i \in 1..max : tab[i].active} |-> tab[p].session]
<1>1. ActiveSlots(tab, n) = {i \in 1..max : tab[i].active}
  BY DEF ActiveSlots
<1> QED
  BY <1>1 DEF Registered

\* The places of the registry and the sessions in them, before and after a step.
LEMMA ActiveFacts ==
  ASSUME IInv
  PROVE  /\ DOMAIN Active = {i \in 1..max_sessions : sessions[i].active}
         /\ Active = [p \in {i \in 1..max_sessions : sessions[i].active} |-> sessions[p].session]
BY Places DEF Active, IInv, TypeOK, TableInv

\* The same of the state that a step leads to.
LEMMA ActiveFactsAfter ==
  ASSUME IInv'
  PROVE  /\ DOMAIN Active' = {i \in 1..max_sessions' : sessions'[i].active}
         /\ Active' = [p \in {i \in 1..max_sessions' : sessions'[i].active} |-> sessions'[p].session]
BY Places DEF Active, IInv, TypeOK, TableInv

\* Freeing slots empties just these places (caald.c:217, 289, 306).
LEMMA DeactivateRefines ==
  ASSUME IInv, IInv', NEW S \in SUBSET DOMAIN Active, max_sessions' = max_sessions,
         sessions' = deactivate(sessions, S)
  PROVE  Active' = [p \in DOMAIN Active \ S |-> Active[p]]
<1>1. sessions \in [1..max_sessions -> Slot] /\ sessions' \in [1..max_sessions -> Slot]
  BY DEF IInv, TypeOK
<1>2. \A i \in 1..max_sessions :
        /\ sessions'[i].active <=> (i \notin S /\ sessions[i].active)
        /\ sessions'[i].session = sessions[i].session
  BY <1>1 DEF deactivate, Slot
<1>3. {i \in 1..max_sessions : sessions'[i].active} = DOMAIN Active \ S
  BY <1>2, ActiveFacts
<1>4. \A p \in DOMAIN Active \ S : sessions'[p].session = Active[p]
  BY <1>2, ActiveFacts
<1> QED
  BY <1>3, <1>4, ActiveFactsAfter

\* A registration takes an empty place (caald.c:168-202).
LEMMA RegisterRefines ==
  ASSUME IInv, IInv', handle_register
  PROVE  Registry!Register(request[client])
<1> DEFINE i == register_slot(sessions, session_count)
<1>1. i \in 1..max_sessions /\ i \notin ActiveSlots(sessions, session_count)
  BY RegisterSlot DEF handle_register, IInv, TypeOK, TableInv
<1>2. /\ sessions' = put(sessions, i, Requested)
      /\ Reading("REGISTER")
      /\ resp' = OK /\ sigterm' = {} /\ phase' = "reply" /\ max_sessions' = max_sessions
      /\ request' = request /\ client' = client
  BY DEF handle_register, Respond, socketVars
<1> HIDE DEF i
<1>3. \A j \in 1..max_sessions :
        sessions'[j] = IF j = i THEN [session |-> Requested, active |-> TRUE] ELSE sessions[j]
  BY <1>2 DEF put, IInv, TypeOK
<1>4. i \in (1..max_sessions) \ DOMAIN Active
  BY <1>1 DEF Active, Registered
<1>5. {j \in 1..max_sessions : sessions'[j].active} = DOMAIN Active \cup {i}
  BY <1>3, <1>4, ActiveFacts
<1>6. \A j \in DOMAIN Active \cup {i} :
        sessions'[j].session = IF j = i THEN Requested ELSE Active[j]
  BY <1>3, <1>4, ActiveFacts
<1>7. Active' = [j \in DOMAIN Active \cup {i} |-> IF j = i THEN Requested ELSE Active[j]]
  BY <1>2, <1>5, <1>6, ActiveFactsAfter
<1>8. Answer' = [req |-> request[client], resp |-> Resp(TRUE, 0, <<>>)]
  BY <1>2 DEF Answer, OK
<1>9. /\ request[client].type = "REGISTER" /\ max_sessions > 0
      /\ Answer = [req |-> NoRequest, resp |-> ZeroResp]
  BY <1>2, ReadingFacts
<1> QED
  BY <1>2, <1>4, <1>7, <1>8, <1>9, SameProtocol
     DEF Registry!Register, Registry!Serving, Registry!Answer, Registry!Resp, Resp, Active,
         Answer, Requested

\* A registration is rejected when no place is empty (caald.c:183-191).
LEMMA RejectRefines ==
  ASSUME IInv, handle_register_full
  PROVE  Registry!RejectFull(request[client])
<1>1. /\ Reading("REGISTER")
      /\ UNCHANGED <<sessions, session_count, max_sessions, request, client>>
      /\ resp' = Failed /\ sigterm' = {} /\ phase' = "reply"
  BY DEF handle_register_full, Respond, socketVars
<1>2. 1..max_sessions \subseteq DOMAIN Active
  BY ActiveFacts DEF handle_register_full, table_full, FreeSlots, IInv, TypeOK, TableInv, Slot
<1>3. Answer' = [req |-> request[client], resp |-> Resp(FALSE, 0, <<>>)]
  BY <1>1 DEF Answer, Failed, ZeroResp
<1>4. /\ request[client].type = "REGISTER" /\ max_sessions > 0
      /\ Answer = [req |-> NoRequest, resp |-> ZeroResp]
  BY <1>1, ReadingFacts
<1> QED
  BY <1>1, <1>2, <1>3, <1>4, SameProtocol
     DEF Registry!RejectFull, Registry!Serving, Registry!Answer, Registry!Resp, Resp, Active,
         Answer

\* Unregistering and killing empty the place that find_session found, and a kill signals
\* the process of the session in it (caald.c:204-220, 273-292).
LEMMA RemoveRefines ==
  ASSUME IInv, IInv', handle_unregister \/ handle_kill
  PROVE  Registry!Remove(request[client])
<1> DEFINE i == find_session(sessions, session_count, Requested.container_id)
           t == request[client].type
<1>1. /\ t \in {"UNREGISTER", "KILL"} /\ Reading(t) /\ Found
      /\ sessions' = deactivate(sessions, {i})
      /\ UNCHANGED <<max_sessions, request, client>>
      /\ resp' = OK /\ phase' = "reply"
      /\ sigterm' = IF t = "KILL" THEN {sessions[i].session.pid} ELSE {}
  BY DEF handle_unregister, handle_kill, Reading, Respond, socketVars
<1>2. i \in HasId(sessions, session_count, Requested.container_id)
  BY <1>1, FindSession DEF Found, IInv, TypeOK
<1> HIDE DEF i
<1>3. i \in DOMAIN Active /\ Active[i] = sessions[i].session
      /\ sessions[i].session.container_id = Requested.container_id
  BY <1>2 DEF HasId, Active, Registered
<1>4. Active' = [p \in DOMAIN Active \ {i} |-> Active[p]]
  BY <1>1, <1>3, DeactivateRefines
<1>5. Answer' = [req |-> request[client], resp |-> Resp(TRUE, 0, <<>>)]
  BY <1>1 DEF Answer, OK
<1>6. max_sessions > 0 /\ Answer = [req |-> NoRequest, resp |-> ZeroResp]
  BY <1>1, ReadingFacts
<1> QED
  BY <1>1, <1>3, <1>4, <1>5, <1>6, SameProtocol
     DEF Registry!Remove, Registry!Serving, Registry!Answer, Registry!Resp, Resp,
         Registry!Holds, Registry!Without, Active, Answer, Requested

\* They fail when no session has the id (caald.c:207-211, 280-284).
LEMMA NotFoundRefines ==
  ASSUME IInv, handle_not_found
  PROVE  Registry!NotFound(request[client])
<1> DEFINE t == request[client].type
<1>1. /\ t \in {"UNREGISTER", "KILL"} /\ Reading(t) /\ ~Found
      /\ UNCHANGED <<sessions, session_count, max_sessions, request, client>>
      /\ resp' = Failed /\ sigterm' = {} /\ phase' = "reply"
  BY DEF handle_not_found, Reading, Respond, socketVars
<1>2. \A p \in DOMAIN Active : Active[p].container_id # Requested.container_id
  BY <1>1 DEF Found, HasId, Active, Registered
<1>3. Answer' = [req |-> request[client], resp |-> Resp(FALSE, 0, <<>>)]
  BY <1>1 DEF Answer, Failed, ZeroResp
<1>4. max_sessions > 0 /\ Answer = [req |-> NoRequest, resp |-> ZeroResp]
  BY <1>1, ReadingFacts
<1> QED
  BY <1>1, <1>2, <1>3, <1>4, SameProtocol
     DEF Registry!NotFound, Registry!Serving, Registry!Answer, Registry!Resp, Resp,
         Registry!Holds, Active, Answer, Requested

\* Killing a user empties the places of the user's sessions and signals their processes
\* (caald.c:294-320).
LEMMA RemoveUserRefines ==
  ASSUME IInv, IInv', handle_kill_user
  PROVE  Registry!RemoveUser(request[client])
<1> DEFINE S == OfUser(sessions, session_count, Requested.username)
           P == {p \in DOMAIN Active : Active[p].username = Requested.username}
<1>1. /\ Reading("KILL_USER")
      /\ sessions' = deactivate(sessions, S)
      /\ UNCHANGED <<max_sessions, request, client>>
      /\ resp' = Resp(S # {}, Cardinality(S), <<>>) /\ phase' = "reply"
      /\ sigterm' = {sessions[i].session.pid : i \in S}
  BY DEF handle_kill_user, Respond, socketVars
<1>2. S = P /\ P \subseteq DOMAIN Active /\ \A p \in P : Active[p] = sessions[p].session
  BY DEF OfUser, Active, Registered
<1>3. P = {p \in DOMAIN Active : Active[p].username = request[client].session.username}
  BY DEF Requested
<1> HIDE DEF S, P
<1>4. Active' = [p \in DOMAIN Active \ P |-> Active[p]]
  BY <1>1, <1>2, DeactivateRefines
<1>5. Answer' = [req |-> request[client], resp |-> Resp(P # {}, Cardinality(P), <<>>)]
  BY <1>1, <1>2 DEF Answer
<1>6. /\ request[client].type = "KILL_USER" /\ max_sessions > 0
      /\ Answer = [req |-> NoRequest, resp |-> ZeroResp]
  BY <1>1, ReadingFacts
<1>7. sigterm' = {Active[p].pid : p \in P}
  BY <1>1, <1>2
<1> QED
  BY <1>1, <1>3, <1>4, <1>5, <1>6, <1>7, SameProtocol, SameCardinality
     DEF Registry!RemoveUser, Registry!Serving, Registry!Answer, Registry!Resp, Resp,
         Registry!Without, Active, Answer

\* Counting and listing report the places taken (caald.c:222-271).
LEMMA ReportRefines ==
  ASSUME IInv, handle_count \/ handle_list
  PROVE  Registry!Report(request[client])
<1> DEFINE t == request[client].type
           n == Cardinality(DOMAIN Active)
<1>1. /\ t \in {"COUNT", "LIST"} /\ Reading(t)
      /\ UNCHANGED <<sessions, session_count, max_sessions, request, client>>
      /\ resp' = Resp(TRUE, n, IF t = "LIST" THEN Active ELSE <<>>)
      /\ sigterm' = {} /\ phase' = "reply"
  BY DEF handle_count, handle_list, Reading, Respond, socketVars, Active, Registered
<1>2. Answer' = [req  |-> request[client],
                 resp |-> Resp(TRUE, n, IF t = "LIST" THEN Active ELSE <<>>)]
  BY <1>1 DEF Answer
<1>3. max_sessions > 0 /\ Answer = [req |-> NoRequest, resp |-> ZeroResp]
  BY <1>1, ReadingFacts
<1> QED
  BY <1>1, <1>2, <1>3, SameProtocol, SameCardinality
     DEF Registry!Report, Registry!Serving, Registry!Answer, Registry!Resp, Resp, Active, Answer

\* A request of no known type fails (caald.c:357-360).
LEMMA RefuseRefines ==
  ASSUME IInv, handle_unknown
  PROVE  Registry!Refuse(request[client])
<1>1. /\ Reading("UNKNOWN")
      /\ UNCHANGED <<sessions, session_count, max_sessions, request, client>>
      /\ resp' = Failed /\ sigterm' = {} /\ phase' = "reply"
  BY DEF handle_unknown, Respond, socketVars
<1>2. Answer' = [req |-> request[client], resp |-> Resp(FALSE, 0, <<>>)]
  BY <1>1 DEF Answer, Failed, ZeroResp
<1>3. /\ request[client].type = "UNKNOWN" /\ max_sessions > 0
      /\ Answer = [req |-> NoRequest, resp |-> ZeroResp]
  BY <1>1, ReadingFacts
<1> QED
  BY <1>1, <1>2, <1>3, SameProtocol
     DEF Registry!Refuse, Registry!Serving, Registry!Answer, Registry!Resp, Resp, Active, Answer

\* Every handler is one service of the registry (caald.c:322-364).
LEMMA HandleClientRefines ==
  ASSUME IInv, IInv', handle_client
  PROVE  Registry!Next
<1>1. request[client] \in Registry!Requests
  BY ReadingFacts, SameProtocol
     DEF handle_client, handle_register, handle_register_full, handle_unregister, handle_kill,
         handle_not_found, handle_kill_user, handle_count, handle_list, handle_unknown
<1>2. Registry!Serve(request[client])
  BY RegisterRefines, RejectRefines, RemoveRefines, NotFoundRefines, RemoveUserRefines,
     ReportRefines, RefuseRefines DEF handle_client, Registry!Serve
<1> QED
  BY <1>1, <1>2 DEF Registry!Next

\* A reload adds places or changes nothing that a client can see (caald.c:99-153).
LEMMA ReloadRefines ==
  ASSUME IInv, IInv', reload_config, session_count' = session_count,
         phase # "reply", phase' # "reply", sigterm' = sigterm
  PROVE  Registry!Enlarge \/ UNCHANGED Registry!registryVars
<1>1. /\ max_sessions \in Nat /\ max_sessions' \in Nat /\ max_sessions' >= max_sessions
      /\ \A i \in 1..max_sessions : sessions'[i] = sessions[i]
      /\ \A i \in 1..max_sessions' : i > max_sessions => ~sessions'[i].active
  BY ReloadConfig DEF IInv, TypeOK
<1>2. {i \in 1..max_sessions' : sessions'[i].active} = {i \in 1..max_sessions : sessions[i].active}
  BY <1>1
<1>3. Active' = Active
  BY <1>1, <1>2, ActiveFacts, ActiveFactsAfter
<1> QED
  BY <1>1, <1>3, SameProtocol
     DEF Registry!Enlarge, Registry!registryVars, Active

\* The answer leaves, or its client has gone (caald.c:362-363, 449).
LEMMA ReplyRefines ==
  ASSUME IInv, Reply
  PROVE  Registry!Answered
<1>1. request[client] # NoRequest
  BY RequestFacts DEF IInv, ServingInv, Reply
<1>2. phase = "reply" /\ phase' # "reply" /\ sigterm' = {} /\ UNCHANGED tableVars
  BY DEF Reply, CloseClient
<1> QED
  BY <1>1, <1>2, SameProtocol DEF Registry!Answered, tableVars

\* Every step of the daemon and of what surrounds it is a step of the registry, or one that
\* it does not see.
LEMMA NextRefines ==
  ASSUME IInv, IInv', [Next]_vars
  PROVE  [Registry!Next]_(Registry!registryVars)
<1> USE DEF tableVars, socketVars
<1>1. CASE handle_client
  BY <1>1, HandleClientRefines
<1>2. CASE phase' = "reply" /\ ~handle_client
  <2>1. phase = "reply" /\ UNCHANGED <<tableVars, resp, sigterm, client, request[client]>>
    BY <1>2, ReplyStable
  <2> QED
    BY <1>2, <2>1 DEF Registry!registryVars
<1>3. CASE Die
  BY <1>3, DieRefines DEF Registry!Next
<1>4. CASE Reply
  BY <1>4, ReplyRefines DEF Registry!Next
<1>5. CASE LoadConfig \/ LoopTop
  <2>1. reload_config /\ UNCHANGED <<session_count, sigterm>> /\ phase # "reply" /\ phase' # "reply"
    BY <1>5 DEF LoadConfig, LoopTop, reload_config
  <2> QED
    BY <2>1, ReloadRefines DEF Registry!Next
<1>6. CASE DropClient \/ SighupInterruptsRead
  <2>1. phase = "read" /\ sigterm = {}
    BY <1>6 DEF DropClient, SighupInterruptsRead, IInv, ServingInv
  <2> QED
    BY <1>6, <2>1 DEF DropClient, SighupInterruptsRead, CloseClient, Registry!registryVars
<1>7. CASE /\ phase' # "reply"
           /\ \/ Start \/ Accept \/ EditConfig \/ on_sighup \/ SighupInterruptsAccept
              \/ (\E c \in Clients : Connect(c) \/ SendRequest(c) \/ HangUp(c))
              \/ UNCHANGED vars
  <2>1. phase # "reply" /\ UNCHANGED <<sessions, session_count, max_sessions, sigterm>>
    BY <1>7 DEF Start, Accept, EditConfig, on_sighup, SighupInterruptsAccept, Connect,
                SendRequest, HangUp, vars
  <2> QED
    BY <1>7, <2>1 DEF Registry!registryVars
<1> QED
  BY <1>1, <1>2, <1>3, <1>4, <1>5, <1>6, <1>7
     DEF Next, Daemon, Environment, Sighup, Stop, LoadFails, SigpipeKills, SighupKills

\* The daemon implements the registry: requests are served one at a time, each on the state
\* the earlier ones left, registrations fail only when every place is taken, and sessions
\* leave only by the requests that name them (caald.c:168-364).
THEOREM Implementation == Spec => ImplementsRegistry
<1>1. IInv /\ IInv' /\ [Next]_vars => [Registry!Next]_(Registry!registryVars)
  BY NextRefines
<1> QED
  BY <1>1, InitRefines, Invariant, PTL DEF Spec, ImplementsRegistry, Registry!Spec

=============================================================================
