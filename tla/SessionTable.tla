---------------------------- MODULE SessionTable ----------------------------
(***************************************************************************)
(* The session table of caald (src/src/caald.c): a fixed array of slots of *)
(* which the first n (session_count, a high-water mark) have ever been     *)
(* used, and the lookups and updates its handlers perform on it.  The      *)
(* array is a function on 1..max, so C's sessions[i] is tab[i + 1].        *)
(***************************************************************************)
EXTENDS CaaldProto, FiniteSets, FiniteSetsExt

\* A session_t: what handle_register writes, and the flag that says the slot is taken.
\* start_time is only ever displayed and is left out.
Slot     == [session : Sessions \cup {ZeroSession}, active : BOOLEAN]
ZeroSlot == [session |-> ZeroSession, active |-> FALSE]

\* The slots below session_count that hold a session, and those that do not.
ActiveSlots(tab, n) == {i \in 1..n : tab[i].active}
FreeSlots(tab, n)   == {i \in 1..n : ~tab[i].active}

\* The active slots with this container id, or of this user.
HasId(tab, n, id) == {i \in ActiveSlots(tab, n) : tab[i].session.container_id = id}
OfUser(tab, n, u) == {i \in ActiveSlots(tab, n) : tab[i].session.username = u}

\* The first active slot with this id, where there is one.
find_session(tab, n, id) == Min(HasId(tab, n, id))

\* handle_register takes the first inactive slot, or else the slot after the last used.
register_slot(tab, n) == IF FreeSlots(tab, n) # {} THEN Min(FreeSlots(tab, n)) ELSE n + 1

\* It gives up when it finds neither.
table_full_at_mark(tab, n, max) == n >= max
table_full(tab, n, max) == FreeSlots(tab, n) = {} /\ n >= max

put(tab, i, e) == [tab EXCEPT ![i] = [session |-> e, active |-> TRUE]]

\* s->active = 0 for the slots in S; their strings stay behind.
deactivate(tab, S) ==
  [i \in DOMAIN tab |-> IF i \in S THEN [tab[i] EXCEPT !.active = FALSE] ELSE tab[i]]

\* realloc and memset in reload_config: the old slots are kept, the new ones zeroed.
\* (grow_unassigned: the enlarged table is never stored back.)
grow_unassigned(tab, max) == tab
grow(tab, max) == [i \in 1..max |-> IF i \in DOMAIN tab THEN tab[i] ELSE ZeroSlot]

\* The sessions the table reports, by slot: the part of it that clients can observe.
Registered(tab, n) == [i \in ActiveSlots(tab, n) |-> tab[i].session]

=============================================================================
