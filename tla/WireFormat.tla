----------------------------- MODULE WireFormat -----------------------------
(***************************************************************************)
(* A health transition on its way through the bytes of the protocol: the   *)
(* leader packs it into the data of a log entry, cb_send_appendentries()   *)
(* copies the data into the record of wire_format.h, the dispatcher hands  *)
(* the rest of that record to the library as the data of the follower's    *)
(* entry, and cb_applylog() unpacks it.  A follower that becomes leader    *)
(* sends on what it got, so an entry may travel several times.             *)
(*                                                                         *)
(* Packed structures are sequences of bytes, little-endian as on both      *)
(* targets; offsets count from 0 as in C.                                  *)
(***************************************************************************)
EXTENDS Integers, Sequences

CONSTANTS
    NodeIds, BoxIds,    \* bytes
    TermSet, TimeSet,   \* 32-bit values
    MAX_HOPS            \* how often the entry is sent on

\* The values of a uint32_t: the highest of its four bytes is a byte.
Words == {x \in Nat : x \div 16777216 < 256}

ASSUME WireConstants ==
    /\ NodeIds \subseteq 0 .. 255 /\ BoxIds \subseteq 0 .. 255
    /\ TermSet \subseteq Words /\ TimeSet \subseteq Words
    /\ MAX_HOPS \in Nat

VARIABLES
    update,     \* the transition that was proposed
    data,       \* entry.data at the server that has the entry last
    wire,       \* the record it came in, <<>> before the first hop
    spilled,    \* bytes cb_send_appendentries() wrote behind its buffer
    hops

vars == <<update, data, wire, spilled, hops>>

Statuses == 0 .. 2
Updates ==
    [target_node_id : NodeIds, target_box_id : BoxIds, old_status : Statuses,
     new_status : Statuses, term : TermSet, timestamp_ms : TimeSet]

\* The bytes of a uint32_t, and back.
Bytes4(x) ==
    <<x % 256, (x \div 256) % 256, (x \div 65536) % 256, (x \div 16777216) % 256>>
Value4(b) == b[1] + 256 * b[2] + 65536 * b[3] + 16777216 * b[4]

Zeros(n) == [i \in 1 .. n |-> 0]
Least(a, b) == IF a < b THEN a ELSE b

\* n bytes of s from offset o on.
At(s, o, n) == SubSeq(s, o + 1, o + n)

-----------------------------------------------------------------------------
(* The structures *)

sizeof_health_update == 12
sizeof_log_entry == 28
offsetof_target == 9

\* payload_health_update_t
health_update(u) ==
    <<u.target_node_id, u.target_box_id, u.old_status, u.new_status>>
    \o Bytes4(u.term) \o Bytes4(u.timestamp_ms)

\* Mutant of copied: cut to the offset of the copy instead of its room.
copied_less(d) == SubSeq(d, 1, Least(Len(d), offsetof_target))

\* The bytes of the data that cb_send_appendentries() copies.
copied(d) == SubSeq(d, 1, Least(Len(d), sizeof_log_entry - 8))

\* raft_log_entry_wire_t, and whatever is written behind it.
written(d, term, type) ==
    LET c == copied(d)
        room == sizeof_log_entry - offsetof_target
    IN  Bytes4(term) \o Bytes4(0) \o <<type>> \o c
        \o Zeros(IF Len(c) < room THEN room - Len(c) ELSE 0)

\* Mutant of received: the length is taken from the offset of entry_type.
received_more(w) == At(w, offsetof_target, sizeof_log_entry - offsetof_target) \o <<0>>

\* The data of the follower's entry: everything from target_node_id on.
received(w) == At(w, offsetof_target, sizeof_log_entry - offsetof_target)

\* What cb_applylog() takes out of an entry, if it is long enough.
Applies(d) == Len(d) >= sizeof_health_update
applied(d) ==
    [target_node_id |-> d[1], target_box_id |-> d[2], old_status |-> d[3],
     new_status |-> d[4], term |-> Value4(At(d, 4, 4)), timestamp_ms |-> Value4(At(d, 8, 4))]

-----------------------------------------------------------------------------

\* oracle_propose_health_transition() at the leader.
Init ==
    /\ update \in Updates
    /\ data = health_update(update)
    /\ wire = <<>> /\ spilled = 0 /\ hops = 0

\* cb_send_appendentries() at one server, the dispatcher at the next.
\* RAFT_LOGTYPE_NORMAL is 0.
Replicate ==
    /\ hops < MAX_HOPS
    /\ LET bytes == written(data, update.term, 0)
       IN  /\ wire' = At(bytes, 0, sizeof_log_entry)
           /\ spilled' = spilled + (Len(bytes) - sizeof_log_entry)
           /\ data' = received(wire')
    /\ hops' = hops + 1
    /\ UNCHANGED update

Next == Replicate

Spec == Init /\ [][Next]_vars

-----------------------------------------------------------------------------
(* Properties *)

\* However often it is sent on, a transition is applied as it was proposed.
EntrySurvives == Applies(data) /\ applied(data) = update

\* The copy is cut to one byte more than there is room for behind
\* target_node_id; no entry is ever long enough to use that byte.
NeverSpills == spilled = 0
=============================================================================
