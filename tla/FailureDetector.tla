-------------------------- MODULE FailureDetector ---------------------------
(***************************************************************************)
(* What the oracle of one box promises: a status per compute node that     *)
(* follows the state machine of health_monitor.h, and a log of its moves.  *)
(* A node is doubted only after its silence, cleared by its next frame,    *)
(* and once the oracle leads every move is in the log, at the moment it is *)
(* made and in the order of the moves.                                     *)
(*                                                                         *)
(* The promise binds for a node as long as the log has room and no         *)
(* announcement of the node came after an entry about it.                  *)
(***************************************************************************)
EXTENDS Integers, Sequences

CONSTANTS
    Nodes, Box,
    UP, SUSPECT, DOWN,
    SuspectAfter, DownAfter,   \* the silence each status asks for
    Longest,                   \* where the silence stops being counted
    Capacity                   \* how many moves the log may hold

VARIABLES
    status,     \* of each node
    silent,     \* how long each node has been silent
    log,        \* the moves recorded
    leads,      \* whether moves are recorded
    excused     \* nodes for which the promise has ended

vars == <<status, silent, log, leads, excused>>

Statuses == {UP, SUSPECT, DOWN}

Bound(n) == n \notin excused /\ Len(log) < Capacity

Init ==
    /\ status = [n \in Nodes |-> UP]
    /\ silent = [n \in Nodes |-> Longest]
    /\ log = <<>> /\ leads = FALSE /\ excused = {}

\* The nodes of S keep their status; nothing is said of unbound ones.
Keep(S) ==
    /\ status' \in [Nodes -> Statuses]
    /\ \A n \in S : Bound(n) => status'[n] = status[n]

Move(n, new) ==
    /\ Bound(n) /\ status'[n] = new /\ Keep(Nodes \ {n})
    /\ log' = IF leads
              THEN Append(log, [node |-> n, box |-> Box, old |-> status[n], new |-> new])
              ELSE log
    /\ UNCHANGED <<leads, excused>>

Suspect(n) ==
    /\ status[n] = UP /\ silent[n] >= SuspectAfter
    /\ Move(n, SUSPECT) /\ UNCHANGED silent

GiveUp(n) ==
    /\ status[n] = SUSPECT /\ silent[n] >= DownAfter
    /\ Move(n, DOWN) /\ UNCHANGED silent

Heard(n) == silent' = [silent EXCEPT ![n] = 0]

Heartbeat(n) ==
    /\ Heard(n)
    /\ \/ status[n] = UP /\ Keep(Nodes) /\ UNCHANGED <<log, leads, excused>>
       \/ status[n] # UP /\ Move(n, UP)

\* An announcement clears its node without a record.
Announce(n) ==
    /\ Heard(n)
    /\ Bound(n) => status'[n] = UP
    /\ Keep(Nodes \ {n})
    /\ \/ UNCHANGED excused
       \/ (\E k \in 1 .. Len(log) : log[k].node = n) /\ excused' = excused \union {n}
    /\ UNCHANGED <<log, leads>>

\* A move of a node the promise does not bind.
Loose(n) ==
    /\ ~Bound(n) /\ Keep(Nodes)
    /\ UNCHANGED silent \/ Heard(n)
    /\ \/ UNCHANGED log
       \/ /\ leads /\ Len(log) < Capacity
          /\ \E old, new \in Statuses :
                log' = Append(log, [node |-> n, box |-> Box, old |-> old, new |-> new])
    /\ UNCHANGED <<leads, excused>>

Wait ==
    /\ silent' = [n \in Nodes |-> IF silent[n] < Longest THEN silent[n] + 1 ELSE silent[n]]
    /\ Keep(Nodes) /\ UNCHANGED <<log, leads, excused>>

Lead == leads' = TRUE /\ Keep(Nodes) /\ UNCHANGED <<silent, log, excused>>

Next ==
    \/ Wait \/ Lead
    \/ \E n \in Nodes :
          Suspect(n) \/ GiveUp(n) \/ Heartbeat(n) \/ Announce(n) \/ Loose(n)

Spec == Init /\ [][Next]_vars
=============================================================================
