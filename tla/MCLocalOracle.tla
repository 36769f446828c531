--------------------------- MODULE MCLocalOracle ---------------------------
(* A statement of the repository about LocalOracle that TLC refutes. *)
EXTENDS LocalOracle

\* "Updates table and emits 0x88B6 health event" (health_monitor.h): applying
\* a committed failure broadcasts a MSG_FAILURE_EVENT.
FailureEventsEmitted ==
    [][applied' # applied /\ log[applied'].new = NODE_DOWN =>
           emits_event(table, log[applied'])]_vars
=============================================================================
