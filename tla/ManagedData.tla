---------------------------- MODULE ManagedData ----------------------------
(***************************************************************************)
(* What the storage promises across the upgrade from JSON files to SQLite: *)
(* one switch that is never taken back, the same records before and after  *)
(* it, and no other change of the records than one written at a time.      *)
(***************************************************************************)
CONSTANT Rows       \* records there can be

VARIABLES
    backend,    \* which store is in force
    rows        \* the records it holds

Init == backend = "json" /\ rows \in SUBSET Rows

Enable == backend = "json" /\ backend' = "sqlite" /\ UNCHANGED rows

Write == /\ \E r \in Rows : rows' \in {rows \cup {r}, rows \ {r}}
         /\ UNCHANGED backend

Next == Enable \/ Write

Spec == Init /\ [][Next]_<<backend, rows>>
=============================================================================
