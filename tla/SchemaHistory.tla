--------------------------- MODULE SchemaHistory ---------------------------
(***************************************************************************)
(* What opening the local store promises, whatever it takes to get there:  *)
(* the migrations of the database are applied one after the other, each of *)
(* them once and for good, and a local-only store is handed out only when  *)
(* none is missing.                                                        *)
(***************************************************************************)
EXTENDS Naturals

CONSTANTS Opener,        \* the tasks and processes that open the store
          LastVersion    \* the versions to apply are 1..LastVersion

VARIABLES applied,       \* the migrations applied to the database file
          serving        \* the openers that hold a local-only store

Init == applied = {} /\ serving = {}

(* Whoever gets the store finds no migration missing. *)
Served == \A p \in serving' \ serving : applied' = 1..LastVersion

(* The next migration in line is applied; the one that applied the last of *)
(* them has the store in the same moment.                                  *)
Apply(v, p) ==
  /\ v \notin applied
  /\ 1..(v - 1) \subseteq applied
  /\ applied' = applied \union {v}
  /\ serving' \in {serving, serving \union {p}}
  /\ Served

Serve(p) ==
  /\ serving' = serving \union {p}
  /\ UNCHANGED applied
  /\ Served

Release(p) ==
  /\ serving' = serving \ {p}
  /\ UNCHANGED applied

Next == \E p \in Opener : \/ \E v \in 1..LastVersion : Apply(v, p)
                          \/ Serve(p)
                          \/ Release(p)

Spec == Init /\ [][Next]_<<applied, serving>>
=============================================================================
