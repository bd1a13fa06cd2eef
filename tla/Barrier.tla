------------------------------ MODULE Barrier ------------------------------
(***************************************************************************)
(* What login() and syncAllDirectories() are there for: the caller goes on *)
(* only when everyone it waits for has arrived.                            *)
(***************************************************************************)
CONSTANT Party

VARIABLES arrived, passed

Init == arrived = {} /\ passed = FALSE

Arrive(p) == p \notin arrived /\ arrived' = arrived \cup {p} /\ UNCHANGED passed

Pass == arrived = Party /\ passed' = TRUE /\ UNCHANGED arrived

Next == Pass \/ \E p \in Party : Arrive(p)

Spec == Init /\ [][Next]_<<arrived, passed>>
=============================================================================
