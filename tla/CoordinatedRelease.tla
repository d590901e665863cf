-------------------------- MODULE CoordinatedRelease --------------------------
(***************************************************************************)
(* What a coordinated release promises, whatever workflows bring it about: *)
(* its four packages become available one by one and stay so, a producer   *)
(* never before the specification it needs, and the release is announced   *)
(* once, when all four are there (docs/releasing.md).                      *)
(***************************************************************************)
CONSTANTS Package, SpecOf(_)

VARIABLES available, announced

SpecFirst == \A p \in available : SpecOf(p) \in available

Init == available \in SUBSET Package /\ SpecFirst /\ announced = FALSE

Appear(p) ==
    /\ p \notin available
    /\ SpecOf(p) \in available \cup {p}
    /\ available' = available \cup {p}
    /\ UNCHANGED announced

Announce == available = Package /\ announced' = TRUE /\ UNCHANGED available

Next == Announce \/ \E p \in Package : Appear(p)

Spec == Init /\ [][Next]_<< available, announced >>
================================================================================
