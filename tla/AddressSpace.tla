---------------------------- MODULE AddressSpace ----------------------------
(***************************************************************************)
(* What a set of page tables promises: a partial map from virtual to       *)
(* physical pages in which mapping a page changes that page only.          *)
(***************************************************************************)
CONSTANTS Pages, Frames, Flags

VARIABLE map

Unmapped == [present |-> FALSE]

Init == map = [p \in Pages |-> Unmapped]

MapPage(p, f, flags) ==
    map' = [map EXCEPT ![p] = [present |-> TRUE, frame |-> f, flags |-> flags]]

Next == \E p \in Pages, f \in Frames, flags \in Flags : MapPage(p, f, flags)

Spec == Init /\ [][Next]_map
=============================================================================
