---------------------------- MODULE FileDelivery ----------------------------
(***************************************************************************)
(* What netbooting promises, seen from the boot volume: the content of the *)
(* files of the list appears on it, each in one step and in the order of   *)
(* the list, and the kernel is started only when all are there, unless     *)
(* somebody asked for the firmware's setup and it was not to be had.  At   *)
(* any time the loader may give up instead.                                *)
(***************************************************************************)
EXTENDS Integers

CONSTANT FileCount

VARIABLES
    delivered,  \* the files of the list that are on the volume
    asked,      \* setup was asked for
    outcome     \* "loading", "booted" or "abandoned"

Init ==
    /\ delivered = {}
    /\ asked = FALSE
    /\ outcome = "loading"

\* File i follows its predecessors.
Adds(i) == delivered = 1 .. i - 1 /\ delivered' = 1 .. i

Deliver ==
    /\ outcome = "loading"
    /\ \E i \in 1 .. FileCount : Adds(i)
    /\ UNCHANGED <<asked, outcome>>

AskSetup ==
    /\ asked' = TRUE
    /\ UNCHANGED <<delivered, outcome>>

BootKernel ==
    /\ outcome = "loading"
    /\ delivered = 1 .. FileCount \/ asked
    /\ outcome' = "booted"
    /\ UNCHANGED <<delivered, asked>>

\* The file being written may have been completed before the error.
Abandon ==
    /\ outcome = "loading"
    /\ outcome' = "abandoned"
    /\ UNCHANGED delivered \/ \E i \in 1 .. FileCount : Adds(i)
    /\ UNCHANGED asked

Next == Deliver \/ AskSetup \/ BootKernel \/ Abandon

Spec == Init /\ [][Next]_<<delivered, asked, outcome>>
=============================================================================
