-------------------------- MODULE BufferOwnership --------------------------
(***************************************************************************)
(* What the transmit buffer pool promises to its two clients, the network  *)
(* stack and the network interface: a buffer has exactly one owner at any  *)
(* time, and it changes hands only along the edges below.  BufPool, which  *)
(* describes the linked list of net/bufpool.c, implements this module.     *)
(***************************************************************************)
CONSTANT Buffers

VARIABLE owner

\* "none"  : not handed to the pool yet
\* "free"  : on the free list
\* "stack" : held by the protocol code that fills it in
\* "nic"   : given to the interface by Transmit and not recycled yet
Owner == {"none", "free", "stack", "nic"}

TypeOK == owner \in [Buffers -> Owner]

Init == owner = [b \in Buffers |-> "none"]

Pass(b, from, to) ==
    /\ owner[b] = from
    /\ owner' = [owner EXCEPT ![b] = to]

Seed(b)    == Pass(b, "none", "free")
Take(b)    == Pass(b, "free", "stack")
Release(b) == Pass(b, "stack", "free")
Submit(b)  == Pass(b, "stack", "nic")
Recycle(b) == Pass(b, "nic", "free")

Next ==
    \E b \in Buffers :
        Seed(b) \/ Take(b) \/ Release(b) \/ Submit(b) \/ Recycle(b)

Spec == Init /\ [][Next]_owner
=============================================================================
