------------------------------ MODULE BufPool ------------------------------
(***************************************************************************)
(* The transmit buffer pool of net/bufpool.c with its callers: the send    *)
(* functions of net/udp6.c and net/icmp6.c, which take one buffer and      *)
(* either give it to the interface or put it back, and the reclaim step    *)
(* of net_poll in net/net.c.                                               *)
(*                                                                         *)
(* Addresses are natural numbers and 0 is NULL.  A buffer is the 2048      *)
(* bytes at its address; the list link is its first word, and callers are  *)
(* given the address of the data that follows it.                          *)
(***************************************************************************)
EXTENDS Naturals

CONSTANTS
    ETH_BUFFERS,      \* number of buffers (4 in include/netboot/bufpool.h)
    eth_buffer_phys,  \* address AllocatePages returned
    Foreign           \* transmit buffers of other users of the interface

Null           == 0
PageSize       == 4096
BufSize        == 2048
LinkSize       == 8
AllocatedPages == 8
ReclaimBelow   == 16

\* AllocatePages returns whole pages, and never page 0.
ASSUME PhysAssumption ==
    /\ eth_buffer_phys \in Nat \ {0}
    /\ eth_buffer_phys % PageSize = 0

\* The eight pages net_bufpool_init asks for, whatever ETH_BUFFERS is, hold
\* sixteen buffers.
ASSUME BuffersAssumption == ETH_BUFFERS \in 1 .. 16

\* Nobody else transmits out of the pool's own allocation.
ASSUME ForeignAssumption ==
    /\ Foreign \subseteq Nat \ {0}
    /\ \A p \in Foreign :
          \/ p < eth_buffer_phys
          \/ p >= eth_buffer_phys + AllocatedPages * PageSize

BufAt(i)          == eth_buffer_phys + BufSize * i
Buffers           == {BufAt(i) : i \in 0 .. ETH_BUFFERS - 1}
Data(b)           == b + LinkSize
BufOf(p)          == p - (p % BufSize)
ETH_BUFFERS_PAGES == (ETH_BUFFERS \div 2) + (ETH_BUFFERS % 2)

\* Mutant: the range ends one page early.
InPoolButLastPage(p) ==
    /\ p >= eth_buffer_phys
    /\ p < eth_buffer_phys + (ETH_BUFFERS_PAGES - 1) * PageSize

InPool(p) ==
    /\ p >= eth_buffer_phys
    /\ p < eth_buffer_phys + ETH_BUFFERS_PAGES * PageSize

VARIABLES
    eth_bufpool,        \* head of the free list
    next,               \* the link word of every buffer
    eth_bufpool_avail,  \* length of the free list, as the code counts it
    seeded,             \* loop counter of net_bufpool_init
    held,               \* data pointer the running send function owns
    pending,            \* data pointers Transmit accepted
    done                \* those transmitted but not yet reported by GetStatus

poolVars == <<eth_bufpool, next, eth_bufpool_avail>>
vars     == <<eth_bufpool, next, eth_bufpool_avail, seeded, held, pending, done>>

Ready == seeded = ETH_BUFFERS

-----------------------------------------------------------------------------
\* Mutant: the address is not rounded down to the buffer.
ReturnUnrounded(p) ==
    /\ next' = [next EXCEPT ![p] = eth_bufpool]
    /\ eth_bufpool' = p
    /\ eth_bufpool_avail' = eth_bufpool_avail + 1

\* Pushes the buffer that contains address p, which need not be its start.
net_bufpool_return(p) ==
    /\ next' = [next EXCEPT ![BufOf(p)] = eth_bufpool]
    /\ eth_bufpool' = BufOf(p)
    /\ eth_bufpool_avail' = eth_bufpool_avail + 1

\* Mutant: the head stays on the list.
GetWithoutPop ==
    /\ eth_bufpool # Null
    /\ held' = Data(eth_bufpool)
    /\ eth_bufpool_avail' = eth_bufpool_avail - 1
    /\ UNCHANGED <<eth_bufpool, next>>

\* Pops the head; with an empty list the code returns NULL and the caller
\* gives up, which changes nothing.
net_bufpool_get ==
    /\ eth_bufpool # Null
    /\ held' = Data(eth_bufpool)
    /\ next' = [next EXCEPT ![eth_bufpool] = Null]
    /\ eth_bufpool' = next[eth_bufpool]
    /\ eth_bufpool_avail' = eth_bufpool_avail - 1

Init ==
    /\ eth_bufpool = Null
    /\ next = [b \in Buffers |-> Null]
    /\ eth_bufpool_avail = 0
    /\ seeded = 0
    /\ held = Null
    /\ pending = {}
    /\ done = {}

\* One turn of the loop of net_bufpool_init, which passes buffer addresses,
\* not data addresses.
net_bufpool_init ==
    /\ seeded < ETH_BUFFERS
    /\ net_bufpool_return(BufAt(seeded))
    /\ seeded' = seeded + 1
    /\ UNCHANGED <<held, pending, done>>

\* A send function starts by taking a buffer.
BeginSend ==
    /\ Ready
    /\ held = Null
    /\ net_bufpool_get
    /\ UNCHANGED <<seeded, pending, done>>

\* The address of the receiver cannot be resolved, or the message is too
\* long: "goto fail" in net_udp6_send and net_icmp6_send.
AbandonSend ==
    /\ held # Null
    /\ net_bufpool_return(held)
    /\ held' = Null
    /\ UNCHANGED <<seeded, pending, done>>

\* Mutant: the sender falls through to its failure path.
SendAndReturn ==
    /\ held # Null
    /\ pending' = pending \cup {held}
    /\ net_bufpool_return(held)
    /\ held' = Null
    /\ UNCHANGED <<seeded, done>>

\* net_eth_send when Transmit queues the frame.
net_eth_send_ok ==
    /\ held # Null
    /\ pending' = pending \cup {held}
    /\ held' = Null
    /\ UNCHANGED <<eth_bufpool, next, eth_bufpool_avail, seeded, done>>

\* net_eth_send when Transmit fails: it takes the buffer back itself.
net_eth_send_error ==
    /\ held # Null
    /\ net_bufpool_return(held)
    /\ held' = Null
    /\ UNCHANGED <<seeded, pending, done>>

\* External: the interface finishes a transmission, in any order.
TransmitDone(p) ==
    /\ pending' = pending \ {p}
    /\ done' = done \cup {p}
    /\ UNCHANGED <<eth_bufpool, next, eth_bufpool_avail, seeded, held>>

\* Mutant: buffers are reclaimed only while some are left.
ReclaimUnlessEmpty(tx_buf) ==
    /\ Ready
    /\ held = Null
    /\ eth_bufpool_avail \in 1 .. ReclaimBelow - 1
    /\ done' = done \ {tx_buf}
    /\ IF InPool(tx_buf)
         THEN net_bufpool_return(tx_buf)
         ELSE UNCHANGED poolVars
    /\ UNCHANGED <<seeded, held, pending>>

\* net_poll, when GetStatus reports the transmit buffer tx_buf.  An error of
\* GetStatus, or a NULL tx_buf, changes nothing.
net_poll_reclaim(tx_buf) ==
    /\ Ready
    /\ held = Null
    /\ eth_bufpool_avail < ReclaimBelow
    /\ done' = done \ {tx_buf}
    /\ IF InPool(tx_buf)
         THEN net_bufpool_return(tx_buf)
         ELSE UNCHANGED poolVars
    /\ UNCHANGED <<seeded, held, pending>>

Next ==
    \/ net_bufpool_init
    \/ BeginSend
    \/ AbandonSend
    \/ net_eth_send_ok
    \/ net_eth_send_error
    \/ \E p \in pending : TransmitDone(p)
    \/ \E p \in done \cup Foreign : net_poll_reclaim(p)

Spec == Init /\ [][Next]_vars

\* The interface eventually completes what it accepted, a started send runs to
\* its end, and net_poll, which the loader calls in a loop, eventually sees
\* every completed buffer.  Nothing is assumed about who sends.
Fairness ==
    /\ WF_vars(net_bufpool_init)
    /\ WF_vars(AbandonSend \/ net_eth_send_ok \/ net_eth_send_error)
    /\ \A b \in Buffers :
          /\ WF_vars(Data(b) \in pending /\ TransmitDone(Data(b)))
          /\ SF_vars(Data(b) \in done /\ net_poll_reclaim(Data(b)))

FairSpec == Spec /\ Fairness

-----------------------------------------------------------------------------
TypeOK ==
    /\ eth_bufpool \in Buffers \cup {Null}
    /\ next \in [Buffers -> Buffers \cup {Null}]
    /\ eth_bufpool_avail \in Nat
    /\ seeded \in 0 .. ETH_BUFFERS
    /\ held \in {Data(b) : b \in Buffers} \cup {Null}
    /\ pending \subseteq {Data(b) : b \in Buffers}
    /\ done \subseteq {Data(b) : b \in Buffers}

\* The owner of a buffer, told from everything but the list itself.
OwnerOf(b) ==
    IF held = Data(b) THEN "stack"
    ELSE IF Data(b) \in pending \cup done THEN "nic"
    ELSE IF b >= BufAt(seeded) THEN "none"
    ELSE "free"

\* The n entries of s are the list that starts at head: following the links
\* meets no buffer twice and ends in NULL after n buffers.
IsList(s, n, head, link) ==
    /\ \A i, j \in 1 .. n : s[i] = s[j] => i = j
    /\ head = IF n = 0 THEN Null ELSE s[1]
    /\ \A i \in 1 .. n : link[s[i]] = IF i = n THEN Null ELSE s[i + 1]

\* The free list is well formed, its length is the counter net_poll consults,
\* and its members are exactly the buffers nobody else owns: no buffer is lost,
\* returned twice, or on the list while the interface still reads it
\* (net_bufpool_return, net_bufpool_get and the error paths of the senders).
FreeListExact ==
    \E s \in [1 .. eth_bufpool_avail -> Buffers] :
        /\ IsList(s, eth_bufpool_avail, eth_bufpool, next)
        /\ \A b \in Buffers :
              OwnerOf(b) = "free" <=> \E i \in 1 .. eth_bufpool_avail : s[i] = b

\* A buffer is with the protocol code, queued in the interface, or completed,
\* never in two of these.
SingleHolder ==
    /\ held \notin pending \cup done
    /\ pending \cap done = {}

\* The list implements the ownership discipline: whatever get and return do to
\* the links, a buffer only passes between owners as BufferOwnership allows.
Ownership == INSTANCE BufferOwnership WITH owner <- [b \in Buffers |-> OwnerOf(b)]
OwnershipSpec == Ownership!Spec

\* An exhausted pool refills: the reclaim step of net_poll brings buffers back
\* even though it handles one per call and skips foreign buffers.
PoolRefills == (Ready /\ eth_bufpool = Null) ~> (eth_bufpool # Null)
=============================================================================
