------------------------------- MODULE Paging -------------------------------
(***************************************************************************)
(* The page tables loader/paging.c builds for the kernel.                  *)
(*                                                                         *)
(* Addresses are page numbers: of virtual addresses all VirtualPages       *)
(* (2^52), of which only the canonical ones, a low and a high half of      *)
(* Entries^4 / 2 pages each, can be translated.  A table is a function     *)
(* from 0 .. Entries - 1 to entries; the frames of the tables are numbered *)
(* in the order of their allocation and frame 0 is the pml4.  The frames   *)
(* that get mapped are disjoint from them.                                 *)
(***************************************************************************)
EXTENDS Naturals, FiniteSets

CONSTANTS
    Entries,       \* entries of a table (512)
    Spans,         \* how often the reach of the tables fits in 64 bits (2^16)
    Pages,         \* virtual pages the loader may map
    Frames,        \* physical pages it may map them to
    Flags,         \* combinations of flags it uses
    MaxTables      \* bound: tables there is memory for

\* The pages an entry of a table of each level stands for, and those of one
\* half of the address space.
Reach == <<1, Entries, Entries * Entries, Entries * Entries * Entries>>
Half  == (Entries \div 2) * Reach[4]

VirtualPages    == Spans * (2 * Half)
HighHalf        == VirtualPages - Half
Canonical(page) == page < Half \/ page >= HighHalf
RecursiveSlot   == Entries - 2

\* What the processor does with a page number: level 4 selects the entry of
\* the pml4, level 1 that of the last table.
HardwareIndex(page, level) == (page \div Reach[level]) % Entries

\* The loader never maps a page of the recursive slot (its callers pass
\* identity-mapped memory, the stack, and the addresses the kernel asks for).
ASSUME PagesAssumption ==
    /\ Entries \in Nat /\ Entries > 2 /\ Entries % 2 = 0
    /\ Spans \in Nat \ {0}
    /\ \A p \in Pages :
          /\ p \in 0 .. VirtualPages - 1 /\ Canonical(p)
          /\ HardwareIndex(p, 4) # RecursiveSlot

VARIABLES
    tables,  \* the tables allocated so far
    exited   \* memory ran out and EFIERR left the loader

vars == <<tables, exited>>

Absent     == [present |-> FALSE]
Zeroed     == [x \in 0 .. Entries - 1 |-> Absent]
Entry(f,a) == [present |-> TRUE, frame |-> f, flags |-> a]

\* Mutant: the upper half of the pml4 is used for low addresses too.
FlatIndices(page, level) ==
    IF level = 4 THEN (Entries \div 2) + ((page \div Reach[4]) % (Entries \div 2))
    ELSE (page \div Reach[level]) % Entries

mm_virtual_indices(page, level) ==
    LET addr == IF page >= HighHalf THEN page - HighHalf ELSE page
        base == IF page >= HighHalf /\ level = 4 THEN Entries \div 2 ELSE 0
    IN base + ((addr \div Reach[level]) % Entries)

loader_paging_setup ==
    tables = [t \in {0} |->
                [Zeroed EXCEPT ![RecursiveSlot] = Entry(0, {"PRESENT", "WRITE"})]]

\* uefi_alloc_pages(1): another table, all zero.
WithTable(T) == [t \in 0 .. Cardinality(DOMAIN T) |->
                    IF t \in DOMAIN T THEN T[t] ELSE Zeroed]

\* Mutant: the entry gets the table allocated before the new one.
LinkFirst(T, t, x) ==
    IF T[t][x].present THEN T
    ELSE [WithTable(T) EXCEPT ![t][x] = Entry(Cardinality(DOMAIN T) - 1,
                                               {"PRESENT", "WRITE"})]

\* Mutant: a table that is there already is replaced by a new one.
LinkAlways(T, t, x) ==
    [WithTable(T) EXCEPT ![t][x] = Entry(Cardinality(DOMAIN T), {"PRESENT", "WRITE"})]

\* The tables T once entry x of table t leads to a table of the next level.
Link(T, t, x) ==
    IF T[t][x].present THEN T
    ELSE [WithTable(T) EXCEPT ![t][x] = Entry(Cardinality(DOMAIN T),
                                               {"PRESENT", "WRITE"})]

\* From a table of some level to one of the next, which is made if need be.
Descend(d, page, level) ==
    LET x == mm_virtual_indices(page, level)
        T == Link(d.tables, d.at, x)
    IN [tables |-> T, at |-> T[d.at][x].frame]

\* The tables and the current table at each level, pml4 to pml1.
Descent(page) ==
    LET d4 == [tables |-> tables, at |-> 0]
        d3 == Descend(d4, page, 4)
        d2 == Descend(d3, page, 3)
        d1 == Descend(d2, page, 2)
    IN <<d1, d2, d3, d4>>

loader_paging_map(frame, page, flags) ==
    LET d == Descent(page)[1] IN
    /\ Cardinality(DOMAIN d.tables) <= MaxTables
    /\ tables' = [d.tables EXCEPT ![d.at][mm_virtual_indices(page, 1)] =
                                      Entry(frame, flags)]
    /\ UNCHANGED exited

\* The allocation of the table below one of some level fails.
MapFails(page) ==
    /\ \E level \in 2 .. 4 :
          LET T == Descent(page)[level].tables IN
          /\ Cardinality(DOMAIN Descent(page)[level - 1].tables) > Cardinality(DOMAIN T)
          /\ Cardinality(DOMAIN T) <= MaxTables
          /\ tables' = T
    /\ exited' = TRUE

Init == loader_paging_setup /\ exited = FALSE

Next ==
    /\ ~exited
    /\ \E p \in Pages :
          \/ \E f \in Frames, a \in Flags : loader_paging_map(f, p, a)
          \/ MapFails(p)

Spec == Init /\ [][Next]_vars

-----------------------------------------------------------------------------
\* The processor's walk of tables T, with its own indices: the entry it finds
\* at each level, if those above are present.
Below(T, entry, page, level) ==
    IF entry.present THEN T[entry.frame][HardwareIndex(page, level)] ELSE Absent

WalkIn(T, page) ==
    LET e4 == T[0][HardwareIndex(page, 4)]
        e3 == Below(T, e4, page, 3)
        e2 == Below(T, e3, page, 2)
    IN Below(T, e2, page, 1)

Walk(page) == WalkIn(tables, page)

\* What the processor sees of the tables is a plain address space: a step of
\* loader_paging_map, whatever tables it allocates on the way, replaces the
\* translation of at most one page and keeps all that was mapped before.
Translation == INSTANCE AddressSpace WITH map <- [p \in Pages |-> Walk(p)]
TranslationSpec == Translation!Spec

\* A call does what it is asked: loader_paging_map(frame, page, flags) makes the
\* processor translate page to frame with those flags, and a call that runs out
\* of memory changes no translation, although it leaves tables behind.
MapsWhatIsAsked ==
    [][/\ \A p \in Pages, f \in Frames, a \in Flags :
             loader_paging_map(f, p, a) => Translation!MapPage(p, f, a)
       /\ exited' => \A p \in Pages : UNCHANGED Walk(p)]_vars

\* Tables are never shared: apart from the recursive entry, every table is led
\* to by exactly one entry of one upper table.
Upper == {e \in (DOMAIN tables) \X (0 .. Entries - 1) :
            /\ e # <<0, RecursiveSlot>>
            /\ tables[e[1]][e[2]].present
            /\ tables[e[1]][e[2]].frame \in DOMAIN tables}

TablesFormTree ==
    /\ Cardinality(Upper) = Cardinality(DOMAIN tables) - 1
    /\ \A d, e \in Upper :
          tables[d[1]][d[2]].frame = tables[e[1]][e[2]].frame => d = e
=============================================================================
