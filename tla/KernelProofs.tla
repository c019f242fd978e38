---------------------------- MODULE KernelProofs ----------------------------
(***************************************************************************)
(* The hand-over of the machine by efi_get_memory_map, for every kernel,   *)
(* every size of the memory map and any number of event handlers.          *)
(***************************************************************************)
EXTENDS KernelBoot, TLAPS

\* What KernelOwnsMachine says of the state the kernel is started in.
HandedOver ==
    /\ services = "exited"
    /\ entries = map_size
    /\ entries <= requested => described = version

\* A key never belongs to a later map than the firmware's.  The allocation of
\* the buffer has outdated every key of the first call, so a key that is valid
\* after the second call is of the map whose entries that call counted.
MapInv ==
    /\ version \in Nat /\ map_size \in Nat \ {0} /\ size \in Nat
    /\ key \in Nat /\ key <= version
    /\ pc = "read" => key < version
    /\ pc = "exit" /\ key = version =>
          entries = map_size /\ (entries <= requested => described = version)
    /\ pc \in {"jump", "kernel"} => "map" \in failed \/ HandedOver

\* Steps before and after efi_get_memory_map leave the two sides of it alone.
Elsewhere ==
    /\ pc' \notin {"read", "exit"} \/ (pc' = "exit" /\ pc = "exit")
    /\ pc' \in {"jump", "kernel"} => pc \in {"jump", "kernel"} \/ "map" \in failed'
    /\ failed \subseteq failed'
    /\ UNCHANGED <<answer, firmware>>

LEMMA ElsewhereKeeps == MapInv /\ Elsewhere => MapInv'
    BY DEF MapInv, Elsewhere, HandedOver, answer, firmware

LEMMA MapInit == Init => MapInv
    BY DEF Init, MapInv

\* The steps of efi_main and loader_kernel up to efi_get_memory_map.
LEMMA LoadingElsewhere ==
    ASSUME \/ EFIERR \/ efi_panic
           \/ uefi_init \/ uefi_io_reconnect \/ SelectBootMode \/ net_kernel_load
           \/ fs_open \/ CloseKernel \/ PrepareStack
           \/ framebuffer_get \/ framebuffer_get_none \/ MapLoader
    PROVE  Elsewhere
<1>1. CASE EFIERR \/ efi_panic
    BY <1>1 DEF EFIERR, efi_panic, Elsewhere
<1>2. CASE uefi_init
    BY <1>2 DEF uefi_init, Elsewhere
<1>3. CASE uefi_io_reconnect \/ SelectBootMode \/ net_kernel_load \/ fs_open \/ CloseKernel
    BY <1>3 DEF uefi_io_reconnect, SelectBootMode, net_kernel_load, fs_open, CloseKernel,
                Goto, Elsewhere
<1>4. CASE PrepareStack \/ MapLoader
    BY <1>4 DEF PrepareStack, MapLoader, Goto, Elsewhere
<1>5. CASE framebuffer_get
    BY <1>5 DEF framebuffer_get, Goto, Elsewhere
<1>6. CASE framebuffer_get_none
    BY <1>6 DEF framebuffer_get_none, Goto, Elsewhere
<1> QED
    BY <1>1, <1>2, <1>3, <1>4, <1>5, <1>6

LEMMA FileElsewhere ==
    ASSUME uefi_driver_start \/ CopyKernel \/ loader_parse_header \/ LoadSegment
    PROVE  Elsewhere
<1>1. CASE uefi_driver_start
    <2>1. pc' \in {"reconnect", "panic", "exited", "undefined", "driver"}
        BY <1>1 DEF uefi_driver_start
    <2>2. failed \subseteq failed' /\ UNCHANGED <<answer, firmware>>
        BY <1>1 DEF uefi_driver_start
    <2> QED
        BY <2>1, <2>2 DEF Elsewhere
<1>2. CASE CopyKernel
    <2>1. failed \subseteq failed'
        BY <1>2 DEF CopyKernel, fs_get_file_info
    <2> QED
        BY <1>2, <2>1 DEF CopyKernel, Goto, Elsewhere
<1>3. CASE loader_parse_header
    BY <1>3 DEF loader_parse_header, Elsewhere
<1>4. CASE LoadSegment
    <2>1. failed \subseteq failed'
        BY <1>4 DEF LoadSegment
    <2> QED
        BY <1>4, <2>1 DEF LoadSegment, Elsewhere
<1> QED
    BY <1>1, <1>2, <1>3, <1>4

\* The steps of efi_get_memory_map, the firmware's and the jump.
LEMMA MapStep ==
    ASSUME MapInv,
           \/ MemoryMapFails \/ AskSize \/ AllocateBuffer \/ ReadMap
           \/ ExitBootServices \/ elf_jump_to_kernel \/ EventHandler
    PROVE  MapInv'
<1>1. CASE MemoryMapFails
    BY <1>1, ElsewhereKeeps DEF MemoryMapFails, Elsewhere
<1>2. CASE AskSize
    BY <1>2 DEF AskSize, GetMemoryMap, Goto, MapInv, firmware
<1>3. CASE AllocateBuffer
    BY <1>3 DEF AllocateBuffer, MemoryMapChanges, Goto, MapInv
<1>4. CASE ReadMap
    BY <1>4 DEF ReadMap, GetMemoryMap, Goto, MapInv, firmware
<1>5. CASE ExitBootServices
    BY <1>5 DEF ExitBootServices, MapInv, HandedOver, answer
<1>6. CASE elf_jump_to_kernel
    BY <1>6 DEF elf_jump_to_kernel, Goto, MapInv, HandedOver, answer, firmware
<1>7. CASE EventHandler
    BY <1>7 DEF EventHandler, MemoryMapChanges, MapInv, answer
<1> QED
    BY <1>1, <1>2, <1>3, <1>4, <1>5, <1>6, <1>7

\* Unless efi_get_memory_map reports an error, which loader_kernel ignores, the
\* kernel is started with boot services off and the right number of entries of
\* the current memory map, whenever event handlers change it.
THEOREM HandOver == Spec => []KernelOwnsMachine
<1>1. MapInv /\ [Next]_vars => MapInv'
    <2> SUFFICES ASSUME MapInv, [Next]_vars PROVE MapInv'
        OBVIOUS
    <2>1. CASE UNCHANGED vars
        BY <2>1 DEF vars, answer, firmware, MapInv, HandedOver
    <2>2. CASE Next
        BY <2>2, LoadingElsewhere, FileElsewhere, ElsewhereKeeps, MapStep DEF Next, Loader
    <2> QED
        BY <2>1, <2>2
<1>2. MapInv => KernelOwnsMachine
    BY DEF MapInv, KernelOwnsMachine, HandedOver
<1> QED
    BY MapInit, <1>1, <1>2, PTL DEF Spec
=============================================================================
