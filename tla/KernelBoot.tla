----------------------------- MODULE KernelBoot -----------------------------
(***************************************************************************)
(* efi_main of loader.c and the hand-over to the kernel: loader_kernel and *)
(* loader_kernel_phdrs of loader/kernel.c with loader/parse.c, elf/elf.c,  *)
(* fs/*.c, boot/*.c and elf/elf.asm.                                       *)
(*                                                                         *)
(* Memory is a function from physical pages (frames) to their bytes, and   *)
(* the page tables are the map from virtual pages to frames that module    *)
(* Paging shows them to be; a virtual page and a frame of the same number  *)
(* have the same address.  Frames are numbered as they are allocated.  The *)
(* frames of the tables themselves are left out.                           *)
(***************************************************************************)
EXTENDS DriverStart, FiniteSetsExt, TLC

CONSTANTS
    Kernels,        \* files: [header, bytes]
    Garbage,        \* content of memory nobody has written
    PageSize,       \* bytes of a page (4096)
    DescriptorSize, \* bytes of an entry of the memory map
    Stack,          \* virtual page of STACK
    StackPages,     \* STACK_SIZE in pages (33)
    ImageFrames,    \* frames of the loader's image
    Displays,       \* graphics outputs: [ovmf, base, mode, modes]
    ModeAddress,    \* addresses of the two records that describe it
    InfoAddress,
    PointerSize,    \* bytes of a pointer
    FirstFrame,     \* first frame AllocatePages returns
    MaxForeign      \* bound: memory map changes made by event handlers

Magic           == <<127, 69, 76, 70>>
Pages(n)        == (n + PageSize - 1) \div PageSize
Run(first, n)   == first .. first + n - 1
PageOf(address) == address \div PageSize
SegmentPages(p) == Run(PageOf(p.vaddr), Pages(p.memsz))
LoadSegments(k) == {p \in Range(k.header.phdrs) : p.load}
Aligned(k)      == \A p \in LoadSegments(k) : p.vaddr % PageSize = 0

\* All segments of a kernel lie above the pages of the stack (and above all frames
\* that are mapped at their own address, where these lie below the stack); they
\* do not overlap, and the file holds their bytes and the entry point.  The code
\* checks none of this: it is what a kernel must be like.
ASSUME KernelAssumption ==
    \A k \in Kernels :
        /\ \A p \in LoadSegments(k) :
              /\ p.memsz > 0 /\ p.filesz <= p.memsz
              /\ p.offset + p.filesz <= Len(k.bytes)
              /\ PageOf(p.vaddr) >= Stack + StackPages
              /\ \A q \in LoadSegments(k) \ {p} :
                    SegmentPages(p) \cap SegmentPages(q) = {}
        /\ \E p \in LoadSegments(k) : k.header.entry \in Run(p.vaddr, p.memsz)

\* A mode of an output is [w, h, size], size the bytes of its framebuffer; the
\* output is in one of its modes, and its EFI_GRAPHICS_OUTPUT_MODE says which.
ASSUME DisplayAssumption ==
    \A d \in Displays :
        d.mode \in DOMAIN d.modes /\ \A m \in DOMAIN d.modes : d.modes[m].size > 0

VideoFrames(d) == Run(d.base, Pages(d.modes[d.mode].size))

VARIABLES
    pc,
    nxe,          \* EFER.NXE: the processor accepts the NX bit in a page table
    video,        \* the output efi_gop_get found, a set of at most one
    kernel,       \* the file called kernel
    position,     \* file position of the open kernel
    header,       \* the header that was read from it
    segment,      \* next program header
    map,          \* virtual page to [frame, flags]
    memory,       \* frame to bytes, for the frames of segments
    next_frame,   \* first frame not allocated
    copy,         \* frames of the copy of the file
    info_page,    \* frame of info_t
    size,         \* size of efi_get_memory_map, in entries
    entries,      \* efi_memory_map_entries
    key,          \* efi_memory_map_key, as the version it belongs to
    buffer,       \* frames of the buffer for the map
    described,    \* version of the map in the buffer, 0 for none
    version,      \* firmware: version and entries of its memory map
    map_size,
    services,     \* firmware: boot services are "on" or "exited"
    foreign,      \* changes made by event handlers
    requested,    \* history: the size the second GetMemoryMap was given
    failed        \* history: the kinds of firmware calls that failed

file     == <<kernel, position, header, segment>>
space    == <<map, memory, next_frame, copy, info_page>>
answer   == <<size, entries, key, buffer, described, requested>>
firmware == <<version, map_size, services, foreign>>
machine  == <<nxe, video, driver>>
vars     == <<pc, file, space, answer, machine, firmware, failed>>

Init ==
    /\ pc = "start" /\ nxe \in BOOLEAN /\ video = {} /\ DriverInit
    /\ kernel \in Kernels /\ position = 0 /\ segment = 1
    /\ header = kernel.header
    /\ map = <<>> /\ memory = <<>> /\ next_frame = FirstFrame
    /\ copy = {} /\ info_page = 0
    /\ size = 0 /\ entries = 0 /\ key = 0 /\ buffer = {} /\ described = 0 /\ requested = 0
    /\ version = 1 /\ map_size = 1 /\ services = "on" /\ foreign = 0
    /\ failed = {}

Goto(from, to) == pc = from /\ pc' = to

\* Steps whose firmware calls are checked with EFIERR leave the loader when
\* one of them fails.
EFIERR ==
    /\ pc \in {"start", "reconnect", "menu", "net", "open", "copy",
               "header", "segments", "stack", "framebuffer", "image", "buffer", "exit"}
    /\ pc' = "exited"
    /\ failed' = failed \cup {"call"}
    /\ nxe' = (nxe \/ pc = "start")
    /\ UNCHANGED <<file, space, answer, video, driver, firmware>>

\* The file is not found or its size not to be had, a segment gets no memory,
\* or the file does not close.
efi_panic ==
    /\ pc \in {"open", "copy", "segments"}
    /\ pc' = "panic"
    /\ failed' = failed \cup {"call"}
    /\ UNCHANGED <<file, space, answer, machine, firmware>>

-----------------------------------------------------------------------------
\* The NX bit is allowed; newer firmware then gets the file system driver.
uefi_init ==
    /\ pc = "start" /\ pc' \in {"driver", "reconnect"}
    /\ nxe' = TRUE
    /\ driver' = IF pc' = "driver" THEN driver ELSE Idle("done")
    /\ UNCHANGED <<file, space, answer, video, firmware, failed>>

\* A step of DriverStart.
uefi_driver_start ==
    /\ pc = "driver" /\ DriverNext
    /\ pc' = CASE driver'.pc = "done" -> "reconnect"
               [] driver'.pc = "hang" -> "panic"
               [] driver'.pc \in {"exited", "undefined"} -> driver'.pc
               [] OTHER -> "driver"
    /\ failed' = failed \cup (IF driver'.pc \in {"exited", "hang"} THEN {"call"} ELSE {})
                       \cup (IF driver'.clobbered THEN {"stray"} ELSE {})
    /\ UNCHANGED <<file, space, answer, nxe, video, firmware>>

\* What IoReconnect models.
uefi_io_reconnect ==
    /\ Goto("reconnect", "menu")
    /\ UNCHANGED <<file, space, answer, machine, firmware, failed>>

\* 'n' loads the kernel from the network first, 'd' does not; the loop passes
\* over any other key.
SelectBootMode ==
    /\ pc = "menu" /\ pc' \in {"net", "open"}
    /\ UNCHANGED <<file, space, answer, machine, firmware, failed>>

\* What NetbootSystem models.  It returns when a command has ended the poll
\* loop: CMD_BOOT, or CMD_FWSETUP whether or not a file was written.
net_kernel_load ==
    /\ Goto("net", "open")
    /\ UNCHANGED <<file, space, answer, machine, firmware, failed>>

\* Mutant: the file position stays at the end of what was read.
ReadWithoutRewind(len) == position' = len

\* fs_read reads from an offset and ends at the start of the file.
fs_read(len) == position' = 0

fs_open ==
    /\ Goto("open", "copy")
    /\ UNCHANGED <<file, space, answer, machine, firmware, failed>>

\* The second GetInfo may fail unseen: the size is then what the buffer held.
fs_get_file_info(n) ==
    failed' = IF n = Len(kernel.bytes) THEN failed ELSE failed \cup {"info"}

\* A copy of the whole file is read to memory of its own.
CopyKernel ==
    /\ Goto("copy", "header")
    /\ \E n \in 0 .. Len(kernel.bytes) + PageSize :
          /\ fs_get_file_info(n)
          /\ copy' = Run(next_frame, Pages(n))
          /\ next_frame' = next_frame + Pages(n)
          /\ fs_read(n)
    /\ UNCHANGED <<kernel, header, segment, map, memory, info_page, answer, machine, firmware>>

\* The first check refuses a header all four of whose magic bytes are wrong.
elf_header_check(h) ==
    /\ \E b \in 1 .. 4 : h.magic[b] = Magic[b]
    /\ h.supported

\* The header is read at the file position, and the program headers from the
\* offset it gives.  Elsewhere in the file, and in memory a Read that succeeds
\* has not filled, are bytes of which nothing is known.
loader_parse_header ==
    /\ pc = "header"
    /\ \E short \in BOOLEAN :
          /\ header' \in IF position = 0 /\ ~short THEN {kernel.header}
                         ELSE {k.header : k \in Kernels}
          /\ failed' = IF short THEN failed \cup {"header"} ELSE failed
    /\ pc' = IF elf_header_check(header') THEN "segments" ELSE "panic"
    /\ position' = header'.phoff + Len(header'.phdrs)
    /\ UNCHANGED <<kernel, segment, space, answer, machine, firmware>>

\* The tests are f | PT_X and f | PT_W, which hold whatever f is.
efi_elf_phdr_flags(f) ==
    (IF f \cup {"X"} = {} THEN {"NX"} ELSE {}) \cup
    (IF f \cup {"W"} # {} THEN {"W"} ELSE {})

loader_paging_map(pages, first, flags) ==
    LET start == Min(pages) IN
    [v \in pages |-> [frame |-> first + (v - start), flags |-> flags]]

Identity(frames) == [f \in frames |-> [frame |-> f, flags |-> {"W"}]]

\* From the page of the first byte to the page of the byte after the last.
loader_paging_map_addr(start, length) ==
    Identity((start \div PageSize) .. ((start + length) \div PageSize))

\* Mutant: the part of a segment that is not in the file is not cleared.
LoadedUncleared(p, o, n, b) ==
    IF b < n THEN kernel.bytes[o + b + 1] ELSE Garbage

\* Byte b of a segment's frames after n bytes were read from o.
Loaded(p, o, n, b) ==
    IF b \in p.filesz .. p.memsz - 1 THEN 0
    ELSE IF b < n THEN kernel.bytes[o + b + 1]
    ELSE Garbage

\* A program header: if it is to be loaded, frames are allocated, SetPosition
\* and Read are called without a look at their status, the pages are mapped
\* and what is not in the file is cleared.
LoadSegment ==
    /\ pc = "segments" /\ segment <= Len(header.phdrs)
    /\ segment' = segment + 1
    /\ LET p == header.phdrs[segment]
           count == Pages(p.memsz)
       IN  IF p.load
           THEN \E o \in {p.offset, position} :
                \E n \in {0} \cup 1 .. Min({p.filesz, Len(kernel.bytes) - o}) :
                   /\ failed' = IF o = p.offset /\ n = p.filesz
                                THEN failed ELSE failed \cup {"read"}
                   /\ position' = o + n
                   /\ memory' =
                        [f \in Run(next_frame, count) |->
                           [x \in 0 .. PageSize - 1 |->
                              Loaded(p, o, n, (f - next_frame) * PageSize + x)]]
                        @@ memory
                   /\ map' = loader_paging_map(SegmentPages(p), next_frame,
                                               efi_elf_phdr_flags(p.flags)) @@ map
                   /\ next_frame' = next_frame + count
           ELSE UNCHANGED <<position, map, memory, next_frame, failed>>
    /\ UNCHANGED <<pc, kernel, header, copy, info_page, answer, machine, firmware>>

CloseKernel ==
    /\ segment > Len(header.phdrs)
    /\ Goto("segments", "stack")
    /\ UNCHANGED <<file, space, answer, machine, firmware, failed>>

\* Mutant: the loop ends one page early.
StackButTop == Run(Stack, StackPages - 1)

StackRun == Run(Stack, StackPages)

\* The stack and the record for the kernel, both cleared and mapped.
PrepareStack ==
    /\ Goto("stack", "framebuffer")
    /\ info_page' = next_frame + StackPages
    /\ next_frame' = next_frame + StackPages + 1
    /\ map' = loader_paging_map(StackRun, next_frame, {"W", "NX"})
                @@ Identity({info_page'}) @@ map
    /\ UNCHANGED <<file, memory, copy, answer, machine, firmware, failed>>

\* Mutant: a mode must be both wider and higher.
BothLarger(m, last) == m.w > last.w /\ m.h > last.h

Preferred(m, last) == m.w > last.w \/ m.h > last.h

\* The mode the loop ends with, number 1 unless another one was preferred.
Selection(modes) ==
    LET last[i \in 0 .. Len(modes)] ==
            IF i = 0 THEN [w |-> 0, h |-> 0, selection |-> 1]
            ELSE IF Preferred(modes[i], last[i - 1])
            THEN [w |-> modes[i].w, h |-> modes[i].h, selection |-> i]
            ELSE last[i - 1]
    IN last[Len(modes)].selection

OvmfModes(d) == {m \in DOMAIN d.modes : d.modes[m].w = 800 /\ d.modes[m].h = 600}

\* The mode SetMode is called with, if any.
framebuffer_setup(d) ==
    IF d.ovmf THEN (IF OvmfModes(d) = {} THEN {} ELSE {Min(OvmfModes(d))})
    ELSE {Selection(d.modes)} \ {1}

\* SetMode may fail unseen; base and size are then still the old mode's.
framebuffer_get ==
    /\ Goto("framebuffer", "image")
    /\ \E d \in Displays :
       \E mode \in {d.mode} \cup framebuffer_setup(d) :
          /\ video' = {[d EXCEPT !.mode = mode]}
          /\ failed' = IF framebuffer_setup(d) \subseteq {mode}
                       THEN failed ELSE failed \cup {"mode"}
          /\ map' = Identity(VideoFrames([d EXCEPT !.mode = mode]))
                       @@ loader_paging_map_addr(InfoAddress, PointerSize)
                       @@ loader_paging_map_addr(ModeAddress, PointerSize) @@ map
    /\ UNCHANGED <<file, memory, next_frame, copy, info_page, answer, nxe, driver, firmware>>

\* Without a graphics output the pointer to it is used unset.
framebuffer_get_none ==
    /\ Goto("framebuffer", "undefined")
    /\ failed' = failed \cup {"call"}
    /\ UNCHANGED <<file, space, answer, machine, firmware>>

\* efi_get_image, the pages of the loader, and efi_get_rsdp.
MapLoader ==
    /\ Goto("image", "size")
    /\ map' = Identity(ImageFrames) @@ map
    /\ UNCHANGED <<file, memory, next_frame, copy, info_page, answer, machine, firmware, failed>>

-----------------------------------------------------------------------------
\* Firmware: a call that allocates, or an event handler, changes the map.
MemoryMapChanges ==
    /\ version' = version + 1
    /\ map_size' \in {map_size, map_size + 1}

EventHandler ==
    /\ pc \in {"size", "buffer", "read", "exit"} /\ services = "on"
    /\ foreign < MaxForeign
    /\ foreign' = foreign + 1
    /\ MemoryMapChanges
    /\ UNCHANGED <<pc, file, space, answer, machine, services, failed>>

\* Firmware: the entries are given when there is room for them; the size
\* always is, and with EFI_BUFFER_TOO_SMALL the key may be.
GetMemoryMap(room) ==
    /\ size' = map_size
    /\ IF map_size <= room
       THEN key' = version /\ described' = version
       ELSE key' \in {key, version} /\ UNCHANGED described

\* The errors efi_get_memory_map returns are not looked at by its caller.
MemoryMapFails ==
    /\ pc \in {"size", "buffer", "read"}
    /\ pc' = "jump"
    /\ failed' = failed \cup {"map"}
    /\ UNCHANGED <<file, space, answer, machine, firmware>>

AskSize ==
    /\ Goto("size", "buffer")
    /\ GetMemoryMap(0)
    /\ UNCHANGED <<file, space, entries, buffer, requested, machine, firmware, failed>>

\* A page more than the map needs is allocated, and one more than that mapped.
AllocateBuffer ==
    /\ Goto("buffer", "read")
    /\ LET count == Pages(size * DescriptorSize) + 1 IN
       /\ next_frame' = next_frame + count
       /\ buffer' = Run(next_frame, count)
       /\ map' = loader_paging_map_addr(next_frame * PageSize, count * PageSize) @@ map
    /\ MemoryMapChanges
    /\ UNCHANGED <<file, memory, copy, info_page, size, entries, key, described, requested,
                   machine, services, foreign, failed>>

\* Mutant: the number of entries is the one the buffer was sized for.
ReadMapEarlierSize ==
    /\ Goto("read", "exit")
    /\ GetMemoryMap(size)
    /\ entries' = size /\ requested' = size
    /\ UNCHANGED <<file, space, buffer, machine, firmware, failed>>

\* The second call is given the first one's size, not the buffer's.
ReadMap ==
    /\ Goto("read", "exit")
    /\ GetMemoryMap(size)
    /\ entries' = size' /\ requested' = size
    /\ UNCHANGED <<file, space, buffer, machine, firmware, failed>>

\* ExitBootServices refuses a key that is not the current map's.
ExitBootServices ==
    /\ pc = "exit"
    /\ IF key = version
       THEN pc' = "jump" /\ services' = "exited"
       ELSE pc' = "exited" /\ UNCHANGED services
    /\ UNCHANGED <<file, space, answer, machine, version, map_size, foreign, failed>>

\* cr3, rsp and the jump.
elf_jump_to_kernel ==
    /\ Goto("jump", "kernel")
    /\ UNCHANGED <<file, space, answer, machine, firmware, failed>>

Loader ==
    \/ EFIERR \/ efi_panic
    \/ uefi_init \/ uefi_driver_start \/ uefi_io_reconnect \/ SelectBootMode
    \/ net_kernel_load
    \/ fs_open \/ CopyKernel \/ loader_parse_header \/ LoadSegment \/ CloseKernel
    \/ PrepareStack \/ framebuffer_get \/ framebuffer_get_none \/ MapLoader
    \/ MemoryMapFails \/ AskSize \/ AllocateBuffer \/ ReadMap
    \/ ExitBootServices \/ elf_jump_to_kernel

Next == Loader \/ EventHandler

\* The loader is the only thread: it goes on as long as it has a next step,
\* and whoever is at the keyboard chooses a boot mode.  The poll loop may go on
\* for ever: nothing makes a server send a command.
Spec == Init /\ [][Next]_vars /\ WF_vars(pc # "net" /\ Loader)

-----------------------------------------------------------------------------
Maps(v, frame) == v \in DOMAIN map /\ map[v].frame = frame

\* What the processor needs from the moment elf_jump_to_kernel loads cr3 is in
\* the new page tables, whatever was mapped after it: the loader's code that
\* makes the jump, the kernel's entry point (executable), the top of the stack
\* (writable), the record whose address is in rdi, the buffer of the memory map,
\* and the framebuffer of the mode the output is then in.  NX bits are in the
\* tables only if uefi_init has allowed them.  The copy of the file, whose
\* address the record holds, is not in them: loader_kernel does not map it.
JumpLands ==
    pc = "kernel" =>
        /\ \A f \in ImageFrames \cup {info_page} \cup buffer
                 \cup UNION {VideoFrames(d) : d \in video} : Maps(f, f)
        /\ Aligned(kernel) /\ "header" \notin failed =>
              LET v == PageOf(header.entry)
              IN v \in DOMAIN map /\ "NX" \notin map[v].flags
        /\ LET top == Stack + StackPages - 1 IN
           top \in DOMAIN map /\ "W" \in map[top].flags
        /\ nxe \/ \A v \in DOMAIN map : "NX" \notin map[v].flags

\* The kernel finds every byte of a segment that starts on a page at the address
\* it is linked to: the file's bytes and then zeros, provided they and the header
\* could be read in full, which the code does not check.  Of a segment that starts
\* within a page every byte is misplaced, since its frames are filled from their
\* start.
SegmentsInPlace ==
    pc = "kernel" /\ failed \cap {"header", "read"} = {} =>
        \A p \in LoadSegments(kernel) :
        \A b \in 0 .. p.memsz - 1 :
            LET v == PageOf(p.vaddr + b) IN
            p.vaddr % PageSize = 0 =>
                /\ v \in DOMAIN map
                /\ memory[map[v].frame][b % PageSize] =
                      IF b < p.filesz THEN kernel.bytes[p.offset + b + 1] ELSE 0

\* The mode framebuffer_setup chooses, unless SetMode fails: on OVMF it is the
\* 800 by 600 mode, if there is one; elsewhere a mode that is at least as wide
\* and as high as every other one, if there is one and the first mode is not
\* one (the loader then leaves the output in whatever mode it found).  Modes of
\* which none is the largest have an outcome that depends on their order.
LargestModeShown ==
    pc = "kernel" /\ "mode" \notin failed =>
        \A d \in video :
            LET largest == {m \in DOMAIN d.modes : \A n \in DOMAIN d.modes :
                               d.modes[m].w >= d.modes[n].w /\ d.modes[m].h >= d.modes[n].h}
            IN IF d.ovmf THEN OvmfModes(d) # {} => d.mode \in OvmfModes(d)
               ELSE largest # {} /\ 1 \notin largest => d.mode \in largest

\* The kernel starts with boot services off, and with the number of entries of
\* the memory map as it was when they were left; the buffer holds that map,
\* unless it had outgrown the size efi_get_memory_map passed the second time.
\* The exception is an error of efi_get_memory_map, which its caller ignores.
KernelOwnsMachine ==
    pc = "kernel" /\ "map" \notin failed =>
        /\ services = "exited"
        /\ entries = map_size
        /\ entries <= requested => described = version

\* A kernel that passes elf_header_check is started if the firmware fails no
\* call and reads files in full, no event handler changes the memory map while
\* it is being read, the loader's own buffer for the map does not add an entry
\* to it, and the poll loop, if the kernel is to come from the network, ends.
KernelStarts ==
    \/ <>[](pc = "net")
    \/ <>(\/ pc = "kernel"
          \/ ~elf_header_check(kernel.header)
          \/ failed # {} \/ foreign > 0
          \/ entries > requested)
=============================================================================
