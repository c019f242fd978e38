# Verification of the vineyard boot loader

A TLA+ model of the UEFI boot loader in `src/`: what happens from `efi_main` to the first
instruction of the kernel, with the netboot stack in between. TLC checks the model on small
instances; TLAPS proves the central results about the buffer pool, the netboot handler, the poll
loop, the set-up of the interface, the reconnection of controllers and the hand-over to the kernel
for all values of the constants. `PROJECT.json` maps every definition to the lines it translates.

## The system

The loader is one thread. `efi_main` (`loader.c`) initialises the machine, starts a file system
driver, reconnects controllers, and asks for a boot mode. For netboot, `net_kernel_load` opens an
interface and calls `net_poll` in a loop until a command ends it; then, as for a boot from disk,
`loader_kernel` reads the file `kernel` from the boot volume, builds page tables, leaves boot
services and jumps. What makes this hard to test is the environment: firmware calls that fail,
an interface that completes transmissions in any order, a lossy link, other hosts, event
handlers that allocate memory, and statuses the code ignores.

A checked firmware call that fails (`EFIERR`) prints a message and calls `Exit`; `efi_panic`
prints and loops for ever. Both are end states of the models.

### Inventory

| Part | Source | Module | State |
|---|---|---|---|
| netboot command handler | `net/netboot.c` | `Netboot`, `Ucs2`, `FragmentOrder` | modelled |
| transmit buffer pool | `net/bufpool.c` | `BufPool`, `BufferOwnership` | modelled |
| poll loop, advertisement timer | `net/net.c` | `NetStack` | modelled |
| Ethernet, IPv6, ICMPv6, UDP | `net/eth.c`, `ip6.c`, `icmp6.c`, `udp6.c` | `NetStack` (control), `Ip6` (bytes sent) | modelled; the checks of a received frame are one bit |
| Internet checksum, own addresses | `net/ip6.c`, `net/util.c` | `Ip6`, `NetOpen` | modelled |
| choice and set-up of the interface | `net/net.c`, `uefi/util.c` | `NetOpen` | modelled |
| loader, link and server together | all of `net/` | `NetbootSystem`, `FileDelivery` | modelled (the server is external) |
| page tables | `loader/paging.c` | `Paging`, `AddressSpace` | modelled except the recursive slot |
| boot sequence, kernel loading, hand-over | `loader.c`, `loader/`, `elf/`, `fs/`, `boot/` | `KernelBoot` | modelled for kernels whose segments overlap neither each other nor the stack |
| video mode | `boot/framebuffer.c` | `KernelBoot` | modelled |
| driver start, device paths | `uefi/driver.c`, `uefi/device-path.c` | `DriverStart` | what the loader calls |
| controller reconnection | `uefi/io.c` | `IoReconnect` | modelled |
| text conversion, printing | `uefi/ucs2.c`, `print.c`, `lib/vcbprintf.c` | `Ucs2`, `Printf`, `Console`, `NetStart` | modelled without integer widths |
| error names, ACPI pointer | `uefi/error.c`, `boot/rsdp.c` | | not modelled |
| C library, CPU stubs | `lib/`, `cpu/` | | not modelled on their own: part of the definitions that use them |

## Modules

**BufferOwnership** is the promise of the buffer pool: a buffer has one owner (nobody, free list,
protocol code, interface) and moves only along five edges. **BufPool** is `net/bufpool.c` down to
the link words in memory (`next`), the head (`eth_bufpool`), the counter (`eth_bufpool_avail`),
the rounding of addresses in `net_bufpool_return`, and the range check of `net_poll`. `held` is
the pointer a send function has taken, `pending` and `done` are what the interface holds and has
completed. Addresses are numbers, so the arithmetic is that of the code.

**Netboot** is `netboot_cmd_receive`. Its variables are the fields of `vy_netboot_t`, the flags
`net_poll_continue` and `net_stop_advertising`, the boot volume (`disk`), and `power`, which tells
whether the loader runs, left, reset the machine, or did something undefined. One action per
command; the error exits apply what was done before them. The handler acknowledges the last fragment
of a file before it writes the file, so the write is a step of its own (`FinishTransfer`), and
`writing` says that it is due: the acknowledgement can reach the server in between. Neither
allocation of `CMD_FILE_SEND_INIT` is checked, and both may fail (`BeginTransfer`,
`WriteThroughNull`): without `file_info` the handler writes through NULL at once, without
`file_buffer` with the first fragment that has data. Fresh allocations hold `Garbage`. The name a
file is written under goes through `uefi_to_ucs2` (**Ucs2**): the function advances its index before
it reads the octets of a character, so the last characters depend on memory beyond the path, which
is the constant `Beyond`; `Named` is the set of names a path may get. A character of three octets
that starts with 0xE0 consists of such bits only, and may even become the terminator.
**FragmentOrder** lets the fragments of one file arrive in any order and number, for any division of
the file.

**NetStack** puts the handler under the poll loop. One `net_poll` is three steps (`PollAdvertise`,
then `Reclaim`/`NothingToReclaim`/`GetStatusFails`, then `PollReceive`/`NotReady`), and a fourth,
`PollWrite`, after a fragment that completes a file. Between them frames arrive, the timer runs and
frames leave. The pool is its number of free buffers, which `BufPool` justifies. Frames are records:
whether the length, type and version checks pass, the addresses, and the kind of payload.

**NetbootSystem** adds a server, a bystander and the two directions of a lossy first-in-first-out
link. The server is not in the repository; it is the simplest peer for which the acknowledgements
make sense. At any time it may also make one of the `Requests`, for the firmware's setup, a reset or
a shutdown, in mid-transfer too. **FileDelivery** is the promise of the whole: the set of files on
the volume grows by one in the order of the list, and the kernel is started only when all are there
or when setup was asked for and is not supported, which is how `CMD_FWSETUP` behaves. A file counts
as delivered when its content is laid over what the volume had under its name: the handler opens it
without truncating it, so a longer old file keeps its tail.

**NetOpen** is `net_open` with `net_get_protocol`: one turn of the search loop per step, each
failing call an action. The comparison of paths is modelled byte by byte, since the code compares
as many bytes as the path has two-byte characters. After the choice, `net_ip6_init` derives the
addresses and the multicast filters. `net_ip6_ll_addr_from_mac` means to clear six bytes of the
address and clears six bytes 32 bytes further on. Where that is depends on the layout of the static
variables: `Strays` has every place in the solicited-node address, which is written later, and in
`ll_mac_addr`, from which both addresses are derived. The other variables of `ip6.c` are still zero.
**Ip6** is what the loader sends, byte by byte: packet set-up, the UDP and ICMPv6
senders, and the checksum over little-endian words, with its fold. `Transmit` sends netboot
messages, echo replies and advertisements through it, and `FramesVerify` receives them as a
neighbour would, with a sum over big-endian words and the full pseudo-header. The code sends a UDP
checksum that comes out as zero as it is, where RFC 8200 (8.1) asks for 65535 and has receivers
discard zero: `FramesVerify` excepts these datagrams and no others.

**Printf** is `vcbprintf` and `efi_printn`: a text is a sequence of characters, and one `Turn` is one
turn of the outer loop. **Console** shows messages that are put together from pieces, so that what
the whole shows can be compared with what the pieces show. **NetStart** is `NetOpen` with the console.

**AddressSpace** is a flat map from pages to frames; **Paging** is `loader/paging.c` with its four
levels, index arithmetic for both halves, recursive entry and failing allocations. `Walk` is what
the processor does, with indices of its own.

**KernelBoot** is `efi_main` and `loader_kernel`. Using the flat map that `Paging` justifies, it
keeps the file position, the header, the segments' bytes in memory, what is mapped, and the exchange
with the firmware about the memory map: a version that every allocation and event handler increases,
the key, the size, and what the buffer describes. Ignored statuses are explicit: `failed` records
which kind of call failed, or read less than asked for, while the code went on. `video` is the
graphics output with its modes; `framebuffer_setup` goes through them in order. **DriverStart**,
which `KernelBoot` extends, is the start of the file system driver: device paths are sequences of
bytes, and the loop of `uefi_devpath_size` is one step per node. `uefi_devpath_from_path` writes its
terminator past its allocation; `Clobbered` has what this can do to the path read next.

**IoReconnect** is `uefi_io_reconnect`, with handles created between the two lists it indexes.

Definitions whose comment begins with "Mutant:" are not part of a model. Each is a plausible
mistake in the definition that follows it, kept to show that a property notices it.

## Runs

| Run | Checks | Shows |
|---|---|---|
| `bufpool` | `TypeOK`, `SingleHolder`, `FreeListExact`, `OwnershipSpec`, `PoolRefills` | free list exact under every interleaving of sends, failures and completions; refinement of `BufferOwnership`; an empty pool refills |
| `fragment_order` | `ReceivedPrefix`, `WholeFileOrNone` | no loss, repetition or reordering of fragments damages the file, nor does a missing buffer |
| `repeated_init` | `ReceivedDataKept`, violated | see Findings |
| `stack` | `StackTypeOK`, `IdleMeansCleared`, `RightLinkAddress`, `AcksReachThePeer`, `QuietWhenStopped`, `KeepsAdvertising` | replies go where they should with a bystander talking; the timer and the stop command |
| `invalid_solicitation` | `InvalidSolicitationDiscarded`, violated | see Findings |
| `netboot_system` | `AcknowledgedMeansWritten`, `VolumeIntact`, `NoOverrun`, `PrefixOfServedFile`, `NamesOnVolume`, `DeliverySpec` | two files end to end, under the right names; how far the server can be ahead of the volume; refinement of `FileDelivery` |
| `netboot_liveness` | `BootsUnlessLastAckLost` | the kernel is booted, with one exception |
| `net_open` | `NotFoundMeansNoneUsable`, `MulticastHeard`, `FramesVerify`, `MessagesComposed`, `NumbersReadBack` | the search is complete; neighbours reach the loader and accept its frames; messages show what they are given |
| `device_skipped` | `OnlySameDeviceSkipped`, violated | see Findings |
| `paging` | `TablesFormTree`, `TranslationSpec`, `MapsWhatIsAsked` | refinement of `AddressSpace`: a call changes the page it was given and no other |
| `kernel_boot` | `JumpLands`, `SegmentsInPlace`, `KernelOwnsMachine`, `LargestModeShown`, `DriverPathRight`, `KernelStarts` | what the kernel finds when it starts, and when it does start; the video mode; the path of the driver |
| `io_reconnect` | `ConnectsTheRoots` | the two handle lists agree at every index used |

### Bounds

- `bufpool`: four buffers of the code's size, one address below and one above the pool as
  buffers of other users. Four is enough for a list with a head, a tail and members in between
  in every order of completion; the proofs cover the rest.
- `fragment_order`: a file of six bytes in four fragments of unequal size, replacing a longer one.
- `stack`: one frame in each direction, two buffers, so that the pool runs empty; a bystander
  sending each kind of frame, one without a source address included.
- `netboot_system`: two files (two fragments and one), two frames in each direction, two buffers. A
  repeated command can then overtake nothing but is still under way when the next is due. The second
  path has characters of one, two and three octets, one of which starts with 0xE0; two contents of
  the memory beyond it (`Beyond`), with one of which the name ends early. `Requests` are setup and
  shutdown in both runs (a reset ends the exchange as a shutdown does). `netboot_liveness` has one
  frame each way and no bystander.
- `net_open`: four handles in every combination of states and links: two devices with paths that
  begin alike, one handle without a path, and a second handle of the first device. They offer two,
  no, one and nine multicast filters. Payloads have odd and even lengths and sums that carry once,
  twice and not at all, and one makes the UDP checksum zero. `Reports` has the forms of the loader's
  messages, and one message for each flag, field, precision, modifier and specifier of the grammar.
- `paging`: eight entries per table and an address space of 8192 pages, twice what four levels
  reach, so that there are non-canonical pages; pages that share three, two, one and no upper
  tables; memory for nine tables.
- `kernel_boot`: pages of two bytes, four files of five bytes, three program headers, a stack of
  three pages with all frames below it, two changes of the memory map by event handlers. One kernel
  has a segment that starts within a page. Four `Displays`: the largest mode last, first (which the
  code cannot tell from none), absent, and OVMF. Three `DevicePaths`: an empty one, one with data
  that looks like an end node, and one with several nodes.
- `io_reconnect`: four handles, at most one of which has a parent at the start.

Runs with `CHECK_DEADLOCK FALSE` are those of a system that stops: it leaves, panics, or starts
the kernel.

### Fairness

The loader is single-threaded and never blocks, so its own next step is weakly fair
(`WF_vars(pc # "net" /\ Loader)` in `KernelBoot`, the polling steps and `PollWrite` in `NetStack`); this includes
that somebody presses a key in the menu. That the poll loop ends is not assumed in `KernelBoot`: it
takes a server, and `netboot_liveness` shows that even then it may not end. `KernelStarts` excepts a
loader that stays in it. The interface completes what it accepted and the timer runs: weakly fair.
Strong fairness stands for two things: that `GetStatus` does not report nothing for ever while
buffers wait, and that a message sent again and again gets through once. The server of
`netboot_liveness` also repeats `CMD_STOP_ADVERTISING`, since otherwise advertisements may take
every buffer. Nothing is assumed of the volume, of allocations or of other firmware calls: they may
fail, and the properties say what holds then.

## Proofs

`BufPoolProofs` (for every pool of at most sixteen buffers at every page-aligned address):

- `PoolCorrect`: `FreeListExact`, `SingleHolder` and the type invariant hold always. The
  inductive invariant `PoolInv` adds `QuietInit` (nothing is sent before the pool is seeded):
  without it a buffer could be seeded while somebody holds it. The list is a sequence whose
  members are linked; `ReturnKeepsExact` and `GetKeepsExact` exhibit the new sequence, and one
  lemma per action says how owners change.
- `PoolImplementsOwnership`: every step maps to a step of `BufferOwnership` or to a stutter.
- The address arithmetic (`BufferAligned`, `BufOfData`, `DataInPool`, `ForeignNotInPool`) rests on
  `PhysAssumption` (the allocation is page aligned), `BuffersAssumption` (at most sixteen buffers
  fit the eight pages) and `ForeignAssumption` (other addresses lie outside the allocation).

`HandlerProofs`:

- `HandlerCorrect`: for every set of messages in every order and whichever allocation fails, the
  handler's state is well typed and an idle handler has no file and zero counters. `BootInv`, the
  conjunction of the two, is inductive: that an idle handler is not `writing` is part of it.

`NetbootProofs`:

- `AnyOrderDelivers`: for every file and every division into fragments, whatever is lost, repeated
  or reordered, the received bytes are a prefix of the file, and the volume holds the old file or
  has the new content laid over it, unless a firmware call failed. The argument: the byte counter is
  the boundary `Bounds[packets]`, so the one fragment that is accepted is the one that belongs
  there. `OrderInv` adds `AllReceived`: a file that is about to be written has all its bytes in the
  buffer, which holds for a buffer that could not be allocated because nothing but an empty file
  completes in it. Assumption: the peer does not repeat `CMD_FILE_SEND_INIT` in mid-transfer, which
  `repeated_init` shows to be necessary.

`NetStackProofs` (any hosts, any set of frames, up to sixteen buffers, queues of any length):

- `StackCorrect`: the type invariant, `RightLinkAddress` and `AcksReachThePeer`. `StackInv` adds that
  the two halves of the host cache belong together (`Belong`): they are written in one place, after
  all checks of the frame and before its payload is looked at, so the acknowledgement of a command
  always goes to its sender. It also adds the handler's `BootInv`, whose proof is reused.
  Assumption (`FramesAssumption`): a host sends from its own link address.
- `StopIsObeyed`: `QuietWhenStopped`. The invariant needed is that a loader that has been told to stop
  has already sent its first, unconditional advertisement.

`NetOpenProofs` (any number of interfaces in any state, any paths, any link addresses):

- `SearchCorrect`: `NotFoundMeansNoneUsable`. `SearchInv` says that each
  interface the loop counter has left behind was skipped, broken or without a link.
- `HeardByNeighbours`: `MulticastHeard`. `AddressInv` says that until `net_ip6_init` runs both
  addresses are zero, without which the bytes that are never written would be unknown;
  `StraysOf` says what the stray memset may leave behind, a zero solicited-node address and some link
  address, and `DerivedAddresses` that from any link address the two derivations agree in the bytes
  a neighbour uses.

`KernelProofs` (any kernel, any memory map, any number of changes by event handlers):

- `HandOver`: `KernelOwnsMachine`. `MapInv` says that a key never belongs to a later map than the
  firmware's, and that between the allocation of the buffer and the second `GetMemoryMap` it belongs
  to an earlier one. A key that `ExitBootServices` accepts is therefore the second call's, and the
  map has not changed since its entries were counted. All steps outside `efi_get_memory_map` are dealt
  with by one lemma (`ElsewhereKeeps`).

`IoReconnectProofs` (any finite set of handles, `HandlesAssumption`):

- `RootsConnected`: `ConnectsTheRoots`. `ListInv` says that the first list is a prefix of the
  firmware's, and that parents are in the latter; new handles are children of known ones and never
  parents of them (`CreatedKeeps`), so a decision once taken stays right.

`PagingProofs` (tables of any even number of entries, address spaces of any whole number of times
their reach, any canonical pages outside the recursive slot, `PagesAssumption`):

- `CallsDoAsAsked`: `MapsWhatIsAsked`. `SameIndices` shows that `mm_virtual_indices` computes the
  processor's indices in both halves, and `Distinct` that two canonical pages differ in one of them.
  The inductive invariant `IsTree` says that there are levels for the tables such that an entry leads
  one level down and no other entry leads to the same table; the walks of two pages that end in the
  same entry are therefore walks of one page. A new table is zeroed, so linking it into the tree
  changes no translation (`LinkKeepsWalks`), and neither does a call that fails halfway.
- `TablesImplementAddressSpace`: `TranslationSpec`, the refinement, from the same lemmas.

Only model-checked: liveness (`PoolRefills`, `KeepsAdvertising`, `BootsUnlessLastAckLost`,
`KernelStarts`), which is beyond the prover; what recursive functions compute for every input
(`FramesVerify`, `MessagesComposed`, `NumbersReadBack`, `DriverPathRight`, `LargestModeShown`,
`NamesOnVolume`), which would need induction over data; everything about `NetbootSystem`;
`TablesFormTree`, which also counts the tables; and `JumpLands` and `SegmentsInPlace`, which rest on
where the firmware allocates frames.

## Findings

- `repeated_init`: a second `CMD_FILE_SEND_INIT` during a transfer is announced as unexpected
  (`net/netboot.c:93`) and executed: the buffer is replaced and the counters are kept.
- `invalid_solicitation`: invalid messages are to be "silently discarded" (`net/icmp6.c:60`), but
  their sender has by then replaced the remote host.
- `device_skipped`: the loop over interfaces passes over "the same device" (`net/net.c:63`) by
  comparing the first half of the path, and so passes over others too.

Met while modelling, and listed as hazards: the copy of the kernel that `loader/kernel.c:20` calls
mapped is in no page table, and `JumpLands` leaves it out; a UDP checksum of zero is sent as zero;
the allocations for a file are not checked; the lengths read of a header or a segment are not looked
at; the magic bytes are refused only if all four are wrong (`elf/elf.c:20`); the second
`GetMemoryMap` gets the size of the first although the buffer is larger; a lost acknowledgement of a
last fragment is never repeated.

## What is excluded, and why

- Kernels with segments that overlap, lie below the end of the stack or have `p_filesz > p_memsz`
  (`KernelAssumption`): the code checks none of this, and mappings would replace each other. A
  segment that starts within a page is loaded as the code does it, one page short and at the wrong
  offset, and excepted from `SegmentsInPlace`.
- Pages of the recursive slot (`PagesAssumption`): mapping one would write into the tables.
- Removal of handles while `uefi_io_reconnect` runs: it would shift the second list; the firmware
  appends new handles, and only that is modelled.
- A layout in which the stray memset of `net_ip6_ll_addr_from_mac` leaves the variables of `ip6.c` and
  reaches those of another file: `Strays` stays within the file.
- Paths that are not UTF-8: `uefi_to_ucs2` would run past the terminator.

## Not modelled

- `efi_get_rsdp` (`boot/rsdp.c`) copies one pointer out of a table of the firmware; nothing it does
  interacts with the rest.
- The table of `uefi/error.c`, the waiting for a key and the comparison of GUIDs in `uefi/util.c`:
  data and single library calls.
- `uefi_devpath_print` and `_from_device_handle`: not called by the loader. `uefi_devpath_valid` only
  rejects null pointers, which do not occur.
- Widths of integers in `vcbprintf`: the numbers of the model are unbounded and its values small. The
  statuses the loader prints have bit 63 set and need the whole width that `%zu` gives them; that no
  message gives a value to a narrower conversion is not checked. A callback that
  reports fewer characters than it was given: the one in `print.c` never does.
- The layout and the checks of received frames: `net_eth_receive` and the functions it calls compare
  single fields and verify no checksum, so one bit per frame says what they say.
- `cpu/`, `wp_disable` and the watchdog of `uefi_init`: writes to registers and timers that no other
  part of the loader reads. The NXE bit is modelled, since the page tables rely on it.
