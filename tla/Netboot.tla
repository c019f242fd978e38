------------------------------ MODULE Netboot ------------------------------
(***************************************************************************)
(* The netboot command handler, netboot_cmd_receive of net/netboot.c, and  *)
(* the state it keeps (vy_netboot_t and the flags of net/net.c it sets).   *)
(*                                                                         *)
(* A message is a record with a field cmd; a CMD_FILE_SEND_INIT also has   *)
(* file_info (file_size and path, the fields the code acts on), and a      *)
(* CMD_FILE_FRAGMENT has fragment_id and data, a sequence of bytes whose   *)
(* length is data_len.  The constant Messages is the set of messages that  *)
(* may arrive, so this module alone describes the handler in an arbitrary  *)
(* environment; NetbootSystem supplies the peer.                           *)
(*                                                                         *)
(* EFIERR prints, waits for a key and leaves the loader through Exit:      *)
(* power becomes "exited".  The two allocations for a file are not         *)
(* checked: AllocatePool may fail, and what the handler then writes        *)
(* through NULL ends in power "undefined".                                 *)
(*                                                                         *)
(* The handler acknowledges the last fragment of a file before it writes   *)
(* the file.  Both take time, and the acknowledgement travels while the    *)
(* file is written, so they are two steps: netboot_cmd_receive, up to and  *)
(* including the acknowledgement, and FinishTransfer.                      *)
(***************************************************************************)
EXTENDS Ucs2

CONSTANTS
    Byte,      \* what a file consists of
    Garbage,   \* the content of memory nobody has written, not a Byte
    Paths,     \* paths the peer may give for a file, sequences of octets
    Beyond,    \* pairs of octets that may lie behind a path in memory
    Names,     \* names of files on the boot volume
    Messages,  \* messages that may reach the handler
    Disk0      \* the boot volume when the loader starts

Memory == Byte \cup {Garbage}

Commands ==
    {"CMD_ADVERTISE", "CMD_STOP_ADVERTISING", "CMD_SHUTDOWN", "CMD_FWSETUP",
     "CMD_REBOOT", "CMD_FILE_SEND_INIT", "CMD_FILE_FRAGMENT", "CMD_ACK",
     "CMD_BOOT"}

FileInfos == [file_size : Nat, path : Paths]

\* No allocation: file_info is NULL.
NoFile == [file_size |-> -1]

\* The names under which the file with path p may be opened.
Named == [p \in Paths |-> {UpToZero(uefi_to_ucs2(p, b)) : b \in Beyond}]

ASSUME PathsAssumption == \A p \in Paths : IsUtf8(p) /\ Named[p] \subseteq Names

ASSUME DiskAssumption == Disk0 \in [Names -> Seq(Memory)]

ASSUME MessagesAssumption ==
    \A m \in Messages :
        /\ m.cmd \in Commands
        /\ m.cmd = "CMD_FILE_SEND_INIT" => m.file_info \in FileInfos
        /\ m.cmd = "CMD_FILE_FRAGMENT" =>
              m.fragment_id \in Nat /\ m.data \in Seq(Byte)

VARIABLES
    state,                     \* the fields of vy_netboot_t
    file_info,
    file_buffer,
    file_bytes_transferred,
    file_packets_transferred,
    writing,                   \* the last fragment is dealt with, the file not
    net_poll_continue,         \* flags of net/net.c
    net_stop_advertising,
    disk,                      \* the boot volume
    power                      \* "on", "exited", "reset", "off", "undefined"

transfer == <<state, file_info, file_buffer, file_bytes_transferred,
              file_packets_transferred, writing>>
flags    == <<net_poll_continue, net_stop_advertising>>
bootVars == <<transfer, flags, disk, power>>

BootInit ==
    /\ state = "STATE_PREINIT"
    /\ file_info = NoFile
    /\ file_buffer = <<>>
    /\ file_bytes_transferred = 0
    /\ file_packets_transferred = 0
    /\ writing = FALSE
    /\ net_poll_continue = TRUE
    /\ net_stop_advertising = FALSE
    /\ disk = Disk0
    /\ power = "on"

-----------------------------------------------------------------------------
Larger(a, b) == IF a > b THEN a ELSE b

\* memcpy of data to offset off of buf.  Bytes past the end of the allocation
\* are shown as an extension of buf, so an overrun is visible in its length.
Memcpy(buf, off, data) ==
    [i \in 1 .. Larger(Len(buf), off + Len(data)) |->
        IF i \in off + 1 .. off + Len(data) THEN data[i - off]
        ELSE IF i <= Len(buf) THEN buf[i] ELSE Garbage]

\* Opening without truncation and writing at offset 0: the tail of a longer
\* old file stays.
Overwrite(old, new) ==
    [i \in 1 .. Larger(Len(old), Len(new)) |->
        IF i <= Len(new) THEN new[i] ELSE old[i]]

Running    == power = "on"
InTransfer == state = "STATE_FILE_TRANSFER"

IsFragment(m) == InTransfer /\ m.cmd = "CMD_FILE_FRAGMENT"

\* Mutants: fragments after a gap, or repeated ones, are taken for the next.
AfterGap(m)  == m.fragment_id >= file_packets_transferred
Repeated(m)  == m.fragment_id <= file_packets_transferred

IsNext(m) == m.fragment_id = file_packets_transferred

\* Mutant: a repeated fragment is not acknowledged again.
AcknowledgesNextOnly(m) ==
    (IsFragment(m) /\ IsNext(m)) \/ m.cmd = "CMD_FILE_SEND_INIT"

\* The acknowledgement netboot_cmd_receive sends in answer to m, if any.
Acknowledges(m) == IsFragment(m) \/ m.cmd = "CMD_FILE_SEND_INIT"

Ack(m) ==
    [cmd |-> "CMD_ACK",
     type |-> m.cmd,
     file_fragment |->
        IF m.cmd = "CMD_FILE_SEND_INIT" THEN 0
        ELSE IF m.fragment_id < file_packets_transferred THEN m.fragment_id
        ELSE file_packets_transferred]

\* Mutant: the packet counter is taken for the byte counter.
CopyAtPacketCount(m) ==
    IF IsNext(m) THEN Memcpy(file_buffer, file_packets_transferred, m.data)
    ELSE file_buffer

\* The transfer state once fragment m is dealt with: a fragment that is not the
\* next one is dropped.
BufferWith(m) ==
    IF IsNext(m) THEN Memcpy(file_buffer, file_bytes_transferred, m.data)
    ELSE file_buffer
BytesWith(m) ==
    file_bytes_transferred + IF IsNext(m) THEN Len(m.data) ELSE 0
PacketsWith(m) ==
    file_packets_transferred + IF IsNext(m) THEN 1 ELSE 0

Completes(m) == BytesWith(m) = file_info.file_size

\* The copy of fragment m goes through a NULL pointer, or to an allocation of no
\* bytes.
NoSpace(m) == IsNext(m) /\ m.data # <<>> /\ file_buffer = <<>>

\* n bytes from the address file_buffer; past the allocation, or at NULL, they
\* are whatever memory holds.
BytesAt(buf, n) == [i \in 1 .. n |-> IF i <= Len(buf) THEN buf[i] ELSE Garbage]

\* The first n bytes of the received file reach the volume.
WriteFile(n) ==
    \E name \in Named[file_info.path] :
        disk' = [disk EXCEPT ![name] = Overwrite(@, BytesAt(file_buffer, n))]

EFIERR ==
    /\ power' = "exited"
    /\ UNCHANGED flags

-----------------------------------------------------------------------------
ReceiveFragment(m) ==
    /\ file_buffer' = BufferWith(m)
    /\ file_bytes_transferred' = BytesWith(m)
    /\ file_packets_transferred' = PacketsWith(m)
    /\ writing' = Completes(m)
    /\ UNCHANGED <<state, file_info>>

\* A new transfer, whatever the handler was doing: the counters are not reset.
\* An allocation of file_buffer that fails leaves the pointer alone or makes it
\* NULL, unseen.  (One of file_info that leaves the pointer of the last transfer
\* alone makes no difference here.)
BeginTransfer(m) ==
    /\ file_info' = m.file_info
    /\ file_buffer' \in {BytesAt(<<>>, m.file_info.file_size), <<>>, file_buffer}
    /\ state' = "STATE_FILE_TRANSFER"
    /\ UNCHANGED <<file_bytes_transferred, file_packets_transferred, writing>>

StoreFragment(m) ==
    /\ IsFragment(m) /\ ~NoSpace(m)
    /\ ReceiveFragment(m)
    /\ UNCHANGED <<flags, disk, power>>

FileSendInit(m) ==
    /\ m.cmd = "CMD_FILE_SEND_INIT"
    /\ BeginTransfer(m)
    /\ UNCHANGED <<flags, disk, power>>

\* Memory is written through NULL: the allocation of file_info or file_buffer
\* failed.
WriteThroughNull(m) ==
    /\ m.cmd = "CMD_FILE_SEND_INIT" \/ (IsFragment(m) /\ NoSpace(m))
    /\ power' = "undefined"
    /\ UNCHANGED <<transfer, flags, disk>>

\* malloc in netboot_cmd_send fails while an acknowledgement is built.
AckFails(m) ==
    /\ \/ IsFragment(m) /\ ~NoSpace(m) /\ ReceiveFragment(m)
       \/ m.cmd = "CMD_FILE_SEND_INIT" /\ BeginTransfer(m)
    /\ EFIERR
    /\ UNCHANGED disk

\* Firmware setup is either unsupported, and the poll loop just ends, or the
\* machine is reset into it.
FwSetup(m) ==
    /\ m.cmd = "CMD_FWSETUP"
    /\ net_poll_continue' = FALSE
    /\ power' \in {"on", "reset"}
    /\ UNCHANGED <<transfer, net_stop_advertising, disk>>

Reset(m) ==
    /\ \/ m.cmd = "CMD_SHUTDOWN" /\ power' = "off"
       \/ m.cmd = "CMD_REBOOT" /\ power' = "reset"
    /\ net_poll_continue' = FALSE
    /\ UNCHANGED <<transfer, net_stop_advertising, disk>>

StopAdvertising(m) ==
    /\ m.cmd = "CMD_STOP_ADVERTISING"
    /\ net_stop_advertising' = TRUE
    /\ UNCHANGED <<transfer, net_poll_continue, disk, power>>

Boot(m) ==
    /\ m.cmd = "CMD_BOOT"
    /\ net_poll_continue' = FALSE
    /\ UNCHANGED <<transfer, net_stop_advertising, disk, power>>

\* Fragments outside a transfer, and the commands a loader only sends.
Ignore(m) ==
    /\ \/ m.cmd = "CMD_FILE_FRAGMENT" /\ ~InTransfer
       \/ m.cmd \in {"CMD_ADVERTISE", "CMD_ACK"}
    /\ UNCHANGED bootVars

\* The handler when every acknowledgement it has to build can be built.
Handle(m) ==
    \/ StoreFragment(m)
    \/ FileSendInit(m)
    \/ FwSetup(m)
    \/ Reset(m)
    \/ StopAdvertising(m)
    \/ Boot(m)
    \/ Ignore(m)

netboot_cmd_receive(m) == Handle(m) \/ AckFails(m) \/ WriteThroughNull(m)

-----------------------------------------------------------------------------
\* Mutant: memset stops before the counters.
CompleteKeepsCounters ==
    /\ writing
    /\ WriteFile(file_info.file_size)
    /\ file_info' = NoFile
    /\ file_buffer' = <<>>
    /\ state' = "STATE_CMD_WAIT" /\ writing' = FALSE
    /\ UNCHANGED <<file_bytes_transferred, file_packets_transferred, flags, power>>

\* After the last packet: the file is written and the transfer state cleared.
CompleteFile ==
    /\ writing
    /\ WriteFile(file_info.file_size)
    /\ file_info' = NoFile
    /\ file_buffer' = <<>>
    /\ file_bytes_transferred' = 0
    /\ file_packets_transferred' = 0
    /\ state' = "STATE_CMD_WAIT" /\ writing' = FALSE
    /\ UNCHANGED <<flags, power>>

\* The same, but the volume fails: some of the file may be written.
CompleteFails ==
    /\ writing
    /\ \E n \in 0 .. file_info.file_size : WriteFile(n)
    /\ EFIERR
    /\ UNCHANGED transfer

FinishTransfer == Running /\ (CompleteFile \/ CompleteFails)

\* Only a running poll loop that is not in the handler reaches the handler.
Polling == Running /\ net_poll_continue /\ ~writing

BootNext == FinishTransfer \/ (Polling /\ \E m \in Messages : netboot_cmd_receive(m))

BootSpec == BootInit /\ [][BootNext]_bootVars

-----------------------------------------------------------------------------
BootTypeOK ==
    /\ state \in {"STATE_PREINIT", "STATE_CMD_WAIT", "STATE_FILE_TRANSFER"}
    /\ file_info \in FileInfos \cup {NoFile}
    /\ file_buffer \in Seq(Memory)
    /\ file_bytes_transferred \in Nat
    /\ file_packets_transferred \in Nat
    /\ writing \in BOOLEAN
    /\ net_poll_continue \in BOOLEAN
    /\ net_stop_advertising \in BOOLEAN
    /\ disk \in [Names -> Seq(Memory)]
    /\ power \in {"on", "exited", "reset", "off", "undefined"}

\* Every transfer that starts from an idle handler starts at fragment 0, byte 0,
\* although CMD_FILE_SEND_INIT does not reset the counters: completing the
\* previous file did.  A handler that goes on has a file_info exactly while a
\* transfer runs, since a failed allocation of it is fatal at once; file_buffer
\* may be missing then.
IdleMeansCleared ==
    /\ InTransfer <=> file_info # NoFile
    /\ ~InTransfer =>
          /\ ~writing
          /\ file_buffer = <<>>
          /\ file_bytes_transferred = 0
          /\ file_packets_transferred = 0

\* What a transfer has received is kept until the transfer ends, whatever else
\* arrives: the handler calls other commands "unexpected command in file
\* transfer".  (An allocation that fails is another matter.)
ReceivedDataKept ==
    [][InTransfer /\ InTransfer' /\ file_buffer' # <<>> =>
          \A i \in 1 .. file_bytes_transferred :
              i <= Len(file_buffer) =>
                  i <= Len(file_buffer') /\ file_buffer'[i] = file_buffer[i]]_bootVars
=============================================================================
