--------------------------- MODULE FragmentOrder ---------------------------
(***************************************************************************)
(* The command handler receiving one file whose fragments may be lost,     *)
(* repeated and reordered in any way, for any division of the file into    *)
(* fragments.  The only thing the peer may not do is repeat                *)
(* CMD_FILE_SEND_INIT while the transfer runs; NetbootSystem has a peer    *)
(* and links that guarantee as much.                                       *)
(***************************************************************************)
EXTENDS Netboot

CONSTANTS
    File,       \* the content of the file
    Path,       \* its name
    Fragments,  \* the number of fragments
    Bounds      \* fragment i is bytes Bounds[i] + 1 to Bounds[i + 1] of File

ASSUME FileAssumption ==
    /\ File \in Seq(Byte)
    /\ Path \in Paths

ASSUME BoundsAssumption ==
    /\ Fragments \in Nat
    /\ Bounds \in [0 .. Fragments -> 0 .. Len(File)]
    /\ Bounds[0] = 0
    /\ \A i \in 0 .. Fragments - 1 : Bounds[i] <= Bounds[i + 1]

ASSUME PeerAssumption ==
    \A m \in Messages :
        /\ m.cmd = "CMD_FILE_SEND_INIT" =>
              m.file_info = [file_size |-> Len(File), path |-> Path]
        /\ m.cmd = "CMD_FILE_FRAGMENT" =>
              /\ m.fragment_id \in 0 .. Fragments - 1
              /\ m.data = SubSeq(File, Bounds[m.fragment_id] + 1,
                                       Bounds[m.fragment_id + 1])

\* CMD_FILE_SEND_INIT arrives only while no transfer runs.
OrderNext ==
    \/ FinishTransfer
    \/ /\ Polling
       /\ \E m \in Messages :
             /\ m.cmd = "CMD_FILE_SEND_INIT" => ~InTransfer
             /\ netboot_cmd_receive(m)

OrderSpec == BootInit /\ [][OrderNext]_bootVars

-----------------------------------------------------------------------------
\* While a transfer runs, the bytes counted as received are those of the file,
\* they end at a fragment boundary, and no copy left the allocation: the test
\* of fragment_id against file_packets_transferred is all the reordering
\* protection netboot_cmd_receive needs.  When file_buffer could not be
\* allocated, no byte is ever counted.
ReceivedPrefix ==
    InTransfer =>
        /\ file_info = [file_size |-> Len(File), path |-> Path]
        /\ file_packets_transferred \in 0 .. Fragments
        /\ file_bytes_transferred = Bounds[file_packets_transferred]
        /\ \/ Len(file_buffer) = Len(File)
           \/ file_buffer = <<>> /\ file_bytes_transferred = 0
        /\ \A i \in 1 .. file_bytes_transferred : file_buffer[i] = File[i]

\* Unless the loader gave up on a failing volume or wrote through NULL, the file
\* on the volume is the old one or the new one laid over it, never a mixture of
\* received fragments and unwritten memory; no other file changes.
WholeFileOrNone ==
    /\ power \notin {"exited", "undefined"} =>
          \A n \in Named[Path] : disk[n] \in {Disk0[n], Overwrite(Disk0[n], File)}
    /\ \A n \in Names \ Named[Path] : disk[n] = Disk0[n]
=============================================================================
