--------------------------- MODULE NetbootProofs ---------------------------
(***************************************************************************)
(* Proofs about the command handler that receives one file in an arbitrary *)
(* order, OrderSpec.                                                       *)
(***************************************************************************)
EXTENDS FragmentOrder, HandlerProofs

\* Writing the same file twice is writing it once.
LEMMA OverwriteTwice ==
    ASSUME NEW old \in Seq(Memory), NEW new \in Seq(Memory)
    PROVE  Overwrite(Overwrite(old, new), new) = Overwrite(old, new)
<1> DEFINE n == Larger(Len(old), Len(new))
           c == Overwrite(old, new)
<1>1. n \in Nat /\ Len(old) \in Nat /\ Len(new) \in Nat /\ Len(new) <= n
    BY DEF Larger
<1>2. c = [i \in 1 .. n |-> IF i <= Len(new) THEN new[i] ELSE old[i]]
    BY DEF Overwrite
<1>3. c \in Seq(Memory)
    BY OverwriteType
<1> HIDE DEF n, c
<1>4. DOMAIN c = 1 .. n /\ Len(c) = n
    BY <1>1, <1>2, <1>3
<1>5. Larger(Len(c), Len(new)) = n
    BY <1>1, <1>4 DEF Larger
<1>6. Overwrite(c, new) = [i \in 1 .. n |-> IF i <= Len(new) THEN new[i] ELSE c[i]]
    BY <1>5 DEF Overwrite
<1>7. \A i \in 1 .. n : (IF i <= Len(new) THEN new[i] ELSE c[i]) = c[i]
    BY <1>2
<1>8. c = [i \in 1 .. n |-> c[i]]
    BY <1>2
<1> QED
    BY <1>6, <1>7, <1>8 DEF c

\* Bytes a + 1 to b of a sequence.
LEMMA SliceProperties ==
    ASSUME NEW S, NEW s \in Seq(S), NEW a \in Nat, NEW b \in Nat, a <= b, b <= Len(s)
    PROVE  /\ Len(SubSeq(s, a + 1, b)) = b - a
           /\ \A i \in a + 1 .. b : SubSeq(s, a + 1, b)[i - a] = s[i]
<1>1. Len(s) \in Nat
    OBVIOUS
<1>2. Len(SubSeq(s, a + 1, b)) = b - a
    BY <1>1
<1>3. \A j \in 1 .. b - a : SubSeq(s, a + 1, b)[j] = s[a + j]
    BY <1>1
<1>4. \A i \in a + 1 .. b : i - a \in 1 .. b - a /\ a + (i - a) = i
    OBVIOUS
<1> QED
    BY <1>2, <1>3, <1>4

\* The fragments of the file are where the bounds say.
LEMMA BoundsInFile ==
    ASSUME NEW k \in 0 .. Fragments - 1
    PROVE  /\ k + 1 \in 0 .. Fragments
           /\ Bounds[k] \in Nat /\ Bounds[k + 1] \in Nat
           /\ Bounds[k] <= Bounds[k + 1] /\ Bounds[k + 1] <= Len(File)
<1>1. k \in 0 .. Fragments /\ k + 1 \in 0 .. Fragments
    BY BoundsAssumption
<1> QED
    BY <1>1, BoundsAssumption, FileAssumption

\* Dealing with a fragment, whichever it is, keeps the buffer a prefix of the
\* file, or missing.
LEMMA PrefixGrows ==
    ASSUME BootInv, ReceivedPrefix, NEW m \in Messages, IsFragment(m), ~NoSpace(m)
    PROVE  /\ file_info = [file_size |-> Len(File), path |-> Path]
           /\ PacketsWith(m) \in 0 .. Fragments
           /\ BytesWith(m) = Bounds[PacketsWith(m)]
           /\ Len(BufferWith(m)) = Len(File) \/ (BufferWith(m) = <<>> /\ BytesWith(m) = 0)
           /\ \A i \in 1 .. BytesWith(m) : BufferWith(m)[i] = File[i]
<1> DEFINE k == file_packets_transferred
           off == file_bytes_transferred
<1>1. /\ file_info = [file_size |-> Len(File), path |-> Path]
      /\ k \in 0 .. Fragments /\ off = Bounds[k]
      /\ Len(file_buffer) = Len(File) \/ (file_buffer = <<>> /\ off = 0)
      /\ \A i \in 1 .. off : file_buffer[i] = File[i]
    BY DEF ReceivedPrefix, IsFragment
<1>2. /\ m.fragment_id \in 0 .. Fragments - 1
      /\ m.data = SubSeq(File, Bounds[m.fragment_id] + 1, Bounds[m.fragment_id + 1])
      /\ m.data \in Seq(Byte)
    BY PeerAssumption, MessagesAssumption DEF IsFragment
<1>3. file_buffer \in Seq(Memory) /\ off \in Nat /\ Len(File) \in Nat
    BY FileAssumption DEF BootInv, BootTypeOK
<1>4. CASE ~IsNext(m)
    BY <1>1, <1>3, <1>4 DEF BufferWith, BytesWith, PacketsWith
<1>5. CASE IsNext(m) /\ file_buffer = <<>> /\ off = 0
    <2>1. m.data = <<>> /\ Len(m.data) = 0
        BY <1>5 DEF NoSpace
    <2>2. BufferWith(m) = <<>>
        <3>1. BufferWith(m) = Memcpy(<<>>, 0, <<>>)
            BY <1>5, <2>1 DEF BufferWith
        <3>2. <<>> \in Seq(Memory) /\ <<>> \in Seq(Byte) /\ 0 \in Nat
            OBVIOUS
        <3>3. Memcpy(<<>>, 0, <<>>) \in Seq(Memory) /\ Len(Memcpy(<<>>, 0, <<>>)) = 0
            <4>1. /\ Memcpy(<<>>, 0, <<>>) \in Seq(Memory)
                  /\ Len(Memcpy(<<>>, 0, <<>>)) = Larger(Len(<<>>), 0 + Len(<<>>))
                BY <3>2, MemcpyType, Zenon
            <4> QED
                BY <4>1 DEF Larger
        <3> QED
            BY <3>1, <3>3
    <2>3. BytesWith(m) = 0 /\ PacketsWith(m) = k + 1
        BY <1>5, <2>1 DEF BytesWith, PacketsWith
    <2>4. k = m.fragment_id /\ k \in 0 .. Fragments - 1 /\ m.data = SubSeq(File, 1, Bounds[k + 1])
        BY <1>1, <1>2, <1>5 DEF IsNext
    <2>5. /\ k + 1 \in 0 .. Fragments /\ Bounds[k + 1] \in Nat /\ Bounds[k + 1] <= Len(File)
        BY <2>4, BoundsInFile
    <2>6. Bounds[k + 1] = 0
        BY <2>1, <2>4, <2>5, FileAssumption
    <2> QED
        BY <1>1, <2>2, <2>3, <2>5, <2>6
<1>6. CASE IsNext(m) /\ Len(file_buffer) = Len(File)
    <2>1. /\ k = m.fragment_id /\ k \in 0 .. Fragments - 1
          /\ m.data = SubSeq(File, off + 1, Bounds[k + 1])
        BY <1>1, <1>2, <1>6 DEF IsNext
    <2>2. /\ k + 1 \in 0 .. Fragments /\ Bounds[k + 1] \in Nat
          /\ off <= Bounds[k + 1] /\ Bounds[k + 1] <= Len(File)
        BY <1>1, <2>1, BoundsInFile
    <2>3. /\ Len(m.data) = Bounds[k + 1] - off
          /\ \A i \in off + 1 .. Bounds[k + 1] : m.data[i - off] = File[i]
        <3> DEFINE end == Bounds[k + 1]
        <3>1. /\ off \in Nat /\ end \in Nat /\ off <= end /\ end <= Len(File)
              /\ File \in Seq(Byte) /\ m.data = SubSeq(File, off + 1, end)
            BY <1>3, <2>1, <2>2, FileAssumption
        <3> HIDE DEF off, end
        <3>2. /\ Len(SubSeq(File, off + 1, end)) = end - off
              /\ \A i \in off + 1 .. end : SubSeq(File, off + 1, end)[i - off] = File[i]
            BY <3>1, SliceProperties
        <3> QED
            BY <3>1, <3>2 DEF end
    <2>4. off + Len(m.data) = Bounds[k + 1]
        BY <1>3, <2>3, <2>2
    <2>5. /\ BufferWith(m) = Memcpy(file_buffer, off, m.data)
          /\ BytesWith(m) = Bounds[k + 1] /\ PacketsWith(m) = k + 1
        BY <1>6, <2>4 DEF BufferWith, BytesWith, PacketsWith
    <2>6. Larger(Len(file_buffer), off + Len(m.data)) = Len(File)
        BY <1>3, <1>6, <2>2, <2>4 DEF Larger
    <2>7. /\ Len(BufferWith(m)) = Len(File)
          /\ \A i \in 1 .. Len(File) :
                BufferWith(m)[i]
                  = IF i \in off + 1 .. Bounds[k + 1] THEN m.data[i - off]
                    ELSE IF i <= Len(file_buffer) THEN file_buffer[i] ELSE Garbage
        <3>1. /\ Len(Memcpy(file_buffer, off, m.data))
                   = Larger(Len(file_buffer), off + Len(m.data))
              /\ \A i \in 1 .. Larger(Len(file_buffer), off + Len(m.data)) :
                    Memcpy(file_buffer, off, m.data)[i]
                      = IF i \in off + 1 .. off + Len(m.data) THEN m.data[i - off]
                        ELSE IF i <= Len(file_buffer) THEN file_buffer[i] ELSE Garbage
            <4> HIDE DEF off
            <4> DEFINE d == m.data
            <4>1. d \in Seq(Byte)
                BY <1>2
            <4> HIDE DEF d
            <4>2. /\ Len(Memcpy(file_buffer, off, d))
                       = Larger(Len(file_buffer), off + Len(d))
                  /\ \A i \in 1 .. Larger(Len(file_buffer), off + Len(d)) :
                        Memcpy(file_buffer, off, d)[i]
                          = IF i \in off + 1 .. off + Len(d) THEN d[i - off]
                            ELSE IF i <= Len(file_buffer) THEN file_buffer[i] ELSE Garbage
                BY <1>3, <4>1, MemcpyProperties
            <4> QED
                BY <4>2 DEF d
        <3> QED
            BY <2>4, <2>5, <2>6, <3>1
    <2>8. ASSUME NEW i \in 1 .. Bounds[k + 1]
          PROVE  BufferWith(m)[i] = File[i]
        <3>1. i \in 1 .. Len(File)
            BY <1>3, <2>2
        <3>2. CASE i \in off + 1 .. Bounds[k + 1]
            BY <2>3, <2>7, <3>1, <3>2
        <3>3. CASE i \in 1 .. off
            BY <1>1, <1>3, <2>7, <3>1, <3>3
        <3> QED
            BY <1>3, <2>2, <3>2, <3>3
    <2> QED
        BY <1>1, <2>2, <2>5, <2>7, <2>8
<1> QED
    BY <1>1, <1>4, <1>5, <1>6

\* What ReceivedPrefix says of a transfer whose file is about to be written.
AllReceived == writing => file_bytes_transferred = file_info.file_size

\* A complete transfer leaves the file on the volume and touches nothing else.
LEMMA CompleteWrites ==
    ASSUME BootInv, ReceivedPrefix, AllReceived, WholeFileOrNone, Running, writing,
           WriteFile(file_info.file_size)
    PROVE  /\ \A n \in Named[Path] : disk'[n] \in {Disk0[n], Overwrite(Disk0[n], File)}
           /\ \A n \in Names \ Named[Path] : disk'[n] = Disk0[n]
<1>1. InTransfer /\ file_bytes_transferred = file_info.file_size
    BY DEF AllReceived, BootInv, IdleMeansCleared
<1>2. /\ file_info.file_size = Len(File) /\ file_info.path = Path
      /\ Len(file_buffer) = Len(File) \/ (file_buffer = <<>> /\ Len(File) = 0)
      /\ \A i \in 1 .. Len(File) : file_buffer[i] = File[i]
    BY <1>1 DEF ReceivedPrefix
<1>3. file_buffer \in Seq(Memory) /\ Len(File) \in Nat /\ File \in Seq(Memory)
    BY FileAssumption DEF Memory, BootInv, BootTypeOK
<1>4. BytesAt(file_buffer, Len(File)) = File
    <2> DEFINE b == BytesAt(file_buffer, Len(File))
    <2>1. /\ b \in Seq(Memory) /\ Len(b) = Len(File)
          /\ \A i \in 1 .. Len(File) :
                b[i] = IF i <= Len(file_buffer) THEN file_buffer[i] ELSE Garbage
        BY <1>3, BytesAtProperties
    <2> HIDE DEF b
    <2>2. Len(file_buffer) = Len(File)
        BY <1>2
    <2>3. \A i \in 1 .. Len(File) : b[i] = File[i]
        BY <1>2, <2>1, <2>2
    <2>4. b = File
        BY <1>3, <2>1, <2>3
    <2> QED
        BY <2>4 DEF b
<1>5. /\ disk \in [Names -> Seq(Memory)] /\ Named[Path] \subseteq Names
      /\ Disk0 \in [Names -> Seq(Memory)]
      /\ \A n \in Named[Path] : disk[n] \in {Disk0[n], Overwrite(Disk0[n], File)}
      /\ \A n \in Names \ Named[Path] : disk[n] = Disk0[n]
    BY FileAssumption, PathsAssumption, DiskAssumption
    DEF BootInv, BootTypeOK, WholeFileOrNone, Running
<1>6. PICK name \in Named[Path] :
          disk' = [disk EXCEPT ![name] = Overwrite(disk[name], File)]
    BY <1>2, <1>4 DEF WriteFile
<1>7. Overwrite(Overwrite(Disk0[name], File), File) = Overwrite(Disk0[name], File)
    BY <1>3, <1>5, OverwriteTwice
<1>8. disk'[name] = Overwrite(Disk0[name], File)
    BY <1>5, <1>6, <1>7
<1>9. \A n \in Names \ {name} : disk'[n] = disk[n]
    BY <1>5, <1>6
<1> QED
    BY <1>5, <1>8, <1>9

OrderInv == BootInv /\ ReceivedPrefix /\ AllReceived /\ WholeFileOrNone

\* Every message of the peer preserves the order invariant.
LEMMA OrderStep ==
    ASSUME OrderInv, Polling, NEW m \in Messages,
           m.cmd = "CMD_FILE_SEND_INIT" => ~InTransfer, netboot_cmd_receive(m)
    PROVE  ReceivedPrefix' /\ AllReceived' /\ WholeFileOrNone'
<1> USE DEF OrderInv
<1>1. CASE /\ IsFragment(m) /\ ~NoSpace(m) /\ ReceiveFragment(m)
           /\ UNCHANGED disk /\ power' \in {power, "exited"}
    <2>1. /\ file_buffer' = BufferWith(m)
          /\ file_bytes_transferred' = BytesWith(m)
          /\ file_packets_transferred' = PacketsWith(m)
          /\ writing' = (BytesWith(m) = file_info.file_size)
          /\ UNCHANGED file_info
        BY <1>1 DEF ReceiveFragment, Completes
    <2>2. ReceivedPrefix'
        BY <1>1, <2>1, PrefixGrows DEF ReceivedPrefix
    <2>3. AllReceived'
        BY <2>1 DEF AllReceived
    <2> QED
        BY <1>1, <2>2, <2>3 DEF WholeFileOrNone
<1>2. CASE m.cmd = "CMD_FILE_SEND_INIT" /\ BeginTransfer(m) /\ UNCHANGED disk
    <2>1. m.file_info = [file_size |-> Len(File), path |-> Path]
        BY <1>2, PeerAssumption
    <2>2. /\ file_bytes_transferred = 0 /\ file_packets_transferred = 0
          /\ file_buffer = <<>> /\ ~writing
        BY <1>2 DEF BootInv, IdleMeansCleared
    <2>3. /\ file_info' = [file_size |-> Len(File), path |-> Path]
          /\ file_buffer' \in {BytesAt(<<>>, Len(File)), <<>>}
          /\ file_bytes_transferred' = 0 /\ file_packets_transferred' = 0
          /\ disk' = disk /\ ~writing'
        BY <1>2, <2>1, <2>2 DEF BeginTransfer
    <2>4. Len(file_buffer') = Len(File) \/ file_buffer' = <<>>
        <3>1. Len(File) \in Nat /\ <<>> \in Seq(Memory)
            BY FileAssumption
        <3>2. Len(BytesAt(<<>>, Len(File))) = Len(File)
            BY <3>1, BytesAtProperties
        <3> QED
            BY <2>3, <3>2
    <2>5. Bounds[0] = 0 /\ 0 \in 0 .. Fragments
        BY BoundsAssumption
    <2>6. ReceivedPrefix'
        BY <2>3, <2>4, <2>5 DEF ReceivedPrefix
    <2> QED
        BY <2>3, <2>6 DEF AllReceived, WholeFileOrNone, Polling, Running
<1>3. CASE \/ FwSetup(m) \/ Reset(m) \/ StopAdvertising(m) \/ Boot(m) \/ Ignore(m)
           \/ WriteThroughNull(m)
    <2>1. UNCHANGED <<state, file_info, file_buffer, file_bytes_transferred,
                      file_packets_transferred, writing, disk>>
        BY <1>3 DEF FwSetup, Reset, StopAdvertising, Boot, Ignore, WriteThroughNull,
                    transfer, bootVars
    <2>2. power = "on"
        BY DEF Polling, Running
    <2> QED
        BY <2>1, <2>2 DEF ReceivedPrefix, InTransfer, AllReceived, WholeFileOrNone
<1>4. CASE StoreFragment(m)
    BY <1>1, <1>4 DEF StoreFragment
<1>5. CASE FileSendInit(m) \/ AckFails(m)
    BY <1>1, <1>2, <1>5 DEF FileSendInit, AckFails, EFIERR
<1> QED
    BY <1>3, <1>4, <1>5 DEF netboot_cmd_receive, Handle

\* Writing the file preserves it, whether the volume fails or not.
LEMMA FinishStep ==
    ASSUME OrderInv, FinishTransfer
    PROVE  ReceivedPrefix' /\ AllReceived' /\ WholeFileOrNone'
<1> USE DEF OrderInv
<1>1. CASE CompleteFile
    <2>1. /\ writing /\ WriteFile(file_info.file_size) /\ Running
          /\ state' = "STATE_CMD_WAIT" /\ ~writing'
        BY <1>1 DEF CompleteFile, FinishTransfer
    <2> QED
        BY <2>1, CompleteWrites DEF ReceivedPrefix, InTransfer, AllReceived, WholeFileOrNone
<1>2. CASE CompleteFails
    <2>1. writing /\ power' = "exited" /\ UNCHANGED transfer
        BY <1>2 DEF CompleteFails, EFIERR
    <2>2. PICK len \in 0 .. file_info.file_size : WriteFile(len)
        BY <1>2 DEF CompleteFails
    <2>3. file_info.path = Path /\ disk \in [Names -> Seq(Memory)]
        BY <2>1 DEF BootInv, BootTypeOK, IdleMeansCleared, ReceivedPrefix
    <2>4. \A n \in Names \ Named[Path] : disk'[n] = disk[n]
        <3>1. PICK name \in Named[Path] : \E new :
                  disk' = [disk EXCEPT ![name] = new]
            BY <2>2, <2>3 DEF WriteFile
        <3> QED
            BY <2>3, <3>1
    <2> QED
        BY <2>1, <2>4 DEF ReceivedPrefix, InTransfer, AllReceived, WholeFileOrNone, transfer
<1> QED
    BY <1>1, <1>2 DEF FinishTransfer

\* For every file, every division into fragments and every loss, repetition and
\* reordering of the fragments: what the handler counts as received is a prefix
\* of the file, and the volume holds the old file or the new one laid over it.
THEOREM AnyOrderDelivers == OrderSpec => [](ReceivedPrefix /\ WholeFileOrNone)
<1>1. BootInit => OrderInv
    BY BootInitInv
    DEF BootInit, OrderInv, ReceivedPrefix, InTransfer, AllReceived, WholeFileOrNone
<1>2. OrderInv /\ [OrderNext]_bootVars => OrderInv'
    <2> SUFFICES ASSUME OrderInv, [OrderNext]_bootVars PROVE OrderInv'
        OBVIOUS
    <2>1. CASE FinishTransfer
        BY <2>1, FinishInv, FinishStep DEF OrderInv
    <2>2. CASE OrderNext /\ ~FinishTransfer
        <3>1. PICK m \in Messages : /\ m.cmd = "CMD_FILE_SEND_INIT" => ~InTransfer
                                    /\ netboot_cmd_receive(m)
            BY <2>2 DEF OrderNext
        <3>2. Polling
            BY <2>2 DEF OrderNext
        <3> QED
            BY <3>1, <3>2, ReceiveInv, OrderStep DEF OrderInv
    <2>3. CASE UNCHANGED bootVars
        BY <2>3, StutterInv
        DEF bootVars, transfer, flags, OrderInv, ReceivedPrefix, InTransfer, AllReceived,
            WholeFileOrNone
    <2> QED
        BY <2>1, <2>2, <2>3
<1>3. OrderInv => ReceivedPrefix /\ WholeFileOrNone
    BY DEF OrderInv
<1> QED
    BY <1>1, <1>2, <1>3, PTL DEF OrderSpec
=============================================================================
