---------------------------- MODULE HandlerProofs ----------------------------
(***************************************************************************)
(* Proofs about the command handler in an arbitrary environment, BootSpec. *)
(***************************************************************************)
EXTENDS Netboot, TLAPS

BootInv == BootTypeOK /\ IdleMeansCleared

-----------------------------------------------------------------------------
\* A copy into the file buffer changes the bytes it covers and no others.
LEMMA MemcpyProperties ==
    ASSUME NEW buf \in Seq(Memory), NEW off \in Nat, NEW data \in Seq(Byte)
    PROVE  /\ Memcpy(buf, off, data) \in Seq(Memory)
           /\ Len(Memcpy(buf, off, data)) = Larger(Len(buf), off + Len(data))
           /\ \A i \in 1 .. Larger(Len(buf), off + Len(data)) :
                 Memcpy(buf, off, data)[i]
                   = IF i \in off + 1 .. off + Len(data) THEN data[i - off]
                     ELSE IF i <= Len(buf) THEN buf[i] ELSE Garbage
<1> DEFINE n == Larger(Len(buf), off + Len(data))
           c == Memcpy(buf, off, data)
<1>1. n \in Nat /\ Len(buf) \in Nat /\ Len(data) \in Nat
    BY DEF Larger
<1>2. c = [i \in 1 .. n |->
              IF i \in off + 1 .. off + Len(data) THEN data[i - off]
              ELSE IF i <= Len(buf) THEN buf[i] ELSE Garbage]
    BY DEF Memcpy
<1>3. ASSUME NEW i \in 1 .. n
      PROVE  (IF i \in off + 1 .. off + Len(data) THEN data[i - off]
              ELSE IF i <= Len(buf) THEN buf[i] ELSE Garbage) \in Memory
    <2>1. CASE i \in off + 1 .. off + Len(data)
        <3>1. i - off \in 1 .. Len(data)
            BY <1>1, <2>1
        <3>2. data[i - off] \in Byte
            BY <3>1
        <3> QED
            BY <2>1, <3>2 DEF Memory
    <2>2. CASE i \notin off + 1 .. off + Len(data)
        BY <1>1, <2>2 DEF Memory
    <2> QED
        BY <2>1, <2>2
<1> HIDE DEF n, c
<1>4. c \in [1 .. n -> Memory]
    BY <1>2, <1>3
<1>5. c \in Seq(Memory) /\ Len(c) = n
    BY <1>1, <1>4
<1> QED
    BY <1>2, <1>5 DEF n, c

\* The type and the length of the result alone.
LEMMA MemcpyType ==
    ASSUME NEW buf \in Seq(Memory), NEW off \in Nat, NEW data \in Seq(Byte)
    PROVE  /\ Memcpy(buf, off, data) \in Seq(Memory)
           /\ Len(Memcpy(buf, off, data)) = Larger(Len(buf), off + Len(data))
BY MemcpyProperties, Zenon

\* Writing a file over another yields a file.
LEMMA OverwriteType ==
    ASSUME NEW old \in Seq(Memory), NEW new \in Seq(Memory)
    PROVE  Overwrite(old, new) \in Seq(Memory)
<1> DEFINE n == Larger(Len(old), Len(new))
           c == Overwrite(old, new)
<1>1. n \in Nat /\ Len(old) \in Nat /\ Len(new) \in Nat
    BY DEF Larger
<1>2. c = [i \in 1 .. n |-> IF i <= Len(new) THEN new[i] ELSE old[i]]
    BY DEF Overwrite
<1>3. ASSUME NEW i \in 1 .. n
      PROVE  (IF i <= Len(new) THEN new[i] ELSE old[i]) \in Memory
    BY <1>1 DEF Larger
<1> HIDE DEF n, c
<1>4. c \in [1 .. n -> Memory]
    BY <1>2, <1>3
<1>5. c \in Seq(Memory)
    BY <1>1, <1>4
<1> QED
    BY <1>5 DEF c

\* What is read from a buffer, whatever its length.
LEMMA BytesAtProperties ==
    ASSUME NEW buf \in Seq(Memory), NEW n \in Nat
    PROVE  /\ BytesAt(buf, n) \in Seq(Memory)
           /\ Len(BytesAt(buf, n)) = n
           /\ \A i \in 1 .. n :
                 BytesAt(buf, n)[i] = IF i <= Len(buf) THEN buf[i] ELSE Garbage
<1> DEFINE c == BytesAt(buf, n)
<1>1. c = [i \in 1 .. n |-> IF i <= Len(buf) THEN buf[i] ELSE Garbage]
    BY DEF BytesAt
<1>2. \A i \in 1 .. n : (IF i <= Len(buf) THEN buf[i] ELSE Garbage) \in Memory
    BY DEF Memory
<1> HIDE DEF c
<1>3. c \in [1 .. n -> Memory]
    BY <1>1, <1>2
<1>4. c \in Seq(Memory) /\ Len(c) = n
    BY <1>3
<1> QED
    BY <1>1, <1>4 DEF c

-----------------------------------------------------------------------------
\* The transfer state computed from a fragment is well typed.
LEMMA FragmentTypes ==
    ASSUME BootInv, NEW m \in Messages, IsFragment(m)
    PROVE  /\ BufferWith(m) \in Seq(Memory)
           /\ BytesWith(m) \in Nat
           /\ PacketsWith(m) \in Nat
<1>1. m.fragment_id \in Nat /\ m.data \in Seq(Byte) /\ Len(m.data) \in Nat
    BY MessagesAssumption DEF IsFragment
<1>2. /\ file_buffer \in Seq(Memory) /\ Len(file_buffer) \in Nat
      /\ file_bytes_transferred \in Nat /\ file_packets_transferred \in Nat
    BY DEF BootInv, BootTypeOK
<1>3. BytesWith(m) \in Nat /\ PacketsWith(m) \in Nat
    BY <1>1, <1>2 DEF BytesWith, PacketsWith
<1>4. CASE IsNext(m)
    <2> DEFINE d == m.data
    <2>1. BufferWith(m) = Memcpy(file_buffer, file_bytes_transferred, d)
        BY <1>4 DEF BufferWith
    <2>2. d \in Seq(Byte)
        BY <1>1
    <2> HIDE DEF d
    <2>3. Memcpy(file_buffer, file_bytes_transferred, d) \in Seq(Memory)
        BY <1>2, <2>2, MemcpyType, Zenon
    <2> QED
        BY <1>3, <2>1, <2>3
<1>5. CASE ~IsNext(m)
    BY <1>2, <1>3, <1>5 DEF BufferWith
<1> QED
    BY <1>4, <1>5

\* Writing some of the file leaves a well-formed volume.
LEMMA WriteType ==
    ASSUME BootInv, file_info \in FileInfos, NEW n \in Nat, WriteFile(n)
    PROVE  disk' \in [Names -> Seq(Memory)]
<1>1. BytesAt(file_buffer, n) \in Seq(Memory)
    BY BytesAtProperties DEF BootInv, BootTypeOK
<1>2. PICK name \in Named[file_info.path] :
          disk' = [disk EXCEPT ![name] = Overwrite(disk[name], BytesAt(file_buffer, n))]
    BY DEF WriteFile
<1>3. name \in Names /\ disk \in [Names -> Seq(Memory)]
    BY <1>2, PathsAssumption DEF FileInfos, BootInv, BootTypeOK
<1>4. Overwrite(disk[name], BytesAt(file_buffer, n)) \in Seq(Memory)
    BY <1>1, <1>3, OverwriteType
<1> QED
    BY <1>2, <1>3, <1>4

-----------------------------------------------------------------------------
\* The handler's invariant holds when the loader starts.
LEMMA BootInitInv == BootInit => BootInv
<1> SUFFICES ASSUME BootInit PROVE BootInv
    OBVIOUS
<1>1. BootTypeOK
    <2>1. file_buffer \in Seq(Memory)
        BY DEF BootInit
    <2>2. file_info \in FileInfos \cup {NoFile}
        BY DEF BootInit
    <2>3. disk \in [Names -> Seq(Memory)]
        BY DiskAssumption DEF BootInit
    <2> QED
        BY <2>1, <2>2, <2>3 DEF BootInit, BootTypeOK
<1> QED
    BY <1>1 DEF BootInit, BootInv, IdleMeansCleared, InTransfer

\* An allocated file_info is not NULL.
LEMMA NoFileDistinct == \A fi \in FileInfos : fi # NoFile
<1>1. NoFile.file_size \notin Nat
    BY DEF NoFile
<1>2. \A fi \in FileInfos : fi.file_size \in Nat
    BY DEF FileInfos
<1> QED
    BY <1>1, <1>2

\* Every message preserves the handler's invariant, whatever its content.
LEMMA ReceiveInv ==
    ASSUME BootInv, NEW m \in Messages, netboot_cmd_receive(m)
    PROVE  BootInv'
<1> USE DEF BootInv
<1>1. CASE /\ IsFragment(m) /\ ReceiveFragment(m)
           /\ power' \in {power, "exited"} /\ UNCHANGED <<flags, disk>>
    <2>1. /\ file_buffer' = BufferWith(m)
          /\ file_bytes_transferred' = BytesWith(m)
          /\ file_packets_transferred' = PacketsWith(m)
          /\ writing' = (BytesWith(m) = file_info.file_size)
          /\ UNCHANGED <<state, file_info, net_poll_continue, net_stop_advertising, disk>>
        BY <1>1 DEF ReceiveFragment, Completes, flags
    <2>2. /\ file_buffer' \in Seq(Memory)
          /\ file_bytes_transferred' \in Nat /\ file_packets_transferred' \in Nat
        BY <1>1, <2>1, FragmentTypes
    <2>3. writing' \in BOOLEAN
        BY <2>1
    <2>4. BootTypeOK'
        BY <1>1, <2>1, <2>2, <2>3 DEF BootTypeOK
    <2>5. InTransfer /\ InTransfer' /\ file_info # NoFile
        BY <1>1, <2>1 DEF IsFragment, IdleMeansCleared, InTransfer
    <2> QED
        BY <2>1, <2>4, <2>5 DEF IdleMeansCleared
<1>2. CASE /\ m.cmd = "CMD_FILE_SEND_INIT" /\ BeginTransfer(m)
           /\ power' \in {power, "exited"} /\ UNCHANGED <<flags, disk>>
    <2>1. m.file_info \in FileInfos /\ m.file_info.file_size \in Nat
        BY <1>2, MessagesAssumption DEF FileInfos
    <2>2. /\ file_info' = m.file_info
          /\ file_buffer' \in {BytesAt(<<>>, m.file_info.file_size), <<>>, file_buffer}
          /\ state' = "STATE_FILE_TRANSFER"
          /\ UNCHANGED <<file_bytes_transferred, file_packets_transferred, writing,
                         net_poll_continue, net_stop_advertising, disk>>
        BY <1>2 DEF BeginTransfer, flags
    <2>3. file_buffer' \in Seq(Memory)
        <3> DEFINE n == m.file_info.file_size
        <3>1. n \in Nat /\ <<>> \in Seq(Memory)
            BY <2>1
        <3> HIDE DEF n
        <3>2. BytesAt(<<>>, n) \in Seq(Memory)
            BY <3>1, BytesAtProperties
        <3> QED
            BY <2>2, <3>1, <3>2 DEF n, BootTypeOK
    <2>4. BootTypeOK'
        BY <1>2, <2>1, <2>2, <2>3 DEF BootTypeOK
    <2>5. InTransfer' /\ file_info' # NoFile
        BY <2>1, <2>2, NoFileDistinct DEF InTransfer
    <2> QED
        BY <2>4, <2>5 DEF IdleMeansCleared
<1>3. CASE StoreFragment(m)
    BY <1>1, <1>3 DEF StoreFragment
<1>4. CASE FileSendInit(m)
    BY <1>2, <1>4 DEF FileSendInit
<1>5. CASE AckFails(m)
    BY <1>1, <1>2, <1>5 DEF AckFails, EFIERR
<1>6. CASE \/ FwSetup(m) \/ Reset(m) \/ StopAdvertising(m) \/ Boot(m) \/ Ignore(m)
           \/ WriteThroughNull(m)
    <2>1. /\ UNCHANGED <<state, file_info, file_buffer, file_bytes_transferred,
                         file_packets_transferred, writing, disk>>
          /\ net_poll_continue' \in {net_poll_continue, FALSE}
          /\ net_stop_advertising' \in {net_stop_advertising, TRUE}
          /\ power' \in {power, "on", "reset", "off", "undefined"}
        BY <1>6 DEF FwSetup, Reset, StopAdvertising, Boot, Ignore, WriteThroughNull,
                    transfer, flags, bootVars
    <2>2. BootTypeOK'
        BY <2>1 DEF BootTypeOK
    <2> QED
        BY <2>1, <2>2 DEF IdleMeansCleared, InTransfer
<1> QED
    BY <1>3, <1>4, <1>5, <1>6 DEF netboot_cmd_receive, Handle

\* Writing the file preserves it, whether the volume fails or not.
LEMMA FinishInv == ASSUME BootInv, FinishTransfer PROVE BootInv'
<1> USE DEF BootInv
<1>1. writing /\ file_info \in FileInfos /\ file_info.file_size \in Nat
    <2>1. writing /\ file_info # NoFile
        BY DEF FinishTransfer, CompleteFile, CompleteFails, IdleMeansCleared
    <2>2. file_info \in FileInfos
        BY <2>1 DEF BootTypeOK
    <2> QED
        BY <2>1, <2>2 DEF FileInfos
<1>2. CASE CompleteFile
    <2>1. /\ WriteFile(file_info.file_size)
          /\ file_info' = NoFile /\ file_buffer' = <<>>
          /\ file_bytes_transferred' = 0 /\ file_packets_transferred' = 0
          /\ state' = "STATE_CMD_WAIT" /\ writing' = FALSE
          /\ UNCHANGED <<net_poll_continue, net_stop_advertising, power>>
        BY <1>2 DEF CompleteFile, flags
    <2>2. disk' \in [Names -> Seq(Memory)]
        BY <1>1, <2>1, WriteType
    <2>3. writing' \in BOOLEAN
        BY <2>1, Zenon
    <2>4. file_buffer' \in Seq(Memory)
        BY <2>1
    <2>5. BootTypeOK'
        BY <2>1, <2>2, <2>3, <2>4 DEF BootTypeOK
    <2> QED
        BY <2>1, <2>5 DEF IdleMeansCleared, InTransfer
<1>3. CASE CompleteFails
    <2>1. PICK n \in 0 .. file_info.file_size : WriteFile(n)
        BY <1>3 DEF CompleteFails
    <2>2. n \in Nat
        BY <1>1, <2>1
    <2>3. disk' \in [Names -> Seq(Memory)]
        BY <1>1, <2>1, <2>2, WriteType
    <2>4. power' = "exited" /\ UNCHANGED <<transfer, flags>>
        BY <1>3 DEF CompleteFails, EFIERR
    <2>5. BootTypeOK'
        BY <2>3, <2>4 DEF BootTypeOK, transfer, flags
    <2> QED
        BY <2>4, <2>5 DEF IdleMeansCleared, InTransfer, transfer
<1> QED
    BY <1>2, <1>3 DEF FinishTransfer

\* Stuttering preserves it too.
LEMMA StutterInv == BootInv /\ UNCHANGED bootVars => BootInv'
<1> QED
    BY DEF BootInv, BootTypeOK, IdleMeansCleared, InTransfer,
           bootVars, transfer, flags

\* For every set of messages, in every order, and whichever allocation fails: the
\* handler's state is well typed, and outside a transfer file_info is NULL and
\* the counters are zero.
THEOREM HandlerCorrect == BootSpec => [](BootTypeOK /\ IdleMeansCleared)
<1>1. BootInv /\ [BootNext]_bootVars => BootInv'
    BY ReceiveInv, FinishInv, StutterInv DEF BootNext
<1>2. BootInv => BootTypeOK /\ IdleMeansCleared
    BY DEF BootInv
<1> QED
    BY <1>1, <1>2, BootInitInv, PTL DEF BootSpec

=============================================================================
