--------------------------- MODULE NetStackProofs ---------------------------
(***************************************************************************)
(* Proofs about the poll loop, for every set of hosts and of frames that   *)
(* may arrive, every pool and queue size and every order of events.        *)
(***************************************************************************)
EXTENDS NetStack, HandlerProofs, SequenceTheorems

Addresses == Hosts \cup {Unspecified, SolicitedNode, AllNodes}

Macs == {NoMac} \cup {Mac(ip) : ip \in Addresses} \cup {f.mac : f \in Frames}

Payloads ==
    [cmd : {"CMD_ADVERTISE", "echo", "solicitation"}]
    \cup [cmd : {"CMD_ACK"}, type : Commands, file_fragment : Nat]

\* The frames the loader may transmit.
Sent ==
    {g \in [mac : Macs, dst : Addresses, payload : Payloads] :
        /\ g.dst # Unspecified => g.mac = Mac(g.dst)
        /\ g.payload.cmd = "CMD_ACK" => g.dst \in CommandSources}

\* ip6 and mac may be the two halves of the remote host cache.
Belong(mac, ip6) ==
    /\ mac \in Macs
    /\ ip6 \in Hosts \cup {Unspecified}
    /\ ip6 # Unspecified => mac = Mac(ip6)

\* The handler's invariant; whatever is on the wire may be; the cache is of one
\* host; and a loader that reached the receive step, where it may be told to
\* stop, has sent its first advertisement.
StackInv ==
    /\ BootInv
    /\ StackTypeOK
    /\ tx \in Seq(Sent)
    /\ Belong(remote_mac_addr, remote_ip6_addr)
    /\ pc \in {"reclaim", "receive"} => net_advertised
    /\ net_stop_advertising => net_advertised

-----------------------------------------------------------------------------
LEMMA SizeTypes == ETH_BUFFERS \in Nat /\ MaxQueue \in Nat
    BY StackAssumption

LEMMA StackInitInv == StackInit => StackInv
<1> SUFFICES ASSUME StackInit PROVE StackInv
    OBVIOUS
<1>1. BootInv
    BY BootInitInv DEF StackInit
<1>2. rx \in Seq(Frames) /\ Len(rx) = 0 /\ tx \in Seq(Sent) /\ Len(tx) = 0
    BY DEF StackInit
<1>3. StackTypeOK
    <2>1. eth_bufpool_avail \in 0 .. ETH_BUFFERS /\ Len(rx) <= MaxQueue /\ Len(tx) <= MaxQueue
        BY <1>2, SizeTypes DEF StackInit
    <2> QED
        BY <1>1, <1>2, <2>1, Zenon DEF StackInit, StackTypeOK, BootInv
<1>4. Belong(remote_mac_addr, remote_ip6_addr)
    BY DEF StackInit, Belong, Macs
<1> QED
    BY <1>1, <1>2, <1>3, <1>4 DEF StackInv, StackInit, BootInit

\* What net_ip6_packet_setup makes of a resolvable address may be transmitted.
LEMMA PacketSent ==
    ASSUME NEW ip \in Addresses, NEW mac, NEW ip6, NEW payload \in Payloads,
           Belong(mac, ip6), Resolvable(ip, ip6),
           payload.cmd = "CMD_ACK" => ip \in CommandSources
    PROVE  net_ip6_packet_setup(ip, mac, payload) \in Sent
<1> DEFINE to == Resolve(ip, mac)
<1>1. to \in Macs
    BY DEF Resolve, Multicast, Macs, Belong, Addresses
<1>2. ip # Unspecified => to = Mac(ip)
    BY DEF Resolve, Resolvable, Belong
<1> HIDE DEF to
<1> QED
    BY <1>1, <1>2 DEF net_ip6_packet_setup, Sent, to

\* The state after a send.
LEMMA SendInv ==
    ASSUME NEW ip, NEW mac, NEW ip6, NEW payload,
           tx \in Seq(Sent), Len(tx) <= MaxQueue, eth_bufpool_avail \in 0 .. ETH_BUFFERS,
           Resolvable(ip, ip6) => net_ip6_packet_setup(ip, mac, payload) \in Sent,
           Send(ip, payload, mac, ip6)
    PROVE  /\ tx' \in Seq(Sent) /\ Len(tx') <= MaxQueue
           /\ eth_bufpool_avail' \in 0 .. ETH_BUFFERS
           /\ tx' = tx \/ tx'[Len(tx')].payload = payload
<1> DEFINE g == net_ip6_packet_setup(ip, mac, payload)
<1>1. CASE UNCHANGED <<eth_bufpool_avail, tx>>
    BY <1>1
<1>2. CASE /\ eth_bufpool_avail > 0 /\ Resolvable(ip, ip6)
           /\ eth_bufpool_avail' = eth_bufpool_avail - 1
           /\ tx' \in {tx, Wire(tx, g)}
    <2>1. eth_bufpool_avail' \in 0 .. ETH_BUFFERS
        BY <1>2, StackAssumption
    <2>2. g.payload = payload
        BY DEF net_ip6_packet_setup
    <2>3. g \in Sent
        BY <1>2
    <2> HIDE DEF g
    <2>4. CASE tx' = tx
        BY <2>1, <2>4
    <2>5. CASE tx' # tx
        <3>1. tx' = Append(tx, g) /\ Len(tx) < MaxQueue
            BY <1>2, <2>5 DEF Wire
        <3>2. tx' \in Seq(Sent) /\ Len(tx') = Len(tx) + 1 /\ tx'[Len(tx) + 1] = g
            BY <3>1, <2>3, AppendProperties
        <3>3. Len(tx') <= MaxQueue
            BY <3>1, <3>2, StackAssumption
        <3> QED
            BY <2>1, <2>2, <3>2, <3>3
    <2> QED
        BY <2>4, <2>5
<1> QED
    BY <1>1, <1>2 DEF Send

-----------------------------------------------------------------------------
\* What a step of the loader leaves of the wire and the pool.
Transmits ==
    /\ tx' \in Seq(Sent) /\ Len(tx') <= MaxQueue
    /\ eth_bufpool_avail' \in 0 .. ETH_BUFFERS

\* The last frame is no advertisement, if there is a new one.
Quiet == tx' = tx \/ tx'[Len(tx')].payload.cmd # "CMD_ADVERTISE"

LEMMA WireTypes ==
    StackInv => /\ tx \in Seq(Sent) /\ Len(tx) <= MaxQueue
                /\ eth_bufpool_avail \in 0 .. ETH_BUFFERS
    BY DEF StackInv, StackTypeOK

LEMMA UnsentTransmits ==
    StackInv /\ UNCHANGED <<eth_bufpool_avail, tx>> => Transmits /\ Quiet
    BY DEF StackInv, StackTypeOK, Transmits, Quiet

\* An advertisement goes to the cached host or to all nodes.
LEMMA AdvertiseInv == ASSUME StackInv, net_advertise PROVE Transmits
<1> DEFINE ip == IF net_ip6_empty(remote_ip6_addr) THEN AllNodes ELSE remote_ip6_addr
           p  == [cmd |-> "CMD_ADVERTISE"]
<1>1. ip \in Addresses /\ p \in Payloads /\ p.cmd # "CMD_ACK"
    BY DEF StackInv, StackTypeOK, Addresses, Payloads
<1>2. Belong(remote_mac_addr, remote_ip6_addr)
    BY DEF StackInv
<1>3. Send(ip, p, remote_mac_addr, remote_ip6_addr)
    BY DEF net_advertise, netboot_cmd_send, net_udp6_send
<1> HIDE DEF ip, p
<1>4. Resolvable(ip, remote_ip6_addr) => net_ip6_packet_setup(ip, remote_mac_addr, p) \in Sent
    BY <1>1, <1>2, PacketSent
<1> QED
    BY <1>3, <1>4, WireTypes, SendInv DEF Transmits

\* Facts about a frame that arrives.
LEMMA FrameTypes ==
    ASSUME NEW f \in Frames
    PROVE  /\ Belong(f.mac, f.src)
           /\ f.body.kind \in {"udp", "echo", "none", "solicitation"}
           /\ f.body.kind = "udp" => f.body.msg \in Messages
<1>1. f.src \in Hosts \cup {Unspecified} /\ f.body \in Bodies
      /\ (f.src \in Hosts => f.mac = Mac(f.src))
    BY FramesAssumption
<1>2. f.mac \in Macs
    BY DEF Macs
<1> QED
    BY <1>1, <1>2 DEF Belong, Bodies

\* Receiving a command, with its acknowledgement.
LEMMA CommandInv ==
    ASSUME StackInv, NEW f \in Frames, f.body.kind = "udp", net_udp6_receive(f)
    PROVE  BootInv' /\ Transmits /\ Quiet
<1> DEFINE m  == f.body.msg
           ip == IF net_ip6_empty(f.src) THEN AllNodes ELSE f.src
<1>1. BootInv /\ Belong(f.mac, f.src) /\ m \in Messages
    BY FrameTypes DEF StackInv
<1>2. CASE f.body.port # NetbootPort
    BY <1>1, <1>2, StutterInv, UnsentTransmits DEF net_udp6_receive
<1>3. CASE f.body.port = NetbootPort
    <2>1. netboot_cmd_receive(m)
        BY <1>3 DEF net_udp6_receive, netboot_cmd_receive
    <2>2. BootInv'
        BY <1>1, <2>1, ReceiveInv
    <2>3. CASE UNCHANGED <<eth_bufpool_avail, tx>>
        BY <2>2, <2>3, UnsentTransmits
    <2>4. CASE Acknowledges(m) /\ netboot_cmd_send(Ack(m), f.mac, f.src)
        <3>1. Ack(m) \in Payloads /\ Ack(m).cmd = "CMD_ACK"
            <4>1. m.cmd \in Commands
                BY <1>1, MessagesAssumption
            <4>2. CASE m.cmd = "CMD_FILE_SEND_INIT"
                BY <4>1, <4>2 DEF Ack, Payloads
            <4>3. CASE m.cmd = "CMD_FILE_FRAGMENT"
                <5>1. m.fragment_id \in Nat /\ file_packets_transferred \in Nat
                    BY <1>1, <4>3, MessagesAssumption DEF BootInv, BootTypeOK
                <5> QED
                    BY <4>1, <4>3, <5>1 DEF Ack, Payloads
            <4> QED
                BY <2>4, <4>2, <4>3 DEF Acknowledges, IsFragment
        <3>2. ip \in Addresses /\ ip \in CommandSources
            BY <1>1, <1>3 DEF CommandSources, Belong, Addresses, net_ip6_empty
        <3>3. Send(ip, Ack(m), f.mac, f.src)
            BY <2>4 DEF netboot_cmd_send, net_udp6_send
        <3> HIDE DEF ip, m
        <3>4. Resolvable(ip, f.src) => net_ip6_packet_setup(ip, f.mac, Ack(m)) \in Sent
            BY <1>1, <3>1, <3>2, PacketSent
        <3>5. Transmits /\ (tx' = tx \/ tx'[Len(tx')].payload = Ack(m))
            BY <3>3, <3>4, WireTypes, SendInv DEF Transmits
        <3> QED
            BY <2>2, <3>1, <3>5 DEF Quiet
    <2> QED
        BY <1>3, <2>3, <2>4 DEF net_udp6_receive
<1> QED
    BY <1>2, <1>3

\* Answering an echo request or a neighbour solicitation.
LEMMA AnswerInv ==
    ASSUME StackInv, NEW f \in Frames, f.body.kind \in {"echo", "solicitation"},
           net_icmp6_receive(f)
    PROVE  BootInv' /\ Transmits /\ Quiet
<1> DEFINE p == [cmd |-> f.body.kind]
<1>1. BootInv'
    BY StutterInv DEF net_icmp6_receive, StackInv
<1>2. CASE UNCHANGED <<eth_bufpool_avail, tx>>
    BY <1>1, <1>2, UnsentTransmits
<1>3. CASE net_icmp6_send(f.src, p, f.mac, f.src)
    <2>1. /\ p \in Payloads /\ p.cmd # "CMD_ACK" /\ p.cmd # "CMD_ADVERTISE"
        BY DEF Payloads
    <2>2. Belong(f.mac, f.src) /\ f.src \in Addresses
        BY FrameTypes DEF Belong, Addresses
    <2>3. Send(f.src, p, f.mac, f.src)
        BY <1>3 DEF net_icmp6_send
    <2> HIDE DEF p
    <2>4. Resolvable(f.src, f.src) => net_ip6_packet_setup(f.src, f.mac, p) \in Sent
        BY <2>1, <2>2, PacketSent
    <2>5. Transmits /\ (tx' = tx \/ tx'[Len(tx')].payload = p)
        BY <2>3, <2>4, WireTypes, SendInv DEF Transmits
    <2> QED
        BY <1>1, <2>1, <2>5 DEF Quiet
<1> QED
    BY <1>2, <1>3 DEF net_icmp6_receive

-----------------------------------------------------------------------------
\* A firmware call fails and the loader exits.
LEMMA ExitInv ==
    BootInv /\ EFIERR /\ UNCHANGED <<transfer, disk>>
        => BootInv' /\ net_stop_advertising' = net_stop_advertising
<1> SUFFICES ASSUME BootInv, EFIERR, UNCHANGED <<transfer, disk>>
             PROVE  BootInv' /\ net_stop_advertising' = net_stop_advertising
    OBVIOUS
<1>1. UNCHANGED <<transfer, flags, disk>> /\ power' = "exited"
    BY DEF EFIERR
<1>2. writing' \in BOOLEAN
    BY <1>1, Zenon DEF BootInv, BootTypeOK, transfer
<1>3. BootTypeOK'
    BY <1>1, <1>2 DEF BootInv, BootTypeOK, transfer, flags
<1> QED
    BY <1>1, <1>3 DEF BootInv, IdleMeansCleared, InTransfer, transfer, flags

\* What a step has to establish, put together.
LEMMA Assemble ==
    ASSUME BootInv', Transmits,
           rx' \in Seq(Frames), Len(rx') <= MaxQueue,
           pc' \in {"open", "advertise", "reclaim", "receive", "kernel"},
           net_advertised' \in BOOLEAN,
           net_timer' \in {"idle", "running", "expired"},
           Belong(remote_mac_addr, remote_ip6_addr)',
           pc' \in {"reclaim", "receive"} => net_advertised',
           net_stop_advertising' => net_advertised'
    PROVE  StackInv'
<1>1. StackTypeOK'
    BY DEF StackTypeOK, Transmits, BootInv, Belong
<1> QED
    BY <1>1 DEF StackInv, Transmits

\* The steps that leave the handler, the cache, the pool and the wire alone.
LEMMA QuietStep ==
    ASSUME StackInv, UNCHANGED <<bootVars, remote, eth_bufpool_avail, rx, tx, net_advertised>>,
           pc' \in {"open", "advertise", "reclaim", "receive", "kernel"},
           net_timer' \in {"idle", "running", "expired"},
           pc' \in {"reclaim", "receive"} => net_advertised
    PROVE  StackInv' /\ Quiet
<1>1. BootInv' /\ Transmits /\ Quiet
    BY StutterInv, UnsentTransmits DEF StackInv
<1>2. net_stop_advertising' = net_stop_advertising
    BY DEF bootVars, flags
<1>3. Belong(remote_mac_addr, remote_ip6_addr)'
    BY DEF StackInv, remote, Belong
<1> QED
    BY <1>1, <1>2, <1>3, Assemble DEF StackInv, StackTypeOK

LEMMA ReceiveStep == ASSUME StackInv, PollReceive PROVE StackInv' /\ Quiet
<1> DEFINE f == Head(rx)
<1>1. rx \in Seq(Frames) /\ rx # <<>> /\ Len(rx) <= MaxQueue /\ Len(rx) \in Nat
    BY DEF PollReceive, StackInv, StackTypeOK
<1>2. f \in Frames /\ rx' \in Seq(Frames) /\ Len(rx') = Len(rx) - 1
    BY <1>1, HeadTailProperties DEF PollReceive
<1>3. Len(rx') <= MaxQueue
    BY <1>1, <1>2, SizeTypes
<1>4. pc' \in {"receive", "advertise"} /\ net_advertised' = net_advertised /\ net_timer' = net_timer
      /\ net_advertised
    BY DEF PollReceive, advertiser, StackInv
<1>5. net_eth_receive(f)
    BY DEF PollReceive
<1> HIDE DEF f
<1>6. CASE ~ForUs(f)
    <2>1. UNCHANGED <<bootVars, remote, eth_bufpool_avail, tx>>
        BY <1>5, <1>6 DEF net_eth_receive
    <2>2. BootInv' /\ Transmits /\ Quiet
        BY <2>1, StutterInv, UnsentTransmits DEF StackInv
    <2>3. Belong(remote_mac_addr, remote_ip6_addr)'
        BY <2>1 DEF StackInv, remote, Belong
    <2> QED
        BY <1>2, <1>3, <1>4, <2>2, <2>3, Assemble DEF StackInv, StackTypeOK
<1>7. CASE ForUs(f)
    <2>1. Belong(remote_mac_addr, remote_ip6_addr)'
        BY <1>2, <1>5, <1>7, FrameTypes DEF net_eth_receive, Belong
    <2>2. BootInv' /\ Transmits /\ Quiet
        <3>1. CASE f.body.kind = "udp"
            BY <1>2, <1>5, <1>7, <3>1, CommandInv DEF net_eth_receive
        <3>2. CASE f.body.kind \in {"echo", "solicitation"}
            BY <1>2, <1>5, <1>7, <3>2, AnswerInv DEF net_eth_receive
        <3>3. CASE f.body.kind = "none"
            <4>1. UNCHANGED <<bootVars, eth_bufpool_avail, tx>>
                BY <1>5, <1>7, <3>3 DEF net_eth_receive
            <4> QED
                BY <4>1, StutterInv, UnsentTransmits DEF StackInv
        <3> QED
            BY <1>2, <3>1, <3>2, <3>3, FrameTypes
    <2> QED
        BY <1>2, <1>3, <1>4, <2>1, <2>2, Assemble DEF StackInv, StackTypeOK
<1> QED
    BY <1>6, <1>7

\* An advertisement is due only if the loader was not told to stop.
LEMMA DueMeansNotStopped == StackInv /\ AdvertisementDue => ~net_stop_advertising
    BY DEF StackInv, StackTypeOK, BootInv, BootTypeOK, AdvertisementDue

LEMMA AdvertiseStep ==
    ASSUME StackInv, PollAdvertise \/ AdvertiseFails
    PROVE  StackInv' /\ (net_stop_advertising => Quiet)
<1>1. UNCHANGED <<remote, rx>>
    BY DEF PollAdvertise, AdvertiseFails
<1>2. /\ Belong(remote_mac_addr, remote_ip6_addr)'
      /\ rx' \in Seq(Frames) /\ Len(rx') <= MaxQueue
    BY <1>1 DEF StackInv, StackTypeOK, remote, Belong
<1>3. CASE AdvertiseFails
    <2>1. BootInv' /\ Transmits /\ net_stop_advertising' = net_stop_advertising
        BY <1>3, AdvertiseInv, ExitInv DEF AdvertiseFails, StackInv
    <2>2. UNCHANGED <<pc, net_advertised, net_timer>>
        BY <1>3 DEF AdvertiseFails, advertiser
    <2>3. StackInv'
        BY <1>2, <2>1, <2>2, Assemble DEF StackInv, StackTypeOK
    <2> QED
        BY <1>3, <2>3, DueMeansNotStopped DEF AdvertiseFails
<1>4. CASE PollAdvertise /\ AdvertisementDue
    <2>1. Transmits /\ net_advertised' = TRUE /\ net_timer' = "running" /\ pc' = "reclaim"
        BY <1>4, AdvertiseInv DEF PollAdvertise
    <2>2. BootInv'
        BY <1>4, StutterInv DEF PollAdvertise, StackInv
    <2> QED
        BY <1>2, <1>4, <2>1, <2>2, Assemble, DueMeansNotStopped
<1>5. CASE PollAdvertise /\ ~AdvertisementDue
    <2>1. /\ UNCHANGED <<bootVars, net_advertised, eth_bufpool_avail, tx>>
          /\ net_timer' \in {"idle", net_timer} /\ pc' = "reclaim"
        BY <1>5 DEF PollAdvertise
    <2>2. net_advertised
        BY <1>5 DEF AdvertisementDue
    <2> QED
        BY <1>1, <2>1, <2>2, QuietStep DEF StackInv, StackTypeOK
<1> QED
    BY <1>3, <1>4, <1>5

LEMMA StackStep ==
    ASSUME StackInv, [StackNext]_allVars
    PROVE  /\ StackInv'
           /\ net_stop_advertising => Quiet \/ Len(tx') < Len(tx)
<1>1. CASE net_open
    <2>1. /\ UNCHANGED <<bootVars, net_advertised, net_timer, remote, rx, tx>>
          /\ pc' = "advertise" /\ eth_bufpool_avail' = ETH_BUFFERS
        BY <1>1 DEF net_open, advertiser
    <2>2. Transmits /\ Quiet
        BY <2>1, SizeTypes DEF StackInv, StackTypeOK, Transmits, Quiet
    <2>3. BootInv' /\ net_stop_advertising' = net_stop_advertising
        BY <2>1, StutterInv DEF StackInv, bootVars, flags
    <2>4. Belong(remote_mac_addr, remote_ip6_addr)'
        BY <2>1 DEF StackInv, remote, Belong
    <2> QED
        BY <2>1, <2>2, <2>3, <2>4, Assemble DEF StackInv, StackTypeOK
<1>2. CASE PollAdvertise \/ AdvertiseFails
    BY <1>2, AdvertiseStep
<1>3. CASE Reclaim
    <2>1. /\ UNCHANGED <<bootVars, net_advertised, net_timer, remote, rx, tx>>
          /\ pc = "reclaim" /\ pc' = "receive"
          /\ eth_bufpool_avail < ETH_BUFFERS /\ eth_bufpool_avail' = eth_bufpool_avail + 1
        BY <1>3 DEF Reclaim, advertiser
    <2>2. Transmits /\ Quiet
        BY <2>1, SizeTypes DEF StackInv, StackTypeOK, Transmits, Quiet
    <2>3. BootInv' /\ net_stop_advertising' = net_stop_advertising
        BY <2>1, StutterInv DEF StackInv, bootVars, flags
    <2>4. Belong(remote_mac_addr, remote_ip6_addr)'
        BY <2>1 DEF StackInv, remote, Belong
    <2> QED
        BY <2>1, <2>2, <2>3, <2>4, Assemble DEF StackInv, StackTypeOK
<1>4. CASE NothingToReclaim \/ GetStatusFails \/ NotReady \/ net_close \/ TimerExpires
    <2>1. /\ UNCHANGED <<bootVars, net_advertised, remote, eth_bufpool_avail, rx, tx>>
          /\ net_timer' \in {net_timer, "idle", "expired"}
          /\ \/ pc' \in {pc, "advertise", "kernel"}
             \/ pc = "reclaim" /\ pc' = "receive"
        BY <1>4 DEF NothingToReclaim, GetStatusFails, NotReady, net_close, TimerExpires,
                    advertiser
    <2> QED
        BY <2>1, QuietStep DEF StackInv, StackTypeOK
<1>5. CASE PollReceive
    BY <1>5, ReceiveStep
<1>6. CASE FirmwareFails
    <2>1. UNCHANGED <<pc, net_advertised, net_timer, remote, eth_bufpool_avail, rx, tx>>
        BY <1>6 DEF FirmwareFails, stackVars, advertiser
    <2>2. BootInv' /\ net_stop_advertising' = net_stop_advertising
        BY <1>6, ExitInv DEF FirmwareFails, StackInv
    <2>3. Transmits /\ Quiet
        BY <2>1, UnsentTransmits
    <2>4. Belong(remote_mac_addr, remote_ip6_addr)'
        BY <2>1 DEF StackInv, remote, Belong
    <2> QED
        BY <2>1, <2>2, <2>3, <2>4, Assemble DEF StackInv, StackTypeOK
<1>7. CASE PollWrite
    <2>1. /\ FinishTransfer /\ pc = "receive" /\ pc' = "advertise"
          /\ UNCHANGED <<net_advertised, net_timer, remote, eth_bufpool_avail, rx, tx>>
        BY <1>7 DEF PollWrite, advertiser
    <2>2. BootInv'
        BY <2>1, FinishInv DEF StackInv
    <2>3. Transmits /\ Quiet
        BY <2>1, UnsentTransmits
    <2>4. Belong(remote_mac_addr, remote_ip6_addr)'
        BY <2>1 DEF StackInv, remote, Belong
    <2> QED
        BY <2>1, <2>2, <2>3, <2>4, Assemble DEF StackInv, StackTypeOK
<1>8. CASE \E f \in Frames : Arrive(f)
    <2>1. PICK f \in Frames : Arrive(f)
        BY <1>8
    <2>2. /\ UNCHANGED <<bootVars, pc, net_advertised, net_timer, remote, eth_bufpool_avail, tx>>
          /\ Len(rx) < MaxQueue /\ rx' = Append(rx, f) /\ rx \in Seq(Frames)
        BY <2>1 DEF Arrive, advertiser, StackInv, StackTypeOK
    <2>3. rx' \in Seq(Frames) /\ Len(rx') = Len(rx) + 1 /\ Len(rx) \in Nat
        BY <2>2, AppendProperties, LenProperties
    <2>4. Len(rx') <= MaxQueue
        BY <2>2, <2>3, SizeTypes
    <2>5. BootInv' /\ net_stop_advertising' = net_stop_advertising /\ Transmits /\ Quiet
        BY <2>2, StutterInv, UnsentTransmits DEF StackInv, bootVars, flags
    <2>6. Belong(remote_mac_addr, remote_ip6_addr)'
        BY <2>2 DEF StackInv, remote, Belong
    <2> QED
        BY <2>2, <2>3, <2>4, <2>5, <2>6, Assemble DEF StackInv, StackTypeOK
<1>9. CASE Leave
    <2>1. /\ UNCHANGED <<bootVars, pc, net_advertised, net_timer, remote, eth_bufpool_avail, rx>>
          /\ tx # <<>> /\ tx' = Tail(tx) /\ tx \in Seq(Sent)
        BY <1>9 DEF Leave, advertiser, StackInv
    <2>2. tx' \in Seq(Sent) /\ Len(tx') = Len(tx) - 1 /\ Len(tx) \in Nat
        BY <2>1, HeadTailProperties, LenProperties
    <2>3. Len(tx') < Len(tx) /\ Len(tx') <= MaxQueue
        BY <2>2, SizeTypes DEF StackInv, StackTypeOK
    <2>4. Transmits
        BY <2>1, <2>2, <2>3 DEF StackInv, StackTypeOK, Transmits
    <2>5. BootInv' /\ net_stop_advertising' = net_stop_advertising
        BY <2>1, StutterInv DEF StackInv, bootVars, flags
    <2>6. Belong(remote_mac_addr, remote_ip6_addr)'
        BY <2>1 DEF StackInv, remote, Belong
    <2>7. StackInv'
        BY <2>1, <2>4, <2>5, <2>6, Assemble DEF StackInv, StackTypeOK
    <2> QED
        BY <2>3, <2>7
<1>10. CASE UNCHANGED allVars
    <2>1. UNCHANGED <<bootVars, pc, net_advertised, net_timer, remote, eth_bufpool_avail, rx, tx>>
        BY <1>10 DEF allVars, stackVars, advertiser
    <2> QED
        BY <2>1, QuietStep DEF StackInv, StackTypeOK
<1> QED
    BY <1>1, <1>2, <1>3, <1>4, <1>5, <1>6, <1>7, <1>8, <1>9, <1>10
    DEF StackNext, LoaderStep

\* What is on the wire is what Sent describes.
LEMMA WireIsRight == StackInv => StackTypeOK /\ RightLinkAddress /\ AcksReachThePeer
<1> SUFFICES ASSUME StackInv PROVE StackTypeOK /\ RightLinkAddress /\ AcksReachThePeer
    OBVIOUS
<1>1. \A k \in 1 .. Len(tx) : tx[k] \in Sent
    BY ElementOfSeq DEF StackInv
<1> QED
    BY <1>1 DEF StackInv, Sent, RightLinkAddress, AcksReachThePeer

\* For every set of hosts and frames, every size of the pool and the queues, and
\* every loss and failure: what the loader sends to a host carries that host's
\* link address, and acknowledgements go to senders of commands.
THEOREM StackCorrect == StackSpec => [](StackTypeOK /\ RightLinkAddress /\ AcksReachThePeer)
<1>1. StackInv /\ [StackNext]_allVars => StackInv'
    BY StackStep
<1> QED
    BY <1>1, StackInitInv, WireIsRight, PTL DEF StackSpec

\* Under the same conditions, a loader told to stop never advertises again.
THEOREM StopIsObeyed == StackSpec => QuietWhenStopped
<1>1. StackInv /\ [StackNext]_allVars => StackInv'
    BY StackStep
<1>2. StackInv /\ [StackNext]_allVars =>
          [net_stop_advertising =>
              (tx' # tx /\ Len(tx') >= Len(tx) =>
                  tx'[Len(tx')].payload.cmd # "CMD_ADVERTISE")]_allVars
    <2> SUFFICES ASSUME StackInv, [StackNext]_allVars, net_stop_advertising,
                        tx' # tx, Len(tx') >= Len(tx)
                 PROVE  tx'[Len(tx')].payload.cmd # "CMD_ADVERTISE"
        OBVIOUS
    <2>1. tx \in Seq(Sent) /\ tx' \in Seq(Sent)
        BY StackStep DEF StackInv
    <2>2. Len(tx) \in Nat /\ Len(tx') \in Nat
        BY <2>1, LenProperties
    <2>3. ~(Len(tx') < Len(tx))
        BY <2>2
    <2> QED
        BY <2>3, StackStep DEF Quiet
<1> QED
    BY <1>1, <1>2, StackInitInv, PTL DEF StackSpec, QuietWhenStopped

=============================================================================
