-------------------------------- MODULE Ip6 --------------------------------
(***************************************************************************)
(* The bytes of net/ip6.c, net/udp6.c and net/icmp6.c: how the loader      *)
(* derives its addresses from the interface's, and how it fills a frame.   *)
(* NetStack models when frames are sent and where they go.                 *)
(*                                                                         *)
(* An address or a payload is the sequence of its bytes in memory, so      *)
(* s6_addr[k] is element k + 1.  A 16-bit field is the number the          *)
(* processor, which is little-endian, reads there.                         *)
(***************************************************************************)
EXTENDS Integers, Sequences

Byte         == 0 .. 255
Zeros(n)     == [k \in 1 .. n |-> 0]
NoAddress    == Zeros(16)
IPPROTO_UDP  == 17
IPPROTO_ICMP6 == 58
ip6_all_nodes == <<255, 2>> \o Zeros(13) \o <<1>>

htons(d)   == (d % 256) * 256 + d \div 256
InMemory(d) == <<d % 256, d \div 256>>

-----------------------------------------------------------------------------
\* Adds up words, then what is left of an odd length.
RawSum(data, sum_init) ==
    LET words == Len(data) \div 2
        sum[k \in 0 .. words] ==
            IF k = 0 THEN sum_init
            ELSE sum[k - 1] + data[2 * k - 1] + 256 * data[2 * k]
    IN IF Len(data) % 2 = 1 THEN sum[words] + data[Len(data)] ELSE sum[words]

\* Mutant: the carry of the fold is dropped.
FoldOnce(sum) == ((sum % 65536) + (sum \div 65536)) % 65536

Fold(sum) ==
    LET fold[s \in Nat] == IF s < 65536 THEN s ELSE fold[(s % 65536) + (s \div 65536)]
    IN fold[sum]

checksum(data, sum_init) == Fold(RawSum(data, sum_init))

\* p is a packet as net_ip6_packet_setup leaves it, with its payload.
net_ip6_checksum(p, type) ==
    65535 - checksum(p.src \o p.dst \o p.data, checksum(InMemory(p.length), htons(type)))

-----------------------------------------------------------------------------
net_ip6_multicast_from_ip6(ip) == <<51, 51>> \o SubSeq(ip, 13, 16)

\* Toggles the universal bit of the first octet.
Xor2(b) == IF (b \div 2) % 2 = 1 THEN b - 2 ELSE b + 2

\* bytes written over those of ip from offset at on.
Written(ip, at, bytes) ==
    [k \in 1 .. 16 |-> IF k - at \in DOMAIN bytes THEN bytes[k - at] ELSE ip[k]]

\* Bytes 2 to 7 keep their values: the memset clears memory past the address.
net_ip6_ll_addr_from_mac(ip, mac) ==
    Written(Written(ip, 0, <<254, 128>>), 8,
            <<Xor2(mac[1]), mac[2], mac[3], 255, 254, mac[4], mac[5], mac[6]>>)

net_ip6_snm_addr_from_mac(ip, mac) ==
    Written(Written(Written(ip, 2, Zeros(9)), 0, <<255, 2>>), 11,
            <<1, 255, mac[4], mac[5], mac[6]>>)

\* What that memset clears instead: six bytes of whichever variable of ip6.c the
\* linker has put 32 bytes past ip6_ll_addr.  Of these ll_mac_addr has been set
\* by then, and the addresses are derived from what is left of it.
Cleared(bytes, at) == [k \in DOMAIN bytes |-> IF k - at \in 1 .. 6 THEN 0 ELSE bytes[k]]

Strays(ip6) ==
    {[ip6 EXCEPT !.snm = Cleared(@, at)] : at \in 0 .. 10}
    \cup {[ip6 EXCEPT !.ll_mac = Cleared(@, at)] : at \in -5 .. 5}

-----------------------------------------------------------------------------
\* own is the loader's address pair, remote the cached one.  Every destination
\* is a group or the cached host, so that resolution succeeds.
net_ip6_resolve(ip, remote) ==
    IF ip[1] = 255 THEN net_ip6_multicast_from_ip6(ip) ELSE remote.mac

net_ip6_packet_setup(own, remote, addr, data, type) ==
    [h_dest      |-> net_ip6_resolve(addr, remote),
     h_source    |-> own.mac,
     length      |-> htons(Len(data)),
     next_header |-> type,
     src         |-> own.ip,
     dst         |-> addr,
     data        |-> data]

\* The packet with its checksum stored at byte offset at of the payload.
WithChecksum(p, at) ==
    LET sum == InMemory(net_ip6_checksum(p, p.next_header))
    IN [p EXCEPT !.data = [@ EXCEPT ![at + 1] = sum[1], ![at + 2] = sum[2]]]

net_udp6_send(own, remote, msg, addr, dest_port, source_port) ==
    LET length == Len(msg) + 8
        header == InMemory(htons(source_port)) \o InMemory(htons(dest_port))
                  \o InMemory(htons(length)) \o Zeros(2)
    IN WithChecksum(
           net_ip6_packet_setup(own, remote, addr, header \o msg, IPPROTO_UDP), 6)

net_icmp6_send(own, remote, data, daddr) ==
    WithChecksum(net_ip6_packet_setup(own, remote, daddr, data, IPPROTO_ICMP6), 2)

\* An echo request is sent back as it came but for type and checksum.
EchoReply(own, remote, request) ==
    net_icmp6_send(own, remote, [request EXCEPT ![1] = 129, ![3] = 0, ![4] = 0], remote.ip)

NeighborAdvertisement(own, remote) ==
    net_icmp6_send(own, remote,
        <<136, 0, 0, 0, 96, 0, 0, 0>> \o own.ip \o <<2, 1>> \o own.mac, remote.ip)

\* A message of the netboot protocol goes to everybody until a host is cached.
netboot_cmd_send(own, remote, msg) ==
    net_udp6_send(own, remote, msg,
        IF remote.ip = NoAddress THEN ip6_all_nodes ELSE remote.ip, 57778, 57777)
=============================================================================
