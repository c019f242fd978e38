------------------------------ MODULE NetOpen ------------------------------
(***************************************************************************)
(* net_open of net/net.c: the search for an interface with a link          *)
(* (net_get_protocol) and the set-up that follows, with the addresses and  *)
(* filters it computes and the frames the loader then sends from them.     *)
(* NetStack starts where this module ends.                                 *)
(*                                                                         *)
(* One turn of the search loop is one step, whose outcome is where the     *)
(* firmware fails.  An interface is stopped, started or initialized, as in *)
(* the Simple Network Protocol, and what it was before is arbitrary.       *)
(***************************************************************************)
EXTENDS Ip6

CONSTANTS
    NicCount,             \* handles LocateHandle returns
    Path,                 \* per handle, its path as text, a sequence of chars
    NoDevicePath,         \* handles without a device path
    Device,               \* per handle, the device it belongs to
    MaxMCastFilterCount,  \* per handle, the multicast filters it offers
    CurrentAddress,       \* per handle, its six octets
    Remotes,              \* records [mac, ip]: what the host cache may hold
    Messages,             \* payloads of the netboot protocol
    EchoRequests          \* ICMP messages of at least a header

Nics       == 1 .. NicCount
MaxHandles == 32
MaxFilters == 8
NullPath   == <<60, 110, 117, 108, 108, 95, 112, 97, 116, 104>>
NullString == <<60, 110, 117, 108, 108, 95, 115, 116, 114, 105, 110, 103, 62>>

ASSUME NicAssumption ==
    /\ NicCount \in Nat
    /\ MaxMCastFilterCount \in [Nics -> Nat]
    /\ CurrentAddress \in [Nics -> Seq(Byte)]
    /\ \A n \in Nics : Len(CurrentAddress[n]) = 6

ASSUME TextAssumption ==
    /\ NoDevicePath \subseteq Nics
    /\ Path \in [Nics -> Seq(1 .. 65535)]

ASSUME FrameAssumption ==
    /\ \A r \in Remotes : Len(r.mac) = 6 /\ Len(r.ip) = 16
    /\ \A m \in Messages \cup EchoRequests : m \in Seq(Byte)
    /\ \A m \in EchoRequests : Len(m) >= 4

VARIABLES
    pc,               \* "locate", "search", "configure", "opened", "exited"
    i,                \* loop counter of net_get_protocol
    previous_device,
    mode,             \* per handle, "stopped", "started" or "initialized"
    link,             \* handles whose medium is present
    path_to_text,     \* whether the firmware can turn paths into text
    snp,              \* the interface found, 0 for none
    mcast_filters,
    ip6,              \* ip6_ll_addr, ip6_snm_addr and their link addresses
    sent,             \* the frames of the last send, none or one
    tried,            \* history: handles the loop tried, skipped, and those
    skipped,          \* of which some firmware call failed
    broken

searchVars == <<i, previous_device, mode, snp, tried, skipped, broken>>
firmware   == <<link, path_to_text>>
addresses  == <<mcast_filters, ip6, sent>>
vars       == <<pc, firmware, addresses, searchVars>>

Init ==
    /\ pc = "locate"
    /\ i = 1 /\ previous_device = 1
    /\ mode \in [Nics -> {"stopped", "started", "initialized"}]
    /\ link \in SUBSET Nics
    /\ path_to_text \in BOOLEAN
    /\ snp = 0
    /\ mcast_filters = <<>>
    /\ ip6 = [ll_mac |-> Zeros(6), ll |-> NoAddress, snm_mac |-> Zeros(6), snm |-> NoAddress]
    /\ sent = {}
    /\ tried = {} /\ skipped = {} /\ broken = {}

-----------------------------------------------------------------------------
\* The text by which a handle is known; handles without one share a text.
uefi_handle_get_string(h) ==
    IF h \in NoDevicePath THEN NullPath
    ELSE IF path_to_text THEN Path[h] ELSE NullString

\* Byte k of a UCS-2 text with its terminator.
ByteOf(s, k) ==
    LET char == IF k \div 2 < Len(s) THEN s[k \div 2 + 1] ELSE 0
    IN IF k % 2 = 0 THEN char % 256 ELSE char \div 256

\* memcmp over as many bytes as the previous text has characters.
SameText(h, p) ==
    LET s == uefi_handle_get_string(h)
        t == uefi_handle_get_string(p)
    IN \A k \in 0 .. Len(t) - 1 : ByteOf(s, k) = ByteOf(t, k)

EFIERR == pc' = "exited" /\ UNCHANGED <<firmware, addresses, searchVars>>

LocateHandle ==
    /\ pc = "locate" /\ NicCount <= MaxHandles
    /\ pc' = "search"
    /\ UNCHANGED <<firmware, addresses, searchVars>>

LocateFails == pc = "locate" /\ EFIERR

Searching == pc = "search" /\ i <= NicCount
Skips     == i # previous_device /\ SameText(i, previous_device)

Skip ==
    /\ Searching /\ Skips
    /\ skipped' = skipped \cup {i}
    /\ i' = i + 1
    /\ UNCHANGED <<pc, previous_device, mode, firmware, snp, addresses, tried, broken>>

\* A turn that gives up on interface i, leaving it in mode m.
Fail(m) ==
    /\ Searching /\ ~Skips
    /\ tried' = tried \cup {i}
    /\ previous_device' = i
    /\ mode' = [mode EXCEPT ![i] = m]
    /\ i' = i + 1
    /\ UNCHANGED <<pc, firmware, snp, addresses, skipped>>

\* Start leaves an interface that is not stopped alone, and so does the code.
Initialized == IF mode[i] = "stopped" THEN "initialized" ELSE mode[i]

\* HandleProtocol or Start fails.
StartFails == Fail(mode[i]) /\ broken' = broken \cup {i}

InitializeFails ==
    /\ Fail("started") /\ mode[i] = "stopped"
    /\ broken' = broken \cup {i}

\* GetStatus fails, as it must for an interface that is not initialized.
GetStatusFails == Fail(Initialized) /\ broken' = broken \cup {i}

NoLink ==
    /\ Fail(Initialized) /\ Initialized = "initialized" /\ i \notin link
    /\ UNCHANGED broken

Select ==
    /\ Searching /\ ~Skips /\ Initialized = "initialized" /\ i \in link
    /\ snp' = i
    /\ mode' = [mode EXCEPT ![i] = Initialized]
    /\ tried' = tried \cup {i} /\ previous_device' = i
    /\ pc' = "configure"
    /\ UNCHANGED <<i, firmware, addresses, skipped, broken>>

\* Mutant: the search gives up at the first interface that fails.
NotFoundEarly == pc = "search" /\ tried # {} /\ EFIERR

\* EFI_NOT_FOUND, which net_open treats as an error.
NotFound == pc = "search" /\ i > NicCount /\ EFIERR

-----------------------------------------------------------------------------
net_add_mcast_filter(filters, addr) ==
    IF Len(filters) >= MaxFilters \/ Len(filters) >= MaxMCastFilterCount[snp]
    THEN filters ELSE Append(filters, addr)

\* The multicast part of net_ip6_init.
JoinGroups(snm) ==
    mcast_filters' = net_add_mcast_filter(
        net_add_mcast_filter(mcast_filters, net_ip6_multicast_from_ip6(snm)),
        net_ip6_multicast_from_ip6(ip6_all_nodes))

\* The addresses, once ll and snm are known.
SetAddresses(mac, ll, snm) ==
    /\ ip6' = [ll_mac |-> mac, ll |-> ll, snm |-> snm,
               snm_mac |-> net_ip6_multicast_from_ip6(snm)]
    /\ JoinGroups(snm)

\* Mutant: the solicited-node address is derived before the link-local one.
InitSwapped(mac) ==
    LET set == [ip6 EXCEPT !.ll_mac = mac, !.snm = net_ip6_snm_addr_from_mac(@, mac)]
    IN \E s \in Strays(set) :
          SetAddresses(s.ll_mac, net_ip6_ll_addr_from_mac(s.ll, s.ll_mac), s.snm)

\* Deriving the link-local address clears bytes of another variable first.
net_ip6_init(mac) ==
    \E s \in Strays([ip6 EXCEPT !.ll_mac = mac]) :
        SetAddresses(s.ll_mac, net_ip6_ll_addr_from_mac(s.ll, s.ll_mac),
                     net_ip6_snm_addr_from_mac(s.snm, s.ll_mac))

\* net_bufpool_init comes before it and may exit.
BufpoolFails == pc = "configure" /\ EFIERR

\* The rest of net_open; ReceiveFilters refuses more filters than there are.
Configure ==
    /\ pc = "configure"
    /\ net_ip6_init(CurrentAddress[snp])
    /\ \/ pc' = "opened" /\ Len(mcast_filters') <= MaxMCastFilterCount[snp]
       \/ pc' = "exited"
    /\ UNCHANGED <<sent, firmware, searchVars>>

\* The loader sends something while its host cache holds r.  Nothing it has
\* sent before has an influence: a frame is looked at, and then forgotten.
Transmit ==
    LET own == [mac |-> ip6.ll_mac, ip |-> ip6.ll]
    IN /\ pc = "opened" /\ sent = {}
       /\ \E r \in Remotes :
             \/ \E m \in Messages : sent' = {netboot_cmd_send(own, r, m)}
             \/ \E m \in EchoRequests : sent' = {EchoReply(own, r, m)}
             \/ sent' = {NeighborAdvertisement(own, r)}
       /\ UNCHANGED <<pc, mcast_filters, ip6, firmware, searchVars>>

Forget ==
    /\ sent # {} /\ sent' = {}
    /\ UNCHANGED <<pc, mcast_filters, ip6, firmware, searchVars>>

Done == pc \in {"opened", "exited"} /\ UNCHANGED vars

Next ==
    \/ LocateHandle
    \/ LocateFails
    \/ Skip
    \/ StartFails
    \/ InitializeFails
    \/ GetStatusFails
    \/ NoLink
    \/ Select
    \/ NotFound
    \/ BufpoolFails
    \/ Configure
    \/ Transmit
    \/ Forget
    \/ Done

Spec == Init /\ [][Next]_vars

-----------------------------------------------------------------------------
\* The search is complete: the loader exits for want of an interface only when
\* each was skipped, failed in a firmware call, or has no link.
NotFoundMeansNoneUsable ==
    pc = "exited" /\ tried # {} /\ snp = 0 =>
        \A n \in Nics : n \in skipped \cup broken \/ n \notin link

\* What a neighbour computes from an address it looks for, by RFC 4291 and 2464.
SolicitedNode(ip) == <<255, 2, 0, 0, 0, 0, 0, 0, 0, 0, 0, 1, 255, ip[14], ip[15], ip[16]>>
GroupMac(ip)      == <<51, 51, ip[13], ip[14], ip[15], ip[16]>>

\* A neighbour that looks for the link-local address the loader gives itself is
\* heard: on an interface that offers two filters, the link address the neighbour
\* sends to is filtered in and the group is the one net_eth_receive accepts, and
\* so for the group of all nodes.  No interface is given more filters than it
\* offers.  It rests on the order in net_ip6_init, whose first call clears bytes
\* of the address the second one writes, or of the one both are derived from.
MulticastHeard ==
    pc = "opened" =>
        /\ Len(mcast_filters) <= MaxMCastFilterCount[snp]
        /\ ip6.snm = SolicitedNode(ip6.ll)
        /\ MaxMCastFilterCount[snp] >= 2 =>
              mcast_filters = <<GroupMac(SolicitedNode(ip6.ll)), GroupMac(ip6_all_nodes)>>

\* The sum a receiver forms, over the pseudo-header of RFC 8200 and the
\* payload, read as big-endian words.
ReceiverSum(f) ==
    LET length  == Len(f.data)
        covered == f.src \o f.dst \o <<0, 0, length \div 256, length % 256>>
                   \o <<0, 0, 0, f.next_header>> \o f.data
        sum[k \in 0 .. Len(covered)] ==
            IF k = 0 THEN 0
            ELSE sum[k - 1] + (IF k % 2 = 1 THEN 256 ELSE 1) * covered[k]
    IN sum[Len(covered)]

\* RFC 8200, 8.1: a sender puts a computed UDP checksum of zero as 65535, for
\* receivers discard a datagram whose checksum field is zero.  The code sends it
\* as it is.
ZeroChecksum(f) == f.next_header = IPPROTO_UDP /\ SubSeq(f.data, 7, 8) = <<0, 0>>

Accepts(f) ==
    /\ ReceiverSum(f) % 65535 = 0
    /\ InMemory(f.length) = <<Len(f.data) \div 256, Len(f.data) % 256>>
    /\ ~ZeroChecksum(f)

\* Every frame the loader sends is one its receiver accepts, but for the
\* datagrams whose sum without the checksum is already right: the one's
\* complement sum is zero whatever the payload, odd lengths and repeated
\* carries included, although the code adds little-endian words and a shorter
\* pseudo-header.  The frame comes from the link-local address that is the
\* modified EUI-64 form of the link address it carries, that of the interface
\* up to the octets a stray memset may have cleared, and goes to the link
\* address of its destination.
FramesVerify ==
    \A f \in sent :
        /\ Accepts(f) \/ (ZeroChecksum(f) /\ ReceiverSum(f) % 65535 = 0)
        /\ SubSeq(f.src, 1, 8) = <<254, 128, 0, 0, 0, 0, 0, 0>>
        /\ LET m == f.h_source
           IN /\ \A k \in 1 .. 6 : m[k] \in {0, CurrentAddress[snp][k]}
              /\ SubSeq(f.src, 10, 16) = <<m[2], m[3], 255, 254, m[4], m[5], m[6]>>
              /\ f.src[9] % 2 = m[1] % 2 /\ f.src[9] \div 4 = m[1] \div 4 /\ f.src[9] # m[1]
        /\ IF f.dst[1] = 255 THEN f.h_dest = GroupMac(f.dst)
           ELSE [mac |-> f.h_dest, ip |-> f.dst] \in Remotes

\* net/net.c:63, "Avoid trying to handle the same device more than once": a
\* handle whose path the firmware can tell is passed over only for the sake of
\* another one of the same device.
OnlySameDeviceSkipped ==
    path_to_text =>
        \A n \in skipped \ NoDevicePath : \E m \in tried : Device[m] = Device[n]
=============================================================================
