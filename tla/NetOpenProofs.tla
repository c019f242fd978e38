--------------------------- MODULE NetOpenProofs ---------------------------
(***************************************************************************)
(* Proofs about net_open, for every number of interfaces, every state they *)
(* are found in and every link address.                                    *)
(***************************************************************************)
EXTENDS NetOpen, TLAPS, SequenceTheorems

Modes == {"stopped", "started", "initialized"}

\* Why interface n cannot be used.
PassedOver(n) == n \in skipped \cup broken \/ n \notin link

\* The loop counter runs through the interfaces, and each one it has left
\* behind was passed over.
SearchInv ==
    /\ pc \in {"locate", "search", "configure", "opened", "exited"}
    /\ i \in Nat \ {0}
    /\ mode \in [Nics -> Modes]
    /\ snp \in Nics \cup {0}
    /\ \A n \in Nics : n < i => PassedOver(n)
    /\ pc = "locate" => tried = {}
    /\ pc \in {"locate", "search"} => snp = 0
    /\ pc = "exited" /\ tried # {} /\ snp = 0 => i > NicCount
    /\ pc \in {"configure", "opened"} => snp \in Nics

LEMMA CountType == NicCount \in Nat
    BY NicAssumption

LEMMA SearchInit == Init => SearchInv
<1>1. Init => \A n \in Nics : n < i => PassedOver(n)
    BY CountType DEF Init, Nics
<1>2. Init => /\ pc = "locate" /\ tried = {} /\ snp = 0
              /\ i = 1 /\ mode \in [Nics -> Modes]
    BY DEF Init, Modes
<1> QED
    BY <1>1, <1>2 DEF SearchInv

\* A turn of the loop that gives up on interface i leaves it behind passed over.
LEMMA FailInv ==
    ASSUME SearchInv, NEW m \in Modes, Fail(m),
           i \in broken' \/ i \notin link, broken \subseteq broken'
    PROVE  SearchInv'
<1>1. i \in Nics /\ i' = i + 1 /\ pc = "search" /\ pc' = pc /\ snp' = snp /\ link' = link
      /\ skipped' = skipped
    BY CountType DEF Fail, Searching, SearchInv, Nics, firmware
<1>2. mode' \in [Nics -> Modes]
    BY DEF Fail, SearchInv
<1>3. \A n \in Nics : n < i' => PassedOver(n)'
    <2> TAKE n \in Nics
    <2>1. n < i + 1 => n < i \/ n = i
        BY CountType, <1>1 DEF Nics, SearchInv
    <2> QED
        BY <1>1, <2>1 DEF SearchInv, PassedOver
<1> QED
    BY <1>1, <1>2, <1>3 DEF SearchInv

LEMMA SearchStep == SearchInv /\ [Next]_vars => SearchInv'
<1> SUFFICES ASSUME SearchInv, [Next]_vars PROVE SearchInv'
    OBVIOUS
<1> USE DEF firmware, addresses, searchVars
<1>1. CASE LocateHandle
    BY <1>1 DEF LocateHandle, SearchInv, PassedOver
<1>2. CASE LocateFails
    BY <1>2 DEF LocateFails, EFIERR, SearchInv, PassedOver
<1>3. CASE Skip
    <2>1. i \in Nics /\ i' = i + 1 /\ pc = "search" /\ skipped' = skipped \cup {i}
          /\ UNCHANGED <<pc, mode, link, snp, broken>>
        BY <1>3, CountType DEF Skip, Searching, SearchInv, Nics
    <2>2. \A n \in Nics : n < i' => PassedOver(n)'
        <3> TAKE n \in Nics
        <3>1. n < i + 1 => n < i \/ n = i
            BY CountType, <2>1 DEF Nics, SearchInv
        <3> QED
            BY <2>1, <3>1 DEF SearchInv, PassedOver
    <2> QED
        BY <2>1, <2>2 DEF SearchInv
<1>4. CASE StartFails \/ InitializeFails \/ GetStatusFails \/ NoLink
    <2>1. pc = "search" /\ i \in Nics
        BY <1>4, CountType
           DEF StartFails, InitializeFails, GetStatusFails, NoLink, Fail, Searching,
               SearchInv, Nics
    <2>2. mode[i] \in Modes /\ Initialized \in Modes /\ "started" \in Modes
        BY <2>1 DEF SearchInv, Modes, Initialized
    <2>3. PICK m \in Modes : Fail(m)
        BY <1>4, <2>2 DEF StartFails, InitializeFails, GetStatusFails, NoLink
    <2>4. (i \in broken' \/ i \notin link) /\ broken \subseteq broken'
        BY <1>4 DEF StartFails, InitializeFails, GetStatusFails, NoLink
    <2> QED
        BY <2>3, <2>4, FailInv
<1>5. CASE Select
    <2>1. i \in Nics
        BY <1>5, CountType DEF Select, Searching, SearchInv, Nics
    <2> QED
        BY <1>5, <2>1 DEF Select, SearchInv, Modes, PassedOver
<1>6. CASE NotFound
    BY <1>6 DEF NotFound, EFIERR, SearchInv, PassedOver
<1>7. CASE Configure \/ BufpoolFails
    <2>1. UNCHANGED <<i, mode, snp, tried, skipped, broken, link>>
          /\ pc = "configure" /\ pc' \in {"opened", "exited"}
        BY <1>7 DEF Configure, BufpoolFails, EFIERR
    <2>2. snp # 0
        BY <2>1, CountType DEF SearchInv, Nics
    <2> QED
        BY <2>1, <2>2 DEF SearchInv, PassedOver
<1>8. CASE Transmit \/ Forget \/ Done \/ UNCHANGED vars
    <2>1. UNCHANGED <<pc, i, mode, snp, tried, skipped, broken, link>>
        BY <1>8 DEF Transmit, Forget, Done, vars
    <2> QED
        BY <2>1 DEF SearchInv, PassedOver
<1> QED
    BY <1>1, <1>2, <1>3, <1>4, <1>5, <1>6, <1>7, <1>8 DEF Next

\* For every number of interfaces, whatever states they are found in and
\* whichever firmware calls fail: net_open gives up for want of an interface only
\* when each was skipped, failed in a firmware call, or has no link.
THEOREM SearchCorrect == Spec => []NotFoundMeansNoneUsable
<1>1. SearchInv => NotFoundMeansNoneUsable
    BY CountType DEF SearchInv, NotFoundMeansNoneUsable, PassedOver, Nics
<1> QED
    BY <1>1, SearchInit, SearchStep, PTL DEF Spec

-----------------------------------------------------------------------------
Address == [1 .. 16 -> Byte]

\* The link address of a group, as net_ip6_multicast_from_ip6 computes it.
LEMMA MulticastBytes ==
    ASSUME NEW ip \in Address
    PROVE  net_ip6_multicast_from_ip6(ip) = GroupMac(ip)
<1> DEFINE tail == SubSeq(ip, 13, 16)
<1>1. \A k \in 13 .. 16 : ip[k] \in Byte
    BY DEF Address
<1>2. /\ tail \in Seq(Byte)
      /\ Len(tail) = 4
      /\ tail[1] = ip[13] /\ tail[2] = ip[14] /\ tail[3] = ip[15] /\ tail[4] = ip[16]
    <2>1. /\ tail \in Seq(Byte)
          /\ Len(tail) = IF 13 <= 16 THEN 16 - 13 + 1 ELSE 0
          /\ \A k \in 1 .. 16 - 13 + 1 : tail[k] = ip[13 + k - 1]
        BY <1>1, SubSeqProperties
    <2> QED
        BY <2>1
<1>3. <<51, 51>> \in Seq(Byte) /\ Len(<<51, 51>>) = 2
    BY DEF Byte
<1> DEFINE mac == <<51, 51>> \o tail
<1>4. /\ mac \in Seq(Byte)
      /\ Len(mac) = 2 + 4
      /\ \A k \in 1 .. 2 + 4 : mac[k] = IF k <= 2 THEN <<51, 51>>[k] ELSE tail[k - 2]
    BY <1>2, <1>3, ConcatProperties
<1>5. GroupMac(ip) \in Seq(Byte) /\ Len(GroupMac(ip)) = 6
    BY <1>1 DEF GroupMac, Byte
<1>6. \A k \in 1 .. 6 : mac[k] = GroupMac(ip)[k]
    BY <1>2, <1>4 DEF GroupMac
<1>7. mac = GroupMac(ip)
    BY <1>4, <1>5, <1>6, SeqEqual
<1> QED
    BY <1>7 DEF net_ip6_multicast_from_ip6

LEMMA AllNodesAddress == ip6_all_nodes \in Address
<1>1. Zeros(13) \in Seq(Byte) /\ Len(Zeros(13)) = 13
    BY DEF Zeros, Byte
<1>2. <<255, 2>> \in Seq(Byte) /\ Len(<<255, 2>>) = 2 /\ <<1>> \in Seq(Byte) /\ Len(<<1>>) = 1
    BY DEF Byte
<1> DEFINE a == <<255, 2>>
           z == Zeros(13)
<1>3. a \o z \in Seq(Byte) /\ Len(a \o z) = 2 + 13
    <2> HIDE DEF a, z
    <2>1. a \in Seq(Byte) /\ Len(a) = 2 /\ z \in Seq(Byte) /\ Len(z) = 13
        BY <1>1, <1>2 DEF a, z
    <2>2. a \o z \in Seq(Byte) /\ Len(a \o z) = Len(a) + Len(z)
        BY <2>1, ConcatProperties, Zenon
    <2> QED
        BY <2>1, <2>2
<1>4. ip6_all_nodes \in Seq(Byte) /\ Len(ip6_all_nodes) = 2 + 13 + 1
    BY <1>2, <1>3, ConcatProperties DEF ip6_all_nodes
<1>5. ip6_all_nodes \in [1 .. Len(ip6_all_nodes) -> Byte]
    BY <1>4, LenProperties
<1> QED
    BY <1>4, <1>5 DEF Address

\* The variables of ip6.c as they are when only the link address is known.
KnownLink(mac) ==
    [ll_mac |-> mac, ll |-> NoAddress, snm_mac |-> Zeros(6), snm |-> NoAddress]

\* Whichever bytes the stray memset clears: an address that is zero stays so,
\* and the link address stays one.
LEMMA StraysOf ==
    ASSUME NEW mac \in Seq(Byte), Len(mac) = 6, NEW s \in Strays(KnownLink(mac))
    PROVE  s.ll = NoAddress /\ s.snm = NoAddress /\ s.ll_mac \in Seq(Byte) /\ Len(s.ll_mac) = 6
<1>1. \A at \in Int : Cleared(NoAddress, at) = NoAddress
    BY DEF Cleared, NoAddress, Zeros
<1>2. \A at \in Int : Cleared(mac, at) \in Seq(Byte) /\ Len(Cleared(mac, at)) = 6
    <2> TAKE at \in Int
    <2>1. mac \in [1 .. 6 -> Byte] /\ DOMAIN mac = 1 .. 6
        BY LenProperties
    <2>2. Cleared(mac, at) \in [1 .. 6 -> Byte]
        BY <2>1 DEF Cleared, Byte
    <2> DEFINE c == Cleared(mac, at)
    <2> HIDE DEF c
    <2>3. c \in Seq(Byte)
        BY <2>2, SeqDef DEF c
    <2>4. DOMAIN c = 1 .. 6 /\ Len(c) \in Nat /\ DOMAIN c = 1 .. Len(c)
        BY <2>2, <2>3, LenProperties DEF c
    <2>5. Len(c) = 6
        BY <2>4
    <2> QED
        BY <2>3, <2>5 DEF c
<1> QED
    BY <1>1, <1>2 DEF Strays, KnownLink

\* The solicited-node address derived from the interface's address is the one
\* that belongs to the link-local address derived from it.
LEMMA DerivedAddresses ==
    ASSUME NEW mac \in Seq(Byte), Len(mac) = 6
    PROVE  LET ll  == net_ip6_ll_addr_from_mac(NoAddress, mac)
               snm == net_ip6_snm_addr_from_mac(NoAddress, mac)
           IN snm = SolicitedNode(ll) /\ snm \in Address
<1> DEFINE ll  == net_ip6_ll_addr_from_mac(NoAddress, mac)
           snm == net_ip6_snm_addr_from_mac(NoAddress, mac)
<1>1. mac[4] \in Byte /\ mac[5] \in Byte /\ mac[6] \in Byte
    <2>1. mac \in [1 .. Len(mac) -> Byte]
        BY LenProperties
    <2> QED
        BY <2>1
<1>2. ll[14] = mac[4] /\ ll[15] = mac[5] /\ ll[16] = mac[6]
    BY <1>1 DEF net_ip6_ll_addr_from_mac, Written
<1>3. snm = [k \in 1 .. 16 |->
                IF k = 1 THEN 255 ELSE IF k = 2 THEN 2 ELSE IF k = 12 THEN 1
                ELSE IF k = 13 THEN 255 ELSE IF k = 14 THEN mac[4]
                ELSE IF k = 15 THEN mac[5] ELSE IF k = 16 THEN mac[6] ELSE 0]
    BY <1>1 DEF net_ip6_snm_addr_from_mac, Written, NoAddress, Zeros
<1>4. snm \in Address
    BY <1>1, <1>3 DEF Address, Byte
<1>5. snm = SolicitedNode(ll)
    BY <1>2, <1>3, <1>4 DEF SolicitedNode, Address
<1> QED
    BY <1>4, <1>5

\* Until an interface is configured nothing has written the addresses.
AddressInv ==
    /\ pc \in {"locate", "search", "configure"} =>
          ip6 = KnownLink(Zeros(6)) /\ mcast_filters = <<>>
    /\ MulticastHeard

OpenInv == SearchInv /\ AddressInv

LEMMA AppendToOne ==
    ASSUME NEW S, NEW a \in S, NEW b \in S
    PROVE  Len(<<a>>) = 1 /\ Append(<<a>>, b) = <<a, b>>
<1> DEFINE t == Append(<<a>>, b)
<1>1. <<a>> \in Seq(S) /\ Len(<<a>>) = 1 /\ <<a>>[1] = a
    OBVIOUS
<1>2. /\ t \in Seq(S) /\ Len(t) = 1 + 1
      /\ \A k \in 1 .. 1 : t[k] = <<a>>[k]
      /\ t[1 + 1] = b
    BY <1>1, AppendProperties
<1>3. <<a, b>> \in Seq(S) /\ Len(<<a, b>>) = 2 /\ <<a, b>>[1] = a /\ <<a, b>>[2] = b
    OBVIOUS
<1> HIDE DEF t
<1>4. \A k \in 1 .. 2 : t[k] = <<a, b>>[k]
    BY <1>1, <1>2, <1>3
<1>5. t = <<a, b>>
    BY <1>2, <1>3, <1>4, SeqEqual
<1> QED
    BY <1>1, <1>5 DEF t

\* The filters of an interface that offers two, and of one that does not.
LEMMA FiltersOf ==
    ASSUME NEW g1 \in Seq(Byte), NEW g2 \in Seq(Byte), MaxMCastFilterCount[snp] \in Nat
    PROVE  LET filters == net_add_mcast_filter(net_add_mcast_filter(<<>>, g1), g2)
           IN /\ Len(filters) <= MaxMCastFilterCount[snp]
              /\ MaxMCastFilterCount[snp] >= 2 => filters = <<g1, g2>>
<1> DEFINE offered == MaxMCastFilterCount[snp]
           one == net_add_mcast_filter(<<>>, g1)
           two == net_add_mcast_filter(one, g2)
<1>1. CASE offered = 0
    BY <1>1 DEF net_add_mcast_filter, MaxFilters
<1>2. CASE offered > 0
    <2>1. one = <<g1>>
        BY <1>2 DEF net_add_mcast_filter, MaxFilters
    <2>2. CASE offered = 1
        BY <2>1, <2>2 DEF net_add_mcast_filter, MaxFilters
    <2>3. CASE offered > 1
        <3>1. Len(one) = 1 /\ Append(one, g2) = <<g1, g2>>
            <4>1. Len(<<g1>>) = 1 /\ Append(<<g1>>, g2) = <<g1, g2>>
                BY AppendToOne
            <4> HIDE DEF one
            <4> QED
                BY <2>1, <4>1
        <3>2. two = <<g1, g2>>
            BY <2>3, <3>1 DEF net_add_mcast_filter, MaxFilters
        <3>3. Len(<<g1, g2>>) = 2
            OBVIOUS
        <3> HIDE DEF two
        <3>4. Len(two) <= offered
            BY <2>3, <3>2, <3>3
        <3> QED
            BY <3>2, <3>4, Zenon DEF two, one
    <2> QED
        BY <1>2, <2>2, <2>3
<1> QED
    BY <1>1, <1>2

LEMMA ConfigureHeard ==
    ASSUME SearchInv, AddressInv, Configure
    PROVE  MulticastHeard'
<1>1. snp \in Nics /\ snp' = snp /\ pc = "configure"
    BY DEF Configure, SearchInv, searchVars
<1>2. /\ CurrentAddress[snp] \in Seq(Byte) /\ Len(CurrentAddress[snp]) = 6
      /\ MaxMCastFilterCount[snp] \in Nat
    <2>1. CurrentAddress \in [Nics -> Seq(Byte)] /\ MaxMCastFilterCount \in [Nics -> Nat]
        BY NicAssumption
    <2>2. \A n \in Nics : Len(CurrentAddress[n]) = 6
        BY NicAssumption
    <2> QED
        BY <1>1, <2>1, <2>2
<1>3. [ip6 EXCEPT !.ll_mac = CurrentAddress[snp]] = KnownLink(CurrentAddress[snp])
      /\ mcast_filters = <<>>
    BY <1>1 DEF AddressInv, KnownLink
<1>4. PICK s \in Strays(KnownLink(CurrentAddress[snp])) :
          SetAddresses(s.ll_mac, net_ip6_ll_addr_from_mac(s.ll, s.ll_mac),
                       net_ip6_snm_addr_from_mac(s.snm, s.ll_mac))
    BY <1>3, Zenon DEF Configure, net_ip6_init
<1> DEFINE mac == s.ll_mac
           ll  == net_ip6_ll_addr_from_mac(NoAddress, mac)
           snm == net_ip6_snm_addr_from_mac(NoAddress, mac)
           g1  == GroupMac(snm)
           g2  == GroupMac(ip6_all_nodes)
<1>5. s.ll = NoAddress /\ s.snm = NoAddress /\ mac \in Seq(Byte) /\ Len(mac) = 6
    BY <1>2, StraysOf, Zenon
<1>6. SetAddresses(mac, ll, snm)
    BY <1>4, <1>5
<1>7. snm = SolicitedNode(ll) /\ snm \in Address
    BY <1>5, DerivedAddresses
<1>8. net_ip6_multicast_from_ip6(snm) = g1 /\ net_ip6_multicast_from_ip6(ip6_all_nodes) = g2
    BY <1>7, MulticastBytes, AllNodesAddress
<1>9. ip6'.ll = ll /\ ip6'.snm = snm
    BY <1>6 DEF SetAddresses
<1>10. mcast_filters' = net_add_mcast_filter(net_add_mcast_filter(<<>>, g1), g2)
    BY <1>3, <1>6, <1>8, Zenon DEF SetAddresses, JoinGroups
<1>11. g1 \in Seq(Byte) /\ g2 \in Seq(Byte)
    <2>1. \A ip \in Address : GroupMac(ip) \in Seq(Byte)
        BY DEF GroupMac, Address, Byte
    <2> QED
        BY <2>1, <1>7, AllNodesAddress
<1>12. /\ Len(mcast_filters') <= MaxMCastFilterCount[snp]
       /\ MaxMCastFilterCount[snp] >= 2 => mcast_filters' = <<g1, g2>>
    BY <1>2, <1>10, <1>11, FiltersOf, Zenon
<1> HIDE DEF ll, snm, g2
<1> QED
    BY <1>1, <1>7, <1>9, <1>12, Zenon DEF MulticastHeard, g2

LEMMA AddressStep == OpenInv /\ [Next]_vars => AddressInv'
<1> SUFFICES ASSUME SearchInv, AddressInv, [Next]_vars PROVE AddressInv'
    BY DEF OpenInv
<1> USE DEF firmware, addresses, searchVars
<1>1. CASE Configure
    <2>1. pc' \in {"opened", "exited"}
        BY <1>1 DEF Configure
    <2> QED
        BY <1>1, <2>1, ConfigureHeard DEF AddressInv
<1>2. CASE LocateHandle \/ Skip \/ StartFails \/ InitializeFails \/ GetStatusFails
           \/ NoLink \/ Select
    <2>1. pc \in {"locate", "search"} /\ pc' \in {"search", "configure"}
          /\ UNCHANGED <<mcast_filters, ip6>>
        BY <1>2 DEF LocateHandle, Skip, StartFails, InitializeFails, GetStatusFails, NoLink,
                    Select, Fail, Searching
    <2> QED
        BY <2>1 DEF AddressInv, MulticastHeard
<1>3. CASE LocateFails \/ NotFound \/ BufpoolFails
    <2>1. pc' = "exited"
        BY <1>3 DEF LocateFails, NotFound, BufpoolFails, EFIERR
    <2> QED
        BY <2>1 DEF AddressInv, MulticastHeard
<1>4. CASE Transmit \/ Forget \/ Done \/ UNCHANGED vars
    <2>1. UNCHANGED <<pc, mcast_filters, ip6, snp>>
        BY <1>4 DEF Transmit, Forget, Done, vars
    <2> QED
        BY <2>1, Zenon DEF AddressInv, MulticastHeard
<1> QED
    BY <1>1, <1>2, <1>3, <1>4 DEF Next

\* For every link address and every number of filters an interface offers: the
\* loader hears a neighbour that looks for the address it gives itself.
THEOREM HeardByNeighbours == Spec => []MulticastHeard
<1>1. Init => OpenInv
    <2>1. Init => AddressInv
        BY DEF Init, AddressInv, KnownLink, MulticastHeard
    <2> QED
        BY <2>1, SearchInit DEF OpenInv
<1>2. OpenInv /\ [Next]_vars => OpenInv'
    BY SearchStep, AddressStep DEF OpenInv
<1>3. OpenInv => MulticastHeard
    BY DEF OpenInv, AddressInv
<1> QED
    BY <1>1, <1>2, <1>3, PTL DEF Spec

=============================================================================
