------------------------------ MODULE NetStack ------------------------------
(***************************************************************************)
(* The poll loop of net/net.c over the protocol code of net/eth.c,         *)
(* net/ip6.c, net/icmp6.c and net/udp6.c, with the command handler of      *)
(* module Netboot on top.                                                  *)
(*                                                                         *)
(* One net_poll is three steps, between which frames arrive, transmissions *)
(* complete and the timer runs: PollAdvertise, Reclaim (with its           *)
(* alternatives) and PollReceive.  A fourth, PollWrite, follows a fragment *)
(* that completes a file: net_poll has not returned yet.                   *)
(* The transmit pool is its number of free buffers; BufPool shows that the *)
(* list behaves like that number.                                          *)
(*                                                                         *)
(* A received frame is a record: valid tells whether it passes the length, *)
(* type and version checks of net_eth_receive; mac, src and dst are its    *)
(* addresses; body is what the IPv6 header announces.  rx holds the frames *)
(* on their way to the loader and tx those it transmitted.                 *)
(***************************************************************************)
EXTENDS Netboot

CONSTANTS
    ETH_BUFFERS,  \* size of the transmit pool
    Hosts,        \* unicast addresses on the link
    Unspecified,  \* the address ::, which is also the empty remote_ip6_addr
    LinkLocal,    \* ip6_ll_addr
    SolicitedNode,\* ip6_snm_addr
    AllNodes,     \* ip6_all_nodes
    Frames,       \* frames that may arrive
    MaxQueue      \* bound of rx and tx

ASSUME StackAssumption ==
    /\ ETH_BUFFERS \in 1 .. 16
    /\ MaxQueue \in Nat \ {0}
    /\ Unspecified \notin Hosts
    /\ {SolicitedNode, AllNodes} \cap (Hosts \cup {Unspecified}) = {}

NetbootPort == 57777
Bodies ==
    [kind : {"udp"}, port : Nat, msg : Messages]
    \cup [kind : {"echo", "none"}]
    \cup [kind : {"solicitation"}, accepted : BOOLEAN]

\* The link-layer address of a host, or the one a multicast address maps to.
Mac(ip) == <<"mac", ip>>
NoMac   == <<"mac", "none">>

\* A host sends from its own link address.
ASSUME FramesAssumption ==
    \A f \in Frames :
        /\ f.valid \in BOOLEAN
        /\ f.src \in Hosts \cup {Unspecified}
        /\ f.src \in Hosts => f.mac = Mac(f.src)
        /\ f.body \in Bodies

VARIABLES
    pc,                 \* "open", "advertise", "reclaim", "receive", "kernel"
    net_advertised,
    net_timer,          \* "idle", "running" or "expired"
    remote_mac_addr,
    remote_ip6_addr,
    eth_bufpool_avail,
    rx,
    tx

remote     == <<remote_mac_addr, remote_ip6_addr>>
advertiser == <<net_advertised, net_timer>>
stackVars  == <<pc, advertiser, remote, eth_bufpool_avail, rx, tx>>
allVars    == <<bootVars, stackVars>>

StackInit ==
    /\ BootInit
    /\ pc = "open"
    /\ net_advertised = FALSE
    /\ net_timer = "idle"
    /\ remote_mac_addr = NoMac
    /\ remote_ip6_addr = Unspecified
    /\ eth_bufpool_avail = 0
    /\ rx = <<>>
    /\ tx = <<>>

-----------------------------------------------------------------------------
\* A full wire loses the frame.
Wire(q, f) == IF Len(q) < MaxQueue THEN Append(q, f) ELSE q

Multicast(ip) == ip \in {SolicitedNode, AllNodes}

\* net_ip6_resolve with remote address ip6 and link address mac in the cache.
Resolvable(ip, ip6)  == Multicast(ip) \/ ip = ip6
Resolve(ip, mac)     == IF Multicast(ip) THEN Mac(ip) ELSE mac

net_ip6_packet_setup(ip, mac, payload) ==
    [mac |-> Resolve(ip, mac), dst |-> ip, payload |-> payload]

\* Mutant: the pool is not asked whether it has a buffer.
SendUnchecked(ip, payload, mac, ip6) ==
    \/ /\ Resolvable(ip, ip6)
       /\ eth_bufpool_avail' = eth_bufpool_avail - 1
       /\ tx' \in {tx, Wire(tx, net_ip6_packet_setup(ip, mac, payload))}
    \/ UNCHANGED <<eth_bufpool_avail, tx>>

\* Sending, from net_bufpool_get to Transmit.  Nothing is sent when the pool is
\* empty, the address cannot be resolved or Transmit fails: the buffer, if there
\* was one, is back in the pool and the caller ignores the error.  A transmitted
\* frame may be lost on its way.
Send(ip, payload, mac, ip6) ==
    \/ /\ eth_bufpool_avail > 0
       /\ Resolvable(ip, ip6)
       /\ eth_bufpool_avail' = eth_bufpool_avail - 1
       /\ tx' \in {tx, Wire(tx, net_ip6_packet_setup(ip, mac, payload))}
    \/ UNCHANGED <<eth_bufpool_avail, tx>>

net_udp6_send(ip, payload, mac, ip6)  == Send(ip, payload, mac, ip6)
net_icmp6_send(ip, payload, mac, ip6) == Send(ip, payload, mac, ip6)

net_ip6_empty(ip6) == ip6 = Unspecified

\* To the cached remote host if there is one.
netboot_cmd_send(payload, mac, ip6) ==
    net_udp6_send(IF net_ip6_empty(ip6) THEN AllNodes ELSE ip6, payload, mac, ip6)

net_advertise ==
    netboot_cmd_send([cmd |-> "CMD_ADVERTISE"], remote_mac_addr, remote_ip6_addr)

-----------------------------------------------------------------------------
\* Mutant: the cache is updated only after the message is handled.
ReceiveBeforeCaching(f) ==
    IF f.body.port = NetbootPort
      THEN LET m == f.body.msg IN
           \/ /\ Handle(m)
              /\ IF Acknowledges(m)
                   THEN netboot_cmd_send(Ack(m), remote_mac_addr, remote_ip6_addr)
                   ELSE UNCHANGED <<eth_bufpool_avail, tx>>
           \/ (AckFails(m) \/ WriteThroughNull(m)) /\ UNCHANGED <<eth_bufpool_avail, tx>>
      ELSE UNCHANGED <<bootVars, eth_bufpool_avail, tx>>

net_udp6_receive(f) ==
    IF f.body.port = NetbootPort
      THEN LET m == f.body.msg IN
           \/ /\ Handle(m)
              /\ IF Acknowledges(m)
                   THEN netboot_cmd_send(Ack(m), f.mac, f.src)
                   ELSE UNCHANGED <<eth_bufpool_avail, tx>>
           \/ (AckFails(m) \/ WriteThroughNull(m)) /\ UNCHANGED <<eth_bufpool_avail, tx>>
      ELSE UNCHANGED <<bootVars, eth_bufpool_avail, tx>>

\* Echo requests and acceptable neighbour solicitations are answered.
net_icmp6_receive(f) ==
    /\ IF f.body.kind = "echo" \/ f.body.accepted
         THEN net_icmp6_send(f.src, [cmd |-> f.body.kind], f.mac, f.src)
         ELSE UNCHANGED <<eth_bufpool_avail, tx>>
    /\ UNCHANGED bootVars

ForUs(f) == f.valid /\ f.dst \in {LinkLocal, SolicitedNode, AllNodes}

\* Mutant: only half of the remote address is cached.
ReceiveCachingIpOnly(f) ==
    IF ForUs(f)
      THEN /\ remote_ip6_addr' = f.src
           /\ UNCHANGED remote_mac_addr
           /\ CASE f.body.kind = "udp" -> net_udp6_receive(f)
                [] f.body.kind \in {"echo", "solicitation"} -> net_icmp6_receive(f)
                [] OTHER -> UNCHANGED <<bootVars, eth_bufpool_avail, tx>>
      ELSE UNCHANGED <<bootVars, remote, eth_bufpool_avail, tx>>

\* The sender of any frame addressed to us replaces the cached remote host,
\* before the frame is looked at further.
net_eth_receive(f) ==
    IF ForUs(f)
      THEN /\ remote_mac_addr' = f.mac
           /\ remote_ip6_addr' = f.src
           /\ CASE f.body.kind = "udp" -> net_udp6_receive(f)
                [] f.body.kind \in {"echo", "solicitation"} -> net_icmp6_receive(f)
                [] OTHER -> UNCHANGED <<bootVars, eth_bufpool_avail, tx>>
      ELSE UNCHANGED <<bootVars, remote, eth_bufpool_avail, tx>>

-----------------------------------------------------------------------------
net_open ==
    /\ pc = "open" /\ Running
    /\ eth_bufpool_avail' = ETH_BUFFERS
    /\ pc' = "advertise"
    /\ UNCHANGED <<bootVars, advertiser, remote, rx, tx>>

\* Mutant: the stop flag is not looked at.
DueEvenIfStopped == ~net_advertised \/ net_timer = "expired"

\* CheckEvent clears the signal; it is not called before the first
\* advertisement.
AdvertisementDue ==
    \/ ~net_advertised
    \/ net_timer = "expired" /\ ~net_stop_advertising

\* Mutant: the timer is armed for the first advertisement only.
AdvertiseArmingOnce ==
    /\ pc = "advertise" /\ Polling
    /\ IF AdvertisementDue
         THEN /\ net_advertise
              /\ net_timer' = IF net_advertised THEN "idle" ELSE "running"
              /\ net_advertised' = TRUE
         ELSE /\ net_timer' = IF net_timer = "expired" THEN "idle" ELSE net_timer
              /\ UNCHANGED <<net_advertised, eth_bufpool_avail, tx>>
    /\ pc' = "reclaim"
    /\ UNCHANGED <<bootVars, remote, rx>>

PollAdvertise ==
    /\ pc = "advertise" /\ Polling
    /\ IF AdvertisementDue
         THEN /\ net_advertise
              /\ net_timer' = "running"
              /\ net_advertised' = TRUE
         ELSE /\ net_timer' = IF net_timer = "expired" THEN "idle" ELSE net_timer
              /\ UNCHANGED <<net_advertised, eth_bufpool_avail, tx>>
    /\ pc' = "reclaim"
    /\ UNCHANGED <<bootVars, remote, rx>>

\* GetStatus reports one completed transmit buffer, or none (NULL or another
\* user's), or fails and ends this net_poll.
Reclaim ==
    /\ pc = "reclaim" /\ eth_bufpool_avail < ETH_BUFFERS
    /\ eth_bufpool_avail' = eth_bufpool_avail + 1
    /\ pc' = "receive"
    /\ UNCHANGED <<bootVars, advertiser, remote, rx, tx>>

NothingToReclaim ==
    /\ pc = "reclaim"
    /\ pc' = "receive"
    /\ UNCHANGED <<bootVars, advertiser, remote, eth_bufpool_avail, rx, tx>>

GetStatusFails ==
    /\ pc = "reclaim" /\ eth_bufpool_avail < 16
    /\ pc' = "advertise"
    /\ UNCHANGED <<bootVars, advertiser, remote, eth_bufpool_avail, rx, tx>>

\* Receive has a frame, or none.
PollReceive ==
    /\ pc = "receive" /\ Running /\ ~writing /\ rx # <<>>
    /\ net_eth_receive(Head(rx))
    /\ rx' = Tail(rx)
    /\ pc' = IF writing' THEN "receive" ELSE "advertise"
    /\ UNCHANGED advertiser

NotReady ==
    /\ pc = "receive" /\ Running /\ ~writing
    /\ pc' = "advertise"
    /\ UNCHANGED <<bootVars, advertiser, remote, eth_bufpool_avail, rx, tx>>

\* The handler writes the file whose last fragment it has acknowledged, and
\* returns to the poll loop.
PollWrite ==
    /\ pc = "receive" /\ FinishTransfer
    /\ pc' = "advertise"
    /\ UNCHANGED <<advertiser, remote, eth_bufpool_avail, rx, tx>>

\* The poll loop ends and efi_main goes on to load the kernel.
net_close ==
    /\ pc = "advertise" /\ Running /\ ~net_poll_continue
    /\ pc' = "kernel"
    /\ net_timer' = "idle"
    /\ UNCHANGED <<bootVars, net_advertised, remote, eth_bufpool_avail, rx, tx>>

\* A firmware call whose status is checked with EFIERR fails: anything in
\* net_open, or Receive.
FirmwareFails ==
    /\ Running /\ pc \in {"open", "receive"} /\ ~writing
    /\ EFIERR
    /\ UNCHANGED <<transfer, disk, stackVars>>

\* The same for malloc before, or SetTimer after, an advertisement is sent.
AdvertiseFails ==
    /\ pc = "advertise" /\ Polling /\ AdvertisementDue
    /\ net_advertise
    /\ EFIERR
    /\ UNCHANGED <<transfer, disk, pc, advertiser, remote, rx>>

\* External: the timer event is signalled.
TimerExpires ==
    /\ net_timer = "running" /\ Running
    /\ net_timer' = "expired"
    /\ UNCHANGED <<bootVars, pc, net_advertised, remote, eth_bufpool_avail, rx, tx>>

LoaderStep ==
    \/ net_open
    \/ PollAdvertise
    \/ AdvertiseFails
    \/ Reclaim
    \/ NothingToReclaim
    \/ GetStatusFails
    \/ PollReceive
    \/ NotReady
    \/ PollWrite
    \/ FirmwareFails
    \/ net_close
    \/ TimerExpires

\* External: the link.
Arrive(f) ==
    /\ Running /\ pc # "kernel"
    /\ Len(rx) < MaxQueue
    /\ rx' = Append(rx, f)
    /\ UNCHANGED <<bootVars, pc, advertiser, remote, eth_bufpool_avail, tx>>

Leave ==
    /\ tx # <<>>
    /\ tx' = Tail(tx)
    /\ UNCHANGED <<bootVars, pc, advertiser, remote, eth_bufpool_avail, rx>>

StackNext == LoaderStep \/ (\E f \in Frames : Arrive(f)) \/ Leave

StackSpec == StackInit /\ [][StackNext]_allVars

\* The loop keeps running, time passes, the interface does not fail for ever.
PollFairness ==
    /\ WF_allVars(net_open)
    /\ WF_allVars(PollAdvertise)
    /\ WF_allVars(Reclaim \/ NothingToReclaim \/ GetStatusFails)
    /\ WF_allVars(PollReceive \/ NotReady)
    /\ WF_allVars(PollWrite)
    /\ WF_allVars(net_close)
    /\ WF_allVars(TimerExpires)
    /\ SF_allVars(Reclaim)

StackFairSpec ==
    /\ StackSpec
    /\ PollFairness
    /\ WF_allVars(Leave)
    /\ SF_allVars(PollAdvertise /\ tx' # tx)

-----------------------------------------------------------------------------
StackTypeOK ==
    /\ BootTypeOK
    /\ pc \in {"open", "advertise", "reclaim", "receive", "kernel"}
    /\ net_advertised \in BOOLEAN
    /\ net_timer \in {"idle", "running", "expired"}
    /\ remote_ip6_addr \in Hosts \cup {Unspecified}
    /\ eth_bufpool_avail \in 0 .. ETH_BUFFERS
    /\ rx \in Seq(Frames) /\ Len(rx) <= MaxQueue
    /\ Len(tx) <= MaxQueue

\* Every frame the loader sends to a host carries the link address of that
\* host: the two halves of the remote address cache always belong together.
RightLinkAddress ==
    \A i \in 1 .. Len(tx) :
        tx[i].dst # Unspecified => tx[i].mac = Mac(tx[i].dst)

\* Acknowledgements go to a host that sends netboot commands, whatever other
\* hosts talk to the loader in between.  A sender without an address is answered
\* through the group of all nodes.
CommandSources ==
    {IF f.src = Unspecified THEN AllNodes ELSE f.src :
        f \in {g \in Frames : g.body.kind = "udp" /\ g.body.port = NetbootPort}}

AcksReachThePeer ==
    \A i \in 1 .. Len(tx) :
        tx[i].payload.cmd = "CMD_ACK" => tx[i].dst \in CommandSources

\* Once told to stop, the loader sends no further advertisement, the
\* unconditional first one included.
QuietWhenStopped ==
    [][net_stop_advertising =>
          (tx' # tx /\ Len(tx') >= Len(tx) =>
              tx'[Len(tx')].payload.cmd # "CMD_ADVERTISE")]_allVars

\* A loader that is neither told to stop nor spoken to keeps advertising: the
\* timer is armed again each time, and buffers come back.
KeepsAdvertising ==
    <>[](rx = <<>> /\ Polling /\ ~net_stop_advertising /\ pc # "open")
        => []<>(\E i \in 1 .. Len(tx) : tx[i].payload.cmd = "CMD_ADVERTISE")

\* "the RFC requires invalid messages to be silently discarded": a neighbour
\* solicitation that is not accepted leaves no trace in the loader.
InvalidSolicitationDiscarded ==
    [][PollReceive /\ Head(rx).body.kind = "solicitation"
           /\ ~Head(rx).body.accepted
         => UNCHANGED <<bootVars, advertiser, remote, eth_bufpool_avail, tx>>]_allVars
=============================================================================
