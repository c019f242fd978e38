--------------------------- MODULE NetbootSystem ---------------------------
(***************************************************************************)
(* The loader of module NetStack, a netboot server, and the link between   *)
(* them.  The server is not part of the repository: it is the simplest     *)
(* peer the handler's acknowledgements are made for.  It waits for an      *)
(* advertisement, sends each file as CMD_FILE_SEND_INIT and then fragment  *)
(* by fragment, repeats a message until it is acknowledged, and finally    *)
(* sends CMD_BOOT.  Whoever runs it may ask for a reset, a shutdown or the *)
(* firmware's setup, and another host may talk to the loader meanwhile.    *)
(*                                                                         *)
(* rx and tx are the two directions of the link: first in, first out, and  *)
(* lossy.  A frame lost on its way to the loader is one the server did not *)
(* append; loss in the other direction is part of NetStack's Send.         *)
(***************************************************************************)
EXTENDS NetStack

CONSTANTS
    Server,     \* the server's address
    Files,      \* sequence of records: path, and fragments, a sequence
    Requests,   \* commands that whoever runs the server may give at any time
    Bystander   \* frames another host may send

Content(f) ==
    LET upto[k \in 0 .. Len(f.fragments)] ==
            IF k = 0 THEN <<>> ELSE upto[k - 1] \o f.fragments[k]
    IN upto[Len(f.fragments)]

ASSUME FilesAssumption ==
    \A i, j \in 1 .. Len(Files) :
        /\ i # j => Named[Files[i].path] \cap Named[Files[j].path] = {}
        /\ Len(Files[i].fragments) > 0
        /\ Content(Files[i]) # <<>>

\* What the volume holds tells whether a file has been written.
ASSUME NewFilesAssumption ==
    \A i \in 1 .. Len(Files) : \A n \in Named[Files[i].path] :
        Overwrite(Disk0[n], Content(Files[i])) # Disk0[n]

VARIABLES
    greeted,   \* the server has heard an advertisement
    serving,   \* the file it is sending, Len(Files) + 1 when all are sent
    awaiting,  \* the fragment it wants acknowledged, -1 for CMD_FILE_SEND_INIT
    asked      \* history: it has sent CMD_FWSETUP

progress   == <<greeted, serving, awaiting>>
serverVars == <<progress, asked>>
sysVars    == <<allVars, serverVars>>

SysInit ==
    /\ StackInit
    /\ greeted = FALSE
    /\ serving = 1
    /\ awaiting = -1
    /\ asked = FALSE

AllSent == serving > Len(Files)

InitMessage(f) ==
    [cmd |-> "CMD_FILE_SEND_INIT",
     file_info |-> [file_size |-> Len(Content(f)), path |-> f.path]]

FragmentMessage(f, k) ==
    [cmd |-> "CMD_FILE_FRAGMENT", fragment_id |-> k, data |-> f.fragments[k + 1]]

ServerMessage ==
    IF AllSent THEN [cmd |-> "CMD_BOOT"]
    ELSE IF awaiting = -1 THEN InitMessage(Files[serving])
    ELSE FragmentMessage(Files[serving], awaiting)

ServerFrame(m) ==
    [valid |-> TRUE, mac |-> Mac(Server), src |-> Server, dst |-> LinkLocal,
     body |-> [kind |-> "udp", port |-> NetbootPort, msg |-> m]]

\* Sent once, or again because no acknowledgement came in time.
ServerSend(m) ==
    /\ greeted
    /\ Arrive(ServerFrame(m))
    /\ UNCHANGED serverVars

ServerRequest ==
    \E c \in Requests :
        /\ greeted
        /\ Arrive(ServerFrame([cmd |-> c]))
        /\ asked' = (asked \/ c = "CMD_FWSETUP")
        /\ UNCHANGED progress

BystanderSend ==
    /\ \E f \in Bystander : Arrive(f)
    /\ UNCHANGED serverVars

Acknowledged(p) ==
    /\ p.cmd = "CMD_ACK" /\ ~AllSent
    /\ \/ p.type = "CMD_FILE_SEND_INIT" /\ awaiting = -1
       \/ p.type = "CMD_FILE_FRAGMENT" /\ p.file_fragment = awaiting

\* The next frame off the link; the server looks at what is addressed to it.
ServerReceive ==
    /\ Leave
    /\ LET f == Head(tx) IN
       IF f.mac \notin {Mac(Server), Mac(AllNodes)} THEN UNCHANGED serverVars
       ELSE /\ greeted' = (greeted \/ f.payload.cmd = "CMD_ADVERTISE")
            /\ UNCHANGED asked
            /\ IF Acknowledged(f.payload)
                 THEN IF awaiting + 1 = Len(Files[serving].fragments)
                        THEN serving' = serving + 1 /\ awaiting' = -1
                        ELSE awaiting' = awaiting + 1 /\ UNCHANGED serving
                 ELSE UNCHANGED <<serving, awaiting>>

ServerSends ==
    \/ ServerSend(ServerMessage)
    \/ ServerSend([cmd |-> "CMD_STOP_ADVERTISING"])

SysNext ==
    \/ LoaderStep /\ UNCHANGED serverVars
    \/ ServerSends
    \/ ServerRequest
    \/ BystanderSend
    \/ ServerReceive

SysSpec == SysInit /\ [][SysNext]_sysVars

\* The poll loop runs, GetStatus does not fail for ever, and a message that is
\* sent again and again gets through once: the server's, an advertisement, and
\* the answer to a repeated command.  The server also asks the loader to stop
\* advertising, so that advertisements do not take every buffer for ever.
SysFairSpec ==
    /\ SysSpec
    /\ WF_sysVars(net_open /\ UNCHANGED serverVars)
    /\ WF_sysVars(PollAdvertise /\ UNCHANGED serverVars)
    /\ WF_sysVars((Reclaim \/ NothingToReclaim \/ GetStatusFails) /\ UNCHANGED serverVars)
    /\ WF_sysVars((PollReceive \/ NotReady) /\ UNCHANGED serverVars)
    /\ WF_sysVars(PollWrite /\ UNCHANGED serverVars)
    /\ WF_sysVars(net_close /\ UNCHANGED serverVars)
    /\ WF_sysVars(TimerExpires /\ UNCHANGED serverVars)
    /\ SF_sysVars(Reclaim /\ UNCHANGED serverVars)
    /\ SF_sysVars((Reclaim \/ NothingToReclaim) /\ UNCHANGED serverVars)
    /\ SF_sysVars(PollReceive /\ UNCHANGED serverVars)
    /\ SF_sysVars(PollReceive /\ tx' # tx /\ UNCHANGED serverVars)
    /\ SF_sysVars(PollAdvertise /\ tx' # tx /\ UNCHANGED serverVars)
    /\ SF_sysVars(ServerSend(ServerMessage))
    /\ SF_sysVars(ServerSend([cmd |-> "CMD_STOP_ADVERTISING"]))
    /\ WF_sysVars(ServerReceive)

-----------------------------------------------------------------------------
\* What file i looks like once written, by the names it may get: its content
\* laid over the file that was there, of which a longer tail stays.
Served == [i \in 1 .. Len(Files) |->
    [n \in Named[Files[i].path] |-> Overwrite(Disk0[n], Content(Files[i]))]]

Delivered(i) == \E n \in DOMAIN Served[i] : disk[n] = Served[i][n]

\* The loader still runs, or ended at the server's request.
NotFailed == power \notin {"exited", "undefined"}

\* The acknowledgement of the last fragment is sent before the file is written,
\* so the server may be ahead of the volume, but by no more than the file that
\* the handler is about to write: every other file all of whose fragments were
\* acknowledged has been written, unless a firmware call failed for the loader.
AcknowledgedMeansWritten ==
    NotFailed => \A i \in 1 .. Len(Files) :
        i < serving => Delivered(i) \/ (writing /\ i = serving - 1)

\* A file on the volume is the old one or has the new content laid over it,
\* never a mixture of fragments of two files, repeated fragments or unwritten
\* memory, also when a reset, a shutdown or CMD_FWSETUP ends the exchange in
\* mid-transfer, or file_buffer could not be allocated.
VolumeIntact ==
    NotFailed =>
        \A i \in 1 .. Len(Files) : \A n \in DOMAIN Served[i] :
            disk[n] \in {Disk0[n], Served[i][n]}

\* Names that resemble the path of a file.
NamesOfFiles == {n \in Names : \E i \in 1 .. Len(Files) : Resembles(n, Files[i].path)}

\* A file the loader has written has a name with a character for each one of the
\* path the server gave, the same where it is ASCII: the characters that are not
\* uefi_to_ucs2 converts to something else, since it reads their octets from the
\* wrong place.  A name may end early, but only where the path has a character
\* that starts with 224 (0xE0), which may become the terminator.
NamesOnVolume == \A n \in DOMAIN disk : disk[n] # Disk0[n] => n \in NamesOfFiles

\* No fragment is copied outside the buffer allocated for its file, although
\* the handler checks neither data_len nor the remaining space.  A buffer that
\* could not be allocated stays NULL.
NoOverrun == InTransfer => Len(file_buffer) \in {file_info.file_size, 0}

\* What the loader received is a prefix of the file the server is sending, or,
\* while the handler writes, all of that file or of the one before it.
PrefixOfServedFile ==
    InTransfer /\ Running =>
        \E i \in {serving, IF writing THEN serving - 1 ELSE serving} \cap 1 .. Len(Files) :
            /\ file_info = InitMessage(Files[i]).file_info
            /\ i = serving /\ awaiting # -1 =>
                  file_packets_transferred \in {awaiting, awaiting + 1}
            /\ file_bytes_transferred <= Len(file_buffer)
            /\ SubSeq(file_buffer, 1, file_bytes_transferred)
                 = SubSeq(Content(Files[i]), 1, file_bytes_transferred)

\* Seen from the volume, the whole exchange is FileDelivery.
Outcome ==
    CASE ~Running      -> "abandoned"
      [] pc = "kernel" -> "booted"
      [] OTHER         -> "loading"

Delivery == INSTANCE FileDelivery WITH
    FileCount <- Len(Files),
    delivered <- {i \in 1 .. Len(Files) : Delivered(i)},
    outcome   <- Outcome
DeliverySpec == Delivery!Spec

\* The server waits for the acknowledgement of the last fragment of a file that
\* is already on the volume; the idle handler ignores further fragments.
LastAckLost ==
    /\ ~AllSent /\ awaiting + 1 = Len(Files[serving].fragments)
    /\ ~InTransfer /\ Delivered(serving)

\* With nobody else on the link, a loader that does not fail boots the kernel,
\* or stops making progress for this one reason: the acknowledgement of the
\* last fragment of a file was lost, and the handler will not repeat it.
BootsUnlessLastAckLost ==
    \/ <>[](~Running \/ pc = "kernel")
    \/ <>[]LastAckLost
=============================================================================
