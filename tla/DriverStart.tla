---------------------------- MODULE DriverStart ----------------------------
(***************************************************************************)
(* uefi_driver_start of uefi/driver.c with uefi/device-path.c: the path of *)
(* the file system driver is put together from the path of the device the  *)
(* loader came from and the driver's name, and the driver is started.      *)
(*                                                                         *)
(* A device path is the sequence of its bytes: nodes of a type, a subtype, *)
(* a 16-bit length that counts these four bytes, and data.  Offsets are    *)
(* the code's, from zero.                                                  *)
(***************************************************************************)
EXTENDS Naturals, Sequences

CONSTANT DevicePaths   \* paths the loader's device may have

DriverName    == <<98, 116, 114, 102, 115, 46, 101, 102, 105>>   \* btrfs.efi
empty_devpath == <<127, 255, 4, 0>>
HeaderSize    == 4

VARIABLE driver   \* where uefi_driver_start is, and its local variables

\* first and second are the paths to append, node is an offset in one of them.
Idle(where) ==
    [pc |-> where, first |-> <<>>, second |-> <<>>, node |-> 0,
     first_size |-> 0, devpath |-> <<>>, clobbered |-> FALSE]

DriverInit == driver = Idle("path")

At(where) == driver.pc = where

-----------------------------------------------------------------------------
uefi_devpath_get_node_length(p, node) == p[node + 3] + 256 * p[node + 4]

uefi_devpath_get_next(p, node) == node + uefi_devpath_get_node_length(p, node)

uefi_devpath_is_end(p, node) == p[node + 1] = 127 /\ p[node + 2] = 255

Readable(p, node) == node + HeaderSize <= Len(p)

uefi_devpath_set_node_length(length) ==
    <<length % 256, (length \div 256) % 256>>

\* The name as memcpy finds it, two bytes a character, with its terminator.
NameBytes(name) ==
    [b \in 1 .. 2 * (Len(name) + 1) |->
        IF b % 2 = 1 /\ b \div 2 < Len(name) THEN name[b \div 2 + 1] ELSE 0]

\* Mutant: the length does not count the node's header.
LengthOfName(name) == Len(NameBytes(name))

FileNodeLength(name) == Len(NameBytes(name)) + HeaderSize

\* The end node is written where uefi_devpath_get_next says.
FileNode(name) ==
    LET length == FileNodeLength(name)
        node   == <<4, 4>> \o uefi_devpath_set_node_length(length) \o NameBytes(name)
    IN SubSeq(node, 1, length) \o empty_devpath

\* The terminator is stored at index size of path_name, whose elements have two
\* bytes: past the allocation.  What is there is unknown; it may be the path p.
Clobbered(p) ==
    {p} \cup {[b \in DOMAIN p |-> IF b \in {o, o + 1} THEN 0 ELSE p[b]] : o \in 0 .. Len(p)}

uefi_devpath_from_path ==
    /\ At("path")
    /\ \/ driver' = Idle("exited")                   \* AllocatePool fails
       \/ \E p \in DevicePaths : \E first \in Clobbered(p) :
             driver' = [driver EXCEPT !.pc = "handle", !.first = first,
                                      !.second = FileNode(DriverName),
                                      !.clobbered = first # p]

\* Without either protocol the loader stays here for ever.
uefi_devpath_from_file_handle ==
    /\ At("handle")
    /\ driver' \in {[driver EXCEPT !.pc = "first"], [driver EXCEPT !.pc = "hang"]}

\* One turn of the loop of uefi_devpath_size; past the path lies anything.
Walk(p, done) ==
    driver' \in IF ~Readable(p, driver.node) THEN {[driver EXCEPT !.pc = "undefined"]}
               ELSE IF uefi_devpath_is_end(p, driver.node) THEN done
               ELSE {[driver EXCEPT !.node = uefi_devpath_get_next(p, @)]}

FirstSize ==
    /\ At("first")
    /\ Walk(driver.first,
            {[driver EXCEPT !.pc = "second", !.node = 0,
                            !.first_size = uefi_devpath_get_next(driver.first, driver.node)]})

\* second_size bytes of second, from the end node of first on.
Appended(second_size) ==
    SubSeq(driver.first, 1, driver.first_size - HeaderSize)
    \o SubSeq(driver.second, 1, second_size)

\* At the end of second, AllocatePool fails or the two are copied.
uefi_devpath_append ==
    /\ At("second")
    /\ LET second_size == uefi_devpath_get_next(driver.second, driver.node)
           inside == HeaderSize <= driver.first_size /\ driver.first_size <= Len(driver.first)
       IN Walk(driver.second,
               {Idle("exited"),
                IF inside THEN [driver EXCEPT !.pc = "load", !.devpath = Appended(second_size)]
                ELSE [driver EXCEPT !.pc = "undefined"]})

\* Firmware: the file is found under its path, which is the device's with a node
\* for the name.  What uefi_driver_start then does with the image may fail too.
LoadImage ==
    /\ At("load")
    /\ \/ driver' = Idle("exited")
       \/ driver' = Idle("done") /\ ~driver.clobbered

DriverNext ==
    \/ uefi_devpath_from_path \/ uefi_devpath_from_file_handle
    \/ FirstSize \/ uefi_devpath_append \/ LoadImage

-----------------------------------------------------------------------------
\* The nodes of a path, up to its end, by the length each one gives.
Nodes(p) ==
    LET from[o \in 0 .. Len(p)] ==
            IF ~Readable(p, o) THEN <<"no end">>
            ELSE IF uefi_devpath_is_end(p, o) THEN <<>>
            ELSE LET n == uefi_devpath_get_node_length(p, o)
                 IN IF n < HeaderSize \/ o + n > Len(p) THEN <<"no node">>
                    ELSE <<SubSeq(p, o + 1, o + n)>> \o from[o + n]
    IN from[0]

\* LoadImage is given the path it needs: the nodes of the device's path, one
\* media node that holds the whole name with its terminator, and one end node,
\* with nothing after it; unless the stray terminator of uefi_devpath_from_path
\* hit the device's path.
DriverPathRight ==
    At("load") /\ ~driver.clobbered =>
        /\ Nodes(driver.devpath) =
              Append(Nodes(driver.first),
                     <<4, 4, 24, 0, 98, 0, 116, 0, 114, 0, 102, 0, 115, 0, 46, 0,
                       101, 0, 102, 0, 105, 0, 0, 0>>)
        /\ SubSeq(driver.devpath, Len(driver.devpath) - 3, Len(driver.devpath)) = empty_devpath
        /\ Len(driver.devpath) = Len(driver.first) + 24
=============================================================================
