----------------------------- MODULE IoReconnect -----------------------------
(***************************************************************************)
(* uefi_io_reconnect of uefi/io.c: once a file system driver is loaded, the *)
(* controllers at the root of the device tree are connected again.         *)
(*                                                                         *)
(* The loop runs over one list of handles and asks for a second list at    *)
(* every turn, in which it uses the same index.  In between,               *)
(* ConnectController and event handlers make new handles.                  *)
(***************************************************************************)
EXTENDS Naturals, FiniteSets, SequencesExt

CONSTANTS
    Handles      \* bound: the handles there may ever be

ASSUME HandlesAssumption == IsFiniteSet(Handles)

VARIABLES
    pc,
    database,    \* firmware: the handles, oldest first
    protocols,   \* per handle: "image", "driver", "path"
    parent,      \* firmware: pairs of a child controller and its parent
    all_handle_buffer,
    i,
    connected    \* history: handles ConnectController was called with

vars == <<pc, database, protocols, parent, all_handle_buffer, i, connected>>

Init ==
    /\ pc = "locate"
    /\ \E n \in 1 .. Cardinality(Handles) :
          database = SubSeq(SetToSeq(Handles), 1, n)
    /\ protocols \in [Handles -> {{}, {"path"}, {"image", "path"}, {"driver"}}]
    /\ parent \in {p \in SUBSET (ToSet(database) \X ToSet(database)) :
                      Cardinality(p) <= 1 /\ \A e \in p : e[1] # e[2]}
    /\ all_handle_buffer = <<>> /\ i = 1
    /\ connected = {}

\* Firmware: a new handle goes to the end of the database, as a child of h or
\* of nothing.
Created(h, new) ==
    /\ database' = database \o new
    /\ parent' = parent \cup (ToSet(new) \X h)

News == {<<>>} \cup {<<x>> : x \in Handles \ ToSet(database)}

HotPlug ==
    /\ pc = "loop"
    /\ \E new \in News \ {<<>>} : Created({}, new)
    /\ UNCHANGED <<pc, protocols, all_handle_buffer, i, connected>>

EFIERR ==
    /\ pc \in {"locate", "loop"}
    /\ pc' = "exited"
    /\ UNCHANGED <<database, protocols, parent, all_handle_buffer, i, connected>>

LocateHandleBuffer ==
    /\ pc = "locate" /\ pc' = "loop"
    /\ all_handle_buffer' = database
    /\ UNCHANGED <<database, protocols, parent, i, connected>>

\* The types of all handles of the second list, as seen from controller c.
uefi_io_parse_handles(c) ==
    [k \in DOMAIN database |->
        protocols[database[k]] \cup
        (IF <<c, database[k]>> \in parent THEN {"parent"} ELSE {})]

\* Mutant: whether the controller has a parent is not looked at.
EligibleChild(types) ==
    types[i] \cap {"driver", "image"} = {} /\ "path" \in types[i]

\* Neither driver nor image, without a parent, and a device.
Eligible(types) ==
    /\ types[i] \cap {"driver", "image"} = {}
    /\ \A k \in DOMAIN types : "parent" \notin types[k]
    /\ "path" \in types[i]

\* One turn of the loop; the status of ConnectController is not looked at.
Turn ==
    /\ pc = "loop" /\ i <= Len(all_handle_buffer)
    /\ LET h == all_handle_buffer[i] IN
       IF Eligible(uefi_io_parse_handles(h))
       THEN /\ connected' = connected \cup {h}
            /\ \E new \in News : Created({h}, new)
       ELSE UNCHANGED <<database, parent, connected>>
    /\ i' = i + 1
    /\ UNCHANGED <<pc, protocols, all_handle_buffer>>

Done ==
    /\ pc = "loop" /\ i > Len(all_handle_buffer)
    /\ pc' = "done"
    /\ UNCHANGED <<database, protocols, parent, all_handle_buffer, i, connected>>

Next == HotPlug \/ EFIERR \/ LocateHandleBuffer \/ Turn \/ Done

Spec == Init /\ [][Next]_vars

-----------------------------------------------------------------------------
Root(h) ==
    /\ protocols[h] \cap {"driver", "image"} = {} /\ "path" \in protocols[h]
    /\ \A p \in Handles : <<h, p>> \notin parent

\* uefi_io_reconnect connects the roots among the handles it was given, and no
\* other, although the types it decides by are those of a list it took later:
\* index i is the same handle in both, since handles are only added to the end.
ConnectsTheRoots ==
    connected = {h \in ToSet(SubSeq(all_handle_buffer, 1, i - 1)) : Root(h)}

=============================================================================
