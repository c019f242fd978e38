-------------------------- MODULE IoReconnectProofs --------------------------
(***************************************************************************)
(* uefi_io_reconnect for any number of handles: the second list agrees     *)
(* with the first at every index the loop uses.                            *)
(***************************************************************************)
EXTENDS IoReconnect, TLAPS, SequenceTheorems, FiniteSetTheorems

Kinds == {{}, {"path"}, {"image", "path"}, {"driver"}}

\* The handles the loop is done with.
Handled == {all_handle_buffer[k] : k \in 1 .. i - 1}

\* The first list is a prefix of the firmware's, which parents are in as well.
ListInv ==
    /\ database \in Seq(Handles) /\ all_handle_buffer \in Seq(Handles)
    /\ protocols \in [Handles -> Kinds]
    /\ parent \subseteq ToSet(database) \X ToSet(database)
    /\ i \in 1 .. Len(all_handle_buffer) + 1
    /\ Len(all_handle_buffer) <= Len(database)
    /\ \A k \in 1 .. Len(all_handle_buffer) : all_handle_buffer[k] = database[k]
    /\ pc = "locate" => i = 1 /\ connected = {}
    /\ connected = {h \in Handled : Root(h)}

-----------------------------------------------------------------------------
LEMMA SetOf ==
    ASSUME NEW s \in Seq(Handles)
    PROVE  /\ ToSet(s) = {s[k] : k \in 1 .. Len(s)}
           /\ ToSet(s) \subseteq Handles
    BY DEF ToSet

LEMMA HandledIsPrefix ==
    ASSUME ListInv
    PROVE  /\ ToSet(SubSeq(all_handle_buffer, 1, i - 1)) = Handled
           /\ Handled \subseteq ToSet(database)
<1> DEFINE s == SubSeq(all_handle_buffer, 1, i - 1)
<1>1. /\ i \in Nat \ {0} /\ i - 1 \in Nat /\ i - 1 <= Len(all_handle_buffer)
      /\ Len(all_handle_buffer) \in Nat /\ Len(database) \in Nat
      /\ Len(all_handle_buffer) <= Len(database)
      /\ database \in Seq(Handles)
    BY DEF ListInv
<1>2. \A k \in 1 .. i - 1 : all_handle_buffer[k] \in Handles
    BY <1>1 DEF ListInv
<1>3. s \in Seq(Handles) /\ Len(s) = i - 1 /\ \A k \in 1 .. i - 1 : s[k] = all_handle_buffer[k]
    BY <1>1, <1>2, SubSeqProperties
<1>4. \A k \in 1 .. i - 1 : k \in 1 .. Len(database) /\ all_handle_buffer[k] = database[k]
    BY <1>1 DEF ListInv
<1> HIDE DEF s
<1>5. ToSet(s) = Handled
    BY <1>3, SetOf DEF Handled
<1>6. Handled \subseteq ToSet(database)
    BY <1>1, <1>4, SetOf DEF Handled
<1> QED
    BY <1>5, <1>6 DEF s

LEMMA ListInit == Init => ListInv
<1> SUFFICES ASSUME Init PROVE ListInv
    OBVIOUS
<1> DEFINE all == SetToSeq(Handles)
<1>1. Cardinality(Handles) \in Nat /\ ExistsBijection(1 .. Cardinality(Handles), Handles)
    BY HandlesAssumption, FS_CardinalityType
<1>2. \E f \in [1 .. Cardinality(Handles) -> Handles] : IsInjective(f)
    BY <1>1 DEF ExistsBijection, Bijection, Injection, IsInjective
<1>3. all \in [1 .. Cardinality(Handles) -> Handles]
    BY <1>2 DEF SetToSeq
<1>4. PICK n \in 1 .. Cardinality(Handles) : database = SubSeq(all, 1, n)
    BY DEF Init
<1> HIDE DEF all
<1>5. database \in Seq(Handles)
    BY <1>1, <1>3, <1>4, SubSeqProperties
<1>6. parent \subseteq ToSet(database) \X ToSet(database)
    BY DEF Init
<1>7. i = 1 /\ all_handle_buffer = <<>> /\ connected = {} /\ protocols \in [Handles -> Kinds]
    BY DEF Init, Kinds
<1>8. Handled = {}
    BY <1>7 DEF Handled
<1>9. all_handle_buffer \in Seq(Handles) /\ Len(all_handle_buffer) = 0
    BY <1>7
<1>10. Len(database) \in Nat
    BY <1>5
<1> QED
    BY <1>5, <1>6, <1>7, <1>8, <1>9, <1>10 DEF ListInv

\* New handles at the end of the database, as children of known ones, disturb
\* neither the agreement of the lists nor what a known handle is.
LEMMA CreatedKeeps ==
    ASSUME ListInv, NEW h \in SUBSET ToSet(database), NEW new \in News, Created(h, new),
           UNCHANGED <<protocols, all_handle_buffer>>
    PROVE  /\ database' \in Seq(Handles)
           /\ parent' \subseteq ToSet(database') \X ToSet(database')
           /\ Len(all_handle_buffer) <= Len(database')
           /\ \A k \in 1 .. Len(all_handle_buffer) : all_handle_buffer[k] = database'[k]
           /\ \A g \in ToSet(database) : Root(g)' <=> Root(g)
<1>1. database \in Seq(Handles) /\ new \in Seq(Handles) /\ Len(database) \in Nat /\ Len(new) \in Nat
    <2>1. new = <<>> \/ \E x \in Handles : new = <<x>>
        BY DEF News
    <2>2. <<>> \in Seq(Handles) /\ \A x \in Handles : <<x>> \in Seq(Handles)
        OBVIOUS
    <2>3. new \in Seq(Handles)
        BY <2>1, <2>2, Zenon
    <2> QED
        BY <2>3 DEF ListInv
<1>2. ToSet(new) \cap ToSet(database) = {}
    <2>1. CASE new = <<>>
        BY <2>1 DEF ToSet
    <2>2. CASE new # <<>>
        <3>1. PICK x \in Handles \ ToSet(database) : new = <<x>>
            BY <2>2 DEF News
        <3>2. ToSet(new) = {x}
            BY <3>1 DEF ToSet
        <3> QED
            BY <3>1, <3>2
    <2> QED
        BY <2>1, <2>2
<1>3. /\ database' \in Seq(Handles)
      /\ Len(database') = Len(database) + Len(new)
      /\ \A k \in 1 .. Len(database) + Len(new) :
            database'[k] = IF k <= Len(database) THEN database[k] ELSE new[k - Len(database)]
    BY <1>1, ConcatProperties DEF Created
<1>4. ToSet(database) \subseteq ToSet(database')
    <2>1. \A k \in 1 .. Len(database) : database'[k] = database[k] /\ k \in 1 .. Len(database')
        BY <1>1, <1>3
    <2> QED
        BY <1>1, <1>3, <2>1, SetOf
<1>5. ToSet(new) \subseteq ToSet(database')
    <2>1. \A k \in 1 .. Len(new) :
             /\ k + Len(database) \in 1 .. Len(database')
             /\ database'[k + Len(database)] = new[k]
        BY <1>1, <1>3
    <2>2. ToSet(database') = {database'[k] : k \in 1 .. Len(database')}
        BY <1>3, SetOf
    <2>3. ToSet(new) = {new[k] : k \in 1 .. Len(new)}
        BY <1>1, SetOf
    <2> QED
        BY <2>1, <2>2, <2>3
<1>6. parent' = parent \cup (ToSet(new) \X h) /\ parent \subseteq ToSet(database) \X ToSet(database)
    BY DEF Created, ListInv
<1>7. parent' \subseteq ToSet(database') \X ToSet(database')
    BY <1>4, <1>5, <1>6
<1>8. Len(all_handle_buffer) \in Nat /\ Len(all_handle_buffer) <= Len(database)
    BY DEF ListInv
<1>9. \A k \in 1 .. Len(all_handle_buffer) : all_handle_buffer[k] = database'[k]
    <2>1. \A k \in 1 .. Len(all_handle_buffer) :
             k \in 1 .. Len(database) /\ all_handle_buffer[k] = database[k]
        BY <1>1, <1>8 DEF ListInv
    <2> QED
        BY <1>1, <1>3, <2>1
<1>10. ASSUME NEW g \in ToSet(database) PROVE Root(g)' <=> Root(g)
    <2>1. \A p \in Handles : <<g, p>> \in parent' <=> <<g, p>> \in parent
        BY <1>2, <1>6
    <2> QED
        BY <2>1 DEF Root
<1> QED
    BY <1>1, <1>3, <1>7, <1>8, <1>9, <1>10

\* The types at index i are those of the handle at index i of the first list.
LEMMA EligibleIsRoot ==
    ASSUME ListInv, i <= Len(all_handle_buffer)
    PROVE  LET h == all_handle_buffer[i]
           IN  /\ h \in ToSet(database)
               /\ Eligible(uefi_io_parse_handles(h)) <=> Root(h)
<1> DEFINE h == all_handle_buffer[i]
           types == uefi_io_parse_handles(h)
<1>1. i \in 1 .. Len(database) /\ h = database[i] /\ database \in Seq(Handles)
    BY DEF ListInv
<1>2. h \in Handles /\ h \in ToSet(database) /\ DOMAIN database = 1 .. Len(database)
    BY <1>1, SetOf
<1>3. \A k \in 1 .. Len(database) :
         types[k] = protocols[database[k]] \cup
                    (IF <<h, database[k]>> \in parent THEN {"parent"} ELSE {})
    BY <1>2 DEF uefi_io_parse_handles
<1>4. DOMAIN types = 1 .. Len(database)
    BY <1>2 DEF uefi_io_parse_handles
<1> HIDE DEF types, h
<1>5. \A k \in 1 .. Len(database) : database[k] \in Handles /\ "parent" \notin protocols[database[k]]
    <2>1. \A k \in 1 .. Len(database) : database[k] \in Handles
        BY <1>1
    <2>2. \A x \in Handles : protocols[x] \in Kinds
        BY DEF ListInv
    <2>3. \A x \in Kinds : "parent" \notin x
        BY DEF Kinds
    <2> QED
        BY <2>1, <2>2, <2>3
<1>6. \A k \in 1 .. Len(database) : "parent" \in types[k] <=> <<h, database[k]>> \in parent
    BY <1>3, <1>5
<1>7. \A x : x # "parent" => (x \in types[i] <=> x \in protocols[h])
    BY <1>1, <1>3, Zenon
<1>8. /\ types[i] \cap {"driver", "image"} = protocols[h] \cap {"driver", "image"}
      /\ "path" \in types[i] <=> "path" \in protocols[h]
    <2>1. "driver" # "parent" /\ "image" # "parent" /\ "path" # "parent"
        OBVIOUS
    <2> QED
        BY <1>7, <2>1, Zenon
<1>9. (\A k \in 1 .. Len(database) : <<h, database[k]>> \notin parent)
        <=> (\A p \in Handles : <<h, p>> \notin parent)
    <2>1. parent \subseteq ToSet(database) \X ToSet(database)
        BY DEF ListInv
    <2>2. ToSet(database) = {database[k] : k \in 1 .. Len(database)}
        BY <1>1, SetOf
    <2> QED
        BY <1>5, <2>1, <2>2
<1>10. Eligible(types) <=> Root(h)
    BY <1>4, <1>6, <1>8, <1>9, Zenon DEF Eligible, Root
<1> QED
    BY <1>2, <1>10 DEF types, h

\* One turn adds the handle at index i to those done with, and connects it if
\* it is a root.
LEMMA TurnKeeps == ListInv /\ Turn => ListInv'
<1> SUFFICES ASSUME ListInv, Turn PROVE ListInv'
    OBVIOUS
<1> DEFINE h == all_handle_buffer[i]
<1>1. /\ i <= Len(all_handle_buffer) /\ i' = i + 1 /\ pc = "loop" /\ pc' = pc
      /\ UNCHANGED <<protocols, all_handle_buffer>>
    BY DEF Turn
<1>2. h \in ToSet(database) /\ (Eligible(uefi_io_parse_handles(h)) <=> Root(h))
    BY <1>1, EligibleIsRoot
<1>3. /\ database' \in Seq(Handles)
      /\ parent' \subseteq ToSet(database') \X ToSet(database')
      /\ Len(all_handle_buffer) <= Len(database')
      /\ \A k \in 1 .. Len(all_handle_buffer) : all_handle_buffer[k] = database'[k]
      /\ \A g \in ToSet(database) : Root(g)' <=> Root(g)
    <2>1. CASE Eligible(uefi_io_parse_handles(h))
        <3>1. PICK new \in News : Created({h}, new)
            BY <2>1 DEF Turn
        <3>2. {h} \in SUBSET ToSet(database)
            BY <1>2
        <3> QED
            BY <1>1, <3>1, <3>2, CreatedKeeps
    <2>2. CASE ~Eligible(uefi_io_parse_handles(h))
        <3>1. UNCHANGED <<database, parent>>
            BY <2>2 DEF Turn
        <3> QED
            BY <1>1, <3>1 DEF ListInv, Root
    <2> QED
        BY <2>1, <2>2
<1>4. Handled' = Handled \cup {h}
    <2>1. i \in Nat \ {0}
        BY DEF ListInv
    <2>2. 1 .. i' - 1 = (1 .. i - 1) \cup {i}
        BY <1>1, <2>1
    <2> QED
        BY <1>1, <2>2 DEF Handled
<1>5. Handled' \subseteq ToSet(database)
    BY <1>2, <1>4, HandledIsPrefix
<1>6. connected' = {g \in Handled' : Root(g)'}
    <2>1. connected = {g \in Handled : Root(g)}
        BY DEF ListInv
    <2>2. connected' = IF Root(h) THEN connected \cup {h} ELSE connected
        BY <1>2 DEF Turn
    <2>3. {g \in Handled' : Root(g)'} = {g \in Handled' : Root(g)}
        BY <1>3, <1>5
    <2> HIDE DEF h
    <2> QED
        BY <1>4, <2>1, <2>2, <2>3
<1>7. i' \in 1 .. Len(all_handle_buffer) + 1
    BY <1>1 DEF ListInv
<1> QED
    BY <1>1, <1>3, <1>6, <1>7 DEF ListInv

\* uefi_io_reconnect connects the roots among the handles of its first list and
\* no others, whatever handles ConnectController and event handlers create
\* before the list that decides is taken.
THEOREM RootsConnected == Spec => []ConnectsTheRoots
<1>1. ListInv /\ [Next]_vars => ListInv'
    <2> SUFFICES ASSUME ListInv, [Next]_vars PROVE ListInv'
        OBVIOUS
    <2>1. CASE HotPlug
        <3>1. PICK new \in News : Created({}, new)
            BY <2>1 DEF HotPlug
        <3>2. UNCHANGED <<pc, protocols, all_handle_buffer, i, connected>>
            BY <2>1 DEF HotPlug
        <3>3. /\ database' \in Seq(Handles)
              /\ parent' \subseteq ToSet(database') \X ToSet(database')
              /\ Len(all_handle_buffer) <= Len(database')
              /\ \A k \in 1 .. Len(all_handle_buffer) : all_handle_buffer[k] = database'[k]
              /\ \A g \in ToSet(database) : Root(g)' <=> Root(g)
            BY <3>1, <3>2, CreatedKeeps
        <3>4. Handled' = Handled
            BY <3>2 DEF Handled
        <3>5. connected' = {g \in Handled' : Root(g)'}
            BY <3>2, <3>3, <3>4, HandledIsPrefix DEF ListInv
        <3> QED
            BY <3>2, <3>3, <3>5 DEF ListInv
    <2>2. CASE LocateHandleBuffer
        <3>1. /\ pc = "locate" /\ pc' = "loop" /\ all_handle_buffer' = database
              /\ UNCHANGED <<database, protocols, parent, i, connected>>
            BY <2>2 DEF LocateHandleBuffer
        <3>2. i = 1 /\ connected = {} /\ database \in Seq(Handles)
            BY <3>1 DEF ListInv
        <3>3. Handled' = {}
            BY <3>1, <3>2 DEF Handled
        <3>4. Len(database) \in Nat
            BY <3>2
        <3>5. connected' = {g \in Handled' : Root(g)'}
            BY <3>1, <3>2, <3>3
        <3>6. i' \in 1 .. Len(all_handle_buffer') + 1
            BY <3>1, <3>2, <3>4
        <3> QED
            BY <3>1, <3>2, <3>4, <3>5, <3>6 DEF ListInv
    <2>3. CASE EFIERR \/ Done \/ UNCHANGED vars
        <3>1. /\ UNCHANGED <<database, protocols, parent, all_handle_buffer, i, connected>>
              /\ pc' = "locate" => pc = "locate"
            BY <2>3 DEF EFIERR, Done, vars
        <3>2. Handled' = Handled /\ \A h \in Handled : Root(h)' <=> Root(h)
            BY <3>1 DEF Handled, Root
        <3>3. connected' = {h \in Handled' : Root(h)'}
            BY <3>1, <3>2 DEF ListInv
        <3> QED
            BY <3>1, <3>3 DEF ListInv
    <2> QED
        BY <2>1, <2>2, <2>3, TurnKeeps DEF Next
<1>2. ListInv => ConnectsTheRoots
    BY HandledIsPrefix DEF ListInv, ConnectsTheRoots
<1> QED
    BY ListInit, <1>1, <1>2, PTL DEF Spec
=============================================================================
