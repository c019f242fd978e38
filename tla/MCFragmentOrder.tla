-------------------------- MODULE MCFragmentOrder --------------------------
(* One file of four fragments, replacing a longer one, every command.  The *)
(* last character of its path is not ASCII, so that its name depends on    *)
(* memory behind the path.                                                 *)
EXTENDS FragmentOrder

MCByte   == 1 .. 9
MCPath   == <<107, 195, 182>>
MCPaths  == {MCPath}
MCBeyond == {<<0, 0>>, <<166, 0>>}
MCNames  == {UpToZero(uefi_to_ucs2(MCPath, b)) : b \in MCBeyond} \cup {<<107, 246>>}
MCDisk0  == [p \in MCNames |-> <<9, 9, 9, 9, 9, 9, 9>>]
MCFile   == <<1, 2, 3, 4, 5, 6>>
MCBounds == [i \in 0 .. 4 |-> CASE i < 3 -> 2 * i [] i = 3 -> 5 [] i = 4 -> 6]

MCMessages ==
    {[cmd |-> "CMD_FILE_FRAGMENT", fragment_id |-> i,
      data |-> SubSeq(MCFile, MCBounds[i] + 1, MCBounds[i + 1])] : i \in 0 .. 3}
    \cup {[cmd |-> "CMD_FILE_SEND_INIT",
           file_info |-> [file_size |-> Len(MCFile), path |-> MCPath]]}
    \cup {[cmd |-> c] : c \in Commands \ {"CMD_FILE_SEND_INIT", "CMD_FILE_FRAGMENT"}}
=============================================================================
