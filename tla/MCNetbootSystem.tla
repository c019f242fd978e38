-------------------------- MODULE MCNetbootSystem --------------------------
(* Two files, the first of two fragments and shorter than the file it      *)
(* replaces, the second of one and with characters of one, two and three   *)
(* octets in its path, one of which may become the terminator; a bystander *)
(* that provokes answers.                                                  *)
EXTENDS NetbootSystem

MCByte  == 1 .. 9
Kernel  == <<107, 101>>
Module  == <<195, 182, 226, 130, 172, 224, 164, 133, 109>>
MCPaths == {Kernel, Module}
MCBeyond == {<<0, 0>>, <<166, 0>>}
MCNames == {UpToZero(uefi_to_ucs2(p, b)) : p \in MCPaths, b \in MCBeyond} \cup {<<107, 109>>}
MCDisk0 == [n \in MCNames |-> IF n = Kernel THEN <<9, 9, 9, 9>> ELSE <<>>]
MCFiles == << [path |-> Kernel, fragments |-> <<<<1, 2>>, <<3>>>>],
              [path |-> Module, fragments |-> <<<<4>>>>] >>

MCMessages ==
    {InitMessage(MCFiles[i]) : i \in 1 .. 2}
    \cup {FragmentMessage(MCFiles[1], k) : k \in 0 .. 1}
    \cup {FragmentMessage(MCFiles[2], 0)}
    \cup {[cmd |-> c] : c \in {"CMD_BOOT", "CMD_STOP_ADVERTISING"} \cup Requests}

MCBystander ==
    {[valid |-> TRUE, mac |-> Mac("other"), src |-> "other", dst |-> LinkLocal,
      body |-> [kind |-> "echo"]]}

MCFrames == {ServerFrame(m) : m \in MCMessages} \cup MCBystander
=============================================================================
