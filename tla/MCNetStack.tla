----------------------------- MODULE MCNetStack -----------------------------
(* The poll loop for TLC: a host that sends netboot commands, a bystander  *)
(* that sends everything else, and a sender without an address.            *)
EXTENDS NetStack

MCByte  == {1}
MCPaths == {<<107>>}
MCBeyond == {<<0, 0>>}
MCNames == {<<107>>}
MCDisk0 == [n \in MCNames |-> <<>>]

MCMessages ==
    {[cmd |-> "CMD_FILE_SEND_INIT", file_info |-> [file_size |-> 1, path |-> <<107>>]],
     [cmd |-> "CMD_FILE_FRAGMENT", fragment_id |-> 0, data |-> <<1>>],
     [cmd |-> "CMD_STOP_ADVERTISING"], [cmd |-> "CMD_BOOT"]}

Frame(src, dst, body) ==
    [valid |-> TRUE, mac |-> Mac(src), src |-> src, dst |-> dst, body |-> body]

MCFrames ==
    {Frame("server", "ll", [kind |-> "udp", port |-> 57777, msg |-> m]) : m \in MCMessages}
    \cup {Frame("other", d, [kind |-> "solicitation", accepted |-> a]) :
             d \in {"ll", "elsewhere"}, a \in BOOLEAN}
    \cup {Frame("other", "all", [kind |-> "none"]),
          Frame("other", "ll", [kind |-> "udp", port |-> 53, msg |-> [cmd |-> "CMD_BOOT"]]),
          [Frame("::", "snm", [kind |-> "echo"]) EXCEPT !.mac = Mac("other")],
          [Frame("other", "ll", [kind |-> "none"]) EXCEPT !.valid = FALSE]}
=============================================================================
