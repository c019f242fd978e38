----------------------------- MODULE MCNetOpen -----------------------------
(* Four handles: two devices whose paths begin alike, a third one without  *)
(* a path, and a second handle of the first device.  The payloads have odd *)
(* and even lengths, and sums that carry once, twice and not at all.       *)
(* Of every message of the loader that takes arguments there is one, and   *)
(* one for each part of the grammar of formats.                            *)
EXTENDS NetStart

MCPath ==
    << <<1, 2, 3, 4>>, <<1, 2, 5, 6>>, <<7>>, <<1, 2, 3, 4, 8>> >>
MCDevice  == <<"a", "b", "c", "a">>
MCFilters == <<2, 0, 1, 9>>
MCCurrentAddress ==
    << <<82, 84, 0, 18, 52, 86>>, <<0, 27, 33, 170, 187, 204>>,
       <<2, 0, 0, 0, 0, 1>>, <<255, 254, 253, 252, 251, 250>> >>
MCRemotes ==
    { [mac |-> Zeros(6), ip |-> NoAddress],
      [mac |-> <<82, 84, 0, 255, 255, 255>>,
       ip  |-> <<254, 128, 0, 0, 0, 0, 0, 0, 80, 84, 0, 255, 254, 255, 255, 255>>] }
MCMessages == { <<0, 0, 0, 0, 0, 0, 0, 0, 16, 0, 0, 0, 0, 0, 0, 0>>,
                <<7, 0, 0, 0, 0, 0, 182, 40>>, <<7, 0, 0, 0, 0, 0, 180, 40>> }
              \cup {<<7, 0, 0, 0, a, a, a, b>> : a \in {0, 255}, b \in {1, 255}}
MCEchoRequests ==
    {<<128, 0, 18, 52, a, b>> : a \in {0, 255}, b \in {0, 90}}
    \cup {<<128, 0, 0, 0, 255, 255, a>> : a \in {0, 171, 255}}

Text(s)      == [spec |-> s, args |-> <<>>]
Conv(s, a)   == [spec |-> <<"%">> \o s, args |-> a]
Zu(v)        == Conv(<<"z", "u">>, <<v>>)
Str(s)       == Conv(<<"s">>, <<s>>)
NewLine      == Text(<<"\n">>)
MCReports ==
    {<<Text(<<"r", " ">>), Zu(v), NewLine>> : v \in {0, 9, 10, 14, 255, 100000}}
    \cup
    { <<Text(<<"(">>), Zu(7), Text(<<")", " ">>), Zu(1400), Text(<<" ">>), Zu(1024), NewLine>>,
      <<Text(<<"E", " ">>), Str(<<"N", "O">>), Text(<<" ", "@", " ">>), Str(<<"n", ".", "c">>),
        Text(<<":">>), Conv(<<"d">>, <<65>>), NewLine>>,
      <<Text(<<"9", "%", "%">>), NewLine>>,
      <<Text(<<"a">>), Conv(<<"q">>, <<>>), Text(<<" ">>), Zu(3), NewLine>>,
      <<Conv(<<"L", "u">>, <<>>), Zu(3), Text(<<"%", "%">>), Text(<<"%">>)>> }
    \cup
    {<<Text(<<"[">>), c, Zu(10), Text(<<"]">>)>> : c \in
        { Conv(<<"5", "d">>, <<-7>>),          Conv(<<"0", "5", "d">>, <<-7>>),
          Conv(<<"-", "5", "u">>, <<42>>),     Conv(<<"-", "0", "5", "i">>, <<42>>),
          Conv(<<"+", "d">>, <<8>>),           Conv(<<" ", "l", "d">>, <<8>>),
          Conv(<<"#", "x">>, <<255>>),         Conv(<<"#", "X">>, <<16>>),
          Conv(<<"#", "o">>, <<8>>),           Conv(<<"p">>, <<4096>>),
          Conv(<<".", "3", "u">>, <<7>>),      Conv(<<"6", ".", "2", "d">>, <<-100>>),
          Conv(<<"*", "l", "l", "u">>, <<4, 10>>), Conv(<<"1", "0", "h", "h", "u">>, <<1>>),
          Conv(<<".", "1", "s">>, << <<"a", "b">> >>), Conv(<<"c">>, <<"z">>),
          Conv(<<"5", "%">>, <<>>) }}
=============================================================================
