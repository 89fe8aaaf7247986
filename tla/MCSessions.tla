------------------------------- MODULE MCSessions -------------------------------
(* The instance of Sessions that TLC checks. *)
EXTENDS Sessions

Name == <<3, 4>>
LongName == [i \in 1..(Max8 - 1) |-> 2]
TooLongName == [i \in 1..B |-> 2]
Info(n, c) == <<n, 9876, 45, <<5>>, c>>

MCRequests ==
    {[kind |-> AddKind, vals |-> <<Name, 1234, 97>>],
     [kind |-> AddKind, vals |-> <<LongName, 0, 5>>],
     [kind |-> RemoveKind, vals |-> <<TooLongName>>],
     [kind |-> RemoveKind, vals |-> <<LongName>>],
     [kind |-> ListKind, vals |-> <<>>],
     [kind |-> ResetKind, vals |-> <<<<>>>>]}

MCPaths == {<<6, 7>>}
MCInfos == {<<0>>, <<1>> \o Info(Name, 1), <<2>> \o Info(Name, 0) \o Info(<<>>, 1)}

MCHostMessages ==
    {DataMessage(<<9, 1>>), DataMessage(<<>>),
     [kind |-> ConfigKind, vals |-> <<9600, 8, 1, 2, 1>>],
     [kind |-> ControlReqKind, vals |-> <<1>>]}

\* One input fills more than a message.
MCInputs == {<<4, 1>>, [i \in 1..B |-> 8]}

===============================================================================
