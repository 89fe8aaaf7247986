------------------------------- MODULE MCBridge -------------------------------
(* The instances of Bridge that TLC checks. *)
EXTENDS Bridge

Fresh == [ispeed |-> 38400, csize |-> "CS8", parenb |-> FALSE, parodd |-> FALSE,
          cstopb |-> FALSE, crtscts |-> FALSE, rest |-> 0]

\* A fresh terminal's settings, a change of the stop bits alone, and one of a
\* flag that is not reported.
MCLines == {Fresh, [Fresh EXCEPT !.cstopb = TRUE], [Fresh EXCEPT !.rest = 1]}

===============================================================================
