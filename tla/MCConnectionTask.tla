-------------------------- MODULE MCConnectionTask --------------------------
(* The request sets of the small instances of ConnectionTask. *)
EXTENDS ConnectionTask

NoRequest == {}
OneReset == {1}
TwoResets == {1, 2}
OneStatus == {3}

=============================================================================
