---------------------------- MODULE MCGroupCommand ----------------------------
(* Small instances of GroupCommand for TLC. *)
EXTENDS GroupCommand

\* Three players; the second has an alias and a group names two of them.
Named == [a |-> 1, b |-> 2, b2 |-> 2, c |-> 3]
SavedGroups == [g |-> <<"b2", "a">>]
Overlapping == {<<"b", "g">>, <<"a">>, <<"a", "d">>}
TheNames == DOMAIN Named
=============================================================================
