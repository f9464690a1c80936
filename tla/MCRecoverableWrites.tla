------------------------ MODULE MCRecoverableWrites -------------------------
(* A small instance of the commands that keep a record on disk, for TLC. *)
EXTENDS RecoverableWrites, TLC

CONSTANTS o1

\* Documents saved with a preset, to be loaded.
OneSaved == {<<[id |-> "a", title |-> "x"]>>}

\* Six commands on the configuration: two of favorites on one preset, a power
\* binding, a group, an addition and an alias.  Four of them run at the same time: the
\* two of favorites with any two of the others, or the others.
SixKinds == [u \in Updates |-> CASE u \in {"a", "b"} -> "favorites" [] u = "p" -> "power"
                                  [] u = "g" -> "group" [] u = "k" -> "add" [] u = "l" -> "alias"]
SixFields == [u \in Updates |-> IF u \in {"a", "b"} THEN "preset" ELSE u]
FourAtOnce == {some \in SUBSET Updates : Cardinality(some) = 4
                                          /\ {"a", "b"} \cap some \in {{}, {"a", "b"}}}

\* Processes, keys and USB addresses are interchangeable; where an instance has fewer
\* of them, or gives them different tasks, it reaches one at most of two states that
\* differ by an exchange.
Symmetric == Permutations({r1, r2}) \cup Permutations({o1, o2})
=============================================================================
