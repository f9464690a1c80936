--------------------------- MODULE MCCommandQueue ---------------------------
(* Small instances of CommandQueue for TLC. *)
EXTENDS CommandQueue, TLC

\* Devices, owners, keys, payloads and statuses are interchangeable.
Symmetry == Permutations(Devices) \cup Permutations(Owners) \cup
            Permutations(Keys) \cup Permutations(Payloads) \cup
            Permutations(Statuses)
=============================================================================
