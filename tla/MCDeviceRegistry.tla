--------------------------- MODULE MCDeviceRegistry -------------------------
(* Small instances of DeviceRegistry for TLC. *)
EXTENDS DeviceRegistry, TLC

CONSTANTS d1, d2, s1, s2, canonical, alias

Configured(static, addresses) == [static |-> static, addresses |-> addresses]

\* One static device; its token replaced; the token moved to another device and
\* the alias removed.
Original == Configured(d1 :> s1 @@ d2 :> None, {canonical, alias})
Replacing == Configured(d1 :> s2 @@ d2 :> None, {canonical, alias})
Moving == Configured(d1 :> None @@ d2 :> s1, {canonical})

TwoConfigs == {Original, Moving}
ThreeConfigs == {Original, Replacing, Moving}

Symmetry == Permutations(Operations) \cup Permutations(Pairings)
=============================================================================
