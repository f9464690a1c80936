\* Three clients and two slots, so that one client is refused; no symmetry, since
\* every read and revocation must end.
CONSTANTS
    Clients = {c1, c2, c3}
    Requests = {r1}
    MaxWaiters = 2
SPECIFICATION Spec
INVARIANT SafeWait
PROPERTIES EveryReadEnds RevocationCompletes
