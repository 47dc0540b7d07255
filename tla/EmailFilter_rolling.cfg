\* two replicas that start and stop while the other serves, and a Redis that is restored
SPECIFICATION Spec
CONSTANTS
    Emails = {e1, e2}
    Replicas = {a, b}
    Requests = {p1, p2}
    Nil = Nil
    Faults = {"timeout", "outage", "overrun", "restore"}
SYMMETRY Symmetry
INVARIANTS
    TrustedFilterIsComplete
    OneRebuilder
PROPERTIES
    LockIsOwn
