\* one user, two sessions, two concurrent requests, requests may be abandoned
SPECIFICATION Spec
CONSTANTS
    alice = alice
    Users = {alice}
    Sessions = {s1, s2}
    UserOf <- OneUser
    Tokens = {t1, t2, t3}
    Requests = {r1, r2}
    Nil = Nil
    Faults = TRUE
SYMMETRY Symmetry
VIEW View
INVARIANTS
    TypeOK
    NeverForks
    ReachableUnlessRaced
    RevokedSessionsAreDead
PROPERTIES
    RevokeAllIsComplete
    ImplementsLineage
