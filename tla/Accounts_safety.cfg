\* two addresses, one provider account, two requests at a time
SPECIFICATION Spec
CONSTANTS
    Emails = {e1, e2}
    Passwords = {p1, p2}
    Subjects = {s1}
    Nonces = {n1, n2}
    Requests = {r1, r2}
    MaxSessions = 1
    Nil = Nil
SYMMETRY Symmetry
VIEW View
INVARIANTS
    EveryAccountHasALogin
    OneUserPerIdentity
    SessionsEndWithTheirPassword
    NonceBuysOneLogin
PROPERTIES
    NoUpdateIsUndone
