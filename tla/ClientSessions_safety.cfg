SPECIFICATION Spec
CONSTANTS
    alice = alice
    Users = {alice}
    Sessions = {s1, s2}
    UserOf <- OneUser
    Tokens = {t1, t2, t3}
    Requests = {r1, r2}
    Clients = {c1, c2}
    Nil = Nil
    Faults = TRUE
SYMMETRY Symmetry
VIEW View
CONSTRAINT SomeoneIsOrderly
INVARIANTS
    NoFalseAlarm
    NoOrphan
    CookieWorks
