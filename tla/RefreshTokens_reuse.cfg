\* the reading of ARCHITECTURE.md that a revoked family is dead for good
SPECIFICATION Spec
CONSTANTS
    alice = alice
    Users = {alice}
    Sessions = {s1}
    UserOf <- OneUser
    Tokens = {t1, t2, t3}
    Requests = {r1, r2}
    Nil = Nil
    Faults = FALSE
INVARIANTS
    RevokedFamilyIsDead
