\* no request is abandoned; two sessions of one token each
SPECIFICATION FairSpec
CONSTANTS
    alice = alice
    Users = {alice}
    Sessions = {s1, s2}
    UserOf <- OneUser
    Tokens = {t1, t2}
    Requests = {r1, r2}
    Nil = Nil
    Faults = FALSE
PROPERTIES
    RevocationTakesEffect
