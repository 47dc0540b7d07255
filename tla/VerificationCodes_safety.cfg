\* two codes, two sends and two tries that overlap freely
SPECIFICATION Spec
CONSTANTS
    Codes = {c1, c2}
    Senders = {p1, p2}
    Consumers = {q1, q2}
    Nil = Nil
SYMMETRY Symmetry
VIEW View
INVARIANTS
    EndedCodesStayOut
    GuessesBounded
    MailedCodeWaits
    OneMailPerCooldown
PROPERTIES
    RedeemedOnce
