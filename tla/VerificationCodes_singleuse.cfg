\* one sender, one code, two tries at the same time
SPECIFICATION Spec
CONSTANTS
    Codes = {c1}
    Senders = {p1}
    Consumers = {q1, q2}
    Nil = Nil
PROPERTIES
    CodeIsSingleUse
