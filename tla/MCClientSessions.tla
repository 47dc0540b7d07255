--------------------------- MODULE MCClientSessions ---------------------------
(* Small instances of ClientSessions: one user, since no key is shared.      *)
EXTENDS ClientSessions, TLC

CONSTANTS alice

OneUser == [s \in Sessions |-> alice]

(* A history is kept for what can still be seen, live tokens and those in a  *)
(* jar or an answer, and no longer than its client is orderly.               *)
Seen(t) ==
    \/ Live(t)
    \/ \E c \in Clients : jar[c] = t
    \/ \E r \in Requests : call[r] # Nil /\ call[r].answer = t

Orderly(t) == holder[t] # Nil /\ holder[t] \notin tangled
Born == {s \in Sessions : \E t \in Tokens : origin[t] = s}
Messy == {s \in Sessions : \E t \in Tokens : origin[t] = s /\ ~Orderly(t)}

(* A token that is neither live nor marked as used stays so: which family   *)
(* still lists it, or had it on its list, decides nothing.  Nor does the     *)
(* token that started a revocation.                                         *)
Known(set) == {t \in set : Live(t) \/ reuse[t] # Nil}

Pending(q) == <<q.pc, q.op, q.user, q.session, q.todo, Known(q.digests)>>

View == <<refresh, reuse, [s \in Sessions |-> Known(members[s])], index,
          [r \in Requests |-> Pending(req[r])], jar, call, tangled, Born,
          revoked \ Messy,
          [t \in Tokens |->
              IF origin[t] = Nil THEN "fresh"
              ELSE IF ~Seen(t) THEN "gone"
              ELSE IF Orderly(t) THEN <<origin[t], holder[t], t \in lapsed>>
              ELSE <<origin[t]>>],
          {c \in Clients : Bearer(c) # {}},
          {t \in raced : Live(t) /\ Orderly(t)},
          {s \in forsaken \ Messy : \E t \in Tokens : refresh[t] = s}>>

(* Nothing is promised to tangled clients, and none ever ceases to be one:   *)
(* where all are, there is nothing left to check.                            *)
SomeoneIsOrderly == Clients \ tangled # {}

Symmetry == Permutations(Tokens) \cup Permutations(Requests)
                \cup Permutations(Sessions) \cup Permutations(Clients)
=============================================================================
