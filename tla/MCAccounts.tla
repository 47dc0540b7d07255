----------------------------- MODULE MCAccounts -----------------------------
(* Small instances of Accounts. *)
EXTENDS Accounts, TLC

(* What the handlers and the properties can still tell apart.  Nobody reads *)
(* the new password of a request that has committed it, the row and the     *)
(* provider account of one about to issue, or the password a session was    *)
(* granted for once it is late, spared or raced, which it stays.            *)
Carried(q) ==
    CASE q.pc \in {"revoke", "revoking"} -> [q EXCEPT !.new = Nil]
      [] q.pc = "issue" -> [q EXCEPT !.seen = Nil, !.subject = Nil]
      [] OTHER -> q

Kept(x) ==
    IF x.late \/ x.spared \/ x.raced
    THEN [x EXCEPT !.password = Nil, !.late = ~x.raced, !.spared = FALSE]
    ELSE x

View ==
    <<users, identities, nonces, drawn, {Kept(x) : x \in sessions},
      [r \in Requests |-> Carried(req[r])]>>

Symmetry == Permutations(Emails) \cup Permutations(Passwords) \cup
            Permutations(Nonces) \cup Permutations(Requests)
=============================================================================
