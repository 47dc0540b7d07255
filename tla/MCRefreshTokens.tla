--------------------------- MODULE MCRefreshTokens ---------------------------
(* Small instances of RefreshTokens: one user holds all the sessions, since *)
(* no key is shared between users.                                          *)
EXTENDS RefreshTokens, TLC

CONSTANTS alice

OneUser == [s \in Sessions |-> alice]

(* A token that died stays dead, so whether it was raced no longer matters. *)
View == <<redis, req, origin, revoked, {t \in raced : Live(t)}>>

Symmetry == Permutations(Tokens) \cup Permutations(Requests) \cup Permutations(Sessions)
=============================================================================
