---------------------------- MODULE TokenLineage ----------------------------
(***************************************************************************)
(* What refresh-token rotation promises a session, whatever the process    *)
(* serving it does: a login mints the session's first token, a rotation    *)
(* takes the token away before it mints the successor, and a session that  *)
(* lost its token any other way never has one again.  So a session is one  *)
(* chain of tokens, never a tree, and no token value comes back to life.   *)
(***************************************************************************)
CONSTANTS
    Sessions,   \* (user, family) pairs, as in the value of auth:refresh:*
    Tokens      \* refresh token values

VARIABLES
    head,       \* where the chain of each session stands
    minted      \* token values handed out so far

vars == <<head, minted>>

Unborn   == "unborn"        \* nobody logged in to this session yet
Rotating == "rotating"      \* old token taken away, successor not minted
Over     == "over"          \* expired, revoked or abandoned

Marks == {Unborn, Rotating, Over}

TypeOK ==
    /\ head \in [Sessions -> Tokens \cup Marks]
    /\ minted \subseteq Tokens

Init ==
    /\ head = [s \in Sessions |-> Unborn]
    /\ minted = {}

(* A login or the second half of a rotation. *)
Mint(s, t) ==
    /\ head[s] \in {Unborn, Rotating}
    /\ t \notin minted
    /\ head' = [head EXCEPT ![s] = t]
    /\ minted' = minted \cup {t}

(* The first half of a rotation: the presented token stops working. *)
Take(s) ==
    /\ head[s] \in Tokens
    /\ head' = [head EXCEPT ![s] = Rotating]
    /\ UNCHANGED minted

(* Expiry, revocation, or a rotation given up half-way. *)
End(s) ==
    /\ head[s] \in Tokens \cup {Rotating}
    /\ head' = [head EXCEPT ![s] = Over]
    /\ UNCHANGED minted

Next ==
    \E s \in Sessions :
        \/ \E t \in Tokens : Mint(s, t)
        \/ Take(s)
        \/ End(s)

Spec == Init /\ [][Next]_vars
=============================================================================
