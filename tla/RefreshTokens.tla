---------------------------- MODULE RefreshTokens ----------------------------
(***************************************************************************)
(* Refresh tokens of the backend: TokenService and the request handlers    *)
(* that call it (login, OAuth login, refresh, logout, logout-all, password *)
(* reset and change).                                                      *)
(*                                                                         *)
(* Redis is the only shared state.  One Lua script, one MULTI pipeline or  *)
(* one plain command is atomic; every await between two of them is a point *)
(* where other requests run, where the request may be abandoned (Redis or  *)
(* database error, cancelled client, killed process) and where keys may    *)
(* expire.                                                                 *)
(***************************************************************************)
EXTENDS FiniteSets

CONSTANTS
    Users,
    Sessions,       \* (user, family) pairs; a family id is random, never reused
    UserOf,         \* the user half of a session
    Tokens,         \* values secrets.token_urlsafe(48) may return
    Requests,       \* requests the API serves at the same time
    Nil,            \* an absent key, or no value
    Faults          \* whether a request may be abandoned between two awaits

ASSUME UserOfAssumption == UserOf \in [Sessions -> Users]
ASSUME NilAssumption == Nil \notin Users \cup Sessions \cup Tokens
ASSUME FaultsAssumption == Faults \in BOOLEAN

VARIABLES
    refresh,        \* auth:refresh:<digest>, the session of a live token
    reuse,          \* auth:reuse:<digest>, the session of a rotated token
    members,        \* auth:session:<user>:<family>, the digests of a session
    index,          \* auth:sessions:<user>, the families of a user
    req,            \* the requests being served
    origin,         \* history: the session each token was issued for
    revoked,        \* history: sessions some revocation went through
    raced           \* history: tokens issued against a revocation

redis == <<refresh, reuse, members, index>>
history == <<origin, revoked, raced>>
vars == <<refresh, reuse, members, index, req, origin, revoked, raced>>

Pcs == {"idle", "reissue", "read", "drop"}
Ops == {"none", "refresh", "logout", "revokeAll"}

Idle == [pc |-> "idle", op |-> "none", user |-> Nil, token |-> Nil,
         session |-> Nil, digests |-> {}, todo |-> {}]

Request == [pc : Pcs, op : Ops, user : Users \cup {Nil},
            token : Tokens \cup {Nil}, session : Sessions \cup {Nil},
            digests : SUBSET Tokens, todo : SUBSET Sessions]

(* A request starts with what its first step learnt. *)
Begin(r, pc, op, user, token, session, todo) ==
    /\ req[r].pc = "idle"
    /\ req' = [req EXCEPT ![r] =
                  [pc |-> pc, op |-> op, user |-> user, token |-> token,
                   session |-> session, digests |-> {}, todo |-> todo]]

Live(t)   == refresh[t] # Nil
Fresh(t)  == origin[t] = Nil
Unborn(s) == \A t \in Tokens : origin[t] # s

Revoking(r) == req[r].pc \in {"read", "drop"}

(* A token issued for s now may be missed by a revocation: one is under    *)
(* way for s or for all sessions of its user, or one has been through s.   *)
Contended(s) ==
    \/ s \in revoked
    \/ \E r \in Requests :
          /\ Revoking(r)
          /\ \/ s \in req[r].todo
             \/ req[r].op = "revokeAll" /\ req[r].user = UserOf[s]

Init ==
    /\ refresh = [t \in Tokens |-> Nil]
    /\ reuse = [t \in Tokens |-> Nil]
    /\ members = [s \in Sessions |-> {}]
    /\ index = [u \in Users |-> {}]
    /\ req = [r \in Requests |-> Idle]
    /\ origin = [t \in Tokens |-> Nil]
    /\ revoked = {}
    /\ raced = {}

-----------------------------------------------------------------------------
(* Seeded fault: the family is not added to the user's index. *)
IssueUnindexed(s, t) ==
    /\ Fresh(t)
    /\ refresh' = [refresh EXCEPT ![t] = s]
    /\ members' = [members EXCEPT ![s] = @ \cup {t}]
    /\ origin' = [origin EXCEPT ![t] = s]
    /\ raced' = IF Contended(s) THEN raced \cup {t} ELSE raced
    /\ UNCHANGED <<reuse, index, revoked>>

(* issue_refresh: one MULTI stores the token and records it in its family  *)
(* and the family in the user's index.  The EXPIREs in the same MULTI are  *)
(* the guards of ExpireFamily and ExpireIndex.                             *)
Issue(s, t) ==
    /\ Fresh(t)
    /\ refresh' = [refresh EXCEPT ![t] = s]
    /\ members' = [members EXCEPT ![s] = @ \cup {t}]
    /\ index' = [index EXCEPT ![UserOf[s]] = @ \cup {s}]
    /\ origin' = [origin EXCEPT ![t] = s]
    /\ raced' = IF Contended(s) THEN raced \cup {t} ELSE raced
    /\ UNCHANGED <<reuse, revoked>>

(* login and OAuth login end in issue_refresh with a new family. *)
Login(s, t) ==
    /\ Unborn(s)
    /\ Issue(s, t)
    /\ UNCHANGED req

(* Seeded fault: the script leaves the presented token in place. *)
RotateNoDelete(r, t) ==
    /\ Live(t)
    /\ Begin(r, "reissue", "refresh", Nil, t, refresh[t], {})
    /\ reuse' = [reuse EXCEPT ![t] = refresh[t]]
    /\ UNCHANGED <<refresh, members, index, history>>

(* Seeded fault: the reuse marker holds the digest, not the session. *)
RotateBadMarker(r, t) ==
    /\ Live(t)
    /\ Begin(r, "reissue", "refresh", Nil, t, refresh[t], {})
    /\ refresh' = [refresh EXCEPT ![t] = Nil]
    /\ reuse' = [reuse EXCEPT ![t] = t]
    /\ UNCHANGED <<members, index, history>>

(* The rotation script finds the token: delete it, leave the reuse marker. *)
Rotate(r, t) ==
    /\ Live(t)
    /\ Begin(r, "reissue", "refresh", Nil, t, refresh[t], {})
    /\ refresh' = [refresh EXCEPT ![t] = Nil]
    /\ reuse' = [reuse EXCEPT ![t] = refresh[t]]
    /\ UNCHANGED <<members, index, history>>

(* The script finds only the marker: the token was used before, so the     *)
(* marker goes and the family is to be revoked.                            *)
DetectReuse(r, t) ==
    /\ ~Live(t)
    /\ reuse[t] # Nil
    /\ Begin(r, "read", "refresh", Nil, t, Nil, {reuse[t]})
    /\ reuse' = [reuse EXCEPT ![t] = Nil]
    /\ UNCHANGED <<refresh, members, index, history>>

(* refresh after the user lookup: the successor joins the same family. *)
Reissue(r, t) ==
    /\ req[r].pc = "reissue"
    /\ Issue(req[r].session, t)
    /\ req' = [req EXCEPT ![r] = Idle]

(* logout reads the session of the presented token. *)
Logout(r, t) ==
    /\ Live(t)
    /\ Begin(r, "read", "logout", Nil, t, Nil, {refresh[t]})
    /\ UNCHANGED <<redis, history>>

(* refresh or logout with a token Redis does not know: 401 or 204, nothing *)
(* is written.                                                             *)
Refuse(t) ==
    /\ ~Live(t)
    /\ reuse[t] = Nil
    /\ UNCHANGED vars

(* revoke_all, also the tail of reset_password and change_password. *)
RevokeAll(r, u) ==
    /\ Begin(r, "read", "revokeAll", u, Nil, Nil, index[u])
    /\ UNCHANGED <<redis, history>>

(* Seeded fault: SMEMBERS reads a key nobody writes. *)
ReadWrongKey(r, s) ==
    /\ req[r].pc = "read"
    /\ s \in req[r].todo
    /\ req' = [req EXCEPT ![r].pc = "drop", ![r].session = s, ![r].digests = {}]
    /\ UNCHANGED <<redis, history>>

(* Seeded fault: the family key names the user only, so SMEMBERS returns    *)
(* the digests of all the user's sessions.                                 *)
ReadFamilyOfUser(r, s) ==
    /\ req[r].pc = "read"
    /\ s \in req[r].todo
    /\ req' = [req EXCEPT ![r].pc = "drop", ![r].session = s,
                          ![r].digests = UNION {members[z] : z \in
                              {y \in Sessions : UserOf[y] = UserOf[s]}}]
    /\ UNCHANGED <<redis, history>>

(* _revoke_family, first half: SMEMBERS of one family still to be revoked. *)
ReadFamily(r, s) ==
    /\ req[r].pc = "read"
    /\ s \in req[r].todo
    /\ req' = [req EXCEPT ![r].pc = "drop", ![r].session = s,
                          ![r].digests = members[s]]
    /\ UNCHANGED <<redis, history>>

(* Seeded fault: revoke_all returns to its caller after the first family. *)
AfterFirstDrop(q) ==
    IF q.op = "revokeAll"
    THEN [q EXCEPT !.pc = "read", !.session = Nil, !.digests = {}, !.todo = {}]
    ELSE Idle

(* The request after one family is gone: revoke_all goes on with the rest. *)
AfterDrop(q) ==
    IF q.op = "revokeAll"
    THEN [q EXCEPT !.pc = "read", !.session = Nil, !.digests = {},
                   !.todo = @ \ {q.session}]
    ELSE Idle

(* Seeded fault: only the presented token is deleted, not its family's. *)
DropPresented(r) ==
    LET s == req[r].session
        gone == {req[r].token}
    IN
    /\ req[r].pc = "drop"
    /\ refresh' = [t \in Tokens |-> IF t \in gone THEN Nil ELSE refresh[t]]
    /\ reuse' = [t \in Tokens |-> IF t \in gone THEN Nil ELSE reuse[t]]
    /\ members' = [members EXCEPT ![s] = {}]
    /\ index' = [index EXCEPT ![UserOf[s]] = @ \ {s}]
    /\ req' = [req EXCEPT ![r] = AfterDrop(@)]
    /\ revoked' = revoked \cup {s}
    /\ UNCHANGED <<origin, raced>>

(* _revoke_family, second half: one MULTI deletes what the read returned,  *)
(* the family key, and the family's entry in the index.                    *)
DropFamily(r) ==
    LET s == req[r].session
        gone == req[r].digests
    IN
    /\ req[r].pc = "drop"
    /\ refresh' = [t \in Tokens |-> IF t \in gone THEN Nil ELSE refresh[t]]
    /\ reuse' = [t \in Tokens |-> IF t \in gone THEN Nil ELSE reuse[t]]
    /\ members' = [members EXCEPT ![s] = {}]
    /\ index' = [index EXCEPT ![UserOf[s]] = @ \ {s}]
    /\ req' = [req EXCEPT ![r] = AfterDrop(@)]
    /\ revoked' = revoked \cup {s}
    /\ UNCHANGED <<origin, raced>>

(* revoke_all, the end: DEL of the whole index. *)
ClearIndex(r) ==
    /\ req[r].pc = "read"
    /\ req[r].op = "revokeAll"
    /\ req[r].todo = {}
    /\ index' = [index EXCEPT ![req[r].user] = {}]
    /\ req' = [req EXCEPT ![r] = Idle]
    /\ UNCHANGED <<refresh, reuse, members, history>>

(* Seeded fault: a failed refresh puts the presented token back. *)
AbortRestores(r) ==
    /\ Faults
    /\ req[r].pc # "idle"
    /\ req' = [req EXCEPT ![r] = Idle]
    /\ refresh' = IF req[r].pc = "reissue"
                  THEN [refresh EXCEPT ![req[r].token] = req[r].session] ELSE refresh
    /\ UNCHANGED <<reuse, members, index, history>>

(* An await raises, the client goes away or the process dies. *)
Abort(r) ==
    /\ Faults
    /\ req[r].pc # "idle"
    /\ req' = [req EXCEPT ![r] = Idle]
    /\ UNCHANGED <<redis, history>>

-----------------------------------------------------------------------------
(* Expiry.  All keys of a token get the same lifetime and every issue      *)
(* renews the family and the index, so neither expires before the live     *)
(* tokens under it.  A reuse marker starts its lifetime later and may      *)
(* outlive both.                                                           *)
ExpireToken(t) ==
    /\ Live(t)
    /\ refresh' = [refresh EXCEPT ![t] = Nil]
    /\ UNCHANGED <<reuse, members, index, req, history>>

ExpireReuse(t) ==
    /\ reuse[t] # Nil
    /\ reuse' = [reuse EXCEPT ![t] = Nil]
    /\ UNCHANGED <<refresh, members, index, req, history>>

ExpireFamily(s) ==
    /\ members[s] # {}
    /\ \A t \in Tokens : refresh[t] # s
    /\ members' = [members EXCEPT ![s] = {}]
    /\ UNCHANGED <<refresh, reuse, index, req, history>>

ExpireIndex(u) ==
    /\ index[u] # {}
    /\ \A t \in Tokens : Live(t) => UserOf[refresh[t]] # u
    /\ index' = [index EXCEPT ![u] = {}]
    /\ UNCHANGED <<refresh, reuse, members, req, history>>

-----------------------------------------------------------------------------
Revoke(r) == (\E s \in Sessions : ReadFamily(r, s)) \/ DropFamily(r) \/ ClearIndex(r)

Next ==
    \/ \E s \in Sessions, t \in Tokens : Login(s, t)
    \/ \E r \in Requests, t \in Tokens :
          \/ Rotate(r, t)
          \/ DetectReuse(r, t)
          \/ Reissue(r, t)
          \/ Logout(r, t)
    \/ \E r \in Requests, u \in Users : RevokeAll(r, u)
    \/ \E r \in Requests : Revoke(r) \/ Abort(r)
    \/ \E t \in Tokens : Refuse(t) \/ ExpireToken(t) \/ ExpireReuse(t)
    \/ \E s \in Sessions : ExpireFamily(s)
    \/ \E u \in Users : ExpireIndex(u)

Spec == Init /\ [][Next]_vars

(* The event loop keeps running a request it has started to serve. *)
FairSpec == Spec /\ \A r \in Requests : WF_vars(Revoke(r))

-----------------------------------------------------------------------------
(* Every variable holds values of its shape, and a request has the fields  *)
(* its next step reads: the session to reissue or to drop, the user whose  *)
(* index to clear.                                                         *)
TypeOK ==
    /\ refresh \in [Tokens -> Sessions \cup {Nil}]
    /\ reuse \in [Tokens -> Sessions \cup {Nil}]
    /\ members \in [Sessions -> SUBSET Tokens]
    /\ index \in [Users -> SUBSET Sessions]
    /\ req \in [Requests -> Request]
    /\ origin \in [Tokens -> Sessions \cup {Nil}]
    /\ revoked \subseteq Sessions
    /\ raced \subseteq Tokens
    /\ \A r \in Requests :
          /\ req[r].pc \in {"reissue", "drop"} => req[r].session \in Sessions
          /\ Revoking(r) /\ req[r].op = "revokeAll" => req[r].user \in Users

(* What holds the right to be the next token of session s: its live tokens *)
(* and the refresh requests about to issue one.                            *)
LiveTokens(s) == {t \in Tokens : refresh[t] = s}
Reissuing(s)  == {r \in Requests : req[r].pc = "reissue" /\ req[r].session = s}

(* A session never forks: however refreshes, revocations and crashes       *)
(* interleave, it has at most one live token or one refresh between the    *)
(* rotation script and issue_refresh, never two of them, so two holders of *)
(* one token can not both keep a working session.                          *)
NeverForks ==
    \A s \in Sessions :
        /\ \A t1, t2 \in LiveTokens(s) : t1 = t2
        /\ \A r1, r2 \in Reissuing(s) : r1 = r2
        /\ LiveTokens(s) = {} \/ Reissuing(s) = {}

(* Revocation works from two indexes kept beside the tokens.  A live token *)
(* that was not issued against a revocation is in both, so the next logout *)
(* or password change reaches it: no expiry, abandoned request or earlier  *)
(* revocation loses it.                                                    *)
ReachableUnlessRaced ==
    \A t \in Tokens :
        Live(t) /\ t \notin raced =>
            /\ t \in members[refresh[t]]
            /\ refresh[t] \in index[UserOf[refresh[t]]]

(* Once a revocation has been through a session, only a token that was     *)
(* issued against a revocation can be live in it.                          *)
RevokedSessionsAreDead ==
    \A t \in Tokens : refresh[t] \in revoked => t \in raced

(* When revoke_all returns, every token its user has left was issued       *)
(* against a revocation: by a login meanwhile, or by a refresh that a      *)
(* revocation of its session overtook.                                     *)
RevokeAllIsComplete ==
    [][\A r \in Requests : ClearIndex(r) =>
          \A t \in Tokens :
              Live(t) /\ UserOf[refresh[t]] = req[r].user => t \in raced]_vars

(* A logout, or a detected reuse, that is not abandoned ends the session:  *)
(* a live token under revocation, not itself issued against one, dies.     *)
RevocationTakesEffect ==
    \A t \in Tokens :
        (Live(t) /\ t \notin raced
            /\ \E r \in Requests : Revoking(r) /\ refresh[t] \in req[r].todo)
        ~> ~Live(t)

-----------------------------------------------------------------------------
(* The chain of each session, as TokenLineage sees it. *)
HeadOf(s) ==
    IF Unborn(s) THEN "unborn"
    ELSE IF LiveTokens(s) # {} THEN CHOOSE t \in LiveTokens(s) : TRUE
    ELSE IF Reissuing(s) # {} THEN "rotating"
    ELSE "over"

Minted == {t \in Tokens : ~Fresh(t)}

Chain == INSTANCE TokenLineage WITH
            head <- [s \in Sessions |-> HeadOf(s)],
            minted <- Minted

(* The whole machinery implements one chain of tokens per session. *)
ImplementsLineage == Chain!Spec

-----------------------------------------------------------------------------
(* ARCHITECTURE.md: "Reuse detection revokes the affected token family."   *)
(* Read as: once reuse (or anything else) has revoked a family, no token   *)
(* of the family works.                                                    *)
RevokedFamilyIsDead == \A t \in Tokens : refresh[t] \notin revoked
=============================================================================
