------------------------------ MODULE Accounts ------------------------------
(***************************************************************************)
(* User accounts: the tables users and oauth_identities, and the request   *)
(* handlers of AuthService and OAuthService that read and write them, each *)
(* in a database transaction of its own.                                   *)
(*                                                                         *)
(* Reads are READ COMMITTED, writes reach the database at a flush or at    *)
(* the commit, and an UPDATE sets only the columns that were assigned.     *)
(* What a request read may be stale by the time it commits.  The codes and *)
(* the refresh tokens are modelled in VerificationCodes and RefreshTokens: *)
(* here any user may present a right code, and a session is one record     *)
(* that says whether its token is in Redis or in the hands of a refresh,   *)
(* and whether the indexes are sure to name it.                            *)
(***************************************************************************)
EXTENDS Naturals, FiniteSets

CONSTANTS
    Emails,
    Passwords,
    Subjects,   \* (provider, subject) pairs of OAuth providers
    Nonces,     \* values of create_challenge, each drawn once
    Requests,   \* requests in flight at the same time
    MaxSessions,    \* bound on the sessions live at the same time
    Nil

Row == [password : Passwords \cup {Nil}, verified : BOOLEAN]

ASSUME NilAssumption == Nil \notin Emails \cup Passwords \cup Subjects \cup Nonces \cup Row
ASSUME MaxSessionsAssumption == MaxSessions \in Nat

VARIABLES
    users,      \* committed rows of users, by address
    identities, \* committed rows of oauth_identities
    nonces,     \* auth:oauth-nonce:*
    drawn,      \* nonces handed out
    sessions,   \* sessions not over, with the credential they were granted for
    req         \* requests being served

vars == <<users, identities, nonces, drawn, sessions, req>>

Identity == [subject : Subjects, email : Emails]
Session == [email : Emails, password : Passwords \cup {Nil}, nonce : Nonces \cup {Nil},
            rotated : BOOLEAN,  \* a refresh is between rotation and issue
            raced : BOOLEAN,    \* granted or refreshed against a revocation
            late : BOOLEAN,     \* history: the password changed during the login
            spared : BOOLEAN]   \* history: a revoke_all due to it was not finished

Idle == [pc |-> "idle", op |-> "none", email |-> Nil, seen |-> Nil, new |-> Nil,
         subject |-> Nil, nonce |-> Nil]

Request ==
    [pc : {"idle", "insert", "send", "write", "revoke", "revoking", "issue",
           "identity", "lookup", "link"},
     op : {"none", "signup", "verify", "reset", "change", "logoutAll", "login", "oauth"},
     email : Emails \cup {Nil}, seen : Row \cup {Nil}, new : Passwords \cup {Nil},
     subject : Subjects \cup {Nil}, nonce : Nonces \cup {Nil}]

Goto(r, pc) == req' = [req EXCEPT ![r].pc = pc]
Finish(r) == req' = [req EXCEPT ![r] = Idle]
Begin(r, first) == req[r] = Idle /\ req' = [req EXCEPT ![r] = first]

(* Transactions whose row for their address is flushed and not committed. *)
Inserted(r) == req[r].pc = "send" \/ (req[r].pc = "link" /\ req[r].seen = Nil)
IndexFree(e) == \A q \in Requests : Inserted(q) => req[q].email # e

Init ==
    /\ users = [e \in Emails |-> Nil]
    /\ identities = {}
    /\ nonces = {} /\ drawn = {}
    /\ sessions = {}
    /\ req = [r \in Requests |-> Idle]

-----------------------------------------------------------------------------
(* signup.  The lookup that comes first only answers sooner. *)

Signup(r, e, p) ==
    /\ Begin(r, [Idle EXCEPT !.pc = "insert", !.op = "signup", !.email = e, !.new = p])
    /\ UNCHANGED <<users, identities, nonces, drawn, sessions>>

(* create_user flushes.  The unique index makes the second of two inserts  *)
(* wait for the first transaction; a taken address ends the request and    *)
(* its transaction, in OAuth login as an unhandled error.                  *)
InsertUser(r) ==
    /\ req[r].pc = "insert"
    /\ IndexFree(req[r].email)
    /\ IF users[req[r].email] # Nil THEN Finish(r)
       ELSE Goto(r, IF req[r].op = "signup" THEN "send" ELSE "link")
    /\ UNCHANGED <<users, identities, nonces, drawn, sessions>>

(* _send_code comes before the commit; if it fails, that is an Abandon. *)
CommitSignup(r) ==
    /\ req[r].pc = "send"
    /\ users' = [users EXCEPT ![req[r].email] = [password |-> req[r].new, verified |-> FALSE]]
    /\ Finish(r)
    /\ UNCHANGED <<identities, nonces, drawn, sessions>>

-----------------------------------------------------------------------------
(* verify_email and reset_password: read the row, consume the code, write, *)
(* commit; a reset revokes the user's sessions last.                       *)

(* The code was right.  As a code can be redeemed twice, nothing is asked  *)
(* of it here.                                                             *)
ProveForVerify(r, e) ==
    /\ users[e] # Nil
    /\ Begin(r, [Idle EXCEPT !.pc = "write", !.op = "verify", !.email = e, !.seen = users[e]])
    /\ UNCHANGED <<users, identities, nonces, drawn, sessions>>

ProveForReset(r, e, p) ==
    /\ users[e] # Nil
    /\ Begin(r, [Idle EXCEPT !.pc = "write", !.op = "reset", !.email = e, !.new = p])
    /\ UNCHANGED <<users, identities, nonces, drawn, sessions>>

(* change_password: the current password is right for the row as read. *)
ProvePassword(r, e, current, p) ==
    /\ users[e] # Nil
    /\ users[e].password = current
    /\ Begin(r, [Idle EXCEPT !.pc = "write", !.op = "change", !.email = e, !.new = p])
    /\ UNCHANGED <<users, identities, nonces, drawn, sessions>>

(* Seeded fault: the whole row goes back as it was read. *)
CommitVerifyRow(r) ==
    /\ req[r].pc = "write"
    /\ req[r].op = "verify"
    /\ users' = [users EXCEPT ![req[r].email] = [req[r].seen EXCEPT !.verified = TRUE]]
    /\ Finish(r)
    /\ UNCHANGED <<identities, nonces, drawn, sessions>>

CommitVerify(r) ==
    /\ req[r].pc = "write"
    /\ req[r].op = "verify"
    /\ users' = [users EXCEPT ![req[r].email].verified = TRUE]
    /\ Finish(r)
    /\ UNCHANGED <<identities, nonces, drawn, sessions>>

SessionsOf(e) == {x \in sessions : x.email = e}

(* The password is changed and the sessions are still to be revoked. *)
Ending(r) == req[r].op \in {"reset", "change"} /\ req[r].pc \in {"revoke", "revoking"}

(* Seeded fault: a change of the password revokes nothing. *)
CommitPasswordQuietly(r) ==
    /\ req[r].pc = "write"
    /\ req[r].op \in {"reset", "change"}
    /\ users' = [users EXCEPT ![req[r].email].password = req[r].new]
    /\ IF req[r].op = "reset" THEN Goto(r, "revoke") ELSE Finish(r)
    /\ UNCHANGED <<identities, nonces, drawn, sessions>>

CommitPassword(r) ==
    /\ req[r].pc = "write"
    /\ req[r].op \in {"reset", "change"}
    /\ users' = [users EXCEPT ![req[r].email].password = req[r].new]
    /\ Goto(r, "revoke")
    /\ UNCHANGED <<identities, nonces, drawn, sessions>>

-----------------------------------------------------------------------------
(* revoke_all, over as many awaits as the user has sessions.               *)

UnderRevocation(e) == \E r \in Requests : req[r].pc = "revoking" /\ req[r].email = e

(* _revoke_family deletes the token it finds.  If a refresh has taken that  *)
(* one, or takes it between SMEMBERS and EXEC, the next token of the       *)
(* session is not among what is deleted.                                   *)
Strike(x) ==
    \/ ~x.rotated /\ sessions' = sessions \ {x}
    \/ sessions' = (sessions \ {x}) \cup {[x EXCEPT !.raced = TRUE]}

(* SMEMBERS of the user's families, after a change of the password ...     *)
RevokeAll(r) ==
    /\ req[r].pc = "revoke"
    /\ Goto(r, "revoking")
    /\ UNCHANGED <<users, identities, nonces, drawn, sessions>>

(* ... or for logout_all. *)
LogoutAll(r, e) ==
    /\ users[e] # Nil
    /\ Begin(r, [Idle EXCEPT !.pc = "revoking", !.op = "logoutAll", !.email = e])
    /\ UNCHANGED <<users, identities, nonces, drawn, sessions>>

RevokeFamily(r) ==
    /\ req[r].pc = "revoking"
    /\ \E x \in SessionsOf(req[r].email) : Strike(x)
    /\ UNCHANGED <<users, identities, nonces, drawn, req>>

(* DEL of the index: every family the SMEMBERS named has been dealt with.  *)
(* It did not name a session granted since, and may not name one that an   *)
(* earlier revocation met (RefreshTokens: ReachableUnlessRaced).           *)
ClearIndex(r) ==
    /\ req[r].pc = "revoking"
    /\ \A x \in SessionsOf(req[r].email) : x.raced
    /\ Finish(r)
    /\ UNCHANGED <<users, identities, nonces, drawn, sessions>>

-----------------------------------------------------------------------------
(* login: the password is right for the row as read. *)

Login(r, e, p) ==
    /\ users[e] # Nil
    /\ users[e].password = p
    /\ Begin(r, [Idle EXCEPT !.pc = "issue", !.op = "login", !.email = e, !.new = p])
    /\ UNCHANGED <<users, identities, nonces, drawn, sessions>>

(* issue_refresh of both logins.  A password login is late if the password *)
(* has changed since it was read.                                          *)
Issue(r) ==
    LET e == req[r].email IN
    /\ req[r].pc = "issue"
    /\ Cardinality(sessions) < MaxSessions
    /\ sessions' = sessions \cup
         {[email |-> e, password |-> req[r].new, nonce |-> req[r].nonce,
           rotated |-> FALSE, raced |-> UnderRevocation(e),
           late |-> req[r].op = "login" /\ users[e].password # req[r].new,
           spared |-> FALSE]}
    /\ Finish(r)
    /\ UNCHANGED <<users, identities, nonces, drawn>>

-----------------------------------------------------------------------------
(* refresh.  Between its two commands it knows nothing but the session; an *)
(* error or a cancellation there is an EndSession.                         *)

(* The rotation script takes the token, which only one refresh gets. *)
Rotate ==
    /\ \E x \in sessions :
          /\ ~x.rotated
          /\ sessions' = (sessions \ {x}) \cup {[x EXCEPT !.rotated = TRUE]}
    /\ UNCHANGED <<users, identities, nonces, drawn, req>>

(* issue_refresh into the same session, whatever was revoked meanwhile. *)
Reissue ==
    /\ \E x \in sessions :
          /\ x.rotated
          /\ sessions' = (sessions \ {x}) \cup
                 {[x EXCEPT !.rotated = FALSE, !.raced = @ \/ UnderRevocation(x.email)]}
    /\ UNCHANGED <<users, identities, nonces, drawn, req>>

-----------------------------------------------------------------------------
(* OAuthService *)

CreateChallenge(n) ==
    /\ n \notin drawn
    /\ drawn' = drawn \cup {n}
    /\ nonces' = nonces \cup {n}
    /\ UNCHANGED <<users, identities, sessions, req>>

ExpireNonce(n) ==
    /\ n \in nonces
    /\ nonces' = nonces \ {n}
    /\ UNCHANGED <<users, identities, drawn, sessions, req>>

(* Seeded fault: the nonce is read, and left to expire. *)
OAuthLoginKeepsNonce(r, n, s, e) ==
    /\ n \in nonces
    /\ Begin(r, [Idle EXCEPT !.pc = "identity", !.op = "oauth", !.email = e,
                             !.subject = s, !.nonce = n])
    /\ UNCHANGED <<users, identities, nonces, drawn, sessions>>

(* DEL of the nonce answers 1 to one request only.  A provider token that  *)
(* does not verify is an Abandon.                                          *)
OAuthLogin(r, n, s, e) ==
    /\ n \in nonces
    /\ nonces' = nonces \ {n}
    /\ Begin(r, [Idle EXCEPT !.pc = "identity", !.op = "oauth", !.email = e,
                             !.subject = s, !.nonce = n])
    /\ UNCHANGED <<users, identities, drawn, sessions>>

(* by_identity: a known identity logs in its user, whatever address the    *)
(* provider gives today.                                                   *)
ByIdentity(r) ==
    LET known == {i \in identities : i.subject = req[r].subject} IN
    /\ req[r].pc = "identity"
    /\ \/ known = {} /\ Goto(r, "lookup")
       \/ \E i \in known : req' = [req EXCEPT ![r].pc = "issue", ![r].email = i.email]
    /\ UNCHANGED <<users, identities, nonces, drawn, sessions>>

ByEmail(r) ==
    LET row == users[req[r].email] IN
    /\ req[r].pc = "lookup"
    /\ req' = [req EXCEPT ![r].pc = IF row = Nil THEN "insert" ELSE "link", ![r].seen = row]
    /\ UNCHANGED <<users, identities, nonces, drawn, sessions>>

(* The row of the user in the transaction of r, as it will be committed.   *)
Linked(r) ==
    IF req[r].seen = Nil THEN [password |-> Nil, verified |-> TRUE]
    ELSE [users[req[r].email] EXCEPT !.verified = @ \/ ~req[r].seen.verified]

Unclaimed(s) == \A i \in identities : i.subject # s

(* Seeded fault: uq_oauth_identity_provider_subject is missing. *)
LinkAnyway(r) ==
    /\ req[r].pc = "link"
    /\ users' = [users EXCEPT ![req[r].email] = Linked(r)]
    /\ identities' = identities \cup {[subject |-> req[r].subject, email |-> req[r].email]}
    /\ Goto(r, "issue")
    /\ UNCHANGED <<nonces, drawn, sessions>>

(* Seeded fault: the user is committed before the identity is added. *)
LinkInTwo(r) ==
    /\ req[r].pc = "link"
    /\ IF Unclaimed(req[r].subject)
       THEN /\ identities' = identities \cup
                               {[subject |-> req[r].subject, email |-> req[r].email]}
            /\ Goto(r, "issue")
       ELSE /\ Finish(r) /\ UNCHANGED identities
    /\ users' = [users EXCEPT ![req[r].email] = Linked(r)]
    /\ UNCHANGED <<nonces, drawn, sessions>>

(* add_identity and commit: both rows or, if another login claimed the     *)
(* subject in the meantime, none.                                          *)
Link(r) ==
    /\ req[r].pc = "link"
    /\ IF Unclaimed(req[r].subject)
       THEN /\ users' = [users EXCEPT ![req[r].email] = Linked(r)]
            /\ identities' = identities \cup
                               {[subject |-> req[r].subject, email |-> req[r].email]}
            /\ Goto(r, "issue")
       ELSE /\ Finish(r) /\ UNCHANGED <<users, identities>>
    /\ UNCHANGED <<nonces, drawn, sessions>>

-----------------------------------------------------------------------------
(* A token expires, or the refresh that has it fails. *)
EndSession ==
    /\ \E x \in sessions : sessions' = sessions \ {x}
    /\ UNCHANGED <<users, identities, nonces, drawn, req>>

(* Logout, or a refresh token presented twice. *)
Logout ==
    /\ \E x \in sessions : Strike(x)
    /\ UNCHANGED <<users, identities, nonces, drawn, req>>

(* Database, Redis or broker raises, the provider token is invalid, or the *)
(* request is cancelled: an open transaction rolls back.                   *)
Abandon(r) ==
    /\ req[r] # Idle
    /\ Finish(r)
    /\ sessions' = IF Ending(r)
                   THEN {[x EXCEPT !.spared = @ \/ x.email = req[r].email] : x \in sessions}
                   ELSE sessions
    /\ UNCHANGED <<users, identities, nonces, drawn>>

Next ==
    \/ \E r \in Requests :
          \/ \E e \in Emails, p \in Passwords :
                \/ Signup(r, e, p) \/ Login(r, e, p) \/ ProveForReset(r, e, p)
                \/ \E current \in Passwords : ProvePassword(r, e, current, p)
          \/ \E e \in Emails : ProveForVerify(r, e) \/ LogoutAll(r, e)
          \/ \E n \in Nonces, s \in Subjects, e \in Emails : OAuthLogin(r, n, s, e)
          \/ InsertUser(r) \/ CommitSignup(r)
          \/ CommitVerify(r) \/ CommitPassword(r)
          \/ RevokeAll(r) \/ RevokeFamily(r) \/ ClearIndex(r)
          \/ ByIdentity(r) \/ ByEmail(r) \/ Link(r) \/ Issue(r) \/ Abandon(r)
    \/ \E n \in Nonces : CreateChallenge(n) \/ ExpireNonce(n)
    \/ Rotate \/ Reissue \/ EndSession \/ Logout

Spec == Init /\ [][Next]_vars

-----------------------------------------------------------------------------
(* Every variable holds a value of its kind. *)
TypeOK ==
    /\ users \in [Emails -> Row \cup {Nil}]
    /\ identities \subseteq Identity
    /\ nonces \subseteq drawn /\ drawn \subseteq Nonces
    /\ sessions \subseteq Session
    /\ req \in [Requests -> Request]

(* signup and OAuthService.login: whatever request failed or was overtaken *)
(* on the way, a registered address has a password or an identity to log   *)
(* in with, and every identity has its user.                               *)
EveryAccountHasALogin ==
    /\ \A e \in Emails :
          users[e] # Nil => users[e].password # Nil \/ \E i \in identities : i.email = e
    /\ \A i \in identities : users[i.email] # Nil

(* OAuthService.login: two logins of one provider account at the same time *)
(* do not give it two users, even if the provider changed its address.     *)
OneUserPerIdentity ==
    \A i, j \in identities : i.subject = j.subject => i = j

(* reset_password and change_password, commit before revoke_all: a session *)
(* granted for a password that is no longer valid is about to be revoked,  *)
(* unless the revoke_all after the commit was not finished, the login that *)
(* granted it read the old password and was not finished at the commit, or *)
(* the session met a revocation: it was granted or refreshed while all     *)
(* sessions of the user were being revoked, or a refresh had or took its   *)
(* token when a revocation came to it.                                     *)
SessionsEndWithTheirPassword ==
    \A x \in sessions :
        \/ x.password \in {Nil, users[x.email].password}
        \/ x.late \/ x.raced \/ x.spared
        \/ \E r \in Requests : Ending(r) /\ req[r].email = x.email

(* OAuthService.login: a nonce of create_challenge buys one login.         *)
NonceBuysOneLogin ==
    \A n \in Nonces :
        Cardinality({r \in Requests : req[r].nonce = n} \cup {x \in sessions : x.nonce = n})
          <= IF n \in nonces THEN 0 ELSE 1

(* verify_email, reset_password, change_password and OAuthService.login    *)
(* work on rows they read some awaits ago, and commit no column they did   *)
(* not assign.  A verified address stays verified, no account goes away,   *)
(* and only a reset or change of that account sets its password, to the    *)
(* one it was given; of two of those the last to commit wins.              *)
NoUpdateIsUndone ==
    [][\A e \in Emails :
          users[e] # Nil =>
             /\ users'[e] # Nil
             /\ users[e].verified => users'[e].verified
             /\ users'[e].password # users[e].password =>
                   \E r \in Requests :
                      /\ req[r].op \in {"reset", "change"} /\ req[r].pc = "write"
                      /\ req[r].email = e /\ req[r].new = users'[e].password]_vars
=============================================================================
