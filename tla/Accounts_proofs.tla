--------------------------- MODULE Accounts_proofs ---------------------------
(***************************************************************************)
(* Proofs about Accounts for every number of addresses, passwords, provider *)
(* accounts, nonces and requests in flight.                                *)
(***************************************************************************)
EXTENDS Accounts, FiniteSetTheorems, TLAPS

-----------------------------------------------------------------------------
(* The inductive invariant, in named parts.                                *)

Registered(e) == e \in Emails /\ users[e] # Nil

(* What a request carries at each step of its handler.                     *)
Carries(q) ==
    /\ q.pc = "idle" => q = Idle
    /\ q.pc # "idle" => q.email \in Emails
    /\ q.pc = "insert" => q.op \in {"signup", "oauth"} /\ q.seen = Nil
    /\ q.pc = "send" => q.op = "signup"
    /\ q.pc \in {"identity", "lookup", "link"} => q.op = "oauth"
    /\ q.pc = "issue" => q.op \in {"login", "oauth"}
    /\ q.op \in {"signup", "reset", "change"} => q.new \in Passwords
    /\ q.op = "oauth" => q.new = Nil /\ q.subject \in Subjects

RequestsCarry == \A r \in Requests : Carries(req[r])

(* A request that has read or proved something of a user works on one that *)
(* is there to stay; so do the sessions.                                   *)
UsersStay ==
    /\ \A r \in Requests :
          /\ req[r].pc \in {"write", "revoke", "revoking", "issue"} => Registered(req[r].email)
          /\ req[r].pc = "link" /\ req[r].seen # Nil => Registered(req[r].email)
    /\ \A x \in sessions : Registered(x.email)

(* The unique index: one transaction at a time has inserted an address,    *)
(* and only one nobody else has committed.                                 *)
InsertsAreUnique ==
    \A r \in Requests :
        Inserted(r) =>
            /\ users[req[r].email] = Nil
            /\ \A q \in Requests : Inserted(q) /\ req[q].email = req[r].email => q = r

(* A nonce nobody has used has no bearer, any other at most one, a request *)
(* or the session it was granted.                                          *)
OneBearer ==
    \A n \in Nonces :
        /\ n \in nonces \cup (Nonces \ drawn) =>
              /\ \A r \in Requests : req[r].nonce # n
              /\ \A x \in sessions : x.nonce # n
        /\ \A r, q \in Requests : req[r].nonce = n /\ req[q].nonce = n => r = q
        /\ \A x, y \in sessions : x.nonce = n /\ y.nonce = n => x = y
        /\ \A r \in Requests, x \in sessions : ~(req[r].nonce = n /\ x.nonce = n)

IInv ==
    /\ TypeOK /\ RequestsCarry /\ UsersStay /\ InsertsAreUnique
    /\ EveryAccountHasALogin /\ OneUserPerIdentity
    /\ SessionsEndWithTheirPassword /\ OneBearer

-----------------------------------------------------------------------------
(* Type correctness.                                                       *)

LEMMA IdleIsFree ==
  /\ Idle \in Request /\ Idle.pc = "idle" /\ Idle.nonce = Nil
  /\ Idle.op = "none" /\ Idle.seen = Nil
BY DEF Idle, Request

(* A request and the user it works on, by the step it is at.               *)
LEMMA RequestFacts ==
  ASSUME TypeOK, RequestsCarry, UsersStay, NEW r \in Requests
  PROVE  /\ req[r] \in Request
         /\ req[r].seen \in Row \cup {Nil} /\ req[r].new \in Passwords \cup {Nil}
         /\ req[r].nonce \in Nonces \cup {Nil} /\ req[r].subject \in Subjects \cup {Nil}
         /\ req[r].pc = "idle" => req[r] = Idle
         /\ req[r].pc # "idle" => req[r].email \in Emails /\ users[req[r].email] \in Row \cup {Nil}
         /\ req[r].op \in {"signup", "reset", "change"} => req[r].new \in Passwords
         /\ req[r].op = "oauth" => req[r].new = Nil /\ req[r].subject \in Subjects
         /\ req[r].pc = "insert" => req[r].op \in {"signup", "oauth"} /\ req[r].seen = Nil
         /\ req[r].pc = "send" => req[r].op = "signup"
         /\ req[r].pc = "issue" => req[r].op \in {"login", "oauth"}
         /\ req[r].pc \in {"identity", "lookup", "link"} => req[r].op = "oauth"
         /\ req[r].pc \in {"write", "revoke", "revoking", "issue"} =>
               Registered(req[r].email) /\ users[req[r].email] \in Row
         /\ req[r].pc = "link" /\ req[r].seen # Nil =>
               Registered(req[r].email) /\ users[req[r].email] \in Row
<1>1. /\ req[r] \in Request
      /\ req[r].seen \in Row \cup {Nil} /\ req[r].new \in Passwords \cup {Nil}
      /\ req[r].nonce \in Nonces \cup {Nil} /\ req[r].subject \in Subjects \cup {Nil}
  BY DEF TypeOK, Request
<1>2. /\ req[r].pc = "idle" => req[r] = Idle
      /\ req[r].pc # "idle" => req[r].email \in Emails
      /\ req[r].op \in {"signup", "reset", "change"} => req[r].new \in Passwords
      /\ req[r].op = "oauth" => req[r].new = Nil /\ req[r].subject \in Subjects
      /\ req[r].pc = "insert" => req[r].op \in {"signup", "oauth"} /\ req[r].seen = Nil
      /\ req[r].pc = "send" => req[r].op = "signup"
      /\ req[r].pc = "issue" => req[r].op \in {"login", "oauth"}
      /\ req[r].pc \in {"identity", "lookup", "link"} => req[r].op = "oauth"
  BY DEF RequestsCarry, Carries
<1>3. \A e \in Emails : users[e] \in Row \cup {Nil}
  BY DEF TypeOK
<1>4. /\ req[r].pc \in {"write", "revoke", "revoking", "issue"} => Registered(req[r].email)
      /\ req[r].pc = "link" /\ req[r].seen # Nil => Registered(req[r].email)
  BY DEF UsersStay
<1>5. Registered(req[r].email) => users[req[r].email] \in Row
  BY <1>3 DEF Registered
<1>6. req[r].pc # "idle" => users[req[r].email] \in Row \cup {Nil}
  BY <1>2, <1>3
<1>7. QED
  BY <1>1, <1>2, <1>4, <1>5, <1>6

(* The row an OAuth login commits: the one it found, verified or as it is. *)
LEMMA LinkedRow ==
  ASSUME TypeOK, RequestsCarry, UsersStay, NEW r \in Requests,
         req[r].pc = "link"
  PROVE  /\ Linked(r) \in Row
         /\ req[r].seen = Nil => Linked(r).password = Nil
         /\ req[r].seen # Nil =>
               /\ Linked(r).password = users[req[r].email].password
               /\ users[req[r].email].verified => Linked(r).verified
<1>1. req[r].seen # Nil => req[r].seen \in Row /\ users[req[r].email] \in Row
  BY RequestFacts
<1>2. QED
  BY <1>1 DEF Linked, Row

LEMMA RecordOfRequest ==
  ASSUME NEW q \in Request, NEW seen \in Row \cup {Nil},
         NEW pc \in {"insert", "link"}
  PROVE  [q EXCEPT !.pc = pc, !.seen = seen] \in Request
BY DEF Request

(* What a session keeps of the one it was a moment ago.                    *)
SameGrant(y, x) ==
    /\ y.email = x.email /\ y.password = x.password /\ y.nonce = x.nonce
    /\ x.raced => y.raced
    /\ x.late => y.late
    /\ x.spared => y.spared

(* Sessions end or go on, and no two of them come from the same one.       *)
SessionsGoOn ==
    \A y, z \in sessions' : \E x, w \in sessions :
        SameGrant(y, x) /\ SameGrant(z, w) /\ (x = w => y = z)

(* The steps that move one session and nothing else.                       *)
SessionMoves ==
    Rotate \/ Reissue \/ EndSession \/ Logout \/ \E r \in Requests : RevokeFamily(r)

LEMMA OneSessionMoves ==
  ASSUME TypeOK, SessionMoves
  PROVE  /\ UNCHANGED <<users, identities, nonces, drawn, req>>
         /\ \E x \in sessions, y \in Session :
               SameGrant(y, x) /\ sessions' \subseteq (sessions \ {x}) \cup {y}
<1> DEFINE Moved(x, y) ==
      SameGrant(y, x) /\ sessions' \subseteq (sessions \ {x}) \cup {y}
<1> USE DEF SessionsOf
<1>0. \A x \in sessions : x \in Session
  BY DEF TypeOK
<1>1. ASSUME NEW x \in sessions, NEW rotated \in BOOLEAN, NEW raced \in BOOLEAN,
             x.raced => raced,
             sessions' \subseteq (sessions \ {x}) \cup
                                  {[x EXCEPT !.rotated = rotated, !.raced = raced]}
      PROVE  \E y \in Session : Moved(x, y)
  <2> DEFINE y == [x EXCEPT !.rotated = rotated, !.raced = raced]
  <2>1. y \in Session /\ SameGrant(y, x)
    BY <1>0, <1>1 DEF Session, SameGrant
  <2> HIDE DEF y
  <2>2. QED
    BY <1>1, <2>1 DEF y
<1>2. ASSUME NEW x \in sessions, Strike(x)
      PROVE  \E y \in Session : Moved(x, y)
  <2>1. x \in Session /\ x.rotated \in BOOLEAN
    BY <1>0 DEF Session
  <2>2. CASE sessions' = sessions \ {x}
    BY <2>1, <2>2 DEF SameGrant
  <2>3. CASE sessions' = (sessions \ {x}) \cup {[x EXCEPT !.raced = TRUE]}
    <3>1. [x EXCEPT !.raced = TRUE] = [x EXCEPT !.rotated = x.rotated, !.raced = TRUE]
      BY <2>1 DEF Session
    <3>2. sessions' \subseteq (sessions \ {x}) \cup
                                {[x EXCEPT !.rotated = x.rotated, !.raced = TRUE]}
      BY <2>3, <3>1
    <3>3. QED
      BY <1>1, <2>1, <3>2
  <2>4. QED
    BY <1>2, <2>2, <2>3 DEF Strike
<1>3. CASE Rotate
  <2>1. PICK x \in sessions :
            sessions' = (sessions \ {x}) \cup {[x EXCEPT !.rotated = TRUE]}
    BY <1>3 DEF Rotate
  <2>2. /\ x.raced \in BOOLEAN
        /\ [x EXCEPT !.rotated = TRUE] = [x EXCEPT !.rotated = TRUE, !.raced = x.raced]
    BY <1>0 DEF Session
  <2>3. sessions' \subseteq (sessions \ {x}) \cup
                              {[x EXCEPT !.rotated = TRUE, !.raced = x.raced]}
    BY <2>1, <2>2
  <2>4. \E y \in Session : Moved(x, y)
    BY <1>1, <2>2, <2>3
  <2>5. QED
    BY <1>3, <2>4 DEF Rotate
<1>4. CASE Reissue
  <2>1. PICK x \in sessions : sessions' = (sessions \ {x}) \cup
            {[x EXCEPT !.rotated = FALSE, !.raced = @ \/ UnderRevocation(x.email)]}
    BY <1>4 DEF Reissue
  <2> DEFINE raced == x.raced \/ UnderRevocation(x.email)
  <2>2. /\ raced \in BOOLEAN /\ (x.raced => raced)
        /\ sessions' = (sessions \ {x}) \cup
                          {[x EXCEPT !.rotated = FALSE, !.raced = raced]}
    BY <1>0, <2>1 DEF Session
  <2> HIDE DEF raced
  <2>3. QED
    BY <1>1, <1>4, <2>2 DEF Reissue
<1>5. CASE EndSession
  <2>1. PICK x \in sessions : sessions' = sessions \ {x}
    BY <1>5 DEF EndSession
  <2>2. x \in Session /\ Moved(x, x)
    BY <1>0, <2>1 DEF SameGrant
  <2>3. QED
    BY <1>5, <2>2 DEF EndSession
<1>6. CASE Logout
  BY <1>2, <1>6 DEF Logout
<1>7. ASSUME NEW r \in Requests, RevokeFamily(r)
      PROVE  /\ UNCHANGED <<users, identities, nonces, drawn, req>>
             /\ \E x \in sessions, y \in Session : Moved(x, y)
  BY <1>2, <1>7 DEF RevokeFamily
<1>8. QED
  BY <1>3, <1>4, <1>5, <1>6, <1>7 DEF SessionMoves

LEMMA TypeStep ==
  ASSUME TypeOK, RequestsCarry, UsersStay, [Next]_vars
  PROVE  TypeOK'
<1> USE IdleIsFree DEF TypeOK, Begin, Goto, Finish
<1>1. ASSUME NEW r \in Requests, NEW e \in Emails, NEW p \in Passwords,
             Signup(r, e, p) \/ Login(r, e, p) \/ ProveForReset(r, e, p)
      PROVE  TypeOK'
  <2>1. CASE Signup(r, e, p)
    BY <2>1 DEF Signup, Idle, Request
  <2>2. CASE Login(r, e, p)
    BY <2>2 DEF Login, Idle, Request
  <2>3. CASE ProveForReset(r, e, p)
    BY <2>3 DEF ProveForReset, Idle, Request
  <2>4. QED
    BY <1>1, <2>1, <2>2, <2>3
<1>2. ASSUME NEW r \in Requests, NEW e \in Emails, NEW p \in Passwords,
             NEW current \in Passwords, ProvePassword(r, e, current, p)
      PROVE  TypeOK'
  BY <1>2 DEF ProvePassword, Idle, Request
<1>3. ASSUME NEW r \in Requests, NEW e \in Emails, ProveForVerify(r, e)
      PROVE  TypeOK'
  BY <1>3 DEF ProveForVerify, Idle, Request
<1>4. ASSUME NEW r \in Requests, NEW n \in Nonces, NEW s \in Subjects,
             NEW e \in Emails, OAuthLogin(r, n, s, e)
      PROVE  TypeOK'
  BY <1>4 DEF OAuthLogin, Idle, Request
<1>5. ASSUME NEW r \in Requests, InsertUser(r)
      PROVE  TypeOK'
  BY <1>5 DEF InsertUser, Request
<1>6. ASSUME NEW r \in Requests, CommitSignup(r)
      PROVE  TypeOK'
  BY <1>6 DEF CommitSignup, RequestsCarry, Carries, Row, Request
<1>7. ASSUME NEW r \in Requests, CommitVerify(r) \/ CommitPassword(r)
      PROVE  TypeOK'
  <2>1. /\ Registered(req[r].email) /\ users[req[r].email] \in Row
        /\ req[r].op \in {"reset", "change"} => req[r].new \in Passwords
    BY <1>7, RequestFacts DEF CommitVerify, CommitPassword, Registered
  <2>2. CASE CommitVerify(r)
    BY <2>1, <2>2 DEF CommitVerify, Registered, Row
  <2>3. CASE CommitPassword(r)
    <3>1. [users[req[r].email] EXCEPT !.password = req[r].new] \in Row
      BY <2>1, <2>3 DEF CommitPassword, Row
    <3>2. users' \in [Emails -> Row \cup {Nil}]
      BY <2>3, <3>1 DEF CommitPassword
    <3>3. QED
      BY <2>3, <3>2 DEF CommitPassword, Request
  <2>4. QED
    BY <1>7, <2>2, <2>3
<1>8. ASSUME NEW r \in Requests, RevokeAll(r) \/ ClearIndex(r)
      PROVE  TypeOK'
  <2>1. CASE RevokeAll(r)
    BY <2>1 DEF RevokeAll, Request
  <2>2. CASE ClearIndex(r)
    BY <2>2 DEF ClearIndex
  <2>3. QED
    BY <1>8, <2>1, <2>2
<1>9. ASSUME NEW r \in Requests, ByIdentity(r)
      PROVE  TypeOK'
  BY <1>9 DEF ByIdentity, Identity, Request
<1>10. ASSUME NEW r \in Requests, ByEmail(r)
       PROVE  TypeOK'
  <2> DEFINE row == users[req[r].email]
             next == IF row = Nil THEN "insert" ELSE "link"
             q == [req[r] EXCEPT !.pc = next, !.seen = row]
  <2>1. row \in Row \cup {Nil} /\ req[r] \in Request
    BY <1>10, RequestFacts DEF ByEmail
  <2>2. q \in Request
    <3>1. next \in {"insert", "link"}
      OBVIOUS
    <3> HIDE DEF next, row
    <3>2. QED
      BY <2>1, <3>1, RecordOfRequest
  <2>3. req' = [req EXCEPT ![r] = q]
    BY <1>10 DEF ByEmail
  <2>4. QED
    BY <1>10, <2>2, <2>3 DEF ByEmail
<1>11. ASSUME NEW r \in Requests, Link(r)
       PROVE  TypeOK'
  <2>1. /\ req[r].email \in Emails /\ req[r].subject \in Subjects
        /\ Linked(r) \in Row
    BY <1>11, RequestFacts, LinkedRow DEF Link
  <2>2. CASE Unclaimed(req[r].subject)
    BY <1>11, <2>1, <2>2 DEF Link, Identity, Request
  <2>3. CASE ~Unclaimed(req[r].subject)
    BY <1>11, <2>3 DEF Link
  <2>4. QED
    BY <2>2, <2>3
<1>12. ASSUME NEW r \in Requests, Issue(r)
       PROVE  TypeOK'
  <2>1. /\ req[r].email \in Emails /\ req[r].new \in Passwords \cup {Nil}
        /\ req[r].nonce \in Nonces \cup {Nil}
    BY <1>12, RequestFacts DEF Issue
  <2> DEFINE late == req[r].op = "login" /\ users[req[r].email].password # req[r].new
             raced == UnderRevocation(req[r].email)
             x == [email |-> req[r].email, password |-> req[r].new,
                   nonce |-> req[r].nonce, rotated |-> FALSE, raced |-> raced,
                   late |-> late, spared |-> FALSE]
  <2>2. late \in BOOLEAN /\ raced \in BOOLEAN
    BY DEF UnderRevocation
  <2>3. x \in Session
    <3> HIDE DEF late, raced
    <3>1. QED
      BY <2>1, <2>2 DEF Session
  <2>4. QED
    BY <1>12, <2>3 DEF Issue
<1>13. ASSUME NEW r \in Requests, Abandon(r)
       PROVE  TypeOK'
  <2>1. \A x \in sessions :
            [x EXCEPT !.spared = @ \/ x.email = req[r].email] \in Session
    BY DEF Session
  <2>2. sessions' \subseteq Session
    BY <1>13, <2>1 DEF Abandon
  <2>3. QED
    BY <1>13, <2>2 DEF Abandon
<1>14. ASSUME NEW n \in Nonces, CreateChallenge(n) \/ ExpireNonce(n)
       PROVE  TypeOK'
  BY <1>14 DEF CreateChallenge, ExpireNonce
<1>15. CASE SessionMoves
  BY <1>15, OneSessionMoves
<1>16. ASSUME NEW r \in Requests, NEW e \in Emails, LogoutAll(r, e)
       PROVE  TypeOK'
  BY <1>16 DEF LogoutAll, Idle, Request
<1>17. CASE UNCHANGED vars
  BY <1>17 DEF vars
<1>18. QED
  BY <1>1, <1>2, <1>3, <1>4, <1>5, <1>6, <1>7, <1>8, <1>9, <1>10, <1>11,
     <1>12, <1>13, <1>14, <1>15, <1>16, <1>17 DEF Next, SessionMoves

-----------------------------------------------------------------------------
(* The parts of the invariant, one lemma each.                             *)

(* The step is one of request r.                                           *)
OnlyMoves(r) == \A q \in Requests \ {r} : req'[q] = req[q]

(* What the ends of a step leave behind.                                   *)
LEMMA GotoFields ==
  ASSUME TypeOK, NEW r \in Requests, NEW pc, Goto(r, pc)
  PROVE  /\ req'[r].pc = pc
         /\ req'[r].op = req[r].op /\ req'[r].email = req[r].email
         /\ req'[r].seen = req[r].seen /\ req'[r].new = req[r].new
         /\ req'[r].subject = req[r].subject /\ req'[r].nonce = req[r].nonce
         /\ OnlyMoves(r)
BY DEF TypeOK, Request, Goto, OnlyMoves

LEMMA FinishFields ==
  ASSUME TypeOK, NEW r \in Requests, Finish(r)
  PROVE  /\ req'[r] = Idle
         /\ OnlyMoves(r)
BY DEF TypeOK, Finish, OnlyMoves

(* What a request carries after its first step.                            *)
Starts(r, pc, op, e, seen, new, s, n) ==
    /\ req[r] = Idle
    /\ req'[r].pc = pc /\ req'[r].op = op
    /\ req'[r].email = e /\ req'[r].seen = seen /\ req'[r].new = new
    /\ req'[r].subject = s /\ req'[r].nonce = n
    /\ OnlyMoves(r)

LEMMA SignupStarts ==
  ASSUME TypeOK, NEW r \in Requests, NEW e, NEW p, Signup(r, e, p)
  PROVE  Starts(r, "insert", "signup", e, Nil, p, Nil, Nil)
BY DEF TypeOK, Signup, Begin, Starts, Idle, OnlyMoves

LEMMA LoginStarts ==
  ASSUME TypeOK, NEW r \in Requests, NEW e, NEW p, Login(r, e, p)
  PROVE  Starts(r, "issue", "login", e, Nil, p, Nil, Nil)
BY DEF TypeOK, Login, Begin, Starts, Idle, OnlyMoves

LEMMA VerifyStarts ==
  ASSUME TypeOK, NEW r \in Requests, NEW e, ProveForVerify(r, e)
  PROVE  Starts(r, "write", "verify", e, users[e], Nil, Nil, Nil)
BY DEF TypeOK, ProveForVerify, Begin, Starts, Idle, OnlyMoves

LEMMA ResetStarts ==
  ASSUME TypeOK, NEW r \in Requests, NEW e, NEW p, ProveForReset(r, e, p)
  PROVE  Starts(r, "write", "reset", e, Nil, p, Nil, Nil)
BY DEF TypeOK, ProveForReset, Begin, Starts, Idle, OnlyMoves

LEMMA ChangeStarts ==
  ASSUME TypeOK, NEW r \in Requests, NEW e, NEW p, NEW current,
         ProvePassword(r, e, current, p)
  PROVE  Starts(r, "write", "change", e, Nil, p, Nil, Nil)
BY DEF TypeOK, ProvePassword, Begin, Starts, Idle, OnlyMoves

LEMMA OAuthStarts ==
  ASSUME TypeOK, NEW r \in Requests, NEW n, NEW s, NEW e, OAuthLogin(r, n, s, e)
  PROVE  Starts(r, "identity", "oauth", e, Nil, Nil, s, n)
BY DEF TypeOK, OAuthLogin, Begin, Starts, Idle, OnlyMoves

LEMMA LogoutAllStarts ==
  ASSUME TypeOK, NEW r \in Requests, NEW e, LogoutAll(r, e)
  PROVE  Starts(r, "revoking", "logoutAll", e, Nil, Nil, Nil, Nil)
BY DEF TypeOK, LogoutAll, Begin, Starts, Idle, OnlyMoves

LEMMA ByIdentityFields ==
  ASSUME TypeOK, NEW r \in Requests, ByIdentity(r)
  PROVE  /\ \/ req'[r].pc = "lookup" /\ req'[r].email = req[r].email
            \/ /\ req'[r].pc = "issue"
               /\ \E i \in identities : req'[r].email = i.email
         /\ req[r].pc = "identity"
         /\ req'[r].op = req[r].op
         /\ req'[r].seen = req[r].seen /\ req'[r].new = req[r].new
         /\ req'[r].subject = req[r].subject /\ req'[r].nonce = req[r].nonce
         /\ OnlyMoves(r)
<1>1. CASE Goto(r, "lookup")
  BY <1>1, GotoFields DEF ByIdentity
<1>2. ASSUME NEW i \in identities,
             req' = [req EXCEPT ![r].pc = "issue", ![r].email = i.email]
      PROVE  /\ req'[r].pc = "issue" /\ req'[r].email = i.email
             /\ req'[r].op = req[r].op
             /\ req'[r].seen = req[r].seen /\ req'[r].new = req[r].new
             /\ req'[r].subject = req[r].subject /\ req'[r].nonce = req[r].nonce
             /\ OnlyMoves(r)
  BY <1>2 DEF TypeOK, Request, OnlyMoves
<1>3. QED
  BY <1>1, <1>2 DEF ByIdentity

LEMMA ByEmailFields ==
  ASSUME TypeOK, NEW r \in Requests, ByEmail(r)
  PROVE  /\ req[r].pc = "lookup"
         /\ req'[r].seen = users[req[r].email]
         /\ req'[r].pc = IF req'[r].seen = Nil THEN "insert" ELSE "link"
         /\ req'[r].op = req[r].op /\ req'[r].email = req[r].email
         /\ req'[r].new = req[r].new
         /\ req'[r].subject = req[r].subject /\ req'[r].nonce = req[r].nonce
         /\ OnlyMoves(r)
<1> DEFINE row == users[req[r].email]
           pc == IF row = Nil THEN "insert" ELSE "link"
<1>1. req' = [req EXCEPT ![r] = [req[r] EXCEPT !.pc = pc, !.seen = row]]
  BY DEF ByEmail, TypeOK
<1> HIDE DEF pc, row
<1>2. QED
  BY <1>1 DEF TypeOK, Request, ByEmail, pc, row, OnlyMoves

LEMMA CarryStep ==
  ASSUME TypeOK, RequestsCarry, UsersStay, [Next]_vars
  PROVE  RequestsCarry'
<1> DEFINE Kept(r) == Carries(req'[r]) /\ OnlyMoves(r)
<1>0. /\ Carries(Idle)
      /\ \A r \in Requests : Carries(req[r])
  BY IdleIsFree DEF RequestsCarry, Carries
<1>1. ASSUME NEW r \in Requests, NEW e \in Emails, NEW p \in Passwords,
             \/ Signup(r, e, p) \/ Login(r, e, p) \/ ProveForReset(r, e, p)
             \/ \E current \in Passwords : ProvePassword(r, e, current, p)
      PROVE  Kept(r)
  <2>1. CASE Signup(r, e, p)
    BY <1>0, <2>1, SignupStarts DEF Starts, Carries
  <2>2. CASE Login(r, e, p)
    BY <1>0, <2>2, LoginStarts DEF Starts, Carries
  <2>3. CASE ProveForReset(r, e, p)
    BY <1>0, <2>3, ResetStarts DEF Starts, Carries
  <2>4. CASE \E current \in Passwords : ProvePassword(r, e, current, p)
    BY <1>0, <2>4, ChangeStarts DEF Starts, Carries
  <2>5. QED
    BY <1>1, <2>1, <2>2, <2>3, <2>4
<1>2. ASSUME NEW r \in Requests, NEW e \in Emails,
             ProveForVerify(r, e) \/ LogoutAll(r, e)
      PROVE  Kept(r)
  <2>1. CASE ProveForVerify(r, e)
    BY <1>0, <2>1, VerifyStarts DEF Starts, Carries
  <2>2. CASE LogoutAll(r, e)
    BY <1>0, <2>2, LogoutAllStarts DEF Starts, Carries
  <2>3. QED
    BY <1>2, <2>1, <2>2
<1>3. ASSUME NEW r \in Requests, NEW n \in Nonces, NEW s \in Subjects,
             NEW e \in Emails, OAuthLogin(r, n, s, e)
      PROVE  Kept(r)
  BY <1>0, <1>3, OAuthStarts DEF Starts, Carries
<1>4. ASSUME NEW r \in Requests, InsertUser(r)
      PROVE  Kept(r)
  <2>1. CASE Finish(r)
    BY <1>0, <2>1, FinishFields
  <2>2. CASE req[r].op = "signup" /\ Goto(r, "send")
    BY <1>0, <1>4, <2>2, GotoFields DEF InsertUser, Carries
  <2>3. CASE req[r].op # "signup" /\ Goto(r, "link")
    BY <1>0, <1>4, <2>3, GotoFields DEF InsertUser, Carries
  <2>4. QED
    BY <1>4, <2>1, <2>2, <2>3 DEF InsertUser
<1>5. ASSUME NEW r \in Requests, CommitPassword(r) \/ RevokeAll(r)
      PROVE  Kept(r)
  <2>1. CASE CommitPassword(r)
    BY <1>0, <2>1, GotoFields DEF CommitPassword, Carries
  <2>2. CASE RevokeAll(r)
    BY <1>0, <2>2, GotoFields DEF RevokeAll, Carries
  <2>3. QED
    BY <1>5, <2>1, <2>2
<1>6. ASSUME NEW r \in Requests,
             \/ CommitSignup(r) \/ CommitVerify(r) \/ ClearIndex(r) \/ Issue(r)
             \/ Abandon(r)
      PROVE  Kept(r)
  <2>1. Finish(r)
    BY <1>6 DEF CommitSignup, CommitVerify, ClearIndex, Issue, Abandon
  <2>2. QED
    BY <1>0, <2>1, FinishFields
<1>7. ASSUME NEW r \in Requests, ByIdentity(r)
      PROVE  Kept(r)
  <2>1. \A i \in identities : i.email \in Emails
    BY DEF TypeOK, Identity
  <2>2. QED
    BY <1>0, <1>7, <2>1, ByIdentityFields DEF Carries
<1>8. ASSUME NEW r \in Requests, ByEmail(r)
      PROVE  Kept(r)
  BY <1>0, <1>8, ByEmailFields DEF Carries
<1>9. ASSUME NEW r \in Requests, Link(r)
      PROVE  Kept(r)
  <2>1. CASE Goto(r, "issue")
    BY <1>0, <1>9, <2>1, GotoFields DEF Link, Carries
  <2>2. CASE Finish(r)
    BY <1>0, <2>2, FinishFields
  <2>3. QED
    BY <1>9, <2>1, <2>2 DEF Link
<1>10. CASE UNCHANGED req
  BY <1>10 DEF RequestsCarry, Carries
<1>11. (\E r \in Requests : Kept(r)) => RequestsCarry'
  BY <1>0 DEF RequestsCarry, OnlyMoves, Carries
<1> HIDE DEF Kept
<1>12. CASE SessionMoves
  BY <1>10, <1>12, OneSessionMoves
<1>13. QED
  BY <1>1, <1>2, <1>3, <1>4, <1>5, <1>6, <1>7, <1>8, <1>9, <1>10, <1>11, <1>12
     DEF Next, SessionMoves, CreateChallenge, ExpireNonce, vars

(* The steps that commit rows are these four.                              *)
LEMMA OnlyCommitsWrite ==
  ASSUME [Next]_vars
  PROVE  \/ UNCHANGED <<users, identities>>
         \/ \E r \in Requests :
               CommitSignup(r) \/ CommitVerify(r) \/ CommitPassword(r) \/ Link(r)
<1> DEFINE Same == UNCHANGED <<users, identities>>
<1>1. \A r \in Requests, e \in Emails, p \in Passwords :
         Signup(r, e, p) \/ Login(r, e, p) \/ ProveForReset(r, e, p) => Same
  BY DEF Signup, Login, ProveForReset
<1>2. \A r \in Requests, e \in Emails, current, p \in Passwords :
         ProvePassword(r, e, current, p) => Same
  BY DEF ProvePassword
<1>3. \A r \in Requests, e \in Emails :
         ProveForVerify(r, e) \/ LogoutAll(r, e) => Same
  BY DEF ProveForVerify, LogoutAll
<1>4. \A r \in Requests, n \in Nonces, s \in Subjects, e \in Emails :
         OAuthLogin(r, n, s, e) => Same
  BY DEF OAuthLogin
<1>5. \A r \in Requests :
         InsertUser(r) \/ RevokeAll(r) \/ ClearIndex(r) \/ ByIdentity(r)
            \/ ByEmail(r) \/ Issue(r) \/ Abandon(r) => Same
  BY DEF InsertUser, RevokeAll, ClearIndex, ByIdentity, ByEmail, Issue, Abandon
<1>6. \A n \in Nonces : CreateChallenge(n) \/ ExpireNonce(n) => Same
  BY DEF CreateChallenge, ExpireNonce
<1>7. SessionMoves \/ UNCHANGED vars => Same
  BY DEF SessionMoves, Rotate, Reissue, EndSession, Logout, RevokeFamily, vars
<1> HIDE DEF Same
<1>8. Same \/ \E r \in Requests :
               CommitSignup(r) \/ CommitVerify(r) \/ CommitPassword(r) \/ Link(r)
  BY <1>1, <1>2, <1>3, <1>4, <1>5, <1>6, <1>7 DEF Next, SessionMoves
<1>9. QED
  BY <1>8 DEF Same

(* Sessions go on through the steps that move or mark them.                *)
LEMMA MovesKeepSessions ==
  ASSUME TypeOK, SessionMoves
  PROVE  SessionsGoOn
<1>1. PICK x \in sessions, y \in Session :
          SameGrant(y, x) /\ sessions' \subseteq (sessions \ {x}) \cup {y}
  BY OneSessionMoves
<1>2. \A z \in sessions : SameGrant(z, z)
  BY DEF SameGrant
<1>3. QED
  BY <1>1, <1>2 DEF SessionsGoOn

LEMMA MarksKeepSessions ==
  ASSUME TypeOK, NEW r \in Requests, Abandon(r)
  PROVE  SessionsGoOn
<1> DEFINE f(x) == [x EXCEPT !.spared = @ \/ x.email = req[r].email]
<1>1. CASE Ending(r)
  <2>1. sessions' = {f(x) : x \in sessions}
    BY <1>1 DEF Abandon
  <2>2. \A x \in sessions : SameGrant(f(x), x)
    BY DEF TypeOK, Session, SameGrant
  <2> HIDE DEF f
  <2>3. QED
    BY <2>1, <2>2 DEF SessionsGoOn
<1>2. CASE ~Ending(r)
  BY <1>2 DEF Abandon, SessionsGoOn, SameGrant
<1>3. QED
  BY <1>1, <1>2

(* And a session is granted by this one: all others move, mark or leave    *)
(* alone what is there.                                                    *)
LEMMA OnlyIssueGrants ==
  ASSUME TypeOK, [Next]_vars
  PROVE  SessionsGoOn \/ \E r \in Requests : Issue(r)
<1> DEFINE Same == UNCHANGED sessions
<1>1. \A r \in Requests, e \in Emails, p \in Passwords :
         Signup(r, e, p) \/ Login(r, e, p) \/ ProveForReset(r, e, p) => Same
  BY DEF Signup, Login, ProveForReset
<1>2. \A r \in Requests, e \in Emails, current, p \in Passwords :
         ProvePassword(r, e, current, p) => Same
  BY DEF ProvePassword
<1>3. \A r \in Requests, e \in Emails :
         ProveForVerify(r, e) \/ LogoutAll(r, e) => Same
  BY DEF ProveForVerify, LogoutAll
<1>4. \A r \in Requests, n \in Nonces, s \in Subjects, e \in Emails :
         OAuthLogin(r, n, s, e) => Same
  BY DEF OAuthLogin
<1>5. \A r \in Requests :
         InsertUser(r) \/ CommitSignup(r) \/ CommitVerify(r) \/ CommitPassword(r)
            \/ RevokeAll(r) \/ ClearIndex(r) \/ ByIdentity(r) \/ ByEmail(r) \/ Link(r)
         => Same
  BY DEF InsertUser, CommitSignup, CommitVerify, CommitPassword, RevokeAll,
         ClearIndex, ByIdentity, ByEmail, Link
<1>6. \A n \in Nonces : CreateChallenge(n) \/ ExpireNonce(n) => Same
  BY DEF CreateChallenge, ExpireNonce
<1>7. UNCHANGED vars => Same
  BY DEF vars
<1>8. Same => SessionsGoOn
  BY DEF SessionsGoOn, SameGrant
<1>9. SessionMoves => SessionsGoOn
  BY MovesKeepSessions
<1>10. \A r \in Requests : Abandon(r) => SessionsGoOn
  BY MarksKeepSessions
<1> HIDE DEF Same
<1>11. QED
  BY <1>1, <1>2, <1>3, <1>4, <1>5, <1>6, <1>7, <1>8, <1>9, <1>10
     DEF Next, SessionMoves

(* No step loses a user.                                                   *)
LEMMA UsersAreKept ==
  ASSUME TypeOK, RequestsCarry, UsersStay, [Next]_vars,
         NEW e \in Emails, users[e] # Nil
  PROVE  users'[e] # Nil
<1>1. users'[e] \in Row \cup {Nil} /\ Nil \notin Row
  BY TypeStep, NilAssumption DEF TypeOK
<1>2. ASSUME NEW r \in Requests, CommitSignup(r)
      PROVE  users'[e] # Nil
  <2>1. req[r].new \in Passwords
    BY <1>2, RequestFacts DEF CommitSignup
  <2>2. [password |-> req[r].new, verified |-> FALSE] \in Row
    BY <2>1 DEF Row
  <2>3. QED
    BY <1>1, <1>2, <2>2 DEF CommitSignup, TypeOK
<1>3. ASSUME NEW r \in Requests, CommitVerify(r) \/ CommitPassword(r)
      PROVE  users'[e] # Nil
  <2>1. /\ users[req[r].email] \in Row
        /\ req[r].op \in {"reset", "change"} => req[r].new \in Passwords
    BY <1>3, RequestFacts DEF CommitVerify, CommitPassword
  <2>2. CASE CommitVerify(r)
    <3>1. [users[req[r].email] EXCEPT !.verified = TRUE] \in Row
      BY <2>1 DEF Row
    <3>2. QED
      BY <1>1, <2>2, <3>1 DEF CommitVerify, TypeOK
  <2>3. CASE CommitPassword(r)
    <3>1. [users[req[r].email] EXCEPT !.password = req[r].new] \in Row
      BY <2>1, <2>3 DEF CommitPassword, Row
    <3>2. QED
      BY <1>1, <2>3, <3>1 DEF CommitPassword, TypeOK
  <2>4. QED
    BY <1>3, <2>2, <2>3
<1>4. ASSUME NEW r \in Requests, Link(r)
      PROVE  users'[e] # Nil
  <2>1. Linked(r) \in Row
    BY <1>4, LinkedRow DEF Link
  <2>2. QED
    BY <1>1, <1>4, <2>1 DEF Link, TypeOK
<1>5. CASE UNCHANGED users
  BY <1>5
<1>6. QED
  BY <1>2, <1>3, <1>4, <1>5, OnlyCommitsWrite

LEMMA UsersStayStep ==
  ASSUME TypeOK, RequestsCarry, UsersStay, EveryAccountHasALogin, [Next]_vars
  PROVE  UsersStay'
<1> DEFINE Needs(q) == \/ q.pc \in {"write", "revoke", "revoking", "issue"}
                       \/ q.pc = "link" /\ q.seen # Nil
           Stays(e) == e \in Emails /\ users'[e] # Nil
           Kept(r) == OnlyMoves(r) /\ (Needs(req'[r]) => Stays(req'[r].email))
<1>0. \A r \in Requests : Needs(req[r]) => Registered(req[r].email)
  BY DEF UsersStay
<1>1. \A e : Registered(e) => Stays(e)
  BY UsersAreKept DEF Registered
<1>2. \A r \in Requests : Needs(req'[r]) => Stays(req'[r].email)
  <2> USE IdleIsFree
  <2>1. ASSUME NEW r \in Requests, NEW e \in Emails, NEW p \in Passwords,
               \/ Signup(r, e, p) \/ Login(r, e, p) \/ ProveForReset(r, e, p)
               \/ \E current \in Passwords : ProvePassword(r, e, current, p)
        PROVE  Kept(r)
    <3>1. CASE Signup(r, e, p)
      BY <1>0, <1>1, <3>1, SignupStarts DEF Starts
    <3>2. CASE Login(r, e, p)
      <4>1. Stays(e)
        BY <1>1, <3>2 DEF Login, Registered
      <4>2. QED
        BY <3>2, <4>1, LoginStarts DEF Starts
    <3>3. CASE ProveForReset(r, e, p)
      <4>1. Stays(e)
        BY <1>1, <3>3 DEF ProveForReset, Registered
      <4>2. QED
        BY <3>3, <4>1, ResetStarts DEF Starts
    <3>4. CASE \E current \in Passwords : ProvePassword(r, e, current, p)
      <4>1. Stays(e)
        BY <1>1, <3>4 DEF ProvePassword, Registered
      <4>2. QED
        BY <3>4, <4>1, ChangeStarts DEF Starts
    <3>5. QED
      BY <2>1, <3>1, <3>2, <3>3, <3>4
  <2>2. ASSUME NEW r \in Requests, NEW e \in Emails,
               ProveForVerify(r, e) \/ LogoutAll(r, e)
        PROVE  Kept(r)
    <3>1. CASE ProveForVerify(r, e)
      <4>1. Stays(e)
        BY <1>1, <3>1 DEF ProveForVerify, Registered
      <4>2. QED
        BY <3>1, <4>1, VerifyStarts DEF Starts
    <3>2. CASE LogoutAll(r, e)
      <4>1. Stays(e)
        BY <1>1, <3>2 DEF LogoutAll, Registered
      <4>2. QED
        BY <3>2, <4>1, LogoutAllStarts DEF Starts
    <3>3. QED
      BY <2>2, <3>1, <3>2
  <2>3. ASSUME NEW r \in Requests, NEW n \in Nonces, NEW s \in Subjects,
               NEW e \in Emails, OAuthLogin(r, n, s, e)
        PROVE  Kept(r)
    BY <1>0, <1>1, <2>3, OAuthStarts DEF Starts
  <2>4. ASSUME NEW r \in Requests, InsertUser(r)
        PROVE  Kept(r)
    <3>1. CASE Finish(r)
      BY <1>0, <1>1, <3>1, FinishFields
    <3>2. CASE \E pc \in {"send", "link"} : Goto(r, pc)
      <4>1. req[r].seen = Nil
        BY <2>4, RequestFacts DEF InsertUser
      <4>2. QED
        BY <1>0, <1>1, <3>2, <4>1, GotoFields
    <3>3. QED
      BY <2>4, <3>1, <3>2 DEF InsertUser
  <2>5. ASSUME NEW r \in Requests, CommitPassword(r) \/ RevokeAll(r)
        PROVE  Kept(r)
    <3>1. CASE CommitPassword(r)
      BY <1>0, <1>1, <3>1, GotoFields DEF CommitPassword
    <3>2. CASE RevokeAll(r)
      BY <1>0, <1>1, <3>2, GotoFields DEF RevokeAll
    <3>3. QED
      BY <2>5, <3>1, <3>2
  <2>6. ASSUME NEW r \in Requests,
               \/ CommitSignup(r) \/ CommitVerify(r) \/ ClearIndex(r) \/ Issue(r)
               \/ Abandon(r)
        PROVE  Kept(r)
    <3>1. Finish(r)
      BY <2>6 DEF CommitSignup, CommitVerify, ClearIndex, Issue, Abandon
    <3>2. QED
      BY <1>0, <1>1, <3>1, FinishFields
  <2>7. ASSUME NEW r \in Requests, ByIdentity(r)
        PROVE  Kept(r)
    <3>1. \A i \in identities : Registered(i.email)
      BY DEF TypeOK, Identity, EveryAccountHasALogin, Registered
    <3>2. QED
      BY <1>0, <1>1, <2>7, <3>1, ByIdentityFields
  <2>8. ASSUME NEW r \in Requests, ByEmail(r)
        PROVE  Kept(r)
    <3>1. req[r].email \in Emails
      BY <2>8, RequestFacts DEF ByEmail
    <3>2. QED
      BY <1>0, <1>1, <2>8, <3>1, ByEmailFields DEF Registered
  <2>9. ASSUME NEW r \in Requests, Link(r)
        PROVE  Kept(r)
    <3>1. CASE Finish(r)
      BY <1>0, <1>1, <3>1, FinishFields
    <3>2. CASE Goto(r, "issue") /\ Unclaimed(req[r].subject)
      <4>1. req[r].email \in Emails /\ Linked(r) # Nil
        BY <2>9, RequestFacts, LinkedRow, NilAssumption DEF Link
      <4>2. users'[req[r].email] = Linked(r)
        BY <2>9, <3>2, <4>1 DEF Link, TypeOK
      <4>3. QED
        BY <1>0, <1>1, <3>2, <4>1, <4>2, GotoFields DEF Registered
    <3>3. QED
      BY <2>9, <3>1, <3>2 DEF Link
  <2>10. CASE UNCHANGED req
    BY <1>0, <1>1, <2>10
  <2>11. CASE SessionMoves
    BY <2>10, <2>11, OneSessionMoves
  <2>12. ASSUME NEW r \in Requests, Kept(r)
         PROVE  \A q \in Requests : Needs(req'[q]) => Stays(req'[q].email)
    BY <1>0, <1>1, <2>12 DEF OnlyMoves
  <2> HIDE DEF Kept, Needs, Stays
  <2>13. QED
    BY <2>1, <2>2, <2>3, <2>4, <2>5, <2>6, <2>7, <2>8, <2>9, <2>10, <2>11, <2>12
       DEF Next, SessionMoves, CreateChallenge, ExpireNonce, vars
<1>3. \A x \in sessions' : Registered(x.email)
  <2>1. ASSUME NEW r \in Requests, Issue(r)
        PROVE  \A x \in sessions' : Registered(x.email)
    BY <2>1, RequestFacts DEF Issue, UsersStay
  <2>2. CASE SessionsGoOn
    BY <2>2 DEF UsersStay, SessionsGoOn, SameGrant
  <2>3. QED
    BY <2>1, <2>2, OnlyIssueGrants
<1>4. QED
  BY <1>1, <1>2, <1>3 DEF UsersStay, Registered

LEMMA InsertsStep ==
  ASSUME TypeOK, RequestsCarry, UsersStay, InsertsAreUnique, [Next]_vars
  PROVE  InsertsAreUnique'
<1> USE DEF Inserted
<1>1. ASSUME NEW r \in Requests, OnlyMoves(r), ~Inserted(r)', UNCHANGED users
      PROVE  InsertsAreUnique'
  BY <1>1 DEF InsertsAreUnique, OnlyMoves
<1>2. ASSUME NEW r \in Requests, OnlyMoves(r), ~Inserted(r)',
             \A q \in Requests \ {r} : Inserted(q) => req[q].email # req[r].email,
             \A e \in Emails : e # req[r].email => users'[e] = users[e]
      PROVE  InsertsAreUnique'
  <2>1. \A q \in Requests : Inserted(q) => req[q].email \in Emails
    BY RequestFacts
  <2>2. QED
    BY <1>2, <2>1 DEF InsertsAreUnique, OnlyMoves
<1>3. ASSUME NEW r \in Requests, NEW e \in Emails, NEW p \in Passwords,
             \/ Signup(r, e, p) \/ Login(r, e, p) \/ ProveForReset(r, e, p)
             \/ \E current \in Passwords : ProvePassword(r, e, current, p)
      PROVE  InsertsAreUnique'
  <2>1. OnlyMoves(r) /\ req'[r].pc \in {"insert", "issue", "write"}
    BY <1>3, SignupStarts, LoginStarts, ResetStarts, ChangeStarts DEF Starts
  <2>2. QED
    BY <1>1, <1>3, <2>1 DEF Signup, Login, ProveForReset, ProvePassword
<1>4. ASSUME NEW r \in Requests, NEW e \in Emails,
             ProveForVerify(r, e) \/ LogoutAll(r, e)
      PROVE  InsertsAreUnique'
  <2>1. OnlyMoves(r) /\ req'[r].pc \in {"write", "revoking"}
    BY <1>4, VerifyStarts, LogoutAllStarts DEF Starts
  <2>2. QED
    BY <1>1, <1>4, <2>1 DEF ProveForVerify, LogoutAll
<1>5. ASSUME NEW r \in Requests, NEW n \in Nonces, NEW s \in Subjects,
             NEW e \in Emails, OAuthLogin(r, n, s, e)
      PROVE  InsertsAreUnique'
  BY <1>1, <1>5, OAuthStarts DEF OAuthLogin, Starts
<1>6. ASSUME NEW r \in Requests, InsertUser(r)
      PROVE  InsertsAreUnique'
  <2>1. CASE Finish(r)
    BY <1>1, <1>6, <2>1, FinishFields, IdleIsFree DEF InsertUser
  <2>2. CASE /\ users[req[r].email] = Nil
             /\ \E pc \in {"send", "link"} : Goto(r, pc)
    <3>1. OnlyMoves(r) /\ req'[r].email = req[r].email
      BY <2>2, GotoFields
    <3>2. \A q \in Requests : Inserted(q) => req[q].email # req[r].email
      BY <1>6 DEF InsertUser, IndexFree
    <3>3. UNCHANGED users
      BY <1>6 DEF InsertUser
    <3>4. QED
      BY <2>2, <3>1, <3>2, <3>3 DEF InsertsAreUnique, OnlyMoves
  <2>3. QED
    BY <1>6, <2>1, <2>2 DEF InsertUser
<1>7. ASSUME NEW r \in Requests, CommitSignup(r)
      PROVE  InsertsAreUnique'
  BY <1>2, <1>7, FinishFields, IdleIsFree DEF CommitSignup, InsertsAreUnique, TypeOK
<1>8. ASSUME NEW r \in Requests, CommitVerify(r) \/ CommitPassword(r)
      PROVE  InsertsAreUnique'
  <2>1. OnlyMoves(r) /\ ~Inserted(r)'
    BY <1>8, FinishFields, GotoFields, IdleIsFree DEF CommitVerify, CommitPassword
  <2>2. users[req[r].email] # Nil
    BY <1>8, RequestFacts DEF CommitVerify, CommitPassword, Registered
  <2>3. \A e \in Emails : e # req[r].email => users'[e] = users[e]
    BY <1>8 DEF CommitVerify, CommitPassword, TypeOK
  <2>4. QED
    BY <1>2, <2>1, <2>2, <2>3 DEF InsertsAreUnique
<1>9. ASSUME NEW r \in Requests,
             RevokeAll(r) \/ ClearIndex(r) \/ Issue(r) \/ Abandon(r)
      PROVE  InsertsAreUnique'
  BY <1>1, <1>9, FinishFields, GotoFields, IdleIsFree
     DEF RevokeAll, ClearIndex, Issue, Abandon
<1>10. ASSUME NEW r \in Requests, ByIdentity(r)
       PROVE  InsertsAreUnique'
  BY <1>1, <1>10, ByIdentityFields DEF ByIdentity
<1>11. ASSUME NEW r \in Requests, ByEmail(r)
       PROVE  InsertsAreUnique'
  <2>1. OnlyMoves(r) /\ ~Inserted(r)'
    BY <1>11, ByEmailFields
  <2>2. QED
    BY <1>1, <1>11, <2>1 DEF ByEmail
<1>12. ASSUME NEW r \in Requests, Link(r)
       PROVE  InsertsAreUnique'
  <2>1. OnlyMoves(r) /\ ~Inserted(r)'
    BY <1>12, FinishFields, GotoFields, IdleIsFree DEF Link
  <2>2. \A e \in Emails : e # req[r].email => users'[e] = users[e]
    BY <1>12 DEF Link, TypeOK
  <2>3. req[r].seen # Nil => users[req[r].email] # Nil
    BY <1>12, RequestFacts DEF Link, Registered
  <2>4. QED
    BY <1>2, <1>12, <2>1, <2>2, <2>3 DEF Link, InsertsAreUnique
<1>13. CASE UNCHANGED <<users, req>>
  BY <1>13 DEF InsertsAreUnique
<1>14. CASE SessionMoves
  BY <1>13, <1>14, OneSessionMoves
<1>15. QED
  BY <1>3, <1>4, <1>5, <1>6, <1>7, <1>8, <1>9, <1>10, <1>11, <1>12, <1>13, <1>14
     DEF Next, SessionMoves, CreateChallenge, ExpireNonce, vars

LEMMA LoginsStep ==
  ASSUME TypeOK, RequestsCarry, UsersStay, EveryAccountHasALogin, [Next]_vars
  PROVE  EveryAccountHasALogin'
<1> DEFINE Linkable(e) == users'[e].password # Nil \/ \E i \in identities' : i.email = e
<1>0. \A e \in Emails : users[e] # Nil =>
         users[e] \in Row /\ (users[e].password # Nil \/ \E i \in identities : i.email = e)
  BY DEF EveryAccountHasALogin, TypeOK
<1>1. ASSUME NEW r \in Requests, CommitSignup(r)
      PROVE  EveryAccountHasALogin'
  <2>1. req[r].new # Nil
    BY <1>1, RequestFacts, NilAssumption DEF CommitSignup
  <2>2. \A e \in Emails : users'[e] # Nil => Linkable(e)
    BY <1>0, <1>1, <2>1 DEF CommitSignup, TypeOK
  <2>3. \A i \in identities : users'[i.email] # Nil
    BY UsersAreKept DEF EveryAccountHasALogin, TypeOK, Identity
  <2>4. QED
    BY <1>1, <2>2, <2>3 DEF CommitSignup, EveryAccountHasALogin
<1>2. ASSUME NEW r \in Requests, CommitVerify(r) \/ CommitPassword(r)
      PROVE  EveryAccountHasALogin'
  <2>1. /\ Registered(req[r].email) /\ users[req[r].email] \in Row
        /\ req[r].op \in {"reset", "change"} => req[r].new # Nil
    BY <1>2, RequestFacts, NilAssumption DEF CommitVerify, CommitPassword
  <2>2. /\ UNCHANGED identities
        /\ \A e \in Emails : e # req[r].email => users'[e] = users[e]
    BY <1>2 DEF CommitVerify, CommitPassword, TypeOK
  <2>3. \/ users'[req[r].email].password # Nil
        \/ users'[req[r].email].password = users[req[r].email].password
    <3>1. CASE CommitVerify(r)
      BY <2>1, <3>1 DEF CommitVerify, TypeOK, Registered, Row
    <3>2. CASE CommitPassword(r)
      BY <2>1, <3>2 DEF CommitPassword, TypeOK, Registered, Row
    <3>3. QED
      BY <1>2, <3>1, <3>2
  <2>4. \A e \in Emails : users'[e] # Nil => Linkable(e)
    BY <1>0, <2>1, <2>2, <2>3 DEF Registered
  <2>5. \A i \in identities : users'[i.email] # Nil
    BY UsersAreKept DEF EveryAccountHasALogin, TypeOK, Identity
  <2>6. QED
    BY <2>2, <2>4, <2>5 DEF EveryAccountHasALogin
<1>3. ASSUME NEW r \in Requests, Link(r), Unclaimed(req[r].subject)
      PROVE  EveryAccountHasALogin'
  <2>1. req[r].email \in Emails /\ Linked(r) # Nil
    BY <1>3, RequestFacts, LinkedRow, NilAssumption DEF Link
  <2>2. /\ users' = [users EXCEPT ![req[r].email] = Linked(r)]
        /\ identities' = identities \cup
                           {[subject |-> req[r].subject, email |-> req[r].email]}
    BY <1>3 DEF Link
  <2>3. \A e \in Emails : users'[e] # Nil => Linkable(e)
    BY <1>0, <2>1, <2>2 DEF TypeOK
  <2>4. \A i \in identities : users'[i.email] # Nil
    BY UsersAreKept DEF EveryAccountHasALogin, TypeOK, Identity
  <2>5. users'[req[r].email] # Nil
    BY <2>1, <2>2 DEF TypeOK
  <2>6. QED
    BY <2>2, <2>3, <2>4, <2>5 DEF EveryAccountHasALogin
<1>4. CASE UNCHANGED <<users, identities>>
  BY <1>4 DEF EveryAccountHasALogin
<1>5. QED
  <2>1. ASSUME NEW r \in Requests, Link(r), ~Unclaimed(req[r].subject)
        PROVE  UNCHANGED <<users, identities>>
    BY <2>1 DEF Link
  <2>2. QED
    BY <1>1, <1>2, <1>3, <1>4, <2>1, OnlyCommitsWrite

LEMMA IdentityStep ==
  ASSUME OneUserPerIdentity, [Next]_vars
  PROVE  OneUserPerIdentity'
<1>1. ASSUME NEW r \in Requests, Link(r), Unclaimed(req[r].subject)
      PROVE  OneUserPerIdentity'
  BY <1>1 DEF Link, Unclaimed, OneUserPerIdentity
<1>2. CASE UNCHANGED identities
  BY <1>2 DEF OneUserPerIdentity
<1>3. QED
  BY <1>1, <1>2, OnlyCommitsWrite
     DEF CommitSignup, CommitVerify, CommitPassword, Link

(* Whoever is about to revoke the sessions of a user goes on to do so.     *)
EndingGoesOn(r) == Ending(r) => Ending(r)' /\ req'[r].email = req[r].email

LEMMA SessionsStep ==
  ASSUME TypeOK, RequestsCarry, UsersStay, InsertsAreUnique,
         SessionsEndWithTheirPassword, [Next]_vars
  PROVE  SessionsEndWithTheirPassword'
<1> DEFINE Revoking(e) == \E r \in Requests : Ending(r) /\ req[r].email = e
           Excused(x) == x.late \/ x.raced \/ x.spared
           Ended(x) == \/ x.password \in {Nil, users[x.email].password}
                       \/ Excused(x) \/ Revoking(x.email)
<1>0. \A x \in sessions : Ended(x) /\ Registered(x.email)
  BY DEF SessionsEndWithTheirPassword, UsersStay
<1>1. ASSUME NEW r \in Requests, OnlyMoves(r), EndingGoesOn(r), NEW e, Revoking(e)
      PROVE  Revoking(e)'
  BY <1>1 DEF OnlyMoves, EndingGoesOn, Ending
<1>2. ASSUME NEW r \in Requests, OnlyMoves(r), EndingGoesOn(r), UNCHANGED sessions,
             \A x \in sessions : \/ users'[x.email].password = users[x.email].password
                                 \/ Revoking(x.email)'
      PROVE  SessionsEndWithTheirPassword'
  <2> SUFFICES ASSUME NEW x \in sessions PROVE Ended(x)'
    BY <1>2 DEF SessionsEndWithTheirPassword
  <2>1. Ended(x)
    BY <1>0
  <2>2. Revoking(x.email) => Revoking(x.email)'
    BY <1>1, <1>2
  <2>3. \/ users'[x.email].password = users[x.email].password
        \/ Revoking(x.email)'
    BY <1>2
  <2> HIDE DEF Revoking
  <2>4. QED
    BY <2>1, <2>2, <2>3
<1>3. ASSUME NEW r \in Requests, OnlyMoves(r), EndingGoesOn(r),
             UNCHANGED <<users, sessions>>
      PROVE  SessionsEndWithTheirPassword'
  BY <1>2, <1>3
<1> USE DEF EndingGoesOn, Ending
<1>4. ASSUME NEW r \in Requests, NEW e \in Emails, NEW p \in Passwords,
             \/ Signup(r, e, p) \/ Login(r, e, p) \/ ProveForReset(r, e, p)
             \/ \E current \in Passwords : ProvePassword(r, e, current, p)
      PROVE  SessionsEndWithTheirPassword'
  <2>1. OnlyMoves(r) /\ req[r] = Idle
    BY <1>4, SignupStarts, LoginStarts, ResetStarts, ChangeStarts DEF Starts
  <2>2. UNCHANGED <<users, sessions>>
    BY <1>4 DEF Signup, Login, ProveForReset, ProvePassword
  <2>3. QED
    BY <1>3, <2>1, <2>2, IdleIsFree
<1>5. ASSUME NEW r \in Requests, NEW e \in Emails,
             ProveForVerify(r, e) \/ LogoutAll(r, e)
      PROVE  SessionsEndWithTheirPassword'
  <2>1. OnlyMoves(r) /\ req[r] = Idle
    BY <1>5, VerifyStarts, LogoutAllStarts DEF Starts
  <2>2. UNCHANGED <<users, sessions>>
    BY <1>5 DEF ProveForVerify, LogoutAll
  <2>3. QED
    BY <1>3, <2>1, <2>2, IdleIsFree
<1>6. ASSUME NEW r \in Requests, NEW n \in Nonces, NEW s \in Subjects,
             NEW e \in Emails, OAuthLogin(r, n, s, e)
      PROVE  SessionsEndWithTheirPassword'
  BY <1>3, <1>6, OAuthStarts, IdleIsFree DEF OAuthLogin, Starts
<1>7. ASSUME NEW r \in Requests, InsertUser(r)
      PROVE  SessionsEndWithTheirPassword'
  BY <1>3, <1>7, FinishFields, GotoFields DEF InsertUser
<1>8. ASSUME NEW r \in Requests, CommitSignup(r)
      PROVE  SessionsEndWithTheirPassword'
  <2>1. /\ OnlyMoves(r) /\ req[r].pc = "send" /\ UNCHANGED sessions
        /\ users[req[r].email] = Nil
    BY <1>8, FinishFields DEF CommitSignup, InsertsAreUnique, Inserted
  <2>2. \A x \in sessions : users'[x.email] = users[x.email]
    BY <1>0, <1>8, <2>1 DEF CommitSignup, TypeOK, Registered
  <2>3. QED
    BY <1>2, <2>1, <2>2
<1>9. ASSUME NEW r \in Requests, CommitVerify(r)
      PROVE  SessionsEndWithTheirPassword'
  <2>1. /\ OnlyMoves(r) /\ req[r].pc = "write" /\ UNCHANGED sessions
        /\ Registered(req[r].email) /\ users[req[r].email] \in Row
    BY <1>9, FinishFields, RequestFacts DEF CommitVerify
  <2>2. \A x \in sessions : users'[x.email].password = users[x.email].password
    BY <1>0, <1>9, <2>1 DEF CommitVerify, TypeOK, Registered, Row
  <2>3. QED
    BY <1>2, <2>1, <2>2
<1>10. ASSUME NEW r \in Requests, CommitPassword(r)
       PROVE  SessionsEndWithTheirPassword'
  <2>1. /\ OnlyMoves(r) /\ req[r].pc = "write" /\ UNCHANGED sessions
        /\ Ending(r)' /\ req'[r].email = req[r].email
    BY <1>10, GotoFields DEF CommitPassword
  <2>2. \A x \in sessions : x.email # req[r].email => users'[x.email] = users[x.email]
    BY <1>0, <1>10 DEF CommitPassword, TypeOK, Registered
  <2>3. QED
    BY <1>2, <2>1, <2>2
<1>11. ASSUME NEW r \in Requests, RevokeAll(r)
       PROVE  SessionsEndWithTheirPassword'
  BY <1>3, <1>11, GotoFields DEF RevokeAll
<1>12. ASSUME NEW r \in Requests, ClearIndex(r)
       PROVE  SessionsEndWithTheirPassword'
  <2>1. /\ OnlyMoves(r) /\ UNCHANGED <<users, sessions>>
        /\ \A x \in sessions : x.email = req[r].email => x.raced
    BY <1>12, FinishFields DEF ClearIndex, SessionsOf
  <2>2. \A e : e # req[r].email /\ Revoking(e) => Revoking(e)'
    BY <2>1 DEF OnlyMoves
  <2> HIDE DEF Revoking
  <2>3. \A x \in sessions : Ended(x)'
    BY <1>0, <2>1, <2>2
  <2>4. QED
    BY <2>1, <2>3 DEF SessionsEndWithTheirPassword, Revoking
<1>13. ASSUME NEW r \in Requests, ByIdentity(r)
       PROVE  SessionsEndWithTheirPassword'
  BY <1>3, <1>13, ByIdentityFields DEF ByIdentity
<1>14. ASSUME NEW r \in Requests, ByEmail(r)
       PROVE  SessionsEndWithTheirPassword'
  <2>1. OnlyMoves(r) /\ req[r].pc = "lookup"
    BY <1>14, ByEmailFields
  <2>2. QED
    BY <1>3, <1>14, <2>1 DEF ByEmail
<1>15. ASSUME NEW r \in Requests, Link(r)
       PROVE  SessionsEndWithTheirPassword'
  <2>1. OnlyMoves(r) /\ req[r].pc = "link" /\ UNCHANGED sessions
    BY <1>15, FinishFields, GotoFields DEF Link
  <2>2. \A x \in sessions : users'[x.email].password = users[x.email].password
    <3>1. CASE UNCHANGED users
      BY <3>1
    <3>2. CASE users' = [users EXCEPT ![req[r].email] = Linked(r)]
      <4>1. req[r].seen = Nil => users[req[r].email] = Nil
        BY <1>15 DEF Link, InsertsAreUnique, Inserted
      <4>2. req[r].seen # Nil => Linked(r).password = users[req[r].email].password
        BY <1>15, LinkedRow DEF Link
      <4>3. QED
        BY <1>0, <3>2, <4>1, <4>2 DEF TypeOK, Registered
    <3>3. QED
      BY <1>15, <3>1, <3>2 DEF Link
  <2>3. QED
    BY <1>2, <2>1, <2>2
<1>16. ASSUME NEW r \in Requests, Issue(r)
       PROVE  SessionsEndWithTheirPassword'
  <2> DEFINE e == req[r].email
             y == [email |-> e, password |-> req[r].new, nonce |-> req[r].nonce,
                   rotated |-> FALSE, raced |-> UnderRevocation(e),
                   late |-> req[r].op = "login" /\ users[e].password # req[r].new,
                   spared |-> FALSE]
  <2>1. /\ OnlyMoves(r) /\ req[r].pc = "issue" /\ UNCHANGED users
        /\ sessions' = sessions \cup {y}
    BY <1>16, FinishFields DEF Issue
  <2>2. y.password \in {Nil, users[y.email].password} \/ y.late
    <3>1. CASE req[r].op = "login"
      BY <3>1
    <3>2. CASE req[r].op = "oauth"
      BY <3>2, RequestFacts
    <3>3. QED
      BY <2>1, <3>1, <3>2, RequestFacts
  <2>3. \A e0 : Revoking(e0) => Revoking(e0)'
    BY <1>1, <2>1
  <2> HIDE DEF y, Revoking
  <2>4. \A x \in sessions' : Ended(x)'
    BY <1>0, <2>1, <2>2, <2>3
  <2>5. QED
    BY <2>4 DEF SessionsEndWithTheirPassword, Revoking
<1>17. ASSUME NEW r \in Requests, Abandon(r)
       PROVE  SessionsEndWithTheirPassword'
  <2>1. OnlyMoves(r) /\ UNCHANGED users
    BY <1>17, FinishFields DEF Abandon
  <2>2. CASE Ending(r)
    <3>1. PICK e : e = req[r].email
      OBVIOUS
    <3> DEFINE f(x) == [x EXCEPT !.spared = @ \/ x.email = e]
    <3>2. sessions' = {f(x) : x \in sessions}
      BY <1>17, <2>2, <3>1 DEF Abandon
    <3>3. ASSUME NEW x \in sessions
          PROVE  LET y == f(x) IN
                   \/ y.password \in {Nil, users'[y.email].password}
                   \/ Excused(y) \/ Revoking(y.email)'
      <4>1. /\ f(x).email = x.email /\ f(x).password = x.password
            /\ Excused(x) => Excused(f(x))
            /\ x.email = e => Excused(f(x))
        BY DEF TypeOK, Session
      <4>2. x.email # e /\ Revoking(x.email) => Revoking(x.email)'
        BY <2>1, <3>1 DEF OnlyMoves
      <4> HIDE DEF f, Revoking, Excused
      <4>3. QED
        BY <1>0, <2>1, <4>1, <4>2
    <3> HIDE DEF f
    <3>4. QED
      BY <3>2, <3>3 DEF SessionsEndWithTheirPassword
  <2>3. CASE ~Ending(r)
    BY <1>3, <1>17, <2>1, <2>3 DEF Abandon
  <2>4. QED
    BY <2>2, <2>3
<1>18. CASE SessionMoves
  <2>1. UNCHANGED <<users, req>>
    BY <1>18, OneSessionMoves
  <2>2. PICK x \in sessions, y \in Session :
            SameGrant(y, x) /\ sessions' \subseteq (sessions \ {x}) \cup {y}
    BY <1>18, OneSessionMoves
  <2>3. Ended(y)
    BY <1>0, <2>2 DEF SameGrant
  <2>4. QED
    BY <1>0, <2>1, <2>2, <2>3 DEF SessionsEndWithTheirPassword
<1>19. CASE UNCHANGED <<users, sessions, req>>
  BY <1>0, <1>19 DEF SessionsEndWithTheirPassword
<1>20. QED
  BY <1>4, <1>5, <1>6, <1>7, <1>8, <1>9, <1>10, <1>11, <1>12, <1>13,
     <1>14, <1>15, <1>16, <1>17, <1>18, <1>19
     DEF Next, SessionMoves, CreateChallenge, ExpireNonce, vars

LEMMA BearerStep ==
  ASSUME TypeOK, RequestsCarry, OneBearer, [Next]_vars
  PROVE  OneBearer'
<1> DEFINE Unused(n) == n \in nonces \cup (Nonces \ drawn)
<1> USE IdleIsFree, NilAssumption
<1>0. \A n \in Nonces :
        /\ Unused(n) => /\ \A r \in Requests : req[r].nonce # n
                        /\ \A x \in sessions : x.nonce # n
        /\ \A r, q \in Requests : req[r].nonce = n /\ req[q].nonce = n => r = q
        /\ \A x, y \in sessions : x.nonce = n /\ y.nonce = n => x = y
        /\ \A r \in Requests, x \in sessions : ~(req[r].nonce = n /\ x.nonce = n)
  BY DEF OneBearer
<1>1. ASSUME \A q \in Requests : req'[q].nonce \in {req[q].nonce, Nil},
             SessionsGoOn,
             \A n \in Nonces : Unused(n)' => Unused(n)
      PROVE  OneBearer'
  <2> SUFFICES ASSUME NEW n \in Nonces
               PROVE  /\ Unused(n)' => /\ \A r \in Requests : req'[r].nonce # n
                                       /\ \A x \in sessions' : x.nonce # n
                      /\ \A r, q \in Requests :
                            req'[r].nonce = n /\ req'[q].nonce = n => r = q
                      /\ \A x, y \in sessions' : x.nonce = n /\ y.nonce = n => x = y
                      /\ \A r \in Requests, x \in sessions' :
                            ~(req'[r].nonce = n /\ x.nonce = n)
    BY DEF OneBearer
  <2>1. \A q \in Requests : req'[q].nonce = n => req[q].nonce = n
    BY <1>1
  <2>2. \A y \in sessions' : y.nonce = n => \E x \in sessions : x.nonce = n
    BY <1>1 DEF SessionsGoOn, SameGrant
  <2>3. \A y, z \in sessions' : y.nonce = n /\ z.nonce = n => y = z
    BY <1>0, <1>1 DEF SessionsGoOn, SameGrant
  <2>4. Unused(n)' => Unused(n)
    BY <1>1
  <2>5. QED
    BY <1>0, <2>1, <2>2, <2>3, <2>4
<1>2. ASSUME NEW r \in Requests, OnlyMoves(r), req'[r].nonce \in {req[r].nonce, Nil},
             UNCHANGED <<nonces, drawn>>, SessionsGoOn
      PROVE  OneBearer'
  BY <1>1, <1>2 DEF OnlyMoves
<1>3. UNCHANGED sessions => SessionsGoOn
  BY DEF SessionsGoOn, SameGrant
<1>4. ASSUME NEW r \in Requests, NEW e \in Emails, NEW p \in Passwords,
             \/ Signup(r, e, p) \/ Login(r, e, p) \/ ProveForReset(r, e, p)
             \/ \E current \in Passwords : ProvePassword(r, e, current, p)
      PROVE  OneBearer'
  <2>1. OnlyMoves(r) /\ req'[r].nonce = Nil
    BY <1>4, SignupStarts, LoginStarts, ResetStarts, ChangeStarts DEF Starts
  <2>2. UNCHANGED <<nonces, drawn, sessions>>
    BY <1>4 DEF Signup, Login, ProveForReset, ProvePassword
  <2>3. QED
    BY <1>2, <1>3, <2>1, <2>2
<1>5. ASSUME NEW r \in Requests, NEW e \in Emails,
             ProveForVerify(r, e) \/ LogoutAll(r, e)
      PROVE  OneBearer'
  <2>1. OnlyMoves(r) /\ req'[r].nonce = Nil
    BY <1>5, VerifyStarts, LogoutAllStarts DEF Starts
  <2>2. UNCHANGED <<nonces, drawn, sessions>>
    BY <1>5 DEF ProveForVerify, LogoutAll
  <2>3. QED
    BY <1>2, <1>3, <2>1, <2>2
<1>6. ASSUME NEW r \in Requests, NEW n \in Nonces, NEW s \in Subjects,
             NEW e \in Emails, OAuthLogin(r, n, s, e)
      PROVE  OneBearer'
  <2>1. /\ OnlyMoves(r) /\ req'[r].nonce = n
        /\ n \in nonces /\ n \in drawn
        /\ nonces' = nonces \ {n} /\ UNCHANGED <<drawn, sessions>>
    BY <1>6, OAuthStarts DEF OAuthLogin, Starts, TypeOK
  <2>2. QED
    BY <1>0, <2>1 DEF OneBearer, OnlyMoves
<1>7. ASSUME NEW r \in Requests,
             InsertUser(r) \/ CommitPassword(r) \/ RevokeAll(r) \/ Link(r)
      PROVE  OneBearer'
  <2>1. OnlyMoves(r) /\ req'[r].nonce \in {req[r].nonce, Nil}
    BY <1>7, FinishFields, GotoFields DEF InsertUser, CommitPassword, RevokeAll, Link
  <2>2. UNCHANGED <<nonces, drawn, sessions>>
    BY <1>7 DEF InsertUser, CommitPassword, RevokeAll, Link
  <2>3. QED
    BY <1>2, <1>3, <2>1, <2>2
<1>8. ASSUME NEW r \in Requests,
             CommitSignup(r) \/ CommitVerify(r) \/ ClearIndex(r) \/ Abandon(r)
      PROVE  OneBearer'
  <2>1. /\ OnlyMoves(r) /\ req'[r] = Idle
        /\ UNCHANGED <<nonces, drawn>>
    BY <1>8, FinishFields DEF CommitSignup, CommitVerify, ClearIndex, Abandon
  <2>2. CASE CommitSignup(r) \/ CommitVerify(r) \/ ClearIndex(r)
    BY <1>2, <1>3, <2>1, <2>2 DEF CommitSignup, CommitVerify, ClearIndex
  <2>3. CASE Abandon(r)
    BY <1>2, <2>1, <2>3, MarksKeepSessions
  <2>4. QED
    BY <1>8, <2>2, <2>3
<1>9. ASSUME NEW r \in Requests, ByIdentity(r) \/ ByEmail(r)
      PROVE  OneBearer'
  <2>1. UNCHANGED <<nonces, drawn, sessions>>
    BY <1>9 DEF ByIdentity, ByEmail
  <2>2. OnlyMoves(r) /\ req'[r].nonce = req[r].nonce
    BY <1>9, ByIdentityFields, ByEmailFields
  <2>3. QED
    BY <1>2, <1>3, <2>1, <2>2
<1>10. ASSUME NEW r \in Requests, Issue(r)
       PROVE  OneBearer'
  <2>1. PICK y : y.nonce = req[r].nonce /\ sessions' = sessions \cup {y}
    BY <1>10 DEF Issue
  <2>2. OnlyMoves(r) /\ req'[r].nonce = Nil /\ UNCHANGED <<nonces, drawn>>
    BY <1>10, FinishFields DEF Issue
  <2>3. QED
    BY <1>0, <2>1, <2>2 DEF OneBearer, OnlyMoves
<1>11. ASSUME NEW n \in Nonces, CreateChallenge(n)
       PROVE  OneBearer'
  BY <1>0, <1>11 DEF CreateChallenge, OneBearer
<1>12. ASSUME NEW n \in Nonces, ExpireNonce(n)
       PROVE  OneBearer'
  BY <1>0, <1>12 DEF ExpireNonce, OneBearer
<1>13. CASE SessionMoves
  <2>1. UNCHANGED <<nonces, drawn, req>>
    BY <1>13, OneSessionMoves
  <2>2. QED
    BY <1>1, <1>13, <2>1, MovesKeepSessions
<1>14. CASE UNCHANGED vars
  BY <1>0, <1>14 DEF vars, OneBearer
<1>15. QED
  BY <1>4, <1>5, <1>6, <1>7, <1>8, <1>9, <1>10, <1>11, <1>12, <1>13, <1>14
     DEF Next, SessionMoves

-----------------------------------------------------------------------------
(* The invariant holds.                                                    *)

LEMMA InvInit == Init => IInv
<1> SUFFICES ASSUME Init PROVE IInv
  OBVIOUS
<1>1. /\ \A r \in Requests : req[r] = Idle
      /\ \A e \in Emails : users[e] = Nil
      /\ identities = {} /\ sessions = {}
  BY DEF Init
<1>2. TypeOK
  BY IdleIsFree DEF Init, TypeOK
<1>3. RequestsCarry /\ UsersStay /\ InsertsAreUnique
  BY <1>1, IdleIsFree DEF RequestsCarry, Carries, UsersStay, InsertsAreUnique, Inserted
<1>4. EveryAccountHasALogin /\ OneUserPerIdentity /\ SessionsEndWithTheirPassword
  BY <1>1 DEF EveryAccountHasALogin, OneUserPerIdentity, SessionsEndWithTheirPassword
<1>5. OneBearer
  BY <1>1, IdleIsFree, NilAssumption DEF OneBearer
<1>6. QED
  BY <1>2, <1>3, <1>4, <1>5 DEF IInv

LEMMA InvStep == IInv /\ [Next]_vars => IInv'
BY TypeStep, CarryStep, UsersStayStep, InsertsStep, LoginsStep, IdentityStep,
   SessionsStep, BearerStep DEF IInv

LEMMA InvAlways == Spec => []IInv
BY InvInit, InvStep, PTL DEF Spec

(* Every variable keeps its shape.                                         *)
THEOREM TypeCorrect == Spec => []TypeOK
<1>1. IInv => TypeOK
  BY DEF IInv
<1>2. QED
  BY <1>1, InvAlways, PTL

(* Whatever signup or OAuth login failed or was overtaken on the way, an   *)
(* address that is registered has a password or an identity to log in with *)
(* and every identity has its user.                                        *)
THEOREM AccountsHaveALogin == Spec => []EveryAccountHasALogin
<1>1. IInv => EveryAccountHasALogin
  BY DEF IInv
<1>2. QED
  BY <1>1, InvAlways, PTL

(* No number of simultaneous logins gives a provider account two users.    *)
THEOREM IdentitiesAreUnique == Spec => []OneUserPerIdentity
<1>1. IInv => OneUserPerIdentity
  BY DEF IInv
<1>2. QED
  BY <1>1, InvAlways, PTL

(* A session that outlives the password it was granted for is about to be  *)
(* revoked, was due to a revoke_all that was not finished, comes from a    *)
(* login that was overtaken by the change, or met a revocation: it was     *)
(* granted or refreshed while all sessions were being revoked, or a        *)
(* refresh had or took its token when a revocation came to it.             *)
THEOREM StaleSessionsAreAccounted == Spec => []SessionsEndWithTheirPassword
<1>1. IInv => SessionsEndWithTheirPassword
  BY DEF IInv
<1>2. QED
  BY <1>1, InvAlways, PTL

LEMMA BearersCounted == IInv => NonceBuysOneLogin
<1> SUFFICES ASSUME IInv, NEW n \in Nonces
             PROVE  Cardinality({r \in Requests : req[r].nonce = n}
                                  \cup {x \in sessions : x.nonce = n})
                      <= IF n \in nonces THEN 0 ELSE 1
  BY DEF NonceBuysOneLogin
<1> DEFINE B == {r \in Requests : req[r].nonce = n} \cup {x \in sessions : x.nonce = n}
<1>1. \A b, c \in B : b = c
  BY DEF IInv, OneBearer
<1>2. n \in nonces => B = {}
  BY DEF IInv, OneBearer
<1>3. CASE B = {}
  <2>1. Cardinality(B) = 0
    BY <1>3, FS_EmptySet, Zenon
  <2> HIDE DEF B
  <2>2. QED
    BY <2>1 DEF B
<1>4. CASE B # {}
  <2>1. PICK b : B = {b}
    BY <1>1, <1>4
  <2>2. QED
    BY <1>2, <1>4, <2>1, FS_Singleton
<1>5. QED
  BY <1>3, <1>4

(* A challenge nonce is worth one OAuth login at most, counted over the    *)
(* requests that carry it and the sessions it was granted.                 *)
THEOREM NoncesBuyOneLogin == Spec => []NonceBuysOneLogin
BY BearersCounted, InvAlways, PTL

-----------------------------------------------------------------------------
(* What a commit may do to the row of a user.                              *)

Respects(e) ==
    users[e] # Nil =>
        /\ users'[e] # Nil
        /\ users[e].verified => users'[e].verified
        /\ users'[e].password # users[e].password =>
              \E r \in Requests :
                 /\ req[r].op \in {"reset", "change"} /\ req[r].pc = "write"
                 /\ req[r].email = e /\ req[r].new = users'[e].password

LEMMA CommitsRespectRows ==
  ASSUME IInv, [Next]_vars, NEW e \in Emails
  PROVE  Respects(e)
<1> SUFFICES ASSUME users[e] # Nil
             PROVE  /\ users[e].verified => users'[e].verified
                    /\ users'[e].password # users[e].password =>
                          \E r \in Requests :
                             /\ req[r].op \in {"reset", "change"}
                             /\ req[r].pc = "write" /\ req[r].email = e
                             /\ req[r].new = users'[e].password
  BY UsersAreKept DEF IInv, Respects
<1>0. /\ TypeOK /\ RequestsCarry /\ UsersStay /\ InsertsAreUnique
      /\ users[e] \in Row
  BY DEF IInv, TypeOK
<1> USE <1>0
<1>1. ASSUME NEW r \in Requests, CommitSignup(r)
      PROVE  users'[e] = users[e]
  BY <1>1 DEF CommitSignup, InsertsAreUnique, Inserted, TypeOK
<1>2. ASSUME NEW r \in Requests, CommitVerify(r)
      PROVE  /\ users[e].verified => users'[e].verified
             /\ users'[e].password = users[e].password
  BY <1>2 DEF CommitVerify, TypeOK, Row
<1>3. ASSUME NEW r \in Requests, CommitPassword(r)
      PROVE  /\ users'[e].verified = users[e].verified
             /\ \/ users'[e].password = users[e].password
                \/ req[r].email = e /\ req[r].new = users'[e].password
  BY <1>3 DEF CommitPassword, TypeOK, Row
<1>4. ASSUME NEW r \in Requests, Link(r)
      PROVE  /\ users[e].verified => users'[e].verified
             /\ users'[e].password = users[e].password
  <2>1. CASE UNCHANGED users
    BY <2>1
  <2>2. CASE users' = [users EXCEPT ![req[r].email] = Linked(r)]
    <3>1. req[r].email = e => req[r].seen # Nil
      BY <1>4 DEF Link, InsertsAreUnique, Inserted
    <3>2. req[r].email = e => /\ users[e].verified => Linked(r).verified
                              /\ Linked(r).password = users[e].password
      BY <1>4, <3>1, LinkedRow DEF Link
    <3>3. QED
      BY <2>2, <3>2 DEF TypeOK
  <2>3. QED
    BY <1>4, <2>1, <2>2 DEF Link
<1>5. CASE UNCHANGED users
  BY <1>5
<1>6. QED
  <2>1. ASSUME NEW r \in Requests, CommitPassword(r)
        PROVE  req[r].op \in {"reset", "change"} /\ req[r].pc = "write"
    BY <2>1 DEF CommitPassword
  <2>2. QED
    BY <1>1, <1>2, <1>3, <1>4, <1>5, <2>1, OnlyCommitsWrite

(* Requests write rows they read some awaits ago, and yet no commit loses  *)
(* a user or a verification, or sets a password that is not its own.       *)
THEOREM CommitsAreKept == Spec => NoUpdateIsUndone
<1>1. IInv /\ [Next]_vars => [\A e \in Emails : Respects(e)]_vars
  BY CommitsRespectRows
<1>2. QED
  BY <1>1, InvAlways, PTL DEF Spec, NoUpdateIsUndone, Respects
=============================================================================
