------------------------ MODULE ClientSessions_proofs ------------------------
(***************************************************************************)
(* What browsers can rely on, for any number of them, of sessions, tokens  *)
(* and calls under way.                                                    *)
(*                                                                         *)
(* Every step here is one of RefreshTokens or leaves its keys alone, so    *)
(* its inductive invariant, proved there, holds here too.                  *)
(***************************************************************************)
EXTENDS ClientSessions, TLAPS

ServerProof == INSTANCE RefreshTokens_proofs

(* A call carries what its stage and operation say, and the request that   *)
(* serves it is about the same.                                            *)
CallCarries(r) ==
    LET k == call[r] IN
    /\ k.op = "reset" <=> k.client = Nil
    /\ k.op = "reset" => k.stage = "served"
    /\ k.op = "login" => k.stage = "answered"
    /\ k.stage = "sent" <=> k.cookie # Nil
    /\ k.stage = "sent" => k.op \in {"refresh", "logout"}
    /\ k.answer # Nil <=> k.stage = "answered" /\ k.op \in {"login", "refresh"}
    /\ k.stage = "served" =>
          /\ k.op \in {"refresh", "logout"} => req[r].op = k.op
          /\ k.op \in {"logoutAll", "reset"} =>
                req[r].op = "revokeAll" /\ req[r].user = k.user
          /\ k.op # "refresh" => Server!Revoking(r)

CallsCarry == \A r \in Requests : call[r] # Nil => CallCarries(r)

(* A token never leaves the client it was minted for. *)
TokensStay ==
    /\ \A t \in Tokens : holder[t] = Nil <=> origin[t] = Nil
    /\ \A c \in Clients : jar[c] # Nil => holder[jar[c]] = c
    /\ \A r \in Requests : call[r] # Nil =>
          /\ call[r].cookie # Nil => holder[call[r].cookie] = call[r].client
          /\ call[r].answer # Nil => holder[call[r].answer] = call[r].client

OneCall == \A c \in Clients \ tangled : \A q, r \in CallsOf(c) : q = r

(* A cookie nobody has used yet, and that works unless CookieWorks allows  *)
(* that it does not.                                                       *)
Good(t) == reuse[t] = Nil /\ (Live(t) \/ t \in lapsed \/ origin[t] \in revoked)

(* What becomes of the cookie in the jar while call r is under way: a      *)
(* refresh used it; a logout revokes its session; a logout_all revokes it  *)
(* unless it is another user's; whatever happens, only a token issued      *)
(* against a revocation is left where the answer clears the jar.           *)
Settled(c, r) ==
    /\ At(r, "refresh", "served") \/ At(r, "refresh", "answered") => ~Live(jar[c])
    /\ At(r, "logout", "served") => req[r].todo = {origin[jar[c]]}
    /\ At(r, "logout", "answered") /\ Live(jar[c]) => jar[c] \in raced
    /\ At(r, "logoutAll", "answered") /\ Live(jar[c]) =>
          jar[c] \in raced \/ UserOf[refresh[jar[c]]] # call[r].user

CallFits(c, r) ==
    /\ call[r].cookie # Nil => Good(call[r].cookie) /\ jar[c] \in {Nil, call[r].cookie}
    /\ call[r].answer # Nil => Good(call[r].answer)
    /\ jar[c] # Nil => Settled(c, r)

CookieFits(c) ==
    /\ CallsOf(c) = {} /\ jar[c] # Nil => Good(jar[c])
    /\ \A r \in CallsOf(c) : CallFits(c, r)

CookiesFit == \A c \in Clients \ tangled : CookieFits(c)

(* The invariant: the server's own, and the four parts above, of which the *)
(* promises follow but for NoFalseAlarm and NoOrphan, which are parts too. *)
IInv ==
    /\ ServerProof!IInv
    /\ TypeOK
    /\ CallsCarry
    /\ TokensStay
    /\ OneCall
    /\ CookiesFit
    /\ NoFalseAlarm
    /\ NoOrphan

-----------------------------------------------------------------------------
(* The server. *)

LEMMA ServerAssumptions ==
    /\ ServerProof!UserOfAssumption
    /\ ServerProof!NilAssumption
    /\ ServerProof!FaultsAssumption
  BY UserOfAssumption, NilAssumption, FaultsAssumption
  DEF ServerProof!UserOfAssumption, ServerProof!NilAssumption, ServerProof!FaultsAssumption

(* The model and the proofs instantiate the same module.                   *)
LEMMA SameKeys ==
    ASSUME NEW s, NEW t
    PROVE  /\ Server!Login(s, t) <=> ServerProof!Login(s, t)
           /\ Server!ExpireToken(t) <=> ServerProof!ExpireToken(t)
  BY DEF Server!Login, ServerProof!Login, Server!Unborn, ServerProof!Unborn,
         Server!Issue, ServerProof!Issue, Server!Fresh, ServerProof!Fresh,
         Server!Contended, ServerProof!Contended, Server!Revoking, ServerProof!Revoking,
         Server!ExpireToken, ServerProof!ExpireToken, Server!Live, ServerProof!Live,
         Server!history, ServerProof!history

LEMMA SameHandlers ==
    ASSUME NEW r, NEW t
    PROVE  /\ Server!Rotate(r, t) <=> ServerProof!Rotate(r, t)
           /\ Server!DetectReuse(r, t) <=> ServerProof!DetectReuse(r, t)
           /\ Server!Refuse(t) <=> ServerProof!Refuse(t)
           /\ Server!Logout(r, t) <=> ServerProof!Logout(r, t)
           /\ Server!RevokeAll(r, t) <=> ServerProof!RevokeAll(r, t)
  BY DEF Server!Rotate, ServerProof!Rotate, Server!DetectReuse, ServerProof!DetectReuse,
         Server!Refuse, ServerProof!Refuse, Server!Logout, ServerProof!Logout,
         Server!RevokeAll, ServerProof!RevokeAll, Server!Begin, ServerProof!Begin,
         Server!Live, ServerProof!Live, Server!history, ServerProof!history,
         Server!redis, ServerProof!redis, Server!vars, ServerProof!vars

LEMMA SameReissue ==
    ASSUME NEW r, NEW t
    PROVE  Server!Reissue(r, t) <=> ServerProof!Reissue(r, t)
  BY DEF Server!Reissue, ServerProof!Reissue, Server!Idle, ServerProof!Idle,
         Server!Issue, ServerProof!Issue, Server!Fresh, ServerProof!Fresh,
         Server!Contended, ServerProof!Contended, Server!Revoking, ServerProof!Revoking

LEMMA SameRevocations ==
    ASSUME NEW r, NEW s
    PROVE  /\ Server!ReadFamily(r, s) <=> ServerProof!ReadFamily(r, s)
           /\ Server!DropFamily(r) <=> ServerProof!DropFamily(r)
           /\ Server!ClearIndex(r) <=> ServerProof!ClearIndex(r)
           /\ Server!Abort(r) <=> ServerProof!Abort(r)
  BY DEF Server!ReadFamily, ServerProof!ReadFamily, Server!DropFamily, ServerProof!DropFamily,
         Server!AfterDrop, ServerProof!AfterDrop, Server!Idle, ServerProof!Idle,
         Server!ClearIndex, ServerProof!ClearIndex, Server!Abort, ServerProof!Abort,
         Server!history, ServerProof!history, Server!redis, ServerProof!redis

LEMMA SameType == Server!TypeOK <=> ServerProof!TypeOK
  BY DEF Server!TypeOK, ServerProof!TypeOK, Server!Request, ServerProof!Request,
         Server!Pcs, ServerProof!Pcs, Server!Ops, ServerProof!Ops,
         Server!Revoking, ServerProof!Revoking

LEMMA SameInit == Server!Init <=> ServerProof!Init
  BY DEF Server!Init, ServerProof!Init, Server!Idle, ServerProof!Idle

LEMMA SameNext == Server!Next <=> ServerProof!Next
<1>1. /\ \A s \in Sessions, t \in Tokens : Server!Login(s, t) <=> ServerProof!Login(s, t)
      /\ \A t \in Tokens : Server!ExpireToken(t) <=> ServerProof!ExpireToken(t)
  BY SameKeys
<1>2. /\ \A r \in Requests, t \in Tokens :
            /\ Server!Rotate(r, t) <=> ServerProof!Rotate(r, t)
            /\ Server!DetectReuse(r, t) <=> ServerProof!DetectReuse(r, t)
            /\ Server!Logout(r, t) <=> ServerProof!Logout(r, t)
            /\ Server!Reissue(r, t) <=> ServerProof!Reissue(r, t)
      /\ \A t \in Tokens : Server!Refuse(t) <=> ServerProof!Refuse(t)
      /\ \A r \in Requests, u \in Users : Server!RevokeAll(r, u) <=> ServerProof!RevokeAll(r, u)
  <2>1. \A t \in Tokens : Server!Refuse(t) <=> ServerProof!Refuse(t)
    BY DEF Server!Refuse, ServerProof!Refuse, Server!Live, ServerProof!Live,
           Server!vars, ServerProof!vars
  <2> QED BY <2>1, SameHandlers, SameReissue
<1>3. \A r \in Requests : /\ Server!Revoke(r) <=> ServerProof!Revoke(r)
                          /\ Server!Abort(r) <=> ServerProof!Abort(r)
  <2>1. \A r \in Requests, s \in Sessions :
           /\ Server!ReadFamily(r, s) <=> ServerProof!ReadFamily(r, s)
           /\ Server!DropFamily(r) <=> ServerProof!DropFamily(r)
    BY SameRevocations
  <2>2. \A r \in Requests : /\ Server!DropFamily(r) <=> ServerProof!DropFamily(r)
                            /\ Server!ClearIndex(r) <=> ServerProof!ClearIndex(r)
                            /\ Server!Abort(r) <=> ServerProof!Abort(r)
    BY SameRevocations
  <2> QED BY <2>1, <2>2 DEF Server!Revoke, ServerProof!Revoke
<1>4. /\ \A t \in Tokens : Server!ExpireReuse(t) <=> ServerProof!ExpireReuse(t)
      /\ \A s \in Sessions : Server!ExpireFamily(s) <=> ServerProof!ExpireFamily(s)
      /\ \A u \in Users : Server!ExpireIndex(u) <=> ServerProof!ExpireIndex(u)
  BY DEF Server!ExpireReuse, ServerProof!ExpireReuse, Server!ExpireFamily,
         ServerProof!ExpireFamily, Server!ExpireIndex, ServerProof!ExpireIndex,
         Server!Live, ServerProof!Live, Server!history, ServerProof!history
<1> QED BY <1>1, <1>2, <1>3, <1>4 DEF Server!Next, ServerProof!Next

(* Every step is a step of the server, or none of its keys changes. *)
LEMMA ServerMoves ==
    ASSUME [Next]_vars, TypeOK, CallsCarry
    PROVE  [ServerProof!Next]_(ServerProof!vars)
<1> SUFFICES [ServerProof!Next]_server
  BY DEF ServerProof!vars, server
<1>1. ASSUME NEW c \in Clients, NEW r \in Requests, Send(c, r)
      PROVE  UNCHANGED server
  BY <1>1 DEF Send
<1>2. ASSUME NEW c \in Clients, NEW r \in Requests, NEW s \in Sessions, NEW t \in Tokens,
             Login(c, r, s, t)
      PROVE  ServerProof!Next
  BY <1>2, SameKeys DEF Login, ServerProof!Next
<1>3. ASSUME NEW c \in Clients, NEW r \in Requests, NEW u \in Users, LogoutAll(c, r, u)
      PROVE  ServerProof!Next
  BY <1>3, SameHandlers DEF LogoutAll, ServerProof!Next
<1>4. ASSUME NEW r \in Requests, NEW u \in Users, Reset(r, u)
      PROVE  ServerProof!Next
  BY <1>4, SameHandlers DEF Reset, ServerProof!Next
<1>5. ASSUME NEW r \in Requests, Rotate(r)
      PROVE  [ServerProof!Next]_server
  <2>1. call[r] \in Call /\ call[r].cookie # Nil
    BY <1>5 DEF TypeOK, CallsCarry, CallCarries, Rotate, At
  <2>2. PICK t \in Tokens : t = call[r].cookie
    BY <2>1 DEF Call
  <2>3. CASE Server!Refuse(t)
    BY <2>3, SameHandlers DEF ServerProof!Next
  <2>4. CASE Server!Rotate(r, t) \/ Server!DetectReuse(r, t)
    BY <2>4, SameHandlers DEF ServerProof!Next
  <2> QED BY <1>5, <2>2, <2>3, <2>4 DEF Rotate
<1>6. ASSUME NEW r \in Requests, Logout(r)
      PROVE  [ServerProof!Next]_server
  <2>1. CASE UNCHANGED server
    BY <2>1
  <2>2. ASSUME NEW t \in Tokens, Server!Logout(r, t)
        PROVE  ServerProof!Next
    BY <2>2, SameHandlers DEF ServerProof!Next
  <2> QED BY <1>6, <2>1, <2>2 DEF Logout
<1>7. ASSUME NEW r \in Requests, Revoke(r)
      PROVE  ServerProof!Next
  BY <1>7, SameRevocations DEF Revoke, ReadFamily, DropFamily, ClearIndex,
                               ServerProof!Next, ServerProof!Revoke
<1>8. ASSUME NEW r \in Requests, NEW t \in Tokens, Reissue(r, t)
      PROVE  ServerProof!Next
  BY <1>8, SameReissue DEF Reissue, ServerProof!Next
<1>9. ASSUME NEW r \in Requests, Receive(r) \/ Lose(r)
      PROVE  UNCHANGED server
  BY <1>9 DEF Receive, Lose
<1>10. ASSUME NEW r \in Requests, Abort(r)
       PROVE  ServerProof!Next
  BY <1>10, SameRevocations DEF Abort, ServerProof!Next
<1>11. ASSUME NEW t \in Tokens, ExpireToken(t)
       PROVE  ServerProof!Next
  BY <1>11, SameKeys DEF ExpireToken, ServerProof!Next
<1>12. ASSUME NEW c \in Clients, ExpireCookie(c)
       PROVE  UNCHANGED server
  BY <1>12 DEF ExpireCookie
<1>13. CASE UNCHANGED vars
  BY <1>13 DEF vars
<1> QED BY <1>1, <1>2, <1>3, <1>4, <1>5, <1>6, <1>7, <1>8, <1>9, <1>10, <1>11, <1>12, <1>13
        DEF Next, Handle

LEMMA ServerInvInit ==
    ASSUME Init
    PROVE  ServerProof!IInv
<1>1. ServerProof!Init
  BY SameInit DEF Init
<1>2. ServerProof!Init => ServerProof!IInv
  BY ServerAssumptions, ServerProof!InvInit
<1> QED BY <1>1, <1>2

LEMMA ServerInvStep ==
    ASSUME ServerProof!IInv, TypeOK, CallsCarry, [Next]_vars
    PROVE  ServerProof!IInv'
<1>1. [ServerProof!Next]_(ServerProof!vars)
  BY ServerMoves
<1>2. ServerProof!IInv /\ [ServerProof!Next]_(ServerProof!vars) => ServerProof!IInv'
  BY ServerAssumptions, ServerProof!InvStep
<1> QED BY <1>1, <1>2

(* What the server's invariant says about the keys. *)
LEMMA ServerKnows ==
    ASSUME ServerProof!IInv
    PROVE  /\ \A t \in Tokens : refresh[t] # Nil => origin[t] = refresh[t]
           /\ \A t \in Tokens : reuse[t] # Nil => origin[t] = reuse[t]
           /\ \A t \in Tokens : refresh[t] # Nil /\ refresh[t] \in revoked => t \in raced
           /\ \A r \in Requests : req[r].pc = "drop" =>
                 /\ req[r].session \in req[r].todo
                 /\ \A t \in req[r].digests : origin[t] = req[r].session
           /\ \A r \in Requests, t \in Tokens :
                 /\ req[r].pc = "read" /\ req[r].op = "revokeAll" /\ req[r].todo = {}
                 /\ refresh[t] # Nil /\ UserOf[refresh[t]] = req[r].user
                 => t \in raced
<1> USE DEF ServerProof!IInv, ServerProof!Live
<1>1. \A t \in Tokens : refresh[t] # Nil => origin[t] = refresh[t]
  BY DEF ServerProof!OriginsAgree
<1>2. \A t \in Tokens : reuse[t] # Nil => origin[t] = reuse[t]
  BY DEF ServerProof!OriginsAgree
<1>3. \A t \in Tokens : refresh[t] # Nil /\ refresh[t] \in revoked => t \in raced
  BY DEF ServerProof!AllTracked, ServerProof!Tracked
<1>4. \A r \in Requests : req[r].pc = "drop" =>
         /\ req[r].session \in req[r].todo
         /\ \A t \in req[r].digests : origin[t] = req[r].session
  BY DEF ServerProof!RequestsAgree
<1>5. \A r \in Requests, t \in Tokens :
         /\ req[r].pc = "read" /\ req[r].op = "revokeAll" /\ req[r].todo = {}
         /\ refresh[t] # Nil /\ UserOf[refresh[t]] = req[r].user
         => t \in raced
  BY DEF ServerProof!AllTracked, ServerProof!Tracked, ServerProof!Revoking
<1> QED BY <1>1, <1>2, <1>3, <1>4, <1>5

-----------------------------------------------------------------------------
(* What the steps of the server do to the keys and to requests.            *)

Others(r) == \A q \in Requests \ {r} : req'[q] = req[q]
SameOrigins == UNCHANGED <<origin, revoked, raced>>
SameKeysBut(t) == \A x \in Tokens \ {t} : refresh'[x] = refresh[x] /\ reuse'[x] = reuse[x]

LEMMA RotateKeys ==
    ASSUME TypeOK, NEW r \in Requests, NEW t \in Tokens, Server!Rotate(r, t)
    PROVE  /\ refresh[t] # Nil /\ refresh'[t] = Nil
           /\ SameKeysBut(t) /\ SameOrigins /\ Others(r)
           /\ req[r].pc = "idle" /\ req'[r].pc = "reissue" /\ req'[r].op = "refresh"
<1> USE DEF TypeOK, Server!TypeOK, Server!Rotate, Server!Begin, Server!Live, Server!history
<1>1. refresh[t] # Nil /\ refresh'[t] = Nil
  OBVIOUS
<1>2. SameKeysBut(t) /\ SameOrigins
  BY DEF SameKeysBut, SameOrigins
<1>3. Others(r) /\ req[r].pc = "idle" /\ req'[r].pc = "reissue" /\ req'[r].op = "refresh"
  BY DEF Others
<1> QED BY <1>1, <1>2, <1>3

LEMMA DetectReuseKeys ==
    ASSUME TypeOK, NEW r \in Requests, NEW t \in Tokens, Server!DetectReuse(r, t)
    PROVE  /\ reuse[t] # Nil /\ reuse'[t] = Nil /\ UNCHANGED refresh
           /\ SameKeysBut(t) /\ SameOrigins /\ Others(r)
           /\ req[r].pc = "idle" /\ req'[r].pc = "read" /\ req'[r].op = "refresh"
<1> USE DEF TypeOK, Server!TypeOK, Server!DetectReuse, Server!Begin, Server!Live, Server!history
<1>1. reuse[t] # Nil /\ reuse'[t] = Nil /\ UNCHANGED refresh
  OBVIOUS
<1>2. SameKeysBut(t) /\ SameOrigins
  BY DEF SameKeysBut, SameOrigins
<1>3. Others(r) /\ req[r].pc = "idle" /\ req'[r].pc = "read" /\ req'[r].op = "refresh"
  BY DEF Others
<1> QED BY <1>1, <1>2, <1>3

LEMMA LogoutKeys ==
    ASSUME TypeOK, NEW r \in Requests, NEW t \in Tokens, Server!Logout(r, t)
    PROVE  /\ refresh[t] # Nil /\ UNCHANGED <<refresh, reuse>> /\ SameOrigins /\ Others(r)
           /\ req[r].pc = "idle" /\ req'[r].pc = "read" /\ req'[r].op = "logout"
           /\ req'[r].todo = {refresh[t]}
<1> USE DEF TypeOK, Server!TypeOK, Server!Logout, Server!Begin, Server!Live, Server!history, Server!redis
<1>1. refresh[t] # Nil /\ UNCHANGED <<refresh, reuse>> /\ SameOrigins
  BY DEF SameOrigins
<1>2. Others(r)
  BY DEF Others
<1>3. /\ req[r].pc = "idle" /\ req'[r].pc = "read" /\ req'[r].op = "logout"
      /\ req'[r].todo = {refresh[t]}
  OBVIOUS
<1> QED BY <1>1, <1>2, <1>3

LEMMA RevokeAllKeys ==
    ASSUME TypeOK, NEW r \in Requests, NEW u \in Users, Server!RevokeAll(r, u)
    PROVE  /\ UNCHANGED <<refresh, reuse>> /\ SameOrigins /\ Others(r)
           /\ req[r].pc = "idle" /\ req'[r].pc = "read" /\ req'[r].op = "revokeAll"
           /\ req'[r].user = u
<1> USE DEF TypeOK, Server!TypeOK, Server!RevokeAll, Server!Begin, Server!history, Server!redis
<1>1. UNCHANGED <<refresh, reuse>> /\ SameOrigins
  BY DEF SameOrigins
<1>2. Others(r)
  BY DEF Others
<1>3. /\ req[r].pc = "idle" /\ req'[r].pc = "read" /\ req'[r].op = "revokeAll"
      /\ req'[r].user = u
  OBVIOUS
<1> QED BY <1>1, <1>2, <1>3

LEMMA IssueKeys ==
    ASSUME TypeOK, NEW s \in Sessions, NEW t \in Tokens, Server!Issue(s, t)
    PROVE  /\ origin[t] = Nil /\ refresh'[t] = s /\ origin'[t] = s
           /\ SameKeysBut(t) /\ UNCHANGED <<reuse, revoked>>
           /\ \A x \in Tokens \ {t} : origin'[x] = origin[x]
           /\ raced \subseteq raced'
  BY DEF TypeOK, Server!TypeOK, Server!Issue, Server!Fresh, SameKeysBut

LEMMA ReissueKeys ==
    ASSUME TypeOK, NEW r \in Requests, NEW t \in Tokens, Server!Reissue(r, t)
    PROVE  /\ origin[t] = Nil /\ refresh'[t] = origin'[t] /\ origin'[t] \in Sessions
           /\ SameKeysBut(t) /\ UNCHANGED <<reuse, revoked>>
           /\ \A x \in Tokens \ {t} : origin'[x] = origin[x]
           /\ raced \subseteq raced'
           /\ Others(r) /\ req[r].pc = "reissue" /\ req'[r].pc = "idle"
<1>1. PICK s \in Sessions : s = req[r].session
  BY DEF TypeOK, Server!TypeOK, Server!Reissue
<1>2. Server!Issue(s, t)
  BY <1>1 DEF Server!Reissue
<1>3. Others(r) /\ req[r].pc = "reissue" /\ req'[r].pc = "idle"
  BY DEF Others, TypeOK, Server!TypeOK, Server!Reissue, Server!Idle
<1> QED BY <1>1, <1>2, <1>3, IssueKeys

LEMMA ReadFamilyKeys ==
    ASSUME TypeOK, NEW r \in Requests, NEW s \in Sessions, Server!ReadFamily(r, s)
    PROVE  /\ UNCHANGED <<refresh, reuse>> /\ SameOrigins /\ Others(r)
           /\ req[r].pc = "read" /\ req'[r].pc = "drop" /\ req'[r].op = req[r].op
           /\ req'[r].user = req[r].user /\ req'[r].todo = req[r].todo
<1>1. req[r] \in Server!Request /\ req \in [Requests -> Server!Request]
  BY DEF TypeOK, Server!TypeOK
<1>2. UNCHANGED <<refresh, reuse>> /\ SameOrigins /\ Others(r)
  BY <1>1 DEF SameOrigins, Others, Server!ReadFamily, Server!history, Server!redis
<1>3. /\ req[r].pc = "read" /\ req'[r].pc = "drop" /\ req'[r].op = req[r].op
      /\ req'[r].user = req[r].user /\ req'[r].todo = req[r].todo
  BY <1>1 DEF Server!ReadFamily, Server!Request
<1> QED BY <1>2, <1>3

LEMMA DropFamilyKeys ==
    ASSUME TypeOK, NEW r \in Requests, Server!DropFamily(r)
    PROVE  /\ \A x \in Tokens :
                 IF x \in req[r].digests THEN refresh'[x] = Nil /\ reuse'[x] = Nil
                 ELSE refresh'[x] = refresh[x] /\ reuse'[x] = reuse[x]
           /\ UNCHANGED <<origin, raced>> /\ revoked' = revoked \cup {req[r].session}
           /\ Others(r) /\ req[r].pc = "drop"
           /\ IF req[r].op = "revokeAll"
              THEN req'[r].pc = "read" /\ req'[r].op = req[r].op /\ req'[r].user = req[r].user
              ELSE req'[r].pc = "idle"
<1>1. req[r] \in Server!Request /\ req \in [Requests -> Server!Request]
  BY DEF TypeOK, Server!TypeOK
<1>2. \A x \in Tokens :
         IF x \in req[r].digests THEN refresh'[x] = Nil /\ reuse'[x] = Nil
         ELSE refresh'[x] = refresh[x] /\ reuse'[x] = reuse[x]
  BY DEF Server!DropFamily
<1>3. UNCHANGED <<origin, raced>> /\ revoked' = revoked \cup {req[r].session}
  BY DEF Server!DropFamily
<1>4. Others(r) /\ req[r].pc = "drop" /\ req'[r] = Server!AfterDrop(req[r])
  BY <1>1 DEF Server!DropFamily, Others
<1>5. IF req[r].op = "revokeAll"
      THEN req'[r].pc = "read" /\ req'[r].op = req[r].op /\ req'[r].user = req[r].user
      ELSE req'[r].pc = "idle"
  BY <1>1, <1>4 DEF Server!AfterDrop, Server!Idle, Server!Request
<1> QED BY <1>2, <1>3, <1>4, <1>5

LEMMA ClearIndexKeys ==
    ASSUME TypeOK, NEW r \in Requests, Server!ClearIndex(r)
    PROVE  /\ UNCHANGED <<refresh, reuse>> /\ SameOrigins /\ Others(r)
           /\ req[r].pc = "read" /\ req[r].op = "revokeAll" /\ req[r].todo = {}
           /\ req'[r].pc = "idle"
  BY DEF TypeOK, Server!TypeOK, Server!ClearIndex, Server!Idle, Server!history, SameOrigins, Others

LEMMA AbortKeys ==
    ASSUME TypeOK, NEW r \in Requests, Server!Abort(r)
    PROVE  /\ UNCHANGED <<refresh, reuse>> /\ SameOrigins /\ Others(r)
           /\ req[r].pc # "idle" /\ req'[r].pc = "idle"
  BY DEF TypeOK, Server!TypeOK, Server!Abort, Server!Idle, Server!history, Server!redis, SameOrigins, Others

LEMMA ExpireTokenKeys ==
    ASSUME TypeOK, NEW t \in Tokens, Server!ExpireToken(t)
    PROVE  /\ refresh[t] # Nil /\ refresh'[t] = Nil /\ SameKeysBut(t)
           /\ UNCHANGED <<reuse, req>> /\ SameOrigins
  BY DEF TypeOK, Server!TypeOK, Server!ExpireToken, Server!Live, Server!history, SameOrigins, SameKeysBut

-----------------------------------------------------------------------------
(* What the steps do to calls.                                             *)

OtherCalls(r) == \A q \in Requests \ {r} : call'[q] = call[q]

Is(k, client, op, user, stage, cookie, answer) ==
    /\ k \in Call /\ k # Nil
    /\ k.client = client /\ k.op = op /\ k.user = user
    /\ k.stage = stage /\ k.cookie = cookie /\ k.answer = answer

LEMMA OpenCall ==
    ASSUME TypeOK, NEW r \in Requests,
           NEW c \in Clients \cup {Nil}, NEW op \in Ops, NEW u \in Users \cup {Nil},
           NEW cookie \in Tokens \cup {Nil}, NEW stage \in {"sent", "served", "answered"},
           Open(r, c, op, u, cookie, stage)
    PROVE  /\ Is(call'[r], c, op, u, stage, cookie, Nil) /\ OtherCalls(r)
           /\ call' \in [Requests -> Call \cup {Nil}] /\ call[r] = Nil
<1> DEFINE k == [client |-> c, op |-> op, user |-> u, cookie |-> cookie,
                 stage |-> stage, answer |-> Nil]
<1>1. k \in Call
  BY DEF Call
<1>2. Is(k, c, op, u, stage, cookie, Nil)
  BY <1>1, NilAssumption DEF Is
<1>3. call \in [Requests -> Call \cup {Nil}] /\ call' = [call EXCEPT ![r] = k] /\ call[r] = Nil
  BY DEF TypeOK, Open
<1> HIDE DEF k
<1>4. call'[r] = k /\ OtherCalls(r) /\ call' \in [Requests -> Call \cup {Nil}]
  BY <1>1, <1>3 DEF OtherCalls
<1> QED BY <1>2, <1>3, <1>4

LEMMA AnswerCall ==
    ASSUME TypeOK, NEW r \in Requests, call[r] # Nil, NEW t \in Tokens \cup {Nil}, Answer(r, t)
    PROVE  /\ Is(call'[r], call[r].client, call[r].op, call[r].user, "answered", Nil, t)
           /\ OtherCalls(r) /\ call' \in [Requests -> Call \cup {Nil}]
<1> DEFINE k == [call[r] EXCEPT !.stage = "answered", !.cookie = Nil, !.answer = t]
<1>1. call[r] \in Call /\ call \in [Requests -> Call \cup {Nil}]
  BY DEF TypeOK
<1>2. /\ k \in Call
      /\ k.client = call[r].client /\ k.op = call[r].op /\ k.user = call[r].user
      /\ k.stage = "answered" /\ k.cookie = Nil /\ k.answer = t
  BY <1>1 DEF Call
<1>3. call' = [call EXCEPT ![r] = k]
  BY <1>1 DEF Answer
<1> HIDE DEF k
<1>4. call'[r] = k /\ OtherCalls(r) /\ call' \in [Requests -> Call \cup {Nil}]
  BY <1>1, <1>2, <1>3 DEF OtherCalls
<1> QED BY <1>2, <1>4, NilAssumption DEF Is

LEMMA ServeCall ==
    ASSUME TypeOK, NEW r \in Requests, call[r] # Nil, Serve(r)
    PROVE  /\ Is(call'[r], call[r].client, call[r].op, call[r].user, "served", Nil, call[r].answer)
           /\ OtherCalls(r) /\ call' \in [Requests -> Call \cup {Nil}]
<1> DEFINE k == [call[r] EXCEPT !.stage = "served", !.cookie = Nil]
<1>1. call[r] \in Call /\ call \in [Requests -> Call \cup {Nil}]
  BY DEF TypeOK
<1>2. /\ k \in Call
      /\ k.client = call[r].client /\ k.op = call[r].op /\ k.user = call[r].user
      /\ k.stage = "served" /\ k.cookie = Nil /\ k.answer = call[r].answer
  BY <1>1 DEF Call
<1>3. call' = [call EXCEPT ![r] = k]
  BY <1>1 DEF Serve
<1> HIDE DEF k
<1>4. call'[r] = k /\ OtherCalls(r) /\ call' \in [Requests -> Call \cup {Nil}]
  BY <1>1, <1>2, <1>3 DEF OtherCalls
<1> QED BY <1>2, <1>4, NilAssumption DEF Is

LEMMA EndCall ==
    ASSUME TypeOK, NEW r \in Requests, Fail(r)
    PROVE  call'[r] = Nil /\ OtherCalls(r) /\ call' \in [Requests -> Call \cup {Nil}]
  BY DEF TypeOK, Fail, OtherCalls

(* A call under way is of its type, and the client of all but a reset is   *)
(* one of the clients.                                                     *)
LEMMA CallHas ==
    ASSUME TypeOK, CallsCarry, NEW r \in Requests, call[r] # Nil
    PROVE  /\ call[r] \in Call /\ CallCarries(r)
           /\ call[r].op # "reset" => call[r].client \in Clients
           /\ call[r].op \in Ops
           /\ call[r].stage \in {"sent", "served", "answered"}
           /\ call[r].cookie \in Tokens \cup {Nil} /\ call[r].answer \in Tokens \cup {Nil}
           /\ call[r].stage = "served" <=> req[r].pc # "idle"
<1>1. call[r] \in Call /\ CallCarries(r)
  BY DEF TypeOK, CallsCarry
<1>2. call[r].stage = "served" <=> req[r].pc # "idle"
  BY DEF TypeOK
<1> QED BY <1>1, <1>2 DEF Call, CallCarries

-----------------------------------------------------------------------------
(* The steps, one by one.                                                  *)

LEMMA SendDoes ==
    ASSUME IInv, NEW c \in Clients, NEW r \in Requests, Send(c, r)
    PROVE  /\ UNCHANGED server /\ UNCHANGED clients
           /\ call[r] = Nil /\ OtherCalls(r) /\ call' \in [Requests -> Call \cup {Nil}]
           /\ \/ /\ jar[c] # Nil
                 /\ \E op \in {"refresh", "logout"} :
                       Is(call'[r], c, op, Nil, "sent", jar[c], Nil)
              \/ jar[c] = Nil /\ Is(call'[r], c, "logout", Nil, "answered", Nil, Nil)
<1>1. jar[c] \in Tokens \cup {Nil} /\ TypeOK
  BY DEF IInv, TypeOK
<1>2. /\ "sent" \in {"sent", "served", "answered"} /\ "answered" \in {"sent", "served", "answered"}
      /\ {"refresh", "logout"} \subseteq Ops
      /\ Nil \in Users \cup {Nil} /\ Nil \in Tokens \cup {Nil} /\ c \in Clients \cup {Nil}
  BY DEF Ops
<1>3. UNCHANGED server /\ UNCHANGED clients
  BY DEF Send
<1>4. CASE jar[c] # Nil
  <2>1. PICK op \in {"refresh", "logout"} : Open(r, c, op, Nil, jar[c], "sent")
    BY <1>4 DEF Send
  <2>2. /\ Is(call'[r], c, op, Nil, "sent", jar[c], Nil) /\ OtherCalls(r)
        /\ call' \in [Requests -> Call \cup {Nil}] /\ call[r] = Nil
    BY <1>1, <1>2, <2>1, OpenCall
  <2> QED BY <1>3, <1>4, <2>2
<1>5. CASE jar[c] = Nil
  <2>1. Open(r, c, "logout", Nil, Nil, "answered")
    BY <1>5 DEF Send
  <2>2. /\ Is(call'[r], c, "logout", Nil, "answered", Nil, Nil) /\ OtherCalls(r)
        /\ call' \in [Requests -> Call \cup {Nil}] /\ call[r] = Nil
    BY <1>1, <1>2, <2>1, OpenCall
  <2> QED BY <1>3, <1>5, <2>2
<1> QED BY <1>4, <1>5

LEMMA LoginDoes ==
    ASSUME IInv, NEW c \in Clients, NEW r \in Requests, NEW s \in Sessions, NEW t \in Tokens,
           Login(c, r, s, t)
    PROVE  /\ origin[t] = Nil /\ refresh'[t] = s /\ origin'[t] = s
           /\ SameKeysBut(t) /\ UNCHANGED <<reuse, revoked>>
           /\ \A x \in Tokens \ {t} : origin'[x] = origin[x] /\ holder'[x] = holder[x]
           /\ raced \subseteq raced' /\ req' = req /\ holder'[t] = c
           /\ holder' \in [Tokens -> Clients \cup {Nil}]
           /\ UNCHANGED <<jar, forsaken, lapsed>>
           /\ call[r] = Nil /\ OtherCalls(r) /\ call' \in [Requests -> Call \cup {Nil}]
           /\ Is(call'[r], c, "login", UserOf[s], "answered", Nil, t)
<1>1. TypeOK
  BY DEF IInv
<1>2. Server!Issue(s, t) /\ req' = req
  BY DEF Login, Server!Login
<1>3. "login" \in Ops /\ UserOf[s] \in Users
  BY UserOfAssumption DEF Ops
<1>4. /\ Is(call'[r], c, "login", UserOf[s], "answered", Nil, t) /\ OtherCalls(r)
      /\ call' \in [Requests -> Call \cup {Nil}]
  <2> DEFINE k == [client |-> c, op |-> "login", user |-> UserOf[s], cookie |-> Nil,
                   stage |-> "answered", answer |-> t]
  <2>1. k \in Call
    BY <1>3 DEF Call
  <2>2. Is(k, c, "login", UserOf[s], "answered", Nil, t)
    BY <2>1, NilAssumption DEF Is
  <2>3. call \in [Requests -> Call \cup {Nil}] /\ call' = [call EXCEPT ![r] = k]
    BY <1>1 DEF TypeOK, Login
  <2> HIDE DEF k
  <2>4. call'[r] = k /\ OtherCalls(r) /\ call' \in [Requests -> Call \cup {Nil}]
    BY <2>1, <2>3 DEF OtherCalls
  <2> QED BY <2>2, <2>4
<1>5. /\ holder'[t] = c /\ \A x \in Tokens \ {t} : holder'[x] = holder[x]
      /\ holder' \in [Tokens -> Clients \cup {Nil}]
  BY <1>1 DEF TypeOK, Login
<1>6. UNCHANGED <<jar, forsaken, lapsed>> /\ call[r] = Nil
  BY DEF Login
<1> QED BY <1>1, <1>2, <1>4, <1>5, <1>6, IssueKeys

(* The three answers of the rotation script. *)
LEMMA RotateDoes ==
    ASSUME IInv, NEW r \in Requests, Rotate(r)
    PROVE  /\ UNCHANGED clients /\ UNCHANGED tangled /\ OtherCalls(r) /\ Others(r) /\ SameOrigins
           /\ call' \in [Requests -> Call \cup {Nil}] /\ At(r, "refresh", "sent")
           /\ \E t \in Tokens :
                 /\ t = call[r].cookie /\ SameKeysBut(t)
                 /\ \/ /\ refresh[t] # Nil /\ refresh'[t] = Nil
                       /\ req'[r].pc = "reissue" /\ req'[r].op = "refresh"
                       /\ Is(call'[r], call[r].client, "refresh", call[r].user, "served", Nil, Nil)
                    \/ /\ reuse[t] # Nil /\ reuse'[t] = Nil /\ UNCHANGED refresh
                       /\ req'[r].pc = "read" /\ req'[r].op = "refresh"
                       /\ Is(call'[r], call[r].client, "refresh", call[r].user, "served", Nil, Nil)
                    \/ UNCHANGED <<refresh, reuse, req>> /\ call'[r] = Nil
<1>1. TypeOK /\ CallsCarry /\ At(r, "refresh", "sent") /\ call[r] # Nil
  BY DEF IInv, Rotate, At
<1>2. /\ call[r].cookie \in Tokens \cup {Nil} /\ call[r].cookie # Nil /\ call[r].answer = Nil
      /\ call[r].op = "refresh"
  BY <1>1, CallHas DEF CallCarries, At
<1>3. PICK t \in Tokens : t = call[r].cookie
  BY <1>2
<1>4. UNCHANGED clients /\ UNCHANGED tangled
  BY DEF Rotate
<1>5. CASE Server!Rotate(r, t) /\ Serve(r)
  BY <1>1, <1>2, <1>3, <1>4, <1>5, RotateKeys, ServeCall
<1>6. CASE Server!DetectReuse(r, t) /\ Serve(r)
  BY <1>1, <1>2, <1>3, <1>4, <1>6, DetectReuseKeys, ServeCall
<1>7. CASE Server!Refuse(t) /\ Fail(r)
  <2>1. UNCHANGED <<refresh, reuse, req>> /\ SameOrigins /\ SameKeysBut(t) /\ Others(r)
    BY <1>7 DEF Server!Refuse, Server!vars, SameOrigins, SameKeysBut, Others
  <2> QED BY <1>1, <1>3, <1>4, <1>7, <2>1, EndCall
<1> QED BY <1>3, <1>5, <1>6, <1>7 DEF Rotate

LEMMA ReissueDoes ==
    ASSUME IInv, NEW r \in Requests, NEW t \in Tokens, Reissue(r, t)
    PROVE  /\ origin[t] = Nil /\ refresh'[t] = origin'[t] /\ origin'[t] \in Sessions
           /\ SameKeysBut(t) /\ UNCHANGED <<reuse, revoked>>
           /\ \A x \in Tokens \ {t} : origin'[x] = origin[x] /\ holder'[x] = holder[x]
           /\ raced \subseteq raced' /\ holder'[t] = call[r].client
           /\ call[r].client \in Clients
           /\ holder' \in [Tokens -> Clients \cup {Nil}]
           /\ UNCHANGED <<jar, tangled, forsaken, lapsed>>
           /\ Others(r) /\ req'[r].pc = "idle"
           /\ At(r, "refresh", "served") /\ OtherCalls(r)
           /\ call' \in [Requests -> Call \cup {Nil}]
           /\ Is(call'[r], call[r].client, "refresh", call[r].user, "answered", Nil, t)
<1>1. TypeOK /\ CallsCarry /\ call[r] # Nil /\ At(r, "refresh", "served") /\ call[r].op = "refresh"
  BY DEF IInv, Reissue, At
<1>2. call[r].client \in Clients
  BY <1>1, CallHas
<1>3. Server!Reissue(r, t) /\ Answer(r, t) /\ UNCHANGED <<jar, tangled, forsaken, lapsed>>
  BY DEF Reissue
<1>4. /\ Is(call'[r], call[r].client, "refresh", call[r].user, "answered", Nil, t)
      /\ OtherCalls(r) /\ call' \in [Requests -> Call \cup {Nil}]
  BY <1>1, <1>3, AnswerCall
<1>5. /\ holder'[t] = call[r].client /\ \A x \in Tokens \ {t} : holder'[x] = holder[x]
      /\ holder' \in [Tokens -> Clients \cup {Nil}]
  BY <1>1, <1>2 DEF TypeOK, Reissue, Mint
<1> QED BY <1>1, <1>2, <1>3, <1>4, <1>5, ReissueKeys

LEMMA LogoutDoes ==
    ASSUME IInv, NEW r \in Requests, Logout(r)
    PROVE  /\ UNCHANGED clients /\ UNCHANGED tangled /\ OtherCalls(r) /\ Others(r)
           /\ UNCHANGED <<refresh, reuse>> /\ SameOrigins
           /\ call' \in [Requests -> Call \cup {Nil}] /\ At(r, "logout", "sent")
           /\ \E t \in Tokens :
                 /\ t = call[r].cookie
                 /\ \/ /\ refresh[t] # Nil
                       /\ req'[r].pc = "read" /\ req'[r].op = "logout"
                       /\ req'[r].todo = {refresh[t]}
                       /\ Is(call'[r], call[r].client, "logout", call[r].user, "served", Nil, Nil)
                    \/ /\ refresh[t] = Nil /\ UNCHANGED req
                       /\ Is(call'[r], call[r].client, "logout", call[r].user, "answered", Nil, Nil)
<1>1. TypeOK /\ CallsCarry /\ At(r, "logout", "sent") /\ call[r] # Nil
  BY DEF IInv, Logout, At
<1>2. /\ call[r].cookie \in Tokens \cup {Nil} /\ call[r].cookie # Nil /\ call[r].answer = Nil
      /\ call[r].op = "logout"
  BY <1>1, CallHas DEF CallCarries, At
<1>3. PICK t \in Tokens : t = call[r].cookie
  BY <1>2
<1>4. UNCHANGED clients /\ UNCHANGED tangled
  BY DEF Logout
<1>5. CASE Server!Logout(r, t) /\ Serve(r)
  BY <1>1, <1>2, <1>3, <1>4, <1>5, LogoutKeys, ServeCall
<1>6. CASE (\A x \in Tokens : Live(x) => x # call[r].cookie) /\ Answer(r, Nil) /\ UNCHANGED server
  <2>1. UNCHANGED <<refresh, reuse, req>> /\ SameOrigins /\ Others(r)
    BY <1>6 DEF server, SameOrigins, Others
  <2>2. refresh[t] = Nil
    BY <1>3, <1>6 DEF Live
  <2>3. Nil \in Tokens \cup {Nil}
    OBVIOUS
  <2>4. /\ Is(call'[r], call[r].client, "logout", call[r].user, "answered", Nil, Nil)
        /\ OtherCalls(r) /\ call' \in [Requests -> Call \cup {Nil}]
    BY <1>1, <1>2, <1>6, <2>3, AnswerCall
  <2> QED BY <1>1, <1>3, <1>4, <2>1, <2>2, <2>4
<1> QED BY <1>3, <1>5, <1>6 DEF Logout

LEMMA LogoutAllDoes ==
    ASSUME IInv, NEW c \in Clients, NEW r \in Requests, NEW u \in Users, LogoutAll(c, r, u)
    PROVE  /\ UNCHANGED clients /\ OtherCalls(r) /\ Others(r) /\ call[r] = Nil
           /\ UNCHANGED <<refresh, reuse>> /\ SameOrigins
           /\ call' \in [Requests -> Call \cup {Nil}]
           /\ req'[r].pc = "read" /\ req'[r].op = "revokeAll" /\ req'[r].user = u
           /\ Is(call'[r], c, "logoutAll", u, "served", Nil, Nil)
<1>1. TypeOK
  BY DEF IInv
<1>2. Open(r, c, "logoutAll", u, Nil, "served") /\ Server!RevokeAll(r, u) /\ UNCHANGED clients
  BY DEF LogoutAll
<1>3. /\ "logoutAll" \in Ops /\ "served" \in {"sent", "served", "answered"}
      /\ Nil \in Tokens \cup {Nil} /\ u \in Users \cup {Nil} /\ c \in Clients \cup {Nil}
  BY DEF Ops
<1>4. /\ Is(call'[r], c, "logoutAll", u, "served", Nil, Nil) /\ OtherCalls(r)
      /\ call' \in [Requests -> Call \cup {Nil}] /\ call[r] = Nil
  BY <1>1, <1>2, <1>3, OpenCall
<1> QED BY <1>1, <1>2, <1>4, RevokeAllKeys

LEMMA ResetDoes ==
    ASSUME IInv, NEW r \in Requests, NEW u \in Users, Reset(r, u)
    PROVE  /\ UNCHANGED clients /\ UNCHANGED tangled /\ OtherCalls(r) /\ Others(r)
           /\ UNCHANGED <<refresh, reuse>> /\ SameOrigins /\ call[r] = Nil
           /\ call' \in [Requests -> Call \cup {Nil}]
           /\ req'[r].pc = "read" /\ req'[r].op = "revokeAll" /\ req'[r].user = u
           /\ Is(call'[r], Nil, "reset", u, "served", Nil, Nil)
<1>1. TypeOK
  BY DEF IInv
<1>2. /\ Open(r, Nil, "reset", u, Nil, "served") /\ Server!RevokeAll(r, u)
      /\ UNCHANGED clients /\ UNCHANGED tangled
  BY DEF Reset
<1>3. /\ "reset" \in Ops /\ "served" \in {"sent", "served", "answered"}
      /\ Nil \in Tokens \cup {Nil} /\ u \in Users \cup {Nil} /\ Nil \in Clients \cup {Nil}
  BY DEF Ops
<1>4. /\ Is(call'[r], Nil, "reset", u, "served", Nil, Nil) /\ OtherCalls(r)
      /\ call' \in [Requests -> Call \cup {Nil}] /\ call[r] = Nil
  BY <1>1, <1>2, <1>3, OpenCall
<1> QED BY <1>1, <1>2, <1>4, RevokeAllKeys

LEMMA ReadFamilyDoes ==
    ASSUME IInv, NEW r \in Requests, ReadFamily(r)
    PROVE  /\ UNCHANGED clients /\ UNCHANGED <<call, tangled, refresh, reuse>> /\ SameOrigins
           /\ Others(r)
           /\ req[r].pc = "read" /\ req'[r].pc = "drop" /\ req'[r].op = req[r].op
           /\ req'[r].user = req[r].user /\ req'[r].todo = req[r].todo
<1>1. PICK s \in Sessions : Server!ReadFamily(r, s)
  BY DEF ReadFamily
<1>2. UNCHANGED clients /\ UNCHANGED <<call, tangled>> /\ TypeOK
  BY DEF ReadFamily, IInv
<1> QED BY <1>1, <1>2, ReadFamilyKeys

(* A request that serves a call: which one, and for what. *)
LEMMA ServesCall ==
    ASSUME IInv, NEW r \in Requests, req[r].pc # "idle"
    PROVE  call[r] # Nil /\ call[r] \in Call /\ CallCarries(r) /\ call[r].stage = "served"
  BY DEF IInv, TypeOK, CallsCarry

LEMMA DropFamilyDoes ==
    ASSUME IInv, NEW r \in Requests, DropFamily(r)
    PROVE  /\ UNCHANGED clients /\ UNCHANGED tangled /\ OtherCalls(r) /\ Others(r)
           /\ call[r] # Nil /\ call[r].stage = "served"
           /\ call' \in [Requests -> Call \cup {Nil}]
           /\ \A x \in Tokens :
                 IF x \in req[r].digests THEN refresh'[x] = Nil /\ reuse'[x] = Nil
                 ELSE refresh'[x] = refresh[x] /\ reuse'[x] = reuse[x]
           /\ UNCHANGED <<origin, raced>> /\ revoked' = revoked \cup {req[r].session}
           /\ req[r].pc = "drop"
           /\ \/ /\ call[r].op = "logout" /\ req'[r].pc = "idle"
                 /\ Is(call'[r], call[r].client, "logout", call[r].user, "answered", Nil, Nil)
              \/ call[r].op = "refresh" /\ req'[r].pc = "idle" /\ call'[r] = Nil
              \/ /\ call[r].op \in {"logoutAll", "reset"}
                 /\ req'[r].pc = "read" /\ req'[r].op = req[r].op /\ req'[r].user = req[r].user
                 /\ call'[r] = call[r]
<1>1. TypeOK /\ Server!DropFamily(r) /\ UNCHANGED clients /\ UNCHANGED tangled
  BY DEF IInv, DropFamily
<1>2. /\ \A x \in Tokens :
            IF x \in req[r].digests THEN refresh'[x] = Nil /\ reuse'[x] = Nil
            ELSE refresh'[x] = refresh[x] /\ reuse'[x] = reuse[x]
      /\ UNCHANGED <<origin, raced>> /\ revoked' = revoked \cup {req[r].session}
      /\ Others(r) /\ req[r].pc = "drop"
      /\ IF req[r].op = "revokeAll"
         THEN req'[r].pc = "read" /\ req'[r].op = req[r].op /\ req'[r].user = req[r].user
         ELSE req'[r].pc = "idle"
  BY <1>1, DropFamilyKeys
<1>3. /\ call[r] # Nil /\ call[r].stage = "served" /\ CallCarries(r) /\ call[r].op \in Ops
  <2>1. call[r] # Nil /\ call[r] \in Call /\ CallCarries(r) /\ call[r].stage = "served"
    BY <1>2, ServesCall
  <2> QED BY <2>1 DEF Call
<1>4. CASE call[r].op = "logout"
  <2>1. Answer(r, Nil) /\ Nil \in Tokens \cup {Nil}
    BY <1>4 DEF DropFamily
  <2>2. /\ Is(call'[r], call[r].client, "logout", call[r].user, "answered", Nil, Nil)
        /\ OtherCalls(r) /\ call' \in [Requests -> Call \cup {Nil}]
    BY <1>1, <1>3, <1>4, <2>1, AnswerCall
  <2>3. req'[r].pc = "idle"
    BY <1>2, <1>3, <1>4 DEF CallCarries
  <2> QED BY <1>1, <1>2, <1>3, <1>4, <2>2, <2>3
<1>5. CASE call[r].op = "refresh"
  <2>1. Fail(r)
    BY <1>5 DEF DropFamily
  <2>2. call'[r] = Nil /\ OtherCalls(r) /\ call' \in [Requests -> Call \cup {Nil}]
    BY <1>1, <2>1, EndCall
  <2>3. req'[r].pc = "idle"
    BY <1>2, <1>3, <1>5 DEF CallCarries
  <2> QED BY <1>1, <1>2, <1>3, <1>5, <2>2, <2>3
<1>6. CASE call[r].op \notin {"logout", "refresh"}
  <2>1. UNCHANGED call
    BY <1>6 DEF DropFamily
  <2>2. OtherCalls(r) /\ call' \in [Requests -> Call \cup {Nil}] /\ call'[r] = call[r]
    BY <1>1, <2>1 DEF OtherCalls, TypeOK
  <2>3. call[r].op \in {"logoutAll", "reset"} /\ req[r].op = "revokeAll"
    BY <1>3, <1>6 DEF CallCarries, Ops
  <2> QED BY <1>1, <1>2, <1>3, <2>2, <2>3
<1> QED BY <1>4, <1>5, <1>6

LEMMA ClearIndexDoes ==
    ASSUME IInv, NEW r \in Requests, ClearIndex(r)
    PROVE  /\ UNCHANGED clients /\ UNCHANGED tangled /\ OtherCalls(r) /\ Others(r)
           /\ UNCHANGED <<refresh, reuse>> /\ SameOrigins
           /\ call[r] # Nil /\ call[r].stage = "served"
           /\ call' \in [Requests -> Call \cup {Nil}]
           /\ req[r].pc = "read" /\ req[r].op = "revokeAll" /\ req[r].todo = {}
           /\ req'[r].pc = "idle"
           /\ \/ call[r].op = "reset" /\ call'[r] = Nil
              \/ /\ call[r].op = "logoutAll" /\ req[r].user = call[r].user
                 /\ Is(call'[r], call[r].client, "logoutAll", call[r].user, "answered", Nil, Nil)
<1>1. TypeOK /\ Server!ClearIndex(r) /\ UNCHANGED clients /\ UNCHANGED tangled
  BY DEF IInv, ClearIndex
<1>2. /\ UNCHANGED <<refresh, reuse>> /\ SameOrigins /\ Others(r)
      /\ req[r].pc = "read" /\ req[r].op = "revokeAll" /\ req[r].todo = {}
      /\ req'[r].pc = "idle"
  BY <1>1, ClearIndexKeys
<1>3. call[r] # Nil /\ call[r] \in Call /\ CallCarries(r) /\ call[r].stage = "served"
  BY <1>2, ServesCall
<1>4. CASE call[r].op = "reset"
  <2>1. Fail(r)
    BY <1>4 DEF ClearIndex
  <2>2. call'[r] = Nil /\ OtherCalls(r) /\ call' \in [Requests -> Call \cup {Nil}]
    BY <1>1, <2>1, EndCall
  <2> QED BY <1>1, <1>2, <1>3, <1>4, <2>2
<1>5. CASE call[r].op # "reset"
  <2>1. Answer(r, Nil) /\ Nil \in Tokens \cup {Nil}
    BY <1>5 DEF ClearIndex
  <2>2. /\ Is(call'[r], call[r].client, call[r].op, call[r].user, "answered", Nil, Nil)
        /\ OtherCalls(r) /\ call' \in [Requests -> Call \cup {Nil}]
    BY <1>1, <1>3, <2>1, AnswerCall
  <2>3. call[r].op \in Ops
    BY <1>3 DEF Call
  <2>4. call[r].op = "logoutAll" /\ req[r].user = call[r].user
    BY <1>2, <1>3, <1>5, <2>3 DEF CallCarries, Ops
  <2> QED BY <1>1, <1>2, <1>3, <2>2, <2>4
<1> QED BY <1>4, <1>5

LEMMA AbortDoes ==
    ASSUME IInv, NEW r \in Requests, Abort(r)
    PROVE  /\ UNCHANGED clients /\ OtherCalls(r) /\ Others(r)
           /\ UNCHANGED <<refresh, reuse>> /\ SameOrigins
           /\ call[r] # Nil /\ call[r].stage = "served" /\ call'[r] = Nil
           /\ call' \in [Requests -> Call \cup {Nil}]
           /\ req'[r].pc = "idle"
           /\ tangled' = tangled \cup ({call[r].client} \ {Nil})
<1>1. TypeOK /\ Server!Abort(r) /\ UNCHANGED clients /\ Fail(r)
      /\ tangled' = tangled \cup ({call[r].client} \ {Nil})
  BY DEF IInv, Abort
<1>2. /\ UNCHANGED <<refresh, reuse>> /\ SameOrigins /\ Others(r)
      /\ req[r].pc # "idle" /\ req'[r].pc = "idle"
  BY <1>1, AbortKeys
<1>3. call[r] # Nil /\ call[r].stage = "served"
  BY <1>2, ServesCall
<1>4. call'[r] = Nil /\ OtherCalls(r) /\ call' \in [Requests -> Call \cup {Nil}]
  BY <1>1, EndCall
<1> QED BY <1>1, <1>2, <1>3, <1>4

LEMMA ReceiveDoes ==
    ASSUME IInv, NEW r \in Requests, Receive(r)
    PROVE  /\ UNCHANGED server /\ UNCHANGED <<holder, tangled, lapsed>>
           /\ call[r] # Nil /\ call[r].stage = "answered" /\ call[r].client \in Clients
           /\ call'[r] = Nil /\ OtherCalls(r) /\ call' \in [Requests -> Call \cup {Nil}]
           /\ jar'[call[r].client] = call[r].answer
           /\ \A c \in Clients \ {call[r].client} : jar'[c] = jar[c]
           /\ jar' \in [Clients -> Tokens \cup {Nil}]
           /\ forsaken' = forsaken \cup GivesWay(r)
<1>1. TypeOK /\ CallsCarry /\ call[r] # Nil /\ call[r].stage = "answered"
  BY DEF IInv, Receive
<1>2. call[r].client \in Clients /\ call[r].answer \in Tokens \cup {Nil}
  BY <1>1, CallHas DEF CallCarries
<1>3. Fail(r)
  BY DEF Receive, Fail
<1>4. call'[r] = Nil /\ OtherCalls(r) /\ call' \in [Requests -> Call \cup {Nil}]
  BY <1>1, <1>3, EndCall
<1>5. jar' = [jar EXCEPT ![call[r].client] = call[r].answer] /\ jar \in [Clients -> Tokens \cup {Nil}]
  BY <1>1 DEF Receive, TypeOK
<1>6. /\ jar'[call[r].client] = call[r].answer
      /\ \A c \in Clients \ {call[r].client} : jar'[c] = jar[c]
      /\ jar' \in [Clients -> Tokens \cup {Nil}]
  BY <1>2, <1>5
<1>7. /\ UNCHANGED server /\ UNCHANGED <<holder, tangled, lapsed>>
      /\ forsaken' = forsaken \cup GivesWay(r)
  BY DEF Receive
<1> QED BY <1>1, <1>2, <1>4, <1>6, <1>7

LEMMA LoseDoes ==
    ASSUME IInv, NEW r \in Requests, Lose(r)
    PROVE  /\ UNCHANGED server /\ UNCHANGED clients
           /\ call[r] # Nil /\ call[r].stage # "served" /\ call[r].client \in Clients
           /\ call'[r] = Nil /\ OtherCalls(r) /\ call' \in [Requests -> Call \cup {Nil}]
           /\ tangled' = IF call[r].stage = "sent" THEN tangled
                         ELSE tangled \cup {call[r].client}
<1>1. TypeOK /\ CallsCarry /\ call[r] # Nil /\ call[r].stage # "served"
  BY DEF IInv, Lose
<1>2. call[r].client \in Clients
  BY <1>1, CallHas DEF CallCarries
<1>3. Fail(r) /\ UNCHANGED server /\ UNCHANGED clients
  BY DEF Lose, Fail
<1>4. call'[r] = Nil /\ OtherCalls(r) /\ call' \in [Requests -> Call \cup {Nil}]
  BY <1>1, <1>3, EndCall
<1> QED BY <1>1, <1>2, <1>3, <1>4 DEF Lose

LEMMA ExpireTokenDoes ==
    ASSUME IInv, NEW t \in Tokens, ExpireToken(t)
    PROVE  /\ refresh[t] # Nil /\ refresh'[t] = Nil /\ SameKeysBut(t)
           /\ UNCHANGED <<reuse, req>> /\ SameOrigins
           /\ UNCHANGED <<jar, call, holder, tangled, forsaken>>
           /\ lapsed' = lapsed \cup {t}
<1>1. TypeOK /\ Server!ExpireToken(t)
  BY DEF IInv, ExpireToken
<1> QED BY <1>1, ExpireTokenKeys DEF ExpireToken

LEMMA ExpireCookieDoes ==
    ASSUME IInv, NEW c \in Clients, ExpireCookie(c)
    PROVE  /\ UNCHANGED server /\ UNCHANGED <<call, holder, tangled, forsaken, lapsed>>
           /\ jar[c] # Nil /\ refresh[jar[c]] = Nil /\ jar'[c] = Nil
           /\ \A d \in Clients \ {c} : jar'[d] = jar[d]
           /\ jar' \in [Clients -> Tokens \cup {Nil}]
  BY DEF ExpireCookie, IInv, TypeOK, Live

LEMMA EntangleDoes ==
    ASSUME NEW c \in Clients, Entangle(c)
    PROVE  /\ tangled \subseteq tangled' /\ tangled' \subseteq tangled \cup {c}
           /\ c \notin tangled' => CallsOf(c) = {}
  BY DEF Entangle

-----------------------------------------------------------------------------
(* Types, and what calls carry.                                            *)

LEMMA CallsKeepCarrying ==
    ASSUME CallsCarry, NEW r \in Requests, OtherCalls(r), Others(r),
           call'[r] # Nil => CallCarries(r)'
    PROVE  CallsCarry'
<1> SUFFICES ASSUME NEW q \in Requests, call'[q] # Nil
             PROVE  CallCarries(q)'
  BY DEF CallsCarry
<1>1. CASE q = r
  BY <1>1
<1>2. CASE q # r
  <2>1. call'[q] = call[q] /\ req'[q] = req[q]
    BY <1>2 DEF OtherCalls, Others
  <2>2. CallCarries(q)
    BY <2>1 DEF CallsCarry
  <2> QED BY <2>1, <2>2 DEF CallCarries, Server!Revoking
<1> QED BY <1>1, <1>2

LEMMA CarriesSent ==
    ASSUME NEW r \in Requests, NEW c \in Clients, NEW op \in {"refresh", "logout"},
           NEW u, NEW t \in Tokens, Is(call'[r], c, op, u, "sent", t, Nil)
    PROVE  CallCarries(r)'
  BY NilAssumption DEF Is, CallCarries

LEMMA CarriesServed ==
    ASSUME NEW r \in Requests, NEW c \in Clients, NEW op \in {"refresh", "logout", "logoutAll"},
           NEW u, Is(call'[r], c, op, u, "served", Nil, Nil),
           op # "logoutAll" => req'[r].op = op,
           op = "logoutAll" => req'[r].op = "revokeAll" /\ req'[r].user = u,
           op # "refresh" => req'[r].pc \in {"read", "drop"}
    PROVE  CallCarries(r)'
  BY NilAssumption DEF Is, CallCarries, Server!Revoking

LEMMA CarriesReset ==
    ASSUME NEW r \in Requests,
           NEW u, Is(call'[r], Nil, "reset", u, "served", Nil, Nil),
           req'[r].op = "revokeAll" /\ req'[r].user = u,
           req'[r].pc \in {"read", "drop"}
    PROVE  CallCarries(r)'
  BY NilAssumption DEF Is, CallCarries, Server!Revoking

LEMMA CarriesAnswered ==
    ASSUME NEW r \in Requests, NEW c \in Clients,
           NEW op \in {"login", "refresh", "logout", "logoutAll"},
           NEW u, NEW t \in Tokens \cup {Nil}, Is(call'[r], c, op, u, "answered", Nil, t),
           t # Nil <=> op \in {"login", "refresh"}
    PROVE  CallCarries(r)'
  BY NilAssumption DEF Is, CallCarries

LEMMA CarryStep ==
    ASSUME IInv, [Next]_vars
    PROVE  CallsCarry'
<1>0. /\ TypeOK /\ CallsCarry /\ Nil \notin Tokens /\ Nil \in Tokens \cup {Nil}
      /\ \A q \in Requests : call[q] # Nil => CallCarries(q)
  BY NilAssumption DEF IInv, CallsCarry
<1>1. ASSUME NEW c \in Clients, NEW r \in Requests, Send(c, r)
      PROVE  CallsCarry'
  <2>1. OtherCalls(r) /\ Others(r)
    BY <1>1, SendDoes DEF Others, server
  <2>2. CASE jar[c] # Nil
    <3>1. PICK t \in Tokens : t = jar[c]
      BY <1>0, <2>2 DEF TypeOK
    <3>2. PICK op \in {"refresh", "logout"} : Is(call'[r], c, op, Nil, "sent", t, Nil)
      BY <1>1, <2>2, <3>1, SendDoes
    <3>3. CallCarries(r)'
      BY <3>2, CarriesSent
    <3> QED BY <1>0, <2>1, <3>3, CallsKeepCarrying
  <2>3. CASE jar[c] = Nil
    <3>1. Is(call'[r], c, "logout", Nil, "answered", Nil, Nil)
      BY <1>1, <2>3, SendDoes
    <3>2. CallCarries(r)'
      BY <1>0, <3>1, CarriesAnswered
    <3> QED BY <1>0, <2>1, <3>2, CallsKeepCarrying
  <2> QED BY <2>2, <2>3
<1>2. ASSUME NEW c \in Clients, NEW r \in Requests, NEW s \in Sessions, NEW t \in Tokens,
             Login(c, r, s, t)
      PROVE  CallsCarry'
  <2>1. OtherCalls(r) /\ Others(r)
    BY <1>2, LoginDoes DEF Others
  <2>2. Is(call'[r], c, "login", UserOf[s], "answered", Nil, t)
    BY <1>2, LoginDoes
  <2>3. CallCarries(r)'
    BY <1>0, <2>2, CarriesAnswered
  <2> QED BY <1>0, <2>1, <2>3, CallsKeepCarrying
<1>3. ASSUME NEW c \in Clients, NEW r \in Requests, NEW u \in Users, LogoutAll(c, r, u)
      PROVE  CallsCarry'
  <2>1. OtherCalls(r) /\ Others(r)
    BY <1>3, LogoutAllDoes
  <2>2. /\ Is(call'[r], c, "logoutAll", u, "served", Nil, Nil)
        /\ req'[r].op = "revokeAll" /\ req'[r].user = u /\ req'[r].pc = "read"
    BY <1>3, LogoutAllDoes
  <2>3. CallCarries(r)'
    BY <2>2, CarriesServed
  <2> QED BY <1>0, <2>1, <2>3, CallsKeepCarrying
<1>4. ASSUME NEW r \in Requests, NEW u \in Users, Reset(r, u)
      PROVE  CallsCarry'
  <2>1. OtherCalls(r) /\ Others(r)
    BY <1>4, ResetDoes
  <2>2. /\ Is(call'[r], Nil, "reset", u, "served", Nil, Nil)
        /\ req'[r].op = "revokeAll" /\ req'[r].user = u /\ req'[r].pc = "read"
    BY <1>4, ResetDoes
  <2>3. CallCarries(r)'
    BY <2>2, CarriesReset
  <2> QED BY <1>0, <2>1, <2>3, CallsKeepCarrying
<1>5. ASSUME NEW r \in Requests, Rotate(r)
      PROVE  CallsCarry'
  <2>1. OtherCalls(r) /\ Others(r) /\ call[r] # Nil /\ call[r].op = "refresh"
    BY <1>5, RotateDoes DEF At
  <2>2. call[r].client \in Clients
    BY <1>0, <2>1, CallHas
  <2>3. \/ call'[r] = Nil
        \/ /\ Is(call'[r], call[r].client, "refresh", call[r].user, "served", Nil, Nil)
           /\ req'[r].op = "refresh"
    BY <1>5, RotateDoes
  <2>4. call'[r] # Nil => CallCarries(r)'
    BY <2>2, <2>3, CarriesServed
  <2> QED BY <1>0, <2>1, <2>4, CallsKeepCarrying
<1>6. ASSUME NEW r \in Requests, Logout(r)
      PROVE  CallsCarry'
  <2>1. OtherCalls(r) /\ Others(r) /\ call[r] # Nil /\ call[r].op = "logout"
    BY <1>6, LogoutDoes DEF At
  <2>2. call[r].client \in Clients
    BY <1>0, <2>1, CallHas
  <2>3. \/ /\ Is(call'[r], call[r].client, "logout", call[r].user, "served", Nil, Nil)
           /\ req'[r].op = "logout" /\ req'[r].pc = "read"
        \/ Is(call'[r], call[r].client, "logout", call[r].user, "answered", Nil, Nil)
    BY <1>6, LogoutDoes
  <2>4. CASE /\ Is(call'[r], call[r].client, "logout", call[r].user, "served", Nil, Nil)
             /\ req'[r].op = "logout" /\ req'[r].pc = "read"
    <3>1. CallCarries(r)'
      BY <2>2, <2>4, CarriesServed
    <3> QED BY <1>0, <2>1, <3>1, CallsKeepCarrying
  <2>5. CASE Is(call'[r], call[r].client, "logout", call[r].user, "answered", Nil, Nil)
    <3>1. CallCarries(r)'
      BY <1>0, <2>2, <2>5, CarriesAnswered
    <3> QED BY <1>0, <2>1, <3>1, CallsKeepCarrying
  <2> QED BY <2>3, <2>4, <2>5
<1>7. ASSUME NEW r \in Requests, NEW t \in Tokens, Reissue(r, t)
      PROVE  CallsCarry'
  <2>1. OtherCalls(r) /\ Others(r) /\ call[r].client \in Clients
    BY <1>7, ReissueDoes
  <2>2. Is(call'[r], call[r].client, "refresh", call[r].user, "answered", Nil, t)
    BY <1>7, ReissueDoes
  <2>3. CallCarries(r)'
    BY <1>0, <2>1, <2>2, CarriesAnswered
  <2> QED BY <1>0, <2>1, <2>3, CallsKeepCarrying
<1>8. ASSUME NEW r \in Requests, ReadFamily(r)
      PROVE  CallsCarry'
  <2>1. /\ OtherCalls(r) /\ Others(r) /\ call'[r] = call[r] /\ req[r].pc = "read"
        /\ req'[r].pc = "drop" /\ req'[r].op = req[r].op /\ req'[r].user = req[r].user
    BY <1>8, ReadFamilyDoes DEF OtherCalls
  <2>2. call[r] # Nil => CallCarries(r)
    BY <1>0
  <2>3. call'[r] # Nil => CallCarries(r)'
    BY <2>1, <2>2 DEF CallCarries, Server!Revoking
  <2> QED BY <1>0, <2>1, <2>3, CallsKeepCarrying
<1>9. ASSUME NEW r \in Requests, DropFamily(r)
      PROVE  CallsCarry'
  <2>1. OtherCalls(r) /\ Others(r) /\ call[r] # Nil /\ req[r].pc = "drop"
    BY <1>9, DropFamilyDoes
  <2>2. CASE /\ call[r].op = "logout"
             /\ Is(call'[r], call[r].client, "logout", call[r].user, "answered", Nil, Nil)
    <3>1. call[r].client \in Clients
      BY <1>0, <2>1, <2>2, CallHas
    <3>2. CallCarries(r)'
      BY <1>0, <2>2, <3>1, CarriesAnswered
    <3> QED BY <1>0, <2>1, <3>2, CallsKeepCarrying
  <2>3. CASE call'[r] = Nil
    BY <1>0, <2>1, <2>3, CallsKeepCarrying
  <2>4. CASE /\ req'[r].pc = "read" /\ req'[r].op = req[r].op /\ req'[r].user = req[r].user
             /\ call'[r] = call[r]
    <3>1. CallCarries(r)
      BY <1>0, <2>1
    <3>2. CallCarries(r)'
      BY <2>1, <2>4, <3>1 DEF CallCarries, Server!Revoking
    <3> QED BY <1>0, <2>1, <3>2, CallsKeepCarrying
  <2> QED BY <1>9, <2>2, <2>3, <2>4, DropFamilyDoes
<1>10. ASSUME NEW r \in Requests, ClearIndex(r)
       PROVE  CallsCarry'
  <2>1. OtherCalls(r) /\ Others(r) /\ call[r] # Nil
    BY <1>10, ClearIndexDoes
  <2>2. CASE call'[r] = Nil
    BY <1>0, <2>1, <2>2, CallsKeepCarrying
  <2>3. CASE /\ call[r].op = "logoutAll"
             /\ Is(call'[r], call[r].client, "logoutAll", call[r].user, "answered", Nil, Nil)
    <3>1. call[r].client \in Clients
      BY <1>0, <2>1, <2>3, CallHas
    <3>2. CallCarries(r)'
      BY <1>0, <2>3, <3>1, CarriesAnswered
    <3> QED BY <1>0, <2>1, <3>2, CallsKeepCarrying
  <2> QED BY <1>10, <2>2, <2>3, ClearIndexDoes
<1>11. ASSUME NEW r \in Requests, Abort(r)
       PROVE  CallsCarry'
  <2>1. OtherCalls(r) /\ Others(r) /\ call'[r] = Nil
    BY <1>11, AbortDoes
  <2> QED BY <1>0, <2>1, CallsKeepCarrying
<1>12. ASSUME NEW r \in Requests, Receive(r) \/ Lose(r)
       PROVE  CallsCarry'
  <2>1. OtherCalls(r) /\ Others(r) /\ call'[r] = Nil
    BY <1>12, ReceiveDoes, LoseDoes DEF Others, server
  <2> QED BY <1>0, <2>1, CallsKeepCarrying
<1>13. ASSUME UNCHANGED <<call, req>>
       PROVE  CallsCarry'
  BY <1>0, <1>13 DEF CallsCarry, CallCarries, Server!Revoking
<1>14. ASSUME NEW t \in Tokens, ExpireToken(t)
       PROVE  UNCHANGED <<call, req>>
  BY <1>14, ExpireTokenDoes
<1>15. ASSUME NEW c \in Clients, ExpireCookie(c)
       PROVE  UNCHANGED <<call, req>>
  BY <1>15, ExpireCookieDoes DEF server
<1>16. CASE UNCHANGED vars
  BY <1>13, <1>16 DEF vars, server
<1> QED BY <1>1, <1>2, <1>3, <1>4, <1>5, <1>6, <1>7, <1>8, <1>9, <1>10, <1>11, <1>12,
           <1>13, <1>14, <1>15, <1>16 DEF Next, Handle, Revoke

(* The request behind a call runs exactly while the call is served.        *)
LEMMA TypeKeeps ==
    ASSUME TypeOK, ServerProof!IInv', NEW r \in Requests, OtherCalls(r), Others(r),
           call' \in [Requests -> Call \cup {Nil}],
           req'[r].pc # "idle" <=> call'[r] # Nil /\ call'[r].stage = "served",
           jar' \in [Clients -> Tokens \cup {Nil}], holder' \in [Tokens -> Clients \cup {Nil}],
           tangled' \subseteq Clients, forsaken' \subseteq Sessions, lapsed' \subseteq Tokens
    PROVE  TypeOK'
<1>1. Server!TypeOK'
  <2>1. ServerProof!TypeOK'
    BY DEF ServerProof!IInv
  <2>2. Server!TypeOK' <=> ServerProof!TypeOK'
    BY DEF Server!TypeOK, ServerProof!TypeOK, Server!Request, ServerProof!Request,
           Server!Pcs, ServerProof!Pcs, Server!Ops, ServerProof!Ops,
           Server!Revoking, ServerProof!Revoking
  <2> QED BY <2>1, <2>2
<1>2. ASSUME NEW q \in Requests
      PROVE  req'[q].pc # "idle" <=> call'[q] # Nil /\ call'[q].stage = "served"
  <2>1. CASE q = r
    BY <2>1
  <2>2. CASE q # r
    <3>1. call'[q] = call[q] /\ req'[q] = req[q]
      BY <2>2 DEF OtherCalls, Others
    <3>2. req[q].pc # "idle" <=> call[q] # Nil /\ call[q].stage = "served"
      BY DEF TypeOK
    <3> QED BY <3>1, <3>2
  <2> QED BY <2>1, <2>2
<1> QED BY <1>1, <1>2 DEF TypeOK

LEMMA TypeStep ==
    ASSUME IInv, [Next]_vars
    PROVE  TypeOK'
<1>0. TypeOK /\ CallsCarry
  BY DEF IInv
<1>i. ServerProof!IInv'
  BY <1>0, ServerInvStep DEF IInv
<1>t. /\ jar \in [Clients -> Tokens \cup {Nil}] /\ holder \in [Tokens -> Clients \cup {Nil}]
      /\ tangled \subseteq Clients /\ forsaken \subseteq Sessions /\ lapsed \subseteq Tokens
      /\ call \in [Requests -> Call \cup {Nil}]
      /\ \A q \in Requests :
            req[q].pc # "idle" <=> call[q] # Nil /\ call[q].stage = "served"
  BY <1>0 DEF TypeOK
<1>c. UNCHANGED clients => /\ jar' \in [Clients -> Tokens \cup {Nil}]
                           /\ holder' \in [Tokens -> Clients \cup {Nil}]
                           /\ forsaken' \subseteq Sessions /\ lapsed' \subseteq Tokens
  BY <1>t DEF clients
<1>1. ASSUME NEW c \in Clients, NEW r \in Requests, Send(c, r)
      PROVE  TypeOK'
  <2>1. /\ UNCHANGED clients /\ UNCHANGED req /\ call[r] = Nil /\ OtherCalls(r)
        /\ call' \in [Requests -> Call \cup {Nil}]
    BY <1>1, SendDoes DEF server
  <2>2. call'[r] # Nil /\ call'[r].stage # "served"
    BY <1>1, SendDoes DEF Is
  <2>3. tangled' \subseteq Clients
    BY <1>1, <1>t, EntangleDoes DEF Send
  <2>4. Others(r) /\ (req'[r].pc # "idle" <=> call'[r] # Nil /\ call'[r].stage = "served")
    BY <1>t, <2>1, <2>2 DEF Others
  <2> QED BY <1>0, <1>i, <1>c, <2>1, <2>3, <2>4, TypeKeeps
<1>2. ASSUME NEW c \in Clients, NEW r \in Requests, NEW s \in Sessions, NEW t \in Tokens,
             Login(c, r, s, t)
      PROVE  TypeOK'
  <2>1. /\ req' = req /\ holder' \in [Tokens -> Clients \cup {Nil}]
        /\ UNCHANGED <<jar, forsaken, lapsed>>
        /\ call[r] = Nil /\ OtherCalls(r) /\ call' \in [Requests -> Call \cup {Nil}]
    BY <1>2, LoginDoes
  <2>2. call'[r].stage # "served"
    BY <1>2, LoginDoes DEF Is
  <2>3. tangled' \subseteq Clients
    BY <1>2, <1>t, EntangleDoes DEF Login
  <2>4. Others(r) /\ (req'[r].pc # "idle" <=> call'[r] # Nil /\ call'[r].stage = "served")
    BY <1>t, <2>1, <2>2 DEF Others
  <2>5. /\ jar' \in [Clients -> Tokens \cup {Nil}]
        /\ forsaken' \subseteq Sessions /\ lapsed' \subseteq Tokens
    BY <1>t, <2>1
  <2> QED BY <1>0, <1>i, <2>1, <2>3, <2>4, <2>5, TypeKeeps
<1>3. ASSUME NEW c \in Clients, NEW r \in Requests, NEW u \in Users, LogoutAll(c, r, u)
      PROVE  TypeOK'
  <2>1. /\ UNCHANGED clients /\ OtherCalls(r) /\ Others(r)
        /\ call' \in [Requests -> Call \cup {Nil}] /\ req'[r].pc = "read"
    BY <1>3, LogoutAllDoes
  <2>2. call'[r] # Nil /\ call'[r].stage = "served"
    BY <1>3, LogoutAllDoes DEF Is
  <2>3. tangled' \subseteq Clients
    BY <1>3, <1>t, EntangleDoes DEF LogoutAll
  <2>4. req'[r].pc # "idle" <=> call'[r] # Nil /\ call'[r].stage = "served"
    BY <2>1, <2>2
  <2> QED BY <1>0, <1>i, <1>c, <2>1, <2>3, <2>4, TypeKeeps
<1>4. ASSUME NEW r \in Requests, NEW u \in Users, Reset(r, u)
      PROVE  TypeOK'
  <2>1. /\ UNCHANGED clients /\ UNCHANGED tangled /\ OtherCalls(r) /\ Others(r)
        /\ call' \in [Requests -> Call \cup {Nil}] /\ req'[r].pc = "read"
    BY <1>4, ResetDoes
  <2>2. call'[r] # Nil /\ call'[r].stage = "served"
    BY <1>4, ResetDoes DEF Is
  <2>3. tangled' \subseteq Clients
    BY <1>t, <2>1
  <2>4. req'[r].pc # "idle" <=> call'[r] # Nil /\ call'[r].stage = "served"
    BY <2>1, <2>2
  <2> QED BY <1>0, <1>i, <1>c, <2>1, <2>3, <2>4, TypeKeeps
<1>5. ASSUME NEW r \in Requests, Rotate(r)
      PROVE  TypeOK'
  <2>1. /\ UNCHANGED clients /\ UNCHANGED tangled /\ OtherCalls(r) /\ Others(r)
        /\ call' \in [Requests -> Call \cup {Nil}]
        /\ call[r] # Nil /\ call[r].stage = "sent"
    BY <1>5, RotateDoes DEF At
  <2>2. tangled' \subseteq Clients
    BY <1>t, <2>1
  <2>3. \/ call'[r] # Nil /\ call'[r].stage = "served" /\ req'[r].pc # "idle"
        \/ call'[r] = Nil /\ UNCHANGED req
    BY <1>5, RotateDoes DEF Is
  <2>4. req'[r].pc # "idle" <=> call'[r] # Nil /\ call'[r].stage = "served"
    BY <1>t, <2>1, <2>3
  <2> QED BY <1>0, <1>i, <1>c, <2>1, <2>2, <2>4, TypeKeeps
<1>6. ASSUME NEW r \in Requests, Logout(r)
      PROVE  TypeOK'
  <2>1. /\ UNCHANGED clients /\ UNCHANGED tangled /\ OtherCalls(r) /\ Others(r)
        /\ call' \in [Requests -> Call \cup {Nil}]
        /\ call[r] # Nil /\ call[r].stage = "sent"
    BY <1>6, LogoutDoes DEF At
  <2>2. tangled' \subseteq Clients
    BY <1>t, <2>1
  <2>3. \/ call'[r] # Nil /\ call'[r].stage = "served" /\ req'[r].pc # "idle"
        \/ call'[r].stage # "served" /\ UNCHANGED req
    BY <1>6, LogoutDoes DEF Is
  <2>4. req'[r].pc # "idle" <=> call'[r] # Nil /\ call'[r].stage = "served"
    BY <1>t, <2>1, <2>3
  <2> QED BY <1>0, <1>i, <1>c, <2>1, <2>2, <2>4, TypeKeeps
<1>7. ASSUME NEW r \in Requests, NEW t \in Tokens, Reissue(r, t)
      PROVE  TypeOK'
  <2>1. /\ UNCHANGED <<jar, tangled, forsaken, lapsed>> /\ OtherCalls(r) /\ Others(r)
        /\ holder' \in [Tokens -> Clients \cup {Nil}] /\ req'[r].pc = "idle"
        /\ call' \in [Requests -> Call \cup {Nil}]
    BY <1>7, ReissueDoes
  <2>2. call'[r].stage # "served"
    BY <1>7, ReissueDoes DEF Is
  <2>3. /\ tangled' \subseteq Clients /\ jar' \in [Clients -> Tokens \cup {Nil}]
        /\ forsaken' \subseteq Sessions /\ lapsed' \subseteq Tokens
    BY <1>t, <2>1
  <2>4. req'[r].pc # "idle" <=> call'[r] # Nil /\ call'[r].stage = "served"
    BY <2>1, <2>2
  <2> QED BY <1>0, <1>i, <2>1, <2>3, <2>4, TypeKeeps
<1>8. ASSUME NEW r \in Requests, ReadFamily(r)
      PROVE  TypeOK'
  <2>1. /\ UNCHANGED clients /\ UNCHANGED <<tangled, call>> /\ Others(r)
        /\ req[r].pc = "read" /\ req'[r].pc = "drop"
    BY <1>8, ReadFamilyDoes
  <2>2. /\ tangled' \subseteq Clients /\ OtherCalls(r) /\ call' \in [Requests -> Call \cup {Nil}]
    BY <1>t, <2>1 DEF OtherCalls
  <2>3. req'[r].pc # "idle" <=> call'[r] # Nil /\ call'[r].stage = "served"
    BY <1>t, <2>1
  <2> QED BY <1>0, <1>i, <1>c, <2>1, <2>2, <2>3, TypeKeeps
<1>9. ASSUME NEW r \in Requests, DropFamily(r)
      PROVE  TypeOK'
  <2>1. /\ UNCHANGED clients /\ UNCHANGED tangled /\ OtherCalls(r) /\ Others(r)
        /\ call' \in [Requests -> Call \cup {Nil}]
        /\ call[r] # Nil /\ call[r].stage = "served"
    BY <1>9, DropFamilyDoes
  <2>2. tangled' \subseteq Clients
    BY <1>t, <2>1
  <2>3. \/ call'[r].stage # "served" /\ req'[r].pc = "idle"
        \/ call'[r] = Nil /\ req'[r].pc = "idle"
        \/ call'[r] = call[r] /\ req'[r].pc = "read"
    BY <1>9, DropFamilyDoes DEF Is
  <2>4. req'[r].pc # "idle" <=> call'[r] # Nil /\ call'[r].stage = "served"
    BY <2>1, <2>3
  <2> QED BY <1>0, <1>i, <1>c, <2>1, <2>2, <2>4, TypeKeeps
<1>10. ASSUME NEW r \in Requests, ClearIndex(r)
       PROVE  TypeOK'
  <2>1. /\ UNCHANGED clients /\ UNCHANGED tangled /\ OtherCalls(r) /\ Others(r)
        /\ call' \in [Requests -> Call \cup {Nil}] /\ req'[r].pc = "idle"
    BY <1>10, ClearIndexDoes
  <2>2. tangled' \subseteq Clients
    BY <1>t, <2>1
  <2>3. call'[r] = Nil \/ call'[r].stage # "served"
    BY <1>10, ClearIndexDoes DEF Is
  <2>4. req'[r].pc # "idle" <=> call'[r] # Nil /\ call'[r].stage = "served"
    BY <2>1, <2>3
  <2> QED BY <1>0, <1>i, <1>c, <2>1, <2>2, <2>4, TypeKeeps
<1>11. ASSUME NEW r \in Requests, Abort(r)
       PROVE  TypeOK'
  <2>1. /\ UNCHANGED clients /\ OtherCalls(r) /\ Others(r)
        /\ call' \in [Requests -> Call \cup {Nil}] /\ req'[r].pc = "idle"
        /\ call'[r] = Nil /\ call[r] # Nil
        /\ tangled' = tangled \cup ({call[r].client} \ {Nil})
    BY <1>11, AbortDoes
  <2>2. call[r].client \in Clients \cup {Nil}
    BY <1>t, <2>1 DEF Call
  <2>3. tangled' \subseteq Clients
    BY <1>t, <2>1, <2>2
  <2> QED BY <1>0, <1>i, <1>c, <2>1, <2>3, TypeKeeps
<1>12. ASSUME NEW r \in Requests, Receive(r)
       PROVE  TypeOK'
  <2>1. /\ UNCHANGED req /\ UNCHANGED <<holder, tangled, lapsed>>
        /\ call[r].stage = "answered" /\ call[r].client \in Clients
        /\ call'[r] = Nil /\ OtherCalls(r) /\ call' \in [Requests -> Call \cup {Nil}]
        /\ jar' \in [Clients -> Tokens \cup {Nil}]
        /\ forsaken' = forsaken \cup GivesWay(r)
    BY <1>12, ReceiveDoes DEF server
  <2>2. Replaced(r) \subseteq Sessions
    BY <1>0, <2>1, <1>t DEF Replaced, TypeOK, Server!TypeOK
  <2>3. GivesWay(r) \subseteq Sessions
    BY <2>2 DEF GivesWay
  <2>4. /\ tangled' \subseteq Clients /\ holder' \in [Tokens -> Clients \cup {Nil}]
        /\ forsaken' \subseteq Sessions /\ lapsed' \subseteq Tokens /\ Others(r)
    BY <1>t, <2>1, <2>3 DEF Others
  <2>5. req'[r].pc # "idle" <=> call'[r] # Nil /\ call'[r].stage = "served"
    BY <1>t, <2>1
  <2> QED BY <1>0, <1>i, <2>1, <2>4, <2>5, TypeKeeps
<1>13. ASSUME NEW r \in Requests, Lose(r)
       PROVE  TypeOK'
  <2>1. /\ UNCHANGED req /\ UNCHANGED clients
        /\ call[r] # Nil /\ call[r].stage # "served" /\ call[r].client \in Clients
        /\ call'[r] = Nil /\ OtherCalls(r) /\ call' \in [Requests -> Call \cup {Nil}]
        /\ tangled' \in {tangled, tangled \cup {call[r].client}}
    BY <1>13, LoseDoes DEF server
  <2>2. tangled' \subseteq Clients /\ Others(r)
    BY <1>t, <2>1 DEF Others
  <2>3. req'[r].pc # "idle" <=> call'[r] # Nil /\ call'[r].stage = "served"
    BY <1>t, <2>1
  <2> QED BY <1>0, <1>i, <1>c, <2>1, <2>2, <2>3, TypeKeeps
<1>14. ASSUME UNCHANGED <<call, req, holder, tangled, forsaken>>,
              jar' \in [Clients -> Tokens \cup {Nil}], lapsed' \subseteq Tokens
       PROVE  TypeOK'
  <2>1. Server!TypeOK'
    <3>1. ServerProof!TypeOK'
      BY <1>i DEF ServerProof!IInv
    <3>2. Server!TypeOK' <=> ServerProof!TypeOK'
      BY DEF Server!TypeOK, ServerProof!TypeOK, Server!Request, ServerProof!Request,
             Server!Pcs, ServerProof!Pcs, Server!Ops, ServerProof!Ops,
             Server!Revoking, ServerProof!Revoking
    <3> QED BY <3>1, <3>2
  <2> QED BY <1>t, <1>14, <2>1 DEF TypeOK
<1>15. ASSUME NEW t \in Tokens, ExpireToken(t)
       PROVE  TypeOK'
  <2>1. /\ UNCHANGED <<call, req, holder, tangled, forsaken, jar>> /\ lapsed' = lapsed \cup {t}
    BY <1>15, ExpireTokenDoes
  <2>2. jar' \in [Clients -> Tokens \cup {Nil}] /\ lapsed' \subseteq Tokens
    BY <1>t, <2>1
  <2> QED BY <1>14, <2>1, <2>2
<1>16. ASSUME NEW c \in Clients, ExpireCookie(c)
       PROVE  TypeOK'
  <2>1. /\ UNCHANGED <<call, req, holder, tangled, forsaken>> /\ lapsed' = lapsed
        /\ jar' \in [Clients -> Tokens \cup {Nil}]
    BY <1>16, ExpireCookieDoes DEF server
  <2> QED BY <1>14, <1>t, <2>1
<1>17. CASE UNCHANGED vars
  BY <1>14, <1>17, <1>t DEF vars, server
<1> QED BY <1>1, <1>2, <1>3, <1>4, <1>5, <1>6, <1>7, <1>8, <1>9, <1>10, <1>11, <1>12,
           <1>13, <1>15, <1>16, <1>17 DEF Next, Handle, Revoke

-----------------------------------------------------------------------------
(* Tokens stay with their clients.                                         *)

TokenOf(r) ==
    /\ call[r].cookie # Nil => holder[call[r].cookie] = call[r].client
    /\ call[r].answer # Nil => holder[call[r].answer] = call[r].client

(* Tokens are given to a client once, and calls other than r's keep theirs.*)
LEMMA TokensKeepStaying ==
    ASSUME TypeOK, CallsCarry, TokensStay,
           \A t \in Tokens : holder[t] # Nil => holder'[t] = holder[t],
           \A t \in Tokens : holder'[t] = Nil <=> origin'[t] = Nil,
           \A c \in Clients : jar'[c] \in {Nil, jar[c]} \/ holder'[jar'[c]] = c,
           NEW r \in Requests, OtherCalls(r),
           call'[r] # Nil => TokenOf(r)'
    PROVE  TokensStay'
<1>1. ASSUME NEW c \in Clients, jar'[c] # Nil
      PROVE  holder'[jar'[c]] = c
  <2>1. CASE jar'[c] = jar[c]
    <3>1. holder[jar[c]] = c /\ jar[c] \in Tokens /\ c # Nil
      BY <1>1, <2>1, NilAssumption DEF TokensStay, TypeOK
    <3> QED BY <2>1, <3>1
  <2> QED BY <1>1, <2>1
<1>2. ASSUME NEW q \in Requests, call'[q] # Nil
      PROVE  /\ call'[q].cookie # Nil => holder'[call'[q].cookie] = call'[q].client
             /\ call'[q].answer # Nil => holder'[call'[q].answer] = call'[q].client
  <2>1. CASE q = r
    BY <1>2, <2>1 DEF TokenOf
  <2>2. CASE q # r
    <3>1. call'[q] = call[q] /\ call[q] # Nil
      BY <1>2, <2>2 DEF OtherCalls
    <3>2. CallCarries(q) /\ call[q].cookie \in Tokens \cup {Nil} /\ call[q].answer \in Tokens \cup {Nil}
          /\ (call[q].op # "reset" => call[q].client \in Clients)
      BY <3>1, CallHas
    <3>3. call[q].cookie # Nil \/ call[q].answer # Nil => call[q].client \in Clients
      BY <3>2 DEF CallCarries
    <3>4. /\ call[q].cookie # Nil => holder[call[q].cookie] = call[q].client
          /\ call[q].answer # Nil => holder[call[q].answer] = call[q].client
      BY <3>1 DEF TokensStay
    <3> QED BY <3>1, <3>2, <3>3, <3>4, NilAssumption
  <2> QED BY <2>1, <2>2
<1> QED BY <1>1, <1>2 DEF TokensStay

(* Where no token is minted and no jar filled. *)
LEMMA TokensKeepInPlace ==
    ASSUME TypeOK, CallsCarry, TokensStay, UNCHANGED <<holder, origin, jar>>,
           NEW r \in Requests, OtherCalls(r),
           call'[r] # Nil => TokenOf(r)'
    PROVE  TokensStay'
<1>1. /\ \A t \in Tokens : holder[t] # Nil => holder'[t] = holder[t]
      /\ \A t \in Tokens : holder'[t] = Nil <=> origin'[t] = Nil
      /\ \A c \in Clients : jar'[c] \in {Nil, jar[c]} \/ holder'[jar'[c]] = c
  BY DEF TokensStay
<1> QED BY <1>1, TokensKeepStaying

(* Where one is. *)
LEMMA TokensKeepMinted ==
    ASSUME TypeOK, CallsCarry, TokensStay, UNCHANGED jar,
           NEW t \in Tokens, origin[t] = Nil, origin'[t] \in Sessions, holder'[t] \in Clients,
           \A x \in Tokens \ {t} : origin'[x] = origin[x] /\ holder'[x] = holder[x],
           NEW r \in Requests, OtherCalls(r),
           call'[r].client = holder'[t], call'[r].cookie = Nil, call'[r].answer = t
    PROVE  TokensStay'
<1>1. holder[t] = Nil /\ Nil \notin Sessions /\ Nil \notin Clients
  BY NilAssumption DEF TokensStay
<1>2. \A x \in Tokens : holder[x] # Nil => holder'[x] = holder[x]
  BY <1>1
<1>3. \A x \in Tokens : holder'[x] = Nil <=> origin'[x] = Nil
  BY <1>1 DEF TokensStay
<1>4. \A c \in Clients : jar'[c] \in {Nil, jar[c]} \/ holder'[jar'[c]] = c
  OBVIOUS
<1>5. TokenOf(r)'
  BY DEF TokenOf
<1> QED BY <1>2, <1>3, <1>4, <1>5, TokensKeepStaying

LEMMA TokensStep ==
    ASSUME IInv, [Next]_vars
    PROVE  TokensStay'
<1>0. TypeOK /\ CallsCarry /\ TokensStay
  BY DEF IInv
<1>1. ASSUME NEW c \in Clients, NEW r \in Requests, Send(c, r)
      PROVE  TokensStay'
  <2>1. UNCHANGED <<holder, origin, jar>> /\ OtherCalls(r)
    BY <1>1, SendDoes DEF server, clients
  <2>2. TokenOf(r)'
    <3>1. jar[c] # Nil => holder[jar[c]] = c
      BY <1>0 DEF TokensStay
    <3>2. call'[r].client = c /\ call'[r].cookie = jar[c] /\ call'[r].answer = Nil
      BY <1>1, SendDoes DEF Is
    <3> QED BY <2>1, <3>1, <3>2 DEF TokenOf
  <2> QED BY <1>0, <2>1, <2>2, TokensKeepInPlace
<1>2. ASSUME NEW c \in Clients, NEW r \in Requests, NEW s \in Sessions, NEW t \in Tokens,
             Login(c, r, s, t)
      PROVE  TokensStay'
  <2>1. /\ origin[t] = Nil /\ origin'[t] \in Sessions /\ holder'[t] = c /\ UNCHANGED jar
        /\ \A x \in Tokens \ {t} : origin'[x] = origin[x] /\ holder'[x] = holder[x]
        /\ OtherCalls(r)
    BY <1>2, LoginDoes
  <2>2. call'[r].client = c /\ call'[r].cookie = Nil /\ call'[r].answer = t
    BY <1>2, LoginDoes DEF Is
  <2> QED BY <1>0, <2>1, <2>2, TokensKeepMinted
<1>3. ASSUME NEW c \in Clients, NEW r \in Requests, NEW u \in Users, LogoutAll(c, r, u)
      PROVE  TokensStay'
  <2>1. UNCHANGED <<holder, origin, jar>> /\ OtherCalls(r)
    BY <1>3, LogoutAllDoes DEF clients, SameOrigins
  <2>2. TokenOf(r)'
    BY <1>3, LogoutAllDoes DEF Is, TokenOf
  <2> QED BY <1>0, <2>1, <2>2, TokensKeepInPlace
<1>4. ASSUME NEW r \in Requests, NEW u \in Users, Reset(r, u)
      PROVE  TokensStay'
  <2>1. UNCHANGED <<holder, origin, jar>> /\ OtherCalls(r)
    BY <1>4, ResetDoes DEF clients, SameOrigins
  <2>2. TokenOf(r)'
    BY <1>4, ResetDoes DEF Is, TokenOf
  <2> QED BY <1>0, <2>1, <2>2, TokensKeepInPlace
<1>5. ASSUME NEW r \in Requests, Rotate(r)
      PROVE  TokensStay'
  <2>1. UNCHANGED <<holder, origin, jar>> /\ OtherCalls(r)
    BY <1>5, RotateDoes DEF clients, SameOrigins
  <2>2. call'[r] # Nil => call'[r].cookie = Nil /\ call'[r].answer = Nil
    BY <1>5, RotateDoes DEF Is
  <2>3. call'[r] # Nil => TokenOf(r)'
    BY <2>2 DEF TokenOf
  <2> QED BY <1>0, <2>1, <2>3, TokensKeepInPlace
<1>6. ASSUME NEW r \in Requests, Logout(r)
      PROVE  TokensStay'
  <2>1. UNCHANGED <<holder, origin, jar>> /\ OtherCalls(r)
    BY <1>6, LogoutDoes DEF clients, SameOrigins
  <2>2. call'[r].cookie = Nil /\ call'[r].answer = Nil
    BY <1>6, LogoutDoes DEF Is
  <2>3. TokenOf(r)'
    BY <2>2 DEF TokenOf
  <2> QED BY <1>0, <2>1, <2>3, TokensKeepInPlace
<1>7. ASSUME NEW r \in Requests, NEW t \in Tokens, Reissue(r, t)
      PROVE  TokensStay'
  <2>1. /\ origin[t] = Nil /\ origin'[t] \in Sessions /\ holder'[t] = call[r].client
        /\ call[r].client \in Clients /\ UNCHANGED jar
        /\ \A x \in Tokens \ {t} : origin'[x] = origin[x] /\ holder'[x] = holder[x]
        /\ OtherCalls(r)
    BY <1>7, ReissueDoes
  <2>2. call'[r].client = call[r].client /\ call'[r].cookie = Nil /\ call'[r].answer = t
    BY <1>7, ReissueDoes DEF Is
  <2> QED BY <1>0, <2>1, <2>2, TokensKeepMinted
<1>8. ASSUME NEW r \in Requests, ReadFamily(r)
      PROVE  TokensStay'
  <2>1. UNCHANGED <<holder, origin, jar, call>>
    BY <1>8, ReadFamilyDoes DEF clients, SameOrigins
  <2> QED BY <1>0, <2>1 DEF TokensStay
<1>9. ASSUME NEW r \in Requests, DropFamily(r)
      PROVE  TokensStay'
  <2>1. UNCHANGED <<holder, origin, jar>> /\ OtherCalls(r)
    BY <1>9, DropFamilyDoes DEF clients
  <2>2. \/ call'[r] = Nil \/ call'[r] = call[r]
        \/ call'[r].cookie = Nil /\ call'[r].answer = Nil
    BY <1>9, DropFamilyDoes DEF Is
  <2>3. call'[r] # Nil => TokenOf(r)'
    BY <1>0, <2>1, <2>2 DEF TokenOf, TokensStay
  <2> QED BY <1>0, <2>1, <2>3, TokensKeepInPlace
<1>10. ASSUME NEW r \in Requests, ClearIndex(r)
       PROVE  TokensStay'
  <2>1. UNCHANGED <<holder, origin, jar>> /\ OtherCalls(r)
    BY <1>10, ClearIndexDoes DEF clients, SameOrigins
  <2>2. call'[r] # Nil => call'[r].cookie = Nil /\ call'[r].answer = Nil
    BY <1>10, ClearIndexDoes DEF Is
  <2>3. call'[r] # Nil => TokenOf(r)'
    BY <2>2 DEF TokenOf
  <2> QED BY <1>0, <2>1, <2>3, TokensKeepInPlace
<1>11. ASSUME NEW r \in Requests, Abort(r)
       PROVE  TokensStay'
  <2>1. UNCHANGED <<holder, origin, jar>> /\ OtherCalls(r) /\ call'[r] = Nil
    BY <1>11, AbortDoes DEF clients, SameOrigins
  <2> QED BY <1>0, <2>1, TokensKeepInPlace
<1>12. ASSUME NEW r \in Requests, Lose(r)
       PROVE  TokensStay'
  <2>1. UNCHANGED <<holder, origin, jar>> /\ OtherCalls(r) /\ call'[r] = Nil
    BY <1>12, LoseDoes DEF clients, server
  <2> QED BY <1>0, <2>1, TokensKeepInPlace
<1>13. ASSUME NEW r \in Requests, Receive(r)
       PROVE  TokensStay'
  <2>1. /\ UNCHANGED <<holder, origin>> /\ OtherCalls(r) /\ call'[r] = Nil /\ call[r] # Nil
        /\ jar'[call[r].client] = call[r].answer
        /\ \A c \in Clients \ {call[r].client} : jar'[c] = jar[c]
    BY <1>13, ReceiveDoes DEF server
  <2>2. call[r].answer # Nil => holder[call[r].answer] = call[r].client
    BY <1>0, <2>1 DEF TokensStay
  <2>3. \A c \in Clients : jar'[c] \in {Nil, jar[c]} \/ holder'[jar'[c]] = c
    BY <2>1, <2>2
  <2>4. /\ \A t \in Tokens : holder[t] # Nil => holder'[t] = holder[t]
        /\ \A t \in Tokens : holder'[t] = Nil <=> origin'[t] = Nil
    BY <1>0, <2>1 DEF TokensStay
  <2> QED BY <1>0, <2>1, <2>3, <2>4, TokensKeepStaying
<1>14. ASSUME UNCHANGED <<holder, origin, call>>, \A c \in Clients : jar'[c] \in {Nil, jar[c]}
       PROVE  TokensStay'
  BY <1>0, <1>14 DEF TokensStay
<1>15. ASSUME NEW t \in Tokens, ExpireToken(t)
       PROVE  TokensStay'
  <2>1. UNCHANGED <<holder, origin, call, jar>>
    BY <1>15, ExpireTokenDoes DEF SameOrigins
  <2> QED BY <1>14, <2>1
<1>16. ASSUME NEW c \in Clients, ExpireCookie(c)
       PROVE  TokensStay'
  <2>1. /\ UNCHANGED <<holder, origin, call>> /\ jar'[c] = Nil
        /\ \A d \in Clients \ {c} : jar'[d] = jar[d]
    BY <1>16, ExpireCookieDoes DEF server
  <2>2. \A d \in Clients : jar'[d] \in {Nil, jar[d]}
    BY <2>1
  <2> QED BY <1>14, <2>1, <2>2
<1>17. CASE UNCHANGED vars
  BY <1>14, <1>17 DEF vars, server
<1> QED BY <1>1, <1>2, <1>3, <1>4, <1>5, <1>6, <1>7, <1>8, <1>9, <1>10, <1>11, <1>12,
           <1>13, <1>15, <1>16, <1>17 DEF Next, Handle, Revoke

-----------------------------------------------------------------------------
(* One call at a time.                                                     *)

(* Orderly clients have no more calls than before. *)
LEMMA OneCallKeeps ==
    ASSUME OneCall, tangled \subseteq tangled', NEW r \in Requests, OtherCalls(r),
           call'[r] # Nil => call[r] # Nil /\ call'[r].client = call[r].client
    PROVE  OneCall'
<1> SUFFICES ASSUME NEW c \in Clients, c \notin tangled', NEW p \in CallsOf(c)', NEW q \in CallsOf(c)'
             PROVE  p = q
  BY DEF OneCall
<1>1. p \in CallsOf(c) /\ q \in CallsOf(c)
  BY DEF CallsOf, OtherCalls
<1> QED BY <1>1 DEF OneCall

(* A client with a new call had none, or it is not orderly.                *)
LEMMA OneCallNew ==
    ASSUME OneCall, NEW c \in Clients, Entangle(c), NEW r \in Requests, OtherCalls(r),
           call'[r].client = c
    PROVE  OneCall'
<1>1. tangled \subseteq tangled' /\ (c \notin tangled' => CallsOf(c) = {})
  BY EntangleDoes
<1> SUFFICES ASSUME NEW d \in Clients, d \notin tangled', NEW p \in CallsOf(d)', NEW q \in CallsOf(d)'
             PROVE  p = q
  BY DEF OneCall
<1>2. CASE d = c
  <2>1. p = r /\ q = r
    BY <1>1, <1>2 DEF CallsOf, OtherCalls
  <2> QED BY <2>1
<1>3. CASE d # c
  <2>1. p \in CallsOf(d) /\ q \in CallsOf(d)
    BY <1>3 DEF CallsOf, OtherCalls
  <2> QED BY <1>1, <2>1 DEF OneCall
<1> QED BY <1>2, <1>3

LEMMA OneCallStep ==
    ASSUME IInv, [Next]_vars
    PROVE  OneCall'
<1>0. OneCall
  BY DEF IInv
<1>1. ASSUME NEW c \in Clients, NEW r \in Requests, Send(c, r)
      PROVE  OneCall'
  <2>1. Entangle(c) /\ OtherCalls(r)
    BY <1>1, SendDoes DEF Send
  <2>2. call'[r].client = c
    BY <1>1, SendDoes DEF Is
  <2> QED BY <1>0, <2>1, <2>2, OneCallNew
<1>2. ASSUME NEW c \in Clients, NEW r \in Requests, NEW s \in Sessions, NEW t \in Tokens,
             Login(c, r, s, t)
      PROVE  OneCall'
  <2>1. Entangle(c) /\ OtherCalls(r)
    BY <1>2, LoginDoes DEF Login
  <2>2. call'[r].client = c
    BY <1>2, LoginDoes DEF Is
  <2> QED BY <1>0, <2>1, <2>2, OneCallNew
<1>3. ASSUME NEW c \in Clients, NEW r \in Requests, NEW u \in Users, LogoutAll(c, r, u)
      PROVE  OneCall'
  <2>1. Entangle(c) /\ OtherCalls(r)
    BY <1>3, LogoutAllDoes DEF LogoutAll
  <2>2. call'[r].client = c
    BY <1>3, LogoutAllDoes DEF Is
  <2> QED BY <1>0, <2>1, <2>2, OneCallNew
<1>4. ASSUME NEW r \in Requests, NEW u \in Users, Reset(r, u)
      PROVE  OneCall'
  <2>1. UNCHANGED tangled /\ OtherCalls(r)
    BY <1>4, ResetDoes
  <2>2. call'[r].client = Nil
    BY <1>4, ResetDoes DEF Is
  <2> SUFFICES ASSUME NEW d \in Clients, d \notin tangled, NEW p \in CallsOf(d)', NEW q \in CallsOf(d)'
               PROVE  p = q
    BY <2>1 DEF OneCall
  <2>3. p \in CallsOf(d) /\ q \in CallsOf(d)
    BY <2>1, <2>2, NilAssumption DEF CallsOf, OtherCalls
  <2> QED BY <1>0, <2>3 DEF OneCall
<1>5. ASSUME NEW r \in Requests, Rotate(r)
      PROVE  OneCall'
  <2>1. UNCHANGED tangled /\ OtherCalls(r) /\ call[r] # Nil
    BY <1>5, RotateDoes DEF At
  <2>2. call'[r] # Nil => call'[r].client = call[r].client
    BY <1>5, RotateDoes DEF Is
  <2> QED BY <1>0, <2>1, <2>2, OneCallKeeps
<1>6. ASSUME NEW r \in Requests, Logout(r)
      PROVE  OneCall'
  <2>1. UNCHANGED tangled /\ OtherCalls(r) /\ call[r] # Nil
    BY <1>6, LogoutDoes DEF At
  <2>2. call'[r].client = call[r].client
    BY <1>6, LogoutDoes DEF Is
  <2> QED BY <1>0, <2>1, <2>2, OneCallKeeps
<1>7. ASSUME NEW r \in Requests, NEW t \in Tokens, Reissue(r, t)
      PROVE  OneCall'
  <2>1. UNCHANGED tangled /\ OtherCalls(r) /\ call[r] # Nil
    BY <1>7, ReissueDoes DEF At
  <2>2. call'[r].client = call[r].client
    BY <1>7, ReissueDoes DEF Is
  <2> QED BY <1>0, <2>1, <2>2, OneCallKeeps
<1>8. ASSUME UNCHANGED <<call, tangled>>
      PROVE  OneCall'
  BY <1>0, <1>8 DEF OneCall, CallsOf
<1>9. ASSUME NEW r \in Requests, DropFamily(r)
      PROVE  OneCall'
  <2>1. UNCHANGED tangled /\ OtherCalls(r) /\ call[r] # Nil
    BY <1>9, DropFamilyDoes
  <2>2. call'[r] # Nil => call'[r].client = call[r].client
    BY <1>9, DropFamilyDoes DEF Is
  <2> QED BY <1>0, <2>1, <2>2, OneCallKeeps
<1>10. ASSUME NEW r \in Requests, ClearIndex(r)
       PROVE  OneCall'
  <2>1. UNCHANGED tangled /\ OtherCalls(r) /\ call[r] # Nil
    BY <1>10, ClearIndexDoes
  <2>2. call'[r] # Nil => call'[r].client = call[r].client
    BY <1>10, ClearIndexDoes DEF Is
  <2> QED BY <1>0, <2>1, <2>2, OneCallKeeps
<1>11. ASSUME NEW r \in Requests, Abort(r) \/ Receive(r) \/ Lose(r)
       PROVE  OneCall'
  <2>1. tangled \subseteq tangled' /\ OtherCalls(r) /\ call'[r] = Nil
    BY <1>11, AbortDoes, ReceiveDoes, LoseDoes
  <2> QED BY <1>0, <2>1, OneCallKeeps
<1>12. ASSUME NEW r \in Requests, ReadFamily(r)
       PROVE  OneCall'
  BY <1>8, <1>12, ReadFamilyDoes
<1>13. ASSUME NEW t \in Tokens, ExpireToken(t)
       PROVE  OneCall'
  BY <1>8, <1>13, ExpireTokenDoes
<1>14. ASSUME NEW c \in Clients, ExpireCookie(c)
       PROVE  OneCall'
  BY <1>8, <1>14, ExpireCookieDoes
<1>15. CASE UNCHANGED vars
  BY <1>8, <1>15 DEF vars
<1> QED BY <1>1, <1>2, <1>3, <1>4, <1>5, <1>6, <1>7, <1>9, <1>10, <1>11, <1>12,
           <1>13, <1>14, <1>15 DEF Next, Handle, Revoke

LEMMA TangledGrows ==
    ASSUME IInv, [Next]_vars
    PROVE  tangled \subseteq tangled'
<1>1. ASSUME NEW c \in Clients, Entangle(c)
      PROVE  tangled \subseteq tangled'
  BY <1>1, EntangleDoes
<1>2. ASSUME NEW r \in Requests, Lose(r)
      PROVE  tangled \subseteq tangled'
  BY <1>2 DEF Lose
<1> QED BY <1>1, <1>2
        DEF Next, vars, Handle, Revoke, Send, Login, LogoutAll, Reset, Rotate, Logout, Reissue,
            ReadFamily, DropFamily, ClearIndex, Receive, Abort, ExpireToken, ExpireCookie

-----------------------------------------------------------------------------
(* No false alarm.                                                         *)

LEMMA AlarmKeeps ==
    ASSUME IInv, [Next]_vars, NEW r \in Requests, OtherCalls(r), Others(r),
           call'[r] # Nil /\ call'[r].op = "refresh" /\ Server!Revoking(r)'
                => call'[r].client \in tangled'
    PROVE  NoFalseAlarm'
<1> SUFFICES ASSUME NEW q \in Requests, q # r, call'[q] # Nil, call'[q].op = "refresh",
                    Server!Revoking(q)'
             PROVE  call'[q].client \in tangled'
  BY DEF NoFalseAlarm
<1>1. call'[q] = call[q] /\ req'[q] = req[q]
  BY DEF OtherCalls, Others
<1>2. call[q].client \in tangled
  BY <1>1 DEF IInv, NoFalseAlarm, Server!Revoking
<1> QED BY <1>1, <1>2, TangledGrows

LEMMA AlarmStep ==
    ASSUME IInv, [Next]_vars
    PROVE  NoFalseAlarm'
<1>0. TypeOK /\ NoFalseAlarm
  BY DEF IInv
<1>1. ASSUME NEW c \in Clients, NEW r \in Requests, Send(c, r)
      PROVE  NoFalseAlarm'
  <2>1. OtherCalls(r) /\ UNCHANGED req /\ call[r] = Nil
    BY <1>1, SendDoes DEF server
  <2>2. ~Server!Revoking(r)'
    BY <1>0, <2>1 DEF TypeOK, Server!Revoking
  <2> QED BY <2>1, <2>2, AlarmKeeps DEF Others
<1>2. ASSUME NEW c \in Clients, NEW r \in Requests, NEW s \in Sessions, NEW t \in Tokens,
             Login(c, r, s, t)
      PROVE  NoFalseAlarm'
  <2>1. OtherCalls(r) /\ Others(r)
    BY <1>2, LoginDoes DEF Others
  <2>2. call'[r].op = "login"
    BY <1>2, LoginDoes DEF Is
  <2> QED BY <2>1, <2>2, AlarmKeeps
<1>3. ASSUME NEW c \in Clients, NEW r \in Requests, NEW u \in Users, LogoutAll(c, r, u)
      PROVE  NoFalseAlarm'
  <2>1. OtherCalls(r) /\ Others(r)
    BY <1>3, LogoutAllDoes
  <2>2. call'[r].op = "logoutAll"
    BY <1>3, LogoutAllDoes DEF Is
  <2> QED BY <2>1, <2>2, AlarmKeeps
<1>4. ASSUME NEW r \in Requests, NEW u \in Users, Reset(r, u)
      PROVE  NoFalseAlarm'
  <2>1. OtherCalls(r) /\ Others(r)
    BY <1>4, ResetDoes
  <2>2. call'[r].op = "reset"
    BY <1>4, ResetDoes DEF Is
  <2> QED BY <2>1, <2>2, AlarmKeeps
<1>5. ASSUME NEW r \in Requests, Rotate(r)
      PROVE  NoFalseAlarm'
  <2>1. /\ OtherCalls(r) /\ Others(r) /\ call[r] # Nil /\ call[r].op = "refresh"
        /\ call[r].stage = "sent" /\ UNCHANGED tangled
    BY <1>5, RotateDoes DEF At
  <2>2. PICK t \in Tokens :
           /\ t = call[r].cookie
           /\ \/ req'[r].pc = "reissue"
              \/ reuse[t] # Nil /\ call'[r].client = call[r].client
              \/ call'[r] = Nil
    BY <1>5, RotateDoes DEF Is
  <2>3. CASE req'[r].pc = "reissue"
    BY <2>1, <2>3, AlarmKeeps DEF Server!Revoking
  <2>4. CASE reuse[t] # Nil /\ call'[r].client = call[r].client
    <3>1. PICK c \in Clients : c = call[r].client
      BY <1>0, <2>1, CallHas DEF IInv
    <3>2. c \in tangled
      <4>1. SUFFICES ASSUME c \notin tangled
                     PROVE  FALSE
        OBVIOUS
      <4>2. r \in CallsOf(c) /\ CookieFits(c) /\ call[r].cookie # Nil
        BY <2>1, <2>2, <3>1, <4>1, NilAssumption DEF CallsOf, IInv, CookiesFit
      <4>3. Good(t)
        BY <2>2, <4>2 DEF CookieFits, CallFits
      <4> QED BY <2>4, <4>3 DEF Good
    <3> QED BY <2>1, <2>4, <3>1, <3>2, AlarmKeeps
  <2>5. CASE call'[r] = Nil
    BY <2>1, <2>5, AlarmKeeps
  <2> QED BY <2>2, <2>3, <2>4, <2>5
<1>6. ASSUME NEW r \in Requests, Logout(r)
      PROVE  NoFalseAlarm'
  <2>1. OtherCalls(r) /\ Others(r)
    BY <1>6, LogoutDoes
  <2>2. call'[r].op = "logout"
    BY <1>6, LogoutDoes DEF Is
  <2> QED BY <2>1, <2>2, AlarmKeeps
<1>7. ASSUME NEW r \in Requests, NEW t \in Tokens, Reissue(r, t)
      PROVE  NoFalseAlarm'
  <2>1. OtherCalls(r) /\ Others(r) /\ req'[r].pc = "idle"
    BY <1>7, ReissueDoes
  <2> QED BY <2>1, AlarmKeeps DEF Server!Revoking
<1>8. ASSUME NEW r \in Requests, ReadFamily(r)
      PROVE  NoFalseAlarm'
  <2>1. OtherCalls(r) /\ Others(r) /\ UNCHANGED <<call, tangled>> /\ Server!Revoking(r)
    BY <1>8, ReadFamilyDoes DEF OtherCalls, Server!Revoking
  <2> QED BY <1>0, <2>1, AlarmKeeps DEF NoFalseAlarm
<1>9. ASSUME NEW r \in Requests, DropFamily(r)
      PROVE  NoFalseAlarm'
  <2>1. /\ OtherCalls(r) /\ Others(r)
        /\ req'[r].pc = "idle" \/ (call'[r] = call[r] /\ call[r].op # "refresh")
    BY <1>9, DropFamilyDoes
  <2> QED BY <2>1, AlarmKeeps DEF Server!Revoking
<1>10. ASSUME NEW r \in Requests, ClearIndex(r) \/ Abort(r)
       PROVE  NoFalseAlarm'
  <2>1. OtherCalls(r) /\ Others(r) /\ req'[r].pc = "idle"
    BY <1>10, ClearIndexDoes, AbortDoes
  <2> QED BY <2>1, AlarmKeeps DEF Server!Revoking
<1>11. ASSUME NEW r \in Requests, Receive(r) \/ Lose(r)
       PROVE  NoFalseAlarm'
  <2>1. OtherCalls(r) /\ Others(r) /\ call'[r] = Nil
    BY <1>11, ReceiveDoes, LoseDoes DEF server, Others
  <2> QED BY <2>1, AlarmKeeps
<1>12. ASSUME UNCHANGED <<call, req, tangled>>
       PROVE  NoFalseAlarm'
  BY <1>0, <1>12 DEF NoFalseAlarm, Server!Revoking
<1>13. ASSUME NEW t \in Tokens, ExpireToken(t)
       PROVE  NoFalseAlarm'
  BY <1>12, <1>13, ExpireTokenDoes
<1>14. ASSUME NEW c \in Clients, ExpireCookie(c)
       PROVE  NoFalseAlarm'
  BY <1>12, <1>14, ExpireCookieDoes DEF server
<1>15. CASE UNCHANGED vars
  BY <1>12, <1>15 DEF vars, server
<1> QED BY <1>1, <1>2, <1>3, <1>4, <1>5, <1>6, <1>7, <1>8, <1>9, <1>10, <1>11,
           <1>13, <1>14, <1>15 DEF Next, Handle, Revoke

-----------------------------------------------------------------------------
(* Cookies fit.                                                            *)

(* What a step leaves of a token: its lineage, and its life unless it ends. *)
Kept(x) ==
    /\ origin'[x] = origin[x] /\ holder'[x] = holder[x]
    /\ refresh'[x] \in {Nil, refresh[x]}
    /\ x \in raced => x \in raced'
    /\ Good(x) => Good(x)'

LEMMA KeptUnlessMinted ==
    ASSUME NEW x \in Tokens, refresh'[x] = refresh[x], reuse'[x] = reuse[x],
           origin'[x] = origin[x], holder'[x] = holder[x],
           raced \subseteq raced', lapsed \subseteq lapsed', revoked \subseteq revoked'
    PROVE  Kept(x)
  BY DEF Kept, Good, Live

LEMMA AllKept ==
    ASSUME UNCHANGED <<refresh, reuse, holder>>, SameOrigins, lapsed \subseteq lapsed'
    PROVE  \A x \in Tokens : Kept(x)
  BY KeptUnlessMinted DEF SameOrigins

(* A family's tokens go with its session. *)
LEMMA KeptByDrop ==
    ASSUME IInv, NEW r \in Requests, DropFamily(r)
    PROVE  \A x \in Tokens : Kept(x)
<1> SUFFICES ASSUME NEW x \in Tokens
             PROVE  Kept(x)
  OBVIOUS
<1>1. /\ UNCHANGED <<origin, raced, holder, lapsed>> /\ revoked' = revoked \cup {req[r].session}
      /\ req[r].pc = "drop"
      /\ IF x \in req[r].digests THEN refresh'[x] = Nil /\ reuse'[x] = Nil
         ELSE refresh'[x] = refresh[x] /\ reuse'[x] = reuse[x]
  BY DropFamilyDoes DEF clients
<1>2. CASE x \in req[r].digests
  <2>1. origin[x] = req[r].session
    BY <1>1, <1>2, ServerKnows DEF IInv
  <2> QED BY <1>1, <1>2, <2>1 DEF Kept, Good, Live
<1>3. CASE x \notin req[r].digests
  BY <1>1, <1>3, KeptUnlessMinted
<1> QED BY <1>2, <1>3

LEMMA KeptByExpiry ==
    ASSUME IInv, NEW t \in Tokens, ExpireToken(t)
    PROVE  \A x \in Tokens : Kept(x)
<1> SUFFICES ASSUME NEW x \in Tokens
             PROVE  Kept(x)
  OBVIOUS
<1>1. /\ UNCHANGED <<origin, raced, revoked, holder, reuse>> /\ lapsed' = lapsed \cup {t}
      /\ refresh'[t] = Nil /\ SameKeysBut(t)
  BY ExpireTokenDoes DEF SameOrigins
<1>2. CASE x = t
  BY <1>1, <1>2 DEF Kept, Good
<1>3. CASE x # t
  BY <1>1, <1>3, KeptUnlessMinted DEF SameKeysBut
<1> QED BY <1>2, <1>3

(* A new token was nobody's, and serves for the first time. *)
LEMMA NewTokenIsGood ==
    ASSUME IInv, NEW t \in Tokens, origin[t] = Nil, UNCHANGED reuse, refresh'[t] \in Sessions
    PROVE  Good(t)' /\ holder[t] = Nil
<1>1. reuse[t] \in Sessions \cup {Nil} /\ (reuse[t] # Nil => origin[t] = reuse[t])
  BY ServerKnows DEF IInv, TypeOK, Server!TypeOK
<1>2. holder[t] = Nil
  BY DEF IInv, TokensStay
<1> QED BY <1>1, <1>2, NilAssumption DEF Good, Live

(* Calls that stay as they are, of a client whose tokens are kept. *)
LEMMA FitKept ==
    ASSUME IInv, NEW c \in Clients, c \notin tangled,
           \A x \in Tokens : holder[x] = c => Kept(x),
           jar'[c] \in {Nil, jar[c]}, CallsOf(c)' = CallsOf(c),
           \A q \in CallsOf(c) :
               call'[q] = call[q] /\ (call[q].op = "logout" => req'[q].todo = req[q].todo)
    PROVE  CookieFits(c)'
<1>0. /\ TypeOK /\ CallsCarry /\ TokensStay /\ CookieFits(c)
      /\ jar[c] # Nil => jar[c] \in Tokens /\ Kept(jar[c])
  <2>1. TypeOK /\ CallsCarry /\ TokensStay /\ CookieFits(c)
    BY DEF IInv, CookiesFit
  <2>2. jar[c] # Nil => jar[c] \in Tokens /\ holder[jar[c]] = c
    BY <2>1 DEF TypeOK, TokensStay
  <2> QED BY <2>1, <2>2
<1>1. CallsOf(c) = {} /\ jar'[c] # Nil => Good(jar[c])'
  <2>1. SUFFICES ASSUME CallsOf(c) = {}, jar'[c] # Nil
                 PROVE  Good(jar[c])'
    OBVIOUS
  <2>2. PICK x \in Tokens : x = jar[c] /\ jar'[c] = x /\ Kept(x) /\ Good(x)
    BY <1>0, <2>1 DEF CookieFits
  <2>3. Good(x)'
    BY <2>2 DEF Kept
  <2> QED BY <2>2, <2>3
<1>2. ASSUME NEW q \in CallsOf(c)
      PROVE  CallFits(c, q)'
  <2>1. /\ q \in Requests /\ call[q] # Nil /\ call[q].client = c /\ call'[q] = call[q]
        /\ call[q].op = "logout" => req'[q].todo = req[q].todo
        /\ CallFits(c, q)
    BY <1>0 DEF CallsOf, CookieFits
  <2>2. /\ call[q].cookie # Nil => call[q].cookie \in Tokens /\ Kept(call[q].cookie)
        /\ call[q].answer # Nil => call[q].answer \in Tokens /\ Kept(call[q].answer)
    <3>1. call[q].cookie \in Tokens \cup {Nil} /\ call[q].answer \in Tokens \cup {Nil}
      BY <1>0, <2>1, CallHas
    <3>2. /\ call[q].cookie # Nil => holder[call[q].cookie] = c
          /\ call[q].answer # Nil => holder[call[q].answer] = c
      BY <1>0, <2>1 DEF TokensStay
    <3> QED BY <3>1, <3>2
  <2>3. (call[q].cookie # Nil => Good(call[q].cookie) /\ jar[c] \in {Nil, call[q].cookie})'
    <3>1. SUFFICES ASSUME call[q].cookie # Nil
                   PROVE  (Good(call[q].cookie) /\ jar[c] \in {Nil, call[q].cookie})'
      BY <2>1
    <3>2. PICK x \in Tokens : x = call[q].cookie
      BY <2>2, <3>1
    <3>3. Good(x)' /\ jar'[c] \in {Nil, x}
      BY <2>1, <2>2, <3>1, <3>2 DEF CallFits, Kept
    <3> QED BY <2>1, <3>2, <3>3
  <2>4. (call[q].answer # Nil => Good(call[q].answer))'
    <3>1. SUFFICES ASSUME call[q].answer # Nil
                   PROVE  Good(call[q].answer)'
      BY <2>1
    <3>2. PICK x \in Tokens : x = call[q].answer
      BY <2>2, <3>1
    <3>3. Good(x)'
      BY <2>1, <2>2, <3>1, <3>2 DEF CallFits, Kept
    <3> QED BY <2>1, <3>2, <3>3
  <2>5. (jar[c] # Nil => Settled(c, q))'
    <3>1. SUFFICES ASSUME jar'[c] # Nil
                   PROVE  Settled(c, q)'
      OBVIOUS
    <3>2. PICK x \in Tokens : x = jar[c] /\ jar'[c] = x /\ Kept(x) /\ Settled(c, q)
      BY <1>0, <2>1, <3>1 DEF CallFits
    <3>3. /\ origin'[x] = origin[x] /\ refresh'[x] \in {Nil, refresh[x]} /\ (x \in raced => x \in raced')
          /\ jar[c] = x /\ jar'[c] = x
      BY <3>2 DEF Kept
    <3> QED BY <2>1, <3>2, <3>3 DEF Settled, At, Live
  <2> QED BY <2>3, <2>4, <2>5 DEF CallFits
<1> QED BY <1>1, <1>2 DEF CookieFits

(* The step is about another client's call, or nobody's. *)
LEMMA FitOthers ==
    ASSUME IInv, NEW c \in Clients, c \notin tangled,
           NEW r \in Requests, OtherCalls(r), Others(r),
           call[r] # Nil => call[r].client # c,
           call'[r] # Nil => call'[r].client # c,
           jar'[c] = jar[c],
           \A x \in Tokens : holder[x] = c => Kept(x)
    PROVE  CookieFits(c)'
<1>1. CallsOf(c)' = CallsOf(c)
  BY DEF CallsOf, OtherCalls
<1>2. \A q \in CallsOf(c) : call'[q] = call[q] /\ req'[q] = req[q]
  BY DEF CallsOf, OtherCalls, Others
<1> QED BY <1>1, <1>2, FitKept

(* The step is about the one call the client then has, or no longer has.   *)
LEMMA FitOwn ==
    ASSUME IInv, NEW c \in Clients, c \notin tangled, NEW r \in Requests, OtherCalls(r),
           CallsOf(c) \subseteq {r},
           call'[r] # Nil /\ call'[r].client = c => CallFits(c, r)',
           call'[r] = Nil /\ jar'[c] # Nil => Good(jar[c])',
           call'[r] # Nil => call'[r].client = c
    PROVE  CookieFits(c)'
<1>1. CallsOf(c)' = IF call'[r] = Nil THEN {} ELSE {r}
  BY DEF CallsOf, OtherCalls
<1>2. CASE call'[r] = Nil
  <2>1. CallsOf(c)' = {}
    BY <1>1, <1>2
  <2> QED BY <1>2, <2>1 DEF CookieFits
<1>3. CASE call'[r] # Nil
  <2>1. CallsOf(c)' = {r}
    BY <1>1, <1>3
  <2> QED BY <1>3, <2>1 DEF CookieFits
<1> QED BY <1>2, <1>3

(* The calls of an orderly client. *)
LEMMA OnlyCall ==
    ASSUME IInv, NEW c \in Clients, c \notin tangled, NEW r \in Requests,
           call[r] # Nil, call[r].client = c
    PROVE  CallsOf(c) = {r} /\ CallFits(c, r)
<1>1. r \in CallsOf(c) /\ \A p, q \in CallsOf(c) : p = q
  BY DEF CallsOf, IInv, OneCall
<1>2. CookieFits(c)
  BY DEF IInv, CookiesFit
<1> QED BY <1>1, <1>2 DEF CookieFits

(* A call just opened, by a client that had none. *)
LEMMA OnlyNewCall ==
    ASSUME IInv, NEW c \in Clients, Entangle(c), c \notin tangled'
    PROVE  /\ CallsOf(c) = {} /\ c \notin tangled
           /\ jar[c] # Nil => Good(jar[c])
<1>1. CallsOf(c) = {} /\ c \notin tangled
  BY EntangleDoes
<1> QED BY <1>1 DEF IInv, CookiesFit, CookieFits

LEMMA CookieInJar ==
    ASSUME IInv, NEW c \in Clients, jar[c] # Nil
    PROVE  jar[c] \in Tokens /\ holder[jar[c]] = c
  BY DEF IInv, TypeOK, TokensStay

LEMMA FitSend ==
    ASSUME IInv, NEW d \in Clients, NEW r \in Requests, Send(d, r),
           NEW c \in Clients, c \notin tangled, c \notin tangled'
    PROVE  CookieFits(c)'
<1>1. /\ UNCHANGED <<refresh, reuse, holder, lapsed, jar, req>> /\ SameOrigins
      /\ call[r] = Nil /\ OtherCalls(r) /\ Others(r)
  BY SendDoes DEF server, clients, SameOrigins, Others
<1>2. \A x \in Tokens : Kept(x)
  BY <1>1, AllKept
<1>3. call'[r] # Nil /\ call'[r].client = d
  BY SendDoes DEF Is
<1>4. CASE c # d
  BY <1>1, <1>2, <1>3, <1>4, FitOthers
<1>5. CASE c = d
  <2>1. CallsOf(c) = {} /\ (jar[c] # Nil => Good(jar[c]))
    BY <1>5, OnlyNewCall DEF Send
  <2>2. CASE jar[c] # Nil
    <3>1. PICK x \in Tokens : x = jar[c]
      BY <2>2, CookieInJar
    <3>2. call'[r].cookie = x /\ call'[r].answer = Nil /\ call'[r].stage = "sent" /\ jar'[c] = x
      BY <1>1, <1>5, <2>2, <3>1, SendDoes DEF Is
    <3>3. Good(x)'
      BY <1>2, <2>1, <2>2, <3>1 DEF Kept
    <3>4. CallFits(c, r)'
      BY <3>2, <3>3 DEF CallFits, Settled, At
    <3> QED BY <1>1, <1>3, <1>5, <2>1, <3>4, FitOwn
  <2>3. CASE jar[c] = Nil
    <3>1. call'[r].cookie = Nil /\ call'[r].answer = Nil /\ jar'[c] = Nil
      BY <1>1, <1>5, <2>3, SendDoes DEF Is
    <3>2. CallFits(c, r)'
      BY <3>1 DEF CallFits
    <3> QED BY <1>1, <1>3, <1>5, <2>1, <3>2, FitOwn
  <2> QED BY <2>2, <2>3
<1> QED BY <1>4, <1>5

LEMMA FitLogin ==
    ASSUME IInv, NEW d \in Clients, NEW r \in Requests, NEW s \in Sessions, NEW t \in Tokens,
           Login(d, r, s, t),
           NEW c \in Clients, c \notin tangled, c \notin tangled'
    PROVE  CookieFits(c)'
<1>1. /\ origin[t] = Nil /\ refresh'[t] = s /\ UNCHANGED <<reuse, revoked, lapsed, jar>>
      /\ \A x \in Tokens \ {t} : Kept(x)
      /\ call[r] = Nil /\ OtherCalls(r) /\ Others(r)
  BY LoginDoes, KeptUnlessMinted DEF SameKeysBut, Others
<1>2. /\ call'[r] # Nil /\ call'[r].client = d /\ call'[r].op = "login"
      /\ call'[r].cookie = Nil /\ call'[r].answer = t
  BY LoginDoes DEF Is
<1>3. Good(t)' /\ holder[t] = Nil /\ Nil \notin Clients
  BY <1>1, NewTokenIsGood, NilAssumption
<1>4. CASE c # d
  <2>1. \A x \in Tokens : holder[x] = c => Kept(x)
    BY <1>1, <1>3
  <2> QED BY <1>1, <1>2, <1>4, <2>1, FitOthers
<1>5. CASE c = d
  <2>1. CallsOf(c) = {}
    BY <1>5, OnlyNewCall DEF Login
  <2>2. CallFits(c, r)'
    BY <1>2, <1>3 DEF CallFits, Settled, At
  <2> QED BY <1>1, <1>2, <1>5, <2>1, <2>2, FitOwn
<1> QED BY <1>4, <1>5

LEMMA FitLogoutAll ==
    ASSUME IInv, NEW d \in Clients, NEW r \in Requests, NEW u \in Users, LogoutAll(d, r, u),
           NEW c \in Clients, c \notin tangled, c \notin tangled'
    PROVE  CookieFits(c)'
<1>1. /\ UNCHANGED <<refresh, reuse, holder, lapsed, jar>> /\ SameOrigins
      /\ call[r] = Nil /\ OtherCalls(r) /\ Others(r)
  BY LogoutAllDoes DEF clients
<1>2. \A x \in Tokens : Kept(x)
  BY <1>1, AllKept
<1>3. /\ call'[r] # Nil /\ call'[r].client = d /\ call'[r].op = "logoutAll"
      /\ call'[r].stage = "served" /\ call'[r].cookie = Nil /\ call'[r].answer = Nil
  BY LogoutAllDoes DEF Is
<1>4. CASE c # d
  BY <1>1, <1>2, <1>3, <1>4, FitOthers
<1>5. CASE c = d
  <2>1. CallsOf(c) = {}
    BY <1>5, OnlyNewCall DEF LogoutAll
  <2>2. CallFits(c, r)'
    BY <1>3 DEF CallFits, Settled, At
  <2> QED BY <1>1, <1>3, <1>5, <2>1, <2>2, FitOwn
<1> QED BY <1>4, <1>5

LEMMA FitReset ==
    ASSUME IInv, NEW r \in Requests, NEW u \in Users, Reset(r, u),
           NEW c \in Clients, c \notin tangled
    PROVE  CookieFits(c)'
<1>1. /\ UNCHANGED <<refresh, reuse, holder, lapsed, jar>> /\ SameOrigins
      /\ call[r] = Nil /\ OtherCalls(r) /\ Others(r)
  BY ResetDoes DEF clients
<1>2. \A x \in Tokens : Kept(x)
  BY <1>1, AllKept
<1>3. call'[r].client = Nil /\ c # Nil
  BY ResetDoes, NilAssumption DEF Is
<1> QED BY <1>1, <1>2, <1>3, FitOthers

LEMMA FitRotate ==
    ASSUME IInv, NEW r \in Requests, Rotate(r),
           NEW c \in Clients, c \notin tangled
    PROVE  CookieFits(c)'
<1>1. /\ UNCHANGED <<holder, lapsed, jar>> /\ SameOrigins /\ OtherCalls(r) /\ Others(r)
      /\ call[r] # Nil /\ TypeOK /\ CallsCarry /\ TokensStay
  BY RotateDoes DEF clients, At, IInv
<1>2. PICK t \in Tokens :
         /\ t = call[r].cookie /\ SameKeysBut(t)
         /\ \/ /\ refresh[t] # Nil /\ refresh'[t] = Nil
               /\ Is(call'[r], call[r].client, "refresh", call[r].user, "served", Nil, Nil)
            \/ /\ reuse[t] # Nil
               /\ Is(call'[r], call[r].client, "refresh", call[r].user, "served", Nil, Nil)
            \/ UNCHANGED <<refresh, reuse>> /\ call'[r] = Nil
  BY RotateDoes
<1>3. \A x \in Tokens \ {t} : Kept(x)
  BY <1>1, <1>2, KeptUnlessMinted DEF SameKeysBut, SameOrigins
<1>4. holder[t] = call[r].client
  BY <1>1, <1>2, NilAssumption DEF TokensStay
<1>5. call'[r] # Nil => call'[r].client = call[r].client
  BY <1>2 DEF Is
<1>6. CASE c # call[r].client
  <2>1. \A x \in Tokens : holder[x] = c => Kept(x)
    BY <1>3, <1>4, <1>6
  <2> QED BY <1>1, <1>5, <1>6, <2>1, FitOthers
<1>7. CASE c = call[r].client
  <2>1. CallsOf(c) = {r} /\ Good(t) /\ jar[c] \in {Nil, t}
    BY <1>1, <1>2, <1>7, OnlyCall, NilAssumption DEF CallFits
  <2>2. CASE refresh'[t] = Nil /\ Is(call'[r], c, "refresh", call[r].user, "served", Nil, Nil)
    <3>1. /\ call'[r].op = "refresh" /\ call'[r].stage = "served"
          /\ call'[r].cookie = Nil /\ call'[r].answer = Nil /\ call'[r] # Nil
          /\ jar'[c] \in {Nil, t} /\ refresh'[t] = Nil
      BY <1>1, <2>1, <2>2 DEF Is
    <3>2. CallFits(c, r)'
      BY <3>1 DEF CallFits, Settled, At, Live
    <3> QED BY <1>1, <1>5, <1>7, <2>1, <3>1, <3>2, FitOwn
  <2>3. CASE UNCHANGED <<refresh, reuse>> /\ call'[r] = Nil
    <3>1. Good(t)'
      BY <1>1, <2>1, <2>3 DEF Good, Live, SameOrigins
    <3>2. jar'[c] # Nil => Good(jar[c])'
      <4>1. SUFFICES ASSUME jar'[c] # Nil
                     PROVE  Good(jar[c])'
        OBVIOUS
      <4>2. jar'[c] = t
        BY <1>1, <2>1, <4>1
      <4> QED BY <3>1, <4>2
    <3> QED BY <1>1, <1>5, <1>7, <2>1, <2>3, <3>2, FitOwn
  <2> QED BY <1>2, <1>7, <2>1, <2>2, <2>3 DEF Good
<1> QED BY <1>6, <1>7

LEMMA FitReissue ==
    ASSUME IInv, NEW r \in Requests, NEW t \in Tokens, Reissue(r, t),
           NEW c \in Clients, c \notin tangled
    PROVE  CookieFits(c)'
<1>1. /\ origin[t] = Nil /\ refresh'[t] \in Sessions /\ UNCHANGED <<reuse, revoked, lapsed, jar>>
      /\ SameKeysBut(t) /\ \A x \in Tokens \ {t} : Kept(x)
      /\ At(r, "refresh", "served") /\ OtherCalls(r) /\ Others(r)
  BY ReissueDoes, KeptUnlessMinted DEF SameKeysBut
<1>2. /\ call'[r] # Nil /\ call'[r].client = call[r].client /\ call'[r].op = "refresh"
      /\ call'[r].cookie = Nil /\ call'[r].answer = t /\ call'[r].stage = "answered"
  BY ReissueDoes DEF Is
<1>3. Good(t)' /\ holder[t] = Nil /\ Nil \notin Clients
  BY <1>1, NewTokenIsGood, NilAssumption
<1>4. CASE c # call[r].client
  <2>1. \A x \in Tokens : holder[x] = c => Kept(x)
    BY <1>1, <1>3
  <2> QED BY <1>1, <1>2, <1>4, <2>1, FitOthers
<1>5. CASE c = call[r].client
  <2>1. CallsOf(c) = {r} /\ CallFits(c, r)
    BY <1>1, <1>5, OnlyCall DEF At
  <2>2. ASSUME jar[c] # Nil
        PROVE  refresh'[jar[c]] = Nil
    <3>1. jar[c] \in Tokens \ {t}
      BY <1>3, <2>2, CookieInJar
    <3>2. refresh[jar[c]] = Nil
      BY <1>1, <2>1, <2>2 DEF CallFits, Settled, Live
    <3> QED BY <1>1, <3>1, <3>2 DEF SameKeysBut
  <2>3. CallFits(c, r)'
    BY <1>1, <1>2, <1>3, <2>2 DEF CallFits, Settled, At, Live
  <2> QED BY <1>1, <1>2, <1>5, <2>1, <2>3, FitOwn
<1> QED BY <1>4, <1>5

LEMMA FitLogout ==
    ASSUME IInv, NEW r \in Requests, Logout(r),
           NEW c \in Clients, c \notin tangled
    PROVE  CookieFits(c)'
<1>1. /\ UNCHANGED <<refresh, reuse, holder, lapsed, jar>> /\ SameOrigins
      /\ OtherCalls(r) /\ Others(r) /\ call[r] # Nil /\ call[r].op = "logout"
  BY LogoutDoes DEF clients, At
<1>2. PICK t \in Tokens :
         /\ t = call[r].cookie
         /\ \/ /\ refresh[t] # Nil /\ req'[r].todo = {refresh[t]}
               /\ Is(call'[r], call[r].client, "logout", call[r].user, "served", Nil, Nil)
            \/ /\ refresh[t] = Nil
               /\ Is(call'[r], call[r].client, "logout", call[r].user, "answered", Nil, Nil)
  BY LogoutDoes
<1>3. \A x \in Tokens : Kept(x)
  BY <1>1, AllKept
<1>4. /\ call'[r] # Nil /\ call'[r].client = call[r].client /\ call'[r].op = "logout"
      /\ call'[r].cookie = Nil /\ call'[r].answer = Nil
  BY <1>2 DEF Is
<1>5. CASE c # call[r].client
  BY <1>1, <1>3, <1>4, <1>5, FitOthers
<1>6. CASE c = call[r].client
  <2>1. CallsOf(c) = {r} /\ jar'[c] \in {Nil, t}
    BY <1>1, <1>2, <1>6, OnlyCall, NilAssumption DEF CallFits
  <2>2. CASE refresh[t] # Nil /\ req'[r].todo = {refresh[t]} /\ call'[r].stage = "served"
    <3>1. origin'[t] = refresh[t]
      BY <1>1, <2>2, ServerKnows DEF IInv, SameOrigins
    <3>2. CallFits(c, r)'
      BY <1>4, <2>1, <2>2, <3>1 DEF CallFits, Settled, At
    <3> QED BY <1>1, <1>4, <1>6, <2>1, <3>2, FitOwn
  <2>3. CASE refresh[t] = Nil /\ call'[r].stage = "answered"
    <3>1. CallFits(c, r)'
      BY <1>1, <1>4, <2>1, <2>3 DEF CallFits, Settled, At, Live
    <3> QED BY <1>1, <1>4, <1>6, <2>1, <3>1, FitOwn
  <2> QED BY <1>2, <2>2, <2>3 DEF Is
<1> QED BY <1>5, <1>6

LEMMA FitReadFamily ==
    ASSUME IInv, NEW r \in Requests, ReadFamily(r),
           NEW c \in Clients, c \notin tangled
    PROVE  CookieFits(c)'
<1>1. /\ UNCHANGED <<refresh, reuse, holder, lapsed, jar, call>> /\ SameOrigins
      /\ Others(r) /\ req'[r].todo = req[r].todo
  BY ReadFamilyDoes DEF clients
<1>2. \A x \in Tokens : Kept(x)
  BY <1>1, AllKept
<1>3. CallsOf(c)' = CallsOf(c)
  BY <1>1 DEF CallsOf
<1>4. \A q \in CallsOf(c) : call'[q] = call[q] /\ req'[q].todo = req[q].todo
  BY <1>1 DEF CallsOf, Others
<1> QED BY <1>1, <1>2, <1>3, <1>4, FitKept

(* The end of a logout: the session it read off the cookie is revoked.     *)
LEMMA FitLogoutEnds ==
    ASSUME IInv, ServerProof!IInv', NEW r \in Requests, DropFamily(r), call[r].op = "logout",
           NEW c \in Clients, c \notin tangled, c = call[r].client
    PROVE  CookieFits(c)'
<1>1. /\ UNCHANGED <<origin, jar, raced>> /\ revoked' = revoked \cup {req[r].session}
      /\ req[r].pc = "drop" /\ OtherCalls(r) /\ call[r] # Nil /\ call[r].stage = "served"
  BY DropFamilyDoes DEF clients
<1>2. /\ call'[r] # Nil /\ call'[r].client = c /\ call'[r].op = "logout"
      /\ call'[r].stage = "answered" /\ call'[r].cookie = Nil /\ call'[r].answer = Nil
  BY DropFamilyDoes DEF Is
<1>3. CallsOf(c) = {r} /\ CallFits(c, r)
  BY <1>1, OnlyCall
<1>4. ASSUME jar'[c] # Nil, refresh'[jar'[c]] # Nil
      PROVE  jar'[c] \in raced'
  <2>1. PICK x \in Tokens : x = jar[c] /\ x = jar'[c]
    BY <1>1, <1>4, CookieInJar
  <2>2. req[r].session = origin[x]
    <3>1. req[r].todo = {origin[x]}
      BY <1>1, <1>3, <1>4, <2>1 DEF CallFits, Settled, At
    <3>2. req[r].session \in req[r].todo
      BY <1>1, ServerKnows DEF IInv
    <3> QED BY <3>1, <3>2
  <2>3. refresh'[x] \in revoked' /\ refresh'[x] # Nil
    <3>1. origin'[x] = refresh'[x]
      BY <1>4, <2>1 DEF ServerProof!IInv, ServerProof!OriginsAgree, ServerProof!Live
    <3> QED BY <1>1, <1>4, <2>1, <2>2, <3>1
  <2> QED BY <2>1, <2>3 DEF ServerProof!IInv, ServerProof!AllTracked, ServerProof!Tracked,
                            ServerProof!Live
<1>5. CallFits(c, r)'
  BY <1>2, <1>4 DEF CallFits, Settled, At, Live
<1> QED BY <1>1, <1>2, <1>3, <1>5, FitOwn

LEMMA FitDropFamily ==
    ASSUME IInv, ServerProof!IInv', NEW r \in Requests, DropFamily(r),
           NEW c \in Clients, c \notin tangled
    PROVE  CookieFits(c)'
<1>1. /\ UNCHANGED jar /\ OtherCalls(r) /\ Others(r)
      /\ call[r] # Nil /\ call[r].stage = "served" /\ req[r].pc = "drop"
      /\ \/ call[r].op = "logout"
         \/ call[r].op = "refresh" /\ call'[r] = Nil
         \/ call[r].op \in {"logoutAll", "reset"} /\ call'[r] = call[r]
  BY DropFamilyDoes DEF clients
<1>2. \A x \in Tokens : Kept(x)
  BY KeptByDrop
<1>3. call'[r] # Nil => call'[r].client = call[r].client
  BY DropFamilyDoes DEF Is
<1>4. CASE c # call[r].client
  BY <1>1, <1>2, <1>3, <1>4, FitOthers
<1>5. CASE c = call[r].client
  <2>1. CASE call[r].op = "logout"
    BY <1>5, <2>1, FitLogoutEnds
  <2>2. CASE call[r].op = "refresh"
    <3>1. c \in tangled
      BY <1>1, <1>5, <2>2 DEF IInv, NoFalseAlarm, Server!Revoking
    <3> QED BY <3>1
  <2>3. CASE call[r].op \in {"logoutAll", "reset"} /\ call'[r] = call[r]
    <3>1. CallsOf(c)' = CallsOf(c)
      BY <1>1, <2>3 DEF CallsOf, OtherCalls
    <3>2. \A q \in CallsOf(c) : /\ call'[q] = call[q]
                                /\ call[q].op = "logout" => req'[q].todo = req[q].todo
      BY <1>1, <2>3 DEF CallsOf, OtherCalls, Others
    <3> QED BY <1>1, <1>2, <3>1, <3>2, FitKept
  <2> QED BY <1>1, <2>1, <2>2, <2>3
<1> QED BY <1>4, <1>5

LEMMA FitClearIndex ==
    ASSUME IInv, NEW r \in Requests, ClearIndex(r),
           NEW c \in Clients, c \notin tangled
    PROVE  CookieFits(c)'
<1>1. /\ UNCHANGED <<refresh, reuse, holder, lapsed, jar>> /\ SameOrigins
      /\ OtherCalls(r) /\ Others(r) /\ call[r] # Nil /\ TypeOK /\ CallsCarry
      /\ req[r].pc = "read" /\ req[r].op = "revokeAll" /\ req[r].todo = {}
      /\ \/ call[r].op = "reset" /\ call'[r] = Nil
         \/ /\ call[r].op = "logoutAll" /\ req[r].user = call[r].user
            /\ Is(call'[r], call[r].client, "logoutAll", call[r].user, "answered", Nil, Nil)
  BY ClearIndexDoes DEF clients, IInv
<1>2. \A x \in Tokens : Kept(x)
  BY <1>1, AllKept
<1>3. call'[r] # Nil => call'[r].client = call[r].client
  BY <1>1 DEF Is
<1>4. CASE c # call[r].client
  BY <1>1, <1>2, <1>3, <1>4, FitOthers
<1>5. CASE c = call[r].client
  <2>1. /\ call[r].op = "logoutAll" /\ req[r].user = call[r].user
        /\ Is(call'[r], c, "logoutAll", call[r].user, "answered", Nil, Nil)
    <3>1. call[r].op # "reset"
      BY <1>1, <1>5, CallHas, NilAssumption DEF CallCarries
    <3> QED BY <1>1, <1>5, <3>1
  <2>2. /\ call'[r] # Nil /\ call'[r].op = "logoutAll" /\ call'[r].stage = "answered"
        /\ call'[r].cookie = Nil /\ call'[r].answer = Nil /\ call'[r].user = req[r].user
    BY <2>1 DEF Is
  <2>3. CallsOf(c) = {r}
    BY <1>1, <1>5, OnlyCall
  <2>4. ASSUME jar[c] # Nil, refresh[jar[c]] # Nil
        PROVE  jar[c] \in raced \/ UserOf[refresh[jar[c]]] # req[r].user
    BY <1>1, <2>4, CookieInJar, ServerKnows DEF IInv
  <2>5. CallFits(c, r)'
    BY <1>1, <2>2, <2>4 DEF CallFits, Settled, At, Live, SameOrigins
  <2> QED BY <1>1, <1>3, <1>5, <2>2, <2>3, <2>5, FitOwn
<1> QED BY <1>4, <1>5

LEMMA FitAbort ==
    ASSUME IInv, NEW r \in Requests, Abort(r),
           NEW c \in Clients, c \notin tangled, c \notin tangled'
    PROVE  CookieFits(c)'
<1>1. /\ UNCHANGED <<refresh, reuse, holder, lapsed, jar>> /\ SameOrigins
      /\ OtherCalls(r) /\ Others(r) /\ call[r] # Nil /\ call'[r] = Nil
      /\ tangled' = tangled \cup ({call[r].client} \ {Nil})
  BY AbortDoes DEF clients
<1>2. \A x \in Tokens : Kept(x)
  BY <1>1, AllKept
<1>3. call[r].client # c
  BY <1>1, NilAssumption
<1> QED BY <1>1, <1>2, <1>3, FitOthers

LEMMA FitReceive ==
    ASSUME IInv, NEW r \in Requests, Receive(r),
           NEW c \in Clients, c \notin tangled
    PROVE  CookieFits(c)'
<1>1. /\ UNCHANGED <<refresh, reuse, holder, lapsed, req>> /\ SameOrigins
      /\ OtherCalls(r) /\ Others(r) /\ call[r] # Nil /\ call'[r] = Nil
      /\ jar'[call[r].client] = call[r].answer
      /\ \A d \in Clients \ {call[r].client} : jar'[d] = jar[d]
      /\ TypeOK /\ CallsCarry
  BY ReceiveDoes DEF server, SameOrigins, Others, IInv
<1>2. \A x \in Tokens : Kept(x)
  BY <1>1, AllKept
<1>3. CASE c # call[r].client
  BY <1>1, <1>2, <1>3, FitOthers
<1>4. CASE c = call[r].client
  <2>1. CallsOf(c) = {r} /\ CallFits(c, r)
    BY <1>1, <1>4, OnlyCall
  <2>2. jar'[c] # Nil => Good(jar[c])'
    <3>1. SUFFICES ASSUME jar'[c] # Nil
                   PROVE  Good(jar[c])'
      OBVIOUS
    <3>2. PICK x \in Tokens : x = call[r].answer /\ x = jar'[c]
      BY <1>1, <1>4, <3>1, CallHas
    <3>3. Good(x)'
      BY <1>1, <1>2, <1>4, <2>1, <3>1, <3>2 DEF CallFits, Kept
    <3> QED BY <3>2, <3>3
  <2> QED BY <1>1, <2>1, <2>2, FitOwn
<1> QED BY <1>3, <1>4

LEMMA FitLose ==
    ASSUME IInv, NEW r \in Requests, Lose(r),
           NEW c \in Clients, c \notin tangled, c \notin tangled'
    PROVE  CookieFits(c)'
<1>1. /\ UNCHANGED <<refresh, reuse, holder, lapsed, jar, req>> /\ SameOrigins
      /\ OtherCalls(r) /\ Others(r) /\ call[r] # Nil /\ call'[r] = Nil
      /\ tangled' = IF call[r].stage = "sent" THEN tangled ELSE tangled \cup {call[r].client}
      /\ TypeOK /\ CallsCarry
  BY LoseDoes DEF server, clients, SameOrigins, Others, IInv
<1>2. \A x \in Tokens : Kept(x)
  BY <1>1, AllKept
<1>3. CASE c # call[r].client
  BY <1>1, <1>2, <1>3, FitOthers
<1>4. CASE c = call[r].client
  <2>1. CallsOf(c) = {r} /\ CallFits(c, r) /\ call[r].cookie # Nil
    BY <1>1, <1>4, OnlyCall, CallHas DEF CallCarries
  <2>2. jar'[c] # Nil => Good(jar[c])'
    <3>1. SUFFICES ASSUME jar'[c] # Nil
                   PROVE  Good(jar[c])'
      OBVIOUS
    <3>2. PICK x \in Tokens : x = jar[c] /\ x = jar'[c]
      BY <1>1, <3>1, CookieInJar
    <3>3. Good(x)'
      BY <1>1, <1>2, <2>1, <3>1, <3>2 DEF CallFits, Kept
    <3> QED BY <3>2, <3>3
  <2> QED BY <1>1, <2>1, <2>2, FitOwn
<1> QED BY <1>3, <1>4

LEMMA FitStep ==
    ASSUME IInv, ServerProof!IInv', [Next]_vars
    PROVE  CookiesFit'
<1> SUFFICES ASSUME NEW c \in Clients, c \notin tangled'
             PROVE  CookieFits(c)'
  BY DEF CookiesFit
<1>0. c \notin tangled
  BY TangledGrows
<1>1. ASSUME UNCHANGED <<call, req>>, \A x \in Tokens : Kept(x), jar'[c] \in {Nil, jar[c]}
      PROVE  CookieFits(c)'
  <2>1. CallsOf(c)' = CallsOf(c)
    BY <1>1 DEF CallsOf
  <2> QED BY <1>0, <1>1, <2>1, FitKept DEF CallsOf
<1>2. ASSUME NEW t \in Tokens, ExpireToken(t)
      PROVE  CookieFits(c)'
  BY <1>1, <1>2, KeptByExpiry, ExpireTokenDoes
<1>3. ASSUME NEW d \in Clients, ExpireCookie(d)
      PROVE  CookieFits(c)'
  <2>1. /\ UNCHANGED <<call, req, refresh, reuse, holder, lapsed>> /\ SameOrigins
        /\ jar'[c] \in {Nil, jar[c]}
    BY <1>3, ExpireCookieDoes DEF server, SameOrigins
  <2> QED BY <1>1, <2>1, AllKept
<1>4. CASE UNCHANGED vars
  <2>1. UNCHANGED <<call, req, refresh, reuse, holder, lapsed, jar>> /\ SameOrigins
    BY <1>4 DEF vars, server, SameOrigins
  <2> QED BY <1>1, <2>1, AllKept
<1> QED BY <1>0, <1>2, <1>3, <1>4, FitSend, FitLogin, FitLogoutAll, FitReset, FitRotate, FitLogout,
           FitReissue, FitReadFamily, FitDropFamily, FitClearIndex, FitAbort, FitReceive, FitLose
        DEF Next, Handle, Revoke

-----------------------------------------------------------------------------
(* No orphans.                                                             *)

(* What NoOrphan says of one token. *)
Safe(x) ==
    Live(x) /\ x \notin raced /\ holder[x] \notin tangled /\ origin[x] \notin forsaken
    => \/ jar[holder[x]] = x
       \/ \E r \in CallsOf(holder[x]) : call[r].answer = x

LEMMA LiveTokensAreHeld ==
    ASSUME IInv, NEW x \in Tokens, refresh[x] # Nil
    PROVE  holder[x] \in Clients /\ origin[x] = refresh[x] /\ Safe(x)
<1>1. origin[x] = refresh[x]
  BY ServerKnows DEF IInv
<1>2. holder[x] \in Clients
  BY <1>1 DEF IInv, TypeOK, TokensStay
<1>3. Safe(x)
  BY DEF IInv, NoOrphan, Safe
<1> QED BY <1>1, <1>2, <1>3

(* A token stays where it is, or is on its way in the same answer. *)
LEMMA StaysSafe ==
    ASSUME IInv, [Next]_vars, NEW x \in Tokens,
           refresh'[x] \in {Nil, refresh[x]}, holder'[x] = holder[x], origin'[x] = origin[x],
           x \in raced => x \in raced', forsaken \subseteq forsaken',
           refresh'[x] # Nil /\ jar[holder[x]] = x => jar'[holder[x]] = x,
           \A q \in Requests : call[q] # Nil /\ call[q].answer = x => call'[q] = call[q]
    PROVE  Safe(x)'
<1> SUFFICES ASSUME refresh'[x] # Nil, x \notin raced', holder[x] \notin tangled',
                    origin[x] \notin forsaken'
             PROVE  \/ jar'[holder[x]] = x
                    \/ \E r \in Requests : /\ call'[r] # Nil /\ call'[r].client = holder[x]
                                           /\ call'[r].answer = x
  BY DEF Safe, CallsOf, Live
<1>1. refresh[x] # Nil /\ x \notin raced /\ holder[x] \notin tangled /\ origin[x] \notin forsaken
  BY TangledGrows
<1>2. CASE jar[holder[x]] = x
  BY <1>2
<1>3. CASE jar[holder[x]] # x
  <2>1. PICK r \in Requests : call[r] # Nil /\ call[r].client = holder[x] /\ call[r].answer = x
    BY <1>1, <1>3, LiveTokensAreHeld DEF Safe, CallsOf, Live
  <2> QED BY <2>1
<1> QED BY <1>2, <1>3

(* A step of a call that has no answer yet. *)
LEMMA UnansweredIsSafe ==
    ASSUME IInv, [Next]_vars, NEW x \in Tokens,
           refresh'[x] \in {Nil, refresh[x]}, holder'[x] = holder[x], origin'[x] = origin[x],
           x \in raced => x \in raced', UNCHANGED <<forsaken, jar>>,
           NEW r \in Requests, OtherCalls(r), call[r] # Nil => call[r].stage # "answered"
    PROVE  Safe(x)'
<1>1. \A q \in Requests : call[q] # Nil /\ call[q].answer = x => call'[q] = call[q]
  <2>1. SUFFICES ASSUME call[r] # Nil, call[r].answer = x
                 PROVE  FALSE
    BY DEF OtherCalls
  <2>2. CallCarries(r)
    BY <2>1 DEF IInv, CallsCarry
  <2> QED BY <2>1, <2>2, NilAssumption DEF CallCarries
<1> QED BY <1>1, StaysSafe

(* A token just minted is in its answer. *)
LEMMA MintedIsSafe ==
    ASSUME NEW t \in Tokens, NEW r \in Requests,
           call'[r] # Nil, call'[r].client = holder'[t], call'[r].answer = t
    PROVE  Safe(t)'
  BY DEF Safe, CallsOf

LEMMA OrphanByReceive ==
    ASSUME IInv, [Next]_vars, NEW r \in Requests, Receive(r), NEW x \in Tokens
    PROVE  Safe(x)'
<1>1. /\ UNCHANGED server /\ UNCHANGED <<holder, tangled>>
      /\ call[r] # Nil /\ call[r].stage = "answered" /\ call[r].client \in Clients
      /\ OtherCalls(r)
      /\ jar'[call[r].client] = call[r].answer
      /\ \A c \in Clients \ {call[r].client} : jar'[c] = jar[c]
      /\ forsaken' = forsaken \cup GivesWay(r)
      /\ TypeOK /\ CallsCarry /\ TokensStay
  BY ReceiveDoes DEF IInv
<1>2. UNCHANGED <<refresh, origin, raced>>
  BY <1>1 DEF server
<1> SUFFICES ASSUME refresh[x] # Nil, x \notin raced, holder[x] \notin tangled,
                    origin[x] \notin forsaken'
             PROVE  Safe(x)'
  BY <1>1, <1>2 DEF Safe, Live
<1>3. holder[x] \in Clients /\ origin[x] = refresh[x]
  BY LiveTokensAreHeld
<1>4. CASE holder[x] # call[r].client
  <2>1. \A q \in Requests : call[q] # Nil /\ call[q].answer = x => call'[q] = call[q]
    <3>1. call[r].answer # x
      BY <1>1, <1>4, NilAssumption DEF TokensStay
    <3> QED BY <3>1, <1>1 DEF OtherCalls
  <2>2. jar'[holder[x]] = jar[holder[x]]
    BY <1>1, <1>3, <1>4
  <2> QED BY <1>1, <1>2, <2>1, <2>2, StaysSafe
<1>5. CASE holder[x] = call[r].client
  <2> DEFINE c == holder[x]
  <2>1. c \in Clients /\ c \notin tangled /\ CallsOf(c) = {r} /\ CallFits(c, r)
    BY <1>1, <1>3, <1>5, OnlyCall
  <2>2. jar[c] # x
    <3>1. SUFFICES ASSUME jar[c] = x
                   PROVE  FALSE
      OBVIOUS
    <3>2. Settled(c, r) /\ Live(jar[c]) /\ x # Nil
      BY <2>1, <3>1, NilAssumption DEF CallFits, Live
    <3>3. call[r].op \in {"login", "refresh", "logout", "logoutAll"}
      BY <1>1, CallHas, NilAssumption DEF CallCarries, Ops
    <3>4. refresh[x] \in Replaced(r)
      <4>1. Replaced(r) = {refresh[t] : t \in {x}} \ {Nil}
        BY <1>5, <3>1, <3>2 DEF Replaced
      <4> QED BY <4>1
    <3>5. refresh[x] \notin GivesWay(r)
      BY <1>1, <1>3
    <3>6. CASE call[r].op = "refresh"
      BY <1>1, <3>2, <3>6 DEF Settled, At
    <3>7. CASE call[r].op = "logout"
      BY <1>1, <3>1, <3>2, <3>7 DEF Settled, At
    <3>8. CASE call[r].op = "logoutAll"
      <4>1. UserOf[refresh[x]] # call[r].user
        BY <1>1, <3>1, <3>2, <3>8 DEF Settled, At
      <4>2. GivesWay(r) = {s \in Replaced(r) : UserOf[s] # call[r].user}
        BY <3>8 DEF GivesWay
      <4> QED BY <3>4, <3>5, <4>1, <4>2
    <3>9. CASE call[r].op = "login"
      BY <3>4, <3>5, <3>9 DEF GivesWay
    <3> QED BY <3>3, <3>6, <3>7, <3>8, <3>9
  <2>3. call[r].answer = x
    <3>1. Safe(x) /\ refresh[x] # Nil /\ x \notin raced /\ origin[x] \notin forsaken
      BY <1>1, LiveTokensAreHeld
    <3>2. \E q \in CallsOf(c) : call[q].answer = x
      BY <2>1, <2>2, <3>1 DEF Safe, Live
    <3> QED BY <2>1, <3>2
  <2>4. jar'[holder'[x]] = x
    BY <1>1, <1>5, <2>3
  <2> QED BY <2>4 DEF Safe
<1> QED BY <1>4, <1>5

LEMMA OrphanByLose ==
    ASSUME IInv, [Next]_vars, NEW r \in Requests, Lose(r), NEW x \in Tokens
    PROVE  Safe(x)'
<1>1. /\ UNCHANGED <<refresh, origin, raced, holder, forsaken, jar>>
      /\ call[r] # Nil /\ OtherCalls(r) /\ TokensStay
      /\ tangled' = IF call[r].stage = "sent" THEN tangled ELSE tangled \cup {call[r].client}
  BY LoseDoes DEF server, clients, IInv
<1>2. CASE call[r].stage = "sent"
  BY <1>1, <1>2, UnansweredIsSafe
<1>3. CASE call[r].answer # x
  <2>1. \A q \in Requests : call[q] # Nil /\ call[q].answer = x => call'[q] = call[q]
    BY <1>1, <1>3 DEF OtherCalls
  <2> QED BY <1>1, <2>1, StaysSafe
<1>4. CASE call[r].stage # "sent" /\ call[r].answer = x
  <2>1. holder'[x] \in tangled'
    BY <1>1, <1>4, NilAssumption DEF TokensStay
  <2> QED BY <2>1 DEF Safe
<1> QED BY <1>2, <1>3, <1>4

LEMMA OrphanStep ==
    ASSUME IInv, [Next]_vars
    PROVE  NoOrphan'
<1> SUFFICES ASSUME NEW x \in Tokens
             PROVE  Safe(x)'
  BY DEF NoOrphan, Safe
<1>1. ASSUME NEW c \in Clients, NEW r \in Requests, Send(c, r)
      PROVE  Safe(x)'
  <2>1. /\ UNCHANGED <<refresh, origin, raced, holder, forsaken, jar>>
        /\ call[r] = Nil /\ OtherCalls(r)
    BY <1>1, SendDoes DEF server, clients
  <2> QED BY <2>1, UnansweredIsSafe
<1>2. ASSUME NEW c \in Clients, NEW r \in Requests, NEW s \in Sessions, NEW t \in Tokens,
             Login(c, r, s, t)
      PROVE  Safe(x)'
  <2>1. /\ call'[r] # Nil /\ call'[r].client = holder'[t] /\ call'[r].answer = t
    BY <1>2, LoginDoes DEF Is
  <2>2. CASE x = t
    BY <2>1, <2>2, MintedIsSafe
  <2>3. CASE x # t
    <3>1. /\ refresh'[x] = refresh[x] /\ origin'[x] = origin[x] /\ holder'[x] = holder[x]
          /\ raced \subseteq raced' /\ UNCHANGED <<forsaken, jar>> /\ call[r] = Nil /\ OtherCalls(r)
      BY <1>2, <2>3, LoginDoes DEF SameKeysBut
    <3> QED BY <3>1, UnansweredIsSafe
  <2> QED BY <2>2, <2>3
<1>3. ASSUME NEW c \in Clients, NEW r \in Requests, NEW u \in Users, LogoutAll(c, r, u)
      PROVE  Safe(x)'
  <2>1. /\ UNCHANGED <<refresh, origin, raced, holder, forsaken, jar>>
        /\ call[r] = Nil /\ OtherCalls(r)
    BY <1>3, LogoutAllDoes DEF SameOrigins, clients
  <2> QED BY <2>1, UnansweredIsSafe
<1>4. ASSUME NEW r \in Requests, NEW u \in Users, Reset(r, u)
      PROVE  Safe(x)'
  <2>1. /\ UNCHANGED <<refresh, origin, raced, holder, forsaken, jar>>
        /\ call[r] = Nil /\ OtherCalls(r)
    BY <1>4, ResetDoes DEF SameOrigins, clients
  <2> QED BY <2>1, UnansweredIsSafe
<1>5. ASSUME NEW r \in Requests, Rotate(r)
      PROVE  Safe(x)'
  <2>1. /\ UNCHANGED <<origin, raced, holder, forsaken, jar>>
        /\ call[r].stage = "sent" /\ OtherCalls(r)
    BY <1>5, RotateDoes DEF SameOrigins, clients, At
  <2>2. refresh'[x] \in {Nil, refresh[x]}
    BY <1>5, RotateDoes DEF SameKeysBut
  <2> QED BY <2>1, <2>2, UnansweredIsSafe
<1>6. ASSUME NEW r \in Requests, Logout(r)
      PROVE  Safe(x)'
  <2>1. /\ UNCHANGED <<refresh, origin, raced, holder, forsaken, jar>>
        /\ call[r].stage = "sent" /\ OtherCalls(r)
    BY <1>6, LogoutDoes DEF SameOrigins, clients, At
  <2> QED BY <2>1, UnansweredIsSafe
<1>7. ASSUME NEW r \in Requests, NEW t \in Tokens, Reissue(r, t)
      PROVE  Safe(x)'
  <2>1. /\ call'[r] # Nil /\ call'[r].client = holder'[t] /\ call'[r].answer = t
    BY <1>7, ReissueDoes DEF Is
  <2>2. CASE x = t
    BY <2>1, <2>2, MintedIsSafe
  <2>3. CASE x # t
    <3>1. /\ refresh'[x] = refresh[x] /\ origin'[x] = origin[x] /\ holder'[x] = holder[x]
          /\ raced \subseteq raced' /\ UNCHANGED <<forsaken, jar>>
          /\ call[r].stage = "served" /\ OtherCalls(r)
      BY <1>7, <2>3, ReissueDoes DEF SameKeysBut, At
    <3> QED BY <3>1, UnansweredIsSafe
  <2> QED BY <2>2, <2>3
<1>8. ASSUME UNCHANGED <<origin, raced, holder, forsaken, call>>,
             refresh'[x] \in {Nil, refresh[x]},
             refresh'[x] # Nil /\ jar[holder[x]] = x => jar'[holder[x]] = x
      PROVE  Safe(x)'
  BY <1>8, StaysSafe
<1>9. ASSUME NEW r \in Requests, ReadFamily(r)
      PROVE  Safe(x)'
  <2>1. UNCHANGED <<refresh, origin, raced, holder, forsaken, call, jar>>
    BY <1>9, ReadFamilyDoes DEF SameOrigins, clients
  <2> QED BY <1>8, <2>1
<1>10. ASSUME NEW r \in Requests, DropFamily(r)
       PROVE  Safe(x)'
  <2>1. /\ UNCHANGED <<origin, raced, holder, forsaken, jar>> /\ refresh'[x] \in {Nil, refresh[x]}
        /\ call[r].stage = "served" /\ OtherCalls(r)
    BY <1>10, DropFamilyDoes DEF clients
  <2> QED BY <2>1, UnansweredIsSafe
<1>11. ASSUME NEW r \in Requests, ClearIndex(r) \/ Abort(r)
       PROVE  Safe(x)'
  <2>1. /\ UNCHANGED <<refresh, origin, raced, holder, forsaken, jar>>
        /\ call[r].stage = "served" /\ OtherCalls(r)
    BY <1>11, ClearIndexDoes, AbortDoes DEF SameOrigins, clients
  <2> QED BY <2>1, UnansweredIsSafe
<1>12. ASSUME NEW t \in Tokens, ExpireToken(t)
       PROVE  Safe(x)'
  <2>1. /\ UNCHANGED <<origin, raced, holder, forsaken, call, jar>>
        /\ refresh'[x] \in {Nil, refresh[x]}
    BY <1>12, ExpireTokenDoes DEF SameOrigins, SameKeysBut
  <2> QED BY <1>8, <2>1
<1>13. ASSUME NEW c \in Clients, ExpireCookie(c)
       PROVE  Safe(x)'
  <2>1. /\ UNCHANGED <<refresh, origin, raced, holder, forsaken, call>>
        /\ refresh[jar[c]] = Nil /\ \A d \in Clients \ {c} : jar'[d] = jar[d]
    BY <1>13, ExpireCookieDoes DEF server
  <2>2. ASSUME refresh'[x] # Nil, jar[holder[x]] = x
        PROVE  jar'[holder[x]] = x
    BY <2>1, <2>2, LiveTokensAreHeld
  <2> QED BY <1>8, <2>1, <2>2
<1>14. CASE UNCHANGED vars
  BY <1>8, <1>14 DEF vars, server
<1> QED BY <1>1, <1>2, <1>3, <1>4, <1>5, <1>6, <1>7, <1>9, <1>10, <1>11, <1>12, <1>13, <1>14,
           OrphanByReceive, OrphanByLose DEF Next, Handle, Revoke

-----------------------------------------------------------------------------
(* The theorems.                                                           *)

LEMMA InvInit ==
    ASSUME Init
    PROVE  IInv
<1>1. ServerProof!IInv
  BY ServerInvInit
<1>2. /\ \A c \in Clients : jar[c] = Nil
      /\ \A r \in Requests : call[r] = Nil
      /\ \A t \in Tokens : holder[t] = Nil
      /\ jar \in [Clients -> Tokens \cup {Nil}] /\ call \in [Requests -> Call \cup {Nil}]
      /\ holder \in [Tokens -> Clients \cup {Nil}]
      /\ tangled = {} /\ forsaken = {} /\ lapsed = {}
  BY DEF Init
<1>3. /\ \A r \in Requests : req[r].pc = "idle"
      /\ \A t \in Tokens : origin[t] = Nil /\ refresh[t] = Nil
  BY DEF Init, Server!Init, Server!Idle
<1>4. TypeOK
  BY <1>1, <1>2, <1>3, SameType DEF TypeOK, ServerProof!IInv
<1>5. CallsCarry /\ NoFalseAlarm
  BY <1>2 DEF CallsCarry, NoFalseAlarm
<1>6. TokensStay /\ NoOrphan
  BY <1>2, <1>3 DEF TokensStay, NoOrphan, Live
<1>7. \A c \in Clients : CallsOf(c) = {}
  BY <1>2 DEF CallsOf
<1>8. OneCall /\ CookiesFit
  BY <1>2, <1>7 DEF OneCall, CookiesFit, CookieFits
<1> QED BY <1>1, <1>4, <1>5, <1>6, <1>8 DEF IInv

LEMMA InvStep ==
    ASSUME IInv, [Next]_vars
    PROVE  IInv'
<1>1. ServerProof!IInv'
  BY ServerInvStep DEF IInv
<1>2. TypeOK'
  BY <1>1, TypeStep
<1> QED BY <1>1, <1>2, CarryStep, TokensStep, OneCallStep, FitStep, AlarmStep, OrphanStep DEF IInv

LEMMA InvAlways == Spec => []IInv
<1>1. Init => IInv
  BY InvInit
<1>2. IInv /\ [Next]_vars => IInv'
  BY InvStep
<1> QED BY <1>1, <1>2, PTL DEF Spec

(* Every variable keeps its type, and a request runs exactly while its     *)
(* call is being served, for any number of clients, sessions and calls.    *)
THEOREM TypeCorrect == Spec => []TypeOK
<1>1. IInv => TypeOK
  BY DEF IInv
<1> QED BY <1>1, InvAlways, PTL

(* Whatever browsers do, the refresh-token machinery of token_service.py   *)
(* behaves as RefreshTokens says: each step here is one of its steps or    *)
(* leaves its keys alone, so what is proved of that module holds here.     *)
THEOREM ServerBehaves == Spec => Server!Spec
<1>1. Init => Server!Init
  BY DEF Init
<1>2. IInv /\ [Next]_vars => [Server!Next]_(Server!vars)
  <2>1. SUFFICES ASSUME IInv, [Next]_vars
                 PROVE  [Server!Next]_(Server!vars)
    OBVIOUS
  <2>2. [ServerProof!Next]_(ServerProof!vars)
    BY <2>1, ServerMoves DEF IInv
  <2> QED BY <2>2, SameNext DEF Server!vars, ServerProof!vars
<1> QED BY <1>1, <1>2, InvAlways, PTL DEF Spec, Server!Spec

(* refresh: reuse detection never strikes a client that kept to one call   *)
(* at a time and got every answer.                                         *)
THEOREM NobodyIsFalselyAlarmed == Spec => []NoFalseAlarm
<1>1. IInv => NoFalseAlarm
  BY DEF IInv
<1> QED BY <1>1, InvAlways, PTL

(* logout, logout_all, login: a live token is where its client can get at  *)
(* it, in the jar or in the answer on its way there.                       *)
THEOREM NoSessionIsOrphaned == Spec => []NoOrphan
<1>1. IInv => NoOrphan
  BY DEF IInv
<1> QED BY <1>1, InvAlways, PTL

(* An orderly client that waits for nothing has a cookie that works, or    *)
(* that expired, or whose own session was revoked.                         *)
THEOREM CookiesKeepWorking == Spec => []CookieWorks
<1>1. IInv => CookieWorks
  BY DEF IInv, CookiesFit, CookieFits, CookieWorks, Good
<1> QED BY <1>1, InvAlways, PTL
=============================================================================
