--------------------------- MODULE ClientSessions ---------------------------
(***************************************************************************)
(* The refresh-token machinery seen from the browsers that use it: the     *)
(* cookie AuthController sets and clears, the access token its answers     *)
(* carry, and HTTP in between.                                             *)
(*                                                                         *)
(* A call takes the cookie its client has when it is sent, may wait on the *)
(* way while other calls are answered, and its answer may be overtaken or  *)
(* lost.  A client is tangled once it has had two calls under way at the   *)
(* same time (two tabs share one cookie), missed an answer, or had a call  *)
(* abandoned by the server; what is promised to the others is below.       *)
(***************************************************************************)
EXTENDS FiniteSets

CONSTANTS
    Users, Sessions, UserOf, Tokens, Requests, Nil, Faults, \* as in RefreshTokens
    Clients         \* cookie jars: one browser each

VARIABLES
    refresh, reuse, members, index, req, origin, revoked, raced,
    jar,            \* the refresh cookie of each client
    call,           \* the HTTP call each request belongs to
    holder,         \* history: the client each token was minted for
    tangled,        \* history: clients whose calls overlapped or got lost
    forsaken,       \* history: sessions whose cookie gave way to another's
    lapsed          \* history: tokens that expired

Server == INSTANCE RefreshTokens

server == <<refresh, reuse, members, index, req, origin, revoked, raced>>
clients == <<jar, holder, forsaken, lapsed>>
vars == <<server, jar, call, holder, tangled, forsaken, lapsed>>

Ops == {"login", "refresh", "logout", "logoutAll", "reset"}

Call == [client : Clients \cup {Nil}, op : Ops, user : Users \cup {Nil},
         cookie : Tokens \cup {Nil}, stage : {"sent", "served", "answered"},
         answer : Tokens \cup {Nil}]

ASSUME UserOfAssumption == UserOf \in [Sessions -> Users]
ASSUME NilAssumption ==
    Nil \notin Users \cup Sessions \cup Tokens \cup Clients \cup Call
ASSUME FaultsAssumption == Faults \in BOOLEAN

Live(t) == refresh[t] # Nil

(* The calls of a client that it still waits for. *)
CallsOf(c) == {r \in Requests : call[r] # Nil /\ call[r].client = c}
At(r, op, stage) == call[r] # Nil /\ call[r].op = op /\ call[r].stage = stage

Init ==
    /\ Server!Init
    /\ jar = [c \in Clients |-> Nil]
    /\ call = [r \in Requests |-> Nil]
    /\ holder = [t \in Tokens |-> Nil]
    /\ tangled = {} /\ forsaken = {} /\ lapsed = {}

-----------------------------------------------------------------------------
(* The clients *)

Open(r, c, op, user, cookie, stage) ==
    /\ call[r] = Nil
    /\ call' = [call EXCEPT ![r] =
                   [client |-> c, op |-> op, user |-> user, cookie |-> cookie,
                    stage |-> stage, answer |-> Nil]]

(* A client may have an access token for the users it was minted one for. *)
Bearer(c) == {UserOf[origin[t]] : t \in {u \in Tokens : holder[u] = c}}

Entangle(c) == tangled' = IF CallsOf(c) = {} THEN tangled ELSE tangled \cup {c}

(* What a call carries may be out of date when the server gets to it. *)
Send(c, r) ==
    /\ \E op \in {"refresh", "logout"} :
          IF jar[c] # Nil THEN Open(r, c, op, Nil, jar[c], "sent")
          ELSE op = "logout" /\ Open(r, c, op, Nil, Nil, "answered")
    /\ Entangle(c)
    /\ UNCHANGED <<server, clients>>

(* The session in the jar when an answer that belongs to another arrives. *)
Replaced(r) ==
    {refresh[t] : t \in {jar[call[r].client]} \ {Nil}} \ {Nil}

GivesWay(r) ==
    CASE call[r].op = "login" -> Replaced(r)
      [] call[r].op = "logoutAll" -> {s \in Replaced(r) : UserOf[s] # call[r].user}
      [] OTHER -> {}

(* An answer with a token sets the cookie, any other clears it. *)
Receive(r) ==
    LET c == call[r].client
        t == call[r].answer
    IN
    /\ call[r] # Nil
    /\ call[r].stage = "answered"
    /\ jar' = [jar EXCEPT ![c] = t]
    /\ forsaken' = forsaken \cup GivesWay(r)
    /\ call' = [call EXCEPT ![r] = Nil]
    /\ UNCHANGED <<server, holder, tangled, lapsed>>

(* A call that never reaches the server may be sent again; an answer that  *)
(* never reaches the client leaves it with the cookie it had.              *)
Lose(r) ==
    /\ Faults
    /\ call[r] # Nil
    /\ call[r].stage # "served"
    /\ call' = [call EXCEPT ![r] = Nil]
    /\ tangled' = IF call[r].stage = "sent" THEN tangled
                  ELSE tangled \cup {call[r].client}
    /\ UNCHANGED <<server, clients>>

-----------------------------------------------------------------------------
(* The handlers of AuthController.  An error answer leaves the cookie as it *)
(* is, so the call simply ends.                                            *)

Serve(r) == call' = [call EXCEPT ![r].stage = "served", ![r].cookie = Nil]
Answer(r, t) == call' = [call EXCEPT ![r].stage = "answered", ![r].cookie = Nil,
                                     ![r].answer = t]
Fail(r) == call' = [call EXCEPT ![r] = Nil]
Mint(r, t) == holder' = [holder EXCEPT ![t] = call[r].client]

(* Neither login nor logout_all reads the cookie. *)
Login(c, r, s, t) ==
    /\ call[r] = Nil
    /\ Server!Login(s, t)
    /\ call' = [call EXCEPT ![r] =
                   [client |-> c, op |-> "login", user |-> UserOf[s], cookie |-> Nil,
                    stage |-> "answered", answer |-> t]]
    /\ holder' = [holder EXCEPT ![t] = c]
    /\ Entangle(c)
    /\ UNCHANGED <<jar, forsaken, lapsed>>

Rotate(r) ==
    /\ At(r, "refresh", "sent")
    /\ \/ Server!Rotate(r, call[r].cookie) /\ Serve(r)
       \/ Server!DetectReuse(r, call[r].cookie) /\ Serve(r)
       \/ Server!Refuse(call[r].cookie) /\ Fail(r)
    /\ UNCHANGED <<clients, tangled>>

(* Seeded fault: refresh answers without its Set-Cookie header. *)
ReissueNoCookie(r, t) ==
    /\ At(r, "refresh", "served")
    /\ Server!Reissue(r, t)
    /\ Answer(r, jar[call[r].client])
    /\ Mint(r, t)
    /\ UNCHANGED <<jar, tangled, forsaken, lapsed>>

Reissue(r, t) ==
    /\ At(r, "refresh", "served")
    /\ Server!Reissue(r, t)
    /\ Answer(r, t)
    /\ Mint(r, t)
    /\ UNCHANGED <<jar, tangled, forsaken, lapsed>>

(* Seeded fault: logout clears the cookie and leaves Redis alone. *)
LogoutLocally(r) ==
    /\ At(r, "logout", "sent")
    /\ Answer(r, Nil)
    /\ UNCHANGED <<server, clients, tangled>>

(* Without a cookie, or with one Redis does not know, only the cookie goes. *)
Logout(r) ==
    /\ At(r, "logout", "sent")
    /\ \/ \E t \in Tokens : t = call[r].cookie /\ Server!Logout(r, t) /\ Serve(r)
       \/ /\ \A t \in Tokens : Live(t) => t # call[r].cookie
          /\ Answer(r, Nil)
          /\ UNCHANGED server
    /\ UNCHANGED <<clients, tangled>>

(* logout_all, and change_password after its commit. *)
LogoutAll(c, r, u) ==
    /\ u \in Bearer(c)
    /\ Open(r, c, "logoutAll", u, Nil, "served")
    /\ Server!RevokeAll(r, u)
    /\ Entangle(c)
    /\ UNCHANGED clients

(* reset_password after its commit: no bearer, and no cookie to clear. *)
Reset(r, u) ==
    /\ Open(r, Nil, "reset", u, Nil, "served")
    /\ Server!RevokeAll(r, u)
    /\ UNCHANGED <<clients, tangled>>

ReadFamily(r) ==
    /\ \E s \in Sessions : Server!ReadFamily(r, s)
    /\ UNCHANGED <<clients, call, tangled>>

DropFamily(r) ==
    /\ Server!DropFamily(r)
    /\ CASE call[r].op = "logout"  -> Answer(r, Nil)
         [] call[r].op = "refresh" -> Fail(r)
         [] OTHER                  -> UNCHANGED call
    /\ UNCHANGED <<clients, tangled>>

ClearIndex(r) ==
    /\ Server!ClearIndex(r)
    /\ IF call[r].op = "reset" THEN Fail(r) ELSE Answer(r, Nil)
    /\ UNCHANGED <<clients, tangled>>

Abort(r) ==
    /\ Server!Abort(r)
    /\ Fail(r)
    /\ tangled' = tangled \cup ({call[r].client} \ {Nil})
    /\ UNCHANGED clients

-----------------------------------------------------------------------------
ExpireToken(t) ==
    /\ Server!ExpireToken(t)
    /\ lapsed' = lapsed \cup {t}
    /\ UNCHANGED <<jar, call, holder, tangled, forsaken>>

(* A cookie has the lifetime of its token and is set later. *)
ExpireCookie(c) ==
    /\ jar[c] # Nil
    /\ ~Live(jar[c])
    /\ jar' = [jar EXCEPT ![c] = Nil]
    /\ UNCHANGED <<server, call, holder, tangled, forsaken, lapsed>>

-----------------------------------------------------------------------------
Revoke(r) == ReadFamily(r) \/ DropFamily(r) \/ ClearIndex(r)

Handle(r) ==
    \/ Rotate(r) \/ Logout(r)
    \/ Revoke(r)
    \/ \E t \in Tokens : Reissue(r, t)

Next ==
    \/ \E c \in Clients, r \in Requests :
          \/ Send(c, r)
          \/ \E s \in Sessions, t \in Tokens : Login(c, r, s, t)
          \/ \E u \in Users : LogoutAll(c, r, u)
    \/ \E r \in Requests, u \in Users : Reset(r, u)
    \/ \E r \in Requests : Handle(r) \/ Receive(r) \/ Lose(r) \/ Abort(r)
    \/ \E t \in Tokens : ExpireToken(t)
    \/ \E c \in Clients : ExpireCookie(c)

Spec == Init /\ [][Next]_vars

-----------------------------------------------------------------------------
(* Every variable holds values of its shape, and the request behind a call *)
(* runs exactly while the call is being served.                            *)
TypeOK ==
    /\ Server!TypeOK
    /\ jar \in [Clients -> Tokens \cup {Nil}]
    /\ call \in [Requests -> Call \cup {Nil}]
    /\ holder \in [Tokens -> Clients \cup {Nil}]
    /\ tangled \subseteq Clients
    /\ forsaken \subseteq Sessions
    /\ lapsed \subseteq Tokens
    /\ \A r \in Requests :
          req[r].pc # "idle" <=> call[r] # Nil /\ call[r].stage = "served"

(* refresh: reuse detection strikes nobody who kept to one call at a time  *)
(* and got every answer.  Whatever other clients, expiries and revocations *)
(* do, such a client never presents a token it has already used.           *)
NoFalseAlarm ==
    \A r \in Requests :
        call[r] # Nil /\ call[r].op = "refresh" /\ Server!Revoking(r)
            => call[r].client \in tangled

(* logout, logout_all, login: a live token is where its user can get at    *)
(* it.  Unless its client got tangled, logged in over it or logged another *)
(* user out over it, or it was issued against a revocation, it is in the   *)
(* jar or in the answer on its way there; so once the cookie is cleared,   *)
(* the session is over.                                                    *)
NoOrphan ==
    \A t \in Tokens :
        Live(t) /\ t \notin raced /\ holder[t] \notin tangled
            /\ origin[t] \notin forsaken
        => \/ jar[holder[t]] = t
           \/ \E r \in CallsOf(holder[t]) : call[r].answer = t

(* A client that keeps to one call at a time and waits for none has a      *)
(* cookie that works, however others log in, refresh and log out: only the *)
(* expiry of its token or a revocation of its own session takes that away. *)
(* test_auth_unit.py: a logout does not revoke another device's family.    *)
CookieWorks ==
    \A c \in Clients \ tangled :
        CallsOf(c) = {} /\ jar[c] # Nil
        => \/ Live(jar[c])
           \/ jar[c] \in lapsed
           \/ origin[jar[c]] \in revoked
=============================================================================
