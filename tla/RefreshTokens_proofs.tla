------------------------ MODULE RefreshTokens_proofs ------------------------
(***************************************************************************)
(* Proofs about RefreshTokens for every number of users, sessions, tokens  *)
(* and concurrent requests.                                                *)
(***************************************************************************)
EXTENDS RefreshTokens, TLAPS

-----------------------------------------------------------------------------
(* The inductive invariant, in named parts.                                *)

(* A token that is live, or remembered as rotated, or listed in a family,  *)
(* was issued for that family; a refresh under way belongs to a session    *)
(* somebody logged in to.                                                  *)
OriginsAgree ==
    /\ \A t \in Tokens : Live(t) => origin[t] = refresh[t]
    /\ \A t \in Tokens : reuse[t] # Nil => origin[t] = reuse[t]
    /\ \A s \in Sessions : \A t \in members[s] : origin[t] = s
    /\ \A r \in Requests : req[r].pc = "reissue" => ~Unborn(req[r].session)

(* A request about to drop a family read the digests of that family and    *)
(* still has it on its list.                                               *)
RequestsAgree ==
    \A r \in Requests : req[r].pc = "drop" =>
        /\ req[r].session \in req[r].todo
        /\ \A t \in req[r].digests : origin[t] = req[r].session

(* A live token issued outside every revocation: both indexes list it, and *)
(* every revocation that concerns it has it on its list.                   *)
Tracked(t) ==
    LET s == refresh[t] IN
    /\ t \in members[s]
    /\ s \in index[UserOf[s]]
    /\ s \notin revoked
    /\ \A r \in Requests :
          /\ req[r].pc = "drop" /\ req[r].session = s => t \in req[r].digests
          /\ Revoking(r) /\ req[r].op = "revokeAll" /\ req[r].user = UserOf[s]
                => s \in req[r].todo

AllTracked == \A t \in Tokens : Live(t) /\ t \notin raced => Tracked(t)

IInv == TypeOK /\ OriginsAgree /\ RequestsAgree /\ NeverForks /\ AllTracked

-----------------------------------------------------------------------------
(* Type correctness.                                                       *)

LEMMA IdleType == Idle \in Request
  BY DEF Idle, Request, Pcs, Ops

(* The shape of the requests survives the steps that change one of them.   *)
RequestsOK ==
    /\ req \in [Requests -> Request]
    /\ \A r \in Requests :
          /\ req[r].pc \in {"reissue", "drop"} => req[r].session \in Sessions
          /\ Revoking(r) /\ req[r].op = "revokeAll" => req[r].user \in Users

LEMMA SetRequest ==
  ASSUME RequestsOK, NEW r \in Requests, NEW q \in Request,
         req' = [req EXCEPT ![r] = q],
         q.pc \in {"reissue", "drop"} => q.session \in Sessions,
         q.pc \in {"read", "drop"} /\ q.op = "revokeAll" => q.user \in Users
  PROVE  RequestsOK'
  BY DEF RequestsOK, Revoking

LEMMA SetIdle ==
  ASSUME RequestsOK, NEW r \in Requests, req' = [req EXCEPT ![r] = Idle]
  PROVE  RequestsOK'
<1>1. Idle.pc = "idle"
  BY DEF Idle
<1>2. QED
  BY <1>1, IdleType, SetRequest

LEMMA BeginType ==
  ASSUME RequestsOK, NEW r \in Requests,
         NEW pc \in Pcs, NEW op \in Ops, NEW user \in Users \cup {Nil},
         NEW token \in Tokens \cup {Nil}, NEW session \in Sessions \cup {Nil},
         NEW todo \in SUBSET Sessions,
         Begin(r, pc, op, user, token, session, todo),
         pc \in {"reissue", "drop"} => session \in Sessions,
         op = "revokeAll" => user \in Users
  PROVE  RequestsOK'
<1> DEFINE q == [pc |-> pc, op |-> op, user |-> user, token |-> token,
                 session |-> session, digests |-> {}, todo |-> todo]
<1>1. /\ q \in Request
      /\ q.pc = pc /\ q.op = op /\ q.session = session /\ q.user = user
  BY DEF Request
<1>2. req' = [req EXCEPT ![r] = q]
  BY DEF Begin
<1> HIDE DEF q
<1>3. QED
  BY <1>1, <1>2, SetRequest

LEMMA ReadFamilyType ==
  ASSUME RequestsOK, members \in [Sessions -> SUBSET Tokens],
         NEW r \in Requests, NEW s \in Sessions, ReadFamily(r, s)
  PROVE  RequestsOK'
<1> DEFINE q == [req[r] EXCEPT !.pc = "drop", !.session = s,
                               !.digests = members[s]]
<1>1. req[r] \in Request
  BY DEF RequestsOK
<1>2. q \in Request
  BY <1>1 DEF Request, Pcs
<1>3. q.session \in Sessions /\ q.op = req[r].op /\ q.user = req[r].user
  BY <1>1 DEF Request
<1>4. req[r].op = "revokeAll" => req[r].user \in Users
  BY DEF RequestsOK, Revoking, ReadFamily
<1>5. req' = [req EXCEPT ![r] = q]
  BY DEF ReadFamily
<1> HIDE DEF q
<1>6. QED
  BY <1>2, <1>3, <1>4, <1>5, SetRequest

LEMMA DropFamilyType ==
  ASSUME RequestsOK, NEW r \in Requests, DropFamily(r)
  PROVE  RequestsOK'
<1> DEFINE q == [req[r] EXCEPT !.pc = "read", !.session = Nil, !.digests = {},
                               !.todo = @ \ {req[r].session}]
<1>1. req[r] \in Request /\ req[r].pc = "drop"
  BY DEF RequestsOK, DropFamily
<1>2. CASE req[r].op = "revokeAll"
  <2>1. q \in Request /\ q.pc = "read" /\ q.user = req[r].user
    BY <1>1 DEF Request, Pcs
  <2>2. req[r].user \in Users
    BY <1>1, <1>2 DEF RequestsOK, Revoking
  <2>3. req' = [req EXCEPT ![r] = q]
    BY <1>2 DEF DropFamily, AfterDrop
  <2> HIDE DEF q
  <2>4. QED
    BY <2>1, <2>2, <2>3, SetRequest
<1>3. CASE req[r].op # "revokeAll"
  BY <1>3, SetIdle DEF DropFamily, AfterDrop
<1>4. QED
  BY <1>2, <1>3

LEMMA TypeStep ==
  ASSUME TypeOK, [Next]_vars
  PROVE  TypeOK'
<1> USE UserOfAssumption, IdleType
<1>0. RequestsOK
  BY DEF RequestsOK, TypeOK
<1> USE <1>0 DEF TypeOK, redis, history
<1>1. ASSUME NEW s \in Sessions, NEW t \in Tokens, Login(s, t)
      PROVE  TypeOK'
  BY <1>1 DEF Login, Issue, Revoking
<1>2. ASSUME NEW r \in Requests, NEW t \in Tokens, Rotate(r, t)
      PROVE  TypeOK'
  <2>0. /\ refresh[t] \in Sessions
        /\ Begin(r, "reissue", "refresh", Nil, t, refresh[t], {})
    BY <1>2 DEF Rotate, Live
  <2>1. RequestsOK'
    <3>1. "reissue" \in Pcs /\ "refresh" \in Ops /\ {} \in SUBSET Sessions
      BY <2>0 DEF Pcs, Ops
    <3>2. QED
      BY <2>0, <3>1, BeginType
  <2>2. QED
    BY <1>2, <2>1 DEF Rotate, RequestsOK
<1>3. ASSUME NEW r \in Requests, NEW t \in Tokens, DetectReuse(r, t)
      PROVE  TypeOK'
  <2>0. /\ reuse[t] \in Sessions
        /\ Begin(r, "read", "refresh", Nil, t, Nil, {reuse[t]})
    BY <1>3 DEF DetectReuse
  <2>1. RequestsOK'
    <3>1. "read" \in Pcs /\ "refresh" \in Ops /\ {reuse[t]} \in SUBSET Sessions
      BY <2>0 DEF Pcs, Ops
    <3>2. QED
      BY <2>0, <3>1, BeginType
  <2>2. QED
    BY <1>3, <2>1 DEF DetectReuse, RequestsOK
<1>4. ASSUME NEW r \in Requests, NEW t \in Tokens, Reissue(r, t)
      PROVE  TypeOK'
  <2>1. RequestsOK'
    BY <1>4, SetIdle DEF Reissue
  <2>2. req[r].session \in Sessions
    BY <1>4 DEF Reissue
  <2>3. QED
    BY <1>4, <2>1, <2>2 DEF Reissue, Issue, RequestsOK
<1>5. ASSUME NEW r \in Requests, NEW t \in Tokens, Logout(r, t)
      PROVE  TypeOK'
  <2>0. /\ refresh[t] \in Sessions
        /\ Begin(r, "read", "logout", Nil, t, Nil, {refresh[t]})
    BY <1>5 DEF Logout, Live
  <2>1. RequestsOK'
    <3>1. /\ "read" \in Pcs /\ "logout" \in Ops
            /\ {refresh[t]} \in SUBSET Sessions
            /\ "read" \notin {"reissue", "drop"} /\ "logout" # "revokeAll"
            /\ Nil \in Users \cup {Nil} /\ t \in Tokens \cup {Nil}
            /\ Nil \in Sessions \cup {Nil}
      BY <2>0 DEF Pcs, Ops
    <3>2. QED
      BY <2>0, <3>1, BeginType
  <2>2. QED
    BY <1>5, <2>1 DEF Logout, RequestsOK
<1>6. ASSUME NEW r \in Requests, NEW u \in Users, RevokeAll(r, u)
      PROVE  TypeOK'
  <2>1. RequestsOK'
    BY <1>6, BeginType DEF RevokeAll, Pcs, Ops
  <2>2. QED
    BY <1>6, <2>1 DEF RevokeAll, RequestsOK
<1>7. ASSUME NEW r \in Requests, NEW s \in Sessions, ReadFamily(r, s)
      PROVE  TypeOK'
  <2>1. RequestsOK'
    BY <1>7, ReadFamilyType
  <2>2. QED
    BY <1>7, <2>1 DEF ReadFamily, RequestsOK
<1>8. ASSUME NEW r \in Requests, DropFamily(r)
      PROVE  TypeOK'
  <2>1. RequestsOK'
    BY <1>8, DropFamilyType
  <2>2. req[r].session \in Sessions
    BY <1>8 DEF DropFamily
  <2>3. QED
    BY <1>8, <2>1, <2>2 DEF DropFamily, RequestsOK
<1>9. ASSUME NEW r \in Requests, ClearIndex(r)
      PROVE  TypeOK'
  <2>1. RequestsOK'
    BY <1>9, SetIdle DEF ClearIndex
  <2>2. QED
    BY <1>9, <2>1 DEF ClearIndex, RequestsOK
<1>10. ASSUME NEW r \in Requests, Abort(r)
       PROVE  TypeOK'
  <2>1. RequestsOK'
    BY <1>10, SetIdle DEF Abort
  <2>2. QED
    BY <1>10, <2>1 DEF Abort, RequestsOK
<1>11. ASSUME NEW t \in Tokens, Refuse(t) \/ ExpireToken(t) \/ ExpireReuse(t)
       PROVE  TypeOK'
  BY <1>11 DEF Refuse, ExpireToken, ExpireReuse, vars, Revoking
<1>12. ASSUME NEW s \in Sessions, ExpireFamily(s)
       PROVE  TypeOK'
  BY <1>12 DEF ExpireFamily, Revoking
<1>13. ASSUME NEW u \in Users, ExpireIndex(u)
       PROVE  TypeOK'
  BY <1>13 DEF ExpireIndex, Revoking
<1>14. CASE UNCHANGED vars
  BY <1>14 DEF vars, Revoking
<1>15. QED
  BY <1>1, <1>2, <1>3, <1>4, <1>5, <1>6, <1>7, <1>8, <1>9, <1>10, <1>11,
     <1>12, <1>13, <1>14 DEF Next, Revoke

(* Every variable keeps its shape: Redis keys, requests and history hold   *)
(* what TypeOK says in every reachable state.                              *)
THEOREM TypeCorrect == Spec => []TypeOK
<1>1. Init => TypeOK
  BY DEF Init, TypeOK, Idle, Request, Pcs, Ops, Revoking
<1>2. TypeOK /\ [Next]_vars => TypeOK'
  BY TypeStep
<1>3. QED
  BY <1>1, <1>2, PTL DEF Spec
-----------------------------------------------------------------------------
(* What each kind of step does to the fields of the requests.              *)

LEMMA BeginFields ==
  ASSUME req \in [Requests -> Request], NEW r \in Requests,
         NEW pc, NEW op, NEW user, NEW token, NEW session, NEW todo,
         Begin(r, pc, op, user, token, session, todo)
  PROVE  /\ req[r].pc = "idle"
         /\ req'[r].pc = pc /\ req'[r].op = op /\ req'[r].user = user
         /\ req'[r].session = session /\ req'[r].digests = {}
         /\ req'[r].todo = todo
         /\ \A q \in Requests : q # r => req'[q] = req[q]
  BY DEF Begin

LEMMA IdleFields ==
  ASSUME req \in [Requests -> Request], NEW r \in Requests,
         req' = [req EXCEPT ![r] = Idle]
  PROVE  /\ req'[r].pc = "idle"
         /\ \A q \in Requests : q # r => req'[q] = req[q]
  BY DEF Idle

LEMMA ReadFields ==
  ASSUME req \in [Requests -> Request],
         NEW r \in Requests, NEW s \in Sessions, ReadFamily(r, s)
  PROVE  /\ req[r].pc = "read" /\ req'[r].pc = "drop"
         /\ req'[r].op = req[r].op /\ req'[r].user = req[r].user
         /\ req'[r].session = s /\ req'[r].digests = members[s]
         /\ req'[r].todo = req[r].todo /\ s \in req[r].todo
         /\ \A q \in Requests : q # r => req'[q] = req[q]
<1>1. req[r] \in Request
  OBVIOUS
<1>2. QED
  BY <1>1 DEF ReadFamily, Request

LEMMA DropFields ==
  ASSUME req \in [Requests -> Request], NEW r \in Requests, DropFamily(r)
  PROVE  /\ req[r].pc = "drop"
         /\ req'[r].pc \in {"idle", "read"}
         /\ req'[r].pc = "read" =>
               /\ req'[r].op = req[r].op /\ req'[r].user = req[r].user
               /\ req'[r].todo = req[r].todo \ {req[r].session}
         /\ \A q \in Requests : q # r => req'[q] = req[q]
<1>1. req[r] \in Request
  OBVIOUS
<1>2. req'[r] = AfterDrop(req[r])
  BY DEF DropFamily
<1>3. QED
  BY <1>1, <1>2 DEF DropFamily, AfterDrop, Request, Idle

-----------------------------------------------------------------------------
(* The parts of the invariant, one lemma each.                             *)

LEMMA IssueOrigins ==
  ASSUME TypeOK, OriginsAgree, NEW s \in Sessions, NEW t \in Tokens, Issue(s, t)
  PROVE  /\ \A x \in Tokens : Live(x)' => origin'[x] = refresh'[x]
         /\ \A x \in Tokens : reuse'[x] # Nil => origin'[x] = reuse'[x]
         /\ \A y \in Sessions : \A x \in members'[y] : origin'[x] = y
         /\ \A y \in Sessions : ~Unborn(y) => ~Unborn(y)'
<1> USE NilAssumption DEF TypeOK, OriginsAgree, Issue, Fresh
<1>1. \A x \in Tokens : Live(x)' => origin'[x] = refresh'[x]
  BY DEF Live
<1>2. \A x \in Tokens : reuse'[x] # Nil => origin'[x] = reuse'[x]
  OBVIOUS
<1>3. \A y \in Sessions : \A x \in members'[y] : origin'[x] = y
  OBVIOUS
<1>4. \A y \in Sessions : ~Unborn(y) => ~Unborn(y)'
  BY DEF Unborn
<1>5. QED
  BY <1>1, <1>2, <1>3, <1>4

LEMMA OriginsStep ==
  ASSUME IInv, [Next]_vars
  PROVE  OriginsAgree'
<1> USE NilAssumption DEF IInv, TypeOK, OriginsAgree, redis, history, Live, Unborn
<1>1. ASSUME NEW s \in Sessions, NEW t \in Tokens, Login(s, t)
      PROVE  OriginsAgree'
  BY <1>1, IssueOrigins DEF Login
<1>2. ASSUME NEW r \in Requests, NEW t \in Tokens, Rotate(r, t)
      PROVE  OriginsAgree'
  <2>1. /\ req'[r].session = refresh[t]
        /\ \A q \in Requests : q # r => req'[q] = req[q]
    BY <1>2, BeginFields DEF Rotate
  <2>2. QED
    BY <1>2, <2>1 DEF Rotate
<1>3. ASSUME NEW r \in Requests, NEW t \in Tokens, DetectReuse(r, t)
      PROVE  OriginsAgree'
  <2>1. /\ req'[r].pc = "read"
        /\ \A q \in Requests : q # r => req'[q] = req[q]
    BY <1>3, BeginFields DEF DetectReuse
  <2>2. QED
    BY <1>3, <2>1 DEF DetectReuse
<1>4. ASSUME NEW r \in Requests, NEW t \in Tokens, Reissue(r, t)
      PROVE  OriginsAgree'
  <2>1. /\ req[r].session \in Sessions
        /\ req'[r].pc = "idle"
        /\ \A q \in Requests : q # r => req'[q] = req[q]
    BY <1>4, IdleFields DEF Reissue
  <2>2. QED
    BY <1>4, <2>1, IssueOrigins DEF Reissue
<1>5. ASSUME NEW r \in Requests, NEW t \in Tokens, Logout(r, t)
      PROVE  OriginsAgree'
  <2>1. /\ req'[r].pc = "read"
        /\ \A q \in Requests : q # r => req'[q] = req[q]
    BY <1>5, BeginFields DEF Logout
  <2>2. QED
    BY <1>5, <2>1 DEF Logout
<1>6. ASSUME NEW r \in Requests, NEW u \in Users, RevokeAll(r, u)
      PROVE  OriginsAgree'
  <2>1. /\ req'[r].pc = "read"
        /\ \A q \in Requests : q # r => req'[q] = req[q]
    BY <1>6, BeginFields DEF RevokeAll
  <2>2. QED
    BY <1>6, <2>1 DEF RevokeAll
<1>7. ASSUME NEW r \in Requests, NEW s \in Sessions, ReadFamily(r, s)
      PROVE  OriginsAgree'
  <2>1. /\ req'[r].pc = "drop"
        /\ \A q \in Requests : q # r => req'[q] = req[q]
    BY <1>7, ReadFields
  <2>2. QED
    BY <1>7, <2>1 DEF ReadFamily
<1>8. ASSUME NEW r \in Requests, DropFamily(r)
      PROVE  OriginsAgree'
  <2>1. /\ req'[r].pc # "reissue"
        /\ \A q \in Requests : q # r => req'[q] = req[q]
    BY <1>8, DropFields
  <2>2. /\ \A t \in Tokens : refresh'[t] \in {Nil, refresh[t]}
        /\ \A t \in Tokens : reuse'[t] \in {Nil, reuse[t]}
        /\ \A s \in Sessions : members'[s] \subseteq members[s]
        /\ UNCHANGED origin
    BY <1>8 DEF DropFamily
  <2>3. QED
    BY <2>1, <2>2
<1>9. ASSUME NEW r \in Requests, ClearIndex(r) \/ Abort(r)
      PROVE  OriginsAgree'
  <2>1. /\ req'[r].pc = "idle"
        /\ \A q \in Requests : q # r => req'[q] = req[q]
    BY <1>9, IdleFields DEF ClearIndex, Abort
  <2>2. QED
    BY <1>9, <2>1 DEF ClearIndex, Abort
<1>10. ASSUME NEW t \in Tokens, Refuse(t) \/ ExpireToken(t) \/ ExpireReuse(t)
       PROVE  OriginsAgree'
  BY <1>10 DEF Refuse, ExpireToken, ExpireReuse, vars
<1>11. ASSUME NEW s \in Sessions, ExpireFamily(s)
       PROVE  OriginsAgree'
  BY <1>11 DEF ExpireFamily
<1>12. ASSUME NEW u \in Users, ExpireIndex(u)
       PROVE  OriginsAgree'
  BY <1>12 DEF ExpireIndex
<1>13. CASE UNCHANGED vars
  BY <1>13 DEF vars
<1>14. QED
  BY <1>1, <1>2, <1>3, <1>4, <1>5, <1>6, <1>7, <1>8, <1>9, <1>10, <1>11,
     <1>12, <1>13 DEF Next, Revoke

LEMMA RequestsStep ==
  ASSUME IInv, [Next]_vars
  PROVE  RequestsAgree'
<1> USE NilAssumption DEF IInv, TypeOK, RequestsAgree, redis, history
<1>0. ASSUME NEW s \in Sessions, NEW t \in Tokens, Issue(s, t),
             NEW r \in Requests, req[r].pc = "drop",
             NEW x \in req[r].digests
      PROVE  origin'[x] = origin[x]
  <2>1. req[r].digests \subseteq Tokens /\ req[r].session \in Sessions
    BY <1>0 DEF Request
  <2>2. origin[x] = req[r].session
    BY <1>0
  <2>3. QED
    BY <1>0, <2>1, <2>2 DEF Issue, Fresh
<1>1. ASSUME NEW s \in Sessions, NEW t \in Tokens, Login(s, t)
      PROVE  RequestsAgree'
  BY <1>0, <1>1 DEF Login
<1>2. ASSUME NEW r \in Requests, NEW t \in Tokens, Rotate(r, t)
      PROVE  RequestsAgree'
  <2>1. /\ req'[r].pc = "reissue"
        /\ \A q \in Requests : q # r => req'[q] = req[q]
    BY <1>2, BeginFields DEF Rotate
  <2>2. QED
    BY <1>2, <2>1 DEF Rotate
<1>3. ASSUME NEW r \in Requests, NEW t \in Tokens, DetectReuse(r, t)
      PROVE  RequestsAgree'
  <2>1. /\ req'[r].pc = "read"
        /\ \A q \in Requests : q # r => req'[q] = req[q]
    BY <1>3, BeginFields DEF DetectReuse
  <2>2. QED
    BY <1>3, <2>1 DEF DetectReuse
<1>4. ASSUME NEW r \in Requests, NEW t \in Tokens, Reissue(r, t)
      PROVE  RequestsAgree'
  <2>1. /\ req[r].session \in Sessions
        /\ req'[r].pc = "idle"
        /\ \A q \in Requests : q # r => req'[q] = req[q]
    BY <1>4, IdleFields DEF Reissue
  <2>2. QED
    BY <1>0, <1>4, <2>1 DEF Reissue
<1>5. ASSUME NEW r \in Requests, NEW t \in Tokens, Logout(r, t)
      PROVE  RequestsAgree'
  <2>1. /\ req'[r].pc = "read"
        /\ \A q \in Requests : q # r => req'[q] = req[q]
    BY <1>5, BeginFields DEF Logout
  <2>2. QED
    BY <1>5, <2>1 DEF Logout
<1>6. ASSUME NEW r \in Requests, NEW u \in Users, RevokeAll(r, u)
      PROVE  RequestsAgree'
  <2>1. /\ req'[r].pc = "read"
        /\ \A q \in Requests : q # r => req'[q] = req[q]
    BY <1>6, BeginFields DEF RevokeAll
  <2>2. QED
    BY <1>6, <2>1 DEF RevokeAll
<1>7. ASSUME NEW r \in Requests, NEW s \in Sessions, ReadFamily(r, s)
      PROVE  RequestsAgree'
  <2>1. /\ req'[r].session = s /\ req'[r].digests = members[s]
        /\ s \in req'[r].todo
        /\ \A q \in Requests : q # r => req'[q] = req[q]
    BY <1>7, ReadFields
  <2>2. \A t \in members[s] : origin[t] = s
    BY DEF OriginsAgree
  <2>3. QED
    BY <1>7, <2>1, <2>2 DEF ReadFamily
<1>8. ASSUME NEW r \in Requests, DropFamily(r)
      PROVE  RequestsAgree'
  <2>1. /\ req'[r].pc # "drop"
        /\ \A q \in Requests : q # r => req'[q] = req[q]
        /\ UNCHANGED origin
    BY <1>8, DropFields DEF DropFamily
  <2>2. QED
    BY <2>1
<1>9. ASSUME NEW r \in Requests, ClearIndex(r) \/ Abort(r)
      PROVE  RequestsAgree'
  <2>1. /\ req'[r].pc = "idle"
        /\ \A q \in Requests : q # r => req'[q] = req[q]
    BY <1>9, IdleFields DEF ClearIndex, Abort
  <2>2. QED
    BY <1>9, <2>1 DEF ClearIndex, Abort
<1>10. CASE UNCHANGED <<req, origin>>
  BY <1>10
<1>11. QED
  BY <1>1, <1>2, <1>3, <1>4, <1>5, <1>6, <1>7, <1>8, <1>9, <1>10
     DEF Next, Revoke, Refuse, ExpireToken, ExpireReuse, ExpireFamily,
         ExpireIndex, vars

LEMMA NeverForksStep ==
  ASSUME IInv, [Next]_vars
  PROVE  NeverForks'
<1> USE NilAssumption DEF IInv, TypeOK, NeverForks, LiveTokens, Reissuing,
                          redis, history
<1>1. ASSUME NEW s \in Sessions, NEW t \in Tokens, Login(s, t)
      PROVE  NeverForks'
  <2>1. LiveTokens(s) = {} /\ Reissuing(s) = {}
    BY <1>1 DEF Login, Unborn, OriginsAgree, Live
  <2>2. QED
    BY <1>1, <2>1 DEF Login, Issue
<1>2. ASSUME NEW r \in Requests, NEW t \in Tokens, Rotate(r, t)
      PROVE  NeverForks'
  <2>1. /\ req[r].pc = "idle" /\ req'[r].session = refresh[t]
        /\ \A q \in Requests : q # r => req'[q] = req[q]
    BY <1>2, BeginFields DEF Rotate
  <2>2. QED
    BY <1>2, <2>1 DEF Rotate, Live
<1>3. ASSUME NEW r \in Requests, NEW t \in Tokens, DetectReuse(r, t)
      PROVE  NeverForks'
  <2>1. /\ req'[r].pc = "read"
        /\ \A q \in Requests : q # r => req'[q] = req[q]
    BY <1>3, BeginFields DEF DetectReuse
  <2>2. QED
    BY <1>3, <2>1 DEF DetectReuse
<1>4. ASSUME NEW r \in Requests, NEW t \in Tokens, Reissue(r, t)
      PROVE  NeverForks'
  <2>1. /\ req[r].session \in Sessions
        /\ req[r].pc = "reissue" /\ req'[r].pc = "idle"
        /\ \A q \in Requests : q # r => req'[q] = req[q]
    BY <1>4, IdleFields DEF Reissue
  <2>2. QED
    BY <1>4, <2>1 DEF Reissue, Issue
<1>5. ASSUME NEW r \in Requests, NEW t \in Tokens, Logout(r, t)
      PROVE  NeverForks'
  <2>1. /\ req'[r].pc = "read"
        /\ \A q \in Requests : q # r => req'[q] = req[q]
    BY <1>5, BeginFields DEF Logout
  <2>2. QED
    BY <1>5, <2>1 DEF Logout
<1>6. ASSUME NEW r \in Requests, NEW u \in Users, RevokeAll(r, u)
      PROVE  NeverForks'
  <2>1. /\ req'[r].pc = "read"
        /\ \A q \in Requests : q # r => req'[q] = req[q]
    BY <1>6, BeginFields DEF RevokeAll
  <2>2. QED
    BY <1>6, <2>1 DEF RevokeAll
<1>7. ASSUME NEW r \in Requests, NEW s \in Sessions, ReadFamily(r, s)
      PROVE  NeverForks'
  <2>1. /\ req'[r].pc = "drop"
        /\ \A q \in Requests : q # r => req'[q] = req[q]
    BY <1>7, ReadFields
  <2>2. QED
    BY <1>7, <2>1 DEF ReadFamily
<1>8. ASSUME NEW r \in Requests, DropFamily(r)
      PROVE  NeverForks'
  <2>1. /\ req'[r].pc # "reissue"
        /\ \A q \in Requests : q # r => req'[q] = req[q]
    BY <1>8, DropFields
  <2>2. \A t \in Tokens : refresh'[t] \in {Nil, refresh[t]}
    BY <1>8 DEF DropFamily
  <2>3. QED
    BY <2>1, <2>2
<1>9. ASSUME NEW r \in Requests, ClearIndex(r) \/ Abort(r)
      PROVE  NeverForks'
  <2>1. /\ req'[r].pc = "idle"
        /\ \A q \in Requests : q # r => req'[q] = req[q]
    BY <1>9, IdleFields DEF ClearIndex, Abort
  <2>2. QED
    BY <1>9, <2>1 DEF ClearIndex, Abort
<1>10. ASSUME NEW t \in Tokens, ExpireToken(t)
       PROVE  NeverForks'
  BY <1>10 DEF ExpireToken
<1>11. CASE UNCHANGED <<refresh, req>>
  BY <1>11
<1>12. QED
  BY <1>1, <1>2, <1>3, <1>4, <1>5, <1>6, <1>7, <1>8, <1>9, <1>10, <1>11
     DEF Next, Revoke, Refuse, ExpireReuse, ExpireFamily, ExpireIndex, vars

(* A token issued now is tracked at once or counts as raced.               *)
LEMMA IssueTracked ==
  ASSUME TypeOK, RequestsAgree, NEW s \in Sessions, NEW t \in Tokens, Issue(s, t),
         t \notin raced'
  PROVE  /\ ~Contended(s)
         /\ t \in members'[s] /\ s \in index'[UserOf[s]]
         /\ \A r \in Requests :
               /\ ~(req[r].pc = "drop" /\ req[r].session = s)
               /\ ~(Revoking(r) /\ req[r].op = "revokeAll"
                                 /\ req[r].user = UserOf[s])
<1> USE UserOfAssumption DEF TypeOK, Issue
<1>1. ~Contended(s)
  OBVIOUS
<1>2. t \in members'[s] /\ s \in index'[UserOf[s]]
  OBVIOUS
<1>3. ASSUME NEW r \in Requests, req[r].pc = "drop", req[r].session = s
      PROVE  FALSE
  BY <1>1, <1>3 DEF Contended, Revoking, RequestsAgree
<1>4. ASSUME NEW r \in Requests, Revoking(r), req[r].op = "revokeAll",
             req[r].user = UserOf[s]
      PROVE  FALSE
  BY <1>1, <1>4 DEF Contended
<1>5. QED
  BY <1>1, <1>2, <1>3, <1>4

LEMMA TrackedStep ==
  ASSUME IInv, [Next]_vars
  PROVE  AllTracked'
<1> USE NilAssumption, UserOfAssumption
<1> USE DEF IInv, AllTracked
<1> SUFFICES ASSUME NEW x \in Tokens, Live(x)', x \notin raced'
             PROVE  Tracked(x)'
  OBVIOUS
<1>a. TypeOK
  OBVIOUS
(* A step that leaves x where it was keeps it tracked if it shrinks neither *)
(* index for x and changes no request but r, and r keeps x on its lists.    *)
<1>b. ASSUME Live(x), refresh'[x] = refresh[x], raced \subseteq raced',
             revoked' = revoked,
             x \in members[refresh[x]] => x \in members'[refresh[x]],
             refresh[x] \in index[UserOf[refresh[x]]]
                => refresh[x] \in index'[UserOf[refresh[x]]],
             NEW r \in Requests,
             \A q \in Requests : q # r => req'[q] = req[q],
             Tracked(x) =>
                /\ req'[r].pc = "drop" /\ req'[r].session = refresh[x]
                      => x \in req'[r].digests
                /\ Revoking(r)' /\ req'[r].op = "revokeAll"
                      /\ req'[r].user = UserOf[refresh[x]]
                      => refresh[x] \in req'[r].todo
      PROVE  Tracked(x)'
  <2>1. Tracked(x)
    BY <1>b
  <2>2. QED
    BY <1>b, <2>1 DEF Tracked, Revoking
<1>c. ASSUME Live(x), refresh'[x] = refresh[x], raced \subseteq raced',
             revoked' = revoked,
             x \in members[refresh[x]] => x \in members'[refresh[x]],
             refresh[x] \in index[UserOf[refresh[x]]]
                => refresh[x] \in index'[UserOf[refresh[x]]],
             req' = req
      PROVE  Tracked(x)'
  <2>1. Tracked(x)
    BY <1>c
  <2>2. QED
    BY <1>c, <2>1 DEF Tracked, Revoking
<1>1. ASSUME NEW s \in Sessions, NEW t \in Tokens, Login(s, t)
      PROVE  Tracked(x)'
  <2>1. CASE x = t
    <3>1. /\ ~Contended(s)
          /\ t \in members'[s] /\ s \in index'[UserOf[s]]
          /\ \A q \in Requests :
                /\ ~(req[q].pc = "drop" /\ req[q].session = s)
                /\ ~(Revoking(q) /\ req[q].op = "revokeAll"
                                  /\ req[q].user = UserOf[s])
      BY <1>1, <1>a, <2>1, IssueTracked DEF Login
    <3>2. /\ refresh'[t] = s /\ revoked' = revoked /\ s \notin revoked
          /\ req' = req
      BY <1>1, <1>a, <3>1 DEF Login, Issue, TypeOK, Contended
    <3>3. QED
      BY <2>1, <3>1, <3>2 DEF Tracked, Revoking
  <2>2. CASE x # t
    <3>1. /\ Live(x) /\ refresh'[x] = refresh[x] /\ raced \subseteq raced'
          /\ refresh[x] \in Sessions
          /\ members[refresh[x]] \subseteq members'[refresh[x]]
          /\ index[UserOf[refresh[x]]] \subseteq index'[UserOf[refresh[x]]]
          /\ req' = req /\ revoked' = revoked
      BY <1>1, <1>a, <2>2 DEF Login, Issue, TypeOK, Live
    <3>2. QED
      BY <1>c, <3>1
  <2>3. QED
    BY <2>1, <2>2
<1>2. ASSUME NEW r \in Requests, NEW t \in Tokens, Rotate(r, t)
      PROVE  Tracked(x)'
  <2>1. /\ req'[r].pc = "reissue"
        /\ \A q \in Requests : q # r => req'[q] = req[q]
    BY <1>2, <1>a, BeginFields DEF Rotate, TypeOK
  <2>2. /\ Live(x) /\ refresh'[x] = refresh[x] /\ UNCHANGED <<members, index, history>>
    BY <1>2, <1>a DEF Rotate, TypeOK, Live
  <2>3. QED
    BY <1>b, <2>1, <2>2 DEF Revoking, history
<1>3. ASSUME NEW r \in Requests, NEW t \in Tokens, DetectReuse(r, t)
      PROVE  Tracked(x)'
  <2>1. /\ req'[r].pc = "read" /\ req'[r].op = "refresh"
        /\ \A q \in Requests : q # r => req'[q] = req[q]
    BY <1>3, <1>a, BeginFields DEF DetectReuse, TypeOK
  <2>2. Live(x) /\ UNCHANGED <<refresh, members, index, history>>
    BY <1>3 DEF DetectReuse, Live
  <2>3. QED
    BY <1>b, <2>1, <2>2 DEF history
<1>4. ASSUME NEW r \in Requests, NEW t \in Tokens, Reissue(r, t)
      PROVE  Tracked(x)'
  <2>1. /\ req[r].session \in Sessions
        /\ req'[r].pc = "idle"
        /\ \A q \in Requests : q # r => req'[q] = req[q]
        /\ Issue(req[r].session, t)
    BY <1>4, <1>a, IdleFields DEF Reissue, TypeOK
  <2>2. CASE x = t
    <3> DEFINE s == req[r].session
    <3>1. /\ ~Contended(s)
          /\ t \in members'[s] /\ s \in index'[UserOf[s]]
          /\ \A q \in Requests :
                /\ ~(req[q].pc = "drop" /\ req[q].session = s)
                /\ ~(Revoking(q) /\ req[q].op = "revokeAll"
                                  /\ req[q].user = UserOf[s])
      BY <1>a, <2>1, <2>2, IssueTracked
    <3>2. refresh'[t] = s /\ revoked' = revoked /\ s \notin revoked
      BY <1>a, <2>1, <3>1 DEF Issue, TypeOK, Contended
    <3> HIDE DEF s
    <3>3. QED
      BY <2>1, <2>2, <3>1, <3>2 DEF Tracked, Revoking
  <2>3. CASE x # t
    <3>1. /\ Live(x) /\ refresh'[x] = refresh[x] /\ raced \subseteq raced'
          /\ refresh[x] \in Sessions
          /\ members[refresh[x]] \subseteq members'[refresh[x]]
          /\ index[UserOf[refresh[x]]] \subseteq index'[UserOf[refresh[x]]]
          /\ revoked' = revoked
      BY <1>a, <2>1, <2>3 DEF Issue, TypeOK, Live
    <3>2. QED
      BY <1>b, <2>1, <3>1 DEF Revoking
  <2>4. QED
    BY <2>2, <2>3
<1>5. ASSUME NEW r \in Requests, NEW t \in Tokens, Logout(r, t)
      PROVE  Tracked(x)'
  <2>1. /\ req'[r].pc = "read" /\ req'[r].op = "logout"
        /\ \A q \in Requests : q # r => req'[q] = req[q]
    BY <1>5, <1>a, BeginFields DEF Logout, TypeOK
  <2>2. Live(x) /\ UNCHANGED <<redis, history>>
    BY <1>5 DEF Logout, Live, redis
  <2>3. QED
    BY <1>b, <2>1, <2>2 DEF redis, history
<1>6. ASSUME NEW r \in Requests, NEW u \in Users, RevokeAll(r, u)
      PROVE  Tracked(x)'
  <2>1. /\ req'[r].pc = "read" /\ req'[r].user = u /\ req'[r].todo = index[u]
        /\ \A q \in Requests : q # r => req'[q] = req[q]
    BY <1>6, <1>a, BeginFields DEF RevokeAll, TypeOK
  <2>2. Live(x) /\ UNCHANGED <<redis, history>>
    BY <1>6 DEF RevokeAll, Live, redis
  <2>3. Tracked(x) => refresh[x] \in index[UserOf[refresh[x]]]
    BY DEF Tracked
  <2>4. QED
    BY <1>b, <2>1, <2>2, <2>3 DEF redis, history
<1>7. ASSUME NEW r \in Requests, NEW s \in Sessions, ReadFamily(r, s)
      PROVE  Tracked(x)'
  <2>1. /\ req[r].pc = "read"
        /\ req'[r].op = req[r].op /\ req'[r].user = req[r].user
        /\ req'[r].session = s /\ req'[r].digests = members[s]
        /\ req'[r].todo = req[r].todo
        /\ \A q \in Requests : q # r => req'[q] = req[q]
    BY <1>7, <1>a, ReadFields DEF TypeOK
  <2>2. Live(x) /\ UNCHANGED <<redis, history>>
    BY <1>7 DEF ReadFamily, Live, redis
  <2>3. QED
    BY <1>b, <2>1, <2>2 DEF redis, history, Tracked, Revoking
<1>8. ASSUME NEW r \in Requests, DropFamily(r)
      PROVE  Tracked(x)'
  <2> DEFINE s == req[r].session
  <2>1. /\ req[r].pc = "drop" /\ s \in Sessions
        /\ req'[r].pc \in {"idle", "read"}
        /\ req'[r].pc = "read" =>
              /\ req'[r].op = req[r].op /\ req'[r].user = req[r].user
              /\ req'[r].todo = req[r].todo \ {s}
        /\ \A q \in Requests : q # r => req'[q] = req[q]
    BY <1>8, <1>a, DropFields DEF TypeOK
  <2>2. /\ Live(x) /\ refresh'[x] = refresh[x] /\ x \notin req[r].digests
        /\ x \notin raced /\ refresh[x] \in Sessions
    BY <1>8, <1>a DEF DropFamily, Live, TypeOK
  <2>3. Tracked(x)
    BY <2>2
  <2>4. refresh[x] # s
    BY <2>1, <2>2, <2>3 DEF Tracked
  <2>5. /\ members'[refresh[x]] = members[refresh[x]]
        /\ index[UserOf[refresh[x]]] \ {s} \subseteq index'[UserOf[refresh[x]]]
        /\ revoked' = revoked \cup {s}
    BY <1>8, <1>a, <2>1, <2>2, <2>4 DEF DropFamily, TypeOK
  <2> HIDE DEF s
  <2>6. ASSUME NEW q \in Requests, req'[q].pc = "drop", req'[q].session = refresh[x]
        PROVE  x \in req'[q].digests
    BY <2>1, <2>3, <2>6 DEF Tracked
  <2>7. ASSUME NEW q \in Requests, Revoking(q)', req'[q].op = "revokeAll",
               req'[q].user = UserOf[refresh[x]]
        PROVE  refresh[x] \in req'[q].todo
    BY <2>1, <2>3, <2>4, <2>7 DEF Tracked, Revoking
  <2>8. QED
    BY <2>2, <2>3, <2>4, <2>5, <2>6, <2>7 DEF Tracked
<1>9. ASSUME NEW r \in Requests, ClearIndex(r)
      PROVE  Tracked(x)'
  <2>1. /\ req'[r].pc = "idle"
        /\ \A q \in Requests : q # r => req'[q] = req[q]
    BY <1>9, <1>a, IdleFields DEF ClearIndex, TypeOK
  <2>2. Live(x) /\ UNCHANGED <<refresh, members, history>> /\ refresh[x] \in Sessions
    BY <1>9, <1>a DEF ClearIndex, Live, TypeOK
  <2>3. req[r].user # UserOf[refresh[x]]
    BY <1>9, <2>2 DEF ClearIndex, Tracked, Revoking, history
  <2>4. index'[UserOf[refresh[x]]] = index[UserOf[refresh[x]]]
    BY <1>9, <1>a, <2>2, <2>3 DEF ClearIndex, TypeOK
  <2>5. QED
    BY <1>b, <2>1, <2>2, <2>4 DEF Revoking, history
<1>10. ASSUME NEW r \in Requests, Abort(r)
       PROVE  Tracked(x)'
  <2>1. /\ req'[r].pc = "idle"
        /\ \A q \in Requests : q # r => req'[q] = req[q]
    BY <1>10, <1>a, IdleFields DEF Abort, TypeOK
  <2>2. Live(x) /\ UNCHANGED <<redis, history>>
    BY <1>10 DEF Abort, Live, redis
  <2>3. QED
    BY <1>b, <2>1, <2>2 DEF Revoking, redis, history
<1>11. ASSUME NEW t \in Tokens, ExpireToken(t) \/ ExpireReuse(t)
       PROVE  Tracked(x)'
  <2>1. /\ Live(x) /\ refresh'[x] = refresh[x]
        /\ UNCHANGED <<members, index, req, history>>
    BY <1>11, <1>a DEF ExpireToken, ExpireReuse, Live, TypeOK
  <2>2. QED
    BY <1>c, <2>1 DEF history
<1>12. ASSUME NEW s \in Sessions, ExpireFamily(s)
       PROVE  Tracked(x)'
  <2>1. /\ Live(x) /\ refresh[x] # s /\ refresh[x] \in Sessions
        /\ UNCHANGED <<refresh, index, req, history>>
    BY <1>12, <1>a DEF ExpireFamily, Live, TypeOK
  <2>2. members'[refresh[x]] = members[refresh[x]]
    BY <1>12, <1>a, <2>1 DEF ExpireFamily, TypeOK
  <2>3. QED
    BY <1>c, <2>1, <2>2 DEF history
<1>13. ASSUME NEW u \in Users, ExpireIndex(u)
       PROVE  Tracked(x)'
  <2>1. /\ Live(x) /\ UserOf[refresh[x]] # u /\ refresh[x] \in Sessions
        /\ UNCHANGED <<refresh, members, req, history>>
    BY <1>13, <1>a DEF ExpireIndex, Live, TypeOK
  <2>2. index'[UserOf[refresh[x]]] = index[UserOf[refresh[x]]]
    BY <1>13, <1>a, <2>1 DEF ExpireIndex, TypeOK
  <2>3. QED
    BY <1>c, <2>1, <2>2 DEF history
<1>14. CASE UNCHANGED vars
  <2>1. Live(x) /\ UNCHANGED <<refresh, members, index, req, history>>
    BY <1>14 DEF vars, history, Live
  <2>2. QED
    BY <1>c, <2>1 DEF history
<1>15. QED
  BY <1>1, <1>2, <1>3, <1>4, <1>5, <1>6, <1>7, <1>8, <1>9, <1>10, <1>11,
     <1>12, <1>13, <1>14 DEF Next, Revoke, Refuse

LEMMA InvInit == Init => IInv
<1> SUFFICES ASSUME Init
             PROVE  IInv
  OBVIOUS
<1>1. TypeOK
  BY DEF Init, TypeOK, Idle, Request, Pcs, Ops, Revoking
<1>2. OriginsAgree /\ RequestsAgree
  BY DEF Init, OriginsAgree, RequestsAgree, Live, Idle
<1>3. NeverForks
  BY NilAssumption DEF Init, NeverForks, LiveTokens, Reissuing, Idle
<1>4. AllTracked
  BY DEF Init, AllTracked, Live
<1>5. QED
  BY <1>1, <1>2, <1>3, <1>4 DEF IInv

LEMMA InvStep == IInv /\ [Next]_vars => IInv'
<1> SUFFICES ASSUME IInv, [Next]_vars
             PROVE  IInv'
  OBVIOUS
<1>1. TypeOK'
  BY TypeStep DEF IInv
<1>2. QED
  BY <1>1, OriginsStep, RequestsStep, NeverForksStep, TrackedStep DEF IInv

LEMMA InvAlways == Spec => []IInv
<1>1. QED
  BY InvInit, InvStep, PTL DEF Spec

-----------------------------------------------------------------------------
(* The results.                                                            *)

(* No interleaving of refreshes, revocations, expiries and abandoned       *)
(* requests gives a session two live tokens, or a live token beside a      *)
(* refresh that is about to issue another.                                 *)
THEOREM SessionsNeverFork == Spec => []NeverForks
<1>1. IInv => NeverForks
  BY DEF IInv
<1>2. QED
  BY <1>1, InvAlways, PTL

(* Every live token that was not issued against a revocation is listed in  *)
(* its family and its family in the index of its user.                     *)
THEOREM LiveTokensAreReachable == Spec => []ReachableUnlessRaced
<1>1. IInv => ReachableUnlessRaced
  BY DEF IInv, AllTracked, Tracked, ReachableUnlessRaced
<1>2. QED
  BY <1>1, InvAlways, PTL

(* In a session a revocation went through, only tokens issued against a    *)
(* revocation are live.                                                    *)
THEOREM RevokedSessionsStayDead == Spec => []RevokedSessionsAreDead
<1>1. IInv => RevokedSessionsAreDead
  <2> SUFFICES ASSUME IInv, NEW t \in Tokens, refresh[t] \in revoked
               PROVE  t \in raced
    BY DEF RevokedSessionsAreDead
  <2>1. Live(t)
    BY NilAssumption DEF IInv, TypeOK, Live
  <2>2. QED
    BY <2>1 DEF IInv, AllTracked, Tracked
<1>2. QED
  BY <1>1, InvAlways, PTL

(* revoke_all returns only when every token of its user that was not       *)
(* issued against a revocation is gone.                                    *)
THEOREM RevokeAllLeavesNoToken == Spec => RevokeAllIsComplete
<1>1. IInv => (\A r \in Requests : ClearIndex(r) =>
                 \A t \in Tokens :
                   Live(t) /\ UserOf[refresh[t]] = req[r].user => t \in raced)
  BY DEF IInv, AllTracked, Tracked, ClearIndex, Revoking
<1>2. QED
  BY <1>1, InvAlways, PTL DEF RevokeAllIsComplete

-----------------------------------------------------------------------------
(* Refinement: every step is a step of the session's chain or leaves all   *)
(* chains alone.                                                           *)

LEMMA HeadLive ==
  ASSUME IInv, NEW s \in Sessions, NEW t \in Tokens, refresh[t] = s
  PROVE  HeadOf(s) = t
<1>1. ~Unborn(s)
  BY NilAssumption DEF IInv, OriginsAgree, Unborn, Live
<1>2. LiveTokens(s) = {t}
  BY DEF IInv, NeverForks, LiveTokens
<1>3. QED
  BY <1>1, <1>2 DEF HeadOf

LEMMA HeadRotating ==
  ASSUME IInv, NEW r \in Requests, req[r].pc = "reissue"
  PROVE  HeadOf(req[r].session) = "rotating"
<1>1. req[r].session \in Sessions /\ ~Unborn(req[r].session)
  BY DEF IInv, TypeOK, OriginsAgree
<1>2. r \in Reissuing(req[r].session)
  BY DEF Reissuing
<1>3. LiveTokens(req[r].session) = {}
  BY <1>1, <1>2 DEF IInv, NeverForks
<1>4. QED
  BY <1>1, <1>2, <1>3 DEF HeadOf

(* The same two facts as state predicates, to be used of the next state.   *)
HeadsOfLive ==
    \A s \in Sessions, t \in Tokens : refresh[t] = s => HeadOf(s) = t
HeadsOfReissuing ==
    \A r \in Requests : req[r].pc = "reissue" => HeadOf(req[r].session) = "rotating"

LEMMA HeadsAgree == IInv => HeadsOfLive /\ HeadsOfReissuing
  BY HeadLive, HeadRotating DEF HeadsOfLive, HeadsOfReissuing

LEMMA NextHeadsAgree ==
  ASSUME IInv'
  PROVE  HeadsOfLive' /\ HeadsOfReissuing'
  BY HeadsAgree, PTL

LEMMA SameHead ==
  ASSUME NEW y \in Sessions, Unborn(y)' <=> Unborn(y),
         LiveTokens(y)' = LiveTokens(y),
         Reissuing(y)' = {} <=> Reissuing(y) = {}
  PROVE  HeadOf(y)' = HeadOf(y)
  BY DEF HeadOf

(* A step that moves the head of one session only is a chain step if the   *)
(* move of that head is.                                                   *)
Heads == [s \in Sessions |-> HeadOf(s)]

LEMMA MovesOneHead ==
  ASSUME NEW s \in Sessions, \A y \in Sessions : y # s => HeadOf(y)' = HeadOf(y)
  PROVE  Heads' = [Heads EXCEPT ![s] = HeadOf(s)']
  BY DEF Heads

LEMMA MovesNoHead ==
  ASSUME \A y \in Sessions : HeadOf(y)' = HeadOf(y)
  PROVE  Heads' = Heads
  BY DEF Heads

(* Steps of a request that touch no token: its pc is not "reissue" before  *)
(* or after, so no chain moves.                                            *)
LEMMA QuietStep ==
  ASSUME TypeOK, NEW r \in Requests, UNCHANGED <<refresh, origin>>,
         req[r].pc # "reissue", req'[r].pc # "reissue",
         \A q \in Requests : q # r => req'[q] = req[q]
  PROVE  UNCHANGED Chain!vars
<1>1. \A y \in Sessions : /\ Unborn(y)' <=> Unborn(y)
                          /\ LiveTokens(y)' = LiveTokens(y)
                          /\ Reissuing(y)' = Reissuing(y)
  BY DEF Unborn, LiveTokens, Reissuing
<1>2. Heads' = Heads
  BY <1>1, SameHead, MovesNoHead
<1>3. Minted' = Minted
  BY DEF Minted, Fresh
<1>4. QED
  BY <1>2, <1>3 DEF Chain!vars, Heads

LEMMA IssueMints ==
  ASSUME IInv, IInv', NEW s \in Sessions, NEW t \in Tokens, Issue(s, t),
         HeadOf(s) \in {"unborn", "rotating"},
         \A y \in Sessions : y # s => Reissuing(y)' = Reissuing(y)
  PROVE  Chain!Mint(s, t)
<1>1. refresh'[t] = s
  BY DEF IInv, TypeOK, Issue
<1>2. HeadOf(s)' = t
  BY <1>1, NextHeadsAgree DEF HeadsOfLive
<1>3. ASSUME NEW y \in Sessions, y # s
      PROVE  HeadOf(y)' = HeadOf(y)
  <2>1. Unborn(y)' <=> Unborn(y)
    BY <1>3, NilAssumption DEF IInv, TypeOK, Issue, Fresh, Unborn
  <2>2. refresh[t] = Nil
    BY NilAssumption DEF IInv, TypeOK, OriginsAgree, Issue, Fresh, Live
  <2>3. LiveTokens(y)' = LiveTokens(y)
    BY <1>3, <2>2, NilAssumption DEF IInv, TypeOK, Issue, LiveTokens
  <2>4. QED
    BY <1>3, <2>1, <2>3, SameHead
<1>4. Heads' = [Heads EXCEPT ![s] = t]
  BY <1>2, <1>3, MovesOneHead
<1>5. t \notin Minted /\ Minted' = Minted \cup {t}
  BY NilAssumption DEF IInv, TypeOK, Issue, Fresh, Minted
<1>6. QED
  BY <1>4, <1>5 DEF Chain!Mint, Chain!Unborn, Chain!Rotating, Heads

(* A step after which session s has neither a live token nor a refresh     *)
(* under way, though it had one before, ends the chain of s.               *)
LEMMA LosesHead ==
  ASSUME IInv, NEW s \in Sessions, UNCHANGED origin,
         HeadOf(s) \in Tokens \cup {"rotating"},
         ~Unborn(s), LiveTokens(s)' = {}, Reissuing(s)' = {},
         \A y \in Sessions : y # s =>
            LiveTokens(y)' = LiveTokens(y) /\ Reissuing(y)' = Reissuing(y)
  PROVE  Chain!End(s)
<1>1. \A y \in Sessions : Unborn(y)' <=> Unborn(y)
  BY DEF Unborn
<1>2. HeadOf(s)' = "over"
  BY <1>1 DEF HeadOf
<1>3. Heads' = [Heads EXCEPT ![s] = "over"]
  BY <1>1, <1>2, SameHead, MovesOneHead
<1>4. Minted' = Minted
  BY DEF Minted, Fresh
<1>5. QED
  BY <1>3, <1>4 DEF Chain!End, Chain!Rotating, Chain!Over, Heads

LEMMA ChainStep ==
  ASSUME IInv, IInv', [Next]_vars
  PROVE  [Chain!Next]_Chain!vars
<1>0. /\ TypeOK /\ req \in [Requests -> Request]
      /\ \A r \in Requests : req[r].pc = "reissue" => req[r].session \in Sessions
  BY DEF IInv, TypeOK
<1>1. ASSUME NEW s \in Sessions, NEW t \in Tokens, Login(s, t)
      PROVE  Chain!Next
  <2>1. HeadOf(s) = "unborn"
    BY <1>1 DEF Login, HeadOf
  <2>2. Chain!Mint(s, t)
    BY <1>1, <2>1, IssueMints DEF Login, Reissuing
  <2>3. QED
    BY <2>2 DEF Chain!Next
<1>2. ASSUME NEW r \in Requests, NEW t \in Tokens, Rotate(r, t)
      PROVE  Chain!Next
  <2>0. PICK s \in Sessions : s = refresh[t]
    BY <1>0, <1>2 DEF Rotate, Live, TypeOK
  <2>1. /\ refresh[t] = s /\ UNCHANGED origin
        /\ refresh' = [refresh EXCEPT ![t] = Nil]
    BY <1>2, <2>0 DEF Rotate, history
  <2>2. /\ req[r].pc = "idle" /\ req'[r].pc = "reissue" /\ req'[r].session = s
        /\ \A q \in Requests : q # r => req'[q] = req[q]
    BY <1>0, <1>2, <2>0, BeginFields DEF Rotate
  <2>3. HeadOf(s) = t
    BY <2>1, HeadLive
  <2>4. HeadOf(s)' = "rotating"
    BY <2>2, NextHeadsAgree DEF HeadsOfReissuing
  <2>5. ASSUME NEW y \in Sessions, y # s
        PROVE  HeadOf(y)' = HeadOf(y)
    <3>1. Unborn(y)' <=> Unborn(y)
      BY <2>1 DEF Unborn
    <3>2. LiveTokens(y)' = LiveTokens(y)
      BY <1>0, <2>1, <2>5, NilAssumption DEF LiveTokens, TypeOK
    <3>3. Reissuing(y)' = Reissuing(y)
      BY <2>2, <2>5 DEF Reissuing
    <3>4. QED
      BY <3>1, <3>2, <3>3, SameHead
  <2>6. Heads' = [Heads EXCEPT ![s] = "rotating"]
    BY <2>1, <2>4, <2>5, MovesOneHead
  <2>7. Minted' = Minted
    BY <2>1 DEF Minted, Fresh
  <2>8. Chain!Take(s)
    BY <2>1, <2>3, <2>6, <2>7 DEF Chain!Take, Chain!Rotating, Heads
  <2>9. QED
    BY <2>1, <2>8 DEF Chain!Next
<1>3. ASSUME NEW r \in Requests, NEW t \in Tokens, DetectReuse(r, t)
      PROVE  UNCHANGED Chain!vars
  <2>1. /\ req[r].pc = "idle" /\ req'[r].pc = "read"
        /\ \A q \in Requests : q # r => req'[q] = req[q]
    BY <1>0, <1>3, BeginFields DEF DetectReuse
  <2>2. QED
    BY <1>0, <1>3, <2>1, QuietStep DEF DetectReuse, history
<1>4. ASSUME NEW r \in Requests, NEW t \in Tokens, Reissue(r, t)
      PROVE  Chain!Next
  <2>0. PICK s \in Sessions : s = req[r].session
    BY <1>0, <1>4 DEF Reissue
  <2>1. /\ req[r].pc = "reissue" /\ req'[r].pc = "idle"
        /\ \A q \in Requests : q # r => req'[q] = req[q]
        /\ Issue(s, t)
    BY <1>0, <1>4, <2>0, IdleFields DEF Reissue
  <2>2. HeadOf(s) = "rotating"
    BY <2>0, <2>1, HeadRotating
  <2>3. \A y \in Sessions : y # s => Reissuing(y)' = Reissuing(y)
    BY <2>0, <2>1 DEF Reissuing
  <2>4. Chain!Mint(s, t)
    BY <2>1, <2>2, <2>3, IssueMints
  <2>5. QED
    BY <2>1, <2>4 DEF Chain!Next
<1>5. ASSUME NEW r \in Requests, NEW t \in Tokens, Logout(r, t)
      PROVE  UNCHANGED Chain!vars
  <2>1. /\ req[r].pc = "idle" /\ req'[r].pc = "read"
        /\ \A q \in Requests : q # r => req'[q] = req[q]
    BY <1>0, <1>5, BeginFields DEF Logout
  <2>2. QED
    BY <1>0, <1>5, <2>1, QuietStep DEF Logout, redis, history
<1>6. ASSUME NEW r \in Requests, NEW u \in Users, RevokeAll(r, u)
      PROVE  UNCHANGED Chain!vars
  <2>1. /\ req[r].pc = "idle" /\ req'[r].pc = "read"
        /\ \A q \in Requests : q # r => req'[q] = req[q]
    BY <1>0, <1>6, BeginFields DEF RevokeAll
  <2>2. QED
    BY <1>0, <1>6, <2>1, QuietStep DEF RevokeAll, redis, history
<1>7. ASSUME NEW r \in Requests, NEW s \in Sessions, ReadFamily(r, s)
      PROVE  UNCHANGED Chain!vars
  <2>1. /\ req[r].pc = "read" /\ req'[r].pc = "drop"
        /\ \A q \in Requests : q # r => req'[q] = req[q]
    BY <1>0, <1>7, ReadFields
  <2>2. QED
    BY <1>0, <1>7, <2>1, QuietStep DEF ReadFamily, redis, history
<1>8. ASSUME NEW r \in Requests, DropFamily(r)
      PROVE  [Chain!Next]_Chain!vars
  <2>0. PICK s \in Sessions, gone \in SUBSET Tokens :
               s = req[r].session /\ gone = req[r].digests
    <3>1. req[r].session \in Sessions /\ req[r].digests \in SUBSET Tokens
      BY <1>0, <1>8 DEF DropFamily, TypeOK, Request
    <3>2. QED
      BY <3>1
  <2>1. /\ req[r].pc = "drop" /\ req'[r].pc # "reissue"
        /\ \A q \in Requests : q # r => req'[q] = req[q]
    BY <1>0, <1>8, DropFields
  <2>2. /\ UNCHANGED origin
        /\ refresh' = [x \in Tokens |-> IF x \in gone THEN Nil ELSE refresh[x]]
    BY <1>8, <2>0 DEF DropFamily
  <2>3. \A x \in gone : origin[x] = s
    BY <2>0, <2>1 DEF IInv, RequestsAgree
  <2>4. \A y \in Sessions : Reissuing(y)' = Reissuing(y)
    BY <2>1 DEF Reissuing
  <2>5. \A x \in Tokens : refresh[x] # Nil => origin[x] = refresh[x]
    BY DEF IInv, OriginsAgree, Live
  <2>6. \A y \in Sessions : y # s => LiveTokens(y)' = LiveTokens(y)
    BY <2>2, <2>3, <2>5, NilAssumption DEF LiveTokens
  <2>7. CASE \E t \in gone : t \in Tokens /\ refresh[t] = s
    <3>1. PICK t \in Tokens : t \in gone /\ refresh[t] = s
      BY <2>7
    <3>2. LiveTokens(s) = {t}
      BY <2>2, <3>1 DEF IInv, NeverForks, LiveTokens
    <3>3. LiveTokens(s)' = {} /\ Reissuing(s) = {}
      <4>1. LiveTokens(s)' = {}
        BY <2>2, <3>1, <3>2, NilAssumption DEF LiveTokens
      <4>2. Reissuing(s) = {}
        BY <2>2, <3>2 DEF IInv, NeverForks
      <4>3. QED
        BY <4>1, <4>2
    <3>4. HeadOf(s) = t /\ ~Unborn(s)
      BY <2>2, <2>5, <3>1, HeadLive, NilAssumption DEF Unborn
    <3>5. Chain!End(s)
      BY <2>2, <2>4, <2>6, <3>3, <3>4, LosesHead
    <3>6. QED
      BY <2>2, <3>5 DEF Chain!Next
  <2>8. CASE ~ \E t \in gone : t \in Tokens /\ refresh[t] = s
    <3>1. LiveTokens(s)' = LiveTokens(s)
      BY <2>2, <2>8, NilAssumption DEF LiveTokens
    <3>2. \A y \in Sessions : Unborn(y)' <=> Unborn(y)
      BY <2>2 DEF Unborn
    <3>3. \A y \in Sessions : HeadOf(y)' = HeadOf(y)
      BY <2>4, <2>6, <3>1, <3>2, SameHead
    <3>4. Heads' = Heads /\ Minted' = Minted
      BY <2>2, <3>3, MovesNoHead DEF Minted, Fresh
    <3>5. QED
      BY <3>4 DEF Chain!vars, Heads
  <2>9. QED
    BY <2>7, <2>8
<1>9. ASSUME NEW r \in Requests, ClearIndex(r)
      PROVE  UNCHANGED Chain!vars
  <2>1. /\ req[r].pc = "read" /\ req'[r].pc = "idle"
        /\ \A q \in Requests : q # r => req'[q] = req[q]
    BY <1>0, <1>9, IdleFields DEF ClearIndex
  <2>2. QED
    BY <1>0, <1>9, <2>1, QuietStep DEF ClearIndex, history
<1>10. ASSUME NEW r \in Requests, Abort(r)
       PROVE  [Chain!Next]_Chain!vars
  <2>1. /\ req'[r].pc = "idle" /\ UNCHANGED <<refresh, origin>>
        /\ \A q \in Requests : q # r => req'[q] = req[q]
    BY <1>0, <1>10, IdleFields DEF Abort, redis, history
  <2>2. CASE req[r].pc # "reissue"
    BY <1>0, <2>1, <2>2, QuietStep
  <2>3. CASE req[r].pc = "reissue"
    <3>0. PICK s \in Sessions : s = req[r].session
      BY <1>0, <2>3
    <3>1. /\ HeadOf(s) = "rotating" /\ r \in Reissuing(s) /\ ~Unborn(s)
      BY <2>3, <3>0, HeadRotating DEF Reissuing, IInv, OriginsAgree
    <3>2. Reissuing(s) = {r} /\ LiveTokens(s) = {}
      BY <3>1 DEF IInv, NeverForks
    <3>3. /\ Reissuing(s)' = {}
          /\ \A y \in Sessions : y # s => Reissuing(y)' = Reissuing(y)
      BY <2>1, <3>0, <3>2 DEF Reissuing
    <3>4. \A y \in Sessions : LiveTokens(y)' = LiveTokens(y)
      BY <2>1 DEF LiveTokens
    <3>5. Chain!End(s)
      BY <2>1, <3>1, <3>2, <3>3, <3>4, LosesHead
    <3>6. QED
      BY <3>1, <3>5 DEF Chain!Next
  <2>4. QED
    BY <2>2, <2>3
<1>11. ASSUME NEW t \in Tokens, ExpireToken(t)
       PROVE  Chain!Next
  <2>0. PICK s \in Sessions : s = refresh[t]
    BY <1>0, <1>11 DEF ExpireToken, Live, TypeOK
  <2>1. /\ refresh[t] = s /\ UNCHANGED <<origin, req>>
        /\ refresh' = [refresh EXCEPT ![t] = Nil]
    BY <1>11, <2>0 DEF ExpireToken, history
  <2>2. HeadOf(s) = t /\ ~Unborn(s)
    BY <2>1, HeadLive, NilAssumption DEF Unborn, IInv, OriginsAgree, Live
  <2>3. LiveTokens(s) = {t} /\ Reissuing(s) = {}
    BY <2>1 DEF IInv, NeverForks, LiveTokens
  <2>4. \A y \in Sessions : Reissuing(y)' = Reissuing(y)
    BY <2>1 DEF Reissuing
  <2>5. /\ LiveTokens(s)' = {}
        /\ \A y \in Sessions : y # s => LiveTokens(y)' = LiveTokens(y)
    BY <1>0, <2>1, <2>3, NilAssumption DEF LiveTokens, TypeOK
  <2>6. Chain!End(s)
    BY <2>1, <2>2, <2>3, <2>4, <2>5, LosesHead
  <2>7. QED
    BY <2>1, <2>6 DEF Chain!Next
<1>12. CASE UNCHANGED <<refresh, origin, req>>
  <2>1. \A y \in Sessions : HeadOf(y)' = HeadOf(y)
    BY <1>12, SameHead DEF Unborn, LiveTokens, Reissuing
  <2>2. Heads' = Heads /\ Minted' = Minted
    BY <1>12, <2>1, MovesNoHead DEF Minted, Fresh
  <2>3. QED
    BY <2>2 DEF Chain!vars, Heads
<1>13. QED
  BY <1>1, <1>2, <1>3, <1>4, <1>5, <1>6, <1>7, <1>8, <1>9, <1>10, <1>11, <1>12
     DEF Next, Revoke, Refuse, ExpireReuse, ExpireFamily, ExpireIndex, vars,
         history

(* Tokens, indexes, requests and revocations together behave as one chain  *)
(* of single-use tokens per session.                                       *)
THEOREM RefinesLineage == Spec => ImplementsLineage
<1>1. Init => Chain!Init
  <2>1. Init => Heads = [s \in Sessions |-> "unborn"] /\ Minted = {}
    BY NilAssumption DEF Init, Heads, HeadOf, Unborn, Minted, Fresh
  <2>2. QED
    BY <2>1 DEF Chain!Init, Chain!Unborn, Heads
<1>2. IInv /\ IInv' /\ [Next]_vars => [Chain!Next]_Chain!vars
  BY ChainStep
<1>3. QED
  BY <1>1, <1>2, InvAlways, PTL DEF Spec, ImplementsLineage, Chain!Spec
=============================================================================
