-------------------------- MODULE EmailFilter_proofs --------------------------
(***************************************************************************)
(* Proofs about EmailFilter for every number of addresses, of replicas     *)
(* that start and stop, and of requests.                                   *)
(***************************************************************************)
EXTENDS EmailFilter, FiniteSetTheorems, TLAPS

-----------------------------------------------------------------------------
(* The inductive invariant, in named parts.                                *)

(* What a request carries at each step of its handler.                     *)
Carries(q) ==
    /\ q.pc = "idle" => q = Idle
    /\ q.pc # "idle" => q.email \in Emails
    /\ q.pc \in {"exists", "ask"} => q.op \in {"check", "signup"}
    /\ q.pc \in {"insert", "commit"} => q.op = "signup"
    /\ q.pc \in {"remember", "withdraw"} => q.op \in {"signup", "repair"}

RequestsCarry == \A p \in Requests : Carries(req[p])

(* Whoever works on the filter holds the lock, so nobody works beside it.  *)
LockIsHeld == ~spoilt => \A r \in Replicas : r \in Rebuilding => lock = r

(* Nobody trusts a filter that is being filled.                            *)
NotTrustedYet ==
    ~spoilt => \A r \in Replicas : warm[r].pc \in {"read", "fill"} => ~marker

(* What has to be found, now or as soon as a transaction commits, is in    *)
(* the filter, among the recorded exceptions or still to be added by the   *)
(* rebuild, which read it from the table.                                  *)
Covered ==
    ~spoilt =>
        /\ marker => users \cup Committing \subseteq filter \cup missed
        /\ \A r \in Replicas : warm[r].pc = "fill" =>
              users \cup Committing \subseteq filter \cup missed \cup warm[r].left

IInv == TypeOK /\ RequestsCarry /\ LockIsHeld /\ NotTrustedYet /\ Covered

-----------------------------------------------------------------------------
(* What a step does to the startups and to the requests.                   *)

(* The step is one of request p, or of the startup of replica r.           *)
OnlyMoves(p) == \A q \in Requests \ {p} : req'[q] = req[q]
OnlyStarts(r) == \A q \in Replicas \ {r} : warm'[q] = warm[q]

LEMMA IdleIsFree ==
  /\ Idle \in Request /\ Idle.pc = "idle" /\ Idle.op = "none"
  /\ Down \in Warm /\ Down.pc = "down"
  /\ Serving \in Warm /\ Serving.pc = "serving"
BY DEF Idle, Request, Down, Serving, Warm

LEMMA WarmFields ==
  ASSUME TypeOK, NEW r \in Replicas, NEW pc,
         warm' = [warm EXCEPT ![r].pc = pc]
  PROVE  /\ warm'[r].pc = pc /\ warm'[r].left = warm[r].left
         /\ OnlyStarts(r)
BY DEF TypeOK, Warm, OnlyStarts

LEMMA WarmReplaced ==
  ASSUME TypeOK, NEW r \in Replicas, NEW w, warm' = [warm EXCEPT ![r] = w]
  PROVE  warm'[r] = w /\ OnlyStarts(r)
BY DEF TypeOK, OnlyStarts

LEMMA RequestFields ==
  ASSUME TypeOK, NEW p \in Requests, NEW pc,
         req' = [req EXCEPT ![p].pc = pc]
  PROVE  /\ req'[p].pc = pc /\ req'[p].op = req[p].op
         /\ req'[p].email = req[p].email
         /\ OnlyMoves(p)
BY DEF TypeOK, Request, OnlyMoves

LEMMA RequestReplaced ==
  ASSUME TypeOK, NEW p \in Requests, NEW q, req' = [req EXCEPT ![p] = q]
  PROVE  req'[p] = q /\ OnlyMoves(p)
BY DEF TypeOK, OnlyMoves

LEMMA AfterRememberFields ==
  ASSUME NEW q \in Request, Carries(q), q.pc \in {"remember", "withdraw"}
  PROVE  /\ AfterRemember(q) \in Request
         /\ Carries(AfterRemember(q))
         /\ \/ AfterRemember(q) = Idle
            \/ /\ AfterRemember(q).pc = "commit"
               /\ AfterRemember(q).email = q.email
BY IdleIsFree DEF AfterRemember, Carries, Request

(* The request is the one just read, told to insert, or done.              *)
LEMMA LookupFields ==
  ASSUME NEW q \in Request, Carries(q), q.pc \in {"exists", "ask"},
         q.op # "check"
  PROVE  /\ [q EXCEPT !.pc = "insert"] \in Request
         /\ Carries([q EXCEPT !.pc = "insert"])
         /\ [q EXCEPT !.pc = "insert"].pc = "insert"
BY DEF Carries, Request

LEMMA InsertFields ==
  ASSUME TypeOK, RequestsCarry, NEW p \in Requests, Insert(p)
  PROVE  /\ req'[p] \in Request /\ Carries(req'[p])
         /\ req'[p].pc = "remember" /\ OnlyMoves(p)
<1> DEFINE op == IF req[p].email \in users THEN "repair" ELSE req[p].op
           q == [req[p] EXCEPT !.pc = "remember", !.op = op]
<1>1. req[p] \in Request /\ Carries(req[p]) /\ req[p].pc = "insert"
  BY DEF TypeOK, RequestsCarry, Insert
<1>2. op \in {"signup", "repair"}
  BY <1>1 DEF Carries
<1>3. req' = [req EXCEPT ![p] = q]
  BY DEF Insert
<1> HIDE DEF op
<1>4. q \in Request /\ Carries(q) /\ q.pc = "remember"
  BY <1>1, <1>2 DEF Request, Carries
<1>5. QED
  BY <1>3, <1>4, RequestReplaced

(* Every step of a request leaves it with what the next one needs.         *)
Steps(p) ==
    \/ \E op \in {"check", "signup"}, e \in Emails, r \in Replicas :
          GetMarker(p, op, e, r)
    \/ MayExist(p) \/ Miss(p) \/ AskDatabase(p) \/ Insert(p) \/ Remember(p)
    \/ RememberFails(p) \/ Withdraw(p) \/ WithdrawFails(p) \/ Commit(p) \/ Abandon(p)

LEMMA RequestStep ==
  ASSUME TypeOK, RequestsCarry, NEW p \in Requests, Steps(p)
  PROVE  req'[p] \in Request /\ Carries(req'[p]) /\ OnlyMoves(p)
<1> DEFINE Kept == req'[p] \in Request /\ Carries(req'[p]) /\ OnlyMoves(p)
<1>0. /\ req[p] \in Request /\ Carries(req[p])
      /\ Idle \in Request /\ Carries(Idle)
  BY IdleIsFree DEF TypeOK, RequestsCarry, Carries
<1>1. ASSUME NEW op \in {"check", "signup"}, NEW e \in Emails, NEW r \in Replicas,
             GetMarker(p, op, e, r)
      PROVE  Kept
  <2> DEFINE q == [pc |-> "exists", op |-> op, email |-> e, at |-> r, trusted |-> marker]
  <2>1. q \in Request /\ Carries(q)
    BY DEF Request, Carries, TypeOK
  <2>2. req' = [req EXCEPT ![p] = q]
    BY <1>1 DEF GetMarker
  <2> HIDE DEF q
  <2>3. QED
    BY <2>1, <2>2, RequestReplaced
<1>2. CASE MayExist(p)
  <2>1. [req[p] EXCEPT !.pc = "ask"] \in Request /\ Carries([req[p] EXCEPT !.pc = "ask"])
    BY <1>0, <1>2 DEF MayExist, Request, Carries
  <2>2. req' = [req EXCEPT ![p] = [req[p] EXCEPT !.pc = "ask"]]
    BY <1>2 DEF MayExist
  <2>3. QED
    BY <2>1, <2>2, RequestReplaced
<1>3. CASE Miss(p) \/ AskDatabase(p)
  <2>1. PICK q : /\ req' = [req EXCEPT ![p] = q]
                 /\ \/ q = Idle
                    \/ req[p].op # "check" /\ q = [req[p] EXCEPT !.pc = "insert"]
    BY <1>3 DEF Miss, AskDatabase
  <2>2. req[p].pc \in {"exists", "ask"}
    BY <1>3 DEF Miss, AskDatabase
  <2>3. q \in Request /\ Carries(q)
    BY <1>0, <2>1, <2>2, LookupFields
  <2>4. QED
    BY <2>1, <2>3, RequestReplaced
<1>4. CASE Insert(p)
  BY <1>4, InsertFields
<1>5. CASE Remember(p) \/ Withdraw(p) \/ WithdrawFails(p)
  <2>1. /\ req' = [req EXCEPT ![p] = AfterRemember(req[p])]
        /\ req[p].pc \in {"remember", "withdraw"}
    BY <1>5 DEF Remember, Withdraw, WithdrawFails
  <2>2. QED
    BY <1>0, <2>1, AfterRememberFields, RequestReplaced
<1>6. CASE RememberFails(p)
  <2>1. /\ [req[p] EXCEPT !.pc = "withdraw"] \in Request
        /\ Carries([req[p] EXCEPT !.pc = "withdraw"])
    BY <1>0, <1>6 DEF RememberFails, Request, Carries
  <2>2. req' = [req EXCEPT ![p] = [req[p] EXCEPT !.pc = "withdraw"]]
    BY <1>6 DEF RememberFails
  <2>3. QED
    BY <2>1, <2>2, RequestReplaced
<1>7. CASE Commit(p) \/ Abandon(p)
  <2>1. req' = [req EXCEPT ![p] = Idle]
    BY <1>7 DEF Commit, Abandon
  <2>2. QED
    BY <1>0, <2>1, RequestReplaced
<1>8. QED
  BY <1>1, <1>2, <1>3, <1>4, <1>5, <1>6, <1>7 DEF Steps

-----------------------------------------------------------------------------
(* The parts of the invariant, one lemma each.                             *)

LEMMA TypeStep ==
  ASSUME TypeOK, RequestsCarry, [Next]_vars
  PROVE  TypeOK'
<1> USE IdleIsFree DEF TypeOK, redis
<1>1. ASSUME NEW r \in Replicas, Start(r)
      PROVE  TypeOK'
  BY <1>1 DEF Start, Warm
<1>2. ASSUME NEW r \in Replicas, Drop(r)
      PROVE  TypeOK'
  BY <1>2 DEF Drop, Warm
<1>3. ASSUME NEW r \in Replicas, ReadUsers(r)
      PROVE  TypeOK'
  <2>1. Committing \subseteq Emails
    BY DEF Committing, Open, Request, RequestsCarry, Carries
  <2>2. QED
    BY <1>3, <2>1 DEF ReadUsers, Warm
<1>4. ASSUME NEW r \in Replicas, AddBatch(r)
      PROVE  TypeOK'
  BY <1>4 DEF AddBatch, Warm
<1>5. ASSUME NEW r \in Replicas, MarkReady(r) \/ Timeout(r)
      PROVE  TypeOK'
  BY <1>5 DEF MarkReady, Timeout
<1>6. ASSUME NEW r \in Replicas, RebuildFails(r)
      PROVE  TypeOK'
  BY <1>6 DEF RebuildFails, Warm
<1>7. ASSUME NEW r \in Replicas, ReleaseLock(r) \/ ReleaseFails(r)
      PROVE  TypeOK'
  BY <1>7 DEF ReleaseLock, ReleaseFails
<1>8. ASSUME NEW r \in Replicas, Stop(r)
      PROVE  TypeOK'
  BY <1>8 DEF Stop
<1>9. CASE ExpireLock \/ RestoreSnapshot
  BY <1>9 DEF ExpireLock, RestoreSnapshot
<1>10. ASSUME NEW p \in Requests, Steps(p)
       PROVE  TypeOK'
  <2>1. req' \in [Requests -> Request]
    <3>1. \E q : req' = [req EXCEPT ![p] = q]
      BY <1>10 DEF Steps, GetMarker, MayExist, Miss, AskDatabase, Insert,
         Remember, RememberFails, Withdraw, WithdrawFails, Commit, Abandon
    <3>2. req'[p] \in Request
      BY <1>10, RequestStep
    <3>3. QED
      BY <3>1, <3>2
  <2>2. req[p].pc \in {"remember", "withdraw", "commit"} => req[p].email \in Emails
    BY DEF RequestsCarry, Carries
  <2>3. /\ users' \subseteq Emails /\ filter' \subseteq Emails
        /\ marker' \in BOOLEAN /\ missed' \subseteq Emails
        /\ UNCHANGED <<lock, warm, spoilt>>
    BY <1>10, <2>2
       DEF Steps, GetMarker, MayExist, Miss, AskDatabase, Insert,
           Remember, RememberFails, Withdraw, WithdrawFails, Commit, Abandon
  <2>4. QED
    BY <2>1, <2>3
<1>11. CASE UNCHANGED vars
  BY <1>11 DEF vars
<1>12. QED
  BY <1>1, <1>2, <1>3, <1>4, <1>5, <1>6, <1>7, <1>8, <1>9, <1>10, <1>11
     DEF Next, Steps

LEMMA CarryStep ==
  ASSUME TypeOK, RequestsCarry, [Next]_vars
  PROVE  RequestsCarry'
<1>1. ASSUME NEW p \in Requests, Steps(p)
      PROVE  RequestsCarry'
  BY <1>1, RequestStep DEF RequestsCarry, OnlyMoves, Carries
<1>2. ASSUME NEW r \in Replicas, Stop(r)
      PROVE  RequestsCarry'
  <2>1. Carries(Idle)
    BY IdleIsFree DEF Carries
  <2>2. \A p \in Requests : req'[p] \in {Idle, req[p]}
    BY <1>2 DEF Stop
  <2>3. QED
    BY <2>1, <2>2 DEF RequestsCarry, Carries
<1>3. CASE UNCHANGED req
  BY <1>3 DEF RequestsCarry, Carries
<1>4. QED
  BY <1>1, <1>2, <1>3
     DEF Next, Steps, Start, Drop, ReadUsers, AddBatch, MarkReady, RebuildFails,
         ReleaseLock, ReleaseFails, Timeout, ExpireLock, RestoreSnapshot, vars

(* The requests do not touch the lock, nor the startups.                   *)
LEMMA RequestsLeaveTheLock ==
  ASSUME NEW p \in Requests, Steps(p)
  PROVE  UNCHANGED <<lock, warm, spoilt>>
BY DEF Steps, GetMarker, MayExist, Miss, AskDatabase, Insert, Remember,
       RememberFails, Withdraw, WithdrawFails, Commit, Abandon, redis

LEMMA LockStep ==
  ASSUME TypeOK, LockIsHeld, [Next]_vars
  PROVE  LockIsHeld'
<1> DEFINE Works(w) == w.pc \in {"drop", "read", "fill"}
<1> USE IdleIsFree
<1>0. /\ \A r \in Replicas : r \in Rebuilding <=> Works(warm[r])
      /\ \A r \in Replicas : r \in Rebuilding' <=> Works(warm'[r])
  BY DEF Rebuilding
<1>1. ASSUME Rebuilding' \subseteq Rebuilding, UNCHANGED <<lock, spoilt>>
      PROVE  LockIsHeld'
  BY <1>1 DEF LockIsHeld
<1>2. ASSUME NEW r \in Replicas, OnlyStarts(r), Works(warm'[r]) => Works(warm[r]),
             UNCHANGED <<lock, spoilt>>
      PROVE  LockIsHeld'
  BY <1>1, <1>2 DEF OnlyStarts, Rebuilding
<1>3. ASSUME NEW r \in Replicas, Start(r)
      PROVE  LockIsHeld'
  <2>1. CASE lock = Nil
    <3>1. /\ OnlyStarts(r) /\ UNCHANGED spoilt /\ lock' = r
      BY <1>3, <2>1, WarmFields DEF Start
    <3>2. ~spoilt => Rebuilding = {}
      BY <2>1, NilAssumption DEF LockIsHeld, Rebuilding
    <3>3. QED
      BY <1>0, <3>1, <3>2 DEF LockIsHeld, OnlyStarts
  <2>2. CASE lock # Nil
    BY <1>2, <1>3, <2>2, WarmReplaced DEF Start
  <2>3. QED
    BY <2>1, <2>2
<1>4. ASSUME NEW r \in Replicas, Drop(r)
      PROVE  LockIsHeld'
  <2>1. /\ OnlyStarts(r) /\ UNCHANGED lock /\ r \in Rebuilding
        /\ spoilt' = (spoilt /\ (lock # r \/ Rebuilding # {r}))
    BY <1>0, <1>4, WarmFields DEF Drop
  <2>2. Rebuilding' \subseteq Rebuilding
    BY <1>0, <2>1 DEF OnlyStarts, Rebuilding
  <2>3. QED
    BY <2>1, <2>2 DEF LockIsHeld
<1>5. ASSUME NEW r \in Replicas, ReadUsers(r)
      PROVE  LockIsHeld'
  BY <1>2, <1>5, WarmReplaced DEF ReadUsers, redis
<1>6. ASSUME NEW r \in Replicas, AddBatch(r)
      PROVE  LockIsHeld'
  <2>1. OnlyStarts(r) /\ UNCHANGED <<lock, spoilt>> /\ Works(warm[r])
    BY <1>6 DEF AddBatch, TypeOK, OnlyStarts
  <2>2. QED
    BY <1>2, <2>1
<1>7. ASSUME NEW r \in Replicas,
             MarkReady(r) \/ RebuildFails(r) \/ ReleaseFails(r) \/ Timeout(r)
      PROVE  LockIsHeld'
  <2>1. PICK w : warm' = [warm EXCEPT ![r] = w] /\ ~Works(w)
    <3>1. ~Works(Serving) /\ ~Works([pc |-> "release", left |-> {}])
      OBVIOUS
    <3>2. QED
      BY <1>7, <3>1 DEF MarkReady, RebuildFails, ReleaseFails, Timeout
  <2>2. UNCHANGED <<lock, spoilt>>
    BY <1>7 DEF MarkReady, RebuildFails, ReleaseFails, Timeout, redis
  <2>3. QED
    BY <1>2, <2>1, <2>2, WarmReplaced
<1>8. ASSUME NEW r \in Replicas, ReleaseLock(r)
      PROVE  LockIsHeld'
  <2>1. /\ warm'[r] = Serving /\ OnlyStarts(r) /\ r \notin Rebuilding
        /\ UNCHANGED spoilt
        /\ lock # r => lock' = lock
    BY <1>0, <1>8, WarmReplaced DEF ReleaseLock
  <2>2. \A q \in Rebuilding' : q \in Rebuilding /\ q # r
    BY <1>0, <2>1 DEF OnlyStarts, Rebuilding
  <2>3. QED
    BY <2>1, <2>2 DEF LockIsHeld, Rebuilding
<1>9. ASSUME NEW r \in Replicas, Stop(r)
      PROVE  LockIsHeld'
  BY <1>2, <1>9, WarmReplaced DEF Stop, redis
<1>10. CASE ExpireLock
  BY <1>10 DEF ExpireLock, LockIsHeld, Rebuilding, TypeOK
<1>11. CASE RestoreSnapshot
  BY <1>11 DEF RestoreSnapshot, LockIsHeld
<1>12. CASE UNCHANGED <<lock, warm, spoilt>>
  BY <1>12 DEF LockIsHeld, Rebuilding
<1>13. QED
  BY <1>3, <1>4, <1>5, <1>6, <1>7, <1>8, <1>9, <1>10, <1>11, <1>12,
     RequestsLeaveTheLock DEF Next, Steps, vars, redis

(* Two replicas at work would both have their token in the lock.           *)
LEMMA OneAtWork ==
  ASSUME LockIsHeld, ~spoilt, NEW r \in Replicas, NEW q \in Replicas,
         warm[r].pc \in {"drop", "read", "fill"},
         warm[q].pc \in {"drop", "read", "fill"}
  PROVE  r = q
BY DEF LockIsHeld, Rebuilding

(* A drop after which nothing is spoilt was alone with the filter.         *)
LEMMA DropIsAlone ==
  ASSUME LockIsHeld, NEW r \in Replicas, Drop(r), ~spoilt', NEW q \in Replicas,
         warm[q].pc \in {"drop", "read", "fill"}
  PROVE  q = r
<1>1. CASE ~spoilt
  BY <1>1, OneAtWork DEF Drop
<1>2. CASE Rebuilding = {r}
  BY <1>2 DEF Rebuilding
<1>3. QED
  BY <1>1, <1>2 DEF Drop

LEMMA NotTrustedStep ==
  ASSUME TypeOK, LockIsHeld, NotTrustedYet, [Next]_vars
  PROVE  NotTrustedYet'
<1> DEFINE Fills(w) == w.pc \in {"read", "fill"}
<1> USE IdleIsFree
<1>1. ASSUME NEW r \in Replicas, OnlyStarts(r), Fills(warm'[r]) => Fills(warm[r]),
             UNCHANGED <<marker, spoilt>>
      PROVE  NotTrustedYet'
  BY <1>1 DEF OnlyStarts, NotTrustedYet
<1>2. ASSUME NEW r \in Replicas, Start(r)
      PROVE  NotTrustedYet'
  <2>1. OnlyStarts(r) /\ ~Fills(warm'[r])
    BY <1>2, WarmFields, WarmReplaced DEF Start
  <2>2. QED
    BY <1>1, <1>2, <2>1 DEF Start
<1>3. ASSUME NEW r \in Replicas, Drop(r)
      PROVE  NotTrustedYet'
  BY <1>3 DEF Drop, NotTrustedYet
<1>4. ASSUME NEW r \in Replicas, ReadUsers(r)
      PROVE  NotTrustedYet'
  BY <1>1, <1>4, WarmReplaced DEF ReadUsers, redis
<1>5. ASSUME NEW r \in Replicas, AddBatch(r)
      PROVE  NotTrustedYet'
  <2>1. OnlyStarts(r) /\ UNCHANGED <<marker, spoilt>> /\ Fills(warm[r])
    BY <1>5 DEF AddBatch, TypeOK, OnlyStarts
  <2>2. QED
    BY <1>1, <2>1
<1>6. ASSUME NEW r \in Replicas, MarkReady(r)
      PROVE  NotTrustedYet'
  <2>1. /\ warm'[r] = Serving /\ OnlyStarts(r) /\ UNCHANGED spoilt
        /\ warm[r].pc = "fill"
    BY <1>6, WarmReplaced DEF MarkReady
  <2>2. QED
    BY <2>1, OneAtWork DEF OnlyStarts, NotTrustedYet
<1>7. ASSUME NEW r \in Replicas,
             RebuildFails(r) \/ ReleaseLock(r) \/ ReleaseFails(r) \/ Timeout(r)
      PROVE  NotTrustedYet'
  <2>1. PICK w : warm' = [warm EXCEPT ![r] = w] /\ ~Fills(w)
    <3>1. ~Fills(Serving) /\ ~Fills([pc |-> "release", left |-> {}])
      OBVIOUS
    <3>2. QED
      BY <1>7, <3>1 DEF RebuildFails, ReleaseLock, ReleaseFails, Timeout
  <2>2. UNCHANGED <<marker, spoilt>>
    BY <1>7 DEF RebuildFails, ReleaseLock, ReleaseFails, Timeout, redis
  <2>3. QED
    BY <1>1, <2>1, <2>2, WarmReplaced
<1>8. ASSUME NEW r \in Replicas, Stop(r)
      PROVE  NotTrustedYet'
  BY <1>1, <1>8, WarmReplaced DEF Stop, redis
<1>9. CASE ExpireLock \/ RestoreSnapshot
  BY <1>9 DEF ExpireLock, RestoreSnapshot, NotTrustedYet
<1>10. ASSUME NEW p \in Requests, Steps(p)
       PROVE  NotTrustedYet'
  <2>1. marker' \in {marker, FALSE}
    BY <1>10 DEF Steps, GetMarker, MayExist, Miss, AskDatabase, Insert, Remember,
       RememberFails, Withdraw, WithdrawFails, Commit, Abandon, redis
  <2>2. QED
    BY <1>10, <2>1, RequestsLeaveTheLock DEF NotTrustedYet
<1>11. CASE UNCHANGED vars
  BY <1>11 DEF vars, redis, NotTrustedYet
<1>12. QED
  BY <1>2, <1>3, <1>4, <1>5, <1>6, <1>7, <1>8, <1>9, <1>10, <1>11
     DEF Next, Steps

(* The transactions that have told the filter and only have to commit.     *)
LEMMA CommittingIs ==
  ASSUME RequestsCarry
  PROVE  \A e : e \in Committing
                  <=> \E p \in Requests : req[p].pc = "commit" /\ req[p].email = e
BY DEF Committing, Open, RequestsCarry, Carries

(* Only from remember or withdraw a request gets among them.               *)
LEMMA WhoCommits ==
  ASSUME TypeOK, RequestsCarry, NEW p \in Requests, Steps(p)
  PROVE  /\ Committing' \subseteq Committing \cup {req[p].email}
         /\ \/ Remember(p) \/ Withdraw(p) \/ WithdrawFails(p)
            \/ Committing' \subseteq Committing
<1>1. OnlyMoves(p) /\ RequestsCarry'
  BY RequestStep, CarryStep DEF Next, Steps
<1>2. \/ req'[p].pc # "commit"
      \/ /\ Remember(p) \/ Withdraw(p) \/ WithdrawFails(p)
         /\ req'[p].email = req[p].email
  <2>1. /\ req[p] \in Request /\ Carries(req[p])
        /\ Idle \in Request /\ Idle.pc # "commit"
    BY IdleIsFree DEF TypeOK, RequestsCarry
  <2>2. CASE \E op \in {"check", "signup"}, e \in Emails, r \in Replicas :
               GetMarker(p, op, e, r)
    BY <2>2 DEF GetMarker, TypeOK
  <2>3. CASE MayExist(p) \/ RememberFails(p)
    BY <2>3, RequestFields DEF MayExist, RememberFails
  <2>4. CASE Miss(p) \/ AskDatabase(p)
    <3>1. PICK q : /\ req' = [req EXCEPT ![p] = q]
                   /\ \/ q = Idle
                      \/ req[p].op # "check" /\ q = [req[p] EXCEPT !.pc = "insert"]
      BY <2>4 DEF Miss, AskDatabase
    <3>2. req[p].pc \in {"exists", "ask"}
      BY <2>4 DEF Miss, AskDatabase
    <3>3. q.pc # "commit"
      BY <2>1, <3>1, <3>2, LookupFields
    <3>4. QED
      BY <3>1, <3>3, RequestReplaced
  <2>5. CASE Insert(p)
    BY <2>5, InsertFields
  <2>6. CASE Remember(p) \/ Withdraw(p) \/ WithdrawFails(p)
    <3>1. /\ req' = [req EXCEPT ![p] = AfterRemember(req[p])]
          /\ req[p].pc \in {"remember", "withdraw"}
      BY <2>6 DEF Remember, Withdraw, WithdrawFails
    <3>2. QED
      BY <2>1, <2>6, <3>1, AfterRememberFields, RequestReplaced
  <2>7. CASE Commit(p) \/ Abandon(p)
    BY <2>1, <2>7, RequestReplaced DEF Commit, Abandon
  <2>8. QED
    BY <2>2, <2>3, <2>4, <2>5, <2>6, <2>7 DEF Steps
<1>3. \A e : e \in Committing'
               <=> \E q \in Requests : req'[q].pc = "commit" /\ req'[q].email = e
  BY <1>1 DEF Committing, Open, RequestsCarry, Carries
<1>4. QED
  BY <1>1, <1>2, <1>3, CommittingIs DEF OnlyMoves

LEMMA CoveredStep ==
  ASSUME TypeOK, RequestsCarry, LockIsHeld, NotTrustedYet, Covered, [Next]_vars
  PROVE  Covered'
<1> DEFINE Needed == users \cup Committing
           Known  == filter \cup missed
<1> USE IdleIsFree
<1>0. ~spoilt =>
        /\ marker => Needed \subseteq Known
        /\ \A r \in Replicas : warm[r].pc = "fill" => Needed \subseteq Known \cup warm[r].left
  BY DEF Covered
<1>1. ASSUME UNCHANGED spoilt, marker' => marker,
             Needed' \subseteq Needed \cup Known', Known \subseteq Known',
             \A r \in Replicas : warm'[r].pc = "fill" =>
                warm[r].pc = "fill" /\ warm[r].left = warm'[r].left
      PROVE  Covered'
  BY <1>0, <1>1 DEF Covered
<1>2. ASSUME UNCHANGED <<users, filter, marker, req, missed, spoilt>>,
             NEW r \in Replicas, OnlyStarts(r), warm'[r].pc # "fill"
      PROVE  Covered'
  BY <1>1, <1>2 DEF OnlyStarts, Committing, Open
<1>3. ASSUME NEW r \in Replicas, Start(r)
      PROVE  Covered'
  <2>1. OnlyStarts(r) /\ warm'[r].pc # "fill"
    BY <1>3, WarmFields, WarmReplaced DEF Start
  <2>2. QED
    BY <1>2, <1>3, <2>1 DEF Start
<1>4. ASSUME NEW r \in Replicas, Drop(r)
      PROVE  Covered'
  <2>1. /\ ~marker' /\ warm[r].pc = "drop"
        /\ warm'[r].pc = "read" /\ OnlyStarts(r)
    BY <1>4, WarmFields DEF Drop
  <2>2. ASSUME ~spoilt', NEW q \in Replicas
        PROVE  warm'[q].pc # "fill"
    BY <1>4, <2>1, <2>2, DropIsAlone DEF OnlyStarts
  <2>3. QED
    BY <2>1, <2>2 DEF Covered
<1>5. ASSUME NEW r \in Replicas, ReadUsers(r)
      PROVE  Covered'
  <2>1. /\ warm'[r] = [pc |-> "fill", left |-> users] /\ OnlyStarts(r)
        /\ warm[r].pc = "read" /\ missed' = Committing \ filter
        /\ UNCHANGED <<users, filter, marker, req, spoilt>>
    BY <1>5, WarmReplaced DEF ReadUsers, redis
  <2>2. ~spoilt => ~marker
    BY <2>1 DEF NotTrustedYet
  <2>3. ASSUME ~spoilt, NEW q \in Replicas, warm'[q].pc = "fill"
        PROVE  q = r
    BY <2>1, <2>3, OneAtWork DEF OnlyStarts
  <2>4. Committing' = Committing
    BY <2>1 DEF Committing, Open
  <2>5. QED
    BY <2>1, <2>2, <2>3, <2>4 DEF Covered
<1>6. ASSUME NEW r \in Replicas, AddBatch(r)
      PROVE  Covered'
  <2>1. PICK batch \in SUBSET warm[r].left :
           /\ filter' = filter \cup batch
           /\ warm' = [warm EXCEPT ![r].left = @ \ batch]
    BY <1>6 DEF AddBatch
  <2>2. /\ warm'[r].left = warm[r].left \ batch /\ warm'[r].pc = "fill"
        /\ warm[r].pc = "fill" /\ OnlyStarts(r)
        /\ UNCHANGED <<users, marker, req, missed, spoilt>>
    BY <1>6, <2>1 DEF AddBatch, TypeOK, Warm, OnlyStarts
  <2>3. Committing' = Committing
    BY <2>2 DEF Committing, Open
  <2>4. QED
    BY <1>0, <2>1, <2>2, <2>3 DEF Covered, OnlyStarts
<1>7. ASSUME NEW r \in Replicas, MarkReady(r)
      PROVE  Covered'
  <2>1. /\ warm'[r].pc # "fill" /\ OnlyStarts(r)
        /\ warm[r].pc = "fill" /\ warm[r].left = {}
        /\ UNCHANGED <<users, filter, req, missed, spoilt>>
    BY <1>7, WarmReplaced DEF MarkReady
  <2>2. ~spoilt => Needed \subseteq Known
    BY <1>0, <2>1
  <2>3. Committing' = Committing
    BY <2>1 DEF Committing, Open
  <2>4. QED
    BY <1>0, <2>1, <2>2, <2>3 DEF Covered, OnlyStarts
<1>8. ASSUME NEW r \in Replicas,
             RebuildFails(r) \/ ReleaseLock(r) \/ ReleaseFails(r) \/ Timeout(r)
      PROVE  Covered'
  <2>1. PICK w : warm' = [warm EXCEPT ![r] = w] /\ w.pc # "fill"
    <3>1. Serving.pc # "fill" /\ [pc |-> "release", left |-> {}].pc # "fill"
      OBVIOUS
    <3>2. QED
      BY <1>8, <3>1 DEF RebuildFails, ReleaseLock, ReleaseFails, Timeout
  <2>2. UNCHANGED <<users, filter, marker, req, missed, spoilt>>
    BY <1>8 DEF RebuildFails, ReleaseLock, ReleaseFails, Timeout, redis
  <2>3. QED
    BY <1>2, <2>1, <2>2, WarmReplaced
<1>9. ASSUME NEW r \in Replicas, Stop(r)
      PROVE  Covered'
  <2>1. /\ warm'[r] = Down /\ OnlyStarts(r)
        /\ UNCHANGED <<users, filter, marker, missed, spoilt>>
    BY <1>9, WarmReplaced DEF Stop, redis
  <2>2. Committing' \subseteq Committing
    BY <1>9 DEF Stop, Committing, Open
  <2>3. QED
    BY <1>1, <2>1, <2>2 DEF OnlyStarts
<1>10. CASE ExpireLock
  <2>1. UNCHANGED <<users, filter, marker, warm, req, missed>> /\ (spoilt => spoilt')
    BY <1>10 DEF ExpireLock
  <2>2. Committing' = Committing
    BY <2>1 DEF Committing, Open
  <2>3. QED
    BY <1>0, <2>1, <2>2 DEF Covered
<1>11. CASE RestoreSnapshot
  BY <1>11 DEF RestoreSnapshot, Covered
<1>12. ASSUME NEW p \in Requests, Steps(p)
       PROVE  Covered'
  <2>0. /\ UNCHANGED <<warm, spoilt>>
        /\ Committing' \subseteq Committing \cup {req[p].email}
    BY <1>12, RequestsLeaveTheLock, WhoCommits
  <2>1. CASE Remember(p)
    BY <1>1, <2>0, <2>1 DEF Remember
  <2>2. CASE Withdraw(p)
    <3>1. CASE \E r \in Replicas : warm[r].pc = "fill"
      BY <1>1, <2>0, <2>2, <3>1 DEF Withdraw
    <3>2. CASE \A r \in Replicas : warm[r].pc # "fill"
      BY <2>0, <2>2, <3>2 DEF Withdraw, Covered
    <3>3. QED
      BY <3>1, <3>2
  <2>3. CASE WithdrawFails(p)
    BY <1>1, <2>0, <2>3 DEF WithdrawFails, redis
  <2>4. CASE Commit(p)
    <3>1. req[p].email \in Committing
      BY <2>4, CommittingIs DEF Commit
    <3>2. QED
      BY <1>1, <2>0, <2>4, <3>1 DEF Commit, redis
  <2>5. CASE ~(Remember(p) \/ Withdraw(p) \/ WithdrawFails(p) \/ Commit(p))
    <3>1. /\ UNCHANGED <<users, marker, missed>> /\ filter \subseteq filter'
      BY <1>12, <2>5
         DEF Steps, GetMarker, MayExist, Miss, AskDatabase, Insert,
             RememberFails, Abandon, redis
    <3>2. Committing' \subseteq Committing
      BY <1>12, <2>5, WhoCommits
    <3>3. QED
      BY <1>1, <2>0, <3>1, <3>2
  <2>6. QED
    BY <2>1, <2>2, <2>3, <2>4, <2>5
<1>13. CASE UNCHANGED vars
  <2>1. Committing' = Committing
    BY <1>13 DEF vars, Committing, Open
  <2>2. QED
    BY <1>0, <1>13, <2>1 DEF vars, redis, Covered
<1>14. QED
  BY <1>3, <1>4, <1>5, <1>6, <1>7, <1>8, <1>9, <1>10, <1>11, <1>12, <1>13
     DEF Next, Steps

-----------------------------------------------------------------------------
(* The invariant holds.                                                    *)

LEMMA InvInit == Init => IInv
<1> SUFFICES ASSUME Init PROVE IInv
  OBVIOUS
<1>1. /\ \A r \in Replicas : warm[r] = Down
      /\ \A p \in Requests : req[p] = Idle
      /\ ~marker
  BY DEF Init
<1>2. TypeOK
  BY IdleIsFree DEF Init, TypeOK
<1>3. RequestsCarry
  BY <1>1, IdleIsFree DEF RequestsCarry, Carries
<1>4. LockIsHeld /\ NotTrustedYet /\ Covered
  BY <1>1, IdleIsFree DEF LockIsHeld, NotTrustedYet, Covered, Rebuilding
<1>5. QED
  BY <1>2, <1>3, <1>4 DEF IInv

LEMMA InvStep == IInv /\ [Next]_vars => IInv'
BY TypeStep, CarryStep, LockStep, NotTrustedStep, CoveredStep DEF IInv

LEMMA InvAlways == Spec => []IInv
BY InvInit, InvStep, PTL DEF Spec

(* Every variable keeps its shape.                                         *)
THEOREM TypeCorrect == Spec => []TypeOK
<1>1. IInv => TypeOK
  BY DEF IInv
<1>2. QED
  BY <1>1, InvAlways, PTL

(* A trusted filter knows every registered address, whatever inserts and   *)
(* rebuilds failed, timed out, overlapped or were repeated, but for the    *)
(* exceptions the model records.                                           *)
THEOREM TrustedFilterKnowsAll == Spec => []TrustedFilterIsComplete
<1>1. IInv => TrustedFilterIsComplete
  BY DEF IInv, Covered, TrustedFilterIsComplete
<1>2. QED
  BY <1>1, InvAlways, PTL

LEMMA AloneIsOne ==
  ASSUME LockIsHeld
  PROVE  OneRebuilder
<1> SUFFICES ASSUME ~spoilt
             PROVE  Cardinality(Rebuilding) <= 1
  BY DEF OneRebuilder
<1>1. \A r, q \in Rebuilding : r = q
  BY OneAtWork DEF Rebuilding
<1>2. CASE Rebuilding = {}
  <2>1. Cardinality(Rebuilding) = 0
    BY <1>2, FS_EmptySet, Zenon
  <2>2. QED
    BY <2>1
<1>3. CASE Rebuilding # {}
  <2>1. PICK r : Rebuilding = {r}
    BY <1>1, <1>3
  <2>2. Cardinality({r}) = 1
    BY FS_Singleton
  <2>3. QED
    BY <2>1, <2>2
<1>4. QED
  BY <1>2, <1>3

(* No two replicas rebuild at a time while the lock outlives its rebuild,  *)
(* and again from the first rebuild that is alone.                         *)
THEOREM OnlyOneRebuilds == Spec => []OneRebuilder
<1>1. IInv => OneRebuilder
  BY AloneIsOne DEF IInv
<1>2. QED
  BY <1>1, InvAlways, PTL

-----------------------------------------------------------------------------
(* What becomes of a lock.                                                 *)

KeepsLocks ==
    \A r \in Replicas :
        lock = r /\ lock' # r =>
           \/ lock' = Nil /\ (warm[r].pc = "release" \/ warm' = warm)
           \/ RestoreSnapshot

LEMMA StepsKeepLocks ==
  ASSUME [Next]_vars
  PROVE  KeepsLocks
<1>1. ASSUME NEW r \in Replicas, Start(r)
      PROVE  KeepsLocks
  BY <1>1, NilAssumption DEF Start, KeepsLocks
<1>2. ASSUME NEW r \in Replicas, ReleaseLock(r)
      PROVE  KeepsLocks
  BY <1>2 DEF ReleaseLock, KeepsLocks
<1>3. CASE ExpireLock
  BY <1>3 DEF ExpireLock, KeepsLocks
<1>4. CASE RestoreSnapshot
  BY <1>4 DEF KeepsLocks
<1>5. CASE UNCHANGED lock
  BY <1>5 DEF KeepsLocks
<1>6. QED
  BY <1>1, <1>2, <1>3, <1>4, <1>5, RequestsLeaveTheLock
     DEF Next, Steps, Drop, ReadUsers, AddBatch, MarkReady, RebuildFails,
         ReleaseFails, Timeout, Stop, vars, redis

(* A lock ends with its expiry or with the failed rebuild that took it: a  *)
(* rebuild that overran cannot delete the lock of its successor.           *)
THEOREM LocksEndWithTheirOwner == Spec => LockIsOwn
<1>1. [Next]_vars => [KeepsLocks]_vars
  BY StepsKeepLocks
<1>2. QED
  BY <1>1, PTL DEF Spec, LockIsOwn, KeepsLocks
=============================================================================
