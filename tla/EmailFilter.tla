----------------------------- MODULE EmailFilter -----------------------------
(***************************************************************************)
(* The email-availability filter: a cuckoo filter in Redis that lets       *)
(* signup and the availability endpoint skip the users table, the marker   *)
(* that says it may be trusted, and the rebuild every replica attempts at  *)
(* startup under a lock.                                                   *)
(*                                                                         *)
(* The filter is a set: an address that was inserted is found until the    *)
(* key is dropped, an address that was not may be found all the same.  The *)
(* users table has a unique index on the address, and a second insert of   *)
(* an uncommitted address waits for the first transaction.                 *)
(***************************************************************************)
EXTENDS Naturals, FiniteSets

CONSTANTS
    Emails,
    Replicas,   \* API processes
    Requests,   \* requests in flight at the same time
    Nil,
    Faults      \* which of "timeout", "outage", "overrun" and "restore" may happen

ASSUME NilAssumption == Nil \notin Emails \cup Replicas
ASSUME FaultsAssumption == Faults \subseteq {"timeout", "outage", "overrun", "restore"}

VARIABLES
    users,      \* committed rows of the users table
    filter,     \* addresses inserted since auth:email:filter was dropped
    marker,     \* auth:email:filter:meta holds the current fingerprint
    lock,       \* auth:email:filter:lock, the replica whose token it holds
    warm,       \* startup of each replica
    req,        \* signups and availability checks
    missed,     \* history: addresses the filter may lack since the last rebuild
    spoilt      \* history: Redis was restored, or a lock expired under its rebuild,
                \* and no rebuild since has been alone

redis == <<filter, marker, lock>>
vars == <<users, redis, warm, req, missed, spoilt>>

Down    == [pc |-> "down", left |-> {}]
Serving == [pc |-> "serving", left |-> {}]
Idle    == [pc |-> "idle", op |-> "none", email |-> Nil, at |-> Nil, trusted |-> FALSE]

Warm == [pc : {"down", "drop", "read", "fill", "release", "serving"},
         left : SUBSET Emails]
Request == [pc : {"idle", "exists", "ask", "insert", "remember", "withdraw", "commit"},
            op : {"none", "check", "signup", "repair"},
            email : Emails \cup {Nil}, at : Replicas \cup {Nil}, trusted : BOOLEAN]

(* Replicas holding the lock and working on the filter. *)
Rebuilding == {r \in Replicas : warm[r].pc \in {"drop", "read", "fill"}}

(* Signups whose row is inserted and not committed. *)
Open(p) == req[p].op = "signup" /\ req[p].pc \in {"remember", "withdraw", "commit"}
(* Their addresses, once they have told the filter and only have to commit. *)
Committing == {req[p].email : p \in {x \in Requests : Open(x) /\ req[x].pc = "commit"}}

Init ==
    /\ users = {}
    /\ filter = {}
    /\ marker = FALSE
    /\ lock = Nil
    /\ warm = [r \in Replicas |-> Down]
    /\ req = [p \in Requests |-> Idle]
    /\ missed = {}
    /\ spoilt = FALSE

-----------------------------------------------------------------------------
(* EmailFilterWarmer.warm, before a replica serves requests *)

(* Seeded fault: the lock is set without NX. *)
StartUnlocked(r) ==
    /\ warm[r] = Down
    /\ lock' = r
    /\ warm' = [warm EXCEPT ![r].pc = "drop"]
    /\ UNCHANGED <<users, filter, marker, req, missed, spoilt>>

(* SET lock NX: one replica rebuilds, the others serve at once. *)
Start(r) ==
    /\ warm[r] = Down
    /\ IF lock = Nil
       THEN /\ lock' = r
            /\ warm' = [warm EXCEPT ![r].pc = "drop"]
       ELSE /\ lock' = lock
            /\ warm' = [warm EXCEPT ![r] = Serving]
    /\ UNCHANGED <<users, filter, marker, req, missed, spoilt>>

(* DEL filter and marker, then CF.RESERVE: the filter is empty.  A rebuild *)
(* that has the lock and nobody beside it makes up for what went wrong.    *)
Drop(r) ==
    /\ warm[r].pc = "drop"
    /\ filter' = {}
    /\ marker' = FALSE
    /\ warm' = [warm EXCEPT ![r].pc = "read"]
    /\ spoilt' = (spoilt /\ (lock # r \/ Rebuilding # {r}))
    /\ UNCHANGED <<users, lock, req, missed>>

(* The streaming SELECT sees the rows committed when it starts.  A signup  *)
(* that told the filter before it was dropped and commits after this is    *)
(* overtaken: neither the table read here nor the new filter has it.       *)
ReadUsers(r) ==
    /\ warm[r].pc = "read"
    /\ warm' = [warm EXCEPT ![r] = [pc |-> "fill", left |-> users]]
    /\ missed' = Committing \ filter
    /\ UNCHANGED <<users, redis, req, spoilt>>

(* add_many of one batch. *)
AddBatch(r) ==
    /\ warm[r].pc = "fill"
    /\ \E batch \in SUBSET warm[r].left \ {{}} :
          /\ filter' = filter \cup batch
          /\ warm' = [warm EXCEPT ![r].left = @ \ batch]
    /\ UNCHANGED <<users, marker, lock, req, missed, spoilt>>

(* mark_ready after the last batch; the lock is left to expire. *)
MarkReady(r) ==
    /\ warm[r].pc = "fill"
    /\ warm[r].left = {}
    /\ marker' = TRUE
    /\ warm' = [warm EXCEPT ![r] = Serving]
    /\ UNCHANGED <<users, filter, lock, req, missed, spoilt>>

(* Redis or the database raises inside _rebuild. *)
RebuildFails(r) ==
    /\ r \in Rebuilding
    /\ warm' = [warm EXCEPT ![r] = [pc |-> "release", left |-> {}]]
    /\ UNCHANGED <<users, redis, req, missed, spoilt>>

(* Seeded fault: the lock is deleted without comparing its token. *)
ReleaseAnyLock(r) ==
    /\ warm[r].pc = "release"
    /\ lock' = Nil
    /\ warm' = [warm EXCEPT ![r] = Serving]
    /\ UNCHANGED <<users, filter, marker, req, missed, spoilt>>

(* The except branch gives the lock back if it still holds our token. *)
ReleaseLock(r) ==
    /\ warm[r].pc = "release"
    /\ lock' = IF lock = r THEN Nil ELSE lock
    /\ warm' = [warm EXCEPT ![r] = Serving]
    /\ UNCHANGED <<users, filter, marker, req, missed, spoilt>>

(* The script that releases it fails as well. *)
ReleaseFails(r) ==
    /\ "outage" \in Faults
    /\ warm[r].pc = "release"
    /\ warm' = [warm EXCEPT ![r] = Serving]
    /\ UNCHANGED <<users, redis, req, missed, spoilt>>

(* wait_for cancels _warm: CancelledError is no Exception, the except      *)
(* branch does not run.                                                    *)
Timeout(r) ==
    /\ "timeout" \in Faults
    /\ r \in Rebuilding
    /\ warm' = [warm EXCEPT ![r] = Serving]
    /\ UNCHANGED <<users, redis, req, missed, spoilt>>

(* By default the lock lasts longer than a rebuild may take, 300 s against *)
(* 30 s; nothing in Settings keeps it that way.                            *)
ExpireLock ==
    /\ lock # Nil
    /\ Rebuilding = {} \/ "overrun" \in Faults
    /\ lock' = Nil
    /\ spoilt' = (spoilt \/ Rebuilding # {})
    /\ UNCHANGED <<users, filter, marker, warm, req, missed>>

(* Redis restarts from a snapshot of another day, marker and lock included: *)
(* the filter "can silently lose entries".  Bound: once until a rebuild has *)
(* put it right.                                                           *)
RestoreSnapshot ==
    /\ "restore" \in Faults
    /\ ~spoilt
    /\ filter' \in SUBSET Emails
    /\ marker' \in BOOLEAN
    /\ lock' \in Replicas \cup {Nil}
    /\ spoilt' = TRUE
    /\ UNCHANGED <<users, warm, req, missed>>

(* A replica stops or dies: its transactions roll back.                    *)
Stop(r) ==
    /\ warm[r] # Down
    /\ warm' = [warm EXCEPT ![r] = Down]
    /\ req' = [p \in Requests |-> IF req[p].at = r THEN Idle ELSE req[p]]
    /\ UNCHANGED <<users, redis, missed, spoilt>>

-----------------------------------------------------------------------------
(* might_exist: GET marker and CF.EXISTS travel in one pipeline, which is  *)
(* not a transaction.                                                      *)

GetMarker(p, op, e, r) ==
    /\ req[p] = Idle
    /\ warm[r] = Serving
    /\ req' = [req EXCEPT ![p] = [pc |-> "exists", op |-> op, email |-> e,
                                  at |-> r, trusted |-> marker]]
    /\ UNCHANGED <<users, redis, warm, missed, spoilt>>

(* Not trusted, found (truly or not), or Redis failed: ask the database. *)
MayExist(p) ==
    /\ req[p].pc = "exists"
    /\ req' = [req EXCEPT ![p].pc = "ask"]
    /\ UNCHANGED <<users, redis, warm, missed, spoilt>>

(* Trusted and not found: a check answers "available", a signup goes on    *)
(* without the database lookup.                                            *)
Miss(p) ==
    /\ req[p].pc = "exists"
    /\ req[p].trusted
    /\ req[p].email \notin filter
    /\ req' = [req EXCEPT ![p] = IF @.op = "check" THEN Idle
                                 ELSE [@ EXCEPT !.pc = "insert"]]
    /\ UNCHANGED <<users, redis, warm, missed, spoilt>>

(* by_email: a check has its answer, a signup of a known address ends.     *)
AskDatabase(p) ==
    /\ req[p].pc = "ask"
    /\ req' = [req EXCEPT ![p] = IF @.op = "check" \/ @.email \in users THEN Idle
                                 ELSE [@ EXCEPT !.pc = "insert"]]
    /\ UNCHANGED <<users, redis, warm, missed, spoilt>>

-----------------------------------------------------------------------------
(* The rest of signup, and create_user to commit in OAuth login *)

(* create_user flushes.  On a duplicate the transaction is rolled back and *)
(* the address remembered, "repairing" the filter.                         *)
Insert(p) ==
    /\ req[p].pc = "insert"
    /\ \A q \in Requests : Open(q) => req[q].email # req[p].email
    /\ req' = [req EXCEPT ![p].pc = "remember",
                          ![p].op = IF req[p].email \in users THEN "repair" ELSE @]
    /\ UNCHANGED <<users, redis, warm, missed, spoilt>>

(* A repair ends the request; a signup still has to send and commit. *)
AfterRemember(q) == IF q.op = "repair" THEN Idle ELSE [q EXCEPT !.pc = "commit"]

Remember(p) ==
    /\ req[p].pc = "remember"
    /\ filter' = filter \cup {req[p].email}
    /\ req' = [req EXCEPT ![p] = AfterRemember(@)]
    /\ UNCHANGED <<users, marker, lock, warm, missed, spoilt>>

(* Seeded fault: a failed CF.INSERT is only logged. *)
RememberFailsQuietly(p) ==
    /\ req[p].pc = "remember"
    /\ req' = [req EXCEPT ![p] = AfterRemember(@)]
    /\ UNCHANGED <<users, redis, warm, missed, spoilt>>

(* CF.INSERT raises, or was carried out and only its reply is lost. *)
RememberFails(p) ==
    /\ req[p].pc = "remember"
    /\ \E done \in SUBSET {req[p].email} : filter' = filter \cup done
    /\ req' = [req EXCEPT ![p].pc = "withdraw"]
    /\ UNCHANGED <<users, marker, lock, warm, missed, spoilt>>

(* DEL marker: nobody trusts the filter until it is rebuilt, which a       *)
(* rebuild under way may be about to say without having seen the row.      *)
Withdraw(p) ==
    /\ req[p].pc = "withdraw"
    /\ marker' = FALSE
    /\ req' = [req EXCEPT ![p] = AfterRemember(@)]
    /\ missed' = IF \E r \in Replicas : warm[r].pc = "fill"
                THEN missed \cup ({req[p].email} \ filter) ELSE missed
    /\ UNCHANGED <<users, filter, lock, warm, spoilt>>

(* DEL marker raises too, and is swallowed. *)
WithdrawFails(p) ==
    /\ "outage" \in Faults
    /\ req[p].pc = "withdraw"
    /\ req' = [req EXCEPT ![p] = AfterRemember(@)]
    /\ missed' = missed \cup ({req[p].email} \ filter)
    /\ UNCHANGED <<users, redis, warm, spoilt>>

(* The code was sent, the transaction commits. *)
Commit(p) ==
    /\ req[p].pc = "commit"
    /\ users' = users \cup {req[p].email}
    /\ req' = [req EXCEPT ![p] = Idle]
    /\ UNCHANGED <<redis, warm, missed, spoilt>>

(* Sending the code or committing fails, or the request is cancelled. *)
Abandon(p) ==
    /\ req[p] # Idle
    /\ req' = [req EXCEPT ![p] = Idle]
    /\ UNCHANGED <<users, redis, warm, missed, spoilt>>

Next ==
    \/ \E r \in Replicas :
          \/ Start(r) \/ Drop(r) \/ ReadUsers(r) \/ AddBatch(r) \/ MarkReady(r)
          \/ RebuildFails(r) \/ ReleaseLock(r) \/ ReleaseFails(r) \/ Timeout(r) \/ Stop(r)
    \/ ExpireLock \/ RestoreSnapshot
    \/ \E p \in Requests :
          \/ \E op \in {"check", "signup"}, e \in Emails, r \in Replicas :
                GetMarker(p, op, e, r)
          \/ MayExist(p) \/ Miss(p) \/ AskDatabase(p)
          \/ Insert(p) \/ Remember(p) \/ RememberFails(p)
          \/ Withdraw(p) \/ WithdrawFails(p)
          \/ Commit(p) \/ Abandon(p)

Spec == Init /\ [][Next]_vars

-----------------------------------------------------------------------------
(* Every variable holds a value of its kind. *)
TypeOK ==
    /\ users \subseteq Emails
    /\ filter \subseteq Emails
    /\ marker \in BOOLEAN
    /\ lock \in Replicas \cup {Nil}
    /\ warm \in [Replicas -> Warm]
    /\ req \in [Requests -> Request]
    /\ missed \subseteq Emails
    /\ spoilt \in BOOLEAN

(* While the marker stands, every registered address is in the filter,     *)
(* whatever inserts and rebuilds failed, timed out or were repeated, except *)
(* in the ways EmailFilter.remember and EmailFilterWarmer leave open: a    *)
(* signup that spanned the drop and the SELECT of a rebuild, or could not  *)
(* withdraw the marker while a rebuild was filling the filter; a signup    *)
(* during which neither CF.INSERT nor DEL got through; and, until a rebuild *)
(* has had the lock to itself, a snapshot that was restored and a lock that *)
(* expired under its rebuild.  "Rebuilt unconditionally": that next rebuild *)
(* is enough, however old the snapshot and whatever it said.               *)
TrustedFilterIsComplete == marker /\ ~spoilt => users \ missed \subseteq filter

(* The lock of EmailFilterWarmer._warm does what it is for: no two replicas *)
(* drop and fill the filter at the same time, so neither marks ready a     *)
(* filter the other emptied, as long as the lock lasts as long as its      *)
(* rebuild; and once it has not, the next that is alone puts it right.     *)
OneRebuilder == ~spoilt => Cardinality(Rebuilding) <= 1

(* _RELEASE_LOCK: "a rebuild that overran its TTL cannot delete a          *)
(* successor's lock".  Short of a restored snapshot, a lock goes by        *)
(* expiring or by its holder's failed rebuild, and only then to somebody   *)
(* else.                                                                   *)
LockIsOwn ==
    [][\A r \in Replicas :
          lock = r /\ lock' # r =>
             \/ lock' = Nil /\ (warm[r].pc = "release" \/ warm' = warm)
             \/ RestoreSnapshot]_vars
=============================================================================
