------------------------------ MODULE Container ------------------------------
(***************************************************************************)
(* The IoC container: one root provider with singletons and, for each HTTP *)
(* request, a scope with its own instances that is closed when the request *)
(* ends.                                                                   *)
(*                                                                         *)
(* Requests are resolved in threads (FastAPI runs the synchronous          *)
(* dependency get_controller in its pool), so factories of different       *)
(* requests interleave; an RLock is held while a cached service is looked  *)
(* up or built.  A scope is closed only after its own thread is done, as   *)
(* the pool does not abandon a running call.                               *)
(***************************************************************************)
EXTENDS Naturals, Sequences, SequencesExt

CONSTANTS
    Types,      \* registered service types
    Lifetime,   \* "singleton", "scoped" or "transient", for each type
    Deps,       \* what a type's factory asks its resolver for, in order
    Layer,      \* a number for each type, above those of what its factory asks for
    Disposable, \* types whose instances have aclose or close
    Requests,
    Asked,      \* types a request asks its scope for
    MaxGets,    \* bound on how often it asks
    Root,       \* the root provider
    Faults      \* which of "factory" and "dispose" may raise

ASSUME RegistryAssumption ==
    /\ Lifetime \in [Types -> {"singleton", "scoped", "transient"}]
    /\ Deps \in [Types -> Seq(Types)]
    /\ Disposable \subseteq Types
    /\ Asked \subseteq Types
    /\ Root \notin Requests
    /\ MaxGets \in Nat
    /\ Faults \subseteq {"factory", "dispose"}

(* No factory asks, over whatever detours, for its own type. *)
ASSUME LayersAssumption ==
    /\ Layer \in [Types -> Nat]
    /\ \A t \in Types : \A k \in DOMAIN Deps[t] : Layer[Deps[t][k]] < Layer[t]

VARIABLES
    made,       \* every instance built: its type, provider, dependencies
    cache,      \* for each provider the instances it keeps, by number
    scope,      \* of each request: "open", "closing" or "closed"
    stack,      \* of each request's thread: the factories it is running
    gets,       \* how often a request has asked
    disposed,   \* history: the instances disposed of
    outcome     \* history: "fine", or what went wrong in a request

vars == <<made, cache, scope, stack, gets, disposed, outcome>>

Providers == Requests \cup {Root}
Cached(t) == Lifetime[t] # "transient"

(* Init: the application builds nothing before it is asked to. *)
Init ==
    /\ made = <<>>
    /\ cache = [p \in Providers |-> {}]
    /\ scope = [r \in Requests |-> "open"]
    /\ stack = [r \in Requests |-> <<>>]
    /\ gets = [r \in Requests |-> 0]
    /\ disposed = {}
    /\ outcome = [r \in Requests |-> "fine"]

(* Whom a factory of type t runs for when provider p is asked: scoped      *)
(* services belong to the scope, ServiceScope.get passes on the rest.      *)
Home(p, t) == IF Lifetime[t] = "scoped" THEN p ELSE Root

(* Seeded fault: the scopes share one dictionary. *)
InCacheShared(p, t) == {i \in UNION {cache[q] : q \in Providers} : made[i].type = t}
InCache(p, t) == {i \in cache[Home(p, t)] : made[i].type = t}

(* ServiceProvider.get refuses a scoped service. *)
Refused(p, t) == p = Root /\ Lifetime[t] = "scoped"

Holding(r) == \E k \in DOMAIN stack[r] : Cached(stack[r][k].type)
LockFree(r) == \A q \in Requests \ {r} : ~Holding(q)

-----------------------------------------------------------------------------
(* One get, by request r, of type t from provider p.  What it yields, is   *)
(* handed to the factory that asked for it, if any.                        *)

Top(r) == Last(stack[r])
Hand(s, i) == IF s = <<>> THEN s
              ELSE [s EXCEPT ![Len(s)].args = Append(@, i)]

Find(r, p, t) ==
    /\ Cached(t)
    /\ LockFree(r)
    /\ \E i \in InCache(p, t) : stack' = [stack EXCEPT ![r] = Hand(@, i)]
    /\ UNCHANGED <<made, cache, disposed, outcome>>

(* Seeded fault: a factory starts without the lock. *)
EnterUnlocked(r, p, t) ==
    /\ Cached(t) => InCache(p, t) = {}
    /\ stack' = [stack EXCEPT ![r] = Append(@, [type |-> t, home |-> Home(p, t), args |-> <<>>])]
    /\ UNCHANGED <<made, cache, disposed, outcome>>

(* Not cached, or transient: its factory starts. *)
Enter(r, p, t) ==
    /\ Cached(t) => LockFree(r) /\ InCache(p, t) = {}
    /\ stack' = [stack EXCEPT ![r] = Append(@, [type |-> t, home |-> Home(p, t), args |-> <<>>])]
    /\ UNCHANGED <<made, cache, disposed, outcome>>

(* An exception unwinds every factory the thread is in. *)
Unwind(r, what) ==
    /\ stack' = [stack EXCEPT ![r] = <<>>]
    /\ outcome' = [outcome EXCEPT ![r] = what]
    /\ UNCHANGED <<made, cache, disposed>>

Get(r, p, t) ==
    IF Refused(p, t) THEN Unwind(r, "refused") ELSE Find(r, p, t) \/ Enter(r, p, t)

(* The request asks its scope. *)
Ask(r, t) ==
    /\ stack[r] = <<>>
    /\ scope[r] = "open"
    /\ gets[r] < MaxGets
    /\ gets' = [gets EXCEPT ![r] = @ + 1]
    /\ Get(r, r, t)
    /\ UNCHANGED scope

(* A running factory asks its resolver for its next dependency. *)
Resolve(r) ==
    /\ stack[r] # <<>>
    /\ Len(Top(r).args) < Len(Deps[Top(r).type])
    /\ Get(r, Top(r).home, Deps[Top(r).type][Len(Top(r).args) + 1])
    /\ UNCHANGED <<scope, gets>>

Ready(r) == stack[r] # <<>> /\ Len(Top(r).args) = Len(Deps[Top(r).type])

(* The factory returns: the instance is kept, unless it is transient, and  *)
(* handed to whoever asked.                                                *)
Build(r) ==
    LET f == Top(r)
        i == Len(made) + 1
    IN
    /\ Ready(r)
    /\ made' = Append(made, [type |-> f.type, home |-> f.home, args |-> f.args])
    /\ cache' = [cache EXCEPT ![f.home] = IF Cached(f.type) THEN @ \cup {i} ELSE @]
    /\ stack' = [stack EXCEPT ![r] = Hand(Front(@), i)]
    /\ UNCHANGED <<scope, gets, disposed, outcome>>

FactoryFails(r) ==
    /\ "factory" \in Faults
    /\ Ready(r)
    /\ Unwind(r, "factory")
    /\ UNCHANGED <<scope, gets>>

-----------------------------------------------------------------------------
(* close: no get from here on; the instances go, the latest built first,   *)
(* with an await after each that has something to dispose of.              *)

Close(r) ==
    /\ stack[r] = <<>>
    /\ scope[r] = "open"
    /\ scope' = [scope EXCEPT ![r] = "closing"]
    /\ UNCHANGED <<made, cache, stack, gets, disposed, outcome>>

Latest(S) == {i \in S : \A j \in S : j <= i}

(* Seeded fault: the instances go in the order they were built. *)
Earliest(S) == {i \in S : \A j \in S : i <= j}
DisposeForward(r) ==
    /\ scope[r] = "closing"
    /\ \E i \in Earliest(cache[r]) :
          /\ cache' = [cache EXCEPT ![r] = @ \ {i}]
          /\ disposed' = disposed \cup {i}
    /\ UNCHANGED <<made, scope, stack, gets, outcome>>

Dispose(r) ==
    /\ scope[r] = "closing"
    /\ \E i \in Latest(cache[r]) :
          /\ cache' = [cache EXCEPT ![r] = @ \ {i}]
          /\ disposed' = disposed \cup {i}
    /\ UNCHANGED <<made, scope, stack, gets, outcome>>

(* Seeded fault: close stops at the first instance without a close method. *)
ClosedEarly(r) ==
    /\ scope[r] = "closing"
    /\ \A i \in Latest(cache[r]) : made[i].type \notin Disposable
    /\ scope' = [scope EXCEPT ![r] = "closed"]
    /\ UNCHANGED <<made, cache, stack, gets, disposed, outcome>>

Closed(r) ==
    /\ scope[r] = "closing"
    /\ cache[r] = {}
    /\ scope' = [scope EXCEPT ![r] = "closed"]
    /\ UNCHANGED <<made, cache, stack, gets, disposed, outcome>>

(* A disposal raises and leaves close, with the rest as it is. *)
DisposeFails(r) ==
    /\ "dispose" \in Faults
    /\ scope[r] = "closing"
    /\ \E i \in Latest(cache[r]) : made[i].type \in Disposable
    /\ scope' = [scope EXCEPT ![r] = "closed"]
    /\ outcome' = [outcome EXCEPT ![r] = "dispose"]
    /\ UNCHANGED <<made, cache, stack, gets, disposed>>

Next ==
    \E r \in Requests :
        \/ \E t \in Asked : Ask(r, t)
        \/ Resolve(r) \/ Build(r) \/ FactoryFails(r)
        \/ Close(r) \/ Dispose(r) \/ Closed(r) \/ DisposeFails(r)

Spec == Init /\ [][Next]_vars

-----------------------------------------------------------------------------
Numbers == 1 .. Len(made)

(* An instance, and a running factory with what it was handed so far. *)
Thing == [type : Types, home : Providers, args : Seq(Nat)]

(* Every variable holds a value of its kind; numbers name instances, those *)
(* an instance was built with are older than itself.                       *)
TypeOK ==
    /\ made \in Seq(Thing)
    /\ \A i \in Numbers : \A n \in DOMAIN made[i].args : made[i].args[n] \in 1 .. i - 1
    /\ cache \in [Providers -> SUBSET Numbers]
    /\ scope \in [Requests -> {"open", "closing", "closed"}]
    /\ stack \in [Requests -> Seq(Thing)]
    /\ \A r \in Requests : \A k \in DOMAIN stack[r] :
          \A n \in DOMAIN stack[r][k].args : stack[r][k].args[n] \in Numbers
    /\ gets \in [Requests -> 0 .. MaxGets]
    /\ disposed \subseteq Numbers
    /\ outcome \in [Requests -> {"fine", "refused", "factory", "dispose"}]

(* However threads interleave and factories fail, a provider builds a      *)
(* singleton or scoped service at most once: what a request was given is   *)
(* what it, and for a singleton everybody, is given again.                 *)
OneOfEach ==
    \A i, j \in Numbers :
        Cached(made[i].type) /\ made[i].type = made[j].type /\ made[i].home = made[j].home
            => i = j

(* What is shared never holds what belongs to a request, and no request    *)
(* holds an instance of another: in particular not its database session.   *)
NothingCrossesScopes ==
    \A i \in Numbers : \A k \in DOMAIN made[i].args :
        made[made[i].args[k]].home \in {Root, made[i].home}

(* ServiceScope.close: an instance is disposed of only after everything in *)
(* the scope that was built with it, so no service outlives the session it *)
(* works on.                                                               *)
DependentsGoFirst ==
    \A d \in disposed, i \in Numbers :
        made[i].home # Root /\ Contains(made[i].args, d) => i \in disposed

(* "Owns scoped instances and async cleanup": a scope that was closed      *)
(* without an exception has disposed of all it built, shared instances of  *)
(* the root are never disposed of by a request.                            *)
ClosedScopesAreEmpty ==
    /\ \A i \in Numbers :
          made[i].home # Root /\ scope[made[i].home] = "closed"
             /\ outcome[made[i].home] # "dispose" => i \in disposed
    /\ \A d \in disposed : made[d].home # Root
=============================================================================
