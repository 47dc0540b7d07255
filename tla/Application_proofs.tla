-------------------------- MODULE Application_proofs --------------------------
(***************************************************************************)
(* What src/backend/src/application promises to the rest: its container    *)
(* and its settings.                                                       *)
(*                                                                         *)
(* The container builds each shared service once, keeps what belongs to a  *)
(* request inside its scope and disposes of a scope's instances in order,  *)
(* for any registrations in which no factory asks for its own type, any    *)
(* number of requests and any failures.                                    *)
(*                                                                         *)
(* Settings() reports the stage it loaded, is the same everywhere in tests *)
(* and composes no value with a hole, for any fields, stages, sources and  *)
(* files.                                                                  *)
(***************************************************************************)
EXTENDS Container, SettingsLayers, SequenceTheorems, WellFoundedInduction, TLAPS

(* A provider keeps what it has built and not disposed of, unless it is    *)
(* transient.                                                              *)
Kept ==
    \A p \in Providers : \A i \in Numbers :
        i \in cache[p] <=> Cached(made[i].type) /\ made[i].home = p /\ i \notin disposed

(* Scoped instances belong to a request, the others to the root. *)
MadeBelong ==
    \A i \in Numbers :
        IF Lifetime[made[i].type] = "scoped" THEN made[i].home \in Requests
        ELSE made[i].home = Root

(* A factory runs for its request's scope or for the root, never for a     *)
(* scope under a factory of the root, and is handed nothing of another     *)
(* scope.                                                                  *)
FramesBelong ==
    \A r \in Requests : \A k \in 1 .. Len(stack[r]) :
        /\ stack[r][k].home = Home(r, stack[r][k].type)
        /\ \A n \in 1 .. Len(stack[r][k].args) :
              made[stack[r][k].args[n]].home \in {Root, stack[r][k].home}
        /\ k > 1 => stack[r][k].home \in {Root, stack[r][k - 1].home}

(* Each factory was started by one of a higher layer. *)
LayersFall ==
    \A r \in Requests : \A k, l \in 1 .. Len(stack[r]) :
        k < l => Layer[stack[r][l].type] < Layer[stack[r][k].type]

(* While a factory of a shared service runs, there is no instance of it. *)
BeingBuilt ==
    \A r \in Requests : \A k \in 1 .. Len(stack[r]) :
        Cached(stack[r][k].type) =>
            \A i \in Numbers :
                made[i].type = stack[r][k].type => made[i].home # stack[r][k].home

(* One thread at a time holds the lock. *)
OneHolds == \A q, r \in Requests : Holding(q) /\ Holding(r) => q = r

(* Factories run in open scopes, disposals happen in scopes no longer      *)
(* open, and close leaves a scope empty unless a disposal raised.          *)
ScopesEnd ==
    /\ \A r \in Requests : stack[r] # <<>> => scope[r] = "open"
    /\ \A d \in disposed : made[d].home \in Requests /\ scope[made[d].home] # "open"
    /\ \A r \in Requests : scope[r] = "closed" /\ outcome[r] # "dispose" => cache[r] = {}

IInv ==
    /\ TypeOK
    /\ Kept
    /\ MadeBelong
    /\ FramesBelong
    /\ LayersFall
    /\ BeingBuilt
    /\ OneHolds
    /\ ScopesEnd
    /\ OneOfEach
    /\ NothingCrossesScopes
    /\ DependentsGoFirst

-----------------------------------------------------------------------------
(* Sequences of instances and of running factories. *)

LEMMA ThingFields ==
    ASSUME NEW s \in Seq(Thing)
    PROVE  /\ Len(s) \in Nat /\ DOMAIN s = 1 .. Len(s)
           /\ s # <<>> => Len(s) \in 1 .. Len(s)
           /\ \A k \in 1 .. Len(s) :
                 /\ s[k] \in Thing /\ s[k].type \in Types /\ s[k].home \in Providers
                 /\ s[k].args \in Seq(Nat) /\ Len(s[k].args) \in Nat
                 /\ DOMAIN s[k].args = 1 .. Len(s[k].args)
<1>1. Len(s) \in Nat /\ DOMAIN s = 1 .. Len(s) /\ \A k \in 1 .. Len(s) : s[k] \in Thing
  BY LenProperties, ElementOfSeq
<1>2. s # <<>> => Len(s) \in 1 .. Len(s)
  BY EmptySeq, <1>1
<1>3. ASSUME NEW x \in Thing
      PROVE  /\ x.type \in Types /\ x.home \in Providers
             /\ x.args \in Seq(Nat) /\ Len(x.args) \in Nat
             /\ DOMAIN x.args = 1 .. Len(x.args)
  BY LenProperties DEF Thing
<1> QED BY <1>1, <1>2, <1>3

(* Handing an instance over changes the arguments of the last factory. *)
LEMMA HandKeeps ==
    ASSUME NEW s \in Seq(Thing), NEW i \in Nat
    PROVE  /\ Hand(s, i) \in Seq(Thing)
           /\ Len(Hand(s, i)) = Len(s)
           /\ \A k \in 1 .. Len(s) :
                 /\ Hand(s, i)[k].type = s[k].type
                 /\ Hand(s, i)[k].home = s[k].home
                 /\ Hand(s, i)[k].args = IF k = Len(s) THEN Append(s[k].args, i)
                                         ELSE s[k].args
<1>1. CASE s = <<>>
  BY <1>1, EmptySeq DEF Hand
<1>2. CASE s # <<>>
  <2> DEFINE n == Len(s)
             e == [s[n] EXCEPT !.args = Append(s[n].args, i)]
  <2>1. n \in 1 .. Len(s) /\ s[n] \in Thing /\ s[n].args \in Seq(Nat)
    BY <1>2, ThingFields
  <2>2. Append(s[n].args, i) \in Seq(Nat)
    BY <2>1, AppendProperties
  <2>3. /\ e \in Thing /\ e.type = s[n].type /\ e.home = s[n].home
        /\ e.args = Append(s[n].args, i)
    BY <2>1, <2>2 DEF Thing
  <2>4. Hand(s, i) = [s EXCEPT ![n] = e]
    BY <1>2 DEF Hand
  <2> HIDE DEF e
  <2>5. /\ [s EXCEPT ![n] = e] \in Seq(Thing)
        /\ Len([s EXCEPT ![n] = e]) = Len(s)
        /\ \A k \in 1 .. Len(s) : [s EXCEPT ![n] = e][k] = IF k = n THEN e ELSE s[k]
    BY <2>1, <2>3, ExceptSeq
  <2> QED BY <2>3, <2>4, <2>5
<1> QED BY <1>1, <1>2

LEMMA FrontKeeps ==
    ASSUME NEW s \in Seq(Thing), s # <<>>
    PROVE  /\ Front(s) \in Seq(Thing)
           /\ Len(Front(s)) = Len(s) - 1
           /\ \A k \in 1 .. Len(s) - 1 : Front(s)[k] = s[k]
<1>1. Len(s) \in Nat \ {0} /\ \A k \in 1 .. Len(s) - 1 : s[k] \in Thing
  BY ThingFields, EmptySeq
<1>2. Front(s) = SubSeq(s, 1, Len(s) - 1)
  BY DEF Front
<1>3. /\ SubSeq(s, 1, Len(s) - 1) \in Seq(Thing)
      /\ Len(SubSeq(s, 1, Len(s) - 1)) = IF 1 <= Len(s) - 1 THEN Len(s) - 1 - 1 + 1 ELSE 0
      /\ \A k \in 1 .. Len(s) - 1 - 1 + 1 : SubSeq(s, 1, Len(s) - 1)[k] = s[1 + k - 1]
  <2>1. 1 \in Int /\ Len(s) - 1 \in Int
    BY <1>1
  <2> QED BY <1>1, <2>1, SubSeqProperties
<1>4. \A n \in Nat \ {0} :
          /\ n - 1 - 1 + 1 = n - 1
          /\ n - 1 = IF 1 <= n - 1 THEN n - 1 - 1 + 1 ELSE 0
          /\ \A k \in 1 .. n - 1 : 1 + k - 1 = k
  OBVIOUS
<1>5. /\ Len(s) - 1 - 1 + 1 = Len(s) - 1
      /\ Len(s) - 1 = IF 1 <= Len(s) - 1 THEN Len(s) - 1 - 1 + 1 ELSE 0
      /\ \A k \in 1 .. Len(s) - 1 : 1 + k - 1 = k
  BY <1>1, <1>4
<1> QED BY <1>2, <1>3, <1>5

(* Appending a factory, or an instance. *)
LEMMA AppendKeeps ==
    ASSUME NEW s \in Seq(Thing), NEW e \in Thing
    PROVE  /\ Append(s, e) \in Seq(Thing)
           /\ Len(Append(s, e)) = Len(s) + 1
           /\ \A k \in 1 .. Len(s) : Append(s, e)[k] = s[k]
           /\ Append(s, e)[Len(s) + 1] = e
BY AppendProperties

-----------------------------------------------------------------------------
(* What a step does, whoever asked for what. *)

(* An exception ends every factory of the thread. *)
GivesUp(r) ==
    /\ scope[r] = "open"
    /\ stack' = [stack EXCEPT ![r] = <<>>]
    /\ \E what \in {"refused", "factory"} : outcome' = [outcome EXCEPT ![r] = what]
    /\ UNCHANGED <<made, cache, disposed, scope>>

(* The thread is handed an instance it may hold. *)
Receives(r, i) ==
    /\ scope[r] = "open"
    /\ stack[r] # <<>> => made[i].home \in {Root, stack[r][Len(stack[r])].home}
    /\ stack' = [stack EXCEPT ![r] = Hand(stack[r], i)]
    /\ UNCHANGED <<made, cache, disposed, scope, outcome>>

(* A factory starts, of a lower layer than the one that asked, with the    *)
(* lock held and no instance there if its service is shared.               *)
Frame(r, t) == [type |-> t, home |-> Home(r, t), args |-> <<>>]
Starts(r, t) ==
    /\ scope[r] = "open"
    /\ stack[r] # <<>> => /\ Layer[t] < Layer[stack[r][Len(stack[r])].type]
                          /\ Home(r, t) \in {Root, stack[r][Len(stack[r])].home}
    /\ Cached(t) => /\ LockFree(r)
                    /\ \A i \in Numbers : made[i].type = t => made[i].home # Home(r, t)
    /\ stack' = [stack EXCEPT ![r] = Append(stack[r], Frame(r, t))]
    /\ UNCHANGED <<made, cache, disposed, scope, outcome>>

(* Build, in the terms of the lemmas on sequences. *)
Returns(r, f) ==
    /\ stack[r] # <<>>
    /\ f = stack[r][Len(stack[r])]
    /\ made' = Append(made, [type |-> f.type, home |-> f.home, args |-> f.args])
    /\ cache' = [cache EXCEPT ![f.home] =
                    IF Cached(f.type) THEN cache[f.home] \cup {Len(made) + 1}
                    ELSE cache[f.home]]
    /\ stack' = [stack EXCEPT ![r] = Hand(Front(stack[r]), Len(made) + 1)]
    /\ UNCHANGED <<disposed, scope, outcome>>

LEMMA HomeIs ==
    ASSUME NEW r \in Requests, NEW t \in Types
    PROVE  /\ Home(r, t) \in {r, Root} /\ Home(r, t) \in Providers
           /\ Home(Root, t) = Root
           /\ Home(r, t) = IF Lifetime[t] = "scoped" THEN r ELSE Root
BY RegistryAssumption DEF Home, Providers

(* A get of type t, by request r from p: the scope itself or the provider  *)
(* of the factory that asks.                                               *)
LEMMA GetDoes ==
    ASSUME IInv, NEW r \in Requests, NEW p \in {r, Root}, NEW t \in Types,
           scope[r] = "open",
           IF stack[r] = <<>> THEN p = r
           ELSE /\ p = stack[r][Len(stack[r])].home
                /\ Layer[t] < Layer[stack[r][Len(stack[r])].type],
           Get(r, p, t), UNCHANGED scope
    PROVE  GivesUp(r) \/ (\E i \in Numbers : Receives(r, i)) \/ Starts(r, t)
<1>1. CASE Refused(p, t)
  BY <1>1 DEF Get, Unwind, GivesUp
<1>2. CASE ~Refused(p, t)
  <2>1. Home(p, t) = Home(r, t) /\ Home(p, t) \in {Root, p} /\ Home(p, t) \in Providers
    BY <1>2, HomeIs, RegistryAssumption DEF Refused, Home, Providers
  <2>2. InCache(p, t) = {i \in cache[Home(r, t)] : made[i].type = t}
    BY <2>1 DEF InCache
  <2>3. ASSUME Find(r, p, t)
        PROVE  \E i \in Numbers : Receives(r, i)
    <3>1. PICK i \in InCache(p, t) : stack' = [stack EXCEPT ![r] = Hand(stack[r], i)]
      BY <2>3 DEF Find
    <3>2. i \in Numbers /\ made[i].home = Home(r, t)
      BY <3>1, <2>1, <2>2 DEF IInv, TypeOK, Kept
    <3>3. stack[r] # <<>> => made[i].home \in {Root, stack[r][Len(stack[r])].home}
      BY <3>2, <2>1
    <3> QED BY <2>3, <3>1, <3>2, <3>3 DEF Receives, Find
  <2>4. ASSUME Enter(r, p, t)
        PROVE  Starts(r, t)
    <3>1. ASSUME Cached(t)
          PROVE  /\ LockFree(r)
                 /\ \A i \in Numbers : made[i].type = t => made[i].home # Home(r, t)
      <4>1. LockFree(r) /\ InCache(p, t) = {}
        BY <2>4, <3>1 DEF Enter
      <4>2. ASSUME NEW i \in Numbers, made[i].type = t, made[i].home = Home(r, t)
            PROVE  FALSE
        <5>1. i \in disposed
          BY <3>1, <4>1, <4>2, <2>1, <2>2 DEF IInv, Kept
        <5>2. made[i].home \in Requests /\ scope[made[i].home] # "open"
          BY <5>1 DEF IInv, ScopesEnd
        <5> QED BY <4>2, <5>2, HomeIs, RegistryAssumption
      <4> QED BY <4>1, <4>2
    <3>2. stack' = [stack EXCEPT ![r] = Append(stack[r], Frame(r, t))]
      BY <2>1, <2>4 DEF Enter, Frame
    <3>3. stack[r] # <<>> => /\ Layer[t] < Layer[stack[r][Len(stack[r])].type]
                             /\ Home(r, t) \in {Root, stack[r][Len(stack[r])].home}
      BY <2>1
    <3> QED BY <2>4, <3>1, <3>2, <3>3 DEF Enter, Starts
  <2> QED BY <1>2, <2>3, <2>4 DEF Get
<1> QED BY <1>1, <1>2

LEMMA AskDoes ==
    ASSUME IInv, NEW r \in Requests, NEW t \in Asked, Ask(r, t)
    PROVE  GivesUp(r) \/ (\E i \in Numbers : Receives(r, i)) \/ Starts(r, t)
<1>1. t \in Types
  BY RegistryAssumption
<1> QED BY <1>1, GetDoes DEF Ask

LEMMA ResolveDoes ==
    ASSUME IInv, NEW r \in Requests, Resolve(r)
    PROVE  GivesUp(r) \/ (\E i \in Numbers : Receives(r, i)) \/ (\E t \in Types : Starts(r, t))
<1>1. PICK f : f = stack[r][Len(stack[r])]
  OBVIOUS
<1>2. Top(r) = f /\ stack[r] # <<>> /\ Len(f.args) < Len(Deps[f.type])
  BY <1>1 DEF Resolve, Top, Last
<1>3. Len(stack[r]) \in 1 .. Len(stack[r]) /\ f.type \in Types /\ Len(f.args) \in Nat
  BY <1>1, <1>2, ThingFields DEF IInv, TypeOK
<1>4. PICK k : k = Len(f.args) + 1
  OBVIOUS
<1>5. /\ Len(Deps[f.type]) \in Nat /\ DOMAIN Deps[f.type] = 1 .. Len(Deps[f.type])
      /\ \A n \in 1 .. Len(Deps[f.type]) : Deps[f.type][n] \in Types
  BY <1>3, RegistryAssumption, LenProperties, ElementOfSeq
<1>6. k \in 1 .. Len(Deps[f.type])
  BY <1>2, <1>3, <1>4, <1>5
<1>7. PICK t \in Types : t = Deps[f.type][k] /\ Layer[t] < Layer[f.type]
  BY <1>3, <1>5, <1>6, LayersAssumption
<1>8. f.home \in {r, Root}
  BY <1>1, <1>3, HomeIs DEF IInv, FramesBelong
<1>9. Get(r, f.home, t) /\ UNCHANGED scope
  BY <1>2, <1>4, <1>7 DEF Resolve
<1>10. scope[r] = "open"
  BY <1>2 DEF IInv, ScopesEnd
<1> QED BY <1>1, <1>2, <1>7, <1>8, <1>9, <1>10, GetDoes

LEMMA BuildDoes ==
    ASSUME NEW r \in Requests, Build(r)
    PROVE  \E f : Returns(r, f)
<1>1. Returns(r, stack[r][Len(stack[r])])
  BY DEF Build, Returns, Ready, Top, Last
<1> QED BY <1>1

LEMMA FactoryFailsDoes ==
    ASSUME IInv, NEW r \in Requests, FactoryFails(r)
    PROVE  GivesUp(r)
BY DEF IInv, ScopesEnd, FactoryFails, Ready, Unwind, GivesUp

-----------------------------------------------------------------------------
(* What a step does to the stacks, factory by factory. *)

(* No factory starts; those still running are what they were. *)
FramesStay ==
    /\ stack' \in [Requests -> Seq(Thing)]
    /\ \A q \in Requests :
          /\ Len(stack'[q]) \in 0 .. Len(stack[q])
          /\ \A k \in 1 .. Len(stack'[q]) :
                /\ stack'[q][k].type = stack[q][k].type
                /\ stack'[q][k].home = stack[q][k].home

LEMMA Stacks ==
    ASSUME TypeOK, NEW q \in Requests
    PROVE  /\ stack[q] \in Seq(Thing) /\ Len(stack[q]) \in Nat
           /\ DOMAIN stack[q] = 1 .. Len(stack[q])
           /\ stack[q] # <<>> => Len(stack[q]) \in 1 .. Len(stack[q])
           /\ stack[q] = <<>> => Len(stack[q]) = 0
           /\ \A k \in 1 .. Len(stack[q]) :
                 /\ stack[q][k].type \in Types /\ stack[q][k].home \in Providers
                 /\ stack[q][k].args \in Seq(Nat) /\ Len(stack[q][k].args) \in Nat
                 /\ DOMAIN stack[q][k].args = 1 .. Len(stack[q][k].args)
<1>1. stack[q] \in Seq(Thing)
  BY DEF TypeOK
<1> QED BY <1>1, ThingFields, EmptySeq

LEMMA Instances ==
    ASSUME TypeOK
    PROVE  /\ made \in Seq(Thing) /\ Len(made) \in Nat
           /\ \A i \in Numbers :
                 /\ i \in Nat /\ made[i].type \in Types /\ made[i].home \in Providers
                 /\ made[i].args \in Seq(Nat) /\ Len(made[i].args) \in Nat
                 /\ DOMAIN made[i].args = 1 .. Len(made[i].args)
<1>1. made \in Seq(Thing)
  BY DEF TypeOK
<1>2. Len(made) \in Nat /\ \A i \in Numbers : i \in Nat
  BY <1>1, LenProperties DEF Numbers
<1> QED BY <1>1, <1>2, ThingFields DEF Numbers

LEMMA GaveUp ==
    ASSUME TypeOK, NEW r \in Requests, GivesUp(r)
    PROVE  /\ FramesStay
           /\ stack'[r] = <<>> /\ Len(stack'[r]) = 0
           /\ \A q \in Requests \ {r} : stack'[q] = stack[q]
<1>1. stack' = [stack EXCEPT ![r] = <<>>] /\ stack \in [Requests -> Seq(Thing)]
  BY DEF GivesUp, TypeOK
<1>2. <<>> \in Seq(Thing) /\ Len(<<>>) = 0
  BY EmptySeq
<1>3. stack' \in [Requests -> Seq(Thing)] /\ stack'[r] = <<>>
      /\ \A q \in Requests \ {r} : stack'[q] = stack[q]
  BY <1>1, <1>2
<1>4. ASSUME NEW q \in Requests
      PROVE  /\ Len(stack'[q]) \in 0 .. Len(stack[q])
             /\ \A k \in 1 .. Len(stack'[q]) :
                   /\ stack'[q][k].type = stack[q][k].type
                   /\ stack'[q][k].home = stack[q][k].home
  <2>1. CASE q = r
    BY <2>1, <1>2, <1>3, Stacks
  <2>2. CASE q # r
    BY <2>2, <1>3, Stacks
  <2> QED BY <2>1, <2>2
<1> QED BY <1>2, <1>3, <1>4 DEF FramesStay

LEMMA Received ==
    ASSUME TypeOK, NEW r \in Requests, NEW i \in Numbers, Receives(r, i)
    PROVE  /\ FramesStay
           /\ \A q \in Requests : Len(stack'[q]) = Len(stack[q])
           /\ \A q \in Requests : stack'[q] = <<>> <=> stack[q] = <<>>
           /\ \A q \in Requests : \A k \in 1 .. Len(stack[q]) :
                 stack'[q][k].args = IF q = r /\ k = Len(stack[q])
                                     THEN Append(stack[q][k].args, i) ELSE stack[q][k].args
<1>1. stack' = [stack EXCEPT ![r] = Hand(stack[r], i)] /\ stack \in [Requests -> Seq(Thing)]
  BY DEF Receives, TypeOK
<1>2. i \in Nat
  BY Instances
<1>3. /\ Hand(stack[r], i) \in Seq(Thing)
      /\ Len(Hand(stack[r], i)) = Len(stack[r])
      /\ \A k \in 1 .. Len(stack[r]) :
            /\ Hand(stack[r], i)[k].type = stack[r][k].type
            /\ Hand(stack[r], i)[k].home = stack[r][k].home
            /\ Hand(stack[r], i)[k].args = IF k = Len(stack[r])
                  THEN Append(stack[r][k].args, i) ELSE stack[r][k].args
  BY <1>2, Stacks, HandKeeps
<1>4. stack' \in [Requests -> Seq(Thing)] /\ stack'[r] = Hand(stack[r], i)
      /\ \A q \in Requests \ {r} : stack'[q] = stack[q]
  BY <1>1, <1>3
<1>5. ASSUME NEW q \in Requests
      PROVE  /\ Len(stack'[q]) = Len(stack[q]) /\ Len(stack[q]) \in Nat
             /\ \A k \in 1 .. Len(stack[q]) :
                   /\ stack'[q][k].type = stack[q][k].type
                   /\ stack'[q][k].home = stack[q][k].home
                   /\ stack'[q][k].args = IF q = r /\ k = Len(stack[q])
                          THEN Append(stack[q][k].args, i) ELSE stack[q][k].args
  <2>1. CASE q = r
    BY <2>1, <1>3, <1>4, Stacks
  <2>2. CASE q # r
    BY <2>2, <1>4, Stacks
  <2> QED BY <2>1, <2>2
<1>6. ASSUME NEW q \in Requests
      PROVE  stack'[q] = <<>> <=> stack[q] = <<>>
  <2>1. stack'[q] \in Seq(Thing) /\ stack[q] \in Seq(Thing)
    BY <1>1, <1>4
  <2> QED BY <2>1, <1>5, EmptySeq
<1> QED BY <1>4, <1>5, <1>6 DEF FramesStay

LEMMA Started ==
    ASSUME TypeOK, NEW r \in Requests, NEW t \in Types, Starts(r, t)
    PROVE  /\ stack' \in [Requests -> Seq(Thing)]
           /\ \A q \in Requests \ {r} : stack'[q] = stack[q]
           /\ Len(stack'[r]) = Len(stack[r]) + 1
           /\ \A k \in 1 .. Len(stack[r]) : stack'[r][k] = stack[r][k]
           /\ stack'[r][Len(stack[r]) + 1] = Frame(r, t)
           /\ Frame(r, t).type = t /\ Frame(r, t).home = Home(r, t)
           /\ Len(Frame(r, t).args) = 0 /\ DOMAIN Frame(r, t).args = {}
<1>1. /\ stack' = [stack EXCEPT ![r] = Append(stack[r], Frame(r, t))]
      /\ stack \in [Requests -> Seq(Thing)]
  BY DEF Starts, TypeOK
<1>2. Home(r, t) \in Providers /\ <<>> \in Seq(Nat) /\ Len(<<>>) = 0
  BY HomeIs, EmptySeq
<1>3. /\ Frame(r, t) \in Thing /\ Frame(r, t).type = t /\ Frame(r, t).home = Home(r, t)
      /\ Frame(r, t).args = <<>>
  BY <1>2 DEF Frame, Thing
<1>4. DOMAIN Frame(r, t).args = {} /\ Len(Frame(r, t).args) = 0
  <2>1. DOMAIN <<>> = 1 .. Len(<<>>)
    BY <1>2, LenProperties
  <2> QED BY <2>1, <1>2, <1>3
<1>5. /\ Append(stack[r], Frame(r, t)) \in Seq(Thing)
      /\ Len(Append(stack[r], Frame(r, t))) = Len(stack[r]) + 1
      /\ \A k \in 1 .. Len(stack[r]) : Append(stack[r], Frame(r, t))[k] = stack[r][k]
      /\ Append(stack[r], Frame(r, t))[Len(stack[r]) + 1] = Frame(r, t)
  BY <1>1, <1>3, AppendKeeps
<1>6. stack' \in [Requests -> Seq(Thing)] /\ stack'[r] = Append(stack[r], Frame(r, t))
      /\ \A q \in Requests \ {r} : stack'[q] = stack[q]
  BY <1>1, <1>5
<1> QED BY <1>3, <1>4, <1>5, <1>6

LEMMA Returned ==
    ASSUME TypeOK, NEW r \in Requests, NEW f, Returns(r, f)
    PROVE  /\ FramesStay
           /\ Len(stack[r]) \in 1 .. Len(stack[r])
           /\ Len(stack'[r]) = Len(stack[r]) - 1
           /\ \A k \in 1 .. Len(stack[r]) - 1 :
                 stack'[r][k].args = IF k = Len(stack[r]) - 1
                       THEN Append(stack[r][k].args, Len(made) + 1) ELSE stack[r][k].args
           /\ \A q \in Requests \ {r} : stack'[q] = stack[q]
<1> DEFINE n == Len(stack[r])
           u == Len(made) + 1
           s == Front(stack[r])
<1>1. /\ stack' = [stack EXCEPT ![r] = Hand(s, u)] /\ stack \in [Requests -> Seq(Thing)]
      /\ stack[r] # <<>>
  BY DEF Returns, TypeOK
<1>2. u \in Nat /\ n \in 1 .. n /\ n \in Nat
  BY <1>1, Instances, Stacks
<1>3. s \in Seq(Thing) /\ Len(s) = n - 1 /\ \A k \in 1 .. n - 1 : s[k] = stack[r][k]
  BY <1>1, FrontKeeps
<1> HIDE DEF s, u
<1>4. /\ Hand(s, u) \in Seq(Thing)
      /\ Len(Hand(s, u)) = n - 1
      /\ \A k \in 1 .. n - 1 :
            /\ Hand(s, u)[k].type = stack[r][k].type
            /\ Hand(s, u)[k].home = stack[r][k].home
            /\ Hand(s, u)[k].args = IF k = n - 1 THEN Append(stack[r][k].args, u)
                                    ELSE stack[r][k].args
  BY <1>2, <1>3, HandKeeps
<1>5. stack' \in [Requests -> Seq(Thing)] /\ stack'[r] = Hand(s, u)
      /\ \A q \in Requests \ {r} : stack'[q] = stack[q]
  BY <1>1, <1>4
<1>6. ASSUME NEW q \in Requests
      PROVE  /\ Len(stack'[q]) \in 0 .. Len(stack[q])
             /\ \A k \in 1 .. Len(stack'[q]) :
                   /\ stack'[q][k].type = stack[q][k].type
                   /\ stack'[q][k].home = stack[q][k].home
  <2>1. CASE q = r
    BY <2>1, <1>2, <1>4, <1>5
  <2>2. CASE q # r
    BY <2>2, <1>5, Stacks
  <2> QED BY <2>1, <2>2
<1> QED BY <1>2, <1>4, <1>5, <1>6 DEF FramesStay, u

(* What it does to the list of instances. *)
LEMMA Added ==
    ASSUME TypeOK, NEW r \in Requests, NEW f, Returns(r, f)
    PROVE  /\ made' \in Seq(Thing)
           /\ Len(made) \in Nat /\ Len(made') = Len(made) + 1
           /\ Numbers' = Numbers \cup {Len(made) + 1} /\ Len(made) + 1 \notin Numbers
           /\ Len(made) + 1 \in Numbers'
           /\ \A i \in Numbers : made'[i] = made[i]
           /\ made'[Len(made) + 1].type = f.type
           /\ made'[Len(made) + 1].home = f.home
           /\ made'[Len(made) + 1].args = f.args
           /\ f.type \in Types /\ f.home \in Providers /\ f.args \in Seq(Nat)
           /\ DOMAIN f.args = 1 .. Len(f.args)
<1> DEFINE e == [type |-> f.type, home |-> f.home, args |-> f.args]
<1>1. f.type \in Types /\ f.home \in Providers /\ f.args \in Seq(Nat)
      /\ DOMAIN f.args = 1 .. Len(f.args)
  BY Stacks DEF Returns
<1>2. e \in Thing /\ e.type = f.type /\ e.home = f.home /\ e.args = f.args
  BY <1>1 DEF Thing
<1>3. made' = Append(made, e)
  BY DEF Returns
<1> HIDE DEF e
<1>4. /\ made' \in Seq(Thing) /\ Len(made') = Len(made) + 1
      /\ \A i \in 1 .. Len(made) : made'[i] = made[i]
      /\ made'[Len(made) + 1] = e
  BY <1>2, <1>3, Instances, AppendKeeps
<1>5. Len(made) \in Nat
  BY Instances
<1>6. Numbers' = Numbers \cup {Len(made) + 1} /\ Len(made) + 1 \notin Numbers
  BY <1>4, <1>5 DEF Numbers
<1> QED BY <1>1, <1>2, <1>4, <1>5, <1>6 DEF Numbers

-----------------------------------------------------------------------------
(* Every step does one of these things for one request. *)
Effect(r) ==
    \/ GivesUp(r)
    \/ \E i \in Numbers : Receives(r, i)
    \/ \E t \in Types : Starts(r, t)
    \/ \E f : Returns(r, f)
    \/ Close(r)
    \/ Dispose(r)
    \/ Closed(r)
    \/ DisposeFails(r)

LEMMA NextDoes ==
    ASSUME IInv, Next
    PROVE  \E r \in Requests : Effect(r)
<1>1. PICK r \in Requests :
          \/ \E t \in Asked : Ask(r, t)
          \/ Resolve(r) \/ Build(r) \/ FactoryFails(r)
          \/ Close(r) \/ Dispose(r) \/ Closed(r) \/ DisposeFails(r)
  BY DEF Next
<1>2. ASSUME NEW t \in Asked, Ask(r, t)
      PROVE  Effect(r)
  <2>1. t \in Types
    BY RegistryAssumption
  <2> QED BY <1>2, <2>1, AskDoes DEF Effect
<1>3. CASE Resolve(r)
  BY <1>3, ResolveDoes DEF Effect
<1>4. CASE Build(r)
  BY <1>4, BuildDoes DEF Effect
<1>5. CASE FactoryFails(r)
  BY <1>5, FactoryFailsDoes DEF Effect
<1>6. CASE Close(r) \/ Dispose(r) \/ Closed(r) \/ DisposeFails(r)
  BY <1>6 DEF Effect
<1> QED BY <1>1, <1>2, <1>3, <1>4, <1>5, <1>6

(* Closing a scope builds nothing and runs no factory. *)
LEMMA ClosingDoes ==
    ASSUME NEW r \in Requests, Close(r) \/ Dispose(r) \/ Closed(r) \/ DisposeFails(r)
    PROVE  made' = made /\ stack' = stack /\ Numbers' = Numbers
BY DEF Close, Dispose, Closed, DisposeFails, Numbers

LEMMA Disposed ==
    ASSUME IInv, NEW r \in Requests, Dispose(r)
    PROVE  \E i \in Numbers :
              /\ i \in cache[r] /\ made[i].home = r /\ Cached(made[i].type)
              /\ \A j \in cache[r] : j <= i
              /\ cache' = [cache EXCEPT ![r] = cache[r] \ {i}]
              /\ disposed' = disposed \cup {i}
<1>1. PICK i \in Latest(cache[r]) :
          /\ cache' = [cache EXCEPT ![r] = cache[r] \ {i}]
          /\ disposed' = disposed \cup {i}
  BY DEF Dispose
<1>2. i \in cache[r] /\ \A j \in cache[r] : j <= i
  BY DEF Latest
<1>3. r \in Providers /\ i \in Numbers
  BY <1>2 DEF IInv, TypeOK, Providers
<1> QED BY <1>1, <1>2, <1>3 DEF IInv, Kept

(* What a factory has been handed after one more instance. *)
LEMMA ArgsAfter ==
    ASSUME NEW a \in Seq(Nat), NEW i \in Nat
    PROVE  /\ Append(a, i) \in Seq(Nat)
           /\ Len(a) \in Nat /\ Len(Append(a, i)) = Len(a) + 1
           /\ \A n \in 1 .. Len(a) + 1 :
                 Append(a, i)[n] = i \/ (n \in 1 .. Len(a) /\ Append(a, i)[n] = a[n])
<1>1. /\ Append(a, i) \in Seq(Nat)
      /\ Len(Append(a, i)) = Len(a) + 1
      /\ \A n \in 1 .. Len(a) : Append(a, i)[n] = a[n]
      /\ Append(a, i)[Len(a) + 1] = i
  BY AppendProperties
<1>2. Len(a) \in Nat
  BY LenProperties
<1>3. \A n \in 1 .. Len(a) + 1 : n = Len(a) + 1 \/ n \in 1 .. Len(a)
  BY <1>2
<1> QED BY <1>1, <1>2, <1>3

-----------------------------------------------------------------------------
(* TypeOK *)

LEMMA GetsBounded ==
    ASSUME TypeOK, Next
    PROVE  gets' \in [Requests -> 0 .. MaxGets]
<1>1. PICK r \in Requests :
          \/ \E t \in Asked : Ask(r, t)
          \/ Resolve(r) \/ Build(r) \/ FactoryFails(r)
          \/ Close(r) \/ Dispose(r) \/ Closed(r) \/ DisposeFails(r)
  BY DEF Next
<1>2. ASSUME NEW t \in Asked, Ask(r, t)
      PROVE  gets' \in [Requests -> 0 .. MaxGets]
  <2>1. gets[r] < MaxGets /\ gets' = [gets EXCEPT ![r] = gets[r] + 1]
    BY <1>2 DEF Ask
  <2>2. gets[r] + 1 \in 0 .. MaxGets
    BY <2>1, RegistryAssumption DEF TypeOK
  <2> QED BY <2>1, <2>2 DEF TypeOK
<1>3. CASE Resolve(r) \/ Build(r) \/ FactoryFails(r)
  BY <1>3 DEF TypeOK, Resolve, Build, FactoryFails
<1>4. CASE Close(r) \/ Dispose(r) \/ Closed(r) \/ DisposeFails(r)
  BY <1>4 DEF TypeOK, Close, Dispose, Closed, DisposeFails
<1> QED BY <1>1, <1>2, <1>3, <1>4

(* The numbers instances and factories hold name older instances. *)
MadeOfOlder ==
    \A i \in Numbers : \A n \in DOMAIN made[i].args : made[i].args[n] \in 1 .. i - 1
HandedNumbers ==
    \A r \in Requests : \A k \in DOMAIN stack[r] :
        \A n \in DOMAIN stack[r][k].args : stack[r][k].args[n] \in Numbers

LEMMA StepMadeOfOlder ==
    ASSUME IInv, NEW r \in Requests, Effect(r)
    PROVE  MadeOfOlder'
<1> USE DEF MadeOfOlder
<1>1. MadeOfOlder
  BY DEF IInv, TypeOK
<1>2. ASSUME NEW f, Returns(r, f)
      PROVE  MadeOfOlder'
  <2>1. TypeOK
    BY DEF IInv
  <2>2. ASSUME NEW i \in Numbers', NEW n \in DOMAIN made'[i].args
        PROVE  made'[i].args[n] \in 1 .. i - 1
    <3>1. CASE i \in Numbers
      BY <3>1, <1>1, <1>2, <2>1, <2>2, Added
    <3>2. CASE i = Len(made) + 1
      <4>1. made'[i].args = f.args /\ f = stack[r][Len(stack[r])]
            /\ Len(stack[r]) \in DOMAIN stack[r]
        BY <3>2, <1>2, <2>1, Added, Stacks DEF Returns
      <4>2. made'[i].args[n] \in Numbers
        BY <2>1, <2>2, <4>1 DEF TypeOK
      <4>3. i - 1 = Len(made)
        BY <2>1, <3>2, Instances
      <4> QED BY <4>2, <4>3 DEF Numbers
    <3> QED BY <3>1, <3>2, <1>2, <2>1, Added
  <2> QED BY <2>2
<1>3. CASE GivesUp(r) \/ (\E i \in Numbers : Receives(r, i)) \/ (\E t \in Types : Starts(r, t))
  BY <1>1, <1>3 DEF GivesUp, Receives, Starts, Numbers
<1>4. CASE Close(r) \/ Dispose(r) \/ Closed(r) \/ DisposeFails(r)
  BY <1>1, <1>4, ClosingDoes
<1> QED BY <1>2, <1>3, <1>4 DEF Effect

LEMMA StepHandedNumbers ==
    ASSUME IInv, NEW r \in Requests, Effect(r)
    PROVE  HandedNumbers'
<1>0. TypeOK /\ HandedNumbers
  BY DEF IInv, TypeOK, HandedNumbers
<1>a. ASSUME stack' \in [Requests -> Seq(Thing)], Numbers \subseteq Numbers',
             \A q \in Requests : \A k \in 1 .. Len(stack'[q]) :
                 \/ Len(stack'[q][k].args) = 0
                 \/ k \in 1 .. Len(stack[q]) /\ stack'[q][k].args = stack[q][k].args
                 \/ /\ k \in 1 .. Len(stack[q])
                    /\ \E i \in Numbers' : i \in Nat /\ stack'[q][k].args = Append(stack[q][k].args, i)
      PROVE  HandedNumbers'
  <2> SUFFICES ASSUME NEW q \in Requests, NEW k \in DOMAIN stack'[q],
                      NEW n \in DOMAIN stack'[q][k].args
               PROVE  stack'[q][k].args[n] \in Numbers'
    BY DEF HandedNumbers
  <2>1. k \in 1 .. Len(stack'[q]) /\ DOMAIN stack'[q][k].args = 1 .. Len(stack'[q][k].args)
    <3>1. stack'[q] \in Seq(Thing)
      BY <1>a
    <3> QED BY <3>1, ThingFields
  <2>2. n \in 1 .. Len(stack'[q][k].args) /\ Len(stack'[q][k].args) # 0
    BY <2>1
  <2>3. ASSUME k \in 1 .. Len(stack[q]), n \in 1 .. Len(stack[q][k].args)
        PROVE  stack[q][k].args[n] \in Numbers'
    BY <2>3, <1>0, <1>a, Stacks DEF HandedNumbers
  <2>4. CASE k \in 1 .. Len(stack[q]) /\ stack'[q][k].args = stack[q][k].args
    BY <2>2, <2>3, <2>4
  <2>5. ASSUME k \in 1 .. Len(stack[q]), NEW i \in Numbers', i \in Nat,
               stack'[q][k].args = Append(stack[q][k].args, i)
        PROVE  stack'[q][k].args[n] \in Numbers'
    <3>1. stack[q][k].args \in Seq(Nat)
      BY <2>5, <1>0, Stacks
    <3>2. n \in 1 .. Len(stack[q][k].args) + 1
      BY <3>1, <2>2, <2>5, ArgsAfter
    <3>3. \/ Append(stack[q][k].args, i)[n] = i
          \/ /\ n \in 1 .. Len(stack[q][k].args)
             /\ Append(stack[q][k].args, i)[n] = stack[q][k].args[n]
      BY <3>1, <3>2, <2>5, ArgsAfter
    <3> QED BY <3>3, <2>3, <2>5
  <2> QED BY <1>a, <2>1, <2>2, <2>4, <2>5
<1>1. CASE GivesUp(r)
  <2>1. /\ stack' \in [Requests -> Seq(Thing)] /\ Numbers' = Numbers
        /\ \A q \in Requests : \A k \in 1 .. Len(stack'[q]) :
              k \in 1 .. Len(stack[q]) /\ stack'[q][k].args = stack[q][k].args
    <3>1. /\ stack' \in [Requests -> Seq(Thing)]
          /\ Len(stack'[r]) = 0
          /\ \A q \in Requests \ {r} : stack'[q] = stack[q]
      BY <1>0, <1>1, GaveUp DEF FramesStay
    <3>2. Numbers' = Numbers
      BY <1>1 DEF GivesUp, Numbers
    <3>3. \A k \in 1 .. Len(stack'[r]) : FALSE
      BY <3>1
    <3> QED BY <3>1, <3>2, <3>3
  <2> QED BY <2>1, <1>a
<1>2. ASSUME NEW i \in Numbers, Receives(r, i)
      PROVE  HandedNumbers'
  <2>1. i \in Nat /\ Numbers' = Numbers
    BY <1>0, <1>2, Instances DEF Receives, Numbers
  <2>2. /\ stack' \in [Requests -> Seq(Thing)]
        /\ \A q \in Requests : \A k \in 1 .. Len(stack'[q]) :
              /\ k \in 1 .. Len(stack[q])
              /\ \/ stack'[q][k].args = stack[q][k].args
                 \/ stack'[q][k].args = Append(stack[q][k].args, i)
    <3>1. /\ FramesStay /\ \A q \in Requests : Len(stack'[q]) = Len(stack[q])
          /\ \A q \in Requests : \A k \in 1 .. Len(stack[q]) :
                \/ stack'[q][k].args = stack[q][k].args
                \/ stack'[q][k].args = Append(stack[q][k].args, i)
      <4>1. \A q \in Requests : \A k \in 1 .. Len(stack[q]) :
                stack'[q][k].args = IF q = r /\ k = Len(stack[q])
                                    THEN Append(stack[q][k].args, i) ELSE stack[q][k].args
        BY <1>0, <1>2, Received
      <4>2. FramesStay /\ \A q \in Requests : Len(stack'[q]) = Len(stack[q])
        BY <1>0, <1>2, Received
      <4> QED BY <4>1, <4>2, Zenon
    <3> QED BY <3>1 DEF FramesStay
  <2> QED BY <2>1, <2>2, <1>a
<1>3. ASSUME NEW t \in Types, Starts(r, t)
      PROVE  HandedNumbers'
  <2>1. /\ stack' \in [Requests -> Seq(Thing)] /\ Numbers' = Numbers
        /\ \A q \in Requests \ {r} : stack'[q] = stack[q]
        /\ Len(stack'[r]) = Len(stack[r]) + 1
        /\ \A k \in 1 .. Len(stack[r]) : stack'[r][k] = stack[r][k]
        /\ Len(stack'[r][Len(stack[r]) + 1].args) = 0
    BY <1>0, <1>3, Started DEF Starts, Numbers
  <2>2. \A k \in 1 .. Len(stack'[r]) : k \in 1 .. Len(stack[r]) \/ k = Len(stack[r]) + 1
    BY <2>1, <1>0, Stacks
  <2> QED BY <2>1, <2>2, <1>a
<1>4. ASSUME NEW f, Returns(r, f)
      PROVE  HandedNumbers'
  <2>1. /\ Len(made) + 1 \in Numbers' /\ Len(made) + 1 \in Nat
        /\ Numbers \subseteq Numbers'
    BY <1>0, <1>4, Added
  <2>2. /\ stack' \in [Requests -> Seq(Thing)]
        /\ \A q \in Requests \ {r} : stack'[q] = stack[q]
        /\ Len(stack'[r]) = Len(stack[r]) - 1 /\ Len(stack[r]) \in Nat
        /\ \A k \in 1 .. Len(stack[r]) - 1 :
              \/ stack'[r][k].args = stack[r][k].args
              \/ stack'[r][k].args = Append(stack[r][k].args, Len(made) + 1)
    BY <1>0, <1>4, Returned, Stacks DEF FramesStay
  <2>3. \A k \in 1 .. Len(stack'[r]) : k \in 1 .. Len(stack[r])
    BY <2>2
  <2> QED BY <2>1, <2>2, <2>3, <1>a
<1>5. CASE Close(r) \/ Dispose(r) \/ Closed(r) \/ DisposeFails(r)
  BY <1>0, <1>5, ClosingDoes DEF HandedNumbers
<1> QED BY <1>1, <1>2, <1>3, <1>4, <1>5 DEF Effect

LEMMA StepTypeOK ==
    ASSUME IInv, NEW r \in Requests, Effect(r), gets' \in [Requests -> 0 .. MaxGets]
    PROVE  TypeOK'
<1>0. TypeOK
  BY DEF IInv
<1>1. MadeOfOlder' /\ HandedNumbers'
  BY StepMadeOfOlder, StepHandedNumbers
<1>2. /\ made' \in Seq(Thing) /\ cache' \in [Providers -> SUBSET Numbers']
      /\ scope' \in [Requests -> {"open", "closing", "closed"}]
      /\ stack' \in [Requests -> Seq(Thing)] /\ disposed' \subseteq Numbers'
      /\ outcome' \in [Requests -> {"fine", "refused", "factory", "dispose"}]
  <2>q. ASSUME made' = made, cache' = cache, disposed' = disposed, scope' = scope,
               Numbers' = Numbers, stack' \in [Requests -> Seq(Thing)],
               \/ outcome' = outcome
               \/ \E what \in {"refused", "factory"} : outcome' = [outcome EXCEPT ![r] = what]
        PROVE  /\ made' \in Seq(Thing) /\ cache' \in [Providers -> SUBSET Numbers']
               /\ scope' \in [Requests -> {"open", "closing", "closed"}]
               /\ stack' \in [Requests -> Seq(Thing)] /\ disposed' \subseteq Numbers'
               /\ outcome' \in [Requests -> {"fine", "refused", "factory", "dispose"}]
    BY <1>0, <2>q DEF TypeOK
  <2>1. CASE GivesUp(r)
    <3>1. stack' \in [Requests -> Seq(Thing)]
      BY <1>0, <2>1, GaveUp DEF FramesStay
    <3>2. \E what \in {"refused", "factory"} : outcome' = [outcome EXCEPT ![r] = what]
      BY <2>1 DEF GivesUp
    <3>3. /\ made' = made /\ cache' = cache /\ disposed' = disposed /\ scope' = scope
          /\ Numbers' = Numbers
      BY <2>1 DEF GivesUp, Numbers
    <3> QED BY <2>q, <3>1, <3>2, <3>3, Zenon
  <2>2. CASE \E i \in Numbers : Receives(r, i)
    <3>1. stack' \in [Requests -> Seq(Thing)]
      BY <1>0, <2>2, Received DEF FramesStay
    <3>2. /\ made' = made /\ cache' = cache /\ disposed' = disposed /\ scope' = scope
          /\ Numbers' = Numbers /\ outcome' = outcome
      BY <2>2 DEF Receives, Numbers
    <3> QED BY <2>q, <3>1, <3>2, Zenon
  <2>3. CASE \E t \in Types : Starts(r, t)
    <3>1. stack' \in [Requests -> Seq(Thing)]
      BY <1>0, <2>3, Started
    <3>2. /\ made' = made /\ cache' = cache /\ disposed' = disposed /\ scope' = scope
          /\ Numbers' = Numbers /\ outcome' = outcome
      BY <2>3 DEF Starts, Numbers
    <3> QED BY <2>q, <3>1, <3>2, Zenon
  <2>4. ASSUME NEW f, Returns(r, f)
        PROVE  /\ made' \in Seq(Thing) /\ cache' \in [Providers -> SUBSET Numbers']
               /\ scope' \in [Requests -> {"open", "closing", "closed"}]
               /\ stack' \in [Requests -> Seq(Thing)] /\ disposed' \subseteq Numbers'
               /\ outcome' \in [Requests -> {"fine", "refused", "factory", "dispose"}]
    <3>1. made' \in Seq(Thing) /\ stack' \in [Requests -> Seq(Thing)]
          /\ Numbers' = Numbers \cup {Len(made) + 1} /\ f.home \in Providers
      BY <2>4, <1>0, Added, Returned DEF FramesStay
    <3>2. cache \in [Providers -> SUBSET Numbers'] /\ disposed \subseteq Numbers'
      BY <1>0, <3>1 DEF TypeOK
    <3>3. cache' \in [Providers -> SUBSET Numbers']
      BY <2>4, <3>1, <3>2 DEF Returns
    <3> QED BY <1>0, <2>4, <3>1, <3>2, <3>3 DEF Returns, TypeOK
  <2>5. CASE Dispose(r)
    <3>1. made' = made /\ stack' = stack /\ Numbers' = Numbers
      BY <2>5, ClosingDoes
    <3>2. PICK i \in Numbers :
              /\ cache' = [cache EXCEPT ![r] = cache[r] \ {i}]
              /\ disposed' = disposed \cup {i}
      BY <2>5, Disposed
    <3>3. cache' \in [Providers -> SUBSET Numbers] /\ disposed' \subseteq Numbers
      BY <1>0, <3>2 DEF TypeOK, Providers
    <3> QED BY <1>0, <2>5, <3>1, <3>3 DEF Dispose, TypeOK
  <2>6. CASE Close(r) \/ Closed(r) \/ DisposeFails(r)
    <3>1. made' = made /\ stack' = stack /\ Numbers' = Numbers
      BY <2>6, ClosingDoes
    <3> QED BY <1>0, <2>6, <3>1 DEF Close, Closed, DisposeFails, TypeOK
  <2> QED BY <2>1, <2>2, <2>3, <2>4, <2>5, <2>6 DEF Effect
<1> QED BY <1>1, <1>2 DEF TypeOK, MadeOfOlder, HandedNumbers

-----------------------------------------------------------------------------
(* Kept, MadeBelong *)

LEMMA QuietDoes ==
    ASSUME NEW r \in Requests,
           GivesUp(r) \/ (\E i \in Numbers : Receives(r, i)) \/ (\E t \in Types : Starts(r, t))
    PROVE  /\ made' = made /\ cache' = cache /\ disposed' = disposed /\ scope' = scope
           /\ Numbers' = Numbers /\ scope[r] = "open"
BY DEF GivesUp, Receives, Starts, Numbers

LEMMA StepKept ==
    ASSUME IInv, NEW r \in Requests, Effect(r)
    PROVE  Kept'
<1>0. TypeOK /\ Kept
  BY DEF IInv
<1>1. CASE GivesUp(r) \/ (\E i \in Numbers : Receives(r, i)) \/ (\E t \in Types : Starts(r, t))
  BY <1>0, <1>1, QuietDoes DEF Kept
<1>2. ASSUME NEW f, Returns(r, f)
      PROVE  Kept'
  <2> DEFINE u == Len(made) + 1
  <2>1. /\ Numbers' = Numbers \cup {u} /\ u \notin Numbers
        /\ \A i \in Numbers : made'[i] = made[i]
        /\ made'[u].type = f.type /\ made'[u].home = f.home /\ f.home \in Providers
    BY <1>0, <1>2, Added
  <2>2. cache' = [cache EXCEPT ![f.home] = IF Cached(f.type) THEN cache[f.home] \cup {u}
                                           ELSE cache[f.home]]
        /\ disposed' = disposed
    BY <1>2 DEF Returns
  <2>3. cache \in [Providers -> SUBSET Numbers] /\ disposed \subseteq Numbers
    BY <1>0 DEF TypeOK
  <2> HIDE DEF u
  <2>4. ASSUME NEW p \in Providers, NEW i \in Numbers
        PROVE  i \in cache'[p] <=> Cached(made'[i].type) /\ made'[i].home = p /\ i \notin disposed'
    <3>1. i # u /\ (i \in cache'[p] <=> i \in cache[p])
      BY <2>1, <2>2, <2>3
    <3> QED BY <1>0, <2>1, <2>2, <3>1 DEF Kept
  <2>5. ASSUME NEW p \in Providers
        PROVE  u \in cache'[p] <=> Cached(made'[u].type) /\ made'[u].home = p /\ u \notin disposed'
    <3>1. u \notin cache[p] /\ u \notin disposed'
      BY <2>1, <2>2, <2>3
    <3>2. u \in cache'[p] <=> p = f.home /\ Cached(f.type)
      BY <2>1, <2>2, <2>3, <3>1
    <3> QED BY <2>1, <3>1, <3>2
  <2> QED BY <2>1, <2>4, <2>5 DEF Kept
<1>3. CASE Dispose(r)
  <2>1. PICK d \in Numbers :
            /\ made[d].home = r /\ Cached(made[d].type)
            /\ cache' = [cache EXCEPT ![r] = cache[r] \ {d}]
            /\ disposed' = disposed \cup {d}
    BY <1>3, Disposed
  <2>2. made' = made /\ Numbers' = Numbers
    BY <1>3, ClosingDoes
  <2>3. cache \in [Providers -> SUBSET Numbers]
    BY <1>0 DEF TypeOK
  <2>4. ASSUME NEW p \in Providers, NEW i \in Numbers
        PROVE  i \in cache'[p] <=> Cached(made[i].type) /\ made[i].home = p /\ i \notin disposed'
    <3>1. i \in cache[p] <=> Cached(made[i].type) /\ made[i].home = p /\ i \notin disposed
      BY <1>0 DEF Kept
    <3>2. CASE i = d
      BY <3>1, <3>2, <2>1, <2>3
    <3>3. CASE i # d
      BY <3>1, <3>3, <2>1, <2>3
    <3> QED BY <3>2, <3>3
  <2> QED BY <2>2, <2>4 DEF Kept
<1>4. CASE Close(r) \/ Closed(r) \/ DisposeFails(r)
  BY <1>0, <1>4 DEF Kept, Close, Closed, DisposeFails, Numbers
<1> QED BY <1>1, <1>2, <1>3, <1>4 DEF Effect

LEMMA StepMadeBelong ==
    ASSUME IInv, NEW r \in Requests, Effect(r)
    PROVE  MadeBelong'
<1>0. TypeOK /\ MadeBelong
  BY DEF IInv
<1>1. CASE GivesUp(r) \/ (\E i \in Numbers : Receives(r, i)) \/ (\E t \in Types : Starts(r, t))
  BY <1>0, <1>1, QuietDoes DEF MadeBelong
<1>2. ASSUME NEW f, Returns(r, f)
      PROVE  MadeBelong'
  <2>1. f.type \in Types /\ f.home = Home(r, f.type)
    BY <1>2, <1>0, Added, Stacks DEF Returns, IInv, FramesBelong
  <2>2. IF Lifetime[f.type] = "scoped" THEN f.home \in Requests ELSE f.home = Root
    BY <2>1, HomeIs
  <2> QED BY <1>0, <1>2, <2>2, Added DEF MadeBelong
<1>3. CASE Close(r) \/ Dispose(r) \/ Closed(r) \/ DisposeFails(r)
  BY <1>0, <1>3, ClosingDoes DEF MadeBelong
<1> QED BY <1>1, <1>2, <1>3 DEF Effect

-----------------------------------------------------------------------------
(* LayersFall, OneHolds *)

LEMMA StepLayersFall ==
    ASSUME IInv, NEW r \in Requests, Effect(r)
    PROVE  LayersFall'
<1>0. TypeOK /\ LayersFall
  BY DEF IInv
<1>a. ASSUME FramesStay
      PROVE  LayersFall'
  <2> SUFFICES ASSUME NEW q \in Requests, NEW k \in 1 .. Len(stack'[q]),
                      NEW l \in 1 .. Len(stack'[q]), k < l
               PROVE  Layer[stack'[q][l].type] < Layer[stack'[q][k].type]
    BY DEF LayersFall
  <2>1. /\ k \in 1 .. Len(stack[q]) /\ stack'[q][k].type = stack[q][k].type
        /\ l \in 1 .. Len(stack[q]) /\ stack'[q][l].type = stack[q][l].type
    BY <1>0, <1>a, Stacks DEF FramesStay
  <2> QED BY <1>0, <2>1 DEF LayersFall
<1>1. CASE GivesUp(r)
  BY <1>0, <1>1, <1>a, GaveUp
<1>2. CASE \E i \in Numbers : Receives(r, i)
  BY <1>0, <1>2, <1>a, Received
<1>3. ASSUME NEW t \in Types, Starts(r, t)
      PROVE  LayersFall'
  <2>1. /\ \A q \in Requests \ {r} : stack'[q] = stack[q]
        /\ Len(stack'[r]) = Len(stack[r]) + 1
        /\ \A k \in 1 .. Len(stack[r]) : stack'[r][k] = stack[r][k]
        /\ stack'[r][Len(stack[r]) + 1].type = t
    BY <1>0, <1>3, Started
  <2> SUFFICES ASSUME NEW k \in 1 .. Len(stack'[r]), NEW l \in 1 .. Len(stack'[r]), k < l
               PROVE  Layer[stack'[r][l].type] < Layer[stack'[r][k].type]
    BY <1>0, <2>1 DEF LayersFall
  <2>2. Len(stack[r]) \in Nat
    BY <1>0, Stacks
  <2>3. k \in 1 .. Len(stack[r])
    BY <2>1, <2>2
  <2>4. CASE l \in 1 .. Len(stack[r])
    BY <1>0, <2>1, <2>3, <2>4 DEF LayersFall
  <2>5. CASE l = Len(stack[r]) + 1
    <3>1. stack[r] # <<>> /\ Len(stack[r]) \in 1 .. Len(stack[r])
      BY <1>0, <2>3, Stacks
    <3>2. Layer[t] < Layer[stack[r][Len(stack[r])].type]
      BY <1>3, <3>1 DEF Starts
    <3>3. \/ k = Len(stack[r])
          \/ Layer[stack[r][Len(stack[r])].type] < Layer[stack[r][k].type]
      BY <1>0, <2>2, <2>3, <3>1 DEF LayersFall
    <3>4. /\ Layer[t] \in Nat /\ Layer[stack[r][k].type] \in Nat
          /\ Layer[stack[r][Len(stack[r])].type] \in Nat
      BY <1>0, <2>3, <3>1, Stacks, LayersAssumption
    <3>5. Layer[t] < Layer[stack[r][k].type]
      BY <3>2, <3>3, <3>4
    <3> QED BY <2>1, <2>3, <2>5, <3>5
  <2> QED BY <2>1, <2>2, <2>4, <2>5
<1>4. ASSUME NEW f, Returns(r, f)
      PROVE  LayersFall'
  BY <1>0, <1>4, <1>a, Returned
<1>5. CASE Close(r) \/ Dispose(r) \/ Closed(r) \/ DisposeFails(r)
  BY <1>0, <1>5, ClosingDoes DEF LayersFall
<1> QED BY <1>1, <1>2, <1>3, <1>4, <1>5 DEF Effect

LEMMA StepOneHolds ==
    ASSUME IInv, NEW r \in Requests, Effect(r)
    PROVE  OneHolds'
<1>0. TypeOK /\ OneHolds
  BY DEF IInv
<1>a. ASSUME stack' \in [Requests -> Seq(Thing)], NEW q \in Requests,
             \A k \in 1 .. Len(stack'[q]) :
                 k \in 1 .. Len(stack[q]) /\ stack'[q][k].type = stack[q][k].type
      PROVE  Holding(q)' => Holding(q)
  <2>1. DOMAIN stack'[q] = 1 .. Len(stack'[q]) /\ DOMAIN stack[q] = 1 .. Len(stack[q])
    BY <1>0, <1>a, Stacks, ThingFields
  <2> QED BY <1>a, <2>1 DEF Holding
<1>b. ASSUME FramesStay
      PROVE  OneHolds'
  <2>1. ASSUME NEW q \in Requests
        PROVE  Holding(q)' => Holding(q)
    <3>1. \A k \in 1 .. Len(stack'[q]) :
              k \in 1 .. Len(stack[q]) /\ stack'[q][k].type = stack[q][k].type
      BY <1>0, <1>b, Stacks DEF FramesStay
    <3> QED BY <1>a, <1>b, <3>1 DEF FramesStay
  <2> QED BY <1>0, <2>1 DEF OneHolds
<1>1. CASE GivesUp(r)
  BY <1>0, <1>1, <1>b, GaveUp
<1>2. CASE \E i \in Numbers : Receives(r, i)
  BY <1>0, <1>2, <1>b, Received
<1>3. ASSUME NEW t \in Types, Starts(r, t)
      PROVE  OneHolds'
  <2>1. /\ stack' \in [Requests -> Seq(Thing)]
        /\ \A q \in Requests \ {r} : stack'[q] = stack[q]
        /\ Len(stack'[r]) = Len(stack[r]) + 1 /\ Len(stack[r]) \in Nat
        /\ \A k \in 1 .. Len(stack[r]) : stack'[r][k] = stack[r][k]
        /\ stack'[r][Len(stack[r]) + 1].type = t
    <3>1. Len(stack[r]) \in Nat
      BY <1>0, Stacks
    <3> QED BY <1>0, <1>3, <3>1, Started
  <2>2. \A q \in Requests \ {r} : Holding(q)' => Holding(q)
    BY <2>1 DEF Holding
  <2>3. CASE Cached(t)
    <3>1. \A q \in Requests \ {r} : ~Holding(q)
      BY <1>3, <2>3 DEF Starts, LockFree
    <3> QED BY <2>2, <3>1 DEF OneHolds
  <2>4. CASE ~Cached(t)
    <3>1. Holding(r)' => Holding(r)
      <4>1. /\ DOMAIN stack'[r] = 1 .. Len(stack[r]) + 1
            /\ DOMAIN stack[r] = 1 .. Len(stack[r])
        BY <1>0, <2>1, Stacks, ThingFields
      <4>2. \A k \in DOMAIN stack'[r] : k \in DOMAIN stack[r] \/ k = Len(stack[r]) + 1
        BY <2>1, <4>1
      <4> QED BY <2>1, <2>4, <4>1, <4>2 DEF Holding
    <3> QED BY <1>0, <2>2, <3>1 DEF OneHolds
  <2> QED BY <2>3, <2>4
<1>4. ASSUME NEW f, Returns(r, f)
      PROVE  OneHolds'
  BY <1>0, <1>4, <1>b, Returned
<1>5. CASE Close(r) \/ Dispose(r) \/ Closed(r) \/ DisposeFails(r)
  BY <1>0, <1>5, ClosingDoes DEF OneHolds, Holding
<1> QED BY <1>1, <1>2, <1>3, <1>4, <1>5 DEF Effect

-----------------------------------------------------------------------------
(* FramesBelong, in three parts. *)

HomesFit ==
    \A r \in Requests : \A k \in 1 .. Len(stack[r]) :
        stack[r][k].home = Home(r, stack[r][k].type)
HandedFit ==
    \A r \in Requests : \A k \in 1 .. Len(stack[r]) : \A n \in 1 .. Len(stack[r][k].args) :
        made[stack[r][k].args[n]].home \in {Root, stack[r][k].home}
Nested ==
    \A r \in Requests : \A k \in 1 .. Len(stack[r]) :
        k > 1 => stack[r][k].home \in {Root, stack[r][k - 1].home}

LEMMA FramesBelongParts == FramesBelong <=> HomesFit /\ HandedFit /\ Nested
BY DEF FramesBelong, HomesFit, HandedFit, Nested

LEMMA StepHomesNested ==
    ASSUME IInv, NEW r \in Requests, Effect(r)
    PROVE  (HomesFit /\ Nested)'
<1>0. TypeOK /\ HomesFit /\ Nested
  BY FramesBelongParts DEF IInv
<1>a. ASSUME FramesStay
      PROVE  (HomesFit /\ Nested)'
  <2>1. ASSUME NEW q \in Requests, NEW k \in 1 .. Len(stack'[q])
        PROVE  /\ stack'[q][k].home = Home(q, stack'[q][k].type)
               /\ k > 1 => stack'[q][k].home \in {Root, stack'[q][k - 1].home}
    <3>1. /\ k \in 1 .. Len(stack[q]) /\ Len(stack'[q]) \in Nat
          /\ stack'[q][k].type = stack[q][k].type /\ stack'[q][k].home = stack[q][k].home
      BY <1>0, <1>a, <2>1, Stacks DEF FramesStay
    <3>2. k > 1 => k - 1 \in 1 .. Len(stack'[q])
      BY <3>1
    <3>3. k > 1 => stack'[q][k - 1].home = stack[q][k - 1].home
      BY <1>a, <3>2 DEF FramesStay
    <3> QED BY <1>0, <3>1, <3>3 DEF HomesFit, Nested
  <2> QED BY <2>1 DEF HomesFit, Nested
<1>1. CASE GivesUp(r)
  BY <1>0, <1>1, <1>a, GaveUp
<1>2. CASE \E i \in Numbers : Receives(r, i)
  BY <1>0, <1>2, <1>a, Received
<1>3. ASSUME NEW t \in Types, Starts(r, t)
      PROVE  (HomesFit /\ Nested)'
  <2>1. /\ \A q \in Requests \ {r} : stack'[q] = stack[q]
        /\ Len(stack'[r]) = Len(stack[r]) + 1 /\ Len(stack[r]) \in Nat
        /\ \A k \in 1 .. Len(stack[r]) : stack'[r][k] = stack[r][k]
        /\ stack'[r][Len(stack[r]) + 1].type = t
        /\ stack'[r][Len(stack[r]) + 1].home = Home(r, t)
    <3>1. Len(stack[r]) \in Nat
      BY <1>0, Stacks
    <3> QED BY <1>0, <1>3, <3>1, Started
  <2>2. ASSUME NEW k \in 1 .. Len(stack'[r])
        PROVE  /\ stack'[r][k].home = Home(r, stack'[r][k].type)
               /\ k > 1 => stack'[r][k].home \in {Root, stack'[r][k - 1].home}
    <3>1. CASE k \in 1 .. Len(stack[r])
      <4>1. k > 1 => k - 1 \in 1 .. Len(stack[r])
        BY <2>1, <3>1
      <4> QED BY <1>0, <2>1, <3>1, <4>1 DEF HomesFit, Nested
    <3>2. CASE k = Len(stack[r]) + 1
      <4>1. k > 1 => k - 1 = Len(stack[r]) /\ Len(stack[r]) \in 1 .. Len(stack[r])
        BY <2>1, <3>2
      <4>2. k > 1 => stack[r] # <<>>
        BY <4>1, EmptySeq
      <4>3. k > 1 => Home(r, t) \in {Root, stack[r][Len(stack[r])].home}
        BY <1>3, <4>2 DEF Starts
      <4> QED BY <2>1, <3>2, <4>1, <4>3
    <3> QED BY <2>1, <3>1, <3>2
  <2>3. ASSUME NEW q \in Requests, q # r, NEW k \in 1 .. Len(stack'[q])
        PROVE  /\ stack'[q][k].home = Home(q, stack'[q][k].type)
               /\ k > 1 => stack'[q][k].home \in {Root, stack'[q][k - 1].home}
    <3>1. stack'[q] = stack[q]
      BY <2>1, <2>3
    <3> QED BY <1>0, <2>3, <3>1 DEF HomesFit, Nested
  <2>4. HomesFit'
    BY <2>2, <2>3 DEF HomesFit
  <2>5. Nested'
    BY <2>2, <2>3 DEF Nested
  <2> QED BY <2>4, <2>5
<1>4. ASSUME NEW f, Returns(r, f)
      PROVE  (HomesFit /\ Nested)'
  BY <1>0, <1>4, <1>a, Returned
<1>5. CASE Close(r) \/ Dispose(r) \/ Closed(r) \/ DisposeFails(r)
  BY <1>0, <1>5, ClosingDoes DEF HomesFit, Nested
<1> QED BY <1>1, <1>2, <1>3, <1>4, <1>5 DEF Effect

LEMMA StepHandedFit ==
    ASSUME IInv, NEW r \in Requests, Effect(r)
    PROVE  HandedFit'
<1>0. TypeOK /\ HandedFit /\ Nested
  BY FramesBelongParts DEF IInv
<1>n. ASSUME NEW q \in Requests, NEW k \in 1 .. Len(stack[q]),
             NEW n \in 1 .. Len(stack[q][k].args)
      PROVE  stack[q][k].args[n] \in Numbers
  BY <1>0, Stacks DEF TypeOK
<1>a. ASSUME \A i \in Numbers : made'[i] = made[i],
             \A q \in Requests : \A k \in 1 .. Len(stack'[q]) :
                 \/ Len(stack'[q][k].args) = 0
                 \/ /\ k \in 1 .. Len(stack[q]) /\ stack'[q][k].home = stack[q][k].home
                    /\ \/ stack'[q][k].args = stack[q][k].args
                       \/ \E i \in Nat :
                             /\ stack'[q][k].args = Append(stack[q][k].args, i)
                             /\ made'[i].home \in {Root, stack[q][k].home}
      PROVE  HandedFit'
  <2> SUFFICES ASSUME NEW q \in Requests, NEW k \in 1 .. Len(stack'[q]),
                      NEW n \in 1 .. Len(stack'[q][k].args)
               PROVE  made'[stack'[q][k].args[n]].home \in {Root, stack'[q][k].home}
    BY DEF HandedFit
  <2>1. Len(stack'[q][k].args) # 0
    OBVIOUS
  <2>2. ASSUME k \in 1 .. Len(stack[q]), n \in 1 .. Len(stack[q][k].args)
        PROVE  made'[stack[q][k].args[n]].home \in {Root, stack[q][k].home}
    <3>1. made[stack[q][k].args[n]].home \in {Root, stack[q][k].home}
      BY <1>0, <2>2 DEF HandedFit
    <3>2. stack[q][k].args[n] \in Numbers
      BY <1>n, <2>2
    <3>3. made'[stack[q][k].args[n]] = made[stack[q][k].args[n]]
      BY <1>a, <3>2
    <3> QED BY <3>1, <3>3
  <2>3. CASE /\ k \in 1 .. Len(stack[q]) /\ stack'[q][k].home = stack[q][k].home
             /\ stack'[q][k].args = stack[q][k].args
    BY <2>2, <2>3
  <2>4. ASSUME k \in 1 .. Len(stack[q]), stack'[q][k].home = stack[q][k].home,
               NEW i \in Nat,
               stack'[q][k].args = Append(stack[q][k].args, i),
               made'[i].home \in {Root, stack[q][k].home}
        PROVE  made'[stack'[q][k].args[n]].home \in {Root, stack'[q][k].home}
    <3>1. stack[q][k].args \in Seq(Nat)
      BY <2>4, <1>0, Stacks
    <3>2. n \in 1 .. Len(stack[q][k].args) + 1
      BY <2>4, <3>1, ArgsAfter
    <3>3. \/ Append(stack[q][k].args, i)[n] = i
          \/ /\ n \in 1 .. Len(stack[q][k].args)
             /\ Append(stack[q][k].args, i)[n] = stack[q][k].args[n]
      BY <3>1, <3>2, ArgsAfter
    <3> QED BY <3>3, <2>2, <2>4
  <2> QED BY <1>a, <2>1, <2>3, <2>4
<1>1. CASE GivesUp(r)
  <2>1. /\ Len(stack'[r]) = 0
        /\ \A q \in Requests \ {r} : stack'[q] = stack[q]
    BY <1>0, <1>1, GaveUp
  <2>2. \A k \in 1 .. Len(stack'[r]) : FALSE
    BY <2>1
  <2> QED BY <2>1, <2>2, <1>1, <1>a, QuietDoes
<1>2. ASSUME NEW i \in Numbers, Receives(r, i)
      PROVE  HandedFit'
  <2>1. i \in Nat /\ made' = made
    BY <1>0, <1>2, Instances DEF Receives
  <2>2. ASSUME NEW q \in Requests, NEW k \in 1 .. Len(stack'[q])
        PROVE  /\ k \in 1 .. Len(stack[q]) /\ stack'[q][k].home = stack[q][k].home
               /\ \/ stack'[q][k].args = stack[q][k].args
                  \/ /\ stack'[q][k].args = Append(stack[q][k].args, i)
                     /\ made'[i].home \in {Root, stack[q][k].home}
    <3>1. k \in 1 .. Len(stack[q]) /\ stack'[q][k].home = stack[q][k].home
      BY <1>0, <1>2, Received DEF FramesStay
    <3>2. stack'[q][k].args = IF q = r /\ k = Len(stack[q])
                              THEN Append(stack[q][k].args, i) ELSE stack[q][k].args
      BY <1>0, <1>2, <3>1, Received
    <3>3. q = r /\ k = Len(stack[q]) => made[i].home \in {Root, stack[q][k].home}
      <4>1. stack[q] # <<>>
        BY <3>1, EmptySeq
      <4> QED BY <4>1, <1>2 DEF Receives
    <3> QED BY <2>1, <3>1, <3>2, <3>3
  <2> QED BY <2>1, <2>2, <1>a
<1>3. ASSUME NEW t \in Types, Starts(r, t)
      PROVE  HandedFit'
  <2>1. /\ \A q \in Requests \ {r} : stack'[q] = stack[q]
        /\ Len(stack'[r]) = Len(stack[r]) + 1 /\ Len(stack[r]) \in Nat
        /\ \A k \in 1 .. Len(stack[r]) : stack'[r][k] = stack[r][k]
        /\ Len(stack'[r][Len(stack[r]) + 1].args) = 0
    <3>1. Len(stack[r]) \in Nat
      BY <1>0, Stacks
    <3> QED BY <1>0, <1>3, <3>1, Started
  <2>2. \A k \in 1 .. Len(stack'[r]) : k \in 1 .. Len(stack[r]) \/ k = Len(stack[r]) + 1
    BY <2>1
  <2>3. made' = made
    BY <1>3 DEF Starts
  <2> QED BY <2>1, <2>2, <2>3, <1>a
<1>4. ASSUME NEW f, Returns(r, f)
      PROVE  HandedFit'
  <2> DEFINE u == Len(made) + 1
             m == Len(stack[r]) - 1
  <2>1. /\ u \in Nat /\ \A i \in Numbers : made'[i] = made[i]
        /\ made'[u].home = f.home
    BY <1>0, <1>4, Added
  <2>2. /\ FramesStay /\ Len(stack'[r]) = m /\ m + 1 \in 1 .. Len(stack[r])
        /\ Len(stack[r]) \in Nat
        /\ \A k \in 1 .. m : stack'[r][k].args = IF k = m THEN Append(stack[r][k].args, u)
                                                 ELSE stack[r][k].args
        /\ \A q \in Requests \ {r} : stack'[q] = stack[q]
    <3>1. Len(stack[r]) \in Nat
      BY <1>0, Stacks
    <3>2. m + 1 = Len(stack[r])
      BY <3>1
    <3> QED BY <1>0, <1>4, <3>1, <3>2, Returned
  <2>3. m \in 1 .. m => f.home \in {Root, stack[r][m].home}
    <3>1. f.home = stack[r][Len(stack[r])].home
      BY <1>4 DEF Returns
    <3>2. m \in 1 .. m => Len(stack[r]) > 1 /\ Len(stack[r]) \in 1 .. Len(stack[r])
      BY <2>2
    <3> QED BY <1>0, <3>1, <3>2 DEF Nested
  <2> HIDE DEF u
  <2>4. ASSUME NEW k \in 1 .. Len(stack'[r])
        PROVE  /\ k \in 1 .. Len(stack[r]) /\ stack'[r][k].home = stack[r][k].home
               /\ \/ stack'[r][k].args = stack[r][k].args
                  \/ /\ stack'[r][k].args = Append(stack[r][k].args, u)
                     /\ made'[u].home \in {Root, stack[r][k].home}
    <3>1. k \in 1 .. m /\ k \in 1 .. Len(stack[r])
      BY <2>2
    <3>2. stack'[r][k].home = stack[r][k].home
      BY <2>2 DEF FramesStay
    <3> QED BY <2>1, <2>2, <2>3, <3>1, <3>2
  <2>5. ASSUME NEW q \in Requests, q # r, NEW k \in 1 .. Len(stack'[q])
        PROVE  /\ k \in 1 .. Len(stack[q]) /\ stack'[q][k].home = stack[q][k].home
               /\ stack'[q][k].args = stack[q][k].args
    BY <2>2, <2>5
  <2>6. ASSUME NEW q \in Requests, NEW k \in 1 .. Len(stack'[q])
        PROVE  /\ k \in 1 .. Len(stack[q]) /\ stack'[q][k].home = stack[q][k].home
               /\ \/ stack'[q][k].args = stack[q][k].args
                  \/ \E i \in Nat :
                        /\ stack'[q][k].args = Append(stack[q][k].args, i)
                        /\ made'[i].home \in {Root, stack[q][k].home}
    <3>1. CASE q = r
      BY <2>1, <2>4, <2>6, <3>1
    <3>2. CASE q # r
      BY <2>5, <2>6, <3>2
    <3> QED BY <3>1, <3>2
  <2> QED BY <2>1, <2>6, <1>a
<1>5. CASE Close(r) \/ Dispose(r) \/ Closed(r) \/ DisposeFails(r)
  BY <1>0, <1>5, ClosingDoes DEF HandedFit
<1> QED BY <1>1, <1>2, <1>3, <1>4, <1>5 DEF Effect

LEMMA StepFramesBelong ==
    ASSUME IInv, NEW r \in Requests, Effect(r)
    PROVE  FramesBelong'
BY StepHomesNested, StepHandedFit DEF FramesBelong, HomesFit, HandedFit, Nested

-----------------------------------------------------------------------------
(* BeingBuilt, OneOfEach *)

LEMMA StepBeingBuilt ==
    ASSUME IInv, NEW r \in Requests, Effect(r)
    PROVE  BeingBuilt'
<1>0. TypeOK /\ BeingBuilt
  BY DEF IInv
<1>a. ASSUME FramesStay, Numbers' = Numbers, made' = made
      PROVE  BeingBuilt'
  <2>1. ASSUME NEW q \in Requests, NEW k \in 1 .. Len(stack'[q])
        PROVE  /\ k \in 1 .. Len(stack[q])
               /\ stack'[q][k].type = stack[q][k].type /\ stack'[q][k].home = stack[q][k].home
    BY <1>0, <1>a, <2>1, Stacks DEF FramesStay
  <2> QED BY <1>0, <1>a, <2>1 DEF BeingBuilt
<1>1. CASE GivesUp(r)
  BY <1>0, <1>1, <1>a, GaveUp, QuietDoes
<1>2. CASE \E i \in Numbers : Receives(r, i)
  BY <1>0, <1>2, <1>a, Received, QuietDoes
<1>3. ASSUME NEW t \in Types, Starts(r, t)
      PROVE  BeingBuilt'
  <2>1. /\ \A q \in Requests \ {r} : stack'[q] = stack[q]
        /\ Len(stack'[r]) = Len(stack[r]) + 1 /\ Len(stack[r]) \in Nat
        /\ \A k \in 1 .. Len(stack[r]) : stack'[r][k] = stack[r][k]
        /\ stack'[r][Len(stack[r]) + 1].type = t
        /\ stack'[r][Len(stack[r]) + 1].home = Home(r, t)
    <3>1. Len(stack[r]) \in Nat
      BY <1>0, Stacks
    <3> QED BY <1>0, <1>3, <3>1, Started
  <2>2. made' = made /\ Numbers' = Numbers
    BY <1>3, QuietDoes
  <2>3. \A k \in 1 .. Len(stack'[r]) : k \in 1 .. Len(stack[r]) \/ k = Len(stack[r]) + 1
    BY <2>1
  <2>4. Cached(t) => \A i \in Numbers : made[i].type = t => made[i].home # Home(r, t)
    BY <1>3 DEF Starts
  <2>5. ASSUME NEW q \in Requests, NEW k \in 1 .. Len(stack'[q]),
               Cached(stack'[q][k].type), NEW i \in Numbers, made[i].type = stack'[q][k].type
        PROVE  made[i].home # stack'[q][k].home
    <3>1. CASE q = r /\ k = Len(stack[r]) + 1
      BY <2>1, <2>4, <2>5, <3>1
    <3>2. CASE ~(q = r /\ k = Len(stack[r]) + 1)
      <4>1. k \in 1 .. Len(stack[q]) /\ stack'[q][k] = stack[q][k]
        BY <2>1, <2>3, <3>2
      <4> QED BY <1>0, <2>5, <4>1 DEF BeingBuilt
    <3> QED BY <3>1, <3>2
  <2> QED BY <2>2, <2>5 DEF BeingBuilt
<1>4. ASSUME NEW f, Returns(r, f)
      PROVE  BeingBuilt'
  <2> DEFINE u == Len(made) + 1
             n == Len(stack[r])
  <2>1. /\ Numbers' = Numbers \cup {u}
        /\ \A i \in Numbers : made'[i] = made[i]
        /\ made'[u].type = f.type /\ made'[u].home = f.home
    BY <1>0, <1>4, Added
  <2>2. /\ FramesStay /\ n \in 1 .. n /\ Len(stack'[r]) = n - 1
        /\ f = stack[r][n]
    BY <1>0, <1>4, Returned DEF Returns
  <2>3. ASSUME NEW q \in Requests, NEW k \in 1 .. Len(stack'[q])
        PROVE  /\ k \in 1 .. Len(stack[q])
               /\ stack'[q][k].type = stack[q][k].type /\ stack'[q][k].home = stack[q][k].home
    BY <1>0, <2>2, <2>3, Stacks DEF FramesStay
  <2>4. ASSUME NEW q \in Requests, NEW k \in 1 .. Len(stack'[q]), Cached(stack[q][k].type)
        PROVE  f.type # stack[q][k].type
    <3>1. CASE q = r
      <4>1. k \in 1 .. n /\ k < n
        BY <2>2, <3>1
      <4>2. Layer[f.type] < Layer[stack[r][k].type]
        BY <2>2, <4>1 DEF IInv, LayersFall
      <4>3. Layer[f.type] \in Nat
        BY <1>0, <2>2, Stacks, LayersAssumption
      <4> QED BY <3>1, <4>2, <4>3
    <3>2. CASE q # r
      <4>1. SUFFICES ASSUME f.type = stack[q][k].type
                     PROVE  FALSE
        OBVIOUS
      <4>2. Holding(q) /\ Holding(r)
        BY <1>0, <2>2, <2>3, <2>4, <4>1, Stacks DEF Holding
      <4> QED BY <3>2, <4>2 DEF IInv, OneHolds
    <3> QED BY <3>1, <3>2
  <2> HIDE DEF u, n
  <2>5. ASSUME NEW q \in Requests, NEW k \in 1 .. Len(stack'[q]),
               Cached(stack[q][k].type), NEW i \in Numbers', made'[i].type = stack[q][k].type
        PROVE  made'[i].home # stack[q][k].home
    <3>1. CASE i \in Numbers
      BY <1>0, <2>1, <2>3, <2>5, <3>1 DEF BeingBuilt
    <3>2. CASE i = u
      BY <2>1, <2>4, <2>5, <3>2
    <3> QED BY <2>1, <3>1, <3>2
  <2> QED BY <2>3, <2>5 DEF BeingBuilt
<1>5. CASE Close(r) \/ Dispose(r) \/ Closed(r) \/ DisposeFails(r)
  BY <1>0, <1>5, ClosingDoes DEF BeingBuilt
<1> QED BY <1>1, <1>2, <1>3, <1>4, <1>5 DEF Effect

(* What a factory returns is the first of its kind. *)
LEMMA ReturnsTheFirst ==
    ASSUME IInv, NEW r \in Requests, NEW f, Returns(r, f), Cached(f.type),
           NEW i \in Numbers, made[i].type = f.type
    PROVE  made[i].home # f.home
<1>1. Len(stack[r]) \in 1 .. Len(stack[r]) /\ f = stack[r][Len(stack[r])]
  BY Returned DEF Returns, IInv
<1> QED BY <1>1 DEF IInv, BeingBuilt

LEMMA StepOneOfEach ==
    ASSUME IInv, NEW r \in Requests, Effect(r)
    PROVE  OneOfEach'
<1>0. TypeOK /\ OneOfEach
  BY DEF IInv
<1>1. CASE GivesUp(r) \/ (\E i \in Numbers : Receives(r, i)) \/ (\E t \in Types : Starts(r, t))
  BY <1>0, <1>1, QuietDoes DEF OneOfEach
<1>2. ASSUME NEW f, Returns(r, f)
      PROVE  OneOfEach'
  <2> DEFINE u == Len(made) + 1
  <2>1. /\ Numbers' = Numbers \cup {u}
        /\ \A i \in Numbers : made'[i] = made[i]
        /\ made'[u].type = f.type /\ made'[u].home = f.home
    BY <1>0, <1>2, Added
  <2>2. \A i \in Numbers : Cached(f.type) /\ made[i].type = f.type => made[i].home # f.home
    BY <1>2, ReturnsTheFirst
  <2> HIDE DEF u
  <2>3. ASSUME NEW i \in Numbers', NEW j \in Numbers', Cached(made'[i].type),
               made'[i].type = made'[j].type, made'[i].home = made'[j].home
        PROVE  i = j
    <3>1. CASE i \in Numbers /\ j \in Numbers
      BY <1>0, <2>1, <2>3, <3>1 DEF OneOfEach
    <3>2. CASE i = u \/ j = u
      BY <2>1, <2>2, <2>3, <3>2
    <3> QED BY <2>1, <3>1, <3>2
  <2> QED BY <2>3 DEF OneOfEach
<1>3. CASE Close(r) \/ Dispose(r) \/ Closed(r) \/ DisposeFails(r)
  BY <1>0, <1>3, ClosingDoes DEF OneOfEach
<1> QED BY <1>1, <1>2, <1>3 DEF Effect

-----------------------------------------------------------------------------
(* ScopesEnd, NothingCrossesScopes, DependentsGoFirst *)

LEMMA StepScopesEnd ==
    ASSUME IInv, NEW r \in Requests, Effect(r)
    PROVE  ScopesEnd'
<1>0. TypeOK /\ ScopesEnd /\ r \in Providers
  BY DEF IInv, Providers
<1>1. \A q \in Requests : stack'[q] # <<>> => scope'[q] = "open"
  <2>1. CASE GivesUp(r)
    BY <1>0, <2>1, GaveUp DEF GivesUp, ScopesEnd
  <2>2. ASSUME NEW i \in Numbers, Receives(r, i)
        PROVE  \A q \in Requests : stack'[q] # <<>> => scope'[q] = "open"
    <3>1. \A q \in Requests : stack'[q] = <<>> <=> stack[q] = <<>>
      BY <1>0, <2>2, Received
    <3> QED BY <1>0, <2>2, <3>1 DEF Receives, ScopesEnd
  <2>3. ASSUME NEW t \in Types, Starts(r, t)
        PROVE  \A q \in Requests : stack'[q] # <<>> => scope'[q] = "open"
    <3>1. \A q \in Requests \ {r} : stack'[q] = stack[q]
      BY <1>0, <2>3, Started
    <3> QED BY <1>0, <2>3, <3>1 DEF Starts, ScopesEnd
  <2>4. ASSUME NEW f, Returns(r, f)
        PROVE  \A q \in Requests : stack'[q] # <<>> => scope'[q] = "open"
    <3>1. \A q \in Requests \ {r} : stack'[q] = stack[q]
      BY <1>0, <2>4, Returned
    <3> QED BY <1>0, <2>4, <3>1 DEF Returns, ScopesEnd
  <2>5. CASE Close(r) \/ Dispose(r) \/ Closed(r) \/ DisposeFails(r)
    BY <1>0, <2>5 DEF Close, Dispose, Closed, DisposeFails, ScopesEnd, TypeOK
  <2> QED BY <2>1, <2>2, <2>3, <2>4, <2>5 DEF Effect
<1>2. \A d \in disposed' : made'[d].home \in Requests /\ scope'[made'[d].home] # "open"
  <2>1. CASE GivesUp(r) \/ (\E i \in Numbers : Receives(r, i)) \/ (\E t \in Types : Starts(r, t))
    BY <1>0, <2>1, QuietDoes DEF ScopesEnd
  <2>2. ASSUME NEW f, Returns(r, f)
        PROVE  \A d \in disposed' : made'[d].home \in Requests /\ scope'[made'[d].home] # "open"
    <3>1. \A d \in disposed : d \in Numbers
      BY <1>0 DEF TypeOK
    <3>2. \A d \in disposed : made'[d] = made[d]
      BY <1>0, <2>2, <3>1, Added
    <3>3. disposed' = disposed /\ scope' = scope
      BY <2>2 DEF Returns
    <3> QED BY <1>0, <3>2, <3>3 DEF ScopesEnd
  <2>3. CASE Dispose(r)
    <3>1. made' = made /\ scope' = scope /\ scope[r] = "closing"
      BY <2>3 DEF Dispose
    <3>2. PICK i \in Numbers : made[i].home = r /\ disposed' = disposed \cup {i}
      BY <2>3, Disposed
    <3> QED BY <1>0, <3>1, <3>2 DEF ScopesEnd
  <2>4. CASE Close(r) \/ Closed(r) \/ DisposeFails(r)
    <3>1. /\ made' = made /\ disposed' = disposed
          /\ \E s \in {"closing", "closed"} : scope' = [scope EXCEPT ![r] = s]
      BY <2>4 DEF Close, Closed, DisposeFails
    <3> QED BY <1>0, <3>1 DEF ScopesEnd, TypeOK
  <2> QED BY <2>1, <2>2, <2>3, <2>4 DEF Effect
<1>3. \A q \in Requests : scope'[q] = "closed" /\ outcome'[q] # "dispose" => cache'[q] = {}
  <2>1. CASE GivesUp(r)
    BY <1>0, <2>1 DEF GivesUp, ScopesEnd, TypeOK
  <2>2. CASE (\E i \in Numbers : Receives(r, i)) \/ (\E t \in Types : Starts(r, t))
    BY <1>0, <2>2 DEF Receives, Starts, ScopesEnd
  <2>3. ASSUME NEW f, Returns(r, f)
        PROVE  \A q \in Requests : scope'[q] = "closed" /\ outcome'[q] # "dispose" => cache'[q] = {}
    <3>1. scope[r] = "open" /\ scope' = scope /\ outcome' = outcome
      BY <1>0, <2>3 DEF Returns, ScopesEnd
    <3>2. f.home \in {r, Root}
      <4>1. Len(stack[r]) \in 1 .. Len(stack[r]) /\ f = stack[r][Len(stack[r])]
            /\ f.type \in Types
        BY <1>0, <2>3, Returned, Stacks DEF Returns
      <4> QED BY <4>1, HomeIs DEF IInv, FramesBelong
    <3>3. \A q \in Requests : q # r => cache'[q] = cache[q]
      BY <1>0, <2>3, <3>2, RegistryAssumption DEF Returns, TypeOK, Providers
    <3> QED BY <1>0, <3>1, <3>3 DEF ScopesEnd
  <2>4. CASE Close(r) \/ Closed(r)
    BY <1>0, <2>4 DEF Close, Closed, ScopesEnd, TypeOK
  <2>5. CASE Dispose(r)
    <3>1. /\ scope' = scope /\ scope[r] = "closing" /\ outcome' = outcome
          /\ \A q \in Requests : q # r => cache'[q] = cache[q]
      BY <1>0, <2>5 DEF Dispose, TypeOK, Providers
    <3> QED BY <1>0, <3>1 DEF ScopesEnd
  <2>6. CASE DisposeFails(r)
    BY <1>0, <2>6 DEF DisposeFails, ScopesEnd, TypeOK
  <2> QED BY <2>1, <2>2, <2>3, <2>4, <2>5, <2>6 DEF Effect
<1> QED BY <1>1, <1>2, <1>3 DEF ScopesEnd

LEMMA StepNothingCrossesScopes ==
    ASSUME IInv, NEW r \in Requests, Effect(r)
    PROVE  NothingCrossesScopes'
<1>0. TypeOK /\ NothingCrossesScopes
  BY DEF IInv
<1>1. CASE GivesUp(r) \/ (\E i \in Numbers : Receives(r, i)) \/ (\E t \in Types : Starts(r, t))
  BY <1>0, <1>1, QuietDoes DEF NothingCrossesScopes
<1>2. ASSUME NEW f, Returns(r, f)
      PROVE  NothingCrossesScopes'
  <2> DEFINE u == Len(made) + 1
  <2>1. /\ Numbers' = Numbers \cup {u}
        /\ \A i \in Numbers : made'[i] = made[i]
        /\ made'[u].args = f.args /\ made'[u].home = f.home
        /\ DOMAIN f.args = 1 .. Len(f.args)
    BY <1>0, <1>2, Added
  <2>2. f = stack[r][Len(stack[r])] /\ Len(stack[r]) \in 1 .. Len(stack[r])
    BY <1>0, <1>2, Returned DEF Returns
  <2>3. \A n \in DOMAIN f.args : f.args[n] \in Numbers /\ made[f.args[n]].home \in {Root, f.home}
    BY <1>0, <2>1, <2>2, Stacks DEF IInv, FramesBelong, TypeOK
  <2> HIDE DEF u
  <2>4. ASSUME NEW i \in Numbers, NEW n \in DOMAIN made'[i].args
        PROVE  made'[made'[i].args[n]].home \in {Root, made'[i].home}
    <3>1. made'[i] = made[i] /\ n \in DOMAIN made[i].args
      BY <2>1, <2>4
    <3>2. made[i].args[n] \in Numbers
      <4>1. made[i].args[n] \in 1 .. i - 1 /\ i \in 1 .. Len(made) /\ Len(made) \in Nat
        BY <1>0, <3>1, Instances DEF TypeOK, Numbers
      <4>2. \A l \in Nat : \A x \in 1 .. l : \A y \in 1 .. x - 1 : y \in 1 .. l
        OBVIOUS
      <4> QED BY <4>1, <4>2 DEF Numbers
    <3> QED BY <1>0, <2>1, <3>1, <3>2 DEF NothingCrossesScopes
  <2>5. ASSUME NEW n \in DOMAIN made'[u].args
        PROVE  made'[made'[u].args[n]].home \in {Root, made'[u].home}
    BY <2>1, <2>3, <2>5
  <2> QED BY <2>1, <2>4, <2>5 DEF NothingCrossesScopes
<1>3. CASE Close(r) \/ Dispose(r) \/ Closed(r) \/ DisposeFails(r)
  BY <1>0, <1>3, ClosingDoes DEF NothingCrossesScopes
<1> QED BY <1>1, <1>2, <1>3 DEF Effect

LEMMA StepDependentsGoFirst ==
    ASSUME IInv, NEW r \in Requests, Effect(r)
    PROVE  DependentsGoFirst'
<1>0. TypeOK /\ DependentsGoFirst
  BY DEF IInv
<1>1. CASE GivesUp(r) \/ (\E i \in Numbers : Receives(r, i)) \/ (\E t \in Types : Starts(r, t))
  BY <1>0, <1>1, QuietDoes DEF DependentsGoFirst
<1>2. ASSUME NEW f, Returns(r, f)
      PROVE  DependentsGoFirst'
  <2> DEFINE u == Len(made) + 1
  <2>1. /\ Numbers' = Numbers \cup {u}
        /\ \A i \in Numbers : made'[i] = made[i]
        /\ made'[u].args = f.args /\ made'[u].home = f.home
        /\ DOMAIN f.args = 1 .. Len(f.args)
    BY <1>0, <1>2, Added
  <2>2. f = stack[r][Len(stack[r])] /\ Len(stack[r]) \in 1 .. Len(stack[r])
        /\ stack[r] # <<>> /\ disposed' = disposed
    BY <1>0, <1>2, Returned DEF Returns
  <2>3. \A n \in 1 .. Len(f.args) : made[f.args[n]].home \in {Root, f.home}
    BY <2>2 DEF IInv, FramesBelong
  <2>4. f.home \in {r, Root} /\ scope[r] = "open"
    <3>1. f.type \in Types /\ f.home = Home(r, f.type)
      BY <1>0, <2>2, Stacks DEF IInv, FramesBelong
    <3> QED BY <2>2, <3>1, HomeIs DEF IInv, ScopesEnd
  <2>5. \A n \in 1 .. Len(f.args) : f.args[n] \notin disposed
    BY <2>3, <2>4, RegistryAssumption DEF IInv, ScopesEnd
  <2> HIDE DEF u
  <2>6. ASSUME NEW d \in disposed, NEW i \in Numbers', made'[i].home # Root,
               Contains(made'[i].args, d)
        PROVE  i \in disposed
    <3>1. CASE i \in Numbers
      BY <1>0, <2>1, <2>6, <3>1 DEF DependentsGoFirst
    <3>2. CASE i = u
      BY <2>1, <2>5, <2>6, <3>2 DEF Contains
    <3> QED BY <2>1, <3>1, <3>2
  <2> QED BY <2>2, <2>6 DEF DependentsGoFirst
<1>3. CASE Dispose(r)
  <2>1. made' = made /\ Numbers' = Numbers
    BY <1>3, ClosingDoes
  <2>2. PICK m \in Numbers :
            /\ m \in cache[r] /\ made[m].home = r /\ \A j \in cache[r] : j <= m
            /\ disposed' = disposed \cup {m}
    BY <1>3, Disposed
  <2>3. ASSUME NEW i \in Numbers, made[i].home # Root, Contains(made[i].args, m)
        PROVE  i \in disposed'
    <3>1. PICK n \in DOMAIN made[i].args : made[i].args[n] = m
      BY <1>0, <2>3, Instances DEF Contains
    <3>2. i \in Nat /\ m \in Nat /\ m < i
      <4>1. m \in 1 .. i - 1 /\ i \in Nat /\ m \in Nat
        BY <1>0, <3>1, Instances DEF TypeOK
      <4> QED BY <4>1
    <3>3. made[i].home = r
      <4>1. made[m].home \in {Root, made[i].home}
        BY <3>1 DEF IInv, NothingCrossesScopes
      <4> QED BY <2>2, <4>1, RegistryAssumption
    <3>4. Cached(made[i].type)
      BY <1>0, <2>3, Instances DEF IInv, MadeBelong, Cached
    <3>5. i \notin cache[r]
      BY <2>2, <3>2
    <3>6. r \in Providers
      BY DEF Providers
    <3> QED BY <2>2, <3>3, <3>4, <3>5, <3>6 DEF IInv, Kept
  <2>4. ASSUME NEW d \in disposed, NEW i \in Numbers, made[i].home # Root,
               Contains(made[i].args, d)
        PROVE  i \in disposed'
    BY <1>0, <2>2, <2>4 DEF DependentsGoFirst
  <2> QED BY <2>1, <2>2, <2>3, <2>4 DEF DependentsGoFirst
<1>4. CASE Close(r) \/ Closed(r) \/ DisposeFails(r)
  BY <1>0, <1>4 DEF Close, Closed, DisposeFails, DependentsGoFirst, Numbers
<1> QED BY <1>1, <1>2, <1>3, <1>4 DEF Effect

-----------------------------------------------------------------------------
(* The invariant, and what follows from it. *)

LEMMA InvInit == Init => IInv
<1> SUFFICES ASSUME Init
             PROVE  IInv
  OBVIOUS
<1>1. made = <<>> /\ Len(made) = 0 /\ Numbers = {} /\ <<>> \in Seq(Thing)
  BY EmptySeq DEF Init, Numbers
<1>2. \A r \in Requests : stack[r] = <<>> /\ Len(stack[r]) = 0 /\ DOMAIN stack[r] = {}
  BY <1>1 DEF Init
<1>3. \A r \in Requests : 1 .. Len(stack[r]) = {}
  BY <1>2
<1>4. TypeOK
  BY <1>1, <1>2, RegistryAssumption DEF Init, TypeOK
<1>5. Kept /\ MadeBelong /\ OneOfEach /\ NothingCrossesScopes /\ DependentsGoFirst
  BY <1>1 DEF Kept, MadeBelong, OneOfEach, NothingCrossesScopes, DependentsGoFirst
<1>6. FramesBelong /\ LayersFall /\ BeingBuilt
  BY <1>3 DEF FramesBelong, LayersFall, BeingBuilt
<1>7. OneHolds /\ ScopesEnd
  BY <1>2 DEF Init, OneHolds, Holding, ScopesEnd
<1> QED BY <1>4, <1>5, <1>6, <1>7 DEF IInv

LEMMA InvStutters ==
    ASSUME IInv, UNCHANGED vars
    PROVE  IInv'
<1>1. Numbers' = Numbers /\ (TypeOK /\ Kept /\ MadeBelong)'
  BY DEF vars, IInv, Numbers, TypeOK, Kept, MadeBelong
<1>2. (FramesBelong /\ LayersFall /\ BeingBuilt)'
  <2>1. FramesBelong'
    BY DEF vars, IInv, FramesBelong
  <2>2. LayersFall'
    BY DEF vars, IInv, LayersFall
  <2>3. BeingBuilt'
    BY DEF vars, IInv, Numbers, BeingBuilt
  <2> QED BY <2>1, <2>2, <2>3
<1>3. (OneHolds /\ ScopesEnd)'
  BY DEF vars, IInv, OneHolds, Holding, ScopesEnd
<1>4. (OneOfEach /\ NothingCrossesScopes /\ DependentsGoFirst)'
  BY DEF vars, IInv, Numbers, OneOfEach, NothingCrossesScopes, DependentsGoFirst
<1> QED BY <1>1, <1>2, <1>3, <1>4 DEF IInv

LEMMA InvStep == IInv /\ [Next]_vars => IInv'
<1>1. ASSUME IInv, Next
      PROVE  IInv'
  <2>1. PICK r \in Requests : Effect(r)
    BY <1>1, NextDoes
  <2>2. gets' \in [Requests -> 0 .. MaxGets]
    BY <1>1, GetsBounded DEF IInv
  <2>3. TypeOK' /\ Kept' /\ MadeBelong' /\ FramesBelong'
    BY <1>1, <2>1, <2>2, StepTypeOK, StepKept, StepMadeBelong, StepFramesBelong
  <2>4. LayersFall' /\ BeingBuilt' /\ OneHolds' /\ ScopesEnd'
    BY <1>1, <2>1, StepLayersFall, StepBeingBuilt, StepOneHolds, StepScopesEnd
  <2>5. OneOfEach' /\ NothingCrossesScopes' /\ DependentsGoFirst'
    BY <1>1, <2>1, StepOneOfEach, StepNothingCrossesScopes, StepDependentsGoFirst
  <2> QED BY <2>3, <2>4, <2>5 DEF IInv
<1>2. ASSUME IInv, UNCHANGED vars
      PROVE  IInv'
  BY <1>2, InvStutters
<1> QED BY <1>1, <1>2

LEMMA InvAlways == Spec => []IInv
BY InvInit, InvStep, PTL DEF Spec

LEMMA EmptiedWhenClosed ==
    ASSUME IInv
    PROVE  ClosedScopesAreEmpty
<1>1. ASSUME NEW i \in Numbers, made[i].home # Root, scope[made[i].home] = "closed",
             outcome[made[i].home] # "dispose"
      PROVE  i \in disposed
  <2>1. made[i].home \in Requests /\ Cached(made[i].type)
    BY <1>1 DEF IInv, MadeBelong, Cached
  <2>2. cache[made[i].home] = {}
    BY <1>1, <2>1 DEF IInv, ScopesEnd
  <2> QED BY <2>1, <2>2 DEF IInv, Kept, Providers
<1>2. \A d \in disposed : made[d].home # Root
  BY RegistryAssumption DEF IInv, ScopesEnd
<1> QED BY <1>1, <1>2 DEF ClosedScopesAreEmpty

(* The instances, caches, running factories and scopes are what their      *)
(* types say, and no instance was built with one younger than itself.      *)
THEOREM TypeCorrect == Spec => []TypeOK
<1>1. IInv => TypeOK
  BY DEF IInv
<1> QED BY <1>1, InvAlways, PTL

(* The lookup and the factory under one lock: a provider never has two     *)
(* instances of a singleton or of a scoped service, whatever the threads   *)
(* of the requests do and whichever factories fail.                        *)
THEOREM ServicesAreShared == Spec => []OneOfEach
<1>1. IInv => OneOfEach
  BY DEF IInv
<1> QED BY <1>1, InvAlways, PTL

(* ServiceScope.get resolves singletons and transients at the root, which  *)
(* refuses scoped services: no instance holds one of another request.      *)
THEOREM ScopesStayApart == Spec => []NothingCrossesScopes
<1>1. IInv => NothingCrossesScopes
  BY DEF IInv
<1> QED BY <1>1, InvAlways, PTL

(* ServiceScope.close goes backwards through what was built, so that no    *)
(* instance outlives one it was built with.                                *)
THEOREM DisposalIsOrdered == Spec => []DependentsGoFirst
<1>1. IInv => DependentsGoFirst
  BY DEF IInv
<1> QED BY <1>1, InvAlways, PTL

(* A scope closed without an exception has disposed of everything built in *)
(* it, and of nothing that belongs to the root.                            *)
THEOREM NothingLeaks == Spec => []ClosedScopesAreEmpty
<1>1. IInv => ClosedScopesAreEmpty
  BY EmptiedWhenClosed
<1> QED BY <1>1, InvAlways, PTL

-----------------------------------------------------------------------------
(* Settings *)

(* A non-empty set of indices has a greatest.                              *)
LEMMA GreatestExists ==
  ASSUME NEW n \in Nat, NEW S, S \subseteq 1 .. n, S # {}
  PROVE  \E k \in S : \A l \in S : l <= k
<1> DEFINE Below == {n - k : k \in S}
<1>1. Below \subseteq Nat /\ Below # {}
    <2>1. PICK k \in S : k = k
        OBVIOUS
    <2>2. n - k \in Below
        OBVIOUS
    <2>3. \A j \in S : n - j \in Nat
        OBVIOUS
    <2> QED BY <2>2, <2>3
<1>2. PICK m \in Below : \A i \in Below : <<i, m>> \notin OpToRel(<, Nat)
    BY <1>1, WFMin, NatLessThanWellFounded, Zenon
<1>3. \A i \in Below : ~(i < m)
    BY <1>1, <1>2, Zenon DEF OpToRel
<1>4. PICK k \in S : m = n - k
    OBVIOUS
<1>5. ASSUME NEW l \in S PROVE l <= k
    <2>1. ~(n - l < n - k)
        BY <1>3, <1>4
    <2> QED BY <2>1
<1> QED BY <1>5

(* dotenv_files: a name is supplied if some .env file has it, with the     *)
(* value of the last one.                                                  *)
LEMMA DotEnvIs ==
  ASSUME NEW in, NEW S, in.dotenv \in Seq(S), NEW name
  PROVE  /\ name \in DOMAIN DotEnv(in)
              <=> \E k \in DOMAIN in.dotenv : name \in DOMAIN in.dotenv[k]
         /\ name \in DOMAIN DotEnv(in) =>
              \E k \in DOMAIN in.dotenv :
                 /\ name \in DOMAIN in.dotenv[k]
                 /\ \A l \in DOMAIN in.dotenv : name \in DOMAIN in.dotenv[l] => l <= k
                 /\ DotEnv(in)[name] = in.dotenv[k][name]
<1> DEFINE Having(x) == {k \in DOMAIN in.dotenv : x \in DOMAIN in.dotenv[k]}
           last == CHOOSE k \in Having(name) : \A l \in Having(name) : l <= k
<1>1. name \in DOMAIN DotEnv(in)
              <=> \E k \in DOMAIN in.dotenv : name \in DOMAIN in.dotenv[k]
    BY DEF DotEnv
<1>2. ASSUME Having(name) # {}
      PROVE  last \in Having(name) /\ \A l \in Having(name) : l <= last
    <2>1. Len(in.dotenv) \in Nat /\ DOMAIN in.dotenv = 1 .. Len(in.dotenv)
        BY LenProperties
    <2>2. \E k \in Having(name) : \A l \in Having(name) : l <= k
        <3> HIDE DEF Having
        <3>1. Having(name) \subseteq 1 .. Len(in.dotenv)
            BY <2>1 DEF Having
        <3> QED BY <1>2, <2>1, <3>1, GreatestExists
    <2> QED BY <2>2
<1>3. ASSUME name \in DOMAIN DotEnv(in)
      PROVE  DotEnv(in)[name] = in.dotenv[last][name]
    BY <1>3 DEF DotEnv
<1> QED BY <1>1, <1>2, <1>3

(* Which source a loaded field is from, the stage pinned over all.         *)
LEMMA MergedIs ==
  ASSUME NEW in, NEW stage, NEW name \in Fields
  PROVE  /\ Merged(in, stage)["app_env"] = stage
         /\ Merged(in, stage)[name] =
              IF name \in DOMAIN in.init THEN in.init[name]
              ELSE IF name \in DOMAIN in.environ THEN in.environ[name]
              ELSE IF stage # "test" /\ name \in DOMAIN DotEnv(in)
                   THEN DotEnv(in)[name]
              ELSE IF name \in DOMAIN Yaml(in, stage)
                   THEN Yaml(in, stage)[name]
              ELSE Default[name]
<1>1. name # "app_env" /\ name \in DOMAIN Default
  BY FieldsAssumption
<1> QED
  BY <1>1 DEF Merged, Recognised, None, ++

OneLeafPerPath(file) == \A leaf, other \in file : leaf.path = other.path => leaf = other

(* load_layer: a name is in the layer if its leaf has a value, with that   *)
(* leaf's value.                                                           *)
LEMMA LayerIs ==
  ASSUME NEW file, NEW env, NEW name, OneLeafPerPath(file), ~Unusable(file, env)
  PROVE  /\ name \in DOMAIN LoadLayer(file, env)
              <=> \E leaf \in file : leaf.name = name /\ Expand(leaf.raw, env) # Nil
         /\ \A leaf \in file : name \in DOMAIN LoadLayer(file, env) /\ leaf.name = name =>
              LoadLayer(file, env)[name] = Expand(leaf.raw, env)
<1>1. \A leaf, other \in file : leaf.name = other.name => leaf = other
    BY DEF Unusable, OneLeafPerPath
<1>2. ASSUME NEW leaf \in file, leaf.name = name
      PROVE  (CHOOSE other \in file : other.name = name) = leaf
    BY <1>1, <1>2
<1>3. name \in DOMAIN LoadLayer(file, env)
              <=> \E leaf \in file : leaf.name = name /\ Expand(leaf.raw, env) # Nil
    BY DEF LoadLayer, Supplied
<1>4. ASSUME NEW leaf \in file, leaf.name = name, name \in DOMAIN LoadLayer(file, env)
      PROVE  LoadLayer(file, env)[name] = Expand(leaf.raw, env)
    <2> DEFINE said == CHOOSE other \in file : other.name = name
    <2>1. LoadLayer(file, env)[name] = Expand(said.raw, env)
        BY <1>4 DEF LoadLayer
    <2> QED BY <2>1, <1>2, <1>4
<1> QED BY <1>3, <1>4

(* What an input is made of.                                               *)
LEMMA SourcesAre ==
  ASSUME NEW in \in Inputs
  PROVE  /\ in.init \in Supplies
         /\ in.environ \in Supplies
         /\ in.dotenv \in Seq(Range(in.dotenv))
         /\ Len(in.dotenv) \in Nat
         /\ DOMAIN in.dotenv = 1 .. Len(in.dotenv)
         /\ \A k \in DOMAIN in.dotenv : in.dotenv[k] \in Supplies
<1>1. in.init \in Inits /\ in.environ \in Environs /\ in.dotenv \in DotEnvs
    BY DEF Inputs
<1>2. in.dotenv \in Seq(Range(in.dotenv))
    BY <1>1, SuppliesAssumption
<1>3. Len(in.dotenv) \in Nat /\ DOMAIN in.dotenv = 1 .. Len(in.dotenv)
    BY <1>2, LenProperties
<1>4. \A k \in DOMAIN in.dotenv : in.dotenv[k] \in Range(in.dotenv)
    BY DEF Range
<1> QED BY <1>1, <1>2, <1>3, <1>4 DEF Supplies

LEMMA DotEnvSupplies ==
  ASSUME NEW in \in Inputs, NEW name \in DOMAIN DotEnv(in)
  PROVE  \E source \in Supplies :
            name \in DOMAIN source /\ DotEnv(in)[name] = source[name]
    BY SourcesAre, DotEnvIs

(* The sources resolve_app_env asks, highest precedence first.             *)
Ranked(in) == <<in.init, in.environ>> \o Reverse(in.dotenv)
Asks(source) == "app_env" \in DOMAIN source

(* resolve_app_env answers what the highest source says, or dev.           *)
LEMMA StageOfIs ==
  ASSUME NEW in \in Inputs
  PROVE  \/ \E k \in DOMAIN Ranked(in) :
              /\ Asks(Ranked(in)[k])
              /\ \A higher \in 1 .. k - 1 : ~Asks(Ranked(in)[higher])
              /\ StageOf(in) = Normal[Ranked(in)[k]["app_env"]]
         \/ /\ StageOf(in) = "dev"
            /\ \A k \in DOMAIN Ranked(in) : ~Asks(Ranked(in)[k])
<1> DEFINE n == Len(in.dotenv)
<1>1. n \in Nat /\ DOMAIN in.dotenv = 1 .. n
    BY SourcesAre
<1>2. /\ DOMAIN Ranked(in) = 1 .. 2 + n
      /\ Ranked(in)[1] = in.init
      /\ Ranked(in)[2] = in.environ
      /\ \A k \in 1 .. n : Ranked(in)[3 + n - k] = in.dotenv[k]
    <2> DEFINE all == Supplies
               front == <<in.init, in.environ>>
               back == Reverse(in.dotenv)
    <2>1. back = [i \in 1 .. n |-> in.dotenv[n - i + 1]]
        BY DEF Reverse
    <2>2. \A i \in 1 .. n : back[i] = in.dotenv[n - i + 1] /\ in.dotenv[n - i + 1] \in all
        BY <1>1, <2>1, SourcesAre
    <2>3. back \in [1 .. n -> all]
        BY <2>1, <2>2
    <2>4. back \in Seq(all) /\ Len(back) = n
        <3> HIDE DEF front, back, n, all
        <3> QED BY <1>1, <2>3, IsASeq, LenProperties
    <2>5. front \in Seq(all) /\ Len(front) = 2 /\ front[1] = in.init /\ front[2] = in.environ
        BY SourcesAre
    <2>6. /\ Ranked(in) \in Seq(all)
          /\ Len(Ranked(in)) = 2 + n
          /\ \A i \in 1 .. 2 + n :
                Ranked(in)[i] = IF i <= 2 THEN front[i] ELSE back[i - 2]
        <3>1. Ranked(in) = front \o back
            BY DEF Ranked
        <3> HIDE DEF front, back, n, all
        <3>2. /\ front \o back \in Seq(all)
              /\ Len(front \o back) = Len(front) + Len(back)
              /\ \A i \in 1 .. Len(front) + Len(back) :
                    (front \o back)[i] = IF i <= Len(front) THEN front[i] ELSE back[i - Len(front)]
            BY <2>4, <2>5, ConcatProperties
        <3> QED BY <2>4, <2>5, <3>1, <3>2
    <2>7. DOMAIN Ranked(in) = 1 .. 2 + n
        <3> HIDE DEF n, all
        <3> QED BY <2>6, LenProperties
    <2>8. ASSUME NEW k \in 1 .. n PROVE Ranked(in)[3 + n - k] = in.dotenv[k]
        <3> DEFINE i == 3 + n - k
        <3>1. /\ i \in 1 .. 2 + n /\ ~(i <= 2)
              /\ i - 2 \in 1 .. n /\ n - (i - 2) + 1 = k
            <4> HIDE DEF n
            <4> QED BY <1>1
        <3> HIDE DEF front, back, n, i
        <3>2. Ranked(in)[i] = back[i - 2]
            BY <2>6, <3>1
        <3>3. back[i - 2] = in.dotenv[n - (i - 2) + 1]
            BY <2>2, <3>1
        <3>4. Ranked(in)[i] = in.dotenv[k]
            BY <3>1, <3>2, <3>3
        <3> QED BY <3>4 DEF i
    <2> HIDE DEF front, back, n, all
    <2> QED BY <1>1, <2>5, <2>6, <2>7, <2>8
<1>3. CASE "app_env" \in DOMAIN in.init
    <2>1. StageOf(in) = Normal[in.init["app_env"]]
        BY <1>3 DEF StageOf, ++
    <2>2. 1 \in 1 .. 2 + n /\ 1 .. 1 - 1 = {}
        BY <1>1
    <2> HIDE DEF n
    <2> QED BY <1>2, <1>3, <2>1, <2>2 DEF Asks
<1>4. CASE "app_env" \notin DOMAIN in.init /\ "app_env" \in DOMAIN in.environ
    <2>1. StageOf(in) = Normal[in.environ["app_env"]]
        BY <1>4 DEF StageOf, ++
    <2>2. 2 \in 1 .. 2 + n /\ \A k \in 1 .. 2 - 1 : k = 1
        BY <1>1
    <2> HIDE DEF n
    <2> QED BY <1>2, <1>4, <2>1, <2>2 DEF Asks
<1>5. CASE "app_env" \notin DOMAIN in.init /\ "app_env" \notin DOMAIN in.environ
    <2>1. ~Asks(Ranked(in)[1]) /\ ~Asks(Ranked(in)[2])
        BY <1>2, <1>5 DEF Asks
    <2>2. \A i \in 1 .. 2 + n : i = 1 \/ i = 2 \/ (3 + n - i \in 1 .. n /\ 3 + n - (3 + n - i) = i)
        <3> HIDE DEF n
        <3> QED BY <1>1
    <2>3. CASE "app_env" \in DOMAIN DotEnv(in)
        <3>1. StageOf(in) = Normal[DotEnv(in)["app_env"]]
            BY <1>5, <2>3 DEF StageOf, ++
        <3>2. PICK k \in 1 .. n :
                /\ "app_env" \in DOMAIN in.dotenv[k]
                /\ \A l \in 1 .. n : "app_env" \in DOMAIN in.dotenv[l] => l <= k
                /\ DotEnv(in)["app_env"] = in.dotenv[k]["app_env"]
            BY <1>1, <2>3, SourcesAre, DotEnvIs
        <3>3. Asks(Ranked(in)[3 + n - k]) /\ 3 + n - k \in 1 .. 2 + n
            <4>1. 3 + n - k \in 1 .. 2 + n
                BY <1>1
            <4> HIDE DEF n
            <4> QED BY <1>2, <3>2, <4>1 DEF Asks
        <3>4. ASSUME NEW higher \in 1 .. (3 + n - k) - 1 PROVE ~Asks(Ranked(in)[higher])
            <4>1. higher \in 1 .. 2 + n /\ (3 + n - higher \in 1 .. n => ~(3 + n - higher <= k))
                <5> HIDE DEF n
                <5> QED BY <1>1
            <4> HIDE DEF n
            <4>2. 3 + n - higher \in 1 .. n => "app_env" \notin DOMAIN in.dotenv[3 + n - higher]
                BY <3>2, <4>1
            <4> QED BY <1>2, <2>1, <2>2, <4>1, <4>2 DEF Asks
        <3> HIDE DEF n
        <3> QED BY <1>2, <3>1, <3>2, <3>3, <3>4
    <2>4. CASE "app_env" \notin DOMAIN DotEnv(in)
        <3>1. StageOf(in) = "dev"
            BY <1>5, <2>4 DEF StageOf, ++
        <3>2. \A k \in 1 .. n : "app_env" \notin DOMAIN in.dotenv[k]
            BY <1>1, <2>4, SourcesAre, DotEnvIs
        <3> HIDE DEF n
        <3> QED BY <1>2, <2>1, <2>2, <3>1, <3>2 DEF Asks
    <2> QED BY <2>3, <2>4
<1> QED BY <1>3, <1>4, <1>5

LEMMA StageOfIsAStage ==
  ASSUME NEW in \in Inputs
  PROVE  StageOf(in) \in Stages \cup {Nil}
<1>1. \A source \in Supplies : "app_env" \in DOMAIN source =>
          Normal[source["app_env"]] \in Stages \cup {Nil}
    BY SuppliesAssumption, NormalAssumption
<1>2. "dev" \in Stages
    BY StagesAssumption
<1> QED BY <1>1, <1>2, SourcesAre, DotEnvSupplies DEF StageOf, ++

(* The inductive invariant: settings and the files read are what the input *)
(* makes of them.                                                          *)
Resolved ==
    /\ input \in Inputs
    /\ settings # Nil => settings = Outcome(input) /\ opened = Read(input)

LEMMA ResolvedAlways == SettingsSpec => []Resolved
<1>1. SettingsInit => Resolved
    BY DEF SettingsInit, Resolved
<1>2. Resolved /\ [Load]_settingsVars => Resolved'
    BY DEF Resolved, Load, settingsVars
<1> QED BY <1>1, <1>2, PTL DEF SettingsSpec

(* What a loaded outcome says of the input.                                *)
LEMMA OutcomeIs ==
  ASSUME Resolved, Loaded
  PROVE  /\ settings = Merged(input, Stage)
         /\ Stage = StageOf(input)
         /\ Stage \in Stages
         /\ opened = {"default", Stage}
         /\ input.file \in FileSets
         /\ \A f \in opened : /\ ~Unusable(input.file[f], Env)
                            /\ OneLeafPerPath(input.file[f])
<1> DEFINE stage == StageOf(input)
           merged == Merged(input, stage)
<1>1. settings = Outcome(input) /\ opened = Read(input)
    BY DEF Resolved, Loaded
<1>2. /\ stage # Nil
      /\ \A f \in {"default", stage} :
            ~Unusable(input.file[f], InterpolationEnv(input, stage))
      /\ settings = merged
    BY <1>1 DEF Outcome, Loaded, Files
<1>3. opened = {"default", stage}
    BY <1>1, <1>2 DEF Read, Files
<1>4. merged["app_env"] = stage
    BY DEF Merged, ++
<1>5. stage \in Stages /\ input.file \in FileSets
    BY <1>2, StageOfIsAStage DEF Resolved, Inputs
<1>6. \A f \in opened : OneLeafPerPath(input.file[f])
    <2>1. \A f \in opened : input.file[f] # Broken /\ f \in DOMAIN input.file
        BY <1>2, <1>3, <1>5, FilesAssumption DEF Unusable
    <2> QED BY <1>5, <2>1, FilesAssumption DEF OneLeafPerPath
<1> QED BY <1>2, <1>3, <1>4, <1>5, <1>6 DEF Stage, Env

(* resolve_app_env, StageSource: Settings.app_env is the stage whose file  *)
(* was read, and the highest source that names one names it.               *)
THEOREM StageIsAlwaysTheLayer ==
  SettingsSpec => []StageIsTheLayer
<1>1. Resolved => StageIsTheLayer
    <2> SUFFICES ASSUME Resolved, Loaded
                 PROVE  StageIsTheLayer
        BY DEF StageIsTheLayer
    <2>1. Stage = StageOf(input) /\ opened = {"default", Stage}
        BY OutcomeIs
    <2> QED BY <2>1, StageOfIs DEF Resolved, StageIsTheLayer, Ranked, Asks
<1> QED BY <1>1, ResolvedAlways, PTL

(* settings_customise_sources: in the test stage no .env file makes a      *)
(* difference.                                                             *)
THEOREM TestIsAlwaysHermetic ==
  SettingsSpec => []TestIsHermetic
<1>1. Resolved => TestIsHermetic
    <2> SUFFICES ASSUME Resolved, settings # Nil, StageOf(input) = "test",
                        NEW files \in DotEnvs,
                        StageOf([input EXCEPT !.dotenv = files]) = "test"
                 PROVE  Outcome([input EXCEPT !.dotenv = files]) = settings
        BY DEF TestIsHermetic
    <2> DEFINE elsewhere == [input EXCEPT !.dotenv = files]
    <2>1. /\ elsewhere.init = input.init
          /\ elsewhere.environ = input.environ
          /\ elsewhere.file = input.file
        BY DEF Resolved, Inputs
    <2> HIDE DEF elsewhere
    <2>2. InterpolationEnv(elsewhere, "test") = InterpolationEnv(input, "test")
        BY <2>1 DEF InterpolationEnv
    <2>3. Yaml(elsewhere, "test") = Yaml(input, "test")
        BY <2>1, <2>2 DEF Yaml
    <2>4. Merged(elsewhere, "test") = Merged(input, "test")
        BY <2>1, <2>3 DEF Merged
    <2>5. Outcome(elsewhere) = Outcome(input)
        BY <2>1, <2>2, <2>4 DEF Outcome, elsewhere
    <2> QED BY <2>5 DEF Resolved, elsewhere
<1> QED BY <1>1, ResolvedAlways, PTL

(* A field no source above the files has is from the first file that has   *)
(* it, or its default.                                                     *)
LEMMA SettingIs ==
  ASSUME Resolved, Loaded, NEW name \in Fields \ DOMAIN AboveYaml
  PROVE  settings[name] =
            IF name \in DOMAIN LoadLayer(input.file[Stage], Env)
            THEN LoadLayer(input.file[Stage], Env)[name]
            ELSE IF name \in DOMAIN LoadLayer(input.file["default"], Env)
            THEN LoadLayer(input.file["default"], Env)[name]
            ELSE Default[name]
<1> DEFINE stage == Stage
<1>1. settings = Merged(input, stage)
    BY OutcomeIs
<1>2. /\ name \notin DOMAIN input.init
      /\ name \notin DOMAIN input.environ
      /\ ~(stage # "test" /\ name \in DOMAIN DotEnv(input))
    BY DEF AboveYaml, ++
<1>3. settings[name] = IF name \in DOMAIN Yaml(input, stage)
                       THEN Yaml(input, stage)[name] ELSE Default[name]
    <2> HIDE DEF stage
    <2> QED BY <1>1, <1>2, MergedIs
<1> QED BY <1>3 DEF Yaml, Env, ++

(* What a placeholder's variable stands for.                               *)
LEMMA EnvIs ==
  ASSUME Resolved, NEW name \in DOMAIN Env
  PROVE  /\ Env[name] # Nil
         /\ Env[name] = IF name \in DOMAIN input.environ THEN input.environ[name]
                                 ELSE DotEnv(input)[name]
         /\ \/ name \in DOMAIN input.environ
            \/ Stage # "test" /\ name \in DOMAIN DotEnv(input)
         /\ Env[name] \in UNION {Range(s) : s \in Supplies}
<1> DEFINE file == IF Stage = "test" THEN None ELSE DotEnv(input)
<1>0. /\ Env = (input.environ ++ file)
      /\ DOMAIN None = {}
    BY DEF Env, InterpolationEnv, None
<1>1. /\ \/ name \in DOMAIN input.environ
         \/ Stage # "test" /\ name \in DOMAIN DotEnv(input)
      /\ Env[name] = IF name \in DOMAIN input.environ THEN input.environ[name]
                              ELSE DotEnv(input)[name]
    BY <1>0 DEF ++
<1>2. PICK source \in Supplies : name \in DOMAIN source /\ Env[name] = source[name]
    BY <1>1, SourcesAre, DotEnvSupplies DEF Resolved
<1>3. source[name] # Nil
    BY <1>2, SuppliesAssumption
<1> QED BY <1>1, <1>2, <1>3 DEF Range

(* interpolation_env: a placeholder that names a setting's variable gets   *)
(* the value of the setting.                                               *)
THEOREM PlaceholdersAlwaysAgree ==
  SettingsSpec => []PlaceholdersAgree
<1>1. Resolved => PlaceholdersAgree
    <2> SUFFICES ASSUME Resolved, Loaded, NEW f \in Fields \ DOMAIN AboveYaml,
                        NEW leaf \in Says(Stage, f), leaf.raw.kind = "whole",
                        leaf.raw.var \in (DOMAIN Env \cap Fields) \ DOMAIN input.init
                 PROVE  settings[f] = settings[leaf.raw.var]
        BY DEF PlaceholdersAgree
    <2> DEFINE var == leaf.raw.var
               stage == Stage
    <2>1. /\ stage \in Stages /\ input.file \in FileSets
          /\ ~Unusable(input.file[stage], Env)
          /\ OneLeafPerPath(input.file[stage])
          /\ leaf \in input.file[stage] /\ leaf.name = f
        BY OutcomeIs DEF Says
    <2>2. /\ Env[var] # Nil
          /\ Expand(leaf.raw, Env) = Env[var]
        BY EnvIs DEF Expand, ResolvePlaceholder
    <2>3. /\ f \in DOMAIN LoadLayer(input.file[stage], Env)
          /\ LoadLayer(input.file[stage], Env)[f] = Env[var]
        <3> HIDE DEF var, stage
        <3> QED BY <2>1, <2>2, LayerIs
    <2>4. settings[f] = Env[var]
        BY <2>3, SettingIs
    <2>5. settings[var] = Env[var]
        BY OutcomeIs, MergedIs, EnvIs
    <2> QED BY <2>4, <2>5
<1> QED BY <1>1, ResolvedAlways, PTL

(* _interpolate, load_layer: a hole in a composed value is an error, and   *)
(* what a file says holds unless a higher source has the field.            *)
THEOREM NoHoleIsEverPapered ==
  SettingsSpec => []NoHoleIsPapered
<1>1. Resolved => NoHoleIsPapered
    <2> SUFFICES ASSUME Resolved, Loaded, NEW f \in opened, NEW name \in Fields,
                        NEW leaf \in Says(f, name)
                 PROVE  LET value == ResolvePlaceholder(leaf.raw, Env)
                            bare  == leaf.raw.kind = "whole" /\ value = Nil
                        IN  /\ leaf.raw.kind = "embedded" => value # Nil
                            /\ \/ bare
                               \/ settings[name] = Expand(leaf.raw, Env)
                               \/ name \in DOMAIN AboveYaml
                               \/ /\ f = "default"
                                  /\ Supplied(Says(Stage, name), Env) # {}
        BY DEF NoHoleIsPapered
    <2> DEFINE value == ResolvePlaceholder(leaf.raw, Env)
               said  == Expand(leaf.raw, Env)
               stage == Stage
    <2>1. /\ f \in Stages \cup {"default"} /\ input.file \in FileSets
          /\ ~Unusable(input.file[f], Env)
          /\ OneLeafPerPath(input.file[f])
          /\ leaf \in input.file[f] /\ leaf.name = name
          /\ f = "default" \/ f = stage
          /\ stage \in Stages
          /\ ~Unusable(input.file[stage], Env)
          /\ OneLeafPerPath(input.file[stage])
        BY OutcomeIs DEF Says
    <2>2. /\ leaf.raw.kind \in {"plain", "whole", "embedded"}
          /\ leaf.raw.value # Nil
          /\ leaf.raw.kind = "embedded" =>
                \A text \in ({leaf.raw.fallback}
                               \cup UNION {Range(s) : s \in Supplies}) \ {Nil} :
                    Compose(leaf.raw.value, text) \notin {Nil, Error}
        <3>1. f \in DOMAIN input.file /\ input.file[f] # Broken
            BY <2>1, FilesAssumption DEF Unusable
        <3> QED BY <2>1, <3>1, FilesAssumption
    <2>3. said # Error
        BY <2>1 DEF Unusable
    <2>4. leaf.raw.kind = "embedded" => value # Nil
        BY <2>3 DEF Expand
    <2>5. value = leaf.raw.fallback \/ value \in UNION {Range(s) : s \in Supplies}
        BY EnvIs DEF ResolvePlaceholder
    <2>6. said # Nil \/ (leaf.raw.kind = "whole" /\ value = Nil)
        <3>1. leaf.raw.kind = "embedded" => said = Compose(leaf.raw.value, value)
            BY <2>4 DEF Expand
        <3>2. leaf.raw.kind = "plain" => said = leaf.raw.value
            BY DEF Expand
        <3>3. leaf.raw.kind = "whole" => said = value
            BY DEF Expand
        <3> HIDE DEF said, value
        <3> QED BY <2>2, <2>4, <2>5, <3>1, <3>2, <3>3
    <2>7. ASSUME said # Nil
          PROVE  /\ name \in DOMAIN LoadLayer(input.file[f], Env)
                 /\ LoadLayer(input.file[f], Env)[name] = said
        <3> HIDE DEF stage
        <3> QED BY <2>1, <2>7, LayerIs
    <2>8. ASSUME name \in DOMAIN LoadLayer(input.file[stage], Env)
          PROVE  Supplied(Says(stage, name), Env) # {}
        <3>1. \E other \in input.file[stage] :
                other.name = name /\ Expand(other.raw, Env) # Nil
            <4> HIDE DEF stage
            <4> QED BY <2>1, <2>8, LayerIs
        <3> QED BY <3>1 DEF Supplied, Says
    <2>9. ASSUME said # Nil, name \notin DOMAIN AboveYaml, f = stage \/
                 name \notin DOMAIN LoadLayer(input.file[stage], Env)
          PROVE  settings[name] = said
        BY <2>1, <2>7, <2>9, SettingIs
    <2> HIDE DEF said
    <2> QED BY <2>1, <2>4, <2>6, <2>8, <2>9 DEF said
<1> QED BY <1>1, ResolvedAlways, PTL

(* Settings: what is loaded has a value for each field, which its          *)
(* validator accepts.                                                      *)
THEOREM SettingsTypeCorrect ==
  SettingsSpec => []SettingsTypeOK
<1> DEFINE Within == opened \subseteq Stages \cup {"default"}
<1>1. SettingsInit => Within
    BY DEF SettingsInit
<1>2. ASSUME Resolved, Within, [Load]_settingsVars PROVE Within'
    <2>1. CASE Load
        <3>1. opened' = Read(input)
            BY <2>1 DEF Load
        <3>2. StageOf(input) \in Stages \cup {Nil}
            BY <1>2, StageOfIsAStage DEF Resolved
        <3> QED BY <3>1, <3>2 DEF Read, Files
    <2>2. CASE UNCHANGED settingsVars
        BY <1>2, <2>2 DEF settingsVars
    <2> QED BY <1>2, <2>1, <2>2
<1>3. SettingsSpec => []Within
    <2> HIDE DEF Within
    <2> QED BY <1>1, <1>2, ResolvedAlways, PTL DEF SettingsSpec
<1>4. ASSUME Resolved, Loaded
      PROVE  DOMAIN settings = Fields \cup {"app_env"} /\ Acceptable(settings)
    <2> DEFINE stage == Stage
    <2>1. settings = Merged(input, stage)
        BY <1>4, OutcomeIs
    <2>2. ASSUME NEW f \in {"default", stage}
          PROVE  DOMAIN LoadLayer(input.file[f], Env) \subseteq Fields
        <3>1. ~Unusable(input.file[f], Env)
            BY <1>4, OutcomeIs
        <3> QED BY <3>1 DEF Unusable, LoadLayer, Supplied
    <2>3. DOMAIN Yaml(input, stage) \subseteq Fields
        BY <2>2 DEF Yaml, Env, ++
    <2>4. DOMAIN Default = Fields
        BY FieldsAssumption
    <2>5. DOMAIN settings = Fields \cup {"app_env"}
        <3> HIDE DEF stage
        <3> QED BY <2>1, <2>3, <2>4 DEF Merged, Recognised, None, ++
    <2>6. Acceptable(settings)
        BY <1>4 DEF Resolved, Loaded, Outcome
    <2> QED BY <2>5, <2>6
<1>5. ASSUME Resolved, Within PROVE SettingsTypeOK
    BY <1>4, <1>5 DEF Resolved, SettingsTypeOK
<1> HIDE DEF Within
<1> QED BY <1>3, <1>5, ResolvedAlways, PTL
=============================================================================
