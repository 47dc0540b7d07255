----------------------------- MODULE RateLimiter -----------------------------
(***************************************************************************)
(* RedisRateLimiter and the throttle of EmailAvailabilityService on top of *)
(* it, for one scope: a fixed window per caller, counted by INCR, whose    *)
(* lifetime is set by the hit that opens it.  Whoever client_address takes *)
(* for one caller shares a counter.                                        *)
(*                                                                         *)
(* Time passes in ticks; a window lives for Window of them.                *)
(***************************************************************************)
EXTENDS Integers, FiniteSets

CONSTANTS
    Hosts,      \* where requests come from: an address and the allocation it is
                \* from, a /64 or, where an address cannot be changed, the address
    Limit,      \* auth_availability_limit or auth_signup_limit
    Window,     \* auth_throttle_window_seconds
    MaxHits     \* bound on a counter, which stops there

(* Families share no address and no allocation, and no address is called   *)
(* "unknown"; an IPv4 host has one address, an IPv6 host any of its /64;   *)
(* hosts without an address, which nobody can tell apart, count as one.    *)
ASSUME HostsAssumption ==
    /\ \A h \in Hosts : h.family \in {"ipv6", "ipv4", "none"}
    /\ \A g, h \in Hosts : g.family # h.family =>
          {g.allocation, g.address} \cap {h.allocation, h.address} = {}
    /\ \A h \in Hosts : h.family # "none" => "unknown" \notin {h.allocation, h.address}
    /\ \A g, h \in Hosts : g.family = "ipv4" /\ h.family = "ipv4" =>
          (g.allocation = h.allocation <=> g.address = h.address)
    /\ \A g, h \in Hosts : g.family = "none" /\ h.family = "none" =>
          g.allocation = h.allocation

ASSUME LimiterAssumption ==
    /\ Limit \in Nat \ {0}          \* ge=1 in Settings
    /\ Window \in Nat \ {0}
    /\ MaxHits \in Nat /\ MaxHits > Limit

VARIABLES
    hits,       \* the counter of each caller, 0 when the key is absent
    ttl,        \* ticks until the key expires, 0 when it has no lifetime
    admitted,   \* history: requests let through, by allocation and age in ticks
    tried       \* history: requests made, by allocation and age, up to MaxHits

vars == <<hits, ttl, admitted, tried>>

(* Seeded fault: one counter for each address of an allocation. *)
CallerOfAddress(h) == IF h.family = "none" THEN "unknown" ELSE h.address

(* client_address: an IPv6 address counts as its /64, any other host as     *)
(* itself, a request without one as "unknown".                             *)
CallerOf(h) ==
    CASE h.family = "ipv6" -> h.allocation
      [] h.family = "ipv4" -> h.address
      [] h.family = "none" -> "unknown"

Callers == {CallerOf(h) : h \in Hosts}
Allocations == {h.allocation : h \in Hosts}

Ages == 0 .. Window - 1
NoneOfAnyAge == [age \in Ages |-> 0]

Init ==
    /\ hits = [c \in Callers |-> 0]
    /\ ttl = [c \in Callers |-> 0]
    /\ admitted = [a \in Allocations |-> NoneOfAnyAge]
    /\ tried = [a \in Allocations |-> NoneOfAnyAge]

More(n) == IF n < MaxHits THEN n + 1 ELSE n

(* Seeded fault: every hit renews the lifetime. *)
CountRenewing(c) ==
    /\ hits' = [hits EXCEPT ![c] = More(@)]
    /\ ttl' = [ttl EXCEPT ![c] = Window]

(* Seeded fault: the lifetime is one tick too long. *)
CountOverlong(c) ==
    /\ hits' = [hits EXCEPT ![c] = More(@)]
    /\ ttl' = [ttl EXCEPT ![c] = IF hits[c] = 0 THEN Window + 1 ELSE @]

(* _FIXED_WINDOW: INCR, and EXPIRE with the first hit of a window. *)
Count(c) ==
    /\ hits' = [hits EXCEPT ![c] = More(@)]
    /\ ttl' = [ttl EXCEPT ![c] = IF hits[c] = 0 THEN Window ELSE @]

Try(h) == tried' = [tried EXCEPT ![h.allocation][0] = More(@)]
Admit(h) == admitted' = [admitted EXCEPT ![h.allocation][0] = @ + 1]

(* hit and throttle: let through up to the limit, 429 after. *)
Hit(h) ==
    /\ Count(CallerOf(h))
    /\ Try(h)
    /\ IF hits[CallerOf(h)] < Limit THEN Admit(h) ELSE UNCHANGED admitted

(* Redis raises or its reply is unreadable: 503 or 429, never let through, *)
(* whether or not the script ran.                                          *)
HitFails(h) ==
    /\ Count(CallerOf(h)) \/ UNCHANGED <<hits, ttl>>
    /\ Try(h)
    /\ UNCHANGED admitted

Older(by) == [a \in Allocations |-> [age \in Ages |-> IF age = 0 THEN 0 ELSE by[a][age - 1]]]

(* A tick passes; a key is gone with its last one. *)
Tick ==
    /\ ttl' = [c \in Callers |-> IF ttl[c] = 0 THEN 0 ELSE ttl[c] - 1]
    /\ hits' = [c \in Callers |-> IF ttl[c] = 1 THEN 0 ELSE hits[c]]
    /\ admitted' = Older(admitted)
    /\ tried' = Older(tried)

Next == (\E h \in Hosts : Hit(h) \/ HitFails(h)) \/ Tick

Spec == Init /\ [][Next]_vars

(* Time passes, whatever the callers do. *)
FairSpec == Spec /\ WF_vars(Tick)

-----------------------------------------------------------------------------
(* Every variable holds a value of its kind. *)
TypeOK ==
    /\ hits \in [Callers -> 0 .. MaxHits]
    /\ ttl \in [Callers -> 0 .. Window]
    /\ admitted \in [Allocations -> [Ages -> 0 .. Limit]]
    /\ tried \in [Allocations -> [Ages -> 0 .. MaxHits]]

(* How many requests a history holds of the ages lo to hi: a pair for each. *)
Counted(by, lo, hi) == UNION {{age} \X (1 .. by[age]) : age \in lo .. hi}
Total(by, lo, hi) == Cardinality(Counted(by, lo, hi))

(* What a fixed window promises a sliding one: of the requests an          *)
(* allocation makes in any Window consecutive ticks, from whichever of its *)
(* "2**64 addresses", fewer than twice the limit pass, because two windows *)
(* meet in them and the hit that opened the older one lies outside unless  *)
(* the older one fills them.                                               *)
FewerThanTwiceTheLimit ==
    \A a \in Allocations : Total(admitted[a], 0, Window - 1) < 2 * Limit

(* throttle: nobody is turned away for what was more than a window ago, or *)
(* for what hosts of another allocation did: a counter never says more     *)
(* than the requests of its allocation in the last Window ticks.           *)
OnlyRecentRequestsCount ==
    \A h \in Hosts : hits[CallerOf(h)] <= Total(tried[h.allocation], 0, Window - 1)

(* "A crash between them would leave a counter with no TTL, blocking that  *)
(* caller permanently": a caller past the limit gets a new window, however *)
(* often it tries in the meantime.                                         *)
ThrottledCallersRecover ==
    \A c \in Callers : hits[c] > Limit ~> hits[c] = 0
=============================================================================
