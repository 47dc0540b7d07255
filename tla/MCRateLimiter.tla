---------------------------- MODULE MCRateLimiter ----------------------------
(* A small instance of RateLimiter: two addresses of one IPv6 allocation,    *)
(* and an IPv4 host.                                                         *)
EXTENDS RateLimiter

SomeHosts ==
    {[family |-> "ipv6", allocation |-> "net", address |-> a] : a \in {"net-1", "net-2"}}
        \cup {[family |-> "ipv4", allocation |-> "v4", address |-> "v4"]}
=============================================================================
