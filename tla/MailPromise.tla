----------------------------- MODULE MailPromise -----------------------------
(***************************************************************************)
(* What the delivery of code mails promises whoever asked for a mail.  A   *)
(* job the broker has accepted stays open until something came of it: its  *)
(* mail went out, it was found to have expired, or it lies in the dead     *)
(* queue for somebody to see.  It is mailed only while it is open, and a   *)
(* closed job stays closed.  How many copies, leases, retries and          *)
(* deliveries that takes is not the caller's business.                     *)
(***************************************************************************)
CONSTANTS Jobs

VARIABLES
    asked,      \* what publish answered
    open,       \* jobs a worker has or will get
    outcome     \* what came of each job so far

vars == <<asked, open, outcome>>

Outcomes == {"mailed", "lapsed", "dead"}

TypeOK ==
    /\ asked \in [Jobs -> {"new", "confirmed", "failed"}]
    /\ open \subseteq Jobs
    /\ outcome \in [Jobs -> SUBSET Outcomes]

Init ==
    /\ asked = [j \in Jobs |-> "new"]
    /\ open = {}
    /\ outcome = [j \in Jobs |-> {}]

(* publish returns: the job is open.  When it raises, the job may be. *)
Confirm(j) ==
    /\ asked[j] = "new"
    /\ asked' = [asked EXCEPT ![j] = "confirmed"]
    /\ open' = open \cup {j}
    /\ UNCHANGED outcome

Fail(j) ==
    /\ asked[j] = "new"
    /\ asked' = [asked EXCEPT ![j] = "failed"]
    /\ open' \in {open, open \cup {j}}
    /\ UNCHANGED outcome

(* Something comes of an open job, which may end it. *)
Achieve(j, o) ==
    /\ j \in open
    /\ outcome' = [outcome EXCEPT ![j] = @ \cup {o}]
    /\ open' \in {open, open \ {j}}
    /\ UNCHANGED asked

(* The last copies go, a crash ends several handlers at once, but never    *)
(* before something has come of their jobs.                                *)
Close(done) ==
    /\ \A j \in done : j \in open /\ outcome[j] # {}
    /\ open' = open \ done
    /\ UNCHANGED <<asked, outcome>>

Next ==
    \/ \E j \in Jobs :
          \/ Confirm(j) \/ Fail(j)
          \/ \E o \in Outcomes : Achieve(j, o)
    \/ \E done \in SUBSET Jobs : Close(done)

Spec == Init /\ [][Next]_vars
=============================================================================
