---------------------------- MODULE EmailDelivery ----------------------------
(***************************************************************************)
(* Delivery of code mails: the API publishes a job to RabbitMQ, a worker   *)
(* sends it over SMTP, retries temporary failures through delay queues and *)
(* dead-letters what it gives up on.                                       *)
(*                                                                         *)
(* A queue is a bag of messages: nothing depends on their order.  The      *)
(* broker gives a delivery whose connection or worker is gone to the next  *)
(* consumer; a handler that was running when the connection dropped runs   *)
(* on, but can settle nothing.                                             *)
(***************************************************************************)
EXTENDS Naturals, FiniteSets, Bags

CONSTANTS
    Jobs,
    Malformed,  \* the jobs whose body the worker cannot read
    Handlers,   \* coroutines running handle_message
    Prefetch,   \* email_worker_concurrency
    Retries,    \* len(RETRY_DELAYS)
    Nil,
    Faults,     \* which of "publish" (by the worker) and "ambiguous" (SMTP) may fail
    MaxDrops    \* bound on crashes and lost connections of the worker

ASSUME DeliveryAssumption ==
    /\ Malformed \subseteq Jobs
    /\ Prefetch \in Nat \ {0}
    /\ Retries \in Nat
    /\ MaxDrops \in Nat
    /\ Faults \subseteq {"publish", "ambiguous"}

VARIABLES
    asked,      \* outcome of EmailPublisher.publish, for each job
    expired,    \* jobs past their expires_at
    primary, retry, dead,   \* the queues; "retry" is all of auth.email.retry.*
    handler,    \* handler of a delivery; "leased" while the broker counts it
    drops,
    tries, mails,   \* history: calls of send, mails SMTP accepted, for each job
    again,      \* history: reasons for a second mail, for each job
    refused,    \* history: jobs whose recipient SMTP refused
    lapsed,     \* history: jobs acknowledged because they had expired
    unsent      \* history: jobs of which a retry copy was not published

queues  == <<primary, retry, dead>>
history == <<tries, mails, again, refused, lapsed, unsent>>
vars == <<asked, expired, queues, handler, drops, history>>

Message == [job : Jobs, attempts : 0 .. Retries]
Free == [pc |-> "free", msg |-> Nil, leased |-> FALSE]

One(m) == SetToBag({m})
Leased == {h \in Handlers : handler[h].leased}
Bump(f, j) == [f EXCEPT ![j] = @ + 1]

Init ==
    /\ asked = [j \in Jobs |-> "new"]
    /\ expired = {}
    /\ primary = EmptyBag /\ retry = EmptyBag /\ dead = EmptyBag
    /\ handler = [h \in Handlers |-> Free]
    /\ drops = 0
    /\ tries = [j \in Jobs |-> 0]
    /\ mails = [j \in Jobs |-> 0]
    /\ again = [j \in Jobs |-> 0]
    /\ refused = {} /\ lapsed = {} /\ unsent = {}

-----------------------------------------------------------------------------
(* EmailPublisher.publish, with publisher confirms *)

Fresh(j) == One([job |-> j, attempts |-> 0])

Publish(j) ==
    /\ asked[j] = "new"
    /\ asked' = [asked EXCEPT ![j] = "confirmed"]
    /\ primary' = primary (+) Fresh(j)
    /\ UNCHANGED <<expired, retry, dead, handler, drops, history>>

(* It raises, before the broker has the message or before the confirm. *)
PublishFails(j) ==
    /\ asked[j] = "new"
    /\ asked' = [asked EXCEPT ![j] = "failed"]
    /\ \E enqueued \in {EmptyBag, Fresh(j)} : primary' = primary (+) enqueued
    /\ UNCHANGED <<expired, retry, dead, handler, drops, history>>

-----------------------------------------------------------------------------
(* The broker *)

Deliver(h) ==
    /\ handler[h] = Free
    /\ Cardinality(Leased) < Prefetch
    /\ \E m \in BagToSet(primary) :
          /\ primary' = primary (-) One(m)
          /\ handler' = [handler EXCEPT ![h] = [pc |-> "taken", msg |-> m, leased |-> TRUE]]
    /\ UNCHANGED <<asked, expired, retry, dead, drops, history>>

(* Seeded fault: the retry queues are declared without x-message-ttl. *)
RetryNeverDue == FALSE /\ UNCHANGED vars

(* The x-message-ttl of a retry queue passes: back to the primary queue. *)
RetryDue ==
    /\ \E m \in BagToSet(retry) :
          /\ retry' = retry (-) One(m)
          /\ primary' = primary (+) One(m)
    /\ UNCHANGED <<asked, expired, dead, handler, drops, history>>

(* A body nobody can read has no expires_at to pass. *)
ExpireJob(j) ==
    /\ asked[j] # "new"
    /\ j \notin Malformed
    /\ expired' = expired \cup {j}
    /\ UNCHANGED <<asked, queues, handler, drops, history>>

(* What is leased returns to the primary queue, one message per lease. *)
Returned == [m \in {handler[h].msg : h \in Leased} |->
                Cardinality({h \in Leased : handler[h].msg = m})]

Redeliver ==
    /\ drops < MaxDrops
    /\ drops' = drops + 1
    /\ Leased # {}
    /\ primary' = primary (+) Returned
    /\ again' = [j \in Jobs |-> again[j] + Cardinality({h \in Leased : handler[h].msg.job = j})]
    /\ UNCHANGED <<asked, expired, retry, dead, tries, mails, refused, lapsed, unsent>>

(* The worker dies: no handler runs on. *)
Crash ==
    /\ Redeliver
    /\ handler' = [h \in Handlers |-> Free]

(* The connection is lost and restored: the handlers run on. *)
DropConnection ==
    /\ Redeliver
    /\ handler' = [h \in Handlers |-> [handler[h] EXCEPT !.leased = FALSE]]

-----------------------------------------------------------------------------
(* handle_message.  Settling a message that is no longer ours raises, and  *)
(* the handler ends with no effect on the queues.                          *)

Finish(h) == handler' = [handler EXCEPT ![h] = Free]
Goto(h, pc) == handler' = [handler EXCEPT ![h].pc = pc]
Rejected(h) == IF handler[h].leased THEN One(handler[h].msg) ELSE EmptyBag
JobOf(h) == handler[h].msg.job

RejectMalformed(h) ==
    /\ handler[h].pc = "taken"
    /\ JobOf(h) \in Malformed
    /\ dead' = dead (+) Rejected(h)
    /\ Finish(h)
    /\ UNCHANGED <<asked, expired, primary, retry, drops, history>>

AckExpired(h) ==
    /\ handler[h].pc = "taken"
    /\ JobOf(h) \in expired \ Malformed
    /\ lapsed' = lapsed \cup {JobOf(h)}
    /\ Finish(h)
    /\ UNCHANGED <<asked, expired, queues, drops, tries, mails, again, refused, unsent>>

Send(h) ==
    /\ handler[h].pc = "taken"
    /\ JobOf(h) \notin expired \cup Malformed
    /\ tries' = Bump(tries, JobOf(h))
    /\ Goto(h, "sending")
    /\ UNCHANGED <<asked, expired, queues, drops, mails, again, refused, lapsed, unsent>>

(* Seeded fault: an accepted mail goes the way of a failed one. *)
AcceptedRetries(h) ==
    /\ handler[h].pc = "sending"
    /\ mails' = Bump(mails, JobOf(h))
    /\ Goto(h, "failed")
    /\ UNCHANGED <<asked, expired, queues, drops, tries, again, refused, lapsed, unsent>>

Accepted(h) ==
    /\ handler[h].pc = "sending"
    /\ mails' = Bump(mails, JobOf(h))
    /\ Goto(h, "settle")
    /\ UNCHANGED <<asked, expired, queues, drops, tries, again, refused, lapsed, unsent>>

(* Seeded fault: a refusal is handled like any other exception. *)
RefusedRetries(h) ==
    /\ handler[h].pc = "sending"
    /\ refused' = refused \cup {JobOf(h)}
    /\ Goto(h, "failed")
    /\ UNCHANGED <<asked, expired, queues, drops, tries, mails, again, lapsed, unsent>>

(* The recipient is refused: no retry. *)
Refused(h) ==
    /\ handler[h].pc = "sending"
    /\ refused' = refused \cup {JobOf(h)}
    /\ dead' = dead (+) Rejected(h)
    /\ Finish(h)
    /\ UNCHANGED <<asked, expired, primary, retry, drops, tries, mails, again, lapsed, unsent>>

(* Seeded fault: the message is acknowledged before its copy is published. *)
SendFailsAckFirst(h) ==
    /\ handler[h].pc = "sending"
    /\ handler' = [handler EXCEPT ![h].pc = "failed", ![h].leased = FALSE]
    /\ UNCHANGED <<asked, expired, queues, drops, history>>

(* Any other exception, possibly after the server took the mail. *)
SendFails(h) ==
    /\ handler[h].pc = "sending"
    /\ Goto(h, "failed")
    /\ \/ UNCHANGED <<mails, again>>
       \/ /\ "ambiguous" \in Faults
          /\ mails' = Bump(mails, JobOf(h))
          /\ again' = Bump(again, JobOf(h))
    /\ UNCHANGED <<asked, expired, queues, drops, tries, refused, lapsed, unsent>>

(* Seeded faults: a copy with the attempts of the original, one attempt    *)
(* too few.                                                                *)
ForRetryUncounted(m) == IF m.attempts < Retries THEN One(m) ELSE EmptyBag
ForDeadEarly(m) == IF m.attempts + 1 < Retries THEN EmptyBag ELSE One(m)

(* The next attempt goes to a retry queue, after the last one the message  *)
(* goes to the dead queue.                                                 *)
ForRetry(m) == IF m.attempts < Retries THEN One([m EXCEPT !.attempts = @ + 1]) ELSE EmptyBag
ForDead(m)  == IF m.attempts < Retries THEN EmptyBag ELSE One(m)

Republish(h) ==
    /\ handler[h].pc = "failed"
    /\ retry' = retry (+) ForRetry(handler[h].msg)
    /\ dead' = dead (+) ForDead(handler[h].msg)
    /\ Goto(h, "settle")
    /\ UNCHANGED <<asked, expired, primary, drops, history>>

(* exchange.publish raises: the original is rejected into the dead queue,  *)
(* with or without the new message already on its way.                     *)
RepublishFails(h) ==
    /\ "publish" \in Faults
    /\ handler[h].pc = "failed"
    /\ \/ /\ retry' = retry
          /\ dead' = dead (+) Rejected(h)
       \/ /\ retry' = retry (+) ForRetry(handler[h].msg)
          /\ dead' = dead (+) ForDead(handler[h].msg) (+) Rejected(h)
    /\ unsent' = unsent \cup {JobOf(h)}
    /\ Finish(h)
    /\ UNCHANGED <<asked, expired, primary, drops, tries, mails, again, refused, lapsed>>

(* message.ack, after the mail or the copy is safe. *)
Ack(h) ==
    /\ handler[h].pc = "settle"
    /\ Finish(h)
    /\ UNCHANGED <<asked, expired, queues, drops, history>>

-----------------------------------------------------------------------------
Handle(h) ==
    \/ RejectMalformed(h) \/ AckExpired(h) \/ Send(h)
    \/ Accepted(h) \/ Refused(h) \/ SendFails(h)
    \/ Republish(h) \/ RepublishFails(h) \/ Ack(h)

Next ==
    \/ \E j \in Jobs : Publish(j) \/ PublishFails(j) \/ ExpireJob(j)
    \/ RetryDue \/ Crash \/ DropConnection
    \/ \E h \in Handlers : Deliver(h) \/ Handle(h)

Spec == Init /\ [][Next]_vars

(* The broker delivers what is ready to a consumer with room, a TTL passes, *)
(* and every await of a handler ends: SMTP and AMQP calls time out.         *)
Fairness ==
    /\ WF_vars(RetryDue)
    /\ \A h \in Handlers : WF_vars(Deliver(h)) /\ WF_vars(Handle(h))

FairSpec == Spec /\ Fairness

-----------------------------------------------------------------------------
(* Every variable holds a value of its kind. *)
TypeOK ==
    /\ asked \in [Jobs -> {"new", "confirmed", "failed"}]
    /\ expired \subseteq Jobs
    /\ \A q \in {primary, retry, dead} : IsABag(q) /\ BagToSet(q) \subseteq Message
    /\ handler \in [Handlers -> [pc : {"free", "taken", "sending", "failed", "settle"},
                                 msg : Message \cup {Nil}, leased : BOOLEAN]]
    /\ drops \in 0 .. MaxDrops
    /\ tries \in [Jobs -> Nat] /\ mails \in [Jobs -> Nat] /\ again \in [Jobs -> Nat]
    /\ refused \subseteq Jobs /\ lapsed \subseteq Jobs /\ unsent \subseteq Jobs

(* The handlers the broker counts a delivery of the job for. *)
Held(j) == {h \in Leased : JobOf(h) = j}

(* handle_message: a job is mailed at most once, but for each time its     *)
(* delivery was repeated or SMTP took the mail and reported an error.      *)
OneMailPerDelivery == \A j \in Jobs : mails[j] <= 1 + again[j]

(* RETRY_DELAYS: a job is tried once and then retried four times, however  *)
(* failures, retries and expiry interleave; each repeated delivery can at  *)
(* most start that count again.                                            *)
TriesAreBounded == \A j \in Jobs : tries[j] <= (Retries + 1) * (1 + again[j])

(* ARCHITECTURE.md: a malformed or permanently rejected message is not     *)
(* retried.  Once refused, a job whose delivery was never repeated waits   *)
(* only in the dead queue, and at most the ack of an earlier attempt is    *)
(* still to come.                                                          *)
RefusedIsFinal ==
    \A j \in Jobs :
       /\ j \in Malformed => tries[j] = 0
       /\ j \in refused /\ again[j] = 0 =>
             /\ mails[j] = 0
             /\ \A h \in Held(j) : handler[h].pc = "settle"
             /\ \A m \in BagToSet(primary (+) retry) : m.job # j

(* ARCHITECTURE.md: "Temporary failures move through delayed retry queues  *)
(* before dead-lettering".  A readable job in the dead queue was refused,  *)
(* has used up its retries, or the worker could not publish one of them.   *)
DeadAfterRetries ==
    \A m \in BagToSet(dead) :
        m.job \in Malformed \cup refused \cup unsent \/ m.attempts = Retries

-----------------------------------------------------------------------------
(* The jobs a handler is working on or will be given, as MailPromise sees  *)
(* them, and what came of each.                                            *)
InWork ==
    {m.job : m \in BagToSet(primary (+) retry)}
        \cup {JobOf(h) : h \in {g \in Handlers : handler[g].pc # "free"}}

Outcome(j) ==
    (IF mails[j] > 0 THEN {"mailed"} ELSE {})
        \cup (IF j \in lapsed THEN {"lapsed"} ELSE {})
        \cup (IF \E m \in BagToSet(dead) : m.job = j THEN {"dead"} ELSE {})

Promise == INSTANCE MailPromise WITH
              open <- InWork,
              outcome <- [j \in Jobs |-> Outcome(j)]

(* handle_message and EmailPublisher: whatever crashed, dropped or raised  *)
(* between a send, the publish of the retry copy and the ack, no job the   *)
(* broker took leaves the queues and handlers before its mail was sent, it *)
(* expired or it is in the dead queue, and none comes back after that.     *)
ImplementsPromise == Promise!Spec

(* A job does not circulate for ever between the primary and the retry     *)
(* queues, nor wait in one: some time after its publish nobody has it and  *)
(* nobody will.                                                            *)
EveryJobSettles == \A j \in Jobs : asked[j] # "new" ~> j \notin InWork
=============================================================================
