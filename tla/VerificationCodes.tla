-------------------------- MODULE VerificationCodes --------------------------
(***************************************************************************)
(* The six-digit codes of AuthService, for one purpose ("verify" or        *)
(* "reset") and one email address: _send_code and _consume_code over the   *)
(* two Redis keys auth:code:<purpose>:<email> and its cooldown.            *)
(*                                                                         *)
(* Neither handler is atomic.  Every Redis command and the publish of the  *)
(* email job is an await; between two of them other requests for the same  *)
(* address run, keys expire, and a request may be cancelled, in which case *)
(* "except Exception" does not run.                                        *)
(***************************************************************************)
EXTENDS Integers, FiniteSets

CONSTANTS
    Codes,      \* the codes drawn; two draws are taken to differ
    Senders,    \* requests that send a code
    Consumers,  \* requests that try a code
    Nil

VARIABLES
    slot,       \* auth:code:*, the stored digest and its failed attempts
    cooldown,   \* auth:code:cooldown:* exists
    snd,        \* senders
    con,        \* consumers, with what they read from the slot
    drawn,      \* history: codes drawn
    newest,     \* history: the last of them
    settled,    \* history: codes redeemed, exhausted, expired or replaced
    withdrawn,  \* history: codes their own sender deleted
    redeemed,   \* history: codes accepted
    misses,     \* history: wrong tries answered, per code
    mailed,     \* history: codes whose email job the broker took
    denied,     \* history: those of them whose publish raised all the same
    recent,     \* history: codes mailed since the cooldown last ran out
    contended,  \* history: codes read by a consumer while another request
                \* or the clock changed the slot
    overrun     \* history: codes whose sending met another sending, or
                \* outlived its cooldown

keys == <<slot, cooldown>>
history == <<drawn, newest, settled, withdrawn, redeemed, misses, mailed, denied, recent,
             contended, overrun>>
vars == <<slot, cooldown, snd, con, drawn, newest, settled, withdrawn, redeemed, misses,
          mailed, denied, recent, contended, overrun>>

Limit == 4      \* int(attempts) >= 4

Quiet == [pc |-> "idle", code |-> Nil]
Away  == [pc |-> "idle", code |-> Nil, attempts |-> 0]

Stored == [code : Codes, attempts : 0 .. Limit]
Sender == [pc : {"idle", "store", "publish", "confirm", "undo"}, code : Codes \cup {Nil}]
Consumer == [pc : {"idle", "miss", "hit", "spent"}, code : Codes \cup {Nil},
             attempts : 0 .. Limit]

(* An absent key is neither a code nor a stored value. *)
ASSUME NilAssumption == Nil \notin Codes \cup Stored

Sending == {p \in Senders : snd[p].pc # "idle"}
Trying  == {q \in Consumers : con[q].pc # "idle"}

SentBy(P) == {snd[p].code : p \in P}
ReadBy(Q) == {con[q].code : q \in Q}

Init ==
    /\ slot = Nil
    /\ cooldown = FALSE
    /\ snd = [p \in Senders |-> Quiet]
    /\ con = [q \in Consumers |-> Away]
    /\ drawn = {} /\ settled = {} /\ withdrawn = {} /\ redeemed = {}
    /\ mailed = {} /\ denied = {} /\ recent = {} /\ contended = {} /\ overrun = {}
    /\ newest = Nil
    /\ misses = [c \in Codes |-> 0]

-----------------------------------------------------------------------------
(* _send_code *)

(* Seeded fault: the cooldown is set without NX. *)
AskAnyway(p, c) ==
    /\ snd[p].pc = "idle"
    /\ c \notin drawn
    /\ cooldown' = TRUE
    /\ snd' = [snd EXCEPT ![p] = [pc |-> "store", code |-> c]]
    /\ drawn' = drawn \cup {c}
    /\ newest' = c
    /\ overrun' = IF Sending = {} THEN overrun
                  ELSE overrun \cup {c} \cup SentBy(Sending)
    /\ UNCHANGED <<slot, con, settled, withdrawn, redeemed, misses, mailed,
                  denied, recent, contended>>

(* SET cooldown NX succeeds; the code is drawn. *)
Ask(p, c) ==
    /\ snd[p].pc = "idle"
    /\ ~cooldown
    /\ c \notin drawn
    /\ cooldown' = TRUE
    /\ snd' = [snd EXCEPT ![p] = [pc |-> "store", code |-> c]]
    /\ drawn' = drawn \cup {c}
    /\ newest' = c
    /\ overrun' = IF Sending = {} THEN overrun
                  ELSE overrun \cup {c} \cup SentBy(Sending)
    /\ UNCHANGED <<slot, con, settled, withdrawn, redeemed, misses, mailed,
                  denied, recent, contended>>

(* Seeded fault: the refusal is raised inside the try and undoes the send. *)
AskTooSoonUndoes ==
    /\ cooldown
    /\ slot' = Nil
    /\ cooldown' = FALSE
    /\ UNCHANGED <<snd, con, history>>

(* SET cooldown NX fails: "Please wait before requesting another code." *)
AskTooSoon ==
    /\ cooldown
    /\ UNCHANGED vars

(* The new code replaces whatever the slot held. *)
Store(p) ==
    /\ snd[p].pc = "store"
    /\ slot' = [code |-> snd[p].code, attempts |-> 0]
    /\ snd' = [snd EXCEPT ![p].pc = "publish"]
    /\ settled' = IF slot = Nil THEN settled ELSE settled \cup {slot.code}
    /\ contended' = IF Trying = {} THEN contended
                    ELSE contended \cup {snd[p].code} \cup ReadBy(Trying)
    /\ UNCHANGED <<cooldown, con, drawn, newest, withdrawn, redeemed, misses,
                  mailed, denied, recent, overrun>>

(* publish, first half: the broker takes the job; the mail will go out.    *)
Publish(p) ==
    /\ snd[p].pc = "publish"
    /\ mailed' = mailed \cup {snd[p].code}
    /\ recent' = recent \cup {snd[p].code}
    /\ snd' = [snd EXCEPT ![p].pc = "confirm"]
    /\ UNCHANGED <<keys, con, drawn, newest, settled, withdrawn, redeemed,
                  misses, denied, contended, overrun>>

(* publish, second half: the confirm arrives and the channel closes.       *)
Confirm(p) ==
    /\ snd[p].pc = "confirm"
    /\ snd' = [snd EXCEPT ![p] = Quiet]
    /\ UNCHANGED <<keys, con, history>>

(* SET or publish raises and the except branch is entered, also when the   *)
(* broker had taken the job: the confirm is lost, or close() raises.       *)
SendFails(p) ==
    /\ snd[p].pc \in {"store", "publish", "confirm"}
    /\ snd' = [snd EXCEPT ![p].pc = "undo"]
    /\ denied' = IF snd[p].pc = "confirm" THEN denied \cup {snd[p].code} ELSE denied
    /\ UNCHANGED <<keys, con, drawn, newest, settled, withdrawn, redeemed,
                  misses, mailed, recent, contended, overrun>>

(* DEL of both keys, whoever set them. *)
Undo(p) ==
    /\ snd[p].pc = "undo"
    /\ cooldown' = FALSE
    /\ slot' = Nil
    /\ snd' = [snd EXCEPT ![p] = Quiet]
    /\ withdrawn' = withdrawn \cup {snd[p].code}
    /\ contended' = contended \cup ReadBy(Trying)
    /\ UNCHANGED <<con, drawn, newest, settled, redeemed, misses, mailed,
                  denied, recent, overrun>>

(* Cancelled, killed, or the DEL of the except branch raises. *)
CancelSend(p) ==
    /\ snd[p].pc # "idle"
    /\ snd' = [snd EXCEPT ![p] = Quiet]
    /\ UNCHANGED <<keys, con, history>>

-----------------------------------------------------------------------------
(* _consume_code *)

(* GET finds no code: False at once. *)
NothingStored ==
    /\ slot = Nil
    /\ UNCHANGED vars

(* GET finds a code: the branch is chosen from what was read. *)
Read(q, right) ==
    /\ con[q].pc = "idle"
    /\ slot # Nil
    /\ con' = [con EXCEPT ![q] =
                 [pc |-> IF slot.attempts >= Limit THEN "spent"
                         ELSE IF right THEN "hit" ELSE "miss",
                  code |-> slot.code, attempts |-> slot.attempts]]
    /\ contended' = IF Trying = {} THEN contended
                    ELSE contended \cup {slot.code} \cup ReadBy(Trying)
    /\ UNCHANGED <<keys, snd, drawn, newest, settled, withdrawn, redeemed,
                  misses, mailed, denied, recent, overrun>>

(* Seeded fault: the code is put back with the attempts it had. *)
WriteBackUncounted(q) ==
    /\ con[q].pc = "miss"
    /\ slot' = [code |-> con[q].code, attempts |-> con[q].attempts]
    /\ con' = [con EXCEPT ![q] = Away]
    /\ misses' = [misses EXCEPT ![con[q].code] = IF @ > Limit THEN @ ELSE @ + 1]
    /\ UNCHANGED <<cooldown, snd, drawn, newest, settled, withdrawn, redeemed,
                  mailed, denied, recent, contended, overrun>>

(* Wrong code: after TTL, SET puts the code back with one attempt more.    *)
(* The lifetime written is what TTL said, at least a second.               *)
WriteBack(q) ==
    /\ con[q].pc = "miss"
    /\ slot' = [code |-> con[q].code, attempts |-> con[q].attempts + 1]
    /\ con' = [con EXCEPT ![q] = Away]
    /\ misses' = [misses EXCEPT ![con[q].code] = IF @ > Limit THEN @ ELSE @ + 1]
    /\ UNCHANGED <<cooldown, snd, drawn, newest, settled, withdrawn, redeemed,
                  mailed, denied, recent, contended, overrun>>

(* Seeded fault: an accepted code stays in Redis. *)
RedeemKeeps(q) ==
    /\ con[q].pc = "hit"
    /\ con' = [con EXCEPT ![q] = Away]
    /\ settled' = settled \cup {con[q].code}
    /\ redeemed' = redeemed \cup {con[q].code}
    /\ UNCHANGED <<keys, snd, drawn, newest, withdrawn, misses, mailed,
                  denied, recent, contended, overrun>>

(* Right code: DEL, True. *)
Redeem(q) ==
    /\ con[q].pc = "hit"
    /\ slot' = Nil
    /\ con' = [con EXCEPT ![q] = Away]
    /\ settled' = settled \cup {con[q].code}
    /\ redeemed' = redeemed \cup {con[q].code}
    /\ UNCHANGED <<cooldown, snd, drawn, newest, withdrawn, misses, mailed,
                  denied, recent, contended, overrun>>

(* Seeded fault: an exhausted code stays in Redis. *)
ExhaustKeeps(q) ==
    /\ con[q].pc = "spent"
    /\ con' = [con EXCEPT ![q] = Away]
    /\ settled' = settled \cup {con[q].code}
    /\ UNCHANGED <<keys, snd, drawn, newest, withdrawn, redeemed, misses,
                  mailed, denied, recent, contended, overrun>>

(* Too many attempts: DEL, False, whatever was presented. *)
Exhaust(q) ==
    /\ con[q].pc = "spent"
    /\ slot' = Nil
    /\ con' = [con EXCEPT ![q] = Away]
    /\ settled' = settled \cup {con[q].code}
    /\ UNCHANGED <<cooldown, snd, drawn, newest, withdrawn, redeemed, misses,
                  mailed, denied, recent, contended, overrun>>

CancelTry(q) ==
    /\ con[q].pc # "idle"
    /\ con' = [con EXCEPT ![q] = Away]
    /\ UNCHANGED <<keys, snd, history>>

-----------------------------------------------------------------------------
(* The clock. *)
ExpireCode ==
    /\ slot # Nil
    /\ slot' = Nil
    /\ settled' = settled \cup {slot.code}
    /\ contended' = contended \cup ReadBy(Trying)
    /\ UNCHANGED <<cooldown, snd, con, drawn, newest, withdrawn, redeemed,
                  misses, mailed, denied, recent, overrun>>

ExpireCooldown ==
    /\ cooldown
    /\ cooldown' = FALSE
    /\ recent' = {}
    /\ overrun' = overrun \cup SentBy(Sending)
    /\ UNCHANGED <<slot, snd, con, drawn, newest, settled, withdrawn,
                  redeemed, misses, mailed, denied, contended>>

Next ==
    \/ \E p \in Senders :
          \/ \E c \in Codes : Ask(p, c)
          \/ Store(p)
          \/ Publish(p)
          \/ Confirm(p)
          \/ SendFails(p)
          \/ Undo(p)
          \/ CancelSend(p)
    \/ \E q \in Consumers :
          \/ \E right \in BOOLEAN : Read(q, right)
          \/ WriteBack(q)
          \/ Redeem(q)
          \/ Exhaust(q)
          \/ CancelTry(q)
    \/ AskTooSoon
    \/ NothingStored
    \/ ExpireCode
    \/ ExpireCooldown

Spec == Init /\ [][Next]_vars

-----------------------------------------------------------------------------
(* Shapes; in particular no interleaving writes more than Limit attempts.  *)
TypeOK ==
    /\ slot \in Stored \cup {Nil}
    /\ cooldown \in BOOLEAN
    /\ snd \in [Senders -> Sender]
    /\ con \in [Consumers -> Consumer]
    /\ drawn \subseteq Codes
    /\ newest \in drawn \cup {Nil}
    /\ settled \subseteq Codes
    /\ withdrawn \subseteq Codes
    /\ redeemed \subseteq settled
    /\ mailed \subseteq Codes
    /\ denied \subseteq Codes
    /\ recent \subseteq Codes
    /\ contended \subseteq Codes
    /\ overrun \subseteq Codes
    /\ misses \in [Codes -> 0 .. Limit + 1]
    /\ \A p \in Senders : snd[p].pc # "idle" => snd[p].code \in Codes
    /\ \A q \in Consumers :
          /\ con[q].pc # "idle" => con[q].code \in Codes
          /\ con[q].pc = "miss" => con[q].attempts < Limit

Ended == settled \cup withdrawn

(* A code that ended comes back into the slot only when somebody changed   *)
(* the slot between a consumer's read and its write.                       *)
EndedCodesStayOut ==
    slot # Nil /\ slot.code \in Ended => slot.code \in contended

(* Single use, as far as the code gives it: a try that succeeds is the end *)
(* of that code, unless the code was contended.                            *)
RedeemedOnce ==
    [][\A q \in Consumers : Redeem(q) =>
          con[q].code \notin Ended \/ con[q].code \in contended]_vars

(* Nobody gets more than Limit wrong tries at a code answered, unless      *)
(* tries overlapped: the counter in the slot survives every other step.    *)
GuessesBounded == \A c \in Codes \ contended : misses[c] <= Limit

(* The last code asked for, once its mail is out, is there to be used      *)
(* until it is redeemed, exhausted or expires: refused sends, cancelled    *)
(* sends and wrong tries do not lose it.  What does: sends that overlap,   *)
(* tries that change the slot under each other, and its own sender, but    *)
(* that only when the publish raised although the broker took the job.     *)
(* (A newer send that fails before it stores its code loses the older one.)*)
MailedCodeWaits ==
    newest \in mailed \ (settled \cup contended \cup overrun \cup denied)
        => slot # Nil /\ slot.code = newest

(* At most one email per cooldown whose sender was not told that it failed,*)
(* unless a send outlives its cooldown: nothing but a failure lifts the    *)
(* cooldown early.  A publish that raises after the broker took the job    *)
(* lifts it too, and the mail goes out beside the next one.                *)
OneMailPerCooldown == Cardinality(recent \ (overrun \cup denied)) <= 1

-----------------------------------------------------------------------------
(* ARCHITECTURE.md calls the codes single-use: a code that was accepted is *)
(* never accepted again.                                                   *)
CodeIsSingleUse ==
    [][\A q \in Consumers : Redeem(q) => con[q].code \notin redeemed]_vars
=============================================================================
