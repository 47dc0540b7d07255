----------------------- MODULE VerificationCodes_proofs -----------------------
(***************************************************************************)
(* Proofs about VerificationCodes for every number of codes, of requests   *)
(* that send one and of requests that try one.                             *)
(***************************************************************************)
EXTENDS VerificationCodes, FiniteSetTheorems, TLAPS

-----------------------------------------------------------------------------
(* The inductive invariant, in named parts.                                *)

(* Every code in use was drawn, each by one sender, which keeps it from    *)
(* everybody until it is stored.                                           *)
CodesAreOwn ==
    /\ slot # Nil => slot.code \in drawn
    /\ \A q \in Trying : con[q].code \in drawn
    /\ Ended \cup mailed \cup recent \subseteq drawn
    /\ \A p \in Sending : snd[p].code \in drawn
    /\ \A p, o \in Sending : snd[p].code = snd[o].code => p = o
    /\ \A c \in Codes \ drawn : misses[c] = 0

KeptBack(c) ==
    /\ c \notin Ended \cup mailed \cup recent
    /\ slot # Nil => slot.code # c
    /\ \A q \in Trying : con[q].code # c
    /\ misses[c] = 0

StoreIsFresh == \A p \in Senders : snd[p].pc = "store" => KeptBack(snd[p].code)

(* A consumer whose code nobody touched since it was read, or that reads   *)
(* while the slot holds a code nobody touched, is alone with the slot as   *)
(* it read it.                                                             *)
Untouched(q) ==
    \/ con[q].code \notin contended
    \/ slot # Nil /\ slot.code \notin contended

Undisturbed ==
    \A q \in Trying :
        Untouched(q)
            => /\ slot = [code |-> con[q].code, attempts |-> con[q].attempts]
               /\ Trying = {q}

(* The attempts stored are the wrong tries answered.                       *)
AttemptsCount ==
    \A c \in Codes \ contended :
        misses[c] <=
            IF slot # Nil /\ slot.code = c THEN slot.attempts ELSE Limit

(* A sender whose code the broker took is waiting for the confirm, or was  *)
(* told otherwise.                                                         *)
MailsAreSent ==
    \A p \in Sending :
        snd[p].code \in (mailed \cup recent) \ denied => snd[p].pc = "confirm"

(* A sending that met no other is the only one, within its cooldown.  So   *)
(* is a mail of this cooldown: whoever is sending is its own sender, about *)
(* to learn of it.  The newest code, if it met no other, is the code of    *)
(* whatever is being sent.                                                 *)
SendsAlone ==
    /\ \A p \in Sending :
          snd[p].code \notin overrun => Sending = {p} /\ cooldown
    /\ \A c \in recent \ (overrun \cup denied) :
          cooldown /\ \A p \in Sending : snd[p].code = c
    /\ \A c, d \in recent \ (overrun \cup denied) : c = d
    /\ newest # Nil /\ newest \notin overrun =>
          \A p \in Sending : snd[p].code = newest

(* The newest code is in the slot from its SET on.                         *)
NewestWaits ==
    newest \notin settled \cup contended \cup overrun \cup denied
        /\ \/ newest \in mailed
           \/ \E p \in Senders : snd[p].pc = "publish" /\ snd[p].code = newest
    => slot # Nil /\ slot.code = newest

IInv ==
    /\ TypeOK /\ CodesAreOwn /\ StoreIsFresh /\ Undisturbed
    /\ EndedCodesStayOut /\ AttemptsCount
    /\ MailsAreSent /\ SendsAlone /\ NewestWaits

-----------------------------------------------------------------------------
(* Type correctness.                                                       *)

LEMMA TypeStep ==
  ASSUME TypeOK, [Next]_vars
  PROVE  TypeOK'
<1> USE DEF TypeOK, keys, history, Limit
<1>1. ASSUME NEW p \in Senders, NEW c \in Codes, Ask(p, c)
      PROVE  TypeOK'
  BY <1>1 DEF Ask, Sender, SentBy, Sending
<1>2. ASSUME NEW p \in Senders, Store(p)
      PROVE  TypeOK'
  BY <1>2 DEF Store, Sender, Stored, Trying, ReadBy
<1>3. ASSUME NEW p \in Senders, Publish(p) \/ Confirm(p)
      PROVE  TypeOK'
  BY <1>3 DEF Publish, Confirm, Sender, Quiet
<1>4. ASSUME NEW p \in Senders, SendFails(p)
      PROVE  TypeOK'
  BY <1>4 DEF SendFails, Sender
<1>5. ASSUME NEW p \in Senders, Undo(p)
      PROVE  TypeOK'
  <2>1. contended' \subseteq Codes
    BY <1>5 DEF Undo, Trying, ReadBy
  <2>2. QED
    BY <1>5, <2>1 DEF Undo, Sender, Quiet
<1>6. ASSUME NEW p \in Senders, CancelSend(p)
      PROVE  TypeOK'
  BY <1>6 DEF CancelSend, Sender, Quiet
<1>7. ASSUME NEW q \in Consumers, NEW right \in BOOLEAN, Read(q, right)
      PROVE  TypeOK'
  BY <1>7 DEF Read, Consumer, Stored, Trying, ReadBy
<1>8. ASSUME NEW q \in Consumers, WriteBack(q)
      PROVE  TypeOK'
  BY <1>8 DEF WriteBack, Consumer, Stored, Away
<1>9. ASSUME NEW q \in Consumers, Redeem(q) \/ Exhaust(q)
      PROVE  TypeOK'
  BY <1>9 DEF Redeem, Exhaust, Consumer, Away
<1>10. ASSUME NEW q \in Consumers, CancelTry(q)
       PROVE  TypeOK'
  BY <1>10 DEF CancelTry, Consumer, Away
<1>11. CASE ExpireCode
  BY <1>11 DEF ExpireCode, Stored, Trying, ReadBy
<1>12. CASE ExpireCooldown
  BY <1>12 DEF ExpireCooldown, Sending, SentBy
<1>13. CASE AskTooSoon \/ NothingStored \/ UNCHANGED vars
  BY <1>13 DEF AskTooSoon, NothingStored, vars
<1>14. QED
  BY <1>1, <1>2, <1>3, <1>4, <1>5, <1>6, <1>7, <1>8, <1>9, <1>10, <1>11,
     <1>12, <1>13 DEF Next

LEMMA InitType == Init => TypeOK
<1> SUFFICES ASSUME Init PROVE TypeOK
  OBVIOUS
<1>1. Quiet \in Sender /\ Quiet.pc = "idle"
  BY DEF Quiet, Sender
<1>2. Away \in Consumer /\ Away.pc = "idle"
  BY DEF Away, Consumer, Limit
<1>3. /\ snd \in [Senders -> Sender] /\ con \in [Consumers -> Consumer]
      /\ misses \in [Codes -> 0 .. Limit + 1]
      /\ Sending = {} /\ Trying = {}
  BY <1>1, <1>2 DEF Init, Limit, Sending, Trying
<1>4. QED
  BY <1>3 DEF Init, TypeOK, Sending, Trying

(* Every variable keeps its shape; in particular the slot never holds more *)
(* attempts than Limit, whoever writes back what.                          *)
THEOREM TypeCorrect == Spec => []TypeOK
  BY InitType, TypeStep, PTL DEF Spec
-----------------------------------------------------------------------------
(* The parts of the invariant, one lemma each.                             *)

(* A wrong try that nobody disturbed writes back the slot as it is, with   *)
(* one attempt more.                                                       *)
LEMMA WriteBackFields ==
  ASSUME TypeOK, Undisturbed, NEW q \in Consumers, WriteBack(q)
  PROVE  /\ slot' # Nil
         /\ slot'.code = con[q].code
         /\ slot'.attempts = con[q].attempts + 1
         /\ con[q].attempts \in 0 .. Limit - 1
         /\ Untouched(q)
              => /\ slot # Nil
                 /\ slot.code = con[q].code
                 /\ slot.attempts = con[q].attempts
<1>1. /\ con[q] \in Consumer /\ con[q].code \in Codes
      /\ con[q].attempts \in 0 .. Limit - 1
      /\ q \in Trying
  BY DEF TypeOK, WriteBack, Consumer, Trying, Limit
<1>2. /\ slot' = [code |-> con[q].code, attempts |-> con[q].attempts + 1]
      /\ slot' \in Stored
  BY <1>1 DEF WriteBack, Stored, Limit
<1>3. [code |-> con[q].code, attempts |-> con[q].attempts] \in Stored
  BY <1>1 DEF Stored, Limit
<1>4. QED
  BY <1>1, <1>2, <1>3, NilAssumption DEF Undisturbed, Untouched

(* A code is drawn once, and who draws it keeps it back until the SET.     *)
LEMMA CodesStep ==
  ASSUME IInv, [Next]_vars
  PROVE  CodesAreOwn'
<1> USE DEF IInv, TypeOK, CodesAreOwn, Ended, Sending, Trying, keys, history
<1>1. ASSUME NEW p \in Senders, NEW c \in Codes, Ask(p, c)
      PROVE  CodesAreOwn'
  BY <1>1 DEF Ask, Sender
<1>2. ASSUME NEW p \in Senders, Store(p)
      PROVE  CodesAreOwn'
  BY <1>2 DEF Store, Sender
<1>3. ASSUME NEW p \in Senders, Publish(p) \/ Confirm(p)
      PROVE  CodesAreOwn'
  <2>1. CASE Publish(p)
    BY <2>1 DEF Publish, Sender
  <2>2. CASE Confirm(p)
    BY <2>2 DEF Confirm, Quiet
  <2>3. QED
    BY <1>3, <2>1, <2>2
<1>4. ASSUME NEW p \in Senders, SendFails(p)
      PROVE  CodesAreOwn'
  BY <1>4 DEF SendFails, Sender
<1>5. ASSUME NEW p \in Senders, Undo(p)
      PROVE  CodesAreOwn'
  BY <1>5 DEF Undo, Quiet
<1>6. ASSUME NEW p \in Senders, CancelSend(p)
      PROVE  CodesAreOwn'
  BY <1>6 DEF CancelSend, Quiet
<1>7. ASSUME NEW q \in Consumers, NEW right \in BOOLEAN, Read(q, right)
      PROVE  CodesAreOwn'
  BY <1>7 DEF Read, Consumer
<1>8. ASSUME NEW q \in Consumers, WriteBack(q)
      PROVE  CodesAreOwn'
  BY <1>8 DEF WriteBack, Away, Consumer
<1>9. ASSUME NEW q \in Consumers, Redeem(q) \/ Exhaust(q)
      PROVE  CodesAreOwn'
  BY <1>9 DEF Redeem, Exhaust, Away
<1>10. ASSUME NEW q \in Consumers, CancelTry(q)
       PROVE  CodesAreOwn'
  BY <1>10 DEF CancelTry, Away
<1>11. CASE ExpireCode
  BY <1>11 DEF ExpireCode
<1>12. CASE ExpireCooldown
  BY <1>12 DEF ExpireCooldown
<1>13. CASE UNCHANGED <<slot, con, snd, drawn, settled, withdrawn, mailed, recent, misses>>
  BY <1>13
<1>14. QED
  BY <1>1, <1>2, <1>3, <1>4, <1>5, <1>6, <1>7, <1>8, <1>9, <1>10, <1>11,
     <1>12, <1>13
     DEF Next, AskTooSoon, NothingStored, vars, keys, history

LEMMA StoreStep ==
  ASSUME IInv, [Next]_vars
  PROVE  StoreIsFresh'
<1> USE DEF IInv, TypeOK, CodesAreOwn, StoreIsFresh, KeptBack, Ended, Sending,
        Trying, keys, history
<1>1. ASSUME NEW p \in Senders, NEW c \in Codes, Ask(p, c)
      PROVE  StoreIsFresh'
  BY <1>1 DEF Ask, Sender
<1>2. ASSUME NEW p \in Senders, Store(p)
      PROVE  StoreIsFresh'
  BY <1>2 DEF Store, Sender
<1>3. ASSUME NEW p \in Senders, Publish(p) \/ Confirm(p)
      PROVE  StoreIsFresh'
  <2>1. CASE Publish(p)
    BY <2>1 DEF Publish, Sender
  <2>2. CASE Confirm(p)
    BY <2>2 DEF Confirm, Quiet
  <2>3. QED
    BY <1>3, <2>1, <2>2
<1>4. ASSUME NEW p \in Senders, SendFails(p)
      PROVE  StoreIsFresh'
  BY <1>4 DEF SendFails, Sender
<1>5. ASSUME NEW p \in Senders, Undo(p)
      PROVE  StoreIsFresh'
  BY <1>5 DEF Undo, Quiet
<1>6. ASSUME NEW p \in Senders, CancelSend(p)
      PROVE  StoreIsFresh'
  BY <1>6 DEF CancelSend, Quiet
<1>7. ASSUME NEW q \in Consumers, NEW right \in BOOLEAN, Read(q, right)
      PROVE  StoreIsFresh'
  BY <1>7 DEF Read, Consumer
<1>8. ASSUME NEW q \in Consumers, WriteBack(q)
      PROVE  StoreIsFresh'
  BY <1>8 DEF WriteBack, Away, Consumer
<1>9. ASSUME NEW q \in Consumers, Redeem(q) \/ Exhaust(q)
      PROVE  StoreIsFresh'
  BY <1>9 DEF Redeem, Exhaust, Away
<1>10. ASSUME NEW q \in Consumers, CancelTry(q)
       PROVE  StoreIsFresh'
  BY <1>10 DEF CancelTry, Away
<1>11. CASE ExpireCode
  BY <1>11 DEF ExpireCode
<1>12. CASE ExpireCooldown
  BY <1>12 DEF ExpireCooldown
<1>13. CASE UNCHANGED <<slot, con, snd, settled, withdrawn, mailed, recent, misses>>
  BY <1>13
<1>14. QED
  BY <1>1, <1>2, <1>3, <1>4, <1>5, <1>6, <1>7, <1>8, <1>9, <1>10, <1>11,
     <1>12, <1>13
     DEF Next, AskTooSoon, NothingStored, vars, keys, history

LEMMA UndisturbedStep ==
  ASSUME IInv, [Next]_vars
  PROVE  Undisturbed'
<1> USE DEF IInv, TypeOK, Undisturbed, Untouched, Trying, ReadBy, keys, history
<1>1. ASSUME NEW p \in Senders, Store(p)
      PROVE  Undisturbed'
  BY <1>1 DEF Store
<1>2. ASSUME NEW p \in Senders, Undo(p)
      PROVE  Undisturbed'
  BY <1>2 DEF Undo
<1>3. ASSUME NEW q \in Consumers, NEW right \in BOOLEAN, Read(q, right)
      PROVE  Undisturbed'
  BY <1>3, NilAssumption DEF Read, Consumer, Stored
<1>4. ASSUME NEW q \in Consumers, WriteBack(q)
      PROVE  Undisturbed'
  BY <1>4 DEF WriteBack, Away
<1>5. ASSUME NEW q \in Consumers, Redeem(q) \/ Exhaust(q)
      PROVE  Undisturbed'
  <2>1. Trying' = Trying \ {q} /\ q \in Trying
    BY <1>5 DEF Redeem, Exhaust, Away
  <2>2. \A o \in Trying' : con'[o] = con[o]
    BY <1>5 DEF Redeem, Exhaust, Away
  <2>3. slot' = Nil /\ contended' = contended
    BY <1>5 DEF Redeem, Exhaust
  <2>4. QED
    BY <2>1, <2>2, <2>3
<1>6. ASSUME NEW q \in Consumers, CancelTry(q)
      PROVE  Undisturbed'
  BY <1>6 DEF CancelTry, Away
<1>7. CASE ExpireCode
  BY <1>7 DEF ExpireCode
<1>8. CASE UNCHANGED <<slot, con, contended>>
  BY <1>8
<1>9. QED
  BY <1>1, <1>2, <1>3, <1>4, <1>5, <1>6, <1>7, <1>8
     DEF Next, Ask, Publish, Confirm, SendFails, CancelSend, ExpireCooldown,
         AskTooSoon, NothingStored, vars, keys, history

LEMMA EndedStep ==
  ASSUME IInv, [Next]_vars
  PROVE  EndedCodesStayOut'
<1> USE DEF IInv, TypeOK, EndedCodesStayOut, Ended
<1>1. ASSUME NEW p \in Senders, Store(p)
      PROVE  EndedCodesStayOut'
  BY <1>1 DEF Store, StoreIsFresh, KeptBack
<1>2. ASSUME NEW p \in Senders, Undo(p)
      PROVE  EndedCodesStayOut'
  BY <1>2 DEF Undo
<1>3. ASSUME NEW q \in Consumers, NEW right \in BOOLEAN, Read(q, right)
      PROVE  EndedCodesStayOut'
  BY <1>3 DEF Read, keys
<1>4. ASSUME NEW q \in Consumers, WriteBack(q)
      PROVE  EndedCodesStayOut'
  BY <1>4, WriteBackFields DEF WriteBack, Untouched
<1>5. ASSUME NEW q \in Consumers, Redeem(q) \/ Exhaust(q)
      PROVE  EndedCodesStayOut'
  BY <1>5 DEF Redeem, Exhaust
<1>6. CASE ExpireCode
  BY <1>6 DEF ExpireCode
<1>7. CASE UNCHANGED <<slot, settled, withdrawn, contended>>
  BY <1>7
<1>8. QED
  BY <1>1, <1>2, <1>3, <1>4, <1>5, <1>6, <1>7
     DEF Next, Ask, Publish, Confirm, SendFails, CancelSend, CancelTry, ExpireCooldown,
         AskTooSoon, NothingStored, vars, keys, history

LEMMA AttemptsStep ==
  ASSUME IInv, [Next]_vars
  PROVE  AttemptsCount'
<1> USE DEF IInv, TypeOK, AttemptsCount, Limit
<1>1. ASSUME NEW p \in Senders, Store(p)
      PROVE  AttemptsCount'
  BY <1>1 DEF Store, StoreIsFresh, KeptBack, Stored
<1>2. ASSUME NEW p \in Senders, Undo(p)
      PROVE  AttemptsCount'
  BY <1>2 DEF Undo, Stored
<1>3. ASSUME NEW q \in Consumers, NEW right \in BOOLEAN, Read(q, right)
      PROVE  AttemptsCount'
  BY <1>3 DEF Read, keys
<1>4. ASSUME NEW q \in Consumers, WriteBack(q)
      PROVE  AttemptsCount'
  <2>1. /\ con[q].code \in Codes /\ con[q].attempts \in 0 .. Limit - 1
        /\ slot' # Nil /\ slot'.code = con[q].code
        /\ slot'.attempts = con[q].attempts + 1
    BY <1>4, WriteBackFields DEF WriteBack
  <2>2. con[q].code \notin contended => misses[con[q].code] <= con[q].attempts
    BY <1>4, <2>1, WriteBackFields DEF Untouched
  <2>3. QED
    BY <1>4, <2>1, <2>2 DEF WriteBack, Stored
<1>5. ASSUME NEW q \in Consumers, Redeem(q) \/ Exhaust(q)
      PROVE  AttemptsCount'
  BY <1>5 DEF Redeem, Exhaust, Stored
<1>6. CASE ExpireCode
  BY <1>6 DEF ExpireCode, Stored
<1>7. CASE UNCHANGED <<slot, misses, contended>>
  BY <1>7
<1>8. QED
  BY <1>1, <1>2, <1>3, <1>4, <1>5, <1>6, <1>7
     DEF Next, Ask, Publish, Confirm, SendFails, CancelSend, CancelTry, ExpireCooldown,
         AskTooSoon, NothingStored, vars, keys, history

LEMMA MailsStep ==
  ASSUME IInv, [Next]_vars
  PROVE  MailsAreSent'
<1> USE DEF IInv, TypeOK, MailsAreSent, CodesAreOwn, Sending
<1>1. ASSUME NEW p \in Senders, NEW c \in Codes, Ask(p, c)
      PROVE  MailsAreSent'
  BY <1>1 DEF Ask, Sender
<1>2. ASSUME NEW p \in Senders, Store(p)
      PROVE  MailsAreSent'
  BY <1>2 DEF Store, Sender
<1>3. ASSUME NEW p \in Senders, Publish(p)
      PROVE  MailsAreSent'
  BY <1>3 DEF Publish, Sender
<1>4. ASSUME NEW p \in Senders, SendFails(p)
      PROVE  MailsAreSent'
  BY <1>4 DEF SendFails, Sender
<1>5. ASSUME NEW p \in Senders, Confirm(p) \/ Undo(p) \/ CancelSend(p)
      PROVE  MailsAreSent'
  BY <1>5 DEF Confirm, Undo, CancelSend, Quiet, history
<1>6. CASE ExpireCooldown
  BY <1>6 DEF ExpireCooldown
<1>7. CASE UNCHANGED <<snd, mailed, recent, denied>>
  BY <1>7
<1>8. QED
  BY <1>1, <1>2, <1>3, <1>4, <1>5, <1>6, <1>7
     DEF Next, Read, WriteBack, Redeem, Exhaust, CancelTry, ExpireCode,
         AskTooSoon, NothingStored, vars, keys, history

LEMMA SendsStep ==
  ASSUME IInv, [Next]_vars
  PROVE  SendsAlone'
<1> USE DEF IInv, TypeOK, SendsAlone, Sending
<1>1. ASSUME NEW p \in Senders, NEW c \in Codes, Ask(p, c)
      PROVE  SendsAlone'
  BY <1>1 DEF Ask, SentBy, CodesAreOwn
<1>2. ASSUME NEW p \in Senders, Store(p)
      PROVE  SendsAlone'
  BY <1>2 DEF Store
<1>3. ASSUME NEW p \in Senders, Publish(p)
      PROVE  SendsAlone'
  BY <1>3 DEF Publish, keys
<1>4. ASSUME NEW p \in Senders, Confirm(p)
      PROVE  SendsAlone'
  BY <1>4 DEF Confirm, Quiet, keys, history
<1>5. ASSUME NEW p \in Senders, SendFails(p)
      PROVE  SendsAlone'
  BY <1>5 DEF SendFails, keys
<1>6. ASSUME NEW p \in Senders, Undo(p)
      PROVE  SendsAlone'
  BY <1>6 DEF Undo, Quiet, MailsAreSent
<1>7. ASSUME NEW p \in Senders, CancelSend(p)
      PROVE  SendsAlone'
  BY <1>7 DEF CancelSend, Quiet, keys, history
<1>8. CASE ExpireCooldown
  BY <1>8 DEF ExpireCooldown, SentBy
<1>9. CASE UNCHANGED <<snd, cooldown, overrun, denied, recent, newest>>
  BY <1>9
<1>10. QED
  BY <1>1, <1>2, <1>3, <1>4, <1>5, <1>6, <1>7, <1>8, <1>9
     DEF Next, Read, WriteBack, Redeem, Exhaust, CancelTry, ExpireCode,
         AskTooSoon, NothingStored, vars, keys, history

LEMMA NewestStep ==
  ASSUME IInv, [Next]_vars
  PROVE  NewestWaits'
<1> USE DEF IInv, TypeOK, NewestWaits
<1>1. ASSUME NEW p \in Senders, NEW c \in Codes, Ask(p, c)
      PROVE  NewestWaits'
  BY <1>1 DEF Ask, CodesAreOwn, Sending
<1>2. ASSUME NEW p \in Senders, Store(p)
      PROVE  NewestWaits'
  BY <1>2, NilAssumption
     DEF Store, StoreIsFresh, KeptBack, SendsAlone, Sending, Stored, Limit
<1>3. ASSUME NEW p \in Senders, Publish(p)
      PROVE  NewestWaits'
  BY <1>3 DEF Publish, Quiet, keys, SendsAlone, Sending
<1>4. ASSUME NEW p \in Senders, Confirm(p) \/ SendFails(p)
      PROVE  NewestWaits'
  <2>1. CASE Confirm(p)
    BY <2>1 DEF Confirm, Quiet, keys, history
  <2>2. CASE SendFails(p)
    BY <2>2 DEF SendFails, keys
  <2>3. QED
    BY <1>4, <2>1, <2>2
<1>5. ASSUME NEW p \in Senders, Undo(p)
      PROVE  NewestWaits'
  BY <1>5, NilAssumption DEF Undo, Quiet, SendsAlone, Sending, MailsAreSent
<1>6. ASSUME NEW p \in Senders, CancelSend(p)
      PROVE  NewestWaits'
  BY <1>6 DEF CancelSend, Quiet, keys, history
<1>7. ASSUME NEW q \in Consumers, NEW right \in BOOLEAN, Read(q, right)
      PROVE  NewestWaits'
  BY <1>7 DEF Read, keys
<1>8. ASSUME NEW q \in Consumers, WriteBack(q)
      PROVE  NewestWaits'
  BY <1>8, WriteBackFields DEF WriteBack, Untouched
<1>9. ASSUME NEW q \in Consumers, Redeem(q) \/ Exhaust(q)
      PROVE  NewestWaits'
  BY <1>9 DEF Redeem, Exhaust, Undisturbed, Untouched, Trying
<1>10. CASE ExpireCode
  BY <1>10 DEF ExpireCode
<1>11. CASE ExpireCooldown
  BY <1>11 DEF ExpireCooldown
<1>12. CASE UNCHANGED <<slot, snd, newest, mailed, denied, settled, contended, overrun>>
  BY <1>12
<1>13. QED
  BY <1>1, <1>2, <1>3, <1>4, <1>5, <1>6, <1>7, <1>8, <1>9, <1>10, <1>11, <1>12
     DEF Next, CancelTry, AskTooSoon, NothingStored, vars, keys, history

-----------------------------------------------------------------------------
(* The invariant, and what follows from it.                                *)

LEMMA InvInit == Init => IInv
<1> SUFFICES ASSUME Init PROVE IInv
  OBVIOUS
<1>1. TypeOK
  BY InitType
<1>2. Sending = {} /\ Trying = {}
  BY DEF Init, Sending, Trying, Quiet, Away
<1>3. CodesAreOwn /\ MailsAreSent /\ SendsAlone /\ NewestWaits
  BY <1>2 DEF Init, CodesAreOwn, Ended, MailsAreSent, SendsAlone, NewestWaits, Quiet
<1>4. StoreIsFresh /\ Undisturbed
  BY <1>2 DEF Init, StoreIsFresh, Undisturbed, Untouched, Quiet
<1>5. EndedCodesStayOut /\ AttemptsCount
  BY DEF Init, EndedCodesStayOut, Ended, AttemptsCount, Limit
<1>6. QED
  BY <1>1, <1>3, <1>4, <1>5 DEF IInv

LEMMA InvStep == IInv /\ [Next]_vars => IInv'
<1> SUFFICES ASSUME IInv, [Next]_vars PROVE IInv'
  OBVIOUS
<1>1. TypeOK'
  BY TypeStep DEF IInv
<1>2. QED
  BY <1>1, CodesStep, StoreStep, UndisturbedStep, EndedStep, AttemptsStep,
     MailsStep, SendsStep, NewestStep DEF IInv

LEMMA InvAlways == Spec => []IInv
  BY InvInit, InvStep, PTL DEF Spec

(* _consume_code: a code that was redeemed, exhausted, replaced, withdrawn *)
(* or expired is back in Redis only if the slot changed between some       *)
(* consumer's GET and its SET.                                             *)
THEOREM EndedCodesAreGone == Spec => []EndedCodesStayOut
<1>1. IInv => EndedCodesStayOut
  BY DEF IInv
<1>2. QED
  BY <1>1, InvAlways, PTL

(* The attempts in the slot count every wrong try answered, for any number *)
(* of senders and consumers: no more than Limit of them unless tries       *)
(* overlapped.                                                             *)
THEOREM GuessesAreBounded == Spec => []GuessesBounded
<1>1. IInv => GuessesBounded
  BY DEF IInv, TypeOK, AttemptsCount, GuessesBounded, Stored, Limit
<1>2. QED
  BY <1>1, InvAlways, PTL

(* _send_code: no refused or cancelled send and no wrong try takes the     *)
(* newest code out of Redis once its mail is out, unless sends or tries    *)
(* met; its own sender does only if the publish raised after the broker    *)
(* had taken the job.                                                      *)
THEOREM MailedCodesWait == Spec => []MailedCodeWaits
<1>1. IInv => MailedCodeWaits
  BY DEF IInv, NewestWaits, MailedCodeWaits
<1>2. QED
  BY <1>1, InvAlways, PTL

(* The cooldown lets one mail out at a time, however many requests ask,    *)
(* unless a sending met another, outlived its cooldown, or was told that   *)
(* it had failed although the broker took the job.                         *)
THEOREM OneMailAtATime == Spec => []OneMailPerCooldown
<1> DEFINE counted == recent \ (overrun \cup denied)
<1>1. IInv => OneMailPerCooldown
  <2> SUFFICES ASSUME IInv PROVE Cardinality(counted) <= 1
    BY DEF OneMailPerCooldown
  <2>1. CASE counted = {}
    BY <2>1, FS_EmptySet
  <2>2. CASE counted # {}
    <3>1. PICK c : counted = {c}
      BY <2>2 DEF IInv, SendsAlone
    <3>2. Cardinality({c}) = 1
      BY FS_Singleton
    <3>3. QED
      BY <3>1, <3>2
  <2>3. QED
    BY <2>1, <2>2
<1>2. QED
  BY <1>1, InvAlways, PTL

(* _consume_code: accepting a code ends it, and no code is accepted after  *)
(* its end, unless it was contended.                                       *)
THEOREM CodesAreRedeemedOnce == Spec => RedeemedOnce
<1>1. IInv /\ [Next]_vars =>
        [\A q \in Consumers : Redeem(q) =>
            con[q].code \notin Ended \/ con[q].code \in contended]_vars
  <2> SUFFICES ASSUME IInv, NEW q \in Consumers, Redeem(q),
                      con[q].code \notin contended
               PROVE  con[q].code \notin Ended
    OBVIOUS
  <2>1. /\ q \in Trying /\ con[q].code \in Codes
        /\ con[q].attempts \in 0 .. Limit
    BY DEF IInv, TypeOK, Redeem, Trying, Consumer
  <2>2. [code |-> con[q].code, attempts |-> con[q].attempts] \in Stored
    BY <2>1 DEF Stored
  <2>3. slot # Nil /\ slot.code = con[q].code
    BY <2>1, <2>2, NilAssumption DEF IInv, Undisturbed, Untouched
  <2>4. QED
    BY <2>3 DEF IInv, EndedCodesStayOut
<1>2. QED
  BY <1>1, InvAlways, PTL DEF Spec, RedeemedOnce
=============================================================================
