------------------------- MODULE MCVerificationCodes -------------------------
(* Small instances of VerificationCodes. *)
EXTENDS VerificationCodes, TLC

(* What the properties can still tell apart: the history of a code that was *)
(* contended, overrun or denied, which it stays, is read by none of them.   *)
View ==
    LET met == overrun \cup denied IN
    <<slot, cooldown, snd, con, drawn, newest, contended, met,
      settled \ contended, withdrawn \ contended, mailed \ (contended \cup met),
      recent \ met, [c \in Codes |-> IF c \in contended THEN 0 ELSE misses[c]]>>

Symmetry == Permutations(Codes) \cup Permutations(Senders) \cup Permutations(Consumers)
=============================================================================
