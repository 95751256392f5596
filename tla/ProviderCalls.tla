---------------------------- MODULE ProviderCalls ----------------------------
(***************************************************************************)
(* What the callers of the payment client count on: a call takes effect at *)
(* the provider at most once and is answered at most once.  If its reply   *)
(* shows what it did, it is answered `ok` only after it took effect.  A    *)
(* call answered with an error may still take effect, before the answer or *)
(* after it.                                                               *)
(***************************************************************************)
EXTENDS Naturals

CONSTANTS Calls,
          Shown     \* those of them whose reply shows that they took effect

VARIABLES effects,   \* how often each call took effect
          answer     \* what its caller was told

Answers == {"none", "ok", "error"}

Init ==
  /\ effects = [k \in Calls |-> 0]
  /\ answer = [k \in Calls |-> "none"]

TakeEffect(k) ==
  /\ effects[k] = 0
  /\ effects' = [effects EXCEPT ![k] = 1]
  /\ UNCHANGED answer

\* Callers are told what became of their calls, all of them when they die.
Tell ==
  /\ answer' \in [Calls -> Answers]
  /\ \A k \in Calls : answer'[k] # answer[k] =>
       answer[k] = "none" /\ (answer'[k] = "ok" /\ k \in Shown => effects[k] = 1)
  /\ UNCHANGED effects

Next == Tell \/ \E k \in Calls : TakeEffect(k)

Spec == Init /\ [][Next]_<<effects, answer>>
=============================================================================
