-------------------------- MODULE RequestContract --------------------------
(***************************************************************************)
(* What a caller of TransportInterface.send_with_attempt_hook and          *)
(* send_proto may rely on, whichever transport is underneath: one logical  *)
(* request at a time, repeated natively only when repeating is harmless,   *)
(* nothing begun and nothing accepted once the operation's budget is       *)
(* spent, and an end to every request.  EnhancedPolicy and EbusdPolicy     *)
(* implement it.                                                           *)
(***************************************************************************)

VARIABLES running,   \* a request is in progress
          safe,      \* the request may be repeated
          admitted,  \* native requests admitted for it so far
          spent,     \* its elapsed budget is used up
          answer     \* what the last request gave its caller

vars == <<running, safe, admitted, spent, answer>>

LOCAL INSTANCE Naturals

Init ==
  /\ ~running /\ safe \in BOOLEAN /\ admitted = 0 /\ spent = FALSE /\ answer = "none"

Begin ==
  /\ ~running /\ running' = TRUE
  /\ safe' \in BOOLEAN /\ admitted' = 0 /\ spent' = FALSE /\ answer' = "none"

(* A native request begins: the first one, or a repetition of a safe one.  *)
Admit ==
  /\ running /\ ~spent /\ (safe \/ admitted = 0)
  /\ admitted' = admitted + 1
  /\ UNCHANGED <<running, safe, spent, answer>>

Spend ==
  /\ running /\ ~spent /\ spent' = TRUE
  /\ UNCHANGED <<running, safe, admitted, answer>>

(* A reply needs a native request and comes before the budget is spent.    *)
Reply ==
  /\ running /\ ~spent /\ admitted > 0
  /\ running' = FALSE /\ answer' = "reply"
  /\ UNCHANGED <<safe, admitted, spent>>

Fail ==
  /\ running /\ running' = FALSE /\ answer' = "failure"
  /\ UNCHANGED <<safe, admitted, spent>>

(* The caller has taken the answer.                                        *)
Collect ==
  /\ ~running /\ answer' = "none"
  /\ UNCHANGED <<running, safe, admitted, spent>>

Next == Begin \/ Admit \/ Spend \/ Reply \/ Fail \/ Collect

Spec == Init /\ [][Next]_vars /\ WF_vars(Reply \/ Fail)
=============================================================================
