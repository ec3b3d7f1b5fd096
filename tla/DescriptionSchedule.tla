-------------------------- MODULE DescriptionSchedule --------------------------
(***************************************************************************)
(* schedule_descriptions: which description candidates a budget admits,    *)
(* and in which order.  A family is one of the two description opcodes:    *)
(* "local" reads with 0x02 and is served first, "remote" reads with 0x06.  *)
(* A candidate is its position in its family's order; a namespace is a     *)
(* (group, instance) pair, numbered in sorted order.  Duplicates of one    *)
(* selector, which a scan never observes twice, are left out.              *)
(***************************************************************************)
EXTENDS Integers, Sequences, FiniteSets

Families == {"local", "remote"}

Least(a, b) == IF a <= b THEN a ELSE b

(* Mutant of Turn: the namespaces one after the other.                     *)
WholeNamespace(sizes, round) ==
  IF round \in DOMAIN sizes THEN [k \in 1..sizes[round] |-> round] ELSE <<>>
(* One round of _round_robin_namespaces: every namespace that still has a  *)
(* candidate gives one, in the order of the keys.                          *)
Turn(sizes, round) ==
  LET left == {n \in DOMAIN sizes : sizes[n] >= round}
  IN  CHOOSE turn \in [1..Cardinality(left) -> left] :
        \A i, j \in DOMAIN turn : i < j => turn[i] < turn[j]

(* The order of a family: the namespace of each of its candidates.         *)
RoundRobin(sizes, rounds) ==
  LET upTo[r \in 0..rounds] == IF r = 0 THEN <<>> ELSE upTo[r - 1] \o Turn(sizes, r)
  IN  upTo[rounds]

(* The half of the budget each family is promised; the odd one is local.   *)
Reservation(budget) == [local |-> (budget + 1) \div 2, remote |-> budget \div 2]

(* What each family gets of the budget: its reservation, then what the     *)
(* other family cannot use, the local family borrowing first.              *)
Consumed(eligible, budget) ==
  LET own   == [f \in Families |-> Least(eligible[f], Reservation(budget)[f])]
      spare == budget - own["local"] - own["remote"]
      more  == Least(eligible["local"] - own["local"], spare)
  IN  [local  |-> own["local"] + more,
       remote |-> own["remote"]
                    + Least(eligible["remote"] - own["remote"], spare - more)]

Total(count) == count["local"] + count["remote"]
=============================================================================
