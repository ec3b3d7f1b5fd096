------------------------ MODULE DescriptionAcquisition ------------------------
(***************************************************************************)
(* acquire_descriptions over a CountingTransport: one probe per scheduled  *)
(* candidate, each probe as many attempts as the transport below makes.    *)
(* Before every attempt the transport calls two hooks: the scan's request  *)
(* budget, then the fair-share hook that withholds an attempt which would  *)
(* take the request another candidate's first attempt is promised.         *)
(***************************************************************************)
EXTENDS DescriptionSchedule, FiniteSets, Functions

CONSTANTS MaxSize,        \* bound: candidates of one namespace
          NamespaceCount, \* bound: namespaces of a family
          MaxLimit,       \* bound: the scan's request budget, and description_budget
          MaxBefore,      \* bound: requests the scan sent before
          MaxAttempts,    \* attempts the transport makes for one request
          Unlimited       \* the budget None

ASSUME AcquisitionAssumption ==
  /\ MaxSize \in Nat /\ NamespaceCount \in Nat /\ MaxLimit \in Nat
  /\ MaxBefore \in Nat /\ MaxAttempts \in Nat
  /\ Unlimited \notin Nat

Namespaces == 1..NamespaceCount
MaxEligible == MaxSize * NamespaceCount

VARIABLES
  order,      \* the candidates of each family in their order, by namespace
  eligible,   \* their number
  described,  \* description_budget
  limit,      \* request_budget of the CountingTransport
  before,     \* send_calls when the acquisition starts
  sends,      \* send_calls now
  configured, \* len(configured_schedule.scheduled)
  scheduled,  \* per family, under the effective budget
  reserved,   \* reserved_firsts
  phase, at,  \* "next", "asking", "ended"; the candidate, in scheduled order
  tried,      \* attempts of the current probe
  admitted,   \* _first_attempt_admitted of the current probe
  remaining, pending,  \* the fair state: capacity, pending_reserved_firsts
  preempted,  \* attempt_preempted
  asked,      \* candidate -> attempts its description reports, or Unasked
  outcome, coverage

input == <<order, eligible, described, limit, before>>
schedule == <<configured, scheduled, reserved>>
fair == <<remaining, pending, admitted>>
vars == <<input, schedule, sends, phase, at, tried, fair, preempted, asked, outcome, coverage>>

Unasked == -1
-----------------------------------------------------------------------------
(* The two schedules: by the description budget, and by what is left of    *)
(* the scan's budget; in the second each family's reserved first attempts. *)
Configured ==
  Total(Consumed(eligible, IF described = Unlimited THEN Total(eligible) ELSE described))
Capacity == IF before >= limit THEN 0 ELSE limit - before
EffectiveBudget == IF limit = Unlimited THEN configured ELSE Least(configured, Capacity)
ReservedFirsts ==
  [f \in Families |->
    IF limit = Unlimited THEN 0 ELSE Least(scheduled[f], Reservation(EffectiveBudget)[f])]

Family(i) == IF i <= scheduled["local"] THEN "local" ELSE "remote"
Of(f) == {i \in 1..Total(scheduled) : Family(i) = f}
(* Mutant of Reserved: positions counted over both families.               *)
ReservedOverall(i) == i <= reserved[Family(i)]
Reserved(i) ==
  (IF i <= scheduled["local"] THEN i ELSE i - scheduled["local"]) <= reserved[Family(i)]

(* finish_description_coverage: the counts, from the descriptions stored.  *)
Attempted(f, descriptions) == {i \in Of(f) : descriptions[i] # Unasked}
CoverageOf(descriptions) ==
  [f \in Families |->
    [attempted     |-> Cardinality(Attempted(f, descriptions)),
     not_attempted |-> Cardinality(Of(f) \ Attempted(f, descriptions)),
     requests      |-> SumFunctionOnSet(descriptions, Attempted(f, descriptions)),
     skipped       |-> eligible[f] - scheduled[f]]]

Init ==
  /\ \E sizes \in [Families -> [Namespaces -> 0..MaxSize]] :
       /\ order = [f \in Families |-> RoundRobin(sizes[f], MaxSize)]
       /\ eligible = [f \in Families |-> SumFunction(sizes[f])]
  /\ eligible \in [Families -> 0..MaxEligible]
  /\ described \in 0..MaxLimit \cup {Unlimited}
  /\ limit \in 1..MaxLimit \cup {Unlimited}
  /\ before \in 0..MaxBefore /\ (limit # Unlimited => before <= limit)
  /\ configured = Configured
  /\ scheduled = Consumed(eligible, EffectiveBudget)
  /\ reserved = ReservedFirsts
  /\ sends = before /\ phase = "next" /\ at = 1 /\ tried = 0
  /\ remaining = IF limit = Unlimited THEN 0 ELSE Capacity
  /\ pending = IF limit = Unlimited THEN 0 ELSE Total(reserved)
  /\ admitted = FALSE /\ preempted = FALSE /\ outcome = "none"
  /\ asked = [i \in 1..(2 * MaxEligible) |-> Unasked]
  /\ coverage = CoverageOf(asked)
-----------------------------------------------------------------------------
(* What each way out of a probe stores: the description, if any.           *)
Store(attempts) == asked' = [asked EXCEPT ![at] = attempts]
StoreIfSent == IF tried > 0 THEN Store(tried) ELSE UNCHANGED asked

End(o) ==
  /\ phase' = "ended" /\ outcome' = o /\ coverage' = CoverageOf(asked')
  /\ UNCHANGED <<input, schedule, sends, at, tried, fair, preempted>>

Proceed ==
  /\ phase' = "next" /\ at' = at + 1 /\ UNCHANGED <<input, schedule, sends, tried, fair, outcome, coverage>>

Probe ==
  /\ phase = "next" /\ at <= Total(scheduled)
  /\ phase' = "asking" /\ tried' = 0 /\ admitted' = FALSE
  /\ UNCHANGED <<input, schedule, sends, at, remaining, pending, preempted, asked, outcome, coverage>>

(* The transport is about to make an attempt: the hooks of                 *)
(* CountingTransport and of _FairDescriptionCandidateTransport.            *)
Attempting == phase = "asking" /\ tried < MaxAttempts
OverLimit == limit # Unlimited /\ sends >= limit
(* Mutant of Withheld: retries take whatever is left.                      *)
NeverWithheld == limit # Unlimited /\ remaining <= 0
Withheld ==
  /\ limit # Unlimited
  /\ \/ (admitted \/ ~Reserved(at)) /\ remaining <= pending
     \/ remaining <= 0

PendingAfter == IF ~admitted /\ Reserved(at) THEN pending - 1 ELSE pending

Attempt ==
  /\ Attempting /\ ~OverLimit /\ ~Withheld
  /\ sends' = sends + 1 /\ tried' = tried + 1
  /\ IF limit = Unlimited
     THEN UNCHANGED fair
     ELSE /\ remaining' = remaining - 1 /\ admitted' = TRUE
          /\ pending' = PendingAfter
  /\ UNCHANGED <<input, schedule, phase, at, preempted, asked, outcome, coverage>>

RefusedByBudget ==
  /\ Attempting /\ OverLimit /\ StoreIfSent /\ End("budget")

(* Mutant of Deferred: the attempts already made are forgotten.            *)
DeferredForgotten ==
  /\ Attempting /\ ~OverLimit /\ Withheld
  /\ preempted' = TRUE /\ UNCHANGED asked /\ Proceed
Deferred ==
  /\ Attempting /\ ~OverLimit /\ Withheld
  /\ preempted' = TRUE /\ StoreIfSent /\ Proceed

(* An answer, or an error the probe turns into an unavailable description. *)
Returned ==
  /\ phase = "asking" /\ Store(tried) /\ UNCHANGED preempted /\ Proceed

RecoveryExhausted == phase = "asking" /\ StoreIfSent /\ End("recovery")

(* Ctrl-C in a probe; between two probes the caller's coverage is the same.*)
Interrupted ==
  \/ phase = "asking" /\ StoreIfSent /\ End("interrupted")
  \/ phase = "next" /\ at <= Total(scheduled) /\ UNCHANGED asked /\ End("interrupted")

(* TransportCommandNotEnabled leaves through the scan: nothing is stored.  *)
NotEnabled ==
  /\ phase = "asking" /\ phase' = "ended" /\ outcome' = "not_enabled"
  /\ UNCHANGED <<input, schedule, sends, at, tried, fair, preempted, asked, coverage>>

Finish ==
  /\ phase = "next" /\ at > Total(scheduled) /\ UNCHANGED asked
  /\ End(IF preempted \/ Total(scheduled) < configured THEN "budget" ELSE "complete")

Next == \/ Probe \/ Attempt \/ RefusedByBudget \/ Deferred \/ Returned
        \/ RecoveryExhausted \/ Interrupted \/ NotEnabled \/ Finish

Spec == Init /\ [][Next]_vars
-----------------------------------------------------------------------------
Capped == limit # Unlimited

TypeOK ==
  /\ eligible \in [Families -> 0..MaxEligible]
  /\ configured \in Nat /\ scheduled \in [Families -> 0..MaxEligible]
  /\ reserved \in [Families -> Nat]
  /\ described \in Nat \cup {Unlimited} /\ limit \in Nat \cup {Unlimited}
  /\ before \in Nat /\ sends \in Nat /\ before <= sends
  /\ phase \in {"next", "asking", "ended"} /\ at \in Nat \ {0} /\ tried \in 0..MaxAttempts
  /\ remaining \in Nat /\ pending \in Nat /\ admitted \in BOOLEAN /\ preempted \in BOOLEAN
  /\ asked \in [1..(2 * MaxEligible) -> Nat \cup {Unasked}]
  /\ outcome \in {"none", "budget", "recovery", "interrupted", "not_enabled", "complete"}

(* The reserved first attempts of local and of remote candidates from the  *)
(* i-th scheduled one on.                                                  *)
LocalAhead(i) == IF i <= reserved["local"] THEN reserved["local"] - i + 1 ELSE 0
RemoteAhead(i) ==
  IF i <= scheduled["local"] THEN reserved["remote"]
  ELSE IF i - scheduled["local"] <= reserved["remote"]
       THEN reserved["remote"] - (i - scheduled["local"]) + 1 ELSE 0
Ahead(i) == LocalAhead(i) + RemoteAhead(i)

(* The capacity is what is left of the scan's budget, the promises still   *)
(* outstanding fit into it, and cover every reserved candidate to come.    *)
PromisesCovered ==
  Capped => /\ remaining = limit - sends
            /\ pending <= remaining
            /\ Ahead(IF admitted /\ phase # "next" THEN at + 1 ELSE at) <= pending

(* What a probe under way relies on.                                       *)
ProbeSound ==
  /\ \A f \in Families : reserved[f] <= IF Capped THEN scheduled[f] ELSE 0
  /\ phase # "ended" => outcome = "none"
  /\ phase = "asking" => /\ at <= Total(scheduled)
                         /\ Capped /\ admitted => tried > 0

(* Every reserved candidate behind the current one was asked.              *)
WasAsked(i) == Reserved(i) => asked[i] # Unasked
AskedBehind == \A i \in 1..Total(scheduled) : i < at => WasAsked(i)
AllAsked == outcome \in {"budget", "complete"} => \A i \in 1..Total(scheduled) : WasAsked(i)

(* The fair hook keeps its promise (_FairDescriptionAttemptState): no      *)
(* retry and no borrowed candidate takes the request of a reserved first   *)
(* attempt, so none of those is ever withheld, whatever the transport      *)
(* retries, and an acquisition that ends for want of budget has asked      *)
(* every one of them.                                                      *)
FairInv == TypeOK /\ ProbeSound /\ PromisesCovered /\ AskedBehind /\ AllAsked

(* request_budget_exhausted is told only of a budget that is spent: if     *)
(* every probe that returned had sent something, no request is left when   *)
(* the acquisition gives up (acquire_descriptions, its two last raises).   *)
BudgetSpent ==
  outcome = "budget" /\ (\A i \in DOMAIN asked : asked[i] # 0) => sends = limit

(* parameter_description_coverage adds up to what went out, on every way   *)
(* out that returns an artifact: the attempts it reports, those of         *)
(* withheld, refused and aborted probes included, are the requests sent.   *)
CoverageTrue ==
  outcome \notin {"none", "not_enabled"} =>
    coverage["local"].requests + coverage["remote"].requests = sends - before

(* The acquisition reports the requests it sent and why it gave up.        *)
ReportTrue == BudgetSpent /\ CoverageTrue

(* No namespace waits while another is served twice: when candidates of a  *)
(* namespace are skipped, no other one of its family has more than one     *)
(* scheduled candidate above its own (_round_robin_namespaces).            *)
Places(f, n) == {k \in 1..Len(order[f]) : order[f][k] = n}
Served(f, n) == Cardinality({k \in Places(f, n) : k <= scheduled[f]})
NamespacesInTurn ==
  \A f \in Families :
    /\ Len(order[f]) = eligible[f]
    /\ \A n, m \in Namespaces :
         Served(f, n) < Cardinality(Places(f, n)) => Served(f, m) <= Served(f, n) + 1
=============================================================================
