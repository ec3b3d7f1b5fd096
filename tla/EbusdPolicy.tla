---------------------------- MODULE EbusdPolicy ----------------------------
(***************************************************************************)
(* The retry policy of the ebusd transport,                                *)
(* EbusdTcpTransport._send_with_policy, for one logical request after      *)
(* another, inside or outside a persistent session.                        *)
(*                                                                         *)
(* An attempt (_send_once, _send_proto_once) is opaque: it ends with a     *)
(* reply or with one class of failure, as _parse_ebusd_response_lines and  *)
(* the _is_... predicates tell them apart.  EbusdSession models how its    *)
(* lines are read.  Time counts units since the operation's deadline was   *)
(* created and is capped at Budget, where every check of it raises.        *)
(***************************************************************************)
EXTENDS Integers

CONSTANTS TimeoutMax,    \* timeout_max_retries
          CollisionMax,  \* collision_max_retries
          NoSignalMax,   \* no_signal_max_s
          Settle,        \* _BUS_SETTLE_RETRY_S
          Lost,          \* _BUS_LOST_RETRY_S
          Budget         \* max_command_s

EbusdConstants ==
  /\ TimeoutMax \in Nat /\ CollisionMax \in Nat
  /\ NoSignalMax \in Nat \ {0} /\ Settle \in Nat \ {0} /\ Lost \in Nat \ {0}
  /\ Budget \in Nat \ {0}

VARIABLES
  pc,                   \* "idle", "check" (the loop head), "hook" or "attempt"
  retry_safe, hooked, persistent,
  elapsed,              \* time since the root deadline was created
  session,              \* the persistent connection, "open" or "closed"
  request_attempts, timeout_retries, collision_retries,
  no_signal_start,      \* elapsed when the no-signal window began, or None
  connection_retried, reconnect_pending, reconnect_attempts,
  outcome,              \* how the last request ended
  last,                 \* history: how the last attempt ended
  quiet_until,          \* history: end of the backoff the last failure asks for
  reconnects_begun      \* history: attempts begun after a connection failure

request == <<retry_safe, hooked, persistent>>
counters == <<timeout_retries, collision_retries, no_signal_start, connection_retried>>
reconnects == <<reconnect_pending, reconnect_attempts, reconnects_begun>>
vars == <<pc, request, elapsed, session, request_attempts, counters, reconnects, outcome,
          last, quiet_until>>

None == -1

-----------------------------------------------------------------------------
(* How an attempt ends inside a persistent session: an ERR line leaves the *)
(* connection up unless its tail was not isolated; an empty response is a  *)
(* connection-level error that may leave it up; a socket failure does not. *)
AttemptEnds ==
  [reply              |-> {"open", "closed"},
   connection_timeout |-> {"closed"},
   connection_error   |-> {"open", "closed"},
   err_timeout        |-> {"open", "closed"},
   no_signal          |-> {"open", "closed"},
   collision          |-> {"open", "closed"},
   other              |-> {"open", "closed"}]
Failures == DOMAIN AttemptEnds \ {"reply"}
ConnectionLevel == {"connection_timeout", "connection_error"}
Outcomes == {"none", "reply", "hook_raised", "deadline"} \union Failures

Expired == elapsed >= Budget
Later(d) == IF elapsed + d > Budget THEN Budget ELSE elapsed + d

-----------------------------------------------------------------------------
Init ==
  /\ pc = "idle" /\ retry_safe = FALSE /\ hooked = FALSE /\ persistent = FALSE
  /\ elapsed = 0 /\ session = "closed" /\ request_attempts = 0
  /\ timeout_retries = 0 /\ collision_retries = 0 /\ no_signal_start = None
  /\ connection_retried = FALSE /\ reconnect_pending = FALSE /\ reconnect_attempts = 0
  /\ reconnects_begun = 0 /\ outcome = "none" /\ last = "none" /\ quiet_until = 0

Leave(o) == pc' = "idle" /\ outcome' = o

(* session() is entered, or left, between two requests; a failed entry     *)
(* leaves no session.                                                      *)
SessionContext ==
  /\ pc = "idle"
  /\ \/ persistent' = TRUE /\ session' = "open"
     \/ persistent' = FALSE /\ session' = "closed"
  /\ outcome' = "none"
  /\ UNCHANGED <<pc, retry_safe, hooked, elapsed, request_attempts, counters, reconnects,
                 last, quiet_until>>

(* _send_b524 (with or without a hook) and send_proto (never a hook, always*)
(* retry_safe) create the deadline and enter the policy.                   *)
Begin ==
  /\ pc = "idle" /\ pc' = "check"
  /\ retry_safe' \in BOOLEAN /\ hooked' \in BOOLEAN
  /\ elapsed' = 0 /\ request_attempts' = 0
  /\ timeout_retries' = 0 /\ collision_retries' = 0 /\ no_signal_start' = None
  /\ connection_retried' = FALSE /\ reconnect_pending' = FALSE /\ reconnect_attempts' = 0
  /\ reconnects_begun' = 0 /\ outcome' = "none" /\ last' = "none" /\ quiet_until' = 0
  /\ UNCHANGED <<persistent, session>>

DeadlineExpires ==
  /\ pc # "idle" /\ Expired
  /\ Leave("deadline") /\ session' = "closed"
  /\ UNCHANGED <<request, elapsed, request_attempts, counters, reconnects, last, quiet_until>>

CallHook ==
  /\ pc = "check" /\ ~Expired /\ hooked /\ pc' = "hook"
  /\ UNCHANGED <<request, elapsed, session, request_attempts, counters, reconnects, outcome,
                 last, quiet_until>>

HookRaises ==
  /\ pc = "hook" /\ Leave("hook_raised")
  /\ UNCHANGED <<request, elapsed, session, request_attempts, counters, reconnects, last,
                 quiet_until>>

HookInTime == pc = "hook" /\ ~Expired
(* _attempt_admitted: the attempt is counted, and the reconnect it begins. *)
Admit ==
  /\ \/ pc = "check" /\ ~hooked /\ ~Expired
     \/ HookInTime
  /\ pc' = "attempt" /\ request_attempts' = request_attempts + 1
  /\ reconnect_pending' = FALSE
  /\ reconnect_attempts' = (IF reconnect_pending THEN reconnect_attempts + 1 ELSE reconnect_attempts)
  /\ reconnects_begun' = (IF last \in ConnectionLevel THEN reconnects_begun + 1 ELSE reconnects_begun)
  /\ UNCHANGED <<request, elapsed, session, counters, outcome, last, quiet_until>>

-----------------------------------------------------------------------------
(* The attempt ends with e and leaves the connection in state s.           *)
Ended(e, s) ==
  /\ pc = "attempt" /\ last' = e
  /\ IF persistent THEN s \in AttemptEnds[e] ELSE s = "closed"
  /\ UNCHANGED <<request, request_attempts, reconnect_attempts, reconnects_begun>>

AttemptReturns(s) ==
  /\ Ended("reply", s) /\ ~Expired
  /\ session' = s /\ Leave("reply")
  /\ UNCHANGED <<elapsed, counters, reconnect_pending, quiet_until>>

(* Mutant of MayRetry: the retry-safety test is missing.                   *)
MayRetryAll == TRUE
MayRetry == retry_safe
(* Not retry-safe, or a failure no handler retries.                        *)
NotRetried(e, s) ==
  /\ Ended(e, s) /\ (~retry_safe \/ e = "other")
  /\ session' = s /\ Leave(e)
  /\ no_signal_start' = (IF retry_safe THEN None ELSE no_signal_start)
  /\ UNCHANGED <<elapsed, timeout_retries, collision_retries, connection_retried,
                 reconnect_pending, quiet_until>>

ClosedAfterFailure(s) == IF persistent THEN "closed" ELSE s
(* Mutant of ReconnectPending: counted where the failure is handled.       *)
ReconnectForgotten == FALSE
ReconnectPending == TRUE
(* A connection-level failure is retried once, on a new connection.        *)
OnConnectionFailure(e, s) ==
  /\ e \in ConnectionLevel /\ Ended(e, s) /\ MayRetry
  /\ session' = ClosedAfterFailure(s)
  /\ \/ /\ ~connection_retried /\ connection_retried' = TRUE
        /\ reconnect_pending' = ReconnectPending /\ pc' = "check" /\ UNCHANGED outcome
     \/ connection_retried /\ Leave(e) /\ UNCHANGED <<connection_retried, reconnect_pending>>
  /\ UNCHANGED <<elapsed, timeout_retries, collision_retries, no_signal_start, quiet_until>>

(* The pauses the README promises after bus-level failures.                *)
Quiet == [err_timeout |-> Settle, collision |-> Settle, no_signal |-> Lost]
(* A retry of failure e after a wait of d: the wait is over, or the        *)
(* deadline is.                                                            *)
RetryAfter(e, d) ==
  pc' = "check" /\ elapsed' = Later(d) /\ quiet_until' = elapsed + Quiet[e] /\ UNCHANGED outcome
GiveUp(e) == Leave(e) /\ UNCHANGED <<elapsed, quiet_until>>

OnErrTimeout(s) ==
  /\ Ended("err_timeout", s) /\ MayRetry
  /\ session' = s
  /\ timeout_retries' = timeout_retries + 1
  /\ IF timeout_retries' > TimeoutMax THEN GiveUp("err_timeout") ELSE RetryAfter("err_timeout", Settle)
  /\ UNCHANGED <<collision_retries, no_signal_start, connection_retried, reconnect_pending>>

(* Mutant of LostBackoff: the shorter pause of the other bus errors.       *)
LostTooShort == Settle
LostBackoff == Lost
(* No signal: polled for NoSignalMax from the first one in a row of such   *)
(* failures; timeouts and reconnects between them do not end the row.      *)
OnNoSignal(s) ==
  /\ Ended("no_signal", s) /\ MayRetry
  /\ session' = s
  /\ no_signal_start' = (IF no_signal_start = None THEN elapsed ELSE no_signal_start)
  /\ IF elapsed - no_signal_start' >= NoSignalMax
       THEN GiveUp("no_signal") ELSE RetryAfter("no_signal", LostBackoff)
  /\ UNCHANGED <<timeout_retries, collision_retries, connection_retried, reconnect_pending>>

CollisionsLeft == collision_retries' <= CollisionMax
OnCollision(s) ==
  /\ Ended("collision", s) /\ MayRetry
  /\ session' = s
  /\ no_signal_start' = None
  /\ collision_retries' = collision_retries + 1
  /\ IF CollisionsLeft THEN RetryAfter("collision", Settle) ELSE GiveUp("collision")
  /\ UNCHANGED <<timeout_retries, connection_retried, reconnect_pending>>

Handler ==
  \E s \in {"open", "closed"} :
    \/ AttemptReturns(s) \/ OnErrTimeout(s) \/ OnNoSignal(s) \/ OnCollision(s)
    \/ \E e \in Failures : NotRetried(e, s) \/ OnConnectionFailure(e, s)

Tick ==
  /\ pc # "idle" /\ ~Expired /\ elapsed' = elapsed + 1
  /\ UNCHANGED <<pc, request, session, request_attempts, counters, reconnects, outcome, last,
                 quiet_until>>

Step == DeadlineExpires \/ CallHook \/ HookRaises \/ Admit \/ Handler
Next == SessionContext \/ Begin \/ Step \/ Tick

(* The thread inside the policy keeps running: connecting, sending and     *)
(* reading are bounded by socket timeouts, pauses by the deadline.         *)
Spec == Init /\ [][Next]_vars /\ WF_vars(Step)

-----------------------------------------------------------------------------
TypeOK ==
  /\ pc \in {"idle", "check", "hook", "attempt"}
  /\ retry_safe \in BOOLEAN /\ hooked \in BOOLEAN /\ persistent \in BOOLEAN
  /\ elapsed \in 0..Budget /\ session \in {"open", "closed"}
  /\ request_attempts \in Nat
  /\ timeout_retries \in 0..(TimeoutMax + 1) /\ collision_retries \in 0..(CollisionMax + 1)
  /\ no_signal_start \in 0..Budget \union {None}
  /\ connection_retried \in BOOLEAN /\ reconnect_pending \in BOOLEAN
  /\ reconnect_attempts \in 0..1 /\ reconnects_begun \in 0..1
  /\ outcome \in Outcomes /\ last \in {"none", "reply"} \union Failures
  /\ quiet_until \in 0..(Budget + Settle + Lost)

(* README: "Retry and reconnect counts stay finite".  Collisions renew the *)
(* no-signal window, so the bound is a sum over at most CollisionMax + 1   *)
(* windows, each with as many polls as begin within NoSignalMax.           *)
PollsPerWindow == (NoSignalMax + Lost - 1) \div Lost
AttemptsBounded ==
  request_attempts <= 1 + 1 + TimeoutMax + CollisionMax + (CollisionMax + 1) * PollsPerWindow

(* README: "its counts are the request attempts actually admitted ... and  *)
(* the reconnects actually begun": the reconnect a report names is one an  *)
(* admitted attempt began after a connection failure, in whatever order    *)
(* hooks, other failures and the deadline came between.                    *)
ReconnectsReported == reconnect_attempts = reconnects_begun

(* The counts a failure reports are finite and true.                       *)
CountsHold == TypeOK /\ AttemptsBounded /\ ReconnectsReported

(* After a connection-level failure the same request never sends on the    *)
(* connection that failed, also when the failure left it up (an empty      *)
(* response), so a late line of the failed attempt cannot answer the retry.*)
FreshAfterConnectionFailure ==
  pc \in {"check", "hook"} /\ last \in ConnectionLevel => session = "closed"

(* What the caller is given, as RequestContract names it.                  *)
Answer == IF outcome \in {"none", "reply"} THEN outcome ELSE "failure"
=============================================================================
