--------------------------- MODULE EnhancedPolicy ---------------------------
(***************************************************************************)
(* The retry and recovery policy of the enhanced-adapter transport,        *)
(* EnhancedTcpTransport._send_with_policy with its inner _recover_session, *)
(* run for one logical request after another on one connection.            *)
(*                                                                         *)
(* An attempt (_send_proto_once) is opaque here: it admits one or several  *)
(* native requests and ends with a result or with one of the exceptions of *)
(* AttemptEnds.  EnhancedWire models its wire protocol.  Time is the       *)
(* number of units elapsed since the operation's RequestDeadline was       *)
(* created; it may pass between any two steps and is capped at Budget,     *)
(* where every check of the deadline raises.                               *)
(***************************************************************************)
EXTENDS Integers, FiniteSets

CONSTANTS TimeoutMax,    \* timeout_max_retries
          CollisionMax,  \* collision_max_retries
          NackMax,       \* nack_max_retries
          ReconnectMax,  \* reconnect_max_retries
          Budget         \* max_command_s, in units of time

ASSUME PolicyAssumption ==
  /\ TimeoutMax \in Nat /\ CollisionMax \in Nat /\ NackMax \in Nat
  /\ ReconnectMax \in Nat /\ Budget \in Nat \ {0}

VARIABLES
  pc,                    \* where the policy run is; "idle" between requests
  retry_safe,            \* the request is a recognized read
  hooked,                \* the caller supplied an attempt hook
  elapsed,               \* time since the root deadline was created
  session,               \* the TCP connection, "open" or "closed"
  request_attempts, local_nacks,
  timeout_retries, collision_retries, nack_retries, command_syn_retries,
  reconnect_retries, successful_reconnects, reconnect_failed,
  failure,               \* the exception _recover_session was given
  outcome,               \* how the last request ended
  other_failure,         \* history: an attempt raised something else than SYN before ACK
  last_raised,           \* history: what the last attempt raised
  unreached              \* history: the last reconnect begun did not reach the adapter

retries == <<timeout_retries, collision_retries, nack_retries, command_syn_retries>>
recovery == <<reconnect_retries, successful_reconnects, reconnect_failed, failure>>
request == <<retry_safe, hooked>>
attempts == <<request_attempts, local_nacks>>
history == <<other_failure, last_raised, unreached>>
vars == <<pc, request, elapsed, session, attempts, retries, recovery, outcome, history>>

-----------------------------------------------------------------------------
(* What an attempt may raise, and the states it can leave the connection   *)
(* in.  sync_ack is the _EnhancedSessionError of an unexpected command     *)
(* acknowledgement, session_error every other one.                         *)

AttemptEnds ==
  [timeout       |-> {"open", "closed"},
   host          |-> {"open", "closed"},
   disconnected  |-> {"closed"},
   collision     |-> {"open"},
   crc           |-> {"open"},
   nack          |-> {"open", "closed"},
   syn           |-> {"open"},
   sync_ack      |-> {"open"},
   session_error |-> {"open", "closed"},
   error         |-> {"open", "closed"}]

Exceptions == {"timeout", "host", "disconnected", "collision", "crc", "nack", "syn",
               "sync_ack", "session_error", "error"}
Recovered == {"timeout", "disconnected", "sync_ack", "session_error"}
Outcomes == {"none", "ok", "hook_raised", "retries_exhausted", "recovery_exhausted",
             "protocol_failure_syn", "protocol_failure_ack"} \union Exceptions
Places == {"idle", "check", "hook", "attempt", "backoff", "recover", "reconnecting"}

Expired == elapsed >= Budget

-----------------------------------------------------------------------------
Init ==
  /\ pc = "idle" /\ retry_safe = FALSE /\ hooked = FALSE /\ elapsed = 0
  /\ session = "closed" /\ request_attempts = 0 /\ local_nacks = 0
  /\ timeout_retries = 0 /\ collision_retries = 0 /\ nack_retries = 0
  /\ command_syn_retries = 0
  /\ reconnect_retries = 0 /\ successful_reconnects = 0
  /\ reconnect_failed = FALSE /\ failure = "none"
  /\ outcome = "none"
  /\ other_failure = FALSE /\ last_raised = "none" /\ unreached = FALSE

(* The policy run ends by returning or raising o, the connection as it is. *)
Leave(o) == pc' = "idle" /\ outcome' = o
(* What the properties remember of the request is forgotten.               *)
Forget == other_failure' = FALSE /\ last_raised' = "none" /\ unreached' = FALSE
(* _terminal, and the branches that close before they raise.               *)
CloseAndLeave(o) == Leave(o) /\ session' = "closed"

(* session() entered or left, or close(), between two requests.            *)
SessionContext ==
  /\ pc = "idle"
  /\ session' \in {"open", "closed"}
  /\ outcome' = "none" /\ Forget
  /\ UNCHANGED <<pc, request, elapsed, attempts, retries, recovery>>

(* A request enters the policy: a fresh root and fresh counters.           *)
Begin ==
  /\ pc = "idle"
  /\ retry_safe' \in BOOLEAN /\ hooked' \in BOOLEAN
  /\ pc' = "check" /\ elapsed' = 0 /\ outcome' = "none" /\ Forget
  /\ request_attempts' = 0 /\ local_nacks' = 0
  /\ timeout_retries' = 0 /\ collision_retries' = 0 /\ nack_retries' = 0
  /\ command_syn_retries' = 0
  /\ reconnect_retries' = 0 /\ successful_reconnects' = 0
  /\ reconnect_failed' = FALSE /\ failure' = "none"
  /\ UNCHANGED session

(* The deadline is found spent: at the loop head, after a hook, inside an  *)
(* attempt, in the backoff, before or during a reconnect.                  *)
DeadlineExpires ==
  /\ pc # "idle" /\ Expired
  /\ pc = "recover" => reconnect_retries < ReconnectMax
  /\ CloseAndLeave("recovery_exhausted")
  /\ UNCHANGED <<request, elapsed, attempts, retries, recovery, history>>

(* Loop head: the check, then send_once up to its attempt hook.            *)
StartAttempt ==
  /\ pc = "check" /\ ~Expired
  /\ local_nacks' = 0
  /\ \/ hooked /\ pc' = "hook" /\ UNCHANGED request_attempts
     \/ ~hooked /\ pc' = "attempt" /\ request_attempts' = request_attempts + 1
  /\ UNCHANGED <<request, elapsed, session, retries, recovery, outcome, history>>

HookInTime == ~Expired
(* The hook returned: the deadline is checked again, the attempt admitted. *)
HookReturns ==
  /\ pc = "hook" /\ HookInTime
  /\ pc' = "attempt" /\ request_attempts' = request_attempts + 1
  /\ UNCHANGED <<request, elapsed, session, local_nacks, retries, recovery, outcome, history>>

(* The hook raised (the scan's request budget is spent).  Before a local   *)
(* repetition the bus is released first; a failed release closes.          *)
HookRaises ==
  /\ pc = "hook"
  /\ Leave("hook_raised")
  /\ \/ UNCHANGED session
     \/ local_nacks > 0 /\ session' = "closed"
  /\ UNCHANGED <<request, elapsed, attempts, retries, recovery, history>>

NacksLeft == local_nacks < NackMax
(* The target NACKed the command: the attempt repeats the telegram while   *)
(* it still owns the bus, for a recognized read only.                      *)
LocalNackRetry ==
  /\ pc = "attempt" /\ retry_safe /\ NacksLeft /\ ~Expired
  /\ session' = "open"
  /\ local_nacks' = local_nacks + 1
  /\ \/ hooked /\ pc' = "hook" /\ UNCHANGED request_attempts
     \/ ~hooked /\ pc' = "attempt" /\ request_attempts' = request_attempts + 1
  /\ UNCHANGED <<request, elapsed, retries, recovery, outcome, history>>

(* The attempt returned a response, before the deadline.                   *)
AttemptReturns ==
  /\ pc = "attempt" /\ ~Expired
  /\ session' = "open" /\ Leave("ok")
  /\ UNCHANGED <<request, elapsed, attempts, retries, recovery, history>>

-----------------------------------------------------------------------------
(* The exception handlers, in the order of the except clauses.             *)

(* The attempt raised e and left the connection in state s.                *)
Raised(e, s) ==
  /\ pc = "attempt" /\ s \in AttemptEnds[e]
  /\ other_failure' = (other_failure \/ e # "syn") /\ last_raised' = e
  /\ UNCHANGED <<request, elapsed, attempts, unreached>>

(* An exception that is re-raised as it is: every one when the request is  *)
(* not retry-safe, and host errors, definitive NACKs and unclassified      *)
(* errors always.                                                          *)
NotRetried(e, s) ==
  /\ Raised(e, s)
  /\ \/ e \in {"host", "nack", "error"}
     \/ ~retry_safe /\ e # "syn"
  /\ Leave(e) /\ session' = s
  /\ UNCHANGED <<retries, recovery>>

(* _recover_session is entered with exception e.                           *)
EnterRecovery(e) == pc' = "recover" /\ failure' = e /\ reconnect_failed' = FALSE

OnTimeout(s) ==
  /\ Raised("timeout", s) /\ retry_safe
  /\ timeout_retries' = timeout_retries + 1
  /\ session' = s
  /\ \/ timeout_retries' > TimeoutMax /\ EnterRecovery("timeout")
     \/ /\ timeout_retries' <= TimeoutMax /\ pc' = "check"
        /\ UNCHANGED <<failure, reconnect_failed>>
  /\ UNCHANGED <<collision_retries, nack_retries, command_syn_retries,
                 reconnect_retries, successful_reconnects, outcome>>

(* Mutants of RecoversFrom: the retry-safety check dropped, and SYN before *)
(* ACK taken for a broken session.                                         *)
RecoversAnyRequest(e) == e \in {"disconnected", "sync_ack", "session_error"}
RecoversFromSyn(e) ==
  retry_safe /\ e \in {"disconnected", "sync_ack", "session_error", "syn"}
RecoversFrom(e) ==
  retry_safe /\ e \in {"disconnected", "sync_ack", "session_error"}

OnSessionFailure(e, s) ==
  /\ RecoversFrom(e)
  /\ Raised(e, s)
  /\ session' = s
  /\ EnterRecovery(e)
  /\ UNCHANGED <<retries, reconnect_retries, successful_reconnects, outcome>>

OnCollision(s) ==
  /\ Raised("collision", s) /\ retry_safe
  /\ collision_retries' = collision_retries + 1
  /\ \/ collision_retries' > CollisionMax /\ CloseAndLeave("retries_exhausted")
     \/ collision_retries' <= CollisionMax /\ pc' = "backoff" /\ session' = s /\ UNCHANGED outcome
  /\ UNCHANGED <<timeout_retries, nack_retries, command_syn_retries, recovery>>

(* The random pause after a collision is over.                             *)
Backoff ==
  /\ pc = "backoff" /\ ~Expired
  /\ pc' = "check"
  /\ UNCHANGED <<request, elapsed, session, attempts, retries, recovery, outcome, history>>

OnCrcMismatch(s) ==
  /\ Raised("crc", s) /\ retry_safe
  /\ nack_retries' = nack_retries + 1
  /\ \/ nack_retries' > NackMax /\ CloseAndLeave("retries_exhausted")
     \/ nack_retries' <= NackMax /\ pc' = "check" /\ session' = s /\ UNCHANGED outcome
  /\ UNCHANGED <<timeout_retries, collision_retries, command_syn_retries, recovery>>

OnSynBeforeAck(s) ==
  /\ Raised("syn", s)
  /\ session' = s
  /\ \/ /\ retry_safe /\ command_syn_retries = 0
        /\ command_syn_retries' = command_syn_retries + 1
        /\ pc' = "check" /\ UNCHANGED outcome
     \/ /\ ~(retry_safe /\ command_syn_retries = 0)
        /\ Leave("protocol_failure_syn") /\ UNCHANGED command_syn_retries
  /\ UNCHANGED <<timeout_retries, collision_retries, nack_retries, recovery>>

-----------------------------------------------------------------------------
(* _recover_session.                                                       *)

(* Mutant of ReconnectCounted: the reconnect is not counted when it begins.*)
ReconnectUncounted == reconnect_retries
ReconnectCounted == reconnect_retries + 1
BeginReconnect ==
  /\ pc = "recover" /\ reconnect_retries < ReconnectMax /\ ~Expired
  /\ reconnect_retries' = ReconnectCounted
  /\ pc' = "reconnecting" /\ session' = "closed"
  /\ UNCHANGED <<request, elapsed, attempts, retries, successful_reconnects,
                 reconnect_failed, failure, outcome, history>>

SynRetriesKept == command_syn_retries
(* A new connection with a completed INIT: every retry counter but that of *)
(* SYN before ACK starts again.                                            *)
ReconnectSucceeds ==
  /\ pc = "reconnecting"
  /\ session' = "open" /\ pc' = "check"
  /\ timeout_retries' = 0 /\ collision_retries' = 0 /\ nack_retries' = 0
  /\ command_syn_retries' = SynRetriesKept
  /\ successful_reconnects' = successful_reconnects + 1 /\ unreached' = FALSE
  /\ UNCHANGED <<request, elapsed, attempts, reconnect_retries, reconnect_failed, failure,
                 outcome, other_failure, last_raised>>

ReconnectFails ==
  /\ pc = "reconnecting"
  /\ reconnect_failed' = TRUE /\ unreached' = TRUE /\ pc' = "recover"
  /\ UNCHANGED <<request, elapsed, session, attempts, retries, reconnect_retries,
                 successful_reconnects, failure, outcome, other_failure, last_raised>>

(* A malformed command ACK seen again after a successful reconnect is the  *)
(* target's answer, unless this recovery tried to reconnect and could not. *)
(* Mutant of TargetAnswered: the reconnects of this recovery are not asked.*)
TargetAnsweredOnce == successful_reconnects > 0 /\ failure = "sync_ack"
TargetAnswered == ~reconnect_failed /\ successful_reconnects > 0 /\ failure = "sync_ack"

(* Reconnects used up.  With recovery switched off the exception is        *)
(* re-raised.                                                              *)
RecoveryEnds ==
  /\ pc = "recover" /\ reconnect_retries >= ReconnectMax
  /\ IF ReconnectMax = 0 THEN Leave(failure) /\ UNCHANGED session
       ELSE CloseAndLeave(IF TargetAnswered THEN "protocol_failure_ack" ELSE "recovery_exhausted")
  /\ UNCHANGED <<request, elapsed, attempts, retries, recovery, history>>

-----------------------------------------------------------------------------
Tick ==
  /\ pc # "idle" /\ elapsed < Budget
  /\ elapsed' = elapsed + 1
  /\ UNCHANGED <<pc, request, session, attempts, retries, recovery, outcome, history>>

Handler ==
  \E s \in {"open", "closed"} :
    \/ OnTimeout(s) \/ OnCollision(s) \/ OnCrcMismatch(s) \/ OnSynBeforeAck(s)
    \/ \E e \in Exceptions : NotRetried(e, s) \/ OnSessionFailure(e, s)

Step ==
  \/ DeadlineExpires \/ StartAttempt \/ HookReturns \/ HookRaises \/ LocalNackRetry
  \/ AttemptReturns \/ Handler \/ Backoff
  \/ BeginReconnect \/ ReconnectSucceeds \/ ReconnectFails \/ RecoveryEnds

Next == SessionContext \/ Begin \/ Step \/ Tick

(* The thread inside the policy keeps running: every wait in it is bounded *)
(* by a socket timeout or a sleep.  Nothing forces time to reach Budget.   *)
Spec == Init /\ [][Next]_vars /\ WF_vars(Step)

-----------------------------------------------------------------------------
TypeOK ==
  /\ pc \in Places /\ retry_safe \in BOOLEAN /\ hooked \in BOOLEAN
  /\ elapsed \in 0..Budget /\ session \in {"open", "closed"}
  /\ request_attempts \in Nat /\ local_nacks \in 0..NackMax
  /\ timeout_retries \in 0..(TimeoutMax + 1)
  /\ collision_retries \in 0..(CollisionMax + 1)
  /\ nack_retries \in 0..(NackMax + 1)
  /\ command_syn_retries \in 0..1
  /\ reconnect_retries \in 0..ReconnectMax
  /\ successful_reconnects \in 0..ReconnectMax
  /\ reconnect_failed \in BOOLEAN
  /\ failure \in Recovered \union {"none"}
  /\ outcome \in Outcomes
  /\ other_failure \in BOOLEAN /\ unreached \in BOOLEAN
  /\ last_raised \in Exceptions \union {"none"}

(* README: "Automatic retransmission is restricted to recognized reads;    *)
(* ambiguous writes ... are not retried."  Whatever sequence of timeouts,  *)
(* collisions, NACKs, malformed replies and lost connections a request     *)
(* meets, one that is not a recognized read is admitted at most once and   *)
(* opens no reconnect.                                                     *)
WritesAdmittedOnce ==
  ~retry_safe => request_attempts <= 1 /\ reconnect_retries = 0

(* README: "Per-transaction retry/reconnect limits remain bounded".  A     *)
(* successful reconnect renews the timeout, collision and NACK allowances, *)
(* so the bound on admissions is a product: each of the ReconnectMax + 1   *)
(* connections allows AttemptsPerConnection attempts, one more is allowed  *)
(* for SYN before ACK, and each attempt may repeat its telegram NackMax    *)
(* times.                                                                  *)
AttemptsPerConnection == TimeoutMax + CollisionMax + NackMax + 1
AttemptsBounded ==
  request_attempts <=
    (1 + NackMax) * ((ReconnectMax + 1) * AttemptsPerConnection + 1)

(* The allowances and the admissions of every request stay what the two    *)
(* promises above and the types say.                                       *)
RequestsBounded == TypeOK /\ WritesAdmittedOnce /\ AttemptsBounded

(* README: SYN before ACK "alone does not trigger TCP reconnect" and       *)
(* "Exhaustion preserves the responsive session": while SYN before ACK is  *)
(* all a request has met, its connection stays up and is not replaced, and *)
(* a failure reported as such leaves the connection up.                    *)
SynKeepsConnection ==
  /\ pc # "idle" /\ ~other_failure /\ command_syn_retries > 0 =>
       session = "open" /\ reconnect_retries = 0
  /\ outcome = "protocol_failure_syn" => session = "open"

(* The failure a request ends with says what happened to it and to the     *)
(* connection, over any history of failures and recoveries.  README: a     *)
(* malformed command ACK is a protocol failure of the read only when it    *)
(* "persists after bounded retries and successful session reconnection":   *)
(* it is what the last attempt met, on a connection the last reconnect     *)
(* opened.  recovery_exhausted is the other way round: the budget is       *)
(* spent, or every reconnect is used up and the adapter was not reached    *)
(* again or the last attempt met something else.  retries_exhausted is     *)
(* said of the failure whose allowance is spent.  After any of the three,  *)
(* unlike after SYN before ACK, the connection is discarded.               *)
TerminalDiagnosis ==
  /\ SynKeepsConnection
  /\ outcome = "protocol_failure_ack" =>
       /\ last_raised = "sync_ack" /\ ~unreached
       /\ successful_reconnects > 0 /\ reconnect_retries = ReconnectMax
  /\ outcome = "recovery_exhausted" =>
       \/ Expired
       \/ reconnect_retries = ReconnectMax /\ (unreached \/ last_raised # "sync_ack")
  /\ outcome = "retries_exhausted" =>
       \/ last_raised = "collision" /\ collision_retries > CollisionMax
       \/ last_raised = "crc" /\ nack_retries > NackMax
  /\ outcome \in {"protocol_failure_ack", "recovery_exhausted", "retries_exhausted"} =>
       session = "closed"

(* The policy implements the contract its callers rely on.  Part of it is  *)
(* that every request ends: the counters alone must see to that, since     *)
(* nothing forces the clock to reach the budget and reconnects renew them. *)
Answer == IF outcome \in {"none", "ok"}
            THEN IF outcome = "ok" THEN "reply" ELSE "none"
            ELSE "failure"
Contract == INSTANCE RequestContract WITH
              running <- pc # "idle", safe <- retry_safe, admitted <- request_attempts,
              spent <- Expired, answer <- Answer
ImplementsContract == Contract!Spec
=============================================================================
