----------------------------- MODULE Transports -----------------------------
(***************************************************************************)
(* Three parts of the TCP transports, checked together: the threads that   *)
(* share an enhanced transport (EnhancedSession), the ebusd transport's    *)
(* policy (EbusdPolicy) and its stream of lines (EbusdSession).            *)
(*                                                                         *)
(* They meet only through what a command or a request ends with, which     *)
(* the policies take as given; so one behaviour shows one part, the one    *)
(* part names, and the variables of the others stay 0.                     *)
(***************************************************************************)
EXTENDS Naturals

CONSTANTS MaxOps, LatePauses,
          TimeoutMax, CollisionMax, NoSignalMax, Settle, Lost, Budget,
          Threads, NoThread, MaxNest

VARIABLES
  part,   \* the part a behaviour shows
  (* shared names *)
  pc, persistent,
  (* of EbusdSession *)
  connection, due, wire, rx, received, op, lines, result,
  (* of EbusdPolicy *)
  retry_safe, hooked, elapsed, session, request_attempts, timeout_retries, collision_retries,
  no_signal_start, connection_retried, reconnect_pending, reconnect_attempts, outcome, last,
  quiet_until, reconnects_begun,
  (* of EnhancedSession *)
  holder, expired, contexts, depth, connected

Lines == INSTANCE EbusdSession
Policy == INSTANCE EbusdPolicy
Shared == INSTANCE EnhancedSession

ASSUME TransportConstants ==
  Lines!SessionConstants /\ Policy!EbusdConstants /\ Shared!ThreadConstants

onlyLines == <<connection, due, wire, rx, received, op, lines, result>>
onlyPolicy == <<retry_safe, hooked, elapsed, session, request_attempts, timeout_retries,
                collision_retries, no_signal_start, connection_retried, reconnect_pending,
                reconnect_attempts, outcome, last, quiet_until, reconnects_begun>>
onlyShared == <<holder, expired, contexts, depth, connected>>
vars == <<part, pc, persistent, onlyLines, onlyPolicy, onlyShared>>

NoLines ==
  /\ connection = 0 /\ due = 0 /\ wire = 0 /\ rx = 0
  /\ received = 0 /\ op = 0 /\ lines = 0 /\ result = 0
NoPolicy ==
  /\ retry_safe = 0 /\ hooked = 0 /\ elapsed = 0 /\ session = 0 /\ request_attempts = 0
  /\ timeout_retries = 0 /\ collision_retries = 0 /\ no_signal_start = 0 /\ connection_retried = 0
  /\ reconnect_pending = 0 /\ reconnect_attempts = 0 /\ outcome = 0 /\ last = 0
  /\ quiet_until = 0 /\ reconnects_begun = 0
NoShared ==
  /\ holder = 0 /\ expired = 0 /\ contexts = 0 /\ depth = 0
  /\ connected = 0

-----------------------------------------------------------------------------
Init ==
  \/ part = "lines" /\ Lines!Init /\ NoPolicy /\ NoShared
  \/ part = "policy" /\ Policy!Init /\ NoLines /\ NoShared
  \/ part = "threads" /\ Shared!Init /\ persistent = 0 /\ NoLines /\ NoPolicy

OthersThanLines == UNCHANGED <<part, onlyPolicy, onlyShared>>
OthersThanPolicy == UNCHANGED <<part, onlyLines, onlyShared>>
OthersThanShared == UNCHANGED <<part, persistent, onlyLines, onlyPolicy>>

Next ==
  \/ part = "lines" /\ Lines!Next /\ OthersThanLines
  \/ part = "policy" /\ Policy!Next /\ OthersThanPolicy
  \/ part = "threads" /\ Shared!Next /\ OthersThanShared

(* The fairness of EbusdPolicy and of EnhancedSession.                     *)
PolicyStep == part = "policy" /\ Policy!Step /\ OthersThanPolicy
ThreadStep(t) == part = "threads" /\ Shared!Progress(t) /\ OthersThanShared
Fairness == WF_vars(PolicyStep) /\ \A t \in Threads : WF_vars(ThreadStep(t))

Spec == Init /\ [][Next]_vars /\ Fairness

-----------------------------------------------------------------------------
(* ebusd stream: every line a command returns was sent in answer to it,    *)
(* and a connection kept between commands has nothing buffered.            *)
OwnLines == part = "lines" => Lines!OwnLines /\ Lines!NothingBuffered

(* ebusd stream: once the first line is there only the deadline can fail   *)
(* the command.                                                            *)
DrainKeepsReply ==
  [][part = "lines" /\ pc = "drain" /\ pc' = "idle" => result' \in {"lines", "deadline"}]_vars

(* ebusd policy: attempts and reconnects stay bounded and are reported as  *)
(* begun, and after a connection-level failure the request goes on only on *)
(* a new connection.                                                       *)
CountsHold == part = "policy" => Policy!CountsHold /\ Policy!FreshAfterConnectionFailure

(* ebusd policy: no attempt starts inside the pause the failure before it  *)
(* asks for.                                                               *)
QuietBus ==
  [][part = "policy" /\ request_attempts' = request_attempts + 1 => elapsed >= quiet_until]_vars

(* ebusd policy: it implements the contract of the transports: writes are  *)
(* not repeated, nothing is late, and every request ends.                  *)
InPolicy == part = "policy"
Contract == INSTANCE RequestContract WITH
              running <- InPolicy /\ pc # "idle", safe <- InPolicy /\ retry_safe,
              admitted <- IF InPolicy THEN request_attempts ELSE 0,
              spent <- InPolicy /\ Policy!Expired,
              answer <- IF InPolicy THEN Policy!Answer ELSE "none"
ImplementsContract == Contract!Spec

(* Threads: no two are inside a request or a connect at once.              *)
OneInside == part = "threads" => Shared!OneInside

(* Threads: a free lock finds the depth equal to the contexts in use; one  *)
(* thread's leaving its context never takes the connection from another;   *)
(* the last exit closes it; and what enters the lock's section does so     *)
(* before its deadline.                                                    *)
ContextsKeepConnection ==
  /\ [](part = "threads" => Shared!DepthCounts)
  /\ [][part = "threads" =>
          Shared!SparesNow /\ Shared!ClosesNow /\ Shared!InTimeNow]_vars

(* Threads: a session() entry and a request end within their budget even   *)
(* if other threads keep the lock busy for ever.                           *)
BudgetedEnds ==
  \A t \in Threads :
    part = "threads" /\ pc[t] \in Shared!Budgeted \union {"opening", "requesting"}
      ~> part = "threads" /\ pc[t] \in {"body", "exit", "close"}
=============================================================================
