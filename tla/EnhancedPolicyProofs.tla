------------------------ MODULE EnhancedPolicyProofs ------------------------
(***************************************************************************)
(* Proofs about EnhancedPolicy for every retry limit and every budget:     *)
(* type correctness, that a request which is not a recognized read is      *)
(* admitted at most once, the bound on native admissions, and what the     *)
(* terminal diagnoses say of the connection.                               *)
(***************************************************************************)
EXTENDS EnhancedPolicy, TLAPS

(* Allowances are exceeded only on the way out of an attempt.              *)
CountersInv ==
  /\ pc \notin {"idle", "recover", "reconnecting"} => timeout_retries <= TimeoutMax
  /\ pc # "idle" => collision_retries <= CollisionMax /\ nack_retries <= NackMax

(* A successful reconnect was begun first; a recovery has a cause.         *)
RecoveryInv ==
  /\ successful_reconnects <= reconnect_retries
  /\ pc = "reconnecting" => successful_reconnects < reconnect_retries
  /\ pc \in {"recover", "reconnecting"} => failure # "none"

(* Without retry safety a request never comes back to its loop head.       *)
UnsafeInv ==
  ~retry_safe =>
    /\ pc \notin {"backoff", "recover", "reconnecting"}
    /\ reconnect_retries = 0 /\ local_nacks = 0 /\ command_syn_retries = 0
    /\ request_attempts <= IF pc \in {"check", "hook"} THEN 0 ELSE 1

(* Attempts the policy has spent: AttemptsPerConnection for every renewed  *)
(* connection, and the retries counted since the last renewal.             *)
AttemptsSpent ==
  successful_reconnects * AttemptsPerConnection
    + (timeout_retries + collision_retries + nack_retries) + command_syn_retries
ConnectionSpent ==
  successful_reconnects * AttemptsPerConnection + AttemptsPerConnection + command_syn_retries

AdmissionInv ==
  /\ pc \in {"check", "backoff"} => request_attempts <= (1 + NackMax) * AttemptsSpent
  /\ pc = "hook" => request_attempts <= (1 + NackMax) * AttemptsSpent + local_nacks
  /\ pc = "attempt" => request_attempts <= (1 + NackMax) * AttemptsSpent + local_nacks + 1
  /\ pc \in {"idle", "recover", "reconnecting"} =>
       request_attempts <= (1 + NackMax) * ConnectionSpent

BaseInv == TypeOK /\ CountersInv /\ RecoveryInv
IInv == BaseInv /\ UnsafeInv /\ AdmissionInv

-----------------------------------------------------------------------------
(* Types, the counters and the recovery bookkeeping are inductive together.*)
LEMMA BaseInit == Init => BaseInv
<1> SUFFICES ASSUME Init PROVE BaseInv
  OBVIOUS
<1>1. retry_safe \in BOOLEAN /\ hooked \in BOOLEAN /\ reconnect_failed \in BOOLEAN
      /\ other_failure \in BOOLEAN /\ unreached \in BOOLEAN
  BY Zenon DEF Init
<1> QED
  BY <1>1, PolicyAssumption
  DEF PolicyAssumption, Init, BaseInv, TypeOK, CountersInv, RecoveryInv, Places, Recovered, Outcomes

LEMMA BaseStep == BaseInv /\ [Next]_vars => BaseInv'
<1> SUFFICES ASSUME BaseInv, [Next]_vars PROVE BaseInv'
  OBVIOUS
<1> USE PolicyAssumption
    DEF PolicyAssumption, BaseInv, TypeOK, CountersInv, RecoveryInv, Places, Recovered, Outcomes,
        request, attempts, retries, recovery, history
<1>1. CASE SessionContext
  <2>1. other_failure' \in BOOLEAN /\ unreached' \in BOOLEAN
    BY <1>1, Zenon DEF SessionContext, Forget
  <2> QED
    BY <1>1, <2>1 DEF SessionContext, Forget
<1>2. CASE Begin
  <2>1. reconnect_failed' \in BOOLEAN /\ other_failure' \in BOOLEAN /\ unreached' \in BOOLEAN
    BY <1>2, Zenon DEF Begin, Forget
  <2> QED
    BY <1>2, <2>1 DEF Begin, Forget
<1>3. CASE DeadlineExpires
  BY <1>3 DEF DeadlineExpires, CloseAndLeave, Leave
<1>4. CASE StartAttempt
  BY <1>4 DEF StartAttempt
<1>5. CASE HookReturns
  BY <1>5 DEF HookReturns, HookInTime
<1>6. CASE HookRaises
  BY <1>6 DEF HookRaises, Leave
<1>7. CASE LocalNackRetry
  BY <1>7 DEF LocalNackRetry, NacksLeft
<1>8. CASE AttemptReturns
  BY <1>8 DEF AttemptReturns, Leave
<1>9. ASSUME NEW s \in {"open", "closed"}, OnTimeout(s) PROVE BaseInv'
  <2>1. reconnect_failed' \in BOOLEAN /\ other_failure' \in BOOLEAN
    BY <1>9, Zenon DEF OnTimeout, Raised, EnterRecovery
  <2> QED
    BY <1>9, <2>1 DEF OnTimeout, Raised, EnterRecovery, Exceptions
<1>10. ASSUME NEW s \in {"open", "closed"}, OnCollision(s) PROVE BaseInv'
  BY <1>10 DEF OnCollision, Raised, CloseAndLeave, Leave, Exceptions
<1>11. ASSUME NEW s \in {"open", "closed"}, OnCrcMismatch(s) PROVE BaseInv'
  BY <1>11 DEF OnCrcMismatch, Raised, CloseAndLeave, Leave, Exceptions
<1>12. ASSUME NEW s \in {"open", "closed"}, OnSynBeforeAck(s) PROVE BaseInv'
  BY <1>12 DEF OnSynBeforeAck, Raised, Leave, Exceptions
<1>13. ASSUME NEW s \in {"open", "closed"}, NEW e \in Exceptions, NotRetried(e, s)
       PROVE  BaseInv'
  BY <1>13 DEF NotRetried, Raised, Leave, Exceptions
<1>14. ASSUME NEW s \in {"open", "closed"}, NEW e \in Exceptions, OnSessionFailure(e, s)
       PROVE  BaseInv'
  BY <1>14 DEF OnSessionFailure, RecoversFrom, Raised, EnterRecovery
<1>15. CASE Backoff
  BY <1>15 DEF Backoff
<1>16. CASE BeginReconnect
  BY <1>16 DEF BeginReconnect, ReconnectCounted
<1>17. CASE ReconnectSucceeds
  <2>1. unreached' \in BOOLEAN
    BY <1>17, Zenon DEF ReconnectSucceeds
  <2> QED
    BY <1>17, <2>1 DEF ReconnectSucceeds, SynRetriesKept
<1>18. CASE ReconnectFails
  <2>1. reconnect_failed' \in BOOLEAN /\ unreached' \in BOOLEAN
    BY <1>18, Zenon DEF ReconnectFails
  <2> QED
    BY <1>18, <2>1 DEF ReconnectFails
<1>19. CASE RecoveryEnds
  <2>1. outcome' \in Outcomes
    BY <1>19 DEF RecoveryEnds, CloseAndLeave, Leave, Exceptions
  <2>2. /\ pc' = "idle" /\ session' \in {"open", "closed"}
        /\ UNCHANGED <<request, elapsed, attempts, retries, recovery, history>>
    BY <1>19 DEF RecoveryEnds, CloseAndLeave, Leave
  <2> QED
    BY <2>1, <2>2
<1>20. CASE Tick
  BY <1>20 DEF Tick
<1>21. CASE UNCHANGED vars
  BY <1>21 DEF vars
<1> QED
  BY <1>1, <1>2, <1>3, <1>4, <1>5, <1>6, <1>7, <1>8, <1>9, <1>10, <1>11, <1>12, <1>13,
     <1>14, <1>15, <1>16, <1>17, <1>18, <1>19, <1>20, <1>21 DEF Next, Step, Handler

(* Every variable keeps its type: counters stay within the configured      *)
(* limits, and at most ReconnectMax reconnects are begun for a request.    *)
THEOREM TypeCorrect == Spec => []TypeOK
<1>1. Init => BaseInv
  BY BaseInit
<1>2. BaseInv /\ [Next]_vars => BaseInv'
  BY BaseStep
<1>3. BaseInv => TypeOK
  BY DEF BaseInv
<1> QED
  BY <1>1, <1>2, <1>3, PTL DEF Spec

-----------------------------------------------------------------------------
(* A request that is not retry-safe leaves the policy with its first       *)
(* exception: no handler brings it back to the loop head, and the local    *)
(* NACK repetition is closed to it.                                        *)
LEMMA UnsafeStep == BaseInv /\ UnsafeInv /\ [Next]_vars => UnsafeInv'
<1> SUFFICES ASSUME BaseInv, UnsafeInv, [Next]_vars PROVE UnsafeInv'
  OBVIOUS
<1> USE PolicyAssumption
    DEF PolicyAssumption, BaseInv, TypeOK, UnsafeInv, request, attempts, retries, recovery
<1>1. CASE SessionContext
  BY <1>1 DEF SessionContext
<1>2. CASE Begin
  BY <1>2 DEF Begin
<1>3. CASE DeadlineExpires
  BY <1>3 DEF DeadlineExpires, CloseAndLeave, Leave
<1>4. CASE StartAttempt
  BY <1>4 DEF StartAttempt
<1>5. CASE HookReturns
  BY <1>5 DEF HookReturns, HookInTime
<1>6. CASE HookRaises
  BY <1>6 DEF HookRaises, Leave
<1>7. CASE LocalNackRetry
  BY <1>7 DEF LocalNackRetry, NacksLeft
<1>8. CASE AttemptReturns
  BY <1>8 DEF AttemptReturns, Leave
<1>9. ASSUME NEW s \in {"open", "closed"}, OnTimeout(s) PROVE UnsafeInv'
  BY <1>9 DEF OnTimeout, Raised, EnterRecovery
<1>10. ASSUME NEW s \in {"open", "closed"}, OnCollision(s) PROVE UnsafeInv'
  BY <1>10 DEF OnCollision, Raised, CloseAndLeave, Leave
<1>11. ASSUME NEW s \in {"open", "closed"}, OnCrcMismatch(s) PROVE UnsafeInv'
  BY <1>11 DEF OnCrcMismatch, Raised, CloseAndLeave, Leave
<1>12. ASSUME NEW s \in {"open", "closed"}, OnSynBeforeAck(s) PROVE UnsafeInv'
  BY <1>12 DEF OnSynBeforeAck, Raised, Leave
<1>13. ASSUME NEW s \in {"open", "closed"}, NEW e \in Exceptions, NotRetried(e, s)
       PROVE  UnsafeInv'
  BY <1>13 DEF NotRetried, Raised, Leave
<1>14. ASSUME NEW s \in {"open", "closed"}, NEW e \in Exceptions, OnSessionFailure(e, s)
       PROVE  UnsafeInv'
  BY <1>14 DEF OnSessionFailure, RecoversFrom, Raised, EnterRecovery
<1>15. CASE Backoff
  BY <1>15 DEF Backoff
<1>16. CASE BeginReconnect
  BY <1>16 DEF BeginReconnect, ReconnectCounted
<1>17. CASE ReconnectSucceeds
  BY <1>17 DEF ReconnectSucceeds, SynRetriesKept
<1>18. CASE ReconnectFails
  BY <1>18 DEF ReconnectFails
<1>19. CASE RecoveryEnds
  BY <1>19 DEF RecoveryEnds, CloseAndLeave, Leave
<1>20. CASE Tick
  BY <1>20 DEF Tick
<1>21. CASE UNCHANGED vars
  BY <1>21 DEF vars
<1> QED
  BY <1>1, <1>2, <1>3, <1>4, <1>5, <1>6, <1>7, <1>8, <1>9, <1>10, <1>11, <1>12, <1>13,
     <1>14, <1>15, <1>16, <1>17, <1>18, <1>19, <1>20, <1>21 DEF Next, Step, Handler

(* README: "ambiguous writes ... are not retried".  For every setting of   *)
(* the limits, whatever the attempts raise, a request outside the          *)
(* recognized reads is admitted at most once and opens no reconnect.       *)
THEOREM NoWriteRepeated == Spec => []WritesAdmittedOnce
<1>1. Init => BaseInv /\ UnsafeInv
  BY BaseInit, PolicyAssumption DEF Init, UnsafeInv
<1>2. BaseInv /\ UnsafeInv /\ [Next]_vars => (BaseInv /\ UnsafeInv)'
  BY BaseStep, UnsafeStep
<1>3. BaseInv /\ UnsafeInv => WritesAdmittedOnce
  BY DEF BaseInv, TypeOK, UnsafeInv, WritesAdmittedOnce
<1> QED
  BY <1>1, <1>2, <1>3, PTL DEF Spec

-----------------------------------------------------------------------------
(* The admission bound.  Arithmetic of products first.                     *)
LEMMA ScaleMonotone ==
  ASSUME NEW k \in Nat, NEW a \in Nat, NEW b \in Nat, a <= b
  PROVE  k * a <= k * b
<1>1. PICK d \in Nat : b = a + d
  <2>1. b - a \in Nat /\ b = a + (b - a)
    OBVIOUS
  <2> QED
    BY <2>1
<1>2. k * b = k * a + k * d
  BY <1>1
<1>3. k * d >= 0
  OBVIOUS
<1> QED
  BY <1>2, <1>3

LEMMA ScaleSuccessor ==
  ASSUME NEW k \in Nat, NEW a \in Nat
  PROVE  k * (a + 1) = k * a + k
  OBVIOUS

LEMMA SpentTypes ==
  ASSUME BaseInv
  PROVE  /\ NackMax \in Nat /\ 1 + NackMax \in Nat
         /\ AttemptsPerConnection \in Nat
         /\ successful_reconnects * AttemptsPerConnection \in Nat
         /\ AttemptsSpent \in Nat /\ ConnectionSpent \in Nat
         /\ request_attempts \in Nat /\ local_nacks \in 0..NackMax
<1>1. NackMax \in Nat /\ AttemptsPerConnection \in Nat /\ successful_reconnects \in Nat
  BY PolicyAssumption DEF PolicyAssumption, AttemptsPerConnection, BaseInv, TypeOK
<1>2. successful_reconnects * AttemptsPerConnection \in Nat
  BY <1>1
<1>3. AttemptsSpent \in Nat /\ ConnectionSpent \in Nat
  BY <1>1, <1>2, PolicyAssumption
  DEF PolicyAssumption, AttemptsSpent, ConnectionSpent, BaseInv, TypeOK
<1> QED
  BY <1>1, <1>2, <1>3 DEF BaseInv, TypeOK

(* Before recovery the counted retries leave room for one more attempt on  *)
(* the connection.                                                         *)
LEMMA RoomForOneMore ==
  ASSUME BaseInv, pc \in {"check", "hook", "attempt", "backoff"}
  PROVE  AttemptsSpent + 1 <= ConnectionSpent
<1> DEFINE P == successful_reconnects * AttemptsPerConnection
<1>1. P \in Nat
  BY SpentTypes
<1>2. timeout_retries + collision_retries + nack_retries + 1 <= AttemptsPerConnection
  BY PolicyAssumption
  DEF PolicyAssumption, AttemptsPerConnection, BaseInv, TypeOK, CountersInv
<1> HIDE DEF P
<1>3. AttemptsSpent = P + (timeout_retries + collision_retries + nack_retries)
                        + command_syn_retries
      /\ ConnectionSpent = P + AttemptsPerConnection + command_syn_retries
  BY DEF P, AttemptsSpent, ConnectionSpent
<1> QED
  BY <1>1, <1>2, <1>3, SpentTypes, PolicyAssumption DEF PolicyAssumption, BaseInv, TypeOK

(* Inside an attempt the admissions fit one more attempt's allowance.      *)
LEMMA AttemptBound ==
  ASSUME BaseInv, AdmissionInv, pc = "attempt"
  PROVE  request_attempts <= (1 + NackMax) * (AttemptsSpent + 1)
<1> DEFINE K == (1 + NackMax) * AttemptsSpent
<1>1. (1 + NackMax) * (AttemptsSpent + 1) = K + (1 + NackMax)
  BY SpentTypes, ScaleSuccessor
<1>2. request_attempts <= K + local_nacks + 1
  BY DEF AdmissionInv
<1>3. K \in Int
  BY SpentTypes
<1> HIDE DEF K
<1> QED
  BY <1>1, <1>2, <1>3, SpentTypes

(* At every point the admissions fit the connections used so far.          *)
LEMMA ConnectionBound ==
  ASSUME BaseInv, AdmissionInv
  PROVE  request_attempts <= (1 + NackMax) * ConnectionSpent
<1> DEFINE K == (1 + NackMax) * AttemptsSpent
           C == (1 + NackMax) * ConnectionSpent
<1>1. K \in Int /\ C \in Int
  BY SpentTypes
<1>2. CASE pc \in {"idle", "recover", "reconnecting"}
  BY <1>2 DEF AdmissionInv
<1>3. CASE pc \in {"check", "hook", "attempt", "backoff"}
  <2>1. (1 + NackMax) * (AttemptsSpent + 1) <= C
    BY <1>3, SpentTypes, RoomForOneMore, ScaleMonotone
  <2>2. K + (1 + NackMax) <= C
    BY <2>1, SpentTypes, ScaleSuccessor
  <2>3. request_attempts <= K + local_nacks + 1
    <3>1. request_attempts <= K \/ request_attempts <= K + local_nacks
            \/ request_attempts <= K + local_nacks + 1
      BY <1>3 DEF AdmissionInv
    <3> HIDE DEF K
    <3> QED
      BY <1>1, <3>1, SpentTypes
  <2> HIDE DEF K, C
  <2>4. request_attempts <= C
    BY <1>1, <2>2, <2>3, SpentTypes
  <2> QED
    BY <2>4 DEF C
<1> QED
  BY <1>2, <1>3 DEF BaseInv, TypeOK, Places

(* Counting one retry of any kind spends one attempt.                      *)
LEMMA OneRetryMore ==
  ASSUME BaseInv, successful_reconnects' = successful_reconnects,
         \/ /\ timeout_retries' = timeout_retries + 1
            /\ UNCHANGED <<collision_retries, nack_retries, command_syn_retries>>
         \/ /\ collision_retries' = collision_retries + 1
            /\ UNCHANGED <<timeout_retries, nack_retries, command_syn_retries>>
         \/ /\ nack_retries' = nack_retries + 1
            /\ UNCHANGED <<timeout_retries, collision_retries, command_syn_retries>>
         \/ /\ command_syn_retries' = command_syn_retries + 1
            /\ UNCHANGED <<timeout_retries, collision_retries, nack_retries>>
  PROVE  AttemptsSpent' = AttemptsSpent + 1
<1> DEFINE P == successful_reconnects * AttemptsPerConnection
<1>1. P \in Nat
  BY SpentTypes
<1>2. AttemptsSpent = P + (timeout_retries + collision_retries + nack_retries)
                        + command_syn_retries
      /\ AttemptsSpent' = P + (timeout_retries' + collision_retries' + nack_retries')
                             + command_syn_retries'
  BY DEF AttemptsSpent, AttemptsPerConnection
<1>3. /\ timeout_retries \in Nat /\ collision_retries \in Nat
      /\ nack_retries \in Nat /\ command_syn_retries \in Nat
  BY PolicyAssumption DEF PolicyAssumption, BaseInv, TypeOK
<1>4. /\ timeout_retries' \in Int /\ collision_retries' \in Int
      /\ nack_retries' \in Int /\ command_syn_retries' \in Int
  BY <1>3
<1>5. timeout_retries' + collision_retries' + nack_retries' + command_syn_retries'
        = timeout_retries + collision_retries + nack_retries + command_syn_retries + 1
  BY <1>3
<1> HIDE DEF P
<1>6. AttemptsSpent' = P + (timeout_retries' + collision_retries' + nack_retries'
                             + command_syn_retries')
  BY <1>1, <1>2, <1>4
<1>7. AttemptsSpent = P + (timeout_retries + collision_retries + nack_retries
                             + command_syn_retries)
  BY <1>1, <1>2, <1>3
<1> QED
  BY <1>1, <1>3, <1>5, <1>6, <1>7

(* A step that keeps what AdmissionInv depends on and stops at a place     *)
(* with the weaker bound.                                                  *)
LEMMA AdmissionLeaves ==
  ASSUME BaseInv, AdmissionInv, pc' \in {"idle", "recover", "reconnecting"},
         UNCHANGED <<request_attempts, successful_reconnects, command_syn_retries>>
  PROVE  AdmissionInv'
<1>1. ConnectionSpent' = ConnectionSpent
  BY DEF ConnectionSpent, AttemptsPerConnection
<1> QED
  BY <1>1, ConnectionBound DEF AdmissionInv

(* A handler that counts one retry and goes back to the loop.              *)
LEMMA AdmissionRetries ==
  ASSUME BaseInv, AdmissionInv, pc = "attempt", pc' \in {"check", "backoff"},
         request_attempts' = request_attempts, AttemptsSpent' = AttemptsSpent + 1
  PROVE  AdmissionInv'
  BY AttemptBound DEF AdmissionInv

(* A step inside the loop that counts no retry.                            *)
LEMMA AdmissionKept ==
  ASSUME BaseInv, AdmissionInv, AttemptsSpent' = AttemptsSpent,
         ConnectionSpent' = ConnectionSpent, pc \in Places,
         \/ pc' = pc /\ UNCHANGED attempts
         \/ pc = "backoff" /\ pc' = "check" /\ UNCHANGED attempts
         \/ pc = "check" /\ local_nacks' = 0 /\ pc' = "hook" /\ UNCHANGED request_attempts
         \/ pc = "check" /\ local_nacks' = 0 /\ pc' = "attempt"
              /\ request_attempts' = request_attempts + 1
         \/ pc = "hook" /\ local_nacks' = local_nacks /\ pc' = "attempt"
              /\ request_attempts' = request_attempts + 1
         \/ pc = "attempt" /\ local_nacks' = local_nacks + 1 /\ pc' = "hook"
              /\ UNCHANGED request_attempts
         \/ pc = "attempt" /\ local_nacks' = local_nacks + 1 /\ pc' = "attempt"
              /\ request_attempts' = request_attempts + 1
  PROVE  AdmissionInv'
<1> DEFINE K == (1 + NackMax) * AttemptsSpent
           C == (1 + NackMax) * ConnectionSpent
<1>1. K \in Int /\ C \in Int
  BY SpentTypes
<1>2. (1 + NackMax) * AttemptsSpent' = K /\ (1 + NackMax) * ConnectionSpent' = C
  OBVIOUS
<1>3. /\ pc \in {"check", "backoff"} => request_attempts <= K
      /\ pc = "hook" => request_attempts <= K + local_nacks
      /\ pc = "attempt" => request_attempts <= K + local_nacks + 1
      /\ pc \in {"idle", "recover", "reconnecting"} => request_attempts <= C
  BY DEF AdmissionInv
<1>4. /\ pc' \in {"check", "backoff"} => request_attempts' <= K
      /\ pc' = "hook" => request_attempts' <= K + local_nacks'
      /\ pc' = "attempt" => request_attempts' <= K + local_nacks' + 1
      /\ pc' \in {"idle", "recover", "reconnecting"} => request_attempts' <= C
  <2> HIDE DEF K, C
  <2> QED
    BY <1>1, <1>3, SpentTypes DEF attempts, Places
<1> QED
  BY <1>2, <1>4 DEF AdmissionInv

LEMMA AdmissionStep == BaseInv /\ AdmissionInv /\ [Next]_vars => AdmissionInv'
<1> SUFFICES ASSUME BaseInv, AdmissionInv, [Next]_vars PROVE AdmissionInv'
  OBVIOUS
<1>p. pc \in Places
  BY DEF BaseInv, TypeOK
<1>s. ASSUME UNCHANGED <<retries, recovery>>
      PROVE  AttemptsSpent' = AttemptsSpent /\ ConnectionSpent' = ConnectionSpent
  BY <1>s DEF retries, recovery, AttemptsSpent, ConnectionSpent, AttemptsPerConnection
<1>1. CASE SessionContext
  <2>1. UNCHANGED <<retries, recovery>>
    BY <1>1 DEF SessionContext
  <2> QED
    BY <1>1, <2>1, <1>p, <1>s, AdmissionKept DEF SessionContext, attempts
<1>2. CASE Begin
  <2>1. AttemptsSpent' = 0
    BY <1>2, SpentTypes DEF Begin, AttemptsSpent, AttemptsPerConnection
  <2>2. (1 + NackMax) * 0 = 0
    BY SpentTypes
  <2> QED
    BY <1>2, <2>1, <2>2 DEF Begin, AdmissionInv
<1>3. CASE DeadlineExpires
  <2>1. /\ pc' \in {"idle", "recover", "reconnecting"}
        /\ UNCHANGED <<request_attempts, successful_reconnects, command_syn_retries>>
    BY <1>3 DEF DeadlineExpires, CloseAndLeave, Leave, attempts, retries, recovery
  <2> QED
    BY <2>1, AdmissionLeaves
<1>4. CASE StartAttempt
  <2>1. UNCHANGED <<retries, recovery>>
    BY <1>4 DEF StartAttempt
  <2> QED
    BY <1>4, <2>1, <1>p, <1>s, AdmissionKept DEF StartAttempt, attempts
<1>5. CASE HookReturns
  <2>1. UNCHANGED <<retries, recovery>>
    BY <1>5 DEF HookReturns, HookInTime
  <2> QED
    BY <1>5, <2>1, <1>p, <1>s, AdmissionKept DEF HookReturns, HookInTime, attempts
<1>6. CASE HookRaises
  <2>1. /\ pc' \in {"idle", "recover", "reconnecting"}
        /\ UNCHANGED <<request_attempts, successful_reconnects, command_syn_retries>>
    BY <1>6 DEF HookRaises, Leave, attempts, retries, recovery
  <2> QED
    BY <2>1, AdmissionLeaves
<1>7. CASE LocalNackRetry
  <2>1. UNCHANGED <<retries, recovery>>
    BY <1>7 DEF LocalNackRetry, NacksLeft
  <2> QED
    BY <1>7, <2>1, <1>p, <1>s, AdmissionKept DEF LocalNackRetry, NacksLeft, attempts
<1>8. CASE AttemptReturns
  <2>1. /\ pc' \in {"idle", "recover", "reconnecting"}
        /\ UNCHANGED <<request_attempts, successful_reconnects, command_syn_retries>>
    BY <1>8 DEF AttemptReturns, Leave, attempts, retries, recovery
  <2> QED
    BY <2>1, AdmissionLeaves
<1>9. ASSUME NEW s \in {"open", "closed"}, OnTimeout(s) PROVE AdmissionInv'
  <2>1. CASE pc' = "check"
    <3>1. /\ pc = "attempt" /\ request_attempts' = request_attempts
          /\ timeout_retries' = timeout_retries + 1
          /\ UNCHANGED <<collision_retries, nack_retries, command_syn_retries, successful_reconnects>>
      BY <1>9, <2>1 DEF OnTimeout, Raised, EnterRecovery, attempts, retries, recovery
    <3>2. AttemptsSpent' = AttemptsSpent + 1
      BY <3>1, OneRetryMore
    <3> QED
      BY <2>1, <3>1, <3>2, AdmissionRetries
  <2>2. CASE pc' = "recover"
    <3>1. UNCHANGED <<request_attempts, successful_reconnects, command_syn_retries>>
      BY <1>9, <2>2 DEF OnTimeout, Raised, EnterRecovery, attempts, retries, recovery
    <3> QED
      BY <2>2, <3>1, AdmissionLeaves
  <2> QED
    BY <1>9, <2>1, <2>2 DEF OnTimeout, Raised, EnterRecovery
<1>10. ASSUME NEW s \in {"open", "closed"}, OnCollision(s) PROVE AdmissionInv'
  <2>1. CASE pc' = "backoff"
    <3>1. /\ pc = "attempt" /\ request_attempts' = request_attempts
          /\ collision_retries' = collision_retries + 1
          /\ UNCHANGED <<timeout_retries, nack_retries, command_syn_retries, successful_reconnects>>
      BY <1>10, <2>1 DEF OnCollision, Raised, CloseAndLeave, Leave, attempts, retries, recovery
    <3>2. AttemptsSpent' = AttemptsSpent + 1
      BY <3>1, OneRetryMore
    <3> QED
      BY <2>1, <3>1, <3>2, AdmissionRetries
  <2>2. CASE pc' = "idle"
    <3>1. UNCHANGED <<request_attempts, successful_reconnects, command_syn_retries>>
      BY <1>10, <2>2 DEF OnCollision, Raised, CloseAndLeave, Leave, attempts, retries, recovery
    <3> QED
      BY <2>2, <3>1, AdmissionLeaves
  <2> QED
    BY <1>10, <2>1, <2>2 DEF OnCollision, Raised, CloseAndLeave, Leave
<1>11. ASSUME NEW s \in {"open", "closed"}, OnCrcMismatch(s) PROVE AdmissionInv'
  <2>1. CASE pc' = "check"
    <3>1. /\ pc = "attempt" /\ request_attempts' = request_attempts
          /\ nack_retries' = nack_retries + 1
          /\ UNCHANGED <<timeout_retries, collision_retries, command_syn_retries, successful_reconnects>>
      BY <1>11, <2>1 DEF OnCrcMismatch, Raised, CloseAndLeave, Leave, attempts, retries, recovery
    <3>2. AttemptsSpent' = AttemptsSpent + 1
      BY <3>1, OneRetryMore
    <3> QED
      BY <2>1, <3>1, <3>2, AdmissionRetries
  <2>2. CASE pc' = "idle"
    <3>1. UNCHANGED <<request_attempts, successful_reconnects, command_syn_retries>>
      BY <1>11, <2>2 DEF OnCrcMismatch, Raised, CloseAndLeave, Leave, attempts, retries, recovery
    <3> QED
      BY <2>2, <3>1, AdmissionLeaves
  <2> QED
    BY <1>11, <2>1, <2>2 DEF OnCrcMismatch, Raised, CloseAndLeave, Leave
<1>12. ASSUME NEW s \in {"open", "closed"}, OnSynBeforeAck(s) PROVE AdmissionInv'
  <2>1. CASE pc' = "check"
    <3>1. /\ pc = "attempt" /\ request_attempts' = request_attempts
          /\ command_syn_retries' = command_syn_retries + 1
          /\ UNCHANGED <<timeout_retries, collision_retries, nack_retries, successful_reconnects>>
      BY <1>12, <2>1 DEF OnSynBeforeAck, Raised, Leave, attempts, retries, recovery
    <3>2. AttemptsSpent' = AttemptsSpent + 1
      BY <3>1, OneRetryMore
    <3> QED
      BY <2>1, <3>1, <3>2, AdmissionRetries
  <2>2. CASE pc' = "idle"
    <3>1. UNCHANGED <<request_attempts, successful_reconnects, command_syn_retries>>
      BY <1>12, <2>2 DEF OnSynBeforeAck, Raised, Leave, attempts, retries, recovery
    <3> QED
      BY <2>2, <3>1, AdmissionLeaves
  <2> QED
    BY <1>12, <2>1, <2>2 DEF OnSynBeforeAck, Raised, Leave
<1>13. ASSUME NEW s \in {"open", "closed"}, NEW e \in Exceptions, NotRetried(e, s)
       PROVE  AdmissionInv'
  <2>1. /\ pc' \in {"idle", "recover", "reconnecting"}
        /\ UNCHANGED <<request_attempts, successful_reconnects, command_syn_retries>>
    BY <1>13 DEF NotRetried, Raised, Leave, attempts, retries, recovery
  <2> QED
    BY <2>1, AdmissionLeaves
<1>14. ASSUME NEW s \in {"open", "closed"}, NEW e \in Exceptions, OnSessionFailure(e, s)
       PROVE  AdmissionInv'
  <2>1. /\ pc' \in {"idle", "recover", "reconnecting"}
        /\ UNCHANGED <<request_attempts, successful_reconnects, command_syn_retries>>
    BY <1>14 DEF OnSessionFailure, RecoversFrom, Raised, EnterRecovery, attempts, retries, recovery
  <2> QED
    BY <2>1, AdmissionLeaves
<1>15. CASE Backoff
  <2>1. UNCHANGED <<retries, recovery>>
    BY <1>15 DEF Backoff
  <2> QED
    BY <1>15, <2>1, <1>p, <1>s, AdmissionKept DEF Backoff, attempts
<1>16. CASE BeginReconnect
  <2>1. /\ pc' \in {"idle", "recover", "reconnecting"}
        /\ UNCHANGED <<request_attempts, successful_reconnects, command_syn_retries>>
    BY <1>16 DEF BeginReconnect, ReconnectCounted, attempts, retries, recovery
  <2> QED
    BY <2>1, AdmissionLeaves
<1>17. CASE ReconnectSucceeds
  <2>1. AttemptsSpent' = ConnectionSpent
    <3>1. AttemptsPerConnection \in Nat /\ successful_reconnects \in Nat
          /\ command_syn_retries \in Nat
      BY SpentTypes DEF BaseInv, TypeOK
    <3>2. AttemptsSpent' = (successful_reconnects + 1) * AttemptsPerConnection
                             + (0 + 0 + 0) + command_syn_retries
      BY <1>17 DEF ReconnectSucceeds, SynRetriesKept, AttemptsSpent, AttemptsPerConnection
    <3>3. (successful_reconnects + 1) * AttemptsPerConnection
            = successful_reconnects * AttemptsPerConnection + AttemptsPerConnection
      BY <3>1
    <3> DEFINE P == successful_reconnects * AttemptsPerConnection
    <3>4. AttemptsSpent' = P + AttemptsPerConnection + 0 + command_syn_retries
          /\ ConnectionSpent = P + AttemptsPerConnection + command_syn_retries
      BY <3>2, <3>3 DEF ConnectionSpent
    <3>5. P \in Nat
      BY SpentTypes
    <3> HIDE DEF P
    <3> QED
      BY <3>1, <3>4, <3>5
  <2>2. pc' = "check" /\ request_attempts' = request_attempts
    BY <1>17 DEF ReconnectSucceeds, SynRetriesKept, attempts
  <2> QED
    BY <2>1, <2>2, ConnectionBound DEF AdmissionInv
<1>18. CASE ReconnectFails
  <2>1. /\ pc' \in {"idle", "recover", "reconnecting"}
        /\ UNCHANGED <<request_attempts, successful_reconnects, command_syn_retries>>
    BY <1>18 DEF ReconnectFails, attempts, retries, recovery
  <2> QED
    BY <2>1, AdmissionLeaves
<1>19. CASE RecoveryEnds
  <2>1. /\ pc' \in {"idle", "recover", "reconnecting"}
        /\ UNCHANGED <<request_attempts, successful_reconnects, command_syn_retries>>
    BY <1>19 DEF RecoveryEnds, CloseAndLeave, Leave, attempts, retries, recovery
  <2> QED
    BY <2>1, AdmissionLeaves
<1>20. CASE Tick
  <2>1. UNCHANGED <<retries, recovery>>
    BY <1>20 DEF Tick
  <2> QED
    BY <1>20, <2>1, <1>p, <1>s, AdmissionKept DEF Tick, attempts
<1>21. CASE UNCHANGED vars
  <2>1. UNCHANGED <<retries, recovery>>
    BY <1>21 DEF vars
  <2> QED
    BY <1>21, <2>1, <1>p, <1>s, AdmissionKept DEF vars, attempts
<1> QED
  BY <1>1, <1>2, <1>3, <1>4, <1>5, <1>6, <1>7, <1>8, <1>9, <1>10, <1>11, <1>12, <1>13,
     <1>14, <1>15, <1>16, <1>17, <1>18, <1>19, <1>20, <1>21 DEF Next, Step, Handler

(* README: "Per-transaction retry/reconnect limits remain bounded".  The   *)
(* product bound on native admissions holds for every setting of the       *)
(* limits, although successful reconnects renew three of the counters.     *)
THEOREM AdmissionsBounded == Spec => []AttemptsBounded
<1>1. Init => BaseInv /\ AdmissionInv
  <2> SUFFICES ASSUME Init PROVE BaseInv /\ AdmissionInv
    OBVIOUS
  <2>1. BaseInv
    BY BaseInit
  <2>2. (1 + NackMax) * ConnectionSpent >= 0
    BY <2>1, SpentTypes, ScaleMonotone
  <2> QED
    BY <2>1, <2>2 DEF Init, AdmissionInv
<1>2. BaseInv /\ AdmissionInv /\ [Next]_vars => (BaseInv /\ AdmissionInv)'
  BY BaseStep, AdmissionStep
<1>3. BaseInv /\ AdmissionInv => AttemptsBounded
  <2> SUFFICES ASSUME BaseInv, AdmissionInv PROVE AttemptsBounded
    OBVIOUS
  <2> DEFINE B == (ReconnectMax + 1) * AttemptsPerConnection + 1
  <2>1. ReconnectMax \in Nat /\ successful_reconnects \in Nat /\ command_syn_retries \in 0..1
        /\ successful_reconnects <= ReconnectMax
    BY PolicyAssumption DEF PolicyAssumption, BaseInv, TypeOK
  <2>2. AttemptsPerConnection * (successful_reconnects + 1)
          <= AttemptsPerConnection * (ReconnectMax + 1)
    BY <2>1, SpentTypes, ScaleMonotone
  <2>3. ConnectionSpent <= B /\ B \in Nat
    BY <2>1, <2>2, SpentTypes DEF ConnectionSpent
  <2>4. (1 + NackMax) * ConnectionSpent <= (1 + NackMax) * B
    BY <2>3, SpentTypes, ScaleMonotone
  <2>5. request_attempts <= (1 + NackMax) * ConnectionSpent
    BY ConnectionBound
  <2>6. (1 + NackMax) * ConnectionSpent \in Int /\ (1 + NackMax) * B \in Int
    BY <2>3, SpentTypes
  <2> QED
    BY <2>4, <2>5, <2>6, SpentTypes DEF AttemptsBounded
<1> QED
  BY <1>1, <1>2, <1>3, PTL DEF Spec

(* What the run checks as one invariant, of every request of a client with *)
(* any limits.                                                             *)
THEOREM RequestsSound == Spec => []RequestsBounded
BY TypeCorrect, NoWriteRepeated, AdmissionsBounded, PTL DEF RequestsBounded

-----------------------------------------------------------------------------
(* While SYN before ACK is all a request has met, it is on its first       *)
(* connection, and once that was met the connection is up.  An outcome is  *)
(* there only between requests.                                            *)
SynHistory ==
  /\ pc # "idle" => outcome = "none"
  /\ pc # "idle" /\ ~other_failure =>
       /\ pc \notin {"backoff", "recover", "reconnecting"} /\ reconnect_retries = 0
       /\ command_syn_retries > 0 => session = "open"

(* A recovery was given what the last attempt raised, and knows of its own *)
(* failed reconnects whether the adapter was last reached; outside of one  *)
(* the last reconnect reached it.                                          *)
RecoveryHistory ==
  /\ pc \in {"recover", "reconnecting"} =>
       failure = last_raised /\ (unreached <=> reconnect_failed)
  /\ pc \notin {"idle", "recover", "reconnecting"} => ~unreached
  /\ pc \notin {"idle", "reconnecting"} /\ ~unreached /\ reconnect_retries > 0 =>
       successful_reconnects > 0

DiagnosisInv == SynHistory /\ RecoveryHistory /\ TerminalDiagnosis

LEMMA DiagnosisInit == Init => DiagnosisInv
BY DEF Init, DiagnosisInv, SynHistory, RecoveryHistory, TerminalDiagnosis, SynKeepsConnection

(* A handler of another exception marks the request; only _recover_session *)
(* replaces a connection, and it is entered by such a handler.             *)
LEMMA DiagnosisStep == BaseInv /\ DiagnosisInv /\ [Next]_vars => DiagnosisInv'
<1> SUFFICES ASSUME BaseInv, DiagnosisInv, [Next]_vars PROVE DiagnosisInv'
  OBVIOUS
<1>0. ReconnectMax \in Nat /\ reconnect_retries \in 0..ReconnectMax /\ failure \in Recovered \union {"none"}
      /\ command_syn_retries \in 0..1 /\ other_failure \in BOOLEAN /\ reconnect_failed \in BOOLEAN
      /\ unreached \in BOOLEAN /\ successful_reconnects \in 0..ReconnectMax
  BY PolicyAssumption DEF PolicyAssumption, BaseInv, TypeOK
<1>u. ASSUME UNCHANGED vars PROVE DiagnosisInv'
  BY <1>u DEF DiagnosisInv, SynHistory, RecoveryHistory, TerminalDiagnosis, SynKeepsConnection, Expired,
     vars, request, attempts, retries, recovery, history
<1> USE DEF DiagnosisInv, SynHistory, RecoveryHistory, TerminalDiagnosis, SynKeepsConnection, request,
            attempts, retries, recovery, history, Leave, CloseAndLeave
<1>1. CASE SessionContext BY <1>1 DEF SessionContext, Forget
<1>2. CASE Begin BY <1>2 DEF Begin, Forget
<1>3. CASE DeadlineExpires
  <2>1. Expired' BY <1>3 DEF DeadlineExpires, Expired
  <2> QED BY <1>3, <2>1 DEF DeadlineExpires
<1>4. CASE StartAttempt BY <1>4 DEF StartAttempt
<1>5. CASE HookReturns BY <1>5 DEF HookReturns
<1>6. CASE HookRaises BY <1>6 DEF HookRaises
<1>7. CASE LocalNackRetry BY <1>7 DEF LocalNackRetry
<1>8. CASE AttemptReturns BY <1>8 DEF AttemptReturns
<1>9. ASSUME NEW s \in {"open", "closed"}, OnTimeout(s) PROVE DiagnosisInv'
  <2>1. other_failure' BY <1>9 DEF OnTimeout, Raised
  <2>2. pc' = "recover" => (unreached' <=> reconnect_failed')
    BY <1>9 DEF OnTimeout, Raised, EnterRecovery
  <2> QED BY <1>0, <1>9, <2>1, <2>2 DEF OnTimeout, Raised, EnterRecovery
<1>10. ASSUME NEW s \in {"open", "closed"}, OnCollision(s) PROVE DiagnosisInv'
  <2>1. other_failure' BY <1>10 DEF OnCollision, Raised
  <2> QED BY <1>10, <2>1 DEF OnCollision, Raised
<1>11. ASSUME NEW s \in {"open", "closed"}, OnCrcMismatch(s) PROVE DiagnosisInv'
  <2>1. other_failure' BY <1>11 DEF OnCrcMismatch, Raised
  <2> QED BY <1>11, <2>1 DEF OnCrcMismatch, Raised
<1>12. ASSUME NEW s \in {"open", "closed"}, OnSynBeforeAck(s) PROVE DiagnosisInv'
  <2>1. session' = "open" /\ (other_failure' <=> other_failure)
    BY <1>0, <1>12 DEF OnSynBeforeAck, Raised, AttemptEnds
  <2> QED BY <1>12, <2>1 DEF OnSynBeforeAck, Raised
<1>13. ASSUME NEW s \in {"open", "closed"}, NEW e \in Exceptions, NotRetried(e, s)
       PROVE  DiagnosisInv'
  BY <1>13 DEF NotRetried, Raised, Exceptions
<1>14. ASSUME NEW s \in {"open", "closed"}, NEW e \in Exceptions, OnSessionFailure(e, s)
       PROVE  DiagnosisInv'
  <2>1. other_failure' BY <1>14 DEF OnSessionFailure, RecoversFrom, Raised
  <2>2. unreached' <=> reconnect_failed'
    BY <1>14 DEF OnSessionFailure, Raised, EnterRecovery
  <2> QED BY <1>14, <2>1, <2>2 DEF OnSessionFailure, Raised, EnterRecovery
<1>15. CASE Backoff BY <1>15 DEF Backoff
<1>16. CASE BeginReconnect BY <1>16 DEF BeginReconnect
<1>17. CASE ReconnectSucceeds BY <1>0, <1>17 DEF ReconnectSucceeds, SynRetriesKept
<1>18. CASE ReconnectFails BY <1>18 DEF ReconnectFails
<1>19. CASE RecoveryEnds
  <2>1. CASE ReconnectMax = 0 BY <1>0, <1>19, <2>1 DEF RecoveryEnds, Recovered
  <2>2. CASE ReconnectMax # 0
    <3>1. /\ reconnect_retries = ReconnectMax /\ reconnect_retries > 0
          /\ failure = last_raised /\ (unreached <=> reconnect_failed)
          /\ ~unreached => successful_reconnects > 0
      BY <1>0, <1>19, <2>2 DEF RecoveryEnds
    <3>2. CASE TargetAnswered BY <1>0, <1>19, <2>2, <3>1, <3>2 DEF RecoveryEnds, TargetAnswered
    <3>3. CASE ~TargetAnswered BY <1>0, <1>19, <2>2, <3>1, <3>3 DEF RecoveryEnds, TargetAnswered
    <3> QED BY <3>2, <3>3
  <2> QED BY <2>1, <2>2
<1>20. CASE Tick BY <1>20 DEF Tick
<1> QED
  BY <1>1, <1>2, <1>3, <1>4, <1>5, <1>6, <1>7, <1>8, <1>9, <1>10, <1>11, <1>12, <1>13,
     <1>14, <1>15, <1>16, <1>17, <1>18, <1>19, <1>20, <1>u DEF Next, Step, Handler

(* README: SYN before ACK "alone does not trigger TCP reconnect", and a    *)
(* malformed ACK is a protocol failure of the read only when it persists   *)
(* after a reconnection that succeeded.  For every setting of the limits   *)
(* and every history of failures, what the diagnosis says happened last    *)
(* did, what it says was exhausted was, and an unreached adapter is never  *)
(* reported as the target's answer (_recover_session's last branch).       *)
THEOREM DiagnosesTrue == Spec => []TerminalDiagnosis
<1>1. Init => BaseInv /\ DiagnosisInv
  BY BaseInit, DiagnosisInit
<1>2. BaseInv /\ DiagnosisInv /\ [Next]_vars => (BaseInv /\ DiagnosisInv)'
  BY BaseStep, DiagnosisStep
<1>3. DiagnosisInv => TerminalDiagnosis
  BY DEF DiagnosisInv
<1> QED
  BY <1>1, <1>2, <1>3, PTL DEF Spec

-----------------------------------------------------------------------------
(* What an attempt returns or raises was admitted.                         *)
AdmittedInv == pc = "attempt" => request_attempts > 0

LEMMA AdmittedStep == BaseInv /\ AdmittedInv /\ [Next]_vars => AdmittedInv'
<1> SUFFICES ASSUME BaseInv, AdmittedInv, [Next]_vars PROVE AdmittedInv'
  OBVIOUS
<1> USE DEF AdmittedInv, BaseInv, TypeOK, request, attempts, retries, recovery, Leave, CloseAndLeave
<1>1. CASE SessionContext \/ Begin \/ DeadlineExpires \/ HookRaises \/ AttemptReturns
  BY <1>1 DEF SessionContext, Begin, DeadlineExpires, HookRaises, AttemptReturns
<1>2. CASE StartAttempt \/ HookReturns \/ LocalNackRetry
  BY <1>2 DEF StartAttempt, HookReturns, LocalNackRetry
<1>3. CASE Handler
  BY <1>3 DEF Handler, OnTimeout, OnCollision, OnCrcMismatch, OnSynBeforeAck, NotRetried,
     OnSessionFailure, EnterRecovery
<1>4. CASE Backoff \/ BeginReconnect \/ ReconnectSucceeds \/ ReconnectFails \/ RecoveryEnds
  BY <1>4 DEF Backoff, BeginReconnect, ReconnectSucceeds, ReconnectFails, RecoveryEnds
<1>5. CASE Tick \/ UNCHANGED vars BY <1>5 DEF Tick, vars
<1> QED BY <1>1, <1>2, <1>3, <1>4, <1>5 DEF Next, Step

LEMMA ContractInit == Init => Contract!Init
<1> SUFFICES ASSUME Init PROVE Contract!Init
  OBVIOUS
<1>1. ~Expired BY PolicyAssumption DEF PolicyAssumption, Init, Expired
<1>2. Answer = "none" /\ ~(pc # "idle") /\ request_attempts = 0 /\ retry_safe \in BOOLEAN
  BY DEF Init, Answer
<1>3. Expired = FALSE BY <1>1 DEF Expired
<1> QED BY <1>2, <1>3 DEF Contract!Init

(* Every step is one the contract allows, or one its callers do not see.   *)
LEMMA ContractStep ==
  BaseInv /\ UnsafeInv /\ DiagnosisInv /\ AdmittedInv /\ [Next]_vars
    => [Contract!Next]_(Contract!vars)
<1> SUFFICES ASSUME BaseInv, UnsafeInv, DiagnosisInv, AdmittedInv, [Next]_vars
             PROVE  [Contract!Next]_(Contract!vars)
  OBVIOUS
<1> USE DEF request, attempts, retries, recovery, Leave, CloseAndLeave, Contract!Next, Contract!vars
<1>0. Budget \in Nat \ {0} /\ elapsed \in 0..Budget /\ request_attempts \in Nat /\ retry_safe \in BOOLEAN
      /\ ReconnectMax \in Nat
  BY PolicyAssumption DEF PolicyAssumption, BaseInv, TypeOK
<1>a. ASSUME UNCHANGED <<retry_safe, request_attempts, elapsed, outcome>>, pc # "idle", pc' # "idle"
      PROVE  UNCHANGED Contract!vars
  BY <1>a DEF Expired, Answer
<1>b. ASSUME UNCHANGED <<retry_safe, request_attempts, elapsed>>, pc # "idle", pc' = "idle",
             outcome' \notin {"none", "ok"}
      PROVE  Contract!Fail
  BY <1>b DEF Contract!Fail, Expired, Answer
<1>c. ASSUME UNCHANGED <<retry_safe, elapsed, outcome>>, pc # "idle", pc' # "idle", ~Expired,
             request_attempts' = request_attempts + 1, retry_safe \/ request_attempts = 0
      PROVE  Contract!Admit
  BY <1>c DEF Contract!Admit, Expired, Answer
<1>1. CASE SessionContext BY <1>1 DEF SessionContext, Contract!Collect, Expired, Answer
<1>2. CASE Begin
  <2>1. ~Expired' BY <1>0, <1>2 DEF Begin, Expired
  <2> QED BY <1>2, <2>1 DEF Begin, Contract!Begin, Answer
<1>3. CASE DeadlineExpires BY <1>b, <1>3 DEF DeadlineExpires
<1>4. CASE StartAttempt
  <2>1. retry_safe \/ request_attempts = 0 BY <1>0, <1>4 DEF StartAttempt, UnsafeInv
  <2> QED BY <1>a, <1>c, <1>4, <2>1 DEF StartAttempt
<1>5. CASE HookReturns
  <2>1. retry_safe \/ request_attempts = 0 BY <1>0, <1>5 DEF HookReturns, UnsafeInv
  <2> QED BY <1>c, <1>5, <2>1 DEF HookReturns, HookInTime
<1>6. CASE HookRaises BY <1>b, <1>6 DEF HookRaises
<1>7. CASE LocalNackRetry BY <1>a, <1>c, <1>7 DEF LocalNackRetry
<1>8. CASE AttemptReturns
  BY <1>8 DEF AttemptReturns, Contract!Reply, Expired, Answer, AdmittedInv
<1>9. CASE Handler
  <2>1. pc = "attempt" /\ UNCHANGED <<retry_safe, request_attempts, elapsed>>
    BY <1>9 DEF Handler, OnTimeout, OnCollision, OnCrcMismatch, OnSynBeforeAck, NotRetried,
       OnSessionFailure, Raised
  <2>2. \/ pc' # "idle" /\ UNCHANGED outcome
        \/ pc' = "idle" /\ outcome' \notin {"none", "ok"}
    BY <1>9 DEF Handler, OnTimeout, OnCollision, OnCrcMismatch, OnSynBeforeAck, NotRetried,
       OnSessionFailure, EnterRecovery, Exceptions
  <2> QED BY <1>a, <1>b, <2>1, <2>2
<1>10. CASE Backoff \/ BeginReconnect \/ ReconnectSucceeds \/ ReconnectFails
  BY <1>a, <1>10 DEF Backoff, BeginReconnect, ReconnectSucceeds, ReconnectFails
<1>11. CASE RecoveryEnds
  <2>1. failure \notin {"none", "ok"} BY <1>11 DEF RecoveryEnds, BaseInv, RecoveryInv, TypeOK, Recovered
  <2> QED BY <1>b, <1>11, <2>1 DEF RecoveryEnds
<1>12. CASE Tick
  BY <1>0, <1>12 DEF Tick, Contract!Spend, Expired, Answer
<1>13. CASE UNCHANGED vars BY <1>13 DEF vars, Expired, Answer
<1> QED
  BY <1>1, <1>2, <1>3, <1>4, <1>5, <1>6, <1>7, <1>8, <1>9, <1>10, <1>11, <1>12, <1>13
  DEF Next, Step

(* The safety half of the contract: a write is admitted at most once,      *)
(* nothing is admitted and no reply accepted once the budget is spent      *)
(* (_send_with_policy; that every request ends is model-checked).          *)
THEOREM ContractKept == Spec => Contract!Init /\ [][Contract!Next]_(Contract!vars)
<1> DEFINE Inv == BaseInv /\ UnsafeInv /\ DiagnosisInv /\ AdmittedInv
<1>1. Init => Inv
  <2>1. Init => UnsafeInv /\ AdmittedInv BY DEF Init, UnsafeInv, AdmittedInv
  <2> QED BY <2>1, BaseInit, DiagnosisInit
<1>2. Inv /\ [Next]_vars => Inv'
  BY BaseStep, UnsafeStep, DiagnosisStep, AdmittedStep
<1>3. Inv /\ [Next]_vars => [Contract!Next]_(Contract!vars)
  BY ContractStep
<1> HIDE DEF Inv
<1> QED
  BY <1>1, <1>2, <1>3, ContractInit, PTL DEF Spec
=============================================================================
