--------------------------- MODULE EnhancedSession ---------------------------
(***************************************************************************)
(* Threads that share one EnhancedTcpTransport: the reentrant lock with    *)
(* its bounded wait, the thread-local operation deadline, nested session() *)
(* contexts and the one connection they count references to.               *)
(*                                                                         *)
(* A request is one step of many inside the lock; its retries appear only  *)
(* as the connections it loses and opens.                                  *)
(***************************************************************************)
EXTENDS Naturals, FiniteSets

CONSTANTS Threads, NoThread,
          MaxNest    \* bound: session() contexts one thread nests

ThreadConstants ==
  IsFiniteSet(Threads) /\ NoThread \notin Threads /\ MaxNest \in Nat

VARIABLES
  pc,        \* pc[t]: "body" (the caller's code), an operation that waits for
             \* the lock, or one that holds it
  holder,    \* the thread that holds _lock
  expired,   \* expired[t]: the deadline of t's operation has passed
  contexts,  \* contexts[t]: the session() contexts t is in
  depth,     \* _session_depth
  connected  \* _session is not None

vars == <<pc, holder, expired, contexts, depth, connected>>

Budgeted == {"enter", "request"}     \* their lock wait consumes their budget
Waiting == Budgeted \union {"exit", "close"}

Init ==
  /\ pc = [t \in Threads |-> "body"] /\ holder = NoThread
  /\ expired = [t \in Threads |-> FALSE] /\ contexts = [t \in Threads |-> 0]
  /\ depth = 0 /\ connected = FALSE

Goto(t, where) == pc' = [pc EXCEPT ![t] = where]
Release == holder' = NoThread
OneLess(n) == IF n > 0 THEN n - 1 ELSE 0

-----------------------------------------------------------------------------
(* A thread calls session().__enter__, a request, __exit__ or close();     *)
(* the first two start a deadline.                                         *)
Call(t, operation) ==
  /\ pc[t] = "body"
  /\ operation = "enter" => contexts[t] < MaxNest
  /\ operation = "exit" => contexts[t] > 0
  /\ Goto(t, operation) /\ expired' = [expired EXCEPT ![t] = FALSE]
  /\ UNCHANGED <<holder, contexts, depth, connected>>

DeadlinePasses(t) ==
  /\ pc[t] \in Budgeted \union {"opening", "requesting"} /\ ~expired[t]
  /\ expired' = [expired EXCEPT ![t] = TRUE]
  /\ UNCHANGED <<pc, holder, contexts, depth, connected>>

(* Mutant of LockTimeout: the lock is waited for without a timeout.        *)
LockWaitUnbounded(t) == FALSE
(* acquire(timeout=remaining) gives up.                                    *)
LockTimeout(t) ==
  /\ pc[t] \in Budgeted /\ holder # t /\ expired[t]
  /\ Goto(t, "body") /\ UNCHANGED <<holder, expired, contexts, depth, connected>>

(* Mutant of MayAcquire: the lock is not taken.                            *)
Unlocked(t) == TRUE
MayAcquire(t) == holder = NoThread
Acquire(t) ==
  /\ pc[t] \in Waiting /\ holder # t /\ MayAcquire(t)
  /\ holder' = t /\ UNCHANGED <<pc, expired, contexts, depth, connected>>

(* An operation that expired while it waited must not begin.               *)
Refuse(t) ==
  /\ pc[t] \in Budgeted /\ holder = t /\ expired[t]
  /\ Release /\ Goto(t, "body") /\ UNCHANGED <<expired, contexts, depth, connected>>

InTime(t) == ~expired[t]
(* Only the first context opens the connection, replacing one that an      *)
(* earlier request outside any context left.                               *)
Enter(t) ==
  /\ pc[t] = "enter" /\ holder = t /\ InTime(t)
  /\ depth' = depth + 1
  /\ IF depth = 0 THEN Goto(t, "opening") /\ UNCHANGED <<holder, contexts>>
       ELSE Release /\ Goto(t, "body") /\ contexts' = [contexts EXCEPT ![t] = @ + 1]
  /\ UNCHANGED <<expired, connected>>

Opened(t) ==
  /\ pc[t] = "opening" /\ connected' = TRUE
  /\ Release /\ Goto(t, "body") /\ contexts' = [contexts EXCEPT ![t] = @ + 1]
  /\ UNCHANGED <<expired, depth>>

Undone == OneLess(depth)
(* Connecting fails, or INIT does, and closes; or the deadline passed.     *)
OpenFails(t) ==
  /\ pc[t] = "opening" /\ connected' \in {connected, FALSE}
  /\ depth' = Undone /\ Release /\ Goto(t, "body") /\ UNCHANGED <<expired, contexts>>

(* A request opens the connection if there is none.                        *)
BeginRequest(t) ==
  /\ pc[t] = "request" /\ holder = t /\ InTime(t)
  /\ Goto(t, "requesting") /\ UNCHANGED <<holder, expired, contexts, depth, connected>>

(* The request connects, loses the connection, or replaces it.             *)
Connection(t) ==
  /\ pc[t] = "requesting" /\ connected' = ~connected
  /\ UNCHANGED <<pc, holder, expired, contexts, depth>>

(* It ends; a terminal failure or an expiry closes the connection.         *)
EndRequest(t) ==
  /\ pc[t] = "requesting" /\ connected' \in {connected, FALSE}
  /\ Release /\ Goto(t, "body") /\ UNCHANGED <<expired, contexts, depth>>

(* Mutant of LastExit: every exit closes the connection.                   *)
AnyExit == TRUE
LastExit == depth = 1
Exit(t) ==
  /\ pc[t] = "exit" /\ holder = t
  /\ depth' = OneLess(depth) /\ contexts' = [contexts EXCEPT ![t] = @ - 1]
  /\ connected' = (connected /\ ~LastExit)
  /\ Release /\ Goto(t, "body") /\ UNCHANGED expired

Close(t) ==
  /\ pc[t] = "close" /\ holder = t /\ connected' = FALSE
  /\ Release /\ Goto(t, "body") /\ UNCHANGED <<expired, contexts, depth>>

-----------------------------------------------------------------------------
(* What takes a thread on: time that passes, an acquire that returns when  *)
(* its timeout is over, the steps inside the lock.                         *)
Progress(t) ==
  \/ DeadlinePasses(t) \/ LockTimeout(t) \/ Refuse(t) \/ Enter(t) \/ Opened(t)
  \/ OpenFails(t) \/ BeginRequest(t) \/ EndRequest(t) \/ Exit(t) \/ Close(t)
Next == \E t \in Threads :
  (\E operation \in Waiting : Call(t, operation)) \/ Acquire(t) \/ Connection(t) \/ Progress(t)

(* Every wait inside the lock is cut off by the deadline, so a thread that *)
(* can go on does.  Nothing is assumed of who gets the lock.               *)
Fairness == \A t \in Threads : WF_vars(Progress(t))
Spec == Init /\ [][Next]_vars /\ Fairness

-----------------------------------------------------------------------------
TypeOK ==
  /\ pc \in [Threads -> Waiting \union {"body", "opening", "requesting"}]
  /\ holder \in Threads \union {NoThread}
  /\ expired \in [Threads -> BOOLEAN] /\ contexts \in [Threads -> Nat]
  /\ depth \in Nat /\ connected \in BOOLEAN

(* What works on the connection holds the lock: no two threads are inside  *)
(* a request or a connect at once.                                         *)
Inside(t) == pc[t] \in {"opening", "requesting"}
OneInside == TypeOK /\ \A t \in Threads : Inside(t) => holder = t

(* The depth counts the contexts in use and the one being opened, whatever *)
(* opens failed and whatever waits expired before.                         *)
InUse == {c \in Threads \X (1..MaxNest) : c[2] <= contexts[c[1]]}  \* <<thread, place>>
Opening == {t \in Threads : pc[t] = "opening"}
DepthCounts == depth = Cardinality(InUse) + Cardinality(Opening)

(* "A queued operation that expired while waiting must not begin": what    *)
(* enters the lock's section does so before its deadline.                  *)
InTimeNow == \A t \in Threads : ~Inside(t) /\ Inside(t)' => ~expired[t]

(* One thread's leaving its context never takes the connection away from   *)
(* another thread that is still in one.                                    *)
SparesNow ==
  \A t, s \in Threads :
    pc[t] = "exit" /\ pc'[t] = "body" /\ connected /\ s # t /\ contexts[s] > 0 => connected'

(* After the last context is left there is no connection: nobody has to    *)
(* call close().                                                           *)
ClosesNow ==
  \A t \in Threads :
    pc[t] = "exit" /\ pc'[t] = "body" /\ (\A s \in Threads : contexts'[s] = 0) => ~connected'
=============================================================================
