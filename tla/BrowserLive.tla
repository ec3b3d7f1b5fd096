----------------------------- MODULE BrowserLive -----------------------------
(***************************************************************************)
(* The live part of the register browser: the Textual event loop, one      *)
(* BrowserSession per connection with its single FIFO worker, and the      *)
(* futures that carry an operation from the loop to a worker and its       *)
(* result back, until the teardown after the app has ended.                *)
(*                                                                         *)
(* A handler of the loop is one step, except that it submits an operation  *)
(* and tracks its future in two: the worker may be done in between.        *)
(* Sessions and futures are numbered in the order of their creation; 0 is  *)
(* None.  Dialogs that touch no transport are left out.                    *)
(***************************************************************************)
EXTENDS Naturals, Sequences

CONSTANTS MaxSessions, MaxOps   \* bounds: connections made, operations submitted

BrowserConstants == MaxSessions \in Nat /\ MaxOps \in Nat

VARIABLES
  app,       \* "running", "stopping", "harvest", "close", "closing", "again", "ended"
  ui,        \* "idle", "tracking" or "finishing": what the handler does next
  screen,    \* "main", "form", "editor" or "confirm": dialogs are modal
  session,   \* _browser_session
  verified,  \* _connected_identity is set
  busy,      \* _transport_busy
  inflight,  \* _inflight_future
  recorded,  \* _inflight_recorded
  teardown,  \* _inflight_teardown_success is set
  context,   \* _live_edit_context: the session it was read through
  pending,   \* _pending_write: the session its preparation comes from
  unknown,   \* _last_live_write has the outcome "unknown"
  kind,      \* kind[f]: what future f runs, and the session it runs on
  outcome,   \* outcome[f]: "none" until it is done
  queue,     \* queue[s]: the futures of the worker's FIFO, 0 for close_transport
  worker,    \* worker[s]: "idle", "calling" (in call_from_thread) or "closed"
  history,   \* history[f]: entries of the write history for f's result
  brokenRender  \* a callback that ran while the app stopped failed to render

connection == <<session, verified>>
tracked == <<busy, inflight, recorded, teardown>>
dialogs == <<screen, context, pending>>
workers == <<outcome, queue, worker>>
results == <<unknown, history, brokenRender>>
vars == <<app, ui, connection, tracked, dialogs, kind, workers, results>>

Close == 0
Writing == {"write", "recheck"}
Op(f) == kind[f].op
Outcomes(k) == CASE k = "identity" -> {"ok", "mismatch", "error"}
                 [] k \in Writing -> {"ok", "unknown", "error"}
                 [] OTHER -> {"ok", "error"}

Init ==
  /\ app = "running" /\ ui = "idle" /\ screen = "main"
  /\ session = 0 /\ verified = FALSE
  /\ busy = FALSE /\ inflight = 0 /\ recorded = TRUE /\ teardown = FALSE
  /\ context = 0 /\ pending = 0 /\ unknown = FALSE /\ brokenRender = FALSE
  /\ kind = <<>> /\ outcome = <<>> /\ history = <<>> /\ queue = <<>> /\ worker = <<>>

-----------------------------------------------------------------------------
(* BrowserSession.submit and close.                                        *)
Submit(s, k) ==
  /\ ui' = "tracking"
  /\ kind' = Append(kind, [op |-> k, via |-> s]) /\ outcome' = Append(outcome, "none")
  /\ history' = Append(history, 0)
  /\ queue' = [queue EXCEPT ![s] = Append(@, Len(kind) + 1)]

CloseSession(s) ==
  queue' = IF s = 0 THEN queue ELSE [queue EXCEPT ![s] = Append(@, Close)]

-----------------------------------------------------------------------------
Room(n) == Len(kind) + n <= MaxOps      \* bound
(* The user's actions, between two handlers of the loop.                   *)
Ready == app = "running" /\ ui = "idle"
(* Mutant of MayStart: a busy transport does not refuse the action.        *)
StartsAnyway == Ready /\ screen = "main"
MayStart == Ready /\ screen = "main" /\ ~busy

OpenForm ==
  /\ MayStart /\ session = 0 /\ screen' = "form"
  /\ UNCHANGED <<app, ui, connection, tracked, context, pending, kind, workers, results>>

CancelForm ==
  /\ Ready /\ screen = "form" /\ screen' = "main"
  /\ UNCHANGED <<app, ui, connection, tracked, context, pending, kind, workers, results>>

(* The form is filled in, or the settings were given when the app started. *)
BeginConnect ==
  /\ Ready /\ screen = "form" /\ ~busy /\ Len(queue) < MaxSessions /\ Room(2)
  /\ screen' = "main" /\ session' = Len(queue) + 1 /\ ui' = "tracking"
  /\ kind' = Append(kind, [op |-> "connect", via |-> session']) /\ outcome' = Append(outcome, "none")
  /\ history' = Append(history, 0)
  /\ queue' = Append(queue, <<Len(kind) + 1>>) /\ worker' = Append(worker, "idle")
  /\ UNCHANGED <<app, verified, tracked, context, pending, unknown, brokenRender>>

Disconnect ==
  /\ MayStart /\ session # 0
  /\ session' = 0 /\ verified' = FALSE /\ context' = 0 /\ CloseSession(session)
  /\ UNCHANGED <<app, ui, tracked, screen, pending, kind, outcome, worker, results>>

(* Without a session the editor opens at once, on the artifact's entry.    *)
EditOffline ==
  /\ Ready /\ screen = "main" /\ session = 0
  /\ screen' = "editor" /\ context' = 0
  /\ UNCHANGED <<app, ui, connection, tracked, pending, kind, workers, results>>
EditLive ==
  /\ MayStart /\ session # 0 /\ Room(1) /\ Submit(session, "context")
  /\ UNCHANGED <<app, connection, tracked, dialogs, worker, unknown, brokenRender>>

(* A cancelled or rejected value leaves the context it was read with.      *)
EditorEnds ==
  /\ Ready /\ screen = "editor" /\ screen' = "main" /\ context' \in {0, context}
  /\ UNCHANGED <<app, ui, connection, tracked, pending, kind, workers, results>>
EditorAccepts ==
  /\ Ready /\ screen = "editor" /\ screen' = "confirm"
  /\ pending' = (IF session # 0 THEN context ELSE 0) /\ context' = 0
  /\ UNCHANGED <<app, ui, connection, tracked, kind, workers, results>>

(* One dialog stands for the confirmation of incomplete limits too.        *)
(* Cancelled, an offline preview, or no session left.                      *)
ConfirmEnds ==
  /\ Ready /\ screen = "confirm" /\ screen' = "main" /\ pending' = 0
  /\ UNCHANGED <<app, ui, connection, tracked, context, kind, workers, results>>
ConfirmWrite ==
  /\ Ready /\ screen = "confirm" /\ pending # 0 /\ session # 0
  /\ Room(1) /\ Submit(session, "write") /\ screen' = "main" /\ pending' = 0
  /\ UNCHANGED <<app, connection, tracked, context, worker, unknown, brokenRender>>

Recheck ==
  /\ MayStart /\ session # 0 /\ unknown /\ Room(1) /\ Submit(session, "recheck")
  /\ UNCHANGED <<app, connection, tracked, dialogs, worker, unknown, brokenRender>>

Quit ==
  /\ Ready /\ ~busy /\ recorded
  /\ session' = 0 /\ CloseSession(session) /\ app' = "stopping"
  /\ UNCHANGED <<ui, verified, tracked, dialogs, kind, outcome, worker, results>>

(* An unrelated fatal error stops the app.                                 *)
FatalError ==
  /\ Ready /\ app' = "stopping"
  /\ UNCHANGED <<ui, connection, tracked, dialogs, kind, workers, results>>

-----------------------------------------------------------------------------
(* Mutant of AfterTracking: a future that is done already is not finished. *)
LeftToWorker(f) == "idle"
AfterTracking(f) == IF outcome[f] = "none" THEN "idle" ELSE "finishing"
(* Mutant of KeepsResult: a recheck is tracked without a teardown callback.*)
OnlyWrites(f) == Op(f) = "write"
KeepsResult(f) == Op(f) \in Writing
(* _track_transport_future, for the future submitted last: a future that   *)
(* is done already is finished by the same handler.                        *)
Track ==
  /\ ui = "tracking"
  /\ LET f == Len(kind) IN
       IF busy THEN ui' = "idle" /\ UNCHANGED tracked      \* it raises
         ELSE /\ busy' = TRUE /\ inflight' = f /\ recorded' = FALSE
              /\ teardown' = KeepsResult(f)
              /\ ui' = AfterTracking(f)
  /\ UNCHANGED <<app, connection, dialogs, kind, workers, results>>

MarkRecorded == recorded' = TRUE /\ teardown' = FALSE
Record(f) ==
  /\ history' = [history EXCEPT ![f] = @ + 1] /\ unknown' = (outcome[f] = "unknown")

(* Mutant of ConnectionFailed: a mismatch leaves the session in place.     *)
FailureKeepsSession == UNCHANGED <<session, verified, queue>> /\ MarkRecorded
(* _connection_failed.                                                     *)
ConnectionFailed ==
  session' = 0 /\ verified' = FALSE /\ CloseSession(session) /\ MarkRecorded

(* on_success or on_error of the tracked future, by what it ran.           *)
Finished(f) ==
  \/ /\ Op(f) \in {"connect", "identity"} /\ outcome[f] \in {"error", "mismatch"}
     /\ ConnectionFailed /\ ui' = "idle"
     /\ UNCHANGED <<screen, context, kind, outcome, results>>
  \/ /\ Op(f) = "connect" /\ outcome[f] = "ok" /\ Submit(session, "identity")
     /\ UNCHANGED <<connection, recorded, teardown, screen, context, unknown, brokenRender>>
  \/ /\ Op(f) = "identity" /\ outcome[f] = "ok" /\ MarkRecorded
     /\ verified' = TRUE /\ ui' = "idle"
     /\ UNCHANGED <<session, screen, context, kind, outcome, queue, results>>
  \/ /\ Op(f) = "context" /\ outcome[f] = "ok" /\ MarkRecorded
     /\ context' = kind[f].via /\ screen' = "editor" /\ ui' = "idle"
     /\ UNCHANGED <<connection, kind, outcome, queue, results>>
  \/ /\ Op(f) \in Writing /\ outcome[f] # "error" /\ Record(f) /\ ui' = "idle"
     /\ \/ MarkRecorded /\ UNCHANGED brokenRender
        \/ /\ app = "stopping"          \* the widgets are gone
           /\ brokenRender' = TRUE /\ UNCHANGED <<recorded, teardown>>
     /\ UNCHANGED <<connection, screen, context, kind, outcome, queue>>
  \/ /\ Op(f) \notin {"connect", "identity"} /\ outcome[f] = "error" /\ MarkRecorded
     /\ ui' = "idle" /\ UNCHANGED <<connection, screen, context, kind, outcome, queue, results>>

LoopAlive == app \in {"running", "stopping"}
Calling(s) == worker[s] = "calling"
(* _finish_transport_future, in the handler that tracked the future or     *)
(* called from the worker.                                                 *)
FinishInline ==
  /\ ui = "finishing" /\ Finished(inflight) /\ busy' = FALSE
  /\ UNCHANGED <<app, inflight, pending, worker>>
Deliver(s) ==
  /\ LoopAlive /\ ui = "idle" /\ Calling(s) /\ Finished(inflight) /\ busy' = FALSE
  /\ worker' = [worker EXCEPT ![s] = "idle"] /\ UNCHANGED <<app, inflight, pending>>
(* The loop is gone: call_from_thread raises, the callback returns.        *)
CallRefused(s) ==
  /\ ~LoopAlive /\ Calling(s) /\ worker' = [worker EXCEPT ![s] = "idle"]
  /\ UNCHANGED <<app, ui, connection, tracked, dialogs, kind, outcome, queue, results>>

(* The worker of session s ends the operation at the head of its queue.    *)
Work(s) ==
  /\ queue[s] # <<>> /\ ~Calling(s) /\ queue' = [queue EXCEPT ![s] = Tail(@)]
  /\ LET f == Head(queue[s]) IN
       IF f = Close THEN worker' = [worker EXCEPT ![s] = "closed"] /\ UNCHANGED outcome
         ELSE /\ \E o \in Outcomes(Op(f)) : outcome' = [outcome EXCEPT ![f] = o]
              /\ worker' = [worker EXCEPT ![s] = IF inflight = f THEN "calling" ELSE "idle"]
  /\ UNCHANGED <<app, ui, connection, tracked, dialogs, kind, results>>

-----------------------------------------------------------------------------
(* app.run() returns and close_transport(wait=True) follows.               *)
LoopEnds ==
  /\ app = "stopping" /\ ui = "idle" /\ app' = "harvest"
  /\ UNCHANGED <<ui, connection, tracked, dialogs, kind, workers, results>>

NothingToHarvest == recorded \/ ~teardown
(* _harvest_inflight_result: waits for the future, records its result.     *)
Harvest(next) ==
  /\ app' = next
  /\ IF NothingToHarvest THEN UNCHANGED <<tracked, results>>
       ELSE /\ outcome[inflight] # "none" /\ UNCHANGED <<inflight, brokenRender>>
            /\ IF outcome[inflight] = "error"
                 THEN UNCHANGED <<busy, recorded, teardown, unknown, history>>
                 ELSE MarkRecorded /\ busy' = FALSE /\ Record(inflight)
  /\ UNCHANGED <<ui, connection, dialogs, kind, workers>>
FirstHarvest == app = "harvest" /\ Harvest("close")
SecondHarvest == app = "again" /\ Harvest("ended")

(* The session variable keeps its value until the wait for it is over.     *)
CloseTransport ==
  /\ app = "close" /\ app' = "closing" /\ CloseSession(session)
  /\ UNCHANGED <<ui, connection, tracked, dialogs, kind, outcome, worker, results>>
(* close(wait=True) returns when the worker has closed the transport.      *)
TransportClosed ==
  /\ app = "closing" /\ (session # 0 => worker[session] = "closed")
  /\ app' = "again" /\ session' = 0
  /\ UNCHANGED <<ui, verified, tracked, dialogs, kind, workers, results>>

-----------------------------------------------------------------------------
User ==
  \/ OpenForm \/ CancelForm \/ BeginConnect \/ Disconnect \/ EditOffline \/ EditLive
  \/ EditorEnds \/ EditorAccepts \/ ConfirmEnds \/ ConfirmWrite \/ Recheck \/ Quit
Loop == Track \/ FinishInline \/ \E s \in DOMAIN queue : Deliver(s)
Worker(s) == s \in DOMAIN queue /\ (Work(s) \/ CallRefused(s))
Workers == \E s \in DOMAIN queue : Worker(s)
Teardown == LoopEnds \/ FirstHarvest \/ CloseTransport \/ TransportClosed \/ SecondHarvest
Next == User \/ FatalError \/ Loop \/ Workers \/ Teardown

-----------------------------------------------------------------------------
Futures == 1..Len(kind)
TypeOK ==
  /\ app \in {"running", "stopping", "harvest", "close", "closing", "again", "ended"}
  /\ ui \in {"idle", "tracking", "finishing"} /\ screen \in {"main", "form", "editor", "confirm"}
  /\ {verified, busy, recorded, teardown, unknown, brokenRender} \subseteq BOOLEAN
  /\ {session, context, pending} \subseteq 0..Len(queue) /\ inflight \in 0..Len(kind)
  /\ Len(kind) <= MaxOps /\ DOMAIN outcome = Futures /\ DOMAIN history = Futures
  /\ \A f \in Futures : outcome[f] \in Outcomes(Op(f)) \union {"none"} /\ history[f] \in 0..2
  /\ DOMAIN worker = DOMAIN queue /\ \A s \in DOMAIN queue : worker[s] \in {"idle", "calling", "closed"}
  /\ (inflight # 0 /\ busy) => ~recorded

(* At no time do two operations of the browser exist, on one connection or *)
(* on two: the final identity, pre-read, write and readback of a write     *)
(* have the device to themselves.                                          *)
OneOperation ==
  \A f, g \in Futures : outcome[f] = "none" /\ outcome[g] = "none" => f = g

(* When the program ends, every write and recheck that returned a result   *)
(* is in the history, whether the app quit or died, and whenever the       *)
(* operation ended.                                                        *)
NothingLost ==
  app = "ended" => \A f \in Futures :
    Op(f) \in Writing /\ outcome[f] # "error" => outcome[f] # "none" /\ history[f] > 0

(* No result is recorded twice, by the callback and again by a harvest,    *)
(* unless the callback failed after it had recorded.                       *)
RecordedOnce == ~brokenRender => \A f \in Futures : history[f] <= 1

(* What the history shows is what was done.                                *)
HistoryTrue == NothingLost /\ RecordedOnce

(* A session the user can act on has had its identity verified.            *)
ActsOnVerified == Ready /\ session # 0 /\ ~busy => verified

(* A write goes to the session its preparation was read through.  (A step.)*)
WriteWherePrepared ==
  \A s \in DOMAIN queue :
    Len(kind') > Len(kind) /\ kind'[Len(kind')].op = "write" /\ queue'[s] # queue[s]
    => pending = s /\ verified

(* A session the browser lets go of is closed behind its last operation.   *)
DroppedCloses ==
  \A s \in DOMAIN queue : s # session =>
    worker[s] = "closed" \/ (queue[s] # <<>> /\ queue[s][Len(queue[s])] = Close)

(* There is one operation at most, and the one connection that is kept is  *)
(* the verified one.                                                       *)
OneVerifiedOperation == TypeOK /\ OneOperation /\ ActsOnVerified /\ DroppedCloses
=============================================================================
