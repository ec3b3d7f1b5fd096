------------------------- MODULE BrowserLiveProofs -------------------------
(***************************************************************************)
(* Proofs about the live browser for any number of connections and of      *)
(* operations: one operation at a time, on the verified connection, each   *)
(* result in the history, and a write only through the connection its      *)
(* preparation was read from.                                              *)
(***************************************************************************)
EXTENDS BrowserLive, SequenceTheorems, TLAPS

Last == Len(kind)
LoopDead == ~LoopAlive
Underway == busy \/ ui = "tracking"

(* The types, but for what the operations' outcomes may be.                *)
Kinds == {"connect", "identity", "context", "write", "recheck"}
KindRecords == [op : Kinds, via : 1..MaxSessions]
AnyOutcome == {"none", "ok", "mismatch", "unknown", "error"}
Flags ==
  /\ verified \in BOOLEAN /\ busy \in BOOLEAN /\ recorded \in BOOLEAN /\ teardown \in BOOLEAN
  /\ unknown \in BOOLEAN /\ brokenRender \in BOOLEAN
Types ==
  /\ app \in {"running", "stopping", "harvest", "close", "closing", "again", "ended"}
  /\ ui \in {"idle", "tracking", "finishing"} /\ screen \in {"main", "form", "editor", "confirm"}
  /\ session \in 0..Len(queue) /\ context \in 0..Len(queue) /\ pending \in 0..Len(queue)
  /\ inflight \in 0..Last /\ Last <= MaxOps
  /\ kind \in Seq(KindRecords)
  /\ outcome \in Seq(AnyOutcome) /\ Len(outcome) = Last
  /\ \A f \in 1..Last : outcome[f] \in Outcomes(Op(f)) \union {"none"}
  /\ history \in Seq(Nat) /\ Len(history) = Last
  /\ worker \in Seq({"idle", "calling", "closed"}) /\ Len(worker) = Len(queue)
  /\ queue \in Seq(Seq(Nat)) /\ Len(queue) <= MaxSessions

(* Only the operation submitted last may be unfinished, and then the       *)
(* browser waits for it.                                                   *)
LastOnly ==
  /\ \A f \in 1..Last : outcome[f] = "none" => f = Last
  /\ busy => inflight = Last /\ Last > 0
  /\ ui = "tracking" => ~busy /\ Last > 0 /\ inflight # Last
  /\ Last > 0 /\ outcome[Last] = "none" => Underway
  /\ Last > 0 /\ Underway /\ Op(Last) = "connect" => Last < MaxOps
  /\ ui = "finishing" => busy /\ outcome[Last] # "none" /\ \A s \in 1..Len(queue) : ~Calling(s)
  /\ LoopDead => ui = "idle"

(* A queue holds the unfinished operation on its connection, if any, and   *)
(* the close behind it, if the browser has let go of the connection.       *)
QueueShape(s) ==
  \/ queue[s] = <<>>
  \/ queue[s] = <<Close>>
  \/ /\ Last > 0 /\ outcome[Last] = "none" /\ kind[Last].via = s
     /\ queue[s] \in {<<Last>>, <<Last, Close>>}
Kept(s) == worker[s] # "closed" /\ (queue[s] = <<>> \/ (Last > 0 /\ queue[s] = <<Last>>))
Dropped(s) ==
  \/ worker[s] = "closed" /\ queue[s] = <<>>
  \/ worker[s] # "closed" /\ queue[s] \in {<<Close>>, <<Last, Close>>}
Queues ==
  /\ \A s \in 1..Len(queue) : QueueShape(s)
  /\ \A s \in 1..Len(queue) : s # session => Dropped(s)
  /\ session # 0 /\ app \notin {"closing", "again", "ended"} => Kept(session)
  /\ session # 0 /\ app \in {"closing", "again", "ended"} => Dropped(session)
  /\ Last > 0 /\ outcome[Last] = "none" =>
       kind[Last].via \in 1..Len(queue) /\ queue[kind[Last].via] # <<>>
                                        /\ queue[kind[Last].via] # <<Close>>

(* A worker that calls back does so for the tracked operation.             *)
Calls ==
  /\ \A s \in 1..Len(queue) : Calling(s) => Last > 0 /\ kind[Last].via = s
  /\ LoopAlive => \A s \in 1..Len(queue) : Calling(s) => busy /\ outcome[Last] # "none"
  /\ LoopAlive /\ Underway => session # 0 /\ kind[Last].via = session

(* The connection at hand is verified, or being verified.                  *)
Verifies ==
  /\ LoopAlive /\ session # 0 /\ ~verified => Underway /\ Op(Last) \in {"connect", "identity"}
  /\ LoopAlive /\ screen # "main" => ui = "idle" /\ ~busy
  /\ app = "running" /\ screen = "form" => session = 0
  /\ app = "running" => context \in {0, session}
  /\ app = "running" /\ Underway /\ Op(Last) \in {"connect", "identity"} => context = 0
  /\ app = "running" /\ pending # 0 => screen = "confirm" /\ pending = session

(* Each result is recorded, once unless a callback failed after it had     *)
(* recorded.                                                               *)
Results ==
  /\ \A f \in 1..Last : history[f] \in 0..2 /\ (~brokenRender => history[f] <= 1)
  /\ ~recorded => inflight \in 1..Last /\ history[inflight] <= 1
  /\ ~recorded /\ ~brokenRender => history[inflight] = 0
  /\ busy => ~recorded /\ history[inflight] = 0 /\ (teardown <=> Op(inflight) \in Writing)
  /\ ui = "tracking" => history[Last] = 0
  /\ \A f \in 1..Last : Op(f) \in Writing /\ outcome[f] \notin {"none", "error"} =>
       history[f] > 0 \/ (f = Last /\ Underway)
  /\ app \in {"close", "closing", "again", "ended"} =>
       (busy => Op(Last) \notin Writing \/ outcome[Last] = "error")

BrowserInv == Flags /\ Types /\ LastOnly /\ Queues /\ Calls /\ Verifies /\ Results
-----------------------------------------------------------------------------
(* What is submitted is added behind everything there is.                  *)
Added(k, s) ==
  /\ kind' \in Seq(KindRecords) /\ Last' = Last + 1
  /\ kind'[Last + 1] = [op |-> k, via |-> s] /\ \A f \in 1..Last : kind'[f] = kind[f]
  /\ outcome' \in Seq(AnyOutcome) /\ Len(outcome') = Last + 1
  /\ outcome'[Last + 1] = "none" /\ \A f \in 1..Last : outcome'[f] = outcome[f]
  /\ history' \in Seq(Nat) /\ Len(history') = Last + 1
  /\ history'[Last + 1] = 0 /\ \A f \in 1..Last : history'[f] = history[f]

LEMMA AddedFacts ==
  ASSUME Types, NEW s \in 1..MaxSessions, NEW k \in Kinds,
         kind' = Append(kind, [op |-> k, via |-> s]), outcome' = Append(outcome, "none"),
         history' = Append(history, 0)
  PROVE  Added(k, s)
<1>1. [op |-> k, via |-> s] \in KindRecords /\ "none" \in AnyOutcome /\ 0 \in Nat
  BY DEF KindRecords, AnyOutcome
<1>2. kind \in Seq(KindRecords) /\ outcome \in Seq(AnyOutcome) /\ history \in Seq(Nat)
      /\ Len(outcome) = Len(kind) /\ Len(history) = Len(kind)
  BY DEF Types, Last
<1>3. /\ kind' \in Seq(KindRecords) /\ Len(kind') = Last + 1
      /\ kind'[Last + 1] = [op |-> k, via |-> s] /\ \A f \in 1..Last : kind'[f] = kind[f]
  BY <1>1, <1>2, AppendProperties DEF Last
<1>4. /\ outcome' \in Seq(AnyOutcome) /\ Len(outcome') = Last + 1
      /\ outcome'[Last + 1] = "none" /\ \A f \in 1..Last : outcome'[f] = outcome[f]
  BY <1>1, <1>2, AppendProperties DEF Last
<1>5. /\ history' \in Seq(Nat) /\ Len(history') = Last + 1
      /\ history'[Last + 1] = 0 /\ \A f \in 1..Last : history'[f] = history[f]
  BY <1>1, <1>2, AppendProperties DEF Last
<1> QED
  BY <1>3, <1>4, <1>5 DEF Added, Last

(* A queue is changed at one connection.                                   *)
Requeued(s, q) ==
  /\ queue' \in Seq(Seq(Nat)) /\ Len(queue') = Len(queue)
  /\ queue'[s] = q /\ \A r \in 1..Len(queue) : r # s => queue'[r] = queue[r]

LEMMA RequeuedFacts ==
  ASSUME Types, NEW s \in 1..Len(queue), NEW q \in Seq(Nat), queue' = [queue EXCEPT ![s] = q]
  PROVE  Requeued(s, q)
BY ExceptSeq DEF Types, Requeued

(* The shapes of a queue, and what its worker or its owner makes of them.  *)
LEMMA Shapes ==
  ASSUME NEW n \in Nat \ {0}
  PROVE  /\ Head(<<Close>>) = Close /\ Tail(<<Close>>) = <<>> /\ <<Close>> # <<>>
         /\ Head(<<n>>) = n /\ Tail(<<n>>) = <<>> /\ <<n>> # <<>>
         /\ Head(<<n, Close>>) = n /\ Tail(<<n, Close>>) = <<Close>> /\ <<n, Close>> # <<>>
         /\ Append(<<>>, Close) = <<Close>> /\ Append(<<n>>, Close) = <<n, Close>>
         /\ Append(<<>>, n) = <<n>> /\ <<n>> # <<Close>> /\ <<n, Close>> # <<Close>>
         /\ <<n, Close>> # <<n>>
         /\ {<<>>, <<Close>>, <<n>>, <<n, Close>>} \subseteq Seq(Nat)
<1>1. Close \in Nat /\ n # Close
  BY DEF Close
<1>2. /\ <<>> \in Seq(Nat) /\ <<Close>> \in Seq(Nat) /\ <<n>> \in Seq(Nat)
      /\ <<n, Close>> \in Seq(Nat)
  BY <1>1
<1>3. /\ Head(<<Close>>) = Close /\ Head(<<n>>) = n /\ Head(<<n, Close>>) = n
      /\ Tail(<<Close>>) = <<>> /\ Tail(<<n>>) = <<>>
  BY <1>1
<1>4. Tail(<<n, Close>>) = <<Close>>
  BY <1>1
<1>5. /\ <<Close>> # <<>> /\ <<n>> # <<>> /\ <<n, Close>> # <<>>
      /\ <<n>> # <<Close>> /\ <<n, Close>> # <<Close>> /\ <<n, Close>> # <<n>>
  BY <1>1
<1>6. Append(<<>>, Close) = <<Close>> /\ Append(<<>>, n) = <<n>>
  BY <1>1
<1>7. Append(<<n>>, Close) = <<n, Close>>
  <2>1. /\ Append(<<n>>, Close) \in Seq(Nat) /\ Len(<<n>>) = 1
        /\ Len(Append(<<n>>, Close)) = Len(<<n>>) + 1
        /\ \A i \in 1..Len(<<n>>) : Append(<<n>>, Close)[i] = <<n>>[i]
        /\ Append(<<n>>, Close)[Len(<<n>>) + 1] = Close
    BY <1>1, <1>2, AppendProperties
  <2>2. Len(<<n, Close>>) = 2 /\ <<n, Close>>[1] = n /\ <<n, Close>>[2] = Close /\ <<n>>[1] = n
    OBVIOUS
  <2> DEFINE a == Append(<<n>>, Close)
             b == <<n, Close>>
             c == <<n>>
  <2>3. /\ a \in Seq(Nat) /\ b \in Seq(Nat) /\ Len(a) = Len(b)
        /\ \A i \in 1..Len(a) : a[i] = b[i]
    <3>1. Len(a) = 2 /\ a[1] = c[1] /\ a[2] = Close
      BY <2>1
    <3>2. Len(b) = 2 /\ b[1] = n /\ b[2] = Close /\ c[1] = n
      BY <2>2
    <3>3. a \in Seq(Nat) /\ b \in Seq(Nat)
      BY <1>2, <2>1
    <3> HIDE DEF a, b, c
    <3> QED
      BY <3>1, <3>2, <3>3
  <2> HIDE DEF a, b
  <2>4. a = b
    BY <2>3, SeqEqual
  <2> QED
    BY <2>4 DEF a, b
<1> QED
  BY <1>2, <1>3, <1>4, <1>5, <1>6, <1>7

-----------------------------------------------------------------------------
(* The dialogs, and the ends of the app: no operation and no connection is *)
(* touched.                                                                *)
Dialogs ==
  \/ OpenForm \/ CancelForm \/ EditOffline \/ EditorEnds \/ EditorAccepts \/ ConfirmEnds
  \/ FatalError \/ LoopEnds

LEMMA DialogsStep ==
  ASSUME BrowserInv, Dialogs
  PROVE  BrowserInv'
<1> USE DEF BrowserInv
<1>0. UNCHANGED <<connection, tracked, kind, workers, results, ui>>
  BY DEF Dialogs, OpenForm, CancelForm, EditOffline, EditorEnds, EditorAccepts, ConfirmEnds,
         FatalError, LoopEnds
<1>1. /\ UNCHANGED <<session, verified, busy, inflight, recorded, teardown, kind, outcome>>
      /\ UNCHANGED <<queue, worker, unknown, history, brokenRender, ui>>
  BY <1>0 DEF connection, tracked, workers, results
<1>2. /\ app' \in {"running", "stopping", "harvest"} /\ (app' = app \/ app' # "running")
      /\ screen' \in {"main", "form", "editor", "confirm"}
      /\ LoopAlive /\ (app' = "harvest" => ui = "idle")
  BY DEF Dialogs, OpenForm, CancelForm, EditOffline, EditorEnds, EditorAccepts, ConfirmEnds,
         FatalError, LoopEnds, MayStart, Ready, LoopAlive, Types, dialogs
<1>3. Flags'
  BY <1>1 DEF Flags
<1>4. Types'
  <2>1. context' \in 0..Len(queue) /\ pending' \in 0..Len(queue)
    BY DEF Dialogs, OpenForm, CancelForm, EditOffline, EditorEnds, EditorAccepts, ConfirmEnds,
         FatalError, LoopEnds, MayStart, Ready, LoopAlive, Types, dialogs
  <2> QED
    BY <1>1, <1>2, <2>1 DEF Types, Last, Op
<1>5. LastOnly'
  BY <1>1, <1>2 DEF LastOnly, Last, Underway, Op, Calling, LoopDead, LoopAlive, Types
<1>6. Queues'
  BY <1>1, <1>2 DEF Queues, Last, QueueShape, Kept, Dropped, LoopAlive
<1>7. Calls'
  BY <1>1, <1>2 DEF Calls, Last, Underway, Calling, LoopAlive
<1>8. Verifies'
  <2>1. CASE OpenForm
    BY <1>1, <2>1 DEF Verifies, Last, Underway, Op, LoopAlive, MayStart, Ready, dialogs,
      OpenForm, Types, Flags
  <2>2. CASE CancelForm
    BY <1>1, <2>2 DEF Verifies, Last, Underway, Op, LoopAlive, MayStart, Ready, dialogs,
      CancelForm, Types, Flags
  <2>3. CASE EditOffline
    BY <1>1, <2>3 DEF Verifies, Last, Underway, Op, LoopAlive, MayStart, Ready, dialogs,
      EditOffline, Types, Flags, Calls
  <2>4. CASE EditorEnds
    BY <1>1, <2>4 DEF Verifies, Last, Underway, Op, LoopAlive, MayStart, Ready, dialogs,
      EditorEnds, Types, Flags
  <2>5. CASE EditorAccepts
    BY <1>1, <2>5 DEF Verifies, Last, Underway, Op, LoopAlive, MayStart, Ready, dialogs,
      EditorAccepts, Types, Flags
  <2>6. CASE ConfirmEnds
    BY <1>1, <2>6 DEF Verifies, Last, Underway, Op, LoopAlive, MayStart, Ready, dialogs,
      ConfirmEnds, Types, Flags
  <2>7. CASE FatalError
    BY <1>1, <2>7 DEF Verifies, Last, Underway, Op, LoopAlive, MayStart, Ready, dialogs,
      FatalError, Types, Flags
  <2>8. CASE LoopEnds
    BY <1>1, <2>8 DEF Verifies, Last, Underway, Op, LoopAlive, MayStart, Ready, dialogs,
      LoopEnds, Types, Flags
  <2> QED
    BY <2>1, <2>2, <2>3, <2>4, <2>5, <2>6, <2>7, <2>8 DEF Dialogs
<1>9. Results'
  BY <1>1, <1>2 DEF Results, Last, Underway, Op, LoopAlive
<1> QED
  BY <1>3, <1>4, <1>5, <1>6, <1>7, <1>8, <1>9

(* With no operation unfinished, a worker has at most its close to do, and *)
(* the worker of the connection at hand has nothing to do.                 *)
LEMMA NothingUnfinished ==
  ASSUME BrowserInv, Last > 0 => outcome[Last] # "none"
  PROVE  /\ \A f \in 1..Last : outcome[f] # "none"
         /\ \A s \in 1..Len(queue) : queue[s] \in {<<>>, <<Close>>}
         /\ LoopAlive /\ session # 0 => queue[session] = <<>> /\ worker[session] # "closed"
<1>1. \A f \in 1..Last : outcome[f] # "none"
  BY DEF BrowserInv, Types, LastOnly
<1>2. \A s \in 1..Len(queue) : queue[s] \in {<<>>, <<Close>>}
  BY DEF BrowserInv, Types, LastOnly, Queues, QueueShape
<1>3. ASSUME LoopAlive, session # 0
      PROVE  queue[session] = <<>> /\ worker[session] # "closed"
  <2>1. Kept(session) /\ QueueShape(session)
    BY <1>3 DEF BrowserInv, Types, Queues, LoopAlive
  <2>2. ASSUME Last > 0 PROVE <<Last>> # <<Close>> /\ <<Close>> # <<>>
    BY <2>2 DEF BrowserInv, Types, Close
  <2> QED
    BY <2>1, <2>2 DEF Kept, QueueShape
<1> QED
  BY <1>1, <1>2, <1>3

(* So it is whenever an operation is submitted.                            *)
LEMMA NothingUnderway ==
  ASSUME BrowserInv, ~Underway
  PROVE  /\ \A f \in 1..Last : outcome[f] # "none"
         /\ \A s \in 1..Len(queue) : queue[s] \in {<<>>, <<Close>>}
         /\ LoopAlive /\ session # 0 => queue[session] = <<>> /\ worker[session] # "closed"
<1>1. Last > 0 => outcome[Last] # "none"
  BY DEF BrowserInv, LastOnly
<1> QED
  BY <1>1, NothingUnfinished

UserSubmits == EditLive \/ ConfirmWrite \/ Recheck

LEMMA UserSubmitsStep ==
  ASSUME BrowserConstants, BrowserInv, UserSubmits
  PROVE  BrowserInv'
<1>1. /\ app = "running" /\ ui = "idle" /\ session # 0 /\ Last + 1 <= MaxOps
      /\ UNCHANGED <<app, session, verified, busy, inflight, recorded, teardown, context>>
      /\ UNCHANGED <<worker, unknown, brokenRender>> /\ ui' = "tracking"
      /\ pending' \in {pending, 0} /\ screen' = "main" /\ ~busy
      /\ screen = "confirm" => pending' = 0
  BY DEF UserSubmits, EditLive, ConfirmWrite, Recheck, MayStart, Ready, Submit, connection, tracked,
         dialogs, Room, Last, BrowserInv, Verifies, LoopAlive
<1>2. PICK k \in {"context", "write", "recheck"} : Submit(session, k)
  BY DEF UserSubmits, EditLive, ConfirmWrite, Recheck
<1>3. ~Underway /\ LoopAlive /\ session \in 1..Len(queue) /\ session \in 1..MaxSessions
  BY <1>1 DEF Underway, LoopAlive, BrowserInv, Types, BrowserConstants
<1>4. /\ \A f \in 1..Last : outcome[f] # "none"
      /\ \A s \in 1..Len(queue) : queue[s] \in {<<>>, <<Close>>}
      /\ queue[session] = <<>> /\ worker[session] # "closed"
  BY <1>1, <1>3, NothingUnderway
<1>5. Added(k, session)
  BY <1>2, <1>3, AddedFacts DEF Submit, BrowserInv, Kinds
<1>6. Requeued(session, <<Last + 1>>)
  <2>1. <<Last + 1>> \in Seq(Nat) /\ Append(queue[session], Last + 1) = <<Last + 1>>
    BY <1>4, Shapes DEF BrowserInv, Types
  <2> QED
    BY <1>2, <1>3, <2>1, RequeuedFacts DEF Submit, BrowserInv, Last
<1>7. Flags'
  BY <1>1 DEF Flags, BrowserInv
<1>8. Types'
  <2>1. session \in 0..Len(queue) /\ context \in 0..Len(queue) /\ pending \in 0..Len(queue)
        /\ inflight \in 0..Last /\ Last \in Nat /\ Len(queue) \in Nat
    BY DEF BrowserInv, Types, Last
  <2>2. /\ session' \in 0..Len(queue') /\ context' \in 0..Len(queue') /\ pending' \in 0..Len(queue')
        /\ inflight' \in 0..Last' /\ Last' <= MaxOps
    BY <1>1, <1>5, <1>6, <2>1 DEF Added, Requeued
  <2>3. \A f \in 1..Last' : outcome'[f] \in Outcomes(kind'[f].op) \union {"none"}
    <3>1. \A f \in 1..Last : outcome[f] \in Outcomes(kind[f].op) \union {"none"}
      BY DEF BrowserInv, Types, Op
    <3>2. \A f \in 1..Last' : f = Last + 1 \/ f \in 1..Last
      BY <1>5, <2>1 DEF Added
    <3> QED
      BY <1>5, <3>1, <3>2 DEF Added
  <2>4. /\ worker' \in Seq({"idle", "calling", "closed"}) /\ Len(worker') = Len(queue')
        /\ queue' \in Seq(Seq(Nat)) /\ Len(queue') <= MaxSessions
    BY <1>1, <1>6 DEF BrowserInv, Types, Requeued
  <2>5. /\ kind' \in Seq(KindRecords) /\ outcome' \in Seq(AnyOutcome) /\ Len(outcome') = Last'
        /\ history' \in Seq(Nat) /\ Len(history') = Last'
    BY <1>5 DEF Added
  <2> QED
    BY <1>1, <2>2, <2>3, <2>4, <2>5 DEF Types, Op
<1>9. /\ Last \in Nat /\ Last' = Last + 1 /\ Len(queue') = Len(queue)
      /\ kind'[Last'].op \in {"context", "write", "recheck"} /\ kind'[Last'].via = session
      /\ outcome'[Last'] = "none" /\ history'[Last'] = 0
      /\ \A f \in 1..Last : kind'[f] = kind[f] /\ outcome'[f] = outcome[f]
                            /\ history'[f] = history[f]
      /\ \A f \in 1..Last' : f = Last' \/ f \in 1..Last
      /\ queue'[session] = <<Last'>>
      /\ \A r \in 1..Len(queue) : r # session => queue'[r] = queue[r]
      /\ inflight \in 0..Last /\ Last' \in 1..Last' /\ Last' # inflight
  <2>1. Last \in Nat /\ inflight \in 0..Last
    BY DEF BrowserInv, Types, Last
  <2>2. [op |-> k, via |-> session].op \in {"context", "write", "recheck"}
        /\ [op |-> k, via |-> session].via = session
    OBVIOUS
  <2> QED
    BY <1>5, <1>6, <2>1, <2>2 DEF Added, Requeued
<1>10. LastOnly'
  BY <1>1, <1>3, <1>4, <1>9
  DEF BrowserInv, LastOnly, Op, LoopDead, LoopAlive, Underway
<1>11. Queues'
  <2>1. /\ session \in 1..Len(queue') /\ \A s \in 1..Len(queue) : s # session => Dropped(s)
        /\ app' = "running"
    BY <1>1, <1>3, <1>9 DEF BrowserInv, Queues
  <2>2. \A s \in 1..Len(queue') : s # session => QueueShape(s)' /\ Dropped(s)'
    BY <1>1, <1>4, <1>9, <2>1 DEF QueueShape, Dropped
  <2>3. QueueShape(session)' /\ Kept(session)'
    BY <1>1, <1>4, <1>9 DEF QueueShape, Kept
  <2>4. <<Last'>> # <<>> /\ <<Last'>> # <<Close>>
    BY <1>9, Shapes
  <2> QED
    BY <1>1, <1>9, <2>1, <2>2, <2>3, <2>4 DEF Queues
<1>12. Calls'
  BY <1>1, <1>3, <1>9 DEF BrowserInv, Calls, Calling, Underway, LoopAlive
<1>13. Verifies'
  BY <1>1, <1>3, <1>9 DEF BrowserInv, Verifies, Underway, LoopAlive, Op
<1>14. Results'
  BY <1>1, <1>3, <1>9 DEF BrowserInv, Results, Underway, LoopAlive, Op
<1> QED
  BY <1>7, <1>8, <1>10, <1>11, <1>12, <1>13, <1>14 DEF BrowserInv

(* A new connection has its own queue, with the connect in it.             *)
LEMMA BeginConnectStep ==
  ASSUME BrowserConstants, BrowserInv, BeginConnect
  PROVE  BrowserInv'
<1> DEFINE new == Len(queue) + 1
<1>1. /\ app = "running" /\ ui = "idle" /\ screen = "form" /\ session' = new /\ ~busy
      /\ new <= MaxSessions /\ Last + 2 <= MaxOps
      /\ UNCHANGED <<app, verified, busy, inflight, recorded, teardown, context, pending>>
      /\ UNCHANGED <<unknown, brokenRender>> /\ ui' = "tracking" /\ screen' = "main"
  BY DEF BeginConnect, Ready, tracked, Room, Last, BrowserInv, Types, BrowserConstants
<1>2. /\ session = 0 /\ context = 0 /\ pending = 0
  BY <1>1 DEF BrowserInv, Verifies
<1>3. ~Underway /\ LoopAlive
  BY <1>1 DEF Underway, LoopAlive
<1>4. /\ \A f \in 1..Last : outcome[f] # "none"
      /\ \A s \in 1..Len(queue) : queue[s] \in {<<>>, <<Close>>}
  BY <1>3, NothingUnderway
<1>5. Added("connect", new)
  <2>1. new \in 1..MaxSessions
    BY <1>1 DEF BrowserConstants, BrowserInv, Types
  <2>2. /\ kind' = Append(kind, [op |-> "connect", via |-> new])
        /\ outcome' = Append(outcome, "none") /\ history' = Append(history, 0)
    BY <1>1 DEF BeginConnect
  <2> QED
    BY <2>1, <2>2, AddedFacts DEF BrowserInv, Kinds
<1>6. /\ Last \in Nat /\ inflight \in 0..Last /\ Len(queue) \in Nat /\ Last + 1 = Len(kind) + 1
  BY DEF BrowserInv, Types, Last
<1>7. /\ queue' \in Seq(Seq(Nat)) /\ Len(queue') = new /\ queue'[new] = <<Last + 1>>
      /\ \A s \in 1..Len(queue) : queue'[s] = queue[s]
  <2>1. queue' = Append(queue, <<Last + 1>>)
    BY DEF BeginConnect, Last
  <2>2. queue \in Seq(Seq(Nat)) /\ <<Last + 1>> \in Seq(Nat)
    BY <1>6 DEF BrowserInv, Types
  <2> QED
    BY <2>1, <2>2, AppendProperties
<1>8. /\ worker' \in Seq({"idle", "calling", "closed"}) /\ Len(worker') = new
      /\ worker'[new] = "idle" /\ \A s \in 1..Len(queue) : worker'[s] = worker[s]
  <2>1. worker' = Append(worker, "idle") /\ worker \in Seq({"idle", "calling", "closed"})
        /\ Len(worker) = Len(queue) /\ "idle" \in {"idle", "calling", "closed"}
    BY DEF BeginConnect, BrowserInv, Types
  <2> QED
    BY <2>1, AppendProperties
<1>9. /\ Last' = Last + 1 /\ Last' \in Nat /\ new \in Nat /\ new # 0
      /\ kind'[Last'].op = "connect" /\ kind'[Last'].via = new
      /\ outcome'[Last'] = "none" /\ history'[Last'] = 0
      /\ \A f \in 1..Last : kind'[f] = kind[f] /\ outcome'[f] = outcome[f]
                            /\ history'[f] = history[f]
      /\ \A f \in 1..Last' : f = Last' \/ f \in 1..Last
      /\ Last' \in 1..Last' /\ Last' # inflight /\ Last' < MaxOps
      /\ new \in 1..new /\ \A s \in 1..new : s = new \/ (s # new /\ s \in 1..Len(queue))
  <2>1. [op |-> "connect", via |-> new].op = "connect" /\ [op |-> "connect", via |-> new].via = new
    OBVIOUS
  <2> QED
    BY <1>1, <1>5, <1>6, <2>1 DEF Added, BrowserConstants
<1>10. /\ queue'[new] = <<Last'>> /\ Len(queue') = new
  BY <1>7, <1>9
<1>11. Flags'
  BY <1>1 DEF Flags, BrowserInv
<1>12. Types'
  <2>1. /\ session' \in 0..Len(queue') /\ context' \in 0..Len(queue') /\ pending' \in 0..Len(queue')
        /\ inflight' \in 0..Last' /\ Last' <= MaxOps
    BY <1>1, <1>2, <1>6, <1>9, <1>10 DEF BrowserConstants
  <2>2. \A f \in 1..Last' : outcome'[f] \in Outcomes(kind'[f].op) \union {"none"}
    <3>1. \A f \in 1..Last : outcome[f] \in Outcomes(kind[f].op) \union {"none"}
      BY DEF BrowserInv, Types, Op
    <3> QED
      BY <1>9, <3>1
  <2> QED
    BY <1>1, <1>5, <1>7, <1>8, <2>1, <2>2 DEF Types, Op, Added
<1> HIDE DEF new
<1>13. LastOnly'
  BY <1>1, <1>3, <1>4, <1>9
  DEF BrowserInv, LastOnly, Op, LoopDead, LoopAlive, Underway
<1>14. Queues'
  <2>1. \A s \in 1..Len(queue) : Dropped(s)
    BY <1>2, <1>6 DEF BrowserInv, Queues
  <2>2. \A s \in 1..Len(queue) : QueueShape(s)' /\ Dropped(s)'
    <3>1. <<Last, Close>> # <<>>
      OBVIOUS
    <3> QED
      BY <1>4, <1>7, <1>8, <2>1, <3>1 DEF QueueShape, Dropped
  <2>3. ASSUME NEW s, s = new PROVE QueueShape(s)' /\ Kept(s)'
    BY <2>3, <1>6, <1>8, <1>9, <1>10 DEF QueueShape, Kept
  <2>4. <<Last'>> # <<>> /\ <<Last'>> # <<Close>>
    BY <1>6, <1>9, Shapes
  <2> QED
    <3>1. \A s \in 1..Len(queue') : QueueShape(s)' /\ (s # session' => Dropped(s)')
      BY <1>1, <1>9, <1>10, <2>2, <2>3
    <3>2. kind'[Last'].via = new /\ new \in 1..Len(queue') /\ queue'[new] # <<>>
          /\ queue'[new] # <<Close>>
      BY <1>9, <1>10, <2>4
    <3> QED
      BY <1>1, <2>3, <3>1, <3>2 DEF Queues
<1>15. Calls'
  BY <1>1, <1>3, <1>8, <1>9, <1>10 DEF BrowserInv, Calls, Calling, Underway, LoopAlive
<1>16. Verifies'
  BY <1>1, <1>2, <1>3, <1>9 DEF BrowserInv, Verifies, Underway, LoopAlive, Op
<1>17. Results'
  BY <1>1, <1>3, <1>6, <1>9 DEF BrowserInv, Results, Underway, LoopAlive, Op
<1> QED
  BY <1>11, <1>12, <1>13, <1>14, <1>15, <1>16, <1>17 DEF BrowserInv

(* The browser lets go of its connection between two operations.           *)
LEMMA LetGoStep ==
  ASSUME BrowserInv, Disconnect \/ Quit
  PROVE  BrowserInv'
<1>1. /\ app = "running" /\ app' \in {"running", "stopping"} /\ ui = "idle" /\ ~busy
      /\ session' = 0 /\ context' \in {0, context} /\ (app' = "running" => context' = 0)
      /\ verified' \in {verified, FALSE} /\ CloseSession(session)
      /\ UNCHANGED <<ui, busy, inflight, recorded, teardown, screen, pending, kind, outcome>>
      /\ UNCHANGED <<worker, unknown, history, brokenRender>>
      /\ (app' = "running" => screen = "main")
  BY DEF Disconnect, Quit, MayStart, Ready, tracked, dialogs, results, BrowserInv, Types
<1>2. ~Underway /\ LoopAlive
  BY <1>1 DEF Underway, LoopAlive
<1>3. /\ \A f \in 1..Last : outcome[f] # "none"
      /\ \A s \in 1..Len(queue) : queue[s] \in {<<>>, <<Close>>}
      /\ session # 0 => queue[session] = <<>> /\ worker[session] # "closed"
  BY <1>2, NothingUnderway
<1>4. Last' = Last /\ Last \in Nat /\ Len(queue) \in Nat /\ session \in 0..Len(queue)
  BY <1>1 DEF Last, BrowserInv, Types
<1>5. /\ queue' \in Seq(Seq(Nat)) /\ Len(queue') = Len(queue)
      /\ \A s \in 1..Len(queue) : s # session => queue'[s] = queue[s]
      /\ session # 0 => queue'[session] = <<Close>>
  <2>1. CASE session = 0
    BY <1>1, <2>1 DEF CloseSession, BrowserInv, Types
  <2>2. CASE session # 0
    <3>1. session \in 1..Len(queue)
      BY <1>4, <2>2
    <3>2. Append(queue[session], Close) = <<Close>> /\ <<Close>> \in Seq(Nat)
      <4>1. Append(<<>>, Close) = <<Close>> /\ <<Close>> \in Seq(Nat)
        BY DEF Close
      <4> QED
        BY <1>3, <2>2, <4>1
    <3>3. Requeued(session, <<Close>>)
      BY <1>1, <2>2, <3>1, <3>2, RequeuedFacts DEF CloseSession, BrowserInv
    <3> QED
      BY <3>3 DEF Requeued
  <2> QED
    BY <2>1, <2>2
<1>6. Flags'
  BY <1>1 DEF Flags, BrowserInv
<1>7. Types'
  BY <1>1, <1>4, <1>5 DEF BrowserInv, Types, Op
<1>8. LastOnly'
  BY <1>1, <1>2, <1>4 DEF BrowserInv, LastOnly, Op, LoopDead, LoopAlive, Underway
<1>9. Queues'
  <2>1. \A s \in 1..Len(queue) : s # session => Dropped(s)
    BY DEF BrowserInv, Queues
  <2>2. \A s \in 1..Len(queue) : QueueShape(s)' /\ Dropped(s)'
    <3>1. ASSUME NEW s \in 1..Len(queue), s # session
          PROVE  QueueShape(s)' /\ Dropped(s)'
      BY <1>1, <1>3, <1>4, <1>5, <2>1, <3>1 DEF QueueShape, Dropped
    <3>2. ASSUME NEW s \in 1..Len(queue), s = session
          PROVE  QueueShape(s)' /\ Dropped(s)'
      <4>1. queue'[s] = <<Close>> /\ worker'[s] # "closed"
        BY <1>1, <1>3, <1>4, <1>5, <3>2
      <4> QED
        BY <4>1 DEF QueueShape, Dropped
    <3> QED
      BY <3>1, <3>2
  <2> QED
    BY <1>1, <1>3, <1>4, <1>5, <2>2 DEF Queues
<1>10. Calls'
  BY <1>1, <1>2, <1>4, <1>5 DEF BrowserInv, Calls, Calling, Underway, LoopAlive
<1>11. Verifies'
  BY <1>1, <1>2, <1>4 DEF BrowserInv, Verifies, Underway, LoopAlive, Op
<1>12. Results'
  BY <1>1, <1>2, <1>4 DEF BrowserInv, Results, Underway, LoopAlive, Op
<1> QED
  BY <1>6, <1>7, <1>8, <1>9, <1>10, <1>11, <1>12 DEF BrowserInv

(* The future submitted last is tracked.                                   *)
LEMMA TrackStep ==
  ASSUME BrowserInv, Track
  PROVE  BrowserInv'
<1>1. /\ ui = "tracking" /\ ~busy /\ Last > 0 /\ Last \in Nat /\ LoopAlive /\ inflight # Last
      /\ session # 0 /\ kind[Last].via = session
  BY DEF Track, BrowserInv, Types, LastOnly, LoopDead, Last, Calls, Underway
<1>2. /\ busy' = TRUE /\ inflight' = Last /\ recorded' = FALSE
      /\ (teardown' <=> Op(Last) \in Writing) /\ teardown' \in BOOLEAN
      /\ ui' \in {"idle", "finishing"} /\ (ui' = "finishing" => outcome[Last] # "none")
  <2>1. busy' = TRUE /\ inflight' = Last /\ recorded' = FALSE /\ ui' = AfterTracking(Last)
        /\ teardown' = (Op(Last) \in Writing)
    BY <1>1 DEF Track, KeepsResult, Last
  <2>2. (teardown' <=> Op(Last) \in Writing) /\ teardown' \in BOOLEAN
    <3>1. CASE Op(Last) \in Writing
      BY <2>1, <3>1
    <3>2. CASE Op(Last) \notin Writing
      <4>1. (Op(Last) \in Writing) = FALSE
        BY <3>2
      <4>2. teardown' = FALSE
        BY <2>1, <4>1
      <4> QED
        BY <3>2, <4>2
    <3> QED
      BY <3>1, <3>2
  <2> QED
    BY <2>1, <2>2 DEF AfterTracking
<1>3. /\ UNCHANGED <<app, session, verified, screen, context, pending, kind, outcome, queue>>
      /\ UNCHANGED <<worker, unknown, history, brokenRender>> /\ Last' = Last
  BY DEF Track, connection, dialogs, workers, results, Last
<1>4. Flags'
  BY <1>2, <1>3 DEF Flags, BrowserInv
<1>5. Types'
  BY <1>1, <1>2, <1>3 DEF BrowserInv, Types, Op
<1>6. LastOnly'
  BY <1>1, <1>2, <1>3 DEF BrowserInv, LastOnly, Underway, LoopDead, LoopAlive, Op, Calls, Calling
<1>7. Queues'
  BY <1>3 DEF BrowserInv, Queues, QueueShape, Kept, Dropped
<1>8. Calls'
  BY <1>1, <1>2, <1>3 DEF BrowserInv, Calls, Calling, Underway, LoopAlive
<1>9. Verifies'
  BY <1>1, <1>2, <1>3 DEF BrowserInv, Verifies, Underway, LoopAlive, Op
<1>10. Results'
  BY <1>1, <1>2, <1>3 DEF BrowserInv, Results, Underway, LoopAlive, Op
<1> QED
  BY <1>4, <1>5, <1>6, <1>7, <1>8, <1>9, <1>10 DEF BrowserInv

(* A worker that calls the loop after its end comes back with nothing.     *)
LEMMA CallRefusedStep ==
  ASSUME BrowserInv, NEW s \in 1..Len(queue), CallRefused(s)
  PROVE  BrowserInv'
<1>1. /\ UNCHANGED <<app, ui, session, verified, busy, inflight, recorded, teardown, screen>>
      /\ UNCHANGED <<context, pending, kind, outcome, queue, unknown, history, brokenRender>>
      /\ Last' = Last /\ LoopDead /\ worker[s] = "calling"
  BY DEF CallRefused, connection, tracked, dialogs, results, Last, LoopDead, Calling
<1>2. /\ worker' \in Seq({"idle", "calling", "closed"}) /\ Len(worker') = Len(worker)
      /\ worker'[s] = "idle" /\ \A r \in 1..Len(queue) : r # s => worker'[r] = worker[r]
  <2>1. /\ worker \in Seq({"idle", "calling", "closed"}) /\ s \in 1..Len(worker)
        /\ "idle" \in {"idle", "calling", "closed"} /\ worker' = [worker EXCEPT ![s] = "idle"]
    BY DEF CallRefused, BrowserInv, Types
  <2> QED
    BY <2>1, ExceptSeq DEF BrowserInv, Types
<1>3. \A r \in 1..Len(queue) :
        /\ worker'[r] = worker[r] \/ (worker'[r] = "idle" /\ worker[r] = "calling")
        /\ Calling(r)' => Calling(r)
  BY <1>1, <1>2 DEF Calling
<1>4. Flags'
  BY <1>1 DEF Flags, BrowserInv
<1>5. Types'
  BY <1>1, <1>2 DEF BrowserInv, Types, Op
<1>6. LastOnly'
  BY <1>1, <1>3 DEF BrowserInv, LastOnly, Underway, LoopDead, LoopAlive, Op
<1>7. Queues'
  <2>1. \A r \in 1..Len(queue) : /\ QueueShape(r) => QueueShape(r)'
                                 /\ Dropped(r) => Dropped(r)'
    BY <1>1, <1>3 DEF QueueShape, Kept, Dropped
  <2>2. session' = session /\ session \in 0..Len(queue) /\ Len(queue) \in Nat
    BY <1>1 DEF BrowserInv, Types
  <2>3. /\ session # 0 /\ Kept(session) => Kept(session)'
        /\ session # 0 /\ Dropped(session) => Dropped(session)'
    BY <1>1, <1>3, <2>2 DEF Kept, Dropped
  <2>4. \A r \in 1..Len(queue) : QueueShape(r) /\ (r # session => Dropped(r))
    BY DEF BrowserInv, Queues
  <2>5. \A r \in 1..Len(queue) : QueueShape(r)' /\ (r # session => Dropped(r)')
    BY <2>1, <2>4
  <2>6. /\ session # 0 /\ app \notin {"closing", "again", "ended"} => Kept(session)'
        /\ session # 0 /\ app \in {"closing", "again", "ended"} => Dropped(session)'
    BY <2>3 DEF BrowserInv, Queues
  <2>7. Last > 0 /\ outcome[Last] = "none" =>
          kind[Last].via \in 1..Len(queue) /\ queue[kind[Last].via] # <<>>
                                           /\ queue[kind[Last].via] # <<Close>>
    BY DEF BrowserInv, Queues
  <2> QED
    BY <1>1, <2>5, <2>6, <2>7 DEF Queues
<1>8. Calls'
  BY <1>1, <1>3 DEF BrowserInv, Calls, Underway, LoopAlive, LoopDead
<1>9. Verifies'
  BY <1>1 DEF BrowserInv, Verifies, Underway, LoopAlive, Op
<1>10. Results'
  BY <1>1 DEF BrowserInv, Results, Underway, LoopAlive, Op
<1> QED
  BY <1>4, <1>5, <1>6, <1>7, <1>8, <1>9, <1>10 DEF BrowserInv

(* The result is harvested from the future itself.                         *)
LEMMA HarvestStep ==
  ASSUME BrowserInv, FirstHarvest \/ SecondHarvest
  PROVE  BrowserInv'
<1>1. /\ app \in {"harvest", "again"} /\ app' \in {"close", "ended"} /\ LoopDead /\ ui = "idle"
      /\ (app = "harvest" <=> app' = "close")
      /\ UNCHANGED <<ui, session, verified, screen, context, pending, kind, outcome, queue>>
      /\ UNCHANGED <<worker, inflight, brokenRender>> /\ Last' = Last
      /\ (Underway <=> busy)
  BY DEF FirstHarvest, SecondHarvest, Harvest, connection, dialogs, workers, tracked, results,
         Last, LoopDead, LoopAlive, BrowserInv, LastOnly, Underway
<1>2. \/ UNCHANGED <<busy, recorded, teardown, unknown, history>>
         /\ (busy => Op(Last) \notin Writing \/ outcome[Last] = "error")
      \/ /\ recorded' = TRUE /\ teardown' = FALSE /\ busy' = FALSE /\ Record(inflight)
         /\ ~recorded /\ outcome[inflight] # "none"
  BY DEF FirstHarvest, SecondHarvest, Harvest, NothingToHarvest, MarkRecorded, tracked, results,
         BrowserInv, Results, LastOnly
<1>3. /\ Last \in Nat /\ history \in Seq(Nat) /\ Len(history) = Last
      /\ ~recorded => inflight \in 1..Last
  BY DEF BrowserInv, Types, Last, Results
<1>4. ASSUME Record(inflight), ~recorded
      PROVE  /\ history' \in Seq(Nat) /\ Len(history') = Last
             /\ history'[inflight] = history[inflight] + 1
             /\ \A f \in 1..Last : f # inflight => history'[f] = history[f]
             /\ unknown' \in BOOLEAN
  <2>1. /\ history' = [history EXCEPT ![inflight] = history[inflight] + 1]
        /\ history[inflight] + 1 \in Nat
    BY <1>3, <1>4 DEF Record
  <2> QED
    BY <1>3, <1>4, <2>1, ExceptSeq DEF Record
<1>5. Flags'
  BY <1>1, <1>2, <1>4 DEF Flags, BrowserInv
<1>6. Types'
  BY <1>1, <1>2, <1>3, <1>4 DEF BrowserInv, Types, Op
<1>7. LastOnly'
  BY <1>1, <1>2, <1>3 DEF BrowserInv, LastOnly, Underway, LoopDead, LoopAlive, Op, Calling
<1>8. Queues'
  BY <1>1 DEF BrowserInv, Types, Queues, QueueShape, Kept, Dropped
<1>9. Calls'
  BY <1>1 DEF BrowserInv, Calls, Calling, LoopAlive, LoopDead
<1>10. Verifies'
  BY <1>1 DEF BrowserInv, Verifies, LoopAlive, LoopDead
<1>11. Results'
  <2>1. CASE UNCHANGED <<busy, recorded, teardown, unknown, history>>
             /\ (busy => Op(Last) \notin Writing \/ outcome[Last] = "error")
    BY <1>1, <2>1 DEF BrowserInv, Results, Underway, Op
  <2>2. CASE /\ recorded' = TRUE /\ teardown' = FALSE /\ busy' = FALSE /\ Record(inflight)
             /\ ~recorded /\ outcome[inflight] # "none"
    <3>1. \A f \in 1..Last : history'[f] \in 0..2 /\ (~brokenRender => history'[f] <= 1)
      BY <1>3, <1>4, <2>2, SMTT(30) DEF BrowserInv, Results
    <3>2. ASSUME NEW f \in 1..Last, Op(f) \in Writing, outcome[f] \notin {"none", "error"}
          PROVE  history'[f] > 0
      BY <1>1, <1>3, <1>4, <2>2, <3>2, SMTT(30) DEF BrowserInv, Results, LastOnly
    <3> QED
      BY <1>1, <2>2, <3>1, <3>2 DEF Results, Op
  <2> QED
    BY <1>2, <2>1, <2>2
<1> QED
  BY <1>5, <1>6, <1>7, <1>8, <1>9, <1>10, <1>11 DEF BrowserInv

(* After the loop the connection is closed behind an operation that may    *)
(* still be unfinished, and is let go of when it is closed.                *)
LEMMA CloseTransportStep ==
  ASSUME BrowserInv, CloseTransport
  PROVE  BrowserInv'
<1>1. /\ app = "close" /\ app' = "closing" /\ LoopDead /\ CloseSession(session)
      /\ UNCHANGED <<ui, session, verified, busy, inflight, recorded, teardown, screen, context>>
      /\ UNCHANGED <<pending, kind, outcome, worker, unknown, history, brokenRender>>
      /\ Last' = Last
  BY DEF CloseTransport, connection, tracked, dialogs, results, LoopDead, LoopAlive, Last
<1>2. session \in 0..Len(queue) /\ Last \in Nat /\ Len(queue) \in Nat
  BY DEF BrowserInv, Types, Last
<1>3. ASSUME session # 0
      PROVE  /\ session \in 1..Len(queue) /\ worker[session] # "closed"
             /\ \/ queue[session] = <<>> /\ Requeued(session, <<Close>>)
                \/ /\ Last > 0 /\ outcome[Last] = "none" /\ kind[Last].via = session
                   /\ queue[session] = <<Last>> /\ Requeued(session, <<Last, Close>>)
  <2>1. session \in 1..Len(queue)
    BY <1>2, <1>3
  <2>2. QueueShape(session) /\ Kept(session)
    BY <1>1, <1>3, <2>1 DEF BrowserInv, Queues
  <2>3. CASE queue[session] = <<>>
    <3>1. Append(<<>>, Close) = <<Close>> /\ <<Close>> \in Seq(Nat)
      BY DEF Close
    <3>2. queue' = [queue EXCEPT ![session] = <<Close>>]
      BY <1>1, <1>3, <2>3, <3>1 DEF CloseSession
    <3> QED
      BY <2>1, <2>2, <2>3, <3>1, <3>2, RequeuedFacts DEF BrowserInv, Kept
  <2>4. CASE Last > 0 /\ queue[session] = <<Last>>
    <3>1. /\ Append(<<Last>>, Close) = <<Last, Close>> /\ <<Last>> # <<>> /\ <<Last>> # <<Close>>
          /\ <<Last, Close>> \in Seq(Nat)
      BY <1>2, <2>4, Shapes
    <3>2. outcome[Last] = "none" /\ kind[Last].via = session
      BY <2>2, <2>4, <3>1 DEF QueueShape
    <3>3. queue' = [queue EXCEPT ![session] = <<Last, Close>>]
      BY <1>1, <1>3, <2>4, <3>1 DEF CloseSession
    <3>4. Requeued(session, <<Last, Close>>)
      BY <2>1, <3>1, <3>3, RequeuedFacts DEF BrowserInv
    <3> QED
      BY <2>1, <2>2, <2>4, <3>2, <3>4 DEF Kept
  <2> QED
    BY <2>2, <2>3, <2>4 DEF Kept
<1>4. /\ queue' \in Seq(Seq(Nat)) /\ Len(queue') = Len(queue)
      /\ \A s \in 1..Len(queue) : s # session => queue'[s] = queue[s]
  BY <1>1, <1>3 DEF CloseSession, Requeued, BrowserInv, Types
<1>5. Flags'
  BY <1>1 DEF Flags, BrowserInv
<1>6. Types'
  BY <1>1, <1>4 DEF BrowserInv, Types, Op
<1>7. LastOnly'
  BY <1>1, <1>4 DEF BrowserInv, LastOnly, Underway, LoopDead, LoopAlive, Op, Calling
<1>8. Queues'
  <2>1. ASSUME NEW s \in 1..Len(queue), s # session
        PROVE  QueueShape(s)' /\ Dropped(s)'
    <3>1. QueueShape(s) /\ Dropped(s)
      BY <2>1 DEF BrowserInv, Queues
    <3> QED
      BY <1>1, <1>4, <2>1, <3>1 DEF QueueShape, Dropped
  <2>2. ASSUME NEW s \in 1..Len(queue), s = session
        PROVE  QueueShape(s)' /\ Dropped(s)'
    <3>1. session # 0 /\ worker'[s] # "closed"
      BY <1>1, <1>3, <2>2
    <3>2. CASE Requeued(session, <<Close>>)
      BY <2>2, <3>1, <3>2 DEF QueueShape, Dropped, Requeued
    <3>3. CASE /\ Last > 0 /\ outcome[Last] = "none" /\ kind[Last].via = session
               /\ Requeued(session, <<Last, Close>>)
      <4>1. queue'[s] = <<Last', Close>> /\ Last' > 0 /\ outcome'[Last'] = "none"
            /\ kind'[Last'].via = s
        BY <1>1, <2>2, <3>3 DEF Requeued
      <4> QED
        BY <3>1, <4>1 DEF QueueShape, Dropped
    <3> QED
      BY <1>3, <3>1, <3>2, <3>3
  <2>3. \A s \in 1..Len(queue) : QueueShape(s)' /\ Dropped(s)'
    BY <2>1, <2>2
  <2>4. session # 0 => Dropped(session)'
    BY <1>1, <1>2, <2>2 DEF Dropped
  <2>5. ASSUME Last > 0, outcome[Last] = "none"
        PROVE  kind[Last].via \in 1..Len(queue) /\ queue'[kind[Last].via] # <<>>
               /\ queue'[kind[Last].via] # <<Close>>
    <3>1. kind[Last].via \in 1..Len(queue) /\ queue[kind[Last].via] # <<>>
          /\ queue[kind[Last].via] # <<Close>>
      BY <2>5 DEF BrowserInv, Queues
    <3>2. <<Last, Close>> # <<>> /\ <<Last, Close>> # <<Close>>
      BY <1>2, <2>5, Shapes
    <3>3. CASE kind[Last].via = session
      <4>1. session # 0 /\ queue[session] # <<>>
        BY <1>2, <3>1, <3>3
      <4>2. queue'[session] = <<Last, Close>>
        BY <1>3, <4>1 DEF Requeued
      <4> QED
        BY <3>1, <3>2, <3>3, <4>2
    <3> QED
      BY <1>4, <3>1, <3>3
  <2> QED
    BY <1>1, <1>4, <2>3, <2>4, <2>5 DEF Queues
<1>9. Calls'
  BY <1>1, <1>4 DEF BrowserInv, Calls, Calling, LoopAlive, LoopDead
<1>10. Verifies'
  BY <1>1 DEF BrowserInv, Verifies, LoopAlive, LoopDead
<1>11. Results'
  BY <1>1 DEF BrowserInv, Results, Underway, Op
<1> QED
  BY <1>5, <1>6, <1>7, <1>8, <1>9, <1>10, <1>11 DEF BrowserInv

LEMMA TransportClosedStep ==
  ASSUME BrowserInv, TransportClosed
  PROVE  BrowserInv'
<1>1. /\ app = "closing" /\ app' = "again" /\ LoopDead /\ session' = 0
      /\ UNCHANGED <<ui, verified, busy, inflight, recorded, teardown, screen, context>>
      /\ UNCHANGED <<pending, kind, outcome, queue, worker, unknown, history, brokenRender>>
      /\ Last' = Last /\ Len(queue) \in Nat
  BY DEF TransportClosed, tracked, dialogs, workers, results, LoopDead, LoopAlive, Last,
         BrowserInv, Types
<1>2. Flags'
  BY <1>1 DEF Flags, BrowserInv
<1>3. Types'
  BY <1>1 DEF BrowserInv, Types, Op
<1>4. LastOnly'
  BY <1>1 DEF BrowserInv, LastOnly, Underway, LoopDead, LoopAlive, Op, Calling
<1>5. Queues'
  <2>1. \A s \in 1..Len(queue) : QueueShape(s) /\ Dropped(s)
    BY <1>1 DEF BrowserInv, Queues
  <2>2. \A s \in 1..Len(queue) : QueueShape(s)' /\ Dropped(s)'
    BY <1>1, <2>1 DEF QueueShape, Dropped
  <2> QED
    BY <1>1, <2>2 DEF BrowserInv, Queues
<1>6. Calls'
  BY <1>1 DEF BrowserInv, Calls, Calling, LoopAlive, LoopDead
<1>7. Verifies'
  BY <1>1 DEF BrowserInv, Verifies, LoopAlive, LoopDead
<1>8. Results'
  BY <1>1 DEF BrowserInv, Results, Underway, Op
<1> QED
  BY <1>2, <1>3, <1>4, <1>5, <1>6, <1>7, <1>8 DEF BrowserInv

(* A worker ends what is at the head of its queue.                         *)
LEMMA WorkStep ==
  ASSUME BrowserInv, NEW s \in 1..Len(queue), Work(s)
  PROVE  BrowserInv'
<1>1. /\ UNCHANGED <<app, ui, session, verified, busy, inflight, recorded, teardown, screen>>
      /\ UNCHANGED <<context, pending, kind, unknown, history, brokenRender>> /\ Last' = Last
      /\ queue[s] # <<>> /\ worker[s] # "calling"
  BY DEF Work, connection, tracked, dialogs, results, Last, Calling
<1>2. /\ Last \in Nat /\ Len(queue) \in Nat /\ session \in 0..Len(queue)
      /\ outcome \in Seq(AnyOutcome) /\ Len(outcome) = Last
      /\ worker \in Seq({"idle", "calling", "closed"}) /\ Len(worker) = Len(queue)
  BY DEF BrowserInv, Types, Last
<1>3. QueueShape(s) /\ (s # session => Dropped(s))
      /\ (s = session /\ app \notin {"closing", "again", "ended"} => Kept(s))
      /\ (s = session /\ app \in {"closing", "again", "ended"} => Dropped(s))
  BY <1>2 DEF BrowserInv, Queues
<1>4. /\ \A r \in 1..Len(queue) : QueueShape(r) /\ (r # session => Dropped(r))
      /\ session # 0 /\ app \notin {"closing", "again", "ended"} => Kept(session)
      /\ session # 0 /\ app \in {"closing", "again", "ended"} => Dropped(session)
  BY DEF BrowserInv, Queues
<1>5. Flags'
  BY <1>1 DEF Flags, BrowserInv
<1>6. CASE queue[s] = <<Close>>
  <2>1. Head(queue[s]) = Close /\ Tail(queue[s]) = <<>> /\ <<>> \in Seq(Nat)
    BY <1>6 DEF Close
  <2>2. Requeued(s, <<>>)
    BY <2>1, RequeuedFacts DEF BrowserInv, Work
  <2>3. outcome' = outcome /\ worker' = [worker EXCEPT ![s] = "closed"]
    BY <2>1 DEF Work
  <2>4. /\ worker' \in Seq({"idle", "calling", "closed"}) /\ Len(worker') = Len(queue)
        /\ worker'[s] = "closed" /\ \A r \in 1..Len(queue) : r # s => worker'[r] = worker[r]
    BY <1>2, <2>3, ExceptSeq
  <2>5. ~Kept(s)
    <3>1. ASSUME Last > 0 PROVE <<Last>> # <<Close>>
      BY <1>2, <3>1, Shapes
    <3>2. <<Close>> # <<>>
      OBVIOUS
    <3> QED
      BY <1>6, <3>1, <3>2 DEF Kept
  <2>6. Types'
    BY <1>1, <2>2, <2>3, <2>4 DEF BrowserInv, Types, Op, Requeued
  <2>7. LastOnly'
    BY <1>1, <2>2, <2>3, <2>4
    DEF BrowserInv, LastOnly, Underway, LoopDead, LoopAlive, Op, Calling, Requeued
  <2>8. Queues'
    <3>1. ASSUME NEW r \in 1..Len(queue)
          PROVE  QueueShape(r)' /\ (r # session => Dropped(r)')
      BY <1>1, <1>4, <2>2, <2>3, <2>4, <3>1 DEF QueueShape, Dropped, Requeued
    <3>2. session # 0 /\ app \notin {"closing", "again", "ended"} => Kept(session)'
      <4>1. CASE s = session
        BY <1>3, <2>5, <4>1
      <4>2. CASE s # session
        <5>1. session # 0 => queue'[session] = queue[session] /\ worker'[session] = worker[session]
          <6>1. session # 0 => session \in 1..Len(queue)
            BY <1>2
          <6> QED
            BY Zenon, <2>2, <2>4, <4>2, <6>1 DEF Requeued
        <5>2. UNCHANGED <<session, app, Last>>
          BY <1>1
        <5> QED
          BY <1>4, <5>1, <5>2 DEF Kept
      <4> QED
        BY <4>1, <4>2
    <3>3. session # 0 /\ app \in {"closing", "again", "ended"} => Dropped(session)'
      <4>1. CASE s = session
        BY <1>1, <2>2, <2>4, <4>1 DEF Dropped, Requeued
      <4>2. CASE s # session
        <5>1. session # 0 => queue'[session] = queue[session] /\ worker'[session] = worker[session]
          <6>1. session # 0 => session \in 1..Len(queue)
            BY <1>2
          <6> QED
            BY Zenon, <2>2, <2>4, <4>2, <6>1 DEF Requeued
        <5>2. UNCHANGED <<session, app, Last>>
          BY <1>1
        <5> QED
          BY <1>4, <5>1, <5>2 DEF Dropped
      <4> QED
        BY <4>1, <4>2
    <3>4. ASSUME Last > 0, outcome[Last] = "none"
          PROVE  kind[Last].via \in 1..Len(queue) /\ queue'[kind[Last].via] # <<>>
                 /\ queue'[kind[Last].via] # <<Close>>
      BY <1>6, <2>2, <3>4 DEF BrowserInv, Queues, Requeued
    <3> QED
      BY <1>1, <2>2, <2>3, <3>1, <3>2, <3>3, <3>4 DEF Queues, Requeued
  <2>9. Calls'
    BY <1>1, <2>2, <2>3, <2>4 DEF BrowserInv, Calls, Calling, Underway, LoopAlive, Requeued
  <2>10. Verifies'
    BY <1>1 DEF BrowserInv, Verifies, Underway, LoopAlive, Op
  <2>11. Results'
    BY <1>1, <2>3 DEF BrowserInv, Results, Underway, Op
  <2> QED
    BY <1>5, <2>6, <2>7, <2>8, <2>9, <2>10, <2>11 DEF BrowserInv
<1>7. CASE /\ Last > 0 /\ outcome[Last] = "none" /\ kind[Last].via = s
           /\ queue[s] \in {<<Last>>, <<Last, Close>>}
  <2>1. /\ Last \in 1..Last /\ Last # Close /\ Head(queue[s]) = Last
        /\ \/ queue[s] = <<Last>> /\ Tail(queue[s]) = <<>>
           \/ queue[s] = <<Last, Close>> /\ Tail(queue[s]) = <<Close>>
        /\ {<<>>, <<Close>>, <<Last>>, <<Last, Close>>} \subseteq Seq(Nat)
    <3>1. /\ Head(<<Last>>) = Last /\ Tail(<<Last>>) = <<>>
          /\ Head(<<Last, Close>>) = Last /\ Tail(<<Last, Close>>) = <<Close>>
          /\ {<<>>, <<Close>>, <<Last>>, <<Last, Close>>} \subseteq Seq(Nat)
      <4>1. Last \in Nat \ {0}
        BY <1>2, <1>7
      <4> QED
        BY <4>1, Shapes, Zenon
    <3>2. Last \in 1..Last /\ Last # Close
      BY <1>2, <1>7 DEF Close
    <3>3. CASE queue[s] = <<Last>>
      BY <3>1, <3>2, <3>3
    <3>4. CASE queue[s] = <<Last, Close>>
      BY <3>1, <3>2, <3>4
    <3> QED
      BY <1>7, <3>3, <3>4
  <2>2. PICK q \in {<<>>, <<Close>>} : /\ Requeued(s, q) /\ (q = <<>> <=> queue[s] = <<Last>>)
                                      /\ (q = <<Close>> <=> queue[s] = <<Last, Close>>)
    <3>1. <<Last>> # <<Last, Close>> /\ <<>> # <<Close>>
      BY <1>2, <1>7, Shapes
    <3>2. Requeued(s, Tail(queue[s]))
      BY <2>1, RequeuedFacts DEF BrowserInv, Work
    <3> QED
      BY <2>1, <3>1, <3>2
  <2>3. PICK o \in Outcomes(Op(Last)) :
          /\ outcome' = [outcome EXCEPT ![Last] = o]
          /\ worker' = [worker EXCEPT ![s] = IF inflight = Last THEN "calling" ELSE "idle"]
    BY <2>1 DEF Work
  <2>4. o \in {"ok", "mismatch", "unknown", "error"}
    BY DEF Outcomes
  <2>5. /\ outcome' \in Seq(AnyOutcome) /\ Len(outcome') = Last /\ outcome'[Last] = o
        /\ \A f \in 1..Last : f # Last => outcome'[f] = outcome[f]
    BY <1>2, <2>1, <2>3, <2>4, ExceptSeq DEF AnyOutcome
  <2>6. /\ worker' \in Seq({"idle", "calling", "closed"}) /\ Len(worker') = Len(queue)
        /\ worker'[s] = (IF inflight = Last THEN "calling" ELSE "idle")
        /\ \A r \in 1..Len(queue) : r # s => worker'[r] = worker[r]
    BY <1>2, <2>3, ExceptSeq
  <2>7. Underway /\ ui # "finishing" /\ (busy => inflight = Last)
        /\ (LoopAlive /\ inflight = Last => busy)
    BY <1>7 DEF BrowserInv, LastOnly, Underway
  <2>8. Types'
    <3>1. \A f \in 1..Last : outcome'[f] \in Outcomes(Op(f)) \union {"none"}
      BY <2>3, <2>5 DEF BrowserInv, Types
    <3> QED
      BY <1>1, <2>2, <2>5, <2>6, <3>1 DEF BrowserInv, Types, Op, Requeued
  <2>9. LastOnly'
    BY <1>1, <1>7, <2>2, <2>4, <2>5, <2>6, <2>7
    DEF BrowserInv, LastOnly, Underway, LoopDead, LoopAlive, Op, Requeued
  <2>10. Queues'
    <3>1. \A r \in 1..Len(queue) : r # s => queue[r] \in {<<>>, <<Close>>}
      BY <1>4, <1>7 DEF QueueShape
    <3>2. <<Last>> # <<>> /\ <<Last>> # <<Close>> /\ <<Last, Close>> # <<>>
          /\ <<Last>> # <<Last, Close>>
      BY <1>2, <1>7, Shapes
    <3>3. ASSUME NEW r \in 1..Len(queue), r # s
          PROVE  QueueShape(r)' /\ (r # session => Dropped(r)')
      BY <1>1, <1>4, <2>2, <2>6, <3>1, <3>3 DEF QueueShape, Dropped, Requeued
    <3>4. Dropped(s) => queue'[s] = <<Close>> /\ worker'[s] # "closed"
      BY <1>7, <2>2, <2>6, <3>2 DEF Dropped, Requeued
    <3>5. Kept(s) => queue'[s] = <<>> /\ worker'[s] # "closed"
      BY <1>7, <2>2, <2>6, <3>2 DEF Kept, Requeued
    <3>6. QueueShape(s)' /\ (s # session => Dropped(s)')
      BY <1>3, <2>2, <3>4 DEF QueueShape, Dropped, Requeued
    <3>7. session # 0 /\ app \notin {"closing", "again", "ended"} => Kept(session)'
      <4>1. CASE s = session
        BY <1>1, <1>3, <3>5, <4>1 DEF Kept
      <4>2. CASE s # session
        <5>1. session # 0 => queue'[session] = queue[session] /\ worker'[session] = worker[session]
          <6>1. session # 0 => session \in 1..Len(queue)
            BY <1>2
          <6> QED
            BY Zenon, <2>2, <2>6, <4>2, <6>1 DEF Requeued
        <5>2. UNCHANGED <<session, app, Last>>
          BY <1>1
        <5> QED
          BY <1>4, <5>1, <5>2 DEF Kept
      <4> QED
        BY <4>1, <4>2
    <3>8. session # 0 /\ app \in {"closing", "again", "ended"} => Dropped(session)'
      BY <1>1, <1>2, <1>4, <2>2, <2>6, <3>1, <3>4, SMTT(30) DEF Dropped, Requeued
    <3> QED
      BY <1>1, <2>2, <2>4, <2>5, <3>3, <3>6, <3>7, <3>8 DEF Queues, Requeued
  <2>11. Calls'
    <3>1. Len(queue') = Len(queue)
      BY <2>2 DEF Requeued
    <3>2. UNCHANGED <<session, app, ui, kind, Last>> /\ (busy' <=> busy)
      BY <1>1 DEF Flags, BrowserInv
    <3>3. LoopAlive' <=> LoopAlive
      BY Zenon, <3>2 DEF LoopAlive
    <3>4. ASSUME NEW r \in 1..Len(queue), Calling(r)'
          PROVE  Last > 0 /\ kind[Last].via = r /\ (LoopAlive => busy /\ outcome'[Last] # "none")
      <4>1. CASE r = s
        BY <1>7, <2>4, <2>5, <2>6, <2>7, <3>4, <4>1 DEF Calling
      <4>2. CASE r # s
        <5>1. Calling(r)
          BY <2>6, <3>4, <4>2 DEF Calling
        <5> QED
          BY <1>7, <4>2, <5>1 DEF BrowserInv, Calls
      <4> QED
        BY <4>1, <4>2
    <3>5. LoopAlive /\ Underway => session # 0 /\ kind[Last].via = session
      BY DEF BrowserInv, Calls
    <3>6. Underway' <=> Underway
      BY Zenon, <3>2 DEF Underway
    <3> QED
      BY <3>1, <3>2, <3>3, <3>4, <3>5, <3>6 DEF Calls
  <2>12. Verifies'
    BY <1>1 DEF BrowserInv, Verifies, Underway, LoopAlive, Op
  <2>13. Results'
    BY <1>1, <1>7, <2>5, <2>7 DEF BrowserInv, Results, Underway, Op
  <2> QED
    BY <1>5, <2>8, <2>9, <2>10, <2>11, <2>12, <2>13 DEF BrowserInv
<1> QED
  BY <1>1, <1>3, <1>6, <1>7 DEF QueueShape

(* The loop learns that the tracked operation is done.  Whoever told it,   *)
(* no worker waits for an answer any more.                                 *)
Told ==
  /\ LoopAlive /\ busy /\ ui # "tracking" /\ Finished(inflight) /\ busy' = FALSE
  /\ UNCHANGED <<app, inflight, pending>>
  /\ worker' \in Seq({"idle", "calling", "closed"}) /\ Len(worker') = Len(worker)
  /\ \A s \in 1..Len(queue) : /\ worker'[s] # "calling"
                              /\ worker'[s] = "closed" <=> worker[s] = "closed"

LEMMA FinishTells ==
  ASSUME BrowserInv, FinishInline
  PROVE  Told /\ Last > 0 /\ outcome[Last] # "none" /\ inflight = Last
BY DEF FinishInline, Told, BrowserInv, Types, LastOnly, LoopDead, Calling

LEMMA DeliverTells ==
  ASSUME BrowserInv, NEW s \in 1..Len(queue), Deliver(s)
  PROVE  Told /\ Last > 0 /\ outcome[Last] # "none" /\ inflight = Last
<1>1. /\ worker \in Seq({"idle", "calling", "closed"}) /\ Len(worker) = Len(queue)
      /\ worker' = [worker EXCEPT ![s] = "idle"] /\ "idle" \in {"idle", "calling", "closed"}
  BY DEF Deliver, BrowserInv, Types
<1>2. /\ worker' \in Seq({"idle", "calling", "closed"}) /\ Len(worker') = Len(worker)
      /\ worker'[s] = "idle" /\ \A r \in 1..Len(queue) : r # s => worker'[r] = worker[r]
  BY <1>1, ExceptSeq
<1>3. /\ busy /\ Last > 0 /\ outcome[Last] # "none" /\ inflight = Last /\ kind[Last].via = s
      /\ \A r \in 1..Len(queue) : worker[r] = "calling" => r = s
      /\ worker[s] = "calling"
  BY DEF Deliver, BrowserInv, Calls, Calling, LastOnly
<1> QED
  BY <1>2, <1>3 DEF Deliver, Told

(* What every callback of the loop finds.                                  *)
Found ==
  /\ Last \in Nat /\ Last \in 1..Last /\ Len(queue) \in Nat
  /\ session \in 1..Len(queue) /\ session # 0 /\ kind[Last].via = session
  /\ \A f \in 1..Last : outcome[f] # "none"
  /\ \A s \in 1..Len(queue) : queue[s] \in {<<>>, <<Close>>} /\ (s # session => Dropped(s))
  /\ queue[session] = <<>> /\ worker[session] # "closed"
  /\ screen = "main" /\ ~recorded /\ history[Last] = 0 /\ (teardown <=> Op(Last) \in Writing)
  /\ app = "running" => pending = 0 /\ context \in {0, session}
  /\ Op(Last) = "connect" => Last < MaxOps
  /\ app = "running" /\ Op(Last) \in {"connect", "identity"} => context = 0
  /\ ~verified => Op(Last) \in {"connect", "identity"}

LEMMA CallbackFinds ==
  ASSUME BrowserInv, Told, Last > 0, outcome[Last] # "none", inflight = Last
  PROVE  Found
<1>1. LoopAlive /\ busy /\ Underway
  BY DEF Told, Underway
<1>2. /\ Last \in Nat /\ Last \in 1..Last /\ Len(queue) \in Nat
      /\ session \in 1..Len(queue) /\ session # 0 /\ kind[Last].via = session
  BY <1>1 DEF BrowserInv, Types, Calls, Last
<1>3. /\ \A f \in 1..Last : outcome[f] # "none"
      /\ \A s \in 1..Len(queue) : queue[s] \in {<<>>, <<Close>>}
      /\ queue[session] = <<>> /\ worker[session] # "closed"
  BY <1>1, <1>2, NothingUnfinished
<1>4. \A s \in 1..Len(queue) : s # session => Dropped(s)
  BY DEF BrowserInv, Queues
<1>5. ~recorded /\ history[Last] = 0 /\ (teardown <=> Op(Last) \in Writing)
  BY <1>1 DEF BrowserInv, Results
<1>6. /\ screen = "main" /\ (app = "running" => pending = 0 /\ context \in {0, session})
      /\ app = "running" /\ Op(Last) \in {"connect", "identity"} => context = 0
      /\ ~verified => Op(Last) \in {"connect", "identity"}
  BY <1>1, <1>2 DEF BrowserInv, Verifies
<1>7. Op(Last) = "connect" => Last < MaxOps
  BY <1>1 DEF BrowserInv, LastOnly
<1> QED
  BY <1>2, <1>3, <1>4, <1>5, <1>6, <1>7 DEF Found

(* What a callback that submits nothing leaves alone.                      *)
LEMMA ToldKeeps ==
  ASSUME BrowserInv, Told, Found, outcome[Last] # "none", inflight = Last,
         UNCHANGED <<kind, outcome, session, queue>>, ui' = "idle"
  PROVE  LastOnly' /\ Queues' /\ Calls' /\ Last' = Last
<1>1. Last' = Last
  BY DEF Last
<1>2. LastOnly'
  BY <1>1 DEF Told, Found, BrowserInv, LastOnly, Underway, LoopDead, LoopAlive, Op
<1>3. Queues'
  <2>1. ASSUME NEW s \in 1..Len(queue)
        PROVE  QueueShape(s)' /\ (s # session => Dropped(s)')
    BY <1>1 DEF QueueShape, Dropped, Told, Found
  <2>2. Kept(session)'
    BY DEF Kept, Told, Found
  <2> QED
    BY <1>1, <2>1, <2>2 DEF Queues, Told, Found, LoopAlive
<1>4. Calls'
  BY <1>1 DEF Told, Found, Calls, Calling, Underway, LoopAlive
<1> QED
  BY <1>1, <1>2, <1>3, <1>4

(* The result of a write or a recheck is recorded.                         *)
LEMMA RecordedFacts ==
  ASSUME BrowserInv, Found, inflight = Last, Record(inflight)
  PROVE  /\ history' \in Seq(Nat) /\ Len(history') = Last /\ history'[Last] = 1
         /\ \A f \in 1..Last : f # Last => history'[f] = history[f]
         /\ unknown' \in BOOLEAN
<1>1. history \in Seq(Nat) /\ Len(history) = Last /\ Last \in 1..Last /\ history[Last] = 0
  BY DEF BrowserInv, Types, Found
<1>2. history' = [history EXCEPT ![Last] = 1] /\ unknown' \in BOOLEAN
  BY <1>1 DEF Record
<1> QED
  BY <1>1, <1>2, ExceptSeq

LEMMA ToldStep ==
  ASSUME BrowserConstants, BrowserInv, Told, Found, Last > 0, outcome[Last] # "none",
         inflight = Last
  PROVE  BrowserInv'
<1>1. CASE /\ Op(Last) = "identity" /\ MarkRecorded /\ verified' = TRUE /\ ui' = "idle"
           /\ UNCHANGED <<session, screen, context, kind, outcome, queue, results>>
  <2>1. LastOnly' /\ Queues' /\ Calls' /\ Last' = Last
    BY <1>1, ToldKeeps
  <2>2. Flags'
    BY <1>1 DEF Flags, BrowserInv, Told, MarkRecorded, results
  <2>3. Types'
    BY <1>1, <2>1 DEF BrowserInv, Types, Op, Told, results
  <2>4. Verifies'
    BY <1>1, <2>1 DEF Verifies, Told, Found, LoopAlive, Underway
  <2>5. Results'
    BY <1>1, <2>1 DEF BrowserInv, Results, Told, Found, LoopAlive, Underway, Op, results,
         MarkRecorded, Writing
  <2> QED
    BY <2>1, <2>2, <2>3, <2>4, <2>5 DEF BrowserInv
<1>2. CASE /\ Op(Last) = "context" /\ MarkRecorded /\ context' = kind[Last].via
           /\ screen' = "editor" /\ ui' = "idle"
           /\ UNCHANGED <<connection, kind, outcome, queue, results>>
  <2>1. LastOnly' /\ Queues' /\ Calls' /\ Last' = Last
    BY <1>2, ToldKeeps DEF connection
  <2>2. Flags'
    BY <1>2 DEF Flags, BrowserInv, Told, MarkRecorded, results, connection
  <2>3. Types'
    BY <1>2, <2>1 DEF BrowserInv, Types, Op, Told, Found, results, connection
  <2>4. Verifies'
    BY <1>2, <2>1 DEF Verifies, Told, Found, LoopAlive, Underway, connection
  <2>5. Results'
    BY <1>2, <2>1 DEF BrowserInv, Results, Told, Found, LoopAlive, Underway, Op, results,
         MarkRecorded, Writing
  <2> QED
    BY <2>1, <2>2, <2>3, <2>4, <2>5 DEF BrowserInv
<1>3. CASE /\ Op(Last) \in Writing /\ Record(inflight) /\ ui' = "idle"
           /\ \/ MarkRecorded /\ UNCHANGED brokenRender
              \/ app = "stopping" /\ brokenRender' = TRUE /\ UNCHANGED <<recorded, teardown>>
           /\ UNCHANGED <<connection, screen, context, kind, outcome, queue>>
  <2>1. LastOnly' /\ Queues' /\ Calls' /\ Last' = Last
    BY <1>3, ToldKeeps DEF connection
  <2>2. /\ history' \in Seq(Nat) /\ Len(history') = Last /\ history'[Last] = 1
        /\ \A f \in 1..Last : f # Last => history'[f] = history[f]
        /\ unknown' \in BOOLEAN
    BY <1>3, RecordedFacts
  <2>3. Flags'
    BY <1>3, <2>2 DEF Flags, BrowserInv, Told, MarkRecorded, connection
  <2>4. Types'
    BY <1>3, <2>1, <2>2 DEF BrowserInv, Types, Op, Told, connection
  <2>5. Verifies'
    BY <1>3, <2>1 DEF Verifies, Told, Found, LoopAlive, Underway, connection, Writing
  <2>6. Results'
    <3>1. /\ \A f \in 1..Last : history[f] \in 0..2 /\ (~brokenRender => history[f] <= 1)
          /\ \A f \in 1..Last : Op(f) \in Writing /\ outcome[f] \notin {"none", "error"} =>
               history[f] > 0 \/ f = Last
      BY DEF BrowserInv, Results
    <3>2. ~brokenRender' => ~brokenRender /\ recorded'
      BY <1>3 DEF MarkRecorded
    <3>3. \A f \in 1..Last : history'[f] \in 0..2 /\ (~brokenRender' => history'[f] <= 1)
      BY <2>2, <3>1, <3>2 DEF Found
    <3>4. \A f \in 1..Last : Op(f) \in Writing /\ outcome[f] \notin {"none", "error"} =>
            history'[f] > 0
      BY <2>2, <3>1 DEF Found
    <3>5. busy' = FALSE /\ ui' = "idle" /\ inflight' = Last /\ app' = app
          /\ kind' = kind /\ outcome' = outcome
      BY <1>3 DEF Told
    <3>6. ~recorded' => ~(~brokenRender')
      BY <3>2
    <3> QED
      BY <2>1, <2>2, <3>3, <3>4, <3>5, <3>6 DEF Results, Op, Found
  <2> QED
    BY <2>1, <2>3, <2>4, <2>5, <2>6 DEF BrowserInv
<1>4. CASE /\ Op(Last) \notin {"connect", "identity"} /\ outcome[Last] = "error" /\ MarkRecorded
           /\ ui' = "idle"
           /\ UNCHANGED <<connection, screen, context, kind, outcome, queue, results>>
  <2>1. LastOnly' /\ Queues' /\ Calls' /\ Last' = Last
    BY <1>4, ToldKeeps DEF connection
  <2>2. Flags'
    BY <1>4 DEF Flags, BrowserInv, Told, MarkRecorded, results, connection
  <2>3. Types'
    BY <1>4, <2>1 DEF BrowserInv, Types, Op, Told, Found, results, connection
  <2>4. Verifies'
    BY <1>4, <2>1 DEF Verifies, Told, Found, LoopAlive, Underway, connection
  <2>5. Results'
    BY <1>4, <2>1 DEF BrowserInv, Results, Told, Found, LoopAlive, Underway, Op, results,
         MarkRecorded
  <2> QED
    BY <2>1, <2>2, <2>3, <2>4, <2>5 DEF BrowserInv
<1>5. CASE /\ Op(Last) \in {"connect", "identity"} /\ ConnectionFailed /\ ui' = "idle"
           /\ UNCHANGED <<screen, context, kind, outcome, results>>
  <2>1. Last' = Last /\ session' = 0 /\ verified' = FALSE /\ recorded' = TRUE
        /\ teardown' = FALSE /\ CloseSession(session)
    BY <1>5 DEF Last, ConnectionFailed, MarkRecorded
  <2>2. Requeued(session, <<Close>>)
    <3>1. Append(<<>>, Close) = <<Close>> /\ <<Close>> \in Seq(Nat)
      BY DEF Close
    <3>2. session \in 1..Len(queue) /\ queue' = [queue EXCEPT ![session] = <<Close>>]
      BY <2>1, <3>1 DEF CloseSession, Found
    <3> QED
      BY <3>1, <3>2, RequeuedFacts DEF BrowserInv
  <2>3. Flags'
    BY <1>5, <2>1 DEF Flags, BrowserInv, Told, results
  <2>4. Types'
    BY <1>5, <2>1, <2>2, SMTT(30) DEF BrowserInv, Types, Op, Told, results, Requeued
  <2>5. LastOnly'
    BY <1>5, <2>1 DEF Told, Found, BrowserInv, LastOnly, Underway, LoopDead, LoopAlive, Op
  <2>6. Queues'
    <3>1. ASSUME NEW s \in 1..Len(queue), s # session
          PROVE  QueueShape(s)' /\ Dropped(s)'
      BY <2>1, <2>2, <3>1 DEF QueueShape, Dropped, Told, Found, Requeued
    <3>2. ASSUME NEW s \in 1..Len(queue), s = session
          PROVE  QueueShape(s)' /\ Dropped(s)'
      <4>1. queue'[s] = <<Close>> /\ worker'[s] # "closed"
        BY <2>2, <3>2 DEF Told, Found, Requeued
      <4> QED
        BY <4>1 DEF QueueShape, Dropped
    <3>3. \A s \in 1..Len(queue') : QueueShape(s)' /\ Dropped(s)'
      BY <2>2, <3>1, <3>2 DEF Requeued
    <3> QED
      BY <1>5, <2>1, <3>3 DEF Queues, Found
  <2>7. Calls'
    BY <1>5, <2>1, <2>2 DEF Told, Found, Calls, Calling, Underway, LoopAlive, Requeued
  <2>8. Verifies'
    BY <1>5, <2>1 DEF Verifies, Told, Found, LoopAlive, Underway
  <2>9. Results'
    BY <1>5, <2>1 DEF BrowserInv, Results, Told, Found, LoopAlive, Underway, Op, results, Writing
  <2> QED
    BY <2>3, <2>4, <2>5, <2>6, <2>7, <2>8, <2>9 DEF BrowserInv
<1>6. CASE /\ Op(Last) = "connect" /\ Submit(session, "identity")
           /\ UNCHANGED <<connection, recorded, teardown, screen, context, unknown, brokenRender>>
  <2>1. /\ ui' = "tracking" /\ busy' = FALSE /\ inflight' = Last /\ LoopAlive /\ Last < MaxOps
        /\ UNCHANGED <<app, session, verified, recorded, teardown, screen, context, pending>>
        /\ UNCHANGED <<unknown, brokenRender>>
    BY <1>6 DEF Told, Found, Submit, connection
  <2>2. Added("identity", session)
    <3>1. session \in 1..MaxSessions
      BY DEF Found, BrowserInv, Types, BrowserConstants
    <3> QED
      BY <1>6, <3>1, AddedFacts DEF Submit, BrowserInv, Kinds
  <2>3. Requeued(session, <<Last + 1>>)
    <3>1. <<Last + 1>> \in Seq(Nat) /\ Append(<<>>, Last + 1) = <<Last + 1>>
      BY Shapes DEF Found
    <3>2. session \in 1..Len(queue) /\ queue' = [queue EXCEPT ![session] = <<Last + 1>>]
      BY <1>6, <3>1 DEF Submit, Found, Last
    <3> QED
      BY <3>1, <3>2, RequeuedFacts DEF BrowserInv
  <2>4. /\ Last \in Nat /\ Last' = Last + 1 /\ Len(queue') = Len(queue)
        /\ kind'[Last'].op = "identity" /\ kind'[Last'].via = session
        /\ outcome'[Last'] = "none" /\ history'[Last'] = 0
        /\ \A f \in 1..Last : kind'[f] = kind[f] /\ outcome'[f] = outcome[f]
                              /\ history'[f] = history[f]
        /\ \A f \in 1..Last' : f = Last' \/ f \in 1..Last
        /\ queue'[session] = <<Last'>>
        /\ \A s \in 1..Len(queue) : s # session => queue'[s] = queue[s]
        /\ Last' \in 1..Last' /\ Last' # Last /\ Last' > 0
    <3>1. [op |-> "identity", via |-> session].op = "identity"
          /\ [op |-> "identity", via |-> session].via = session /\ Last \in Nat
      BY DEF Found
    <3> QED
      BY <2>2, <2>3, <3>1 DEF Added, Requeued
  <2>5. Flags'
    BY <2>1 DEF Flags, BrowserInv
  <2>6. Types'
    <3>1. /\ session' \in 0..Len(queue') /\ context' \in 0..Len(queue')
          /\ pending' \in 0..Len(queue') /\ inflight' \in 0..Last' /\ Last' <= MaxOps
      BY <2>1, <2>4 DEF BrowserInv, Types, BrowserConstants
    <3>2. \A f \in 1..Last' : outcome'[f] \in Outcomes(kind'[f].op) \union {"none"}
      <4>1. \A f \in 1..Last : outcome[f] \in Outcomes(kind[f].op) \union {"none"}
        BY DEF BrowserInv, Types, Op
      <4> QED
        BY <2>4, <4>1
    <3>3. /\ worker' \in Seq({"idle", "calling", "closed"}) /\ Len(worker') = Len(queue')
          /\ queue' \in Seq(Seq(Nat)) /\ Len(queue') <= MaxSessions
      BY <2>3 DEF BrowserInv, Types, Requeued, Told
    <3>4. /\ kind' \in Seq(KindRecords) /\ outcome' \in Seq(AnyOutcome) /\ Len(outcome') = Last'
          /\ history' \in Seq(Nat) /\ Len(history') = Last'
      BY <2>2 DEF Added
    <3>5. /\ app' \in {"running", "stopping", "harvest", "close", "closing", "again", "ended"}
          /\ screen' \in {"main", "form", "editor", "confirm"}
      BY <2>1 DEF BrowserInv, Types
    <3> QED
      BY <2>1, <3>1, <3>2, <3>3, <3>4, <3>5 DEF Types, Op
  <2>7. LastOnly'
    <3>1. \A f \in 1..Last' : outcome'[f] = "none" => f = Last'
      BY <2>4 DEF Found
    <3>2. LoopAlive' /\ kind'[Last'].op # "connect"
      BY <2>1, <2>4 DEF LoopAlive
    <3> QED
      BY <2>1, <2>4, <3>1, <3>2 DEF LastOnly, Op, LoopDead, Underway
  <2>8. Queues'
    <3>1. ASSUME NEW s \in 1..Len(queue), s # session
          PROVE  QueueShape(s)' /\ Dropped(s)'
      <4>1. <<Last, Close>> # <<>>
        OBVIOUS
      <4> QED
        BY <2>4, <3>1, <4>1 DEF QueueShape, Dropped, Told, Found
    <3>2. QueueShape(session)' /\ Kept(session)'
      BY <2>1, <2>4 DEF QueueShape, Kept, Told, Found
    <3>3. <<Last'>> # <<>> /\ <<Last'>> # <<Close>>
      BY <2>4, Shapes
    <3>4. \A s \in 1..Len(queue') : QueueShape(s)' /\ (s # session' => Dropped(s)')
      <4>1. ASSUME NEW s \in 1..Len(queue), s = session PROVE QueueShape(s)'
        BY <2>1, <2>4, <4>1 DEF QueueShape
      <4> QED
        BY <2>1, <2>4, <3>1, <4>1
    <3>5. app' \notin {"closing", "again", "ended"}
      BY <2>1 DEF LoopAlive
    <3>6. kind'[Last'].via \in 1..Len(queue') /\ queue'[kind'[Last'].via] # <<>>
          /\ queue'[kind'[Last'].via] # <<Close>>
      BY <2>4, <3>3 DEF Found
    <3> QED
      BY <3>2, <3>4, <3>5, <3>6 DEF Queues
  <2>9. Calls'
    BY <2>1, <2>4 DEF Told, Found, Calls, Calling, Underway, LoopAlive
  <2>10. Verifies'
    BY <1>6, <2>1, <2>4 DEF Verifies, Told, Found, LoopAlive, Underway, Op
  <2>11. Results'
    <3>1. \A f \in 1..Last : history[f] \in 0..2 /\ (~brokenRender => history[f] <= 1)
      BY DEF BrowserInv, Results
    <3>2. \A f \in 1..Last : Op(f) \in Writing /\ outcome[f] \notin {"none", "error"} =>
            history[f] > 0
      BY <1>6 DEF BrowserInv, Results, Writing
    <3>3. \A f \in 1..Last' : history'[f] \in 0..2 /\ (~brokenRender' => history'[f] <= 1)
      BY <2>1, <2>4, <3>1
    <3>4. inflight' \in 1..Last' /\ history'[inflight'] = 0
      BY <2>1, <2>4 DEF Found
    <3>5. \A f \in 1..Last' : kind'[f].op \in Writing /\ outcome'[f] \notin {"none", "error"} =>
            history'[f] > 0
      BY <2>4, <3>2 DEF Op
    <3>6. app' \notin {"close", "closing", "again", "ended"}
      BY <2>1 DEF LoopAlive
    <3> QED
      BY <2>1, <2>4, <3>3, <3>4, <3>5, <3>6 DEF Results, Op
  <2> QED
    BY <2>5, <2>6, <2>7, <2>8, <2>9, <2>10, <2>11 DEF BrowserInv
<1> QED
  BY <1>1, <1>2, <1>3, <1>4, <1>5, <1>6 DEF Told, Finished
-----------------------------------------------------------------------------
(* Nothing is there at first.                                              *)
LEMMA BrowserInit ==
  ASSUME BrowserConstants, Init
  PROVE  BrowserInv
<1>1. /\ kind = <<>> /\ outcome = <<>> /\ history = <<>> /\ queue = <<>> /\ worker = <<>>
      /\ app = "running" /\ ui = "idle" /\ screen = "main" /\ session = 0 /\ context = 0
      /\ pending = 0 /\ inflight = 0 /\ busy = FALSE /\ recorded = TRUE /\ teardown = FALSE
      /\ unknown = FALSE /\ brokenRender = FALSE /\ verified = FALSE
  BY DEF Init
<1>2. /\ Last = 0 /\ Len(queue) = 0 /\ Len(outcome) = 0 /\ Len(history) = 0 /\ Len(worker) = 0
  BY <1>1 DEF Last
<1>3. Flags
  BY <1>1 DEF Flags
<1>4. Types
  BY <1>1, <1>2 DEF Types, BrowserConstants
<1>5. LastOnly
  BY <1>1, <1>2 DEF LastOnly, Underway, LoopDead, LoopAlive
<1>6. Queues
  BY <1>1, <1>2 DEF Queues
<1>7. Calls
  BY <1>1, <1>2 DEF Calls, Underway
<1>8. Verifies
  BY <1>1, <1>2 DEF Verifies, Underway
<1>9. Results
  BY <1>1, <1>2 DEF Results, Underway
<1> QED
  BY <1>3, <1>4, <1>5, <1>6, <1>7, <1>8, <1>9 DEF BrowserInv

LEMMA BrowserStep ==
  ASSUME BrowserConstants, BrowserInv, [Next]_vars
  PROVE  BrowserInv'
<1>1. DOMAIN queue = 1..Len(queue)
  BY DEF BrowserInv, Types
<1>2. CASE Dialogs BY <1>2, DialogsStep
<1>3. CASE UserSubmits BY <1>3, UserSubmitsStep
<1>4. CASE BeginConnect BY <1>4, BeginConnectStep
<1>5. CASE Disconnect \/ Quit BY <1>5, LetGoStep
<1>6. CASE Track BY <1>6, TrackStep
<1>7. CASE FinishInline
  BY <1>7, FinishTells, CallbackFinds, ToldStep
<1>8. ASSUME NEW s \in 1..Len(queue), Deliver(s) PROVE BrowserInv'
  BY <1>8, DeliverTells, CallbackFinds, ToldStep
<1>9. ASSUME NEW s \in 1..Len(queue), Worker(s) PROVE BrowserInv'
  BY <1>9, WorkStep, CallRefusedStep DEF Worker
<1>10. CASE FirstHarvest \/ SecondHarvest BY <1>10, HarvestStep
<1>11. CASE CloseTransport BY <1>11, CloseTransportStep
<1>12. CASE TransportClosed BY <1>12, TransportClosedStep
<1>13. CASE UNCHANGED vars
  <2>1. /\ UNCHANGED <<app, ui, session, verified, busy, inflight, recorded, teardown, screen>>
        /\ UNCHANGED <<context, pending, kind, outcome, queue, worker, unknown, history>>
        /\ brokenRender' = brokenRender
    BY <1>13 DEF vars, connection, tracked, dialogs, workers, results
  <2> QED
    <3>1. Flags' BY <2>1 DEF BrowserInv, Flags
    <3>2. Types' BY <2>1 DEF BrowserInv, Types, Last, Op
    <3>3. LastOnly'
      BY <2>1 DEF BrowserInv, LastOnly, Last, LoopDead, LoopAlive, Underway, Calling, Op
    <3>4. Queues' BY <2>1 DEF BrowserInv, Queues, QueueShape, Kept, Dropped, Last
    <3>5. Calls' BY <2>1 DEF BrowserInv, Calls, Calling, LoopAlive, Underway, Last
    <3>6. Verifies' BY <2>1 DEF BrowserInv, Verifies, LoopAlive, Underway, Last, Op
    <3>7. Results' BY <2>1 DEF BrowserInv, Results, Underway, Last, Op
    <3> QED
      BY <3>1, <3>2, <3>3, <3>4, <3>5, <3>6, <3>7 DEF BrowserInv
<1> QED
  BY <1>1, <1>2, <1>3, <1>4, <1>5, <1>6, <1>7, <1>8, <1>9, <1>10, <1>11, <1>12, <1>13
  DEF Next, User, Loop, Workers, Teardown, Dialogs, UserSubmits

(* There is one operation at most, the connection the user can act on is   *)
(* verified, and a connection that is let go of is closed.                 *)
LEMMA InvShowsOneOperation ==
  ASSUME BrowserInv
  PROVE  OneVerifiedOperation
<1>1. Last = Len(kind) /\ Last \in Nat /\ Len(queue) \in Nat /\ Futures = 1..Last
      /\ DOMAIN queue = 1..Len(queue) /\ DOMAIN outcome = Futures /\ DOMAIN history = Futures
      /\ DOMAIN worker = DOMAIN queue
  BY DEF BrowserInv, Types, Last, Futures
<1>2. TypeOK
  <2>1. {verified, busy, recorded, teardown, unknown, brokenRender} \subseteq BOOLEAN
    BY Zenon DEF BrowserInv, Flags
  <2>2. \A f \in Futures : outcome[f] \in Outcomes(Op(f)) \union {"none"} /\ history[f] \in 0..2
    BY <1>1 DEF BrowserInv, Types, Results
  <2>3. \A s \in DOMAIN queue : worker[s] \in {"idle", "calling", "closed"}
    BY <1>1 DEF BrowserInv, Types
  <2>4. (inflight # 0 /\ busy) => ~recorded
    BY DEF BrowserInv, Results
  <2>5. {session, context, pending} \subseteq 0..Len(queue) /\ inflight \in 0..Last
        /\ Last <= MaxOps
        /\ app \in {"running", "stopping", "harvest", "close", "closing", "again", "ended"}
        /\ ui \in {"idle", "tracking", "finishing"}
        /\ screen \in {"main", "form", "editor", "confirm"}
    BY DEF BrowserInv, Types
  <2> QED
    BY <1>1, <2>1, <2>2, <2>3, <2>4, <2>5 DEF TypeOK
<1>3. OneOperation
  BY <1>1 DEF OneOperation, BrowserInv, LastOnly
<1>4. ActsOnVerified
  BY DEF ActsOnVerified, BrowserInv, Verifies, Ready, LoopAlive, Underway
<1>5. DroppedCloses
  <2>1. ASSUME NEW s \in 1..Len(queue), s # session
        PROVE  worker[s] = "closed" \/ (queue[s] # <<>> /\ queue[s][Len(queue[s])] = Close)
    <3>1. /\ <<Close>> # <<>> /\ Len(<<Close>>) = 1 /\ <<Close>>[1] = Close
          /\ <<Last, Close>> # <<>> /\ Len(<<Last, Close>>) = 2 /\ <<Last, Close>>[2] = Close
      OBVIOUS
    <3>2. Dropped(s)
      BY <2>1 DEF BrowserInv, Queues
    <3>3. CASE queue[s] = <<Close>>
      BY <3>1, <3>3
    <3>4. CASE queue[s] = <<Last, Close>>
      BY <3>1, <3>4
    <3> QED
      BY <3>2, <3>3, <3>4 DEF Dropped
  <2> QED
    BY <1>1, <2>1 DEF DroppedCloses
<1> QED
  BY <1>2, <1>3, <1>4, <1>5 DEF OneVerifiedOperation

(* However the program ends, the history shows what was done, once.        *)
LEMMA InvShowsHistory ==
  ASSUME BrowserInv
  PROVE  HistoryTrue
<1>1. Futures = 1..Last /\ Last \in Nat
  BY DEF BrowserInv, Types, Last, Futures
<1>2. RecordedOnce
  BY <1>1 DEF RecordedOnce, BrowserInv, Results
<1>3. ASSUME app = "ended", NEW f \in 1..Last, Op(f) \in Writing, outcome[f] # "error"
      PROVE  outcome[f] # "none" /\ history[f] > 0
  <2>1. LoopDead /\ ui = "idle"
    BY <1>3 DEF LoopDead, LoopAlive, BrowserInv, LastOnly
  <2>2. f = Last => ~Underway
    BY <1>3, <2>1 DEF BrowserInv, Results, Underway
  <2>3. outcome[f] # "none"
    BY <1>3, <2>2 DEF BrowserInv, LastOnly
  <2> QED
    BY <1>3, <2>2, <2>3 DEF BrowserInv, Results
<1> QED
  BY <1>1, <1>2, <1>3 DEF HistoryTrue, NothingLost

(* Only a confirmed write adds a write, to the connection its preparation  *)
(* was read from, which is verified.                                       *)
LEMMA WritesGoWherePrepared ==
  ASSUME BrowserConstants, BrowserInv, [Next]_vars
  PROVE  WriteWherePrepared
<1> SUFFICES ASSUME NEW s \in DOMAIN queue, Len(kind') > Len(kind),
                    kind'[Len(kind')].op = "write", queue'[s] # queue[s]
             PROVE  pending = s /\ verified
  BY DEF WriteWherePrepared
<1>1. kind' # kind
  OBVIOUS
<1>2. ASSUME NEW k \in Kinds, NEW r \in 1..MaxSessions,
             kind' = Append(kind, [op |-> k, via |-> r])
      PROVE  k = "write"
  <2>1. kind \in Seq(KindRecords) /\ [op |-> k, via |-> r] \in KindRecords
    BY DEF BrowserInv, Types, KindRecords
  <2>2. kind'[Len(kind')] = [op |-> k, via |-> r]
    BY <1>2, <2>1, AppendProperties
  <2> QED
    BY <2>2
<1>3. session \in 0..Len(queue) /\ Len(queue) \in Nat /\ Len(queue) <= MaxSessions
      /\ MaxSessions \in Nat
  BY DEF BrowserInv, Types, BrowserConstants
<1>4. CASE BeginConnect
  <2>1. Len(queue) + 1 \in 1..MaxSessions
    BY <1>3, <1>4 DEF BeginConnect
  <2> QED
    BY <1>2, <1>4, <2>1 DEF BeginConnect, Kinds
<1>5. ASSUME NEW k \in Kinds, Submit(session, k), session # 0 PROVE k = "write"
  <2>1. session \in 1..MaxSessions
    BY <1>3, <1>5
  <2> QED
    BY <1>2, <1>5, <2>1 DEF Submit
<1>6. ASSUME Told, Found PROVE FALSE
  BY <1>1, <1>5, <1>6 DEF Told, Finished, Found, Kinds, Submit
<1>7. CASE ConfirmWrite
  <2>1. pending = session /\ verified
    BY <1>7 DEF ConfirmWrite, BrowserInv, Verifies, Ready, LoopAlive, Underway
  <2>2. queue' = [queue EXCEPT ![session] = Append(@, Len(kind) + 1)]
    BY <1>7 DEF ConfirmWrite, Submit
  <2> QED
    BY <2>1, <2>2
<1>8. ~Dialogs /\ ~Disconnect /\ ~Quit /\ ~Track /\ ~Workers /\ ~Teardown /\ ~UNCHANGED vars
  BY <1>1
  DEF Dialogs, OpenForm, CancelForm, EditOffline, EditorEnds, EditorAccepts, ConfirmEnds,
      FatalError, LoopEnds, Disconnect, Quit, Track, Workers, Worker, Work, CallRefused,
      Teardown, FirstHarvest, SecondHarvest, Harvest, CloseTransport, TransportClosed, vars
<1>9. ~EditLive /\ ~Recheck
  BY <1>5 DEF EditLive, Recheck, Kinds
<1>10. ~FinishInline
  BY <1>6, FinishTells, CallbackFinds
<1>11. ~\E r \in DOMAIN queue : Deliver(r)
  <2>1. DOMAIN queue = 1..Len(queue)
    BY DEF BrowserInv, Types
  <2> QED
    BY <1>6, <2>1, DeliverTells, CallbackFinds
<1> QED
  BY <1>4, <1>7, <1>8, <1>9, <1>10, <1>11 DEF Next, User, Loop, Dialogs
=============================================================================
