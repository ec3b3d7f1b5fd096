------------------------- MODULE EnhancedWireProofs -------------------------
(***************************************************************************)
(* Proofs about EnhancedWire for every set of telegrams, every NACK limit  *)
(* and every number of operations: types and the admission of every        *)
(* telegram, the state in which an attempt leaves the bus and the          *)
(* connection, and that a reply answers the telegram it is returned for,   *)
(* although answers of earlier operations may still be travelling.         *)
(***************************************************************************)
EXTENDS EnhancedWire, TLAPS

(* The types but for the queue.                                            *)
ScalarTypes ==
  /\ pc \in Waits \union {"idle"} /\ session \in {"open", "closed"}
  /\ op \in 0..MaxOps /\ telegram \in Telegrams
  /\ echoed \in 0..telegram.pieces /\ nacks \in 0..NackMax /\ crc_errors \in 0..2
  /\ ending \in {"none", "ok", "nack", "crc", "again", "hook_raised"}
  /\ mismatch_count \in 0..2 /\ guard \in BOOLEAN /\ result \in Results
  /\ admitted \in 0..(NackMax + 1) /\ transmitted \in 0..(NackMax + 1)
  /\ owned \in BOOLEAN

(* Where an attempt is, and what it has done by then.                      *)
PhaseInv ==
  /\ pc # "idle" => session = "open" /\ op >= 1 /\ result = "none"
  /\ pc = "send" => echoed < telegram.pieces
  /\ pc = "ack" => telegram.expects # "none"
  /\ pc \in {"reply", "answer"} => telegram.expects = "reply"
  /\ pc \in {"arb", "send", "ack"} => crc_errors = 0
  /\ pc = "reply" => crc_errors <= 1
  /\ pc = "answer" => ending \in {"ok", "again", "crc"} /\ (ending = "again" => crc_errors = 1)
  /\ pc = "eom" => ending \in {"ok", "nack", "crc", "hook_raised"}

(* Every telegram was admitted: the first by the attempt, every further    *)
(* one with the NACK that it repeats.                                      *)
AdmissionInv ==
  /\ transmitted <= admitted
  /\ pc = "arb" => transmitted = 0 /\ admitted = 1 /\ nacks = 0
  /\ pc \in {"send", "ack", "reply", "answer"} =>
       transmitted = nacks + 1 /\ admitted = nacks + 1

WireInv == ScalarTypes /\ PhaseInv /\ AdmissionInv /\ AttemptEndsOrderly

-----------------------------------------------------------------------------
(* The queue.  Frames come in the order of their operations, the grant of  *)
(* an operation first; the frames of one operation carry one telegram;     *)
(* and between a frame and what a later operation sent after its grant,    *)
(* that grant is still there.                                              *)
InOrder(q) ==
  \A i, j \in 1..Len(q) : i < j =>
    /\ q[i].op <= q[j].op
    /\ q[j].what = "grant" => q[i].op < q[j].op
    /\ q[i].op = q[j].op => q[i].telegram = q[j].telegram
    /\ q[i].op < q[j].op /\ q[j].what \notin {"grant", "info"} =>
         \E k \in 1..Len(q) :
           i < k /\ k < j /\ q[k].what = "grant" /\ q[k].op = q[j].op
(* No frame is of a later operation than n, and those of n carry t.        *)
UpTo(q, n, t) ==
  \A i \in 1..Len(q) : q[i].op <= n /\ (q[i].op = n => q[i].telegram = t)
(* Behind every older frame there is the grant of operation n.             *)
GrantBehind(q, n) ==
  \A i \in 1..Len(q) : q[i].op < n =>
    \E k \in 1..Len(q) : i < k /\ q[k].what = "grant" /\ q[k].op = n
(* A reply that can be read before any grant answers telegram t.           *)
RepliesTo(q, t) ==
  \A j \in 1..Len(q) :
    q[j].what = "reply" /\ (\A i \in 1..Len(q) : i < j => q[i].what # "grant") =>
      q[j].telegram = t

QueueInv ==
  /\ owed \in Seq(Frames) /\ accepted \in SUBSET Frames
  /\ InOrder(owed) /\ UpTo(owed, op, telegram)
  /\ pc \in Waits \ {"info"} => GrantBehind(owed, op)
  /\ pc \in {"ack", "reply", "answer"} => RepliesTo(owed, telegram)

(* What was accepted answers the telegram.                                 *)
Answered ==
  {frame.telegram : frame \in accepted} = IF telegram.expects = "reply" THEN {telegram} ELSE {}
AcceptedInv ==
  /\ pc \in {"arb", "send", "ack", "reply"} => accepted = {}
  /\ pc = "answer" /\ ending # "ok" => accepted = {}
  /\ pc \in {"answer", "eom"} /\ ending = "ok" => Answered
  /\ result = "ok" => Answered

IInv == WireInv /\ QueueInv /\ AcceptedInv
-----------------------------------------------------------------------------
(* The boolean variables keep their type.                                  *)
LEMMA FlagsStep ==
  guard \in BOOLEAN /\ owned \in BOOLEAN /\ [Next]_vars
    => guard' \in BOOLEAN /\ owned' \in BOOLEAN
<1> SUFFICES ASSUME guard \in BOOLEAN, owned \in BOOLEAN, [Next]_vars
             PROVE  guard' \in BOOLEAN /\ owned' \in BOOLEAN
  OBVIOUS
<1> USE DEF history, Close, OpenSession, AdapterReset, ResetParser, KeepLine, KeepQueue, Fails,
            End, SendTelegram, SendEndOfMessage, GuardAfterSymbol
<1>1. CASE Open
  BY <1>1, Zenon DEF Open
<1>2. CASE CloseSession
  BY <1>2, Zenon DEF CloseSession
<1>3. CASE StartAttempt
  BY <1>3, Zenon DEF StartAttempt
<1>4. CASE RequestInfo
  BY <1>4, Zenon DEF RequestInfo
<1>5. ASSUME NEW f, NEW q, ArbitrationRead(f, q) PROVE guard' \in BOOLEAN /\ owned' \in BOOLEAN
  BY <1>5, Zenon DEF ArbitrationRead
<1>6. ASSUME NEW f, NEW q, ControlRead(f, q) PROVE guard' \in BOOLEAN /\ owned' \in BOOLEAN
  BY <1>6, Zenon DEF ControlRead
<1>7. ASSUME NEW f, NEW q, TelegramEcho(f, q) PROVE guard' \in BOOLEAN /\ owned' \in BOOLEAN
  BY <1>7, Zenon DEF TelegramEcho
<1>8. ASSUME NEW f, NEW q, CommandAck(f, q) PROVE guard' \in BOOLEAN /\ owned' \in BOOLEAN
  BY <1>8, Zenon DEF CommandAck
<1>9. ASSUME NEW f, NEW from, NEW q, Response(f, from, q)
      PROVE  guard' \in BOOLEAN /\ owned' \in BOOLEAN
  BY <1>9, Zenon DEF Response
<1>10. ASSUME NEW f, NEW q, ResponseAnswered(f, q)
       PROVE  guard' \in BOOLEAN /\ owned' \in BOOLEAN
  BY <1>10, Zenon DEF ResponseAnswered
<1>11. ASSUME NEW f, NEW q, EndOfMessage(f, q) PROVE guard' \in BOOLEAN /\ owned' \in BOOLEAN
  BY <1>11, Zenon DEF EndOfMessage
<1>12. ASSUME NEW f, NEW from, NEW q, InfoRead(f, from, q)
       PROVE  guard' \in BOOLEAN /\ owned' \in BOOLEAN
  BY <1>12, Zenon DEF InfoRead
<1>13. CASE ReadTimeout
  BY <1>13, Zenon DEF ReadTimeout
<1>14. CASE ConnectionLost
  BY <1>14, Zenon DEF ConnectionLost
<1>15. CASE DeadlineExpires
  BY <1>15, Zenon DEF DeadlineExpires
<1>16. CASE UNCHANGED vars
  BY <1>16, Zenon DEF vars
<1> QED
  BY <1>1, <1>2, <1>3, <1>4, <1>5, <1>6, <1>7, <1>8, <1>9, <1>10, <1>11, <1>12, <1>13, <1>14,
     <1>15, <1>16, Zenon DEF Next, Read

(* Types, phases, admissions and the ends of attempts are inductive.       *)
LEMMA WireInit == Init => WireInv
<1> SUFFICES ASSUME Init PROVE WireInv
  OBVIOUS
<1>1. telegram \in Telegrams /\ telegram.pieces \in Nat \ {0}
  BY WireConstants DEF WireConstants, AllTelegrams, Init
<1>2. guard \in BOOLEAN /\ owned \in BOOLEAN
  BY Zenon DEF Init
<1> QED
  BY <1>1, <1>2, WireConstants
  DEF WireConstants, Init, WireInv, ScalarTypes, PhaseInv, AdmissionInv, AttemptEndsOrderly,
      EndsAsThePolicyExpects, AttemptEnds, BusGivenBack, GuardOnlyBeforeFirstEcho, Results, Waits

LEMMA WireStep == WireInv /\ [Next]_vars => WireInv'
<1> SUFFICES ASSUME WireInv, [Next]_vars PROVE WireInv'
  OBVIOUS
<1>0. /\ guard' \in BOOLEAN /\ owned' \in BOOLEAN
      /\ NackMax \in Nat /\ MaxOps \in Nat \ {0}
      /\ \A t \in Telegrams : t.pieces \in Nat \ {0} /\ t.expects \in {"none", "ack", "reply"}
  BY FlagsStep, WireConstants DEF WireConstants, AllTelegrams, WireInv, ScalarTypes
<1> USE <1>0 DEF WireInv, ScalarTypes, PhaseInv, AdmissionInv, AttemptEndsOrderly,
        EndsAsThePolicyExpects, AttemptEnds, BusGivenBack, GuardOnlyBeforeFirstEcho, Results, Waits,
        request, progress, history, Close, OpenSession, OpenFailures, AdapterReset, ResetParser,
        KeepLine, KeepQueue, End
<1>1. CASE Open
  BY <1>1 DEF Open
<1>2. CASE CloseSession
  BY <1>2 DEF CloseSession
<1>3. CASE StartAttempt
  BY <1>3 DEF StartAttempt, NewOperation
<1>4. CASE RequestInfo
  BY <1>4 DEF RequestInfo, NewOperation
<1>5. ASSUME NEW f, NEW q, ArbitrationRead(f, q) PROVE WireInv'
  BY <1>5 DEF ArbitrationRead, SendTelegram
<1>6. ASSUME NEW f, NEW q, ControlRead(f, q) PROVE WireInv'
  BY <1>6 DEF ControlRead, BusWaits, Fails, Releasing
<1>7. ASSUME NEW f, NEW q, TelegramEcho(f, q) PROVE WireInv'
  BY <1>7 DEF TelegramEcho, GuardAfterSymbol, SendEndOfMessage
<1>8. ASSUME NEW f, NEW q, CommandAck(f, q) PROVE WireInv'
  <2>1. /\ pc = "ack" /\ guard' = FALSE
        /\ UNCHANGED <<session, request, crc_errors, mismatch_count, accepted>>
    BY <1>8 DEF CommandAck
  <2>2. CASE /\ MayRepeat /\ nacks' = nacks + 1 /\ UNCHANGED owned
             /\ SendTelegram(q) /\ admitted' = Readmitted /\ UNCHANGED <<ending, result>>
    BY <2>1, <2>2 DEF MayRepeat, Readmitted, SendTelegram
  <2>3. CASE /\ MayRepeat /\ nacks' = nacks + 1 /\ UNCHANGED owned
             /\ SendEndOfMessage("hook_raised", q) /\ UNCHANGED <<echoed, admitted, transmitted>>
    BY <2>1, <2>3 DEF MayRepeat, SendEndOfMessage
  <2>4. CASE SendEndOfMessage("nack", q) /\ UNCHANGED <<owned, nacks, echoed, admitted, transmitted>>
    BY <2>1, <2>4 DEF SendEndOfMessage
  <2>5. CASE /\ End("syn") /\ owned' = FALSE
             /\ UNCHANGED <<nacks, ending, echoed, admitted, transmitted>>
    BY <2>1, <2>5
  <2>6. CASE /\ UNCHANGED <<owned, nacks, echoed, admitted, transmitted>>
             /\ \/ telegram.expects = "reply" /\ pc' = "reply" /\ UNCHANGED <<ending, result>>
                \/ telegram.expects = "ack" /\ SendEndOfMessage("ok", q)
    BY <2>1, <2>6 DEF SendEndOfMessage
  <2>7. CASE End("sync_ack") /\ UNCHANGED <<owned, nacks, ending, echoed, admitted, transmitted>>
    BY <2>1, <2>7
  <2> QED
    BY <1>8, <2>2, <2>3, <2>4, <2>5, <2>6, <2>7, Zenon DEF CommandAck
<1>9. ASSUME NEW f, NEW from, NEW q, Response(f, from, q) PROVE WireInv'
  BY <1>9 DEF Response
<1>10. ASSUME NEW f, NEW q, ResponseAnswered(f, q) PROVE WireInv'
  BY <1>10 DEF ResponseAnswered, SendEndOfMessage
<1>11. ASSUME NEW f, NEW q, EndOfMessage(f, q) PROVE WireInv'
  BY <1>11 DEF EndOfMessage, Fails, Releasing
<1>12. ASSUME NEW f, NEW from, NEW q, InfoRead(f, from, q) PROVE WireInv'
  BY <1>12 DEF InfoRead
<1>13. CASE ReadTimeout
  BY <1>13 DEF ReadTimeout, Fails, Releasing
<1>14. CASE ConnectionLost
  BY <1>14 DEF ConnectionLost, Releasing
<1>15. CASE DeadlineExpires
  BY <1>15 DEF DeadlineExpires
<1>16. CASE UNCHANGED vars
  BY <1>16 DEF vars
<1> QED
  BY <1>1, <1>2, <1>3, <1>4, <1>5, <1>6, <1>7, <1>8, <1>9, <1>10, <1>11, <1>12, <1>13, <1>14,
     <1>15, <1>16 DEF Next, Read
-----------------------------------------------------------------------------
(* The end of a queue has its frames in their places.                      *)
LEMMA EndOfQueue ==
  ASSUME NEW p \in Seq(Frames), NEW k \in 0..Len(p)
  PROVE  LET q == SubSeq(p, k + 1, Len(p))
         IN  /\ q \in Seq(Frames) /\ Len(q) = Len(p) - k
             /\ \A i \in 1..Len(q) : i + k \in 1..Len(p) /\ q[i] = p[i + k]
OBVIOUS

(* So has what a reset of the parser leaves.                               *)
LEMMA DrainedShape ==
  ASSUME NEW p \in Seq(Frames), NEW q \in Drained(p)
  PROVE  /\ q \in Seq(Frames)
         /\ \E k \in 0..Len(p) :
              /\ Len(q) = Len(p) - k
              /\ \A i \in 1..Len(q) : i + k \in 1..Len(p) /\ q[i] = p[i + k]
<1>1. PICK k \in 0..Len(p) : q = SubSeq(p, k + 1, Len(p))
  BY DEF Drained
<1> QED
  BY <1>1, EndOfQueue

LEMMA AllOrNothingLeft ==
  ASSUME NEW p \in Seq(Frames)
  PROVE  p \in Drained(p) /\ <<>> \in Drained(p)
<1>1. Len(p) \in Nat /\ 0 \in 0..Len(p) /\ Len(p) \in 0..Len(p)
  OBVIOUS
<1>2. p = SubSeq(p, 0 + 1, Len(p)) /\ <<>> = SubSeq(p, Len(p) + 1, Len(p))
  BY <1>1
<1> QED
  BY <1>1, <1>2 DEF Drained

(* The order and the grants survive when a part of the queue is drained.   *)
LEMMA DrainedKeeps ==
  ASSUME NEW p \in Seq(Frames), NEW q \in Drained(p), NEW n \in Nat, NEW t
  PROVE  /\ InOrder(p) => InOrder(q)
         /\ UpTo(p, n, t) => UpTo(q, n, t)
         /\ GrantBehind(p, n) => GrantBehind(q, n)
<1>1. PICK k \in 0..Len(p) :
        /\ Len(q) = Len(p) - k
        /\ \A i \in 1..Len(q) : i + k \in 1..Len(p) /\ q[i] = p[i + k]
  BY DrainedShape
<1>2. Len(p) \in Nat /\ Len(q) \in Nat
  BY DrainedShape
<1>3. ASSUME InOrder(p) PROVE InOrder(q)
  <2> SUFFICES ASSUME NEW i \in 1..Len(q), NEW j \in 1..Len(q), i < j
               PROVE  /\ q[i].op <= q[j].op
                      /\ q[j].what = "grant" => q[i].op < q[j].op
                      /\ q[i].op = q[j].op => q[i].telegram = q[j].telegram
                      /\ q[i].op < q[j].op /\ q[j].what \notin {"grant", "info"} =>
                           \E g \in 1..Len(q) :
                             i < g /\ g < j /\ q[g].what = "grant" /\ q[g].op = q[j].op
    BY Zenon DEF InOrder
  <2>1. i + k \in 1..Len(p) /\ j + k \in 1..Len(p) /\ i + k < j + k
        /\ q[i] = p[i + k] /\ q[j] = p[j + k]
    BY <1>1, <1>2
  <2>2. ASSUME q[i].op < q[j].op, q[j].what \notin {"grant", "info"}
        PROVE  \E g \in 1..Len(q) : i < g /\ g < j /\ q[g].what = "grant" /\ q[g].op = q[j].op
    <3>1. PICK g \in 1..Len(p) : i + k < g /\ g < j + k /\ p[g].what = "grant" /\ p[g].op = p[j + k].op
      BY <1>3, <2>1, <2>2 DEF InOrder
    <3>2. g - k \in 1..Len(q) /\ i < g - k /\ g - k < j /\ q[g - k] = p[g]
      BY <1>1, <1>2, <3>1
    <3> QED
      BY <2>1, <3>1, <3>2
  <2> QED
    BY <1>3, <2>1, <2>2 DEF InOrder
<1>4. ASSUME UpTo(p, n, t) PROVE UpTo(q, n, t)
  BY <1>1, <1>4 DEF UpTo
<1>5. ASSUME GrantBehind(p, n) PROVE GrantBehind(q, n)
  <2> SUFFICES ASSUME NEW i \in 1..Len(q), q[i].op < n
               PROVE  \E g \in 1..Len(q) : i < g /\ q[g].what = "grant" /\ q[g].op = n
    BY DEF GrantBehind
  <2>1. PICK g \in 1..Len(p) : i + k < g /\ p[g].what = "grant" /\ p[g].op = n
    BY <1>1, <1>5 DEF GrantBehind
  <2>2. g - k \in 1..Len(q) /\ i < g - k /\ q[g - k] = p[g]
    BY <1>1, <1>2, <2>1
  <2> QED
    BY <2>1, <2>2
<1> QED
  BY <1>3, <1>4, <1>5

(* The fields of a frame in flight.                                        *)
LEMMA FrameOps ==
  ASSUME NEW q \in Seq(Frames)
  PROVE  \A i \in 1..Len(q) : q[i] \in Frames /\ q[i].op \in Nat /\ q[i].telegram \in Telegrams
<1>1. \A i \in 1..Len(q) : q[i] \in Frames
  OBVIOUS
<1> QED
  BY <1>1, WireConstants DEF Frames, WireConstants

(* What is left after a read, too, is the end of the queue.                *)
LEMMA ReadLeaves ==
  ASSUME owed \in Seq(Frames), NEW r \in Readable
  PROVE  r.rest \in Drained(owed)
<1>1. owed \in Drained(owed)
  BY AllOrNothingLeft
<1>2. CASE owed = <<>>
  BY <1>1, <1>2 DEF Readable
<1>3. ASSUME owed # <<>>, NEW f, r.rest = Left(f) PROVE r.rest \in Drained(owed)
  <2>1. Len(owed) \in Nat \ {0} /\ Tail(owed) = SubSeq(owed, 1 + 1, Len(owed)) /\ Tail(owed) \in Seq(Frames)
    BY <1>3
  <2>2. Tail(owed) \in Drained(owed)
    BY <2>1 DEF Drained
  <2>3. ASSUME Tail(owed) # <<>> PROVE Tail(Tail(owed)) \in Drained(owed)
    <3>1. Len(owed) >= 2 /\ Tail(Tail(owed)) = SubSeq(owed, 2 + 1, Len(owed))
      BY <2>1, <2>3
    <3> QED
      BY <2>1, <3>1 DEF Drained
  <2> QED
    BY <1>3, <2>2, <2>3 DEF Left
<1> QED
  BY <1>1, <1>2, <1>3 DEF Readable

(* Replies that answer t are still ahead of any grant after frames that    *)
(* are no grants were read.                                                *)
LEMMA DropKeepsReplies ==
  ASSUME NEW p \in Seq(Frames), NEW k \in 0..Len(p), NEW t,
         \A i \in 1..k : p[i].what # "grant", RepliesTo(p, t)
  PROVE  RepliesTo(SubSeq(p, k + 1, Len(p)), t)
<1> DEFINE q == SubSeq(p, k + 1, Len(p))
<1>1. Len(p) \in Nat /\ Len(q) = Len(p) - k
      /\ \A i \in 1..Len(q) : i + k \in 1..Len(p) /\ q[i] = p[i + k]
  BY EndOfQueue
<1> HIDE DEF q
<1> SUFFICES ASSUME NEW j \in 1..Len(q), q[j].what = "reply",
                    \A i \in 1..Len(q) : i < j => q[i].what # "grant"
             PROVE  q[j].telegram = t
  BY DEF q, RepliesTo
<1>2. ASSUME NEW i \in 1..Len(p), i < j + k PROVE p[i].what # "grant"
  <2>1. CASE i <= k
    BY <2>1
  <2>2. CASE i > k
    <3>1. i - k \in 1..Len(q) /\ i - k < j /\ q[i - k] = p[i]
      BY <1>1, <1>2, <2>2
    <3> QED
      BY <3>1
  <2> QED
    BY <2>1, <2>2, <1>1
<1> QED
  BY <1>1, <1>2 DEF RepliesTo

(* A frame that answers something is one the head of the queue can be      *)
(* delivered as; the rest is the queue without it, and without the reply   *)
(* that is not sent.                                                       *)
LEMMA ReadShape ==
  ASSUME owed \in Seq(Frames), NEW r \in Readable
  PROVE  \/ r.frame \in Unsolicited /\ r.rest = owed /\ r.from = {}
         \/ /\ owed # <<>> /\ r.frame \in Deliveries(Head(owed)) /\ r.from = {Head(owed)}
            /\ Head(owed) \in Frames /\ Head(owed) = owed[1] /\ Len(owed) \in Nat \ {0}
            /\ \/ r.rest = SubSeq(owed, 1 + 1, Len(owed))
               \/ /\ Len(owed) >= 2 /\ owed[1].what = "ack" /\ owed[2].what = "reply"
                  /\ r.frame # "ACK" /\ r.rest = SubSeq(owed, 2 + 1, Len(owed))
<1>1. CASE owed = <<>>
  BY <1>1 DEF Readable
<1>2. CASE owed # <<>>
  <2>1. /\ Head(owed) \in Frames /\ Head(owed) = owed[1] /\ Len(owed) \in Nat \ {0}
        /\ Tail(owed) = SubSeq(owed, 1 + 1, Len(owed)) /\ Tail(owed) \in Seq(Frames)
    BY <1>2
  <2>2. ASSUME Tail(owed) # <<>>
        PROVE  Len(owed) >= 2 /\ Tail(Tail(owed)) = SubSeq(owed, 2 + 1, Len(owed))
    BY <2>1, <2>2
  <2>3. CASE r.frame \in Unsolicited /\ r.rest = owed /\ r.from = {}
    BY <2>3
  <2>4. CASE r.frame \in Deliveries(Head(owed)) /\ r.from = {Head(owed)} /\ r.rest = Left(r.frame)
    BY <1>2, <2>1, <2>2, <2>4 DEF Left, Withheld
  <2> QED
    BY <1>2, <2>3, <2>4 DEF Readable
<1> QED
  BY <1>1, <1>2

(* What a frame of each kind can be delivered as.                          *)
LEMMA DeliveryKinds ==
  ASSUME NEW frame \in Frames, NEW f \in Deliveries(frame)
  PROVE  /\ f \in Symbols \union {"INFO"} => frame.what # "grant"
         /\ f = "good" => frame.what = "reply"
         /\ f = "echo" => EchoMatches(frame)
<1>1. frame.what \in {"grant", "echo", "last", "ack", "reply", "info"}
  BY DEF Frames
<1> QED
  BY <1>1 DEF Deliveries, Symbols

(* A bus symbol or an INFO frame that is read is no grant, so the replies  *)
(* that come before any grant stay so.                                     *)
LEMMA ReadKeepsReplies ==
  ASSUME owed \in Seq(Frames), NEW r \in Readable, NEW t,
         r.frame \in Symbols \union {"INFO"}, RepliesTo(owed, t)
  PROVE  RepliesTo(r.rest, t)
<1>1. CASE r.rest = owed
  BY <1>1
<1>2. CASE r.rest # owed
  <2>1. /\ owed # <<>> /\ r.frame \in Deliveries(Head(owed))
        /\ Head(owed) \in Frames /\ Head(owed) = owed[1] /\ Len(owed) \in Nat \ {0}
        /\ \/ r.rest = SubSeq(owed, 1 + 1, Len(owed))
           \/ /\ Len(owed) >= 2 /\ owed[1].what = "ack" /\ owed[2].what = "reply"
              /\ r.rest = SubSeq(owed, 2 + 1, Len(owed))
    BY <1>2, ReadShape
  <2>2. owed[1].what # "grant"
    BY <2>1, DeliveryKinds
  <2>3. CASE r.rest = SubSeq(owed, 1 + 1, Len(owed))
    <3>1. 1 \in 0..Len(owed) /\ \A i \in 1..1 : owed[i].what # "grant"
      BY <2>1, <2>2
    <3> QED
      BY <2>3, <3>1, DropKeepsReplies
  <2>4. CASE Len(owed) >= 2 /\ owed[2].what = "reply" /\ r.rest = SubSeq(owed, 2 + 1, Len(owed))
    <3>1. 2 \in 0..Len(owed) /\ \A i \in 1..2 : owed[i].what # "grant"
      BY <2>1, <2>2, <2>4
    <3> QED
      BY <2>4, <3>1, DropKeepsReplies
  <2> QED
    BY <2>1, <2>3, <2>4
<1> QED
  BY <1>1, <1>2

(* The echo that ends a telegram is that of an identical one; the replies  *)
(* behind it, up to the next grant, were sent for the same operation.      *)
LEMMA LastEcho ==
  ASSUME owed \in Seq(Frames), InOrder(owed), NEW r \in Readable, r.frame = "echo",
         pc = "send", echoed + 1 = telegram.pieces
  PROVE  RepliesTo(r.rest, telegram)
<1>1. /\ owed # <<>> /\ r.frame \in Deliveries(Head(owed))
      /\ Head(owed) \in Frames /\ Head(owed) = owed[1] /\ Len(owed) \in Nat \ {0}
      /\ \/ r.rest = SubSeq(owed, 1 + 1, Len(owed))
         \/ owed[1].what = "ack"
  BY ReadShape DEF Unsolicited
<1>2. owed[1].what = "last" /\ owed[1].telegram = telegram
  BY <1>1, DeliveryKinds DEF EchoMatches
<1> DEFINE q == SubSeq(owed, 1 + 1, Len(owed))
<1>3. r.rest = q /\ Len(q) = Len(owed) - 1
      /\ \A i \in 1..Len(q) : i + 1 \in 1..Len(owed) /\ q[i] = owed[i + 1]
  <2>1. r.rest = q
    BY <1>1, <1>2
  <2>2. Len(owed) \in Nat \ {0} /\ 1 \in 0..Len(owed)
    BY <1>1
  <2>3. Len(q) = Len(owed) - 1 /\ \A i \in 1..Len(q) : i + 1 \in 1..Len(owed) /\ q[i] = owed[i + 1]
    BY <2>2, EndOfQueue
  <2> QED
    BY <2>1, <2>3
<1> HIDE DEF q
<1> SUFFICES ASSUME NEW j \in 1..Len(q), q[j].what = "reply",
                    \A i \in 1..Len(q) : i < j => q[i].what # "grant"
             PROVE  q[j].telegram = telegram
  BY <1>3 DEF RepliesTo
<1>4. 1 \in 1..Len(owed) /\ j + 1 \in 1..Len(owed) /\ 1 < j + 1
      /\ owed[1].op \in Nat /\ owed[j + 1].op \in Nat
  <2>1. 1 \in 1..Len(owed) /\ j + 1 \in 1..Len(owed) /\ 1 < j + 1
    BY <1>1, <1>3
  <2>2. owed[1] \in Frames /\ owed[j + 1] \in Frames
    BY <2>1
  <2> QED
    BY <2>1, <2>2, WireConstants DEF Frames, WireConstants
<1>5. ASSUME owed[1].op < owed[j + 1].op PROVE FALSE
  <2>1. PICK k \in 1..Len(owed) : 1 < k /\ k < j + 1 /\ owed[k].what = "grant"
    BY <1>3, <1>4, <1>5 DEF InOrder
  <2>2. k - 1 \in 1..Len(q) /\ k - 1 < j /\ q[k - 1] = owed[k]
    BY <1>1, <1>3, <2>1
  <2> QED
    BY <2>1, <2>2
<1>6. owed[1].op = owed[j + 1].op
  BY <1>4, <1>5 DEF InOrder
<1> QED
  BY <1>2, <1>3, <1>4, <1>6 DEF InOrder

(* Frames by what they are; those an operation causes after its grant.     *)
Kinds == {"grant", "echo", "last", "ack", "reply", "info"}
OnTheBus == {"echo", "last", "ack", "reply"}
(* A queue in order up to operation n, which sends t.                      *)
Sound(q, n, t) == q \in Seq(Frames) /\ InOrder(q) /\ UpTo(q, n, t)
(* r is q with the frames whats of operation n, which sends t, behind it.  *)
Extends(r, q, n, t, whats) ==
  /\ r \in Seq(Frames) /\ Len(r) = Len(q) + Len(whats)
  /\ \A i \in 1..Len(q) : r[i] = q[i]
  /\ \A i \in 1..Len(r) : i > Len(q) =>
       /\ i - Len(q) \in 1..Len(whats)
       /\ r[i] = [what |-> whats[i - Len(q)], op |-> n, telegram |-> t]

(* What is sent in answer to an operation goes to the end of the queue.    *)
LEMMA OweShape ==
  ASSUME NEW q \in Seq(Frames), NEW n \in 1..MaxOps, NEW t \in Telegrams,
         NEW whats \in Seq(Kinds)
  PROVE  Extends(OweFor(n, t, q, whats), q, n, t, whats)
<1> DEFINE s == [i \in 1..Len(whats) |-> [what |-> whats[i], op |-> n, telegram |-> t]]
<1>1. Len(whats) \in Nat /\ \A i \in 1..Len(whats) : s[i] \in Frames
  BY DEF Frames, Kinds
<1>2. s \in Seq(Frames) /\ Len(s) = Len(whats)
  BY <1>1
<1>3. \A i \in 1..Len(whats) : s[i] = [what |-> whats[i], op |-> n, telegram |-> t]
  OBVIOUS
<1> DEFINE r == q \o s
<1>4. OweFor(n, t, q, whats) = r
  BY DEF OweFor
<1> HIDE DEF s
<1>5. /\ r \in Seq(Frames) /\ Len(r) = Len(q) + Len(s) /\ Len(q) \in Nat
      /\ \A i \in 1..Len(q) : r[i] = q[i]
      /\ \A i \in 1..Len(r) : i > Len(q) => r[i] = s[i - Len(q)]
  BY <1>2
<1> HIDE DEF r
<1>6. \A i \in 1..Len(r) : i > Len(q) =>
        /\ i - Len(q) \in 1..Len(whats)
        /\ r[i] = [what |-> whats[i - Len(q)], op |-> n, telegram |-> t]
  <2> TAKE i \in 1..Len(r)
  <2> HAVE i > Len(q)
  <2>1. i - Len(q) \in 1..Len(whats) /\ r[i] = s[i - Len(q)]
    BY <1>1, <1>2, <1>5
  <2>2. s[i - Len(q)] = [what |-> whats[i - Len(q)], op |-> n, telegram |-> t]
    BY <1>3, <2>1
  <2> QED
    BY <2>1, <2>2
<1>7. Extends(r, q, n, t, whats)
  BY <1>2, <1>5, <1>6 DEF Extends
<1> QED
  BY <1>4, <1>7

(* An operation that goes on adds to the queue, behind its grant.          *)
LEMMA OweKeeps ==
  ASSUME NEW q \in Seq(Frames), NEW n \in 1..MaxOps, NEW t \in Telegrams,
         NEW whats \in Seq(OnTheBus),
         InOrder(q), UpTo(q, n, t), GrantBehind(q, n)
  PROVE  /\ Sound(OweFor(n, t, q, whats), n, t) /\ GrantBehind(OweFor(n, t, q, whats), n)
         /\ RepliesTo(q, t) => RepliesTo(OweFor(n, t, q, whats), t)
<1> DEFINE r == OweFor(n, t, q, whats)
<1>1. whats \in Seq(Kinds) /\ \A i \in 1..Len(whats) : whats[i] \in OnTheBus
  BY DEF OnTheBus, Kinds
<1>2. /\ r \in Seq(Frames) /\ Len(r) \in Nat /\ Len(q) \in Nat /\ Len(q) <= Len(r)
      /\ \A i \in 1..Len(q) : i \in 1..Len(r) /\ r[i] = q[i]
      /\ \A i \in 1..Len(r) : i > Len(q) =>
           r[i].what \in OnTheBus /\ r[i].op = n /\ r[i].telegram = t
  <2>0. Extends(r, q, n, t, whats)
    BY <1>1, OweShape
  <2> HIDE DEF r
  <2>1. /\ r \in Seq(Frames) /\ Len(r) = Len(q) + Len(whats)
        /\ \A i \in 1..Len(q) : r[i] = q[i]
        /\ \A i \in 1..Len(r) : i > Len(q) =>
             /\ i - Len(q) \in 1..Len(whats)
             /\ r[i] = [what |-> whats[i - Len(q)], op |-> n, telegram |-> t]
    BY <2>0 DEF Extends
  <2>2. Len(q) \in Nat /\ Len(whats) \in Nat
    OBVIOUS
  <2>3. \A i \in 1..Len(r) : i > Len(q) =>
          r[i].what \in OnTheBus /\ r[i].op = n /\ r[i].telegram = t
    BY <1>1, <2>1
  <2> QED
    BY <2>1, <2>2, <2>3
<1> HIDE DEF r
<1>3. /\ n \in Nat /\ "grant" \notin OnTheBus /\ "info" \notin OnTheBus
      /\ \A i \in 1..Len(q) : q[i] \in Frames /\ q[i].op \in Nat
  BY FrameOps, WireConstants DEF OnTheBus, WireConstants
<1>4. InOrder(r)
  <2> SUFFICES ASSUME NEW i \in 1..Len(r), NEW j \in 1..Len(r), i < j
               PROVE  /\ r[i].op <= r[j].op
                      /\ r[j].what = "grant" => r[i].op < r[j].op
                      /\ r[i].op = r[j].op => r[i].telegram = r[j].telegram
                      /\ r[i].op < r[j].op /\ r[j].what \notin {"grant", "info"} =>
                           \E g \in 1..Len(r) :
                             i < g /\ g < j /\ r[g].what = "grant" /\ r[g].op = r[j].op
    BY Zenon DEF InOrder
  <2>1. CASE j <= Len(q)
    <3>1. i \in 1..Len(q) /\ j \in 1..Len(q) /\ r[i] = q[i] /\ r[j] = q[j]
      BY <1>2, <2>1
    <3>2. ASSUME q[i].op < q[j].op, q[j].what \notin {"grant", "info"}
          PROVE  \E g \in 1..Len(r) : i < g /\ g < j /\ r[g].what = "grant" /\ r[g].op = q[j].op
      <4>1. PICK g \in 1..Len(q) : i < g /\ g < j /\ q[g].what = "grant" /\ q[g].op = q[j].op
        BY <3>1, <3>2 DEF InOrder
      <4> QED
        BY <1>2, <4>1
    <3> QED
      BY <3>1, <3>2 DEF InOrder
  <2>2. CASE j > Len(q) /\ i <= Len(q)
    <3>1. i \in 1..Len(q) /\ r[i] = q[i] /\ r[j].what \in OnTheBus /\ r[j].op = n /\ r[j].telegram = t
      BY <1>2, <2>2
    <3>2. q[i].op <= n /\ (q[i].op = n => q[i].telegram = t)
      BY <3>1 DEF UpTo
    <3>3. ASSUME q[i].op < n
          PROVE  \E g \in 1..Len(r) : i < g /\ g < j /\ r[g].what = "grant" /\ r[g].op = n
      <4>1. PICK g \in 1..Len(q) : i < g /\ q[g].what = "grant" /\ q[g].op = n
        BY <3>1, <3>3 DEF GrantBehind
      <4> QED
        BY <1>2, <2>2, <4>1
    <3> QED
      BY <1>3, <3>1, <3>2, <3>3
  <2>3. CASE i > Len(q)
    BY <1>2, <1>3, <2>3
  <2> QED
    BY <1>2, <2>1, <2>2, <2>3
<1>5. UpTo(r, n, t)
  <2> SUFFICES ASSUME NEW i \in 1..Len(r)
               PROVE  r[i].op <= n /\ (r[i].op = n => r[i].telegram = t)
    BY DEF UpTo
  <2> QED
    BY <1>2, <1>3 DEF UpTo
<1>6. GrantBehind(r, n)
  <2> SUFFICES ASSUME NEW i \in 1..Len(r), r[i].op < n
               PROVE  \E k \in 1..Len(r) : i < k /\ r[k].what = "grant" /\ r[k].op = n
    BY DEF GrantBehind
  <2>1. i \in 1..Len(q) /\ q[i].op < n
    BY <1>2, <1>3
  <2>2. PICK g \in 1..Len(q) : i < g /\ q[g].what = "grant" /\ q[g].op = n
    BY <2>1 DEF GrantBehind
  <2> QED
    BY <1>2, <2>2
<1>7. ASSUME RepliesTo(q, t) PROVE RepliesTo(r, t)
  <2> SUFFICES ASSUME NEW j \in 1..Len(r), r[j].what = "reply",
                      \A i \in 1..Len(r) : i < j => r[i].what # "grant"
               PROVE  r[j].telegram = t
    BY DEF RepliesTo
  <2>1. CASE j <= Len(q)
    <3>1. j \in 1..Len(q) /\ r[j] = q[j] /\ \A i \in 1..Len(q) : i < j => q[i].what # "grant"
      BY <1>2, <2>1
    <3> QED
      BY <1>7, <3>1 DEF RepliesTo
  <2> QED
    BY <1>2, <2>1
<1> QED
  BY <1>2, <1>4, <1>5, <1>6, <1>7 DEF r, Sound

(* An operation that begins adds its grant, or its INFO answer, at the     *)
(* end: behind every older frame.                                          *)
LEMMA OweFirst ==
  ASSUME NEW q \in Seq(Frames), NEW n \in 1..MaxOps,
         NEW t0, NEW t \in Telegrams, NEW kind \in {"grant", "info"},
         InOrder(q), UpTo(q, n - 1, t0)
  PROVE  /\ Sound(OweFor(n, t, q, <<kind>>), n, t)
         /\ kind = "grant" => GrantBehind(OweFor(n, t, q, <<kind>>), n)
<1> DEFINE w == <<kind>>
           r == OweFor(n, t, q, w)
<1>1. n \in Nat /\ MaxOps \in Nat
  BY WireConstants DEF WireConstants
<1>2. /\ r \in Seq(Frames) /\ Len(q) \in Nat /\ Len(r) = Len(q) + 1
      /\ \A i \in 1..Len(q) : i \in 1..Len(r) /\ r[i] = q[i]
      /\ r[Len(r)].what = kind /\ r[Len(r)].op = n /\ r[Len(r)].telegram = t
  <2>1. w \in Seq(Kinds) /\ Len(w) = 1 /\ w[1] = kind
    BY DEF Kinds
  <2> HIDE DEF w
  <2>2. Extends(r, q, n, t, w)
    BY <2>1, OweShape
  <2> HIDE DEF r
  <2>3. Len(q) \in Nat /\ Len(r) = Len(q) + 1
    BY <2>1, <2>2 DEF Extends
  <2>4. Len(r) \in 1..Len(r) /\ Len(r) > Len(q) /\ Len(r) - Len(q) = 1
    BY <2>3
  <2>5. r[Len(r)] = [what |-> kind, op |-> n, telegram |-> t]
    BY <2>1, <2>2, <2>4 DEF Extends
  <2>6. \A i \in 1..Len(q) : i \in 1..Len(r) /\ r[i] = q[i]
    BY <2>2, <2>3 DEF Extends
  <2> QED
    BY <2>2, <2>3, <2>5, <2>6 DEF Extends
<1> HIDE DEF r
<1>3. \A i \in 1..Len(q) : q[i] \in Frames /\ q[i].op \in Nat /\ q[i].op < n
  <2> TAKE i \in 1..Len(q)
  <2>1. q[i] \in Frames /\ q[i].op \in Nat
    BY FrameOps
  <2> QED
    BY <1>1, <2>1 DEF UpTo
<1>4. \A i \in 1..Len(r) : i \in 1..Len(q) \/ i = Len(r)
  BY <1>2
<1>5. InOrder(r)
  <2> SUFFICES ASSUME NEW i \in 1..Len(r), NEW j \in 1..Len(r), i < j
               PROVE  /\ r[i].op <= r[j].op
                      /\ r[j].what = "grant" => r[i].op < r[j].op
                      /\ r[i].op = r[j].op => r[i].telegram = r[j].telegram
                      /\ r[i].op < r[j].op /\ r[j].what \notin {"grant", "info"} =>
                           \E g \in 1..Len(r) :
                             i < g /\ g < j /\ r[g].what = "grant" /\ r[g].op = r[j].op
    BY Zenon DEF InOrder
  <2>0. i \in 1..Len(q) /\ r[i] = q[i]
    BY <1>2, <1>4
  <2>1. CASE j \in 1..Len(q)
    <3>1. r[j] = q[j]
      BY <1>2, <2>1
    <3>2. ASSUME q[i].op < q[j].op, q[j].what \notin {"grant", "info"}
          PROVE  \E g \in 1..Len(r) : i < g /\ g < j /\ r[g].what = "grant" /\ r[g].op = q[j].op
      <4>1. PICK g \in 1..Len(q) : i < g /\ g < j /\ q[g].what = "grant" /\ q[g].op = q[j].op
        BY <2>0, <2>1, <3>2 DEF InOrder
      <4> QED
        BY <1>2, <4>1
    <3> QED
      BY <2>0, <2>1, <3>1, <3>2 DEF InOrder
  <2>2. CASE j = Len(r)
    BY <1>1, <1>2, <1>3, <2>0, <2>2
  <2> QED
    BY <1>4, <2>1, <2>2
<1>6. UpTo(r, n, t)
  <2> SUFFICES ASSUME NEW i \in 1..Len(r)
               PROVE  r[i].op <= n /\ (r[i].op = n => r[i].telegram = t)
    BY DEF UpTo
  <2> QED
    BY <1>1, <1>2, <1>3, <1>4
<1>7. ASSUME kind = "grant" PROVE GrantBehind(r, n)
  <2> SUFFICES ASSUME NEW i \in 1..Len(r), r[i].op < n
               PROVE  \E k \in 1..Len(r) : i < k /\ r[k].what = "grant" /\ r[k].op = n
    BY DEF GrantBehind
  <2>1. i \in 1..Len(q) /\ i < Len(r) /\ Len(r) \in 1..Len(r)
    BY <1>1, <1>2, <1>4
  <2> QED
    BY <1>2, <1>7, <2>1
<1> QED
  BY <1>2, <1>5, <1>6, <1>7 DEF r, w, Sound
-----------------------------------------------------------------------------
(* Draining twice is draining once.                                        *)
LEMMA DrainedTwice ==
  ASSUME NEW p \in Seq(Frames), NEW q \in Drained(p), NEW r \in Drained(q)
  PROVE  r \in Drained(p)
<1>1. PICK k \in 0..Len(p) : q = SubSeq(p, k + 1, Len(p))
  BY DEF Drained
<1>2. q \in Seq(Frames) /\ Len(q) = Len(p) - k /\ Len(p) \in Nat
      /\ \A i \in 1..Len(q) : q[i] = p[i + k]
  BY <1>1, EndOfQueue
<1>3. PICK m \in 0..Len(q) : r = SubSeq(q, m + 1, Len(q))
  BY DEF Drained
<1>4. k + m \in 0..Len(p)
  BY <1>2
<1>5. SubSeq(q, m + 1, Len(q)) = SubSeq(p, (k + m) + 1, Len(p))
  BY <1>1, <1>2, <1>4
<1> QED
  BY <1>3, <1>4, <1>5 DEF Drained

(* What a step of an operation that goes on may do to the queue.           *)
Moves ==
  /\ UNCHANGED request
  /\ pc' \in Waits \ {"info"} => pc \in Waits \ {"info"}
  /\ \/ owed' \in Drained(owed)
     \/ /\ pc \in Waits \ {"info"}
        /\ \E q \in Drained(owed), whats \in Seq(OnTheBus) : owed' = Owe(q, whats)

(* Such a step keeps the queue in order and the grant where it is.         *)
LEMMA MovesKeep ==
  ASSUME WireInv, QueueInv, Moves
  PROVE  /\ Sound(owed', op', telegram')
         /\ pc' \in Waits \ {"info"} => GrantBehind(owed', op')
<1>1. /\ owed \in Seq(Frames) /\ op \in Nat /\ op \in 0..MaxOps /\ telegram \in Telegrams
      /\ pc # "idle" => op \in 1..MaxOps
  BY WireConstants DEF WireInv, ScalarTypes, PhaseInv, QueueInv, WireConstants
<1>2. ASSUME NEW q \in Drained(owed)
      PROVE  /\ Sound(q, op, telegram)
             /\ pc \in Waits \ {"info"} => GrantBehind(q, op)
  BY <1>1, DrainedKeeps, DrainedShape DEF Sound, QueueInv
<1>3. CASE owed' \in Drained(owed)
  BY <1>2, <1>3 DEF Moves, request
<1>4. ASSUME pc \in Waits \ {"info"}, NEW q \in Drained(owed), NEW whats \in Seq(OnTheBus),
             owed' = Owe(q, whats)
      PROVE  Sound(owed', op, telegram) /\ GrantBehind(owed', op)
  <2>1. Sound(q, op, telegram) /\ GrantBehind(q, op) /\ op \in 1..MaxOps
    BY <1>1, <1>2, <1>4 DEF Waits
  <2> QED
    BY <1>1, <1>4, <2>1, OweKeeps DEF Owe, Sound
<1> QED
  BY <1>3, <1>4 DEF Moves, request

(* What answers a piece of a telegram comes after its grant.               *)
LEMMA AnswersOnTheBus ==
  ASSUME telegram \in Telegrams, NEW n
  PROVE  Answers(n) \in Seq(OnTheBus)
<1>1. telegram.expects \in {"none", "ack", "reply"}
  BY WireConstants DEF WireConstants, AllTelegrams
<1>2. /\ <<"echo">> \in Seq(OnTheBus) /\ <<"last">> \in Seq(OnTheBus)
      /\ <<"last", "ack">> \in Seq(OnTheBus) /\ <<"last", "ack", "reply">> \in Seq(OnTheBus)
  BY DEF OnTheBus
<1>3. CASE telegram.expects = "none"
  BY <1>2, <1>3 DEF Answers
<1>4. CASE telegram.expects = "ack"
  BY <1>2, <1>4 DEF Answers
<1>5. CASE telegram.expects = "reply"
  BY <1>2, <1>5 DEF Answers
<1> QED
  BY <1>1, <1>3, <1>4, <1>5

(* Dropping everything or what had arrived are moves.                      *)
LEMMA Dropped ==
  ASSUME owed \in Seq(Frames), NEW q \in Drained(owed)
  PROVE  /\ ResetParser(q) => owed' \in Drained(owed)
         /\ KeepQueue(q) => owed' \in Drained(owed)
         /\ KeepLine(q) => owed' \in Drained(owed)
         /\ Close => owed' \in Drained(owed)
         /\ \A r : OpenSession(r) => owed' \in Drained(owed) /\ pc' = "idle"
BY AllOrNothingLeft, DrainedTwice
DEF ResetParser, KeepQueue, KeepLine, Close, OpenSession, End

(* What each reading action does to the queue; and that a reply that may   *)
(* be read as ours, when one is waited for, answers the telegram.          *)
RepliesOurs == pc \in {"ack", "reply", "answer"} => RepliesTo(owed, telegram)

LEMMA ArbitrationStays ==
  ASSUME WireInv, QueueInv, NEW f, NEW q \in Drained(owed), ArbitrationRead(f, q)
  PROVE  Moves /\ RepliesOurs'
<1>1. /\ owed \in Seq(Frames) /\ UNCHANGED request /\ pc = "arb" /\ pc \in Waits \ {"info"}
      /\ telegram \in Telegrams
  BY DEF ArbitrationRead, QueueInv, Waits, WireInv, ScalarTypes
<1>2. Answers(1) \in Seq(OnTheBus)
  BY <1>1, AnswersOnTheBus
<1>3. CASE \E rest \in Drained(q) : SendTelegram(rest)
  <2>1. PICK rest \in Drained(q) : SendTelegram(rest)
    BY <1>3
  <2>2. rest \in Drained(owed)
    BY <1>1, DrainedTwice
  <2> QED
    BY <1>1, <1>2, <2>1, <2>2 DEF SendTelegram, Moves, RepliesOurs
<1>4. CASE owed' = q /\ UNCHANGED pc
  BY <1>1, <1>4 DEF Moves, RepliesOurs
<1>5. CASE ResetParser(q) /\ pc' = "idle"
  BY <1>1, <1>5, Dropped DEF Moves, RepliesOurs, Waits
<1>6. CASE OpenSession("collision")
  BY <1>1, <1>6, Dropped DEF Moves, RepliesOurs, Waits
<1> QED
  BY <1>3, <1>4, <1>5, <1>6, Zenon DEF ArbitrationRead, End, AdapterReset

LEMMA ControlStays ==
  ASSUME WireInv, QueueInv, NEW r \in Readable, ControlRead(r.frame, r.rest)
  PROVE  Moves /\ RepliesOurs'
<1>1. /\ owed \in Seq(Frames) /\ r.rest \in Drained(owed) /\ UNCHANGED request
      /\ pc \in Waits \ {"info"} /\ RepliesOurs
  BY ReadLeaves DEF ControlRead, QueueInv, Waits, BusWaits, RepliesOurs
<1>2. CASE r.frame \in {"INFO", "SYN"} /\ owed' = r.rest /\ UNCHANGED pc
  <2>1. pc \in {"ack", "reply", "answer"} => RepliesTo(r.rest, telegram)
    BY <1>1, <1>2, ReadKeepsReplies DEF Symbols, RepliesOurs
  <2> QED
    BY <1>1, <1>2, <2>1 DEF Moves, RepliesOurs, request
<1>3. CASE pc' = "idle" /\ owed' \in Drained(owed)
  BY <1>1, <1>3 DEF Moves, RepliesOurs, Waits
<1> QED
  BY <1>1, <1>2, <1>3, Dropped DEF ControlRead, Fails, End, AdapterReset

LEMMA TelegramStays ==
  ASSUME WireInv, QueueInv, NEW r \in Readable, TelegramEcho(r.frame, r.rest)
  PROVE  Moves /\ RepliesOurs'
<1>1. /\ owed \in Seq(Frames) /\ r.rest \in Drained(owed) /\ UNCHANGED request
      /\ pc = "send" /\ pc \in Waits \ {"info"} /\ InOrder(owed) /\ telegram \in Telegrams
      /\ echoed \in Nat
  BY ReadLeaves, WireConstants
  DEF TelegramEcho, QueueInv, Waits, WireInv, ScalarTypes, WireConstants, AllTelegrams
<1>2. CASE r.frame = "echo" /\ echoed' = echoed + 1 /\ owed' = Owe(r.rest, Answers(echoed' + 1))
           /\ UNCHANGED pc
  <2>1. Answers(echoed' + 1) \in Seq(OnTheBus)
    BY <1>1, AnswersOnTheBus
  <2> QED
    BY <1>1, <1>2, <2>1 DEF Moves, RepliesOurs
<1>3. CASE SendEndOfMessage("ok", r.rest)
  <2>1. <<"echo">> \in Seq(OnTheBus)
    BY DEF OnTheBus
  <2> QED
    BY <1>1, <1>3, <2>1 DEF SendEndOfMessage, Moves, RepliesOurs
<1>4. CASE r.frame = "echo" /\ echoed + 1 = telegram.pieces /\ pc' = "ack" /\ owed' = r.rest
  <2>1. RepliesTo(r.rest, telegram)
    BY <1>1, <1>4, LastEcho
  <2> QED
    BY <1>1, <1>4, <2>1 DEF Moves, RepliesOurs, request
<1>5. CASE End("collision") /\ owed' = r.rest
  BY <1>1, <1>5 DEF Moves, RepliesOurs, End, Waits
<1> QED
  BY <1>2, <1>3, <1>4, <1>5, Zenon DEF TelegramEcho

LEMMA AckStays ==
  ASSUME WireInv, QueueInv, NEW r \in Readable, CommandAck(r.frame, r.rest)
  PROVE  Moves /\ RepliesOurs'
<1>1. /\ owed \in Seq(Frames) /\ r.rest \in Drained(owed) /\ UNCHANGED request
      /\ pc = "ack" /\ pc \in Waits \ {"info"} /\ telegram \in Telegrams
      /\ RepliesTo(owed, telegram)
  BY ReadLeaves DEF CommandAck, QueueInv, Waits, WireInv, ScalarTypes
<1>2. CASE SendTelegram(r.rest)
  <2>1. Answers(1) \in Seq(OnTheBus)
    BY <1>1, AnswersOnTheBus
  <2> QED
    BY <1>1, <1>2, <2>1 DEF SendTelegram, Moves, RepliesOurs
<1>3. ASSUME NEW e, SendEndOfMessage(e, r.rest) PROVE Moves /\ RepliesOurs'
  <2>1. <<"echo">> \in Seq(OnTheBus)
    BY DEF OnTheBus
  <2> QED
    BY <1>1, <1>3, <2>1 DEF SendEndOfMessage, Moves, RepliesOurs
<1>4. CASE r.frame = "ACK" /\ pc' = "reply" /\ owed' = r.rest
  <2>1. RepliesTo(r.rest, telegram)
    BY <1>1, <1>4, ReadKeepsReplies DEF Symbols
  <2> QED
    BY <1>1, <1>4, <2>1 DEF Moves, RepliesOurs, request
<1>5. CASE pc' = "idle" /\ owed' = r.rest
  BY <1>1, <1>5 DEF Moves, RepliesOurs, Waits
<1> QED
  BY <1>2, <1>3, <1>4, <1>5, Zenon DEF CommandAck, End

LEMMA ResponseStays ==
  ASSUME WireInv, QueueInv, NEW r \in Readable, Response(r.frame, r.from, r.rest)
  PROVE  Moves /\ RepliesOurs'
<1>1. /\ owed \in Seq(Frames) /\ r.rest \in Drained(owed) /\ UNCHANGED request
      /\ pc = "reply" /\ pc \in Waits \ {"info"} /\ telegram \in Telegrams
      /\ RepliesTo(owed, telegram) /\ r.frame \in Symbols
      /\ op \in 1..MaxOps /\ InOrder(owed) /\ UpTo(owed, op, telegram) /\ GrantBehind(owed, op)
  BY ReadLeaves, WireConstants
  DEF Response, SymbolRead, QueueInv, Waits, WireInv, ScalarTypes, PhaseInv, WireConstants
<1>2. ASSUME NEW whats \in Seq(OnTheBus), pc' = "answer", owed' = Owe(r.rest, whats)
      PROVE  Moves /\ RepliesOurs'
  <2>1. RepliesTo(r.rest, telegram)
    BY <1>1, ReadKeepsReplies
  <2>2. /\ r.rest \in Seq(Frames) /\ InOrder(r.rest) /\ UpTo(r.rest, op, telegram)
        /\ GrantBehind(r.rest, op)
    BY <1>1, DrainedKeeps, DrainedShape
  <2>3. RepliesTo(OweFor(op, telegram, r.rest, whats), telegram)
    BY <1>1, <2>1, <2>2, OweKeeps
  <2> QED
    BY <1>1, <1>2, <2>3 DEF Owe, Moves, RepliesOurs, request
<1>3. CASE ResetParser(r.rest) /\ End("session_error")
  BY <1>1, <1>3, Dropped DEF Moves, RepliesOurs, Waits, End
<1>4. <<"echo">> \in Seq(OnTheBus) /\ <<"echo", "reply">> \in Seq(OnTheBus)
  BY DEF OnTheBus
<1> QED
  BY <1>2, <1>3, <1>4 DEF Response

LEMMA AnsweredStays ==
  ASSUME WireInv, QueueInv, NEW r \in Readable, ResponseAnswered(r.frame, r.rest)
  PROVE  Moves /\ RepliesOurs'
<1>1. /\ owed \in Seq(Frames) /\ r.rest \in Drained(owed) /\ UNCHANGED request
      /\ pc = "answer" /\ pc \in Waits \ {"info"} /\ telegram \in Telegrams
      /\ RepliesTo(owed, telegram) /\ r.frame \in Symbols
  BY ReadLeaves DEF ResponseAnswered, SymbolRead, QueueInv, Waits, WireInv, ScalarTypes
<1>2. RepliesTo(r.rest, telegram)
  BY <1>1, ReadKeepsReplies
<1>3. CASE pc' = "reply" /\ owed' = r.rest
  BY <1>1, <1>2, <1>3 DEF Moves, RepliesOurs, request
<1>4. ASSUME NEW e, SendEndOfMessage(e, r.rest) PROVE Moves /\ RepliesOurs'
  <2>1. <<"echo">> \in Seq(OnTheBus)
    BY DEF OnTheBus
  <2> QED
    BY <1>1, <1>4, <2>1 DEF SendEndOfMessage, Moves, RepliesOurs
<1>5. CASE pc' = "idle" /\ owed' = r.rest
  BY <1>1, <1>5 DEF Moves, RepliesOurs, Waits
<1> QED
  BY <1>3, <1>4, <1>5 DEF ResponseAnswered, End

LEMMA EndStays ==
  ASSUME WireInv, QueueInv, NEW r \in Readable, EndOfMessage(r.frame, r.rest)
  PROVE  Moves /\ RepliesOurs'
<1>1. /\ owed \in Seq(Frames) /\ r.rest \in Drained(owed) /\ UNCHANGED request
      /\ pc' = "idle"
  BY ReadLeaves DEF EndOfMessage, QueueInv, End, Fails
<1>2. owed' \in Drained(owed)
  BY <1>1, Dropped, DrainedTwice DEF EndOfMessage, Fails
<1> QED
  BY <1>1, <1>2 DEF Moves, RepliesOurs, Waits

LEMMA InfoStays ==
  ASSUME WireInv, QueueInv, NEW r \in Readable, InfoRead(r.frame, r.from, r.rest)
  PROVE  Moves /\ RepliesOurs'
<1>1. /\ owed \in Seq(Frames) /\ r.rest \in Drained(owed) /\ UNCHANGED request
      /\ pc' \in {"idle", "info"}
  BY ReadLeaves DEF InfoRead, QueueInv, End, OpenSession, AdapterReset
<1>2. owed' \in Drained(owed)
  BY <1>1, Dropped DEF InfoRead, AdapterReset
<1> QED
  BY <1>1, <1>2 DEF Moves, RepliesOurs, Waits

LEMMA FailureStays ==
  ASSUME WireInv, QueueInv,
         Open \/ CloseSession \/ ReadTimeout \/ ConnectionLost \/ DeadlineExpires
  PROVE  Moves /\ RepliesOurs'
<1>1. owed \in Seq(Frames) /\ owed \in Drained(owed)
  BY AllOrNothingLeft DEF QueueInv
<1>2. UNCHANGED request /\ pc' = "idle"
  BY DEF Open, CloseSession, ReadTimeout, ConnectionLost, DeadlineExpires, OpenSession, Fails, End
<1>3. owed' \in Drained(owed)
  BY <1>1, Dropped
  DEF Open, CloseSession, ReadTimeout, ConnectionLost, DeadlineExpires, Fails
<1> QED
  BY <1>2, <1>3 DEF Moves, RepliesOurs, Waits

(* An operation that begins leaves the queue in order.                     *)
LEMMA BeginKeeps ==
  ASSUME WireInv, QueueInv, StartAttempt \/ RequestInfo
  PROVE  /\ Sound(owed', op', telegram') /\ accepted' = {}
         /\ pc' \in Waits \ {"info"} => GrantBehind(owed', op')
         /\ pc' \notin {"ack", "reply", "answer"}
<1>1. /\ owed \in Seq(Frames) /\ op \in Nat /\ op' = op + 1 /\ op' \in 1..MaxOps
      /\ telegram \in Telegrams /\ telegram' \in Telegrams /\ accepted' = {}
      /\ owed \in Drained(owed) /\ (op + 1) - 1 = op
  BY WireConstants, AllOrNothingLeft
  DEF WireInv, ScalarTypes, QueueInv, WireConstants, StartAttempt, RequestInfo, NewOperation
<1>2. ASSUME NEW q \in Drained(owed)
      PROVE  q \in Seq(Frames) /\ InOrder(q) /\ UpTo(q, (op + 1) - 1, telegram)
  BY <1>1, DrainedKeeps, DrainedShape DEF QueueInv
<1>3. CASE StartAttempt
  <2>1. PICK q \in Drained(owed) : owed' = OweFor(op + 1, telegram', q, <<"grant">>)
    BY <1>1, <1>3 DEF StartAttempt
  <2>2. q \in Seq(Frames) /\ InOrder(q) /\ UpTo(q, (op + 1) - 1, telegram) /\ op + 1 \in 1..MaxOps
    BY <1>1, <1>2
  <2>3. /\ Sound(OweFor(op + 1, telegram', q, <<"grant">>), op + 1, telegram')
        /\ GrantBehind(OweFor(op + 1, telegram', q, <<"grant">>), op + 1)
    BY <1>1, <2>2, OweFirst
  <2> QED
    BY <1>1, <1>3, <2>1, <2>3 DEF StartAttempt
<1>4. CASE RequestInfo /\ pc' = "info"
  <2>1. PICK q \in Drained(owed) : owed' = OweFor(op + 1, telegram, q, <<"info">>)
    BY <1>1, <1>4 DEF RequestInfo, OpenSession, End
  <2>2. q \in Seq(Frames) /\ InOrder(q) /\ UpTo(q, (op + 1) - 1, telegram) /\ op + 1 \in 1..MaxOps
    BY <1>1, <1>2
  <2>3. Sound(OweFor(op + 1, telegram, q, <<"info">>), op + 1, telegram)
    BY <1>1, <2>2, OweFirst
  <2> QED
    BY <1>1, <1>4, <2>1, <2>3 DEF RequestInfo
<1>5. CASE RequestInfo /\ pc' = "idle" /\ owed' = <<>>
  BY <1>1, <1>5 DEF Sound, InOrder, UpTo, Waits
<1> QED
  BY <1>3, <1>4, <1>5 DEF RequestInfo, OpenSession, End, Close
-----------------------------------------------------------------------------
(* The queue is empty at first and stays in order.                         *)
LEMMA QueueInit == Init => QueueInv
<1> SUFFICES ASSUME Init PROVE QueueInv
  OBVIOUS
<1>1. owed = <<>> /\ accepted = {} /\ pc = "idle"
  BY DEF Init
<1> QED
  BY <1>1 DEF QueueInv, InOrder, UpTo, Waits

(* What a step accepts is nothing new, nothing at all, or the frame that   *)
(* was read.                                                               *)
LEMMA AcceptedFrames ==
  ASSUME QueueInv, [Next]_vars
  PROVE  accepted' \in SUBSET Frames
<1>1. /\ accepted \in SUBSET Frames /\ owed \in Seq(Frames)
      /\ \A r \in Readable : r.from \in SUBSET Frames
  <2>1. accepted \in SUBSET Frames /\ owed \in Seq(Frames)
    BY DEF QueueInv
  <2> QED
    BY <2>1, ReadShape
<1>2. CASE Read
  <2>1. PICK r \in Readable :
          \/ ArbitrationRead(r.frame, r.rest) \/ ControlRead(r.frame, r.rest)
          \/ TelegramEcho(r.frame, r.rest) \/ CommandAck(r.frame, r.rest)
          \/ Response(r.frame, r.from, r.rest) \/ ResponseAnswered(r.frame, r.rest)
          \/ EndOfMessage(r.frame, r.rest) \/ InfoRead(r.frame, r.from, r.rest)
    BY <1>2, Zenon DEF Read
  <2>2. accepted' = accepted \/ accepted' = r.from
    BY <2>1, Zenon
    DEF ArbitrationRead, ControlRead, TelegramEcho, CommandAck, Response, ResponseAnswered,
        EndOfMessage, InfoRead, history
  <2> QED
    BY <1>1, <2>2
<1>3. CASE StartAttempt \/ RequestInfo
  BY <1>3 DEF StartAttempt, RequestInfo, NewOperation
<1> QED
  BY <1>1, <1>2, <1>3
  DEF Next, Open, CloseSession, ReadTimeout, ConnectionLost, DeadlineExpires, vars, history

LEMMA QueueStep == WireInv /\ QueueInv /\ [Next]_vars => QueueInv'
<1> SUFFICES ASSUME WireInv, QueueInv, [Next]_vars PROVE QueueInv'
  OBVIOUS
<1>1. accepted' \in SUBSET Frames
  BY AcceptedFrames
<1>2. ASSUME Moves, RepliesOurs' PROVE QueueInv'
  BY <1>1, <1>2, MovesKeep DEF QueueInv, Sound, RepliesOurs
<1>3. CASE Read
  <2>1. PICK r \in Readable :
          \/ ArbitrationRead(r.frame, r.rest) \/ ControlRead(r.frame, r.rest)
          \/ TelegramEcho(r.frame, r.rest) \/ CommandAck(r.frame, r.rest)
          \/ Response(r.frame, r.from, r.rest) \/ ResponseAnswered(r.frame, r.rest)
          \/ EndOfMessage(r.frame, r.rest) \/ InfoRead(r.frame, r.from, r.rest)
    BY <1>3, Zenon DEF Read
  <2>2. r.rest \in Drained(owed)
    BY ReadLeaves DEF QueueInv
  <2>3. Moves /\ RepliesOurs'
    BY <2>1, <2>2, ArbitrationStays, ControlStays, TelegramStays, AckStays, ResponseStays,
       AnsweredStays, EndStays, InfoStays
  <2> QED
    BY <1>2, <2>3
<1>4. CASE StartAttempt \/ RequestInfo
  BY <1>1, <1>4, BeginKeeps DEF QueueInv, Sound
<1>5. CASE Open \/ CloseSession \/ ReadTimeout \/ ConnectionLost \/ DeadlineExpires
  BY <1>2, <1>5, FailureStays
<1>6. CASE UNCHANGED vars
  BY <1>6 DEF vars, request, progress, history, QueueInv
<1> QED
  BY <1>3, <1>4, <1>5, <1>6 DEF Next

(* A reply that is read first, before any grant, and answers the telegram  *)
(* is what the caller gets.                                                *)
LEMMA GoodReplyIsOurs ==
  ASSUME owed \in Seq(Frames), RepliesTo(owed, telegram),
         NEW r \in Readable, r.frame = "good"
  PROVE  {frame.telegram : frame \in r.from} = {telegram}
<1>1. /\ r.frame \in Deliveries(Head(owed)) /\ r.from = {Head(owed)}
      /\ Head(owed) \in Frames /\ Head(owed) = owed[1] /\ Len(owed) \in Nat \ {0}
  BY ReadShape DEF Unsolicited
<1>2. owed[1].what = "reply"
  BY <1>1, DeliveryKinds
<1>3. 1 \in 1..Len(owed) /\ \A i \in 1..Len(owed) : i < 1 => owed[i].what # "grant"
  BY <1>1
<1>4. owed[1].telegram = telegram
  BY <1>2, <1>3 DEF RepliesTo
<1> QED
  BY <1>1, <1>4

LEMMA AcceptedStep == WireInv /\ QueueInv /\ AcceptedInv /\ [Next]_vars => AcceptedInv'
<1> SUFFICES ASSUME WireInv, QueueInv, AcceptedInv, [Next]_vars PROVE AcceptedInv'
  OBVIOUS
<1> USE DEF AcceptedInv, request, progress, history, End
<1>0. /\ pc \in Waits \union {"idle"} /\ (pc # "idle" => result = "none")
      /\ pc = "ack" => telegram.expects # "none"
      /\ pc \in {"reply", "answer"} => telegram.expects = "reply"
      /\ pc = "answer" => ending \in {"ok", "again", "crc"}
      /\ owed \in Seq(Frames) /\ (pc \in {"ack", "reply", "answer"} => RepliesTo(owed, telegram))
  BY DEF WireInv, ScalarTypes, PhaseInv, QueueInv
<1>1. ASSUME UNCHANGED <<request, accepted>>, pc' = "idle", result' # "ok" PROVE AcceptedInv'
  BY <1>1
<1>2. CASE Open \/ CloseSession \/ ReadTimeout \/ ConnectionLost \/ DeadlineExpires
  <2>1. UNCHANGED <<request, accepted>> /\ pc' = "idle"
    BY <1>2 DEF Open, CloseSession, OpenSession, ReadTimeout, ConnectionLost, DeadlineExpires, Fails
  <2>2. result' # "ok"
    BY <1>2 DEF Open, CloseSession, OpenSession, OpenFailures, ReadTimeout, ConnectionLost,
                DeadlineExpires, Fails, Releasing
  <2> QED
    BY <1>1, <2>1, <2>2
<1>3. CASE StartAttempt
  BY <1>3 DEF StartAttempt, NewOperation
<1>4. CASE RequestInfo
  BY <1>4 DEF RequestInfo, NewOperation, OpenSession, OpenFailures
<1>5. ASSUME NEW f, NEW q, ArbitrationRead(f, q) PROVE AcceptedInv'
  BY <1>0, <1>5 DEF ArbitrationRead, SendTelegram, AdapterReset, OpenSession, OpenFailures
<1>6. ASSUME NEW f, NEW q, ControlRead(f, q) PROVE AcceptedInv'
  BY <1>0, <1>6, <1>1
  DEF ControlRead, BusWaits, Fails, Releasing, AdapterReset, OpenSession, OpenFailures, Answered
<1>7. ASSUME NEW f, NEW q, TelegramEcho(f, q) PROVE AcceptedInv'
  BY <1>0, <1>7 DEF TelegramEcho, SendEndOfMessage, Answered
<1>8. ASSUME NEW f, NEW q, CommandAck(f, q) PROVE AcceptedInv'
  BY <1>0, <1>8 DEF CommandAck, SendTelegram, SendEndOfMessage, Answered
<1>9. ASSUME NEW r \in Readable, Response(r.frame, r.from, r.rest) PROVE AcceptedInv'
  <2>1. CASE r.frame = "good" /\ pc' = "answer" /\ ending' = "ok" /\ accepted' = r.from
    <3>1. pc = "reply" /\ UNCHANGED <<request, result>>
      BY <1>9, <2>1 DEF Response, ResetParser
    <3>2. {frame.telegram : frame \in r.from} = {telegram}
      BY <1>0, <2>1, <3>1, GoodReplyIsOurs
    <3>3. Answered'
      BY <1>0, <2>1, <3>1, <3>2 DEF Answered
    <3> QED
      BY <1>0, <2>1, <3>1, <3>3
  <2>2. CASE pc' = "answer" /\ ending' # "ok" /\ UNCHANGED <<accepted, result>>
    BY <1>0, <1>9, <2>2 DEF Response
  <2>3. CASE pc' = "idle" /\ result' = "session_error" /\ UNCHANGED accepted
    BY <1>0, <1>9, <2>3 DEF Response
  <2> QED
    BY <1>9, <2>1, <2>2, <2>3 DEF Response
<1>10. ASSUME NEW f, NEW q, ResponseAnswered(f, q) PROVE AcceptedInv'
  BY <1>0, <1>10 DEF ResponseAnswered, SendEndOfMessage, Answered
<1>11. ASSUME NEW f, NEW q, EndOfMessage(f, q) PROVE AcceptedInv'
  BY <1>0, <1>11 DEF EndOfMessage, Fails, Releasing, Answered
<1>12. ASSUME NEW f, NEW from, NEW q, InfoRead(f, from, q) PROVE AcceptedInv'
  BY <1>0, <1>12 DEF InfoRead, AdapterReset, OpenSession, OpenFailures
<1>13. CASE UNCHANGED vars
  BY <1>13 DEF vars, Answered
<1> QED
  BY <1>2, <1>3, <1>4, <1>5, <1>6, <1>7, <1>8, <1>9, <1>10, <1>11, <1>12, <1>13 DEF Next, Read
-----------------------------------------------------------------------------
(* The inductive invariant: what an attempt has done by each phase, the    *)
(* order of what is in flight, and what was accepted (_send_proto_once     *)
(* with its helpers, and request_info).                                    *)
THEOREM WireIsInvariant == Spec => []IInv
<1>1. Init => IInv
  <2> SUFFICES ASSUME Init PROVE IInv
    OBVIOUS
  <2>1. AcceptedInv
    BY DEF Init, AcceptedInv
  <2> QED
    BY <2>1, WireInit, QueueInit DEF IInv
<1>2. IInv /\ [Next]_vars => IInv'
  BY WireStep, QueueStep, AcceptedStep DEF IInv
<1> QED
  BY <1>1, <1>2, PTL DEF Spec

(* Every variable keeps its type, and every telegram that is put on the    *)
(* bus, a repetition after a NACK included, was admitted before, whatever  *)
(* the limit on repetitions (transmitted counts both transmissions of      *)
(* _send_proto_once, admitted its calls of the send hook).                 *)
THEOREM EveryTelegramAdmitted == Spec => []TelegramsAdmitted
<1>1. IInv => TelegramsAdmitted
  BY DEF IInv, WireInv, ScalarTypes, AdmissionInv, QueueInv, TelegramsAdmitted, TypeOK
<1> QED
  BY <1>1, WireIsInvariant, PTL

(* An attempt that ends leaves the connection as the retry policy assumes  *)
(* for its exception and has given the bus back where the policy goes on,  *)
(* whatever was lost, answered late or reset on the way.                   *)
THEOREM AttemptsEndOrderly == Spec => []AttemptEndsOrderly
<1>1. IInv => AttemptEndsOrderly
  BY DEF IInv, WireInv
<1> QED
  BY <1>1, WireIsInvariant, PTL

(* A reply that is returned was sent for this telegram or an identical     *)
(* one, with any number of operations whose answers are still travelling   *)
(* and any telegrams: no frame of another request is taken for it.         *)
THEOREM NoReplyOfAnother == Spec => []ReplyIsOurs
<1>1. IInv => ReplyIsOurs
  BY DEF IInv, AcceptedInv, Answered, ReplyIsOurs
<1> QED
  BY <1>1, WireIsInvariant, PTL
=============================================================================
