---------------------------- MODULE ScanPartsProofs ----------------------------
(***************************************************************************)
(* Proofs about the parts of a scan, for every value of their constants.   *)
(* Descriptions: FairInv is inductive, the capacity left covers the        *)
(* promises outstanding, and those cover the reserved candidates still to  *)
(* come; the reports are sums of what was sent (ReportInv); namespaces are *)
(* served in turn (OrderMade, RoundsMake).  Scan: every register of the    *)
(* plan is behind, under way or queued (RegInv).  Planner: the list of     *)
(* reads and its marks stay together through every edit (PlanInv).         *)
(* Browser: rows and nodes are those of the file, and every row has its    *)
(* home (RowsInv).  The replay of a trace is in ReplayProofs.              *)
(***************************************************************************)
EXTENDS ScanParts, FiniteSetTheorems, SequenceTheorems, WellFoundedInduction, TLAPS

LEMMA MaxEligibleType == MaxEligible \in Nat
BY AcquisitionAssumption DEF AcquisitionAssumption, MaxEligible

(* A schedule gives no family more than it has, nor both more than the     *)
(* budget (schedule_descriptions).                                         *)
LEMMA ConsumedFits ==
  ASSUME NEW e \in [Families -> 0..MaxEligible], NEW b \in Nat
  PROVE  /\ Consumed(e, b) \in [Families -> 0..MaxEligible]
         /\ Total(Consumed(e, b)) \in 0..b
<1> DEFINE l == e["local"]
           r == e["remote"]
           ol == Least(l, (b + 1) \div 2)
           or == Least(r, b \div 2)
           spare == b - ol - or
           more == Least(l - ol, spare)
           last == Least(r - or, spare - more)
<1>1. l \in 0..MaxEligible /\ r \in 0..MaxEligible BY DEF Families
<1>2. /\ (b + 1) \div 2 \in Nat /\ b \div 2 \in Nat /\ (b + 1) \div 2 + b \div 2 = b
  OBVIOUS
<1>3. ol \in 0..l /\ or \in 0..r /\ ol + or <= b
  BY <1>1, <1>2, MaxEligibleType DEF Least
<1>4. spare \in Nat BY <1>1, <1>3, MaxEligibleType
<1>5. more \in 0..(l - ol) /\ more <= spare
  BY <1>1, <1>3, <1>4, MaxEligibleType DEF Least
<1>6. last \in 0..(r - or) /\ last <= spare - more
  BY <1>1, <1>3, <1>4, <1>5, MaxEligibleType DEF Least
<1>7. Consumed(e, b) = [local |-> ol + more, remote |-> or + last]
  BY DEF Consumed, Families, Reservation
<1>8. ol + more \in 0..MaxEligible /\ or + last \in 0..MaxEligible
  BY <1>1, <1>3, <1>5, <1>6, MaxEligibleType
<1>9. (ol + more) + (or + last) \in 0..b
  BY <1>1, <1>3, <1>4, <1>5, <1>6, MaxEligibleType
<1> HIDE DEF ol, or, spare, more, last
<1>10. Consumed(e, b) \in [Families -> 0..MaxEligible]
  BY <1>7, <1>8 DEF Families
<1> QED BY <1>7, <1>9, <1>10 DEF Total

-----------------------------------------------------------------------------
(* The first schedule: its reserved first attempts fit into the capacity.  *)
LEMMA InitFairInv == Init => FairInv
<1> SUFFICES ASSUME Init PROVE FairInv OBVIOUS
<1> USE MaxEligibleType, AcquisitionAssumption DEF AcquisitionAssumption
<1>1. /\ eligible \in [Families -> 0..MaxEligible] /\ sends = before /\ before \in Nat
      /\ described \in Nat \cup {Unlimited} /\ limit \in Nat \cup {Unlimited}
      /\ Capped => limit \in Nat /\ before <= limit
  BY DEF Init, Capped
<1>2. configured \in Nat
  <2>1. eligible["local"] \in Nat /\ eligible["remote"] \in Nat BY <1>1 DEF Families
  <2>2. (IF described = Unlimited THEN Total(eligible) ELSE described) \in Nat
    BY <1>1, <2>1 DEF Total
  <2> DEFINE b == IF described = Unlimited THEN Total(eligible) ELSE described
  <2>3. b \in Nat BY <2>2
  <2> HIDE DEF b
  <2>4. Total(Consumed(eligible, b)) \in 0..b BY <1>1, <2>3, ConsumedFits
  <2>5. configured = Total(Consumed(eligible, b)) BY DEF Init, Configured, b
  <2> QED BY <2>3, <2>4, <2>5
<1>3. EffectiveBudget \in Nat /\ (Capped => EffectiveBudget <= limit - before)
  BY <1>1, <1>2 DEF EffectiveBudget, Capacity, Least, Capped
<1>4. /\ scheduled \in [Families -> 0..MaxEligible]
      /\ Total(scheduled) \in 0..EffectiveBudget
  BY <1>1, <1>3, ConsumedFits DEF Init
<1>5. /\ (EffectiveBudget + 1) \div 2 \in Nat /\ EffectiveBudget \div 2 \in Nat
  BY <1>3
<1>6. \A f \in Families : /\ reserved[f] \in Nat
                          /\ reserved[f] <= IF Capped THEN scheduled[f] ELSE 0
  <2> SUFFICES ASSUME NEW f \in Families
               PROVE  /\ reserved[f] \in Nat
                      /\ reserved[f] <= IF Capped THEN scheduled[f] ELSE 0
    OBVIOUS
  <2>1. reserved[f] = IF limit = Unlimited THEN 0
                      ELSE Least(scheduled[f], Reservation(EffectiveBudget)[f])
    BY DEF Init, ReservedFirsts
  <2>2. Reservation(EffectiveBudget)[f] \in Nat
    BY <1>5 DEF Reservation, Families
  <2>3. scheduled[f] \in Nat BY <1>4
  <2> QED BY <2>1, <2>2, <2>3 DEF Least, Capped
<1>7. reserved \in [Families -> Nat]
  BY <1>6 DEF Init, ReservedFirsts
<1>8. /\ remaining \in Nat /\ pending \in Nat
      /\ Capped => /\ remaining = limit - sends /\ pending <= remaining
                   /\ pending = reserved["local"] + reserved["remote"]
  <2>1. /\ reserved["local"] \in Nat /\ reserved["remote"] \in Nat
        /\ Capped => reserved["local"] <= scheduled["local"]
        /\ Capped => reserved["remote"] <= scheduled["remote"]
    BY <1>6 DEF Families
  <2>2. scheduled["local"] \in Nat /\ scheduled["remote"] \in Nat BY <1>4 DEF Families
  <2>3. CASE ~Capped BY <2>3 DEF Init, Capped
  <2>4. CASE Capped
    <3>1. remaining = Capacity /\ pending = reserved["local"] + reserved["remote"]
      BY <2>4 DEF Init, Capped, Total
    <3>2. Capacity = limit - before BY <1>1, <2>4 DEF Capacity
    <3>3. scheduled["local"] + scheduled["remote"] <= limit - before
      BY <1>1, <1>3, <1>4, <2>2, <2>4 DEF Total
    <3>4. pending <= limit - before BY <1>1, <2>1, <2>2, <2>4, <3>1, <3>3
    <3> QED BY <1>1, <2>1, <2>4, <3>1, <3>2, <3>4
  <2> QED BY <2>3, <2>4
<1>9. TypeOK
  <2>1. asked \in [1..(2 * MaxEligible) -> Nat \cup {Unasked}] BY DEF Init
  <2>4. admitted \in BOOLEAN /\ preempted \in BOOLEAN
    <3>1. admitted = FALSE /\ preempted = FALSE BY DEF Init
    <3> QED BY <3>1
  <2>2. /\ at \in Nat \ {0} /\ tried \in 0..MaxAttempts
        /\ phase \in {"next", "asking", "ended"}
        /\ outcome \in {"none", "budget", "recovery", "interrupted", "not_enabled", "complete"}
    BY DEF Init
  <2>3. before <= sends BY <1>1
  <2> QED BY <1>1, <1>2, <1>4, <1>7, <1>8, <2>1, <2>2, <2>3, <2>4 DEF TypeOK
<1>10. ProbeSound
  <2>1. phase = "next" /\ outcome = "none" BY DEF Init
  <2> QED BY <1>6, <2>1 DEF ProbeSound
<1>11. PromisesCovered
  <2>1. /\ reserved["local"] \in Nat /\ reserved["remote"] \in Nat
        /\ scheduled["local"] \in Nat
        /\ Capped => reserved["local"] <= scheduled["local"]
    BY <1>4, <1>6 DEF Families
  <2>2. Capped => Ahead(1) = reserved["local"] + reserved["remote"]
    BY <2>1 DEF Ahead, LocalAhead, RemoteAhead
  <2>3. (IF admitted /\ phase # "next" THEN at + 1 ELSE at) = 1 BY DEF Init
  <2>4. Capped => Ahead(1) <= pending BY <1>8, <2>1, <2>2
  <2> QED BY <1>8, <2>3, <2>4 DEF PromisesCovered
<1>12. AskedBehind /\ AllAsked
  <2>1. at = 1 /\ outcome = "none" BY DEF Init
  <2>2. \A i \in 1..Total(scheduled) : ~(i < 1) BY <1>3, <1>4
  <2> QED BY <2>1, <2>2 DEF AskedBehind, AllAsked
<1> QED BY <1>9, <1>10, <1>11, <1>12 DEF FairInv
-----------------------------------------------------------------------------
(* The promises ahead of a candidate: its own and those ahead of the next. *)
LEMMA AheadFacts ==
  ASSUME TypeOK, ProbeSound, NEW i \in Nat \ {0}
  PROVE  /\ Ahead(i) \in Nat
         /\ Ahead(i + 1) <= Ahead(i)
         /\ Reserved(i) /\ i <= Total(scheduled) => Ahead(i + 1) + 1 <= Ahead(i)
         /\ Ahead(i) = 0 => \A j \in 1..Total(scheduled) : j >= i => ~Reserved(j)
<1> DEFINE sl == scheduled["local"]
           sr == scheduled["remote"]
           rl == reserved["local"]
           rr == reserved["remote"]
<1>1. /\ sl \in Nat /\ sr \in Nat /\ rl \in Nat /\ rr \in Nat
      /\ rl <= sl /\ rr <= sr
  <2>1. \A f \in Families : /\ scheduled[f] \in Nat /\ reserved[f] \in Nat
                            /\ reserved[f] <= scheduled[f]
    <3> SUFFICES ASSUME NEW f \in Families
                 PROVE  /\ scheduled[f] \in Nat /\ reserved[f] \in Nat
                        /\ reserved[f] <= scheduled[f]
      OBVIOUS
    <3>1. scheduled[f] \in Nat /\ reserved[f] \in Nat BY MaxEligibleType DEF TypeOK
    <3>2. reserved[f] <= IF Capped THEN scheduled[f] ELSE 0 BY DEF ProbeSound
    <3> QED BY <3>1, <3>2
  <2> QED BY <2>1 DEF Families
<1>2. Total(scheduled) = sl + sr BY DEF Total
<1>3. \A j \in Nat \ {0} :
        Reserved(j) <=> IF j <= sl THEN j <= rl ELSE j - sl <= rr
  BY DEF Reserved, Family
<1>4. \A j \in Nat \ {0} :
        Ahead(j) = (IF j <= rl THEN rl - j + 1 ELSE 0)
                   + (IF j <= sl THEN rr
                      ELSE IF j - sl <= rr THEN rr - (j - sl) + 1 ELSE 0)
  BY DEF Ahead, LocalAhead, RemoteAhead
<1> HIDE DEF sl, sr, rl, rr
<1>5. Ahead(i) \in Nat /\ Ahead(i + 1) <= Ahead(i) BY <1>1, <1>4
<1>6. ASSUME Reserved(i), i <= Total(scheduled) PROVE Ahead(i + 1) + 1 <= Ahead(i)
  BY <1>1, <1>2, <1>3, <1>4, <1>6
<1>7. ASSUME Ahead(i) = 0, NEW j \in 1..Total(scheduled), j >= i PROVE ~Reserved(j)
  BY <1>1, <1>2, <1>3, <1>4, <1>7
<1> QED BY <1>5, <1>6, <1>7
-----------------------------------------------------------------------------
(* What most steps leave alone, and the parts of FairInv it decides.       *)
still == <<order, eligible, described, limit, before, configured, scheduled, reserved>>

LEMMA ScheduleStays ==
  ASSUME UNCHANGED still
  PROVE  /\ Total(scheduled)' = Total(scheduled) /\ Capped' = Capped
         /\ \A i : Reserved(i)' = Reserved(i)
         /\ \A i : Ahead(i)' = Ahead(i)
BY DEF still, Total, Capped, Reserved, Family, Ahead, LocalAhead, RemoteAhead

(* The array of descriptions only gains entries.                           *)
Gains == /\ asked' \in [1..(2 * MaxEligible) -> Nat \cup {Unasked}]
         /\ \A i \in 1..Total(scheduled) : asked[i] # Unasked => asked'[i] # Unasked

LEMMA TotalFits == TypeOK => Total(scheduled) \in 0..(2 * MaxEligible)
<1> SUFFICES ASSUME TypeOK PROVE Total(scheduled) \in 0..(2 * MaxEligible) OBVIOUS
<1>1. scheduled["local"] \in 0..MaxEligible /\ scheduled["remote"] \in 0..MaxEligible
  BY DEF TypeOK, Families
<1> QED BY <1>1, MaxEligibleType DEF Total

(* A probe that ends stores its description, or had sent nothing.          *)
LEMMA Stored ==
  ASSUME FairInv, phase = "asking", Store(tried) \/ StoreIfSent
  PROVE  /\ Gains
         /\ Store(tried) \/ tried > 0 => asked'[at] # Unasked
<1>1. /\ asked \in [1..(2 * MaxEligible) -> Nat \cup {Unasked}] /\ tried \in Nat
      /\ at \in 1..Total(scheduled)
  <2>1. TypeOK /\ ProbeSound BY DEF FairInv
  <2>2. /\ asked \in [1..(2 * MaxEligible) -> Nat \cup {Unasked}]
        /\ at \in Nat \ {0} /\ tried \in 0..MaxAttempts
    BY <2>1 DEF TypeOK
  <2>3. tried \in Nat BY <2>2, AcquisitionAssumption DEF AcquisitionAssumption
  <2>4. at <= Total(scheduled) BY <2>1 DEF ProbeSound
  <2> QED BY <2>1, <2>2, <2>3, <2>4, TotalFits, MaxEligibleType
<1>2. Total(scheduled) \in 0..(2 * MaxEligible) BY TotalFits DEF FairInv
<1>3. at \in 1..(2 * MaxEligible) BY <1>1, <1>2, MaxEligibleType
<1>4. tried # Unasked BY <1>1 DEF Unasked
<1>5. CASE Store(tried)
  <2>1. asked' = [asked EXCEPT ![at] = tried] BY <1>5 DEF Store
  <2>2. asked' \in [1..(2 * MaxEligible) -> Nat \cup {Unasked}] BY <1>1, <1>3, <2>1
  <2>3. \A i \in 1..(2 * MaxEligible) : asked'[i] = IF i = at THEN tried ELSE asked[i]
    BY <1>1, <1>3, <2>1
  <2>4. \A i \in 1..Total(scheduled) : i \in 1..(2 * MaxEligible)
    BY <1>2, MaxEligibleType
  <2> QED BY <1>3, <1>4, <2>2, <2>3, <2>4 DEF Gains
<1>6. CASE tried = 0 /\ UNCHANGED asked
  <2>1. CASE Store(tried) BY <1>5, <2>1
  <2>2. CASE ~Store(tried) BY <1>1, <1>6, <2>2 DEF Gains
  <2> QED BY <2>1, <2>2
<1> QED BY <1>1, <1>5, <1>6 DEF StoreIfSent
-----------------------------------------------------------------------------
(* The acquisition ends: the promises are as covered as they were.         *)
LEMMA EndKeeps ==
  ASSUME FairInv, UNCHANGED still, UNCHANGED <<sends, at, tried, fair, preempted>>,
         phase' = "ended", Gains,
         outcome' \in {"budget", "recovery", "interrupted", "not_enabled", "complete"},
         outcome' \in {"budget", "complete"} =>
           \A i \in 1..Total(scheduled) : Reserved(i) => asked'[i] # Unasked
  PROVE  FairInv'
<1>1. TypeOK /\ ProbeSound /\ PromisesCovered /\ AskedBehind BY DEF FairInv
<1>2. TypeOK' BY <1>1 DEF TypeOK, still, fair, Gains
<1>3. ProbeSound' BY <1>1 DEF ProbeSound, still, Capped
<1>4. PromisesCovered'
  <2> SUFFICES ASSUME Capped
               PROVE  /\ remaining = limit - sends /\ pending <= remaining
                      /\ Ahead(IF admitted THEN at + 1 ELSE at) <= pending
    BY DEF PromisesCovered, still, fair, Capped, Ahead, LocalAhead, RemoteAhead
  <2>1. remaining = limit - sends /\ pending <= remaining
    BY <1>1 DEF PromisesCovered
  <2>2. Ahead(IF admitted /\ phase # "next" THEN at + 1 ELSE at) <= pending
    BY <1>1 DEF PromisesCovered
  <2>3. /\ Ahead(at) \in Nat /\ Ahead(at + 1) \in Nat /\ Ahead(at + 1) <= Ahead(at)
        /\ pending \in Nat
    <3>1. at \in Nat \ {0} /\ at + 1 \in Nat \ {0} /\ pending \in Nat BY <1>1 DEF TypeOK
    <3> QED BY <1>1, <3>1, AheadFacts
  <2> QED BY <2>1, <2>2, <2>3
<1>5. AskedBehind' BY <1>1, ScheduleStays DEF AskedBehind, WasAsked, Gains
<1>6. AllAsked' BY ScheduleStays DEF AllAsked, WasAsked
<1> QED BY <1>2, <1>3, <1>4, <1>5, <1>6 DEF FairInv

(* On to the next candidate, the current one asked if it was reserved.     *)
LEMMA ProceedKeeps ==
  ASSUME FairInv, phase = "asking", Proceed, Gains, preempted' \in BOOLEAN,
         Reserved(at) => asked'[at] # Unasked
  PROVE  FairInv'
<1>1. TypeOK /\ ProbeSound /\ PromisesCovered /\ AskedBehind BY DEF FairInv
<1>2. UNCHANGED still BY DEF Proceed, input, schedule, still
<1>3. at \in Nat \ {0} /\ at' = at + 1 /\ phase' = "next" /\ UNCHANGED <<sends, tried, fair, outcome>>
  BY <1>1 DEF TypeOK, Proceed
<1>4. TypeOK'
  <2>1. at' \in Nat \ {0} BY <1>3
  <2> QED BY <1>1, <1>2, <1>3, <2>1 DEF TypeOK, still, fair, Gains
<1>5. ProbeSound' BY <1>1, <1>2, <1>3 DEF ProbeSound, still, Capped
<1>6. PromisesCovered'
  <2> SUFFICES ASSUME Capped
               PROVE  /\ remaining = limit - sends /\ pending <= remaining
                      /\ Ahead(at + 1) <= pending
    BY <1>2, <1>3, ScheduleStays DEF PromisesCovered, still, fair
  <2>1. remaining = limit - sends /\ pending <= remaining
    BY <1>1 DEF PromisesCovered
  <2>2. Ahead(IF admitted THEN at + 1 ELSE at) <= pending
    BY <1>1 DEF PromisesCovered
  <2>3. /\ Ahead(at) \in Nat /\ Ahead(at + 1) \in Nat /\ Ahead(at + 1) <= Ahead(at)
        /\ pending \in Nat
    <3>1. at \in Nat \ {0} /\ at + 1 \in Nat \ {0} /\ pending \in Nat BY <1>1 DEF TypeOK
    <3> QED BY <1>1, <3>1, AheadFacts
  <2> QED BY <2>1, <2>2, <2>3
<1>7. AskedBehind'
  <2> SUFFICES ASSUME NEW i \in 1..Total(scheduled), i < at + 1, Reserved(i)
               PROVE  asked'[i] # Unasked
    BY <1>2, <1>3, ScheduleStays DEF AskedBehind, WasAsked
  <2>1. Total(scheduled) \in Nat BY <1>1, TotalFits, MaxEligibleType
  <2>2. CASE i = at BY <2>2
  <2>3. CASE i < at BY <1>1, <2>3 DEF AskedBehind, WasAsked, Gains
  <2> QED BY <1>3, <2>1, <2>2, <2>3
<1>8. AllAsked' BY <1>1, <1>3 DEF AllAsked, ProbeSound
<1> QED BY <1>4, <1>5, <1>6, <1>7, <1>8 DEF FairInv
-----------------------------------------------------------------------------
LEMMA ProbeKeeps == FairInv /\ Probe => FairInv'
<1> SUFFICES ASSUME FairInv, Probe PROVE FairInv' OBVIOUS
<1>1. TypeOK /\ ProbeSound /\ PromisesCovered /\ AskedBehind BY DEF FairInv
<1>2. /\ UNCHANGED still
      /\ UNCHANGED <<sends, at, remaining, pending, preempted, asked, outcome>>
      /\ phase = "next" /\ phase' = "asking" /\ tried' = 0 /\ admitted' = FALSE
      /\ at <= Total(scheduled)
  BY DEF Probe, input, schedule, still
<1>3. TypeOK'
  <2>1. tried' \in 0..MaxAttempts BY <1>2, AcquisitionAssumption DEF AcquisitionAssumption
  <2>2. admitted' \in BOOLEAN BY <1>2
  <2> QED BY <1>1, <1>2, <2>1, <2>2 DEF TypeOK, still
<1>4. ProbeSound'
  <2>1. ~admitted' BY <1>2
  <2> QED BY <1>1, <1>2, <2>1, ScheduleStays DEF ProbeSound, still, Capped
<1>5. PromisesCovered'
  <2>1. ~admitted' BY <1>2
  <2> QED BY <1>1, <1>2, <2>1
        DEF PromisesCovered, still, Capped, Ahead, LocalAhead, RemoteAhead
<1>6. AskedBehind' BY <1>1, <1>2, ScheduleStays DEF AskedBehind, WasAsked
<1>7. AllAsked' BY <1>1, <1>2 DEF AllAsked, ProbeSound
<1> QED BY <1>3, <1>4, <1>5, <1>6, <1>7 DEF FairInv

(* One more request: a reserved first attempt redeems its promise, any     *)
(* other one takes a request no promise needs.                             *)
LEMMA AttemptKeeps == FairInv /\ Attempt => FairInv'
<1> SUFFICES ASSUME FairInv, Attempt PROVE FairInv' OBVIOUS
<1>1. TypeOK /\ ProbeSound /\ PromisesCovered /\ AskedBehind BY DEF FairInv
<1>2. /\ UNCHANGED still
      /\ UNCHANGED <<at, phase, preempted, asked, outcome>>
      /\ phase = "asking" /\ tried < MaxAttempts
      /\ sends' = sends + 1 /\ tried' = tried + 1 /\ ~Withheld /\ ~OverLimit
  BY DEF Attempt, Attempting, input, schedule, still
<1>3. /\ sends \in Nat /\ before \in Nat /\ before <= sends /\ tried \in 0..MaxAttempts
      /\ at \in Nat \ {0} /\ remaining \in Nat /\ pending \in Nat /\ admitted \in BOOLEAN
      /\ MaxAttempts \in Nat
  BY <1>1, AcquisitionAssumption DEF TypeOK, AcquisitionAssumption
<1>4. /\ Ahead(at) \in Nat /\ Ahead(at + 1) \in Nat /\ Ahead(at + 1) <= Ahead(at)
      /\ Reserved(at) => Ahead(at + 1) + 1 <= Ahead(at)
  <2>1. at <= Total(scheduled) BY <1>1, <1>2 DEF ProbeSound
  <2>2. at + 1 \in Nat \ {0} BY <1>3
  <2> QED BY <1>1, <1>3, <2>1, <2>2, AheadFacts
<1>5. /\ remaining' \in Nat /\ pending' \in Nat /\ admitted' \in BOOLEAN
      /\ Capped => /\ remaining' = limit - sends' /\ pending' <= remaining'
                   /\ admitted' /\ Ahead(at + 1) <= pending'
  <2>1. CASE ~Capped
    <3>1. UNCHANGED fair BY <2>1 DEF Attempt, Capped
    <3> QED BY <1>3, <2>1, <3>1 DEF fair
  <2>2. CASE Capped
    <3>1. /\ remaining = limit - sends /\ pending <= remaining
          /\ Ahead(IF admitted THEN at + 1 ELSE at) <= pending
      BY <1>1, <1>2, <2>2 DEF PromisesCovered
    <3>2. /\ remaining > 0
          /\ (~admitted /\ Reserved(at)) \/ remaining > pending
      BY <1>2, <1>3, <2>2 DEF Withheld, Capped
    <3>3. /\ remaining' = remaining - 1 /\ admitted' = TRUE
          /\ pending' = IF ~admitted /\ Reserved(at) THEN pending - 1 ELSE pending
      BY <2>2 DEF Attempt, PendingAfter, Capped
    <3>4. admitted' /\ admitted' \in BOOLEAN BY <3>3
    <3>5. limit \in Nat BY <1>1, <2>2 DEF TypeOK, Capped
    <3>6. remaining' \in Nat /\ remaining' = limit - sends'
      BY <1>2, <1>3, <3>1, <3>2, <3>3, <3>5
    <3>7. CASE ~admitted /\ Reserved(at)
      <4>1. Ahead(at) <= pending BY <3>1, <3>7
      <4> QED BY <1>3, <1>4, <3>1, <3>2, <3>3, <3>4, <3>6, <3>7, <4>1
    <3>8. CASE ~(~admitted /\ Reserved(at))
      <4>1. pending' = pending /\ remaining > pending BY <3>2, <3>3, <3>8
      <4>2. Ahead(at + 1) <= pending BY <1>3, <1>4, <3>1
      <4> QED BY <1>3, <3>3, <3>4, <3>6, <4>1, <4>2
    <3> QED BY <3>7, <3>8
  <2> QED BY <2>1, <2>2
<1>6. TypeOK'
  <2>1. sends' \in Nat /\ before <= sends' /\ tried' \in 0..MaxAttempts BY <1>2, <1>3
  <2> QED BY <1>1, <1>2, <1>5, <2>1 DEF TypeOK, still
<1>7. ProbeSound'
  <2>1. tried' > 0 BY <1>2, <1>3
  <2> QED BY <1>1, <1>2, <2>1, ScheduleStays DEF ProbeSound, still, Capped
<1>8. PromisesCovered'
  <2>1. Capped => Ahead(IF admitted' /\ phase' # "next" THEN at' + 1 ELSE at') <= pending'
    BY <1>2, <1>5
  <2> QED BY <1>2, <1>5, <2>1
        DEF PromisesCovered, still, Capped, Ahead, LocalAhead, RemoteAhead
<1>9. AskedBehind' BY <1>1, <1>2, ScheduleStays DEF AskedBehind, WasAsked
<1>10. AllAsked' BY <1>1, <1>2 DEF AllAsked, ProbeSound
<1> QED BY <1>6, <1>7, <1>8, <1>9, <1>10 DEF FairInv

(* With the whole budget sent no promise is outstanding.                   *)
LEMMA RefusedKeeps == FairInv /\ RefusedByBudget => FairInv'
<1> SUFFICES ASSUME FairInv, RefusedByBudget PROVE FairInv' OBVIOUS
<1>1. TypeOK /\ ProbeSound /\ PromisesCovered /\ AskedBehind BY DEF FairInv
<1>2. /\ phase = "asking" /\ limit # Unlimited /\ sends >= limit /\ StoreIfSent
      /\ End("budget")
  BY DEF RefusedByBudget, Attempting, OverLimit
<1>3. UNCHANGED still /\ UNCHANGED <<sends, at, tried, fair, preempted>>
  BY <1>2 DEF End, input, schedule, still
<1>4. Gains /\ (tried > 0 => asked'[at] # Unasked) BY <1>2, Stored
<1>5. at \in Nat \ {0} /\ at + 1 \in Nat \ {0} /\ at <= Total(scheduled)
  BY <1>1, <1>2 DEF TypeOK, ProbeSound
<1>6. Ahead(IF admitted THEN at + 1 ELSE at) <= 0
  <2>1. limit \in Nat /\ sends \in Nat /\ pending \in Nat /\ remaining \in Nat
    BY <1>1, <1>2 DEF TypeOK
  <2>2. /\ remaining = limit - sends /\ pending <= remaining
        /\ Ahead(IF admitted THEN at + 1 ELSE at) <= pending
    BY <1>1, <1>2 DEF PromisesCovered, Capped
  <2>3. Ahead(at) \in Nat /\ Ahead(at + 1) \in Nat BY <1>1, <1>5, AheadFacts
  <2> QED BY <1>2, <2>1, <2>2, <2>3
<1>7. \A i \in 1..Total(scheduled) : Reserved(i) => asked'[i] # Unasked
  <2> SUFFICES ASSUME NEW i \in 1..Total(scheduled), Reserved(i) PROVE asked'[i] # Unasked
    OBVIOUS
  <2>1. i \in Nat /\ Total(scheduled) \in Nat BY <1>1, TotalFits, MaxEligibleType
  <2>2. CASE i < at
    BY <1>1, <1>4, <2>2 DEF AskedBehind, WasAsked, Gains
  <2>3. CASE i >= at /\ ~admitted
    <3>1. Ahead(at) = 0 BY <1>1, <1>5, <1>6, <2>3, AheadFacts
    <3> QED BY <1>1, <1>5, <2>3, <3>1, AheadFacts
  <2>4. CASE i > at /\ admitted
    <3>1. Ahead(at + 1) = 0 BY <1>1, <1>5, <1>6, <2>4, AheadFacts
    <3>2. i >= at + 1 BY <1>5, <2>1, <2>4
    <3> QED BY <1>1, <1>5, <3>1, <3>2, AheadFacts
  <2>5. CASE i = at /\ admitted
    <3>1. tried > 0 BY <1>1, <1>2, <2>5 DEF ProbeSound, Capped
    <3> QED BY <1>4, <2>5, <3>1
  <2> QED BY <1>5, <2>1, <2>2, <2>3, <2>4, <2>5
<1> QED BY <1>2, <1>3, <1>4, <1>7, EndKeeps DEF End

(* A withheld attempt is never a reserved first one.                       *)
LEMMA DeferredKeeps == FairInv /\ Deferred => FairInv'
<1> SUFFICES ASSUME FairInv, Deferred PROVE FairInv' OBVIOUS
<1>1. TypeOK /\ ProbeSound /\ PromisesCovered BY DEF FairInv
<1>2. /\ phase = "asking" /\ limit # Unlimited /\ Withheld /\ StoreIfSent
      /\ preempted' = TRUE /\ Proceed
  BY DEF Deferred, Attempting, Withheld
<1>3. Gains /\ (tried > 0 => asked'[at] # Unasked) BY <1>2, Stored
<1>4. Reserved(at) => admitted
  <2> SUFFICES ASSUME Reserved(at), ~admitted PROVE FALSE OBVIOUS
  <2>1. at \in Nat \ {0} /\ at + 1 \in Nat \ {0} /\ pending \in Nat /\ remaining \in Nat
    BY <1>1 DEF TypeOK
  <2>2. Ahead(at) \in Nat /\ Ahead(at + 1) \in Nat /\ Ahead(at + 1) + 1 <= Ahead(at)
    <3>1. at <= Total(scheduled) BY <1>1, <1>2 DEF ProbeSound
    <3> QED BY <1>1, <2>1, <3>1, AheadFacts
  <2>3. Ahead(at) <= pending /\ pending <= remaining
    BY <1>1, <1>2 DEF PromisesCovered, Capped
  <2>4. remaining <= 0 BY <1>2 DEF Withheld
  <2> QED BY <2>1, <2>2, <2>3, <2>4
<1>5. Reserved(at) => asked'[at] # Unasked
  BY <1>1, <1>2, <1>3, <1>4 DEF ProbeSound, Capped
<1>6. preempted' \in BOOLEAN BY <1>2
<1> QED BY <1>2, <1>3, <1>5, <1>6, ProceedKeeps

LEMMA ReturnedKeeps == FairInv /\ Returned => FairInv'
<1> SUFFICES ASSUME FairInv, Returned PROVE FairInv' OBVIOUS
<1>1. phase = "asking" /\ Store(tried) /\ preempted' = preempted /\ Proceed BY DEF Returned
<1>2. Gains /\ asked'[at] # Unasked BY <1>1, Stored
<1>3. preempted' \in BOOLEAN BY <1>1 DEF FairInv, TypeOK
<1> QED BY <1>1, <1>2, <1>3, ProceedKeeps

(* The other ends.                                                         *)
LEMMA OtherEndsKeep ==
  FairInv /\ (RecoveryExhausted \/ Interrupted \/ NotEnabled \/ Finish) => FairInv'
<1> SUFFICES ASSUME FairInv, RecoveryExhausted \/ Interrupted \/ NotEnabled \/ Finish
             PROVE  FairInv'
  OBVIOUS
<1>1. TypeOK /\ AskedBehind BY DEF FairInv
<1>2. UNCHANGED asked => Gains BY <1>1 DEF TypeOK, Gains
<1>3. ASSUME phase = "asking", StoreIfSent, NEW o \in {"recovery", "interrupted"}, End(o)
      PROVE  FairInv'
  <2>1. Gains BY <1>3, Stored
  <2>2. UNCHANGED still /\ UNCHANGED <<sends, at, tried, fair, preempted>>
    BY <1>3 DEF End, input, schedule, still
  <2> QED BY <1>3, <2>1, <2>2, EndKeeps DEF End
<1>4. ASSUME UNCHANGED asked, End("interrupted") PROVE FairInv'
  <2>1. UNCHANGED still /\ UNCHANGED <<sends, at, tried, fair, preempted>>
    BY <1>4 DEF End, input, schedule, still
  <2> QED BY <1>2, <1>4, <2>1, EndKeeps DEF End
<1>5. CASE NotEnabled
  <2>1. UNCHANGED still /\ UNCHANGED <<sends, at, tried, fair, preempted>>
    BY <1>5 DEF NotEnabled, input, schedule, still
  <2> QED BY <1>2, <1>5, <2>1, EndKeeps DEF NotEnabled
<1>6. CASE Finish
  <2>1. UNCHANGED still /\ UNCHANGED <<sends, at, tried, fair, preempted>>
    BY <1>6 DEF Finish, End, input, schedule, still
  <2>2. outcome' \in {"budget", "complete"} /\ phase' = "ended" BY <1>6 DEF Finish, End
  <2>3. \A i \in 1..Total(scheduled) : Reserved(i) => asked'[i] # Unasked
    <3>1. at > Total(scheduled) /\ UNCHANGED asked BY <1>6 DEF Finish
    <3>2. Total(scheduled) \in Nat /\ at \in Nat
      BY <1>1, TotalFits, MaxEligibleType DEF TypeOK
    <3>3. \A i \in 1..Total(scheduled) : i < at BY <3>1, <3>2
    <3> QED BY <1>1, <3>1, <3>3 DEF AskedBehind, WasAsked
  <2> QED BY <1>2, <1>6, <2>1, <2>2, <2>3, EndKeeps DEF Finish
<1>7. CASE RecoveryExhausted BY <1>3, <1>7 DEF RecoveryExhausted
<1>8. CASE Interrupted BY <1>3, <1>4, <1>8 DEF Interrupted
<1> QED BY <1>5, <1>6, <1>7, <1>8
-----------------------------------------------------------------------------
LEMMA FairStep == FairInv /\ [Next]_vars => FairInv'
<1> SUFFICES ASSUME FairInv, [Next]_vars PROVE FairInv' OBVIOUS
<1>1. CASE UNCHANGED vars
  BY <1>1 DEF vars, input, schedule, fair, FairInv, TypeOK, ProbeSound, PromisesCovered,
              AskedBehind, AllAsked, WasAsked, Capped, Total, Reserved, Family, Ahead,
              LocalAhead, RemoteAhead
<1>2. CASE Next
  BY <1>2, ProbeKeeps, AttemptKeeps, RefusedKeeps, DeferredKeeps, ReturnedKeeps,
     OtherEndsKeep DEF Next
<1> QED BY <1>1, <1>2

(* The promise is kept in every reachable state of an acquisition: no      *)
(* reserved first attempt is ever withheld (_FairDescriptionAttemptState). *)
THEOREM FairInvariant == Spec => []FairInv
BY FairStep, InitFairInv, PTL DEF Spec

(* CountingTransport never sends more than the scan's budget while the     *)
(* descriptions are acquired.                                              *)
THEOREM WithinBudget == Spec => [](limit # Unlimited => sends <= limit)
<1>1. FairInv => (limit # Unlimited => sends <= limit)
  <2> SUFFICES ASSUME FairInv, limit # Unlimited PROVE sends <= limit OBVIOUS
  <2>1. limit \in Nat /\ sends \in Nat /\ remaining \in Nat BY DEF FairInv, TypeOK
  <2>2. remaining = limit - sends BY DEF FairInv, PromisesCovered, Capped
  <2> QED BY <2>1, <2>2
<1> QED BY <1>1, FairInvariant, PTL
-----------------------------------------------------------------------------
(* The sum over a set, as the fold of the library computes it.             *)
First(s) == CHOOSE x \in s : TRUE
FoldStep(f, s, h) == IF s = {} THEN 0 ELSE f[First(s)] + h[s \ {First(s)}]
FoldOf(f, S) == CHOOSE h : h = [s \in SUBSET S |-> FoldStep(f, s, h)]

LEMMA SumIsFold ==
  ASSUME NEW f, NEW S
  PROVE  SumFunctionOnSet(f, S) = FoldOf(f, S)[S]
BY Zenon DEF SumFunctionOnSet, FoldFunctionOnSet, MapThenFoldSet, FoldOf, FoldStep, First

(* A set of naturals with a member has a least one.                        *)
LEMMA LeastNumber ==
  ASSUME NEW S \in SUBSET Nat, S # {}
  PROVE  \E x \in S : \A y \in S : x <= y
<1> DEFINE R == {ss \in Nat \X Nat : ss[1] < ss[2]}
<1>1. IsWellFoundedOn(R, Nat)
  BY NatLessThanWellFounded DEF OpToRel
<1>2. \A x, y \in Nat : x < y => <<x, y>> \in R
  OBVIOUS
<1> HIDE DEF R
<1>3. PICK x \in S : \A y \in S : ~ (<<y, x>> \in R)
  BY <1>1, WFMin
<1>4. ASSUME NEW y \in S PROVE x <= y
  <2>1. x \in Nat /\ y \in Nat
    OBVIOUS
  <2>2. <<y, x>> \notin R
    BY <1>3
  <2>3. ~ (y < x)
    BY <1>2, <2>1, <2>2
  <2> QED
    BY <2>1, <2>3
<1> QED
  BY <1>4

(* Among the subsets of a finite set that are of some kind, one is least.  *)
LEMMA SmallestSubset ==
  ASSUME NEW S, IsFiniteSet(S), NEW B \in SUBSET (SUBSET S), B # {}
  PROVE  \E s \in B : \A t \in B : Cardinality(s) <= Cardinality(t)
<1>1. \A s \in B : IsFiniteSet(s) /\ Cardinality(s) \in Nat
  BY FS_Subset, FS_CardinalityType
<1> DEFINE C == {Cardinality(s) : s \in B}
<1>2. C \in SUBSET Nat /\ C # {}
  BY <1>1
<1>3. PICK c \in C : \A d \in C : c <= d
  <2> HIDE DEF C
  <2> QED BY <1>2, LeastNumber
<1> QED
  BY <1>3

LEMMA FirstOut ==
  ASSUME NEW s, IsFiniteSet(s), s # {}
  PROVE  /\ First(s) \in s
         /\ IsFiniteSet(s \ {First(s)})
         /\ Cardinality(s) \in Nat /\ Cardinality(s \ {First(s)}) \in Nat
         /\ Cardinality(s \ {First(s)}) + 1 = Cardinality(s)
<1>1. First(s) \in s
  BY DEF First
<1>2. Cardinality(s) \in Nat /\ Cardinality(s \ {First(s)}) \in Nat
  BY FS_CardinalityType, FS_RemoveElement
<1>3. Cardinality(s \ {First(s)}) = Cardinality(s) - 1
  BY <1>1, FS_RemoveElement
<1> QED
  BY <1>1, <1>2, <1>3, FS_RemoveElement

(* The fold of a finite set satisfies its equation.                        *)
LEMMA FoldEquation ==
  ASSUME NEW f, NEW S, IsFiniteSet(S)
  PROVE  FoldOf(f, S) = [s \in SUBSET S |-> FoldStep(f, s, FoldOf(f, S))]
<1> DEFINE D(n) == {s \in SUBSET S : Cardinality(s) <= n}
           Claim(n) == \E h : h = [s \in D(n) |-> FoldStep(f, s, h)]
           Wrong == {n \in Nat : ~ Claim(n)}
<1>1. \A s \in SUBSET S : IsFiniteSet(s)
  BY FS_Subset
<1>2. Claim(0)
  <2>1. \A s \in D(0) : s = {}
    BY <1>1, FS_EmptySet, FS_CardinalityType
  <2>2. [s \in D(0) |-> 0] = [s \in D(0) |-> FoldStep(f, s, [t \in D(0) |-> 0])]
    BY <2>1 DEF FoldStep
  <2> QED
    BY <2>2
<1>3. ASSUME NEW n \in Nat, Claim(n)
      PROVE  Claim(n + 1)
  <2>1. PICK g : g = [s \in D(n) |-> FoldStep(f, s, g)]
    BY <1>3
  <2> DEFINE h == [s \in D(n + 1) |-> FoldStep(f, s, g)]
  <2>2. ASSUME NEW s \in D(n + 1)
        PROVE  FoldStep(f, s, g) = FoldStep(f, s, h)
    <3>1. CASE s = {}
      BY <3>1 DEF FoldStep
    <3>2. CASE s # {}
      <4> DEFINE t == s \ {First(s)}
      <4>1. t \in SUBSET S /\ Cardinality(t) \in Nat /\ Cardinality(t) <= n
        <5>1. IsFiniteSet(s) /\ s \in SUBSET S /\ Cardinality(s) <= n + 1
          BY <1>1
        <5>2. Cardinality(s) \in Nat /\ Cardinality(t) \in Nat /\ Cardinality(t) + 1 = Cardinality(s)
          BY <3>2, <5>1, FirstOut
        <5> QED
          BY <5>1, <5>2
      <4>2. t \in D(n) /\ t \in D(n + 1)
        BY <4>1
      <4>3. g[t] = FoldStep(f, t, g)
        BY <2>1, <4>2
      <4>4. h[t] = FoldStep(f, t, g)
        BY <4>2
      <4>5. g[t] = h[t]
        BY <4>3, <4>4
      <4> HIDE DEF h, D
      <4> QED
        BY <3>2, <4>5 DEF FoldStep
    <3> QED
      BY <3>1, <3>2
  <2>3. h = [s \in D(n + 1) |-> FoldStep(f, s, h)]
    <3> HIDE DEF D
    <3> QED BY <2>2
  <2> HIDE DEF h, D
  <2> QED
    BY <2>3
<1>4. \A n \in Nat : Claim(n)
  <2> SUFFICES ASSUME Wrong # {}
               PROVE  FALSE
    OBVIOUS
  <2>1. PICK n \in Wrong : \A k \in Wrong : n <= k
    <3>1. Wrong \in SUBSET Nat
      OBVIOUS
    <3> HIDE DEF Wrong
    <3> QED
      BY <3>1, LeastNumber
  <2>2. n \in Nat /\ ~ Claim(n)
    OBVIOUS
  <2> HIDE DEF Claim
  <2>3. n # 0
    BY <1>2, <2>2
  <2>4. n - 1 \in Nat /\ n = (n - 1) + 1
    BY <2>2, <2>3
  <2>5. Claim(n - 1)
    BY <2>1, <2>4
  <2> QED
    BY <1>3, <2>2, <2>4, <2>5
<1>5. D(Cardinality(S)) = SUBSET S
  BY FS_Subset, FS_CardinalityType
<1>6. Claim(Cardinality(S))
  <2> HIDE DEF Claim
  <2> QED
    BY <1>4, FS_CardinalityType
<1>7. \E h : h = [s \in SUBSET S |-> FoldStep(f, s, h)]
  <2> HIDE DEF D
  <2> QED
    BY <1>5, <1>6
<1> QED
  BY <1>7, Zenon DEF FoldOf

LEMMA FoldAt ==
  ASSUME NEW f, NEW S, IsFiniteSet(S), NEW s \in SUBSET S
  PROVE  FoldOf(f, S)[s] = FoldStep(f, s, FoldOf(f, S))
<1> DEFINE h == FoldOf(f, S)
<1>1. h = [r \in SUBSET S |-> FoldStep(f, r, h)]
  BY FoldEquation, Zenon
<1> HIDE DEF h
<1>2. h[s] = FoldStep(f, s, h)
  BY <1>1
<1> QED
  BY <1>2 DEF h

(* What a fold gives a subset depends on the values there alone.           *)
LEMMA FoldAgrees ==
  ASSUME NEW f, NEW g, NEW S, NEW T, IsFiniteSet(S), IsFiniteSet(T),
         NEW s, s \subseteq S, s \subseteq T, \A x \in s : f[x] = g[x]
  PROVE  FoldOf(f, S)[s] = FoldOf(g, T)[s]
<1> DEFINE B == {t \in SUBSET s : FoldOf(f, S)[t] # FoldOf(g, T)[t]}
<1> SUFFICES ASSUME B # {}
             PROVE  FALSE
  OBVIOUS
<1>1. IsFiniteSet(s)
  BY FS_Subset
<1>2. PICK t \in B : \A u \in B : Cardinality(t) <= Cardinality(u)
  <2>1. B \in SUBSET (SUBSET s)
    OBVIOUS
  <2> HIDE DEF B
  <2> QED
    BY <1>1, <2>1, SmallestSubset
<1>3. t \in SUBSET s /\ FoldOf(f, S)[t] # FoldOf(g, T)[t]
  OBVIOUS
<1>4. IsFiniteSet(t)
  BY <1>1, <1>3, FS_Subset
<1>5. /\ FoldOf(f, S)[t] = FoldStep(f, t, FoldOf(f, S))
      /\ FoldOf(g, T)[t] = FoldStep(g, t, FoldOf(g, T))
  <2>1. t \in SUBSET S /\ t \in SUBSET T
    BY <1>3
  <2>2. FoldOf(f, S)[t] = FoldStep(f, t, FoldOf(f, S))
    BY <2>1, FoldAt, Zenon
  <2>3. FoldOf(g, T)[t] = FoldStep(g, t, FoldOf(g, T))
    BY <2>1, FoldAt, Zenon
  <2> QED
    BY <2>2, <2>3
<1>6. t # {}
  BY <1>3, <1>5 DEF FoldStep
<1> DEFINE u == t \ {First(t)}
<1>7. First(t) \in t /\ u \in SUBSET s /\ ~ (Cardinality(t) <= Cardinality(u))
  BY <1>3, <1>4, <1>6, FirstOut
<1>8. u \notin B
  BY <1>2, <1>7
<1>9. FoldOf(f, S)[u] = FoldOf(g, T)[u]
  BY <1>7, <1>8
<1>10. f[First(t)] = g[First(t)]
  BY <1>3, <1>7
<1> QED
  BY <1>3, <1>5, <1>6, <1>9, <1>10 DEF FoldStep

LEMMA SumAgrees ==
  ASSUME NEW f, NEW g, NEW S, IsFiniteSet(S), \A x \in S : f[x] = g[x]
  PROVE  SumFunctionOnSet(f, S) = SumFunctionOnSet(g, S)
BY SumIsFold, FoldAgrees

LEMMA SumEmpty ==
  ASSUME NEW f
  PROVE  SumFunctionOnSet(f, {}) = 0
<1>1. FoldOf(f, {})[{}] = FoldStep(f, {}, FoldOf(f, {}))
  BY FoldAt, FS_EmptySet
<1> QED
  BY <1>1, SumIsFold DEF FoldStep

LEMMA SumFirst ==
  ASSUME NEW f, NEW S, IsFiniteSet(S), S # {}
  PROVE  SumFunctionOnSet(f, S) = f[First(S)] + SumFunctionOnSet(f, S \ {First(S)})
<1> DEFINE T == S \ {First(S)}
<1>2. FoldOf(f, S)[S] = FoldStep(f, S, FoldOf(f, S))
  BY FoldAt
<1>3. FoldOf(f, S)[T] = FoldOf(f, T)[T]
  BY FirstOut, FoldAgrees
<1> QED
  BY <1>2, <1>3, SumIsFold DEF FoldStep

(* The sum with a member apart, and its type.                              *)
LEMMA SumApart ==
  ASSUME NEW f, NEW S, IsFiniteSet(S), \A x \in S : f[x] \in Nat
  PROVE  /\ SumFunctionOnSet(f, S) \in Nat
         /\ \A x \in S : SumFunctionOnSet(f, S) = f[x] + SumFunctionOnSet(f, S \ {x})
<1> DEFINE Good(s) == /\ SumFunctionOnSet(f, s) \in Nat
                      /\ \A x \in s : SumFunctionOnSet(f, s)
                                        = f[x] + SumFunctionOnSet(f, s \ {x})
           B == {s \in SUBSET S : ~ Good(s)}
<1> SUFFICES ASSUME B # {}
             PROVE  FALSE
  OBVIOUS
<1>1. PICK s \in B : \A t \in B : Cardinality(s) <= Cardinality(t)
  <2>1. B \in SUBSET (SUBSET S)
    OBVIOUS
  <2> HIDE DEF B
  <2> QED
    BY <2>1, SmallestSubset
<1>2. s \in SUBSET S /\ ~ Good(s)
  OBVIOUS
<1>3. IsFiniteSet(s)
  BY <1>2, FS_Subset
<1>4. s # {}
  <2>1. Good({})
    BY SumEmpty
  <2> QED
    BY <1>2, <2>1
<1> DEFINE p == First(s)
<1>5. p \in s /\ f[p] \in Nat
  BY <1>2, <1>3, <1>4, FirstOut
<1>6. ASSUME NEW x \in s
      PROVE  Good(s \ {x})
  <2>1. /\ s \ {x} \in SUBSET S
        /\ Cardinality(s \ {x}) = Cardinality(s) - 1
    BY <1>2, <1>3, FS_RemoveElement
  <2>2. Cardinality(s) \in Nat
    BY <1>3, FS_CardinalityType
  <2>3. ~ (Cardinality(s) <= Cardinality(s \ {x}))
    BY <2>1, <2>2
  <2>4. s \ {x} \notin B
    BY <1>1, <2>3
  <2> QED
    BY <2>1, <2>4
<1>7. SumFunctionOnSet(f, s) = f[p] + SumFunctionOnSet(f, s \ {p})
  BY <1>3, <1>4, SumFirst
<1>8. SumFunctionOnSet(f, s \ {p}) \in Nat /\ SumFunctionOnSet(f, s) \in Nat
  BY <1>5, <1>6, <1>7
<1>9. ASSUME NEW x \in s
      PROVE  SumFunctionOnSet(f, s) = f[x] + SumFunctionOnSet(f, s \ {x})
  <2>1. CASE x = p
    BY <1>7, <2>1
  <2>2. CASE x # p
    <3> DEFINE r == (s \ {p}) \ {x}
    <3>1. (s \ {x}) \ {p} = r
      OBVIOUS
    <3>2. SumFunctionOnSet(f, s \ {p}) = f[x] + SumFunctionOnSet(f, r)
      BY <1>5, <1>6, <2>2
    <3>3. SumFunctionOnSet(f, s \ {x}) = f[p] + SumFunctionOnSet(f, r)
      <4>1. p \in s \ {x} /\ Good(s \ {x})
        BY <1>5, <1>6, <2>2
      <4>2. SumFunctionOnSet(f, s \ {x}) = f[p] + SumFunctionOnSet(f, (s \ {x}) \ {p})
        BY <4>1
      <4> QED
        BY <3>1, <4>2
    <3>4. SumFunctionOnSet(f, s \ {x}) \in Nat /\ f[x] \in Nat
      BY <1>2, <1>6
    <3>5. SumFunctionOnSet(f, r) \in Nat
      <4>1. Good(s \ {p})
        BY <1>5, <1>6
      <4>2. x \in s \ {p} /\ (s \ {p}) \ {x} = r
        BY <2>2
      <4>3. r \in SUBSET S /\ ~ (Cardinality(s) <= Cardinality(r))
        <5>1. IsFiniteSet(s \ {p}) /\ Cardinality(s \ {p}) = Cardinality(s) - 1
          BY <1>3, <1>5, FS_RemoveElement
        <5>2. Cardinality(r) = Cardinality(s \ {p}) - 1
          BY <4>2, <5>1, FS_RemoveElement
        <5>3. Cardinality(s) \in Nat
          BY <1>3, FS_CardinalityType
        <5> QED
          BY <1>2, <5>1, <5>2, <5>3
      <4>4. r \notin B
        BY <1>1, <4>3
      <4> QED
        BY <4>3, <4>4
    <3> HIDE DEF r, p
    <3> QED
      BY <1>5, <1>7, <3>2, <3>3, <3>4, <3>5
  <2> QED
    BY <2>1, <2>2
<1> QED
  BY <1>2, <1>8, <1>9

LEMMA SumOut ==
  ASSUME NEW f, NEW S, IsFiniteSet(S), \A x \in S : f[x] \in Nat, NEW y \in S
  PROVE  SumFunctionOnSet(f, S) = f[y] + SumFunctionOnSet(f, S \ {y})
BY SumApart
(* The requests the stored descriptions report, and those of the probe     *)
(* under way.                                                              *)
Reported(descriptions) ==
  SumFunctionOnSet(descriptions, Attempted("local", descriptions))
    + SumFunctionOnSet(descriptions, Attempted("remote", descriptions))
UnderWay == IF phase = "asking" THEN tried ELSE 0
NoneEmpty == \A i \in DOMAIN asked : asked[i] # 0

(* A budget that cuts the schedule short is all of what the scan had left. *)
CutByBudget ==
  Total(scheduled) < configured => Capped /\ Total(scheduled) = limit - before

(* What is asked lies behind the current candidate.                        *)
AskedOnce ==
  /\ phase # "ended" => \A i \in DOMAIN asked : i >= at => asked[i] = Unasked
  /\ phase = "next" => at <= Total(scheduled) + 1
  /\ phase = "asking" /\ Capped /\ tried > 0 => admitted

(* The descriptions and the probe under way report every request sent.     *)
SendsReported == phase # "ended" => sends - before = Reported(asked) + UnderWay

(* After a preemption the capacity is what the promises outstanding need;  *)
(* if every probe so far sent something, those are the promises ahead, and *)
(* without a preemption each candidate so far has had its request.         *)
PromisesExact ==
  /\ preempted => Capped /\ remaining <= pending
  /\ phase # "ended" /\ NoneEmpty =>
       /\ Capped => pending = Ahead(IF admitted /\ phase # "next" THEN at + 1 ELSE at)
       /\ ~preempted => at - 1 + UnderWay <= sends - before

ReportInv ==
  FairInv /\ CutByBudget /\ AskedOnce /\ SendsReported /\ PromisesExact /\ ReportTrue
-----------------------------------------------------------------------------
(* Together the families take all the budget allows.                       *)
LEMMA ConsumedAll ==
  ASSUME NEW e \in [Families -> 0..MaxEligible], NEW b \in Nat
  PROVE  Total(e) \in Nat /\ Total(Consumed(e, b)) = Least(b, Total(e))
<1> DEFINE l == e["local"]
           r == e["remote"]
           ol == Least(l, (b + 1) \div 2)
           or == Least(r, b \div 2)
           spare == b - ol - or
           more == Least(l - ol, spare)
           last == Least(r - or, spare - more)
<1>1. l \in Nat /\ r \in Nat
  BY MaxEligibleType DEF Families
<1>2. PICK x, y \in Nat : x = (b + 1) \div 2 /\ y = b \div 2 /\ x + y = b
  <2>1. (b + 1) \div 2 \in Nat /\ b \div 2 \in Nat /\ (b + 1) \div 2 + b \div 2 = b
    OBVIOUS
  <2> QED BY <2>1
<1>3. Total(Consumed(e, b)) = (ol + more) + (or + last)
  BY DEF Total, Consumed, Families, Reservation
<1>4. ol = Least(l, x) /\ or = Least(r, y)
  BY <1>2
<1>5. Total(e) = l + r
  BY DEF Total
<1> HIDE DEF l, r
<1>6. (ol + more) + (or + last) = Least(b, l + r)
  BY <1>1, <1>2, <1>4 DEF Least
<1> QED
  BY <1>1, <1>3, <1>5, <1>6

LEMMA CutInit == Init => CutByBudget
<1> SUFFICES ASSUME Init, Total(scheduled) < configured
             PROVE  Capped /\ Total(scheduled) = limit - before
  BY DEF CutByBudget
<1>1. /\ eligible \in [Families -> 0..MaxEligible] /\ before \in Nat
      /\ described \in Nat \cup {Unlimited}
      /\ Capped => limit \in Nat /\ before <= limit
  BY AcquisitionAssumption DEF Init, Capped, AcquisitionAssumption
<1>2. Total(eligible) \in Nat
  BY <1>1, ConsumedAll
<1>3. configured \in Nat /\ configured <= Total(eligible)
  <2> DEFINE b == IF described = Unlimited THEN Total(eligible) ELSE described
  <2>1. b \in Nat
    BY <1>1, <1>2
  <2>2. configured = Total(Consumed(eligible, b))
    BY DEF Init, Configured
  <2> HIDE DEF b
  <2>3. Total(Consumed(eligible, b)) = Least(b, Total(eligible))
    BY <1>1, <2>1, ConsumedAll
  <2> QED
    BY <1>2, <2>1, <2>2, <2>3 DEF Least
<1>4. Capped => Capacity \in Nat /\ Capacity = limit - before
  BY <1>1 DEF Capacity
<1>5. EffectiveBudget = IF Capped THEN Least(configured, Capacity) ELSE configured
  BY DEF EffectiveBudget, Capped
<1>6. EffectiveBudget \in Nat
  BY <1>3, <1>4, <1>5 DEF Least
<1>7. Total(scheduled) = Least(EffectiveBudget, Total(eligible))
  <2>1. scheduled = Consumed(eligible, EffectiveBudget)
    BY DEF Init
  <2> QED
    BY <1>1, <1>6, <2>1, ConsumedAll
<1>8. Capped
  BY <1>2, <1>3, <1>5, <1>7 DEF Least
<1> QED
  BY <1>2, <1>3, <1>4, <1>5, <1>7, <1>8 DEF Least

(* A reserved candidate is exactly one promise, and behind the last one    *)
(* there is none.                                                          *)
LEMMA AheadExact ==
  ASSUME TypeOK, ProbeSound
  PROVE  /\ \A i \in 1..Total(scheduled) :
              Ahead(i) = Ahead(i + 1) + (IF Reserved(i) THEN 1 ELSE 0)
         /\ Ahead(Total(scheduled) + 1) = 0
         /\ Ahead(1) = reserved["local"] + reserved["remote"]
<1> DEFINE sl == scheduled["local"]
           sr == scheduled["remote"]
           rl == reserved["local"]
           rr == reserved["remote"]
<1>1. /\ sl \in Nat /\ sr \in Nat /\ rl \in Nat /\ rr \in Nat
      /\ rl <= sl /\ rr <= sr
  <2>1. \A f \in Families : /\ scheduled[f] \in Nat /\ reserved[f] \in Nat
                            /\ reserved[f] <= scheduled[f]
    <3> SUFFICES ASSUME NEW f \in Families
                 PROVE  /\ scheduled[f] \in Nat /\ reserved[f] \in Nat
                        /\ reserved[f] <= scheduled[f]
      OBVIOUS
    <3>1. scheduled[f] \in Nat /\ reserved[f] \in Nat BY MaxEligibleType DEF TypeOK
    <3>2. reserved[f] <= IF Capped THEN scheduled[f] ELSE 0 BY DEF ProbeSound
    <3> QED BY <3>1, <3>2
  <2> QED BY <2>1 DEF Families
<1>2. Total(scheduled) = sl + sr BY DEF Total
<1>3. \A j \in Nat \ {0} :
        Reserved(j) <=> IF j <= sl THEN j <= rl ELSE j - sl <= rr
  BY DEF Reserved, Family
<1>4. \A j \in Nat \ {0} :
        Ahead(j) = (IF j <= rl THEN rl - j + 1 ELSE 0)
                   + (IF j <= sl THEN rr
                      ELSE IF j - sl <= rr THEN rr - (j - sl) + 1 ELSE 0)
  BY DEF Ahead, LocalAhead, RemoteAhead
<1> HIDE DEF sl, sr, rl, rr
<1>5. ASSUME NEW i \in 1..Total(scheduled)
      PROVE  Ahead(i) = Ahead(i + 1) + (IF Reserved(i) THEN 1 ELSE 0)
  <2>1. i \in Nat \ {0} /\ i + 1 \in Nat \ {0} /\ i <= sl + sr
    BY <1>1, <1>2
  <2>2. CASE i <= sl
    <3>1. Reserved(i) <=> i <= rl
      BY <1>3, <2>1, <2>2
    <3>2. Ahead(i) = (IF i <= rl THEN rl - i + 1 ELSE 0) + rr
      BY <1>4, <2>1, <2>2
    <3>3. Ahead(i + 1) = (IF i + 1 <= rl THEN rl - i ELSE 0) + rr
      BY <1>1, <1>4, <2>1, <2>2
    <3> QED
      BY <1>1, <2>1, <3>1, <3>2, <3>3
  <2>3. CASE i > sl
    <3>1. Reserved(i) <=> i - sl <= rr
      BY <1>1, <1>3, <2>1, <2>3
    <3>2. Ahead(i) = IF i - sl <= rr THEN rr - (i - sl) + 1 ELSE 0
      BY <1>1, <1>4, <2>1, <2>3
    <3>3. Ahead(i + 1) = IF i + 1 - sl <= rr THEN rr - (i - sl) ELSE 0
      BY <1>1, <1>4, <2>1, <2>3
    <3> QED
      BY <1>1, <2>1, <3>1, <3>2, <3>3
  <2> QED
    BY <1>1, <2>1, <2>2, <2>3
<1>6. Ahead(Total(scheduled) + 1) = 0
  BY <1>1, <1>2, <1>4
<1>7. Ahead(1) = rl + rr
  BY <1>1, <1>4
<1> QED
  BY <1>5, <1>6, <1>7 DEF rl, rr
-----------------------------------------------------------------------------
(* The reports of one family, before and after the current probe stores    *)
(* what it sent.                                                           *)
LEMMA FamilyReports ==
  ASSUME TypeOK, NEW d, d \in [1..(2 * MaxEligible) -> Nat \cup {Unasked}],
         NEW f \in Families
  PROVE  /\ IsFiniteSet(Attempted(f, d))
         /\ SumFunctionOnSet(d, Attempted(f, d)) \in Nat
         /\ \A i \in Attempted(f, d) : d[i] \in Nat
<1>1. Total(scheduled) \in 0..(2 * MaxEligible)
  BY TotalFits
<1>2. Attempted(f, d) \subseteq 1..Total(scheduled)
  BY DEF Attempted, Of
<1>3. IsFiniteSet(Attempted(f, d))
  <2>1. IsFiniteSet(1..Total(scheduled))
    BY <1>1, MaxEligibleType, FS_Interval
  <2> QED
    BY <1>2, <2>1, FS_Subset
<1>4. \A i \in Attempted(f, d) : d[i] \in Nat
  <2> SUFFICES ASSUME NEW i \in Attempted(f, d)
               PROVE  d[i] \in Nat
    OBVIOUS
  <2>1. i \in 1..(2 * MaxEligible)
    BY <1>1, <1>2, MaxEligibleType
  <2>2. d[i] # Unasked
    BY DEF Attempted
  <2> QED
    BY <2>1, <2>2
<1> QED
  BY <1>3, <1>4, SumApart

LEMMA FamilyOut ==
  ASSUME NEW d, NEW f, IsFiniteSet(Attempted(f, d)),
         \A j \in Attempted(f, d) : d[j] \in Nat, NEW i, i \in Attempted(f, d)
  PROVE  SumFunctionOnSet(d, Attempted(f, d))
           = d[i] + SumFunctionOnSet(d, Attempted(f, d) \ {i})
BY SumOut

LEMMA FamilyStores ==
  ASSUME TypeOK, at \in 1..Total(scheduled), asked[at] = Unasked, tried \in Nat,
         NEW f \in Families, NEW d, d = [asked EXCEPT ![at] = tried]
  PROVE  SumFunctionOnSet(d, Attempted(f, d))
           = SumFunctionOnSet(asked, Attempted(f, asked))
               + (IF Family(at) = f THEN tried ELSE 0)
<1> DEFINE A == Attempted(f, asked)
<1>1. asked \in [1..(2 * MaxEligible) -> Nat \cup {Unasked}]
  BY DEF TypeOK
<1>2. at \in 1..(2 * MaxEligible) /\ tried # Unasked
  BY TotalFits, MaxEligibleType DEF Unasked
<1>3. /\ d \in [1..(2 * MaxEligible) -> Nat \cup {Unasked}] /\ d[at] = tried
      /\ \A i \in 1..(2 * MaxEligible) : i # at => d[i] = asked[i]
  BY <1>1, <1>2
<1>4. \A i \in Of(f) : i \in 1..(2 * MaxEligible)
  BY TotalFits, MaxEligibleType DEF Of
<1>5. at \notin A
  BY DEF Attempted
<1>6. \A i \in A : d[i] = asked[i]
  BY <1>3, <1>4, <1>5 DEF Attempted
<1>7. IsFiniteSet(A) /\ SumFunctionOnSet(asked, A) \in Nat
  BY <1>1, FamilyReports
<1>8. SumFunctionOnSet(d, A) = SumFunctionOnSet(asked, A)
  BY <1>6, <1>7, SumAgrees
<1>9. CASE Family(at) = f
  <2>1. Attempted(f, d) = A \cup {at}
    BY <1>2, <1>3, <1>4, <1>9 DEF Attempted, Of
  <2>2. /\ IsFiniteSet(Attempted(f, d)) /\ \A i \in Attempted(f, d) : d[i] \in Nat
    BY <1>3, FamilyReports
  <2>3. SumFunctionOnSet(d, Attempted(f, d))
          = d[at] + SumFunctionOnSet(d, Attempted(f, d) \ {at})
    <3>1. at \in Attempted(f, d)
      BY <2>1
    <3> QED
      BY <2>2, <3>1, FamilyOut
  <2>4. Attempted(f, d) \ {at} = A
    BY <1>5, <2>1
  <2>5. SumFunctionOnSet(d, Attempted(f, d)) = tried + SumFunctionOnSet(asked, A)
    BY <1>3, <1>8, <2>3, <2>4
  <2> HIDE DEF A
  <2>6. tried + SumFunctionOnSet(asked, A) = SumFunctionOnSet(asked, A) + tried
    BY <1>7
  <2> QED
    BY <1>9, <2>5, <2>6 DEF A
<1>10. CASE Family(at) # f
  <2>1. Attempted(f, d) = A
    BY <1>3, <1>4, <1>10 DEF Attempted, Of
  <2> HIDE DEF A
  <2>2. SumFunctionOnSet(asked, A) = SumFunctionOnSet(asked, A) + 0
    BY <1>7
  <2> QED
    BY <1>8, <1>10, <2>1, <2>2 DEF A
<1> QED
  BY <1>9, <1>10
-----------------------------------------------------------------------------
(* A candidate belongs to one family.                                      *)
LEMMA OneFamily == \A i : Family(i) = "local" \/ Family(i) = "remote"
BY DEF Family

LEMMA ReportedType == TypeOK => Reported(asked) \in Nat
<1> SUFFICES ASSUME TypeOK
             PROVE  Reported(asked) \in Nat
  OBVIOUS
<1>1. \A f \in Families : SumFunctionOnSet(asked, Attempted(f, asked)) \in Nat
  BY FamilyReports DEF TypeOK
<1>2. /\ SumFunctionOnSet(asked, Attempted("local", asked)) \in Nat
      /\ SumFunctionOnSet(asked, Attempted("remote", asked)) \in Nat
  BY <1>1 DEF Families
<1> QED
  BY <1>2 DEF Reported

(* What a probe stores is reported, and only once.                         *)
LEMMA StoredOnce ==
  ASSUME FairInv, AskedOnce, phase = "asking", Store(tried) \/ StoreIfSent
  PROVE  /\ at \in 1..Total(scheduled) /\ at \in DOMAIN asked
         /\ Reported(asked') = Reported(asked) + tried
         /\ NoneEmpty' => NoneEmpty
         /\ DOMAIN asked' = DOMAIN asked
         /\ \A i \in DOMAIN asked : i > at => asked'[i] = Unasked
<1>1. /\ TypeOK /\ ProbeSound
      /\ asked \in [1..(2 * MaxEligible) -> Nat \cup {Unasked}]
      /\ at \in Nat \ {0} /\ tried \in Nat
  <2>1. TypeOK /\ ProbeSound BY DEF FairInv
  <2>2. /\ asked \in [1..(2 * MaxEligible) -> Nat \cup {Unasked}]
        /\ at \in Nat \ {0} /\ tried \in 0..MaxAttempts
    BY <2>1 DEF TypeOK
  <2> QED BY <2>1, <2>2, AcquisitionAssumption DEF AcquisitionAssumption
<1>2. at \in 1..Total(scheduled) /\ at \in 1..(2 * MaxEligible)
  <2>1. at <= Total(scheduled)
    BY <1>1 DEF ProbeSound
  <2> QED
    BY <1>1, <2>1, TotalFits, MaxEligibleType
<1>3. DOMAIN asked = 1..(2 * MaxEligible)
  BY <1>1
<1>4. \A i \in DOMAIN asked : i >= at => asked[i] = Unasked
  BY DEF AskedOnce
<1>5. asked[at] = Unasked
  BY <1>1, <1>2, <1>3, <1>4
<1>6. Reported(asked) \in Nat
  BY <1>1, ReportedType
<1>7. CASE asked' = [asked EXCEPT ![at] = tried]
  <2>1. \A f \in Families :
          SumFunctionOnSet(asked', Attempted(f, asked'))
            = SumFunctionOnSet(asked, Attempted(f, asked))
                + (IF Family(at) = f THEN tried ELSE 0)
    BY <1>1, <1>2, <1>5, <1>7, FamilyStores
  <2>2. /\ SumFunctionOnSet(asked', Attempted("local", asked'))
             = SumFunctionOnSet(asked, Attempted("local", asked))
                 + (IF Family(at) = "local" THEN tried ELSE 0)
        /\ SumFunctionOnSet(asked', Attempted("remote", asked'))
             = SumFunctionOnSet(asked, Attempted("remote", asked))
                 + (IF Family(at) = "remote" THEN tried ELSE 0)
    BY <2>1 DEF Families
  <2>3. /\ SumFunctionOnSet(asked, Attempted("local", asked)) \in Nat
        /\ SumFunctionOnSet(asked, Attempted("remote", asked)) \in Nat
    BY <1>1, FamilyReports DEF Families
  <2>4. Reported(asked') = Reported(asked) + tried
    BY <1>1, <2>2, <2>3, OneFamily DEF Reported
  <2>5. /\ DOMAIN asked' = DOMAIN asked
        /\ \A i \in DOMAIN asked : i # at => asked'[i] = asked[i]
    BY <1>1, <1>2, <1>7
  <2>6. NoneEmpty' => NoneEmpty
    <3> SUFFICES ASSUME \A i \in DOMAIN asked' : asked'[i] # 0, NEW i \in DOMAIN asked
                 PROVE  asked[i] # 0
      BY DEF NoneEmpty
    <3>1. CASE i = at
      BY <1>5, <3>1 DEF Unasked
    <3>2. CASE i # at
      BY <2>5, <3>2
    <3> QED
      BY <3>1, <3>2
  <2>7. \A i \in DOMAIN asked : i > at => asked'[i] = Unasked
    BY <1>1, <1>3, <1>4, <2>5
  <2> QED
    BY <1>2, <1>3, <2>4, <2>5, <2>6, <2>7
<1>8. CASE tried = 0 /\ asked' = asked
  <2>1. Reported(asked') = Reported(asked) + tried
    BY <1>6, <1>8
  <2>2. NoneEmpty' => NoneEmpty
    BY <1>8 DEF NoneEmpty
  <2>3. \A i \in DOMAIN asked : i > at => asked[i] = Unasked
    BY <1>1, <1>3, <1>4
  <2> QED
    BY <1>2, <1>3, <1>8, <2>1, <2>2, <2>3
<1> QED
  BY <1>1, <1>7, <1>8 DEF Store, StoreIfSent
-----------------------------------------------------------------------------
(* What the definitions of the report depend on.                           *)
LEMMA ReportedStays ==
  ASSUME UNCHANGED <<still, asked>>
  PROVE  Reported(asked)' = Reported(asked) /\ NoneEmpty' = NoneEmpty
<1>1. asked' = asked /\ scheduled' = scheduled
  BY DEF still
<1> QED
  BY <1>1, Zenon DEF Reported, NoneEmpty, Attempted, Of, Family, Total

LEMMA ReportedNext ==
  ASSUME UNCHANGED still
  PROVE  Reported(asked)' = Reported(asked') /\ CutByBudget' = CutByBudget
<1>1. /\ scheduled' = scheduled /\ configured' = configured /\ limit' = limit
      /\ before' = before
  BY DEF still
<1>2. Reported(asked)' = Reported(asked')
  BY <1>1, Zenon DEF Reported, Attempted, Of, Family, Total
<1>3. CutByBudget' = CutByBudget
  BY <1>1, Zenon DEF CutByBudget, Total, Capped
<1> QED
  BY <1>2, <1>3

LEMMA ReportInit == Init => ReportInv
<1> SUFFICES ASSUME Init
             PROVE  ReportInv
  OBVIOUS
<1>1. FairInv /\ CutByBudget
  BY InitFairInv, CutInit
<1>2. TypeOK /\ ProbeSound
  BY <1>1 DEF FairInv
<1>3. /\ phase = "next" /\ at = 1 /\ tried = 0 /\ sends = before /\ outcome = "none"
      /\ asked = [i \in 1..(2 * MaxEligible) |-> Unasked]
      /\ admitted = FALSE /\ preempted = FALSE
      /\ pending = IF limit = Unlimited THEN 0 ELSE Total(reserved)
  BY DEF Init
<1>4. AskedOnce
  <2>1. Total(scheduled) \in Nat
    BY <1>2, TotalFits, MaxEligibleType
  <2> QED
    BY <1>3, <2>1 DEF AskedOnce
<1>5. sends - before = 0
  BY <1>2, <1>3 DEF TypeOK
<1>6. SendsReported
  <2>1. \A f \in Families : Attempted(f, asked) = {}
    <3>1. \A i \in 1..Total(scheduled) : i \in 1..(2 * MaxEligible)
      BY <1>2, TotalFits, MaxEligibleType
    <3> QED
      BY <1>3, <3>1 DEF Attempted, Of
  <2>2. Reported(asked) = 0
    BY <2>1, SumEmpty DEF Reported, Families
  <2> QED
    BY <1>3, <1>5, <2>2 DEF SendsReported, UnderWay
<1>7. PromisesExact
  <2>1. Capped => pending = Ahead(1)
    BY <1>2, <1>3, AheadExact DEF Capped, Total
  <2> QED
    BY <1>3, <1>5, <2>1 DEF PromisesExact, UnderWay
<1>8. ReportTrue
  BY <1>3 DEF ReportTrue, BudgetSpent, CoverageTrue
<1> QED
  BY <1>1, <1>4, <1>6, <1>7, <1>8 DEF ReportInv
-----------------------------------------------------------------------------
(* A new probe has sent nothing yet.                                       *)
LEMMA ProbeReports == ReportInv /\ FairInv' /\ Probe => ReportInv'
<1> SUFFICES ASSUME ReportInv, FairInv', Probe
             PROVE  ReportInv'
  OBVIOUS
<1>1. /\ TypeOK /\ CutByBudget /\ AskedOnce /\ SendsReported /\ PromisesExact
  BY DEF ReportInv, FairInv
<1>2. /\ UNCHANGED still /\ UNCHANGED asked
      /\ UNCHANGED <<sends, at, remaining, pending, preempted, outcome>>
      /\ phase = "next" /\ phase' = "asking" /\ tried' = 0 /\ admitted' = FALSE
  BY DEF Probe, input, schedule, still
<1>3. Reported(asked)' = Reported(asked) /\ NoneEmpty' = NoneEmpty
  BY <1>2, ReportedStays
<1>4. CutByBudget'
  BY <1>1, <1>2, ReportedNext
<1>5. AskedOnce'
  BY <1>1, <1>2 DEF AskedOnce
<1>6. sends' = sends /\ before' = before
  BY <1>2 DEF still
<1>7. SendsReported'
  BY <1>1, <1>2, <1>3, <1>6 DEF SendsReported, UnderWay
<1>8. PromisesExact'
  <2>1. Capped' = Capped /\ Ahead(at)' = Ahead(at)
    <3>1. /\ at' = at /\ scheduled' = scheduled /\ reserved' = reserved /\ limit' = limit
      BY <1>2 DEF still
    <3> QED
      BY <3>1, Zenon DEF Capped, Ahead, LocalAhead, RemoteAhead
  <2>2. NoneEmpty => /\ Capped => pending = Ahead(at)
                     /\ ~preempted => at - 1 + 0 <= sends - before
    BY <1>1, <1>2 DEF PromisesExact, UnderWay
  <2>3. preempted => Capped /\ remaining <= pending
    BY <1>1 DEF PromisesExact
  <2>4. (IF admitted' /\ phase' # "next" THEN at' + 1 ELSE at') = at'
    BY <1>2
  <2>5. UnderWay' = 0
    BY <1>2 DEF UnderWay
  <2>6. Ahead(IF admitted /\ phase # "next" THEN at + 1 ELSE at)' = Ahead(at)
    <3>1. /\ scheduled' = scheduled /\ reserved' = reserved
      BY <1>2 DEF still
    <3> QED
      BY <1>2, <2>4, <3>1 DEF Ahead, LocalAhead, RemoteAhead
  <2> QED
    BY <1>2, <1>3, <1>6, <2>1, <2>2, <2>3, <2>5, <2>6 DEF PromisesExact
<1>9. ReportTrue'
  <2>1. outcome' = "none"
    BY <1>2 DEF ReportInv, FairInv, ProbeSound
  <2> QED
    BY <2>1 DEF ReportTrue, BudgetSpent, CoverageTrue
<1> QED
  BY <1>4, <1>5, <1>7, <1>8, <1>9 DEF ReportInv

(* One more request of the probe under way.                                *)
LEMMA AttemptReports == ReportInv /\ FairInv' /\ Attempt => ReportInv'
<1> SUFFICES ASSUME ReportInv, FairInv', Attempt
             PROVE  ReportInv'
  OBVIOUS
<1>1. /\ TypeOK /\ ProbeSound /\ PromisesCovered
      /\ CutByBudget /\ AskedOnce /\ SendsReported /\ PromisesExact
  BY DEF ReportInv, FairInv
<1>2. /\ UNCHANGED still /\ UNCHANGED asked
      /\ UNCHANGED <<at, phase, preempted, outcome>>
      /\ phase = "asking"
      /\ sends' = sends + 1 /\ tried' = tried + 1 /\ ~Withheld
  BY DEF Attempt, Attempting, input, schedule, still
<1>3. /\ sends \in Nat /\ before \in Nat /\ tried \in Nat
      /\ at \in Nat \ {0} /\ remaining \in Nat /\ pending \in Nat /\ admitted \in BOOLEAN
  BY <1>1, AcquisitionAssumption DEF TypeOK, AcquisitionAssumption
<1>4. Reported(asked)' = Reported(asked) /\ NoneEmpty' = NoneEmpty
  BY <1>2, ReportedStays
<1>5. CutByBudget'
  BY <1>1, <1>2, ReportedNext
<1>6. Capped' = Capped /\ before' = before /\ scheduled' = scheduled
  BY <1>2, ScheduleStays DEF still
<1>7. Capped => /\ remaining' = remaining - 1 /\ admitted' = TRUE
                /\ pending' = PendingAfter
  BY DEF Attempt, Capped
<1>8. AskedOnce'
  BY <1>1, <1>2, <1>6, <1>7 DEF AskedOnce
<1>9. SendsReported'
  <2>1. PICK r \in Nat : r = Reported(asked)
    BY <1>1, ReportedType
  <2>2. sends - before = r + tried
    BY <1>1, <1>2, <2>1 DEF SendsReported, UnderWay
  <2>3. (sends + 1) - before = r + (tried + 1)
    <3>1. sends \in Int /\ before \in Int /\ tried \in Int /\ r \in Int
      BY <1>3, <2>1
    <3> QED
      BY <2>2, <3>1
  <2> QED
    BY <1>2, <1>4, <1>6, <2>1, <2>3 DEF SendsReported, UnderWay
<1>10. preempted' => Capped' /\ remaining' <= pending'
  <2> SUFFICES ASSUME preempted
               PROVE  Capped /\ remaining' <= pending'
    BY <1>2, <1>6
  <2>1. Capped /\ remaining <= pending
    BY <1>1 DEF PromisesExact
  <2>2. ~admitted /\ Reserved(at)
    BY <1>2, <2>1 DEF Withheld, Capped
  <2>3. pending' = pending - 1 /\ remaining' = remaining - 1
    BY <1>7, <2>1, <2>2 DEF PendingAfter
  <2> QED
    BY <1>3, <2>1, <2>3
<1>11. ASSUME NoneEmpty, Capped
       PROVE  pending' = Ahead(at + 1)
  <2>1. pending = Ahead(IF admitted THEN at + 1 ELSE at)
    BY <1>1, <1>2, <1>11 DEF PromisesExact
  <2>2. at \in 1..Total(scheduled)
    <3>1. at <= Total(scheduled)
      BY <1>1, <1>2 DEF ProbeSound
    <3> QED
      BY <1>1, <1>3, <3>1, TotalFits, MaxEligibleType
  <2>3. Ahead(at) = Ahead(at + 1) + (IF Reserved(at) THEN 1 ELSE 0)
    BY <1>1, <2>2, AheadExact
  <2>4. Ahead(at + 1) \in Nat
    <3>1. at + 1 \in Nat \ {0}
      BY <1>3
    <3> QED
      BY <1>1, <3>1, AheadFacts
  <2>5. pending' = IF ~admitted /\ Reserved(at) THEN pending - 1 ELSE pending
    BY <1>7, <1>11 DEF PendingAfter
  <2> QED
    BY <2>1, <2>3, <2>4, <2>5
<1>12. ASSUME NoneEmpty, ~preempted
       PROVE  at - 1 + (tried + 1) <= (sends + 1) - before
  <2>1. at - 1 + tried <= sends - before
    BY <1>1, <1>2, <1>12 DEF PromisesExact, UnderWay
  <2> QED
    BY <1>3, <2>1
<1>13. PromisesExact'
  <2>1. Capped => Ahead(IF admitted /\ phase # "next" THEN at + 1 ELSE at)' = Ahead(at + 1)
    <3>1. /\ scheduled' = scheduled /\ reserved' = reserved
      BY <1>2 DEF still
    <3>2. Capped => (IF admitted' /\ phase' # "next" THEN at' + 1 ELSE at') = at + 1
      BY <1>2, <1>7
    <3> QED
      BY <3>1, <3>2 DEF Ahead, LocalAhead, RemoteAhead
  <2>2. UnderWay' = tried + 1
    BY <1>2 DEF UnderWay
  <2> QED
    BY <1>2, <1>4, <1>6, <1>10, <1>11, <1>12, <2>1, <2>2 DEF PromisesExact
<1>14. ReportTrue'
  <2>1. outcome' = "none"
    BY <1>2 DEF ReportInv, FairInv, ProbeSound
  <2> QED
    BY <2>1 DEF ReportTrue, BudgetSpent, CoverageTrue
<1> QED
  BY <1>5, <1>8, <1>9, <1>13, <1>14 DEF ReportInv
-----------------------------------------------------------------------------
(* An end reports what was sent.                                           *)
LEMMA EndReports ==
  ASSUME ReportInv, FairInv', NEW o, End(o),
         Reported(asked') = sends - before,
         o = "budget" /\ (\A i \in DOMAIN asked' : asked'[i] # 0) => sends = limit
  PROVE  ReportInv'
<1>1. CutByBudget /\ PromisesExact
  BY DEF ReportInv
<1>2. /\ UNCHANGED still /\ UNCHANGED <<sends, preempted, remaining, pending>>
      /\ phase' = "ended" /\ outcome' = o /\ coverage' = CoverageOf(asked')
  BY DEF End, input, schedule, fair, still
<1>3. sends' = sends /\ before' = before /\ limit' = limit
  BY <1>2 DEF still
<1>4. CutByBudget'
  BY <1>1, <1>2, ReportedNext
<1>5. AskedOnce' /\ SendsReported'
  BY <1>2 DEF AskedOnce, SendsReported
<1>6. PromisesExact'
  <2>1. Capped' = Capped
    BY <1>3, Zenon DEF Capped
  <2> QED
    BY <1>1, <1>2, <2>1 DEF PromisesExact
<1>7. coverage'["local"].requests + coverage'["remote"].requests = Reported(asked')
  <2>1. /\ coverage'["local"].requests
             = SumFunctionOnSet(asked', Attempted("local", asked'))
        /\ coverage'["remote"].requests
             = SumFunctionOnSet(asked', Attempted("remote", asked'))
    BY <1>2 DEF CoverageOf, Families
  <2> QED
    BY <2>1 DEF Reported
<1>8. CoverageTrue'
  BY <1>3, <1>7 DEF CoverageTrue
<1>9. BudgetSpent'
  BY <1>2, <1>3 DEF BudgetSpent
<1> QED
  BY <1>4, <1>5, <1>6, <1>8, <1>9 DEF ReportInv, ReportTrue

(* What is left of the budget when a probe is refused: nothing.            *)
LEMMA NeverOver == FairInv /\ Capped => sends <= limit
<1> SUFFICES ASSUME FairInv, Capped
             PROVE  sends <= limit
  OBVIOUS
<1>1. remaining = limit - sends /\ remaining \in Nat /\ sends \in Nat /\ limit \in Nat
  BY DEF FairInv, PromisesCovered, TypeOK, Capped
<1> QED
  BY <1>1

LEMMA RefusedReports == ReportInv /\ FairInv' /\ RefusedByBudget => ReportInv'
<1> SUFFICES ASSUME ReportInv, FairInv', RefusedByBudget
             PROVE  ReportInv'
  OBVIOUS
<1>1. FairInv /\ TypeOK /\ AskedOnce /\ SendsReported
  BY DEF ReportInv, FairInv
<1>2. /\ phase = "asking" /\ limit # Unlimited /\ sends >= limit /\ StoreIfSent
      /\ End("budget")
  BY DEF RefusedByBudget, Attempting, OverLimit
<1>3. Reported(asked') = sends - before
  <2>1. Reported(asked') = Reported(asked) + tried
    BY <1>1, <1>2, StoredOnce
  <2> QED
    BY <1>1, <1>2, <2>1 DEF SendsReported, UnderWay
<1>4. sends = limit
  <2>1. sends <= limit /\ sends \in Nat /\ limit \in Nat
    BY <1>1, <1>2, NeverOver DEF Capped, TypeOK
  <2> QED
    BY <1>2, <2>1
<1> QED
  BY <1>2, <1>3, <1>4, EndReports

(* The other ends: the probe's requests are stored with the others.        *)
LEMMA OtherEndsReport ==
  ReportInv /\ FairInv' /\ (RecoveryExhausted \/ Interrupted \/ NotEnabled) => ReportInv'
<1> SUFFICES ASSUME ReportInv, FairInv', RecoveryExhausted \/ Interrupted \/ NotEnabled
             PROVE  ReportInv'
  OBVIOUS
<1>1. FairInv /\ TypeOK /\ AskedOnce /\ SendsReported /\ CutByBudget /\ PromisesExact
  BY DEF ReportInv, FairInv
<1>2. ASSUME phase = "asking", StoreIfSent, NEW o \in {"recovery", "interrupted"}, End(o)
      PROVE  ReportInv'
  <2>1. Reported(asked') = Reported(asked) + tried
    BY <1>1, <1>2, StoredOnce
  <2>2. Reported(asked') = sends - before
    BY <1>1, <1>2, <2>1 DEF SendsReported, UnderWay
  <2> QED
    BY <1>2, <2>2, EndReports
<1>3. ASSUME phase = "next", UNCHANGED asked, End("interrupted")
      PROVE  ReportInv'
  <2>1. PICK r \in Nat : r = Reported(asked)
    BY <1>1, ReportedType
  <2>2. Reported(asked') = r
    BY <1>3, <2>1
  <2>3. sends - before = r + 0
    BY <1>1, <1>3, <2>1 DEF SendsReported, UnderWay
  <2> QED
    BY <1>3, <2>2, <2>3, EndReports
<1>4. CASE NotEnabled
  <2>1. /\ UNCHANGED still
        /\ UNCHANGED <<sends, at, tried, fair, preempted, asked>>
        /\ phase' = "ended" /\ outcome' = "not_enabled"
    BY <1>4 DEF NotEnabled, input, schedule, still
  <2>2. CutByBudget'
    BY <1>1, <2>1, ReportedNext
  <2>3. Capped' = Capped /\ remaining' = remaining /\ pending' = pending
        /\ preempted' = preempted
    BY <2>1, ScheduleStays DEF fair
  <2>4. AskedOnce' /\ SendsReported' /\ PromisesExact'
    BY <1>1, <2>1, <2>3 DEF AskedOnce, SendsReported, PromisesExact
  <2>5. ReportTrue'
    BY <2>1 DEF ReportTrue, BudgetSpent, CoverageTrue
  <2> QED
    BY <2>2, <2>4, <2>5 DEF ReportInv
<1>5. CASE RecoveryExhausted
  BY <1>2, <1>5 DEF RecoveryExhausted
<1>6. CASE Interrupted
  BY <1>2, <1>3, <1>6 DEF Interrupted
<1> QED
  BY <1>4, <1>5, <1>6

(* The schedule is done: it gives up for want of budget only if a request  *)
(* was taken from a candidate or the schedule was cut, and then nothing is *)
(* left.                                                                   *)
LEMMA FinishReports == ReportInv /\ FairInv' /\ Finish => ReportInv'
<1> SUFFICES ASSUME ReportInv, FairInv', Finish
             PROVE  ReportInv'
  OBVIOUS
<1> DEFINE o == IF preempted \/ Total(scheduled) < configured THEN "budget" ELSE "complete"
<1>1. /\ FairInv /\ TypeOK /\ ProbeSound /\ PromisesCovered
      /\ AskedOnce /\ SendsReported /\ CutByBudget /\ PromisesExact
  BY DEF ReportInv, FairInv
<1>2. phase = "next" /\ at > Total(scheduled) /\ UNCHANGED asked /\ End(o)
  BY DEF Finish
<1>3. Reported(asked') = sends - before
  <2>1. PICK r \in Nat : r = Reported(asked)
    BY <1>1, ReportedType
  <2>2. Reported(asked') = r
    BY <1>2, <2>1
  <2>3. sends - before = r + 0
    BY <1>1, <1>2, <2>1 DEF SendsReported, UnderWay
  <2> QED
    BY <2>2, <2>3
<1>4. /\ sends \in Nat /\ before \in Nat /\ Total(scheduled) \in Nat
      /\ remaining \in Nat /\ pending \in Nat /\ (Capped => limit \in Nat)
      /\ at = Total(scheduled) + 1
  <2>1. Total(scheduled) \in Nat
    BY <1>1, TotalFits, MaxEligibleType
  <2>2. at \in Nat /\ at <= Total(scheduled) + 1
    BY <1>1, <1>2 DEF TypeOK, AskedOnce
  <2> QED
    BY <1>1, <1>2, <2>1, <2>2 DEF TypeOK, Capped
<1>5. ASSUME NoneEmpty, preempted
      PROVE  sends = limit
  <2>1. Capped /\ remaining <= pending
    BY <1>1, <1>5 DEF PromisesExact
  <2>2. pending = Ahead(at)
    BY <1>1, <1>2, <1>5, <2>1 DEF PromisesExact
  <2>3. Ahead(at) = 0
    BY <1>1, <1>4, AheadExact
  <2>4. remaining = limit - sends
    BY <1>1, <2>1 DEF PromisesCovered
  <2> QED
    BY <1>4, <2>1, <2>2, <2>3, <2>4
<1>6. ASSUME NoneEmpty, ~preempted, Total(scheduled) < configured
      PROVE  sends = limit
  <2>1. Capped /\ Total(scheduled) = limit - before
    BY <1>1, <1>6 DEF CutByBudget
  <2>2. at - 1 + 0 <= sends - before
    BY <1>1, <1>2, <1>6 DEF PromisesExact, UnderWay
  <2>3. sends <= limit
    BY <1>1, <2>1, NeverOver
  <2>4. PICK n \in Nat : n = Total(scheduled)
    BY <1>4
  <2>5. at = n + 1 /\ n = limit - before /\ limit \in Nat
    BY <1>4, <2>1, <2>4
  <2> QED
    BY <1>4, <2>2, <2>3, <2>5
<1>7. o = "budget" /\ (\A i \in DOMAIN asked' : asked'[i] # 0) => sends = limit
  BY <1>2, <1>5, <1>6 DEF NoneEmpty
<1> HIDE DEF o
<1> QED
  BY <1>2, <1>3, <1>7, EndReports
-----------------------------------------------------------------------------
(* On to the next candidate, with the promises ahead of it.                *)
LEMMA ProceedReports ==
  ASSUME ReportInv, phase = "asking", Proceed, Store(tried) \/ StoreIfSent,
         preempted' => Capped /\ remaining <= pending,
         NoneEmpty' /\ Capped => pending = Ahead(at + 1),
         NoneEmpty' /\ ~preempted' => ~preempted /\ tried > 0
  PROVE  CutByBudget' /\ AskedOnce' /\ SendsReported' /\ PromisesExact' /\ ReportTrue'
<1>1. /\ FairInv /\ TypeOK /\ ProbeSound
      /\ AskedOnce /\ SendsReported /\ CutByBudget /\ PromisesExact
  BY DEF ReportInv, FairInv
<1>2. /\ UNCHANGED still
      /\ phase' = "next" /\ at' = at + 1
      /\ UNCHANGED <<sends, tried, remaining, pending, admitted, outcome>>
  BY DEF Proceed, input, schedule, fair, still
<1>3. /\ sends \in Nat /\ before \in Nat /\ at \in Nat \ {0} /\ tried \in Nat
      /\ Total(scheduled) \in Nat
  BY <1>1, TotalFits, MaxEligibleType, AcquisitionAssumption
     DEF TypeOK, AcquisitionAssumption
<1>4. /\ at \in 1..Total(scheduled) /\ at \in DOMAIN asked
      /\ Reported(asked') = Reported(asked) + tried
      /\ NoneEmpty' => NoneEmpty
      /\ DOMAIN asked' = DOMAIN asked
      /\ \A i \in DOMAIN asked : i > at => asked'[i] = Unasked
  BY <1>1, StoredOnce
<1>5. /\ before' = before /\ Total(scheduled)' = Total(scheduled) /\ Capped' = Capped
      /\ scheduled' = scheduled /\ reserved' = reserved
  BY <1>2, ScheduleStays DEF still
<1>6. CutByBudget' /\ Reported(asked)' = Reported(asked')
  BY <1>1, <1>2, ReportedNext
<1>7. AskedOnce'
  <2>1. \A i \in DOMAIN asked' : i >= at + 1 => asked'[i] = Unasked
    <3>1. DOMAIN asked = 1..(2 * MaxEligible)
      BY <1>1 DEF TypeOK
    <3>2. \A i \in 1..(2 * MaxEligible) : i \in Int
      BY MaxEligibleType
    <3>3. \A i \in DOMAIN asked : i >= at + 1 => i > at
      BY <1>3, <3>1, <3>2
    <3> QED
      BY <1>4, <3>3
  <2>2. at + 1 <= Total(scheduled) + 1
    BY <1>3, <1>4
  <2> QED
    BY <1>2, <1>5, <2>1, <2>2 DEF AskedOnce
<1>8. SendsReported'
  <2>1. PICK r \in Nat : r = Reported(asked)
    BY <1>1, ReportedType
  <2>2. sends - before = r + tried
    BY <1>1, <2>1 DEF SendsReported, UnderWay
  <2>3. Reported(asked)' = r + tried
    BY <1>4, <1>6, <2>1
  <2>4. UnderWay' = 0
    BY <1>2 DEF UnderWay
  <2>5. sends - before = (r + tried) + 0
    BY <1>3, <2>1, <2>2
  <2> QED
    BY <1>2, <1>5, <2>3, <2>4, <2>5 DEF SendsReported
<1>9. PromisesExact'
  <2>1. Ahead(IF admitted /\ phase # "next" THEN at + 1 ELSE at)' = Ahead(at + 1)
    BY <1>2, <1>5 DEF Ahead, LocalAhead, RemoteAhead
  <2>2. ASSUME NoneEmpty', ~preempted'
        PROVE  (at + 1) - 1 + 0 <= sends - before
    <3>1. at - 1 + tried <= sends - before /\ tried > 0
      BY <1>1, <1>4, <2>2 DEF PromisesExact, UnderWay
    <3> QED
      BY <1>3, <3>1
  <2>3. UnderWay' = 0
    BY <1>2 DEF UnderWay
  <2> QED
    BY <1>2, <1>5, <2>1, <2>2, <2>3 DEF PromisesExact
<1>10. ReportTrue'
  <2>1. outcome' = "none"
    BY <1>1, <1>2 DEF ProbeSound
  <2> QED
    BY <2>1 DEF ReportTrue, BudgetSpent, CoverageTrue
<1> QED
  BY <1>6, <1>7, <1>8, <1>9, <1>10

LEMMA DeferredReports == ReportInv /\ FairInv' /\ Deferred => ReportInv'
<1> SUFFICES ASSUME ReportInv, FairInv', Deferred
             PROVE  ReportInv'
  OBVIOUS
<1>1. FairInv /\ TypeOK /\ ProbeSound /\ PromisesCovered /\ AskedOnce /\ PromisesExact
  BY DEF ReportInv, FairInv
<1>2. /\ phase = "asking" /\ Capped /\ Withheld /\ StoreIfSent
      /\ preempted' = TRUE /\ Proceed
  BY DEF Deferred, Attempting, Withheld, Capped
<1>3. /\ remaining \in Nat /\ pending \in Nat /\ remaining <= pending
      /\ at \in 1..Total(scheduled) /\ at \in Nat \ {0}
  <2>1. remaining \in Nat /\ pending \in Nat /\ at \in Nat \ {0}
    BY <1>1 DEF TypeOK
  <2>2. at \in 1..Total(scheduled)
    BY <1>1, <1>2, StoredOnce
  <2> QED
    BY <1>2, <2>1, <2>2 DEF Withheld
<1>4. PICK a \in Nat, b \in Nat : /\ a = Ahead(at) /\ b = Ahead(at + 1)
                                 /\ a = b + (IF Reserved(at) THEN 1 ELSE 0)
  <2>1. at + 1 \in Nat \ {0}
    BY <1>3
  <2> QED
    BY <1>1, <1>3, <2>1, AheadExact, AheadFacts
<1>5. ASSUME NoneEmpty'
      PROVE  pending = Ahead(at + 1)
  <2>1. NoneEmpty
    BY <1>1, <1>2, <1>5, StoredOnce
  <2>2. pending = IF admitted THEN b ELSE a
    BY <1>1, <1>2, <1>4, <2>1 DEF PromisesExact
  <2>3. ASSUME ~admitted
        PROVE  ~Reserved(at)
    <3>1. a <= pending /\ pending <= remaining
      BY <1>1, <1>2, <1>4, <2>3 DEF PromisesCovered
    <3>2. ~Reserved(at) \/ remaining <= 0
      BY <1>2, <1>3, <2>3 DEF Withheld
    <3> QED
      BY <1>3, <1>4, <3>1, <3>2
  <2> QED
    BY <1>4, <2>2, <2>3
<1>6. CutByBudget' /\ AskedOnce' /\ SendsReported' /\ PromisesExact' /\ ReportTrue'
  BY <1>2, <1>3, <1>5, ProceedReports
<1> QED
  BY <1>6 DEF ReportInv

LEMMA ReturnedReports == ReportInv /\ FairInv' /\ Returned => ReportInv'
<1> SUFFICES ASSUME ReportInv, FairInv', Returned
             PROVE  ReportInv'
  OBVIOUS
<1>1. FairInv /\ TypeOK /\ ProbeSound /\ AskedOnce /\ PromisesExact
  BY DEF ReportInv, FairInv
<1>2. phase = "asking" /\ Store(tried) /\ preempted' = preempted /\ Proceed
  BY DEF Returned
<1>3. ASSUME NoneEmpty'
      PROVE  tried > 0
  <2>1. /\ asked \in [1..(2 * MaxEligible) -> Nat \cup {Unasked}] /\ tried \in Nat
    BY <1>1, AcquisitionAssumption DEF TypeOK, AcquisitionAssumption
  <2>2. at \in DOMAIN asked /\ DOMAIN asked' = DOMAIN asked
    BY <1>1, <1>2, StoredOnce
  <2>3. asked'[at] = tried
    BY <1>2, <2>1, <2>2 DEF Store
  <2>4. asked'[at] # 0
    BY <1>3, <2>2 DEF NoneEmpty
  <2> QED
    BY <2>1, <2>3, <2>4
<1>4. ASSUME NoneEmpty', Capped
      PROVE  pending = Ahead(at + 1)
  <2>1. NoneEmpty
    BY <1>1, <1>2, <1>4, StoredOnce
  <2>2. admitted
    BY <1>1, <1>2, <1>3, <1>4 DEF AskedOnce
  <2> QED
    BY <1>1, <1>2, <1>4, <2>1, <2>2 DEF PromisesExact
<1>5. preempted' => Capped /\ remaining <= pending
  BY <1>1, <1>2 DEF PromisesExact
<1>6. CutByBudget' /\ AskedOnce' /\ SendsReported' /\ PromisesExact' /\ ReportTrue'
  BY <1>2, <1>3, <1>4, <1>5, ProceedReports
<1> QED
  BY <1>6 DEF ReportInv
-----------------------------------------------------------------------------
LEMMA ReportStep == ReportInv /\ [Next]_vars => ReportInv'
<1> SUFFICES ASSUME ReportInv, [Next]_vars
             PROVE  ReportInv'
  OBVIOUS
<1>1. FairInv'
  BY FairStep DEF ReportInv
<1>2. CASE UNCHANGED vars
  <2>1. /\ UNCHANGED still /\ UNCHANGED asked
        /\ UNCHANGED <<sends, phase, at, tried, admitted, remaining, pending,
                       preempted, outcome, coverage>>
    BY <1>2 DEF vars, input, schedule, fair, still
  <2>2. Reported(asked)' = Reported(asked) /\ CutByBudget' = CutByBudget
    BY <2>1, ReportedStays, ReportedNext
  <2>3. /\ scheduled' = scheduled /\ reserved' = reserved /\ limit' = limit
        /\ before' = before
    BY <2>1 DEF still
  <2>4. AskedOnce' = AskedOnce /\ SendsReported' = SendsReported
    BY <2>1, <2>2, <2>3, Zenon DEF AskedOnce, SendsReported, UnderWay, Total, Capped
  <2>5. PromisesExact' = PromisesExact
    BY <2>1, <2>3, Zenon DEF PromisesExact, UnderWay, NoneEmpty, Capped, Ahead,
                             LocalAhead, RemoteAhead
  <2>6. ReportTrue' = ReportTrue
    BY <2>1, <2>3, Zenon DEF ReportTrue, BudgetSpent, CoverageTrue
  <2> QED
    BY <1>1, <2>2, <2>4, <2>5, <2>6 DEF ReportInv
<1>3. CASE Next
  BY <1>1, <1>3, ProbeReports, AttemptReports, RefusedReports, DeferredReports,
     ReturnedReports, OtherEndsReport, FinishReports DEF Next
<1> QED
  BY <1>2, <1>3

-----------------------------------------------------------------------------
(* The scan.  Early: nothing was said of an operation yet.  Going on: the  *)
(* try statement of run_b524_scan is not left yet.                         *)
Early == stage \in {"discovery", "planner", "reading", "describing"}
GoingOn == Early \/ stage = "operations"
ReadAll == stage \in {"describing", "operations"} \/ (~GoingOn /\ reason = "none")
Described == stage = "operations" \/ (~GoingOn /\ reason = "none")

RegTypes ==
  /\ Registers!TypeOK
  /\ GoingOn \/ stage \in {"final", "ended"}
  /\ budget \in Nat /\ task \in Nat /\ opAttempts \in [Registers!Operations -> Nat]
  /\ asking \in BOOLEAN /\ automatic \in BOOLEAN /\ offered \in BOOLEAN
  /\ probing \in BOOLEAN /\ probed \in BOOLEAN /\ recorded \in BOOLEAN

(* The registers of the plan are behind, under way or in the queue.        *)
QueueInv ==
  /\ stage = "discovery" => queue = {}
  /\ stage = "planner" => ~asking
  /\ stage = "reading" =>
       /\ plan \ done \subseteq queue \cup (IF asking THEN {task} ELSE {})
       /\ queue \cap done = {}
       /\ asking => task \in plan /\ task \notin done /\ task \notin queue
  /\ ReadAll => plan \subseteq done
  /\ Described => (probing => probed)
  /\ reason # "transport_recovery_exhausted" => entries = done
  /\ GoingOn => reason = "none"
  /\ stage = "final" => reason # "raised"

(* What is said of an operation is true.                                   *)
Told(i) ==
  /\ records[i] # "none" => i \in selected
  /\ records[i] = "unattempted" => opAttempts[i] = 0
  /\ automatic /\ ~Registers!IsEvent(i) /\ opAttempts[i] > 0 => records[i - 1] = "value"
Untouched(i) == records[i] = "none" /\ opAttempts[i] = 0
Covered(i) == i \in selected => records[i] # "none" \/ Registers!InterruptedBetween

RecordInv ==
  /\ ~offered => selected = {}
  /\ \A i \in Registers!Operations : Told(i)
  /\ Early => op = 1 /\ ~recorded
  /\ stage # "ended" /\ ~recorded => \A i \in Registers!Operations : Untouched(i)
  /\ stage = "operations" =>
       /\ recorded <=> selected # {}
       /\ asking => op \in selected /\ Registers!Usable(op)
       /\ \A i \in Registers!Operations :
            /\ i < op /\ i \in selected => records[i] # "none"
            /\ i >= op => Untouched(i)
  /\ stage = "final" /\ recorded => \A i \in Registers!Operations : Covered(i)
  /\ stage = "ended" /\ reason # "raised" => \A i \in Registers!Operations : Covered(i)

RegInv == RegTypes /\ QueueInv /\ RecordInv

LEMMA BudgetTypes == {TaskCount, ProgramCount, MaxAttempts} \subseteq Nat
BY ScanConstants DEF ScanConstants, Registers!BudgetConstants

LEMMA RegistersInit == Registers!Init => RegInv
<1> SUFFICES ASSUME Registers!Init PROVE RegInv OBVIOUS
<1>1. RegTypes
  <2>1. budget \in Nat BY DEF Registers!Init
  <2>2. op \in 1..(2 * ProgramCount + 1) BY BudgetTypes DEF Registers!Init
  <2>3. selected \subseteq Registers!Operations BY DEF Registers!Init
  <2>4. stage = "discovery" /\ GoingOn BY DEF Registers!Init, GoingOn, Early
  <2>5. offered \in BOOLEAN BY DEF Registers!Init
  <2>6. sent \in 0..budget /\ tries \in 0..MaxAttempts BY <2>1, BudgetTypes DEF Registers!Init
  <2>7. Registers!TypeOK BY <2>2, <2>3, <2>6 DEF Registers!TypeOK, Registers!Init
  <2>8. /\ asking \in BOOLEAN /\ automatic \in BOOLEAN /\ probing \in BOOLEAN
        /\ probed \in BOOLEAN /\ recorded \in BOOLEAN
    BY DEF Registers!Init
  <2>9. task \in Nat /\ opAttempts \in [Registers!Operations -> Nat] BY DEF Registers!Init
  <2> QED BY <2>1, <2>4, <2>5, <2>7, <2>8, <2>9 DEF RegTypes
<1>2. QueueInv
  BY DEF QueueInv, Registers!Init, ReadAll, Described, GoingOn, Early
<1>3. RecordInv
  <2>1. ~offered => selected = {} BY DEF Registers!Init
  <2>2. stage = "discovery" /\ op = 1 /\ ~recorded BY DEF Registers!Init
  <2>3. \A i \in Registers!Operations : Told(i) /\ Untouched(i)
    BY DEF Registers!Init, Told, Untouched
  <2> QED BY <2>1, <2>2, <2>3 DEF RecordInv, Early
<1> QED BY <1>1, <1>2, <1>3 DEF RegInv

LEMMA RegTypesStep == RegInv /\ Registers!Next => RegTypes'
<1> SUFFICES ASSUME RegInv, Registers!Next PROVE RegTypes' OBVIOUS
<1> USE BudgetTypes
    DEF Registers!planning, Registers!reading, Registers!operating, Registers!offering,
        Registers!describing, Registers!counting, Registers!Ask, Registers!Answered
<1>1. RegTypes /\ QueueInv BY DEF RegInv
<1> USE <1>1 DEF RegTypes, Registers!TypeOK, GoingOn, Early
<1>2. CASE Registers!Attempt BY <1>2 DEF Registers!Attempt
<1>3. ASSUME NEW why \in {"user_interrupt", "request_budget_exhausted",
                          "transport_recovery_exhausted"},
             Registers!Spoil(why), Registers!Running,
             why = "transport_recovery_exhausted" => asking
      PROVE  RegTypes'
  <2>1. stage' = "final" /\ reason' = why BY <1>3 DEF Registers!Spoil, Registers!Stop
  <2>2. entries' \subseteq Registers!Tasks /\ done \subseteq entries'
    BY <1>3 DEF Registers!Spoil, QueueInv
  <2>3. /\ records' \in [Registers!Operations -> {"none", "value", "failed", "transport_error",
                                                  "unattempted"}]
        /\ opAttempts' \in [Registers!Operations -> Nat]
    <3>1. CASE UNCHANGED <<records, opAttempts>> BY <3>1
    <3>2. CASE Registers!StopOperations(why)
      <4>1. tries \in Nat OBVIOUS
      <4>2. opAttempts' \in [Registers!Operations -> Nat]
        BY <3>2, <4>1 DEF Registers!StopOperations
      <4>3. \A i \in Registers!Operations :
              records[i] \in {"none", "value", "failed", "transport_error", "unattempted"}
        OBVIOUS
      <4> QED BY <3>2, <4>2, <4>3 DEF Registers!StopOperations
    <3> QED BY <1>3, <3>1, <3>2 DEF Registers!Spoil
  <2> QED BY <1>3, <2>1, <2>2, <2>3 DEF Registers!Spoil, Registers!Stop
<1>4. CASE Registers!BudgetExhausted BY <1>3, <1>4 DEF Registers!BudgetExhausted
<1>5. CASE Registers!RecoveryExhausted BY <1>3, <1>5 DEF Registers!RecoveryExhausted
<1>6. CASE Registers!Interrupt BY <1>3, <1>6 DEF Registers!Interrupt
<1>7. CASE Registers!DescriptionsPreempted
  <2>1. Registers!Running BY <1>7 DEF Registers!DescriptionsPreempted, Registers!Running
  <2> QED BY <1>3, <1>7, <2>1 DEF Registers!DescriptionsPreempted
<1>8. CASE Registers!NotEnabled \/ Registers!PlannerUnavailable
  BY <1>8 DEF Registers!NotEnabled, Registers!PlannerUnavailable, Registers!Escape
<1>9. CASE Registers!ProbeStarts BY <1>9 DEF Registers!ProbeStarts
<1>10. CASE Registers!ProbeEnds BY <1>10 DEF Registers!ProbeEnds
<1>11. CASE Registers!DiscoveryEnds
  <2>1. queue' \subseteq plan'
    BY <1>11 DEF Registers!DiscoveryEnds, QueueInv, Registers!Remaining
  <2>2. offered' \in BOOLEAN /\ selected' \subseteq Registers!Operations
    BY <1>11 DEF Registers!DiscoveryEnds
  <2> QED BY <1>11, <2>1, <2>2 DEF Registers!DiscoveryEnds
<1>12. CASE Registers!PlannerReturns
  <2>1. selected' \subseteq Registers!Operations
    BY <1>12 DEF Registers!PlannerReturns, Registers!Selections
  <2> QED BY <1>12, <2>1 DEF Registers!PlannerReturns, Registers!Remaining
<1>13. CASE Registers!Hotkey BY <1>13 DEF Registers!Hotkey
<1>14. CASE Registers!ReadStarts
  <2>1. task' \in Nat BY <1>14 DEF Registers!ReadStarts, Registers!Tasks
  <2> QED BY <1>14, <2>1 DEF Registers!ReadStarts
<1>15. CASE Registers!ReadEnds BY <1>15 DEF Registers!ReadEnds, QueueInv
<1>16. CASE Registers!ReadingEnds \/ Registers!DescriptionsEnd
  <2>1. recorded' \in BOOLEAN
    BY <1>16 DEF Registers!ReadingEnds, Registers!DescriptionsEnd, Registers!StartOperations
  <2> QED BY <1>16, <2>1
          DEF Registers!ReadingEnds, Registers!DescriptionsEnd, Registers!StartOperations
<1>17. CASE Registers!OperationPassed \/ Registers!OperationEnds
  <2>1. op \in Registers!Operations
    BY <1>17, <1>1 DEF Registers!OperationPassed, Registers!OperationEnds, Registers!InOperations,
       RegInv, RecordInv
  <2>2. op' \in 1..(2 * ProgramCount + 1)
    BY <1>17, <2>1 DEF Registers!OperationPassed, Registers!OperationEnds, Registers!Record,
       Registers!Operations
  <2>3. /\ records' \in [Registers!Operations -> {"none", "value", "failed", "transport_error",
                                                  "unattempted"}]
        /\ opAttempts' \in [Registers!Operations -> Nat]
    BY <1>17 DEF Registers!OperationPassed, Registers!OperationEnds, Registers!Record
  <2>4. /\ UNCHANGED <<stage, plan, queue, done, entries, task, selected, sent, tries, budget>>
        /\ UNCHANGED <<reason, automatic, offered, probing, probed, recorded>>
        /\ asking' \in BOOLEAN
    BY <1>17 DEF Registers!OperationPassed, Registers!OperationEnds, Registers!Record,
                 Registers!InOperations
  <2> QED BY <2>2, <2>3, <2>4
<1>18. CASE Registers!OperationStarts BY <1>18 DEF Registers!OperationStarts
<1>19. CASE Registers!OperationsEnd BY <1>19 DEF Registers!OperationsEnd
<1>20. CASE Registers!Finalize BY <1>20 DEF Registers!Finalize
<1> QED BY Zenon, <1>2, <1>4, <1>5, <1>6, <1>7, <1>8, <1>9, <1>10, <1>11, <1>12, <1>13, <1>14,
           <1>15, <1>16, <1>17, <1>18, <1>19, <1>20 DEF Registers!Next

LEMMA QueueStep == RegInv /\ Registers!Next => QueueInv'
<1> SUFFICES ASSUME RegInv, Registers!Next PROVE QueueInv' OBVIOUS
<1> USE DEF Registers!planning, Registers!reading, Registers!operating, Registers!offering,
            Registers!describing, Registers!counting, Registers!Ask, Registers!Answered
<1>1. QueueInv /\ RecordInv /\ RegTypes BY DEF RegInv
<1> USE <1>1 DEF QueueInv, ReadAll, Described, GoingOn, Early
<1>2. CASE Registers!Attempt BY <1>2 DEF Registers!Attempt
<1>3. ASSUME NEW why \in {"user_interrupt", "request_budget_exhausted",
                          "transport_recovery_exhausted"},
             Registers!Spoil(why), Registers!Running
      PROVE  QueueInv'
  <2>1. stage' = "final" /\ reason' = why BY <1>3 DEF Registers!Spoil, Registers!Stop
  <2>2. why # "transport_recovery_exhausted" => entries' = done'
    BY <1>3 DEF Registers!Spoil, Registers!Stop, Registers!Running, RegTypes
  <2> QED BY <2>1, <2>2
<1>4. CASE Registers!BudgetExhausted BY <1>3, <1>4 DEF Registers!BudgetExhausted
<1>5. CASE Registers!RecoveryExhausted BY <1>3, <1>5 DEF Registers!RecoveryExhausted
<1>6. CASE Registers!Interrupt BY <1>3, <1>6 DEF Registers!Interrupt
<1>7. CASE Registers!DescriptionsPreempted
  <2>1. Registers!Running BY <1>7 DEF Registers!DescriptionsPreempted, Registers!Running
  <2> QED BY <1>3, <1>7, <2>1 DEF Registers!DescriptionsPreempted
<1>8. CASE Registers!NotEnabled \/ Registers!PlannerUnavailable
  BY <1>8 DEF Registers!NotEnabled, Registers!PlannerUnavailable, Registers!Escape
<1>9. CASE Registers!ProbeStarts BY <1>9 DEF Registers!ProbeStarts
<1>10. CASE Registers!ProbeEnds BY <1>10 DEF Registers!ProbeEnds
<1>11. CASE Registers!DiscoveryEnds
  BY <1>11 DEF Registers!DiscoveryEnds, Registers!Remaining
<1>12. CASE Registers!PlannerReturns
  BY <1>12 DEF Registers!PlannerReturns, Registers!Remaining
<1>13. CASE Registers!Hotkey BY <1>13 DEF Registers!Hotkey
<1>14. CASE Registers!ReadStarts
  BY <1>14 DEF Registers!ReadStarts, RegTypes, Registers!TypeOK
<1>15. CASE Registers!ReadEnds BY <1>15 DEF Registers!ReadEnds
<1>16. CASE Registers!ReadingEnds
  BY <1>16 DEF Registers!ReadingEnds, Registers!StartOperations
<1>17. CASE Registers!DescriptionsEnd
  BY <1>17 DEF Registers!DescriptionsEnd, Registers!StartOperations
<1>18. CASE Registers!OperationPassed
  BY <1>18 DEF Registers!OperationPassed, Registers!InOperations
<1>19. CASE Registers!OperationStarts
  BY <1>19 DEF Registers!OperationStarts, Registers!InOperations
<1>20. CASE Registers!OperationEnds BY <1>20 DEF Registers!OperationEnds, Registers!Record
<1>21. CASE Registers!OperationsEnd BY <1>21 DEF Registers!OperationsEnd
<1>22. CASE Registers!Finalize BY <1>22 DEF Registers!Finalize
<1> QED BY Zenon, <1>2, <1>4, <1>5, <1>6, <1>7, <1>8, <1>9, <1>10, <1>11, <1>12, <1>13, <1>14,
           <1>15, <1>16, <1>17, <1>18, <1>19, <1>20, <1>21, <1>22 DEF Registers!Next

(* A replanned register is neither lost nor read again.                    *)
LEMMA RegistersKept == RegInv /\ Registers!Next => Registers!KeepsRegisters
<1> SUFFICES ASSUME RegInv, Registers!Next PROVE Registers!KeepsRegisters OBVIOUS
<1> USE DEF Registers!planning, Registers!reading, Registers!counting, Registers!Ask,
            Registers!Answered
<1>1. QueueInv /\ RegTypes BY DEF RegInv
<1>2. entries \subseteq entries'
  BY DEF Registers!Next, Registers!Attempt, Registers!BudgetExhausted,
     Registers!RecoveryExhausted, Registers!Interrupt, Registers!Spoil, Registers!NotEnabled,
     Registers!Escape, Registers!ProbeStarts, Registers!ProbeEnds, Registers!DiscoveryEnds,
     Registers!PlannerReturns, Registers!PlannerUnavailable, Registers!Hotkey,
     Registers!ReadStarts, Registers!ReadEnds, Registers!ReadingEnds, Registers!DescriptionsEnd,
     Registers!DescriptionsPreempted, Registers!StartOperations, Registers!OperationPassed,
     Registers!OperationStarts, Registers!OperationEnds, Registers!OperationsEnd,
     Registers!Finalize
<1>3. stage = "reading" /\ ~asking /\ asking' => task' \notin entries /\ task' \in plan
  <2> SUFFICES ASSUME stage = "reading", ~asking, asking'
               PROVE  task' \notin entries /\ task' \in plan
    OBVIOUS
  <2>1. Registers!ReadStarts
    BY DEF Registers!Next, Registers!Attempt, Registers!BudgetExhausted,
       Registers!RecoveryExhausted, Registers!Interrupt, Registers!Spoil, Registers!Stop,
       Registers!NotEnabled, Registers!ProbeStarts, Registers!ProbeEnds,
       Registers!DiscoveryEnds, Registers!PlannerReturns, Registers!PlannerUnavailable,
       Registers!Hotkey, Registers!ReadEnds, Registers!ReadingEnds, Registers!DescriptionsEnd,
       Registers!DescriptionsPreempted, Registers!StartOperations, Registers!OperationPassed,
       Registers!InOperations, Registers!OperationStarts, Registers!OperationEnds,
       Registers!OperationsEnd, Registers!Finalize
  <2>2. entries = done BY <1>1 DEF QueueInv, GoingOn, Early
  <2> QED BY <1>1, <2>1, <2>2
          DEF Registers!ReadStarts, QueueInv, RegTypes, Registers!TypeOK
<1> QED BY <1>2, <1>3 DEF Registers!KeepsRegisters

(* A step that touches no record, in a phase before the operations.        *)
LEMMA EarlyStep ==
  ASSUME RegInv, Early, ~offered' => selected' = {}, Early', op' = op, recorded' = recorded,
         UNCHANGED <<records, opAttempts, automatic>>
  PROVE  RecordInv'
<1>1. RecordInv /\ stage # "ended" /\ stage' \notin {"operations", "final", "ended"}
  BY DEF RegInv, Early
<1>2. op = 1 /\ ~recorded /\ \A i \in Registers!Operations : Untouched(i)
  BY <1>1 DEF RecordInv
<1>3. \A i \in Registers!Operations : Untouched(i)' /\ Told(i)'
  BY <1>2 DEF Untouched, Told
<1> QED BY <1>1, <1>2, <1>3 DEF RecordInv

(* Every way out of the try statement leaves a record of each operation    *)
(* that was begun, and of none that was not.                               *)
LEMMA SpoiledRecords ==
  ASSUME RegInv, Registers!Running,
         NEW why \in {"user_interrupt", "request_budget_exhausted",
                      "transport_recovery_exhausted"},
         Registers!Spoil(why), why # "user_interrupt" => asking \/ Early
  PROVE  RecordInv'
<1> USE DEF Registers!offering, Registers!counting
<1>1. RecordInv /\ RegTypes /\ (Early \/ stage = "operations") /\ stage # "ended"
  BY DEF RegInv, RegTypes, GoingOn, Registers!Running, Early
<1>2. /\ stage' = "final" /\ reason' = why
      /\ UNCHANGED <<offered, selected, automatic, op, recorded, asking, tries>>
  BY DEF Registers!Spoil, Registers!Stop
<1>3. CASE stage = "operations" /\ asking
  <2>1. Registers!StopOperations(why) BY <1>3 DEF Registers!Spoil
  <2>2. recorded /\ op \in selected /\ Registers!Usable(op) /\ op \in Registers!Operations
    BY <1>1, <1>3 DEF RecordInv, RegTypes, Registers!TypeOK
  <2>3. \A i \in Registers!Operations :
          /\ Told(i) /\ i \in Nat /\ op \in Nat
          /\ i < op /\ i \in selected => records[i] # "none"
          /\ i >= op => Untouched(i)
    BY <1>1, <1>3, <2>2 DEF RecordInv, Registers!Operations
  <2>4. tries \in Nat BY <1>1 DEF RegTypes, Registers!TypeOK
  <2>5. ASSUME NEW i \in Registers!Operations
        PROVE  /\ records'[i] = IF i \in selected /\ i > op THEN "unattempted"
                                ELSE IF i # op THEN records[i]
                                ELSE IF tries > 0 \/ why = "transport_recovery_exhausted"
                                THEN "transport_error" ELSE "unattempted"
               /\ opAttempts'[i] = IF i = op THEN tries ELSE opAttempts[i]
    BY <1>1, <2>1, <2>2 DEF Registers!StopOperations, Registers!Later, RegTypes
  <2>6. ASSUME NEW i \in Registers!Operations PROVE Told(i)' /\ Covered(i)'
    <3>1. records'[i] # "none" => i \in selected BY <2>2, <2>3, <2>5 DEF Told
    <3>2. records'[i] = "unattempted" => opAttempts'[i] = 0
      <4>1. CASE i = op BY <2>3, <2>4, <2>5, <4>1
      <4>2. CASE i > op BY <2>3, <2>5, <4>2 DEF Untouched
      <4>3. CASE i < op BY <2>3, <2>5, <4>3 DEF Told
      <4> QED BY <2>3, <4>1, <4>2, <4>3
    <3>3. ASSUME automatic, ~Registers!IsEvent(i), opAttempts'[i] > 0
          PROVE  records'[i - 1] = "value"
      <4>1. i - 1 \in Registers!Operations /\ i - 1 < i
        BY BudgetTypes, <3>3 DEF Registers!Operations, Registers!IsEvent
      <4>2. i <= op BY <2>3, <2>5, <3>3 DEF Untouched
      <4>3. records[i - 1] = "value"
        BY <2>2, <2>3, <2>5, <3>3, <4>2 DEF Told, Registers!Usable
      <4> QED BY <2>3, <2>5, <4>1, <4>2, <4>3
    <3>4. Told(i)' BY <1>2, <3>1, <3>2, <3>3 DEF Told, Registers!IsEvent
    <3>5. Covered(i)' BY <1>2, <2>3, <2>5 DEF Covered
    <3> QED BY <3>4, <3>5
  <2> QED BY <1>1, <1>2, <2>2, <2>6 DEF RecordInv, Early
<1>4. CASE ~(stage = "operations" /\ asking)
  <2>1. UNCHANGED <<records, opAttempts>> BY <1>4 DEF Registers!Spoil
  <2>2. \A i \in Registers!Operations : Told(i)' /\ (~recorded => Untouched(i)')
    BY <1>1, <1>2, <2>1 DEF RecordInv, Told, Untouched, Registers!IsEvent
  <2>3. recorded => stage = "operations" /\ ~asking /\ why = "user_interrupt"
    BY <1>1, <1>4 DEF RecordInv, Early
  <2>4. recorded' => \A i \in Registers!Operations : Covered(i)'
    BY <1>2, <2>3 DEF Covered, Registers!InterruptedBetween
  <2> QED BY <1>1, <1>2, <2>2, <2>4 DEF RecordInv, Early
<1> QED BY <1>3, <1>4

LEMMA OperationRecords ==
  ASSUME RegInv, Registers!OperationPassed \/ Registers!OperationEnds
  PROVE  RecordInv'
<1> USE DEF Registers!offering, Registers!counting, Registers!describing, Registers!operating
<1>1. RecordInv /\ RegTypes BY DEF RegInv
<1>2. /\ stage = "operations" /\ op' = op + 1 /\ asking' = FALSE
      /\ UNCHANGED <<stage, offered, selected, automatic, recorded, reason>>
      /\ op \in Registers!Operations /\ op \in 1..(2 * ProgramCount)
  <2>1. /\ stage = "operations" /\ op' = op + 1 /\ asking' = FALSE
        /\ UNCHANGED <<stage, offered, selected, automatic, recorded, reason>>
        /\ op \in Registers!Operations \/ asking
    BY <1>1 DEF Registers!OperationPassed, Registers!InOperations, Registers!OperationEnds,
                Registers!Answered, Registers!Record, RegTypes
  <2>2. asking => op \in Registers!Operations
    BY <1>1, <2>1 DEF RecordInv, RegTypes, Registers!TypeOK
  <2> QED BY <2>1, <2>2 DEF Registers!Operations
<1>3. /\ op \in selected => recorded
      /\ \A i \in Registers!Operations :
           /\ Told(i) /\ i \in Nat
           /\ i < op /\ i \in selected => records[i] # "none"
           /\ i >= op => Untouched(i)
  BY <1>1, <1>2 DEF RecordInv, Registers!Operations
<1>4. \E s \in {"none", "value", "failed", "unattempted"}, n \in Nat :
        /\ \A i \in Registers!Operations :
             /\ records'[i] = IF i = op THEN s ELSE records[i]
             /\ opAttempts'[i] = IF i = op THEN n ELSE opAttempts[i]
        /\ s = "none" <=> op \notin selected
        /\ s \in {"none", "unattempted"} => n = 0
        /\ n > 0 => Registers!Usable(op)
  <2>1. /\ records[op] = "none" /\ opAttempts[op] = 0 BY <1>2, <1>3 DEF Untouched
  <2>2. CASE Registers!OperationPassed
    <3>1. CASE op \notin selected /\ UNCHANGED <<records, opAttempts>> BY <2>1, <3>1
    <3>2. CASE /\ op \in selected /\ UNCHANGED opAttempts
               /\ records' = [records EXCEPT ![op] = "unattempted"]
      BY <1>1, <1>2, <2>1, <3>2 DEF RegTypes, Registers!TypeOK
    <3> QED BY <2>2, <3>1, <3>2 DEF Registers!OperationPassed
  <2>3. CASE Registers!OperationEnds
    <3>1. asking BY <2>3 DEF Registers!OperationEnds, Registers!Answered
    <3>2. op \in selected /\ Registers!Usable(op) BY <1>1, <1>2, <3>1 DEF RecordInv
    <3>3. tries \in Nat BY <1>1 DEF RegTypes, Registers!TypeOK
    <3>4. \E s \in {"value", "failed"} : Registers!Record(s)
      BY <2>3 DEF Registers!OperationEnds
    <3> QED BY <1>1, <1>2, <3>2, <3>3, <3>4 DEF Registers!Record, RegTypes, Registers!TypeOK
  <2> QED BY <2>2, <2>3
<1>5. PICK s \in {"none", "value", "failed", "unattempted"}, n \in Nat :
        /\ \A i \in Registers!Operations :
             /\ records'[i] = IF i = op THEN s ELSE records[i]
             /\ opAttempts'[i] = IF i = op THEN n ELSE opAttempts[i]
        /\ s = "none" <=> op \notin selected
        /\ s \in {"none", "unattempted"} => n = 0
        /\ n > 0 => Registers!Usable(op)
  BY <1>4
<1>6. ASSUME NEW i \in Registers!Operations PROVE Told(i)'
  <2>1. records'[i] # "none" => i \in selected BY <1>3, <1>5 DEF Told
  <2>2. records'[i] = "unattempted" => opAttempts'[i] = 0 BY <1>3, <1>5 DEF Told
  <2>3. ASSUME automatic, ~Registers!IsEvent(i), opAttempts'[i] > 0
        PROVE  records'[i - 1] = "value"
    <3>1. i - 1 \in Registers!Operations /\ i - 1 < i
      BY BudgetTypes, <2>3 DEF Registers!Operations, Registers!IsEvent
    <3>2. i <= op BY <1>2, <1>3, <1>5, <2>3 DEF Untouched
    <3>3. records[i - 1] = "value" BY <1>3, <1>5, <2>3 DEF Told, Registers!Usable
    <3> QED BY <1>2, <1>3, <1>5, <3>1, <3>2, <3>3
  <2> QED BY <1>2, <2>1, <2>2, <2>3 DEF Told, Registers!IsEvent
<1>7. \A i \in Registers!Operations :
        /\ i < op' /\ i \in selected => records'[i] # "none"
        /\ i >= op' => Untouched(i)'
  BY <1>2, <1>3, <1>5 DEF Untouched
<1>8. recorded <=> selected # {} BY <1>1, <1>2 DEF RecordInv
<1>9. ~recorded => \A i \in Registers!Operations : Untouched(i)'
  <2>1. ASSUME ~recorded, NEW i \in Registers!Operations PROVE Untouched(i)'
    <3>1. op \notin selected /\ Untouched(i) BY <1>1, <1>2, <1>8, <2>1 DEF RecordInv
    <3> QED BY <1>2, <1>5, <3>1 DEF Untouched
  <2> QED BY <2>1
<1>10. ~offered => selected = {} BY <1>1 DEF RecordInv
<1> QED BY <1>2, <1>6, <1>7, <1>8, <1>9, <1>10 DEF RecordInv, Early

LEMMA RecordStep == RegInv /\ Registers!Next => RecordInv'
<1> SUFFICES ASSUME RegInv, Registers!Next PROVE RecordInv' OBVIOUS
<1> USE DEF Registers!planning, Registers!reading, Registers!operating, Registers!offering,
            Registers!describing, Registers!counting, Registers!Ask, Registers!Answered
<1>1. RecordInv /\ RegTypes BY DEF RegInv
<1>2. CASE Registers!Attempt \/ Registers!OperationStarts
  <2>1. UNCHANGED <<stage, offered, selected, automatic, op, recorded, records, opAttempts,
                    reason>>
    BY <1>2 DEF Registers!Attempt, Registers!OperationStarts
  <2>2. stage = "operations" /\ asking' => op \in selected /\ Registers!Usable(op)
    BY <1>1, <1>2
       DEF RecordInv, Registers!Attempt, Registers!OperationStarts, Registers!InOperations
  <2>3. stage # "ended" /\ stage # "final"
    BY <1>2 DEF Registers!Attempt, Registers!Running, Registers!OperationStarts,
                Registers!InOperations
  <2> QED BY <1>1, <2>1, <2>2, <2>3
          DEF RecordInv, Early, Told, Untouched, Registers!IsEvent, Registers!Usable
<1>3. CASE Registers!BudgetExhausted \/ Registers!RecoveryExhausted \/ Registers!Interrupt
  BY <1>3, SpoiledRecords
     DEF Registers!BudgetExhausted, Registers!RecoveryExhausted, Registers!Interrupt
<1>4. CASE Registers!DescriptionsPreempted
  <2>1. Registers!Running /\ Early
    BY <1>4 DEF Registers!DescriptionsPreempted, Registers!Running, Early
  <2> QED BY <1>4, <2>1, SpoiledRecords DEF Registers!DescriptionsPreempted
<1>5. CASE Registers!NotEnabled \/ Registers!PlannerUnavailable
  <2>1. /\ stage' = "ended" /\ reason' = "raised"
        /\ UNCHANGED <<offered, selected, automatic, op, recorded, records, opAttempts>>
    BY <1>5 DEF Registers!NotEnabled, Registers!PlannerUnavailable, Registers!Escape
  <2> QED BY <1>1, <2>1 DEF RecordInv, Early, Told, Registers!IsEvent
<1>6. CASE Registers!ProbeStarts \/ Registers!ProbeEnds \/ Registers!Hotkey
           \/ Registers!ReadStarts \/ Registers!ReadEnds
           \/ (Registers!ReadingEnds /\ probing)
  <2>1. /\ Early /\ Early' /\ UNCHANGED <<selected, offered, op, recorded>>
        /\ UNCHANGED <<records, opAttempts, automatic>>
    BY <1>6 DEF Registers!ProbeStarts, Registers!ProbeEnds, Registers!Hotkey,
                Registers!ReadStarts, Registers!ReadEnds, Registers!ReadingEnds, Early
  <2>2. ~offered' => selected' = {} BY <1>1, <2>1 DEF RecordInv
  <2> QED BY <2>1, <2>2, EarlyStep
<1>7. CASE Registers!DiscoveryEnds \/ Registers!PlannerReturns
  <2>1. /\ Early /\ Early' /\ op' = op /\ recorded' = recorded
        /\ UNCHANGED <<records, opAttempts, automatic>>
    BY <1>7 DEF Registers!DiscoveryEnds, Registers!PlannerReturns, Early
  <2>2. ~offered' => selected' = {}
    BY <1>1, <1>7
       DEF RecordInv, Registers!DiscoveryEnds, Registers!PlannerReturns, Registers!Selections
  <2> QED BY <2>1, <2>2, EarlyStep
<1>8. CASE Registers!DescriptionsEnd \/ (Registers!ReadingEnds /\ ~probing)
  <2>1. /\ stage' = "operations" /\ recorded' = (selected # {}) /\ ~asking /\ asking' = asking
        /\ UNCHANGED <<selected, offered, automatic, op, records, opAttempts, reason>>
        /\ Early /\ stage # "ended"
    BY <1>8 DEF Registers!DescriptionsEnd, Registers!ReadingEnds, Registers!StartOperations, Early
  <2>2. op = 1 /\ \A i \in Registers!Operations : Untouched(i) /\ i \in Nat /\ i >= 1
    BY <1>1, <2>1 DEF RecordInv, Registers!Operations
  <2>3. \A i \in Registers!Operations : Untouched(i)' /\ Told(i)' /\ ~(i < op)
    BY <2>1, <2>2 DEF Untouched, Told
  <2> QED BY <1>1, <2>1, <2>3 DEF RecordInv, Early
<1>9. CASE Registers!OperationPassed \/ Registers!OperationEnds BY <1>9, OperationRecords
<1>10. CASE Registers!OperationsEnd
  <2>1. /\ stage = "operations" /\ stage' = "final" /\ op \notin Registers!Operations
        /\ UNCHANGED <<selected, offered, automatic, op, recorded, records, opAttempts, reason,
                       asking>>
    BY <1>10 DEF Registers!OperationsEnd
  <2>2. \A i \in Registers!Operations : i < op
    BY <1>1, <2>1, BudgetTypes DEF RegTypes, Registers!TypeOK, Registers!Operations
  <2>3. \A i \in Registers!Operations : Covered(i)'
    BY <1>1, <2>1, <2>2 DEF RecordInv, Covered
  <2>4. \A i \in Registers!Operations : Told(i)' /\ (~recorded => Untouched(i)')
    BY <1>1, <2>1 DEF RecordInv, Told, Untouched, Registers!IsEvent
  <2> QED BY <1>1, <2>1, <2>3, <2>4 DEF RecordInv, Early
<1>11. CASE Registers!Finalize
  <2>1. /\ stage = "final" /\ stage' = "ended"
        /\ UNCHANGED <<selected, offered, automatic, op, opAttempts, reason, asking>>
    BY <1>11 DEF Registers!Finalize
  <2>2. CASE offered /\ ~recorded
    <3>1. records' = [i \in Registers!Operations |->
                        IF i \in selected THEN "unattempted" ELSE "none"]
      BY <1>11, <2>2 DEF Registers!Finalize
    <3>2. \A i \in Registers!Operations : opAttempts'[i] = 0 /\ opAttempts[i] = 0
      BY <1>1, <2>1, <2>2 DEF RecordInv, Untouched
    <3>3. \A i \in Registers!Operations : Told(i)' /\ Covered(i)'
      BY <2>1, <3>1, <3>2 DEF Told, Covered
    <3> QED BY <1>1, <2>1, <3>3 DEF RecordInv, Early
  <2>3. CASE ~(offered /\ ~recorded)
    <3>1. UNCHANGED <<records, recorded>> BY <1>11, <2>3 DEF Registers!Finalize
    <3>2. \A i \in Registers!Operations : Covered(i)'
      BY <1>1, <2>1, <2>3, <3>1 DEF RecordInv, Covered, Registers!InterruptedBetween
    <3>3. \A i \in Registers!Operations : Told(i)'
      BY <1>1, <2>1, <3>1 DEF RecordInv, Told, Registers!IsEvent
    <3> QED BY <1>1, <2>1, <3>2, <3>3 DEF RecordInv, Early
  <2> QED BY <2>2, <2>3
<1> QED BY Zenon, <1>2, <1>3, <1>4, <1>5, <1>6, <1>7, <1>8, <1>9, <1>10, <1>11
        DEF Registers!Next

LEMMA RegistersRest == RegInv /\ UNCHANGED onlyRegisters => RegInv'
<1> SUFFICES ASSUME RegInv, UNCHANGED onlyRegisters PROVE RegInv' OBVIOUS
<1> USE DEF onlyRegisters
<1>1. RegTypes' BY DEF RegInv, RegTypes, Registers!TypeOK, GoingOn, Early
<1>2. QueueInv' BY DEF RegInv, QueueInv, ReadAll, Described, GoingOn, Early
<1>3. RecordInv'
  BY DEF RegInv, RecordInv, Early, Told, Untouched, Covered, Registers!Usable,
         Registers!IsEvent, Registers!InterruptedBetween
<1> QED BY <1>1, <1>2, <1>3 DEF RegInv

(* What the artifact says is true once the invariant holds.                *)
LEMMA ArtifactFollows == RegInv => Registers!ArtifactTrue
<1> SUFFICES ASSUME RegInv PROVE Registers!ArtifactTrue OBVIOUS
<1>1. Registers!TypeOK BY DEF RegInv, RegTypes
<1>2. stage = "ended" /\ reason = "none" => plan \subseteq entries /\ (probing => probed)
  BY DEF RegInv, QueueInv, ReadAll, Described, GoingOn, Early
<1>3. ASSUME stage = "ended", reason # "raised"
      PROVE  /\ reason # "transport_recovery_exhausted" => entries = done
             /\ \A i \in Registers!Operations :
                  /\ records[i] # "none" => i \in selected
                  /\ i \in selected => records[i] # "none" \/ Registers!InterruptedBetween
                  /\ records[i] = "unattempted" => opAttempts[i] = 0
                  /\ automatic /\ ~Registers!IsEvent(i) /\ opAttempts[i] > 0 =>
                       records[i - 1] = "value"
  BY <1>3 DEF RegInv, QueueInv, RecordInv, Told, Covered
<1> QED BY <1>1, <1>2, <1>3 DEF Registers!ArtifactTrue
-----------------------------------------------------------------------------
(* A finite set of naturals can be put in order.                           *)
Rising(t) == \A i, j \in DOMAIN t : i < j => t[i] < t[j]

(* What is bounded has a greatest element: the least distance to the bound.*)
LEMMA GreatestNumber ==
  ASSUME NEW S \in SUBSET Nat, IsFiniteSet(S), S # {}
  PROVE  \E x \in S : \A y \in S : y <= x
<1> DEFINE B == {s \in SUBSET S : s # {} /\ ~ \E x \in s : \A y \in s : y <= x}
<1> SUFFICES ASSUME B # {}
             PROVE  FALSE
  OBVIOUS
<1>1. PICK s \in B : \A t \in B : Cardinality(s) <= Cardinality(t)
  <2>1. B \in SUBSET (SUBSET S)
    OBVIOUS
  <2> HIDE DEF B
  <2> QED
    BY <2>1, SmallestSubset
<1>2. s \in SUBSET S /\ s # {} /\ s \in SUBSET Nat /\ IsFiniteSet(s)
  BY FS_Subset
<1>3. ~ \E x \in s : \A y \in s : y <= x
  OBVIOUS
<1> DEFINE p == First(s)
           r == s \ {First(s)}
<1>4. p \in s /\ r \in SUBSET S /\ ~ (Cardinality(s) <= Cardinality(r))
  <2>1. /\ First(s) \in s /\ Cardinality(s) \in Nat
        /\ Cardinality(s \ {First(s)}) \in Nat
        /\ Cardinality(s \ {First(s)}) + 1 = Cardinality(s)
    BY <1>2, FirstOut
  <2>2. ~ (Cardinality(s) <= Cardinality(s \ {First(s)}))
    BY <2>1
  <2> QED
    BY <1>2, <2>1, <2>2
<1>5. r \notin B
  BY <1>1, <1>4
<1>6. r # {}
  <2> SUFFICES ASSUME r = {}
               PROVE  FALSE
    OBVIOUS
  <2>1. \A y \in s : y = p
    OBVIOUS
  <2>2. p \in Nat
    BY <1>2, <1>4
  <2> HIDE DEF p, r
  <2>3. \A y \in s : y <= p
    BY <2>1, <2>2
  <2> QED
    BY <1>3, <1>4, <2>3
<1>7. PICK x \in r : \A y \in r : y <= x
  BY <1>4, <1>5, <1>6
<1>8. x \in Nat /\ p \in Nat /\ \A y \in r : y \in Nat
  BY <1>2, <1>4
<1>9. \A y \in s : y = p \/ y \in r
  OBVIOUS
<1> HIDE DEF p, r, B
<1>10. CASE p <= x
  <2>1. x \in s
    BY DEF r
  <2>2. \A y \in s : y <= x
    BY <1>7, <1>9, <1>10
  <2> QED
    BY <1>3, <2>1, <2>2
<1>11. CASE x <= p
  <2>1. ASSUME NEW y \in s
        PROVE  y <= p
    <3>1. CASE y = p
      BY <1>8, <3>1
    <3>2. CASE y \in r
      <4>1. y <= x /\ y \in Nat
        BY <1>7, <1>8, <3>2
      <4> QED
        BY <1>8, <1>11, <4>1
    <3> QED
      BY <1>9, <3>1, <3>2
  <2> QED
    BY <1>3, <1>4, <2>1
<1> QED
  BY <1>8, <1>10, <1>11

LEMMA RisingExists ==
  ASSUME NEW S \in SUBSET Nat, IsFiniteSet(S)
  PROVE  \E t \in [1..Cardinality(S) -> S] : Rising(t)
<1> DEFINE Good(s) == \E t \in [1..Cardinality(s) -> s] : Rising(t)
           B == {s \in SUBSET S : ~ Good(s)}
<1> SUFFICES ASSUME B # {}
             PROVE  FALSE
  OBVIOUS
<1>1. PICK s \in B : \A t \in B : Cardinality(s) <= Cardinality(t)
  <2>1. B \in SUBSET (SUBSET S)
    OBVIOUS
  <2> HIDE DEF B
  <2> QED
    BY <2>1, SmallestSubset
<1>2. s \in SUBSET S /\ s \in SUBSET Nat /\ IsFiniteSet(s) /\ ~ Good(s)
  BY FS_Subset
<1>3. s # {}
  <2>1. Good({})
    <3>1. Cardinality({}) = 0
      BY FS_EmptySet
    <3>2. 1..0 = {}
      OBVIOUS
    <3>3. [i \in {} |-> 0] \in [{} -> {}]
      OBVIOUS
    <3>4. Rising([i \in {} |-> 0])
      BY DEF Rising
    <3> QED
      BY <3>1, <3>2, <3>3, <3>4
  <2> QED
    BY <1>2, <2>1
<1>4. PICK m \in s : \A y \in s : y <= m
  BY <1>2, <1>3, GreatestNumber
<1> DEFINE r == s \ {m}
           n == Cardinality(r)
<1>5. /\ r \in SUBSET S /\ n \in Nat /\ Cardinality(s) = n + 1
  <2>1. IsFiniteSet(r) /\ Cardinality(r) = Cardinality(s) - 1 /\ Cardinality(s) \in Nat
    BY <1>2, FS_RemoveElement, FS_CardinalityType
  <2>2. Cardinality(r) \in Nat
    BY <2>1, FS_CardinalityType
  <2> QED
    BY <1>2, <2>1, <2>2
<1>6. r \notin B
  <2>1. ~ (Cardinality(s) <= n)
    <3> HIDE DEF n, r
    <3> QED
      BY <1>5
  <2> QED
    BY <1>1, <2>1
<1>7. PICK t \in [1..n -> r] : Rising(t)
  BY <1>5, <1>6
<1> DEFINE u == [i \in 1..(n + 1) |-> IF i = n + 1 THEN m ELSE t[i]]
<1>8. u \in [1..(n + 1) -> s]
  <2> HIDE DEF n
  <2>1. \A i \in 1..(n + 1) : i # n + 1 => i \in 1..n
    BY <1>5
  <2>2. \A i \in 1..n : t[i] \in s
    BY <1>7
  <2> QED
    BY <2>1, <2>2
<1>9. Rising(u)
  <2> HIDE DEF n, r
  <2> SUFFICES ASSUME NEW i \in 1..(n + 1), NEW j \in 1..(n + 1), i < j
               PROVE  u[i] < u[j]
    BY DEF Rising
  <2>1. i \in 1..n /\ u[i] = t[i] /\ i # n + 1
    BY <1>5
  <2>2. CASE j = n + 1
    <3>1. t[i] \in r
      BY <1>7, <2>1
    <3>2. t[i] \in Nat /\ m \in Nat /\ t[i] # m /\ t[i] <= m
      BY <1>2, <1>4, <3>1 DEF r
    <3> QED
      BY <2>1, <2>2, <3>2
  <2>3. CASE j # n + 1
    <3>1. j \in 1..n /\ u[j] = t[j]
      BY <1>5, <2>3
    <3> QED
      BY <1>7, <2>1, <3>1 DEF Rising
  <2> QED
    BY <2>2, <2>3
<1> HIDE DEF u, n
<1>10. Good(s)
  BY <1>5, <1>8, <1>9
<1> QED
  BY <1>2, <1>10

(* In order, each member has exactly one place.                            *)
LEMMA RisingOnce ==
  ASSUME NEW S \in SUBSET Nat, IsFiniteSet(S),
         NEW t \in [1..Cardinality(S) -> S], Rising(t)
  PROVE  /\ \A i, j \in 1..Cardinality(S) : t[i] = t[j] => i = j
         /\ \A x \in S : \E i \in 1..Cardinality(S) : t[i] = x
<1> DEFINE n == Cardinality(S)
<1>1. n \in Nat /\ IsFiniteSet(1..n) /\ Cardinality(1..n) = n
  BY FS_CardinalityType, FS_Interval
<1>2. \A i, j \in 1..n : t[i] = t[j] => i = j
  <2> SUFFICES ASSUME NEW i \in 1..n, NEW j \in 1..n, t[i] = t[j], i # j
               PROVE  FALSE
    OBVIOUS
  <2>1. i \in Nat /\ j \in Nat /\ t[i] \in Nat /\ t[j] \in Nat
    <3>1. t[i] \in S /\ t[j] \in S
      OBVIOUS
    <3>2. t[i] \in Nat /\ t[j] \in Nat
      BY <3>1, Zenon
    <3>3. n \in Nat
      BY <1>1
    <3> HIDE DEF n
    <3>4. i \in Nat /\ j \in Nat
      BY <3>3
    <3> QED
      BY <3>2, <3>4
  <2>2. i < j \/ j < i
    BY <2>1
  <2>3. t[i] < t[j] \/ t[j] < t[i]
    BY <2>2 DEF Rising
  <2> QED
    BY <2>1, <2>3
<1> HIDE DEF n
<1>3. t \in Injection(1..n, S)
  BY <1>2 DEF Injection, IsInjective, n
<1>4. t \in Surjection(1..n, S)
  BY <1>1, <1>3, FS_Injection DEF n
<1>5. \A x \in S : \E i \in 1..n : t[i] = x
  BY <1>4 DEF Surjection
<1> QED
  BY <1>2, <1>5 DEF n

(* A turn takes each namespace that has a candidate left, once.            *)
Left(sizes, r) == {n \in DOMAIN sizes : sizes[n] >= r}
LEMMA TurnOrders ==
  ASSUME NEW sizes, DOMAIN sizes \in SUBSET Nat, IsFiniteSet(DOMAIN sizes), NEW r
  PROVE  /\ Turn(sizes, r) \in [1..Cardinality(Left(sizes, r)) -> Left(sizes, r)]
         /\ Rising(Turn(sizes, r))
<1>1. Left(sizes, r) \in SUBSET Nat /\ IsFiniteSet(Left(sizes, r))
  BY FS_Subset DEF Left
<1>2. \E t \in [1..Cardinality(Left(sizes, r)) -> Left(sizes, r)] : Rising(t)
  BY <1>1, RisingExists
<1>3. Turn(sizes, r) = CHOOSE t \in [1..Cardinality(Left(sizes, r)) -> Left(sizes, r)] : Rising(t)
  BY Zenon DEF Turn, Left, Rising
<1> QED
  BY <1>2, <1>3, Zenon

(* The sequence the rounds give together.                                  *)
UpToStep(sizes, r, u) == IF r = 0 THEN <<>> ELSE u[r - 1] \o Turn(sizes, r)
UpTo(sizes, rounds) == CHOOSE u : u = [r \in 0..rounds |-> UpToStep(sizes, r, u)]

LEMMA RoundRobinIs ==
  ASSUME NEW sizes, NEW rounds
  PROVE  RoundRobin(sizes, rounds) = UpTo(sizes, rounds)[rounds]
BY Zenon DEF RoundRobin, UpTo, UpToStep

LEMMA UpToEquation ==
  ASSUME NEW sizes, NEW rounds \in Nat
  PROVE  UpTo(sizes, rounds) = [r \in 0..rounds |-> UpToStep(sizes, r, UpTo(sizes, rounds))]
<1> DEFINE Claim(n) == \E u : u = [r \in 0..n |-> UpToStep(sizes, r, u)]
           Wrong == {n \in Nat : ~ Claim(n)}
<1>1. Claim(0)
  <2>1. [r \in 0..0 |-> <<>>] = [r \in 0..0 |-> UpToStep(sizes, r, [q \in 0..0 |-> <<>>])]
    BY DEF UpToStep
  <2> QED
    BY <2>1
<1>2. ASSUME NEW n \in Nat, Claim(n)
      PROVE  Claim(n + 1)
  <2>1. PICK g : g = [r \in 0..n |-> UpToStep(sizes, r, g)]
    BY <1>2
  <2> DEFINE h == [r \in 0..(n + 1) |-> UpToStep(sizes, r, g)]
  <2>2. ASSUME NEW r \in 0..(n + 1)
        PROVE  UpToStep(sizes, r, g) = UpToStep(sizes, r, h)
    <3>1. CASE r = 0
      BY <3>1 DEF UpToStep
    <3>2. CASE r # 0
      <4>1. r - 1 \in 0..n /\ r - 1 \in 0..(n + 1)
        BY <1>2, <3>2
      <4>2. g[r - 1] = UpToStep(sizes, r - 1, g)
        BY <2>1, <4>1
      <4>3. h[r - 1] = UpToStep(sizes, r - 1, g)
        BY <4>1
      <4>4. g[r - 1] = h[r - 1]
        BY <4>2, <4>3
      <4> HIDE DEF h
      <4> QED
        BY <3>2, <4>4, Zenon DEF UpToStep
    <3> QED
      BY <3>1, <3>2
  <2>3. h = [r \in 0..(n + 1) |-> UpToStep(sizes, r, h)]
    BY <2>2
  <2> HIDE DEF h
  <2> QED
    BY <2>3
<1>3. \A n \in Nat : Claim(n)
  <2> SUFFICES ASSUME Wrong # {}
               PROVE  FALSE
    OBVIOUS
  <2>1. PICK n \in Wrong : \A k \in Wrong : n <= k
    <3>1. Wrong \in SUBSET Nat
      OBVIOUS
    <3> HIDE DEF Wrong
    <3> QED
      BY <3>1, LeastNumber
  <2>2. n \in Nat /\ ~ Claim(n)
    OBVIOUS
  <2> HIDE DEF Claim
  <2>3. n # 0
    BY <1>1, <2>2
  <2>4. n - 1 \in Nat /\ n = (n - 1) + 1
    BY <2>2, <2>3
  <2>5. Claim(n - 1)
    BY <2>1, <2>4
  <2> QED
    BY <1>2, <2>2, <2>4, <2>5
<1>4. \E u : u = [r \in 0..rounds |-> UpToStep(sizes, r, u)]
  BY <1>3
<1> QED
  BY <1>4, Zenon DEF UpTo

(* Counting a namespace's candidates in an order, all and the first k.     *)
PlacesIn(s, n) == {k \in 1..Len(s) : s[k] = n}
FirstPlaces(s, n, k) == {j \in PlacesIn(s, n) : j <= k}

LEMMA PlacesFinite ==
  ASSUME NEW X, NEW s \in Seq(X), NEW n, NEW k
  PROVE  /\ IsFiniteSet(PlacesIn(s, n)) /\ IsFiniteSet(FirstPlaces(s, n, k))
         /\ Cardinality(PlacesIn(s, n)) \in Nat /\ Cardinality(FirstPlaces(s, n, k)) \in Nat
         /\ Cardinality(FirstPlaces(s, n, k)) <= Cardinality(PlacesIn(s, n))
<1>1. IsFiniteSet(1..Len(s))
  BY FS_Interval
<1>2. PlacesIn(s, n) \in SUBSET (1..Len(s)) /\ FirstPlaces(s, n, k) \in SUBSET PlacesIn(s, n)
  BY DEF PlacesIn, FirstPlaces
<1>3. IsFiniteSet(PlacesIn(s, n))
  BY <1>1, <1>2, FS_Subset
<1> QED
  BY <1>2, <1>3, FS_Subset, FS_CardinalityType

(* What a turn t over the members of L adds to an order s.                 *)
LEMMA TurnAdds ==
  ASSUME NEW X, NEW s \in Seq(X), NEW L \in SUBSET X, L \in SUBSET Nat, IsFiniteSet(L),
         NEW t \in [1..Cardinality(L) -> L], Rising(t)
  PROVE  /\ s \o t \in Seq(X) /\ Len(s \o t) = Len(s) + Cardinality(L)
         /\ \A n : Cardinality(PlacesIn(s \o t, n))
                     = Cardinality(PlacesIn(s, n)) + (IF n \in L THEN 1 ELSE 0)
         /\ \A n : \A k \in Nat : k <= Len(s) => FirstPlaces(s \o t, n, k) = FirstPlaces(s, n, k)
         /\ \A n : \A k \in Nat :
              k > Len(s) => Cardinality(FirstPlaces(s \o t, n, k)) >= Cardinality(PlacesIn(s, n))
<1>1. PICK c \in Nat : c = Cardinality(L)
  BY FS_CardinalityType
<1>2. PICK l \in Nat : l = Len(s)
  OBVIOUS
<1> DEFINE u == s \o t
<1>3. t \in [1..c -> X] /\ t \in Seq(X) /\ Len(t) = c
  <2>1. t \in [1..c -> X]
    BY <1>1
  <2> QED
    BY <2>1
<1>4. u \in Seq(X) /\ Len(u) = l + c
  BY <1>2, <1>3
<1>5. \A k \in 1..(l + c) : u[k] = IF k <= l THEN s[k] ELSE t[k - l]
  BY <1>2, <1>3
<1>6. /\ \A i, j \in 1..c : t[i] = t[j] => i = j
      /\ \A x \in L : \E i \in 1..c : t[i] = x
  BY <1>1, RisingOnce
<1> HIDE DEF u
<1>7. \A n : PlacesIn(s, n) = {k \in 1..l : s[k] = n}
  BY <1>2 DEF PlacesIn
<1>8. \A n : PlacesIn(u, n) = {k \in 1..(l + c) : u[k] = n}
  BY <1>4 DEF PlacesIn
<1>9. ASSUME NEW n
      PROVE  Cardinality(PlacesIn(u, n)) = Cardinality(PlacesIn(s, n)) + (IF n \in L THEN 1 ELSE 0)
  <2>1. IsFiniteSet(PlacesIn(s, n)) /\ Cardinality(PlacesIn(s, n)) \in Nat
    BY PlacesFinite
  <2>2. CASE n \notin L
    <3>1. ASSUME NEW k \in (l + 1)..(l + c)
          PROVE  u[k] # n
      <4>1. k \in 1..(l + c) /\ ~ (k <= l) /\ k - l \in 1..c
        OBVIOUS
      <4>2. u[k] = t[k - l] /\ t[k - l] \in L
        BY <1>1, <1>5, <4>1
      <4> QED
        BY <2>2, <4>2
    <3>2. PlacesIn(u, n) = PlacesIn(s, n)
      <4>1. ASSUME NEW k \in PlacesIn(u, n)
            PROVE  k \in PlacesIn(s, n)
        <5>1. k \in 1..(l + c) /\ u[k] = n
          BY <1>8
        <5>2. k \in 1..l
          BY <3>1, <5>1
        <5> QED
          BY <1>5, <1>7, <5>1, <5>2
      <4>2. ASSUME NEW k \in PlacesIn(s, n)
            PROVE  k \in PlacesIn(u, n)
        <5>1. k \in 1..l /\ s[k] = n
          BY <1>7
        <5>2. k \in 1..(l + c) /\ k <= l
          BY <5>1
        <5> QED
          BY <1>5, <1>8, <5>1, <5>2
      <4> QED
        BY <4>1, <4>2
    <3> QED
      BY <2>1, <2>2, <3>2
  <2>3. CASE n \in L
    <3>1. PICK i \in 1..c : t[i] = n
      BY <1>6, <2>3
    <3>2. l + i \in 1..(l + c) /\ ~ (l + i <= l) /\ (l + i) - l = i
      OBVIOUS
    <3>3. u[l + i] = n
      BY <1>5, <3>1, <3>2
    <3>4. ASSUME NEW k \in PlacesIn(u, n)
          PROVE  k \in PlacesIn(s, n) \/ k = l + i
      <4>1. k \in 1..(l + c) /\ u[k] = n
        BY <1>8
      <4>2. CASE k <= l
        <5>1. k \in 1..l
          BY <4>1, <4>2
        <5> QED
          BY <1>5, <1>7, <4>1, <4>2, <5>1
      <4>3. CASE ~ (k <= l)
        <5>1. k - l \in 1..c /\ k = l + (k - l)
          BY <4>1, <4>3
        <5>2. t[k - l] = n
          BY <1>5, <4>1, <4>3
        <5>3. k - l = i
          BY <1>6, <3>1, <5>1, <5>2
        <5> QED
          BY <5>1, <5>3
      <4> QED
        BY <4>2, <4>3
    <3>5. ASSUME NEW k \in PlacesIn(s, n)
          PROVE  k \in PlacesIn(u, n) /\ k # l + i
      <4>1. k \in 1..l /\ s[k] = n
        BY <1>7
      <4>2. k \in 1..(l + c) /\ k <= l /\ k # l + i
        BY <4>1
      <4> QED
        BY <1>5, <1>8, <4>1, <4>2
    <3>6. PlacesIn(u, n) = PlacesIn(s, n) \cup {l + i} /\ l + i \notin PlacesIn(s, n)
      BY <1>8, <3>2, <3>3, <3>4, <3>5
    <3>7. Cardinality(PlacesIn(s, n) \cup {l + i}) = Cardinality(PlacesIn(s, n)) + 1
      BY <2>1, <3>6, FS_AddElement
    <3> QED
      BY <2>3, <3>6, <3>7
  <2> QED
    BY <2>2, <2>3
<1>10. ASSUME NEW n, NEW k \in Nat, k <= l
       PROVE  FirstPlaces(u, n, k) = FirstPlaces(s, n, k)
  <2>1. ASSUME NEW j \in FirstPlaces(u, n, k)
        PROVE  j \in FirstPlaces(s, n, k)
    <3>1. j \in 1..(l + c) /\ u[j] = n /\ j <= k
      BY <1>8 DEF FirstPlaces
    <3>2. j \in 1..l /\ j <= l
      BY <1>10, <3>1
    <3> QED
      BY <1>5, <1>7, <3>1, <3>2 DEF FirstPlaces
  <2>2. ASSUME NEW j \in FirstPlaces(s, n, k)
        PROVE  j \in FirstPlaces(u, n, k)
    <3>1. j \in 1..l /\ s[j] = n /\ j <= k
      BY <1>7 DEF FirstPlaces
    <3>2. j \in 1..(l + c) /\ j <= l
      BY <3>1
    <3> QED
      BY <1>5, <1>8, <3>1, <3>2 DEF FirstPlaces
  <2> QED
    BY <2>1, <2>2
<1>11. ASSUME NEW n, NEW k \in Nat, k > l
       PROVE  Cardinality(FirstPlaces(u, n, k)) >= Cardinality(PlacesIn(s, n))
  <2>1. ASSUME NEW j \in PlacesIn(s, n)
        PROVE  j \in FirstPlaces(u, n, k)
    <3>1. j \in 1..l /\ s[j] = n
      BY <1>7
    <3>2. j \in 1..(l + c) /\ j <= l /\ j <= k
      BY <1>11, <3>1
    <3> QED
      BY <1>5, <1>8, <3>1, <3>2 DEF FirstPlaces
  <2>2. PlacesIn(s, n) \in SUBSET FirstPlaces(u, n, k) /\ IsFiniteSet(FirstPlaces(u, n, k))
    BY <1>4, <2>1, PlacesFinite
  <2>3. Cardinality(PlacesIn(s, n)) <= Cardinality(FirstPlaces(u, n, k))
    BY <2>2, FS_Subset
  <2> QED
    BY <1>4, <2>3, PlacesFinite
<1> QED
  BY <1>1, <1>2, <1>4, <1>9, <1>10, <1>11 DEF u

(* A round adds one to the sum for each namespace it serves.               *)
LEMMA SumMore ==
  ASSUME NEW S, IsFiniteSet(S), NEW f, NEW g, NEW A \in SUBSET S,
         \A x \in S : f[x] \in Nat,
         \A x \in S : g[x] = f[x] + (IF x \in A THEN 1 ELSE 0)
  PROVE  SumFunctionOnSet(g, S) = SumFunctionOnSet(f, S) + Cardinality(A)
<1> DEFINE Good(s) == SumFunctionOnSet(g, s) = SumFunctionOnSet(f, s) + Cardinality(A \cap s)
           B == {s \in SUBSET S : ~ Good(s)}
<1>1. \A x \in S : f[x] \in Nat /\ g[x] \in Nat
  OBVIOUS
<1> SUFFICES B = {}
  <2>1. Good(S)
    OBVIOUS
  <2>2. A \cap S = A
    OBVIOUS
  <2> QED
    BY <2>1, <2>2
<1> SUFFICES ASSUME B # {}
             PROVE  FALSE
  OBVIOUS
<1>2. PICK s \in B : \A t \in B : Cardinality(s) <= Cardinality(t)
  <2>1. B \in SUBSET (SUBSET S)
    OBVIOUS
  <2> HIDE DEF B
  <2> QED
    BY <2>1, SmallestSubset
<1>3. s \in SUBSET S /\ ~ Good(s)
  OBVIOUS
<1>4. IsFiniteSet(s)
  BY <1>3, FS_Subset
<1>5. s # {}
  <2>1. A \cap {} = {} /\ Cardinality({}) = 0
    BY FS_EmptySet
  <2>2. Good({})
    BY <2>1, SumEmpty
  <2> QED
    BY <1>3, <2>2
<1>6. PICK p : p = First(s)
  OBVIOUS
<1>7. PICK r : r = s \ {p}
  OBVIOUS
<1>8. /\ p \in s /\ p \in S /\ r \in SUBSET S /\ IsFiniteSet(r)
      /\ ~ (Cardinality(s) <= Cardinality(r))
  <2>1. /\ First(s) \in s /\ Cardinality(s) \in Nat
        /\ Cardinality(s \ {First(s)}) \in Nat
        /\ Cardinality(s \ {First(s)}) + 1 = Cardinality(s)
    BY <1>4, <1>5, FirstOut
  <2>2. ~ (Cardinality(s) <= Cardinality(s \ {First(s)}))
    BY <2>1
  <2> QED
    BY <1>3, <1>4, <1>6, <1>7, <2>1, <2>2, FS_Subset
<1>9. Good(r)
  BY <1>2, <1>8
<1>10. /\ SumFunctionOnSet(f, s) = f[p] + SumFunctionOnSet(f, r)
       /\ SumFunctionOnSet(g, s) = g[p] + SumFunctionOnSet(g, r)
       /\ SumFunctionOnSet(f, r) \in Nat
  <2>1. (\A x \in s : f[x] \in Nat /\ g[x] \in Nat) /\ (\A x \in r : f[x] \in Nat)
    BY <1>1, <1>3, <1>8
  <2>2. r = s \ {p} /\ p \in s
    BY <1>7, <1>8
  <2>3. SumFunctionOnSet(f, s) = f[p] + SumFunctionOnSet(f, r)
    BY <1>4, <2>1, <2>2, SumApart
  <2>4. SumFunctionOnSet(g, s) = g[p] + SumFunctionOnSet(g, r)
    BY <1>4, <2>1, <2>2, SumApart
  <2>5. SumFunctionOnSet(f, r) \in Nat
    BY <1>8, <2>1, SumApart
  <2> QED
    BY <2>3, <2>4, <2>5
<1>11. Cardinality(A \cap s) = Cardinality(A \cap r) + (IF p \in A THEN 1 ELSE 0)
  <2>1. IsFiniteSet(A \cap r) /\ Cardinality(A \cap r) \in Nat
    BY <1>8, FS_Intersection, FS_CardinalityType
  <2>2. CASE p \in A
    <3>1. A \cap s = (A \cap r) \cup {p} /\ p \notin A \cap r
      BY <1>7, <1>8, <2>2
    <3>2. Cardinality((A \cap r) \cup {p}) = Cardinality(A \cap r) + 1
      BY <2>1, <3>1, FS_AddElement
    <3> QED
      BY <2>2, <3>1, <3>2
  <2>3. CASE p \notin A
    <3>1. A \cap s = A \cap r
      BY <1>7, <2>3
    <3> QED
      BY <2>1, <2>3, <3>1
  <2> QED
    BY <2>2, <2>3
<1>12. Cardinality(A \cap r) \in Nat
  BY <1>8, FS_Intersection, FS_CardinalityType
<1>13. f[p] \in Nat /\ g[p] = f[p] + (IF p \in A THEN 1 ELSE 0)
  BY <1>8
<1>14. Good(s)
  <2> HIDE DEF B
  <2>1. SumFunctionOnSet(g, r) = SumFunctionOnSet(f, r) + Cardinality(A \cap r)
    BY <1>9
  <2>2. CASE p \in A
    BY <1>10, <1>11, <1>12, <1>13, <2>1, <2>2
  <2>3. CASE p \notin A
    BY <1>10, <1>11, <1>12, <1>13, <2>1, <2>3
  <2> QED
    BY <2>2, <2>3
<1> QED
  BY <1>3, <1>14

(* What r rounds have made of the namespaces: each has given r candidates  *)
(* or all it has, and none is more than one ahead of one that has more.    *)
Given(sizes, r) == [n \in DOMAIN sizes |-> Least(r, sizes[n])]
InTurn(s, c) ==
  \A n, m \in DOMAIN c : \A k \in Nat :
    Cardinality(FirstPlaces(s, n, k)) < c[n] =>
      Cardinality(FirstPlaces(s, m, k)) <= Cardinality(FirstPlaces(s, n, k)) + 1
RoundsMake(s, sizes, r) ==
  /\ s \in Seq(DOMAIN sizes)
  /\ \A n \in DOMAIN sizes : Cardinality(PlacesIn(s, n)) = Given(sizes, r)[n]
  /\ Len(s) = SumFunctionOnSet(Given(sizes, r), DOMAIN sizes)
  /\ InTurn(s, Given(sizes, r))

LEMMA SumNothing ==
  ASSUME NEW S, IsFiniteSet(S), NEW f, \A x \in S : f[x] = 0
  PROVE  SumFunctionOnSet(f, S) = 0
<1> DEFINE B == {s \in SUBSET S : SumFunctionOnSet(f, s) # 0}
<1> SUFFICES ASSUME B # {}
             PROVE  FALSE
  OBVIOUS
<1>1. PICK s \in B : \A t \in B : Cardinality(s) <= Cardinality(t)
  <2>1. B \in SUBSET (SUBSET S)
    OBVIOUS
  <2> HIDE DEF B
  <2> QED
    BY <2>1, SmallestSubset
<1>2. s \in SUBSET S /\ SumFunctionOnSet(f, s) # 0 /\ IsFiniteSet(s)
  BY FS_Subset
<1>3. s # {}
  BY <1>2, SumEmpty
<1>4. /\ First(s) \in s /\ Cardinality(s) \in Nat
      /\ Cardinality(s \ {First(s)}) \in Nat
      /\ Cardinality(s \ {First(s)}) + 1 = Cardinality(s)
  BY <1>2, <1>3, FirstOut
<1>5. ~ (Cardinality(s) <= Cardinality(s \ {First(s)}))
  BY <1>4
<1>6. s \ {First(s)} \notin B
  BY <1>1, <1>5
<1>7. SumFunctionOnSet(f, s \ {First(s)}) = 0
  BY <1>2, <1>6
<1>8. SumFunctionOnSet(f, s) = f[First(s)] + SumFunctionOnSet(f, s \ {First(s)})
  BY <1>2, <1>3, SumFirst
<1>9. f[First(s)] = 0
  BY <1>2, <1>4
<1> QED
  BY <1>2, <1>7, <1>8, <1>9

LEMMA NoRounds ==
  ASSUME NEW sizes, IsFiniteSet(DOMAIN sizes), \A n \in DOMAIN sizes : sizes[n] \in Nat
  PROVE  RoundsMake(<<>>, sizes, 0)
<1>1. \A n \in DOMAIN sizes : Given(sizes, 0)[n] = 0
  BY DEF Given, Least
<1>2. \A n : PlacesIn(<<>>, n) = {}
  BY DEF PlacesIn
<1>3. \A n : Cardinality(PlacesIn(<<>>, n)) = 0
  BY <1>2, FS_EmptySet
<1>4. SumFunctionOnSet(Given(sizes, 0), DOMAIN sizes) = 0
  BY <1>1, SumNothing
<1>5. <<>> \in Seq(DOMAIN sizes) /\ Len(<<>>) = 0
  OBVIOUS
<1>6. InTurn(<<>>, Given(sizes, 0))
  <2>1. DOMAIN Given(sizes, 0) = DOMAIN sizes
    BY DEF Given
  <2>2. \A n, k : Cardinality(FirstPlaces(<<>>, n, k)) \in Nat
    BY <1>5, PlacesFinite
  <2> SUFFICES ASSUME NEW n \in DOMAIN sizes, NEW m \in DOMAIN sizes, NEW k \in Nat,
                      Cardinality(FirstPlaces(<<>>, n, k)) < Given(sizes, 0)[n]
               PROVE  FALSE
    BY <2>1 DEF InTurn
  <2>3. PICK x \in Nat : x = Cardinality(FirstPlaces(<<>>, n, k))
    BY <2>2
  <2> QED
    BY <1>1, <2>3
<1> QED
  BY <1>1, <1>3, <1>4, <1>5, <1>6 DEF RoundsMake

LEMMA OneMoreRound ==
  ASSUME NEW sizes, DOMAIN sizes \in SUBSET Nat, IsFiniteSet(DOMAIN sizes),
         \A n \in DOMAIN sizes : sizes[n] \in Nat,
         NEW r \in Nat, NEW s, RoundsMake(s, sizes, r)
  PROVE  RoundsMake(s \o Turn(sizes, r + 1), sizes, r + 1)
<1> DEFINE N == DOMAIN sizes
           L == Left(sizes, r + 1)
           t == Turn(sizes, r + 1)
           u == s \o t
           c == Given(sizes, r)
           d == Given(sizes, r + 1)
<1>1. /\ s \in Seq(N) /\ L \in SUBSET N /\ IsFiniteSet(L) /\ L \in SUBSET Nat
      /\ t \in [1..Cardinality(L) -> L] /\ Rising(t)
  <2>1. L \in SUBSET N
    BY DEF Left
  <2>2. s \in Seq(N)
    BY DEF RoundsMake
  <2>3. t \in [1..Cardinality(L) -> L] /\ Rising(t)
    BY TurnOrders
  <2>4. IsFiniteSet(L) /\ L \in SUBSET Nat
    BY <2>1, FS_Subset
  <2> QED
    BY <2>1, <2>2, <2>3, <2>4
<1>2. \A n \in N : /\ c[n] \in Nat /\ c[n] <= r /\ d[n] \in Nat /\ d[n] <= r + 1
                   /\ d[n] = c[n] + (IF n \in L THEN 1 ELSE 0)
                   /\ (c[n] < r => n \notin L)
  <2> SUFFICES ASSUME NEW n \in N
               PROVE  /\ c[n] \in Nat /\ c[n] <= r /\ d[n] \in Nat /\ d[n] <= r + 1
                      /\ d[n] = c[n] + (IF n \in L THEN 1 ELSE 0)
                      /\ (c[n] < r => n \notin L)
    OBVIOUS
  <2>1. PICK x \in Nat : x = sizes[n]
    OBVIOUS
  <2>2. c[n] = Least(r, x) /\ d[n] = Least(r + 1, x) /\ (n \in L <=> x >= r + 1)
    BY <2>1 DEF Given, Left
  <2> HIDE DEF c, d, L
  <2>3. CASE x >= r + 1
    BY <2>2, <2>3 DEF Least
  <2>4. CASE ~ (x >= r + 1)
    BY <2>2, <2>4 DEF Least
  <2> QED
    BY <2>3, <2>4
<1>3. DOMAIN c = N /\ DOMAIN d = N
  BY DEF Given
<1>4. /\ \A n \in N : Cardinality(PlacesIn(s, n)) = c[n]
      /\ Len(s) = SumFunctionOnSet(c, N) /\ InTurn(s, c)
  BY DEF RoundsMake
<1> HIDE DEF c, d, L, t, N
<1>5. /\ u \in Seq(N) /\ Len(u) = Len(s) + Cardinality(L)
      /\ \A n : Cardinality(PlacesIn(u, n))
                  = Cardinality(PlacesIn(s, n)) + (IF n \in L THEN 1 ELSE 0)
      /\ \A n : \A k \in Nat : k <= Len(s) => FirstPlaces(u, n, k) = FirstPlaces(s, n, k)
      /\ \A n : \A k \in Nat :
           k > Len(s) => Cardinality(FirstPlaces(u, n, k)) >= Cardinality(PlacesIn(s, n))
  BY <1>1, TurnAdds
<1> HIDE DEF u
<1>6. \A n \in N : Cardinality(PlacesIn(u, n)) = d[n]
  BY <1>2, <1>4, <1>5
<1>7. Len(u) = SumFunctionOnSet(d, N)
  <2>1. IsFiniteSet(N)
    BY DEF N
  <2>2. L \in SUBSET N /\ \A n \in N : c[n] \in Nat
    BY <1>1, <1>2
  <2>3. \A n \in N : d[n] = c[n] + (IF n \in L THEN 1 ELSE 0)
    BY <1>2, Zenon
  <2>4. SumFunctionOnSet(d, N) = SumFunctionOnSet(c, N) + Cardinality(L)
    BY <2>1, <2>2, <2>3, SumMore
  <2> QED
    BY <1>4, <1>5, <2>4
<1>8. InTurn(u, d)
  <2> SUFFICES ASSUME NEW n \in N, NEW m \in N, NEW k \in Nat,
                      Cardinality(FirstPlaces(u, n, k)) < d[n]
               PROVE  Cardinality(FirstPlaces(u, m, k)) <= Cardinality(FirstPlaces(u, n, k)) + 1
    BY <1>3 DEF InTurn
  <2>1. PICK x \in Nat : x = Cardinality(FirstPlaces(u, n, k))
    BY <1>5, PlacesFinite
  <2>2. PICK y \in Nat : y = Cardinality(FirstPlaces(u, m, k)) /\ y <= d[m]
    BY <1>5, <1>6, PlacesFinite
  <2>3. PICK l \in Nat : l = Len(s)
    BY <1>1
  <2>4. CASE x >= r
    BY <1>2, <2>1, <2>2, <2>4
  <2>5. CASE x < r /\ k > l
    <3>1. x >= c[n]
      BY <1>4, <1>5, <2>1, <2>3, <2>5
    <3>2. c[n] < r
      BY <1>2, <2>5, <3>1
    <3>3. d[n] = c[n]
      BY <1>2, <3>2
    <3> QED
      BY <1>2, <2>1, <3>1, <3>3
  <2>6. CASE x < r /\ k <= l
    <3>1. x < c[n]
      BY <1>2, <2>1, <2>6
    <3>2. /\ x = Cardinality(FirstPlaces(s, n, k))
          /\ y = Cardinality(FirstPlaces(s, m, k))
      BY <1>5, <2>1, <2>2, <2>3, <2>6
    <3>3. y <= x + 1
      BY <1>3, <1>4, <3>1, <3>2 DEF InTurn
    <3> QED
      BY <2>1, <2>2, <3>3
  <2> QED
    BY <2>3, <2>4, <2>5, <2>6
<1> QED
  BY <1>5, <1>6, <1>7, <1>8 DEF RoundsMake, N, u, t, d

(* Every round of _round_robin_namespaces keeps the namespaces in turn.    *)
LEMMA RoundsTaken ==
  ASSUME NEW sizes, DOMAIN sizes \in SUBSET Nat, IsFiniteSet(DOMAIN sizes),
         \A n \in DOMAIN sizes : sizes[n] \in Nat,
         NEW rounds \in Nat
  PROVE  RoundsMake(RoundRobin(sizes, rounds), sizes, rounds)
<1> DEFINE u == UpTo(sizes, rounds)
           Wrong == {r \in 0..rounds : ~ RoundsMake(u[r], sizes, r)}
<1>1. \A r \in 0..rounds : u[r] = UpToStep(sizes, r, u)
  <2>1. u = [r \in 0..rounds |-> UpToStep(sizes, r, u)]
    BY UpToEquation, Zenon
  <2> HIDE DEF u
  <2> QED
    BY <2>1
<1> HIDE DEF u
<1> SUFFICES ASSUME Wrong # {}
             PROVE  FALSE
  <2>1. rounds \in 0..rounds
    OBVIOUS
  <2> QED
    BY <2>1, RoundRobinIs DEF u
<1>2. PICK r \in Wrong : \A q \in Wrong : r <= q
  <2>1. Wrong \in SUBSET Nat
    OBVIOUS
  <2> HIDE DEF Wrong
  <2> QED
    BY <2>1, LeastNumber
<1>3. r \in 0..rounds /\ ~ RoundsMake(u[r], sizes, r)
  OBVIOUS
<1>4. CASE r = 0
  <2>1. u[r] = <<>>
    BY <1>1, <1>3, <1>4 DEF UpToStep
  <2> QED
    BY <1>3, <1>4, <2>1, NoRounds
<1>5. CASE r # 0
  <2>1. PICK q \in Nat : q = r - 1
    BY <1>3, <1>5
  <2>2. q \in 0..rounds /\ r = q + 1 /\ ~ (r <= q)
    BY <1>3, <2>1
  <2>3. RoundsMake(u[q], sizes, q)
    BY <1>2, <2>2
  <2>4. u[r] = u[q] \o Turn(sizes, q + 1)
    BY <1>1, <1>3, <1>5, <2>1, <2>2 DEF UpToStep
  <2> QED
    BY <1>3, <2>2, <2>3, <2>4, OneMoreRound
<1> QED
  BY <1>4, <1>5

-----------------------------------------------------------------------------
(* The order of each family is what the rounds made of some namespaces.    *)
OrderMade ==
  \A f \in Families :
    \E sizes \in [Namespaces -> 0..MaxSize] :
      order[f] = RoundRobin(sizes, MaxSize) /\ eligible[f] = SumFunction(sizes)

LEMMA OrderInit == Init => OrderMade
<1> SUFFICES ASSUME Init, NEW f \in Families
             PROVE  \E sizes \in [Namespaces -> 0..MaxSize] :
                      order[f] = RoundRobin(sizes, MaxSize) /\ eligible[f] = SumFunction(sizes)
  BY DEF OrderMade
<1>1. PICK sizes \in [Families -> [Namespaces -> 0..MaxSize]] :
        /\ order = [g \in Families |-> RoundRobin(sizes[g], MaxSize)]
        /\ eligible = [g \in Families |-> SumFunction(sizes[g])]
  BY Zenon DEF Init
<1>2. sizes[f] \in [Namespaces -> 0..MaxSize]
  OBVIOUS
<1>3. order[f] = RoundRobin(sizes[f], MaxSize) /\ eligible[f] = SumFunction(sizes[f])
  BY <1>1, Zenon
<1> QED
  BY <1>2, <1>3, Zenon

LEMMA OrderStays == OrderMade /\ [Next]_vars => OrderMade'
<1> SUFFICES ASSUME OrderMade, [Next]_vars
             PROVE  OrderMade'
  OBVIOUS
<1>1. UNCHANGED <<order, eligible>>
  BY DEF Next, vars, input, Probe, Attempt, RefusedByBudget, Deferred, Returned, Proceed,
         RecoveryExhausted, Interrupted, NotEnabled, Finish, End
<1> QED
  BY <1>1, Zenon DEF OrderMade

LEMMA OrderServes == OrderMade /\ TypeOK => NamespacesInTurn
<1> SUFFICES ASSUME OrderMade, TypeOK, NEW f \in Families
             PROVE  /\ Len(order[f]) = eligible[f]
                    /\ \A n, m \in Namespaces :
                         Served(f, n) < Cardinality(Places(f, n)) =>
                           Served(f, m) <= Served(f, n) + 1
  BY DEF NamespacesInTurn
<1>1. PICK sizes \in [Namespaces -> 0..MaxSize] :
        order[f] = RoundRobin(sizes, MaxSize) /\ eligible[f] = SumFunction(sizes)
  BY DEF OrderMade
<1>2. /\ DOMAIN sizes = Namespaces /\ Namespaces \in SUBSET Nat /\ IsFiniteSet(Namespaces)
      /\ MaxSize \in Nat /\ \A n \in Namespaces : sizes[n] \in Nat /\ sizes[n] <= MaxSize
  <2>1. MaxSize \in Nat /\ NamespaceCount \in Nat
    BY AcquisitionAssumption DEF AcquisitionAssumption
  <2>2. IsFiniteSet(1..NamespaceCount)
    BY <2>1, FS_Interval
  <2>3. 1..NamespaceCount \in SUBSET Nat
    BY <2>1
  <2>4. \A x \in 0..MaxSize : x \in Nat /\ x <= MaxSize
    BY <2>1
  <2> QED
    BY <2>1, <2>2, <2>3, <2>4 DEF Namespaces
<1>3. PICK s : s = order[f]
  OBVIOUS
<1>4. RoundsMake(s, sizes, MaxSize)
  BY <1>1, <1>2, <1>3, RoundsTaken
<1>5. Given(sizes, MaxSize) = [n \in Namespaces |-> sizes[n]]
  <2>1. \A n \in Namespaces : Least(MaxSize, sizes[n]) = sizes[n]
    BY <1>2 DEF Least
  <2> QED
    BY <1>2, <2>1 DEF Given
<1>6. \A n \in Namespaces : Given(sizes, MaxSize)[n] = sizes[n]
  BY <1>5
<1>7. Len(s) = SumFunction(sizes)
  <2>1. SumFunctionOnSet(Given(sizes, MaxSize), Namespaces) = SumFunctionOnSet(sizes, Namespaces)
    BY <1>2, <1>6, SumAgrees
  <2>2. SumFunction(sizes) = SumFunctionOnSet(sizes, Namespaces)
    BY <1>2, Zenon DEF SumFunction, FoldFunction, SumFunctionOnSet
  <2> QED
    BY <1>2, <1>4, <2>1, <2>2 DEF RoundsMake
<1>8. \A n \in Namespaces : /\ Places(f, n) = PlacesIn(s, n)
                            /\ Served(f, n) = Cardinality(FirstPlaces(s, n, scheduled[f]))
  BY <1>3, Zenon DEF Places, Served, PlacesIn, FirstPlaces
<1>9. scheduled[f] \in Nat
  BY MaxEligibleType DEF TypeOK
<1>10. ASSUME NEW n \in Namespaces, NEW m \in Namespaces,
              Served(f, n) < Cardinality(Places(f, n))
       PROVE  Served(f, m) <= Served(f, n) + 1
  <2>1. Cardinality(Places(f, n)) = Given(sizes, MaxSize)[n]
    BY <1>2, <1>4, <1>8 DEF RoundsMake
  <2>2. DOMAIN Given(sizes, MaxSize) = Namespaces
    BY <1>5
  <2> QED
    BY <1>4, <1>8, <1>9, <1>10, <2>1, <2>2 DEF RoundsMake, InTurn
<1> QED
  BY <1>1, <1>3, <1>7, <1>10
-----------------------------------------------------------------------------
(* The planner.  What each prompt may rely on, and what the two lists of   *)
(* exact reads have in common.                                             *)
Reads == [program : Nat, code : Nat, automatic : BOOLEAN]
Steps == {"edit", "operations", "customize", "descriptions", "groups", "registers",
          "instances", "confirm", "returned", "interrupted"}

KindSound(k) ==
  k.present \subseteq k.range /\ (k.water => 2 \in k.range) /\ "custom" \notin k.admit

PlanTypes ==
  /\ \A g \in Groups : KindSound(kind[g])
  /\ exact \in BOOLEAN
  /\ step \in Steps /\ edits \in Nat /\ preset \in Edit!Presets
  /\ on \in [Groups -> BOOLEAN] /\ byHand \in SUBSET Groups
  /\ DOMAIN scope = Groups /\ DOMAIN chosen = Groups
  /\ policy \in [Edit!Classes -> [source : Edit!Sources, override : BOOLEAN]]

(* A group off the plan may keep instances of an earlier choice once the   *)
(* groups are asked for, but cannot come back on.                          *)
MayComeOn(g) == on[g] \/ step \in {"edit", "operations", "customize", "descriptions", "groups"}
SlotsInv ==
  \A g \in Groups :
    /\ chosen[g] \subseteq kind[g].range \cup kind[g].given
    /\ g \notin byHand /\ MayComeOn(g) =>
         chosen[g] \subseteq kind[g].present \cup {0} \cup Edit!Water(kind[g])
    /\ step \notin {"edit", "interrupted"} /\ on[g] => scope[g] # Edit!NoScope

RecommendedInv ==
  /\ step \in {"groups", "registers", "instances"} => preset = "custom"
  /\ edits = 0 /\ preset = "recommended" =>
       \A g \in Groups : on[g] => /\ Edit!Planned(g, preset)
                                  /\ \E x \in kind[g].range : x \in chosen[g]

PolicyInv ==
  \A c \in Edit!Classes : ~policy[c].override => policy[c].source = Edit!Source(preset, exact)

(* One mark per read, no read twice, an automatic program in or out whole. *)
ReadsSound(req, sel) ==
  /\ req \in Seq(Reads) /\ sel \in Seq(BOOLEAN) /\ Len(sel) = Len(req)
  /\ \A i, j \in 1..Len(req) :
       req[i].program = req[j].program /\ req[i].code = req[j].code => i = j
  /\ \A i, j \in 1..Len(req) :
       req[i].program = req[j].program /\ sel[i] # sel[j] =>
         \E k \in 1..Len(req) : req[k].program = req[i].program /\ ~ req[k].automatic

PlanInv ==
  PlanTypes /\ SlotsInv /\ RecommendedInv /\ PolicyInv /\ ReadsSound(requests, selection)

(* The operators of the planner's module and those of this one.            *)
LEMMA SameCount == \A S : Edit!Cardinality(S) = Cardinality(S)
BY Zenon DEF Cardinality, Edit!Cardinality, IsFiniteSet, Edit!IsFiniteSet

LEMMA AscendingGives ==
  ASSUME NEW C \in SUBSET Nat, IsFiniteSet(C)
  PROVE  /\ Edit!Ascending(C) \in [1..Cardinality(C) -> C]
         /\ Rising(Edit!Ascending(C))
<1>1. \E t \in [1..Cardinality(C) -> C] : Rising(t)
  BY RisingExists
<1>2. Edit!Ascending(C) = CHOOSE t \in [1..Cardinality(C) -> C] : Rising(t)
  BY SameCount, Zenon DEF Edit!Ascending, Rising
<1> QED
  BY <1>1, <1>2, Zenon

LEMMA InsertGives ==
  ASSUME NEW X, NEW s \in Seq(X), NEW t \in Seq(X), NEW k \in 0..Len(s)
  PROVE  /\ Edit!Insert(s, k, t) \in Seq(X)
         /\ Len(Edit!Insert(s, k, t)) = Len(s) + Len(t)
         /\ \A i \in 1..(Len(s) + Len(t)) :
              Edit!Insert(s, k, t)[i] = IF i <= k THEN s[i]
                                        ELSE IF i <= k + Len(t) THEN t[i - k]
                                        ELSE s[i - Len(t)]
<1>1. PICK n \in Nat : n = Len(s)
  OBVIOUS
<1>2. PICK m \in Nat : m = Len(t)
  OBVIOUS
<1>3. k \in 0..n /\ k \in Nat
  BY <1>1
<1>4. PICK a \in Seq(X) : a = SubSeq(s, 1, k) /\ Len(a) = k /\ \A i \in 1..k : a[i] = s[i]
  <2>1. \A i \in 1..k : s[i] \in X
    BY <1>1, <1>3
  <2>2. /\ SubSeq(s, 1, k) \in Seq(X)
        /\ Len(SubSeq(s, 1, k)) = IF 1 <= k THEN k - 1 + 1 ELSE 0
        /\ \A i \in 1..(k - 1 + 1) : SubSeq(s, 1, k)[i] = s[1 + i - 1]
    BY <1>3, <2>1, SubSeqProperties
  <2>3. k - 1 + 1 = k /\ (IF 1 <= k THEN k - 1 + 1 ELSE 0) = k /\ \A i \in 1..k : 1 + i - 1 = i
    BY <1>3
  <2> QED
    BY <2>2, <2>3
<1>5. PICK b \in Seq(X) : /\ b = SubSeq(s, k + 1, Len(s)) /\ Len(b) = n - k
                          /\ \A i \in 1..(n - k) : b[i] = s[k + i]
  <2>1. \A i \in (k + 1)..n : s[i] \in X
    BY <1>1, <1>3
  <2>2. /\ SubSeq(s, k + 1, n) \in Seq(X)
        /\ Len(SubSeq(s, k + 1, n)) = IF k + 1 <= n THEN n - (k + 1) + 1 ELSE 0
        /\ \A i \in 1..(n - (k + 1) + 1) : SubSeq(s, k + 1, n)[i] = s[k + 1 + i - 1]
    <3>1. k + 1 \in Int /\ n \in Int
      BY <1>3
    <3> QED
      BY <2>1, <3>1, SubSeqProperties
  <2>3. /\ n - (k + 1) + 1 = n - k /\ (IF k + 1 <= n THEN n - (k + 1) + 1 ELSE 0) = n - k
        /\ \A i \in 1..(n - k) : k + 1 + i - 1 = k + i
    BY <1>3
  <2>4. \A i \in 1..(n - k) : SubSeq(s, k + 1, n)[i] = s[k + i]
    BY <2>2, <2>3
  <2>5. Len(SubSeq(s, k + 1, n)) = n - k
    BY <2>2, <2>3
  <2> QED
    BY <1>1, <2>2, <2>4, <2>5
<1>6. Edit!Insert(s, k, t) = (a \o t) \o b
  BY <1>4, <1>5 DEF Edit!Insert
<1>7. PICK c \in Seq(X) : /\ c = a \o t /\ Len(c) = k + m
                          /\ \A i \in 1..(k + m) : c[i] = IF i <= k THEN a[i] ELSE t[i - k]
  <2>1. /\ a \o t \in Seq(X) /\ Len(a \o t) = Len(a) + Len(t)
        /\ \A i \in 1..(Len(a) + Len(t)) :
             (a \o t)[i] = IF i <= Len(a) THEN a[i] ELSE t[i - Len(a)]
    BY ConcatProperties
  <2>2. Len(a) + Len(t) = k + m /\ Len(a) = k
    BY <1>2, <1>4
  <2> QED
    BY <2>1, <2>2
<1>8. /\ c \o b \in Seq(X) /\ Len(c \o b) = n + m
      /\ \A i \in 1..(n + m) : (c \o b)[i] = IF i <= k + m THEN c[i] ELSE b[i - (k + m)]
  <2>1. /\ c \o b \in Seq(X) /\ Len(c \o b) = Len(c) + Len(b)
        /\ \A i \in 1..(Len(c) + Len(b)) :
             (c \o b)[i] = IF i <= Len(c) THEN c[i] ELSE b[i - Len(c)]
    BY ConcatProperties
  <2>2. Len(c) = k + m /\ Len(b) = n - k
    BY <1>5, <1>7
  <2>3. (k + m) + (n - k) = n + m
    BY <1>3
  <2> QED
    BY <2>1, <2>2, <2>3
<1>9. ASSUME NEW i \in 1..(n + m)
      PROVE  (c \o b)[i] = IF i <= k THEN s[i] ELSE IF i <= k + m THEN t[i - k] ELSE s[i - m]
  <2>1. CASE i <= k
    <3>1. i \in 1..k /\ i <= k + m /\ i \in 1..(k + m)
      BY <1>3, <2>1
    <3> QED
      BY <1>4, <1>7, <1>8, <2>1, <3>1
  <2>2. CASE ~ (i <= k) /\ i <= k + m
    <3>1. i \in 1..(k + m)
      BY <1>3, <2>2
    <3> QED
      BY <1>7, <1>8, <2>2, <3>1
  <2>3. CASE ~ (i <= k + m)
    <3>1. i - (k + m) \in 1..(n - k) /\ k + (i - (k + m)) = i - m /\ ~ (i <= k)
      BY <1>3, <2>3
    <3> QED
      BY <1>5, <1>8, <2>3, <3>1
  <2> QED
    BY <2>1, <2>2, <2>3
<1> QED
  BY <1>1, <1>2, <1>6, <1>7, <1>8, <1>9

(* The list after the reads of one program were replaced: n of the others, *)
(* in their order, with d new ones after the first lead of them.             *)
Replaced(s2, s, n, d, lead, kept, new) ==
  Len(s2) = n + d /\ \A i \in 1..(n + d) :
    s2[i] = IF i <= lead THEN s[kept[i]] ELSE IF i <= lead + d THEN new[i - lead] ELSE s[kept[i - d]]

Exchanged(req, sel, req2, sel2, p, W, n, d, lead, kept, codes, news, marks) ==
  /\ p \in Nat /\ n \in Nat /\ d \in Nat /\ lead \in 0..n
  /\ \A i : i \in W <=> i \in 1..Len(req) /\ req[i].program # p
  /\ \A i \in 1..n : kept[i] \in W
  /\ \A i, j \in 1..n : kept[i] = kept[j] => i = j
  /\ \A x \in W : \E i \in 1..n : kept[i] = x
  /\ \A i, j \in 1..d : codes[i] = codes[j] => i = j
  /\ \A i \in 1..d : news[i] = Edit!Read(p, codes[i], TRUE)
  /\ \A i, j \in 1..d : marks[i] = marks[j]
  /\ req2 \in Seq(Reads) /\ sel2 \in Seq(BOOLEAN)
  /\ Replaced(req2, req, n, d, lead, kept, news)
  /\ Replaced(sel2, sel, n, d, lead, kept, marks)

LEMMA ReplacedWhole ==
  ASSUME NEW req, NEW sel, NEW req2, NEW sel2, NEW p, NEW W, NEW n, NEW d, NEW lead,
         NEW kept, NEW codes, NEW news, NEW marks, ReadsSound(req, sel),
         Exchanged(req, sel, req2, sel2, p, W, n, d, lead, kept, codes, news, marks)
  PROVE  ReadsSound(req2, sel2)
<1> USE DEF Exchanged
<1> DEFINE new(i) == lead < i /\ i <= lead + d
           from(i) == IF i <= lead THEN kept[i] ELSE kept[i - d]
<1>1. Len(req2) = n + d /\ Len(sel2) = n + d
  BY DEF Replaced
<1>2. ASSUME NEW i \in 1..(n + d), new(i)
      PROVE  /\ i - lead \in 1..d /\ sel2[i] = marks[i - lead]
             /\ req2[i].program = p /\ req2[i].code = codes[i - lead]
  <2>1. i - lead \in 1..d /\ ~ (i <= lead)
    BY <1>2
  <2>2. req2[i] = Edit!Read(p, codes[i - lead], TRUE) /\ sel2[i] = marks[i - lead]
    BY <1>2, <2>1 DEF Replaced
  <2> QED
    BY <2>1, <2>2 DEF Edit!Read
<1>3. ASSUME NEW i \in 1..(n + d), ~ new(i)
      PROVE  /\ from(i) \in W /\ from(i) \in 1..Len(req)
             /\ req2[i] = req[from(i)] /\ sel2[i] = sel[from(i)]
             /\ req2[i].program # p
  <2>1. CASE i <= lead
    <3>1. i \in 1..n
      BY <2>1
    <3>2. req2[i] = req[kept[i]] /\ sel2[i] = sel[kept[i]]
      BY <2>1 DEF Replaced
    <3> QED
      BY <2>1, <3>1, <3>2
  <2>2. CASE ~ (i <= lead)
    <3>1. ~ (i <= lead + d) /\ i - d \in 1..n
      BY <1>3, <2>2
    <3>2. req2[i] = req[kept[i - d]] /\ sel2[i] = sel[kept[i - d]]
      BY <2>2, <3>1 DEF Replaced
    <3> QED
      BY <2>2, <3>1, <3>2
  <2> QED
    BY <2>1, <2>2
<1>4. ASSUME NEW i \in 1..(n + d), ~ new(i), NEW j \in 1..(n + d), ~ new(j),
             from(i) = from(j)
      PROVE  i = j
  <2> DEFINE x == IF i <= lead THEN i ELSE i - d
             y == IF j <= lead THEN j ELSE j - d
  <2>1. x \in 1..n
    <3>1. CASE i <= lead
      BY <3>1
    <3>2. CASE ~ (i <= lead)
      <4>1. ~ (i <= lead + d)
        BY <1>4, <3>2
      <4> QED
        BY <3>2, <4>1
    <3> QED
      BY <3>1, <3>2
  <2>2. y \in 1..n
    <3>1. CASE j <= lead
      BY <3>1
    <3>2. CASE ~ (j <= lead)
      <4>1. ~ (j <= lead + d)
        BY <1>4, <3>2
      <4> QED
        BY <3>2, <4>1
    <3> QED
      BY <3>1, <3>2
  <2>3. from(i) = kept[x] /\ from(j) = kept[y]
    OBVIOUS
  <2>4. x = y
    <3> HIDE DEF x, y
    <3> QED
      BY <1>4, <2>1, <2>2, <2>3
  <2>5. (i <= lead \/ ~ (i <= lead + d)) /\ (j <= lead \/ ~ (j <= lead + d))
    BY <1>4
  <2> QED
    BY <2>4, <2>5
<1>5. ASSUME NEW x \in W
      PROVE  \E i \in 1..(n + d) : ~ new(i) /\ from(i) = x
  <2>1. PICK k \in 1..n : kept[k] = x
    OBVIOUS
  <2>2. CASE k <= lead
    <3>1. k \in 1..(n + d) /\ ~ new(k) /\ from(k) = kept[k]
      BY <2>2
    <3> QED
      BY <2>1, <3>1
  <2>3. CASE ~ (k <= lead)
    <3>1. k + d \in 1..(n + d) /\ ~ new(k + d) /\ ~ (k + d <= lead) /\ (k + d) - d = k
      BY <2>3
    <3> QED
      BY <2>1, <3>1
  <2> QED
    BY <2>2, <2>3
<1> HIDE DEF new, from
<1>6. ASSUME NEW i \in 1..(n + d), NEW j \in 1..(n + d),
             req2[i].program = req2[j].program, req2[i].code = req2[j].code
      PROVE  i = j
  <2>1. CASE new(i)
    <3>1. new(j)
      BY <1>2, <1>3, <1>6, <2>1
    <3>2. codes[i - lead] = codes[j - lead] /\ i - lead \in 1..d /\ j - lead \in 1..d
      BY <1>2, <1>6, <2>1, <3>1
    <3>3. i - lead = j - lead
      BY <3>2
    <3> QED
      BY <3>3
  <2>2. CASE ~ new(i)
    <3>1. ~ new(j)
      BY <1>2, <1>3, <1>6, <2>2
    <3>2. /\ from(i) \in 1..Len(req) /\ req2[i] = req[from(i)]
          /\ from(j) \in 1..Len(req) /\ req2[j] = req[from(j)]
      BY <1>3, <2>2, <3>1
    <3>3. \A a, b \in 1..Len(req) :
            req[a].program = req[b].program /\ req[a].code = req[b].code => a = b
      BY DEF ReadsSound
    <3>4. from(i) = from(j)
      BY <1>6, <3>2, <3>3
    <3> QED
      BY <1>4, <2>2, <3>1, <3>4
  <2> QED
    BY <2>1, <2>2
<1>7. ASSUME NEW i \in 1..(n + d), NEW j \in 1..(n + d),
             req2[i].program = req2[j].program, sel2[i] # sel2[j]
      PROVE  \E k \in 1..(n + d) : req2[k].program = req2[i].program /\ ~ req2[k].automatic
  <2>1. ~ new(i) /\ ~ new(j)
    <3>1. CASE new(i)
      <4>1. new(j)
        BY <1>2, <1>3, <1>7, <3>1
      <4>2. sel2[i] = marks[i - lead] /\ sel2[j] = marks[j - lead]
        BY <1>2, <3>1, <4>1
      <4>3. i - lead \in 1..d /\ j - lead \in 1..d
        BY <1>2, <3>1, <4>1
      <4> QED
        BY <1>7, <4>2, <4>3
    <3>2. CASE new(j)
      <4>1. new(i)
        BY <1>2, <1>3, <1>7, <3>2
      <4> QED
        BY <3>1, <4>1
    <3>3. CASE ~ new(i) /\ ~ new(j)
      BY <3>3
    <3> QED
      BY <3>1, <3>2, <3>3
  <2>2. /\ from(i) \in 1..Len(req) /\ from(j) \in 1..Len(req)
        /\ req[from(i)].program = req[from(j)].program /\ sel[from(i)] # sel[from(j)]
        /\ req[from(i)].program = req2[i].program /\ req2[i].program # p
    BY <1>3, <1>7, <2>1
  <2>3. PICK k \in 1..Len(req) : req[k].program = req2[i].program /\ ~ req[k].automatic
    BY <2>2 DEF ReadsSound
  <2>4. k \in W
    BY <2>2, <2>3
  <2>5. PICK h \in 1..(n + d) : ~ new(h) /\ from(h) = k
    BY <1>5, <2>4
  <2>6. req2[h] = req[k]
    BY <1>3, <2>5
  <2> QED
    BY <2>3, <2>6
<1> QED
  BY <1>1, <1>6, <1>7 DEF ReadsSound

LEMMA IsList ==
  ASSUME NEW X, NEW n \in Nat, NEW f \in [1..n -> X]
  PROVE  f \in Seq(X) /\ Len(f) = n
OBVIOUS

(* What is taken out leaves the others in their order.                     *)
Others(s, I) == DOMAIN s \ I
Kept(s, I) == Edit!Ascending(Others(s, I))
LEMMA WithoutGives ==
  ASSUME NEW X, NEW s \in Seq(X), NEW I
  PROVE  /\ Others(s, I) \in SUBSET (1..Len(s))
         /\ IsFiniteSet(Others(s, I)) /\ Cardinality(Others(s, I)) \in Nat
         /\ Kept(s, I) \in [1..Cardinality(Others(s, I)) -> Others(s, I)] /\ Rising(Kept(s, I))
         /\ Edit!Without(s, I) \in Seq(X)
         /\ Len(Edit!Without(s, I)) = Cardinality(Others(s, I))
         /\ \A i \in 1..Cardinality(Others(s, I)) : Edit!Without(s, I)[i] = s[Kept(s, I)[i]]
<1> DEFINE W == Others(s, I)
           kept == Kept(s, I)
<1>1. W \in SUBSET (1..Len(s)) /\ W \in SUBSET Nat
  BY DEF Others
<1>0. kept = Edit!Ascending(W)
  BY DEF Kept
<1>2. IsFiniteSet(W)
  <2>1. IsFiniteSet(1..Len(s))
    BY FS_Interval
  <2> QED
    BY <1>1, <2>1, FS_Subset
<1>3. PICK n \in Nat : n = Cardinality(W)
  BY <1>2, FS_CardinalityType
<1>4. kept \in [1..n -> W] /\ Rising(kept)
  BY <1>0, <1>1, <1>2, <1>3, AscendingGives
<1>5. Edit!Without(s, I) = [i \in 1..n |-> s[kept[i]]]
  <2>1. Edit!Without(s, I) = [i \in DOMAIN kept |-> s[kept[i]]]
    BY Zenon DEF Edit!Without, Kept, Others
  <2> QED
    BY <1>4, <2>1
<1>6. \A i \in 1..n : s[kept[i]] \in X
  <2> SUFFICES ASSUME NEW i \in 1..n
               PROVE  s[kept[i]] \in X
    OBVIOUS
  <2>1. kept[i] \in 1..Len(s)
    BY <1>1, <1>4
  <2> QED
    BY <2>1
<1>7. [i \in 1..n |-> s[kept[i]]] \in [1..n -> X]
  BY <1>6
<1>8. /\ [i \in 1..n |-> s[kept[i]]] \in Seq(X)
      /\ Len([i \in 1..n |-> s[kept[i]]]) = n
  BY <1>7, IsList
<1>9. \A i \in 1..n : Edit!Without(s, I)[i] = s[kept[i]]
  BY <1>5
<1>10. Edit!Without(s, I) \in Seq(X) /\ Len(Edit!Without(s, I)) = n
  BY <1>5, <1>8, Zenon
<1> QED
  BY <1>1, <1>2, <1>3, <1>4, <1>9, <1>10

LEMMA ReplaceKeeps ==
  ASSUME ReadsSound(requests, selection), NEW p \in Edit!Programs,
         NEW C \in SUBSET Nat, IsFiniteSet(C), Edit!ReplaceCodes(p, C)
  PROVE  ReadsSound(requests', selection')
<1> DEFINE I == Edit!Of(p)
           W == (DOMAIN requests) \ I
           kept == Edit!Ascending(W)
           codes == Edit!Ascending(C)
           lead == Edit!Min(I) - 1
           mark == \A i \in I : selection[i]
           news == [i \in DOMAIN codes |-> Edit!Read(p, codes[i], TRUE)]
           marks == [i \in DOMAIN codes |-> \A j \in I : selection[j]]
<1>1. /\ requests \in Seq(Reads) /\ selection \in Seq(BOOLEAN) /\ Len(selection) = Len(requests)
      /\ DOMAIN requests = 1..Len(requests) /\ DOMAIN selection = DOMAIN requests
  BY DEF ReadsSound
<1>2. /\ requests' = Edit!Insert(Edit!Without(requests, I), lead, news)
      /\ selection' = Edit!Insert(Edit!Without(selection, I), lead, marks)
  BY Zenon DEF Edit!ReplaceCodes
<1>3. PICK n \in Nat : n = Cardinality(W)
  <2>1. W \in SUBSET (1..Len(requests)) /\ IsFiniteSet(1..Len(requests))
    BY <1>1, FS_Interval
  <2> QED
    BY <2>1, FS_Subset, FS_CardinalityType
<1>4. PICK d \in Nat : d = Cardinality(C)
  BY FS_CardinalityType
<1>5. /\ kept \in [1..n -> W] /\ Rising(kept) /\ W \in SUBSET (1..Len(requests))
      /\ Edit!Without(requests, I) \in Seq(Reads) /\ Len(Edit!Without(requests, I)) = n
      /\ \A i \in 1..n : Edit!Without(requests, I)[i] = requests[kept[i]]
  <2>1. W = Others(requests, I) /\ kept = Kept(requests, I) /\ requests \in Seq(Reads)
    BY <1>1 DEF Others, Kept
  <2> HIDE DEF W, kept, I
  <2> QED
    BY <1>3, <2>1, WithoutGives
<1>6. /\ Edit!Without(selection, I) \in Seq(BOOLEAN) /\ Len(Edit!Without(selection, I)) = n
      /\ \A i \in 1..n : Edit!Without(selection, I)[i] = selection[kept[i]]
  <2>1. W = Others(selection, I) /\ kept = Kept(selection, I) /\ selection \in Seq(BOOLEAN)
    BY <1>1 DEF Others, Kept
  <2> HIDE DEF W, kept, I
  <2> QED
    BY <1>3, <2>1, WithoutGives
<1>7. codes \in [1..d -> C] /\ Rising(codes) /\ DOMAIN codes = 1..d
  <2>1. codes \in [1..d -> C] /\ Rising(codes)
    BY <1>4, AscendingGives
  <2> QED
    BY <2>1
<1>8. W = {i \in 1..Len(requests) : requests[i].program # p} /\ I \in SUBSET (1..Len(requests))
  BY <1>1 DEF Edit!Of
<1>9. p \in Nat /\ I # {}
  <2>1. PICK i \in DOMAIN requests : p = requests[i].program
    BY DEF Edit!Programs
  <2>2. requests[i] \in Reads
    BY <1>1, <2>1
  <2>3. i \in I
    BY <2>1 DEF Edit!Of
  <2> QED
    BY <2>1, <2>2, <2>3 DEF Reads
<1>10. lead \in 0..n
  <2>1. PICK m \in I : \A x \in I : m <= x
    <3>1. I \in SUBSET Nat
      BY <1>8
    <3> QED
      BY <1>9, <3>1, LeastNumber
  <2>2. Edit!Min(I) \in I /\ \A x \in I : Edit!Min(I) <= x
    BY <2>1 DEF Edit!Min
  <2>3. PICK q \in Nat : q = lead /\ Edit!Min(I) = q + 1
    BY <1>8, <2>2
  <2>4. ASSUME NEW x \in 1..q
        PROVE  x \in W
    <3>1. x \in 1..Len(requests) /\ x < Edit!Min(I)
      BY <1>8, <2>2, <2>3
    <3>2. x \notin I
      <4> SUFFICES ASSUME x \in I
                   PROVE  FALSE
        OBVIOUS
      <4>1. q + 1 <= x
        BY <2>2, <2>3
      <4> QED
        BY <4>1
    <3> QED
      BY <1>1, <3>1, <3>2
  <2>5. Cardinality(1..q) <= Cardinality(W)
    <3>1. 1..q \in SUBSET W
      BY <2>4
    <3>2. IsFiniteSet(W)
      <4>1. IsFiniteSet(1..Len(requests))
        BY <1>1, FS_Interval
      <4> QED
        BY <1>5, <4>1, FS_Subset
    <3> QED
      BY <3>1, <3>2, FS_Subset
  <2>6. Cardinality(1..q) = q
    <3>1. Cardinality(1..q) = IF 1 > q THEN 0 ELSE q - 1 + 1
      <4>1. 1 \in Int /\ q \in Int
        BY <2>3
      <4> QED
        BY <4>1, FS_Interval
    <3> QED
      BY <2>3, <3>1
  <2> QED
    BY <1>3, <2>3, <2>5, <2>6
<1>11. /\ \A i, j \in 1..n : kept[i] = kept[j] => i = j
       /\ \A x \in W : \E i \in 1..n : kept[i] = x
       /\ \A i, j \in 1..d : codes[i] = codes[j] => i = j
  <2>1. W \in SUBSET Nat /\ IsFiniteSet(W)
    <3>1. IsFiniteSet(1..Len(requests))
      BY <1>1, FS_Interval
    <3> QED
      BY <1>5, <3>1, FS_Subset
  <2>2. kept \in [1..Cardinality(W) -> W] /\ Rising(kept)
    BY <1>3, <1>5
  <2>3. codes \in [1..Cardinality(C) -> C] /\ Rising(codes)
    BY <1>4, <1>7
  <2> HIDE DEF kept, codes, W
  <2>4. /\ \A i, j \in 1..n : kept[i] = kept[j] => i = j
        /\ \A x \in W : \E i \in 1..n : kept[i] = x
    BY <1>3, <2>1, <2>2, RisingOnce
  <2>5. \A i, j \in 1..d : codes[i] = codes[j] => i = j
    BY <1>4, <2>3, RisingOnce
  <2> QED
    BY <2>4, <2>5
<1>12. mark \in BOOLEAN
  OBVIOUS
<1>13. /\ news = [i \in 1..d |-> Edit!Read(p, codes[i], TRUE)]
       /\ marks = [i \in 1..d |-> mark]
  BY <1>7, Zenon
<1> HIDE DEF I, W, kept, codes, lead, mark, news, marks
<1>14. news \in Seq(Reads) /\ Len(news) = d
  <2>1. \A i \in 1..d : Edit!Read(p, codes[i], TRUE) \in Reads
    BY <1>7, <1>9 DEF Edit!Read, Reads
  <2>2. news \in [1..d -> Reads]
    BY <1>13, <2>1
  <2> QED
    BY <2>2, IsList
<1>15. marks \in Seq(BOOLEAN) /\ Len(marks) = d
  <2>1. marks \in [1..d -> BOOLEAN]
    BY <1>12, <1>13
  <2> QED
    BY <2>1, IsList
<1>16. requests' \in Seq(Reads) /\ Replaced(requests', requests, n, d, lead, kept, news)
  <2> DEFINE w == Edit!Without(requests, I)
  <2>1. /\ Edit!Insert(w, lead, news) \in Seq(Reads)
        /\ Len(Edit!Insert(w, lead, news)) = Len(w) + Len(news)
        /\ \A i \in 1..(Len(w) + Len(news)) :
             Edit!Insert(w, lead, news)[i] =
               IF i <= lead THEN w[i] ELSE IF i <= lead + Len(news) THEN news[i - lead]
               ELSE w[i - Len(news)]
    <3>1. w \in Seq(Reads) /\ lead \in 0..Len(w)
      BY <1>5, <1>10
    <3> HIDE DEF w
    <3> QED
      BY <1>14, <3>1, InsertGives
  <2>2. /\ requests' \in Seq(Reads) /\ Len(requests') = n + d
        /\ \A i \in 1..(n + d) :
             requests'[i] = IF i <= lead THEN w[i] ELSE IF i <= lead + d THEN news[i - lead]
                            ELSE w[i - d]
    BY <1>2, <1>5, <1>14, <2>1
  <2>3. \A i \in 1..n : w[i] = requests[kept[i]]
    BY <1>5
  <2> HIDE DEF w
  <2>4. \A i \in 1..(n + d) : /\ i <= lead => i \in 1..n
                              /\ ~ (i <= lead + d) => i - d \in 1..n /\ ~ (i <= lead)
    BY <1>10
  <2> QED
    BY <2>2, <2>3, <2>4 DEF Replaced
<1>17. selection' \in Seq(BOOLEAN) /\ Replaced(selection', selection, n, d, lead, kept, marks)
  <2> DEFINE w == Edit!Without(selection, I)
  <2>1. /\ Edit!Insert(w, lead, marks) \in Seq(BOOLEAN)
        /\ Len(Edit!Insert(w, lead, marks)) = Len(w) + Len(marks)
        /\ \A i \in 1..(Len(w) + Len(marks)) :
             Edit!Insert(w, lead, marks)[i] =
               IF i <= lead THEN w[i] ELSE IF i <= lead + Len(marks) THEN marks[i - lead]
               ELSE w[i - Len(marks)]
    <3>1. w \in Seq(BOOLEAN) /\ lead \in 0..Len(w)
      BY <1>6, <1>10
    <3> HIDE DEF w
    <3> QED
      BY <1>15, <3>1, InsertGives
  <2>2. /\ selection' \in Seq(BOOLEAN) /\ Len(selection') = n + d
        /\ \A i \in 1..(n + d) :
             selection'[i] = IF i <= lead THEN w[i] ELSE IF i <= lead + d THEN marks[i - lead]
                             ELSE w[i - d]
    BY <1>2, <1>6, <1>15, <2>1
  <2>3. \A i \in 1..n : w[i] = selection[kept[i]]
    BY <1>6
  <2> HIDE DEF w
  <2>4. \A i \in 1..(n + d) : /\ i <= lead => i \in 1..n
                              /\ ~ (i <= lead + d) => i - d \in 1..n /\ ~ (i <= lead)
    BY <1>10
  <2> QED
    BY <2>2, <2>3, <2>4 DEF Replaced
<1>19. /\ \A i \in 1..d : news[i] = Edit!Read(p, codes[i], TRUE)
       /\ \A i, j \in 1..d : marks[i] = marks[j]
  BY <1>13
<1>20. (\A i \in 1..n : kept[i] \in W) /\ \A i : i \in W <=> i \in 1..Len(requests) /\ requests[i].program # p
  BY <1>5, <1>8
<1> QED
  <2>1. ReadsSound(requests, selection) /\ p \in Nat /\ n \in Nat /\ d \in Nat
    BY <1>9
  <2>2. \A i : i \in W <=> i \in 1..Len(requests) /\ requests[i].program # p
    BY <1>20
  <2>3. requests' \in Seq(Reads) /\ selection' \in Seq(BOOLEAN)
    BY <1>16, <1>17
  <2>4. /\ Replaced(requests', requests, n, d, lead, kept, news)
        /\ Replaced(selection', selection, n, d, lead, kept, marks)
    BY <1>16, <1>17
  <2>5. \A i \in 1..n : kept[i] \in W
    BY <1>20
  <2>6. Exchanged(requests, selection, requests', selection', p, W, n, d, lead, kept, codes,
                  news, marks)
    BY <1>10, <1>11, <1>19, <2>1, <2>2, <2>3, <2>4, <2>5, Zenon DEF Exchanged
  <2> QED
    BY <2>1, <2>6, ReplacedWhole, Zenon

LEMMA AddKeeps ==
  ASSUME ReadsSound(requests, selection), NEW p \in Nat, NEW c \in Nat, Edit!AddRead(p, c)
  PROVE  ReadsSound(requests', selection')
<1>1. PICK n \in Nat : n = Len(requests) /\ n = Len(selection)
  BY DEF ReadsSound
<1>2. PICK r \in Reads : r = Edit!Read(p, c, FALSE)
  BY DEF Edit!Read, Reads
<1>3. r.program = p /\ r.code = c /\ ~ r.automatic
  BY <1>2 DEF Edit!Read
<1>4. /\ requests' \in Seq(Reads) /\ Len(requests') = n + 1
      /\ requests'[n + 1] = r /\ \A i \in 1..n : requests'[i] = requests[i]
  <2>1. requests' = Append(requests, r) /\ requests \in Seq(Reads)
    BY <1>2 DEF Edit!AddRead, ReadsSound
  <2>2. /\ Append(requests, r) \in Seq(Reads) /\ Len(Append(requests, r)) = Len(requests) + 1
        /\ \A i \in 1..Len(requests) : Append(requests, r)[i] = requests[i]
        /\ Append(requests, r)[Len(requests) + 1] = r
    BY <2>1, AppendProperties
  <2> QED
    BY <1>1, <2>1, <2>2
<1>5. /\ selection' \in Seq(BOOLEAN) /\ Len(selection') = n + 1
      /\ \A i \in 1..n : selection'[i] = selection[i]
  <2>1. selection' = Append(selection, TRUE) /\ selection \in Seq(BOOLEAN)
    BY DEF Edit!AddRead, ReadsSound
  <2>2. /\ Append(selection, TRUE) \in Seq(BOOLEAN)
        /\ Len(Append(selection, TRUE)) = Len(selection) + 1
        /\ \A i \in 1..Len(selection) : Append(selection, TRUE)[i] = selection[i]
    BY <2>1, AppendProperties
  <2> QED
    BY <1>1, <2>1, <2>2
<1>6. \A i \in 1..n : ~ (requests[i].program = p /\ requests[i].code = c)
  BY <1>1 DEF Edit!AddRead, ReadsSound
<1>7. /\ \A i, j \in 1..n :
           requests[i].program = requests[j].program /\ requests[i].code = requests[j].code => i = j
      /\ \A i, j \in 1..n :
           requests[i].program = requests[j].program /\ selection[i] # selection[j] =>
             \E k \in 1..n : requests[k].program = requests[i].program /\ ~ requests[k].automatic
  BY <1>1 DEF ReadsSound
<1>8. \A i \in 1..(n + 1) : i \in 1..n \/ i = n + 1
  OBVIOUS
<1>9. ASSUME NEW i \in 1..(n + 1), NEW j \in 1..(n + 1),
             requests'[i].program = requests'[j].program, requests'[i].code = requests'[j].code
      PROVE  i = j
  <2>1. CASE i \in 1..n /\ j \in 1..n
    BY <1>4, <1>7, <1>9, <2>1
  <2>2. CASE i = n + 1 /\ j \in 1..n
    BY <1>3, <1>4, <1>6, <1>9, <2>2
  <2>3. CASE i \in 1..n /\ j = n + 1
    BY <1>3, <1>4, <1>6, <1>9, <2>3
  <2> QED
    BY <1>8, <2>1, <2>2, <2>3
<1>10. ASSUME NEW i \in 1..(n + 1), NEW j \in 1..(n + 1),
              requests'[i].program = requests'[j].program, selection'[i] # selection'[j]
       PROVE  \E k \in 1..(n + 1) :
                requests'[k].program = requests'[i].program /\ ~ requests'[k].automatic
  <2>1. n + 1 \in 1..(n + 1) /\ \A k \in 1..n : k \in 1..(n + 1)
    OBVIOUS
  <2>2. CASE requests'[i].program = p
    BY <1>3, <1>4, <2>1, <2>2
  <2>3. CASE requests'[i].program # p
    <3>1. i \in 1..n /\ j \in 1..n
      BY <1>3, <1>4, <1>8, <1>10, <2>3
    <3>2. PICK k \in 1..n :
            requests[k].program = requests[i].program /\ ~ requests[k].automatic
      BY <1>4, <1>5, <1>7, <1>10, <3>1
    <3> QED
      BY <1>4, <2>1, <3>1, <3>2
  <2> QED
    BY <2>2, <2>3
<1> QED
  BY <1>4, <1>5, <1>9, <1>10 DEF ReadsSound

(* Marks given to whole programs.                                          *)
LEMMA MarksKeep ==
  ASSUME ReadsSound(requests, selection), requests' = requests,
         NEW marks \in [DOMAIN requests -> BOOLEAN], selection' = marks,
         \A i, j \in DOMAIN requests :
           requests[i].program = requests[j].program /\ marks[i] # marks[j] =>
             selection[i] # selection[j]
  PROVE  ReadsSound(requests', selection')
<1>1. PICK n \in Nat : n = Len(requests) /\ DOMAIN requests = 1..n
  BY DEF ReadsSound
<1>2. marks \in Seq(BOOLEAN) /\ Len(marks) = n
  <2>1. marks \in [1..n -> BOOLEAN]
    BY <1>1
  <2> QED
    BY <2>1
<1> QED
  BY <1>1, <1>2 DEF ReadsSound

LEMMA ToggleKeeps ==
  ASSUME ReadsSound(requests, selection), NEW p, Edit!ToggleProgram(p)
  PROVE  ReadsSound(requests', selection')
<1> DEFINE all == \A i \in Edit!Of(p) : selection[i]
           marks == [i \in DOMAIN requests |-> IF i \in Edit!Of(p) THEN ~all ELSE selection[i]]
<1>1. requests' = requests /\ selection' = marks
  BY Zenon DEF Edit!ToggleProgram
<1>2. \A i \in DOMAIN requests : selection[i] \in BOOLEAN
  BY DEF ReadsSound
<1>3. all \in BOOLEAN
  OBVIOUS
<1> HIDE DEF all
<1>4. \A i \in DOMAIN requests : (IF i \in Edit!Of(p) THEN ~all ELSE selection[i]) \in BOOLEAN
  BY <1>2, <1>3, Zenon
<1>5. marks \in [DOMAIN requests -> BOOLEAN]
  BY <1>4
<1>6. \A i, j \in DOMAIN requests :
        requests[i].program = requests[j].program => (i \in Edit!Of(p) <=> j \in Edit!Of(p))
  BY DEF Edit!Of
<1>7. \A i, j \in DOMAIN requests :
        requests[i].program = requests[j].program /\ marks[i] # marks[j] =>
          selection[i] # selection[j]
  BY <1>6, Zenon
<1> HIDE DEF marks
<1> QED
  BY <1>1, <1>5, <1>7, MarksKeep

LEMMA ReadsStep ==
  ASSUME ReadsSound(requests, selection), Edit!Next
  PROVE  ReadsSound(requests', selection')
<1>1. CASE Edit!EditReads
  <2>1. MaxCode \in Nat
    BY ScanConstants DEF ScanConstants, Edit!PlannerConstants
  <2>2. IsFiniteSet(0..MaxCode) /\ 0..MaxCode \in SUBSET Nat
    BY <2>1, FS_Interval
  <2>3. ASSUME NEW p \in Edit!Programs, NEW C \in SUBSET (0..MaxCode), Edit!ReplaceCodes(p, C)
        PROVE  ReadsSound(requests', selection')
    <3>1. C \in SUBSET Nat /\ IsFiniteSet(C)
      BY <2>2, FS_Subset
    <3> QED
      BY <2>3, <3>1, ReplaceKeeps
  <2>4. ASSUME NEW p \in 1..2, NEW c \in 0..MaxCode, Edit!AddRead(p, c)
        PROVE  ReadsSound(requests', selection')
    BY <2>1, <2>4, AddKeeps
  <2> QED
    BY <1>1, <2>3, <2>4, Zenon DEF Edit!EditReads
<1>2. CASE \E p \in Edit!Programs : Edit!ToggleProgram(p)
  BY <1>2, ToggleKeeps
<1>3. CASE UNCHANGED <<requests, selection>>
  BY <1>3
<1>4. CASE /\ requests' = requests
           /\ \E P \in SUBSET Edit!Programs :
                selection' = [i \in DOMAIN requests |-> requests[i].program \in P]
  <2>1. PICK P : selection' = [i \in DOMAIN requests |-> requests[i].program \in P]
    BY <1>4
  <2> DEFINE marks == [i \in DOMAIN requests |-> requests[i].program \in P]
  <2>2. marks \in [DOMAIN requests -> BOOLEAN]
    OBVIOUS
  <2>3. \A i, j \in DOMAIN requests :
          requests[i].program = requests[j].program /\ marks[i] # marks[j] =>
            selection[i] # selection[j]
    BY Zenon
  <2> HIDE DEF marks
  <2> QED
    BY <1>4, <2>1, <2>2, <2>3, MarksKeep DEF marks
<1>5. \/ Edit!EditReads \/ (\E p \in Edit!Programs : Edit!ToggleProgram(p))
      \/ UNCHANGED <<requests, selection>>
      \/ /\ requests' = requests
         /\ \E P \in SUBSET Edit!Programs :
              selection' = [i \in DOMAIN requests |-> requests[i].program \in P]
  BY DEF Edit!Next, Edit!TextualEdit, Edit!Save, Edit!Quit, Edit!AskOperations, Edit!Decline,
         Edit!AskPreset, Edit!AskDescriptions, Edit!AskGroups, Edit!AskRegisters,
         Edit!AskInstances, Edit!Proceed, Edit!Replan, Edit!reads
<1> QED
  BY <1>1, <1>2, <1>3, <1>4, <1>5

(* What discovery can have said of a group, and an explicit plan of it.    *)
LEMMA KindFacts ==
  ASSUME NEW k \in Edit!Kinds
  PROVE  KindSound(k)
<1>1. CASE k \in [range : {{0}}, present : {{}}, admit : {{"recommended", "full", "research"}},
                  top : {1}, water : {FALSE}, shown : BOOLEAN, given : {{}}]
  <2>1. k.range = {0} /\ k.present = {} /\ k.water = FALSE
        /\ k.admit = {"recommended", "full", "research"}
    BY <1>1
  <2> QED
    BY <2>1 DEF KindSound
<1>2. CASE k \in [range : {{1, 2}}, present : {{}, {1}},
                  admit : {{"recommended", "full", "research"}},
                  top : {1}, water : BOOLEAN, shown : {TRUE}, given : {{}}]
  <2>1. k.range = {1, 2} /\ k.present \in {{}, {1}}
        /\ k.admit = {"recommended", "full", "research"}
    BY <1>2
  <2> QED
    BY <2>1 DEF KindSound
<1>3. CASE k \in [range : {{1, 2}}, present : {{}, {1}}, admit : {{"research"}}, top : {99},
                  water : {FALSE}, shown : {FALSE}, given : {{}}]
  <2>1. k.range = {1, 2} /\ k.present \in {{}, {1}} /\ k.admit = {"research"} /\ k.water = FALSE
    BY <1>3
  <2> QED
    BY <2>1 DEF KindSound
<1> QED
  BY <1>1, <1>2, <1>3, Zenon DEF Edit!Kinds

(* A group the explicit plan names is sound and has what it names.         *)
LEMMA AskedKind ==
  ASSUME NEW k \in Edit!Kinds, NEW s, NEW I
  PROVE  KindSound(Edit!Asked(k, s, I)) /\ Edit!Asked(k, s, I).given = I
<1> DEFINE a == Edit!Asked(k, s, I)
<1>1. DOMAIN k = {"range", "present", "admit", "top", "water", "shown", "given"}
  BY DEF Edit!Kinds
<1>2. /\ a.present = I \cap k.range /\ a.range = k.range /\ a.water = k.water
      /\ a.admit = k.admit /\ a.given = I
  BY <1>1 DEF Edit!Asked
<1> HIDE DEF a
<1>3. KindSound(k)
  BY KindFacts
<1>4. KindSound(a)
  BY <1>2, <1>3 DEF KindSound
<1> QED
  BY <1>2, <1>4 DEF a

LEMMA PresetFacts ==
  ASSUME NEW g \in Groups, KindSound(kind[g]), NEW p
  PROVE  /\ Edit!PresetInstances(g, p) \subseteq kind[g].range
         /\ p = "recommended" => Edit!PresetInstances(g, p) \subseteq kind[g].present \cup {0}
         /\ Edit!Default(g) \subseteq kind[g].range
         /\ Edit!Default(g) \subseteq kind[g].present \cup {0}
         /\ Edit!Water(kind[g]) \subseteq kind[g].range
         /\ Edit!Planned(g, p) => p # "custom" /\ Edit!DefaultScope(g, p) # Edit!NoScope
         /\ p = "recommended" /\ Edit!Planned(g, p) =>
              \E x \in kind[g].range : x \in Edit!PresetInstances(g, p)
<1>1. /\ kind[g].present \subseteq kind[g].range /\ "custom" \notin kind[g].admit
      /\ (kind[g].water => 2 \in kind[g].range)
  BY DEF KindSound
<1>2. Edit!Planned(g, p) => p # "custom" /\ (p # "research" => kind[g].top # 99)
  BY <1>1 DEF Edit!Planned
<1>3. (p = "research" \/ kind[g].top # 99) => Edit!DefaultScope(g, p) # Edit!NoScope
  BY DEF Edit!DefaultScope, Edit!NoScope, Edit!Ceiling, Edit!Full
<1>4. Edit!Water(kind[g]) \subseteq kind[g].range
  BY <1>1 DEF Edit!Water, Edit!Virtual
<1>5. p = "recommended" /\ Edit!Planned(g, p) =>
        \E x \in kind[g].range : x \in Edit!PresetInstances(g, p)
  <2>1. CASE Edit!Single(g)
    BY <2>1 DEF Edit!PresetInstances, Edit!Single
  <2>2. CASE ~ Edit!Single(g)
    BY <1>1, <2>2 DEF Edit!PresetInstances, Edit!Planned, Edit!Available
  <2> QED
    BY <2>1, <2>2
<1>6. /\ Edit!PresetInstances(g, p) \subseteq kind[g].range
      /\ p = "recommended" => Edit!PresetInstances(g, p) \subseteq kind[g].present \cup {0}
      /\ Edit!Default(g) \subseteq kind[g].range
      /\ Edit!Default(g) \subseteq kind[g].present \cup {0}
  BY <1>1 DEF Edit!PresetInstances, Edit!Default, Edit!Single
<1> QED
  BY <1>2, <1>3, <1>4, <1>5, <1>6

LEMMA SourceType == ASSUME NEW p, NEW known PROVE Edit!Source(p, known) \in Edit!Sources
BY DEF Edit!Source, Edit!Sources

LEMMA NoMarks ==
  ASSUME NEW req, NEW sel, req \in Seq(Reads), sel = [i \in DOMAIN req |-> TRUE],
         \A i, j \in 1..Len(req) :
           req[i].program = req[j].program /\ req[i].code = req[j].code => i = j
  PROVE  ReadsSound(req, sel)
<1>1. PICK n \in Nat : n = Len(req) /\ DOMAIN req = 1..n
  OBVIOUS
<1>2. sel \in [1..n -> BOOLEAN] /\ \A i \in 1..n : sel[i] = TRUE
  BY <1>1
<1>3. sel \in Seq(BOOLEAN) /\ Len(sel) = n
  BY <1>2, IsList
<1> QED
  BY <1>1, <1>2, <1>3 DEF ReadsSound

LEMMA ReadsInit == Edit!Init => ReadsSound(requests, selection)
<1> SUFFICES ASSUME Edit!Init
             PROVE  ReadsSound(requests, selection)
  OBVIOUS
<1>1. selection = [i \in DOMAIN requests |-> TRUE]
  BY DEF Edit!Init
<1> DEFINE r1 == Edit!Read(1, 0, TRUE)
           r2 == Edit!Read(2, 0, TRUE)
           r3 == Edit!Read(1, 1, TRUE)
<1>2. requests = <<>> \/ requests = <<r1, r2, r3>>
  BY DEF Edit!Init
<1>3. /\ r1 \in Reads /\ r2 \in Reads /\ r3 \in Reads
      /\ r1.program = 1 /\ r1.code = 0 /\ r2.program = 2 /\ r3.program = 1 /\ r3.code = 1
  BY DEF Edit!Read, Reads
<1> HIDE DEF r1, r2, r3
<1>4. CASE requests = <<>>
  <2>1. requests \in Seq(Reads) /\ Len(requests) = 0
    BY <1>4
  <2>2. \A i, j \in 1..Len(requests) :
          requests[i].program = requests[j].program /\ requests[i].code = requests[j].code => i = j
    BY <2>1
  <2> QED
    BY <1>1, <2>1, <2>2, NoMarks
<1>5. CASE requests = <<r1, r2, r3>>
  <2>1. requests \in Seq(Reads) /\ Len(requests) = 3
    BY <1>3, <1>5
  <2>2. requests[1] = r1 /\ requests[2] = r2 /\ requests[3] = r3
    BY <1>5
  <2>3. \A i \in 1..3 : i = 1 \/ i = 2 \/ i = 3
    OBVIOUS
  <2>4. \A i, j \in 1..3 :
          requests[i].program = requests[j].program /\ requests[i].code = requests[j].code => i = j
    BY <1>3, <2>2, <2>3
  <2> QED
    BY <1>1, <2>1, <2>4, NoMarks
<1> QED
  BY <1>2, <1>4, <1>5

(* The rows of the plan handed in, whichever it is.                        *)
RowsSound ==
  /\ \A g \in Groups : KindSound(kind[g])
  /\ on \in [Groups -> BOOLEAN] /\ byHand \in SUBSET Groups
  /\ DOMAIN scope = Groups /\ DOMAIN chosen = Groups
  /\ \A g \in Groups :
       /\ chosen[g] \subseteq kind[g].range \cup kind[g].given
       /\ g \notin byHand => chosen[g] \subseteq kind[g].present \cup {0}
       /\ on[g] => scope[g] # Edit!NoScope

LEMMA HandedIn ==
  ASSUME Edit!OfPreset \/ Edit!OfDiscovery \/ Edit!OfFile, preset \in Edit!Presets
  PROVE  /\ RowsSound
         /\ preset = "recommended" => \A g \in Groups : on[g] =>
              Edit!Planned(g, preset) /\ \E x \in kind[g].range : x \in chosen[g]
<1>1. CASE Edit!OfPreset
  <2>1. /\ \A g \in Groups : KindSound(kind[g])
        /\ on = [g \in Groups |-> Edit!Planned(g, preset)]
        /\ DOMAIN scope = Groups /\ DOMAIN chosen = Groups
        /\ byHand = IF preset = "recommended" THEN {} ELSE Groups
    BY <1>1, KindFacts DEF Edit!OfPreset
  <2>2. \A g \in Groups : Edit!Planned(g, preset) \in BOOLEAN
    BY DEF Edit!Planned
  <2>3. on \in [Groups -> BOOLEAN] /\ \A g \in Groups : on[g] = Edit!Planned(g, preset)
    BY <2>1, <2>2
  <2>4. ASSUME NEW g \in Groups
        PROVE  /\ chosen[g] \subseteq kind[g].range
               /\ g \notin byHand => chosen[g] \subseteq kind[g].present \cup {0}
               /\ on[g] => scope[g] # Edit!NoScope
               /\ preset = "recommended" /\ on[g] =>
                    Edit!Planned(g, preset) /\ \E x \in kind[g].range : x \in chosen[g]
    <3>1. /\ scope[g] = Edit!DefaultScope(g, IF on[g] THEN preset ELSE "custom")
          /\ chosen[g] = IF on[g] THEN Edit!PresetInstances(g, preset) ELSE Edit!Default(g)
          /\ g \notin byHand => preset = "recommended"
      BY <1>1, <2>1 DEF Edit!OfPreset
    <3>2. KindSound(kind[g])
      BY <2>1
    <3>3. CASE on[g]
      BY <2>3, <3>1, <3>2, <3>3, PresetFacts
    <3>4. CASE ~ on[g]
      BY <3>1, <3>2, <3>4, PresetFacts
    <3> QED
      BY <3>3, <3>4
  <2>5. RowsSound
    BY <2>1, <2>3, <2>4 DEF RowsSound
  <2> QED
    BY <2>4, <2>5
<1>2. CASE Edit!OfDiscovery
  <2>1. /\ \A g \in Groups : KindSound(kind[g])
        /\ on \in [Groups -> BOOLEAN] /\ byHand = {} /\ preset = "custom"
        /\ DOMAIN scope = Groups /\ DOMAIN chosen = Groups
    BY <1>2, KindFacts DEF Edit!OfDiscovery
  <2>2. ASSUME NEW g \in Groups
        PROVE  /\ chosen[g] \subseteq kind[g].range /\ chosen[g] \subseteq kind[g].present \cup {0}
               /\ on[g] => scope[g] # Edit!NoScope
    <3>1. /\ chosen[g] = Edit!Default(g)
          /\ scope[g] = IF on[g] /\ kind[g].top = 99 THEN Edit!Ceiling(1)
                        ELSE Edit!DefaultScope(g, "custom")
      BY <1>2 DEF Edit!OfDiscovery
    <3>2. on[g] => scope[g] # Edit!NoScope
      BY <3>1 DEF Edit!DefaultScope, Edit!NoScope, Edit!Ceiling
    <3>3. KindSound(kind[g])
      BY <2>1
    <3> QED
      BY <3>1, <3>2, <3>3, PresetFacts
  <2> QED
    BY <2>1, <2>2 DEF RowsSound
<1>3. CASE Edit!OfFile
  <2>1. PICK found \in [Groups -> Edit!Kinds], named \in SUBSET Groups \ {{}},
             s \in [Groups -> Edit!Exact] :
          \E I \in {J \in [Groups -> UNION {Edit!Rows(k) : k \in Edit!Kinds}] :
                     \A g \in Groups : J[g] \in Edit!Rows(found[g])} :
            /\ kind = [g \in Groups |-> IF g \in named THEN Edit!Asked(found[g], s[g], I[g])
                                        ELSE found[g]]
            /\ on = [g \in Groups |-> g \in named]
            /\ scope = [g \in Groups |-> IF on[g] THEN s[g] ELSE Edit!DefaultScope(g, "custom")]
            /\ chosen = [g \in Groups |-> IF on[g] THEN I[g] ELSE Edit!Default(g)]
            /\ byHand = named
    BY <1>3, Zenon DEF Edit!OfFile
  <2>2. PICK I :
            /\ kind = [g \in Groups |-> IF g \in named THEN Edit!Asked(found[g], s[g], I[g])
                                        ELSE found[g]]
            /\ on = [g \in Groups |-> g \in named]
            /\ scope = [g \in Groups |-> IF on[g] THEN s[g] ELSE Edit!DefaultScope(g, "custom")]
            /\ chosen = [g \in Groups |-> IF on[g] THEN I[g] ELSE Edit!Default(g)]
            /\ byHand = named
    BY <2>1, Zenon
  <2>3. preset = "custom"
    BY <1>3 DEF Edit!OfFile
  <2>4. ASSUME NEW g \in Groups
        PROVE  /\ KindSound(kind[g]) /\ on[g] \in BOOLEAN
               /\ chosen[g] \subseteq kind[g].range \cup kind[g].given
               /\ g \notin byHand => chosen[g] \subseteq kind[g].present \cup {0}
               /\ on[g] => scope[g] # Edit!NoScope
    <3>1. found[g] \in Edit!Kinds /\ s[g] \in Edit!Exact
      OBVIOUS
    <3>2. (on[g] <=> g \in named) /\ on[g] \in BOOLEAN
      <4>1. on[g] = (g \in named)
        BY <2>2, Zenon
      <4>2. (g \in named) \in BOOLEAN
        OBVIOUS
      <4>3. on[g] \in BOOLEAN
        BY <4>1, <4>2
      <4>4. on[g] <=> g \in named
        BY <4>1, Zenon
      <4> QED
        BY <4>3, <4>4
    <3>3. CASE g \in named
      <4>1. /\ kind[g] = Edit!Asked(found[g], s[g], I[g]) /\ chosen[g] = I[g]
            /\ scope[g] = s[g] /\ g \in byHand
        BY <2>2, <3>3
      <4>2. KindSound(kind[g]) /\ kind[g].given = I[g]
        BY <3>1, <4>1, AskedKind
      <4>3. s[g] # Edit!NoScope
        BY <3>1 DEF Edit!Exact, Edit!NoScope
      <4> QED
        BY <3>2, <4>1, <4>2, <4>3
    <3>4. CASE g \notin named
      <4>1. kind[g] = found[g] /\ chosen[g] = Edit!Default(g)
        BY <2>2, <3>4
      <4>2. KindSound(kind[g])
        BY <3>1, <4>1, KindFacts
      <4> QED
        BY <3>2, <3>4, <4>1, <4>2, PresetFacts
    <3> QED
      BY <3>3, <3>4
  <2>5. /\ on \in [Groups -> BOOLEAN] /\ byHand \in SUBSET Groups
        /\ DOMAIN scope = Groups /\ DOMAIN chosen = Groups
    BY <2>2
  <2> QED
    BY <2>3, <2>4, <2>5 DEF RowsSound
<1> QED
  BY <1>1, <1>2, <1>3

LEMMA PlanInit == Edit!Init => PlanInv
<1> SUFFICES ASSUME Edit!Init
             PROVE  PlanInv
  OBVIOUS
<1>1. /\ exact \in BOOLEAN /\ preset \in Edit!Presets
      /\ step \in {"edit", "operations"} /\ edits \in Nat
  BY DEF Edit!Init
<1>2. /\ RowsSound
      /\ preset = "recommended" => \A g \in Groups : on[g] =>
           Edit!Planned(g, preset) /\ \E x \in kind[g].range : x \in chosen[g]
  BY <1>1, HandedIn DEF Edit!Init
<1>3. policy \in [Edit!Classes -> [source : Edit!Sources, override : BOOLEAN]]
  BY SourceType DEF Edit!Init
<1>4. PlanTypes
  BY <1>1, <1>2, <1>3 DEF PlanTypes, RowsSound, Steps
<1>5. SlotsInv
  BY <1>2 DEF SlotsInv, RowsSound
<1>6. RecommendedInv
  BY <1>1, <1>2 DEF RecommendedInv
<1>7. PolicyInv
  BY DEF PolicyInv, Edit!Init
<1> QED
  BY <1>4, <1>5, <1>6, <1>7, ReadsInit DEF PlanInv

(* What each edit of a row of the plan keeps.                              *)
LEMMA ToggleRow ==
  ASSUME PlanTypes, SlotsInv, NEW g \in Groups, Edit!Toggle(g), step = "edit",
         UNCHANGED <<kind, step>>
  PROVE  SlotsInv'
BY DEF PlanTypes, SlotsInv, MayComeOn, Edit!Toggle

LEMMA ScopeRow ==
  ASSUME PlanTypes, SlotsInv, NEW g \in Groups, Edit!EditScope(g), UNCHANGED <<kind, step>>
  PROVE  SlotsInv' /\ DOMAIN scope' = Groups /\ UNCHANGED <<on, chosen, byHand>>
<1>1. PICK s : Edit!SetScope(g, s) /\ s # Edit!NoScope
  <2>1. \A s \in Edit!Typed : s # Edit!NoScope
    <3> SUFFICES ASSUME NEW s \in Edit!Typed
                 PROVE  s # Edit!NoScope
      OBVIOUS
    <3>1. CASE \E n \in 0..1 : s = Edit!Ceiling(n)
      BY <3>1 DEF Edit!Ceiling, Edit!NoScope
    <3>2. CASE \E R \in {{1}, {0, 1}} : s = [top |-> Edit!Max(R), exact |-> R]
      BY <3>2 DEF Edit!NoScope
    <3> QED
      BY <3>1, <3>2 DEF Edit!Typed, Edit!Exact
  <2> QED
    BY <2>1, Zenon DEF Edit!EditScope
<1>2. scope' = [scope EXCEPT ![g] = s] /\ UNCHANGED <<on, chosen, byHand>>
  BY <1>1 DEF Edit!SetScope
<1>3. DOMAIN scope' = Groups /\ \A h \in Groups : scope'[h] = IF h = g THEN s ELSE scope[h]
  BY <1>2 DEF PlanTypes
<1> QED
  BY <1>1, <1>2, <1>3 DEF SlotsInv, MayComeOn

LEMMA InstancesRow ==
  ASSUME PlanTypes, SlotsInv, NEW g \in Groups, Edit!EditInstances(g), UNCHANGED <<kind, step>>
  PROVE  /\ SlotsInv' /\ DOMAIN chosen' = Groups /\ byHand' \in SUBSET Groups
         /\ UNCHANGED <<on, scope>>
<1>1. PICK I \in SUBSET kind[g].range : chosen' = [chosen EXCEPT ![g] = I]
  BY DEF Edit!EditInstances
<1>2. byHand' = byHand \cup {g} /\ UNCHANGED <<on, scope>>
  BY DEF Edit!EditInstances
<1>3. DOMAIN chosen' = Groups /\ \A h \in Groups : chosen'[h] = IF h = g THEN I ELSE chosen[h]
  BY <1>1 DEF PlanTypes
<1> QED
  BY <1>2, <1>3 DEF PlanTypes, SlotsInv, MayComeOn

LEMMA PresetRow ==
  ASSUME PlanTypes, SlotsInv, NEW p \in Edit!Presets, Edit!ApplyPreset(p),
         UNCHANGED kind, step \in {"edit", "customize"}, step' \in {step, "descriptions"},
         step = "customize" => step' # "edit"
  PROVE  /\ SlotsInv' /\ DOMAIN scope' = Groups /\ DOMAIN chosen' = Groups
         /\ byHand' \in SUBSET Groups /\ on' \in [Groups -> BOOLEAN]
         /\ p = "recommended" => \A g \in Groups : on'[g] =>
              Edit!Planned(g, p) /\ \E x \in kind[g].range : x \in chosen'[g]
<1>1. /\ on' = [g \in Groups |-> Edit!Planned(g, p)]
      /\ scope' = [g \in Groups |-> IF on'[g] THEN Edit!DefaultScope(g, p) ELSE scope[g]]
      /\ chosen' = [g \in Groups |-> IF on'[g] THEN Edit!PresetInstances(g, p) ELSE chosen[g]]
      /\ byHand' = {g \in Groups : IF on'[g] THEN p # "recommended" ELSE g \in byHand}
  BY DEF Edit!ApplyPreset
<1>2. \A g \in Groups : Edit!Planned(g, p) \in BOOLEAN
  BY DEF Edit!Planned
<1>3. on' \in [Groups -> BOOLEAN] /\ \A g \in Groups : on'[g] = Edit!Planned(g, p)
  BY <1>1, <1>2
<1>4. ASSUME NEW g \in Groups
      PROVE  /\ chosen'[g] \subseteq kind[g].range \cup kind[g].given
             /\ g \notin byHand' =>
                  chosen'[g] \subseteq kind[g].present \cup {0} \cup Edit!Water(kind[g])
             /\ on'[g] => scope'[g] # Edit!NoScope
  <2>1. CASE on'[g]
    <3>1. chosen'[g] = Edit!PresetInstances(g, p) /\ scope'[g] = Edit!DefaultScope(g, p)
      BY <1>1, <2>1
    <3>2. g \notin byHand' => p = "recommended"
      BY <1>1, <2>1
    <3> QED
      BY <1>3, <2>1, <3>1, <3>2, PresetFacts DEF PlanTypes
  <2>2. CASE ~ on'[g]
    <3>1. chosen'[g] = chosen[g] /\ (g \notin byHand' => g \notin byHand)
      BY <1>1, <2>2
    <3> QED
      BY <2>2, <3>1 DEF SlotsInv, MayComeOn
  <2> QED
    BY <2>1, <2>2
<1>5. SlotsInv'
  BY <1>4 DEF SlotsInv
<1>6. p = "recommended" => \A g \in Groups : on'[g] =>
        Edit!Planned(g, p) /\ \E x \in kind[g].range : x \in chosen'[g]
  <2> SUFFICES ASSUME p = "recommended", NEW g \in Groups, on'[g]
               PROVE  Edit!Planned(g, p) /\ \E x \in kind[g].range : x \in chosen'[g]
    OBVIOUS
  <2>1. Edit!Planned(g, p) /\ chosen'[g] = Edit!PresetInstances(g, p)
    BY <1>1, <1>3
  <2> QED
    BY <2>1, PresetFacts DEF PlanTypes
<1> QED
  BY <1>1, <1>3, <1>5, <1>6

LEMMA GroupsRow ==
  ASSUME PlanTypes, SlotsInv, Edit!AskGroups
  PROVE  /\ SlotsInv' /\ DOMAIN scope' = Groups /\ DOMAIN chosen' = Groups
         /\ byHand' \in SUBSET Groups /\ on' \in [Groups -> BOOLEAN]
<1>1. /\ step = "groups" /\ step' = "registers" /\ UNCHANGED kind
      /\ on' \in [Groups -> BOOLEAN]
      /\ chosen' = [g \in Groups |-> IF on'[g] /\ ~on[g] THEN Edit!Default(g) ELSE chosen[g]]
      /\ byHand' = {g \in byHand : on[g]}
  BY DEF Edit!AskGroups, Edit!input
<1>2. PICK s \in [Groups -> Edit!Typed \cup {Edit!NoScope}] :
        /\ scope' = s
        /\ \A g \in Groups :
             IF on'[g] /\ ~on[g] /\ Edit!DefaultScope(g, "custom") = Edit!NoScope
             THEN s[g] # Edit!NoScope
             ELSE s[g] = IF on'[g] /\ ~on[g] THEN Edit!DefaultScope(g, "custom") ELSE scope[g]
  BY Zenon DEF Edit!AskGroups
<1>3. ASSUME NEW g \in Groups
      PROVE  /\ chosen'[g] \subseteq kind[g].range \cup kind[g].given
             /\ g \notin byHand' /\ on'[g] =>
                  chosen'[g] \subseteq kind[g].present \cup {0} \cup Edit!Water(kind[g])
             /\ on'[g] => scope'[g] # Edit!NoScope
  <2>1. CASE on'[g] /\ ~ on[g]
    <3>1. chosen'[g] = Edit!Default(g)
      BY <1>1, <2>1
    <3>2. scope'[g] # Edit!NoScope
      BY <1>2, <2>1
    <3> QED
      BY <3>1, <3>2, PresetFacts DEF PlanTypes
  <2>2. CASE ~ (on'[g] /\ ~ on[g])
    <3>1. chosen'[g] = chosen[g] /\ scope'[g] = scope[g]
      BY <1>1, <1>2, <2>2
    <3>2. on'[g] => on[g]
      BY <2>2
    <3>3. g \notin byHand' /\ on'[g] => g \notin byHand
      BY <1>1, <3>2
    <3> QED
      BY <1>1, <3>1, <3>2, <3>3 DEF SlotsInv, MayComeOn
  <2> QED
    BY <2>1, <2>2
<1>4. SlotsInv'
  BY <1>1, <1>3 DEF SlotsInv, MayComeOn
<1>5. DOMAIN scope' = Groups /\ DOMAIN chosen' = Groups /\ byHand' \in SUBSET Groups
  BY <1>1, <1>2 DEF PlanTypes
<1> QED
  BY <1>1, <1>4, <1>5

(* Description sources: what the user set survives.                        *)
LEMMA OverrideKeeps ==
  ASSUME PlanTypes, PolicyInv, NEW c \in Edit!Classes, NEW s \in Edit!Sources,
         Edit!Override(c, s), UNCHANGED <<preset, exact>>
  PROVE  /\ policy' \in [Edit!Classes -> [source : Edit!Sources, override : BOOLEAN]]
         /\ PolicyInv'
<1>1. policy' = [policy EXCEPT ![c] = [source |-> s, override |-> TRUE]]
  BY DEF Edit!Override
<1>2. \A b \in Edit!Classes : policy'[b] = IF b = c THEN [source |-> s, override |-> TRUE]
                                           ELSE policy[b]
  BY <1>1 DEF PlanTypes
<1> QED
  BY <1>1, <1>2 DEF PlanTypes, PolicyInv

LEMMA PolicyApplied ==
  ASSUME PlanTypes, NEW p, preset' = p, policy' = Edit!Policy(p), exact' = exact
  PROVE  /\ policy' \in [Edit!Classes -> [source : Edit!Sources, override : BOOLEAN]]
         /\ PolicyInv'
<1>1. \A c \in Edit!Classes :
        policy'[c] = IF policy[c].override THEN policy[c]
                     ELSE [source |-> Edit!Source(p, exact), override |-> FALSE]
  BY DEF Edit!Policy
<1>2. \A c \in Edit!Classes : policy'[c] \in [source : Edit!Sources, override : BOOLEAN]
  <2> SUFFICES ASSUME NEW c \in Edit!Classes
               PROVE  policy'[c] \in [source : Edit!Sources, override : BOOLEAN]
    OBVIOUS
  <2>1. policy[c] \in [source : Edit!Sources, override : BOOLEAN]
    BY DEF PlanTypes
  <2>2. Edit!Source(p, exact) \in Edit!Sources
    BY SourceType
  <2>3. CASE policy[c].override
    BY <1>1, <2>1, <2>3, Zenon
  <2>4. CASE ~ policy[c].override
    <3>1. policy'[c] = [source |-> Edit!Source(p, exact), override |-> FALSE]
      BY <1>1, <2>4, Zenon
    <3> QED
      BY <2>2, <3>1
  <2> QED
    BY <2>3, <2>4
<1>3. policy' \in [Edit!Classes -> [source : Edit!Sources, override : BOOLEAN]]
  BY <1>2 DEF Edit!Policy
<1>4. PolicyInv'
  <2> SUFFICES ASSUME NEW c \in Edit!Classes, ~ policy'[c].override
               PROVE  policy'[c].source = Edit!Source(preset', exact')
    BY DEF PolicyInv
  <2>1. CASE policy[c].override
    BY <1>1, <2>1
  <2>2. CASE ~ policy[c].override
    BY <1>1, <2>2
  <2> QED
    BY <2>1, <2>2
<1> QED
  BY <1>3, <1>4

(* The steps of the planner keep what is known of the plan, the exact      *)
(* reads apart.                                                            *)
RestInv == PlanTypes /\ SlotsInv /\ RecommendedInv /\ PolicyInv

LEMMA TextualKeeps == RestInv /\ Edit!TextualEdit => RestInv'
<1> SUFFICES ASSUME RestInv, Edit!TextualEdit
             PROVE  RestInv'
  OBVIOUS
<1>1. /\ step = "edit" /\ UNCHANGED <<kind, exact, step>>
      /\ edits \in Nat /\ edits' = edits + 1
  BY DEF Edit!TextualEdit, Edit!Edit, Edit!input, RestInv, PlanTypes
<1>2. edits' \in Nat /\ edits' # 0
  BY <1>1
<1>3. RecommendedInv'
  BY <1>1, <1>2 DEF RecommendedInv
<1>4. CASE UNCHANGED <<preset, policy>> /\ \E g \in Groups : Edit!Toggle(g)
  <2>1. PICK g \in Groups : Edit!Toggle(g)
    BY <1>4
  <2>2. SlotsInv'
    BY <1>1, <2>1, ToggleRow DEF RestInv
  <2>3. /\ on' \in [Groups -> BOOLEAN] /\ UNCHANGED <<scope, chosen, byHand>>
    BY <2>1 DEF Edit!Toggle, RestInv, PlanTypes
  <2> QED
    BY <1>1, <1>2, <1>3, <1>4, <2>2, <2>3 DEF RestInv, PlanTypes, PolicyInv
<1>5. CASE UNCHANGED <<preset, policy>> /\ \E g \in Groups : Edit!EditScope(g)
  <2>1. SlotsInv' /\ DOMAIN scope' = Groups /\ UNCHANGED <<on, chosen, byHand>>
    BY <1>1, <1>5, ScopeRow DEF RestInv
  <2> QED
    BY <1>1, <1>2, <1>3, <1>5, <2>1 DEF RestInv, PlanTypes, PolicyInv
<1>6. CASE UNCHANGED <<preset, policy>> /\ \E g \in Groups : Edit!EditInstances(g)
  <2>1. /\ SlotsInv' /\ DOMAIN chosen' = Groups /\ byHand' \in SUBSET Groups
        /\ UNCHANGED <<on, scope>>
    BY <1>1, <1>6, InstancesRow DEF RestInv
  <2> QED
    BY <1>1, <1>2, <1>3, <1>6, <2>1 DEF RestInv, PlanTypes, PolicyInv
<1>7. CASE \E p \in Edit!Presets : Edit!ApplyPreset(p)
  <2>1. PICK p \in Edit!Presets : Edit!ApplyPreset(p)
    BY <1>7
  <2>2. /\ SlotsInv' /\ DOMAIN scope' = Groups /\ DOMAIN chosen' = Groups
        /\ byHand' \in SUBSET Groups /\ on' \in [Groups -> BOOLEAN]
    BY <1>1, <2>1, PresetRow DEF RestInv
  <2>3. preset' = p /\ policy' = Edit!Policy(p)
    BY <2>1 DEF Edit!ApplyPreset
  <2>4. /\ policy' \in [Edit!Classes -> [source : Edit!Sources, override : BOOLEAN]]
        /\ PolicyInv'
    BY <1>1, <2>3, PolicyApplied DEF RestInv
  <2> QED
    BY <1>1, <1>2, <1>3, <2>2, <2>3, <2>4 DEF RestInv, PlanTypes
<1>8. CASE /\ UNCHANGED <<on, scope, chosen, byHand, preset>>
           /\ \E c \in Edit!Classes, s \in Edit!Sources : Edit!Override(c, s)
  <2>1. /\ policy' \in [Edit!Classes -> [source : Edit!Sources, override : BOOLEAN]]
        /\ PolicyInv'
    BY <1>1, <1>8, OverrideKeeps DEF RestInv
  <2> QED
    BY <1>1, <1>2, <1>3, <1>8, <2>1 DEF RestInv, PlanTypes, SlotsInv, MayComeOn
<1>9. CASE UNCHANGED <<on, scope, chosen, byHand, preset, policy>>
  BY <1>1, <1>2, <1>3, <1>9 DEF RestInv, PlanTypes, SlotsInv, MayComeOn, PolicyInv
<1>10. \/ UNCHANGED <<preset, policy>> /\ \E g \in Groups : Edit!Toggle(g)
       \/ UNCHANGED <<preset, policy>> /\ \E g \in Groups : Edit!EditScope(g)
       \/ UNCHANGED <<preset, policy>> /\ \E g \in Groups : Edit!EditInstances(g)
       \/ \E p \in Edit!Presets : Edit!ApplyPreset(p)
       \/ /\ UNCHANGED <<on, scope, chosen, byHand, preset>>
          /\ \E c \in Edit!Classes, s \in Edit!Sources : Edit!Override(c, s)
       \/ UNCHANGED <<on, scope, chosen, byHand, preset, policy>>
  <2>1. \A c : (IF policy[c].source = "live" THEN "profile" ELSE "live") \in Edit!Sources
    BY DEF Edit!Sources
  <2> QED
    BY <2>1 DEF Edit!TextualEdit, Edit!row
<1> QED
  BY <1>4, <1>5, <1>6, <1>7, <1>8, <1>9, <1>10

LEMMA AskedKeeps ==
  ASSUME RestInv, Edit!AskRegisters \/ Edit!AskInstances
  PROVE  RestInv'
<1>1. /\ step \in {"registers", "instances"} /\ step' \in {"registers", "instances", "confirm"}
      /\ UNCHANGED <<kind, exact, preset, policy>> /\ edits' \in Nat
      /\ preset = "custom"
  BY DEF Edit!AskRegisters, Edit!AskInstances, Edit!Edit, Edit!input, RestInv, PlanTypes,
         RecommendedInv
<1>2. RecommendedInv' /\ PolicyInv'
  BY <1>1 DEF RecommendedInv, PolicyInv, RestInv
<1>3. CASE step' = step /\ \E g \in Groups : Edit!EditScope(g)
  <2>1. SlotsInv' /\ DOMAIN scope' = Groups /\ UNCHANGED <<on, chosen, byHand>>
    BY <1>1, <1>3, ScopeRow DEF RestInv
  <2> QED
    BY <1>1, <1>2, <1>3, <2>1 DEF RestInv, PlanTypes
<1>4. CASE step' = step /\ \E g \in Groups : Edit!EditInstances(g)
  <2>1. /\ SlotsInv' /\ DOMAIN chosen' = Groups /\ byHand' \in SUBSET Groups
        /\ UNCHANGED <<on, scope>>
    BY <1>1, <1>4, InstancesRow DEF RestInv
  <2> QED
    BY <1>1, <1>2, <1>4, <2>1 DEF RestInv, PlanTypes
<1>5. CASE UNCHANGED <<on, scope, chosen, byHand>>
  <2>1. SlotsInv'
    BY <1>1, <1>5 DEF SlotsInv, MayComeOn, RestInv
  <2> QED
    BY <1>1, <1>2, <1>5, <2>1 DEF RestInv, PlanTypes, Steps
<1> QED
  BY <1>3, <1>4, <1>5 DEF Edit!AskRegisters, Edit!AskInstances, Edit!row

LEMMA PromptsKeep ==
  ASSUME RestInv,
         \/ Edit!Save \/ Edit!Quit \/ Edit!AskOperations \/ Edit!Decline \/ Edit!Proceed
  PROVE  RestInv'
<1>1. /\ UNCHANGED <<kind, exact, on, scope, chosen, byHand, preset, policy>>
      /\ edits' \in Nat /\ (edits' = 0 => edits = 0)
  BY DEF Edit!Save, Edit!Quit, Edit!AskOperations, Edit!Decline, Edit!Proceed, Edit!Edit,
         Edit!input, Edit!row, RestInv, PlanTypes
<1>2. \/ step = "edit" /\ step' = "returned" /\ \A g \in Groups : on[g] => scope[g] # Edit!NoScope
      \/ step \in {"edit", "customize", "confirm"} /\ step' = "interrupted"
      \/ step = "operations" /\ step' \in {"operations", "customize"}
      \/ step = "customize" /\ step' = "confirm"
      \/ step = "confirm" /\ step' = "returned"
  BY DEF Edit!Save, Edit!Quit, Edit!AskOperations, Edit!Decline, Edit!Proceed
<1>3. PlanTypes'
  BY <1>1, <1>2 DEF RestInv, PlanTypes, Steps
<1>4. SlotsInv'
  BY <1>1, <1>2 DEF RestInv, SlotsInv, MayComeOn
<1>5. RecommendedInv'
  <2>1. \A g \in Groups : Edit!Planned(g, preset)' = Edit!Planned(g, preset)
    BY <1>1 DEF Edit!Planned, Edit!Available, Edit!Single
  <2>2. step' \notin {"groups", "registers", "instances"}
    BY <1>2
  <2> QED
    BY <1>1, <2>1, <2>2 DEF RestInv, RecommendedInv
<1>6. PolicyInv'
  BY <1>1 DEF RestInv, PolicyInv
<1> QED
  BY <1>3, <1>4, <1>5, <1>6 DEF RestInv

LEMMA AskPresetKeeps == RestInv /\ Edit!AskPreset => RestInv'
<1> SUFFICES ASSUME RestInv, Edit!AskPreset
             PROVE  RestInv'
  OBVIOUS
<1>1. /\ step = "customize" /\ step' = "descriptions" /\ UNCHANGED <<kind, exact, edits>>
  BY DEF Edit!AskPreset, Edit!input
<1>2. PICK p \in Edit!Presets :
        \/ p = "custom" /\ preset' = p /\ policy' = Edit!Policy(p)
           /\ UNCHANGED <<on, scope, chosen, byHand>>
        \/ Edit!ApplyPreset(p)
  BY DEF Edit!AskPreset, Edit!row
<1>3. preset' = p /\ policy' = Edit!Policy(p)
  BY <1>2 DEF Edit!ApplyPreset
<1>4. /\ policy' \in [Edit!Classes -> [source : Edit!Sources, override : BOOLEAN]]
      /\ PolicyInv'
  BY <1>1, <1>3, PolicyApplied DEF RestInv
<1>5. CASE p = "custom" /\ UNCHANGED <<on, scope, chosen, byHand>>
  <2>1. SlotsInv'
    BY <1>1, <1>5 DEF RestInv, SlotsInv, MayComeOn
  <2>2. RecommendedInv'
    BY <1>1, <1>3, <1>5 DEF RecommendedInv
  <2> QED
    BY <1>1, <1>3, <1>4, <1>5, <2>1, <2>2 DEF RestInv, PlanTypes, Steps
<1>6. CASE Edit!ApplyPreset(p)
  <2>1. /\ SlotsInv' /\ DOMAIN scope' = Groups /\ DOMAIN chosen' = Groups
        /\ byHand' \in SUBSET Groups /\ on' \in [Groups -> BOOLEAN]
        /\ p = "recommended" => \A g \in Groups : on'[g] =>
             Edit!Planned(g, p) /\ \E x \in kind[g].range : x \in chosen'[g]
    BY <1>1, <1>6, PresetRow DEF RestInv
  <2>2. \A g \in Groups : Edit!Planned(g, preset)' = Edit!Planned(g, p)
    BY <1>1, <1>3 DEF Edit!Planned, Edit!Available, Edit!Single
  <2>3. RecommendedInv'
    BY <1>1, <1>3, <2>1, <2>2 DEF RecommendedInv
  <2> QED
    BY <1>1, <1>3, <1>4, <2>1, <2>3 DEF RestInv, PlanTypes, Steps
<1> QED
  BY <1>2, <1>5, <1>6

LEMMA AskDescriptionsKeeps == RestInv /\ Edit!AskDescriptions => RestInv'
<1> SUFFICES ASSUME RestInv, Edit!AskDescriptions
             PROVE  RestInv'
  OBVIOUS
<1>1. /\ step = "descriptions" /\ step' = IF preset = "custom" THEN "groups" ELSE "confirm"
      /\ UNCHANGED <<kind, exact, edits, preset, on, scope, chosen, byHand>>
  BY DEF Edit!AskDescriptions, Edit!input, Edit!row
<1>2. SlotsInv'
  BY <1>1 DEF RestInv, SlotsInv, MayComeOn
<1>3. RecommendedInv'
  <2>1. \A g \in Groups : Edit!Planned(g, preset)' = Edit!Planned(g, preset)
    BY <1>1 DEF Edit!Planned, Edit!Available, Edit!Single
  <2> QED
    BY <1>1, <2>1 DEF RestInv, RecommendedInv
<1>4. /\ policy' \in [Edit!Classes -> [source : Edit!Sources, override : BOOLEAN]]
      /\ PolicyInv'
  <2>1. CASE UNCHANGED policy
    BY <1>1, <2>1 DEF RestInv, PolicyInv, PlanTypes
  <2>2. CASE \E c \in Edit!Classes, s \in Edit!Sources : Edit!Override(c, s)
    BY <1>1, <2>2, OverrideKeeps DEF RestInv
  <2>3. CASE policy' \in [Edit!Classes -> [source : Edit!Sources, override : {TRUE}]]
    <3>1. \A c \in Edit!Classes : policy'[c] \in [source : Edit!Sources, override : {TRUE}]
      BY <2>3
    <3>2. \A c \in Edit!Classes : /\ policy'[c].override = TRUE
                                  /\ policy'[c] \in [source : Edit!Sources, override : BOOLEAN]
      BY <3>1
    <3> QED
      BY <2>3, <3>2 DEF PolicyInv
  <2> QED
    BY <2>1, <2>2, <2>3 DEF Edit!AskDescriptions
<1> QED
  BY <1>1, <1>2, <1>3, <1>4 DEF RestInv, PlanTypes, Steps

LEMMA AskGroupsKeeps == RestInv /\ Edit!AskGroups => RestInv'
<1> SUFFICES ASSUME RestInv, Edit!AskGroups
             PROVE  RestInv'
  OBVIOUS
<1>1. /\ step = "groups" /\ step' = "registers"
      /\ UNCHANGED <<kind, exact, edits, preset, policy>> /\ preset = "custom"
  BY DEF Edit!AskGroups, Edit!input, RestInv, RecommendedInv
<1>2. /\ SlotsInv' /\ DOMAIN scope' = Groups /\ DOMAIN chosen' = Groups
      /\ byHand' \in SUBSET Groups /\ on' \in [Groups -> BOOLEAN]
  BY GroupsRow DEF RestInv
<1>3. RecommendedInv' /\ PolicyInv'
  BY <1>1 DEF RecommendedInv, PolicyInv, RestInv
<1> QED
  BY <1>1, <1>2, <1>3 DEF RestInv, PlanTypes, Steps

(* Opened again, the planner keeps the groups of its plan, or takes the    *)
(* preset's; the instances are those the scan went by.                     *)
LEMMA HotkeyKeeps ==
  ASSUME RestInv, Edit!Replan
  PROVE  RestInv'
<1>1. /\ step = "returned" /\ step' \in {"edit", "operations"}
      /\ UNCHANGED <<kind, exact, preset, policy, edits>>
  BY DEF Edit!Replan, Edit!input
<1>2. PICK fresh \in BOOLEAN :
        /\ on' = [g \in Groups |-> IF fresh THEN Edit!Planned(g, preset) ELSE on[g]]
        /\ scope' = [g \in Groups |-> IF ~on'[g] THEN Edit!DefaultScope(g, "custom")
                                      ELSE IF fresh THEN Edit!DefaultScope(g, preset)
                                      ELSE scope[g]]
        /\ chosen' = [g \in Groups |-> IF ~on'[g] THEN Edit!Default(g)
                                       ELSE IF fresh THEN Edit!PresetInstances(g, preset)
                                       ELSE Edit!Instances(g)]
        /\ byHand' = {g \in Groups :
                        on'[g] /\ IF fresh THEN preset # "recommended" ELSE g \in byHand}
  BY Zenon DEF Edit!Replan
<1>3. ASSUME NEW g \in Groups
      PROVE  /\ on'[g] \in BOOLEAN
             /\ chosen'[g] \subseteq kind[g].range \cup kind[g].given
             /\ g \notin byHand' =>
                  chosen'[g] \subseteq kind[g].present \cup {0} \cup Edit!Water(kind[g])
             /\ on'[g] => scope'[g] # Edit!NoScope
             /\ edits = 0 /\ preset = "recommended" /\ on'[g] =>
                  Edit!Planned(g, preset) /\ \E x \in kind[g].range : x \in chosen'[g]
  <2>1. KindSound(kind[g]) /\ on[g] \in BOOLEAN /\ Edit!Planned(g, preset) \in BOOLEAN
    BY DEF RestInv, PlanTypes, Edit!Planned
  <2>2. on'[g] = IF fresh THEN Edit!Planned(g, preset) ELSE on[g]
    BY <1>2
  <2>3. CASE ~ on'[g]
    <3>1. chosen'[g] = Edit!Default(g)
      BY <1>2, <2>3
    <3> QED
      BY <2>1, <2>2, <2>3, <3>1, PresetFacts
  <2>4. CASE on'[g] /\ fresh
    <3>1. /\ chosen'[g] = Edit!PresetInstances(g, preset)
          /\ scope'[g] = Edit!DefaultScope(g, preset) /\ Edit!Planned(g, preset)
          /\ (g \notin byHand' => preset = "recommended")
      BY <1>2, <2>2, <2>4
    <3> QED
      BY <2>1, <2>2, <2>4, <3>1, PresetFacts
  <2>5. CASE on'[g] /\ ~ fresh
    <3>1. /\ chosen'[g] = Edit!Instances(g) /\ scope'[g] = scope[g] /\ on[g]
          /\ (g \notin byHand' => g \notin byHand)
      BY <1>2, <2>2, <2>5
    <3>2. /\ Edit!Instances(g) \subseteq chosen[g] \cup Edit!Water(kind[g])
          /\ chosen[g] \cap kind[g].range \subseteq Edit!Instances(g)
      BY DEF Edit!Instances
    <3>3. /\ chosen[g] \subseteq kind[g].range \cup kind[g].given
          /\ g \notin byHand =>
               chosen[g] \subseteq kind[g].present \cup {0} \cup Edit!Water(kind[g])
          /\ scope[g] # Edit!NoScope
      BY <1>1, <3>1 DEF RestInv, SlotsInv, MayComeOn
    <3>4. Edit!Water(kind[g]) \subseteq kind[g].range
      BY <2>1, PresetFacts
    <3>5. edits = 0 /\ preset = "recommended" =>
            Edit!Planned(g, preset) /\ \E x \in kind[g].range : x \in chosen[g]
      BY <3>1 DEF RestInv, RecommendedInv
    <3>6. edits = 0 /\ preset = "recommended" =>
            Edit!Planned(g, preset) /\ \E x \in kind[g].range : x \in chosen'[g]
      BY <3>1, <3>2, <3>5
    <3> QED
      BY <2>1, <2>2, <2>5, <3>1, <3>2, <3>3, <3>4, <3>6
  <2> QED
    BY <2>3, <2>4, <2>5
<1>4. SlotsInv'
  BY <1>1, <1>3 DEF SlotsInv
<1>5. RecommendedInv'
  <2>1. \A g \in Groups : Edit!Planned(g, preset)' = Edit!Planned(g, preset)
    BY <1>1 DEF Edit!Planned, Edit!Available, Edit!Single
  <2> QED
    BY <1>1, <1>3, <2>1 DEF RecommendedInv
<1>6. /\ on' \in [Groups -> BOOLEAN] /\ byHand' \in SUBSET Groups
      /\ DOMAIN scope' = Groups /\ DOMAIN chosen' = Groups
  BY <1>2, <1>3
<1> QED
  BY <1>1, <1>4, <1>5, <1>6 DEF RestInv, PlanTypes, PolicyInv, Steps

LEMMA PlanStep == PlanInv /\ Edit!Next => PlanInv'
<1> SUFFICES ASSUME PlanInv, Edit!Next
             PROVE  PlanInv'
  OBVIOUS
<1>1. ReadsSound(requests', selection')
  BY ReadsStep DEF PlanInv
<1>2. RestInv
  BY DEF PlanInv, RestInv
<1>3. RestInv'
  BY <1>2, TextualKeeps, AskedKeeps, PromptsKeep, AskPresetKeeps, AskDescriptionsKeeps,
     AskGroupsKeeps, HotkeyKeeps DEF Edit!Next
<1> QED
  BY <1>1, <1>3 DEF PlanInv, RestInv

LEMMA PlanRest == PlanInv /\ UNCHANGED onlyEdit => PlanInv'
<1> SUFFICES ASSUME PlanInv, UNCHANGED onlyEdit
             PROVE  PlanInv'
  OBVIOUS
<1>1. UNCHANGED <<kind, step, on, scope, chosen, byHand, preset, policy, exact, requests,
                  selection, edits>>
  BY DEF onlyEdit
<1>2. PlanTypes' /\ SlotsInv' /\ PolicyInv' /\ ReadsSound(requests', selection')
  BY <1>1 DEF PlanInv, PlanTypes, SlotsInv, MayComeOn, PolicyInv
<1>3. RecommendedInv'
  <2>1. \A g \in Groups : Edit!Planned(g, preset)' = Edit!Planned(g, preset)
    BY <1>1 DEF Edit!Planned, Edit!Available, Edit!Single
  <2> QED
    BY <1>1, <2>1 DEF PlanInv, RecommendedInv
<1> QED
  BY <1>2, <1>3 DEF PlanInv

LEMMA PlanFollows == PlanInv => Edit!PlanSound
<1> SUFFICES ASSUME PlanInv
             PROVE  Edit!PlanSound
  OBVIOUS
<1>1. PICK n \in Nat : n = Len(requests) /\ DOMAIN requests = 1..n /\ Len(selection) = n
  BY DEF PlanInv, ReadsSound
<1>2. \A i, j \in DOMAIN requests :
        requests[i].program = requests[j].program /\ requests[i].code = requests[j].code => i = j
  BY <1>1 DEF PlanInv, ReadsSound
<1>3. \A p \in Edit!Programs : Edit!Whole(p)
  <2> SUFFICES ASSUME NEW p, Edit!Automatic(p), NEW i \in Edit!Of(p), NEW j \in Edit!Of(p),
                      selection[i] # selection[j]
               PROVE  FALSE
    BY DEF Edit!Whole
  <2>1. i \in 1..n /\ j \in 1..n /\ requests[i].program = p /\ requests[j].program = p
    BY <1>1 DEF Edit!Of
  <2>2. PICK k \in 1..n : requests[k].program = requests[i].program /\ ~ requests[k].automatic
    BY <1>1, <2>1 DEF PlanInv, ReadsSound
  <2>3. k \in Edit!Of(p)
    BY <1>1, <2>1, <2>2 DEF Edit!Of
  <2> QED
    BY <2>2, <2>3 DEF Edit!Automatic
<1>4. ASSUME step = "returned", NEW g \in Groups, on[g]
      PROVE  /\ scope[g] # Edit!NoScope
             /\ Edit!Instances(g) \subseteq kind[g].range \cup kind[g].given
             /\ g \notin byHand =>
                  Edit!Instances(g) \subseteq kind[g].present \cup {0} \cup Edit!Water(kind[g])
  <2>1. KindSound(kind[g])
    BY DEF PlanInv, PlanTypes
  <2>2. Edit!Water(kind[g]) \subseteq kind[g].range
    BY <2>1, PresetFacts
  <2>3. /\ chosen[g] \subseteq kind[g].range \cup kind[g].given /\ scope[g] # Edit!NoScope
        /\ g \notin byHand =>
             chosen[g] \subseteq kind[g].present \cup {0} \cup Edit!Water(kind[g])
    BY <1>4 DEF PlanInv, SlotsInv, MayComeOn
  <2>4. Edit!Instances(g) \subseteq chosen[g] \cup Edit!Water(kind[g])
    BY DEF Edit!Instances
  <2> QED
    BY <2>2, <2>3, <2>4
<1>5. ASSUME edits = 0, preset = "recommended", NEW g \in Groups, on[g]
      PROVE  chosen[g] # {} /\ (Edit!Single(g) => kind[g].shown)
  <2>1. Edit!Planned(g, preset) /\ \E x \in kind[g].range : x \in chosen[g]
    BY <1>5 DEF PlanInv, RecommendedInv
  <2> QED
    BY <1>5, <2>1 DEF Edit!Planned, Edit!Available
<1>6. \A c \in Edit!Classes :
        ~policy[c].override => policy[c].source = Edit!Source(preset, exact)
  BY DEF PlanInv, PolicyInv
<1> QED
  BY <1>1, <1>2, <1>3, <1>4, <1>5, <1>6 DEF Edit!PlanSound
-----------------------------------------------------------------------------
(* The parts together: a behaviour shows one of them.                      *)
RegPart == part = "registers" => RegInv

LEMMA RegPartInit == AllInit => RegPart
BY RegistersInit DEF AllInit, RegPart

LEMMA RegPartStep == RegPart /\ [AllNext]_allVars => RegPart'
<1> SUFFICES ASSUME RegPart, [AllNext]_allVars, part' = "registers" PROVE RegInv'
  BY DEF RegPart
<1>1. part' = part
  BY DEF AllNext, allVars, OthersThanRegisters, OthersThanEdit, OthersThanReplay,
         OthersThanRows, OthersThanDescribe
<1>2. RegInv BY <1>1 DEF RegPart
<1>3. CASE UNCHANGED onlyRegisters BY <1>2, <1>3, RegistersRest
<1>4. CASE Registers!Next
  BY <1>2, <1>4, RegTypesStep, QueueStep, RecordStep DEF RegInv
<1>5. UNCHANGED onlyRegisters \/ Registers!Next
  BY <1>1 DEF AllNext, allVars
<1> QED BY <1>3, <1>4, <1>5

(* On every way out of run_b524_scan the artifact is true: a completed     *)
(* scan has an entry for every register of its plan, and what is said of   *)
(* an operation is what happened to it, for every number of registers and  *)
(* programs, every budget and every number of replans.                     *)
THEOREM ArtifactIsTrue == AllSpec => []ArtifactTrue
<1>1. RegPart => ArtifactTrue BY ArtifactFollows DEF RegPart, ArtifactTrue
<1> QED BY <1>1, RegPartInit, RegPartStep, PTL DEF AllSpec

(* Replanning loses no entry and reads no register twice (build_work_queue)*)
THEOREM ReplanningKeeps == AllSpec => ReplanKeeps
<1>1. RegPart /\ [AllNext]_allVars => [part = "registers" => Registers!KeepsRegisters]_allVars
  <2> SUFFICES ASSUME RegPart, AllNext, part = "registers" PROVE Registers!KeepsRegisters
    OBVIOUS
  <2> QED BY RegistersKept DEF AllNext, RegPart
<1> QED BY <1>1, RegPartInit, RegPartStep, PTL DEF AllSpec, ReplanKeeps

(* The same promise in the run of all parts: no reserved first attempt is  *)
(* ever withheld (_FairDescriptionAttemptState).                           *)
THEOREM PromisesKept == AllSpec => []FairInv
<1>1. AllInit => FairInv BY InitFairInv DEF AllInit, NoDescribe
<1>2. FairInv /\ [AllNext]_allVars => FairInv'
  BY FairStep DEF AllNext, allVars, OthersThanRegisters, OthersThanEdit, OthersThanReplay,
                  OthersThanRows
<1> QED BY <1>1, <1>2, PTL DEF AllSpec

(* The acquisition reports the requests it sent, those of withheld,        *)
(* refused and aborted probes included, and says the budget is spent only  *)
(* when it is (finish_description_coverage, acquire_descriptions).         *)
THEOREM ReportsAreTrue == AllSpec => []ReportsTrue
<1>1. AllInit => ReportInv BY ReportInit DEF AllInit, NoDescribe
<1>2. ReportInv /\ [AllNext]_allVars => ReportInv'
  BY ReportStep DEF AllNext, allVars, OthersThanRegisters, OthersThanEdit, OthersThanReplay,
                    OthersThanRows
<1>3. ReportInv => ReportsTrue BY DEF ReportInv, ReportsTrue
<1> QED BY <1>1, <1>2, <1>3, PTL DEF AllSpec

(* No namespace waits while another of its family is served twice, however *)
(* small the budget (_round_robin_namespaces, schedule_descriptions).      *)
THEOREM NamespacesServedInTurn == AllSpec => []TakenInTurn
<1>1. AllInit => FairInv /\ OrderMade
  BY InitFairInv, OrderInit DEF AllInit, NoDescribe
<1>2. FairInv /\ OrderMade /\ [AllNext]_allVars => FairInv' /\ OrderMade'
  BY FairStep, OrderStays DEF AllNext, allVars, OthersThanRegisters, OthersThanEdit,
                              OthersThanReplay, OthersThanRows
<1>3. FairInv /\ OrderMade => TakenInTurn BY OrderServes DEF FairInv, TakenInTurn
<1> QED BY <1>1, <1>2, <1>3, PTL DEF AllSpec

PlanPart == part = "planner" => PlanInv

(* The plan that comes back is one the user can have meant: no exact read  *)
(* twice, whole programs, and slots nobody confirmed only where they were  *)
(* asked for (prompt_scan_plan, run_textual_scan_plan).                    *)
THEOREM PlanIsSound == AllSpec => []PlanSound
<1>1. AllInit => PlanPart BY PlanInit DEF AllInit, PlanPart
<1>2. PlanPart /\ [AllNext]_allVars => PlanPart'
  <2> SUFFICES ASSUME PlanPart, [AllNext]_allVars, part' = "planner" PROVE PlanInv'
    BY DEF PlanPart
  <2>1. part' = part
    BY DEF AllNext, allVars, OthersThanRegisters, OthersThanEdit, OthersThanReplay,
           OthersThanRows, OthersThanDescribe
  <2>2. PlanInv BY <2>1 DEF PlanPart
  <2>3. CASE UNCHANGED onlyEdit BY <2>2, <2>3, PlanRest
  <2>4. CASE Edit!Next BY <2>2, <2>4, PlanStep
  <2>5. UNCHANGED onlyEdit \/ Edit!Next BY <2>1 DEF AllNext, allVars
  <2> QED BY <2>3, <2>4, <2>5
<1>3. PlanPart => PlanSound BY PlanFollows DEF PlanPart, PlanSound
<1> QED BY <1>1, <1>2, <1>3, PTL DEF AllSpec

-----------------------------------------------------------------------------
(* The invariant of a browsed artifact: the file is one of those a user    *)
(* may have, and what is open shows the rows and the nodes made of it.     *)
FileInv ==
  /\ DOMAIN file.kind \subseteq Rows!Selectors
  /\ \A s \in DOMAIN file.kind : file.kind[s] \in Rows!Kinds
  /\ file.said \subseteq DOMAIN file.kind /\ file.proven \in {2, 6}
  /\ \/ file.plan = Rows!All
     \/ file.plan \subseteq {Rows!Instance(s) : s \in DOMAIN file.kind}
  /\ file.other \in Rows!Others
Opened == store.rows = Rows!Rows /\ store.nodes = Rows!Nodes
RowsInv ==
  /\ FileInv
  /\ store.status \in {"closed", "open", "refused"} /\ tab \in {"config", "state"}
  /\ store.status = "open" => Opened

(* Whatever file is given, nothing is open yet.                            *)
LEMMA RowsInit == Rows!Init => RowsInv
<1> SUFFICES ASSUME Rows!Init PROVE RowsInv
  OBVIOUS
<1>1. store.status = "closed" /\ tab = "config"
  BY DEF Rows!Init, Rows!Store
<1>2. PICK n \in 0..MaxEntries : \E S \in Rows!kSubset(n, Rows!Selectors) :
     \E k \in [S -> Rows!Kinds], l \in {"operations", "dual", "flat", "emptied"},
        w \in SUBSET S, p \in {2, 6}, g \in SUBSET {Rows!Instance(s) : s \in S},
        q \in {Rows!All} \cup SUBSET {Rows!Instance(s) : s \in S},
        o \in IF n <= 1 THEN Rows!Others ELSE {"none"} :
       /\ file = [layout |-> l, kind |-> k, said |-> w, proven |-> p, present |-> g,
                  plan |-> q, other |-> o]
       /\ Rows!Stored(S, file)
  BY Zenon DEF Rows!Init
<1>3. PICK S \in Rows!kSubset(n, Rows!Selectors) :
     \E k \in [S -> Rows!Kinds], l \in {"operations", "dual", "flat", "emptied"},
        w \in SUBSET S, p \in {2, 6}, g \in SUBSET {Rows!Instance(s) : s \in S},
        q \in {Rows!All} \cup SUBSET {Rows!Instance(s) : s \in S},
        o \in IF n <= 1 THEN Rows!Others ELSE {"none"} :
       /\ file = [layout |-> l, kind |-> k, said |-> w, proven |-> p, present |-> g,
                  plan |-> q, other |-> o]
       /\ Rows!Stored(S, file)
  BY <1>2, Zenon
<1>4. S \subseteq Rows!Selectors
  BY DEF Rows!kSubset
<1>5. /\ file.kind \in [S -> Rows!Kinds] /\ file.said \subseteq S /\ file.proven \in {2, 6}
      /\ file.plan \in {Rows!All} \cup SUBSET {Rows!Instance(s) : s \in S}
      /\ file.other \in (IF n <= 1 THEN Rows!Others ELSE {"none"})
  <2>1. PICK k \in [S -> Rows!Kinds], l \in {"operations", "dual", "flat", "emptied"},
        w \in SUBSET S, p \in {2, 6}, g \in SUBSET {Rows!Instance(s) : s \in S},
        q \in {Rows!All} \cup SUBSET {Rows!Instance(s) : s \in S},
        o \in IF n <= 1 THEN Rows!Others ELSE {"none"} :
       /\ file = [layout |-> l, kind |-> k, said |-> w, proven |-> p, present |-> g,
                  plan |-> q, other |-> o]
       /\ Rows!Stored(S, file)
    BY <1>3
  <2> QED
    BY <2>1
<1>6. DOMAIN file.kind = S /\ \A s \in S : file.kind[s] \in Rows!Kinds
  BY <1>5
<1>7. file.other \in Rows!Others
  BY <1>5 DEF Rows!Others
<1> QED
  BY <1>1, <1>4, <1>5, <1>6, <1>7 DEF RowsInv, FileInv

(* Rows and nodes are made of the file alone.                              *)
LEMMA RowsOfFile ==
  ASSUME file' = file
  PROVE  FileInv' = FileInv /\ Rows!Rows' = Rows!Rows /\ Rows!Nodes' = Rows!Nodes
BY DEF FileInv, Rows!Rows, Rows!Nodes, Rows!RegisterRows, Rows!OtherRows, Rows!RegisterNodes,
   Rows!OtherNodes, Rows!InstanceNodes, Rows!Sections, Rows!Routes, Rows!View, Rows!Entries,
   Rows!Moved, Rows!Default, Rows!InPlan, Rows!Visible, Rows!VisibleRegisters,
   Rows!Instanced, Rows!SystemRows, Rows!OperationRows, Rows!B555Config, Rows!B555Slots,
   Rows!B516Rows, Rows!B509Rows, Rows!Of

(* A step of another part leaves it alone.                                 *)
LEMMA RowsRest == RowsInv /\ UNCHANGED onlyRows => RowsInv'
BY RowsOfFile DEF RowsInv, Opened, onlyRows

(* Opening an artifact makes its rows and nodes once; selecting and        *)
(* switching change neither (Open, Select, Switch).                        *)
LEMMA RowsStep == RowsInv /\ Rows!Next => RowsInv'
<1> SUFFICES ASSUME RowsInv, Rows!Next PROVE RowsInv'
  OBVIOUS
<1>1. file' = file
  BY DEF Rows!Next, Rows!Open, Rows!Select, Rows!Switch
<1>2. FileInv'
  BY <1>1, RowsOfFile DEF RowsInv
<1>3. \A n, t : t \in {"config", "state"} => Rows!Synced(n, t) \in {"config", "state"}
  BY DEF Rows!Synced
<1>4. \A n : Rows!Tabs(n) \subseteq {"config", "state"}
  BY DEF Rows!Tabs
<1>5. Rows!Rows' = Rows!Rows /\ Rows!Nodes' = Rows!Nodes
  BY <1>1, RowsOfFile
<1>6. CASE Rows!Open
  <2>1. \/ store' = [status |-> "open", rows |-> Rows!Rows, nodes |-> Rows!Nodes]
        \/ store' = [status |-> "refused", rows |-> {}, nodes |-> {}]
    BY <1>6 DEF Rows!Open, Rows!Store
  <2>2. tab' \in {"config", "state"}
    BY <1>3, <1>6 DEF Rows!Open, RowsInv
  <2>3. store'.status \in {"open", "refused"}
    BY <2>1
  <2>4. store'.status = "open" => store'.rows = Rows!Rows /\ store'.nodes = Rows!Nodes
    BY <2>1
  <2> QED
    BY <1>2, <1>5, <2>2, <2>3, <2>4 DEF RowsInv, Opened
<1>7. CASE Rows!Select
  <2>1. store' = store /\ tab' \in {"config", "state"}
    BY <1>3, <1>7 DEF Rows!Select, RowsInv
  <2> QED
    BY <1>2, <1>5, <2>1 DEF RowsInv, Opened
<1>8. CASE Rows!Switch
  <2>1. store' = store /\ tab' \in {"config", "state"}
    BY <1>4, <1>8 DEF Rows!Switch
  <2> QED
    BY <1>2, <1>5, <2>1 DEF RowsInv, Opened
<1> QED
  BY <1>6, <1>7, <1>8 DEF Rows!Next

(* Every entry has the opcode of an operation, said or supplied, and a     *)
(* register number (_migrate_v22_to_v23).                                  *)
LEMMA PlaceFacts ==
  ASSUME FileInv, NEW e \in Rows!Entries
  PROVE  /\ e.place[1] \in {2, 6} /\ e.place[4] \in Nat
         /\ e.kind \in Rows!Kinds
<1>1. \A s \in Rows!Selectors : s[1] \in {2, 6} /\ s[4] \in Nat /\ DOMAIN s = 1..4
  BY DEF Rows!Selectors
<1>2. PICK s \in DOMAIN file.kind : e = [place |-> Rows!Moved(s), kind |-> file.kind[s]]
  BY DEF Rows!Entries
<1>3. e.place = Rows!Moved(s) /\ e.kind = file.kind[s] /\ s \in Rows!Selectors
  BY <1>2 DEF FileInv
<1>4. \A g : Rows!Default(g) \in {2, 6}
  <2> TAKE g
  <2> DEFINE seen == {t[1] : t \in {t \in file.said : t[2] = g}}
  <2>1. seen \subseteq {2, 6}
    BY <1>1 DEF FileInv
  <2>2. seen # {} => Rows!Min(seen) \in seen
    <3> HIDE DEF seen
    <3>1. seen # {} => \E x \in seen : \A y \in seen : x <= y
      <4>1. CASE 2 \in seen
        <5>1. \A y \in seen : 2 <= y
          BY <2>1
        <5> QED
          BY <4>1, <5>1
      <4>2. CASE 2 \notin seen
        <5>1. \A y \in seen : y = 6
          BY <2>1, <4>2
        <5> QED
          BY <5>1
      <4> QED
        BY <4>1, <4>2
    <3> QED
      BY <3>1 DEF Rows!Min
  <2>3. Rows!Default(g) = IF seen = {} THEN file.proven ELSE Rows!Min(seen)
    BY DEF Rows!Default
  <2> QED
    BY <2>1, <2>2, <2>3 DEF FileInv
<1>5. Rows!Moved(s)[1] \in {2, 6} /\ Rows!Moved(s)[4] \in Nat
  <2>1. Rows!Moved(s) = s \/ Rows!Moved(s) = [s EXCEPT ![1] = Rows!Default(s[2])]
    BY DEF Rows!Moved
  <2> QED
    BY <1>1, <1>3, <1>4, <2>1
<1> QED
  BY <1>3, <1>5 DEF FileInv

(* A group of the plan, or of the entries, is one of the two operations'.  *)
LEMMA RouteFacts ==
  ASSUME FileInv, NEW v \in Rows!Routes
  PROVE  v[1] \in {2, 6}
<1>1. CASE file.plan = Rows!All
  BY <1>1, PlaceFacts DEF Rows!Routes
<1>2. CASE file.plan # Rows!All
  <2>1. PICK i \in file.plan : v = <<i[1], i[2]>>
    BY <1>2 DEF Rows!Routes
  <2>2. PICK s \in Rows!Selectors : i = Rows!Instance(s)
    BY <1>2, <2>1 DEF FileInv
  <2>3. s[1] \in {2, 6}
    BY <2>2 DEF Rows!Selectors
  <2> QED
    BY <2>1, <2>2, <2>3 DEF Rows!Instance
<1> QED
  BY <1>1, <1>2

(* The sections of the two operations differ.                              *)
LEMMA SectionFacts ==
  /\ \A p : Rows!Section(p) \in {"controller_registers", "device_slots"}
  /\ \A p, q \in {2, 6} : Rows!Section(p) = Rows!Section(q) => p = q
BY DEF Rows!Section

(* A register row is an entry its group shows.                             *)
LEMMA RegisterRowIs ==
  ASSUME FileInv, NEW r \in Rows!Rows, Rows!IsRegister(r)
  PROVE  \E v \in Rows!Routes : \E e \in Rows!View(v[1], v[2]) :
           /\ r = Rows!Row("b524", Rows!Section(v[1]), e.place, Rows!TabOf(e.kind))
           /\ e.place[1] = v[1] /\ e.place[2] = v[2] /\ e \in Rows!Entries
<1>1. r \notin Rows!OtherRows
  BY DEF Rows!IsRegister, Rows!OtherRows, Rows!SystemRows, Rows!OperationRows, Rows!B555Config,
     Rows!B555Slots, Rows!B516Rows, Rows!B509Rows, Rows!Of, Rows!Row
<1>2. r \in Rows!RegisterRows
  BY <1>1 DEF Rows!Rows
<1> QED
  BY <1>2 DEF Rows!RegisterRows, Rows!View

(* A migrated entry keeps the opcode it was read with.                     *)
LEMMA EntriesStay == Rows!EntriesKept
BY DEF Rows!EntriesKept, Rows!Moved

(* A planned register that answered has a row.                             *)
LEMMA AnsweredHasRow ==
  ASSUME FileInv, Opened
  PROVE  Rows!AnsweredShown
<1> SUFFICES ASSUME NEW e \in Rows!Entries, Rows!InPlan(Rows!Instance(e.place)),
                    e.kind # "absent", e.place[4] # 0, e.place[2] = 0 => e.place[4] <= 255
             PROVE  \E r \in store.rows : Rows!IsRegister(r) /\ r.place = e.place
  BY DEF Rows!AnsweredShown
<1> DEFINE p == e.place[1]
           g == e.place[2]
           r == Rows!Row("b524", Rows!Section(p), e.place, Rows!TabOf(e.kind))
<1>1. e \in Rows!View(p, g)
  BY DEF Rows!View
<1>2. e.place[4] \in Nat
  BY PlaceFacts
<1>3. e.place[4] \in Rows!VisibleRegisters(p, g)
  BY <1>1, <1>2 DEF Rows!VisibleRegisters
<1>4. <<p, g>> \in Rows!Routes
  BY DEF Rows!Routes, Rows!InPlan, Rows!Instance
<1>5. r \in Rows!RegisterRows
  <2>1. PICK v : v = <<p, g>>
    OBVIOUS
  <2>2. v \in Rows!Routes /\ v[1] = p /\ v[2] = g
    BY <1>4, <2>1
  <2> HIDE DEF p, g
  <2>3. r \in {Rows!Row("b524", Rows!Section(v[1]), x.place, Rows!TabOf(x.kind)) :
               x \in {y \in Rows!View(v[1], v[2]) :
                       y.place[4] \in Rows!VisibleRegisters(v[1], v[2])}}
    BY <1>1, <1>3, <2>2
  <2> QED
    BY <2>2, <2>3 DEF Rows!RegisterRows
<1>6. Rows!IsRegister(r) /\ r.place = e.place
  BY SectionFacts DEF Rows!IsRegister, Rows!Row
<1> QED
  BY <1>5, <1>6 DEF Opened, Rows!Rows

-----------------------------------------------------------------------------
(* The nodes of the tree, by kind.                                         *)
InstanceNode(n) ==
  \E v \in Rows!Routes : \E e \in Rows!View(v[1], v[2]) :
    /\ Rows!Instanced(v[1], v[2]) /\ Rows!Visible(Rows!Instance(e.place))
    /\ n = Rows!Node("instance", "b524", Rows!Section(v[1]), v[2], v[1], e.place[3])
OtherNode(n) ==
  \/ file.other = "operation" /\ \E g \in {1, 2} : n = Rows!Group("operation", g)
  \/ file.other \in {"b555", "b516"}
     /\ n \in {Rows!Top(file.other), Rows!Node("group", file.other, "none", 1, 0, 0)}
  \/ file.other = "b509"
     /\ \/ n = Rows!Top("b509")
        \/ \E q \in {1, 3} : n = Rows!Node("range", "b509", "none", q, 0, q)
NodeKind(n) ==
  \/ n = Rows!Root
  \/ n = Rows!Top("b524") /\ Rows!Sections # {}
  \/ \E s \in Rows!Sections : n = Rows!Part(s)
  \/ \E v \in Rows!Routes : /\ Rows!Section(v[1]) \in Rows!Sections
                            /\ n = Rows!Group(Rows!Section(v[1]), v[2])
  \/ InstanceNode(n)
  \/ OtherNode(n)

(* What the tree is made of (build_browse_store).                          *)
LEMMA NodesAre == \A n : n \in Rows!Nodes <=> NodeKind(n)
<1> SUFFICES ASSUME NEW n PROVE n \in Rows!Nodes <=> NodeKind(n)
  OBVIOUS
<1>1. n \in Rows!InstanceNodes <=> InstanceNode(n)
  BY DEF Rows!InstanceNodes, InstanceNode
<1>2. n \in Rows!OtherNodes <=> OtherNode(n)
  BY DEF Rows!OtherNodes, OtherNode
<1>3. n \in Rows!RegisterNodes <=>
        \/ n = Rows!Top("b524") /\ Rows!Sections # {}
        \/ \E s \in Rows!Sections : n = Rows!Part(s)
        \/ \E v \in Rows!Routes : /\ Rows!Section(v[1]) \in Rows!Sections
                                  /\ n = Rows!Group(Rows!Section(v[1]), v[2])
        \/ n \in Rows!InstanceNodes
  BY DEF Rows!RegisterNodes
<1>4. n \in Rows!Nodes <=> n = Rows!Root \/ n \in Rows!RegisterNodes \/ n \in Rows!OtherNodes
  BY DEF Rows!Nodes
<1> QED
  BY <1>1, <1>2, <1>3, <1>4 DEF NodeKind

(* The sections of the b524 part of the tree.                              *)
LEMMA SectionsAre ==
  \A s \in Rows!Sections :
    s \in {"controller_registers", "device_slots", "system_information", "operation"}
<1> SUFFICES ASSUME NEW s \in Rows!Sections
             PROVE  s \in {"controller_registers", "device_slots", "system_information", "operation"}
  OBVIOUS
<1>1. CASE \E r \in Rows!Rows : r.protocol = "b524" /\ s = r.section
  <2>1. PICK r \in Rows!Rows : r.protocol = "b524" /\ s = r.section
    BY <1>1
  <2>2. CASE r \in Rows!RegisterRows
    BY <2>1, <2>2, SectionFacts DEF Rows!RegisterRows, Rows!Row
  <2>3. CASE r \in Rows!OtherRows
    BY <2>1, <2>3 DEF Rows!OtherRows, Rows!SystemRows, Rows!OperationRows, Rows!B555Config,
       Rows!B555Slots, Rows!B516Rows, Rows!B509Rows, Rows!Of, Rows!Row
  <2> QED
    BY <2>1, <2>2, <2>3 DEF Rows!Rows
<1>2. CASE \E n \in Rows!InstanceNodes : s = n.section
  BY <1>2, SectionFacts DEF Rows!InstanceNodes, Rows!Node
<1>3. CASE \E v \in Rows!Routes : s = Rows!Section(v[1])
  BY <1>3, SectionFacts
<1> QED
  BY <1>1, <1>2, <1>3 DEF Rows!Sections

(* A row on display is selected by its node, which then has no children to *)
(* navigate to, or it is of an operation or the system information and     *)
(* shown with its whole section.                                           *)
Appears(n, r) ==
  \/ /\ n.protocol = "b524"
     /\ n.section \notin {"none", "controller_registers", "device_slots"}
     /\ r.protocol = "b524" /\ r.section = n.section
  \/ /\ ~ Rows!Navigates(n)
     /\ \/ n.level = "root"
        \/ /\ r.protocol = n.protocol
           /\ n.level = "section" => r.section = n.section
           /\ n.level = "group" => r.place[2] = n.group /\ r.section = n.section
           /\ n.level = "instance" => Rows!OfInstance(n, r)
           /\ n.level = "range" => r.place[4] \in n.group..n.instance
LEMMA AtAppears == \A r, n : Rows!At(r, n) => Appears(n, r)
<1> SUFFICES ASSUME NEW r, NEW n, Rows!At(r, n) PROVE Appears(n, r)
  OBVIOUS
<1>1. r \in Rows!Shown(n, r.tab)
  BY DEF Rows!At
<1>2. CASE Rows!Tabs(n) = {}
  BY <1>1, <1>2 DEF Rows!Shown, Rows!Tabs, Appears
<1>3. CASE Rows!Tabs(n) # {}
  <2>1. r \in Rows!Selected(n)
    BY <1>1, <1>3 DEF Rows!Shown
  <2>2. ~ Rows!Navigates(n)
    BY <2>1 DEF Rows!Selected
  <2>3. CASE n.level = "root"
    BY <2>2, <2>3 DEF Appears
  <2>4. CASE n.level # "root"
    BY <2>1, <2>2, <2>4 DEF Rows!Selected, Appears
  <2> QED
    BY <2>3, <2>4
<1> QED
  BY <1>2, <1>3

(* A row is displayed where it appears: that is all its node asks.         *)
LEMMA AppearsAt ==
  ASSUME NEW r \in store.rows, NEW n, Rows!InTree(n), Appears(n, r),
         n.level \in {"section", "group", "instance", "range"},
         r.tab \in {"config", "state"}, n.protocol # "b524" => r.tab = "state",
         n.protocol = "b524" => r.section = n.section
  PROVE  Rows!At(r, n)
<1>1. CASE Rows!Tabs(n) = {}
  <2>1. n.protocol = "b524" /\ n.section \notin {"none", "controller_registers", "device_slots"}
    BY <1>1 DEF Rows!Tabs
  <2>2. r.protocol = "b524" /\ r.section = n.section
    BY <2>1 DEF Appears
  <2> QED
    BY <1>1, <2>2 DEF Rows!At, Rows!Shown
<1>2. CASE Rows!Tabs(n) # {}
  <2>1. r.tab \in Rows!Tabs(n)
    BY <1>2 DEF Rows!Tabs
  <2>2. /\ ~ Rows!Navigates(n) /\ r.protocol = n.protocol
        /\ n.level = "section" => r.section = n.section
        /\ n.level = "group" => r.place[2] = n.group /\ r.section = n.section
        /\ n.level = "instance" => Rows!OfInstance(n, r)
        /\ n.level = "range" => r.place[4] \in n.group..n.instance
    BY <1>2 DEF Appears, Rows!Tabs
  <2>3. r \in Rows!Selected(n)
    BY <2>2 DEF Rows!Selected
  <2> QED
    BY <1>2, <2>1, <2>3 DEF Rows!At, Rows!Shown
<1> QED
  BY <1>1, <1>2

(* One leaf that displays a row, and no other node that does.              *)
Home(r, m) ==
  /\ m \in store.nodes /\ Rows!At(r, m) /\ Rows!Leaf(m)
  /\ \A n \in store.nodes : Rows!At(r, n) => n = m
LEMMA HomeIsOne ==
  ASSUME NEW r, NEW m, Home(r, m)
  PROVE  /\ Rows!Cardinality({n \in store.nodes : Rows!At(r, n)}) = 1
         /\ \A n \in store.nodes : Rows!At(r, n) => Rows!Leaf(n)
<1>1. {n \in store.nodes : Rows!At(r, n)} = {m}
  BY DEF Home
<1>2. Rows!Cardinality({m}) = Cardinality({m})
  BY DEF Rows!Cardinality, Cardinality
<1>3. Cardinality({m}) = 1
  BY FS_Singleton
<1> QED
  BY <1>1, <1>2, <1>3 DEF Home

(* Where a node hangs in the tree (_build_tree).                           *)
LEMMA Parents ==
  ASSUME NEW c
  PROVE  /\ Rows!Parent(c).level \in {"root", "protocol", "section", "group"}
         /\ Rows!Parent(c).level = "section" => Rows!Parent(c) = Rows!Part(c.section) /\ c.level = "group"
         /\ Rows!Parent(c).level = "group" =>
              Rows!Parent(c) = Rows!Group(c.section, c.group) /\ c.level = "instance"
BY DEF Rows!Parent, Rows!Root, Rows!Top, Rows!Part, Rows!Group, Rows!Node

(* The path to the group of a register row is in the tree.                 *)
PathTo(v, n) ==
  /\ n.protocol = "b524" /\ n.section = Rows!Section(v[1]) /\ n.group = v[2]
  /\ n.level \in {"group", "instance"}
LEMMA PathThere ==
  ASSUME FileInv, Opened, NEW v \in Rows!Routes, Rows!Section(v[1]) \in Rows!Sections
  PROVE  /\ {Rows!Root, Rows!Top("b524"), Rows!Part(Rows!Section(v[1])),
             Rows!Group(Rows!Section(v[1]), v[2])} \subseteq store.nodes
         /\ Rows!InTree(Rows!Group(Rows!Section(v[1]), v[2]))
         /\ \A n \in store.nodes : PathTo(v, n) => Rows!InTree(n)
<1> DEFINE group == Rows!Group(Rows!Section(v[1]), v[2])
<1>1. {Rows!Root, Rows!Top("b524"), Rows!Part(Rows!Section(v[1])), group} \subseteq store.nodes
  BY NodesAre DEF Opened, NodeKind
<1>2. /\ Rows!Parent(group) = Rows!Part(Rows!Section(v[1]))
      /\ Rows!Parent(Rows!Part(Rows!Section(v[1]))) = Rows!Top("b524")
      /\ Rows!Parent(Rows!Top("b524")) = Rows!Root
      /\ Rows!Parent(Rows!Root) = Rows!Root
  BY <1>1 DEF Rows!Parent, Rows!Root, Rows!Top, Rows!Part, Rows!Group, Rows!Node
<1>3. Rows!InTree(group)
  BY <1>1, <1>2 DEF Rows!InTree
<1>4. \A n \in store.nodes : n.level = "group" /\ PathTo(v, n) => Rows!InTree(n)
  <2> SUFFICES ASSUME NEW n \in store.nodes, n.level = "group", PathTo(v, n)
               PROVE  Rows!InTree(n)
    OBVIOUS
  <2>1. Rows!Parent(n) = Rows!Part(Rows!Section(v[1]))
    BY <1>1 DEF Rows!Parent, PathTo
  <2> QED
    BY <1>1, <1>2, <2>1 DEF Rows!InTree
<1>5. \A n \in store.nodes : n.level = "instance" /\ PathTo(v, n) => Rows!InTree(n)
  <2> SUFFICES ASSUME NEW n \in store.nodes, n.level = "instance", PathTo(v, n)
               PROVE  Rows!InTree(n)
    OBVIOUS
  <2>1. Rows!Parent(n) = group
    BY DEF Rows!Parent, PathTo
  <2> QED
    BY <1>1, <1>2, <2>1 DEF Rows!InTree
<1> QED
  BY <1>1, <1>3, <1>4, <1>5 DEF PathTo

(* The root and, once it has a section, a protocol only navigate.          *)
LEMMA RootNavigates ==
  ASSUME NEW c \in store.nodes, c # Rows!Root
  PROVE  Rows!Navigates(Rows!Root)
BY DEF Rows!Navigates, Rows!Root, Rows!Node
LEMMA TopNavigates ==
  ASSUME NEW p, NEW c \in store.nodes, c.protocol = p, c.level # "protocol"
  PROVE  Rows!Navigates(Rows!Top(p))
BY DEF Rows!Navigates, Rows!Top, Rows!Node

(* A register row appears at its group or at an instance of it.            *)
LEMMA RegisterAppears ==
  ASSUME FileInv, Opened, NEW v \in Rows!Routes, NEW r, r.protocol = "b524",
         r.section = Rows!Section(v[1]), r.place[2] = v[2], r.section \in Rows!Sections,
         NEW n \in store.nodes, Appears(n, r)
  PROVE  \/ n = Rows!Group(Rows!Section(v[1]), v[2]) /\ ~ Rows!Navigates(n)
         \/ InstanceNode(n) /\ Rows!OfInstance(n, r)
<1>1. /\ r.section \in {"controller_registers", "device_slots"}
      /\ {Rows!Root, Rows!Top("b524"), Rows!Part(r.section),
          Rows!Group(r.section, v[2])} \subseteq store.nodes
  BY PathThere, SectionFacts
<1>2. Rows!Navigates(Rows!Root)
  BY <1>1, RootNavigates DEF Rows!Root, Rows!Top, Rows!Node
<1>3. Rows!Navigates(Rows!Top("b524"))
  <2>1. Rows!Part(r.section).protocol = "b524" /\ Rows!Part(r.section).level # "protocol"
    BY DEF Rows!Part, Rows!Node
  <2> QED
    BY <1>1, <2>1, TopNavigates
<1>4. Rows!Navigates(Rows!Part(r.section))
  <2>1. /\ Rows!Group(r.section, v[2]).protocol = "b524"
        /\ Rows!Group(r.section, v[2]).section = r.section
        /\ Rows!Group(r.section, v[2]).level = "group"
        /\ Rows!Part(r.section).protocol = "b524" /\ Rows!Part(r.section).section = r.section
        /\ Rows!Part(r.section).level = "section"
    BY DEF Rows!Part, Rows!Group, Rows!Node
  <2> QED
    BY <1>1, <2>1 DEF Rows!Navigates
<1>5. /\ n.protocol = "b524" => n.section \in {"none", "controller_registers", "device_slots"}
                                \/ n.section # r.section
      /\ n.protocol # "b524" => ~ Rows!Navigates(n) /\ n.level = "root"
  BY <1>1 DEF Appears
<1>6. NodeKind(n)
  BY NodesAre DEF Opened
<1>7. CASE n = Rows!Root
  BY <1>2, <1>7 DEF Appears, Rows!Root, Rows!Node
<1>8. CASE n = Rows!Top("b524")
  BY <1>3, <1>8 DEF Appears, Rows!Top, Rows!Node
<1>9. ASSUME NEW s \in Rows!Sections, n = Rows!Part(s) PROVE FALSE
  <2>1. n.level = "section" /\ n.protocol = "b524" /\ n.section = s
    BY <1>9 DEF Rows!Part, Rows!Node
  <2>2. s = r.section
    BY <2>1 DEF Appears
  <2> QED
    BY <1>1, <1>4, <1>9, <2>1, <2>2 DEF Appears
<1>10. ASSUME NEW u \in Rows!Routes, n = Rows!Group(Rows!Section(u[1]), u[2])
       PROVE  n = Rows!Group(Rows!Section(v[1]), v[2]) /\ ~ Rows!Navigates(n)
  <2>1. n.level = "group" /\ n.protocol = "b524" /\ n.section = Rows!Section(u[1]) /\ n.group = u[2]
    BY <1>10 DEF Rows!Group, Rows!Node
  <2>2. ~ Rows!Navigates(n) /\ n.section = r.section /\ n.group = r.place[2]
    BY <2>1, SectionFacts DEF Appears
  <2> QED
    BY <1>10, <2>1, <2>2
<1>11. CASE InstanceNode(n)
  <2>1. n.level = "instance" /\ n.protocol = "b524"
        /\ n.section \in {"controller_registers", "device_slots"}
    BY <1>11, SectionFacts DEF InstanceNode, Rows!Node
  <2> QED
    BY <1>11, <2>1 DEF Appears
<1>12. CASE OtherNode(n)
  <2>1. \/ n.protocol = "b524" /\ n.section = "operation" /\ n.level = "group"
        \/ n.protocol \in {"b555", "b516", "b509"} /\ n.level # "root"
    BY <1>12 DEF OtherNode, Rows!Group, Rows!Top, Rows!Node
  <2> QED
    BY <1>1, <2>1 DEF Appears
<1> QED
  BY <1>6, <1>7, <1>8, <1>9, <1>10, <1>11, <1>12 DEF NodeKind

(* A register row is under its instance, if the tree shows that, and under *)
(* its group, if that has no instances.                                    *)
LEMMA RegisterHome ==
  ASSUME FileInv, Opened, NEW r \in store.rows, Rows!IsRegister(r),
         \/ ~ Rows!Instanced(r.place[1], r.place[2])
         \/ Rows!Visible(Rows!Instance(r.place))
  PROVE  \E m : Home(r, m)
<1>1. PICK v \in Rows!Routes : \E e \in Rows!View(v[1], v[2]) :
           /\ r = Rows!Row("b524", Rows!Section(v[1]), e.place, Rows!TabOf(e.kind))
           /\ e.place[1] = v[1] /\ e.place[2] = v[2] /\ e \in Rows!Entries
  BY RegisterRowIs DEF Opened
<1>2. PICK e \in Rows!View(v[1], v[2]) :
           /\ r = Rows!Row("b524", Rows!Section(v[1]), e.place, Rows!TabOf(e.kind))
           /\ e.place[1] = v[1] /\ e.place[2] = v[2] /\ e \in Rows!Entries
  BY <1>1
<1>3. /\ r.protocol = "b524" /\ r.section = Rows!Section(v[1]) /\ r.place = e.place
      /\ r.place[1] = v[1] /\ r.place[2] = v[2] /\ r.tab \in {"config", "state"}
  BY <1>2 DEF Rows!Row, Rows!TabOf
<1>4. r.section \in Rows!Sections
  BY <1>3 DEF Opened, Rows!Sections
<1>5. v[1] \in {2, 6} /\ r.section \in {"controller_registers", "device_slots"}
  BY <1>3, RouteFacts, SectionFacts
<1> DEFINE G == Rows!Group(Rows!Section(v[1]), v[2])
           I == Rows!Node("instance", "b524", Rows!Section(v[1]), v[2], v[1], e.place[3])
<1>6. /\ G.level = "group" /\ G.protocol = "b524" /\ G.section = r.section /\ G.group = v[2]
      /\ I.level = "instance" /\ I.protocol = "b524" /\ I.section = r.section /\ I.group = v[2]
      /\ I.instance = e.place[3]
  BY <1>3 DEF Rows!Group, Rows!Node
<1>7. G \in store.nodes /\ Rows!InTree(G)
  BY <1>3, <1>4, PathThere
<1>8. ASSUME NEW n \in store.nodes, InstanceNode(n), n.section = r.section, n.group = v[2]
      PROVE  Rows!Instanced(v[1], v[2]) /\ n.opcode = v[1]
  <2>1. PICK u \in Rows!Routes : \E x \in Rows!View(u[1], u[2]) :
           /\ Rows!Instanced(u[1], u[2])
           /\ n = Rows!Node("instance", "b524", Rows!Section(u[1]), u[2], u[1], x.place[3])
    BY <1>8 DEF InstanceNode
  <2>2. n.section = Rows!Section(u[1]) /\ n.group = u[2] /\ n.opcode = u[1]
    BY <2>1 DEF Rows!Node
  <2>3. u[1] = v[1]
    BY <1>3, <1>5, <1>8, <2>2, RouteFacts, SectionFacts
  <2> QED
    BY <1>8, <2>1, <2>2, <2>3
<1>9. ASSUME NEW n \in store.nodes, Rows!At(r, n)
      PROVE  (n = G /\ ~ Rows!Navigates(G)) \/ (n = I /\ InstanceNode(I))
  <2>1. (n = G /\ ~ Rows!Navigates(n)) \/ (InstanceNode(n) /\ Rows!OfInstance(n, r))
    BY <1>3, <1>4, <1>9, AtAppears, RegisterAppears
  <2>2. CASE InstanceNode(n) /\ Rows!OfInstance(n, r)
    <3>1. n.section = r.section /\ n.group = v[2] /\ n.instance = e.place[3]
      BY <1>3, <2>2 DEF Rows!OfInstance
    <3>2. n.opcode = v[1]
      BY <1>8, <2>2, <3>1
    <3>3. n = Rows!Node("instance", "b524", n.section, n.group, n.opcode, n.instance)
      BY <2>2 DEF InstanceNode, Rows!Node
    <3>4. n = I
      BY <1>3, <3>1, <3>2, <3>3
    <3> QED
      BY <2>2, <3>4
  <2> QED
    BY <2>1, <2>2
<1> HIDE DEF G, I
<1>10. CASE Rows!Instanced(v[1], v[2])
  <2>1. Rows!Visible(Rows!Instance(e.place))
    BY <1>3, <1>10
  <2>2. InstanceNode(I)
    BY <1>10, <2>1 DEF InstanceNode, I
  <2>3. I \in store.nodes
    BY <2>2, NodesAre DEF Opened, NodeKind
  <2>4. Rows!InTree(I)
    <3>1. PathTo(v, I)
      BY <1>3, <1>6 DEF PathTo
    <3> QED
      BY <1>3, <1>4, <2>3, <3>1, PathThere
  <2>5. Rows!Navigates(G)
    BY <1>5, <1>6, <2>3 DEF Rows!Navigates
  <2>6. ~ Rows!Navigates(I)
    BY <1>6 DEF Rows!Navigates
  <2>7. Appears(I, r)
    BY <1>3, <1>6, <2>6 DEF Appears, Rows!OfInstance
  <2>8. Rows!At(r, I)
    BY <1>3, <1>6, <2>4, <2>7, AppearsAt
  <2>9. Rows!Leaf(I)
    BY <1>6, Parents DEF Rows!Leaf
  <2>10. \A n \in store.nodes : Rows!At(r, n) => n = I
    BY <1>9, <2>5
  <2> QED
    BY <2>3, <2>8, <2>9, <2>10 DEF Home
<1>11. CASE ~ Rows!Instanced(v[1], v[2])
  <2>1. v[1] = 2 /\ ~ Rows!Profiled(v[2]) /\ r.section = "controller_registers"
    BY <1>3, <1>5, <1>11 DEF Rows!Instanced, Rows!Section
  <2>2. \A c \in store.nodes : ~ (c.level = "instance" /\ c.protocol = "b524"
                                   /\ c.section = r.section /\ c.group = v[2])
    <3> SUFFICES ASSUME NEW c \in store.nodes, c.level = "instance", c.protocol = "b524",
                        c.section = r.section, c.group = v[2]
                 PROVE  FALSE
      OBVIOUS
    <3>1. NodeKind(c)
      BY NodesAre DEF Opened
    <3>2. InstanceNode(c)
      BY <3>1 DEF NodeKind, OtherNode, Rows!Root, Rows!Top, Rows!Part, Rows!Group, Rows!Node
    <3> QED
      BY <1>8, <1>11, <3>2
  <2>3. ~ Rows!Navigates(G)
    BY <1>6, <2>1, <2>2 DEF Rows!Navigates
  <2>4. Appears(G, r)
    BY <1>3, <1>6, <2>3 DEF Appears
  <2>5. Rows!At(r, G)
    BY <1>3, <1>6, <1>7, <2>4, AppearsAt
  <2>6. \A n \in store.nodes : Rows!At(r, n) => n = G
    <3> SUFFICES ASSUME NEW n \in store.nodes, Rows!At(r, n) PROVE n = G
      OBVIOUS
    <3>1. CASE n = I /\ InstanceNode(I)
      BY <1>6, <1>8, <1>11, <3>1
    <3> QED
      BY <1>9, <3>1
  <2>7. Rows!Leaf(G)
    <3> SUFFICES ASSUME NEW c \in store.nodes, Rows!Parent(c) = G PROVE FALSE
      BY DEF Rows!Leaf
    <3>1. c.level = "instance" /\ G = Rows!Group(c.section, c.group)
      BY <1>6, Parents
    <3>2. c.section = r.section /\ c.group = v[2]
      BY <1>6, <3>1 DEF Rows!Group, Rows!Node
    <3>3. c.protocol = "b524"
      <4>1. NodeKind(c)
        BY NodesAre DEF Opened
      <4> QED
        BY <3>1, <4>1 DEF NodeKind, InstanceNode, OtherNode, Rows!Root, Rows!Top, Rows!Part,
           Rows!Group, Rows!Node
    <3> QED
      BY <2>2, <3>1, <3>2, <3>3
  <2> QED
    BY <1>7, <2>5, <2>6, <2>7 DEF Home
<1> QED
  BY <1>10, <1>11

(* The rows beside the registers that are to be found under one node.      *)
LEMMA OtherRowIs ==
  ASSUME FileInv, NEW r \in Rows!Rows, ~ Rows!IsRegister(r), r.section # "operation", r.tab = "state"
  PROVE  \/ /\ file.other = "system"
            /\ r = Rows!Row("b524", "system_information", <<0, 0, 0, 1>>, "state")
         \/ /\ file.other \in {"b555", "b516"}
            /\ r = Rows!Row(file.other, "none", <<0, 1, 0, 1>>, "state")
         \/ /\ file.other = "b509"
            /\ \E q \in {1, 3} : r = Rows!Row("b509", "none", <<0, 0, 0, q>>, "state")
<1>1. r \notin Rows!RegisterRows
  BY SectionFacts DEF Rows!IsRegister, Rows!RegisterRows, Rows!Row
<1>2. r \in Rows!OtherRows
  BY <1>1 DEF Rows!Rows
<1> QED
  BY <1>2 DEF Rows!OtherRows, Rows!SystemRows, Rows!OperationRows, Rows!B555Config,
     Rows!B555Slots, Rows!B516Rows, Rows!B509Rows, Rows!Of, Rows!Row

(* The system information is under its section.                            *)
LEMMA SystemHome ==
  ASSUME FileInv, Opened, NEW r \in store.rows, file.other = "system",
         r = Rows!Row("b524", "system_information", <<0, 0, 0, 1>>, "state")
  PROVE  Home(r, Rows!Part("system_information"))
<1> DEFINE P == Rows!Part("system_information")
<1>1. r.protocol = "b524" /\ r.section = "system_information" /\ r.tab = "state"
  BY DEF Rows!Row
<1>2. r.section \in Rows!Sections
  BY <1>1 DEF Opened, Rows!Sections
<1>3. {Rows!Root, Rows!Top("b524"), P} \subseteq store.nodes
  BY <1>1, <1>2, NodesAre DEF Opened, NodeKind
<1>4. P.level = "section" /\ P.protocol = "b524" /\ P.section = "system_information"
  BY DEF Rows!Part, Rows!Node
<1>5. Rows!InTree(P)
  <2>1. /\ Rows!Parent(P) = Rows!Top("b524") /\ Rows!Parent(Rows!Top("b524")) = Rows!Root
        /\ Rows!Parent(Rows!Root) = Rows!Root
    BY DEF Rows!Parent, Rows!Root, Rows!Top, Rows!Part, Rows!Node
  <2> QED
    BY <1>3, <2>1 DEF Rows!InTree
<1>6. Rows!At(r, P)
  <2>1. Appears(P, r)
    BY <1>1, <1>4 DEF Appears
  <2> QED
    BY <1>1, <1>4, <1>5, <2>1, AppearsAt
<1>7. ASSUME NEW n \in store.nodes PROVE NodeKind(n) /\ ~ OtherNode(n)
  BY NodesAre DEF Opened, OtherNode
<1>8. ASSUME NEW n \in store.nodes, Rows!At(r, n) PROVE n = P
  <2>1. Appears(n, r)
    BY <1>8, AtAppears
  <2>2. n # Rows!Root
    <3>1. Rows!Navigates(Rows!Root)
      BY <1>3, RootNavigates DEF Rows!Root, Rows!Top, Rows!Node
    <3> QED
      BY <2>1, <3>1 DEF Appears, Rows!Root, Rows!Node
  <2>3. n # Rows!Top("b524")
    <3>1. Rows!Navigates(Rows!Top("b524"))
      BY <1>3, <1>4, TopNavigates
    <3> QED
      BY <2>1, <3>1 DEF Appears, Rows!Top, Rows!Node
  <2>4. ASSUME NEW s, n = Rows!Part(s) PROVE n = P
    <3>1. n.level = "section" /\ n.section = s
      BY <2>4 DEF Rows!Part, Rows!Node
    <3> QED
      BY <1>1, <2>1, <2>4, <3>1 DEF Appears
  <2>5. ASSUME NEW v \in Rows!Routes, n = Rows!Group(Rows!Section(v[1]), v[2]) PROVE FALSE
    <3>1. n.level = "group" /\ n.section \in {"controller_registers", "device_slots"}
      BY <2>5, SectionFacts DEF Rows!Group, Rows!Node
    <3> QED
      BY <1>1, <2>1, <3>1 DEF Appears
  <2>6. ASSUME InstanceNode(n) PROVE FALSE
    <3>1. n.level = "instance" /\ n.section \in {"controller_registers", "device_slots"}
      BY <2>6, SectionFacts DEF InstanceNode, Rows!Node
    <3> QED
      BY <1>1, <2>1, <3>1 DEF Appears, Rows!OfInstance
  <2> QED
    BY <1>7, <2>2, <2>3, <2>4, <2>5, <2>6 DEF NodeKind
<1>9. Rows!Leaf(P)
  <2> SUFFICES ASSUME NEW c \in store.nodes, Rows!Parent(c) = P PROVE FALSE
    BY DEF Rows!Leaf
  <2>1. c.level = "group" /\ P = Rows!Part(c.section)
    BY <1>4, Parents
  <2>2. c.section = "system_information"
    BY <1>4, <2>1 DEF Rows!Part, Rows!Node
  <2> QED
    BY <1>7, <2>1, <2>2, SectionFacts DEF NodeKind, InstanceNode, Rows!Root, Rows!Top,
       Rows!Part, Rows!Group, Rows!Node
<1> QED
  BY <1>3, <1>6, <1>8, <1>9 DEF Home

(* A program or a range is under a node of its own protocol.               *)
LEMMA ProtocolHome ==
  ASSUME FileInv, Opened, NEW r \in store.rows, NEW p \in {"b555", "b516", "b509"},
         file.other = p, r.protocol = p, r.tab = "state",
         NEW m \in store.nodes, m.protocol = p, m.level \in {"group", "range"},
         m.level = "group" => m.section = "none",
         Rows!Top(p) \in store.nodes, Appears(m, r),
         \A n \in store.nodes : n.protocol = p /\ Appears(n, r) => n = m \/ n = Rows!Top(p)
  PROVE  Home(r, m)
<1>1. \A c \in store.nodes : c.protocol = p => c.level \in {"protocol", "group", "range"}
  <2> SUFFICES ASSUME NEW c \in store.nodes, c.protocol = p
               PROVE  c.level \in {"protocol", "group", "range"}
    OBVIOUS
  <2>1. NodeKind(c)
    BY NodesAre DEF Opened
  <2>2. OtherNode(c)
    BY <2>1 DEF NodeKind, InstanceNode, Rows!Root, Rows!Top, Rows!Part, Rows!Group, Rows!Node
  <2> QED
    BY <2>2 DEF OtherNode, Rows!Top, Rows!Group, Rows!Node
<1>2. Rows!Root \in store.nodes
  BY NodesAre DEF Opened, NodeKind
<1>3. Rows!Parent(m) = Rows!Top(p)
  <2>1. Rows!Part("none") \notin store.nodes
    <3>1. ~ NodeKind(Rows!Part("none"))
      <4>1. ~ InstanceNode(Rows!Part("none")) /\ ~ OtherNode(Rows!Part("none"))
        BY DEF InstanceNode, OtherNode, Rows!Top, Rows!Part, Rows!Group, Rows!Node
      <4>2. \A s \in Rows!Sections : Rows!Part("none") # Rows!Part(s)
        BY SectionsAre DEF Rows!Part, Rows!Node
      <4> QED
        BY <4>1, <4>2 DEF NodeKind, Rows!Root, Rows!Top, Rows!Part, Rows!Group, Rows!Node
    <3> QED
      BY <3>1, NodesAre DEF Opened
  <2>2. CASE m.level = "group"
    BY <2>1, <2>2 DEF Rows!Parent
  <2>3. CASE m.level = "range"
    <3>1. p = "b509"
      <4>1. NodeKind(m)
        BY NodesAre DEF Opened
      <4> QED
        BY <2>3, <4>1 DEF NodeKind, InstanceNode, OtherNode, Rows!Root, Rows!Top, Rows!Part,
           Rows!Group, Rows!Node
    <3> QED
      BY <2>3, <3>1 DEF Rows!Parent
  <2> QED
    BY <2>2, <2>3
<1>4. Rows!InTree(m)
  <2>1. Rows!Parent(Rows!Top(p)) = Rows!Root /\ Rows!Parent(Rows!Root) = Rows!Root
    BY DEF Rows!Parent, Rows!Root, Rows!Top, Rows!Node
  <2> QED
    BY <1>2, <1>3, <2>1 DEF Rows!InTree
<1>5. Rows!At(r, m)
  BY <1>4, AppearsAt
<1>6. ASSUME NEW n \in store.nodes, Rows!At(r, n) PROVE n = m
  <2>1. Appears(n, r)
    BY <1>6, AtAppears
  <2>2. n # Rows!Top(p)
    <3>1. Rows!Navigates(Rows!Top(p))
      BY TopNavigates
    <3> QED
      BY <2>1, <3>1 DEF Appears, Rows!Top, Rows!Node
  <2>3. n # Rows!Root
    <3>1. Rows!Navigates(Rows!Root)
      BY RootNavigates DEF Rows!Root, Rows!Node
    <3> QED
      BY <2>1, <3>1 DEF Appears, Rows!Root, Rows!Node
  <2>4. n.level # "root"
    <3>1. NodeKind(n)
      BY NodesAre DEF Opened
    <3> QED
      BY <2>3, <3>1 DEF NodeKind, InstanceNode, OtherNode, Rows!Top, Rows!Part, Rows!Group,
         Rows!Node
  <2>5. n.protocol = p
    BY <2>1, <2>4 DEF Appears
  <2> QED
    BY <2>1, <2>2, <2>5
<1>7. Rows!Leaf(m)
  <2> SUFFICES ASSUME NEW c \in store.nodes, Rows!Parent(c) = m PROVE FALSE
    BY DEF Rows!Leaf
  <2>1. m.level = "group" /\ m = Rows!Group(c.section, c.group)
    BY Parents
  <2> QED
    BY <2>1 DEF Rows!Group, Rows!Node
<1> QED
  BY <1>5, <1>6, <1>7 DEF Home

(* Every row that is to be found has a home.                               *)
LEMMA OtherHome ==
  ASSUME FileInv, Opened, NEW r \in store.rows, ~ Rows!IsRegister(r), r.section # "operation",
         r.tab = "state"
  PROVE  \E m : Home(r, m)
<1>1. \/ /\ file.other = "system"
         /\ r = Rows!Row("b524", "system_information", <<0, 0, 0, 1>>, "state")
      \/ /\ file.other \in {"b555", "b516"}
         /\ r = Rows!Row(file.other, "none", <<0, 1, 0, 1>>, "state")
      \/ /\ file.other = "b509"
         /\ \E q \in {1, 3} : r = Rows!Row("b509", "none", <<0, 0, 0, q>>, "state")
  BY OtherRowIs DEF Opened
<1>2. ASSUME NEW n \in store.nodes, n.protocol \notin {"none", "b524"} PROVE OtherNode(n)
  <2>1. NodeKind(n)
    BY NodesAre DEF Opened
  <2> QED
    BY <1>2, <2>1 DEF NodeKind, InstanceNode, Rows!Root, Rows!Top, Rows!Part, Rows!Group, Rows!Node
<1>3. CASE file.other = "system"
  BY <1>1, <1>3, SystemHome
<1>4. CASE file.other \in {"b555", "b516"}
  <2> DEFINE m == Rows!Node("group", file.other, "none", 1, 0, 0)
  <2>1. m \in store.nodes /\ Rows!Top(file.other) \in store.nodes
    BY <1>4, NodesAre DEF Opened, NodeKind, OtherNode
  <2>2. m.protocol = file.other /\ m.level = "group" /\ m.section = "none" /\ m.group = 1
    BY DEF Rows!Node
  <2>3. r.protocol = file.other /\ r.section = "none" /\ r.place[2] = 1
    BY <1>1, <1>4 DEF Rows!Row
  <2>4. ~ Rows!Navigates(m)
    <3>1. \A c \in store.nodes : c.protocol = file.other => c.level # "instance"
      BY <1>2, <1>4 DEF OtherNode, Rows!Top, Rows!Node
    <3> QED
      BY <1>4, <2>2, <3>1 DEF Rows!Navigates
  <2>5. Appears(m, r)
    BY <2>2, <2>3, <2>4 DEF Appears
  <2>6. \A n \in store.nodes : n.protocol = file.other => n = m \/ n = Rows!Top(file.other)
    BY <1>2, <1>4 DEF OtherNode
  <2> HIDE DEF m
  <2>7. Home(r, m)
    BY <1>4, <2>1, <2>2, <2>3, <2>5, <2>6, ProtocolHome
  <2> QED
    BY <2>7
<1>5. CASE file.other = "b509"
  <2>1. PICK q \in {1, 3} : r = Rows!Row("b509", "none", <<0, 0, 0, q>>, "state")
    BY <1>1, <1>5
  <2> DEFINE m == Rows!Node("range", "b509", "none", q, 0, q)
  <2>2. m \in store.nodes /\ Rows!Top("b509") \in store.nodes
    BY <1>5, NodesAre DEF Opened, NodeKind, OtherNode
  <2>3. m.protocol = "b509" /\ m.level = "range" /\ m.group = q /\ m.instance = q
    BY DEF Rows!Node
  <2>4. r.protocol = "b509" /\ r.section = "none" /\ r.place[4] = q
    BY <2>1 DEF Rows!Row
  <2>5. ~ Rows!Navigates(m)
    BY <2>3 DEF Rows!Navigates
  <2>6. Appears(m, r)
    BY <2>3, <2>4, <2>5 DEF Appears
  <2>7. ASSUME NEW n \in store.nodes, n.protocol = "b509", Appears(n, r)
        PROVE  n = m \/ n = Rows!Top("b509")
    <3>1. CASE n = Rows!Top("b509")
      BY <3>1
    <3>2. CASE \E k \in {1, 3} : n = Rows!Node("range", "b509", "none", k, 0, k)
      <4>1. PICK k \in {1, 3} : n = Rows!Node("range", "b509", "none", k, 0, k)
        BY <3>2
      <4>2. n.level = "range" /\ n.group = k /\ n.instance = k
        BY <4>1 DEF Rows!Node
      <4>3. q \in k..k
        BY <2>4, <2>7, <4>2 DEF Appears
      <4>4. q = k
        BY <4>3
      <4> QED
        BY <4>1, <4>4
    <3> QED
      BY <1>2, <1>5, <2>7, <3>1, <3>2 DEF OtherNode
  <2> HIDE DEF m
  <2>8. Home(r, m)
    BY <1>5, <2>1, <2>2, <2>3, <2>4, <2>6, <2>7, ProtocolHome
  <2> QED
    BY <2>8
<1> QED
  BY <1>1, <1>3, <1>4, <1>5

(* What is open is what the invariant says: the rows are complete and each *)
(* is found in one place.                                                  *)
LEMMA RowsFollow == RowsInv => Rows!RowsTrue
<1> SUFFICES ASSUME RowsInv PROVE Rows!RowsTrue
  OBVIOUS
<1>1. Rows!TypeOK
  BY DEF RowsInv, Rows!TypeOK
<1>2. ASSUME store.status = "open" PROVE Rows!Navigable
  <2>1. FileInv /\ Opened
    BY <1>2 DEF RowsInv
  <2>2. ASSUME NEW r \in store.rows,
               IF Rows!IsRegister(r)
               THEN ~ Rows!Instanced(r.place[1], r.place[2]) \/ Rows!Visible(Rows!Instance(r.place))
               ELSE r.section # "operation" /\ r.tab = "state"
        PROVE  /\ Rows!Cardinality({n \in store.nodes : Rows!At(r, n)}) = 1
               /\ \A n \in store.nodes : Rows!At(r, n) => Rows!Leaf(n)
    <3>1. PICK m : Home(r, m)
      BY <2>1, <2>2, RegisterHome, OtherHome
    <3> QED
      BY <3>1, HomeIsOne
  <2> QED
    BY <2>2 DEF Rows!Navigable
<1>3. ASSUME store.status = "open" PROVE Rows!AnsweredShown
  BY <1>3, AnsweredHasRow DEF RowsInv
<1> QED
  BY <1>1, <1>2, <1>3, EntriesStay DEF Rows!RowsTrue

RowsPart == part = "store" => RowsInv

(* What is in an artifact is in the browser, once and where it belongs: a  *)
(* migrated entry keeps its opcode, a planned register that answered has a *)
(* row, and a row to be found is under exactly one node, a leaf            *)
(* (migrate_artifact_schema, build_browse_store, rows_for_selection).      *)
THEOREM RowsAreTrue == AllSpec => []RowsTrue
<1>1. AllInit => RowsPart
  BY RowsInit DEF AllInit, RowsPart
<1>2. RowsPart /\ [AllNext]_allVars => RowsPart'
  <2> SUFFICES ASSUME RowsPart, [AllNext]_allVars, part' = "store" PROVE RowsInv'
    BY DEF RowsPart
  <2>1. part' = part
    BY DEF AllNext, allVars, OthersThanRegisters, OthersThanEdit, OthersThanReplay,
           OthersThanRows, OthersThanDescribe
  <2>2. RowsInv
    BY <2>1 DEF RowsPart
  <2>3. CASE UNCHANGED onlyRows
    BY <2>2, <2>3, RowsRest
  <2>4. CASE Rows!Next
    BY <2>2, <2>4, RowsStep
  <2>5. UNCHANGED onlyRows \/ Rows!Next
    BY <2>1 DEF AllNext, allVars, OthersThanRegisters, OthersThanEdit, OthersThanReplay,
           OthersThanDescribe
  <2> QED
    BY <2>3, <2>4, <2>5
<1>3. RowsPart => RowsTrue
  BY RowsFollow DEF RowsPart, RowsTrue
<1> QED
  BY <1>1, <1>2, <1>3, PTL DEF AllSpec
=============================================================================
