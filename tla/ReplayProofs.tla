---------------------------- MODULE ReplayProofs ----------------------------
(***************************************************************************)
(* Proofs about the reader of enhanced transport traces, for every number  *)
(* of requests, attempts and reconnections.                                *)
(*                                                                         *)
(* The reader goes through a line marker by marker and through the         *)
(* exchanges one by one; both folds are shown to go element by element.    *)
(* ReplayInv relates what it has collected to what the transport did:      *)
(* every exchange is of one request, and the numbers, the counts and the   *)
(* results are the transport's as long as the two are not confused.  Most  *)
(* actions are quiet: they amend the last request and its exchange only.   *)
(***************************************************************************)
EXTENDS ScanPartsProofs

(* A fold over a list: what is left after each of its elements.  TopOf is  *)
(* the element the library takes off first.                                *)
TopOf(S) == CHOOSE x \in S : \A y \in S : x >= y

(* A non-empty set of indices has a highest one.                           *)
LEMMA TopFacts ==
  ASSUME NEW m \in Nat, NEW S \in SUBSET (1..m), S # {}
  PROVE  TopOf(S) \in S /\ \A y \in S : y <= TopOf(S)
<1>1. IsFiniteSet(S) /\ S \in SUBSET Nat
  <2>1. IsFiniteSet(1..m)
    <3>1. 1 \in Int /\ m \in Int
      OBVIOUS
    <3> QED
      BY <3>1, FS_Interval
  <2>2. IsFiniteSet(S)
    BY <2>1, FS_Subset, Zenon
  <2> QED
    BY <2>2
<1>2. PICK x \in S : \A y \in S : y <= x
  BY <1>1, GreatestNumber
<1>3. \A y \in S : x >= y
  BY <1>1, <1>2
<1>4. TopOf(S) \in S /\ \A y \in S : TopOf(S) >= y
  BY <1>3, Zenon DEF TopOf
<1> QED
  BY <1>1, <1>4

(* The highest index of a set of indices up to m + 1 is m + 1, or the set  *)
(* ends at m already.                                                      *)
LEMMA TopOfMore ==
  ASSUME NEW m \in Nat, NEW S \in SUBSET (1..(m + 1))
  PROVE  /\ m + 1 \in S => S # {} /\ TopOf(S) = m + 1 /\ S \ {m + 1} \in SUBSET (1..m)
         /\ m + 1 \notin S => S \in SUBSET (1..m)
         /\ S # {} => TopOf(S) \in S
<1>1. m + 1 \in Nat /\ S \in SUBSET Nat
  OBVIOUS
<1>2. S # {} => TopOf(S) \in S /\ \A y \in S : y <= TopOf(S)
  BY <1>1, TopFacts, Zenon
<1>3. m + 1 \in S => TopOf(S) = m + 1
  <2> SUFFICES ASSUME m + 1 \in S PROVE TopOf(S) = m + 1
    OBVIOUS
  <2>1. PICK x : x = TopOf(S)
    OBVIOUS
  <2>2. x \in 1..(m + 1) /\ m + 1 <= x
    BY <1>2, <2>1, Zenon
  <2> QED
    BY <2>1, <2>2
<1> QED
  BY <1>2, <1>3

(* What is folded over a list: the lines of a trace, read one after the    *)
(* other, and the evidence of its exchanges for a register.                *)
Better(old, e) ==
  IF Replay!OfRegister(e) /\ Replay!Supersedes(Replay!State(e), old) THEN Replay!State(e) ELSE old
Taken(w, old, e) == IF w = "line" THEN Replay!ReadLine(old, e) ELSE Better(old, e)
ListStep(w, t, s, T, h) == IF T = {} THEN t ELSE Taken(w, h[T \ {TopOf(T)}], s[TopOf(T)])
IsFold(w, t, s, m, h) == h = [T \in SUBSET (1..m) |-> ListStep(w, t, s, T, h)]

(* The fold of a list is defined at every length: if there were a shortest *)
(* list without one, the fold of the list one shorter could be extended.   *)
LEMMA FoldExists ==
  ASSUME NEW w, NEW t, NEW s, NEW m \in Nat
  PROVE  \E h : IsFold(w, t, s, m, h)
<1> DEFINE Claim(k) == \E h : h = [T \in SUBSET (1..k) |-> ListStep(w, t, s, T, h)]
           Wrong == {k \in Nat : ~ Claim(k)}
<1>1. Claim(0)
  <2>1. \A T \in SUBSET (1..0) : T = {}
    OBVIOUS
  <2>2. [T \in SUBSET (1..0) |-> t]
        = [T \in SUBSET (1..0) |-> ListStep(w, t, s, T, [T2 \in SUBSET (1..0) |-> t])]
    BY <2>1 DEF ListStep
  <2> QED
    BY <2>2, Zenon
<1>2. ASSUME NEW k \in Nat, Claim(k)
      PROVE  Claim(k + 1)
  <2>1. PICK g : g = [T \in SUBSET (1..k) |-> ListStep(w, t, s, T, g)]
    BY <1>2
  <2> DEFINE h == [T \in SUBSET (1..(k + 1)) |->
                     IF k + 1 \in T THEN Taken(w, g[T \ {k + 1}], s[k + 1]) ELSE g[T]]
  <2>2. ASSUME NEW T \in SUBSET (1..(k + 1))
        PROVE  h[T] = ListStep(w, t, s, T, h)
    <3>1. /\ k + 1 \in T => T # {} /\ TopOf(T) = k + 1 /\ T \ {k + 1} \in SUBSET (1..k)
          /\ k + 1 \notin T => T \in SUBSET (1..k)
          /\ T # {} => TopOf(T) \in T
      BY TopOfMore
    <3>2. \A S \in SUBSET (1..k) : S \in SUBSET (1..(k + 1)) /\ h[S] = g[S]
      OBVIOUS
    <3>3. CASE k + 1 \in T
      <4>1. h[T \ {k + 1}] = g[T \ {k + 1}]
        BY <3>1, <3>2, <3>3
      <4>2. h[T] = Taken(w, g[T \ {k + 1}], s[k + 1])
        BY <3>3
      <4> HIDE DEF h
      <4> QED
        BY <3>1, <3>3, <4>1, <4>2 DEF ListStep
    <3>4. CASE k + 1 \notin T
      <4>1. h[T] = g[T] /\ g[T] = ListStep(w, t, s, T, g)
        BY <2>1, <3>1, <3>2, <3>4
      <4>2. T # {} => h[T \ {TopOf(T)}] = g[T \ {TopOf(T)}]
        <5> DEFINE S == T \ {TopOf(T)}
        <5>1. S \in SUBSET (1..k)
          BY <3>1, <3>4, Zenon
        <5> QED
          BY <3>2, <5>1
      <4> HIDE DEF h
      <4> QED
        BY <4>1, <4>2 DEF ListStep
    <3> QED
      BY <3>3, <3>4
  <2>3. h = [T \in SUBSET (1..(k + 1)) |-> ListStep(w, t, s, T, h)]
    <3>1. h = [T \in SUBSET (1..(k + 1)) |-> h[T]]
      OBVIOUS
    <3> HIDE DEF h
    <3> QED BY <2>2, <3>1, Zenon
  <2> HIDE DEF h
  <2> QED
    BY <2>3
<1>3. ASSUME Wrong # {} PROVE FALSE
  <2>1. PICK k \in Wrong : \A j \in Wrong : k <= j
    <3>1. Wrong \in SUBSET Nat
      OBVIOUS
    <3> HIDE DEF Wrong
    <3> QED
      BY <1>3, <3>1, LeastNumber
  <2>2. k \in Nat /\ ~ Claim(k)
    OBVIOUS
  <2> HIDE DEF Claim
  <2>3. k # 0
    BY <1>1, <2>2
  <2>4. k - 1 \in Nat /\ k = (k - 1) + 1
    BY <2>2, <2>3
  <2>5. Claim(k - 1)
    BY <2>1, <2>4
  <2> QED
    BY <1>2, <2>2, <2>4, <2>5
<1>4. Claim(m)
  BY <1>3, Zenon
<1> QED
  BY <1>4 DEF IsFold

(* The values of a fold, one after the other.                              *)
Through(w, t, s, m, v) ==
  \E h : /\ h[0] = t
         /\ \A k \in 1..m : h[k] = Taken(w, h[k - 1], s[k])
         /\ v = h[m]

(* A fold passes through one value per element: the first is where it      *)
(* starts, each later one is the one before it with the element taken.     *)
LEMMA FoldGoesThrough ==
  ASSUME NEW w, NEW t, NEW s, NEW m \in Nat, NEW g, IsFold(w, t, s, m, g)
  PROVE  Through(w, t, s, m, g[1..m])
<1> DEFINE h == [k \in 0..m |-> g[1..k]]
<1>1. g = [T \in SUBSET (1..m) |-> ListStep(w, t, s, T, g)]
  BY DEF IsFold
<1>2. h[0] = t
  <2>1. 1..0 = {} /\ {} \in SUBSET (1..m)
    OBVIOUS
  <2>2. g[{}] = t
    BY <1>1, <2>1 DEF ListStep
  <2>3. h[0] = g[1..0]
    OBVIOUS
  <2> QED
    BY <2>1, <2>2, <2>3
<1>3. ASSUME NEW k \in 1..m PROVE h[k] = Taken(w, h[k - 1], s[k])
  <2>1. PICK j \in Nat : k = j + 1
    <3>1. k - 1 \in Nat /\ k = (k - 1) + 1
      OBVIOUS
    <3> QED
      BY <3>1
  <2>2. 1..k \in SUBSET (1..(j + 1)) /\ j + 1 \in 1..k /\ 1..k \in SUBSET (1..m)
    BY <2>1
  <2>3. 1..k # {} /\ TopOf(1..k) = k
    BY <2>1, <2>2, TopOfMore, Zenon
  <2>4. (1..k) \ {k} = 1..(k - 1)
    OBVIOUS
  <2>5. g[1..k] = Taken(w, g[1..(k - 1)], s[k])
    BY <1>1, <2>2, <2>3, <2>4, Zenon DEF ListStep
  <2>6. h[k] = g[1..k] /\ h[k - 1] = g[1..(k - 1)]
    OBVIOUS
  <2> QED
    BY <2>5, <2>6
<1>4. g[1..m] = h[m]
  OBVIOUS
<1> HIDE DEF h
<1> QED
  BY <1>2, <1>3, <1>4 DEF Through

ReadStep(t, s, T, h) == IF T = {} THEN t ELSE Replay!ReadLine(h[T \ {TopOf(T)}], s[TopOf(T)])
ReadFold(t, s) == CHOOSE h : h = [T \in SUBSET DOMAIN s |-> ReadStep(t, s, T, h)]
AllRead(t, s) == Replay!FoldLeft(Replay!ReadLine, t, s)

(* The reader's FoldLeft over the lines of a trace is such a fold.         *)
LEMMA ReadIsFold ==
  ASSUME NEW t, NEW s
  PROVE  AllRead(t, s) = ReadFold(t, s)[DOMAIN s]
BY Zenon DEF AllRead, Replay!FoldLeft, Replay!MapThenFoldSet, ReadFold, ReadStep, TopOf, Replay!Max

ReadThrough(t, s, m) ==
  \E h : /\ h[0] = t
         /\ \A k \in 1..m : h[k] = Replay!ReadLine(h[k - 1], s[k])
         /\ AllRead(t, s) = h[m]

(* Reading a list of lines goes through one trace per line, each read from *)
(* the one before (parse_trace_evidence's loop).                           *)
LEMMA ReadLines ==
  ASSUME NEW t, NEW s, NEW m \in Nat, DOMAIN s = 1..m
  PROVE  ReadThrough(t, s, m)
<1> DEFINE g == ReadFold(t, s)
<1>1. ASSUME NEW f, NEW T
      PROVE  ListStep("line", t, s, T, f) = ReadStep(t, s, T, f)
  BY DEF ListStep, ReadStep, Taken
<1>2. ASSUME NEW f
      PROVE  [T \in SUBSET (1..m) |-> ListStep("line", t, s, T, f)]
             = [T \in SUBSET (1..m) |-> ReadStep(t, s, T, f)]
  BY <1>1
<1>3. \E f : f = [T \in SUBSET DOMAIN s |-> ReadStep(t, s, T, f)]
  <2>1. PICK f : IsFold("line", t, s, m, f)
    BY FoldExists
  <2>2. f = [T \in SUBSET (1..m) |-> ListStep("line", t, s, T, f)]
    BY <2>1 DEF IsFold
  <2>3. f = [T \in SUBSET (1..m) |-> ReadStep(t, s, T, f)]
    BY <1>2, <2>2, Zenon
  <2> QED
    BY <2>3
<1>4. g = [T \in SUBSET DOMAIN s |-> ReadStep(t, s, T, g)]
  BY <1>3, Zenon DEF ReadFold
<1> HIDE DEF g
<1>5. IsFold("line", t, s, m, g)
  <2>1. g = [T \in SUBSET (1..m) |-> ReadStep(t, s, T, g)]
    BY <1>4
  <2> QED
    BY <1>2, <2>1, Zenon DEF IsFold
<1>6. PICK v : v = g[1..m]
  OBVIOUS
<1>7. Through("line", t, s, m, v)
  <2>1. Through("line", t, s, m, g[1..m])
    BY <1>5, FoldGoesThrough
  <2> QED
    BY <1>6, <2>1
<1>8. AllRead(t, s) = v
  BY <1>6, ReadIsFold DEF g
<1> QED
  BY <1>7, <1>8 DEF ReadThrough, Through, Taken

-----------------------------------------------------------------------------
(* What the reader of a trace holds, and the requests behind its lines.    *)
Outcomes == Replay!Answers \cup {Replay!None}
ExchangeRecords ==
  [seq : Nat, telegram : Replay!Telegrams, response : Outcomes, answers : Nat, attempts : Nat,
   reconnects : Nat, failed : BOOLEAN, cause : {Replay!None, "timeout", "other"},
   of : SUBSET Nat]
TraceRecords ==
  [exchanges : Seq(ExchangeRecords), active : Nat, offset : Nat, prev : Nat,
   recovering : BOOLEAN, init : BOOLEAN, precounted : BOOLEAN]
RequestRecords ==
  [telegram : Replay!Telegrams, attempts : Nat, early : Nat, sent : BOOLEAN, answer : Outcomes,
   failed : BOOLEAN, unmarked : BOOLEAN, reconnects : Nat]
LineRecords ==
  [kind : {"SEND_PROTO", "PARSED_PROTO", "RETRY", "LOCAL_NACK_RETRY", "RECOVERY",
           "REQUEST_FAILED"},
   seq : Nat, of : Nat, telegram : Replay!Telegrams, answer : Outcomes,
   cause : {"timeout", "other"}, attempts : Nat, reconnects : Nat]
Readable(t) == t \in TraceRecords /\ (t.active # 0 => t.active \in DOMAIN t.exchanges)

(* Two traces with the same exchanges but for their counts and causes.     *)
SameExchange(e, f) ==
  /\ f.seq = e.seq /\ f.telegram = e.telegram /\ f.response = e.response
  /\ f.answers = e.answers /\ f.of = e.of
Alike(t, u) ==
  /\ Readable(t) /\ Readable(u)
  /\ u.active = t.active /\ u.offset = t.offset /\ u.prev = t.prev
  /\ DOMAIN u.exchanges = DOMAIN t.exchanges
  /\ \A i \in DOMAIN t.exchanges : SameExchange(t.exchanges[i], u.exchanges[i])
Settles(t, u) ==
  \A i \in DOMAIN t.exchanges : t.exchanges[i].response # Replay!None =>
    u.exchanges[i].attempts = t.exchanges[i].attempts
SameCounts(t, u) ==
  \A i \in DOMAIN t.exchanges : u.exchanges[i].attempts = t.exchanges[i].attempts

(* Being alike but for the counts is transitive.                           *)
LEMMA AlikeAlike ==
  ASSUME NEW t, NEW u, NEW v, Alike(t, u), Alike(u, v)
  PROVE  Alike(t, v)
BY DEF Alike, SameExchange

(* The exchanges of a readable trace are a list of exchange records.       *)
LEMMA ListFacts ==
  ASSUME NEW t, Readable(t)
  PROVE  /\ t.exchanges \in Seq(ExchangeRecords) /\ Len(t.exchanges) \in Nat
         /\ DOMAIN t.exchanges = 1..Len(t.exchanges)
         /\ \A i \in DOMAIN t.exchanges : t.exchanges[i] \in ExchangeRecords
         /\ t.exchanges = <<>> <=> DOMAIN t.exchanges = {}
<1>1. t.exchanges \in Seq(ExchangeRecords)
  BY DEF Readable, TraceRecords
<1>2. PICK s \in Seq(ExchangeRecords) : s = t.exchanges
  BY <1>1
<1>3. Len(s) \in Nat /\ DOMAIN s = 1..Len(s) /\ \A i \in DOMAIN s : s[i] \in ExchangeRecords
  BY LenProperties, ElementOfSeq
<1>4. s = <<>> => DOMAIN s = {}
  BY <1>3, EmptySeq
<1>5. s # <<>> => 1 \in DOMAIN s
  <2>1. s # <<>> => Len(s) \in Nat \ {0}
    BY EmptySeq
  <2> QED
    BY <1>3, <2>1
<1> QED
  BY <1>2, <1>3, <1>4, <1>5

(* One exchange replaced.                                                  *)
Put(t, i, e) == [t EXCEPT !.exchanges[i] = e]

(* Putting a record at one exchange leaves the others and the reader's own *)
(* state alone.                                                            *)
LEMMA PutFacts ==
  ASSUME NEW t, Readable(t), NEW i \in DOMAIN t.exchanges, NEW e \in ExchangeRecords,
         NEW u, u = Put(t, i, e)
  PROVE  /\ Readable(u) /\ DOMAIN u.exchanges = DOMAIN t.exchanges
         /\ u.exchanges[i] = e
         /\ \A j \in DOMAIN t.exchanges \ {i} : u.exchanges[j] = t.exchanges[j]
         /\ u.active = t.active /\ u.offset = t.offset /\ u.prev = t.prev
         /\ u.recovering = t.recovering /\ u.init = t.init /\ u.precounted = t.precounted
<1>1. t \in TraceRecords
  BY DEF Readable
<1>2. Put(t, i, e) = [t EXCEPT !.exchanges = [t.exchanges EXCEPT ![i] = e]]
  BY DEF Put
<1>3. PICK s : s = [t.exchanges EXCEPT ![i] = e]
  BY Zenon
<1>4. s \in Seq(ExchangeRecords)
  BY <1>3, ListFacts, ExceptSeq
<1>5. DOMAIN s = DOMAIN t.exchanges /\ s[i] = e
      /\ \A j \in DOMAIN t.exchanges \ {i} : s[j] = t.exchanges[j]
  BY <1>3
<1>6. u = [t EXCEPT !.exchanges = s]
  BY <1>2, <1>3
<1>7. /\ u \in TraceRecords /\ u.exchanges = s
      /\ u.active = t.active /\ u.offset = t.offset /\ u.prev = t.prev
      /\ u.recovering = t.recovering /\ u.init = t.init /\ u.precounted = t.precounted
  BY <1>1, <1>4, <1>6, Zenon DEF TraceRecords
<1> QED
  BY <1>5, <1>7 DEF Readable

(* The last exchange of a number.                                          *)
LastOf(t, n) == Replay!Max(Replay!Numbered(t, n))

(* The last exchange of a number, when there is one, has that number.      *)
LEMMA LastFacts ==
  ASSUME NEW t, Readable(t), NEW n
  PROVE  /\ Replay!Numbered(t, n) # {} =>
              /\ LastOf(t, n) \in DOMAIN t.exchanges
              /\ t.exchanges[LastOf(t, n)].seq = n
         /\ \A j \in Replay!Numbered(t, n) : j <= LastOf(t, n)
<1> DEFINE N == Replay!Numbered(t, n)
<1>1. PICK m \in Nat : DOMAIN t.exchanges = 1..m
  BY ListFacts
<1>2. N \in SUBSET (1..m) /\ \A j \in N : t.exchanges[j].seq = n
  BY <1>1 DEF Replay!Numbered
<1>3. LastOf(t, n) = TopOf(N)
  BY Zenon DEF LastOf, TopOf, Replay!Max
<1> HIDE DEF N
<1>4. N # {} => TopOf(N) \in N /\ \A j \in N : j <= TopOf(N)
  BY <1>2, TopFacts
<1> QED
  BY <1>1, <1>2, <1>3, <1>4 DEF N

(* A line that is not INIT only ends the reader's memory of an INIT.       *)
LEMMA MarkerFacts ==
  ASSUME NEW t, Readable(t), NEW u, u = Replay!Marker(t)
  PROVE  /\ Alike(t, u) /\ u.exchanges = t.exchanges /\ u.init = FALSE
         /\ u.recovering = t.recovering
         /\ \A n : Replay!Numbered(u, n) = Replay!Numbered(t, n) /\ LastOf(u, n) = LastOf(t, n)
<1>1. /\ u \in TraceRecords /\ u.exchanges = t.exchanges /\ u.init = FALSE
      /\ u.recovering = t.recovering
      /\ u.active = t.active /\ u.offset = t.offset /\ u.prev = t.prev
  BY Zenon DEF Readable, TraceRecords, Replay!Marker
<1>2. \A n : Replay!Numbered(u, n) = Replay!Numbered(t, n)
  BY <1>1 DEF Replay!Numbered
<1>3. \A n : LastOf(u, n) = LastOf(t, n)
  BY <1>2 DEF LastOf
<1> QED
  BY <1>1, <1>2, <1>3 DEF Alike, SameExchange, Readable

Marked(t, u, i, e) ==
  /\ Alike(t, u) /\ ~ u.init /\ (u.recovering <=> t.recovering)
  /\ u.exchanges[i] = e
  /\ \A j \in DOMAIN t.exchanges \ {i} : u.exchanges[j] = t.exchanges[j]

(* The same with one exchange replaced.                                    *)
LEMMA MarkerPut ==
  ASSUME NEW t, Readable(t), NEW i \in DOMAIN t.exchanges, NEW e \in ExchangeRecords,
         SameExchange(t.exchanges[i], e), NEW u, u = Put(Replay!Marker(t), i, e)
  PROVE  Marked(t, u, i, e)
<1>1. PICK v : v = Replay!Marker(t)
  OBVIOUS
<1>2. /\ Alike(t, v) /\ v.exchanges = t.exchanges /\ v.init = FALSE
      /\ v.recovering = t.recovering
  BY <1>1, MarkerFacts, Zenon
<1>3. Readable(v) /\ i \in DOMAIN v.exchanges
  BY <1>2 DEF Alike
<1>4. /\ Readable(u) /\ DOMAIN u.exchanges = DOMAIN v.exchanges
      /\ u.exchanges[i] = e
      /\ \A j \in DOMAIN v.exchanges \ {i} : u.exchanges[j] = v.exchanges[j]
      /\ u.active = v.active /\ u.offset = v.offset /\ u.prev = v.prev
      /\ u.recovering = v.recovering /\ u.init = v.init
  BY <1>1, <1>3, PutFacts
<1>5. \A j \in DOMAIN t.exchanges : SameExchange(t.exchanges[j], u.exchanges[j])
  BY <1>2, <1>4 DEF SameExchange
<1>6. v.active = t.active /\ v.offset = t.offset /\ v.prev = t.prev
  BY <1>2 DEF Alike
<1> QED
  BY <1>2, <1>4, <1>5, <1>6 DEF Alike, Marked

(* The lines one at a time: INIT and START.                                *)
LEMMA InitRead ==
  ASSUME NEW t, Readable(t), NEW u, u = Replay!ReadLine(t, Replay!Plain("INIT"))
  PROVE  /\ Alike(t, u) /\ u.exchanges = t.exchanges /\ u.precounted = t.precounted
         /\ u.recovering = FALSE /\ (u.init <=> ~ t.recovering)
<1>1. u = Replay!ReadInit(t)
  BY DEF Replay!ReadLine, Replay!Plain
<1>2. /\ u \in TraceRecords /\ u.exchanges = t.exchanges /\ u.precounted = t.precounted
      /\ u.recovering = FALSE /\ (u.init <=> ~ t.recovering)
      /\ u.active = t.active /\ u.offset = t.offset /\ u.prev = t.prev
  BY <1>1, Zenon DEF Readable, TraceRecords, Replay!ReadInit
<1> QED
  BY <1>2 DEF Alike, SameExchange, Readable

(* What a START counts.                                                    *)
Counts(t) == ~ t.init /\ Replay!Unanswered(t)

(* START counts one attempt of the exchange under way, unless an INIT came *)
(* just before or that exchange has its answer.                            *)
LEMMA StartRead ==
  ASSUME NEW t, Readable(t), NEW u, u = Replay!ReadLine(t, Replay!Plain("START"))
  PROVE  /\ Alike(t, u) /\ u.recovering = t.recovering /\ u.init = t.init
         /\ ~ Counts(t) => u = t
         /\ Counts(t) =>
              /\ t.active \in DOMAIN t.exchanges /\ t.exchanges[t.active].response = Replay!None
              /\ u.precounted = TRUE
              /\ u.exchanges[t.active].attempts = t.exchanges[t.active].attempts + 1
         /\ \A i \in DOMAIN t.exchanges : (i # t.active \/ ~ Counts(t)) =>
              u.exchanges[i].attempts = t.exchanges[i].attempts
<1>1. u = Replay!ReadStart(t)
  BY DEF Replay!ReadLine, Replay!Plain
<1>2. CASE ~ Counts(t)
  <2>1. u = t
    BY <1>1, <1>2 DEF Replay!ReadStart, Counts
  <2> QED
    BY <1>2, <2>1 DEF Alike, SameExchange
<1>3. CASE Counts(t)
  <2>1. t.active \in DOMAIN t.exchanges /\ t.exchanges[t.active].response = Replay!None
    BY <1>3 DEF Counts, Replay!Unanswered, Readable
  <2>2. PICK e : e = [t.exchanges[t.active] EXCEPT !.attempts = @ + 1]
    BY Zenon
  <2>3. /\ e \in ExchangeRecords /\ SameExchange(t.exchanges[t.active], e)
        /\ e.attempts = t.exchanges[t.active].attempts + 1
    <3>1. t.exchanges[t.active] \in ExchangeRecords
      BY <2>1, ListFacts
    <3> QED
      BY <2>2, <3>1 DEF ExchangeRecords, SameExchange
  <2>4. PICK v : v = Put(t, t.active, e)
    OBVIOUS
  <2>5. /\ Readable(v) /\ DOMAIN v.exchanges = DOMAIN t.exchanges
        /\ v.exchanges[t.active] = e
        /\ \A j \in DOMAIN t.exchanges \ {t.active} : v.exchanges[j] = t.exchanges[j]
        /\ v.active = t.active /\ v.offset = t.offset /\ v.prev = t.prev
        /\ v.recovering = t.recovering /\ v.init = t.init
    BY <2>1, <2>3, <2>4, PutFacts
  <2>6. u = [v EXCEPT !.precounted = TRUE]
    <3>1. t \in TraceRecords
      BY DEF Readable
    <3>2. u = [t EXCEPT !.exchanges = [t.exchanges EXCEPT ![t.active] = e], !.precounted = TRUE]
      BY <1>1, <1>3, <2>2, <2>1, ListFacts DEF Replay!ReadStart, Counts, ExchangeRecords
    <3>3. v = [t EXCEPT !.exchanges = [t.exchanges EXCEPT ![t.active] = e]]
      BY <2>4 DEF Put
    <3> QED
      BY <3>1, <3>2, <3>3 DEF TraceRecords
  <2>7. /\ u \in TraceRecords /\ u.exchanges = v.exchanges /\ u.precounted = TRUE
        /\ u.active = v.active /\ u.offset = v.offset /\ u.prev = v.prev
        /\ u.recovering = v.recovering /\ u.init = v.init
    BY <2>5, <2>6, Zenon DEF Readable, TraceRecords
  <2>8. \A j \in DOMAIN t.exchanges : SameExchange(t.exchanges[j], u.exchanges[j])
    BY <2>3, <2>5, <2>7 DEF SameExchange
  <2>9. Readable(u) /\ Alike(t, u)
    BY <2>5, <2>7, <2>8 DEF Alike, Readable
  <2> QED
    BY <1>3, <2>1, <2>3, <2>5, <2>7, <2>9
<1> QED
  BY <1>2, <1>3, Zenon

(* What a line about request line.seq is about.                            *)
At(t, line) == LastOf(t, line.seq + t.offset)
Known(t, line) == Replay!Numbered(t, line.seq + t.offset) # {}
(* The line makes its attempts c, and changes those of no other exchange.  *)
Recounted(t, u, line, c) ==
  /\ Alike(t, u) /\ ~ u.init
  /\ \A j \in DOMAIN t.exchanges : (~ Known(t, line) \/ j # At(t, line)) =>
       u.exchanges[j].attempts = t.exchanges[j].attempts
  /\ Known(t, line) =>
       /\ At(t, line) \in DOMAIN t.exchanges
       /\ u.exchanges[At(t, line)].attempts = c

(* RETRY and LOCAL_NACK_RETRY.                                            *)
LEMMA RetryRead ==
  ASSUME NEW t, Readable(t), NEW line \in LineRecords, line.kind = "RETRY",
         NEW u, u = Replay!ReadLine(t, line)
  PROVE  Recounted(t, u, line, t.exchanges[At(t, line)].attempts) /\ (u.recovering <=> t.recovering)
<1> DEFINE i == At(t, line)
<1>1. PICK v : v = Replay!Marker(t)
  OBVIOUS
<1>2. /\ Alike(t, v) /\ v.exchanges = t.exchanges /\ v.init = FALSE
      /\ v.recovering = t.recovering
      /\ \A n : Replay!Numbered(v, n) = Replay!Numbered(t, n) /\ LastOf(v, n) = LastOf(t, n)
  BY <1>1, MarkerFacts, Zenon
<1>3. u = IF ~ Known(t, line) THEN v
          ELSE [v EXCEPT !.exchanges[i] = [v.exchanges[i] EXCEPT !.cause = line.cause]]
  <2>1. u = Replay!ReadRetry(t, line)
    BY DEF Replay!ReadLine
  <2>2. u = IF Replay!Numbered(v, line.seq + t.offset) = {} THEN v
            ELSE [v EXCEPT !.exchanges[LastOf(v, line.seq + t.offset)] = [@ EXCEPT !.cause = line.cause]]
    BY <1>1, <2>1 DEF Replay!ReadRetry, Replay!Change, LastOf
  <2>3. i = LastOf(v, line.seq + t.offset) /\ (Known(t, line) <=> Replay!Numbered(v, line.seq + t.offset) # {})
    BY <1>2 DEF Known, At
  <2> HIDE DEF i
  <2> QED
    BY <2>2, <2>3
<1>4. CASE ~ Known(t, line)
  BY <1>2, <1>3, <1>4 DEF Recounted
<1>5. CASE Known(t, line)
  <2>1. i \in DOMAIN t.exchanges /\ t.exchanges[i] \in ExchangeRecords
    BY <1>5, LastFacts, ListFacts DEF Known, At
  <2>2. PICK e : e = [t.exchanges[i] EXCEPT !.cause = line.cause]
    BY Zenon
  <2>3. /\ e \in ExchangeRecords /\ SameExchange(t.exchanges[i], e)
        /\ e.attempts = t.exchanges[i].attempts
    BY <2>1, <2>2 DEF ExchangeRecords, SameExchange, LineRecords
  <2>4. u = Put(Replay!Marker(t), i, e)
    BY <1>1, <1>2, <1>3, <1>5, <2>2 DEF Put
  <2> HIDE DEF i
  <2>5. Marked(t, u, i, e)
    BY <2>1, <2>3, <2>4, MarkerPut
  <2> QED
    BY <1>5, <2>1, <2>3, <2>5 DEF i, Marked, Recounted
<1> QED
  BY <1>4, <1>5

(* A NACK counts an attempt.                                               *)
LEMMA NackRead ==
  ASSUME NEW t, Readable(t), NEW line \in LineRecords, line.kind = "LOCAL_NACK_RETRY",
         NEW u, u = Replay!ReadLine(t, line)
  PROVE  Recounted(t, u, line, t.exchanges[At(t, line)].attempts + 1) /\ (u.recovering <=> t.recovering)
<1> DEFINE i == At(t, line)
<1>1. PICK v : v = Replay!Marker(t)
  OBVIOUS
<1>2. /\ Alike(t, v) /\ v.exchanges = t.exchanges /\ v.init = FALSE
      /\ v.recovering = t.recovering
      /\ \A n : Replay!Numbered(v, n) = Replay!Numbered(t, n) /\ LastOf(v, n) = LastOf(t, n)
  BY <1>1, MarkerFacts, Zenon
<1>3. u = IF ~ Known(t, line) THEN v
          ELSE [v EXCEPT !.exchanges[i] = [v.exchanges[i] EXCEPT !.attempts = v.exchanges[i].attempts + 1, !.cause = "other"]]
  <2>1. u = Replay!ReadNack(t, line)
    BY DEF Replay!ReadLine
  <2>2. u = IF Replay!Numbered(v, line.seq + t.offset) = {} THEN v
            ELSE [v EXCEPT !.exchanges[LastOf(v, line.seq + t.offset)] = [@ EXCEPT !.attempts = v.exchanges[LastOf(v, line.seq + t.offset)].attempts + 1, !.cause = "other"]]
    BY <1>1, <2>1 DEF Replay!ReadNack, Replay!Change, LastOf
  <2>3. i = LastOf(v, line.seq + t.offset) /\ (Known(t, line) <=> Replay!Numbered(v, line.seq + t.offset) # {})
    BY <1>2 DEF Known, At
  <2> HIDE DEF i
  <2> QED
    BY <2>2, <2>3
<1>4. CASE ~ Known(t, line)
  BY <1>2, <1>3, <1>4 DEF Recounted
<1>5. CASE Known(t, line)
  <2>1. i \in DOMAIN t.exchanges /\ t.exchanges[i] \in ExchangeRecords
    BY <1>5, LastFacts, ListFacts DEF Known, At
  <2>6. PICK a \in Nat : a = t.exchanges[i].attempts
    BY <2>1 DEF ExchangeRecords
  <2>2. PICK e : e = [t.exchanges[i] EXCEPT !.attempts = a + 1, !.cause = "other"]
    OBVIOUS
  <2>3. /\ e \in ExchangeRecords /\ SameExchange(t.exchanges[i], e)
        /\ e.attempts = a + 1
    <3>1. a + 1 \in Nat /\ "other" \in {Replay!None, "timeout", "other"}
      BY <2>6
    <3> HIDE DEF i
    <3>2. e \in ExchangeRecords /\ e.attempts = a + 1
      BY <2>1, <2>2, <3>1, Zenon DEF ExchangeRecords
    <3>3. SameExchange(t.exchanges[i], e)
      BY <2>1, <2>2 DEF ExchangeRecords, SameExchange
    <3> QED
      BY <3>2, <3>3
  <2>4. u = Put(Replay!Marker(t), i, e)
    BY <1>1, <1>2, <1>3, <1>5, <2>2, <2>6 DEF Put
  <2> HIDE DEF i
  <2>5. Marked(t, u, i, e)
    BY <2>1, <2>3, <2>4, MarkerPut
  <2> QED
    BY <1>5, <2>1, <2>3, <2>5, <2>6 DEF i, Marked, Recounted
<1> QED
  BY <1>4, <1>5

(* RECOVERY and REQUEST_FAILED say the attempts themselves.               *)
LEMMA CountsRead ==
  ASSUME NEW t, Readable(t), NEW line \in LineRecords,
         NEW f \in BOOLEAN, NEW u, u = Replay!ReadCounts(t, line, f)
  PROVE  Recounted(t, u, line, line.attempts) /\ (u.recovering <=> t.recovering)
<1> DEFINE i == At(t, line)
<1>1. PICK v : v = Replay!Marker(t)
  OBVIOUS
<1>2. /\ Alike(t, v) /\ v.exchanges = t.exchanges /\ v.init = FALSE
      /\ v.recovering = t.recovering
      /\ \A n : Replay!Numbered(v, n) = Replay!Numbered(t, n) /\ LastOf(v, n) = LastOf(t, n)
  BY <1>1, MarkerFacts, Zenon
<1>3. u = IF ~ Known(t, line) THEN v
          ELSE [v EXCEPT !.exchanges[i] = [v.exchanges[i] EXCEPT !.attempts = line.attempts, !.reconnects = line.reconnects, !.cause = line.cause, !.failed = f]]
  <2>2. u = IF Replay!Numbered(v, line.seq + t.offset) = {} THEN v
            ELSE [v EXCEPT !.exchanges[LastOf(v, line.seq + t.offset)] = [@ EXCEPT !.attempts = line.attempts, !.reconnects = line.reconnects, !.cause = line.cause, !.failed = f]]
    BY <1>1 DEF Replay!ReadCounts, Replay!Change, LastOf
  <2>3. i = LastOf(v, line.seq + t.offset) /\ (Known(t, line) <=> Replay!Numbered(v, line.seq + t.offset) # {})
    BY <1>2 DEF Known, At
  <2> HIDE DEF i
  <2> QED
    BY <2>2, <2>3
<1>4. CASE ~ Known(t, line)
  BY <1>2, <1>3, <1>4 DEF Recounted
<1>5. CASE Known(t, line)
  <2>1. i \in DOMAIN t.exchanges /\ t.exchanges[i] \in ExchangeRecords
    BY <1>5, LastFacts, ListFacts DEF Known, At
  <2>2. PICK e : e = [t.exchanges[i] EXCEPT !.attempts = line.attempts, !.reconnects = line.reconnects, !.cause = line.cause, !.failed = f]
    OBVIOUS
  <2>3. /\ e \in ExchangeRecords /\ SameExchange(t.exchanges[i], e)
        /\ e.attempts = line.attempts
    BY <2>1, <2>2, Zenon DEF ExchangeRecords, SameExchange, LineRecords
  <2>4. u = Put(Replay!Marker(t), i, e)
    BY <1>1, <1>2, <1>3, <1>5, <2>2 DEF Put
  <2> HIDE DEF i
  <2>5. Marked(t, u, i, e)
    BY <2>1, <2>3, <2>4, MarkerPut
  <2> QED
    BY <1>5, <2>1, <2>3, <2>5 DEF i, Marked, Recounted
<1> QED
  BY <1>4, <1>5

(* RECOVERY.                                                               *)
LEMMA RecoveryRead ==
  ASSUME NEW t, Readable(t), NEW line \in LineRecords, line.kind = "RECOVERY",
         NEW u, u = Replay!ReadLine(t, line)
  PROVE  Recounted(t, u, line, line.attempts) /\ (u.recovering <=> TRUE)
<1>1. PICK v : v = Replay!ReadCounts(t, line, FALSE)
  BY Zenon
<1>2. Recounted(t, v, line, line.attempts)
  BY <1>1, CountsRead, Zenon
<1>3. u = [v EXCEPT !.recovering = TRUE]
  BY <1>1 DEF Replay!ReadLine
<1>4. /\ u \in TraceRecords /\ u.exchanges = v.exchanges /\ u.init = v.init
      /\ u.active = v.active /\ u.offset = v.offset /\ u.prev = v.prev
      /\ u.recovering = TRUE
  BY <1>2, <1>3, Zenon DEF Recounted, Alike, Readable, TraceRecords
<1>5. Alike(t, u)
  <2>1. Readable(u)
    BY <1>2, <1>4 DEF Recounted, Alike, Readable
  <2> QED
    BY <1>2, <1>4, <2>1 DEF Recounted, Alike
<1> QED
  BY <1>2, <1>4, <1>5 DEF Recounted

(* REQUEST_FAILED.                                                         *)
LEMMA FailedRead ==
  ASSUME NEW t, Readable(t), NEW line \in LineRecords, line.kind = "REQUEST_FAILED",
         NEW u, u = Replay!ReadLine(t, line)
  PROVE  Recounted(t, u, line, line.attempts) /\ (u.recovering <=> FALSE)
<1>1. PICK v : v = Replay!ReadCounts(t, line, TRUE)
  BY Zenon
<1>2. Recounted(t, v, line, line.attempts)
  BY <1>1, CountsRead, Zenon
<1>3. u = [v EXCEPT !.recovering = FALSE]
  BY <1>1 DEF Replay!ReadLine
<1>4. /\ u \in TraceRecords /\ u.exchanges = v.exchanges /\ u.init = v.init
      /\ u.active = v.active /\ u.offset = v.offset /\ u.prev = v.prev
      /\ u.recovering = FALSE
  BY <1>2, <1>3, Zenon DEF Recounted, Alike, Readable, TraceRecords
<1>5. Alike(t, u)
  <2>1. Readable(u)
    BY <1>2, <1>4 DEF Recounted, Alike, Readable
  <2> QED
    BY <1>2, <1>4, <2>1 DEF Recounted, Alike
<1> QED
  BY <1>2, <1>4, <1>5 DEF Recounted

(* An answer: the last exchange of its number has it.                      *)
HasAnswer(t, u, i, e) ==
  /\ Readable(u) /\ DOMAIN u.exchanges = DOMAIN t.exchanges
  /\ u.init = FALSE /\ u.recovering = t.recovering
  /\ u.active = t.active /\ u.offset = t.offset /\ u.prev = t.prev
  /\ i \in DOMAIN t.exchanges /\ u.exchanges[i] = e
  /\ \A j \in DOMAIN t.exchanges \ {i} : u.exchanges[j] = t.exchanges[j]

(* PARSED_PROTO gives the last exchange of its number the answer, and only *)
(* that one.                                                               *)
LEMMA AnswerRead ==
  ASSUME NEW t, Readable(t), NEW line \in LineRecords, line.kind = "PARSED_PROTO",
         NEW u, u = Replay!ReadLine(t, line), Known(t, line),
         NEW e, e = [t.exchanges[At(t, line)] EXCEPT !.response = line.answer, !.answers = line.of]
  PROVE  HasAnswer(t, u, At(t, line), e)
<1> DEFINE i == At(t, line)
<1>1. PICK v : v = Replay!Marker(t)
  OBVIOUS
<1>2. /\ Alike(t, v) /\ v.exchanges = t.exchanges /\ v.init = FALSE
      /\ v.recovering = t.recovering
      /\ \A n : Replay!Numbered(v, n) = Replay!Numbered(t, n) /\ LastOf(v, n) = LastOf(t, n)
  BY <1>1, MarkerFacts, Zenon
<1>3. u = IF ~ Known(t, line) THEN v
          ELSE [v EXCEPT !.exchanges[i] = [v.exchanges[i] EXCEPT !.response = line.answer, !.answers = line.of]]
  <2>1. u = Replay!ReadAnswer(t, line)
    BY DEF Replay!ReadLine
  <2>2. u = IF Replay!Numbered(v, line.seq + t.offset) = {} THEN v
            ELSE [v EXCEPT !.exchanges[LastOf(v, line.seq + t.offset)] = [@ EXCEPT !.response = line.answer, !.answers = line.of]]
    BY <1>1, <2>1 DEF Replay!ReadAnswer, Replay!Change, LastOf
  <2>3. i = LastOf(v, line.seq + t.offset) /\ (Known(t, line) <=> Replay!Numbered(v, line.seq + t.offset) # {})
    BY <1>2 DEF Known, At
  <2> HIDE DEF i
  <2> QED
    BY <2>2, <2>3
<1>4. i \in DOMAIN t.exchanges /\ t.exchanges[i] \in ExchangeRecords
  BY LastFacts, ListFacts DEF Known, At
<1>5. e = [t.exchanges[i] EXCEPT !.response = line.answer, !.answers = line.of]
  OBVIOUS
<1>6. e \in ExchangeRecords
  BY <1>4, <1>5, Zenon DEF ExchangeRecords, LineRecords
<1>7. u = Put(v, i, e)
  BY <1>2, <1>3, <1>5 DEF Put
<1> HIDE DEF i
<1>8. Readable(v) /\ i \in DOMAIN v.exchanges
  BY <1>2, <1>4 DEF Alike
<1>9. /\ Readable(u) /\ DOMAIN u.exchanges = DOMAIN v.exchanges
      /\ u.exchanges[i] = e
      /\ \A j \in DOMAIN v.exchanges \ {i} : u.exchanges[j] = v.exchanges[j]
      /\ u.active = v.active /\ u.offset = v.offset /\ u.prev = v.prev
      /\ u.recovering = v.recovering /\ u.init = v.init
  BY <1>6, <1>7, <1>8, PutFacts
<1>10. v.active = t.active /\ v.offset = t.offset /\ v.prev = t.prev
  BY <1>2 DEF Alike
<1> QED
  BY <1>2, <1>4, <1>9, <1>10 DEF i, HasAnswer

(* A telegram: it joins the last exchange of its number, if that one is    *)
(* unanswered and asked the same, or begins one.                           *)
SentNumber(t, line) == line.seq + Replay!Offset(t)
Joins(t, line, i) ==
  /\ i \in Replay!Numbered(t, SentNumber(t, line))
  /\ \A j \in Replay!Numbered(t, SentNumber(t, line)) : j <= i
  /\ t.exchanges[i].response = Replay!None /\ t.exchanges[i].telegram = line.telegram
SendAlike(t, u, line) ==
  /\ Readable(u) /\ u.offset = Replay!Offset(t) /\ ~ u.init /\ u.prev = line.seq
  /\ (u.recovering <=> t.recovering)
Joined(t, u, line, i) ==
  /\ SendAlike(t, u, line) /\ Joins(t, line, i) /\ i \in DOMAIN t.exchanges
  /\ u.active = i /\ DOMAIN u.exchanges = DOMAIN t.exchanges
  /\ \A j \in DOMAIN t.exchanges \ {i} : u.exchanges[j] = t.exchanges[j]
  /\ u.exchanges[i].seq = t.exchanges[i].seq
  /\ u.exchanges[i].telegram = t.exchanges[i].telegram
  /\ u.exchanges[i].response = t.exchanges[i].response
  /\ u.exchanges[i].answers = t.exchanges[i].answers
  /\ u.exchanges[i].of = t.exchanges[i].of \cup {line.of}
  /\ u.exchanges[i].attempts = IF t.precounted THEN t.exchanges[i].attempts
                               ELSE t.exchanges[i].attempts + 1
Began(t, u, line) ==
  /\ SendAlike(t, u, line)
  /\ u.active \notin DOMAIN t.exchanges
  /\ \A j \in DOMAIN t.exchanges : j <= u.active
  /\ DOMAIN u.exchanges = DOMAIN t.exchanges \cup {u.active}
  /\ \A j \in DOMAIN t.exchanges : u.exchanges[j] = t.exchanges[j]
  /\ u.exchanges[u.active].seq = SentNumber(t, line)
  /\ u.exchanges[u.active].telegram = line.telegram
  /\ u.exchanges[u.active].response = Replay!None
  /\ u.exchanges[u.active].answers = 0
  /\ u.exchanges[u.active].of = {line.of}
  /\ u.exchanges[u.active].attempts = 1

SendBase(t, line) ==
  [t EXCEPT !.offset = Replay!Offset(t), !.init = FALSE, !.prev = line.seq, !.precounted = FALSE]

(* What SEND_PROTO does to the reader before it looks for the exchange.    *)
LEMMA SendBaseFacts ==
  ASSUME NEW t, Readable(t), NEW line \in LineRecords, NEW v, v = SendBase(t, line)
  PROVE  /\ SendAlike(t, v, line) /\ v.exchanges = t.exchanges /\ v \in TraceRecords
         /\ SentNumber(t, line) \in Nat
<1>1. t \in TraceRecords /\ t.offset \in Nat /\ t.prev \in Nat /\ line.seq \in Nat
  BY DEF Readable, TraceRecords, LineRecords
<1>2. PICK o \in Nat : o = Replay!Offset(t)
  BY <1>1 DEF Replay!Offset
<1>3. v = [t EXCEPT !.offset = o, !.init = FALSE, !.prev = line.seq, !.precounted = FALSE]
  BY <1>2 DEF SendBase
<1>4. /\ v \in TraceRecords /\ v.exchanges = t.exchanges /\ v.offset = o /\ ~ v.init
      /\ v.prev = line.seq /\ (v.recovering <=> t.recovering) /\ v.active = t.active
  BY <1>1, <1>3, Zenon DEF TraceRecords
<1>5. Readable(v)
  BY <1>4 DEF Readable
<1> QED
  BY <1>1, <1>2, <1>4, <1>5 DEF SendAlike, SentNumber

SendKnown(t, line) ==
  {i \in Replay!Numbered(t, SentNumber(t, line)) :
     i = LastOf(t, SentNumber(t, line))
     /\ t.exchanges[i].response = Replay!None /\ t.exchanges[i].telegram = line.telegram}
SendUnfolded(t, u, v, line) ==
  /\ SendKnown(t, line) = {} =>
       u = [v EXCEPT !.exchanges = Append(v.exchanges,
             [seq |-> SentNumber(t, line), telegram |-> line.telegram,
              response |-> Replay!None, answers |-> 0, attempts |-> 1, reconnects |-> 0,
              failed |-> FALSE, cause |-> Replay!None, of |-> {line.of}]),
            !.active = Len(t.exchanges) + 1]
  /\ \A i : i = Replay!Max(SendKnown(t, line)) /\ SendKnown(t, line) # {} =>
       u = [v EXCEPT
             !.exchanges[i].attempts = IF t.precounted THEN @ ELSE @ + 1,
             !.exchanges[i].of = @ \cup {line.of}, !.active = i]

(* SEND_PROTO is its first part, then joining an exchange or beginning     *)
(* one.                                                                    *)
LEMMA SendUnfolds ==
  ASSUME NEW t, NEW line, line.kind = "SEND_PROTO",
         NEW u, u = Replay!ReadLine(t, line), NEW v, v = SendBase(t, line)
  PROVE  SendUnfolded(t, u, v, line)
<1>1. u = Replay!ReadSend(t, line)
  BY DEF Replay!ReadLine
<1> QED
  BY <1>1, Zenon DEF Replay!ReadSend, SendKnown, SendBase, SentNumber, LastOf, SendUnfolded

(* The exchange a SEND_PROTO joins is the last of those it may join.       *)
LEMMA SendKnownIs ==
  ASSUME NEW t, Readable(t), NEW line \in LineRecords
  PROVE  /\ SendKnown(t, line) # {} => Joins(t, line, Replay!Max(SendKnown(t, line)))
         /\ \A i : Joins(t, line, i) => SendKnown(t, line) # {} /\ i = Replay!Max(SendKnown(t, line))
<1> DEFINE n == SentNumber(t, line)
           K == SendKnown(t, line)
<1>1. PICK m \in Nat : DOMAIN t.exchanges = 1..m
  BY ListFacts
<1>2. Replay!Numbered(t, n) \in SUBSET (1..m)
  BY <1>1 DEF Replay!Numbered
<1>3. /\ Replay!Numbered(t, n) # {} => LastOf(t, n) \in Replay!Numbered(t, n)
      /\ \A j \in Replay!Numbered(t, n) : j <= LastOf(t, n)
  BY LastFacts DEF Replay!Numbered
<1>4. K \in SUBSET (1..m) /\ \A i \in K : i = LastOf(t, n)
  BY <1>2 DEF SendKnown
<1>5. Replay!Max(K) = TopOf(K)
  BY Zenon DEF TopOf, Replay!Max
<1> HIDE DEF K
<1>6. K # {} => TopOf(K) \in K
  BY <1>4, TopFacts
<1>7. ASSUME K # {} PROVE Joins(t, line, Replay!Max(K))
  <2>1. PICK i : i = Replay!Max(K)
    OBVIOUS
  <2>2. i \in K
    BY <1>5, <1>6, <1>7, <2>1
  <2> QED
    BY <1>3, <2>1, <2>2, Zenon DEF K, SendKnown, Joins
<1>8. ASSUME NEW i, Joins(t, line, i) PROVE K # {} /\ i = Replay!Max(K)
  <2>1. i \in Replay!Numbered(t, n) /\ \A j \in Replay!Numbered(t, n) : j <= i
    BY <1>8 DEF Joins
  <2>2. PICK j : j = LastOf(t, n)
    OBVIOUS
  <2>3. i \in 1..m /\ j \in 1..m /\ i <= j /\ j <= i
    BY <1>2, <1>3, <2>1, <2>2
  <2>4. i = LastOf(t, n)
    BY <2>2, <2>3
  <2>5. i \in K
    BY <1>8, <2>1, <2>4 DEF Joins, K, SendKnown
  <2> QED
    BY <1>4, <1>5, <1>6, <2>4, <2>5, Zenon
<1> QED
  BY <1>7, <1>8 DEF K

(* A SEND_PROTO that repeats the exchange it finds joins it.               *)
LEMMA SendJoins ==
  ASSUME NEW t, Readable(t), NEW line \in LineRecords, line.kind = "SEND_PROTO",
         NEW u, u = Replay!ReadLine(t, line), NEW i, Joins(t, line, i)
  PROVE  Joined(t, u, line, i)
<1>1. PICK v : v = SendBase(t, line)
  OBVIOUS
<1>2. SendAlike(t, v, line) /\ v.exchanges = t.exchanges /\ v \in TraceRecords
  BY <1>1, SendBaseFacts
<1>3. u = [v EXCEPT
            !.exchanges[i].attempts = IF t.precounted THEN @ ELSE @ + 1,
            !.exchanges[i].of = @ \cup {line.of}, !.active = i]
  <2>1. i = Replay!Max(SendKnown(t, line)) /\ SendKnown(t, line) # {}
    BY SendKnownIs
  <2>2. SendUnfolded(t, u, v, line)
    BY <1>1, SendUnfolds
  <2> QED
    BY <2>1, <2>2, Zenon DEF SendUnfolded
<1>4. i \in DOMAIN t.exchanges /\ t.exchanges[i] \in ExchangeRecords
  BY ListFacts DEF Joins, Replay!Numbered
<1>5. PICK a \in Nat : a = t.exchanges[i].attempts
  BY <1>4 DEF ExchangeRecords
<1>6. PICK b \in Nat : b = IF t.precounted THEN a ELSE a + 1
  BY <1>5
<1>7. PICK e : e = [t.exchanges[i] EXCEPT !.attempts = b, !.of = t.exchanges[i].of \cup {line.of}]
  OBVIOUS
<1>8. /\ e \in ExchangeRecords
      /\ e.seq = t.exchanges[i].seq /\ e.telegram = t.exchanges[i].telegram
      /\ e.response = t.exchanges[i].response /\ e.answers = t.exchanges[i].answers
      /\ e.of = t.exchanges[i].of \cup {line.of} /\ e.attempts = b
  <2>1. t.exchanges[i].of \cup {line.of} \in SUBSET Nat
    BY <1>4 DEF ExchangeRecords, LineRecords
  <2> QED
    BY <1>4, <1>7, <2>1, Zenon DEF ExchangeRecords
<1>9. PICK w : w = Put(v, i, e)
  OBVIOUS
<1>10. Readable(v) /\ i \in DOMAIN v.exchanges
  BY <1>2, <1>4 DEF SendAlike
<1>11. /\ Readable(w) /\ DOMAIN w.exchanges = DOMAIN v.exchanges
       /\ w.exchanges[i] = e
       /\ \A j \in DOMAIN v.exchanges \ {i} : w.exchanges[j] = v.exchanges[j]
       /\ w.offset = v.offset /\ w.prev = v.prev
       /\ w.recovering = v.recovering /\ w.init = v.init
  BY <1>8, <1>9, <1>10, PutFacts
<1>12. u = [w EXCEPT !.active = i]
  <2>1. [v.exchanges EXCEPT ![i].attempts = IF t.precounted THEN @ ELSE @ + 1,
                            ![i].of = @ \cup {line.of}]
        = [v.exchanges EXCEPT ![i] = e]
    <3>1. PICK x \in Seq(ExchangeRecords) : x = v.exchanges /\ x = t.exchanges
      BY <1>2, ListFacts
    <3>2. i \in DOMAIN x /\ x[i] \in ExchangeRecords /\ x[i] = t.exchanges[i]
      BY <1>4, <3>1
    <3>3. [x EXCEPT ![i].attempts = IF t.precounted THEN @ ELSE @ + 1, ![i].of = @ \cup {line.of}]
          = [x EXCEPT ![i] = [[x[i] EXCEPT !.attempts = b] EXCEPT !.of = x[i].of \cup {line.of}]]
      BY <1>5, <1>6, <3>2, Zenon DEF ExchangeRecords
    <3>4. e = [[x[i] EXCEPT !.attempts = b] EXCEPT !.of = x[i].of \cup {line.of}]
      BY <1>7, <3>2
    <3> QED
      BY <3>1, <3>3, <3>4
  <2>2. u = [v EXCEPT !.exchanges = [v.exchanges EXCEPT
                        ![i].attempts = IF t.precounted THEN @ ELSE @ + 1,
                        ![i].of = @ \cup {line.of}], !.active = i]
    BY <1>2, <1>3, Zenon DEF TraceRecords
  <2>3. w = [v EXCEPT !.exchanges = [v.exchanges EXCEPT ![i] = e]]
    BY <1>9 DEF Put
  <2> QED
    BY <1>2, <2>1, <2>2, <2>3, Zenon DEF TraceRecords
<1>13. /\ u \in TraceRecords /\ u.exchanges = w.exchanges /\ u.active = i
       /\ u.offset = w.offset /\ u.prev = w.prev
       /\ u.recovering = w.recovering /\ u.init = w.init
  <2>1. i \in Nat
    BY <1>4, ListFacts
  <2> QED
    BY <1>11, <1>12, <2>1, Zenon DEF Readable, TraceRecords
<1>14. SendAlike(t, u, line)
  BY <1>2, <1>4, <1>11, <1>13 DEF SendAlike, Readable
<1> QED
  BY <1>2, <1>4, <1>5, <1>6, <1>8, <1>11, <1>13, <1>14 DEF Joined

(* Any other SEND_PROTO begins an exchange at the end of the list.         *)
LEMMA SendBegins ==
  ASSUME NEW t, Readable(t), NEW line \in LineRecords, line.kind = "SEND_PROTO",
         NEW u, u = Replay!ReadLine(t, line), \A i : ~ Joins(t, line, i)
  PROVE  Began(t, u, line)
<1>1. PICK v : v = SendBase(t, line)
  OBVIOUS
<1>2. /\ SendAlike(t, v, line) /\ v.exchanges = t.exchanges /\ v \in TraceRecords
      /\ SentNumber(t, line) \in Nat
  BY <1>1, SendBaseFacts
<1>3. PICK e : e = [seq |-> SentNumber(t, line), telegram |-> line.telegram,
                    response |-> Replay!None, answers |-> 0, attempts |-> 1, reconnects |-> 0,
                    failed |-> FALSE, cause |-> Replay!None, of |-> {line.of}]
  BY Zenon
<1>4. e \in ExchangeRecords
  BY <1>2, <1>3 DEF ExchangeRecords, LineRecords, Outcomes
<1>5. u = [v EXCEPT !.exchanges = Append(v.exchanges, e), !.active = Len(t.exchanges) + 1]
  <2>1. SendKnown(t, line) = {}
    BY SendKnownIs
  <2>2. SendUnfolded(t, u, v, line)
    BY <1>1, SendUnfolds
  <2> QED
    BY <1>3, <2>1, <2>2, Zenon DEF SendUnfolded
<1>6. PICK x \in Seq(ExchangeRecords) : x = t.exchanges
  BY ListFacts
<1>7. PICK m \in Nat : m = Len(x) /\ DOMAIN x = 1..m
  BY <1>6, LenProperties
<1>8. PICK y : y = Append(x, e)
  BY Zenon
<1>9. /\ y \in Seq(ExchangeRecords) /\ DOMAIN y = 1..(m + 1) /\ y[m + 1] = e
      /\ \A j \in 1..m : y[j] = x[j]
  BY <1>4, <1>6, <1>7, <1>8, AppendProperties
<1>10. /\ u \in TraceRecords /\ u.exchanges = y /\ u.active = m + 1
       /\ u.offset = v.offset /\ u.prev = v.prev
       /\ (u.recovering <=> v.recovering) /\ (u.init <=> v.init)
  <2>1. PICK k \in Nat : k = m + 1
    OBVIOUS
  <2>2. u = [v EXCEPT !.exchanges = y, !.active = k]
    <3>1. Len(t.exchanges) = m
      BY <1>6, <1>7
    <3> QED
      BY <1>2, <1>5, <1>6, <1>8, <2>1, <3>1
  <2>3. /\ u \in TraceRecords /\ u.exchanges = y /\ u.active = k
        /\ u.offset = v.offset /\ u.prev = v.prev
        /\ (u.recovering <=> v.recovering) /\ (u.init <=> v.init)
    BY <1>2, <1>9, <2>2, Zenon DEF TraceRecords
  <2> QED
    BY <2>1, <2>3
<1>11. SendAlike(t, u, line)
  BY <1>2, <1>9, <1>10 DEF SendAlike, Readable
<1>12. /\ u.active \notin DOMAIN t.exchanges
       /\ \A j \in DOMAIN t.exchanges : j <= u.active
       /\ DOMAIN u.exchanges = DOMAIN t.exchanges \cup {u.active}
       /\ \A j \in DOMAIN t.exchanges : u.exchanges[j] = t.exchanges[j]
       /\ u.exchanges[u.active] = e
  BY <1>6, <1>7, <1>9, <1>10
<1> QED
  BY <1>3, <1>11, <1>12 DEF Began

-----------------------------------------------------------------------------
(* The lines one action writes, read one after the other.                  *)
(* Reading no line.                                                        *)
LEMMA NoneRead == \A t : AllRead(t, <<>>) = t
<1> SUFFICES ASSUME NEW t PROVE AllRead(t, <<>>) = t
  OBVIOUS
<1>1. PICK s : s = <<>>
  BY Zenon
<1>2. DOMAIN s = 1..0 /\ 0 \in Nat
  BY <1>1
<1>3. ReadThrough(t, s, 0)
  BY <1>2, ReadLines, Zenon
<1> QED
  BY <1>1, <1>3 DEF ReadThrough

(* Reading one line.                                                       *)
LEMMA OneRead ==
  ASSUME NEW t, NEW a
  PROVE  AllRead(t, <<a>>) = Replay!ReadLine(t, a)
<1>1. PICK s : s = <<a>>
  BY Zenon
<1>2. DOMAIN s = 1..1 /\ s[1] = a /\ 1 \in Nat
  BY <1>1
<1>3. PICK h : /\ h[0] = t
               /\ \A k \in 1..1 : h[k] = Replay!ReadLine(h[k - 1], s[k])
               /\ AllRead(t, s) = h[1]
  <2>1. ReadThrough(t, s, 1)
    BY <1>2, ReadLines, Zenon
  <2> QED
    BY <2>1 DEF ReadThrough
<1>4. h[1] = Replay!ReadLine(h[0], s[1])
  <2>1. 1 \in 1..1 /\ 1 - 1 = 0
    OBVIOUS
  <2> QED
    BY <1>3, <2>1
<1> QED
  BY <1>1, <1>2, <1>3, <1>4

(* Reading a list and one line more reads the line after the list: both    *)
(* pass through the same traces, or there were a first place they differ.  *)
LEMMA OneMoreRead ==
  ASSUME NEW t, NEW X, NEW s \in Seq(X), NEW x \in X
  PROVE  AllRead(t, s \o <<x>>) = Replay!ReadLine(AllRead(t, s), x)
<1>1. PICK m \in Nat : m = Len(s) /\ DOMAIN s = 1..m
  BY LenProperties
<1>2. PICK e \in Seq(X) : e = <<x>> /\ Len(e) = 1 /\ e[1] = x
  <2>1. <<x>> \in Seq(X) /\ Len(<<x>>) = 1 /\ <<x>>[1] = x
    OBVIOUS
  <2> QED
    BY <2>1, Zenon
<1>3. PICK p : p = s \o <<x>>
  OBVIOUS
<1>4. p \in Seq(X) /\ Len(p) = m + 1 /\ (\A k \in 1..m : p[k] = s[k]) /\ p[m + 1] = x
  BY <1>1, <1>2, <1>3, ConcatProperties
<1>5. DOMAIN p = 1..(m + 1) /\ m + 1 \in Nat
  BY <1>4, LenProperties
<1>6. PICK g : /\ g[0] = t
               /\ \A k \in 1..m : g[k] = Replay!ReadLine(g[k - 1], s[k])
               /\ AllRead(t, s) = g[m]
  <2>1. ReadThrough(t, s, m)
    BY <1>1, ReadLines, Zenon
  <2> QED
    BY <2>1 DEF ReadThrough
<1>7. PICK h : /\ h[0] = t
               /\ \A k \in 1..(m + 1) : h[k] = Replay!ReadLine(h[k - 1], p[k])
               /\ AllRead(t, p) = h[m + 1]
  <2>1. ReadThrough(t, p, m + 1)
    BY <1>5, ReadLines, Zenon
  <2> QED
    BY <2>1 DEF ReadThrough
<1>8. g[m] = h[m]
  <2> DEFINE Differ == {k \in 0..m : g[k] # h[k]}
  <2>1. ASSUME Differ # {} PROVE FALSE
    <3>1. PICK k \in Differ : \A j \in Differ : k <= j
      <4>1. Differ \in SUBSET Nat
        OBVIOUS
      <4> HIDE DEF Differ
      <4> QED
        BY <2>1, <4>1, LeastNumber
    <3>2. k \in 0..m /\ g[k] # h[k]
      OBVIOUS
    <3>3. k # 0
      BY <1>6, <1>7, <3>2
    <3>4. k - 1 \in 0..m /\ k \in 1..m /\ k \in 1..(m + 1) /\ ~ (k <= k - 1)
      BY <3>2, <3>3
    <3>5. g[k - 1] = h[k - 1]
      BY <3>1, <3>4
    <3>6. g[k] = Replay!ReadLine(g[k - 1], s[k]) /\ h[k] = Replay!ReadLine(h[k - 1], p[k])
      BY <1>6, <1>7, <3>4
    <3>7. p[k] = s[k]
      BY <1>4, <3>4
    <3> QED
      BY <3>2, <3>5, <3>6, <3>7
  <2>2. m \in 0..m
    OBVIOUS
  <2> QED
    BY <2>1, <2>2
<1>9. h[m + 1] = Replay!ReadLine(h[m], x)
  <2>1. m + 1 \in 1..(m + 1) /\ (m + 1) - 1 = m
    OBVIOUS
  <2> QED
    BY <1>4, <1>7, <2>1
<1> QED
  BY <1>3, <1>6, <1>7, <1>8, <1>9

(* In traces that differ in counts only, every number finds the same       *)
(* exchanges.                                                              *)
LEMMA AlikeNumbers ==
  ASSUME NEW t, NEW u, Alike(t, u)
  PROVE  /\ Readable(t) /\ Readable(u)
         /\ \A n : Replay!Numbered(u, n) = Replay!Numbered(t, n) /\ LastOf(u, n) = LastOf(t, n)
         /\ \A line : At(u, line) = At(t, line) /\ (Known(u, line) <=> Known(t, line))
<1>1. Readable(t) /\ Readable(u) /\ u.offset = t.offset
  BY DEF Alike
<1>2. \A n : Replay!Numbered(u, n) = Replay!Numbered(t, n)
  BY DEF Alike, SameExchange, Replay!Numbered
<1>3. \A n : LastOf(u, n) = LastOf(t, n)
  BY <1>2 DEF LastOf
<1> QED
  BY <1>1, <1>2, <1>3 DEF At, Known

-----------------------------------------------------------------------------
(* The invariant of a replay.  Busy: a request is under way; Number is the *)
(* number its exchange has in the reader's count.                          *)
Busy == doing # "idle"
Number == seq + trace.offset
Between(a, r) == r.attempts <= a + r.early /\ a <= r.attempts

ReplayTypes ==
  /\ seq \in Nat /\ open \in BOOLEAN /\ doing \in {"idle", "begin", "sent", "recovery"}
  /\ traced \in BOOLEAN /\ (open => traced) /\ silent \in BOOLEAN /\ confused \in BOOLEAN
  /\ history \in Seq(RequestRecords) /\ Len(history) <= MaxRequests
  /\ Readable(trace)

(* A session that broke is the only one a trace waits for; a request under *)
(* way has no answer, and counts nothing before its first telegram.        *)
BusyInv ==
  /\ trace.recovering => ~ open
  /\ doing = "sent" => open /\ Replay!Now.sent
  /\ doing = "recovery" => ~ open
  /\ Busy => Len(history) \in DOMAIN history /\ Replay!Now.answer = Replay!None /\ seq >= 1
  /\ \A r \in DOMAIN history :
       /\ history[r].early <= history[r].attempts
       /\ ~ history[r].sent => history[r].early = history[r].attempts

(* Whatever became of the lines: an exchange is of requests with its       *)
(* telegram, its answer is the one of the request it names, every answer   *)
(* is in one, and the next answer finds the exchange of its request.       *)
SourceInv ==
  /\ \A i \in DOMAIN trace.exchanges : \A r \in trace.exchanges[i].of :
       /\ r \in DOMAIN history /\ history[r].sent
       /\ history[r].telegram = trace.exchanges[i].telegram
  /\ \A i \in DOMAIN trace.exchanges :
       /\ trace.exchanges[i].response # Replay!None <=> trace.exchanges[i].answers # 0
       /\ trace.exchanges[i].answers # 0 =>
            /\ trace.exchanges[i].answers \in trace.exchanges[i].of
            /\ history[trace.exchanges[i].answers].answer = trace.exchanges[i].response
  /\ \A r \in DOMAIN history : history[r].answer # Replay!None =>
       \E i \in DOMAIN trace.exchanges : trace.exchanges[i].answers = r
  /\ doing = "sent" =>
       /\ trace.active \in DOMAIN trace.exchanges /\ trace.exchanges[trace.active].seq = Number
       /\ \A i \in Replay!Numbered(trace, Number) : i <= trace.active
       /\ trace.exchanges[trace.active].response = Replay!None
       /\ Len(history) \in trace.exchanges[trace.active].of

(* Unless confused: one request per exchange, one exchange per number, and *)
(* the numbers grow.                                                       *)
NumbersInv == ~ confused =>
  /\ \A i \in DOMAIN trace.exchanges : \E r \in DOMAIN history : trace.exchanges[i].of = {r}
  /\ \A i \in DOMAIN trace.exchanges : trace.exchanges[i].seq <= trace.offset + trace.prev
  /\ \A i, j \in DOMAIN trace.exchanges : trace.exchanges[i].seq = trace.exchanges[j].seq => i = j
  /\ silent => DOMAIN trace.exchanges = {} \/ (~ trace.recovering /\ (open => trace.init))
  /\ ~ silent => seq >= trace.prev
  /\ Busy /\ ~ Replay!Now.sent /\ ~ silent => seq > trace.prev

(* The reader's active exchange is the request under way.                  *)
RequestInv == ~ confused /\ Busy /\ Replay!Now.sent =>
  /\ ~ silent /\ seq = trace.prev
  /\ trace.active \in DOMAIN trace.exchanges /\ trace.exchanges[trace.active].seq = Number
  /\ trace.exchanges[trace.active].of = {Len(history)}
  /\ trace.exchanges[trace.active].response = Replay!None

(* Its attempts are counted, and so were those of what was answered; only  *)
(* a closed trace leaves an INIT without its marker.                       *)
CountInv == ~ confused =>
  /\ Busy /\ Replay!Now.sent /\ ~ Replay!Now.unmarked =>
       /\ (trace.init => doing = "begin" /\ ~ traced)
       /\ (doing = "recovery" => trace.recovering)
       /\ Between(trace.exchanges[trace.active].attempts, Replay!Now)
  /\ \A i \in DOMAIN trace.exchanges :
       trace.exchanges[i].response # Replay!None
       /\ ~ history[trace.exchanges[i].answers].unmarked =>
         Between(trace.exchanges[i].attempts, history[trace.exchanges[i].answers])

(* A request whose lines are told apart has one exchange.                  *)
EachInv == ~ confused =>
  \A r \in DOMAIN history : history[r].sent /\ ~ history[r].unmarked =>
    \E i \in DOMAIN trace.exchanges :
      \A j \in DOMAIN trace.exchanges : r \in trace.exchanges[j].of <=> j = i

ReplayInv ==
  ReplayTypes /\ BusyInv /\ SourceInv /\ NumbersInv /\ RequestInv /\ CountInv /\ EachInv

(* An empty trace and no request yet: the invariant holds.                 *)
LEMMA ReplayInit == Replay!Init => ReplayInv
<1> SUFFICES ASSUME Replay!Init PROVE ReplayInv
  OBVIOUS
<1>1. /\ seq = 0 /\ open = FALSE /\ traced = FALSE /\ doing = "idle" /\ history = <<>>
      /\ silent = TRUE /\ confused = FALSE
      /\ trace = [exchanges |-> <<>>, active |-> 0, offset |-> 0, prev |-> 0,
                  recovering |-> FALSE, init |-> FALSE, precounted |-> FALSE]
  BY DEF Replay!Init, Replay!Fresh
<1>2. DOMAIN history = {} /\ history \in Seq(RequestRecords) /\ Len(history) = 0
  BY <1>1
<1>3. /\ trace.exchanges \in Seq(ExchangeRecords) /\ DOMAIN trace.exchanges = {}
      /\ trace.active = 0 /\ ~ trace.recovering /\ ~ trace.init
  BY <1>1
<1>4. Readable(trace)
  BY <1>1, <1>3 DEF Readable, TraceRecords
<1>5. MaxRequests \in Nat
  BY ScanConstants DEF Replay!TraceConstants
<1>6. ReplayTypes
  <2>1. /\ seq \in Nat /\ open \in BOOLEAN /\ doing = "idle" /\ silent \in BOOLEAN
        /\ confused \in BOOLEAN /\ traced \in BOOLEAN /\ (open => traced)
    BY <1>1, Zenon
  <2>2. Len(history) <= MaxRequests
    BY <1>2, <1>5
  <2> QED
    BY <1>2, <1>4, <2>1, <2>2 DEF ReplayTypes
<1> QED
  BY <1>1, <1>2, <1>3, <1>6 DEF ReplayInv, BusyInv, SourceInv, NumbersInv, RequestInv,
     CountInv, EachInv, Busy

-----------------------------------------------------------------------------
(* The lines about the request under way.                                  *)
LineOf(line, k) ==
  /\ line \in LineRecords /\ line.kind = k /\ line.seq = seq /\ line.of = Len(history)
  /\ line.telegram = Replay!Now.telegram

(* A line the transport writes carries the sequence number, the telegram   *)
(* and the attempts of the request under way.                              *)
LEMMA LineFacts ==
  ASSUME ReplayTypes, Len(history) \in DOMAIN history,
         NEW k \in {"SEND_PROTO", "PARSED_PROTO", "RETRY", "LOCAL_NACK_RETRY", "RECOVERY",
                    "REQUEST_FAILED"},
         NEW line, line = Replay!Line(k)
  PROVE  LineOf(line, k) /\ line.attempts = Replay!Now.attempts
<1>1. Replay!Now \in RequestRecords /\ Len(history) \in Nat /\ seq \in Nat
  <2>1. PICK s \in Seq(RequestRecords) : s = history
    BY DEF ReplayTypes
  <2>2. Len(s) \in Nat /\ DOMAIN s = 1..Len(s) /\ \A i \in DOMAIN s : s[i] \in RequestRecords
    BY LenProperties, ElementOfSeq
  <2> QED
    BY <2>1, <2>2 DEF ReplayTypes, Replay!Now
<1>2. line = [kind |-> k, seq |-> seq, of |-> Len(history), telegram |-> Replay!Now.telegram,
              answer |-> Replay!None, cause |-> "timeout", attempts |-> Replay!Now.attempts,
              reconnects |-> Replay!Now.reconnects]
  BY DEF Replay!Line
<1>3. /\ Replay!Now.telegram \in Replay!Telegrams /\ Replay!Now.attempts \in Nat
      /\ Replay!Now.reconnects \in Nat /\ Replay!None \in Outcomes
  BY <1>1 DEF RequestRecords, Outcomes
<1>4. line \in LineRecords
  BY <1>1, <1>2, <1>3 DEF LineRecords
<1> QED
  BY <1>2, <1>4 DEF LineOf

(* Giving a line its cause, its answer or one more attempt leaves it the   *)
(* line of the same request.                                               *)
LEMMA LineChanged ==
  ASSUME NEW k, NEW line, LineOf(line, k)
  PROVE  /\ \A c \in {"timeout", "other"} : LineOf([line EXCEPT !.cause = c], k)
         /\ \A c \in {"timeout", "other"} : [line EXCEPT !.cause = c].attempts = line.attempts
         /\ \A a \in Outcomes : LineOf([line EXCEPT !.answer = a], k)
                                /\ [line EXCEPT !.answer = a].answer = a
         /\ LineOf([line EXCEPT !.attempts = @ + 1], k)
         /\ [line EXCEPT !.attempts = @ + 1].attempts = line.attempts + 1
<1>1. line \in LineRecords
  BY DEF LineOf
<1>2. ASSUME NEW c \in {"timeout", "other"}
      PROVE  LineOf([line EXCEPT !.cause = c], k) /\ [line EXCEPT !.cause = c].attempts = line.attempts
  BY <1>1 DEF LineOf, LineRecords
<1>3. ASSUME NEW a \in Outcomes
      PROVE  LineOf([line EXCEPT !.answer = a], k) /\ [line EXCEPT !.answer = a].answer = a
  BY <1>1 DEF LineOf, LineRecords
<1>4. /\ LineOf([line EXCEPT !.attempts = @ + 1], k)
      /\ [line EXCEPT !.attempts = @ + 1].attempts = line.attempts + 1
  <2>1. PICK b \in Nat : b = line.attempts + 1
    BY <1>1 DEF LineRecords
  <2>2. PICK v : v = [line EXCEPT !.attempts = b]
    BY Zenon
  <2>3. v \in LineRecords /\ v.attempts = b
    BY <1>1, <2>2 DEF LineRecords
  <2>4. LineOf(v, k)
    BY <1>1, <2>2, <2>3 DEF LineOf, LineRecords
  <2>5. [line EXCEPT !.attempts = @ + 1] = v
    BY <2>1, <2>2
  <2> QED
    BY <2>1, <2>3, <2>4, <2>5
<1> QED
  BY <1>2, <1>3, <1>4

(* The types of the requests made and of the numbers in use.               *)
LEMMA AskedFacts ==
  ASSUME ReplayTypes
  PROVE  /\ Len(history) \in Nat /\ DOMAIN history = 1..Len(history)
         /\ \A r \in DOMAIN history : history[r] \in RequestRecords
         /\ seq \in Nat /\ trace.offset \in Nat /\ Number \in Nat
<1>1. PICK s \in Seq(RequestRecords) : s = history
  BY DEF ReplayTypes
<1>2. Len(s) \in Nat /\ DOMAIN s = 1..Len(s) /\ \A i \in DOMAIN s : s[i] \in RequestRecords
  BY LenProperties, ElementOfSeq
<1>3. seq \in Nat /\ trace.offset \in Nat
  BY DEF ReplayTypes, Readable, TraceRecords
<1> QED
  BY <1>1, <1>2, <1>3 DEF Number

(* What a batch does to the counts when nothing is sent or answered: only  *)
(* of what is unanswered or has this number n.                             *)
Spares(t, u, n) ==
  \A j \in DOMAIN t.exchanges :
    t.exchanges[j].response # Replay!None /\ t.exchanges[j].seq # n =>
      u.exchanges[j].attempts = t.exchanges[j].attempts
Alone(t, j, n) ==
  j \in DOMAIN t.exchanges /\ \A i \in DOMAIN t.exchanges : t.exchanges[i].seq = n <=> i = j

(* An exchange alone with its number is the one that number finds.         *)
LEMMA AloneLast ==
  ASSUME NEW t, Readable(t), NEW j, NEW n, Alone(t, j, n)
  PROVE  Replay!Numbered(t, n) # {} /\ LastOf(t, n) = j
<1>1. j \in Replay!Numbered(t, n)
  BY DEF Alone, Replay!Numbered
<1> QED
  BY <1>1, LastFacts DEF Alone

(* A line that gives a count changes the count of the exchange its number  *)
(* finds, and no other.                                                    *)
LEMMA RecountedEffect ==
  ASSUME NEW t, Readable(t), NEW line, NEW u, NEW c, Recounted(t, u, line, c)
  PROVE  /\ Alike(t, u) /\ ~ u.init
         /\ \A i \in DOMAIN t.exchanges : t.exchanges[i].seq # line.seq + t.offset =>
              u.exchanges[i].attempts = t.exchanges[i].attempts
         /\ \A j : Alone(t, j, line.seq + t.offset) => u.exchanges[j].attempts = c
<1> DEFINE n == line.seq + t.offset
<1>1. Alike(t, u) /\ ~ u.init
  BY DEF Recounted
<1>2. ASSUME NEW i \in DOMAIN t.exchanges, t.exchanges[i].seq # n
      PROVE  u.exchanges[i].attempts = t.exchanges[i].attempts
  <2>1. Known(t, line) => i # At(t, line)
    BY <1>2, LastFacts DEF Known, At
  <2> QED
    BY <2>1 DEF Recounted
<1>3. ASSUME NEW j, Alone(t, j, n) PROVE u.exchanges[j].attempts = c
  <2>1. Known(t, line) /\ At(t, line) = j
    BY <1>3, AloneLast DEF Known, At
  <2> QED
    BY <2>1 DEF Recounted
<1> QED
  BY <1>1, <1>2, <1>3

(* START and a line that says the attempts; START, perhaps INIT, and RETRY.*)
LEMMA StartEffect ==
  ASSUME NEW t, Readable(t), NEW u, u = Replay!ReadLine(t, Replay!Plain("START"))
  PROVE  /\ Alike(t, u) /\ (u.recovering <=> t.recovering) /\ (u.init <=> t.init)
         /\ \A i \in DOMAIN t.exchanges : t.exchanges[i].response # Replay!None =>
              u.exchanges[i].attempts = t.exchanges[i].attempts
         /\ ~ t.init /\ t.active \in DOMAIN t.exchanges
            /\ t.exchanges[t.active].response = Replay!None =>
              /\ u.precounted
              /\ u.exchanges[t.active].attempts = t.exchanges[t.active].attempts + 1
<1>1. t.active \in DOMAIN t.exchanges => t.active # 0
  <2>1. PICK m \in Nat : DOMAIN t.exchanges = 1..m
    BY ListFacts
  <2> QED
    BY <2>1
<1>2. /\ Alike(t, u) /\ u.recovering = t.recovering /\ u.init = t.init
      /\ Counts(t) =>
           /\ t.active \in DOMAIN t.exchanges /\ t.exchanges[t.active].response = Replay!None
           /\ u.precounted = TRUE
           /\ u.exchanges[t.active].attempts = t.exchanges[t.active].attempts + 1
      /\ \A i \in DOMAIN t.exchanges : (i # t.active \/ ~ Counts(t)) =>
           u.exchanges[i].attempts = t.exchanges[i].attempts
  BY StartRead, Zenon
<1> QED
  BY <1>1, <1>2 DEF Counts, Replay!Unanswered

(* RETRY gives no count, so it changes none.                               *)
LEMMA RetryEffect ==
  ASSUME NEW t, Readable(t), NEW line, LineOf(line, "RETRY"),
         NEW u, u = Replay!ReadLine(t, line)
  PROVE  /\ Alike(t, u) /\ ~ u.init /\ (u.recovering <=> t.recovering) /\ SameCounts(t, u)
<1>1. line \in LineRecords /\ line.kind = "RETRY"
  BY DEF LineOf
<1>2. Recounted(t, u, line, t.exchanges[At(t, line)].attempts) /\ (u.recovering <=> t.recovering)
  BY <1>1, RetryRead
<1>3. ASSUME NEW i \in DOMAIN t.exchanges
      PROVE  u.exchanges[i].attempts = t.exchanges[i].attempts
  BY <1>2 DEF Recounted
<1> QED
  BY <1>2, <1>3 DEF Recounted, SameCounts

(* Session lines after another line.                                       *)
Renewed(t, u) ==
  Alike(t, u) /\ u.exchanges = t.exchanges /\ u.precounted = t.precounted

(* INIT is remembered unless the reader is in a recovery, and ends the     *)
(* recovery.                                                               *)
LEMMA InitRenews ==
  ASSUME NEW t, Readable(t), NEW u, u = Replay!ReadLine(t, Replay!Plain("INIT"))
  PROVE  Renewed(t, u) /\ ~ u.recovering /\ (u.init <=> ~ t.recovering)
<1>1. /\ Alike(t, u) /\ u.exchanges = t.exchanges /\ u.precounted = t.precounted
      /\ u.recovering = FALSE /\ (u.init <=> ~ t.recovering)
  BY InitRead, Zenon
<1> QED
  BY <1>1 DEF Renewed

-----------------------------------------------------------------------------
(* The lines of an attempt up to its telegram, or to what became of it: a  *)
(* START if the trace is open, then INITs or none.                         *)
Lines == LineRecords \cup {Replay!Plain("START"), Replay!Plain("INIT")}
Maybe(s) == s = <<>> \/ s = <<Replay!Plain("INIT")>>

(* An INIT that may be missing, read after other lines.                    *)
LEMMA MaybeRead ==
  ASSUME NEW t, NEW a \in Seq(Lines), NEW s, Maybe(s)
  PROVE  /\ a \o s \in Seq(Lines)
         /\ s = <<>> => AllRead(t, a \o s) = AllRead(t, a)
         /\ s # <<>> => AllRead(t, a \o s) = Replay!ReadLine(AllRead(t, a), Replay!Plain("INIT"))
<1>1. PICK x \in Lines : x = Replay!Plain("INIT")
  BY DEF Lines
<1>2. CASE s = <<>>
  <2>1. a \o s = a
    BY <1>2, ConcatEmptySeq
  <2> QED
    BY <1>2, <2>1
<1>3. CASE s # <<>>
  <2>1. s = <<x>>
    BY <1>1, <1>3 DEF Maybe
  <2>2. <<x>> \in Seq(Lines)
    BY <1>1
  <2>3. a \o <<x>> \in Seq(Lines)
    BY <2>2, ConcatProperties
  <2>4. AllRead(t, a \o <<x>>) = Replay!ReadLine(AllRead(t, a), x)
    BY <1>1, OneMoreRead
  <2> QED
    BY <1>1, <1>3, <2>1, <2>3, <2>4
<1> QED
  BY <1>2, <1>3

(* A START written counts one attempt of the exchange under way, unless an *)
(* INIT came just before; a START that is not written counts none.         *)
Pending(t) ==
  traced /\ ~ t.init /\ t.active \in DOMAIN t.exchanges
  /\ t.exchanges[t.active].response = Replay!None
Counted(t, w) ==
  /\ Alike(t, w) /\ Settles(t, w) /\ (~ traced => SameCounts(t, w))
  /\ Pending(t) => w.exchanges[t.active].attempts = t.exchanges[t.active].attempts + 1
Precounts(t, w) == Pending(t) => w.precounted

(* The START of an attempt, if it is written.                              *)
LEMMA StartingRead ==
  ASSUME NEW t, Readable(t), traced \in BOOLEAN, NEW v, v = AllRead(t, Replay!Starting)
  PROVE  /\ Replay!Starting \in Seq(Lines) /\ Counted(t, v) /\ Precounts(t, v)
         /\ (v.recovering <=> t.recovering) /\ (v.init <=> t.init)
<1>1. CASE traced
  <2>1. PICK b \in Lines : b = Replay!Plain("START")
    BY DEF Lines
  <2>2. Replay!Starting = <<b>>
    BY <1>1, <2>1 DEF Replay!Starting
  <2>3. v = Replay!ReadLine(t, b)
    BY <2>2, OneRead
  <2>4. /\ Alike(t, v) /\ (v.recovering <=> t.recovering) /\ (v.init <=> t.init)
        /\ \A i \in DOMAIN t.exchanges : t.exchanges[i].response # Replay!None =>
             v.exchanges[i].attempts = t.exchanges[i].attempts
        /\ ~ t.init /\ t.active \in DOMAIN t.exchanges
           /\ t.exchanges[t.active].response = Replay!None =>
             /\ v.precounted
             /\ v.exchanges[t.active].attempts = t.exchanges[t.active].attempts + 1
    BY <2>1, <2>3, StartEffect
  <2>5. <<b>> \in Seq(Lines)
    BY <2>1
  <2> QED
    BY <1>1, <2>2, <2>4, <2>5 DEF Counted, Precounts, Pending, Settles
<1>2. CASE ~ traced
  <2>1. Replay!Starting = <<>>
    BY <1>2 DEF Replay!Starting
  <2>2. v = t
    BY <2>1, NoneRead
  <2>3. <<>> \in Seq(Lines)
    OBVIOUS
  <2> QED
    BY <1>2, <2>1, <2>2, <2>3 DEF Counted, Precounts, Pending, Settles, SameCounts, Alike,
       SameExchange
<1> QED
  BY <1>1, <1>2

(* An INIT after it counts nothing.                                        *)
LEMMA InitsRead ==
  ASSUME NEW t, NEW a \in Seq(Lines), NEW v, v = AllRead(t, a), Counted(t, v), Precounts(t, v),
         NEW s, Maybe(s), NEW w, w = AllRead(t, a \o s)
  PROVE  /\ a \o s \in Seq(Lines) /\ Counted(t, w) /\ Precounts(t, w)
         /\ (w.recovering <=> v.recovering /\ s = <<>>)
         /\ (w.init <=> IF s = <<>> THEN v.init ELSE ~ v.recovering)
<1>1. a \o s \in Seq(Lines)
  BY MaybeRead
<1>2. CASE s = <<>>
  <2>1. w = v
    BY <1>2, MaybeRead
  <2> QED
    BY <1>1, <1>2, <2>1
<1>3. CASE s # <<>>
  <2>1. w = Replay!ReadLine(v, Replay!Plain("INIT"))
    BY <1>3, MaybeRead
  <2>2. Readable(v) /\ Alike(t, v)
    BY DEF Counted, Alike
  <2>3. Renewed(v, w) /\ ~ w.recovering /\ (w.init <=> ~ v.recovering)
    BY <2>1, <2>2, InitRenews
  <2>4. Alike(v, w) /\ w.exchanges = v.exchanges /\ w.precounted = v.precounted
    BY <2>3 DEF Renewed
  <2>5. Alike(t, w)
    BY <2>2, <2>4, AlikeAlike
  <2>6. Counted(t, w) /\ Precounts(t, w)
    BY <2>4, <2>5 DEF Counted, Precounts, Settles, SameCounts
  <2> QED
    BY <1>1, <1>3, <2>3, <2>6
<1> QED
  BY <1>2, <1>3

(* RETRY after them counts nothing either, and the reader forgets the INIT.*)
LEMMA RetryEnds ==
  ASSUME NEW t, NEW a \in Seq(Lines), NEW v, v = AllRead(t, a), Counted(t, v),
         NEW line, LineOf(line, "RETRY"), NEW w, w = AllRead(t, a \o <<line>>)
  PROVE  Counted(t, w) /\ ~ w.init /\ (w.recovering <=> v.recovering)
<1>1. line \in Lines
  BY DEF LineOf, Lines
<1>2. w = Replay!ReadLine(v, line)
  BY <1>1, OneMoreRead
<1>3. Readable(v) /\ Alike(t, v)
  BY DEF Counted, Alike
<1>4. Alike(v, w) /\ ~ w.init /\ (w.recovering <=> v.recovering) /\ SameCounts(v, w)
  BY <1>2, <1>3, RetryEffect
<1>5. Alike(t, w)
  BY <1>3, <1>4, AlikeAlike
<1>6. \A i \in DOMAIN t.exchanges : w.exchanges[i].attempts = v.exchanges[i].attempts
  BY <1>3, <1>4 DEF Alike, SameCounts
<1>7. Counted(t, w)
  BY <1>5, <1>6 DEF Counted, Settles, SameCounts, Pending
<1> QED
  BY <1>4, <1>7

(* The lines of an attempt that ends in a recovery (perhaps START, then    *)
(* RECOVERY) set the count of the request's exchange to the transport's.   *)
LEMMA DroppedEffect ==
  ASSUME NEW t, Readable(t), traced \in BOOLEAN, NEW line, LineOf(line, "RECOVERY"),
         NEW u, u = AllRead(t, Replay!Starting \o <<line>>)
  PROVE  /\ Alike(t, u) /\ ~ u.init /\ u.recovering
         /\ Spares(t, u, seq + t.offset)
         /\ \A j : Alone(t, j, seq + t.offset) => u.exchanges[j].attempts = line.attempts
<1>1. PICK a : a = Replay!Starting
  OBVIOUS
<1>2. PICK v : v = AllRead(t, a)
  OBVIOUS
<1>3. a \in Seq(Lines) /\ Counted(t, v)
  BY <1>1, <1>2, StartingRead
<1>4. Alike(t, v) /\ Settles(t, v)
  BY <1>3 DEF Counted
<1>5. line \in LineRecords /\ line.kind = "RECOVERY" /\ line.seq = seq
  BY DEF LineOf
<1>6. u = Replay!ReadLine(v, line)
  <2>1. line \in Lines
    BY <1>5 DEF Lines
  <2> QED
    BY <1>1, <1>2, <1>3, <2>1, OneMoreRead
<1>7. Readable(v) /\ v.offset = t.offset
  BY <1>4 DEF Alike
<1>8. Recounted(v, u, line, line.attempts) /\ u.recovering
  BY <1>5, <1>6, <1>7, RecoveryRead
<1>9. /\ Alike(v, u) /\ ~ u.init
      /\ \A i \in DOMAIN v.exchanges : v.exchanges[i].seq # line.seq + v.offset =>
           u.exchanges[i].attempts = v.exchanges[i].attempts
      /\ \A j : Alone(v, j, line.seq + v.offset) => u.exchanges[j].attempts = line.attempts
  BY <1>7, <1>8, RecountedEffect
<1>10. \A j : Alone(t, j, seq + t.offset) => Alone(v, j, line.seq + v.offset)
  BY <1>4, <1>5, <1>7 DEF Alike, SameExchange, Alone
<1>11. Spares(t, u, seq + t.offset)
  BY <1>4, <1>5, <1>7, <1>9 DEF Spares, Alike, SameExchange, Settles
<1>12. Alike(t, u)
  BY <1>4, <1>9, AlikeAlike
<1> QED
  BY <1>8, <1>9, <1>10, <1>11, <1>12

-----------------------------------------------------------------------------
(* An action that neither sends nor receives leaves the invariant alone.   *)
Amended(h, g) ==
  /\ DOMAIN g = DOMAIN h /\ Len(g) = Len(h)
  /\ \A r \in DOMAIN h :
       /\ g[r].telegram = h[r].telegram /\ g[r].answer = h[r].answer
       /\ (g[r].sent <=> h[r].sent) /\ (h[r].unmarked => g[r].unmarked)
       /\ h[r].answer # Replay!None => g[r] = h[r]

Quiet ==
  /\ Alike(trace, trace') /\ Amended(history, history')
  /\ seq' = seq /\ silent' = silent /\ (confused => confused')
  /\ Busy' => Busy
  /\ doing' = "sent" => doing = "sent"
  /\ ~ confused' /\ silent /\ DOMAIN trace.exchanges # {} =>
       ~ trace'.recovering /\ (open' => trace'.init)
  /\ \/ Settles(trace, trace')
     \/ /\ Busy /\ (silent /\ DOMAIN trace.exchanges # {} => confused')
        /\ Spares(trace, trace', Number)
Followed ==
  ~ confused' /\ Busy' /\ Replay!Now'.sent /\ ~ Replay!Now'.unmarked =>
    /\ (trace'.init => doing' = "begin" /\ ~ traced')
    /\ (doing' = "recovery" => trace'.recovering)
    /\ Between(trace'.exchanges[trace'.active].attempts, Replay!Now')

(* A quiet step leaves the request under way where it was.                 *)
LEMMA QuietNow ==
  ASSUME Quiet, BusyInv
  PROVE  /\ Busy' => Busy /\ (Replay!Now'.sent <=> Replay!Now.sent)
         /\ Number' = Number
<1>1. Busy' => Len(history) \in DOMAIN history
  BY DEF Quiet, BusyInv
<1>2. Number' = Number
  BY DEF Quiet, Alike, Number
<1> QED
  BY <1>1, <1>2 DEF Quiet, Amended, Replay!Now

(* A quiet step keeps every exchange's source.                             *)
LEMMA QuietSource ==
  ASSUME Quiet, BusyInv, SourceInv, ReplayTypes
  PROVE  SourceInv'
<1> DEFINE E == trace.exchanges
           F == trace'.exchanges
<1>1. /\ DOMAIN F = DOMAIN E /\ trace'.active = trace.active
      /\ \A i \in DOMAIN E : /\ F[i].seq = E[i].seq /\ F[i].telegram = E[i].telegram
                             /\ F[i].response = E[i].response /\ F[i].answers = E[i].answers
                             /\ F[i].of = E[i].of
  BY DEF Quiet, Alike, SameExchange
<1>2. /\ DOMAIN history' = DOMAIN history /\ Len(history') = Len(history)
      /\ \A r \in DOMAIN history :
           /\ history'[r].telegram = history[r].telegram /\ history'[r].answer = history[r].answer
           /\ (history'[r].sent <=> history[r].sent)
  BY DEF Quiet, Amended
<1>3. Number' = Number /\ (doing' = "sent" => doing = "sent")
  BY QuietNow DEF Quiet
<1>4. Replay!Numbered(trace', Number) = Replay!Numbered(trace, Number)
  BY AlikeNumbers DEF Quiet
<1> HIDE DEF E, F
<1>5. \A i \in DOMAIN F : \A r \in F[i].of :
        /\ r \in DOMAIN history' /\ history'[r].sent
        /\ history'[r].telegram = F[i].telegram
  <2>1. \A i \in DOMAIN E : \A r \in E[i].of :
          r \in DOMAIN history /\ history[r].sent /\ history[r].telegram = E[i].telegram
    BY DEF SourceInv, E
  <2> QED
    BY <1>1, <1>2, <2>1
<1>6. \A i \in DOMAIN F :
        /\ F[i].response # Replay!None <=> F[i].answers # 0
        /\ F[i].answers # 0 => F[i].answers \in F[i].of
                               /\ history'[F[i].answers].answer = F[i].response
  <2>1. \A i \in DOMAIN E :
          /\ E[i].response # Replay!None <=> E[i].answers # 0
          /\ E[i].answers # 0 => E[i].answers \in E[i].of
                                 /\ history[E[i].answers].answer = E[i].response
          /\ \A r \in E[i].of : r \in DOMAIN history
    BY DEF SourceInv, E
  <2> QED
    BY <1>1, <1>2, <2>1
<1>7. \A r \in DOMAIN history' : history'[r].answer # Replay!None =>
        \E i \in DOMAIN F : F[i].answers = r
  <2>1. \A r \in DOMAIN history : history[r].answer # Replay!None =>
          \E i \in DOMAIN E : E[i].answers = r
    BY DEF SourceInv, E
  <2> QED
    BY <1>1, <1>2, <2>1
<1>8. doing' = "sent" =>
        /\ trace'.active \in DOMAIN F /\ F[trace'.active].seq = Number'
        /\ \A i \in Replay!Numbered(trace', Number') : i <= trace'.active
        /\ F[trace'.active].response = Replay!None
        /\ Len(history') \in F[trace'.active].of
  <2>1. doing = "sent" =>
          /\ trace.active \in DOMAIN E /\ E[trace.active].seq = Number
          /\ \A i \in Replay!Numbered(trace, Number) : i <= trace.active
          /\ E[trace.active].response = Replay!None
          /\ Len(history) \in E[trace.active].of
    BY DEF SourceInv, E
  <2> QED
    BY <1>1, <1>2, <1>3, <1>4, <2>1
<1>9. Replay!Numbered(trace, Number)' = Replay!Numbered(trace', Number')
  BY DEF Replay!Numbered
<1> QED
  BY <1>5, <1>6, <1>7, <1>8, <1>9 DEF SourceInv, F

(* A quiet step keeps the numbers apart.                                   *)
LEMMA QuietNumbers ==
  ASSUME Quiet, BusyInv, NumbersInv, ReplayTypes
  PROVE  NumbersInv'
<1> SUFFICES ASSUME ~ confused' PROVE NumbersInv'
  BY DEF NumbersInv
<1> DEFINE E == trace.exchanges
           F == trace'.exchanges
<1>1. /\ DOMAIN F = DOMAIN E /\ trace'.offset = trace.offset /\ trace'.prev = trace.prev
      /\ \A i \in DOMAIN E : F[i].seq = E[i].seq /\ F[i].of = E[i].of
  BY DEF Quiet, Alike, SameExchange
<1>2. DOMAIN history' = DOMAIN history /\ seq' = seq /\ silent' = silent
  BY DEF Quiet, Amended
<1>3. Busy' => Busy /\ (Replay!Now'.sent <=> Replay!Now.sent)
  BY QuietNow
<1>4. silent /\ DOMAIN E # {} => ~ trace'.recovering /\ (open' => trace'.init)
  BY DEF Quiet
<1>5. ~ confused
  BY DEF Quiet
<1> HIDE DEF E, F
<1>6. /\ \A i \in DOMAIN E : \E r \in DOMAIN history : E[i].of = {r}
      /\ \A i \in DOMAIN E : E[i].seq <= trace.offset + trace.prev
      /\ \A i, j \in DOMAIN E : E[i].seq = E[j].seq => i = j
      /\ ~ silent => seq >= trace.prev
      /\ Busy /\ ~ Replay!Now.sent /\ ~ silent => seq > trace.prev
  BY <1>5 DEF NumbersInv, E
<1>7. /\ \A i \in DOMAIN F : \E r \in DOMAIN history' : F[i].of = {r}
      /\ \A i \in DOMAIN F : F[i].seq <= trace'.offset + trace'.prev
      /\ \A i, j \in DOMAIN F : F[i].seq = F[j].seq => i = j
  BY <1>1, <1>2, <1>6
<1>8. /\ silent' => DOMAIN F = {} \/ (~ trace'.recovering /\ (open' => trace'.init))
      /\ ~ silent' => seq' >= trace'.prev
      /\ Busy' /\ ~ Replay!Now'.sent /\ ~ silent' => seq' > trace'.prev
  BY <1>1, <1>2, <1>3, <1>4, <1>6, Zenon
<1> QED
  BY <1>7, <1>8 DEF NumbersInv, F

(* A quiet step keeps the active exchange that of the request under way.   *)
LEMMA QuietRequest ==
  ASSUME Quiet, BusyInv, RequestInv
  PROVE  RequestInv'
<1> SUFFICES ASSUME ~ confused', Busy', Replay!Now'.sent PROVE RequestInv'
  BY DEF RequestInv
<1>1. ~ confused /\ Busy /\ Replay!Now.sent /\ Number' = Number
  BY QuietNow DEF Quiet
<1>2. /\ ~ silent /\ seq = trace.prev
      /\ trace.active \in DOMAIN trace.exchanges /\ trace.exchanges[trace.active].seq = Number
      /\ trace.exchanges[trace.active].of = {Len(history)}
      /\ trace.exchanges[trace.active].response = Replay!None
  BY <1>1 DEF RequestInv
<1> QED
  BY <1>1, <1>2 DEF RequestInv, Quiet, Alike, SameExchange, Amended

(* A quiet step keeps an exchange for every request sent.                  *)
LEMMA QuietEach ==
  ASSUME Quiet, EachInv
  PROVE  EachInv'
<1> SUFFICES ASSUME ~ confused' PROVE EachInv'
  BY DEF EachInv
<1>1. /\ DOMAIN trace'.exchanges = DOMAIN trace.exchanges
      /\ \A i \in DOMAIN trace.exchanges : trace'.exchanges[i].of = trace.exchanges[i].of
  BY DEF Quiet, Alike, SameExchange
<1>2. ~ confused /\ DOMAIN history' = DOMAIN history
      /\ \A r \in DOMAIN history :
           (history'[r].sent <=> history[r].sent) /\ (history[r].unmarked => history'[r].unmarked)
  BY DEF Quiet, Amended
<1> QED
  BY <1>1, <1>2 DEF EachInv

(* A quiet step keeps the counts of the exchanges that are over, and its   *)
(* own condition covers the one under way.                                 *)
LEMMA QuietCounts ==
  ASSUME Quiet, Followed, BusyInv, SourceInv, NumbersInv, RequestInv, CountInv, ReplayTypes
  PROVE  CountInv'
<1> SUFFICES ASSUME ~ confused' PROVE CountInv'
  BY DEF CountInv
<1> DEFINE E == trace.exchanges
           F == trace'.exchanges
<1>1. /\ DOMAIN F = DOMAIN E
      /\ \A i \in DOMAIN E : F[i].response = E[i].response /\ F[i].answers = E[i].answers
  BY DEF Quiet, Alike, SameExchange
<1>2. ~ confused
  BY DEF Quiet
<1>3. ASSUME NEW i \in DOMAIN F, F[i].response # Replay!None,
             ~ history'[F[i].answers].unmarked
      PROVE  Between(F[i].attempts, history'[F[i].answers])
  <2>1. i \in DOMAIN E /\ E[i].response # Replay!None
    BY <1>1, <1>3
  <2>2. PICK r : r = E[i].answers /\ r = F[i].answers
    BY <1>1, <2>1
  <2>3. r \in DOMAIN history /\ history[r].answer # Replay!None
    BY <2>1, <2>2, Zenon DEF SourceInv
  <2>4. history'[r] = history[r]
    BY <2>3 DEF Quiet, Amended
  <2>5. Between(E[i].attempts, history[r])
    BY <1>2, <1>3, <2>1, <2>2, <2>4, Zenon DEF CountInv
  <2>6. E[i].seq # Number \/ Settles(trace, trace')
    <3> SUFFICES ASSUME ~ Settles(trace, trace'), E[i].seq = Number PROVE FALSE
      OBVIOUS
    <3>1. Busy /\ ~ silent
      BY <2>1 DEF Quiet
    <3>2. CASE Replay!Now.sent
      BY <1>2, <2>1, <3>1, <3>2 DEF RequestInv, NumbersInv
    <3>3. CASE ~ Replay!Now.sent
      <4>1. seq > trace.prev /\ E[i].seq <= trace.offset + trace.prev
        BY <1>2, <2>1, <3>1, <3>3 DEF NumbersInv
      <4>2. trace.offset \in Nat /\ trace.prev \in Nat /\ seq \in Nat
        BY DEF ReplayTypes, Readable, TraceRecords
      <4>3. PICK x : x = E[i].seq
        OBVIOUS
      <4>4. x = seq + trace.offset /\ x <= trace.offset + trace.prev /\ seq > trace.prev
        BY <4>1, <4>3 DEF Number
      <4> QED
        BY <4>2, <4>4
    <3> QED
      BY <3>2, <3>3
  <2>7. F[i].attempts = E[i].attempts
    BY <2>1, <2>6 DEF Quiet, Settles, Spares
  <2> QED
    BY <2>2, <2>4, <2>5, <2>7
<1>4. Busy' /\ Replay!Now'.sent /\ ~ Replay!Now'.unmarked =>
        /\ (trace'.init => doing' = "begin" /\ ~ traced')
        /\ (doing' = "recovery" => trace'.recovering)
        /\ Between(F[trace'.active].attempts, Replay!Now')
  BY DEF Followed
<1> HIDE DEF E, F
<1>5. \A i \in DOMAIN F : F[i].response # Replay!None /\ ~ history'[F[i].answers].unmarked =>
        Between(F[i].attempts, history'[F[i].answers])
  BY <1>3
<1> QED
  BY <1>4, <1>5 DEF CountInv, F, Between

QuietStep == Quiet /\ Followed /\ ReplayTypes' /\ BusyInv'

(* Together: a quiet step keeps the invariant.                             *)
LEMMA QuietKeeps ==
  ASSUME ReplayInv, QuietStep
  PROVE  ReplayInv'
<1>1. Quiet /\ Followed /\ ReplayTypes' /\ BusyInv'
  BY DEF QuietStep
<1>2. /\ ReplayTypes /\ BusyInv /\ SourceInv /\ NumbersInv /\ RequestInv /\ CountInv /\ EachInv
  BY DEF ReplayInv
<1>3. SourceInv'
  BY <1>1, <1>2, QuietSource
<1>4. NumbersInv' /\ RequestInv' /\ EachInv'
  BY <1>1, <1>2, QuietNumbers, QuietRequest, QuietEach
<1>5. CountInv'
  BY <1>1, <1>2, QuietCounts
<1> QED
  BY <1>1, <1>3, <1>4, <1>5 DEF ReplayInv

(* The request under way, changed.                                         *)
Amends(q) ==
  /\ q \in RequestRecords
  /\ q.telegram = Replay!Now.telegram /\ q.answer = Replay!Now.answer
  /\ (q.sent <=> Replay!Now.sent) /\ (Replay!Now.unmarked => q.unmarked)
  /\ q.early <= q.attempts /\ (~ q.sent => q.early = q.attempts)
AmendedBy(q) ==
  /\ history' \in Seq(RequestRecords) /\ Len(history') = Len(history)
  /\ Replay!Now' = q /\ Amended(history, history')
  /\ Len(history') \in DOMAIN history' /\ q.answer = Replay!None
  /\ \A r \in DOMAIN history' :
       /\ history'[r].early <= history'[r].attempts
       /\ ~ history'[r].sent => history'[r].early = history'[r].attempts

(* Changing only the counts of the last request amends the list of         *)
(* requests.                                                               *)
LEMMA AmendFacts ==
  ASSUME ReplayTypes, BusyInv, Busy, NEW q, Amends(q),
         history' = [history EXCEPT ![Len(history)] = q]
  PROVE  AmendedBy(q)
<1>1. /\ Len(history) \in Nat /\ DOMAIN history = 1..Len(history)
      /\ history \in Seq(RequestRecords) /\ q \in RequestRecords
  BY AskedFacts DEF ReplayTypes, Amends
<1>2. Len(history) \in DOMAIN history /\ Replay!Now.answer = Replay!None
  BY DEF BusyInv
<1>3. history' \in Seq(RequestRecords) /\ Len(history') = Len(history)
  BY <1>1, <1>2, ExceptSeq
<1>4. /\ DOMAIN history' = DOMAIN history
      /\ history'[Len(history)] = q
      /\ \A r \in DOMAIN history : r # Len(history) => history'[r] = history[r]
  BY <1>2
<1>5. Replay!Now' = q
  BY <1>3, <1>4 DEF Replay!Now
<1>6. Amended(history, history')
  BY <1>2, <1>3, <1>4 DEF Amended, Amends, Replay!Now
<1>7. \A r \in DOMAIN history' :
        /\ history'[r].early <= history'[r].attempts
        /\ ~ history'[r].sent => history'[r].early = history'[r].attempts
  BY <1>4 DEF Amends, BusyInv
<1> QED
  BY <1>2, <1>3, <1>4, <1>5, <1>6, <1>7 DEF AmendedBy, Amends

(* The type and busy parts of an action, from the new request.             *)
LEMMA QuietTypes ==
  ASSUME ReplayTypes, Quiet, NEW q, AmendedBy(q),
         open' \in BOOLEAN, doing' \in {"idle", "begin", "sent", "recovery"},
         confused' \in BOOLEAN, traced' \in BOOLEAN, open' => traced',
         trace'.recovering => ~ open', doing' = "sent" => open' /\ q.sent,
         doing' = "recovery" => ~ open', BusyInv
  PROVE  ReplayTypes' /\ BusyInv'
<1>1. Readable(trace') /\ seq' = seq /\ silent' = silent /\ (Busy' => Busy)
  BY DEF Quiet, Alike
<1>2. ReplayTypes'
  <2>1. Readable(trace)' <=> Readable(trace')
    BY DEF Readable, TraceRecords, ExchangeRecords, Outcomes
  <2> QED
    BY <1>1, <2>1 DEF ReplayTypes, AmendedBy
<1>3. BusyInv'
  BY <1>1 DEF BusyInv, AmendedBy
<1> QED
  BY <1>2, <1>3

-----------------------------------------------------------------------------
(* What the number of the request under way leads to.                      *)
LEMMA RequestKnown ==
  ASSUME ReplayInv, ~ confused, Busy, Replay!Now.sent
  PROVE  /\ Alone(trace, trace.active, Number) /\ ~ silent /\ seq = trace.prev
         /\ trace.active \in DOMAIN trace.exchanges
         /\ trace.exchanges[trace.active].response = Replay!None
         /\ trace.exchanges[trace.active].of = {Len(history)}
<1>1. /\ ~ silent /\ seq = trace.prev
      /\ trace.active \in DOMAIN trace.exchanges /\ trace.exchanges[trace.active].seq = Number
      /\ trace.exchanges[trace.active].response = Replay!None
      /\ trace.exchanges[trace.active].of = {Len(history)}
  BY DEF ReplayInv, RequestInv
<1>2. \A i, j \in DOMAIN trace.exchanges :
        trace.exchanges[i].seq = trace.exchanges[j].seq => i = j
  BY DEF ReplayInv, NumbersInv
<1>3. ASSUME NEW i \in DOMAIN trace.exchanges
      PROVE  trace.exchanges[i].seq = Number <=> i = trace.active
  BY <1>1, <1>2
<1>4. Alone(trace, trace.active, Number)
  BY <1>1, <1>3 DEF Alone
<1> QED
  BY <1>1, <1>4

(* The count of the request under way is the transport's, less at most the *)
(* attempts before its first SEND_PROTO.                                   *)
LEMMA RequestCounts ==
  ASSUME ReplayInv, ~ confused, Busy, Replay!Now.sent, ~ Replay!Now.unmarked
  PROVE  /\ (trace.init => doing = "begin" /\ ~ traced)
         /\ (doing = "recovery" => trace.recovering)
         /\ Between(trace.exchanges[trace.active].attempts, Replay!Now)
BY DEF ReplayInv, CountInv

(* What the invariant says of the request under way.                       *)
LEMMA NowFacts ==
  ASSUME ReplayInv, Busy
  PROVE  /\ Readable(trace) /\ Replay!Now \in RequestRecords /\ Len(history) \in DOMAIN history
         /\ Replay!Now.answer = Replay!None /\ Replay!Now.early <= Replay!Now.attempts
         /\ ~ Replay!Now.sent => Replay!Now.early = Replay!Now.attempts
         /\ ReplayTypes /\ BusyInv
<1>1. ReplayTypes /\ BusyInv
  BY DEF ReplayInv
<1>2. Len(history) \in DOMAIN history /\ Replay!Now.answer = Replay!None
  BY <1>1 DEF BusyInv
<1>3. \A r \in DOMAIN history : history[r] \in RequestRecords
  BY <1>1, AskedFacts
<1> QED
  BY <1>1, <1>2, <1>3 DEF BusyInv, ReplayTypes, Replay!Now

(* A request that is not changed.                                          *)
LEMMA SameAmended ==
  ASSUME ReplayInv, Busy, history' = history
  PROVE  AmendedBy(Replay!Now)
<1>1. /\ ReplayTypes /\ BusyInv /\ Len(history) \in DOMAIN history
      /\ Replay!Now.answer = Replay!None
  BY NowFacts
<1>2. Replay!Now' = Replay!Now
  BY DEF Replay!Now
<1> QED
  BY <1>1, <1>2 DEF AmendedBy, Amended, ReplayTypes, BusyInv

(* An attempt that is counted.                                             *)
LEMMA BegunFacts ==
  ASSUME ReplayInv, Busy, NEW q, q = Replay!Begun(Replay!Now)
  PROVE  /\ Amends(q) /\ (q.unmarked <=> Replay!Now.unmarked)
         /\ q.attempts = Replay!Now.attempts + 1
         /\ q.early = IF Replay!Now.sent /\ traced THEN Replay!Now.early
                      ELSE Replay!Now.early + 1
<1>1. PICK p \in RequestRecords : p = Replay!Now
  BY NowFacts
<1>2. /\ p.attempts \in Nat /\ p.early \in Nat /\ p.early <= p.attempts
      /\ ~ p.sent => p.early = p.attempts
  BY <1>1, NowFacts DEF RequestRecords
<1>3. PICK a \in Nat : a = p.attempts + 1
  BY <1>2
<1>4. PICK b \in Nat : b = IF p.sent /\ traced THEN p.early ELSE p.early + 1
  BY <1>2
<1>5. q = [p EXCEPT !.attempts = a, !.early = b]
  BY <1>1, <1>3, <1>4 DEF Replay!Begun
<1>6. q \in RequestRecords
  BY <1>5, Zenon DEF RequestRecords
<1>7. /\ q.attempts = a /\ q.early = b /\ q.telegram = p.telegram /\ q.answer = p.answer
      /\ q.sent = p.sent /\ q.unmarked = p.unmarked
  BY <1>5 DEF RequestRecords
<1>8. b <= a /\ (~ p.sent => b = a)
  BY <1>2, <1>3, <1>4
<1> QED
  BY <1>1, <1>3, <1>4, <1>6, <1>7, <1>8 DEF Amends

ChangedNow(q) == history' = [history EXCEPT ![Len(history)] = q]

(* One attempt more on both sides keeps the count between its bounds.      *)
LEMMA BetweenMore ==
  ASSUME ReplayInv, Busy, NEW a, a \in Nat, Between(a, Replay!Now), NEW q,
         q.attempts = Replay!Now.attempts + 1, q.early = Replay!Now.early
  PROVE  Between(a + 1, q)
<1>1. Replay!Now.attempts \in Nat /\ Replay!Now.early \in Nat
  BY NowFacts DEF RequestRecords
<1>2. PICK x \in Nat : x = Replay!Now.attempts
  BY <1>1
<1>3. PICK y \in Nat : y = Replay!Now.early
  BY <1>1
<1>4. x <= a + y /\ a <= x
  BY <1>2, <1>3 DEF Between
<1>5. x + 1 <= (a + 1) + y /\ a + 1 <= x + 1
  BY <1>4
<1> QED
  BY <1>2, <1>3, <1>5 DEF Between

(* What the reader has counted is a number.                                *)
LEMMA CountIsNat ==
  ASSUME ReplayInv, NEW i \in DOMAIN trace.exchanges
  PROVE  trace.exchanges[i].attempts \in Nat
<1>1. Readable(trace)
  BY DEF ReplayInv, ReplayTypes
<1>2. trace.exchanges[i] \in ExchangeRecords
  BY <1>1, ListFacts
<1> QED
  BY <1>2 DEF ExchangeRecords

-----------------------------------------------------------------------------
(* The actions that neither send nor receive, and keep the invariant.      *)
MarksNow == confused' <=> (confused \/ (silent /\ DOMAIN trace.exchanges # {}))

(* A line before a restarted transport's first SEND_PROTO confuses the     *)
(* reader.                                                                 *)
LEMMA MarksFacts ==
  ASSUME ReplayInv, Replay!Marks
  PROVE  MarksNow /\ silent' = silent /\ confused' \in BOOLEAN
<1>1. Readable(trace) /\ confused \in BOOLEAN /\ silent \in BOOLEAN
  BY DEF ReplayInv, ReplayTypes
<1>2. trace.exchanges = <<>> <=> DOMAIN trace.exchanges = {}
  BY <1>1, ListFacts
<1>3. confused' = (confused \/ (silent /\ trace.exchanges # <<>>)) /\ silent' = silent
  BY DEF Replay!Marks
<1> QED
  BY <1>1, <1>2, <1>3 DEF MarksNow

(* What an attempt that goes wrong makes of the session and the trace.     *)
Loses(u) ==
  /\ Counted(trace, u) /\ open' \in BOOLEAN /\ traced' \in BOOLEAN /\ (open' => traced')
  /\ (u.init => ~ traced') /\ (open' => ~ u.recovering)
  /\ silent' = silent /\ confused' \in BOOLEAN
  /\ \/ MarksNow
     \/ (confused' <=> confused) /\ ~ u.recovering /\ ~ open'

(* Its lines: START if the trace is open, INITs or none, and RETRY if it   *)
(* still is.                                                               *)
LEMMA LostReads ==
  ASSUME ReplayInv, Replay!Lost
  PROVE  Loses(trace')
<1>1. Busy
  BY DEF Replay!Lost, Replay!Begin, Busy
<1>2. /\ ReplayTypes /\ BusyInv /\ Len(history) \in DOMAIN history /\ Readable(trace)
      /\ open \in BOOLEAN /\ traced \in BOOLEAN /\ confused \in BOOLEAN
      /\ (trace.recovering => ~ open)
  BY <1>1, NowFacts DEF ReplayTypes, BusyInv
<1>3. PICK a : a = Replay!Starting
  OBVIOUS
<1>4. PICK v : v = AllRead(trace, a)
  OBVIOUS
<1>5. /\ a \in Seq(Lines) /\ Counted(trace, v) /\ Precounts(trace, v)
      /\ (v.recovering <=> trace.recovering) /\ (v.init <=> trace.init)
  BY <1>2, <1>3, <1>4, StartingRead
<1>6. PICK o : o = Replay!Opening
  OBVIOUS
<1>7. Maybe(o) /\ (o = <<>> => open) /\ Maybe(<<>>)
  BY <1>6 DEF Replay!Opening, Maybe
<1>8. ASSUME NEW s, Maybe(s), NEW w, w = AllRead(trace, a \o s)
      PROVE  /\ a \o s \in Seq(Lines) /\ Counted(trace, w) /\ Precounts(trace, w)
             /\ (w.recovering <=> v.recovering /\ s = <<>>)
  BY <1>4, <1>5, <1>8, InitsRead
<1>9. PICK b : b = a \o o
  OBVIOUS
<1>10. PICK x : x = AllRead(trace, b)
  OBVIOUS
<1>11. b \in Seq(Lines) /\ Counted(trace, x) /\ Precounts(trace, x) /\ ~ x.recovering
  BY <1>2, <1>5, <1>7, <1>8, <1>9, <1>10
<1>12. ASSUME NEW reset, Maybe(reset), NEW w, w = AllRead(trace, b \o reset)
       PROVE  b \o reset \in Seq(Lines) /\ Counted(trace, w) /\ ~ w.recovering
  BY <1>10, <1>11, <1>12, InitsRead
<1>13. ASSUME NEW c \in {"timeout", "other"}
       PROVE  \E line : LineOf(line, "RETRY") /\ Replay!Retry(c) = <<line>>
  <2>1. PICK l : l = Replay!Line("RETRY")
    OBVIOUS
  <2>2. LineOf(l, "RETRY")
    BY <1>2, <2>1, LineFacts
  <2>3. LineOf([l EXCEPT !.cause = c], "RETRY")
    BY <2>2, LineChanged, Zenon
  <2> QED
    BY <2>1, <2>3 DEF Replay!Retry
<1>14. PICK u : u = trace'
  OBVIOUS
<1>15. CASE \E reset \in Replay!Resets, cause \in Replay!Causes : Replay!LostOpen(reset, cause)
  <2>1. PICK reset \in Replay!Resets, cause \in Replay!Causes : Replay!LostOpen(reset, cause)
    BY <1>15
  <2>2. Maybe(reset) /\ cause \in {"timeout", "other"}
    BY <2>1 DEF Replay!Resets, Maybe, Replay!Causes
  <2>3. PICK line : LineOf(line, "RETRY") /\ Replay!Retry(cause) = <<line>>
    BY <1>13, <2>2
  <2>4. open' = TRUE /\ traced' = TRUE /\ Replay!Marks
    BY <2>1 DEF Replay!LostOpen, Replay!Opened
  <2>5. u = AllRead(trace, (b \o reset) \o <<line>>)
    BY <1>3, <1>6, <1>9, <1>14, <2>1, <2>3 DEF Replay!LostOpen, Replay!Write, AllRead
  <2>6. PICK w : w = AllRead(trace, b \o reset)
    OBVIOUS
  <2>7. b \o reset \in Seq(Lines) /\ Counted(trace, w) /\ ~ w.recovering
    BY <1>12, <2>2, <2>6
  <2>8. Counted(trace, u) /\ ~ u.init /\ ~ u.recovering
    <3>1. PICK d \in Seq(Lines) : d = b \o reset
      BY <2>7
    <3>2. w = AllRead(trace, d) /\ u = AllRead(trace, d \o <<line>>)
      BY <2>5, <2>6, <3>1
    <3>3. Counted(trace, u) /\ ~ u.init /\ (u.recovering <=> w.recovering)
      BY <2>3, <2>7, <3>2, RetryEnds
    <3> QED
      BY <2>7, <3>3
  <2>9. MarksNow /\ silent' = silent /\ confused' \in BOOLEAN
    BY <2>4, MarksFacts
  <2> QED
    BY <1>14, <2>4, <2>8, <2>9 DEF Loses
<1>16. CASE \E opening \in {<<>>, Replay!Opening} : Replay!LostUnreached(opening)
  <2>1. PICK opening \in {<<>>, Replay!Opening} : Replay!LostUnreached(opening)
    BY <1>16
  <2>2. Maybe(opening)
    BY <1>6, <1>7, <2>1
  <2>3. PICK line : LineOf(line, "RETRY") /\ Replay!Retry("timeout") = <<line>>
    BY <1>13
  <2>4. open' = FALSE /\ traced' = TRUE /\ Replay!Marks
    BY <2>1 DEF Replay!LostUnreached, Replay!Unreached
  <2>5. u = AllRead(trace, (a \o opening) \o <<line>>)
    BY <1>3, <1>14, <2>1, <2>3 DEF Replay!LostUnreached, Replay!Write, AllRead
  <2>6. PICK w : w = AllRead(trace, a \o opening)
    OBVIOUS
  <2>7. a \o opening \in Seq(Lines) /\ Counted(trace, w)
    BY <1>8, <2>2, <2>6
  <2>8. Counted(trace, u) /\ ~ u.init
    <3>1. PICK d \in Seq(Lines) : d = a \o opening
      BY <2>7
    <3>2. w = AllRead(trace, d) /\ u = AllRead(trace, d \o <<line>>)
      BY <2>5, <2>6, <3>1
    <3> QED
      BY <2>3, <2>7, <3>2, RetryEnds
  <2>9. MarksNow /\ silent' = silent /\ confused' \in BOOLEAN
    BY <2>4, MarksFacts
  <2> QED
    BY <1>14, <2>4, <2>8, <2>9 DEF Loses
<1>17. CASE \E reset \in Replay!Resets : Replay!LostUntold(reset)
  <2>1. PICK reset \in Replay!Resets : Replay!LostUntold(reset)
    BY <1>17
  <2>2. Maybe(reset)
    BY <2>1 DEF Replay!Resets, Maybe
  <2>3. open' = FALSE /\ traced' = FALSE /\ silent' = silent /\ confused' = confused
    BY <2>1 DEF Replay!LostUntold, Replay!Close, Replay!NoMarks
  <2>4. u = AllRead(trace, b \o reset)
    BY <1>3, <1>6, <1>9, <1>14, <2>1 DEF Replay!LostUntold, Replay!Write, AllRead
  <2>5. Counted(trace, u) /\ ~ u.recovering
    BY <1>12, <2>2, <2>4
  <2> QED
    BY <1>2, <1>14, <2>3, <2>5 DEF Loses
<1> QED
  BY <1>15, <1>16, <1>17, Zenon DEF Replay!Lost

(* The count of the request under way when one more attempt is begun, and  *)
(* its START counted, if it is written.                                    *)
LEMMA BegunCounts ==
  ASSUME ReplayInv, Busy, ~ confused, NEW q, q = Replay!Begun(Replay!Now), q.sent, ~ q.unmarked,
         NEW u, Counted(trace, u)
  PROVE  Between(u.exchanges[trace.active].attempts, q)
<1>1. /\ Amends(q) /\ (q.unmarked <=> Replay!Now.unmarked)
      /\ q.attempts = Replay!Now.attempts + 1
      /\ q.early = IF Replay!Now.sent /\ traced THEN Replay!Now.early
                   ELSE Replay!Now.early + 1
  BY BegunFacts
<1>2. Replay!Now.sent /\ ~ Replay!Now.unmarked /\ Replay!Now \in RequestRecords
  BY <1>1, NowFacts DEF Amends
<1>3. /\ trace.active \in DOMAIN trace.exchanges
      /\ trace.exchanges[trace.active].response = Replay!None
  BY <1>2, RequestKnown
<1>4. (trace.init => ~ traced) /\ Between(trace.exchanges[trace.active].attempts, Replay!Now)
  BY <1>2, RequestCounts
<1>5. PICK a \in Nat : a = trace.exchanges[trace.active].attempts
  BY <1>3, CountIsNat
<1>6. CASE traced
  <2>1. u.exchanges[trace.active].attempts = a + 1
    BY <1>3, <1>4, <1>5, <1>6 DEF Counted, Pending
  <2>2. q.early = Replay!Now.early
    BY <1>1, <1>2, <1>6
  <2>3. Between(a + 1, q)
    BY <1>1, <1>4, <1>5, <2>2, BetweenMore
  <2> QED
    BY <2>1, <2>3
<1>7. CASE ~ traced
  <2>1. u.exchanges[trace.active].attempts = a
    BY <1>3, <1>5, <1>7 DEF Counted, SameCounts
  <2>2. PICK y \in Nat : y = Replay!Now.early
    BY <1>2 DEF RequestRecords
  <2>3. PICK x \in Nat : x = Replay!Now.attempts
    BY <1>2 DEF RequestRecords
  <2>4. q.attempts = x + 1 /\ q.early = y + 1
    BY <1>1, <1>7, <2>2, <2>3
  <2>5. x <= a + y /\ a <= x
    BY <1>4, <1>5, <2>2, <2>3 DEF Between
  <2>6. x + 1 <= a + (y + 1) /\ a <= x + 1
    BY <2>5
  <2> QED
    BY <2>1, <2>4, <2>6 DEF Between
<1> QED
  BY <1>6, <1>7

(* An attempt that is lost, and will be repeated, is quiet.                *)
LEMMA LostIsQuiet ==
  ASSUME ReplayInv, Replay!Lost
  PROVE  QuietStep
<1>1. Busy /\ doing = "begin" /\ doing' = "begin" /\ seq' = seq
  BY DEF Replay!Lost, Replay!Begin, Busy
<1>2. ReplayTypes /\ BusyInv /\ Len(history) \in DOMAIN history
  BY <1>1, NowFacts
<1>3. PICK q : q = Replay!Begun(Replay!Now)
  OBVIOUS
<1>4. Amends(q)
  BY <1>1, <1>3, BegunFacts
<1>5. AmendedBy(q)
  <2>1. history' = [history EXCEPT ![Len(history)] = q]
    BY <1>3 DEF Replay!Lost, Replay!Update, Replay!Now
  <2> QED
    BY <1>1, <1>2, <1>4, <2>1, AmendFacts, Zenon
<1>6. PICK u : u = trace'
  OBVIOUS
<1>7. /\ Counted(trace, u) /\ open' \in BOOLEAN /\ traced' \in BOOLEAN /\ (open' => traced')
      /\ (u.init => ~ traced') /\ (open' => ~ u.recovering)
      /\ silent' = silent /\ confused' \in BOOLEAN
      /\ \/ MarksNow
         \/ (confused' <=> confused) /\ ~ u.recovering /\ ~ open'
  BY <1>6, LostReads DEF Loses
<1>8. Alike(trace, u) /\ Settles(trace, u)
  BY <1>7 DEF Counted
<1>9. Quiet
  <2>1. Amended(history, history')
    BY <1>5 DEF AmendedBy
  <2> QED
    BY <1>1, <1>6, <1>7, <1>8, <2>1 DEF Quiet, MarksNow
<1>10. Followed
  <2> SUFFICES ASSUME ~ confused', q.sent, ~ q.unmarked
               PROVE  Between(u.exchanges[trace.active].attempts, q)
    BY <1>1, <1>5, <1>6, <1>7, <1>8 DEF Followed, AmendedBy, Alike
  <2>1. ~ confused
    BY <1>7 DEF MarksNow
  <2> QED
    BY <1>1, <1>3, <1>7, <2>1, BegunCounts
<1>11. ReplayTypes' /\ BusyInv'
  BY <1>1, <1>2, <1>5, <1>6, <1>7, <1>9, QuietTypes
<1> QED
  BY <1>9, <1>10, <1>11 DEF QuietStep

(* An attempt that loses the connection is quiet.                          *)
LEMMA DroppedIsQuiet ==
  ASSUME ReplayInv, Replay!Dropped
  PROVE  QuietStep
<1>1. Busy /\ doing' = "recovery" /\ seq' = seq /\ open' = FALSE /\ traced' = TRUE
  BY DEF Replay!Dropped, Replay!Begin, Replay!Unreached, Busy
<1>2. /\ Readable(trace) /\ Replay!Now \in RequestRecords /\ ReplayTypes /\ BusyInv
      /\ Len(history) \in DOMAIN history /\ traced \in BOOLEAN
  BY <1>1, NowFacts DEF ReplayTypes
<1>3. PICK q : q = Replay!Begun(Replay!Now)
  OBVIOUS
<1>4. Amends(q) /\ q.attempts = Replay!Now.attempts + 1
  BY <1>1, <1>3, BegunFacts
<1>5. AmendedBy(q)
  <2>1. history' = [history EXCEPT ![Len(history)] = q]
    BY <1>3 DEF Replay!Dropped, Replay!Update, Replay!Now
  <2> QED
    BY <1>1, <1>2, <1>4, <2>1, AmendFacts, Zenon
<1>6. PICK line : line = [Replay!Line("RECOVERY") EXCEPT !.attempts = @ + 1]
  BY Zenon
<1>7. LineOf(line, "RECOVERY") /\ line.attempts = q.attempts
  <2>1. PICK b : b = Replay!Line("RECOVERY")
    OBVIOUS
  <2>2. LineOf(b, "RECOVERY") /\ b.attempts = Replay!Now.attempts
    BY <1>2, <2>1, LineFacts
  <2>3. line = [b EXCEPT !.attempts = @ + 1]
    BY <1>6, <2>1
  <2>4. /\ LineOf([b EXCEPT !.attempts = @ + 1], "RECOVERY")
        /\ [b EXCEPT !.attempts = @ + 1].attempts = b.attempts + 1
    BY <2>2, LineChanged, Zenon
  <2> QED
    BY <1>4, <2>2, <2>3, <2>4
<1>8. trace' = AllRead(trace, Replay!Starting \o <<line>>)
  BY <1>6 DEF Replay!Dropped, Replay!Write, AllRead
<1>10. PICK u : u = trace'
  OBVIOUS
<1>11. /\ Alike(trace, u) /\ ~ u.init /\ u.recovering
       /\ Spares(trace, u, seq + trace.offset)
       /\ \A j : Alone(trace, j, seq + trace.offset) => u.exchanges[j].attempts = line.attempts
  BY <1>2, <1>7, <1>8, <1>10, DroppedEffect
<1>12. MarksNow /\ silent' = silent /\ confused' \in BOOLEAN
  BY MarksFacts DEF Replay!Dropped
<1>13. Quiet
  <2>1. Spares(trace, u, Number)
    BY <1>11 DEF Number
  <2>2. Amended(history, history')
    BY <1>5 DEF AmendedBy
  <2> QED
    BY <1>1, <1>10, <1>11, <1>12, <2>1, <2>2 DEF Quiet, MarksNow
<1>14. Followed
  <2> SUFFICES ASSUME ~ confused', q.sent, ~ q.unmarked
               PROVE  Between(u.exchanges[trace.active].attempts, q)
    BY <1>1, <1>5, <1>10, <1>11 DEF Followed, AmendedBy, Alike
  <2>1. ~ confused /\ Replay!Now.sent
    BY <1>4, <1>12 DEF MarksNow, Amends
  <2>2. Alone(trace, trace.active, Number)
    BY <1>1, <2>1, RequestKnown
  <2>3. u.exchanges[trace.active].attempts = q.attempts
    BY <1>7, <1>11, <2>2 DEF Number
  <2>4. q.attempts \in Nat /\ q.early \in Nat
    BY <1>4 DEF Amends, RequestRecords
  <2> QED
    BY <2>3, <2>4 DEF Between
<1>15. ReplayTypes' /\ BusyInv'
  BY <1>1, <1>2, <1>5, <1>12, <1>13, QuietTypes, Zenon
<1> QED
  BY <1>13, <1>14, <1>15 DEF QuietStep

(* The change of a request, from what it is changed to.                    *)
LEMMA ChangeFacts ==
  ASSUME ReplayInv, Busy, NEW p, p = Replay!Now
  PROVE  /\ \A a \in Nat : p.attempts <= a /\ p.sent => Amends([p EXCEPT !.attempts = a])
         /\ Amends([p EXCEPT !.failed = TRUE])
         /\ \A a \in Nat : Amends([p EXCEPT !.reconnects = a])
         /\ \A a \in Nat : Amends([p EXCEPT !.reconnects = a, !.unmarked = TRUE])
<1>1. /\ p \in RequestRecords /\ p.early <= p.attempts /\ (~ p.sent => p.early = p.attempts)
      /\ p.attempts \in Nat /\ p.early \in Nat
  BY NowFacts DEF RequestRecords
<1>2. ASSUME NEW a \in Nat, p.attempts <= a, p.sent
      PROVE  Amends([p EXCEPT !.attempts = a])
  <2>1. PICK q : q = [p EXCEPT !.attempts = a]
    BY Zenon
  <2>2. /\ q \in RequestRecords /\ q.telegram = p.telegram /\ q.answer = p.answer
        /\ q.sent = p.sent /\ q.unmarked = p.unmarked /\ q.early = p.early /\ q.attempts = a
    BY <1>1, <2>1 DEF RequestRecords
  <2>3. Amends(q)
    BY <1>1, <1>2, <2>2 DEF Amends
  <2> QED
    BY <2>1, <2>3
<1>3. Amends([p EXCEPT !.failed = TRUE])
  BY <1>1, Zenon DEF Amends, RequestRecords
<1>4. \A a \in Nat : Amends([p EXCEPT !.reconnects = a])
  BY <1>1 DEF Amends, RequestRecords
<1>5. ASSUME NEW a \in Nat
      PROVE  Amends([p EXCEPT !.reconnects = a, !.unmarked = TRUE])
  <2>1. PICK b : b = [p EXCEPT !.reconnects = a]
    BY Zenon
  <2>2. PICK q : q = [b EXCEPT !.unmarked = TRUE]
    BY Zenon
  <2>3. b \in RequestRecords /\ Amends(b)
    BY <1>4, <2>1 DEF Amends
  <2>4. /\ q \in RequestRecords /\ q.telegram = b.telegram /\ q.answer = b.answer
        /\ q.sent = b.sent /\ q.unmarked = TRUE /\ q.early = b.early /\ q.attempts = b.attempts
    BY <2>2, <2>3, Zenon DEF RequestRecords
  <2>5. Amends(q)
    BY <2>3, <2>4 DEF Amends
  <2>6. [p EXCEPT !.reconnects = a, !.unmarked = TRUE] = q
    BY <2>1, <2>2, Zenon
  <2> QED
    BY <2>5, <2>6
<1> QED
  BY <1>2, <1>3, <1>4, <1>5, Zenon

(* A local NACK retry is quiet.                                            *)
LEMMA NackedIsQuiet ==
  ASSUME ReplayInv, Replay!Nacked
  PROVE  QuietStep
<1>1. /\ Busy /\ doing = "sent" /\ doing' = "sent" /\ seq' = seq /\ open' = open
      /\ silent' = silent /\ confused' = confused /\ traced' = traced
  BY DEF Replay!Nacked, Replay!NoMarks, Busy
<1>2. /\ Readable(trace) /\ Replay!Now \in RequestRecords /\ ReplayTypes /\ BusyInv
      /\ Len(history) \in DOMAIN history
  BY <1>1, NowFacts
<1>3. open /\ ~ trace.recovering /\ Replay!Now.sent
  BY <1>1, <1>2 DEF BusyInv
<1>4. PICK p : p = Replay!Now
  OBVIOUS
<1>5. p.attempts \in Nat /\ p.early \in Nat
  BY <1>2, <1>4 DEF RequestRecords
<1>6. PICK q : q = [p EXCEPT !.attempts = p.attempts + 1]
  BY Zenon
<1>7. /\ Amends(q) /\ q.unmarked = p.unmarked
      /\ q.attempts = p.attempts + 1 /\ q.early = p.early
  <2>1. PICK a \in Nat : a = p.attempts + 1
    BY <1>5
  <2>2. p.attempts <= a /\ p.sent
    BY <1>3, <1>4, <1>5, <2>1
  <2>3. Amends([p EXCEPT !.attempts = a])
    BY <1>1, <1>4, <2>2, ChangeFacts, Zenon
  <2> QED
    BY <1>2, <1>4, <1>6, <2>1, <2>3 DEF RequestRecords
<1>8. AmendedBy(q)
  <2>1. history' = [history EXCEPT ![Len(history)] = q]
    BY <1>4, <1>6 DEF Replay!Nacked, Replay!Update, Replay!Now
  <2> QED
    BY <1>1, <1>2, <1>7, <2>1, AmendFacts, Zenon
<1>9. PICK line : line = Replay!Line("LOCAL_NACK_RETRY")
  OBVIOUS
<1>10. LineOf(line, "LOCAL_NACK_RETRY")
  BY <1>2, <1>9, LineFacts
<1>11. PICK u : u = trace'
  OBVIOUS
<1>12. u = Replay!ReadLine(trace, line)
  <2>1. u = AllRead(trace, <<line>>)
    BY <1>9, <1>11 DEF Replay!Nacked, Replay!Write, AllRead
  <2> QED
    BY <2>1, OneRead
<1>13. PICK c : c = trace.exchanges[At(trace, line)].attempts + 1
  OBVIOUS
<1>14. Recounted(trace, u, line, c) /\ (u.recovering <=> trace.recovering)
  BY <1>2, <1>10, <1>12, <1>13, NackRead DEF LineOf
<1>15. /\ Alike(trace, u) /\ ~ u.init
       /\ \A i \in DOMAIN trace.exchanges : trace.exchanges[i].seq # line.seq + trace.offset =>
            u.exchanges[i].attempts = trace.exchanges[i].attempts
       /\ \A j : Alone(trace, j, line.seq + trace.offset) => u.exchanges[j].attempts = c
  BY <1>2, <1>14, RecountedEffect
<1>16. line.seq + trace.offset = Number
  BY <1>10 DEF LineOf, Number
<1>17. ~ confused => ~ silent
  BY <1>1, <1>3, RequestKnown
<1>18. Quiet
  <2>1. Spares(trace, u, Number)
    BY <1>15, <1>16 DEF Spares
  <2>2. Amended(history, history')
    BY <1>8 DEF AmendedBy
  <2> QED
    BY <1>1, <1>11, <1>15, <1>17, <2>1, <2>2 DEF Quiet
<1>19. Followed
  <2> SUFFICES ASSUME ~ confused', q.sent, ~ q.unmarked
               PROVE  Between(u.exchanges[trace.active].attempts, q)
    BY <1>1, <1>8, <1>11, <1>15 DEF Followed, AmendedBy, Alike
  <2>1. ~ confused /\ Replay!Now.sent /\ ~ Replay!Now.unmarked
    BY <1>1, <1>3, <1>4, <1>7
  <2>2. trace.active \in DOMAIN trace.exchanges /\ Alone(trace, trace.active, Number)
    BY <1>1, <2>1, RequestKnown
  <2>3. Between(trace.exchanges[trace.active].attempts, Replay!Now)
    BY <1>1, <2>1, RequestCounts
  <2>4. PICK a : a = trace.exchanges[trace.active].attempts
    OBVIOUS
  <2>5. At(trace, line) = trace.active
    BY <1>2, <1>16, <2>2, AloneLast DEF At
  <2>6. a \in Nat /\ u.exchanges[trace.active].attempts = a + 1
    BY <1>13, <1>15, <1>16, <2>2, <2>4, <2>5, CountIsNat
  <2>7. Between(a + 1, q)
    BY <1>1, <1>4, <1>7, <2>3, <2>4, <2>6, BetweenMore
  <2> QED
    BY <2>6, <2>7
<1>20. ReplayTypes' /\ BusyInv'
  <2>1. /\ open' \in BOOLEAN /\ confused' \in BOOLEAN /\ q.sent
        /\ traced' \in BOOLEAN /\ (open' => traced')
    BY <1>1, <1>2, <1>3, <1>7 DEF ReplayTypes, Amends
  <2>2. ~ trace'.recovering /\ open'
    BY <1>1, <1>3, <1>11, <1>14
  <2> QED
    BY <1>1, <1>2, <1>8, <1>18, <2>1, <2>2, QuietTypes
<1> QED
  BY <1>18, <1>19, <1>20 DEF QuietStep

(* The INIT of a reset alone, if there was one, changes no count.          *)
LEMMA ResetRead ==
  ASSUME NEW t, Readable(t), ~ t.recovering, NEW s, Maybe(s), NEW w, w = AllRead(t, s)
  PROVE  s \in Seq(Lines) /\ Alike(t, w) /\ SameCounts(t, w) /\ ~ w.recovering
<1>1. CASE s = <<>>
  <2>1. w = t
    BY <1>1, NoneRead
  <2>2. <<>> \in Seq(Lines)
    OBVIOUS
  <2> QED
    BY <1>1, <2>1, <2>2 DEF Alike, SameExchange, SameCounts
<1>2. CASE s = <<Replay!Plain("INIT")>>
  <2>1. PICK a \in Lines : a = Replay!Plain("INIT")
    BY DEF Lines
  <2>2. w = Replay!ReadLine(t, a)
    BY <1>2, <2>1, OneRead
  <2>3. Renewed(t, w) /\ ~ w.recovering
    BY <2>1, <2>2, InitRenews
  <2>4. <<a>> \in Seq(Lines)
    BY <2>1
  <2> QED
    BY <1>2, <2>1, <2>3, <2>4 DEF Renewed, SameCounts
<1> QED
  BY <1>1, <1>2 DEF Maybe

(* RETRY after it changes none either.                                     *)
LEMMA RetriedEffect ==
  ASSUME NEW t, Readable(t), ~ t.recovering, NEW line, LineOf(line, "RETRY"),
         NEW reset, Maybe(reset), NEW u, u = AllRead(t, reset \o <<line>>)
  PROVE  Alike(t, u) /\ ~ u.init /\ ~ u.recovering /\ SameCounts(t, u)
<1>1. PICK w : w = AllRead(t, reset)
  OBVIOUS
<1>2. reset \in Seq(Lines) /\ Alike(t, w) /\ SameCounts(t, w) /\ ~ w.recovering
  BY <1>1, ResetRead
<1>3. u = Replay!ReadLine(w, line)
  <2>1. line \in Lines
    BY DEF LineOf, Lines
  <2> QED
    BY <1>1, <1>2, <2>1, OneMoreRead
<1>4. Readable(w)
  BY <1>2 DEF Alike
<1>5. Alike(w, u) /\ ~ u.init /\ (u.recovering <=> w.recovering) /\ SameCounts(w, u)
  BY <1>3, <1>4, RetryEffect
<1>6. Alike(t, u)
  BY <1>2, <1>5, AlikeAlike
<1>7. SameCounts(t, u)
  BY <1>2, <1>5 DEF Alike, SameCounts
<1> QED
  BY <1>2, <1>5, <1>6, <1>7

(* Repeating a failed attempt, after a reset or not, is quiet.             *)
LEMMA RetriedIsQuiet ==
  ASSUME ReplayInv, Replay!Retried
  PROVE  QuietStep
<1>1. /\ Busy /\ doing = "sent" /\ doing' = "begin" /\ seq' = seq
      /\ silent' = silent /\ confused' = confused /\ history' = history
  BY DEF Replay!Retried, Replay!NoMarks, Busy
<1>2. /\ Readable(trace) /\ Replay!Now \in RequestRecords /\ ReplayTypes /\ BusyInv
      /\ Len(history) \in DOMAIN history
  BY <1>1, NowFacts
<1>3. open /\ ~ trace.recovering /\ Replay!Now.sent
  BY <1>1, <1>2 DEF BusyInv
<1>4. PICK p : p = Replay!Now
  OBVIOUS
<1>5. AmendedBy(p)
  BY <1>1, <1>4, SameAmended
<1>6. ASSUME NEW c \in {"timeout", "other"}
      PROVE  \E line : LineOf(line, "RETRY") /\ Replay!Retry(c) = <<line>>
  <2>1. PICK l : l = Replay!Line("RETRY")
    OBVIOUS
  <2>2. LineOf(l, "RETRY")
    BY <1>2, <2>1, LineFacts
  <2>3. LineOf([l EXCEPT !.cause = c], "RETRY")
    BY <2>2, LineChanged, Zenon
  <2> QED
    BY <2>1, <2>3 DEF Replay!Retry
<1>7. PICK u : u = trace'
  OBVIOUS
<1>8. /\ Alike(trace, u) /\ ~ u.recovering /\ SameCounts(trace, u)
      /\ open' \in BOOLEAN /\ traced' \in BOOLEAN /\ (open' => traced') /\ (u.init => ~ traced')
  <2>1. CASE Replay!Opened /\ \E reset \in Replay!Resets, cause \in Replay!Causes :
               Replay!Write(reset \o Replay!Retry(cause))
    <3>1. PICK reset \in Replay!Resets, cause \in Replay!Causes :
            Replay!Write(reset \o Replay!Retry(cause))
      BY <2>1
    <3>2. Maybe(reset) /\ cause \in {"timeout", "other"}
      BY <3>1 DEF Replay!Resets, Maybe, Replay!Causes
    <3>3. PICK line : LineOf(line, "RETRY") /\ Replay!Retry(cause) = <<line>>
      BY <1>6, <3>2
    <3>4. u = AllRead(trace, reset \o <<line>>)
      BY <1>7, <3>1, <3>3 DEF Replay!Write, AllRead
    <3>5. Alike(trace, u) /\ ~ u.init /\ ~ u.recovering /\ SameCounts(trace, u)
      BY <1>2, <1>3, <3>2, <3>3, <3>4, RetriedEffect
    <3> QED
      BY <2>1, <3>5 DEF Replay!Opened
  <2>2. CASE Replay!Unreached /\ Replay!Write(Replay!Retry("timeout"))
    <3>1. PICK line : LineOf(line, "RETRY") /\ Replay!Retry("timeout") = <<line>>
      BY <1>6
    <3>2. u = AllRead(trace, <<line>>)
      BY <1>7, <2>2, <3>1 DEF Replay!Write, AllRead
    <3>3. u = Replay!ReadLine(trace, line)
      BY <3>2, OneRead
    <3>4. /\ Alike(trace, u) /\ ~ u.init /\ (u.recovering <=> trace.recovering)
          /\ SameCounts(trace, u)
      BY <1>2, <3>1, <3>3, RetryEffect
    <3> QED
      BY <1>3, <2>2, <3>4 DEF Replay!Unreached
  <2>3. CASE Replay!Close /\ \E reset \in Replay!Resets : Replay!Write(reset)
    <3>1. PICK reset \in Replay!Resets : Replay!Write(reset)
      BY <2>3
    <3>2. Maybe(reset)
      BY <3>1 DEF Replay!Resets, Maybe
    <3>3. u = AllRead(trace, reset)
      BY <1>7, <3>1 DEF Replay!Write, AllRead
    <3>4. Alike(trace, u) /\ ~ u.recovering /\ SameCounts(trace, u)
      BY <1>2, <1>3, <3>2, <3>3, ResetRead
    <3> QED
      BY <2>3, <3>4 DEF Replay!Close
  <2> QED
    BY <2>1, <2>2, <2>3, Zenon DEF Replay!Retried
<1>9. ~ confused => ~ silent
  BY <1>1, <1>3, RequestKnown
<1>10. Quiet
  <2>1. Amended(history, history')
    BY <1>5 DEF AmendedBy
  <2>2. Settles(trace, u)
    BY <1>8 DEF Settles, SameCounts
  <2> QED
    BY <1>1, <1>7, <1>8, <1>9, <2>1, <2>2 DEF Quiet
<1>11. Followed
  <2> SUFFICES ASSUME ~ confused', p.sent, ~ p.unmarked
               PROVE  Between(u.exchanges[trace.active].attempts, p)
    BY <1>1, <1>5, <1>7, <1>8 DEF Followed, AmendedBy, Alike
  <2>1. ~ confused /\ Replay!Now.sent /\ ~ Replay!Now.unmarked
    BY <1>1, <1>3, <1>4
  <2>2. trace.active \in DOMAIN trace.exchanges
    BY <1>1, <2>1, RequestKnown
  <2>3. Between(trace.exchanges[trace.active].attempts, Replay!Now)
    BY <1>1, <2>1, RequestCounts
  <2> QED
    BY <1>4, <1>8, <2>2, <2>3 DEF SameCounts
<1>12. ReplayTypes' /\ BusyInv'
  <2>1. confused' \in BOOLEAN /\ ~ trace'.recovering
    BY <1>1, <1>2, <1>7, <1>8 DEF ReplayTypes
  <2> QED
    BY <1>1, <1>2, <1>5, <1>8, <1>10, <2>1, QuietTypes
<1> QED
  BY <1>10, <1>11, <1>12 DEF QuietStep

(* Giving the session up after a failed attempt is quiet.                  *)
LEMMA RecoverIsQuiet ==
  ASSUME ReplayInv, Replay!Recover
  PROVE  QuietStep
<1>1. /\ Busy /\ doing = "sent" /\ doing' = "recovery" /\ seq' = seq /\ open' = FALSE
      /\ silent' = silent /\ confused' = confused /\ history' = history /\ traced' = TRUE
  BY DEF Replay!Recover, Replay!NoMarks, Replay!Unreached, Busy
<1>2. /\ Readable(trace) /\ Replay!Now \in RequestRecords /\ ReplayTypes /\ BusyInv
      /\ Len(history) \in DOMAIN history
  BY <1>1, NowFacts
<1>3. open /\ ~ trace.recovering /\ Replay!Now.sent
  BY <1>1, <1>2 DEF BusyInv
<1>4. PICK p : p = Replay!Now
  OBVIOUS
<1>5. AmendedBy(p)
  BY <1>1, <1>4, SameAmended
<1>6. PICK line : line = Replay!Line("RECOVERY")
  OBVIOUS
<1>7. LineOf(line, "RECOVERY") /\ line.attempts = p.attempts
  BY <1>2, <1>4, <1>6, LineFacts
<1>8. PICK u : u = trace'
  OBVIOUS
<1>9. u = Replay!ReadLine(trace, line)
  <2>1. u = AllRead(trace, <<line>>)
    BY <1>6, <1>8 DEF Replay!Recover, Replay!Write, AllRead
  <2> QED
    BY <2>1, OneRead
<1>10. Recounted(trace, u, line, line.attempts) /\ u.recovering
  BY <1>2, <1>7, <1>9, RecoveryRead DEF LineOf
<1>11. /\ Alike(trace, u) /\ ~ u.init
       /\ \A i \in DOMAIN trace.exchanges : trace.exchanges[i].seq # line.seq + trace.offset =>
            u.exchanges[i].attempts = trace.exchanges[i].attempts
       /\ \A j : Alone(trace, j, line.seq + trace.offset) => u.exchanges[j].attempts = line.attempts
  BY <1>2, <1>10, RecountedEffect
<1>12. line.seq + trace.offset = Number
  BY <1>7 DEF LineOf, Number
<1>13. ~ confused => ~ silent
  BY <1>1, <1>3, RequestKnown
<1>14. Quiet
  <2>1. Spares(trace, u, Number)
    BY <1>11, <1>12 DEF Spares
  <2>2. Amended(history, history')
    BY <1>5 DEF AmendedBy
  <2> QED
    BY <1>1, <1>8, <1>11, <1>13, <2>1, <2>2 DEF Quiet
<1>15. Followed
  <2> SUFFICES ASSUME ~ confused', p.sent, ~ p.unmarked
               PROVE  Between(u.exchanges[trace.active].attempts, p)
    BY <1>1, <1>5, <1>8, <1>10, <1>11 DEF Followed, AmendedBy, Alike
  <2>1. Alone(trace, trace.active, Number)
    BY <1>1, <1>3, RequestKnown
  <2>2. u.exchanges[trace.active].attempts = p.attempts
    BY <1>7, <1>11, <1>12, <2>1
  <2>3. p.attempts \in Nat /\ p.early \in Nat
    BY <1>2, <1>4 DEF RequestRecords
  <2> QED
    BY <2>2, <2>3 DEF Between
<1>16. ReplayTypes' /\ BusyInv'
  <2>1. confused' \in BOOLEAN
    BY <1>1, <1>2 DEF ReplayTypes
  <2> QED
    BY <1>1, <1>2, <1>5, <1>14, <2>1, QuietTypes, Zenon
<1> QED
  BY <1>14, <1>15, <1>16 DEF QuietStep

(* Giving the request up is quiet: REQUEST_FAILED gives the count the      *)
(* transport has.                                                          *)
LEMMA FailedIsQuiet ==
  ASSUME ReplayInv, Replay!Failed
  PROVE  QuietStep
<1>1. /\ Busy /\ doing' = "idle" /\ seq' = seq /\ (open' = FALSE \/ open' = open)
      /\ (traced' = TRUE \/ (traced' = FALSE /\ open' = FALSE))
  BY Zenon DEF Replay!Failed, Replay!Close, Busy
<1>2. /\ Readable(trace) /\ Replay!Now \in RequestRecords /\ ReplayTypes /\ BusyInv
      /\ Len(history) \in DOMAIN history
  BY <1>1, NowFacts
<1>3. PICK p : p = Replay!Now
  OBVIOUS
<1>4. PICK q : q = [p EXCEPT !.failed = TRUE]
  BY Zenon
<1>5. AmendedBy(q)
  <2>1. history' = [history EXCEPT ![Len(history)] = q]
    BY <1>3, <1>4 DEF Replay!Failed, Replay!Update, Replay!Now
  <2>2. Amends(q)
    BY <1>1, <1>3, <1>4, ChangeFacts, Zenon
  <2> QED
    BY <1>1, <1>2, <2>1, <2>2, AmendFacts, Zenon
<1>6. PICK u : u = trace'
  OBVIOUS
<1>7. PICK line : LineOf(line, "REQUEST_FAILED") /\ u = Replay!ReadLine(trace, line)
  <2>1. PICK c \in Replay!Causes :
          Replay!Write(<<[Replay!Line("REQUEST_FAILED") EXCEPT !.cause = c]>>)
    BY DEF Replay!Failed
  <2>2. PICK b : b = Replay!Line("REQUEST_FAILED")
    OBVIOUS
  <2>3. LineOf(b, "REQUEST_FAILED")
    BY <1>2, <2>2, LineFacts
  <2>4. PICK line : line = [b EXCEPT !.cause = c]
    BY Zenon
  <2>5. c \in {"timeout", "other"}
    BY <2>1 DEF Replay!Causes
  <2>6. LineOf(line, "REQUEST_FAILED")
    BY <2>3, <2>4, <2>5, LineChanged, Zenon
  <2>7. u = AllRead(trace, <<line>>)
    BY <1>6, <2>1, <2>2, <2>4 DEF Replay!Write, AllRead
  <2>8. u = Replay!ReadLine(trace, line)
    BY <2>7, OneRead
  <2> QED
    BY <2>6, <2>8
<1>8. Recounted(trace, u, line, line.attempts) /\ ~ u.recovering
  BY <1>2, <1>7, FailedRead DEF LineOf
<1>9. /\ Alike(trace, u) /\ ~ u.init
      /\ \A i \in DOMAIN trace.exchanges : trace.exchanges[i].seq # line.seq + trace.offset =>
           u.exchanges[i].attempts = trace.exchanges[i].attempts
      /\ \A j : Alone(trace, j, line.seq + trace.offset) => u.exchanges[j].attempts = line.attempts
  BY <1>2, <1>8, RecountedEffect
<1>10. MarksNow /\ silent' = silent /\ confused' \in BOOLEAN
  BY MarksFacts DEF Replay!Failed
<1>11. ~ Busy'
  BY <1>1 DEF Busy
<1>12. Quiet
  <2>1. Spares(trace, u, Number)
    BY <1>7, <1>9 DEF Spares, LineOf, Number
  <2>2. Amended(history, history')
    BY <1>5 DEF AmendedBy
  <2> QED
    BY <1>1, <1>6, <1>9, <1>10, <1>11, <2>1, <2>2 DEF Quiet, MarksNow
<1>13. Followed
  BY <1>11 DEF Followed
<1>14. ReplayTypes' /\ BusyInv'
  <2>1. open' \in BOOLEAN /\ traced' \in BOOLEAN /\ (open' => traced')
    <3>1. open \in BOOLEAN /\ traced \in BOOLEAN /\ (open => traced)
      BY <1>2 DEF ReplayTypes
    <3>2. CASE traced' = TRUE /\ open' = open
      BY <3>1, <3>2, Zenon
    <3>3. CASE open' = FALSE
      BY <1>1, <3>1, <3>3, Zenon
    <3> QED
      BY <1>1, <3>2, <3>3, Zenon
  <2> QED
    BY <1>1, <1>2, <1>5, <1>6, <1>8, <1>10, <1>12, <2>1, QuietTypes
<1> QED
  BY <1>12, <1>13, <1>14 DEF QuietStep

(* A reconnection inside a request is quiet.                               *)
LEMMA ReconnectIsQuiet ==
  ASSUME ReplayInv, Replay!Reconnect
  PROVE  QuietStep
<1>1. /\ Busy /\ doing = "recovery" /\ seq' = seq /\ silent' = silent /\ confused' = confused
  BY DEF Replay!Reconnect, Replay!NoMarks, Busy
<1>2. /\ Readable(trace) /\ Replay!Now \in RequestRecords /\ ReplayTypes /\ BusyInv
      /\ Len(history) \in DOMAIN history
  BY <1>1, NowFacts
<1>3. ~ open /\ confused' \in BOOLEAN /\ open \in BOOLEAN
  BY <1>1, <1>2 DEF BusyInv, ReplayTypes
<1>4. PICK p : p = Replay!Now
  OBVIOUS
<1>5. PICK n \in Nat : n = p.reconnects + 1
  BY <1>2, <1>4 DEF RequestRecords
<1>6. ~ confused /\ silent /\ DOMAIN trace.exchanges # {} => ~ trace.recovering
  BY DEF ReplayInv, NumbersInv
<1>7. ASSUME ~ confused, p.sent, ~ p.unmarked
      PROVE  trace.recovering /\ ~ trace.init
             /\ Between(trace.exchanges[trace.active].attempts, p)
             /\ trace.active \in DOMAIN trace.exchanges
  BY <1>1, <1>4, <1>7, RequestCounts, RequestKnown
<1>8. Alike(trace, trace) /\ Settles(trace, trace)
  BY <1>2 DEF Alike, SameExchange, Settles
<1>9. PICK u : u = trace'
  OBVIOUS
<1>10. ASSUME Replay!Write(<<Replay!Plain("INIT")>>)
       PROVE  Alike(trace, u) /\ u.exchanges = trace.exchanges /\ Settles(trace, u)
              /\ ~ u.recovering /\ (u.init <=> ~ trace.recovering)
  <2>1. PICK a : a = Replay!Plain("INIT")
    OBVIOUS
  <2>2. u = AllRead(trace, <<a>>)
    BY <1>9, <1>10, <2>1 DEF Replay!Write, AllRead
  <2>3. u = Replay!ReadLine(trace, a)
    BY <2>2, OneRead
  <2>4. Renewed(trace, u) /\ ~ u.recovering /\ (u.init <=> ~ trace.recovering)
    BY <1>2, <2>1, <2>3, InitRenews
  <2> QED
    BY <2>4 DEF Renewed, Settles
<1>11. CASE /\ Replay!Unreached /\ doing' = doing /\ trace' = trace
            /\ Replay!Update(LAMBDA r : [r EXCEPT !.reconnects = @ + 1])
  <2>1. PICK q : q = [p EXCEPT !.reconnects = n]
    BY Zenon
  <2>2. AmendedBy(q)
    <3>1. history' = [history EXCEPT ![Len(history)] = q]
      BY <1>4, <1>5, <1>11, <2>1 DEF Replay!Update, Replay!Now
    <3>2. Amends(q)
      BY <1>1, <1>4, <2>1, ChangeFacts, Zenon
    <3> QED
      BY <1>1, <1>2, <3>1, <3>2, AmendFacts, Zenon
  <2>3. /\ q.sent = p.sent /\ q.unmarked = p.unmarked /\ q.attempts = p.attempts
        /\ q.early = p.early
    BY <1>2, <1>4, <2>1 DEF RequestRecords
  <2>4. Quiet
    <3>1. Amended(history, history')
      BY <2>2 DEF AmendedBy
    <3> QED
      BY <1>1, <1>3, <1>6, <1>8, <1>11, <3>1 DEF Quiet, Replay!Unreached
  <2>5. Followed
    <3> SUFFICES ASSUME ~ confused', q.sent, ~ q.unmarked
                 PROVE  /\ ~ trace.init /\ trace.recovering
                        /\ Between(trace.exchanges[trace.active].attempts, q)
      BY <1>1, <1>11, <2>2 DEF Followed, AmendedBy
    <3> QED
      BY <1>1, <1>7, <2>3 DEF Between
  <2>6. ReplayTypes' /\ BusyInv'
    BY <1>1, <1>2, <1>3, <1>11, <2>2, <2>4, QuietTypes DEF Replay!Unreached
  <2> QED
    BY <2>4, <2>5, <2>6 DEF QuietStep
<1>12. CASE /\ Replay!Close /\ doing' = doing /\ Replay!Write(<<Replay!Plain("INIT")>>)
            /\ Replay!Update(LAMBDA r : [r EXCEPT !.reconnects = @ + 1, !.unmarked = TRUE])
  <2>1. PICK q : q = [p EXCEPT !.reconnects = n, !.unmarked = TRUE]
    OBVIOUS
  <2>2. AmendedBy(q)
    <3>1. history' = [history EXCEPT ![Len(history)] = q]
      BY <1>4, <1>5, <1>12, <2>1 DEF Replay!Update, Replay!Now
    <3>2. Amends(q)
      BY <1>1, <1>4, <2>1, ChangeFacts, Zenon
    <3> QED
      BY <1>1, <1>2, <3>1, <3>2, AmendFacts, Zenon
  <2>3. q.unmarked
    <3>1. PICK b : b = [p EXCEPT !.reconnects = n]
      BY Zenon
    <3>2. q = [b EXCEPT !.unmarked = TRUE]
      BY <2>1, <3>1, Zenon
    <3>3. b \in RequestRecords
      BY <1>2, <1>4, <3>1 DEF RequestRecords
    <3> QED
      BY <3>2, <3>3 DEF RequestRecords
  <2>4. Quiet
    <3>1. Amended(history, history')
      BY <2>2 DEF AmendedBy
    <3>2. Alike(trace, trace') /\ Settles(trace, trace') /\ ~ trace'.recovering
      BY <1>9, <1>10, <1>12
    <3> QED
      BY <1>1, <1>3, <1>12, <3>1, <3>2 DEF Quiet, Replay!Close
  <2>5. Followed
    BY <2>2, <2>3 DEF Followed, AmendedBy
  <2>6. ReplayTypes' /\ BusyInv'
    BY <1>1, <1>2, <1>3, <1>12, <2>2, <2>4, QuietTypes DEF Replay!Close
  <2> QED
    BY <2>4, <2>5, <2>6 DEF QuietStep
<1>13. CASE /\ Replay!Opened /\ doing' = "begin" /\ Replay!Write(<<Replay!Plain("INIT")>>)
            /\ Replay!Update(LAMBDA r : [r EXCEPT !.reconnects = @ + 1])
  <2>1. PICK q : q = [p EXCEPT !.reconnects = n]
    BY Zenon
  <2>2. AmendedBy(q)
    <3>1. history' = [history EXCEPT ![Len(history)] = q]
      BY <1>4, <1>5, <1>13, <2>1 DEF Replay!Update, Replay!Now
    <3>2. Amends(q)
      BY <1>1, <1>4, <2>1, ChangeFacts, Zenon
    <3> QED
      BY <1>1, <1>2, <3>1, <3>2, AmendFacts, Zenon
  <2>3. /\ q.sent = p.sent /\ q.unmarked = p.unmarked /\ q.attempts = p.attempts
        /\ q.early = p.early
    BY <1>2, <1>4, <2>1 DEF RequestRecords
  <2>4. /\ Alike(trace, u) /\ Settles(trace, u) /\ ~ u.recovering
        /\ (u.init <=> ~ trace.recovering) /\ u.exchanges = trace.exchanges
        /\ u.active = trace.active
    BY <1>10, <1>13 DEF Alike
  <2>5. Quiet
    <3>1. Amended(history, history')
      BY <2>2 DEF AmendedBy
    <3> QED
      BY <1>1, <1>6, <1>9, <1>13, <2>4, <3>1 DEF Quiet, Replay!Opened
  <2>6. Followed
    <3> SUFFICES ASSUME ~ confused', q.sent, ~ q.unmarked
                 PROVE  ~ u.init /\ Between(trace.exchanges[trace.active].attempts, q)
      BY <1>9, <1>13, <2>2, <2>4 DEF Followed, AmendedBy
    <3> QED
      BY <1>1, <1>7, <2>3, <2>4 DEF Between
  <2>7. ReplayTypes' /\ BusyInv'
    BY <1>2, <1>3, <1>9, <1>13, <2>2, <2>4, <2>5, QuietTypes DEF Replay!Opened
  <2> QED
    BY <2>5, <2>6, <2>7 DEF QuietStep
<1> QED
  BY <1>11, <1>12, <1>13, Zenon DEF Replay!Reconnect

(* A session opened between requests, or not found, is quiet.              *)
LEMMA SessionIsQuiet ==
  ASSUME ReplayInv, Replay!Session
  PROVE  QuietStep
<1>1. /\ doing = "idle" /\ doing' = "idle" /\ ~ open /\ seq' = seq
      /\ silent' = silent /\ confused' = confused /\ history' = history
  BY DEF Replay!Session, Replay!NoMarks
<1>2. ReplayTypes /\ BusyInv /\ Readable(trace)
  BY DEF ReplayInv, ReplayTypes
<1>3. PICK u : u = trace'
  OBVIOUS
<1>4. /\ Alike(trace, u) /\ Settles(trace, u)
      /\ open' \in BOOLEAN /\ traced' \in BOOLEAN /\ (open' => traced' /\ ~ u.recovering)
      /\ (trace.recovering \/ (~ u.recovering /\ (open' => u.init)))
  <2>1. CASE (Replay!Opened \/ Replay!Close) /\ Replay!Write(<<Replay!Plain("INIT")>>)
    <3>1. PICK a : a = Replay!Plain("INIT")
      OBVIOUS
    <3>2. u = AllRead(trace, <<a>>)
      BY <1>3, <2>1, <3>1 DEF Replay!Write, AllRead
    <3>3. u = Replay!ReadLine(trace, a)
      BY <3>2, OneRead
    <3>4. Renewed(trace, u) /\ ~ u.recovering /\ (u.init <=> ~ trace.recovering)
      BY <1>2, <3>1, <3>3, InitRenews
    <3> QED
      BY <2>1, <3>4 DEF Renewed, Settles, Replay!Opened, Replay!Close
  <2>2. CASE Replay!Unreached /\ UNCHANGED trace
    BY <1>2, <1>3, <2>2 DEF Replay!Unreached, Alike, SameExchange, Settles
  <2> QED
    BY <2>1, <2>2, Zenon DEF Replay!Session
<1>5. ~ confused /\ silent /\ DOMAIN trace.exchanges # {} => ~ trace.recovering
  BY DEF ReplayInv, NumbersInv
<1>6. ~ Busy'
  BY <1>1 DEF Busy
<1>7. Quiet
  <2>1. Amended(history, history')
    BY <1>1 DEF Amended
  <2> QED
    BY <1>1, <1>3, <1>4, <1>5, <1>6, <2>1 DEF Quiet
<1>8. Followed
  BY <1>6 DEF Followed
<1>9. ReplayTypes'
  <2>1. Readable(trace)' <=> Readable(trace')
    BY DEF Readable, TraceRecords, ExchangeRecords, Outcomes
  <2>2. Readable(trace')
    BY <1>3, <1>4 DEF Alike
  <2> QED
    BY <1>1, <1>2, <1>4, <2>1, <2>2 DEF ReplayTypes
<1>10. BusyInv'
  BY <1>1, <1>2, <1>3, <1>4, <1>6 DEF BusyInv
<1> QED
  BY <1>7, <1>8, <1>9, <1>10 DEF QuietStep

(* An attempt that the caller does not allow is quiet.                     *)
LEMMA RefusedIsQuiet ==
  ASSUME ReplayInv, Replay!Refused
  PROVE  QuietStep
<1>1. /\ doing' = "idle" /\ seq' = seq /\ open' = open /\ traced' = traced /\ trace' = trace
      /\ silent' = silent /\ confused' = confused /\ history' = history /\ ~ Busy'
  BY DEF Replay!Refused, Replay!NoMarks, Busy
<1>2. ReplayTypes /\ BusyInv /\ Readable(trace) /\ NumbersInv
  BY DEF ReplayInv, ReplayTypes
<1>3. Alike(trace, trace) /\ Settles(trace, trace)
  BY <1>2 DEF Alike, SameExchange, Settles
<1>4. Quiet
  <2>1. Amended(history, history')
    BY <1>1 DEF Amended
  <2> QED
    BY <1>1, <1>2, <1>3, <2>1 DEF Quiet, NumbersInv
<1>5. Followed
  BY <1>1 DEF Followed
<1>6. ReplayTypes'
  <2>1. Readable(trace)' <=> Readable(trace')
    BY DEF Readable, TraceRecords, ExchangeRecords, Outcomes
  <2> QED
    BY <1>1, <1>2, <2>1 DEF ReplayTypes
<1>7. BusyInv'
  BY <1>1, <1>2 DEF BusyInv
<1> QED
  BY <1>4, <1>5, <1>6, <1>7 DEF QuietStep

-----------------------------------------------------------------------------
(* The parts of the invariant one by one.                                  *)
LEMMA ReplayParts ==
  ASSUME ReplayInv
  PROVE  /\ ReplayTypes /\ BusyInv /\ SourceInv /\ NumbersInv /\ RequestInv /\ CountInv
         /\ EachInv /\ Readable(trace)
BY DEF ReplayInv, ReplayTypes

(* Priming a trace primes what is readable of it.                          *)
LEMMA ReadableNext == Readable(trace)' <=> Readable(trace')
BY DEF Readable, TraceRecords, ExchangeRecords, Outcomes

(* The end of a session, or of a transport.                                *)
LEMMA EndsKeeps ==
  ASSUME ReplayInv, Replay!Ends
  PROVE  ReplayInv'
<1>1. /\ doing' = "idle" /\ open' = FALSE /\ history' = history /\ trace' = trace
      /\ (seq' = 0 \/ seq' = seq) /\ traced' = FALSE
      /\ silent' = (silent \/ seq' = 0)
      /\ confused' = (confused \/ (seq' = 0 /\ trace.recovering))
  BY DEF Replay!Ends, Replay!Close
<1>2. /\ ReplayTypes /\ BusyInv /\ SourceInv /\ NumbersInv /\ RequestInv /\ CountInv
      /\ EachInv /\ Readable(trace)
  BY ReplayParts
<1>3. /\ ~ Busy' /\ (confused => confused') /\ (silent => silent')
      /\ (seq' # seq => silent' /\ (trace.recovering => confused'))
  <2>1. seq' # seq => seq' = 0
    BY <1>1
  <2> QED
    BY <1>1, <2>1, Zenon DEF Busy
<1>4. ReplayTypes'
  <2>1. Readable(trace)' <=> Readable(trace')
    BY ReadableNext
  <2>2. seq \in Nat /\ silent \in BOOLEAN /\ confused \in BOOLEAN
    BY <1>2 DEF ReplayTypes
  <2>3. seq' \in Nat /\ silent' \in BOOLEAN /\ confused' \in BOOLEAN
    BY <1>1, <2>2
  <2> QED
    BY <1>1, <1>2, <2>1, <2>3, Zenon DEF ReplayTypes
<1>5. BusyInv'
  BY <1>1, <1>2, <1>3 DEF BusyInv
<1>6. SourceInv'
  BY <1>1, <1>2 DEF SourceInv
<1>7. NumbersInv'
  <2> SUFFICES ASSUME ~ confused' PROVE NumbersInv'
    BY DEF NumbersInv
  <2>1. silent' => DOMAIN trace.exchanges = {} \/ ~ trace.recovering
    <3>1. silent => DOMAIN trace.exchanges = {} \/ ~ trace.recovering
      BY <1>2, <1>3 DEF NumbersInv
    <3>2. silent' => silent \/ seq' = 0
      BY <1>1, Zenon
    <3>3. seq' = 0 => ~ trace.recovering
      BY <1>1, Zenon
    <3> QED
      BY <3>1, <3>2, <3>3
  <2>2. ~ silent' => ~ silent /\ seq' = seq
    BY <1>3
  <2> QED
    BY <1>1, <1>2, <1>3, <2>1, <2>2 DEF NumbersInv
<1>8. RequestInv'
  BY <1>3 DEF RequestInv
<1>9. CountInv'
  BY <1>1, <1>2, <1>3 DEF CountInv, Between
<1>10. EachInv'
  BY <1>1, <1>2, <1>3 DEF EachInv
<1> QED
  BY <1>4, <1>5, <1>6, <1>7, <1>8, <1>9, <1>10 DEF ReplayInv

(* A new request.                                                          *)
LEMMA RequestKeeps ==
  ASSUME ReplayInv, Replay!Request
  PROVE  ReplayInv'
<1>1. /\ doing = "idle" /\ Len(history) < MaxRequests /\ doing' = "begin" /\ seq' = seq + 1
      /\ silent' = silent /\ confused' = confused /\ open' = open /\ trace' = trace
      /\ traced' = traced
  BY DEF Replay!Request, Replay!NoMarks, Replay!Going
<1>2. /\ ReplayTypes /\ BusyInv /\ SourceInv /\ NumbersInv /\ RequestInv /\ CountInv
      /\ EachInv /\ Readable(trace)
  BY ReplayParts
<1>3. PICK q : /\ history' = Append(history, q) /\ q \in RequestRecords
               /\ ~ q.sent /\ q.attempts = 0 /\ q.early = 0 /\ q.answer = Replay!None
  <2>1. PICK g \in Replay!Telegrams :
          history' = Append(history, [telegram |-> g, attempts |-> 0, early |-> 0, sent |-> FALSE,
                                      answer |-> Replay!None, failed |-> FALSE,
                                      unmarked |-> FALSE, reconnects |-> 0])
    BY Zenon DEF Replay!Request
  <2>2. PICK q : q = [telegram |-> g, attempts |-> 0, early |-> 0, sent |-> FALSE,
                      answer |-> Replay!None, failed |-> FALSE,
                      unmarked |-> FALSE, reconnects |-> 0]
    BY Zenon
  <2>3. q \in RequestRecords /\ ~ q.sent /\ q.attempts = 0 /\ q.early = 0 /\ q.answer = Replay!None
    BY <2>2 DEF RequestRecords, Outcomes
  <2> QED
    BY <2>1, <2>2, <2>3
<1>4. PICK n \in Nat : n = Len(history)
  BY <1>2, AskedFacts, Zenon
<1>5. /\ history' \in Seq(RequestRecords) /\ Len(history') = n + 1
      /\ DOMAIN history = 1..n /\ DOMAIN history' = 1..(n + 1)
      /\ history'[n + 1] = q
      /\ \A r \in DOMAIN history : r \in DOMAIN history' /\ history'[r] = history[r]
  <2>1. PICK s \in Seq(RequestRecords) : s = history
    BY <1>2 DEF ReplayTypes
  <2>2. PICK v : v = Append(s, q)
    BY Zenon
  <2>3. /\ v \in Seq(RequestRecords) /\ Len(v) = Len(s) + 1 /\ v[Len(s) + 1] = q
        /\ \A i \in 1..Len(s) : v[i] = s[i]
    BY <1>3, <2>1, <2>2, AppendProperties
  <2>4. DOMAIN s = 1..Len(s) /\ DOMAIN v = 1..Len(v)
    BY <2>1, <2>3, LenProperties
  <2> QED
    BY <1>3, <1>4, <2>1, <2>2, <2>3, <2>4
<1>6. Busy' /\ Replay!Now' = q /\ seq \in Nat /\ MaxRequests \in Nat
  BY <1>1, <1>2, <1>5, ScanConstants DEF Busy, Replay!Now, ReplayTypes, Replay!TraceConstants
<1>7. ReplayTypes'
  <2>1. Readable(trace)' <=> Readable(trace')
    BY ReadableNext
  <2>2. seq' \in Nat /\ Len(history') <= MaxRequests
    BY <1>1, <1>4, <1>5, <1>6
  <2> QED
    BY <1>1, <1>2, <1>5, <2>1, <2>2 DEF ReplayTypes
<1>8. BusyInv'
  <2>1. /\ Len(history') \in DOMAIN history' /\ Replay!Now'.answer = Replay!None /\ seq' >= 1
    BY <1>1, <1>3, <1>4, <1>5, <1>6
  <2>2. \A r \in DOMAIN history' :
          /\ history'[r].early <= history'[r].attempts
          /\ ~ history'[r].sent => history'[r].early = history'[r].attempts
    <3>1. \A r \in DOMAIN history :
            /\ history[r].early <= history[r].attempts
            /\ ~ history[r].sent => history[r].early = history[r].attempts
      BY <1>2 DEF BusyInv
    <3>2. \A r \in DOMAIN history' : r \in DOMAIN history \/ r = n + 1
      BY <1>5
    <3> QED
      BY <1>3, <1>5, <3>1, <3>2
  <2>3. trace'.recovering => ~ open'
    BY <1>1, <1>2 DEF BusyInv
  <2> QED
    BY <1>1, <2>1, <2>2, <2>3 DEF BusyInv
<1>9. SourceInv'
  <2>1. \A r \in DOMAIN history' : history'[r].answer # Replay!None =>
          r \in DOMAIN history /\ history[r].answer # Replay!None
    BY <1>3, <1>5
  <2>2. \A i \in DOMAIN trace.exchanges : \A r \in trace.exchanges[i].of :
          /\ r \in DOMAIN history' /\ history'[r].sent
          /\ history'[r].telegram = trace.exchanges[i].telegram
    BY <1>2, <1>5 DEF SourceInv
  <2>3. \A i \in DOMAIN trace.exchanges :
          /\ trace.exchanges[i].response # Replay!None <=> trace.exchanges[i].answers # 0
          /\ trace.exchanges[i].answers # 0 =>
               /\ trace.exchanges[i].answers \in trace.exchanges[i].of
               /\ history'[trace.exchanges[i].answers].answer = trace.exchanges[i].response
    BY <1>2, <1>5 DEF SourceInv
  <2>4. \A r \in DOMAIN history : history[r].answer # Replay!None =>
          \E i \in DOMAIN trace.exchanges : trace.exchanges[i].answers = r
    BY <1>2 DEF SourceInv
  <2> QED
    BY <1>1, <2>1, <2>2, <2>3, <2>4 DEF SourceInv
<1>10. NumbersInv'
  <2> SUFFICES ASSUME ~ confused' PROVE NumbersInv'
    BY DEF NumbersInv
  <2>1. /\ \A i \in DOMAIN trace.exchanges : \E r \in DOMAIN history : trace.exchanges[i].of = {r}
        /\ \A i \in DOMAIN trace.exchanges : trace.exchanges[i].seq <= trace.offset + trace.prev
        /\ \A i, j \in DOMAIN trace.exchanges :
             trace.exchanges[i].seq = trace.exchanges[j].seq => i = j
        /\ silent => DOMAIN trace.exchanges = {} \/ (~ trace.recovering /\ (open => trace.init))
        /\ ~ silent => seq >= trace.prev
    BY <1>1, <1>2 DEF NumbersInv
  <2>2. \A i \in DOMAIN trace.exchanges : \E r \in DOMAIN history' : trace.exchanges[i].of = {r}
    BY <1>5, <2>1
  <2>3. ~ silent => seq' > trace.prev /\ seq' >= trace.prev
    <3>1. PICK x \in Nat : x = trace.prev
      BY <1>2 DEF Readable, TraceRecords
    <3> QED
      BY <1>1, <1>6, <2>1, <3>1
  <2> QED
    BY <1>1, <2>1, <2>2, <2>3 DEF NumbersInv
<1>11. RequestInv'
  BY <1>3, <1>6 DEF RequestInv
<1>12. CountInv'
  <2> SUFFICES ASSUME ~ confused' PROVE CountInv'
    BY DEF CountInv
  <2>1. \A i \in DOMAIN trace.exchanges : trace.exchanges[i].response # Replay!None =>
          trace.exchanges[i].answers \in DOMAIN history
    BY <1>2 DEF SourceInv
  <2>2. \A i \in DOMAIN trace.exchanges :
          trace.exchanges[i].response # Replay!None
          /\ ~ history[trace.exchanges[i].answers].unmarked =>
            Between(trace.exchanges[i].attempts, history[trace.exchanges[i].answers])
    BY <1>1, <1>2 DEF CountInv
  <2>3. \A i \in DOMAIN trace.exchanges :
          trace.exchanges[i].response # Replay!None
          /\ ~ history'[trace.exchanges[i].answers].unmarked =>
            Between(trace.exchanges[i].attempts, history'[trace.exchanges[i].answers])
    BY <1>5, <2>1, <2>2
  <2> QED
    BY <1>1, <1>3, <1>6, <2>3, Zenon DEF CountInv, Between
<1>13. EachInv'
  <2> SUFFICES ASSUME ~ confused', NEW r \in DOMAIN history', history'[r].sent,
                      ~ history'[r].unmarked
               PROVE  \E i \in DOMAIN trace.exchanges :
                        \A j \in DOMAIN trace.exchanges : r \in trace.exchanges[j].of <=> j = i
    BY <1>1 DEF EachInv
  <2>1. r \in DOMAIN history /\ history[r].sent /\ ~ history[r].unmarked
    <3>1. r \in DOMAIN history \/ r = n + 1
      BY <1>5
    <3> QED
      BY <1>3, <1>5, <3>1
  <2> QED
    BY <1>1, <1>2, <2>1 DEF EachInv
<1> QED
  BY <1>7, <1>8, <1>9, <1>10, <1>11, <1>12, <1>13 DEF ReplayInv

(* The answer of the request under way.                                    *)
LEMMA AnsweredKeeps ==
  ASSUME ReplayInv, Replay!Answered
  PROVE  ReplayInv'
<1>1. /\ Busy /\ doing = "sent" /\ doing' = "idle" /\ ~ Busy'
      /\ silent' = silent /\ confused' = confused /\ seq' = seq /\ open' = open
      /\ traced' = traced
  BY DEF Replay!Answered, Replay!NoMarks, Busy
<1>2. /\ ReplayTypes /\ BusyInv /\ SourceInv /\ NumbersInv /\ RequestInv /\ CountInv
      /\ EachInv /\ Readable(trace)
  BY ReplayParts
<1>3. PICK k \in Nat : k = Len(history)
  BY <1>2, AskedFacts, Zenon
<1>4. PICK p : p = Replay!Now
  OBVIOUS
<1>5. /\ p \in RequestRecords /\ DOMAIN history = 1..k /\ k \in DOMAIN history /\ p = history[k]
      /\ p.answer = Replay!None /\ p.sent /\ ~ trace.recovering /\ k # 0
  <2>1. p \in RequestRecords /\ k \in DOMAIN history /\ p.answer = Replay!None
    BY <1>1, <1>3, <1>4, NowFacts
  <2>2. DOMAIN history = 1..k
    BY <1>2, <1>3, AskedFacts
  <2>3. open /\ p.sent /\ ~ trace.recovering
    BY <1>1, <1>2, <1>4 DEF BusyInv
  <2> QED
    BY <1>3, <1>4, <2>1, <2>2, <2>3 DEF Replay!Now
<1>6. PICK a \in Outcomes \ {Replay!None} :
        /\ history' = [history EXCEPT ![k] = [p EXCEPT !.answer = a]]
        /\ trace' = AllRead(trace, <<[Replay!Line("PARSED_PROTO") EXCEPT !.answer = a]>>)
  <2>1. PICK a \in Replay!Replies :
          /\ Replay!Update(LAMBDA r : [r EXCEPT !.answer = a])
          /\ Replay!Write(<<[Replay!Line("PARSED_PROTO") EXCEPT !.answer = a]>>)
    BY Zenon DEF Replay!Answered
  <2>2. a \in Outcomes \ {Replay!None}
    BY <2>1 DEF Replay!Replies, Replay!Answers, Replay!None, Outcomes
  <2>3. history' = [history EXCEPT ![k] = [p EXCEPT !.answer = a]]
    BY <1>3, <1>5, <2>1 DEF Replay!Update
  <2>4. trace' = AllRead(trace, <<[Replay!Line("PARSED_PROTO") EXCEPT !.answer = a]>>)
    BY <2>1 DEF Replay!Write, AllRead
  <2> QED
    BY <2>2, <2>3, <2>4, Zenon
<1>7. PICK q : q = [p EXCEPT !.answer = a]
  BY Zenon
<1>8. /\ q \in RequestRecords /\ q.answer = a /\ q.telegram = p.telegram /\ q.sent = p.sent
      /\ q.unmarked = p.unmarked /\ q.attempts = p.attempts /\ q.early = p.early
  BY <1>5, <1>6, <1>7, Zenon DEF RequestRecords
<1>9. /\ history' \in Seq(RequestRecords) /\ Len(history') = k
      /\ DOMAIN history' = DOMAIN history /\ history'[k] = q
      /\ \A r \in DOMAIN history : r # k => history'[r] = history[r]
  <2>1. history' = [history EXCEPT ![k] = q]
    BY <1>6, <1>7
  <2>2. history \in Seq(RequestRecords)
    BY <1>2 DEF ReplayTypes
  <2>3. history' \in Seq(RequestRecords) /\ Len(history') = Len(history)
    BY <1>3, <1>5, <1>8, <2>1, <2>2, ExceptSeq
  <2> QED
    BY <1>3, <1>5, <2>1, <2>3
<1>10. /\ \A r \in DOMAIN history :
            /\ history'[r].telegram = history[r].telegram
            /\ (history'[r].sent <=> history[r].sent)
            /\ (history'[r].unmarked <=> history[r].unmarked)
            /\ history'[r].attempts = history[r].attempts
            /\ history'[r].early = history[r].early
       /\ \A r \in DOMAIN history : history[r].answer # Replay!None =>
            r # k /\ history'[r] = history[r]
  BY <1>5, <1>8, <1>9, Zenon
<1>11. PICK line : line = [Replay!Line("PARSED_PROTO") EXCEPT !.answer = a]
  BY Zenon
<1>12. LineOf(line, "PARSED_PROTO") /\ line.answer = a
  <2>1. PICK b : b = Replay!Line("PARSED_PROTO")
    OBVIOUS
  <2>2. LineOf(b, "PARSED_PROTO")
    BY <1>2, <1>3, <1>5, <2>1, LineFacts
  <2>3. LineOf([b EXCEPT !.answer = a], "PARSED_PROTO") /\ [b EXCEPT !.answer = a].answer = a
    <3>1. a \in Outcomes
      BY <1>6
    <3> QED
      BY <2>2, <3>1, LineChanged, Zenon
  <2> QED
    BY <1>11, <2>1, <2>3
<1>13. PICK u : u = trace'
  OBVIOUS
<1>14. u = Replay!ReadLine(trace, line)
  <2>1. u = AllRead(trace, <<line>>)
    BY <1>6, <1>11, <1>13
  <2> QED
    BY <2>1, OneRead
<1>15. PICK i : i = trace.active
  OBVIOUS
<1>16. /\ i \in DOMAIN trace.exchanges /\ trace.exchanges[i].seq = Number
       /\ \A j \in Replay!Numbered(trace, Number) : j <= i
       /\ trace.exchanges[i].response = Replay!None /\ k \in trace.exchanges[i].of
  BY <1>1, <1>2, <1>3, <1>15 DEF SourceInv
<1>17. Known(trace, line) /\ At(trace, line) = i
  <2>1. line.seq + trace.offset = Number
    BY <1>12 DEF LineOf, Number
  <2>2. i \in Replay!Numbered(trace, Number)
    BY <1>16 DEF Replay!Numbered
  <2>3. /\ LastOf(trace, Number) \in Replay!Numbered(trace, Number)
        /\ \A j \in Replay!Numbered(trace, Number) : j <= LastOf(trace, Number)
    BY <1>2, <2>2, LastFacts DEF Replay!Numbered
  <2>4. PICK n \in Nat : DOMAIN trace.exchanges = 1..n
    BY <1>2, ListFacts
  <2>5. LastOf(trace, Number) <= i /\ i <= LastOf(trace, Number)
    BY <1>16, <2>2, <2>3
  <2>6. LastOf(trace, Number) \in DOMAIN trace.exchanges
    BY <2>3 DEF Replay!Numbered
  <2>7. LastOf(trace, Number) = i
    <3>1. PICK x : x = LastOf(trace, Number)
      OBVIOUS
    <3> QED
      BY <1>16, <2>4, <2>5, <2>6, <3>1
  <2> QED
    BY <2>1, <2>2, <2>7 DEF Known, At
<1>18. /\ Readable(u) /\ DOMAIN u.exchanges = DOMAIN trace.exchanges
       /\ u.init = FALSE /\ u.recovering = trace.recovering
       /\ u.active = trace.active /\ u.offset = trace.offset /\ u.prev = trace.prev
       /\ u.exchanges[i] = [trace.exchanges[i] EXCEPT !.response = line.answer, !.answers = line.of]
       /\ \A j \in DOMAIN trace.exchanges \ {i} : u.exchanges[j] = trace.exchanges[j]
  <2>1. line \in LineRecords /\ line.kind = "PARSED_PROTO"
    BY <1>12 DEF LineOf
  <2>2. PICK e : e = [trace.exchanges[At(trace, line)] EXCEPT !.response = line.answer,
                                                              !.answers = line.of]
    OBVIOUS
  <2>3. HasAnswer(trace, u, At(trace, line), e)
    BY <1>2, <1>14, <1>17, <2>1, <2>2, AnswerRead, Zenon
  <2>4. At(trace, line) = i
    BY <1>17
  <2>5. HasAnswer(trace, u, i, e)
    BY <2>3, <2>4, Zenon
  <2>6. e = [trace.exchanges[i] EXCEPT !.response = line.answer, !.answers = line.of]
    BY <2>2, <2>4, Zenon
  <2> QED
    BY <2>5, <2>6 DEF HasAnswer
<1>19. /\ u.exchanges[i].response = a /\ u.exchanges[i].answers = k
       /\ \A j \in DOMAIN trace.exchanges :
            /\ u.exchanges[j].seq = trace.exchanges[j].seq
            /\ u.exchanges[j].of = trace.exchanges[j].of
            /\ u.exchanges[j].telegram = trace.exchanges[j].telegram
            /\ u.exchanges[j].attempts = trace.exchanges[j].attempts
  <2>1. PICK e : e = trace.exchanges[i]
    OBVIOUS
  <2>2. e \in ExchangeRecords
    BY <1>2, <1>16, <2>1, ListFacts
  <2>3. PICK f : f = u.exchanges[i]
    OBVIOUS
  <2>4. f = [e EXCEPT !.response = a, !.answers = k]
    BY <1>3, <1>12, <1>18, <2>1, <2>3 DEF LineOf
  <2>5. PICK g : g = [e EXCEPT !.response = a]
    BY Zenon
  <2>6. f = [g EXCEPT !.answers = k]
    BY <2>4, <2>5, Zenon
  <2>7. /\ g \in ExchangeRecords /\ g.response = a /\ g.seq = e.seq /\ g.of = e.of
        /\ g.telegram = e.telegram /\ g.attempts = e.attempts
    BY <1>6, <2>2, <2>5 DEF ExchangeRecords
  <2>8. /\ f.response = a /\ f.answers = k /\ f.seq = e.seq /\ f.of = e.of
        /\ f.telegram = e.telegram /\ f.attempts = e.attempts
    BY <2>6, <2>7 DEF ExchangeRecords
  <2> QED
    BY <1>18, <2>1, <2>3, <2>8, Zenon
<1>20. ReplayTypes'
  <2>1. Readable(trace)' <=> Readable(trace')
    BY ReadableNext
  <2> QED
    BY <1>1, <1>2, <1>3, <1>9, <1>13, <1>18, <2>1 DEF ReplayTypes
<1>21. BusyInv'
  BY <1>1, <1>2, <1>5, <1>9, <1>10, <1>13, <1>18 DEF BusyInv
<1>22. SourceInv'
  <2>1. \A j \in DOMAIN u.exchanges : \A r \in u.exchanges[j].of :
          /\ r \in DOMAIN history' /\ history'[r].sent
          /\ history'[r].telegram = u.exchanges[j].telegram
    BY <1>2, <1>9, <1>10, <1>18, <1>19 DEF SourceInv
  <2>2. ASSUME NEW j \in DOMAIN u.exchanges
        PROVE  /\ u.exchanges[j].response # Replay!None <=> u.exchanges[j].answers # 0
               /\ u.exchanges[j].answers # 0 =>
                    /\ u.exchanges[j].answers \in u.exchanges[j].of
                    /\ history'[u.exchanges[j].answers].answer = u.exchanges[j].response
    <3>1. CASE j = i
      BY <1>5, <1>6, <1>8, <1>9, <1>16, <1>19, <3>1
    <3>2. CASE j # i
      <4>1. u.exchanges[j] = trace.exchanges[j] /\ j \in DOMAIN trace.exchanges
        BY <1>18, <3>2
      <4>2. /\ trace.exchanges[j].response # Replay!None <=> trace.exchanges[j].answers # 0
            /\ trace.exchanges[j].answers # 0 =>
                 /\ trace.exchanges[j].answers \in trace.exchanges[j].of
                 /\ trace.exchanges[j].answers \in DOMAIN history
                 /\ history[trace.exchanges[j].answers].answer = trace.exchanges[j].response
        BY <1>2, <4>1 DEF SourceInv
      <4> QED
        BY <1>10, <4>1, <4>2
    <3> QED
      BY <3>1, <3>2
  <2>3. ASSUME NEW r \in DOMAIN history', history'[r].answer # Replay!None
        PROVE  \E j \in DOMAIN u.exchanges : u.exchanges[j].answers = r
    <3>1. CASE r = k
      BY <1>16, <1>18, <1>19, <3>1, Zenon
    <3>2. CASE r # k
      <4>1. history[r].answer # Replay!None /\ r \in DOMAIN history /\ r # 0
        BY <1>5, <1>9, <2>3, <3>2
      <4>2. PICK j \in DOMAIN trace.exchanges : trace.exchanges[j].answers = r
        BY <1>2, <4>1 DEF SourceInv
      <4>3. j # i
        BY <1>2, <1>16, <4>1, <4>2 DEF SourceInv
      <4> QED
        BY <1>18, <4>2, <4>3
    <3> QED
      BY <3>1, <3>2
  <2> QED
    BY <1>1, <1>13, <2>1, <2>2, <2>3 DEF SourceInv
<1>23. NumbersInv'
  <2> SUFFICES ASSUME ~ confused' PROVE NumbersInv'
    BY DEF NumbersInv
  <2>1. /\ \A j \in DOMAIN trace.exchanges : \E r \in DOMAIN history : trace.exchanges[j].of = {r}
        /\ \A j \in DOMAIN trace.exchanges : trace.exchanges[j].seq <= trace.offset + trace.prev
        /\ \A l, j \in DOMAIN trace.exchanges :
             trace.exchanges[l].seq = trace.exchanges[j].seq => l = j
        /\ ~ silent => seq >= trace.prev
    BY <1>1, <1>2 DEF NumbersInv
  <2>2. ~ silent
    BY <1>1, <1>4, <1>5, RequestKnown
  <2>3. /\ \A j \in DOMAIN u.exchanges : \E r \in DOMAIN history' : u.exchanges[j].of = {r}
        /\ \A j \in DOMAIN u.exchanges : u.exchanges[j].seq <= u.offset + u.prev
        /\ \A l, j \in DOMAIN u.exchanges : u.exchanges[l].seq = u.exchanges[j].seq => l = j
    BY <1>9, <1>18, <1>19, <2>1
  <2> QED
    BY <1>1, <1>13, <1>18, <2>1, <2>2, <2>3 DEF NumbersInv
<1>24. RequestInv'
  BY <1>1 DEF RequestInv
<1>25. CountInv'
  <2> SUFFICES ASSUME ~ confused', NEW j \in DOMAIN u.exchanges,
                      u.exchanges[j].response # Replay!None,
                      ~ history'[u.exchanges[j].answers].unmarked
               PROVE  Between(u.exchanges[j].attempts, history'[u.exchanges[j].answers])
    <3>1. Between(trace'.exchanges[trace'.active].attempts, Replay!Now')
          <=> Between(trace.exchanges[trace.active].attempts, Replay!Now)'
      BY DEF Between
    <3> QED
      BY <1>1, <1>13 DEF CountInv, Between
  <2>1. CASE j = i
    <3>1. ~ p.unmarked
      BY <1>8, <1>9, <1>19, <2>1
    <3>2. Between(trace.exchanges[trace.active].attempts, Replay!Now)
      BY <1>1, <1>4, <1>5, <3>1, RequestCounts
    <3>3. u.exchanges[j].attempts = trace.exchanges[i].attempts
      BY <1>16, <1>19, <2>1
    <3>4. history'[u.exchanges[j].answers] = q
      BY <1>9, <1>19, <2>1
    <3> QED
      BY <1>4, <1>8, <1>15, <3>2, <3>3, <3>4 DEF Between
  <2>2. CASE j # i
    <3>1. u.exchanges[j] = trace.exchanges[j] /\ j \in DOMAIN trace.exchanges
      BY <1>18, <2>2
    <3>2. PICK r : r = trace.exchanges[j].answers
      OBVIOUS
    <3>3. r \in DOMAIN history /\ history[r].answer # Replay!None
      BY <1>2, <3>1, <3>2 DEF SourceInv
    <3>4. history'[r] = history[r]
      BY <1>10, <3>3
    <3>5. Between(trace.exchanges[j].attempts, history[r])
      BY <1>1, <1>2, <3>1, <3>2, <3>4 DEF CountInv
    <3> QED
      BY <3>1, <3>2, <3>4, <3>5
  <2> QED
    BY <2>1, <2>2
<1>26. EachInv'
  <2> SUFFICES ASSUME ~ confused' PROVE EachInv'
    BY DEF EachInv
  <2>1. \A r \in DOMAIN history : history[r].sent /\ ~ history[r].unmarked =>
          \E l \in DOMAIN trace.exchanges :
            \A j \in DOMAIN trace.exchanges : r \in trace.exchanges[j].of <=> j = l
    BY <1>1, <1>2 DEF EachInv
  <2>2. \A r \in DOMAIN history' : history'[r].sent /\ ~ history'[r].unmarked =>
          \E l \in DOMAIN u.exchanges :
            \A j \in DOMAIN u.exchanges : r \in u.exchanges[j].of <=> j = l
    BY <1>9, <1>10, <1>18, <1>19, <2>1
  <2> QED
    BY <1>13, <2>2 DEF EachInv
<1> QED
  BY <1>20, <1>21, <1>22, <1>23, <1>24, <1>25, <1>26 DEF ReplayInv

-----------------------------------------------------------------------------
(* A telegram goes out.                                                    *)
GrantedNow ==
  [Replay!Begun(Replay!Now) EXCEPT !.sent = TRUE, !.early = Replay!Now.early,
                                   !.unmarked = @ \/ (Replay!Now.sent /\ ~ open)]
Granted ==
  /\ doing = "begin" /\ Replay!Now.attempts < MaxAttempts /\ seq' = seq
  /\ doing' = "sent" /\ open' = TRUE /\ traced' = TRUE /\ ChangedNow(GrantedNow)
  /\ trace' = AllRead(trace, Replay!Starting \o Replay!Opening
                             \o <<Replay!Line("SEND_PROTO")>>)
  /\ silent' = FALSE /\ confused' = confused

(* The request then, its line, and what was read before it.                *)
SentRequest(q) ==
  /\ q \in RequestRecords /\ q.telegram = Replay!Now.telegram /\ q.answer = Replay!None /\ q.sent
  /\ (q.unmarked <=> Replay!Now.unmarked \/ (Replay!Now.sent /\ ~ open))
  /\ q.attempts = Replay!Now.attempts + 1 /\ q.early = Replay!Now.early
  /\ history' \in Seq(RequestRecords) /\ Len(history') = Len(history)
  /\ DOMAIN history' = DOMAIN history
  /\ history'[Len(history)] = q
  /\ \A r \in DOMAIN history : r # Len(history) => history'[r] = history[r]
SentControl ==
  /\ Busy /\ Busy' /\ doing' = "sent" /\ open' = TRUE /\ traced' = TRUE /\ seq' = seq
  /\ silent' = FALSE /\ confused' = confused
SentAfter(w) ==
  /\ Alike(trace, w) /\ ~ w.recovering
  /\ (w.init <=> IF open THEN trace.init ELSE ~ trace.recovering)
  /\ \A i \in DOMAIN trace.exchanges : trace.exchanges[i].response # Replay!None =>
       w.exchanges[i].attempts = trace.exchanges[i].attempts
  /\ Pending(trace) =>
       /\ w.precounted
       /\ w.exchanges[trace.active].attempts = trace.exchanges[trace.active].attempts + 1

(* A granted attempt leaves the request as it was but sent, with one       *)
(* attempt more.                                                           *)
LEMMA GrantedRequest ==
  ASSUME ReplayInv, Granted
  PROVE  SentRequest(GrantedNow)
<1>1. Busy
  BY DEF Granted, Busy
<1>2. ReplayTypes /\ Len(history) \in DOMAIN history /\ Replay!Now.answer = Replay!None
  BY <1>1, NowFacts
<1>3. PICK p : p = Replay!Now
  OBVIOUS
<1>4. p \in RequestRecords /\ open \in BOOLEAN
  BY <1>1, <1>2, <1>3, NowFacts DEF ReplayTypes
<1>5. PICK b : b = Replay!Begun(p)
  OBVIOUS
<1>6. /\ b \in RequestRecords /\ b.telegram = p.telegram /\ b.answer = p.answer
      /\ (b.unmarked <=> p.unmarked) /\ b.attempts = p.attempts + 1
  BY <1>1, <1>3, <1>5, BegunFacts DEF Amends
<1>7. PICK m \in BOOLEAN : m <=> p.unmarked \/ (p.sent /\ ~ open)
  BY Zenon
<1>8. PICK q : q = [b EXCEPT !.sent = TRUE, !.early = p.early, !.unmarked = m]
  OBVIOUS
<1>9. PICK c : c = [b EXCEPT !.sent = TRUE]
  BY Zenon
<1>10. PICK d : d = [c EXCEPT !.early = p.early]
  BY Zenon
<1>11. q = [d EXCEPT !.unmarked = m]
  BY <1>8, <1>9, <1>10, Zenon
<1>12. /\ c \in RequestRecords /\ c.sent = TRUE /\ c.telegram = b.telegram
       /\ c.answer = b.answer /\ c.attempts = b.attempts
  BY <1>6, <1>9, Zenon DEF RequestRecords
<1>13. p.early \in Nat
  BY <1>4 DEF RequestRecords
<1>14. /\ d \in RequestRecords /\ d.sent = TRUE /\ d.telegram = c.telegram
       /\ d.answer = c.answer /\ d.attempts = c.attempts /\ d.early = p.early
  BY <1>10, <1>12, <1>13 DEF RequestRecords
<1>15. /\ q \in RequestRecords /\ q.sent = TRUE /\ q.telegram = d.telegram
       /\ q.answer = d.answer /\ q.attempts = d.attempts /\ q.early = d.early /\ q.unmarked = m
  BY <1>7, <1>11, <1>14 DEF RequestRecords
<1>16. GrantedNow = q
  <2>1. b.unmarked \in BOOLEAN /\ p.unmarked \in BOOLEAN
    BY <1>4, <1>6 DEF RequestRecords
  <2>2. m = (b.unmarked \/ (p.sent /\ ~ open))
    BY <1>6, <1>7, <2>1
  <2>3. GrantedNow = [b EXCEPT !.sent = TRUE, !.early = p.early,
                               !.unmarked = b.unmarked \/ (p.sent /\ ~ open)]
    <3>1. GrantedNow = [b EXCEPT !.sent = TRUE, !.early = p.early,
                                 !.unmarked = @ \/ (p.sent /\ ~ open)]
      BY <1>3, <1>5 DEF GrantedNow
    <3>2. d.unmarked = b.unmarked
      BY <1>6, <1>9, <1>10, <1>12 DEF RequestRecords
    <3> QED
      BY <3>1, <3>2, <1>9, <1>10
  <2> QED
    BY <1>8, <2>2, <2>3
<1>17. history' = [history EXCEPT ![Len(history)] = q]
  BY <1>16 DEF Granted, ChangedNow
<1>18. /\ history' \in Seq(RequestRecords) /\ Len(history') = Len(history)
       /\ DOMAIN history' = DOMAIN history /\ history'[Len(history)] = q
       /\ \A r \in DOMAIN history : r # Len(history) => history'[r] = history[r]
  <2>1. history \in Seq(RequestRecords) /\ Len(history) \in Nat /\ DOMAIN history = 1..Len(history)
    BY <1>2, AskedFacts DEF ReplayTypes
  <2>2. history' \in Seq(RequestRecords) /\ Len(history') = Len(history)
    BY <1>2, <1>15, <1>17, <2>1, ExceptSeq
  <2> QED
    BY <1>2, <1>17, <2>2
<1>19. SentRequest(q)
  BY <1>2, <1>3, <1>6, <1>7, <1>12, <1>14, <1>15, <1>18 DEF SentRequest
<1> QED
  BY <1>16, <1>19

(* The lines of a granted attempt: perhaps START, perhaps an INIT, then    *)
(* SEND_PROTO.                                                             *)
LEMMA GrantedRead ==
  ASSUME ReplayInv, Granted
  PROVE  \E line, w : /\ LineOf(line, "SEND_PROTO") /\ SentAfter(w)
                      /\ trace' = Replay!ReadLine(w, line)
<1>1. Busy
  BY DEF Granted, Busy
<1>2. ReplayTypes /\ BusyInv /\ Len(history) \in DOMAIN history /\ Readable(trace)
  BY <1>1, NowFacts
<1>3. PICK line : line = Replay!Line("SEND_PROTO")
  OBVIOUS
<1>4. LineOf(line, "SEND_PROTO") /\ line \in Lines
  BY <1>2, <1>3, LineFacts DEF LineOf, Lines
<1>5. PICK a : a = Replay!Starting
  OBVIOUS
<1>6. PICK s : s = Replay!Opening
  OBVIOUS
<1>7. PICK v : v = AllRead(trace, a)
  OBVIOUS
<1>8. /\ a \in Seq(Lines) /\ Counted(trace, v) /\ Precounts(trace, v)
      /\ (v.recovering <=> trace.recovering) /\ (v.init <=> trace.init)
  BY <1>2, <1>5, <1>7, StartingRead DEF ReplayTypes
<1>9. Maybe(s) /\ (s = <<>> <=> open)
  BY <1>6 DEF Replay!Opening, Maybe
<1>10. PICK w : w = AllRead(trace, a \o s)
  OBVIOUS
<1>11. /\ a \o s \in Seq(Lines) /\ Counted(trace, w) /\ Precounts(trace, w)
       /\ (w.recovering <=> v.recovering /\ s = <<>>)
       /\ (w.init <=> IF s = <<>> THEN v.init ELSE ~ v.recovering)
  BY <1>7, <1>8, <1>9, <1>10, InitsRead
<1>12. trace' = AllRead(trace, a \o s \o <<line>>)
  BY <1>3, <1>5, <1>6 DEF Granted
<1>13. trace' = Replay!ReadLine(w, line)
  <2>1. PICK b \in Seq(Lines) : b = a \o s
    BY <1>11
  <2>2. AllRead(trace, b \o <<line>>) = Replay!ReadLine(AllRead(trace, b), line)
    BY <1>4, OneMoreRead
  <2> QED
    BY <1>10, <1>12, <2>1, <2>2
<1>14. ~ w.recovering /\ (w.init <=> IF open THEN trace.init ELSE ~ trace.recovering)
  BY <1>2, <1>8, <1>9, <1>11 DEF BusyInv
<1>15. SentAfter(w)
  BY <1>11, <1>14 DEF SentAfter, Counted, Precounts, Settles
<1> QED
  BY <1>4, <1>13, <1>15

(* What the telegram made of the trace: exchange i is the one of the       *)
(* request, and the last of its number; the others are what they were.     *)
Sends(u, i) ==
  /\ Readable(u) /\ ~ u.init /\ ~ u.recovering /\ u.prev = seq /\ u.active = i
  /\ DOMAIN u.exchanges = DOMAIN trace.exchanges \cup {i}
  /\ u.exchanges[i].seq = seq + u.offset /\ u.exchanges[i].telegram = Replay!Now.telegram
  /\ u.exchanges[i].response = Replay!None
  /\ i \in DOMAIN trace.exchanges =>
       /\ trace.exchanges[i].response = Replay!None
       /\ trace.exchanges[i].telegram = Replay!Now.telegram
       /\ u.exchanges[i].answers = trace.exchanges[i].answers
       /\ u.exchanges[i].of = trace.exchanges[i].of \cup {Len(history)}
  /\ i \notin DOMAIN trace.exchanges =>
       u.exchanges[i].answers = 0 /\ u.exchanges[i].of = {Len(history)}
  /\ \A j \in DOMAIN trace.exchanges : j # i =>
       /\ SameExchange(trace.exchanges[j], u.exchanges[j])
       /\ trace.exchanges[j].response # Replay!None =>
            u.exchanges[j].attempts = trace.exchanges[j].attempts
  /\ \A j \in DOMAIN u.exchanges : u.exchanges[j].seq = seq + u.offset => j <= i
(* A new exchange with the greatest number, or again the active one.       *)
Apart(u, i) ==
  \/ /\ i \notin DOMAIN trace.exchanges /\ u.exchanges[i].attempts = 1
     /\ Replay!Now.sent => trace.init \/ ~ open
     /\ \A j \in DOMAIN trace.exchanges : trace.exchanges[j].seq < seq + u.offset
  \/ /\ Replay!Now.sent /\ i = trace.active /\ i \in DOMAIN trace.exchanges
     /\ u.offset = trace.offset
     /\ traced /\ ~ trace.init => u.exchanges[i].attempts = trace.exchanges[i].attempts + 1

(* A SEND_PROTO that joins an exchange is one the request sent before.     *)
LEMMA JoinedSends ==
  ASSUME ReplayInv, Busy, NEW line, LineOf(line, "SEND_PROTO"), NEW w, SentAfter(w), NEW u, NEW i,
         Joined(w, u, line, i)
  PROVE  Sends(u, i)
<1>1. /\ Readable(u) /\ u.offset = Replay!Offset(w) /\ ~ u.init /\ u.prev = line.seq
      /\ (u.recovering <=> w.recovering)
      /\ i \in DOMAIN w.exchanges /\ u.active = i /\ DOMAIN u.exchanges = DOMAIN w.exchanges
      /\ \A j \in DOMAIN w.exchanges \ {i} : u.exchanges[j] = w.exchanges[j]
      /\ u.exchanges[i].seq = w.exchanges[i].seq
      /\ u.exchanges[i].telegram = w.exchanges[i].telegram
      /\ u.exchanges[i].response = w.exchanges[i].response
      /\ u.exchanges[i].answers = w.exchanges[i].answers
      /\ u.exchanges[i].of = w.exchanges[i].of \cup {line.of}
  BY DEF Joined, SendAlike
<1>2. /\ line.seq = seq /\ line.of = Len(history) /\ line.telegram = Replay!Now.telegram
  BY DEF LineOf
<1>3. PICK n : n = SentNumber(w, line)
  OBVIOUS
<1>4. n = seq + u.offset
  BY <1>1, <1>2, <1>3 DEF SentNumber
<1>5. /\ w.exchanges[i].seq = n /\ w.exchanges[i].response = Replay!None
      /\ w.exchanges[i].telegram = line.telegram
      /\ \A j \in DOMAIN w.exchanges : w.exchanges[j].seq = n => j <= i
  BY <1>3 DEF Joined, Joins, Replay!Numbered
<1>6. /\ ~ w.recovering /\ DOMAIN w.exchanges = DOMAIN trace.exchanges
      /\ \A j \in DOMAIN trace.exchanges : SameExchange(trace.exchanges[j], w.exchanges[j])
      /\ \A j \in DOMAIN trace.exchanges : trace.exchanges[j].response # Replay!None =>
           w.exchanges[j].attempts = trace.exchanges[j].attempts
  BY DEF SentAfter, Alike
<1>7. \A j \in DOMAIN u.exchanges : u.exchanges[j].seq = seq + u.offset => j <= i
  <2>1. \A j \in DOMAIN u.exchanges : u.exchanges[j].seq = w.exchanges[j].seq
    BY <1>1
  <2> QED
    BY <1>1, <1>4, <1>5, <2>1
<1>8. \A j \in DOMAIN trace.exchanges : j # i =>
        /\ SameExchange(trace.exchanges[j], u.exchanges[j])
        /\ trace.exchanges[j].response # Replay!None =>
             u.exchanges[j].attempts = trace.exchanges[j].attempts
  BY <1>1, <1>6
<1>9. /\ trace.exchanges[i].response = Replay!None
      /\ trace.exchanges[i].telegram = Replay!Now.telegram
      /\ u.exchanges[i].answers = trace.exchanges[i].answers
      /\ u.exchanges[i].of = trace.exchanges[i].of \cup {Len(history)}
  BY <1>1, <1>2, <1>5, <1>6 DEF SameExchange
<1>10. DOMAIN u.exchanges = DOMAIN trace.exchanges \cup {i} /\ i \in DOMAIN trace.exchanges
  BY <1>1, <1>6
<1>11. /\ u.exchanges[i].seq = seq + u.offset /\ u.exchanges[i].telegram = Replay!Now.telegram
       /\ u.exchanges[i].response = Replay!None
  BY <1>1, <1>2, <1>4, <1>5
<1> QED
  BY <1>1, <1>2, <1>6, <1>7, <1>8, <1>9, <1>10, <1>11 DEF Sends

(* A SEND_PROTO that begins an exchange appends it.                        *)
LEMMA BeganSends ==
  ASSUME ReplayInv, Busy, NEW line, LineOf(line, "SEND_PROTO"), NEW w, SentAfter(w), NEW u,
         Began(w, u, line)
  PROVE  Sends(u, u.active) /\ u.active \notin DOMAIN trace.exchanges
<1> DEFINE i == u.active
<1>1. /\ Readable(u) /\ u.offset = Replay!Offset(w) /\ ~ u.init /\ u.prev = line.seq
      /\ (u.recovering <=> w.recovering)
      /\ i \notin DOMAIN w.exchanges /\ DOMAIN u.exchanges = DOMAIN w.exchanges \cup {i}
      /\ \A j \in DOMAIN w.exchanges : j <= i
      /\ \A j \in DOMAIN w.exchanges : u.exchanges[j] = w.exchanges[j]
      /\ u.exchanges[i].seq = SentNumber(w, line)
      /\ u.exchanges[i].telegram = line.telegram
      /\ u.exchanges[i].response = Replay!None
      /\ u.exchanges[i].answers = 0
      /\ u.exchanges[i].of = {line.of}
  BY DEF Began, SendAlike
<1>2. /\ line.seq = seq /\ line.of = Len(history) /\ line.telegram = Replay!Now.telegram
  BY DEF LineOf
<1>3. /\ ~ w.recovering /\ DOMAIN w.exchanges = DOMAIN trace.exchanges
      /\ \A j \in DOMAIN trace.exchanges : SameExchange(trace.exchanges[j], w.exchanges[j])
      /\ \A j \in DOMAIN trace.exchanges : trace.exchanges[j].response # Replay!None =>
           w.exchanges[j].attempts = trace.exchanges[j].attempts
  BY DEF SentAfter, Alike
<1>4. \A j \in DOMAIN u.exchanges : u.exchanges[j].seq = seq + u.offset => j <= i
  <2>1. PICK m \in Nat : DOMAIN u.exchanges = 1..m
    BY <1>1, ListFacts
  <2>2. i \in DOMAIN u.exchanges
    BY <1>1
  <2>3. PICK k : k = i
    OBVIOUS
  <2>4. k \in Nat /\ k <= k
    BY <2>1, <2>2, <2>3
  <2> QED
    BY <1>1, <2>3, <2>4
<1>5. u.exchanges[i].seq = seq + u.offset
  BY <1>1, <1>2 DEF SentNumber
<1> HIDE DEF i
<1>6. \A j \in DOMAIN trace.exchanges : j # i =>
        /\ SameExchange(trace.exchanges[j], u.exchanges[j])
        /\ trace.exchanges[j].response # Replay!None =>
             u.exchanges[j].attempts = trace.exchanges[j].attempts
  BY <1>1, <1>3
<1>7. i = u.active
  BY DEF i
<1>8. DOMAIN u.exchanges = DOMAIN trace.exchanges \cup {i} /\ i \notin DOMAIN trace.exchanges
  BY <1>1, <1>3
<1>9. Sends(u, i)
  BY <1>1, <1>2, <1>3, <1>4, <1>5, <1>6, <1>7, <1>8 DEF Sends
<1> QED
  BY <1>7, <1>8, <1>9

(* Either way the request is now in one exchange, and while the reader is  *)
(* not confused no other exchange has its number.                          *)
LEMMA SentSends ==
  ASSUME ReplayInv, Busy, NEW line, LineOf(line, "SEND_PROTO"), NEW w, SentAfter(w),
         trace' = Replay!ReadLine(w, line)
  PROVE  \E i : Sends(trace', i) /\ (~ confused => Apart(trace', i))
<1>1. PICK u : u = trace'
  OBVIOUS
<1>2. line \in LineRecords /\ line.kind = "SEND_PROTO" /\ Readable(w)
  BY DEF LineOf, SentAfter, Alike
<1>3. /\ ReplayTypes /\ BusyInv /\ SourceInv /\ NumbersInv /\ RequestInv /\ CountInv
      /\ EachInv /\ Readable(trace)
  BY ReplayParts
<1>4. PICK n : n = SentNumber(w, line)
  OBVIOUS
<1>5. /\ line.seq = seq /\ line.of = Len(history) /\ line.telegram = Replay!Now.telegram
  BY DEF LineOf
<1>6. /\ w.offset = trace.offset /\ w.prev = trace.prev
      /\ DOMAIN w.exchanges = DOMAIN trace.exchanges
      /\ \A j \in DOMAIN trace.exchanges : SameExchange(trace.exchanges[j], w.exchanges[j])
      /\ (w.init <=> IF open THEN trace.init ELSE ~ trace.recovering)
  BY DEF SentAfter, Alike
<1>7. PICK o \in Nat : o = trace.offset
  BY <1>3 DEF Readable, TraceRecords
<1>8. PICK z \in Nat : z = trace.prev
  BY <1>3 DEF Readable, TraceRecords
<1>9. PICK s \in Nat : s = seq
  BY <1>3 DEF ReplayTypes
<1>10. n = IF w.init THEN s + (o + z) ELSE s + o
  BY <1>4, <1>5, <1>6, <1>7, <1>8, <1>9 DEF SentNumber, Replay!Offset
<1>11. CASE ~ confused /\ (w.init \/ ~ Replay!Now.sent)
  <2>1. s >= 1
    BY <1>3, <1>9 DEF BusyInv
  <2>2. ASSUME NEW j \in DOMAIN trace.exchanges PROVE trace.exchanges[j].seq < n
    <3>1. PICK x : x = trace.exchanges[j].seq
      OBVIOUS
    <3>2. x \in Nat
      <4>1. trace.exchanges[j] \in ExchangeRecords
        BY <1>3, ListFacts
      <4> QED
        BY <3>1, <4>1 DEF ExchangeRecords
    <3>3. x <= o + z
      BY <1>3, <1>7, <1>8, <1>11, <3>1 DEF NumbersInv
    <3>4. CASE w.init
      BY <1>10, <2>1, <3>1, <3>2, <3>3, <3>4
    <3>5. CASE ~ w.init
      <4>1. ~ silent
        <5>1. silent => ~ trace.recovering /\ (open => trace.init)
          BY <1>3, <1>11 DEF NumbersInv
        <5> QED
          BY <1>6, <3>5, <5>1
      <4>2. s > z
        BY <1>3, <1>8, <1>9, <1>11, <3>5, <4>1 DEF NumbersInv
      <4> QED
        BY <1>10, <3>1, <3>2, <3>3, <3>5, <4>2
    <3> QED
      BY <3>4, <3>5
  <2>3. \A i : ~ Joins(w, line, i)
    <3>1. SUFFICES ASSUME NEW i, Joins(w, line, i) PROVE FALSE
      OBVIOUS
    <3>2. i \in DOMAIN w.exchanges /\ w.exchanges[i].seq = n
      BY <1>4, <3>1 DEF Joins, Replay!Numbered
    <3>3. i \in DOMAIN trace.exchanges /\ trace.exchanges[i].seq = n
      BY <1>6, <3>2 DEF SameExchange
    <3>4. n \in Nat
      BY <1>10
    <3> QED
      BY <2>2, <3>3, <3>4
  <2>4. Began(w, u, line)
    BY <1>1, <1>2, <2>3, SendBegins
  <2>5. Sends(u, u.active) /\ u.active \notin DOMAIN trace.exchanges
    BY <2>4, BeganSends
  <2>6. Apart(u, u.active)
    <3>1. u.exchanges[u.active].attempts = 1 /\ u.offset = Replay!Offset(w)
      BY <2>4 DEF Began, SendAlike
    <3>2. n = seq + u.offset
      BY <1>4, <1>5, <3>1 DEF SentNumber
    <3>3. Replay!Now.sent => trace.init \/ ~ open
      BY <1>6, <1>11
    <3> QED
      BY <2>2, <2>5, <3>1, <3>2, <3>3 DEF Apart
  <2> QED
    BY <1>1, <2>5, <2>6
<1>12. CASE ~ confused /\ ~ w.init /\ Replay!Now.sent
  <2>1. PICK i : i = trace.active
    OBVIOUS
  <2>2. /\ Alone(trace, i, Number) /\ i \in DOMAIN trace.exchanges
        /\ trace.exchanges[i].response = Replay!None /\ trace.exchanges[i].of = {Len(history)}
    BY <1>12, <2>1, RequestKnown
  <2>3. n = Number
    BY <1>7, <1>9, <1>10, <1>12 DEF Number
  <2>4. trace.exchanges[i].telegram = Replay!Now.telegram
    BY <1>3, <2>2 DEF SourceInv, Replay!Now
  <2>5. Joins(w, line, i)
    <3>1. \A j \in DOMAIN w.exchanges : w.exchanges[j].seq = n <=> j = i
      BY <1>6, <2>2, <2>3 DEF Alone, SameExchange
    <3>2. w.exchanges[i].response = Replay!None /\ w.exchanges[i].telegram = line.telegram
      BY <1>5, <1>6, <2>2, <2>4 DEF SameExchange
    <3>3. PICK m \in Nat : DOMAIN w.exchanges = 1..m
      BY <1>2, ListFacts
    <3> QED
      BY <1>4, <1>6, <2>2, <3>1, <3>2, <3>3 DEF Joins, Replay!Numbered
  <2>6. Joined(w, u, line, i)
    BY <1>1, <1>2, <2>5, SendJoins
  <2>7. Sends(u, i)
    BY <2>6, JoinedSends
  <2>8. Apart(u, i)
    <3>1. u.offset = trace.offset
      BY <1>6, <1>12, <2>6 DEF Joined, SendAlike, Replay!Offset
    <3>2. traced /\ ~ trace.init => u.exchanges[i].attempts = trace.exchanges[i].attempts + 1
      <4>1. traced /\ ~ trace.init =>
              w.precounted /\ w.exchanges[i].attempts = trace.exchanges[i].attempts + 1
        BY <2>1, <2>2 DEF SentAfter, Pending
      <4> QED
        BY <2>6, <4>1 DEF Joined
    <3> QED
      BY <1>12, <2>1, <2>2, <3>1, <3>2 DEF Apart
  <2> QED
    BY <1>1, <2>7, <2>8
<1>13. CASE confused
  <2>1. CASE \E i : Joins(w, line, i)
    BY <1>1, <1>2, <1>13, <2>1, SendJoins, JoinedSends
  <2>2. CASE \A i : ~ Joins(w, line, i)
    BY <1>1, <1>2, <1>13, <2>2, SendBegins, BeganSends
  <2> QED
    BY <2>1, <2>2
<1> QED
  BY <1>11, <1>12, <1>13

(* What a request that sends leaves: the new and the old of it.            *)
LEMMA SentHistory ==
  ASSUME ReplayInv, Busy, NEW q, SentRequest(q)
  PROVE  /\ Len(history) \in DOMAIN history /\ Len(history) \in Nat /\ Len(history) # 0
         /\ Replay!Now' = q /\ history'[Len(history)] = q
         /\ DOMAIN history' = DOMAIN history /\ Len(history') = Len(history)
         /\ \A r \in DOMAIN history :
              /\ history'[r].telegram = history[r].telegram /\ history'[r].answer = history[r].answer
              /\ (history[r].sent => history'[r].sent)
              /\ history[r].answer # Replay!None => r # Len(history) /\ history'[r] = history[r]
              /\ r # Len(history) => history'[r] = history[r]
<1>1. /\ ReplayTypes /\ Len(history) \in DOMAIN history /\ Replay!Now.answer = Replay!None
  BY NowFacts
<1>2. Len(history) \in Nat /\ DOMAIN history = 1..Len(history)
  BY <1>1, AskedFacts
<1>3. /\ q.telegram = Replay!Now.telegram /\ q.answer = Replay!None /\ q.sent
      /\ DOMAIN history' = DOMAIN history /\ Len(history') = Len(history)
      /\ history'[Len(history)] = q
      /\ \A r \in DOMAIN history : r # Len(history) => history'[r] = history[r]
  BY DEF SentRequest
<1>4. Replay!Now' = q /\ Replay!Now = history[Len(history)]
  BY <1>3 DEF Replay!Now
<1>5. ASSUME NEW r \in DOMAIN history
      PROVE  /\ history'[r].telegram = history[r].telegram /\ history'[r].answer = history[r].answer
             /\ (history[r].sent => history'[r].sent)
             /\ history[r].answer # Replay!None => r # Len(history) /\ history'[r] = history[r]
             /\ r # Len(history) => history'[r] = history[r]
  BY <1>1, <1>3, <1>4
<1> QED
  BY <1>1, <1>2, <1>3, <1>4, <1>5

(* A granted attempt keeps the types and the control state.                *)
LEMMA SendTypes ==
  ASSUME ReplayInv, SentControl, NEW q, SentRequest(q), NEW i, Sends(trace', i)
  PROVE  ReplayTypes' /\ BusyInv'
<1>1. ReplayTypes /\ BusyInv /\ Busy
  BY ReplayParts DEF SentControl
<1>2. /\ Replay!Now' = q /\ q.sent /\ q.answer = Replay!None
      /\ Len(history) \in DOMAIN history /\ Len(history') = Len(history)
      /\ DOMAIN history' = DOMAIN history /\ history' \in Seq(RequestRecords)
      /\ history'[Len(history)] = q
      /\ \A r \in DOMAIN history : r # Len(history) => history'[r] = history[r]
  BY <1>1, SentHistory DEF SentRequest
<1>3. Readable(trace') /\ ~ trace'.recovering
  BY DEF Sends
<1>4. ReplayTypes'
  <2>1. Readable(trace)' <=> Readable(trace')
    BY ReadableNext
  <2> QED
    BY <1>1, <1>2, <1>3, <2>1, Zenon DEF ReplayTypes, SentControl
<1>5. q.early <= q.attempts
  <2>1. Replay!Now.early <= Replay!Now.attempts /\ Replay!Now \in RequestRecords
    BY <1>1, NowFacts
  <2>2. PICK a \in Nat : a = Replay!Now.attempts
    BY <2>1 DEF RequestRecords
  <2>3. PICK b \in Nat : b = Replay!Now.early
    BY <2>1 DEF RequestRecords
  <2>4. q.attempts = a + 1 /\ q.early = b
    BY <2>2, <2>3 DEF SentRequest
  <2> QED
    BY <2>1, <2>2, <2>3, <2>4
<1>6. BusyInv'
  <2>1. \A r \in DOMAIN history' :
          /\ history'[r].early <= history'[r].attempts
          /\ ~ history'[r].sent => history'[r].early = history'[r].attempts
    BY <1>1, <1>2, <1>5 DEF BusyInv
  <2>2. seq' >= 1
    BY <1>1 DEF BusyInv, SentControl
  <2> QED
    BY <1>2, <1>3, <2>1, <2>2 DEF BusyInv, SentControl
<1> QED
  BY <1>4, <1>6

(* It keeps every exchange's source: what it appends or joins is the       *)
(* telegram of the request under way.                                      *)
LEMMA SendSource ==
  ASSUME ReplayInv, SentControl, NEW q, SentRequest(q), NEW i, Sends(trace', i)
  PROVE  SourceInv'
<1> DEFINE E == trace.exchanges
           F == trace'.exchanges
           k == Len(history)
<1>1. SourceInv /\ Busy
  BY ReplayParts DEF SentControl
<1>2. /\ k \in DOMAIN history /\ k # 0 /\ DOMAIN history' = DOMAIN history /\ Len(history') = k
      /\ \A r \in DOMAIN history :
           /\ history'[r].telegram = history[r].telegram /\ history'[r].answer = history[r].answer
           /\ (history[r].sent => history'[r].sent)
  BY <1>1, SentHistory
<1>3. history'[k].sent /\ history[k].telegram = Replay!Now.telegram
  BY DEF SentRequest, Replay!Now
<1>4. /\ DOMAIN F = DOMAIN E \cup {i} /\ trace'.active = i
      /\ F[i].seq = seq + trace'.offset /\ F[i].telegram = Replay!Now.telegram
      /\ F[i].response = Replay!None
      /\ i \in DOMAIN E =>
           /\ E[i].response = Replay!None /\ E[i].telegram = Replay!Now.telegram
           /\ F[i].answers = E[i].answers /\ F[i].of = E[i].of \cup {k}
      /\ i \notin DOMAIN E => F[i].answers = 0 /\ F[i].of = {k}
      /\ \A j \in DOMAIN E : j # i =>
           /\ F[j].telegram = E[j].telegram /\ F[j].response = E[j].response
           /\ F[j].answers = E[j].answers /\ F[j].of = E[j].of
      /\ \A j \in DOMAIN F : F[j].seq = seq + trace'.offset => j <= i
  BY DEF Sends, SameExchange
<1>5. /\ \A j \in DOMAIN E : \A r \in E[j].of :
           r \in DOMAIN history /\ history[r].sent /\ history[r].telegram = E[j].telegram
      /\ \A j \in DOMAIN E :
           /\ E[j].response # Replay!None <=> E[j].answers # 0
           /\ E[j].answers # 0 => E[j].answers \in E[j].of
                                  /\ history[E[j].answers].answer = E[j].response
      /\ \A r \in DOMAIN history : history[r].answer # Replay!None =>
           \E j \in DOMAIN E : E[j].answers = r
  BY <1>1 DEF SourceInv
<1>6. Number' = seq + trace'.offset /\ doing' = "sent"
  BY DEF Number, SentControl
<1> HIDE DEF E, F, k
<1>7. ASSUME NEW j \in DOMAIN F, NEW r \in F[j].of
      PROVE  r \in DOMAIN history' /\ history'[r].sent /\ history'[r].telegram = F[j].telegram
  <2>1. CASE j = i /\ r = k
    BY <1>2, <1>3, <1>4, <2>1
  <2>2. CASE j = i /\ r # k
    <3>1. i \in DOMAIN E /\ r \in E[i].of /\ E[i].telegram = F[i].telegram
      BY <1>4, <1>7, <2>2
    <3> QED
      BY <1>2, <1>5, <2>2, <3>1
  <2>3. CASE j # i
    <3>1. j \in DOMAIN E /\ r \in E[j].of /\ F[j].telegram = E[j].telegram
      BY <1>4, <1>7, <2>3
    <3> QED
      BY <1>2, <1>5, <3>1
  <2> QED
    BY <2>1, <2>2, <2>3
<1>8. ASSUME NEW j \in DOMAIN F
      PROVE  /\ F[j].response # Replay!None <=> F[j].answers # 0
             /\ F[j].answers # 0 => F[j].answers \in F[j].of
                                    /\ history'[F[j].answers].answer = F[j].response
  <2>1. CASE j = i
    <3>1. F[i].answers = 0
      BY <1>4, <1>5
    <3> QED
      BY <1>4, <2>1, <3>1
  <2>2. CASE j # i
    <3>1. /\ j \in DOMAIN E /\ F[j].response = E[j].response /\ F[j].answers = E[j].answers
          /\ F[j].of = E[j].of
      BY <1>4, <2>2
    <3> QED
      BY <1>2, <1>5, <3>1
  <2> QED
    BY <2>1, <2>2
<1>9. ASSUME NEW r \in DOMAIN history', history'[r].answer # Replay!None
      PROVE  \E j \in DOMAIN F : F[j].answers = r
  <2>1. PICK j \in DOMAIN E : E[j].answers = r
    BY <1>2, <1>5, <1>9
  <2>2. F[j].answers = E[j].answers /\ j \in DOMAIN F
    BY <1>4, <2>1
  <2> QED
    BY <2>1, <2>2
<1>10. /\ trace'.active \in DOMAIN F /\ F[trace'.active].seq = Number'
       /\ \A j \in Replay!Numbered(trace', Number') : j <= trace'.active
       /\ F[trace'.active].response = Replay!None /\ Len(history') \in F[trace'.active].of
  <2>1. \A j \in Replay!Numbered(trace', Number') : j \in DOMAIN F /\ F[j].seq = Number'
    BY DEF Replay!Numbered, F
  <2> QED
    BY <1>2, <1>4, <1>6, <2>1
<1>11. Replay!Numbered(trace, Number)' = Replay!Numbered(trace', Number')
  BY DEF Replay!Numbered
<1> QED
  BY <1>7, <1>8, <1>9, <1>10, <1>11 DEF SourceInv, F

(* It keeps the numbers apart and the active exchange that of the request. *)
LEMMA SendNumbers ==
  ASSUME ReplayInv, SentControl, NEW q, SentRequest(q), NEW i, Sends(trace', i),
         ~ confused => Apart(trace', i)
  PROVE  NumbersInv' /\ RequestInv'
<1> SUFFICES ASSUME ~ confused' PROVE NumbersInv' /\ RequestInv'
  BY DEF NumbersInv, RequestInv
<1> DEFINE E == trace.exchanges
           F == trace'.exchanges
           k == Len(history)
<1>1. /\ ~ confused /\ Busy /\ Apart(trace', i)
      /\ silent' = FALSE /\ seq' = seq
  BY DEF SentControl
<1>2. NumbersInv /\ Readable(trace) /\ ReplayTypes
  BY ReplayParts
<1>3. /\ k \in DOMAIN history /\ DOMAIN history' = DOMAIN history /\ Len(history') = k
      /\ Replay!Now'.sent
  BY <1>1, SentHistory DEF SentRequest
<1>4. /\ DOMAIN F = DOMAIN E \cup {i} /\ trace'.active = i /\ trace'.prev = seq
      /\ F[i].seq = seq + trace'.offset /\ F[i].response = Replay!None
      /\ i \in DOMAIN E => F[i].of = E[i].of \cup {k}
      /\ i \notin DOMAIN E => F[i].of = {k}
      /\ \A j \in DOMAIN E : j # i => F[j].seq = E[j].seq /\ F[j].of = E[j].of
  BY DEF Sends, SameExchange
<1>5. /\ \A j \in DOMAIN E : \E r \in DOMAIN history : E[j].of = {r}
      /\ \A j \in DOMAIN E : E[j].seq <= trace.offset + trace.prev
      /\ \A l, j \in DOMAIN E : E[l].seq = E[j].seq => l = j
  BY <1>1, <1>2 DEF NumbersInv
<1>6. PICK o \in Nat : o = trace'.offset
  BY DEF Sends, Readable, TraceRecords
<1>7. PICK s \in Nat : s = seq
  BY <1>2 DEF ReplayTypes
<1>8. /\ \A j \in DOMAIN E : E[j].seq \in Nat
      /\ i \notin DOMAIN E => \A j \in DOMAIN E : E[j].seq < s + o
      /\ i \in DOMAIN E =>
           /\ E[i].of = {k} /\ E[i].seq = s + o
           /\ \A j \in DOMAIN E : E[j].seq <= s + o
  <2>1. \A j \in DOMAIN E : E[j].seq \in Nat
    BY <1>2, ListFacts DEF ExchangeRecords
  <2>2. i \notin DOMAIN E => \A j \in DOMAIN E : E[j].seq < s + o
    BY <1>1, <1>6, <1>7 DEF Apart
  <2>3. ASSUME i \in DOMAIN E
        PROVE  E[i].of = {k} /\ E[i].seq = s + o /\ \A j \in DOMAIN E : E[j].seq <= s + o
    <3>1. Replay!Now.sent /\ i = trace.active /\ trace'.offset = trace.offset
      BY <1>1, <2>3 DEF Apart
    <3>2. seq = trace.prev /\ E[i].of = {k} /\ E[i].seq = Number
      BY <1>1, <3>1, RequestKnown DEF Alone
    <3>3. trace.offset + trace.prev = s + o /\ Number = s + o
      BY <1>6, <1>7, <3>1, <3>2 DEF Number
    <3> QED
      BY <1>5, <3>2, <3>3
  <2> QED
    BY <2>1, <2>2, <2>3
<1>9. F[i].of = {k} /\ F[i].seq = s + o
  BY <1>4, <1>6, <1>7, <1>8
<1> HIDE DEF E, F, k
<1>10. \A j \in DOMAIN F : \E r \in DOMAIN history' : F[j].of = {r}
  BY <1>3, <1>4, <1>5, <1>9
<1>11. \A j \in DOMAIN F : F[j].seq <= trace'.offset + trace'.prev
  <2>1. ASSUME NEW j \in DOMAIN F PROVE F[j].seq <= o + s
    <3>1. CASE j = i
      BY <1>9, <3>1
    <3>2. CASE j # i
      <4>1. j \in DOMAIN E /\ F[j].seq = E[j].seq
        BY <1>4, <3>2
      <4>2. PICK x \in Nat : x = E[j].seq
        BY <1>8, <4>1
      <4>3. x <= s + o
        BY <1>8, <4>1, <4>2
      <4> QED
        BY <4>1, <4>2, <4>3
    <3> QED
      BY <3>1, <3>2
  <2> QED
    BY <1>4, <1>6, <1>7, <2>1
<1>12. ASSUME NEW l \in DOMAIN F, NEW j \in DOMAIN F, F[l].seq = F[j].seq PROVE l = j
  <2>1. \A h \in DOMAIN E : h # i => E[h].seq # s + o
    <3>1. CASE i \in DOMAIN E
      BY <1>5, <1>8, <3>1
    <3>2. CASE i \notin DOMAIN E
      BY <1>8, <3>2
    <3> QED
      BY <3>1, <3>2
  <2>2. CASE l # i /\ j # i
    BY <1>4, <1>5, <1>12, <2>2
  <2>3. CASE l = i \/ j = i
    BY <1>4, <1>9, <1>12, <2>1, <2>3
  <2> QED
    BY <2>2, <2>3
<1>13. NumbersInv'
  <2>1. seq' >= trace'.prev
    BY <1>1, <1>4, <1>7
  <2> QED
    BY <1>1, <1>3, <1>10, <1>11, <1>12, <2>1 DEF NumbersInv, F
<1>14. RequestInv'
  BY <1>1, <1>3, <1>4, <1>9, <1>6, <1>7 DEF RequestInv, F, k, Number
<1> QED
  BY <1>13, <1>14

(* It keeps the counts.                                                    *)
LEMMA SendCounts ==
  ASSUME ReplayInv, SentControl, NEW q, SentRequest(q), NEW i, Sends(trace', i),
         ~ confused => Apart(trace', i)
  PROVE  CountInv'
<1> SUFFICES ASSUME ~ confused' PROVE CountInv'
  BY DEF CountInv
<1>1. ~ confused /\ Busy /\ Apart(trace', i) /\ doing' = "sent"
  BY DEF SentControl
<1>2. CountInv /\ SourceInv /\ ReplayTypes
  BY ReplayParts
<1>3. /\ Replay!Now' = q
      /\ \A r \in DOMAIN history : history[r].answer # Replay!None => history'[r] = history[r]
  BY <1>1, SentHistory
<1>4. PICK p : p = Replay!Now
  OBVIOUS
<1>5. /\ p \in RequestRecords /\ (~ p.sent => p.early = p.attempts)
      /\ (q.unmarked <=> p.unmarked \/ (p.sent /\ ~ open))
      /\ q.attempts = p.attempts + 1 /\ q.early = p.early
  BY <1>1, <1>4, NowFacts DEF SentRequest
<1>6. ASSUME ~ q.unmarked
      PROVE  Between(trace'.exchanges[i].attempts, q)
  <2>1. CASE ~ p.sent
    <3>1. trace'.exchanges[i].attempts = 1
      BY <1>1, <1>4, <2>1 DEF Apart
    <3>2. PICK a \in Nat : a = p.attempts
      BY <1>5 DEF RequestRecords
    <3>3. q.attempts = a + 1 /\ q.early = a
      BY <1>5, <2>1, <3>2
    <3> QED
      BY <3>1, <3>2, <3>3 DEF Between
  <2>2. CASE p.sent
    <3>2. open /\ traced
      BY <1>2, <1>5, <1>6, <2>2 DEF ReplayTypes
    <3>1. ~ trace.init /\ Between(trace.exchanges[trace.active].attempts, p)
      BY <1>1, <1>4, <1>5, <1>6, <2>2, <3>2, RequestCounts
    <3>3. /\ i = trace.active /\ i \in DOMAIN trace.exchanges
          /\ trace'.exchanges[i].attempts = trace.exchanges[i].attempts + 1
      BY <1>1, <1>4, <2>2, <3>1, <3>2 DEF Apart
    <3>4. PICK a \in Nat : a = trace.exchanges[i].attempts
      BY <3>3, CountIsNat
    <3>5. Between(a + 1, q)
      BY <1>1, <1>4, <1>5, <3>1, <3>3, <3>4, BetweenMore
    <3> QED
      BY <3>3, <3>4, <3>5
  <2> QED
    BY <2>1, <2>2
<1>7. ASSUME NEW j \in DOMAIN trace'.exchanges, trace'.exchanges[j].response # Replay!None,
             ~ history'[trace'.exchanges[j].answers].unmarked
      PROVE  Between(trace'.exchanges[j].attempts, history'[trace'.exchanges[j].answers])
  <2>1. j # i
    BY <1>7 DEF Sends
  <2>2. /\ j \in DOMAIN trace.exchanges /\ trace.exchanges[j].response # Replay!None
        /\ trace'.exchanges[j].answers = trace.exchanges[j].answers
        /\ trace'.exchanges[j].attempts = trace.exchanges[j].attempts
    BY <1>7, <2>1 DEF Sends, SameExchange
  <2>3. PICK r : r = trace.exchanges[j].answers
    OBVIOUS
  <2>4. r \in DOMAIN history /\ history[r].answer # Replay!None
    BY <1>2, <2>2, <2>3 DEF SourceInv
  <2>5. history'[r] = history[r]
    BY <1>3, <2>4
  <2>6. Between(trace.exchanges[j].attempts, history[r])
    BY <1>1, <1>2, <1>7, <2>2, <2>3, <2>5 DEF CountInv
  <2> QED
    BY <2>2, <2>3, <2>5, <2>6
<1>8. ~ trace'.init /\ trace'.active = i
  BY DEF Sends
<1> QED
  BY <1>1, <1>3, <1>6, <1>7, <1>8 DEF CountInv, Between

(* It keeps an exchange for every request sent.                            *)
LEMMA SendEach ==
  ASSUME ReplayInv, SentControl, NEW q, SentRequest(q), NEW i, Sends(trace', i),
         ~ confused => Apart(trace', i)
  PROVE  EachInv'
<1> DEFINE E == trace.exchanges
           F == trace'.exchanges
           k == Len(history)
<1> SUFFICES ASSUME ~ confused', NEW r \in DOMAIN history', history'[r].sent,
                    ~ history'[r].unmarked
             PROVE  \E l \in DOMAIN F : \A j \in DOMAIN F : r \in F[j].of <=> j = l
  BY DEF EachInv
<1>1. ~ confused /\ Busy /\ Apart(trace', i)
  BY DEF SentControl
<1>2. EachInv /\ SourceInv /\ ReplayTypes
  BY ReplayParts
<1>3. /\ k \in DOMAIN history /\ DOMAIN history' = DOMAIN history /\ history'[k] = q
      /\ \A v \in DOMAIN history : v # k => history'[v] = history[v]
  BY <1>1, SentHistory
<1>4. /\ DOMAIN F = DOMAIN E \cup {i}
      /\ i \in DOMAIN E => F[i].of = E[i].of \cup {k}
      /\ i \notin DOMAIN E => F[i].of = {k}
      /\ \A j \in DOMAIN E : j # i => F[j].of = E[j].of
  BY DEF Sends, SameExchange
<1>5. \A v \in DOMAIN history : history[v].sent /\ ~ history[v].unmarked =>
        \E l \in DOMAIN E : \A j \in DOMAIN E : v \in E[j].of <=> j = l
  BY <1>1, <1>2 DEF EachInv
<1>6. \A j \in DOMAIN E : \A v \in E[j].of : v \in DOMAIN history /\ history[v].sent
  BY <1>2 DEF SourceInv
<1>7. history[k] = Replay!Now
  BY DEF Replay!Now
<1>8. /\ (q.unmarked <=> Replay!Now.unmarked \/ (Replay!Now.sent /\ ~ open))
  BY DEF SentRequest
<1>9. CASE r # k
  <2>1. history[r].sent /\ ~ history[r].unmarked /\ r \in DOMAIN history
    BY <1>3, <1>9
  <2>2. PICK l \in DOMAIN E : \A j \in DOMAIN E : r \in E[j].of <=> j = l
    BY <1>5, <2>1
  <2>3. \A j \in DOMAIN E : r \in F[j].of <=> r \in E[j].of
    BY <1>4, <1>9
  <2>4. i \notin DOMAIN E => r \notin F[i].of
    BY <1>4, <1>9
  <2> HIDE DEF E, F, k
  <2>5. \A j \in DOMAIN F : r \in F[j].of <=> j = l
    BY <1>4, <2>2, <2>3, <2>4
  <2> QED
    BY <1>4, <2>5
<1>10. CASE r = k /\ i \notin DOMAIN E
  <2>1. ~ Replay!Now.unmarked
    BY <1>3, <1>8, <1>10
  <2>2. ~ Replay!Now.sent
    <3> SUFFICES ASSUME Replay!Now.sent PROVE FALSE
      OBVIOUS
    <3>1. trace.init => ~ traced
      BY <1>1, <2>1, RequestCounts
    <3>2. ~ open
      BY <1>1, <1>2, <1>10, <3>1 DEF Apart, ReplayTypes
    <3> QED
      BY <1>3, <1>8, <1>10, <3>2
  <2>3. \A j \in DOMAIN E : k \notin E[j].of
    BY <1>6, <1>7, <2>2
  <2> HIDE DEF E, F, k
  <2>4. \A j \in DOMAIN F : r \in F[j].of <=> j = i
    BY <1>4, <1>10, <2>3
  <2> QED
    BY <1>4, <2>4
<1>11. CASE r = k /\ i \in DOMAIN E
  <2>1. Replay!Now.sent /\ i = trace.active
    BY <1>1, <1>11 DEF Apart
  <2>2. E[i].of = {k}
    BY <1>1, <2>1, RequestKnown
  <2>3. ~ Replay!Now.unmarked
    BY <1>3, <1>8, <1>11
  <2>4. PICK l \in DOMAIN E : \A j \in DOMAIN E : k \in E[j].of <=> j = l
    BY <1>3, <1>5, <1>7, <2>1, <2>3
  <2> HIDE DEF E, F, k
  <2>5. l = i
    BY <1>11, <2>2, <2>4
  <2>6. \A j \in DOMAIN F : r \in F[j].of <=> j = i
    BY <1>4, <1>11, <2>4, <2>5
  <2> QED
    BY <1>4, <2>6
<1> QED
  BY <1>9, <1>10, <1>11

(* Together: a granted attempt keeps the invariant (SEND_PROTO).           *)
LEMMA GrantedKeeps ==
  ASSUME ReplayInv, Granted
  PROVE  ReplayInv'
<1>1. SentControl
  BY DEF Granted, SentControl, Busy
<1>2. PICK q : SentRequest(q)
  BY GrantedRequest
<1>3. PICK line, w : /\ LineOf(line, "SEND_PROTO") /\ SentAfter(w)
                     /\ trace' = Replay!ReadLine(w, line)
  BY GrantedRead
<1>4. PICK i : Sends(trace', i) /\ (~ confused => Apart(trace', i))
  BY <1>1, <1>3, SentSends DEF SentControl
<1>5. ReplayTypes' /\ BusyInv' /\ SourceInv'
  BY <1>1, <1>2, <1>4, SendTypes, SendSource
<1>6. NumbersInv' /\ RequestInv' /\ CountInv' /\ EachInv'
  BY <1>1, <1>2, <1>4, SendNumbers, SendCounts, SendEach
<1> QED
  BY <1>5, <1>6 DEF ReplayInv

-----------------------------------------------------------------------------
(* Every step of the replay keeps the invariant.                           *)
LEMMA ReplayRest == ReplayInv /\ UNCHANGED onlyReplay => ReplayInv'
<1> SUFFICES ASSUME ReplayInv, UNCHANGED onlyReplay PROVE ReplayInv'
  OBVIOUS
<1>1. /\ seq' = seq /\ open' = open /\ doing' = doing /\ history' = history
      /\ traced' = traced /\ silent' = silent /\ confused' = confused /\ trace' = trace
  BY DEF onlyReplay
<1>2. /\ ReplayTypes /\ BusyInv /\ SourceInv /\ NumbersInv /\ RequestInv /\ CountInv
      /\ EachInv /\ Readable(trace)
  BY ReplayParts
<1>3. (Busy' <=> Busy) /\ Number' = Number /\ Replay!Now' = Replay!Now
      /\ (Readable(trace)' <=> Readable(trace'))
      /\ Replay!Numbered(trace, Number)' = Replay!Numbered(trace, Number)
  BY <1>1, ReadableNext DEF Busy, Number, Replay!Now, Replay!Numbered
<1>4. ReplayTypes'
  BY <1>1, <1>2, <1>3 DEF ReplayTypes
<1>5. BusyInv'
  BY <1>1, <1>2, <1>3 DEF BusyInv
<1>6. SourceInv'
  BY <1>1, <1>2, <1>3 DEF SourceInv
<1>7. NumbersInv'
  BY <1>1, <1>2, <1>3 DEF NumbersInv
<1>8. RequestInv'
  BY <1>1, <1>2, <1>3 DEF RequestInv
<1>9. CountInv'
  BY <1>1, <1>2, <1>3 DEF CountInv, Between
<1>10. EachInv'
  BY <1>1, <1>2 DEF EachInv
<1> QED
  BY <1>4, <1>5, <1>6, <1>7, <1>8, <1>9, <1>10 DEF ReplayInv

(* The action of a telegram that goes out.                                 *)
LEMMA GrantedIs == Replay!Granted => Granted
<1> SUFFICES ASSUME Replay!Granted PROVE Granted
  OBVIOUS
<1>1. /\ doing = "begin" /\ Replay!Now.attempts < MaxAttempts /\ seq' = seq
      /\ doing' = "sent" /\ open' = TRUE /\ traced' = TRUE /\ silent' = FALSE
      /\ confused' = confused
  BY DEF Replay!Granted, Replay!Begin, Replay!Opened
<1>2. ChangedNow(GrantedNow)
  BY DEF Replay!Granted, Replay!Update, ChangedNow, GrantedNow, Replay!Now
<1>3. trace' = AllRead(trace, Replay!Starting \o Replay!Opening \o <<Replay!Line("SEND_PROTO")>>)
  BY DEF Replay!Granted, Replay!Write, AllRead
<1> QED
  BY <1>1, <1>2, <1>3 DEF Granted

(* Every action of the transport and of the reader keeps the invariant.    *)
LEMMA ReplayStep == ReplayInv /\ Replay!Next => ReplayInv'
<1> SUFFICES ASSUME ReplayInv, Replay!Next PROVE ReplayInv'
  OBVIOUS
<1>1. CASE Replay!Session
  BY <1>1, SessionIsQuiet, QuietKeeps
<1>2. CASE Replay!Ends
  BY <1>2, EndsKeeps
<1>3. CASE Replay!Request
  BY <1>3, RequestKeeps
<1>4. CASE Replay!Granted
  BY <1>4, GrantedIs, GrantedKeeps
<1>11. CASE Replay!Lost
  BY <1>11, LostIsQuiet, QuietKeeps
<1>12. CASE Replay!Dropped
  BY <1>12, DroppedIsQuiet, QuietKeeps
<1>13. CASE Replay!Refused
  BY <1>13, RefusedIsQuiet, QuietKeeps
<1>5. CASE Replay!Answered
  BY <1>5, AnsweredKeeps
<1>6. CASE Replay!Nacked
  BY <1>6, NackedIsQuiet, QuietKeeps
<1>7. CASE Replay!Retried
  BY <1>7, RetriedIsQuiet, QuietKeeps
<1>8. CASE Replay!Recover
  BY <1>8, RecoverIsQuiet, QuietKeeps
<1>9. CASE Replay!Reconnect
  BY <1>9, ReconnectIsQuiet, QuietKeeps
<1>10. CASE Replay!Failed
  BY <1>10, FailedIsQuiet, QuietKeeps
<1> QED
  BY <1>1, <1>2, <1>3, <1>4, <1>5, <1>6, <1>7, <1>8, <1>9, <1>10, <1>11, <1>12, <1>13
     DEF Replay!Next

-----------------------------------------------------------------------------
(* The artifact: the best evidence of the exchanges of the register.       *)
BestStep(s, T, h) == IF T = {} THEN Replay!None ELSE Better(h[T \ {TopOf(T)}], s[TopOf(T)])
BestFold(s) == CHOOSE h : h = [T \in SUBSET DOMAIN s |-> BestStep(s, T, h)]

(* What the artifact stores is the fold of the exchanges by rank.          *)
LEMMA StoredIsFold == Replay!Stored = BestFold(trace.exchanges)[DOMAIN trace.exchanges]
BY Zenon DEF Replay!Stored, Replay!FoldLeft, Replay!MapThenFoldSet, BestFold, BestStep, Better,
             TopOf, Replay!Max

(* It goes through the exchanges one by one.                               *)
LEMMA StoredGoesThrough ==
  ASSUME NEW m \in Nat, DOMAIN trace.exchanges = 1..m
  PROVE  Through("best", Replay!None, trace.exchanges, m, Replay!Stored)
<1> DEFINE s == trace.exchanges
           t == Replay!None
           g == BestFold(s)
<1>1. ASSUME NEW f, NEW T
      PROVE  ListStep("best", t, s, T, f) = BestStep(s, T, f)
  BY DEF ListStep, BestStep, Taken
<1>2. ASSUME NEW f
      PROVE  [T \in SUBSET (1..m) |-> ListStep("best", t, s, T, f)]
             = [T \in SUBSET (1..m) |-> BestStep(s, T, f)]
  BY <1>1
<1>3. \E f : f = [T \in SUBSET DOMAIN s |-> BestStep(s, T, f)]
  <2>1. PICK f : IsFold("best", t, s, m, f)
    BY FoldExists, Zenon
  <2>2. f = [T \in SUBSET (1..m) |-> ListStep("best", t, s, T, f)]
    BY <2>1 DEF IsFold
  <2>3. f = [T \in SUBSET (1..m) |-> BestStep(s, T, f)]
    BY <1>2, <2>2, Zenon
  <2> QED
    BY <2>3
<1>4. g = [T \in SUBSET DOMAIN s |-> BestStep(s, T, g)]
  BY <1>3, Zenon DEF BestFold
<1>5. Replay!Stored = g[1..m]
  BY StoredIsFold
<1> HIDE DEF g
<1>6. IsFold("best", t, s, m, g)
  <2>1. g = [T \in SUBSET (1..m) |-> BestStep(s, T, g)]
    BY <1>4
  <2> QED
    BY <1>2, <2>1, Zenon DEF IsFold
<1>7. Through("best", t, s, m, g[1..m])
  BY <1>6, FoldGoesThrough
<1> QED
  BY <1>5, <1>7, Zenon

(* v is the best of the first k exchanges.                                 *)
Unheard == {Replay!None, "timeout", "transport_error"}
Heard(i) == Replay!OfRegister(trace.exchanges[i]) /\ trace.exchanges[i].response # Replay!None
BestOf(k, v) ==
  \/ v \in Unheard /\ \A i \in 1..k : ~ Heard(i)
  \/ /\ v \in Replay!Answers
     /\ \E i \in 1..k : Heard(i) /\ trace.exchanges[i].response = v
     /\ \A i \in 1..k : Heard(i) => Replay!Rank[trace.exchanges[i].response] <= Replay!Rank[v]

(* Only an active reply has the highest rank.                              *)
LEMMA RankFacts ==
  /\ \A a \in Replay!Answers : Replay!Rank[a] \in 1..3
  /\ Replay!Rank["active"] = 3 /\ Replay!Rank["transport_error"] = 0 /\ Replay!Rank["timeout"] = 0
  /\ \A a \in Replay!Answers : Replay!Rank[a] = 3 => a = "active"
BY DEF Replay!Rank, Replay!Answers

(* Taking one more exchange keeps the best of those taken.                 *)
LEMMA BetterIsBest ==
  ASSUME ReplayInv, NEW k \in Nat, k + 1 \in DOMAIN trace.exchanges, NEW v, BestOf(k, v),
         NEW u, u = Better(v, trace.exchanges[k + 1])
  PROVE  BestOf(k + 1, u)
<1>1. PICK e : e = trace.exchanges[k + 1]
  OBVIOUS
<1>2. e.response \in Outcomes /\ e.cause \in {Replay!None, "timeout", "other"}
  <2>1. Readable(trace)
    BY ReplayParts
  <2>2. e \in ExchangeRecords
    BY <1>1, <2>1, ListFacts
  <2> QED
    BY <2>2 DEF ExchangeRecords
<1>3. 1..(k + 1) = 1..k \cup {k + 1}
  OBVIOUS
<1>4. CASE ~ Replay!OfRegister(e)
  <2>1. u = v
    BY <1>1, <1>4 DEF Better
  <2>2. ~ Heard(k + 1)
    BY <1>1, <1>4 DEF Heard
  <2> QED
    BY <1>3, <2>1, <2>2 DEF BestOf
<1>5. CASE Replay!OfRegister(e) /\ e.response = Replay!None
  <2>1. PICK w : w = Replay!State(e)
    OBVIOUS
  <2>2. w \in {"timeout", "transport_error"}
    BY <1>5, <2>1 DEF Replay!State
  <2>3. ~ Heard(k + 1)
    BY <1>1, <1>5 DEF Heard
  <2>4. u = IF Replay!Supersedes(w, v) THEN w ELSE v
    BY <1>1, <1>5, <2>1 DEF Better
  <2>5. CASE v \in Unheard
    <3>1. u \in Unheard
      BY <2>2, <2>4, <2>5 DEF Unheard
    <3>2. v \notin Replay!Answers
      BY <2>5 DEF Unheard, Replay!Answers, Replay!None
    <3> QED
      BY <1>3, <2>3, <3>1, <3>2 DEF BestOf
  <2>6. CASE v \in Replay!Answers
    <3>1. ~ Replay!Supersedes(w, v)
      <4>1. w # "active" /\ v \notin {Replay!None, "timeout"} /\ v # "transport_error"
        BY <2>2, <2>6 DEF Replay!Answers, Replay!None
      <4>2. Replay!Rank[w] = 0 /\ Replay!Rank[v] \in 1..3
        BY <2>2, <2>6, RankFacts
      <4> QED
        BY <4>1, <4>2 DEF Replay!Supersedes
    <3>2. u = v /\ v \notin Unheard
      BY <2>4, <2>6, <3>1 DEF Unheard, Replay!Answers, Replay!None
    <3> QED
      BY <1>3, <2>3, <3>2 DEF BestOf
  <2> QED
    BY <2>5, <2>6 DEF BestOf
<1>6. CASE Replay!OfRegister(e) /\ e.response # Replay!None
  <2>1. PICK w : w = e.response
    OBVIOUS
  <2>2. w \in Replay!Answers /\ w = Replay!State(e)
    BY <1>2, <1>6, <2>1 DEF Replay!State, Outcomes
  <2>3. Heard(k + 1) /\ trace.exchanges[k + 1].response = w
    BY <1>1, <1>6, <2>1 DEF Heard
  <2>4. u = IF Replay!Supersedes(w, v) THEN w ELSE v
    BY <1>1, <1>6, <2>2 DEF Better
  <2>5. CASE v \in Unheard
    <3>1. Replay!Supersedes(w, v)
      <4>1. w \in {"active", "status_only", "empty_reply"}
        BY <2>2 DEF Replay!Answers
      <4> QED
        BY <2>5, <4>1 DEF Replay!Supersedes, Unheard
    <3>2. u = w
      BY <2>4, <3>1
    <3>3. \A i \in 1..k : ~ Heard(i)
      <4>1. v \notin Replay!Answers
        BY <2>5 DEF Unheard, Replay!Answers, Replay!None
      <4> QED
        BY <4>1 DEF BestOf
    <3>4. Replay!Rank[w] <= Replay!Rank[w]
      BY <2>2, RankFacts
    <3>5. \E i \in 1..(k + 1) : Heard(i) /\ trace.exchanges[i].response = u
      BY <1>3, <2>3, <3>2
    <3>6. \A i \in 1..(k + 1) : Heard(i) =>
            Replay!Rank[trace.exchanges[i].response] <= Replay!Rank[u]
      BY <1>3, <2>3, <3>2, <3>3, <3>4
    <3> QED
      BY <2>2, <3>2, <3>5, <3>6 DEF BestOf
  <2>6. CASE v \in Replay!Answers
    <3>1. /\ \E i \in 1..k : Heard(i) /\ trace.exchanges[i].response = v
          /\ \A i \in 1..k : Heard(i) =>
               Replay!Rank[trace.exchanges[i].response] <= Replay!Rank[v]
      <4>1. v \notin Unheard
        BY <2>6 DEF Unheard, Replay!Answers, Replay!None
      <4> QED
        BY <4>1 DEF BestOf
    <3>2. ASSUME NEW i \in 1..k, Heard(i) PROVE trace.exchanges[i].response \in Replay!Answers
      <4>1. Readable(trace)
        BY ReplayParts
      <4>2. i \in DOMAIN trace.exchanges
        <5>1. PICK m \in Nat : DOMAIN trace.exchanges = 1..m
          BY <4>1, ListFacts
        <5> QED
          BY <5>1
      <4>3. trace.exchanges[i].response \in Outcomes
        BY <4>1, <4>2, ListFacts DEF ExchangeRecords
      <4> QED
        BY <3>2, <4>3 DEF Heard, Outcomes
    <3>3. \A i \in 1..k : Heard(i) => Replay!Rank[trace.exchanges[i].response] \in 1..3
      BY <3>2, RankFacts
    <3>4. Replay!Rank[v] \in 1..3 /\ Replay!Rank[w] \in 1..3
      BY <2>2, <2>6, RankFacts
    <3>5. CASE Replay!Supersedes(w, v)
      <4>1. Replay!Rank[w] >= Replay!Rank[v]
        <5>1. w = "active" \/ Replay!Rank[w] > Replay!Rank[v]
          BY <2>6, <3>5 DEF Replay!Supersedes, Replay!Answers, Replay!None
        <5> QED
          BY <3>4, <5>1, RankFacts
      <4>2. u = w
        BY <2>4, <3>5
      <4>3. \A i \in 1..(k + 1) : Heard(i) =>
              Replay!Rank[trace.exchanges[i].response] <= Replay!Rank[u]
        BY <1>3, <2>3, <3>1, <3>3, <3>4, <4>1, <4>2
      <4>4. \E i \in 1..(k + 1) : Heard(i) /\ trace.exchanges[i].response = u
        BY <1>3, <2>3, <4>2
      <4> QED
        BY <2>2, <4>2, <4>3, <4>4 DEF BestOf
    <3>6. CASE ~ Replay!Supersedes(w, v)
      <4>1. Replay!Rank[w] <= Replay!Rank[v]
        <5>1. ~ (Replay!Rank[w] > Replay!Rank[v])
          BY <2>6, <3>6 DEF Replay!Supersedes
        <5> QED
          BY <3>4, <5>1
      <4>2. u = v
        BY <2>4, <3>6
      <4>3. \A i \in 1..(k + 1) : Heard(i) =>
              Replay!Rank[trace.exchanges[i].response] <= Replay!Rank[u]
        BY <1>3, <2>3, <3>1, <4>1, <4>2
      <4>4. \E i \in 1..(k + 1) : Heard(i) /\ trace.exchanges[i].response = u
        BY <1>3, <3>1, <4>2
      <4> QED
        BY <2>6, <4>2, <4>3, <4>4 DEF BestOf
    <3> QED
      BY <3>5, <3>6
  <2> QED
    BY <2>5, <2>6 DEF BestOf
<1> QED
  BY <1>4, <1>5, <1>6

(* So what is stored is the best of all.                                   *)
LEMMA StoredIsBest ==
  ASSUME ReplayInv, NEW m \in Nat, DOMAIN trace.exchanges = 1..m
  PROVE  BestOf(m, Replay!Stored)
<1>1. PICK h : /\ h[0] = Replay!None
               /\ \A k \in 1..m : h[k] = Better(h[k - 1], trace.exchanges[k])
               /\ Replay!Stored = h[m]
  BY StoredGoesThrough DEF Through, Taken
<1> DEFINE P(k) == k <= m => BestOf(k, h[k])
           Wrong == {k \in Nat : ~ P(k)}
<1>2. P(0)
  BY <1>1 DEF BestOf, Unheard
<1>3. ASSUME NEW k \in Nat, P(k) PROVE P(k + 1)
  <2> SUFFICES ASSUME k + 1 <= m PROVE BestOf(k + 1, h[k + 1])
    OBVIOUS
  <2>1. k <= m /\ k + 1 \in 1..m /\ (k + 1) - 1 = k
    OBVIOUS
  <2>2. h[k + 1] = Better(h[k], trace.exchanges[k + 1])
    BY <1>1, <2>1
  <2>3. BestOf(k, h[k])
    BY <1>3, <2>1
  <2>4. k + 1 \in DOMAIN trace.exchanges
    BY <2>1
  <2> QED
    BY <2>2, <2>3, <2>4, BetterIsBest
<1>4. ASSUME Wrong # {} PROVE FALSE
  <2>1. PICK k \in Wrong : \A j \in Wrong : k <= j
    <3>1. Wrong \in SUBSET Nat
      OBVIOUS
    <3> HIDE DEF Wrong
    <3> QED
      BY <1>4, <3>1, LeastNumber
  <2>2. k \in Nat /\ ~ P(k)
    OBVIOUS
  <2> HIDE DEF P
  <2>3. k # 0
    BY <1>2, <2>2
  <2>4. k - 1 \in Nat /\ k = (k - 1) + 1
    BY <2>2, <2>3
  <2>5. P(k - 1)
    BY <2>1, <2>4
  <2> QED
    BY <1>3, <2>2, <2>4, <2>5
<1>5. P(m)
  BY <1>4
<1> QED
  BY <1>1, <1>5

-----------------------------------------------------------------------------
(* Only a register is answered with anything but a value.                  *)
ReplyInv ==
  \A r \in DOMAIN history :
    history[r].telegram = "register" \/ history[r].answer \in {Replay!None, "active"}

(* Every action keeps the answers received with their exchanges.           *)
LEMMA ReplyStep == ReplayInv /\ ReplyInv /\ Replay!Next => ReplyInv'
<1> SUFFICES ASSUME ReplayInv, ReplyInv, Replay!Next PROVE ReplyInv'
  OBVIOUS
<1>1. ASSUME QuietStep PROVE ReplyInv'
  <2>1. Amended(history, history')
    BY <1>1 DEF QuietStep, Quiet
  <2> QED
    BY <2>1 DEF ReplyInv, Amended
<1>2. CASE Replay!Ends
  <2>1. history' = history
    BY <1>2 DEF Replay!Ends
  <2> QED
    BY <2>1 DEF ReplyInv
<1>3. CASE Replay!Request
  <2>1. PICK q : history' = Append(history, q) /\ q.answer = Replay!None
    <3>1. PICK g \in Replay!Telegrams :
            history' = Append(history, [telegram |-> g, attempts |-> 0, early |-> 0, sent |-> FALSE,
                                        answer |-> Replay!None, failed |-> FALSE,
                                        unmarked |-> FALSE, reconnects |-> 0])
      BY <1>3, Zenon DEF Replay!Request
    <3> QED
      BY <3>1
  <2>2. PICK s \in Seq(RequestRecords) : s = history
    BY ReplayParts DEF ReplayTypes
  <2>3. ASSUME NEW r \in DOMAIN history'
        PROVE  history'[r].telegram = "register" \/ history'[r].answer \in {Replay!None, "active"}
    <3>1. CASE r \in DOMAIN s
      BY <2>1, <2>2, <3>1 DEF ReplyInv
    <3>2. CASE r \notin DOMAIN s
      <4>1. r = Len(s) + 1
        BY <2>1, <2>2, <2>3, <3>2
      <4> QED
        BY <2>1, <2>2, <4>1
    <3> QED
      BY <3>1, <3>2
  <2> QED
    BY <2>3 DEF ReplyInv
<1>4. CASE Replay!Granted
  <2>1. Granted
    BY <1>4, GrantedIs
  <2>2. Busy
    BY <2>1 DEF Granted, Busy
  <2>3. PICK q : SentRequest(q)
    BY <2>1, GrantedRequest
  <2>4. /\ DOMAIN history' = DOMAIN history
        /\ \A r \in DOMAIN history : history'[r].telegram = history[r].telegram
                                     /\ history'[r].answer = history[r].answer
    BY <2>2, <2>3, SentHistory
  <2> QED
    BY <2>4 DEF ReplyInv
<1>5. CASE Replay!Answered
  <2>1. Busy
    BY <1>5 DEF Replay!Answered, Busy
  <2>2. PICK p : p = Replay!Now
    OBVIOUS
  <2>3. /\ Len(history) \in DOMAIN history /\ p \in RequestRecords /\ p = history[Len(history)]
    BY <2>1, <2>2, NowFacts DEF Replay!Now
  <2>4. PICK a \in Replay!Replies :
          history' = [history EXCEPT ![Len(history)] = [p EXCEPT !.answer = a]]
    <3>1. PICK a \in Replay!Replies : Replay!Update(LAMBDA r : [r EXCEPT !.answer = a])
      BY <1>5, Zenon DEF Replay!Answered
    <3>2. history' = [history EXCEPT ![Len(history)] = [p EXCEPT !.answer = a]]
      BY <2>3, <3>1 DEF Replay!Update
    <3> QED
      BY <3>2, Zenon
  <2>5. PICK q : q = [p EXCEPT !.answer = a]
    BY Zenon
  <2>6. q.telegram = p.telegram /\ q.answer = a
    BY <2>3, <2>5 DEF RequestRecords
  <2>7. q.telegram = "register" \/ q.answer = "active"
    BY <2>2, <2>6 DEF Replay!Replies
  <2> QED
    BY <2>3, <2>4, <2>5, <2>7 DEF ReplyInv
<1> QED
  BY <1>1, <1>2, <1>3, <1>4, <1>5, SessionIsQuiet, RefusedIsQuiet, LostIsQuiet, DroppedIsQuiet,
     NackedIsQuiet, RetriedIsQuiet, RecoverIsQuiet, ReconnectIsQuiet, FailedIsQuiet DEF Replay!Next

(* The types the runs check follow.                                        *)
LEMMA TraceTypeOK == ReplayInv => Replay!TypeOK
<1> SUFFICES ASSUME ReplayInv PROVE Replay!TypeOK
  OBVIOUS
<1>1. ReplayTypes /\ Readable(trace)
  BY ReplayParts
<1>2. trace.active \in 0..Len(trace.exchanges)
  <2>1. trace.active \in Nat /\ (trace.active # 0 => trace.active \in DOMAIN trace.exchanges)
    BY <1>1 DEF Readable, TraceRecords
  <2>2. PICK s \in Seq(ExchangeRecords) : s = trace.exchanges
    BY <1>1, ListFacts
  <2>3. Len(s) \in Nat /\ DOMAIN s = 1..Len(s)
    BY LenProperties
  <2> QED
    BY <2>1, <2>2, <2>3
<1> QED
  BY <1>1, <1>2 DEF ReplayTypes, Replay!TypeOK

(* One Cardinality for both modules.                                       *)
LEMMA SameSize == \A S : Replay!Cardinality(S) = Cardinality(S)
BY Zenon DEF Cardinality, Replay!Cardinality, IsFiniteSet, Replay!IsFiniteSet

(* A single element counts one.                                            *)
LEMMA SingleSize == \A x : Replay!Cardinality({x}) = 1
BY SameSize, FS_Singleton, Zenon

(* While the reader is not confused, two requests never share an exchange. *)
LEMMA SeparateFollows == ReplayInv => Replay!Separate
<1> SUFFICES ASSUME ReplayInv PROVE Replay!Separate
  OBVIOUS
<1>1. /\ ReplayTypes /\ BusyInv /\ SourceInv /\ NumbersInv /\ RequestInv /\ CountInv
      /\ EachInv /\ Readable(trace)
  BY ReplayParts
<1>2. ~ confused => \A i \in DOMAIN trace.exchanges : Replay!Cardinality(trace.exchanges[i].of) = 1
  <2> SUFFICES ASSUME ~ confused, NEW i \in DOMAIN trace.exchanges
               PROVE  Replay!Cardinality(trace.exchanges[i].of) = 1
    OBVIOUS
  <2>1. PICK r : trace.exchanges[i].of = {r}
    BY <1>1 DEF NumbersInv
  <2> QED
    BY <2>1, SingleSize, Zenon
<1>3. ASSUME NEW r \in DOMAIN history, Replay!Legible(r)
      PROVE  /\ Replay!Cardinality(Replay!Of(r)) = 1
             /\ history[r].answer # Replay!None => \A i \in Replay!Of(r) :
                  trace.exchanges[i].attempts \in
                    (history[r].attempts - history[r].early)..history[r].attempts
  <2>1. history[r].sent /\ ~ history[r].unmarked /\ ~ confused
    BY <1>3 DEF Replay!Legible
  <2>2. PICK i \in DOMAIN trace.exchanges :
          \A j \in DOMAIN trace.exchanges : r \in trace.exchanges[j].of <=> j = i
    BY <1>1, <2>1 DEF EachInv
  <2>3. Replay!Of(r) = {i}
    BY <2>2 DEF Replay!Of
  <2>4. ASSUME history[r].answer # Replay!None
        PROVE  trace.exchanges[i].attempts \in
                 (history[r].attempts - history[r].early)..history[r].attempts
    <3>1. PICK j \in DOMAIN trace.exchanges : trace.exchanges[j].answers = r
      BY <1>1, <2>4 DEF SourceInv
    <3>2. r # 0
      <4>1. Len(history) \in Nat /\ DOMAIN history = 1..Len(history)
        BY <1>1, AskedFacts
      <4> QED
        BY <4>1
    <3>3. r \in trace.exchanges[j].of /\ trace.exchanges[j].response # Replay!None
      BY <1>1, <3>1, <3>2 DEF SourceInv
    <3>4. j = i
      BY <2>2, <3>1, <3>3
    <3>5. Between(trace.exchanges[i].attempts, history[r])
      BY <1>1, <2>1, <3>1, <3>3, <3>4 DEF CountInv
    <3>6. history[r] \in RequestRecords
      BY <1>1, AskedFacts
    <3>7. PICK x \in Nat : x = history[r].attempts
      BY <3>6 DEF RequestRecords
    <3>8. PICK y \in Nat : y = history[r].early
      BY <3>6 DEF RequestRecords
    <3>9. PICK a \in Nat : a = trace.exchanges[i].attempts
      BY CountIsNat
    <3>10. x <= a + y /\ a <= x
      BY <3>5, <3>7, <3>8, <3>9 DEF Between
    <3>11. a \in (x - y)..x
      BY <3>10
    <3> QED
      BY <3>7, <3>8, <3>9, <3>11
  <2> QED
    BY <2>3, <2>4, SingleSize
<1> QED
  BY <1>2, <1>3 DEF Replay!Separate

(* The answers of a kind of telegram are those of its exchanges.           *)
LEMMA ReceivedIs ==
  ASSUME ReplayInv, NEW g
  PROVE  \A a : a \in Replay!Received(g) <=>
           /\ a # Replay!None
           /\ \E i \in DOMAIN trace.exchanges :
                trace.exchanges[i].telegram = g /\ trace.exchanges[i].response = a
<1>1. SourceInv /\ ReplayTypes
  BY ReplayParts
<1>2. \A r \in DOMAIN history : r # 0
  <2>1. Len(history) \in Nat /\ DOMAIN history = 1..Len(history)
    BY <1>1, AskedFacts
  <2> QED
    BY <2>1
<1>3. ASSUME NEW a, a \in Replay!Received(g)
      PROVE  /\ a # Replay!None
             /\ \E i \in DOMAIN trace.exchanges :
                  trace.exchanges[i].telegram = g /\ trace.exchanges[i].response = a
  <2>1. PICK r \in DOMAIN history :
          history[r].telegram = g /\ history[r].answer = a /\ a # Replay!None
    BY <1>3 DEF Replay!Received
  <2>2. PICK i \in DOMAIN trace.exchanges : trace.exchanges[i].answers = r
    BY <1>1, <2>1 DEF SourceInv
  <2>3. r \in trace.exchanges[i].of /\ trace.exchanges[i].response = a
    BY <1>1, <1>2, <2>1, <2>2 DEF SourceInv
  <2>4. trace.exchanges[i].telegram = g
    BY <1>1, <2>1, <2>3 DEF SourceInv
  <2> QED
    BY <2>1, <2>3, <2>4
<1>4. ASSUME NEW a, a # Replay!None, NEW i \in DOMAIN trace.exchanges,
             trace.exchanges[i].telegram = g, trace.exchanges[i].response = a
      PROVE  a \in Replay!Received(g)
  <2>1. PICK r : r = trace.exchanges[i].answers
    OBVIOUS
  <2>2. r \in trace.exchanges[i].of /\ history[r].answer = a
    BY <1>1, <1>4, <2>1 DEF SourceInv
  <2>3. r \in DOMAIN history /\ history[r].telegram = g
    BY <1>1, <1>4, <2>2 DEF SourceInv
  <2> QED
    BY <1>4, <2>2, <2>3 DEF Replay!Received
<1> QED
  BY <1>3, <1>4

(* A register's stored evidence is the best of what was received for it.   *)
LEMMA EvidenceFollows == ReplayInv /\ ReplyInv => Replay!BestEvidence
<1> SUFFICES ASSUME ReplayInv, ReplyInv PROVE Replay!BestEvidence
  OBVIOUS
<1>1. SourceInv /\ Readable(trace)
  BY ReplayParts
<1>2. \A i \in DOMAIN trace.exchanges :
        trace.exchanges[i].answers # 0 =>
          /\ trace.exchanges[i].answers \in trace.exchanges[i].of
          /\ history[trace.exchanges[i].answers].answer = trace.exchanges[i].response
  BY <1>1 DEF SourceInv
<1>3. ASSUME Replay!FirstIsHere
      PROVE  /\ Replay!Received("register") # {} =>
                  Replay!Stored \in Replay!Received("register")
                  /\ \A a \in Replay!Received("register") : Replay!Rank[a] <= Replay!Rank[Replay!Stored]
             /\ Replay!Present <=> Replay!Received("register") \cap {"active", "empty_reply"} # {}
             /\ Replay!Described <=>
                  "active" \in Replay!Received("register") /\ Replay!Received("description") # {}
  <2>1. PICK m \in Nat : DOMAIN trace.exchanges = 1..m
    BY <1>1, ListFacts
  <2>2. \A i \in 1..m : /\ trace.exchanges[i].telegram \in Replay!Telegrams
                        /\ trace.exchanges[i].response \in Outcomes
    BY <1>1, <2>1, ListFacts, Zenon DEF ExchangeRecords
  <2>3. \A e : Replay!Kept(e) <=> e.telegram # "elsewhere"
    BY <1>3 DEF Replay!Kept, Replay!Elsewhere, Replay!FirstIsHere
  <2>4. \A e : Replay!OfRegister(e) <=> e.telegram = "register"
    BY <2>3 DEF Replay!OfRegister
  <2>5. PICK R : R = Replay!Received("register")
    OBVIOUS
  <2>6. \A a : a \in R <=> \E i \in 1..m : Heard(i) /\ trace.exchanges[i].response = a
    <3>1. \A a : a \in R <=> /\ a # Replay!None
                             /\ \E i \in 1..m : /\ trace.exchanges[i].telegram = "register"
                                                /\ trace.exchanges[i].response = a
      BY <2>1, <2>5, ReceivedIs
    <3> QED
      BY <2>4, <3>1 DEF Heard
  <2>7. R \in SUBSET Replay!Answers
    BY <2>2, <2>6 DEF Heard, Outcomes
  <2>8. PICK v : v = Replay!Stored
    OBVIOUS
  <2>9. BestOf(m, v)
    BY <2>1, <2>8, StoredIsBest
  <2>10. ASSUME R # {} PROVE v \in R /\ \A a \in R : Replay!Rank[a] <= Replay!Rank[v]
    <3>1. \E i \in 1..m : Heard(i)
      BY <2>6, <2>10
    <3> QED
      BY <2>6, <2>9, <3>1 DEF BestOf
  <2>11. Replay!Present <=> R \cap {"active", "empty_reply"} # {}
    <3>1. ASSUME Replay!Present PROVE R \cap {"active", "empty_reply"} # {}
      <4>1. PICK i \in 1..m : /\ Replay!OfRegister(trace.exchanges[i])
                              /\ Replay!State(trace.exchanges[i]) \in {"active", "empty_reply"}
        BY <2>1, <3>1 DEF Replay!Present
      <4>2. /\ trace.exchanges[i].response # Replay!None
            /\ trace.exchanges[i].response \in {"active", "empty_reply"}
        BY <4>1 DEF Replay!State
      <4> QED
        BY <2>6, <4>1, <4>2 DEF Heard
    <3>2. ASSUME R \cap {"active", "empty_reply"} # {} PROVE Replay!Present
      <4>1. PICK i \in 1..m : Heard(i) /\ trace.exchanges[i].response \in {"active", "empty_reply"}
        BY <2>6, <3>2
      <4>2. Replay!State(trace.exchanges[i]) = trace.exchanges[i].response
        BY <4>1 DEF Heard, Replay!State
      <4> QED
        BY <2>1, <4>1, <4>2 DEF Heard, Replay!Present
    <3> QED
      BY <3>1, <3>2
  <2>12. v = "active" <=> "active" \in R
    <3>1. ASSUME v = "active" PROVE "active" \in R
      <4>1. v \notin Unheard
        BY <3>1 DEF Unheard, Replay!None
      <4> QED
        BY <2>6, <2>9, <3>1, <4>1 DEF BestOf
    <3>2. ASSUME "active" \in R PROVE v = "active"
      <4>1. v \in R /\ Replay!Rank["active"] <= Replay!Rank[v]
        BY <2>10, <3>2
      <4>2. v \in Replay!Answers /\ Replay!Rank[v] \in 1..3 /\ Replay!Rank["active"] = 3
        BY <2>7, <4>1, RankFacts
      <4>3. Replay!Rank[v] = 3
        BY <4>1, <4>2
      <4> QED
        BY <4>2, <4>3, RankFacts
    <3> QED
      BY <3>1, <3>2
  <2>13. Replay!Received("description") # {} <=>
           \E i \in 1..m : /\ Replay!Kept(trace.exchanges[i])
                           /\ trace.exchanges[i].telegram = "description"
                           /\ trace.exchanges[i].response = "active"
    <3>1. PICK D : D = Replay!Received("description")
      OBVIOUS
    <3>2. \A a : a \in D <=> /\ a # Replay!None
                             /\ \E i \in 1..m : /\ trace.exchanges[i].telegram = "description"
                                                /\ trace.exchanges[i].response = a
      BY <2>1, <3>1, ReceivedIs
    <3>3. \A a \in D : a = "active"
      BY <3>1 DEF Replay!Received, ReplyInv
    <3>4. "active" # Replay!None
      BY DEF Replay!None
    <3>5. D # {} => "active" \in D
      BY <3>3
    <3>6. \A i \in 1..m : trace.exchanges[i].telegram = "description" =>
            Replay!Kept(trace.exchanges[i])
      BY <2>3
    <3> QED
      BY <3>1, <3>2, <3>4, <3>5, <3>6
  <2>14. Replay!Described <=>
           /\ v = "active"
           /\ \E i \in 1..m : /\ Replay!Kept(trace.exchanges[i])
                              /\ trace.exchanges[i].telegram = "description"
                              /\ trace.exchanges[i].response = "active"
    BY <2>1, <2>8 DEF Replay!Described
  <2> QED
    BY <2>5, <2>8, <2>10, <2>11, <2>12, <2>13, <2>14
<1> QED
  BY <1>2, <1>3 DEF Replay!BestEvidence

(* What the artifact of a trace promises follows.                          *)
LEMMA ReplayFollows == ReplayInv /\ ReplyInv => Replay!ReplayTrue
BY TraceTypeOK, SeparateFollows, EvidenceFollows DEF Replay!ReplayTrue

ReplayPart == part = "replay" => ReplayInv /\ ReplyInv

(* What the artifact of a trace says is what the transport did and         *)
(* received, whatever retries, reconnects, restarts and appended traces    *)
(* there were, for every number of requests, attempts and reconnections    *)
(* (_parse_enhanced_trace_lines, replay_trace_to_artifact).                *)
THEOREM ReplayIsTrue == AllSpec => []ReplayTrue
<1>1. AllInit => ReplayPart
  <2> SUFFICES ASSUME Replay!Init PROVE ReplayInv /\ ReplyInv
    BY DEF AllInit, ReplayPart
  <2>1. ReplayInv
    BY ReplayInit
  <2>2. ReplyInv
    BY DEF Replay!Init, ReplyInv
  <2> QED
    BY <2>1, <2>2
<1>2. ReplayPart /\ [AllNext]_allVars => ReplayPart'
  <2> SUFFICES ASSUME ReplayPart, [AllNext]_allVars, part' = "replay"
               PROVE  ReplayInv' /\ ReplyInv'
    BY DEF ReplayPart
  <2>1. part' = part
    BY DEF AllNext, allVars, OthersThanRegisters, OthersThanEdit, OthersThanReplay,
           OthersThanRows, OthersThanDescribe
  <2>2. ReplayInv /\ ReplyInv BY <2>1 DEF ReplayPart
  <2>3. CASE UNCHANGED onlyReplay
    BY <2>2, <2>3, ReplayRest DEF onlyReplay, ReplyInv
  <2>4. CASE Replay!Next BY <2>2, <2>4, ReplayStep, ReplyStep
  <2>5. UNCHANGED onlyReplay \/ Replay!Next BY <2>1 DEF AllNext, allVars
  <2> QED BY <2>3, <2>4, <2>5
<1>3. ReplayPart => ReplayTrue BY ReplayFollows DEF ReplayPart, ReplayTrue
<1> QED BY <1>1, <1>2, <1>3, PTL DEF AllSpec
=============================================================================
