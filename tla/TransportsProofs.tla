--------------------------- MODULE TransportsProofs ---------------------------
(***************************************************************************)
(* Proofs about the ebusd stream, the ebusd policy and the threads of the  *)
(* enhanced transport, for every value of their constants.                 *)
(***************************************************************************)
EXTENDS Transports, SequenceTheorems, FiniteSetTheorems, TLAPS

-----------------------------------------------------------------------------
(* The ebusd stream.                                                       *)
Piece == [op : 1..MaxOps, end : BOOLEAN]

(* A line in front of s is taken off it by cutting two pieces.             *)
LEMMA LineBefore ==
  ASSUME NEW S, NEW t \in S, NEW e \in S, NEW s \in Seq(S), NEW r, r = <<t, e>> \o s
  PROVE  /\ r \in Seq(S) /\ Len(r) = Len(s) + 2 /\ r[1] = t /\ r[2] = e
         /\ SubSeq(r, 3, Len(r)) = s
<1> DEFINE l == <<t, e>>
<1>1. l \in Seq(S) /\ Len(l) = 2 /\ l[1] = t /\ l[2] = e OBVIOUS
<1>2. Len(s) \in Nat /\ \A i \in 1..Len(s) : s[i] \in S BY ElementOfSeq
<1> HIDE DEF l
<1>3. /\ r \in Seq(S) /\ Len(r) = 2 + Len(s)
      /\ \A i \in 1..2 + Len(s) : r[i] = IF i <= 2 THEN l[i] ELSE s[i - 2]
  <2>1. r = l \o s BY DEF l
  <2>2. /\ l \o s \in Seq(S) /\ Len(l \o s) = Len(l) + Len(s)
        /\ \A i \in 1..Len(l) + Len(s) : (l \o s)[i] = IF i <= Len(l) THEN l[i] ELSE s[i - Len(l)]
    BY <1>1, ConcatProperties
  <2> QED BY <1>1, <2>1, <2>2
<1>4. r[1] = t /\ r[2] = e BY <1>1, <1>2, <1>3
<1>5. SubSeq(r, 3, Len(r)) = s
  <2>1. \A i \in 3..Len(r) : r[i] \in S BY <1>2, <1>3
  <2>2. Len(r) \in Int BY <1>2, <1>3
  <2>3. /\ SubSeq(r, 3, Len(r)) \in Seq(S)
        /\ Len(SubSeq(r, 3, Len(r))) = IF 3 <= Len(r) THEN Len(r) - 3 + 1 ELSE 0
        /\ \A i \in 1..Len(r) - 3 + 1 : SubSeq(r, 3, Len(r))[i] = r[3 + i - 1]
    BY <2>1, <2>2, SubSeqProperties
  <2>4. Len(SubSeq(r, 3, Len(r))) = Len(s) BY <1>2, <1>3, <2>3
  <2>5. \A i \in 1..Len(s) : SubSeq(r, 3, Len(r))[i] = s[i] BY <1>2, <1>3, <2>3
  <2> QED BY <2>3, <2>4, <2>5, SeqEqual
<1> QED BY <1>2, <1>3, <1>4, <1>5

(* A response is empty or blank, or its first line ends with its second    *)
(* piece and what follows that line is a response again.                   *)
LEMMA ResponseShape ==
  ASSUME NEW n \in 1..MaxOps, NEW r \in Lines!Responses(n)
  PROVE  /\ r \in Seq(Piece)
         /\ \A i \in 1..Len(r) : r[i].op = n
         /\ r = <<>> \/ (Len(r) = 1 /\ r[1].end)
              \/ /\ Len(r) > 1 /\ ~r[1].end /\ r[2].end
                 /\ SubSeq(r, 3, Len(r)) \in Lines!Responses(n)
<1> DEFINE T == Lines!Text(n)
           N == Lines!Newline(n)
           S == {T, N}
<1>1. T \in Piece /\ N \in Piece /\ T.op = n /\ N.op = n /\ T.end = FALSE /\ N.end = TRUE
  BY DEF Lines!Text, Lines!Newline, Piece
<1>2. Lines!Responses(n) =
        {<<>>, <<N>>, <<T, N>>, <<T, N>> \o <<N>>, <<T, N>> \o <<T, N>>,
         (<<T, N>> \o <<T, N>>) \o <<N>>}
  BY DEF Lines!Responses, Lines!Line, Lines!Blank
<1>3. /\ <<>> \in Seq(S) /\ <<N>> \in Seq(S) /\ <<T, N>> \in Seq(S) /\ T \in S /\ N \in S
      /\ Len(<<N>>) = 1 /\ <<N>>[1] = N
  OBVIOUS
<1>4. \A s \in Seq(S) : s \in Seq(Piece) /\ Len(s) \in Nat /\ \A i \in 1..Len(s) : s[i] \in S
  BY <1>1, SeqMonotonic, ElementOfSeq
<1> HIDE DEF T, N, S
<1>5. <<T, N>> \o <<>> = <<T, N>> BY <1>3, ConcatEmptySeq
<1>6. (<<T, N>> \o <<T, N>>) \o <<N>> = <<T, N>> \o (<<T, N>> \o <<N>>)
  BY <1>3, ConcatAssociative
<1>7. <<T, N>> \o <<N>> \in Seq(S) BY <1>3, ConcatProperties
<1>8. r = <<>> \/ r = <<N>> \/ \E s \in Seq(S) \intersect Lines!Responses(n) : r = <<T, N>> \o s
  BY <1>2, <1>3, <1>5, <1>6, <1>7
<1>9. r \in Seq(S) BY <1>3, <1>8, ConcatProperties
<1>10. \A i \in 1..Len(r) : r[i].op = n BY <1>1, <1>4, <1>9 DEF S
<1>11. CASE r = <<>> BY <1>4, <1>9, <1>10, <1>11
<1>12. CASE r = <<N>> BY <1>1, <1>3, <1>4, <1>9, <1>10, <1>12
<1>13. ASSUME NEW s \in Seq(S), s \in Lines!Responses(n), r = <<T, N>> \o s
       PROVE  /\ Len(r) > 1 /\ ~r[1].end /\ r[2].end
              /\ SubSeq(r, 3, Len(r)) \in Lines!Responses(n)
  <2>1. Len(r) = Len(s) + 2 /\ r[1] = T /\ r[2] = N /\ SubSeq(r, 3, Len(r)) = s
    BY <1>3, <1>13, LineBefore
  <2>2. Len(s) \in Nat BY <1>4
  <2>3. Len(r) > 1 BY <2>1, <2>2
  <2>4. ~r[1].end /\ r[2].end BY <1>1, <2>1
  <2>5. SubSeq(r, 3, Len(r)) \in Lines!Responses(n) BY <1>13, <2>1
  <2> QED BY <2>3, <2>4, <2>5
<1> QED BY <1>4, <1>8, <1>9, <1>10, <1>11, <1>12, <1>13

(* Cutting k elements off the front of s \o t cuts them off s.             *)
LEMMA CutOfConcat ==
  ASSUME NEW S, NEW s \in Seq(S), NEW t \in Seq(S), NEW k \in 0..Len(s)
  PROVE  SubSeq(s \o t, k + 1, Len(s \o t)) = SubSeq(s, k + 1, Len(s)) \o t
<1> DEFINE r == s \o t
           a == SubSeq(s, k + 1, Len(s))
           b == SubSeq(r, k + 1, Len(r))
<1>1. Len(s) \in Nat /\ Len(t) \in Nat /\ (\A i \in 1..Len(s) : s[i] \in S)
      /\ \A i \in 1..Len(t) : t[i] \in S
  BY ElementOfSeq
<1>2. /\ r \in Seq(S) /\ Len(r) = Len(s) + Len(t)
      /\ \A i \in 1..Len(s) + Len(t) : r[i] = IF i <= Len(s) THEN s[i] ELSE t[i - Len(s)]
  BY ConcatProperties
<1> HIDE DEF r
<1>3. /\ a \in Seq(S) /\ Len(a) = IF k + 1 <= Len(s) THEN Len(s) - (k + 1) + 1 ELSE 0
      /\ \A i \in 1..Len(s) - (k + 1) + 1 : a[i] = s[k + 1 + i - 1]
  <2>1. \A i \in (k + 1)..Len(s) : s[i] \in S BY <1>1
  <2> QED BY <1>1, <2>1, SubSeqProperties
<1>4. /\ b \in Seq(S) /\ Len(b) = IF k + 1 <= Len(r) THEN Len(r) - (k + 1) + 1 ELSE 0
      /\ \A i \in 1..Len(r) - (k + 1) + 1 : b[i] = r[k + 1 + i - 1]
  <2>1. \A i \in (k + 1)..Len(r) : r[i] \in S BY <1>1, <1>2
  <2>2. Len(r) \in Nat BY <1>1, <1>2
  <2> QED BY <1>1, <2>1, <2>2, SubSeqProperties
<1> HIDE DEF a, b
<1>5. Len(a) = Len(s) - k /\ Len(b) = Len(s) + Len(t) - k BY <1>1, <1>2, <1>3, <1>4
<1>6. /\ a \o t \in Seq(S) /\ Len(a \o t) = Len(a) + Len(t)
      /\ \A i \in 1..Len(a) + Len(t) : (a \o t)[i] = IF i <= Len(a) THEN a[i] ELSE t[i - Len(a)]
  BY <1>3, ConcatProperties
<1>7. \A i \in 1..Len(b) : b[i] = (a \o t)[i]
  <2> SUFFICES ASSUME NEW i \in 1..Len(b) PROVE b[i] = (a \o t)[i] OBVIOUS
  <2>1. i \in 1..Len(s) + Len(t) - k BY <1>5
  <2>2. b[i] = r[k + i]
    <3>1. i \in 1..Len(r) - (k + 1) + 1 /\ k + 1 + i - 1 = k + i BY <1>1, <1>2, <2>1
    <3> QED BY <1>4, <3>1
  <2>3. k + i \in 1..Len(s) + Len(t) BY <1>1, <2>1
  <2>4. CASE k + i <= Len(s)
    <3>1. r[k + i] = s[k + i] BY <1>2, <2>3, <2>4
    <3>2. i \in 1..Len(s) - (k + 1) + 1 /\ k + 1 + i - 1 = k + i BY <1>1, <2>1, <2>4
    <3>3. a[i] = s[k + i] BY <1>3, <3>2
    <3>4. i <= Len(a) /\ i \in 1..Len(a) + Len(t) BY <1>1, <1>5, <2>1, <2>4
    <3> QED BY <1>6, <2>2, <3>1, <3>3, <3>4
  <2>5. CASE ~(k + i <= Len(s))
    <3>1. r[k + i] = t[k + i - Len(s)] BY <1>2, <2>3, <2>5
    <3>2. ~(i <= Len(a)) /\ i \in 1..Len(a) + Len(t) /\ i - Len(a) = k + i - Len(s)
      BY <1>1, <1>5, <2>1, <2>5
    <3> QED BY <1>6, <2>2, <3>1, <3>2
  <2> QED BY <2>4, <2>5
<1>8. Len(b) = Len(a \o t) BY <1>1, <1>5, <1>6
<1>9. b = a \o t BY <1>4, <1>6, <1>7, <1>8, SeqEqual
<1> QED BY <1>9 DEF a, b, r

(* Taking the first line off what was received of a response: it is the    *)
(* blank line, and nothing of the response is left, or a line of it, and   *)
(* what is left is a response.                                             *)
LEMMA FirstLineTaken ==
  ASSUME NEW n \in 1..MaxOps, NEW buffer \in Seq(Piece), NEW rest \in Seq(Piece),
         buffer \o rest \in Lines!Responses(n), Lines!HasLine(buffer)
  PROVE  /\ Lines!AfterLine(buffer) \in Seq(Piece)
         /\ Lines!OpsOf(Lines!FirstLine(buffer)) \subseteq {n}
         /\ \/ /\ Len(Lines!FirstLine(buffer)) = 1
               /\ Lines!AfterLine(buffer) = <<>> /\ rest = <<>>
            \/ /\ Len(Lines!FirstLine(buffer)) > 1
               /\ Lines!AfterLine(buffer) \o rest \in Lines!Responses(n)
<1> DEFINE r == buffer \o rest
           first == Lines!FirstLine(buffer)
           k == Lines!FirstEnd(buffer)
<1>1. /\ Len(buffer) \in Nat /\ Len(rest) \in Nat /\ DOMAIN buffer = 1..Len(buffer)
      /\ \A i \in 1..Len(buffer) : buffer[i] \in Piece
  BY ElementOfSeq, LenProperties
<1>2. /\ r \in Seq(Piece) /\ Len(r) = Len(buffer) + Len(rest)
      /\ \A i \in 1..Len(buffer) : r[i] = buffer[i]
  BY <1>1, ConcatProperties
<1>3. /\ \A i \in 1..Len(r) : r[i].op = n
      /\ r = <<>> \/ (Len(r) = 1 /\ r[1].end)
           \/ /\ Len(r) > 1 /\ ~r[1].end /\ r[2].end
              /\ SubSeq(r, 3, Len(r)) \in Lines!Responses(n)
  BY ResponseShape
<1>4. \A k0 \in 0..Len(buffer) : SubSeq(r, k0 + 1, Len(r)) = SubSeq(buffer, k0 + 1, Len(buffer)) \o rest
  BY CutOfConcat
<1> HIDE DEF r
<1>5. PICK e \in 1..Len(buffer) : buffer[e].end BY <1>1 DEF Lines!HasLine
<1>6. ASSUME NEW j \in 1..2, j <= Len(buffer), buffer[j].end, \A i \in 1..(j - 1) : ~buffer[i].end
      PROVE  k = j
  <2>1. j \in DOMAIN buffer BY <1>1, <1>6
  <2>2. \A i \in DOMAIN buffer :
          (buffer[i].end /\ \A m \in 1..(i - 1) : ~buffer[m].end) => i = j
    BY <1>1, <1>6
  <2> QED BY <1>6, <2>1, <2>2 DEF Lines!FirstEnd
<1>7. CASE Len(r) = 1 /\ r[1].end
  <2>1. Len(buffer) = 1 /\ Len(rest) = 0 /\ buffer[1].end BY <1>1, <1>2, <1>5, <1>7
  <2>2. k = 1 BY <1>6, <2>1
  <2>3. rest = <<>> BY <2>1, EmptySeq
  <2>4. Lines!AfterLine(buffer) = <<>> BY <2>1, <2>2, SubSeqEmpty DEF Lines!AfterLine
  <2>5. Len(first) = 1 /\ first \in Seq(Piece) /\ \A i \in DOMAIN first : first[i].op = n
    <3>1. first = SubSeq(buffer, 1, Len(buffer)) BY <2>1, <2>2 DEF Lines!FirstLine
    <3>2. first = buffer BY <3>1, SubSeqFull
    <3> QED BY <1>1, <1>2, <1>3, <2>1, <3>2
  <2> QED BY <2>3, <2>4, <2>5, EmptySeq DEF Lines!OpsOf
<1>8. CASE /\ Len(r) > 1 /\ ~r[1].end /\ r[2].end
           /\ SubSeq(r, 3, Len(r)) \in Lines!Responses(n)
  <2>1. ~buffer[1].end BY <1>1, <1>2, <1>5, <1>8
  <2>2. Len(buffer) >= 2 BY <1>1, <1>5, <2>1
  <2>3. buffer[2].end BY <1>1, <1>2, <1>8, <2>2
  <2>4. k = 2 BY <1>6, <2>1, <2>2, <2>3
  <2>5. SubSeq(r, 3, Len(r)) = SubSeq(buffer, 3, Len(buffer)) \o rest
    <3>1. 2 \in 0..Len(buffer) /\ 2 + 1 = 3 BY <1>1, <2>2
    <3> QED BY <1>4, <3>1
  <2>6. Lines!AfterLine(buffer) = SubSeq(buffer, 3, Len(buffer)) BY <2>4 DEF Lines!AfterLine
  <2>7. Lines!AfterLine(buffer) \in Seq(Piece)
    <3>1. \A i \in 3..Len(buffer) : buffer[i] \in Piece BY <1>1
    <3>2. SubSeq(buffer, 3, Len(buffer)) \in Seq(Piece) BY <1>1, <3>1, SubSeqProperties
    <3> QED BY <2>6, <3>2
  <2>8. first = SubSeq(buffer, 1, 2) BY <2>4 DEF Lines!FirstLine
  <2>9. \A i \in 1..2 : buffer[i] \in Piece /\ buffer[i].op = n BY <1>1, <1>2, <1>3, <2>2
  <2>10. first \in Seq(Piece) /\ Len(first) = 2 /\ \A i \in 1..2 : first[i] = buffer[i]
    BY <2>8, <2>9, SubSeqProperties
  <2>11. Lines!OpsOf(first) \subseteq {n} BY <2>9, <2>10, LenProperties DEF Lines!OpsOf
  <2>12. Lines!AfterLine(buffer) \o rest \in Lines!Responses(n) BY <1>8, <2>5, <2>6
  <2>13. Len(first) > 1 BY <2>10
  <2> QED BY <2>7, <2>11, <2>12, <2>13
<1>9. r # <<>> BY <1>1, <1>2, <1>5, EmptySeq
<1> QED BY <1>3, <1>7, <1>8, <1>9

(* Every piece received of a response is of the command it answers.        *)
LEMMA ReceivedOps ==
  ASSUME NEW n \in 1..MaxOps, NEW buffer \in Seq(Piece), NEW rest \in Seq(Piece),
         buffer \o rest \in Lines!Responses(n)
  PROVE  Lines!OpsOf(buffer) \subseteq {n}
<1>1. Len(buffer) \in Nat /\ Len(rest) \in Nat /\ DOMAIN buffer = 1..Len(buffer)
  BY LenProperties
<1>2. /\ Len(buffer \o rest) = Len(buffer) + Len(rest)
      /\ \A i \in 1..Len(buffer) : (buffer \o rest)[i] = buffer[i]
  BY <1>1, ConcatProperties
<1>3. \A i \in 1..Len(buffer \o rest) : (buffer \o rest)[i].op = n BY ResponseShape
<1>4. \A i \in 1..Len(buffer) : buffer[i].op = n BY <1>1, <1>2, <1>3
<1> QED BY <1>1, <1>4 DEF Lines!OpsOf

(* While a command runs, what is buffered, on its way and due is what is   *)
(* left of its own response; between commands nothing is left at all.      *)
Left == (rx \o wire) \o due
LeftInv ==
  /\ pc = "idle" => rx = <<>> /\ wire = <<>> /\ due = <<>>
  /\ pc # "idle" => op > 0 /\ Left \in Lines!Responses(op)
LinesFromOwn == (pc # "idle" \/ result = "lines") => lines \subseteq {op}
LinesInv == Lines!TypeOK /\ LeftInv /\ LinesFromOwn

(* No command was sent yet.                                                *)
LEMMA LinesInit == Lines!Init => LinesInv
<1> SUFFICES ASSUME Lines!Init PROVE LinesInv OBVIOUS
<1>1. <<>> \in Lines!Pieces BY EmptySeq DEF Lines!Pieces
<1>2. 0 \in 0..MaxOps BY TransportConstants DEF Lines!SessionConstants
<1> QED BY <1>1, <1>2 DEF Lines!Init, Lines!TypeOK, LinesInv, LeftInv, LinesFromOwn

(* Which steps end a command, and what they leave of the stream.           *)
LEMMA FinishLeaves ==
  ASSUME LinesInv, NEW isolated \in BOOLEAN, NEW rest,
         isolated => rest = <<>> /\ wire = <<>> /\ due = <<>>,
         Lines!Finish(isolated, rest)
  PROVE  /\ pc' = "idle" /\ result' = "lines" /\ rx' = <<>> /\ wire' = <<>> /\ due' = <<>>
         /\ connection' \in {"open", "closed"}
BY DEF LinesInv, Lines!TypeOK, Lines!Finish, Lines!Closed

(* Ending a command keeps the invariant when its lines are its own.        *)
LEMMA EndKeeps ==
  ASSUME LinesInv, pc' = "idle", rx' = <<>>, wire' = <<>>, due' = <<>>,
         connection' \in {"open", "closed"}, UNCHANGED <<persistent, op>>, received' \in BOOLEAN,
         lines' \subseteq 1..MaxOps, result' \in {"lines", "timeout", "error", "deadline"},
         result' = "lines" => lines' \subseteq {op}
  PROVE  LinesInv'
<1>1. <<>> \in Lines!Pieces BY EmptySeq DEF Lines!Pieces
<1>2. Lines!TypeOK' BY <1>1 DEF LinesInv, Lines!TypeOK, Lines!Pieces
<1> QED BY <1>2 DEF LinesInv, LeftInv, LinesFromOwn

(* The invariant is inductive if the daemon completes a response without a *)
(* silence of a whole drain window; it is only the end of the drain window *)
(* that needs this.                                                        *)
LEMMA LinesStep == ASSUME LatePauses = FALSE, LinesInv, [Lines!Next]_(Lines!vars) PROVE LinesInv'
<1>1. /\ Lines!Pieces = Seq(Piece) /\ Lines!Pieces' = Lines!Pieces
      /\ rx \in Seq(Piece) /\ wire \in Seq(Piece) /\ due \in Seq(Piece)
      /\ op \in 0..MaxOps /\ MaxOps \in Nat \ {0} /\ (pc # "idle" => op \in 1..MaxOps)
      /\ lines \subseteq 1..MaxOps
  BY TransportConstants DEF LinesInv, LeftInv, Lines!TypeOK, Lines!Pieces, Piece,
     Lines!SessionConstants
<1>2. CASE UNCHANGED Lines!vars
  BY <1>2 DEF Lines!vars, Lines!stream, LinesInv, Lines!TypeOK, Lines!Pieces, LeftInv, Left,
     LinesFromOwn
<1>3. CASE Lines!SessionContext
  <2>1. /\ pc = "idle" /\ pc' = "idle" /\ rx' = <<>> /\ wire' = <<>> /\ due' = <<>>
        /\ connection' \in {"open", "closed"} /\ persistent' \in BOOLEAN
        /\ result' = "none" /\ lines' = {} /\ UNCHANGED <<received, op>>
    BY <1>3 DEF Lines!SessionContext, Lines!Closed, LinesInv, LeftInv, Lines!TypeOK
  <2>2. <<>> \in Lines!Pieces BY <1>1, EmptySeq
  <2>3. Lines!TypeOK' BY <1>1, <2>1, <2>2 DEF LinesInv, Lines!TypeOK
  <2> QED BY <2>1, <2>3 DEF LinesInv, LeftInv, LinesFromOwn
<1>4. ASSUME NEW n \in 1..MaxOps, NEW r \in Lines!Responses(n), Lines!Send(n, r) PROVE LinesInv'
  <2>1. r \in Seq(Piece) BY <1>1, ResponseShape
  <2>2. /\ pc = "idle" /\ pc' \in {"read", "all"} /\ op' = n /\ lines' = {} /\ result' = "none"
        /\ received' = FALSE /\ connection' = "open" /\ UNCHANGED persistent
    BY <1>4 DEF Lines!Send
  <2>3. due = <<>> /\ wire = <<>> BY <2>2 DEF LinesInv, LeftInv
  <2>4. <<>> \o r = r /\ <<>> \o <<>> = <<>> /\ <<>> \in Seq(Piece) BY <2>1, ConcatEmptySeq,
                                                                       EmptySeq
  <2>5. rx' = <<>> /\ wire' = <<>> /\ due' = r BY <1>4, <2>2, <2>3, <2>4 DEF Lines!Send
  <2>6. Left' = r BY <2>4, <2>5 DEF Left
  <2>7. LeftInv'
    <3>1. Lines!Responses(op)' = Lines!Responses(n)
      BY <2>2 DEF Lines!Responses, Lines!Line, Lines!Blank, Lines!Text, Lines!Newline
    <3>2. pc' # "idle" /\ op' > 0 BY <1>1, <2>2
    <3>3. Left' \in Lines!Responses(op)' BY <2>6, <3>1
    <3> QED BY <3>2, <3>3 DEF LeftInv
  <2>8. Lines!TypeOK'
    <3>1. op' \in 0..MaxOps /\ lines' \subseteq 1..MaxOps BY <1>1, <2>2
    <3> QED BY <1>1, <2>1, <2>2, <2>4, <2>5, <3>1 DEF LinesInv, Lines!TypeOK
  <2> QED BY <2>2, <2>7, <2>8 DEF LinesInv, LinesFromOwn
<1>5. CASE Lines!Arrive
  <2>1. PICK k \in 1..Len(due) : wire' = wire \o SubSeq(due, 1, k) /\ due' = SubSeq(due, k + 1, Len(due))
    BY <1>5 DEF Lines!Arrive
  <2>2. due # <<>> /\ UNCHANGED <<pc, persistent, connection, rx, received, op, lines, result>>
    BY <1>5 DEF Lines!Arrive
  <2>3. Len(due) \in Nat /\ \A i \in 1..Len(due) : due[i] \in Piece BY <1>1, ElementOfSeq
  <2>4. SubSeq(due, 1, k) \in Seq(Piece)
    <3>1. \A i \in 1..k : due[i] \in Piece BY <2>3
    <3> QED BY <2>3, <3>1, SubSeqProperties
  <2>5. due' \in Seq(Piece)
    <3>1. \A i \in (k + 1)..Len(due) : due[i] \in Piece BY <2>3
    <3> QED BY <2>1, <2>3, <3>1, SubSeqProperties
  <2>6. SubSeq(due, 1, k) \o due' = due
    <3>1. /\ 1 \in 1..Len(due) + 1 /\ k \in (1 - 1)..Len(due) /\ Len(due) \in k..Len(due)
      BY <2>3
    <3>2. SubSeq(due, 1, k) \o SubSeq(due, k + 1, Len(due)) = SubSeq(due, 1, Len(due))
      BY <1>1, <3>1, ConcatAdjacentSubSeq
    <3> QED BY <1>1, <2>1, <3>2, SubSeqFull
  <2>7. wire' \in Seq(Piece) BY <1>1, <2>1, <2>4, ConcatProperties
  <2>8. Left' = Left
    <3>1. Left' = (rx \o (wire \o SubSeq(due, 1, k))) \o due' BY <2>1, <2>2 DEF Left
    <3>2. rx \o (wire \o SubSeq(due, 1, k)) = (rx \o wire) \o SubSeq(due, 1, k)
      BY <1>1, <2>4, ConcatAssociative
    <3>3. rx \o wire \in Seq(Piece) BY <1>1, ConcatProperties
    <3>4. ((rx \o wire) \o SubSeq(due, 1, k)) \o due' = (rx \o wire) \o (SubSeq(due, 1, k) \o due')
      BY <2>4, <2>5, <3>3, ConcatAssociative
    <3> QED BY <2>6, <3>1, <3>2, <3>4 DEF Left
  <2>9. pc # "idle" BY <2>2 DEF LinesInv, LeftInv
  <2>10. LeftInv' BY <2>2, <2>8, <2>9 DEF LinesInv, LeftInv
  <2>11. connection = "open" BY <2>2 DEF LinesInv, Lines!TypeOK
  <2>12. Lines!TypeOK' BY <1>1, <2>2, <2>5, <2>7, <2>11 DEF LinesInv, Lines!TypeOK
  <2> QED BY <2>2, <2>10, <2>12 DEF LinesInv, LinesFromOwn
<1>6. CASE Lines!Receive
  <2>1. /\ pc # "idle" /\ wire # <<>> /\ rx' = rx \o wire /\ wire' = <<>> /\ received' = TRUE
        /\ UNCHANGED <<pc, persistent, connection, due, op, lines, result>>
    BY <1>6 DEF Lines!Receive
  <2>2. rx' \in Seq(Piece) /\ <<>> \in Seq(Piece) BY <1>1, <2>1, ConcatProperties, EmptySeq
  <2>3. Left' = Left
    <3>1. Left' = ((rx \o wire) \o <<>>) \o due BY <2>1 DEF Left
    <3>2. (rx \o wire) \o <<>> = rx \o wire BY <2>1, <2>2, ConcatEmptySeq
    <3> QED BY <3>1, <3>2 DEF Left
  <2>4. LeftInv' BY <2>1, <2>3 DEF LinesInv, LeftInv
  <2>5. connection = "open" BY <2>1 DEF LinesInv, Lines!TypeOK
  <2>6. Lines!TypeOK' BY <1>1, <2>1, <2>2, <2>5 DEF LinesInv, Lines!TypeOK
  <2> QED BY <2>1, <2>4, <2>6 DEF LinesInv, LinesFromOwn
(* A command fails: its connection is closed. *)
<1>7. ASSUME pc # "idle", NEW e \in {"timeout", "error", "deadline"}, Lines!Fail(e),
             UNCHANGED <<persistent, received, op, lines>>
      PROVE  LinesInv'
  <2>1. /\ pc' = "idle" /\ rx' = <<>> /\ wire' = <<>> /\ due' = <<>> /\ connection' = "closed"
        /\ result' = e
    BY <1>7 DEF Lines!Fail, Lines!Closed
  <2> QED BY <1>1, <1>7, <2>1, EndKeeps DEF LinesInv, Lines!TypeOK
(* It succeeds with lines of its own.                                      *)
<1>8. ASSUME pc # "idle", NEW isolated \in BOOLEAN, NEW rest, Lines!Finish(isolated, rest),
             isolated => rest = <<>> /\ wire = <<>> /\ due = <<>>,
             UNCHANGED <<persistent, received, op>>, lines' \subseteq {op}
      PROVE  LinesInv'
  <2>1. /\ pc' = "idle" /\ rx' = <<>> /\ wire' = <<>> /\ due' = <<>>
        /\ connection' \in {"open", "closed"} /\ result' = "lines"
    BY <1>8, FinishLeaves
  <2>2. received' \in BOOLEAN BY <1>8 DEF LinesInv, Lines!TypeOK
  <2> QED BY <1>1, <1>8, <2>1, <2>2, EndKeeps
<1>9. pc # "idle" => /\ lines \subseteq {op} /\ op \in 1..MaxOps /\ op > 0
                     /\ Left \in Lines!Responses(op)
  BY <1>1 DEF LinesInv, LinesFromOwn, LeftInv
<1>10. wire \o due \in Seq(Piece) /\ Left = rx \o (wire \o due)
  BY <1>1, ConcatProperties, ConcatAssociative DEF Left
<1>11. pc # "idle" => Lines!OpsOf(rx) \subseteq {op}
  BY <1>1, <1>9, <1>10, ReceivedOps
<1>12. CASE Lines!TakeLine
  <2> DEFINE first == Lines!FirstLine(rx)
             rest == Lines!AfterLine(rx)
  <2>1. pc # "idle" /\ Lines!HasLine(rx) /\ UNCHANGED <<persistent, op>>
    BY <1>12 DEF Lines!TakeLine
  <2>2. /\ rest \in Seq(Piece) /\ Lines!OpsOf(first) \subseteq {op}
        /\ \/ Len(first) = 1 /\ rest = <<>> /\ wire \o due = <<>>
           \/ Len(first) > 1 /\ rest \o (wire \o due) \in Lines!Responses(op)
    BY <1>1, <1>9, <1>10, <2>1, FirstLineTaken
  <2>0. \/ Len(first) = 1 /\ Lines!Finish(rest = <<>>, rest) /\ UNCHANGED <<received, lines>>
        \/ /\ Len(first) > 1
           /\ lines' = lines \union Lines!OpsOf(first) /\ rx' = rest
           /\ UNCHANGED <<connection, due, wire, result>>
           /\ IF pc = "read" THEN pc' = "drain" /\ received' = FALSE
                             ELSE UNCHANGED <<pc, received>>
    BY Zenon, <1>12 DEF Lines!TakeLine
  <2> HIDE DEF first, rest
  <2>3. CASE Len(first) = 1
    <3>1. Lines!Finish(rest = <<>>, rest) /\ UNCHANGED <<received, lines>>
      BY <2>0, <2>3
    <3>2. wire = <<>> /\ due = <<>> BY <1>1, <2>2, <2>3, ConcatEqualIffEmpty
    <3> QED BY <1>8, <1>9, <2>1, <3>1, <3>2
  <2>4. CASE Len(first) # 1
    <3>1. /\ lines' = lines \union Lines!OpsOf(first) /\ rx' = rest
          /\ UNCHANGED <<connection, due, wire, result>>
          /\ IF pc = "read" THEN pc' = "drain" /\ received' = FALSE
                            ELSE UNCHANGED <<pc, received>>
      BY <2>0, <2>4
    <3>2. pc' # "idle" /\ pc' \in {"read", "drain", "all"} /\ received' \in BOOLEAN
      BY <2>1, <3>1 DEF LinesInv, Lines!TypeOK
    <3>3. Left' \in Lines!Responses(op)
      <4>1. Left' = (rest \o wire) \o due BY <3>1 DEF Left
      <4>2. (rest \o wire) \o due = rest \o (wire \o due)
        <5>1. rest \in Seq(Piece) /\ wire \in Seq(Piece) /\ due \in Seq(Piece) BY <1>1, <2>2
        <5> QED BY <5>1, ConcatAssociative
      <4> QED BY <2>2, <2>4, <4>1, <4>2
    <3>4. lines' \subseteq {op} BY <1>9, <2>1, <2>2, <3>1
    <3>5. connection = "open"
      <4>1. rx # <<>> BY <2>1 DEF Lines!HasLine
      <4> QED BY <4>1 DEF LinesInv, Lines!TypeOK
    <3>6. lines' \subseteq 1..MaxOps BY <1>9, <2>1, <3>4
    <3>7. Lines!TypeOK' BY <1>1, <2>1, <2>2, <3>1, <3>2, <3>5, <3>6 DEF LinesInv, Lines!TypeOK
    <3>8. LeftInv' BY <1>9, <2>1, <3>2, <3>3 DEF LeftInv
    <3> QED BY <2>1, <3>4, <3>7, <3>8 DEF LinesInv, LinesFromOwn
  <2> QED BY <2>2, <2>3, <2>4
<1>13. CASE Lines!DrainWindowEnds
  <2>1. /\ pc = "drain" /\ wire = <<>> /\ (due = <<>> \/ received)
        /\ Lines!Finish(Lines!TailIsolated, rx) /\ UNCHANGED <<persistent, received, op, lines>>
    BY <1>13 DEF Lines!DrainWindowEnds
  <2>2. Lines!TailIsolated \in BOOLEAN BY DEF Lines!TailIsolated
  <2>3. Lines!TailIsolated => rx = <<>> /\ due = <<>> BY <2>1 DEF Lines!TailIsolated
  <2> QED BY <1>8, <1>9, <2>1, <2>2, <2>3
<1>14. CASE Lines!DrainSkipped BY <1>8, <1>9, <1>14 DEF Lines!DrainSkipped
<1>15. CASE Lines!ConnectionEnds
  <2>1. pc # "idle" /\ UNCHANGED <<persistent, received, op>> BY <1>15 DEF Lines!ConnectionEnds
  <2>2. CASE Lines!Finish(FALSE, <<>>) /\ lines' \in {lines, lines \union Lines!OpsOf(rx)}
    BY <1>8, <1>9, <1>11, <2>1, <2>2
  <2>3. CASE Lines!Fail("error") /\ UNCHANGED lines BY <1>7, <2>1, <2>3
  <2> QED BY <1>15, <2>2, <2>3 DEF Lines!ConnectionEnds, Lines!DrainEndsAt
<1>16. CASE Lines!ReadTimeout
  <2>1. pc # "idle" /\ UNCHANGED <<persistent, received, op, lines>>
    BY <1>16 DEF Lines!ReadTimeout
  <2>2. CASE Lines!Fail("timeout") BY <1>7, <2>1, <2>2
  <2>3. CASE Lines!Finish(FALSE, <<>>) BY <1>8, <1>9, <2>1, <2>3
  <2> QED BY <1>16, <2>2, <2>3 DEF Lines!ReadTimeout
<1>17. CASE Lines!DeadlineExpires BY <1>7, <1>17 DEF Lines!DeadlineExpires
<1> QED
  BY <1>2, <1>3, <1>4, <1>5, <1>6, <1>12, <1>13, <1>14, <1>15, <1>16, <1>17 DEF Lines!Next

-----------------------------------------------------------------------------
(* The threads of the enhanced transport.  That no two are inside needs    *)
(* beside itself that only a thread in a context leaves one: it keeps the  *)
(* counts natural.                                                         *)
ExitsAContext == \A t \in Threads : pc[t] = "exit" => contexts[t] > 0
LockInv == Shared!OneInside /\ ExitsAContext

(* Nobody is inside at first.                                              *)
LEMMA InitLockInv == Shared!Init => LockInv
<1> SUFFICES ASSUME Shared!Init PROVE LockInv OBVIOUS
<1>1. Shared!TypeOK BY DEF Shared!Init, Shared!TypeOK, Shared!Waiting, Shared!Budgeted
<1>2. \A t \in Threads : pc[t] = "body" BY DEF Shared!Init
<1> QED BY <1>1, <1>2 DEF LockInv, Shared!OneInside, ExitsAContext, Shared!Inside

(* A thread's own step within the lock, or while it waits for it, keeps    *)
(* the invariant: one lemma, since every action moves one thread only.     *)
LEMMA StepLockInv ==
  ASSUME LockInv, [Shared!Next]_(Shared!vars)
  PROVE  LockInv'
<1> USE DEF LockInv, Shared!OneInside, Shared!TypeOK, ExitsAContext, Shared!Inside, Shared!Goto,
            Shared!Release, Shared!Waiting, Shared!Budgeted
<1>1. NoThread \notin Threads BY TransportConstants DEF Shared!ThreadConstants
<1>2. CASE UNCHANGED Shared!vars BY <1>2 DEF Shared!vars
<1>3. ASSUME NEW t \in Threads, NEW operation \in Shared!Waiting, Shared!Call(t, operation)
      PROVE  LockInv'
  <2>1. pc[t] = "body" /\ pc' = [pc EXCEPT ![t] = operation] BY <1>3 DEF Shared!Call
  <2>2. operation = "exit" => contexts[t] > 0 BY <1>3 DEF Shared!Call
  <2>3. UNCHANGED <<holder, contexts, depth, connected>> /\ expired' = [expired EXCEPT ![t] = FALSE]
    BY <1>3 DEF Shared!Call
  <2>4. Shared!TypeOK' BY <2>1, <2>3
  <2>5. \A s \in Threads : Shared!Inside(s)' => holder' = s BY <2>1, <2>3
  <2>6. ExitsAContext' BY <2>1, <2>2, <2>3
  <2> QED BY <2>4, <2>5, <2>6
<1>4. ASSUME NEW t \in Threads, Shared!Acquire(t) PROVE LockInv'
  BY <1>1, <1>4 DEF Shared!Acquire, Shared!MayAcquire
<1>5. ASSUME NEW t \in Threads, Shared!Connection(t) PROVE LockInv'
  BY <1>5 DEF Shared!Connection
<1>6. ASSUME NEW t \in Threads, Shared!Progress(t) PROVE LockInv'
  <2>1. CASE Shared!DeadlinePasses(t) BY <2>1 DEF Shared!DeadlinePasses
  <2>2. CASE Shared!LockTimeout(t) BY <2>2 DEF Shared!LockTimeout
  <2>3. CASE Shared!Refuse(t) BY <1>1, <2>3 DEF Shared!Refuse
  <2>4. CASE Shared!Enter(t)
    <3>1. CASE depth = 0 BY <2>4, <3>1 DEF Shared!Enter
    <3>2. CASE depth # 0 BY <1>1, <2>4, <3>2 DEF Shared!Enter
    <3> QED BY <3>1, <3>2
  <2>5. CASE Shared!Opened(t) BY <1>1, <2>5 DEF Shared!Opened
  <2>6. CASE Shared!OpenFails(t)
    <3>1. depth' \in Nat BY <2>6 DEF Shared!OpenFails, Shared!Undone, Shared!OneLess
    <3>2. connected' \in BOOLEAN BY <2>6 DEF Shared!OpenFails
    <3>3. /\ pc' = [pc EXCEPT ![t] = "body"] /\ holder' = NoThread
          /\ UNCHANGED <<expired, contexts>> /\ pc[t] = "opening"
      BY <2>6 DEF Shared!OpenFails
    <3> QED BY <1>1, <3>1, <3>2, <3>3
  <2>7. CASE Shared!BeginRequest(t) BY <2>7 DEF Shared!BeginRequest
  <2>8. CASE Shared!EndRequest(t) BY <1>1, <2>8 DEF Shared!EndRequest
  <2>9. CASE Shared!Exit(t) BY <1>1, <2>9 DEF Shared!Exit, Shared!OneLess, Shared!LastExit
  <2>10. CASE Shared!Close(t) BY <1>1, <2>10 DEF Shared!Close
  <2> QED BY <1>6, <2>1, <2>2, <2>3, <2>4, <2>5, <2>6, <2>7, <2>8, <2>9, <2>10 DEF Shared!Progress
<1> QED BY <1>2, <1>3, <1>4, <1>5, <1>6 DEF Shared!Next

(* The contexts of a thread stay within the bound, also the one it opens.  *)
NestInv ==
  \A t \in Threads : /\ contexts[t] <= MaxNest
                     /\ pc[t] \in {"enter", "opening"} => contexts[t] < MaxNest
DepthInv == LockInv /\ NestInv /\ Shared!DepthCounts

(* Finiteness and cardinality mean the same through the instance.          *)
LEMMA SameFinite ==
  /\ \A S : Shared!IsFiniteSet(S) <=> IsFiniteSet(S)
  /\ \A S : Shared!Cardinality(S) = Cardinality(S)
<1>1. \A S : Shared!IsFiniteSet(S) <=> IsFiniteSet(S)
  BY Zenon DEF Shared!IsFiniteSet, IsFiniteSet
<1>2. \A S : Shared!Cardinality(S) = Cardinality(S) BY Zenon DEF Shared!Cardinality, Cardinality
<1> QED BY <1>1, <1>2

(* The contexts in use and the threads that open are finitely many.        *)
LEMMA FiniteCounts ==
  /\ IsFiniteSet(Shared!InUse) /\ Cardinality(Shared!InUse) \in Nat
  /\ IsFiniteSet(Shared!Opening) /\ Cardinality(Shared!Opening) \in Nat
<1>1. IsFiniteSet(Threads) /\ MaxNest \in Nat
  BY TransportConstants, SameFinite DEF Shared!ThreadConstants
<1>2. IsFiniteSet(1..MaxNest) BY <1>1, FS_Interval
<1>3. IsFiniteSet(Threads \X (1..MaxNest)) BY <1>1, <1>2, FS_Product
<1>4. IsFiniteSet(Shared!InUse) BY <1>3, FS_Subset DEF Shared!InUse
<1>5. IsFiniteSet(Shared!Opening) BY <1>1, FS_Subset DEF Shared!Opening
<1> QED BY <1>4, <1>5, FS_CardinalityType

(* A context entered is one more in use, a context left one less.          *)
LEMMA EnterCounts ==
  ASSUME LockInv, NEW t \in Threads, contexts[t] < MaxNest,
         contexts' = [contexts EXCEPT ![t] = @ + 1]
  PROVE  Cardinality(Shared!InUse)' = Cardinality(Shared!InUse) + 1
<1> DEFINE new == <<t, contexts[t] + 1>>
<1>1. contexts \in [Threads -> Nat] /\ MaxNest \in Nat
  BY TransportConstants DEF LockInv, Shared!OneInside, Shared!TypeOK, Shared!ThreadConstants
<1>2. new \notin Shared!InUse BY <1>1 DEF Shared!InUse
<1>3. Shared!InUse' = Shared!InUse \union {new} BY <1>1 DEF Shared!InUse
<1> HIDE DEF new
<1> QED BY <1>2, <1>3, FiniteCounts, FS_AddElement

LEMMA ExitCounts ==
  ASSUME LockInv, NestInv, NEW t \in Threads, contexts[t] > 0,
         contexts' = [contexts EXCEPT ![t] = @ - 1]
  PROVE  /\ Cardinality(Shared!InUse)' = Cardinality(Shared!InUse) - 1
         /\ Cardinality(Shared!InUse)' \in Nat
<1> DEFINE old == <<t, contexts[t]>>
<1>1. contexts \in [Threads -> Nat] /\ MaxNest \in Nat
  BY TransportConstants DEF LockInv, Shared!OneInside, Shared!TypeOK, Shared!ThreadConstants
<1>2. old \in Shared!InUse BY <1>1 DEF Shared!InUse, NestInv
<1>3. Shared!InUse' = Shared!InUse \ {old} BY <1>1 DEF Shared!InUse
<1> HIDE DEF old
<1>4. IsFiniteSet(Shared!InUse \ {old}) BY FiniteCounts, FS_RemoveElement
<1> QED BY <1>2, <1>3, <1>4, FiniteCounts, FS_RemoveElement, FS_CardinalityType

(* The depth follows every entry and every exit, and an open that fails    *)
(* gives its count back.                                                   *)
LEMMA DepthStep == ASSUME DepthInv, LockInv', [Shared!Next]_(Shared!vars) PROVE DepthInv'
<1> DEFINE used == Cardinality(Shared!InUse)
           openers == Cardinality(Shared!Opening)
<1>1. LockInv /\ NestInv /\ depth = used + openers BY SameFinite DEF DepthInv, Shared!DepthCounts
<1>2. used \in Nat /\ openers \in Nat BY FiniteCounts
<1>3. /\ pc \in [Threads -> Shared!Waiting \union {"body", "opening", "requesting"}]
      /\ contexts \in [Threads -> Nat] /\ MaxNest \in Nat
  BY <1>1, TransportConstants DEF LockInv, Shared!OneInside, Shared!TypeOK, Shared!ThreadConstants
<1>4. ASSUME NestInv', depth' = used' + openers' PROVE DepthInv'
  <2>1. Shared!DepthCounts' BY <1>4, SameFinite DEF Shared!DepthCounts
  <2> QED BY <1>4, <2>1 DEF DepthInv
<1>5. UNCHANGED contexts => used' = used BY DEF Shared!InUse
<1>6. ASSUME UNCHANGED <<contexts, depth>>,
             \A t \in Threads : pc'[t] = "opening" <=> pc[t] = "opening",
             \A t \in Threads : pc'[t] = "enter" => pc[t] = "enter" \/ contexts[t] < MaxNest
      PROVE  DepthInv'
  <2>1. Shared!Opening' = Shared!Opening BY <1>6 DEF Shared!Opening
  <2>2. used' = used /\ openers' = openers BY <1>5, <1>6, <2>1
  <2>3. NestInv' BY <1>1, <1>6 DEF NestInv
  <2> HIDE DEF used, openers
  <2> QED BY <1>1, <1>4, <1>6, <2>2, <2>3
<1> USE DEF Shared!Goto, Shared!Waiting, Shared!Budgeted
<1>7. CASE UNCHANGED Shared!vars BY <1>6, <1>7 DEF Shared!vars
<1>8. ASSUME NEW t \in Threads, NEW operation \in Shared!Waiting, Shared!Call(t, operation)
      PROVE  DepthInv'
  BY <1>3, <1>6, <1>8 DEF Shared!Call
<1>9. ASSUME NEW t \in Threads, Shared!Acquire(t) \/ Shared!Connection(t) PROVE DepthInv'
  BY <1>6, <1>9 DEF Shared!Acquire, Shared!Connection
<1>10. ASSUME NEW t \in Threads, Shared!Progress(t) PROVE DepthInv'
  <2>1. CASE Shared!DeadlinePasses(t) BY <1>6, <2>1 DEF Shared!DeadlinePasses
  <2>2. CASE Shared!LockTimeout(t) BY <1>3, <1>6, <2>2 DEF Shared!LockTimeout
  <2>3. CASE Shared!Refuse(t) BY <1>3, <1>6, <2>3 DEF Shared!Refuse
  <2>4. CASE Shared!Enter(t)
    <3>1. pc[t] = "enter" /\ depth' = depth + 1 /\ contexts[t] < MaxNest
      BY <1>1, <2>4 DEF Shared!Enter, NestInv
    <3>2. CASE depth = 0
      <4>1. pc' = [pc EXCEPT ![t] = "opening"] /\ UNCHANGED contexts BY <2>4, <3>2 DEF Shared!Enter
      <4>2. t \notin Shared!Opening /\ Shared!Opening' = Shared!Opening \union {t}
        BY <1>3, <3>1, <4>1 DEF Shared!Opening
      <4>3. openers' = openers + 1 BY <4>2, FiniteCounts, FS_AddElement
      <4>4. used' = used BY <1>5, <4>1
      <4>5. NestInv' BY <1>1, <1>3, <3>1, <4>1 DEF NestInv
      <4> HIDE DEF used, openers
      <4> QED BY <1>1, <1>2, <1>4, <3>1, <4>3, <4>4, <4>5
    <3>3. CASE depth # 0
      <4>1. pc' = [pc EXCEPT ![t] = "body"] /\ contexts' = [contexts EXCEPT ![t] = @ + 1]
        BY <2>4, <3>3 DEF Shared!Enter
      <4>2. Shared!Opening' = Shared!Opening BY <1>3, <3>1, <4>1 DEF Shared!Opening
      <4>3. openers' = openers BY <4>2
      <4>4. used' = used + 1 BY <1>1, <3>1, <4>1, EnterCounts
      <4>5. NestInv' BY <1>1, <1>3, <3>1, <4>1 DEF NestInv
      <4> HIDE DEF used, openers
      <4> QED BY <1>1, <1>2, <1>4, <3>1, <4>3, <4>4, <4>5
    <3> QED BY <3>2, <3>3
  <2>5. CASE Shared!Opened(t)
    <3>1. /\ pc[t] = "opening" /\ pc' = [pc EXCEPT ![t] = "body"] /\ UNCHANGED depth
          /\ contexts' = [contexts EXCEPT ![t] = @ + 1]
      BY <2>5 DEF Shared!Opened
    <3>2. contexts[t] < MaxNest BY <1>1, <3>1 DEF NestInv
    <3>3. t \in Shared!Opening /\ Shared!Opening' = Shared!Opening \ {t}
      BY <1>3, <3>1 DEF Shared!Opening
    <3>4. openers' = openers - 1 BY <3>3, FiniteCounts, FS_RemoveElement
    <3>5. used' = used + 1 BY <1>1, <3>1, <3>2, EnterCounts
    <3>6. NestInv' BY <1>1, <1>3, <3>1, <3>2 DEF NestInv
    <3> HIDE DEF used, openers
    <3> QED BY <1>1, <1>2, <1>4, <3>1, <3>4, <3>5, <3>6
  <2>6. CASE Shared!OpenFails(t)
    <3>1. /\ pc[t] = "opening" /\ pc' = [pc EXCEPT ![t] = "body"] /\ UNCHANGED contexts
          /\ depth' = Shared!OneLess(depth)
      BY <2>6 DEF Shared!OpenFails, Shared!Undone
    <3>2. t \in Shared!Opening /\ Shared!Opening' = Shared!Opening \ {t}
      BY <1>3, <3>1 DEF Shared!Opening
    <3>3. openers' = openers - 1 /\ openers' \in Nat
      BY <3>2, FiniteCounts, FS_RemoveElement, FS_CardinalityType
    <3>4. used' = used BY <1>5, <3>1
    <3>5. NestInv' BY <1>1, <1>3, <3>1 DEF NestInv
    <3> HIDE DEF used, openers
    <3>6. depth' = depth - 1 BY <1>1, <1>2, <3>1, <3>3 DEF Shared!OneLess
    <3> QED BY <1>1, <1>2, <1>4, <3>3, <3>4, <3>5, <3>6
  <2>7. CASE Shared!BeginRequest(t) BY <1>3, <1>6, <2>7 DEF Shared!BeginRequest
  <2>8. CASE Shared!EndRequest(t) BY <1>3, <1>6, <2>8 DEF Shared!EndRequest
  <2>9. CASE Shared!Exit(t)
    <3>1. /\ pc[t] = "exit" /\ pc' = [pc EXCEPT ![t] = "body"] /\ depth' = Shared!OneLess(depth)
          /\ contexts' = [contexts EXCEPT ![t] = @ - 1] /\ contexts[t] > 0
      BY <1>1, <2>9 DEF Shared!Exit, LockInv, ExitsAContext
    <3>2. Shared!Opening' = Shared!Opening BY <1>3, <3>1 DEF Shared!Opening
    <3>3. openers' = openers BY <3>2
    <3>4. used' = used - 1 /\ used' \in Nat BY <1>1, <3>1, ExitCounts
    <3>5. NestInv' BY <1>1, <1>3, <3>1 DEF NestInv
    <3> HIDE DEF used, openers
    <3>6. depth' = depth - 1 BY <1>1, <1>2, <3>1, <3>4 DEF Shared!OneLess
    <3> QED BY <1>1, <1>2, <1>4, <3>3, <3>4, <3>5, <3>6
  <2>10. CASE Shared!Close(t) BY <1>3, <1>6, <2>10 DEF Shared!Close
  <2> QED
    BY <1>10, <2>1, <2>2, <2>3, <2>4, <2>5, <2>6, <2>7, <2>8, <2>9, <2>10 DEF Shared!Progress
<1> QED BY <1>7, <1>8, <1>9, <1>10 DEF Shared!Next

(* Nothing is counted at first.                                            *)
LEMMA DepthInit == Shared!Init => DepthInv
<1> SUFFICES ASSUME Shared!Init PROVE DepthInv OBVIOUS
<1>1. LockInv BY InitLockInv
<1>2. MaxNest \in Nat BY TransportConstants DEF Shared!ThreadConstants
<1>3. NestInv BY <1>2 DEF Shared!Init, NestInv
<1>4. Shared!InUse = {} /\ Shared!Opening = {}
  BY <1>2 DEF Shared!Init, Shared!InUse, Shared!Opening
<1>5. Shared!DepthCounts BY <1>4, SameFinite, FS_EmptySet DEF Shared!Init, Shared!DepthCounts
<1> QED BY <1>1, <1>3, <1>5 DEF DepthInv

(* The invariant of the threads is inductive.                              *)
LEMMA ThreadsStep == ASSUME DepthInv, [Shared!Next]_(Shared!vars) PROVE DepthInv'
<1>1. LockInv' BY StepLockInv DEF DepthInv
<1> QED BY <1>1, DepthStep

(* Leaving a context: if another thread is in one, the depth is at least   *)
(* two and the connection stays; if no context is left, the depth was one, *)
(* for nobody else can be opening while the lock is held.                  *)
LEMMA ExitSteps ==
  ASSUME DepthInv, NEW t \in Threads, Shared!Exit(t)
  PROVE  /\ connected /\ (\E s \in Threads : s # t /\ contexts[s] > 0) => connected'
         /\ (\A s \in Threads : contexts'[s] = 0) => ~connected'
<1>1. /\ pc[t] = "exit" /\ holder = t /\ connected' = (connected /\ ~Shared!LastExit)
      /\ contexts' = [contexts EXCEPT ![t] = @ - 1] /\ contexts[t] > 0
  BY DEF Shared!Exit, DepthInv, LockInv, ExitsAContext
<1>2. LockInv /\ NestInv /\ depth = Cardinality(Shared!InUse) + Cardinality(Shared!Opening)
  BY SameFinite DEF DepthInv, Shared!DepthCounts
<1>3. contexts \in [Threads -> Nat] /\ MaxNest \in Nat /\ connected \in BOOLEAN
  BY <1>2, TransportConstants DEF LockInv, Shared!OneInside, Shared!TypeOK, Shared!ThreadConstants
<1>4. Shared!Opening = {}
  BY <1>1, <1>2 DEF LockInv, Shared!OneInside, Shared!Inside, Shared!Opening
<1>5. depth = Cardinality(Shared!InUse) BY <1>2, <1>4, FiniteCounts, FS_EmptySet
<1>6. <<t, 1>> \in Shared!InUse BY <1>1, <1>2, <1>3 DEF NestInv, Shared!InUse
<1>7. ASSUME connected, NEW s \in Threads, s # t, contexts[s] > 0 PROVE connected'
  <2>1. <<s, 1>> \in Shared!InUse BY <1>2, <1>3, <1>7 DEF NestInv, Shared!InUse
  <2>2. ~(depth = 1)
    <3> SUFFICES ASSUME depth = 1 PROVE FALSE OBVIOUS
    <3>1. PICK x : Shared!InUse = {x} BY <1>5, FiniteCounts, FS_Singleton
    <3>2. <<t, 1>> = <<s, 1>> BY <1>6, <2>1, <3>1
    <3> QED BY <1>7, <3>2
  <2> QED BY <1>1, <1>7, <2>2 DEF Shared!LastExit
<1>8. ASSUME \A s \in Threads : contexts'[s] = 0 PROVE ~connected'
  <2>1. contexts[t] = 1 /\ \A s \in Threads : s # t => contexts[s] = 0 BY <1>1, <1>3, <1>8
  <2>2. Shared!InUse \subseteq {<<t, 1>>} BY <1>3, <2>1 DEF Shared!InUse
  <2>3. Shared!InUse = {<<t, 1>>} BY <1>6, <2>2
  <2>4. depth = 1 BY <1>5, <2>3, FS_Singleton
  <2> QED BY <1>1, <1>3, <2>4 DEF Shared!LastExit
<1> QED BY <1>7, <1>8

(* Only an exit takes a thread from "exit" back to its caller, and only    *)
(* an Enter or a BeginRequest takes it inside.                             *)
LEMMA ThreadsNow ==
  ASSUME DepthInv, Shared!Next
  PROVE  Shared!SparesNow /\ Shared!ClosesNow /\ Shared!InTimeNow
<1>1. pc \in [Threads -> Shared!Waiting \union {"body", "opening", "requesting"}]
  BY DEF DepthInv, LockInv, Shared!OneInside, Shared!TypeOK
<1>2. ASSUME NEW t \in Threads, pc[t] = "exit", pc'[t] = "body" PROVE Shared!Exit(t)
  <2> USE <1>1 DEF Shared!Goto, Shared!Waiting, Shared!Budgeted
  <2>1. PICK u \in Threads :
          (\E operation \in Shared!Waiting : Shared!Call(u, operation)) \/ Shared!Acquire(u)
            \/ Shared!Connection(u) \/ Shared!Progress(u)
    BY DEF Shared!Next
  <2>2. u = t
    <3>1. \E where : pc' = [pc EXCEPT ![u] = where] \/ pc' = pc
      BY <2>1 DEF Shared!Call, Shared!Acquire, Shared!Connection, Shared!Progress,
         Shared!DeadlinePasses, Shared!LockTimeout, Shared!Refuse, Shared!Enter, Shared!Opened,
         Shared!OpenFails, Shared!BeginRequest, Shared!EndRequest, Shared!Exit, Shared!Close
    <3> QED BY <1>2, <3>1
  <2> QED
    BY <1>2, <2>1, <2>2 DEF Shared!Call, Shared!Acquire, Shared!Connection, Shared!Progress,
       Shared!DeadlinePasses, Shared!LockTimeout, Shared!Refuse, Shared!Enter, Shared!Opened,
       Shared!OpenFails, Shared!BeginRequest, Shared!EndRequest, Shared!Close
<1>3. Shared!SparesNow /\ Shared!ClosesNow
  BY <1>2, ExitSteps DEF Shared!SparesNow, Shared!ClosesNow
<1>4. Shared!InTimeNow
  <2> USE <1>1 DEF Shared!InTimeNow, Shared!Inside, Shared!Goto, Shared!Waiting, Shared!Budgeted
  <2>1. ASSUME NEW t \in Threads, NEW operation \in Shared!Waiting, Shared!Call(t, operation)
        PROVE  Shared!InTimeNow
    BY <2>1 DEF Shared!Call
  <2>2. ASSUME NEW t \in Threads, Shared!Acquire(t) \/ Shared!Connection(t) PROVE Shared!InTimeNow
    BY <2>2 DEF Shared!Acquire, Shared!Connection
  <2>3. ASSUME NEW t \in Threads, Shared!Progress(t) PROVE Shared!InTimeNow
    <3>1. CASE Shared!DeadlinePasses(t) BY <3>1 DEF Shared!DeadlinePasses
    <3>2. CASE Shared!LockTimeout(t) \/ Shared!Refuse(t)
      BY <3>2 DEF Shared!LockTimeout, Shared!Refuse
    <3>3. CASE Shared!Enter(t)
      <4>1. CASE depth = 0 BY <3>3, <4>1 DEF Shared!Enter, Shared!InTime
      <4>2. CASE depth # 0 BY <3>3, <4>2 DEF Shared!Enter, Shared!InTime
      <4> QED BY <4>1, <4>2
    <3>4. CASE Shared!Opened(t) \/ Shared!OpenFails(t)
      BY <3>4 DEF Shared!Opened, Shared!OpenFails
    <3>5. CASE Shared!BeginRequest(t) BY <3>5 DEF Shared!BeginRequest, Shared!InTime
    <3>6. CASE Shared!EndRequest(t) \/ Shared!Exit(t) \/ Shared!Close(t)
      BY <3>6 DEF Shared!EndRequest, Shared!Exit, Shared!Close
    <3> QED BY <2>3, <3>1, <3>2, <3>3, <3>4, <3>5, <3>6 DEF Shared!Progress
  <2> QED BY <2>1, <2>2, <2>3 DEF Shared!Next
<1> QED BY <1>3, <1>4

-----------------------------------------------------------------------------
(* The ebusd policy.  Attempts are paid for: by a timeout retry, by a      *)
(* collision retry, by the one reconnect, or by a poll of a no-signal      *)
(* window, and a window pays for no more polls than pauses of Lost begin   *)
(* within NoSignalMax.  The same invariant shows that no attempt begins    *)
(* inside a pause and that every step is one RequestContract allows.       *)
Reconnected == IF connection_retried THEN 1 ELSE 0
Under == IF pc = "attempt" THEN 1 ELSE 0
Polls == request_attempts - timeout_retries - collision_retries - Reconnected - Under
(* The polls of the window that is open, if every one before it was full.  *)
Polled == Polls - collision_retries * Policy!PollsPerWindow

(* A window has taken at least Lost for each of its polls, up to the       *)
(* deadline, after which nothing is admitted.                              *)
WindowInv ==
  pc # "idle" =>
    /\ timeout_retries <= TimeoutMax /\ collision_retries <= CollisionMax
    /\ Polled <= Policy!PollsPerWindow
    /\ no_signal_start = Policy!None => Polled <= 0
    /\ no_signal_start # Policy!None =>
         /\ no_signal_start <= elapsed
         /\ (Policy!Expired /\ pc # "attempt") \/ Lost * Polled <= elapsed - no_signal_start

(* The reconnect announced is the one the last failure asks for.           *)
ReconnectInv ==
  /\ reconnect_attempts = reconnects_begun
  /\ pc \in {"check", "hook"} => (reconnect_pending <=> last \in Policy!ConnectionLevel)
  /\ pc = "attempt" => ~reconnect_pending
  /\ pc # "idle" =>
       /\ ~connection_retried => reconnect_attempts = 0 /\ ~reconnect_pending
       /\ reconnect_pending => reconnect_attempts = 0

(* A request outside the recognized reads has no second attempt.           *)
WriteInv ==
  ~retry_safe => /\ request_attempts <= 1
                 /\ pc \in {"check", "hook"} => request_attempts = 0

(* The pause the last failure asks for is over, or the deadline is.        *)
QuietInv == pc # "idle" => quiet_until <= elapsed \/ Policy!Expired

(* What returns a reply was admitted.                                      *)
AdmittedInv == pc = "attempt" => request_attempts > 0

PolicyInv ==
  /\ Policy!TypeOK /\ WindowInv /\ ReconnectInv /\ WriteInv /\ Policy!AttemptsBounded
  /\ Policy!FreshAfterConnectionFailure /\ QuietInv /\ AdmittedInv

QuietNow == request_attempts' = request_attempts + 1 => elapsed >= quiet_until

PolicyContract == INSTANCE RequestContract WITH
              running <- pc # "idle", safe <- retry_safe, admitted <- request_attempts,
              spent <- Policy!Expired, answer <- Policy!Answer

-----------------------------------------------------------------------------
(* Polls of L units each that began within N units.                        *)
LEMMA PollsFit ==
  ASSUME NEW L \in Nat \ {0}, NEW N \in Nat \ {0}, NEW q \in Int, NEW d \in Int,
         L * q <= d, d < N
  PROVE  q + 1 <= (N + L - 1) \div L
<1> DEFINE k == (N + L - 1) \div L
<1>1. k \in Int /\ L * k <= N + L - 1 /\ N + L - 1 < L * k + L OBVIOUS
<1>2. L * q < L * k BY <1>1
<1> HIDE DEF k
<1>3. q < k
  <2> SUFFICES ASSUME k <= q PROVE FALSE BY <1>1
  <2>1. L * k <= L * q BY <1>1
  <2> QED BY <1>1, <1>2, <2>1
<1> QED BY <1>1, <1>3 DEF k

(* At least one poll begins in a window.                                   *)
LEMMA WindowType ==
  ASSUME Policy!EbusdConstants PROVE Policy!PollsPerWindow \in Nat \ {0}
<1>1. Lost * 0 <= 0 /\ NoSignalMax \in Nat \ {0} /\ Lost \in Nat \ {0} BY DEF Policy!EbusdConstants
<1>2. 0 + 1 <= (NoSignalMax + Lost - 1) \div Lost BY <1>1, PollsFit
<1>3. (NoSignalMax + Lost - 1) \div Lost \in Int BY <1>1
<1> QED BY <1>2, <1>3 DEF Policy!PollsPerWindow

(* An attempt under way is paid for.                                       *)
LEMMA AttemptPaid ==
  ASSUME Policy!EbusdConstants, Policy!TypeOK, WindowInv, pc # "idle" PROVE Policy!AttemptsBounded
<1> DEFINE P == Policy!PollsPerWindow
           c == collision_retries
<1>1. P \in Nat \ {0} BY WindowType
<1>2. /\ c \in 0..CollisionMax /\ CollisionMax \in Nat /\ TimeoutMax \in Nat
      /\ timeout_retries \in 0..TimeoutMax /\ request_attempts \in Nat
  BY DEF Policy!TypeOK, WindowInv, Policy!EbusdConstants
<1>3. request_attempts - timeout_retries - c - Reconnected - Under - c * P <= P
  BY DEF WindowInv, Polled, Polls
<1>4. Reconnected \in 0..1 /\ Under \in 0..1 BY DEF Reconnected, Under
<1> HIDE DEF P, c
<1>5. c * P <= CollisionMax * P /\ c * P \in Nat BY <1>1, <1>2
<1>6. request_attempts <= 2 + TimeoutMax + CollisionMax + (CollisionMax * P + P)
  BY <1>1, <1>2, <1>3, <1>4, <1>5
<1>7. (CollisionMax + 1) * P = CollisionMax * P + P BY <1>1, <1>2
<1> QED BY <1>6, <1>7, <1>1, <1>2 DEF Policy!AttemptsBounded, P

-----------------------------------------------------------------------------
(* Nothing has been asked of the transport.                                *)
LEMMA PolicyInit == Policy!EbusdConstants /\ Policy!Init => PolicyInv
<1> SUFFICES ASSUME Policy!EbusdConstants, Policy!Init PROVE PolicyInv OBVIOUS
<1> USE DEF Policy!Init
<1>1. Policy!TypeOK
  <2>1. /\ retry_safe \in BOOLEAN /\ hooked \in BOOLEAN /\ persistent \in BOOLEAN
        /\ connection_retried \in BOOLEAN /\ reconnect_pending \in BOOLEAN
    OBVIOUS
  <2>2. 0 \in 0..Budget /\ 0 \in 0..(Budget + Settle + Lost) BY DEF Policy!EbusdConstants
  <2>3. 0 \in 0..(TimeoutMax + 1) /\ 0 \in 0..(CollisionMax + 1) BY DEF Policy!EbusdConstants
  <2>4. no_signal_start = Policy!None /\ outcome \in Policy!Outcomes BY DEF Policy!Outcomes
  <2> QED BY <2>1, <2>2, <2>3, <2>4 DEF Policy!TypeOK
<1>2. Policy!AttemptsBounded
  <2>1. (CollisionMax + 1) * Policy!PollsPerWindow \in Nat BY WindowType DEF Policy!EbusdConstants
  <2> QED BY <2>1 DEF Policy!AttemptsBounded, Policy!EbusdConstants
<1> QED BY <1>1, <1>2 DEF PolicyInv, WindowInv, ReconnectInv, WriteInv,
           Policy!FreshAfterConnectionFailure,
        QuietInv, AdmittedInv

(* Every value keeps its type: the limits bound the counts the failures    *)
(* leave, and the deadline bounds the time.                                *)
LEMMA PolicyTypeStep ==
  ASSUME Policy!EbusdConstants, Policy!TypeOK, WindowInv, ReconnectInv, [Policy!Next]_(Policy!vars)
  PROVE  Policy!TypeOK'
<1> USE DEF Policy!request, Policy!counters, Policy!reconnects, Policy!Leave
<1>1. CASE UNCHANGED Policy!vars BY <1>1 DEF Policy!TypeOK, Policy!vars
<1>2. CASE Policy!SessionContext BY <1>2 DEF Policy!TypeOK, Policy!SessionContext, Policy!Outcomes
<1>3. CASE Policy!Begin
  <2>1. /\ retry_safe' \in BOOLEAN /\ hooked' \in BOOLEAN /\ persistent' \in BOOLEAN
        /\ connection_retried' \in BOOLEAN /\ reconnect_pending' \in BOOLEAN
        /\ session' \in {"open", "closed"}
    BY <1>3 DEF Policy!TypeOK, Policy!Begin
  <2>2. 0 \in 0..Budget /\ 0 \in 0..(Budget + Settle + Lost) BY DEF Policy!EbusdConstants
  <2>3. 0 \in 0..(TimeoutMax + 1) /\ 0 \in 0..(CollisionMax + 1) BY DEF Policy!EbusdConstants
  <2>4. no_signal_start' = Policy!None /\ outcome' \in Policy!Outcomes BY <1>3 DEF Policy!Begin,
                                                                          Policy!Outcomes
  <2>5. /\ elapsed' = 0 /\ request_attempts' = 0 /\ timeout_retries' = 0 /\ collision_retries' = 0
        /\ reconnect_attempts' = 0 /\ reconnects_begun' = 0 /\ quiet_until' = 0 /\ last' = "none"
        /\ pc' = "check"
    BY <1>3 DEF Policy!Begin
  <2> QED BY <2>1, <2>2, <2>3, <2>4, <2>5 DEF Policy!TypeOK
<1>4. CASE Policy!DeadlineExpires BY <1>4 DEF Policy!TypeOK, Policy!DeadlineExpires, Policy!Outcomes
<1>5. CASE Policy!CallHook BY <1>5 DEF Policy!TypeOK, Policy!CallHook
<1>6. CASE Policy!HookRaises BY <1>6 DEF Policy!TypeOK, Policy!HookRaises, Policy!Outcomes
<1>7. CASE Policy!Admit
  <2>1. reconnect_pending' \in BOOLEAN BY <1>7 DEF Policy!Admit
  <2>2. reconnect_attempts' \in 0..1 /\ reconnects_begun' \in 0..1 /\ request_attempts' \in Nat
    BY <1>7 DEF Policy!Admit, Policy!HookInTime, ReconnectInv, Policy!TypeOK
  <2> QED BY <1>7, <2>1, <2>2 DEF Policy!TypeOK, Policy!Admit
<1>8. CASE Policy!Tick BY <1>8 DEF Policy!TypeOK, Policy!Tick, Policy!Expired, Policy!EbusdConstants
<1>9. ASSUME NEW s \in {"open", "closed"}, Policy!AttemptReturns(s) PROVE Policy!TypeOK'
  BY <1>9 DEF Policy!TypeOK, Policy!AttemptReturns, Policy!Ended, Policy!Outcomes
<1>10. ASSUME NEW s \in {"open", "closed"}, Policy!OnErrTimeout(s) PROVE Policy!TypeOK'
  BY <1>10 DEF Policy!TypeOK, Policy!OnErrTimeout, Policy!Ended, Policy!GiveUp, Policy!RetryAfter,
     Policy!Later, Policy!Quiet, Policy!Outcomes, Policy!Failures,
     Policy!AttemptEnds, WindowInv, Policy!EbusdConstants
<1>11. ASSUME NEW s \in {"open", "closed"}, Policy!OnNoSignal(s) PROVE Policy!TypeOK'
  BY <1>11 DEF Policy!TypeOK, Policy!OnNoSignal, Policy!Ended, Policy!GiveUp, Policy!RetryAfter,
     Policy!Later, Policy!LostBackoff, Policy!Quiet, Policy!Outcomes,
     Policy!Failures, Policy!AttemptEnds, Policy!EbusdConstants
<1>12. ASSUME NEW s \in {"open", "closed"}, Policy!OnCollision(s) PROVE Policy!TypeOK'
  BY <1>12 DEF Policy!TypeOK, Policy!OnCollision, Policy!CollisionsLeft, Policy!Ended,
     Policy!GiveUp, Policy!RetryAfter, Policy!Later, Policy!Quiet, Policy!Outcomes,
     Policy!Failures, Policy!AttemptEnds, WindowInv, Policy!EbusdConstants
<1>13. ASSUME NEW s \in {"open", "closed"}, NEW e \in Policy!Failures, Policy!NotRetried(e, s)
       PROVE  Policy!TypeOK'
  BY <1>13 DEF Policy!TypeOK, Policy!NotRetried, Policy!Ended, Policy!Outcomes, Policy!None
<1>14. ASSUME NEW s \in {"open", "closed"}, NEW e \in Policy!Failures,
              Policy!OnConnectionFailure(e, s)
       PROVE  Policy!TypeOK'
  BY <1>14 DEF Policy!TypeOK, Policy!OnConnectionFailure, Policy!ClosedAfterFailure,
     Policy!ReconnectPending, Policy!Ended, Policy!Outcomes
<1> QED
  BY <1>1, <1>2, <1>3, <1>4, <1>5, <1>6, <1>7, <1>8, <1>9, <1>10, <1>11, <1>12, <1>13, <1>14
  DEF Policy!Next, Policy!Step, Policy!Handler

(* A poll is paid for by the pause before the next one.                    *)
LEMMA WindowStep ==
  ASSUME Policy!EbusdConstants, Policy!TypeOK, Policy!TypeOK', WindowInv,
         [Policy!Next]_(Policy!vars)
  PROVE  WindowInv'
<1>0. Policy!PollsPerWindow \in Nat \ {0} /\ Policy!PollsPerWindow' = Policy!PollsPerWindow
  BY WindowType DEF Policy!PollsPerWindow
<1>a. Polled \in Int /\ Lost * Polled \in Int
  BY <1>0 DEF Polled, Polls, Under, Reconnected, Policy!TypeOK, Policy!EbusdConstants
<1> USE DEF Policy!request, Policy!counters, Policy!Leave
<1>1. CASE UNCHANGED Policy!vars BY <1>1 DEF WindowInv, Policy!vars, Polled, Polls, Under,
                                    Reconnected, Policy!Expired
<1>2. CASE Policy!SessionContext \/ Policy!DeadlineExpires \/ Policy!HookRaises
  BY <1>2 DEF WindowInv, Policy!SessionContext, Policy!DeadlineExpires, Policy!HookRaises
<1>3. CASE Policy!Begin
  <2>1. Polled' = 0 BY <1>0, <1>3 DEF Policy!Begin, Polled, Polls, Under, Reconnected
  <2> QED BY <1>0, <1>3, <2>1 DEF Policy!Begin, WindowInv, Policy!EbusdConstants
<1>4. CASE Policy!CallHook
  <2>1. Polled' = Polled BY <1>4 DEF Policy!CallHook, Polled, Polls, Under, Reconnected
  <2> QED BY <1>0, <1>4, <2>1 DEF Policy!CallHook, WindowInv, Policy!Expired
<1>5. CASE Policy!Admit
  <2>1. Polled' = Polled
    BY <1>0, <1>5 DEF Policy!Admit, Policy!HookInTime, Polled, Polls, Under, Reconnected,
       Policy!TypeOK
  <2> QED BY <1>0, <1>5, <2>1 DEF Policy!Admit, Policy!HookInTime, WindowInv, Policy!Expired
<1>6. CASE Policy!Tick
  <2>1. Polled' = Polled BY <1>6 DEF Policy!Tick, Polled, Polls, Under, Reconnected
  <2> QED BY <1>0, <1>a, <1>6, <2>1 DEF Policy!Tick, WindowInv, Policy!Expired, Policy!TypeOK,
             Policy!EbusdConstants
<1>7. ASSUME NEW s \in {"open", "closed"}, Policy!AttemptReturns(s) PROVE WindowInv'
  BY <1>7 DEF Policy!AttemptReturns, WindowInv
<1>8. ASSUME NEW s \in {"open", "closed"}, NEW e \in Policy!Failures, Policy!NotRetried(e, s)
      PROVE  WindowInv'
  BY <1>8 DEF Policy!NotRetried, WindowInv
<1>9. ASSUME NEW s \in {"open", "closed"}, Policy!OnErrTimeout(s) PROVE WindowInv'
  <2>1. CASE timeout_retries' > TimeoutMax BY <1>9, <2>1 DEF Policy!OnErrTimeout, Policy!GiveUp,
                                              WindowInv
  <2>2. CASE ~(timeout_retries' > TimeoutMax)
    <3>1. Polled' = Polled
      BY <1>0, <1>9, <2>2 DEF Policy!OnErrTimeout, Policy!Ended, Policy!RetryAfter, Polled, Polls,
         Under, Reconnected, Policy!TypeOK
    <3>2. elapsed <= elapsed'
      BY <1>9, <2>2 DEF Policy!OnErrTimeout, Policy!RetryAfter, Policy!Later, Policy!TypeOK,
         Policy!EbusdConstants
    <3>3. timeout_retries' <= TimeoutMax BY <1>9, <2>2 DEF Policy!OnErrTimeout, Policy!TypeOK,
                                            Policy!EbusdConstants
    <3> QED BY <1>0, <1>a, <1>9, <2>2, <3>1, <3>2, <3>3
        DEF Policy!OnErrTimeout, Policy!Ended, Policy!RetryAfter, WindowInv, Policy!Expired,
            Policy!TypeOK, Policy!EbusdConstants
  <2> QED BY <2>1, <2>2
<1>10. ASSUME NEW s \in {"open", "closed"}, Policy!OnNoSignal(s) PROVE WindowInv'
  <2> DEFINE waited == elapsed - no_signal_start'
  <2>1. CASE waited >= NoSignalMax BY <1>10, <2>1 DEF Policy!OnNoSignal, Policy!GiveUp, WindowInv
  <2>2. CASE ~(waited >= NoSignalMax)
    <3>1. Polled' = Polled + 1
      BY <1>0, <1>10, <2>2 DEF Policy!OnNoSignal, Policy!Ended, Policy!RetryAfter, Polled, Polls,
         Under, Reconnected, Policy!TypeOK
    <3>2. waited \in Nat /\ Lost * Polled <= waited
      <4>1. CASE no_signal_start = Policy!None
        <5>1. waited = 0 /\ Polled <= 0
          BY <1>10, <4>1 DEF Policy!OnNoSignal, Policy!Ended, WindowInv, Policy!TypeOK
        <5>2. Lost * Polled <= 0 BY <1>a, <5>1 DEF Policy!EbusdConstants
        <5> QED BY <5>1, <5>2
      <4>2. CASE no_signal_start # Policy!None
        BY <1>a, <1>10, <4>2 DEF Policy!OnNoSignal, Policy!Ended, WindowInv, Policy!TypeOK,
           Policy!None, Policy!EbusdConstants
      <4> QED BY <4>1, <4>2
    <3>3. Polled + 1 <= Policy!PollsPerWindow
      <4>1. waited \in Int /\ waited < NoSignalMax BY <2>2, <3>2 DEF Policy!EbusdConstants
      <4> HIDE DEF waited
      <4> QED BY <1>a, <3>2, <4>1, PollsFit DEF Policy!PollsPerWindow, Policy!EbusdConstants
    <3>4. no_signal_start' # Policy!None /\ no_signal_start' <= elapsed /\ no_signal_start' \in Nat
      BY <1>10 , <3>2 DEF Policy!OnNoSignal, Policy!TypeOK, Policy!None
    <3>5. pc' = "check" /\ (elapsed' = Budget \/ elapsed' = elapsed + Lost)
      BY <1>10, <2>2 DEF Policy!OnNoSignal, Policy!RetryAfter, Policy!Later, Policy!LostBackoff
    <3>6. elapsed <= elapsed' BY <3>5 DEF Policy!TypeOK, Policy!EbusdConstants
    <3>7. Lost * (Polled + 1) <= waited + Lost
      <4>1. Lost * (Polled + 1) = Lost * Polled + Lost BY <1>a DEF Policy!EbusdConstants
      <4> QED BY <1>a, <3>2, <4>1 DEF Policy!EbusdConstants
    <3>8. Policy!Expired' \/ Lost * Polled' <= elapsed' - no_signal_start'
      <4>1. CASE elapsed' = Budget BY <4>1 DEF Policy!Expired, Policy!EbusdConstants
      <4>2. CASE elapsed' = elapsed + Lost
        <5>1. elapsed' - no_signal_start' = waited + Lost
          BY <3>4, <4>2 DEF Policy!TypeOK, Policy!EbusdConstants
        <5> QED BY <3>1, <3>7, <5>1
      <4> QED BY <3>5, <4>1, <4>2
    <3>9. timeout_retries' <= TimeoutMax /\ collision_retries' <= CollisionMax
      BY <1>10 DEF Policy!OnNoSignal, Policy!Ended, WindowInv
    <3> QED BY <1>0, <3>1, <3>3, <3>4, <3>5, <3>6, <3>8, <3>9 DEF WindowInv, Policy!TypeOK
  <2> QED BY <2>1, <2>2
<1>11. ASSUME NEW s \in {"open", "closed"}, Policy!OnCollision(s) PROVE WindowInv'
  <2>1. CASE ~Policy!CollisionsLeft BY <1>11, <2>1 DEF Policy!OnCollision, Policy!GiveUp, WindowInv
  <2>2. CASE Policy!CollisionsLeft
    <3>1. collision_retries' = collision_retries + 1 /\ collision_retries' <= CollisionMax
      BY <1>11, <2>2 DEF Policy!OnCollision, Policy!CollisionsLeft
    <3>2. (collision_retries + 1) * Policy!PollsPerWindow =
            collision_retries * Policy!PollsPerWindow + Policy!PollsPerWindow
      BY <1>0 DEF Policy!TypeOK, Policy!EbusdConstants
    <3>3. Polls' = Polls
      BY <1>11, <2>2 DEF Policy!OnCollision, Policy!Ended, Policy!RetryAfter, Polls, Under,
         Reconnected, Policy!TypeOK
    <3>4. Polls \in Int BY DEF Polls, Under, Reconnected, Policy!TypeOK
    <3>5. collision_retries * Policy!PollsPerWindow \in Int BY <1>0 DEF Policy!TypeOK
    <3>6. Polled' = Polled - Policy!PollsPerWindow
      BY <1>0, <3>1, <3>2, <3>3, <3>4, <3>5 DEF Polled
    <3>7. Polled <= Policy!PollsPerWindow /\ timeout_retries <= TimeoutMax
      BY <1>11 DEF Policy!OnCollision, Policy!Ended, WindowInv
    <3>8. Polled' <= 0 BY <1>0, <1>a, <3>6, <3>7
    <3> QED BY <1>0, <1>a, <1>11, <2>2, <3>1, <3>6, <3>7, <3>8
        DEF Policy!OnCollision, Policy!RetryAfter, WindowInv
  <2> QED BY <2>1, <2>2
<1>12. ASSUME NEW s \in {"open", "closed"}, NEW e \in Policy!Failures,
              Policy!OnConnectionFailure(e, s)
       PROVE  WindowInv'
  <2>1. CASE connection_retried BY <1>12, <2>1 DEF Policy!OnConnectionFailure, WindowInv
  <2>2. CASE ~connection_retried
    <3>1. Polled' = Polled
      BY <1>0, <1>12, <2>2 DEF Policy!OnConnectionFailure, Policy!Ended, Polled, Polls, Under,
         Reconnected, Policy!TypeOK
    <3> QED BY <1>0, <1>12, <2>2, <3>1 DEF Policy!OnConnectionFailure, Policy!Ended, WindowInv,
               Policy!Expired
  <2> QED BY <2>1, <2>2
<1> QED
  BY <1>1, <1>2, <1>3, <1>4, <1>5, <1>6, <1>7, <1>8, <1>9, <1>10, <1>11, <1>12 DEF Policy!Next,
     Policy!Step, Policy!Handler

-----------------------------------------------------------------------------
(* What the handlers do to the reconnect announced, to a write and to the  *)
(* connection: the four facts the rest of the invariant needs of them.     *)
LEMMA HandlerStep ==
  ASSUME Policy!TypeOK, ReconnectInv, WriteInv, Policy!Handler
  PROVE  /\ pc = "attempt" /\ pc' \in {"idle", "check"}
         /\ UNCHANGED <<retry_safe, request_attempts, reconnect_attempts, reconnects_begun>>
         /\ pc' = "check" =>
              /\ retry_safe
              /\ reconnect_pending' <=> last' \in Policy!ConnectionLevel
              /\ last' \in Policy!ConnectionLevel => session' = "closed"
              /\ reconnect_pending' => ~connection_retried /\ connection_retried'
              /\ connection_retried => connection_retried'
<1> USE DEF Policy!Ended, Policy!request, Policy!Leave, Policy!MayRetry, ReconnectInv,
            Policy!ConnectionLevel, Policy!TypeOK
<1>1. ASSUME NEW s \in {"open", "closed"}, Policy!AttemptReturns(s) PROVE pc' = "idle"
  BY <1>1 DEF Policy!AttemptReturns
<1>2. ASSUME NEW s \in {"open", "closed"}, NEW e \in Policy!Failures, Policy!NotRetried(e, s)
      PROVE  pc' = "idle"
  BY <1>2 DEF Policy!NotRetried
<1>3. ASSUME NEW s \in {"open", "closed"},
             Policy!OnErrTimeout(s) \/ Policy!OnNoSignal(s) \/ Policy!OnCollision(s)
      PROVE  /\ pc' \in {"idle", "check"} /\ retry_safe
             /\ last' \notin Policy!ConnectionLevel /\ ~reconnect_pending'
             /\ UNCHANGED connection_retried
  BY <1>3 DEF Policy!OnErrTimeout, Policy!OnNoSignal, Policy!OnCollision, Policy!GiveUp,
     Policy!RetryAfter
<1>4. ASSUME NEW s \in {"open", "closed"}, NEW e \in Policy!Failures, Policy!OnConnectionFailure(e,
             s)
      PROVE  /\ retry_safe /\ last' \in Policy!ConnectionLevel /\ session' = "closed"
             /\ \/ pc' = "check" /\ reconnect_pending' /\ ~connection_retried /\ connection_retried'
                \/ pc' = "idle"
  BY <1>4 DEF Policy!OnConnectionFailure, Policy!ClosedAfterFailure, Policy!ReconnectPending
<1>5. /\ pc = "attempt"
      /\ UNCHANGED <<retry_safe, request_attempts, reconnect_attempts, reconnects_begun>>
  BY DEF Policy!Handler, Policy!AttemptReturns, Policy!NotRetried, Policy!OnErrTimeout,
     Policy!OnNoSignal, Policy!OnCollision, Policy!OnConnectionFailure
<1> QED BY <1>1, <1>2, <1>3, <1>4, <1>5 DEF Policy!Handler

(* The reconnect announced is begun by the next attempt, and only once.    *)
LEMMA ReconnectStep ==
  ASSUME Policy!TypeOK, ReconnectInv, WriteInv, [Policy!Next]_(Policy!vars) PROVE ReconnectInv'
<1> USE DEF ReconnectInv, Policy!request, Policy!counters, Policy!reconnects, Policy!Leave
<1>1. CASE UNCHANGED Policy!vars BY <1>1 DEF Policy!vars
<1>2. CASE Policy!SessionContext \/ Policy!DeadlineExpires \/ Policy!HookRaises
  BY <1>2 DEF Policy!SessionContext, Policy!DeadlineExpires, Policy!HookRaises
<1>3. CASE Policy!Begin BY <1>3 DEF Policy!Begin, Policy!ConnectionLevel
<1>4. CASE Policy!CallHook \/ Policy!Tick BY <1>4 DEF Policy!CallHook, Policy!Tick
<1>5. CASE Policy!Admit BY <1>5 DEF Policy!Admit, Policy!HookInTime, Policy!TypeOK
<1>6. CASE Policy!Handler BY <1>6, HandlerStep DEF Policy!TypeOK
<1> QED BY <1>1, <1>2, <1>3, <1>4, <1>5, <1>6 DEF Policy!Next, Policy!Step

(* Only a recognized read comes back to the loop head after an attempt.    *)
LEMMA WriteStep ==
  ASSUME Policy!TypeOK, ReconnectInv, WriteInv, [Policy!Next]_(Policy!vars) PROVE WriteInv'
<1> USE DEF WriteInv, Policy!request, Policy!Leave
<1>1. CASE UNCHANGED Policy!vars BY <1>1 DEF Policy!vars
<1>2. CASE Policy!SessionContext \/ Policy!DeadlineExpires \/ Policy!HookRaises
  BY <1>2 DEF Policy!SessionContext, Policy!DeadlineExpires, Policy!HookRaises
<1>3. CASE Policy!Begin BY <1>3 DEF Policy!Begin
<1>4. CASE Policy!CallHook \/ Policy!Tick BY <1>4 DEF Policy!CallHook, Policy!Tick
<1>5. CASE Policy!Admit BY <1>5 DEF Policy!Admit, Policy!HookInTime, Policy!TypeOK
<1>6. CASE Policy!Handler BY <1>6, HandlerStep
<1> QED BY <1>1, <1>2, <1>3, <1>4, <1>5, <1>6 DEF Policy!Next, Policy!Step

(* A retry after a connection-level failure finds the connection closed.   *)
LEMMA FreshStep ==
  ASSUME Policy!TypeOK, ReconnectInv, WriteInv, Policy!FreshAfterConnectionFailure,
         [Policy!Next]_(Policy!vars)
  PROVE  Policy!FreshAfterConnectionFailure'
<1> USE DEF Policy!FreshAfterConnectionFailure, Policy!request, Policy!Leave
<1>1. CASE UNCHANGED Policy!vars BY <1>1 DEF Policy!vars
<1>2. CASE Policy!SessionContext \/ Policy!DeadlineExpires \/ Policy!HookRaises
  BY <1>2 DEF Policy!SessionContext, Policy!DeadlineExpires, Policy!HookRaises
<1>3. CASE Policy!Begin BY <1>3 DEF Policy!Begin, Policy!ConnectionLevel
<1>4. CASE Policy!CallHook \/ Policy!Tick BY <1>4 DEF Policy!CallHook, Policy!Tick
<1>5. CASE Policy!Admit BY <1>5 DEF Policy!Admit
<1>6. CASE Policy!Handler BY <1>6, HandlerStep
<1> QED BY <1>1, <1>2, <1>3, <1>4, <1>5, <1>6 DEF Policy!Next, Policy!Step

(* A retry waits out the pause its failure asks for, unless the deadline   *)
(* passes first.                                                           *)
LEMMA QuietStep == ASSUME Policy!EbusdConstants, Policy!TypeOK, QuietInv,
                          [Policy!Next]_(Policy!vars)
                   PROVE  QuietInv'
<1> USE DEF QuietInv, Policy!Expired, Policy!request, Policy!Leave
<1>1. CASE UNCHANGED Policy!vars BY <1>1 DEF Policy!vars
<1>2. CASE Policy!SessionContext \/ Policy!DeadlineExpires \/ Policy!HookRaises
  BY <1>2 DEF Policy!SessionContext, Policy!DeadlineExpires, Policy!HookRaises
<1>3. CASE Policy!Begin BY <1>3 DEF Policy!Begin
<1>4. CASE Policy!CallHook \/ Policy!Admit BY <1>4 DEF Policy!CallHook, Policy!Admit,
                                              Policy!HookInTime
<1>5. CASE Policy!Tick BY <1>5 DEF Policy!Tick, Policy!TypeOK, Policy!EbusdConstants
<1>6. ASSUME NEW s \in {"open", "closed"}, Policy!AttemptReturns(s) PROVE QuietInv'
  BY <1>6 DEF Policy!AttemptReturns
<1>7. ASSUME NEW s \in {"open", "closed"}, NEW e \in Policy!Failures,
             Policy!NotRetried(e, s) \/ Policy!OnConnectionFailure(e, s)
      PROVE  QuietInv'
  BY <1>7 DEF Policy!NotRetried, Policy!OnConnectionFailure, Policy!Ended
<1>8. ASSUME NEW s \in {"open", "closed"},
             Policy!OnErrTimeout(s) \/ Policy!OnNoSignal(s) \/ Policy!OnCollision(s)
      PROVE  QuietInv'
  <2>1. CASE pc' = "idle" BY <2>1
  <2>2. ASSUME NEW e, NEW d \in Nat, Policy!Quiet[e] = d, Policy!RetryAfter(e, d) PROVE QuietInv'
    BY <2>2 DEF Policy!RetryAfter, Policy!Later, Policy!TypeOK, Policy!EbusdConstants
  <2>3. /\ Settle \in Nat /\ Lost \in Nat /\ Policy!Quiet["err_timeout"] = Settle
        /\ Policy!Quiet["collision"] = Settle /\ Policy!Quiet["no_signal"] = Lost
    BY DEF Policy!Quiet, Policy!EbusdConstants
  <2> QED BY <1>8, <2>1, <2>2, <2>3 DEF Policy!OnErrTimeout, Policy!OnNoSignal, Policy!OnCollision,
             Policy!GiveUp, Policy!LostBackoff
<1> QED BY <1>1, <1>2, <1>3, <1>4, <1>5, <1>6, <1>7, <1>8 DEF Policy!Next, Policy!Step,
           Policy!Handler

(* Only the admission of an attempt leads into one.                        *)
LEMMA AdmittedStep ==
  ASSUME Policy!TypeOK, ReconnectInv, WriteInv, AdmittedInv, [Policy!Next]_(Policy!vars)
  PROVE  AdmittedInv'
<1> USE DEF AdmittedInv, Policy!request, Policy!Leave
<1>1. CASE UNCHANGED Policy!vars BY <1>1 DEF Policy!vars
<1>2. CASE Policy!SessionContext \/ Policy!DeadlineExpires \/ Policy!HookRaises
  BY <1>2 DEF Policy!SessionContext, Policy!DeadlineExpires, Policy!HookRaises
<1>3. CASE Policy!Begin \/ Policy!CallHook \/ Policy!Tick BY <1>3 DEF Policy!Begin,
                                                             Policy!CallHook, Policy!Tick
<1>4. CASE Policy!Admit BY <1>4 DEF Policy!Admit, Policy!TypeOK
<1>5. CASE Policy!Handler BY <1>5, HandlerStep
<1> QED BY <1>1, <1>2, <1>3, <1>4, <1>5 DEF Policy!Next, Policy!Step

(* The count of an idle transport is the one its last request ended with.  *)
LEMMA BoundStep ==
  ASSUME Policy!EbusdConstants, Policy!AttemptsBounded, Policy!TypeOK', WindowInv',
         [Policy!Next]_(Policy!vars)
  PROVE  Policy!AttemptsBounded'
<1>1. CASE pc' # "idle"
  <2>1. (pc # "idle" /\ Policy!TypeOK /\ WindowInv => Policy!AttemptsBounded)'
    BY AttemptPaid, PTL
  <2> QED BY <1>1, <2>1
<1>2. CASE pc' = "idle"
  <2>1. request_attempts' = request_attempts
    BY <1>2 DEF Policy!Next, Policy!Step, Policy!Handler, Policy!vars, Policy!SessionContext,
       Policy!Begin, Policy!DeadlineExpires, Policy!CallHook, Policy!HookRaises,
       Policy!Admit, Policy!Tick, Policy!AttemptReturns, Policy!OnErrTimeout, Policy!OnNoSignal,
       Policy!OnCollision, Policy!NotRetried,
       Policy!OnConnectionFailure, Policy!Ended
  <2> QED BY <2>1 DEF Policy!AttemptsBounded, Policy!PollsPerWindow
<1> QED BY <1>1, <1>2

(* The invariant is inductive; the bound on the attempts follows from the  *)
(* accounts of the state reached.                                          *)
LEMMA PolicyInvStep == ASSUME Policy!EbusdConstants, PolicyInv, [Policy!Next]_(Policy!vars)
                       PROVE  PolicyInv'
<1> USE DEF PolicyInv
<1>1. Policy!TypeOK' BY PolicyTypeStep
<1>2. WindowInv' BY <1>1, WindowStep
<1>3. ReconnectInv' /\ WriteInv' /\ Policy!FreshAfterConnectionFailure' BY ReconnectStep,
                                                                           WriteStep, FreshStep
<1>4. Policy!AttemptsBounded' BY <1>1, <1>2, BoundStep
<1>5. QuietInv' /\ AdmittedInv' BY QuietStep, AdmittedStep
<1> QED BY <1>1, <1>2, <1>3, <1>4, <1>5

-----------------------------------------------------------------------------
(* No attempt begins inside the pause the failure before it asks for.      *)
LEMMA QuietHolds == ASSUME Policy!EbusdConstants, PolicyInv, [Policy!Next]_(Policy!vars)
                    PROVE  QuietNow
<1>1. CASE Policy!Admit BY <1>1 DEF QuietNow, PolicyInv, QuietInv, Policy!TypeOK, Policy!Admit,
                           Policy!HookInTime, Policy!Expired
<1>2. CASE ~Policy!Admit
  <2>1. request_attempts' \in {0, request_attempts}
    <3>1. CASE Policy!Handler BY <3>1, HandlerStep DEF PolicyInv
    <3> QED BY <1>2, <3>1 DEF Policy!Next, Policy!Step, Policy!vars, Policy!SessionContext,
               Policy!Begin, Policy!DeadlineExpires,
            Policy!CallHook, Policy!HookRaises, Policy!Tick
  <2> QED BY <2>1 DEF QuietNow, PolicyInv, Policy!TypeOK
<1> QED BY <1>1, <1>2

(* A request starts as the contract says.                                  *)
LEMMA PolicyContractInit == ASSUME Policy!EbusdConstants, Policy!Init PROVE PolicyContract!Init
<1>1. ~Policy!Expired BY DEF Policy!Init, Policy!Expired, Policy!EbusdConstants
<1>2. Policy!Answer = "none" /\ ~(pc # "idle") /\ request_attempts = 0 /\ retry_safe \in BOOLEAN
  BY DEF Policy!Init, Policy!Answer
<1>3. Policy!Expired = FALSE BY <1>1 DEF Policy!Expired
<1> QED BY <1>2, <1>3 DEF PolicyContract!Init

(* Every step of the policy is one the contract allows: a repetition needs *)
(* a request that may be repeated, and nothing begins or is accepted once  *)
(* the budget is spent.                                                    *)
LEMMA PolicyContractStep ==
  ASSUME Policy!EbusdConstants, PolicyInv, [Policy!Next]_(Policy!vars)
  PROVE  [PolicyContract!Next]_(PolicyContract!vars)
<1> USE DEF Policy!request, Policy!counters, Policy!reconnects, Policy!Leave, PolicyContract!Next,
            PolicyContract!vars
<1>1. CASE UNCHANGED Policy!vars BY <1>1 DEF Policy!vars, Policy!Expired, Policy!Answer
<1>2. CASE Policy!SessionContext BY <1>2 DEF Policy!SessionContext, PolicyContract!Collect,
                                    Policy!Expired, Policy!Answer
<1>3. CASE Policy!Begin
  <2>1. ~Policy!Expired' BY <1>3 DEF Policy!Begin, Policy!Expired, Policy!EbusdConstants
  <2> QED BY <1>3, <2>1 DEF Policy!Begin, PolicyContract!Begin, Policy!Answer
<1>4. CASE Policy!DeadlineExpires BY <1>4 DEF Policy!DeadlineExpires, PolicyContract!Fail,
                                     Policy!Expired, Policy!Answer
<1>5. CASE Policy!CallHook BY <1>5 DEF Policy!CallHook, Policy!Expired, Policy!Answer
<1>6. CASE Policy!HookRaises BY <1>6 DEF Policy!HookRaises, PolicyContract!Fail, Policy!Expired,
                                Policy!Answer
<1>7. CASE Policy!Admit
  <2>1. retry_safe \/ request_attempts = 0 BY <1>7 DEF Policy!Admit, Policy!HookInTime, PolicyInv,
                                              WriteInv
  <2> QED BY <1>7, <2>1 DEF Policy!Admit, Policy!HookInTime, PolicyContract!Admit, Policy!Expired,
             Policy!Answer
<1>8. CASE Policy!Tick BY <1>8 DEF Policy!Tick, PolicyContract!Spend, Policy!Expired, Policy!Answer
<1>9. ASSUME NEW s \in {"open", "closed"}, Policy!AttemptReturns(s) PROVE PolicyContract!Reply
  BY <1>9 DEF Policy!AttemptReturns, Policy!Ended, PolicyContract!Reply, Policy!Expired,
     Policy!Answer, PolicyInv, AdmittedInv
<1>10. ASSUME pc = "attempt", pc' = "idle", outcome' \in Policy!Failures,
              UNCHANGED <<retry_safe, request_attempts, elapsed>>
       PROVE  PolicyContract!Fail
  BY <1>10 DEF PolicyContract!Fail, Policy!Expired, Policy!Answer, Policy!Failures,
     Policy!AttemptEnds
<1>11. ASSUME NEW s \in {"open", "closed"}, NEW e \in Policy!Failures, Policy!NotRetried(e, s)
       PROVE  PolicyContract!Fail
  BY <1>10, <1>11 DEF Policy!NotRetried, Policy!Ended
<1>12. ASSUME NEW s \in {"open", "closed"}, NEW e \in Policy!Failures,
              Policy!OnConnectionFailure(e, s)
       PROVE  [PolicyContract!Next]_(PolicyContract!vars)
  BY <1>10, <1>12 DEF Policy!OnConnectionFailure, Policy!Ended, Policy!Expired, Policy!Answer
<1>13. ASSUME NEW s \in {"open", "closed"},
              Policy!OnErrTimeout(s) \/ Policy!OnNoSignal(s) \/ Policy!OnCollision(s)
       PROVE  [PolicyContract!Next]_(PolicyContract!vars)
  <2>1. pc = "attempt" /\ UNCHANGED <<retry_safe, request_attempts>>
    BY <1>13 DEF Policy!OnErrTimeout, Policy!OnNoSignal, Policy!OnCollision, Policy!Ended
  <2>2. ASSUME NEW e \in Policy!Failures, Policy!GiveUp(e) PROVE PolicyContract!Fail
    BY <1>10, <2>1, <2>2 DEF Policy!GiveUp
  <2>3. ASSUME NEW e, NEW d \in Nat, Policy!RetryAfter(e, d)
        PROVE  [PolicyContract!Next]_(PolicyContract!vars)
    <3>1. pc' = "check" /\ UNCHANGED outcome /\ elapsed' = Policy!Later(d) BY <2>3
                                                                              DEF Policy!RetryAfter
    <3>2. Policy!Expired => Policy!Expired' BY <3>1 DEF Policy!Expired, Policy!Later, PolicyInv,
                                               Policy!TypeOK, Policy!EbusdConstants
    <3>3. CASE Policy!Expired <=> Policy!Expired' BY <2>1, <3>1, <3>3 DEF Policy!Answer
    <3>4. CASE ~Policy!Expired /\ Policy!Expired' BY <2>1, <3>1, <3>4 DEF PolicyContract!Spend,
                                                     Policy!Answer
    <3> QED BY <3>2, <3>3, <3>4
  <2>4. {"err_timeout", "no_signal", "collision"} \subseteq Policy!Failures BY DEF Policy!Failures,
                                                                               Policy!AttemptEnds
  <2> QED BY <1>13, <2>2, <2>3, <2>4
      DEF Policy!OnErrTimeout, Policy!OnNoSignal, Policy!OnCollision, Policy!LostBackoff,
          Policy!EbusdConstants
<1> QED BY <1>1, <1>2, <1>3, <1>4, <1>5, <1>6, <1>7, <1>8, <1>9, <1>11, <1>12, <1>13
    DEF Policy!Next, Policy!Step, Policy!Handler

-----------------------------------------------------------------------------
(* One behaviour shows one part.                                           *)
LEMMA OnePart ==
  ASSUME [Next]_vars
  PROVE  /\ part' = part
         /\ part = "lines" => [Lines!Next]_(Lines!vars)
         /\ part = "policy" => [Policy!Next]_(Policy!vars)
         /\ part = "threads" => [Shared!Next]_(Shared!vars)
<1>1. CASE UNCHANGED vars
  BY Zenon, <1>1 DEF vars, onlyLines, onlyPolicy, onlyShared, Lines!vars, Lines!stream, Policy!vars,
     Policy!request, Policy!counters, Policy!reconnects, Shared!vars
<1>2. CASE Next
  BY Zenon, <1>2 DEF Next, OthersThanLines, OthersThanPolicy, OthersThanShared
<1> QED BY <1>1, <1>2

(* The constants of the policy are those of the transports.                *)
LEMMA PolicyConstants == Policy!EbusdConstants
BY TransportConstants

-----------------------------------------------------------------------------
(* Each part keeps its invariant while it is shown.                        *)
LinesShown == part = "lines" => LinesInv
PolicyShown == part = "policy" => PolicyInv
ThreadsShown == part = "threads" => DepthInv

(* The stream: under a daemon that completes its responses.                *)
LEMMA LinesKept == ASSUME LatePauses = FALSE PROVE Spec => []LinesShown
<1>1. Init => LinesShown BY LinesInit DEF Init, LinesShown
<1>2. LinesShown /\ [Next]_vars => LinesShown' BY LinesStep, OnePart DEF LinesShown
<1> QED BY <1>1, <1>2, PTL DEF Spec

(* The policy.                                                             *)
LEMMA PolicyStepShown ==
  ASSUME PolicyShown, [Next]_vars, part = "policy"
  PROVE  PolicyInv /\ [Policy!Next]_(Policy!vars)
BY OnePart DEF PolicyShown

LEMMA PolicyKept == Spec => []PolicyShown
<1>1. Init => PolicyShown
  BY PolicyConstants, PolicyInit DEF Init, PolicyShown
<1>2. PolicyShown /\ [Next]_vars => PolicyShown'
  BY OnePart, PolicyConstants, PolicyStepShown, PolicyInvStep DEF PolicyShown
<1> QED BY <1>1, <1>2, PTL DEF Spec

(* The threads.                                                            *)
LEMMA ThreadsKept == Spec => []ThreadsShown
<1>1. Init => ThreadsShown BY DepthInit DEF Init, ThreadsShown
<1>2. ThreadsShown /\ [Next]_vars => ThreadsShown' BY ThreadsStep, OnePart DEF ThreadsShown
<1> QED BY <1>1, <1>2, PTL DEF Spec

-----------------------------------------------------------------------------
(* ebusd stream: as long as the daemon does not fall silent for a whole    *)
(* drain window before a response is complete, every line a command        *)
(* returns is of that command, and nothing buffered outlives a command     *)
(* (_send_command_lines, _drain_response).                                 *)
THEOREM LinesOwn == ASSUME LatePauses = FALSE PROVE Spec => []OwnLines
<1>1. LinesShown => OwnLines
  BY DEF LinesShown, OwnLines, LinesInv, LeftInv, LinesFromOwn, Lines!OwnLines,
     Lines!NothingBuffered
<1> QED BY <1>1, LinesKept, PTL

(* ebusd stream: once the first line is there only the deadline can fail   *)
(* the command, not an error of the drain (_drain_response).               *)
THEOREM DrainHarmless == Spec => DrainKeepsReply
<1>1. [Next]_vars =>
        [part = "lines" /\ pc = "drain" /\ pc' = "idle" => result' \in {"lines", "deadline"}]_vars
  <2> SUFFICES ASSUME Next, part = "lines", pc = "drain", pc' = "idle"
               PROVE  result' \in {"lines", "deadline"}
    OBVIOUS
  <2>1. Lines!Next BY DEF Next
  <2> QED
    BY <2>1 DEF Lines!Next, Lines!SessionContext, Lines!Send, Lines!Arrive, Lines!Receive,
       Lines!TakeLine, Lines!DrainWindowEnds, Lines!DrainSkipped, Lines!ConnectionEnds,
       Lines!DrainEndsAt, Lines!ReadTimeout, Lines!DeadlineExpires, Lines!Finish, Lines!Fail
<1> QED BY <1>1, PTL DEF Spec, DrainKeepsReply

(* ebusd policy: the attempts are bounded and the reconnects reported are  *)
(* those begun, whatever mixture of failures the attempts end with, and a  *)
(* retry after a connection-level failure has a connection of its own      *)
(* (_send_with_policy).                                                    *)
THEOREM CountsTrue == Spec => []CountsHold
<1>1. PolicyShown => CountsHold
  BY DEF PolicyShown, CountsHold, PolicyInv, ReconnectInv, Policy!CountsHold,
     Policy!ReconnectsReported
<1> QED BY <1>1, PolicyKept, PTL

(* ebusd policy: no attempt begins inside the pause the failure before it  *)
(* asks for (_send_with_policy and its _sleep calls).                      *)
THEOREM BusIsQuiet == Spec => QuietBus
<1>1. PolicyShown /\ [Next]_vars =>
        [part = "policy" /\ request_attempts' = request_attempts + 1 => elapsed >= quiet_until]_vars
  BY PolicyConstants, PolicyStepShown, QuietHolds DEF QuietNow
<1> QED BY <1>1, PolicyKept, PTL DEF Spec, QuietBus

(* ebusd policy: a request that _is_retry_safe_b524_read does not accept   *)
(* is transmitted at most once, whatever its one attempt ends with.        *)
THEOREM WritesOnce == Spec => [](part = "policy" /\ ~retry_safe => request_attempts <= 1)
<1>1. PolicyShown => (part = "policy" /\ ~retry_safe => request_attempts <= 1)
  BY DEF PolicyShown, PolicyInv, WriteInv
<1> QED BY <1>1, PolicyKept, PTL

(* Threads: no two are inside a request or a connect at once (the class    *)
(* comment of EnhancedTcpTransport: one lock around the connection).       *)
THEOREM OneThreadInside == Spec => []OneInside
<1>1. ThreadsShown => OneInside BY DEF ThreadsShown, OneInside, DepthInv, LockInv
<1> QED BY <1>1, ThreadsKept, PTL

(* Threads: the depth counts the contexts in use, one thread's leaving its *)
(* context never takes the connection from another, the last exit closes   *)
(* it, and what enters the lock's section does so before its deadline, for *)
(* every number of threads and any nesting (session, _request_budget).     *)
THEOREM ContextsKeep == Spec => ContextsKeepConnection
<1>1. ThreadsShown => (part = "threads" => Shared!DepthCounts) BY DEF ThreadsShown, DepthInv
<1>2. ThreadsShown /\ [Next]_vars =>
        [part = "threads" => Shared!SparesNow /\ Shared!ClosesNow /\ Shared!InTimeNow]_vars
  <2> SUFFICES ASSUME ThreadsShown, Next, part = "threads"
               PROVE  Shared!SparesNow /\ Shared!ClosesNow /\ Shared!InTimeNow
    OBVIOUS
  <2>1. Shared!Next BY DEF Next
  <2> QED BY <2>1, ThreadsNow DEF ThreadsShown
<1> QED BY <1>1, <1>2, ThreadsKept, PTL DEF Spec, ContextsKeepConnection

-----------------------------------------------------------------------------
(* The state the contract sees is the policy's own while it is shown, and  *)
(* does not change while it is not.                                        *)
LEMMA ContractOfPolicy ==
  ASSUME PolicyShown, [Next]_vars PROVE [Contract!Next]_(Contract!vars)
<1>1. CASE part = "policy"
  <2>1. InPolicy /\ InPolicy' BY <1>1, OnePart DEF InPolicy
  <2>2. [PolicyContract!Next]_(PolicyContract!vars)
    BY <1>1, PolicyConstants, PolicyStepShown, PolicyContractStep
  <2> USE <2>1 DEF Contract!Next, Contract!vars, PolicyContract!Next, PolicyContract!vars
  <2>3. CASE UNCHANGED PolicyContract!vars BY <2>3
  <2>4. CASE PolicyContract!Begin BY <2>4 DEF Contract!Begin, PolicyContract!Begin
  <2>5. CASE PolicyContract!Admit BY <2>5 DEF Contract!Admit, PolicyContract!Admit
  <2>6. CASE PolicyContract!Spend BY <2>6 DEF Contract!Spend, PolicyContract!Spend
  <2>7. CASE PolicyContract!Reply BY <2>7 DEF Contract!Reply, PolicyContract!Reply
  <2>8. CASE PolicyContract!Fail BY <2>8 DEF Contract!Fail, PolicyContract!Fail
  <2>9. CASE PolicyContract!Collect BY <2>9 DEF Contract!Collect, PolicyContract!Collect
  <2> QED BY <2>2, <2>3, <2>4, <2>5, <2>6, <2>7, <2>8, <2>9
<1>2. CASE part # "policy"
  BY <1>2, OnePart DEF InPolicy, Contract!vars
<1> QED BY <1>1, <1>2

(* ebusd policy: the safety half of its contract: a write is transmitted   *)
(* at most once, nothing begins and no reply is accepted once the budget   *)
(* is spent (_send_with_policy; that every request ends is model-checked). *)
THEOREM ContractKept == Spec => Contract!Init /\ [][Contract!Next]_(Contract!vars)
<1>1. Init => Contract!Init
  <2> SUFFICES ASSUME Init PROVE Contract!Init OBVIOUS
  <2>1. CASE part = "policy"
    <3>1. PolicyContract!Init BY <2>1, PolicyConstants, PolicyContractInit DEF Init
    <3>2. InPolicy BY <2>1 DEF InPolicy
    <3> QED BY <3>1, <3>2 DEF Contract!Init, PolicyContract!Init
  <2>2. CASE part # "policy" BY <2>2 DEF InPolicy, Contract!Init
  <2> QED BY <2>1, <2>2
<1> QED BY <1>1, ContractOfPolicy, PolicyKept, PTL DEF Spec
=============================================================================
