--------------------------- MODULE TransportsProofs ---------------------------
(***************************************************************************)
(* Theorems about the UDP and the HTTP transports, for any spans, sizes    *)
(* and batch sizes: what they lose is counted, and they do what            *)
(* Transport.tla allows.  In TransportsSpec one of the two takes steps,    *)
(* whatever it chooses, so a theorem about it is one about either.         *)
(***************************************************************************)
EXTENDS MCTransports, SequenceTheorems, FiniteSetTheorems, WellFoundedInduction, TLAPS

Net == {"ok", "error"}

(* The spans of the batches that did not arrive, or were not acknowledged. *)
SpansOf(batches) == UNION {ToSet(batch) : batch \in batches}
Taken == UNION {ToSet(collector[b]) : b \in DOMAIN collector}

-----------------------------------------------------------------------------
(* Induction *)

(* The least of some numbers; from it, induction on a set. *)
LEMMA LeastNumber ==
  ASSUME NEW S \in SUBSET Nat, S # {}
  PROVE  \E n \in S : \A m \in S : n <= m
<1> DEFINE R == {pair \in Nat \X Nat : pair[1] < pair[2]}
<1>1. IsWellFoundedOn(R, Nat)
  BY NatLessThanWellFounded DEF OpToRel
<1>2. \A m, n \in S : m < n => <<m, n>> \in R
  OBVIOUS
<1> HIDE DEF R
<1>3. PICK n \in S : \A m \in S : ~ (<<m, n>> \in R)
  BY <1>1, WFMin
<1>4. \A m \in S : ~ (m < n)
  BY <1>2, <1>3
<1> QED
  BY <1>4

LEMMA Induction ==
  ASSUME NEW S, 0 \in S, \A n \in Nat : n \in S => n + 1 \in S
  PROVE  Nat \subseteq S
<1> SUFFICES ASSUME Nat \ S # {} PROVE FALSE
  OBVIOUS
<1>1. PICK n \in Nat \ S : \A m \in Nat \ S : n <= m
  BY LeastNumber
<1>2. n # 0 /\ n - 1 \in Nat /\ n - 1 \in S
  BY <1>1
<1> QED
  BY <1>1, <1>2

-----------------------------------------------------------------------------
(* Sequences *)

LEMMA Appended ==
  ASSUME NEW S, NEW q \in Seq(S), NEW e \in S
  PROVE  /\ Append(q, e) \in Seq(S)
         /\ Len(Append(q, e)) = Len(q) + 1
         /\ DOMAIN Append(q, e) = 1..Len(q) + 1
         /\ DOMAIN q = 1..Len(q)
         /\ \A i \in DOMAIN q : Append(q, e)[i] = q[i]
         /\ Append(q, e)[Len(q) + 1] = e
         /\ ToSet(Append(q, e)) = ToSet(q) \cup {e}
<1>1. /\ Append(q, e) \in Seq(S) /\ Len(Append(q, e)) = Len(q) + 1
      /\ \A i \in 1..Len(q) : Append(q, e)[i] = q[i]
      /\ Append(q, e)[Len(q) + 1] = e
  BY AppendProperties
<1>2. DOMAIN q = 1..Len(q) /\ Len(q) \in Nat
  BY LenProperties
<1>3. DOMAIN Append(q, e) = 1..Len(q) + 1
  BY <1>1, LenProperties
<1>4. 1..Len(q) + 1 = (DOMAIN q) \cup {Len(q) + 1}
  BY <1>2
<1>5. ToSet(Append(q, e)) = ToSet(q) \cup {e}
  <2>1. ASSUME NEW x \in ToSet(Append(q, e)) PROVE x \in ToSet(q) \cup {e}
    <3>1. PICK i \in 1..Len(q) + 1 : x = Append(q, e)[i]
      BY <1>3 DEF ToSet
    <3> QED  BY <3>1, <1>1, <1>2, <1>4 DEF ToSet
  <2>2. ASSUME NEW x \in ToSet(q) PROVE x \in ToSet(Append(q, e))
    <3>1. PICK i \in DOMAIN q : x = q[i]
      BY DEF ToSet
    <3> QED  BY <3>1, <1>1, <1>2, <1>3, <1>4 DEF ToSet
  <2>3. e \in ToSet(Append(q, e))
    BY <1>1, <1>3, <1>4 DEF ToSet
  <2> QED  BY <2>1, <2>2, <2>3
<1> QED  BY <1>1, <1>2, <1>3, <1>5

LEMMA Concatenated ==
  ASSUME NEW S, NEW q \in Seq(S), NEW r \in Seq(S)
  PROVE  /\ q \o r \in Seq(S)
         /\ Len(q \o r) = Len(q) + Len(r)
         /\ ToSet(q \o r) = ToSet(q) \cup ToSet(r)
<1>1. /\ q \o r \in Seq(S) /\ Len(q \o r) = Len(q) + Len(r)
      /\ \A i \in 1..Len(q) + Len(r) :
           (q \o r)[i] = IF i <= Len(q) THEN q[i] ELSE r[i - Len(q)]
  BY ConcatProperties
<1>2. /\ DOMAIN q = 1..Len(q) /\ DOMAIN r = 1..Len(r)
      /\ Len(q) \in Nat /\ Len(r) \in Nat
  BY LenProperties
<1>3. DOMAIN (q \o r) = 1..Len(q) + Len(r)
  BY <1>1, LenProperties
<1>4. ASSUME NEW x \in ToSet(q \o r) PROVE x \in ToSet(q) \cup ToSet(r)
  <2>1. PICK i \in 1..Len(q) + Len(r) : x = (q \o r)[i]
    BY <1>3 DEF ToSet
  <2>2. CASE i <= Len(q)
    <3>1. i \in DOMAIN q /\ x = q[i]
      BY <2>1, <2>2, <1>1, <1>2
    <3> QED  BY <3>1 DEF ToSet
  <2>3. CASE ~(i <= Len(q))
    <3>1. i - Len(q) \in DOMAIN r /\ x = r[i - Len(q)]
      BY <2>1, <2>3, <1>1, <1>2
    <3> QED  BY <3>1 DEF ToSet
  <2> QED  BY <2>2, <2>3
<1>5. ASSUME NEW x \in ToSet(q) PROVE x \in ToSet(q \o r)
  <2>1. PICK i \in 1..Len(q) : x = q[i]
    BY <1>2 DEF ToSet
  <2>2. i \in DOMAIN (q \o r) /\ (q \o r)[i] = x
    BY <2>1, <1>1, <1>2, <1>3
  <2> QED  BY <2>2 DEF ToSet
<1>6. ASSUME NEW x \in ToSet(r) PROVE x \in ToSet(q \o r)
  <2>1. PICK i \in 1..Len(r) : x = r[i]
    BY <1>2 DEF ToSet
  <2>2. i + Len(q) \in DOMAIN (q \o r) /\ (q \o r)[i + Len(q)] = x
    BY <2>1, <1>1, <1>2, <1>3
  <2> QED  BY <2>2 DEF ToSet
<1> QED  BY <1>1, <1>4, <1>5, <1>6

LEMMA Nothing == ToSet(<< >>) = {} /\ Len(<< >>) = 0
BY DEF ToSet

LEMMA OneMore ==
  ASSUME NEW batches, NEW batch
  PROVE  SpansOf(batches \cup {batch}) = SpansOf(batches) \cup ToSet(batch)
BY DEF SpansOf

LEMMA OneSpan ==
  ASSUME NEW S, NEW i \in S
  PROVE  <<i>> \in Seq(S) /\ Len(<<i>>) = 1 /\ ToSet(<<i>>) = {i}
<1>1. <<i>> \in Seq(S) /\ Len(<<i>>) = 1 /\ DOMAIN <<i>> = {1} /\ <<i>>[1] = i
  OBVIOUS
<1> QED  BY <1>1 DEF ToSet

-----------------------------------------------------------------------------
(* The UDP sender *)

Report == [seqNo : Nat, stats : [fullQueue : Nat, tooLarge : Nat, failedToEmit : Nat]]

UdpTypeInv ==
  /\ spanBuffer \in Seq(SpanIds) /\ written \in Seq(SpanIds)
  /\ reports \in Seq(Report)
  /\ batchSeqNo \in Nat /\ tooLargeDroppedSpans \in Nat /\ failedToEmitSpans \in Nat
  /\ queueDropped \in Nat /\ success \in Nat /\ failure \in Nat
  /\ appended \subseteq SpanIds /\ IsFiniteSet(appended)

(* The last report written, and what the sender has done since. *)
Reported(k)    == IF k = 0 THEN 0 ELSE reports[k].seqNo
ReportedLost(k) == IF k = 0 THEN 0 ELSE reports[k].stats.failedToEmit

(* Between seenNo and no, batches are missing exactly if spans were lost. *)
Gap(seenNo, no, seenLost, lost) ==
  /\ no >= seenNo
  /\ no - seenNo <= lost - seenLost
  /\ no = seenNo => lost = seenLost

(* A gap since the last report will show in the next one. *)
GapInv ==
  /\ \A k \in DOMAIN reports : Gap(Reported(k - 1), reports[k].seqNo - 1,
                                 ReportedLost(k - 1), reports[k].stats.failedToEmit)
  /\ Gap(Reported(Len(reports)), batchSeqNo, ReportedLost(Len(reports)), failedToEmitSpans)

UdpInv == UdpTypeInv /\ SpansAccounted /\ GapInv

LEMMA GapsMean ==
  ASSUME UdpTypeInv, GapInv
  PROVE  GapsMeanFailures
<1> SUFFICES ASSUME NEW k \in DOMAIN reports
             PROVE  LET before == IF k = 1 THEN [seqNo |-> 0, stats |-> [failedToEmit |-> 0]]
                                            ELSE reports[k - 1]
                        gap    == reports[k].seqNo - before.seqNo - 1
                    IN /\ gap >= 0
                       /\ gap <= reports[k].stats.failedToEmit - before.stats.failedToEmit
                       /\ gap = 0 => reports[k].stats.failedToEmit = before.stats.failedToEmit
  BY DEF GapsMeanFailures
<1> DEFINE before == IF k = 1 THEN [seqNo |-> 0, stats |-> [failedToEmit |-> 0]]
                                ELSE reports[k - 1]
<1>1. DOMAIN reports = 1..Len(reports) /\ Len(reports) \in Nat /\ \A j \in DOMAIN reports : reports[j] \in Report
  BY LenProperties, ElementOfSeq DEF UdpTypeInv
<1>2. before.seqNo = Reported(k - 1) /\ before.stats.failedToEmit = ReportedLost(k - 1)
  BY <1>1 DEF Reported, ReportedLost
<1>3. before.seqNo \in Nat /\ before.stats.failedToEmit \in Nat
  <2>1. CASE k = 1
    BY <2>1
  <2>2. CASE k # 1
    <3>1. k - 1 \in DOMAIN reports
      BY <1>1, <2>2
    <3> QED  BY <3>1, <1>1, <2>2 DEF Report
  <2> QED  BY <2>1, <2>2
<1>4. Gap(Reported(k - 1), reports[k].seqNo - 1, ReportedLost(k - 1), reports[k].stats.failedToEmit)
  BY DEF GapInv
<1>5. reports[k].seqNo \in Nat /\ reports[k].stats.failedToEmit \in Nat
  BY <1>1 DEF Report
<1> HIDE DEF before
<1>6. /\ reports[k].seqNo - 1 >= before.seqNo
      /\ reports[k].seqNo - 1 - before.seqNo <= reports[k].stats.failedToEmit - before.stats.failedToEmit
      /\ reports[k].seqNo - 1 = before.seqNo
           => reports[k].stats.failedToEmit = before.stats.failedToEmit
  BY <1>2, <1>4 DEF Gap
<1>7. /\ reports[k].seqNo - before.seqNo - 1 >= 0
      /\ reports[k].seqNo - before.seqNo - 1
           <= reports[k].stats.failedToEmit - before.stats.failedToEmit
      /\ reports[k].seqNo - before.seqNo - 1 = 0
           => reports[k].stats.failedToEmit = before.stats.failedToEmit
  BY <1>3, <1>5, <1>6
<1> QED
  BY <1>7 DEF before

(* A datagram that arrives carries the report of all that failed before it. *)
LEMMA ReportArrives ==
  ASSUME UdpTypeInv, GapInv, NEW no, no = batchSeqNo + 1,
         reports' = Append(reports, [seqNo |-> no, stats |-> makeStats]), batchSeqNo' = no,
         failedToEmitSpans' = failedToEmitSpans
  PROVE  reports' \in Seq(Report) /\ GapInv'
<1>1. PICK report : report = [seqNo |-> no, stats |-> makeStats]
  OBVIOUS
<1>2. report \in Report /\ report.seqNo = no /\ report.stats.failedToEmit = failedToEmitSpans
  BY <1>1 DEF UdpTypeInv, Report, makeStats
<1>3. reports \in Seq(Report)
  BY DEF UdpTypeInv
<1>4. PICK n \in Nat : n = Len(reports)
  BY <1>3, LenProperties
<1>5. /\ reports' \in Seq(Report) /\ Len(reports') = n + 1 /\ DOMAIN reports' = 1..n + 1
      /\ DOMAIN reports = 1..n
      /\ \A k \in 1..n : reports'[k] = reports[k]
      /\ reports'[n + 1] = report
  BY <1>1, <1>2, <1>3, <1>4, Appended
<1>6. ASSUME NEW k \in 0..n
      PROVE  Reported(k)' = Reported(k) /\ ReportedLost(k)' = ReportedLost(k)
  <2>1. k # 0 => reports'[k] = reports[k]
    BY <1>5
  <2> QED  BY <2>1 DEF Reported, ReportedLost
<1>7. Gap(Reported(n), batchSeqNo, ReportedLost(n), failedToEmitSpans)
  BY <1>4 DEF GapInv
<1>8. ASSUME NEW k \in DOMAIN reports'
      PROVE  Gap(Reported(k - 1), reports[k].seqNo - 1, ReportedLost(k - 1),
                 reports[k].stats.failedToEmit)'
  <2>1. k - 1 \in 0..n
    BY <1>5
  <2>2. Reported(k - 1)' = Reported(k - 1) /\ ReportedLost(k - 1)' = ReportedLost(k - 1)
    BY <2>1, <1>6
  <2>3. CASE k \in DOMAIN reports
    <3>1. reports'[k] = reports[k]
      BY <2>3, <1>5
    <3>2. Gap(Reported(k - 1), reports[k].seqNo - 1, ReportedLost(k - 1), reports[k].stats.failedToEmit)
      BY <2>3 DEF GapInv
    <3> QED  BY <3>1, <3>2, <2>2 DEF Gap
  <2>4. CASE k \notin DOMAIN reports
    <3>1. k = n + 1 /\ k - 1 = n
      BY <2>4, <1>5
    <3>2. reports'[k].seqNo - 1 = batchSeqNo /\ reports'[k].stats.failedToEmit = failedToEmitSpans
      BY <3>1, <1>2, <1>5 DEF UdpTypeInv
    <3> QED  BY <3>1, <3>2, <2>2, <1>7 DEF Gap
  <2> QED  BY <2>3, <2>4
<1>9. Reported(n + 1)' = no /\ ReportedLost(n + 1)' = failedToEmitSpans
  BY <1>2, <1>5 DEF Reported, ReportedLost
<1>10. Gap(Reported(n + 1)', batchSeqNo', ReportedLost(n + 1)', failedToEmitSpans')
  BY <1>9 DEF Gap, UdpTypeInv
<1> QED
  BY <1>5, <1>8, <1>10 DEF GapInv

(* One that does not arrive leaves a gap, and at least one span to report. *)
LEMMA ReportLost ==
  ASSUME UdpTypeInv, GapInv, NEW n \in Nat, n > 0, UNCHANGED reports,
         batchSeqNo' = batchSeqNo + 1, failedToEmitSpans' = failedToEmitSpans + n
  PROVE  GapInv'
<1>1. PICK k \in Nat : k = Len(reports) /\ (k # 0 => reports[k] \in Report)
  <2>1. reports \in Seq(Report)
    BY DEF UdpTypeInv
  <2>2. Len(reports) \in Nat /\ \A j \in 1..Len(reports) : reports[j] \in Report
    BY <2>1, LenProperties, ElementOfSeq
  <2> QED  BY <2>2
<1>2. Reported(k) \in Nat /\ ReportedLost(k) \in Nat
  BY <1>1 DEF Reported, ReportedLost, Report
<1>3. Gap(Reported(k), batchSeqNo', ReportedLost(k), failedToEmitSpans')
  BY <1>1, <1>2 DEF Gap, GapInv, UdpTypeInv
<1> QED
  BY <1>1, <1>3 DEF GapInv, Reported, ReportedLost

Lost == tooLarge \cup SpansOf(refused \cup unsent)

(* So many spans were written and so many lost. *)
CountedAs(got, lost) ==
  /\ Len(written') = Len(written) + got /\ success' = success + got
  /\ failedToEmitSpans' = failedToEmitSpans + lost /\ failure' = failure + lost

(* What a Flush of this batch does: the batch is written or lost, and counted. *)
LEMMA FlushStep ==
  ASSUME UdpTypeInv, GapInv, NEW batch \in Seq(SpanIds), NEW net \in Net,
         Flush(batch, net), UNCHANGED <<tooLarge, queueDropped, tooLargeDroppedSpans>>
  PROVE  /\ written' \in Seq(SpanIds) /\ reports' \in Seq(Report) /\ batchSeqNo' \in Nat
         /\ failedToEmitSpans' \in Nat /\ success' \in Nat /\ failure' \in Nat
         /\ GapInv'
         /\ \E got \in Nat, lost \in Nat : got + lost = Len(batch) /\ CountedAs(got, lost)
         /\ ToSet(written') \cup SpansOf(refused' \cup unsent')
              = ToSet(written) \cup SpansOf(refused \cup unsent) \cup ToSet(batch)
         /\ \E r \in Delivery!Results : Delivery!Emit(batch, r)
<1>1. Len(batch) \in Nat /\ Len(written) \in Nat /\ written \in Seq(SpanIds)
  BY LenProperties DEF UdpTypeInv
<1>2. CASE batch = << >> /\ UNCHANGED emitVars
  <2>1. UNCHANGED <<batchSeqNo, failedToEmitSpans, written, reports, success, failure, refused, unsent>>
    BY <1>2 DEF emitVars
  <2>2. written \o batch = written
    BY <1>1, <1>2, ConcatEmptySeq
  <2>3. Delivery!Emit(batch, "ok")
    BY <1>1, <1>2, <2>1, <2>2, Nothing DEF Delivery!Emit, UdpTypeInv
  <2>4. GapInv'
    BY <2>1 DEF GapInv, Reported, ReportedLost
  <2>5. 0 + 0 = Len(batch) /\ CountedAs(0, 0)
    BY <1>1, <1>2, <2>1, Nothing DEF CountedAs, UdpTypeInv
  <2> QED
    BY <1>2, <2>1, <2>3, <2>4, <2>5, Nothing DEF Delivery!Results, UdpTypeInv
<1>3. CASE batch # << >> /\ written' = written \o batch
            /\ reports' = Append(reports, [seqNo |-> batchSeqNo', stats |-> makeStats])
            /\ success' = success + Len(batch) /\ batchSeqNo' = batchSeqNo + 1
            /\ UNCHANGED <<failedToEmitSpans, failure, refused, unsent>>
  <2>1. reports' \in Seq(Report) /\ GapInv'
    <3>1. PICK no : no = batchSeqNo + 1
      OBVIOUS
    <3> QED  BY <1>3, <3>1, ReportArrives
  <2>2. Delivery!Emit(batch, "ok")
    BY <1>3 DEF Delivery!Emit
  <2>3. /\ written' \in Seq(SpanIds) /\ Len(written') = Len(written) + Len(batch)
        /\ ToSet(written') = ToSet(written) \cup ToSet(batch)
    BY <1>1, <1>3, Concatenated
  <2>4. Len(batch) + 0 = Len(batch) /\ CountedAs(Len(batch), 0)
    BY <1>1, <1>3, <2>3 DEF CountedAs, UdpTypeInv
  <2>5. "ok" \in Delivery!Results
    BY DEF Delivery!Results
  <2>6. ToSet(written') \cup SpansOf(refused' \cup unsent')
          = ToSet(written) \cup SpansOf(refused \cup unsent) \cup ToSet(batch)
    BY <1>3, <2>3
  <2>7. batchSeqNo' \in Nat /\ failedToEmitSpans' \in Nat /\ success' \in Nat /\ failure' \in Nat
    BY <1>1, <1>3 DEF UdpTypeInv
  <2>8. \E got \in Nat, lost \in Nat : got + lost = Len(batch) /\ CountedAs(got, lost)
    BY <1>1, <2>4
  <2> QED
    BY <2>1, <2>2, <2>3, <2>5, <2>6, <2>7, <2>8
<1>4. CASE batch # << >> /\ batchSeqNo' = batchSeqNo + 1
            /\ failedToEmitSpans' = failedToEmitSpans + Len(batch)
            /\ failure' = failure + Len(batch)
            /\ refused' \cup unsent' = (refused \cup unsent) \cup {batch}
            /\ UNCHANGED <<written, reports, success>>
  <2>1. Len(batch) > 0
    BY <1>1, <1>4, EmptySeq
  <2>2. GapInv'
    BY <1>1, <1>4, <2>1, ReportLost
  <2>3. SpansOf(refused' \cup unsent') = SpansOf(refused \cup unsent) \cup ToSet(batch)
    BY <1>4, OneMore
  <2>4. Delivery!Emit(batch, "error")
    BY <1>4, <2>3 DEF Delivery!Emit, Delivery!Elems, ToSet, SpansOf
  <2>5. "error" \in Delivery!Results
    BY DEF Delivery!Results
  <2>6. /\ written' \in Seq(SpanIds) /\ reports' \in Seq(Report) /\ batchSeqNo' \in Nat
        /\ failedToEmitSpans' \in Nat /\ success' \in Nat /\ failure' \in Nat
    BY <1>1, <1>4 DEF UdpTypeInv
  <2>7. 0 + Len(batch) = Len(batch) /\ CountedAs(0, Len(batch))
    BY <1>1, <1>4 DEF CountedAs, UdpTypeInv
  <2>8. \E got \in Nat, lost \in Nat : got + lost = Len(batch) /\ CountedAs(got, lost)
    BY <1>1, <2>7
  <2>9. ToSet(written') \cup SpansOf(refused' \cup unsent')
          = ToSet(written) \cup SpansOf(refused \cup unsent) \cup ToSet(batch)
    BY <1>4, <2>3
  <2> QED
    BY <2>2, <2>4, <2>5, <2>6, <2>8, <2>9
<1> QED
  <2>1. CASE batch = << >> /\ UNCHANGED emitVars
    BY <1>2, <2>1
  <2>2. CASE batch # << >> /\ EmitBatch(batch, net)
    <3>1. batchSeqNo' = batchSeqNo + 1
      BY <2>2 DEF EmitBatch
    <3>2. \/ /\ written' = written \o batch
             /\ reports' = Append(reports, [seqNo |-> batchSeqNo', stats |-> makeStats])
             /\ success' = success + Len(batch)
             /\ UNCHANGED <<failedToEmitSpans, failure, refused, unsent>>
          \/ /\ failedToEmitSpans' = failedToEmitSpans + Len(batch)
             /\ failure' = failure + Len(batch)
             /\ refused' \cup unsent' = (refused \cup unsent) \cup {batch}
             /\ UNCHANGED <<written, reports, success>>
      <4>1. CASE Fits(batch) /\ net = "ok"
                 /\ written' = written \o batch
                 /\ reports' = Append(reports, [seqNo |-> batchSeqNo', stats |-> makeStats])
                 /\ success' = success + Counted(batch)
                 /\ UNCHANGED <<failedToEmitSpans, failure, refused, unsent>>
        BY <4>1 DEF Counted
      <4>2. CASE CountFailed(Counted(batch)) /\ failure' = failure + Counted(batch)
                 /\ refused' = (IF Fits(batch) THEN refused ELSE refused \cup {batch})
                 /\ unsent'  = (IF Fits(batch) THEN unsent \cup {batch} ELSE unsent)
                 /\ UNCHANGED <<written, reports, success>>
        <5>1. refused' \cup unsent' = (refused \cup unsent) \cup {batch}
          <6>1. CASE Fits(batch)
            BY <4>2, <6>1
          <6>2. CASE ~Fits(batch)
            BY <4>2, <6>2
          <6> QED  BY <6>1, <6>2
        <5> QED  BY <4>2, <5>1 DEF Counted, CountFailed
      <4> QED  BY <2>2, <4>1, <4>2 DEF EmitBatch
    <3>3. CASE /\ written' = written \o batch
               /\ reports' = Append(reports, [seqNo |-> batchSeqNo', stats |-> makeStats])
               /\ success' = success + Len(batch)
               /\ UNCHANGED <<failedToEmitSpans, failure, refused, unsent>>
      BY <1>3, <2>2, <3>1, <3>3
    <3>4. CASE /\ failedToEmitSpans' = failedToEmitSpans + Len(batch)
               /\ failure' = failure + Len(batch)
               /\ refused' \cup unsent' = (refused \cup unsent) \cup {batch}
               /\ UNCHANGED <<written, reports, success>>
      BY <1>4, <2>2, <3>1, <3>4
    <3> QED  BY <3>2, <3>3, <3>4
  <2> QED  BY <2>1, <2>2 DEF Flush

(* A batch leaves and rest is what the buffer holds then; new are the spans    *)
(* that were appended by the same step.                                        *)
LEMMA BatchLeaves ==
  ASSUME UdpInv, NEW batch \in Seq(SpanIds), NEW rest \in Seq(SpanIds), NEW net \in Net,
         NEW new, NEW n \in Nat,
         Flush(batch, net), spanBuffer' = rest,
         UNCHANGED <<tooLarge, queueDropped, tooLargeDroppedSpans>>,
         appended' = appended \cup new, appended' \subseteq SpanIds, IsFiniteSet(appended'),
         Cardinality(appended') = Cardinality(appended) + n,
         Len(batch) + Len(rest) = Len(spanBuffer) + n,
         ToSet(batch) \cup ToSet(rest) = ToSet(spanBuffer) \cup new
  PROVE  UdpInv' /\ \E r \in Delivery!Results : Delivery!Emit(batch, r)
<1>1. /\ UdpTypeInv /\ GapInv
      /\ Cardinality(appended)
           = Len(written) + Len(spanBuffer) + failedToEmitSpans + tooLargeDroppedSpans
      /\ success = Len(written) /\ failure = failedToEmitSpans + tooLargeDroppedSpans
      /\ appended = ToSet(written) \cup ToSet(spanBuffer) \cup tooLarge
                      \cup SpansOf(refused \cup unsent)
  BY DEF UdpInv, SpansAccounted, SpansOf
<1>2. /\ written' \in Seq(SpanIds) /\ reports' \in Seq(Report) /\ batchSeqNo' \in Nat
      /\ failedToEmitSpans' \in Nat /\ success' \in Nat /\ failure' \in Nat
      /\ GapInv'
      /\ \E got \in Nat, lost \in Nat : got + lost = Len(batch) /\ CountedAs(got, lost)
      /\ ToSet(written') \cup SpansOf(refused' \cup unsent')
           = ToSet(written) \cup SpansOf(refused \cup unsent) \cup ToSet(batch)
      /\ \E r \in Delivery!Results : Delivery!Emit(batch, r)
  BY <1>1, FlushStep
<1>3. /\ Len(written') \in Nat /\ Len(written) \in Nat /\ Len(batch) \in Nat
      /\ Len(rest) \in Nat /\ Len(spanBuffer) \in Nat
  BY <1>1, <1>2, LenProperties DEF UdpTypeInv
<1>4. UdpTypeInv'
  BY <1>1, <1>2 DEF UdpTypeInv
<1>5. /\ failedToEmitSpans \in Nat /\ tooLargeDroppedSpans \in Nat /\ success \in Nat
      /\ failure \in Nat /\ failedToEmitSpans' \in Nat /\ success' \in Nat /\ failure' \in Nat
  BY <1>1, <1>2 DEF UdpTypeInv
<1>6. PICK got \in Nat, lost \in Nat : got + lost = Len(batch) /\ CountedAs(got, lost)
  BY <1>2
<1>7. /\ success' = Len(written') /\ failure' = failedToEmitSpans' + tooLargeDroppedSpans
      /\ Cardinality(appended')
           = Len(written') + Len(rest) + failedToEmitSpans' + tooLargeDroppedSpans
  <2>1. PICK g \in Nat, f \in Nat, t \in Nat, b \in Nat, r \in Nat :
          /\ g = Len(written) /\ f = failedToEmitSpans /\ t = tooLargeDroppedSpans
          /\ b = Len(spanBuffer) /\ r = Len(rest)
    BY <1>3, <1>5
  <2>2. got + lost + r = b + n
    BY <1>6, <2>1
  <2>3. /\ success = g /\ failure = f + t /\ Cardinality(appended') = g + b + f + t + n
    BY <1>1, <2>1
  <2>4. /\ Len(written') = g + got /\ success' = g + got
        /\ failedToEmitSpans' = f + lost /\ failure' = f + t + lost
    BY <1>6, <2>1, <2>3 DEF CountedAs
  <2>5. g + b + f + t + n = g + got + r + (f + lost) + t
    BY ONLY <2>2
  <2> QED  BY <2>1, <2>3, <2>4, <2>5
<1>8. appended' = ToSet(written') \cup ToSet(rest) \cup tooLarge
                    \cup SpansOf(refused' \cup unsent')
  BY <1>1, <1>2
<1>9. SpansAccounted'
  BY <1>7, <1>8 DEF SpansAccounted, SpansOf
<1> QED
  BY <1>2, <1>4, <1>9 DEF UdpInv

(* A new span is counted once. *)
LEMMA NewSpan ==
  ASSUME UdpTypeInv, NEW i \in SpanIds, i \notin appended, appended' = appended \cup {i}
  PROVE  /\ appended' \subseteq SpanIds /\ IsFiniteSet(appended')
         /\ Cardinality(appended') = Cardinality(appended) + 1
         /\ Cardinality(appended) \in Nat
BY FS_AddElement, FS_CardinalityType DEF UdpTypeInv

LEMMA UdpAppend ==
  ASSUME UdpInv, NEW i \in SpanIds, NEW net \in Net, AppendSpan(i, net)
  PROVE  UdpInv' /\ Delivery!AppendOutcome(i)
<1>1. /\ UdpTypeInv /\ GapInv
      /\ Cardinality(appended)
           = Len(written) + Len(spanBuffer) + failedToEmitSpans + tooLargeDroppedSpans
      /\ success = Len(written) /\ failure = failedToEmitSpans + tooLargeDroppedSpans
      /\ appended = ToSet(written) \cup ToSet(spanBuffer) \cup tooLarge
                      \cup SpansOf(refused \cup unsent)
  BY DEF UdpInv, SpansAccounted, SpansOf
<1>2. /\ appended' \subseteq SpanIds /\ IsFiniteSet(appended') /\ appended' = appended \cup {i}
      /\ Cardinality(appended') = Cardinality(appended) + 1
      /\ UNCHANGED queueDropped
  BY <1>1, NewSpan DEF AppendSpan
<1>3. /\ spanBuffer \in Seq(SpanIds) /\ Len(spanBuffer) \in Nat
      /\ written \in Seq(SpanIds) /\ Len(written) \in Nat
      /\ << >> \in Seq(SpanIds) /\ <<i>> \in Seq(SpanIds)
      /\ Len(<<i>>) = 1 /\ ToSet(<<i>>) = {i}
  BY <1>1, LenProperties, EmptySeq, OneSpan DEF UdpTypeInv
<1>4. /\ Append(spanBuffer, i) \in Seq(SpanIds)
      /\ Len(Append(spanBuffer, i)) = Len(spanBuffer) + 1
      /\ ToSet(Append(spanBuffer, i)) = ToSet(spanBuffer) \cup {i}
  BY <1>3, Appended
<1>5. CASE AppendTooLarge(i)
  <2>1. /\ tooLargeDroppedSpans' = tooLargeDroppedSpans + 1 /\ tooLarge' = tooLarge \cup {i}
        /\ failure' = failure + 1
        /\ UNCHANGED <<spanBuffer, batchSeqNo, failedToEmitSpans, written, reports, success,
                       refused, unsent>>
    BY <1>5 DEF AppendTooLarge
  <2>2. UdpTypeInv'
    <3>1. tooLargeDroppedSpans' \in Nat /\ failure' \in Nat
      BY <1>1, <2>1 DEF UdpTypeInv
    <3> QED  BY <1>1, <1>2, <2>1, <3>1 DEF UdpTypeInv
  <2>3. GapInv'
    BY <1>1, <2>1 DEF GapInv, Reported, ReportedLost
  <2>4. /\ Cardinality(appended') = Len(written) + Len(spanBuffer) + failedToEmitSpans
                                      + tooLargeDroppedSpans'
        /\ failure' = failedToEmitSpans + tooLargeDroppedSpans'
    BY <1>1, <1>2, <1>3, <2>1 DEF UdpTypeInv
  <2>5. appended' = ToSet(written) \cup ToSet(spanBuffer) \cup tooLarge'
                      \cup SpansOf(refused \cup unsent)
    BY <1>1, <1>2, <2>1
  <2>6. SpansAccounted'
    BY <1>1, <2>1, <2>4, <2>5 DEF SpansAccounted, SpansOf
  <2>7. Delivery!Elems(<<i>>) = {i}
    BY <1>3 DEF Delivery!Elems, ToSet
  <2>8. Delivery!Reject(i)
    BY <1>3, <2>1, <2>7 DEF Delivery!Reject, Delivery!Emit
  <2> QED
    BY <2>2, <2>3, <2>6, <2>8 DEF UdpInv, Delivery!AppendOutcome
<1>6. CASE AppendKeeps(i)
  <2>1. /\ spanBuffer' = Append(spanBuffer, i)
        /\ UNCHANGED <<batchSeqNo, failedToEmitSpans, written, reports, success, failure,
                       refused, unsent, tooLargeDroppedSpans, tooLarge>>
    BY <1>6 DEF AppendKeeps, emitVars
  <2>2. UdpTypeInv'
    BY <1>1, <1>2, <1>4, <2>1 DEF UdpTypeInv
  <2>3. GapInv'
    BY <1>1, <2>1 DEF GapInv, Reported, ReportedLost
  <2>4. Cardinality(appended') = Len(written) + Len(spanBuffer') + failedToEmitSpans
                                   + tooLargeDroppedSpans
    BY <1>1, <1>2, <1>3, <1>4, <2>1 DEF UdpTypeInv
  <2>5. appended' = ToSet(written) \cup ToSet(spanBuffer') \cup tooLarge
                      \cup SpansOf(refused \cup unsent)
    BY <1>1, <1>2, <1>4, <2>1
  <2>6. SpansAccounted'
    BY <1>1, <2>1, <2>4, <2>5 DEF SpansAccounted, SpansOf
  <2>7. Delivery!Keep(i)
    BY <2>1 DEF Delivery!Keep
  <2> QED
    BY <2>2, <2>3, <2>6, <2>7 DEF UdpInv, Delivery!AppendOutcome
<1>7. CASE AppendFills(i, net)
  <2>1. /\ Flush(Append(spanBuffer, i), net) /\ spanBuffer' = << >>
        /\ UNCHANGED <<tooLargeDroppedSpans, tooLarge>>
    BY <1>7 DEF AppendFills
  <2>2. /\ Len(Append(spanBuffer, i)) + Len(<< >>) = Len(spanBuffer) + 1
        /\ ToSet(Append(spanBuffer, i)) \cup ToSet(<< >>) = ToSet(spanBuffer) \cup {i}
    BY <1>3, <1>4, Nothing
  <2>3. UdpInv' /\ \E r \in Delivery!Results : Delivery!Emit(Append(spanBuffer, i), r)
    BY <1>2, <1>3, <1>4, <2>1, <2>2, BatchLeaves
  <2>4. \E r \in Delivery!Results : Delivery!FlushWith(i, r)
    BY <2>1, <2>3 DEF Delivery!FlushWith
  <2> QED
    BY <2>3, <2>4 DEF Delivery!AppendOutcome
<1>8. CASE AppendFlushesFirst(i, net)
  <2>1. /\ Flush(spanBuffer, net) /\ spanBuffer' = <<i>>
        /\ UNCHANGED <<tooLargeDroppedSpans, tooLarge>>
    BY <1>8 DEF AppendFlushesFirst
  <2>2. /\ Len(spanBuffer) + Len(<<i>>) = Len(spanBuffer) + 1
        /\ ToSet(spanBuffer) \cup ToSet(<<i>>) = ToSet(spanBuffer) \cup {i}
    BY <1>3
  <2>3. UdpInv' /\ \E r \in Delivery!Results : Delivery!Emit(spanBuffer, r)
    BY <1>2, <1>3, <2>1, <2>2, BatchLeaves
  <2>4. \E r \in Delivery!Results : Delivery!FlushBefore(i, r)
    BY <2>1, <2>3 DEF Delivery!FlushBefore
  <2> QED
    BY <2>3, <2>4 DEF Delivery!AppendOutcome
<1> QED
  BY <1>5, <1>6, <1>7, <1>8 DEF AppendSpan

LEMMA UdpStep ==
  ASSUME UdpInv, [Next]_vars
  PROVE  UdpInv' /\ [Delivery!TransportNext(SpanIds)]_<<spanBuffer, written, tooLarge,
                                                        refused, unsent, success, failure>>
<1>1. ASSUME UNCHANGED <<bufferVars, emitVars, tooLargeDroppedSpans, appended, tooLarge>>,
             queueDropped' \in Nat
      PROVE  UdpInv' /\ UNCHANGED <<spanBuffer, written, tooLarge, refused, unsent,
                                    success, failure>>
  BY <1>1 DEF UdpInv, UdpTypeInv, SpansAccounted, GapInv, Reported, ReportedLost,
              bufferVars, emitVars
<1>2. CASE UNCHANGED vars
  BY <1>1, <1>2 DEF vars, UdpInv, UdpTypeInv
<1>3. CASE QueueDrops
  BY <1>1, <1>3 DEF QueueDrops, UdpInv, UdpTypeInv
<1>4. ASSUME NEW net \in Net, FlushBuffer(net)
      PROVE  UdpInv' /\ Delivery!TransportNext(SpanIds)
  <2>1. /\ spanBuffer' = << >> /\ Flush(spanBuffer, net)
        /\ UNCHANGED <<tooLarge, queueDropped, tooLargeDroppedSpans, appended>>
    BY <1>4 DEF FlushBuffer
  <2>2. /\ spanBuffer \in Seq(SpanIds) /\ Len(spanBuffer) \in Nat /\ << >> \in Seq(SpanIds)
        /\ appended \subseteq SpanIds /\ IsFiniteSet(appended) /\ Cardinality(appended) \in Nat
    BY EmptySeq, LenProperties, FS_CardinalityType DEF UdpInv, UdpTypeInv
  <2>3. /\ Len(spanBuffer) + Len(<< >>) = Len(spanBuffer) + 0
        /\ ToSet(spanBuffer) \cup ToSet(<< >>) = ToSet(spanBuffer) \cup {}
        /\ Cardinality(appended') = Cardinality(appended) + 0
        /\ appended' = appended \cup {}
        /\ appended' \subseteq SpanIds /\ IsFiniteSet(appended')
    BY <2>1, <2>2, Nothing
  <2>4. UdpInv' /\ \E r \in Delivery!Results : Delivery!Emit(spanBuffer, r)
    BY <2>1, <2>2, <2>3, BatchLeaves
  <2> QED
    BY <2>1, <2>4 DEF Delivery!TransportNext, Delivery!Flush
<1>5. ASSUME NEW net \in Net, NEW i \in SpanIds, AppendSpan(i, net)
      PROVE  UdpInv' /\ Delivery!TransportNext(SpanIds)
  BY <1>5, UdpAppend DEF Delivery!TransportNext
<1> QED
  BY <1>2, <1>3, <1>4, <1>5 DEF Next, Net

LEMMA UdpInit ==
  ASSUME Init
  PROVE  UdpInv /\ Delivery!TransportInit
<1>1. UdpTypeInv
  BY EmptySeq, FS_EmptySet DEF Init, UdpTypeInv
<1>2. SpansAccounted
  BY Nothing, FS_EmptySet DEF Init, SpansAccounted
<1>3. GapInv
  <2>1. DOMAIN reports = {} /\ Len(reports) = 0
    BY Nothing DEF Init
  <2> QED  BY <2>1 DEF Init, GapInv, Gap, Reported, ReportedLost
<1>4. Delivery!TransportInit
  BY DEF Init, Delivery!TransportInit
<1> QED
  BY <1>1, <1>2, <1>3, <1>4 DEF UdpInv

-----------------------------------------------------------------------------
(* The bytes of the UDP sender *)

(* The recursive function that Bytes is defined with, for the first n spans. *)
IsTotal(total, batch, n) ==
  total = [k \in 0..n |-> IF k = 0 THEN 0 ELSE total[k - 1] + size[batch[k]]]

LEMMA TotalExists ==
  ASSUME NEW batch
  PROVE  \A n \in Nat : \E total : IsTotal(total, batch, n)
<1> DEFINE S == {n \in Nat : \E total : IsTotal(total, batch, n)}
<1>1. 0 \in S
  <2>1. IsTotal([k \in 0..0 |-> 0], batch, 0)
    BY DEF IsTotal
  <2> QED
    BY <2>1
<1>2. ASSUME NEW n \in Nat, n \in S PROVE n + 1 \in S
  <2>1. PICK total : IsTotal(total, batch, n)
    BY <1>2
  <2> DEFINE more == [k \in 0..n + 1 |-> IF k = n + 1 THEN total[n] + size[batch[n + 1]] ELSE total[k]]
  <2>2. \A k \in 0..n + 1 : more[k] = IF k = 0 THEN 0 ELSE more[k - 1] + size[batch[k]]
    <3> TAKE k \in 0..n + 1
    <3>1. CASE k = n + 1
      BY <3>1
    <3>2. CASE k # n + 1
      <4>1. k \in 0..n /\ (k # 0 => k - 1 \in 0..n /\ k - 1 # n + 1)
        BY <3>2
      <4>2. total[k] = IF k = 0 THEN 0 ELSE total[k - 1] + size[batch[k]]
        BY <2>1, <4>1 DEF IsTotal
      <4> QED
        BY <4>1, <4>2
    <3> QED
      BY <3>1, <3>2
  <2>3. IsTotal(more, batch, n + 1)
    BY <2>2 DEF IsTotal
  <2> QED
    BY <2>3
<1> HIDE DEF S
<1>3. Nat \subseteq S
  BY <1>1, <1>2, Induction
<1> QED
  BY <1>3 DEF S

LEMMA BytesTotal ==
  ASSUME NEW batch \in Seq(SpanIds)
  PROVE  \E total : IsTotal(total, batch, Len(batch)) /\ Bytes(batch) = total[Len(batch)]
<1>1. \E total : IsTotal(total, batch, Len(batch))
  BY TotalExists, LenProperties
<1> QED
  BY <1>1 DEF Bytes, IsTotal

(* The bytes of a batch, span by span. *)
LEMMA BytesOf ==
  ASSUME size \in [SpanIds -> Sizes], NEW batch \in Seq(SpanIds), NEW i \in SpanIds
  PROVE  /\ Bytes(batch) \in Nat
         /\ Bytes(<< >>) = 0
         /\ Bytes(Append(batch, i)) = Bytes(batch) + size[i]
<1>1. PICK total : IsTotal(total, batch, Len(batch)) /\ Bytes(batch) = total[Len(batch)]
  BY BytesTotal
<1>0. /\ Len(batch) \in Nat
      /\ Append(batch, i) \in Seq(SpanIds) /\ Len(Append(batch, i)) = Len(batch) + 1
      /\ \A k \in 1..Len(batch) : batch[k] \in SpanIds /\ Append(batch, i)[k] = batch[k]
      /\ Append(batch, i)[Len(batch) + 1] = i
  BY AppendProperties, ElementOfSeq, LenProperties
<1>2. PICK more : IsTotal(more, Append(batch, i), Len(batch) + 1)
                  /\ Bytes(Append(batch, i)) = more[Len(batch) + 1]
  <2>1. \E more : /\ IsTotal(more, Append(batch, i), Len(Append(batch, i)))
                  /\ Bytes(Append(batch, i)) = more[Len(Append(batch, i))]
    BY <1>0, BytesTotal
  <2> QED
    BY <1>0, <2>1
<1>3. PICK none : IsTotal(none, << >>, 0) /\ Bytes(<< >>) = none[0]
  BY BytesTotal, EmptySeq
<1>4. Bytes(<< >>) = 0
  BY <1>3 DEF IsTotal
<1> DEFINE S == {k \in Nat : k <= Len(batch) => total[k] \in Nat /\ more[k] = total[k]}
<1>5. 0 \in S
  BY <1>1, <1>2 DEF IsTotal
<1>6. ASSUME NEW k \in Nat, k \in S PROVE k + 1 \in S
  <2> SUFFICES ASSUME k + 1 <= Len(batch) PROVE total[k + 1] \in Nat /\ more[k + 1] = total[k + 1]
    OBVIOUS
  <2>1. k + 1 \in 1..Len(batch) /\ k + 1 \in 0..Len(batch) + 1 /\ k + 1 # 0 /\ (k + 1) - 1 = k
    OBVIOUS
  <2>2. batch[k + 1] \in SpanIds /\ Append(batch, i)[k + 1] = batch[k + 1]
    BY <1>0, <2>1
  <2>3. total[k + 1] = total[k] + size[batch[k + 1]]
    BY <1>1, <2>1 DEF IsTotal
  <2>4. more[k + 1] = more[k] + size[Append(batch, i)[k + 1]]
    BY <1>2, <2>1 DEF IsTotal
  <2>5. size[batch[k + 1]] \in Nat
    BY <2>2, SizeAssumption
  <2>6. total[k] \in Nat /\ more[k] = total[k]
    BY <1>0, <1>6
  <2> QED
    BY <2>2, <2>3, <2>4, <2>5, <2>6
<1> HIDE DEF S
<1>7. Len(batch) \in S
  BY <1>5, <1>6, Induction, LenProperties
<1>8. total[Len(batch)] \in Nat /\ more[Len(batch)] = total[Len(batch)]
  BY <1>7, LenProperties DEF S
<1>9. more[Len(batch) + 1] = more[Len(batch)] + size[i]
  <2>1. Len(batch) + 1 \in 0..Len(batch) + 1 /\ Len(batch) + 1 # 0 /\ (Len(batch) + 1) - 1 = Len(batch)
    BY <1>0
  <2> QED
    BY <1>0, <1>2, <2>1 DEF IsTotal
<1> QED
  BY <1>1, <1>2, <1>4, <1>8, <1>9

(* A batch fits its datagram, or is one span. *)
Packed(batch) == Len(batch) = 1 \/ processSize + Bytes(batch) <= maxSpanBytes

LEMMA SizeNat ==
  ASSUME size \in [SpanIds -> Sizes], NEW i \in SpanIds
  PROVE  size[i] \in Nat
<1>1. size[i] \in Sizes
  OBVIOUS
<1> QED
  BY <1>1, SizeAssumption

LEMMA BytesOfOne ==
  ASSUME size \in [SpanIds -> Sizes], NEW i \in SpanIds
  PROVE  Bytes(<<i>>) = size[i]
<1>1. << >> \in Seq(SpanIds)
  BY EmptySeq
<1>2. Append(<< >>, i) = <<i>>
  OBVIOUS
<1>3. Bytes(Append(<< >>, i)) = Bytes(<< >>) + size[i] /\ Bytes(<< >>) = 0
  BY <1>1, BytesOf
<1> QED
  BY <1>2, <1>3, SizeNat

LEMMA BytesNat ==
  ASSUME size \in [SpanIds -> Sizes], NEW batch \in Seq(SpanIds)
  PROVE  Bytes(batch) \in Nat
<1>1. CASE batch = << >>
  <2>1. PICK none : IsTotal(none, << >>, 0) /\ Bytes(<< >>) = none[0]
    BY BytesTotal, EmptySeq
  <2> QED
    BY <1>1, <2>1 DEF IsTotal
<1>2. CASE batch # << >>
  <2>1. batch[1] \in SpanIds
    BY <1>2, EmptySeq, ElementOfSeq, LenProperties
  <2> QED
    BY <2>1, BytesOf
<1> QED
  BY <1>1, <1>2

LEMMA BytesStay ==
  ASSUME UNCHANGED sizeVars
  PROVE  \A batch : Bytes(batch)' = Bytes(batch)
BY DEF Bytes, sizeVars


(* The buffer is measured right, and fits one datagram or is one span. *)
PackInv ==
  /\ size \in [SpanIds -> Sizes] /\ processSize \in ProcessSizes
  /\ byteBufferSize \in Nat
  /\ processByteSize \in {0, processSize}
  /\ processByteSize = 0 => spanBuffer = << >> /\ byteBufferSize = 0
  /\ BytesExact
  /\ spanBuffer # << >> => Packed(spanBuffer)
  /\ RefusedAlone

LEMMA PackedFits ==
  ASSUME PackInv, NEW batch \in Seq(SpanIds), Packed(batch), ~Fits(batch)
  PROVE  Len(batch) = 1 /\ size[batch[1]] + processSize > maxSpanBytes
<1>1. /\ MaxPacketSize \in Nat /\ EmitBatchOverhead \in Nat /\ Envelope \in Nat
      /\ Envelope <= EmitBatchOverhead /\ processSize \in Nat /\ Bytes(batch) \in Nat
      /\ maxSpanBytes \in Int
  <2>1. processSize \in Nat
    BY SizeAssumption DEF PackInv
  <2>2. Bytes(batch) \in Nat
    BY BytesNat DEF PackInv
  <2> QED
    BY <2>1, <2>2, SizeAssumption DEF maxSpanBytes
<1>2. processSize + Bytes(batch) > maxSpanBytes
  BY <1>1 DEF Fits, maxSpanBytes
<1>3. Len(batch) = 1
  BY <1>1, <1>2 DEF Packed
<1>4. batch = << batch[1] >> /\ batch[1] \in SpanIds
  BY <1>3
<1>5. Bytes(batch) = size[batch[1]]
  BY <1>4, BytesOfOne DEF PackInv
<1>6. size[batch[1]] \in Nat
  BY <1>1, <1>5
<1> QED
  BY <1>1, <1>2, <1>3, <1>5, <1>6


(* A batch leaves that is packed as the buffer is. *)
LEMMA PackedLeaves ==
  ASSUME PackInv, UNCHANGED sizeVars, NEW net, NEW batch \in Seq(SpanIds),
         batch # << >> => Packed(batch), Flush(batch, net)
  PROVE  RefusedAlone'
<1>1. size' = size /\ processSize' = processSize
  BY DEF sizeVars
<1>2. \A b \in refused' : b \in refused \/ (b = batch /\ ~Fits(batch) /\ batch # << >>)
  BY DEF Flush, EmitBatch, emitVars
<1> QED
  BY <1>1, <1>2, PackedFits DEF PackInv, RefusedAlone, maxSpanBytes

LEMMA PackStep ==
  ASSUME UdpTypeInv, PackInv, [Next]_vars
  PROVE  PackInv'
<1>1. ASSUME UNCHANGED <<sizeVars, bufferVars, refused>>
      PROVE  PackInv'
  BY <1>1, BytesStay DEF PackInv, BytesExact, RefusedAlone, Packed, sizeVars, bufferVars, maxSpanBytes
<1>2. CASE UNCHANGED vars
  BY <1>1, <1>2 DEF vars, emitVars
<1>3. CASE QueueDrops
  BY <1>1, <1>3 DEF QueueDrops, emitVars
<1>4. ASSUME NEW net \in Net, FlushBuffer(net)
      PROVE  PackInv'
  <2>1. /\ UNCHANGED <<sizeVars, processByteSize>> /\ spanBuffer' = << >>
        /\ byteBufferSize' = processSize + Bytes(<< >>)
        /\ spanBuffer # << >> /\ Flush(spanBuffer, net)
    BY <1>4 DEF FlushBuffer, BytesWith
  <2>2. RefusedAlone'
    BY <2>1, PackedLeaves DEF PackInv, UdpTypeInv
  <2>3. processSize \in Nat /\ processByteSize = processSize /\ Bytes(<< >>) \in Nat
    BY <2>1, SizeAssumption, BytesNat, EmptySeq DEF PackInv, UdpTypeInv
  <2> QED
    BY <2>1, <2>2, <2>3, BytesStay DEF PackInv, BytesExact, sizeVars
<1>5. ASSUME NEW net \in Net, NEW i \in SpanIds, AppendSpan(i, net)
      PROVE  PackInv'
  <2>1. /\ size \in [SpanIds -> Sizes] /\ processSize \in Nat \ {0} /\ size[i] \in Nat
        /\ spanBuffer \in Seq(SpanIds) /\ byteBufferSize \in Nat
        /\ maxSpanBytes \in Int
    <3>1. processSize \in Nat \ {0}
      BY SizeAssumption DEF PackInv
    <3>2. maxSpanBytes \in Int
      BY SizeAssumption DEF maxSpanBytes
    <3> QED
      BY <3>1, <3>2, SizeNat DEF PackInv, UdpTypeInv
  <2>2. /\ UNCHANGED sizeVars /\ processByteSize' = processSize
        /\ size' = size /\ processSize' = processSize
    BY <1>5 DEF AppendSpan, sizeVars
  <2>3. /\ Append(spanBuffer, i) \in Seq(SpanIds) /\ <<i>> \in Seq(SpanIds)
        /\ << >> \in Seq(SpanIds)
        /\ Bytes(spanBuffer) \in Nat /\ Bytes(<< >>) = 0 /\ Bytes(<<i>>) = size[i]
        /\ Bytes(Append(spanBuffer, i)) = Bytes(spanBuffer) + size[i]
    BY <2>1, BytesOf, BytesOfOne
  <2>4. BytesBefore = processSize + Bytes(spanBuffer)
    BY <2>1, <2>3 DEF PackInv, BytesBefore, BytesExact
  <2>5. ASSUME RefusedAlone', byteBufferSize' = processSize + Bytes(spanBuffer'),
               Bytes(spanBuffer') \in Nat, spanBuffer' # << >> => Packed(spanBuffer')
        PROVE  PackInv'
    BY <2>1, <2>2, <2>5, BytesStay DEF PackInv, BytesExact, Packed, maxSpanBytes
  <2>6. CASE AppendTooLarge(i)
    <3>1. UNCHANGED <<spanBuffer, refused>> /\ byteBufferSize' = processSize + Bytes(spanBuffer)
      BY <2>4, <2>6 DEF AppendTooLarge
    <3>2. RefusedAlone'
      BY <2>2, <3>1 DEF PackInv, RefusedAlone, maxSpanBytes
    <3> QED
      BY <2>3, <2>5, <3>1, <3>2 DEF PackInv
  <2>7. CASE AppendKeeps(i)
    <3>1. /\ spanBuffer' = Append(spanBuffer, i) /\ refused' = refused
          /\ byteBufferSize' = processSize + Bytes(spanBuffer) + size[i]
          /\ processSize + Bytes(spanBuffer) + size[i] < maxSpanBytes
      BY <2>4, <2>7 DEF AppendKeeps, emitVars
    <3>2. RefusedAlone'
      BY <2>2, <3>1 DEF PackInv, RefusedAlone, maxSpanBytes
    <3>3. Packed(Append(spanBuffer, i)) /\ Bytes(Append(spanBuffer, i)) \in Nat
          /\ byteBufferSize' = processSize + Bytes(Append(spanBuffer, i))
      BY <2>1, <2>3, <3>1 DEF Packed
    <3> QED
      BY <2>5, <3>1, <3>2, <3>3
  <2>8. CASE AppendFills(i, net)
    <3>1. /\ spanBuffer' = << >> /\ byteBufferSize' = processSize + Bytes(<< >>)
          /\ processSize + Bytes(spanBuffer) + size[i] = maxSpanBytes
          /\ Flush(Append(spanBuffer, i), net)
      BY <2>4, <2>8 DEF AppendFills, BytesWith
    <3>2. Packed(Append(spanBuffer, i))
      BY <2>1, <2>3, <3>1 DEF Packed
    <3>3. RefusedAlone'
      BY <2>2, <2>3, <3>1, <3>2, PackedLeaves
    <3> QED
      BY <2>3, <2>5, <3>1, <3>3
  <2>9. CASE AppendFlushesFirst(i, net)
    <3>1. /\ spanBuffer' = <<i>> /\ byteBufferSize' = processSize + Bytes(<<i>>)
          /\ Flush(spanBuffer, net)
      BY <2>9 DEF AppendFlushesFirst, BytesWith
    <3>2. RefusedAlone'
      BY <2>1, <2>2, <3>1, PackedLeaves DEF PackInv
    <3>3. Packed(<<i>>)
      BY OneSpan DEF Packed
    <3> QED
      BY <2>1, <2>3, <2>5, <3>1, <3>2, <3>3
  <2> QED
    BY <1>5, <2>6, <2>7, <2>8, <2>9 DEF AppendSpan
<1> QED
  BY <1>2, <1>3, <1>4, <1>5 DEF Next, Net

LEMMA PackInit ==
  ASSUME Init
  PROVE  PackInv
BY DEF Init, PackInv, BytesExact, RefusedAlone

-----------------------------------------------------------------------------
(* The HTTP transports *)

Once(q) == \A i, j \in DOMAIN q : q[i] = q[j] => i = j

(* No span in the buffer was sent before, and the buffer is not yet full. *)
BufferInv ==
  /\ spans \in Seq(SpanIds) /\ Once(spans) /\ Len(spans) < batchSize
  /\ ToSet(spans) \subseteq httpAppended
  /\ \A i \in ToSet(spans) : i \notin Taken /\ i \notin failed

HistoryInv ==
  /\ batchSize \in Nat /\ batchSize > 0
  /\ collector \in Seq(Seq(SpanIds)) /\ acknowledged \in Seq(SpanIds)
  /\ httpSuccess \in Nat /\ httpFailure \in Nat
  /\ Taken \subseteq httpAppended /\ failed \subseteq httpAppended
  /\ \A b \in DOMAIN collector : Once(collector[b]) /\ Len(collector[b]) <= batchSize
  /\ \A a, b \in DOMAIN collector : a # b => ToSet(collector[a]) \cap ToSet(collector[b]) = {}
  /\ ToSet(acknowledged) = Taken \ failed

HttpInv == BufferInv /\ HistoryInv

LEMMA InvTakenOnce ==
  ASSUME HttpInv
  PROVE  TakenOnce
<1>1. \A a, b \in DOMAIN collector : \A i \in DOMAIN collector[a], j \in DOMAIN collector[b] :
        collector[a][i] = collector[b][j] => a = b /\ i = j
  <2> SUFFICES ASSUME NEW a \in DOMAIN collector, NEW b \in DOMAIN collector,
                      NEW i \in DOMAIN collector[a], NEW j \in DOMAIN collector[b],
                      collector[a][i] = collector[b][j]
               PROVE  a = b /\ i = j
    OBVIOUS
  <2>1. collector[a][i] \in ToSet(collector[a]) /\ collector[b][j] \in ToSet(collector[b])
    BY DEF ToSet
  <2>2. a = b
    BY <2>1 DEF HttpInv, HistoryInv
  <2> QED
    BY <2>2 DEF HttpInv, HistoryInv, Once
<1>2. Taken \subseteq ToSet(acknowledged) \cup failed /\ ToSet(acknowledged) = Taken \ failed
  BY DEF HttpInv, HistoryInv
<1>3. \A b \in DOMAIN collector : Len(collector[b]) <= batchSize
  BY DEF HttpInv, HistoryInv
<1> QED
  BY <1>1, <1>2, <1>3 DEF TakenOnce, Http!TakenOnce, Http!ToSet, ToSet, Taken

(* A batch the collector takes is one it has seen nothing of. *)
LEMMA CollectorTakes ==
  ASSUME HistoryInv, NEW batch \in Seq(SpanIds), Once(batch), Len(batch) <= batchSize,
         \A i \in ToSet(batch) : i \notin Taken,
         collector' = Append(collector, batch)
  PROVE  /\ collector' \in Seq(Seq(SpanIds))
         /\ Taken' = Taken \cup ToSet(batch)
         /\ \A b \in DOMAIN collector' : Once(collector'[b]) /\ Len(collector'[b]) <= batchSize
         /\ \A a, b \in DOMAIN collector' :
              a # b => ToSet(collector'[a]) \cap ToSet(collector'[b]) = {}
<1>1. PICK n \in Nat : n = Len(collector)
  BY LenProperties DEF HistoryInv
<1>2. /\ collector' \in Seq(Seq(SpanIds)) /\ DOMAIN collector' = 1..n + 1 /\ DOMAIN collector = 1..n
      /\ \A b \in DOMAIN collector : collector'[b] = collector[b]
      /\ collector'[n + 1] = batch
  BY <1>1, Appended DEF HistoryInv
<1>3. DOMAIN collector' = DOMAIN collector \cup {n + 1} /\ n + 1 \notin DOMAIN collector
  BY <1>2
<1>4. Taken' = Taken \cup ToSet(batch)
  BY <1>2, <1>3 DEF Taken
<1>5. \A b \in DOMAIN collector' : Once(collector'[b]) /\ Len(collector'[b]) <= batchSize
  BY <1>2, <1>3 DEF HistoryInv
<1>6. \A b \in DOMAIN collector : ToSet(collector[b]) \cap ToSet(batch) = {}
  BY DEF Taken
<1>7. \A a, b \in DOMAIN collector' :
        a # b => ToSet(collector'[a]) \cap ToSet(collector'[b]) = {}
  BY <1>2, <1>3, <1>6 DEF HistoryInv
<1> QED
  BY <1>2, <1>4, <1>5, <1>7

LEMMA HttpFlush ==
  ASSUME HistoryInv, NEW batch \in Seq(SpanIds), Once(batch), Len(batch) <= batchSize,
         \A i \in ToSet(batch) : i \notin Taken /\ i \notin failed,
         NEW outcome \in Http!Outcomes, Http!Flush(batch, outcome), UNCHANGED batchSize,
         httpAppended \subseteq httpAppended', ToSet(batch) \subseteq httpAppended'
  PROVE  HttpInv' /\ spans' = << >> /\ \E r \in Http!Delivery!Results : Http!Delivery!Emit(batch, r)
<1>1. outcome.taken \/ outcome.error
  <2>1. outcome \in {[taken |-> TRUE, error |-> FALSE], [taken |-> FALSE, error |-> TRUE],
                     [taken |-> TRUE, error |-> TRUE]}
    BY DEF Http!Outcomes, Http!JaegerSend, Http!ZipkinSend
  <2>2. CASE outcome = [taken |-> TRUE, error |-> FALSE]
    BY <2>2
  <2>3. CASE outcome = [taken |-> FALSE, error |-> TRUE]
    BY <2>3
  <2>4. CASE outcome = [taken |-> TRUE, error |-> TRUE]
    BY <2>4
  <2> QED  BY <2>1, <2>2, <2>3, <2>4
<1>2. spans' = << >> /\ BufferInv'
  <2>1. spans' = << >>
    BY DEF Http!Flush
  <2> QED  BY <2>1, Nothing, EmptySeq DEF BufferInv, HistoryInv, Once
<1>3. Len(batch) \in Nat /\ acknowledged \in Seq(SpanIds)
  BY LenProperties DEF HistoryInv
<1>4. /\ collector' \in Seq(Seq(SpanIds))
      /\ Taken' = IF outcome.taken THEN Taken \cup ToSet(batch) ELSE Taken
      /\ \A b \in DOMAIN collector' : Once(collector'[b]) /\ Len(collector'[b]) <= batchSize
      /\ \A a, b \in DOMAIN collector' :
           a # b => ToSet(collector'[a]) \cap ToSet(collector'[b]) = {}
  <2>1. CASE outcome.taken
    <3>1. collector' = Append(collector, batch)
      BY <2>1 DEF Http!Flush
    <3> QED  BY <2>1, <3>1, CollectorTakes
  <2>2. CASE ~outcome.taken
    <3>1. collector' = collector
      BY <2>2 DEF Http!Flush
    <3> QED  BY <2>2, <3>1 DEF HistoryInv, Taken
  <2> QED  BY <2>1, <2>2
<1>5. CASE outcome.error
  <2>1. /\ failed' = failed \cup ToSet(batch) /\ httpFailure' = httpFailure + Len(batch)
        /\ UNCHANGED <<acknowledged, httpSuccess>>
    BY <1>5 DEF Http!Flush, Http!ToSet, ToSet
  <2>2. ToSet(acknowledged') = Taken' \ failed'
    BY <1>4, <2>1 DEF HistoryInv
  <2>3. Taken' \subseteq httpAppended' /\ failed' \subseteq httpAppended'
    BY <1>4, <2>1 DEF HistoryInv
  <2>4. httpFailure' \in Nat /\ httpSuccess' \in Nat
    BY <1>3, <2>1 DEF HistoryInv
  <2>5. HistoryInv'
    BY <1>3, <1>4, <2>1, <2>2, <2>3, <2>4 DEF HistoryInv
  <2>6. Http!Delivery!Emit(batch, "error")
    BY <2>1 DEF Http!Delivery!Emit, Http!Delivery!Elems, ToSet
  <2> QED
    BY <1>2, <2>5, <2>6 DEF HttpInv, Http!Delivery!Results
<1>6. CASE ~outcome.error
  <2>1. /\ acknowledged' = acknowledged \o batch /\ httpSuccess' = httpSuccess + Len(batch)
        /\ UNCHANGED <<failed, httpFailure>> /\ outcome.taken
    BY <1>1, <1>6 DEF Http!Flush
  <2>2. acknowledged' \in Seq(SpanIds)
        /\ ToSet(acknowledged') = ToSet(acknowledged) \cup ToSet(batch)
    BY <1>3, <2>1, Concatenated
  <2>3. ToSet(acknowledged') = Taken' \ failed'
    BY <1>4, <2>1, <2>2 DEF HistoryInv
  <2>4. Taken' \subseteq httpAppended' /\ failed' \subseteq httpAppended'
    BY <1>4, <2>1 DEF HistoryInv
  <2>5. httpFailure' \in Nat /\ httpSuccess' \in Nat
    BY <1>3, <2>1 DEF HistoryInv
  <2>6. HistoryInv'
    BY <1>4, <2>1, <2>2, <2>3, <2>4, <2>5 DEF HistoryInv
  <2>7. Http!Delivery!Emit(batch, "ok")
    BY <2>1 DEF Http!Delivery!Emit
  <2> QED
    BY <1>2, <2>6, <2>7 DEF HttpInv, Http!Delivery!Results
<1> QED
  BY <1>1, <1>5, <1>6

LEMMA HttpStep ==
  ASSUME HttpInv, [Http!Next]_httpVars
  PROVE  HttpInv' /\ [Http!Delivery!TransportNext(SpanIds)]_<<spans, acknowledged, failed,
                                                             httpSuccess, httpFailure>>
<1>1. HistoryInv /\ spans \in Seq(SpanIds) /\ Once(spans) /\ Len(spans) \in Nat
      /\ Len(spans) < batchSize /\ batchSize \in Nat
  BY LenProperties DEF HttpInv, BufferInv, HistoryInv
<1>2. CASE UNCHANGED httpVars
  <2>1. UNCHANGED <<batchSize, spans, collector, acknowledged, failed, httpSuccess, httpFailure,
                    httpAppended>>
    BY <1>2 DEF httpVars
  <2>2. HttpInv'
    BY <2>1 DEF HttpInv, BufferInv, HistoryInv, Taken
  <2> QED  BY <2>1, <2>2
<1>3. CASE Http!FlushBuffer
  <2>1. PICK outcome \in Http!Outcomes : Http!Flush(spans, outcome)
    BY <1>3 DEF Http!FlushBuffer
  <2>2. UNCHANGED <<batchSize, httpAppended>>
    BY <1>3 DEF Http!FlushBuffer
  <2>3. /\ \A i \in ToSet(spans) : i \notin Taken /\ i \notin failed
        /\ ToSet(spans) \subseteq httpAppended /\ Len(spans) <= batchSize
    BY <1>1 DEF HttpInv, BufferInv
  <2>4. HttpInv' /\ spans' = << >>
        /\ \E r \in Http!Delivery!Results : Http!Delivery!Emit(spans, r)
    BY <1>1, <2>1, <2>2, <2>3, HttpFlush
  <2> QED
    BY <2>4 DEF Http!Delivery!TransportNext, Http!Delivery!Flush
<1>4. ASSUME NEW i \in SpanIds, Http!AppendSpan(i)
      PROVE  HttpInv' /\ Http!Delivery!TransportNext(SpanIds)
  <2>1. i \notin httpAppended /\ httpAppended' = httpAppended \cup {i} /\ UNCHANGED batchSize
    BY <1>4 DEF Http!AppendSpan
  <2>2. PICK batch : batch = Append(spans, i)
    OBVIOUS
  <2>3. /\ batch \in Seq(SpanIds) /\ Len(batch) = Len(spans) + 1
        /\ DOMAIN batch = 1..Len(spans) + 1 /\ DOMAIN spans = 1..Len(spans)
        /\ \A k \in DOMAIN spans : batch[k] = spans[k]
        /\ batch[Len(spans) + 1] = i
        /\ ToSet(batch) = ToSet(spans) \cup {i}
    BY <1>1, <2>2, Appended
  <2>4. Len(batch) <= batchSize
    BY <1>1, <2>3
  <2>5. /\ ToSet(spans) \subseteq httpAppended /\ i \notin ToSet(spans)
        /\ \A k \in ToSet(batch) : k \notin Taken /\ k \notin failed
        /\ ToSet(batch) \subseteq httpAppended'
    BY <2>1, <2>3 DEF HttpInv, BufferInv, HistoryInv
  <2>6. Once(batch)
    <3> SUFFICES ASSUME NEW j \in DOMAIN batch, NEW k \in DOMAIN batch, batch[j] = batch[k]
                 PROVE  j = k
      BY DEF Once
    <3>1. \A l \in DOMAIN spans : batch[l] # i
      BY <2>3, <2>5 DEF ToSet
    <3>2. \A l \in DOMAIN batch : l \in DOMAIN spans \/ l = Len(spans) + 1
      BY <1>1, <2>3
    <3>3. CASE j \in DOMAIN spans /\ k \in DOMAIN spans
      BY <3>3, <1>1, <2>3 DEF Once
    <3>4. CASE j \notin DOMAIN spans \/ k \notin DOMAIN spans
      BY <3>4, <3>1, <3>2, <2>3
    <3> QED  BY <3>3, <3>4
  <2>7. CASE Len(batch) >= batchSize /\ \E outcome \in Http!Outcomes : Http!Flush(batch, outcome)
    <3>1. PICK outcome \in Http!Outcomes : Http!Flush(batch, outcome)
      BY <2>7
    <3>2. httpAppended \subseteq httpAppended'
      BY <2>1
    <3>3. HttpInv' /\ spans' = << >>
          /\ \E r \in Http!Delivery!Results : Http!Delivery!Emit(batch, r)
      BY <1>1, <2>1, <2>3, <2>4, <2>5, <2>6, <3>1, <3>2, HttpFlush
    <3>4. PICK r \in Http!Delivery!Results : Http!Delivery!Emit(batch, r)
      BY <3>3
    <3>5. Http!Delivery!FlushWith(i, r)
      BY <2>2, <3>3, <3>4 DEF Http!Delivery!FlushWith
    <3>6. Http!Delivery!AppendOutcome(i)
      BY <3>5 DEF Http!Delivery!AppendOutcome
    <3> QED
      BY <3>3, <3>6 DEF Http!Delivery!TransportNext
  <2>8. CASE ~(Len(batch) >= batchSize) /\ spans' = batch
             /\ UNCHANGED <<collector, acknowledged, failed, httpSuccess, httpFailure>>
    <3>1. Len(batch) < batchSize
      BY <1>1, <2>3, <2>8
    <3>2. UNCHANGED Taken
      BY <2>8 DEF Taken
    <3>3. BufferInv'
      BY <2>1, <2>3, <2>5, <2>6, <2>8, <3>1, <3>2 DEF BufferInv
    <3>4. HistoryInv'
      BY <1>1, <2>1, <2>8, <3>2 DEF HistoryInv
    <3>5. Http!Delivery!AppendOutcome(i)
      BY <2>2, <2>8 DEF Http!Delivery!AppendOutcome, Http!Delivery!Keep
    <3> QED
      BY <3>3, <3>4, <3>5 DEF HttpInv, Http!Delivery!TransportNext
  <2> QED
    BY <1>4, <2>2, <2>7, <2>8 DEF Http!AppendSpan
<1> QED
  BY <1>2, <1>3, <1>4 DEF Http!Next

LEMMA HttpInit ==
  ASSUME Http!Init
  PROVE  HttpInv /\ Http!Delivery!TransportInit
<1>1. batchSize \in Nat /\ batchSize > 0
  BY HttpAssumption DEF Http!BatchAssumption, Http!Init
<1>2. /\ spans = << >> /\ collector = << >> /\ acknowledged = << >> /\ failed = {}
      /\ httpSuccess = 0 /\ httpFailure = 0
  BY DEF Http!Init
<1>3. << >> \in Seq(SpanIds) /\ << >> \in Seq(Seq(SpanIds)) /\ DOMAIN << >> = {}
  BY EmptySeq
<1>4. Taken = {}
  BY <1>2, <1>3 DEF Taken
<1>5. BufferInv
  BY <1>1, <1>2, <1>3, Nothing DEF BufferInv, Once
<1>6. HistoryInv
  BY <1>1, <1>2, <1>3, <1>4, Nothing DEF HistoryInv
<1> QED
  BY <1>2, <1>5, <1>6 DEF HttpInv, Http!Delivery!TransportInit

-----------------------------------------------------------------------------
(* Both together *)

AllInv == UdpInv /\ HttpInv

LEMMA AllInit ==
  TransportsInit => AllInv /\ Delivery!TransportInit /\ Http!Delivery!TransportInit
BY UdpInit, HttpInit DEF TransportsInit, AllInv

LEMMA AllStep ==
  AllInv /\ [TransportsNext]_<<part, vars, httpVars>>
    => /\ AllInv'
       /\ [Delivery!TransportNext(SpanIds)]_<<spanBuffer, written, tooLarge, refused, unsent,
                                              success, failure>>
       /\ [Http!Delivery!TransportNext(SpanIds)]_<<spans, acknowledged, failed,
                                                   httpSuccess, httpFailure>>
<1> SUFFICES ASSUME AllInv, [TransportsNext]_<<part, vars, httpVars>>
             PROVE  /\ AllInv'
                    /\ [Delivery!TransportNext(SpanIds)]_<<spanBuffer, written, tooLarge,
                                                           refused, unsent, success, failure>>
                    /\ [Http!Delivery!TransportNext(SpanIds)]_<<spans, acknowledged, failed,
                                                                httpSuccess, httpFailure>>
  OBVIOUS
<1>1. [Next]_vars /\ [Http!Next]_httpVars
  BY DEF TransportsNext
<1> QED
  BY <1>1, UdpStep, HttpStep DEF AllInv

(* Whatever sizes spans have and whatever batches are refused or fail, every   *)
(* span the UDP sender was given is written, buffered, or counted as lost      *)
(* once, and a gap in the sequence numbers written means failed spans in its   *)
(* statistics (transport_udp.go:118-194).                                      *)
THEOREM LossesCounted == TransportsSpec => []LossesAccounted
<1>1. AllInv => LossesAccounted
  BY GapsMean DEF AllInv, UdpInv, LossesAccounted
<1> QED
  BY <1>1, AllInit, AllStep, PTL DEF TransportsSpec

(* However spans of whatever sizes are packed, byteBufferSize is the size of   *)
(* the process and of the spans in the buffer, and a batch is refused for its  *)
(* size only if it is one span that fits no datagram with this process         *)
(* (transport_udp.go:86-116, 118-150).                                         *)
THEOREM PackingSound == TransportsSpec => []PackingExact
<1>1. UdpInv /\ PackInv => PackingExact
  BY DEF PackInv, PackingExact
<1>2. TransportsInit => AllInv /\ PackInv
  BY AllInit, PackInit DEF TransportsInit
<1>3. AllInv /\ PackInv /\ [TransportsNext]_<<part, vars, httpVars>> => AllInv' /\ PackInv'
  <2> SUFFICES ASSUME AllInv, PackInv, [TransportsNext]_<<part, vars, httpVars>>
               PROVE  AllInv' /\ PackInv'
    OBVIOUS
  <2>1. [Next]_vars
    BY DEF TransportsNext
  <2> QED
    BY <2>1, AllStep, PackStep DEF AllInv, UdpInv
<1> QED
  BY <1>1, <1>2, <1>3, PTL DEF TransportsSpec, AllInv

(* Whatever becomes of the requests and their answers, the collector has each  *)
(* span once at most, and none that is neither acknowledged nor counted as     *)
(* failed, by either HTTP transport (http.go:105-165, zipkin/http.go:116-191). *)
THEOREM CollectedOnce == TransportsSpec => []TakenOnce
<1>1. AllInv => TakenOnce
  BY InvTakenOnce DEF AllInv
<1> QED
  BY <1>1, AllInit, AllStep, PTL DEF TransportsSpec

(* What Append and Flush of the UDP and the HTTP transports do is what the     *)
(* reporter takes a Transport to do: a span is buffered, or it leaves and is   *)
(* counted once as a success or a failure (transport.go:21-38, reporter.go:    *)
(* 285-292).                                                                   *)
THEOREM TransportsImplemented == TransportsSpec => TransportsImplement
BY AllInit, AllStep, PTL DEF TransportsSpec, TransportsImplement, ImplementsTransport,
                             Http!ImplementsTransport
=============================================================================
