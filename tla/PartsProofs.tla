------------------------------ MODULE PartsProofs ------------------------------
(***************************************************************************)
(* Theorems about three parts that share no state, each by itself:         *)
(*  - the log buffer of a span, for any limit and any number of records;   *)
(*  - the rate limiter, for any rates, maxima and costs and any time;      *)
(*  - the reconnecting UDP connection, for any number of writers, sockets  *)
(*    and addresses and any bound on faults, address changes and writes.   *)
(***************************************************************************)
EXTENDS SpanLogs, RateLimiter, ReconnectingConn, SequenceTheorems,
        FiniteSetTheorems, WellFoundedInduction, TLAPS

(* Numbers: induction, as the least element of a set, and division. *)

LEMMA LeastNumber ==
  ASSUME NEW S \in SUBSET Nat, S # {}
  PROVE  \E n \in S : \A m \in S : n <= m
<1> DEFINE R == {pair \in Nat \X Nat : pair[1] < pair[2]}
<1>1. IsWellFoundedOn(R, Nat)
  BY NatLessThanWellFounded DEF OpToRel
<1>2. \A m, n \in S : m < n => <<m, n>> \in R
  OBVIOUS
<1> HIDE DEF R
<1>3. PICK n \in S : \A m \in S : ~ (<<m, n>> \in R)
  BY <1>1, WFMin
<1>4. \A m \in S : ~ (m < n)
  BY <1>2, <1>3
<1> QED
  BY <1>4

LEMMA Induction ==
  ASSUME NEW S, 0 \in S, \A n \in Nat : n \in S => n + 1 \in S
  PROVE  Nat \subseteq S
<1> SUFFICES ASSUME Nat \ S # {} PROVE FALSE
  OBVIOUS
<1>1. PICK n \in Nat \ S : \A m \in Nat \ S : n <= m
  BY LeastNumber
<1>2. n # 0 /\ n - 1 \in Nat /\ n - 1 \in S
  BY <1>1
<1> QED
  BY <1>1, <1>2

LEMMA Quotient ==
  ASSUME NEW d \in Nat, NEW n \in Nat \ {0}
  PROVE  d = n * (d \div n) + (d % n) /\ d \div n \in Nat /\ (d % n) \in 0..n - 1
OBVIOUS

LEMMA Remainder ==
  ASSUME NEW d \in Nat, NEW n \in Nat \ {0}, NEW q \in Nat, NEW r \in 0..n - 1, d = n * q + r
  PROVE  r = (d % n)
BY SMTT(30)

-----------------------------------------------------------------------------
(* SpanLogs *)

(* A step repeated n times, from a beginning in D and never out of it. *)
IsRun(run, step, d, n) == run = [k \in 0..n |-> IF k = 0 THEN d ELSE step[run[k - 1]]]

LEMMA RunExists ==
  ASSUME NEW D, NEW step \in [D -> D], NEW d \in D
  PROVE  \A n \in Nat : \E run \in [0..n -> D] : IsRun(run, step, d, n)
<1> DEFINE S == {n \in Nat : \E run \in [0..n -> D] : IsRun(run, step, d, n)}
<1>1. 0 \in S
  <2>1. IsRun([k \in 0..0 |-> d], step, d, 0) /\ [k \in 0..0 |-> d] \in [0..0 -> D]
    BY DEF IsRun
  <2> QED
    BY <2>1
<1>2. ASSUME NEW n \in Nat, n \in S PROVE n + 1 \in S
  <2>1. PICK run \in [0..n -> D] : IsRun(run, step, d, n)
    BY <1>2
  <2> DEFINE more == [k \in 0..n + 1 |-> IF k = n + 1 THEN step[run[n]] ELSE run[k]]
  <2>2. \A k \in 0..n + 1 : more[k] = IF k = 0 THEN d ELSE step[more[k - 1]]
    <3> TAKE k \in 0..n + 1
    <3>1. CASE k = n + 1
      BY <3>1
    <3>2. CASE k # n + 1
      <4>1. k \in 0..n /\ (k # 0 => k - 1 \in 0..n /\ k - 1 # n + 1)
        BY <3>2
      <4>2. run[k] = IF k = 0 THEN d ELSE step[run[k - 1]]
        BY <2>1, <4>1 DEF IsRun
      <4> QED
        BY <4>1, <4>2
    <3> QED
      BY <3>1, <3>2
  <2>3. IsRun(more, step, d, n + 1)
    BY <2>2 DEF IsRun
  <2>4. more \in [0..n + 1 -> D]
    <3>1. run[n] \in D /\ step[run[n]] \in D
      OBVIOUS
    <3> QED
      BY <3>1
  <2> QED
    BY <2>3, <2>4
<1> HIDE DEF S
<1>3. Nat \subseteq S
  BY <1>1, <1>2, Induction
<1> QED
  BY <1>3 DEF S

(* The buffer whose first element is that at position pos, counted from 0. *)
Rotated(buf, pos) ==
  [i \in 1..Len(buf) |-> IF i <= Len(buf) - pos THEN buf[pos + i] ELSE buf[i - (Len(buf) - pos)]]

(* Where the loop of rotateLogBuffer has the element that belongs to position  *)
(* i (counted from 1): in place before first; the others follow in three       *)
(* pieces, from next, from middle, and from first.                             *)
Place(first, middle, next, n, i) ==
  IF i <= first THEN i
  ELSE IF i <= first + n - next THEN i + next - first
  ELSE IF i <= first + n - middle THEN i + middle + next - first - n
  ELSE i + middle - n

Turning(S, goal, n) ==
  {s \in [buf : [1..n -> S], first : 0..n, middle : 0..n - 1, next : 0..n - 1] :
     /\ s.first <= s.middle /\ s.middle <= s.next
     /\ s.first = s.middle => s.next = s.middle
     /\ \A i \in 1..n : goal[i] = s.buf[Place(s.first, s.middle, s.next, n, i)]}

LEMMA SwapTurns ==
  ASSUME NEW S, NEW n \in Nat \ {0}, NEW goal, NEW s \in Turning(S, goal, n)
  PROVE  Turn(s) \in Turning(S, goal, n)
<1> DEFINE f == s.first
           m == s.middle
           x == s.next
           b == s.buf
<1>0. /\ f \in Nat /\ m \in Nat /\ x \in Nat /\ f <= m /\ m <= x /\ x < n
      /\ b \in [1..n -> S] /\ Len(b) = n
      /\ \A i \in 1..n : goal[i] = b[Place(f, m, x, n, i)]
  <2>1. b \in [1..n -> S]
    BY DEF Turning
  <2> QED
    BY <2>1, LenProperties DEF Turning
<1>1. CASE f = m
  BY <1>1 DEF Turn
<1>2. CASE f # m
  <2> DEFINE last == x + 1 = n
             c == [b EXCEPT ![f + 1] = b[x + 1], ![x + 1] = b[f + 1]]
             middle == IF ~last /\ f + 1 = m THEN x + 1 ELSE m
             next == IF last THEN m ELSE x + 1
             t == [buf |-> c, first |-> f + 1, middle |-> middle, next |-> next]
  <2>1. Turn(s) = t
    BY <1>0, <1>2 DEF Turn
  <2> HIDE DEF f, m, x, b
  <2>2. /\ c \in [1..n -> S] /\ c[f + 1] = b[x + 1] /\ c[x + 1] = b[f + 1]
        /\ \A j \in 1..n : j # f + 1 /\ j # x + 1 => c[j] = b[j]
    BY <1>0, <1>2
  <2> HIDE DEF c
  <2>3. /\ f + 1 \in 0..n /\ middle \in 0..n - 1 /\ next \in 0..n - 1
        /\ f + 1 <= middle /\ middle <= next /\ (f + 1 = middle => next = middle)
    BY <1>0, <1>2
  <2>4. ASSUME NEW i \in 1..n
        PROVE  goal[i] = c[Place(f + 1, middle, next, n, i)]
    <3> DEFINE p == Place(f, m, x, n, i)
               q == Place(f + 1, middle, next, n, i)
    <3>1. p \in 1..n
      BY <1>0, <1>2 DEF Place
    <3>2. \/ p = x + 1 /\ q = f + 1
          \/ p = f + 1 /\ q = x + 1
          \/ p # x + 1 /\ p # f + 1 /\ q = p
      BY <1>0, <1>2 DEF Place
    <3> HIDE DEF p, q
    <3>3. c[q] = b[p]
      BY <2>2, <3>1, <3>2
    <3> QED
      BY <1>0, <3>3 DEF p, q
  <2>5. t \in Turning(S, goal, n)
    <3> HIDE DEF middle, next
    <3> QED
      BY <2>2, <2>3, <2>4 DEF Turning
  <2> QED
    BY <2>1, <2>5
<1> QED
  BY <1>1, <1>2

LEMMA Rotation ==
  ASSUME NEW S, NEW buf \in Seq(S), Len(buf) # 0, NEW pos \in 0..Len(buf) - 1
  PROVE  rotateLogBuffer(buf, pos) = Rotated(buf, pos)
<1> DEFINE n == Len(buf)
           start == [buf |-> buf, first |-> 0, middle |-> pos, next |-> pos]
           D == Turning(S, Rotated(buf, pos), n)
           step == [s \in D |-> Turn(s)]
<1>1. n \in Nat \ {0} /\ buf \in [1..n -> S] /\ pos \in Nat
  BY LenProperties
<1>2. start \in D
  <2>1. \A i \in 1..n : Rotated(buf, pos)[i] = buf[Place(0, pos, pos, n, i)]
    BY <1>1 DEF Rotated, Place
  <2> QED
    BY <1>1, <2>1 DEF Turning
<1>3. step \in [D -> D]
  BY <1>1, SwapTurns
<1>4. PICK run \in [0..n -> D] : IsRun(run, step, start, n)
  BY <1>1, <1>2, <1>3, RunExists
<1>5. run = [k \in 0..n |-> IF k = 0 THEN start ELSE Turn(run[k - 1])]
  <2>1. \A k \in 0..n : k # 0 => run[k - 1] \in D
    BY <1>1
  <2> HIDE DEF D, start
  <2>2. \A k \in 0..n : run[k] = IF k = 0 THEN start ELSE Turn(run[k - 1])
    BY <2>1, <1>4 DEF IsRun
  <2> QED
    BY <2>2
<1> DEFINE turn == CHOOSE turn : turn = [k \in 0..n |-> IF k = 0 THEN start ELSE Turn(turn[k - 1])]
<1>6. turn = [k \in 0..n |-> IF k = 0 THEN start ELSE Turn(turn[k - 1])]
  BY <1>5
<1> HIDE DEF step
<1>7. rotateLogBuffer(buf, pos) = turn[n].buf
  BY DEF rotateLogBuffer
<1> HIDE DEF turn, start
<1> DEFINE Over(k) == turn[k].first = k \/ turn[k].first = turn[k].middle
           M == {k \in Nat : k <= n => turn[k] \in D /\ Over(k)}
<1>8. 0 \in M
  <2>1. turn[0] = start
    BY <1>6, <1>1
  <2> QED
    BY <2>1, <1>2, <1>1 DEF start
<1>9. ASSUME NEW k \in Nat, k \in M PROVE k + 1 \in M
  <2> SUFFICES ASSUME k + 1 <= n
               PROVE  turn[k + 1] \in D /\ Over(k + 1)
    OBVIOUS
  <2>1. turn[k + 1] = Turn(turn[k]) /\ turn[k] \in D /\ Over(k)
    BY <1>6, <1>9, <1>1
  <2>2. Turn(turn[k]) \in D
    BY <2>1, <1>1, SwapTurns
  <2>3. CASE turn[k].first = turn[k].middle
    BY <2>1, <2>2, <2>3 DEF Turn
  <2>4. CASE turn[k].first # turn[k].middle
    BY <2>1, <2>2, <2>4 DEF Turn
  <2> QED
    BY <2>3, <2>4
<1> HIDE DEF M
<1>10. n \in M
  BY <1>1, <1>8, <1>9, Induction
<1>11. turn[n] \in D /\ turn[n].first = turn[n].middle
  BY <1>10, <1>1 DEF M, Turning
<1> DEFINE done == turn[n].buf
<1>12. done \in [1..n -> S] /\ \A i \in 1..n : done[i] = Rotated(buf, pos)[i]
  <2> DEFINE t == turn[n]
  <2>1. /\ t.first \in Nat /\ t.middle = t.first /\ t.next = t.first /\ t.buf \in [1..n -> S]
        /\ \A i \in 1..n : Rotated(buf, pos)[i] = t.buf[Place(t.first, t.middle, t.next, n, i)]
    BY <1>11, <1>1 DEF Turning
  <2>2. \A i \in 1..n : Place(t.first, t.first, t.first, n, i) = i
    BY <1>1, <2>1 DEF Place
  <2> QED
    BY <2>1, <2>2
<1> QED
  BY <1>1, <1>7, <1>12 DEF Rotated

(* The position in a ring of n, after d records and after one more. *)
LEMMA RingTurns ==
  ASSUME NEW d \in Nat, NEW n \in Nat \ {0}
  PROVE  /\ (d % n) \in 0..n - 1 /\ (0 % n) = 0
         /\ ((d + 1) % n) = IF (d % n) = n - 1 THEN 0 ELSE (d % n) + 1
<1> DEFINE q == d \div n
           r == d % n
<1>1. d = n * q + r /\ q \in Nat /\ r \in 0..n - 1
  BY Quotient
<1>2. 0 = (0 % n)
  <2>1. 0 = n * 0 + 0 /\ 0 \in 0..n - 1 /\ 0 \in Nat
    OBVIOUS
  <2> QED
    OBVIOUS
<1> HIDE DEF q, r
<1>3. CASE r = n - 1
  <2>1. n * (q + 1) = n * q + n
    BY <1>1
  <2>2. d + 1 = n * (q + 1) + 0 /\ q + 1 \in Nat /\ d + 1 \in Nat /\ 0 \in 0..n - 1
    BY <1>1, <1>3, <2>1
  <2>3. 0 = ((d + 1) % n)
    BY ONLY <2>2, Remainder, n \in Nat \ {0}
  <2> QED
    BY <1>1, <1>2, <1>3, <2>3 DEF r
<1>4. CASE r # n - 1
  <2>1. d + 1 = n * q + (r + 1) /\ r + 1 \in 0..n - 1 /\ d + 1 \in Nat
    BY <1>1, <1>4
  <2>2. r + 1 = ((d + 1) % n)
    BY ONLY <1>1, <2>1, Remainder, n \in Nat \ {0}
  <2> QED
    BY <1>1, <1>2, <1>4, <2>2 DEF r
<1> QED
  BY <1>3, <1>4

Entries == [event : {"log", "bulk", "dropped Span logs"}, n : Int]

(* How many records the ring holds, where it will be overwritten next, and the *)
(* number of the record at position i of a buffer that is full.                *)
NumNew(max) == max - NumOld(max)
Oldest(max, d) == d % NumNew(max)
NumberAt(max, d, i) ==
  IF i <= NumOld(max) THEN i
  ELSE i + d - Oldest(max, d) + (IF i - NumOld(max) <= Oldest(max, d) THEN NumNew(max) ELSE 0)

FullBuffer(max, d) == [i \in 1..max |-> Record(NumberAt(max, d, i))]

LogsInv ==
  /\ maxLogs \in Nat /\ calls \in Nat /\ numDroppedLogs \in Nat /\ bulk \in Nat \cup {-1}
  /\ bulk = -1 /\ (maxLogs = 0 \/ calls < maxLogs) =>
       numDroppedLogs = 0 /\ logs = [i \in 1..calls |-> Record(i)]
  /\ bulk = -1 /\ maxLogs # 0 /\ calls >= maxLogs =>
       numDroppedLogs = calls - maxLogs /\ logs = FullBuffer(maxLogs, numDroppedLogs)
  /\ bulk # -1 => numDroppedLogs = 0 /\ LogsExact

LEMMA RingRoom ==
  ASSUME NEW max \in Nat \ {0}
  PROVE  NumOld(max) \in 0..max - 1
BY DEF NumOld

LEMMA RecordsTyped ==
  ASSUME NEW n \in Int
  PROVE  Record(n) \in Entries /\ Marker(n) \in Entries /\ BulkRecord(n) \in Entries
BY DEF Record, Marker, BulkRecord, Entries

LEMMA InitLogs == LogsAssumption /\ LogsInit => LogsInv
<1> SUFFICES ASSUME LogsAssumption, LogsInit PROVE LogsInv
  OBVIOUS
<1>1. /\ maxLogs \in Nat /\ logs = << >> /\ numDroppedLogs = 0 /\ calls = 0 /\ bulk = -1
  BY DEF LogsAssumption, LogsInit
<1>2. << >> = [i \in 1..0 |-> Record(i)]
  OBVIOUS
<1> QED
  BY <1>1, <1>2 DEF LogsInv, FullBuffer

(* A buffer that has just become full. *)
LEMMA FirstTurn ==
  ASSUME NEW max \in Nat \ {0}
  PROVE  \A i \in 1..max : NumberAt(max, 0, i) = i
<1>1. NumOld(max) \in 0..max - 1 /\ NumNew(max) \in Nat \ {0}
  BY RingRoom DEF NumNew
<1>2. Oldest(max, 0) = 0
  BY <1>1, RingTurns DEF Oldest
<1> QED
  BY <1>1, <1>2 DEF NumberAt

(* A full buffer, unrolled. *)
LEMMA RingUnrolled ==
  ASSUME LogsInv, bulk = -1, maxLogs # 0, calls > maxLogs
  PROVE  fixLogs(logs, numDroppedLogs) = Kept
<1> DEFINE d == numDroppedLogs
           old == NumOld(maxLogs)
           m == maxLogs
           new == NumNew(maxLogs)
           all == [i \in 1..calls |-> Record(i)]
           p == Oldest(maxLogs, numDroppedLogs)
<1>1. /\ d = calls - m /\ d \in Nat \ {0} /\ m \in Nat \ {0} /\ calls \in Nat
      /\ logs = [i \in 1..m |-> Record(NumberAt(maxLogs, numDroppedLogs, i))]
      /\ old \in 0..m - 1 /\ new = m - old /\ new \in Nat \ {0} /\ p \in 0..new - 1
  <2>1. /\ d = calls - m /\ d \in Nat \ {0} /\ m \in Nat \ {0} /\ calls \in Nat
        /\ logs = [i \in 1..m |-> Record(NumberAt(maxLogs, numDroppedLogs, i))]
    BY DEF LogsInv, FullBuffer
  <2>2. old \in 0..m - 1 /\ new = m - old /\ new \in Nat \ {0}
    BY <2>1, RingRoom DEF NumNew
  <2>3. p \in 0..new - 1
    BY <2>1, <2>2, RingTurns DEF Oldest
  <2> QED
    BY <2>1, <2>2, <2>3
<1>2. /\ \A i \in 1..old : NumberAt(maxLogs, numDroppedLogs, i) = i
      /\ \A i \in old + 1..m :
           NumberAt(maxLogs, numDroppedLogs, i) = i + d - p + IF i - old <= p THEN new ELSE 0
  BY <1>1 DEF NumberAt
<1>3. \A i \in 1..m : NumberAt(maxLogs, numDroppedLogs, i) \in Int
  <2> TAKE i \in 1..m
  <2>1. i \in Int /\ d \in Int /\ p \in Int /\ new \in Int /\ old \in Int
    BY <1>1
  <2> QED
    BY <2>1 DEF NumberAt
<1>4. logs \in Seq(Entries) /\ Len(logs) = m /\ all \in Seq(Entries) /\ Len(all) = calls
  BY <1>1, <1>3, RecordsTyped
<1> DEFINE buf == SubSeq(logs, old + 1, m)
           ring == Rotated(buf, p)
<1> HIDE DEF d, old, m, new, p
<1>5. /\ buf \in Seq(Entries) /\ Len(buf) = new
      /\ \A i \in 1..new : buf[i] = logs[old + i]
  <2>1. old + 1 \in 1..m + 1 /\ m \in old..m /\ m - (old + 1) + 1 = new
    BY <1>1
  <2> QED
    <3>1. \A i \in old + 1..m : logs[i] \in Entries
      BY <1>1, <1>4
    <3> QED
      BY <1>1, <2>1, <3>1, SubSeqProperties
<1>6. rotateLogBuffer(buf, p) = ring
  BY <1>1, <1>5, Rotation
<1>7. fixLogs(logs, d) = SubSeq(logs, 1, old) \o <<Marker(d + 1)>> \o Tail(ring)
  BY <1>1, <1>4, <1>6 DEF fixLogs, old, new, p, NumNew, Oldest, m, d
<1>8. Kept = SubSeq(all, 1, old) \o <<Marker(d + 1)>> \o SubSeq(all, old + d + 2, calls)
  <2>1. /\ ~ (m = 0 \/ calls <= m) /\ calls - m + 1 = d + 1
        /\ old + (calls - m + 1) + 1 = old + d + 2
    BY <1>1
  <2> QED
    BY <2>1 DEF Kept, old, m
<1>9. SubSeq(logs, 1, old) = SubSeq(all, 1, old)
  <2>1. \A i \in 1..old : i \in 1..m /\ i \in 1..calls /\ logs[i] = Record(i) /\ all[i] = Record(i)
    BY <1>1, <1>2
  <2> HIDE DEF all
  <2>2. old \in Nat /\ old <= m /\ old <= calls
    BY <1>1
  <2>3. /\ SubSeq(logs, 1, old) = [i \in 1..old |-> logs[i]]
        /\ SubSeq(all, 1, old) = [i \in 1..old |-> all[i]]
    BY <1>4, <2>2
  <2> QED
    BY <2>1, <2>3
<1>10. Tail(ring) = SubSeq(all, old + d + 2, calls)
  <2>1. ring \in Seq(Entries) /\ Len(ring) = new
    <3>0. ring = [i \in 1..new |-> ring[i]]
      BY <1>5 DEF Rotated
    <3> SUFFICES \A i \in 1..new : ring[i] \in Entries
      <4> HIDE DEF ring
      <4>1. ASSUME \A i \in 1..new : ring[i] \in Entries PROVE ring \in [1..new -> Entries]
        BY <3>0, <4>1
      <4> QED
        BY <1>1, <4>1, SeqDef
    <3>1. \A i \in 1..new : buf[i] \in Entries
      BY <1>5
    <3> TAKE i \in 1..new
    <3>2. ring[i] = IF i <= new - p THEN buf[p + i] ELSE buf[i - (new - p)]
      BY <1>5 DEF Rotated
    <3> HIDE DEF ring, buf
    <3> QED
      BY <1>1, <3>1, <3>2
  <2>2. /\ Tail(ring) \in Seq(Entries) /\ Len(Tail(ring)) = new - 1
        /\ \A i \in 1..new - 1 : Tail(ring)[i] = ring[i + 1]
    BY <1>1, <2>1
  <2>3. /\ SubSeq(all, old + d + 2, calls) \in Seq(Entries)
        /\ Len(SubSeq(all, old + d + 2, calls)) = new - 1
        /\ \A i \in 1..new - 1 : SubSeq(all, old + d + 2, calls)[i] = Record(old + d + 1 + i)
    BY <1>1, <1>4
  <2>4. \A i \in 1..new - 1 : ring[i + 1] = Record(old + d + 1 + i)
    <3> SUFFICES ASSUME NEW i \in 1..new - 1
                 PROVE  ring[i + 1] = Record(old + d + 1 + i)
      OBVIOUS
    <3>1. ring[i + 1] = IF i + 1 <= new - p THEN buf[p + (i + 1)] ELSE buf[i + 1 - (new - p)]
      <4>1. i + 1 \in 1..new
        BY <1>1
      <4> HIDE DEF buf
      <4> QED
        BY <1>1, <1>5, <4>1 DEF Rotated
    <3>2. CASE i + 1 <= new - p
      <4>1. p + (i + 1) \in 1..new /\ old + (p + (i + 1)) \in old + 1..m
        BY <1>1, <3>2
      <4> DEFINE k == old + (p + (i + 1))
      <4>2. NumberAt(maxLogs, numDroppedLogs, k) = k + d - p + (IF k - old <= p THEN new ELSE 0)
        BY <1>2, <4>1
      <4>3. NumberAt(maxLogs, numDroppedLogs, old + (p + (i + 1))) = old + d + 1 + i
        BY <1>1, <3>2, <4>2
      <4>4. buf[p + (i + 1)] = logs[old + (p + (i + 1))] /\ old + (p + (i + 1)) \in 1..m
        BY <1>1, <1>5, <4>1
      <4> HIDE DEF buf, ring
      <4> QED
        BY <1>1, <3>1, <3>2, <4>3, <4>4 DEF m, d
    <3>3. CASE ~ (i + 1 <= new - p)
      <4>1. i + 1 - (new - p) \in 1..new /\ old + (i + 1 - (new - p)) \in old + 1..m
        BY <1>1, <3>3
      <4> DEFINE k == old + (i + 1 - (new - p))
      <4>2. NumberAt(maxLogs, numDroppedLogs, k) = k + d - p + (IF k - old <= p THEN new ELSE 0)
        BY <1>2, <4>1
      <4>3. NumberAt(maxLogs, numDroppedLogs, old + (i + 1 - (new - p))) = old + d + 1 + i
        BY <1>1, <3>3, <4>2
      <4> HIDE DEF buf, ring
      <4> QED
        BY <1>1, <1>5, <3>1, <3>3, <4>1, <4>3
    <3> QED
      BY <3>2, <3>3
  <2>5. \A i \in 1..new - 1 : Tail(ring)[i] = SubSeq(all, old + d + 2, calls)[i]
    BY <2>2, <2>3, <2>4
  <2> QED
    BY <2>2, <2>3, <2>5, SeqEqual
<1> QED
  BY <1>7, <1>8, <1>9, <1>10 DEF d

(* What Fixed is before Finish. *)
LEMMA FixedKept ==
  ASSUME LogsInv, bulk = -1
  PROVE  Fixed = Kept /\ Kept \in Seq(Entries)
<1>1. CASE maxLogs = 0 \/ calls < maxLogs
  <2>1. /\ Fixed = [i \in 1..calls |-> Record(i)] /\ Kept = [i \in 1..calls |-> Record(i)]
        /\ calls \in Nat
    BY <1>1 DEF LogsInv, Fixed, Kept
  <2> QED
    BY <2>1, RecordsTyped
<1>2. CASE maxLogs # 0 /\ calls = maxLogs
  <2>1. /\ numDroppedLogs = 0 /\ maxLogs \in Nat \ {0}
        /\ logs = [i \in 1..maxLogs |-> Record(NumberAt(maxLogs, numDroppedLogs, i))]
    BY <1>2 DEF LogsInv, FullBuffer
  <2>2. \A i \in 1..maxLogs : NumberAt(maxLogs, numDroppedLogs, i) = i
    BY <2>1, FirstTurn
  <2>3. /\ Fixed = [i \in 1..calls |-> Record(i)] /\ Kept = [i \in 1..calls |-> Record(i)]
        /\ calls \in Nat
    BY <1>2, <2>1, <2>2 DEF Fixed, Kept
  <2> QED
    BY <2>3, RecordsTyped
<1>3. CASE maxLogs # 0 /\ calls > maxLogs
  <2>1. Fixed = Kept
    BY <1>3, RingUnrolled DEF Fixed, LogsInv
  <2>2. maxLogs \in Nat \ {0} /\ calls \in Nat /\ NumOld(maxLogs) \in 0..maxLogs - 1
    BY <1>3, RingRoom DEF LogsInv, FullBuffer
  <2> DEFINE all == [i \in 1..calls |-> Record(i)]
  <2>3. all \in Seq(Entries) /\ Len(all) = calls
    BY <2>2, RecordsTyped
  <2>4. /\ SubSeq(all, 1, NumOld(maxLogs)) \in Seq(Entries)
        /\ SubSeq(all, NumOld(maxLogs) + (calls - maxLogs + 1) + 1, calls) \in Seq(Entries)
        /\ <<Marker(calls - maxLogs + 1)>> \in Seq(Entries)
    BY <1>3, <2>2, <2>3, RecordsTyped
  <2>5. Kept = SubSeq(all, 1, NumOld(maxLogs)) \o <<Marker(calls - maxLogs + 1)>>
                 \o SubSeq(all, NumOld(maxLogs) + (calls - maxLogs + 1) + 1, calls)
    <3>1. ~ (maxLogs = 0 \/ calls <= maxLogs)
      BY <1>3, <2>2
    <3> QED
      BY <3>1 DEF Kept
  <2> HIDE DEF all
  <2>6. Kept \in Seq(Entries)
    BY <2>4, <2>5, ConcatProperties
  <2> QED
    BY <2>1, <2>6
<1> QED
  BY <1>1, <1>2, <1>3 DEF LogsInv, FullBuffer

LEMMA AppendLogInv ==
  ASSUME LogsInv, AppendLog
  PROVE  LogsInv'
<1>1. /\ maxLogs \in Nat /\ calls \in Nat /\ numDroppedLogs \in Nat /\ bulk = -1
      /\ calls' = calls + 1 /\ maxLogs' = maxLogs /\ bulk' = -1
  BY DEF LogsInv, AppendLog
<1>2. CASE maxLogs = 0 \/ calls < maxLogs
  <2>1. logs = [i \in 1..calls |-> Record(i)] /\ numDroppedLogs = 0 /\ Len(logs) = calls
    BY <1>1, <1>2 DEF LogsInv, FullBuffer
  <2>2. logs' = Append(logs, Record(calls + 1)) /\ numDroppedLogs' = 0
    BY <1>1, <1>2, <2>1 DEF AppendLog
  <2>3. logs' = [i \in 1..calls + 1 |-> Record(i)]
    BY <1>1, <2>1, <2>2
  <2>4. CASE maxLogs = 0 \/ calls + 1 < maxLogs
    BY <1>1, <2>2, <2>3, <2>4 DEF LogsInv, FullBuffer
  <2>5. CASE maxLogs = calls + 1
    <3>1. \A i \in 1..maxLogs : NumberAt(maxLogs, numDroppedLogs', i) = i
      <4>1. maxLogs \in Nat \ {0} /\ numDroppedLogs' = 0
        BY <1>1, <2>2, <2>5
      <4> QED
        BY <4>1, FirstTurn
    <3> QED
      BY <1>1, <2>2, <2>3, <2>5, <3>1 DEF LogsInv, FullBuffer
  <2> QED
    BY <1>1, <1>2, <2>4, <2>5
<1>3. CASE maxLogs # 0 /\ calls >= maxLogs
  <2> DEFINE d == numDroppedLogs
             old == NumOld(maxLogs)
             p == Oldest(maxLogs, numDroppedLogs)
  <2>1. /\ d = calls - maxLogs
        /\ logs = [i \in 1..maxLogs |-> Record(NumberAt(maxLogs, numDroppedLogs, i))]
        /\ Len(logs) = maxLogs /\ old \in 0..maxLogs - 1 /\ NumNew(maxLogs) = maxLogs - old
        /\ NumNew(maxLogs) \in Nat \ {0} /\ p \in 0..NumNew(maxLogs) - 1 
    <3>1. /\ d = calls - maxLogs
          /\ logs = [i \in 1..maxLogs |-> Record(NumberAt(maxLogs, numDroppedLogs, i))]
          /\ Len(logs) = maxLogs /\ maxLogs \in Nat \ {0}
      BY <1>1, <1>3 DEF LogsInv, FullBuffer
    <3>2. old \in 0..maxLogs - 1 /\ NumNew(maxLogs) = maxLogs - old /\ NumNew(maxLogs) \in Nat \ {0}
      BY <3>1, RingRoom DEF NumNew
    <3>3. p \in 0..NumNew(maxLogs) - 1 
      BY <1>1, <3>2, RingTurns DEF NumNew, Oldest
    <3> QED
      BY <3>1, <3>2, <3>3
  <2>2. logs' = [logs EXCEPT ![old + p + 1] = Record(calls + 1)] /\ numDroppedLogs' = d + 1
    BY <1>1, <1>3, <2>1 DEF AppendLog, OverwriteInRing, NumNew, Oldest
  <2>3. Oldest(maxLogs, numDroppedLogs') = IF p = NumNew(maxLogs) - 1 THEN 0 ELSE p + 1
    BY <2>1, <2>2, RingTurns, <1>1 DEF Oldest
  <2>4. \A i \in 1..maxLogs :
          NumberAt(maxLogs, numDroppedLogs', i)
            = IF i = old + p + 1 THEN calls + 1 ELSE NumberAt(maxLogs, numDroppedLogs, i)
    <3> TAKE i \in 1..maxLogs
    <3>1. NumberAt(maxLogs, numDroppedLogs', i) =
            IF i <= old THEN i
            ELSE i + (d + 1) - Oldest(maxLogs, numDroppedLogs')
                   + IF i - old <= Oldest(maxLogs, numDroppedLogs') THEN NumNew(maxLogs) ELSE 0
      BY <1>1, <2>1, <2>2 DEF NumberAt
    <3>2. NumberAt(maxLogs, numDroppedLogs, i) =
            IF i <= old THEN i ELSE i + d - p + (IF i - old <= p THEN NumNew(maxLogs) ELSE 0)
      BY DEF NumberAt
    <3> HIDE DEF d, old, p
    <3>3. CASE p = NumNew(maxLogs) - 1
      BY <1>1, <2>1, <2>3, <3>1, <3>2, <3>3
    <3>4. CASE p # NumNew(maxLogs) - 1
      BY <1>1, <2>1, <2>3, <3>1, <3>2, <3>4
    <3> QED
      BY <3>3, <3>4
  <2>5. logs' = [i \in 1..maxLogs |-> Record(NumberAt(maxLogs, numDroppedLogs', i))]
    <3>1. logs' = [i \in 1..maxLogs |->
                     IF i = old + p + 1 THEN Record(calls + 1)
                     ELSE Record(NumberAt(maxLogs, numDroppedLogs, i))]
      BY <2>1, <2>2
    <3> QED
      BY <2>4, <3>1
  <2> QED
    <3>1. bulk' = -1 /\ maxLogs' # 0 /\ calls' > maxLogs' /\ maxLogs' \in Nat /\ calls' \in Nat
      BY <1>1, <1>3
    <3>2. /\ numDroppedLogs' = calls' - maxLogs' /\ numDroppedLogs' \in Nat
          /\ logs' = FullBuffer(maxLogs', numDroppedLogs')
      <4>1. numDroppedLogs' = calls' - maxLogs' /\ numDroppedLogs' \in Nat
        BY <1>1, <2>1, <2>2
      <4>2. logs' = [i \in 1..maxLogs |-> Record(NumberAt(maxLogs, numDroppedLogs', i))]
        BY <2>5
      <4>3. maxLogs' = maxLogs
        BY <1>1
      <4> QED
        BY <4>1, <4>2, <4>3 DEF FullBuffer
    <3>3. (bulk = -1 /\ (maxLogs = 0 \/ calls < maxLogs) =>
             numDroppedLogs = 0 /\ logs = [i \in 1..calls |-> Record(i)])'
      BY <3>1
    <3>4. (bulk # -1 => numDroppedLogs = 0 /\ LogsExact)'
      BY <3>1
    <3>5. (maxLogs \in Nat /\ calls \in Nat /\ numDroppedLogs \in Nat /\ bulk \in Nat \cup {-1})'
      BY <3>1, <3>2
    <3>6. (bulk = -1 /\ maxLogs # 0 /\ calls >= maxLogs =>
             numDroppedLogs = calls - maxLogs /\ logs = FullBuffer(maxLogs, numDroppedLogs))'
      BY <3>2
    <3> QED
      BY <3>3, <3>4, <3>5, <3>6 DEF LogsInv
<1> QED
  BY <1>1, <1>2, <1>3

LEMMA FinishLogsInv ==
  ASSUME LogsInv, FinishLogs
  PROVE  LogsInv'
<1>1. PICK n \in 0..MaxBulk : bulk' = n /\ logs' = Fixed \o [i \in 1..n |-> BulkRecord(i)]
  BY DEF FinishLogs
<1>2. /\ bulk = -1 /\ numDroppedLogs' = 0 /\ maxLogs' = maxLogs /\ calls' = calls
      /\ bulk' \in Nat /\ bulk' # -1
  BY <1>1 DEF FinishLogs
<1>3. Fixed' = logs' /\ Kept' = Kept /\ Fixed = Kept
  BY <1>2, FixedKept DEF Fixed, Kept
<1>4. LogsExact'
  BY <1>1, <1>2, <1>3 DEF LogsExact
<1> QED
  BY <1>2, <1>4 DEF LogsInv, FullBuffer

(* The log buffer never loses a record that it should have kept, whatever the  *)
(* limit and the number of records: appendLogNoLocking, rotateLogBuffer and    *)
(* fixLogs together return the oldest and the newest records, in order, and    *)
(* count the others.                                                           *)
THEOREM LogsKept ==
  ASSUME LogsAssumption
  PROVE  LogsSpec => []LogsExact
<1>1. LogsInv => LogsExact
  <2> SUFFICES ASSUME LogsInv, bulk = -1 PROVE LogsExact
    BY DEF LogsInv, FullBuffer
  <2>1. Kept \o << >> = Kept
    BY FixedKept, ConcatEmptySeq
  <2> QED
    BY <2>1, FixedKept DEF LogsExact
<1>2. LogsInit => LogsInv
  BY InitLogs
<1>3. LogsInv /\ [LogsNext]_logVars => LogsInv'
  <2> SUFFICES ASSUME LogsInv, [LogsNext]_logVars PROVE LogsInv'
    OBVIOUS
  <2>1. CASE UNCHANGED logVars
    BY <2>1 DEF logVars, LogsInv, LogsExact, Fixed, Kept, NumberAt, Oldest, NumNew
  <2> QED
    BY <2>1, AppendLogInv, FinishLogsInv DEF LogsNext
<1> QED
  BY <1>1, <1>2, <1>3, PTL DEF LogsSpec

-----------------------------------------------------------------------------
(* RateLimiter: sums *)

IsTotal(total, amounts, n) ==
  total = [k \in 0..n |-> IF k = 0 THEN 0 ELSE total[k - 1] + amounts[k]]

LEMMA TotalExists ==
  ASSUME NEW amounts
  PROVE  \A n \in Nat : \E total : IsTotal(total, amounts, n)
<1> DEFINE S == {n \in Nat : \E total : IsTotal(total, amounts, n)}
<1>1. 0 \in S
  <2>1. IsTotal([k \in 0..0 |-> 0], amounts, 0)
    BY DEF IsTotal
  <2> QED
    BY <2>1
<1>2. ASSUME NEW n \in Nat, n \in S PROVE n + 1 \in S
  <2>1. PICK total : IsTotal(total, amounts, n)
    BY <1>2
  <2> DEFINE more == [k \in 0..n + 1 |-> IF k = n + 1 THEN total[n] + amounts[n + 1] ELSE total[k]]
  <2>2. \A k \in 0..n + 1 : more[k] = IF k = 0 THEN 0 ELSE more[k - 1] + amounts[k]
    <3> TAKE k \in 0..n + 1
    <3>1. CASE k = n + 1
      BY <3>1
    <3>2. CASE k # n + 1
      <4>1. k \in 0..n /\ (k # 0 => k - 1 \in 0..n /\ k - 1 # n + 1)
        BY <3>2
      <4>2. total[k] = IF k = 0 THEN 0 ELSE total[k - 1] + amounts[k]
        BY <2>1, <4>1 DEF IsTotal
      <4> QED
        BY <4>1, <4>2
    <3> QED
      BY <3>1, <3>2
  <2>3. IsTotal(more, amounts, n + 1)
    BY <2>2 DEF IsTotal
  <2> QED
    BY <2>3
<1> HIDE DEF S
<1>3. Nat \subseteq S
  BY <1>1, <1>2, Induction
<1> QED
  BY <1>3 DEF S

LEMMA TotalIs ==
  ASSUME NEW amounts \in Seq(Nat)
  PROVE  \E total : IsTotal(total, amounts, Len(amounts)) /\ Total(amounts) = total[Len(amounts)]
<1>1. \E total : IsTotal(total, amounts, Len(amounts))
  BY TotalExists, LenProperties
<1> QED
  BY <1>1 DEF Total, IsTotal

LEMMA TotalOf ==
  ASSUME NEW amounts \in Seq(Nat), NEW a \in Nat
  PROVE  /\ Total(amounts) \in Nat
         /\ Total(Append(amounts, a)) = Total(amounts) + a
<1>1. PICK total : IsTotal(total, amounts, Len(amounts)) /\ Total(amounts) = total[Len(amounts)]
  BY TotalIs
<1>0. /\ Len(amounts) \in Nat
      /\ Append(amounts, a) \in Seq(Nat) /\ Len(Append(amounts, a)) = Len(amounts) + 1
      /\ \A k \in 1..Len(amounts) : amounts[k] \in Nat /\ Append(amounts, a)[k] = amounts[k]
      /\ Append(amounts, a)[Len(amounts) + 1] = a
  BY AppendProperties, ElementOfSeq, LenProperties
<1>2. PICK more : /\ IsTotal(more, Append(amounts, a), Len(amounts) + 1)
                  /\ Total(Append(amounts, a)) = more[Len(amounts) + 1]
  <2>1. \E more : /\ IsTotal(more, Append(amounts, a), Len(Append(amounts, a)))
                  /\ Total(Append(amounts, a)) = more[Len(Append(amounts, a))]
    BY <1>0, TotalIs
  <2> QED
    BY <1>0, <2>1
<1> DEFINE S == {k \in Nat : k <= Len(amounts) => total[k] \in Nat /\ more[k] = total[k]}
<1>5. 0 \in S
  BY <1>0, <1>1, <1>2 DEF IsTotal
<1>6. ASSUME NEW k \in Nat, k \in S PROVE k + 1 \in S
  <2> SUFFICES ASSUME k + 1 <= Len(amounts) PROVE total[k + 1] \in Nat /\ more[k + 1] = total[k + 1]
    OBVIOUS
  <2>1. total[k] \in Nat /\ more[k] = total[k] /\ k + 1 \in 1..Len(amounts)
    BY <1>0, <1>6
  <2>2. total[k + 1] = total[k] + amounts[k + 1]
    BY <1>0, <1>1, <2>1 DEF IsTotal
  <2>3. more[k + 1] = more[k] + Append(amounts, a)[k + 1]
    BY <1>0, <1>2, <2>1 DEF IsTotal
  <2> QED
    BY <1>0, <2>1, <2>2, <2>3
<1> HIDE DEF S
<1>7. Nat \subseteq S
  BY <1>5, <1>6, Induction
<1>8. total[Len(amounts)] \in Nat /\ more[Len(amounts)] = total[Len(amounts)]
  BY <1>0, <1>7 DEF S
<1>9. more[Len(amounts) + 1] = more[Len(amounts)] + Append(amounts, a)[Len(amounts) + 1]
  BY <1>0, <1>2 DEF IsTotal
<1> QED
  BY <1>0, <1>1, <1>2, <1>8, <1>9

LEMMA TotalNothing ==
  ASSUME NEW n \in Nat
  PROVE  Total([k \in 1..n |-> 0]) = 0
<1> DEFINE zeros == [k \in 1..n |-> 0]
<1>1. zeros \in Seq(Nat) /\ Len(zeros) = n /\ \A k \in 1..n : zeros[k] = 0
  OBVIOUS
<1> HIDE DEF zeros
<1>2. PICK total : IsTotal(total, zeros, n) /\ Total(zeros) = total[n]
  BY <1>1, TotalIs
<1> DEFINE S == {k \in Nat : k <= n => total[k] = 0}
<1>3. 0 \in S
  BY <1>2 DEF IsTotal
<1>4. ASSUME NEW k \in Nat, k \in S PROVE k + 1 \in S
  <2> SUFFICES ASSUME k + 1 <= n PROVE total[k + 1] = 0
    OBVIOUS
  <2>1. total[k + 1] = total[k] + zeros[k + 1]
    BY <1>2 DEF IsTotal
  <2> QED
    BY <1>1, <1>4, <2>1
<1> HIDE DEF S
<1>5. Nat \subseteq S
  BY <1>3, <1>4, Induction
<1> QED
  BY <1>2, <1>5 DEF S, zeros

-----------------------------------------------------------------------------
(* RateLimiter: products and quotients *)

LEMMA LargestIs ==
  ASSUME LimiterAssumption
  PROVE  /\ Max(Rates) \in Nat /\ \A rate \in Rates : rate \in Nat /\ rate <= Max(Rates)
         /\ Max(Maxima) \in Nat /\ \A max \in Maxima : max \in Nat \ {0} /\ max <= Max(Maxima)
<1>1. Max(Rates) \in Rates /\ \A rate \in Rates : Max(Rates) >= rate
  BY DEF LimiterAssumption, Max
<1>2. Max(Maxima) \in Maxima /\ \A max \in Maxima : Max(Maxima) >= max
  BY DEF LimiterAssumption, Max
<1> QED
  BY <1>1, <1>2 DEF LimiterAssumption

LEMMA ProductGrows ==
  ASSUME NEW a \in Nat, NEW b \in Nat, NEW c \in Nat, a <= b
  PROVE  a * c <= b * c /\ a * c \in Nat /\ b * c \in Nat
OBVIOUS

LEMMA Cancel ==
  ASSUME NEW a \in Nat, NEW b \in Nat, NEW c \in Nat \ {0}, a * c <= b * c
  PROVE  a <= b
<1> SUFFICES ASSUME b + 1 <= a PROVE FALSE
  OBVIOUS
<1>1. (b + 1) * c <= a * c
  BY ProductGrows
<1>2. (b + 1) * c = b * c + c
  OBVIOUS
<1>3. a * c \in Nat /\ b * c \in Nat
  OBVIOUS
<1> QED
  BY <1>1, <1>2, <1>3

(* A balance that is pro-rated from one maximum to another. *)
LEMMA ProRated ==
  ASSUME NEW b \in Nat, NEW old \in Nat \ {0}, NEW max \in Nat \ {0}, NEW unit \in Nat,
         b <= old * unit
  PROVE  /\ (b * max) \div old \in Nat
         /\ (b * max) \div old <= max * unit
         /\ (b * max) \div old <= b \/ (b * max) \div old <= b + max * unit - old * unit
<1> DEFINE q == (b * max) \div old
<1>1. b * max \in Nat
  OBVIOUS
<1>2. q \in Nat /\ old * q <= b * max
  <2> DEFINE d == b * max
  <2>1. d \in Nat
    BY <1>1
  <2> HIDE DEF d
  <2>2. d = old * (d \div old) + (d % old) /\ d \div old \in Nat /\ (d % old) \in 0..old - 1
    BY <2>1, Quotient
  <2>3. q = d \div old /\ b * max = d
    BY DEF d
  <2>4. old * (d \div old) \in Nat
    BY <2>2
  <2> QED
    BY <2>2, <2>3, <2>4
<1> HIDE DEF q
<1>3. q <= max * unit
  <2>1. b * max <= (old * unit) * max
    BY ProductGrows
  <2>2. (old * unit) * max = (max * unit) * old /\ old * q = q * old /\ max * unit \in Nat
    <3>1. (old * unit) * max = (max * unit) * old
      OBVIOUS
    <3>2. old * q = q * old
      BY <1>2
    <3> QED
      BY <3>1, <3>2
  <2>3. q * old <= (max * unit) * old
    BY <1>1, <1>2, <2>1, <2>2
  <2> QED
    BY <1>2, <2>2, <2>3, Cancel
<1>4. CASE max <= old
  <2>1. max * b <= old * b
    BY <1>4, ProductGrows
  <2>2. q * old <= b * old
    BY <1>1, <1>2, <2>1
  <2>3. q <= b
    BY <1>2, <2>2, Cancel
  <2> QED
    BY <1>2, <1>3, <2>3 DEF q
<1>5. CASE max > old
  <2> DEFINE rise == max - old
             gain == rise * unit
  <2>1. rise \in Nat /\ gain \in Nat /\ gain = max * unit - old * unit
    BY <1>5
  <2>2. b * rise <= (old * unit) * rise
    BY <2>1, ProductGrows
  <2>3. b * max = b * old + b * rise /\ (old * unit) * rise = gain * old
    BY <2>1
  <2>4. (b + gain) * old = b * old + gain * old
    BY <2>1
  <2>5. q * old <= (b + gain) * old
    BY <1>1, <1>2, <2>1, <2>2, <2>3, <2>4
  <2> HIDE DEF gain
  <2>6. q <= b + gain
    BY <1>2, <2>1, <2>5, Cancel
  <2> QED
    BY <1>2, <1>3, <2>1, <2>6 DEF q
<1> QED
  BY <1>4, <1>5

-----------------------------------------------------------------------------
(* RateLimiter: what a window may have spent, and may still spend *)

Yield(rate, time) == rate * time * Unit

(* The window that begins at from has spent this much and b is the balance     *)
(* left: as long as the balance was not replenished in the window, they are    *)
(* one balance together; since then they are two, and what the rate yielded up *)
(* to the last tick.  An Update may change these, but to no more than what     *)
(* they are at the largest maximum and rate.                                   *)
Fits(from, spent, b, max, rate, last, latest, once) ==
  /\ last < from => spent * Unit + b <= max * Unit
  /\ from <= last /\ latest => spent * Unit + b <= 2 * (max * Unit) + Yield(rate, last - from)
  /\ from <= last /\ once =>
       spent * Unit + b <= 2 * (Max(Maxima) * Unit) + Yield(Max(Rates), last - from)

LEMMA YieldAdds ==
  ASSUME Unit \in Nat, NEW rate \in Nat, NEW s \in Nat, NEW t \in Nat, NEW u \in Nat, u = s + t
  PROVE  /\ Yield(rate, s) \in Nat /\ Yield(rate, t) \in Nat /\ Yield(rate, u) \in Nat
         /\ Yield(rate, s) + Yield(rate, t) = Yield(rate, u)
<1> DEFINE x == rate * s
           y == rate * t
<1>1. rate * u = x + y /\ x \in Nat /\ y \in Nat
  OBVIOUS
<1> HIDE DEF x, y
<1>2. (x + y) * Unit = x * Unit + y * Unit /\ x * Unit \in Nat /\ y * Unit \in Nat
  BY <1>1
<1> QED
  BY <1>1, <1>2 DEF Yield, x, y

(* The yield from from to last, and from then to to. *)
Spans(rate, from, last, to) ==
  /\ Yield(rate, last - from) \in Nat /\ Yield(rate, to - last) \in Nat
  /\ Yield(rate, last - from) + Yield(rate, to - last) = Yield(rate, to - from)

LEMMA YieldSpan ==
  ASSUME Unit \in Nat, NEW rate \in Nat, NEW from \in Nat, NEW last \in Nat, NEW to \in Nat,
         from <= last, last <= to
  PROVE  Spans(rate, from, last, to)
<1>1. PICK s \in Nat, t \in Nat, u \in Nat :
        s = last - from /\ t = to - last /\ u = to - from /\ u = s + t
  <2>1. /\ last - from \in Nat /\ to - last \in Nat /\ to - from \in Nat
        /\ to - from = (last - from) + (to - last)
    OBVIOUS
  <2> QED
    BY <2>1
<1>2. /\ Yield(rate, s) \in Nat /\ Yield(rate, t) \in Nat
      /\ Yield(rate, s) + Yield(rate, t) = Yield(rate, u)
  BY <1>1, YieldAdds
<1> QED
  BY <1>1, <1>2 DEF Spans

LEMMA YieldGrows ==
  ASSUME Unit \in Nat, NEW rate \in Nat, NEW more \in Nat, rate <= more, NEW t \in Nat
  PROVE  Yield(rate, t) <= Yield(more, t)
<1>1. rate * t <= more * t /\ rate * t \in Nat /\ more * t \in Nat
  BY ProductGrows
<1> QED
  BY <1>1, ProductGrows DEF Yield

LEMMA Scaled ==
  ASSUME LimiterAssumption, NEW max \in Maxima, NEW spent \in Nat
  PROVE  /\ Unit \in Nat \ {0} /\ Max(Rates) \in Nat /\ Max(Maxima) \in Nat /\ max \in Nat \ {0}
         /\ spent * Unit \in Nat /\ max * Unit \in Nat /\ Max(Maxima) * Unit \in Nat
         /\ max * Unit <= Max(Maxima) * Unit
<1>1. /\ Unit \in Nat \ {0} /\ Max(Rates) \in Nat /\ Max(Maxima) \in Nat /\ max \in Nat \ {0}
      /\ max <= Max(Maxima)
  BY LargestIs DEF LimiterAssumption
<1>2. /\ max * Unit <= Max(Maxima) * Unit /\ max * Unit \in Nat /\ Max(Maxima) * Unit \in Nat
      /\ spent * Unit \in Nat
  BY <1>1, ProductGrows
<1> QED
  BY <1>1, <1>2

LEMMA FitsTick ==
  ASSUME LimiterAssumption, NEW from \in Nat, NEW spent \in Nat, NEW b \in Nat, NEW max \in Maxima,
         NEW rate \in Rates, NEW now1 \in Nat, NEW last \in 0..now1, from <= now1,
         NEW latest, NEW once, Fits(from, spent, b, max, rate, last, latest, once),
         b <= max * Unit, NEW c \in Nat, c <= b + Yield(rate, now1 - last), c <= max * Unit
  PROVE  Fits(from, spent, c, max, rate, now1, latest, once)
<1> DEFINE S == spent * Unit
           M == max * Unit
           L == Max(Maxima) * Unit
<1>1. /\ S \in Nat /\ M \in Nat /\ L \in Nat /\ M <= L
      /\ rate \in Nat /\ Max(Rates) \in Nat /\ rate <= Max(Rates) /\ Unit \in Nat
  BY Scaled, LargestIs
<1> HIDE DEF S, M, L
<1>2. /\ Yield(rate, now1 - from) \in Nat /\ Yield(Max(Rates), now1 - from) \in Nat
      /\ now1 - from \in Nat
  <2>1. now1 - from \in Nat /\ now1 - from = (now1 - from) + 0 /\ 0 \in Nat
    OBVIOUS
  <2> QED
    BY <1>1, <2>1, YieldAdds
<1>3. CASE last < from
  <2>1. S + b <= M
    BY <1>3 DEF Fits, S, M
  <2>2. S + c <= 2 * M
    BY <1>1, <2>1 DEF M
  <2> QED
    BY <1>1, <1>2, <2>2 DEF Fits, S, M, L
<1>4. CASE from <= last
  <2>1. /\ last - from \in Nat /\ now1 - last \in Nat /\ (last - from) + (now1 - last) = now1 - from
    BY <1>4
  <2>2. /\ Yield(rate, last - from) + Yield(rate, now1 - last) = Yield(rate, now1 - from)
        /\ Yield(Max(Rates), last - from) + Yield(Max(Rates), now1 - last)
             = Yield(Max(Rates), now1 - from)
        /\ Yield(rate, last - from) \in Nat /\ Yield(rate, now1 - last) \in Nat
        /\ Yield(Max(Rates), last - from) \in Nat /\ Yield(Max(Rates), now1 - last) \in Nat
        /\ Yield(rate, now1 - last) <= Yield(Max(Rates), now1 - last)
    <3>1. Yield(rate, now1 - last) <= Yield(Max(Rates), now1 - last)
      BY <1>1, <2>1, YieldGrows
    <3> QED
      <4>1. last \in Nat /\ last <= now1 /\ from \in Nat /\ from <= last /\ now1 \in Nat
        BY <1>4
      <4>2. Spans(rate, from, last, now1) /\ Spans(Max(Rates), from, last, now1)
        BY <1>1, <4>1, YieldSpan
      <4> QED
        BY <3>1, <4>2 DEF Spans
  <2>3. /\ latest => S + b <= 2 * M + Yield(rate, last - from)
        /\ once => S + b <= 2 * L + Yield(Max(Rates), last - from)
    BY <1>4 DEF Fits, S, M, L
  <2>4. /\ latest => S + c <= 2 * M + Yield(rate, now1 - from)
        /\ once => S + c <= 2 * L + Yield(Max(Rates), now1 - from)
    BY <1>1, <1>2, <2>2, <2>3
  <2> QED
    BY <1>4, <2>4 DEF Fits, S, M, L
<1> QED
  BY <1>3, <1>4

LEMMA FitsUpdate ==
  ASSUME LimiterAssumption, NEW from \in Nat, NEW spent \in Nat, NEW b \in Nat,
         NEW max \in Maxima, NEW rate \in Rates, NEW now1 \in Nat, from <= now1,
         NEW latest, NEW once, Fits(from, spent, b, max, rate, now1, latest, once), b <= max * Unit,
         NEW max2 \in Maxima, NEW rate2, NEW latest2, ~ latest2, NEW once2, once2 => latest
  PROVE  Fits(from, spent, (b * max2) \div max, max2, rate2, now1, latest2, once2)
<1> DEFINE S == spent * Unit
           M == max * Unit
           N == max2 * Unit
           L == Max(Maxima) * Unit
           c == (b * max2) \div max
<1>1. /\ S \in Nat /\ M \in Nat /\ N \in Nat /\ L \in Nat /\ M <= L /\ N <= L
      /\ rate \in Nat /\ Max(Rates) \in Nat /\ rate <= Max(Rates) /\ Unit \in Nat
      /\ max \in Nat \ {0} /\ max2 \in Nat \ {0}
  BY Scaled, LargestIs
<1>2. c \in Nat /\ (c <= b \/ c <= b + N - M)
  BY <1>1, ProRated
<1> HIDE DEF S, M, N, L, c
<1>3. /\ Yield(rate, now1 - from) \in Nat /\ Yield(Max(Rates), now1 - from) \in Nat
      /\ Yield(rate, now1 - from) <= Yield(Max(Rates), now1 - from)
  <2>1. now1 - from \in Nat /\ now1 - from = (now1 - from) + 0 /\ 0 \in Nat
    OBVIOUS
  <2>2. Yield(rate, now1 - from) \in Nat /\ Yield(Max(Rates), now1 - from) \in Nat
    BY <1>1, <2>1, YieldAdds
  <2> QED
    BY <1>1, <2>1, <2>2, YieldGrows
<1>4. latest => S + b <= 2 * M + Yield(rate, now1 - from)
  BY DEF Fits, S, M
<1>5. once2 => S + c <= 2 * L + Yield(Max(Rates), now1 - from)
  BY <1>1, <1>2, <1>3, <1>4
<1> QED
  BY <1>5 DEF Fits, S, L, c

LEMMA FitsWindow ==
  ASSUME LimiterAssumption, NEW from \in Nat, NEW spent \in Nat, NEW b \in Nat, NEW max \in Maxima,
         NEW rate, NEW now1 \in Nat, NEW last \in 0..now1, from <= now1,
         NEW latest, Fits(from, spent, b, max, rate, last, latest, TRUE)
  PROVE  spent <= 2 * Max(Maxima) + Max(Rates) * (now1 - from)
<1> DEFINE S == spent * Unit
           L == Max(Maxima) * Unit
           T == Max(Rates) * (now1 - from)
           goal == 2 * Max(Maxima) + T
<1>1. /\ S \in Nat /\ max * Unit \in Nat /\ L \in Nat /\ max * Unit <= L
      /\ Max(Rates) \in Nat /\ Max(Maxima) \in Nat /\ Unit \in Nat \ {0}
  BY Scaled
<1>2. now1 - from \in Nat /\ T \in Nat /\ goal \in Nat /\ T * Unit = Yield(Max(Rates), now1 - from)
  BY <1>1 DEF Yield
<1>3. goal * Unit = 2 * L + T * Unit /\ T * Unit \in Nat
  <2> HIDE DEF T
  <2> QED
    BY <1>1, <1>2
<1> HIDE DEF S, L, T, goal
<1>4. S <= 2 * L + T * Unit
  <2>1. CASE last < from
    BY <1>1, <1>3, <2>1 DEF Fits, S
  <2>2. CASE from <= last
    <3>1. last - from \in Nat /\ now1 - last \in Nat /\ (last - from) + (now1 - last) = now1 - from
      BY <2>2
    <3>2. /\ Yield(Max(Rates), last - from) + Yield(Max(Rates), now1 - last)
               = Yield(Max(Rates), now1 - from)
          /\ Yield(Max(Rates), last - from) \in Nat /\ Yield(Max(Rates), now1 - last) \in Nat
      <4>1. last \in Nat /\ last <= now1 /\ from \in Nat /\ from <= last /\ now1 \in Nat
        BY <2>2
      <4>2. Spans(Max(Rates), from, last, now1)
        BY <1>1, <4>1, YieldSpan
      <4> QED
        BY <4>2 DEF Spans
    <3>3. S + b <= 2 * L + Yield(Max(Rates), last - from)
      BY <2>2 DEF Fits, S, L
    <3> QED
      BY <1>1, <1>2, <3>2, <3>3
  <2> QED
    BY <2>1, <2>2
<1>5. spent * Unit <= goal * Unit
  BY <1>3, <1>4 DEF S
<1>6. spent <= goal
  BY <1>1, <1>2, <1>5, Cancel
<1> QED
  BY <1>6 DEF goal, T

-----------------------------------------------------------------------------
(* RateLimiter: the invariant *)

Check == [time : Nat, cost : Costs, allowed : BOOLEAN]

Amounts(history, from, to) == [k \in DOMAIN history |-> Paid(history[k], from, to)]
SpentIn(history, from, to) == Total(Amounts(history, from, to))

Fresh(times, from) == \A k \in DOMAIN times : times[k] < from
Once(times, from, to) ==
  \A i, j \in DOMAIN times : times[i] \in from..to /\ times[j] \in from..to => i = j

LimiterTypeInv ==
  /\ creditsPerSecond \in Rates /\ maxBalance \in Maxima
  /\ balance \in Nat /\ balance <= maxBalance * Unit
  /\ now \in Nat /\ lastTick \in 0..now
  /\ checks \in Seq(Check) /\ \A k \in DOMAIN checks : checks[k].time <= now
  /\ updates \in Seq(Nat) /\ \A k \in DOMAIN updates : updates[k] <= lastTick

(* The windows that are not over fit, as Fits says; those that are over keep   *)
(* what they had spent, and their bound.                                       *)
OpenInv ==
  \A from \in 0..now :
    Fits(from, SpentIn(checks, from, now), balance, maxBalance, creditsPerSecond, lastTick,
         Fresh(updates, from), Once(updates, from, now))

OverInv ==
  \A from, to \in 0..now - 1 :
    from <= to /\ Once(updates, from, to) =>
      SpentIn(checks, from, to) <= 2 * Max(Maxima) + Max(Rates) * (to - from)

LimiterInv == LimiterTypeInv /\ OpenInv /\ OverInv

LEMMA AmountsTyped ==
  ASSUME LimiterAssumption, NEW h \in Seq(Check), NEW from \in Nat, NEW to \in Nat
  PROVE  /\ Amounts(h, from, to) \in Seq(Nat) /\ Len(Amounts(h, from, to)) = Len(h)
         /\ SpentIn(h, from, to) \in Nat
<1>1. /\ DOMAIN h = 1..Len(h) /\ Len(h) \in Nat
      /\ \A k \in 1..Len(h) : h[k] \in Check
  BY LenProperties, ElementOfSeq
<1>2. \A c \in Check : Paid(c, from, to) \in Nat
  BY DEF LimiterAssumption, Check, Paid
<1>3. /\ Amounts(h, from, to) = [k \in 1..Len(h) |-> Paid(h[k], from, to)]
      /\ \A k \in 1..Len(h) : Paid(h[k], from, to) \in Nat
  BY <1>1, <1>2 DEF Amounts
<1>4. Amounts(h, from, to) \in Seq(Nat) /\ Len(Amounts(h, from, to)) = Len(h)
  BY <1>1, <1>3
<1> QED
  BY <1>4, TotalOf DEF SpentIn

LEMMA SpentMore ==
  ASSUME LimiterAssumption, NEW h \in Seq(Check), NEW c \in Check, NEW from \in Nat, NEW to \in Nat
  PROVE  SpentIn(Append(h, c), from, to) = SpentIn(h, from, to) + Paid(c, from, to)
<1>1. Paid(c, from, to) \in Nat
  BY DEF LimiterAssumption, Check, Paid
<1>2. /\ DOMAIN h = 1..Len(h) /\ Len(h) \in Nat
      /\ DOMAIN Append(h, c) = 1..Len(h) + 1
      /\ \A k \in 1..Len(h) : Append(h, c)[k] = h[k]
      /\ Append(h, c)[Len(h) + 1] = c
      /\ Len(Append(h, c)) = Len(h) + 1 /\ Append(h, c) \in Seq(Check)
  BY LenProperties, AppendProperties
<1> DEFINE a == Amounts(h, from, to)
           b == Amounts(Append(h, c), from, to)
<1>3. a \in Seq(Nat) /\ b \in Seq(Nat) /\ Len(a) = Len(h) /\ Len(b) = Len(h) + 1
  BY <1>2, AmountsTyped
<1>4. /\ \A k \in 1..Len(h) : b[k] = a[k]
      /\ b[Len(h) + 1] = Paid(c, from, to)
  BY <1>2 DEF Amounts
<1> HIDE DEF a, b
<1>5. b = Append(a, Paid(c, from, to))
  <2>1. /\ Append(a, Paid(c, from, to)) \in Seq(Nat)
        /\ Len(Append(a, Paid(c, from, to))) = Len(h) + 1
        /\ \A k \in 1..Len(h) : Append(a, Paid(c, from, to))[k] = a[k]
        /\ Append(a, Paid(c, from, to))[Len(h) + 1] = Paid(c, from, to)
    BY <1>1, <1>3, AppendProperties
  <2>2. \A k \in 1..Len(b) : b[k] = Append(a, Paid(c, from, to))[k]
    BY <1>2, <1>3, <1>4, <2>1
  <2> QED
    BY <1>3, <2>1, <2>2, SeqEqual
<1>6. Total(b) = Total(a) + Paid(c, from, to)
  BY <1>1, <1>3, <1>5, TotalOf
<1> QED
  BY <1>6 DEF SpentIn, a, b

(* Nothing is spent before its time, nor after it. *)
LEMMA SpentUpTo ==
  ASSUME LimiterAssumption, NEW h \in Seq(Check), NEW n \in Nat,
         \A k \in DOMAIN h : h[k].time <= n, NEW from \in Nat
  PROVE  /\ SpentIn(h, from, n + 1) = SpentIn(h, from, n)
         /\ n < from => SpentIn(h, from, n + 1) = 0
<1>1. /\ DOMAIN h = 1..Len(h) /\ Len(h) \in Nat
      /\ \A k \in 1..Len(h) : h[k] \in Check
  BY LenProperties, ElementOfSeq
<1>2. \A k \in DOMAIN h : h[k].time \in Nat /\ h[k].time <= n
  BY <1>1 DEF Check
<1>3. \A k \in DOMAIN h : Paid(h[k], from, n + 1) = Paid(h[k], from, n)
  BY <1>2 DEF Paid
<1>4. Amounts(h, from, n + 1) = Amounts(h, from, n)
  BY <1>3 DEF Amounts
<1>5. ASSUME n < from PROVE SpentIn(h, from, n + 1) = 0
  <2>1. \A k \in DOMAIN h : Paid(h[k], from, n + 1) = 0
    BY <1>2, <1>5 DEF Paid
  <2>2. Amounts(h, from, n + 1) = [k \in 1..Len(h) |-> 0]
    BY <1>1, <2>1 DEF Amounts
  <2> QED
    BY <1>1, <2>2, TotalNothing DEF SpentIn
<1> QED
  BY <1>4, <1>5 DEF SpentIn

LEMMA OpenWindow ==
  ASSUME LimiterAssumption, LimiterInv, NEW from \in 0..now, Once(updates, from, now)
  PROVE  SpentIn(checks, from, now) <= 2 * Max(Maxima) + Max(Rates) * (now - from)
<1>1. SpentIn(checks, from, now) \in Nat
  <2>1. checks \in Seq(Check) /\ now \in Nat /\ from \in Nat
    BY DEF LimiterInv, LimiterTypeInv
  <2> QED
    BY <2>1, AmountsTyped
<1>2. Fits(from, SpentIn(checks, from, now), balance, maxBalance, creditsPerSecond, lastTick,
           Fresh(updates, from), TRUE)
  BY DEF LimiterInv, OpenInv
<1>3. /\ from \in Nat /\ from <= now /\ now \in Nat /\ lastTick \in 0..now
      /\ balance \in Nat /\ maxBalance \in Maxima
  BY DEF LimiterInv, LimiterTypeInv
<1> QED
  BY ONLY LimiterAssumption, <1>1, <1>2, <1>3, FitsWindow

LEMMA LimiterBound ==
  ASSUME LimiterAssumption, LimiterInv
  PROVE  WindowBound
<1> SUFFICES ASSUME NEW from \in 0..now, NEW to \in from..now, UpdatedOnce(from, to)
             PROVE  Spent(from, to) <= 2 * Max(Maxima) + Max(Rates) * (to - from)
  BY DEF WindowBound
<1>1. Once(updates, from, to) /\ Spent(from, to) = SpentIn(checks, from, to)
  BY DEF UpdatedOnce, Once, Spent, SpentIn, Amounts
<1>2. now \in Nat
  BY DEF LimiterInv, LimiterTypeInv
<1>3. CASE to = now
  BY <1>1, <1>3, OpenWindow
<1>4. CASE to # now
  <2>1. from \in 0..now - 1 /\ to \in 0..now - 1 /\ from <= to
    BY <1>2, <1>4
  <2> QED
    BY <1>1, <2>1 DEF LimiterInv, OverInv
<1> QED
  BY <1>3, <1>4

LEMMA InitLimiter == LimiterAssumption /\ LimiterInit => LimiterInv
<1> SUFFICES ASSUME LimiterAssumption, LimiterInit PROVE LimiterInv
  OBVIOUS
<1>1. /\ maxBalance \in Maxima /\ creditsPerSecond \in Rates /\ balance = maxBalance * Unit
      /\ now = 0 /\ lastTick = 0 /\ checks = << >> /\ updates = << >>
  BY DEF LimiterInit
<1>2. maxBalance * Unit \in Nat
  BY <1>1, Scaled
<1>3. LimiterTypeInv
  BY <1>1, <1>2 DEF LimiterTypeInv
<1>4. OverInv
  BY <1>1 DEF OverInv
<1>5. SpentIn(<< >>, 0, 0) = 0
  <2>1. Amounts(<< >>, 0, 0) = [k \in 1..0 |-> 0]
    BY DEF Amounts
  <2> QED
    BY <2>1, TotalNothing DEF SpentIn
<1>6. OpenInv
  <2>1. Fits(0, 0, balance, maxBalance, creditsPerSecond, 0, Fresh(<< >>, 0), Once(<< >>, 0, 0))
    <3>1. /\ Max(Maxima) * Unit \in Nat /\ maxBalance * Unit <= Max(Maxima) * Unit
          /\ Unit \in Nat /\ creditsPerSecond \in Nat /\ Max(Rates) \in Nat
      BY <1>1, Scaled, LargestIs
    <3>2. Yield(creditsPerSecond, 0 - 0) = 0 /\ Yield(Max(Rates), 0 - 0) = 0
      BY <3>1 DEF Yield
    <3>3. 0 * Unit = 0
      BY <3>1
    <3> QED
      BY <1>1, <1>2, <3>1, <3>2, <3>3 DEF Fits
  <2> QED
    BY <1>1, <1>5, <2>1 DEF OpenInv
<1> QED
  BY <1>3, <1>4, <1>6 DEF LimiterInv

LEMMA TimePassesInv ==
  ASSUME LimiterAssumption, LimiterInv, TimePasses
  PROVE  LimiterInv'
<1>1. /\ now' = now + 1 /\ checks' = checks /\ updates' = updates /\ balance' = balance
      /\ lastTick' = lastTick /\ maxBalance' = maxBalance
      /\ creditsPerSecond' = creditsPerSecond
  BY DEF TimePasses
<1>2. LimiterTypeInv /\ OpenInv /\ OverInv
  BY DEF LimiterInv
<1>3. LimiterTypeInv'
  <2>1. /\ now + 1 \in Nat /\ lastTick \in 0..now + 1
        /\ \A k \in DOMAIN checks : checks[k].time <= now + 1
    <3>1. \A k \in DOMAIN checks : checks[k].time \in Nat /\ checks[k].time <= now
      <4>1. \A k \in DOMAIN checks : checks[k] \in Check /\ checks[k].time <= now
        BY <1>2, ElementOfSeq, LenProperties DEF LimiterTypeInv
      <4> QED
        BY <4>1 DEF Check
    <3> QED
      BY <1>2, <3>1 DEF LimiterTypeInv
  <2> QED
    BY <1>1, <1>2, <2>1 DEF LimiterTypeInv
<1>4. ASSUME NEW from \in 0..now + 1
      PROVE  Fits(from, SpentIn(checks, from, now + 1), balance, maxBalance, creditsPerSecond,
                  lastTick, Fresh(updates, from), Once(updates, from, now + 1))
  <2>1. /\ now \in Nat /\ from \in Nat /\ lastTick \in 0..now
        /\ \A k \in DOMAIN updates : updates[k] \in Nat /\ updates[k] <= now
    <3>1. \A k \in DOMAIN updates : updates[k] \in Nat
      BY <1>2, ElementOfSeq, LenProperties DEF LimiterTypeInv
    <3> QED
      BY <1>2, <3>1 DEF LimiterTypeInv
  <2>2. /\ SpentIn(checks, from, now + 1) = SpentIn(checks, from, now)
        /\ now < from => SpentIn(checks, from, now + 1) = 0
    BY <1>2, <2>1, SpentUpTo DEF LimiterTypeInv
  <2>3. CASE from <= now
    <3>1. Once(updates, from, now + 1) => Once(updates, from, now)
      BY <2>1 DEF Once
    <3>2. from \in 0..now
      BY <2>1, <2>3
    <3>3. Fits(from, SpentIn(checks, from, now), balance, maxBalance, creditsPerSecond, lastTick,
               Fresh(updates, from), Once(updates, from, now))
      BY <1>2, <3>2 DEF OpenInv
    <3> QED
      BY <2>2, <3>1, <3>3 DEF Fits
  <2>4. CASE ~ (from <= now)
    <3>1. SpentIn(checks, from, now + 1) = 0 /\ ~ (from <= lastTick) /\ 0 * Unit = 0
      BY <2>1, <2>2, <2>4 DEF LimiterAssumption
    <3>2. balance \in Nat /\ balance <= maxBalance * Unit
      BY <1>2 DEF LimiterTypeInv
    <3> QED
      BY <3>1, <3>2 DEF Fits
  <2> QED
    BY <2>3, <2>4
<1>5. OpenInv'
  BY <1>1, <1>4 DEF OpenInv
<1>6. ASSUME NEW from \in 0..now, NEW to \in 0..now, from <= to, Once(updates, from, to)
      PROVE  SpentIn(checks, from, to) <= 2 * Max(Maxima) + Max(Rates) * (to - from)
  <2>1. now \in Nat
    BY <1>2 DEF LimiterTypeInv
  <2>2. CASE to = now
    BY <1>6, <2>2, OpenWindow
  <2>3. CASE to # now
    <3>1. from \in 0..now - 1 /\ to \in 0..now - 1
      BY <1>6, <2>1, <2>3
    <3> QED
      BY <1>2, <1>6, <3>1 DEF OverInv
  <2> QED
    BY <2>2, <2>3
<1>7. OverInv'
  <2>1. now' - 1 = now
    BY <1>1, <1>2 DEF LimiterTypeInv
  <2> QED
    BY <1>1, <1>6, <2>1 DEF OverInv
<1> QED
  BY <1>3, <1>5, <1>7 DEF LimiterInv

(* What is left after a look at the clock. *)
LEMMA Ticked ==
  ASSUME LimiterAssumption, LimiterInv
  PROVE  /\ Replenished \in Nat /\ Replenished <= maxBalance * Unit
         /\ Replenished <= balance + Yield(creditsPerSecond, now - lastTick)
         /\ \A from \in 0..now :
              Fits(from, SpentIn(checks, from, now), Replenished, maxBalance, creditsPerSecond, now,
                   Fresh(updates, from), Once(updates, from, now))
<1>1. /\ LimiterTypeInv /\ OpenInv /\ now \in Nat /\ lastTick \in 0..now /\ balance \in Nat
      /\ maxBalance \in Maxima /\ creditsPerSecond \in Rates /\ balance <= maxBalance * Unit
  BY DEF LimiterInv, LimiterTypeInv
<1>2. /\ Yield(creditsPerSecond, now - lastTick) \in Nat /\ maxBalance * Unit \in Nat
  <2>1. now - lastTick \in Nat /\ now - lastTick = (now - lastTick) + 0 /\ 0 \in Nat
    BY <1>1
  <2>2. creditsPerSecond \in Nat /\ Unit \in Nat /\ maxBalance * Unit \in Nat
    BY <1>1, Scaled, LargestIs
  <2> QED
    BY <2>1, <2>2, YieldAdds
<1>3. Replenished = Least(balance + Yield(creditsPerSecond, now - lastTick), maxBalance * Unit)
  <2>1. (now - lastTick) * creditsPerSecond = creditsPerSecond * (now - lastTick)
    BY <1>1, LargestIs
  <2> QED
    BY <2>1 DEF Replenished, Yield
<1>4. /\ Replenished \in Nat /\ Replenished <= maxBalance * Unit
      /\ Replenished <= balance + Yield(creditsPerSecond, now - lastTick)
  BY <1>1, <1>2, <1>3 DEF Least
<1>5. ASSUME NEW from \in 0..now
      PROVE  Fits(from, SpentIn(checks, from, now), Replenished, maxBalance, creditsPerSecond, now,
                  Fresh(updates, from), Once(updates, from, now))
  <2>1. Fits(from, SpentIn(checks, from, now), balance, maxBalance, creditsPerSecond, lastTick,
             Fresh(updates, from), Once(updates, from, now))
    BY <1>1 DEF OpenInv
  <2>2. from \in Nat /\ from <= now /\ SpentIn(checks, from, now) \in Nat
    BY <1>1, AmountsTyped DEF LimiterTypeInv
  <2> QED
    BY ONLY LimiterAssumption, <1>1, <1>4, <2>1, <2>2, FitsTick
<1> QED
  BY <1>4, <1>5

(* An item that is paid from a balance b, of the last tick or of one now. *)
LEMMA PaidInv ==
  ASSUME LimiterAssumption, LimiterInv, NEW cost \in Costs, NEW ok \in BOOLEAN,
         NEW b \in Nat, NEW last \in {lastTick, now},
         balance' = IF ok THEN b - cost * Unit ELSE b, ok => b >= cost * Unit,
         b <= maxBalance * Unit, lastTick' = last,
         \A from \in 0..now :
           Fits(from, SpentIn(checks, from, now), b, maxBalance, creditsPerSecond, last,
                Fresh(updates, from), Once(updates, from, now)),
         checks' = Append(checks, [time |-> now, cost |-> cost, allowed |-> ok]),
         UNCHANGED <<creditsPerSecond, maxBalance, now, updates>>
  PROVE  LimiterInv'
<1> DEFINE item == [time |-> now, cost |-> cost, allowed |-> ok]
<1>1. /\ LimiterTypeInv /\ OverInv /\ now \in Nat /\ lastTick \in 0..now /\ last \in 0..now
      /\ lastTick <= last /\ checks \in Seq(Check) /\ item \in Check
      /\ cost \in Nat \ {0} /\ Unit \in Nat \ {0} /\ cost * Unit \in Nat
  BY DEF LimiterInv, LimiterTypeInv, LimiterAssumption, Check
<1>2. /\ checks' \in Seq(Check) /\ \A k \in DOMAIN checks' : checks'[k].time <= now
  <2>1. /\ DOMAIN checks = 1..Len(checks) /\ Len(checks) \in Nat
        /\ DOMAIN checks' = 1..Len(checks) + 1 /\ checks' \in Seq(Check)
        /\ \A k \in 1..Len(checks) : checks'[k] = checks[k]
        /\ checks'[Len(checks) + 1] = item
    BY <1>1, LenProperties, AppendProperties
  <2>2. \A k \in 1..Len(checks) : checks[k].time <= now
    BY <1>1, <2>1 DEF LimiterTypeInv
  <2>3. item.time <= now
    BY <1>1
  <2>4. \A k \in 1..Len(checks) + 1 : k \in 1..Len(checks) \/ k = Len(checks) + 1
    BY <2>1
  <2> HIDE DEF item
  <2> QED
    BY <2>1, <2>2, <2>3, <2>4
<1>3. LimiterTypeInv'
  <2>1. balance' \in Nat /\ balance' <= maxBalance * Unit /\ maxBalance * Unit \in Nat
    <3>1. maxBalance * Unit \in Nat
      BY <1>1, LargestIs DEF LimiterTypeInv
    <3>2. \A p, q, r \in Nat : q >= p /\ q <= r => q - p \in Nat /\ q - p <= r
      OBVIOUS
    <3>3. CASE ok
      <4>1. balance' = b - cost * Unit /\ b >= cost * Unit
        BY <3>3
      <4> QED
        BY ONLY <4>1, <1>1, <3>1, <3>2, b \in Nat, b <= maxBalance * Unit
    <3>4. CASE ~ ok
      BY <1>1, <3>1, <3>4
    <3> QED
      BY <3>3, <3>4
  <2>2. \A k \in DOMAIN updates : updates[k] <= last
    <3>1. \A k \in DOMAIN updates : updates[k] \in Nat /\ updates[k] <= lastTick
      BY <1>1, ElementOfSeq, LenProperties DEF LimiterTypeInv
    <3> QED
      BY <1>1, <3>1
  <2> QED
    BY <1>1, <1>2, <2>1, <2>2 DEF LimiterTypeInv
<1>4. \A from, to \in Nat :
        /\ SpentIn(checks, from, to) \in Nat
        /\ SpentIn(checks', from, to) = SpentIn(checks, from, to) + Paid(item, from, to)
  <2> HIDE DEF item
  <2>1. checks' = Append(checks, item)
    BY DEF item
  <2> TAKE from, to \in Nat
  <2>2. SpentIn(checks, from, to) \in Nat
    BY <1>1, AmountsTyped
  <2>3. SpentIn(Append(checks, item), from, to) = SpentIn(checks, from, to) + Paid(item, from, to)
    BY <1>1, SpentMore
  <2> QED
    BY <2>1, <2>2, <2>3
<1>5. ASSUME NEW from \in 0..now
      PROVE  Fits(from, SpentIn(checks', from, now), balance', maxBalance, creditsPerSecond, last,
                  Fresh(updates, from), Once(updates, from, now))
  <2> DEFINE s == SpentIn(checks, from, now)
  <2>1. /\ SpentIn(checks', from, now) = IF ok THEN s + cost ELSE s
        /\ s \in Nat
    <3>1. Paid(item, from, now) = IF ok THEN cost ELSE 0
      BY <1>1 DEF Paid
    <3>2. from \in Nat
      BY <1>1
    <3>3. /\ s \in Nat
          /\ SpentIn(checks', from, now) = s + Paid(item, from, now)
      BY <1>1, <1>4, <3>2
    <3> HIDE DEF item, s
    <3> QED
      BY <1>1, <3>1, <3>3
  <2>2. SpentIn(checks', from, now) * Unit + balance' = s * Unit + b
    <3> HIDE DEF s
    <3>1. (s + cost) * Unit = s * Unit + cost * Unit /\ s * Unit \in Nat
      BY <1>1, <2>1
    <3> QED
      BY <1>1, <2>1, <3>1
  <2>3. Fits(from, s, b, maxBalance, creditsPerSecond, last, Fresh(updates, from),
             Once(updates, from, now))
    OBVIOUS
  <2> QED
    BY <2>2, <2>3 DEF Fits
<1>6. OpenInv'
  BY <1>5 DEF OpenInv
<1>7. \A from, to \in 0..now - 1 : SpentIn(checks', from, to) = SpentIn(checks, from, to)
  <2> TAKE from, to \in 0..now - 1
  <2>1. from \in Nat /\ to \in Nat /\ ~ (now \in from..to)
    BY <1>1
  <2> QED
    <3>1. Paid(item, from, to) = 0
      BY <2>1 DEF Paid
    <3> HIDE DEF item
    <3> QED
      BY <1>4, <2>1, <3>1
<1>8. OverInv'
  BY <1>1, <1>7 DEF OverInv
<1> QED
  BY <1>3, <1>6, <1>8 DEF LimiterInv

LEMMA CheckCreditInv ==
  ASSUME LimiterAssumption, LimiterInv, NEW cost \in Costs, CheckCredit(cost)
  PROVE  LimiterInv'
<1>1. /\ balance \in Nat /\ balance <= maxBalance * Unit
      /\ \A from \in 0..now :
           Fits(from, SpentIn(checks, from, now), balance, maxBalance, creditsPerSecond, lastTick,
                Fresh(updates, from), Once(updates, from, now))
  BY DEF LimiterInv, LimiterTypeInv, OpenInv
<1>2. UNCHANGED <<creditsPerSecond, maxBalance, now, updates>>
  BY DEF CheckCredit
<1>3. CASE /\ balance >= cost * Unit /\ balance' = balance - cost * Unit
           /\ checks' = Append(checks, [time |-> now, cost |-> cost, allowed |-> TRUE])
           /\ UNCHANGED lastTick
  BY <1>1, <1>2, <1>3, PaidInv
<1>4. CASE /\ Replenished >= cost * Unit /\ balance' = Replenished - cost * Unit /\ TickNow
           /\ checks' = Append(checks, [time |-> now, cost |-> cost, allowed |-> TRUE])
  BY <1>2, <1>4, Ticked, PaidInv DEF TickNow
<1>5. CASE /\ balance' = Replenished /\ TickNow
           /\ checks' = Append(checks, [time |-> now, cost |-> cost, allowed |-> FALSE])
  BY <1>2, <1>5, Ticked, PaidInv DEF TickNow
<1> QED
  BY <1>3, <1>4, <1>5 DEF CheckCredit

LEMMA UpdateInv ==
  ASSUME LimiterAssumption, LimiterInv, NEW rate \in Rates, NEW max \in Maxima, Update(rate, max)
  PROVE  LimiterInv'
<1> DEFINE b == Replenished
           c == (b * max) \div maxBalance
<1>1. /\ updates' = Append(updates, now) /\ balance' = c /\ lastTick' = now
      /\ creditsPerSecond' = rate /\ maxBalance' = max /\ now' = now /\ checks' = checks
  BY DEF Update, TickNow
<1>2. /\ LimiterTypeInv /\ OverInv /\ now \in Nat /\ maxBalance \in Maxima
      /\ creditsPerSecond \in Rates /\ updates \in Seq(Nat) /\ checks \in Seq(Check)
      /\ b \in Nat /\ b <= maxBalance * Unit
      /\ \A from \in 0..now :
           Fits(from, SpentIn(checks, from, now), b, maxBalance, creditsPerSecond, now,
                Fresh(updates, from), Once(updates, from, now))
  BY Ticked DEF LimiterInv, LimiterTypeInv
<1>3. c \in Nat /\ c <= max * Unit
  BY <1>2, Scaled, ProRated DEF LimiterAssumption
<1> HIDE DEF b
<1>4. /\ DOMAIN updates = 1..Len(updates) /\ Len(updates) \in Nat
      /\ DOMAIN updates' = 1..Len(updates) + 1 /\ updates' \in Seq(Nat)
      /\ \A k \in 1..Len(updates) : updates'[k] = updates[k] /\ updates[k] \in Nat
      /\ updates'[Len(updates) + 1] = now
      /\ \A k \in 1..Len(updates) + 1 : k \in 1..Len(updates) \/ k = Len(updates) + 1
  BY <1>1, <1>2, LenProperties, AppendProperties, ElementOfSeq
<1>5. LimiterTypeInv'
  <2>1. \A k \in DOMAIN updates' : updates'[k] <= now
    <3>1. \A k \in 1..Len(updates) : updates[k] <= lastTick
      BY <1>2, <1>4 DEF LimiterTypeInv
    <3>2. lastTick \in 0..now
      BY <1>2 DEF LimiterTypeInv
    <3> TAKE k \in DOMAIN updates'
    <3>3. CASE k = Len(updates) + 1
      BY <1>2, <1>4, <3>3
    <3>4. CASE k # Len(updates) + 1
      <4>1. updates'[k] = updates[k] /\ updates[k] \in Nat /\ updates[k] <= lastTick
        BY <1>4, <3>1, <3>4
      <4> QED
        BY <1>2, <3>2, <4>1
    <3> QED
      BY <3>3, <3>4
  <2> HIDE DEF c
  <2> QED
    BY <1>1, <1>2, <1>3, <1>4, <2>1 DEF LimiterTypeInv
<1>6. ASSUME NEW from \in 0..now
      PROVE  Fits(from, SpentIn(checks, from, now), c, max, rate, now, Fresh(updates', from),
                  Once(updates', from, now))
  <2>1. from \in Nat /\ from <= now /\ SpentIn(checks, from, now) \in Nat
    BY <1>2, AmountsTyped
  <2>2. Once(updates', from, now) => Fresh(updates, from)
    <3> SUFFICES ASSUME Once(updates', from, now), NEW k \in DOMAIN updates, ~ (updates[k] < from)
                 PROVE  FALSE
      BY DEF Fresh
    <3>1. updates[k] \in from..now
      BY <1>2, <1>4, <2>1 DEF LimiterTypeInv
    <3>2. /\ k \in DOMAIN updates' /\ Len(updates) + 1 \in DOMAIN updates'
          /\ updates'[k] \in from..now /\ updates'[Len(updates) + 1] \in from..now
          /\ k # Len(updates) + 1
      BY <1>2, <1>4, <2>1, <3>1
    <3> QED
      BY <3>2 DEF Once
  <2>3. ~ Fresh(updates', from)
    <3>1. Len(updates) + 1 \in DOMAIN updates' /\ ~ (updates'[Len(updates) + 1] < from)
      BY <1>2, <1>4, <2>1
    <3> QED
      BY <3>1 DEF Fresh
  <2>4. Fits(from, SpentIn(checks, from, now), b, maxBalance, creditsPerSecond, now,
             Fresh(updates, from), Once(updates, from, now))
    BY <1>2
  <2>5. /\ maxBalance \in Maxima /\ creditsPerSecond \in Rates /\ now \in Nat
        /\ b \in Nat /\ b <= maxBalance * Unit
    BY <1>2
  <2> QED
    BY ONLY LimiterAssumption, max \in Maxima, <2>1, <2>2, <2>3, <2>4, <2>5, FitsUpdate
<1>7. OpenInv'
  BY <1>1, <1>6 DEF OpenInv
<1>8. OverInv'
  <2>1. ASSUME NEW from \in 0..now - 1, NEW to \in 0..now - 1, Once(updates', from, to)
        PROVE  Once(updates, from, to)
    BY <1>4, <2>1 DEF Once
  <2> QED
    BY <1>1, <1>2, <2>1 DEF OverInv
<1> QED
  BY <1>5, <1>7, <1>8 DEF LimiterInv

(* However checks, updates and time follow each other, and whatever the rates  *)
(* and maxima, CheckCredit (rate_limiter.go:69-98) grants no more in a window  *)
(* than two full balances and the yield of the window.                         *)
THEOREM CreditsBounded ==
  ASSUME LimiterAssumption
  PROVE  LimiterSpec => []WindowBound
<1>1. LimiterInv => WindowBound
  BY LimiterBound
<1>2. LimiterInit => LimiterInv
  BY InitLimiter
<1>3. LimiterInv /\ [LimiterNext]_limiterVars => LimiterInv'
  <2> SUFFICES ASSUME LimiterInv, [LimiterNext]_limiterVars PROVE LimiterInv'
    OBVIOUS
  <2>1. CASE UNCHANGED limiterVars
    <3>1. /\ OpenInv' /\ OverInv' /\ LimiterTypeInv'
      BY <2>1 DEF limiterVars, LimiterInv, LimiterTypeInv, OpenInv, OverInv
    <3> QED
      BY <3>1 DEF LimiterInv
  <2> QED
    BY <2>1, TimePassesInv, CheckCreditInv, UpdateInv DEF LimiterNext
<1> QED
  BY <1>1, <1>2, <1>3, PTL DEF LimiterSpec

-----------------------------------------------------------------------------
(* ReconnectingConn *)

USE ConnAssumption

(* A goroutine that has dialed holds a socket. *)
Dialed == \A t \in Dialers : pc[t] \in {"setBuffer", "swap"} => fresh[t] \in Conns

TypeInv == TypeOK /\ Dialed

LEMMA InitType == Init => TypeInv
<1> SUFFICES ASSUME Init PROVE TypeInv
  OBVIOUS
<1>1. pc \in [Dialers -> Labels]
  BY DEF Init, Labels
<1>2. /\ changes \in 0..MaxDnsChanges /\ faults \in 0..MaxFaults /\ writes \in 0..MaxWrites
      /\ bufferBytes \in {0, 1}
  BY DEF Init
<1>3. shutdown \in BOOLEAN
  BY DEF Init
<1>4. /\ status \in [Conns -> {"unused", "open", "closed"}]
      /\ connAddr \in [Conns -> Addrs \cup {NoAddr}] /\ connBuf \in [Conns -> {0, 1}]
      /\ addr \in [Dialers -> Addrs \cup {NoAddr}]
      /\ fresh \in [Dialers -> Conns \cup {NoConn}] /\ prev \in [Dialers -> Conns \cup {NoConn}]
      /\ using \in [Writers -> Conns \cup {NoConn}]
  BY DEF Init
<1>5. /\ dns \in Addrs /\ conn \in Conns \cup {NoConn} /\ destAddr \in Addrs \cup {NoAddr}
      /\ ownerPc \in {"construct", "setBuffer", "storeBuffer", "failed", "up", "closing", "closed"}
      /\ abandoned \subseteq Conns
  BY DEF Init
<1>6. Dialed
  BY DEF Init, Dialed
<1> QED
  BY <1>1, <1>2, <1>3, <1>4, <1>5, <1>6 DEF TypeInv, TypeOK

(* Every action leaves the variables well typed. *)
LEMMA NextType == TypeInv /\ [Next]_vars => TypeInv'
<1> SUFFICES ASSUME TypeInv, [Next]_vars PROVE TypeInv'
  OBVIOUS
<1> USE DEF TypeInv, TypeOK, Dialed, Labels, Dialers, goto, Fault, EndWell, EndError,
            dnsVars, sockVars
<1>1. CASE DnsChanges
  BY <1>1 DEF DnsChanges
<1>2. CASE Tick
  BY <1>2 DEF Tick
<1>3. CASE LoopExit
  BY <1>3 DEF LoopExit
<1>4. CASE OwnerNext
  <2>1. CASE Constructed
    BY <2>1 DEF Constructed
  <2>2. CASE SetWriteBuffer
    BY <2>2 DEF SetWriteBuffer
  <2>3. CASE StoreBuffer
    BY <2>3 DEF StoreBuffer
  <2>4. CASE CloseChan
    BY <2>4 DEF CloseChan
  <2>5. CASE CloseConn
    BY <2>5 DEF CloseConn
  <2> QED
    BY <1>4, <2>1, <2>2, <2>3, <2>4, <2>5 DEF OwnerNext
<1>5. ASSUME NEW t \in Dialers, Attempt(t) PROVE TypeInv'
  <2>1. CASE Resolve(t)
    BY <2>1 DEF Resolve
  <2>2. CASE Compare(t)
    BY <2>2 DEF Compare
  <2>3. CASE Dial(t)
    BY <2>3 DEF Dial
  <2>4. CASE SetBuffer(t)
    BY <2>4 DEF SetBuffer
  <2>5. CASE Swap(t)
    BY <2>5 DEF Swap
  <2>6. CASE ClosePrev(t)
    BY <2>6 DEF ClosePrev
  <2> QED
    BY <1>5, <2>1, <2>2, <2>3, <2>4, <2>5, <2>6 DEF Attempt
<1>6. ASSUME NEW w \in Writers, StartWrite(w) \/ EndWrite(w) \/ StartRetry(w) \/ EndRetry(w)
      PROVE  TypeInv'
  <2>1. CASE StartWrite(w)
    BY <2>1 DEF StartWrite
  <2>2. CASE EndWrite(w)
    BY <2>2 DEF EndWrite
  <2>3. CASE StartRetry(w)
    BY <2>3 DEF StartRetry
  <2>4. CASE EndRetry(w)
    BY <2>4 DEF EndRetry
  <2> QED
    BY <1>6, <2>1, <2>2, <2>3, <2>4
<1>7. CASE UNCHANGED vars
  BY <1>7 DEF vars
<1> QED
  BY <1>1, <1>2, <1>3, <1>4, <1>5, <1>6, <1>7 DEF Next

(* All variables keep values of their types: the type invariant of the         *)
(* connection's state.                                                         *)
THEOREM TypeCorrect == Spec => []TypeOK
<1>1. TypeInv => TypeOK
  BY DEF TypeInv
<1> QED
  BY <1>1, InitType, NextType, PTL DEF Spec

-----------------------------------------------------------------------------
(* The goroutines' positions tell which sockets they hold: a dialed one until  *)
(* it is swapped in, a replaced one until it is closed.                        *)
Placed ==
  \A t \in Dialers :
    /\ fresh[t] # NoConn => pc[t] \in {"setBuffer", "swap"}
    /\ pc[t] \in {"setBuffer", "swap"} =>
         fresh[t] # NoConn /\ status[fresh[t]] = "open" /\ connAddr[fresh[t]] = addr[t]
    /\ pc[t] \in {"compare", "dial", "setBuffer", "swap"} => addr[t] # NoAddr
    /\ prev[t] # NoConn => pc[t] = "closePrev"
    /\ pc[t] \in {"closePrev", "retry", "rewriting"} => conn # NoConn

(* A socket has one holder. *)
OneHolder ==
  \A s, t \in Dialers :
    /\ conn # NoConn => conn # fresh[t] /\ conn # prev[t]
    /\ fresh[s] # NoConn => fresh[s] # prev[t]
    /\ s # t /\ fresh[s] # NoConn => fresh[s] # fresh[t]
    /\ s # t /\ prev[s] # NoConn => prev[s] # prev[t]

(* A Write under way uses the current socket. *)
WritersCurrent == \A w \in Writers : using[w] # NoConn => using[w] = conn

HolderInv == TypeInv /\ Placed /\ OneHolder /\ WritersCurrent

IInv == HolderInv /\ SocketsExact

LEMMA InitInv == Init => IInv
<1> SUFFICES ASSUME Init PROVE IInv
  OBVIOUS
<1>1. TypeInv
  BY InitType
<1>2. Placed /\ OneHolder /\ WritersCurrent
  BY DEF Init, Placed, OneHolder, WritersCurrent, Dialers
<1>3. SocketsExact
  BY DEF Init, SocketsExact, CurrentConsistent, CurrentOpen, OpenSocketsHeld, Dialers
<1> QED
  BY <1>1, <1>2, <1>3 DEF IInv, HolderInv

(* One lemma for each step of an attempt. *)

LEMMA ResolveInv ==
  ASSUME IInv, TypeInv', NEW t \in Dialers, Resolve(t)
  PROVE  IInv'
<1> USE DEF IInv, HolderInv, TypeInv, TypeOK, Dialed, goto, EndWell, EndError
<1>1. Placed'
  BY DEF Resolve, Placed, OneHolder, SocketsExact, CurrentConsistent, Dialers, sockVars
<1>2. OneHolder'
  BY DEF Resolve, Placed, OneHolder, sockVars
<1>3. WritersCurrent'
  BY DEF Resolve, WritersCurrent, Dialers, sockVars
<1>4. CurrentConsistent'
  BY <1>1 DEF Resolve, Placed, SocketsExact, CurrentConsistent, Dialers, sockVars
<1>5. CurrentOpen'
  BY DEF Resolve, Placed, OneHolder, SocketsExact, CurrentOpen, sockVars
<1>6. OpenSocketsHeld'
  BY DEF Resolve, Placed, SocketsExact, OpenSocketsHeld, sockVars
<1> QED
  BY <1>1, <1>2, <1>3, <1>4, <1>5, <1>6 DEF SocketsExact

LEMMA CompareInv ==
  ASSUME IInv, TypeInv', NEW t \in Dialers, Compare(t)
  PROVE  IInv'
<1> USE DEF IInv, HolderInv, TypeInv, TypeOK, Dialed, goto, EndWell, EndError, SameAddr
<1>1. Placed'
  BY DEF Compare, Placed, OneHolder, SocketsExact, CurrentConsistent, Dialers, sockVars
<1>2. OneHolder'
  BY DEF Compare, Placed, OneHolder, sockVars
<1>3. WritersCurrent'
  BY DEF Compare, WritersCurrent, Dialers, sockVars
<1>4. CurrentConsistent'
  BY <1>1 DEF Compare, Placed, SocketsExact, CurrentConsistent, Dialers, sockVars
<1>5. CurrentOpen'
  BY DEF Compare, Placed, OneHolder, SocketsExact, CurrentOpen, sockVars
<1>6. OpenSocketsHeld'
  BY DEF Compare, Placed, SocketsExact, OpenSocketsHeld, sockVars
<1> QED
  BY <1>1, <1>2, <1>3, <1>4, <1>5, <1>6 DEF SocketsExact

LEMMA DialInv ==
  ASSUME IInv, TypeInv', NEW t \in Dialers, Dial(t)
  PROVE  IInv'
<1> USE DEF IInv, HolderInv, TypeInv, TypeOK, Dialed, goto, EndWell, EndError, Free
<1>1. Placed'
  BY DEF Dial, Placed, OneHolder, SocketsExact, CurrentConsistent, Dialers, sockVars
<1>2. OneHolder'
  BY DEF Dial, Placed, OneHolder, sockVars
<1>3. WritersCurrent'
  BY DEF Dial, WritersCurrent, Dialers, sockVars
<1>4. CurrentConsistent'
  BY <1>1 DEF Dial, Placed, SocketsExact, CurrentConsistent, Dialers, sockVars
<1>5. CurrentOpen'
  BY DEF Dial, Placed, OneHolder, SocketsExact, CurrentOpen, sockVars
<1>6. OpenSocketsHeld'
  BY DEF Dial, Placed, SocketsExact, OpenSocketsHeld, sockVars
<1> QED
  BY <1>1, <1>2, <1>3, <1>4, <1>5, <1>6 DEF SocketsExact

LEMMA SetBufferInv ==
  ASSUME IInv, TypeInv', NEW t \in Dialers, SetBuffer(t)
  PROVE  IInv'
<1> USE DEF IInv, HolderInv, TypeInv, TypeOK, Dialed, goto, EndWell, EndError
<1>1. Placed'
  BY DEF SetBuffer, Placed, OneHolder, SocketsExact, CurrentConsistent, Dialers, sockVars
<1>2. OneHolder'
  BY DEF SetBuffer, Placed, OneHolder, sockVars
<1>3. WritersCurrent'
  BY DEF SetBuffer, WritersCurrent, Dialers, sockVars
<1>4. CurrentConsistent'
  BY <1>1 DEF SetBuffer, Placed, SocketsExact, CurrentConsistent, Dialers, sockVars
<1>5. CurrentOpen'
  BY DEF SetBuffer, Placed, OneHolder, SocketsExact, CurrentOpen, sockVars
<1>6. OpenSocketsHeld'
  BY DEF SetBuffer, Placed, SocketsExact, OpenSocketsHeld, sockVars
<1> QED
  BY <1>1, <1>2, <1>3, <1>4, <1>5, <1>6 DEF SocketsExact

LEMMA SwapInv ==
  ASSUME IInv, TypeInv', NEW t \in Dialers, Swap(t)
  PROVE  IInv'
<1> USE DEF IInv, HolderInv, TypeInv, TypeOK, Dialed, goto, EndWell, EndError, NoReader
<1>1. Placed'
  BY DEF Swap, Placed, OneHolder, SocketsExact, CurrentConsistent, Dialers, sockVars
<1>2. OneHolder'
  BY DEF Swap, Placed, OneHolder, sockVars
<1>3. WritersCurrent'
  BY DEF Swap, WritersCurrent, Dialers, sockVars
<1>4. CurrentConsistent'
  BY <1>1 DEF Swap, Placed, SocketsExact, CurrentConsistent, Dialers, sockVars
<1>5. CurrentOpen'
  BY DEF Swap, Placed, OneHolder, SocketsExact, CurrentOpen, sockVars
<1>6. OpenSocketsHeld'
  BY DEF Swap, Placed, SocketsExact, OpenSocketsHeld, sockVars
<1> QED
  BY <1>1, <1>2, <1>3, <1>4, <1>5, <1>6 DEF SocketsExact

LEMMA ClosePrevInv ==
  ASSUME IInv, TypeInv', NEW t \in Dialers, ClosePrev(t)
  PROVE  IInv'
<1> USE DEF IInv, HolderInv, TypeInv, TypeOK, Dialed, goto, EndWell, EndError
<1>1. Placed'
  BY DEF ClosePrev, Placed, OneHolder, SocketsExact, CurrentConsistent, Dialers, sockVars
<1>2. OneHolder'
  BY DEF ClosePrev, Placed, OneHolder, sockVars
<1>3. WritersCurrent'
  BY DEF ClosePrev, WritersCurrent, Dialers, sockVars
<1>4. CurrentConsistent'
  BY <1>1 DEF ClosePrev, Placed, SocketsExact, CurrentConsistent, Dialers, sockVars
<1>5. CurrentOpen'
  BY DEF ClosePrev, Placed, OneHolder, SocketsExact, CurrentOpen, sockVars
<1>6. OpenSocketsHeld'
  BY DEF ClosePrev, Placed, SocketsExact, OpenSocketsHeld, sockVars
<1> QED
  BY <1>1, <1>2, <1>3, <1>4, <1>5, <1>6 DEF SocketsExact

(* The steps of a writer outside an attempt. *)
LEMMA WriterInv ==
  ASSUME IInv, TypeInv', NEW w \in Writers,
         StartWrite(w) \/ EndWrite(w) \/ StartRetry(w) \/ EndRetry(w)
  PROVE  IInv'
<1> USE DEF IInv, HolderInv, TypeInv, TypeOK, Dialed, goto, Dialers, sockVars
<1> USE DEF StartWrite, EndWrite, StartRetry, EndRetry
<1>1. UNCHANGED <<conn, destAddr, status, connAddr, addr, fresh, prev, ownerPc, abandoned>>
  OBVIOUS
<1>2. Placed'
  BY <1>1 DEF Placed
<1>3. OneHolder'
  BY <1>1 DEF OneHolder
<1>4. WritersCurrent'
  BY DEF WritersCurrent
<1>5. CurrentConsistent'
  BY <1>1, <1>2 DEF Placed, SocketsExact, CurrentConsistent
<1>6. CurrentOpen' /\ OpenSocketsHeld'
  BY <1>1 DEF SocketsExact, CurrentOpen, OpenSocketsHeld
<1> QED
  BY <1>2, <1>3, <1>4, <1>5, <1>6 DEF SocketsExact

(* The steps that move no socket: of the resolver, of the loop between two     *)
(* attempts, of the owner but for the end of Close, and no step.               *)
LEMMA QuietInv ==
  ASSUME IInv, TypeInv',
         \/ DnsChanges \/ Tick \/ LoopExit \/ Constructed \/ SetWriteBuffer
         \/ StoreBuffer \/ CloseChan \/ UNCHANGED vars
  PROVE  IInv'
<1> USE DEF IInv, HolderInv, TypeInv, TypeOK, Dialed, goto, Dialers, sockVars
<1>1. /\ UNCHANGED <<conn, destAddr, status, connAddr, addr, fresh, prev, using, abandoned>>
      /\ ownerPc = "closed" => ownerPc' = "closed"
      /\ \/ pc' = pc
         \/ /\ pc[Loop] = "idle"
            /\ \E l \in {"resolve", "exited"} : pc' = [pc EXCEPT ![Loop] = l]
  BY DEF DnsChanges, Tick, LoopExit, Constructed, SetWriteBuffer, StoreBuffer, CloseChan, vars
<1>2. Placed'
  BY <1>1 DEF Placed
<1>3. OneHolder' /\ WritersCurrent'
  BY <1>1 DEF OneHolder, WritersCurrent
<1>4. CurrentConsistent'
  BY <1>1, <1>2 DEF Placed, SocketsExact, CurrentConsistent
<1>5. CurrentOpen' /\ OpenSocketsHeld'
  BY <1>1 DEF SocketsExact, CurrentOpen, OpenSocketsHeld
<1> QED
  BY <1>2, <1>3, <1>4, <1>5 DEF SocketsExact

(* Close closes the current socket, which nobody else holds. *)
LEMMA CloseConnInv ==
  ASSUME IInv, TypeInv', CloseConn
  PROVE  IInv'
<1> USE DEF IInv, HolderInv, TypeInv, TypeOK, Dialed, CloseConn, Dialers
<1>1. Placed'
  BY DEF Placed, OneHolder
<1>2. OneHolder' /\ WritersCurrent'
  BY DEF OneHolder, WritersCurrent
<1>3. CurrentConsistent' /\ CurrentOpen' /\ OpenSocketsHeld'
  BY DEF SocketsExact, CurrentConsistent, CurrentOpen, OpenSocketsHeld
<1> QED
  BY <1>1, <1>2, <1>3 DEF SocketsExact

LEMMA NextInv == IInv /\ [Next]_vars => IInv'
<1> SUFFICES ASSUME IInv, [Next]_vars PROVE IInv'
  OBVIOUS
<1>1. TypeInv'
  BY NextType DEF IInv, HolderInv
<1>2. ASSUME NEW t \in Dialers, Attempt(t) PROVE IInv'
  BY <1>1, <1>2, ResolveInv, CompareInv, DialInv, SetBufferInv, SwapInv, ClosePrevInv
     DEF Attempt
<1>3. ASSUME NEW w \in Writers, StartWrite(w) \/ EndWrite(w) \/ StartRetry(w) \/ EndRetry(w)
      PROVE  IInv'
  BY <1>1, <1>3, WriterInv
<1>4. CASE OwnerNext
  BY <1>1, <1>4, QuietInv, CloseConnInv DEF OwnerNext
<1> QED
  BY <1>1, <1>2, <1>3, <1>4, QuietInv DEF Next

LEMMA Invariance == Spec => []IInv
BY InitInv, NextInv, PTL DEF Spec

(* However attempts of the loop and of writers overlap, the current socket is  *)
(* open until Close and belongs to the recorded address, a writer that retries *)
(* finds one, and every other open socket is still in some goroutine's hands   *)
(* or was given up with its error.                                             *)
THEOREM SocketsAccounted == Spec => []SocketsExact
<1>1. IInv => SocketsExact
  BY DEF IInv
<1> QED
  BY <1>1, Invariance, PTL

(* A step closes a socket only when no Write has begun on it: the write lock   *)
(* of a swap and of Close keeps writers on the current socket, and what is     *)
(* closed after a swap is not current any more.                                *)
LEMMA StepSparesWrites ==
  ASSUME IInv, [Next]_vars, NEW w \in Writers, using[w] # NoConn, status[using[w]] = "open"
  PROVE  status'[using[w]] = "open"
<1> USE DEF IInv, HolderInv, TypeInv, TypeOK
<1>1. using[w] = conn /\ conn \in Conns
  BY DEF WritersCurrent
<1>2. ASSUME NEW t \in Dialers, Dial(t) PROVE status'[conn] = "open"
  BY <1>1, <1>2 DEF Dial, Free, sockVars
<1>3. ASSUME NEW t \in Dialers, ClosePrev(t) PROVE status'[conn] = "open"
  BY <1>1, <1>3 DEF ClosePrev, OneHolder
<1>4. ~CloseConn
  BY DEF CloseConn, NoReader
<1>5. CASE \E t \in Dialers : Attempt(t)
  BY <1>1, <1>2, <1>3, <1>5 DEF Attempt, Resolve, Compare, SetBuffer, Swap, sockVars
<1>6. CASE \E v \in Writers : StartWrite(v) \/ EndWrite(v) \/ StartRetry(v) \/ EndRetry(v)
  BY <1>1, <1>6 DEF StartWrite, EndWrite, StartRetry, EndRetry, sockVars
<1>7. CASE DnsChanges \/ Tick \/ LoopExit \/ OwnerNext \/ UNCHANGED vars
  BY <1>1, <1>4, <1>7 DEF DnsChanges, Tick, LoopExit, OwnerNext, Constructed, SetWriteBuffer,
     StoreBuffer, CloseChan, sockVars, vars
<1> QED
  BY <1>1, <1>5, <1>6, <1>7 DEF Next

THEOREM WritesUndisturbed == Spec => NoCloseUnderWrite
<1>1. IInv /\ [Next]_vars =>
        [\A w \in Writers : using[w] # NoConn /\ status[using[w]] = "open"
                              => status'[using[w]] = "open"]_vars
  BY StepSparesWrites
<1> QED
  BY <1>1, Invariance, PTL DEF Spec, NoCloseUnderWrite

=============================================================================
