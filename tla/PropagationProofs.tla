--------------------------- MODULE PropagationProofs ---------------------------
(***************************************************************************)
(* Theorems about span contexts through a trace, for any base and width of *)
(* the IDs, any keys and values, any limits of the binary format, any      *)
(* number of spans and of contexts kept, and any tracers:                  *)
(*  - the propagators: what is injected in any format is extracted again;  *)
(*  - the trace: its spans form a tree, whoever passed what to whom;       *)
(*  - the baggage: what is set on one span reaches nothing else.           *)
(* What a recursive function computes for every input is proved with the   *)
(* least number for which it would not.                                    *)
(***************************************************************************)
EXTENDS Propagation, SequenceTheorems, FiniteSetTheorems, WellFoundedInduction, TLAPS

(* Numbers: induction, as the least element of a set, and division. *)

LEMMA LeastNumber ==
  ASSUME NEW S \in SUBSET Nat, S # {}
  PROVE  \E n \in S : \A m \in S : n <= m
<1> DEFINE R == {pair \in Nat \X Nat : pair[1] < pair[2]}
<1>1. IsWellFoundedOn(R, Nat)
  BY NatLessThanWellFounded DEF OpToRel
<1>2. \A m, n \in S : m < n => <<m, n>> \in R
  OBVIOUS
<1> HIDE DEF R
<1>3. PICK n \in S : \A m \in S : ~ (<<m, n>> \in R)
  BY <1>1, WFMin
<1>4. \A m \in S : ~ (m < n)
  BY <1>2, <1>3
<1> QED
  BY <1>4

LEMMA Induction ==
  ASSUME NEW S, 0 \in S, \A n \in Nat : n \in S => n + 1 \in S
  PROVE  Nat \subseteq S
<1> SUFFICES ASSUME Nat \ S # {} PROVE FALSE
  OBVIOUS
<1>1. PICK n \in Nat \ S : \A m \in Nat \ S : n <= m
  BY LeastNumber
<1>2. n # 0 /\ n - 1 \in Nat /\ n - 1 \in S
  BY <1>1
<1> QED
  BY <1>1, <1>2

LEMMA Quotient ==
  ASSUME NEW d \in Nat, NEW n \in Nat \ {0}
  PROVE  d = n * (d \div n) + (d % n) /\ d \div n \in Nat /\ (d % n) \in 0..n - 1
OBVIOUS

(* A quotient of a number below p * n is below p. *)
LEMMA QuotientBelow ==
  ASSUME NEW d \in Nat, NEW n \in Nat \ {0}, NEW p \in Nat, d < p * n
  PROVE  d \div n < p
<1> DEFINE q == d \div n
<1>1. d = n * q + (d % n) /\ q \in Nat /\ (d % n) \in 0..n - 1
  BY Quotient
<1> HIDE DEF q
<1>2. n * q < p * n /\ n * q \in Nat /\ p * n \in Nat
  BY <1>1
<1>3. ASSUME q >= p PROVE FALSE
  <2>1. PICK e \in Nat : q = p + e
    <3>1. q - p \in Nat /\ q = p + (q - p)
      BY <1>1, <1>3
    <3> QED
      BY <3>1
  <2>2. n * q = p * n + n * e /\ n * e \in Nat
    BY <2>1
  <2> QED
    BY <1>2, <2>2
<1>4. q < p
  BY <1>1, <1>3
<1> QED
  BY <1>4 DEF q

-----------------------------------------------------------------------------
(* IDs as text *)

IsPower(power, n) == power = [k \in 0..n |-> IF k = 0 THEN 1 ELSE power[k - 1] * Base]

LEMMA PowerExists == \A n \in Nat : \E power : IsPower(power, n)
<1> DEFINE S == {n \in Nat : \E power : IsPower(power, n)}
<1>1. 0 \in S
  <2>1. IsPower([k \in 0..0 |-> 1], 0)
    BY DEF IsPower
  <2> QED
    BY <2>1
<1>2. ASSUME NEW n \in Nat, n \in S PROVE n + 1 \in S
  <2>1. PICK power : IsPower(power, n)
    BY <1>2
  <2> DEFINE more == [k \in 0..n + 1 |-> IF k = n + 1 THEN power[n] * Base ELSE power[k]]
  <2>2. \A k \in 0..n + 1 : more[k] = IF k = 0 THEN 1 ELSE more[k - 1] * Base
    <3> TAKE k \in 0..n + 1
    <3>1. CASE k = n + 1
      BY <3>1
    <3>2. CASE k # n + 1
      <4>1. k \in 0..n /\ (k # 0 => k - 1 \in 0..n /\ k - 1 # n + 1)
        BY <3>2
      <4>2. power[k] = IF k = 0 THEN 1 ELSE power[k - 1] * Base
        BY <2>1, <4>1 DEF IsPower
      <4> QED
        BY <4>1, <4>2
    <3> QED
      BY <3>1, <3>2
  <2>3. IsPower(more, n + 1)
    BY <2>2 DEF IsPower
  <2> QED
    BY <2>3
<1> HIDE DEF S
<1>3. Nat \subseteq S
  BY <1>1, <1>2, Induction
<1> QED
  BY <1>3 DEF S

(* The number of IDs, and how it comes about. *)
LEMMA IDsAre ==
  \E power : /\ power[0] = 1 /\ \A k \in 0..Width : power[k] \in Nat
             /\ \A k \in 0..Width - 1 : power[k + 1] = power[k] * Base
             /\ IDs = 0..power[Width] - 1
<1>1. \E power : IsPower(power, Width)
  BY PowerExists, CodecAssumption
<1>2. PICK power : IsPower(power, Width) /\ IDs = 0..power[Width] - 1
  BY <1>1 DEF IDs, IsPower
<1>3. /\ power[0] = 1 /\ \A k \in 0..Width - 1 : power[k + 1] = power[k] * Base
  <2>1. Width \in Nat
    BY CodecAssumption
  <2>2. ASSUME NEW k \in 0..Width - 1 PROVE power[k + 1] = power[k] * Base
    <3>1. k + 1 \in 0..Width /\ k + 1 # 0 /\ (k + 1) - 1 = k
      BY <2>1
    <3> QED
      BY <1>2, <3>1 DEF IsPower
  <2> QED
    BY <1>2, <2>1, <2>2 DEF IsPower
<1> DEFINE S == {k \in Nat : k <= Width => power[k] \in Nat}
<1>4. 0 \in S
  BY <1>3
<1>5. ASSUME NEW k \in Nat, k \in S PROVE k + 1 \in S
  BY <1>3, <1>5, CodecAssumption
<1> HIDE DEF S
<1>6. Nat \subseteq S
  BY <1>4, <1>5, Induction
<1> QED
  <2>1. Width \in Nat
    BY CodecAssumption
  <2>2. \A k \in 0..Width : power[k] \in Nat
    BY <1>6, <2>1 DEF S
  <2> QED
    BY <1>2, <1>3, <2>2

(* What is left of n before each of its digits, from the last to the first. *)
IsLeft(left, n) == left = [i \in 0..Width |-> IF i = Width THEN n ELSE left[i + 1] \div Base]

LEMMA LeftExists == \A n : \E left : IsLeft(left, n)
<1> TAKE n
<1>0. Width \in Nat
  BY CodecAssumption
<1> DEFINE
     IsTail(left, m) ==
       left = [i \in Width - m..Width |-> IF i = Width THEN n ELSE left[i + 1] \div Base]
     S == {m \in Nat : m <= Width => \E left : IsTail(left, m)}
<1>1. 0 \in S
  <2>1. IsTail([i \in Width..Width |-> n], 0)
    BY <1>0
  <2> QED
    BY <2>1
<1>2. ASSUME NEW m \in Nat, m \in S PROVE m + 1 \in S
  <2> SUFFICES ASSUME m + 1 <= Width PROVE \E left : IsTail(left, m + 1)
    OBVIOUS
  <2>1. PICK left : IsTail(left, m)
    BY <1>0, <1>2
  <2> DEFINE at == Width - (m + 1)
             more == [i \in at..Width |-> IF i = at THEN left[i + 1] \div Base ELSE left[i]]
  <2>2. \A i \in at..Width : more[i] = IF i = Width THEN n ELSE more[i + 1] \div Base
    <3> TAKE i \in at..Width
    <3>1. CASE i = at
      <4>1. i # Width /\ i + 1 \in at..Width /\ i + 1 # at
        BY <1>0, <3>1
      <4> QED
        BY <3>1, <4>1
    <3>2. CASE i # at
      <4>1. i \in Width - m..Width /\ (i # Width => i + 1 \in at..Width /\ i + 1 # at)
        BY <1>0, <3>2
      <4>2. left[i] = IF i = Width THEN n ELSE left[i + 1] \div Base
        BY <2>1, <4>1
      <4> QED
        BY <3>2, <4>1, <4>2
    <3> QED
      BY <3>1, <3>2
  <2>3. IsTail(more, m + 1)
    BY <2>2
  <2> QED
    BY <2>3
<1> HIDE DEF S
<1>3. Nat \subseteq S
  BY <1>1, <1>2, Induction
<1>4. PICK left : IsTail(left, Width)
  BY <1>0, <1>3 DEF S
<1>5. IsLeft(left, n)
  BY <1>0, <1>4 DEF IsLeft
<1> QED
  BY <1>5

LEMMA PaddedIs ==
  ASSUME NEW n
  PROVE  \E left : IsLeft(left, n) /\ Padded(n) = [i \in 1..Width |-> left[i] % Base]
<1>1. \E left : IsLeft(left, n)
  BY LeftExists
<1> QED
  BY <1>1 DEF Padded, IsLeft

IsValue(value, digits, base, n) ==
  value = [k \in 0..n |-> IF k = 0 THEN 0 ELSE value[k - 1] * base + digits[k]]

LEMMA ValueExists ==
  ASSUME NEW digits, NEW base
  PROVE  \A n \in Nat : \E value : IsValue(value, digits, base, n)
<1> DEFINE S == {n \in Nat : \E value : IsValue(value, digits, base, n)}
<1>1. 0 \in S
  <2>1. IsValue([k \in 0..0 |-> 0], digits, base, 0)
    BY DEF IsValue
  <2> QED
    BY <2>1
<1>2. ASSUME NEW n \in Nat, n \in S PROVE n + 1 \in S
  <2>1. PICK value : IsValue(value, digits, base, n)
    BY <1>2
  <2> DEFINE more == [k \in 0..n + 1 |->
                       IF k = n + 1 THEN value[n] * base + digits[n + 1] ELSE value[k]]
  <2>2. \A k \in 0..n + 1 : more[k] = IF k = 0 THEN 0 ELSE more[k - 1] * base + digits[k]
    <3> TAKE k \in 0..n + 1
    <3>1. CASE k = n + 1
      BY <3>1
    <3>2. CASE k # n + 1
      <4>1. k \in 0..n /\ (k # 0 => k - 1 \in 0..n /\ k - 1 # n + 1)
        BY <3>2
      <4>2. value[k] = IF k = 0 THEN 0 ELSE value[k - 1] * base + digits[k]
        BY <2>1, <4>1 DEF IsValue
      <4> QED
        BY <4>1, <4>2
    <3> QED
      BY <3>1, <3>2
  <2>3. IsValue(more, digits, base, n + 1)
    BY <2>2 DEF IsValue
  <2> QED
    BY <2>3
<1> HIDE DEF S
<1>3. Nat \subseteq S
  BY <1>1, <1>2, Induction
<1> QED
  BY <1>3 DEF S

LEMMA ValueIs ==
  ASSUME NEW digits, NEW base, Len(digits) \in Nat
  PROVE  \E value : /\ IsValue(value, digits, base, Len(digits))
                    /\ Value(digits, base) = value[Len(digits)]
<1>1. \E value : IsValue(value, digits, base, Len(digits))
  BY ValueExists
<1> QED
  BY <1>1 DEF Value, IsValue

(* %016x, and reading it back. *)
LEMMA DigitsExact ==
  ASSUME NEW n \in IDs
  PROVE  /\ Padded(n) \in Seq(0..Base - 1) /\ Len(Padded(n)) = Width
         /\ Value(Padded(n), Base) = n
<1> DEFINE digits == Padded(n)
<1>0. Width \in Nat \ {0} /\ Base \in Nat \ {0}
  BY CodecAssumption
<1>1. PICK power : /\ power[0] = 1 /\ \A k \in 0..Width : power[k] \in Nat
                   /\ \A k \in 0..Width - 1 : power[k + 1] = power[k] * Base
                   /\ IDs = 0..power[Width] - 1
  BY IDsAre
<1>2. PICK left : IsLeft(left, n) /\ digits = [i \in 1..Width |-> left[i] % Base]
  BY PaddedIs
<1>3. /\ left[Width] = n
      /\ \A i \in 0..Width - 1 : left[i] = left[i + 1] \div Base
  BY <1>0, <1>2 DEF IsLeft
<1> DEFINE S == {m \in Nat : m <= Width => /\ left[Width - m] \in Nat
                                           /\ left[Width - m] < power[Width - m]}
<1>4. 0 \in S
  BY <1>0, <1>1, <1>3
<1>5. ASSUME NEW m \in Nat, m \in S PROVE m + 1 \in S
  <2> SUFFICES ASSUME m + 1 <= Width
               PROVE  /\ left[Width - (m + 1)] \in Nat
                      /\ left[Width - (m + 1)] < power[Width - (m + 1)]
    OBVIOUS
  <2> DEFINE at == Width - (m + 1)
  <2>1. at \in 0..Width - 1 /\ at + 1 = Width - m /\ at \in 0..Width /\ m <= Width
    BY <1>0
  <2>2. left[at + 1] \in Nat /\ left[at + 1] < power[at] * Base /\ power[at] \in Nat
    BY <1>1, <1>5, <2>1
  <2>3. left[at] = left[at + 1] \div Base
    BY <1>3, <2>1
  <2> HIDE DEF at
  <2>4. left[at] \in Nat /\ left[at] < power[at]
    BY <1>0, <2>2, <2>3, Quotient, QuotientBelow
  <2> QED
    BY <2>4 DEF at
<1> HIDE DEF S
<1>6. Nat \subseteq S
  BY <1>4, <1>5, Induction
<1>7. \A i \in 0..Width : left[i] \in Nat /\ left[i] < power[i]
  <2> TAKE i \in 0..Width
  <2>1. Width - i \in Nat /\ Width - i <= Width /\ Width - (Width - i) = i
    BY <1>0
  <2> QED
    BY <1>6, <2>1 DEF S
<1>8. left[0] = 0
  BY <1>0, <1>1, <1>7
<1>9. \A i \in 1..Width : digits[i] \in 0..Base - 1 /\ left[i] = left[i - 1] * Base + digits[i]
  <2> TAKE i \in 1..Width
  <2>1. i - 1 \in 0..Width - 1 /\ (i - 1) + 1 = i /\ i \in 0..Width /\ i - 1 \in 0..Width
    BY <1>0
  <2>2. left[i - 1] = left[i] \div Base /\ left[i] \in Nat /\ left[i - 1] \in Nat
    BY <1>3, <1>7, <2>1
  <2>3. /\ left[i] = Base * (left[i] \div Base) + (left[i] % Base)
        /\ (left[i] % Base) \in 0..Base - 1
    BY <1>0, <2>2, Quotient
  <2>4. Base * left[i - 1] = left[i - 1] * Base
    BY <1>0, <2>2
  <2> QED
    BY <1>2, <2>2, <2>3, <2>4
<1>10. digits \in Seq(0..Base - 1) /\ Len(digits) = Width
  <2>1. digits \in [1..Width -> 0..Base - 1]
    BY <1>2, <1>9
  <2> HIDE DEF digits
  <2> QED
    BY <1>0, <2>1, LenProperties, SeqDef
<1>11. PICK value : IsValue(value, digits, Base, Width) /\ Value(digits, Base) = value[Width]
  <2>1. PICK value : /\ IsValue(value, digits, Base, Len(digits))
                     /\ Value(digits, Base) = value[Len(digits)]
    BY <1>0, <1>10, ValueIs
  <2> QED
    BY <1>10, <2>1
<1> DEFINE T == {k \in Nat : k <= Width => value[k] = left[k]}
<1>12. 0 \in T
  BY <1>0, <1>8, <1>11 DEF IsValue
<1>13. ASSUME NEW k \in Nat, k \in T PROVE k + 1 \in T
  <2> SUFFICES ASSUME k + 1 <= Width PROVE value[k + 1] = left[k + 1]
    OBVIOUS
  <2>1. k + 1 \in 1..Width /\ k + 1 \in 0..Width /\ k + 1 # 0 /\ (k + 1) - 1 = k /\ k <= Width
    BY <1>0
  <2>2. value[k + 1] = value[k] * Base + digits[k + 1]
    BY <1>11, <2>1 DEF IsValue
  <2> QED
    BY <1>9, <1>13, <2>1, <2>2
<1> HIDE DEF T
<1>14. Nat \subseteq T
  BY <1>12, <1>13, Induction
<1>15. value[Width] = n
  BY <1>0, <1>3, <1>14 DEF T
<1> QED
  BY <1>10, <1>11, <1>15

(* A sequence of two parts. *)
LEMMA PartsOf ==
  ASSUME NEW S, NEW a \in Seq(S), NEW b \in Seq(S)
  PROVE  /\ a \o b \in Seq(S) /\ Len(a \o b) = Len(a) + Len(b)
         /\ \A i \in 1..Len(a) : (a \o b)[i] = a[i]
         /\ \A i \in 1..Len(b) : (a \o b)[Len(a) + i] = b[i]
         /\ SubSeq(a \o b, 1, Len(a)) = a
         /\ SubSeq(a \o b, Len(a) + 1, Len(a) + Len(b)) = b
<1> DEFINE w == a \o b
           m == Len(a)
           n == Len(b)
<1>1. m \in Nat /\ n \in Nat
  BY LenProperties
<1>2. /\ w \in Seq(S) /\ Len(w) = m + n
      /\ \A i \in 1..m + n : w[i] = IF i <= m THEN a[i] ELSE b[i - m]
  BY ConcatProperties
<1> HIDE DEF w
<1>3. /\ \A i \in 1..m : w[i] = a[i]
      /\ \A i \in 1..n : w[m + i] = b[i]
      /\ \A i \in 1..m + n : w[i] \in S
  <2>1. \A i \in 1..m + n : w[i] \in S
    BY <1>2, ElementOfSeq
  <2>2. ASSUME NEW i \in 1..m PROVE w[i] = a[i]
    BY <1>1, <1>2
  <2>3. ASSUME NEW i \in 1..n PROVE w[m + i] = b[i]
    <3>1. m + i \in 1..m + n /\ ~ (m + i <= m) /\ (m + i) - m = i
      BY <1>1
    <3> QED
      BY <1>2, <3>1
  <2> QED
    BY <2>1, <2>2, <2>3
<1>4. SubSeq(w, 1, m) = a
  <2>1. \A i \in 1..m : w[i] \in S
    BY <1>1, <1>3
  <2>2. /\ SubSeq(w, 1, m) \in Seq(S)
        /\ Len(SubSeq(w, 1, m)) = IF 1 <= m THEN m - 1 + 1 ELSE 0
        /\ \A i \in 1..m - 1 + 1 : SubSeq(w, 1, m)[i] = w[1 + i - 1]
    BY <1>1, <2>1, SubSeqProperties
  <2>3. Len(SubSeq(w, 1, m)) = m /\ \A i \in 1..m : SubSeq(w, 1, m)[i] = a[i]
    BY <1>1, <1>3, <2>2
  <2> QED
    BY <2>2, <2>3, SeqEqual
<1>5. SubSeq(w, m + 1, m + n) = b
  <2>1. \A i \in m + 1..m + n : w[i] \in S
    BY <1>1, <1>3
  <2>2. /\ SubSeq(w, m + 1, m + n) \in Seq(S)
        /\ Len(SubSeq(w, m + 1, m + n)) = IF m + 1 <= m + n THEN m + n - (m + 1) + 1 ELSE 0
        /\ \A i \in 1..m + n - (m + 1) + 1 : SubSeq(w, m + 1, m + n)[i] = w[m + 1 + i - 1]
    BY <1>1, <2>1, SubSeqProperties
  <2>3. Len(SubSeq(w, m + 1, m + n)) = n /\ \A i \in 1..n : SubSeq(w, m + 1, m + n)[i] = b[i]
    <3>1. m + n - (m + 1) + 1 = n /\ (m + 1 <= m + n <=> n # 0)
      BY <1>1
    <3>2. \A i \in 1..n : m + 1 + i - 1 = m + i
      BY <1>1
    <3> QED
      BY <1>3, <2>2, <3>1, <3>2
  <2> QED
    BY <2>2, <2>3, SeqEqual
<1> QED
  BY <1>2, <1>3, <1>4, <1>5 DEF w

LEMMA TraceIDExact ==
  ASSUME NEW c, c.hi \in IDs, c.lo \in IDs
  PROVE  /\ IsTraceID(TraceIDString(c)) /\ TraceIDString(c) # << >>
         /\ HighOf(TraceIDString(c)) = c.hi /\ LowOf(TraceIDString(c)) = c.lo
<1> DEFINE D == 0..Base - 1
           hi == Padded(c.hi)
           lo == Padded(c.lo)
           s  == TraceIDString(c)
<1>0. Width \in Nat \ {0} /\ Base \in Nat \ {0}
  BY CodecAssumption
<1>1. /\ hi \in Seq(D) /\ Len(hi) = Width /\ Value(hi, Base) = c.hi
      /\ lo \in Seq(D) /\ Len(lo) = Width /\ Value(lo, Base) = c.lo
  BY DigitsExact
<1>2. s = IF c.hi = 0 THEN lo ELSE hi \o lo
  BY DEF TraceIDString
<1>3. /\ hi \o lo \in Seq(D) /\ Len(hi \o lo) = Width + Width
      /\ SubSeq(hi \o lo, 1, Width) = hi /\ SubSeq(hi \o lo, Width + 1, Width + Width) = lo
  <2> HIDE DEF D, hi, lo
  <2>1. /\ hi \o lo \in Seq(D) /\ Len(hi \o lo) = Len(hi) + Len(lo)
        /\ SubSeq(hi \o lo, 1, Len(hi)) = hi
        /\ SubSeq(hi \o lo, Len(hi) + 1, Len(hi) + Len(lo)) = lo
    <3>1. hi \in Seq(D) /\ lo \in Seq(D)
      BY <1>1
    <3> QED
      BY ONLY <3>1, PartsOf
  <2> QED
    BY <1>1, <2>1
<1>4. s \in Seq(D) /\ Len(s) = (IF c.hi = 0 THEN Width ELSE Width + Width)
  BY <1>1, <1>2, <1>3
<1> HIDE DEF s, hi, lo
<1>5. IsTraceID(s) /\ s # << >>
  <2>1. Len(s) <= 2 * Width /\ Len(s) # 0 /\ \A i \in DOMAIN s : s[i] \in D
    BY <1>0, <1>4, ElementOfSeq, LenProperties
  <2>2. s # << >>
    BY <1>4, <2>1, EmptySeq
  <2> QED
    BY <2>1, <2>2 DEF IsTraceID, IsNumber
<1>6. CASE c.hi = 0
  <2>1. s = lo /\ Len(s) = Width /\ ~ (Len(s) > Width)
    BY <1>0, <1>2, <1>4, <1>6
  <2> QED
    BY <1>1, <1>5, <1>6, <2>1 DEF HighOf, LowOf, s
<1>7. CASE c.hi # 0
  <2>1. s = hi \o lo /\ Len(s) = Width + Width /\ Len(s) > Width
    BY <1>0, <1>2, <1>4, <1>7
  <2>2. Len(s) - Width = Width /\ Len(s) - Width + 1 = Width + 1
    BY <1>0, <2>1
  <2>3. HighOf(s) = Value(hi, Base)
    BY <1>3, <2>1, <2>2 DEF HighOf
  <2>4. LowOf(s) = Value(lo, Base)
    BY <1>3, <2>1, <2>2 DEF LowOf
  <2> QED
    BY <1>1, <1>5, <2>3, <2>4 DEF s
<1> QED
  BY <1>6, <1>7

LEMMA SpanIDExact ==
  ASSUME NEW n \in IDs
  PROVE  /\ IsSpanID(Padded(n)) /\ IsNumber(Padded(n), Base) /\ Padded(n) # << >>
         /\ Value(Padded(n), Base) = n
<1>1. /\ Padded(n) \in Seq(0..Base - 1) /\ Len(Padded(n)) = Width /\ Value(Padded(n), Base) = n
      /\ Width \in Nat \ {0}
  BY DigitsExact, CodecAssumption
<1>2. \A i \in DOMAIN Padded(n) : Padded(n)[i] \in 0..Base - 1
  BY <1>1, ElementOfSeq, LenProperties
<1>3. Padded(n) # << >> /\ Len(Padded(n)) <= Width
  BY <1>1, EmptySeq
<1> QED
  BY <1>1, <1>2, <1>3 DEF IsSpanID, IsNumber

(* A hexadecimal digit read as a decimal number. *)
LEMMA HexExact ==
  ASSUME NEW f \in Flags
  PROVE  /\ IsNumber(Hex(f), 10) <=> f \notin {10, 11}
         /\ Value(Hex(f), 10) = f
         /\ IsDebug(f) /\ IsFirehose(f) <=> f \in {10, 11}
<1>1. Hex(f) = <<f>> /\ f \in 0..11
  BY DEF Hex, Flags
<1>2. PICK value : IsValue(value, <<f>>, 10, 1) /\ Value(<<f>>, 10) = value[1]
  <2>1. Len(<<f>>) = 1 /\ Len(<<f>>) \in Nat
    OBVIOUS
  <2>2. \E value : IsValue(value, <<f>>, 10, Len(<<f>>)) /\ Value(<<f>>, 10) = value[Len(<<f>>)]
    BY <2>1, ValueIs
  <2> QED
    BY <2>1, <2>2
<1>3. value[1] = f
  <2>1. value[0] = 0 /\ value[1] = value[0] * 10 + <<f>>[1]
    BY <1>2 DEF IsValue
  <2> QED
    BY <1>1, <2>1
<1>4. IsNumber(<<f>>, 10) <=> f \in 0..9
  BY <1>1 DEF IsNumber
<1>5. IsDebug(f) /\ IsFirehose(f) <=> f \in {10, 11}
  BY DEF IsDebug, IsFirehose, Flags
<1> QED
  BY <1>1, <1>2, <1>3, <1>4, <1>5 DEF Flags

LEMMA ContextStringExact ==
  ASSUME NEW c, c.hi \in IDs, c.lo \in IDs, c.span \in IDs, c.parent \in IDs,
         NEW f \in Flags, f = IF c.flags = NoFlags THEN 0 ELSE c.flags
  PROVE  ContextFromString(ContextString(c)) =
           IF f \in {10, 11} THEN Failure
           ELSE [hi |-> c.hi, lo |-> c.lo, span |-> c.span, parent |-> c.parent, flags |-> f,
                 baggage |-> Empty, debugID |-> FALSE]
<1> DEFINE parts == <<TraceIDString(c), Padded(c.span), Padded(c.parent), Hex(f)>>
<1>1. ContextString(c) = parts
  BY DEF ContextString
<1>2. /\ Len(parts) = 4 /\ parts[1] = TraceIDString(c) /\ parts[2] = Padded(c.span)
      /\ parts[3] = Padded(c.parent) /\ parts[4] = Hex(f)
  OBVIOUS
<1>3. /\ IsTraceID(parts[1]) /\ HighOf(parts[1]) = c.hi /\ LowOf(parts[1]) = c.lo
      /\ IsSpanID(parts[2]) /\ Value(parts[2], Base) = c.span
      /\ IsSpanID(parts[3]) /\ Value(parts[3], Base) = c.parent
  BY <1>2, TraceIDExact, SpanIDExact
<1>4. /\ IsNumber(parts[4], 10) <=> f \notin {10, 11}
      /\ Value(parts[4], 10) = f /\ f < 256
  BY <1>2, HexExact DEF Flags
<1> HIDE DEF parts
<1> QED
  BY <1>1, <1>2, <1>3, <1>4 DEF ContextFromString

-----------------------------------------------------------------------------
(* Text: what is escaped is decoded again *)

Chunk(character) == IF character = "%" THEN <<"%", "2", "5">> ELSE <<character>>

IsEscaping(escaped, v, n) ==
  escaped = [k \in 0..n |-> IF k = 0 THEN << >> ELSE escaped[k - 1] \o Chunk(v[k])]

LEMMA EscapingExists ==
  ASSUME NEW v
  PROVE  \A n \in Nat : \E escaped : IsEscaping(escaped, v, n)
<1> DEFINE S == {n \in Nat : \E escaped : IsEscaping(escaped, v, n)}
<1>1. 0 \in S
  <2>1. IsEscaping([k \in 0..0 |-> << >>], v, 0)
    BY DEF IsEscaping
  <2> QED
    BY <2>1
<1>2. ASSUME NEW n \in Nat, n \in S PROVE n + 1 \in S
  <2>1. PICK escaped : IsEscaping(escaped, v, n)
    BY <1>2
  <2> DEFINE more == [k \in 0..n + 1 |->
                       IF k = n + 1 THEN escaped[n] \o Chunk(v[n + 1]) ELSE escaped[k]]
  <2>2. \A k \in 0..n + 1 : more[k] = IF k = 0 THEN << >> ELSE more[k - 1] \o Chunk(v[k])
    <3> TAKE k \in 0..n + 1
    <3>1. CASE k = n + 1
      <4>1. more[k] = escaped[n] \o Chunk(v[n + 1]) /\ more[n] = escaped[n] /\ k # 0 /\ k - 1 = n
        BY <3>1
      <4> QED
        BY <3>1, <4>1
    <3>2. CASE k # n + 1
      <4>1. k \in 0..n /\ (k # 0 => k - 1 \in 0..n /\ k - 1 # n + 1)
        BY <3>2
      <4>2. escaped[k] = IF k = 0 THEN << >> ELSE escaped[k - 1] \o Chunk(v[k])
        BY <2>1, <4>1 DEF IsEscaping
      <4> QED
        BY <4>1, <4>2
    <3> QED
      BY <3>1, <3>2
  <2>3. IsEscaping(more, v, n + 1)
    BY <2>2 DEF IsEscaping
  <2> QED
    BY <2>3
<1> HIDE DEF S
<1>3. Nat \subseteq S
  BY <1>1, <1>2, Induction
<1> QED
  BY <1>3 DEF S

Belongs(w, k) == (k > 1 /\ w[k - 1] = "%") \/ (k > 2 /\ w[k - 2] = "%")

IsDecoding(decoded, w, n) ==
  decoded = [k \in 0..n |->
              IF k = 0 THEN << >>
              ELSE IF Belongs(w, k) THEN decoded[k - 1] ELSE Append(decoded[k - 1], w[k])]

LEMMA DecodingExists ==
  ASSUME NEW w
  PROVE  \A n \in Nat : \E decoded : IsDecoding(decoded, w, n)
<1> DEFINE S == {n \in Nat : \E decoded : IsDecoding(decoded, w, n)}
<1>1. 0 \in S
  <2>1. IsDecoding([k \in 0..0 |-> << >>], w, 0)
    BY DEF IsDecoding
  <2> QED
    BY <2>1
<1>2. ASSUME NEW n \in Nat, n \in S PROVE n + 1 \in S
  <2>1. PICK decoded : IsDecoding(decoded, w, n)
    BY <1>2
  <2> DEFINE more == [k \in 0..n + 1 |->
                       IF k = n + 1
                       THEN IF Belongs(w, n + 1) THEN decoded[n] ELSE Append(decoded[n], w[n + 1])
                       ELSE decoded[k]]
  <2>2. \A k \in 0..n + 1 :
          more[k] = IF k = 0 THEN << >>
                    ELSE IF Belongs(w, k) THEN more[k - 1] ELSE Append(more[k - 1], w[k])
    <3> TAKE k \in 0..n + 1
    <3>1. CASE k = n + 1
      BY <3>1
    <3>2. CASE k # n + 1
      <4>1. k \in 0..n /\ (k # 0 => k - 1 \in 0..n /\ k - 1 # n + 1)
        BY <3>2
      <4>2. decoded[k] = IF k = 0 THEN << >>
                         ELSE IF Belongs(w, k) THEN decoded[k - 1]
                              ELSE Append(decoded[k - 1], w[k])
        BY <2>1, <4>1 DEF IsDecoding
      <4> QED
        BY <4>1, <4>2
    <3> QED
      BY <3>1, <3>2
  <2>3. IsDecoding(more, w, n + 1)
    BY <2>2 DEF IsDecoding
  <2> QED
    BY <2>3
<1> HIDE DEF S
<1>3. Nat \subseteq S
  BY <1>1, <1>2, Induction
<1> QED
  BY <1>3 DEF S

(* An escaped text, and where each character of the original is in it. *)
LEMMA EscapeIs ==
  ASSUME NEW v \in Text
  PROVE  /\ Escape(v) \in Text
         /\ \E at : /\ \A k \in 0..Len(v) : at[k] \in Nat /\ at[k] <= Len(Escape(v))
                    /\ at[0] = 0 /\ at[Len(v)] = Len(Escape(v))
                    /\ \A k \in 1..Len(v) :
                         /\ at[k] = IF v[k] = "%" THEN at[k - 1] + 3 ELSE at[k - 1] + 1
                         /\ Escape(v)[at[k - 1] + 1] = v[k]
                         /\ v[k] = "%" => /\ Escape(v)[at[k - 1] + 2] = "2"
                                          /\ Escape(v)[at[k - 1] + 3] = "5"
<1> DEFINE n == Len(v)
<1>0. n \in Nat /\ \A k \in 1..n : v[k] \in Characters
  BY LenProperties, ElementOfSeq DEF Text
<1>1. PICK escaped : IsEscaping(escaped, v, n) /\ Escape(v) = escaped[n]
  <2>1. \E escaped : IsEscaping(escaped, v, n)
    BY <1>0, EscapingExists
  <2> QED
    BY <2>1 DEF Escape, IsEscaping, Chunk
<1>2. escaped[0] = << >> /\ \A k \in 1..n : escaped[k] = escaped[k - 1] \o Chunk(v[k])
  BY <1>0, <1>1 DEF IsEscaping
<1> HIDE DEF n
<1>3. \A k \in 1..n : /\ Chunk(v[k]) \in Text
                      /\ Len(Chunk(v[k])) = IF v[k] = "%" THEN 3 ELSE 1
                      /\ Chunk(v[k])[1] = v[k]
                      /\ v[k] = "%" => Chunk(v[k])[2] = "2" /\ Chunk(v[k])[3] = "5"
  <2> TAKE k \in 1..n
  <2>1. CASE v[k] = "%"
    <3>1. Chunk(v[k]) = <<"%", "2", "5">>
      BY <2>1 DEF Chunk
    <3>2. <<"%", "2", "5">> \in Seq(Characters) /\ Len(<<"%", "2", "5">>) = 3
      BY CodecAssumption
    <3>3. /\ <<"%", "2", "5">>[1] = "%" /\ <<"%", "2", "5">>[2] = "2"
          /\ <<"%", "2", "5">>[3] = "5"
      OBVIOUS
    <3>4. Chunk(v[k]) \in Text /\ Len(Chunk(v[k])) = 3
      BY <3>1, <3>2 DEF Text
    <3> QED
      BY <2>1, <3>1, <3>3, <3>4
  <2>2. CASE v[k] # "%"
    <3>1. Chunk(v[k]) = <<v[k]>> /\ v[k] \in Characters
      BY <1>0, <2>2 DEF Chunk
    <3>2. <<v[k]>> \in Seq(Characters) /\ Len(<<v[k]>>) = 1 /\ <<v[k]>>[1] = v[k]
      BY <3>1
    <3> QED
      BY <2>2, <3>1, <3>2 DEF Text
  <2> QED
    BY <2>1, <2>2
<1> DEFINE
     at == [k \in 0..n |-> Len(escaped[k])]
     Prefix(j, k) == /\ at[j] <= at[k]
                     /\ \A i \in 1..at[j] : escaped[k][i] = escaped[j][i]
     Whole(k) == /\ escaped[k] \in Text /\ at[k] \in Nat
                 /\ \A j \in 0..k : at[j] \in Nat /\ Prefix(j, k)
     S == {k \in Nat : k <= n => Whole(k)}
<1>4. 0 \in S
  <2>1. escaped[0] \in Text /\ at[0] = 0
    BY <1>0, <1>2 DEF Text
  <2>2. Whole(0)
    BY <2>1
  <2> QED
    BY <2>2
<1>5. ASSUME NEW k \in 1..n, escaped[k - 1] \in Text, at[k - 1] \in Nat
      PROVE  /\ escaped[k] \in Text /\ at[k] = at[k - 1] + Len(Chunk(v[k])) /\ at[k] \in Nat
             /\ \A i \in 1..at[k - 1] : escaped[k][i] = escaped[k - 1][i]
             /\ \A i \in 1..Len(Chunk(v[k])) : escaped[k][at[k - 1] + i] = Chunk(v[k])[i]
  <2> DEFINE e == escaped[k - 1]
             c == Chunk(v[k])
  <2>1. k \in 0..n /\ k - 1 \in 0..n
    BY <1>0
  <2>2. at[k] = Len(escaped[k]) /\ at[k - 1] = Len(e)
    BY <2>1
  <2>3. escaped[k] = e \o c /\ e \in Seq(Characters) /\ c \in Seq(Characters)
    BY <1>2, <1>3, <1>5 DEF Text
  <2> HIDE DEF at, e, c
  <2>4. /\ e \o c \in Seq(Characters) /\ Len(e \o c) = Len(e) + Len(c)
        /\ \A i \in 1..Len(e) : (e \o c)[i] = e[i]
        /\ \A i \in 1..Len(c) : (e \o c)[Len(e) + i] = c[i]
    BY ONLY <2>3, PartsOf
  <2>5. Len(c) \in Nat /\ Len(e) \in Nat
    BY <2>3, LenProperties
  <2>6. /\ escaped[k] \in Text /\ at[k] = at[k - 1] + Len(c) /\ at[k] \in Nat
        /\ \A i \in 1..at[k - 1] : escaped[k][i] = e[i]
        /\ \A i \in 1..Len(c) : escaped[k][at[k - 1] + i] = c[i]
    BY <2>2, <2>3, <2>4, <2>5 DEF Text
  <2> QED
    BY <2>6 DEF e, c
<1>6. ASSUME NEW k \in Nat, k \in S PROVE k + 1 \in S
  <2>0. ASSUME k + 1 <= n => Whole(k + 1) PROVE k + 1 \in S
    <3> HIDE DEF Whole
    <3> QED
      BY <2>0
  <2> SUFFICES ASSUME k + 1 <= n PROVE Whole(k + 1)
    BY <2>0
  <2>1. /\ escaped[k] \in Text /\ at[k] \in Nat
        /\ \A j \in 0..k : at[j] \in Nat /\ Prefix(j, k)
    <3>1. Whole(k)
      <4> HIDE DEF Whole
      <4> QED
        BY <1>0, <1>6
    <3> QED
      BY <3>1
  <2>2. k + 1 \in 1..n /\ (k + 1) - 1 = k
    BY <1>0
  <2> HIDE DEF at
  <2>3. /\ escaped[k + 1] \in Text /\ at[k + 1] = at[k] + Len(Chunk(v[k + 1]))
        /\ at[k + 1] \in Nat
        /\ \A i \in 1..at[k] : escaped[k + 1][i] = escaped[k][i]
    BY <1>5, <2>1, <2>2
  <2>4. Len(Chunk(v[k + 1])) \in Nat
    BY <1>3, <2>2
  <2>5. ASSUME NEW j \in 0..k + 1 PROVE at[j] \in Nat /\ Prefix(j, k + 1)
    <3>1. CASE j = k + 1
      BY <2>3, <3>1
    <3>2. CASE j # k + 1
      <4>1. at[j] \in Nat /\ Prefix(j, k)
        BY <2>1, <3>2
      <4> QED
        BY <2>1, <2>3, <2>4, <4>1
    <3> QED
      BY <3>1, <3>2
  <2> QED
    BY <2>3, <2>5
<1> HIDE DEF S
<1>7. Nat \subseteq S
  BY <1>4, <1>6, Induction
<1>8. \A k \in 0..n : escaped[k] \in Text /\ at[k] \in Nat /\ Prefix(k, n)
  <2> TAKE k \in 0..n
  <2>1. k \in S /\ n \in S /\ k <= n /\ n <= n
    BY <1>0, <1>7
  <2> QED
    BY <1>0, <2>1 DEF S
<1>9. at[0] = 0 /\ at[n] = Len(Escape(v))
  BY <1>0, <1>1, <1>2
<1> HIDE DEF at
<1>10. ASSUME NEW k \in 1..n
       PROVE  /\ at[k] = IF v[k] = "%" THEN at[k - 1] + 3 ELSE at[k - 1] + 1
              /\ Escape(v)[at[k - 1] + 1] = v[k]
              /\ v[k] = "%" => /\ Escape(v)[at[k - 1] + 2] = "2"
                               /\ Escape(v)[at[k - 1] + 3] = "5"
  <2>1. k - 1 \in 0..n /\ k \in 0..n
    BY <1>0
  <2>2. /\ at[k] = at[k - 1] + Len(Chunk(v[k])) /\ at[k - 1] \in Nat /\ at[k] \in Nat
        /\ \A i \in 1..Len(Chunk(v[k])) : escaped[k][at[k - 1] + i] = Chunk(v[k])[i]
    BY <1>5, <1>8, <2>1
  <2>3. \A i \in 1..at[k] : Escape(v)[i] = escaped[k][i]
    BY <1>1, <1>8, <2>1
  <2>4. \A i \in 1..Len(Chunk(v[k])) : Escape(v)[at[k - 1] + i] = Chunk(v[k])[i]
    <3> TAKE i \in 1..Len(Chunk(v[k]))
    <3>1. Len(Chunk(v[k])) \in Nat
      BY <1>3
    <3>2. at[k - 1] + i \in 1..at[k]
      BY <2>2, <3>1
    <3> QED
      BY <2>2, <2>3, <3>2
  <2>5. CASE v[k] = "%"
    <3>1. Len(Chunk(v[k])) = 3
      BY <1>3, <2>5
    <3>2. 1 \in 1..3 /\ 2 \in 1..3 /\ 3 \in 1..3
      OBVIOUS
    <3> QED
      BY <1>3, <2>2, <2>4, <2>5, <3>1, <3>2
  <2>6. CASE v[k] # "%"
    <3>1. Len(Chunk(v[k])) = 1 /\ 1 \in 1..1
      BY <1>3, <2>6
    <3> QED
      BY <1>3, <2>2, <2>4, <2>6, <3>1
  <2> QED
    BY <2>5, <2>6
<1>11. Escape(v) \in Text
  BY <1>0, <1>1, <1>8
<1> QED
  BY <1>8, <1>9, <1>10, <1>11 DEF n

(* url.QueryUnescape gives back what url.QueryEscape was given. *)
LEMMA EscapeExact ==
  ASSUME NEW v \in Text
  PROVE  Unescape(Escape(v)) = v
<1> DEFINE n == Len(v)
           w == Escape(v)
<1>0. n \in Nat /\ w \in Text /\ v \in Text
  BY LenProperties, EscapeIs DEF Text
<1>1. PICK at : /\ \A k \in 0..n : at[k] \in Nat /\ at[k] <= Len(w)
                /\ at[0] = 0 /\ at[n] = Len(w)
                /\ \A k \in 1..n :
                     /\ at[k] = IF v[k] = "%" THEN at[k - 1] + 3 ELSE at[k - 1] + 1
                     /\ w[at[k - 1] + 1] = v[k]
                     /\ v[k] = "%" => w[at[k - 1] + 2] = "2" /\ w[at[k - 1] + 3] = "5"
  BY EscapeIs
<1>2. \A k \in 1..n : v[k] \in Characters
  BY ElementOfSeq DEF Text
<1> HIDE DEF n, w
<1> DEFINE
     Closed(k) == \A i \in 1..at[k] :
                    w[i] = "%" => i + 2 <= at[k] /\ w[i + 1] = "2" /\ w[i + 2] = "5"
     S == {k \in Nat : k <= n => Closed(k)}
<1>3. 0 \in S
  <2>1. Closed(0)
    BY <1>1
  <2> QED
    BY <2>1
<1>4. ASSUME NEW k \in Nat, k \in S PROVE k + 1 \in S
  <2>0. ASSUME k + 1 <= n => Closed(k + 1) PROVE k + 1 \in S
    <3> HIDE DEF Closed
    <3> QED
      BY <2>0
  <2> SUFFICES ASSUME k + 1 <= n PROVE Closed(k + 1)
    BY <2>0
  <2>1. Closed(k)
    <3> HIDE DEF Closed
    <3> QED
      BY <1>0, <1>4
  <2>2. k + 1 \in 1..n /\ k \in 0..n /\ (k + 1) - 1 = k /\ k + 1 \in 0..n
    BY <1>0
  <2>3. /\ at[k] \in Nat /\ at[k + 1] \in Nat
        /\ at[k + 1] = IF v[k + 1] = "%" THEN at[k] + 3 ELSE at[k] + 1
        /\ w[at[k] + 1] = v[k + 1]
        /\ v[k + 1] = "%" => w[at[k] + 2] = "2" /\ w[at[k] + 3] = "5"
    BY <1>1, <2>2
  <2>4. ASSUME NEW i \in 1..at[k + 1], w[i] = "%"
        PROVE  i + 2 <= at[k + 1] /\ w[i + 1] = "2" /\ w[i + 2] = "5"
    <3>1. CASE i <= at[k]
      <4>1. i \in 1..at[k]
        BY <2>3, <3>1
      <4>2. i + 2 <= at[k] /\ w[i + 1] = "2" /\ w[i + 2] = "5"
        BY <2>1, <2>4, <4>1
      <4> QED
        BY <2>3, <4>2
    <3>2. CASE i = at[k] + 1
      <4>1. v[k + 1] = "%" /\ i + 1 = at[k] + 2 /\ i + 2 = at[k] + 3
        BY <2>3, <2>4, <3>2
      <4> QED
        BY <2>3, <4>1
    <3>3. CASE i > at[k] + 1
      <4>1. v[k + 1] = "%" /\ (i = at[k] + 2 \/ i = at[k] + 3)
        BY <2>3, <3>3
      <4> QED
        BY <2>3, <2>4, <4>1
    <3> QED
      BY <2>3, <3>1, <3>2, <3>3
  <2> QED
    BY <2>4
<1> HIDE DEF S
<1>5. Nat \subseteq S
  BY <1>3, <1>4, Induction
<1>6. \A k \in 0..n : Closed(k)
  <2> HIDE DEF Closed
  <2> QED
    BY <1>0, <1>5 DEF S
<1>7. IsEscaped(w)
  <2>1. DOMAIN w = 1..Len(w)
    BY <1>0, LenProperties DEF Text
  <2>2. n \in 0..n
    BY <1>0
  <2> QED
    BY <1>1, <1>6, <2>1, <2>2 DEF IsEscaped
<1>8. PICK decoded : IsDecoding(decoded, w, Len(w)) /\ Unescape(w) = decoded[Len(w)]
  <2>1. Len(w) \in Nat
    BY <1>0, LenProperties DEF Text
  <2>2. \E decoded : IsDecoding(decoded, w, Len(w))
    BY <2>1, DecodingExists
  <2> QED
    BY <1>7, <2>2 DEF Unescape, IsDecoding, Belongs
<1>9. /\ decoded[0] = << >>
      /\ \A i \in 1..Len(w) :
           decoded[i] = IF Belongs(w, i) THEN decoded[i - 1] ELSE Append(decoded[i - 1], w[i])
  <2>1. Len(w) \in Nat
    BY <1>0, LenProperties DEF Text
  <2>2. ASSUME NEW i \in 1..Len(w)
        PROVE  decoded[i] = IF Belongs(w, i) THEN decoded[i - 1] ELSE Append(decoded[i - 1], w[i])
    <3>1. i \in 0..Len(w) /\ i # 0
      BY <2>1
    <3> QED
      BY <1>8, <3>1 DEF IsDecoding
  <2>3. decoded[0] = << >>
    <3>1. 0 \in 0..Len(w)
      BY <2>1
    <3> QED
      BY <1>8, <3>1 DEF IsDecoding
  <2> QED
    BY <2>2, <2>3
<1> DEFINE
     Read(k) == /\ at[k] <= Len(w) /\ decoded[at[k]] \in Text /\ Len(decoded[at[k]]) = k
                /\ \A i \in 1..k : decoded[at[k]][i] = v[i]
     T == {m \in Nat : m <= n => Read(m)}
<1>10. 0 \in T
  <2>1. Read(0)
    BY <1>0, <1>1, <1>9 DEF Text
  <2> QED
    BY <2>1
<1>11. ASSUME NEW k \in Nat, k \in T PROVE k + 1 \in T
  <2>0. ASSUME k + 1 <= n => Read(k + 1) PROVE k + 1 \in T
    <3> HIDE DEF Read
    <3> QED
      BY <2>0
  <2> SUFFICES ASSUME k + 1 <= n PROVE Read(k + 1)
    BY <2>0
  <2>1. Read(k)
    <3> HIDE DEF Read
    <3> QED
      BY <1>0, <1>11
  <2>2. k + 1 \in 1..n /\ k \in 0..n /\ (k + 1) - 1 = k /\ k + 1 \in 0..n
    BY <1>0
  <2> DEFINE p == at[k]
             more == Append(decoded[p], v[k + 1])
  <2>3. /\ p \in Nat /\ at[k + 1] \in Nat /\ at[k + 1] <= Len(w)
        /\ at[k + 1] = IF v[k + 1] = "%" THEN p + 3 ELSE p + 1
        /\ w[p + 1] = v[k + 1]
    BY <1>1, <2>2
  <2>4. Closed(k) /\ Len(w) \in Nat /\ v[k + 1] \in Characters
    BY <1>0, <1>2, <1>6, <2>2, LenProperties DEF Text
  <2>5. ~ Belongs(w, p + 1)
    <3>1. ASSUME p + 1 > 1, w[p] = "%" PROVE FALSE
      <4>1. p \in 1..at[k]
        BY <2>3, <3>1
      <4> QED
        BY <2>3, <2>4, <3>1, <4>1
    <3>2. ASSUME p + 1 > 2, w[p - 1] = "%" PROVE FALSE
      <4>1. p - 1 \in 1..at[k] /\ (p - 1) + 2 = p + 1
        BY <2>3, <3>2
      <4> QED
        BY <2>3, <2>4, <3>2, <4>1
    <3>3. (p + 1) - 1 = p /\ (p + 1) - 2 = p - 1
      BY <2>3
    <3>4. ~ (p + 1 > 1 /\ w[(p + 1) - 1] = "%")
      BY <3>1, <3>3
    <3>5. ~ (p + 1 > 2 /\ w[(p + 1) - 2] = "%")
      BY <3>2, <3>3
    <3> HIDE DEF p
    <3> QED
      BY <3>4, <3>5 DEF Belongs
  <2>6. decoded[p + 1] = more
    <3>1. p + 1 \in 1..Len(w) /\ (p + 1) - 1 = p
      BY <2>3, <2>4
    <3> QED
      BY <1>9, <2>3, <2>5, <3>1
  <2>7. decoded[at[k + 1]] = more
    <3>1. CASE v[k + 1] # "%"
      BY <2>3, <2>6, <3>1
    <3>2. CASE v[k + 1] = "%"
      <4>1. /\ p + 2 \in 1..Len(w) /\ p + 3 \in 1..Len(w) /\ at[k + 1] = p + 3
            /\ (p + 2) - 1 = p + 1 /\ (p + 3) - 1 = p + 2 /\ (p + 3) - 2 = p + 1
            /\ p + 2 > 1 /\ p + 3 > 2
        BY <2>3, <2>4, <3>2
      <4>2. Belongs(w, p + 2) /\ Belongs(w, p + 3)
        BY <2>3, <3>2, <4>1 DEF Belongs
      <4>3. decoded[p + 2] = decoded[p + 1] /\ decoded[p + 3] = decoded[p + 2]
        BY <1>9, <4>1, <4>2
      <4> QED
        BY <2>6, <4>1, <4>3
    <3> QED
      BY <3>1, <3>2
  <2>8. /\ decoded[p] \in Seq(Characters) /\ Len(decoded[p]) = k
        /\ \A i \in 1..k : decoded[p][i] = v[i]
    BY <2>1 DEF Text
  <2> HIDE DEF p
  <2>9. /\ more \in Seq(Characters) /\ Len(more) = k + 1
        /\ \A i \in 1..k : more[i] = decoded[p][i]
        /\ more[k + 1] = v[k + 1]
    BY <2>4, <2>8, AppendProperties
  <2> HIDE DEF more
  <2>10. \A i \in 1..k + 1 : more[i] = v[i]
    <3> TAKE i \in 1..k + 1
    <3>1. i \in 1..k \/ i = k + 1
      OBVIOUS
    <3> QED
      BY <2>8, <2>9, <3>1
  <2> QED
    BY <2>3, <2>7, <2>9, <2>10 DEF Text
<1> HIDE DEF T
<1>12. Nat \subseteq T
  BY <1>10, <1>11, Induction
<1>13. Read(n)
  <2> HIDE DEF Read
  <2> QED
    BY <1>0, <1>12 DEF T
<1>14. decoded[Len(w)] = v
  <2>1. /\ decoded[Len(w)] \in Seq(Characters) /\ Len(decoded[Len(w)]) = Len(v)
        /\ \A i \in 1..Len(v) : decoded[Len(w)][i] = v[i]
    BY <1>1, <1>13 DEF Text, n
  <2>2. v \in Seq(Characters)
    BY DEF Text
  <2> HIDE DEF w
  <2> QED
    BY <2>1, <2>2, SeqEqual
<1> QED
  BY <1>8, <1>14 DEF w

-----------------------------------------------------------------------------
(* What is injected is extracted again *)

Baggages == UNION {[keys -> Text] : keys \in SUBSET Text}

IsView(v) ==
  /\ v.hi \in IDs /\ v.lo \in IDs /\ v.span \in IDs /\ v.parent \in IDs
  /\ v.flags \in Flags \cup {NoFlags} /\ v.baggage \in Baggages

(* The flags byte that a propagator writes. *)
Written(format, flags) ==
  CASE format = "b3" -> IF IsSampled(flags) THEN 1 ELSE 0
    [] format \in {"text", "http"} -> IF flags = NoFlags THEN 0 ELSE flags
    [] OTHER -> flags

Survives(format, v, got) ==
  /\ got.hi = (IF format = "zipkin" THEN 0 ELSE v.hi)
  /\ got.lo = v.lo /\ got.span = v.span /\ got.parent = v.parent
  /\ got.flags = Written(format, v.flags) /\ got.debugID = FALSE
  /\ got.baggage \in Baggages /\ SameBaggage(format, v.baggage, got.baggage)

LEMMA BaggageIs ==
  ASSUME NEW b \in Baggages
  PROVE  /\ DOMAIN b \subseteq Text /\ b = [k \in DOMAIN b |-> b[k]]
         /\ \A k \in DOMAIN b : b[k] \in Text
BY DEF Baggages

LEMMA EmptyBaggage == Empty \in Baggages /\ DOMAIN Empty = {}
<1>1. Empty \in [{} -> Text] /\ {} \in SUBSET Text /\ DOMAIN Empty = {}
  BY DEF Empty
<1> QED
  BY <1>1 DEF Baggages

LEMMA LowerText ==
  ASSUME NEW key \in Text
  PROVE  Lower(key) \in Text
<1>1. /\ Len(key) \in Nat /\ DOMAIN key = 1..Len(key)
      /\ \A i \in 1..Len(key) : key[i] \in Characters
  BY LenProperties, ElementOfSeq DEF Text
<1>2. Lower(key) \in [1..Len(key) -> Characters]
  BY <1>1, CodecAssumption DEF Lower
<1> QED
  BY <1>1, <1>2, SeqDef DEF Text

(* The headers, in whatever order they were visited. *)
LEMMA CollectedIs ==
  ASSUME NEW sent \in Baggages, NEW b \in Collected(sent)
  PROVE  /\ b \in Baggages /\ DOMAIN b = {Lower(k) : k \in DOMAIN sent}
         /\ \A k \in DOMAIN sent : \E l \in DOMAIN sent :
              Lower(l) = Lower(k) /\ b[Lower(k)] = sent[l]
<1> DEFINE keys == {Lower(k) : k \in DOMAIN sent}
<1>1. keys \in SUBSET Text
  BY BaggageIs, LowerText
<1>2. /\ b \in [keys -> Range(sent)]
      /\ \A low \in keys : \E l \in DOMAIN sent : Lower(l) = low /\ b[low] = sent[l]
  BY DEF Collected
<1> HIDE DEF keys
<1>3. Range(sent) \subseteq Text
  BY BaggageIs DEF Range
<1>4. b \in [keys -> Text] /\ DOMAIN b = keys
  BY <1>2, <1>3
<1>5. b \in Baggages
  BY <1>1, <1>4 DEF Baggages
<1>6. \A k \in DOMAIN sent : Lower(k) \in keys
  BY DEF keys
<1> QED
  BY <1>2, <1>4, <1>5, <1>6 DEF keys

LEMMA MergedIs ==
  ASSUME NEW b \in Baggages, NEW m \in Merged(Empty, b)
  PROVE  m = b
<1>1. b = [k \in DOMAIN b |-> b[k]]
  BY BaggageIs
<1>2. /\ m \in [{} \cup DOMAIN b -> Range(Empty) \cup Range(b)]
      /\ \A k \in DOMAIN b : m[k] = b[k]
  BY EmptyBaggage DEF Merged
<1>3. m = [k \in DOMAIN b |-> m[k]]
  BY <1>2
<1> QED
  BY <1>1, <1>2, <1>3

LEMMA NotFailure ==
  ASSUME NEW c, "hi" \in DOMAIN c
  PROVE  c # Failure
<1>1. DOMAIN Failure = {"failed"}
  BY DEF Failure
<1> QED
  BY <1>1

LEMMA TextSurvives ==
  ASSUME NEW format \in {"text", "http"}, NEW v, IsView(v),
         NEW got \in Extract(Inject(format, v))
  PROVE  /\ got = Failure \/ Survives(format, v, got)
         /\ Written(format, v.flags) \in {10, 11} => got = Failure
         /\ Written(format, v.flags) \notin {10, 11} /\ IsValidTrace(v) => got # Failure
<1> DEFINE
     f == Written(format, v.flags)
     sent == TextInject(format, v)
     items == [k \in DOMAIN sent.items |-> decodeValue(sent.format, sent.items[k])]
     ctx == ContextFromString(ContextString(v))
     baggages == UNION {Merged(Empty, b) : b \in Collected(v.baggage)}
<1>1. /\ sent.format = format /\ sent.trace = ContextString(v) /\ sent.debug = FALSE
      /\ sent.list = Empty
      /\ sent.items = [k \in DOMAIN v.baggage |-> encodeValue(format, v.baggage[k])]
  BY DEF TextInject
<1>2. sent.trace # << >>
  BY <1>1 DEF ContextString
<1>3. items = v.baggage
  <2>1. v.baggage \in Baggages
    BY DEF IsView
  <2>2. ASSUME NEW k \in DOMAIN v.baggage
        PROVE  decodeValue(format, encodeValue(format, v.baggage[k])) = v.baggage[k]
    BY <2>1, BaggageIs, EscapeExact DEF encodeValue, decodeValue
  <2>3. items = [k \in DOMAIN v.baggage |-> v.baggage[k]]
    BY <1>1, <2>2
  <2> QED
    BY <2>1, <2>3, BaggageIs
<1>4. /\ f \in Flags
      /\ ctx = IF f \in {10, 11} THEN Failure
               ELSE [hi |-> v.hi, lo |-> v.lo, span |-> v.span, parent |-> v.parent, flags |-> f,
                     baggage |-> Empty, debugID |-> FALSE]
  <2>1. f \in Flags /\ f = IF v.flags = NoFlags THEN 0 ELSE v.flags
    BY DEF IsView, Written, Flags
  <2> HIDE DEF f
  <2> QED
    BY <2>1, ContextStringExact DEF IsView
<1>5. HeaderBaggage(sent) = baggages
  <2>1. HeaderBaggage(sent) = UNION {Merged(sent.list, b) : b \in Collected(items)}
    BY DEF HeaderBaggage
  <2> HIDE DEF items
  <2> QED
    BY <1>1, <1>3, <2>1
<1> HIDE DEF f, ctx, items, sent, baggages
<1>6. got \in TextExtract(sent)
  BY <1>1 DEF Extract, Inject, sent
<1>7. CASE f \in {10, 11}
  <2>1. TextExtract(sent) = {Failure}
    BY <1>1, <1>2, <1>4, <1>7 DEF TextExtract, ctx
  <2> QED
    BY <1>6, <1>7, <2>1 DEF f
<1>8. CASE f \notin {10, 11}
  <2>1. "hi" \in DOMAIN ctx
    BY <1>4, <1>8
  <2>2. ctx # Failure
    BY <2>1, NotFailure
  <2>3. got \in {FoundOrFailure(c) :
                   c \in UNION {Completed(ctx, baggages, d) : d \in {FALSE, FALSE}}}
    <3>1. ContextFromString(sent.trace) = ctx
      BY <1>1 DEF ctx
    <3>2. TextExtract(sent) =
            {FoundOrFailure(c) : c \in UNION {Completed(ctx, baggages, d) : d \in {FALSE, FALSE}}}
      BY <1>1, <1>2, <1>5, <2>2, <3>1 DEF TextExtract
    <3> QED
      BY <1>6, <3>2
  <2>4. PICK c \in Completed(ctx, baggages, FALSE) : got = FoundOrFailure(c)
    BY <2>3
  <2>5. PICK m \in baggages : c = [ctx EXCEPT !.baggage = m, !.debugID = FALSE]
    BY <2>4, Zenon DEF Completed
  <2>6. /\ "hi" \in DOMAIN c /\ c.hi = v.hi /\ c.lo = v.lo /\ c.span = v.span
        /\ c.parent = v.parent /\ c.flags = f /\ c.baggage = m /\ c.debugID = FALSE
    BY <1>4, <1>8, <2>5
  <2>7. m \in Baggages /\ SameBaggage(format, v.baggage, m)
    <3>1. PICK b \in Collected(v.baggage) : m \in Merged(Empty, b)
      BY DEF baggages
    <3>2. m = b
      BY <3>1, CollectedIs, MergedIs DEF IsView
    <3> QED
      BY <3>1, <3>2, CollectedIs DEF SameBaggage, IsView
  <2>8. Survives(format, v, c) /\ c # Failure
    BY <2>6, <2>7, NotFailure DEF Survives, f
  <2>9. got = c \/ got = Failure
    BY <2>4 DEF FoundOrFailure
  <2>10. IsValidTrace(v) => got = c
    BY <2>4, <2>6 DEF IsValidTrace, FoundOrFailure
  <2> QED
    BY <1>8, <2>8, <2>9, <2>10 DEF f
<1> QED
  BY <1>7, <1>8

LEMMA BinarySurvives ==
  ASSUME NEW v, IsView(v), NEW got \in Extract(Inject("binary", v))
  PROVE  /\ got = Failure \/ Survives("binary", v, got)
         /\ got = Failure <=> Unreadable("binary", v)
<1> DEFINE sent == BinaryInject(v)
<1>1. /\ sent.format = "binary" /\ sent.cut = FALSE /\ sent.hi = v.hi /\ sent.lo = v.lo
      /\ sent.span = v.span /\ sent.parent = v.parent /\ sent.flags = v.flags
      /\ sent.items = v.baggage
  BY DEF BinaryInject
<1> HIDE DEF sent
<1>2. got = BinaryExtract(sent)
  BY <1>1 DEF Extract, Inject, sent
<1>3. CASE Unreadable("binary", v)
  BY <1>1, <1>2, <1>3 DEF BinaryExtract, Unreadable
<1>4. CASE ~ Unreadable("binary", v)
  <2>1. got = [hi |-> v.hi, lo |-> v.lo, span |-> v.span, parent |-> v.parent, flags |-> v.flags,
               baggage |-> v.baggage, debugID |-> FALSE]
    BY <1>1, <1>2, <1>4 DEF BinaryExtract, Unreadable
  <2>2. "hi" \in DOMAIN got
    BY <2>1
  <2>3. got # Failure
    BY <2>2, NotFailure
  <2>4. Survives("binary", v, got)
    BY <2>1 DEF Survives, IsView, Written, SameBaggage
  <2> QED
    BY <1>4, <2>3, <2>4
<1> QED
  BY <1>3, <1>4

LEMMA ZipkinSurvives ==
  ASSUME NEW v, IsView(v), NEW got \in Extract(Inject("zipkin", v))
  PROVE  /\ got = Failure \/ Survives("zipkin", v, got)
         /\ got = Failure <=> Unreadable("zipkin", v)
<1> DEFINE sent == ZipkinInject(v)
<1>1. /\ sent.format = "zipkin" /\ sent.lo = v.lo /\ sent.span = v.span
      /\ sent.parent = v.parent /\ sent.flags = v.flags
  BY DEF ZipkinInject
<1> HIDE DEF sent
<1>2. got = ZipkinExtract(sent)
  BY <1>1 DEF Extract, Inject, sent
<1>3. CASE v.lo = 0
  BY <1>1, <1>2, <1>3 DEF ZipkinExtract, Unreadable
<1>4. CASE v.lo # 0
  <2>1. got = [hi |-> 0, lo |-> v.lo, span |-> v.span, parent |-> v.parent, flags |-> v.flags,
               baggage |-> Empty, debugID |-> FALSE]
    BY <1>1, <1>2, <1>4 DEF ZipkinExtract
  <2>2. "hi" \in DOMAIN got
    BY <2>1
  <2>3. got # Failure
    BY <2>2, NotFailure
  <2>4. Survives("zipkin", v, got)
    BY <2>1, EmptyBaggage DEF Survives, Written, SameBaggage
  <2>5. ~ Unreadable("zipkin", v)
    BY <1>4 DEF Unreadable
  <2> QED
    BY <2>3, <2>4, <2>5
<1> QED
  BY <1>3, <1>4

LEMMA NothingIsZero == Value(<< >>, Base) = 0
<1>1. Len(<< >>) = 0
  OBVIOUS
<1>2. PICK value : /\ IsValue(value, << >>, Base, Len(<< >>))
                   /\ Value(<< >>, Base) = value[Len(<< >>)]
  BY <1>1, ValueIs
<1> QED
  BY <1>1, <1>2 DEF IsValue

LEMMA B3Survives ==
  ASSUME NEW v, IsView(v), NEW got \in Extract(Inject("b3", v))
  PROVE  /\ got = Failure \/ Survives("b3", v, got)
         /\ IsValidTrace(v) => got # Failure
<1> DEFINE
     sent == B3Inject(v)
     flags == IF IsSampled(v.flags) THEN 1 ELSE 0
     ctx(m) == [hi |-> v.hi, lo |-> v.lo, span |-> v.span, parent |-> v.parent, flags |-> flags,
                baggage |-> m, debugID |-> FALSE]
<1>1. /\ sent.format = "b3" /\ sent.trace = TraceIDString(v) /\ sent.span = Padded(v.span)
      /\ sent.parent = (IF v.parent = 0 THEN << >> ELSE Padded(v.parent))
      /\ sent.sampled = IsSampled(v.flags) /\ sent.items = v.baggage
  BY DEF B3Inject
<1> HIDE DEF sent
<1>2. got \in B3Extract(sent)
  BY <1>1 DEF Extract, Inject, sent
<1>3. /\ IsTraceID(sent.trace) /\ HighOf(sent.trace) = v.hi /\ LowOf(sent.trace) = v.lo
      /\ IsNumber(sent.span, Base) /\ Value(sent.span, Base) = v.span
      /\ sent.parent = << >> \/ IsNumber(sent.parent, Base)
      /\ Value(sent.parent, Base) = v.parent
  BY <1>1, TraceIDExact, SpanIDExact, NothingIsZero DEF IsView
<1>4. /\ \A m : "hi" \in DOMAIN ctx(m) /\ ctx(m).hi = v.hi /\ ctx(m).lo = v.lo
      /\ IsValidTrace(ctx(Empty)) <=> IsValidTrace(v)
  BY DEF IsValidTrace
<1>5. B3Extract(sent) = IF IsValidTrace(v) THEN {ctx(m) : m \in Collected(v.baggage)} ELSE {Failure}
  BY <1>1, <1>3, <1>4 DEF B3Extract
<1>6. CASE IsValidTrace(v)
  <2>1. PICK m \in Collected(v.baggage) : got = ctx(m)
    BY <1>2, <1>5, <1>6
  <2>2. m \in Baggages /\ SameBaggage("b3", v.baggage, m)
    BY CollectedIs DEF SameBaggage, IsView
  <2>3. Survives("b3", v, got)
    BY <2>1, <2>2 DEF Survives, Written
  <2>4. got # Failure
    BY <1>4, <2>1, NotFailure
  <2> QED
    BY <2>3, <2>4
<1>7. CASE ~ IsValidTrace(v)
  BY <1>2, <1>5, <1>7
<1> QED
  BY <1>6, <1>7

(* Whatever context is injected in any of the formats is extracted again, with its   *)
(* IDs, flags and baggage, or nothing is; and nothing, of a valid context that has a *)
(* samplingState, exactly when Unreadable says so (propagation.go:109-290,           *)
(* span_context.go:214-252, zipkin/propagation.go, zipkin.go).                       *)
THEOREM CarrierExact ==
  ASSUME NEW format \in Formats, NEW v, IsView(v), NEW got \in Extract(Inject(format, v))
  PROVE  /\ got = Failure \/ Survives(format, v, got)
         /\ v.flags # NoFlags /\ IsValidTrace(v) => (got = Failure <=> Unreadable(format, v))
<1>1. CASE format \in {"text", "http"}
  <2>1. ASSUME v.flags # NoFlags
        PROVE  Unreadable(format, v) <=> Written(format, v.flags) \in {10, 11}
    <3>1. v.flags \in Flags /\ Written(format, v.flags) = v.flags
      BY <1>1, <2>1 DEF Written, IsView
    <3>2. IsDebug(v.flags) /\ IsFirehose(v.flags) <=> v.flags \in {10, 11}
      BY <3>1, HexExact
    <3> QED
      BY <1>1, <3>1, <3>2 DEF Unreadable
  <2> QED
    BY <1>1, <2>1, TextSurvives
<1>2. CASE format = "binary"
  BY <1>2, BinarySurvives
<1>3. CASE format = "zipkin"
  BY <1>3, ZipkinSurvives
<1>4. CASE format = "b3"
  BY <1>4, B3Survives DEF Unreadable
<1> QED
  BY <1>1, <1>2, <1>3, <1>4 DEF Formats

-----------------------------------------------------------------------------
(* The invariant: contexts and what they point to *)

Context == [hi : IDs, lo : IDs, span : IDs, parent : IDs, baggage : Nat, debugID : BOOLEAN,
            state : Nat, remote : BOOLEAN]
Span  == [how : {"root", "child", "shared", "self"}, context : Context]
State == [flags : Flags, final : BOOLEAN, localRoot : Nat]

(* Only a context that is no span's may lack a samplingState. *)
Within(c) == /\ c.baggage <= Len(maps) /\ c.state <= Len(states)
             /\ IsValid(c) => c.state # 0

TypeInv ==
  /\ setup \in Setups
  /\ maps \in Seq(Baggages) /\ states \in Seq(State)
  /\ spans \in Seq(Span) /\ held \in Seq(Context) /\ Len(spans) <= MaxSpans
  /\ \A i \in DOMAIN spans : Within(spans[i].context) /\ spans[i].context.state # 0
  /\ \A i \in DOMAIN held : Within(held[i])

(* A span of ours that a context names has been started, in the same trace. *)
Ours == 1..MaxSpans
SameTrace(d, c) == d.lo = c.lo /\ (d.hi = c.hi \/ "zipkin" \in setup.formats)
Started(id, c) ==
  \E i \in DOMAIN spans : spans[i].context.span = id /\ SameTrace(spans[i].context, c)
Known(c) ==
  /\ c.span \in Ours => Started(c.span, c)
  /\ c.parent \in Ours => Started(c.parent, c)

KnownInv == /\ \A i \in DOMAIN spans : Known(spans[i].context)
            /\ \A i \in DOMAIN held : Known(held[i])

(* What a carrier in transit may be read as. *)
Arrivals == IF carrier.format \in Formats THEN Extract(carrier) \ {Failure} ELSE {}

IsRead(c) == IsView(c) /\ c.debugID \in BOOLEAN /\ (IsValid(c) => c.flags # NoFlags)

CarrierInv ==
  /\ \A c \in Arrivals : IsRead(c) /\ Known(c)
  /\ carrier.format = "context" =>
       /\ carrier.hi \in IDs /\ carrier.lo \in IDs /\ carrier.span \in IDs /\ carrier.parent \in IDs
       /\ carrier.baggage \in Baggages /\ carrier.state \in 1..Len(states)
       /\ Known(carrier)

(* The IDs from Fresh on are no span's yet. *)
FreshInv == \A i \in DOMAIN spans : spans[i].context.span \notin Fresh..MaxSpans

Earlier(i, id, c) ==
  \E j \in 1..i - 1 : spans[j].context.span = id /\ SameTrace(spans[j].context, c)

TreeInv ==
  \A i \in DOMAIN spans :
    LET c == spans[i].context
    IN /\ spans[i].how = "root" => c.parent = 0 /\ c.span = c.lo
       /\ spans[i].how = "child" => c.parent # 0
       /\ c.parent \in Ours => Earlier(i, c.parent, c)
       /\ Earlier(i, c.span, c) => spans[i].how \in {"self", "shared"}

TraceInv == TypeInv /\ KnownInv /\ CarrierInv /\ FreshInv /\ TreeInv

-----------------------------------------------------------------------------
(* Lemmas about the parts of a step *)

LEMMA SmallIDs == /\ MaxSpans \in Nat /\ Ours \subseteq IDs /\ 0 \in IDs /\ IDs \subseteq Nat
                  /\ EmptyContext \in Context
<1>1. PICK n \in Nat : IDs = 0..n - 1
  <2>1. PICK power : (\A k \in 0..Width : power[k] \in Nat) /\ IDs = 0..power[Width] - 1
    BY IDsAre
  <2>2. Width \in 0..Width
    BY CodecAssumption
  <2> QED
    BY <2>1, <2>2
<1>2. MaxSpans \in IDs
  BY SetupAssumption
<1>3. MaxSpans \in Nat /\ Ours \subseteq IDs /\ 0 \in IDs /\ IDs \subseteq Nat
  BY <1>1, <1>2 DEF Ours
<1> QED
  BY <1>3 DEF EmptyContext, Context

LEMMA Extremes ==
  ASSUME NEW n \in Nat, NEW S \in SUBSET (1..n), S # {}
  PROVE  Min(S) \in S /\ Max(S) \in S
<1>1. Min(S) \in S
  <2>1. \E x \in S : \A y \in S : x <= y
    BY LeastNumber
  <2> QED
    BY <2>1 DEF Min
<1>2. Max(S) \in S
  <2> DEFINE T == {n - x : x \in S}
  <2>1. T \in SUBSET Nat /\ T # {}
    OBVIOUS
  <2>2. PICK t \in T : \A u \in T : t <= u
    BY <2>1, LeastNumber
  <2>3. PICK x \in S : t = n - x
    BY <2>2
  <2>4. ASSUME NEW y \in S PROVE x >= y
    <3>1. n - y \in T
      OBVIOUS
    <3>2. x \in 1..n /\ y \in 1..n /\ t <= n - y
      BY <2>2, <3>1
    <3> HIDE DEF T
    <3> QED
      BY <2>3, <3>2
  <2> QED
    BY <2>4 DEF Max
<1> QED
  BY <1>1, <1>2

(* The parent and the self reference are contexts that were given. *)
LEMMA GivenContexts ==
  ASSUME NEW shape \in Shapes, NEW given \in [DOMAIN shape -> Contexts \cup {EmptyContext}],
         NEW refs, refs = [i \in DOMAIN shape |-> [type |-> shape[i], context |-> given[i]]]
  PROVE  /\ Parent(refs) \in Contexts \cup {EmptyContext}
         /\ OfType(refs, "self") # {} =>
              refs[Max(OfType(refs, "self"))].context \in Contexts \cup {EmptyContext}
<1>1. /\ Len(shape) \in Nat /\ DOMAIN refs = 1..Len(shape) /\ DOMAIN shape = 1..Len(shape)
      /\ \A i \in DOMAIN refs : refs[i].context \in Contexts \cup {EmptyContext}
  BY SetupAssumption, LenProperties
<1>2. \A type : OfType(refs, type) \in SUBSET (1..Len(shape))
  BY <1>1 DEF OfType
<1>3. ASSUME NEW type, OfType(refs, type) # {}
      PROVE  /\ refs[Min(OfType(refs, type))].context \in Contexts \cup {EmptyContext}
             /\ refs[Max(OfType(refs, type))].context \in Contexts \cup {EmptyContext}
  BY <1>1, <1>2, <1>3, Extremes
<1> QED
  BY <1>3 DEF Parent

LEMMA SpanIs ==
  ASSUME TypeInv, NEW i \in DOMAIN spans
  PROVE  /\ spans[i] \in Span /\ spans[i].context \in Context /\ Within(spans[i].context)
         /\ spans[i].context.state # 0
         /\ i \in 1..Len(spans) /\ Len(spans) \in Nat
<1>1. spans \in Seq(Span) /\ Len(spans) \in Nat /\ i \in 1..Len(spans)
  BY LenProperties DEF TypeInv
<1>2. spans[i] \in Span
  BY ONLY <1>1, ElementOfSeq
<1> QED
  BY <1>1, <1>2 DEF TypeInv, Span

LEMMA HeldIs ==
  ASSUME TypeInv, NEW i \in DOMAIN held
  PROVE  held[i] \in Context /\ Within(held[i])
<1>1. held \in Seq(Context) /\ i \in 1..Len(held)
  BY LenProperties DEF TypeInv
<1>2. held[i] \in Context
  BY ONLY <1>1, ElementOfSeq
<1> QED
  BY <1>2 DEF TypeInv

LEMMA ContextsAre ==
  ASSUME TypeInv, KnownInv, NEW c \in Contexts \cup {EmptyContext}
  PROVE  c \in Context /\ Within(c) /\ Known(c)
<1>1. CASE c = EmptyContext
  <2>1. Len(maps) \in Nat /\ Len(states) \in Nat
    BY LenProperties DEF TypeInv
  <2> QED
    BY <1>1, <2>1, SmallIDs DEF EmptyContext, Within, Known, Ours, IsValid
<1>2. CASE \E i \in DOMAIN spans : c = spans[i].context
  BY <1>2, SpanIs DEF KnownInv
<1>3. CASE \E i \in DOMAIN held : c = held[i]
  BY <1>3, HeldIs DEF KnownInv
<1> QED
  BY <1>1, <1>2, <1>3 DEF Contexts, Range

(* The same IDs, but perhaps for the high half that a Zipkin carrier drops. *)
LEMMA KnownAlike ==
  ASSUME NEW c, NEW d, Known(c), d.lo = c.lo, d.span = c.span, d.parent = c.parent,
         d.hi = c.hi \/ "zipkin" \in setup.formats
  PROVE  Known(d)
BY DEF Known, Started, SameTrace

LEMMA KnownKept ==
  ASSUME setup' = setup, DOMAIN spans \subseteq DOMAIN spans',
         \A i \in DOMAIN spans :
           /\ spans'[i].context.span = spans[i].context.span
           /\ spans'[i].context.lo = spans[i].context.lo
           /\ spans'[i].context.hi = spans[i].context.hi
  PROVE  \A c : Known(c) => Known(c)'
BY DEF Known, Started, SameTrace, Ours

LEMMA ViewIs ==
  ASSUME TypeInv, NEW c \in Context, Within(c)
  PROVE  /\ Baggage(c) \in Baggages /\ IsView(View(c))
         /\ c.state # 0 => View(c).flags \in Flags
<1>1. Baggage(c) \in Baggages
  <2>1. CASE c.baggage = 0
    BY <2>1, EmptyBaggage DEF Baggage
  <2>2. CASE c.baggage # 0
    <3>1. c.baggage \in 1..Len(maps)
      BY <2>2, LenProperties DEF TypeInv, Within, Context
    <3> QED
      BY <2>2, <3>1, ElementOfSeq DEF TypeInv, Baggage
  <2> QED
    BY <2>1, <2>2
<1>2. c.state # 0 => states[c.state].flags \in Flags
  <2> SUFFICES ASSUME c.state # 0 PROVE states[c.state] \in State
    BY DEF State
  <2>1. c.state \in 1..Len(states)
    BY LenProperties DEF TypeInv, Within, Context
  <2> QED
    BY <2>1, ElementOfSeq DEF TypeInv
<1> QED
  BY <1>1, <1>2 DEF View, IsView, Context

LEMMA FreshIs ==
  ASSUME TypeInv
  PROVE  Fresh \in Nat \ {0} /\ Fresh <= Len(spans) + 1
<1> DEFINE S == {i \in DOMAIN spans : spans[i].how \in {"root", "child"}}
<1>1. Len(spans) \in Nat /\ S \subseteq 1..Len(spans)
  BY LenProperties DEF TypeInv
<1>2. IsFiniteSet(1..Len(spans)) /\ Cardinality(1..Len(spans)) = Len(spans)
  <2>1. 1 \in Int /\ Len(spans) \in Int
    BY <1>1
  <2>2. /\ IsFiniteSet(1..Len(spans))
        /\ Cardinality(1..Len(spans)) = IF 1 > Len(spans) THEN 0 ELSE Len(spans) - 1 + 1
    BY <2>1, FS_Interval
  <2> QED
    BY <1>1, <2>2
<1>3. IsFiniteSet(S) /\ Cardinality(S) <= Len(spans) /\ Cardinality(S) \in Nat
  BY <1>1, <1>2, FS_Subset, FS_CardinalityType
<1> QED
  BY <1>1, <1>3 DEF Fresh

(* What does not touch the IDs of the spans keeps what is said of them. *)
LEMMA SpansAlike ==
  ASSUME TypeInv, setup' = setup, DOMAIN spans' = DOMAIN spans,
         \A i \in DOMAIN spans :
           /\ spans'[i].how = spans[i].how
           /\ spans'[i].context.hi = spans[i].context.hi
           /\ spans'[i].context.lo = spans[i].context.lo
           /\ spans'[i].context.span = spans[i].context.span
           /\ spans'[i].context.parent = spans[i].context.parent
  PROVE  /\ \A c : Known(c) => Known(c)'
         /\ FreshInv => FreshInv'
         /\ TreeInv => TreeInv'
<1>1. \A c : Known(c) => Known(c)'
  BY KnownKept
<1>2. Fresh' = Fresh
  <2>1. {i \in DOMAIN spans' : spans'[i].how \in {"root", "child"}}
          = {i \in DOMAIN spans : spans[i].how \in {"root", "child"}}
    OBVIOUS
  <2> QED
    BY <2>1 DEF Fresh
<1>3. FreshInv => FreshInv'
  BY <1>2 DEF FreshInv
<1>4. TreeInv => TreeInv'
  <2> SUFFICES ASSUME TreeInv PROVE TreeInv'
    OBVIOUS
  <2> DEFINE
       Now(i, id, c) == \E j \in 1..i - 1 :
         /\ spans'[j].context.span = id /\ spans'[j].context.lo = c.lo
         /\ spans'[j].context.hi = c.hi \/ "zipkin" \in setup'.formats
  <2>1. ASSUME NEW i \in DOMAIN spans
        PROVE  LET c == spans'[i].context
               IN /\ spans'[i].how = "root" => c.parent = 0 /\ c.span = c.lo
                  /\ spans'[i].how = "child" => c.parent # 0
                  /\ c.parent \in Ours => Now(i, c.parent, c)
                  /\ Now(i, c.span, c) => spans'[i].how \in {"self", "shared"}
    <3> DEFINE c == spans[i].context
               d == spans'[i].context
    <3>1. 1..i - 1 \subseteq DOMAIN spans
      BY LenProperties DEF TypeInv
    <3>2. \A id : Now(i, id, d) <=> Earlier(i, id, c)
      BY <3>1 DEF Earlier, SameTrace
    <3>3. /\ spans[i].how = "root" => c.parent = 0 /\ c.span = c.lo
          /\ spans[i].how = "child" => c.parent # 0
          /\ c.parent \in Ours => Earlier(i, c.parent, c)
          /\ Earlier(i, c.span, c) => spans[i].how \in {"self", "shared"}
      BY DEF TreeInv
    <3> HIDE DEF Now
    <3> QED
      BY <3>2, <3>3
  <2> QED
    BY <2>1 DEF TreeInv, Earlier, SameTrace, Ours
<1> QED
  BY <1>1, <1>3, <1>4

(* A context more that the application keeps, whose IDs are known. *)
LEMMA ContextHeld ==
  ASSUME TraceInv, setup' = setup, spans' = spans,
         NEW c \in Context, held' = Append(held, c), Known(c),
         maps' \in Seq(Baggages), Len(maps) <= Len(maps'), c.baggage <= Len(maps'),
         states' \in Seq(State), Len(states) <= Len(states'), c.state <= Len(states'),
         IsValid(c) => c.state # 0, carrier' \in {carrier, NoCarrier}
  PROVE  TraceInv'
<1>1. /\ Len(held) \in Nat /\ Len(maps) \in Nat /\ Len(states) \in Nat
      /\ Len(maps') \in Nat /\ Len(states') \in Nat
  BY LenProperties DEF TraceInv, TypeInv
<1>2. /\ held' \in Seq(Context) /\ DOMAIN held' = 1..Len(held) + 1
      /\ \A i \in 1..Len(held) : held'[i] = held[i]
      /\ held'[Len(held) + 1] = c
  BY <1>1, AppendProperties, LenProperties DEF TraceInv, TypeInv
<1>3. DOMAIN held = 1..Len(held)
  BY LenProperties DEF TraceInv, TypeInv
<1>4. \A i \in DOMAIN held' : (i \in DOMAIN held /\ held'[i] = held[i]) \/ held'[i] = c
  BY <1>1, <1>2, <1>3
<1>5. /\ \A d : Known(d) => Known(d)'
      /\ FreshInv' /\ TreeInv'
  BY SpansAlike DEF TraceInv
<1>6. TypeInv'
  <2>1. \A i \in DOMAIN spans : Within(spans[i].context)' /\ spans[i].context.state # 0
    <3>1. \A i \in DOMAIN spans : /\ spans[i].context \in Context /\ Within(spans[i].context)
                                  /\ spans[i].context.state # 0
      BY SpanIs DEF TraceInv
    <3> QED
      BY <1>1, <3>1 DEF Within, Context
  <2>2. \A i \in DOMAIN held' : Within(held[i])'
    <3>1. \A i \in DOMAIN held : held[i] \in Context /\ Within(held[i])
      BY HeldIs DEF TraceInv
    <3>2. ASSUME NEW i \in DOMAIN held'
          PROVE  /\ held'[i].baggage <= Len(maps') /\ held'[i].state <= Len(states')
                 /\ IsValid(held'[i]) => held'[i].state # 0
      <4>1. CASE held'[i] = c
        BY <4>1
      <4>2. CASE i \in DOMAIN held /\ held'[i] = held[i]
        BY <1>1, <3>1, <4>2 DEF Within, Context
      <4> QED
        BY <1>4, <4>1, <4>2
    <3> QED
      BY <3>2 DEF Within
  <2> QED
    BY <1>2, <2>1, <2>2 DEF TraceInv, TypeInv
<1>7. KnownInv'
  <2>1. \A i \in DOMAIN held' : Known(held'[i])
    BY <1>4 DEF TraceInv, KnownInv
  <2>2. \A i \in DOMAIN held' : Known(held[i])'
    BY <2>1, <1>5 DEF Known, Started, SameTrace
  <2>3. \A i \in DOMAIN spans : Known(spans[i].context)'
    BY DEF TraceInv, KnownInv, Known, Started, SameTrace
  <2> QED
    BY <2>2, <2>3 DEF KnownInv
<1>8. CarrierInv'
  <2>1. CASE carrier' = NoCarrier
    BY <2>1 DEF CarrierInv, Arrivals, NoCarrier, Formats
  <2>2. CASE carrier' = carrier
    <3>1. Arrivals' = Arrivals
      BY <2>2 DEF Arrivals
    <3>2. \A d \in Arrivals' : IsRead(d) /\ Known(d)'
      BY <3>1, <1>5 DEF TraceInv, CarrierInv
    <3>3. carrier.format = "context" => Known(carrier)'
      BY <2>2 DEF TraceInv, CarrierInv, Known, Started, SameTrace
    <3> QED
      BY <1>1, <2>2, <3>2, <3>3 DEF TraceInv, CarrierInv
  <2> QED
    BY <2>1, <2>2
<1> QED
  BY <1>5, <1>6, <1>7, <1>8 DEF TraceInv

(* A span more: its own ID is fresh, or its context was given. *)
LEMMA SpanAdded ==
  ASSUME TraceInv, setup' = setup, held' = held, carrier' = carrier, Len(spans) < MaxSpans,
         NEW c \in Context, NEW how \in {"root", "child", "shared", "self"},
         spans' = Append(spans, [how |-> how, context |-> c]),
         maps' \in Seq(Baggages), Len(maps) <= Len(maps'), c.baggage <= Len(maps'),
         states' \in Seq(State), Len(states) <= Len(states'), c.state \in 1..Len(states'),
         c.parent \in Ours => Started(c.parent, c),
         IF how \in {"root", "child"} THEN c.span = Fresh
         ELSE c.span \in Ours => Started(c.span, c),
         how = "root" => c.parent = 0 /\ c.span = c.lo,
         how = "child" => c.parent # 0
  PROVE  TraceInv'
<1> DEFINE n == Len(spans) + 1
           span == [how |-> how, context |-> c]
<1>1. /\ Len(spans) \in Nat /\ Len(maps) \in Nat /\ Len(states) \in Nat
      /\ Len(maps') \in Nat /\ Len(states') \in Nat /\ MaxSpans \in Nat
      /\ DOMAIN spans = 1..Len(spans)
  BY LenProperties, SmallIDs DEF TraceInv, TypeInv
<1>2. span \in Span /\ span.how = how /\ span.context = c
  BY DEF Span
<1> HIDE DEF span
<1>3. /\ spans' \in Seq(Span) /\ Len(spans') = n /\ DOMAIN spans' = 1..n
      /\ \A i \in 1..Len(spans) : spans'[i] = spans[i]
      /\ spans'[n] = span
  <2>1. spans' = Append(spans, span) /\ spans \in Seq(Span)
    BY DEF TraceInv, TypeInv, span
  <2>2. spans' \in Seq(Span) /\ Len(spans') = Len(spans) + 1
    BY <2>1, <1>2, AppendProperties
  <2> QED
    BY <1>1, <1>2, <2>1, <2>2, AppendProperties, LenProperties
<1>4. \A i \in DOMAIN spans' : \/ i \in DOMAIN spans /\ spans'[i] = spans[i]
                               \/ i = n /\ spans'[i] = span
  BY <1>1, <1>3
<1>5. \A d : Known(d) => Known(d)'
  BY <1>1, <1>3, KnownKept
<1>6. Started(c.span, c)'
  <2>1. n \in DOMAIN spans' /\ spans'[n].context = c
    BY <1>1, <1>2, <1>3
  <2> HIDE DEF n
  <2> QED
    BY <2>1 DEF Started, SameTrace
<1>7. c.parent \in Ours => Started(c.parent, c)'
  BY <1>1, <1>3 DEF Started, SameTrace
<1>8. TypeInv'
  <2>1. ASSUME NEW i \in DOMAIN spans'
        PROVE  /\ spans'[i].context.baggage <= Len(maps')
               /\ spans'[i].context.state <= Len(states') /\ spans'[i].context.state # 0
    <3>1. CASE i = n /\ spans'[i] = span
      BY <1>2, <3>1
    <3>2. CASE i \in DOMAIN spans /\ spans'[i] = spans[i]
      <4>1. /\ spans[i].context \in Context /\ Within(spans[i].context)
            /\ spans[i].context.state # 0
        BY <3>2, SpanIs DEF TraceInv
      <4> QED
        BY <1>1, <3>2, <4>1 DEF Within, Context
    <3> QED
      BY <1>4, <3>1, <3>2
  <2>2. ASSUME NEW i \in DOMAIN held
        PROVE  /\ held[i].baggage <= Len(maps') /\ held[i].state <= Len(states')
               /\ IsValid(held[i]) => held[i].state # 0
    <3>1. held[i] \in Context /\ Within(held[i])
      BY HeldIs DEF TraceInv
    <3> QED
      BY <1>1, <3>1 DEF Within, Context
  <2> QED
    BY <1>1, <1>3, <2>1, <2>2 DEF TraceInv, TypeInv, Within
<1>9. KnownInv'
  <2>1. ASSUME NEW i \in DOMAIN spans' PROVE Known(spans[i].context)'
    <3>1. CASE i \in DOMAIN spans /\ spans'[i] = spans[i]
      <4>1. PICK d : d = spans[i].context /\ d = spans'[i].context
        BY <3>1
      <4>2. Known(d)
        BY <3>1, <4>1 DEF TraceInv, KnownInv
      <4>3. Known(d)'
        BY <1>5, <4>2
      <4> QED
        BY <4>1, <4>3 DEF Known, Started, SameTrace
    <3>2. CASE i = n /\ spans'[i] = span
      <4>1. spans'[i].context = c
        BY <1>2, <3>2
      <4>2. Known(c)'
        BY <1>6, <1>7 DEF Known
      <4> QED
        BY <4>1, <4>2 DEF Known, Started, SameTrace
    <3> QED
      BY <1>4, <3>1, <3>2
  <2>2. ASSUME NEW i \in DOMAIN held PROVE Known(held[i])'
    <3>1. Known(held[i])
      BY DEF TraceInv, KnownInv
    <3> QED
      BY <1>5, <3>1 DEF Known, Started, SameTrace
  <2> QED
    BY <2>1, <2>2 DEF KnownInv
<1>10. CarrierInv'
  <2>1. Arrivals' = Arrivals
    BY DEF Arrivals
  <2>2. \A d \in Arrivals' : IsRead(d) /\ Known(d)'
    BY <2>1, <1>5 DEF TraceInv, CarrierInv
  <2>3. carrier.format = "context" => Known(carrier)'
    BY <1>5 DEF TraceInv, CarrierInv, Known, Started, SameTrace
  <2> QED
    BY <1>1, <2>2, <2>3 DEF TraceInv, CarrierInv
<1>11. /\ Fresh \in Nat \ {0} /\ Fresh <= n
       /\ Fresh' = IF how \in {"root", "child"} THEN Fresh + 1 ELSE Fresh
  <2> DEFINE
       S == {i \in DOMAIN spans : spans[i].how \in {"root", "child"}}
       T == {i \in DOMAIN spans' : spans'[i].how \in {"root", "child"}}
  <2>1. S \subseteq 1..Len(spans) /\ n \notin S
    BY <1>1
  <2>2. IsFiniteSet(S)
    <3>1. IsFiniteSet(1..Len(spans))
      BY <1>1, FS_Interval
    <3> QED
      BY <2>1, <3>1, FS_Subset
  <2>3. T = IF how \in {"root", "child"} THEN S \cup {n} ELSE S
    BY <1>1, <1>2, <1>3, <1>4
  <2>4. Fresh = 1 + Cardinality(S) /\ Fresh' = 1 + Cardinality(T) /\ Cardinality(S) \in Nat
    BY <2>2, FS_CardinalityType DEF Fresh
  <2> HIDE DEF S, T
  <2>5. Cardinality(S \cup {n}) = Cardinality(S) + 1
    BY <2>1, <2>2, FS_AddElement
  <2> QED
    BY <2>3, <2>4, <2>5, FreshIs DEF TraceInv
<1>12. FreshInv'
  <2>1. ASSUME NEW i \in DOMAIN spans', spans'[i].context.span \in Fresh'..MaxSpans
        PROVE  FALSE
    <3>1. spans'[i].context.span \in Fresh..MaxSpans /\ spans'[i].context.span \in Ours
      BY <1>1, <1>11, <2>1 DEF Ours
    <3>2. CASE i \in DOMAIN spans /\ spans'[i] = spans[i]
      BY <3>1, <3>2 DEF TraceInv, FreshInv
    <3>3. CASE spans'[i] = span /\ how \in {"root", "child"}
      BY <1>2, <1>11, <1>1, <2>1, <3>3
    <3>4. CASE spans'[i] = span /\ how \notin {"root", "child"}
      <4>1. PICK j \in DOMAIN spans : spans[j].context.span = c.span
        BY <1>2, <3>1, <3>4 DEF Started
      <4> QED
        BY <1>2, <3>1, <3>4, <4>1 DEF TraceInv, FreshInv
    <3> QED
      BY <1>4, <3>2, <3>3, <3>4
  <2> QED
    BY <2>1 DEF FreshInv
<1>13. TreeInv'
  <2> DEFINE
       Now(i, id, d) == \E j \in 1..i - 1 :
         /\ spans'[j].context.span = id /\ spans'[j].context.lo = d.lo
         /\ spans'[j].context.hi = d.hi \/ "zipkin" \in setup'.formats
  <2>1. ASSUME NEW i \in DOMAIN spans, NEW id, NEW d
        PROVE  Now(i, id, d) <=> Earlier(i, id, d)
    <3>1. 1..i - 1 \subseteq 1..Len(spans)
      BY <1>1
    <3> QED
      BY <1>3, <3>1 DEF Earlier, SameTrace
  <2>2. ASSUME NEW id, NEW d
        PROVE  Now(n, id, d) <=> Started(id, d)
    <3>1. 1..n - 1 = DOMAIN spans
      BY <1>1
    <3> QED
      BY <1>1, <1>3, <3>1 DEF Started, SameTrace
  <2>3. ASSUME NEW i \in DOMAIN spans'
        PROVE  LET d == spans'[i].context
               IN /\ spans'[i].how = "root" => d.parent = 0 /\ d.span = d.lo
                  /\ spans'[i].how = "child" => d.parent # 0
                  /\ d.parent \in Ours => Now(i, d.parent, d)
                  /\ Now(i, d.span, d) => spans'[i].how \in {"self", "shared"}
    <3>1. CASE i \in DOMAIN spans /\ spans'[i] = spans[i]
      <4> DEFINE d == spans[i].context
      <4>1. /\ spans[i].how = "root" => d.parent = 0 /\ d.span = d.lo
            /\ spans[i].how = "child" => d.parent # 0
            /\ d.parent \in Ours => Earlier(i, d.parent, d)
            /\ Earlier(i, d.span, d) => spans[i].how \in {"self", "shared"}
        BY <3>1 DEF TraceInv, TreeInv
      <4> HIDE DEF Now
      <4> QED
        BY <2>1, <3>1, <4>1
    <3>2. CASE i = n /\ spans'[i] = span
      <4>1. how \in {"root", "child"} => ~ Started(c.span, c)
        BY <1>1, <1>11 DEF TraceInv, FreshInv, Started
      <4> HIDE DEF Now
      <4> QED
        BY <1>2, <2>2, <3>2, <4>1
    <3> QED
      BY <1>4, <3>1, <3>2
  <2> QED
    BY <2>3 DEF TreeInv, Earlier, SameTrace, Ours
<1> QED
  BY <1>8, <1>9, <1>10, <1>12, <1>13 DEF TraceInv

LEMMA DecidedIs ==
  ASSUME NEW s \in State, NEW d \in Decided(s)
  PROVE  d \in State
<1>1. CASE d = s
  BY <1>1
<1>2. CASE d # s
  <2>1. PICK decision \in setup.decisions :
          d = [s EXCEPT !.final = (decision # "retry"),
                        !.flags = IF decision = "sample" /\ ~ IsSampled(@) THEN @ + 1 ELSE @]
    BY <1>2, Zenon DEF Decided
  <2>2. ~ IsSampled(s.flags) => s.flags + 1 \in Flags
    BY DEF State, Flags, IsSampled
  <2> QED
    BY <2>1, <2>2 DEF State
<1> QED
  BY <1>1, <1>2

LEMMA StatePut ==
  ASSUME TypeInv, NEW s \in 1..Len(states), NEW state \in State
  PROVE  /\ [states EXCEPT ![s] = state] \in Seq(State)
         /\ Len([states EXCEPT ![s] = state]) = Len(states) /\ Len(states) \in Nat
<1>1. states \in Seq(State) /\ Len(states) \in Nat
  BY LenProperties DEF TypeInv
<1> QED
  BY ONLY <1>1, ExceptSeq, s \in 1..Len(states), state \in State

LEMMA StateIs ==
  ASSUME TypeInv, NEW s \in 1..Len(states)
  PROVE  states[s] \in State
<1>1. states \in Seq(State)
  BY DEF TypeInv
<1> QED
  BY ONLY <1>1, ElementOfSeq, s \in 1..Len(states)

LEMMA BaggageCopied ==
  ASSUME TypeInv, NEW c \in Context, Within(c)
  PROVE  /\ CopyBaggage(c) \in Seq(Baggages) /\ Len(maps) <= Len(CopyBaggage(c))
         /\ CopiedRef(c) \in Nat /\ CopiedRef(c) <= Len(CopyBaggage(c))
<1>1. maps \in Seq(Baggages) /\ Len(maps) \in Nat /\ Baggage(c) \in Baggages
  BY LenProperties, ViewIs DEF TypeInv
<1>2. /\ Append(maps, Baggage(c)) \in Seq(Baggages)
      /\ Len(Append(maps, Baggage(c))) = Len(maps) + 1
  BY <1>1, AppendProperties
<1> QED
  BY <1>1, <1>2 DEF CopyBaggage, CopiedRef

(* What StartSpan leaves alone, and the references it is given *)
Starting(refs) ==
  /\ Len(spans) < MaxSpans
  /\ setup' = setup /\ held' = held /\ carrier' = carrier
  /\ Parent(refs) \in Contexts \cup {EmptyContext}
  /\ OfType(refs, "self") # {} =>
       refs[Max(OfType(refs, "self"))].context \in Contexts \cup {EmptyContext}

LEMMA RootStep ==
  ASSUME TraceInv, NEW refs, Starting(refs), NEW hi \in {0, Fresh}, StartRoot(refs, hi)
  PROVE  TraceInv'
<1> DEFINE
     parent == Parent(refs)
     root  == [flags |-> 0, final |-> FALSE, localRoot |-> Fresh]
     debug == [root EXCEPT !.flags = 3]
     c == [EmptyContext EXCEPT !.hi = hi, !.lo = Fresh, !.span = Fresh,
             !.baggage = CopiedRef(parent), !.state = Len(states) + 1]
<1>1. parent \in Context /\ Within(parent)
  BY ContextsAre DEF TraceInv, Starting
<1>2. Fresh \in Ours /\ Fresh \in Nat
  BY FreshIs, SmallIDs, LenProperties DEF TraceInv, TypeInv, Starting, Ours
<1>3. root \in State /\ debug \in State
  BY <1>2 DEF State, Flags
<1> HIDE DEF root, debug
<1>4. PICK state \in State : states' = Append(states, state)
  <2>1. PICK s \in {root, debug} : \E state \in Decided(s) : states' = Append(states, state)
    BY Zenon DEF StartRoot, root, debug
  <2> QED
    BY <1>3, <2>1, DecidedIs
<1>5. /\ states \in Seq(State) /\ Len(states) \in Nat
      /\ states' \in Seq(State) /\ Len(states') = Len(states) + 1
  <2>1. states \in Seq(State) /\ Len(states) \in Nat
    BY LenProperties DEF TraceInv, TypeInv
  <2> QED
    BY <1>4, <2>1, AppendProperties
<1>6. /\ maps' \in Seq(Baggages) /\ Len(maps) <= Len(maps')
      /\ CopiedRef(parent) \in Nat /\ CopiedRef(parent) <= Len(maps')
  BY <1>1, BaggageCopied DEF TraceInv, StartRoot
<1>7. /\ c.span = Fresh /\ c.lo = Fresh /\ c.parent = 0
      /\ c.baggage = CopiedRef(parent) /\ c.state = Len(states) + 1
      /\ c \in Context
  <2>1. EmptyContext.parent = 0 /\ EmptyContext \in Context
    BY SmallIDs DEF EmptyContext
  <2>2. hi \in IDs /\ Fresh \in IDs /\ Len(states) + 1 \in Nat
    BY <1>2, <1>5, SmallIDs
  <2> QED
    BY <1>6, <2>1, <2>2 DEF Context
<1>8. spans' = Append(spans, [how |-> "root", context |-> c])
  BY DEF StartRoot
<1> HIDE DEF c, parent
<1>9. c.parent \notin Ours
  BY <1>7 DEF Ours
<1>10. Len(states) <= Len(states') /\ c.state \in 1..Len(states') /\ c.baggage <= Len(maps')
  BY <1>5, <1>6, <1>7
<1>11. /\ Len(spans) < MaxSpans
       /\ setup' = setup /\ held' = held /\ carrier' = carrier
  BY DEF Starting
<1> QED
  BY <1>5, <1>6, <1>7, <1>8, <1>9, <1>10, <1>11, SpanAdded

LEMMA ChildStep ==
  ASSUME TraceInv, NEW refs, Starting(refs), NEW rpcServer \in BOOLEAN, StartChild(refs, rpcServer)
  PROVE  TraceInv'
<1> DEFINE
     parent == Parent(refs)
     shared == rpcServer /\ setup.zipkinSharedRPCSpan
     how == IF shared THEN "shared" ELSE "child"
     c == [ChildOf(parent, shared) EXCEPT !.baggage = CopiedRef(parent)]
     joined == IF parent.remote
               THEN [states[parent.state] EXCEPT !.final = TRUE, !.localRoot = c.span]
               ELSE states[parent.state]
<1>1. parent \in Context /\ Within(parent) /\ Known(parent) /\ parent.span # 0
  BY ContextsAre DEF TraceInv, Starting, StartChild, IsValid
<1>2. Fresh \in Ours /\ Fresh \in Nat /\ Fresh \in IDs
  BY FreshIs, SmallIDs, LenProperties DEF TraceInv, TypeInv, Starting, Ours
<1>3. /\ maps' \in Seq(Baggages) /\ Len(maps) <= Len(maps')
      /\ CopiedRef(parent) \in Nat /\ CopiedRef(parent) <= Len(maps')
  BY <1>1, BaggageCopied DEF TraceInv, StartChild
<1>4. /\ c.hi = parent.hi /\ c.lo = parent.lo /\ c.state = parent.state
      /\ c.span = (IF shared THEN parent.span ELSE Fresh)
      /\ c.parent = (IF shared THEN parent.parent ELSE parent.span)
      /\ c.baggage = CopiedRef(parent) /\ c \in Context
  BY <1>1, <1>2, <1>3 DEF ChildOf, Context
<1>5. spans' = Append(spans, [how |-> how, context |-> c])
  BY DEF StartChild
<1>6. /\ Len(states) \in Nat /\ parent.state \in 1..Len(states)
      /\ states' \in Seq(State) /\ Len(states') = Len(states)
  <2>1. parent.state \in 1..Len(states) /\ IsValid(parent)
    BY <1>1, LenProperties DEF TraceInv, TypeInv, StartChild, Within, Context
  <2>2. states[parent.state] \in State
    BY <2>1, StateIs DEF TraceInv
  <2>3. joined \in State
    <3>1. c.span \in Nat
      BY <1>1, <1>2, <1>4, SmallIDs DEF Context
    <3> HIDE DEF c
    <3> QED
      BY <2>2, <3>1 DEF State
  <2>4. PICK state \in Decided(joined) : states' = [states EXCEPT ![parent.state] = state]
    BY Zenon DEF StartChild
  <2> HIDE DEF joined, parent
  <2>5. state \in State
    BY <2>3, DecidedIs
  <2> QED
    BY <2>1, <2>4, <2>5, StatePut DEF TraceInv
<1> HIDE DEF c, parent
<1>7. c.parent \in Ours => Started(c.parent, c)
  BY <1>1, <1>4 DEF Known, Started, SameTrace
<1>8. how = "shared" => (c.span \in Ours => Started(c.span, c))
  BY <1>1, <1>4 DEF Known, Started, SameTrace
<1>9. how = "child" => c.span = Fresh /\ c.parent # 0
  BY <1>1, <1>4
<1>10. /\ how \in {"shared", "child"} /\ c.state \in 1..Len(states')
       /\ Len(states) <= Len(states') /\ c.baggage <= Len(maps')
  BY <1>3, <1>4, <1>6
<1>11. /\ Len(spans) < MaxSpans
       /\ setup' = setup /\ held' = held /\ carrier' = carrier
  BY DEF Starting
<1> HIDE DEF how
<1> QED
  BY <1>3, <1>4, <1>5, <1>6, <1>7, <1>8, <1>9, <1>10, <1>11, SpanAdded

LEMMA SelfStep ==
  ASSUME TraceInv, NEW refs, Starting(refs), StartSelf(refs)
  PROVE  TraceInv'
<1> DEFINE self == refs[Max(OfType(refs, "self"))].context
<1>1. self \in Context /\ Within(self) /\ Known(self) /\ self.state # 0
  BY ContextsAre DEF TraceInv, Starting, StartSelf
<1>2. /\ Len(states) \in Nat /\ self.state \in 1..Len(states)
      /\ states' \in Seq(State) /\ Len(states') = Len(states)
  <2>1. self.state \in 1..Len(states)
    BY <1>1, LenProperties DEF TraceInv, TypeInv, Within, Context
  <2>2. PICK state \in Decided(states[self.state]) : states' = [states EXCEPT ![self.state] = state]
    BY Zenon DEF StartSelf
  <2> HIDE DEF self
  <2>3. state \in State
    BY <2>1, StateIs, DecidedIs DEF TraceInv
  <2> QED
    BY <2>1, <2>2, <2>3, StatePut DEF TraceInv
<1>3. maps' = maps /\ spans' = Append(spans, [how |-> "self", context |-> self])
  BY DEF StartSelf
<1> HIDE DEF self
<1>4. /\ maps' \in Seq(Baggages) /\ Len(maps) <= Len(maps') /\ self.baggage <= Len(maps')
      /\ Len(states) <= Len(states') /\ self.state \in 1..Len(states')
  BY <1>1, <1>2, <1>3, LenProperties DEF TraceInv, TypeInv, Within
<1>5. /\ Len(spans) < MaxSpans
      /\ setup' = setup /\ held' = held /\ carrier' = carrier
  BY DEF Starting
<1>6. /\ self.span \in Ours => Started(self.span, self)
      /\ self.parent \in Ours => Started(self.parent, self)
  BY <1>1 DEF Known
<1> QED
  BY <1>1, <1>2, <1>3, <1>4, <1>5, <1>6, SpanAdded

LEMMA StartSpanStep == ASSUME TraceInv, StartSpan PROVE TraceInv'
<1> DEFINE References(shape, given) ==
             [i \in DOMAIN shape |-> [type |-> shape[i], context |-> given[i]]]
           Starts(refs) ==
             \/ \E hi \in (IF setup.gen128Bit THEN {0, Fresh} ELSE {0}) : StartRoot(refs, hi)
             \/ \E rpcServer \in BOOLEAN : StartChild(refs, rpcServer)
             \/ StartSelf(refs)
<1>1. \E shape \in Shapes : \E given \in [DOMAIN shape -> Contexts \cup {EmptyContext}] :
        Starts(References(shape, given))
  BY Zenon DEF StartSpan
<1> HIDE DEF Starts
<1>2. PICK shape \in Shapes : \E given \in [DOMAIN shape -> Contexts \cup {EmptyContext}] :
        Starts(References(shape, given))
  BY <1>1
<1>3. PICK given \in [DOMAIN shape -> Contexts \cup {EmptyContext}] :
        Starts(References(shape, given))
  BY <1>2
<1>4. PICK refs : refs = [i \in DOMAIN shape |-> [type |-> shape[i], context |-> given[i]]]
  OBVIOUS
<1>5. Starting(refs)
  <2>1. /\ Parent(refs) \in Contexts \cup {EmptyContext}
        /\ OfType(refs, "self") # {} =>
             refs[Max(OfType(refs, "self"))].context \in Contexts \cup {EmptyContext}
    BY <1>4, GivenContexts
  <2> QED
    BY <2>1 DEF StartSpan, Starting
<1>6. \/ \E hi \in {0, Fresh} : StartRoot(refs, hi)
      \/ \E rpcServer \in BOOLEAN : StartChild(refs, rpcServer)
      \/ StartSelf(refs)
  BY <1>3, <1>4 DEF Starts
<1> QED
  BY <1>5, <1>6, RootStep, ChildStep, SelfStep

(* Steps after which the spans and the contexts kept are the same. *)
LEMMA CarrierChanged ==
  ASSUME TraceInv, setup' = setup, spans' = spans, held' = held, maps' = maps,
         states' \in Seq(State), Len(states') = Len(states), CarrierInv'
  PROVE  TraceInv'
<1>1. /\ \A c : Known(c) => Known(c)'
      /\ FreshInv' /\ TreeInv'
  BY SpansAlike DEF TraceInv
<1>2. TypeInv'
  BY DEF TraceInv, TypeInv, Within
<1>3. KnownInv'
  BY DEF TraceInv, KnownInv, Known, Started, SameTrace
<1> QED
  BY <1>1, <1>2, <1>3 DEF TraceInv

LEMMA FirehoseStep ==
  ASSUME TraceInv, NEW i \in DOMAIN spans, EnableFirehose(i)
  PROVE  TraceInv'
<1> DEFINE s == spans[i].context.state
           state == [states[s] EXCEPT !.flags = IF IsFirehose(@) THEN @ ELSE @ + 8]
<1>1. s \in 1..Len(states)
  BY SpanIs, LenProperties DEF TraceInv, TypeInv, Within, Context
<1>2. states[s] \in State
  BY <1>1, StateIs DEF TraceInv
<1>3. state \in State
  <2>1. ~ IsFirehose(states[s].flags) => states[s].flags + 8 \in Flags
    BY <1>2 DEF State, Flags, IsFirehose
  <2> QED
    BY <1>2, <2>1 DEF State
<1>4. states' = [states EXCEPT ![s] = state]
  BY DEF EnableFirehose
<1> HIDE DEF s, state
<1>5. states' \in Seq(State) /\ Len(states') = Len(states)
  BY <1>1, <1>3, <1>4, StatePut DEF TraceInv
<1>6. /\ setup' = setup /\ spans' = spans /\ held' = held /\ maps' = maps
      /\ carrier' = carrier
  BY DEF EnableFirehose
<1>7. CarrierInv'
  BY <1>5, <1>6 DEF TraceInv, CarrierInv, Arrivals, Known, Started, SameTrace
<1> QED
  BY <1>5, <1>6, <1>7, CarrierChanged

LEMMA InjectStep ==
  ASSUME TraceInv, NEW i \in DOMAIN spans, InjectSpan(i)
  PROVE  TraceInv'
<1>1. PICK format \in setup.formats : carrier' = Inject(format, View(spans[i].context))
  BY Zenon DEF InjectSpan
<1>2. /\ setup' = setup /\ spans' = spans /\ held' = held /\ maps' = maps
      /\ states' = states /\ format \in Formats
  BY <1>1, SetupAssumption DEF InjectSpan, TraceInv, TypeInv
<1>3. PICK c : c = spans[i].context
  OBVIOUS
<1>4. c \in Context /\ Within(c) /\ Known(c) /\ c.state # 0
  BY <1>3, SpanIs DEF TraceInv, KnownInv
<1>5. PICK v : v = View(c)
  OBVIOUS
<1>6. /\ IsView(v) /\ v.flags \in Flags
      /\ v.hi = c.hi /\ v.lo = c.lo /\ v.span = c.span /\ v.parent = c.parent
  <2>1. v.hi = c.hi /\ v.lo = c.lo /\ v.span = c.span /\ v.parent = c.parent
    BY <1>5 DEF View
  <2> QED
    BY <1>4, <1>5, <2>1, ViewIs DEF TraceInv
<1>7. carrier'.format = format
  <2>1. CASE format \in {"text", "http"}
    BY <1>1, <2>1 DEF Inject, TextInject
  <2>2. CASE format = "binary"
    BY <1>1, <2>2 DEF Inject, BinaryInject
  <2>3. CASE format = "b3"
    BY <1>1, <2>3 DEF Inject, B3Inject
  <2>4. CASE format = "zipkin"
    BY <1>1, <2>4 DEF Inject, ZipkinInject
  <2> QED
    BY <1>2, <2>1, <2>2, <2>3, <2>4 DEF Formats
<1>8. Arrivals' = Extract(Inject(format, v)) \ {Failure}
  BY <1>1, <1>2, <1>3, <1>5, <1>7 DEF Arrivals
<1>9. ASSUME NEW d \in Arrivals'
      PROVE  IsRead(d) /\ Known(d)
  <2>1. Survives(format, v, d)
    BY <1>2, <1>6, <1>8, CarrierExact
  <2>2. d.flags \in Flags
    BY <1>6, <2>1 DEF Survives, Written, Flags, NoFlags
  <2>3. IsRead(d)
    <3>1. d.flags # NoFlags
      BY <2>2 DEF NoFlags, Flags
    <3>2. d.hi \in IDs /\ d.lo \in IDs /\ d.span \in IDs /\ d.parent \in IDs
      BY <1>6, <2>1, SmallIDs DEF IsView, Survives
    <3>3. d.baggage \in Baggages /\ d.debugID = FALSE
      BY <2>1 DEF Survives
    <3> QED
      BY <2>2, <3>1, <3>2, <3>3 DEF IsRead, IsView
  <2>4. d.hi = v.hi \/ "zipkin" \in setup.formats
    BY <1>1, <2>1 DEF Survives
  <2>5. d.lo = c.lo /\ d.span = c.span /\ d.parent = c.parent
    BY <1>6, <2>1 DEF Survives
  <2>6. Known(d)
    BY <1>4, <1>6, <2>4, <2>5, KnownAlike
  <2> QED
    BY <2>3, <2>6
<1>10. carrier'.format # "context"
  BY <1>2, <1>7 DEF Formats
<1>11. CarrierInv'
  BY <1>2, <1>9, <1>10 DEF CarrierInv, Known, Started, SameTrace
<1> QED
  BY <1>2, <1>11, CarrierChanged DEF TraceInv, TypeInv

LEMMA InteropStep ==
  ASSUME TraceInv, NEW i \in DOMAIN spans, InjectInterop(i)
  PROVE  TraceInv'
<1>1. PICK c : c = spans[i].context
  OBVIOUS
<1>2. c \in Context /\ Within(c) /\ Known(c) /\ c.state # 0 /\ Baggage(c) \in Baggages
  BY <1>1, SpanIs, ViewIs DEF TraceInv, KnownInv
<1>3. /\ setup' = setup /\ spans' = spans /\ held' = held /\ maps' = maps /\ states' = states
      /\ carrier' = [format |-> "context", hi |-> c.hi, lo |-> c.lo, span |-> c.span,
                     parent |-> c.parent, baggage |-> Baggage(c), state |-> c.state]
  BY <1>1 DEF InjectInterop
<1>4. /\ carrier'.format = "context" /\ carrier'.hi = c.hi /\ carrier'.lo = c.lo
      /\ carrier'.span = c.span /\ carrier'.parent = c.parent
      /\ carrier'.baggage = Baggage(c) /\ carrier'.state = c.state
  BY <1>3
<1>5. c.state \in 1..Len(states)
  BY <1>2, LenProperties DEF TraceInv, TypeInv, Within, Context
<1>6. Arrivals' = {}
  BY <1>4 DEF Arrivals, Formats
<1>7. Known(carrier)'
  BY <1>2, <1>3, <1>4 DEF Known, Started, SameTrace
<1>8. CarrierInv'
  BY <1>2, <1>3, <1>4, <1>5, <1>6, <1>7 DEF CarrierInv, Context
<1> QED
  BY <1>3, <1>8, CarrierChanged DEF TraceInv, TypeInv

LEMMA FailStep == ASSUME TraceInv, ExtractFails PROVE TraceInv'
<1>1. CarrierInv'
  BY DEF ExtractFails, CarrierInv, Arrivals, NoCarrier, Formats
<1> QED
  BY <1>1, CarrierChanged DEF ExtractFails, TraceInv, TypeInv

LEMMA KeepStep ==
  ASSUME TraceInv, NEW i \in DOMAIN spans, KeepContext(i)
  PROVE  TraceInv'
<1>1. PICK c : c = spans[i].context
  OBVIOUS
<1>2. c \in Context /\ Within(c) /\ Known(c) /\ c.state # 0
  BY <1>1, SpanIs DEF TraceInv, KnownInv
<1>3. /\ setup' = setup /\ spans' = spans /\ held' = Append(held, c)
      /\ maps' = maps /\ states' = states /\ carrier' = carrier
  BY <1>1 DEF KeepContext
<1>4. /\ maps \in Seq(Baggages) /\ states \in Seq(State)
      /\ Len(maps) \in Nat /\ Len(states) \in Nat
  BY LenProperties DEF TraceInv, TypeInv
<1> QED
  BY <1>2, <1>3, <1>4, ContextHeld DEF Within

(* A map, if there is anything for it. *)
LEMMA MapAdded ==
  ASSUME TypeInv, NEW b \in Baggages, maps' = IF DOMAIN b = {} THEN maps ELSE Append(maps, b),
         NEW n, n = IF DOMAIN b = {} THEN 0 ELSE Len(maps) + 1
  PROVE  maps' \in Seq(Baggages) /\ Len(maps) <= Len(maps') /\ n \in Nat /\ n <= Len(maps')
<1>1. maps \in Seq(Baggages) /\ Len(maps) \in Nat
  BY LenProperties DEF TypeInv
<1>2. Append(maps, b) \in Seq(Baggages) /\ Len(Append(maps, b)) = Len(maps) + 1
  BY <1>1, AppendProperties
<1> QED
  BY <1>1, <1>2

LEMMA ExtractStep == ASSUME TraceInv, ExtractContext PROVE TraceInv'
<1> DEFINE
     map(c)   == IF DOMAIN c.baggage = {} THEN 0 ELSE Len(maps) + 1
     state(c) == IF c.flags = NoFlags THEN 0 ELSE Len(states) + 1
     read(c)  == [flags |-> c.flags, final |-> FALSE, localRoot |-> 0]
     kept(c)  == [hi |-> c.hi, lo |-> c.lo, span |-> c.span, parent |-> c.parent,
                  baggage |-> map(c), debugID |-> c.debugID, state |-> state(c), remote |-> TRUE]
<1>1. PICK c \in Extract(carrier) \ {Failure} :
        /\ maps' = IF DOMAIN c.baggage = {} THEN maps ELSE Append(maps, c.baggage)
        /\ states' = IF c.flags = NoFlags THEN states ELSE Append(states, read(c))
        /\ held' = Append(held, kept(c))
  BY Zenon DEF ExtractContext
<1>2. IsRead(c) /\ Known(c)
  BY <1>1 DEF ExtractContext, TraceInv, CarrierInv, Arrivals
<1>3. /\ maps' \in Seq(Baggages) /\ Len(maps) <= Len(maps')
      /\ map(c) \in Nat /\ map(c) <= Len(maps')
  BY <1>1, <1>2, MapAdded DEF TraceInv, IsRead, IsView
<1>4. /\ states' \in Seq(State) /\ Len(states) <= Len(states')
      /\ state(c) \in Nat /\ state(c) <= Len(states')
      /\ IsValid(c) => state(c) # 0
  <2>1. states \in Seq(State) /\ Len(states) \in Nat
    BY LenProperties DEF TraceInv, TypeInv
  <2>2. CASE c.flags = NoFlags
    BY <1>1, <1>2, <2>1, <2>2 DEF IsRead
  <2>3. CASE c.flags # NoFlags
    <3>1. read(c) \in State
      BY <1>2, <2>3 DEF IsRead, IsView, State
    <3> HIDE DEF read
    <3>2. Append(states, read(c)) \in Seq(State) /\ Len(Append(states, read(c))) = Len(states) + 1
      BY <2>1, <3>1, AppendProperties
    <3> QED
      BY <1>1, <2>1, <2>3, <3>2
  <2> QED
    BY <2>2, <2>3
<1> HIDE DEF map, state, read
<1>5. PICK d : d = kept(c)
  OBVIOUS
<1>6. /\ d.hi = c.hi /\ d.lo = c.lo /\ d.span = c.span /\ d.parent = c.parent
      /\ d.baggage = map(c) /\ d.state = state(c)
  BY <1>5
<1>7. d \in Context
  BY <1>2, <1>3, <1>4, <1>5 DEF IsRead, IsView, Context
<1>8. IsValid(d) => d.state # 0
  BY <1>4, <1>6 DEF IsValid, IsValidTrace
<1>9. Known(d)
  BY <1>2, <1>6, KnownAlike
<1>10. setup' = setup /\ spans' = spans /\ carrier' = NoCarrier /\ held' = Append(held, d)
  BY <1>1, <1>5 DEF ExtractContext
<1> QED
  BY <1>3, <1>4, <1>6, <1>7, <1>8, <1>9, <1>10, ContextHeld

LEMMA ExtractInteropStep == ASSUME TraceInv, ExtractInterop PROVE TraceInv'
<1> DEFINE
     map  == IF DOMAIN carrier.baggage = {} THEN 0 ELSE Len(maps) + 1
     kept == [EmptyContext EXCEPT !.hi = carrier.hi, !.lo = carrier.lo, !.span = carrier.span,
                !.parent = carrier.parent, !.state = carrier.state, !.remote = TRUE,
                !.baggage = map]
<1>1. /\ carrier.hi \in IDs /\ carrier.lo \in IDs /\ carrier.span \in IDs /\ carrier.parent \in IDs
      /\ carrier.baggage \in Baggages /\ carrier.state \in 1..Len(states)
      /\ Known(carrier)
  BY DEF ExtractInterop, TraceInv, CarrierInv
<1>2. /\ maps' = IF DOMAIN carrier.baggage = {} THEN maps ELSE Append(maps, carrier.baggage)
      /\ held' = Append(held, kept)
      /\ setup' = setup /\ spans' = spans /\ carrier' = NoCarrier /\ states' = states
  BY DEF ExtractInterop
<1>3. /\ maps' \in Seq(Baggages) /\ Len(maps) <= Len(maps')
      /\ map \in Nat /\ map <= Len(maps')
  BY <1>1, <1>2, MapAdded DEF TraceInv
<1> HIDE DEF map
<1>4. states' \in Seq(State) /\ Len(states) \in Nat
  BY <1>2, LenProperties DEF TraceInv, TypeInv
<1>5. /\ kept.hi = carrier.hi /\ kept.lo = carrier.lo /\ kept.span = carrier.span
      /\ kept.parent = carrier.parent /\ kept.baggage = map /\ kept.state = carrier.state
      /\ kept \in Context
  <2>1. EmptyContext \in Context /\ carrier.state \in Nat
    BY <1>1, <1>4, SmallIDs
  <2>2. /\ kept.hi = carrier.hi /\ kept.lo = carrier.lo /\ kept.span = carrier.span
        /\ kept.parent = carrier.parent /\ kept.baggage = map /\ kept.state = carrier.state
    BY <2>1 DEF Context
  <2>3. kept \in Context
    BY <1>1, <1>3, <2>1 DEF Context
  <2> QED
    BY <2>2, <2>3
<1> HIDE DEF kept
<1>6. Known(kept)
  BY <1>1, <1>5, KnownAlike
<1>7. /\ Len(states) <= Len(states') /\ kept.state <= Len(states') /\ kept.state # 0
      /\ kept.baggage <= Len(maps')
  BY <1>1, <1>2, <1>3, <1>4, <1>5
<1> QED
  BY <1>2, <1>3, <1>4, <1>5, <1>6, <1>7, ContextHeld

(* What becomes of a context and of the heap: a map more, at most. *)
IsSet(c, done) ==
  /\ done.maps \in Seq(Baggages)
  /\ done.maps = maps \/ \E new : done.maps = Append(maps, new)
  /\ Len(maps) <= Len(done.maps)
  /\ done.context \in Context /\ done.context.baggage <= Len(done.maps)
  /\ done.context.hi = c.hi /\ done.context.lo = c.lo /\ done.context.span = c.span
  /\ done.context.parent = c.parent /\ done.context.state = c.state

LEMMA ItemSet ==
  ASSUME TypeInv, NEW c \in Context, Within(c), c.state # 0, NEW key \in Text, NEW value \in Text,
         NEW done, done = WithBaggageItem(c, key, value)
  PROVE  IsSet(c, done)
<1> DEFINE
     old == Baggage(c)
     new == IF value = << >> THEN Restrict(old, DOMAIN old \ {key})
            ELSE [k \in DOMAIN old \cup {key} |-> IF k = key THEN value ELSE old[k]]
     set == [c EXCEPT !.baggage = Len(maps) + 1, !.debugID = FALSE]
<1>1. maps \in Seq(Baggages) /\ Len(maps) \in Nat
  BY LenProperties DEF TypeInv
<1>2. DOMAIN old \subseteq Text /\ \A k \in DOMAIN old : old[k] \in Text
  BY ViewIs, BaggageIs
<1> HIDE DEF old
<1>3. new \in Baggages
  <2>1. Restrict(old, DOMAIN old \ {key}) \in [DOMAIN old \ {key} -> Text]
    BY <1>2 DEF Restrict
  <2>2. [k \in DOMAIN old \cup {key} |-> IF k = key THEN value ELSE old[k]]
          \in [DOMAIN old \cup {key} -> Text]
    BY <1>2
  <2>3. DOMAIN old \ {key} \in SUBSET Text /\ DOMAIN old \cup {key} \in SUBSET Text
    BY <1>2
  <2>4. \A S \in SUBSET Text : [S -> Text] \subseteq Baggages
    BY DEF Baggages
  <2> QED
    BY <2>1, <2>2, <2>3, <2>4
<1> HIDE DEF new
<1>4. Append(maps, new) \in Seq(Baggages) /\ Len(Append(maps, new)) = Len(maps) + 1
  BY <1>1, <1>3, AppendProperties
<1>5. /\ set \in Context /\ set.hi = c.hi /\ set.lo = c.lo /\ set.span = c.span
      /\ set.parent = c.parent /\ set.state = c.state /\ set.baggage = Len(maps) + 1
  <2>1. set \in Context
    <3>1. PICK n \in Nat : n = Len(maps) + 1
      BY <1>1
    <3>2. set = [[c EXCEPT !.baggage = n] EXCEPT !.debugID = FALSE]
      BY <3>1
    <3>3. PICK d \in Context : d = [c EXCEPT !.baggage = n]
      BY DEF Context
    <3> HIDE DEF set
    <3> QED
      BY ONLY <3>2, <3>3, Zenon DEF Context
  <2>2. /\ set.hi = c.hi /\ set.lo = c.lo /\ set.span = c.span
        /\ set.parent = c.parent /\ set.state = c.state /\ set.baggage = Len(maps) + 1
    BY DEF Context
  <2> QED
    BY <2>1, <2>2
<1> HIDE DEF set
<1>6. done = IF value = << >> /\ key \notin DOMAIN old THEN [context |-> c, maps |-> maps]
             ELSE [context |-> set, maps |-> Append(maps, new)]
  BY DEF WithBaggageItem, old, new, set
<1>7. CASE value = << >> /\ key \notin DOMAIN old
  <2>1. done.context = c /\ done.maps = maps
    BY <1>6, <1>7
  <2> QED
    BY <1>1, <2>1 DEF Within, IsSet
<1>8. CASE ~ (value = << >> /\ key \notin DOMAIN old)
  <2>1. done.context = set /\ done.maps = Append(maps, new)
    BY <1>6, <1>8
  <2> QED
    BY <1>1, <1>4, <1>5, <2>1 DEF IsSet
<1> QED
  BY <1>7, <1>8

(* setBaggage gives one span a new context, or none. *)
LEMMA ItemStep ==
  ASSUME TypeInv, NEW i \in DOMAIN spans, SetBaggageItem(i)
  PROVE  \E c \in Context, m \in Seq(Baggages) :
           /\ maps' = m /\ spans' = [spans EXCEPT ![i].context = c]
           /\ m = maps \/ \E new : m = Append(maps, new)
           /\ Len(maps) <= Len(m) /\ c.baggage <= Len(m)
           /\ c.hi = spans[i].context.hi /\ c.lo = spans[i].context.lo
           /\ c.span = spans[i].context.span /\ c.parent = spans[i].context.parent
           /\ c.state = spans[i].context.state
<1>1. PICK b : b = spans[i].context
  OBVIOUS
<1>2. b \in Context /\ Within(b) /\ b.state # 0 /\ spans[i] \in Span
  BY <1>1, SpanIs
<1>3. maps \in Seq(Baggages) /\ Len(maps) \in Nat
  BY LenProperties DEF TypeInv
<1>4. CASE spans' = spans /\ maps' = maps
  <2>1. spans' = [spans EXCEPT ![i].context = b]
    BY <1>1, <1>2, <1>4 DEF Span, TypeInv
  <2>2. /\ maps' = maps /\ Len(maps) <= Len(maps) /\ b.baggage <= Len(maps)
        /\ b.hi = spans[i].context.hi /\ b.lo = spans[i].context.lo
        /\ b.span = spans[i].context.span /\ b.parent = spans[i].context.parent
        /\ b.state = spans[i].context.state
    BY <1>1, <1>2, <1>3, <1>4 DEF Within
  <2> QED
    BY ONLY <1>2, <1>3, <2>1, <2>2
<1>5. CASE ~ (spans' = spans /\ maps' = maps)
  <2> DEFINE Cut(v, r) ==
    SubSeq(v, 1, IF Len(v) > r.maxValueLength THEN r.maxValueLength ELSE Len(v))
  <2>1. PICK item \in Items, r \in setup.restrictions :
          LET done == WithBaggageItem(spans[i].context, item[1], Cut(item[2], r))
          IN spans' = [spans EXCEPT ![i].context = done.context] /\ maps' = done.maps
    BY <1>5 DEF SetBaggageItem
  <2>2. item[1] \in Text /\ item[2] \in Text /\ r.maxValueLength \in Nat
    BY SetupAssumption DEF TypeInv
  <2>3. Cut(item[2], r) \in Text
    <3>1. item[2] \in Seq(Characters) /\ Len(item[2]) \in Nat
      BY <2>2, LenProperties DEF Text
    <3> QED
      BY <2>2, <3>1, SubSeqProperties DEF Text
  <2> HIDE DEF Cut
  <2>7. PICK key \in Text, value \in Text : key = item[1] /\ value = Cut(item[2], r)
    BY <2>2, <2>3
  <2>4. PICK done : done = WithBaggageItem(b, key, value)
    OBVIOUS
  <2>5. spans' = [spans EXCEPT ![i].context = done.context] /\ maps' = done.maps
    BY <1>1, <2>1, <2>4, <2>7
  <2>6. IsSet(b, done)
    BY <1>2, <2>4, <2>7, ItemSet
  <2> QED
    BY <1>1, <2>5, <2>6 DEF IsSet
<1> QED
  BY <1>4, <1>5

LEMMA SetStep ==
  ASSUME TraceInv, NEW i \in DOMAIN spans, SetBaggageItem(i)
  PROVE  TraceInv'
<1>1. PICK c \in Context, m \in Seq(Baggages) :
        /\ maps' = m /\ spans' = [spans EXCEPT ![i].context = c]
        /\ Len(maps) <= Len(m) /\ c.baggage <= Len(m)
        /\ c.hi = spans[i].context.hi /\ c.lo = spans[i].context.lo
        /\ c.span = spans[i].context.span /\ c.parent = spans[i].context.parent
        /\ c.state = spans[i].context.state
  BY ItemStep DEF TraceInv
<1>2. /\ setup' = setup /\ held' = held /\ carrier' = carrier /\ states' = states
      /\ maps' \in Seq(Baggages)
  BY <1>1 DEF SetBaggageItem
<1>3. /\ spans[i] \in Span /\ spans[i].context \in Context /\ spans[i].context.state # 0
      /\ i \in 1..Len(spans) /\ Len(spans) \in Nat /\ DOMAIN spans = 1..Len(spans)
      /\ spans[i].context.state <= Len(states)
  BY SpanIs, LenProperties DEF TraceInv, TypeInv, Within
<1>4. PICK span \in Span : span = [spans[i] EXCEPT !.context = c]
  BY <1>1, <1>3 DEF Span
<1>5. span.how = spans[i].how /\ span.context = c
  BY <1>3, <1>4 DEF Span
<1>6. /\ spans' \in Seq(Span) /\ Len(spans') = Len(spans) /\ DOMAIN spans' = DOMAIN spans
      /\ \A j \in DOMAIN spans : spans'[j] = IF j = i THEN span ELSE spans[j]
  <2>1. spans' = [spans EXCEPT ![i] = span] /\ spans \in Seq(Span)
    BY <1>1, <1>4 DEF TraceInv, TypeInv
  <2>2. /\ spans' \in Seq(Span) /\ Len(spans') = Len(spans)
        /\ \A j \in 1..Len(spans) : spans'[j] = IF j = i THEN span ELSE spans[j]
    BY ONLY <1>3, <1>4, <2>1, ExceptSeq
  <2>3. DOMAIN spans' = 1..Len(spans')
    BY <2>2, LenProperties
  <2> QED
    BY <1>3, <2>2, <2>3
<1>7. /\ \A d : Known(d) => Known(d)'
      /\ FreshInv' /\ TreeInv'
  BY <1>1, <1>2, <1>5, <1>6, SpansAlike DEF TraceInv
<1>8. Len(maps) \in Nat /\ Len(maps') \in Nat /\ Len(states) \in Nat
  BY <1>2, LenProperties DEF TraceInv, TypeInv
<1>9. TypeInv'
  <2>1. ASSUME NEW j \in DOMAIN spans'
        PROVE  /\ spans'[j].context.baggage <= Len(maps')
               /\ spans'[j].context.state <= Len(states') /\ spans'[j].context.state # 0
    <3>1. CASE j = i
      BY <1>1, <1>2, <1>3, <1>5, <1>6, <3>1
    <3>2. CASE j # i
      <4>1. /\ spans[j].context \in Context /\ Within(spans[j].context)
            /\ spans[j].context.state # 0
        BY <1>6, SpanIs DEF TraceInv
      <4>2. spans'[j] = spans[j]
        BY <1>6, <3>2
      <4> QED
        BY <1>1, <1>2, <1>8, <4>1, <4>2 DEF Within, Context
    <3> QED
      BY <3>1, <3>2
  <2>2. ASSUME NEW j \in DOMAIN held
        PROVE  /\ held[j].baggage <= Len(maps') /\ held[j].state <= Len(states')
               /\ IsValid(held[j]) => held[j].state # 0
    <3>1. held[j] \in Context /\ Within(held[j])
      BY HeldIs DEF TraceInv
    <3> QED
      BY <1>1, <1>2, <1>8, <3>1 DEF Within, Context
  <2> QED
    BY <1>2, <1>6, <2>1, <2>2 DEF TraceInv, TypeInv, Within
<1>10. KnownInv'
  <2>1. ASSUME NEW j \in DOMAIN spans' PROVE Known(spans[j].context)'
    <3>1. PICK d, e : d = spans[j].context /\ e = spans'[j].context
      OBVIOUS
    <3>2. Known(d)
      BY <1>6, <3>1 DEF TraceInv, KnownInv
    <3>3. e.hi = d.hi /\ e.lo = d.lo /\ e.span = d.span /\ e.parent = d.parent
      BY <1>1, <1>5, <1>6, <3>1
    <3>4. Known(e)
      BY <3>2, <3>3, KnownAlike
    <3>5. Known(e)'
      BY <1>7, <3>4
    <3> QED
      BY <3>1, <3>5 DEF Known, Started, SameTrace
  <2>2. ASSUME NEW j \in DOMAIN held PROVE Known(held[j])'
    <3>1. PICK d : d = held[j] /\ d = held'[j]
      BY <1>2
    <3>2. Known(d)
      BY <3>1 DEF TraceInv, KnownInv
    <3>3. Known(d)'
      BY <1>7, <3>2
    <3> QED
      BY <3>1, <3>3 DEF Known, Started, SameTrace
  <2> QED
    BY <1>2, <2>1, <2>2 DEF KnownInv
<1>11. CarrierInv'
  <2>1. Arrivals' = Arrivals
    BY <1>2 DEF Arrivals
  <2>2. \A d \in Arrivals' : IsRead(d) /\ Known(d)'
    BY <1>7, <2>1 DEF TraceInv, CarrierInv
  <2>3. carrier.format = "context" => Known(carrier)'
    BY <1>2, <1>7 DEF TraceInv, CarrierInv, Known, Started, SameTrace
  <2> QED
    BY <1>2, <1>8, <2>2, <2>3 DEF TraceInv, CarrierInv
<1> QED
  BY <1>7, <1>9, <1>10, <1>11 DEF TraceInv

LEMMA TraceInit == ASSUME Init PROVE TraceInv
<1>1. spans = << >> /\ held = << >> /\ DOMAIN spans = {} /\ DOMAIN held = {} /\ Len(spans) = 0
  BY DEF Init
<1>2. TypeInv
  BY <1>1, SmallIDs DEF Init, TypeInv
<1>3. KnownInv /\ FreshInv /\ TreeInv
  BY <1>1 DEF KnownInv, FreshInv, TreeInv
<1>4. CarrierInv
  <2>1. CASE carrier = NoCarrier
    BY <2>1 DEF CarrierInv, Arrivals, NoCarrier, Formats
  <2>2. CASE carrier \in setup.foreign
    <3>1. carrier.format \in Formats /\ carrier.format # "context"
      BY <2>2, SetupAssumption DEF Init, Formats
    <3>2. ASSUME NEW c \in Extract(carrier) \ {Failure}
          PROVE  IsRead(c) /\ Known(c)
      <4>1. /\ {c.hi, c.lo, c.span, c.parent} \subseteq IDs
            /\ {c.span, c.parent} \cap 1..MaxSpans = {}
            /\ c.flags \in Flags \cup {NoFlags} /\ (IsValid(c) => c.flags # NoFlags)
            /\ c.debugID \in BOOLEAN
            /\ DOMAIN c.baggage \subseteq Text /\ c.baggage \in [DOMAIN c.baggage -> Text]
        BY <2>2, SetupAssumption DEF Init
      <4>2. c.baggage \in Baggages
        BY <4>1 DEF Baggages
      <4>3. Known(c)
        BY <4>1 DEF Known, Ours
      <4> QED
        BY <4>1, <4>2, <4>3 DEF IsRead, IsView
    <3> QED
      BY <3>1, <3>2 DEF CarrierInv, Arrivals
  <2> QED
    BY <2>1, <2>2 DEF Init
<1> QED
  BY <1>2, <1>3, <1>4 DEF TraceInv

LEMMA TraceNext == ASSUME TraceInv, [Next]_vars PROVE TraceInv'
<1>1. CASE UNCHANGED vars
  BY <1>1 DEF vars, TraceInv, TypeInv, Within, KnownInv, Known, Started, SameTrace, CarrierInv,
       Arrivals, FreshInv, Fresh, TreeInv, Earlier
<1>2. CASE StartSpan
  BY <1>2, StartSpanStep
<1>3. CASE ExtractContext
  BY <1>3, ExtractStep
<1>4. CASE ExtractInterop
  BY <1>4, ExtractInteropStep
<1>5. CASE ExtractFails
  BY <1>5, FailStep
<1>6. CASE \E i \in DOMAIN spans : SetBaggageItem(i)
  BY <1>6, SetStep
<1>7. CASE \E i \in DOMAIN spans : EnableFirehose(i)
  BY <1>7, FirehoseStep
<1>8. CASE \E i \in DOMAIN spans : KeepContext(i)
  BY <1>8, KeepStep
<1>9. CASE \E i \in DOMAIN spans : InjectSpan(i)
  BY <1>9, InjectStep
<1>10. CASE \E i \in DOMAIN spans : InjectInterop(i)
  BY <1>10, InteropStep
<1> QED
  BY <1>1, <1>2, <1>3, <1>4, <1>5, <1>6, <1>7, <1>8, <1>9, <1>10, Zenon DEF Next

LEMMA TraceAlways == Spec => []TraceInv
BY TraceInit, TraceNext, PTL DEF Spec

-----------------------------------------------------------------------------
(* Theorems *)

LEMMA EditsBounded == Spec => [](setup \in Setups /\ edits \in 0..setup.maxEdits)
<1> DEFINE Bounded == setup \in Setups /\ edits \in 0..setup.maxEdits
<1>1. Init => Bounded
  BY SetupAssumption DEF Init
<1>2. Bounded /\ [Next]_vars => Bounded'
  <2> SUFFICES ASSUME Bounded, [Next]_vars PROVE Bounded'
    OBVIOUS
  <2>1. setup.maxEdits \in Nat
    BY SetupAssumption
  <2>2. /\ setup' = setup
        /\ edits' = edits \/ (edits < setup.maxEdits /\ edits' = edits + 1)
    BY Zenon DEF Next, vars, StartSpan, ExtractContext, ExtractInterop, ExtractFails,
         SetBaggageItem, EnableFirehose, KeepContext, InjectSpan, InjectInterop
  <2> QED
    BY <2>1, <2>2
<1> QED
  BY <1>1, <1>2, PTL DEF Spec

(* TypeOK: every context points to a map and a samplingState that exist, and the    *)
(* context of a span to a samplingState at all, so that no step of the span meets a *)
(* nil one (tracer.go:267-331, span_context.go:71-157).                             *)
THEOREM TypeCorrect == Spec => []TypeOK
<1>1. TraceInv /\ setup \in Setups /\ edits \in 0..setup.maxEdits => TypeOK
  <2> SUFFICES ASSUME TraceInv, setup \in Setups, edits \in 0..setup.maxEdits
               PROVE  TypeOK
    OBVIOUS
  <2>1. ASSUME NEW c \in Context, Within(c)
        PROVE  c \in [hi : Nat, lo : Nat, span : Nat, parent : Nat, baggage : 0..Len(maps),
                      debugID : BOOLEAN, state : 0..Len(states), remote : BOOLEAN]
    <3>1. c.hi \in Nat /\ c.lo \in Nat /\ c.span \in Nat /\ c.parent \in Nat
      BY <2>1, SmallIDs DEF Context
    <3>2. Len(maps) \in Nat /\ Len(states) \in Nat
      BY LenProperties DEF TraceInv, TypeInv
    <3>3. c.baggage \in Nat /\ c.state \in Nat /\ c.baggage <= Len(maps) /\ c.state <= Len(states)
      BY <2>1 DEF Context, Within
    <3>4. c.baggage \in 0..Len(maps) /\ c.state \in 0..Len(states)
      BY <3>2, <3>3
    <3> QED
      BY <2>1, <3>1, <3>4 DEF Context
  <2>2. ASSUME NEW i \in DOMAIN states
        PROVE  states[i].flags \in 0..255 /\ states[i].final \in BOOLEAN
    <3>1. i \in 1..Len(states)
      BY LenProperties DEF TraceInv, TypeInv
    <3>2. states[i] \in State
      BY <3>1, StateIs DEF TraceInv
    <3> QED
      BY <3>2 DEF State, Flags
  <2>3. ASSUME NEW i \in DOMAIN spans
        PROVE  spans[i].how \in {"root", "child", "shared", "self"}
    BY SpanIs DEF TraceInv, Span
  <2> QED
    BY <2>1, <2>2, <2>3, SpanIs, HeldIs DEF TraceInv, TypeOK
<1> QED
  BY <1>1, TraceAlways, EditsBounded, PTL

(* TraceTreeSound: whatever references StartSpan is given, however their contexts  *)
(* came there, a span's parent is an earlier span of the same trace or one of      *)
(* another client's, and IDs repeat only for a self reference or a shared RPC span *)
(* (tracer.go:211-340).                                                            *)
THEOREM SpansFormTree == Spec => []TraceTreeSound
<1>1. TraceInv => TraceTreeSound
  <2> SUFFICES ASSUME TraceInv, NEW i \in DOMAIN spans
               PROVE  LET c       == spans[i].context
                          same(d) == d.lo = c.lo /\ (d.hi = c.hi \/ "zipkin" \in setup.formats)
                          before  == {spans[j].context : j \in 1..i - 1}
                      IN /\ spans[i].how = "root" => c.parent = 0 /\ c.span = c.lo
                         /\ spans[i].how = "child" => c.parent # 0
                         /\ c.parent \in 1..Fresh - 1 =>
                              \E d \in before : d.span = c.parent /\ same(d)
                         /\ (\E d \in before : d.span = c.span /\ same(d)) =>
                              spans[i].how \in {"self", "shared"}
    BY DEF TraceTreeSound
  <2> DEFINE c      == spans[i].context
             before == {spans[j].context : j \in 1..i - 1}
  <2>1. 1..Fresh - 1 \subseteq Ours
    BY FreshIs, SmallIDs, LenProperties DEF TraceInv, TypeInv, Ours
  <2>2. \A id : (\E d \in before : d.span = id /\ SameTrace(d, c)) <=> Earlier(i, id, c)
    BY DEF Earlier
  <2>3. /\ spans[i].how = "root" => c.parent = 0 /\ c.span = c.lo
        /\ spans[i].how = "child" => c.parent # 0
        /\ c.parent \in Ours => Earlier(i, c.parent, c)
        /\ Earlier(i, c.span, c) => spans[i].how \in {"self", "shared"}
    BY DEF TraceInv, TreeInv
  <2> QED
    BY <2>1, <2>2, <2>3 DEF SameTrace
<1> QED
  BY <1>1, TraceAlways, PTL

(* RoundTrip: every context that a trace can make is extracted from its carrier as *)
(* it was injected, but in the cases of Unreadable (propagation.go:109-290).       *)
THEOREM ContextsSurvive == Spec => []RoundTrip
<1>1. TraceInv => RoundTrip
  <2> SUFFICES ASSUME TraceInv, NEW c \in Contexts, IsValid(c), c.state # 0,
                      NEW format \in setup.formats, NEW v, v = View(c),
                      NEW got \in Extract(Inject(format, v))
               PROVE  IF Unreadable(format, v) THEN got = Failure
                      ELSE /\ got # Failure
                           /\ <<got.lo, got.span, got.parent>> = <<v.lo, v.span, v.parent>>
                           /\ got.hi = IF format = "zipkin" THEN 0 ELSE v.hi
                           /\ got.flags = IF format = "b3" THEN v.flags % 2 ELSE v.flags
                           /\ SameBaggage(format, v.baggage, got.baggage)
    BY DEF RoundTrip
  <2>1. format \in Formats
    BY SetupAssumption DEF TraceInv, TypeInv
  <2>2. IsView(v) /\ v.flags \in Flags
    BY ContextsAre, ViewIs DEF TraceInv
  <2>3. v.hi = c.hi /\ v.lo = c.lo
    BY DEF View
  <2>4. v.flags # NoFlags /\ IsValidTrace(v)
    BY <2>2, <2>3 DEF Flags, NoFlags, IsValid, IsValidTrace
  <2>5. /\ got = Failure \/ Survives(format, v, got)
        /\ got = Failure <=> Unreadable(format, v)
    BY <2>1, <2>2, <2>4, CarrierExact
  <2>6. Written(format, v.flags) = IF format = "b3" THEN v.flags % 2 ELSE v.flags
    BY <2>2, <2>4 DEF Written, IsSampled, Flags
  <2> QED
    BY <2>5, <2>6 DEF Survives
<1> QED
  BY <1>1, TraceAlways, PTL

(* A step writes no map and no context that exists, but one span's. *)
LEMMA StepsIsolated ==
  ASSUME TypeInv, Next
  PROVE  /\ \A k \in 1..Len(maps) : maps'[k] = maps[k]
         /\ \A k \in DOMAIN held : held'[k] = held[k]
         /\ \E i : \A j \in DOMAIN spans : j # i => spans'[j] = spans[j]
<1>1. /\ maps \in Seq(Baggages) /\ Len(maps) \in Nat
      /\ Len(held) \in Nat /\ DOMAIN held = 1..Len(held)
      /\ Len(spans) \in Nat /\ DOMAIN spans = 1..Len(spans)
  BY LenProperties DEF TypeInv
<1>2. /\ \A new : \A k \in 1..Len(maps) : Append(maps, new)[k] = maps[k]
      /\ \A new : \A k \in DOMAIN held : Append(held, new)[k] = held[k]
      /\ \A new : \A k \in DOMAIN spans : Append(spans, new)[k] = spans[k]
  BY <1>1 DEF TypeInv
<1>3. ASSUME NEW c PROVE CopyBaggage(c) = maps \/ \E new : CopyBaggage(c) = Append(maps, new)
  BY DEF CopyBaggage
<1>4. CASE StartSpan
  <2>1. held' = held
    BY <1>4 DEF StartSpan
  <2>2. (maps' = maps \/ \E c : maps' = CopyBaggage(c)) /\ \E new : spans' = Append(spans, new)
    <3>1. \E refs : \/ \E hi : StartRoot(refs, hi)
                   \/ \E rpcServer : StartChild(refs, rpcServer)
                   \/ StartSelf(refs)
      BY <1>4, Zenon DEF StartSpan
    <3>2. ASSUME NEW refs, NEW hi, StartRoot(refs, hi)
          PROVE  maps' = CopyBaggage(Parent(refs)) /\ \E new : spans' = Append(spans, new)
      BY <3>2, Zenon DEF StartRoot
    <3>3. ASSUME NEW refs, NEW rpcServer, StartChild(refs, rpcServer)
          PROVE  maps' = CopyBaggage(Parent(refs)) /\ \E new : spans' = Append(spans, new)
      BY <3>3, Zenon DEF StartChild
    <3>4. ASSUME NEW refs, StartSelf(refs)
          PROVE  maps' = maps /\ \E new : spans' = Append(spans, new)
      BY <3>4, Zenon DEF StartSelf
    <3> QED
      BY <3>1, <3>2, <3>3, <3>4, Zenon
  <2> QED
    BY <1>2, <1>3, <2>1, <2>2
<1>5. CASE ExtractContext \/ ExtractInterop
  <2>1. (maps' = maps \/ \E new : maps' = Append(maps, new)) /\ \E new : held' = Append(held, new)
    BY <1>5 DEF ExtractContext, ExtractInterop
  <2>2. spans' = spans
    BY <1>5 DEF ExtractContext, ExtractInterop
  <2> QED
    BY <1>2, <2>1, <2>2
<1>6. CASE ExtractFails
  BY <1>6 DEF ExtractFails
<1>7. ASSUME NEW i \in DOMAIN spans, SetBaggageItem(i)
      PROVE  /\ \A k \in 1..Len(maps) : maps'[k] = maps[k]
             /\ \A k \in DOMAIN held : held'[k] = held[k]
             /\ \A j \in DOMAIN spans : j # i => spans'[j] = spans[j]
  <2>1. maps' = maps \/ \E new : maps' = Append(maps, new)
    BY <1>7, ItemStep
  <2>2. \E c : spans' = [spans EXCEPT ![i].context = c]
    BY <1>7, ItemStep
  <2>3. held' = held
    BY <1>7 DEF SetBaggageItem
  <2> QED
    BY <1>2, <2>1, <2>2, <2>3
<1>8. ASSUME NEW i \in DOMAIN spans, EnableFirehose(i) \/ InjectSpan(i) \/ InjectInterop(i)
      PROVE  maps' = maps /\ held' = held /\ spans' = spans
  BY <1>8 DEF EnableFirehose, InjectSpan, InjectInterop
<1>9. ASSUME NEW i \in DOMAIN spans, KeepContext(i)
      PROVE  maps' = maps /\ held' = Append(held, spans[i].context) /\ spans' = spans
  BY <1>9 DEF KeepContext
<1>10. CASE \E i \in DOMAIN spans : KeepContext(i)
  BY <1>2, <1>9, <1>10
<1>11. CASE \E i \in DOMAIN spans : SetBaggageItem(i)
  BY <1>7, <1>11
<1>12. CASE \E i \in DOMAIN spans : EnableFirehose(i) \/ InjectSpan(i) \/ InjectInterop(i)
  BY <1>8, <1>12
<1> QED
  BY <1>4, <1>5, <1>6, <1>10, <1>11, <1>12, Zenon DEF Next

(* BaggageIsolated: baggage set on one span changes no other span and no context    *)
(* handed out before, although they may share a map (span_context.go:326-351).      *)
THEOREM BaggageStays == Spec => BaggageIsolated
<1> DEFINE
     Isolated ==
       /\ \A i \in DOMAIN held : Baggage(held[i])' = Baggage(held[i])
       /\ \A i \in DOMAIN spans : Baggage(spans[i].context)' # Baggage(spans[i].context)
            => \A j \in DOMAIN spans \ {i} :
                 spans'[j] = spans[j] /\ Baggage(spans[j].context)' = Baggage(spans[j].context)
<1>1. ASSUME TraceInv, [Next]_vars PROVE Isolated \/ UNCHANGED vars
  <2>1. CASE Next
    <3>1. /\ \A k \in 1..Len(maps) : maps'[k] = maps[k]
          /\ \A k \in DOMAIN held : held'[k] = held[k]
      BY <1>1, <2>1, StepsIsolated DEF TraceInv
    <3>2. PICK i : \A j \in DOMAIN spans : j # i => spans'[j] = spans[j]
      BY <1>1, <2>1, StepsIsolated DEF TraceInv
    <3>3. ASSUME NEW c \in Context, Within(c)
          PROVE  Baggage(c)' = Baggage(c)
      <4>1. c.baggage # 0 => c.baggage \in 1..Len(maps)
        BY <1>1, <3>3, LenProperties DEF TraceInv, TypeInv, Within, Context
      <4> QED
        BY <3>1, <4>1 DEF Baggage
    <3>4. ASSUME NEW j \in DOMAIN held PROVE Baggage(held[j])' = Baggage(held[j])
      <4>1. PICK c : c = held[j] /\ c = held'[j]
        BY <3>1
      <4>2. Baggage(c)' = Baggage(c)
        BY <1>1, <3>3, <4>1, HeldIs DEF TraceInv
      <4> QED
        BY <4>1, <4>2 DEF Baggage
    <3>5. ASSUME NEW j \in DOMAIN spans, j # i
          PROVE  Baggage(spans[j].context)' = Baggage(spans[j].context)
      <4>1. PICK c : c = spans[j].context /\ c = spans'[j].context
        BY <3>2, <3>5
      <4>2. Baggage(c)' = Baggage(c)
        BY <1>1, <3>3, <4>1, SpanIs DEF TraceInv
      <4> QED
        BY <4>1, <4>2 DEF Baggage
    <3> QED
      BY <3>2, <3>4, <3>5
  <2> QED
    BY <1>1, <2>1
<1> QED
  BY <1>1, TraceAlways, PTL DEF Spec, BaggageIsolated
=============================================================================
