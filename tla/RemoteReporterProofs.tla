------------------------ MODULE RemoteReporterProofs ------------------------
(***************************************************************************)
(* Theorems about RemoteReporter for any number of span objects, any       *)
(* number of closers, any channel capacity and any bound on reuse: the     *)
(* reference counts, what the channel and the transport do with the spans, *)
(* what is counted, and that all of it implements SpanDelivery.            *)
(***************************************************************************)
EXTENDS RemoteReporter, SequenceTheorems, FiniteSetTheorems, TLAPS

USE QueueAssumption, BoundAssumption, ItemAssumption

(* Where a span object is at work, its use count has started. *)
Started ==
  /\ \A s \in Spans : pc[s] = "live" => gen[s] >= 1
  /\ \A i \in DOMAIN queue : queue[i] # CloseItem => gen[queue[i].span] >= 1
  /\ worker \in {"append", "release"} => /\ item \in Instance
                                         /\ gen[item.span] >= 1

TypeInv == TypeOK /\ Started

(* What a release leaves well typed, whichever way the counter goes. *)
LEMMA ReleaseType ==
  ASSUME TypeOK, NEW s \in Spans, Release(s)
  PROVE  pool' \subseteq Spans /\ refs' \in [Spans -> Int]
BY DEF TypeOK, Release

(* A batch that is sent or lost leaves the transport well typed. *)
LEMMA EmitType ==
  ASSUME TypeOK, NEW batch \in Seq(Instance), NEW r \in Results, Emit(batch, r)
  PROVE  /\ success' \in Nat /\ failure' \in Nat
         /\ backend' \in Seq(Instance) /\ lost' \subseteq Instance
<1>1. Elems(batch) \subseteq Instance
  BY DEF Elems
<1>2. Len(batch) \in Nat
  BY LenProperties
<1>3. backend \in Seq(Instance) /\ success \in Nat /\ failure \in Nat /\ lost \subseteq Instance
  BY DEF TypeOK
<1>4. CASE r = "ok"
  <2>1. backend \o batch \in Seq(Instance)
    BY <1>3, ConcatProperties
  <2>2. /\ backend' = backend \o batch /\ success' = success + Len(batch)
        /\ lost' = lost /\ failure' = failure
    BY <1>4 DEF Emit
  <2> QED
    BY <1>2, <1>3, <2>1, <2>2
<1>5. CASE r # "ok"
  BY <1>1, <1>2, <1>3, <1>5 DEF Emit
<1> QED
  BY <1>4, <1>5

LEMMA CurrentType ==
  ASSUME TypeOK, NEW s \in Spans, gen[s] >= 1
  PROVE  Current(s) \in Instance
BY DEF TypeOK, Current, Instance

(* The first element of the channel, and the channel without it. *)
LEMMA ReceiveType ==
  ASSUME TypeOK, queue # << >>
  PROVE  /\ Head(queue) \in Item /\ Head(queue) = queue[1]
         /\ Tail(queue) \in Seq(Item)
         /\ Len(Tail(queue)) = Len(queue) - 1 /\ Len(queue) \in Nat \ {0}
         /\ DOMAIN Tail(queue) = 1..(Len(queue) - 1)
         /\ \A i \in 1..(Len(queue) - 1) : Tail(queue)[i] = queue[i + 1]
<1>1. queue \in Seq(Item)
  BY DEF TypeOK
<1> QED
  BY <1>1, HeadTailProperties, LenProperties, EmptySeq

(* Appending to a sequence. *)
LEMMA AppendLast ==
  ASSUME NEW S, NEW q \in Seq(S), NEW e \in S
  PROVE  /\ Append(q, e) \in Seq(S)
         /\ Len(Append(q, e)) = Len(q) + 1
         /\ DOMAIN Append(q, e) = 1..(Len(q) + 1)
         /\ \A i \in 1..Len(q) : Append(q, e)[i] = q[i]
         /\ Append(q, e)[Len(q) + 1] = e
BY LenProperties

LEMMA InitTypeInv == Init => TypeInv
<1> SUFFICES ASSUME Init PROVE TypeInv
  OBVIOUS
<1>1. << >> \in Seq(Item) /\ << >> \in Seq(Instance) /\ Len(<< >>) = 0 /\ DOMAIN << >> = {}
  BY EmptySeq
<1>2. TypeOK
  BY <1>1 DEF Init, TransportInit, TypeOK
<1>3. Started
  BY <1>1 DEF Init, Started
<1> QED
  BY <1>2, <1>3 DEF TypeInv

(* Every action leaves the variables well typed. *)
LEMMA NextTypeInv == TypeInv /\ [Next]_vars => TypeInv'
<1> SUFFICES ASSUME TypeInv, [Next]_vars PROVE TypeInv'
  OBVIOUS
<1> USE DEF TypeInv, TypeOK, Started
<1>1. ASSUME NEW s \in Spans, Start(s) PROVE TypeInv'
  <2>1. /\ pool' \subseteq Spans
        /\ gen' \in [Spans -> 0..MaxGen]
        /\ pc' \in [Spans -> {"idle", "live", "count", "release"}]
        /\ \A u \in Spans : gen'[u] >= gen[u] /\ (pc'[u] = "live" => gen'[u] >= 1)
    BY <1>1 DEF Start
  <2>2. /\ UNCHANGED <<refs, userRefs, queue, queueLength, closed, closer, wg, mustDrain,
                      worker, item, success, failure, dropped, gauge, buffer, backend,
                      lost, sender, accepted, discarded>>
    BY <1>1 DEF Start, queueVars, closeVars, workerVars, metricVars, transportVars
  <2>3. TypeOK'
    BY <2>1, <2>2
  <2>4. Started'
    <3>1. \A i \in DOMAIN queue : queue[i] # CloseItem => queue[i].span \in Spans
      BY ElementOfSeq DEF Item, Instance
    <3>2. item \in Instance => item.span \in Spans
      BY DEF Instance
    <3>3. /\ gen \in [Spans -> Nat] /\ gen' \in [Spans -> Nat]
          /\ \A u \in Spans : gen[u] >= 1 => gen'[u] >= 1
      BY <2>1
    <3> HIDE DEF TypeInv, TypeOK
    <3>4. Started
      BY DEF TypeInv
    <3>5. \A i \in DOMAIN queue : queue[i] # CloseItem => gen'[queue[i].span] >= 1
      BY <3>1, <3>3, <3>4
    <3>6. item \in Instance => (gen[item.span] >= 1 => gen'[item.span] >= 1)
      BY <3>2, <3>3
    <3> QED
      BY <2>1, <2>2, <3>4, <3>5, <3>6
  <2> QED
    BY <2>3, <2>4
<1>2. ASSUME NEW s \in Spans, UserRetain(s) PROVE TypeInv'
  BY <1>2 DEF UserRetain, Retain, queueVars, closeVars, workerVars, metricVars,
              transportVars
<1>3. ASSUME NEW s \in Spans, UserRelease(s) PROVE TypeInv'
  <2>1. pool' \subseteq Spans /\ refs' \in [Spans -> Int]
    BY <1>3, ReleaseType DEF UserRelease
  <2>2. userRefs' \in [Spans -> 0..MaxUserRefs]
    BY <1>3 DEF UserRelease
  <2>3. UNCHANGED <<gen, pc, queue, queueLength, closed, closer, wg, mustDrain,
                    worker, item, success, failure, dropped, gauge, buffer, backend,
                    lost, sender, accepted, discarded>>
    BY <1>3 DEF UserRelease, queueVars, closeVars, workerVars, metricVars, transportVars
  <2> QED
    BY <2>1, <2>2, <2>3
<1>4. ASSUME NEW s \in Spans, Report(s) PROVE TypeInv'
  <2>0. /\ refs' = [refs EXCEPT ![s] = @ + 1]
        /\ UNCHANGED <<pool, gen, userRefs, queueLength, closeVars, workerVars,
                       success, failure, gauge, transportVars, sender>>
    BY <1>4 DEF Report, Retain
  <2>1. Current(s) \in Instance /\ gen[s] >= 1
    BY <1>4, CurrentType DEF Report
  <2>2. Current(s) # CloseItem /\ Current(s).span = s /\ Current(s) \in Item
    BY <2>1 DEF Current, Item
  <2>3. CASE HasRoom
    <3>1. queue' = Append(queue, Current(s)) /\ accepted' = Append(accepted, Current(s))
      BY <1>4, <2>3 DEF Report
    <3>2. queue' \in Seq(Item) /\ Len(queue') <= QueueSize
      BY <2>2, <2>3, <3>1, AppendLast, LenProperties DEF HasRoom
    <3>3. accepted' \in Seq(Instance)
      BY <2>1, <3>1, AppendLast
    <3>4. ASSUME NEW i \in DOMAIN queue', queue'[i] # CloseItem
          PROVE  gen[queue'[i].span] >= 1
      <4>1. i \in 1..Len(queue) \/ i = Len(queue) + 1
        BY <2>2, <3>1, AppendLast, LenProperties
      <4>2. CASE i \in 1..Len(queue)
        BY <2>2, <3>1, <3>4, <4>2, AppendLast, LenProperties
      <4>3. CASE i = Len(queue) + 1
        BY <2>1, <2>2, <3>1, <4>3, AppendLast
      <4> QED
        BY <4>1, <4>2, <4>3
    <3>5. /\ pc' = [pc EXCEPT ![s] = "count"]
          /\ UNCHANGED <<dropped, discarded>>
      BY <1>4, <2>3 DEF Report
    <3> QED
      BY <2>0, <3>2, <3>3, <3>4, <3>5 DEF closeVars, workerVars, transportVars
  <2>4. CASE ~ HasRoom
    <3>1. /\ dropped' = dropped + 1
          /\ discarded' = discarded \cup {Current(s)}
          /\ pc' = [pc EXCEPT ![s] = "release"]
          /\ UNCHANGED <<queue, accepted>>
      BY <1>4, <2>4 DEF Report
    <3> QED
      BY <2>0, <2>1, <3>1 DEF closeVars, workerVars, transportVars
  <2> QED
    BY <2>3, <2>4
<1>5. ASSUME NEW s \in Spans, ReportCount(s) PROVE TypeInv'
  BY <1>5 DEF ReportCount, closeVars, workerVars, metricVars, transportVars
<1>6. ASSUME NEW s \in Spans, FinishUnsampled(s) PROVE TypeInv'
  BY <1>6 DEF FinishUnsampled, queueVars, closeVars, workerVars, metricVars,
              transportVars
<1>7. ASSUME NEW s \in Spans, FinishRelease(s) PROVE TypeInv'
  BY <1>7, ReleaseType DEF FinishRelease, queueVars, closeVars, workerVars,
              metricVars, transportVars
<1>8. ASSUME NEW c \in Closers, CloseCall(c) PROVE TypeInv'
  <2>1. OnTheirWay \subseteq Instance
    BY LenProperties DEF OnTheirWay, Elems, Item
  <2> QED
    BY <1>8, <2>1 DEF CloseCall, spanVars, queueVars, workerVars, metricVars,
              transportVars
<1>9. ASSUME NEW c \in Closers, CloseSend(c) PROVE TypeInv'
  <2>1. CASE HasRoom
    <3>1. queue' = Append(queue, CloseItem)
      BY <1>9, <2>1 DEF CloseSend
    <3>2. queue' \in Seq(Item) /\ Len(queue') <= QueueSize
      BY <2>1, <3>1, AppendLast, LenProperties DEF HasRoom, Item
    <3>3. \A i \in DOMAIN queue' : queue'[i] # CloseItem => gen[queue'[i].span] >= 1
      BY <3>1, AppendLast, LenProperties DEF Item
    <3> QED
      BY <1>9, <2>1, <3>2, <3>3 DEF CloseSend, spanVars, workerVars, metricVars,
              transportVars
  <2>2. CASE ~ HasRoom
    BY <1>9, <2>2 DEF CloseSend, spanVars, workerVars, metricVars, transportVars
  <2> QED
    BY <2>1, <2>2
<1>10. ASSUME NEW c \in Closers, CloseCount(c) PROVE TypeInv'
  BY <1>10 DEF CloseCount, spanVars, workerVars, metricVars, transportVars
<1>11. ASSUME NEW c \in Closers, CloseSender(c) PROVE TypeInv'
  BY <1>11 DEF CloseSender, spanVars, queueVars, workerVars, metricVars, transportVars
<1>12. CASE Receive
  <2>1. /\ queue # << >> /\ item' = Head(queue) /\ worker = "select"
        /\ worker' = IF Head(queue) = CloseItem THEN "closeFlush" ELSE "append"
        /\ queueLength' = queueLength - 1
        /\ UNCHANGED <<spanVars, closed, wg, mustDrain, metricVars,
                       transportVars, sender, accepted, discarded>>
    BY <1>12 DEF Receive
  <2>2. item' \in Item /\ (worker' = "append" => item' \in Instance /\ gen[item'.span] >= 1)
    BY <2>1, ReceiveType, LenProperties DEF Item
  <2>3. /\ queue' \in Seq(Item) /\ Len(queue') <= QueueSize
        /\ closer' \in [Closers -> {"idle", "sending", "parked", "count", "waiting",
                                    "returned", "ignored"}]
        /\ \A i \in DOMAIN queue' : queue'[i] # CloseItem => gen[queue'[i].span] >= 1
    <3>1. CASE \E c \in Closers : closer[c] = "parked"
      <4>1. /\ queue' = Append(Tail(queue), CloseItem)
            /\ closer' = [c \in Closers |-> IF closer[c] = "parked"
                                            THEN "count" ELSE closer[c]]
        BY <1>12, <3>1 DEF Receive
      <4>2. queue' \in Seq(Item) /\ Len(queue') <= QueueSize
        BY <2>1, <4>1, ReceiveType, AppendLast DEF Item
      <4>3. \A i \in DOMAIN queue' : queue'[i] # CloseItem => gen[queue'[i].span] >= 1
        BY <2>1, <4>1, ReceiveType, AppendLast, LenProperties DEF Item
      <4> QED
        BY <4>1, <4>2, <4>3
    <3>2. CASE ~ \E c \in Closers : closer[c] = "parked"
      <4>1. queue' = Tail(queue) /\ closer' = closer
        BY <1>12, <3>2 DEF Receive
      <4> QED
        BY <2>1, <4>1, ReceiveType, LenProperties
    <3> QED
      BY <3>1, <3>2
  <2> QED
    BY <2>1, <2>2, <2>3 DEF spanVars, metricVars, transportVars
<1>13. CASE AppendSpan
  <2>1. Current(item.span) \in Instance
    BY <1>13, CurrentType DEF AppendSpan, Instance
  <2> DEFINE Typed == /\ success' \in Nat /\ failure' \in Nat
                      /\ backend' \in Seq(Instance) /\ lost' \subseteq Instance
                      /\ buffer' \in Seq(Instance)
  <2>2. Typed
    <3>0. /\ <<Current(item.span)>> \in Seq(Instance)
          /\ Append(buffer, Current(item.span)) \in Seq(Instance)
          /\ "error" \in Results /\ << >> \in Seq(Instance)
      BY <2>1, AppendLast, EmptySeq DEF Results
    <3>1. CASE Keep(Current(item.span))
      BY <3>0, <3>1 DEF Keep
    <3>2. CASE Reject(Current(item.span))
      BY <3>0, <3>2, EmitType DEF Reject
    <3>3. ASSUME NEW r \in Results, FlushWith(Current(item.span), r)
          PROVE Typed
      BY <3>0, <3>3, EmitType DEF FlushWith
    <3>4. ASSUME NEW r \in Results, FlushBefore(Current(item.span), r)
          PROVE Typed
      BY <3>0, <3>4, EmitType DEF FlushBefore
    <3> QED
      BY <1>13, <3>1, <3>2, <3>3, <3>4 DEF AppendSpan, AppendOutcome
  <2> QED
    BY <1>13, <2>2 DEF AppendSpan, spanVars, queueVars, closeVars
<1>14. CASE WorkerRelease
  <2>1. Release(item.span) /\ item.span \in Spans
    BY <1>14 DEF WorkerRelease, Instance
  <2> QED
    BY <1>14, <2>1, ReleaseType DEF WorkerRelease, queueVars, closeVars, metricVars,
              transportVars
<1>15. ASSUME NEW r \in Results, Flush(r)
       PROVE  /\ success' \in Nat /\ failure' \in Nat
              /\ backend' \in Seq(Instance) /\ lost' \subseteq Instance
              /\ buffer' \in Seq(Instance)
  BY <1>15, EmitType, EmptySeq DEF Flush
<1>16. CASE Tick
  BY <1>15, <1>16 DEF Tick, spanVars, queueVars, closeVars, workerVars
<1>17. CASE CloseFlush
  BY <1>15, <1>17 DEF CloseFlush, spanVars, queueVars, closeVars
<1>18. CASE CloseDone
  BY <1>18 DEF CloseDone, spanVars, queueVars, metricVars, transportVars
<1>19. CASE UNCHANGED vars
  BY <1>19 DEF vars, spanVars, queueVars, closeVars, workerVars, metricVars,
              transportVars
<1> QED
  BY <1>1, <1>2, <1>3, <1>4, <1>5, <1>6, <1>7, <1>8, <1>9, <1>10, <1>11, <1>12,
     <1>13, <1>14, <1>16, <1>17, <1>18, <1>19
     DEF Next, SpanStep, CloserStep, WorkerStep

(* Every variable keeps its type (reporter.go, span.go), for all constants. *)
THEOREM TypeCorrect == Spec => []TypeOK
<1>1. TypeInv => TypeOK
  BY DEF TypeInv
<1> QED
  BY InitTypeInv, NextTypeInv, <1>1, PTL DEF Spec

-----------------------------------------------------------------------------
(* An object is at one place of the channel or the worker at a time, and a   *)
(* span that its owner has not finished is at none; a dropped span is one of *)
(* the uses its object has had.                                              *)
Placed ==
  /\ \A i, j \in DOMAIN queue :
       queue[i] # CloseItem /\ queue[j] # CloseItem /\ queue[i].span = queue[j].span
         => i = j
  /\ \A s \in Spans : InWorker(s) => ~ InQueue(s)
  /\ \A s \in Spans : pc[s] = "live" => ~ InQueue(s) /\ ~ InWorker(s) /\ ~ Leaked(s)
  /\ \A d \in discarded : d.gen <= gen[d.span]

RefInv == Placed /\ ReferencesExact /\ NoCorruption

IInv == TypeInv /\ RefInv

LEMMA HoldersNat ==
  ASSUME TypeOK, NEW s \in Spans
  PROVE  /\ Holders(s) \in Nat
         /\ Holders(s) = 0 => /\ pc[s] = "idle" /\ userRefs[s] = 0
                             /\ ~ InQueue(s) /\ ~ InWorker(s) /\ ~ Leaked(s)
<1>1. userRefs[s] \in Nat
  BY DEF TypeOK
<1> QED
  BY <1>1 DEF Holders, One

(* Nobody holds an object that is in the pool: its holders are counted.      *)
LEMMA IInvImplies == IInv => NoUseAfterPut
BY HoldersNat DEF IInv, TypeInv, RefInv, ReferencesExact, NoUseAfterPut, TypeOK

LEMMA InitIInv == Init => IInv
<1> SUFFICES ASSUME Init PROVE RefInv
  BY InitTypeInv DEF IInv
<1>1. DOMAIN queue = {}
  BY EmptySeq DEF Init
<1>2. \A s \in Spans : ~ InQueue(s) /\ ~ InWorker(s) /\ ~ Leaked(s)
  BY <1>1 DEF Init, InQueue, InWorker, Leaked
<1>3. \A s \in Spans : Holders(s) = 0
  BY <1>2 DEF Init, Holders, One
<1> QED
  BY <1>1, <1>2, <1>3 DEF Init, RefInv, Placed, ReferencesExact, NoCorruption

(* Three ways a step moves the counter: not at all, up by Retain, down by    *)
(* Release.                                                                  *)
LEMMA SameExact ==
  ASSUME ReferencesExact, UNCHANGED <<refs, pool>>,
         \A t \in Spans : Holders(t)' = Holders(t)
  PROVE  ReferencesExact'
BY DEF ReferencesExact

LEMMA RetainExact ==
  ASSUME TypeOK, ReferencesExact, NEW s \in Spans \ pool, UNCHANGED pool,
         refs' = [refs EXCEPT ![s] = @ + 1],
         Holders(s)' = Holders(s) + 1,
         \A t \in Spans : t # s => Holders(t)' = Holders(t)
  PROVE  ReferencesExact'
BY HoldersNat DEF ReferencesExact, TypeOK

LEMMA ReleaseExact ==
  ASSUME TypeOK, ReferencesExact, NEW s \in Spans \ pool, Release(s),
         Holders(s)' = Holders(s) - 1,
         \A t \in Spans : t # s => Holders(t)' = Holders(t)
  PROVE  ReferencesExact'
<1>1. /\ \A t \in Spans : Holders(t) \in Nat /\ refs[t] \in Int
      /\ refs \in [Spans -> Int] /\ pool \subseteq Spans
  BY HoldersNat DEF TypeOK
<1>2. refs[s] + 1 = Holders(s) /\ refs[s] >= 0
  BY DEF ReferencesExact
<1>3. ASSUME NEW t \in Spans, t # s
      PROVE  /\ refs'[t] = refs[t] /\ (t \in pool' <=> t \in pool)
             /\ Holders(t)' = Holders(t)
  BY <1>1, <1>3 DEF Release
<1>4. /\ refs'[s] >= 0
      /\ s \in pool' => refs'[s] = 0 /\ Holders(s)' = 0
      /\ s \notin pool' => refs'[s] + 1 = Holders(s)'
  <2>1. CASE refs[s] = 0
    <3>1. refs' = [refs EXCEPT ![s] = 0] /\ pool' = pool \cup {s}
      BY <2>1 DEF Release
    <3> QED
      BY <1>1, <1>2, <2>1, <3>1
  <2>2. CASE refs[s] # 0
    <3>1. refs' = [refs EXCEPT ![s] = @ - 1] /\ pool' = pool
      BY <2>2 DEF Release
    <3> QED
      BY <1>1, <1>2, <2>2, <3>1
  <2> QED
    BY <2>1, <2>2
<1> QED
  BY <1>3, <1>4 DEF ReferencesExact

(* A span with a holder is not in the pool. *)
LEMMA HeldNotPooled ==
  ASSUME IInv, NEW s \in Spans,
         pc[s] # "idle" \/ userRefs[s] > 0 \/ InQueue(s) \/ InWorker(s)
  PROVE  s \in Spans \ pool
<1>1. TypeOK
  BY DEF IInv, TypeInv
<1>2. userRefs[s] \in Nat
  BY <1>1 DEF TypeOK
<1> QED
  BY <1>1, <1>2, HoldersNat DEF IInv, RefInv, ReferencesExact

(* Receive takes the first element, and the places of all others stay.       *)
LEMMA ReceivePlaces ==
  ASSUME IInv, Receive
  PROVE  /\ \A s \in Spans :
              /\ InWorker(s)' \/ InQueue(s)' <=> InWorker(s) \/ InQueue(s)
              /\ ~ (InWorker(s)' /\ InQueue(s)')
         /\ \A i, j \in DOMAIN queue' :
              queue'[i] # CloseItem /\ queue'[j] # CloseItem
                /\ queue'[i].span = queue'[j].span => i = j
         /\ \A i \in DOMAIN queue' : queue'[i] # CloseItem =>
              \E j \in DOMAIN queue : queue'[i] = queue[j]
<1>1. /\ queue # << >> /\ item' = Head(queue) /\ worker = "select"
      /\ worker' = IF Head(queue) = CloseItem THEN "closeFlush" ELSE "append"
  BY DEF Receive
<1>2. TypeOK
  BY DEF IInv, TypeInv
<1>3. DOMAIN queue = 1..Len(queue) /\ Len(queue) \in Nat \ {0}
  BY <1>1, <1>2, ReceiveType, LenProperties DEF TypeOK
<1> DEFINE n == Len(queue)
<1>4. /\ DOMAIN queue' \in {1..(n - 1), 1..n}
      /\ \A i \in 1..(n - 1) : queue'[i] = queue[i + 1]
      /\ n \in DOMAIN queue' => queue'[n] = CloseItem
  <2>1. CASE \E c \in Closers : closer[c] = "parked"
    <3>1. queue' = Append(Tail(queue), CloseItem)
      BY <2>1 DEF Receive
    <3> QED
      BY <1>1, <1>2, <3>1, ReceiveType, AppendLast DEF Item
  <2>2. CASE ~ \E c \in Closers : closer[c] = "parked"
    <3>1. queue' = Tail(queue)
      BY <2>2 DEF Receive
    <3> QED
      BY <1>1, <1>2, <1>3, <3>1, ReceiveType
  <2> QED
    BY <2>1, <2>2
<1>5. \A i, j \in 1..n :
        queue[i] # CloseItem /\ queue[j] # CloseItem /\ queue[i].span = queue[j].span
          => i = j
  BY <1>3 DEF IInv, RefInv, Placed
<1>6. \A s \in Spans : InQueue(s)' <=>
        \E i \in 2..n : queue[i] # CloseItem /\ queue[i].span = s
  <2> TAKE s \in Spans
  <2>1. ASSUME InQueue(s)'
        PROVE  \E i \in 2..n : queue[i] # CloseItem /\ queue[i].span = s
    <3>1. PICK k \in DOMAIN queue' : queue'[k] # CloseItem /\ queue'[k].span = s
      BY <2>1 DEF InQueue
    <3>2. k \in 1..(n - 1)
      BY <1>3, <1>4, <3>1
    <3>3. k + 1 \in 2..n
      BY <1>3, <3>2
    <3>4. queue'[k] = queue[k + 1]
      BY <1>4, <3>2
    <3> QED
      BY <3>1, <3>3, <3>4
  <2>2. ASSUME NEW i \in 2..n, queue[i] # CloseItem, queue[i].span = s
        PROVE  InQueue(s)'
    <3>1. i - 1 \in 1..(n - 1) /\ (i - 1) + 1 = i
      BY <1>3
    <3>2. i - 1 \in DOMAIN queue' /\ queue'[i - 1] = queue[i]
      BY <1>3, <1>4, <3>1
    <3> QED
      BY <2>2, <3>2 DEF InQueue
  <2> QED
    BY <2>1, <2>2
<1>7. \A s \in Spans : ~ InWorker(s) /\
        (InWorker(s)' <=> queue[1] # CloseItem /\ queue[1].span = s)
  BY <1>1, <1>2, ReceiveType DEF InWorker
<1>8. \A s \in Spans : InQueue(s) <=>
        \E i \in 1..n : queue[i] # CloseItem /\ queue[i].span = s
  BY <1>3 DEF InQueue
<1>9. 1..n = {1} \cup 2..n
  BY <1>3
<1>10. \A s \in Spans :
         /\ InWorker(s)' \/ InQueue(s)' <=> InWorker(s) \/ InQueue(s)
         /\ ~ (InWorker(s)' /\ InQueue(s)')
  <2>1. \A i \in 2..n : i # 1 /\ i \in 1..n /\ 1 \in 1..n
    BY <1>3
  <2> QED
    BY <1>5, <1>6, <1>7, <1>8, <1>9, <2>1
<1>11. ASSUME NEW i \in DOMAIN queue', queue'[i] # CloseItem
       PROVE  i \in 1..(n - 1) /\ i + 1 \in 1..n /\ queue'[i] = queue[i + 1]
  BY <1>3, <1>4, <1>11
<1>12. ASSUME NEW i \in DOMAIN queue', NEW j \in DOMAIN queue',
              queue'[i] # CloseItem, queue'[j] # CloseItem,
              queue'[i].span = queue'[j].span
       PROVE  i = j
  <2>1. i + 1 = j + 1
    BY <1>5, <1>11, <1>12
  <2> QED
    BY <1>11, <1>12, <2>1
<1> QED
  BY <1>3, <1>10, <1>11, <1>12

(* A step that moves no span and recycles none keeps the placement. *)
LEMMA SamePlaces ==
  ASSUME RefInv, UNCHANGED <<queue, gen, discarded>>,
         worker' \in {"append", "release"} <=> worker \in {"append", "release"},
         worker \in {"append", "release"} => item' = item,
         \A s \in Spans : pc'[s] = "live" => pc[s] = "live"
  PROVE  /\ Placed' /\ NoCorruption'
         /\ \A s \in Spans :
              /\ InQueue(s)' <=> InQueue(s)
              /\ InWorker(s)' <=> InWorker(s)
              /\ Leaked(s)' <=> Leaked(s)
<1>1. \A s :
        /\ InQueue(s)' <=> InQueue(s)
        /\ InWorker(s)' <=> InWorker(s)
        /\ Current(s)' = Current(s)
        /\ Leaked(s)' <=> Leaked(s)
  BY DEF InQueue, InWorker, Current, Leaked
<1>2. Placed'
  BY <1>1 DEF RefInv, Placed
<1>3. NoCorruption'
  <2>1. ASSUME worker' \in {"append", "release"} PROVE item' = Current(item.span)'
    BY <2>1 DEF RefInv, NoCorruption, Current
  <2>2. ASSUME NEW i \in DOMAIN queue', queue'[i] # CloseItem
        PROVE  queue'[i] = Current(queue[i].span)'
    BY <2>2 DEF RefInv, NoCorruption, Current
  <2> QED
    BY <2>1, <2>2 DEF NoCorruption
<1> QED
  BY <1>1, <1>2, <1>3

LEMMA StartInv ==
  ASSUME IInv, NEW s \in Spans, Start(s)
  PROVE  RefInv'
<1>1. /\ s \in pool /\ gen' = [gen EXCEPT ![s] = @ + 1] /\ pool' = pool \ {s}
      /\ pc' = [pc EXCEPT ![s] = "live"]
      /\ UNCHANGED <<refs, userRefs, queue, worker, item, discarded>>
  BY DEF Start, queueVars, workerVars
<1>2. TypeOK /\ RefInv
  BY DEF IInv, TypeInv
<1>3. refs[s] = 0 /\ Holders(s) = 0
  BY <1>1, <1>2 DEF RefInv, ReferencesExact
<1>4. pc[s] = "idle" /\ userRefs[s] = 0 /\ ~ InQueue(s) /\ ~ InWorker(s)
  BY <1>2, <1>3, HoldersNat
<1>5. \A t : (InQueue(t)' <=> InQueue(t)) /\ (InWorker(t)' <=> InWorker(t))
  BY <1>1 DEF InQueue, InWorker
<1>6. gen'[s] = gen[s] + 1 /\ \A t \in Spans : t # s => gen'[t] = gen[t]
  BY <1>1, <1>2 DEF TypeOK
<1>7. ~ Leaked(s)'
  <2>1. Current(s)'.span = s /\ Current(s)'.gen = gen[s] + 1
    BY <1>6 DEF Current
  <2>2. gen[s] \in Int
    BY <1>2 DEF TypeOK
  <2>3. Current(s)' \notin discarded
    BY <1>2, <2>1, <2>2 DEF RefInv, Placed
  <2> QED
    BY <1>1, <2>3 DEF Leaked
<1>8. \A t \in Spans : t # s => (Leaked(t)' <=> Leaked(t)) /\ Current(t)' = Current(t)
  BY <1>1, <1>6 DEF Leaked, Current
<1>9. Placed'
  <2>1. \A d \in discarded' : d.gen <= gen'[d.span]
    <3> TAKE d \in discarded'
    <3>1. d \in discarded /\ d.span \in Spans /\ d.gen \in Int /\ gen[d.span] \in Int
      BY <1>1, <1>2 DEF TypeOK, Instance
    <3>2. d.gen <= gen[d.span]
      BY <1>2, <3>1 DEF RefInv, Placed
    <3> QED
      BY <1>6, <3>1, <3>2
  <2>2. \A t \in Spans : pc'[t] = "live" =>
          ~ InQueue(t)' /\ ~ InWorker(t)' /\ ~ Leaked(t)'
    BY <1>1, <1>2, <1>4, <1>5, <1>7, <1>8 DEF RefInv, Placed, TypeOK
  <2> QED
    BY <1>1, <1>2, <1>5, <2>1, <2>2 DEF RefInv, Placed
<1>10. NoCorruption'
  <2>1. \A i \in DOMAIN queue : queue[i] # CloseItem => queue[i].span \in Spans \ {s}
    BY <1>2, <1>4, LenProperties DEF InQueue, TypeOK, Item, Instance
  <2>2. worker \in {"append", "release"} => item.span \in Spans \ {s}
    BY <1>2, <1>4 DEF InWorker, IInv, TypeInv, Started, Instance
  <2> QED
    BY <1>1, <1>2, <1>8, <2>1, <2>2 DEF RefInv, NoCorruption
<1>11. ReferencesExact'
  <2>1. pc'[s] = "live" /\ \A t \in Spans : t # s => pc'[t] = pc[t]
    BY <1>1, <1>2 DEF TypeOK
  <2>2. Holders(s)' = 1
    BY <1>1, <1>4, <1>5, <1>7, <2>1 DEF Holders, One
  <2>3. \A t \in Spans : t # s => Holders(t)' = Holders(t)
    BY <1>1, <1>5, <1>8, <2>1 DEF Holders, One
  <2>4. ASSUME NEW t \in Spans, t # s
        PROVE  /\ refs[t] >= 0
               /\ t \in pool' => refs[t] = 0 /\ Holders(t)' = 0
               /\ t \notin pool' => refs[t] + 1 = Holders(t)'
    BY <1>1, <1>2, <2>3, <2>4 DEF RefInv, ReferencesExact
  <2>5. refs' = refs /\ s \notin pool' /\ refs[s] + 1 = Holders(s)' /\ refs[s] >= 0
    BY <1>1, <1>3, <2>2
  <2> QED
    BY <2>4, <2>5 DEF ReferencesExact
<1> QED
  BY <1>9, <1>10, <1>11 DEF RefInv

LEMMA ReportInv ==
  ASSUME IInv, NEW s \in Spans, Report(s)
  PROVE  RefInv'
<1>1. /\ pc[s] = "live" /\ refs' = [refs EXCEPT ![s] = @ + 1]
      /\ UNCHANGED <<pool, gen, userRefs, worker, item>>
  BY DEF Report, Retain, workerVars
<1>2. TypeInv /\ TypeOK /\ RefInv /\ s \in Spans \ pool
  BY <1>1, HeldNotPooled DEF IInv, TypeInv
<1>3. ~ InQueue(s) /\ ~ InWorker(s) /\ ~ Leaked(s)
  BY <1>1, <1>2 DEF RefInv, Placed
<1>4. Current(s) \in Instance /\ Current(s) # CloseItem /\ Current(s) \in Item
      /\ Current(s).span = s /\ Current(s).gen = gen[s] /\ gen[s] \in Int
  BY <1>1, <1>2, CurrentType DEF TypeInv, Started, Current, Item, TypeOK
<1>5. \A t : (InWorker(t)' <=> InWorker(t)) /\ Current(t)' = Current(t)
  BY <1>1 DEF InWorker, Current
<1>6. DOMAIN queue = 1..Len(queue) /\ Len(queue) \in Nat /\ queue \in Seq(Item)
  BY <1>2, LenProperties DEF TypeOK
<1>7. CASE HasRoom
  <2>1. /\ queue' = Append(queue, Current(s)) /\ discarded' = discarded
        /\ pc' = [pc EXCEPT ![s] = "count"]
    BY <1>7 DEF Report
  <2>2. /\ DOMAIN queue' = 1..(Len(queue) + 1)
        /\ \A i \in 1..Len(queue) : queue'[i] = queue[i]
        /\ queue'[Len(queue) + 1] = Current(s)
    BY <1>4, <1>6, <2>1, AppendLast
  <2>3. \A t \in Spans : InQueue(t)' <=> InQueue(t) \/ t = s
    BY <1>4, <1>6, <2>2 DEF InQueue
  <2>4. \A t : Leaked(t)' <=> Leaked(t)
    BY <1>5, <2>1 DEF Leaked
  <2>5. pc'[s] = "count" /\ \A t \in Spans : t # s => pc'[t] = pc[t]
    BY <1>2, <2>1 DEF TypeOK
  <2>6. Placed'
    <3>1. ASSUME NEW i \in DOMAIN queue', NEW j \in DOMAIN queue',
                 queue'[i] # CloseItem, queue'[j] # CloseItem,
                 queue'[i].span = queue'[j].span
          PROVE  i = j
      <4>1. \A k \in 1..Len(queue) : queue[k] # CloseItem => queue[k].span # s
        BY <1>3, <1>6 DEF InQueue
      <4>2. \A k \in DOMAIN queue' : k \in 1..Len(queue) \/ k = Len(queue) + 1
        BY <1>6, <2>2
      <4>3. CASE i \in 1..Len(queue) /\ j \in 1..Len(queue)
        BY <1>2, <1>6, <2>2, <3>1, <4>3 DEF RefInv, Placed
      <4>4. CASE i = Len(queue) + 1 /\ j \in 1..Len(queue)
        BY <1>4, <2>2, <3>1, <4>1, <4>4
      <4>5. CASE j = Len(queue) + 1 /\ i \in 1..Len(queue)
        BY <1>4, <2>2, <3>1, <4>1, <4>5
      <4> QED
        BY <4>2, <4>3, <4>4, <4>5
    <3>2. \A t \in Spans : InWorker(t)' => ~ InQueue(t)'
      BY <1>2, <1>3, <1>5, <2>3 DEF RefInv, Placed
    <3>3. \A t \in Spans : pc'[t] = "live" => ~ InQueue(t)' /\ ~ InWorker(t)' /\ ~ Leaked(t)'
      BY <1>2, <1>5, <2>3, <2>4, <2>5 DEF RefInv, Placed
    <3> QED
      BY <1>1, <1>2, <2>1, <3>1, <3>2, <3>3 DEF RefInv, Placed
  <2>7. NoCorruption'
    <3>1. ASSUME NEW i \in DOMAIN queue', queue'[i] # CloseItem
          PROVE  queue'[i] = [span |-> queue'[i].span, gen |-> gen[queue'[i].span]]
      <4>1. i \in 1..Len(queue) \/ i = Len(queue) + 1
        BY <1>6, <2>2
      <4>2. CASE i \in 1..Len(queue)
        BY <1>2, <1>6, <2>2, <3>1, <4>2 DEF RefInv, NoCorruption, Current
      <4>3. CASE i = Len(queue) + 1
        BY <1>4, <2>2, <4>3 DEF Current
      <4> QED
        BY <4>1, <4>2, <4>3
    <3> QED
      BY <1>1, <1>2, <3>1 DEF RefInv, NoCorruption, Current
  <2>8. Holders(s)' = Holders(s) + 1
    BY <1>1, <1>2, <1>3, <1>5, <2>3, <2>4, <2>5 DEF Holders, One, TypeOK
  <2>9. \A t \in Spans : t # s => Holders(t)' = Holders(t)
    BY <1>1, <1>5, <2>3, <2>4, <2>5 DEF Holders, One
  <2>10. ReferencesExact'
    BY <1>1, <1>2, <2>8, <2>9, RetainExact DEF RefInv
  <2> QED
    BY <2>6, <2>7, <2>10 DEF RefInv
<1>8. CASE ~ HasRoom
  <2>1. /\ queue' = queue /\ discarded' = discarded \cup {Current(s)}
        /\ pc' = [pc EXCEPT ![s] = "release"]
    BY <1>8 DEF Report
  <2>2. \A t : InQueue(t)' <=> InQueue(t)
    BY <2>1 DEF InQueue
  <2>3. Leaked(s)'
    BY <1>5, <2>1 DEF Leaked
  <2>4. \A t \in Spans : t # s => (Leaked(t)' <=> Leaked(t))
    <3> TAKE t \in Spans
    <3> HAVE t # s
    <3>1. Current(t).span = t
      BY DEF Current
    <3>2. Current(t) # Current(s)
      BY <1>4, <3>1
    <3> QED
      BY <1>5, <2>1, <3>2 DEF Leaked
  <2>5. pc'[s] = "release" /\ \A t \in Spans : t # s => pc'[t] = pc[t]
    BY <1>2, <2>1 DEF TypeOK
  <2>6. Placed'
    <3>1. \A t \in Spans : pc'[t] = "live" => ~ InQueue(t)' /\ ~ InWorker(t)' /\ ~ Leaked(t)'
      BY <1>2, <1>5, <2>2, <2>4, <2>5 DEF RefInv, Placed
    <3>2. \A d \in discarded' : d.gen <= gen'[d.span]
      BY <1>1, <1>2, <1>4, <2>1 DEF RefInv, Placed
    <3> QED
      BY <1>2, <1>5, <2>1, <2>2, <3>1, <3>2 DEF RefInv, Placed
  <2>7. NoCorruption'
    BY <1>1, <1>2, <2>1 DEF RefInv, NoCorruption, Current
  <2>8. Holders(s)' = Holders(s) + 1
    BY <1>1, <1>2, <1>3, <1>5, <2>2, <2>3, <2>5 DEF Holders, One, TypeOK
  <2>9. \A t \in Spans : t # s => Holders(t)' = Holders(t)
    BY <1>1, <1>5, <2>2, <2>4, <2>5 DEF Holders, One
  <2>10. ReferencesExact'
    BY <1>1, <1>2, <2>8, <2>9, RetainExact DEF RefInv
  <2> QED
    BY <2>6, <2>7, <2>10 DEF RefInv
<1> QED
  BY <1>7, <1>8

LEMMA ReceiveInv ==
  ASSUME IInv, Receive
  PROVE  RefInv'
<1>1. /\ worker = "select" /\ queue # << >> /\ item' = Head(queue)
      /\ worker' = IF Head(queue) = CloseItem THEN "closeFlush" ELSE "append"
      /\ UNCHANGED <<pool, gen, refs, userRefs, pc, discarded>>
  BY DEF Receive, spanVars
<1>2. TypeOK /\ RefInv
  BY DEF IInv, TypeInv
<1>3. \A t : (Leaked(t)' <=> Leaked(t)) /\ Current(t)' = Current(t)
  BY <1>1 DEF Leaked, Current
<1>4. Placed'
  BY <1>1, <1>2, <1>3, ReceivePlaces DEF RefInv, Placed
<1>5. NoCorruption'
  <2>1. Head(queue) = queue[1] /\ 1 \in DOMAIN queue
    BY <1>1, <1>2, ReceiveType, LenProperties DEF TypeOK
  <2>2. worker' = "append" => item' = [span |-> item'.span, gen |-> gen[item'.span]]
    BY <1>1, <1>2, <2>1 DEF RefInv, NoCorruption, Current
  <2>3. ASSUME NEW i \in DOMAIN queue', queue'[i] # CloseItem
        PROVE  queue'[i] = [span |-> queue'[i].span, gen |-> gen[queue'[i].span]]
    <3>1. PICK j \in DOMAIN queue : queue'[i] = queue[j]
      BY <2>3, ReceivePlaces
    <3> QED
      BY <1>2, <2>3, <3>1 DEF RefInv, NoCorruption, Current
  <2> QED
    BY <1>1, <2>2, <2>3 DEF NoCorruption, Current
<1>6. ReferencesExact'
  <2>1. \A t \in Spans : Holders(t)' = Holders(t)
    <3> TAKE t \in Spans
    <3>1. ~ (InWorker(t) /\ InQueue(t)) /\ userRefs[t] \in Int
      BY <1>2 DEF RefInv, Placed, TypeOK
    <3>2. /\ InWorker(t)' \/ InQueue(t)' <=> InWorker(t) \/ InQueue(t)
          /\ ~ (InWorker(t)' /\ InQueue(t)')
      BY ReceivePlaces
    <3> QED
      BY <1>1, <1>3, <3>1, <3>2 DEF Holders, One
  <2> QED
    BY <1>1, <1>2, <2>1, SameExact DEF RefInv
<1> QED
  BY <1>4, <1>5, <1>6 DEF RefInv

LEMMA CloseSendInv ==
  ASSUME IInv, NEW c \in Closers, CloseSend(c)
  PROVE  RefInv'
<1>1. TypeOK /\ RefInv /\ queue \in Seq(Item)
  BY DEF IInv, TypeInv, TypeOK
<1>2. UNCHANGED <<pool, gen, refs, userRefs, pc, worker, item, discarded>>
  BY DEF CloseSend, spanVars, workerVars
<1>3. DOMAIN queue = 1..Len(queue) /\ Len(queue) \in Nat
  BY <1>1, LenProperties
<1>4. /\ DOMAIN queue' \in {1..Len(queue), 1..(Len(queue) + 1)}
      /\ \A i \in 1..Len(queue) : queue'[i] = queue[i]
      /\ \A i \in DOMAIN queue' : queue'[i] # CloseItem => i \in 1..Len(queue)
  <2>1. CASE queue' = queue
    BY <1>3, <2>1
  <2>2. CASE queue' = Append(queue, CloseItem)
    BY <1>1, <1>3, <2>2, AppendLast DEF Item
  <2> QED
    BY <2>1, <2>2 DEF CloseSend
<1>5. \A t : InQueue(t)' <=> InQueue(t)
  BY <1>3, <1>4 DEF InQueue
<1>6. \A t : (InWorker(t)' <=> InWorker(t)) /\ (Leaked(t)' <=> Leaked(t))
             /\ Current(t)' = Current(t)
  BY <1>2 DEF InWorker, Leaked, Current
<1>7. Placed'
  BY <1>1, <1>2, <1>3, <1>4, <1>5, <1>6 DEF RefInv, Placed
<1>8. NoCorruption'
  <2>1. ASSUME NEW i \in DOMAIN queue', queue'[i] # CloseItem
        PROVE  queue'[i] = [span |-> queue'[i].span, gen |-> gen[queue'[i].span]]
    BY <1>1, <1>3, <1>4, <2>1 DEF RefInv, NoCorruption, Current
  <2> QED
    BY <1>1, <1>2, <2>1 DEF RefInv, NoCorruption, Current
<1>9. ReferencesExact'
  <2>1. \A t \in Spans : Holders(t)' = Holders(t)
    BY <1>2, <1>5, <1>6 DEF Holders, One
  <2> QED
    BY <1>1, <1>2, <2>1, SameExact DEF RefInv
<1> QED
  BY <1>7, <1>8, <1>9 DEF RefInv

(* The worker lets go of the object it has appended. *)
LEMMA WorkerReleaseInv ==
  ASSUME IInv, WorkerRelease
  PROVE  RefInv'
<1>0. PICK s \in Spans : s = item.span
  BY DEF WorkerRelease, IInv, TypeInv, Started, Instance
<1>1. /\ worker = "release" /\ worker' = "select" /\ Release(s)
      /\ UNCHANGED <<gen, userRefs, pc, queue, discarded>>
  BY <1>0 DEF WorkerRelease, queueVars
<1>2. TypeOK /\ RefInv /\ s \in Spans /\ InWorker(s)
  BY <1>0, <1>1 DEF IInv, TypeInv, Started, Instance, InWorker
<1>3. s \in Spans \ pool
  BY <1>2, HeldNotPooled
<1>4. \A t : /\ ~ InWorker(t)'
             /\ InWorker(t) <=> t = s
  BY <1>0, <1>1 DEF InWorker
<1>5. \A t : (InQueue(t)' <=> InQueue(t)) /\ (Leaked(t)' <=> Leaked(t))
             /\ Current(t)' = Current(t)
  BY <1>1 DEF InQueue, Leaked, Current
<1>6. Placed' /\ NoCorruption'
  BY <1>1, <1>2, <1>4, <1>5 DEF RefInv, Placed, NoCorruption, Current
<1>7. ReferencesExact'
  <2>1. userRefs[s] \in Int
    BY <1>2 DEF TypeOK
  <2>2. Holders(s)' = Holders(s) - 1
    BY <1>1, <1>2, <1>4, <1>5, <2>1 DEF Holders, One
  <2>3. \A t \in Spans : t # s => Holders(t)' = Holders(t)
    BY <1>1, <1>4, <1>5 DEF Holders, One
  <2> QED
    BY <1>1, <1>2, <1>3, <2>2, <2>3, ReleaseExact DEF RefInv
<1> QED
  BY <1>6, <1>7 DEF RefInv

(* Steps that leave the span objects and the channel's contents alone. *)
LEMMA QuietInv ==
  ASSUME RefInv, UNCHANGED <<queue, gen, discarded, pool, refs, userRefs, pc>>,
         worker' \in {"append", "release"} <=> worker \in {"append", "release"},
         worker \in {"append", "release"} => item' = item
  PROVE  RefInv'
<1>1. /\ Placed' /\ NoCorruption'
      /\ \A s \in Spans :
           /\ InQueue(s)' <=> InQueue(s)
           /\ InWorker(s)' <=> InWorker(s)
           /\ Leaked(s)' <=> Leaked(s)
  BY SamePlaces
<1>2. \A t \in Spans : Holders(t)' = Holders(t)
  BY <1>1 DEF Holders, One
<1> QED
  BY <1>1, <1>2, SameExact DEF RefInv

(* Steps of a goroutine in Finish, or of the application's own references.   *)
LEMMA OwnerInv ==
  ASSUME IInv, NEW s \in Spans,
         \/ UserRetain(s) \/ UserRelease(s) \/ ReportCount(s)
         \/ FinishUnsampled(s) \/ FinishRelease(s)
  PROVE  RefInv'
<1>1. /\ UNCHANGED <<queue, gen, discarded, worker, item>>
      /\ pc' = pc \/ \E v \in {"idle", "release"} : pc' = [pc EXCEPT ![s] = v]
  BY DEF UserRetain, UserRelease, ReportCount, FinishUnsampled, FinishRelease,
         queueVars, workerVars
<1>2. TypeOK /\ RefInv
  BY DEF IInv, TypeInv
<1>3. \A t \in Spans : (pc'[t] = "live" => pc[t] = "live") /\ (t # s => pc'[t] = pc[t])
  BY <1>1, <1>2 DEF TypeOK
<1>4. /\ Placed' /\ NoCorruption'
      /\ \A t \in Spans :
           /\ InQueue(t)' <=> InQueue(t)
           /\ InWorker(t)' <=> InWorker(t)
           /\ Leaked(t)' <=> Leaked(t)
  BY <1>1, <1>2, <1>3, SamePlaces
<1>5. s \in Spans \ pool
  <2>1. pc[s] # "idle" \/ userRefs[s] > 0
    BY DEF UserRetain, UserRelease, ReportCount, FinishUnsampled, FinishRelease
  <2> QED
    BY <2>1, HeldNotPooled
<1>6. userRefs[s] \in Nat /\ userRefs \in [Spans -> Int]
  BY <1>2 DEF TypeOK
<1>7. ReferencesExact'
  <2>1. CASE UserRetain(s)
    <3>1. /\ pool' = pool /\ pc' = pc /\ refs' = [refs EXCEPT ![s] = @ + 1]
          /\ userRefs' = [userRefs EXCEPT ![s] = @ + 1]
      BY <2>1 DEF UserRetain, Retain
    <3>2. Holders(s)' = Holders(s) + 1
      BY <1>4, <1>6, <3>1 DEF Holders, One
    <3>3. \A t \in Spans : t # s => Holders(t)' = Holders(t)
      BY <1>4, <1>6, <3>1 DEF Holders, One
    <3> QED
      BY <1>2, <1>5, <3>1, <3>2, <3>3, RetainExact DEF RefInv
  <2>2. CASE UserRelease(s)
    <3>1. Release(s) /\ pc' = pc /\ userRefs' = [userRefs EXCEPT ![s] = @ - 1]
      BY <2>2 DEF UserRelease
    <3>2. Holders(s)' = Holders(s) - 1
      BY <1>4, <1>6, <3>1 DEF Holders, One
    <3>3. \A t \in Spans : t # s => Holders(t)' = Holders(t)
      BY <1>4, <1>6, <3>1 DEF Holders, One
    <3> QED
      BY <1>2, <1>5, <3>1, <3>2, <3>3, ReleaseExact DEF RefInv
  <2>3. CASE ReportCount(s) \/ FinishUnsampled(s)
    <3>1. /\ UNCHANGED <<pool, refs, userRefs>>
          /\ pc[s] # "idle" /\ pc' = [pc EXCEPT ![s] = "release"]
      BY <2>3 DEF ReportCount, FinishUnsampled
    <3>2. pc'[s] # "idle"
      BY <1>2, <3>1 DEF TypeOK
    <3>3. \A t \in Spans : Holders(t)' = Holders(t)
      BY <1>3, <1>4, <3>1, <3>2 DEF Holders, One
    <3> QED
      BY <1>2, <3>1, <3>3, SameExact DEF RefInv
  <2>4. CASE FinishRelease(s)
    <3>1. /\ Release(s) /\ userRefs' = userRefs /\ pc[s] = "release"
          /\ pc' = [pc EXCEPT ![s] = "idle"]
      BY <2>4 DEF FinishRelease
    <3>2. pc'[s] = "idle"
      BY <1>2, <3>1 DEF TypeOK
    <3>3. Holders(s)' = Holders(s) - 1
      BY <1>4, <1>6, <3>1, <3>2 DEF Holders, One
    <3>4. \A t \in Spans : t # s => Holders(t)' = Holders(t)
      BY <1>3, <1>4, <3>1 DEF Holders, One
    <3> QED
      BY <1>2, <1>5, <3>1, <3>3, <3>4, ReleaseExact DEF RefInv
  <2> QED
    BY <2>1, <2>2, <2>3, <2>4
<1> QED
  BY <1>4, <1>7 DEF RefInv

LEMMA NextIInv == IInv /\ [Next]_vars => IInv'
<1> SUFFICES ASSUME IInv, [Next]_vars PROVE RefInv'
  BY NextTypeInv DEF IInv
<1>1. RefInv
  BY DEF IInv
<1>2. ASSUME NEW s \in Spans, SpanStep(s) PROVE RefInv'
  BY <1>2, StartInv, ReportInv, OwnerInv DEF SpanStep
<1>3. ASSUME NEW c \in Closers, CloseSend(c) PROVE RefInv'
  BY <1>3, CloseSendInv
<1>4. ASSUME NEW c \in Closers, CloseCall(c) \/ CloseCount(c) \/ CloseSender(c)
      PROVE  RefInv'
  <2>1. UNCHANGED <<queue, gen, discarded, pool, refs, userRefs, pc, worker, item>>
    BY <1>4 DEF CloseCall, CloseCount, CloseSender, spanVars, queueVars, workerVars
  <2> QED
    BY <1>1, <2>1, QuietInv
<1>5. CASE AppendSpan \/ Tick \/ CloseFlush \/ CloseDone
  <2>1. /\ UNCHANGED <<queue, gen, discarded, pool, refs, userRefs, pc>>
        /\ \/ worker = "append" /\ worker' = "release" /\ item' = item
           \/ /\ worker \notin {"append", "release"}
              /\ worker' \notin {"append", "release"}
    BY <1>5 DEF AppendSpan, Tick, CloseFlush, CloseDone, spanVars, queueVars, workerVars
  <2> QED
    BY <1>1, <2>1, QuietInv
<1>6. CASE UNCHANGED vars
  <2>1. UNCHANGED <<queue, gen, discarded, pool, refs, userRefs, pc, worker, item>>
    BY <1>6 DEF vars, spanVars, queueVars, workerVars
  <2> QED
    BY <1>1, <2>1, QuietInv
<1> QED
  BY <1>2, <1>3, <1>4, <1>5, <1>6, ReceiveInv, WorkerReleaseInv
     DEF Next, CloserStep, WorkerStep

(* The counter of every span object equals its holders less one              *)
(* (Span.Retain and Span.Release), whatever the interleaving.                *)
THEOREM ReferencesCounted == Spec => []ReferencesExact
<1>1. IInv => ReferencesExact
  BY DEF IInv, RefInv
<1> QED
  BY InitIInv, NextIInv, <1>1, PTL DEF Spec

(* An object in the allocator is in nobody's hands: neither the channel, the *)
(* worker, its owner nor an application that retained it (reporter.go:32).   *)
THEOREM PooledSpansFree == Spec => []NoUseAfterPut
BY InitIInv, NextIInv, IInvImplies, PTL DEF Spec

(* The worker serialises the span that was reported (span data corruption,   *)
(* reporter.go:33).                                                          *)
THEOREM ReportedSpansIntact == Spec => []NoCorruption
<1>1. IInv => NoCorruption
  BY DEF IInv, RefInv
<1> QED
  BY InitIInv, NextIInv, <1>1, PTL DEF Spec

-----------------------------------------------------------------------------
(* Sequences and what they hold. *)
LEMMA ElemsEmpty == Elems(<< >>) = {}
BY EmptySeq DEF Elems

LEMMA ElemsOne == ASSUME NEW e PROVE Elems(<<e>>) = {e}
<1>1. DOMAIN <<e>> = 1..1 /\ <<e>>[1] = e
  OBVIOUS
<1> QED
  BY <1>1 DEF Elems

LEMMA ElemsAppend ==
  ASSUME NEW S, NEW q \in Seq(S), NEW e \in S
  PROVE  Elems(Append(q, e)) = Elems(q) \cup {e}
<1>1. DOMAIN q = 1..Len(q) /\ Len(q) \in Nat
  BY LenProperties
<1>2. DOMAIN Append(q, e) = DOMAIN q \cup {Len(q) + 1}
  BY <1>1, AppendLast
<1> QED
  BY <1>1, <1>2, AppendLast DEF Elems

LEMMA ElemsConcat ==
  ASSUME NEW S, NEW p \in Seq(S), NEW q \in Seq(S)
  PROVE  Elems(p \o q) = Elems(p) \cup Elems(q)
<1>1. /\ DOMAIN p = 1..Len(p) /\ Len(p) \in Nat
      /\ DOMAIN q = 1..Len(q) /\ Len(q) \in Nat
  BY LenProperties
<1>2. /\ p \o q \in Seq(S) /\ Len(p \o q) = Len(p) + Len(q)
      /\ \A i \in 1..(Len(p) + Len(q)) :
           (p \o q)[i] = IF i <= Len(p) THEN p[i] ELSE q[i - Len(p)]
  BY ConcatProperties
<1>3. DOMAIN (p \o q) = 1..(Len(p) + Len(q))
  BY <1>2, LenProperties
<1>4. ASSUME NEW i \in DOMAIN (p \o q) PROVE (p \o q)[i] \in Elems(p) \cup Elems(q)
  <2>1. CASE i <= Len(p)
    BY <1>1, <1>2, <1>3, <2>1 DEF Elems
  <2>2. CASE ~ i <= Len(p)
    <3>1. i - Len(p) \in DOMAIN q /\ (p \o q)[i] = q[i - Len(p)]
      BY <1>1, <1>2, <1>3, <2>2
    <3> QED
      BY <3>1 DEF Elems
  <2> QED
    BY <2>1, <2>2
<1>5. ASSUME NEW i \in DOMAIN p PROVE p[i] \in Elems(p \o q)
  <2>1. i \in DOMAIN (p \o q) /\ (p \o q)[i] = p[i]
    BY <1>1, <1>2, <1>3
  <2> QED
    BY <2>1 DEF Elems
<1>6. ASSUME NEW i \in DOMAIN q PROVE q[i] \in Elems(p \o q)
  <2>1. i + Len(p) \in DOMAIN (p \o q) /\ (i + Len(p)) - Len(p) = i /\ ~ (i + Len(p) <= Len(p))
    BY <1>1, <1>3
  <2>2. (p \o q)[i + Len(p)] = q[i]
    BY <1>2, <1>3, <2>1
  <2> QED
    BY <2>1, <2>2 DEF Elems
<1> QED
  BY <1>4, <1>5, <1>6 DEF Elems

LEMMA ElemsTail ==
  ASSUME NEW S, NEW q \in Seq(S), q # << >>
  PROVE  /\ Tail(q) \in Seq(S) /\ Head(q) \in S
         /\ Elems(q) = {Head(q)} \cup Elems(Tail(q))
<1>1. /\ DOMAIN q = 1..Len(q) /\ Len(q) \in Nat \ {0}
      /\ Head(q) = q[1] /\ Tail(q) \in Seq(S) /\ Head(q) \in S
      /\ DOMAIN Tail(q) = 1..(Len(q) - 1)
      /\ \A i \in 1..(Len(q) - 1) : Tail(q)[i] = q[i + 1]
  BY HeadTailProperties, LenProperties, EmptySeq
<1>2. ASSUME NEW i \in DOMAIN q PROVE q[i] \in {Head(q)} \cup Elems(Tail(q))
  <2>1. CASE i = 1
    BY <1>1, <2>1
  <2>2. CASE i # 1
    <3>1. i - 1 \in DOMAIN Tail(q) /\ Tail(q)[i - 1] = q[(i - 1) + 1] /\ (i - 1) + 1 = i
      BY <1>1, <2>2
    <3> QED
      BY <3>1 DEF Elems
  <2> QED
    BY <2>1, <2>2
<1>3. ASSUME NEW i \in DOMAIN Tail(q) PROVE Tail(q)[i] \in Elems(q)
  <2>1. i + 1 \in DOMAIN q /\ Tail(q)[i] = q[i + 1]
    BY <1>1
  <2> QED
    BY <2>1 DEF Elems
<1>4. Head(q) \in Elems(q)
  <2>1. 1 \in DOMAIN q
    BY <1>1
  <2> QED
    BY <1>1, <2>1 DEF Elems
<1> QED
  BY <1>1, <1>2, <1>3, <1>4 DEF Elems

-----------------------------------------------------------------------------
(* The order of the spans in a sequence, with the order as a relation R. *)
SpansOf(q) == Elems(q) \ {CloseItem}
Sorted(R, q) ==
  \A m, n \in DOMAIN q : m < n /\ CloseItem \notin {q[m], q[n]} => <<q[m], q[n]>> \in R

LEMMA SortedSmall == ASSUME NEW R, NEW e PROVE Sorted(R, << >>) /\ Sorted(R, <<e>>)
<1>1. DOMAIN << >> = {} /\ DOMAIN <<e>> = 1..1
  BY EmptySeq
<1> QED
  BY <1>1 DEF Sorted

LEMMA SortedAppend ==
  ASSUME NEW R, NEW S, NEW q \in Seq(S), NEW e \in S, Sorted(R, q),
         e # CloseItem => SpansOf(q) \X {e} \subseteq R
  PROVE  Sorted(R, Append(q, e))
<1>1. DOMAIN q = 1..Len(q) /\ Len(q) \in Nat
  BY LenProperties
<1> DEFINE a == Append(q, e)
<1>2. /\ DOMAIN a = 1..(Len(q) + 1) /\ a[Len(q) + 1] = e
      /\ \A i \in 1..Len(q) : a[i] = q[i]
  BY AppendLast
<1> HIDE DEF a
<1> SUFFICES ASSUME NEW m \in DOMAIN a, NEW n \in DOMAIN a, m < n,
                    CloseItem \notin {a[m], a[n]}
             PROVE  <<a[m], a[n]>> \in R
  BY DEF Sorted, a
<1>3. m \in DOMAIN q /\ a[m] = q[m]
  BY <1>1, <1>2
<1>4. CASE n \in 1..Len(q)
  BY <1>1, <1>2, <1>3, <1>4 DEF Sorted
<1>5. CASE n = Len(q) + 1
  <2>1. q[m] \in SpansOf(q)
    BY <1>3 DEF SpansOf, Elems
  <2> QED
    BY <1>2, <1>3, <1>5, <2>1
<1> QED
  BY <1>1, <1>2, <1>4, <1>5

LEMMA SortedConcat ==
  ASSUME NEW R, NEW S, NEW p \in Seq(S), NEW q \in Seq(S), Sorted(R, p), Sorted(R, q),
         SpansOf(p) \X SpansOf(q) \subseteq R
  PROVE  Sorted(R, p \o q)
<1> DEFINE c == p \o q
<1>1. /\ DOMAIN p = 1..Len(p) /\ Len(p) \in Nat
      /\ DOMAIN q = 1..Len(q) /\ Len(q) \in Nat
  BY LenProperties
<1>2. /\ c \in Seq(S) /\ Len(c) = Len(p) + Len(q)
      /\ \A i \in 1..(Len(p) + Len(q)) :
           c[i] = IF i <= Len(p) THEN p[i] ELSE q[i - Len(p)]
  BY ConcatProperties
<1>3. DOMAIN c = 1..(Len(p) + Len(q))
  BY <1>2, LenProperties
<1> HIDE DEF c
<1> SUFFICES ASSUME NEW m \in DOMAIN c, NEW n \in DOMAIN c, m < n,
                    CloseItem \notin {c[m], c[n]}
             PROVE  <<c[m], c[n]>> \in R
  BY DEF Sorted, c
<1>4. CASE n <= Len(p)
  <2>1. m \in DOMAIN p /\ n \in DOMAIN p /\ c[m] = p[m] /\ c[n] = p[n]
    BY <1>1, <1>2, <1>3, <1>4
  <2> QED
    BY <2>1 DEF Sorted
<1>5. CASE ~ m <= Len(p)
  <2>1. /\ m - Len(p) \in DOMAIN q /\ n - Len(p) \in DOMAIN q /\ m - Len(p) < n - Len(p)
        /\ c[m] = q[m - Len(p)] /\ c[n] = q[n - Len(p)]
    BY <1>1, <1>2, <1>3, <1>5
  <2> QED
    BY <2>1 DEF Sorted
<1>6. CASE m <= Len(p) /\ ~ n <= Len(p)
  <2>1. /\ m \in DOMAIN p /\ n - Len(p) \in DOMAIN q
        /\ c[m] = p[m] /\ c[n] = q[n - Len(p)]
    BY <1>1, <1>2, <1>3, <1>6
  <2>2. c[m] \in SpansOf(p) /\ c[n] \in SpansOf(q)
    BY <2>1 DEF SpansOf, Elems
  <2> QED
    BY <2>2
<1> QED
  BY <1>1, <1>3, <1>4, <1>5, <1>6

LEMMA SortedTail ==
  ASSUME NEW R, NEW S, NEW q \in Seq(S), q # << >>, Sorted(R, q)
  PROVE  /\ Sorted(R, Tail(q))
         /\ Head(q) # CloseItem => {Head(q)} \X SpansOf(Tail(q)) \subseteq R
<1>1. /\ DOMAIN q = 1..Len(q) /\ Len(q) \in Nat \ {0}
      /\ Head(q) = q[1]
      /\ DOMAIN Tail(q) = 1..(Len(q) - 1)
      /\ \A i \in 1..(Len(q) - 1) : Tail(q)[i] = q[i + 1]
  BY HeadTailProperties, LenProperties, EmptySeq
<1>2. Sorted(R, Tail(q))
  <2> SUFFICES ASSUME NEW m \in DOMAIN Tail(q), NEW n \in DOMAIN Tail(q), m < n,
                      CloseItem \notin {Tail(q)[m], Tail(q)[n]}
               PROVE  <<Tail(q)[m], Tail(q)[n]>> \in R
    BY DEF Sorted
  <2>1. /\ m + 1 \in DOMAIN q /\ n + 1 \in DOMAIN q /\ m + 1 < n + 1
        /\ Tail(q)[m] = q[m + 1] /\ Tail(q)[n] = q[n + 1]
    BY <1>1
  <2> QED
    BY <2>1 DEF Sorted
<1>3. ASSUME Head(q) # CloseItem, NEW e \in SpansOf(Tail(q))
      PROVE  <<Head(q), e>> \in R
  <2>1. PICK n \in DOMAIN Tail(q) : Tail(q)[n] = e /\ e # CloseItem
    BY DEF SpansOf, Elems
  <2>2. 1 \in DOMAIN q /\ n + 1 \in DOMAIN q /\ 1 < n + 1 /\ q[n + 1] = e
    BY <1>1, <2>1
  <2> QED
    BY <1>1, <1>3, <2>1, <2>2 DEF Sorted
<1> QED
  BY <1>2, <1>3

(* No span is at two places of a sorted sequence. *)
LEMMA SortedOnce ==
  ASSUME NEW R, NEW S, NEW q \in Seq(S), Sorted(R, q), \A e : <<e, e>> \notin R,
         NEW m \in DOMAIN q, NEW n \in DOMAIN q, q[m] = q[n], q[m] # CloseItem
  PROVE  m = n
<1>1. m \in Nat /\ n \in Nat
  BY LenProperties
<1>2. ~ m < n /\ ~ n < m
  BY DEF Sorted
<1> QED
  BY <1>1, <1>2

-----------------------------------------------------------------------------
(* What flows through the reporter, stage by stage: b received, f buffered,  *)
(* h with the worker and q in the channel.                                   *)
Flows(R, b, f, h, q) ==
  /\ Sorted(R, b) /\ Sorted(R, f) /\ Sorted(R, h) /\ Sorted(R, q)
  /\ SpansOf(b) \X (SpansOf(f) \cup SpansOf(h) \cup SpansOf(q)) \subseteq R
  /\ SpansOf(f) \X (SpansOf(h) \cup SpansOf(q)) \subseteq R
  /\ SpansOf(h) \X SpansOf(q) \subseteq R
Carried(b, f, h, q) == SpansOf(b) \cup SpansOf(f) \cup SpansOf(h) \cup SpansOf(q)

(* The worker keeps a span in the buffer, drops it, or empties the buffer:   *)
(* the steps AppendOutcome is made of.                                       *)
LEMMA FlowKeep ==
  ASSUME NEW R, NEW b \in Seq(Item), NEW f \in Seq(Item), NEW q \in Seq(Item),
         NEW i \in Item, i # CloseItem, NEW h, SpansOf(h) = {i}, Flows(R, b, f, h, q)
  PROVE  Flows(R, b, Append(f, i), << >>, q)
<1>1. SpansOf(<< >>) = {}
  BY ElemsEmpty DEF SpansOf
<1>2. SpansOf(Append(f, i)) = SpansOf(f) \cup {i}
  BY ElemsAppend DEF SpansOf
<1>3. Sorted(R, Append(f, i)) /\ Sorted(R, << >>)
  BY <1>1, SortedAppend, SortedSmall DEF Flows
<1> QED
  BY <1>1, <1>2, <1>3 DEF Flows

LEMMA FlowFlush ==
  ASSUME NEW R, NEW b \in Seq(Item), NEW f \in Seq(Item), NEW h \in Seq(Item),
         NEW q \in Seq(Item), Flows(R, b, f, h, q)
  PROVE  /\ Flows(R, b \o f, << >>, h, q)
         /\ b \o f \in Seq(Item)
         /\ SpansOf(b \o f) = SpansOf(b) \cup SpansOf(f)
<1>1. SpansOf(<< >>) = {}
  BY ElemsEmpty DEF SpansOf
<1>2. SpansOf(b \o f) = SpansOf(b) \cup SpansOf(f)
  BY ElemsConcat DEF SpansOf
<1>3. Sorted(R, b \o f) /\ Sorted(R, << >>)
  BY SortedConcat, SortedSmall DEF Flows
<1> QED
  BY <1>1, <1>2, <1>3, ConcatProperties DEF Flows

LEMMA FlowLose ==
  ASSUME NEW R, NEW b, NEW f, NEW h, NEW q, Flows(R, b, f, h, q)
  PROVE  Flows(R, b, << >>, h, q) /\ Flows(R, b, f, << >>, q)
BY ElemsEmpty, SortedSmall DEF Flows, SpansOf

(* The worker takes the head of the channel. *)
HandOf(e) == IF e = CloseItem THEN << >> ELSE <<e>>

LEMMA FlowReceive ==
  ASSUME NEW R, NEW b, NEW f, NEW q \in Seq(Item), q # << >>, Flows(R, b, f, << >>, q)
  PROVE  /\ Flows(R, b, f, HandOf(Head(q)), Tail(q))
         /\ SpansOf(q) = SpansOf(HandOf(Head(q))) \cup SpansOf(Tail(q))
<1>1. Elems(q) = {Head(q)} \cup Elems(Tail(q))
  BY ElemsTail
<1>2. SpansOf(HandOf(Head(q))) = {Head(q)} \ {CloseItem}
  BY ElemsOne, ElemsEmpty DEF HandOf, SpansOf
<1>3. SpansOf(q) = SpansOf(HandOf(Head(q))) \cup SpansOf(Tail(q))
  BY <1>1, <1>2 DEF SpansOf
<1>4. Sorted(R, Tail(q)) /\ Sorted(R, HandOf(Head(q)))
  BY SortedTail, SortedSmall DEF Flows, HandOf
<1>5. SpansOf(HandOf(Head(q))) \X SpansOf(Tail(q)) \subseteq R
  BY <1>2, SortedTail DEF Flows
<1> QED
  BY <1>3, <1>4, <1>5 DEF Flows

(* An item is sent on the channel: the close item, or a span that follows    *)
(* all those on their way.                                                   *)
LEMMA FlowSend ==
  ASSUME NEW R, NEW b, NEW f, NEW h, NEW q \in Seq(Item), NEW e \in Item,
         Flows(R, b, f, h, q),
         e # CloseItem => Carried(b, f, h, q) \X {e} \subseteq R
  PROVE  /\ Flows(R, b, f, h, Append(q, e))
         /\ SpansOf(Append(q, e)) = SpansOf(q) \cup ({e} \ {CloseItem})
<1>1. SpansOf(Append(q, e)) = SpansOf(q) \cup ({e} \ {CloseItem})
  BY ElemsAppend DEF SpansOf
<1>2. Sorted(R, Append(q, e))
  BY SortedAppend DEF Flows, Carried
<1> QED
  BY <1>1, <1>2 DEF Flows, Carried

LEMMA FlowGrows ==
  ASSUME NEW R, NEW T, R \subseteq T, NEW b, NEW f, NEW h, NEW q, Flows(R, b, f, h, q)
  PROVE  Flows(T, b, f, h, q)
BY DEF Flows, Sorted

(* Stages in a sorted flow share no span. *)
LEMMA FlowApart ==
  ASSUME NEW R, NEW b, NEW f, NEW h, NEW q, Flows(R, b, f, h, q), \A e : <<e, e>> \notin R
  PROVE  /\ SpansOf(b) \cap (SpansOf(f) \cup SpansOf(h) \cup SpansOf(q)) = {}
         /\ SpansOf(f) \cap (SpansOf(h) \cup SpansOf(q)) = {}
         /\ SpansOf(h) \cap SpansOf(q) = {}
BY DEF Flows

(* The stages one after the other are the whole pipeline. *)
LEMMA FlowWhole ==
  ASSUME NEW R, NEW b \in Seq(Item), NEW f \in Seq(Item), NEW h \in Seq(Item),
         NEW q \in Seq(Item), Flows(R, b, f, h, q)
  PROVE  /\ Sorted(R, b \o f \o h \o q)
         /\ SpansOf(b \o f \o h \o q) = Carried(b, f, h, q)
<1> DEFINE bf == b \o f
           bfh == bf \o h
<1>1. bf \in Seq(Item) /\ SpansOf(bf) = SpansOf(b) \cup SpansOf(f) /\ Sorted(R, bf)
  BY ConcatProperties, ElemsConcat, SortedConcat DEF Flows, SpansOf
<1>2. SpansOf(bf) \X SpansOf(h) \subseteq R /\ SpansOf(bf) \X SpansOf(q) \subseteq R
  BY <1>1 DEF Flows
<1> HIDE DEF bf
<1>3. bfh \in Seq(Item) /\ SpansOf(bfh) = SpansOf(bf) \cup SpansOf(h) /\ Sorted(R, bfh)
  BY <1>1, <1>2, ConcatProperties, ElemsConcat, SortedConcat DEF Flows, SpansOf
<1>4. SpansOf(bfh) \X SpansOf(q) \subseteq R
  BY <1>2, <1>3 DEF Flows
<1> HIDE DEF bfh
<1>5. SpansOf(bfh \o q) = SpansOf(bfh) \cup SpansOf(q) /\ Sorted(R, bfh \o q)
  BY <1>3, <1>4, ElemsConcat, SortedConcat DEF Flows, SpansOf
<1> QED
  BY <1>1, <1>3, <1>5 DEF Carried, bf, bfh

-----------------------------------------------------------------------------
(* Of the spans A the channel took, l are lost and the others flow, in the   *)
(* order R, through the stages.                                              *)
Accounts(R, A, l, b, f, h, q) ==
  /\ Flows(R, b, f, h, q)
  /\ A = l \cup Carried(b, f, h, q)
  /\ l \cap Carried(b, f, h, q) = {}

LEMMA FlushAccounts ==
  ASSUME NEW R, \A e : <<e, e>> \notin R, NEW A, NEW l,
         NEW b \in Seq(Item), NEW f \in Seq(Item), NEW h \in Seq(Item),
         NEW q \in Seq(Item), CloseItem \notin Elems(f),
         Accounts(R, A, l, b, f, h, q)
  PROVE  /\ Accounts(R, A, l, b \o f, << >>, h, q)
         /\ Accounts(R, A, l \cup Elems(f), b, << >>, h, q)
<1>1. Flows(R, b, f, h, q) /\ A = l \cup Carried(b, f, h, q) /\ l \cap Carried(b, f, h, q) = {}
  BY DEF Accounts
<1>2. SpansOf(<< >>) = {} /\ Elems(f) = SpansOf(f)
  BY ElemsEmpty DEF SpansOf
<1>3. Accounts(R, A, l, b \o f, << >>, h, q)
  <2>1. Flows(R, b \o f, << >>, h, q) /\ SpansOf(b \o f) = SpansOf(b) \cup SpansOf(f)
    <3>1. Flows(R, b \o f, << >>, h, q)
      BY <1>1, FlowFlush
    <3>2. SpansOf(b \o f) = SpansOf(b) \cup SpansOf(f)
      BY ElemsConcat DEF SpansOf
    <3> QED
      BY <3>1, <3>2
  <2> QED
    BY <1>1, <1>2, <2>1 DEF Accounts, Carried
<1>4. SpansOf(f) \cap (SpansOf(b) \cup SpansOf(h) \cup SpansOf(q)) = {}
  BY <1>1, FlowApart
<1>5. Accounts(R, A, l \cup Elems(f), b, << >>, h, q)
  BY <1>1, <1>2, <1>4, FlowLose DEF Accounts, Carried
<1> QED
  BY <1>3, <1>5

LEMMA AppendAccounts ==
  ASSUME NEW R, \A e : <<e, e>> \notin R, NEW A, NEW l,
         NEW b \in Seq(Item), NEW f \in Seq(Item), NEW q \in Seq(Item),
         NEW i \in Item, i # CloseItem, NEW h, SpansOf(h) = {i},
         Accounts(R, A, l, b, f, h, q)
  PROVE  /\ Accounts(R, A, l, b, Append(f, i), << >>, q)
         /\ Accounts(R, A, l \cup {i}, b, f, << >>, q)
<1>1. Flows(R, b, f, h, q)
  BY DEF Accounts
<1>2. A = l \cup Carried(b, f, h, q) /\ l \cap Carried(b, f, h, q) = {}
  BY DEF Accounts
<1>3. SpansOf(<< >>) = {}
  BY ElemsEmpty DEF SpansOf
<1>4. Flows(R, b, Append(f, i), << >>, q)
  BY <1>1, FlowKeep
<1>5. SpansOf(Append(f, i)) = SpansOf(f) \cup {i}
  BY ElemsAppend DEF SpansOf
<1>6. Accounts(R, A, l, b, Append(f, i), << >>, q)
  BY <1>2, <1>3, <1>4, <1>5 DEF Accounts, Carried
<1>7. i \notin SpansOf(b) \cup SpansOf(f) \cup SpansOf(q)
  BY <1>1, FlowApart
<1>8. Accounts(R, A, l \cup {i}, b, f, << >>, q)
  BY <1>1, <1>2, <1>3, <1>7, FlowLose DEF Accounts, Carried
<1> QED
  BY <1>6, <1>8

LEMMA ReceiveAccounts ==
  ASSUME NEW R, NEW A, NEW l, NEW b, NEW f, NEW q \in Seq(Item), q # << >>,
         Accounts(R, A, l, b, f, << >>, q)
  PROVE  Accounts(R, A, l, b, f, HandOf(Head(q)), Tail(q))
<1>1. SpansOf(<< >>) = {}
  BY ElemsEmpty DEF SpansOf
<1> QED
  BY <1>1, FlowReceive DEF Accounts, Carried

LEMMA CloseAccounts ==
  ASSUME NEW R, NEW A, NEW l, NEW b, NEW f, NEW h, NEW q \in Seq(Item),
         Accounts(R, A, l, b, f, h, q)
  PROVE  Accounts(R, A, l, b, f, h, Append(q, CloseItem))
<1>1. CloseItem \in Item
  BY DEF Item
<1>2. /\ Flows(R, b, f, h, Append(q, CloseItem))
      /\ SpansOf(Append(q, CloseItem)) = SpansOf(q) \cup ({CloseItem} \ {CloseItem})
  <2>1. Flows(R, b, f, h, q)
    BY DEF Accounts
  <2> QED
    BY <1>1, <2>1, FlowSend
<1> QED
  BY <1>2 DEF Accounts, Carried

LEMMA ReportAccounts ==
  ASSUME NEW R, NEW T, R \subseteq T, NEW A, NEW l, NEW b, NEW f, NEW h,
         NEW q \in Seq(Item), NEW i \in Item, i # CloseItem, i \notin A,
         A \X {i} \subseteq T, Accounts(R, A, l, b, f, h, q)
  PROVE  Accounts(T, A \cup {i}, l, b, f, h, Append(q, i))
<1>1. Flows(T, b, f, h, q)
  BY FlowGrows DEF Accounts
<1>2. Carried(b, f, h, q) \X {i} \subseteq T
  BY DEF Accounts
<1>3. Flows(T, b, f, h, Append(q, i)) /\ SpansOf(Append(q, i)) = SpansOf(q) \cup {i}
  BY <1>1, <1>2, FlowSend
<1> QED
  BY <1>3 DEF Accounts, Carried

-----------------------------------------------------------------------------
(* The order in which the channel took the spans. *)
Order == {p \in Instance \X Instance : TakenBefore(p[1], p[2])}

(* A span is taken once: its use of the object is over, was not dropped, and *)
(* a use that is not finished has not been taken yet.                        *)
TakenInv ==
  /\ \A m, n \in DOMAIN accepted : accepted[m] = accepted[n] => m = n
  /\ \A i \in Elems(accepted) : i.gen <= gen[i.span] /\ i \notin discarded
  /\ \A s \in Spans : pc[s] = "live" => Current(s) \notin Elems(accepted)

FlowInv == Accounts(Order, Elems(accepted), lost, backend, buffer, Hand, queue)

(* The worker flushes before it signals, and Close waits for the signal. *)
SettledInv ==
  /\ wg = 0 <=> worker = "stopped"
  /\ worker \in {"closeDone", "stopped"} => buffer = << >>
  /\ sender = "closed" => worker = "stopped"

DInv == IInv /\ TakenInv /\ FlowInv /\ SettledInv

LEMMA OrderIrreflexive ==
  ASSUME TypeOK, TakenInv
  PROVE  \A e : <<e, e>> \notin Order
<1> SUFFICES ASSUME NEW e, <<e, e>> \in Order PROVE FALSE
  OBVIOUS
<1>1. TakenBefore(e, e)
  BY DEF Order
<1>2. PICK m \in DOMAIN accepted, n \in DOMAIN accepted :
        m < n /\ accepted[m] = e /\ accepted[n] = e
  BY <1>1 DEF TakenBefore
<1>3. m = n
  BY <1>2 DEF TakenInv
<1>4. m \in Nat
  BY LenProperties DEF TypeOK
<1> QED
  BY <1>2, <1>3, <1>4

(* The types the stages need. *)
LEMMA StageTypes ==
  ASSUME IInv
  PROVE  /\ backend \in Seq(Item) /\ buffer \in Seq(Item) /\ queue \in Seq(Item)
         /\ buffer \in Seq(Instance)
         /\ Hand \in Seq(Item) /\ accepted \in Seq(Instance)
         /\ CloseItem \notin Elems(buffer) /\ CloseItem \notin Elems(backend)
         /\ worker = "append" => item \in Instance /\ Current(item.span) = item
<1>1. TypeOK /\ Started /\ NoCorruption
  BY DEF IInv, TypeInv, RefInv
<1>2. \A q \in Seq(Instance) : q \in Seq(Item) /\ CloseItem \notin Elems(q)
  <2> TAKE q \in Seq(Instance)
  <2>1. Len(q) \in Nat /\ q \in [1..Len(q) -> Instance] /\ DOMAIN q = 1..Len(q)
    BY LenProperties
  <2>2. q \in [1..Len(q) -> Item]
    BY <2>1 DEF Item
  <2>3. q \in Seq(Item)
    BY <2>1, <2>2, SeqDef
  <2>4. ASSUME NEW i \in DOMAIN q PROVE q[i] # CloseItem
    <3>1. q[i] \in Instance
      BY <2>1
    <3> QED
      BY <3>1
  <2> QED
    BY <2>3, <2>4 DEF Elems
<1>3. worker = "append" => item \in Instance
  BY <1>1 DEF Started
<1>4. Hand \in Seq(Item)
  <2>1. CASE worker = "append"
    BY <1>3, <2>1 DEF Hand, Item
  <2>2. CASE worker # "append"
    BY <2>2, EmptySeq DEF Hand
  <2> QED
    BY <2>1, <2>2
<1> QED
  BY <1>1, <1>2, <1>3, <1>4 DEF TypeOK, NoCorruption

LEMMA InitDInv == Init => DInv
<1> SUFFICES ASSUME Init PROVE TakenInv /\ FlowInv /\ SettledInv
  BY InitIInv DEF DInv
<1>1. /\ accepted = << >> /\ backend = << >> /\ buffer = << >> /\ queue = << >>
      /\ lost = {} /\ Hand = << >>
  BY DEF Init, TransportInit, Hand
<1>2. Elems(<< >>) = {} /\ SpansOf(<< >>) = {} /\ DOMAIN << >> = {}
  BY ElemsEmpty, EmptySeq DEF SpansOf
<1>3. TakenInv
  BY <1>1, <1>2 DEF TakenInv
<1>4. FlowInv
  BY <1>1, <1>2, SortedSmall DEF FlowInv, Accounts, Flows, Carried
<1> QED
  BY <1>3, <1>4 DEF Init, TransportInit, SettledInv

(* A step that takes no span, drops none and starts none. *)
LEMMA SameTaken ==
  ASSUME TakenInv, UNCHANGED <<accepted, discarded, gen>>,
         \A s \in Spans : pc'[s] = "live" => pc[s] = "live"
  PROVE  TakenInv' /\ Order' = Order
<1>1. \A s : Current(s)' = Current(s)
  BY DEF Current
<1>2. \A i, j : TakenBefore(i, j)' <=> TakenBefore(i, j)
  BY DEF TakenBefore
<1> QED
  BY <1>1, <1>2 DEF TakenInv, Order

LEMMA SameFlow ==
  ASSUME FlowInv, Order' = Order, UNCHANGED <<accepted, lost, backend, buffer, queue>>,
         Hand' = Hand
  PROVE  FlowInv'
BY DEF FlowInv

LEMMA StartTaken ==
  ASSUME DInv, NEW s \in Spans, Start(s)
  PROVE  TakenInv' /\ Order' = Order
<1>1. /\ gen' = [gen EXCEPT ![s] = @ + 1] /\ pc' = [pc EXCEPT ![s] = "live"]
      /\ UNCHANGED <<accepted, discarded>>
  BY DEF Start
<1>2. TypeOK /\ TakenInv
  BY DEF DInv, IInv, TypeInv
<1>3. gen'[s] = gen[s] + 1 /\ \A t \in Spans : t # s => gen'[t] = gen[t] /\ pc'[t] = pc[t]
  BY <1>1, <1>2 DEF TypeOK
<1>4. \A i \in Elems(accepted) : i.span \in Spans /\ i.gen \in Int
  <2>1. Elems(accepted) \subseteq Instance
    BY <1>2, LenProperties DEF TypeOK, Elems
  <2> QED
    BY <2>1 DEF Instance
<1>5. \A t \in Spans : gen[t] \in Int
  BY <1>2 DEF TypeOK
<1>6. \A i \in Elems(accepted) : i.gen <= gen'[i.span] /\ i.gen <= gen[i.span]
  BY <1>2, <1>3, <1>4, <1>5 DEF TakenInv
<1>7. ASSUME NEW t \in Spans, pc'[t] = "live" PROVE Current(t)' \notin Elems(accepted)
  <2>1. CASE t = s
    <3>1. Current(s)'.span = s /\ Current(s)'.gen = gen[s] + 1
      BY <1>3 DEF Current
    <3>2. \A i \in Elems(accepted) : i.span = s => i.gen # gen[s] + 1
      BY <1>4, <1>5, <1>6
    <3> QED
      BY <2>1, <3>1, <3>2
  <2>2. CASE t # s
    BY <1>2, <1>3, <1>7, <2>2 DEF TakenInv, Current
  <2> QED
    BY <2>1, <2>2
<1>8. \A i, j : TakenBefore(i, j)' <=> TakenBefore(i, j)
  BY <1>1 DEF TakenBefore
<1> QED
  BY <1>1, <1>2, <1>6, <1>7, <1>8 DEF TakenInv, Order

(* The channel takes a span, after all it took before, or Report drops it. *)
LEMMA ReportDelivery ==
  ASSUME DInv, NEW s \in Spans, Report(s)
  PROVE  TakenInv' /\ FlowInv'
<1>1. /\ pc[s] = "live"
      /\ UNCHANGED <<gen, worker, item, backend, buffer, lost>>
  BY DEF Report, workerVars, transportVars
<1>2. IInv /\ TypeOK /\ TakenInv /\ FlowInv /\ RefInv /\ Started
  BY DEF DInv, IInv, TypeInv
<1> DEFINE e == Current(s)
<1>3. /\ e \in Instance /\ e \in Item /\ e # CloseItem
      /\ e.span = s /\ e.gen = gen[s] /\ gen[s] \in Int
      /\ e \notin Elems(accepted) /\ e \notin discarded
  <2>1. e \in Instance
    BY <1>1, <1>2, CurrentType DEF Started
  <2>2. e \notin discarded
    BY <1>1, <1>2 DEF RefInv, Placed, Leaked
  <2> QED
    BY <1>1, <1>2, <2>1, <2>2 DEF Current, Item, TakenInv, TypeOK
<1>4. Hand' = Hand
  BY <1>1 DEF Hand
<1>5. \A t : Current(t)' = Current(t)
  BY <1>1 DEF Current
<1>6. \A t \in Spans : t # s => Current(t) # e
  BY DEF Current
<1>7. pc'[s] # "live" /\ \A t \in Spans : t # s => pc'[t] = pc[t]
  BY <1>2 DEF Report, TypeOK
<1>8. /\ Hand \in Seq(Item) /\ queue \in Seq(Item) /\ backend \in Seq(Item)
      /\ buffer \in Seq(Item) /\ accepted \in Seq(Instance)
  BY <1>2, StageTypes
<1> HIDE DEF e
<1>9. CASE HasRoom
  <2>1. /\ queue' = Append(queue, e) /\ accepted' = Append(accepted, e)
        /\ discarded' = discarded
    BY <1>9 DEF Report, e
  <2>2. Elems(accepted') = Elems(accepted) \cup {e}
    BY <1>3, <1>8, <2>1, ElemsAppend
  <2> DEFINE n == Len(accepted)
  <2>3. /\ DOMAIN accepted = 1..n /\ DOMAIN accepted' = 1..(n + 1) /\ n \in Nat
        /\ accepted'[n + 1] = e /\ \A m \in 1..n : accepted'[m] = accepted[m]
    BY <1>3, <1>8, <2>1, AppendLast, LenProperties
  <2> HIDE DEF n
  <2>4. TakenInv'
    <3>1. ASSUME NEW k \in DOMAIN accepted', NEW m \in DOMAIN accepted',
                 accepted'[k] = accepted'[m]
          PROVE  k = m
      <4>1. \A x \in 1..n : accepted[x] # e
        BY <1>3, <2>3 DEF Elems
      <4>2. \A x \in 1..(n + 1) : x \in 1..n \/ x = n + 1
        BY <2>3
      <4>3. CASE k \in 1..n /\ m \in 1..n
        BY <1>2, <2>3, <3>1, <4>3 DEF TakenInv
      <4> QED
        BY <2>3, <3>1, <4>1, <4>2, <4>3
    <3>2. \A i \in Elems(accepted') : i.gen <= gen'[i.span] /\ i \notin discarded'
      BY <1>1, <1>2, <1>3, <2>1, <2>2 DEF TakenInv
    <3>3. \A t \in Spans : pc'[t] = "live" => Current(t)' \notin Elems(accepted')
      BY <1>2, <1>5, <1>6, <1>7, <2>2 DEF TakenInv
    <3> QED
      BY <3>1, <3>2, <3>3 DEF TakenInv
  <2>5. Order \subseteq Order'
    <3> SUFFICES ASSUME NEW i, NEW j, TakenBefore(i, j) PROVE TakenBefore(i, j)'
      BY DEF Order
    <3>1. PICK k \in 1..n, m \in 1..n : k < m /\ accepted[k] = i /\ accepted[m] = j
      BY <2>3 DEF TakenBefore
    <3>2. k \in 1..(n + 1) /\ m \in 1..(n + 1)
      BY <2>3
    <3> QED
      BY <2>3, <3>1, <3>2 DEF TakenBefore
  <2>6. Elems(accepted) \X {e} \subseteq Order'
    <3> SUFFICES ASSUME NEW x \in Elems(accepted), NEW y, y = e
                 PROVE  <<x, y>> \in Order'
      OBVIOUS
    <3>1. PICK m \in 1..n : accepted[m] = x
      BY <2>3 DEF Elems
    <3>2. m \in 1..(n + 1) /\ n + 1 \in 1..(n + 1) /\ m < n + 1
      BY <2>3
    <3>3. TakenBefore(x, y)'
      BY <2>3, <3>1, <3>2 DEF TakenBefore
    <3>4. x \in Instance /\ y \in Instance
      BY <1>3, <1>8, <2>3, <3>1
    <3> QED
      BY <3>3, <3>4 DEF Order
  <2>7. Accounts(Order', Elems(accepted) \cup {e}, lost, backend, buffer, Hand, Append(queue, e))
    BY <1>2, <1>3, <1>8, <2>5, <2>6, ReportAccounts DEF FlowInv
  <2>8. FlowInv'
    BY <1>1, <1>4, <2>1, <2>2, <2>7 DEF FlowInv
  <2> QED
    BY <2>4, <2>8
<1>10. CASE ~ HasRoom
  <2>1. /\ queue' = queue /\ accepted' = accepted
        /\ discarded' = discarded \cup {e}
    BY <1>10 DEF Report, e
  <2>2. TakenInv'
    BY <1>1, <1>2, <1>3, <1>5, <1>7, <2>1 DEF TakenInv
  <2>3. \A i, j : TakenBefore(i, j)' <=> TakenBefore(i, j)
    BY <2>1 DEF TakenBefore
  <2>4. Order' = Order
    BY <2>3 DEF Order
  <2> QED
    BY <1>1, <1>2, <1>4, <2>1, <2>2, <2>4, SameFlow
<1> QED
  BY <1>9, <1>10

LEMMA ReceiveDelivery ==
  ASSUME DInv, Receive
  PROVE  FlowInv'
<1>1. /\ worker = "select" /\ queue # << >> /\ item' = Head(queue)
      /\ worker' = IF Head(queue) = CloseItem THEN "closeFlush" ELSE "append"
      /\ UNCHANGED <<gen, discarded, pc, accepted, lost, backend, buffer>>
  BY DEF Receive, spanVars, transportVars
<1>2. IInv /\ TypeOK /\ TakenInv /\ FlowInv
  BY DEF DInv, IInv, TypeInv
<1>3. Order' = Order
  BY <1>1, <1>2, SameTaken
<1>4. Hand = << >> /\ Hand' = HandOf(Head(queue))
  BY <1>1 DEF Hand, HandOf
<1>5. queue \in Seq(Item) /\ Tail(queue) \in Seq(Item)
  BY <1>1, <1>2, StageTypes, ElemsTail
<1> DEFINE A == Elems(accepted)
           h == HandOf(Head(queue))
<1>6. Accounts(Order, A, lost, backend, buffer, << >>, queue)
  BY <1>2, <1>4 DEF FlowInv
<1>7. Accounts(Order, A, lost, backend, buffer, h, Tail(queue))
  BY <1>1, <1>5, <1>6, ReceiveAccounts
<1> HIDE DEF h
<1>8. Accounts(Order, A, lost, backend, buffer, h, Append(Tail(queue), CloseItem))
  BY <1>5, <1>7, CloseAccounts
<1>9. queue' = Tail(queue) \/ queue' = Append(Tail(queue), CloseItem)
  BY DEF Receive
<1> QED
  BY <1>1, <1>3, <1>4, <1>7, <1>8, <1>9 DEF FlowInv, h

LEMMA CloseSendDelivery ==
  ASSUME DInv, NEW c \in Closers, CloseSend(c)
  PROVE  FlowInv'
<1>1. UNCHANGED <<gen, discarded, pc, accepted, lost, backend, buffer, worker, item>>
  BY DEF CloseSend, spanVars, workerVars, transportVars
<1>2. IInv /\ TakenInv /\ FlowInv
  BY DEF DInv
<1>3. Order' = Order
  BY <1>1, <1>2, SameTaken
<1>4. Hand' = Hand
  BY <1>1 DEF Hand
<1>5. queue \in Seq(Item)
  BY <1>2, StageTypes
<1>6. Accounts(Order, Elems(accepted), lost, backend, buffer, Hand, Append(queue, CloseItem))
  BY <1>2, <1>5, CloseAccounts DEF FlowInv
<1>7. queue' = queue \/ queue' = Append(queue, CloseItem)
  BY DEF CloseSend
<1> QED
  BY <1>1, <1>2, <1>3, <1>4, <1>6, <1>7 DEF FlowInv

(* What the transport does with its buffer and with the span in hand leaves  *)
(* every span accounted for.                                                 *)
LEMMA FlushDelivery ==
  ASSUME IInv, TakenInv, FlowInv, NEW r \in Results, Flush(r)
  PROVE  Accounts(Order, Elems(accepted), lost', backend', buffer', Hand, queue)
<1>1. TypeOK
  BY DEF IInv, TypeInv
<1>2. \A e : <<e, e>> \notin Order
  BY <1>1, OrderIrreflexive
<1> DEFINE A == Elems(accepted)
<1>3. /\ Accounts(Order, A, lost, backend \o buffer, << >>, Hand, queue)
      /\ Accounts(Order, A, lost \cup Elems(buffer), backend, << >>, Hand, queue)
  BY <1>2, StageTypes, FlushAccounts DEF FlowInv
<1>4. buffer' = << >> /\ Emit(buffer, r)
  BY DEF Flush
<1>5. CASE r = "ok"
  BY <1>3, <1>4, <1>5 DEF Emit
<1>6. CASE r # "ok"
  BY <1>3, <1>4, <1>6 DEF Emit
<1> QED
  BY <1>5, <1>6

LEMMA AppendDelivery ==
  ASSUME DInv, AppendSpan
  PROVE  FlowInv'
<1>1. /\ worker = "append" /\ worker' = "release"
      /\ AppendOutcome(Current(item.span))
      /\ UNCHANGED <<gen, discarded, pc, accepted, queue>>
  BY DEF AppendSpan, spanVars, queueVars
<1>2. IInv /\ TypeOK /\ TakenInv /\ FlowInv
  BY DEF DInv, IInv, TypeInv
<1>3. Order' = Order /\ \A e : <<e, e>> \notin Order
  BY <1>1, <1>2, SameTaken, OrderIrreflexive
<1>4. PICK i \in Item : i = item /\ i # CloseItem /\ Current(item.span) = i /\ i \in Instance
  BY <1>1, <1>2, StageTypes DEF Item
<1>5. Hand = <<i>> /\ Hand' = << >> /\ SpansOf(Hand) = {i}
  BY <1>1, <1>4, ElemsOne DEF Hand, SpansOf
<1>6. /\ backend \in Seq(Item) /\ buffer \in Seq(Item) /\ queue \in Seq(Item)
      /\ Hand \in Seq(Item) /\ CloseItem \notin Elems(buffer)
  BY <1>2, StageTypes
<1> DEFINE A == Elems(accepted)
           a == Append(buffer, i)
<1>7. Accounts(Order, A, lost, backend, buffer, Hand, queue)
  BY <1>2 DEF FlowInv
<1>8. /\ Accounts(Order, A, lost, backend, a, << >>, queue)
      /\ Accounts(Order, A, lost \cup {i}, backend, buffer, << >>, queue)
  BY <1>3, <1>4, <1>5, <1>6, <1>7, AppendAccounts
<1>9. << >> \in Seq(Item) /\ a \in Seq(Item) /\ CloseItem \notin Elems(a)
  BY <1>4, <1>6, EmptySeq, AppendLast, ElemsAppend
<1>10. a = Append(buffer, i)
  OBVIOUS
<1> HIDE DEF a
<1>11. /\ Accounts(Order, A, lost, backend \o a, << >>, << >>, queue)
       /\ Accounts(Order, A, lost \cup Elems(a), backend, << >>, << >>, queue)
  BY <1>3, <1>6, <1>8, <1>9, FlushAccounts
<1>12. SUFFICES Accounts(Order, A, lost', backend', buffer', << >>, queue)
  BY <1>1, <1>3, <1>5 DEF FlowInv
<1>13. CASE Keep(i)
  BY <1>8, <1>10, <1>13 DEF Keep
<1>14. CASE Reject(i)
  <2>1. /\ lost' = lost \cup Elems(<<i>>) /\ backend' = backend /\ buffer' = buffer
    BY <1>14 DEF Reject, Emit
  <2> QED
    BY <1>8, <2>1, ElemsOne
<1>15. ASSUME NEW r \in Results, FlushWith(i, r)
       PROVE  Accounts(Order, A, lost', backend', buffer', << >>, queue)
  <2>1. Emit(a, r) /\ buffer' = << >>
    BY <1>10, <1>15 DEF FlushWith
  <2>2. CASE r = "ok"
    BY <1>11, <2>1, <2>2 DEF Emit
  <2>3. CASE r # "ok"
    BY <1>11, <2>1, <2>3 DEF Emit
  <2> QED
    BY <2>2, <2>3
<1>16. ASSUME NEW r \in Results, FlushBefore(i, r)
       PROVE  Accounts(Order, A, lost', backend', buffer', << >>, queue)
  <2>1. Emit(buffer, r) /\ buffer' = <<i>>
    BY <1>16 DEF FlushBefore
  <2>2. /\ Accounts(Order, A, lost, backend \o buffer, << >>, Hand, queue)
        /\ Accounts(Order, A, lost \cup Elems(buffer), backend, << >>, Hand, queue)
        /\ backend \o buffer \in Seq(Item)
    BY <1>3, <1>6, <1>7, FlushAccounts, ConcatProperties
  <2>3. Append(<< >>, i) = <<i>>
    OBVIOUS
  <2> DEFINE bf == backend \o buffer
             lf == lost \cup Elems(buffer)
             o  == Append(<< >>, i)
  <2>4. bf \in Seq(Item) /\ Accounts(Order, A, lost, bf, << >>, Hand, queue)
    BY <2>2
  <2>5. Accounts(Order, A, lf, backend, << >>, Hand, queue)
    BY <2>2
  <2> HIDE DEF bf, lf
  <2>6. Accounts(Order, A, lost, bf, o, << >>, queue)
    BY <1>3, <1>4, <1>5, <1>6, <1>9, <2>4, AppendAccounts
  <2>7. Accounts(Order, A, lf, backend, o, << >>, queue)
    BY <1>3, <1>4, <1>5, <1>6, <1>9, <2>5, AppendAccounts
  <2> HIDE DEF o
  <2>8. buffer' = o
    BY <2>1, <2>3 DEF o
  <2>9. CASE r = "ok"
    BY <2>1, <2>6, <2>8, <2>9 DEF Emit, bf
  <2>10. CASE r # "ok"
    BY <2>1, <2>7, <2>8, <2>10 DEF Emit, lf
  <2> QED
    BY <2>9, <2>10
<1> QED
  BY <1>1, <1>4, <1>13, <1>14, <1>15, <1>16 DEF AppendOutcome

(* The signal of the worker and what waits for it. *)
LEMMA NextSettled ==
  ASSUME TypeOK, SettledInv, [Next]_vars
  PROVE  SettledInv'
<1>1. ASSUME NEW s \in Spans, SpanStep(s) PROVE SettledInv'
  <2>1. UNCHANGED <<worker, wg, buffer, sender>>
    BY <1>1 DEF SpanStep, Start, UserRetain, UserRelease, Report, ReportCount,
                FinishUnsampled, FinishRelease, closeVars, workerVars, transportVars
  <2> QED
    BY <2>1 DEF SettledInv
<1>2. ASSUME NEW c \in Closers, CloseCall(c) \/ CloseSend(c) \/ CloseCount(c)
      PROVE  SettledInv'
  <2>1. UNCHANGED <<worker, wg, buffer, sender>>
    BY <1>2 DEF CloseCall, CloseSend, CloseCount, workerVars, transportVars
  <2> QED
    BY <2>1 DEF SettledInv
<1>3. ASSUME NEW c \in Closers, CloseSender(c) PROVE SettledInv'
  <2>1. wg = 0 /\ sender' = "closed" /\ UNCHANGED <<worker, wg, buffer>>
    BY <1>3 DEF CloseSender, workerVars, transportVars
  <2> QED
    BY <2>1 DEF SettledInv
<1>4. CASE Receive
  <2>1. /\ worker = "select" /\ worker' \in {"closeFlush", "append"}
        /\ UNCHANGED <<wg, sender>>
    BY <1>4 DEF Receive
  <2> QED
    BY <2>1 DEF SettledInv
<1>5. CASE AppendSpan \/ WorkerRelease \/ Tick
  <2>1. /\ worker \notin {"closeDone", "stopped"} /\ worker' \notin {"closeDone", "stopped"}
        /\ UNCHANGED <<wg, sender>>
    BY <1>5 DEF AppendSpan, WorkerRelease, Tick, closeVars, workerVars
  <2> QED
    BY <2>1 DEF SettledInv
<1>6. CASE CloseFlush
  <2>1. /\ worker = "closeFlush" /\ worker' = "closeDone" /\ buffer' = << >>
        /\ UNCHANGED <<wg, sender>>
    BY <1>6 DEF CloseFlush, Flush, closeVars
  <2> QED
    BY <2>1 DEF SettledInv
<1>7. CASE CloseDone
  <2>1. /\ worker = "closeDone" /\ worker' = "stopped" /\ wg' = 0
        /\ UNCHANGED <<buffer, sender>>
    BY <1>7 DEF CloseDone, transportVars
  <2> QED
    BY <2>1 DEF SettledInv
<1>8. CASE UNCHANGED vars
  <2>1. UNCHANGED <<worker, wg, buffer, sender>>
    BY <1>8 DEF vars, closeVars, workerVars, transportVars
  <2> QED
    BY <2>1 DEF SettledInv
<1> QED
  BY <1>1, <1>2, <1>3, <1>4, <1>5, <1>6, <1>7, <1>8 DEF Next, CloserStep, WorkerStep

LEMMA NextDInv == DInv /\ [Next]_vars => DInv'
<1> SUFFICES ASSUME DInv, [Next]_vars PROVE TakenInv' /\ FlowInv'
  BY NextIInv, NextSettled DEF DInv, IInv, TypeInv
<1>1. IInv /\ TypeOK /\ TakenInv /\ FlowInv
  BY DEF DInv, IInv, TypeInv
<1>2. ASSUME NEW s \in Spans, Start(s) PROVE TakenInv' /\ FlowInv'
  <2>1. UNCHANGED <<accepted, lost, backend, buffer, queue, worker, item>>
    BY <1>2 DEF Start, queueVars, workerVars, transportVars
  <2>2. Hand' = Hand
    BY <2>1 DEF Hand
  <2> QED
    BY <1>1, <1>2, <2>1, <2>2, StartTaken, SameFlow
<1>3. ASSUME NEW s \in Spans,
             \/ UserRetain(s) \/ UserRelease(s) \/ ReportCount(s)
             \/ FinishUnsampled(s) \/ FinishRelease(s)
      PROVE  TakenInv' /\ FlowInv'
  <2>1. /\ UNCHANGED <<gen, discarded, accepted, lost, backend, buffer, queue, worker, item>>
        /\ pc' = pc \/ \E v \in {"idle", "release"} : pc' = [pc EXCEPT ![s] = v]
    BY <1>3 DEF UserRetain, UserRelease, ReportCount, FinishUnsampled, FinishRelease,
                queueVars, workerVars, transportVars
  <2>2. \A t \in Spans : pc'[t] = "live" => pc[t] = "live"
    BY <1>1, <2>1 DEF TypeOK
  <2>3. Hand' = Hand
    BY <2>1 DEF Hand
  <2> QED
    BY <1>1, <2>1, <2>2, <2>3, SameTaken, SameFlow
<1>4. ASSUME NEW c \in Closers, CloseCall(c) \/ CloseCount(c) \/ CloseSender(c)
      PROVE  TakenInv' /\ FlowInv'
  <2>1. UNCHANGED <<gen, discarded, pc, accepted, lost, backend, buffer, queue, worker, item>>
    BY <1>4 DEF CloseCall, CloseCount, CloseSender, spanVars, queueVars, workerVars,
                transportVars
  <2>2. Hand' = Hand
    BY <2>1 DEF Hand
  <2> QED
    BY <1>1, <2>1, <2>2, SameTaken, SameFlow
<1>5. ASSUME NEW c \in Closers, CloseSend(c) PROVE TakenInv' /\ FlowInv'
  <2>1. UNCHANGED <<gen, discarded, pc, accepted>>
    BY <1>5 DEF CloseSend, spanVars
  <2> QED
    BY <1>1, <1>5, <2>1, SameTaken, CloseSendDelivery
<1>6. CASE Receive
  <2>1. UNCHANGED <<gen, discarded, pc, accepted>>
    BY <1>6 DEF Receive, spanVars
  <2> QED
    BY <1>1, <1>6, <2>1, SameTaken, ReceiveDelivery
<1>7. CASE AppendSpan
  <2>1. UNCHANGED <<gen, discarded, pc, accepted>>
    BY <1>7 DEF AppendSpan, spanVars
  <2> QED
    BY <1>1, <1>7, <2>1, SameTaken, AppendDelivery
<1>8. CASE Tick \/ CloseFlush
  <2>1. /\ UNCHANGED <<gen, discarded, pc, accepted, queue>>
        /\ worker # "append" /\ worker' # "append"
    BY <1>8 DEF Tick, CloseFlush, spanVars, queueVars, workerVars
  <2>2. Hand' = Hand
    BY <2>1 DEF Hand
  <2>3. PICK r \in Results : Flush(r)
    BY <1>8 DEF Tick, CloseFlush
  <2>4. Accounts(Order, Elems(accepted), lost', backend', buffer', Hand, queue)
    BY <1>1, <2>3, FlushDelivery
  <2>5. TakenInv' /\ Order' = Order
    BY <1>1, <2>1, SameTaken
  <2> QED
    BY <2>1, <2>2, <2>4, <2>5 DEF FlowInv
<1>9. CASE WorkerRelease \/ CloseDone
  <2>1. /\ UNCHANGED <<gen, discarded, pc, accepted, lost, backend, buffer, queue>>
        /\ worker # "append" /\ worker' # "append"
    BY <1>9 DEF WorkerRelease, CloseDone, spanVars, queueVars, transportVars
  <2>2. Hand' = Hand
    BY <2>1 DEF Hand
  <2> QED
    BY <1>1, <2>1, <2>2, SameTaken, SameFlow
<1>10. CASE UNCHANGED vars
  <2>1. UNCHANGED <<gen, discarded, pc, accepted, lost, backend, buffer, queue, worker, item>>
    BY <1>10 DEF vars, spanVars, queueVars, workerVars, transportVars
  <2>2. Hand' = Hand
    BY <2>1 DEF Hand
  <2> QED
    BY <1>1, <2>1, <2>2, SameTaken, SameFlow
<1> QED
  BY <1>2, <1>3, <1>4, <1>5, <1>6, <1>7, <1>8, <1>9, <1>10, ReportDelivery
     DEF Next, SpanStep, CloserStep, WorkerStep

(* What the channel took is lost or in the pipeline, once and in the order   *)
(* it was taken, and Close finds the worker at rest (reporter.go:254-334).   *)
THEOREM DeliveredInOrder == Spec => []DeliveryInOrder
<1>1. DInv => DeliveryInOrder
  <2> SUFFICES ASSUME DInv PROVE DeliveryInOrder
    OBVIOUS
  <2>1. IInv /\ TakenInv /\ FlowInv /\ SettledInv
    BY DEF DInv
  <2>2. /\ backend \in Seq(Item) /\ buffer \in Seq(Item) /\ Hand \in Seq(Item)
        /\ queue \in Seq(Item) /\ accepted \in Seq(Instance)
    BY <2>1, StageTypes
  <2>3. /\ Sorted(Order, Pipeline)
        /\ SpansOf(Pipeline) = Carried(backend, buffer, Hand, queue)
    BY <2>1, <2>2, FlowWhole DEF FlowInv, Accounts, Pipeline
  <2>4. InOrder(Pipeline)
    <3>1. \A i, j : <<i, j>> \in Order => TakenBefore(i, j)
      BY DEF Order
    <3> QED
      BY <2>3, <3>1 DEF Sorted, InOrder
  <2>5. /\ Elems(accepted) = lost \cup (Elems(Pipeline) \ {CloseItem})
        /\ lost \cap (Elems(Pipeline) \ {CloseItem}) = {}
    BY <2>1, <2>3 DEF FlowInv, Accounts, SpansOf
  <2>6. CloseItem \notin lost
    BY <2>1 DEF IInv, TypeInv, TypeOK
  <2>7. lost \cap Elems(Pipeline) = {}
    BY <2>5, <2>6
  <2> QED
    BY <2>1, <2>4, <2>5, <2>7 DEF TakenInv, SettledInv, DeliveryInOrder
<1> QED
  BY InitDInv, NextDInv, <1>1, PTL DEF Spec

(* A sequence without repetition has as many elements as it is long. *)
LEMMA ElemsCount ==
  ASSUME NEW S, NEW q \in Seq(S), \A m, n \in DOMAIN q : q[m] = q[n] => m = n
  PROVE  IsFiniteSet(Elems(q)) /\ Cardinality(Elems(q)) = Len(q)
<1>1. q \in [1..Len(q) -> S] /\ DOMAIN q = 1..Len(q) /\ Len(q) \in Nat
  BY LenProperties
<1>2. q \in Bijection(1..Len(q), Elems(q))
  <2>1. q \in [1..Len(q) -> Elems(q)]
    BY <1>1 DEF Elems
  <2>2. \A e \in Elems(q) : \E i \in 1..Len(q) : q[i] = e
    BY <1>1 DEF Elems
  <2> QED
    BY <1>1, <2>1, <2>2 DEF Bijection, Injection, Surjection, IsInjective
<1>3. ExistsBijection(1..Len(q), Elems(q))
  BY <1>2 DEF ExistsBijection
<1>4. IsFiniteSet(1..Len(q)) /\ Cardinality(1..Len(q)) = Len(q)
  <2>1. 1 \in Int /\ Len(q) \in Int
    BY <1>1
  <2>2. /\ IsFiniteSet(1..Len(q))
        /\ Cardinality(1..Len(q)) = IF 1 > Len(q) THEN 0 ELSE Len(q) - 1 + 1
    BY <2>1, FS_Interval
  <2> QED
    BY <1>1, <2>2
<1> QED
  BY <1>3, <1>4, FS_Bijection

(* The metrics of a batch that is submitted. *)
MetricsInv ==
  /\ success = Len(backend)
  /\ IsFiniteSet(lost) /\ failure = Cardinality(lost)
  /\ IsFiniteSet(discarded) /\ dropped = Cardinality(discarded)

LEMMA EmitMetrics ==
  ASSUME success = Len(backend), IsFiniteSet(lost), failure = Cardinality(lost),
         backend \in Seq(Instance), NEW batch \in Seq(Instance),
         \A m, n \in DOMAIN batch : batch[m] = batch[n] => m = n,
         lost \cap Elems(batch) = {},
         NEW r \in Results, Emit(batch, r)
  PROVE  /\ success' = Len(backend')
         /\ IsFiniteSet(lost') /\ failure' = Cardinality(lost')
<1>1. IsFiniteSet(Elems(batch)) /\ Cardinality(Elems(batch)) = Len(batch)
  BY ElemsCount
<1>2. Len(backend \o batch) = Len(backend) + Len(batch)
  BY ConcatProperties
<1>3. CASE r = "ok"
  <2>1. /\ backend' = backend \o batch /\ success' = success + Len(batch)
        /\ lost' = lost /\ failure' = failure
    BY <1>3 DEF Emit
  <2> QED
    BY <1>2, <2>1
<1>4. CASE r # "ok"
  <2>1. /\ lost' = lost \cup Elems(batch) /\ failure' = failure + Len(batch)
        /\ backend' = backend /\ success' = success
    BY <1>4 DEF Emit
  <2>2. /\ IsFiniteSet(lost \cup Elems(batch))
        /\ Cardinality(lost \cup Elems(batch))
             = Cardinality(lost) + Cardinality(Elems(batch)) - Cardinality(lost \cap Elems(batch))
    BY <1>1, FS_Union
  <2>3. Cardinality(lost \cap Elems(batch)) = 0
    BY FS_EmptySet
  <2>4. Cardinality(lost) \in Nat /\ Len(batch) \in Nat
    BY FS_CardinalityType, LenProperties
  <2> QED
    BY <1>1, <2>1, <2>2, <2>3, <2>4
<1> QED
  BY <1>3, <1>4

(* The buffer, and the buffer with the span in hand, repeat nothing and hold *)
(* nothing that is lost.                                                     *)
LEMMA BatchOnce ==
  ASSUME IInv, TakenInv, FlowInv
  PROVE  /\ \A m, n \in DOMAIN buffer : buffer[m] = buffer[n] => m = n
         /\ lost \cap Elems(buffer) = {}
         /\ worker = "append" =>
              LET a == Append(buffer, item) IN
              /\ a \in Seq(Instance)
              /\ \A m, n \in DOMAIN a : a[m] = a[n] => m = n
              /\ lost \cap Elems(a) = {} /\ item \notin lost
<1>1. TypeOK /\ \A e : <<e, e>> \notin Order
  BY OrderIrreflexive DEF IInv, TypeInv
<1>2. /\ buffer \in Seq(Item) /\ buffer \in Seq(Instance) /\ backend \in Seq(Item)
      /\ queue \in Seq(Item) /\ CloseItem \notin Elems(buffer)
  BY StageTypes
<1> DEFINE A == Elems(accepted)
<1>3. Accounts(Order, A, lost, backend, buffer, Hand, queue)
  BY DEF FlowInv
<1>4. Sorted(Order, buffer) /\ lost \cap Elems(buffer) = {}
  BY <1>2, <1>3 DEF Accounts, Flows, Carried, SpansOf
<1>5. \A m, n \in DOMAIN buffer : buffer[m] = buffer[n] => m = n
  BY <1>1, <1>2, <1>4, SortedOnce DEF Elems
<1>6. ASSUME worker = "append", NEW a, a = Append(buffer, item)
      PROVE  /\ a \in Seq(Instance)
             /\ \A m, n \in DOMAIN a : a[m] = a[n] => m = n
             /\ lost \cap Elems(a) = {} /\ item \notin lost
  <2>1. PICK i \in Item : i = item /\ i # CloseItem /\ i \in Instance
    BY <1>6, StageTypes DEF Item
  <2>2. SpansOf(Hand) = {i}
    BY <1>6, <2>1, ElemsOne DEF Hand, SpansOf
  <2>3. a \in Seq(Instance) /\ a \in Seq(Item) /\ Elems(a) = Elems(buffer) \cup {i}
    BY <1>2, <1>6, <2>1, AppendLast, ElemsAppend
  <2>4. item \notin lost
    BY <1>3, <2>1, <2>2 DEF Accounts, Carried
  <2>5. Accounts(Order, A, lost, backend, Append(buffer, i), << >>, queue)
    BY <1>1, <1>2, <1>3, <2>1, <2>2, AppendAccounts
  <2>6. Sorted(Order, a)
    BY <1>6, <2>1, <2>5 DEF Accounts, Flows
  <2>7. \A m \in DOMAIN a : a[m] # CloseItem
    BY <1>2, <2>1, <2>3 DEF Elems
  <2>8. \A m, n \in DOMAIN a : a[m] = a[n] => m = n
    BY <1>1, <2>3, <2>6, <2>7, SortedOnce
  <2> QED
    BY <1>4, <2>1, <2>3, <2>4, <2>8
<1> QED
  BY <1>4, <1>5, <1>6

LEMMA NextMetrics ==
  ASSUME DInv, MetricsInv, [Next]_vars
  PROVE  MetricsInv'
<1>1. /\ IInv /\ TakenInv /\ FlowInv /\ TypeOK /\ RefInv
      /\ backend \in Seq(Instance) /\ buffer \in Seq(Instance)
  BY DEF DInv, IInv, TypeInv, TypeOK
<1>2. /\ success = Len(backend) /\ IsFiniteSet(lost) /\ failure = Cardinality(lost)
      /\ IsFiniteSet(discarded) /\ dropped = Cardinality(discarded)
  BY DEF MetricsInv
<1> DEFINE Sent == /\ success' = Len(backend')
                   /\ IsFiniteSet(lost') /\ failure' = Cardinality(lost')
<1>3. ASSUME NEW r \in Results, Flush(r) PROVE Sent
  BY <1>1, <1>2, <1>3, BatchOnce, EmitMetrics DEF Flush
<1>4. CASE AppendSpan
  <2>1. /\ worker = "append" /\ AppendOutcome(Current(item.span))
        /\ UNCHANGED <<dropped, discarded>>
    BY <1>4 DEF AppendSpan
  <2>2. item \in Instance /\ Current(item.span) = item
    BY <1>1, <2>1, StageTypes
  <2> DEFINE a == Append(buffer, item)
  <2>3. /\ a \in Seq(Instance) /\ \A m, n \in DOMAIN a : a[m] = a[n] => m = n
        /\ lost \cap Elems(a) = {} /\ item \notin lost
    BY <1>1, <2>1, BatchOnce
  <2> HIDE DEF a
  <2>4. ASSUME Keep(item) PROVE Sent
    BY <1>2, <2>4 DEF Keep
  <2>5. ASSUME Reject(item) PROVE Sent
    <3> DEFINE o == <<item>>
    <3>1. o \in Seq(Instance) /\ Elems(o) = {item} /\ DOMAIN o = 1..1
      BY <2>2, ElemsOne
    <3>2. Emit(o, "error")
      BY <2>5 DEF Reject
    <3> HIDE DEF o
    <3>3. (\A m, n \in DOMAIN o : o[m] = o[n] => m = n) /\ lost \cap Elems(o) = {}
      BY <2>3, <3>1
    <3>4. "error" \in Results
      BY DEF Results
    <3> QED
      BY <1>1, <1>2, <3>1, <3>2, <3>3, <3>4, EmitMetrics
  <2>6. ASSUME NEW r \in Results, FlushWith(item, r) PROVE Sent
    <3>1. Emit(a, r)
      BY <2>6 DEF FlushWith, a
    <3> QED
      BY <1>1, <1>2, <2>3, <3>1, EmitMetrics
  <2>7. ASSUME NEW r \in Results, FlushBefore(item, r) PROVE Sent
    <3>1. Emit(buffer, r)
      BY <2>7 DEF FlushBefore
    <3> QED
      BY <1>1, <1>2, <3>1, BatchOnce, EmitMetrics
  <2>8. Sent
    BY <2>1, <2>2, <2>4, <2>5, <2>6, <2>7 DEF AppendOutcome
  <2> QED
    BY <1>2, <2>1, <2>8 DEF MetricsInv
<1>5. CASE Tick \/ CloseFlush
  <2>1. UNCHANGED <<dropped, discarded>>
    BY <1>5 DEF Tick, CloseFlush
  <2> QED
    BY <1>2, <1>3, <1>5, <2>1 DEF MetricsInv, Tick, CloseFlush
<1>6. ASSUME NEW s \in Spans, Report(s) PROVE MetricsInv'
  <2>1. UNCHANGED <<success, failure, backend, lost>> /\ pc[s] = "live"
    BY <1>6 DEF Report, transportVars
  <2>2. CASE HasRoom
    BY <1>2, <1>6, <2>1, <2>2 DEF Report, MetricsInv
  <2>3. CASE ~ HasRoom
    <3>1. dropped' = dropped + 1 /\ discarded' = discarded \cup {Current(s)}
      BY <1>6, <2>3 DEF Report
    <3>2. Current(s) \notin discarded
      BY <1>1, <2>1 DEF RefInv, Placed, Leaked
    <3> QED
      BY <1>2, <2>1, <3>1, <3>2, FS_AddElement DEF MetricsInv
  <2> QED
    BY <2>2, <2>3
<1>7. ASSUME UNCHANGED <<success, failure, dropped, backend, lost, discarded>>
      PROVE  MetricsInv'
  BY <1>2, <1>7 DEF MetricsInv
<1>8. ASSUME NEW s \in Spans,
             \/ Start(s) \/ UserRetain(s) \/ UserRelease(s) \/ ReportCount(s)
             \/ FinishUnsampled(s) \/ FinishRelease(s)
      PROVE  UNCHANGED <<success, failure, dropped, backend, lost, discarded>>
  BY <1>8 DEF Start, UserRetain, UserRelease, ReportCount, FinishUnsampled,
              FinishRelease, metricVars, transportVars
<1>9. ASSUME NEW c \in Closers,
             CloseCall(c) \/ CloseSend(c) \/ CloseCount(c) \/ CloseSender(c)
      PROVE  UNCHANGED <<success, failure, dropped, backend, lost, discarded>>
  BY <1>9 DEF CloseCall, CloseSend, CloseCount, CloseSender, metricVars, transportVars
<1>10. ASSUME Receive \/ WorkerRelease \/ CloseDone \/ UNCHANGED vars
       PROVE  UNCHANGED <<success, failure, dropped, backend, lost, discarded>>
  BY <1>10 DEF Receive, WorkerRelease, CloseDone, vars, metricVars, transportVars
<1> QED
  BY <1>4, <1>5, <1>6, <1>7, <1>8, <1>9, <1>10
     DEF Next, SpanStep, CloserStep, WorkerStep

-----------------------------------------------------------------------------
(* Only the first call of Close goes on. *)
Active(c) == closer[c] \notin {"idle", "ignored"}
FirstClose ==
  /\ closed = 0 <=> \A c \in Closers : closer[c] = "idle"
  /\ \A c, d \in Closers : Active(c) /\ Active(d) => c = d

(* The closers move one at a time, or the parked one on a Receive. *)
LEMMA CloserMoves ==
  ASSUME TypeOK, [Next]_vars
  PROVE  \/ UNCHANGED <<closer, closed>>
         \/ \E c \in Closers : CloseCall(c) \/ CloseSend(c) \/ CloseCount(c) \/ CloseSender(c)
         \/ /\ Receive /\ closed' = closed
            /\ \E c \in Closers : closer[c] = "parked"
            /\ closer' = [c \in Closers |-> IF closer[c] = "parked"
                                            THEN "count" ELSE closer[c]]
<1>1. ASSUME NEW s \in Spans, SpanStep(s) PROVE UNCHANGED <<closer, closed>>
  BY <1>1 DEF SpanStep, Start, UserRetain, UserRelease, Report, ReportCount,
              FinishUnsampled, FinishRelease, closeVars
<1>2. ASSUME AppendSpan \/ WorkerRelease \/ Tick \/ CloseFlush \/ CloseDone
             \/ UNCHANGED vars
      PROVE  UNCHANGED <<closer, closed>>
  BY <1>2 DEF AppendSpan, WorkerRelease, Tick, CloseFlush, CloseDone, vars, closeVars
<1>3. ASSUME Receive
      PROVE  /\ closed' = closed
             /\ \/ closer' = closer
                \/ /\ \E c \in Closers : closer[c] = "parked"
                   /\ closer' = [c \in Closers |-> IF closer[c] = "parked"
                                                   THEN "count" ELSE closer[c]]
  BY <1>3 DEF Receive
<1> QED
  BY <1>1, <1>2, <1>3 DEF Next, CloserStep, WorkerStep

LEMMA NextFirstClose ==
  ASSUME TypeOK, FirstClose, [Next]_vars
  PROVE  FirstClose'
<1>1. /\ closed \in {0, 1}
      /\ closer \in [Closers -> {"idle", "sending", "parked", "count", "waiting",
                                 "returned", "ignored"}]
  BY DEF TypeOK
<1>2. CASE UNCHANGED <<closer, closed>>
  BY <1>2 DEF FirstClose, Active
<1>3. ASSUME NEW c \in Closers, CloseCall(c) PROVE FirstClose'
  <2>1. /\ closer[c] = "idle" /\ closed' = 1
        /\ closer' = [closer EXCEPT ![c] = IF closed = 1 THEN "ignored" ELSE "sending"]
    BY <1>3 DEF CloseCall
  <2>2. closer'[c] = IF closed = 1 THEN "ignored" ELSE "sending"
    BY <1>1, <2>1
  <2>3. \A d \in Closers : d # c => closer'[d] = closer[d]
    BY <1>1, <2>1
  <2>4. closer'[c] # "idle"
    BY <2>2
  <2> QED
    BY <1>1, <2>1, <2>2, <2>3, <2>4 DEF FirstClose, Active
<1>4. ASSUME NEW c \in Closers, CloseSend(c) \/ CloseCount(c) \/ CloseSender(c)
      PROVE  FirstClose'
  <2>1. /\ Active(c) /\ closed' = closed
        /\ \E v \in {"count", "parked", "waiting", "returned"} :
             closer' = [closer EXCEPT ![c] = v]
    BY <1>4 DEF CloseSend, CloseCount, CloseSender, Active
  <2>2. closer'[c] \notin {"idle", "ignored"} /\ \A d \in Closers : d # c => closer'[d] = closer[d]
    BY <1>1, <2>1
  <2> QED
    BY <1>1, <2>1, <2>2 DEF FirstClose, Active
<1>5. CASE /\ Receive /\ closed' = closed
           /\ \E c \in Closers : closer[c] = "parked"
           /\ closer' = [c \in Closers |-> IF closer[c] = "parked"
                                           THEN "count" ELSE closer[c]]
  <2>1. \A c \in Closers : closer'[c] = IF closer[c] = "parked" THEN "count" ELSE closer[c]
    BY <1>5
  <2> QED
    BY <1>5, <2>1 DEF FirstClose, Active
<1> QED
  BY <1>2, <1>3, <1>4, <1>5, CloserMoves

(* The goroutines between their send and their increment. *)
Reporting == {s \in Spans : pc[s] = "count"}
Closing   == {c \in Closers : closer[c] = "count"}

LengthInv == IsFiniteSet(Reporting) /\ IsFiniteSet(Closing) /\ QueueLengthExact

(* Two ways the counts move: both stay, or a goroutine joins or leaves the   *)
(* ones that have not counted themselves.                                    *)
LEMMA LengthShift ==
  ASSUME TypeOK, LengthInv, IsFiniteSet(Reporting'), IsFiniteSet(Closing'),
         queueLength' = queueLength + ((Len(queue') - Len(queue))
           - (Cardinality(Reporting') - Cardinality(Reporting))
           - (Cardinality(Closing') - Cardinality(Closing))),
         Len(queue') \in Nat
  PROVE  LengthInv'
<1>1. /\ Cardinality(Reporting) \in Nat /\ Cardinality(Reporting') \in Nat
      /\ Cardinality(Closing) \in Nat /\ Cardinality(Closing') \in Nat
  BY FS_CardinalityType DEF LengthInv
<1>2. Len(queue) \in Nat /\ queueLength \in Int
  BY LenProperties DEF TypeOK
<1>3. queueLength = Len(queue) - Cardinality(Reporting) - Cardinality(Closing)
  BY DEF LengthInv, QueueLengthExact, Reporting, Closing
<1>4. queueLength' = Len(queue') - Cardinality(Reporting') - Cardinality(Closing')
  BY <1>1, <1>2, <1>3
<1> QED
  BY <1>4 DEF LengthInv, QueueLengthExact, Reporting, Closing

LEMMA SameReporting ==
  ASSUME \A s \in Spans : pc'[s] = "count" <=> pc[s] = "count"
  PROVE  Reporting' = Reporting
BY DEF Reporting

LEMMA SameClosing ==
  ASSUME \A c \in Closers : closer'[c] = "count" <=> closer[c] = "count"
  PROVE  Closing' = Closing
BY DEF Closing

(* Only the first Close counts, so no other does when it joins or leaves.    *)
LEMMA ClosingAlone ==
  ASSUME FirstClose, NEW c \in Closers, Active(c)
  PROVE  Closing = IF closer[c] = "count" THEN {c} ELSE {}
BY DEF FirstClose, Active, Closing

LEMMA NextLength ==
  ASSUME IInv, FirstClose, LengthInv, [Next]_vars
  PROVE  LengthInv'
<1>1. /\ TypeOK /\ queue \in Seq(Item) /\ Len(queue) \in Nat /\ queueLength \in Int
      /\ pc \in [Spans -> {"idle", "live", "count", "release"}]
      /\ closer \in [Closers -> {"idle", "sending", "parked", "count", "waiting",
                                 "returned", "ignored"}]
  BY LenProperties DEF IInv, TypeInv, TypeOK
<1>2. TypeOK'
  BY NextIInv DEF IInv, TypeInv
<1>3. /\ IsFiniteSet(Reporting) /\ IsFiniteSet(Closing) /\ Len(queue') \in Nat
      /\ Cardinality(Reporting) \in Nat /\ Cardinality(Closing) \in Nat
  BY <1>2, FS_CardinalityType, LenProperties DEF LengthInv, TypeOK
<1>4. \A c : Cardinality({c}) = 1 /\ IsFiniteSet({c})
  BY FS_Singleton
<1>5. Cardinality({}) = 0 /\ IsFiniteSet({})
  BY FS_EmptySet
<1>6. ASSUME UNCHANGED <<queue, queueLength>>, Reporting' = Reporting, Closing' = Closing
      PROVE  LengthInv'
  BY <1>1, <1>3, <1>6, LengthShift
<1>7. ASSUME NEW s \in Spans, Report(s), HasRoom PROVE LengthInv'
  <2>1. /\ pc[s] = "live" /\ pc' = [pc EXCEPT ![s] = "count"]
        /\ queue' = Append(queue, Current(s)) /\ UNCHANGED <<queueLength, closer>>
    BY <1>7 DEF Report, closeVars
  <2>2. s \notin Reporting /\ Reporting' = Reporting \cup {s}
    BY <1>1, <2>1 DEF Reporting
  <2>3. Closing' = Closing
    BY <2>1 DEF Closing
  <2>4. Len(queue') = Len(queue) + 1
    <3>1. Current(s) \in Item
      BY <1>1, <2>1, CurrentType DEF IInv, TypeInv, Started, Item
    <3> QED
      BY <1>1, <2>1, <3>1, AppendLast
  <2>5. IsFiniteSet(Reporting') /\ Cardinality(Reporting') = Cardinality(Reporting) + 1
    BY <1>3, <2>2, FS_AddElement
  <2> QED
    BY <1>1, <1>3, <2>1, <2>3, <2>4, <2>5, LengthShift
<1>8. ASSUME NEW s \in Spans, Report(s), ~ HasRoom PROVE LengthInv'
  <2>1. /\ pc[s] = "live" /\ pc' = [pc EXCEPT ![s] = "release"]
        /\ UNCHANGED <<queue, queueLength, closer>>
    BY <1>8 DEF Report, closeVars
  <2>2. Reporting' = Reporting /\ Closing' = Closing
    BY <1>1, <2>1 DEF Reporting, Closing
  <2> QED
    BY <1>6, <2>1, <2>2
<1>9. ASSUME NEW s \in Spans, ReportCount(s) PROVE LengthInv'
  <2>1. /\ pc[s] = "count" /\ pc' = [pc EXCEPT ![s] = "release"]
        /\ queueLength' = queueLength + 1 /\ UNCHANGED <<queue, closer>>
    BY <1>9 DEF ReportCount, closeVars
  <2>2. s \in Reporting /\ Reporting' = Reporting \ {s}
    BY <1>1, <2>1 DEF Reporting
  <2>3. Closing' = Closing
    BY <2>1 DEF Closing
  <2>4. IsFiniteSet(Reporting') /\ Cardinality(Reporting') = Cardinality(Reporting) - 1
    BY <1>3, <2>2, FS_RemoveElement
  <2> QED
    BY <1>1, <1>3, <2>1, <2>3, <2>4, LengthShift
<1>10. ASSUME NEW s \in Spans,
              \/ Start(s) \/ UserRetain(s) \/ UserRelease(s)
              \/ FinishUnsampled(s) \/ FinishRelease(s)
       PROVE  LengthInv'
  <2>1. UNCHANGED <<queue, queueLength, closer>>
    BY <1>10 DEF Start, UserRetain, UserRelease, FinishUnsampled, FinishRelease,
                 queueVars, closeVars
  <2>2. pc[s] # "count" \/ pc' = pc
    BY <1>10, IInvImplies DEF Start, UserRetain, UserRelease, FinishUnsampled,
                              FinishRelease, NoUseAfterPut
  <2>3. pc' = pc \/ \E v \in {"live", "release", "idle"} : pc' = [pc EXCEPT ![s] = v]
    BY <1>10 DEF Start, UserRetain, UserRelease, FinishUnsampled, FinishRelease
  <2>4. \A t \in Spans : pc'[t] = "count" <=> pc[t] = "count"
    BY <1>1, <2>2, <2>3
  <2>5. Reporting' = Reporting /\ Closing' = Closing
    BY <2>1, <2>4, SameReporting DEF Closing
  <2> QED
    BY <1>6, <2>1, <2>5
<1>11. ASSUME NEW c \in Closers, CloseSend(c), HasRoom PROVE LengthInv'
  <2>1. /\ closer[c] = "sending" /\ closer' = [closer EXCEPT ![c] = "count"]
        /\ queue' = Append(queue, CloseItem) /\ UNCHANGED <<queueLength, pc>>
    BY <1>11 DEF CloseSend, spanVars
  <2>2. Closing = {} /\ Reporting' = Reporting
    BY <2>1, ClosingAlone DEF Active, Reporting
  <2>3. Closing' = {c}
    BY <1>1, <2>1, <2>2 DEF Closing
  <2>4. Len(queue') = Len(queue) + 1
    BY <1>1, <2>1, AppendLast DEF Item
  <2>5. Cardinality(Closing) = 0
    BY <1>5, <2>2
  <2>6. IsFiniteSet(Closing') /\ Cardinality(Closing') = 1
    BY <1>4, <2>3
  <2> QED
    BY <1>1, <1>3, <2>1, <2>2, <2>4, <2>5, <2>6, LengthShift
<1>12. ASSUME NEW c \in Closers, CloseCount(c) PROVE LengthInv'
  <2>1. /\ closer[c] = "count" /\ closer' = [closer EXCEPT ![c] = "waiting"]
        /\ queueLength' = queueLength + 1 /\ UNCHANGED <<queue, pc>>
    BY <1>12 DEF CloseCount, spanVars
  <2>2. Closing = {c} /\ Reporting' = Reporting
    BY <2>1, ClosingAlone DEF Active, Reporting
  <2>3. Closing' = {}
    BY <1>1, <2>1, <2>2 DEF Closing
  <2>4. Cardinality(Closing) = 1
    BY <1>4, <2>2
  <2>5. IsFiniteSet(Closing') /\ Cardinality(Closing') = 0
    BY <1>5, <2>3
  <2> QED
    BY <1>1, <1>3, <2>1, <2>2, <2>4, <2>5, LengthShift
<1>13. ASSUME NEW c \in Closers,
              CloseCall(c) \/ (CloseSend(c) /\ ~ HasRoom) \/ CloseSender(c)
       PROVE  LengthInv'
  <2>1. /\ UNCHANGED <<queue, queueLength, pc>> /\ closer[c] # "count"
        /\ \E v \in {"ignored", "sending", "parked", "returned"} :
             closer' = [closer EXCEPT ![c] = v]
    BY <1>13 DEF CloseCall, CloseSend, CloseSender, spanVars, queueVars
  <2>2. \A d \in Closers : closer'[d] = "count" <=> closer[d] = "count"
    BY <1>1, <2>1
  <2>3. Closing' = Closing /\ Reporting' = Reporting
    BY <2>1, <2>2, SameClosing DEF Reporting
  <2> QED
    BY <1>6, <2>1, <2>3
<1>14. ASSUME Receive PROVE LengthInv'
  <2>1. /\ queue # << >> /\ queueLength' = queueLength - 1 /\ pc' = pc
    BY <1>14 DEF Receive, spanVars
  <2>2. Tail(queue) \in Seq(Item) /\ Len(Tail(queue)) = Len(queue) - 1
    BY <1>1, <2>1, ReceiveType
  <2>3. Reporting' = Reporting
    BY <2>1 DEF Reporting
  <2>4. CASE \E c \in Closers : closer[c] = "parked"
    <3>1. PICK c \in Closers : closer[c] = "parked"
      BY <2>4
    <3>2. /\ queue' = Append(Tail(queue), CloseItem)
          /\ closer' = [d \in Closers |-> IF closer[d] = "parked"
                                          THEN "count" ELSE closer[d]]
      BY <1>14, <2>4 DEF Receive
    <3>3. Closing = {}
      BY <3>1, ClosingAlone DEF Active
    <3>4. Closing' = {c}
      <4>1. \A d \in Closers : closer[d] = "parked" => d = c
        BY <3>1 DEF FirstClose, Active
      <4>2. \A d \in Closers : closer[d] # "count"
        BY <3>3 DEF Closing
      <4>3. \A d \in Closers : closer'[d] = "count" <=> d = c
        BY <3>1, <3>2, <4>1, <4>2
      <4> QED
        BY <4>3 DEF Closing
    <3>5. Len(queue') = Len(queue)
      BY <1>1, <2>2, <3>2, AppendLast DEF Item
    <3>6. Cardinality(Closing) = 0
      BY <1>5, <3>3
    <3>7. IsFiniteSet(Closing') /\ Cardinality(Closing') = 1
      BY <1>4, <3>4
    <3> QED
      BY <1>1, <1>3, <2>1, <2>3, <3>5, <3>6, <3>7, LengthShift
  <2>5. CASE ~ \E c \in Closers : closer[c] = "parked"
    <3>1. queue' = Tail(queue) /\ closer' = closer
      BY <1>14, <2>5 DEF Receive
    <3>2. Closing' = Closing
      BY <3>1 DEF Closing
    <3> QED
      BY <1>1, <1>3, <2>1, <2>2, <2>3, <3>1, <3>2, LengthShift
  <2> QED
    BY <2>4, <2>5
<1>15. ASSUME \/ AppendSpan \/ WorkerRelease \/ Tick \/ CloseFlush \/ CloseDone
              \/ UNCHANGED vars
       PROVE  LengthInv'
  <2>1. UNCHANGED <<queue, queueLength, pc, closer>>
    BY <1>15 DEF AppendSpan, WorkerRelease, Tick, CloseFlush, CloseDone, vars,
                 spanVars, queueVars, closeVars
  <2>2. Reporting' = Reporting /\ Closing' = Closing
    BY <2>1 DEF Reporting, Closing
  <2> QED
    BY <1>6, <2>1, <2>2
<1> QED
  BY <1>7, <1>8, <1>9, <1>10, <1>11, <1>12, <1>13, <1>14, <1>15
     DEF Next, SpanStep, CloserStep, WorkerStep

CInv == DInv /\ MetricsInv /\ FirstClose /\ LengthInv

LEMMA InitCInv == Init => CInv
<1> SUFFICES ASSUME Init PROVE MetricsInv /\ FirstClose /\ LengthInv
  BY InitDInv DEF CInv
<1>1. IsFiniteSet({}) /\ Cardinality({}) = 0 /\ Len(<< >>) = 0
  BY FS_EmptySet, EmptySeq
<1>2. Reporting = {} /\ Closing = {}
  BY DEF Init, Reporting, Closing
<1>3. /\ IsFiniteSet(Reporting) /\ Cardinality(Reporting) = 0
      /\ IsFiniteSet(Closing) /\ Cardinality(Closing) = 0
  BY <1>1, <1>2
<1>4. QueueLengthExact
  BY <1>1, <1>3 DEF Init, QueueLengthExact, Reporting, Closing
<1> QED
  BY <1>1, <1>3, <1>4 DEF Init, TransportInit, LengthInv, MetricsInv, FirstClose, Active

LEMMA NextCInv == CInv /\ [Next]_vars => CInv'
<1> SUFFICES ASSUME CInv, [Next]_vars PROVE CInv'
  OBVIOUS
<1>1. DInv /\ IInv /\ TypeOK
  BY DEF CInv, DInv, IInv, TypeInv
<1> QED
  BY <1>1, NextDInv, NextMetrics, NextFirstClose, NextLength DEF CInv

(* The metrics count every span once, and the counter of the channel cannot  *)
(* drift from it (reporter.go:249-331).                                      *)
THEOREM CountersTrue == Spec => []CountersExact
<1>1. CInv => CountersExact
  BY DEF CInv, MetricsInv, LengthInv, MetricsExact, CountersExact
<1> QED
  BY InitCInv, NextCInv, <1>1, PTL DEF Spec

-----------------------------------------------------------------------------
(* What a call of Close has to wait for stays ahead of the close item.       *)
Finishing == {"closeFlush", "closeDone", "stopped"}
KeepsAhead(q, D) ==
  \A k, j \in DOMAIN q : q[k] = CloseItem /\ k <= j => q[j] \notin D

DrainInv ==
  /\ closed = 0 => CloseItem \notin Elems(queue) /\ worker \notin Finishing
  /\ \A c \in Closers : Active(c) =>
       /\ mustDrain[c] \subseteq Elems(accepted)
       /\ KeepsAhead(queue, mustDrain[c])
       /\ worker \in Finishing => Elems(queue) \cap mustDrain[c] = {}

LEMMA AheadAppend ==
  ASSUME NEW S, NEW q \in Seq(S), NEW e \in S, NEW D, KeepsAhead(q, D), e \notin D
  PROVE  KeepsAhead(Append(q, e), D)
<1> DEFINE a == Append(q, e)
<1>1. DOMAIN q = 1..Len(q) /\ Len(q) \in Nat
  BY LenProperties
<1>2. /\ DOMAIN a = 1..(Len(q) + 1) /\ a[Len(q) + 1] = e
      /\ \A i \in 1..Len(q) : a[i] = q[i]
  BY AppendLast
<1> HIDE DEF a
<1> SUFFICES ASSUME NEW k \in DOMAIN a, NEW j \in DOMAIN a, a[k] = CloseItem, k <= j
             PROVE  a[j] \notin D
  BY DEF KeepsAhead, a
<1>3. CASE j = Len(q) + 1
  BY <1>2, <1>3
<1>4. CASE j # Len(q) + 1
  <2>1. j \in DOMAIN q /\ k \in DOMAIN q /\ a[j] = q[j] /\ a[k] = q[k]
    BY <1>1, <1>2, <1>4
  <2> QED
    BY <2>1 DEF KeepsAhead
<1> QED
  BY <1>3, <1>4

LEMMA AheadTail ==
  ASSUME NEW S, NEW q \in Seq(S), q # << >>, NEW D, KeepsAhead(q, D)
  PROVE  /\ KeepsAhead(Tail(q), D)
         /\ Head(q) = CloseItem => Elems(Tail(q)) \cap D = {}
<1>1. /\ DOMAIN q = 1..Len(q) /\ Len(q) \in Nat \ {0}
      /\ Head(q) = q[1] /\ DOMAIN Tail(q) = 1..(Len(q) - 1)
      /\ \A i \in 1..(Len(q) - 1) : Tail(q)[i] = q[i + 1]
  BY HeadTailProperties, LenProperties, EmptySeq
<1>2. ASSUME NEW k \in DOMAIN Tail(q), NEW j \in DOMAIN Tail(q),
             Tail(q)[k] = CloseItem, k <= j
      PROVE  Tail(q)[j] \notin D
  <2>1. /\ k + 1 \in DOMAIN q /\ j + 1 \in DOMAIN q /\ k + 1 <= j + 1
        /\ q[k + 1] = CloseItem /\ Tail(q)[j] = q[j + 1]
    BY <1>1, <1>2
  <2> QED
    BY <2>1 DEF KeepsAhead
<1>3. ASSUME Head(q) = CloseItem, NEW j \in DOMAIN Tail(q)
      PROVE  Tail(q)[j] \notin D
  <2>1. /\ 1 \in DOMAIN q /\ j + 1 \in DOMAIN q /\ 1 <= j + 1
        /\ q[1] = CloseItem /\ Tail(q)[j] = q[j + 1]
    BY <1>1, <1>3
  <2> QED
    BY <2>1 DEF KeepsAhead
<1> QED
  BY <1>2, <1>3 DEF KeepsAhead, Elems

(* What is on its way has been taken and is neither sent nor lost. *)
LEMMA WayTaken ==
  ASSUME DInv
  PROVE  /\ OnTheirWay = SpansOf(buffer) \cup SpansOf(Hand) \cup SpansOf(queue)
         /\ OnTheirWay \subseteq Elems(accepted) /\ OnTheirWay \subseteq Instance
         /\ OnTheirWay \cap (lost \cup Elems(backend) \cup discarded) = {}
         /\ Elems(accepted) = OnTheirWay \cup lost \cup Elems(backend)
         /\ Elems(accepted) \cap discarded = {} /\ lost \cap Elems(backend) = {}
<1>1. IInv /\ TypeOK /\ TakenInv /\ FlowInv
  BY DEF DInv, IInv, TypeInv
<1>2. OnTheirWay = SpansOf(buffer) \cup SpansOf(Hand) \cup SpansOf(queue)
  <2>1. SpansOf(Hand) = (IF worker = "append" THEN {item} ELSE {}) \ {CloseItem}
    BY ElemsOne, ElemsEmpty DEF Hand, SpansOf
  <2> QED
    BY <2>1 DEF OnTheirWay, SpansOf
<1>3. SpansOf(backend) = Elems(backend)
  BY <1>1, StageTypes DEF SpansOf
<1>4. /\ Flows(Order, backend, buffer, Hand, queue)
      /\ Elems(accepted) = lost \cup Carried(backend, buffer, Hand, queue)
      /\ lost \cap Carried(backend, buffer, Hand, queue) = {}
  BY <1>1 DEF FlowInv, Accounts
<1>5. \A e : <<e, e>> \notin Order
  BY <1>1, OrderIrreflexive
<1>6. SpansOf(backend) \cap OnTheirWay = {}
  BY <1>2, <1>4, <1>5, FlowApart
<1>7. Elems(accepted) \cap discarded = {} /\ Elems(accepted) \subseteq Instance
  BY <1>1, LenProperties DEF TakenInv, TypeOK, Elems
<1> QED
  BY <1>2, <1>3, <1>4, <1>6, <1>7 DEF Carried

LEMMA NextDrain ==
  ASSUME CInv, DrainInv, [Next]_vars
  PROVE  DrainInv'
<1>1. /\ DInv /\ IInv /\ TypeOK /\ TakenInv /\ FirstClose
      /\ queue \in Seq(Item) /\ CloseItem \in Item
      /\ closer \in [Closers -> {"idle", "sending", "parked", "count", "waiting",
                                 "returned", "ignored"}]
      /\ mustDrain \in [Closers -> SUBSET Instance] /\ closed \in {0, 1}
  BY DEF CInv, DInv, IInv, TypeInv, TypeOK, Item
<1>2. \A c \in Closers : CloseItem \notin mustDrain[c]
  BY <1>1
<1>3. ASSUME UNCHANGED <<queue, accepted, closed, mustDrain>>,
             worker' \in Finishing => worker \in Finishing,
             \A c \in Closers : Active(c)' => Active(c)
      PROVE  DrainInv'
  BY <1>3 DEF DrainInv
<1>4. ASSUME NEW s \in Spans, Report(s) PROVE DrainInv'
  <2>1. UNCHANGED <<worker, closed, closer, mustDrain>> /\ pc[s] = "live"
    BY <1>4 DEF Report, closeVars, workerVars
  <2>2. \A c : Active(c)' <=> Active(c)
    BY <2>1 DEF Active
  <2>3. CASE HasRoom
    <3> DEFINE e == Current(s)
    <3>1. e \in Item /\ e # CloseItem /\ e \notin Elems(accepted) /\ e \in Instance
      BY <1>1, <2>1, CurrentType DEF TakenInv, IInv, TypeInv, Started, Item
    <3>2. queue' = Append(queue, e) /\ accepted' = Append(accepted, e)
      BY <1>4, <2>3 DEF Report
    <3> HIDE DEF e
    <3>3. Elems(queue') = Elems(queue) \cup {e}
      BY <1>1, <3>1, <3>2, ElemsAppend
    <3>4. Elems(accepted) \subseteq Elems(accepted')
      BY <1>1, <3>1, <3>2, ElemsAppend DEF TypeOK
    <3>5. ASSUME NEW c \in Closers, Active(c)
          PROVE  /\ mustDrain[c] \subseteq Elems(accepted')
                 /\ KeepsAhead(queue', mustDrain[c])
                 /\ worker \in Finishing => Elems(queue') \cap mustDrain[c] = {}
      <4>1. /\ mustDrain[c] \subseteq Elems(accepted)
            /\ KeepsAhead(queue, mustDrain[c])
            /\ worker \in Finishing => Elems(queue) \cap mustDrain[c] = {}
        BY <3>5 DEF DrainInv
      <4>2. e \notin mustDrain[c]
        BY <3>1, <4>1
      <4>3. KeepsAhead(queue', mustDrain[c])
        BY <1>1, <3>1, <3>2, <4>1, <4>2, AheadAppend
      <4> QED
        BY <3>3, <3>4, <4>1, <4>2, <4>3
    <3>6. closed' = 0 => CloseItem \notin Elems(queue') /\ worker' \notin Finishing
      BY <2>1, <3>1, <3>3 DEF DrainInv
    <3>7. ASSUME NEW c \in Closers, Active(c)'
          PROVE  /\ mustDrain'[c] \subseteq Elems(accepted')
                 /\ KeepsAhead(queue', mustDrain'[c])
                 /\ worker' \in Finishing => Elems(queue') \cap mustDrain'[c] = {}
      BY <2>1, <2>2, <3>5, <3>7
    <3> QED
      BY <3>6, <3>7 DEF DrainInv, KeepsAhead
  <2>4. CASE ~ HasRoom
    <3>1. UNCHANGED <<queue, accepted>>
      BY <1>4, <2>4 DEF Report
    <3> QED
      BY <1>3, <2>1, <2>2, <3>1
  <2> QED
    BY <2>3, <2>4
<1>5. ASSUME NEW c \in Closers, CloseCall(c) PROVE DrainInv'
  <2>1. /\ closer[c] = "idle" /\ closed' = 1
        /\ closer' = [closer EXCEPT ![c] = IF closed = 1 THEN "ignored" ELSE "sending"]
        /\ mustDrain' = [mustDrain EXCEPT ![c] = OnTheirWay]
        /\ UNCHANGED <<queue, worker, accepted>>
    BY <1>5 DEF CloseCall, queueVars, workerVars
  <2>2. /\ mustDrain'[c] = OnTheirWay
        /\ \A d \in Closers : d # c => mustDrain'[d] = mustDrain[d] /\ closer'[d] = closer[d]
        /\ closer'[c] = IF closed = 1 THEN "ignored" ELSE "sending"
    BY <1>1, <2>1
  <2>3. ASSUME NEW d \in Closers, Active(d)'
        PROVE  /\ mustDrain'[d] \subseteq Elems(accepted)
               /\ KeepsAhead(queue, mustDrain'[d])
               /\ worker \in Finishing => Elems(queue) \cap mustDrain'[d] = {}
    <3>1. CASE d = c
      <4>1. closed = 0
        BY <1>1, <2>2, <2>3, <3>1 DEF Active
      <4>2. CloseItem \notin Elems(queue) /\ worker \notin Finishing
        BY <4>1 DEF DrainInv
      <4>3. KeepsAhead(queue, OnTheirWay)
        BY <4>2 DEF KeepsAhead, Elems
      <4> QED
        BY <1>1, <2>2, <3>1, <4>2, <4>3, WayTaken
    <3>2. CASE d # c
      <4>1. Active(d) /\ mustDrain'[d] = mustDrain[d]
        BY <2>2, <2>3, <3>2 DEF Active
      <4> QED
        BY <4>1 DEF DrainInv
    <3> QED
      BY <3>1, <3>2
  <2> QED
    BY <2>1, <2>3 DEF DrainInv, KeepsAhead
<1>6. ASSUME NEW c \in Closers, CloseSend(c) PROVE DrainInv'
  <2>1. /\ Active(c) /\ UNCHANGED <<worker, accepted, closed, mustDrain>>
        /\ closer' \in {[closer EXCEPT ![c] = "count"], [closer EXCEPT ![c] = "parked"]}
        /\ queue' = queue \/ queue' = Append(queue, CloseItem)
    BY <1>6 DEF CloseSend, Active, workerVars
  <2>2. closed # 0
    BY <1>1, <2>1 DEF FirstClose, Active
  <2>3. ASSUME NEW d \in Closers, Active(d)' PROVE Active(d)
    BY <1>1, <2>1, <2>3 DEF Active
  <2>4. CASE queue' = queue
    BY <1>3, <2>1, <2>3, <2>4
  <2>5. CASE queue' = Append(queue, CloseItem)
    <3>1. Elems(queue') = Elems(queue) \cup {CloseItem}
      BY <1>1, <2>5, ElemsAppend
    <3>2. ASSUME NEW d \in Closers, Active(d)
          PROVE  /\ mustDrain[d] \subseteq Elems(accepted)
                 /\ KeepsAhead(queue', mustDrain[d])
                 /\ worker \in Finishing => Elems(queue') \cap mustDrain[d] = {}
      <4>1. /\ mustDrain[d] \subseteq Elems(accepted)
            /\ KeepsAhead(queue, mustDrain[d])
            /\ worker \in Finishing => Elems(queue) \cap mustDrain[d] = {}
        BY <3>2 DEF DrainInv
      <4>2. KeepsAhead(queue', mustDrain[d])
        BY <1>1, <1>2, <2>5, <4>1, AheadAppend
      <4> QED
        BY <1>2, <3>1, <4>1, <4>2
    <3> QED
      BY <2>1, <2>2, <2>3, <3>2 DEF DrainInv, KeepsAhead
  <2> QED
    BY <2>1, <2>4, <2>5
<1>7. ASSUME NEW c \in Closers, CloseCount(c) \/ CloseSender(c) PROVE DrainInv'
  <2>1. /\ Active(c) /\ UNCHANGED <<queue, worker, accepted, closed, mustDrain>>
        /\ closer' \in {[closer EXCEPT ![c] = "waiting"], [closer EXCEPT ![c] = "returned"]}
    BY <1>7 DEF CloseCount, CloseSender, Active, workerVars, queueVars
  <2>2. ASSUME NEW d \in Closers, Active(d)' PROVE Active(d)
    BY <1>1, <2>1, <2>2 DEF Active
  <2> QED
    BY <1>3, <2>1, <2>2
<1>8. ASSUME Receive PROVE DrainInv'
  <2>1. /\ queue # << >> /\ worker = "select" /\ UNCHANGED <<accepted, closed, mustDrain>>
        /\ worker' = IF Head(queue) = CloseItem THEN "closeFlush" ELSE "append"
    BY <1>8 DEF Receive
  <2>2. /\ closer' = closer \/ closer' = [c \in Closers |-> IF closer[c] = "parked"
                                                            THEN "count" ELSE closer[c]]
        /\ \/ queue' = Tail(queue)
           \/ /\ queue' = Append(Tail(queue), CloseItem)
              /\ \E c \in Closers : closer[c] = "parked"
    BY <1>8 DEF Receive
  <2>3. ASSUME NEW c \in Closers, Active(c)' PROVE Active(c)
    BY <2>2, <2>3 DEF Active
  <2>4. Tail(queue) \in Seq(Item) /\ Elems(queue) = {Head(queue)} \cup Elems(Tail(queue))
    BY <1>1, <2>1, ElemsTail
  <2>5. Elems(queue') \in {Elems(Tail(queue)), Elems(Tail(queue)) \cup {CloseItem}}
    <3>1. \A t \in Seq(Item) : Elems(Append(t, CloseItem)) = Elems(t) \cup {CloseItem}
      BY <1>1, ElemsAppend
    <3> QED
      BY <2>2, <2>4, <3>1
  <2>6. closed' = 0 => CloseItem \notin Elems(queue') /\ worker' \notin Finishing
    <3> SUFFICES ASSUME closed = 0
                 PROVE  CloseItem \notin Elems(queue') /\ worker' \notin Finishing
      BY <2>1
    <3>1. CloseItem \notin Elems(queue) /\ \A c \in Closers : closer[c] = "idle"
      BY <1>1 DEF DrainInv, FirstClose
    <3> QED
      BY <2>1, <2>2, <2>4, <3>1 DEF Finishing
  <2>7. ASSUME NEW c \in Closers, Active(c)
        PROVE  /\ KeepsAhead(queue', mustDrain[c])
               /\ worker' \in Finishing => Elems(queue') \cap mustDrain[c] = {}
    <3>1. KeepsAhead(queue, mustDrain[c]) /\ CloseItem \notin mustDrain[c]
      BY <1>2, <2>7 DEF DrainInv
    <3> DEFINE D == mustDrain[c]
    <3> HIDE DEF D
    <3>2. /\ KeepsAhead(Tail(queue), D)
          /\ Head(queue) = CloseItem => Elems(Tail(queue)) \cap D = {}
      BY <1>1, <2>1, <3>1, AheadTail DEF D
    <3>3. KeepsAhead(Append(Tail(queue), CloseItem), D)
      BY <1>1, <2>4, <3>1, <3>2, AheadAppend DEF D
    <3>4. worker' \in Finishing => Head(queue) = CloseItem
      BY <2>1 DEF Finishing
    <3>5. KeepsAhead(queue', D)
      BY <2>2, <3>2, <3>3
    <3>6. worker' \in Finishing => Elems(queue') \cap D = {}
      BY <2>5, <3>1, <3>2, <3>4 DEF D
    <3> QED
      BY <3>5, <3>6 DEF D
  <2>8. \A c \in Closers : Active(c) => mustDrain[c] \subseteq Elems(accepted)
    BY DEF DrainInv
  <2> QED
    BY <2>1, <2>3, <2>6, <2>7, <2>8 DEF DrainInv, KeepsAhead
<1>9. ASSUME NEW s \in Spans,
             \/ Start(s) \/ UserRetain(s) \/ UserRelease(s) \/ ReportCount(s)
             \/ FinishUnsampled(s) \/ FinishRelease(s)
      PROVE  DrainInv'
  <2>1. UNCHANGED <<queue, worker, accepted, closed, closer, mustDrain>>
    BY <1>9 DEF Start, UserRetain, UserRelease, ReportCount, FinishUnsampled,
                FinishRelease, queueVars, closeVars, workerVars
  <2> QED
    BY <1>3, <2>1 DEF Active
<1>10. ASSUME \/ AppendSpan \/ WorkerRelease \/ Tick \/ CloseFlush \/ CloseDone
              \/ UNCHANGED vars
       PROVE  DrainInv'
  <2>1. /\ UNCHANGED <<queue, accepted, closed, closer, mustDrain>>
        /\ worker' \in Finishing => worker \in Finishing
    BY <1>10 DEF AppendSpan, WorkerRelease, Tick, CloseFlush, CloseDone, vars,
                 queueVars, closeVars, workerVars, Finishing
  <2> QED
    BY <1>3, <2>1 DEF Active
<1> QED
  BY <1>4, <1>5, <1>6, <1>7, <1>8, <1>9, <1>10
     DEF Next, SpanStep, CloserStep, WorkerStep

-----------------------------------------------------------------------------
(* The reporter implements SpanDelivery.                                     *)
LEMMA TakenIsOnTheWay ==
  ASSUME DInv
  PROVE  \A i \in Instance : FateOf(i) = "taken" <=> i \in OnTheirWay
<1>1. /\ OnTheirWay \subseteq Elems(accepted)
      /\ OnTheirWay \cap (lost \cup Elems(backend) \cup discarded) = {}
      /\ Elems(accepted) = OnTheirWay \cup lost \cup Elems(backend)
  BY WayTaken
<1> QED
  BY <1>1 DEF FateOf

LEMMA SameFate ==
  ASSUME UNCHANGED discarded, lost' = lost, Elems(backend') = Elems(backend),
         Elems(accepted') = Elems(accepted)
  PROVE  \A i : FateOf(i)' = FateOf(i)
BY DEF FateOf, Elems

(* A batch of spans on their way arrives, or is lost. *)
LEMMA BatchFate ==
  ASSUME DInv, NEW X, X \subseteq OnTheirWay, UNCHANGED <<discarded, accepted>>
  PROVE  /\ lost' = lost /\ Elems(backend') = Elems(backend) \cup X =>
              \A i \in Instance : FateOf(i)' = IF i \in X THEN "sent" ELSE FateOf(i)
         /\ lost' = lost \cup X /\ backend' = backend =>
              \A i \in Instance : FateOf(i)' = IF i \in X THEN "lost" ELSE FateOf(i)
<1>1. /\ X \subseteq Elems(accepted)
      /\ X \cap (lost \cup Elems(backend) \cup discarded) = {}
      /\ Elems(accepted) \cap discarded = {} /\ lost \cap Elems(backend) = {}
  BY WayTaken
<1>2. ASSUME lost' = lost, Elems(backend') = Elems(backend) \cup X, NEW i \in Instance
      PROVE  FateOf(i)' = IF i \in X THEN "sent" ELSE FateOf(i)
  BY <1>1, <1>2 DEF FateOf, Elems
<1>3. ASSUME lost' = lost \cup X, backend' = backend, NEW i \in Instance
      PROVE  FateOf(i)' = IF i \in X THEN "lost" ELSE FateOf(i)
  BY <1>1, <1>3 DEF FateOf, Elems
<1> QED
  BY <1>2, <1>3

LEMMA SettleStep ==
  ASSUME DInv, NEW X, X \subseteq OnTheirWay, NEW f \in {"sent", "lost"},
         \A i \in Instance : FateOf(i)' = IF i \in X THEN f ELSE FateOf(i),
         UNCHANGED <<closer, mustDrain>>
  PROVE  [Delivery!Next]_(Delivery!vars)
<1>1. \A c : CallOf(c)' = CallOf(c)
  BY DEF CallOf
<1>2. CASE X = {}
  <2>1. [i \in Instance |-> FateOf(i)]' = [i \in Instance |-> FateOf(i)]
    BY <1>2
  <2>2. [c \in Closers |-> CallOf(c)]' = [c \in Closers |-> CallOf(c)]
    BY <1>1
  <2> QED
    BY <2>1, <2>2 DEF Delivery!vars
<1>3. CASE X # {}
  <2>1. X \in SUBSET Delivery!Taken
    BY TakenIsOnTheWay, WayTaken DEF Delivery!Taken
  <2>2. Delivery!Settle(X, f)
    BY <1>1, <1>3, WayTaken DEF Delivery!Settle
  <2> QED
    BY <2>1, <2>2 DEF Delivery!Next
<1> QED
  BY <1>2, <1>3

LEMMA ReportTakes ==
  ASSUME DInv, NEW s \in Spans, Report(s)
  PROVE  Delivery!Next
<1>1. /\ pc[s] = "live" /\ UNCHANGED <<closer, mustDrain, lost, backend>>
  BY DEF Report, closeVars, transportVars
<1>2. IInv /\ TypeOK /\ TakenInv /\ RefInv
  BY DEF DInv, IInv, TypeInv
<1>3. PICK e \in Instance : e = Current(s)
  BY <1>1, <1>2, CurrentType DEF IInv, TypeInv, Started
<1>4. e \notin Elems(accepted) /\ e \notin discarded
  BY <1>1, <1>2, <1>3 DEF TakenInv, RefInv, Placed, Leaked
<1>5. e \notin lost /\ e \notin Elems(backend)
  BY <1>4, WayTaken
<1>6. FateOf(e) = "none"
  BY <1>4, <1>5 DEF FateOf
<1>7. \A c : CallOf(c)' = CallOf(c)
  BY <1>1 DEF CallOf
<1>8. Elems(backend') = Elems(backend)
  BY <1>1
<1> DEFINE f == IF HasRoom THEN "taken" ELSE "dropped"
<1>9. \A i \in Instance : FateOf(i)' = IF i = e THEN f ELSE FateOf(i)
  <2>1. CASE HasRoom
    <3>1. accepted' = Append(accepted, e) /\ discarded' = discarded
      BY <1>3, <2>1 DEF Report
    <3>2. accepted \in Seq(Instance)
      BY <1>2 DEF TypeOK
    <3>3. Elems(accepted') = Elems(accepted) \cup {e}
      BY <3>1, <3>2, ElemsAppend
    <3> QED
      BY <1>1, <1>4, <1>5, <1>8, <2>1, <3>1, <3>3 DEF FateOf, Elems
  <2>2. CASE ~ HasRoom
    <3>1. accepted' = accepted /\ discarded' = discarded \cup {e}
      BY <1>3, <2>2 DEF Report
    <3> QED
      BY <1>1, <1>8, <2>2, <3>1 DEF FateOf, Elems
  <2> QED
    BY <2>1, <2>2
<1>10. f \in {"taken", "dropped"}
  OBVIOUS
<1> HIDE DEF f
<1>11. [i \in Instance |-> FateOf(i)]' = [[i \in Instance |-> FateOf(i)] EXCEPT ![e] = f]
  BY <1>9
<1>12. Delivery!Take(e)
  BY <1>1, <1>6, <1>7, <1>10, <1>11 DEF Delivery!Take
<1> QED
  BY <1>12 DEF Delivery!Next

LEMMA CallBegins ==
  ASSUME CInv, NEW c \in Closers, CloseCall(c)
  PROVE  Delivery!Next
<1>1. /\ DInv /\ FirstClose
      /\ closer \in [Closers -> {"idle", "sending", "parked", "count", "waiting",
                                 "returned", "ignored"}]
      /\ mustDrain \in [Closers -> SUBSET Instance] /\ closed \in {0, 1}
  BY DEF CInv, DInv, IInv, TypeInv, TypeOK
<1>2. /\ closer[c] = "idle"
      /\ closer' = [closer EXCEPT ![c] = IF closed = 1 THEN "ignored" ELSE "sending"]
      /\ mustDrain' = [mustDrain EXCEPT ![c] = OnTheirWay]
      /\ UNCHANGED <<discarded, lost, backend, accepted>>
  BY DEF CloseCall, transportVars
<1>3. \A i : FateOf(i)' = FateOf(i)
  BY <1>2 DEF FateOf, Elems
<1>4. Delivery!Taken = OnTheirWay
  BY <1>1, TakenIsOnTheWay, WayTaken DEF Delivery!Taken
<1>5. closed = 0 <=> \A d \in Closers : CallOf(d) = "idle"
  BY <1>1 DEF FirstClose, CallOf
<1>6. \A d \in Closers : CallOf(d)' = IF d = c THEN IF closed = 0 THEN "closing" ELSE "ignored"
                                              ELSE CallOf(d)
  BY <1>1, <1>2 DEF CallOf
<1>7. CallOf(c) = "idle"
  BY <1>2 DEF CallOf
<1>8. Delivery!BeginClose(c)
  <2>1. [d \in Closers |-> CallOf(d)]' =
          [[d \in Closers |-> CallOf(d)] EXCEPT ![c] =
             IF \A d \in Closers : [e \in Closers |-> CallOf(e)][d] = "idle"
             THEN "closing" ELSE "ignored"]
    BY <1>5, <1>6
  <2>2. [i \in Instance |-> FateOf(i)]' = [i \in Instance |-> FateOf(i)]
    BY <1>3
  <2> QED
    BY <1>2, <1>4, <1>7, <2>1, <2>2 DEF Delivery!BeginClose
<1> QED
  BY <1>8 DEF Delivery!Next

LEMMA CallEnds ==
  ASSUME CInv, DrainInv, NEW c \in Closers, CloseSender(c)
  PROVE  Delivery!Next
<1>1. /\ DInv /\ SettledInv
      /\ closer \in [Closers -> {"idle", "sending", "parked", "count", "waiting",
                                 "returned", "ignored"}]
  BY DEF CInv, DInv, IInv, TypeInv, TypeOK
<1>2. /\ closer[c] = "waiting" /\ wg = 0
      /\ closer' = [closer EXCEPT ![c] = "returned"]
      /\ UNCHANGED <<mustDrain, discarded, lost, backend, accepted>>
  BY DEF CloseSender, transportVars
<1>3. \A i : FateOf(i)' = FateOf(i)
  BY <1>2 DEF FateOf, Elems
<1>4. worker = "stopped" /\ buffer = << >>
  BY <1>1, <1>2 DEF SettledInv
<1>5. OnTheirWay = SpansOf(queue)
  <2>1. SpansOf(buffer) = {} /\ SpansOf(Hand) = {}
    BY <1>4, ElemsEmpty DEF Hand, SpansOf
  <2> QED
    BY <1>1, <2>1, WayTaken
<1>6. Elems(queue) \cap mustDrain[c] = {}
  BY <1>2, <1>4 DEF DrainInv, Active, Finishing
<1>7. mustDrain[c] \cap Delivery!Taken = {}
  <2>1. \A i \in Delivery!Taken : i \in OnTheirWay
    BY <1>1, TakenIsOnTheWay DEF Delivery!Taken
  <2> QED
    BY <1>5, <1>6, <2>1 DEF SpansOf
<1>8. \A d \in Closers : CallOf(d)' = IF d = c THEN "returned" ELSE CallOf(d)
  BY <1>1, <1>2 DEF CallOf
<1>9. CallOf(c) = "closing"
  BY <1>2 DEF CallOf
<1>10. Delivery!EndClose(c)
  <2>1. [d \in Closers |-> CallOf(d)]' = [[d \in Closers |-> CallOf(d)] EXCEPT ![c] = "returned"]
    BY <1>8
  <2>2. [i \in Instance |-> FateOf(i)]' = [i \in Instance |-> FateOf(i)]
    BY <1>3
  <2> QED
    BY <1>2, <1>7, <1>9, <2>1, <2>2 DEF Delivery!EndClose
<1> QED
  BY <1>10 DEF Delivery!Next

(* What the worker submits to the transport is settled as one batch. *)
LEMMA WorkerSettles ==
  ASSUME DInv, AppendSpan \/ Tick \/ CloseFlush
  PROVE  [Delivery!Next]_(Delivery!vars)
<1>1. /\ UNCHANGED <<closer, mustDrain, discarded, accepted>>
  BY DEF AppendSpan, Tick, CloseFlush, closeVars
<1>2. IInv /\ TakenInv /\ FlowInv
  BY DEF DInv
<1>3. /\ buffer \in Seq(Instance) /\ backend \in Seq(Instance)
      /\ CloseItem \notin Elems(buffer)
  BY <1>2, StageTypes DEF IInv, TypeInv, TypeOK
<1>4. Elems(buffer) \subseteq OnTheirWay
  BY <1>3, WayTaken DEF SpansOf
<1>5. ASSUME NEW q \in Seq(Instance), Elems(q) \subseteq OnTheirWay,
             NEW r \in Results, Emit(q, r)
      PROVE  [Delivery!Next]_(Delivery!vars)
  <2>1. CASE r = "ok"
    <3>1. lost' = lost /\ backend' = backend \o q
      BY <1>5, <2>1 DEF Emit
    <3>2. Elems(backend') = Elems(backend) \cup Elems(q)
      BY <1>3, <3>1, ElemsConcat
    <3>3. \A i \in Instance : FateOf(i)' = IF i \in Elems(q) THEN "sent" ELSE FateOf(i)
      BY <1>1, <1>5, <3>1, <3>2, BatchFate
    <3> QED
      BY <1>1, <1>5, <3>3, SettleStep
  <2>2. CASE r # "ok"
    <3>1. lost' = lost \cup Elems(q) /\ backend' = backend
      BY <1>5, <2>2 DEF Emit
    <3>2. \A i \in Instance : FateOf(i)' = IF i \in Elems(q) THEN "lost" ELSE FateOf(i)
      BY <1>1, <1>5, <3>1, BatchFate
    <3> QED
      BY <1>1, <1>5, <3>2, SettleStep
  <2> QED
    BY <2>1, <2>2
<1>6. CASE Tick \/ CloseFlush
  <2>1. PICK r \in Results : Emit(buffer, r)
    BY <1>6 DEF Tick, CloseFlush, Flush
  <2> QED
    BY <1>3, <1>4, <1>5, <2>1
<1>7. CASE AppendSpan
  <2>1. worker = "append" /\ AppendOutcome(Current(item.span))
    BY <1>7 DEF AppendSpan
  <2>2. item \in Instance /\ Current(item.span) = item
    BY <1>2, <2>1, StageTypes
  <2>3. item \in OnTheirWay
    BY <2>1, <2>2 DEF OnTheirWay
  <2>4. ASSUME Keep(item) PROVE [Delivery!Next]_(Delivery!vars)
    <3>1. lost' = lost /\ backend' = backend
      BY <2>4 DEF Keep
    <3> DEFINE X == Elems(<< >>)
    <3>2. X \subseteq OnTheirWay /\ Elems(backend') = Elems(backend) \cup X
      BY <3>1, ElemsEmpty
    <3> HIDE DEF X
    <3>3. \A i \in Instance : FateOf(i)' = IF i \in X THEN "sent" ELSE FateOf(i)
      BY <1>1, <3>1, <3>2, BatchFate
    <3> QED
      BY <1>1, <3>2, <3>3, SettleStep
  <2>5. ASSUME Reject(item) PROVE [Delivery!Next]_(Delivery!vars)
    <3> DEFINE o == <<item>>
    <3>1. o \in Seq(Instance) /\ Elems(o) \subseteq OnTheirWay
      BY <2>2, <2>3, ElemsOne
    <3>2. Emit(o, "error") /\ "error" \in Results
      BY <2>5 DEF Reject, Results
    <3> HIDE DEF o
    <3> QED
      BY <1>5, <3>1, <3>2
  <2>6. ASSUME NEW r \in Results, FlushWith(item, r)
        PROVE  [Delivery!Next]_(Delivery!vars)
    <3> DEFINE a == Append(buffer, item)
    <3>1. a \in Seq(Instance) /\ Elems(a) = Elems(buffer) \cup {item}
      BY <1>3, <2>2, AppendLast, ElemsAppend
    <3>2. Elems(a) \subseteq OnTheirWay
      BY <1>4, <2>3, <3>1
    <3>3. Emit(a, r)
      BY <2>6 DEF FlushWith
    <3> HIDE DEF a
    <3> QED
      BY <1>5, <3>1, <3>2, <3>3
  <2>7. ASSUME NEW r \in Results, FlushBefore(item, r)
        PROVE  [Delivery!Next]_(Delivery!vars)
    BY <1>3, <1>4, <1>5, <2>7 DEF FlushBefore
  <2> QED
    BY <2>1, <2>2, <2>4, <2>5, <2>6, <2>7 DEF AppendOutcome
<1> QED
  BY <1>6, <1>7

(* All other steps change nothing a user of the reporter sees. *)
LEMMA StepImplements ==
  ASSUME CInv, DrainInv, [Next]_vars
  PROVE  [Delivery!Next]_(Delivery!vars)
<1>1. /\ DInv
      /\ closer \in [Closers -> {"idle", "sending", "parked", "count", "waiting",
                                 "returned", "ignored"}]
  BY DEF CInv, DInv, IInv, TypeInv, TypeOK
<1>2. ASSUME UNCHANGED <<mustDrain, discarded, lost, backend, accepted>>,
             \A c \in Closers : CallOf(c)' = CallOf(c)
      PROVE  UNCHANGED Delivery!vars
  <2>1. \A i : FateOf(i)' = FateOf(i)
    BY <1>2 DEF FateOf, Elems
  <2> QED
    BY <1>2, <2>1 DEF Delivery!vars
<1>3. ASSUME NEW s \in Spans,
             \/ Start(s) \/ UserRetain(s) \/ UserRelease(s) \/ ReportCount(s)
             \/ FinishUnsampled(s) \/ FinishRelease(s)
      PROVE  UNCHANGED Delivery!vars
  <2>1. UNCHANGED <<closer, mustDrain, discarded, lost, backend, accepted>>
    BY <1>3 DEF Start, UserRetain, UserRelease, ReportCount, FinishUnsampled,
                FinishRelease, closeVars, transportVars
  <2> QED
    BY <1>2, <2>1 DEF CallOf
<1>4. ASSUME NEW c \in Closers, CloseSend(c) \/ CloseCount(c)
      PROVE  UNCHANGED Delivery!vars
  <2>1. /\ UNCHANGED <<mustDrain, discarded, lost, backend, accepted>>
        /\ closer[c] \in {"sending", "count"}
        /\ \E v \in {"count", "parked", "waiting"} : closer' = [closer EXCEPT ![c] = v]
    BY <1>4 DEF CloseSend, CloseCount, transportVars
  <2>2. \A d \in Closers : CallOf(d)' = CallOf(d)
    BY <1>1, <2>1 DEF CallOf
  <2> QED
    BY <1>2, <2>1, <2>2
<1>5. ASSUME Receive PROVE UNCHANGED Delivery!vars
  <2>1. /\ UNCHANGED <<mustDrain, discarded, lost, backend, accepted>>
        /\ closer' = closer \/ closer' = [c \in Closers |-> IF closer[c] = "parked"
                                                            THEN "count" ELSE closer[c]]
    BY <1>5 DEF Receive, transportVars
  <2>2. \A d \in Closers : CallOf(d)' = CallOf(d)
    BY <1>1, <2>1 DEF CallOf
  <2> QED
    BY <1>2, <2>1, <2>2
<1>6. ASSUME WorkerRelease \/ CloseDone \/ UNCHANGED vars
      PROVE  UNCHANGED Delivery!vars
  <2>1. UNCHANGED <<closer, mustDrain, discarded, lost, backend, accepted>>
    BY <1>6 DEF WorkerRelease, CloseDone, vars, closeVars, transportVars
  <2> QED
    BY <1>2, <2>1 DEF CallOf
<1>7. ASSUME NEW s \in Spans, Report(s) PROVE Delivery!Next
  BY <1>1, <1>7, ReportTakes
<1>8. ASSUME NEW c \in Closers, CloseCall(c) PROVE Delivery!Next
  BY <1>8, CallBegins
<1>9. ASSUME NEW c \in Closers, CloseSender(c) PROVE Delivery!Next
  BY <1>9, CallEnds
<1>10. ASSUME AppendSpan \/ Tick \/ CloseFlush PROVE [Delivery!Next]_(Delivery!vars)
  BY <1>1, <1>10, WorkerSettles
<1> QED
  BY <1>3, <1>4, <1>5, <1>6, <1>7, <1>8, <1>9, <1>10
     DEF Next, SpanStep, CloserStep, WorkerStep

LEMMA InitImplements == Init => DrainInv /\ Delivery!Init
<1> SUFFICES ASSUME Init PROVE DrainInv /\ Delivery!Init
  OBVIOUS
<1>1. Elems(<< >>) = {}
  BY ElemsEmpty
<1>2. DrainInv
  BY <1>1 DEF Init, DrainInv, Active, Finishing
<1>3. /\ \A i : FateOf(i) = "none"
      /\ \A c \in Closers : CallOf(c) = "idle"
  BY <1>1 DEF Init, TransportInit, FateOf, CallOf
<1> QED
  BY <1>2, <1>3 DEF Init, Delivery!Init

(* The reporter keeps the promise of the Reporter interface: a span is       *)
(* dropped at once or settled once, and the one Close that counts returns    *)
(* when all that was taken before it is settled (reporter.go:30-38).         *)
THEOREM DeliveryImplemented == Spec => ImplementsDelivery
<1>1. Init => CInv /\ DrainInv /\ Delivery!Init
  BY InitCInv, InitImplements
<1>2. CInv /\ DrainInv /\ [Next]_vars => CInv' /\ DrainInv'
  BY NextCInv, NextDrain
<1>3. CInv /\ DrainInv /\ [Next]_vars => [Delivery!Next]_(Delivery!vars)
  BY StepImplements
<1> QED
  BY <1>1, <1>2, <1>3, PTL DEF Spec, ImplementsDelivery, Delivery!Spec

=============================================================================
