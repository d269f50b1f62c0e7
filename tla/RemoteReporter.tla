--------------------------- MODULE RemoteReporter ---------------------------
(***************************************************************************)
(* The asynchronous reporter of jaeger-client-go and the pool of spans it  *)
(* shares with the tracer: application goroutines start, retain and finish *)
(* spans (span.go, tracer.go, span_allocator.go), Report hands a finished  *)
(* span to a bounded channel, the worker goroutine of processQueue gives   *)
(* it to the Transport, and Close sends an item through the same channel   *)
(* and waits for the worker (reporter.go).                                 *)
(*                                                                         *)
(* A Span object comes from a sync.Pool and goes back to it when its       *)
(* reference counter reaches -1; gen[s] counts the uses of object s, so    *)
(* that the pair of a span and its gen is one span of one trace.  The      *)
(* channel carries pointers, which is why an item's gen is a history value *)
(* and what the transport serialises is gen[s] at the time of Append.      *)
(***************************************************************************)
EXTENDS Transport, FiniteSets

CONSTANTS
  Spans,        (* the Span objects                                          *)
  Closers,      (* the goroutines that may call Close                        *)
  QueueSize,    (* capacity of the reporter's channel                        *)
  CloseItem,    (* the channel item of type reporterQueueItemClose           *)
  NoItem,       (* the worker holds no item                                  *)
  MaxGen,       (* bound: uses of one Span object                            *)
  MaxUserRefs   (* bound: references the application takes with Retain       *)

(* A span of a trace: the object and the number of its use. *)
Instance == [span : Spans, gen : 1..MaxGen]
Item     == Instance \cup {CloseItem}

ASSUME QueueAssumption == QueueSize \in Nat \ {0}
ASSUME BoundAssumption == MaxGen \in Nat /\ MaxUserRefs \in Nat
ASSUME ItemAssumption  == /\ CloseItem \notin Instance
                          /\ NoItem \notin Item

VARIABLES
  \* Span objects
  pool,         (* objects in the allocator                                  *)
  gen,          (* uses of each object so far                                *)
  refs,         (* Span.referenceCounter                                     *)
  userRefs,     (* references the application holds through Retain           *)
  pc,           (* the goroutine that owns the span                          *)
  \* remoteReporter
  queue,        (* the channel                                               *)
  queueLength,  (* remoteReporter.queueLength                                *)
  closed,       (* remoteReporter.closed: 0 or 1                             *)
  closer,       (* each goroutine in Close                                   *)
  worker, item, (* processQueue, and the item it works on                    *)
  wg,           (* counter of the close item's WaitGroup                     *)
  \* metrics
  dropped,      (* ReporterDropped, and reporterStats.droppedCount           *)
  gauge,        (* the last value published as ReporterQueueLength           *)
  sender,       (* is the Transport open or closed                           *)
  \* history
  accepted,     (* instances in the order the channel took them              *)
  discarded,    (* instances Report dropped because the channel was full     *)
  mustDrain     (* what was on its way when each closer called Close         *)

spanVars      == <<pool, gen, refs, userRefs, pc>>
queueVars     == <<queue, queueLength>>
closeVars     == <<closed, closer, wg, mustDrain>>
workerVars    == <<worker, item>>
metricVars    == <<success, failure, dropped, gauge>>
vars == <<spanVars, queueVars, closeVars, workerVars, metricVars,
          transportVars, sender, accepted, discarded>>

Current(s) == [span |-> s, gen |-> gen[s]]

-----------------------------------------------------------------------------
Init ==
  /\ pool = Spans
  /\ gen = [s \in Spans |-> 0]
  /\ refs = [s \in Spans |-> 0]
  /\ userRefs = [s \in Spans |-> 0]
  /\ pc = [s \in Spans |-> "idle"]
  /\ queue = << >> /\ queueLength = 0
  /\ closed = 0
  /\ closer = [c \in Closers |-> "idle"]
  /\ worker = "select" /\ item = NoItem
  /\ wg = 1
  /\ TransportInit
  /\ dropped = 0 /\ gauge = 0 /\ sender = "open"
  /\ accepted = << >> /\ discarded = {}
  /\ mustDrain = [c \in Closers |-> {}]

-----------------------------------------------------------------------------
(* The application and its spans *)

(* Span.Retain. *)
RetainNot(s) == UNCHANGED refs                                    \* mutant
Retain(s)    == refs' = [refs EXCEPT ![s] = @ + 1]

(* Span.Release: the object goes back, reset, when the counter hits -1. *)
Release(s) ==
  IF refs[s] = 0
  THEN /\ refs' = [refs EXCEPT ![s] = 0]
       /\ pool' = pool \cup {s}
  ELSE /\ refs' = [refs EXCEPT ![s] = @ - 1]
       /\ UNCHANGED pool

(* StartSpan: the allocator returns a pooled object or a new one. *)
Start(s) ==
  /\ s \in pool
  /\ gen[s] < MaxGen
  /\ pool' = pool \ {s}
  /\ gen' = [gen EXCEPT ![s] = @ + 1]
  /\ pc' = [pc EXCEPT ![s] = "live"]
  /\ UNCHANGED <<refs, userRefs, queueVars, closeVars, workerVars, metricVars,
                 transportVars, sender, accepted, discarded>>

(* The application calls Retain on a span it owns, and Release later. *)
UserRetain(s) ==
  /\ pc[s] = "live"
  /\ userRefs[s] < MaxUserRefs
  /\ Retain(s)
  /\ userRefs' = [userRefs EXCEPT ![s] = @ + 1]
  /\ UNCHANGED <<pool, gen, pc, queueVars, closeVars, workerVars, metricVars,
                 transportVars, sender, accepted, discarded>>

UserRelease(s) ==
  /\ userRefs[s] > 0
  /\ userRefs' = [userRefs EXCEPT ![s] = @ - 1]
  /\ Release(s)
  /\ UNCHANGED <<gen, pc, queueVars, closeVars, workerVars, metricVars,
                 transportVars, sender, accepted, discarded>>

(* A send on the channel does not block. *)
HasRoom == Len(queue) < QueueSize

(* Finish of a sampled span, up to the select of remoteReporter.Report.  The *)
(* channel operand is evaluated first: the span is retained either way.      *)
Report(s) ==
  /\ pc[s] = "live"
  /\ Retain(s)
  /\ IF HasRoom
     THEN /\ queue' = Append(queue, Current(s))
          /\ accepted' = Append(accepted, Current(s))
          /\ pc' = [pc EXCEPT ![s] = "count"]
          /\ UNCHANGED <<dropped, discarded>>
     ELSE /\ dropped' = dropped + 1
          /\ discarded' = discarded \cup {Current(s)}
          /\ pc' = [pc EXCEPT ![s] = "release"]
          /\ UNCHANGED <<queue, accepted>>
  /\ UNCHANGED <<pool, gen, userRefs, queueLength, closeVars, workerVars,
                 success, failure, gauge, transportVars, sender>>

(* The counter of queued items moves after the send. *)
ReportCount(s) ==
  /\ pc[s] = "count"
  /\ queueLength' = queueLength + 1
  /\ pc' = [pc EXCEPT ![s] = "release"]
  /\ UNCHANGED <<pool, gen, refs, userRefs, queue, closeVars, workerVars,
                 metricVars, transportVars, sender, accepted, discarded>>

(* A span that is not sampled is not reported, only released. *)
FinishUnsampled(s) ==
  /\ pc[s] = "live"
  /\ pc' = [pc EXCEPT ![s] = "release"]
  /\ UNCHANGED <<pool, gen, refs, userRefs, queueVars, closeVars, workerVars,
                 metricVars, transportVars, sender, accepted, discarded>>

(* The end of Tracer.reportSpan: the owner's reference goes. *)
FinishRelease(s) ==
  /\ pc[s] = "release"
  /\ Release(s)
  /\ pc' = [pc EXCEPT ![s] = "idle"]
  /\ UNCHANGED <<gen, userRefs, queueVars, closeVars, workerVars, metricVars,
                 transportVars, sender, accepted, discarded>>

-----------------------------------------------------------------------------
(* Close *)

OnTheirWay ==
  (Elems(queue) \cup Elems(buffer)
     \cup (IF worker = "append" THEN {item} ELSE {})) \ {CloseItem}

(* The CAS on closed: only the first caller goes on. *)
CloseCall(c) ==
  /\ closer[c] = "idle"
  /\ closed' = 1
  /\ closer' = [closer EXCEPT ![c] = IF closed = 1 THEN "ignored" ELSE "sending"]
  /\ mustDrain' = [mustDrain EXCEPT ![c] = OnTheirWay]
  /\ UNCHANGED <<spanVars, queueVars, workerVars, metricVars, transportVars,
                 wg, sender, accepted, discarded>>

(* sendCloseEvent's blocking send: a sender that finds the channel full is   *)
(* parked, and the next receive moves its item into the slot it frees.       *)
CloseSend(c) ==
  /\ closer[c] = "sending"
  /\ IF HasRoom
     THEN /\ queue' = Append(queue, CloseItem)
          /\ closer' = [closer EXCEPT ![c] = "count"]
     ELSE /\ closer' = [closer EXCEPT ![c] = "parked"]
          /\ UNCHANGED queue
  /\ UNCHANGED <<spanVars, queueLength, closed, wg, mustDrain, workerVars,
                 metricVars, transportVars, sender, accepted, discarded>>

CloseCount(c) ==
  /\ closer[c] = "count"
  /\ queueLength' = queueLength + 1
  /\ closer' = [closer EXCEPT ![c] = "waiting"]
  /\ UNCHANGED <<spanVars, queue, closed, wg, mustDrain, workerVars,
                 metricVars, transportVars, sender, accepted, discarded>>

CloseWithoutWait(c) ==                                            \* mutant
  /\ closer[c] = "waiting"
  /\ sender' = "closed"
  /\ closer' = [closer EXCEPT ![c] = "returned"]
  /\ UNCHANGED <<spanVars, queueVars, closed, wg, mustDrain, workerVars,
                 metricVars, transportVars, accepted, discarded>>

(* wg.Wait, then sender.Close from the closer's goroutine. *)
CloseSender(c) ==
  /\ closer[c] = "waiting"
  /\ wg = 0
  /\ sender' = "closed"
  /\ closer' = [closer EXCEPT ![c] = "returned"]
  /\ UNCHANGED <<spanVars, queueVars, closed, wg, mustDrain, workerVars,
                 metricVars, transportVars, accepted, discarded>>

-----------------------------------------------------------------------------
(* The worker: processQueue *)

(* A receive; it completes the send of a parked closer. *)
Receive ==
  /\ worker = "select"
  /\ queue # << >>
  /\ item' = Head(queue)
  /\ queueLength' = queueLength - 1
  /\ worker' = IF Head(queue) = CloseItem THEN "closeFlush" ELSE "append"
  /\ IF \E c \in Closers : closer[c] = "parked"
     THEN /\ queue' = Append(Tail(queue), CloseItem)
          /\ closer' = [c \in Closers |-> IF closer[c] = "parked"
                                          THEN "count" ELSE closer[c]]
     ELSE /\ queue' = Tail(queue)
          /\ UNCHANGED closer
  /\ UNCHANGED <<spanVars, closed, wg, mustDrain, metricVars,
                 transportVars, sender, accepted, discarded>>

(* sender.Append and the metrics; the gauge is published after a flush only. *)
AppendSpan ==
  /\ worker = "append"
  /\ worker' = "release"
  /\ AppendOutcome(Current(item.span))   \* what it serialises is the object as it is now
  /\ gauge' = IF success' > success THEN queueLength ELSE gauge
  /\ UNCHANGED <<spanVars, queueVars, closeVars, item, dropped, sender,
                 accepted, discarded>>

WorkerForgetsRelease ==                                           \* mutant
  /\ worker = "release"
  /\ worker' = "select"
  /\ item' = NoItem
  /\ UNCHANGED <<spanVars, queueVars, closeVars, metricVars, transportVars,
                 sender, accepted, discarded>>

(* span.Release, and back to the select. *)
WorkerRelease ==
  /\ worker = "release"
  /\ Release(item.span)
  /\ worker' = "select"
  /\ item' = NoItem
  /\ UNCHANGED <<gen, userRefs, pc, queueVars, closeVars, metricVars,
                 transportVars, sender, accepted, discarded>>

(* The ticker. *)
Tick ==
  /\ worker = "select"
  /\ \E r \in Results : Flush(r)
  /\ UNCHANGED <<spanVars, queueVars, closeVars, workerVars, dropped, gauge,
                 sender, accepted, discarded>>

CloseSkipsFlush ==                                                \* mutant
  /\ worker = "closeFlush"
  /\ worker' = "closeDone"
  /\ UNCHANGED <<spanVars, queueVars, closeVars, item, metricVars,
                 transportVars, sender, accepted, discarded>>

(* The close item: a last flush, then Done, and the goroutine returns. *)
CloseFlush ==
  /\ worker = "closeFlush"
  /\ worker' = "closeDone"
  /\ \E r \in Results : Flush(r)
  /\ UNCHANGED <<spanVars, queueVars, closeVars, item, dropped, gauge,
                 sender, accepted, discarded>>

CloseForgetsDone ==                                               \* mutant
  /\ worker = "closeDone"
  /\ worker' = "stopped"
  /\ item' = NoItem
  /\ UNCHANGED <<spanVars, queueVars, closeVars, metricVars, transportVars,
                 sender, accepted, discarded>>

CloseDone ==
  /\ worker = "closeDone"
  /\ worker' = "stopped"
  /\ item' = NoItem
  /\ wg' = 0
  /\ UNCHANGED <<spanVars, queueVars, closed, closer, mustDrain, metricVars,
                 transportVars, sender, accepted, discarded>>

-----------------------------------------------------------------------------
SpanStep(s) ==
  \/ Start(s) \/ UserRetain(s) \/ UserRelease(s)
  \/ Report(s) \/ ReportCount(s) \/ FinishUnsampled(s) \/ FinishRelease(s)
CloserStep(c) == CloseSend(c) \/ CloseCount(c) \/ CloseSender(c)
WorkerStep ==
  Receive \/ AppendSpan \/ WorkerRelease \/ Tick \/ CloseFlush \/ CloseDone

Next ==
  \/ \E s \in Spans : SpanStep(s)
  \/ \E c \in Closers : CloseCall(c) \/ CloserStep(c)
  \/ WorkerStep

Spec == Init /\ [][Next]_vars

(* The Go scheduler runs a goroutine that can run.  select picks among ready *)
(* cases at random, so neither the ticker nor the channel starves.  Nothing  *)
(* makes the application start, finish or close anything.                    *)
Fairness ==
  /\ WF_vars(Receive) /\ WF_vars(Tick)
  /\ WF_vars(AppendSpan \/ WorkerRelease \/ CloseFlush \/ CloseDone)
  /\ \A c \in Closers : WF_vars(CloserStep(c))

FairSpec == Spec /\ Fairness

-----------------------------------------------------------------------------
TypeOK ==
  /\ pool \subseteq Spans
  /\ gen \in [Spans -> 0..MaxGen]
  /\ refs \in [Spans -> Int]
  /\ userRefs \in [Spans -> 0..MaxUserRefs]
  /\ pc \in [Spans -> {"idle", "live", "count", "release"}]
  /\ queue \in Seq(Item) /\ Len(queue) <= QueueSize
  /\ queueLength \in Int
  /\ closed \in {0, 1}
  /\ closer \in [Closers -> {"idle", "sending", "parked", "count", "waiting",
                             "returned", "ignored"}]
  /\ worker \in {"select", "append", "release", "closeFlush", "closeDone",
                 "stopped"}
  /\ item \in Item \cup {NoItem}
  /\ wg \in {0, 1}
  /\ success \in Nat /\ failure \in Nat /\ dropped \in Nat /\ gauge \in Int
  /\ buffer \in Seq(Instance)
  /\ backend \in Seq(Instance)
  /\ lost \subseteq Instance
  /\ sender \in {"open", "closed"}
  /\ accepted \in Seq(Instance)
  /\ discarded \subseteq Instance
  /\ mustDrain \in [Closers -> SUBSET Instance]

(* The span objects the reporter holds: in the channel or in the worker. *)
InQueue(s)  == \E i \in DOMAIN queue : queue[i] # CloseItem /\ queue[i].span = s
InWorker(s) == worker \in {"append", "release"} /\ item.span = s
Leaked(s)   == Current(s) \in discarded

(* The counter of a span in use is one less than its holders: the owner, the *)
(* application's Retains, the channel, the worker and, for a span that       *)
(* Report dropped, the reference nobody gives back.  This is what decides    *)
(* that Release puts the object back exactly when the last holder lets go.   *)
One(b) == IF b THEN 1 ELSE 0
Holders(s) == One(pc[s] # "idle") + userRefs[s]
                + One(InQueue(s)) + One(InWorker(s)) + One(Leaked(s))
ReferencesExact ==
  \A s \in Spans :
    /\ refs[s] >= 0
    /\ s \in pool => refs[s] = 0 /\ Holders(s) = 0
    /\ s \notin pool => refs[s] + 1 = Holders(s)

(* reporter.go:32-33 "it needs to Retain() the span, and then Release() it   *)
(* when no longer needed, to avoid span data corruption": an object in the   *)
(* pool is in nobody's hands, so a Start can never take it from the channel, *)
(* the worker, its owner or an application that retained it.                 *)
NoUseAfterPut ==
  \A s \in pool : /\ pc[s] = "idle"
                  /\ userRefs[s] = 0
                  /\ ~ InQueue(s)
                  /\ ~ InWorker(s)

(* What the worker serialises is the span that was reported: the object has  *)
(* not been reused between Report and Append.                                *)
NoCorruption ==
  /\ worker \in {"append", "release"} => item = Current(item.span)
  /\ \A i \in DOMAIN queue :
       queue[i] # CloseItem => queue[i] = Current(queue[i].span)

(* What the channel took and no error lost, from the oldest span to the      *)
(* newest: received by the backend, in the transport's buffer, with the      *)
(* worker, in the channel.                                                   *)
Hand     == IF worker = "append" THEN <<item>> ELSE << >>
Pipeline == backend \o buffer \o Hand \o queue

TakenBefore(i, j) ==
  \E m, n \in DOMAIN accepted : m < n /\ accepted[m] = i /\ accepted[n] = j
InOrder(seq) ==
  \A m, n \in DOMAIN seq :
    m < n /\ CloseItem \notin {seq[m], seq[n]} => TakenBefore(seq[m], seq[n])

(* The channel takes a span once, and every span it took is lost by a failed *)
(* Append or Flush or is in the pipeline, once and in the order it was       *)
(* taken: nothing is sent twice, overtaken or forgotten.  And the Transport  *)
(* is not thread-safe (transport.go:23-24): when Close gets to sender.Close, *)
(* on its own goroutine, the worker has made its last call and left nothing  *)
(* behind.                                                                   *)
DeliveryInOrder ==
  /\ sender = "closed" => worker = "stopped" /\ buffer = << >>
  /\ \A m, n \in DOMAIN accepted : accepted[m] = accepted[n] => m = n
  /\ Elems(accepted) = lost \cup (Elems(Pipeline) \ {CloseItem})
  /\ lost \cap Elems(Pipeline) = {}
  /\ InOrder(Pipeline)

(* The metrics count each span once: sent, failed and dropped.               *)
MetricsExact ==
  /\ success = Len(backend)
  /\ failure = Cardinality(lost)
  /\ dropped = Cardinality(discarded)

(* remoteReporter.queueLength, moved by three kinds of goroutines next to the *)
(* channel and never with it, differs from the length of the channel only by *)
(* the senders between their send and their increment: it cannot drift       *)
(* (Report, sendCloseEvent, processQueue).                                   *)
QueueLengthExact ==
  queueLength = Len(queue) - Cardinality({s \in Spans : pc[s] = "count"})
                           - Cardinality({c \in Closers : closer[c] = "count"})

(* The counters the reporter publishes, moved next to what they count.       *)
CountersExact == MetricsExact /\ QueueLengthExact

(* The first Close returns, even when it finds the channel full.             *)
CloseTerminates ==
  \A c \in Closers : closer[c] = "sending" ~> closer[c] = "returned"

(* A span the channel took ahead of the close item is sent or counted as     *)
(* lost; the ticker moves one that sits in the transport's buffer.           *)
Ahead(i) ==
  /\ worker \notin {"closeFlush", "closeDone", "stopped"}
  /\ \/ i \in Elems(buffer)
     \/ \E k \in DOMAIN queue :
          queue[k] = i /\ \A j \in 1..k : queue[j] # CloseItem
SpansResolved ==
  \A i \in Instance : Ahead(i) ~> (i \in Elems(backend) \/ i \in lost)

(* The reporter as its users see it: every reported span is dropped at once, *)
(* or taken and later sent or lost, once; and Close returns when all that    *)
(* was taken before it is settled.                                           *)
FateOf(i) ==
  IF i \in discarded THEN "dropped"
  ELSE IF i \in lost THEN "lost"
  ELSE IF i \in Elems(backend) THEN "sent"
  ELSE IF i \in Elems(accepted) THEN "taken" ELSE "none"
CallOf(c) ==
  IF closer[c] \in {"idle", "ignored", "returned"} THEN closer[c] ELSE "closing"

Delivery == INSTANCE SpanDelivery WITH
  Ids <- Instance, Callers <- Closers,
  fate <- [i \in Instance |-> FateOf(i)],
  call <- [c \in Closers |-> CallOf(c)],
  promised <- mustDrain
ImplementsDelivery == Delivery!Spec

-----------------------------------------------------------------------------
(* What the documentation says and the code does not do. *)

(* span.go:339-340 "After finishing the Span object it returns back to the   *)
(* allocator unless the reporter retains it again".                          *)
EveryFinishedSpanReturns ==
  \A s \in Spans :
    s \in pool \/ pc[s] # "idle" \/ userRefs[s] > 0 \/ InQueue(s) \/ InWorker(s)

=============================================================================
