---------------------------- MODULE TraceSampling ----------------------------
(***************************************************************************)
(* The sampling decision of one trace.  All spans of the trace in this     *)
(* process share a samplingState (span_context.go): the flags and the      *)
(* final bit, changed by separate atomic operations.  Goroutines that work *)
(* on different spans consult the sampler and apply its decision           *)
(* concurrently (span.go, tracer.go), through an x.PrioritySampler or a    *)
(* single sampler.                                                         *)
(*                                                                         *)
(* Samplers are abstracted to the decisions they may return at each event. *)
(* Names, tags and logs are reduced to whether a write was kept.           *)
(***************************************************************************)
EXTENDS Integers, Sequences, FiniteSets

CONSTANTS
  Spans, Root,      (* the spans of the trace; Root is the first local one   *)
  Threads,          (* goroutines                                            *)
  Setups            (* the tracers and applications a run considers          *)

PriorityEvents == {"priority0", "priority1"}
TagEvents      == {"tag", "matchingTag"} \cup PriorityEvents
SamplerKinds   == {"legacy", "perOperation", "lateBinding", "tagMatching"}

(* A setup names the samplers in order of priority, whether they sit behind an *)
(* x.PrioritySampler, how the trace may begin (see StartRoot), the calls on a  *)
(* live span besides Finish, and the spans the application starts.             *)
ASSUME TraceAssumption ==
  /\ Root \in Spans
  /\ \A c \in Setups :
       /\ c.delegates \in Seq(SamplerKinds) /\ Len(c.delegates) > 0
       /\ c.prioritised \in BOOLEAN /\ (Len(c.delegates) > 1 => c.prioritised)
       /\ c.starts \subseteq {"new", "debug", "joinSampled", "joinNotSampled"}
       /\ c.events \subseteq {"name", "log"} \cup TagEvents
       /\ c.spans \subseteq Spans

VARIABLES
  setup,            (* the setup, which does not change                      *)
  start,            (* how the trace began                                   *)
  flags, final,     (* samplingState: stateFlags and final (0 or 1)          *)
  finishedBits,     (* samplerFinishedBitmap of the PrioritySampler          *)
  status,           (* of each span: none, starting, live, finishing, done   *)
  called,           (* calls already made on each span (each at most once)   *)
  pc, span, event, idx, decision,     (* of each goroutine                   *)
  kept, refused,    (* writes <<span, event>> that were stored, or not       *)
  logsFixed,        (* finished spans whose logs Finish has completed        *)
  counted,          (* the metric a finished span was counted in             *)
  reported,         (* spans given to the reporter                           *)
  positive,         (* history: some sampler has decided to sample           *)
  sampledAtFinish   (* history: spans whose trace was sampled before Finish  *)

traceVars  == <<flags, final>>
localVars  == <<pc, span, event, idx, decision>>
writeVars  == <<kept, refused>>
finishVars == <<logsFixed, counted, reported, sampledAtFinish>>
setupVars  == <<setup, start>>
vars == <<setupVars, traceVars, finishedBits, status, called, localVars, writeVars,
          finishVars, positive>>

Delegates   == setup.delegates
Prioritised == setup.prioritised

IsSampled  == "sampled" \in flags
setSampled == flags' = flags \cup {"sampled"}

Init ==
  /\ setup \in Setups /\ start = "none"
  /\ flags = {} /\ final = 0 /\ finishedBits = {}
  /\ status = [s \in Spans |-> "none"] /\ called = [s \in Spans |-> {}]
  /\ pc = [t \in Threads |-> "idle"] /\ span = [t \in Threads |-> Root]
  /\ event = [t \in Threads |-> "create"] /\ idx = [t \in Threads |-> 1]
  /\ decision = [t \in Threads |-> "no"]
  /\ kept = {} /\ refused = {}
  /\ logsFixed = {} /\ counted = [s \in Spans |-> "none"] /\ reported = {}
  /\ sampledAtFinish = {}
  /\ positive = FALSE

-----------------------------------------------------------------------------
(* SamplingDecision: Sample and Retryable *)
Positive  == {"sample", "sampleRetry"}
Retryable == {"retry", "sampleRetry"}
Decisions == Positive \cup Retryable \cup {"no"}

(* What a sampler may return at an event of span s.  Only the local root span  *)
(* is really sampled by a perOperation sampler; the others get "not sampled".  *)
Decide(kind, e, s) ==
  CASE kind = "legacy" /\ e \in {"create", "name"}        -> {"sample", "no"}
    [] kind = "perOperation" /\ e \in {"create", "name"}  ->
         IF s = Root THEN {"sample", "no"} ELSE {"no"}
    [] kind = "lateBinding" /\ e = "create"               ->
         IF s = Root THEN {"sampleRetry", "retry"} ELSE {"retry"}
    [] kind = "lateBinding" /\ e = "name"                 ->
         IF s = Root THEN {"sample", "no"} ELSE {"no"}
    [] kind = "tagMatching" /\ e = "matchingTag"          -> {"sample"}
    [] OTHER                                              -> {"retry"}

(* Where a goroutine goes when the sampler has been consulted, or need not be. *)
AfterSampling(e) ==
  CASE e = "create"     -> "started"
    [] e = "name"       -> "idle"
    [] e \in TagEvents  -> "write"
    [] e = "finish"     -> "logs"

(* applySamplingDecision: final first, then sampled. *)
ApplyFrom(d, e) ==
  IF d \notin Retryable THEN "setFinal"
  ELSE IF d \in Positive THEN "setSampled" ELSE AfterSampling(e)

goto(t, label) == pc' = [pc EXCEPT ![t] = label]

ConsultAlways(t, s, e) ==                                        \* mutant
  /\ span' = [span EXCEPT ![t] = s] /\ event' = [event EXCEPT ![t] = e]
  /\ idx' = [idx EXCEPT ![t] = 1] /\ decision' = [decision EXCEPT ![t] = "no"]
  /\ goto(t, "check")

(* A goroutine turns to the sampler, unless the decision is final. *)
ConsultUnlessFinal(t, s, e) ==
  /\ span' = [span EXCEPT ![t] = s] /\ event' = [event EXCEPT ![t] = e]
  /\ idx' = [idx EXCEPT ![t] = 1] /\ decision' = [decision EXCEPT ![t] = "no"]
  /\ goto(t, IF final = 1 THEN AfterSampling(e) ELSE "check")

JoinForgetsFinal(how) ==                                         \* mutant
  /\ flags' = CASE how = "debug"       -> {"debug", "sampled"}
                [] how = "joinSampled" -> {"sampled"}
                [] OTHER               -> {}
  /\ final' = 0

(* The samplingState of the first span: fresh, debug for a debug ID, or taken  *)
(* over from a remote parent, whose decision is final.                         *)
RootState(how) ==
  /\ flags' = CASE how = "debug"       -> {"debug", "sampled"}
                [] how = "joinSampled" -> {"sampled"}
                [] OTHER               -> {}
  /\ final' = IF how \in {"joinSampled", "joinNotSampled"} THEN 1 ELSE 0

(* startSpanWithOptions for the first span of the trace *)
StartRoot(t, how) ==
  /\ start = "none" /\ pc[t] = "idle"
  /\ start' = how
  /\ RootState(how)
  /\ status' = [status EXCEPT ![Root] = "starting"]
  /\ span' = [span EXCEPT ![t] = Root] /\ event' = [event EXCEPT ![t] = "create"]
  /\ idx' = [idx EXCEPT ![t] = 1] /\ decision' = [decision EXCEPT ![t] = "no"]
  /\ goto(t, IF final' = 1 THEN "started" ELSE "check")
  /\ UNCHANGED <<setup, finishedBits, called, writeVars, finishVars, positive>>

(* startSpanWithOptions for a child of a local span shares its state. *)
StartSpan(t, s) ==
  /\ pc[t] = "idle" /\ status[s] = "none"
  /\ \E p \in Spans : status[p] = "live"
  /\ status' = [status EXCEPT ![s] = "starting"]
  /\ ConsultUnlessFinal(t, s, "create")
  /\ UNCHANGED <<setupVars, traceVars, finishedBits, called, writeVars, finishVars, positive>>

Started(t) ==
  /\ pc[t] = "started"
  /\ status' = [status EXCEPT ![span[t]] = "live"]
  /\ goto(t, "idle")
  /\ UNCHANGED <<setupVars, traceVars, finishedBits, called, span, event, idx, decision,
                 writeVars, finishVars, positive>>

(* SetOperationName and SetTag.  A sampling.priority tag changes the state     *)
(* before the sampler is consulted.                                            *)
Begin(t, s, e) ==
  /\ pc[t] = "idle" /\ status[s] = "live" /\ e \notin called[s] /\ e # "log"
  /\ called' = [called EXCEPT ![s] = @ \cup {e}]
  /\ IF e \in PriorityEvents
     THEN /\ span' = [span EXCEPT ![t] = s] /\ event' = [event EXCEPT ![t] = e]
          /\ goto(t, "priority")
          /\ UNCHANGED <<idx, decision>>
     ELSE ConsultUnlessFinal(t, s, e)
  /\ UNCHANGED <<setupVars, traceVars, finishedBits, status, writeVars, finishVars, positive>>

(* setSamplingPriority: 0 resets sampled; otherwise sampled is set, with debug *)
(* unless noDebugFlagOnForcedSampling; a throttled debug leaves everything.    *)
SetPriority(t) ==
  /\ pc[t] = "priority"
  /\ \/ /\ event[t] = "priority0"
        /\ flags' = flags \ {"sampled"}
        /\ goto(t, "priorityFinal") /\ UNCHANGED refused
     \/ /\ event[t] = "priority1"
        /\ \E newFlags \in {{"sampled"}, {"sampled", "debug"}} : flags' = flags \cup newFlags
        /\ goto(t, "priorityFinal") /\ UNCHANGED refused
     \/ /\ event[t] = "priority1"
        /\ refused' = refused \cup {<<span[t], event[t]>>}
        /\ goto(t, "idle") /\ UNCHANGED flags
  /\ UNCHANGED <<setupVars, final, finishedBits, status, called, span, event, idx, decision,
                 kept, finishVars, positive>>

(* The decision is final now, so that SetTag goes on to write the tag. *)
SetPriorityFinal(t) ==
  /\ pc[t] = "priorityFinal"
  /\ final' = 1
  /\ goto(t, "write")
  /\ UNCHANGED <<setupVars, flags, finishedBits, status, called, span, event, idx, decision,
                 writeVars, finishVars, positive>>

-----------------------------------------------------------------------------
(* On to the next delegate with what has been decided so far, or to apply it. *)
Advance(t, d) ==
  /\ decision' = [decision EXCEPT ![t] = d]
  /\ IF idx[t] < Len(Delegates)
     THEN idx' = [idx EXCEPT ![t] = @ + 1] /\ goto(t, "check")
     ELSE UNCHANGED idx /\ goto(t, ApplyFrom(d, event[t]))

(* trySampling: a delegate whose bit is set is not called. *)
Check(t) ==
  /\ pc[t] = "check"
  /\ IF Prioritised /\ idx[t] \in finishedBits
     THEN Advance(t, decision[t])
     ELSE goto(t, "call") /\ UNCHANGED <<idx, decision>>
  /\ UNCHANGED <<setupVars, traceVars, finishedBits, status, called, span, event,
                 writeVars, finishVars, positive>>

LastRetryable(before, d) == d                                    \* mutant

(* retryable = retryable || decision.Retryable *)
AnyRetryable(before, d) == IF d \in Retryable THEN d ELSE before

(* The delegate decides and is marked as finished unless it may be retried. *)
Call(t) ==
  /\ pc[t] = "call"
  /\ \E d \in Decide(Delegates[idx[t]], event[t], span[t]) :
       /\ finishedBits' = IF Prioritised /\ d \notin Retryable
                          THEN finishedBits \cup {idx[t]} ELSE finishedBits
       /\ positive' = (positive \/ d \in Positive)
       /\ IF d \in Positive
          THEN /\ decision' = [decision EXCEPT ![t] = d]
               /\ goto(t, ApplyFrom(d, event[t])) /\ UNCHANGED idx
          ELSE Advance(t, AnyRetryable(decision[t], d))
  /\ UNCHANGED <<setupVars, traceVars, status, called, span, event, writeVars, finishVars>>

SetFinal(t) ==
  /\ pc[t] = "setFinal"
  /\ final' = 1
  /\ goto(t, IF decision[t] \in Positive THEN "setSampled" ELSE AfterSampling(event[t]))
  /\ UNCHANGED <<setupVars, flags, finishedBits, status, called, span, event, idx, decision,
                 writeVars, finishVars, positive>>

SetSampledUnlessFinal(t) ==                                      \* mutant
  /\ pc[t] = "setSampled"
  /\ IF final = 0 THEN setSampled ELSE UNCHANGED flags
  /\ goto(t, AfterSampling(event[t]))
  /\ UNCHANGED <<setupVars, final, finishedBits, status, called, span, event, idx, decision,
                 writeVars, finishVars, positive>>

SetSampled(t) ==
  /\ pc[t] = "setSampled"
  /\ setSampled
  /\ goto(t, AfterSampling(event[t]))
  /\ UNCHANGED <<setupVars, final, finishedBits, status, called, span, event, idx, decision,
                 writeVars, finishVars, positive>>

-----------------------------------------------------------------------------
Write(s, e, stored) ==
  /\ kept'    = IF stored THEN kept \cup {<<s, e>>} ELSE kept
  /\ refused' = IF stored THEN refused ELSE refused \cup {<<s, e>>}

(* isWriteable reads the final bit and then, if it is set, the flags. *)
WriteTag(t) ==
  /\ pc[t] = "write"
  /\ IF final = 0
     THEN Write(span[t], event[t], TRUE) /\ goto(t, "idle")
     ELSE UNCHANGED writeVars /\ goto(t, "writeIfSampled")
  /\ UNCHANGED <<setupVars, traceVars, finishedBits, status, called, span, event, idx, decision,
                 finishVars, positive>>

WriteTagIfSampled(t) ==
  /\ pc[t] = "writeIfSampled"
  /\ Write(span[t], event[t], IsSampled)
  /\ goto(t, "idle")
  /\ UNCHANGED <<setupVars, traceVars, finishedBits, status, called, span, event, idx, decision,
                 finishVars, positive>>

(* Log, LogFields: kept if the trace is sampled, under the span's lock. *)
Log(t, s) ==
  /\ pc[t] = "idle" /\ status[s] = "live" /\ "log" \notin called[s]
  /\ called' = [called EXCEPT ![s] = @ \cup {"log"}]
  /\ Write(s, "log", IsSampled)
  /\ UNCHANGED <<setupVars, traceVars, finishedBits, status, localVars, finishVars, positive>>

-----------------------------------------------------------------------------
(* FinishWithOptions; the application calls it last. *)
Finish(t, s) ==
  /\ pc[t] = "idle" /\ status[s] = "live"
  /\ \A u \in Threads : span[u] = s => pc[u] = "idle"
  /\ status' = [status EXCEPT ![s] = "finishing"]
  /\ sampledAtFinish' = IF IsSampled THEN sampledAtFinish \cup {s} ELSE sampledAtFinish
  /\ ConsultUnlessFinal(t, s, "finish")
  /\ UNCHANGED <<setupVars, traceVars, finishedBits, called, writeVars, logsFixed, counted,
                 reported, positive>>

FixLogs(t) ==
  /\ pc[t] = "logs"
  /\ logsFixed' = IF IsSampled THEN logsFixed \cup {span[t]} ELSE logsFixed
  /\ goto(t, "count")
  /\ UNCHANGED <<setupVars, traceVars, finishedBits, status, called, span, event, idx, decision,
                 writeVars, counted, reported, sampledAtFinish, positive>>

(* reportSpan: the metric reads the final bit, then the flags. *)
CountDelayed(t) ==
  /\ pc[t] = "count"
  /\ IF final = 0
     THEN counted' = [counted EXCEPT ![span[t]] = "delayed"] /\ goto(t, "report")
     ELSE UNCHANGED counted /\ goto(t, "countFinal")
  /\ UNCHANGED <<setupVars, traceVars, finishedBits, status, called, span, event, idx, decision,
                 writeVars, logsFixed, reported, sampledAtFinish, positive>>

CountFinal(t) ==
  /\ pc[t] = "countFinal"
  /\ counted' = [counted EXCEPT ![span[t]] = IF IsSampled THEN "sampled" ELSE "notSampled"]
  /\ goto(t, "report")
  /\ UNCHANGED <<setupVars, traceVars, finishedBits, status, called, span, event, idx, decision,
                 writeVars, logsFixed, reported, sampledAtFinish, positive>>

ReportFinalOnly(t) ==                                            \* mutant
  /\ pc[t] = "report"
  /\ reported' = IF IsSampled /\ final = 1 THEN reported \cup {span[t]} ELSE reported
  /\ status' = [status EXCEPT ![span[t]] = "done"]
  /\ goto(t, "idle")
  /\ UNCHANGED <<setupVars, traceVars, finishedBits, called, span, event, idx, decision,
                 writeVars, logsFixed, counted, sampledAtFinish, positive>>

Report(t) ==
  /\ pc[t] = "report"
  /\ reported' = IF IsSampled THEN reported \cup {span[t]} ELSE reported
  /\ status' = [status EXCEPT ![span[t]] = "done"]
  /\ goto(t, "idle")
  /\ UNCHANGED <<setupVars, traceVars, finishedBits, called, span, event, idx, decision,
                 writeVars, logsFixed, counted, sampledAtFinish, positive>>

Step(t) ==
  \/ Started(t) \/ SetPriority(t) \/ SetPriorityFinal(t)
  \/ Check(t) \/ Call(t) \/ SetFinal(t) \/ SetSampled(t)
  \/ WriteTag(t) \/ WriteTagIfSampled(t)
  \/ FixLogs(t) \/ CountDelayed(t) \/ CountFinal(t) \/ Report(t)

Next ==
  \E t \in Threads :
    \/ \E how \in setup.starts : StartRoot(t, how)
    \/ \E s \in setup.spans \ {Root} : StartSpan(t, s)
    \/ \E s \in Spans : Finish(t, s) \/ \E e \in setup.events : Begin(t, s, e)
    \/ \E s \in Spans : "log" \in setup.events /\ Log(t, s)
    \/ Step(t)

Spec == Init /\ [][Next]_vars

-----------------------------------------------------------------------------
Labels == {"idle", "started", "priority", "priorityFinal", "check", "call", "setFinal",
           "setSampled", "write", "writeIfSampled", "logs", "count", "countFinal", "report"}

TypeOK ==
  /\ setup \in Setups /\ start \in setup.starts \cup {"none"}
  /\ flags \subseteq {"sampled", "debug"} /\ final \in {0, 1}
  /\ finishedBits \subseteq 1..Len(Delegates)
  /\ status \in [Spans -> {"none", "starting", "live", "finishing", "done"}]
  /\ called \in [Spans -> SUBSET setup.events]
  /\ pc \in [Threads -> Labels] /\ span \in [Threads -> Spans]
  /\ event \in [Threads -> setup.events \cup {"create", "finish"}]
  /\ idx \in [Threads -> 1..Len(Delegates)] /\ decision \in [Threads -> Decisions]
  /\ kept \subseteq Spans \X setup.events /\ refused \subseteq Spans \X setup.events
  /\ logsFixed \subseteq Spans /\ reported \subseteq Spans
  /\ counted \in [Spans -> {"none", "delayed", "sampled", "notSampled"}]

(* The application forced the trace out of sampling. *)
Unforced == \A s \in Spans : "priority0" \notin called[s]

Applying(t) == pc[t] \in {"setFinal", "setSampled"} /\ decision[t] \in Positive

(* A positive decision of any sampler, at any span, is never lost to another   *)
(* goroutine's negative one: once applied, the trace stays sampled             *)
(* (applySamplingDecision, setFlag).                                           *)
PositiveSticks ==
  positive /\ Unforced => IsSampled \/ \E t \in Threads : Applying(t)

(* A decision that is final and negative means that every delegate had said    *)
(* that it must not be asked again, or that the application said priority 0    *)
(* (PrioritySampler.trySampling, whose retryable is the disjunction).          *)
NegativeIsUnanimous ==
  (/\ Prioritised /\ start \in {"new", "debug"}
   /\ Unforced /\ \A t \in Threads : ~Applying(t)
   /\ final = 1 /\ ~IsSampled)
  => finishedBits = DOMAIN Delegates

(* A span that is finished after its trace was sampled is reported, with its   *)
(* logs completed, and never counted as not sampled, whatever other spans of   *)
(* the trace do meanwhile (FinishWithOptions, reportSpan).                     *)
SampledSpansReported ==
  \A s \in sampledAtFinish :
    status[s] = "done" /\ Unforced =>
      s \in reported /\ s \in logsFixed /\ counted[s] # "notSampled"

(* A trace joined from a remote parent keeps the parent's decision: no local   *)
(* sampler is consulted about it (startSpanWithOptions, parent.remote).        *)
RemoteDecisionKept ==
  start \in {"joinSampled", "joinNotSampled"}
  => /\ \A t \in Threads : pc[t] \notin {"check", "call"}
     /\ (\A s \in Spans : called[s] \cap PriorityEvents = {})
           => (IsSampled <=> start = "joinSampled")

(* With samplers that decide at creation the whole trace is treated alike: no  *)
(* span is reported while another is not, no write is kept while another is    *)
(* refused, and no span is counted as delayed (legacySamplerV1Base).           *)
DecidedOnce ==
  (\A i \in DOMAIN Delegates : Delegates[i] = "legacy") /\
  Unforced /\ (\A s \in Spans : "priority1" \notin called[s]) =>
    /\ \A s \in Spans : status[s] = "done" => (s \in reported <=> IsSampled)
    /\ (kept # {} => IsSampled) /\ (refused # {} => ~IsSampled)
    /\ \A s \in Spans : counted[s] # "delayed"

(* span_context.go, line 274: "Span can be written to if it is sampled or the  *)
(* sampling decision has not been finalized", so that in a trace that no       *)
(* sampler rejects and that ends up sampled no tag is refused.                 *)
TagsOfSampledTraceKept ==
  positive /\ IsSampled /\ (\A s \in Spans : called[s] \cap PriorityEvents = {})
  => \A w \in refused : w[2] \notin TagEvents

(* span_context.go, lines 83 and 84: "When state is not final, sampling will   *)
(* be retried on other span write operations [...], and the spans will remain  *)
(* writable", logs included.                                                   *)
OpenTraceWritable == [][final = 0 => refused' = refused]_vars

=============================================================================
