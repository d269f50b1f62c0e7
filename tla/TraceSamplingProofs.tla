------------------------- MODULE TraceSamplingProofs -------------------------
(***************************************************************************)
(* Theorems about TraceSampling for any spans, any goroutines, any number  *)
(* of samplers in any order and any setups.                                *)
(***************************************************************************)
EXTENDS TraceSampling, TLAPS

Events == {"create", "finish", "name"} \cup TagEvents

(* What is left of an event when the sampler is done fits the event. *)
LEMMA AfterFits ==
  ASSUME NEW e \in Events
  PROVE  /\ AfterSampling(e) \in {"started", "idle", "write", "logs"}
         /\ AfterSampling(e) = "started" => e = "create"
         /\ AfterSampling(e) = "write" => e \in TagEvents
         /\ AfterSampling(e) = "logs" => e = "finish"
BY DEF AfterSampling, Events, TagEvents, PriorityEvents

LEMMA AfterCreate == AfterSampling("create") = "started"
BY DEF AfterSampling, TagEvents, PriorityEvents

LEMMA ApplyFits ==
  ASSUME NEW d \in Decisions, NEW e
  PROVE  /\ ApplyFrom(d, e) \in {"setFinal", "setSampled", AfterSampling(e)}
         /\ d \in Positive => ApplyFrom(d, e) \in {"setFinal", "setSampled"}
BY DEF ApplyFrom, Decisions, Positive, Retryable

LEMMA DecideType ==
  ASSUME NEW kind, NEW e, NEW s
  PROVE  Decide(kind, e, s) \subseteq Decisions
BY DEF Decide, Decisions, Positive, Retryable

-----------------------------------------------------------------------------
(* A goroutine's position fits the event it works on. *)
Proper ==
  \A t \in Threads :
    /\ event[t] # "log"
    /\ pc[t] = "started" => event[t] = "create"
    /\ pc[t] \in {"logs", "count", "countFinal", "report"} => event[t] = "finish"
    /\ pc[t] = "priority" => event[t] \in PriorityEvents
    /\ pc[t] \in {"priority", "priorityFinal", "write", "writeIfSampled"} =>
         event[t] \in TagEvents

TypeInv ==
  /\ TypeOK /\ Proper
  /\ positive \in BOOLEAN /\ sampledAtFinish \subseteq Spans

(* The setup is one of those the assumption speaks of. *)
LEMMA SetupFits ==
  ASSUME TypeInv
  PROVE  /\ Len(Delegates) \in Nat \ {0} /\ 1 \in 1..Len(Delegates)
         /\ setup.starts \subseteq {"new", "debug", "joinSampled", "joinNotSampled"}
         /\ setup.events \subseteq {"name", "log"} \cup TagEvents
         /\ setup.spans \subseteq Spans /\ Root \in Spans
         /\ \A t \in Threads : event[t] \in Events
<1>1. setup \in Setups
  BY DEF TypeInv, TypeOK
<1>2. Len(Delegates) \in Nat \ {0}
  BY <1>1, TraceAssumption DEF Delegates
<1>3. setup.events \subseteq {"name", "log"} \cup TagEvents
  BY <1>1, TraceAssumption
<1>4. \A t \in Threads : event[t] \in Events
  BY <1>3 DEF TypeInv, TypeOK, Proper, Events
<1> QED
  BY <1>1, <1>2, <1>3, <1>4, TraceAssumption

LEMMA InitType == Init => TypeInv
<1> SUFFICES ASSUME Init PROVE TypeInv
  OBVIOUS
<1>1. setup \in Setups /\ Len(Delegates) \in Nat \ {0} /\ Root \in Spans
  BY TraceAssumption DEF Init, Delegates
<1>2. /\ pc \in [Threads -> Labels] /\ span \in [Threads -> Spans]
      /\ event \in [Threads -> setup.events \cup {"create", "finish"}]
      /\ idx \in [Threads -> 1..Len(Delegates)] /\ decision \in [Threads -> Decisions]
  BY <1>1 DEF Init, Labels, Decisions
<1>3. /\ status \in [Spans -> {"none", "starting", "live", "finishing", "done"}]
      /\ called \in [Spans -> SUBSET setup.events]
      /\ counted \in [Spans -> {"none", "delayed", "sampled", "notSampled"}]
  BY DEF Init
<1>4. Proper
  BY DEF Init, Proper
<1>5. positive \in BOOLEAN
  BY DEF Init
<1> QED
  BY <1>1, <1>2, <1>3, <1>4, <1>5 DEF Init, TypeInv, TypeOK

(* Consulting the sampler or passing it by leaves a goroutine well typed. *)
LEMMA ConsultType ==
  ASSUME TypeInv, NEW t \in Threads, NEW s \in Spans, NEW e \in Events,
         e \in setup.events \cup {"create", "finish"}, e \notin PriorityEvents,
         setup' = setup, ConsultUnlessFinal(t, s, e)
  PROVE  /\ pc' \in [Threads -> Labels] /\ span' \in [Threads -> Spans]
         /\ event' \in [Threads -> setup.events \cup {"create", "finish"}]
         /\ idx' \in [Threads -> 1..Len(Delegates)] /\ decision' \in [Threads -> Decisions]
         /\ Proper'
<1> USE DEF TypeInv, TypeOK, ConsultUnlessFinal, goto
<1>1. idx' \in [Threads -> 1..Len(Delegates)]
  BY SetupFits
<1>2. decision' \in [Threads -> Decisions]
  BY DEF Decisions
<1>3. pc' \in [Threads -> Labels]
  BY AfterFits DEF Labels
<1>4. Proper'
  BY AfterFits DEF Proper, Events, TagEvents, PriorityEvents
<1> QED
  BY <1>1, <1>2, <1>3, <1>4

(* So does going on to the next sampler or applying the decision. *)
LEMMA AdvanceType ==
  ASSUME TypeInv, NEW t \in Threads, NEW d \in Decisions, Advance(t, d),
         UNCHANGED <<setup, span, event>>
  PROVE  /\ pc' \in [Threads -> Labels]
         /\ idx' \in [Threads -> 1..Len(Delegates)] /\ decision' \in [Threads -> Decisions]
         /\ Proper'
<1> USE DEF TypeInv, TypeOK, Advance, goto
<1>1. event[t] \in Events
  BY SetupFits
<1>2. idx' \in [Threads -> 1..Len(Delegates)]
  BY SetupFits
<1>3. decision' \in [Threads -> Decisions]
  OBVIOUS
<1>4. pc' \in [Threads -> Labels]
  <2>1. ApplyFrom(d, event[t]) \in Labels
    BY <1>1, AfterFits, ApplyFits DEF Labels
  <2>2. "check" \in Labels
    BY DEF Labels
  <2>3. \/ pc' = [pc EXCEPT ![t] = "check"]
        \/ pc' = [pc EXCEPT ![t] = ApplyFrom(d, event[t])]
    OBVIOUS
  <2> QED
    BY <2>1, <2>2, <2>3
<1>5. Proper'
  BY <1>1, AfterFits, ApplyFits DEF Proper
<1> QED
  BY <1>2, <1>3, <1>4, <1>5

(* The steps of a goroutine that works on an event keep all types. *)
LEMMA StepType ==
  ASSUME TypeInv, NEW t \in Threads, Step(t)
  PROVE  TypeInv'
<1> USE DEF TypeInv, TypeOK
<1> USE DEF setupVars, traceVars, localVars, writeVars, finishVars, goto, Delegates
<1>1. event[t] \in Events
  BY SetupFits
<1>2. CASE Started(t)
  BY <1>2 DEF Started, Proper, Labels
<1>3. CASE SetPriority(t)
  <2>1. event[t] \in PriorityEvents /\ event[t] \in setup.events
    BY <1>3, SetupFits DEF SetPriority, Proper, PriorityEvents
  <2>2. pc' \in [Threads -> Labels] /\ Proper'
    <3>1. /\ pc[t] = "priority" /\ event' = event
          /\ \E label \in {"priorityFinal", "idle"} : pc' = [pc EXCEPT ![t] = label]
      BY <1>3 DEF SetPriority
    <3>2. pc' \in [Threads -> Labels]
      BY <3>1 DEF Labels
    <3>3. \A u \in Threads : pc'[u] = pc[u] \/ (u = t /\ pc'[u] \in {"priorityFinal", "idle"})
      BY <3>1
    <3>4. Proper'
      BY <3>1, <3>3 DEF Proper
    <3> QED
      BY <3>2, <3>4
  <2>3. flags' \subseteq {"sampled", "debug"}
    BY <1>3 DEF SetPriority
  <2>4. refused' \subseteq Spans \X setup.events
    BY <1>3, <2>1 DEF SetPriority
  <2> QED
    BY <1>3, <2>2, <2>3, <2>4 DEF SetPriority
<1>4. CASE SetPriorityFinal(t)
  BY <1>4 DEF SetPriorityFinal, Proper, Labels
<1>5. CASE Check(t)
  <2>1. CASE Advance(t, decision[t])
    BY <1>5, <2>1, AdvanceType DEF Check
  <2>2. CASE goto(t, "call") /\ UNCHANGED <<idx, decision>>
    BY <1>5, <2>2 DEF Check, Proper, Labels
  <2> QED
    BY <1>5, <2>1, <2>2 DEF Check
<1>6. CASE Call(t)
  <2>1. PICK d \in Decide(Delegates[idx[t]], event[t], span[t]) :
          /\ finishedBits' = IF Prioritised /\ d \notin Retryable
                             THEN finishedBits \cup {idx[t]} ELSE finishedBits
          /\ positive' = (positive \/ d \in Positive)
          /\ IF d \in Positive
             THEN /\ decision' = [decision EXCEPT ![t] = d]
                  /\ goto(t, ApplyFrom(d, event[t])) /\ UNCHANGED idx
             ELSE Advance(t, AnyRetryable(decision[t], d))
    BY <1>6 DEF Call
  <2>2. d \in Decisions
    BY DecideType
  <2>3. /\ UNCHANGED <<setupVars, traceVars, status, called, span, event, writeVars, finishVars>>
    BY <1>6 DEF Call
  <2>4. positive' \in BOOLEAN
    BY <2>1
  <2>5. finishedBits' \subseteq 1..Len(Delegates)
    BY <2>1
  <2>6. /\ pc' \in [Threads -> Labels] /\ Proper'
        /\ idx' \in [Threads -> 1..Len(Delegates)] /\ decision' \in [Threads -> Decisions]
    <3>1. CASE d \in Positive
      <4>1. ApplyFrom(d, event[t]) \in {"setFinal", "setSampled"}
        BY <2>2, <3>1, ApplyFits
      <4>2. pc' \in [Threads -> Labels] /\ Proper'
        BY <2>1, <2>3, <3>1, <4>1 DEF Proper, Labels
      <4>3. idx' = idx /\ decision' = [decision EXCEPT ![t] = d]
        BY <2>1, <3>1
      <4> QED
        BY <2>2, <2>3, <4>2, <4>3
    <3>2. CASE d \notin Positive
      <4>1. AnyRetryable(decision[t], d) \in Decisions
        BY <2>2 DEF AnyRetryable
      <4> QED
        BY <2>1, <2>3, <3>2, <4>1, AdvanceType
    <3> QED
      BY <3>1, <3>2
  <2> QED
    BY <2>3, <2>4, <2>5, <2>6
<1>7. CASE SetFinal(t)
  <2>1. pc' \in [Threads -> Labels] /\ Proper'
    BY <1>1, <1>7, AfterFits DEF SetFinal, Proper, Labels
  <2> QED
    BY <1>7, <2>1 DEF SetFinal
<1>8. CASE SetSampled(t)
  <2>1. pc' \in [Threads -> Labels] /\ Proper'
    BY <1>1, <1>8, AfterFits DEF SetSampled, Proper, Labels
  <2> QED
    BY <1>8, <2>1 DEF SetSampled, setSampled
<1>9. CASE WriteTag(t) \/ WriteTagIfSampled(t)
  <2>1. pc' \in [Threads -> Labels] /\ Proper'
    <3>1. /\ pc[t] \in {"write", "writeIfSampled"} /\ event' = event
          /\ \E label \in {"writeIfSampled", "idle"} : pc' = [pc EXCEPT ![t] = label]
      BY <1>9 DEF WriteTag, WriteTagIfSampled
    <3>2. pc' \in [Threads -> Labels]
      BY <3>1 DEF Labels
    <3>3. \A u \in Threads : pc'[u] = pc[u] \/ (u = t /\ pc'[u] \in {"writeIfSampled", "idle"})
      BY <3>1
    <3>4. Proper'
      BY <3>1, <3>3 DEF Proper
    <3> QED
      BY <3>2, <3>4
  <2>2. pc[t] \in {"write", "writeIfSampled"} /\ event[t] \in setup.events
    BY <1>9 DEF WriteTag, WriteTagIfSampled, Proper, TagEvents, PriorityEvents
  <2>3. kept' \subseteq Spans \X setup.events /\ refused' \subseteq Spans \X setup.events
    BY <1>9, <2>2 DEF WriteTag, WriteTagIfSampled, Write
  <2> QED
    BY <1>9, <2>1, <2>3 DEF WriteTag, WriteTagIfSampled
<1>10. CASE FixLogs(t) \/ CountDelayed(t) \/ CountFinal(t) \/ Report(t)
  <2>1. /\ pc[t] \in {"logs", "count", "countFinal", "report"}
        /\ \E label \in {"count", "countFinal", "report", "idle"} : goto(t, label)
        /\ UNCHANGED <<setupVars, traceVars, finishedBits, called, span, event, idx,
                       decision, writeVars, sampledAtFinish, positive>>
    BY <1>10 DEF FixLogs, CountDelayed, CountFinal, Report
  <2>2. pc' \in [Threads -> Labels] /\ Proper'
    BY <2>1 DEF Proper, Labels
  <2>3. status' \in [Spans -> {"none", "starting", "live", "finishing", "done"}]
    BY <1>10 DEF FixLogs, CountDelayed, CountFinal, Report
  <2>4. counted' \in [Spans -> {"none", "delayed", "sampled", "notSampled"}]
    BY <1>10 DEF FixLogs, CountDelayed, CountFinal, Report
  <2>5. logsFixed' \subseteq Spans /\ reported' \subseteq Spans
    BY <1>10 DEF FixLogs, CountDelayed, CountFinal, Report
  <2> QED
    BY <2>1, <2>2, <2>3, <2>4, <2>5
<1> QED
  BY <1>2, <1>3, <1>4, <1>5, <1>6, <1>7, <1>8, <1>9, <1>10 DEF Step

(* Every action leaves the variables well typed. *)
LEMMA NextType == TypeInv /\ [Next]_vars => TypeInv'
<1> SUFFICES ASSUME TypeInv, [Next]_vars PROVE TypeInv'
  OBVIOUS
<1> USE DEF setupVars, traceVars, localVars, writeVars, finishVars, Delegates
<1>1. ASSUME NEW t \in Threads, NEW how \in setup.starts, StartRoot(t, how) PROVE TypeInv'
  <2>1. how # "none" /\ Root \in Spans
    BY SetupFits
  <2>2. pc' \in [Threads -> Labels] /\ idx' \in [Threads -> 1..Len(Delegates)]
    BY <1>1, SetupFits DEF TypeInv, TypeOK, StartRoot, goto, Labels
  <2>3. decision' \in [Threads -> Decisions] /\ Proper'
    BY <1>1 DEF TypeInv, TypeOK, Proper, StartRoot, goto, Decisions
  <2>4. flags' \subseteq {"sampled", "debug"} /\ final' \in {0, 1}
    BY <1>1 DEF StartRoot, RootState
  <2> QED
    BY <1>1, <2>1, <2>2, <2>3, <2>4 DEF TypeInv, TypeOK, StartRoot
<1>2. ASSUME NEW t \in Threads, NEW s \in Spans, StartSpan(t, s) PROVE TypeInv'
  <2>1. "create" \in Events /\ "create" \notin PriorityEvents
    BY DEF Events, PriorityEvents
  <2> QED
    BY <1>2, <2>1, ConsultType DEF TypeInv, TypeOK, StartSpan
<1>3. ASSUME NEW t \in Threads, NEW s \in Spans, Finish(t, s) PROVE TypeInv'
  <2>1. "finish" \in Events /\ "finish" \notin PriorityEvents
    BY DEF Events, PriorityEvents
  <2> QED
    BY <1>3, <2>1, ConsultType DEF TypeInv, TypeOK, Finish
<1>4. ASSUME NEW t \in Threads, NEW s \in Spans, NEW e \in setup.events, Begin(t, s, e)
      PROVE  TypeInv'
  <2>1. e \in Events
    BY <1>4, SetupFits DEF Begin, Events
  <2>2. called' \in [Spans -> SUBSET setup.events]
    BY <1>4 DEF TypeInv, TypeOK, Begin
  <2>3. CASE e \in PriorityEvents
    <3>1. pc' \in [Threads -> Labels] /\ Proper'
      <4>1. pc' = [pc EXCEPT ![t] = "priority"] /\ event' = [event EXCEPT ![t] = e]
        BY <1>4, <2>3 DEF Begin, goto
      <4>2. pc' \in [Threads -> Labels]
        BY <4>1 DEF TypeInv, TypeOK, Labels
      <4>3. e \in TagEvents /\ e # "log"
        BY <2>3 DEF TagEvents, PriorityEvents
      <4>4. \A u \in Threads : pc'[u] = (IF u = t THEN "priority" ELSE pc[u])
                              /\ event'[u] = (IF u = t THEN e ELSE event[u])
        BY <4>1 DEF TypeInv, TypeOK
      <4>5. Proper'
        BY <2>3, <4>3, <4>4 DEF TypeInv, Proper
      <4> QED
        BY <4>2, <4>5
    <3>2. UNCHANGED <<setupVars, traceVars, finishedBits, status, writeVars, finishVars,
                      positive, idx, decision>>
      BY <1>4, <2>3 DEF Begin
    <3>3. span' \in [Threads -> Spans]
      BY <1>4, <2>3 DEF TypeInv, TypeOK, Begin
    <3>4. event' \in [Threads -> setup.events \cup {"create", "finish"}]
      BY <1>4, <2>3 DEF TypeInv, TypeOK, Begin
    <3> QED
      BY <2>2, <3>1, <3>2, <3>3, <3>4 DEF TypeInv, TypeOK
  <2>4. CASE e \notin PriorityEvents
    BY <1>4, <2>1, <2>2, <2>4, ConsultType DEF TypeInv, TypeOK, Begin
  <2> QED
    BY <2>3, <2>4
<1>5. ASSUME NEW t \in Threads, NEW s \in Spans, "log" \in setup.events, Log(t, s)
      PROVE  TypeInv'
  BY <1>5 DEF TypeInv, TypeOK, Log, Write, Proper
<1>6. CASE UNCHANGED vars
  BY <1>6 DEF TypeInv, TypeOK, Proper, vars
<1>7. setup.spans \subseteq Spans
  BY SetupFits
<1> QED
  BY <1>1, <1>2, <1>3, <1>4, <1>5, <1>6, <1>7, StepType DEF Next

(* All variables keep values of their types, whatever the setup. *)
THEOREM TypeCorrect == Spec => []TypeOK
<1>1. TypeInv => TypeOK
  BY DEF TypeInv
<1> QED
  BY <1>1, InitType, NextType, PTL DEF Spec

-----------------------------------------------------------------------------
(* A step of the system is a step of some goroutine t. *)
Acts(t) ==
  \/ \E how \in setup.starts : StartRoot(t, how)
  \/ \E s \in setup.spans \ {Root} : StartSpan(t, s)
  \/ \E s \in Spans : Finish(t, s) \/ \E e \in setup.events : Begin(t, s, e)
  \/ \E s \in Spans : "log" \in setup.events /\ Log(t, s)
  \/ Step(t)

LEMMA NextActs == [Next]_vars => (\E t \in Threads : Acts(t)) \/ UNCHANGED vars
BY DEF Next, Acts

(* It leaves every other goroutine where it is. *)
LEMMA OthersRest ==
  ASSUME TypeInv, NEW t \in Threads, Acts(t), NEW u \in Threads \ {t}
  PROVE  /\ pc'[u] = pc[u] /\ span'[u] = span[u] /\ event'[u] = event[u]
         /\ idx'[u] = idx[u] /\ decision'[u] = decision[u]
<1> USE DEF TypeInv, TypeOK, goto, ConsultUnlessFinal
<1>1. ASSUME NEW how, StartRoot(t, how)
      PROVE  /\ pc'[u] = pc[u] /\ span'[u] = span[u] /\ event'[u] = event[u]
             /\ idx'[u] = idx[u] /\ decision'[u] = decision[u]
  BY <1>1 DEF StartRoot
<1>2. ASSUME NEW s, StartSpan(t, s)
      PROVE  /\ pc'[u] = pc[u] /\ span'[u] = span[u] /\ event'[u] = event[u]
             /\ idx'[u] = idx[u] /\ decision'[u] = decision[u]
  BY <1>2 DEF StartSpan
<1>3. ASSUME NEW s, Finish(t, s)
      PROVE  /\ pc'[u] = pc[u] /\ span'[u] = span[u] /\ event'[u] = event[u]
             /\ idx'[u] = idx[u] /\ decision'[u] = decision[u]
  BY <1>3 DEF Finish
<1>4. ASSUME NEW s, NEW e, Begin(t, s, e)
      PROVE  /\ pc'[u] = pc[u] /\ span'[u] = span[u] /\ event'[u] = event[u]
             /\ idx'[u] = idx[u] /\ decision'[u] = decision[u]
  BY <1>4 DEF Begin
<1>5. ASSUME NEW s, Log(t, s)
      PROVE  /\ pc'[u] = pc[u] /\ span'[u] = span[u] /\ event'[u] = event[u]
             /\ idx'[u] = idx[u] /\ decision'[u] = decision[u]
  BY <1>5 DEF Log, localVars
<1>6. CASE Check(t) \/ Call(t)
  BY <1>6 DEF Check, Call, Advance
<1>7. CASE Step(t) /\ ~(Check(t) \/ Call(t))
  BY <1>7 DEF Step, Started, SetPriority, SetPriorityFinal, SetFinal, SetSampled, WriteTag,
     WriteTagIfSampled, FixLogs, CountDelayed, CountFinal, Report
<1> QED
  BY <1>1, <1>2, <1>3, <1>4, <1>5, <1>6, <1>7 DEF Acts, Step

(* Who changes the start, the decision and what is known of the samplers. *)
LEMMA ChangedBy ==
  ASSUME NEW t \in Threads, Acts(t)
  PROVE  /\ start' = start \/ \E how \in setup.starts : StartRoot(t, how)
         /\ \/ flags' = flags \/ SetPriority(t) \/ SetSampled(t)
            \/ \E how \in setup.starts : StartRoot(t, how)
         /\ \/ final' = final \/ SetPriorityFinal(t) \/ SetFinal(t)
            \/ \E how \in setup.starts : StartRoot(t, how)
         /\ (finishedBits' = finishedBits /\ positive' = positive) \/ Call(t)
<1> USE DEF setupVars, traceVars
<1>1. ASSUME NEW how, StartRoot(t, how)
      PROVE  finishedBits' = finishedBits /\ positive' = positive
  BY <1>1 DEF StartRoot
<1>2. ASSUME NEW s,
             StartSpan(t, s) \/ Finish(t, s) \/ (\E e \in setup.events : Begin(t, s, e)) \/ Log(t, s)
      PROVE  UNCHANGED <<start, flags, final, finishedBits, positive>>
  <2>1. CASE StartSpan(t, s)
    BY <2>1 DEF StartSpan
  <2>2. CASE Finish(t, s)
    BY <2>2 DEF Finish
  <2>3. CASE \E e \in setup.events : Begin(t, s, e)
    BY <2>3 DEF Begin
  <2>4. CASE Log(t, s)
    BY <2>4 DEF Log
  <2> QED
    BY <1>2, <2>1, <2>2, <2>3, <2>4
<1>3. CASE Started(t) \/ Check(t) \/ WriteTag(t) \/ WriteTagIfSampled(t)
           \/ FixLogs(t) \/ CountDelayed(t) \/ CountFinal(t) \/ Report(t)
  BY <1>3 DEF Started, Check, WriteTag, WriteTagIfSampled, FixLogs, CountDelayed, CountFinal,
     Report
<1>4. SetPriority(t) \/ SetSampled(t)
      => UNCHANGED <<start, final, finishedBits, positive>>
  BY DEF SetPriority, SetSampled
<1>5. SetPriorityFinal(t) \/ SetFinal(t)
      => UNCHANGED <<start, flags, finishedBits, positive>>
  BY DEF SetPriorityFinal, SetFinal
<1>6. Call(t) => UNCHANGED <<start, flags, final>>
  BY DEF Call
<1> QED
  BY <1>1, <1>2, <1>3, <1>4, <1>5, <1>6 DEF Acts, Step

-----------------------------------------------------------------------------
(* Before the trace begins nothing happens. *)
Begun ==
  start = "none" =>
    /\ ~positive /\ sampledAtFinish = {}
    /\ \A t \in Threads : pc[t] = "idle"
    /\ \A s \in Spans : status[s] = "none"

(* A goroutine that sets a priority was told to by a call. *)
Asked ==
  \A t \in Threads :
    pc[t] \in {"priority", "priorityFinal"} =>
      event[t] \in PriorityEvents /\ event[t] \in called[span[t]]

BaseInv == TypeInv /\ Begun /\ Asked

LEMMA InitBase == Init => BaseInv
BY InitType DEF Init, BaseInv, Begun, Asked

LEMMA BegunStep ==
  ASSUME BaseInv, [Next]_vars
  PROVE  Begun' /\ (start # "none" => start' = start) /\ setup' = setup
<1> USE DEF BaseInv, Begun
<1>1. ASSUME NEW t \in Threads, NEW how \in setup.starts, StartRoot(t, how)
      PROVE  Begun' /\ (start # "none" => start' = start) /\ setup' = setup
  BY <1>1, SetupFits DEF StartRoot
<1>2. ASSUME NEW t \in Threads, NEW s \in setup.spans, StartSpan(t, s)
      PROVE  start # "none" /\ start' = start /\ setup' = setup
  BY <1>2 DEF StartSpan, setupVars
<1>3. ASSUME NEW t \in Threads, NEW s \in Spans,
             Finish(t, s) \/ (\E e \in setup.events : Begin(t, s, e)) \/ Log(t, s)
      PROVE  start # "none" /\ start' = start /\ setup' = setup
  BY <1>3 DEF Finish, Begin, Log, setupVars
<1>4. ASSUME NEW t \in Threads, Step(t)
      PROVE  start # "none" /\ start' = start /\ setup' = setup
  BY <1>4 DEF Step, Started, SetPriority, SetPriorityFinal, Check, Call, SetFinal, SetSampled,
     WriteTag, WriteTagIfSampled, FixLogs, CountDelayed, CountFinal, Report, setupVars
<1>5. CASE UNCHANGED vars
  BY <1>5 DEF vars, setupVars, localVars, finishVars
<1> QED
  BY <1>1, <1>2, <1>3, <1>4, <1>5 DEF Next

(* A call on a span is never forgotten. *)
LEMMA CalledGrows ==
  ASSUME TypeInv, [Next]_vars, NEW s \in Spans
  PROVE  called[s] \subseteq called'[s]
<1> USE DEF TypeInv, TypeOK
<1>1. ASSUME NEW t \in Threads, NEW r \in Spans,
             (\E e \in setup.events : Begin(t, r, e)) \/ Log(t, r)
      PROVE  called[s] \subseteq called'[s]
  <2>1. PICK e : called' = [called EXCEPT ![r] = @ \cup {e}]
    BY <1>1 DEF Begin, Log
  <2> QED
    BY <2>1
<1>2. CASE \E t \in Threads :
             \/ \E how \in setup.starts : StartRoot(t, how)
             \/ \E r \in setup.spans \ {Root} : StartSpan(t, r)
             \/ \E r \in Spans : Finish(t, r)
             \/ Step(t)
  BY <1>2 DEF StartRoot, StartSpan, Finish, Step, Started, SetPriority, SetPriorityFinal, Check,
     Call, SetFinal, SetSampled, WriteTag, WriteTagIfSampled, FixLogs, CountDelayed, CountFinal,
     Report
<1>3. CASE UNCHANGED vars
  BY <1>3 DEF vars
<1> QED
  BY <1>1, <1>2, <1>3 DEF Next

LEMMA AskedStep ==
  ASSUME BaseInv, [Next]_vars
  PROVE  Asked'
<1> SUFFICES ASSUME NEW u \in Threads, (pc[u] \in {"priority", "priorityFinal"})'
             PROVE  event'[u] \in PriorityEvents /\ event'[u] \in called'[span'[u]]
  BY DEF Asked
<1> USE DEF BaseInv, TypeInv, TypeOK
<1>1. CASE /\ pc[u] \in {"priority", "priorityFinal"}
           /\ event'[u] = event[u] /\ span'[u] = span[u]
  BY <1>1, CalledGrows DEF Asked
<1>2. ASSUME NEW t \in Threads \ {u}, Acts(t)
      PROVE  pc'[u] = pc[u] /\ event'[u] = event[u] /\ span'[u] = span[u]
  BY <1>2, OthersRest
<1>3. CASE UNCHANGED vars
  BY <1>1, <1>3 DEF vars, localVars
<1>4. CASE Acts(u)
  <2> USE DEF goto
  <2>1. ASSUME NEW s \in Spans, NEW e \in setup.events, Begin(u, s, e)
        PROVE  event'[u] \in PriorityEvents /\ event'[u] \in called'[span'[u]]
    <3>1. e \in PriorityEvents
      <4>1. e \in Events
        BY <2>1, SetupFits DEF Begin, Events
      <4>2. AfterSampling(e) \notin {"priority", "priorityFinal"}
        BY <4>1, AfterFits
      <4> QED
        BY <2>1, <4>2 DEF Begin, ConsultUnlessFinal
    <3> QED
      BY <2>1, <3>1 DEF Begin
  <2>2. ASSUME NEW how \in setup.starts, StartRoot(u, how) PROVE FALSE
    BY <2>2 DEF StartRoot
  <2>3. ASSUME NEW s \in Spans, StartSpan(u, s) PROVE FALSE
    BY <2>3 DEF StartSpan, ConsultUnlessFinal, AfterSampling
  <2>4. ASSUME NEW s \in Spans, Finish(u, s) PROVE FALSE
    BY <2>4 DEF Finish, ConsultUnlessFinal, AfterSampling, TagEvents, PriorityEvents
  <2>5. ASSUME NEW s \in Spans, Log(u, s) PROVE FALSE
    BY <2>5 DEF Log, localVars
  <2>6. CASE Check(u) \/ Call(u)
    <3>1. event[u] \in Events
      BY SetupFits
    <3>2. AfterSampling(event[u]) \in {"started", "idle", "write", "logs"}
      BY <3>1, AfterFits
    <3>3. ASSUME NEW d PROVE ApplyFrom(d, event[u]) \notin {"priority", "priorityFinal"}
      BY <3>2 DEF ApplyFrom
    <3>4. ASSUME NEW d, Advance(u, d) PROVE pc'[u] \notin {"priority", "priorityFinal"}
      BY <3>3, <3>4 DEF Advance
    <3>5. CASE Check(u)
      BY <3>4, <3>5 DEF Check
    <3>6. CASE Call(u)
      BY <3>3, <3>4, <3>6 DEF Call
    <3> QED
      BY <2>6, <3>5, <3>6
  <2>7. CASE SetFinal(u) \/ SetSampled(u)
    <3>1. event[u] \in Events
      BY SetupFits
    <3>2. AfterSampling(event[u]) \in {"started", "idle", "write", "logs"}
      BY <3>1, AfterFits
    <3>3. pc'[u] \in {"setSampled", AfterSampling(event[u])}
      BY <2>7 DEF SetFinal, SetSampled
    <3> QED
      BY <3>2, <3>3
  <2>8. CASE SetPriority(u)
    BY <1>1, <2>8 DEF SetPriority
  <2>9. CASE Started(u) \/ SetPriorityFinal(u) \/ WriteTag(u) \/ WriteTagIfSampled(u)
             \/ FixLogs(u) \/ CountDelayed(u) \/ CountFinal(u) \/ Report(u)
    BY <2>9 DEF Started, SetPriorityFinal, WriteTag, WriteTagIfSampled, FixLogs, CountDelayed,
       CountFinal, Report
  <2>10. setup.spans \subseteq Spans
    BY SetupFits
  <2> QED
    BY <1>4, <2>1, <2>2, <2>3, <2>4, <2>5, <2>6, <2>7, <2>8, <2>9, <2>10 DEF Acts, Step
<1> QED
  BY <1>1, <1>2, <1>3, <1>4, NextActs

LEMMA NextBase == BaseInv /\ [Next]_vars => BaseInv'
BY NextType, BegunStep, AskedStep DEF BaseInv

(* Once sampled, a trace stays so unless the application forces it out; once   *)
(* final, its decision stays final.                                            *)
LEMMA DecisionStays ==
  ASSUME BaseInv, [Next]_vars
  PROVE  /\ Unforced' => Unforced
         /\ start # "none" /\ Unforced /\ IsSampled => IsSampled'
         /\ start # "none" /\ final = 1 => final' = 1
<1> USE DEF BaseInv
<1>1. Unforced' => Unforced
  BY CalledGrows DEF Unforced
<1>2. ASSUME NEW t \in Threads, SetPriority(t), Unforced, IsSampled
      PROVE  IsSampled'
  <2>1. event[t] # "priority0"
    BY <1>2 DEF SetPriority, Asked, Unforced, TypeInv, TypeOK
  <2> QED
    BY <1>2, <2>1 DEF SetPriority, IsSampled
<1>3. CASE \E t \in Threads : \E how \in setup.starts : StartRoot(t, how)
  BY <1>1, <1>3 DEF StartRoot
<1>4. CASE \E t \in Threads : SetPriority(t)
  BY <1>1, <1>2, <1>4 DEF SetPriority
<1>5. CASE \/ \E t \in Threads :
                \/ \E s \in setup.spans \ {Root} : StartSpan(t, s)
                \/ \E s \in Spans : Finish(t, s) \/ \E e \in setup.events : Begin(t, s, e)
                \/ \E s \in Spans : "log" \in setup.events /\ Log(t, s)
           \/ UNCHANGED vars
  <2>1. UNCHANGED traceVars
    BY <1>5 DEF StartSpan, Finish, Begin, Log, vars
  <2> QED
    BY <1>1, <2>1 DEF traceVars, IsSampled
<1>6. CASE \E t \in Threads : Step(t) /\ ~SetPriority(t)
  <2>1. (IsSampled => IsSampled') /\ (final = 1 => final' = 1)
    BY <1>6 DEF Step, Started, SetPriorityFinal, Check, Call, SetFinal, SetSampled, setSampled,
       WriteTag, WriteTagIfSampled, FixLogs, CountDelayed, CountFinal, Report, traceVars, IsSampled
  <2> QED
    BY <1>1, <2>1
<1> QED
  BY <1>3, <1>4, <1>5, <1>6 DEF Next

-----------------------------------------------------------------------------
(* A goroutine that applies a positive decision goes on until the trace is     *)
(* sampled.                                                                    *)
LEMMA ApplyingStep ==
  ASSUME BaseInv, [Next]_vars, NEW u \in Threads, Applying(u)
  PROVE  Applying(u)' \/ IsSampled'
<1> USE DEF BaseInv, TypeInv, TypeOK
<1>1. ASSUME NEW t \in Threads \ {u}, Acts(t) PROVE Applying(u)'
  BY <1>1, OthersRest DEF Applying
<1>2. CASE UNCHANGED vars
  BY <1>2 DEF vars, localVars, Applying
<1>3. CASE Acts(u)
  <2>1. SetFinal(u) \/ SetSampled(u)
    BY <1>3 DEF Applying, Acts, StartRoot, StartSpan, Finish, Begin, Log, Step, Started, SetPriority,
       SetPriorityFinal, Check, Call, WriteTag, WriteTagIfSampled, FixLogs, CountDelayed,
       CountFinal, Report
  <2>2. CASE SetFinal(u)
    BY <2>2 DEF SetFinal, Applying, goto
  <2>3. CASE SetSampled(u)
    BY <2>3 DEF SetSampled, setSampled, IsSampled
  <2> QED
    BY <2>1, <2>2, <2>3
<1> QED
  BY <1>1, <1>2, <1>3, NextActs

(* A sampler that decides to sample leaves its caller applying the decision.   *)
LEMMA PositiveStep ==
  ASSUME BaseInv, [Next]_vars, ~positive, positive'
  PROVE  \E t \in Threads : Applying(t)'
<1> USE DEF BaseInv, TypeInv, TypeOK
<1>1. PICK t \in Threads : Call(t)
  BY NextActs, ChangedBy DEF vars
<1>2. PICK d \in Decide(Delegates[idx[t]], event[t], span[t]) :
        /\ d \in Positive /\ decision' = [decision EXCEPT ![t] = d]
        /\ goto(t, ApplyFrom(d, event[t]))
  BY <1>1 DEF Call
<1>3. ApplyFrom(d, event[t]) \in {"setFinal", "setSampled"}
  BY <1>2, DecideType, ApplyFits
<1> QED
  BY <1>2, <1>3 DEF Applying, goto

StickInv == BaseInv /\ PositiveSticks

LEMMA NextStick == StickInv /\ [Next]_vars => StickInv'
<1> SUFFICES ASSUME StickInv, [Next]_vars, positive', Unforced'
             PROVE  IsSampled' \/ \E t \in Threads : Applying(t)'
  BY NextBase DEF StickInv, PositiveSticks
<1>1. CASE ~positive
  BY <1>1, PositiveStep DEF StickInv
<1>2. CASE positive
  <2>1. start # "none" /\ Unforced
    BY <1>2, DecisionStays DEF StickInv, BaseInv, Begun
  <2>2. CASE IsSampled
    BY <2>1, <2>2, DecisionStays DEF StickInv
  <2>3. ASSUME NEW t \in Threads, Applying(t) PROVE Applying(t)' \/ IsSampled'
    BY <2>3, ApplyingStep DEF StickInv
  <2> QED
    BY <1>2, <2>1, <2>2, <2>3 DEF StickInv, PositiveSticks
<1> QED
  BY <1>1, <1>2

(* A positive decision of any sampler, at any span, survives every negative    *)
(* one that other goroutines apply at the same time (applySamplingDecision).   *)
THEOREM PositiveNeverLost == Spec => []PositiveSticks
<1>1. Init => StickInv
  BY InitBase DEF StickInv, PositiveSticks, Init
<1>2. StickInv => PositiveSticks
  BY DEF StickInv
<1> QED
  BY <1>1, <1>2, NextStick, PTL DEF Spec

-----------------------------------------------------------------------------
Joined == start \in {"joinSampled", "joinNotSampled"}

(* The samplers are never consulted about a joined trace, because it is final  *)
(* from its first span on.                                                     *)
JoinInv ==
  Joined =>
    /\ final = 1
    /\ \A t \in Threads : pc[t] \notin {"check", "call", "setFinal", "setSampled"}
    /\ (\A s \in Spans : called[s] \cap PriorityEvents = {})
         => (IsSampled <=> start = "joinSampled")

RemoteInv == BaseInv /\ JoinInv

LEMMA StartRootJoins ==
  ASSUME BaseInv, NEW t \in Threads, NEW how \in setup.starts, StartRoot(t, how)
  PROVE  JoinInv'
<1> SUFFICES ASSUME how \in {"joinSampled", "joinNotSampled"}
             PROVE  /\ final' = 1
                    /\ \A u \in Threads :
                         pc'[u] \notin {"check", "call", "setFinal", "setSampled"}
                    /\ IsSampled' <=> how = "joinSampled"
  BY DEF StartRoot, JoinInv, Joined
<1>1. final' = 1
  BY DEF StartRoot, RootState
<1>2. \A u \in Threads : pc'[u] \notin {"check", "call", "setFinal", "setSampled"}
  BY <1>1 DEF StartRoot, goto, BaseInv, Begun, TypeInv, TypeOK
<1>3. IsSampled' <=> how = "joinSampled"
  BY DEF StartRoot, RootState, IsSampled
<1> QED
  BY <1>1, <1>2, <1>3

LEMMA NextRemote == RemoteInv /\ [Next]_vars => RemoteInv'
<1> SUFFICES ASSUME RemoteInv, [Next]_vars PROVE JoinInv'
  BY NextBase DEF RemoteInv
<1>1. CASE \E t \in Threads, how \in setup.starts : StartRoot(t, how)
  BY <1>1, StartRootJoins DEF RemoteInv
<1>2. CASE /\ ~\E t \in Threads, how \in setup.starts : StartRoot(t, how)
           /\ ~Joined
  <2>1. start' = start
    BY <1>2, NextActs, ChangedBy DEF vars, setupVars
  <2> QED
    BY <1>2, <2>1 DEF JoinInv, Joined
<1>3. CASE Joined
  <2>1. start' = start /\ final = 1 /\ final' = 1
    BY <1>3, BegunStep, DecisionStays DEF RemoteInv, JoinInv, Joined
  <2>2. \A t \in Threads : ~(Check(t) \/ Call(t) \/ SetFinal(t) \/ SetSampled(t))
    BY <1>3 DEF RemoteInv, JoinInv, Check, Call, SetFinal, SetSampled
  <2>3. ASSUME NEW u \in Threads
        PROVE  pc'[u] \notin {"check", "call", "setFinal", "setSampled"}
    <3> USE DEF RemoteInv, BaseInv, TypeInv, TypeOK
    <3>1. pc[u] \notin {"check", "call", "setFinal", "setSampled"}
      BY <1>3 DEF JoinInv
    <3>2. ASSUME NEW t \in Threads \ {u}, Acts(t) PROVE pc'[u] = pc[u]
      BY <3>2, OthersRest
    <3>3. CASE UNCHANGED vars
      BY <3>1, <3>3 DEF vars, localVars
    <3>4. ASSUME NEW e \in Events PROVE AfterSampling(e) \in {"started", "idle", "write", "logs"}
      BY AfterFits
    <3>5. ASSUME NEW s \in Spans, StartSpan(u, s) \/ Finish(u, s)
          PROVE  pc'[u] \notin {"check", "call", "setFinal", "setSampled"}
      <4>1. PICK e \in {"create", "finish"} : ConsultUnlessFinal(u, s, e)
        BY <3>5 DEF StartSpan, Finish
      <4>2. e \in Events
        BY DEF Events
      <4> QED
        BY <2>1, <3>4, <4>1, <4>2 DEF ConsultUnlessFinal, goto
    <3>6. ASSUME NEW s \in Spans, NEW e \in setup.events, Begin(u, s, e)
          PROVE  pc'[u] \notin {"check", "call", "setFinal", "setSampled"}
      <4>1. e \in Events
        BY <3>6, SetupFits DEF Begin, Events
      <4> QED
        BY <2>1, <3>4, <3>6, <4>1 DEF Begin, ConsultUnlessFinal, goto
    <3>7. ASSUME NEW s \in Spans, Log(u, s) PROVE pc'[u] = pc[u]
      BY <3>7 DEF Log, localVars
    <3>8. ASSUME NEW how \in setup.starts PROVE ~StartRoot(u, how)
      BY <1>3 DEF StartRoot, Joined
    <3>9. CASE Step(u)
      BY <2>2, <3>9 DEF Step, Started, SetPriority, SetPriorityFinal, WriteTag,
         WriteTagIfSampled, FixLogs, CountDelayed, CountFinal, Report, goto
    <3>10. setup.spans \subseteq Spans
      BY SetupFits
    <3>11. CASE Acts(u)
      BY <3>1, <3>5, <3>6, <3>7, <3>8, <3>9, <3>10, <3>11 DEF Acts
    <3> HIDE DEF BaseInv
    <3> QED
      BY <3>1, <3>2, <3>3, <3>11, NextActs
  <2>4. ASSUME \A s \in Spans : called'[s] \cap PriorityEvents = {}
        PROVE  IsSampled' <=> start = "joinSampled"
    <3>1. \A s \in Spans : called[s] \cap PriorityEvents = {}
      BY <2>4, CalledGrows DEF RemoteInv, BaseInv
    <3>2. \A t \in Threads : ~SetPriority(t)
      BY <3>1 DEF SetPriority, RemoteInv, BaseInv, Asked, TypeInv, TypeOK
    <3>3. flags' = flags
      <4>1. ASSUME NEW t \in Threads, NEW how \in setup.starts PROVE ~StartRoot(t, how)
        BY <1>3 DEF Joined, StartRoot
      <4> QED
        BY <2>2, <3>2, <4>1, NextActs, ChangedBy DEF vars, traceVars
    <3> QED
      BY <1>3, <3>1, <3>3 DEF RemoteInv, JoinInv, IsSampled
  <2> QED
    BY <1>3, <2>1, <2>3, <2>4 DEF JoinInv, Joined
<1> QED
  BY <1>1, <1>2, <1>3

(* A joined trace keeps the decision of the remote parent, and no local        *)
(* sampler is asked about it (startSpanWithOptions).                           *)
THEOREM RemoteDecides == Spec => []RemoteDecisionKept
<1>1. Init => RemoteInv
  BY InitBase DEF RemoteInv, JoinInv, Joined, Init
<1>2. RemoteInv => RemoteDecisionKept
  BY DEF RemoteInv, JoinInv, Joined, RemoteDecisionKept
<1> QED
  BY <1>1, <1>2, NextRemote, PTL DEF Spec

-----------------------------------------------------------------------------
StatusAt(e) == IF e = "create" THEN "starting" ELSE IF e = "finish" THEN "finishing" ELSE "live"

(* A span is as far as the goroutine that works on it; whoever starts or       *)
(* finishes a span is alone with it.                                           *)
StatusFits == \A t \in Threads : pc[t] # "idle" => status[span[t]] = StatusAt(event[t])

Alone ==
  \A t, u \in Threads :
    t # u /\ pc[t] # "idle" /\ pc[u] # "idle" /\ span[t] = span[u]
    => event[t] \notin {"create", "finish"}

OwnInv == BaseInv /\ StatusFits /\ Alone

(* A goroutine takes up an event of span s ...                                 *)
Takes(t, s, e) ==
  /\ pc[t] = "idle" /\ span' = [span EXCEPT ![t] = s] /\ event' = [event EXCEPT ![t] = e]
  /\ status' = IF e \in {"create", "finish"}
               THEN [status EXCEPT ![s] = StatusAt(e)] ELSE status
  /\ IF e = "create" THEN status[s] = "none" ELSE status[s] = "live"
  /\ e = "finish" => \A u \in Threads : span[u] = s => pc[u] = "idle"

(* ... and works on it until it is idle again.                                 *)
Works(t) ==
  /\ pc[t] # "idle" /\ span' = span /\ event' = event
  /\ \/ status' = status
     \/ /\ pc'[t] = "idle" /\ event[t] \in {"create", "finish"}
        /\ \E l \in {"live", "done"} : status' = [status EXCEPT ![span[t]] = l]

LEMMA ActsMove ==
  ASSUME BaseInv, NEW t \in Threads, Acts(t)
  PROVE  \/ \E s \in Spans, e \in setup.events \cup {"create", "finish"} : Takes(t, s, e)
         \/ Works(t)
         \/ UNCHANGED <<pc, span, event, status>>
<1> USE DEF BaseInv, TypeInv, TypeOK
<1>1. ASSUME NEW how \in setup.starts, StartRoot(t, how) PROVE Takes(t, Root, "create")
  BY <1>1, TraceAssumption DEF StartRoot, Takes, StatusAt, Begun
<1>2. ASSUME NEW s \in Spans, StartSpan(t, s) PROVE Takes(t, s, "create")
  BY <1>2 DEF StartSpan, ConsultUnlessFinal, Takes, StatusAt
<1>3. ASSUME NEW s \in Spans, Finish(t, s) PROVE Takes(t, s, "finish")
  BY <1>3 DEF Finish, ConsultUnlessFinal, Takes, StatusAt
<1>4. ASSUME NEW s \in Spans, NEW e \in setup.events, Begin(t, s, e) PROVE Takes(t, s, e)
  <2>1. e \notin {"create", "finish"}
    BY SetupFits DEF TagEvents, PriorityEvents
  <2> QED
    BY <1>4, <2>1 DEF Begin, ConsultUnlessFinal, Takes
<1>5. ASSUME NEW s \in Spans, Log(t, s) PROVE UNCHANGED <<pc, span, event, status>>
  BY <1>5 DEF Log, localVars
<1>6. CASE Step(t)
  <2>1. CASE Started(t) \/ Report(t)
    BY <2>1 DEF Started, Report, Works, goto, Proper
  <2>2. CASE ~(Started(t) \/ Report(t))
    BY <1>6, <2>2 DEF Step, SetPriority, SetPriorityFinal, Check, Call, SetFinal, SetSampled,
       WriteTag, WriteTagIfSampled, FixLogs, CountDelayed, CountFinal, Works
  <2> QED
    BY <2>1, <2>2
<1>7. setup.spans \subseteq Spans /\ Root \in Spans
  BY SetupFits
<1> QED
  BY <1>1, <1>2, <1>3, <1>4, <1>5, <1>6, <1>7 DEF Acts

LEMMA NextOwn == OwnInv /\ [Next]_vars => OwnInv'
<1> SUFFICES ASSUME OwnInv, [Next]_vars PROVE StatusFits' /\ Alone'
  BY NextBase DEF OwnInv
<1> USE DEF OwnInv, BaseInv, TypeInv, TypeOK
<1>1. CASE UNCHANGED <<pc, span, event, status>>
  BY <1>1 DEF StatusFits, Alone
<1>2. ASSUME NEW t \in Threads, Acts(t), Works(t) PROVE StatusFits' /\ Alone'
  <2>1. \A u \in Threads : pc'[u] # "idle" => pc[u] # "idle"
    BY <1>2, OthersRest DEF Works
  <2>2. Alone'
    BY <1>2, <2>1 DEF Works, Alone
  <2>3. CASE status' = status
    <3> SUFFICES ASSUME NEW u \in Threads, pc'[u] # "idle"
                 PROVE  status'[span'[u]] = StatusAt(event'[u])
      BY <2>2 DEF StatusFits
    <3>1. status[span[u]] = StatusAt(event[u])
      BY <2>1 DEF StatusFits
    <3> QED
      BY <1>2, <2>3, <3>1 DEF Works
  <2>4. CASE /\ pc'[t] = "idle" /\ event[t] \in {"create", "finish"}
             /\ \E l \in {"live", "done"} : status' = [status EXCEPT ![span[t]] = l]
    <3> SUFFICES ASSUME NEW u \in Threads, pc'[u] # "idle"
                 PROVE  status'[span'[u]] = StatusAt(event'[u])
      BY <2>2 DEF StatusFits
    <3>1. u # t /\ pc[u] # "idle" /\ pc[t] # "idle"
      BY <1>2, <2>1, <2>4 DEF Works
    <3>2. span[u] # span[t]
      BY <2>4, <3>1 DEF Alone
    <3> QED
      BY <1>2, <2>4, <3>1, <3>2 DEF Works, StatusFits
  <2> QED
    BY <1>2, <2>2, <2>3, <2>4 DEF Works
<1>3. ASSUME NEW t \in Threads, Acts(t), NEW s \in Spans,
             NEW e \in setup.events \cup {"create", "finish"}, Takes(t, s, e)
      PROVE  StatusFits' /\ Alone'
  <2>1. \A u \in Threads \ {t} : pc'[u] = pc[u] /\ span'[u] = span[u] /\ event'[u] = event[u]
    BY <1>3, OthersRest
  <2>2. span'[t] = s /\ event'[t] = e /\ status'[s] = StatusAt(e)
    BY <1>3 DEF Takes, StatusAt
  <2>3. ASSUME NEW u \in Threads \ {t}, pc[u] # "idle", span[u] = s
        PROVE  event[u] \notin {"create", "finish"} /\ e \notin {"create", "finish"}
    BY <1>3, <2>3 DEF Takes, StatusFits, StatusAt
  <2>4. StatusFits'
    <3> SUFFICES ASSUME NEW u \in Threads, pc'[u] # "idle"
                 PROVE  status'[span'[u]] = StatusAt(event'[u])
      BY DEF StatusFits
    <3>1. CASE u = t
      BY <2>2, <3>1
    <3>2. CASE u # t
      <4>1. status[span[u]] = StatusAt(event[u])
        BY <2>1, <3>2 DEF StatusFits
      <4>2. span[u] = s => status' = status
        BY <1>3, <2>1, <2>3, <3>2 DEF Takes
      <4> QED
        BY <1>3, <2>1, <3>2, <4>1, <4>2 DEF Takes
    <3> QED
      BY <3>1, <3>2
  <2>5. Alone'
    BY <2>1, <2>2, <2>3 DEF Alone
  <2> QED
    BY <2>4, <2>5
<1> QED
  BY <1>1, <1>2, <1>3, ActsMove, NextActs DEF vars, localVars

-----------------------------------------------------------------------------
Reporting == {"count", "countFinal", "report"}

Uncounted == \A s \in Spans : status[s] \in {"none", "starting", "live"} => counted[s] = "none"

(* How far Finish is with a span of a sampled trace. *)
StagedSpan(s) ==
  /\ IsSampled
  /\ counted[s] # "notSampled"
  /\ status[s] = "done" => s \in reported /\ s \in logsFixed
  /\ \A t \in Threads : pc[t] \in Reporting /\ span[t] = s => s \in logsFixed

Staged == Unforced => \A s \in sampledAtFinish : StagedSpan(s)

ReportInv == OwnInv /\ Uncounted /\ Staged

(* Steps outside of Finish do not disturb it. *)
LEMMA QuietReport ==
  ASSUME ReportInv, [Next]_vars, UNCHANGED finishVars,
         \A s \in Spans : status'[s] # status[s] =>
            \/ status[s] \in {"none", "starting"} /\ status'[s] # "done"
            \/ status'[s] = "finishing",
         \A u \in Threads : pc'[u] \in Reporting => pc'[u] = pc[u] /\ span'[u] = span[u]
  PROVE  Uncounted' /\ Staged'
<1> USE DEF ReportInv, OwnInv, BaseInv, TypeInv, TypeOK, finishVars
<1>1. Uncounted'
  BY DEF Uncounted
<1>2. ASSUME NEW s \in sampledAtFinish, Unforced' PROVE StagedSpan(s)'
  <2>1. Unforced /\ IsSampled /\ IsSampled' /\ StagedSpan(s)
    BY <1>2, DecisionStays DEF Begun, Staged, StagedSpan
  <2> QED
    BY <2>1 DEF StagedSpan
<1> QED
  BY <1>1, <1>2 DEF Staged

LEMMA FinishReport ==
  ASSUME ReportInv, [Next]_vars, NEW t \in Threads, NEW r \in Spans, Finish(t, r)
  PROVE  Uncounted' /\ Staged'
<1> USE DEF ReportInv, OwnInv, BaseInv, TypeInv, TypeOK, Finish
<1>1. Uncounted'
  BY DEF Uncounted
<1>2. UNCHANGED <<logsFixed, counted, reported, flags>> /\ (IsSampled <=> IsSampled')
  BY DEF traceVars, IsSampled
<1>3. /\ span'[t] = r /\ pc'[t] \notin Reporting
      /\ \A u \in Threads \ {t} : pc'[u] = pc[u] /\ span'[u] = span[u]
  BY DEF ConsultUnlessFinal, goto, AfterSampling, Reporting, TagEvents, PriorityEvents
<1>4. CASE Unforced' /\ IsSampled
  <2>1. Unforced
    BY <1>4, DecisionStays
  <2>2. StagedSpan(r)'
    BY <1>2, <1>3, <1>4 DEF StagedSpan, Uncounted, Reporting
  <2>3. ASSUME NEW s \in sampledAtFinish, s # r PROVE StagedSpan(s)'
    <3>1. StagedSpan(s) /\ IsSampled'
      BY <1>2, <1>4, <2>1 DEF Staged
    <3>2. status'[s] = status[s]
      BY <2>3
    <3>3. \A u \in Threads : pc'[u] \in Reporting => pc'[u] = pc[u] /\ span'[u] = span[u]
      BY <1>3
    <3> QED
      BY <1>2, <3>1, <3>2, <3>3 DEF StagedSpan
  <2> QED
    BY <1>1, <2>2, <2>3 DEF Staged
<1>5. CASE Unforced' /\ ~IsSampled
  <2>1. sampledAtFinish' = {}
    BY <1>5, DecisionStays DEF Staged, StagedSpan
  <2> QED
    BY <1>1, <2>1 DEF Staged
<1> QED
  BY <1>1, <1>4, <1>5 DEF Staged

LEMMA ReportingReport ==
  ASSUME ReportInv, [Next]_vars, NEW t \in Threads,
         FixLogs(t) \/ CountDelayed(t) \/ CountFinal(t) \/ Report(t)
  PROVE  Uncounted' /\ Staged'
<1> USE DEF ReportInv, OwnInv, BaseInv, TypeInv, TypeOK, goto
<1>1. /\ pc[t] \in {"logs", "count", "countFinal", "report"}
      /\ span' = span /\ flags' = flags /\ sampledAtFinish' = sampledAtFinish
      /\ (IsSampled <=> IsSampled')
  BY DEF FixLogs, CountDelayed, CountFinal, Report, traceVars, IsSampled
<1>2. event[t] = "finish" /\ status[span[t]] = "finishing"
  BY <1>1 DEF Proper, StatusFits, StatusAt
<1>3. \A u \in Threads \ {t} : pc'[u] = pc[u]
  BY DEF FixLogs, CountDelayed, CountFinal, Report
<1>4. ASSUME NEW s \in sampledAtFinish, Unforced' PROVE StagedSpan(s)'
  <2>1. IsSampled /\ IsSampled' /\ StagedSpan(s)
    BY <1>1, <1>4, DecisionStays DEF Staged, StagedSpan
  <2>2. CASE FixLogs(t)
    BY <1>1, <1>3, <2>1, <2>2 DEF FixLogs, StagedSpan, Reporting
  <2>3. CASE CountDelayed(t) \/ CountFinal(t)
    <3>1. UNCHANGED <<status, logsFixed, reported>> /\ counted'[s] # "notSampled"
      BY <2>1, <2>3 DEF CountDelayed, CountFinal, StagedSpan
    <3>2. pc[t] \in Reporting
      BY <2>3 DEF CountDelayed, CountFinal, Reporting
    <3> QED
      BY <1>1, <1>3, <2>1, <3>1, <3>2 DEF StagedSpan
  <2>4. CASE Report(t)
    <3>1. UNCHANGED <<logsFixed, counted>> /\ reported \subseteq reported'
      BY <2>4 DEF Report
    <3>2. pc'[t] \notin Reporting /\ pc[t] \in Reporting
      BY <2>4 DEF Report, Reporting
    <3>3. status'[s] = "done" => s \in reported' /\ s \in logsFixed'
      <4>1. CASE s = span[t]
        BY <2>1, <2>4, <3>1, <3>2, <4>1 DEF Report, StagedSpan
      <4>2. CASE s # span[t]
        BY <2>1, <2>4, <3>1, <4>2 DEF Report, StagedSpan
      <4> QED
        BY <4>1, <4>2
    <3> QED
      BY <1>1, <1>3, <2>1, <3>1, <3>2, <3>3 DEF StagedSpan
  <2> QED
    BY <2>2, <2>3, <2>4
<1>5. Uncounted'
  <2>1. ASSUME NEW s \in Spans, s # span[t] PROVE status'[s] = status[s] /\ counted'[s] = counted[s]
    BY <2>1 DEF FixLogs, CountDelayed, CountFinal, Report
  <2>2. status'[span[t]] \in {"finishing", "done"}
    BY <1>2 DEF FixLogs, CountDelayed, CountFinal, Report
  <2> QED
    BY <2>1, <2>2 DEF Uncounted
<1> QED
  BY <1>1, <1>4, <1>5 DEF Staged

LEMMA NextReport == ReportInv /\ [Next]_vars => ReportInv'
<1> SUFFICES ASSUME ReportInv, [Next]_vars PROVE Uncounted' /\ Staged'
  BY NextOwn DEF ReportInv
<1> USE DEF OwnInv, BaseInv, TypeInv, TypeOK, goto
<1>1. ASSUME NEW t \in Threads, NEW how \in setup.starts, StartRoot(t, how)
      PROVE  Uncounted' /\ Staged'
  <2>1. UNCHANGED finishVars /\ status' = [status EXCEPT ![Root] = "starting"]
    BY <1>1 DEF StartRoot
  <2>2. \A s \in Spans : status[s] = "none"
    BY <1>1 DEF ReportInv, Begun, StartRoot
  <2>3. \A u \in Threads : pc'[u] \notin Reporting
    BY <1>1 DEF ReportInv, Begun, StartRoot, Reporting
  <2> QED
    BY <2>1, <2>2, <2>3, QuietReport DEF ReportInv
<1>2. ASSUME NEW t \in Threads, NEW r \in Spans, StartSpan(t, r)
      PROVE  Uncounted' /\ Staged'
  <2>1. pc'[t] \notin Reporting /\ \A u \in Threads \ {t} : pc'[u] = pc[u] /\ span'[u] = span[u]
    BY <1>2 DEF ReportInv, StartSpan, ConsultUnlessFinal, AfterSampling, Reporting
  <2> QED
    BY <1>2, <2>1, QuietReport DEF ReportInv, StartSpan
<1>3. ASSUME NEW t \in Threads, NEW r \in Spans, NEW e \in setup.events, Begin(t, r, e)
      PROVE  Uncounted' /\ Staged'
  <2>1. e \in Events
    BY <1>3, SetupFits DEF ReportInv, Begin, Events
  <2>2. AfterSampling(e) \notin Reporting
    BY <2>1, AfterFits DEF Reporting
  <2>3. pc'[t] \notin Reporting /\ \A u \in Threads \ {t} : pc'[u] = pc[u] /\ span'[u] = span[u]
    BY <1>3, <2>2 DEF ReportInv, Begin, ConsultUnlessFinal, Reporting
  <2> QED
    BY <1>3, <2>3, QuietReport DEF Begin
<1>4. ASSUME NEW t \in Threads, NEW r \in Spans, Log(t, r) PROVE Uncounted' /\ Staged'
  BY <1>4, QuietReport DEF Log, localVars
<1>5. ASSUME NEW t \in Threads, Step(t),
             ~(FixLogs(t) \/ CountDelayed(t) \/ CountFinal(t) \/ Report(t))
      PROVE  Uncounted' /\ Staged'
  <2>1. event[t] \in Events
    BY SetupFits DEF ReportInv
  <2>2. AfterSampling(event[t]) \notin Reporting
    BY <2>1, AfterFits DEF Reporting
  <2>3. ASSUME NEW d PROVE ApplyFrom(d, event[t]) \notin Reporting
    BY <2>2 DEF ApplyFrom, Reporting
  <2>4. CASE Check(t) \/ Call(t)
    <3>1. pc'[t] \notin Reporting
      BY <2>3, <2>4 DEF ReportInv, Check, Call, Advance, Reporting
    <3> QED
      BY <2>4, <3>1, OthersRest, QuietReport DEF ReportInv, Check, Call, Acts, Step
  <2>5. CASE Started(t)
    <3>1. status[span[t]] = "starting"
      BY <2>5 DEF ReportInv, Started, Proper, StatusFits, StatusAt
    <3> QED
      BY <2>5, <3>1, QuietReport DEF ReportInv, Started, Reporting
  <2>6. CASE SetPriority(t) \/ SetPriorityFinal(t) \/ SetFinal(t) \/ SetSampled(t)
             \/ WriteTag(t) \/ WriteTagIfSampled(t)
    <3>1. UNCHANGED <<finishVars, status, span>>
      BY <2>6 DEF SetPriority, SetPriorityFinal, SetFinal, SetSampled, WriteTag, WriteTagIfSampled
    <3>2. \E label : label \notin Reporting /\ goto(t, label)
      BY <2>2, <2>6 DEF SetPriority, SetPriorityFinal, SetFinal, SetSampled, WriteTag,
         WriteTagIfSampled, Reporting
    <3> QED
      BY <3>1, <3>2, QuietReport DEF ReportInv
  <2> QED
    BY <1>5, <2>4, <2>5, <2>6 DEF Step
<1>6. CASE UNCHANGED vars
  BY <1>6, QuietReport DEF vars, localVars
<1>7. setup.spans \subseteq Spans
  BY SetupFits DEF ReportInv
<1> QED
  BY <1>1, <1>2, <1>3, <1>4, <1>5, <1>6, <1>7, FinishReport, ReportingReport DEF Next, Step

(* A span finished after its trace was sampled is reported with its logs       *)
(* completed, and never counted as not sampled (FinishWithOptions).            *)
THEOREM SampledReported == Spec => []SampledSpansReported
<1>1. Init => ReportInv
  BY InitBase DEF Init, ReportInv, OwnInv, StatusFits, Alone, Uncounted, Staged
<1>2. ReportInv => SampledSpansReported
  BY DEF ReportInv, Staged, StagedSpan, SampledSpansReported
<1> QED
  BY <1>1, <1>2, NextReport, PTL DEF Spec

-----------------------------------------------------------------------------
EveryDelegate == 1..Len(Delegates)

(* A goroutine with no retryable answer so far has passed finished delegates   *)
(* only.                                                                       *)
VoteFits(t) ==
  /\ pc[t] \in {"check", "call"} =>
       /\ decision[t] \notin Positive
       /\ decision[t] \notin Retryable => 1..(idx[t] - 1) \subseteq finishedBits
  /\ pc[t] = "setFinal" /\ decision[t] \notin Positive => finishedBits = EveryDelegate
  /\ pc[t] = "priorityFinal" /\ Unforced => IsSampled

(* Why a local decision may be final. *)
Settled ==
  start \in {"new", "debug"} /\ Unforced /\ final = 1
  => IsSampled \/ (\E t \in Threads : Applying(t)) \/ finishedBits = EveryDelegate

VoteInv == BaseInv /\ (Prioritised => (\A t \in Threads : VoteFits(t)) /\ Settled)

LEMMA BitsGrow ==
  ASSUME BaseInv, [Next]_vars
  PROVE  /\ finishedBits \subseteq finishedBits' /\ finishedBits' \subseteq EveryDelegate
         /\ EveryDelegate' = EveryDelegate /\ Prioritised' = Prioritised
<1>1. finishedBits \subseteq finishedBits'
  <2>1. ASSUME NEW t \in Threads, Call(t) PROVE finishedBits \subseteq finishedBits'
    BY <2>1 DEF Call
  <2> QED
    BY <2>1, NextActs, ChangedBy DEF vars
<1>2. setup' = setup
  BY BegunStep
<1>3. EveryDelegate' = EveryDelegate /\ Prioritised' = Prioritised
  BY <1>2 DEF EveryDelegate, Prioritised, Delegates
<1>4. finishedBits' \subseteq EveryDelegate'
  BY NextType DEF BaseInv, TypeInv, TypeOK, EveryDelegate
<1> QED
  BY <1>1, <1>3, <1>4

LEMMA AdvanceVote ==
  ASSUME VoteInv, NEW t \in Threads, NEW d \in Decisions, d \notin Positive, Advance(t, d),
         finishedBits' \subseteq EveryDelegate, EveryDelegate' = EveryDelegate,
         d \notin Retryable => 1..idx[t] \subseteq finishedBits'
  PROVE  VoteFits(t)'
<1> USE DEF VoteInv, BaseInv, TypeInv, TypeOK, Advance, goto
<1>1. decision'[t] = d
  OBVIOUS
<1>2. CASE idx[t] < Len(Delegates)
  <2>1. pc'[t] = "check" /\ idx'[t] - 1 = idx[t]
    BY <1>2, SetupFits
  <2> QED
    BY <1>1, <2>1 DEF VoteFits
<1>3. CASE ~(idx[t] < Len(Delegates))
  <2>1. idx[t] = Len(Delegates)
    BY <1>3, SetupFits
  <2>2. d \notin Retryable => finishedBits' = EveryDelegate
    BY <2>1 DEF EveryDelegate
  <2>3. pc'[t] = ApplyFrom(d, event[t])
    BY <1>3
  <2>4. AfterSampling(event[t]) \in {"started", "idle", "write", "logs"}
    BY SetupFits, AfterFits
  <2>5. pc'[t] \notin {"check", "call", "priorityFinal"}
    BY <2>3, <2>4 DEF ApplyFrom
  <2>6. pc'[t] = "setFinal" => d \notin Retryable
    BY <2>3, <2>4 DEF ApplyFrom
  <2> QED
    BY <1>1, <2>2, <2>5, <2>6 DEF VoteFits
<1> QED
  BY <1>2, <1>3

LEMMA CallVote ==
  ASSUME VoteInv, Prioritised, NEW t \in Threads, Call(t), [Next]_vars
  PROVE  VoteFits(t)'
<1> USE DEF VoteInv, BaseInv, TypeInv, TypeOK
<1>1. PICK d \in Decide(Delegates[idx[t]], event[t], span[t]) :
        /\ finishedBits' = IF Prioritised /\ d \notin Retryable
                           THEN finishedBits \cup {idx[t]} ELSE finishedBits
        /\ IF d \in Positive
           THEN /\ decision' = [decision EXCEPT ![t] = d]
                /\ goto(t, ApplyFrom(d, event[t])) /\ UNCHANGED idx
           ELSE Advance(t, AnyRetryable(decision[t], d))
  BY DEF Call
<1>2. d \in Decisions
  BY DecideType
<1>3. VoteFits(t) /\ pc[t] = "call"
  BY DEF Call
<1>4. CASE d \in Positive
  <2>1. pc'[t] \in {"setFinal", "setSampled"} /\ decision'[t] = d
    BY <1>1, <1>2, <1>4, ApplyFits DEF goto
  <2> QED
    BY <1>4, <2>1 DEF VoteFits
<1>5. CASE d \notin Positive
  <2> DEFINE e == AnyRetryable(decision[t], d)
  <2>1. e \in Decisions /\ e \notin Positive
    BY <1>2, <1>3, <1>5 DEF AnyRetryable, VoteFits
  <2>2. ASSUME e \notin Retryable PROVE 1..idx[t] \subseteq finishedBits'
    <3>1. d \notin Retryable /\ decision[t] \notin Retryable
      BY <2>2 DEF AnyRetryable
    <3>2. 1..(idx[t] - 1) \subseteq finishedBits /\ finishedBits' = finishedBits \cup {idx[t]}
      BY <1>1, <1>3, <3>1 DEF VoteFits
    <3>3. idx[t] \in Nat
      BY SetupFits
    <3>4. 1..idx[t] = 1..(idx[t] - 1) \cup {idx[t]} \/ idx[t] = 0
      BY <3>3
    <3> QED
      BY <3>2, <3>4
  <2> QED
    BY <1>1, <1>5, <2>1, <2>2, AdvanceVote, BitsGrow
<1> QED
  BY <1>4, <1>5

LEMMA CheckVote ==
  ASSUME VoteInv, Prioritised, NEW t \in Threads, Check(t), [Next]_vars
  PROVE  VoteFits(t)'
<1> USE DEF VoteInv, BaseInv, TypeInv, TypeOK
<1>1. VoteFits(t) /\ pc[t] = "check" /\ finishedBits' = finishedBits
  BY DEF Check
<1>2. CASE goto(t, "call") /\ UNCHANGED <<idx, decision>>
  BY <1>1, <1>2 DEF VoteFits, goto
<1>3. CASE idx[t] \in finishedBits /\ Advance(t, decision[t])
  <2>1. ASSUME decision[t] \notin Retryable PROVE 1..idx[t] \subseteq finishedBits'
    <3>1. 1..(idx[t] - 1) \subseteq finishedBits
      BY <1>1, <2>1 DEF VoteFits
    <3>2. idx[t] \in Nat
      BY SetupFits
    <3> QED
      BY <1>1, <1>3, <3>1, <3>2
  <2> QED
    BY <1>1, <1>3, <2>1, AdvanceVote, BitsGrow DEF VoteFits
<1> QED
  BY <1>2, <1>3 DEF Check

(* A goroutine that asks nobody keeps its vote. *)
LEMMA StillVote ==
  ASSUME VoteInv, Prioritised, [Next]_vars, NEW u \in Threads, pc[u] # "idle",
         pc'[u] = pc[u], idx'[u] = idx[u], decision'[u] = decision[u]
  PROVE  VoteFits(u)'
<1>1. VoteFits(u) /\ start # "none"
  BY DEF VoteInv, BaseInv, Begun
<1>2. finishedBits = EveryDelegate => finishedBits' = EveryDelegate'
  BY BitsGrow DEF VoteInv
<1>3. Unforced' /\ Unforced /\ IsSampled => IsSampled'
  BY <1>1, DecisionStays DEF VoteInv
<1>4. Unforced' => Unforced
  BY DecisionStays DEF VoteInv
<1>5. finishedBits \subseteq finishedBits'
  BY BitsGrow DEF VoteInv
<1> QED
  BY <1>1, <1>2, <1>3, <1>4, <1>5 DEF VoteFits

LEMMA TakeVote ==
  ASSUME VoteInv, NEW t \in Threads, NEW s, NEW e \in Events, ConsultUnlessFinal(t, s, e)
  PROVE  VoteFits(t)'
<1>1. AfterSampling(e) \in {"started", "idle", "write", "logs"}
  BY AfterFits
<1>2. /\ pc'[t] \in {"check", "started", "idle", "write", "logs"}
      /\ idx'[t] = 1 /\ decision'[t] = "no"
  BY <1>1 DEF VoteInv, BaseInv, TypeInv, TypeOK, ConsultUnlessFinal, goto
<1>3. 1..(idx'[t] - 1) = {} /\ "no" \notin Positive
  BY <1>2 DEF Positive
<1> QED
  BY <1>2, <1>3 DEF VoteFits

LEMMA ActsVote ==
  ASSUME VoteInv, Prioritised, [Next]_vars, NEW t \in Threads, Acts(t)
  PROVE  VoteFits(t)'
<1> USE DEF VoteInv, BaseInv, TypeInv, TypeOK, goto
<1>1. ASSUME NEW how \in setup.starts, StartRoot(t, how) PROVE VoteFits(t)'
  <2>1. pc'[t] \in {"started", "check"} /\ idx'[t] = 1 /\ decision'[t] = "no"
    BY <1>1 DEF StartRoot
  <2>2. 1..(idx'[t] - 1) = {} /\ "no" \notin Positive
    BY <2>1 DEF Positive
  <2> QED
    BY <2>1, <2>2 DEF VoteFits
<1>2. ASSUME NEW s \in Spans, StartSpan(t, s) \/ Finish(t, s) PROVE VoteFits(t)'
  <2>1. PICK e \in {"create", "finish"} : ConsultUnlessFinal(t, s, e)
    BY <1>2 DEF StartSpan, Finish
  <2>2. e \in Events
    BY DEF Events
  <2> QED
    BY <2>1, <2>2, TakeVote
<1>3. ASSUME NEW s \in Spans, NEW e \in setup.events, Begin(t, s, e) PROVE VoteFits(t)'
  <2>1. e \in Events
    BY <1>3, SetupFits DEF Begin, Events
  <2>2. CASE e \in PriorityEvents
    BY <1>3, <2>2 DEF Begin, VoteFits
  <2> QED
    BY <1>3, <2>1, <2>2, TakeVote DEF Begin
<1>4. ASSUME NEW s \in Spans, Log(t, s) PROVE VoteFits(t)'
  BY <1>4 DEF Log, localVars, VoteFits
<1>5. CASE SetPriority(t)
  <2>1. pc'[t] \in {"priorityFinal", "idle"}
    BY <1>5 DEF SetPriority
  <2>2. ASSUME pc'[t] = "priorityFinal", Unforced' PROVE IsSampled'
    <3>1. event[t] # "priority0"
      BY <1>5, <2>2, DecisionStays DEF SetPriority, Asked, Unforced
    <3> QED
      BY <1>5, <2>2, <3>1 DEF SetPriority, IsSampled
  <2> QED
    BY <2>1, <2>2 DEF VoteFits
<1>6. CASE \/ Started(t) \/ SetPriorityFinal(t) \/ SetFinal(t) \/ SetSampled(t)
           \/ WriteTag(t) \/ WriteTagIfSampled(t)
           \/ FixLogs(t) \/ CountDelayed(t) \/ CountFinal(t) \/ Report(t)
  <2>1. AfterSampling(event[t]) \in {"started", "idle", "write", "logs"}
    BY SetupFits, AfterFits
  <2>2. pc'[t] \notin {"check", "call", "setFinal", "priorityFinal"}
    BY <1>6, <2>1 DEF Started, SetPriorityFinal, SetFinal, SetSampled, WriteTag,
       WriteTagIfSampled, FixLogs, CountDelayed, CountFinal, Report
  <2> QED
    BY <2>2 DEF VoteFits
<1>7. setup.spans \subseteq Spans
  BY SetupFits
<1> QED
  BY <1>1, <1>2, <1>3, <1>4, <1>5, <1>6, <1>7, CallVote, CheckVote DEF Acts, Step

(* The decision becomes final by a sampler, whose caller then applies it or    *)
(* has found everybody unwilling, or by the application.                       *)
LEMMA SettledStep ==
  ASSUME VoteInv, Prioritised, [Next]_vars
  PROVE  Settled'
<1> SUFFICES ASSUME start' \in {"new", "debug"}, Unforced', final' = 1
             PROVE  \/ IsSampled' \/ (\E t \in Threads : Applying(t)')
                    \/ finishedBits' = EveryDelegate'
  BY DEF Settled
<1> USE DEF VoteInv, BaseInv, TypeInv, TypeOK
<1>1. CASE final = 1
  <2>1. start \in {"new", "debug"}
    <3>1. ASSUME NEW t \in Threads, NEW how \in setup.starts, StartRoot(t, how) PROVE FALSE
      BY <3>1 DEF StartRoot, RootState
    <3>2. start' = start
      BY <3>1, NextActs, ChangedBy DEF vars, setupVars
    <3> QED
      BY <3>2
  <2>2. Unforced
    BY DecisionStays
  <2>3. CASE IsSampled
    BY <2>1, <2>2, <2>3, DecisionStays
  <2>4. ASSUME NEW t \in Threads, Applying(t) PROVE Applying(t)' \/ IsSampled'
    BY <2>4, ApplyingStep
  <2>5. CASE finishedBits = EveryDelegate
    BY <2>5, BitsGrow
  <2> QED
    BY <1>1, <2>1, <2>2, <2>3, <2>4, <2>5 DEF Settled
<1>2. CASE final # 1
  <2>1. PICK t \in Threads : SetPriorityFinal(t) \/ SetFinal(t)
    <3>1. ASSUME NEW t \in Threads, NEW how \in setup.starts, StartRoot(t, how) PROVE FALSE
      BY <3>1 DEF StartRoot, RootState
    <3> QED
      BY <1>2, <3>1, NextActs, ChangedBy DEF vars, traceVars
  <2>2. Unforced /\ VoteFits(t)
    BY DecisionStays
  <2>3. CASE SetPriorityFinal(t)
    BY <2>2, <2>3 DEF SetPriorityFinal, VoteFits, IsSampled
  <2>4. CASE SetFinal(t) /\ decision[t] \in Positive
    BY <2>4 DEF SetFinal, Applying, goto
  <2>5. CASE SetFinal(t) /\ decision[t] \notin Positive
    BY <2>2, <2>5, BitsGrow DEF SetFinal, VoteFits
  <2> QED
    BY <2>1, <2>3, <2>4, <2>5
<1> QED
  BY <1>1, <1>2

LEMMA NextVote == VoteInv /\ [Next]_vars => VoteInv'
<1> SUFFICES ASSUME VoteInv, [Next]_vars, Prioritised
             PROVE  (\A u \in Threads : VoteFits(u)') /\ Settled'
  BY NextBase, BitsGrow DEF VoteInv
<1>1. ASSUME NEW u \in Threads PROVE VoteFits(u)'
  <2>1. ASSUME NEW t \in Threads \ {u}, Acts(t)
        PROVE  pc'[u] = pc[u] /\ idx'[u] = idx[u] /\ decision'[u] = decision[u]
    BY <2>1, OthersRest DEF VoteInv, BaseInv
  <2>2. CASE pc'[u] = pc[u] /\ idx'[u] = idx[u] /\ decision'[u] = decision[u]
    <3>1. CASE pc[u] = "idle"
      BY <2>2, <3>1 DEF VoteFits
    <3> QED
      BY <2>2, <3>1, StillVote
  <2>3. CASE UNCHANGED vars
    BY <2>2, <2>3 DEF vars, localVars
  <2>4. ASSUME NEW t \in Threads \ {u}, Acts(t) PROVE VoteFits(u)'
    BY <2>1, <2>2, <2>4
  <2>5. CASE Acts(u)
    BY <2>5, ActsVote
  <2> QED
    BY <2>3, <2>4, <2>5, NextActs
<1> QED
  BY <1>1, SettledStep

(* Unless the application forces it, the trace is not finally rejected before  *)
(* every delegate of a PrioritySampler has rejected it for good (trySampling). *)
THEOREM RejectedByAll == Spec => []NegativeIsUnanimous
<1>1. Init => VoteInv
  BY InitBase DEF Init, VoteInv, VoteFits, Settled
<1>2. ASSUME VoteInv PROVE NegativeIsUnanimous
  <2>1. EveryDelegate = DOMAIN Delegates
    BY <1>2, TraceAssumption DEF VoteInv, BaseInv, TypeInv, TypeOK, EveryDelegate, Delegates
  <2> QED
    BY <1>2, <2>1 DEF VoteInv, Settled, NegativeIsUnanimous
<1> QED
  BY <1>1, <1>2, NextVote, PTL DEF Spec

-----------------------------------------------------------------------------
(* The traces DecidedOnce is about. *)
Plain ==
  /\ \A i \in DOMAIN Delegates : Delegates[i] = "legacy"
  /\ Unforced /\ \A s \in Spans : "priority1" \notin called[s]

Busy(t) == pc[t] \in {"check", "call", "setFinal", "setSampled"}

(* While the decision is made only the goroutine that starts the trace is at   *)
(* work, and there is nothing yet it could affect.                             *)
Opening(t) ==
  /\ event[t] = "create" /\ decision[t] \in {"no", "sample"}
  /\ pc[t] = "setSampled" => final = 1
  /\ \A u \in Threads \ {t} : pc[u] = "idle"
  /\ \A s \in Spans : status[s] \in {"none", "starting"}
  /\ kept = {} /\ refused = {}

(* What the one decision has led to so far. *)
Alike ==
  /\ \A s \in Spans : IF status[s] = "done" THEN s \in reported <=> IsSampled ELSE s \notin reported
  /\ (kept # {} => IsSampled) /\ (refused # {} => ~IsSampled)
  /\ \A s \in Spans : counted[s] # "delayed"

OnceInv ==
  Plain =>
    /\ \A t \in Threads : Busy(t) => Opening(t)
    /\ start # "none" /\ (\A t \in Threads : ~Busy(t)) => final = 1
    /\ start = "none" => kept = {} /\ refused = {}
    /\ Alike

DecideInv == OwnInv /\ OnceInv

LEMMA PlainStays ==
  ASSUME BaseInv, [Next]_vars, Plain'
  PROVE  Plain /\ \A t \in Threads : ~SetPriority(t)
<1>1. \A s \in Spans : called[s] \subseteq called'[s]
  BY CalledGrows DEF BaseInv
<1>2. Delegates' = Delegates
  BY BegunStep DEF Delegates
<1>3. Plain
  BY <1>1, <1>2 DEF Plain, Unforced
<1>4. \A t \in Threads : ~SetPriority(t)
  BY <1>3 DEF Plain, Unforced, SetPriority, BaseInv, Asked, TypeInv, TypeOK
<1> QED
  BY <1>3, <1>4

LEMMA StartRootOnce ==
  ASSUME DecideInv, Plain, NEW t \in Threads, NEW how \in setup.starts, StartRoot(t, how)
  PROVE  OnceInv'
<1> USE DEF DecideInv, OwnInv, BaseInv, TypeInv, TypeOK
<1>1. /\ \A u \in Threads : pc[u] = "idle" /\ \A s \in Spans : status[s] = "none"
      /\ kept' = {} /\ refused' = {} /\ UNCHANGED <<reported, counted>>
  BY DEF StartRoot, Begun, OnceInv, writeVars, finishVars
<1>2. \A s \in Spans : status'[s] \in {"none", "starting"}
  BY <1>1 DEF StartRoot
<1>3. \A u \in Threads \ {t} : pc'[u] = "idle"
  BY <1>1 DEF StartRoot, goto
<1>4. Busy(t)' => Opening(t)'
  BY <1>1, <1>2, <1>3 DEF StartRoot, goto, Busy, Opening
<1>5. Busy(t)' \/ final' = 1
  BY DEF StartRoot, goto, Busy
<1>6. Alike'
  BY <1>1, <1>2 DEF Alike, OnceInv
<1>7. start' # "none"
  BY SetupFits DEF StartRoot
<1> QED
  BY <1>3, <1>4, <1>5, <1>6, <1>7 DEF OnceInv, Busy

(* The starting goroutine makes the decision final before it goes on. *)
LEMMA OpeningOnce ==
  ASSUME DecideInv, Plain, NEW t \in Threads, Busy(t), [Next]_vars, Acts(t)
  PROVE  OnceInv'
<1> USE DEF DecideInv, OwnInv, BaseInv, TypeInv, TypeOK
<1>1. Opening(t) /\ Alike /\ start # "none"
  BY DEF OnceInv, Begun, Busy
<1>2. Check(t) \/ Call(t) \/ SetFinal(t) \/ SetSampled(t)
  BY DEF Busy, Acts, StartRoot, StartSpan, Finish, Begin, Log, Step, Started, SetPriority,
     SetPriorityFinal, WriteTag, WriteTagIfSampled, FixLogs, CountDelayed, CountFinal, Report
<1>3. UNCHANGED <<setup, start, status, event, kept, refused, reported, counted>>
  <2>1. UNCHANGED <<setupVars, status, event, writeVars, finishVars>>
    BY <1>2 DEF Check, Call, SetFinal, SetSampled
  <2> QED
    BY <2>1 DEF setupVars, writeVars, finishVars
<1>4. \A u \in Threads \ {t} : pc'[u] = "idle"
  BY <1>1, OthersRest DEF Opening
<1>5. AfterSampling(event[t]) = "started"
  BY <1>1, AfterCreate DEF Opening
<1>6. ASSUME NEW d \in {"no", "sample"}, Advance(t, d)
      PROVE  pc'[t] \in {"check", "setFinal"} /\ decision'[t] = d
  BY <1>6 DEF Advance, goto, ApplyFrom, Retryable
<1>7. /\ decision'[t] \in {"no", "sample"}
      /\ \/ pc'[t] \in {"check", "call", "setFinal"}
         \/ pc'[t] \in {"setSampled", "started"} /\ final' = 1
  <2>1. CASE Check(t)
    BY <1>1, <1>6, <2>1 DEF Check, Opening, goto
  <2>2. CASE Call(t)
    <3>1. PICK d \in Decide(Delegates[idx[t]], event[t], span[t]) :
            IF d \in Positive
            THEN /\ decision' = [decision EXCEPT ![t] = d]
                 /\ goto(t, ApplyFrom(d, event[t])) /\ UNCHANGED idx
            ELSE Advance(t, AnyRetryable(decision[t], d))
      BY <2>2 DEF Call
    <3>2. Delegates[idx[t]] = "legacy" /\ event[t] = "create"
      <4>1. DOMAIN Delegates = 1..Len(Delegates)
        BY TraceAssumption DEF Delegates
      <4> QED
        BY <1>1, <4>1 DEF Plain, Opening
    <3>3. d \in {"sample", "no"}
      BY <3>1, <3>2, Zenon DEF Decide
    <3>4. CASE d = "sample"
      <4>1. d \in Positive /\ ApplyFrom(d, event[t]) = "setFinal"
        BY <3>4 DEF Positive, Retryable, ApplyFrom
      <4> QED
        BY <3>1, <3>4, <4>1 DEF goto
    <3>5. CASE d = "no"
      <4>1. d \notin Positive /\ AnyRetryable(decision[t], d) = decision[t]
        BY <3>5 DEF Positive, Retryable, AnyRetryable
      <4> QED
        BY <1>1, <1>6, <3>1, <4>1 DEF Opening
    <3> QED
      BY <3>3, <3>4, <3>5
  <2>3. CASE SetFinal(t)
    BY <1>1, <1>5, <2>3 DEF SetFinal, Opening, goto
  <2>4. CASE SetSampled(t)
    BY <1>1, <1>5, <2>4 DEF SetSampled, Opening, goto
  <2> QED
    BY <1>2, <2>1, <2>2, <2>3, <2>4
<1>8. Opening(t)'
  BY <1>1, <1>3, <1>4, <1>7 DEF Opening
<1>9. Busy(t)' \/ final' = 1
  BY <1>7 DEF Busy
<1>10. Alike'
  BY <1>1, <1>3 DEF Alike, Opening
<1> QED
  BY <1>1, <1>3, <1>4, <1>8, <1>9, <1>10 DEF OnceInv, Busy

(* From then on the flags stay, and every step reads the same decision. *)
LEMMA DecidedOnceStep ==
  ASSUME DecideInv, Plain', [Next]_vars, NEW t \in Threads, Acts(t),
         start # "none", \A u \in Threads : ~Busy(u)
  PROVE  OnceInv'
<1> USE DEF DecideInv, OwnInv, BaseInv, TypeInv, TypeOK
<1>1. /\ Plain /\ Alike /\ final = 1 /\ final' = 1 /\ start' = start /\ ~SetPriority(t)
  BY PlainStays, DecisionStays, BegunStep DEF OnceInv
<1>2. ~(Check(t) \/ Call(t) \/ SetFinal(t) \/ SetSampled(t))
  BY DEF Busy, Check, Call, SetFinal, SetSampled
<1>3. \A how \in setup.starts : ~StartRoot(t, how)
  BY DEF StartRoot
<1>4. flags' = flags
  BY <1>1, <1>2, <1>3 DEF Acts, StartSpan, Finish, Begin, Log, Step, Started, SetPriorityFinal,
     WriteTag, WriteTagIfSampled, FixLogs, CountDelayed, CountFinal, Report, traceVars
<1>5. ~Busy(t)'
  <2>1. ASSUME NEW e \in Events, NEW s, ConsultUnlessFinal(t, s, e) PROVE ~Busy(t)'
    <3>1. AfterSampling(e) \in {"started", "idle", "write", "logs"}
      BY AfterFits
    <3> QED
      BY <1>1, <2>1, <3>1 DEF ConsultUnlessFinal, goto, Busy
  <2>2. ASSUME NEW s \in Spans, StartSpan(t, s) \/ Finish(t, s) PROVE ~Busy(t)'
    BY <2>1, <2>2 DEF StartSpan, Finish, Events
  <2>3. ASSUME NEW s \in Spans, NEW e \in setup.events, Begin(t, s, e) PROVE ~Busy(t)'
    <3>1. e \in Events
      BY <2>3, SetupFits DEF Begin, Events
    <3> QED
      BY <2>1, <2>3, <3>1 DEF Begin, goto, Busy
  <2>4. ASSUME NEW s \in Spans, Log(t, s) PROVE ~Busy(t)'
    BY <2>4 DEF Log, localVars, Busy
  <2>5. CASE Step(t)
    BY <1>1, <1>2, <2>5 DEF Step, Started, SetPriorityFinal, WriteTag, WriteTagIfSampled, FixLogs,
       CountDelayed, CountFinal, Report, goto, Busy
  <2>6. setup.spans \subseteq Spans
    BY SetupFits
  <2> QED
    BY <1>3, <2>2, <2>3, <2>4, <2>5, <2>6 DEF Acts
<1>6. \A u \in Threads : ~Busy(u)'
  BY <1>5, OthersRest DEF Busy
<1>7. Alike'
  <2>1. IsSampled' <=> IsSampled
    BY <1>4 DEF IsSampled
  <2>2. ASSUME NEW s \in Spans, StartSpan(t, s) \/ Finish(t, s) PROVE Alike'
    <3>1. UNCHANGED <<writeVars, counted, reported>>
      BY <2>2 DEF StartSpan, Finish, finishVars
    <3>2. \A r \in Spans : status'[r] = "done" <=> status[r] = "done"
      BY <2>2 DEF StartSpan, Finish
    <3> QED
      BY <1>1, <2>1, <3>1, <3>2 DEF Alike, writeVars
  <2>3. ASSUME NEW s \in Spans, NEW e, Write(s, e, IsSampled), UNCHANGED <<status, finishVars>>
        PROVE  Alike'
    BY <1>1, <2>1, <2>3 DEF Alike, Write, finishVars
  <2>4. ASSUME UNCHANGED <<status, writeVars, counted, reported>> PROVE Alike'
    BY <1>1, <2>1, <2>4 DEF Alike, writeVars
  <2>5. CASE Started(t)
    <3>1. status[span[t]] = "starting"
      BY <2>5 DEF Started, Proper, StatusFits, StatusAt
    <3>2. \A r \in Spans : status'[r] = "done" <=> status[r] = "done"
      BY <2>5, <3>1 DEF Started
    <3>3. UNCHANGED <<writeVars, counted, reported>>
      BY <2>5 DEF Started, finishVars
    <3> QED
      BY <1>1, <2>1, <3>2, <3>3 DEF Alike, writeVars
  <2>6. CASE CountFinal(t) \/ CountDelayed(t)
    <3>1. UNCHANGED <<status, writeVars, reported>> /\ \A r \in Spans : counted'[r] # "delayed"
      BY <1>1, <2>6 DEF CountFinal, CountDelayed, Alike
    <3> QED
      BY <1>1, <2>1, <3>1 DEF Alike, writeVars
  <2>7. CASE Report(t)
    <3>1. UNCHANGED <<writeVars, counted>>
      BY <2>7 DEF Report
    <3>2. ASSUME NEW r \in Spans
          PROVE  IF status'[r] = "done" THEN r \in reported' <=> IsSampled ELSE r \notin reported'
      <4>1. CASE r = span[t]
        BY <1>1, <2>7, <4>1 DEF Report, Alike
      <4>2. CASE r # span[t]
        BY <1>1, <2>7, <4>2 DEF Report, Alike
      <4> QED
        BY <4>1, <4>2
    <3> QED
      BY <1>1, <2>1, <3>1, <3>2 DEF Alike, writeVars
  <2>8. ASSUME NEW s \in Spans, Log(t, s) PROVE Alike'
    BY <2>3, <2>8 DEF Log
  <2>9. CASE WriteTagIfSampled(t)
    BY <2>3, <2>9 DEF WriteTagIfSampled
  <2>10. ASSUME NEW s \in Spans, NEW e \in setup.events, Begin(t, s, e) PROVE Alike'
    BY <2>4, <2>10 DEF Begin, finishVars
  <2>11. CASE SetPriorityFinal(t) \/ WriteTag(t) \/ FixLogs(t)
    BY <1>1, <2>4, <2>11 DEF SetPriorityFinal, WriteTag, FixLogs, finishVars
  <2>12. setup.spans \subseteq Spans
    BY SetupFits
  <2> QED
    BY <1>1, <1>2, <1>3, <2>2, <2>5, <2>6, <2>7, <2>8, <2>9, <2>10, <2>11, <2>12 DEF Acts, Step
<1> QED
  BY <1>1, <1>6, <1>7 DEF OnceInv

LEMMA NextDecide == DecideInv /\ [Next]_vars => DecideInv'
<1> SUFFICES ASSUME DecideInv, [Next]_vars, Plain' PROVE OnceInv'
  BY NextOwn DEF DecideInv, OnceInv
<1>1. Plain /\ BaseInv
  BY PlainStays DEF DecideInv, OwnInv
<1>2. ASSUME NEW t \in Threads, Acts(t) PROVE OnceInv'
  <2>1. CASE \E how \in setup.starts : StartRoot(t, how)
    BY <1>1, <2>1, StartRootOnce
  <2>2. CASE \E u \in Threads : Busy(u)
    <3>1. PICK u \in Threads : Busy(u)
      BY <2>2
    <3>2. Opening(u) /\ start # "none"
      BY <1>1, <3>1 DEF DecideInv, OnceInv, BaseInv, Begun, Busy
    <3>3. CASE u # t
      <4>1. pc[t] = "idle" /\ \A s \in Spans : status[s] # "live"
        BY <3>2, <3>3 DEF Opening
      <4>2. setup.spans \subseteq Spans
        BY <1>1, SetupFits DEF BaseInv
      <4> QED
        BY <1>2, <3>2, <4>1, <4>2 DEF Acts, StartRoot, StartSpan, Finish, Begin, Log, Step, Started,
           SetPriority, SetPriorityFinal, Check, Call, SetFinal, SetSampled, WriteTag,
           WriteTagIfSampled, FixLogs, CountDelayed, CountFinal, Report
    <3> QED
      BY <1>1, <1>2, <3>1, <3>3, OpeningOnce
  <2>3. CASE /\ ~\E how \in setup.starts : StartRoot(t, how)
             /\ \A u \in Threads : ~Busy(u)
    <3>1. start # "none"
      <4> SUFFICES ASSUME start = "none" PROVE FALSE
        OBVIOUS
      <4>1. pc[t] = "idle" /\ \A s \in Spans : status[s] = "none"
        BY <1>1 DEF BaseInv, Begun
      <4>2. setup.spans \subseteq Spans
        BY <1>1, SetupFits DEF BaseInv
      <4> QED
        BY <1>2, <2>3, <4>1, <4>2 DEF Acts, StartSpan, Finish, Begin, Log, Step, Started,
           SetPriority, SetPriorityFinal, Check, Call, SetFinal, SetSampled, WriteTag,
           WriteTagIfSampled, FixLogs, CountDelayed, CountFinal, Report
    <3> QED
      BY <1>2, <2>3, <3>1, DecidedOnceStep
  <2> QED
    BY <2>1, <2>2, <2>3
<1>3. CASE UNCHANGED vars
  BY <1>1, <1>3 DEF DecideInv, OwnInv, OnceInv, Plain, Unforced, Delegates, Busy, Opening, Alike, IsSampled,
     vars, setupVars, traceVars, localVars, writeVars, finishVars
<1> QED
  BY <1>2, <1>3, NextActs

(* With samplers that decide at creation a trace is treated alike throughout:  *)
(* all spans reported or none, all writes kept or none (legacySamplerV1Base).  *)
THEOREM TreatedAlike == Spec => []DecidedOnce
<1>1. ASSUME Init PROVE DecideInv
  <2>1. OnceInv
    BY <1>1 DEF Init, OnceInv, Busy, Alike
  <2> QED
    BY <1>1, <2>1, InitBase DEF Init, DecideInv, OwnInv, StatusFits, Alone
<1>2. DecideInv => DecidedOnce
  BY DEF DecideInv, OnceInv, Plain, Alike, DecidedOnce
<1> QED
  BY <1>1, <1>2, NextDecide, PTL DEF Spec

=============================================================================
