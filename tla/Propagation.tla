------------------------------ MODULE Propagation ------------------------------
(***************************************************************************)
(* Span contexts through a trace: Tracer.StartSpan with references of      *)
(* every type (tracer.go), baggage (baggage_setter.go, span_context.go),   *)
(* the firehose flag, and the contexts the application injects, extracts   *)
(* and keeps.                                                              *)
(*                                                                         *)
(* A SpanContext is copied by value, but its baggage map and its           *)
(* samplingState are pointers; both are cells of a heap here, cell 0 being *)
(* nil.  Sampling is reduced to the outcome of OnCreateSpan (TraceSampling *)
(* has the rest).                                                          *)
(***************************************************************************)
EXTENDS SpanContextCodec, FiniteSetsExt

CONSTANTS
  Shapes,               (* the sequences of reference types StartSpan is given *)
  Setups,               (* the tracers and environments a run considers      *)
  Items,                (* <<key, value>> that SetBaggageItem is called with  *)
  MaxSpans, MaxHeld     (* bounds, besides a setup's maxEdits                *)

(* A setup has the tracer's options, what its sampler and its restriction      *)
(* manager may answer, the formats in use, whether contexts are carriers too   *)
(* (interop), the carriers that may come from other clients, and a bound on    *)
(* the changes of baggage and flags.  The spans of other clients have IDs of   *)
(* their own.                                                                  *)
ASSUME SetupAssumption ==
  /\ MaxSpans \in IDs /\ Items \subseteq Text \X Text
  /\ Shapes \subseteq Seq({"childOf", "followsFrom", "self"})
  /\ \A s \in Setups : \A foreign \in s.foreign :
       /\ foreign.format \in Formats
       /\ \A c \in Extract(foreign) \ {Failure} :
            /\ {c.hi, c.lo, c.span, c.parent} \subseteq IDs
            /\ {c.span, c.parent} \cap 1..MaxSpans = {}
            /\ c.flags \in Flags \cup {NoFlags} /\ (IsValid(c) => c.flags # NoFlags)
            /\ c.debugID \in BOOLEAN
            /\ DOMAIN c.baggage \subseteq Text /\ c.baggage \in [DOMAIN c.baggage -> Text]
  /\ \A s \in Setups :
       /\ s.gen128Bit \in BOOLEAN /\ s.zipkinSharedRPCSpan \in BOOLEAN /\ s.interop \in BOOLEAN
       /\ s.decisions \subseteq {"retry", "no", "sample"} /\ s.formats \subseteq Formats
       /\ s.maxEdits \in Nat
       /\ \A r \in s.restrictions : r.keyAllowed \in BOOLEAN /\ r.maxValueLength \in Nat

VARIABLES
  setup,                (* which does not change                             *)
  maps, states,         (* the heap: baggage maps, samplingStates            *)
  spans,                (* the contexts of the spans started, and how        *)
  held,                 (* contexts the application keeps: copied, extracted *)
  carrier,              (* the carrier in transit                            *)
  edits                 (* changes of baggage and flags so far               *)

vars == <<setup, maps, states, spans, held, carrier, edits>>

NoCarrier    == [format |-> "none"]
EmptyContext == [hi |-> 0, lo |-> 0, span |-> 0, parent |-> 0, baggage |-> 0,
                 debugID |-> FALSE, state |-> 0, remote |-> FALSE]

Init ==
  /\ setup \in Setups
  /\ maps = <<>> /\ states = <<>> /\ spans = <<>> /\ held = <<>>
  /\ carrier \in setup.foreign \cup {NoCarrier}
  /\ edits = 0

Baggage(c) == IF c.baggage = 0 THEN Empty ELSE maps[c.baggage]

(* A context by value, as the propagators read it. *)
View(c) ==
  [hi |-> c.hi, lo |-> c.lo, span |-> c.span, parent |-> c.parent, baggage |-> Baggage(c),
   flags |-> IF c.state = 0 THEN NoFlags ELSE states[c.state].flags, debugID |-> c.debugID]

-----------------------------------------------------------------------------
(* References *)
isDebugIDContainerOnly(c) == ~IsValidTrace(c) /\ c.debugID
isEmptyReference(c) ==
  ~IsValid(c) /\ ~isDebugIDContainerOnly(c) /\ DOMAIN Baggage(c) = {}

(* Where the references of a type are that StartSpan does not pass over. *)
OfType(refs, type) ==
  {i \in DOMAIN refs : refs[i].type = type /\ ~isEmptyReference(refs[i].context)}

(* The first ChildOf reference, or else the last FollowsFrom. *)
Parent(refs) ==
  LET children == OfType(refs, "childOf")
      follows  == OfType(refs, "followsFrom")
  IN IF children # {} THEN refs[Min(children)].context
     ELSE IF follows # {} THEN refs[Max(follows)].context ELSE EmptyContext

(* IDs are random and never 0; no two spans draw the same one. *)
Fresh == 1 + Cardinality({i \in DOMAIN spans : spans[i].how \in {"root", "child"}})

Contexts == {spans[i].context : i \in DOMAIN spans} \cup Range(held)

(* The parent's baggage is copied, not shared. *)
CopyBaggage(c) == IF DOMAIN Baggage(c) = {} THEN maps ELSE Append(maps, Baggage(c))
CopiedRef(c)   == IF DOMAIN Baggage(c) = {} THEN 0 ELSE Len(maps) + 1

(* The sampler decides about a span whose trace has no final decision. *)
Decided(state) ==
  IF state.final THEN {state}
  ELSE {[state EXCEPT !.final = (d # "retry"),
                      !.flags = IF d = "sample" /\ ~IsSampled(@) THEN @ + 1 ELSE @] :
          d \in setup.decisions}

(* A trace of its own: there is no parent, or one with a debug ID or baggage   *)
(* only.  The throttler may refuse the debug flag.                             *)
StartRoot(refs, hi) ==
  LET parent == Parent(refs)
      root   == [flags |-> 0, final |-> FALSE, localRoot |-> Fresh]
      debug  == IF isDebugIDContainerOnly(parent) THEN {root, [root EXCEPT !.flags = 3]} ELSE {root}
  IN /\ ~IsValid(parent) /\ OfType(refs, "self") = {}
     /\ \E state \in UNION {Decided(s) : s \in debug} : states' = Append(states, state)
     /\ maps' = CopyBaggage(parent)
     /\ spans' = Append(spans,
          [how |-> "root",
           context |-> [EmptyContext EXCEPT !.hi = hi, !.lo = Fresh, !.span = Fresh,
                          !.baggage = CopiedRef(parent), !.state = Len(states) + 1]])

ForgetParent(parent, shared) ==                                  \* mutant
  [parent EXCEPT !.span = Fresh, !.parent = parent.parent, !.remote = FALSE, !.debugID = FALSE]

(* One span per RPC is Zipkin's model: the server shares the client's IDs. *)
ChildOf(parent, shared) ==
  [parent EXCEPT !.span = IF shared THEN @ ELSE Fresh,
                 !.parent = IF shared THEN @ ELSE parent.span,
                 !.remote = FALSE, !.debugID = FALSE]

(* A span of the parent's trace.  The decision of a remote parent is final. *)
StartChild(refs, rpcServer) ==
  LET parent == Parent(refs)
      shared == rpcServer /\ setup.zipkinSharedRPCSpan
      child  == [ChildOf(parent, shared) EXCEPT !.baggage = CopiedRef(parent)]
      joined == IF parent.remote
                THEN [states[parent.state] EXCEPT !.final = TRUE, !.localRoot = child.span]
                ELSE states[parent.state]
  IN /\ IsValid(parent) /\ OfType(refs, "self") = {}
     /\ \E state \in Decided(joined) : states' = [states EXCEPT ![parent.state] = state]
     /\ maps' = CopyBaggage(parent)
     /\ spans' = Append(spans, [how |-> IF shared THEN "shared" ELSE "child", context |-> child])

(* A self reference is the context of the new span (the last one, if several);   *)
(* the callers give one that has a samplingState.                                *)
StartSelf(refs) ==
  LET self == refs[Max(OfType(refs, "self"))].context
  IN /\ OfType(refs, "self") # {} /\ self.state # 0
     /\ \E state \in Decided(states[self.state]) : states' = [states EXCEPT ![self.state] = state]
     /\ spans' = Append(spans, [how |-> "self", context |-> self])
     /\ UNCHANGED maps

StartSpan ==
  /\ Len(spans) < MaxSpans
  /\ \E shape \in Shapes : \E given \in [DOMAIN shape -> Contexts \cup {EmptyContext}] :
       LET refs == [i \in DOMAIN shape |-> [type |-> shape[i], context |-> given[i]]]
       IN \/ \E hi \in (IF setup.gen128Bit THEN {0, Fresh} ELSE {0}) : StartRoot(refs, hi)
          \/ \E rpcServer \in BOOLEAN : StartChild(refs, rpcServer)
          \/ StartSelf(refs)
  /\ UNCHANGED <<setup, held, carrier, edits>>

-----------------------------------------------------------------------------
InPlace(c, key, value) ==                                        \* mutant
  LET old == Baggage(c)
      new == IF value = <<>> THEN Restrict(old, DOMAIN old \ {key})
             ELSE [k \in DOMAIN old \cup {key} |-> IF k = key THEN value ELSE old[k]]
  IN IF c.baggage = 0
     THEN [context |-> [c EXCEPT !.baggage = Len(maps) + 1], maps |-> Append(maps, new)]
     ELSE [context |-> c, maps |-> [maps EXCEPT ![c.baggage] = new]]

(* SpanContext.WithBaggageItem: a new map, without the key for a blank value. *)
WithBaggageItem(c, key, value) ==
  LET old == Baggage(c)
      new == IF value = <<>> THEN Restrict(old, DOMAIN old \ {key})
             ELSE [k \in DOMAIN old \cup {key} |-> IF k = key THEN value ELSE old[k]]
  IN IF value = <<>> /\ key \notin DOMAIN old
     THEN [context |-> c, maps |-> maps]
     ELSE [context |-> [c EXCEPT !.baggage = Len(maps) + 1, !.debugID = FALSE],
           maps |-> Append(maps, new)]

(* baggageSetter.setBaggage under the span's lock; a refused key changes nothing. *)
SetBaggageItem(i) ==
  /\ edits < setup.maxEdits /\ edits' = edits + 1
  /\ \E item \in Items, r \in setup.restrictions :
       LET value == SubSeq(item[2], 1, IF Len(item[2]) > r.maxValueLength
                                       THEN r.maxValueLength ELSE Len(item[2]))
           done  == WithBaggageItem(spans[i].context, item[1], value)
       IN IF r.keyAllowed
          THEN /\ spans' = [spans EXCEPT ![i].context = done.context]
               /\ maps' = done.maps
          ELSE UNCHANGED <<spans, maps>>
  /\ UNCHANGED <<setup, states, held, carrier>>

EnableFirehose(i) ==
  /\ edits < setup.maxEdits /\ edits' = edits + 1
  /\ LET s == spans[i].context.state
     IN states' = [states EXCEPT ![s].flags = IF IsFirehose(@) THEN @ ELSE @ + 8]
  /\ UNCHANGED <<setup, maps, spans, held, carrier>>

(* Span.Context: the application keeps a copy. *)
KeepContext(i) ==
  /\ Len(held) < MaxHeld
  /\ held' = Append(held, spans[i].context)
  /\ UNCHANGED <<setup, maps, states, spans, carrier, edits>>

InjectSpan(i) ==
  /\ \E format \in setup.formats : carrier' = Inject(format, View(spans[i].context))
  /\ UNCHANGED <<setup, maps, states, spans, held, edits>>

(* The carrier is a context: CopyFrom copies the map, not the samplingState. *)
InjectInterop(i) ==
  /\ setup.interop
  /\ carrier' = [format |-> "context", hi |-> spans[i].context.hi, lo |-> spans[i].context.lo,
                 span |-> spans[i].context.span, parent |-> spans[i].context.parent,
                 baggage |-> Baggage(spans[i].context), state |-> spans[i].context.state]
  /\ UNCHANGED <<setup, maps, states, spans, held, edits>>

(* Tracer.Extract marks the context remote.  It allocates the map, if there is *)
(* one, and the samplingState, if the carrier says anything about it.          *)
ExtractContext ==
  /\ carrier.format \in Formats /\ Len(held) < MaxHeld
  /\ \E c \in Extract(carrier) \ {Failure} :
       /\ maps' = IF DOMAIN c.baggage = {} THEN maps ELSE Append(maps, c.baggage)
       /\ states' = IF c.flags = NoFlags THEN states
                    ELSE Append(states, [flags |-> c.flags, final |-> FALSE, localRoot |-> 0])
       /\ held' = Append(held,
            [hi |-> c.hi, lo |-> c.lo, span |-> c.span, parent |-> c.parent,
             baggage |-> IF DOMAIN c.baggage = {} THEN 0 ELSE Len(maps) + 1,
             debugID |-> c.debugID, state |-> IF c.flags = NoFlags THEN 0 ELSE Len(states) + 1,
             remote |-> TRUE])
  /\ carrier' = NoCarrier
  /\ UNCHANGED <<setup, spans, edits>>

ExtractInterop ==
  /\ carrier.format = "context" /\ Len(held) < MaxHeld
  /\ maps' = IF DOMAIN carrier.baggage = {} THEN maps ELSE Append(maps, carrier.baggage)
  /\ held' = Append(held,
       [EmptyContext EXCEPT !.hi = carrier.hi, !.lo = carrier.lo, !.span = carrier.span,
          !.parent = carrier.parent, !.state = carrier.state, !.remote = TRUE,
          !.baggage = IF DOMAIN carrier.baggage = {} THEN 0 ELSE Len(maps) + 1])
  /\ carrier' = NoCarrier
  /\ UNCHANGED <<setup, states, spans, edits>>

(* ErrSpanContextNotFound, ErrSpanContextCorrupted or a parse error *)
ExtractFails ==
  /\ carrier.format \in Formats /\ Failure \in Extract(carrier)
  /\ carrier' = NoCarrier
  /\ UNCHANGED <<setup, maps, states, spans, held, edits>>

Next ==
  \/ StartSpan \/ ExtractContext \/ ExtractInterop \/ ExtractFails
  \/ \E i \in DOMAIN spans : SetBaggageItem(i) \/ EnableFirehose(i) \/ KeepContext(i)
                             \/ InjectSpan(i) \/ InjectInterop(i)

Spec == Init /\ [][Next]_vars

-----------------------------------------------------------------------------
TypeOK ==
  LET Context == [hi : Nat, lo : Nat, span : Nat, parent : Nat, baggage : 0..Len(maps),
                  debugID : BOOLEAN, state : 0..Len(states), remote : BOOLEAN]
  IN /\ setup \in Setups /\ edits \in 0..setup.maxEdits
     /\ \A i \in DOMAIN spans : /\ spans[i].how \in {"root", "child", "shared", "self"}
                                /\ spans[i].context \in Context /\ spans[i].context.state # 0
     /\ \A i \in DOMAIN held : held[i] \in Context
     /\ \A i \in DOMAIN states : states[i].flags \in 0..255 /\ states[i].final \in BOOLEAN

(* Baggage set on a span reaches no other span and no context handed out       *)
(* before, whatever maps they share (copy on write, span_context.go:326).      *)
BaggageIsolated ==
  [][/\ \A i \in DOMAIN held : Baggage(held[i])' = Baggage(held[i])
     /\ \A i \in DOMAIN spans : Baggage(spans[i].context)' # Baggage(spans[i].context)
          => \A j \in DOMAIN spans \ {i} : spans'[j] = spans[j]
                                           /\ Baggage(spans[j].context)' = Baggage(spans[j].context)
    ]_vars

(* A text context that carries both debug and firehose cannot be read back,    *)
(* nor can a binary one beyond the limits of the reader, nor a trace ID whose  *)
(* low half is 0 in a Zipkin carrier.                                          *)
Unreadable(format, v) ==
  \/ format \in {"text", "http"} /\ IsDebug(v.flags) /\ IsFirehose(v.flags)
  \/ /\ format = "binary"
     /\ \/ Cardinality(DOMAIN v.baggage) > MaxItems
        \/ \E k \in DOMAIN v.baggage : Len(k) + Len(v.baggage[k]) > MaxPair
  \/ format = "zipkin" /\ v.lo = 0

(* Baggage arrives whole in binary, under lower-case keys in text and B3, and  *)
(* not at all in a Zipkin carrier.                                             *)
SameBaggage(format, sent, got) ==
  CASE format = "zipkin" -> got = Empty
    [] format = "binary" -> got = sent
    [] OTHER -> /\ DOMAIN got = {Lower(k) : k \in DOMAIN sent}
                /\ \A k \in DOMAIN sent : \E l \in DOMAIN sent :
                     Lower(l) = Lower(k) /\ got[Lower(k)] = sent[l]

(* What one propagator injects it extracts again: the IDs (but for the high    *)
(* half in a Zipkin carrier), the flags (B3: only sampled) and the baggage, in *)
(* whatever order the headers are visited; or, exactly in the cases named      *)
(* above, nothing (propagation.go:109-290, zipkin/propagation.go, zipkin.go).  *)
RoundTrip ==
  \A c \in Contexts : IsValid(c) /\ c.state # 0 =>
    \A format \in setup.formats : LET v == View(c) IN
      \A got \in Extract(Inject(format, v)) :
        IF Unreadable(format, v) THEN got = Failure
        ELSE /\ got # Failure
             /\ <<got.lo, got.span, got.parent>> = <<v.lo, v.span, v.parent>>
             /\ got.hi = IF format = "zipkin" THEN 0 ELSE v.hi
             /\ got.flags = IF format = "b3" THEN v.flags % 2 ELSE v.flags
             /\ SameBaggage(format, v.baggage, got.baggage)

(* However contexts were copied, injected, extracted and referred to, the      *)
(* spans of a trace form a tree: a span's parent is an earlier span of the     *)
(* same trace, or one of another client's, and two spans have one ID only by   *)
(* a self reference or Zipkin's shared RPC span (tracer.go:225-312).           *)
TraceTreeSound ==
  \A i \in DOMAIN spans :
    LET c       == spans[i].context
        same(d) == d.lo = c.lo /\ (d.hi = c.hi \/ "zipkin" \in setup.formats)
        before  == {spans[j].context : j \in 1..i - 1}
    IN /\ spans[i].how = "root" => c.parent = 0 /\ c.span = c.lo
       /\ spans[i].how = "child" => c.parent # 0
       /\ c.parent \in 1..Fresh - 1 => \E d \in before : d.span = c.parent /\ same(d)
       /\ (\E d \in before : d.span = c.span /\ same(d)) => spans[i].how \in {"self", "shared"}

(* The sampling decision is propagated to all downstream calls via the flags   *)
(* field of the trace context (README.md:189).                                 *)
FlagsReachDownstream ==
  \A i \in DOMAIN spans : \A format \in setup.formats \cap {"text", "http"} :
    \A got \in Extract(Inject(format, View(spans[i].context))) :
      IsValid(spans[i].context) => got # Failure /\ got.flags = states[spans[i].context.state].flags

(* localRootSpan stores the SpanID of the first span created in this process   *)
(* for a given trace (span_context.go:87).                                     *)
LocalRootIsFirst ==
  \A s \in DOMAIN states : states[s].localRoot # 0 =>
    \E i \in DOMAIN spans :
      /\ spans[i].context.state = s /\ spans[i].context.span = states[s].localRoot
      /\ \A j \in 1..i - 1 : spans[j].context.state # s
=============================================================================
