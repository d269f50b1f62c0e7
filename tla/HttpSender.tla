------------------------------ MODULE HttpSender ------------------------------
(***************************************************************************)
(* The HTTP transports (transport/http.go for Jaeger's collector,          *)
(* transport/zipkin/http.go for Zipkin's): spans are buffered and posted   *)
(* in batches.  A request that fails may have reached the collector all    *)
(* the same: its answer was lost, came after the timeout or could not be   *)
(* read.                                                                   *)
(***************************************************************************)
EXTENDS Integers, Sequences, SequencesExt

CONSTANTS
  SpanIds,
  BatchSizes            (* values of the option HTTPBatchSize                *)

BatchAssumption == BatchSizes \subseteq Nat \ {0}

VARIABLES
  kind, batchSize,      (* which transport, and its option                   *)
  process,              (* the span whose tracer gave the process, or none   *)
  spans,                (* the buffer                                        *)
  collector,            (* the batches the collector has taken               *)
  acknowledged, failed, (* spans of a Flush that succeeded, or did not       *)
  success, failure,     (* the reporter's metrics, from the counts returned  *)
  appended              (* history: the spans given to Append                *)

httpVars == <<kind, batchSize, process, spans, collector, acknowledged, failed, success,
              failure, appended>>

Init ==
  /\ kind \in {"jaeger", "zipkin"} /\ batchSize \in BatchSizes
  /\ process = {} /\ spans = <<>> /\ collector = <<>>
  /\ acknowledged = <<>> /\ failed = {} /\ success = 0 /\ failure = 0 /\ appended = {}

-----------------------------------------------------------------------------
(* What a request can come to: whether the collector took the batch, and the   *)
(* error.  The Jaeger transport discards the answer's body; no request is      *)
(* repeated.                                                                   *)
JaegerSend ==
  {[taken |-> TRUE,  error |-> FALSE],      \* a status below 400
   [taken |-> FALSE, error |-> TRUE],       \* no connection, or a status from 400 on
   [taken |-> TRUE,  error |-> TRUE]}       \* the answer is lost or late

(* The Zipkin transport reads it: a body that breaks off is an error too, for  *)
(* a batch that was taken.                                                     *)
ZipkinSend == JaegerSend

Outcomes == IF kind = "jaeger" THEN JaegerSend ELSE ZipkinSend

KeepOnError(batch, outcome) ==                                   \* mutant
  /\ spans' = IF outcome.error THEN batch ELSE <<>>
  /\ collector' = IF outcome.taken THEN Append(collector, batch) ELSE collector
  /\ IF outcome.error
     THEN /\ failed' = failed \cup ToSet(batch) /\ failure' = failure + Len(batch)
          /\ UNCHANGED <<acknowledged, success>>
     ELSE /\ acknowledged' = acknowledged \o batch /\ success' = success + Len(batch)
          /\ UNCHANGED <<failed, failure>>

(* Flush of a batch: the buffer is emptied, error or not, and the number of    *)
(* its spans is returned with the error.                                       *)
Flush(batch, outcome) ==
  /\ spans' = <<>>
  /\ collector' = IF outcome.taken THEN Append(collector, batch) ELSE collector
  /\ IF outcome.error
     THEN /\ failed' = failed \cup ToSet(batch) /\ failure' = failure + Len(batch)
          /\ UNCHANGED <<acknowledged, success>>
     ELSE /\ acknowledged' = acknowledged \o batch /\ success' = success + Len(batch)
          /\ UNCHANGED <<failed, failure>>

(* Append; Jaeger's builds the process from the first span. *)
AppendSpan(i) ==
  /\ i \notin appended /\ appended' = appended \cup {i}
  /\ process' = IF kind = "jaeger" /\ process = {} THEN {i} ELSE process
  /\ LET batch == Append(spans, i)
     IN IF Len(batch) >= batchSize
        THEN \E outcome \in Outcomes : Flush(batch, outcome)
        ELSE /\ spans' = batch
             /\ UNCHANGED <<collector, acknowledged, failed, success, failure>>
  /\ UNCHANGED <<kind, batchSize>>

(* Flush by the reporter's ticker or its close item; of nothing it does nothing. *)
FlushBuffer ==
  /\ spans # <<>>
  /\ \E outcome \in Outcomes : Flush(spans, outcome)
  /\ UNCHANGED <<kind, batchSize, process, appended>>

Next == FlushBuffer \/ \E i \in SpanIds : AppendSpan(i)

-----------------------------------------------------------------------------
(* An HTTP transport is a Transport whose backend is what was acknowledged:    *)
(* Append and Flush do what Transport.tla allows.                              *)
Delivery == INSTANCE Transport WITH
  buffer <- spans, backend <- acknowledged, lost <- failed

ImplementsTransport ==
  /\ Delivery!TransportInit
  /\ [][Delivery!TransportNext(SpanIds)]_<<spans, acknowledged, failed, success, failure>>

(* The collector takes each span at most once, in batches of the option's size *)
(* or less; what it has taken is acknowledged or, if the answer was lost,      *)
(* counted as failed; nothing acknowledged is missing (http.go:105-165).       *)
TakenOnce ==
  LET taken == UNION {ToSet(collector[b]) : b \in DOMAIN collector}
  IN /\ \A a, b \in DOMAIN collector : \A i \in DOMAIN collector[a], j \in DOMAIN collector[b] :
          collector[a][i] = collector[b][j] => a = b /\ i = j
     /\ taken \subseteq ToSet(acknowledged) \cup failed
     /\ ToSet(acknowledged) = taken \ failed
     /\ \A b \in DOMAIN collector : Len(collector[b]) <= batchSize
=============================================================================
