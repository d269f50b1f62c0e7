------------------------------ MODULE UdpSender ------------------------------
(***************************************************************************)
(* udpSender (transport_udp.go) and the size check of AgentClientUDP       *)
(* (utils/udp_client.go).  A span is serialised to learn its size and kept *)
(* until the bytes reach the limit; a batch then leaves as one datagram,   *)
(* with the process and the sender's own loss statistics.                  *)
(*                                                                         *)
(* Spans are identities with a size; Thrift encoding is left out, except   *)
(* for the bytes it takes: the size of each span, of the process, and the  *)
(* share of the envelope.  A datagram counts once Write has accepted it;   *)
(* what the network does with it afterwards is left out.                   *)
(***************************************************************************)
EXTENDS Integers, Sequences, SequencesExt

CONSTANTS
  SpanIds,            (* the spans the worker may append                     *)
  Sizes,              (* bytes a span may take                               *)
  ProcessSizes,       (* bytes the process may take                          *)
  MaxPacketSize,      (* maxPacketSize                                       *)
  EmitBatchOverhead,  (* emitBatchOverhead                                   *)
  Envelope,           (* what the envelope of a batch really takes           *)
  MaxDropped          (* bound: spans the reporter's full queue dropped      *)

maxSpanBytes == MaxPacketSize - EmitBatchOverhead

ASSUME SizeAssumption ==
  /\ Sizes \subseteq Nat \ {0} /\ ProcessSizes \subseteq Nat \ {0}
  /\ MaxPacketSize \in Nat /\ EmitBatchOverhead \in Nat /\ Envelope \in Nat
  /\ EmitBatchOverhead < MaxPacketSize /\ Envelope <= EmitBatchOverhead
ASSUME DroppedAssumption == MaxDropped \in Nat

VARIABLES
  size, processSize,   (* the serialised sizes, fixed but unknown             *)
  processByteSize,     (* 0 until the first Append has built the process      *)
  byteBufferSize, spanBuffer,
  batchSeqNo, tooLargeDroppedSpans, failedToEmitSpans,
  queueDropped,        (* SpansDroppedFromQueue of the reporter               *)
  written,            (* the spans of the batches Write accepted, in order   *)
  reports,             (* number and statistics of those batches              *)
  success, failure,    (* the reporter's metrics, from the counts returned    *)
  appended,            (* history: the spans given to Append                  *)
  tooLarge,            (* history: spans of an errSpanTooLarge                *)
  refused, unsent      (* history: batches EmitBatch refused, or Write failed *)

sizeVars   == <<size, processSize>>
bufferVars == <<processByteSize, byteBufferSize, spanBuffer>>
emitVars   == <<batchSeqNo, failedToEmitSpans, written, reports, success, failure,
                refused, unsent>>
vars == <<sizeVars, bufferVars, emitVars, tooLargeDroppedSpans, queueDropped,
          appended, tooLarge>>

Init ==
  /\ size \in [SpanIds -> Sizes] /\ processSize \in ProcessSizes
  /\ processByteSize = 0 /\ byteBufferSize = 0 /\ spanBuffer = << >>
  /\ batchSeqNo = 0 /\ tooLargeDroppedSpans = 0 /\ failedToEmitSpans = 0
  /\ queueDropped = 0
  /\ written = << >> /\ reports = << >> /\ success = 0 /\ failure = 0
  /\ appended = {} /\ tooLarge = {} /\ refused = {} /\ unsent = {}

Bytes(batch) ==
  LET total[k \in 0..Len(batch)] == IF k = 0 THEN 0 ELSE total[k - 1] + size[batch[k]]
  IN total[Len(batch)]

-----------------------------------------------------------------------------
makeStats == [fullQueue |-> queueDropped, tooLarge |-> tooLargeDroppedSpans,
              failedToEmit |-> failedToEmitSpans]

(* AgentClientUDP.EmitBatch: a datagram over maxPacketSize is not written. *)
Fits(batch) == processSize + Bytes(batch) + Envelope <= MaxPacketSize

NotCounted(n) == UNCHANGED failedToEmitSpans                     \* mutant

CountFailed(n) == failedToEmitSpans' = failedToEmitSpans + n

CountedAfterReset(batch) == 0                                    \* mutant

(* n, which Flush takes before it resets the buffer, counts for failedToEmitSpans *)
(* and is returned to the reporter.                                          *)
Counted(batch) == Len(batch)

(* Flush of a non-empty batch; net is what Write returns.  Flush of an empty *)
(* one returns before it takes a sequence number.                            *)
EmitBatch(batch, net) ==
  /\ batchSeqNo' = batchSeqNo + 1
  /\ \/ /\ Fits(batch) /\ net = "ok"
        /\ written' = written \o batch
        /\ reports' = Append(reports, [seqNo |-> batchSeqNo', stats |-> makeStats])
        /\ success' = success + Counted(batch)
        /\ UNCHANGED <<failedToEmitSpans, failure, refused, unsent>>
     \/ /\ ~Fits(batch) \/ net = "error"
        /\ CountFailed(Counted(batch))
        /\ failure' = failure + Counted(batch)
        /\ refused' = IF Fits(batch) THEN refused ELSE refused \cup {batch}
        /\ unsent'  = IF Fits(batch) THEN unsent \cup {batch} ELSE unsent
        /\ UNCHANGED <<written, reports, success>>

Flush(batch, net) ==
  \/ batch = << >> /\ UNCHANGED emitVars
  \/ batch # << >> /\ EmitBatch(batch, net)

(* byteBufferSize when rest is all that the buffer holds *)
BytesWith(rest) == processSize + Bytes(rest)

BytesWithoutProcess == byteBufferSize                            \* mutant

(* The process is built and measured by the first Append. *)
BytesBefore ==
  IF processByteSize = 0 THEN byteBufferSize + processSize ELSE byteBufferSize

AppendTooLarge(i) ==
  /\ size[i] > maxSpanBytes
  /\ tooLargeDroppedSpans' = tooLargeDroppedSpans + 1
  /\ tooLarge' = tooLarge \cup {i}
  /\ failure' = failure + 1
  /\ byteBufferSize' = BytesBefore
  /\ UNCHANGED <<spanBuffer, batchSeqNo, failedToEmitSpans, written, reports, success,
                 refused, unsent>>

AppendKeeps(i) ==
  /\ size[i] <= maxSpanBytes
  /\ BytesBefore + size[i] < maxSpanBytes
  /\ byteBufferSize' = BytesBefore + size[i]
  /\ spanBuffer' = Append(spanBuffer, i)
  /\ UNCHANGED <<emitVars, tooLargeDroppedSpans, tooLarge>>

AppendFills(i, net) ==
  /\ size[i] <= maxSpanBytes
  /\ BytesBefore + size[i] = maxSpanBytes
  /\ Flush(Append(spanBuffer, i), net)
  /\ spanBuffer' = << >>
  /\ byteBufferSize' = BytesWith(<< >>)
  /\ UNCHANGED <<tooLargeDroppedSpans, tooLarge>>

AppendFlushesFirst(i, net) ==
  /\ size[i] <= maxSpanBytes
  /\ BytesBefore + size[i] > maxSpanBytes
  /\ Flush(spanBuffer, net)
  /\ spanBuffer' = <<i>>
  /\ byteBufferSize' = BytesWith(<<i>>)
  /\ UNCHANGED <<tooLargeDroppedSpans, tooLarge>>

AppendSpan(i, net) ==
  /\ i \notin appended
  /\ appended' = appended \cup {i}
  /\ processByteSize' = processSize
  /\ AppendTooLarge(i) \/ AppendKeeps(i) \/ AppendFills(i, net) \/ AppendFlushesFirst(i, net)
  /\ UNCHANGED <<sizeVars, queueDropped>>

(* Flush by the reporter's ticker or by its close item *)
FlushBuffer(net) ==
  /\ spanBuffer # << >>
  /\ Flush(spanBuffer, net)
  /\ spanBuffer' = << >>
  /\ byteBufferSize' = BytesWith(<< >>)
  /\ UNCHANGED <<sizeVars, processByteSize, tooLargeDroppedSpans, queueDropped,
                 appended, tooLarge>>

(* Another goroutine's Report finds the queue full (reporterStats). *)
QueueDrops ==
  /\ queueDropped < MaxDropped
  /\ queueDropped' = queueDropped + 1
  /\ UNCHANGED <<sizeVars, bufferVars, emitVars, tooLargeDroppedSpans, appended, tooLarge>>

Next ==
  \/ \E net \in {"ok", "error"} :
       FlushBuffer(net) \/ \E i \in SpanIds : AppendSpan(i, net)
  \/ QueueDrops

Spec == Init /\ [][Next]_vars

-----------------------------------------------------------------------------
TypeOK ==
  /\ size \in [SpanIds -> Sizes] /\ processSize \in ProcessSizes
  /\ processByteSize \in Nat /\ byteBufferSize \in Nat
  /\ spanBuffer \in Seq(SpanIds)
  /\ {batchSeqNo, tooLargeDroppedSpans, failedToEmitSpans, success, failure} \subseteq Nat
  /\ queueDropped \in 0..MaxDropped
  /\ written \in Seq(SpanIds)
  /\ appended \subseteq SpanIds /\ tooLarge \subseteq appended

(* byteBufferSize, which is accumulated step by step and reset in two places,  *)
(* is at all times the size of the process and of the spans really buffered    *)
(* (Append, resetBuffers).                                                     *)
BytesExact ==
  processByteSize > 0 => byteBufferSize = processByteSize + Bytes(spanBuffer)

(* Packing spans together never costs one: a batch that EmitBatch refuses for  *)
(* its size consists of a single span that fits no datagram with this process. *)
RefusedAlone ==
  \A batch \in refused : Len(batch) = 1 /\ size[batch[1]] + processSize > maxSpanBytes

(* The sender never holds or sends more than it reckons with. *)
PackingExact == BytesExact /\ RefusedAlone

(* Every span given to Append is in exactly one place, and the reporter's      *)
(* metrics tell the same story as the statistics sent to the agent: success    *)
(* counts what was written, failure the two kinds of loss (Append, Flush).     *)
(* Nothing on this side tells a written datagram that the network then loses   *)
(* from one that arrives.                                                      *)
SpansAccounted ==
  /\ Cardinality(appended)
       = Len(written) + Len(spanBuffer) + failedToEmitSpans + tooLargeDroppedSpans
  /\ appended = ToSet(written) \cup ToSet(spanBuffer) \cup tooLarge
                  \cup UNION {ToSet(batch) : batch \in refused \cup unsent}
  /\ success = Len(written)
  /\ failure = failedToEmitSpans + tooLargeDroppedSpans

(* What the numbers and the statistics on the wire say: between two datagrams  *)
(* written one after the other a sequence number is missing exactly if the     *)
(* later one reports more failed spans, and a first one not numbered 1 reports *)
(* some (makeStats, batchSeqNo).  An agent also misses the numbers of datagrams *)
(* that the network lost: it knows of such a loss only when more numbers are   *)
(* missing than failed spans are reported.                                     *)
GapsMeanFailures ==
  \A k \in DOMAIN reports :
    LET before == IF k = 1 THEN [seqNo |-> 0, stats |-> [failedToEmit |-> 0]]
                           ELSE reports[k - 1]
        gap    == reports[k].seqNo - before.seqNo - 1
    IN /\ gap >= 0
       /\ gap <= reports[k].stats.failedToEmit - before.stats.failedToEmit
       /\ gap = 0 => reports[k].stats.failedToEmit = before.stats.failedToEmit

(* All losses of the sender are accounted for, here and on the wire. *)
LossesAccounted == SpansAccounted /\ GapsMeanFailures

(* udpSender is a Transport: Append and Flush do what Transport.tla allows. *)
Delivery == INSTANCE Transport WITH
  buffer  <- spanBuffer,
  backend <- written,
  lost    <- tooLarge \cup UNION {ToSet(batch) : batch \in refused \cup unsent}

ImplementsTransport ==
  /\ Delivery!TransportInit
  /\ [][Delivery!TransportNext(SpanIds)]_<<spanBuffer, written, tooLarge, refused, unsent, success, failure>>

(* transport_udp.go, lines 30 and 31: "The total datagram size is:             *)
(* sizeof(Span) * numSpans + processByteSize + emitBatchOverhead <=            *)
(* maxPacketSize", so no batch of spans that Append accepted is refused.       *)
NoBatchRefused == refused = {}

=============================================================================
