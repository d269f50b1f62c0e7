------------------------------ MODULE Transport ------------------------------
(***************************************************************************)
(* The Transport interface (transport.go) as remoteReporter uses it: spans *)
(* are appended to a buffer and leave it in batches, which the backend     *)
(* receives or which are lost; the count that Append and Flush return goes *)
(* to the metrics of successful or of failed spans (reporter.go).          *)
(***************************************************************************)
EXTENDS Integers, Sequences

VARIABLES
  buffer,            (* spans the transport has buffered                     *)
  backend,           (* spans the backend has received                       *)
  lost,              (* spans of a failed Append or Flush                    *)
  success, failure   (* the metrics ReporterSuccess and ReporterFailure      *)

transportVars == <<buffer, backend, lost>>

Results    == {"ok", "error"}
Elems(seq) == {seq[i] : i \in DOMAIN seq}

TransportInit ==
  /\ buffer = << >> /\ backend = << >> /\ lost = {}
  /\ success = 0 /\ failure = 0

EmitCountsOneFailure(batch, r) ==                                \* mutant
  IF r = "ok"
  THEN /\ backend' = backend \o batch
       /\ success' = success + Len(batch)
       /\ UNCHANGED <<lost, failure>>
  ELSE /\ lost' = lost \cup Elems(batch)
       /\ failure' = failure + 1
       /\ UNCHANGED <<backend, success>>

(* A batch is submitted: it arrives, or it fails and is counted. *)
Emit(batch, r) ==
  IF r = "ok"
  THEN /\ backend' = backend \o batch
       /\ success' = success + Len(batch)
       /\ UNCHANGED <<lost, failure>>
  ELSE /\ lost' = lost \cup Elems(batch)
       /\ failure' = failure + Len(batch)
       /\ UNCHANGED <<backend, success>>

FlushWithoutReset(r) ==                                          \* mutant
  /\ Emit(buffer, r)
  /\ UNCHANGED buffer

Flush(r) ==
  /\ Emit(buffer, r)
  /\ buffer' = << >>

(* The ways Append may end. *)
Keep(i) ==                  \* buffered, nothing flushed
  /\ buffer' = Append(buffer, i)
  /\ UNCHANGED <<backend, lost, success, failure>>
Reject(i) ==                \* the span is too large, the buffer is left alone
  /\ Emit(<<i>>, "error")
  /\ UNCHANGED buffer
FlushWith(i, r) ==          \* the span fills the buffer
  /\ Emit(Append(buffer, i), r)
  /\ buffer' = << >>
FlushBefore(i, r) ==        \* the span does not fit: flush, then keep it
  /\ Emit(buffer, r)
  /\ buffer' = <<i>>

AppendOutcome(i) ==
  \/ Keep(i)
  \/ Reject(i)
  \/ \E r \in Results : FlushWith(i, r) \/ FlushBefore(i, r)

(* What an implementation of the interface may do with the given spans. *)
TransportNext(Items) ==
  \/ \E i \in Items : AppendOutcome(i)
  \/ \E r \in Results : Flush(r)

=============================================================================
