---------------------------- MODULE MCTransports ----------------------------
(* The implementations of the Transport interface, checked in one run: part    *)
(* names the one that takes steps, while the other stays at its beginning.     *)
(* A packet of 7 with an overhead of 2 leaves 5 bytes, so that two or three    *)
(* small spans share a datagram, one of 4 fits only with the smaller process,  *)
(* and one of 6 never fits.                                                    *)
EXTENDS UdpSender

CONSTANT BatchSizes

VARIABLES part, kind, batchSize, process, spans, collector, acknowledged, failed,
          httpSuccess, httpFailure, httpAppended

Http == INSTANCE HttpSender WITH
  success <- httpSuccess, failure <- httpFailure, appended <- httpAppended

ASSUME HttpAssumption == Http!BatchAssumption

httpVars == <<kind, batchSize, process, spans, collector, acknowledged, failed,
              httpSuccess, httpFailure, httpAppended>>

SomeSizes == CHOOSE sizes \in [SpanIds -> Sizes] : TRUE

TransportsInit ==
  /\ part \in {"udp", "http"}
  /\ Init /\ Http!Init
  /\ part = "udp"  => kind = "jaeger" /\ batchSize = 1
  /\ part = "http" => size = SomeSizes /\ processSize = 1

TransportsNext ==
  /\ UNCHANGED part
  /\ \/ part = "udp"  /\ Next      /\ UNCHANGED httpVars
     \/ part = "http" /\ Http!Next /\ UNCHANGED vars

TransportsSpec == TransportsInit /\ [][TransportsNext]_<<part, vars, httpVars>>

TakenOnce == Http!TakenOnce

(* Append and Flush of each transport do what Transport.tla allows. *)
TransportsImplement == ImplementsTransport /\ Http!ImplementsTransport
=============================================================================
