------------------------------ MODULE MCThrift ------------------------------
EXTENDS ThriftWire

AllStructs == DOMAIN Idl
AllMessages == {"EmitBatchArgs", "GetSamplingStrategyResult", "SubmitZipkinBatchArgs"}

\* The template keeps to the order of calls that the proofs assume.
ASSUME CallsAssumption ==
    \A S \in Structs : \A v \in Values(S), head \in Heads(S) :
        Orderly((IF head = <<>> THEN <<>> ELSE <<Call("message", head)>>) \o WriteCalls(S, v))
=============================================================================
