------------------------------- MODULE MCParts -------------------------------
(* Four parts that do not interact, checked in one run: part names the one     *)
(* that takes steps, while the others stay at their beginning.                 *)
EXTENDS RpcMetrics, ThriftRpc, SpanLogs, RateLimiter

VARIABLE part

(* Two names that are the same once normalised. *)
MCNormal == [o \in Operations |-> IF o = "get" THEN "get" ELSE "put"]

ASSUME PartsAssumption ==
  LogsAssumption /\ LimiterAssumption /\ MetricsAssumption /\ RpcAssumption

vars == <<part, logVars, limiterVars, rpcVars, thriftVars>>

(* The parts at rest begin in one way only. *)
Init ==
  /\ part \in {"logs", "limiter", "rpc", "thrift"}
  /\ LogsInit /\ LimiterInit /\ MetricsInit /\ ThriftInit
  /\ part # "logs" => maxLogs = 0
  /\ part # "limiter" => creditsPerSecond = 1 /\ maxBalance = 1
  /\ part # "rpc"  => \A c \in Calls : observer[c].kind = "local" /\ observer[c].name = "get"
  /\ part # "thrift" => processor = AgentProcessor

Next ==
  /\ UNCHANGED part
  /\ \/ part = "logs"    /\ LogsNext    /\ UNCHANGED <<limiterVars, rpcVars, thriftVars>>
     \/ part = "limiter" /\ LimiterNext /\ UNCHANGED <<logVars, rpcVars, thriftVars>>
     \/ part = "rpc"     /\ MetricsNext /\ UNCHANGED <<logVars, limiterVars, thriftVars>>
     \/ part = "thrift"  /\ ThriftNext  /\ UNCHANGED <<logVars, limiterVars, rpcVars>>

Spec == Init /\ [][Next]_vars
=============================================================================
