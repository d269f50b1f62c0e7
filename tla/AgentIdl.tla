------------------------------ MODULE AgentIdl ------------------------------
(***************************************************************************)
(* The structures of the services of an agent: src/thrift-gen/sampling,    *)
(* baggage and agent.                                                      *)
(***************************************************************************)
EXTENDS ThriftTypes

----------------------------------------------------------------------------
(* src/thrift-gen/sampling/sampling.go *)

ProbabilisticSamplingStrategyFields == <<Held(1, Double)>>
ProbabilisticSamplingStrategyCases == <<Need(1, "DOUBLE")>>
ProbabilisticSamplingStrategyReaders == <<At(1, Double)>>
ProbabilisticSamplingStrategyWrites == <<Always(1, "DOUBLE", Double)>>

RateLimitingSamplingStrategyFields == <<Held(1, I16)>>
RateLimitingSamplingStrategyCases == <<Need(1, "I16")>>
RateLimitingSamplingStrategyReaders == <<At(1, I16)>>
RateLimitingSamplingStrategyWrites == <<Always(1, "I16", I16)>>

OperationSamplingStrategyFields == <<Held(1, String),
    Held(2, StructOf("ProbabilisticSamplingStrategy"))>>
OperationSamplingStrategyCases == <<Need(1, "STRING"), Need(2, "STRUCT")>>
OperationSamplingStrategyReaders == <<At(1, String),
    At(2, StructOf("ProbabilisticSamplingStrategy"))>>
OperationSamplingStrategyWrites == <<Always(1, "STRING", String),
    Always(2, "STRUCT", StructOf("ProbabilisticSamplingStrategy"))>>

PerOperationSamplingStrategiesFields == <<Held(1, Double), Held(2, Double),
    Held(3, ListOf("OperationSamplingStrategy")), Nilable(4, Double)>>
PerOperationSamplingStrategiesCases == <<Need(1, "DOUBLE"), Need(2, "DOUBLE"),
    Need(3, "LIST"), May(4, "DOUBLE")>>
PerOperationSamplingStrategiesReaders == <<At(1, Double), At(2, Double),
    At(3, ListOf("OperationSamplingStrategy")), At(4, Double)>>
PerOperationSamplingStrategiesWrites == <<Always(1, "DOUBLE", Double),
    Always(2, "DOUBLE", Double),
    Always(3, "LIST", ListOf("OperationSamplingStrategy")),
    WhenSet(4, "DOUBLE", Double)>>

SamplingStrategyResponseFields == <<Held(1, I32),
    Nilable(2, StructOf("ProbabilisticSamplingStrategy")),
    Nilable(3, StructOf("RateLimitingSamplingStrategy")),
    Nilable(4, StructOf("PerOperationSamplingStrategies"))>>
SamplingStrategyResponseCases == <<Need(1, "I32"), May(2, "STRUCT"), May(3, "STRUCT"),
    May(4, "STRUCT")>>
SamplingStrategyResponseReaders == <<At(1, I32),
    At(2, StructOf("ProbabilisticSamplingStrategy")),
    At(3, StructOf("RateLimitingSamplingStrategy")),
    At(4, StructOf("PerOperationSamplingStrategies"))>>
SamplingStrategyResponseWrites == <<Always(1, "I32", I32),
    WhenSet(2, "STRUCT", StructOf("ProbabilisticSamplingStrategy")),
    WhenSet(3, "STRUCT", StructOf("RateLimitingSamplingStrategy")),
    WhenSet(4, "STRUCT", StructOf("PerOperationSamplingStrategies"))>>

GetSamplingStrategyArgsFields == <<Held(1, String)>>
GetSamplingStrategyArgsCases == <<May(1, "STRING")>>
GetSamplingStrategyArgsReaders == <<At(1, String)>>
GetSamplingStrategyArgsWrites == <<Always(1, "STRING", String)>>

GetSamplingStrategyResultFields == <<Nilable(0, StructOf("SamplingStrategyResponse"))>>
GetSamplingStrategyResultCases == <<May(0, "STRUCT")>>
GetSamplingStrategyResultReaders == <<At(0, StructOf("SamplingStrategyResponse"))>>
GetSamplingStrategyResultWrites == <<
    WhenSet(0, "STRUCT", StructOf("SamplingStrategyResponse"))>>

----------------------------------------------------------------------------
(* src/thrift-gen/baggage/baggage.go *)

BaggageRestrictionFields == <<Held(1, String), Held(2, I32)>>
BaggageRestrictionCases == <<Need(1, "STRING"), Need(2, "I32")>>
BaggageRestrictionReaders == <<At(1, String), At(2, I32)>>
BaggageRestrictionWrites == <<Always(1, "STRING", String), Always(2, "I32", I32)>>

GetBaggageRestrictionsArgsFields == <<Held(1, String)>>
GetBaggageRestrictionsArgsCases == <<May(1, "STRING")>>
GetBaggageRestrictionsArgsReaders == <<At(1, String)>>
GetBaggageRestrictionsArgsWrites == <<Always(1, "STRING", String)>>

GetBaggageRestrictionsResultFields == <<Nilable(0, ListOf("BaggageRestriction"))>>
GetBaggageRestrictionsResultCases == <<May(0, "LIST")>>
GetBaggageRestrictionsResultReaders == <<At(0, ListOf("BaggageRestriction"))>>
GetBaggageRestrictionsResultWrites == <<
    WhenSet(0, "LIST", ListOf("BaggageRestriction"))>>

----------------------------------------------------------------------------
(* src/thrift-gen/agent/agent.go *)

EmitZipkinBatchArgsFields == <<Held(1, ListOf("ZipkinSpan"))>>
EmitZipkinBatchArgsCases == <<May(1, "LIST")>>
EmitZipkinBatchArgsReaders == <<At(1, ListOf("ZipkinSpan"))>>
EmitZipkinBatchArgsWrites == <<Always(1, "LIST", ListOf("ZipkinSpan"))>>

EmitBatchArgsFields == <<Held(1, StructOf("Batch"))>>
EmitBatchArgsCases == <<May(1, "STRUCT")>>
EmitBatchArgsReaders == <<At(1, StructOf("Batch"))>>
EmitBatchArgsWrites == <<Always(1, "STRUCT", StructOf("Batch"))>>

----------------------------------------------------------------------------

Agent ==
    [ProbabilisticSamplingStrategy |->
        Struct(ProbabilisticSamplingStrategyFields, ProbabilisticSamplingStrategyCases,
               ProbabilisticSamplingStrategyReaders, ProbabilisticSamplingStrategyWrites),
     RateLimitingSamplingStrategy |->
        Struct(RateLimitingSamplingStrategyFields, RateLimitingSamplingStrategyCases,
               RateLimitingSamplingStrategyReaders, RateLimitingSamplingStrategyWrites),
     OperationSamplingStrategy |->
        Struct(OperationSamplingStrategyFields, OperationSamplingStrategyCases,
               OperationSamplingStrategyReaders, OperationSamplingStrategyWrites),
     PerOperationSamplingStrategies |->
        Struct(PerOperationSamplingStrategiesFields, PerOperationSamplingStrategiesCases,
               PerOperationSamplingStrategiesReaders, PerOperationSamplingStrategiesWrites),
     SamplingStrategyResponse |->
        Struct(SamplingStrategyResponseFields, SamplingStrategyResponseCases,
               SamplingStrategyResponseReaders, SamplingStrategyResponseWrites),
     GetSamplingStrategyArgs |->
        Struct(GetSamplingStrategyArgsFields, GetSamplingStrategyArgsCases,
               GetSamplingStrategyArgsReaders, GetSamplingStrategyArgsWrites),
     GetSamplingStrategyResult |->
        Struct(GetSamplingStrategyResultFields, GetSamplingStrategyResultCases,
               GetSamplingStrategyResultReaders, GetSamplingStrategyResultWrites),
     BaggageRestriction |->
        Struct(BaggageRestrictionFields, BaggageRestrictionCases,
               BaggageRestrictionReaders, BaggageRestrictionWrites),
     GetBaggageRestrictionsArgs |->
        Struct(GetBaggageRestrictionsArgsFields, GetBaggageRestrictionsArgsCases,
               GetBaggageRestrictionsArgsReaders, GetBaggageRestrictionsArgsWrites),
     GetBaggageRestrictionsResult |->
        Struct(GetBaggageRestrictionsResultFields, GetBaggageRestrictionsResultCases,
               GetBaggageRestrictionsResultReaders, GetBaggageRestrictionsResultWrites),
     EmitZipkinBatchArgs |->
        Struct(EmitZipkinBatchArgsFields, EmitZipkinBatchArgsCases,
               EmitZipkinBatchArgsReaders, EmitZipkinBatchArgsWrites),
     EmitBatchArgs |->
        Struct(EmitBatchArgsFields, EmitBatchArgsCases,
               EmitBatchArgsReaders, EmitBatchArgsWrites)]

============================================================================
