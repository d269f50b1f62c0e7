----------------------------- MODULE JaegerIdl -----------------------------
(***************************************************************************)
(* The structures of src/thrift-gen/jaeger/jaeger.go: what the reporters send *)
(* to an agent or a collector.                                             *)
(***************************************************************************)
EXTENDS ThriftTypes

TagFields == <<Held(1, String), Held(2, I32), Nilable(3, String), Nilable(4, Double),
    Nilable(5, Bool), Nilable(6, I64), Nilable(7, Binary)>>
TagCases == <<Need(1, "STRING"), Need(2, "I32"), May(3, "STRING"), May(4, "DOUBLE"),
    May(5, "BOOL"), May(6, "I64"), May(7, "STRING")>>
TagReaders == <<At(1, String), At(2, I32), At(3, String), At(4, Double), At(5, Bool),
    At(6, I64), At(7, Binary)>>
TagWrites == <<Always(1, "STRING", String), Always(2, "I32", I32),
    WhenSet(3, "STRING", String), WhenSet(4, "DOUBLE", Double),
    WhenSet(5, "BOOL", Bool), WhenSet(6, "I64", I64), WhenSet(7, "STRING", Binary)>>

LogFields == <<Held(1, I64), Held(2, ListOf("Tag"))>>
LogCases == <<Need(1, "I64"), Need(2, "LIST")>>
LogReaders == <<At(1, I64), At(2, ListOf("Tag"))>>
LogWrites == <<Always(1, "I64", I64), Always(2, "LIST", ListOf("Tag"))>>

SpanRefFields == <<Held(1, I32), Held(2, I64), Held(3, I64), Held(4, I64)>>
SpanRefCases == <<Need(1, "I32"), Need(2, "I64"), Need(3, "I64"), Need(4, "I64")>>
SpanRefReaders == <<At(1, I32), At(2, I64), At(3, I64), At(4, I64)>>
SpanRefWrites == <<Always(1, "I32", I32), Always(2, "I64", I64), Always(3, "I64", I64),
    Always(4, "I64", I64)>>

SpanFields == <<Held(1, I64), Held(2, I64), Held(3, I64), Held(4, I64),
    Held(5, String), Nilable(6, ListOf("SpanRef")), Held(7, I32), Held(8, I64),
    Held(9, I64), Nilable(10, ListOf("Tag")), Nilable(11, ListOf("Log"))>>
SpanCases == <<Need(1, "I64"), Need(2, "I64"), Need(3, "I64"), Need(4, "I64"),
    Need(5, "STRING"), May(6, "LIST"), Need(7, "I32"), Need(8, "I64"), Need(9, "I64"),
    May(10, "LIST"), May(11, "LIST")>>
SpanReaders == <<At(1, I64), At(2, I64), At(3, I64), At(4, I64), At(5, String),
    At(6, ListOf("SpanRef")), At(7, I32), At(8, I64), At(9, I64),
    At(10, ListOf("Tag")), At(11, ListOf("Log"))>>
SpanWrites == <<Always(1, "I64", I64), Always(2, "I64", I64), Always(3, "I64", I64),
    Always(4, "I64", I64), Always(5, "STRING", String),
    WhenSet(6, "LIST", ListOf("SpanRef")), Always(7, "I32", I32),
    Always(8, "I64", I64), Always(9, "I64", I64), WhenSet(10, "LIST", ListOf("Tag")),
    WhenSet(11, "LIST", ListOf("Log"))>>

ProcessFields == <<Held(1, String), Nilable(2, ListOf("Tag"))>>
ProcessCases == <<Need(1, "STRING"), May(2, "LIST")>>
ProcessReaders == <<At(1, String), At(2, ListOf("Tag"))>>
ProcessWrites == <<Always(1, "STRING", String), WhenSet(2, "LIST", ListOf("Tag"))>>

ClientStatsFields == <<Held(1, I64), Held(2, I64), Held(3, I64)>>
ClientStatsCases == <<Need(1, "I64"), Need(2, "I64"), Need(3, "I64")>>
ClientStatsReaders == <<At(1, I64), At(2, I64), At(3, I64)>>
ClientStatsWrites == <<Always(1, "I64", I64), Always(2, "I64", I64),
    Always(3, "I64", I64)>>

BatchFields == <<Held(1, StructOf("Process")), Held(2, ListOf("Span")),
    Nilable(3, I64), Nilable(4, StructOf("ClientStats"))>>
BatchCases == <<Need(1, "STRUCT"), Need(2, "LIST"), May(3, "I64"), May(4, "STRUCT")>>
BatchReaders == <<At(1, StructOf("Process")), At(2, ListOf("Span")), At(3, I64),
    At(4, StructOf("ClientStats"))>>
BatchWrites == <<Always(1, "STRUCT", StructOf("Process")),
    Always(2, "LIST", ListOf("Span")), WhenSet(3, "I64", I64),
    WhenSet(4, "STRUCT", StructOf("ClientStats"))>>

BatchSubmitResponseFields == <<Held(1, Bool)>>
BatchSubmitResponseCases == <<Need(1, "BOOL")>>
BatchSubmitResponseReaders == <<At(1, Bool)>>
BatchSubmitResponseWrites == <<Always(1, "BOOL", Bool)>>

SubmitBatchesArgsFields == <<Held(1, ListOf("Batch"))>>
SubmitBatchesArgsCases == <<May(1, "LIST")>>
SubmitBatchesArgsReaders == <<At(1, ListOf("Batch"))>>
SubmitBatchesArgsWrites == <<Always(1, "LIST", ListOf("Batch"))>>

SubmitBatchesResultFields == <<Nilable(0, ListOf("BatchSubmitResponse"))>>
SubmitBatchesResultCases == <<May(0, "LIST")>>
SubmitBatchesResultReaders == <<At(0, ListOf("BatchSubmitResponse"))>>
SubmitBatchesResultWrites == <<WhenSet(0, "LIST", ListOf("BatchSubmitResponse"))>>

----------------------------------------------------------------------------

Jaeger ==
    [Tag |-> Struct(TagFields, TagCases, TagReaders, TagWrites),
     Log |-> Struct(LogFields, LogCases, LogReaders, LogWrites),
     SpanRef |-> Struct(SpanRefFields, SpanRefCases, SpanRefReaders, SpanRefWrites),
     Span |-> Struct(SpanFields, SpanCases, SpanReaders, SpanWrites),
     Process |-> Struct(ProcessFields, ProcessCases, ProcessReaders, ProcessWrites),
     ClientStats |->
        Struct(ClientStatsFields, ClientStatsCases,
               ClientStatsReaders, ClientStatsWrites),
     Batch |-> Struct(BatchFields, BatchCases, BatchReaders, BatchWrites),
     BatchSubmitResponse |->
        Struct(BatchSubmitResponseFields, BatchSubmitResponseCases,
               BatchSubmitResponseReaders, BatchSubmitResponseWrites),
     SubmitBatchesArgs |->
        Struct(SubmitBatchesArgsFields, SubmitBatchesArgsCases,
               SubmitBatchesArgsReaders, SubmitBatchesArgsWrites),
     SubmitBatchesResult |->
        Struct(SubmitBatchesResultFields, SubmitBatchesResultCases,
               SubmitBatchesResultReaders, SubmitBatchesResultWrites)]

============================================================================
