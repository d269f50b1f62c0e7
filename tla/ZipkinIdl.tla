----------------------------- MODULE ZipkinIdl -----------------------------
(***************************************************************************)
(* The structures of src/thrift-gen/zipkincore/zipkincore.go: the spans of *)
(* the Zipkin transport.  Its Span is ZipkinSpan here; Debug is held by value *)
(* and IsSetDebug compares it with its default, FALSE.                     *)
(***************************************************************************)
EXTENDS ThriftTypes

EndpointFields == <<Held(1, I32), Held(2, I16), Held(3, String), Nilable(4, Binary)>>
EndpointCases == <<May(1, "I32"), May(2, "I16"), May(3, "STRING"), May(4, "STRING")>>
EndpointReaders == <<At(1, I32), At(2, I16), At(3, String), At(4, Binary)>>
EndpointWrites == <<Always(1, "I32", I32), Always(2, "I16", I16),
    Always(3, "STRING", String), WhenSet(4, "STRING", Binary)>>

AnnotationFields == <<Held(1, I64), Held(2, String), Nilable(3, StructOf("Endpoint"))>>
AnnotationCases == <<May(1, "I64"), May(2, "STRING"), May(3, "STRUCT")>>
AnnotationReaders == <<At(1, I64), At(2, String), At(3, StructOf("Endpoint"))>>
AnnotationWrites == <<Always(1, "I64", I64), Always(2, "STRING", String),
    WhenSet(3, "STRUCT", StructOf("Endpoint"))>>

BinaryAnnotationFields == <<Held(1, String), Held(2, Binary), Held(3, I32),
    Nilable(4, StructOf("Endpoint"))>>
BinaryAnnotationCases == <<May(1, "STRING"), May(2, "STRING"), May(3, "I32"),
    May(4, "STRUCT")>>
BinaryAnnotationReaders == <<At(1, String), At(2, Binary), At(3, I32),
    At(4, StructOf("Endpoint"))>>
BinaryAnnotationWrites == <<Always(1, "STRING", String), Always(2, "STRING", Binary),
    Always(3, "I32", I32), WhenSet(4, "STRUCT", StructOf("Endpoint"))>>

ZipkinSpanFields == <<Held(1, I64), Held(3, String), Held(4, I64), Nilable(5, I64),
    Held(6, ListOf("Annotation")), Held(8, ListOf("BinaryAnnotation")), Held(9, Bool),
    Nilable(10, I64), Nilable(11, I64), Nilable(12, I64)>>
ZipkinSpanCases == <<May(1, "I64"), May(3, "STRING"), May(4, "I64"), May(5, "I64"),
    May(6, "LIST"), May(8, "LIST"), May(9, "BOOL"), May(10, "I64"), May(11, "I64"),
    May(12, "I64")>>
ZipkinSpanReaders == <<At(1, I64), At(3, String), At(4, I64), At(5, I64),
    At(6, ListOf("Annotation")), At(8, ListOf("BinaryAnnotation")), At(9, Bool),
    At(10, I64), At(11, I64), At(12, I64)>>
ZipkinSpanWrites == <<Always(1, "I64", I64), Always(3, "STRING", String),
    Always(4, "I64", I64), WhenSet(5, "I64", I64),
    Always(6, "LIST", ListOf("Annotation")),
    Always(8, "LIST", ListOf("BinaryAnnotation")), UnlessDefault(9, "BOOL", Bool),
    WhenSet(10, "I64", I64), WhenSet(11, "I64", I64), WhenSet(12, "I64", I64)>>

ResponseFields == <<Held(1, Bool)>>
ResponseCases == <<Need(1, "BOOL")>>
ResponseReaders == <<At(1, Bool)>>
ResponseWrites == <<Always(1, "BOOL", Bool)>>

SubmitZipkinBatchArgsFields == <<Held(1, ListOf("ZipkinSpan"))>>
SubmitZipkinBatchArgsCases == <<May(1, "LIST")>>
SubmitZipkinBatchArgsReaders == <<At(1, ListOf("ZipkinSpan"))>>
SubmitZipkinBatchArgsWrites == <<Always(1, "LIST", ListOf("ZipkinSpan"))>>

SubmitZipkinBatchResultFields == <<Nilable(0, ListOf("Response"))>>
SubmitZipkinBatchResultCases == <<May(0, "LIST")>>
SubmitZipkinBatchResultReaders == <<At(0, ListOf("Response"))>>
SubmitZipkinBatchResultWrites == <<WhenSet(0, "LIST", ListOf("Response"))>>

----------------------------------------------------------------------------

Zipkin ==
    [Endpoint |-> Struct(EndpointFields, EndpointCases, EndpointReaders, EndpointWrites),
     Annotation |-> Struct(AnnotationFields, AnnotationCases, AnnotationReaders, AnnotationWrites),
     BinaryAnnotation |->
        Struct(BinaryAnnotationFields, BinaryAnnotationCases,
               BinaryAnnotationReaders, BinaryAnnotationWrites),
     ZipkinSpan |-> Struct(ZipkinSpanFields, ZipkinSpanCases, ZipkinSpanReaders, ZipkinSpanWrites),
     Response |-> Struct(ResponseFields, ResponseCases, ResponseReaders, ResponseWrites),
     SubmitZipkinBatchArgs |->
        Struct(SubmitZipkinBatchArgsFields, SubmitZipkinBatchArgsCases,
               SubmitZipkinBatchArgsReaders, SubmitZipkinBatchArgsWrites),
     SubmitZipkinBatchResult |->
        Struct(SubmitZipkinBatchResultFields, SubmitZipkinBatchResultCases,
               SubmitZipkinBatchResultReaders, SubmitZipkinBatchResultWrites)]

============================================================================
