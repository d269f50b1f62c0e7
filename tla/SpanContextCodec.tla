--------------------------- MODULE SpanContextCodec ---------------------------
(***************************************************************************)
(* What a SpanContext becomes in a carrier and what is read back: the      *)
(* propagators of propagation.go (TextMap and HTTPHeaders, Binary),        *)
(* zipkin/propagation.go (B3 headers) and zipkin.go (ZipkinSpanFormat).    *)
(*                                                                         *)
(* A context is seen here by value: a record of hi, lo, span, parent,      *)
(* flags (a byte, or NoFlags for a nil samplingState), baggage (a function *)
(* from keys to values) and debugID.  An extractor yields a set of         *)
(* outcomes, since headers are visited in any order; an outcome is a       *)
(* context or Failure.                                                     *)
(***************************************************************************)
EXTENDS Integers, Sequences, FiniteSets, SequencesExt, Functions

CONSTANTS
  Base, Width,          (* an ID has Width digits of Base: 16 of 16 in the code *)
  MaxItems, MaxPair,    (* maxBinaryBaggage, maxBinaryNameValueLen              *)
  Characters            (* what keys and values are made of                     *)

ASSUME CodecAssumption ==
  /\ Base \in 2..16 /\ Width \in Nat \ {0} /\ MaxItems \in Nat /\ MaxPair \in Nat
  /\ {"a", "%", "2", "5"} \subseteq Characters

NoFlags == -1
Empty   == [k \in {} |-> <<>>]
Failure == [failed |-> TRUE]

(* An ID is a number below Base^Width: a uint64. *)
IDs ==
  LET power[k \in 0..Width] == IF k = 0 THEN 1 ELSE power[k - 1] * Base
  IN 0..power[Width] - 1

(* Keys and values *)
Text == Seq(Characters)

(* The bits of a flags byte, and the bytes made of them. *)
Flags == {0, 1, 2, 3, 8, 9, 10, 11}

IsSampled(flags)  == flags % 2 = 1
IsDebug(flags)    == (flags \div 2) % 2 = 1
IsFirehose(flags) == (flags \div 8) % 2 = 1

IsValidTrace(c) == c.hi # 0 \/ c.lo # 0
IsValid(c)      == IsValidTrace(c) /\ c.span # 0

-----------------------------------------------------------------------------
(* Numbers as text: sequences of digits.  %016x pads, %x does not. *)
Value(digits, base) ==
  LET value[k \in 0..Len(digits)] == IF k = 0 THEN 0 ELSE value[k - 1] * base + digits[k]
  IN value[Len(digits)]
Padded(n) ==
  LET left[i \in 0..Width] == IF i = Width THEN n ELSE left[i + 1] \div Base
  IN [i \in 1..Width |-> left[i] % Base]
Hex(n)    == IF n < 16 THEN <<n>> ELSE <<n \div 16, n % 16>>

(* strconv.ParseUint: a digit beyond the base is an error, and so is nothing. *)
IsNumber(s, base) == s # <<>> /\ \A i \in DOMAIN s : s[i] \in 0..base - 1

IsSpanID(s)  == Len(s) <= Width /\ IsNumber(s, Base)
IsTraceID(s) == Len(s) <= 2 * Width /\ IsNumber(s, Base)

TraceIDString(c) == IF c.hi = 0 THEN Padded(c.lo) ELSE Padded(c.hi) \o Padded(c.lo)

HighDropped(s) == 0                                               \* mutant

(* TraceIDFromString: the last Width digits are the low half. *)
HighOf(s) == IF Len(s) > Width THEN Value(SubSeq(s, 1, Len(s) - Width), Base) ELSE 0
LowOf(s)  == Value(IF Len(s) > Width THEN SubSeq(s, Len(s) - Width + 1, Len(s)) ELSE s, Base)

(* SpanContext.String, split at its colons.  The flags are written with %x ... *)
ContextString(c) ==
  <<TraceIDString(c), Padded(c.span), Padded(c.parent),
    Hex(IF c.flags = NoFlags THEN 0 ELSE c.flags)>>

(* ... and ContextFromString reads them in base 10, into 8 bits. *)
ContextFromString(parts) ==
  IF Len(parts) = 4 /\ IsTraceID(parts[1]) /\ IsSpanID(parts[2]) /\ IsSpanID(parts[3])
     /\ IsNumber(parts[4], 10) /\ Value(parts[4], 10) < 256
  THEN [hi |-> HighOf(parts[1]), lo |-> LowOf(parts[1]), span |-> Value(parts[2], Base),
        parent |-> Value(parts[3], Base), flags |-> Value(parts[4], 10),
        baggage |-> Empty, debugID |-> FALSE]
  ELSE Failure

-----------------------------------------------------------------------------
(* Text *)
Lower(key) == [i \in DOMAIN key |-> IF key[i] = "A" THEN "a" ELSE key[i]]

(* url.QueryEscape, for the one character of the model that needs it. *)
Escape(v) ==
  LET escaped[k \in 0..Len(v)] ==
        IF k = 0 THEN <<>>
        ELSE escaped[k - 1] \o (IF v[k] = "%" THEN <<"%", "2", "5">> ELSE <<v[k]>>)
  IN escaped[Len(v)]

(* url.QueryUnescape; what it cannot decode is taken as it is. *)
IsEscaped(v) == \A i \in DOMAIN v : v[i] = "%" =>
                  i + 2 <= Len(v) /\ v[i + 1] = "2" /\ v[i + 2] = "5"
Unescape(v) ==
  LET belongs(k) == \/ k > 1 /\ v[k - 1] = "%"
                    \/ k > 2 /\ v[k - 2] = "%"
      decoded[k \in 0..Len(v)] ==
        IF k = 0 THEN <<>>
        ELSE IF belongs(k) THEN decoded[k - 1] ELSE Append(decoded[k - 1], v[k])
  IN IF IsEscaped(v) THEN decoded[Len(v)] ELSE v

encodeValue(format, v) == IF format = "http" THEN Escape(v) ELSE v
decodeValue(format, v) == IF format = "http" THEN Unescape(v) ELSE v

(* Headers visited in any order, their keys lower-cased: of keys that then     *)
(* coincide the one visited last prevails.                                     *)
Collected(items) ==
  {b \in [{Lower(k) : k \in DOMAIN items} -> Range(items)] :
     \A low \in DOMAIN b : \E k \in DOMAIN items : Lower(k) = low /\ b[low] = items[k]}

(* The jaeger-baggage header and the prefixed ones fill one map. *)
Merged(a, b) ==
  {m \in [DOMAIN a \cup DOMAIN b -> Range(a) \cup Range(b)] :
     \A k \in DOMAIN m : \/ k \in DOMAIN a /\ m[k] = a[k]
                         \/ k \in DOMAIN b /\ m[k] = b[k]}

TextInject(format, c) ==
  [format |-> format, trace |-> ContextString(c), debug |-> FALSE, list |-> Empty,
   items |-> [k \in DOMAIN c.baggage |-> encodeValue(format, c.baggage[k])]]

(* The map that the headers fill. *)
HeaderBaggage(carrier) ==
  LET items == [k \in DOMAIN carrier.items |-> decodeValue(carrier.format, carrier.items[k])]
  IN UNION {Merged(carrier.list, b) : b \in Collected(items)}

Completed(ctx, baggages, debugID) ==
  {[ctx EXCEPT !.baggage = b, !.debugID = debugID] : b \in baggages}

FoundOrFailure(c) ==
  IF IsValidTrace(c) \/ c.debugID \/ DOMAIN c.baggage # {} THEN c ELSE Failure

(* A trace header replaces the context read so far, a debug ID included. *)
TextExtract(carrier) ==
  LET none  == [hi |-> 0, lo |-> 0, span |-> 0, parent |-> 0, flags |-> NoFlags,
                baggage |-> Empty, debugID |-> FALSE]
      ctx   == IF carrier.trace = <<>> THEN none ELSE ContextFromString(carrier.trace)
      debug == IF carrier.trace = <<>> THEN {carrier.debug} ELSE {carrier.debug, FALSE}
  IN IF ctx = Failure THEN {Failure}
     ELSE {FoundOrFailure(c) :
             c \in UNION {Completed(ctx, HeaderBaggage(carrier), d) : d \in debug}}

-----------------------------------------------------------------------------
(* Binary: fixed fields, then counted items in the order of the map. *)
BinaryInject(c) ==
  [format |-> "binary", cut |-> FALSE, hi |-> c.hi, lo |-> c.lo, span |-> c.span,
   parent |-> c.parent, flags |-> c.flags, items |-> c.baggage]

(* A cut stream, too many items or too long an item: the carrier is corrupted. *)
BinaryExtract(carrier) ==
  LET items == carrier.items
  IN IF \/ carrier.cut
        \/ Cardinality(DOMAIN items) > MaxItems
        \/ \E k \in DOMAIN items : Len(k) + Len(items[k]) > MaxPair
     THEN Failure
     ELSE [hi |-> carrier.hi, lo |-> carrier.lo, span |-> carrier.span,
           parent |-> carrier.parent, flags |-> carrier.flags, baggage |-> items,
           debugID |-> FALSE]

-----------------------------------------------------------------------------
(* B3 headers: no flags but sampled; the parent only if there is one. *)
B3Inject(c) ==
  [format |-> "b3", trace |-> TraceIDString(c), span |-> Padded(c.span),
   parent |-> IF c.parent = 0 THEN <<>> ELSE Padded(c.parent),
   sampled |-> IsSampled(c.flags), items |-> c.baggage]

B3Extract(carrier) ==
  LET readable == /\ carrier.trace = <<>> \/ IsTraceID(carrier.trace)
                  /\ carrier.span = <<>> \/ IsNumber(carrier.span, Base)
                  /\ carrier.parent = <<>> \/ IsNumber(carrier.parent, Base)
      ctx(m) == [hi |-> HighOf(carrier.trace), lo |-> LowOf(carrier.trace),
                 span |-> Value(carrier.span, Base), parent |-> Value(carrier.parent, Base),
                 flags |-> IF carrier.sampled THEN 1 ELSE 0, baggage |-> m, debugID |-> FALSE]
  IN IF readable /\ IsValidTrace(ctx(Empty))
     THEN {ctx(m) : m \in Collected(carrier.items)} ELSE {Failure}

(* ZipkinSpanFormat: the low half of the trace ID and no baggage. *)
ZipkinInject(c) ==
  [format |-> "zipkin", lo |-> c.lo, span |-> c.span, parent |-> c.parent, flags |-> c.flags]

ZipkinExtract(carrier) ==
  IF carrier.lo = 0 THEN Failure
  ELSE [hi |-> 0, lo |-> carrier.lo, span |-> carrier.span, parent |-> carrier.parent,
        flags |-> carrier.flags, baggage |-> Empty, debugID |-> FALSE]

-----------------------------------------------------------------------------
Formats == {"text", "http", "binary", "b3", "zipkin"}

(* Tracer.Inject and Tracer.Extract select the propagator of the format. *)
Inject(format, c) ==
  CASE format \in {"text", "http"} -> TextInject(format, c)
    [] format = "binary"           -> BinaryInject(c)
    [] format = "b3"               -> B3Inject(c)
    [] format = "zipkin"           -> ZipkinInject(c)

Extract(carrier) ==
  CASE carrier.format \in {"text", "http"} -> TextExtract(carrier)
    [] carrier.format = "binary"           -> {BinaryExtract(carrier)}
    [] carrier.format = "b3"               -> B3Extract(carrier)
    [] carrier.format = "zipkin"           -> {ZipkinExtract(carrier)}
=============================================================================
