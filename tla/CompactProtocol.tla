-------------------------- MODULE CompactProtocol --------------------------
(***************************************************************************)
(* TCompactProtocol (src/thrift/compact_protocol.go), byte by byte: what   *)
(* each protocol call of the generated code puts on the wire, and what     *)
(* each call takes from it.  The field id deltas make a call depend on the *)
(* calls before it: a writer is [out, stack, last, pending] (the bytes     *)
(* written, lastField, lastFieldId, the id of a boolean field whose header *)
(* waits for its value) and a reader [wire, pos, ok, v, stack, last, bool] *)
(* (v is the result of the last call, bool the value a field header        *)
(* carried).  A double is its 8 bytes, lowest first, a string its bytes.   *)
(* Integers are unbounded here; the runs stay below 2^30.                  *)
(***************************************************************************)
EXTENDS Integers, Sequences

CONSTANT MaxMessageSize     \* TConfiguration.GetMaxMessageSize

TRUE_NIBBLE == 1
FALSE_NIBBLE == 2

\* ttypeToCompactType, and getTType, which also knows the second boolean.
CompactType == [STOP |-> 0, BOOL |-> 1, BYTE |-> 3, I16 |-> 4, I32 |-> 5, I64 |-> 6,
                DOUBLE |-> 7, STRING |-> 8, LIST |-> 9, SET |-> 10, MAP |-> 11, STRUCT |-> 12]

KnownNibble(n) == n = FALSE_NIBBLE \/ \E t \in DOMAIN CompactType : CompactType[t] = n

TType(n) == IF n = FALSE_NIBBLE THEN "BOOL"
            ELSE CHOOSE t \in DOMAIN CompactType : CompactType[t] = n

----------------------------------------------------------------------------
(* Writing. *)

NewWriter == [out |-> <<>>, stack |-> <<>>, last |-> 0, pending |-> <<>>]

Put(w, bytes) == [w EXCEPT !.out = @ \o bytes]

Varint(n) ==
    LET low[m \in 0 .. n] == IF m < 128 THEN <<m>> ELSE <<128 + (m % 128)>> \o low[m \div 128]
    IN  low[n]

ZigZag(n) == IF n >= 0 THEN 2 * n ELSE -(2 * n) - 1

WriteInt(w, n) == Put(w, Varint(ZigZag(n)))

WriteBytes(w, s) == Put(w, Varint(Len(s)) \o s)

WriteDouble(w, d) == Put(w, d)

WriteByte(w, b) == Put(w, <<b % 256>>)

WriteMessageBegin(w, name, type, seqid) ==
    WriteBytes(Put(w, <<130, 1 + 32 * type>> \o Varint(seqid)), name)

WriteStructBeginKeepsLast(w) == [w EXCEPT !.stack = Append(@, w.last)]      \* mutant

WriteStructBegin(w) == [w EXCEPT !.stack = Append(@, w.last), !.last = 0]

WriteStructEndForgets(w) == [w EXCEPT !.stack = SubSeq(@, 1, Len(@) - 1)]   \* mutant

WriteStructEnd(w) == [w EXCEPT !.last = w.stack[Len(w.stack)],
                               !.stack = SubSeq(@, 1, Len(@) - 1)]

writeFieldBeginInternal(w, nibble, id) ==
    LET delta == id - w.last
        header == IF delta \in 1 .. 15 THEN <<16 * delta + nibble>>
                  ELSE <<nibble>> \o Varint(ZigZag(id))
    IN  [Put(w, header) EXCEPT !.last = id]

WriteFieldBegin(w, type, id) ==
    IF type = "BOOL" THEN [w EXCEPT !.pending = <<id>>]
    ELSE writeFieldBeginInternal(w, CompactType[type], id)

WriteFieldStop(w) == Put(w, <<0>>)

WriteListBegin(w, type, size) ==
    Put(w, IF size <= 14 THEN <<16 * size + CompactType[type]>>
           ELSE <<240 + CompactType[type]>> \o Varint(size))

WriteBool(w, b) ==
    LET nibble == IF b THEN TRUE_NIBBLE ELSE FALSE_NIBBLE
    IN  IF w.pending = <<>> THEN Put(w, <<nibble>>)
        ELSE [writeFieldBeginInternal(w, nibble, w.pending[1]) EXCEPT !.pending = <<>>]

----------------------------------------------------------------------------
(* Reading. *)

NewReader(wire) == [wire |-> wire, pos |-> 1, ok |-> TRUE, v |-> 0,
                    stack |-> <<>>, last |-> 0, bool |-> <<>>]

Fail(r) == [r EXCEPT !.ok = FALSE]

\* A reader that goes on with F of its result, or fails as before.
Result(r, F(_)) == IF r.ok THEN [r EXCEPT !.v = F(@)] ELSE r

\* Too few bytes are all consumed.
ReadBytesN(r, n) ==
    IF ~r.ok THEN r
    ELSE IF r.pos + n - 1 > Len(r.wire) THEN Fail([r EXCEPT !.pos = Len(r.wire) + 1])
    ELSE [r EXCEPT !.pos = @ + n, !.v = SubSeq(r.wire, r.pos, r.pos + n - 1)]

readByteDirect(r) == Result(ReadBytesN(r, 1), Head)

\* from[i] is the reader that has read on from byte i.
Upper(low, rest) == Result(rest, LAMBDA v : (low - 128) + 128 * v)
readVarint(r) ==
    LET from[i \in r.pos .. Len(r.wire) + 1] ==
            IF i > Len(r.wire) THEN Fail([r EXCEPT !.pos = i])
            ELSE IF r.wire[i] < 128 THEN [r EXCEPT !.pos = i + 1, !.v = r.wire[i]]
            ELSE Upper(r.wire[i], from[i + 1])
    IN  IF r.ok THEN from[r.pos] ELSE r

UnZigZag(n) == IF n % 2 = 0 THEN n \div 2 ELSE -((n + 1) \div 2)

ReadInt(r) == Result(readVarint(r), UnZigZag)

Sized(n) == IF n.ok /\ n.v <= MaxMessageSize THEN ReadBytesN(n, n.v) ELSE Fail(n)
ReadBytes(r) == Sized(readVarint(r))

ReadDouble(r) == ReadBytesN(r, 8)

ReadByte(r) == Result(readByteDirect(r), LAMBDA b : IF b >= 128 THEN b - 256 ELSE b)

\* ReadMessageBegin, and what follows the protocol id, the version with the
\* type, the sequence id, and the name.
AfterName(type, seqid, name) ==
    Result(name, LAMBDA v : [name |-> v, type |-> type, seqid |-> seqid])
AfterSeqid(type, seqid) == AfterName(type, seqid.v, ReadBytes(seqid))
AfterVersion(vt) ==
    IF ~vt.ok \/ vt.v % 32 # 1 THEN Fail(vt) ELSE AfterSeqid(vt.v \div 32, readVarint(vt))
AfterId(id) == IF ~id.ok \/ id.v # 130 THEN Fail(id) ELSE AfterVersion(readByteDirect(id))
ReadMessageBegin(r) == AfterId(readByteDirect(r))

ReadStructBegin(r) == [r EXCEPT !.stack = Append(@, r.last), !.last = 0]

ReadStructEnd(r) == [r EXCEPT !.last = r.stack[Len(r.stack)],
                              !.stack = SubSeq(@, 1, Len(@) - 1)]

NoField == [type |-> "STOP", id |-> 0]

\* A field whose id has been read.
Field(nibble, i) ==
    IF ~i.ok \/ ~KnownNibble(nibble) THEN Fail([i EXCEPT !.v = NoField])
    ELSE [i EXCEPT !.v = [type |-> TType(nibble), id |-> i.v],
                   !.last = i.v,
                   !.bool = IF nibble \in {TRUE_NIBBLE, FALSE_NIBBLE}
                            THEN <<nibble = TRUE_NIBBLE>> ELSE @]

HeaderAtEnd(t) ==                                                           \* mutant
    IF ~t.ok \/ t.v % 16 = 0 THEN [t EXCEPT !.v = NoField, !.ok = TRUE]
    ELSE Field(t.v % 16, IF t.v \div 16 = 0 THEN ReadInt(t)
                         ELSE [t EXCEPT !.v = t.last + (t.v \div 16)])

\* The short header has a delta, the long one (delta 0) is followed by the id.
\* An error leaves the type STOP.
Header(t) ==
    IF ~t.ok \/ t.v % 16 = 0 THEN [t EXCEPT !.v = NoField]
    ELSE Field(t.v % 16, IF t.v \div 16 = 0 THEN ReadInt(t)
                         ELSE [t EXCEPT !.v = t.last + (t.v \div 16)])

ReadFieldBegin(r) == Header(readByteDirect(r))

ListOfSize(nibble, n) ==
    IF ~n.ok \/ ~KnownNibble(nibble) THEN Fail(n)
    ELSE [n EXCEPT !.v = [type |-> TType(nibble), size |-> n.v]]
ListHeader(t) ==
    IF ~t.ok THEN t
    ELSE ListOfSize(t.v % 16, IF t.v \div 16 = 15 THEN readVarint(t)
                              ELSE [t EXCEPT !.v = t.v \div 16])
ReadListBegin(r) == ListHeader(readByteDirect(r))

ReadBool(r) ==
    IF r.bool # <<>> THEN [r EXCEPT !.v = r.bool[1], !.bool = <<>>]
    ELSE Result(readByteDirect(r), LAMBDA b : b = TRUE_NIBBLE)

============================================================================
