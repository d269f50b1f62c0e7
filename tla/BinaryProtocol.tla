--------------------------- MODULE BinaryProtocol ---------------------------
(***************************************************************************)
(* TBinaryProtocol (src/thrift/binary_protocol.go), byte by byte.  Every   *)
(* header has a fixed width and no call depends on the calls before it: a  *)
(* writer is [out, strict] and a reader [wire, pos, ok, v, strict], where  *)
(* strict is TBinaryStrictWrite or TBinaryStrictRead.  Integers are        *)
(* two's complement, highest byte first; a double is its 8 bytes, lowest   *)
(* first, as in CompactProtocol, and goes on the wire highest first.       *)
(***************************************************************************)
EXTENDS Integers, Sequences

CONSTANT MaxMessageSize     \* TConfiguration.GetMaxMessageSize

\* The constants of type.go.
TypeCode == [STOP |-> 0, BOOL |-> 2, BYTE |-> 3, DOUBLE |-> 4, I16 |-> 6, I32 |-> 8,
             I64 |-> 10, STRING |-> 11, STRUCT |-> 12, MAP |-> 13, SET |-> 14, LIST |-> 15]

\* A type the code has no case for is read like any other and fails in Skip.
TType(code) == IF \E t \in DOMAIN TypeCode : TypeCode[t] = code
               THEN CHOOSE t \in DOMAIN TypeCode : TypeCode[t] = code ELSE "UNKNOWN"

----------------------------------------------------------------------------
(* Writing. *)

NewWriter(strict) == [out |-> <<>>, strict |-> strict]

Put(w, bytes) == [w EXCEPT !.out = @ \o bytes]

\* A number without its k lowest bytes, for every k.
Shifted(n, width) ==
    LET left[k \in 0 .. width - 1] == IF k = 0 THEN n ELSE left[k - 1] \div 256
    IN  left

\* binary.BigEndian.PutUint16, 32 and 64 of a signed number.
BigEndian(n, width) == [i \in 1 .. width |-> Shifted(n, width)[width - i] % 256]

WriteInt(w, n, width) == Put(w, BigEndian(n, width))

WriteBool(w, b) == Put(w, <<IF b THEN 1 ELSE 0>>)

Reversed(d) == [i \in 1 .. Len(d) |-> d[Len(d) + 1 - i]]
WriteDouble(w, d) == Put(w, Reversed(d))

WriteBytes(w, s) == Put(w, BigEndian(Len(s), 4) \o s)

WriteMessageBegin(w, name, type, seqid) ==
    IF w.strict THEN WriteInt(WriteBytes(Put(w, <<128, 1, 0, type>>), name), seqid, 4)
    ELSE WriteInt(Put(WriteBytes(w, name), <<type>>), seqid, 4)

WriteFieldBegin(w, type, id) == Put(w, <<TypeCode[type]>> \o BigEndian(id, 2))

WriteFieldStop(w) == Put(w, <<TypeCode.STOP>>)

WriteListBegin(w, type, size) == Put(w, <<TypeCode[type]>> \o BigEndian(size, 4))

----------------------------------------------------------------------------
(* Reading. *)

NewReader(wire, strict) == [wire |-> wire, pos |-> 1, ok |-> TRUE, v |-> 0, strict |-> strict]

Fail(r) == [r EXCEPT !.ok = FALSE]

\* A reader that goes on with F of its result, or fails as before.
Result(r, F(_)) == IF r.ok THEN [r EXCEPT !.v = F(@)] ELSE r

\* Too few bytes are all consumed.
readAll(r, n) ==
    IF ~r.ok THEN r
    ELSE IF r.pos + n - 1 > Len(r.wire) THEN Fail([r EXCEPT !.pos = Len(r.wire) + 1])
    ELSE [r EXCEPT !.pos = @ + n, !.v = SubSeq(r.wire, r.pos, r.pos + n - 1)]

Signed(bytes) ==
    LET upto[k \in 1 .. Len(bytes)] ==
            IF k = 1 THEN IF bytes[1] >= 128 THEN bytes[1] - 256 ELSE bytes[1]
            ELSE 256 * upto[k - 1] + bytes[k]
    IN  upto[Len(bytes)]

ReadInt(r, width) == Result(readAll(r, width), Signed)

ReadBool(r) == Result(readAll(r, 1), LAMBDA b : b[1] = 1)

ReadDouble(r) == Result(readAll(r, 8), Reversed)

\* checkSizeForProtocol, then the bytes.
Sized(n) == IF n.ok /\ n.v \in 0 .. MaxMessageSize THEN readAll(n, n.v) ELSE Fail(n)
ReadBytes(r) == Sized(ReadInt(r, 4))

\* ReadMessageBegin: a version, the type in its last byte, and the name, or
\* for a reader that is not strict the size of the name, the name and the type;
\* then the sequence id.
Message(name, type, seqid) ==
    Result(seqid, LAMBDA v : [name |-> name, type |-> type, seqid |-> v])
NewStyle(type, name) == Message(name.v, type, ReadInt(name, 4))
TypeOfOld(name, type) == Message(name, type.v, ReadInt(type, 4))
OldStyle(name) == TypeOfOld(name.v, ReadInt(name, 1))
SizeOrVersion(size) ==
    IF ~size.ok THEN size
    ELSE IF size.v >= 0 THEN IF size.strict THEN Fail(size) ELSE OldStyle(readAll(size, size.v))
    ELSE IF SubSeq(BigEndian(size.v, 4), 1, 2) # <<128, 1>> THEN Fail(size)
    ELSE NewStyle(size.v % 256, ReadBytes(size))
ReadMessageBegin(r) == SizeOrVersion(ReadInt(r, 4))

\* An error leaves the type as far as it was read: 0, STOP, without its byte.
Field(code, i) == [i EXCEPT !.v = [type |-> TType(code), id |-> IF i.ok THEN @ ELSE 0]]
Header(t) ==
    IF ~t.ok THEN [t EXCEPT !.v = [type |-> "STOP", id |-> 0]]
    ELSE Field(t.v, IF t.v = TypeCode.STOP THEN [t EXCEPT !.v = 0] ELSE ReadInt(t, 2))
ReadFieldBegin(r) == Header(ReadInt(r, 1))

ListOfSize(code, n) ==
    IF n.ok /\ n.v >= 0 THEN [n EXCEPT !.v = [type |-> TType(code), size |-> n.v]] ELSE Fail(n)
ListHeader(t) == ListOfSize(t.v, ReadInt(t, 4))
ReadListBegin(r) == ListHeader(ReadInt(r, 1))

=============================================================================
