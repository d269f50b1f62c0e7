---------------------------- MODULE ThriftCalls ----------------------------
(***************************************************************************)
(* thrift.TProtocol, the interface through which the generated code writes *)
(* and reads (src/thrift/protocol.go), and the two protocols behind it: a  *)
(* call [op, arg] of a writer, and what a reader is asked for, by its op.  *)
(* The End calls of fields and lists do nothing in either protocol and are *)
(* left out.                                                               *)
(***************************************************************************)
EXTENDS Integers, Sequences, FiniteSets

CONSTANT MaxMessageSize      \* TConfiguration.MaxMessageSize

C == INSTANCE CompactProtocol
B == INSTANCE BinaryProtocol

\* The strictness of the binary protocol is part of its configuration.
Protocols == {"compact", "binary", "lax binary"}

CompactCall(w, c) ==
    CASE c.op = "message" -> C!WriteMessageBegin(w, c.arg.name, c.arg.type, c.arg.seqid)
      [] c.op = "struct" -> C!WriteStructBegin(w)
      [] c.op = "structEnd" -> C!WriteStructEnd(w)
      [] c.op = "field" -> C!WriteFieldBegin(w, c.arg.type, c.arg.id)
      [] c.op = "stop" -> C!WriteFieldStop(w)
      [] c.op = "list" -> C!WriteListBegin(w, c.arg.type, c.arg.size)
      [] c.op = "bool" -> C!WriteBool(w, c.arg)
      [] c.op \in {"i16", "i32", "i64"} -> C!WriteInt(w, c.arg)
      [] c.op = "double" -> C!WriteDouble(w, c.arg)
      [] c.op \in {"string", "binary"} -> C!WriteBytes(w, c.arg)

Width == [i16 |-> 2, i32 |-> 4, i64 |-> 8]

BinaryCall(w, c) ==
    CASE c.op = "message" -> B!WriteMessageBegin(w, c.arg.name, c.arg.type, c.arg.seqid)
      [] c.op \in {"struct", "structEnd"} -> w
      [] c.op = "field" -> B!WriteFieldBegin(w, c.arg.type, c.arg.id)
      [] c.op = "stop" -> B!WriteFieldStop(w)
      [] c.op = "list" -> B!WriteListBegin(w, c.arg.type, c.arg.size)
      [] c.op = "bool" -> B!WriteBool(w, c.arg)
      [] c.op \in {"i16", "i32", "i64"} -> B!WriteInt(w, c.arg, Width[c.op])
      [] c.op = "double" -> B!WriteDouble(w, c.arg)
      [] c.op \in {"string", "binary"} -> B!WriteBytes(w, c.arg)

NewWriter(p) == IF p = "compact" THEN C!NewWriter ELSE B!NewWriter(p = "binary")
NewReader(p, wire) == IF p = "compact" THEN C!NewReader(wire) ELSE B!NewReader(wire, p = "binary")
WriteCall(p, w, c) == IF p = "compact" THEN CompactCall(w, c) ELSE BinaryCall(w, c)

CompactGet(r, op) ==
    CASE op = "message" -> C!ReadMessageBegin(r)
      [] op = "struct" -> C!ReadStructBegin(r)
      [] op = "structEnd" -> C!ReadStructEnd(r)
      [] op = "field" -> C!ReadFieldBegin(r)
      [] op = "list" -> C!ReadListBegin(r)
      [] op = "bool" -> C!ReadBool(r)
      [] op \in {"i16", "i32", "i64"} -> C!ReadInt(r)
      [] op = "double" -> C!ReadDouble(r)
      [] op \in {"string", "binary"} -> C!ReadBytes(r)

BinaryGet(r, op) ==
    CASE op = "message" -> B!ReadMessageBegin(r)
      [] op \in {"struct", "structEnd"} -> r
      [] op = "field" -> B!ReadFieldBegin(r)
      [] op = "list" -> B!ReadListBegin(r)
      [] op = "bool" -> B!ReadBool(r)
      [] op \in {"i16", "i32", "i64"} -> B!ReadInt(r, Width[op])
      [] op = "double" -> B!ReadDouble(r)
      [] op \in {"string", "binary"} -> B!ReadBytes(r)

Get(p, r, op) == IF p = "compact" THEN CompactGet(r, op) ELSE BinaryGet(r, op)

----------------------------------------------------------------------------
(* Calls in a row.  A stop is read by the ReadFieldBegin that finds no more *)
(* fields.                                                                  *)

Asked(c) == IF c.op = "stop" THEN "field" ELSE c.op

\* The writer after each of the calls cs, and the reader that is asked for them.
Writers(p, cs) ==
    LET w[k \in 0 .. Len(cs)] == IF k = 0 THEN NewWriter(p) ELSE WriteCall(p, w[k - 1], cs[k])
    IN  w

Readers(p, wire, cs) ==
    LET r[k \in 0 .. Len(cs)] == IF k = 0 THEN NewReader(p, wire)
                                 ELSE Get(p, r[k - 1], Asked(cs[k]))
    IN  r

\* What a call is to be read back as: the end of a structure's fields as a field
\* of the type STOP, a structure as nothing, the others as they were written.
Back(v, c) ==
    /\ c.op = "stop" => v = C!NoField
    /\ c.op \notin {"struct", "structEnd", "stop"} => v = c.arg

\* A wire that begins with what was written, or with what arrived of it.
Common(wire, out) == \A i \in 1 .. Len(out) : i <= Len(wire) => wire[i] = out[i]

Byte == 0 .. 255
ByteStrings == {s \in Seq(Byte) : Len(s) <= MaxMessageSize}
WireTypes == DOMAIN C!CompactType \ {"STOP"}
MessageTypes == 1 .. 4          \* CALL, REPLY, EXCEPTION, ONEWAY

\* Signed numbers of so many bytes: what is above the lower ones is a signed byte.
Numbers(width) == {n \in Int : B!Shifted(n, width)[width - 1] \in -128 .. 127}
Sizes == Nat \cap Numbers(4)

\* MaxMessageSize is an int32.
ASSUME MessageSizeAssumption == MaxMessageSize \in Sizes

\* The calls generated code can make: the numbers are in the range of their Go
\* types, sizes and sequence ids are not negative.
ProtocolCalls ==
    [op : {"struct", "structEnd", "stop"}, arg : {0}]
    \cup [op : {"message"}, arg : [name : ByteStrings, type : MessageTypes, seqid : Sizes]]
    \cup [op : {"field"}, arg : [type : WireTypes, id : Numbers(2)]]
    \cup [op : {"list"}, arg : [type : WireTypes, size : Sizes]]
    \cup [op : {"bool"}, arg : BOOLEAN]
    \cup [op : {"i16"}, arg : Numbers(2)]
    \cup [op : {"i32"}, arg : Numbers(4)]
    \cup [op : {"i64"}, arg : Numbers(8)]
    \cup [op : {"double"}, arg : {s \in Seq(Byte) : Len(s) = 8}]
    \cup [op : {"string", "binary"}, arg : ByteStrings]

\* How many of the first k calls are op.
Made(cs, op, k) == Cardinality({i \in 1 .. k : cs[i].op = op})

BoolField(c) == c.op = "field" /\ c.arg.type = "BOOL"

\* The order generated code keeps to: no structure ends that was not begun, and
\* the header of a boolean field is followed by its value.
Orderly(cs) ==
    /\ cs \in Seq(ProtocolCalls)
    /\ \A k \in 1 .. Len(cs) : Made(cs, "structEnd", k) <= Made(cs, "struct", k)
    /\ \A k \in 1 .. Len(cs) : BoolField(cs[k]) => k < Len(cs) /\ cs[k + 1].op = "bool"

=============================================================================
