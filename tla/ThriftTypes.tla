---------------------------- MODULE ThriftTypes ----------------------------
(***************************************************************************)
(* The vocabulary in which the generated Thrift structures of              *)
(* src/thrift-gen are described.  Thrift generates four pieces of Go for a *)
(* structure, each from the same template, and a structure is described by *)
(* one table per piece:                                                    *)
(*                                                                         *)
(*   Fields    the Go struct: Held by value, or Nilable                    *)
(*   Cases     the switch of Read: the wire type a field id is read with,  *)
(*             and whether Read fails without it                           *)
(*   Readers   the ReadFieldN functions: what they read                    *)
(*   Writes    Write: the fields in order, the wire type of their header,  *)
(*             what the writeFieldN functions put after it, and whether    *)
(*             they ask IsSetN first                                       *)
(***************************************************************************)
EXTENDS Integers, Sequences

Scalar(kind) == [kind |-> kind, of |-> ""]

Bool == Scalar("bool")
I16 == Scalar("i16")
I32 == Scalar("i32")
I64 == Scalar("i64")
Double == Scalar("double")
String == Scalar("string")
Binary == Scalar("binary")
ListOf(S) == [kind |-> "list", of |-> S]
StructOf(S) == [kind |-> "struct", of |-> S]

Held(id, t) == [id |-> id, t |-> t, nilable |-> FALSE]
Nilable(id, t) == [id |-> id, t |-> t, nilable |-> TRUE]

Need(id, type) == [id |-> id, type |-> type, required |-> TRUE]
May(id, type) == [id |-> id, type |-> type, required |-> FALSE]

At(id, t) == [id |-> id, t |-> t]

Write(id, type, t, when) == [id |-> id, type |-> type, t |-> t, when |-> when]
Always(id, type, t) == Write(id, type, t, "always")
WhenSet(id, type, t) == Write(id, type, t, "not nil")
UnlessDefault(id, type, t) == Write(id, type, t, "not the default")

Struct(fields, cases, readers, writes) ==
    [fields |-> fields, cases |-> cases, readers |-> readers, writes |-> writes]

============================================================================
