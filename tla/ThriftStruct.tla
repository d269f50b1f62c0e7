---------------------------- MODULE ThriftStruct ----------------------------
(***************************************************************************)
(* The template of the generated Read and Write functions, for any         *)
(* structure of the tables, any version of the reader's tables, and both   *)
(* protocols: the protocol calls a Write makes, and what a Read makes of   *)
(* the bytes it is given.  thrift.Skip passes over what a reader does not  *)
(* know.  A structure in memory is a function from field ids to values; a  *)
(* field that is nil is not in its domain.                                 *)
(***************************************************************************)
EXTENDS Integers, SequencesExt, TLC, ThriftCalls, JaegerIdl, ZipkinIdl, AgentIdl

Idl == Jaeger @@ Zipkin @@ Agent

DEFAULT_RECURSION_DEPTH == 64

----------------------------------------------------------------------------
(* Write: the protocol calls, in order.  The End calls of fields and lists *)
(* do nothing in either protocol and are left out.                         *)

Call(op, arg) == [op |-> op, arg |-> arg]

ElementType == "STRUCT"     \* every list of these structures holds structures

Zero(t) == CASE t.kind = "bool" -> FALSE
             [] t.kind \in {"i16", "i32", "i64"} -> 0
             [] t.kind = "double" -> [i \in 1 .. 8 |-> 0]
             [] t.kind \in {"string", "binary", "list", "struct"} -> <<>>

\* &Tag{}: what a structure holds before anything is read into it.
Fresh(S) ==
    LET held == {i \in 1 .. Len(Idl[S].fields) : ~Idl[S].fields[i].nilable}
    IN  [id \in {Idl[S].fields[i].id : i \in held} |->
            Zero(Idl[S].fields[CHOOSE i \in held : Idl[S].fields[i].id = id].t)]

\* The IsSetN a writeFieldN asks: not nil, or for a field with a default,
\* another value than the default (all defaults of these structures are zero).
IsWritten(w, v) == CASE w.when = "always" -> TRUE
                     [] w.when = "not nil" -> w.id \in DOMAIN v
                     [] w.when = "not the default" -> v[w.id] # Zero(w.t)

RECURSIVE WriteCalls(_, _), ValueCalls(_, _)

ValueCalls(t, v) ==
    CASE t.kind = "struct" -> WriteCalls(t.of, v)
      [] t.kind = "list" ->
            <<Call("list", [type |-> ElementType, size |-> Len(v)])>>
            \o FlattenSeq([i \in 1 .. Len(v) |-> WriteCalls(t.of, v[i])])
      [] OTHER -> <<Call(t.kind, v)>>

FieldCalls(w, v) ==
    IF ~IsWritten(w, v) THEN <<>>
    ELSE <<Call("field", [type |-> w.type, id |-> w.id])>> \o ValueCalls(w.t, v[w.id])

WriteCalls(S, v) ==
    <<Call("struct", 0)>>
    \o FlattenSeq([i \in 1 .. Len(Idl[S].writes) |-> FieldCalls(Idl[S].writes[i], v)])
    \o <<Call("stop", 0), Call("structEnd", 0)>>

Bytes(p, calls) == FoldLeft(LAMBDA w, c : WriteCall(p, w, c), NewWriter(p), calls).out

Fail(r) == [r EXCEPT !.ok = FALSE]

----------------------------------------------------------------------------
(* thrift.Skip.  Reading the fields of a structure it ignores the error of *)
(* ReadFieldBegin: if the type is then STOP, the structure just ends.  No  *)
(* structure of the tables holds a byte, a map or a set; the branches for  *)
(* them are left out.                                                      *)

ScalarOf == [BOOL |-> "bool", I16 |-> "i16", I32 |-> "i32", I64 |-> "i64",
             DOUBLE |-> "double", STRING |-> "string"]

RECURSIVE Skip(_, _, _, _), SkipNext(_, _, _), SkipElements(_, _, _, _)

\* f is the reader after ReadFieldBegin, l the one after ReadListBegin.
SkipField(p, f, depth) ==
    IF f.v.type = "STOP" THEN Get(p, f, "structEnd")
    ELSE SkipNext(p, Skip(p, f, f.v.type, depth - 1), depth)

SkipNext(p, r, depth) ==
    IF r.ok THEN SkipField(p, [Get(p, r, "field") EXCEPT !.ok = TRUE], depth) ELSE r

SkipElements(p, r, list, depth) ==
    IF ~r.ok \/ list.size = 0 THEN r
    ELSE SkipElements(p, Skip(p, r, list.type, depth - 1), [list EXCEPT !.size = @ - 1], depth)

SkipList(p, l, depth) == IF l.ok THEN SkipElements(p, l, l.v, depth) ELSE l

Skip(p, r, type, depth) ==
    IF depth <= 0 THEN Fail(r)
    ELSE IF type \in DOMAIN ScalarOf THEN Get(p, r, ScalarOf[type])
    ELSE IF type = "STRUCT" THEN SkipNext(p, Get(p, r, "struct"), depth)
    ELSE IF type = "LIST" THEN SkipList(p, Get(p, r, "list"), depth)
    ELSE Fail(r)

----------------------------------------------------------------------------
(* Read, with the tables T of the reader. *)

Entry(table, id) == table[CHOOSE i \in 1 .. Len(table) : table[i].id = id]
Ids(table) == {table[i].id : i \in 1 .. Len(table)}

RECURSIVE ReadStruct(_, _, _, _), ReadFields(_, _, _, _, _, _), ReadElements(_, _, _, _, _, _)

ReadElements(p, T, S, r, n, got) ==
    IF n = 0 \/ ~r.ok THEN [r EXCEPT !.v = got]
    ELSE LET Element(e) == ReadElements(p, T, S, e, n - 1, Append(got, e.v))
         IN Element(ReadStruct(p, T, S, r))

ReadList(p, T, S, l) == IF l.ok THEN ReadElements(p, T, S, l, l.v.size, <<>>) ELSE l

ReadValue(p, T, t, r) ==
    CASE t.kind = "struct" -> ReadStruct(p, T, t.of, r)
      [] t.kind = "list" -> ReadList(p, T, t.of, Get(p, r, "list"))
      [] OTHER -> Get(p, r, t.kind)

ReadEnd(T, S, end, got, isset) ==
    IF \A c \in Range(T[S].cases) : c.required => c.id \in isset
    THEN [end EXCEPT !.v = got] ELSE Fail(end)

\* The loop: got is the structure so far, isset the ids that were read.
ReadStored(p, T, S, id, value, got, isset) ==
    ReadFields(p, T, S, value, (id :> value.v) @@ got, isset \cup {id})

ReadField(p, T, S, f, got, isset) ==
    IF ~f.ok THEN f
    ELSE IF f.v.type = "STOP" THEN ReadEnd(T, S, Get(p, f, "structEnd"), got, isset)
    ELSE IF f.v.id \in Ids(T[S].cases) /\ Entry(T[S].cases, f.v.id).type = f.v.type
    THEN ReadStored(p, T, S, f.v.id, ReadValue(p, T, Entry(T[S].readers, f.v.id).t, f), got, isset)
    ELSE ReadFields(p, T, S, Skip(p, f, f.v.type, DEFAULT_RECURSION_DEPTH), got, isset)

ReadFields(p, T, S, r, got, isset) ==
    IF r.ok THEN ReadField(p, T, S, Get(p, r, "field"), got, isset) ELSE r

ReadStruct(p, T, S, r) == ReadFields(p, T, S, Get(p, r, "struct"), Fresh(S), {})

=============================================================================
