----------------------------- MODULE ThriftWire -----------------------------
(***************************************************************************)
(* One structure or message on its way through a protocol: the generated   *)
(* Write makes its protocol calls one at a time, and the bytes are then    *)
(* read by the generated Read of a peer.  The peer may have been built     *)
(* from an IDL in which a field is unknown or has another type, and it may *)
(* be given only the first bytes.                                          *)
(***************************************************************************)
EXTENDS ThriftStruct

CONSTANTS Structs,      \* the structures written: a subset of DOMAIN Idl
          Messages,     \* those of Structs that travel in a message
          CutBytes      \* only wires up to this length are cut

ASSUME WireAssumption == Structs \subseteq DOMAIN Idl /\ Messages \subseteq Structs

VARIABLES item,     \* [p, S, v, head]: what is written, with which protocol
          calls,    \* the protocol calls still to be made
          w,        \* the protocol that writes
          read      \* what the peer made of it, <<>> before it reads

vars == <<item, calls, w, read>>

----------------------------------------------------------------------------
(* What is written: per structure, small values with every choice of nil   *)
(* fields, and larger ones; a list of 16 needs the long list header.       *)

LongList == 16
Name == [i \in 1 .. 9 |-> 97]       \* a method name as long as emitBatch
CALL == 1
Large == 2 ^ 28                     \* five bytes as a varint, and zigzag

RECURSIVE Sample(_, _), SampleStruct(_, _, _)

Sample(t, k) ==
    CASE t.kind = "struct" -> SampleStruct(t.of, k, k # 1)
      [] t.kind = "list" ->
            IF k = 3 THEN [i \in 1 .. LongList |-> Sample(StructOf(t.of), 1)]
            ELSE IF k = 2 THEN <<Sample(StructOf(t.of), 1), Sample(StructOf(t.of), 2)>>
            ELSE <<>>
      [] t.kind = "bool" -> k = 2
      [] t.kind \in {"string", "binary"} -> IF k = 1 THEN <<>> ELSE <<200, 7>>
      [] t.kind = "double" -> IF k = 1 THEN Zero(t) ELSE [i \in 1 .. 8 |-> 240 + i]
      [] t.kind = "i16" -> IF k = 1 THEN 63 ELSE -200
      [] t.kind \in {"i32", "i64"} -> IF k = 1 THEN -1 ELSE Large

Pick(S, k, nils) ==
    LET here == {f \in Range(Idl[S].fields) : f.id \notin nils}
    IN  [id \in {f.id : f \in here} |->
            Sample((CHOOSE f \in here : f.id = id).t, k)]

NilableIds(S) == {f.id : f \in {f \in Range(Idl[S].fields) : f.nilable}}

SampleStruct(S, k, full) == Pick(S, k, IF full THEN {} ELSE NilableIds(S))

Values(S) == {Pick(S, 1, nils) : nils \in SUBSET NilableIds(S)}
             \cup {SampleStruct(S, k, full) : k \in {2, 3}, full \in BOOLEAN}

Heads(S) == IF S \in Messages
            THEN {[name |-> Name, type |-> CALL, seqid |-> n] : n \in {1, Large}} ELSE {<<>>}

----------------------------------------------------------------------------
(* The reader's tables. *)

RECURSIVE Reaches(_)
Reaches(S) == {S} \cup UNION {Reaches(f.t.of) : f \in {f \in Range(Idl[S].fields) : f.t.of # ""}}

Same == [S |-> "", id |-> 0, how |-> "same"]

Changes(S) == {Same} \cup UNION
    {[S : {s}, id : Ids(Idl[s].cases), how : {"unknown", "other type"}] : s \in Reaches(S)}

\* No structure has a field of the type BYTE.
Tables(c) ==
    CASE c.how = "same" -> Idl
      [] c.how = "unknown" ->
            [Idl EXCEPT ![c.S].cases = SelectSeq(@, LAMBDA e : e.id # c.id)]
      [] c.how = "other type" ->
            [Idl EXCEPT ![c.S].cases =
                [i \in 1 .. Len(@) |-> IF @[i].id = c.id THEN [@[i] EXCEPT !.type = "BYTE"] ELSE @[i]]]

----------------------------------------------------------------------------

Init == \E p \in Protocols, S \in Structs : \E v \in Values(S), head \in Heads(S) :
    /\ item = [p |-> p, S |-> S, v |-> v, head |-> head]
    /\ calls = (IF head = <<>> THEN <<>> ELSE <<Call("message", head)>>) \o WriteCalls(S, v)
    /\ w = NewWriter(p)
    /\ read = <<>>

\* Write makes its next call.
WriteNext ==
    /\ calls # <<>>
    /\ w' = WriteCall(item.p, w, Head(calls))
    /\ calls' = Tail(calls)
    /\ UNCHANGED <<item, read>>

\* What the peer makes of the first n bytes with its own tables: h is its
\* reader after the head of a message, if there is one, s after the structure.
Outcome(c, n, h, s) ==
    [c |-> c, n |-> n, ok |-> s.ok, left |-> n + 1 - s.pos,
     head |-> IF item.head = <<>> \/ ~h.ok THEN <<>> ELSE h.v,
     v |-> IF s.ok THEN s.v ELSE <<>>]

Body(c, n, h) == Outcome(c, n, h, ReadStruct(item.p, Tables(c), item.S, h))

Begin(r) == IF item.head = <<>> THEN r ELSE Get(item.p, r, "message")

ReadWith(c, n) ==
    /\ calls = <<>> /\ read = <<>>
    /\ read' = Body(c, n, Begin(NewReader(item.p, SubSeq(w.out, 1, n))))
    /\ UNCHANGED <<item, calls, w>>

ReadAll == \E c \in Changes(item.S) : ReadWith(c, Len(w.out))

\* A wire that is cut may be cut within a field this reader skips.
ReadPrefix == /\ Len(w.out) <= CutBytes
              /\ \E n \in 0 .. Len(w.out) - 1, c \in Changes(item.S) : ReadWith(c, n)

Next == WriteNext \/ ReadAll \/ ReadPrefix

Spec == Init /\ [][Next]_vars

----------------------------------------------------------------------------
(* Properties. *)

\* What a reader with a changed field can know of a value: everything else.
RECURSIVE Known(_, _, _)
Known(c, S, v) ==
    LET sub(t, x) == CASE t.kind = "struct" -> Known(c, t.of, x)
                       [] t.kind = "list" -> [i \in 1 .. Len(x) |-> Known(c, t.of, x[i])]
                       [] OTHER -> x
        kept == [id \in DOMAIN v \ (IF c.S = S THEN {c.id} ELSE {}) |->
                    sub((CHOOSE f \in Range(Idl[S].fields) : f.id = id).t, v[id])]
    IN  kept @@ Fresh(S)

RECURSIVE Holds(_, _, _)
Holds(S, v, x) ==
    \/ S = x
    \/ \E f \in Range(Idl[S].fields) :
        /\ f.id \in DOMAIN v
        /\ \/ f.t.kind = "struct" /\ Holds(f.t.of, v[f.id], x)
           \/ f.t.kind = "list" /\ \E i \in 1 .. Len(v[f.id]) : Holds(f.t.of, v[f.id][i], x)

Rejected(c) == /\ c.how = "other type"
               /\ Entry(Idl[c.S].cases, c.id).required
               /\ Holds(item.S, item.v, c.S)

\* A peer that has all bytes reads exactly the value that was written, the
\* fields it does not know or knows with another type aside, and stops at its
\* last byte; it refuses the value only for lack of a required field.  (Field
\* deltas across nested and skipped structures, booleans folded into their
\* header, long list headers, nil against empty, defaults.)
RoundTrip ==
    read # <<>> /\ read.n = Len(w.out) =>
        /\ read.head = item.head
        /\ read.ok = ~Rejected(read.c)
        /\ read.ok => read.left = 0 /\ read.v = Known(read.c, item.S, item.v)

\* A cut message is never taken for a shorter one, wherever it is cut and
\* whatever its reader skips.  Readers have defaults for what they did not get,
\* and thrift.Skip takes the end of the bytes for the end of a structure
\* (protocol.go:125); it is the Read that called Skip which must notice.
TruncationRejected == read # <<>> /\ read.n < Len(w.out) => ~read.ok

\* transport_udp.go: the spans and the process are measured one by one, each
\* as a structure of its own, and emitBatchOverhead is what the message may
\* need besides.  The four counters of a batch take up to 5 bytes each here, where
\* a counter below 2^62 can take 9, and the list header 2, where 4 are enough
\* for a million spans: that difference is counted in.
emitBatchOverhead == 70

EnvelopeBounded ==
    calls = <<>> /\ item.S = "EmitBatchArgs" /\ item.p = "compact" =>
        LET batch == item.v[1]
            size(S, v) == Len(Bytes("compact", WriteCalls(S, v)))
            spans == FoldLeft(LAMBDA n, s : n + size("Span", s), 0, batch[2])
        IN  Len(w.out) + 4 * 4 + 2 <= size("Process", batch[1]) + spans + emitBatchOverhead

=============================================================================
