----------------------------- MODULE MCPropagation -----------------------------
(* Four digits of base 2 stand for an ID; IDs from 7 on are another client's.  *)
EXTENDS Propagation

MCShapes == {<<>>, <<"childOf">>, <<"followsFrom">>, <<"self">>, <<"followsFrom", "childOf">>}

(* Two keys that differ in case only, a value that needs escaping, one too long. *)
MCItems == {<<<<"a">>, <<"%">>>>, <<<<"A">>, <<"b", "b", "b">>>>, <<<<"a">>, <<>>>>}

MCItem == (<<"A">> :> <<"%">>)

At(max) == [keyAllowed |-> TRUE, maxValueLength |-> max]
Refused == [keyAllowed |-> FALSE, maxValueLength |-> 0]

MCSetups ==
  {[gen128Bit |-> TRUE, zipkinSharedRPCSpan |-> FALSE, interop |-> FALSE, formats |-> {"http"},
    decisions |-> {"sample"}, maxEdits |-> 1, restrictions |-> {At(3), Refused},
    foreign |->
      (* unpadded IDs, and baggage headers of both kinds *)
      {[format |-> "http", trace |-> <<<<1, 1, 1, 0, 1>>, <<1, 1, 1>>, <<0>>, <<1>>>>,
        debug |-> FALSE, list |-> <<"a">> :> <<"c">>, items |-> MCItem]}],
   [gen128Bit |-> FALSE, zipkinSharedRPCSpan |-> TRUE, interop |-> FALSE, formats |-> {"b3", "zipkin"},
    decisions |-> {"retry", "sample"}, maxEdits |-> 1, restrictions |-> {At(1)},
    foreign |->
      {[format |-> "b3", trace |-> <<1, 1, 1>>, span |-> <<1, 1, 1>>, parent |-> <<>>,
        sampled |-> TRUE, items |-> MCItem],
       (* a trace ID whose low half is 0 *)
       [format |-> "b3", trace |-> <<1, 0, 0, 0, 0>>, span |-> <<1, 1, 1>>, parent |-> <<>>,
        sampled |-> TRUE, items |-> Empty]}],
   [gen128Bit |-> FALSE, zipkinSharedRPCSpan |-> FALSE, interop |-> TRUE, formats |-> {"text", "binary"},
    decisions |-> {"no"}, maxEdits |-> 2, restrictions |-> {At(3)},
    foreign |->
      (* a debug ID beside a trace ID of zero; a debug ID or baggage alone; half *)
      (* a header; half a stream                                                 *)
      {[format |-> "text", trace |-> <<<<0>>, <<1, 1, 1>>, <<0>>, <<1>>>>, debug |-> TRUE,
        list |-> Empty, items |-> Empty],
       [format |-> "text", trace |-> <<>>, debug |-> TRUE, list |-> Empty, items |-> Empty],
       [format |-> "text", trace |-> <<>>, debug |-> FALSE, list |-> Empty,
        items |-> MCItem @@ <<"b">> :> <<"c">>],
       [format |-> "text", trace |-> <<<<1>>, <<1>>>>, debug |-> FALSE, list |-> Empty,
        items |-> Empty],
       [format |-> "binary", cut |-> TRUE, hi |-> 0, lo |-> 7, span |-> 7, parent |-> 0,
        flags |-> 1, items |-> Empty]}]}
=============================================================================
