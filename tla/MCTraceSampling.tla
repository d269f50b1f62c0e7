--------------------------- MODULE MCTraceSampling ---------------------------
(* Instances of TraceSampling for TLC: a root with one or two children, two    *)
(* goroutines, and a setup for each way a decision is reached.                 *)
EXTENDS TraceSampling, TLC

CONSTANTS root, childA, childB, g1, g2

Goroutines == Permutations({g1, g2})

Setup(delegates, starts, events, spans) ==
  [delegates |-> delegates, prioritised |-> Len(delegates) > 1,
   starts |-> starts, events |-> events, spans |-> spans]

Priority == Setup(<<"tagMatching", "lateBinding", "perOperation">>, {"new", "debug"},
                  {"name", "tag", "matchingTag"}, {root, childA})

(* Two samplers that can finally reject a trace, which tagMatching never does. *)
Rejecting == Setup(<<"lateBinding", "perOperation">>, {"new", "debug"},
                   {"name", "tag"}, {root, childA, childB})

Legacy   == Setup(<<"legacy">>, {"new"}, {"name", "tag", "log"}, {root, childA, childB})
Remote   == Setup(<<"lateBinding">>, {"new", "joinSampled", "joinNotSampled"},
                  {"name", "priority0", "priority1"}, {root, childA})

EverySetup == {Priority, Rejecting, Legacy, Remote}
=============================================================================
