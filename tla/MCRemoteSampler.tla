--------------------------- MODULE MCRemoteSampler ---------------------------
(* An instance of RemoteSampler for TLC: three operations, two of which may be *)
(* tracked, and a server that answers with strategies of every kind.         *)
EXTENDS RemoteSampler, TLC

CONSTANTS u1, u2, loop, manual, closer1, closer2, get, put, del

PerOp(default, bound, rates) ==
  [type |-> "perOperation", default |-> default, bound |-> bound, rates |-> rates]

Bare == PerOp(1, 1, [op \in {} |-> 0])
Other == PerOp(3, 2, get :> 1 @@ put :> 0)
Large == PerOp(0, 1, get :> 1 @@ put :> 1 @@ del :> 2)
TooBig == [type |-> "probabilistic", rate |-> 3]
Limit == [type |-> "rateLimiting", rate |-> 5]

EveryKind == {Bare, Other, TooBig, Limit}
WithLarge == {Bare, Large}
=============================================================================
