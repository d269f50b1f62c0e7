---------------------------- MODULE RemoteSampler ----------------------------
(***************************************************************************)
(* RemotelyControlledSampler (sampler_remote.go) and the samplers it       *)
(* updates (sampler.go).  A loop, and manual calls of UpdateSampler, fetch *)
(* the strategy of a server and rebuild the sampler or change it in place, *)
(* under the write lock; spans consult it under the read lock.  A          *)
(* PerOperationSampler adds operations while it is consulted.              *)
(*                                                                         *)
(* A rate is a number of steps, MaxRate standing for 1.0; sampling dice    *)
(* are left out: a consultation is the rate and tags it is made with.      *)
(***************************************************************************)
EXTENDS Integers, FiniteSets

CONSTANTS
  Users,             (* goroutines that consult the sampler                  *)
  Loop, Manuals,     (* callers of UpdateSampler: the loop, and others, once *)
  Closers,           (* goroutines that call Close                           *)
  Operations,        (* operation names                                      *)
  Strategies,        (* what the server may answer                           *)
  InitialRate,       (* rate of the initial ProbabilisticSampler             *)
  MaxRate, MaxOperations,
  MaxServerChanges, MaxConsults     (* bounds                                *)

Pollers == Manuals \cup {Loop}

ASSUME SamplerAssumption ==
  /\ Loop \notin Manuals /\ MaxOperations \in Nat \ {0}
  /\ MaxRate \in Nat \ {0} /\ InitialRate \in 0..MaxRate
  /\ MaxServerChanges \in Nat /\ MaxConsults \in Nat

(* What a response may be once it is parsed; a rate may exceed 1.0. *)
ASSUME StrategyAssumption ==
  \A s \in Strategies :
    \/ s.type \in {"probabilistic", "rateLimiting"} /\ s.rate \in Nat
    \/ /\ s.type = "perOperation" /\ s.default \in Nat /\ s.bound \in Nat
       /\ DOMAIN s.rates \subseteq Operations /\ IsFiniteSet(DOMAIN s.rates)
       /\ \A op \in DOMAIN s.rates : s.rates[op] \in Nat

VARIABLES
  server, serverChanges,
  sampler,                (* the delegate                                    *)
  pollPc, response,       (* of each poller                                  *)
  closed, closePc,        (* the flag; of each closer                        *)
  userPc, operation, got, (* of each user: the sampler entry it has in hand  *)
  consults,
  applied,                (* history: the last strategy that was applied     *)
  seen,                   (* history: the limiter that first served each     *)
                          (* operation since it is in the map                *)
  made                    (* history: limiters made for each operation       *)

serverVars == <<server, serverChanges>>
userVars   == <<userPc, operation, got, consults>>
vars == <<serverVars, sampler, pollPc, response, closed, closePc, userVars, applied, seen, made>>

Clamp(rate) == IF rate > MaxRate THEN MaxRate ELSE rate
Probabilistic(rate) == [type |-> "probabilistic", rate |-> Clamp(rate)]
NoStrategy == [type |-> "none"]
NoEntry    == [rate |-> -1, bound |-> -1, id |-> 0]

Init ==
  /\ server \in Strategies /\ serverChanges = 0
  /\ sampler = Probabilistic(InitialRate)
  /\ pollPc = [p \in Pollers |-> "idle"] /\ response = [p \in Pollers |-> NoStrategy]
  /\ closed = 0 /\ closePc = [c \in Closers |-> "start"]
  /\ userPc = [u \in Users |-> "idle"] /\ got = [u \in Users |-> NoEntry]
  /\ (\E op \in Operations : operation = [u \in Users |-> op]) /\ consults = 0
  /\ applied = NoStrategy /\ seen = [op \in Operations |-> 0]
  /\ made = [op \in Operations |-> 0]

NoReader == \A u \in Users : userPc[u] = "idle"

ServerChanges ==
  /\ serverChanges < MaxServerChanges /\ serverChanges' = serverChanges + 1
  /\ server' \in Strategies \ {server}
  /\ UNCHANGED <<sampler, pollPc, response, closed, closePc, userVars, applied, seen, made>>

-----------------------------------------------------------------------------
(* PerOperationSampler: an entry is a GuaranteedThroughputProbabilisticSampler *)
(* with its rate, its lower bound, and the identity of its rate limiter: every *)
(* limiter that is made gets an identity no limiter of the operation had.      *)
Tracked == IF sampler.type = "perOperation" THEN DOMAIN sampler.entries ELSE {}

NewEntry(rate, bound, id) == [rate |-> Clamp(rate), bound |-> bound, id |-> id]

NewLimiter(op) == made[op] + 1

(* NewPerOperationSampler *)
FreshPerOperation(s) ==
  [type |-> "perOperation", default |-> Clamp(s.default), bound |-> s.bound,
   entries |-> [op \in DOMAIN s.rates |-> NewEntry(s.rates[op], s.bound, NewLimiter(op))]]

UpdateKeepingOthers(old, s) ==                                   \* mutant
  [type |-> "perOperation", default |-> Clamp(s.default), bound |-> s.bound,
   entries |-> [op \in DOMAIN s.rates \cup DOMAIN old.entries |->
                  IF op \in DOMAIN s.rates
                  THEN NewEntry(s.rates[op], s.bound,
                                IF op \in DOMAIN old.entries THEN old.entries[op].id
                                ELSE NewLimiter(op))
                  ELSE old.entries[op]]]

(* PerOperationSampler.update: entries of the strategy are changed in place or *)
(* created, all others dropped.                                                *)
UpdatePerOperation(old, s) ==
  [type |-> "perOperation", default |-> Clamp(s.default), bound |-> s.bound,
   entries |-> [op \in DOMAIN s.rates |->
                  NewEntry(s.rates[op], s.bound,
                           IF op \in DOMAIN old.entries THEN old.entries[op].id
                           ELSE NewLimiter(op))]]

(* ProbabilisticSampler.Update refuses a rate that its constructor clamps. *)
Refused(s) ==
  \/ s.type = "none"
  \/ s.type = "probabilistic" /\ sampler.type = "probabilistic" /\ s.rate > MaxRate

(* updateSamplerViaUpdaters *)
Updated(s) ==
  CASE s.type = "perOperation"  -> IF sampler.type = "perOperation"
                                   THEN UpdatePerOperation(sampler, s) ELSE FreshPerOperation(s)
    [] s.type = "probabilistic" -> Probabilistic(s.rate)
    [] s.type = "rateLimiting"  -> [type |-> "rateLimiting", rate |-> s.rate]

(* The history counts the limiters the new entries were made with. *)
CountLimiters ==
  made' = [op \in Operations |->
             IF /\ sampler'.type = "perOperation" /\ op \in DOMAIN sampler'.entries
                /\ sampler'.entries[op].id > made[op]
             THEN sampler'.entries[op].id ELSE made[op]]

-----------------------------------------------------------------------------
(* UpdateSampler, in the loop or called by hand *)
StartFetch(p) ==
  /\ pollPc[p] = "idle"
  /\ pollPc' = [pollPc EXCEPT ![p] = "fetching"]
  /\ UNCHANGED <<serverVars, sampler, response, closed, closePc, userVars, applied, seen, made>>

PollerEnds(p) == "exited"                                        \* mutant

(* The loop waits for the next tick, a manual call returns. *)
PollerDone(p) == IF p = Loop THEN "idle" ELSE "exited"

Fetched(p) ==
  /\ pollPc[p] = "fetching"
  /\ response' = [response EXCEPT ![p] = server]
  /\ pollPc' = [pollPc EXCEPT ![p] = "apply"]
  /\ UNCHANGED <<serverVars, sampler, closed, closePc, userVars, applied, seen, made>>

(* The query fails or the response cannot be parsed. *)
FetchFails(p) ==
  /\ pollPc[p] = "fetching"
  /\ pollPc' = [pollPc EXCEPT ![p] = PollerDone(p)]
  /\ UNCHANGED <<serverVars, sampler, response, closed, closePc, userVars, applied, seen, made>>

ApplyUnlocked(p) ==                                              \* mutant
  /\ pollPc[p] = "apply"
  /\ IF Refused(response[p])
     THEN UNCHANGED <<sampler, applied, seen, made>>
     ELSE /\ sampler' = Updated(response[p])
          /\ applied' = response[p]
          /\ seen' = [op \in Operations |->
                IF sampler'.type = "perOperation" /\ op \in Tracked \cap DOMAIN sampler'.entries
                THEN seen[op] ELSE 0]
          /\ CountLimiters
  /\ pollPc' = [pollPc EXCEPT ![p] = PollerDone(p)]
  /\ response' = [response EXCEPT ![p] = NoStrategy]
  /\ UNCHANGED <<serverVars, closed, closePc, userVars>>

(* Under the write lock *)
Apply(p) ==
  /\ pollPc[p] = "apply" /\ NoReader
  /\ IF Refused(response[p])
     THEN UNCHANGED <<sampler, applied, seen, made>>
     ELSE /\ sampler' = Updated(response[p])
          /\ applied' = response[p]
          /\ seen' = [op \in Operations |->
                IF sampler'.type = "perOperation" /\ op \in Tracked \cap DOMAIN sampler'.entries
                THEN seen[op] ELSE 0]
          /\ CountLimiters
  /\ pollPc' = [pollPc EXCEPT ![p] = PollerDone(p)]
  /\ response' = [response EXCEPT ![p] = NoStrategy]
  /\ UNCHANGED <<serverVars, closed, closePc, userVars>>

-----------------------------------------------------------------------------
(* Close: the first caller hands a WaitGroup to the loop. *)
CloseCall(c) ==
  /\ closePc[c] = "start"
  /\ IF closed = 0
     THEN closed' = 1 /\ closePc' = [closePc EXCEPT ![c] = "sending"]
     ELSE closePc' = [closePc EXCEPT ![c] = "returned"] /\ UNCHANGED closed
  /\ UNCHANGED <<serverVars, sampler, pollPc, response, userVars, applied, seen, made>>

(* The loop receives from doneChan between two updates, and ends. *)
CloseLoop(c) ==
  /\ closePc[c] = "sending" /\ pollPc[Loop] = "idle"
  /\ closePc' = [closePc EXCEPT ![c] = "stopped"]
  /\ pollPc' = [pollPc EXCEPT ![Loop] = "exited"]
  /\ UNCHANGED <<serverVars, sampler, response, closed, userVars, applied, seen, made>>

-----------------------------------------------------------------------------
(* OnCreateSpan and the others, under the read lock.  What a consultation sees *)
(* of the sampler for an operation: *)
Current(op) ==
  IF sampler.type # "perOperation" THEN [rate |-> sampler.rate, bound |-> 0, id |-> 0]
  ELSE IF op \in Tracked THEN sampler.entries[op]
  ELSE [rate |-> sampler.default, bound |-> 0, id |-> 0]

Serves(op, entry) ==
  seen' = [seen EXCEPT ![op] = IF @ = 0 THEN entry.id ELSE @]

Consult(u, op) ==
  /\ userPc[u] = "idle" /\ consults < MaxConsults
  /\ consults' = consults + 1
  /\ operation' = [operation EXCEPT ![u] = op]
  /\ IF sampler.type = "perOperation" /\ op \notin Tracked
     THEN userPc' = [userPc EXCEPT ![u] = "insert"] /\ UNCHANGED <<got, seen>>
     ELSE /\ userPc' = [userPc EXCEPT ![u] = "decide"]
          /\ got' = [got EXCEPT ![u] = Current(op)]
          /\ Serves(op, Current(op))
  /\ UNCHANGED <<serverVars, sampler, pollPc, response, closed, closePc, applied, made>>

(* getSamplerForOperation under its own write lock looks again, and adds an    *)
(* entry up to maxOperations.                                                  *)
DoesNotLookAgain(op) == FALSE                                    \* mutant

FoundAgain(op) == op \in Tracked

HasRoom(op) == Cardinality(Tracked) < MaxOperations

Insert(u, op) ==
  /\ userPc[u] = "insert" /\ operation[u] = op
  /\ IF FoundAgain(op) \/ ~HasRoom(op)
     THEN got' = [got EXCEPT ![u] = Current(op)] /\ UNCHANGED sampler
     ELSE LET new == NewEntry(sampler.default, sampler.bound, NewLimiter(op))
          IN /\ sampler' = [sampler EXCEPT !.entries =
                  [o \in Tracked \cup {op} |-> IF o = op THEN new ELSE sampler.entries[o]]]
             /\ got' = [got EXCEPT ![u] = new]
  /\ Serves(op, got'[u]) /\ CountLimiters
  /\ userPc' = [userPc EXCEPT ![u] = "decide"]
  /\ UNCHANGED <<serverVars, pollPc, response, closed, closePc, operation, consults, applied>>

(* IsSampled reads the boundary and the tags, and the read lock is released. *)
Decide(u) ==
  /\ userPc[u] = "decide"
  /\ userPc' = [userPc EXCEPT ![u] = "idle"]
  /\ got' = [got EXCEPT ![u] = NoEntry]
  /\ UNCHANGED <<serverVars, sampler, pollPc, response, closed, closePc, operation,
                 consults, applied, seen, made>>

Next ==
  \/ ServerChanges
  \/ \E p \in Pollers : StartFetch(p) \/ Fetched(p) \/ FetchFails(p) \/ Apply(p)
  \/ \E c \in Closers : CloseCall(c) \/ CloseLoop(c)
  \/ \E u \in Users : Decide(u) \/ \E op \in Operations : Consult(u, op) \/ Insert(u, op)

Spec == Init /\ [][Next]_vars

(* The ticker keeps firing and queries return, now and then successfully; a    *)
(* waiting writer is not overtaken by readers for ever (sync.RWMutex); select  *)
(* does not always prefer the ticker to doneChan.                              *)
FairSpec ==
  /\ Spec
  /\ WF_vars(StartFetch(Loop)) /\ SF_vars(Fetched(Loop)) /\ SF_vars(Apply(Loop))
  /\ WF_vars(Fetched(Loop) \/ FetchFails(Loop))
  /\ \A u \in Users : WF_vars(Decide(u)) /\ WF_vars(\E op \in Operations : Insert(u, op))
  /\ \A c \in Closers : SF_vars(CloseLoop(c))

-----------------------------------------------------------------------------
Entry == [rate : 0..MaxRate, bound : Nat, id : Nat]

TypeOK ==
  /\ server \in Strategies /\ serverChanges \in 0..MaxServerChanges
  /\ CASE sampler.type = "perOperation" ->
            /\ sampler.default \in 0..MaxRate /\ DOMAIN sampler.entries \subseteq Operations
            /\ \A op \in Tracked : sampler.entries[op] \in Entry /\ sampler.entries[op].id <= made[op]
       [] sampler.type = "probabilistic" -> sampler.rate \in 0..MaxRate
       [] sampler.type = "rateLimiting"  -> sampler.rate \in Nat
  /\ pollPc \in [Pollers -> {"idle", "fetching", "apply", "exited"}]
  /\ response \in [Pollers -> Strategies \cup {NoStrategy}]
  /\ closed \in {0, 1} /\ closePc \in [Closers -> {"start", "sending", "stopped", "returned"}]
  /\ userPc \in [Users -> {"idle", "insert", "decide"}] /\ operation \in [Users -> Operations]
  /\ applied \in Strategies \cup {NoStrategy} /\ made \in [Operations -> Nat]

(* The map grows on demand only up to maxOperations; only a strategy that      *)
(* lists more operations makes it larger.                                      *)
TrackedBounded ==
  sampler.type = "perOperation" =>
    \/ Cardinality(Tracked) <= MaxOperations
    \/ Tracked = DOMAIN applied.rates

(* After any sequence of updates, in place or not, and of operations added on  *)
(* demand, the sampler is what the last applied strategy says: the rate of     *)
(* each operation it lists, the default for all others, and its lower bound    *)
(* everywhere (PerOperationSampler.update, getSamplerForOperation).            *)
SamplerFollowsStrategy ==
  /\ TrackedBounded
  /\ CASE applied.type = "none"          -> sampler = Probabilistic(InitialRate)
       [] applied.type = "probabilistic" -> sampler = Probabilistic(applied.rate)
       [] applied.type = "rateLimiting"  -> sampler = [type |-> "rateLimiting", rate |-> applied.rate]
       [] applied.type = "perOperation"  ->
            /\ sampler.type = "perOperation" /\ DOMAIN applied.rates \subseteq Tracked
            /\ sampler.default = Clamp(applied.default)
            /\ \A op \in Tracked :
                 /\ sampler.entries[op].rate = Clamp(IF op \in DOMAIN applied.rates
                                                     THEN applied.rates[op] ELSE applied.default)
                 /\ sampler.entries[op].bound = applied.bound

(* A consultation decides and takes its tags from one state of the sampler: no *)
(* update comes in between (RemotelyControlledSampler.RLock).                  *)
NoTornDecision == \A u \in Users : userPc[u] = "decide" => got[u] = Current(operation[u])

(* The limiter that first served an operation serves it as long as it is in    *)
(* the map: two goroutines that meet a new operation at once share a limiter,  *)
(* and an update of a tracked operation keeps it with its balance              *)
(* (getSamplerForOperation, RateLimitingSampler.Update).                       *)
OneLimiterPerOperation ==
  \A op \in Operations :
    seen[op] # 0 => op \in Tracked /\ sampler.entries[op].id = seen[op]

(* The strategy in force is finally the server's, also after two concurrent    *)
(* updates applied their responses in the wrong order, unless the sampler      *)
(* refuses its rate (updateSamplerViaUpdaters).                                *)
Converges == <>[](closed = 1 \/ applied = server \/ Refused(server))

(* Close returns although the loop is busy with a query and the ticker fires.  *)
CloseReturns == \A c \in Closers : closePc[c] = "sending" ~> closePc[c] = "stopped"

(* sampler.go, line 354: "Max number of operations that will be tracked. Other *)
(* operations will be given default strategy."                                 *)
MaxOperationsEnforced == Cardinality(Tracked) <= MaxOperations

=============================================================================
