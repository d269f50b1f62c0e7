------------------------- MODULE RemoteSamplerProofs -------------------------
(***************************************************************************)
(* Theorems about RemoteSampler for any users, operations, strategies,     *)
(* callers of UpdateSampler and bounds.                                    *)
(***************************************************************************)
EXTENDS RemoteSampler, FiniteSetTheorems, TLAPS

USE SamplerAssumption

(* The samplers there can be. *)
Simple       == [type : {"probabilistic", "rateLimiting"}, rate : Nat]
EntryMaps    == UNION {[D -> Entry] : D \in SUBSET Operations}
PerOperation == [type : {"perOperation"}, default : 0..MaxRate, bound : Nat, entries : EntryMaps]

TypeInv ==
  /\ server \in Strategies
  /\ sampler \in Simple \cup PerOperation
  /\ pollPc \in [Pollers -> {"idle", "fetching", "apply", "exited"}]
  /\ response \in [Pollers -> Strategies \cup {NoStrategy}]
  /\ userPc \in [Users -> {"idle", "insert", "decide"}] /\ operation \in [Users -> Operations]
  /\ got \in [Users -> Entry \cup [rate : Nat, bound : {0}, id : {0}] \cup {NoEntry}]
  /\ applied \in Strategies \cup {NoStrategy}
  /\ seen \in [Operations -> Nat] /\ made \in [Operations -> Nat]

LEMMA ClampType == \A rate \in Nat : Clamp(rate) \in 0..MaxRate
BY DEF Clamp

LEMMA NewEntryType ==
  ASSUME NEW rate \in Nat, NEW bound \in Nat, NEW id \in Nat
  PROVE  /\ NewEntry(rate, bound, id) \in Entry
         /\ NewEntry(rate, bound, id).rate = Clamp(rate)
         /\ NewEntry(rate, bound, id).bound = bound
         /\ NewEntry(rate, bound, id).id = id
BY ClampType DEF NewEntry, Entry

(* A map of a sampler, and what a per-operation sampler consists of. *)
LEMMA PerOperationType ==
  ASSUME sampler \in Simple \cup PerOperation, sampler.type = "perOperation"
  PROVE  /\ sampler.default \in 0..MaxRate /\ sampler.bound \in Nat
         /\ Tracked = DOMAIN sampler.entries /\ Tracked \subseteq Operations
         /\ sampler.entries \in [Tracked -> Entry]
         /\ sampler = [type |-> "perOperation", default |-> sampler.default,
                       bound |-> sampler.bound, entries |-> sampler.entries]
<1>1. sampler \in PerOperation
  BY DEF Simple
<1>2. sampler.entries \in EntryMaps
  BY <1>1 DEF PerOperation
<1>3. PICK D \in SUBSET Operations : sampler.entries \in [D -> Entry]
  BY <1>2 DEF EntryMaps
<1>4. Tracked = D
  BY <1>3 DEF Tracked
<1> QED
  BY <1>1, <1>3, <1>4 DEF PerOperation

LEMMA SimpleType ==
  ASSUME sampler \in Simple \cup PerOperation, sampler.type # "perOperation"
  PROVE  sampler.rate \in Nat /\ Tracked = {}
BY DEF Simple, PerOperation, Tracked

LEMMA MapType ==
  ASSUME NEW D \in SUBSET Operations, NEW default \in 0..MaxRate, NEW bound \in Nat,
         NEW f \in [D -> Entry]
  PROVE  [type |-> "perOperation", default |-> default, bound |-> bound, entries |-> f]
           \in PerOperation
<1>1. f \in EntryMaps
  BY DEF EntryMaps
<1> QED
  BY <1>1 DEF PerOperation
-----------------------------------------------------------------------------
(* What an update makes of the sampler. *)
LEMMA UpdatedKinds ==
  ASSUME NEW s
  PROVE  /\ s.type = "probabilistic" => Updated(s) = Probabilistic(s.rate)
         /\ s.type = "rateLimiting" => Updated(s) = [type |-> "rateLimiting", rate |-> s.rate]
         /\ s.type = "perOperation" =>
              Updated(s) = IF sampler.type = "perOperation"
                           THEN UpdatePerOperation(sampler, s) ELSE FreshPerOperation(s)
<1>1. CASE s.type = "perOperation"
  BY <1>1, Zenon DEF Updated
<1>2. CASE s.type = "probabilistic"
  BY <1>2, Zenon DEF Updated
<1>3. CASE s.type = "rateLimiting"
  BY <1>3, Zenon DEF Updated
<1> QED
  BY <1>1, <1>2, <1>3

LEMMA UpdatedEntries ==
  ASSUME TypeInv, NEW s \in Strategies, s.type = "perOperation"
  PROVE  \E f \in [DOMAIN s.rates -> Entry] :
           /\ Updated(s) = [type |-> "perOperation", default |-> Clamp(s.default),
                            bound |-> s.bound, entries |-> f]
           /\ \A op \in DOMAIN s.rates :
                /\ f[op].rate = Clamp(s.rates[op]) /\ f[op].bound = s.bound
                /\ f[op].id = IF op \in Tracked THEN sampler.entries[op].id ELSE made[op] + 1
<1>1. /\ s.bound \in Nat /\ DOMAIN s.rates \subseteq Operations
      /\ \A op \in DOMAIN s.rates : s.rates[op] \in Nat
  BY StrategyAssumption
<1> DEFINE old(op) == IF op \in Tracked THEN sampler.entries[op].id ELSE NewLimiter(op)
           f == [op \in DOMAIN s.rates |-> NewEntry(s.rates[op], s.bound, old(op))]
<1>2. \A op \in DOMAIN s.rates : old(op) \in Nat
  BY <1>1, PerOperationType, SimpleType DEF TypeInv, Entry, NewLimiter
<1>3. Updated(s) = [type |-> "perOperation", default |-> Clamp(s.default),
                    bound |-> s.bound, entries |-> f]
  <2>1. CASE sampler.type = "perOperation"
    <3>1. Tracked = DOMAIN sampler.entries
      BY <2>1 DEF Tracked
    <3>2. Updated(s) = UpdatePerOperation(sampler, s)
      BY <2>1, UpdatedKinds
    <3> QED
      BY <3>1, <3>2 DEF UpdatePerOperation
  <2>2. CASE sampler.type # "perOperation"
    <3>1. Tracked = {}
      BY <2>2 DEF Tracked
    <3>2. Updated(s) = FreshPerOperation(s)
      BY <2>2, UpdatedKinds
    <3> QED
      BY <3>1, <3>2 DEF FreshPerOperation
  <2> QED
    BY <2>1, <2>2
<1>4. \A op \in DOMAIN s.rates :
        /\ f[op] = NewEntry(s.rates[op], s.bound, old(op))
        /\ f[op] \in Entry
        /\ f[op].rate = Clamp(s.rates[op]) /\ f[op].bound = s.bound /\ f[op].id = old(op)
  BY <1>1, <1>2, NewEntryType
<1> HIDE DEF old
<1>5. f \in [DOMAIN s.rates -> Entry]
  BY <1>4
<1>6. \A op \in DOMAIN s.rates :
        f[op].id = IF op \in Tracked THEN sampler.entries[op].id ELSE made[op] + 1
  BY <1>4 DEF old, NewLimiter
<1> HIDE DEF f
<1> QED
  BY <1>3, <1>4, <1>5, <1>6

LEMMA UpdatedType ==
  ASSUME TypeInv, NEW s \in Strategies
  PROVE  Updated(s) \in Simple \cup PerOperation
<1>1. CASE s.type = "perOperation"
  <2>1. PICK f \in [DOMAIN s.rates -> Entry] :
          Updated(s) = [type |-> "perOperation", default |-> Clamp(s.default),
                        bound |-> s.bound, entries |-> f]
    BY <1>1, UpdatedEntries
  <2>2. Clamp(s.default) \in 0..MaxRate /\ s.bound \in Nat /\ DOMAIN s.rates \subseteq Operations
    BY <1>1, StrategyAssumption, ClampType
  <2> QED
    BY <2>1, <2>2, MapType
<1>2. CASE s.type \in {"probabilistic", "rateLimiting"}
  <2>1. s.rate \in Nat /\ Clamp(s.rate) \in Nat
    BY <1>2, StrategyAssumption, ClampType
  <2> QED
    BY <1>2, <2>1, UpdatedKinds DEF Simple, Probabilistic
<1> QED
  BY <1>1, <1>2, StrategyAssumption

-----------------------------------------------------------------------------
Hand == Entry \cup [rate : Nat, bound : {0}, id : {0}]

LEMMA CurrentType ==
  ASSUME TypeInv, NEW op \in Operations
  PROVE  Current(op) \in Hand /\ Current(op).id \in Nat
<1> USE DEF TypeInv, Current, Hand, Entry
<1>1. CASE sampler.type # "perOperation"
  BY <1>1, SimpleType
<1>2. CASE sampler.type = "perOperation" /\ op \in Tracked
  BY <1>2, PerOperationType
<1>3. CASE sampler.type = "perOperation" /\ op \notin Tracked
  BY <1>3, PerOperationType
<1> QED
  BY <1>1, <1>2, <1>3

(* An operation that is added on demand leaves the others alone. *)
LEMMA InsertAdds ==
  ASSUME TypeInv, sampler.type = "perOperation", NEW u \in Users, NEW op \in Operations,
         Insert(u, op), op \notin Tracked, HasRoom(op)
  PROVE  \E g \in [Tracked \cup {op} -> Entry] :
           /\ sampler' = [type |-> "perOperation", default |-> sampler.default,
                          bound |-> sampler.bound, entries |-> g]
           /\ Tracked' = Tracked \cup {op}
           /\ \A o \in Tracked : g[o] = sampler.entries[o]
           /\ g[op] = NewEntry(sampler.default, sampler.bound, NewLimiter(op))
           /\ got' = [got EXCEPT ![u] = g[op]] /\ g[op].id = made[op] + 1
<1> DEFINE new == NewEntry(sampler.default, sampler.bound, NewLimiter(op))
           g == [o \in Tracked \cup {op} |-> IF o = op THEN new ELSE sampler.entries[o]]
<1>1. /\ sampler.default \in Nat /\ sampler.bound \in Nat
      /\ sampler.entries \in [Tracked -> Entry]
      /\ sampler = [type |-> "perOperation", default |-> sampler.default,
                    bound |-> sampler.bound, entries |-> sampler.entries]
  BY PerOperationType DEF TypeInv
<1>2. new \in Entry /\ new.id = made[op] + 1
  BY <1>1, ClampType DEF NewEntry, Entry, NewLimiter, TypeInv
<1>3. sampler' = [sampler EXCEPT !.entries = g] /\ got' = [got EXCEPT ![u] = new]
  BY DEF Insert, FoundAgain
<1> HIDE DEF new
<1>4. /\ g \in [Tracked \cup {op} -> Entry] /\ g[op] = new
      /\ \A o \in Tracked : g[o] = sampler.entries[o]
  BY <1>1, <1>2
<1> HIDE DEF g
<1>5. sampler' = [type |-> "perOperation", default |-> sampler.default,
                  bound |-> sampler.bound, entries |-> g]
  BY <1>1, <1>3
<1>6. Tracked' = Tracked \cup {op}
  BY <1>4, <1>5 DEF Tracked
<1> QED
  BY <1>2, <1>3, <1>4, <1>5, <1>6 DEF new

(* What the goroutines that hold the read lock have seen is still so.  One     *)
(* with an operation that is not in the map has found the map full.            *)
ReaderFits(u) ==
  /\ userPc[u] = "insert" => sampler.type = "perOperation"
  /\ userPc[u] = "decide" =>
       /\ got[u] = Current(operation[u])
       /\ sampler.type = "perOperation" /\ operation[u] \notin Tracked
            => ~HasRoom(operation[u])

(* An operation keeps the limiter that served it, and no limiter made later    *)
(* has the identity of an earlier one.                                         *)
LimiterFits(op) ==
  /\ op \in Tracked => sampler.entries[op].id \in 1..made[op]
  /\ seen[op] # 0 => op \in Tracked /\ sampler.entries[op].id = seen[op]

IInv ==
  /\ TypeInv /\ (\A u \in Users : ReaderFits(u)) /\ (\A op \in Operations : LimiterFits(op))

LEMMA InitInv == Init => IInv
<1> SUFFICES ASSUME Init PROVE IInv
  OBVIOUS
<1>1. sampler \in Simple /\ Tracked = {}
  BY ClampType DEF Init, Probabilistic, Simple, Tracked
<1>2. TypeInv
  BY <1>1 DEF Init, TypeInv
<1> QED
  BY <1>1, <1>2 DEF Init, IInv, ReaderFits, LimiterFits

(* Steps of pollers, closers and the server that leave the sampler alone. *)
LEMMA QuietInv ==
  ASSUME IInv, UNCHANGED <<sampler, userVars, applied, seen, made>>,
         server' \in Strategies,
         pollPc' \in [Pollers -> {"idle", "fetching", "apply", "exited"}],
         response' \in [Pollers -> Strategies \cup {NoStrategy}]
  PROVE  IInv'
BY DEF IInv, TypeInv, ReaderFits, LimiterFits, userVars, Current, Tracked, HasRoom

(* The history of limiters grows with the identities in the map. *)
Counted(op) == /\ made'[op] >= made[op]
               /\ op \in Tracked' => sampler'.entries[op].id <= made'[op]

LEMMA CountsUp ==
  ASSUME TypeInv, CountLimiters, sampler' \in Simple \cup PerOperation
  PROVE  made' \in [Operations -> Nat] /\ \A op \in Operations : Counted(op)
<1>1. ASSUME NEW op \in Operations, sampler'.type = "perOperation", op \in DOMAIN sampler'.entries
      PROVE  sampler'.entries[op].id \in Nat
  BY <1>1 DEF Simple, PerOperation, EntryMaps, Entry
<1> QED
  BY <1>1 DEF CountLimiters, Counted, TypeInv, Tracked

LEMMA ApplyInv ==
  ASSUME IInv, NEW p \in Pollers, Apply(p)
  PROVE  IInv'
<1> USE DEF IInv, TypeInv
<1>1. /\ server' = server /\ UNCHANGED userVars
      /\ pollPc' \in [Pollers -> {"idle", "fetching", "apply", "exited"}]
      /\ response' \in [Pollers -> Strategies \cup {NoStrategy}]
  BY DEF Apply, PollerDone, serverVars
<1>2. \A u \in Users : userPc'[u] = "idle"
  BY <1>1 DEF Apply, NoReader, userVars
<1>3. CASE Refused(response[p])
  BY <1>1, <1>3, QuietInv DEF Apply
<1>4. CASE ~Refused(response[p])
  <2> DEFINE s == response[p]
  <2>1. /\ s \in Strategies /\ sampler' = Updated(s) /\ applied' = s
        /\ seen' = [op \in Operations |->
              IF sampler'.type = "perOperation" /\ op \in Tracked \cap DOMAIN sampler'.entries
              THEN seen[op] ELSE 0]
    BY <1>4 DEF Apply, Refused, NoStrategy
  <2>2. sampler' \in Simple \cup PerOperation
    BY <2>1, UpdatedType
  <2>3. seen' \in [Operations -> Nat]
    BY <2>1
  <2>4. made' \in [Operations -> Nat] /\ \A op \in Operations : Counted(op)
    BY <1>4, <2>2, CountsUp DEF Apply
  <2>5. ASSUME NEW op \in Operations, seen'[op] # 0
        PROVE  op \in Tracked' /\ sampler'.entries[op].id = seen'[op]
    <3>1. /\ sampler'.type = "perOperation" /\ op \in Tracked /\ op \in DOMAIN sampler'.entries
          /\ seen'[op] = seen[op]
      BY <2>1, <2>5
    <3>2. s.type = "perOperation"
      <4>1. CASE s.type = "probabilistic"
        <5>1. sampler'.type = "probabilistic"
          BY <2>1, <4>1, UpdatedKinds DEF Probabilistic
        <5> QED
          BY <3>1, <5>1
      <4>2. CASE s.type = "rateLimiting"
        <5>1. sampler'.type = "rateLimiting"
          BY <2>1, <4>2, UpdatedKinds
        <5> QED
          BY <3>1, <5>1
      <4> QED
        BY <2>1, <4>1, <4>2, StrategyAssumption
    <3>3. PICK f \in [DOMAIN s.rates -> Entry] :
            /\ Updated(s) = [type |-> "perOperation", default |-> Clamp(s.default),
                             bound |-> s.bound, entries |-> f]
            /\ \A o \in DOMAIN s.rates :
                 f[o].id = IF o \in Tracked THEN sampler.entries[o].id ELSE made[o] + 1
      BY <2>1, <3>2, UpdatedEntries
    <3>4. sampler'.entries = f
      BY <2>1, <3>3
    <3>5. sampler'.entries[op].id = sampler.entries[op].id
      BY <3>1, <3>3, <3>4
    <3>6. Tracked' = DOMAIN sampler'.entries
      BY <3>1 DEF Tracked
    <3> QED
      BY <2>5, <3>1, <3>5, <3>6 DEF LimiterFits
  <2>6. ASSUME NEW op \in Tracked'
        PROVE  sampler'.entries[op].id \in 1..made'[op]
    <3>1. s.type = "perOperation"
      BY <2>1, <2>6, UpdatedKinds, StrategyAssumption DEF Tracked, Probabilistic
    <3>2. PICK f \in [DOMAIN s.rates -> Entry] :
            /\ Updated(s) = [type |-> "perOperation", default |-> Clamp(s.default),
                             bound |-> s.bound, entries |-> f]
            /\ \A o \in DOMAIN s.rates :
                 f[o].id = IF o \in Tracked THEN sampler.entries[o].id ELSE made[o] + 1
      BY <2>1, <3>1, UpdatedEntries
    <3>3. sampler'.entries = f /\ op \in DOMAIN s.rates /\ op \in Operations
      BY <2>1, <2>6, <3>1, <3>2, StrategyAssumption DEF Tracked
    <3>4. sampler'.entries[op].id \in Nat /\ sampler'.entries[op].id >= 1
      BY <3>2, <3>3 DEF LimiterFits, Entry
    <3> QED
      BY <2>4, <2>6, <3>3, <3>4 DEF Counted
  <2> QED
    BY <1>1, <1>2, <2>1, <2>2, <2>3, <2>4, <2>5, <2>6 DEF ReaderFits, LimiterFits, userVars
<1> QED
  BY <1>3, <1>4

LEMMA ConsultInv ==
  ASSUME IInv, NEW u \in Users, NEW op \in Operations, Consult(u, op)
  PROVE  IInv'
<1> USE DEF IInv, TypeInv
<1>1. /\ server' = server /\ UNCHANGED <<sampler, pollPc, response, applied, made>>
      /\ operation' = [operation EXCEPT ![u] = op]
  BY DEF Consult, serverVars
<1>2. /\ Tracked' = Tracked /\ \A o : Current(o)' = Current(o)
      /\ \A o : HasRoom(o)' = HasRoom(o)
  BY <1>1 DEF Tracked, Current, HasRoom
<1>3. CASE sampler.type = "perOperation" /\ op \notin Tracked
  <2>1. userPc' = [userPc EXCEPT ![u] = "insert"] /\ UNCHANGED <<got, seen>>
    BY <1>3 DEF Consult
  <2> QED
    BY <1>1, <1>2, <1>3, <2>1 DEF ReaderFits, LimiterFits
<1>4. CASE ~(sampler.type = "perOperation" /\ op \notin Tracked)
  <2>1. /\ userPc' = [userPc EXCEPT ![u] = "decide"]
        /\ got' = [got EXCEPT ![u] = Current(op)]
        /\ seen' = [seen EXCEPT ![op] = IF @ = 0 THEN Current(op).id ELSE @]
    BY <1>4 DEF Consult, Serves
  <2>2. got' \in [Users -> Entry \cup [rate : Nat, bound : {0}, id : {0}] \cup {NoEntry}]
    BY <2>1, CurrentType DEF Hand
  <2>3. seen' \in [Operations -> Nat]
    BY <2>1, CurrentType
  <2>4. ASSUME NEW v \in Users PROVE ReaderFits(v)'
    BY <1>1, <1>2, <1>4, <2>1 DEF ReaderFits
  <2>5. Current(op).id # 0 => op \in Tracked /\ Current(op) = sampler.entries[op]
    BY DEF Current
  <2>6. ASSUME NEW o \in Operations PROVE LimiterFits(o)'
    BY <1>1, <1>2, <2>1, <2>5 DEF LimiterFits
  <2> QED
    BY <1>1, <2>1, <2>2, <2>3, <2>4, <2>6
<1> QED
  BY <1>3, <1>4

LEMMA InsertInv ==
  ASSUME IInv, NEW u \in Users, NEW op \in Operations, Insert(u, op)
  PROVE  IInv'
<1> USE DEF IInv, TypeInv
<1>1. /\ server' = server /\ UNCHANGED <<pollPc, response, operation, applied>>
      /\ userPc[u] = "insert" /\ userPc' = [userPc EXCEPT ![u] = "decide"]
      /\ operation[u] = op /\ sampler.type = "perOperation"
      /\ seen' = [seen EXCEPT ![op] = IF @ = 0 THEN got'[u].id ELSE @]
      /\ CountLimiters
  BY DEF Insert, Serves, serverVars, ReaderFits
<1>2. CASE op \in Tracked \/ ~HasRoom(op)
  <2>1. got' = [got EXCEPT ![u] = Current(op)] /\ sampler' = sampler
    BY <1>2 DEF Insert, FoundAgain
  <2>2. /\ Tracked' = Tracked /\ \A o : Current(o)' = Current(o)
        /\ \A o : HasRoom(o)' = HasRoom(o)
    BY <2>1 DEF Tracked, Current, HasRoom
  <2>3. got' \in [Users -> Entry \cup [rate : Nat, bound : {0}, id : {0}] \cup {NoEntry}]
    BY <2>1, CurrentType DEF Hand
  <2>4. seen' \in [Operations -> Nat]
    BY <1>1, <2>1, CurrentType
  <2>5. ASSUME NEW v \in Users PROVE ReaderFits(v)'
    BY <1>1, <1>2, <2>1, <2>2 DEF ReaderFits
  <2>6. Current(op).id # 0 => op \in Tracked /\ Current(op) = sampler.entries[op]
    BY DEF Current
  <2>7. made' \in [Operations -> Nat] /\ \A o \in Operations : Counted(o)
    BY <1>1, <2>1, CountsUp
  <2>8. ASSUME NEW o \in Operations PROVE LimiterFits(o)'
    <3>1. o \in Tracked' => sampler'.entries[o].id \in 1..made'[o]
      BY <2>1, <2>2, <2>7 DEF LimiterFits, Counted
    <3>2. seen'[o] # 0 => o \in Tracked' /\ sampler'.entries[o].id = seen'[o]
      BY <1>1, <2>1, <2>2, <2>6 DEF LimiterFits
    <3> QED
      BY <3>1, <3>2 DEF LimiterFits
  <2> QED
    BY <1>1, <2>1, <2>3, <2>4, <2>5, <2>7, <2>8
<1>3. CASE op \notin Tracked /\ HasRoom(op)
  <2> HIDE DEF TypeInv
  <2>1. PICK g \in [Tracked \cup {op} -> Entry] :
           /\ sampler' = [type |-> "perOperation", default |-> sampler.default,
                          bound |-> sampler.bound, entries |-> g]
           /\ Tracked' = Tracked \cup {op}
           /\ \A o \in Tracked : g[o] = sampler.entries[o]
           /\ g[op] = NewEntry(sampler.default, sampler.bound, NewLimiter(op))
           /\ got' = [got EXCEPT ![u] = g[op]] /\ g[op].id = made[op] + 1
    BY <1>1, <1>3, InsertAdds
  <2> USE DEF TypeInv
  <2>2. sampler' \in PerOperation
    BY <1>1, <2>1, PerOperationType, MapType
  <2>3. /\ sampler'.type = "perOperation" /\ sampler'.entries = g
        /\ \A o \in Tracked' : Current(o)' = g[o]
    BY <2>1 DEF Current
  <2>4. got' \in [Users -> Entry \cup [rate : Nat, bound : {0}, id : {0}] \cup {NoEntry}]
    BY <2>1
  <2>5. seen' \in [Operations -> Nat]
    BY <1>1, <2>1
  <2>6. ASSUME NEW v \in Users PROVE ReaderFits(v)'
    <3>1. CASE v = u
      BY <1>1, <2>1, <2>3, <3>1 DEF ReaderFits
    <3>2. CASE v # u
      <4>1. userPc[v] = "decide" => operation[v] \in Tracked /\ got[v] = g[operation[v]]
        BY <1>1, <1>3, <2>1 DEF ReaderFits, HasRoom, Current
      <4> QED
        BY <1>1, <2>1, <2>3, <3>2, <4>1 DEF ReaderFits
    <3> QED
      BY <3>1, <3>2
  <2>7. made' \in [Operations -> Nat] /\ \A o \in Operations : Counted(o)
    BY <1>1, <2>2, CountsUp
  <2>8. ASSUME NEW o \in Operations PROVE LimiterFits(o)'
    <3>1. o \in Tracked' => sampler'.entries[o].id \in 1..made'[o]
      BY <1>3, <2>1, <2>3, <2>7 DEF LimiterFits, Counted
    <3>2. seen'[o] # 0 => o \in Tracked' /\ sampler'.entries[o].id = seen'[o]
      BY <1>1, <1>3, <2>1, <2>3 DEF LimiterFits
    <3> QED
      BY <3>1, <3>2 DEF LimiterFits
  <2> QED
    BY <1>1, <2>1, <2>2, <2>4, <2>5, <2>6, <2>7, <2>8
<1> QED
  BY <1>2, <1>3

LEMMA NextInv == IInv /\ [Next]_vars => IInv'
<1> SUFFICES ASSUME IInv, [Next]_vars PROVE IInv'
  OBVIOUS
<1>1. CASE ServerChanges
  BY <1>1, QuietInv DEF ServerChanges, IInv, TypeInv
<1>2. ASSUME NEW p \in Pollers, StartFetch(p) \/ Fetched(p) \/ FetchFails(p) PROVE IInv'
  BY <1>2, QuietInv DEF StartFetch, Fetched, FetchFails, PollerDone, IInv, TypeInv, serverVars
<1>3. ASSUME NEW c \in Closers, CloseCall(c) \/ CloseLoop(c) PROVE IInv'
  BY <1>3, QuietInv DEF CloseCall, CloseLoop, IInv, TypeInv, serverVars, Pollers
<1>4. ASSUME NEW u \in Users, Decide(u) PROVE IInv'
  BY <1>4 DEF Decide, IInv, TypeInv, ReaderFits, LimiterFits, Current, Tracked, HasRoom, serverVars
<1>5. CASE UNCHANGED vars
  BY <1>5, QuietInv DEF vars, IInv, TypeInv, serverVars
<1> QED
  BY <1>1, <1>2, <1>3, <1>4, <1>5, ApplyInv, ConsultInv, InsertInv DEF Next

(* A span decides and takes its tags from one state of the sampler.  (The      *)
(* update waits for the write lock, and operations are only added.)            *)
THEOREM DecisionsWhole == Spec => []NoTornDecision
<1>1. IInv => NoTornDecision
  BY DEF IInv, ReaderFits, NoTornDecision
<1> QED
  BY <1>1, InitInv, NextInv, PTL DEF Spec

(* The limiter that first served an operation serves it while it is in the     *)
(* map, also across updates and when two goroutines meet the operation at once *)
(* (getSamplerForOperation, PerOperationSampler.update).                       *)
THEOREM LimitersUnique == Spec => []OneLimiterPerOperation
<1>1. IInv => OneLimiterPerOperation
  BY DEF IInv, LimiterFits, OneLimiterPerOperation
<1> QED
  BY <1>1, InitInv, NextInv, PTL DEF Spec

-----------------------------------------------------------------------------
(* The cases of SamplerFollowsStrategy, with the lower bound that operations   *)
(* added later will get.                                                       *)
Follows ==
  /\ applied.type = "none" => sampler = Probabilistic(InitialRate)
  /\ applied.type = "probabilistic" => sampler = Probabilistic(applied.rate)
  /\ applied.type = "rateLimiting" => sampler = [type |-> "rateLimiting", rate |-> applied.rate]
  /\ applied.type = "perOperation" =>
       /\ sampler.type = "perOperation" /\ DOMAIN applied.rates \subseteq Tracked
       /\ sampler.default = Clamp(applied.default) /\ sampler.bound = applied.bound
       /\ \A op \in Tracked :
            /\ sampler.entries[op].rate = Clamp(IF op \in DOMAIN applied.rates
                                                THEN applied.rates[op] ELSE applied.default)
            /\ sampler.entries[op].bound = applied.bound

FollowInv == IInv /\ IsFiniteSet(Tracked) /\ TrackedBounded /\ Follows

LEMMA AppliedType ==
  ASSUME TypeInv
  PROVE  applied.type \in {"none", "probabilistic", "rateLimiting", "perOperation"}
BY StrategyAssumption DEF TypeInv, NoStrategy

LEMMA FollowsSuffices ==
  ASSUME TypeInv, TrackedBounded, Follows
  PROVE  SamplerFollowsStrategy
<1>1. CASE applied.type = "none"
  BY <1>1, Zenon DEF Follows, SamplerFollowsStrategy
<1>2. CASE applied.type = "probabilistic"
  BY <1>2, Zenon DEF Follows, SamplerFollowsStrategy
<1>3. CASE applied.type = "rateLimiting"
  BY <1>3, Zenon DEF Follows, SamplerFollowsStrategy
<1>4. CASE applied.type = "perOperation"
  BY <1>4, Zenon DEF Follows, SamplerFollowsStrategy
<1> QED
  BY <1>1, <1>2, <1>3, <1>4, AppliedType

LEMMA InitFollow == Init => FollowInv
<1> SUFFICES ASSUME Init PROVE FollowInv
  OBVIOUS
<1>1. sampler.type = "probabilistic" /\ applied.type = "none"
  BY DEF Init, Probabilistic, NoStrategy
<1>2. Tracked = {}
  BY <1>1 DEF Tracked
<1> QED
  BY <1>1, <1>2, InitInv, FS_EmptySet DEF FollowInv, TrackedBounded, Follows, Init

(* Only an update and the insertion of an operation change the sampler. *)
LEMMA SamplerStays ==
  ASSUME [Next]_vars, \A p \in Pollers : ~Apply(p),
         \A u \in Users, op \in Operations : ~Insert(u, op)
  PROVE  UNCHANGED <<sampler, applied>>
BY DEF Next, ServerChanges, StartFetch, Fetched, FetchFails, CloseCall, CloseLoop, Decide,
   Consult, vars

LEMMA ApplyFollows ==
  ASSUME FollowInv, IInv', NEW p \in Pollers, Apply(p)
  PROVE  FollowInv'
<1> USE DEF FollowInv, IInv, TypeInv
<1>1. CASE Refused(response[p])
  BY <1>1 DEF Apply, TrackedBounded, Follows, Tracked
<1>2. CASE ~Refused(response[p])
  <2> DEFINE s == response[p]
  <2>1. s \in Strategies /\ sampler' = Updated(s) /\ applied' = s
    BY <1>2 DEF Apply, Refused, NoStrategy
  <2>2. CASE s.type = "perOperation"
    <3>1. PICK f \in [DOMAIN s.rates -> Entry] :
            /\ Updated(s) = [type |-> "perOperation", default |-> Clamp(s.default),
                             bound |-> s.bound, entries |-> f]
            /\ \A op \in DOMAIN s.rates :
                  f[op].rate = Clamp(s.rates[op]) /\ f[op].bound = s.bound
      BY <2>1, <2>2, UpdatedEntries
    <3>2. /\ sampler'.type = "perOperation" /\ sampler'.default = Clamp(s.default)
          /\ sampler'.bound = s.bound /\ sampler'.entries = f
      BY <2>1, <3>1
    <3>3. Tracked' = DOMAIN s.rates
      BY <3>1, <3>2 DEF Tracked
    <3>4. IsFiniteSet(DOMAIN s.rates)
      BY <2>1, <2>2, StrategyAssumption
    <3> QED
      BY <2>1, <2>2, <3>1, <3>2, <3>3, <3>4 DEF TrackedBounded, Follows
  <2>3. CASE s.type = "probabilistic"
    <3>1. sampler' = Probabilistic(s.rate) /\ sampler'.type = "probabilistic"
      BY <2>1, <2>3, UpdatedKinds DEF Probabilistic
    <3>2. Tracked' = {}
      BY <3>1 DEF Tracked
    <3> QED
      BY <2>1, <2>3, <3>1, <3>2, FS_EmptySet DEF TrackedBounded, Follows
  <2>4. CASE s.type = "rateLimiting"
    <3>1. sampler' = [type |-> "rateLimiting", rate |-> s.rate] /\ sampler'.type = "rateLimiting"
      BY <2>1, <2>4, UpdatedKinds
    <3>2. Tracked' = {}
      BY <3>1 DEF Tracked
    <3> QED
      BY <2>1, <2>4, <3>1, <3>2, FS_EmptySet DEF TrackedBounded, Follows
  <2> QED
    BY <2>1, <2>2, <2>3, <2>4, StrategyAssumption, Zenon
<1> QED
  BY <1>1, <1>2

LEMMA InsertFollows ==
  ASSUME FollowInv, IInv', NEW u \in Users, NEW op \in Operations, Insert(u, op)
  PROVE  FollowInv'
<1> USE DEF FollowInv, IInv, TypeInv
<1>1. CASE op \in Tracked \/ ~HasRoom(op)
  BY <1>1 DEF Insert, FoundAgain, TrackedBounded, Follows, Tracked
<1>2. CASE op \notin Tracked /\ HasRoom(op)
  <2>1. sampler.type = "perOperation" /\ applied' = applied
    BY DEF Insert, ReaderFits
  <2>2. PICK g \in [Tracked \cup {op} -> Entry] :
           /\ sampler' = [type |-> "perOperation", default |-> sampler.default,
                          bound |-> sampler.bound, entries |-> g]
           /\ Tracked' = Tracked \cup {op}
           /\ \A o \in Tracked : g[o] = sampler.entries[o]
           /\ g[op] = NewEntry(sampler.default, sampler.bound, NewLimiter(op))
    BY <1>2, <2>1, InsertAdds
  <2>3. /\ sampler'.type = "perOperation" /\ sampler'.default = sampler.default
        /\ sampler'.bound = sampler.bound /\ sampler'.entries = g
    BY <2>2
  <2>4. IsFiniteSet(Tracked') /\ Cardinality(Tracked') = Cardinality(Tracked) + 1
    BY <1>2, <2>2, FS_AddElement
  <2>5. TrackedBounded'
    <3>1. Cardinality(Tracked) \in Nat /\ Cardinality(Tracked) < MaxOperations
      BY <1>2, FS_CardinalityType DEF HasRoom
    <3> QED
      BY <2>4, <3>1 DEF TrackedBounded
  <2>6. Follows'
    <3>1. applied.type = "perOperation"
      BY <2>1, AppliedType DEF Follows, Probabilistic
    <3>2. op \notin DOMAIN applied.rates
      BY <1>2, <3>1 DEF Follows
    <3>3. sampler.default = Clamp(applied.default) /\ sampler.bound = applied.bound
      BY <3>1 DEF Follows
    <3>4. Clamp(sampler.default) = sampler.default
      BY <2>1, PerOperationType DEF Clamp
    <3>5. g[op].rate = Clamp(applied.default) /\ g[op].bound = applied.bound
      <4>1. sampler.default \in Nat /\ sampler.bound \in Nat
        BY <2>1, PerOperationType
      <4>2. /\ NewEntry(sampler.default, sampler.bound, NewLimiter(op)).rate = Clamp(sampler.default)
            /\ NewEntry(sampler.default, sampler.bound, NewLimiter(op)).bound = sampler.bound
        BY <4>1 DEF NewEntry
      <4> QED
        BY <2>2, <3>3, <3>4, <4>2
    <3>6. ASSUME NEW o \in Tracked'
          PROVE  /\ g[o].rate = Clamp(IF o \in DOMAIN applied.rates
                                      THEN applied.rates[o] ELSE applied.default)
                 /\ g[o].bound = applied.bound
      BY <2>2, <3>1, <3>2, <3>5 DEF Follows
    <3> QED
      BY <2>1, <2>2, <2>3, <3>1, <3>3, <3>6 DEF Follows
  <2> QED
    BY <2>4, <2>5, <2>6
<1> QED
  BY <1>1, <1>2

LEMMA NextFollow == FollowInv /\ [Next]_vars => FollowInv'
<1> SUFFICES ASSUME FollowInv, [Next]_vars PROVE FollowInv'
  OBVIOUS
<1>1. IInv'
  BY NextInv DEF FollowInv
<1>2. CASE /\ \A p \in Pollers : ~Apply(p)
           /\ \A u \in Users, op \in Operations : ~Insert(u, op)
  <2>1. UNCHANGED <<sampler, applied>>
    BY <1>2, SamplerStays
  <2> QED
    BY <1>1, <2>1 DEF FollowInv, TrackedBounded, Follows, Tracked
<1> QED
  BY <1>1, <1>2, ApplyFollows, InsertFollows

(* The sampler is always what the last applied strategy says, in whatever      *)
(* order updates are applied and operations met (updateSamplerViaUpdaters,     *)
(* PerOperationSampler.update, getSamplerForOperation).                        *)
THEOREM StrategyFollowed == Spec => []SamplerFollowsStrategy
<1>1. FollowInv => SamplerFollowsStrategy
  BY FollowsSuffices DEF FollowInv, IInv
<1> QED
  BY <1>1, InitFollow, NextFollow, PTL DEF Spec

=============================================================================
