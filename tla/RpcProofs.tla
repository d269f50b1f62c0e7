------------------------------- MODULE RpcProofs -------------------------------
(***************************************************************************)
(* Theorems about remote calls:                                            *)
(*  - their metrics, for any number of spans, any names, whatever the      *)
(*    normalizer makes of them, and any maximum of endpoints;              *)
(*  - the generated Thrift clients and processors, for any number of       *)
(*    calls;                                                               *)
(*  - the Thrift protocols, for any calls of generated code, in any number *)
(*    and order that it keeps to, with any values, and for any bytes that  *)
(*    follow or are missing.                                               *)
(***************************************************************************)
EXTENDS RpcMetrics, ThriftRpc, ThriftCalls, SequenceTheorems,
        FiniteSetTheorems, WellFoundedInduction, TLAPS

(* Numbers: induction, as the least element of a set, and division. *)

LEMMA LeastNumber ==
  ASSUME NEW S \in SUBSET Nat, S # {}
  PROVE  \E n \in S : \A m \in S : n <= m
<1> DEFINE R == {pair \in Nat \X Nat : pair[1] < pair[2]}
<1>1. IsWellFoundedOn(R, Nat)
  BY NatLessThanWellFounded DEF OpToRel
<1>2. \A m, n \in S : m < n => <<m, n>> \in R
  OBVIOUS
<1> HIDE DEF R
<1>3. PICK n \in S : \A m \in S : ~ (<<m, n>> \in R)
  BY <1>1, WFMin
<1>4. \A m \in S : ~ (m < n)
  BY <1>2, <1>3
<1> QED
  BY <1>4

LEMMA Induction ==
  ASSUME NEW S, 0 \in S, \A n \in Nat : n \in S => n + 1 \in S
  PROVE  Nat \subseteq S
<1> SUFFICES ASSUME Nat \ S # {} PROVE FALSE
  OBVIOUS
<1>1. PICK n \in Nat \ S : \A m \in Nat \ S : n <= m
  BY LeastNumber
<1>2. n # 0 /\ n - 1 \in Nat /\ n - 1 \in S
  BY <1>1
<1> QED
  BY <1>1, <1>2

LEMMA Quotient ==
  ASSUME NEW d \in Nat, NEW n \in Nat \ {0}
  PROVE  d = n * (d \div n) + (d % n) /\ d \div n \in Nat /\ (d % n) \in 0..n - 1
OBVIOUS

LEMMA Remainder ==
  ASSUME NEW d \in Nat, NEW n \in Nat \ {0}, NEW q \in Nat, NEW r \in 0..n - 1, d = n * q + r
  PROVE  r = (d % n)
BY SMTT(30)

-----------------------------------------------------------------------------
(* RpcMetrics *)

CodeValues == {0} \cup {code % 2^16 : code \in Codes}

MetricsTypeInv ==
  /\ DOMAIN names \subseteq Operations
  /\ metricsByEndpoint \subseteq SafeNames
  /\ inits \in [SafeNames -> Nat]
  /\ requests \in [SafeNames -> [Outcomes -> Nat]]
  /\ observer \in [Calls -> [name : Operations, kind : Kinds, err : BOOLEAN, code : CodeValues]]
  /\ pc \in [Calls -> {"open", "normalize", "cache", "get", "register", "count", "done"}]
  /\ safeName \in [Calls -> SafeNames \cup {NoName}]

(* The cache holds no more names than it may; a safe name that a call or the   *)
(* registry has is one of them, or other.                                      *)
CachedName(n) == \E o \in DOMAIN names : n = Normal[o]

NamesInv ==
  /\ \A o \in DOMAIN names : names[o] = Normal[o]
  /\ IsFiniteSet(DOMAIN names) /\ Cardinality(DOMAIN names) <= MaxEndpoints
  /\ \A n \in metricsByEndpoint : n = Other \/ CachedName(n)

(* A call between the cache and the end has the safe name of its span, which   *)
(* no longer changes.                                                          *)
CallsInv ==
  \A c \in Calls :
    /\ pc[c] \in {"normalize", "cache", "get", "register", "count"} => observer[c].kind = "inbound"
    /\ pc[c] \in {"get", "register", "count"} /\ safeName[c] # NoName =>
         CachedName(safeName[c]) /\ safeName[c] = Normal[observer[c].name]

RegistryInv == \A n \in SafeNames : inits[n] = IF n \in metricsByEndpoint THEN 1 ELSE 0

(* The spans that were counted for a name and an outcome. *)
Counted(n, o) ==
  {c \in Calls : /\ pc[c] = "done" /\ observer[c].kind = "inbound" /\ Outcome(observer[c]) = o
                 /\ n = MetricsName(c) /\ n \in {Normal[observer[c].name], Other}}

CountInv ==
  \A n \in SafeNames, o \in Outcomes :
    IsFiniteSet(Counted(n, o)) /\ requests[n][o] = Cardinality(Counted(n, o))

MetricsInv == MetricsTypeInv /\ NamesInv /\ CallsInv /\ RegistryInv /\ CountInv

-----------------------------------------------------------------------------
LEMMA NormalSafe ==
  ASSUME MetricsAssumption, NEW o \in Operations
  PROVE  Normal[o] \in SafeNames
BY DEF MetricsAssumption, SafeNames, Range

LEMMA MetricsNameSafe ==
  ASSUME MetricsTypeInv, NEW c \in Calls
  PROVE  MetricsName(c) \in SafeNames
BY DEF MetricsTypeInv, MetricsName, SafeNames

LEMMA InitMetrics == MetricsAssumption /\ MetricsInit => MetricsInv
<1> SUFFICES ASSUME MetricsAssumption, MetricsInit PROVE MetricsInv
  OBVIOUS
<1>1. DOMAIN names = {} /\ metricsByEndpoint = {} /\ pc = [c \in Calls |-> "open"]
  BY DEF MetricsInit
<1>2. MetricsTypeInv
  BY DEF MetricsInit, MetricsTypeInv, Kinds, CodeValues
<1>3. NamesInv
  BY <1>1, FS_EmptySet DEF NamesInv, MetricsAssumption
<1>4. CallsInv /\ RegistryInv
  BY <1>1 DEF MetricsInit, CallsInv, RegistryInv
<1>5. CountInv
  <2>1. \A n, o : Counted(n, o) = {}
    BY <1>1 DEF Counted
  <2> QED
    BY <2>1, FS_EmptySet DEF MetricsInit, CountInv
<1> QED
  BY <1>2, <1>3, <1>4, <1>5 DEF MetricsInv

(* A step of a call that counts nothing moves no other call and adds no span   *)
(* to those that are counted.                                                  *)
LEMMA SameCount ==
  ASSUME MetricsInv, NEW c \in Calls, pc[c] # "done",
         NEW label \in {"open", "normalize", "cache", "get", "register", "count", "done"},
         pc' = [pc EXCEPT ![c] = label],
         label = "done" => observer[c].kind # "inbound" /\ observer' = observer,
         \A d \in Calls : d # c => observer'[d] = observer[d] /\ safeName'[d] = safeName[d],
         requests' = requests
  PROVE  CountInv'
<1>1. /\ pc \in [Calls -> {"open", "normalize", "cache", "get", "register", "count", "done"}]
      /\ CountInv
  BY DEF MetricsInv, MetricsTypeInv
<1>2. pc'[c] = label /\ \A d \in Calls : d # c => pc'[d] = pc[d]
  BY <1>1
<1>3. \A n, o : \A d \in Calls : d \in Counted(n, o)' <=> d \in Counted(n, o)
  <2> TAKE n, o
  <2> TAKE d \in Calls
  <2>1. CASE d = c
    BY <2>1, <1>2 DEF Counted
  <2>2. CASE d # c
    BY <2>2, <1>2 DEF Counted, MetricsName
  <2> QED
    BY <2>1, <2>2
<1>4. \A n, o : Counted(n, o)' = Counted(n, o)
  BY <1>3 DEF Counted
<1> QED
  BY <1>1, <1>4 DEF CountInv

LEMMA SetTagInv ==
  ASSUME MetricsAssumption, MetricsInv, NEW c \in Calls, SetTag(c) \/ SetOperationName(c)
  PROVE  MetricsInv'
<1>0. MetricsTypeInv /\ NamesInv /\ CallsInv /\ RegistryInv /\ CountInv
  BY DEF MetricsInv
<1>1. pc[c] = "open" /\ UNCHANGED <<names, metricsByEndpoint, inits, requests, pc, safeName>>
  BY DEF SetTag, SetOperationName, registryVars
<1>2. /\ observer' \in
         [Calls -> [name : Operations, kind : Kinds, err : BOOLEAN, code : CodeValues]]
      /\ \A d \in Calls : d # c => observer'[d] = observer[d]
  <2>0. observer \in [Calls -> [name : Operations, kind : Kinds, err : BOOLEAN, code : CodeValues]]
    BY <1>0 DEF MetricsTypeInv
  <2>1. CASE \E kind \in {"inbound", "outbound"} : observer' = [observer EXCEPT ![c].kind = kind]
    BY <2>0, <2>1 DEF Kinds
  <2>2. CASE \E err \in BOOLEAN : observer' = [observer EXCEPT ![c].err = err]
    BY <2>0, <2>2
  <2>3. CASE \E code \in Codes : observer' = [observer EXCEPT ![c].code = code % 2^16]
    <3>1. PICK value \in CodeValues : observer' = [observer EXCEPT ![c].code = value]
      BY <2>3 DEF CodeValues
    <3> QED
      BY <2>0, <3>1
  <2>4. CASE \E o \in Operations : observer' = [observer EXCEPT ![c].name = o]
    BY <2>0, <2>4
  <2> QED
    BY <2>1, <2>2, <2>3, <2>4 DEF SetTag, SetOperationName
<1>3. MetricsTypeInv' /\ NamesInv' /\ RegistryInv'
  BY <1>0, <1>1, <1>2 DEF MetricsTypeInv, NamesInv, CachedName, RegistryInv
<1>4. CallsInv'
  BY <1>0, <1>1, <1>2 DEF CallsInv, CachedName
<1>5. CountInv'
  <2>1. pc' = [pc EXCEPT ![c] = "open"]
    BY <1>0, <1>1 DEF MetricsTypeInv
  <2> QED
    BY <1>1, <1>2, <2>1, SameCount
<1> QED
  BY <1>3, <1>4, <1>5 DEF MetricsInv

LEMMA OnFinishInv ==
  ASSUME MetricsAssumption, MetricsInv, NEW c \in Calls, OnFinish(c)
  PROVE  MetricsInv'
<1>0. MetricsTypeInv /\ NamesInv /\ CallsInv /\ RegistryInv /\ CountInv
  BY DEF MetricsInv
<1>1. /\ pc[c] = "open"
      /\ UNCHANGED <<names, metricsByEndpoint, inits, requests, safeName, observer>>
      /\ pc' = [pc EXCEPT ![c] = IF observer[c].kind = "inbound" THEN "normalize" ELSE "done"]
  BY DEF OnFinish, registryVars, goto
<1>2. MetricsTypeInv' /\ NamesInv' /\ RegistryInv'
  BY <1>0, <1>1 DEF MetricsTypeInv, NamesInv, CachedName, RegistryInv
<1>3. CallsInv'
  BY <1>0, <1>1 DEF CallsInv, CachedName, MetricsTypeInv
<1>4. CountInv'
  BY <1>1, SameCount
<1> QED
  BY <1>2, <1>3, <1>4 DEF MetricsInv

LEMMA NormalizeInv ==
  ASSUME MetricsAssumption, MetricsInv, NEW c \in Calls, Normalize(c)
  PROVE  MetricsInv'
<1>0. MetricsTypeInv /\ NamesInv /\ CallsInv /\ RegistryInv /\ CountInv
  BY DEF MetricsInv
<1> DEFINE name == observer[c].name
<1>1. /\ pc[c] = "normalize"
      /\ UNCHANGED <<names, metricsByEndpoint, inits, requests, observer>>
      /\ name \in Operations
  BY <1>0 DEF Normalize, registryVars, MetricsTypeInv
<1>2. CASE name \in DOMAIN names
  <2>1. safeName' = [safeName EXCEPT ![c] = Normal[name]] /\ pc' = [pc EXCEPT ![c] = "get"]
    BY <1>0, <1>2 DEF Normalize, goto, NamesInv
  <2>2. MetricsTypeInv' /\ NamesInv' /\ RegistryInv'
    BY <1>0, <1>1, <2>1, NormalSafe DEF MetricsTypeInv, NamesInv, CachedName, RegistryInv
  <2>3. CallsInv'
    BY <1>0, <1>1, <1>2, <2>1 DEF CallsInv, CachedName, MetricsTypeInv
  <2>4. \A d \in Calls : d # c => observer'[d] = observer[d] /\ safeName'[d] = safeName[d]
    BY <1>0, <1>1, <2>1 DEF MetricsTypeInv
  <2>5. CountInv'
    BY <1>1, <2>1, <2>4, SameCount
  <2> QED
    BY <2>2, <2>3, <2>5 DEF MetricsInv
<1>3. CASE name \notin DOMAIN names /\ Cardinality(DOMAIN names) >= MaxEndpoints
  <2>1. safeName' = [safeName EXCEPT ![c] = NoName] /\ pc' = [pc EXCEPT ![c] = "get"]
    BY <1>3 DEF Normalize, goto
  <2>2. MetricsTypeInv' /\ NamesInv' /\ RegistryInv'
    BY <1>0, <1>1, <2>1 DEF MetricsTypeInv, NamesInv, CachedName, RegistryInv
  <2>3. CallsInv'
    BY <1>0, <1>1, <2>1 DEF CallsInv, CachedName, MetricsTypeInv
  <2>4. \A d \in Calls : d # c => observer'[d] = observer[d] /\ safeName'[d] = safeName[d]
    BY <1>0, <1>1, <2>1 DEF MetricsTypeInv
  <2>5. CountInv'
    BY <1>1, <2>1, <2>4, SameCount
  <2> QED
    BY <2>2, <2>3, <2>5 DEF MetricsInv
<1>4. CASE name \notin DOMAIN names /\ ~(Cardinality(DOMAIN names) >= MaxEndpoints)
  <2>1. safeName' = safeName /\ pc' = [pc EXCEPT ![c] = "cache"]
    BY <1>4 DEF Normalize, goto
  <2>2. MetricsTypeInv' /\ NamesInv' /\ RegistryInv'
    BY <1>0, <1>1, <2>1 DEF MetricsTypeInv, NamesInv, CachedName, RegistryInv
  <2>3. CallsInv'
    BY <1>0, <1>1, <2>1 DEF CallsInv, CachedName, MetricsTypeInv
  <2>4. CountInv'
    BY <1>1, <2>1, SameCount
  <2> QED
    BY <2>2, <2>3, <2>4 DEF MetricsInv
<1> QED
  BY <1>2, <1>3, <1>4

(* The cache grows by one name, and only while there is room. *)
LEMMA NormalizeWithLockInv ==
  ASSUME MetricsAssumption, MetricsInv, NEW c \in Calls, NormalizeWithLock(c)
  PROVE  MetricsInv'
<1>0. MetricsTypeInv /\ NamesInv /\ CallsInv /\ RegistryInv /\ CountInv
  BY DEF MetricsInv
<1> DEFINE name == observer[c].name
           full == Cardinality(DOMAIN names) >= MaxEndpoints
<1>1. /\ pc[c] = "cache" /\ pc' = [pc EXCEPT ![c] = "get"]
      /\ UNCHANGED <<metricsByEndpoint, inits, requests, observer>>
      /\ safeName' = [safeName EXCEPT ![c] = IF full THEN NoName ELSE Normal[name]]
      /\ names' = IF full THEN names ELSE Cached(name)
      /\ name \in Operations /\ Normal[name] \in SafeNames
  BY <1>0, NormalSafe DEF NormalizeWithLock, goto, MetricsTypeInv
<1>2. /\ DOMAIN names \subseteq DOMAIN names'
      /\ ~full => name \in DOMAIN names'
      /\ \A o \in DOMAIN names' : names'[o] = Normal[o]
      /\ DOMAIN names' \subseteq Operations
  BY <1>0, <1>1 DEF Cached, NamesInv, MetricsTypeInv
<1>3. IsFiniteSet(DOMAIN names') /\ Cardinality(DOMAIN names') <= MaxEndpoints
  <2>1. CASE full
    BY <2>1, <1>0, <1>1 DEF NamesInv
  <2>2. CASE ~full
    <3>1. DOMAIN names' = DOMAIN names \cup {name}
      BY <2>2, <1>1 DEF Cached
    <3>2. IsFiniteSet(DOMAIN names) /\ Cardinality(DOMAIN names) \in Nat
      BY <1>0, FS_CardinalityType DEF NamesInv
    <3>3. /\ IsFiniteSet(DOMAIN names \cup {name})
          /\ Cardinality(DOMAIN names \cup {name})
               = IF name \in DOMAIN names THEN Cardinality(DOMAIN names)
                 ELSE Cardinality(DOMAIN names) + 1
      BY <3>2, FS_AddElement
    <3>4. MaxEndpoints \in Nat
      BY DEF MetricsAssumption
    <3> QED
      BY <2>2, <3>1, <3>2, <3>3, <3>4
  <2> QED
    BY <2>1, <2>2
<1> HIDE DEF full
<1>4. NamesInv'
  BY <1>0, <1>1, <1>2, <1>3 DEF NamesInv, CachedName
<1>5. MetricsTypeInv' /\ RegistryInv'
  BY <1>0, <1>1, <1>2 DEF MetricsTypeInv, RegistryInv
<1>6. CallsInv'
  BY <1>0, <1>1, <1>2 DEF CallsInv, CachedName, MetricsTypeInv
<1>7. \A d \in Calls : d # c => observer'[d] = observer[d] /\ safeName'[d] = safeName[d]
  BY <1>0, <1>1 DEF MetricsTypeInv
<1>8. CountInv'
  BY <1>1, <1>7, SameCount
<1> QED
  BY <1>4, <1>5, <1>6, <1>8 DEF MetricsInv

LEMMA GetMetricsInv ==
  ASSUME MetricsAssumption, MetricsInv, NEW c \in Calls, GetMetrics(c)
  PROVE  MetricsInv'
<1>0. MetricsTypeInv /\ NamesInv /\ CallsInv /\ RegistryInv /\ CountInv
  BY DEF MetricsInv
<1>1. PICK label \in {"count", "register"} :
        /\ pc[c] = "get" /\ pc' = [pc EXCEPT ![c] = label]
        /\ UNCHANGED <<names, metricsByEndpoint, inits, requests, observer, safeName>>
  BY DEF GetMetrics, goto, registryVars
<1>2. MetricsTypeInv' /\ NamesInv' /\ RegistryInv'
  BY <1>0, <1>1 DEF MetricsTypeInv, NamesInv, CachedName, RegistryInv
<1>3. CallsInv'
  BY <1>0, <1>1 DEF CallsInv, CachedName, MetricsTypeInv
<1>4. CountInv'
  BY <1>1, SameCount
<1> QED
  BY <1>2, <1>3, <1>4 DEF MetricsInv

(* Metrics are made for a name that has none, which is in the cache or other. *)
LEMMA GetWithWriteLockInv ==
  ASSUME MetricsAssumption, MetricsInv, NEW c \in Calls, GetWithWriteLock(c)
  PROVE  MetricsInv'
<1>0. MetricsTypeInv /\ NamesInv /\ CallsInv /\ RegistryInv /\ CountInv
  BY DEF MetricsInv
<1> DEFINE n == MetricsName(c)
<1>1. /\ pc[c] = "register" /\ pc' = [pc EXCEPT ![c] = "count"]
      /\ metricsByEndpoint' = metricsByEndpoint \cup {n}
      /\ inits' = IF n \in metricsByEndpoint THEN inits ELSE [inits EXCEPT ![n] = inits[n] + 1]
      /\ UNCHANGED <<names, requests, observer, safeName>>
  BY DEF GetWithWriteLock, goto
<1>2. n \in SafeNames /\ (n = Other \/ CachedName(n))
  BY <1>0, <1>1, MetricsNameSafe DEF CallsInv, MetricsName
<1> HIDE DEF n
<1>3. /\ inits' \in [SafeNames -> Nat]
      /\ \A k \in SafeNames : inits'[k] = IF k \in metricsByEndpoint' THEN 1 ELSE 0
  <2>1. inits \in [SafeNames -> Nat]
        /\ \A k \in SafeNames : inits[k] = IF k \in metricsByEndpoint THEN 1 ELSE 0
    BY <1>0 DEF MetricsTypeInv, RegistryInv
  <2>2. CASE n \in metricsByEndpoint
    BY <2>1, <2>2, <1>1
  <2>3. CASE n \notin metricsByEndpoint
    <3>1. inits' = [inits EXCEPT ![n] = inits[n] + 1] /\ inits[n] = 0
      BY <2>1, <2>3, <1>1, <1>2
    <3>2. \A k \in SafeNames : inits'[k] = IF k = n THEN 1 ELSE inits[k]
      BY <2>1, <3>1, <1>2
    <3>3. inits' \in [SafeNames -> Nat]
      BY <2>1, <3>1, <1>2
    <3> QED
      BY <2>1, <3>2, <3>3, <1>1
  <2> QED
    BY <2>2, <2>3
<1>4. MetricsTypeInv' /\ RegistryInv'
  BY <1>0, <1>1, <1>2, <1>3 DEF MetricsTypeInv, RegistryInv
<1>5. NamesInv'
  BY <1>0, <1>1, <1>2 DEF NamesInv, CachedName
<1>6. CallsInv'
  BY <1>0, <1>1 DEF CallsInv, CachedName, MetricsTypeInv
<1>7. CountInv'
  BY <1>1, SameCount
<1> QED
  BY <1>4, <1>5, <1>6, <1>7 DEF MetricsInv

(* A span is counted when it ends, for its name and its outcome and no other. *)
LEMMA CountCountInv ==
  ASSUME MetricsAssumption, MetricsInv, NEW c \in Calls, Count(c)
  PROVE  CountInv'
<1>0. MetricsTypeInv /\ CallsInv /\ CountInv
  BY DEF MetricsInv
<1> DEFINE m == MetricsName(c)
           r == Outcome(observer[c])
<1>1. /\ pc[c] = "count" /\ pc' = [pc EXCEPT ![c] = "done"]
      /\ requests' = [requests EXCEPT ![m][r] = requests[m][r] + 1]
      /\ UNCHANGED <<observer, safeName>>
  BY DEF Count, goto
<1>2. /\ observer[c].kind = "inbound" /\ m \in SafeNames /\ r \in Outcomes
      /\ m \in {Normal[observer[c].name], Other}
  BY <1>0, <1>1, MetricsNameSafe DEF CallsInv, MetricsName, Outcome, Outcomes
<1>3. pc'[c] = "done" /\ \A d \in Calls : d # c => pc'[d] = pc[d]
  BY <1>0, <1>1 DEF MetricsTypeInv
<1>4. ASSUME NEW n \in SafeNames, NEW o \in Outcomes
      PROVE  /\ c \notin Counted(n, o)
             /\ Counted(n, o)' = IF n = m /\ o = r THEN Counted(n, o) \cup {c} ELSE Counted(n, o)
             /\ requests'[n][o] = IF n = m /\ o = r THEN requests[n][o] + 1 ELSE requests[n][o]
  <2>1. c \notin Counted(n, o)
    BY <1>1 DEF Counted
  <2>2. c \in Counted(n, o)' <=> n = m /\ o = r
    BY <1>1, <1>2, <1>3 DEF Counted, MetricsName
  <2>3. \A d \in Calls : d # c => (d \in Counted(n, o)' <=> d \in Counted(n, o))
    BY <1>1, <1>3 DEF Counted, MetricsName
  <2>4. Counted(n, o) \subseteq Calls /\ Counted(n, o)' \subseteq Calls
    BY DEF Counted
  <2>5. Counted(n, o)' = IF n = m /\ o = r THEN Counted(n, o) \cup {c} ELSE Counted(n, o)
    BY <2>1, <2>2, <2>3, <2>4
  <2>6. requests'[n][o] = IF n = m /\ o = r THEN requests[n][o] + 1 ELSE requests[n][o]
    <3>1. requests \in [SafeNames -> [Outcomes -> Nat]]
      BY <1>0 DEF MetricsTypeInv
    <3> HIDE DEF m, r
    <3> QED
      BY <1>1, <1>2, <3>1
  <2> QED
    BY <2>1, <2>5, <2>6
<1>5. ASSUME NEW n \in SafeNames, NEW o \in Outcomes
      PROVE  IsFiniteSet(Counted(n, o)') /\ requests'[n][o] = Cardinality(Counted(n, o)')
  <2>1. IsFiniteSet(Counted(n, o)) /\ requests[n][o] = Cardinality(Counted(n, o))
    BY <1>0 DEF CountInv
  <2>2. /\ IsFiniteSet(Counted(n, o) \cup {c})
        /\ Cardinality(Counted(n, o) \cup {c}) = Cardinality(Counted(n, o)) + 1
    BY <1>4, <2>1, FS_AddElement
  <2> QED
    BY <1>4, <2>1, <2>2
<1> QED
  BY <1>5 DEF CountInv

LEMMA CountRpcInv ==
  ASSUME MetricsAssumption, MetricsInv, NEW c \in Calls, Count(c)
  PROVE  MetricsInv'
<1>0. MetricsTypeInv /\ NamesInv /\ CallsInv /\ RegistryInv
  BY DEF MetricsInv
<1> DEFINE m == MetricsName(c)
           r == Outcome(observer[c])
<1>1. /\ pc[c] = "count" /\ pc' = [pc EXCEPT ![c] = "done"]
      /\ requests' = [requests EXCEPT ![m][r] = requests[m][r] + 1]
      /\ UNCHANGED <<names, metricsByEndpoint, inits, observer, safeName>>
  BY DEF Count, goto
<1>2. m \in SafeNames /\ r \in Outcomes
  BY <1>0, MetricsNameSafe DEF Outcome, Outcomes
<1> HIDE DEF m, r
<1>3. requests' \in [SafeNames -> [Outcomes -> Nat]]
  <2>1. requests \in [SafeNames -> [Outcomes -> Nat]]
    BY <1>0 DEF MetricsTypeInv
  <2>2. [requests[m] EXCEPT ![r] = requests[m][r] + 1] \in [Outcomes -> Nat]
    BY <1>2, <2>1
  <2> QED
    BY <1>1, <1>2, <2>1, <2>2
<1>4. MetricsTypeInv' /\ NamesInv' /\ RegistryInv'
  BY <1>0, <1>1, <1>3 DEF MetricsTypeInv, NamesInv, CachedName, RegistryInv
<1>5. CallsInv'
  BY <1>0, <1>1 DEF CallsInv, CachedName, MetricsTypeInv
<1> QED
  BY <1>4, <1>5, CountCountInv DEF MetricsInv

LEMMA NextMetrics == MetricsAssumption /\ MetricsInv /\ [MetricsNext]_rpcVars => MetricsInv'
<1> SUFFICES ASSUME MetricsAssumption, MetricsInv, [MetricsNext]_rpcVars PROVE MetricsInv'
  OBVIOUS
<1>1. ASSUME NEW c \in Calls,
             \/ SetTag(c) \/ SetOperationName(c) \/ OnFinish(c) \/ Normalize(c)
             \/ NormalizeWithLock(c) \/ GetMetrics(c) \/ GetWithWriteLock(c) \/ Count(c)
      PROVE  MetricsInv'
  BY <1>1, SetTagInv, OnFinishInv, NormalizeInv, NormalizeWithLockInv, GetMetricsInv,
     GetWithWriteLockInv, CountRpcInv
<1>2. CASE UNCHANGED rpcVars
  <2>1. MetricsTypeInv' /\ NamesInv' /\ RegistryInv'
    BY <1>2 DEF rpcVars, MetricsInv, MetricsTypeInv, NamesInv, CachedName, RegistryInv
  <2>2. CallsInv'
    BY <1>2 DEF rpcVars, MetricsInv, CallsInv, CachedName
  <2>3. \A n, o : Counted(n, o)' = Counted(n, o)
    BY <1>2 DEF rpcVars, Counted, MetricsName
  <2>4. CountInv'
    BY <1>2, <2>3 DEF rpcVars, MetricsInv, CountInv
  <2> QED
    BY <2>1, <2>2, <2>4 DEF MetricsInv
<1> QED
  BY <1>1, <1>2 DEF MetricsNext

(* The registry holds metrics for cached names and other: no more than the     *)
(* cache has names.                                                            *)
LEMMA RegistryBounded ==
  ASSUME MetricsAssumption, MetricsTypeInv, NamesInv
  PROVE  Cardinality(metricsByEndpoint \ {Other}) <= MaxEndpoints
<1> DEFINE normal == [o \in DOMAIN names |-> Normal[o]]
           image == {normal[o] : o \in DOMAIN names}
<1>1. normal \in Surjection(DOMAIN names, image)
  BY DEF Surjection
<1>2. IsFiniteSet(DOMAIN names) /\ Cardinality(DOMAIN names) <= MaxEndpoints
  BY DEF NamesInv
<1>3. IsFiniteSet(image) /\ Cardinality(image) <= Cardinality(DOMAIN names)
  BY <1>1, <1>2, FS_Surjection
<1>4. metricsByEndpoint \ {Other} \subseteq image
  BY DEF NamesInv, CachedName
<1> HIDE DEF image
<1>5. /\ IsFiniteSet(metricsByEndpoint \ {Other})
      /\ Cardinality(metricsByEndpoint \ {Other}) <= Cardinality(image)
  BY <1>3, <1>4, FS_Subset
<1>6. /\ Cardinality(image) \in Nat /\ Cardinality(DOMAIN names) \in Nat
      /\ Cardinality(metricsByEndpoint \ {Other}) \in Nat /\ MaxEndpoints \in Nat
  BY <1>2, <1>3, <1>5, FS_CardinalityType DEF MetricsAssumption
<1> QED
  BY <1>2, <1>3, <1>5, <1>6

(* Look-ups that race with insertions never make the metrics of a name twice   *)
(* (getWithWriteLock), nor more of them than maxNumberOfEndpoints and other    *)
(* (normalizeWithLock), and every server span that has finished was counted    *)
(* once (OnFinish).                                                            *)
THEOREM EndpointsBounded ==
  ASSUME MetricsAssumption
  PROVE  MetricsSpec => []EndpointsExact
<1>1. MetricsInv => EndpointsExact
  BY RegistryBounded DEF MetricsInv, NamesInv, RegistryInv, CountInv, Counted, EndpointsExact
<1>2. MetricsInit => MetricsInv
  BY InitMetrics
<1>3. MetricsInv /\ [MetricsNext]_rpcVars => MetricsInv'
  BY NextMetrics
<1> QED
  BY <1>1, <1>2, <1>3, PTL DEF MetricsSpec

-----------------------------------------------------------------------------
(* ThriftRpc *)

Names == UNION {DOMAIN client : client \in Clients}
Request == [name : Names, seq : Nat]
Reply == [name : Names, seq : Nat, type : {"REPLY", "EXCEPTION"}, of : Nat]

ThriftTypeInv ==
  /\ processor \in Processors
  /\ sent \in Seq(Request) /\ replies \in Seq(Reply)
  /\ inside \in BOOLEAN /\ open \in BOOLEAN
  /\ seqId \in Nat /\ pending \in Names \cup {NoMethod}

(* What is on the way, first the replies and then the requests, is in the      *)
(* order of the calls.                                                         *)
OrderInv ==
  /\ \A i \in DOMAIN replies : replies[i].seq <= seqId /\ replies[i].of = replies[i].seq
  /\ \A i \in DOMAIN sent : sent[i].seq <= seqId
  /\ \A i, j \in DOMAIN replies : i < j => replies[i].seq < replies[j].seq
  /\ \A i, j \in DOMAIN sent : i < j => sent[i].seq < sent[j].seq
  /\ \A i \in DOMAIN replies, j \in DOMAIN sent : replies[i].seq < sent[j].seq

(* The server answers this request, unless it closes the connection first. *)
Answered(r) == r.name \in DOMAIN processor => processor[r.name] = "two-way"

(* The answer to a call below n is on its way, or will be. *)
Behind(n) ==
  \/ \E i \in DOMAIN replies : replies[i].seq < n
  \/ \E i \in DOMAIN sent : sent[i].seq < n /\ Answered(sent[i])

(* The call that Recv waits for is answered, unless the connection is closed. *)
Awaited(n) ==
  \/ \E i \in DOMAIN replies : replies[i].seq = n
  \/ \E i \in DOMAIN sent : sent[i].seq = n /\ Answered(sent[i])

AwaitedInv ==
  /\ pending # NoMethod => ~open \/ Awaited(seqId)
  /\ inside => replies # << >> /\ (pending # NoMethod => replies[1].seq < seqId)

(* The call that is waited for, or the next one. *)
Waiting == IF pending = NoMethod THEN seqId + 1 ELSE seqId

(* A client that is out of step stays behind, or finds the connection closed   *)
(* and nothing more to read.                                                   *)
StepInv ==
  /\ outOfStep => Behind(Waiting) \/ (~open /\ replies = << >>)
  /\ AnswersInStep

ThriftInv == ThriftTypeInv /\ OrderInv /\ AwaitedInv /\ StepInv

-----------------------------------------------------------------------------
(* A method has one template, whichever client and processor it belongs to. *)
LEMMA OneTemplate ==
  /\ NoMethod \notin Names
  /\ \A client \in Clients, p \in Processors :
       \A name \in DOMAIN client : name \in DOMAIN p => p[name] = client[name]
  /\ \A client \in Clients : \A name \in DOMAIN client : client[name] \in {"oneway", "two-way"}
  /\ \A p \in Processors : \A name \in DOMAIN p : p[name] \in {"oneway", "two-way"}
<1>1. Names = {"emitZipkinBatch", "emitBatch", "getSamplingStrategy", "getBaggageRestrictions",
               "submitBatches", "submitZipkinBatch"}
  BY DEF Names, Clients, AgentClient, SamplingManagerClient,
     BaggageRestrictionManagerClient, CollectorClient, ZipkinCollectorClient
<1>2. NoMethod \notin Names
  BY <1>1, Zenon DEF NoMethod
<1>3. \A client \in Clients, p \in Processors :
       \A name \in DOMAIN client : name \in DOMAIN p => p[name] = client[name]
  BY DEF Clients, Processors, AgentClient, SamplingManagerClient,
     BaggageRestrictionManagerClient, CollectorClient, ZipkinCollectorClient, AgentProcessor,
     SamplingManagerProcessor, BaggageRestrictionManagerProcessor, CollectorProcessor,
     ZipkinCollectorProcessor
<1>4. \A client \in Clients : \A name \in DOMAIN client : client[name] \in {"oneway", "two-way"}
  BY DEF Clients, AgentClient, SamplingManagerClient,
     BaggageRestrictionManagerClient, CollectorClient, ZipkinCollectorClient
<1>5. \A p \in Processors : \A name \in DOMAIN p : p[name] \in {"oneway", "two-way"}
  BY DEF Processors, AgentProcessor,
     SamplingManagerProcessor, BaggageRestrictionManagerProcessor, CollectorProcessor,
     ZipkinCollectorProcessor
<1> QED
  BY <1>2, <1>3, <1>4, <1>5

(* The first element of a queue, and the queue without it. *)
LEMMA Behead ==
  ASSUME NEW S, NEW q \in Seq(S), q # << >>
  PROVE  /\ 1 \in DOMAIN q /\ Head(q) = q[1] /\ q[1] \in S
         /\ Tail(q) \in Seq(S)
         /\ \A i \in DOMAIN Tail(q) : i + 1 \in DOMAIN q /\ Tail(q)[i] = q[i + 1] /\ i \in Nat
         /\ \A i \in DOMAIN q : i \in Nat /\ (i # 1 => i - 1 \in DOMAIN Tail(q) /\ Tail(q)[i - 1] = q[i])
BY HeadTailProperties, LenProperties, EmptySeq

LEMMA Enqueue ==
  ASSUME NEW S, NEW q \in Seq(S), NEW e \in S
  PROVE  /\ Append(q, e) \in Seq(S) /\ Len(q) + 1 \in DOMAIN Append(q, e)
         /\ Append(q, e)[Len(q) + 1] = e
         /\ \A i \in DOMAIN q : i \in DOMAIN Append(q, e) /\ Append(q, e)[i] = q[i] /\ i < Len(q) + 1
         /\ \A i \in DOMAIN Append(q, e) : i \in DOMAIN q \/ i = Len(q) + 1
BY LenProperties

LEMMA Typed ==
  ASSUME ThriftTypeInv
  PROVE  /\ Len(sent) \in Nat /\ Len(replies) \in Nat /\ seqId \in Nat
         /\ \A i \in DOMAIN sent : sent[i] \in Request /\ sent[i].seq \in Nat /\ i \in Nat
         /\ \A i \in DOMAIN replies : replies[i] \in Reply /\ replies[i].seq \in Nat /\ i \in Nat
<1>1. /\ Len(sent) \in Nat /\ DOMAIN sent = 1..Len(sent) /\ seqId \in Nat
      /\ Len(replies) \in Nat /\ DOMAIN replies = 1..Len(replies)
  BY LenProperties DEF ThriftTypeInv
<1>2. \A i \in DOMAIN sent : sent[i] \in Request
  BY <1>1, ElementOfSeq DEF ThriftTypeInv
<1>3. \A i \in DOMAIN replies : replies[i] \in Reply
  BY <1>1, ElementOfSeq DEF ThriftTypeInv
<1> QED
  BY <1>1, <1>2, <1>3 DEF Request, Reply

LEMMA InitThrift == ThriftInit => ThriftInv
<1> SUFFICES ASSUME ThriftInit PROVE ThriftInv
  OBVIOUS
<1>1. DOMAIN << >> = {} /\ << >> \in Seq(Request) /\ << >> \in Seq(Reply)
  BY EmptySeq
<1> QED
  BY <1>1 DEF ThriftInit, ThriftInv, ThriftTypeInv, OrderInv, AwaitedInv, StepInv, AnswersInStep

-----------------------------------------------------------------------------
(* Send puts the request after all that is on its way. *)
LEMMA SendInv ==
  ASSUME ThriftInv, NEW name \in Names, Send(name, seqId'), seqId' = seqId + 1,
         UNCHANGED <<processor, replies, open>>
  PROVE  /\ sent' \in Seq(Request) /\ OrderInv'
         /\ \A n \in Nat : Behind(n) => Behind(n)'
         /\ open => \E i \in DOMAIN sent' : sent'[i] = [name |-> name, seq |-> seqId + 1]
<1>0. ThriftTypeInv /\ OrderInv /\ sent \in Seq(Request) /\ replies \in Seq(Reply)
  BY DEF ThriftInv, ThriftTypeInv
<1> DEFINE r == [name |-> name, seq |-> seqId + 1]
<1>1. r \in Request /\ r.seq = seqId + 1 /\ seqId \in Nat /\ seqId + 1 \in Nat
  <2>1. seqId \in Nat /\ seqId + 1 \in Nat
    BY <1>0 DEF ThriftTypeInv
  <2> QED
    BY <2>1 DEF Request
<1>s. /\ \A i \in DOMAIN sent : sent[i].seq \in Nat /\ i \in Nat
      /\ \A i \in DOMAIN replies : replies[i].seq \in Nat /\ i \in Nat
      /\ Len(sent) \in Nat
  BY <1>0, Typed
<1>2. CASE ~open
  <2>1. sent' = sent
    BY <1>2 DEF Send
  <2>2. OrderInv'
    BY <1>0, <1>1, <1>s, <2>1 DEF OrderInv
  <2> QED
    BY <1>0, <1>2, <2>1, <2>2 DEF Behind, Answered
<1>3. CASE open
  <2>1. sent' = Append(sent, r)
    BY <1>3 DEF Send
  <2> HIDE DEF r
  <2>2. /\ sent' \in Seq(Request) /\ Len(sent) + 1 \in DOMAIN sent'
        /\ sent'[Len(sent) + 1] = r
        /\ \A i \in DOMAIN sent : i \in DOMAIN sent' /\ sent'[i] = sent[i] /\ i < Len(sent) + 1
        /\ \A i \in DOMAIN sent' : i \in DOMAIN sent \/ i = Len(sent) + 1
    BY <1>0, <1>1, <2>1, Enqueue
  <2>3. /\ \A i \in DOMAIN sent : sent[i].seq \in Nat
        /\ \A i \in DOMAIN replies : replies[i].seq \in Nat
        /\ seqId \in Nat /\ \A i \in DOMAIN sent : i \in Nat /\ Len(sent) \in Nat
    BY <1>s, <1>1
  <2>4. OrderInv'
    <3>1. \A i \in DOMAIN sent' :
            sent'[i].seq <= seqId + 1 /\ (i \notin DOMAIN sent => sent'[i].seq = seqId + 1)
      BY <1>0, <1>1, <2>2, <2>3 DEF OrderInv
    <3>2. \A i, j \in DOMAIN sent' : i < j => i \in DOMAIN sent
      BY <2>2, <2>3
    <3>3. \A i, j \in DOMAIN sent' : i < j => sent'[i].seq < sent'[j].seq
      <4> SUFFICES ASSUME NEW i \in DOMAIN sent', NEW j \in DOMAIN sent', i < j
                   PROVE  sent'[i].seq < sent'[j].seq
        OBVIOUS
      <4>1. i \in DOMAIN sent /\ sent'[i] = sent[i] /\ sent[i].seq <= seqId
        BY <1>0, <2>2, <3>2 DEF OrderInv
      <4>2. CASE j \in DOMAIN sent
        BY <1>0, <2>2, <4>1, <4>2 DEF OrderInv
      <4>3. CASE j \notin DOMAIN sent
        BY <2>3, <3>1, <4>1, <4>3
      <4> QED
        BY <4>2, <4>3
    <3>4. \A i \in DOMAIN replies, j \in DOMAIN sent' : replies[i].seq < sent'[j].seq
      <4> SUFFICES ASSUME NEW i \in DOMAIN replies, NEW j \in DOMAIN sent'
                   PROVE  replies[i].seq < sent'[j].seq
        OBVIOUS
      <4>1. replies[i].seq <= seqId
        BY <1>0 DEF OrderInv
      <4>2. CASE j \in DOMAIN sent
        BY <1>0, <2>2, <4>2 DEF OrderInv
      <4>3. CASE j \notin DOMAIN sent
        BY <2>3, <3>1, <4>1, <4>3
      <4> QED
        BY <4>2, <4>3
    <3>5. \A i \in DOMAIN replies : replies[i].seq <= seqId + 1
      BY <1>0, <2>3 DEF OrderInv
    <3> QED
      BY <1>0, <3>1, <3>3, <3>4, <3>5 DEF OrderInv
  <2>5. \A n \in Nat : Behind(n) => Behind(n)'
    BY <2>2 DEF Behind, Answered
  <2> QED
    BY <2>2, <2>4, <2>5 DEF r
<1> QED
  BY <1>2, <1>3

LEMMA CallInv ==
  ASSUME ThriftInv, NEW client \in Clients, NEW name \in DOMAIN client, Call(name, client[name])
  PROVE  ThriftInv'
<1> DEFINE kind == client[name]
<1>0. /\ ThriftTypeInv /\ OrderInv /\ AwaitedInv /\ StepInv
      /\ pending = NoMethod /\ seqId' = seqId + 1
      /\ UNCHANGED <<processor, replies, inside, open>>
      /\ seqId \in Nat /\ seqId + 1 \in Nat /\ seqId + 2 \in Nat
  BY Typed DEF ThriftInv, Call
<1>r. PICK n \in Nat : n = seqId
  BY <1>0
<1>1. name \in Names /\ name # NoMethod /\ kind \in {"oneway", "two-way"}
  BY OneTemplate DEF Names
<1>2. /\ Waiting = n + 1
      /\ inside => replies # << >> /\ 1 \in DOMAIN replies /\ replies[1].seq < seqId + 1
  <2>1. replies # << >> => 1 \in DOMAIN replies
    BY <1>0, Behead DEF ThriftTypeInv
  <2>2. 1 \in DOMAIN replies => replies[1].seq \in Nat /\ replies[1].seq <= seqId
    BY <1>0, Typed DEF OrderInv
  <2> QED
    BY <1>0, <1>r, <2>1, <2>2 DEF AwaitedInv, Waiting
<1>3. \A k, m \in Nat : Behind(k) /\ k <= m => Behind(m)
  BY <1>0, Typed DEF Behind
<1>4. CASE /\ Send(name, seqId')
           /\ IF kind = "oneway" THEN Ends(seqId', "sent", seqId')
              ELSE pending' = name /\ UNCHANGED outcome
           /\ UNCHANGED outOfStep
  <2>1. /\ sent' \in Seq(Request) /\ OrderInv'
        /\ \A k \in Nat : Behind(k) => Behind(k)'
        /\ open => \E i \in DOMAIN sent' : sent'[i] = [name |-> name, seq |-> seqId + 1]
    BY <1>0, <1>1, <1>4, SendInv
  <2>2. CASE kind = "oneway" /\ Ends(seqId', "sent", seqId') /\ UNCHANGED outOfStep
    <3>1. /\ pending' = NoMethod /\ Waiting' = n + 2 /\ outcome'.kind = "sent"
      BY <1>0, <1>r, <2>2 DEF Ends, Waiting
    <3>2. Behind(n + 1) => Behind(n + 2)'
      <4>1. Behind(n + 1) => Behind(n + 2)
        BY <1>0, <1>3
      <4> QED
        BY <1>0, <2>1, <4>1
    <3>3. StepInv'
      BY <1>0, <1>2, <2>2, <3>1, <3>2 DEF StepInv, AnswersInStep
    <3>4. AwaitedInv'
      BY <1>0, <1>2, <3>1 DEF AwaitedInv
    <3>5. ThriftTypeInv'
      BY <1>0, <2>1, <3>1 DEF ThriftTypeInv
    <3> QED
      BY <2>1, <3>3, <3>4, <3>5 DEF ThriftInv
  <2>3. CASE kind # "oneway" /\ pending' = name /\ UNCHANGED outcome /\ UNCHANGED outOfStep
    <3>1. Waiting' = n + 1
      BY <1>0, <1>1, <1>r, <2>3 DEF Waiting
    <3>2. Behind(n + 1) => Behind(n + 1)'
      BY <1>0, <2>1
    <3>3. StepInv'
      BY <1>0, <1>2, <2>3, <3>1, <3>2 DEF StepInv, AnswersInStep
    <3>4. open => Awaited(n + 1)'
      <4> SUFFICES ASSUME open PROVE Awaited(n + 1)'
        OBVIOUS
      <4>1. PICK i \in DOMAIN sent' : sent'[i] = [name |-> name, seq |-> seqId + 1]
        BY <2>1
      <4>2. processor \in Processors /\ processor' = processor /\ kind = "two-way"
        BY <1>0, <1>1, <2>3 DEF ThriftTypeInv
      <4>3. sent'[i].name = name /\ sent'[i].seq = n + 1
        BY <1>r, <4>1
      <4>4. name \in DOMAIN processor => processor[name] = "two-way"
        BY <4>2, OneTemplate
      <4>5. Answered(sent[i])'
        BY <4>2, <4>3, <4>4 DEF Answered
      <4> QED
        BY <4>3, <4>5 DEF Awaited
    <3>5. AwaitedInv'
      <4>1. seqId' = n + 1
        BY <1>0, <1>r
      <4>2. Awaited(seqId)' <=> Awaited(n + 1)'
        BY <4>1 DEF Awaited, Answered
      <4> QED
        BY <1>0, <1>2, <1>r, <3>4, <4>1, <4>2 DEF AwaitedInv
    <3>6. ThriftTypeInv'
      BY <1>0, <1>1, <2>1, <2>3 DEF ThriftTypeInv
    <3> QED
      BY <2>1, <3>3, <3>5, <3>6 DEF ThriftInv
  <2> QED
    BY <1>4, <2>2, <2>3
<1>5. CASE ~open /\ Fails(seqId') /\ UNCHANGED sent
  <2>1. pending' = NoMethod /\ Waiting' = n + 2 /\ outcome'.kind = "error"
    BY <1>0, <1>r, <1>5 DEF Fails, Ends, Waiting
  <2>2. replies # << >> => Behind(n + 2)'
    <3>1. replies # << >> => 1 \in DOMAIN replies
      BY <1>0, Behead DEF ThriftTypeInv
    <3>2. 1 \in DOMAIN replies => replies[1].seq \in Nat /\ replies[1].seq <= seqId
      BY <1>0, Typed DEF OrderInv
    <3> QED
      BY <1>0, <1>r, <3>1, <3>2 DEF Behind
  <2>3. StepInv'
    BY <1>0, <1>5, <2>1, <2>2 DEF StepInv, AnswersInStep
  <2>4. OrderInv'
    BY <1>0, <1>5, Typed DEF OrderInv
  <2>5. AwaitedInv' /\ ThriftTypeInv'
    BY <1>0, <1>2, <1>5, <2>1 DEF AwaitedInv, ThriftTypeInv
  <2> QED
    BY <2>3, <2>4, <2>5 DEF ThriftInv
<1> QED
  BY <1>4, <1>5 DEF Call

-----------------------------------------------------------------------------
(* The first reply is the oldest, and leaves the others in order. *)
LEMMA RepliesTail ==
  ASSUME ThriftTypeInv, OrderInv, replies # << >>, replies' = Tail(replies),
         UNCHANGED <<sent, seqId>>
  PROVE  replies' \in Seq(Reply) /\ OrderInv'
<1>1. /\ Tail(replies) \in Seq(Reply)
      /\ \A i \in DOMAIN Tail(replies) : i + 1 \in DOMAIN replies
                                        /\ Tail(replies)[i] = replies[i + 1] /\ i \in Nat
  BY Behead DEF ThriftTypeInv
<1>2. \A i \in DOMAIN replies' : replies'[i].seq <= seqId /\ replies'[i].of = replies'[i].seq
  BY <1>1 DEF OrderInv
<1>3. \A i, j \in DOMAIN replies' : i < j => replies'[i].seq < replies'[j].seq
  <2> SUFFICES ASSUME NEW i \in DOMAIN replies', NEW j \in DOMAIN replies', i < j
               PROVE  replies'[i].seq < replies'[j].seq
    OBVIOUS
  <2>1. i + 1 < j + 1 /\ i + 1 \in DOMAIN replies /\ j + 1 \in DOMAIN replies
    BY <1>1
  <2>2. replies[i + 1].seq < replies[j + 1].seq
    BY <2>1 DEF OrderInv
  <2> QED
    BY <1>1, <2>2
<1>4. \A i \in DOMAIN replies', j \in DOMAIN sent : replies'[i].seq < sent[j].seq
  BY <1>1 DEF OrderInv
<1> QED
  BY <1>1, <1>2, <1>3, <1>4 DEF OrderInv

(* However Recv fails, the answer to its call stays behind, or never comes. *)
LEMMA RecvFailsInv ==
  ASSUME ThriftInv, pending # NoMethod, Fails(seqId), UNCHANGED <<processor, sent, open, seqId>>,
         replies' = replies \/ (inside /\ replies' = Tail(replies)),
         inside' \in BOOLEAN, inside' => replies' # << >>
  PROVE  ThriftInv'
<1>0. /\ ThriftTypeInv /\ OrderInv /\ AwaitedInv /\ StepInv /\ pending' = NoMethod
      /\ outcome'.kind = "error"
      /\ inside => replies # << >> /\ replies[1].seq < seqId
  BY DEF ThriftInv, Fails, Ends, AwaitedInv
<1>r. PICK n \in Nat : n = seqId
  BY <1>0, Typed
<1>1. replies' \in Seq(Reply) /\ OrderInv'
  <2>1. CASE replies' = replies
    BY <1>0, <2>1 DEF ThriftTypeInv, OrderInv
  <2>2. CASE inside /\ replies' = Tail(replies)
    BY <1>0, <2>2, RepliesTail
  <2> QED
    BY <2>1, <2>2
<1>2. ThriftTypeInv' /\ AwaitedInv'
  BY <1>0, <1>1 DEF ThriftTypeInv, AwaitedInv
<1>3. Waiting' = n + 1
  BY <1>0, <1>r DEF Waiting
<1>4. Behind(n + 1)' \/ (~open' /\ replies' = << >>)
  <2>1. CASE ~open
    <3>1. replies' # << >> => 1 \in DOMAIN replies'
      BY <1>1, Behead
    <3>2. 1 \in DOMAIN replies' => replies'[1].seq \in Nat /\ replies'[1].seq <= n
      <4>1. \A i \in DOMAIN replies' : replies'[i].seq \in Nat
        <5>1. DOMAIN replies' = 1..Len(replies')
          BY <1>1, LenProperties
        <5>2. \A i \in DOMAIN replies' : replies'[i] \in Reply
          BY <1>1, <5>1, ElementOfSeq
        <5> QED
          BY <5>2 DEF Reply
      <4> QED
        BY <1>1, <1>r, <4>1 DEF OrderInv
    <3> QED
      BY <2>1, <3>1, <3>2 DEF Behind
  <2>2. ASSUME NEW i \in DOMAIN replies, replies[i].seq = n
        PROVE  Behind(n + 1)'
    <3>1. CASE replies' = replies
      BY <2>2, <3>1 DEF Behind
    <3>2. CASE inside /\ replies' = Tail(replies)
      <4>1. i # 1
        BY <1>0, <1>r, <2>2, <3>2
      <4>2. i - 1 \in DOMAIN replies' /\ replies'[i - 1] = replies[i]
        BY <1>0, <3>2, <4>1, Behead DEF ThriftTypeInv
      <4> QED
        BY <2>2, <4>2 DEF Behind
    <3> QED
      BY <3>1, <3>2
  <2>3. ASSUME NEW i \in DOMAIN sent, sent[i].seq = n, Answered(sent[i])
        PROVE  Behind(n + 1)'
    BY <2>3 DEF Behind, Answered
  <2>4. ~open \/ Awaited(n)
    BY <1>0, <1>r DEF AwaitedInv
  <2> QED
    BY <2>1, <2>2, <2>3, <2>4 DEF Awaited
<1>5. StepInv'
  BY <1>0, <1>3, <1>4 DEF StepInv, AnswersInStep
<1> QED
  BY <1>1, <1>2, <1>5 DEF ThriftInv

(* The reply that Recv accepts is the oldest on the way, so that no call       *)
(* before it has left one behind.                                              *)
LEMMA RecvReplyInv ==
  ASSUME ThriftInv, RecvReply
  PROVE  ThriftInv'
<1>0. /\ ThriftTypeInv /\ OrderInv /\ AwaitedInv /\ StepInv
      /\ pending # NoMethod /\ ~inside /\ replies # << >>
      /\ replies' = Tail(replies) /\ pending' = NoMethod
      /\ UNCHANGED <<processor, sent, inside, open, seqId, outOfStep>>
  BY DEF ThriftInv, RecvReply, Ends
<1>r. PICK n \in Nat : n = seqId
  BY <1>0, Typed
<1>1. /\ 1 \in DOMAIN replies /\ Head(replies) = replies[1]
      /\ replies[1].seq = n /\ replies[1].of = n
  <2>1. 1 \in DOMAIN replies /\ Head(replies) = replies[1]
    BY <1>0, Behead DEF ThriftTypeInv
  <2> QED
    BY <1>0, <1>r, <2>1 DEF RecvReply, Expected, OrderInv
<1>2. ~outOfStep
  <2>1. \A i \in DOMAIN replies : ~(replies[i].seq < n)
    <3> SUFFICES ASSUME NEW i \in DOMAIN replies PROVE ~(replies[i].seq < n)
      OBVIOUS
    <3>1. i \in Nat /\ replies[i].seq \in Nat /\ (i = 1 \/ 1 < i)
      BY <1>0, Typed, LenProperties DEF ThriftTypeInv
    <3>2. 1 < i => replies[1].seq < replies[i].seq
      BY <1>0, <1>1 DEF OrderInv
    <3> QED
      BY <1>1, <3>1, <3>2
  <2>2. \A i \in DOMAIN sent : ~(sent[i].seq < n)
    BY <1>0, <1>1, Typed DEF OrderInv
  <2>3. ~Behind(n)
    BY <2>1, <2>2 DEF Behind
  <2>4. Waiting = n
    BY <1>0, <1>r DEF Waiting
  <2> QED
    BY <1>0, <2>3, <2>4 DEF StepInv
<1>3. replies' \in Seq(Reply) /\ OrderInv'
  BY <1>0, RepliesTail
<1>4. ThriftTypeInv' /\ AwaitedInv'
  BY <1>0, <1>3 DEF ThriftTypeInv, AwaitedInv
<1>5. outcome'.of = n /\ outcome'.seq = n
  BY <1>0, <1>1, <1>r DEF RecvReply, Ends
<1>6. StepInv'
  BY <1>0, <1>2, <1>5 DEF StepInv, AnswersInStep
<1> QED
  BY <1>3, <1>4, <1>6 DEF ThriftInv

LEMMA RecvInv ==
  ASSUME ThriftInv, Recv
  PROVE  ThriftInv'
<1>0. ThriftTypeInv /\ AwaitedInv
  BY DEF ThriftInv
<1>1. CASE RecvInside
  <2>1. replies # << >> /\ inside
    BY <1>0, <1>1 DEF RecvInside, AwaitedInv
  <2>2. /\ replies' = replies \/ replies' = Tail(replies)
        /\ inside' \in BOOLEAN
        /\ inside' => replies' # << >>
    <3>1. CASE UNCHANGED <<replies, inside>>
      BY <2>1, <3>1
    <3>2. CASE replies' = Tail(replies) /\ inside' \in {FALSE, Len(replies) > 1}
      <4>1. Len(replies) > 1 => Tail(replies) # << >>
        <5>1. /\ Tail(replies) \in Seq(Reply)
              /\ Len(replies) \in Nat /\ Len(Tail(replies)) = Len(replies) - 1
          BY <1>0, <2>1, HeadTailProperties, LenProperties DEF ThriftTypeInv
        <5>2. Tail(replies) = << >> => Len(Tail(replies)) = 0
          BY <5>1, EmptySeq
        <5>3. CASE Len(replies) > 1
          <6>1. Len(Tail(replies)) # 0
            BY <5>1, <5>3
          <6> QED
            BY <5>2, <6>1
        <5> QED
          BY <5>3
      <4>2. (Len(replies) > 1) \in BOOLEAN
        OBVIOUS
      <4> QED
        BY <3>2, <4>1, <4>2
    <3> QED
      BY <1>1, <3>1, <3>2 DEF RecvInside
  <2> QED
    BY <1>1, <2>1, <2>2, RecvFailsInv DEF RecvInside
<1>2. CASE RecvMismatch
  BY <1>2, RecvFailsInv DEF RecvMismatch
<1>3. CASE RecvTimeout
  <2>1. inside => replies # << >>
    BY <1>0 DEF AwaitedInv
  <2> QED
    <3>1. inside' \in BOOLEAN /\ replies' = replies /\ (inside' => replies' # << >>)
      <4>1. inside \in BOOLEAN /\ replies' = replies
        BY <1>0, <1>3 DEF RecvTimeout, ThriftTypeInv
      <4>2. inside' = inside \/ (inside' = TRUE /\ replies # << >>)
        BY <1>3 DEF RecvTimeout
      <4>3. inside' \in BOOLEAN
        BY <4>1, <4>2, Zenon
      <4>4. inside' => replies # << >>
        BY <2>1, <4>2, Zenon
      <4> QED
        BY <4>1, <4>3, <4>4
    <3> QED
      BY <1>3, <3>1, RecvFailsInv DEF RecvTimeout
<1>4. CASE RecvEOF
  <2>1. ~inside
    BY <1>0, <1>4 DEF RecvEOF, AwaitedInv
  <2> QED
    BY <1>0, <1>4, <2>1, RecvFailsInv DEF RecvEOF, ThriftTypeInv
<1> QED
  BY <1>1, <1>2, <1>3, <1>4, RecvReplyInv DEF Recv

-----------------------------------------------------------------------------
(* The server takes the oldest request.  Its answer follows the replies before *)
(* it; if there is none, the client does not wait for one or the connection is *)
(* closed.                                                                     *)
LEMMA ServeInv ==
  ASSUME ThriftInv, open, sent # << >>, sent' = Tail(sent), open' \in BOOLEAN,
         UNCHANGED <<processor, inside, seqId, pending, outcome, outOfStep>>,
         \/ \E type \in {"REPLY", "EXCEPTION"} : Answer(Head(sent), type)
         \/ replies' = replies /\ (~open' \/ ~Answered(Head(sent)))
  PROVE  ThriftInv'
<1>0. /\ ThriftTypeInv /\ OrderInv /\ AwaitedInv /\ StepInv
      /\ sent \in Seq(Request) /\ replies \in Seq(Reply)
  BY DEF ThriftInv, ThriftTypeInv
<1>1. /\ 1 \in DOMAIN sent /\ Head(sent) = sent[1] /\ sent[1] \in Request
      /\ sent' \in Seq(Request)
      /\ \A i \in DOMAIN sent' : i + 1 \in DOMAIN sent /\ sent'[i] = sent[i + 1] /\ i \in Nat
      /\ \A i \in DOMAIN sent :
           i \in Nat /\ (i # 1 => i - 1 \in DOMAIN sent' /\ sent'[i - 1] = sent[i])
  BY <1>0, Behead
<1>2. /\ sent[1].seq \in Nat /\ seqId \in Nat /\ sent[1].seq <= seqId
      /\ \A i \in DOMAIN replies :
           replies[i].seq \in Nat /\ i \in Nat /\ replies[i].seq < sent[1].seq
  BY <1>0, <1>1, Typed DEF OrderInv
<1>3. /\ \A i \in DOMAIN sent' : sent'[i].seq <= seqId /\ sent[1].seq < sent'[i].seq
      /\ \A i, j \in DOMAIN sent' : i < j => sent'[i].seq < sent'[j].seq
  <2>1. \A i \in DOMAIN sent' : sent'[i].seq <= seqId /\ 1 < i + 1
    BY <1>0, <1>1, LenProperties DEF OrderInv
  <2>2. \A i \in DOMAIN sent' : sent[1].seq < sent'[i].seq
    BY <1>0, <1>1, <2>1 DEF OrderInv
  <2>3. ASSUME NEW i \in DOMAIN sent', NEW j \in DOMAIN sent', i < j
        PROVE  sent'[i].seq < sent'[j].seq
    <3>1. i + 1 < j + 1 /\ i + 1 \in DOMAIN sent /\ j + 1 \in DOMAIN sent
      BY <1>1, <2>3
    <3>2. sent[i + 1].seq < sent[j + 1].seq
      BY <1>0, <3>1 DEF OrderInv
    <3> QED
      BY <1>1, <3>2
  <2> QED
    BY <2>1, <2>2, <2>3
<1>4. replies # << >> => 1 \in DOMAIN replies
  BY <1>0, Behead
<1>5. CASE \E type \in {"REPLY", "EXCEPTION"} : Answer(Head(sent), type)
  <2>1. PICK a \in Reply : a.seq = sent[1].seq /\ a.of = a.seq /\ replies' = Append(replies, a)
    <3>1. PICK type \in {"REPLY", "EXCEPTION"} : Answer(Head(sent), type)
      BY <1>5
    <3> DEFINE a == [name |-> sent[1].name, seq |-> sent[1].seq, type |-> type, of |-> sent[1].seq]
    <3>2. sent[1].name \in Names
      BY <1>1 DEF Request
    <3>3. a \in Reply /\ a.seq = sent[1].seq /\ a.of = a.seq
      BY <1>2, <3>2 DEF Reply
    <3>4. replies' = Append(replies, a)
      BY <1>1, <3>1 DEF Answer
    <3> HIDE DEF a
    <3> QED
      BY <3>3, <3>4
  <2>2. /\ replies' \in Seq(Reply) /\ Len(replies) + 1 \in DOMAIN replies' /\ Len(replies) \in Nat
        /\ replies'[Len(replies) + 1] = a
        /\ \A i \in DOMAIN replies :
             i \in DOMAIN replies' /\ replies'[i] = replies[i] /\ i < Len(replies) + 1
        /\ \A i \in DOMAIN replies' : i \in DOMAIN replies \/ i = Len(replies) + 1
    BY <1>0, <2>1, Enqueue, Typed
  <2>3. OrderInv'
    <3>1. \A i \in DOMAIN replies' :
            replies'[i].seq <= sent[1].seq /\ replies'[i].of = replies'[i].seq
      BY <1>0, <1>2, <2>1, <2>2 DEF OrderInv
    <3>2. \A i \in DOMAIN replies', j \in DOMAIN sent' : replies'[i].seq < sent'[j].seq
      <4> SUFFICES ASSUME NEW i \in DOMAIN replies', NEW j \in DOMAIN sent'
                   PROVE  replies'[i].seq < sent'[j].seq
        OBVIOUS
      <4>1. sent'[j].seq \in Nat /\ replies'[i].seq \in Nat
        <5>1. sent'[j].seq \in Nat
          BY <1>0, <1>1, Typed
        <5>2. replies'[i] = a \/ (i \in DOMAIN replies /\ replies'[i] = replies[i])
          BY <2>2
        <5> QED
          BY <1>2, <2>1, <5>1, <5>2
      <4> QED
        BY <1>2, <1>3, <3>1, <4>1
    <3>3. \A i, j \in DOMAIN replies' : i < j => replies'[i].seq < replies'[j].seq
      <4> SUFFICES ASSUME NEW i \in DOMAIN replies', NEW j \in DOMAIN replies', i < j
                   PROVE  replies'[i].seq < replies'[j].seq
        OBVIOUS
      <4>1. i \in DOMAIN replies
        BY <1>2, <2>2
      <4>2. CASE j \in DOMAIN replies
        BY <1>0, <2>2, <4>1, <4>2 DEF OrderInv
      <4>3. CASE j = Len(replies) + 1
        BY <1>2, <2>1, <2>2, <4>1, <4>3
      <4> QED
        BY <2>2, <4>2, <4>3
    <3>4. \A i \in DOMAIN replies' : replies'[i].seq <= seqId
      BY <1>2, <2>1, <2>2
    <3> QED
      BY <1>3, <3>1, <3>2, <3>3, <3>4 DEF OrderInv
  <2>4. \A n \in Nat : (Behind(n) => Behind(n)') /\ (Awaited(n) => Awaited(n)')
    <3> SUFFICES ASSUME NEW n \in Nat
                 PROVE  (Behind(n) => Behind(n)') /\ (Awaited(n) => Awaited(n)')
      OBVIOUS
    <3>1. \A i \in DOMAIN sent : \/ \E j \in DOMAIN replies' : replies'[j].seq = sent[i].seq
                               \/ \E j \in DOMAIN sent' : sent'[j] = sent[i]
      <4> SUFFICES ASSUME NEW i \in DOMAIN sent
                   PROVE  \/ \E j \in DOMAIN replies' : replies'[j].seq = sent[i].seq
                          \/ \E j \in DOMAIN sent' : sent'[j] = sent[i]
        OBVIOUS
      <4>1. CASE i = 1
        BY <2>1, <2>2, <4>1
      <4>2. CASE i # 1
        <5>1. i - 1 \in DOMAIN sent' /\ sent'[i - 1] = sent[i]
          BY <1>1, <4>2
        <5> QED
          BY <5>1
      <4> QED
        BY <4>1, <4>2
    <3>2. \A i \in DOMAIN replies : i \in DOMAIN replies' /\ replies'[i] = replies[i]
      BY <2>2
    <3> QED
      BY <3>1, <3>2 DEF Behind, Awaited, Answered
  <2>5. AwaitedInv'
    <3>1. replies # << >> => replies' # << >> /\ replies'[1] = replies[1]
      BY <1>4, <2>2, EmptySeq
    <3>2. pending # NoMethod => Awaited(seqId)
      BY <1>0 DEF AwaitedInv
    <3>3. Awaited(seqId) => Awaited(seqId)'
      <4>1. PICK n \in Nat : n = seqId
        BY <1>2
      <4> QED
        BY <4>1, <2>4 DEF Awaited, Answered
    <3> QED
      BY <1>0, <3>1, <3>2, <3>3 DEF AwaitedInv
  <2>6. StepInv'
    <3>1. PICK n \in Nat : n = Waiting /\ n = Waiting'
      BY <1>2 DEF Waiting
    <3>2. outOfStep => Behind(n)'
      BY <1>0, <2>4, <3>1 DEF StepInv
    <3> QED
      BY <1>0, <3>1, <3>2 DEF StepInv, AnswersInStep
  <2> QED
    BY <1>0, <1>1, <2>2, <2>3, <2>5, <2>6 DEF ThriftInv, ThriftTypeInv
<1>6. CASE replies' = replies /\ (~open' \/ ~Answered(Head(sent)))
  <2>1. OrderInv'
    <3>1. \A i \in DOMAIN replies', j \in DOMAIN sent' : replies'[i].seq < sent'[j].seq
      BY <1>0, <1>1, <1>6 DEF OrderInv
    <3> QED
      BY <1>0, <1>3, <1>6, <3>1 DEF OrderInv
  <2>2. \A n \in Nat : Behind(n) => Behind(n)' \/ (~open' /\ replies' = << >>)
    <3> SUFFICES ASSUME NEW n \in Nat, Behind(n)
                 PROVE  Behind(n)' \/ (~open' /\ replies' = << >>)
      OBVIOUS
    <3>1. CASE \E i \in DOMAIN replies : replies[i].seq < n
      BY <1>6, <3>1 DEF Behind
    <3>2. ASSUME NEW i \in DOMAIN sent, sent[i].seq < n, Answered(sent[i]), i # 1
          PROVE  Behind(n)'
      <4>1. i - 1 \in DOMAIN sent' /\ sent'[i - 1] = sent[i]
        BY <1>1, <3>2
      <4>2. sent'[i - 1].seq < n /\ Answered(sent[i])
        BY <3>2, <4>1
      <4>3. \E j \in DOMAIN sent' : sent'[j].seq < n /\ Answered(sent'[j])
        BY <4>1, <4>2
      <4> QED
        BY <4>3 DEF Behind, Answered
    <3>3. CASE sent[1].seq < n /\ Answered(sent[1])
      <4>1. ~open'
        BY <1>1, <1>6, <3>3
      <4>2. 1 \in DOMAIN replies => replies[1].seq < n
        BY <1>2, <3>3
      <4> QED
        BY <1>4, <1>6, <4>1, <4>2 DEF Behind
    <3> QED
      BY <3>1, <3>2, <3>3 DEF Behind
  <2>3. AwaitedInv'
    <3>1. PICK n \in Nat : n = seqId
      BY <1>2
    <3>2. Awaited(n) => ~open' \/ Awaited(n)'
      <4>1. ASSUME NEW i \in DOMAIN sent, sent[i].seq = n, Answered(sent[i]), i # 1
            PROVE  Awaited(n)'
        <5>1. i - 1 \in DOMAIN sent' /\ sent'[i - 1] = sent[i]
          BY <1>1, <4>1
        <5>2. sent'[i - 1].seq = n /\ Answered(sent'[i - 1])
          BY <4>1, <5>1
        <5>3. \E j \in DOMAIN sent' : sent'[j].seq = n /\ Answered(sent'[j])
          BY <5>1, <5>2
        <5> QED
          BY <5>3 DEF Awaited, Answered
      <4>2. CASE Answered(sent[1])
        BY <1>1, <1>6, <4>2
      <4> QED
        BY <1>6, <4>1, <4>2 DEF Awaited
    <3>3. pending # NoMethod => Awaited(n)
      BY <1>0, <3>1 DEF AwaitedInv
    <3>4. pending' # NoMethod => ~open' \/ Awaited(seqId)'
      BY <3>1, <3>2, <3>3 DEF Awaited, Answered
    <3> QED
      BY <1>0, <1>6, <3>4 DEF AwaitedInv
  <2>4. StepInv'
    <3>1. PICK n \in Nat : n = Waiting /\ n = Waiting'
      BY <1>2 DEF Waiting
    <3>2. outOfStep => Behind(n)
      BY <1>0, <3>1 DEF StepInv
    <3>3. outOfStep => Behind(n)' \/ (~open' /\ replies' = << >>)
      BY <2>2, <3>2
    <3> QED
      BY <1>0, <3>1, <3>3 DEF StepInv, AnswersInStep
  <2> QED
    BY <1>0, <1>1, <1>6, <2>1, <2>3, <2>4 DEF ThriftInv, ThriftTypeInv
<1> QED
  BY <1>5, <1>6

LEMMA ProcessInv ==
  ASSUME ThriftInv, Process
  PROVE  ThriftInv'
<1> DEFINE r == Head(sent)
<1>1. /\ open /\ open \in BOOLEAN /\ sent # << >> /\ sent' = Tail(sent)
      /\ UNCHANGED <<processor, inside, seqId, pending, outcome, outOfStep>>
  BY DEF Process, ThriftInv, ThriftTypeInv
<1>2. \/ r.name \notin DOMAIN processor /\ ProcessUnknown(r)
      \/ r.name \in DOMAIN processor /\ processor[r.name] = "two-way" /\ ProcessTwoWay(r)
      \/ r.name \in DOMAIN processor /\ processor[r.name] = "oneway" /\ ProcessOneway(r)
  BY DEF Process
<1>3. /\ open' \in BOOLEAN
      /\ \/ \E type \in {"REPLY", "EXCEPTION"} : Answer(r, type)
         \/ replies' = replies /\ (~open' \/ ~Answered(r))
  BY <1>1, <1>2 DEF ProcessUnknown, ProcessTwoWay, ProcessOneway, Answered
<1> QED
  BY <1>1, <1>3, ServeInv

LEMMA NextThrift == ThriftInv /\ [ThriftNext]_thriftVars => ThriftInv'
<1> SUFFICES ASSUME ThriftInv, [ThriftNext]_thriftVars PROVE ThriftInv'
  OBVIOUS
<1>1. CASE NextCall
  BY <1>1, CallInv DEF NextCall
<1>2. CASE UNCHANGED thriftVars
  BY <1>2 DEF thriftVars, ThriftInv, ThriftTypeInv, OrderInv, AwaitedInv, Awaited, Answered, StepInv, Behind,
     Waiting, AnswersInStep
<1> QED
  BY <1>1, <1>2, RecvInv, ProcessInv DEF ThriftNext

(* An answer that Recv accepts is the answer to that very call, and the client *)
(* has never failed before (TStandardClient.Call, Recv).                       *)
THEOREM AnswersBelong == ThriftSpec => []AnswersInStep
<1>1. ThriftInv => AnswersInStep
  BY DEF ThriftInv, StepInv
<1> QED
  BY <1>1, InitThrift, NextThrift, PTL DEF ThriftSpec

-----------------------------------------------------------------------------
(* The compact protocol *)

(* A reader: a record of these fields, whose result may be anything. *)
Fields == {"wire", "pos", "ok", "v", "stack", "last", "bool"}
IsReader(r) == DOMAIN r = Fields /\ r = [f \in Fields |-> r[f]]
Ready(r) == /\ IsReader(r) /\ r.ok = TRUE
            /\ r.wire \in Seq(Byte) /\ r.pos \in 1..Len(r.wire) + 1

(* What is left of the wire begins with these bytes, or they begin with it. *)
Agrees(r, bytes) ==
  \A i \in 1..Len(bytes) : r.pos + i - 1 <= Len(r.wire) => r.wire[r.pos + i - 1] = bytes[i]
Holds(r, n) == r.pos + n - 1 <= Len(r.wire)

(* s is r after n more bytes, from which it has the result v, unless they *)
(* were not all there.                                                    *)
Same(s, r) == s.wire = r.wire /\ s.stack = r.stack /\ s.last = r.last /\ s.bool = r.bool
Reads(s, r, n, v) ==
  /\ IsReader(s)
  /\ IF Holds(r, n) THEN s.ok = TRUE /\ s.pos = r.pos + n /\ s.v = v /\ Same(s, r)
     ELSE s.ok = FALSE

Placed(r) == r.wire \in Seq(Byte) /\ r.pos \in 1..Len(r.wire) + 1

(* A wire on which two strings follow each other. *)
LEMMA PlacedConcat ==
  ASSUME NEW r, Placed(r), NEW s \in Seq(Byte), NEW t \in Seq(Byte), Agrees(r, s \o t)
  PROVE  /\ Agrees(r, s)
         /\ \A q : q.wire = r.wire /\ q.pos = r.pos + Len(s) => Agrees(q, t)
<1>1. \A i \in 1..Len(s) : i \in 1..Len(s \o t) /\ (s \o t)[i] = s[i]
  OBVIOUS
<1>2. \A i \in 1..Len(t) : Len(s) + i \in 1..Len(s \o t) /\ (s \o t)[Len(s) + i] = t[i]
  OBVIOUS
<1>3. Agrees(r, s)
  BY <1>1 DEF Agrees
<1>4. ASSUME NEW q, q.wire = r.wire, q.pos = r.pos + Len(s),
             NEW i \in 1..Len(t), q.pos + i - 1 <= Len(q.wire)
      PROVE  q.wire[q.pos + i - 1] = t[i]
  <2>1. r.pos + (Len(s) + i) - 1 = q.pos + i - 1
    BY <1>4 DEF Placed
  <2> QED
    BY <1>2, <1>4, <2>1 DEF Agrees
<1> QED
  BY <1>3, <1>4 DEF Agrees

LEMMA AgreesConcat ==
  ASSUME NEW r, Ready(r), NEW s \in Seq(Byte), NEW t \in Seq(Byte), Agrees(r, s \o t)
  PROVE  /\ Agrees(r, s)
         /\ \A q : q.wire = r.wire /\ q.pos = r.pos + Len(s) => Agrees(q, t)
<1>1. Placed(r)
  BY DEF Ready, Placed
<1> QED
  BY <1>1, PlacedConcat

(* So many bytes, read as they are. *)
LEMMA NReads ==
  ASSUME NEW r, Ready(r), NEW n \in Nat
  PROVE  Reads(C!ReadBytesN(r, n), r, n, SubSeq(r.wire, r.pos, r.pos + n - 1))
<1>1. r.pos \in Nat /\ Len(r.wire) \in Nat
  BY DEF Ready
<1>2. CASE Holds(r, n)
  <2>1. C!ReadBytesN(r, n) = [r EXCEPT !.pos = r.pos + n, !.v = SubSeq(r.wire, r.pos, r.pos + n - 1)]
    BY <1>1, <1>2 DEF C!ReadBytesN, Ready, Holds
  <2> QED
    BY <1>2, <2>1 DEF Reads, Ready, Same, IsReader, Fields
<1>3. CASE ~ Holds(r, n)
  <2>1. C!ReadBytesN(r, n) = [[r EXCEPT !.pos = Len(r.wire) + 1] EXCEPT !.ok = FALSE]
    BY <1>1, <1>3 DEF C!ReadBytesN, C!Fail, Ready, Holds
  <2> QED
    BY <1>3, <2>1 DEF Reads, Ready, IsReader, Fields
<1> QED
  BY <1>2, <1>3

(* What Result makes of a reader. *)
LEMMA ResultReads ==
  ASSUME NEW r, NEW s, NEW n, NEW v, NEW w, Reads(s, r, n, v)
  PROVE  Reads(IF s.ok THEN [s EXCEPT !.v = w] ELSE s, r, n, w)
BY DEF Reads, Same, IsReader, Fields

LEMMA FailReads ==
  ASSUME NEW r, IsReader(r)
  PROVE  IsReader(C!Fail(r)) /\ C!Fail(r).ok = FALSE
BY DEF C!Fail, IsReader, Fields

(* One byte. *)
LEMMA ByteReads ==
  ASSUME NEW r, Ready(r), NEW x, Agrees(r, <<x>>)
  PROVE  Reads(C!readByteDirect(r), r, 1, x)
<1> DEFINE s == C!ReadBytesN(r, 1)
           y == SubSeq(r.wire, r.pos, r.pos + 1 - 1)
<1>1. Reads(s, r, 1, y)
  BY NReads
<1>2. C!readByteDirect(r) = IF s.ok THEN [s EXCEPT !.v = Head(s.v)] ELSE s
  BY DEF C!readByteDirect, C!Result
<1>3. Holds(r, 1) => Head(y) = x
  <2>1. r.pos \in Nat /\ r.pos + 1 - 1 = r.pos
    BY DEF Ready
  <2>2. SUFFICES ASSUME r.pos <= Len(r.wire) PROVE Head(SubSeq(r.wire, r.pos, r.pos)) = x
    BY <2>1 DEF Holds
  <2>3. r.wire[r.pos] = x
    BY <2>1, <2>2 DEF Agrees
  <2> QED
    BY <2>1, <2>2, <2>3 DEF Ready
<1> HIDE DEF s, y
<1>4. CASE Holds(r, 1)
  <2>1. s.v = y
    BY <1>1, <1>4 DEF Reads
  <2>2. Reads(IF s.ok THEN [s EXCEPT !.v = x] ELSE s, r, 1, x)
    BY <1>1, ResultReads
  <2> QED
    BY <1>2, <1>3, <1>4, <2>1, <2>2
<1>5. CASE ~ Holds(r, 1)
  BY <1>1, <1>2, <1>5 DEF Reads
<1> QED
  BY <1>4, <1>5

(* Varints *)

IsLow(low, n) ==
  low = [m \in 0..n |-> IF m < 128 THEN <<m>> ELSE <<128 + (m % 128)>> \o low[m \div 128]]

(* The digits of base 128 that Varint writes. *)
LEMMA LowExists == \A n \in Nat : \E low : IsLow(low, n)
<1> DEFINE S == {n \in Nat : \E low : IsLow(low, n)}
<1>1. 0 \in S
  <2>1. IsLow([m \in 0..0 |-> <<m>>], 0)
    BY DEF IsLow
  <2> QED
    BY <2>1
<1>2. ASSUME NEW n \in Nat, n \in S PROVE n + 1 \in S
  <2>1. PICK low : IsLow(low, n)
    BY <1>2
  <2> DEFINE more == [m \in 0..n + 1 |->
                        IF m = n + 1 THEN IF m < 128 THEN <<m>> ELSE <<128 + (m % 128)>> \o low[m \div 128]
                        ELSE low[m]]
  <2>2. \A m \in 0..n + 1 :
          more[m] = IF m < 128 THEN <<m>> ELSE <<128 + (m % 128)>> \o more[m \div 128]
    <3> TAKE m \in 0..n + 1
    <3>1. m >= 128 => m \div 128 \in 0..n /\ m \div 128 # n + 1 /\ m \div 128 \in 0..n + 1
      OBVIOUS
    <3>2. CASE m = n + 1
      <4>1. m >= 128 => more[m \div 128] = low[m \div 128]
        BY <3>1
      <4> QED
        BY <3>2, <4>1
    <3>3. CASE m # n + 1
      <4>1. m \in 0..n
        BY <3>3
      <4>2. low[m] = IF m < 128 THEN <<m>> ELSE <<128 + (m % 128)>> \o low[m \div 128]
        BY <2>1, <4>1 DEF IsLow
      <4>3. m >= 128 => more[m \div 128] = low[m \div 128]
        BY <3>1
      <4>4. more[m] = low[m]
        BY <3>3
      <4> HIDE DEF more
      <4> QED
        BY <4>2, <4>3, <4>4
    <3> QED
      BY <3>2, <3>3
  <2>3. more = [m \in 0..n + 1 |->
                  IF m < 128 THEN <<m>> ELSE <<128 + (m % 128)>> \o more[m \div 128]]
    BY <2>2
  <2> HIDE DEF more
  <2>4. IsLow(more, n + 1)
    BY <2>3 DEF IsLow
  <2> QED
    BY <2>4
<1> HIDE DEF S
<1>3. Nat \subseteq S
  BY <1>1, <1>2, Induction
<1> QED
  BY <1>3 DEF S

LEMMA LowSame ==
  ASSUME NEW n \in Nat, NEW k \in 0..n, NEW low, NEW less, IsLow(low, n), IsLow(less, k)
  PROVE  \A m \in 0..k : low[m] = less[m]
<1> DEFINE S == {m \in 0..k : low[m] # less[m]}
<1> SUFFICES ASSUME S # {} PROVE FALSE
  OBVIOUS
<1>1. PICK m \in S : \A i \in S : m <= i
  <2>1. S \in SUBSET Nat
    OBVIOUS
  <2> HIDE DEF S
  <2> QED
    BY <2>1, LeastNumber
<1>2. /\ low[m] = IF m < 128 THEN <<m>> ELSE <<128 + (m % 128)>> \o low[m \div 128]
      /\ less[m] = IF m < 128 THEN <<m>> ELSE <<128 + (m % 128)>> \o less[m \div 128]
  <2>1. m \in 0..n /\ m \in 0..k
    OBVIOUS
  <2> QED
    BY <2>1 DEF IsLow
<1>3. m >= 128 => m \div 128 \in 0..k /\ m \div 128 < m
  OBVIOUS
<1>4. m >= 128 => low[m \div 128] = less[m \div 128]
  BY <1>1, <1>3
<1>5. low[m] # less[m] /\ m \in Nat
  OBVIOUS
<1> HIDE DEF S
<1> QED
  BY <1>2, <1>4, <1>5

(* A varint is its digits. *)
LEMMA VarintLow ==
  ASSUME NEW n \in Nat, NEW low, IsLow(low, n)
  PROVE  C!Varint(n) = low[n]
<1>1. \E least : IsLow(least, n) /\ C!Varint(n) = least[n]
  BY LowExists DEF C!Varint, IsLow
<1>2. n \in 0..n
  OBVIOUS
<1> QED
  BY <1>1, <1>2, LowSame

LEMMA VarintIs ==
  ASSUME NEW n \in Nat
  PROVE  C!Varint(n) = IF n < 128 THEN <<n>> ELSE <<128 + (n % 128)>> \o C!Varint(n \div 128)
<1>1. PICK low : IsLow(low, n)
  BY LowExists
<1>2. C!Varint(n) = low[n]
  BY <1>1, VarintLow
<1>3. low[n] = IF n < 128 THEN <<n>> ELSE <<128 + (n % 128)>> \o low[n \div 128]
  <2>1. n \in 0..n
    OBVIOUS
  <2> QED
    BY <1>1, <2>1 DEF IsLow
<1>4. C!Varint(n \div 128) = low[n \div 128]
  <2>1. n \div 128 \in Nat /\ n \div 128 \in 0..n
    OBVIOUS
  <2>2. PICK less : IsLow(less, n \div 128)
    BY <2>1, LowExists
  <2>3. C!Varint(n \div 128) = less[n \div 128]
    BY <2>1, <2>2, VarintLow
  <2>4. low[n \div 128] = less[n \div 128]
    BY <1>1, <2>1, <2>2, LowSame
  <2> QED
    BY <2>3, <2>4
<1> QED
  BY <1>2, <1>3, <1>4

(* A varint is at least one byte. *)
LEMMA VarintBytes == \A n \in Nat : C!Varint(n) \in Seq(Byte) /\ Len(C!Varint(n)) > 0
<1> DEFINE S == {n \in Nat : ~ (C!Varint(n) \in Seq(Byte) /\ Len(C!Varint(n)) > 0)}
<1> SUFFICES ASSUME S # {} PROVE FALSE
  OBVIOUS
<1>1. PICK n \in S : \A i \in S : n <= i
  <2>1. S \in SUBSET Nat
    OBVIOUS
  <2> HIDE DEF S
  <2> QED
    BY <2>1, LeastNumber
<1>2. n \in Nat /\ ~ (C!Varint(n) \in Seq(Byte) /\ Len(C!Varint(n)) > 0)
  OBVIOUS
<1>3. C!Varint(n) = IF n < 128 THEN <<n>> ELSE <<128 + (n % 128)>> \o C!Varint(n \div 128)
  BY <1>2, VarintIs
<1>4. CASE n < 128
  <2>1. n \in Byte
    BY <1>2, <1>4 DEF Byte
  <2>2. C!Varint(n) = <<n>>
    BY <1>3, <1>4
  <2>3. <<n>> \in Seq(Byte) /\ Len(<<n>>) > 0
    BY <2>1
  <2> HIDE DEF S
  <2> QED
    BY <1>2, <2>2, <2>3
<1>5. CASE n >= 128
  <2>1. n \div 128 \in Nat /\ n \div 128 < n /\ 128 + (n % 128) \in 0..255
    BY <1>2, <1>5
  <2>2. n \div 128 \notin S
    BY <1>1, <2>1
  <2>3. C!Varint(n \div 128) \in Seq(Byte)
    BY <2>1, <2>2
  <2>4. <<128 + (n % 128)>> \in Seq(Byte)
    BY <2>1 DEF Byte
  <2>5. <<128 + (n % 128)>> \o C!Varint(n \div 128) \in Seq(Byte)
        /\ Len(<<128 + (n % 128)>> \o C!Varint(n \div 128)) > 0
    BY <2>3, <2>4, LenProperties
  <2>6. C!Varint(n) = <<128 + (n % 128)>> \o C!Varint(n \div 128)
    BY <1>2, <1>3, <1>5
  <2> HIDE DEF S
  <2> QED
    BY <1>2, <2>5, <2>6
<1> QED
  BY <1>2, <1>4, <1>5

IsFrom(from, r, p) ==
  from = [i \in p..Len(r.wire) + 1 |->
            IF i > Len(r.wire) THEN C!Fail([r EXCEPT !.pos = i])
            ELSE IF r.wire[i] < 128 THEN [r EXCEPT !.pos = i + 1, !.v = r.wire[i]]
            ELSE C!Upper(r.wire[i], from[i + 1])]

(* What readVarint makes of the digits, from the last to the first. *)
LEMMA FromExists ==
  ASSUME NEW r, Ready(r)
  PROVE  \E from : IsFrom(from, r, r.pos)
<1> DEFINE last == Len(r.wire) + 1
           At(from, i) == IF i > Len(r.wire) THEN C!Fail([r EXCEPT !.pos = i])
                          ELSE IF r.wire[i] < 128 THEN [r EXCEPT !.pos = i + 1, !.v = r.wire[i]]
                          ELSE C!Upper(r.wire[i], from[i + 1])
           S == {k \in Nat : \E from : from = [i \in last - k..last |-> At(from, i)]}
<1>0. Len(r.wire) \in Nat /\ last \in Nat /\ r.pos \in 1..last
  BY LenProperties DEF Ready
<1>1. 0 \in S
  <2> DEFINE from == [i \in last - 0..last |-> C!Fail([r EXCEPT !.pos = i])]
  <2>1. \A i \in last - 0..last : At(from, i) = C!Fail([r EXCEPT !.pos = i])
    BY <1>0
  <2> HIDE DEF At
  <2>2. from = [i \in last - 0..last |-> At(from, i)]
    BY <2>1
  <2> HIDE DEF from
  <2> QED
    BY <2>2
<1>2. ASSUME NEW k \in Nat, k \in S PROVE k + 1 \in S
  <2>1. PICK from : from = [i \in last - k..last |-> At(from, i)]
    BY <1>2
  <2> DEFINE more == [i \in last - (k + 1)..last |-> IF i = last - (k + 1) THEN At(from, i) ELSE from[i]]
  <2>2. \A i \in last - (k + 1)..last : i # last =>
          i + 1 \in last - k..last /\ i + 1 \in last - (k + 1)..last /\ i + 1 # last - (k + 1)
    BY <1>0
  <2>3. \A i \in last - (k + 1)..last : i # last => more[i + 1] = from[i + 1]
    BY <2>2
  <2>4. \A i \in last - (k + 1)..last : At(more, i) = At(from, i)
    <3> TAKE i \in last - (k + 1)..last
    <3>0. i # last => more[i + 1] = from[i + 1]
      BY <2>3
    <3> HIDE DEF more
    <3>1. CASE i = last
      <4>1. i > Len(r.wire)
        BY <1>0, <3>1
      <4> QED
        BY <4>1
    <3>2. CASE i # last
      BY <3>0, <3>2
    <3> QED
      BY <3>1, <3>2
  <2>5. \A i \in last - (k + 1)..last : i # last - (k + 1) => from[i] = At(from, i)
    <3> TAKE i \in last - (k + 1)..last
    <3>1. i # last - (k + 1) => i \in last - k..last
      BY <1>0
    <3> HIDE DEF At
    <3> QED
      BY <2>1, <3>1
  <2>6. \A i \in last - (k + 1)..last : more[i] = At(more, i)
    <3> HIDE DEF At
    <3> QED
      BY <2>4, <2>5
  <2> HIDE DEF At
  <2>7. more = [i \in last - (k + 1)..last |-> At(more, i)]
    BY <2>6
  <2> HIDE DEF more
  <2> QED
    BY <2>7
<1>3. last - r.pos \in S
  <2> HIDE DEF S
  <2>1. Nat \subseteq S
    BY <1>1, <1>2, Induction
  <2> QED
    BY <1>0, <2>1
<1>4. last - (last - r.pos) = r.pos
  BY <1>0
<1> QED
  BY <1>3, <1>4 DEF IsFrom

LEMMA LowDigit ==
  ASSUME NEW n \in Nat, n >= 128
  PROVE  /\ n \div 128 \in Nat /\ n \div 128 < n
         /\ n = ((128 + (n % 128)) - 128) + 128 * (n \div 128)
         /\ 128 + (n % 128) \in 128..255
OBVIOUS

LEMMA FromReads ==
  ASSUME NEW r, Ready(r), NEW from, IsFrom(from, r, r.pos), NEW n \in Nat,
         NEW i \in r.pos..Len(r.wire) + 1, NEW q, q = [r EXCEPT !.pos = i],
         Agrees(q, C!Varint(n)),
         \A m \in Nat : m < n =>
           \A j \in r.pos..Len(r.wire) + 1 :
             Agrees([r EXCEPT !.pos = j], C!Varint(m)) =>
               Reads(from[j], [r EXCEPT !.pos = j], Len(C!Varint(m)), m)
  PROVE  Reads(from[i], q, Len(C!Varint(n)), n)
<1>1. /\ Ready(q) /\ q.pos = i /\ q.wire = r.wire /\ q.stack = r.stack /\ q.last = r.last
      /\ q.bool = r.bool /\ q.ok = TRUE /\ i \in Nat /\ Len(r.wire) \in Nat /\ r.pos \in Nat
  BY LenProperties DEF Ready, IsReader, Fields
<1>2. from[i] = IF i > Len(r.wire) THEN C!Fail(q)
                ELSE IF r.wire[i] < 128 THEN [r EXCEPT !.pos = i + 1, !.v = r.wire[i]]
                ELSE C!Upper(r.wire[i], from[i + 1])
  BY DEF IsFrom
<1>3. CASE i > Len(r.wire)
  <2>1. ~ Holds(q, Len(C!Varint(n)))
    BY <1>1, <1>3, VarintBytes, LenProperties DEF Holds
  <2>2. IsReader(from[i]) /\ from[i].ok = FALSE
    BY <1>1, <1>2, <1>3, FailReads DEF Ready
  <2> QED
    BY <2>1, <2>2 DEF Reads
<1>4. CASE i <= Len(r.wire) /\ n < 128
  <2>1. C!Varint(n) = <<n>>
    BY <1>4, VarintIs
  <2>2. r.wire[i] = n
    BY <1>1, <1>4, <2>1 DEF Agrees
  <2>3. from[i] = [r EXCEPT !.pos = i + 1, !.v = n]
    BY <1>1, <1>2, <1>4, <2>2
  <2>4. Holds(q, 1)
    BY <1>1, <1>4 DEF Holds
  <2>5. /\ IsReader(from[i]) /\ from[i].ok = r.ok /\ from[i].pos = i + 1 /\ from[i].v = n
        /\ Same(from[i], r)
    BY <2>3 DEF Same, Ready, IsReader, Fields
  <2>6. r.ok = TRUE
    BY DEF Ready
  <2>7. Reads(from[i], q, 1, n)
    BY <1>1, <2>4, <2>5, <2>6 DEF Reads, Same
  <2> QED
    BY <2>1, <2>7
<1>5. CASE i <= Len(r.wire) /\ n >= 128
  <2> DEFINE m == n \div 128
             b == 128 + (n % 128)
             s == [r EXCEPT !.pos = i + 1]
  <2>1. m \in Nat /\ m < n /\ b \in Byte /\ b >= 128 /\ n = (b - 128) + 128 * m
    BY <1>5, LowDigit DEF Byte
  <2>0. b \in Int /\ b >= 128
    BY <2>1 DEF Byte
  <2>2. C!Varint(n) = <<b>> \o C!Varint(m)
    BY <1>5, VarintIs
  <2> HIDE DEF m, b
  <2>3. C!Varint(m) \in Seq(Byte) /\ <<b>> \in Seq(Byte) /\ Len(<<b>>) = 1
    BY <2>1, VarintBytes
  <2>4. Agrees(q, <<b>>) /\ \A t : t.wire = q.wire /\ t.pos = q.pos + Len(<<b>>) => Agrees(t, C!Varint(m))
    <3>1. Agrees(q, <<b>> \o C!Varint(m))
      BY <2>2
    <3> QED
      BY <1>1, <2>3, <3>1, AgreesConcat
  <2>5. r.wire[i] = b
    BY <1>1, <1>5, <2>4 DEF Agrees
  <2>6. i + 1 \in r.pos..Len(r.wire) + 1
    BY <1>1, <1>5
  <2>7. s.wire = r.wire /\ s.pos = i + 1 /\ s.stack = r.stack /\ s.last = r.last /\ s.bool = r.bool
    BY DEF Ready, IsReader, Fields
  <2>8. Agrees(s, C!Varint(m))
    BY <1>1, <2>3, <2>4, <2>7
  <2>9. Reads(from[i + 1], s, Len(C!Varint(m)), m)
    BY <2>1, <2>6, <2>8
  <2>15. from[i] = C!Upper(b, from[i + 1])
    <3>1. ~ (i > Len(r.wire))
      BY <1>1, <1>5
    <3>3. ~ (r.wire[i] < 128)
      BY <2>0, <2>5
    <3> QED
      BY <1>2, <2>5, <3>1, <3>3
  <2>10. from[i] = IF from[i + 1].ok THEN [from[i + 1] EXCEPT !.v = (b - 128) + 128 * from[i + 1].v]
                   ELSE from[i + 1]
    BY <2>15 DEF C!Upper, C!Result
  <2> HIDE DEF s
  <2>11. Len(C!Varint(n)) = 1 + Len(C!Varint(m)) /\ Len(C!Varint(m)) \in Nat
    BY <2>2, <2>3, ConcatProperties, LenProperties
  <2>12. Holds(q, Len(C!Varint(n))) <=> Holds(s, Len(C!Varint(m)))
    BY <1>1, <2>7, <2>11 DEF Holds
  <2>13. CASE Holds(s, Len(C!Varint(m)))
    <3>1. from[i + 1].ok = TRUE /\ from[i + 1].v = m
      BY <2>9, <2>13 DEF Reads
    <3>2. from[i] = [from[i + 1] EXCEPT !.v = n]
      BY <2>1, <2>10, <3>1
    <3>3. Reads(IF from[i + 1].ok THEN [from[i + 1] EXCEPT !.v = n] ELSE from[i + 1],
                s, Len(C!Varint(m)), n)
      BY <2>9, ResultReads
    <3>4. Reads(from[i], s, Len(C!Varint(m)), n)
      BY <3>1, <3>2, <3>3
    <3> QED
      BY <1>1, <2>7, <2>11, <2>12, <2>13, <3>4 DEF Reads, Same
  <2>14. CASE ~ Holds(s, Len(C!Varint(m)))
    BY <2>9, <2>10, <2>12, <2>14 DEF Reads
  <2> QED
    BY <2>13, <2>14
<1> QED
  BY <1>1, <1>3, <1>4, <1>5

(* A varint is read back, and only when all of it has come. *)
LEMMA VarintReads ==
  ASSUME NEW r, Ready(r), NEW n \in Nat, Agrees(r, C!Varint(n))
  PROVE  Reads(C!readVarint(r), r, Len(C!Varint(n)), n)
<1>1. \E from : IsFrom(from, r, r.pos) /\ C!readVarint(r) = from[r.pos]
  BY FromExists DEF C!readVarint, IsFrom, Ready
<1>2. PICK from : IsFrom(from, r, r.pos) /\ C!readVarint(r) = from[r.pos]
  BY <1>1
<1> DEFINE Bad(m) == \E j \in r.pos..Len(r.wire) + 1 :
                       /\ Agrees([r EXCEPT !.pos = j], C!Varint(m))
                       /\ ~ Reads(from[j], [r EXCEPT !.pos = j], Len(C!Varint(m)), m)
           S == {m \in Nat : Bad(m)}
<1>3. S = {}
  <2> SUFFICES ASSUME S # {} PROVE FALSE
    OBVIOUS
  <2>1. PICK m \in S : \A k \in S : m <= k
    <3>1. S \in SUBSET Nat
      OBVIOUS
    <3> HIDE DEF S
    <3> QED
      BY <3>1, LeastNumber
  <2>2. m \in Nat /\ Bad(m)
    OBVIOUS
  <2>3. \A k \in Nat : k < m => ~ Bad(k)
    BY <2>1, <2>2
  <2>4. PICK j \in r.pos..Len(r.wire) + 1 :
             /\ Agrees([r EXCEPT !.pos = j], C!Varint(m))
             /\ ~ Reads(from[j], [r EXCEPT !.pos = j], Len(C!Varint(m)), m)
    BY <2>2
  <2> QED
    BY <1>2, <2>2, <2>3, <2>4, FromReads
<1>4. [r EXCEPT !.pos = r.pos] = r /\ r.pos \in r.pos..Len(r.wire) + 1
  BY DEF Ready, IsReader, Fields
<1> QED
  BY <1>2, <1>3, <1>4

(* One part read after another. *)

LEMMA Onward ==
  ASSUME NEW r, Ready(r), NEW s, NEW n \in Nat, NEW v, Reads(s, r, n, v), Holds(r, n)
  PROVE  Ready(s) /\ s.wire = r.wire /\ s.pos = r.pos + n /\ s.v = v /\ s.ok = TRUE
<1>1. r.pos \in Nat /\ Len(r.wire) \in Nat /\ r.wire \in Seq(Byte)
  BY LenProperties DEF Ready
<1>2. r.pos + n \in 1..Len(r.wire) + 1
  BY <1>1 DEF Holds, Ready
<1>3. IsReader(s) /\ s.ok = TRUE /\ s.pos = r.pos + n /\ s.v = v /\ s.wire = r.wire
  BY DEF Reads, Same
<1> QED
  BY <1>1, <1>2, <1>3 DEF Ready

(* A part that is read after another, or not at all. *)
LEMMA Chained ==
  ASSUME NEW r, Ready(r), NEW s, NEW n \in Nat, NEW v, Reads(s, r, n, v),
         NEW t, NEW m \in Nat, NEW w,
         Holds(r, n) => Reads(t, s, m, w),
         ~ Holds(r, n) => IsReader(t) /\ t.ok = FALSE
  PROVE  Reads(t, r, n + m, w)
<1>1. r.pos \in Nat /\ Len(r.wire) \in Nat
  BY LenProperties DEF Ready
<1>2. CASE Holds(r, n)
  <2>1. s.wire = r.wire /\ s.pos = r.pos + n /\ Same(s, r)
    BY <1>2 DEF Reads, Same
  <2>2. Holds(s, m) <=> Holds(r, n + m)
    BY <1>1, <2>1 DEF Holds
  <2>3. Reads(t, s, m, w)
    BY <1>2
  <2>4. Holds(s, m) => t.pos = r.pos + (n + m)
    BY <1>1, <2>1, <2>3 DEF Reads
  <2> QED
    BY <2>1, <2>2, <2>3, <2>4 DEF Reads, Same
<1>3. CASE ~ Holds(r, n)
  <2>1. ~ Holds(r, n + m)
    BY <1>1, <1>3 DEF Holds
  <2> QED
    BY <1>3, <2>1 DEF Reads
<1> QED
  BY <1>2, <1>3

(* What a reader holds whole it returns. *)
LEMMA PlacedIs ==
  ASSUME NEW r, Placed(r), NEW bytes \in Seq(Byte), Agrees(r, bytes), Holds(r, Len(bytes))
  PROVE  SubSeq(r.wire, r.pos, r.pos + Len(bytes) - 1) = bytes
<1> DEFINE n == Len(bytes)
           part == SubSeq(r.wire, r.pos, r.pos + n - 1)
<1>1. n \in Nat /\ r.pos \in Nat /\ r.pos >= 1 /\ Len(r.wire) \in Nat /\ r.pos + n - 1 <= Len(r.wire)
      /\ r.wire \in Seq(Byte)
  BY LenProperties DEF Placed, Holds
<1>2. \A i \in 1..n : r.wire[r.pos + i - 1] = bytes[i]
  BY <1>1 DEF Agrees
<1> HIDE DEF n
<1>3. part = [i \in 1..n |-> r.wire[r.pos + i - 1]]
  <2>1. /\ r.pos \in Int /\ r.pos + n - 1 \in Int /\ (r.pos + n - 1) - r.pos + 1 = n
        /\ \A i \in r.pos..r.pos + n - 1 : i \in 1..Len(r.wire)
        /\ (IF r.pos <= r.pos + n - 1 THEN (r.pos + n - 1) - r.pos + 1 ELSE 0) = n
    BY <1>1
  <2>2. \A i \in 1..Len(r.wire) : r.wire[i] \in Byte
    BY <1>1, LenProperties
  <2>3. part \in Seq(Byte) /\ Len(part) = n /\ \A i \in 1..n : part[i] = r.wire[r.pos + i - 1]
    <3> HIDE DEF part
    <3> DEFINE all == r.wire
               first == r.pos
               last == r.pos + n - 1
    <3>1. first \in Int /\ last \in Int /\ \A i \in first..last : all[i] \in Byte
      BY <2>1, <2>2
    <3>2. part = SubSeq(all, first, last)
      BY DEF part
    <3> HIDE DEF all, first, last
    <3>3. /\ part \in Seq(Byte)
          /\ Len(part) = IF first <= last THEN last - first + 1 ELSE 0
          /\ \A i \in 1..last - first + 1 : part[i] = all[first + i - 1]
      BY <3>1, <3>2, SubSeqProperties
    <3> QED
      BY <2>1, <3>3, Zenon DEF all, first, last
  <2> HIDE DEF part
  <2>4. part = [i \in 1..n |-> part[i]]
    BY <2>3
  <2> QED
    BY <2>3, <2>4
<1>4. bytes = [i \in 1..n |-> bytes[i]]
  BY <1>1 DEF n
<1> QED
  BY <1>2, <1>3, <1>4 DEF n

LEMMA PartIs ==
  ASSUME NEW r, Ready(r), NEW bytes \in Seq(Byte), Agrees(r, bytes), Holds(r, Len(bytes))
  PROVE  SubSeq(r.wire, r.pos, r.pos + Len(bytes) - 1) = bytes
<1>1. Placed(r)
  BY DEF Ready, Placed
<1> QED
  BY <1>1, PlacedIs

LEMMA ZigZagBack ==
  ASSUME NEW n \in Int
  PROVE  C!ZigZag(n) \in Nat /\ C!UnZigZag(C!ZigZag(n)) = n
BY DEF C!ZigZag, C!UnZigZag

(* Zigzag varints. *)
LEMMA IntReads ==
  ASSUME NEW r, Ready(r), NEW n \in Int, Agrees(r, C!Varint(C!ZigZag(n)))
  PROVE  Reads(C!ReadInt(r), r, Len(C!Varint(C!ZigZag(n))), n)
<1> DEFINE s == C!readVarint(r)
           len == Len(C!Varint(C!ZigZag(n)))
<1>1. Reads(s, r, len, C!ZigZag(n))
  BY ZigZagBack, VarintReads
<1>2. C!ReadInt(r) = IF s.ok THEN [s EXCEPT !.v = C!UnZigZag(s.v)] ELSE s
  BY DEF C!ReadInt, C!Result
<1> HIDE DEF s, len
<1>3. Reads(IF s.ok THEN [s EXCEPT !.v = n] ELSE s, r, len, n)
  BY <1>1, ResultReads
<1>4. (s.ok = TRUE /\ s.v = C!ZigZag(n)) \/ s.ok = FALSE
  BY <1>1 DEF Reads
<1>5. CASE s.ok = TRUE /\ s.v = C!ZigZag(n)
  BY <1>2, <1>3, <1>5, ZigZagBack DEF len
<1>6. CASE s.ok = FALSE
  BY <1>2, <1>3, <1>6 DEF len
<1> QED
  BY <1>4, <1>5, <1>6

(* A size and so many bytes. *)
LEMMA BytesReads ==
  ASSUME MaxMessageSize \in Nat,
         NEW r, Ready(r), NEW bytes \in Seq(Byte), Len(bytes) <= MaxMessageSize,
         Agrees(r, C!Varint(Len(bytes)) \o bytes)
  PROVE  Reads(C!ReadBytes(r), r, Len(C!Varint(Len(bytes)) \o bytes), bytes)
<1> DEFINE n == Len(bytes)
           s == C!readVarint(r)
           len == Len(C!Varint(n))
           t == C!ReadBytes(r)
<1>1. /\ n \in Nat /\ C!Varint(n) \in Seq(Byte) /\ len \in Nat
      /\ Len(C!Varint(n) \o bytes) = len + n
  <2>1. n \in Nat
    BY LenProperties
  <2>2. C!Varint(n) \in Seq(Byte)
    BY <2>1, VarintBytes
  <2> QED
    BY <2>1, <2>2, LenProperties, ConcatProperties
<1>2. Agrees(r, C!Varint(n)) /\ \A q : q.wire = r.wire /\ q.pos = r.pos + len => Agrees(q, bytes)
  BY <1>1, AgreesConcat
<1>3. Reads(s, r, len, n)
  BY <1>1, <1>2, VarintReads
<1>4. t = IF s.ok /\ s.v <= MaxMessageSize THEN C!ReadBytesN(s, s.v) ELSE C!Fail(s)
  BY DEF C!ReadBytes, C!Sized
<1> HIDE DEF s, t, len
<1>5. ASSUME Holds(r, len) PROVE Reads(t, s, n, bytes)
  <2>1. Ready(s) /\ s.wire = r.wire /\ s.pos = r.pos + len /\ s.v = n /\ s.ok = TRUE
    BY <1>1, <1>3, <1>5, Onward
  <2>2. t = C!ReadBytesN(s, n)
    BY <1>4, <2>1
  <2>3. Reads(t, s, n, SubSeq(s.wire, s.pos, s.pos + n - 1))
    BY <1>1, <2>1, <2>2, NReads
  <2>4. Agrees(s, bytes)
    BY <1>2, <2>1
  <2>5. Holds(s, n) => SubSeq(s.wire, s.pos, s.pos + n - 1) = bytes
    BY <2>1, <2>4, PartIs
  <2> QED
    BY <2>3, <2>5 DEF Reads
<1>6. ASSUME ~ Holds(r, len) PROVE IsReader(t) /\ t.ok = FALSE
  <2>1. IsReader(s) /\ s.ok = FALSE
    BY <1>3, <1>6 DEF Reads
  <2> QED
    BY <1>4, <2>1, FailReads
<1>7. Reads(t, r, len + n, bytes)
  BY <1>1, <1>3, <1>5, <1>6, Chained
<1> QED
  BY <1>1, <1>7 DEF t, len

LEMMA DoubleReads ==
  ASSUME NEW r, Ready(r), NEW bytes \in Seq(Byte), Len(bytes) = 8, Agrees(r, bytes)
  PROVE  Reads(C!ReadDouble(r), r, 8, bytes)
<1>1. Reads(C!ReadDouble(r), r, 8, SubSeq(r.wire, r.pos, r.pos + 8 - 1))
  BY NReads DEF C!ReadDouble
<1>2. Holds(r, 8) => SubSeq(r.wire, r.pos, r.pos + 8 - 1) = bytes
  BY PartIs
<1> QED
  BY <1>1, <1>2 DEF Reads

(* Types, field headers and list headers. *)

LEMMA Nibbles ==
  ASSUME NEW t \in WireTypes
  PROVE  /\ C!CompactType[t] \in 1..12 /\ C!CompactType[t] # C!FALSE_NIBBLE
         /\ C!KnownNibble(C!CompactType[t]) /\ C!TType(C!CompactType[t]) = t
         /\ C!CompactType[t] = C!TRUE_NIBBLE <=> t = "BOOL"
<1>1. /\ C!CompactType[t] \in 1..12 /\ C!CompactType[t] # C!FALSE_NIBBLE
      /\ C!CompactType[t] = C!TRUE_NIBBLE <=> t = "BOOL"
  BY DEF WireTypes, C!CompactType, C!FALSE_NIBBLE, C!TRUE_NIBBLE
<1>2. t \in DOMAIN C!CompactType
  BY DEF WireTypes
<1>3. \A u \in DOMAIN C!CompactType : C!CompactType[u] = C!CompactType[t] => u = t
  BY DEF WireTypes, C!CompactType
<1>4. C!TType(C!CompactType[t]) = t
  BY <1>1, <1>2, <1>3 DEF C!TType
<1> QED
  BY <1>1, <1>2, <1>4 DEF C!KnownNibble

LEMMA BoolNibble == C!KnownNibble(1) /\ C!KnownNibble(2) /\ C!TType(1) = "BOOL" /\ C!TType(2) = "BOOL"
<1>1. "BOOL" \in WireTypes /\ C!CompactType["BOOL"] = 1
  BY DEF WireTypes, C!CompactType
<1>2. C!KnownNibble(1) /\ C!TType(1) = "BOOL"
  BY <1>1, Nibbles
<1> QED
  BY <1>2 DEF C!KnownNibble, C!TType, C!FALSE_NIBBLE

HeaderBytes(nibble, id, last) ==
  IF id - last \in 1..15 THEN <<16 * (id - last) + nibble>>
  ELSE <<nibble>> \o C!Varint(C!ZigZag(id))

LEMMA HeaderTyped ==
  ASSUME NEW nibble \in 1..12, NEW id \in Int, NEW last \in Int
  PROVE  HeaderBytes(nibble, id, last) \in Seq(Byte) /\ Len(HeaderBytes(nibble, id, last)) > 0
<1>1. CASE id - last \in 1..15
  <2>1. 16 * (id - last) + nibble \in Byte
    BY <1>1 DEF Byte
  <2> QED
    BY <1>1, <2>1 DEF HeaderBytes
<1>2. CASE id - last \notin 1..15
  <2>1. C!Varint(C!ZigZag(id)) \in Seq(Byte) /\ <<nibble>> \in Seq(Byte) /\ Len(<<nibble>>) = 1
    BY ZigZagBack, VarintBytes DEF Byte
  <2>2. /\ <<nibble>> \o C!Varint(C!ZigZag(id)) \in Seq(Byte)
        /\ Len(<<nibble>> \o C!Varint(C!ZigZag(id))) = 1 + Len(C!Varint(C!ZigZag(id)))
    BY <2>1, ConcatProperties
  <2> QED
    BY <1>2, <2>1, <2>2, LenProperties DEF HeaderBytes
<1> QED
  BY <1>1, <1>2

Boolean(nibble) == IF nibble = 1 THEN <<TRUE>> ELSE <<FALSE>>

ReadsField(s, r, n, nibble, id) ==
  /\ IsReader(s)
  /\ IF Holds(r, n)
     THEN /\ s.ok = TRUE /\ s.pos = r.pos + n /\ s.wire = r.wire /\ s.stack = r.stack
          /\ s.v = [type |-> C!TType(nibble), id |-> id] /\ s.last = id
          /\ s.bool = IF nibble \in {1, 2} THEN Boolean(nibble) ELSE r.bool
     ELSE s.ok = FALSE

(* What Field makes of the reader i that has the id. *)
LEMMA FieldOf ==
  ASSUME NEW r, NEW n, NEW i, NEW nibble \in 1..12, C!KnownNibble(nibble), NEW id, Reads(i, r, n, id)
  PROVE  ReadsField(C!Field(nibble, i), r, n, nibble, id)
<1>1. CASE Holds(r, n)
  <2>1. C!Field(nibble, i) =
          [i EXCEPT !.v = [type |-> C!TType(nibble), id |-> id], !.last = id,
                    !.bool = IF nibble \in {1, 2} THEN Boolean(nibble) ELSE i.bool]
    BY <1>1 DEF C!Field, Reads, Boolean, C!TRUE_NIBBLE, C!FALSE_NIBBLE
  <2> DEFINE v == [type |-> C!TType(nibble), id |-> id]
             b == IF nibble \in {1, 2} THEN Boolean(nibble) ELSE i.bool
  <2>2. C!Field(nibble, i) = [i EXCEPT !.v = v, !.last = id, !.bool = b]
    BY <2>1
  <2>3. IsReader(i) /\ i.ok = TRUE /\ i.pos = r.pos + n /\ i.wire = r.wire /\ i.stack = r.stack /\ i.bool = r.bool
    BY <1>1 DEF Reads, Same
  <2>4. b = IF nibble \in {1, 2} THEN Boolean(nibble) ELSE r.bool
    BY <2>3
  <2> HIDE DEF v, b
  <2>5. /\ IsReader(C!Field(nibble, i)) /\ C!Field(nibble, i).ok = i.ok
        /\ C!Field(nibble, i).pos = i.pos
        /\ C!Field(nibble, i).wire = i.wire /\ C!Field(nibble, i).stack = i.stack
        /\ C!Field(nibble, i).v = v /\ C!Field(nibble, i).last = id /\ C!Field(nibble, i).bool = b
    BY <2>2, <2>3 DEF IsReader, Fields
  <2> QED
    BY <1>1, <2>3, <2>4, <2>5 DEF ReadsField, v
<1>2. CASE ~ Holds(r, n)
  <2>1. IsReader(i) /\ i.ok = FALSE
    BY <1>2 DEF Reads
  <2>2. C!Field(nibble, i) = C!Fail([i EXCEPT !.v = C!NoField])
    BY <2>1 DEF C!Field
  <2>3. IsReader([i EXCEPT !.v = C!NoField])
    BY <2>1 DEF IsReader, Fields
  <2> QED
    BY <1>2, <2>2, <2>3, FailReads DEF ReadsField
<1> QED
  BY <1>1, <1>2

LEMMA NibbleParts ==
  ASSUME NEW d \in 0..15, NEW nibble \in 0..15
  PROVE  ((16 * d + nibble) % 16) = nibble /\ (16 * d + nibble) \div 16 = d
OBVIOUS

(* The header of a field, short or long. *)
LEMMA FieldReads ==
  ASSUME NEW r, Ready(r), r.last \in Int, NEW nibble \in 1..12, C!KnownNibble(nibble), NEW id \in Int,
         Agrees(r, HeaderBytes(nibble, id, r.last))
  PROVE  ReadsField(C!ReadFieldBegin(r), r, Len(HeaderBytes(nibble, id, r.last)), nibble, id)
<1> DEFINE t == C!readByteDirect(r)
           s == C!ReadFieldBegin(r)
<1>1. s = IF t.ok = FALSE \/ t.v % 16 = 0 THEN [t EXCEPT !.v = C!NoField]
          ELSE C!Field(t.v % 16, IF t.v \div 16 = 0 THEN C!ReadInt(t)
                                 ELSE [t EXCEPT !.v = t.last + (t.v \div 16)])
  BY DEF C!ReadFieldBegin, C!Header
<1>2. CASE id - r.last \in 1..15
  <2> DEFINE x == 16 * (id - r.last) + nibble
  <2>1. (x % 16) = nibble /\ x \div 16 = id - r.last /\ nibble # 0 /\ id - r.last # 0
    <3> DEFINE d == id - r.last
    <3>1. d \in 0..15 /\ d # 0 /\ nibble \in 0..15 /\ nibble # 0
      BY <1>2
    <3> HIDE DEF d
    <3>2. ((16 * d + nibble) % 16) = nibble /\ (16 * d + nibble) \div 16 = d
      BY <3>1, NibbleParts
    <3> QED
      BY <3>1, <3>2 DEF d
  <2>2. HeaderBytes(nibble, id, r.last) = <<x>> /\ Len(<<x>>) = 1
    BY <1>2 DEF HeaderBytes
  <2> HIDE DEF x
  <2>3. Reads(t, r, 1, x)
    BY <2>2, ByteReads
  <2> HIDE DEF s, t
  <2>4. CASE Holds(r, 1)
    <3>1. IsReader(t) /\ t.ok = TRUE /\ t.v = x /\ t.last = r.last
      BY <2>3, <2>4 DEF Reads, Same
    <3>2. r.last + (id - r.last) = id
      OBVIOUS
    <3>3. s = C!Field(nibble, [t EXCEPT !.v = id])
      BY <1>1, <2>1, <3>1, <3>2
    <3>4. Reads([t EXCEPT !.v = id], r, 1, id)
      BY <2>3, <3>1, ResultReads
    <3>5. ReadsField(s, r, 1, nibble, id)
      BY <3>3, <3>4, FieldOf
    <3> QED
      BY <2>2, <3>5 DEF s
  <2>5. CASE ~ Holds(r, 1)
    <3>1. IsReader(t) /\ t.ok = FALSE
      BY <2>3, <2>5 DEF Reads
    <3>2. s = [t EXCEPT !.v = C!NoField]
      BY <1>1, <3>1
    <3>3. IsReader(s) /\ s.ok = FALSE
      BY <3>1, <3>2 DEF IsReader, Fields
    <3>4. ReadsField(s, r, 1, nibble, id)
      BY <2>5, <3>3 DEF ReadsField
    <3> QED
      BY <2>2, <3>4 DEF s
  <2> QED
    BY <2>4, <2>5
<1>3. CASE id - r.last \notin 1..15
  <2> DEFINE long == C!Varint(C!ZigZag(id))
             i == C!ReadInt(t)
             len == Len(long)
  <2>1. HeaderBytes(nibble, id, r.last) = <<nibble>> \o long
    BY <1>3 DEF HeaderBytes
  <2>2. <<nibble>> \in Seq(Byte) /\ Len(<<nibble>>) = 1 /\ long \in Seq(Byte) /\ len \in Nat
        /\ Len(<<nibble>> \o long) = 1 + len
    <3>1. <<nibble>> \in Seq(Byte) /\ Len(<<nibble>>) = 1 /\ long \in Seq(Byte)
      BY ZigZagBack, VarintBytes DEF Byte
    <3> QED
      BY <3>1, ConcatProperties, LenProperties
  <2>3. Agrees(r, <<nibble>>) /\ \A q : q.wire = r.wire /\ q.pos = r.pos + 1 => Agrees(q, long)
    <3>1. Agrees(r, <<nibble>> \o long)
      BY <2>1
    <3> HIDE DEF long
    <3>2. Agrees(r, <<nibble>>) /\ \A q : q.wire = r.wire /\ q.pos = r.pos + Len(<<nibble>>) => Agrees(q, long)
      BY <2>2, <3>1, AgreesConcat
    <3> QED
      BY <2>2, <3>2
  <2>4. Reads(t, r, 1, nibble)
    BY <2>3, ByteReads
  <2>5. (nibble % 16) = nibble /\ nibble \div 16 = 0 /\ nibble # 0
    OBVIOUS
  <2> HIDE DEF s, t
  <2>6. CASE Holds(r, 1)
    <3>1. Ready(t) /\ t.wire = r.wire /\ t.pos = r.pos + 1 /\ t.v = nibble /\ t.ok = TRUE
      BY <2>4, <2>6, Onward
    <3>2. s = C!Field(nibble, i)
      BY <1>1, <2>5, <3>1
    <3>3. Agrees(t, long)
      BY <2>3, <3>1
    <3>4. Reads(i, t, len, id)
      BY <3>1, <3>3, IntReads
    <3> HIDE DEF i, len
    <3>5. Reads(i, r, 1 + len, id)
      BY <2>2, <2>4, <2>6, <3>4, Chained
    <3>6. ReadsField(s, r, 1 + len, nibble, id)
      BY <3>2, <3>5, FieldOf
    <3> QED
      BY <2>1, <2>2, <3>6 DEF s
  <2>7. CASE ~ Holds(r, 1)
    <3>1. IsReader(t) /\ t.ok = FALSE
      BY <2>4, <2>7 DEF Reads
    <3>2. s = [t EXCEPT !.v = C!NoField]
      BY <1>1, <3>1
    <3>3. IsReader(s) /\ s.ok = FALSE
      BY <3>1, <3>2 DEF IsReader, Fields
    <3>4. ~ Holds(r, 1 + len)
      BY <2>2, <2>7, LenProperties DEF Holds, Ready
    <3>5. ReadsField(s, r, 1 + len, nibble, id)
      BY <3>3, <3>4 DEF ReadsField
    <3> QED
      BY <2>1, <2>2, <3>5 DEF s
  <2> QED
    BY <2>6, <2>7
<1> QED
  BY <1>2, <1>3

(* The end of the fields. *)
LEMMA StopReads ==
  ASSUME NEW r, Ready(r), Agrees(r, << 0 >>)
  PROVE  Reads(C!ReadFieldBegin(r), r, 1, C!NoField)
<1> DEFINE t == C!readByteDirect(r)
           s == C!ReadFieldBegin(r)
<1>1. s = IF t.ok = FALSE \/ t.v % 16 = 0 THEN [t EXCEPT !.v = C!NoField]
          ELSE C!Field(t.v % 16, IF t.v \div 16 = 0 THEN C!ReadInt(t)
                                 ELSE [t EXCEPT !.v = t.last + (t.v \div 16)])
  BY DEF C!ReadFieldBegin, C!Header
<1>2. Reads(t, r, 1, 0)
  BY ByteReads
<1> HIDE DEF s, t
<1>3. t.ok = FALSE \/ (t.ok = TRUE /\ t.v = 0)
  BY <1>2 DEF Reads
<1>4. s = [t EXCEPT !.v = C!NoField]
  BY <1>1, <1>3
<1>5. Reads(s, r, 1, C!NoField)
  BY <1>2, <1>4 DEF Reads, Same, IsReader, Fields
<1> QED
  BY <1>5 DEF s

ListBytes(nibble, size) ==
  IF size <= 14 THEN <<16 * size + nibble>> ELSE <<240 + nibble>> \o C!Varint(size)

LEMMA ListTyped ==
  ASSUME NEW nibble \in 1..12, NEW size \in Nat
  PROVE  ListBytes(nibble, size) \in Seq(Byte) /\ Len(ListBytes(nibble, size)) > 0
<1>1. CASE size <= 14
  <2>1. 16 * size + nibble \in Byte
    BY <1>1 DEF Byte
  <2> QED
    BY <1>1, <2>1 DEF ListBytes
<1>2. CASE ~ (size <= 14)
  <2>1. C!Varint(size) \in Seq(Byte) /\ <<240 + nibble>> \in Seq(Byte) /\ Len(<<240 + nibble>>) = 1
    BY VarintBytes DEF Byte
  <2>2. /\ <<240 + nibble>> \o C!Varint(size) \in Seq(Byte)
        /\ Len(<<240 + nibble>> \o C!Varint(size)) = 1 + Len(C!Varint(size))
    BY <2>1, ConcatProperties
  <2> QED
    BY <1>2, <2>1, <2>2, LenProperties DEF ListBytes
<1> QED
  BY <1>1, <1>2

(* What ListOfSize makes of the reader i that has the size. *)
LEMMA ListOf ==
  ASSUME NEW r, NEW n, NEW i, NEW nibble \in 1..12, C!KnownNibble(nibble), NEW size, Reads(i, r, n, size)
  PROVE  Reads(C!ListOfSize(nibble, i), r, n, [type |-> C!TType(nibble), size |-> size])
<1>1. CASE Holds(r, n)
  <2> DEFINE v == [type |-> C!TType(nibble), size |-> size]
  <2>1. C!ListOfSize(nibble, i) = [i EXCEPT !.v = v]
    BY <1>1 DEF C!ListOfSize, Reads
  <2> HIDE DEF v
  <2>2. i.ok = TRUE
    BY <1>1 DEF Reads
  <2>3. Reads(IF i.ok THEN [i EXCEPT !.v = v] ELSE i, r, n, v)
    BY ResultReads
  <2> QED
    BY <2>1, <2>2, <2>3 DEF v
<1>2. CASE ~ Holds(r, n)
  BY <1>2, FailReads DEF C!ListOfSize, Reads
<1> QED
  BY <1>1, <1>2

(* The header of a list, short or long. *)
LEMMA ListReads ==
  ASSUME NEW r, Ready(r), NEW nibble \in 1..12, C!KnownNibble(nibble), NEW size \in Nat,
         Agrees(r, ListBytes(nibble, size))
  PROVE  Reads(C!ReadListBegin(r), r, Len(ListBytes(nibble, size)),
               [type |-> C!TType(nibble), size |-> size])
<1> DEFINE t == C!readByteDirect(r)
           s == C!ReadListBegin(r)
           list == [type |-> C!TType(nibble), size |-> size]
<1>1. s = IF t.ok = FALSE THEN t
          ELSE C!ListOfSize(t.v % 16, IF t.v \div 16 = 15 THEN C!readVarint(t)
                                      ELSE [t EXCEPT !.v = t.v \div 16])
  BY DEF C!ReadListBegin, C!ListHeader
<1>2. CASE size <= 14
  <2> DEFINE x == 16 * size + nibble
  <2>1. (x % 16) = nibble /\ x \div 16 = size /\ size # 15
    BY <1>2, NibbleParts
  <2>2. ListBytes(nibble, size) = <<x>> /\ Len(<<x>>) = 1
    BY <1>2 DEF ListBytes
  <2> HIDE DEF x
  <2>3. Reads(t, r, 1, x)
    BY <2>2, ByteReads
  <2> HIDE DEF s, t
  <2>4. CASE Holds(r, 1)
    <3>1. t.ok = TRUE /\ t.v = x
      BY <2>3, <2>4 DEF Reads
    <3>2. s = C!ListOfSize(nibble, [t EXCEPT !.v = size])
      BY <1>1, <2>1, <3>1
    <3>3. Reads([t EXCEPT !.v = size], r, 1, size)
      BY <2>3, <3>1, ResultReads
    <3>4. Reads(s, r, 1, list)
      BY <3>2, <3>3, ListOf
    <3> QED
      BY <2>2, <3>4 DEF s
  <2>5. CASE ~ Holds(r, 1)
    <3>1. IsReader(t) /\ t.ok = FALSE /\ s = t
      BY <1>1, <2>3, <2>5 DEF Reads
    <3>2. Reads(s, r, 1, list)
      BY <2>5, <3>1 DEF Reads
    <3> QED
      BY <2>2, <3>2 DEF s
  <2> QED
    BY <2>4, <2>5
<1>3. CASE ~ (size <= 14)
  <2> DEFINE long == C!Varint(size)
             i == C!readVarint(t)
             len == Len(long)
             x == 16 * 15 + nibble
  <2>1. ListBytes(nibble, size) = <<x>> \o long
    BY <1>3 DEF ListBytes
  <2>2. <<x>> \in Seq(Byte) /\ Len(<<x>>) = 1 /\ long \in Seq(Byte) /\ len \in Nat
        /\ Len(<<x>> \o long) = 1 + len
    <3>1. <<x>> \in Seq(Byte) /\ Len(<<x>>) = 1 /\ long \in Seq(Byte)
      BY VarintBytes DEF Byte
    <3> QED
      BY <3>1, ConcatProperties, LenProperties
  <2>5. (x % 16) = nibble /\ x \div 16 = 15
    BY NibbleParts
  <2> HIDE DEF x
  <2>3. Agrees(r, <<x>>) /\ \A q : q.wire = r.wire /\ q.pos = r.pos + 1 => Agrees(q, long)
    <3>1. Agrees(r, <<x>> \o long)
      BY <2>1
    <3> HIDE DEF long
    <3>2. Agrees(r, <<x>>) /\ \A q : q.wire = r.wire /\ q.pos = r.pos + Len(<<x>>) => Agrees(q, long)
      BY <2>2, <3>1, AgreesConcat
    <3> QED
      BY <2>2, <3>2
  <2>4. Reads(t, r, 1, x)
    BY <2>3, ByteReads
  <2> HIDE DEF s, t
  <2>6. CASE Holds(r, 1)
    <3>1. Ready(t) /\ t.wire = r.wire /\ t.pos = r.pos + 1 /\ t.v = x /\ t.ok = TRUE
      BY <2>4, <2>6, Onward
    <3>2. s = C!ListOfSize(nibble, i)
      BY <1>1, <2>5, <3>1
    <3>3. Agrees(t, long)
      BY <2>3, <3>1
    <3>4. Reads(i, t, len, size)
      BY <3>1, <3>3, VarintReads
    <3> HIDE DEF i, len
    <3>5. Reads(i, r, 1 + len, size)
      BY <2>2, <2>4, <2>6, <3>4, Chained
    <3>6. Reads(s, r, 1 + len, list)
      BY <3>2, <3>5, ListOf
    <3> QED
      BY <2>1, <2>2, <3>6 DEF s
  <2>7. CASE ~ Holds(r, 1)
    <3>1. IsReader(t) /\ t.ok = FALSE /\ s = t
      BY <1>1, <2>4, <2>7 DEF Reads
    <3>2. ~ Holds(r, 1 + len)
      BY <2>2, <2>7, LenProperties DEF Holds, Ready
    <3>3. Reads(s, r, 1 + len, list)
      BY <3>1, <3>2 DEF Reads
    <3> QED
      BY <2>1, <2>2, <3>3 DEF s
  <2> QED
    BY <2>6, <2>7
<1> QED
  BY <1>2, <1>3

(* A boolean, which has a header before it or not. *)
LEMMA BoolReads ==
  ASSUME NEW r, Ready(r), r.bool = << >>, NEW b \in BOOLEAN, Agrees(r, <<IF b THEN 1 ELSE 2>>)
  PROVE  Reads(C!ReadBool(r), r, 1, b)
<1> DEFINE t == C!readByteDirect(r)
           x == IF b THEN 1 ELSE 2
<1>1. C!ReadBool(r) = IF t.ok THEN [t EXCEPT !.v = (t.v = 1)] ELSE t
  BY DEF C!ReadBool, C!Result, C!TRUE_NIBBLE
<1>2. Reads(t, r, 1, x)
  BY ByteReads
<1> HIDE DEF t
<1>3. CASE Holds(r, 1)
  <2>1. t.ok = TRUE /\ (t.v = 1) = b
    BY <1>2, <1>3 DEF Reads
  <2>2. Reads([t EXCEPT !.v = b], r, 1, b)
    BY <1>2, <2>1, ResultReads
  <2> QED
    BY <1>1, <2>1, <2>2
<1>4. CASE ~ Holds(r, 1)
  BY <1>1, <1>2, <1>4 DEF Reads
<1> QED
  BY <1>3, <1>4

(* Messages *)

Lost(r) == IsReader(r) /\ r.ok = FALSE

(* s is what becomes of the reader t that has read x: it goes on to read   *)
(* the rest and has the result v.                                          *)
Continues(s, t, x, rest, v) ==
  /\ Ready(t) /\ t.v = x /\ Agrees(t, rest) => Reads(s, t, Len(rest), v)
  /\ Lost(t) => Lost(s)

LEMMA ByteThen ==
  ASSUME NEW r, Ready(r), NEW x \in Byte, NEW rest \in Seq(Byte), Agrees(r, <<x>> \o rest),
         NEW s, NEW v, Continues(s, C!readByteDirect(r), x, rest, v)
  PROVE  Reads(s, r, Len(<<x>> \o rest), v)
<1> DEFINE t == C!readByteDirect(r)
<1>0. Continues(s, t, x, rest, v)
  OBVIOUS
<1>1. <<x>> \in Seq(Byte) /\ Len(<<x>>) = 1 /\ Len(rest) \in Nat /\ Len(<<x>> \o rest) = 1 + Len(rest)
  <2>1. <<x>> \in Seq(Byte) /\ Len(<<x>>) = 1
    OBVIOUS
  <2> QED
    BY <2>1, ConcatProperties, LenProperties
<1>2. Agrees(r, <<x>>) /\ \A q : q.wire = r.wire /\ q.pos = r.pos + Len(<<x>>) => Agrees(q, rest)
  BY <1>1, AgreesConcat
<1>3. Reads(t, r, 1, x)
  BY <1>2, ByteReads
<1> HIDE DEF t
<1>4. ASSUME Holds(r, 1) PROVE Reads(s, t, Len(rest), v)
  <2>1. Ready(t) /\ t.wire = r.wire /\ t.pos = r.pos + 1 /\ t.v = x
    BY <1>3, <1>4, Onward
  <2>2. Agrees(t, rest)
    BY <1>1, <1>2, <2>1
  <2> QED
    BY <1>0, <2>1, <2>2 DEF Continues
<1>5. ~ Holds(r, 1) => IsReader(s) /\ s.ok = FALSE
  BY <1>0, <1>3 DEF Reads, Lost, Continues
<1>6. Reads(s, r, 1 + Len(rest), v)
  BY <1>1, <1>3, <1>4, <1>5, Chained
<1> QED
  BY <1>1, <1>6

LEMMA FailedReads ==
  ASSUME NEW r, IsReader(r), r.ok = FALSE
  PROVE  IsReader(C!ReadBytes(r)) /\ C!ReadBytes(r).ok = FALSE
<1>1. C!ReadBytes(r) = C!Fail(r)
  BY DEF C!ReadBytes, C!readVarint, C!Sized
<1> QED
  BY <1>1, FailReads

NameBytes(s) == C!Varint(Len(s)) \o s

LEMMA NameTyped ==
  ASSUME NEW s \in Seq(Byte)
  PROVE  NameBytes(s) \in Seq(Byte) /\ Len(NameBytes(s)) \in Nat
<1>1. Len(s) \in Nat
  BY LenProperties
<1>2. C!Varint(Len(s)) \in Seq(Byte)
  BY <1>1, VarintBytes
<1>3. NameBytes(s) \in Seq(Byte)
  BY <1>2, ConcatProperties DEF NameBytes
<1> QED
  BY <1>3, LenProperties

LEMMA SeqidReads ==
  ASSUME MaxMessageSize \in Nat, NEW r, Ready(r), NEW name \in Seq(Byte), Len(name) <= MaxMessageSize,
         NEW type, NEW seqid \in Nat, Agrees(r, C!Varint(seqid) \o NameBytes(name))
  PROVE  Reads(C!AfterSeqid(type, C!readVarint(r)), r, Len(C!Varint(seqid) \o NameBytes(name)),
               [name |-> name, type |-> type, seqid |-> seqid])
<1> DEFINE long == C!Varint(seqid)
           rest == NameBytes(name)
           i == C!readVarint(r)
           t == C!ReadBytes(i)
           s == C!AfterSeqid(type, C!readVarint(r))
           m == [name |-> name, type |-> type, seqid |-> seqid]
<1>1. /\ long \in Seq(Byte) /\ rest \in Seq(Byte) /\ Len(long) \in Nat /\ Len(rest) \in Nat
      /\ Len(long \o rest) = Len(long) + Len(rest)
  <2>1. long \in Seq(Byte) /\ rest \in Seq(Byte)
    BY VarintBytes, NameTyped
  <2> HIDE DEF long, rest
  <2> QED
    BY <2>1, ConcatProperties, LenProperties
<1>2. Agrees(r, long) /\ \A q : q.wire = r.wire /\ q.pos = r.pos + Len(long) => Agrees(q, rest)
  <2> HIDE DEF long, rest
  <2>1. Agrees(r, long \o rest)
    BY DEF long, rest
  <2> QED
    BY <1>1, <2>1, AgreesConcat
<1>3. Reads(i, r, Len(long), seqid)
  BY <1>2, VarintReads
<1>4. s = IF t.ok THEN [t EXCEPT !.v = [name |-> t.v, type |-> type, seqid |-> i.v]] ELSE t
  BY DEF C!AfterSeqid, C!AfterName, C!Result
<1>5. Ready(i) /\ Agrees(i, rest) => Reads(t, i, Len(rest), name)
  BY BytesReads DEF NameBytes
<1>6. IsReader(i) /\ i.ok = FALSE => IsReader(t) /\ t.ok = FALSE
  BY FailedReads
<1> HIDE DEF long, rest, i, t, s, m
<1>7. ASSUME Holds(r, Len(long)) PROVE Reads(s, i, Len(rest), m)
  <2>1. Ready(i) /\ i.wire = r.wire /\ i.pos = r.pos + Len(long) /\ i.v = seqid
    BY <1>1, <1>3, <1>7, Onward
  <2>2. Reads(t, i, Len(rest), name)
    BY <1>2, <1>5, <2>1
  <2>3. t.ok = TRUE => t.v = name
    BY <2>2 DEF Reads
  <2>4. s = IF t.ok THEN [t EXCEPT !.v = m] ELSE t
    <3>1. t.ok = TRUE \/ t.ok = FALSE
      BY <2>2 DEF Reads
    <3> QED
      BY <1>4, <2>1, <2>3, <3>1 DEF m
  <2> QED
    BY <2>2, <2>4, ResultReads
<1>8. ASSUME ~ Holds(r, Len(long)) PROVE IsReader(s) /\ s.ok = FALSE
  BY <1>3, <1>4, <1>6, <1>8 DEF Reads
<1>9. Reads(s, r, Len(long) + Len(rest), m)
  BY <1>1, <1>3, <1>7, <1>8, Chained
<1> QED
  BY <1>1, <1>9 DEF long, rest, s, m

MessageBytes(m) == <<130>> \o (<<1 + 32 * m.type>> \o (C!Varint(m.seqid) \o NameBytes(m.name)))

(* The header of a message. *)
LEMMA MessageReads ==
  ASSUME MaxMessageSize \in Nat, NEW r, Ready(r), NEW name \in Seq(Byte), Len(name) <= MaxMessageSize,
         NEW type \in 1..4, NEW seqid \in Nat, NEW m,
         m = [name |-> name, type |-> type, seqid |-> seqid], Agrees(r, MessageBytes(m))
  PROVE  Reads(C!ReadMessageBegin(r), r, Len(MessageBytes(m)), m)
<1> DEFINE x == 1 + 32 * type
           tail == C!Varint(seqid) \o NameBytes(name)
           t == C!readByteDirect(r)
           u == C!readByteDirect(t)
           s == C!ReadMessageBegin(r)
<1>1. x \in Byte /\ (x % 32) = 1 /\ x \div 32 = type /\ 130 \in Byte
  BY DEF Byte
<1>2. tail \in Seq(Byte)
  <2>1. C!Varint(seqid) \in Seq(Byte) /\ NameBytes(name) \in Seq(Byte)
    BY VarintBytes, NameTyped
  <2> QED
    BY <2>1, ConcatProperties
<1>3. m.name = name /\ m.type = type /\ m.seqid = seqid
  OBVIOUS
<1>4. MessageBytes(m) = <<130>> \o (<<x>> \o tail)
  BY <1>3 DEF MessageBytes
<1>5. s = C!AfterId(t) /\ C!AfterId(t) = IF t.ok = FALSE \/ t.v # 130 THEN C!Fail(t) ELSE C!AfterVersion(u)
  BY DEF C!ReadMessageBegin, C!AfterId
<1>6. C!AfterVersion(u) = IF u.ok = FALSE \/ u.v % 32 # 1 THEN C!Fail(u)
                          ELSE C!AfterSeqid(u.v \div 32, C!readVarint(u))
  BY DEF C!AfterVersion
<1>7. Ready(u) /\ Agrees(u, tail) => Reads(C!AfterSeqid(type, C!readVarint(u)), u, Len(tail), m)
  BY SeqidReads
<1> HIDE DEF x, tail, t, u, s
<1>8. <<x>> \in Seq(Byte) /\ <<x>> \o tail \in Seq(Byte)
  <2>1. <<x>> \in Seq(Byte)
    BY <1>1
  <2> QED
    BY <1>2, <2>1, ConcatProperties
<1>9. ASSUME Ready(t), t.v = 130, Agrees(t, <<x>> \o tail)
      PROVE  Reads(s, t, Len(<<x>> \o tail), m)
  <2>1. s = C!AfterVersion(u)
    BY <1>5, <1>9 DEF Ready
  <2>2. Ready(u) /\ u.v = x /\ Agrees(u, tail) => Reads(s, u, Len(tail), m)
    BY <1>1, <1>6, <1>7, <2>1 DEF Ready
  <2>3. Lost(u) => Lost(s)
    BY <1>6, <2>1, FailReads DEF Lost
  <2>4. Continues(s, C!readByteDirect(t), x, tail, m)
    BY <2>2, <2>3 DEF u, Continues
  <2> QED
    BY <1>1, <1>2, <1>9, <2>4, ByteThen
<1>10. Lost(t) => Lost(s)
  BY <1>5, FailReads DEF Lost
<1>11. Continues(s, C!readByteDirect(r), 130, <<x>> \o tail, m)
  BY <1>9, <1>10 DEF t, Continues
<1>12. Agrees(r, <<130>> \o (<<x>> \o tail))
  BY <1>4
<1>13. Reads(s, r, Len(<<130>> \o (<<x>> \o tail)), m)
  BY <1>1, <1>8, <1>11, <1>12, ByteThen
<1> QED
  BY <1>4, <1>13 DEF s

-----------------------------------------------------------------------------
(* The compact protocol, call by call *)

CompactWriters == [out : Seq(Byte), stack : Seq(Int), last : Int, pending : Seq(Int)]

(* What a call puts on the wire. *)
CompactBytes(w, c) ==
  CASE c.op = "message" -> MessageBytes(c.arg)
    [] c.op \in {"struct", "structEnd"} -> << >>
    [] c.op = "field" -> IF c.arg.type = "BOOL" THEN << >>
                         ELSE HeaderBytes(C!CompactType[c.arg.type], c.arg.id, w.last)
    [] c.op = "stop" -> <<0>>
    [] c.op = "list" -> ListBytes(C!CompactType[c.arg.type], c.arg.size)
    [] c.op = "bool" -> IF w.pending = << >> THEN <<IF c.arg THEN 1 ELSE 2>>
                        ELSE HeaderBytes(IF c.arg THEN 1 ELSE 2, w.pending[1], w.last)
    [] c.op \in {"i16", "i32", "i64"} -> C!Varint(C!ZigZag(c.arg))
    [] c.op = "double" -> c.arg
    [] c.op \in {"string", "binary"} -> NameBytes(c.arg)

LEMMA PutIs ==
  ASSUME NEW w \in CompactWriters, NEW bytes \in Seq(Byte)
  PROVE  /\ C!Put(w, bytes) \in CompactWriters /\ C!Put(w, bytes).out = w.out \o bytes
         /\ C!Put(w, bytes).stack = w.stack /\ C!Put(w, bytes).last = w.last
         /\ C!Put(w, bytes).pending = w.pending
<1>1. w.out \o bytes \in Seq(Byte)
  BY ConcatProperties DEF CompactWriters
<1> QED
  BY <1>1 DEF C!Put, CompactWriters

LEMMA PutAgain ==
  ASSUME NEW w \in CompactWriters, NEW s \in Seq(Byte), NEW t \in Seq(Byte)
  PROVE  C!Put(C!Put(w, s), t) = C!Put(w, s \o t)
<1>1. (w.out \o s) \o t = w.out \o (s \o t)
  BY ConcatAssociative DEF CompactWriters
<1> QED
  BY <1>1 DEF C!Put, CompactWriters

LEMMA TypeByte == 130 \in Byte /\ \A type \in 1..4 : 1 + 32 * type \in Byte
BY DEF Byte

LEMMA MessageTyped ==
  ASSUME NEW m \in [name : Seq(Byte), type : 1..4, seqid : Nat]
  PROVE  /\ MessageBytes(m) \in Seq(Byte)
         /\ MessageBytes(m) = (<<130, 1 + 32 * m.type>> \o C!Varint(m.seqid)) \o NameBytes(m.name)
         /\ <<130, 1 + 32 * m.type>> \o C!Varint(m.seqid) \in Seq(Byte)
<1> DEFINE x == 1 + 32 * m.type
           long == C!Varint(m.seqid)
           name == NameBytes(m.name)
<1>1. x \in Byte /\ 130 \in Byte
  <2>1. m.type \in 1..4
    OBVIOUS
  <2> QED
    BY <2>1, TypeByte
<1>2. long \in Seq(Byte) /\ name \in Seq(Byte)
  BY VarintBytes, NameTyped
<1> HIDE DEF x, long, name
<1>3. <<130>> \in Seq(Byte) /\ <<x>> \in Seq(Byte) /\ <<130, x>> = <<130>> \o <<x>>
  BY <1>1
<1>4. long \o name \in Seq(Byte) /\ <<x>> \o (long \o name) \in Seq(Byte)
      /\ <<130, x>> \in Seq(Byte) /\ <<130, x>> \o long \in Seq(Byte)
  BY <1>2, <1>3, ConcatProperties
<1>5. <<130>> \o (<<x>> \o (long \o name)) = <<130, x>> \o (long \o name)
  BY <1>2, <1>3, <1>4, ConcatAssociative
<1>6. <<130, x>> \o (long \o name) = (<<130, x>> \o long) \o name
  BY <1>2, <1>4, ConcatAssociative
<1>7. MessageBytes(m) = <<130>> \o (<<x>> \o (long \o name))
  BY DEF MessageBytes, x, long, name
<1>8. MessageBytes(m) \in Seq(Byte)
  BY <1>3, <1>4, <1>7, ConcatProperties
<1>9. MessageBytes(m) = (<<130, x>> \o long) \o name
  BY <1>5, <1>6, <1>7
<1> QED
  BY <1>4, <1>8, <1>9 DEF x, long, name

Follows(w2, w, bytes) ==
  w2 \in CompactWriters /\ bytes \in Seq(Byte) /\ w2.out = w.out \o bytes

LEMMA PutFollows ==
  ASSUME NEW w \in CompactWriters, NEW bytes \in Seq(Byte)
  PROVE  /\ Follows(C!Put(w, bytes), w, bytes)
         /\ C!Put(w, bytes).stack = w.stack /\ C!Put(w, bytes).last = w.last
         /\ C!Put(w, bytes).pending = w.pending
BY PutIs DEF Follows

LEMMA FieldFollows ==
  ASSUME NEW w \in CompactWriters, NEW nibble \in 1..12, NEW id \in Int
  PROVE  LET w2 == C!writeFieldBeginInternal(w, nibble, id)
         IN  /\ Follows(w2, w, HeaderBytes(nibble, id, w.last))
             /\ w2.stack = w.stack /\ w2.last = id /\ w2.pending = w.pending
<1> DEFINE bytes == HeaderBytes(nibble, id, w.last)
           put == C!Put(w, bytes)
<1>1. bytes \in Seq(Byte)
  BY HeaderTyped DEF CompactWriters
<1>2. C!writeFieldBeginInternal(w, nibble, id) = [put EXCEPT !.last = id]
  BY DEF C!writeFieldBeginInternal, HeaderBytes
<1>3. put \in CompactWriters /\ put.out = w.out \o bytes /\ put.stack = w.stack
      /\ put.pending = w.pending
  BY <1>1, PutIs
<1> HIDE DEF put, bytes
<1>4. [put EXCEPT !.last = id] \in CompactWriters /\ [put EXCEPT !.last = id].out = put.out
      /\ [put EXCEPT !.last = id].stack = put.stack /\ [put EXCEPT !.last = id].last = id
      /\ [put EXCEPT !.last = id].pending = put.pending
  BY <1>3 DEF CompactWriters
<1> QED
  BY <1>1, <1>2, <1>3, <1>4 DEF Follows, bytes

(* The fields of a writer beside the bytes. *)
Beside(w2, stack, last, ids) == w2.stack = stack /\ w2.last = last /\ w2.pending = ids

(* What each call adds to the bytes, and what else it changes. *)
LEMMA CompactWrites ==
  ASSUME NEW w \in CompactWriters, w.pending \in {<< >>} \cup {<<id>> : id \in Int},
         NEW c \in ProtocolCalls, c.op = "structEnd" => w.stack # << >>
  PROVE  LET w2 == CompactCall(w, c)
         IN  /\ Follows(w2, w, CompactBytes(w, c))
             /\ c.op \notin {"struct", "structEnd", "field", "bool"} => Beside(w2, w.stack, w.last, w.pending)
             /\ c.op = "struct" => Beside(w2, Append(w.stack, w.last), 0, w.pending)
             /\ c.op = "structEnd" => Beside(w2, SubSeq(w.stack, 1, Len(w.stack) - 1),
                                             w.stack[Len(w.stack)], w.pending)
             /\ c.op = "field" => IF BoolField(c) THEN Beside(w2, w.stack, w.last, <<c.arg.id>>)
                                  ELSE Beside(w2, w.stack, c.arg.id, w.pending)
             /\ c.op = "bool" => IF w.pending = << >> THEN Beside(w2, w.stack, w.last, << >>)
                                 ELSE Beside(w2, w.stack, w.pending[1], << >>)
<1> DEFINE w2 == CompactCall(w, c)
<1>1. CASE c.op = "message"
  <2> DEFINE m == c.arg
             head == <<130, 1 + 32 * m.type>> \o C!Varint(m.seqid)
             name == NameBytes(m.name)
  <2>1. m \in [name : Seq(Byte), type : 1..4, seqid : Nat]
    BY <1>1 DEF ProtocolCalls, ByteStrings, MessageTypes, Sizes
  <2>2. w2 = C!Put(C!Put(w, head), name)
    BY <1>1 DEF CompactCall, C!WriteMessageBegin, C!WriteBytes, NameBytes
  <2> HIDE DEF m
  <2>3. head \in Seq(Byte) /\ name \in Seq(Byte) /\ MessageBytes(m) = head \o name
        /\ MessageBytes(m) \in Seq(Byte)
    BY <2>1, MessageTyped, NameTyped
  <2>4. CompactBytes(w, c) = MessageBytes(m)
    BY <1>1 DEF CompactBytes, m
  <2> HIDE DEF head, name, w2
  <2>5. w2 = C!Put(w, MessageBytes(m))
    BY <2>2, <2>3, PutAgain
  <2>6. Follows(w2, w, CompactBytes(w, c)) /\ Beside(w2, w.stack, w.last, w.pending)
    BY <2>3, <2>4, <2>5, PutFollows DEF Beside
  <2> QED
    BY <1>1, <2>6 DEF w2
<1>2. CASE c.op = "struct"
  <2> DEFINE above == Append(w.stack, w.last)
  <2>1. w2 = [w EXCEPT !.stack = above, !.last = 0] /\ CompactBytes(w, c) = << >>
    BY <1>2 DEF CompactCall, C!WriteStructBegin, CompactBytes
  <2>2. above \in Seq(Int) /\ w.out \o << >> = w.out /\ << >> \in Seq(Byte)
    BY AppendProperties, ConcatEmptySeq DEF CompactWriters
  <2> HIDE DEF w2, above
  <2>3. w2 \in CompactWriters /\ w2.out = w.out /\ w2.stack = above /\ w2.last = 0
        /\ w2.pending = w.pending
    <3>1. PICK id \in Int : id = 0
      OBVIOUS
    <3>2. w2 = [w EXCEPT !.stack = above, !.last = id]
      BY <2>1, <3>1
    <3>3. w2 \in CompactWriters /\ w2.out = w.out /\ w2.stack = above /\ w2.last = id
          /\ w2.pending = w.pending
      BY <2>2, <3>2 DEF CompactWriters
    <3> QED
      BY <3>1, <3>3
  <2>4. Follows(w2, w, CompactBytes(w, c)) /\ Beside(w2, above, 0, w.pending)
    BY <2>1, <2>2, <2>3 DEF Follows, Beside
  <2> QED
    BY <1>2, <2>4 DEF w2, above
<1>3. CASE c.op = "structEnd"
  <2> DEFINE top == w.stack[Len(w.stack)]
             below == SubSeq(w.stack, 1, Len(w.stack) - 1)
  <2>1. w2 = [w EXCEPT !.last = top, !.stack = below] /\ CompactBytes(w, c) = << >>
    BY <1>3 DEF CompactCall, C!WriteStructEnd, CompactBytes
  <2>2. below \in Seq(Int) /\ top \in Int /\ w.out \o << >> = w.out /\ << >> \in Seq(Byte)
    <3>1. w.stack \in Seq(Int) /\ w.stack # << >> /\ w.out \in Seq(Byte)
      BY <1>3 DEF CompactWriters
    <3> QED
      BY <3>1, ConcatEmptySeq
  <2> HIDE DEF w2, top, below
  <2>3. Follows(w2, w, CompactBytes(w, c)) /\ Beside(w2, below, top, w.pending)
    BY <2>1, <2>2 DEF Follows, Beside, CompactWriters
  <2> QED
    BY <1>3, <2>3 DEF w2, top, below
<1>4. CASE c.op = "field"
  <2>1. c.arg.type \in WireTypes /\ c.arg.id \in Int
    BY <1>4 DEF ProtocolCalls, Numbers
  <2>2. CASE BoolField(c)
    <3>1. w2 = [w EXCEPT !.pending = <<c.arg.id>>] /\ CompactBytes(w, c) = << >>
      BY <1>4, <2>2 DEF CompactCall, C!WriteFieldBegin, CompactBytes, BoolField
    <3>2. <<c.arg.id>> \in Seq(Int) /\ w.out \o << >> = w.out /\ << >> \in Seq(Byte)
      BY <2>1, ConcatEmptySeq DEF CompactWriters
    <3> HIDE DEF w2
    <3>3. Follows(w2, w, CompactBytes(w, c)) /\ Beside(w2, w.stack, w.last, <<c.arg.id>>)
      BY <3>1, <3>2 DEF Follows, Beside, CompactWriters
    <3> QED
      BY <1>4, <2>2, <3>3 DEF w2
  <2>3. CASE ~ BoolField(c)
    <3> DEFINE nibble == C!CompactType[c.arg.type]
    <3>1. w2 = C!writeFieldBeginInternal(w, nibble, c.arg.id)
          /\ CompactBytes(w, c) = HeaderBytes(nibble, c.arg.id, w.last)
      BY <1>4, <2>3 DEF CompactCall, C!WriteFieldBegin, CompactBytes, BoolField
    <3>2. nibble \in 1..12
      BY <2>1, Nibbles
    <3> HIDE DEF w2, nibble
    <3>3. Follows(w2, w, CompactBytes(w, c)) /\ Beside(w2, w.stack, c.arg.id, w.pending)
      BY <2>1, <3>1, <3>2, FieldFollows DEF Beside
    <3> QED
      BY <1>4, <2>3, <3>3 DEF w2
  <2> QED
    BY <2>2, <2>3
<1>5. CASE c.op = "bool"
  <2> DEFINE nibble == IF c.arg THEN 1 ELSE 2
  <2>1. nibble \in 1..12 /\ <<nibble>> \in Seq(Byte)
    BY DEF Byte
  <2>2. CASE w.pending = << >>
    <3>1. w2 = C!Put(w, <<nibble>>) /\ CompactBytes(w, c) = <<nibble>>
      BY <1>5, <2>2 DEF CompactCall, C!WriteBool, CompactBytes, C!TRUE_NIBBLE, C!FALSE_NIBBLE
    <3> HIDE DEF w2, nibble
    <3>2. Follows(w2, w, CompactBytes(w, c)) /\ Beside(w2, w.stack, w.last, << >>)
      BY <2>1, <2>2, <3>1, PutFollows DEF Beside
    <3> QED
      BY <1>5, <2>2, <3>2 DEF w2
  <2>3. CASE w.pending # << >>
    <3>0. PICK id \in Int : w.pending = <<id>>
      BY <2>3
    <3>1. w2 = [C!writeFieldBeginInternal(w, nibble, id) EXCEPT !.pending = << >>]
          /\ CompactBytes(w, c) = HeaderBytes(nibble, id, w.last)
      BY <1>5, <3>0 DEF CompactCall, C!WriteBool, CompactBytes, C!TRUE_NIBBLE, C!FALSE_NIBBLE
    <3> DEFINE f == C!writeFieldBeginInternal(w, nibble, id)
    <3> HIDE DEF w2, nibble
    <3>2. Follows(f, w, CompactBytes(w, c)) /\ f.stack = w.stack /\ f.last = id
      BY <2>1, <3>0, <3>1, FieldFollows
    <3>3. w2 = [f EXCEPT !.pending = << >>]
      BY <3>1
    <3> HIDE DEF f
    <3>4. w2 \in CompactWriters /\ w2.out = f.out /\ w2.stack = f.stack /\ w2.last = f.last
          /\ w2.pending = << >>
      <4>1. << >> \in Seq(Int) /\ f \in CompactWriters
        BY <3>2 DEF Follows
      <4> QED
        BY <3>3, <4>1 DEF CompactWriters
    <3>5. Follows(w2, w, CompactBytes(w, c)) /\ Beside(w2, w.stack, w.pending[1], << >>)
      BY <3>0, <3>2, <3>4 DEF Follows, Beside
    <3> QED
      BY <1>5, <2>3, <3>5 DEF w2
  <2> QED
    BY <2>2, <2>3
<1>6. CASE c.op \in {"stop", "list", "i16", "i32", "i64", "double", "string", "binary"}
  <2> DEFINE bytes == CompactBytes(w, c)
  <2>1. bytes \in Seq(Byte) /\ w2 = C!Put(w, bytes)
    <3>1. CASE c.op = "stop"
      <4>1. w2 = C!Put(w, <<0>>) /\ bytes = <<0>>
        BY <3>1 DEF CompactCall, C!WriteFieldStop, CompactBytes
      <4> QED
        BY <4>1 DEF Byte
    <3>2. CASE c.op = "list"
      <4>1. c.arg.type \in WireTypes /\ c.arg.size \in Nat
        BY <3>2 DEF ProtocolCalls, Sizes
      <4>2. w2 = C!Put(w, bytes) /\ bytes = ListBytes(C!CompactType[c.arg.type], c.arg.size)
        BY <3>2 DEF CompactCall, C!WriteListBegin, CompactBytes, ListBytes
      <4>3. C!CompactType[c.arg.type] \in 1..12
        BY <4>1, Nibbles
      <4> QED
        BY <4>1, <4>2, <4>3, ListTyped
    <3>3. CASE c.op \in {"i16", "i32", "i64"}
      <4>1. c.arg \in Int
        BY <3>3 DEF ProtocolCalls, Numbers
      <4>2. w2 = C!Put(w, bytes) /\ bytes = C!Varint(C!ZigZag(c.arg))
        BY <3>3 DEF CompactCall, C!WriteInt, CompactBytes
      <4> QED
        BY <4>1, <4>2, ZigZagBack, VarintBytes
    <3>4. CASE c.op = "double"
      <4>1. c.arg \in Seq(Byte)
        BY <3>4 DEF ProtocolCalls
      <4>2. w2 = C!Put(w, bytes) /\ bytes = c.arg
        BY <3>4 DEF CompactCall, C!WriteDouble, CompactBytes
      <4> QED
        BY <4>1, <4>2
    <3>5. CASE c.op \in {"string", "binary"}
      <4>1. c.arg \in Seq(Byte)
        BY <3>5 DEF ProtocolCalls, ByteStrings
      <4>2. w2 = C!Put(w, bytes) /\ bytes = NameBytes(c.arg)
        BY <3>5 DEF CompactCall, C!WriteBytes, CompactBytes, NameBytes
      <4> QED
        BY <4>1, <4>2, NameTyped
    <3> QED
      BY <1>6, <3>1, <3>2, <3>3, <3>4, <3>5
  <2> HIDE DEF bytes, w2
  <2>2. Follows(w2, w, bytes) /\ Beside(w2, w.stack, w.last, w.pending)
    BY <2>1, PutFollows DEF Beside
  <2> QED
    BY <1>6, <2>2 DEF bytes, w2
<1>7. c.op \in {"message", "struct", "structEnd", "field", "bool", "stop", "list", "i16", "i32",
                "i64", "double", "string", "binary"}
  BY DEF ProtocolCalls
<1> QED
  BY <1>1, <1>2, <1>3, <1>4, <1>5, <1>6, <1>7

(* The reader has read back all that the writer wrote. *)
Level(wire, w, r) ==
  /\ w \in CompactWriters /\ w.pending = << >> /\ Ready(r) /\ r.wire = wire /\ r.pos = Len(w.out) + 1
  /\ r.stack = w.stack /\ r.last = w.last /\ r.bool = << >>

LEMMA LevelAfter ==
  ASSUME NEW wire, NEW w, NEW r, Level(wire, w, r), NEW w2, NEW bytes, Follows(w2, w, bytes),
         Beside(w2, w.stack, w.last, w.pending), NEW s, NEW v, Reads(s, r, Len(bytes), v)
  PROVE  IF Holds(r, Len(bytes)) THEN Level(wire, w2, s) /\ s.v = v ELSE s.ok = FALSE
<1>1. Len(bytes) \in Nat /\ Len(w.out) \in Nat /\ Len(w2.out) = Len(w.out) + Len(bytes)
  BY ConcatProperties, LenProperties DEF Follows, Level, CompactWriters
<1>2. CASE Holds(r, Len(bytes))
  <2>1. Ready(s) /\ s.pos = r.pos + Len(bytes) /\ s.v = v
    BY <1>1, <1>2, Onward DEF Level
  <2>2. s.wire = r.wire /\ s.stack = r.stack /\ s.last = r.last /\ s.bool = r.bool
    BY <1>2 DEF Reads, Same
  <2>3. s.pos = Len(w2.out) + 1
    BY <1>1, <2>1 DEF Level
  <2> QED
    BY <1>2, <2>1, <2>2, <2>3 DEF Level, Follows, Beside
<1>3. CASE ~ Holds(r, Len(bytes))
  BY <1>3 DEF Reads
<1> QED
  BY <1>2, <1>3

LEMMA SizeBounds == MaxMessageSize \in Nat
BY MessageSizeAssumption DEF Sizes

(* The values. *)
LEMMA CompactScalars ==
  ASSUME NEW r, Ready(r), r.bool = << >>, NEW w, w.pending = << >>, NEW c \in ProtocolCalls,
         c.op \in {"bool", "i16", "i32", "i64", "double", "string", "binary"},
         Agrees(r, CompactBytes(w, c))
  PROVE  Reads(CompactGet(r, c.op), r, Len(CompactBytes(w, c)), c.arg)
<1>1. CASE c.op = "bool"
  <2>1. c.arg \in BOOLEAN
    BY <1>1 DEF ProtocolCalls
  <2>2. CompactBytes(w, c) = <<IF c.arg THEN 1 ELSE 2>> /\ CompactGet(r, c.op) = C!ReadBool(r)
    BY <1>1 DEF CompactBytes, CompactGet
  <2>3. Len(<<IF c.arg THEN 1 ELSE 2>>) = 1
    OBVIOUS
  <2>4. Agrees(r, <<IF c.arg THEN 1 ELSE 2>>)
    BY <2>2
  <2>5. Reads(C!ReadBool(r), r, 1, c.arg)
    BY <2>1, <2>4, BoolReads
  <2> QED
    BY <2>2, <2>3, <2>5
<1>2. CASE c.op \in {"i16", "i32", "i64"}
  <2>1. c.arg \in Int
    BY <1>2 DEF ProtocolCalls, Numbers
  <2>2. CompactBytes(w, c) = C!Varint(C!ZigZag(c.arg)) /\ CompactGet(r, c.op) = C!ReadInt(r)
    BY <1>2 DEF CompactBytes, CompactGet
  <2> QED
    BY <2>1, <2>2, IntReads
<1>3. CASE c.op = "double"
  <2>1. c.arg \in Seq(Byte) /\ Len(c.arg) = 8
    BY <1>3 DEF ProtocolCalls
  <2>2. CompactBytes(w, c) = c.arg /\ CompactGet(r, c.op) = C!ReadDouble(r)
    BY <1>3 DEF CompactBytes, CompactGet
  <2>3. Reads(C!ReadDouble(r), r, 8, c.arg)
    BY <2>1, <2>2, DoubleReads
  <2> QED
    BY <2>1, <2>2, <2>3
<1>4. CASE c.op \in {"string", "binary"}
  <2>1. c.arg \in Seq(Byte) /\ Len(c.arg) <= MaxMessageSize /\ MaxMessageSize \in Nat
    BY <1>4, SizeBounds DEF ProtocolCalls, ByteStrings
  <2>2. CompactBytes(w, c) = C!Varint(Len(c.arg)) \o c.arg /\ CompactGet(r, c.op) = C!ReadBytes(r)
    <3>1. CompactBytes(w, c) = NameBytes(c.arg)
      BY <1>4 DEF CompactBytes
    <3>2. CompactGet(r, c.op) = C!ReadBytes(r)
      BY <1>4 DEF CompactGet
    <3> QED
      BY <3>1, <3>2 DEF NameBytes
  <2> QED
    BY <2>1, <2>2, BytesReads
<1> QED
  BY <1>1, <1>2, <1>3, <1>4

(* The headers of messages and lists. *)
LEMMA CompactHeads ==
  ASSUME NEW r, Ready(r), NEW w, NEW c \in ProtocolCalls, Agrees(r, CompactBytes(w, c))
  PROVE  /\ c.op \in {"message", "list"} =>
              Reads(CompactGet(r, Asked(c)), r, Len(CompactBytes(w, c)), c.arg)
         /\ c.op = "stop" => Reads(CompactGet(r, Asked(c)), r, Len(CompactBytes(w, c)), C!NoField)
<1>1. ASSUME c.op = "message"
      PROVE  Reads(CompactGet(r, Asked(c)), r, Len(CompactBytes(w, c)), c.arg)
  <2>1. c.arg \in [name : ByteStrings, type : 1..4, seqid : Sizes]
    BY <1>1 DEF ProtocolCalls, MessageTypes
  <2>2. PICK name \in ByteStrings, type \in 1..4, seqid \in Sizes :
             c.arg = [name |-> name, type |-> type, seqid |-> seqid]
    BY <2>1
  <2>3. name \in Seq(Byte) /\ Len(name) <= MaxMessageSize /\ MaxMessageSize \in Nat /\ seqid \in Nat
    BY SizeBounds DEF ByteStrings, Sizes
  <2>4. CompactBytes(w, c) = MessageBytes(c.arg) /\ CompactGet(r, Asked(c)) = C!ReadMessageBegin(r)
    BY <1>1 DEF CompactBytes, CompactGet, Asked
  <2> QED
    BY <2>2, <2>3, <2>4, MessageReads
<1>2. ASSUME c.op = "list"
      PROVE  Reads(CompactGet(r, Asked(c)), r, Len(CompactBytes(w, c)), c.arg)
  <2>1. PICK type \in WireTypes, size \in Nat : c.arg = [type |-> type, size |-> size]
    BY <1>2 DEF ProtocolCalls, Sizes
  <2> DEFINE nibble == C!CompactType[type]
  <2>2. nibble \in 1..12 /\ C!KnownNibble(nibble) /\ C!TType(nibble) = type
    BY Nibbles
  <2>3. CompactBytes(w, c) = ListBytes(nibble, size) /\ CompactGet(r, Asked(c)) = C!ReadListBegin(r)
    BY <1>2, <2>1 DEF CompactBytes, CompactGet, Asked
  <2> HIDE DEF nibble
  <2>4. Reads(C!ReadListBegin(r), r, Len(ListBytes(nibble, size)), [type |-> C!TType(nibble), size |-> size])
    BY <2>2, <2>3, ListReads
  <2> QED
    BY <2>1, <2>2, <2>3, <2>4
<1>3. ASSUME c.op = "stop"
      PROVE  Reads(CompactGet(r, Asked(c)), r, Len(CompactBytes(w, c)), C!NoField)
  <2>1. CompactBytes(w, c) = <<0>> /\ CompactGet(r, Asked(c)) = C!ReadFieldBegin(r) /\ Len(<<0>>) = 1
    BY <1>3 DEF CompactBytes, CompactGet, Asked
  <2> QED
    BY <2>1, StopReads
<1> QED
  BY <1>1, <1>2, <1>3

(* One call, of both sides. *)
LEMMA CompactStep ==
  ASSUME NEW wire, NEW w, NEW r, Level(wire, w, r), NEW c \in ProtocolCalls, ~ BoolField(c),
         c.op = "structEnd" => w.stack # << >>, Agrees(r, CompactBytes(w, c))
  PROVE  LET r2 == CompactGet(r, Asked(c))
         IN  IF Holds(r, Len(CompactBytes(w, c))) THEN Level(wire, CompactCall(w, c), r2) /\ Back(r2.v, c)
             ELSE r2.ok = FALSE
<1> DEFINE w2 == CompactCall(w, c)
           r2 == CompactGet(r, Asked(c))
           bytes == CompactBytes(w, c)
<1>0. w \in CompactWriters /\ w.pending = << >> /\ Ready(r) /\ r.bool = << >> /\ r.last \in Int
      /\ r.wire = wire /\ r.pos = Len(w.out) + 1 /\ r.stack = w.stack /\ r.last = w.last
  BY DEF Level, CompactWriters
<1>1. /\ Follows(w2, w, bytes)
      /\ c.op \notin {"struct", "structEnd", "field", "bool"} => Beside(w2, w.stack, w.last, w.pending)
      /\ c.op = "struct" => Beside(w2, Append(w.stack, w.last), 0, w.pending)
      /\ c.op = "structEnd" => Beside(w2, SubSeq(w.stack, 1, Len(w.stack) - 1),
                                      w.stack[Len(w.stack)], w.pending)
      /\ c.op = "field" => Beside(w2, w.stack, c.arg.id, w.pending)
      /\ c.op = "bool" => Beside(w2, w.stack, w.last, << >>)
  BY <1>0, CompactWrites
<1>2. CASE c.op \in {"bool", "i16", "i32", "i64", "double", "string", "binary", "message", "list", "stop"}
  <2>1. PICK v : Reads(r2, r, Len(bytes), v) /\ Back(v, c)
    <3>1. CASE c.op \in {"bool", "i16", "i32", "i64", "double", "string", "binary"}
      <4>1. Asked(c) = c.op
        BY <3>1 DEF Asked
      <4>2. Reads(r2, r, Len(bytes), c.arg)
        BY <1>0, <3>1, <4>1, CompactScalars
      <4>3. Back(c.arg, c)
        BY <3>1 DEF Back
      <4> QED
        BY <4>2, <4>3
    <3>2. CASE c.op \in {"message", "list"}
      <4>1. Reads(r2, r, Len(bytes), c.arg)
        BY <1>0, <3>2, CompactHeads
      <4>2. Back(c.arg, c)
        BY <3>2 DEF Back
      <4> QED
        BY <4>1, <4>2
    <3>3. CASE c.op = "stop"
      <4>1. Reads(r2, r, Len(bytes), C!NoField)
        BY <1>0, <3>3, CompactHeads
      <4>2. Back(C!NoField, c)
        BY <3>3 DEF Back
      <4> QED
        BY <4>1, <4>2
    <3> QED
      BY <1>2, <3>1, <3>2, <3>3
  <2>2. Beside(w2, w.stack, w.last, w.pending)
    BY <1>0, <1>1, <1>2
  <2> HIDE DEF w2, r2, bytes
  <2>3. IF Holds(r, Len(bytes)) THEN Level(wire, w2, r2) /\ r2.v = v ELSE r2.ok = FALSE
    BY <1>1, <2>1, <2>2, LevelAfter
  <2> QED
    BY <2>1, <2>3 DEF w2, r2, bytes
<1>3. CASE c.op \in {"struct", "structEnd"}
  <2>1. bytes = << >> /\ Len(bytes) = 0 /\ Holds(r, Len(bytes)) /\ Asked(c) = c.op
    <3>1. bytes = << >> /\ Asked(c) = c.op
      BY <1>3 DEF CompactBytes, Asked
    <3> QED
      BY <1>0, <3>1 DEF Holds, Ready
  <2>2. w2 \in CompactWriters /\ w2.out = w.out
    BY <1>0, <1>1, <2>1, ConcatEmptySeq DEF Follows, CompactWriters
  <2>3. Level(wire, w2, r2)
    <3>1. CASE c.op = "struct"
      <4> DEFINE above == Append(r.stack, r.last)
      <4>1. r2 = [r EXCEPT !.stack = above, !.last = 0]
        BY <2>1, <3>1 DEF CompactGet, C!ReadStructBegin
      <4>2. Beside(w2, above, 0, << >>)
        BY <1>0, <1>1, <3>1
      <4> HIDE DEF w2, r2, above
      <4>3. Ready(r2) /\ r2.wire = r.wire /\ r2.pos = r.pos /\ r2.stack = above /\ r2.last = 0 /\ r2.bool = r.bool
        BY <1>0, <4>1 DEF Ready, IsReader, Fields
      <4> QED
        BY <1>0, <2>2, <4>2, <4>3 DEF Level, Beside
    <3>2. CASE c.op = "structEnd"
      <4> DEFINE top == r.stack[Len(r.stack)]
                 below == SubSeq(r.stack, 1, Len(r.stack) - 1)
      <4>1. r2 = [r EXCEPT !.last = top, !.stack = below]
        BY <2>1, <3>2 DEF CompactGet, C!ReadStructEnd
      <4>2. Beside(w2, below, top, << >>)
        BY <1>0, <1>1, <3>2
      <4> HIDE DEF w2, r2, top, below
      <4>3. Ready(r2) /\ r2.wire = r.wire /\ r2.pos = r.pos /\ r2.stack = below /\ r2.last = top /\ r2.bool = r.bool
        BY <1>0, <4>1 DEF Ready, IsReader, Fields
      <4> QED
        BY <1>0, <2>2, <4>2, <4>3 DEF Level, Beside
    <3> QED
      BY <1>3, <3>1, <3>2
  <2>4. Back(r2.v, c)
    BY <1>3 DEF Back
  <2> QED
    BY <2>1, <2>3, <2>4
<1>4. CASE c.op = "field"
  <2>1. PICK type \in WireTypes, id \in Int : c.arg = [type |-> type, id |-> id]
    BY <1>4 DEF ProtocolCalls, Numbers
  <2> DEFINE nibble == C!CompactType[type]
  <2>2. type # "BOOL"
    BY <1>4, <2>1 DEF BoolField
  <2>3. nibble \in 1..12 /\ C!KnownNibble(nibble) /\ C!TType(nibble) = type /\ nibble \notin {1, 2}
    BY <2>2, Nibbles DEF C!TRUE_NIBBLE, C!FALSE_NIBBLE
  <2>4. bytes = HeaderBytes(nibble, id, r.last)
    BY <1>0, <1>4, <2>1, <2>2 DEF CompactBytes
  <2>5. r2 = C!ReadFieldBegin(r)
    BY <1>4 DEF CompactGet, Asked
  <2>6. Len(bytes) \in Nat /\ Len(w2.out) = Len(w.out) + Len(bytes)
    <3>1. bytes \in Seq(Byte) /\ w.out \in Seq(Byte) /\ w2.out = w.out \o bytes
      BY <1>0, <1>1 DEF Follows, CompactWriters
    <3> HIDE DEF bytes, w2
    <3> QED
      BY <3>1, ConcatProperties, LenProperties
  <2> HIDE DEF nibble
  <2>7. ReadsField(r2, r, Len(bytes), nibble, id)
    BY <1>0, <2>3, <2>4, <2>5, FieldReads
  <2>8. w2 \in CompactWriters /\ w2.stack = w.stack /\ w2.last = id /\ w2.pending = << >>
    BY <1>0, <1>1, <1>4, <2>1 DEF Follows, Beside
  <2> HIDE DEF w2, r2, bytes
  <2>9. ASSUME Holds(r, Len(bytes)) PROVE Level(wire, w2, r2) /\ r2.v = c.arg
    <3>1. /\ IsReader(r2) /\ r2.ok = TRUE /\ r2.pos = r.pos + Len(bytes) /\ r2.wire = r.wire
          /\ r2.stack = r.stack /\ r2.v = c.arg /\ r2.last = id /\ r2.bool = r.bool
      BY <2>1, <2>3, <2>7, <2>9 DEF ReadsField
    <3>2. r2.pos = Len(w2.out) + 1 /\ r2.pos \in 1..Len(r2.wire) + 1
      <4>1. Len(w.out) \in Nat /\ Len(r.wire) \in Nat
        BY <1>0, LenProperties DEF CompactWriters, Ready
      <4> QED
        BY <1>0, <2>6, <2>9, <3>1, <4>1 DEF Holds
    <3> QED
      BY <1>0, <2>8, <3>1, <3>2 DEF Level, Ready
  <2>10. ~ Holds(r, Len(bytes)) => r2.ok = FALSE
    BY <2>7 DEF ReadsField
  <2>11. r2.v = c.arg => Back(r2.v, c)
    BY <1>4 DEF Back
  <2> QED
    BY <2>9, <2>10, <2>11 DEF w2, r2, bytes
<1>5. c.op \in {"message", "struct", "structEnd", "field", "bool", "stop", "list", "i16", "i32",
                "i64", "double", "string", "binary"}
  BY DEF ProtocolCalls
<1> QED
  BY <1>2, <1>3, <1>4, <1>5

(* The header of a boolean field goes on the wire with the value: the call *)
(* after it writes what the reader has by then.                            *)
Ahead(wire, w2, r2, w3, c, d) ==
  /\ w2 \in CompactWriters /\ w2.pending = <<c.arg.id>> /\ w3 = CompactCall(w2, d)
  /\ w3 \in CompactWriters /\ w3.pending = << >>
  /\ Ready(r2) /\ r2.wire = wire /\ r2.pos = Len(w3.out) + 1 /\ r2.stack = w3.stack /\ r2.last = w3.last
  /\ r2.bool = <<d.arg>>

LEMMA CompactBoolHeader ==
  ASSUME NEW wire, NEW w, NEW r, Level(wire, w, r), NEW c \in ProtocolCalls, BoolField(c),
         NEW d \in ProtocolCalls, d.op = "bool",
         Agrees(r, CompactBytes(CompactCall(w, c), d))
  PROVE  LET w2 == CompactCall(w, c)
             r2 == CompactGet(r, Asked(c))
             bytes == CompactBytes(w2, d)
         IN  IF Holds(r, Len(bytes)) THEN Ahead(wire, w2, r2, CompactCall(w2, d), c, d) /\ Back(r2.v, c)
             ELSE r2.ok = FALSE
<1> DEFINE w2 == CompactCall(w, c)
           w3 == CompactCall(w2, d)
           r2 == CompactGet(r, Asked(c))
           bytes == CompactBytes(w2, d)
           nibble == IF d.arg THEN 1 ELSE 2
<1>0. w \in CompactWriters /\ w.pending = << >> /\ Ready(r) /\ r.bool = << >> /\ r.last \in Int
      /\ r.wire = wire /\ r.pos = Len(w.out) + 1 /\ r.stack = w.stack /\ r.last = w.last
  BY DEF Level, CompactWriters
<1>1. PICK id \in Int : c.arg = [type |-> "BOOL", id |-> id]
  BY DEF BoolField, ProtocolCalls, Numbers
<1>2. c.op = "field" /\ Asked(c) = "field"
  BY DEF BoolField, Asked
<1>3. Follows(w2, w, CompactBytes(w, c)) /\ Beside(w2, w.stack, w.last, <<id>>)
  BY <1>0, <1>1, <1>2, CompactWrites
<1>4. w2 \in CompactWriters /\ w2.out = w.out /\ w2.stack = w.stack /\ w2.last = w.last /\ w2.pending = <<id>>
  <2>1. CompactBytes(w, c) = << >>
    BY <1>1, <1>2 DEF CompactBytes
  <2> QED
    BY <1>0, <1>3, <2>1, ConcatEmptySeq DEF Follows, Beside, CompactWriters
<1> HIDE DEF w2
<1>5. w2.pending # << >> /\ w2.pending[1] = id
  BY <1>4
<1>6. Follows(w3, w2, bytes) /\ Beside(w3, w2.stack, id, << >>)
  BY <1>4, <1>5, CompactWrites
<1>7. bytes = HeaderBytes(nibble, id, r.last)
  BY <1>0, <1>4, <1>5 DEF CompactBytes
<1>8. nibble \in 1..12 /\ nibble \in {1, 2} /\ C!KnownNibble(nibble) /\ C!TType(nibble) = "BOOL"
      /\ Boolean(nibble) = <<d.arg>>
  <2>1. d.arg \in BOOLEAN
    BY DEF ProtocolCalls
  <2>2. CASE d.arg = TRUE
    <3>1. nibble = 1
      BY <2>2
    <3> QED
      <4>1. nibble \in 1..12 /\ nibble \in {1, 2} /\ C!KnownNibble(nibble) /\ C!TType(nibble) = "BOOL"
        BY <3>1, BoolNibble
      <4>2. Boolean(nibble) = <<TRUE>>
        BY <3>1 DEF Boolean
      <4>3. <<d.arg>> = <<TRUE>>
        BY <2>2, Zenon
      <4> HIDE DEF nibble
      <4> QED
        BY <4>1, <4>2, <4>3
  <2>3. CASE d.arg = FALSE
    <3>1. nibble = 2
      BY <2>3
    <3> QED
      <4>1. nibble \in 1..12 /\ nibble \in {1, 2} /\ C!KnownNibble(nibble) /\ C!TType(nibble) = "BOOL"
        BY <3>1, BoolNibble
      <4>2. Boolean(nibble) = <<FALSE>>
        <5>1. nibble # 1
          BY <3>1
        <5> HIDE DEF nibble
        <5> QED
          BY <5>1 DEF Boolean
      <4>3. <<d.arg>> = <<FALSE>>
        BY <2>3, Zenon
      <4> HIDE DEF nibble
      <4> QED
        BY <4>1, <4>2, <4>3
  <2> QED
    BY <2>1, <2>2, <2>3
<1>9. r2 = C!ReadFieldBegin(r)
  BY <1>2 DEF CompactGet
<1>10. Agrees(r, bytes)
  BY DEF w2
<1> HIDE DEF nibble, r2
<1>11. ReadsField(r2, r, Len(bytes), nibble, id)
  BY <1>0, <1>7, <1>8, <1>9, <1>10, FieldReads
<1>12. Len(bytes) \in Nat /\ Len(w3.out) = Len(w.out) + Len(bytes)
  <2>1. bytes \in Seq(Byte) /\ w.out \in Seq(Byte) /\ w3.out = w.out \o bytes
    BY <1>0, <1>4, <1>6 DEF Follows, CompactWriters
  <2> HIDE DEF bytes, w3
  <2> QED
    BY <2>1, ConcatProperties, LenProperties
<1>13. w3 \in CompactWriters /\ w3.stack = w.stack /\ w3.last = id /\ w3.pending = << >>
  BY <1>4, <1>6 DEF Follows, Beside
<1>14. w3 = CompactCall(w2, d)
  OBVIOUS
<1> HIDE DEF w3, bytes
<1>15. ASSUME Holds(r, Len(bytes)) PROVE Ahead(wire, w2, r2, w3, c, d) /\ r2.v = c.arg
  <2>1. /\ IsReader(r2) /\ r2.ok = TRUE /\ r2.pos = r.pos + Len(bytes) /\ r2.wire = r.wire
        /\ r2.stack = r.stack /\ r2.v = c.arg /\ r2.last = id /\ r2.bool = <<d.arg>>
    BY <1>1, <1>8, <1>11, <1>15 DEF ReadsField
  <2>2. r2.pos = Len(w3.out) + 1 /\ r2.pos \in 1..Len(r2.wire) + 1
    <3>1. Len(w.out) \in Nat /\ Len(r.wire) \in Nat
      BY <1>0, LenProperties DEF CompactWriters, Ready
    <3> QED
      BY <1>0, <1>12, <1>15, <2>1, <3>1 DEF Holds
  <2>3. c.arg.id = id
    BY <1>1
  <2> QED
    BY <1>0, <1>4, <1>13, <1>14, <2>1, <2>2, <2>3 DEF Ahead, Ready
<1>16. ~ Holds(r, Len(bytes)) => r2.ok = FALSE
  BY <1>11 DEF ReadsField
<1>17. r2.v = c.arg => Back(r2.v, c)
  BY <1>2 DEF Back
<1> QED
  BY <1>14, <1>15, <1>16, <1>17 DEF w2, r2, bytes

(* The value then is what the reader has kept, with no more bytes. *)
LEMMA CompactBoolValue ==
  ASSUME NEW wire, NEW w2, NEW r2, NEW w3, NEW c, NEW d, d.op = "bool", Ahead(wire, w2, r2, w3, c, d)
  PROVE  LET r3 == CompactGet(r2, Asked(d)) IN Level(wire, w3, r3) /\ Back(r3.v, d)
<1> DEFINE r3 == CompactGet(r2, Asked(d))
<1>1. Ready(r2) /\ r2.bool # << >> /\ r2.bool[1] = d.arg
  BY DEF Ahead
<1>2. r3 = [r2 EXCEPT !.v = d.arg, !.bool = << >>]
  BY <1>1 DEF CompactGet, Asked, C!ReadBool
<1> HIDE DEF r3
<1>3. /\ Ready(r3) /\ r3.wire = r2.wire /\ r3.pos = r2.pos /\ r3.stack = r2.stack /\ r3.last = r2.last
      /\ r3.bool = << >> /\ r3.v = d.arg
  BY <1>1, <1>2 DEF Ready, IsReader, Fields
<1>4. Level(wire, w3, r3)
  BY <1>3 DEF Level, Ahead
<1> QED
  BY <1>3, <1>4 DEF r3, Back

-----------------------------------------------------------------------------
(* The binary protocol *)

(* A step repeated n times, from a beginning in D and never out of it. *)
IsRun(run, step, d, n) == run = [k \in 0..n |-> IF k = 0 THEN d ELSE step[run[k - 1]]]

LEMMA RunExists ==
  ASSUME NEW D, NEW step \in [D -> D], NEW d \in D
  PROVE  \A n \in Nat : \E run \in [0..n -> D] : IsRun(run, step, d, n)
<1> DEFINE S == {n \in Nat : \E run \in [0..n -> D] : IsRun(run, step, d, n)}
<1>1. 0 \in S
  <2>1. IsRun([k \in 0..0 |-> d], step, d, 0) /\ [k \in 0..0 |-> d] \in [0..0 -> D]
    BY DEF IsRun
  <2> QED
    BY <2>1
<1>2. ASSUME NEW n \in Nat, n \in S PROVE n + 1 \in S
  <2>1. PICK run \in [0..n -> D] : IsRun(run, step, d, n)
    BY <1>2
  <2> DEFINE more == [k \in 0..n + 1 |-> IF k = n + 1 THEN step[run[n]] ELSE run[k]]
  <2>2. \A k \in 0..n + 1 : more[k] = IF k = 0 THEN d ELSE step[more[k - 1]]
    <3> TAKE k \in 0..n + 1
    <3>1. CASE k = n + 1
      BY <3>1
    <3>2. CASE k # n + 1
      <4>1. k \in 0..n /\ (k # 0 => k - 1 \in 0..n /\ k - 1 # n + 1)
        BY <3>2
      <4>2. run[k] = IF k = 0 THEN d ELSE step[run[k - 1]]
        BY <2>1, <4>1 DEF IsRun
      <4> QED
        BY <4>1, <4>2
    <3> QED
      BY <3>1, <3>2
  <2>3. IsRun(more, step, d, n + 1)
    BY <2>2 DEF IsRun
  <2>4. more \in [0..n + 1 -> D]
    <3>1. run[n] \in D /\ step[run[n]] \in D
      OBVIOUS
    <3> QED
      BY <3>1
  <2> QED
    BY <2>3, <2>4
<1> HIDE DEF S
<1>3. Nat \subseteq S
  BY <1>1, <1>2, Induction
<1> QED
  BY <1>3 DEF S

BinaryFields == {"wire", "pos", "ok", "v", "strict"}
IsBinary(r) == DOMAIN r = BinaryFields /\ r = [f \in BinaryFields |-> r[f]]
BinaryReady(r) == IsBinary(r) /\ r.ok = TRUE /\ Placed(r)
BinaryLost(r) == IsBinary(r) /\ r.ok = FALSE

BinaryReads(s, r, n, v) ==
  /\ IsBinary(s)
  /\ IF Holds(r, n) THEN /\ s.ok = TRUE /\ s.pos = r.pos + n /\ s.v = v
                         /\ s.wire = r.wire /\ s.strict = r.strict
     ELSE s.ok = FALSE

(* So many bytes, read as they are. *)
LEMMA BinaryN ==
  ASSUME NEW r, BinaryReady(r), NEW bytes \in Seq(Byte), Agrees(r, bytes)
  PROVE  BinaryReads(B!readAll(r, Len(bytes)), r, Len(bytes), bytes)
<1> DEFINE n == Len(bytes)
           part == SubSeq(r.wire, r.pos, r.pos + n - 1)
           s == B!readAll(r, n)
<1>1. r.pos \in Nat /\ Len(r.wire) \in Nat /\ n \in Nat
  BY LenProperties DEF BinaryReady, Placed
<1>2. Holds(r, n) => part = bytes
  BY PlacedIs DEF BinaryReady
<1>3. s = IF r.pos + n - 1 > Len(r.wire) THEN [[r EXCEPT !.pos = Len(r.wire) + 1] EXCEPT !.ok = FALSE]
          ELSE [r EXCEPT !.pos = r.pos + n, !.v = part]
  BY DEF B!readAll, B!Fail, BinaryReady
<1> HIDE DEF part, s, n
<1>4. CASE Holds(r, n)
  <2>1. s = [r EXCEPT !.pos = r.pos + n, !.v = bytes]
    BY <1>1, <1>2, <1>3, <1>4 DEF Holds
  <2>2. BinaryReads(s, r, n, bytes)
    BY <1>4, <2>1 DEF BinaryReads, BinaryReady, IsBinary, BinaryFields
  <2> QED
    BY <2>2 DEF s, n
<1>5. CASE ~ Holds(r, n)
  <2>1. s = [[r EXCEPT !.pos = Len(r.wire) + 1] EXCEPT !.ok = FALSE]
    BY <1>1, <1>3, <1>5 DEF Holds
  <2>2. BinaryReads(s, r, n, bytes)
    BY <1>5, <2>1 DEF BinaryReads, BinaryReady, IsBinary, BinaryFields
  <2> QED
    BY <2>2 DEF s, n
<1> QED
  BY <1>4, <1>5

LEMMA BinaryResult ==
  ASSUME NEW r, NEW s, NEW n, NEW v, NEW x, BinaryReads(s, r, n, v)
  PROVE  BinaryReads(IF s.ok THEN [s EXCEPT !.v = x] ELSE s, r, n, x)
BY DEF BinaryReads, IsBinary, BinaryFields

LEMMA BinaryFail ==
  ASSUME NEW r, IsBinary(r)
  PROVE  BinaryLost(B!Fail(r))
BY DEF B!Fail, BinaryLost, IsBinary, BinaryFields

LEMMA BinaryOnward ==
  ASSUME NEW r, BinaryReady(r), NEW s, NEW n \in Nat, NEW v, BinaryReads(s, r, n, v), Holds(r, n)
  PROVE  BinaryReady(s) /\ s.wire = r.wire /\ s.pos = r.pos + n /\ s.v = v /\ s.strict = r.strict
<1>1. r.pos \in Nat /\ Len(r.wire) \in Nat /\ r.wire \in Seq(Byte)
  BY LenProperties DEF BinaryReady, Placed
<1>2. r.pos + n \in 1..Len(r.wire) + 1
  BY <1>1 DEF Holds, BinaryReady, Placed
<1>3. IsBinary(s) /\ s.ok = TRUE /\ s.pos = r.pos + n /\ s.v = v /\ s.wire = r.wire /\ s.strict = r.strict
  BY DEF BinaryReads
<1> QED
  BY <1>1, <1>2, <1>3 DEF BinaryReady, Placed

LEMMA BinaryChained ==
  ASSUME NEW r, BinaryReady(r), NEW s, NEW n \in Nat, NEW v, BinaryReads(s, r, n, v),
         NEW t, NEW m \in Nat, NEW w,
         Holds(r, n) => BinaryReads(t, s, m, w),
         ~ Holds(r, n) => BinaryLost(t)
  PROVE  BinaryReads(t, r, n + m, w)
<1>1. r.pos \in Nat /\ Len(r.wire) \in Nat
  BY LenProperties DEF BinaryReady, Placed
<1>2. CASE Holds(r, n)
  <2>1. s.wire = r.wire /\ s.pos = r.pos + n /\ s.strict = r.strict
    BY <1>2 DEF BinaryReads
  <2>2. Holds(s, m) <=> Holds(r, n + m)
    BY <1>1, <2>1 DEF Holds
  <2>3. BinaryReads(t, s, m, w)
    BY <1>2
  <2>4. Holds(s, m) => t.pos = r.pos + (n + m)
    BY <1>1, <2>1, <2>3 DEF BinaryReads
  <2> QED
    BY <2>1, <2>2, <2>3, <2>4 DEF BinaryReads
<1>3. CASE ~ Holds(r, n)
  <2>1. ~ Holds(r, n + m)
    BY <1>1, <1>3 DEF Holds
  <2> QED
    BY <1>3, <2>1 DEF BinaryReads, BinaryLost
<1> QED
  BY <1>2, <1>3

(* s is what becomes of the reader t that has read x after r: it goes on to *)
(* read the rest and has the result v.                                      *)
BinaryContinues(s, t, r, x, rest, v) ==
  /\ BinaryReady(t) /\ t.v = x /\ t.strict = r.strict /\ Agrees(t, rest) => BinaryReads(s, t, Len(rest), v)
  /\ BinaryLost(t) => BinaryLost(s)

LEMMA BinaryThen ==
  ASSUME NEW r, BinaryReady(r), NEW part \in Seq(Byte), NEW rest \in Seq(Byte), Agrees(r, part \o rest),
         NEW t, NEW x, Agrees(r, part) => BinaryReads(t, r, Len(part), x),
         NEW s, NEW v, BinaryContinues(s, t, r, x, rest, v)
  PROVE  BinaryReads(s, r, Len(part \o rest), v)
<1>1. Len(part) \in Nat /\ Len(rest) \in Nat /\ Len(part \o rest) = Len(part) + Len(rest)
  BY ConcatProperties, LenProperties
<1>2. Agrees(r, part) /\ \A q : q.wire = r.wire /\ q.pos = r.pos + Len(part) => Agrees(q, rest)
  BY PlacedConcat DEF BinaryReady
<1>3. BinaryReads(t, r, Len(part), x)
  BY <1>2
<1>4. ASSUME Holds(r, Len(part)) PROVE BinaryReads(s, t, Len(rest), v)
  <2>1. BinaryReady(t) /\ t.wire = r.wire /\ t.pos = r.pos + Len(part) /\ t.v = x /\ t.strict = r.strict
    BY <1>1, <1>3, <1>4, BinaryOnward
  <2>2. Agrees(t, rest)
    BY <1>2, <2>1
  <2> QED
    BY <2>1, <2>2 DEF BinaryContinues
<1>5. ~ Holds(r, Len(part)) => BinaryLost(s)
  BY <1>3 DEF BinaryReads, BinaryLost, BinaryContinues
<1>6. BinaryReads(s, r, Len(part) + Len(rest), v)
  BY <1>1, <1>3, <1>4, <1>5, BinaryChained
<1> QED
  BY <1>1, <1>6

(* Numbers of some bytes, the highest first. *)

LEMMA ShiftedIs ==
  ASSUME NEW n \in Int, NEW width \in Nat \ {0}
  PROVE  /\ B!Shifted(n, width) \in [0..width - 1 -> Int] /\ B!Shifted(n, width)[0] = n
         /\ \A k \in 1..width - 1 : B!Shifted(n, width)[k] = B!Shifted(n, width)[k - 1] \div 256
<1> DEFINE step == [m \in Int |-> m \div 256]
           IsLeft(left) == left = [k \in 0..width - 1 |-> IF k = 0 THEN n ELSE left[k - 1] \div 256]
<1>1. step \in [Int -> Int] /\ width - 1 \in Nat
  OBVIOUS
<1>2. PICK run \in [0..width - 1 -> Int] : IsRun(run, step, n, width - 1)
  BY <1>1, RunExists
<1>3. IsLeft(run)
  <2>1. \A k \in 0..width - 1 : k # 0 => k - 1 \in 0..width - 1 /\ run[k - 1] \in Int
    BY <1>2
  <2>2. \A k \in 0..width - 1 : k # 0 => step[run[k - 1]] = run[k - 1] \div 256
    BY <2>1
  <2>3. run = [k \in 0..width - 1 |-> IF k = 0 THEN n ELSE step[run[k - 1]]]
    BY <1>2 DEF IsRun
  <2> HIDE DEF step
  <2> QED
    BY <2>2, <2>3
<1> DEFINE left == B!Shifted(n, width)
<1>4. IsLeft(left)
  <2>1. left = CHOOSE f : IsLeft(f)
    BY DEF B!Shifted
  <2> HIDE DEF left, IsLeft
  <2> QED
    BY <1>3, <2>1
<1> HIDE DEF left
<1>5. DOMAIN left = 0..width - 1 /\ left[0] = n
      /\ \A k \in 1..width - 1 : left[k] = left[k - 1] \div 256
  <2>1. 0 \in 0..width - 1 /\ \A k \in 1..width - 1 : k \in 0..width - 1 /\ k # 0
    OBVIOUS
  <2> QED
    BY <1>4, <2>1
<1>6. \A k \in 0..width - 1 : left[k] \in Int
  <2> DEFINE S == {k \in Nat : k <= width - 1 => left[k] \in Int}
  <2>1. 0 \in S
    BY <1>5
  <2>2. ASSUME NEW k \in Nat, k \in S PROVE k + 1 \in S
    <3>1. SUFFICES ASSUME k + 1 <= width - 1 PROVE left[k + 1] \in Int
      OBVIOUS
    <3>2. left[k] \in Int /\ k + 1 \in 1..width - 1 /\ (k + 1) - 1 = k
      BY <2>2, <3>1
    <3>3. left[k + 1] = left[k] \div 256
      BY <1>5, <3>2
    <3> QED
      BY <3>2, <3>3
  <2> HIDE DEF S
  <2>3. Nat \subseteq S
    BY <2>1, <2>2, Induction
  <2> QED
    BY <2>3 DEF S
<1>7. left \in [0..width - 1 -> Int]
  <2>1. left = [k \in 0..width - 1 |-> left[k]]
    BY <1>4
  <2> QED
    BY <1>6, <2>1
<1> QED
  BY <1>5, <1>7 DEF left

(* A number is written in bytes, as many as it is wide. *)
LEMMA BigEndianTyped ==
  ASSUME NEW n \in Int, NEW width \in Nat \ {0}
  PROVE  /\ B!BigEndian(n, width) \in Seq(Byte) /\ Len(B!BigEndian(n, width)) = width
         /\ \A k \in 1..width : B!BigEndian(n, width)[k] = (B!Shifted(n, width)[width - k] % 256)
<1> DEFINE left == B!Shifted(n, width)
           bytes == B!BigEndian(n, width)
<1>1. bytes = [k \in 1..width |-> left[width - k] % 256]
  BY DEF B!BigEndian
<1>2. \A k \in 0..width - 1 : left[k] \in Int
  BY ShiftedIs
<1> HIDE DEF left, bytes
<1>3. \A k \in 1..width : (left[width - k] % 256) \in Byte
  <2> TAKE k \in 1..width
  <2>1. width - k \in 0..width - 1
    OBVIOUS
  <2>2. left[width - k] \in Int
    BY <1>2, <2>1
  <2> QED
    BY <2>2 DEF Byte
<1>4. bytes \in [1..width -> Byte]
  BY <1>1, <1>3
<1>5. bytes \in Seq(Byte) /\ Len(bytes) = width
  BY <1>4
<1> QED
  BY <1>1, <1>5 DEF bytes, left

(* A number of two complement is read back. *)
LEMMA SignedBack ==
  ASSUME NEW width \in Nat \ {0}, NEW n \in Numbers(width)
  PROVE  B!Signed(B!BigEndian(n, width)) = n
<1> DEFINE left == B!Shifted(n, width)
           bytes == B!BigEndian(n, width)
           Value(f, k) == IF k = 1 THEN IF bytes[1] >= 128 THEN bytes[1] - 256 ELSE bytes[1]
                          ELSE 256 * f[k - 1] + bytes[k]
           IsUpTo(f) == f = [k \in 1..Len(bytes) |-> Value(f, k)]
           back == [k \in 1..width |-> left[width - k]]
<1>1. n \in Int /\ left[width - 1] \in -128..127
  BY DEF Numbers
<1>2. /\ left \in [0..width - 1 -> Int] /\ left[0] = n
      /\ \A k \in 1..width - 1 : left[k] = left[k - 1] \div 256
  <2>1. n \in Int
    BY <1>1
  <2>2. left \in [0..width - 1 -> Int] /\ left[0] = n
    BY <2>1, ShiftedIs
  <2>3. \A k \in 1..width - 1 : left[k] = left[k - 1] \div 256
    BY <2>1, ShiftedIs
  <2> QED
    BY <2>2, <2>3
<1>3. Len(bytes) = width /\ \A k \in 1..width : bytes[k] = (left[width - k] % 256)
  BY <1>1, BigEndianTyped
<1>4. B!Signed(bytes) = (CHOOSE f : IsUpTo(f))[Len(bytes)]
  BY DEF B!Signed
<1> HIDE DEF left, bytes
<1>5. \A k \in 1..width : back[k] = Value(back, k)
  <2> TAKE k \in 1..width
  <2>1. back[k] = left[width - k] /\ bytes[k] = (left[width - k] % 256)
    BY <1>3
  <2>2. CASE k = 1
    <3>1. \A x \in -128..127 : x = IF (x % 256) >= 128 THEN (x % 256) - 256 ELSE (x % 256)
      OBVIOUS
    <3> HIDE DEF back
    <3> QED
      BY <1>1, <2>1, <2>2, <3>1
  <2>3. CASE k # 1
    <3>1. k - 1 \in 1..width /\ width - (k - 1) \in 1..width - 1 /\ (width - (k - 1)) - 1 = width - k
          /\ width - k \in 0..width - 1
      BY <2>3
    <3>2. back[k - 1] = left[width - (k - 1)]
      BY <3>1
    <3>3. left[width - (k - 1)] = left[width - k] \div 256
      BY <1>2, <3>1
    <3>4. left[width - k] \in Int
      BY <1>2, <3>1
    <3>5. \A x \in Int : x = 256 * (x \div 256) + (x % 256)
      OBVIOUS
    <3> HIDE DEF back
    <3> QED
      BY <2>1, <2>3, <3>2, <3>3, <3>4, <3>5
  <2> QED
    BY <2>2, <2>3
<1>6. IsUpTo(back)
  <2> HIDE DEF Value
  <2> QED
    BY <1>3, <1>5
<1>7. ASSUME NEW f, IsUpTo(f) PROVE f[width] = n
  <2>1. \A k \in 1..width : f[k] = Value(f, k)
    <3> HIDE DEF Value
    <3> QED
      BY <1>3, <1>7
  <2> DEFINE S == {k \in Nat : k + 1 <= width => f[k + 1] = back[k + 1]}
  <2>2. 0 \in S
    <3>1. 1 \in 1..width
      OBVIOUS
    <3>2. f[1] = Value(f, 1) /\ back[1] = Value(back, 1)
      BY <1>5, <2>1, <3>1
    <3>3. Value(f, 1) = Value(back, 1)
      OBVIOUS
    <3> HIDE DEF Value, back
    <3> QED
      BY <3>2, <3>3
  <2>3. ASSUME NEW k \in Nat, k \in S PROVE k + 1 \in S
    <3>1. SUFFICES ASSUME (k + 1) + 1 <= width PROVE f[(k + 1) + 1] = back[(k + 1) + 1]
      OBVIOUS
    <3> DEFINE j == (k + 1) + 1
    <3>2. j \in 1..width /\ j # 1 /\ j - 1 = k + 1 /\ k + 1 <= width
      BY <3>1
    <3>3. f[k + 1] = back[k + 1]
      BY <2>3, <3>2
    <3>4. f[j] = Value(f, j) /\ back[j] = Value(back, j)
      BY <1>5, <2>1, <3>2
    <3> HIDE DEF j, back
    <3>5. Value(f, j) = Value(back, j)
      BY <3>2, <3>3
    <3> QED
      BY <3>4, <3>5 DEF j
  <2> HIDE DEF S
  <2>4. Nat \subseteq S
    BY <2>2, <2>3, Induction
  <2>5. width - 1 \in S /\ (width - 1) + 1 = width
    BY <2>4
  <2>6. f[width] = back[width]
    BY <2>5 DEF S
  <2>7. back[width] = left[0]
    OBVIOUS
  <2> QED
    BY <1>2, <2>6, <2>7
<1>8. IsUpTo(CHOOSE f : IsUpTo(f))
  <2> HIDE DEF IsUpTo, back
  <2> QED
    BY <1>6
<1>9. B!Signed(bytes) = n
  <2> HIDE DEF IsUpTo
  <2> QED
    BY <1>3, <1>4, <1>7, <1>8
<1> QED
  BY <1>9 DEF bytes

(* Integers of 2, 4 or 8 bytes. *)
LEMMA BinaryIntReads ==
  ASSUME NEW r, BinaryReady(r), NEW width \in Nat \ {0}, NEW n \in Numbers(width),
         Agrees(r, B!BigEndian(n, width))
  PROVE  BinaryReads(B!ReadInt(r, width), r, Len(B!BigEndian(n, width)), n)
<1> DEFINE bytes == B!BigEndian(n, width)
           t == B!readAll(r, width)
           s == B!ReadInt(r, width)
<1>1. bytes \in Seq(Byte) /\ Len(bytes) = width
  BY BigEndianTyped DEF Numbers
<1>2. BinaryReads(t, r, Len(bytes), bytes)
  <2> HIDE DEF bytes
  <2>1. BinaryReads(B!readAll(r, Len(bytes)), r, Len(bytes), bytes)
    BY <1>1, BinaryN DEF bytes
  <2> QED
    BY <1>1, <2>1
<1>3. s = IF t.ok THEN [t EXCEPT !.v = B!Signed(t.v)] ELSE t
  BY DEF B!ReadInt, B!Result
<1>4. B!Signed(bytes) = n
  BY SignedBack
<1> HIDE DEF bytes, t, s
<1>5. (t.ok = TRUE /\ t.v = bytes) \/ t.ok = FALSE
  BY <1>2 DEF BinaryReads
<1>6. s = IF t.ok THEN [t EXCEPT !.v = n] ELSE t
  BY <1>3, <1>4, <1>5
<1>7. BinaryReads(s, r, Len(bytes), n)
  BY <1>2, <1>6, BinaryResult
<1> QED
  BY <1>7 DEF bytes, s

LEMMA OneByte ==
  ASSUME NEW n \in 0..127
  PROVE  n \in Numbers(1) /\ B!BigEndian(n, 1) = <<n>>
<1>1. B!Shifted(n, 1)[0] = n
  BY ShiftedIs
<1>2. B!BigEndian(n, 1) = [k \in 1..1 |-> B!Shifted(n, 1)[1 - k] % 256]
  BY DEF B!BigEndian
<1>3. (n % 256) = n /\ \A k \in 1..1 : 1 - k = 0
  OBVIOUS
<1>4. B!BigEndian(n, 1) = [k \in 1..1 |-> n]
  BY <1>1, <1>2, <1>3
<1> QED
  BY <1>1, <1>4 DEF Numbers

LEMMA Smaller ==
  ASSUME NEW m \in Sizes, NEW n \in Nat, n <= m
  PROVE  n \in Sizes
<1>1. \A x \in Nat : B!Shifted(x, 4)[3] = ((x \div 256) \div 256) \div 256
  <2> TAKE x \in Nat
  <2>1. 1 \in 1..4 - 1 /\ 2 \in 1..4 - 1 /\ 3 \in 1..4 - 1 /\ 4 \in Nat \ {0} /\ x \in Int
    OBVIOUS
  <2> DEFINE left == B!Shifted(x, 4)
  <2>2. left[0] = x /\ \A k \in 1..4 - 1 : left[k] = left[k - 1] \div 256
    BY <2>1, ShiftedIs
  <2> HIDE DEF left
  <2>3. left[3] = left[2] \div 256 /\ left[2] = left[1] \div 256 /\ left[1] = left[0] \div 256
    BY <2>1, <2>2
  <2> QED
    BY <2>2, <2>3 DEF left
<1>2. m \in Nat /\ B!Shifted(m, 4)[3] \in -128..127
  BY DEF Sizes, Numbers
<1>3. \A x, y \in Nat : x <= y => x \div 256 \in Nat /\ y \div 256 \in Nat /\ x \div 256 <= y \div 256
  OBVIOUS
<1> DEFINE down(x) == ((x \div 256) \div 256) \div 256
<1>4. down(n) \in Nat /\ down(n) <= down(m)
  BY <1>2, <1>3
<1>5. down(m) \in -128..127 /\ B!Shifted(n, 4)[3] = down(n)
  BY <1>1, <1>2
<1> HIDE DEF down
<1>6. B!Shifted(n, 4)[3] \in -128..127
  BY <1>4, <1>5
<1>7. 4 - 1 = 3
  OBVIOUS
<1> QED
  BY <1>6, <1>7 DEF Sizes, Numbers

Counted4(s) == B!BigEndian(Len(s), 4) \o s

LEMMA CountedTyped ==
  ASSUME NEW s \in ByteStrings
  PROVE  /\ s \in Seq(Byte) /\ Len(s) \in Sizes /\ Len(s) \in 0..MaxMessageSize
         /\ B!BigEndian(Len(s), 4) \in Seq(Byte) /\ Counted4(s) \in Seq(Byte)
<1>1. s \in Seq(Byte) /\ Len(s) <= MaxMessageSize /\ Len(s) \in Nat
  BY LenProperties DEF ByteStrings
<1>2. Len(s) \in Sizes
  BY <1>1, MessageSizeAssumption, Smaller
<1>3. Len(s) \in Int /\ 4 \in Nat \ {0}
  BY <1>1
<1>4. B!BigEndian(Len(s), 4) \in Seq(Byte)
  BY <1>3, BigEndianTyped
<1> QED
  BY <1>1, <1>2, <1>4, SizeBounds, ConcatProperties DEF Counted4

(* What is read after the size of some bytes. *)
LEMMA BinaryBytesReads ==
  ASSUME NEW r, BinaryReady(r), NEW bytes \in ByteStrings, Agrees(r, Counted4(bytes))
  PROVE  BinaryReads(B!ReadBytes(r), r, Len(Counted4(bytes)), bytes)
<1> DEFINE n == Len(bytes)
           t == B!ReadInt(r, 4)
           s == B!ReadBytes(r)
           head == B!BigEndian(n, 4)
<1>1. bytes \in Seq(Byte) /\ n \in Numbers(4) /\ n \in 0..MaxMessageSize /\ head \in Seq(Byte)
      /\ 4 \in Nat \ {0}
  BY CountedTyped DEF Sizes
<1>2. Agrees(r, head) => BinaryReads(t, r, Len(head), n)
  BY <1>1, BinaryIntReads
<1>3. s = IF t.ok /\ t.v \in 0..MaxMessageSize THEN B!readAll(t, t.v) ELSE B!Fail(t)
  BY DEF B!ReadBytes, B!Sized
<1> HIDE DEF t, s, head
<1>4. BinaryReady(t) /\ t.v = n /\ Agrees(t, bytes) => BinaryReads(s, t, Len(bytes), bytes)
  BY <1>1, <1>3, BinaryN DEF BinaryReady
<1>5. BinaryLost(t) => BinaryLost(s)
  BY <1>3, BinaryFail DEF BinaryLost
<1>6. BinaryContinues(s, t, r, n, bytes, bytes)
  BY <1>4, <1>5 DEF BinaryContinues
<1>7. Agrees(r, head \o bytes)
  BY DEF Counted4, head
<1>8. BinaryReads(s, r, Len(head \o bytes), bytes)
  BY <1>1, <1>2, <1>6, <1>7, BinaryThen
<1> QED
  BY <1>8 DEF Counted4, head, s

LEMMA BinaryBoolReads ==
  ASSUME NEW r, BinaryReady(r), NEW b \in BOOLEAN, Agrees(r, <<IF b THEN 1 ELSE 0>>)
  PROVE  BinaryReads(B!ReadBool(r), r, 1, b)
<1> DEFINE x == IF b THEN 1 ELSE 0
           bytes == <<x>>
           t == B!readAll(r, 1)
           s == B!ReadBool(r)
<1>1. bytes \in Seq(Byte) /\ Len(bytes) = 1 /\ bytes[1] = x
  BY DEF Byte
<1>2. s = IF t.ok THEN [t EXCEPT !.v = (t.v[1] = 1)] ELSE t
  BY DEF B!ReadBool, B!Result
<1>3. BinaryReads(t, r, 1, bytes)
  <2> HIDE DEF bytes
  <2>1. BinaryReads(B!readAll(r, Len(bytes)), r, Len(bytes), bytes)
    BY <1>1, BinaryN DEF bytes
  <2> QED
    BY <1>1, <2>1
<1> HIDE DEF bytes, t, s
<1>4. CASE Holds(r, 1)
  <2>1. t.ok = TRUE /\ (t.v[1] = 1) = b
    BY <1>1, <1>3, <1>4 DEF BinaryReads
  <2>2. BinaryReads(IF t.ok THEN [t EXCEPT !.v = b] ELSE t, r, 1, b)
    BY <1>3, BinaryResult
  <2>3. BinaryReads(s, r, 1, b)
    BY <1>2, <2>1, <2>2
  <2> QED
    BY <2>3 DEF s
<1>5. CASE ~ Holds(r, 1)
  <2>1. IsBinary(t) /\ t.ok = FALSE /\ s = t
    BY <1>2, <1>3, <1>5 DEF BinaryReads
  <2>2. BinaryReads(s, r, 1, b)
    BY <1>5, <2>1 DEF BinaryReads
  <2> QED
    BY <2>2 DEF s
<1> QED
  BY <1>4, <1>5

LEMMA ReversedBack ==
  ASSUME NEW d \in Seq(Byte)
  PROVE  B!Reversed(d) \in Seq(Byte) /\ Len(B!Reversed(d)) = Len(d) /\ B!Reversed(B!Reversed(d)) = d
<1> DEFINE n == Len(d)
           e == B!Reversed(d)
<1>1. n \in Nat /\ d = [i \in 1..n |-> d[i]] /\ \A i \in 1..n : d[i] \in Byte
  BY LenProperties
<1>2. e = [i \in 1..n |-> d[n + 1 - i]]
  BY DEF B!Reversed
<1> HIDE DEF n, e
<1>3. \A i \in 1..n : n + 1 - i \in 1..n /\ n + 1 - (n + 1 - i) = i
  BY <1>1
<1>4. e \in [1..n -> Byte]
  BY <1>1, <1>2, <1>3
<1>5. e \in Seq(Byte) /\ Len(e) = n
  BY <1>1, <1>4
<1>6. B!Reversed(e) = [i \in 1..n |-> e[n + 1 - i]]
  BY <1>5 DEF B!Reversed
<1>7. \A i \in 1..n : e[n + 1 - i] = d[i]
  BY <1>2, <1>3
<1> QED
  BY <1>1, <1>5, <1>6, <1>7 DEF e, n

(* A double, its bytes in the other order. *)
LEMMA BinaryDoubleReads ==
  ASSUME NEW r, BinaryReady(r), NEW d \in Seq(Byte), Len(d) = 8, Agrees(r, B!Reversed(d))
  PROVE  BinaryReads(B!ReadDouble(r), r, Len(B!Reversed(d)), d)
<1> DEFINE bytes == B!Reversed(d)
           t == B!readAll(r, 8)
           s == B!ReadDouble(r)
<1>1. bytes \in Seq(Byte) /\ Len(bytes) = 8 /\ B!Reversed(bytes) = d
  BY ReversedBack
<1>2. s = IF t.ok THEN [t EXCEPT !.v = B!Reversed(t.v)] ELSE t
  BY DEF B!ReadDouble, B!Result
<1>3. BinaryReads(t, r, 8, bytes)
  <2> HIDE DEF bytes
  <2>1. BinaryReads(B!readAll(r, Len(bytes)), r, Len(bytes), bytes)
    BY <1>1, BinaryN DEF bytes
  <2> QED
    BY <1>1, <2>1
<1> HIDE DEF bytes, t, s
<1>4. (t.ok = TRUE /\ t.v = bytes) \/ t.ok = FALSE
  BY <1>3 DEF BinaryReads
<1>5. s = IF t.ok THEN [t EXCEPT !.v = d] ELSE t
  BY <1>1, <1>2, <1>4
<1>6. BinaryReads(s, r, 8, d)
  BY <1>3, <1>5, BinaryResult
<1> QED
  BY <1>1, <1>6 DEF s, bytes

LEMMA TypeCodes ==
  ASSUME NEW type \in WireTypes
  PROVE  /\ B!TypeCode[type] \in 0..127 /\ B!TypeCode[type] # B!TypeCode.STOP
         /\ B!TType(B!TypeCode[type]) = type
<1>1. type \in DOMAIN B!TypeCode /\ type # "STOP"
  BY DEF WireTypes, C!CompactType, B!TypeCode
<1>2. B!TypeCode[type] \in 0..127 /\ B!TypeCode[type] # B!TypeCode.STOP
  BY <1>1 DEF B!TypeCode
<1>3. \A u \in DOMAIN B!TypeCode : B!TypeCode[u] = B!TypeCode[type] => u = type
  BY <1>1 DEF B!TypeCode
<1>4. B!TType(B!TypeCode[type]) = type
  BY <1>1, <1>3 DEF B!TType
<1> QED
  BY <1>2, <1>4

LEMMA StopCode == B!TypeCode.STOP = 0 /\ B!TType(0) = "STOP"
<1>1. "STOP" \in DOMAIN B!TypeCode /\ B!TypeCode["STOP"] = 0
      /\ \A u \in DOMAIN B!TypeCode : B!TypeCode[u] = 0 => u = "STOP"
  BY DEF B!TypeCode
<1>2. B!TType(0) = "STOP"
  BY <1>1 DEF B!TType
<1> QED
  BY <1>1, <1>2

LEMMA BinaryByteReads ==
  ASSUME NEW r, BinaryReady(r), NEW n \in 0..127, Agrees(r, <<n>>)
  PROVE  BinaryReads(B!ReadInt(r, 1), r, 1, n)
<1>1. n \in Numbers(1) /\ B!BigEndian(n, 1) = <<n>> /\ 1 \in Nat \ {0} /\ Len(<<n>>) = 1
  BY OneByte
<1>2. Agrees(r, B!BigEndian(n, 1))
  BY <1>1
<1>3. BinaryReads(B!ReadInt(r, 1), r, Len(B!BigEndian(n, 1)), n)
  BY <1>1, <1>2, BinaryIntReads
<1> QED
  BY <1>1, <1>3

(* The header of a field. *)
LEMMA BinaryFieldReads ==
  ASSUME NEW r, BinaryReady(r), NEW type \in WireTypes, NEW id \in Numbers(2),
         Agrees(r, <<B!TypeCode[type]>> \o B!BigEndian(id, 2))
  PROVE  BinaryReads(B!ReadFieldBegin(r), r, Len(<<B!TypeCode[type]>> \o B!BigEndian(id, 2)),
                     [type |-> type, id |-> id])
<1> DEFINE code == B!TypeCode[type]
           rest == B!BigEndian(id, 2)
           t == B!ReadInt(r, 1)
           i == B!ReadInt(t, 2)
           s == B!ReadFieldBegin(r)
           f == [type |-> type, id |-> id]
<1>1. code \in 0..127 /\ code # B!TypeCode.STOP /\ B!TType(code) = type
  BY TypeCodes
<1>2. 2 \in Nat \ {0} /\ id \in Int
  BY DEF Numbers
<1>3. rest \in Seq(Byte)
  BY <1>2, BigEndianTyped
<1>4. s = IF t.ok = FALSE THEN [t EXCEPT !.v = [type |-> "STOP", id |-> 0]]
          ELSE B!Field(t.v, IF t.v = B!TypeCode.STOP THEN [t EXCEPT !.v = 0] ELSE i)
  BY DEF B!ReadFieldBegin, B!Header
<1>5. B!Field(code, i) = [i EXCEPT !.v = [type |-> B!TType(code), id |-> IF i.ok THEN i.v ELSE 0]]
  BY DEF B!Field
<1>6. BinaryReady(t) /\ Agrees(t, rest) => BinaryReads(i, t, Len(rest), id)
  BY <1>2, BinaryIntReads
<1> HIDE DEF code, rest, i, s, f
<1>7. Agrees(r, <<code>>) => BinaryReads(t, r, Len(<<code>>), code)
  <2>1. Len(<<code>>) = 1
    OBVIOUS
  <2> QED
    BY <1>1, <2>1, BinaryByteReads
<1> HIDE DEF t
<1>8. ASSUME BinaryReady(t), t.v = code, Agrees(t, rest) PROVE BinaryReads(s, t, Len(rest), f)
  <2>1. BinaryReads(i, t, Len(rest), id)
    BY <1>6, <1>8
  <2>2. s = [i EXCEPT !.v = [type |-> type, id |-> IF i.ok THEN i.v ELSE 0]]
    BY <1>1, <1>4, <1>5, <1>8 DEF BinaryReady
  <2>3. CASE Holds(t, Len(rest))
    <3>1. i.ok = TRUE /\ i.v = id
      BY <2>1, <2>3 DEF BinaryReads
    <3>2. s = IF i.ok THEN [i EXCEPT !.v = f] ELSE i
      BY <2>2, <3>1 DEF f
    <3> QED
      BY <2>1, <3>2, BinaryResult
  <2>4. CASE ~ Holds(t, Len(rest))
    <3>1. IsBinary(i) /\ i.ok = FALSE
      BY <2>1, <2>4 DEF BinaryReads
    <3>2. IsBinary(s) /\ s.ok = FALSE
      BY <2>2, <3>1 DEF IsBinary, BinaryFields
    <3> QED
      BY <2>4, <3>2 DEF BinaryReads
  <2> QED
    BY <2>3, <2>4
<1>9. BinaryLost(t) => BinaryLost(s)
  BY <1>4 DEF BinaryLost, IsBinary, BinaryFields
<1>10. BinaryContinues(s, t, r, code, rest, f)
  BY <1>8, <1>9 DEF BinaryContinues
<1>11. <<code>> \in Seq(Byte) /\ Agrees(r, <<code>> \o rest)
  <2>1. code \in Byte
    BY <1>1 DEF Byte
  <2> QED
    BY <2>1 DEF code, rest
<1>12. BinaryReads(s, r, Len(<<code>> \o rest), f)
  BY <1>3, <1>7, <1>10, <1>11, BinaryThen
<1> QED
  BY <1>12 DEF code, rest, s, f

LEMMA BinaryStopReads ==
  ASSUME NEW r, BinaryReady(r), Agrees(r, << 0 >>)
  PROVE  BinaryReads(B!ReadFieldBegin(r), r, 1, [type |-> "STOP", id |-> 0])
<1> DEFINE t == B!ReadInt(r, 1)
           s == B!ReadFieldBegin(r)
           f == [type |-> "STOP", id |-> 0]
<1>1. s = IF t.ok = FALSE THEN [t EXCEPT !.v = f]
          ELSE B!Field(t.v, IF t.v = 0 THEN [t EXCEPT !.v = 0] ELSE B!ReadInt(t, 2))
  BY StopCode DEF B!ReadFieldBegin, B!Header
<1>2. BinaryReads(t, r, 1, 0)
  BY BinaryByteReads
<1> HIDE DEF t, s, f
<1>3. CASE Holds(r, 1)
  <2>1. IsBinary(t) /\ t.ok = TRUE /\ t.v = 0
    BY <1>2, <1>3 DEF BinaryReads
  <2> DEFINE u == [t EXCEPT !.v = 0]
  <2>2. s = B!Field(0, u)
    BY <1>1, <2>1
  <2>3. u.ok = TRUE /\ u.v = 0 /\ [u EXCEPT !.v = f] = [t EXCEPT !.v = f]
    BY <2>1 DEF IsBinary, BinaryFields
  <2> HIDE DEF u
  <2>4. B!Field(0, u) = [u EXCEPT !.v = f]
    BY <2>3, StopCode DEF B!Field, f
  <2>5. s = IF t.ok THEN [t EXCEPT !.v = f] ELSE t
    BY <2>1, <2>2, <2>3, <2>4
  <2>6. BinaryReads(s, r, 1, f)
    BY <1>2, <2>5, BinaryResult
  <2> QED
    BY <2>6 DEF s, f
<1>4. CASE ~ Holds(r, 1)
  <2>1. IsBinary(t) /\ t.ok = FALSE
    BY <1>2, <1>4 DEF BinaryReads
  <2>2. s = [t EXCEPT !.v = f]
    BY <1>1, <2>1
  <2>3. IsBinary(s) /\ s.ok = FALSE
    BY <2>1, <2>2 DEF IsBinary, BinaryFields
  <2>4. BinaryReads(s, r, 1, f)
    BY <1>4, <2>3 DEF BinaryReads
  <2> QED
    BY <2>4 DEF s, f
<1> QED
  BY <1>3, <1>4

(* The header of a list. *)
LEMMA BinaryListReads ==
  ASSUME NEW r, BinaryReady(r), NEW type \in WireTypes, NEW size \in Sizes,
         Agrees(r, <<B!TypeCode[type]>> \o B!BigEndian(size, 4))
  PROVE  BinaryReads(B!ReadListBegin(r), r, Len(<<B!TypeCode[type]>> \o B!BigEndian(size, 4)),
                     [type |-> type, size |-> size])
<1> DEFINE code == B!TypeCode[type]
           rest == B!BigEndian(size, 4)
           t == B!ReadInt(r, 1)
           n == B!ReadInt(t, 4)
           s == B!ReadListBegin(r)
           f == [type |-> type, size |-> size]
<1>1. code \in 0..127 /\ B!TType(code) = type
  BY TypeCodes
<1>2. 4 \in Nat \ {0} /\ size \in Int /\ size \in Numbers(4) /\ size >= 0
  BY DEF Sizes
<1>3. rest \in Seq(Byte)
  BY <1>2, BigEndianTyped
<1>4. s = IF n.ok /\ n.v >= 0 THEN [n EXCEPT !.v = [type |-> B!TType(t.v), size |-> n.v]] ELSE B!Fail(n)
  BY DEF B!ReadListBegin, B!ListHeader, B!ListOfSize
<1>5. BinaryReady(t) /\ Agrees(t, rest) => BinaryReads(n, t, Len(rest), size)
  BY <1>2, BinaryIntReads
<1>6. BinaryLost(t) => n = t
  BY DEF BinaryLost, B!ReadInt, B!readAll, B!Result
<1> HIDE DEF code, rest, n, s, f
<1>7. Agrees(r, <<code>>) => BinaryReads(t, r, Len(<<code>>), code)
  <2>1. Len(<<code>>) = 1
    OBVIOUS
  <2> QED
    BY <1>1, <2>1, BinaryByteReads
<1> HIDE DEF t
<1>8. ASSUME BinaryReady(t), t.v = code, Agrees(t, rest) PROVE BinaryReads(s, t, Len(rest), f)
  <2>1. BinaryReads(n, t, Len(rest), size)
    BY <1>5, <1>8
  <2>2. CASE Holds(t, Len(rest))
    <3>1. n.ok = TRUE /\ n.v = size
      BY <2>1, <2>2 DEF BinaryReads
    <3>2. s = IF n.ok THEN [n EXCEPT !.v = f] ELSE n
      BY <1>1, <1>2, <1>4, <1>8, <3>1 DEF f
    <3> QED
      BY <2>1, <3>2, BinaryResult
  <2>3. CASE ~ Holds(t, Len(rest))
    BY <1>4, <2>1, <2>3, BinaryFail DEF BinaryReads, BinaryLost
  <2> QED
    BY <2>2, <2>3
<1>9. BinaryLost(t) => BinaryLost(s)
  BY <1>4, <1>6, BinaryFail DEF BinaryLost
<1>10. BinaryContinues(s, t, r, code, rest, f)
  BY <1>8, <1>9 DEF BinaryContinues
<1>11. <<code>> \in Seq(Byte) /\ Agrees(r, <<code>> \o rest)
  <2>1. code \in Byte
    BY <1>1 DEF Byte
  <2> QED
    BY <2>1 DEF code, rest
<1>12. BinaryReads(s, r, Len(<<code>> \o rest), f)
  BY <1>3, <1>7, <1>10, <1>11, BinaryThen
<1> QED
  BY <1>12 DEF code, rest, s, f

(* Messages *)

LEMMA VersionNumber ==
  ASSUME NEW type \in 1..4
  PROVE  \E n \in Numbers(4) : n < 0 /\ B!BigEndian(n, 4) = <<128, 1, 0, type>> /\ (n % 256) = type
<1>1. \A q \in Int, b \in 0..255 : (256 * q + b) \div 256 = q /\ ((256 * q + b) % 256) = b
  OBVIOUS
<1>2. PICK q3 \in Int : q3 = -128
  OBVIOUS
<1>3. PICK q2 \in Int : q2 = 256 * q3 + 1
  OBVIOUS
<1>4. PICK q1 \in Int : q1 = 256 * q2 + 0
  OBVIOUS
<1>5. PICK n \in Int : n = 256 * q1 + type
  OBVIOUS
<1>6. /\ n \div 256 = q1 /\ (n % 256) = type /\ q1 \div 256 = q2 /\ (q1 % 256) = 0
      /\ q2 \div 256 = q3 /\ (q2 % 256) = 1 /\ (q3 % 256) = 128
  <2>1. n \div 256 = q1 /\ (n % 256) = type
    <3>1. type \in 0..255
      OBVIOUS
    <3>2. (256 * q1 + type) \div 256 = q1 /\ ((256 * q1 + type) % 256) = type
      BY <1>1, <3>1
    <3> QED
      BY <1>5, <3>2
  <2>2. q1 \div 256 = q2 /\ (q1 % 256) = 0
    <3>1. 0 \in 0..255 /\ (256 * q2 + 0) \div 256 = q2 /\ ((256 * q2 + 0) % 256) = 0
      OBVIOUS
    <3> QED
      BY <1>4, <3>1
  <2>3. q2 \div 256 = q3 /\ (q2 % 256) = 1
    BY <1>3
  <2>4. (q3 % 256) = 128
    <3>1. \A x \in -128..127 : (x % 256) \in 0..255 /\ x = IF (x % 256) >= 128 THEN (x % 256) - 256 ELSE (x % 256)
      OBVIOUS
    <3>2. q3 \in -128..127
      BY <1>2
    <3>3. (q3 % 256) \in 0..255 /\ q3 = IF (q3 % 256) >= 128 THEN (q3 % 256) - 256 ELSE (q3 % 256)
      BY <3>1, <3>2
    <3> QED
      BY <1>2, <3>3
  <2> QED
    BY <2>1, <2>2, <2>3, <2>4
<1>7. n < 0
  BY <1>2, <1>3, <1>4, <1>5
<1> DEFINE left == B!Shifted(n, 4)
<1>8. left[0] = n /\ left[1] = q1 /\ left[2] = q2 /\ left[3] = q3
  <2>1. 1 \in 1..4 - 1 /\ 2 \in 1..4 - 1 /\ 3 \in 1..4 - 1 /\ 4 \in Nat \ {0}
    OBVIOUS
  <2>2. left[0] = n /\ \A k \in 1..4 - 1 : left[k] = left[k - 1] \div 256
    BY <2>1, ShiftedIs
  <2> HIDE DEF left
  <2>3. left[1] = left[0] \div 256 /\ left[2] = left[1] \div 256 /\ left[3] = left[2] \div 256
    BY <2>1, <2>2
  <2> QED
    BY <1>6, <2>2, <2>3
<1>9. B!BigEndian(n, 4) = [i \in 1..4 |-> left[4 - i] % 256]
  BY DEF B!BigEndian
<1>10. n \in Numbers(4)
  <2>1. left[4 - 1] \in -128..127
    BY <1>2, <1>8
  <2> QED
    BY <2>1 DEF Numbers
<1> HIDE DEF left
<1>11. /\ (left[4 - 1] % 256) = 128 /\ (left[4 - 2] % 256) = 1 /\ (left[4 - 3] % 256) = 0
       /\ (left[4 - 4] % 256) = type
  BY <1>6, <1>8
<1>12. [i \in 1..4 |-> left[4 - i] % 256] = <<128, 1, 0, type>>
  <2>1. \A i \in 1..4 : i = 1 \/ i = 2 \/ i = 3 \/ i = 4
    OBVIOUS
  <2> QED
    BY <1>11, <2>1
<1> QED
  BY <1>6, <1>7, <1>9, <1>10, <1>12

LEMMA BinaryInt4 ==
  ASSUME NEW n \in Numbers(4)
  PROVE  B!BigEndian(n, 4) \in Seq(Byte) /\ Len(B!BigEndian(n, 4)) = 4
<1>1. n \in Int /\ 4 \in Nat \ {0}
  BY DEF Numbers
<1> QED
  BY <1>1, BigEndianTyped

LEMMA LostInt ==
  ASSUME NEW t, BinaryLost(t), NEW width
  PROVE  B!ReadInt(t, width) = t /\ B!ReadBytes(t) = B!Fail(t) /\ B!readAll(t, width) = t
BY DEF BinaryLost, B!ReadInt, B!readAll, B!Result, B!ReadBytes, B!Sized

LEMMA BinarySeqid ==
  ASSUME NEW t, NEW name, NEW type, NEW seqid \in Numbers(4)
  PROVE  LET s == B!Message(name, type, B!ReadInt(t, 4))
             rest == B!BigEndian(seqid, 4)
         IN  /\ BinaryReady(t) /\ Agrees(t, rest) =>
                   BinaryReads(s, t, Len(rest), [name |-> name, type |-> type, seqid |-> seqid])
             /\ BinaryLost(t) => BinaryLost(s)
<1> DEFINE s == B!Message(name, type, B!ReadInt(t, 4))
           rest == B!BigEndian(seqid, 4)
           i == B!ReadInt(t, 4)
           m == [name |-> name, type |-> type, seqid |-> seqid]
<1>1. s = IF i.ok THEN [i EXCEPT !.v = [name |-> name, type |-> type, seqid |-> i.v]] ELSE i
  BY DEF B!Message, B!Result
<1>2. ASSUME BinaryReady(t), Agrees(t, rest) PROVE BinaryReads(s, t, Len(rest), m)
  <2>1. BinaryReads(i, t, Len(rest), seqid)
    BY <1>2, BinaryIntReads
  <2> HIDE DEF s, i, rest, m
  <2>2. (i.ok = TRUE /\ i.v = seqid) \/ i.ok = FALSE
    BY <2>1 DEF BinaryReads
  <2>3. s = IF i.ok THEN [i EXCEPT !.v = m] ELSE i
    BY <1>1, <2>2 DEF m
  <2> QED
    BY <2>1, <2>3, BinaryResult
<1>3. ASSUME BinaryLost(t) PROVE BinaryLost(s)
  <2>1. i = t
    BY <1>3, LostInt
  <2> HIDE DEF s, i
  <2> QED
    BY <1>1, <1>3, <2>1 DEF BinaryLost
<1> QED
  BY <1>2, <1>3

StrictBytes(m) == <<128, 1, 0, m.type>> \o (Counted4(m.name) \o B!BigEndian(m.seqid, 4))

(* The header of a message with its version in front. *)
LEMMA StrictReads ==
  ASSUME NEW r, BinaryReady(r), NEW name \in ByteStrings, NEW type \in 1..4, NEW seqid \in Sizes,
         NEW m, m = [name |-> name, type |-> type, seqid |-> seqid], Agrees(r, StrictBytes(m))
  PROVE  BinaryReads(B!ReadMessageBegin(r), r, Len(StrictBytes(m)), m)
<1> DEFINE head == <<128, 1, 0, type>>
           body == Counted4(name)
           last == B!BigEndian(seqid, 4)
           t == B!ReadInt(r, 4)
           u == B!ReadBytes(t)
           s == B!ReadMessageBegin(r)
           w == B!Message(name, type, B!ReadInt(u, 4))
<1>1. PICK n \in Numbers(4) : n < 0 /\ B!BigEndian(n, 4) = head /\ (n % 256) = type
  BY VersionNumber
<1>2. head \in Seq(Byte) /\ body \in Seq(Byte) /\ last \in Seq(Byte)
  BY <1>1, BinaryInt4, CountedTyped DEF Sizes
<1>3. m.name = name /\ m.type = type /\ m.seqid = seqid
  OBVIOUS
<1>4. StrictBytes(m) = head \o (body \o last)
  BY <1>3 DEF StrictBytes
<1>5. s = IF t.ok = FALSE THEN t
          ELSE IF t.v >= 0 THEN IF t.strict THEN B!Fail(t) ELSE B!OldStyle(B!readAll(t, t.v))
          ELSE IF SubSeq(B!BigEndian(t.v, 4), 1, 2) # <<128, 1>> THEN B!Fail(t)
          ELSE B!NewStyle(t.v % 256, u)
  BY DEF B!ReadMessageBegin, B!SizeOrVersion
<1>6. SubSeq(head, 1, 2) = <<128, 1>>
  <2>1. SubSeq(head, 1, 2) = [i \in 1..2 |-> head[i]]
    <3>1. head \in Seq(Byte) /\ Len(head) = 4
      BY DEF Byte
    <3> HIDE DEF head
    <3> QED
      BY <3>1
  <2>2. head[1] = 128 /\ head[2] = 1
    OBVIOUS
  <2>3. \A i \in 1..2 : i = 1 \/ i = 2
    OBVIOUS
  <2> HIDE DEF head
  <2>4. [i \in 1..2 |-> head[i]] = <<128, 1>>
    BY <2>2, <2>3
  <2> QED
    BY <2>1, <2>4
<1>7. Agrees(r, head) => BinaryReads(t, r, Len(head), n)
  <2>1. BinaryReady(r) /\ Agrees(r, B!BigEndian(n, 4)) => BinaryReads(t, r, Len(B!BigEndian(n, 4)), n)
    BY BinaryIntReads
  <2> HIDE DEF head, t
  <2> QED
    BY <1>1, <2>1
<1>8. BinaryReady(u) /\ Agrees(u, last) => BinaryReads(w, u, Len(last), m)
  BY BinarySeqid DEF Sizes
<1>9. BinaryLost(u) => BinaryLost(B!NewStyle(type, u))
  BY BinarySeqid DEF Sizes, B!NewStyle
<1>10. u.v = name => B!NewStyle(type, u) = w
  BY DEF B!NewStyle
<1>11. BinaryReady(t) /\ Agrees(t, body) => BinaryReads(u, t, Len(body), name)
  BY BinaryBytesReads
<1> HIDE DEF head, body, last, u, w
<1>12. BinaryContinues(B!NewStyle(type, u), u, t, name, last, m)
  BY <1>8, <1>9, <1>10 DEF BinaryContinues
<1>13. BinaryReady(t) /\ Agrees(t, body \o last) => BinaryReads(B!NewStyle(type, u), t, Len(body \o last), m)
  BY <1>2, <1>11, <1>12, BinaryThen
<1>14. BinaryReady(t) /\ t.v = n => s = B!NewStyle(type, u)
  <2>1. SUFFICES ASSUME BinaryReady(t), t.v = n PROVE s = B!NewStyle(type, u)
    OBVIOUS
  <2>2. t.ok = TRUE /\ ~ (t.v >= 0)
    BY <1>1, <2>1 DEF BinaryReady, Numbers
  <2>3. SubSeq(B!BigEndian(t.v, 4), 1, 2) = <<128, 1>>
    BY <1>1, <1>6, <2>1
  <2>4. (t.v % 256) = type
    BY <1>1, <2>1
  <2> HIDE DEF s, t
  <2> QED
    BY <1>5, <2>2, <2>3, <2>4
<1>15. BinaryLost(t) => s = t
  BY <1>5 DEF BinaryLost
<1> HIDE DEF s, t
<1>16. BinaryContinues(s, t, r, n, body \o last, m)
  BY <1>13, <1>14, <1>15 DEF BinaryContinues
<1>17. body \o last \in Seq(Byte) /\ Agrees(r, head \o (body \o last))
  BY <1>2, <1>4, ConcatProperties
<1>18. BinaryReads(s, r, Len(head \o (body \o last)), m)
  BY <1>2, <1>7, <1>16, <1>17, BinaryThen
<1> QED
  BY <1>4, <1>18 DEF s

LaxBytes(m) ==
  B!BigEndian(Len(m.name), 4) \o (m.name \o (<<m.type>> \o B!BigEndian(m.seqid, 4)))

(* The header of a message without a version. *)
LEMMA LaxReads ==
  ASSUME NEW r, BinaryReady(r), r.strict = FALSE,
         NEW name \in ByteStrings, NEW type \in 1..4, NEW seqid \in Sizes,
         NEW m, m = [name |-> name, type |-> type, seqid |-> seqid], Agrees(r, LaxBytes(m))
  PROVE  BinaryReads(B!ReadMessageBegin(r), r, Len(LaxBytes(m)), m)
<1> DEFINE n == Len(name)
           head == B!BigEndian(n, 4)
           last == B!BigEndian(seqid, 4)
           t == B!ReadInt(r, 4)
           u == B!readAll(t, n)
           v == B!ReadInt(u, 1)
           s == B!ReadMessageBegin(r)
           w == B!Message(name, type, B!ReadInt(v, 4))
<1>1. /\ head \in Seq(Byte) /\ name \in Seq(Byte) /\ last \in Seq(Byte) /\ <<type>> \in Seq(Byte)
      /\ n \in Numbers(4) /\ n \in Nat
  <2>1. <<type>> \in Seq(Byte)
    BY DEF Byte
  <2> QED
    BY <2>1, BinaryInt4, CountedTyped DEF Sizes
<1>2. m.name = name /\ m.type = type /\ m.seqid = seqid
  OBVIOUS
<1>3. LaxBytes(m) = head \o (name \o (<<type>> \o last))
  BY <1>2 DEF LaxBytes
<1>4. s = IF t.ok = FALSE THEN t
          ELSE IF t.v >= 0 THEN IF t.strict THEN B!Fail(t) ELSE B!OldStyle(B!readAll(t, t.v))
          ELSE IF SubSeq(B!BigEndian(t.v, 4), 1, 2) # <<128, 1>> THEN B!Fail(t)
          ELSE B!NewStyle(t.v % 256, B!ReadBytes(t))
  BY DEF B!ReadMessageBegin, B!SizeOrVersion
<1>5. Agrees(r, head) => BinaryReads(t, r, Len(head), n)
  BY <1>1, BinaryIntReads
<1>6. BinaryReady(t) /\ Agrees(t, name) => BinaryReads(u, t, Len(name), name)
  BY <1>1, BinaryN
<1>7. BinaryReady(u) /\ Agrees(u, <<type>>) => BinaryReads(v, u, Len(<<type>>), type)
  <2>1. type \in 0..127 /\ Len(<<type>>) = 1
    OBVIOUS
  <2> QED
    BY <2>1, BinaryByteReads
<1>8. BinaryReady(v) /\ Agrees(v, last) => BinaryReads(w, v, Len(last), m)
  BY BinarySeqid DEF Sizes
<1>9. \A x : BinaryLost(v) => BinaryLost(B!Message(x, v.v, B!ReadInt(v, 4)))
  BY BinarySeqid DEF Sizes
<1>10. B!OldStyle(u) = B!Message(u.v, v.v, B!ReadInt(v, 4))
  BY DEF B!OldStyle, B!TypeOfOld
<1>11. u.v = name /\ v.v = type => B!OldStyle(u) = w
  BY <1>10
<1>12. BinaryLost(u) => v = u
  BY LostInt
<1>13. t.v = n => u = B!readAll(t, t.v)
  OBVIOUS
<1> DEFINE o == B!Message(u.v, v.v, B!ReadInt(v, 4))
<1>14. u.v = name /\ v.v = type => o = w
  OBVIOUS
<1>15. BinaryLost(v) => BinaryLost(o)
  BY <1>9
<1> HIDE DEF head, last, v, w, o
<1>16. ASSUME u.v = name PROVE BinaryContinues(o, v, u, type, last, m)
  BY <1>8, <1>14, <1>15, <1>16 DEF BinaryContinues
<1>17. ASSUME BinaryReady(u), u.v = name, Agrees(u, <<type>> \o last)
       PROVE  BinaryReads(o, u, Len(<<type>> \o last), m)
  <2> HIDE DEF u
  <2> QED
    BY <1>1, <1>7, <1>16, <1>17, BinaryThen
<1>18. BinaryLost(u) => BinaryLost(o)
  BY <1>12, <1>15
<1> DEFINE rest == <<type>> \o last
<1>19. rest \in Seq(Byte) /\ name \o rest \in Seq(Byte)
  <2>1. rest \in Seq(Byte)
    BY <1>1, ConcatProperties
  <2> HIDE DEF rest
  <2> QED
    BY <1>1, <2>1, ConcatProperties
<1>20. BinaryContinues(o, u, t, name, rest, m)
  <2> HIDE DEF u
  <2> QED
    BY <1>17, <1>18 DEF BinaryContinues
<1> HIDE DEF rest, u
<1>21. BinaryReady(t) /\ Agrees(t, name \o rest) => BinaryReads(o, t, Len(name \o rest), m)
  BY <1>1, <1>6, <1>19, <1>20, BinaryThen
<1>22. BinaryReady(t) /\ t.v = n /\ t.strict = r.strict => s = o
  <2>1. SUFFICES ASSUME BinaryReady(t), t.v = n, t.strict = FALSE PROVE s = o
    OBVIOUS
  <2>2. t.ok = TRUE /\ t.v >= 0
    BY <1>1, <2>1 DEF BinaryReady
  <2>3. s = B!OldStyle(B!readAll(t, t.v))
    BY <1>4, <2>1, <2>2
  <2>4. u = B!readAll(t, t.v)
    BY <1>13, <2>1
  <2>5. s = B!OldStyle(u)
    BY <2>3, <2>4
  <2> QED
    BY <1>10, <2>5 DEF o
<1>23. BinaryLost(t) => s = t
  BY <1>4 DEF BinaryLost
<1> HIDE DEF s, t
<1>24. BinaryContinues(s, t, r, n, name \o rest, m)
  BY <1>21, <1>22, <1>23 DEF BinaryContinues
<1>25. Agrees(r, head \o (name \o rest))
  BY <1>3 DEF rest
<1>26. BinaryReads(s, r, Len(head \o (name \o rest)), m)
  BY <1>1, <1>5, <1>19, <1>24, <1>25, BinaryThen
<1> QED
  BY <1>3, <1>26 DEF s, rest

-----------------------------------------------------------------------------
(* One call, of both sides *)

BinaryWriters == [out : Seq(Byte), strict : BOOLEAN]

BinaryBytes(w, c) ==
  CASE c.op = "message" -> IF w.strict THEN StrictBytes(c.arg) ELSE LaxBytes(c.arg)
    [] c.op \in {"struct", "structEnd"} -> << >>
    [] c.op = "field" -> <<B!TypeCode[c.arg.type]>> \o B!BigEndian(c.arg.id, 2)
    [] c.op = "stop" -> <<0>>
    [] c.op = "list" -> <<B!TypeCode[c.arg.type]>> \o B!BigEndian(c.arg.size, 4)
    [] c.op = "bool" -> <<IF c.arg THEN 1 ELSE 0>>
    [] c.op \in {"i16", "i32", "i64"} -> B!BigEndian(c.arg, Width[c.op])
    [] c.op = "double" -> B!Reversed(c.arg)
    [] c.op \in {"string", "binary"} -> Counted4(c.arg)

BinaryFollows(w2, w, bytes) ==
  /\ w2 \in BinaryWriters /\ bytes \in Seq(Byte)
  /\ w2.out = w.out \o bytes /\ w2.strict = w.strict

LEMMA BinaryPut ==
  ASSUME NEW w \in BinaryWriters, NEW bytes \in Seq(Byte)
  PROVE  BinaryFollows(B!Put(w, bytes), w, bytes)
<1>1. w.out \o bytes \in Seq(Byte)
  BY ConcatProperties DEF BinaryWriters
<1> QED
  BY <1>1 DEF B!Put, BinaryWriters, BinaryFollows

LEMMA BinaryPutAgain ==
  ASSUME NEW w \in BinaryWriters, NEW v, NEW s \in Seq(Byte), BinaryFollows(v, w, s), NEW t \in Seq(Byte)
  PROVE  BinaryFollows(B!Put(v, t), w, s \o t)
<1>1. BinaryFollows(B!Put(v, t), v, t)
  BY BinaryPut DEF BinaryFollows
<1>2. (w.out \o s) \o t = w.out \o (s \o t)
  BY ConcatAssociative DEF BinaryWriters
<1>3. s \o t \in Seq(Byte)
  BY ConcatProperties
<1> QED
  BY <1>1, <1>2, <1>3 DEF BinaryFollows

LEMMA StrictWrites ==
  ASSUME NEW w \in BinaryWriters, w.strict = TRUE,
         NEW name \in ByteStrings, NEW type \in 1..4, NEW seqid \in Sizes,
         NEW m, m = [name |-> name, type |-> type, seqid |-> seqid]
  PROVE  BinaryFollows(B!WriteMessageBegin(w, name, type, seqid), w, StrictBytes(m))
<1> DEFINE head == <<128, 1, 0, type>>
           body == Counted4(name)
           last == B!BigEndian(seqid, 4)
           w1 == B!Put(w, head)
           w2 == B!Put(w1, body)
           w3 == B!Put(w2, last)
<1>1. head \in Seq(Byte) /\ body \in Seq(Byte) /\ last \in Seq(Byte)
  <2>1. head \in Seq(Byte)
    BY DEF Byte
  <2> QED
    BY <2>1, BinaryInt4, CountedTyped DEF Sizes
<1>2. B!WriteMessageBegin(w, name, type, seqid) = w3
  BY DEF B!WriteMessageBegin, B!WriteInt, B!WriteBytes, Counted4
<1>3. StrictBytes(m) = head \o (body \o last)
  BY DEF StrictBytes
<1> HIDE DEF head, body, last
<1>4. BinaryFollows(w1, w, head)
  BY <1>1, BinaryPut
<1> HIDE DEF w1
<1>5. BinaryFollows(w2, w, head \o body)
  BY <1>1, <1>4, BinaryPutAgain
<1> HIDE DEF w2
<1>6. head \o body \in Seq(Byte) /\ (head \o body) \o last = head \o (body \o last)
  BY <1>1, ConcatProperties, ConcatAssociative
<1>7. BinaryFollows(w3, w, (head \o body) \o last)
  BY <1>1, <1>5, <1>6, BinaryPutAgain
<1> QED
  BY <1>2, <1>3, <1>6, <1>7

LEMMA LaxWrites ==
  ASSUME NEW w \in BinaryWriters, w.strict = FALSE,
         NEW name \in ByteStrings, NEW type \in 1..4, NEW seqid \in Sizes,
         NEW m, m = [name |-> name, type |-> type, seqid |-> seqid]
  PROVE  BinaryFollows(B!WriteMessageBegin(w, name, type, seqid), w, LaxBytes(m))
<1> DEFINE size == B!BigEndian(Len(name), 4)
           last == B!BigEndian(seqid, 4)
           w1 == B!Put(w, size \o name)
           w2 == B!Put(w1, <<type>>)
           w3 == B!Put(w2, last)
<1>1. size \in Seq(Byte) /\ name \in Seq(Byte) /\ last \in Seq(Byte) /\ <<type>> \in Seq(Byte)
      /\ size \o name \in Seq(Byte)
  <2>1. <<type>> \in Seq(Byte)
    BY DEF Byte
  <2> QED
    BY <2>1, BinaryInt4, CountedTyped DEF Sizes, Counted4
<1>2. B!WriteMessageBegin(w, name, type, seqid) = w3
  BY DEF B!WriteMessageBegin, B!WriteInt, B!WriteBytes
<1>3. LaxBytes(m) = size \o (name \o (<<type>> \o last))
  BY DEF LaxBytes
<1> DEFINE kind == <<type>>
<1>4. kind \in Seq(Byte)
  BY <1>1
<1> HIDE DEF size, last, kind
<1>5. BinaryFollows(w1, w, size \o name)
  BY <1>1, BinaryPut
<1> HIDE DEF w1
<1>6. BinaryFollows(w2, w, (size \o name) \o kind)
  BY <1>1, <1>5, BinaryPutAgain DEF kind
<1> HIDE DEF w2
<1>7. /\ (size \o name) \o kind \in Seq(Byte) /\ name \o (kind \o last) \in Seq(Byte)
      /\ kind \o last \in Seq(Byte)
  BY <1>1, <1>4, ConcatProperties
<1>8. ((size \o name) \o kind) \o last = (size \o name) \o (kind \o last)
  BY <1>1, <1>4, ConcatAssociative
<1>9. (size \o name) \o (kind \o last) = size \o (name \o (kind \o last))
  <2> DEFINE rest == kind \o last
  <2>1. rest \in Seq(Byte) /\ size \in Seq(Byte) /\ name \in Seq(Byte)
    BY <1>1, <1>7
  <2> HIDE DEF rest
  <2>2. (size \o name) \o rest = size \o (name \o rest)
    BY <2>1, ConcatAssociative
  <2> QED
    BY <2>2 DEF rest
<1>10. BinaryFollows(w3, w, ((size \o name) \o kind) \o last)
  BY <1>1, <1>6, <1>7, BinaryPutAgain
<1> QED
  BY <1>2, <1>3, <1>8, <1>9, <1>10 DEF kind

(* What each call adds to the bytes. *)
LEMMA BinaryWrites ==
  ASSUME NEW w \in BinaryWriters, NEW c \in ProtocolCalls
  PROVE  BinaryFollows(BinaryCall(w, c), w, BinaryBytes(w, c))
<1> DEFINE w2 == BinaryCall(w, c)
           bytes == BinaryBytes(w, c)
<1>1. CASE c.op = "message"
  <2>1. c.arg \in [name : ByteStrings, type : 1..4, seqid : Sizes]
    BY <1>1 DEF ProtocolCalls, MessageTypes
  <2>2. PICK name \in ByteStrings, type \in 1..4, seqid \in Sizes :
             c.arg = [name |-> name, type |-> type, seqid |-> seqid]
    BY <2>1
  <2>3. w2 = B!WriteMessageBegin(w, name, type, seqid)
    BY <1>1, <2>2 DEF BinaryCall
  <2>4. CASE w.strict = TRUE
    <3>1. bytes = StrictBytes(c.arg)
      BY <1>1, <2>4 DEF BinaryBytes
    <3> HIDE DEF w2, bytes
    <3>2. BinaryFollows(w2, w, bytes)
      BY <2>2, <2>3, <2>4, <3>1, StrictWrites
    <3> QED
      BY <3>2 DEF w2, bytes
  <2>5. CASE w.strict = FALSE
    <3>1. bytes = LaxBytes(c.arg)
      BY <1>1, <2>5 DEF BinaryBytes
    <3> HIDE DEF w2, bytes
    <3>2. BinaryFollows(w2, w, bytes)
      BY <2>2, <2>3, <2>5, <3>1, LaxWrites
    <3> QED
      BY <3>2 DEF w2, bytes
  <2> QED
    BY <2>4, <2>5 DEF BinaryWriters
<1>2. CASE c.op \in {"struct", "structEnd"}
  <2>1. w2 = w /\ bytes = << >>
    BY <1>2 DEF BinaryCall, BinaryBytes
  <2>2. w.out \o << >> = w.out /\ << >> \in Seq(Byte)
    BY ConcatEmptySeq DEF BinaryWriters
  <2> QED
    BY <2>1, <2>2 DEF BinaryFollows
<1>3. CASE c.op \in {"field", "stop", "list", "bool", "i16", "i32", "i64", "double", "string", "binary"}
  <2>1. bytes \in Seq(Byte) /\ w2 = B!Put(w, bytes)
    <3>1. CASE c.op = "field"
      <4> DEFINE code == B!TypeCode[c.arg.type]
                 rest == B!BigEndian(c.arg.id, 2)
      <4>1. c.arg.type \in WireTypes /\ c.arg.id \in Int /\ 2 \in Nat \ {0}
        BY <3>1 DEF ProtocolCalls, Numbers
      <4>2. w2 = B!Put(w, bytes) /\ bytes = <<code>> \o rest
        BY <3>1 DEF BinaryCall, B!WriteFieldBegin, BinaryBytes
      <4>3. code \in 0..127 /\ rest \in Seq(Byte)
        BY <4>1, TypeCodes, BigEndianTyped
      <4> HIDE DEF code, rest
      <4>4. <<code>> \in Seq(Byte)
        BY <4>3 DEF Byte
      <4>5. <<code>> \o rest \in Seq(Byte)
        BY <4>3, <4>4, ConcatProperties
      <4> QED
        BY <4>2, <4>5
    <3>2. CASE c.op = "list"
      <4> DEFINE code == B!TypeCode[c.arg.type]
                 rest == B!BigEndian(c.arg.size, 4)
      <4>1. c.arg.type \in WireTypes /\ c.arg.size \in Int /\ 4 \in Nat \ {0}
        BY <3>2 DEF ProtocolCalls, Sizes
      <4>2. w2 = B!Put(w, bytes) /\ bytes = <<code>> \o rest
        BY <3>2 DEF BinaryCall, B!WriteListBegin, BinaryBytes
      <4>3. code \in 0..127 /\ rest \in Seq(Byte)
        BY <4>1, TypeCodes, BigEndianTyped
      <4> HIDE DEF code, rest
      <4>4. <<code>> \in Seq(Byte)
        BY <4>3 DEF Byte
      <4>5. <<code>> \o rest \in Seq(Byte)
        BY <4>3, <4>4, ConcatProperties
      <4> QED
        BY <4>2, <4>5
    <3>3. CASE c.op = "stop"
      <4>1. w2 = B!Put(w, <<B!TypeCode.STOP>>) /\ bytes = <<0>>
        BY <3>3 DEF BinaryCall, B!WriteFieldStop, BinaryBytes
      <4> QED
        BY <4>1, StopCode DEF Byte
    <3>4. CASE c.op = "bool"
      <4>1. w2 = B!Put(w, bytes) /\ bytes = <<IF c.arg THEN 1 ELSE 0>>
        BY <3>4 DEF BinaryCall, B!WriteBool, BinaryBytes
      <4>2. <<IF c.arg THEN 1 ELSE 0>> \in Seq(Byte)
        BY DEF Byte
      <4> QED
        BY <4>1, <4>2
    <3>5. CASE c.op \in {"i16", "i32", "i64"}
      <4>1. c.arg \in Int /\ Width[c.op] \in Nat \ {0}
        BY <3>5 DEF ProtocolCalls, Numbers, Width
      <4>2. w2 = B!Put(w, bytes) /\ bytes = B!BigEndian(c.arg, Width[c.op])
        BY <3>5 DEF BinaryCall, B!WriteInt, BinaryBytes
      <4> QED
        BY <4>1, <4>2, BigEndianTyped
    <3>6. CASE c.op = "double"
      <4>1. c.arg \in Seq(Byte)
        BY <3>6 DEF ProtocolCalls
      <4>2. w2 = B!Put(w, bytes) /\ bytes = B!Reversed(c.arg)
        BY <3>6 DEF BinaryCall, B!WriteDouble, BinaryBytes
      <4> QED
        BY <4>1, <4>2, ReversedBack
    <3>7. CASE c.op \in {"string", "binary"}
      <4>1. c.arg \in ByteStrings
        BY <3>7 DEF ProtocolCalls
      <4>2. w2 = B!Put(w, bytes) /\ bytes = Counted4(c.arg)
        BY <3>7 DEF BinaryCall, B!WriteBytes, BinaryBytes, Counted4
      <4> QED
        BY <4>1, <4>2, CountedTyped
    <3> QED
      BY <1>3, <3>1, <3>2, <3>3, <3>4, <3>5, <3>6, <3>7
  <2> HIDE DEF w2, bytes
  <2>2. BinaryFollows(w2, w, bytes)
    BY <2>1, BinaryPut
  <2> QED
    BY <2>2 DEF w2, bytes
<1>4. c.op \in {"message", "struct", "structEnd", "field", "bool", "stop", "list", "i16", "i32",
                "i64", "double", "string", "binary"}
  BY DEF ProtocolCalls
<1> QED
  BY <1>1, <1>2, <1>3, <1>4

BinaryLevel(wire, w, r) ==
  w \in BinaryWriters /\ BinaryReady(r) /\ r.wire = wire /\ r.pos = Len(w.out) + 1 /\ r.strict = w.strict

LEMMA BinaryLevelAfter ==
  ASSUME NEW wire, NEW w, NEW r, BinaryLevel(wire, w, r), NEW w2, NEW bytes, BinaryFollows(w2, w, bytes),
         NEW s, NEW v, BinaryReads(s, r, Len(bytes), v)
  PROVE  IF Holds(r, Len(bytes)) THEN BinaryLevel(wire, w2, s) /\ s.v = v ELSE s.ok = FALSE
<1>1. Len(bytes) \in Nat /\ Len(w.out) \in Nat /\ Len(w2.out) = Len(w.out) + Len(bytes)
  BY ConcatProperties, LenProperties DEF BinaryFollows, BinaryLevel, BinaryWriters
<1>2. CASE Holds(r, Len(bytes))
  <2>1. BinaryReady(s) /\ s.wire = r.wire /\ s.pos = r.pos + Len(bytes) /\ s.v = v /\ s.strict = r.strict
    BY <1>1, <1>2, BinaryOnward DEF BinaryLevel
  <2>2. s.pos = Len(w2.out) + 1
    BY <1>1, <2>1 DEF BinaryLevel
  <2> QED
    BY <1>2, <2>1, <2>2 DEF BinaryLevel, BinaryFollows
<1>3. CASE ~ Holds(r, Len(bytes))
  BY <1>3 DEF BinaryReads
<1> QED
  BY <1>2, <1>3

(* The values. *)
LEMMA BinaryScalars ==
  ASSUME NEW r, BinaryReady(r), NEW w, NEW c \in ProtocolCalls,
         c.op \in {"bool", "i16", "i32", "i64", "double", "string", "binary"},
         Agrees(r, BinaryBytes(w, c))
  PROVE  BinaryReads(BinaryGet(r, c.op), r, Len(BinaryBytes(w, c)), c.arg)
<1>1. CASE c.op = "bool"
  <2>1. c.arg \in BOOLEAN
    BY <1>1 DEF ProtocolCalls
  <2>2. BinaryBytes(w, c) = <<IF c.arg THEN 1 ELSE 0>> /\ BinaryGet(r, c.op) = B!ReadBool(r)
    BY <1>1 DEF BinaryBytes, BinaryGet
  <2>3. Len(<<IF c.arg THEN 1 ELSE 0>>) = 1
    OBVIOUS
  <2>4. Agrees(r, <<IF c.arg THEN 1 ELSE 0>>)
    BY <2>2
  <2>5. BinaryReads(B!ReadBool(r), r, 1, c.arg)
    BY <2>1, <2>4, BinaryBoolReads
  <2> QED
    BY <2>2, <2>3, <2>5
<1>2. CASE c.op \in {"i16", "i32", "i64"}
  <2> DEFINE width == Width[c.op]
  <2>1. c.arg \in Numbers(width) /\ width \in Nat \ {0}
    BY <1>2 DEF ProtocolCalls, Width
  <2>2. BinaryBytes(w, c) = B!BigEndian(c.arg, width) /\ BinaryGet(r, c.op) = B!ReadInt(r, width)
    BY <1>2 DEF BinaryBytes, BinaryGet
  <2> HIDE DEF width
  <2> QED
    BY <2>1, <2>2, BinaryIntReads
<1>3. CASE c.op = "double"
  <2>1. c.arg \in Seq(Byte) /\ Len(c.arg) = 8
    BY <1>3 DEF ProtocolCalls
  <2>2. BinaryBytes(w, c) = B!Reversed(c.arg) /\ BinaryGet(r, c.op) = B!ReadDouble(r)
    BY <1>3 DEF BinaryBytes, BinaryGet
  <2> QED
    BY <2>1, <2>2, BinaryDoubleReads
<1>4. CASE c.op \in {"string", "binary"}
  <2>1. c.arg \in ByteStrings
    BY <1>4 DEF ProtocolCalls
  <2>2. BinaryBytes(w, c) = Counted4(c.arg) /\ BinaryGet(r, c.op) = B!ReadBytes(r)
    BY <1>4 DEF BinaryBytes, BinaryGet
  <2> QED
    BY <2>1, <2>2, BinaryBytesReads
<1> QED
  BY <1>1, <1>2, <1>3, <1>4

(* The headers of fields, lists and messages. *)
LEMMA BinaryHeads ==
  ASSUME NEW r, BinaryReady(r), NEW w \in BinaryWriters, r.strict = w.strict,
         NEW c \in ProtocolCalls, Agrees(r, BinaryBytes(w, c))
  PROVE  /\ c.op \in {"message", "list", "field"} =>
              BinaryReads(BinaryGet(r, Asked(c)), r, Len(BinaryBytes(w, c)), c.arg)
         /\ c.op = "stop" => BinaryReads(BinaryGet(r, Asked(c)), r, Len(BinaryBytes(w, c)), C!NoField)
<1>1. ASSUME c.op = "message"
      PROVE  BinaryReads(BinaryGet(r, Asked(c)), r, Len(BinaryBytes(w, c)), c.arg)
  <2>1. c.arg \in [name : ByteStrings, type : 1..4, seqid : Sizes]
    BY <1>1 DEF ProtocolCalls, MessageTypes
  <2>2. PICK name \in ByteStrings, type \in 1..4, seqid \in Sizes :
             c.arg = [name |-> name, type |-> type, seqid |-> seqid]
    BY <2>1
  <2>3. BinaryGet(r, Asked(c)) = B!ReadMessageBegin(r)
    BY <1>1 DEF BinaryGet, Asked
  <2>4. CASE w.strict = TRUE
    <3>1. BinaryBytes(w, c) = StrictBytes(c.arg)
      BY <1>1, <2>4 DEF BinaryBytes
    <3> QED
      BY <2>2, <2>3, <3>1, StrictReads
  <2>5. CASE w.strict = FALSE
    <3>1. BinaryBytes(w, c) = LaxBytes(c.arg)
      BY <1>1, <2>5 DEF BinaryBytes
    <3> QED
      BY <2>2, <2>3, <2>5, <3>1, LaxReads
  <2> QED
    BY <2>4, <2>5 DEF BinaryWriters
<1>2. ASSUME c.op = "list"
      PROVE  BinaryReads(BinaryGet(r, Asked(c)), r, Len(BinaryBytes(w, c)), c.arg)
  <2>1. PICK type \in WireTypes, size \in Sizes : c.arg = [type |-> type, size |-> size]
    BY <1>2 DEF ProtocolCalls
  <2>2. BinaryBytes(w, c) = <<B!TypeCode[type]>> \o B!BigEndian(size, 4)
        /\ BinaryGet(r, Asked(c)) = B!ReadListBegin(r)
    BY <1>2, <2>1 DEF BinaryBytes, BinaryGet, Asked
  <2> QED
    BY <2>1, <2>2, BinaryListReads
<1>3. ASSUME c.op = "field"
      PROVE  BinaryReads(BinaryGet(r, Asked(c)), r, Len(BinaryBytes(w, c)), c.arg)
  <2>1. PICK type \in WireTypes, id \in Numbers(2) : c.arg = [type |-> type, id |-> id]
    BY <1>3 DEF ProtocolCalls
  <2>2. BinaryBytes(w, c) = <<B!TypeCode[type]>> \o B!BigEndian(id, 2)
        /\ BinaryGet(r, Asked(c)) = B!ReadFieldBegin(r)
    BY <1>3, <2>1 DEF BinaryBytes, BinaryGet, Asked
  <2> QED
    BY <2>1, <2>2, BinaryFieldReads
<1>4. ASSUME c.op = "stop"
      PROVE  BinaryReads(BinaryGet(r, Asked(c)), r, Len(BinaryBytes(w, c)), C!NoField)
  <2>1. BinaryBytes(w, c) = <<0>> /\ BinaryGet(r, Asked(c)) = B!ReadFieldBegin(r) /\ Len(<<0>>) = 1
    BY <1>4 DEF BinaryBytes, BinaryGet, Asked
  <2>2. C!NoField = [type |-> "STOP", id |-> 0]
    BY DEF C!NoField
  <2> QED
    BY <2>1, <2>2, BinaryStopReads
<1> QED
  BY <1>1, <1>2, <1>3, <1>4

(* One call, of both sides. *)
LEMMA BinaryStep ==
  ASSUME NEW wire, NEW w, NEW r, BinaryLevel(wire, w, r), NEW c \in ProtocolCalls, Agrees(r, BinaryBytes(w, c))
  PROVE  LET r2 == BinaryGet(r, Asked(c))
         IN  IF Holds(r, Len(BinaryBytes(w, c))) THEN BinaryLevel(wire, BinaryCall(w, c), r2) /\ Back(r2.v, c)
             ELSE r2.ok = FALSE
<1> DEFINE w2 == BinaryCall(w, c)
           r2 == BinaryGet(r, Asked(c))
           bytes == BinaryBytes(w, c)
<1>0. w \in BinaryWriters /\ BinaryReady(r) /\ r.wire = wire /\ r.pos = Len(w.out) + 1 /\ r.strict = w.strict
  BY DEF BinaryLevel
<1>1. CASE c.op \in {"struct", "structEnd"}
  <2>1. bytes = << >> /\ w2 = w /\ r2 = r
    BY <1>1 DEF BinaryBytes, BinaryCall, BinaryGet, Asked
  <2>2. Holds(r, 0) /\ Len(<< >>) = 0
    <3>1. r.pos \in 1..Len(r.wire) + 1 /\ Len(r.wire) \in Nat
      BY <1>0, LenProperties DEF BinaryReady, Placed
    <3> QED
      BY <3>1 DEF Holds
  <2>3. Back(r2.v, c)
    BY <1>1 DEF Back
  <2> HIDE DEF w2, r2, bytes
  <2>4. Holds(r, Len(bytes)) /\ BinaryLevel(wire, w2, r2)
    BY <2>1, <2>2
  <2> QED
    BY <2>3, <2>4 DEF w2, r2, bytes
<1>2. CASE c.op \in {"field", "bool", "i16", "i32", "i64", "double", "string", "binary", "message", "list", "stop"}
  <2>1. PICK v : BinaryReads(r2, r, Len(bytes), v) /\ Back(v, c)
    <3>1. CASE c.op \in {"bool", "i16", "i32", "i64", "double", "string", "binary"}
      <4>1. Asked(c) = c.op
        BY <3>1 DEF Asked
      <4>2. BinaryReads(r2, r, Len(bytes), c.arg)
        BY <1>0, <3>1, <4>1, BinaryScalars
      <4>3. Back(c.arg, c)
        BY <3>1 DEF Back
      <4> QED
        BY <4>2, <4>3
    <3>2. CASE c.op \in {"message", "list", "field"}
      <4>1. BinaryReads(r2, r, Len(bytes), c.arg)
        BY <1>0, <3>2, BinaryHeads
      <4>2. Back(c.arg, c)
        BY <3>2 DEF Back
      <4> QED
        BY <4>1, <4>2
    <3>3. CASE c.op = "stop"
      <4>1. BinaryReads(r2, r, Len(bytes), C!NoField)
        BY <1>0, <3>3, BinaryHeads
      <4>2. Back(C!NoField, c)
        BY <3>3 DEF Back
      <4> QED
        BY <4>1, <4>2
    <3> QED
      BY <1>2, <3>1, <3>2, <3>3
  <2>2. BinaryFollows(w2, w, bytes)
    BY <1>0, BinaryWrites
  <2> HIDE DEF w2, r2, bytes
  <2>3. IF Holds(r, Len(bytes)) THEN BinaryLevel(wire, w2, r2) /\ r2.v = v ELSE r2.ok = FALSE
    BY <2>1, <2>2, BinaryLevelAfter
  <2> QED
    BY <2>1, <2>3 DEF w2, r2, bytes
<1>3. c.op \in {"message", "struct", "structEnd", "field", "bool", "stop", "list", "i16", "i32",
                "i64", "double", "string", "binary"}
  BY DEF ProtocolCalls
<1> QED
  BY <1>1, <1>2, <1>3

-----------------------------------------------------------------------------
(* Calls in a row *)

(* A call of the one side or of the other, and the writers or readers that n of *)
(* them lead to from d.                                                         *)
Move(p, reading, x, c) == IF reading THEN Get(p, x, Asked(c)) ELSE WriteCall(p, x, c)
IsCallRun(run, p, reading, d, cs, n) ==
  run = [k \in 0..n |-> IF k = 0 THEN d ELSE Move(p, reading, run[k - 1], cs[k])]

(* The functions Writers and Readers are what their recursive definitions say. *)
LEMMA CallRunExists ==
  ASSUME NEW p, NEW reading, NEW d, NEW cs
  PROVE  \A n \in Nat : \E run : IsCallRun(run, p, reading, d, cs, n)
<1> DEFINE S == {n \in Nat : \E run : IsCallRun(run, p, reading, d, cs, n)}
<1>1. 0 \in S
  <2>1. IsCallRun([k \in 0..0 |-> d], p, reading, d, cs, 0)
    BY DEF IsCallRun
  <2> QED
    BY <2>1
<1>2. ASSUME NEW n \in Nat, n \in S PROVE n + 1 \in S
  <2>1. PICK run : IsCallRun(run, p, reading, d, cs, n)
    BY <1>2
  <2> DEFINE more == [k \in 0..n + 1 |-> IF k = n + 1 THEN Move(p, reading, run[n], cs[k]) ELSE run[k]]
  <2>2. \A k \in 0..n + 1 : more[k] = IF k = 0 THEN d ELSE Move(p, reading, more[k - 1], cs[k])
    <3> TAKE k \in 0..n + 1
    <3>1. CASE k = n + 1
      <4>1. k # 0 /\ k - 1 = n /\ k - 1 \in 0..n + 1 /\ k - 1 # n + 1
        BY <3>1
      <4>2. more[k - 1] = run[n] /\ more[k] = Move(p, reading, run[n], cs[k])
        BY <3>1, <4>1
      <4> QED
        BY <4>1, <4>2
    <3>2. CASE k # n + 1
      <4>1. k \in 0..n /\ (k # 0 => k - 1 \in 0..n /\ k - 1 # n + 1)
        BY <3>2
      <4>2. run[k] = IF k = 0 THEN d ELSE Move(p, reading, run[k - 1], cs[k])
        BY <2>1, <4>1 DEF IsCallRun
      <4> QED
        BY <4>1, <4>2
    <3> QED
      BY <3>1, <3>2
  <2>3. IsCallRun(more, p, reading, d, cs, n + 1)
    <3>1. more = [k \in 0..n + 1 |-> more[k]]
      OBVIOUS
    <3> HIDE DEF more
    <3> QED
      BY <2>2, <3>1 DEF IsCallRun
  <2> QED
    BY <2>3
<1> HIDE DEF S
<1>3. Nat \subseteq S
  BY <1>1, <1>2, Induction
<1> QED
  BY <1>3 DEF S

LEMMA CallsRun ==
  ASSUME NEW p, NEW wire, NEW cs, Len(cs) \in Nat
  PROVE  /\ IsCallRun(Writers(p, cs), p, FALSE, NewWriter(p), cs, Len(cs))
         /\ IsCallRun(Readers(p, wire, cs), p, TRUE, NewReader(p, wire), cs, Len(cs))
<1>1. \E run : IsCallRun(run, p, FALSE, NewWriter(p), cs, Len(cs))
  BY CallRunExists
<1>2. \E run : IsCallRun(run, p, TRUE, NewReader(p, wire), cs, Len(cs))
  BY CallRunExists
<1>3. Writers(p, cs) = CHOOSE run : IsCallRun(run, p, FALSE, NewWriter(p), cs, Len(cs))
  BY Zenon DEF Writers, IsCallRun, Move
<1>4. Readers(p, wire, cs) = CHOOSE run : IsCallRun(run, p, TRUE, NewReader(p, wire), cs, Len(cs))
  BY Zenon DEF Readers, IsCallRun, Move
<1> QED
  BY <1>1, <1>2, <1>3, <1>4

LEMMA CallsAre ==
  ASSUME NEW p, NEW wire, NEW cs, Len(cs) \in Nat
  PROVE  LET w == Writers(p, cs)
             r == Readers(p, wire, cs)
         IN  /\ w[0] = NewWriter(p) /\ r[0] = NewReader(p, wire)
             /\ \A k \in 1..Len(cs) : w[k] = WriteCall(p, w[k - 1], cs[k])
             /\ \A k \in 1..Len(cs) : r[k] = Get(p, r[k - 1], Asked(cs[k]))
<1> DEFINE w == Writers(p, cs)
           r == Readers(p, wire, cs)
           n == Len(cs)
<1>1. IsCallRun(w, p, FALSE, NewWriter(p), cs, n) /\ IsCallRun(r, p, TRUE, NewReader(p, wire), cs, n)
  BY CallsRun
<1> HIDE DEF w, r
<1>2. \A k \in 0..n : /\ w[k] = IF k = 0 THEN NewWriter(p) ELSE Move(p, FALSE, w[k - 1], cs[k])
                      /\ r[k] = IF k = 0 THEN NewReader(p, wire) ELSE Move(p, TRUE, r[k - 1], cs[k])
  BY <1>1 DEF IsCallRun
<1>3. 0 \in 0..n /\ \A k \in 1..n : k \in 0..n /\ k # 0
  OBVIOUS
<1> QED
  BY <1>2, <1>3 DEF w, r, Move

(* The calls of one kind, counted one call further. *)
LEMMA MadeNext ==
  ASSUME NEW cs, NEW op, NEW k \in Nat
  PROVE  /\ Made(cs, op, 0) = 0 /\ Made(cs, op, k) \in Nat
         /\ Made(cs, op, k + 1) = IF cs[k + 1].op = op THEN Made(cs, op, k) + 1 ELSE Made(cs, op, k)
<1> DEFINE at(j) == {i \in 1..j : cs[i].op = op}
<1>1. at(0) = {}
  OBVIOUS
<1>2. IsFiniteSet(at(k)) /\ Cardinality(at(k)) \in Nat
  <2>1. IsFiniteSet(1..k) /\ at(k) \subseteq 1..k
    BY FS_Interval
  <2> QED
    BY <2>1, FS_Subset, FS_CardinalityType
<1>3. k + 1 \notin at(k)
  OBVIOUS
<1>4. ASSUME cs[k + 1].op = op PROVE Cardinality(at(k + 1)) = Cardinality(at(k)) + 1
  <2>1. at(k + 1) = at(k) \cup {k + 1}
    BY <1>4
  <2> HIDE DEF at
  <2> QED
    BY <1>2, <1>3, <2>1, FS_AddElement
<1>5. ASSUME cs[k + 1].op # op PROVE Cardinality(at(k + 1)) = Cardinality(at(k))
  <2>1. at(k + 1) = at(k)
    BY <1>5
  <2> HIDE DEF at
  <2> QED
    BY <2>1
<1>6. \A j : Made(cs, op, j) = Cardinality(at(j))
  BY DEF Made
<1> HIDE DEF at
<1> QED
  BY <1>1, <1>2, <1>4, <1>5, <1>6, FS_EmptySet

(* The bytes that one call writes. *)
CallBytes(p, w, c) == IF p = "compact" THEN CompactBytes(w, c) ELSE BinaryBytes(w, c)

(* A writer after k calls: a compact one keeps the id of a boolean field until *)
(* its value comes, and one id for each structure that has not ended.          *)
PendingAfter(cs, k) == IF k > 0 /\ BoolField(cs[k]) THEN <<cs[k].arg.id>> ELSE << >>
WriterAfter(p, cs, w, k) ==
  IF p = "compact"
  THEN /\ w \in CompactWriters /\ w.pending = PendingAfter(cs, k)
       /\ Len(w.stack) = Made(cs, "struct", k) - Made(cs, "structEnd", k)
  ELSE w \in BinaryWriters

LEMMA OrderlyCalls ==
  ASSUME NEW cs, Orderly(cs)
  PROVE  /\ Len(cs) \in Nat /\ \A k \in 1..Len(cs) : cs[k] \in ProtocolCalls
         /\ \A k \in 1..Len(cs) : Made(cs, "structEnd", k) <= Made(cs, "struct", k)
         /\ \A k \in 1..Len(cs) : BoolField(cs[k]) => k + 1 \in 1..Len(cs) /\ cs[k + 1].op = "bool"
<1>1. cs \in Seq(ProtocolCalls) /\ Len(cs) \in Nat
  BY LenProperties DEF Orderly
<1>2. \A k \in 1..Len(cs) : k < Len(cs) => k + 1 \in 1..Len(cs)
  BY <1>1
<1> QED
  BY <1>1, <1>2 DEF Orderly

(* A stack with one more element, and with one less. *)
LEMMA StackNext ==
  ASSUME NEW stack \in Seq(Int)
  PROVE  /\ \A id \in Int : Len(Append(stack, id)) = Len(stack) + 1
         /\ stack # << >> => Len(SubSeq(stack, 1, Len(stack) - 1)) = Len(stack) - 1
<1>1. Len(stack) \in Nat /\ \A i \in 1..Len(stack) : stack[i] \in Int
  BY LenProperties
<1>2. \A id \in Int : Len(Append(stack, id)) = Len(stack) + 1
  BY AppendProperties
<1>3. ASSUME stack # << >> PROVE Len(SubSeq(stack, 1, Len(stack) - 1)) = Len(stack) - 1
  <2>1. Len(stack) >= 1
    BY <1>1, <1>3, EmptySeq
  <2> DEFINE n == Len(stack) - 1
  <2>2. n \in Int /\ n \in Nat /\ \A i \in 1..n : stack[i] \in Int
    BY <1>1, <2>1
  <2> HIDE DEF n
  <2>3. Len(SubSeq(stack, 1, n)) = IF 1 <= n THEN n - 1 + 1 ELSE 0
    BY <2>2, SubSeqProperties
  <2>4. Len(SubSeq(stack, 1, n)) = n
    BY <2>2, <2>3
  <2> QED
    BY <2>4, Zenon DEF n
<1> QED
  BY <1>2, <1>3

(* A call adds its bytes after those written, and leaves a writer as it is to be. *)
LEMMA WriterNext ==
  ASSUME NEW p \in Protocols, NEW cs, Orderly(cs), NEW k \in Nat, k + 1 <= Len(cs),
         NEW w, WriterAfter(p, cs, w, k)
  PROVE  /\ WriterAfter(p, cs, WriteCall(p, w, cs[k + 1]), k + 1)
         /\ w.out \in Seq(Byte) /\ CallBytes(p, w, cs[k + 1]) \in Seq(Byte)
         /\ WriteCall(p, w, cs[k + 1]).out = w.out \o CallBytes(p, w, cs[k + 1])
         /\ p = "compact" /\ cs[k + 1].op = "structEnd" => w.stack # << >>
<1> DEFINE c == cs[k + 1]
           w2 == WriteCall(p, w, c)
<1>1. k + 1 \in 1..Len(cs) /\ c \in ProtocolCalls
  BY OrderlyCalls
<1>2. CASE p # "compact"
  <2>1. w \in BinaryWriters /\ w2 = BinaryCall(w, c) /\ CallBytes(p, w, c) = BinaryBytes(w, c)
    BY <1>2 DEF WriterAfter, WriteCall, CallBytes
  <2> HIDE DEF w2, c
  <2>2. BinaryFollows(w2, w, BinaryBytes(w, c))
    BY <1>1, <2>1, BinaryWrites
  <2> QED
    BY <1>2, <2>1, <2>2 DEF BinaryFollows, WriterAfter, BinaryWriters, w2, c
<1>3. CASE p = "compact"
  <2>1. /\ w \in CompactWriters /\ w.pending = PendingAfter(cs, k)
        /\ Len(w.stack) = Made(cs, "struct", k) - Made(cs, "structEnd", k)
        /\ w2 = CompactCall(w, c) /\ CallBytes(p, w, c) = CompactBytes(w, c)
    BY <1>3 DEF WriterAfter, WriteCall, CallBytes
  <2>2. /\ Made(cs, "struct", k) \in Nat /\ Made(cs, "structEnd", k) \in Nat
        /\ Made(cs, "struct", k + 1) = Made(cs, "struct", k) + IF c.op = "struct" THEN 1 ELSE 0
        /\ Made(cs, "structEnd", k + 1) = Made(cs, "structEnd", k) + IF c.op = "structEnd" THEN 1 ELSE 0
    <3>0. \A op : /\ Made(cs, op, k) \in Nat
                  /\ Made(cs, op, k + 1) = IF c.op = op THEN Made(cs, op, k) + 1 ELSE Made(cs, op, k)
      <4> TAKE op
      <4> HIDE DEF w2
      <4> QED
        BY MadeNext
    <3> HIDE DEF c
    <3>1. /\ Made(cs, "struct", k) \in Nat
          /\ Made(cs, "struct", k + 1) = IF c.op = "struct" THEN Made(cs, "struct", k) + 1 ELSE Made(cs, "struct", k)
      BY <3>0, Zenon
    <3>2. /\ Made(cs, "structEnd", k) \in Nat
          /\ Made(cs, "structEnd", k + 1) = IF c.op = "structEnd" THEN Made(cs, "structEnd", k) + 1
                                            ELSE Made(cs, "structEnd", k)
      BY <3>0, Zenon
    <3> QED
      BY <3>1, <3>2
  <2>3. Made(cs, "structEnd", k + 1) <= Made(cs, "struct", k + 1)
    BY <1>1, OrderlyCalls
  <2>4. w.stack \in Seq(Int) /\ w.last \in Int /\ w.out \in Seq(Byte)
    BY <2>1 DEF CompactWriters
  <2>5. c.op = "structEnd" => w.stack # << >>
    <3>1. c.op = "structEnd" => Len(w.stack) >= 1
      BY <2>1, <2>2, <2>3
    <3> QED
      BY <2>4, <3>1
  <2>6. w.pending \in {<< >>} \cup {<<id>> : id \in Int} /\ (w.pending # << >> => c.op = "bool")
    <3>1. CASE k > 0 /\ BoolField(cs[k])
      <4>1. k \in 1..Len(cs)
        BY <1>1, <3>1
      <4>2. cs[k] \in ProtocolCalls /\ c.op = "bool"
        BY <3>1, <4>1, OrderlyCalls
      <4>3. cs[k].arg.id \in Int
        BY <3>1, <4>2 DEF BoolField, ProtocolCalls, Numbers
      <4> QED
        BY <2>1, <3>1, <4>2, <4>3 DEF PendingAfter
    <3>2. CASE ~ (k > 0 /\ BoolField(cs[k]))
      BY <2>1, <3>2 DEF PendingAfter
    <3> QED
      BY <3>1, <3>2
  <2>7. PendingAfter(cs, k + 1) = IF BoolField(c) THEN <<c.arg.id>> ELSE << >>
    BY DEF PendingAfter
  <2>8. BoolField(c) => c.op = "field"
    BY DEF BoolField
  <2> HIDE DEF w2, c
  <2>9. /\ Follows(w2, w, CompactBytes(w, c))
        /\ c.op \notin {"struct", "structEnd", "field", "bool"} => Beside(w2, w.stack, w.last, w.pending)
        /\ c.op = "struct" => Beside(w2, Append(w.stack, w.last), 0, w.pending)
        /\ c.op = "structEnd" => Beside(w2, SubSeq(w.stack, 1, Len(w.stack) - 1),
                                        w.stack[Len(w.stack)], w.pending)
        /\ c.op = "field" => IF BoolField(c) THEN Beside(w2, w.stack, w.last, <<c.arg.id>>)
                             ELSE Beside(w2, w.stack, c.arg.id, w.pending)
        /\ c.op = "bool" => IF w.pending = << >> THEN Beside(w2, w.stack, w.last, << >>)
                            ELSE Beside(w2, w.stack, w.pending[1], << >>)
    BY <1>1, <2>1, <2>5, <2>6, CompactWrites
  <2>10. w2.pending = PendingAfter(cs, k + 1)
    BY <2>6, <2>7, <2>8, <2>9 DEF Beside
  <2>11. w2.stack = IF c.op = "struct" THEN Append(w.stack, w.last)
                    ELSE IF c.op = "structEnd" THEN SubSeq(w.stack, 1, Len(w.stack) - 1) ELSE w.stack
    BY <2>9 DEF Beside
  <2>12. Len(w2.stack) = Len(w.stack) + (IF c.op = "struct" THEN 1 ELSE 0) - IF c.op = "structEnd" THEN 1 ELSE 0
    <3>1. Len(w.stack) \in Nat
      BY <2>4, LenProperties
    <3>2. CASE c.op = "struct"
      BY <2>4, <2>11, <3>1, <3>2, StackNext
    <3>3. CASE c.op = "structEnd"
      BY <2>4, <2>5, <2>11, <3>1, <3>3, StackNext
    <3>4. CASE c.op \notin {"struct", "structEnd"}
      <4>1. c.op # "struct" /\ c.op # "structEnd"
        BY <3>4
      <4>2. w2.stack = w.stack
        BY <2>11, <4>1
      <4> QED
        BY <3>1, <4>1, <4>2
    <3> QED
      BY <3>2, <3>3, <3>4
  <2>13. Len(w2.stack) = Made(cs, "struct", k + 1) - Made(cs, "structEnd", k + 1)
    BY <2>1, <2>2, <2>12 DEF c
  <2>14. WriterAfter(p, cs, w2, k + 1)
    BY <1>3, <2>9, <2>10, <2>13 DEF WriterAfter, Follows
  <2> QED
    BY <2>1, <2>4, <2>5, <2>9, <2>14 DEF Follows, w2, c
<1> QED
  BY <1>2, <1>3

(* So it is after any number of calls. *)
LEMMA WriterAlways ==
  ASSUME NEW p \in Protocols, NEW cs, Orderly(cs)
  PROVE  \A k \in 0..Len(cs) : WriterAfter(p, cs, Writers(p, cs)[k], k)
<1> DEFINE w == Writers(p, cs)
           n == Len(cs)
           S == {k \in Nat : k <= n => WriterAfter(p, cs, w[k], k)}
<1>1. n \in Nat
  BY OrderlyCalls
<1>2. w[0] = NewWriter(p) /\ \A k \in 1..n : w[k] = WriteCall(p, w[k - 1], cs[k])
  BY <1>1, CallsAre
<1> HIDE DEF w
<1>3. 0 \in S
  <2>1. CASE p = "compact"
    <3>1. w[0] = C!NewWriter
      BY <1>2, <2>1 DEF NewWriter
    <3>2. PICK id \in Int : id = 0
      OBVIOUS
    <3>3. << >> \in Seq(Byte) /\ << >> \in Seq(Int) /\ Len(<< >>) = 0
      OBVIOUS
    <3>4. C!NewWriter = [out |-> << >>, stack |-> << >>, last |-> id, pending |-> << >>]
      BY <3>2 DEF C!NewWriter
    <3>5. C!NewWriter \in CompactWriters /\ C!NewWriter.pending = << >> /\ C!NewWriter.stack = << >>
      BY <3>3, <3>4 DEF CompactWriters
    <3>6. PendingAfter(cs, 0) = << >>
      BY DEF PendingAfter
    <3>7. Made(cs, "struct", 0) = 0 /\ Made(cs, "structEnd", 0) = 0
      BY MadeNext
    <3> QED
      BY <2>1, <3>1, <3>3, <3>5, <3>6, <3>7 DEF WriterAfter
  <2>2. CASE p # "compact"
    <3>1. w[0] = [out |-> << >>, strict |-> (p = "binary")] /\ (p = "binary") \in BOOLEAN
      BY <1>2, <2>2 DEF NewWriter, B!NewWriter
    <3>2. << >> \in Seq(Byte)
      OBVIOUS
    <3>3. w[0] \in BinaryWriters
      BY <3>1, <3>2 DEF BinaryWriters
    <3> QED
      BY <2>2, <3>3 DEF WriterAfter
  <2> QED
    BY <2>1, <2>2
<1>4. ASSUME NEW k \in Nat, k \in S PROVE k + 1 \in S
  <2>1. SUFFICES ASSUME k + 1 <= n PROVE WriterAfter(p, cs, w[k + 1], k + 1)
    OBVIOUS
  <2>2. WriterAfter(p, cs, w[k], k) /\ k + 1 \in 1..n /\ (k + 1) - 1 = k
    BY <1>1, <1>4, <2>1
  <2>3. w[k + 1] = WriteCall(p, w[k], cs[k + 1])
    BY <1>2, <2>2
  <2>4. WriterAfter(p, cs, WriteCall(p, w[k], cs[k + 1]), k + 1)
    BY <2>1, <2>2, WriterNext
  <2> QED
    BY <2>3, <2>4
<1> HIDE DEF S
<1>5. Nat \subseteq S
  BY <1>3, <1>4, Induction
<1> QED
  BY <1>1, <1>5 DEF S, w

(* The bytes of the calls, one after the other. *)
LEMMA OutNext ==
  ASSUME NEW p \in Protocols, NEW cs, Orderly(cs), NEW k \in Nat, k + 1 <= Len(cs)
  PROVE  LET w == Writers(p, cs)
             bytes == CallBytes(p, w[k], cs[k + 1])
         IN  /\ w[k + 1] = WriteCall(p, w[k], cs[k + 1])
             /\ w[k].out \in Seq(Byte) /\ bytes \in Seq(Byte) /\ w[k + 1].out = w[k].out \o bytes
             /\ p = "compact" /\ cs[k + 1].op = "structEnd" => w[k].stack # << >>
<1>1. Len(cs) \in Nat /\ k \in 0..Len(cs) /\ k + 1 \in 1..Len(cs) /\ (k + 1) - 1 = k
  BY OrderlyCalls
<1> DEFINE w == Writers(p, cs)
<1>2. w[k + 1] = WriteCall(p, w[k], cs[k + 1])
  <2>1. \A j \in 1..Len(cs) : w[j] = WriteCall(p, w[j - 1], cs[j])
    BY <1>1, CallsAre
  <2> HIDE DEF w
  <2> QED
    BY <1>1, <2>1
<1>3. WriterAfter(p, cs, w[k], k)
  BY <1>1, WriterAlways
<1> HIDE DEF w
<1>4. /\ w[k].out \in Seq(Byte) /\ CallBytes(p, w[k], cs[k + 1]) \in Seq(Byte)
      /\ WriteCall(p, w[k], cs[k + 1]).out = w[k].out \o CallBytes(p, w[k], cs[k + 1])
      /\ p = "compact" /\ cs[k + 1].op = "structEnd" => w[k].stack # << >>
  <2> DEFINE u == w[k]
  <2> HIDE DEF u
  <2>1. WriterAfter(p, cs, u, k)
    BY <1>3 DEF u
  <2>2. /\ u.out \in Seq(Byte) /\ CallBytes(p, u, cs[k + 1]) \in Seq(Byte)
        /\ WriteCall(p, u, cs[k + 1]).out = u.out \o CallBytes(p, u, cs[k + 1])
        /\ p = "compact" /\ cs[k + 1].op = "structEnd" => u.stack # << >>
    BY <2>1, WriterNext
  <2> QED
    BY <2>2, Zenon DEF u
<1> QED
  BY <1>2, <1>4 DEF w

Begins(s, t) == Len(s) <= Len(t) /\ \A i \in 1..Len(s) : t[i] = s[i]

LEMMA OutBegins ==
  ASSUME NEW p \in Protocols, NEW cs, Orderly(cs), NEW k \in 0..Len(cs)
  PROVE  /\ Writers(p, cs)[k].out \in Seq(Byte)
         /\ Begins(Writers(p, cs)[k].out, Writers(p, cs)[Len(cs)].out)
<1> DEFINE w == Writers(p, cs)
           n == Len(cs)
           S == {m \in Nat : k <= m /\ m <= n => w[m].out \in Seq(Byte) /\ Begins(w[k].out, w[m].out)}
<1>1. n \in Nat
  BY OrderlyCalls
<1>2. \A m \in 0..n : w[m].out \in Seq(Byte)
  <2> TAKE m \in 0..n
  <2>1. WriterAfter(p, cs, w[m], m)
    BY WriterAlways
  <2> HIDE DEF w
  <2> QED
    BY <2>1 DEF WriterAfter, CompactWriters, BinaryWriters
<1>3. ASSUME NEW m \in Nat, m + 1 <= n
      PROVE  \E bytes \in Seq(Byte) : w[m + 1].out = w[m].out \o bytes
  BY <1>3, OutNext
<1> HIDE DEF w
<1>4. Begins(w[k].out, w[k].out)
  <2>1. Len(w[k].out) \in Nat
    BY <1>2, LenProperties
  <2> QED
    BY <2>1 DEF Begins
<1>5. 0 \in S
  BY <1>1, <1>2, <1>4
<1>6. ASSUME NEW m \in Nat, m \in S PROVE m + 1 \in S
  <2>1. SUFFICES ASSUME k <= m + 1, m + 1 <= n PROVE w[m + 1].out \in Seq(Byte) /\ Begins(w[k].out, w[m + 1].out)
    OBVIOUS
  <2>2. w[m + 1].out \in Seq(Byte) /\ w[m].out \in Seq(Byte) /\ w[k].out \in Seq(Byte)
    BY <1>1, <1>2, <2>1
  <2>3. CASE k = m + 1
    BY <1>4, <2>2, <2>3
  <2>4. CASE k <= m
    <3>1. Begins(w[k].out, w[m].out)
      BY <1>6, <2>1, <2>4
    <3>2. PICK bytes \in Seq(Byte) : w[m + 1].out = w[m].out \o bytes
      BY <1>3, <2>1
    <3> DEFINE s == w[k].out
               t == w[m].out
    <3>3. /\ Len(t \o bytes) = Len(t) + Len(bytes) /\ Len(bytes) \in Nat /\ Len(t) \in Nat /\ Len(s) \in Nat
          /\ \A i \in 1..Len(t) : (t \o bytes)[i] = t[i]
      BY <2>2, LenProperties, ConcatProperties
    <3>4. Begins(s, t \o bytes)
      <4> HIDE DEF s, t
      <4>1. Begins(s, t)
        BY <3>1 DEF s, t
      <4> QED
        BY <3>3, <4>1 DEF Begins
    <3> QED
      BY <2>2, <3>2, <3>4
  <2> QED
    BY <2>1, <2>3, <2>4
<1> HIDE DEF S
<1>7. Nat \subseteq S
  BY <1>5, <1>6, Induction
<1>8. n \in S
  BY <1>1, <1>7
<1> QED
  BY <1>1, <1>2, <1>8 DEF S, w

(* All that is written. *)
Whole(p, cs) == Writers(p, cs)[Len(cs)].out

(* What is on the wire for the next call agrees with what it writes, and is all *)
(* there if the wire is as long as the writer's bytes by then.                  *)
LEMMA AgreesNext ==
  ASSUME NEW p \in Protocols, NEW cs, Orderly(cs), NEW wire \in Seq(Byte), Common(wire, Whole(p, cs)),
         NEW k \in Nat, k + 1 <= Len(cs), NEW x, x.wire = wire, x.pos = Len(Writers(p, cs)[k].out) + 1
  PROVE  /\ Agrees(x, CallBytes(p, Writers(p, cs)[k], cs[k + 1]))
         /\ Holds(x, Len(CallBytes(p, Writers(p, cs)[k], cs[k + 1])))
              <=> Len(Writers(p, cs)[k + 1].out) <= Len(wire)
<1> DEFINE s == Writers(p, cs)[k].out
           bytes == CallBytes(p, Writers(p, cs)[k], cs[k + 1])
           next == Writers(p, cs)[k + 1].out
           out == Whole(p, cs)
<1>1. Len(cs) \in Nat /\ k + 1 \in 0..Len(cs)
  BY OrderlyCalls
<1>2. s \in Seq(Byte) /\ bytes \in Seq(Byte) /\ next = s \o bytes
  BY OutNext
<1>3. Begins(next, out)
  BY <1>1, OutBegins DEF Whole
<1> HIDE DEF s, bytes, next, out
<1>4. /\ Len(s) \in Nat /\ Len(bytes) \in Nat /\ Len(next) = Len(s) + Len(bytes) /\ Len(wire) \in Nat
      /\ \A i \in 1..Len(bytes) : Len(s) + i \in 1..Len(next) /\ next[Len(s) + i] = bytes[i]
  <2>1. Len(s) \in Nat /\ Len(bytes) \in Nat /\ Len(wire) \in Nat
    BY <1>2, LenProperties
  <2>2. Len(next) = Len(s) + Len(bytes)
        /\ \A j \in 1..Len(s) + Len(bytes) : next[j] = IF j <= Len(s) THEN s[j] ELSE bytes[j - Len(s)]
    BY <1>2, ConcatProperties
  <2>3. \A i \in 1..Len(bytes) : Len(s) + i \in 1..Len(s) + Len(bytes) /\ ~ (Len(s) + i <= Len(s))
                                /\ (Len(s) + i) - Len(s) = i
    BY <2>1
  <2> QED
    BY <2>1, <2>2, <2>3
<1>5. x.pos = Len(s) + 1 /\ x.wire = wire
  BY DEF s
<1>6. Agrees(x, bytes)
  <2>1. SUFFICES ASSUME NEW i \in 1..Len(bytes), x.pos + i - 1 <= Len(wire)
                 PROVE  wire[x.pos + i - 1] = bytes[i]
    BY <1>5 DEF Agrees
  <2> DEFINE j == Len(s) + i
  <2>2. x.pos + i - 1 = j
    BY <1>4, <1>5
  <2>3. j \in 1..Len(next) /\ next[j] = bytes[i] /\ j <= Len(wire)
    BY <1>4, <2>1, <2>2
  <2>4. Len(out) \in Nat
    <3>1. Len(cs) \in 0..Len(cs)
      BY <1>1
    <3>2. out \in Seq(Byte)
      BY <3>1, OutBegins DEF Whole, out
    <3> QED
      BY <3>2, LenProperties
  <2> HIDE DEF j
  <2>5. j \in 1..Len(out) /\ out[j] = next[j]
    <3>1. Len(next) \in Nat
      BY <1>4
    <3> QED
      BY <1>3, <2>3, <2>4, <3>1 DEF Begins
  <2>6. wire[j] = out[j]
    BY <2>3, <2>5 DEF Common, out
  <2> QED
    BY <2>2, <2>3, <2>5, <2>6
<1>7. Holds(x, Len(bytes)) <=> Len(next) <= Len(wire)
  BY <1>4, <1>5 DEF Holds
<1> QED
  BY <1>6, <1>7 DEF bytes, next

(* How far a reader has come: past the calls it was asked for, and in the     *)
(* compact protocol past the value of a boolean field with the field.         *)
Early(p, cs, k) == p = "compact" /\ k > 0 /\ BoolField(cs[k])
Reached(p, cs, k) == Len(Writers(p, cs)[IF Early(p, cs, k) THEN k + 1 ELSE k].out)

Fine(p, wire, cs, k) ==
  LET w == Writers(p, cs)
      r == Readers(p, wire, cs)
  IN  IF p # "compact" THEN BinaryLevel(wire, w[k], r[k])
      ELSE IF Early(p, cs, k) THEN Ahead(wire, w[k], r[k], w[k + 1], cs[k], cs[k + 1])
      ELSE Level(wire, w[k], r[k])

(* At the beginning nothing was written nor read. *)
LEMMA FineFirst ==
  ASSUME NEW p \in Protocols, NEW cs, Orderly(cs), NEW wire \in Seq(Byte)
  PROVE  Fine(p, wire, cs, 0)
<1> DEFINE w == Writers(p, cs)
           r == Readers(p, wire, cs)
<1>1. Len(cs) \in Nat /\ 0 \in 0..Len(cs)
  BY OrderlyCalls
<1>2. w[0] = NewWriter(p) /\ r[0] = NewReader(p, wire)
  BY <1>1, CallsAre
<1>3. WriterAfter(p, cs, w[0], 0)
  BY <1>1, WriterAlways
<1>4. Len(wire) \in Nat /\ 1 \in 1..Len(wire) + 1 /\ Len(<< >>) = 0
  BY LenProperties
<1>5. ~ Early(p, cs, 0) /\ PendingAfter(cs, 0) = << >>
  BY DEF Early, PendingAfter
<1> HIDE DEF w, r
<1>6. CASE p = "compact"
  <2>1. w[0].out = << >> /\ w[0].stack = << >> /\ w[0].last = 0
    BY <1>2, <1>6 DEF NewWriter, C!NewWriter
  <2>2. r[0] = [wire |-> wire, pos |-> 1, ok |-> TRUE, v |-> 0, stack |-> << >>, last |-> 0, bool |-> << >>]
    BY <1>2, <1>6 DEF NewReader, C!NewReader
  <2>3. Ready(r[0]) /\ r[0].wire = wire /\ r[0].pos = 1 /\ r[0].stack = << >> /\ r[0].last = 0
        /\ r[0].bool = << >>
    BY <1>4, <2>2 DEF Ready, IsReader, Fields
  <2>4. Level(wire, w[0], r[0])
    BY <1>3, <1>4, <1>5, <1>6, <2>1, <2>3 DEF Level, WriterAfter
  <2> QED
    BY <1>5, <1>6, <2>4 DEF Fine, w, r
<1>7. CASE p # "compact"
  <2>1. w[0].out = << >> /\ w[0].strict = (p = "binary")
    BY <1>2, <1>7 DEF NewWriter, B!NewWriter
  <2>2. r[0] = [wire |-> wire, pos |-> 1, ok |-> TRUE, v |-> 0, strict |-> (p = "binary")]
    BY <1>2, <1>7 DEF NewReader, B!NewReader
  <2>3. BinaryReady(r[0]) /\ r[0].wire = wire /\ r[0].pos = 1 /\ r[0].strict = (p = "binary")
    BY <1>4, <2>2 DEF BinaryReady, IsBinary, BinaryFields, Placed
  <2>4. BinaryLevel(wire, w[0], r[0])
    BY <1>3, <1>4, <1>7, <2>1, <2>3 DEF BinaryLevel, WriterAfter
  <2> QED
    BY <1>7, <2>4 DEF Fine, w, r
<1> QED
  BY <1>6, <1>7

(* One more call: it reads back what was written, or fails for want of bytes. *)
LEMMA FineNext ==
  ASSUME NEW p \in Protocols, NEW cs, Orderly(cs), NEW wire \in Seq(Byte), Common(wire, Whole(p, cs)),
         NEW k \in Nat, k + 1 <= Len(cs), Fine(p, wire, cs, k)
  PROVE  IF Reached(p, cs, k + 1) <= Len(wire)
         THEN Fine(p, wire, cs, k + 1) /\ Back(Readers(p, wire, cs)[k + 1].v, cs[k + 1])
         ELSE Readers(p, wire, cs)[k + 1].ok = FALSE
<1> DEFINE w == Writers(p, cs)
           r == Readers(p, wire, cs)
           c == cs[k + 1]
<1>1. k + 1 \in 1..Len(cs) /\ c \in ProtocolCalls /\ Len(cs) \in Nat /\ (k + 1) - 1 = k
  BY OrderlyCalls
<1>2. r[k + 1] = Get(p, r[k], Asked(c))
  <2>1. \A j \in 1..Len(cs) : r[j] = Get(p, r[j - 1], Asked(cs[j]))
    BY <1>1, CallsAre
  <2> HIDE DEF r
  <2> QED
    BY <1>1, <2>1
<1>3. /\ w[k + 1] = WriteCall(p, w[k], c)
      /\ w[k].out \in Seq(Byte) /\ CallBytes(p, w[k], c) \in Seq(Byte)
      /\ w[k + 1].out = w[k].out \o CallBytes(p, w[k], c)
      /\ p = "compact" /\ c.op = "structEnd" => w[k].stack # << >>
  BY OutNext
<1>4. \A x : x.wire = wire /\ x.pos = Len(w[k].out) + 1 =>
             Agrees(x, CallBytes(p, w[k], c))
             /\ (Holds(x, Len(CallBytes(p, w[k], c))) <=> Len(w[k + 1].out) <= Len(wire))
  BY AgreesNext
<1>5. CASE p # "compact"
  <2>1. BinaryLevel(wire, w[k], r[k])
    BY <1>5 DEF Fine
  <2>2. CallBytes(p, w[k], c) = BinaryBytes(w[k], c) /\ w[k + 1] = BinaryCall(w[k], c)
        /\ r[k + 1] = BinaryGet(r[k], Asked(c))
    BY <1>2, <1>3, <1>5 DEF CallBytes, WriteCall, Get
  <2>3. r[k].wire = wire /\ r[k].pos = Len(w[k].out) + 1
    BY <2>1 DEF BinaryLevel
  <2>4. Reached(p, cs, k + 1) = Len(w[k + 1].out)
    BY <1>5 DEF Reached, Early
  <2> HIDE DEF w, r, c
  <2>5. Agrees(r[k], BinaryBytes(w[k], c))
        /\ (Holds(r[k], Len(BinaryBytes(w[k], c))) <=> Len(w[k + 1].out) <= Len(wire))
    BY <1>4, <2>2, <2>3
  <2>6. IF Holds(r[k], Len(BinaryBytes(w[k], c)))
        THEN BinaryLevel(wire, w[k + 1], r[k + 1]) /\ Back(r[k + 1].v, c) ELSE r[k + 1].ok = FALSE
    <3> DEFINE u == w[k]
               x == r[k]
    <3>1. BinaryLevel(wire, u, x) /\ Agrees(x, BinaryBytes(u, c))
      BY <2>1, <2>5
    <3> HIDE DEF u, x
    <3>2. IF Holds(x, Len(BinaryBytes(u, c)))
          THEN BinaryLevel(wire, BinaryCall(u, c), BinaryGet(x, Asked(c))) /\ Back(BinaryGet(x, Asked(c)).v, c)
          ELSE BinaryGet(x, Asked(c)).ok = FALSE
      BY <1>1, <3>1, BinaryStep
    <3> QED
      BY <2>2, <3>2 DEF u, x
  <2>7. BinaryLevel(wire, w[k + 1], r[k + 1]) => Fine(p, wire, cs, k + 1)
    BY <1>5 DEF Fine, w, r
  <2> QED
    BY <2>4, <2>5, <2>6, <2>7 DEF w, r, c
<1>6. CASE p = "compact"
  <2>1. CallBytes(p, w[k], c) = CompactBytes(w[k], c) /\ w[k + 1] = CompactCall(w[k], c)
        /\ r[k + 1] = CompactGet(r[k], Asked(c))
    BY <1>2, <1>3, <1>6 DEF CallBytes, WriteCall, Get
  <2>2. CASE Early(p, cs, k)
    <3>1. Ahead(wire, w[k], r[k], w[k + 1], cs[k], c)
      BY <1>6, <2>2 DEF Fine
    <3>2. k \in 1..Len(cs)
      BY <1>1, <2>2 DEF Early
    <3>3. c.op = "bool"
      BY <2>2, <3>2, OrderlyCalls DEF Early
    <3>4. ~ Early(p, cs, k + 1)
      BY <3>3 DEF Early, BoolField
    <3>5. Reached(p, cs, k + 1) = Len(w[k + 1].out)
      BY <3>4 DEF Reached
    <3>6. Level(wire, w[k + 1], r[k + 1]) => Fine(p, wire, cs, k + 1)
      BY <1>6, <3>4 DEF Fine
    <3> HIDE DEF w, r, c
    <3>7. Level(wire, w[k + 1], r[k + 1]) /\ Back(r[k + 1].v, c)
      BY <2>1, <3>1, <3>3, CompactBoolValue
    <3>8. Len(w[k + 1].out) <= Len(wire)
      <4>1. r[k].pos = Len(w[k + 1].out) + 1 /\ r[k].pos \in 1..Len(wire) + 1 /\ w[k + 1].out \in Seq(Byte)
        BY <3>1 DEF Ahead, Ready, CompactWriters
      <4>2. Len(w[k + 1].out) \in Nat /\ Len(wire) \in Nat
        BY <4>1, LenProperties
      <4> QED
        BY <4>1, <4>2
    <3> QED
      BY <3>5, <3>6, <3>7, <3>8 DEF r, c
  <2>3. CASE ~ Early(p, cs, k) /\ ~ BoolField(c)
    <3>1. Level(wire, w[k], r[k])
      BY <1>6, <2>3 DEF Fine
    <3>2. r[k].wire = wire /\ r[k].pos = Len(w[k].out) + 1
      BY <3>1 DEF Level
    <3>3. ~ Early(p, cs, k + 1)
      BY <2>3 DEF Early
    <3>4. Reached(p, cs, k + 1) = Len(w[k + 1].out)
      BY <3>3 DEF Reached
    <3>5. Level(wire, w[k + 1], r[k + 1]) => Fine(p, wire, cs, k + 1)
      BY <1>6, <3>3 DEF Fine
    <3> HIDE DEF w, r, c
    <3>6. Agrees(r[k], CompactBytes(w[k], c))
          /\ (Holds(r[k], Len(CompactBytes(w[k], c))) <=> Len(w[k + 1].out) <= Len(wire))
      BY <1>4, <2>1, <3>2
    <3>7. IF Holds(r[k], Len(CompactBytes(w[k], c)))
          THEN Level(wire, w[k + 1], r[k + 1]) /\ Back(r[k + 1].v, c) ELSE r[k + 1].ok = FALSE
      <4> DEFINE u == w[k]
                 x == r[k]
      <4>1. Level(wire, u, x) /\ Agrees(x, CompactBytes(u, c)) /\ (c.op = "structEnd" => u.stack # << >>)
        BY <1>3, <1>6, <3>1, <3>6
      <4> HIDE DEF u, x
      <4>2. IF Holds(x, Len(CompactBytes(u, c)))
            THEN Level(wire, CompactCall(u, c), CompactGet(x, Asked(c))) /\ Back(CompactGet(x, Asked(c)).v, c)
            ELSE CompactGet(x, Asked(c)).ok = FALSE
        BY <1>1, <2>3, <4>1, CompactStep
      <4> QED
        BY <2>1, <4>2 DEF u, x
    <3> QED
      BY <3>4, <3>5, <3>6, <3>7 DEF r, c
  <2>4. CASE ~ Early(p, cs, k) /\ BoolField(c)
    <3> DEFINE d == cs[(k + 1) + 1]
    <3>1. Level(wire, w[k], r[k])
      BY <1>6, <2>4 DEF Fine
    <3>2. (k + 1) + 1 \in 1..Len(cs) /\ d.op = "bool" /\ d \in ProtocolCalls
      BY <1>1, <2>4, OrderlyCalls
    <3>3. Early(p, cs, k + 1)
      BY <1>6, <2>4 DEF Early
    <3>4. Reached(p, cs, k + 1) = Len(w[(k + 1) + 1].out)
      BY <3>3 DEF Reached
    <3>5. Ahead(wire, w[k + 1], r[k + 1], w[(k + 1) + 1], c, d) => Fine(p, wire, cs, k + 1)
      BY <1>6, <3>3 DEF Fine
    <3>6. k + 1 \in Nat /\ (k + 1) + 1 <= Len(cs)
      BY <1>1, <3>2
    <3>7. w[(k + 1) + 1] = WriteCall(p, w[k + 1], d)
      BY <3>6, OutNext
    <3>8. \A x : x.wire = wire /\ x.pos = Len(w[k + 1].out) + 1 =>
                 Agrees(x, CallBytes(p, w[k + 1], d))
                 /\ (Holds(x, Len(CallBytes(p, w[k + 1], d))) <=> Len(w[(k + 1) + 1].out) <= Len(wire))
      BY <3>6, AgreesNext
    <3>9. CallBytes(p, w[k + 1], d) = CompactBytes(w[k + 1], d) /\ w[(k + 1) + 1] = CompactCall(w[k + 1], d)
      BY <1>6, <3>7 DEF CallBytes, WriteCall
    <3>10. CallBytes(p, w[k], c) = << >>
      BY <2>1, <2>4 DEF BoolField, CompactBytes
    <3> HIDE DEF w, r, c, d
    <3>11. w[k + 1].out = w[k].out
      BY <1>3, <3>10, ConcatEmptySeq
    <3>12. r[k].wire = wire /\ r[k].pos = Len(w[k + 1].out) + 1
      BY <3>1, <3>11 DEF Level
    <3>13. Agrees(r[k], CompactBytes(CompactCall(w[k], c), d))
           /\ (Holds(r[k], Len(CompactBytes(CompactCall(w[k], c), d))) <=> Len(w[(k + 1) + 1].out) <= Len(wire))
      BY <2>1, <3>8, <3>9, <3>12
    <3>14. IF Holds(r[k], Len(CompactBytes(CompactCall(w[k], c), d)))
           THEN Ahead(wire, CompactCall(w[k], c), CompactGet(r[k], Asked(c)),
                      CompactCall(CompactCall(w[k], c), d), c, d)
                /\ Back(CompactGet(r[k], Asked(c)).v, c)
           ELSE CompactGet(r[k], Asked(c)).ok = FALSE
      BY <1>1, <2>4, <3>1, <3>2, <3>13, CompactBoolHeader
    <3>15. IF Len(w[(k + 1) + 1].out) <= Len(wire)
           THEN Ahead(wire, w[k + 1], r[k + 1], w[(k + 1) + 1], c, d) /\ Back(r[k + 1].v, c)
           ELSE r[k + 1].ok = FALSE
      BY <2>1, <3>9, <3>13, <3>14
    <3> QED
      BY <3>4, <3>5, <3>15 DEF r, c
  <2> QED
    BY <2>2, <2>3, <2>4
<1> QED
  BY <1>5, <1>6

(* Where the reader is. *)
LEMMA FineIs ==
  ASSUME NEW p \in Protocols, NEW cs, Orderly(cs), NEW wire \in Seq(Byte), NEW k \in 0..Len(cs),
         Fine(p, wire, cs, k)
  PROVE  /\ Readers(p, wire, cs)[k].ok = TRUE /\ Readers(p, wire, cs)[k].pos = Reached(p, cs, k) + 1
         /\ Reached(p, cs, k) <= Len(wire)
<1> DEFINE w == Writers(p, cs)
           r == Readers(p, wire, cs)
<1>1. CASE p # "compact"
  <2>1. BinaryLevel(wire, w[k], r[k]) /\ Reached(p, cs, k) = Len(w[k].out)
    BY <1>1 DEF Fine, Reached, Early
  <2> HIDE DEF w, r
  <2>2. r[k].ok = TRUE /\ r[k].pos = Len(w[k].out) + 1 /\ r[k].pos \in 1..Len(wire) + 1 /\ w[k].out \in Seq(Byte)
    BY <2>1 DEF BinaryLevel, BinaryReady, BinaryWriters, Placed
  <2>3. Len(w[k].out) \in Nat /\ Len(wire) \in Nat
    BY <2>2, LenProperties
  <2> QED
    BY <2>1, <2>2, <2>3 DEF r
<1>2. CASE p = "compact" /\ Early(p, cs, k)
  <2>1. Ahead(wire, w[k], r[k], w[k + 1], cs[k], cs[k + 1]) /\ Reached(p, cs, k) = Len(w[k + 1].out)
    BY <1>2 DEF Fine, Reached
  <2> HIDE DEF w, r
  <2>2. r[k].ok = TRUE /\ r[k].pos = Len(w[k + 1].out) + 1 /\ r[k].pos \in 1..Len(wire) + 1
        /\ w[k + 1].out \in Seq(Byte)
    BY <2>1 DEF Ahead, Ready, CompactWriters
  <2>3. Len(w[k + 1].out) \in Nat /\ Len(wire) \in Nat
    BY <2>2, LenProperties
  <2> QED
    BY <2>1, <2>2, <2>3 DEF r
<1>3. CASE p = "compact" /\ ~ Early(p, cs, k)
  <2>1. Level(wire, w[k], r[k]) /\ Reached(p, cs, k) = Len(w[k].out)
    BY <1>3 DEF Fine, Reached
  <2> HIDE DEF w, r
  <2>2. r[k].ok = TRUE /\ r[k].pos = Len(w[k].out) + 1 /\ r[k].pos \in 1..Len(wire) + 1 /\ w[k].out \in Seq(Byte)
    BY <2>1 DEF Level, Ready, CompactWriters
  <2>3. Len(w[k].out) \in Nat /\ Len(wire) \in Nat
    BY <2>2, LenProperties
  <2> QED
    BY <2>1, <2>2, <2>3 DEF r
<1> QED
  BY <1>1, <1>2, <1>3

(* No reader is to come further than what was written. *)
LEMMA ReachedWithin ==
  ASSUME NEW p \in Protocols, NEW cs, Orderly(cs), NEW k \in 0..Len(cs)
  PROVE  Reached(p, cs, k) \in Nat /\ Reached(p, cs, k) <= Len(Whole(p, cs)) /\ Len(Whole(p, cs)) \in Nat
         /\ Reached(p, cs, Len(cs)) = Len(Whole(p, cs))
<1>1. Len(cs) \in Nat /\ \A j \in 1..Len(cs) : BoolField(cs[j]) => j + 1 \in 0..Len(cs)
  BY OrderlyCalls
<1>2. (IF Early(p, cs, k) THEN k + 1 ELSE k) \in 0..Len(cs)
  <2>1. Early(p, cs, k) => k \in 1..Len(cs) /\ BoolField(cs[k])
    BY DEF Early
  <2> QED
    BY <1>1, <2>1
<1>3. ~ Early(p, cs, Len(cs))
  <2>1. SUFFICES ASSUME Len(cs) > 0, BoolField(cs[Len(cs)]) PROVE FALSE
    BY DEF Early
  <2>2. Len(cs) \in 1..Len(cs)
    BY <1>1, <2>1
  <2>3. Len(cs) + 1 \in 0..Len(cs)
    BY <1>1, <2>1, <2>2
  <2> QED
    BY <1>1, <2>3
<1> DEFINE j == IF Early(p, cs, k) THEN k + 1 ELSE k
<1>4. Reached(p, cs, k) = Len(Writers(p, cs)[j].out)
  BY DEF Reached
<1>5. Reached(p, cs, Len(cs)) = Len(Whole(p, cs))
  BY <1>3 DEF Reached, Whole
<1> HIDE DEF j
<1>6. Begins(Writers(p, cs)[j].out, Whole(p, cs)) /\ Writers(p, cs)[j].out \in Seq(Byte)
  BY <1>2, OutBegins DEF j, Whole
<1>7. Whole(p, cs) \in Seq(Byte)
  <2>1. Len(cs) \in 0..Len(cs)
    BY <1>1
  <2> QED
    BY <2>1, OutBegins DEF Whole
<1>8. Len(Whole(p, cs)) \in Nat
  BY <1>7, LenProperties
<1> QED
  BY <1>4, <1>5, <1>6, <1>8, LenProperties DEF Begins

(* Whatever calls a writer of the compact protocol, or of the strict or lax    *)
(* binary one, was asked for, in an order that generated code keeps to: a      *)
(* reader that is asked for the same calls returns what was written, each and  *)
(* in order, and stops after the last byte, whatever follows.  If some of the  *)
(* bytes are missing, a call fails, after calls that all returned what was     *)
(* written: none takes what is left of the wire for something else.  (The      *)
(* Write and Read methods of compact_protocol.go and binary_protocol.go.)      *)
THEOREM CallsReadBack ==
  ASSUME NEW p \in Protocols, NEW cs, Orderly(cs), NEW wire \in Seq(Byte),
         Common(wire, Writers(p, cs)[Len(cs)].out)
  PROVE  LET out == Writers(p, cs)[Len(cs)].out
             r == Readers(p, wire, cs)
             Right(k) == r[k].ok = TRUE /\ Back(r[k].v, cs[k])
         IN  IF Len(out) <= Len(wire)
             THEN (\A k \in 1..Len(cs) : Right(k)) /\ r[Len(cs)].pos = Len(out) + 1
             ELSE \E k \in 1..Len(cs) : r[k].ok = FALSE /\ \A j \in 1..k - 1 : Right(j)
<1> DEFINE out == Whole(p, cs)
           r == Readers(p, wire, cs)
           n == Len(cs)
           fine(k) == Fine(p, wire, cs, k)
           Right(k) == r[k].ok = TRUE /\ Back(r[k].v, cs[k])
           good(k) == fine(k) /\ (k > 0 => Right(k))
           reached(k) == Reached(p, cs, k)
           S == {k \in Nat : k <= n /\ ~ good(k)}
<1>1. n \in Nat /\ Common(wire, out)
  BY OrderlyCalls DEF Whole
<1>2. fine(0)
  BY FineFirst
<1>3. ASSUME NEW k \in Nat, k + 1 <= n, fine(k)
      PROVE  IF reached(k + 1) <= Len(wire) THEN fine(k + 1) /\ Back(r[k + 1].v, cs[k + 1])
             ELSE r[k + 1].ok = FALSE
  BY <1>1, <1>3, FineNext
<1>4. \A k \in 0..n : fine(k) => r[k].ok = TRUE /\ r[k].pos = reached(k) + 1 /\ reached(k) <= Len(wire)
  BY FineIs
<1>5. \A k \in 0..n : reached(k) <= Len(out) /\ reached(n) = Len(out) /\ Len(out) \in Nat
                         /\ reached(k) \in Nat
  BY ReachedWithin
<1>6. reached(n) = Len(out) /\ Len(out) \in Nat /\ Len(wire) \in Nat
  <2>1. n \in 0..n
    BY <1>1
  <2> QED
    BY <1>5, <2>1, LenProperties
<1> HIDE DEF out, r, fine, reached, n
<1>7. ASSUME NEW k \in S, \A j \in S : k <= j
      PROVE  k \in 1..n /\ r[k].ok = FALSE /\ ~ (reached(k) <= Len(wire)) /\ \A j \in 1..k - 1 : Right(j)
  <2>1. k \in Nat /\ k <= n /\ ~ good(k)
    OBVIOUS
  <2>2. k # 0
    BY <1>2, <2>1
  <2> DEFINE i == k - 1
  <2>3. i \in Nat /\ i + 1 = k /\ i + 1 <= n /\ i <= n /\ i \notin S
    BY <1>1, <1>7, <2>1, <2>2
  <2>4. fine(i)
    BY <2>3
  <2>5. IF reached(i + 1) <= Len(wire) THEN fine(i + 1) /\ Back(r[i + 1].v, cs[i + 1]) ELSE r[i + 1].ok = FALSE
    BY <1>3, <2>3, <2>4
  <2>6. IF reached(k) <= Len(wire) THEN fine(k) /\ Back(r[k].v, cs[k]) ELSE r[k].ok = FALSE
    BY <2>3, <2>5
  <2>7. k \in 1..n /\ k \in 0..n
    BY <1>1, <2>1, <2>2
  <2>8. fine(k) => r[k].ok = TRUE
    BY <1>4, <2>7
  <2>9. ~ (reached(k) <= Len(wire)) /\ r[k].ok = FALSE
    BY <2>1, <2>6, <2>8
  <2>10. \A j \in 1..k - 1 : Right(j)
    <3> TAKE j \in 1..k - 1
    <3>1. j \in Nat /\ j <= n /\ j > 0 /\ ~ (k <= j)
      BY <1>1, <2>1
    <3>2. j \notin S
      BY <1>7, <3>1
    <3> QED
      BY <3>1, <3>2
  <2> QED
    BY <2>7, <2>9, <2>10
<1>8. S = {} => (\A k \in 1..n : Right(k)) /\ fine(n)
  <2>1. SUFFICES ASSUME S = {} PROVE (\A k \in 1..n : Right(k)) /\ fine(n)
    OBVIOUS
  <2>2. \A k \in Nat : k <= n => good(k)
    BY <2>1
  <2>3. \A k \in 1..n : k \in Nat /\ k <= n /\ k > 0
    BY <1>1
  <2> QED
    BY <1>1, <2>2, <2>3
<1>9. S # {} => \E k \in S : \A j \in S : k <= j
  <2>1. S \in SUBSET Nat
    OBVIOUS
  <2> HIDE DEF S
  <2> QED
    BY <2>1, LeastNumber
<1>10. CASE Len(out) <= Len(wire)
  <2>1. S = {}
    <3>1. SUFFICES ASSUME S # {} PROVE FALSE
      OBVIOUS
    <3>2. PICK k \in S : \A j \in S : k <= j
      BY <1>9, <3>1
    <3>3. k \in 1..n /\ ~ (reached(k) <= Len(wire))
      BY <1>7, <3>2
    <3>4. k \in 0..n
      BY <1>1, <3>3
    <3>5. reached(k) <= Len(out)
      BY <1>5, <3>4
    <3>6. reached(k) \in Nat
      BY <1>5, <3>4
    <3> QED
      BY <1>6, <1>10, <3>3, <3>5, <3>6
  <2>2. r[n].pos = Len(out) + 1
    <3>1. n \in 0..n
      BY <1>1
    <3> HIDE DEF S
    <3> QED
      BY <1>4, <1>6, <1>8, <2>1, <3>1
  <2> QED
    BY <1>8, <1>10, <2>1, <2>2 DEF Whole, out, r, n
<1>11. CASE ~ (Len(out) <= Len(wire))
  <2>1. S # {}
    <3>1. SUFFICES ASSUME S = {} PROVE FALSE
      OBVIOUS
    <3>2. n \in 0..n /\ fine(n)
      BY <1>1, <1>8, <3>1
    <3> QED
      BY <1>4, <1>6, <1>11, <3>2
  <2>2. PICK k \in S : \A j \in S : k <= j
    BY <1>9, <2>1
  <2>3. k \in 1..n /\ r[k].ok = FALSE /\ \A j \in 1..k - 1 : Right(j)
    BY <1>7, <2>2
  <2> QED
    BY <1>11, <2>3 DEF Whole, out, r, n
<1> QED
  BY <1>10, <1>11

=============================================================================
