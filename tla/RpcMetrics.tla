------------------------------ MODULE RpcMetrics ------------------------------
(***************************************************************************)
(* The RPC metrics observer (rpcmetrics): goroutines that finish server    *)
(* spans look the endpoint's name up in a bounded cache of normalised      *)
(* names and then its metrics in a registry, each behind a read-write lock *)
(* that is released between the look-up and the insertion.                 *)
(***************************************************************************)
EXTENDS Integers, FiniteSets, FiniteSetsExt, Functions

CONSTANTS
  Calls,                (* the spans, each with its observer                 *)
  Operations, Normal,   (* names, and NameNormalizer.Normalize               *)
  MaxEndpoints,         (* maxNumberOfEndpoints                              *)
  Codes,                (* values of the tag http.status_code, as an int     *)
  MaxTags               (* bound on the tags set on a span                   *)

Other == "other"
NoName == ""          (* no safe name was found *)
Kinds == {"local", "inbound", "outbound"}

MetricsAssumption ==
  /\ DOMAIN Normal = Operations /\ MaxEndpoints \in Nat /\ Codes \subseteq Nat

VARIABLES
  names,                (* normalizedEndpoints.names                         *)
  metricsByEndpoint,    (* its keys: the safe names with metrics             *)
  inits,                (* history: how often metrics were made for a name   *)
  requests, statuses,   (* the counters, of each safe name                   *)
  observer,             (* of each call: name, kind, err, code               *)
  tags,                 (* tags set on each span                             *)
  pc, safeName,         (* of the goroutine that finishes the span           *)
  missed                (* history: calls that got "" for a cached name      *)

rpcVars == <<names, metricsByEndpoint, inits, requests, statuses, observer, tags, pc,
             safeName, missed>>

SafeNames == Range(Normal) \cup {Other}
Outcomes  == {"success", "failure"}
Classes   == {2, 3, 4, 5}

MetricsInit ==
  /\ names = [o \in {} |-> Other] /\ metricsByEndpoint = {}
  /\ inits = [n \in SafeNames |-> 0]
  /\ requests = [n \in SafeNames |-> [o \in Outcomes |-> 0]]
  /\ statuses = [n \in SafeNames |-> [c \in Classes |-> 0]]
  /\ observer \in [Calls -> [name : Operations, kind : {"local", "inbound"}, err : {FALSE},
                             code : {0}]]
  /\ tags = [c \in Calls |-> 0]
  /\ pc = [c \in Calls |-> "open"] /\ safeName = [c \in Calls |-> NoName]
  /\ missed = {}

goto(c, label) == pc' = [pc EXCEPT ![c] = label]

registryVars == <<names, metricsByEndpoint, inits, requests, statuses, missed>>

-----------------------------------------------------------------------------
(* handleTagInLock: the tags that matter; an int is cut to 16 bits. *)
SetTag(c) ==
  /\ pc[c] = "open" /\ tags[c] < MaxTags /\ tags' = [tags EXCEPT ![c] = @ + 1]
  /\ \/ \E kind \in {"inbound", "outbound"} : observer' = [observer EXCEPT ![c].kind = kind]
     \/ \E err \in BOOLEAN : observer' = [observer EXCEPT ![c].err = err]
     \/ \E code \in Codes : observer' = [observer EXCEPT ![c].code = code % 2^16]
  /\ UNCHANGED <<registryVars, pc, safeName>>

SetOperationName(c) ==
  /\ pc[c] = "open" /\ tags[c] < MaxTags /\ tags' = [tags EXCEPT ![c] = @ + 1]
  /\ \E o \in Operations : observer' = [observer EXCEPT ![c].name = o]
  /\ UNCHANGED <<registryVars, pc, safeName>>

(* OnFinish has an effect for a server span only (with a name, as all have). *)
OnFinish(c) ==
  /\ pc[c] = "open"
  /\ goto(c, IF observer[c].kind = "inbound" THEN "normalize" ELSE "done")
  /\ UNCHANGED <<registryVars, observer, tags, safeName>>

(* normalize, under the read lock *)
Normalize(c) ==
  LET name == observer[c].name
  IN /\ pc[c] = "normalize"
     /\ IF name \in DOMAIN names
        THEN safeName' = [safeName EXCEPT ![c] = names[name]] /\ goto(c, "get")
        ELSE IF Cardinality(DOMAIN names) >= MaxEndpoints
        THEN safeName' = [safeName EXCEPT ![c] = NoName] /\ goto(c, "get")
        ELSE UNCHANGED safeName /\ goto(c, "cache")
  /\ UNCHANGED <<registryVars, observer, tags>>

Cached(name) == [o \in DOMAIN names \cup {name} |-> Normal[o]]

(* normalizeWithLock: only the size is checked again, not the name. *)
NormalizeWithLock(c) ==
  LET name == observer[c].name
      full == Cardinality(DOMAIN names) >= MaxEndpoints
  IN /\ pc[c] = "cache"
     /\ names' = IF full THEN names ELSE Cached(name)
     /\ safeName' = [safeName EXCEPT ![c] = IF full THEN NoName ELSE Normal[name]]
     /\ missed' = IF full /\ name \in DOMAIN names THEN missed \cup {c} ELSE missed
     /\ goto(c, "get")
     /\ UNCHANGED <<metricsByEndpoint, inits, requests, statuses, observer, tags>>

MetricsName(c) == IF safeName[c] = NoName THEN Other ELSE safeName[c]

(* MetricsByEndpoint.get, under the read lock *)
GetMetrics(c) ==
  /\ pc[c] = "get"
  /\ goto(c, IF MetricsName(c) \in metricsByEndpoint THEN "count" ELSE "register")
  /\ UNCHANGED <<registryVars, observer, tags, safeName>>

RegisterUnchecked(c) ==                                          \* mutant
  /\ pc[c] = "register"
  /\ metricsByEndpoint' = metricsByEndpoint \cup {MetricsName(c)}
  /\ inits' = [inits EXCEPT ![MetricsName(c)] = @ + 1]
  /\ goto(c, "count")
  /\ UNCHANGED <<names, requests, statuses, observer, tags, safeName, missed>>

(* getWithWriteLock looks again. *)
GetWithWriteLock(c) ==
  /\ pc[c] = "register"
  /\ metricsByEndpoint' = metricsByEndpoint \cup {MetricsName(c)}
  /\ inits' = IF MetricsName(c) \in metricsByEndpoint THEN inits
              ELSE [inits EXCEPT ![MetricsName(c)] = @ + 1]
  /\ goto(c, "count")
  /\ UNCHANGED <<names, requests, statuses, observer, tags, safeName, missed>>

Outcome(o) == IF o.err THEN "failure" ELSE "success"

(* The counters of OnFinish and recordHTTPStatusCode *)
Count(c) ==
  LET class == observer[c].code \div 100
  IN /\ pc[c] = "count"
     /\ requests' = [requests EXCEPT ![MetricsName(c)][Outcome(observer[c])] = @ + 1]
     /\ statuses' = IF class \in Classes THEN [statuses EXCEPT ![MetricsName(c)][class] = @ + 1]
                    ELSE statuses
     /\ goto(c, "done")
     /\ UNCHANGED <<names, metricsByEndpoint, inits, observer, tags, safeName, missed>>

MetricsNext ==
  \E c \in Calls :
    \/ SetTag(c) \/ SetOperationName(c) \/ OnFinish(c) \/ Normalize(c)
    \/ NormalizeWithLock(c) \/ GetMetrics(c) \/ GetWithWriteLock(c) \/ Count(c)

MetricsSpec == MetricsInit /\ [][MetricsNext]_rpcVars

-----------------------------------------------------------------------------
(* However the look-ups interleave, no endpoint gets a second set of metrics   *)
(* (metrics.go:116 warns of backends that do not accept one), there are at     *)
(* most MaxEndpoints of them and "other" (endpoints.go:57), and every finished *)
(* server span is counted once, under its own name or "other" (observer.go:139). *)
EndpointsExact ==
  /\ \A n \in SafeNames : inits[n] = IF n \in metricsByEndpoint THEN 1 ELSE 0
  /\ Cardinality(DOMAIN names) <= MaxEndpoints
  /\ Cardinality(metricsByEndpoint \ {Other}) <= MaxEndpoints
  /\ \A n \in SafeNames, o \in Outcomes :
       requests[n][o] = Cardinality({c \in Calls :
         /\ pc[c] = "done" /\ observer[c].kind = "inbound" /\ Outcome(observer[c]) = o
         /\ n = MetricsName(c) /\ n \in {Normal[observer[c].name], Other}})

(* If called with more than maxSize unique names it returns "" for all other   *)
(* names beyond those already cached (endpoints.go:37): never for a cached one. *)
CachedNamesAreUsed == missed = {}
=============================================================================
