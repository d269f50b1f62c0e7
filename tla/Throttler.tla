------------------------------- MODULE Throttler -------------------------------
(***************************************************************************)
(* The throttler of debug traces (internal/throttler/remote): credits per  *)
(* operation under one mutex, a goroutine that asks the agent for more at  *)
(* each tick, and, if initialisation is synchronous, a call that asks for  *)
(* itself while it holds the mutex.  The agent deducts what it grants when *)
(* it answers, so that an answer that is lost takes its credits with it.   *)
(* Credits are counted in halves, so that a balance below minimumCredits   *)
(* need not be zero.                                                       *)
(***************************************************************************)
EXTENDS Integers, FiniteSetsExt, Functions

CONSTANTS
  Operations,
  Callers,              (* goroutines that call IsAllowed                    *)
  Poller,               (* the goroutine pollManager                         *)
  Synchronous,          (* option synchronousInitialization                  *)
  Supply                (* bound: all the agent ever grants to each operation *)

ASSUME ThrottlerAssumption ==
  /\ Poller \notin Callers /\ "free" \notin Callers
  /\ Synchronous \in BOOLEAN
  /\ Supply \in [Operations -> Nat]

Clients == Callers \cup {Poller}
minimumCredits == 2

VARIABLES
  uuid,                 (* SetProcess has stored the UUID of the tracer      *)
  credits,              (* the map of credits: a function on the known names *)
  mux,                  (* "free" or the caller that fetches under the lock  *)
  loop,                 (* the poller: select, operations, refresh, stopped  *)
  stop,                 (* the channel close is closed                       *)
  fetch,                (* each client's request: none, sent, answered, failed *)
  asked, balances,      (* its operations, and the balances of the answer    *)
  granted, lost,        (* history: what the agent granted, what never came  *)
  allowed               (* history: debug traces allowed for each operation  *)

throttlerVars ==
  <<uuid, credits, mux, loop, stop, fetch, asked, balances, granted, lost, allowed>>

ThrottlerInit ==
  /\ uuid = FALSE /\ credits = << >> /\ mux = "free"
  /\ loop = "select" /\ stop = FALSE
  /\ fetch = [c \in Clients |-> "none"] /\ asked = [c \in Clients |-> {}]
  /\ balances = [c \in Clients |-> << >>]
  /\ granted = [o \in Operations |-> 0] /\ lost = [o \in Operations |-> 0]
  /\ allowed = [o \in Operations |-> 0]

-----------------------------------------------------------------------------
(* map[o], which is 0 for a name that is not in the map. *)
Entry(map, o) == IF o \in DOMAIN map THEN map[o] ELSE 0

Balance(o) == Entry(credits, o)

CreditedOver(map, answer) ==                                     \* mutant
  [o \in DOMAIN map \cup DOMAIN answer |->
     IF o \in DOMAIN answer THEN answer[o] ELSE map[o]]

(* The map with the balances of an answer added to it. *)
Credited(map, answer) ==
  [o \in DOMAIN map \cup DOMAIN answer |-> Entry(map, o) + Entry(answer, o)]

(* isAllowed: take the price of a trace from the map, if it is there. *)
Spend(map, o) ==
  IF map[o] < minimumCredits
  THEN credits' = map /\ UNCHANGED allowed
  ELSE /\ credits' = [map EXCEPT ![o] = @ - minimumCredits]
       /\ allowed' = [allowed EXCEPT ![o] = @ + 1]

(* IsAllowed of an operation with credits, or of one whose balance is zero or  *)
(* unknown and that is not worth a request: the name is stored either way.     *)
IsAllowed(c, o) ==
  /\ mux = "free" /\ fetch[c] = "none"
  /\ Balance(o) = 0 => ~Synchronous \/ ~uuid
  /\ Spend(Credited(credits, [p \in {o} |-> 0]), o)
  /\ UNCHANGED <<uuid, mux, loop, stop, fetch, asked, balances, granted, lost>>

(* IsAllowed asks the agent, and keeps the lock until it has the answer. *)
IsAllowedFetch(c, o) ==
  /\ mux = "free" /\ fetch[c] = "none"
  /\ Balance(o) = 0 /\ Synchronous /\ uuid
  /\ mux' = c
  /\ credits' = Credited(credits, [p \in {o} |-> 0])
  /\ fetch' = [fetch EXCEPT ![c] = "sent"] /\ asked' = [asked EXCEPT ![c] = {o}]
  /\ UNCHANGED <<uuid, loop, stop, balances, granted, lost, allowed>>

(* The answer to that request, an empty one included. *)
IsAllowedFetched(c) ==
  /\ mux = c /\ fetch[c] = "answered"
  /\ LET o == CHOOSE o \in asked[c] : TRUE IN Spend(Credited(credits, balances[c]), o)
  /\ mux' = "free"
  /\ fetch' = [fetch EXCEPT ![c] = "none"] /\ asked' = [asked EXCEPT ![c] = {}]
  /\ balances' = [balances EXCEPT ![c] = << >>]
  /\ UNCHANGED <<uuid, loop, stop, granted, lost>>

IsAllowedKeepsLock(c) ==                                         \* mutant
  /\ mux = c /\ fetch[c] = "failed"
  /\ fetch' = [fetch EXCEPT ![c] = "none"] /\ asked' = [asked EXCEPT ![c] = {}]
  /\ UNCHANGED <<uuid, credits, mux, loop, stop, balances, granted, lost, allowed>>

(* The request failed: try again at the next call. *)
IsAllowedFailed(c) ==
  /\ mux = c /\ fetch[c] = "failed"
  /\ mux' = "free"
  /\ fetch' = [fetch EXCEPT ![c] = "none"] /\ asked' = [asked EXCEPT ![c] = {}]
  /\ UNCHANGED <<uuid, credits, loop, stop, balances, granted, lost, allowed>>

SetProcess ==
  /\ ~uuid /\ uuid' = TRUE
  /\ UNCHANGED <<credits, mux, loop, stop, fetch, asked, balances, granted, lost, allowed>>

-----------------------------------------------------------------------------
(* The agent and the way to it. *)

(* The agent answers with a balance for each operation it was asked for. *)
AgentAnswers(c) ==
  /\ fetch[c] = "sent"
  /\ \E grant \in [asked[c] -> 0..Max(Range(Supply))] :
       /\ \A o \in asked[c] : granted[o] + grant[o] <= Supply[o]
       /\ granted' = [o \in Operations |->
                        granted[o] + IF o \in asked[c] THEN grant[o] ELSE 0]
       /\ balances' = [balances EXCEPT ![c] = grant]
  /\ fetch' = [fetch EXCEPT ![c] = "answered"]
  /\ UNCHANGED <<uuid, credits, mux, loop, stop, asked, lost, allowed>>

(* The answer does not reach the client: its credits are gone. *)
AnswerLost(c) ==
  /\ fetch[c] = "answered"
  /\ fetch' = [fetch EXCEPT ![c] = "failed"]
  /\ lost' = [o \in Operations |-> lost[o] + Entry(balances[c], o)]
  /\ balances' = [balances EXCEPT ![c] = << >>]
  /\ UNCHANGED <<uuid, credits, mux, loop, stop, asked, granted, allowed>>

RequestFails(c) ==
  /\ fetch[c] = "sent"
  /\ fetch' = [fetch EXCEPT ![c] = "failed"]
  /\ UNCHANGED <<uuid, credits, mux, loop, stop, asked, balances, granted, lost, allowed>>

-----------------------------------------------------------------------------
(* pollManager: the select, then refreshCredits for a tick. *)
TickRefresh ==
  /\ loop = "select"
  /\ loop' = "operations"
  /\ UNCHANGED <<uuid, credits, mux, stop, fetch, asked, balances, granted, lost, allowed>>

(* operations, under the read lock; nothing is asked for no operation, or      *)
(* without a UUID.                                                             *)
ReadOperations ==
  /\ loop = "operations" /\ mux = "free"
  /\ IF DOMAIN credits = {} \/ ~uuid
     THEN loop' = "select" /\ UNCHANGED <<fetch, asked>>
     ELSE /\ loop' = "refresh"
          /\ fetch' = [fetch EXCEPT ![Poller] = "sent"]
          /\ asked' = [asked EXCEPT ![Poller] = DOMAIN credits]
  /\ UNCHANGED <<uuid, credits, mux, stop, balances, granted, lost, allowed>>

(* The balances of the answer are added under the write lock. *)
AddCredits ==
  /\ loop = "refresh" /\ fetch[Poller] = "answered" /\ mux = "free"
  /\ credits' = Credited(credits, balances[Poller])
  /\ loop' = "select"
  /\ fetch' = [fetch EXCEPT ![Poller] = "none"] /\ asked' = [asked EXCEPT ![Poller] = {}]
  /\ balances' = [balances EXCEPT ![Poller] = << >>]
  /\ UNCHANGED <<uuid, mux, stop, granted, lost, allowed>>

RefreshFails ==
  /\ loop = "refresh" /\ fetch[Poller] = "failed"
  /\ loop' = "select"
  /\ fetch' = [fetch EXCEPT ![Poller] = "none"] /\ asked' = [asked EXCEPT ![Poller] = {}]
  /\ UNCHANGED <<uuid, credits, mux, stop, balances, granted, lost, allowed>>

StopPolling ==
  /\ loop = "select" /\ stop
  /\ loop' = "stopped"
  /\ UNCHANGED <<uuid, credits, mux, stop, fetch, asked, balances, granted, lost, allowed>>

(* The first half of Close; the second waits for the poller. *)
CloseChannel ==
  /\ ~stop /\ stop' = TRUE
  /\ UNCHANGED <<uuid, credits, mux, loop, fetch, asked, balances, granted, lost, allowed>>

Polling == TickRefresh \/ ReadOperations \/ AddCredits \/ RefreshFails \/ StopPolling

Answering(c) == AgentAnswers(c) \/ RequestFails(c)

ThrottlerNext ==
  \/ SetProcess \/ Polling
  \/ \E c \in Callers : \/ \E o \in Operations : IsAllowed(c, o) \/ IsAllowedFetch(c, o)
                        \/ IsAllowedFetched(c) \/ IsAllowedFailed(c)
  \/ \E c \in Clients : Answering(c) \/ AnswerLost(c)

(* Goroutines run; a request ends.  A goroutine that waits for the mutex gets  *)
(* it although callers take it again and again: sync.RWMutex lets waiting      *)
(* readers in before the next writer and serves writers in turn.               *)
ThrottlerFairness ==
  /\ SF_throttlerVars(ReadOperations) /\ SF_throttlerVars(AddCredits)
  /\ WF_throttlerVars(RefreshFails) /\ SF_throttlerVars(StopPolling)
  /\ \A c \in Callers : WF_throttlerVars(IsAllowedFetched(c) \/ IsAllowedFailed(c))
  /\ \A c \in Clients : WF_throttlerVars(Answering(c))

-----------------------------------------------------------------------------
ThrottlerTypeOK ==
  /\ uuid \in BOOLEAN /\ stop \in BOOLEAN
  /\ DOMAIN credits \subseteq Operations /\ \A o \in DOMAIN credits : credits[o] \in Nat
  /\ mux \in Callers \cup {"free"}
  /\ loop \in {"select", "operations", "refresh", "stopped"}
  /\ fetch \in [Clients -> {"none", "sent", "answered", "failed"}]
  /\ asked \in [Clients -> SUBSET Operations]
  /\ granted \in [Operations -> Nat] /\ lost \in [Operations -> Nat]
  /\ allowed \in [Operations -> Nat]

(* The answers on their way to the poller and to the caller that has the lock. *)
InFlight(o) ==
  Entry(balances[Poller], o) + IF mux = "free" THEN 0 ELSE Entry(balances[mux], o)

(* Credits are conserved: what the agent granted to an operation was spent on  *)
(* debug traces, is in the map, is in an answer on its way, or was lost with   *)
(* one, whatever the order of a refresh (throttler.go:205) and of fetches by   *)
(* callers (line 135); a caller has a request only while it holds the lock.    *)
CreditsConserved ==
  /\ \A o \in Operations :
       granted[o] = minimumCredits * allowed[o] + Balance(o) + InFlight(o) + lost[o]
  /\ \A c \in Callers : fetch[c] # "none" => mux = c
=============================================================================
