-------------------------- MODULE TracerCloseProofs --------------------------
(***************************************************************************)
(* Theorems about TracerClose for any callers, operations, supplies, keys  *)
(* and policies.                                                           *)
(***************************************************************************)
EXTENDS TracerClose, SequenceTheorems, TLAPS

USE ThrottlerAssumption

(* The restrictions in force are those of the last answer, if there was one. *)
Served == /\ initialized = (served # {})
          /\ served # {} => served = {restrictions}

LEMMA InitServed == Init => Served
BY DEF Init, Manager!Init, Served

LEMMA NextServed == Served /\ [Next]_vars => Served'
<1> SUFFICES ASSUME Served, [Next]_vars PROVE Served'
  OBVIOUS
<1> USE DEF Served
<1>1. CASE Manager!Next
  <2>1. CASE Manager!UpdateRestrictions
    BY <2>1 DEF Manager!UpdateRestrictions
  <2>2. CASE ~Manager!UpdateRestrictions
    BY <1>1, <2>2 DEF Manager!Next, Manager!PolicyChanges, Manager!QueryAnswered,
       Manager!QueryFails, Manager!TickQuery, Manager!StopManager
  <2> QED
    BY <2>1, <2>2
<1>2. CASE Manager!CloseStopPoll
  BY <1>2 DEF Manager!CloseStopPoll
<1>3. CASE UNCHANGED managerVars
  BY <1>3 DEF managerVars
<1>4. Manager!Next \/ Manager!CloseStopPoll \/ UNCHANGED managerVars
  BY DEF Next, Close, CloseReporter, CloseSampler, CloseManager, ManagerClosed,
     CloseThrottler, ThrottlerClosed, vars
<1> QED
  BY <1>1, <1>2, <1>3, <1>4

LEMMA ServedHolds == Served => LastAnswerHolds
<1> SUFFICES ASSUME Served, NEW k \in Keys
             PROVE  Manager!GetRestriction(k) =
                      IF served = {}
                      THEN Manager!Restriction(~Deny, IF Deny THEN 0 ELSE DefaultMaxLength)
                      ELSE LET last == CHOOSE p \in served : TRUE
                           IN IF k \in DOMAIN last THEN Manager!Restriction(TRUE, last[k])
                              ELSE Manager!Restriction(FALSE, 0)
  BY DEF LastAnswerHolds, Manager!LastAnswerHolds
<1>1. CASE served = {}
  BY <1>1 DEF Served, Manager!GetRestriction
<1>2. CASE served # {}
  <2>1. (CHOOSE p \in served : TRUE) = restrictions
    BY <1>2 DEF Served
  <2> QED
    BY <1>2, <2>1 DEF Served, Manager!GetRestriction
<1> QED
  BY <1>1, <1>2

(* A failed query changes nothing, the rule for an agent that was never        *)
(* reached ends with the first answer (updateRestrictions).                    *)
THEOREM RestrictionsLast == Spec => []LastAnswerHolds
<1>1. Spec => []Served
  BY InitServed, NextServed, PTL DEF Spec
<1> QED
  BY <1>1, ServedHolds, PTL

-----------------------------------------------------------------------------
(* The poller has a request only while it refreshes; a goroutine that Close    *)
(* has waited for is gone.                                                     *)
Gone ==
  /\ fetch \in [Clients -> {"none", "sent", "answered", "failed"}]
  /\ loop # "refresh" => fetch[Poller] = "none"
  /\ closing \in {"throttler", "throttlerWait", "closed"} => poll = "stopped"
  /\ closing = "closed" => loop = "stopped"

LEMMA InitGone == Init => Gone
BY DEF Init, ThrottlerInit, Gone, Clients

(* What the throttler's own steps leave true of it. *)
LEMMA ThrottlerGone ==
  ASSUME Gone, ThrottlerNext
  PROVE  /\ fetch' \in [Clients -> {"none", "sent", "answered", "failed"}]
         /\ loop' # "refresh" => fetch'[Poller] = "none"
         /\ loop = "stopped" => loop' = "stopped"
<1> USE DEF Gone, Clients
<1>1. CASE SetProcess
  BY <1>1 DEF SetProcess
<1>2. CASE Polling
  BY <1>2 DEF Polling, TickRefresh, ReadOperations, AddCredits, RefreshFails, StopPolling
<1>3. ASSUME NEW c \in Callers, NEW o \in Operations, IsAllowed(c, o)
      PROVE  UNCHANGED <<fetch, loop>>
  BY <1>3 DEF IsAllowed
<1>4. ASSUME NEW c \in Callers, NEW o \in Operations, IsAllowedFetch(c, o)
      PROVE  fetch' = [fetch EXCEPT ![c] = "sent"] /\ loop' = loop
  BY <1>4 DEF IsAllowedFetch
<1>5. ASSUME NEW c \in Callers, IsAllowedFetched(c) \/ IsAllowedFailed(c)
      PROVE  fetch' = [fetch EXCEPT ![c] = "none"] /\ loop' = loop
  BY <1>5 DEF IsAllowedFetched, IsAllowedFailed
<1>6. ASSUME NEW c \in Clients, Answering(c) \/ AnswerLost(c)
      PROVE  /\ fetch[c] # "none" /\ loop' = loop
             /\ \E s \in {"answered", "failed"} : fetch' = [fetch EXCEPT ![c] = s]
  BY <1>6 DEF Answering, AnswerLost, AgentAnswers, RequestFails
<1> QED
  BY <1>1, <1>2, <1>3, <1>4, <1>5, <1>6 DEF ThrottlerNext

LEMMA NextGone == Gone /\ [Next]_vars => Gone'
<1> SUFFICES ASSUME Gone, [Next]_vars PROVE Gone'
  OBVIOUS
<1>1. CASE ThrottlerNext /\ UNCHANGED <<managerVars, closing>>
  BY <1>1, ThrottlerGone DEF Gone, managerVars
<1>2. CASE Manager!Next /\ UNCHANGED <<throttlerVars, closing>>
  <2>1. poll = "stopped" => poll' = "stopped"
    BY <1>2 DEF Manager!Next, Manager!PolicyChanges, Manager!QueryAnswered,
       Manager!QueryFails, Manager!UpdateRestrictions, Manager!TickQuery, Manager!StopManager
  <2> QED
    BY <1>2, <2>1 DEF Gone, throttlerVars
<1>3. CASE Close
  BY <1>3 DEF Gone, Close, CloseStep, CloseReporter, CloseSampler, CloseManager,
     ManagerClosed, CloseThrottler, ThrottlerClosed, Manager!CloseStopPoll, CloseChannel,
     throttlerVars, managerVars
<1>4. CASE UNCHANGED vars
  BY <1>4 DEF Gone, vars, throttlerVars, managerVars
<1> QED
  BY <1>1, <1>2, <1>3, <1>4 DEF Next

(* When Tracer.Close has returned, no background goroutine of the throttler or *)
(* of the restriction manager is left, nor a request of one.                   *)
THEOREM NothingPolls == Spec => []NoPollAfterClose
<1>1. Gone => NoPollAfterClose
  BY DEF Gone, NoPollAfterClose
<1> QED
  BY <1>1, InitGone, NextGone, PTL DEF Spec

-----------------------------------------------------------------------------
(* Credits.  Who has a request and what it may bring: a caller only while it   *)
(* holds the lock, and for one name, which is in the map by then; an answer    *)
(* speaks of what was asked for, and is kept only until it is used or lost.    *)
Requests ==
  /\ mux \in Callers \cup {"free"}
  /\ fetch \in [Clients -> {"none", "sent", "answered", "failed"}]
  /\ asked \in [Clients -> SUBSET Operations]
  /\ \A c \in Callers : fetch[c] # "none" => mux = c
  /\ \A c \in Callers : mux = c => \E o \in DOMAIN credits : asked[c] = {o}

Answers ==
  /\ balances = [c \in Clients |-> balances[c]]
  /\ \A c \in Clients : /\ DOMAIN balances[c] \subseteq Operations
                        /\ \A o \in DOMAIN balances[c] : balances[c][o] \in Nat
                        /\ fetch[c] # "answered" => balances[c] = << >>

Amounts ==
  /\ DOMAIN credits \subseteq Operations /\ \A o \in DOMAIN credits : credits[o] \in Nat
  /\ granted \in [Operations -> Nat] /\ lost \in [Operations -> Nat]
  /\ allowed \in [Operations -> Nat]

Balanced ==
  \A o \in Operations :
    granted[o] = minimumCredits * allowed[o] + Balance(o) + InFlight(o) + lost[o]

CreditInv == Requests /\ Answers /\ Amounts /\ Balanced

LEMMA EntryNat ==
  ASSUME NEW map, \A o \in DOMAIN map : map[o] \in Nat
  PROVE  \A o : Entry(map, o) \in Nat
BY DEF Entry

LEMMA EntryNone == \A o : Entry(<< >>, o) = 0
BY EmptySeq DEF Entry

LEMMA CreditedEntry ==
  ASSUME NEW map, \A o \in DOMAIN map : map[o] \in Nat,
         NEW amounts, \A o \in DOMAIN amounts : amounts[o] \in Nat
  PROVE  LET sum == Credited(map, amounts)
         IN /\ DOMAIN sum = DOMAIN map \cup DOMAIN amounts
            /\ \A o \in DOMAIN sum : sum[o] \in Nat
            /\ \A o : Entry(sum, o) = Entry(map, o) + Entry(amounts, o)
<1>1. \A o : Entry(map, o) \in Nat /\ Entry(amounts, o) \in Nat
  BY EntryNat
<1>2. DOMAIN Credited(map, amounts) = DOMAIN map \cup DOMAIN amounts
  BY DEF Credited
<1>3. \A o \in DOMAIN Credited(map, amounts) :
         Credited(map, amounts)[o] = Entry(map, o) + Entry(amounts, o)
  BY <1>2 DEF Credited
<1>4. \A o : o \notin DOMAIN map /\ o \notin DOMAIN amounts => Entry(map, o) = 0 /\ Entry(amounts, o) = 0
  BY DEF Entry
<1>5. \A o : Entry(Credited(map, amounts), o) = Entry(map, o) + Entry(amounts, o)
  <2> TAKE o
  <2>1. CASE o \in DOMAIN Credited(map, amounts)
    BY <2>1, <1>3 DEF Entry
  <2>2. CASE o \notin DOMAIN Credited(map, amounts)
    <3>1. Entry(Credited(map, amounts), o) = 0
      BY <2>2 DEF Entry
    <3> QED
      BY <2>2, <3>1, <1>2, <1>4
  <2> QED
    BY <2>1, <2>2
<1> QED
  BY <1>1, <1>2, <1>3, <1>5

(* A new name enters the map with nothing. *)
LEMMA StoredName ==
  ASSUME Amounts, NEW o \in Operations
  PROVE  LET map == Credited(credits, [p \in {o} |-> 0])
         IN /\ map = [p \in DOMAIN map |-> map[p]]
            /\ DOMAIN map = DOMAIN credits \cup {o} /\ DOMAIN map \subseteq Operations
            /\ \A p \in DOMAIN map : map[p] \in Nat
            /\ \A p : Entry(map, p) = Balance(p)
<1> DEFINE none == [p \in {o} |-> 0]
<1>1. DOMAIN none = {o} /\ (\A p \in DOMAIN none : none[p] \in Nat)
      /\ (\A p : Entry(none, p) = 0)
  BY DEF Entry
<1>2. Credited(credits, none) = [p \in DOMAIN Credited(credits, none) |-> Credited(credits, none)[p]]
  BY DEF Credited
<1> HIDE DEF none
<1>3. /\ DOMAIN credits \subseteq Operations
      /\ \A p \in DOMAIN credits : credits[p] \in Nat
      /\ \A p : Entry(credits, p) \in Nat
  BY EntryNat DEF Amounts
<1>4. LET sum == Credited(credits, none)
      IN /\ DOMAIN sum = DOMAIN credits \cup DOMAIN none
         /\ \A p \in DOMAIN sum : sum[p] \in Nat
         /\ \A p : Entry(sum, p) = Entry(credits, p) + Entry(none, p)
  BY <1>1, <1>3, CreditedEntry
<1>5. \A p : Entry(Credited(credits, none), p) = Balance(p)
  BY <1>1, <1>3, <1>4 DEF Balance
<1>6. /\ DOMAIN Credited(credits, none) = DOMAIN credits \cup {o}
      /\ DOMAIN Credited(credits, none) \subseteq Operations
      /\ \A p \in DOMAIN Credited(credits, none) : Credited(credits, none)[p] \in Nat
  BY <1>1, <1>3, <1>4
<1> QED
  BY <1>2, <1>5, <1>6 DEF none

(* The price of a trace leaves the map when the trace is allowed. *)
LEMMA SpendEntry ==
  ASSUME NEW map, map = [p \in DOMAIN map |-> map[p]], DOMAIN map \subseteq Operations,
         \A p \in DOMAIN map : map[p] \in Nat,
         NEW o \in DOMAIN map, allowed \in [Operations -> Nat], Spend(map, o)
  PROVE  /\ DOMAIN credits' = DOMAIN map /\ \A p \in DOMAIN credits' : credits'[p] \in Nat
         /\ allowed' \in [Operations -> Nat]
         /\ \A p \in Operations :
              minimumCredits * allowed'[p] + Entry(credits', p)
                = minimumCredits * allowed[p] + Entry(map, p)
<1>1. CASE map[o] < minimumCredits
  BY <1>1 DEF Spend
<1>2. CASE ~(map[o] < minimumCredits)
  <2>1. /\ credits' = [map EXCEPT ![o] = map[o] - 2]
        /\ allowed' = [allowed EXCEPT ![o] = allowed[o] + 1]
        /\ map[o] \in Nat /\ map[o] >= 2
    BY <1>2 DEF Spend, minimumCredits
  <2>2. DOMAIN credits' = DOMAIN map /\ \A p \in DOMAIN credits' : credits'[p] \in Nat
    BY <2>1
  <2>3. allowed' \in [Operations -> Nat]
    BY <2>1
  <2>4. \A p \in Operations : 2 * allowed'[p] + Entry(credits', p) = 2 * allowed[p] + Entry(map, p)
    <3> TAKE p \in Operations
    <3>1. CASE p = o
      <4>1. Entry(credits', p) = map[o] - 2 /\ Entry(map, p) = map[o]
        BY <2>1, <3>1 DEF Entry
      <4> QED
        BY <2>1, <3>1, <4>1
    <3>2. CASE p # o
      <4>1. Entry(credits', p) = Entry(map, p)
        BY <2>1, <3>2 DEF Entry
      <4> QED
        BY <2>1, <3>2, <4>1
    <3> QED
      BY <3>1, <3>2
  <2> QED
    BY <2>2, <2>3, <2>4 DEF minimumCredits
<1> QED
  BY <1>1, <1>2

LEMMA InitCredit == Init => CreditInv
<1> SUFFICES ASSUME Init PROVE CreditInv
  OBVIOUS
<1>1. \A o : Entry(<< >>, o) = 0
  BY EntryNone
<1>2. DOMAIN << >> = {}
  BY EmptySeq
<1>3. Requests /\ Answers /\ Amounts
  BY <1>2 DEF Init, ThrottlerInit, Requests, Answers, Amounts, Clients
<1>4. Balanced
  BY <1>1 DEF Init, ThrottlerInit, Balanced, Balance, InFlight, Clients, minimumCredits
<1> QED
  BY <1>3, <1>4 DEF CreditInv

(* Every client's entries are numbers, and only its answer's. *)
LEMMA HeldNat ==
  ASSUME Requests, Answers, Amounts
  PROVE  /\ \A c \in Clients : \A o : Entry(balances[c], o) \in Nat
         /\ \A o : Balance(o) \in Nat /\ InFlight(o) \in Nat
         /\ \A c \in Clients : fetch[c] # "answered" => \A o : Entry(balances[c], o) = 0
<1>1. \A c \in Clients : \A o : Entry(balances[c], o) \in Nat
  BY EntryNat DEF Answers
<1>2. \A o : Balance(o) \in Nat
  BY EntryNat DEF Amounts, Balance
<1>3. \A c \in Clients : fetch[c] # "answered" => \A o : Entry(balances[c], o) = 0
  BY EntryNone DEF Answers
<1>4. mux # "free" => mux \in Clients
  BY DEF Requests, Clients
<1>5. Poller \in Clients
  BY DEF Clients
<1>6. \A o : InFlight(o) \in Nat
  BY <1>1, <1>4, <1>5 DEF InFlight
<1> QED
  BY <1>1, <1>2, <1>3, <1>6

(* Steps that leave credits, answers and history alone. *)
LEMMA QuietCredit ==
  ASSUME CreditInv, UNCHANGED <<credits, balances, mux, granted, lost, allowed>>,
         UNCHANGED <<fetch, asked>>
  PROVE  CreditInv'
BY DEF CreditInv, Requests, Answers, Amounts, Balanced, Balance, InFlight, Clients

LEMMA IsAllowedCredit ==
  ASSUME CreditInv, NEW c \in Callers, NEW o \in Operations, IsAllowed(c, o)
  PROVE  CreditInv'
<1> DEFINE map == Credited(credits, [p \in {o} |-> 0])
<1>0. Requests /\ Answers /\ Amounts /\ Balanced
  BY DEF CreditInv
<1>1. UNCHANGED <<mux, fetch, asked, balances, granted, lost>> /\ mux = "free" /\ Spend(map, o)
  BY DEF IsAllowed
<1>2. /\ map = [p \in DOMAIN map |-> map[p]]
      /\ DOMAIN map = DOMAIN credits \cup {o} /\ DOMAIN map \subseteq Operations
      /\ \A p \in DOMAIN map : map[p] \in Nat
      /\ \A p : Entry(map, p) = Balance(p)
  BY <1>0, StoredName
<1> HIDE DEF map
<1>3. /\ DOMAIN credits' = DOMAIN map /\ \A p \in DOMAIN credits' : credits'[p] \in Nat
      /\ allowed' \in [Operations -> Nat]
      /\ \A p \in Operations : minimumCredits * allowed'[p] + Entry(credits', p)
                               = minimumCredits * allowed[p] + Entry(map, p)
  BY <1>0, <1>1, <1>2, SpendEntry DEF Amounts
<1>4. Requests' /\ Answers' /\ Amounts'
  BY <1>0, <1>1, <1>2, <1>3 DEF Requests, Answers, Amounts
<1>5. Balanced'
  <2> SUFFICES ASSUME NEW p \in Operations
               PROVE  granted[p] = minimumCredits * allowed'[p] + Entry(credits', p) + InFlight(p) + lost[p]
    BY <1>1 DEF Balanced, Balance, InFlight
  <2>1. granted[p] = minimumCredits * allowed[p] + Entry(credits, p) + InFlight(p) + lost[p]
    BY <1>0 DEF Balanced, Balance
  <2>2. Entry(map, p) = Entry(credits, p) /\ Entry(credits, p) \in Nat /\ InFlight(p) \in Nat
    BY <1>0, <1>2, HeldNat DEF Balance
  <2> QED
    BY <2>1, <2>2, <1>3
<1> QED
  BY <1>4, <1>5 DEF CreditInv

(* A caller's request and answer: the lock is the caller's until it is done. *)
LEMMA IsAllowedFetchCredit ==
  ASSUME CreditInv, NEW c \in Callers, NEW o \in Operations, IsAllowedFetch(c, o)
  PROVE  CreditInv'
<1> DEFINE map == Credited(credits, [p \in {o} |-> 0])
<1>0. Requests /\ Answers /\ Amounts /\ Balanced /\ c \in Clients /\ c # "free"
  BY DEF CreditInv, Clients
<1>1. /\ mux = "free" /\ mux' = c /\ credits' = map /\ fetch[c] = "none"
      /\ fetch' = [fetch EXCEPT ![c] = "sent"] /\ asked' = [asked EXCEPT ![c] = {o}]
      /\ UNCHANGED <<balances, granted, lost, allowed>>
  BY DEF IsAllowedFetch
<1>2. /\ DOMAIN map = DOMAIN credits \cup {o} /\ DOMAIN map \subseteq Operations
      /\ \A p \in DOMAIN map : map[p] \in Nat
      /\ \A p : Entry(map, p) = Balance(p)
  BY <1>0, StoredName
<1> HIDE DEF map
<1>3. Requests' /\ Answers' /\ Amounts'
  BY <1>0, <1>1, <1>2 DEF Requests, Answers, Amounts, Clients
<1>4. \A p : InFlight(p)' = InFlight(p) /\ Balance(p)' = Balance(p)
  <2> TAKE p
  <2>1. Entry(balances[c], p) = 0 /\ Entry(balances[Poller], p) \in Nat
    BY <1>0, <1>1, HeldNat DEF Clients
  <2> QED
    BY <1>0, <1>1, <1>2, <2>1 DEF InFlight, Balance
<1>5. Balanced'
  BY <1>0, <1>1, <1>4 DEF Balanced
<1> QED
  BY <1>3, <1>5 DEF CreditInv

LEMMA IsAllowedFetchedCredit ==
  ASSUME CreditInv, NEW c \in Callers, IsAllowedFetched(c)
  PROVE  CreditInv'
<1> DEFINE map == Credited(credits, balances[c])
           o == CHOOSE o \in asked[c] : TRUE
<1>0. Requests /\ Answers /\ Amounts /\ Balanced /\ c \in Clients /\ c # "free"
  BY DEF CreditInv, Clients
<1>1. /\ mux = c /\ mux' = "free" /\ Spend(map, o)
      /\ fetch' = [fetch EXCEPT ![c] = "none"] /\ asked' = [asked EXCEPT ![c] = {}]
      /\ balances' = [balances EXCEPT ![c] = << >>]
      /\ UNCHANGED <<granted, lost>>
  BY DEF IsAllowedFetched
<1>2. o \in DOMAIN credits
  BY <1>0, <1>1 DEF Requests
<1>3. /\ map = [p \in DOMAIN map |-> map[p]]
      /\ DOMAIN map = DOMAIN credits \cup DOMAIN balances[c]
      /\ \A p \in DOMAIN map : map[p] \in Nat
      /\ \A p : Entry(map, p) = Balance(p) + Entry(balances[c], p)
  <2>1. map = [p \in DOMAIN map |-> map[p]]
    BY DEF Credited
  <2>2. (\A p \in DOMAIN credits : credits[p] \in Nat)
        /\ (\A p \in DOMAIN balances[c] : balances[c][p] \in Nat)
    BY <1>0 DEF Amounts, Answers
  <2> QED
    BY <2>1, <2>2, CreditedEntry DEF Balance
<1>4. DOMAIN map \subseteq Operations /\ o \in DOMAIN map
  BY <1>0, <1>2, <1>3 DEF Amounts, Answers
<1> HIDE DEF map, o
<1>5. /\ DOMAIN credits' = DOMAIN map /\ \A p \in DOMAIN credits' : credits'[p] \in Nat
      /\ allowed' \in [Operations -> Nat]
      /\ \A p \in Operations : minimumCredits * allowed'[p] + Entry(credits', p)
                               = minimumCredits * allowed[p] + Entry(map, p)
  BY <1>0, <1>1, <1>3, <1>4, SpendEntry DEF Amounts
<1>6. Requests' /\ Amounts'
  BY <1>0, <1>1, <1>3, <1>4, <1>5 DEF Requests, Amounts, Clients
<1>7. Answers'
  BY <1>0, <1>1, EmptySeq DEF Answers, Requests
<1>8. Balanced'
  <2> SUFFICES ASSUME NEW p \in Operations
               PROVE  granted[p] = minimumCredits * allowed'[p] + Entry(credits', p)
                                     + InFlight(p)' + lost[p]
    BY <1>1 DEF Balanced, Balance
  <2>1. granted[p] = minimumCredits * allowed[p] + Balance(p) + InFlight(p) + lost[p]
    BY <1>0 DEF Balanced
  <2>2. /\ Balance(p) \in Nat /\ Entry(balances[c], p) \in Nat
        /\ Entry(balances[Poller], p) \in Nat
    BY <1>0, HeldNat DEF Clients
  <2>3. InFlight(p) = Entry(balances[Poller], p) + Entry(balances[c], p)
    BY <1>0, <1>1 DEF InFlight
  <2>4. InFlight(p)' = Entry(balances[Poller], p)
    BY <1>0, <1>1, <2>2 DEF InFlight, Answers, Clients
  <2>5. minimumCredits * allowed'[p] + Entry(credits', p)
          = minimumCredits * allowed[p] + Balance(p) + Entry(balances[c], p)
    BY <1>0, <1>3, <1>5, <2>2 DEF Amounts, minimumCredits
  <2> QED
    BY <1>0, <2>1, <2>2, <2>3, <2>4, <2>5 DEF Amounts, minimumCredits
<1> QED
  BY <1>6, <1>7, <1>8 DEF CreditInv

LEMMA IsAllowedFailedCredit ==
  ASSUME CreditInv, NEW c \in Callers, IsAllowedFailed(c)
  PROVE  CreditInv'
<1>0. Requests /\ Answers /\ Amounts /\ Balanced /\ c \in Clients /\ c # "free"
  BY DEF CreditInv, Clients
<1>1. /\ mux = c /\ mux' = "free" /\ fetch[c] = "failed"
      /\ fetch' = [fetch EXCEPT ![c] = "none"] /\ asked' = [asked EXCEPT ![c] = {}]
      /\ UNCHANGED <<credits, balances, granted, lost, allowed>>
  BY DEF IsAllowedFailed
<1>2. Requests' /\ Answers' /\ Amounts'
  BY <1>0, <1>1 DEF Requests, Answers, Amounts, Clients
<1>3. \A p : InFlight(p)' = InFlight(p) /\ Balance(p)' = Balance(p)
  <2> TAKE p
  <2>1. Entry(balances[c], p) = 0 /\ Entry(balances[Poller], p) \in Nat
    BY <1>0, <1>1, HeldNat DEF Clients
  <2> QED
    BY <1>0, <1>1, <2>1 DEF InFlight, Balance
<1> QED
  BY <1>0, <1>1, <1>2, <1>3 DEF CreditInv, Balanced

(* An answer appears at a client that has a request, or leaves it. *)
LEMMA AnswerMoves ==
  ASSUME Requests, Answers, Amounts, NEW c \in Clients, fetch[c] # "none",
         NEW amounts, \A p \in DOMAIN amounts : amounts[p] \in Nat,
         balances' = [balances EXCEPT ![c] = amounts], mux' = mux
  PROVE  \A p : /\ InFlight(p)' \in Nat
                /\ InFlight(p)' + Entry(balances[c], p) = InFlight(p) + Entry(amounts, p)
<1> TAKE p
<1>1. /\ Entry(balances[c], p) \in Nat /\ Entry(balances[Poller], p) \in Nat
      /\ Entry(amounts, p) \in Nat
  BY HeldNat, EntryNat DEF Clients
<1>2. /\ balances'[c] = amounts
      /\ \A d \in Clients : d # c => balances'[d] = balances[d]
  BY DEF Answers
<1>3. CASE c = Poller
  <2>1. mux # "free" => mux \in Clients /\ mux # c /\ balances'[mux] = balances[mux]
                        /\ Entry(balances[mux], p) \in Nat
    BY <1>2, <1>3, HeldNat DEF Requests, Clients
  <2> QED
    BY <1>1, <1>2, <1>3, <2>1 DEF InFlight
<1>4. CASE c # Poller
  <2>1. mux = c /\ c # "free" /\ balances'[Poller] = balances[Poller]
    BY <1>2, <1>4 DEF Requests, Clients
  <2> QED
    BY <1>1, <1>2, <2>1 DEF InFlight
<1> QED
  BY <1>3, <1>4

(* The agent, and what becomes of its answer. *)
LEMMA AgentAnswersCredit ==
  ASSUME CreditInv, NEW c \in Clients, AgentAnswers(c)
  PROVE  CreditInv'
<1>0. Requests /\ Answers /\ Amounts /\ Balanced
  BY DEF CreditInv
<1>1. PICK grant \in [asked[c] -> 0..Max(Range(Supply))] :
        /\ granted' = [o \in Operations |-> granted[o] + IF o \in asked[c] THEN grant[o] ELSE 0]
        /\ balances' = [balances EXCEPT ![c] = grant]
  BY DEF AgentAnswers
<1>2. /\ fetch[c] = "sent" /\ fetch' = [fetch EXCEPT ![c] = "answered"]
      /\ UNCHANGED <<credits, mux, asked, lost, allowed>>
  BY DEF AgentAnswers
<1>3. /\ DOMAIN grant = asked[c] /\ asked[c] \subseteq Operations
      /\ \A o \in DOMAIN grant : grant[o] \in Nat
      /\ \A o : Entry(grant, o) \in Nat
  <2>1. DOMAIN grant = asked[c] /\ asked[c] \subseteq Operations
    BY <1>0 DEF Requests
  <2>2. \A o \in DOMAIN grant : grant[o] \in Nat
    BY <2>1
  <2> QED
    BY <2>1, <2>2, EntryNat
<1>4. granted' = [o \in Operations |-> granted[o] + Entry(grant, o)]
  BY <1>1, <1>3 DEF Entry
<1>5. Requests' /\ Answers' /\ Amounts'
  <2>1. Requests'
    BY <1>0, <1>2 DEF Requests
  <2>2. Answers'
    BY <1>0, <1>1, <1>2, <1>3 DEF Requests, Answers
  <2>3. Amounts'
    BY <1>0, <1>2, <1>3, <1>4 DEF Amounts
  <2> QED
    BY <2>1, <2>2, <2>3
<1>6. \A o : InFlight(o)' = InFlight(o) + Entry(grant, o)
  <2> TAKE o
  <2>1. InFlight(o)' \in Nat /\ InFlight(o)' + Entry(balances[c], o) = InFlight(o) + Entry(grant, o)
    BY <1>0, <1>1, <1>2, <1>3, AnswerMoves
  <2>2. Entry(balances[c], o) = 0
    BY <1>0, <1>2, HeldNat
  <2>3. InFlight(o) \in Nat
    BY <1>0, HeldNat
  <2> QED
    BY <1>3, <2>1, <2>2, <2>3
<1>7. Balanced'
  <2> SUFFICES ASSUME NEW o \in Operations
               PROVE  granted'[o] = minimumCredits * allowed[o] + Balance(o) + InFlight(o)' + lost[o]
    BY <1>2 DEF Balanced, Balance
  <2>1. granted[o] = minimumCredits * allowed[o] + Balance(o) + InFlight(o) + lost[o]
    BY <1>0 DEF Balanced
  <2>2. Balance(o) \in Nat /\ InFlight(o) \in Nat /\ granted'[o] = granted[o] + Entry(grant, o)
    BY <1>0, <1>4, HeldNat
  <2> QED
    BY <1>0, <1>3, <1>6, <2>1, <2>2 DEF Amounts, minimumCredits
<1> QED
  BY <1>5, <1>7 DEF CreditInv

LEMMA AnswerLostCredit ==
  ASSUME CreditInv, NEW c \in Clients, AnswerLost(c)
  PROVE  CreditInv'
<1>0. Requests /\ Answers /\ Amounts /\ Balanced
  BY DEF CreditInv
<1>1. /\ fetch[c] = "answered" /\ fetch' = [fetch EXCEPT ![c] = "failed"]
      /\ lost' = [o \in Operations |-> lost[o] + Entry(balances[c], o)]
      /\ balances' = [balances EXCEPT ![c] = << >>]
      /\ UNCHANGED <<credits, mux, asked, granted, allowed>>
  BY DEF AnswerLost
<1>2. \A o : Entry(balances[c], o) \in Nat /\ InFlight(o) \in Nat /\ Balance(o) \in Nat
  BY <1>0, HeldNat
<1>3. Requests' /\ Answers' /\ Amounts'
  <2>1. Requests'
    BY <1>0, <1>1 DEF Requests
  <2>2. Answers'
    BY <1>0, <1>1, EmptySeq DEF Requests, Answers
  <2>3. Amounts'
    BY <1>0, <1>1, <1>2 DEF Amounts
  <2> QED
    BY <2>1, <2>2, <2>3
<1>4. \A o : InFlight(o)' \in Nat /\ InFlight(o)' + Entry(balances[c], o) = InFlight(o)
  <2> TAKE o
  <2>1. fetch[c] # "none" /\ \A p \in DOMAIN << >> : << >>[p] \in Nat
    BY <1>1, EmptySeq
  <2>2. /\ InFlight(o)' \in Nat
        /\ InFlight(o)' + Entry(balances[c], o) = InFlight(o) + Entry(<< >>, o)
    BY <1>0, <1>1, <2>1, AnswerMoves
  <2> QED
    BY <1>2, <2>2, EntryNone
<1>5. Balanced'
  <2> SUFFICES ASSUME NEW o \in Operations
               PROVE  granted[o] = minimumCredits * allowed[o] + Balance(o) + InFlight(o)' + lost'[o]
    BY <1>1 DEF Balanced, Balance
  <2>1. granted[o] = minimumCredits * allowed[o] + Balance(o) + InFlight(o) + lost[o]
    BY <1>0 DEF Balanced
  <2>2. lost'[o] = lost[o] + Entry(balances[c], o)
    BY <1>1
  <2> QED
    BY <1>0, <1>2, <1>4, <2>1, <2>2 DEF Amounts, minimumCredits
<1> QED
  BY <1>3, <1>5 DEF CreditInv

LEMMA RequestFailsCredit ==
  ASSUME CreditInv, NEW c \in Clients, RequestFails(c)
  PROVE  CreditInv'
<1>1. /\ fetch[c] = "sent" /\ fetch' = [fetch EXCEPT ![c] = "failed"]
      /\ UNCHANGED <<credits, mux, asked, balances, granted, lost, allowed>>
  BY DEF RequestFails
<1> QED
  BY <1>1 DEF CreditInv, Requests, Answers, Amounts, Balanced, Balance, InFlight

LEMMA AddCreditsCredit ==
  ASSUME CreditInv, AddCredits
  PROVE  CreditInv'
<1>0. Requests /\ Answers /\ Amounts /\ Balanced /\ Poller \in Clients
  BY DEF CreditInv, Clients
<1>1. /\ fetch[Poller] = "answered" /\ mux = "free" /\ mux' = mux
      /\ credits' = Credited(credits, balances[Poller])
      /\ fetch' = [fetch EXCEPT ![Poller] = "none"] /\ asked' = [asked EXCEPT ![Poller] = {}]
      /\ balances' = [balances EXCEPT ![Poller] = << >>]
      /\ UNCHANGED <<granted, lost, allowed>>
  BY DEF AddCredits
<1>2. /\ \A o \in DOMAIN credits : credits[o] \in Nat
      /\ \A o \in DOMAIN balances[Poller] : balances[Poller][o] \in Nat
  BY <1>0 DEF Answers, Amounts
<1>3. /\ DOMAIN credits' = DOMAIN credits \cup DOMAIN balances[Poller]
      /\ \A o \in DOMAIN credits' : credits'[o] \in Nat
      /\ \A o : Entry(credits', o) = Balance(o) + Entry(balances[Poller], o)
  <2> DEFINE sum == Credited(credits, balances[Poller])
  <2>1. /\ DOMAIN sum = DOMAIN credits \cup DOMAIN balances[Poller]
        /\ \A o \in DOMAIN sum : sum[o] \in Nat
        /\ \A o : Entry(sum, o) = Entry(credits, o) + Entry(balances[Poller], o)
    BY <1>2, CreditedEntry
  <2> HIDE DEF sum
  <2>2. credits' = sum
    BY <1>1 DEF sum
  <2> QED
    BY <2>1, <2>2 DEF Balance
<1>4. Requests' /\ Answers' /\ Amounts'
  <2>1. DOMAIN balances[Poller] \subseteq Operations
    BY <1>0 DEF Answers
  <2>2. Amounts'
    BY <1>0, <1>1, <1>3, <2>1 DEF Amounts
  <2>3. Requests'
    BY <1>0, <1>1, <1>3 DEF Requests, Clients
  <2>4. Answers'
    BY <1>0, <1>1, EmptySeq DEF Requests, Answers
  <2> QED
    BY <2>2, <2>3, <2>4
<1>5. \A o : /\ Entry(balances[Poller], o) \in Nat /\ Balance(o) \in Nat
             /\ InFlight(o) = Entry(balances[Poller], o) /\ InFlight(o)' = 0
  <2> TAKE o
  <2>1. Entry(balances[Poller], o) \in Nat /\ Balance(o) \in Nat
    BY <1>0, HeldNat
  <2>2. balances'[Poller] = << >>
    BY <1>0, <1>1 DEF Answers
  <2> QED
    BY <1>1, <2>1, <2>2, EntryNone DEF InFlight
<1>6. Balanced'
  <2> SUFFICES ASSUME NEW o \in Operations
               PROVE  granted[o] = minimumCredits * allowed[o] + Entry(credits', o) + InFlight(o)' + lost[o]
    BY <1>1 DEF Balanced, Balance
  <2>1. granted[o] = minimumCredits * allowed[o] + Balance(o) + InFlight(o) + lost[o]
    BY <1>0 DEF Balanced
  <2> QED
    BY <1>0, <1>3, <1>5, <2>1 DEF Amounts, minimumCredits
<1> QED
  BY <1>4, <1>6 DEF CreditInv

(* The other steps of the poller: no credits move. *)
LEMMA PollingCredit ==
  ASSUME CreditInv, loop # "refresh" => fetch[Poller] = "none",
         TickRefresh \/ ReadOperations \/ RefreshFails \/ StopPolling
  PROVE  CreditInv'
<1>0. Requests /\ Answers /\ Amounts /\ Poller \in Clients
  BY DEF CreditInv, Clients
<1>1. /\ UNCHANGED <<credits, mux, balances, granted, lost, allowed>>
      /\ DOMAIN credits \subseteq Operations
  BY <1>0 DEF TickRefresh, ReadOperations, RefreshFails, StopPolling, Amounts
<1>2. CASE UNCHANGED <<fetch, asked>>
  BY <1>1, <1>2, QuietCredit
<1>3. CASE ReadOperations /\ ~(DOMAIN credits = {} \/ ~uuid)
  <2>1. fetch' = [fetch EXCEPT ![Poller] = "sent"] /\ asked' = [asked EXCEPT ![Poller] = DOMAIN credits]
    BY <1>3 DEF ReadOperations
  <2>2. balances[Poller] = << >>
    BY <1>0, <1>3 DEF Answers, ReadOperations
  <2>3. Requests'
    BY <1>0, <1>1, <2>1 DEF Requests, Clients
  <2>4. Answers'
    BY <1>0, <1>1, <2>1, <2>2 DEF Requests, Answers
  <2>5. Amounts' /\ Balanced'
    BY <1>1 DEF CreditInv, Amounts, Balanced, Balance, InFlight
  <2> QED
    BY <2>3, <2>4, <2>5 DEF CreditInv
<1>4. CASE RefreshFails
  BY <1>4, <1>1 DEF RefreshFails, CreditInv, Requests, Answers, Amounts, Balanced, Balance, InFlight, Clients
<1> QED
  BY <1>2, <1>3, <1>4 DEF TickRefresh, ReadOperations, RefreshFails, StopPolling

LEMMA NextCredit == Gone /\ CreditInv /\ [Next]_vars => CreditInv'
<1> SUFFICES ASSUME Gone, CreditInv, [Next]_vars PROVE CreditInv'
  OBVIOUS
<1>1. CASE ThrottlerNext
  <2>1. CASE SetProcess
    BY <2>1, QuietCredit DEF SetProcess
  <2>2. CASE Polling
    BY <2>2, AddCreditsCredit, PollingCredit DEF Polling, Gone
  <2>3. ASSUME NEW c \in Callers, \E o \in Operations : IsAllowed(c, o) \/ IsAllowedFetch(c, o)
        PROVE  CreditInv'
    BY <2>3, IsAllowedCredit, IsAllowedFetchCredit
  <2>4. ASSUME NEW c \in Callers, IsAllowedFetched(c) \/ IsAllowedFailed(c)
        PROVE  CreditInv'
    BY <2>4, IsAllowedFetchedCredit, IsAllowedFailedCredit
  <2>5. ASSUME NEW c \in Clients, Answering(c) \/ AnswerLost(c)
        PROVE  CreditInv'
    BY <2>5, AgentAnswersCredit, RequestFailsCredit, AnswerLostCredit DEF Answering
  <2> QED
    BY <1>1, <2>1, <2>2, <2>3, <2>4, <2>5 DEF ThrottlerNext
<1>2. CASE ~ThrottlerNext
  <2>1. UNCHANGED <<credits, balances, mux, granted, lost, allowed, fetch, asked>>
    BY <1>2 DEF Next, Close, CloseReporter, CloseSampler, CloseManager, ManagerClosed,
       CloseThrottler, ThrottlerClosed, CloseChannel, vars, throttlerVars
  <2> QED
    BY <2>1, QuietCredit
<1> QED
  BY <1>1, <1>2

(* The credits that the agent granted are spent, kept, on their way or lost    *)
(* with an answer, never made or spent twice (IsAllowed, refreshCredits),      *)
(* and only the holder of the lock has a request.                              *)
THEOREM CreditsAccounted == Spec => []CreditsConserved
<1>1. CreditInv => CreditsConserved
  BY DEF CreditInv, Requests, Balanced, CreditsConserved
<1>2. Gone /\ CreditInv /\ [Next]_vars => (Gone /\ CreditInv)'
  BY NextGone, NextCredit
<1>3. Init => Gone /\ CreditInv
  BY InitGone, InitCredit
<1> QED
  BY <1>1, <1>2, <1>3, PTL DEF Spec
=============================================================================
