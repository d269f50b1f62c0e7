--------------------------- MODULE RestrictionManager ---------------------------
(***************************************************************************)
(* The remote manager of baggage restrictions (internal/baggage/remote):   *)
(* one goroutine asks the agent at start and at each tick and replaces the *)
(* map of restrictions by the answer; callers look keys up under the read  *)
(* lock.                                                                   *)
(***************************************************************************)
EXTENDS Integers

CONSTANTS
  Keys,
  Policies,             (* what the agent may be configured with: functions   *)
                        (* from some of the keys to maximal lengths           *)
  DefaultMaxLength,     (* defaultMaxValueLength                              *)
  Deny,                 (* option denyBaggageOnInitializationFailure          *)
  MaxPolicyChanges      (* bound on the changes at the agent                  *)

VARIABLES
  restrictions, initialized,
  poll,                 (* the poller: query, update, select, stopped         *)
  stopPoll,             (* the channel stopPoll is closed                     *)
  answer,               (* the answer the poller holds while at update        *)
  policy, policyChanges,  (* of the agent                                     *)
  served                (* history: the last answer an update has finished with *)

managerVars ==
  <<restrictions, initialized, poll, stopPoll, answer, policy, policyChanges, served>>

NoPolicy == [k \in {} |-> 0]

Init ==
  /\ restrictions = NoPolicy /\ initialized = FALSE
  /\ poll = "query" /\ stopPoll = FALSE /\ answer = NoPolicy
  /\ policy \in Policies /\ policyChanges = 0
  /\ served = {}

Restriction(allowed, length) == [keyAllowed |-> allowed, maxValueLength |-> length]

GetRestriction(key) ==
  IF ~initialized THEN Restriction(~Deny, IF Deny THEN 0 ELSE DefaultMaxLength)
  ELSE IF key \in DOMAIN restrictions THEN Restriction(TRUE, restrictions[key])
  ELSE Restriction(FALSE, 0)

-----------------------------------------------------------------------------
PolicyChanges ==
  /\ policyChanges < MaxPolicyChanges
  /\ \E p \in Policies \ {policy} : policy' = p
  /\ policyChanges' = policyChanges + 1
  /\ UNCHANGED <<restrictions, initialized, poll, stopPoll, answer, served>>

(* GetBaggageRestrictions returns the answer of the agent ... *)
QueryAnswered ==
  /\ poll = "query"
  /\ poll' = "update" /\ answer' = policy
  /\ UNCHANGED <<restrictions, initialized, stopPoll, policy, policyChanges, served>>

QueryFailureForgets ==                                           \* mutant
  /\ poll = "query"
  /\ poll' = "select" /\ restrictions' = NoPolicy
  /\ UNCHANGED <<initialized, stopPoll, answer, policy, policyChanges, served>>

(* ... or an error, also for an answer that cannot be decoded; what is known   *)
(* stays in force.                                                             *)
QueryFails ==
  /\ poll = "query"
  /\ poll' = "select"
  /\ UNCHANGED <<restrictions, initialized, stopPoll, answer, policy, policyChanges, served>>

(* The rest of updateRestrictions: the new map, under the write lock. *)
UpdateRestrictions ==
  /\ poll = "update"
  /\ initialized' = TRUE /\ restrictions' = answer
  /\ poll' = "select" /\ answer' = NoPolicy
  /\ served' = {answer}
  /\ UNCHANGED <<stopPoll, policy, policyChanges>>

TickQuery ==
  /\ poll = "select"
  /\ poll' = "query"
  /\ UNCHANGED <<restrictions, initialized, stopPoll, answer, policy, policyChanges, served>>

StopManager ==
  /\ poll = "select" /\ stopPoll
  /\ poll' = "stopped"
  /\ UNCHANGED <<restrictions, initialized, stopPoll, answer, policy, policyChanges, served>>

CloseStopPoll ==
  /\ ~stopPoll /\ stopPoll' = TRUE
  /\ UNCHANGED <<restrictions, initialized, poll, answer, policy, policyChanges, served>>

Next ==
  \/ PolicyChanges \/ QueryAnswered \/ QueryFails \/ UpdateRestrictions
  \/ TickQuery \/ StopManager

(* Queries end; select does not prefer the ticker for ever. *)
Fairness ==
  /\ WF_managerVars(QueryAnswered \/ QueryFails)
  /\ WF_managerVars(UpdateRestrictions)
  /\ SF_managerVars(StopManager)

-----------------------------------------------------------------------------
TypeOK ==
  /\ restrictions \in Policies \cup {NoPolicy} /\ initialized \in BOOLEAN
  /\ poll \in {"query", "update", "select", "stopped"} /\ stopPoll \in BOOLEAN
  /\ answer \in Policies \cup {NoPolicy} /\ policy \in Policies
  /\ policyChanges \in 0..MaxPolicyChanges /\ served \in SUBSET Policies

(* A key is judged by the last answer that arrived, also when later queries    *)
(* fail (restriction_manager.go:140); the rule for an agent that was never     *)
(* reached applies only before the first one (line 102).                       *)
LastAnswerHolds ==
  \A k \in Keys :
    GetRestriction(k) =
      IF served = {} THEN Restriction(~Deny, IF Deny THEN 0 ELSE DefaultMaxLength)
      ELSE LET last == CHOOSE p \in served : TRUE
           IN IF k \in DOMAIN last THEN Restriction(TRUE, last[k]) ELSE Restriction(FALSE, 0)
=============================================================================
