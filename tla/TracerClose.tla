------------------------------ MODULE TracerClose ------------------------------
(***************************************************************************)
(* A tracer with a remote throttler and a remote restriction manager       *)
(* (tracer.go): NewTracer gives the throttler its UUID, spans ask for      *)
(* debug credits, and Tracer.Close closes reporter, sampler, restriction   *)
(* manager and throttler one after the other, each only when the one       *)
(* before has returned.  RemoteReporter and RemoteSampler show that the    *)
(* first two return; here each is one step.                                *)
(***************************************************************************)
EXTENDS Throttler

CONSTANTS Keys, Policies, DefaultMaxLength, Deny, MaxPolicyChanges

VARIABLES
  restrictions, initialized, poll, stopPoll, answer, policy, policyChanges, served,
  closing               (* how far Close is                                   *)

Manager == INSTANCE RestrictionManager

managerVars ==
  <<restrictions, initialized, poll, stopPoll, answer, policy, policyChanges, served>>
vars == <<throttlerVars, managerVars, closing>>

Init == ThrottlerInit /\ Manager!Init /\ closing = "open"

CloseStep(from, to) == closing = from /\ closing' = to

(* reporter.Close and sampler.Close *)
CloseReporter == CloseStep("open", "sampler") /\ UNCHANGED <<throttlerVars, managerVars>>
CloseSampler  == CloseStep("sampler", "manager") /\ UNCHANGED <<throttlerVars, managerVars>>

(* RestrictionManager.Close: close the channel, wait for the goroutine. *)
CloseManager ==
  CloseStep("manager", "managerWait") /\ Manager!CloseStopPoll /\ UNCHANGED throttlerVars
ManagerClosed ==
  CloseStep("managerWait", "throttler") /\ poll = "stopped"
  /\ UNCHANGED <<throttlerVars, managerVars>>

(* Throttler.Close, the same way. *)
CloseThrottler ==
  CloseStep("throttler", "throttlerWait") /\ CloseChannel /\ UNCHANGED managerVars
ThrottlerClosedAtOnce ==                                         \* mutant
  CloseStep("throttlerWait", "closed") /\ UNCHANGED <<throttlerVars, managerVars>>
ThrottlerClosed ==
  CloseStep("throttlerWait", "closed") /\ loop = "stopped"
  /\ UNCHANGED <<throttlerVars, managerVars>>

Close ==
  \/ CloseReporter \/ CloseSampler \/ CloseManager \/ ManagerClosed
  \/ CloseThrottler \/ ThrottlerClosed

Next ==
  \/ ThrottlerNext /\ UNCHANGED <<managerVars, closing>>
  \/ Manager!Next /\ UNCHANGED <<throttlerVars, closing>>
  \/ Close

(* A Close that has begun goes on. *)
Spec ==
  /\ Init /\ [][Next]_vars
  /\ ThrottlerFairness /\ Manager!Fairness
  /\ WF_vars(Close /\ closing # "open")

-----------------------------------------------------------------------------
TypeOK ==
  /\ ThrottlerTypeOK /\ Manager!TypeOK
  /\ closing \in {"open", "sampler", "manager", "managerWait", "throttler",
                  "throttlerWait", "closed"}

LastAnswerHolds == Manager!LastAnswerHolds

(* When Close has returned, both goroutines are gone, no request of theirs is  *)
(* on its way, and no credits arrive any more but those a caller asks for      *)
(* itself.                                                                     *)
NoPollAfterClose ==
  closing = "closed" => poll = "stopped" /\ loop = "stopped" /\ fetch[Poller] = "none"

(* Close returns, although a poller may be at a request or wait for the lock   *)
(* that a caller holds while it fetches (throttler.go:122), and although the   *)
(* throttler is closed last (tracer.go:379).                                   *)
CloseReturns == closing = "sampler" ~> closing = "closed"
=============================================================================
