------------------------------ MODULE RateLimiter ------------------------------
(***************************************************************************)
(* ReconfigurableRateLimiter (utils/rate_limiter.go), the leaky bucket of  *)
(* the rate limiting samplers.  Each method runs under the limiter's lock. *)
(*                                                                         *)
(* Time and credits are integers: Unit is one credit, and it is divisible  *)
(* by the maxima used as often as Update pro-rates the balance, so that    *)
(* no fraction is lost.                                                    *)
(***************************************************************************)
EXTENDS Integers, Sequences, FiniteSetsExt

CONSTANTS
  Rates, Maxima,        (* creditsPerSecond and maxBalance of an Update       *)
  Costs,                (* what an item may cost                              *)
  Unit,                 (* one credit                                         *)
  MaxTime, MaxUpdates, MaxChecks      (* bounds                               *)

LimiterAssumption ==
  /\ Rates \subseteq Nat /\ Maxima \subseteq Nat \ {0} /\ Costs \subseteq Nat \ {0}
  /\ \E most \in Rates : \A rate \in Rates : rate <= most
  /\ \E most \in Maxima : \A max \in Maxima : max <= most
  /\ Unit \in Nat \ {0} /\ \A a, b \in Maxima : (a * b * Unit) % (a * a) = 0

VARIABLES
  creditsPerSecond, maxBalance, balance, lastTick,
  now,                  (* the clock                                          *)
  updates,              (* history: the times of Update                       *)
  checks                (* history: the checks, with time, cost and outcome   *)

limiterVars ==
  <<creditsPerSecond, maxBalance, balance, lastTick, now, updates, checks>>

LimiterInit ==
  /\ creditsPerSecond \in Rates /\ maxBalance \in Maxima
  /\ balance = maxBalance * Unit
  /\ lastTick = 0 /\ now = 0 /\ updates = <<>> /\ checks = <<>>

TimePasses ==
  /\ now < MaxTime /\ now' = now + 1
  /\ UNCHANGED <<creditsPerSecond, maxBalance, balance, lastTick, updates, checks>>

Least(a, b) == IF a < b THEN a ELSE b

(* updateBalance *)
Replenished == Least(balance + (now - lastTick) * creditsPerSecond * Unit, maxBalance * Unit)

TickForgotten == UNCHANGED lastTick                              \* mutant
TickNow == lastTick' = now

(* CheckCredit looks at the clock only if the balance falls short. *)
CheckCredit(cost) ==
  /\ Len(checks) < MaxChecks
  /\ \/ /\ balance >= cost * Unit
        /\ balance' = balance - cost * Unit
        /\ checks' = Append(checks, [time |-> now, cost |-> cost, allowed |-> TRUE])
        /\ UNCHANGED lastTick
     \/ /\ balance < cost * Unit /\ Replenished >= cost * Unit
        /\ balance' = Replenished - cost * Unit /\ TickNow
        /\ checks' = Append(checks, [time |-> now, cost |-> cost, allowed |-> TRUE])
     \/ /\ balance < cost * Unit /\ Replenished < cost * Unit
        /\ balance' = Replenished /\ TickNow
        /\ checks' = Append(checks, [time |-> now, cost |-> cost, allowed |-> FALSE])
  /\ UNCHANGED <<creditsPerSecond, maxBalance, now, updates>>

(* The accumulated balance is pro-rated to the new maximum. *)
Update(rate, max) ==
  /\ Len(updates) < MaxUpdates /\ updates' = Append(updates, now)
  /\ balance' = (Replenished * max) \div maxBalance
  /\ TickNow
  /\ creditsPerSecond' = rate /\ maxBalance' = max
  /\ UNCHANGED <<now, checks>>

LimiterNext ==
  \/ TimePasses
  \/ \E cost \in Costs : CheckCredit(cost)
  \/ \E rate \in Rates, max \in Maxima : Update(rate, max)

LimiterSpec == LimiterInit /\ [][LimiterNext]_limiterVars

-----------------------------------------------------------------------------
Paid(check, from, to) ==
  IF check.allowed /\ check.time \in from..to THEN check.cost ELSE 0

Total(amounts) ==
  LET total[k \in 0..Len(amounts)] == IF k = 0 THEN 0 ELSE total[k - 1] + amounts[k]
  IN total[Len(amounts)]

Spent(from, to) == Total([k \in DOMAIN checks |-> Paid(checks[k], from, to)])

UpdatedOnce(from, to) ==
  \A i, j \in DOMAIN updates : updates[i] \in from..to /\ updates[j] \in from..to => i = j

(* In no window of time does the limiter grant more than two full balances and *)
(* what the rate yields during the window: one balance saved up, and another   *)
(* that the idle time before the window replenishes in the midst of it, since  *)
(* CheckCredit leaves lastTick alone while the balance suffices (lines 73-85). *)
(* One Update in the window makes no difference, as the balance stays the same *)
(* part of the maximum; with more of them, the maximum may be lowered and      *)
(* raised again, by which a limiter that has spent its credits gains new ones. *)
WindowBound ==
  \A from \in 0..now : \A to \in from..now :
    UpdatedOnce(from, to) => Spent(from, to) <= 2 * Max(Maxima) + Max(Rates) * (to - from)

(* The documented bound: the balance "is replenished every time CheckCredit()  *)
(* method is called (tick) ... up to max" (rate_limiter.go:31-33).             *)
DocumentedBound ==
  \A from \in 0..now : \A to \in from..now :
    Spent(from, to) <= Max(Maxima) + Max(Rates) * (to - from)
=============================================================================
