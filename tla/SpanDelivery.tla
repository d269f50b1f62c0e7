---------------------------- MODULE SpanDelivery ----------------------------
(***************************************************************************)
(* What a Reporter promises (reporter.go, the Reporter interface and the   *)
(* comments of NewRemoteReporter): a reported span is dropped on the spot  *)
(* or taken; one that was taken is sent or lost later, exactly once; and   *)
(* Close returns when all spans taken before the call are settled.  Only   *)
(* the first Close does; the others are ignored.                           *)
(***************************************************************************)
CONSTANTS Ids, Callers

VARIABLES
  fate,      (* of each span: none, dropped, taken, sent or lost *)
  call,      (* of each caller of Close: idle, closing, returned, ignored *)
  promised   (* the spans each call of Close waits for *)

vars == <<fate, call, promised>>

Taken == {i \in Ids : fate[i] = "taken"}

Init ==
  /\ fate = [i \in Ids |-> "none"]
  /\ call = [c \in Callers |-> "idle"]
  /\ promised = [c \in Callers |-> {}]

Take(i) ==
  /\ fate[i] = "none"
  /\ \E f \in {"taken", "dropped"} : fate' = [fate EXCEPT ![i] = f]
  /\ UNCHANGED <<call, promised>>

(* A batch is settled as a whole. *)
Settle(batch, f) ==
  /\ batch # {}
  /\ fate' = [i \in Ids |-> IF i \in batch THEN f ELSE fate[i]]
  /\ UNCHANGED <<call, promised>>

BeginClose(c) ==
  /\ call[c] = "idle"
  /\ call' = [call EXCEPT ![c] =
       IF \A d \in Callers : call[d] = "idle" THEN "closing" ELSE "ignored"]
  /\ promised' = [promised EXCEPT ![c] = Taken]
  /\ UNCHANGED fate

EndClose(c) ==
  /\ call[c] = "closing"
  /\ promised[c] \cap Taken = {}
  /\ call' = [call EXCEPT ![c] = "returned"]
  /\ UNCHANGED <<fate, promised>>

Next ==
  \/ \E i \in Ids : Take(i)
  \/ \E batch \in SUBSET Taken, f \in {"sent", "lost"} : Settle(batch, f)
  \/ \E c \in Callers : BeginClose(c) \/ EndClose(c)

Spec == Init /\ [][Next]_vars

=============================================================================
