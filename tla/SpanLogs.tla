------------------------------- MODULE SpanLogs -------------------------------
(***************************************************************************)
(* The log buffer of a sampled span (span.go): at most maxLogsPerSpan      *)
(* records, of which the first stay and the rest form a ring that the      *)
(* newest records overwrite; Logs and Finish unroll the ring and put a     *)
(* marker in the place of its oldest record.                               *)
(*                                                                         *)
(* Records are numbered in the order of their log calls.  The calls on     *)
(* unsampled spans, which log nothing, are in TraceSampling.               *)
(***************************************************************************)
EXTENDS Integers, Sequences, SequencesExt

CONSTANTS
  Limits,               (* values of the option maxLogsPerSpan; 0: unlimited  *)
  MaxLogCalls, MaxBulk  (* bounds                                             *)

LogsAssumption == Limits \subseteq Nat /\ MaxLogCalls \in Nat /\ MaxBulk \in Nat

VARIABLES
  maxLogs,              (* maxLogsPerSpan                                     *)
  logs, numDroppedLogs,
  calls,                (* log calls so far                                   *)
  bulk                  (* records given to Finish, or -1 before it           *)

logVars == <<maxLogs, logs, numDroppedLogs, calls, bulk>>

LogsInit ==
  /\ maxLogs \in Limits
  /\ logs = <<>> /\ numDroppedLogs = 0 /\ calls = 0 /\ bulk = -1

Record(n)    == [event |-> "log", n |-> n]
BulkRecord(n) == [event |-> "bulk", n |-> n]
Marker(n)    == [event |-> "dropped Span logs", n |-> n]

(* The records that are never overwritten, of a buffer with room for max. *)
NumOld(max) == (max - 1) \div 2

-----------------------------------------------------------------------------
OverwriteOldest(record) ==                                       \* mutant
  /\ logs' = [logs EXCEPT ![NumOld(maxLogs) + (numDroppedLogs % maxLogs) + 1] = record]
  /\ numDroppedLogs' = numDroppedLogs + 1

OverwriteInRing(record) ==
  LET numNew == maxLogs - NumOld(maxLogs)
  IN /\ logs' = [logs EXCEPT ![NumOld(maxLogs) + (numDroppedLogs % numNew) + 1] = record]
     /\ numDroppedLogs' = numDroppedLogs + 1

(* appendLogNoLocking, called by every log call under the span's lock *)
AppendLog ==
  /\ bulk = -1 /\ calls < MaxLogCalls
  /\ calls' = calls + 1
  /\ IF maxLogs = 0 \/ Len(logs) < maxLogs
     THEN logs' = Append(logs, Record(calls')) /\ UNCHANGED numDroppedLogs
     ELSE OverwriteInRing(Record(calls'))
  /\ UNCHANGED <<maxLogs, bulk>>

(* One turn of the loop of rotateLogBuffer: positions count from 0, and the     *)
(* loop is over once first = middle.                                           *)
Turn(s) ==
  LET last == s.next + 1 = Len(s.buf)
  IN IF s.first = s.middle THEN s
     ELSE [buf    |-> [s.buf EXCEPT ![s.first + 1] = s.buf[s.next + 1],
                                    ![s.next + 1]  = s.buf[s.first + 1]],
           first  |-> s.first + 1,
           middle |-> IF ~last /\ s.first + 1 = s.middle THEN s.next + 1 ELSE s.middle,
           next   |-> IF last THEN s.middle ELSE s.next + 1]

rotateLogBuffer(buf, pos) ==
  LET start == [buf |-> buf, first |-> 0, middle |-> pos, next |-> pos]
      turn[k \in 0..Len(buf)] == IF k = 0 THEN start ELSE Turn(turn[k - 1])
  IN turn[Len(buf)].buf

(* fixLogs: unroll the ring, then overwrite its oldest record by the marker,   *)
(* which counts that record too.                                               *)
fixLogs(buf, dropped) ==
  LET numOld == NumOld(Len(buf))
      numNew == Len(buf) - numOld
      ring   == rotateLogBuffer(SubSeq(buf, numOld + 1, Len(buf)), dropped % numNew)
  IN SubSeq(buf, 1, numOld) \o <<Marker(dropped + 1)>> \o Tail(ring)

(* fixLogsIfDropped; Logs does the same to a copy. *)
Fixed == IF numDroppedLogs = 0 THEN logs ELSE fixLogs(logs, numDroppedLogs)

(* The logs part of FinishWithOptions: bulk records are not limited. *)
FinishLogs ==
  /\ bulk = -1
  /\ \E n \in 0..MaxBulk : /\ bulk' = n
                           /\ logs' = Fixed \o [i \in 1..n |-> BulkRecord(i)]
  /\ numDroppedLogs' = 0
  /\ UNCHANGED <<maxLogs, calls>>

LogsNext == AppendLog \/ FinishLogs

LogsSpec == LogsInit /\ [][LogsNext]_logVars

-----------------------------------------------------------------------------
(* What is to be kept: every record while there is room, and then the oldest   *)
(* records, one marker with the number of those that are missing, and the      *)
(* newest ones, in order, exactly maxLogs together.                            *)
Kept ==
  LET all     == [i \in 1..calls |-> Record(i)]
      old     == NumOld(maxLogs)
      missing == calls - maxLogs + 1
  IN IF maxLogs = 0 \/ calls <= maxLogs THEN all
     ELSE SubSeq(all, 1, old) \o <<Marker(missing)>> \o SubSeq(all, old + missing + 1, calls)

(* This is what Logs returns at any time, and with the bulk records behind it  *)
(* what is reported (span.go:255-315).                                         *)
LogsExact ==
  Fixed = Kept \o (IF bulk = -1 THEN <<>> ELSE [i \in 1..bulk |-> BulkRecord(i)])
=============================================================================
