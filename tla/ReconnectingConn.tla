-------------------------- MODULE ReconnectingConn --------------------------
(***************************************************************************)
(* reconnectingUDPConn (utils/reconnecting_udp_conn.go): a UDP connection  *)
(* whose host name is resolved again on every tick of a loop and after     *)
(* every failed Write.  The loop and the writers resolve, dial and swap    *)
(* the connection concurrently; connMtx orders swaps, writes and Close.    *)
(*                                                                         *)
(* A connection is an identity with an address, a write buffer size that   *)
(* is set or not, and open or closed.  A datagram has no content.          *)
(***************************************************************************)
EXTENDS Integers, FiniteSets

CONSTANTS
  Writers,       (* goroutines that call Write                               *)
  Loop,          (* the goroutine of reconnectLoop; first the constructor    *)
  Conns,         (* identities of sockets                                    *)
  Addrs,         (* what the host name may resolve to                        *)
  NoAddr, NoConn,
  MaxDnsChanges, MaxFaults, MaxWrites   (* bounds                            *)

Dialers == Writers \cup {Loop}

ASSUME ConnAssumption ==
  /\ Loop \notin Writers /\ NoConn \notin Conns /\ NoAddr \notin Addrs
  /\ MaxDnsChanges \in Nat /\ MaxFaults \in Nat /\ MaxWrites \in Nat

VARIABLES
  dns, changes, faults,      (* the resolver; failures so far                 *)
  conn, destAddr,            (* under connMtx                                 *)
  bufferBytes,               (* 0, or 1 once stored                           *)
  shutdown,                  (* closeChan is closed                           *)
  status, connAddr, connBuf, (* of each socket                                *)
  pc, addr, fresh, prev,     (* of a goroutine in attemptResolveAndDial       *)
  using,                     (* the socket a writer is writing to, RLock held *)
  ownerPc,
  writes,                    (* calls of Write so far                         *)
  abandoned                  (* history: sockets whose SetWriteBuffer failed  *)

dnsVars  == <<dns, changes>>
sockVars == <<status, connAddr, connBuf>>
vars == <<dnsVars, faults, conn, destAddr, bufferBytes, shutdown, sockVars, pc, addr,
          fresh, prev, using, ownerPc, writes, abandoned>>

Init ==
  /\ dns \in Addrs /\ changes = 0 /\ faults = 0
  /\ conn = NoConn /\ destAddr = NoAddr /\ bufferBytes = 0 /\ shutdown = FALSE
  /\ status = [c \in Conns |-> "unused"] /\ connAddr = [c \in Conns |-> NoAddr]
  /\ connBuf = [c \in Conns |-> 0]
  /\ pc = [t \in Dialers |-> IF t = Loop THEN "resolve" ELSE "idle"]
  /\ addr = [t \in Dialers |-> NoAddr]
  /\ fresh = [t \in Dialers |-> NoConn] /\ prev = [t \in Dialers |-> NoConn]
  /\ using = [w \in Writers |-> NoConn]
  /\ ownerPc = "construct" /\ writes = 0 /\ abandoned = {}

goto(t, label) == pc' = [pc EXCEPT ![t] = label]
NoReader == \A w \in Writers : using[w] = NoConn

(* A system call or a lookup fails; the bound is on how often. *)
Fault == faults < MaxFaults /\ faults' = faults + 1

DnsChanges ==
  /\ changes < MaxDnsChanges /\ changes' = changes + 1
  /\ dns' \in Addrs \ {dns}
  /\ UNCHANGED <<faults, conn, destAddr, bufferBytes, shutdown, sockVars, pc, addr, fresh,
                 prev, using, ownerPc, writes, abandoned>>

-----------------------------------------------------------------------------
(* attemptResolveAndDial and attemptDialNewAddr.  An attempt ends well or with *)
(* an error; only a writer whose attempt ended well goes on, to write again.   *)
EndWell(t)  == goto(t, IF t \in Writers THEN "retry" ELSE "idle")

EndErrorStopsLoop(t) == goto(t, IF t = Loop THEN "stopped" ELSE "idle")  \* mutant

EndError(t) == goto(t, "idle")

Resolve(t) ==
  /\ pc[t] = "resolve"
  /\ \/ addr' = [addr EXCEPT ![t] = dns] /\ goto(t, "compare") /\ UNCHANGED faults
     \/ Fault /\ EndError(t) /\ UNCHANGED addr
  /\ UNCHANGED <<dnsVars, conn, destAddr, bufferBytes, shutdown, sockVars, fresh, prev,
                 using, ownerPc, writes, abandoned>>

SameAddr(t) == destAddr # NoAddr /\ destAddr = addr[t]

Compare(t) ==
  /\ pc[t] = "compare"
  /\ IF SameAddr(t) THEN EndWell(t) ELSE goto(t, "dial")
  /\ UNCHANGED <<dnsVars, faults, conn, destAddr, bufferBytes, shutdown, sockVars, addr,
                 fresh, prev, using, ownerPc, writes, abandoned>>

(* A socket identity that nothing refers to any more may stand for a new one. *)
Free(c) ==
  /\ status[c] # "open" /\ c # conn
  /\ \A t \in Dialers : c # fresh[t] /\ c # prev[t]

(* They are interchangeable: one of them is enough. *)
AnyFree == CHOOSE c \in Conns : Free(c)

Dial(t) ==
  /\ pc[t] = "dial"
  /\ \/ \E c \in Conns :
          /\ Free(c) /\ c = AnyFree
          /\ status' = [status EXCEPT ![c] = "open"]
          /\ connAddr' = [connAddr EXCEPT ![c] = addr[t]]
          /\ connBuf' = [connBuf EXCEPT ![c] = 0]
          /\ fresh' = [fresh EXCEPT ![t] = c]
          /\ goto(t, "setBuffer") /\ UNCHANGED faults
     \/ Fault /\ EndError(t) /\ UNCHANGED <<sockVars, fresh>>
  /\ UNCHANGED <<dnsVars, conn, destAddr, bufferBytes, shutdown, addr, prev, using,
                 ownerPc, writes, abandoned>>

SetBuffer(t) ==
  /\ pc[t] = "setBuffer"
  /\ \/ /\ connBuf' = [connBuf EXCEPT ![fresh[t]] = bufferBytes]
        /\ goto(t, "swap") /\ UNCHANGED <<fresh, faults, abandoned>>
     \/ /\ bufferBytes # 0 /\ Fault
        /\ abandoned' = abandoned \cup {fresh[t]}
        /\ fresh' = [fresh EXCEPT ![t] = NoConn]
        /\ EndError(t) /\ UNCHANGED connBuf
  /\ UNCHANGED <<dnsVars, conn, destAddr, bufferBytes, shutdown, status, connAddr, addr,
                 prev, using, ownerPc, writes>>

SwapUnlocked(t) ==                                               \* mutant
  /\ pc[t] = "swap"
  /\ destAddr' = addr[t] /\ conn' = fresh[t]
  /\ prev' = [prev EXCEPT ![t] = conn] /\ fresh' = [fresh EXCEPT ![t] = NoConn]
  /\ goto(t, "closePrev")
  /\ UNCHANGED <<dnsVars, faults, bufferBytes, shutdown, sockVars, addr, using, ownerPc,
                 writes, abandoned>>

(* Under the write lock, that is when no Write holds the read lock *)
Swap(t) ==
  /\ pc[t] = "swap" /\ NoReader
  /\ destAddr' = addr[t] /\ conn' = fresh[t]
  /\ prev' = [prev EXCEPT ![t] = conn] /\ fresh' = [fresh EXCEPT ![t] = NoConn]
  /\ goto(t, "closePrev")
  /\ UNCHANGED <<dnsVars, faults, bufferBytes, shutdown, sockVars, addr, using, ownerPc,
                 writes, abandoned>>

ForgetPrev(t) ==                                                 \* mutant
  /\ pc[t] = "closePrev"
  /\ EndWell(t)
  /\ prev' = [prev EXCEPT ![t] = NoConn]
  /\ UNCHANGED <<dnsVars, faults, conn, destAddr, bufferBytes, shutdown, sockVars, addr,
                 fresh, using, ownerPc, writes, abandoned>>

(* After the lock is released.  Closing a closed socket is an error. *)
ClosePrev(t) ==
  /\ pc[t] = "closePrev"
  /\ \/ prev[t] = NoConn /\ EndWell(t) /\ UNCHANGED status
     \/ /\ prev[t] # NoConn
        /\ status' = [status EXCEPT ![prev[t]] = "closed"]
        /\ IF status[prev[t]] = "open" THEN EndWell(t) ELSE EndError(t)
  /\ prev' = [prev EXCEPT ![t] = NoConn]
  /\ UNCHANGED <<dnsVars, faults, conn, destAddr, bufferBytes, shutdown, connAddr, connBuf,
                 addr, fresh, using, ownerPc, writes, abandoned>>

(* reconnectLoop: a tick, which select may prefer to the closed closeChan *)
Tick ==
  /\ pc[Loop] = "idle" /\ ownerPc # "construct"
  /\ goto(Loop, "resolve")
  /\ UNCHANGED <<dnsVars, faults, conn, destAddr, bufferBytes, shutdown, sockVars, addr,
                 fresh, prev, using, ownerPc, writes, abandoned>>

LoopExit ==
  /\ pc[Loop] = "idle" /\ shutdown
  /\ goto(Loop, "exited")
  /\ UNCHANGED <<dnsVars, faults, conn, destAddr, bufferBytes, shutdown, sockVars, addr,
                 fresh, prev, using, ownerPc, writes, abandoned>>

-----------------------------------------------------------------------------
(* Write, once the client is constructed: the read lock is held during the     *)
(* system call.                                                                *)
StartWrite(w) ==
  /\ pc[w] = "idle" /\ ownerPc \in {"up", "closing", "closed"} /\ writes < MaxWrites
  /\ writes' = writes + 1
  /\ IF conn = NoConn
     THEN goto(w, "resolve") /\ UNCHANGED using
     ELSE using' = [using EXCEPT ![w] = conn] /\ goto(w, "writing")
  /\ UNCHANGED <<dnsVars, faults, conn, destAddr, bufferBytes, shutdown, sockVars, addr,
                 fresh, prev, ownerPc, abandoned>>

(* The first Write succeeds, or leads to an attempt to reconnect. *)
EndWrite(w) ==
  /\ pc[w] = "writing"
  /\ using' = [using EXCEPT ![w] = NoConn]
  /\ \/ status[using[w]] = "open" /\ goto(w, "idle") /\ UNCHANGED faults
     \/ status[using[w]] = "open" /\ Fault /\ goto(w, "resolve")
     \/ status[using[w]] = "closed" /\ goto(w, "resolve") /\ UNCHANGED faults
  /\ UNCHANGED <<dnsVars, conn, destAddr, bufferBytes, shutdown, sockVars, addr, fresh,
                 prev, ownerPc, writes, abandoned>>

StartRetry(w) ==
  /\ pc[w] = "retry"
  /\ using' = [using EXCEPT ![w] = conn]
  /\ goto(w, "rewriting")
  /\ UNCHANGED <<dnsVars, faults, conn, destAddr, bufferBytes, shutdown, sockVars, addr,
                 fresh, prev, ownerPc, writes, abandoned>>

EndRetry(w) ==
  /\ pc[w] = "rewriting"
  /\ using' = [using EXCEPT ![w] = NoConn]
  /\ goto(w, "idle")
  /\ UNCHANGED <<dnsVars, faults, conn, destAddr, bufferBytes, shutdown, sockVars, addr,
                 fresh, prev, ownerPc, writes, abandoned>>

-----------------------------------------------------------------------------
(* The owner: newReconnectingUDPConn returns, SetWriteBuffer, later Close. *)
Constructed ==
  /\ ownerPc = "construct" /\ pc[Loop] = "idle"
  /\ ownerPc' = "setBuffer"
  /\ UNCHANGED <<dnsVars, faults, conn, destAddr, bufferBytes, shutdown, sockVars, pc, addr,
                 fresh, prev, using, writes, abandoned>>

(* If it fails nothing is stored, and NewAgentClientUDPWithParams returns the  *)
(* error: nobody gets the connection, to write to it or to close it.           *)
SetWriteBuffer ==
  /\ ownerPc = "setBuffer"
  /\ \/ /\ conn = NoConn /\ ownerPc' = "storeBuffer"
        /\ UNCHANGED <<connBuf, faults>>
     \/ /\ conn # NoConn /\ ownerPc' = "storeBuffer"
        /\ connBuf' = [connBuf EXCEPT ![conn] = 1] /\ UNCHANGED faults
     \/ /\ conn # NoConn /\ Fault /\ ownerPc' = "failed"
        /\ UNCHANGED connBuf
  /\ UNCHANGED <<dnsVars, conn, destAddr, bufferBytes, shutdown, status, connAddr,
                 pc, addr, fresh, prev, using, writes, abandoned>>

StoreBuffer ==
  /\ ownerPc = "storeBuffer"
  /\ bufferBytes' = 1
  /\ ownerPc' = "up"
  /\ UNCHANGED <<dnsVars, faults, conn, destAddr, shutdown, sockVars, pc, addr, fresh, prev,
                 using, writes, abandoned>>

CloseChan ==
  /\ ownerPc = "up"
  /\ shutdown' = TRUE
  /\ ownerPc' = "closing"
  /\ UNCHANGED <<dnsVars, faults, conn, destAddr, bufferBytes, sockVars, pc, addr, fresh,
                 prev, using, writes, abandoned>>

CloseConn ==
  /\ ownerPc = "closing" /\ NoReader
  /\ IF conn = NoConn
     THEN UNCHANGED status ELSE status' = [status EXCEPT ![conn] = "closed"]
  /\ ownerPc' = "closed"
  /\ UNCHANGED <<dnsVars, faults, conn, destAddr, bufferBytes, shutdown, connAddr, connBuf,
                 pc, addr, fresh, prev, using, writes, abandoned>>

Attempt(t) ==
  Resolve(t) \/ Compare(t) \/ Dial(t) \/ SetBuffer(t) \/ Swap(t) \/ ClosePrev(t)

OwnerNext == Constructed \/ SetWriteBuffer \/ StoreBuffer \/ CloseChan \/ CloseConn

Next ==
  \/ DnsChanges \/ Tick \/ LoopExit \/ OwnerNext
  \/ \E t \in Dialers : Attempt(t)
  \/ \E w \in Writers : StartWrite(w) \/ EndWrite(w) \/ StartRetry(w) \/ EndRetry(w)

Spec == Init /\ [][Next]_vars

(* The ticker keeps firing; goroutines and system calls make progress. *)
FairSpec ==
  /\ Spec
  /\ WF_vars(Constructed) /\ WF_vars(Tick)
  /\ \A t \in Dialers : WF_vars(Attempt(t))
  /\ \A w \in Writers : WF_vars(EndWrite(w)) /\ WF_vars(StartRetry(w)) /\ WF_vars(EndRetry(w))

-----------------------------------------------------------------------------
Labels == {"idle", "resolve", "compare", "dial", "setBuffer", "swap", "closePrev",
           "writing", "retry", "rewriting", "exited"}

TypeOK ==
  /\ dns \in Addrs /\ changes \in 0..MaxDnsChanges /\ faults \in 0..MaxFaults
  /\ conn \in Conns \cup {NoConn} /\ destAddr \in Addrs \cup {NoAddr}
  /\ bufferBytes \in {0, 1} /\ shutdown \in BOOLEAN
  /\ status \in [Conns -> {"unused", "open", "closed"}]
  /\ connAddr \in [Conns -> Addrs \cup {NoAddr}] /\ connBuf \in [Conns -> {0, 1}]
  /\ pc \in [Dialers -> Labels] /\ addr \in [Dialers -> Addrs \cup {NoAddr}]
  /\ fresh \in [Dialers -> Conns \cup {NoConn}] /\ prev \in [Dialers -> Conns \cup {NoConn}]
  /\ using \in [Writers -> Conns \cup {NoConn}]
  /\ ownerPc \in {"construct", "setBuffer", "storeBuffer", "failed", "up", "closing", "closed"}
  /\ writes \in 0..MaxWrites /\ abandoned \subseteq Conns

(* The current connection and its recorded address belong together, and a      *)
(* writer that retries finds one: c.conn is not nil at line 151 (Write).       *)
CurrentConsistent ==
  /\ conn # NoConn => connAddr[conn] = destAddr
  /\ (conn = NoConn) <=> (destAddr = NoAddr)
  /\ \A w \in Writers : pc[w] \in {"retry", "rewriting"} => conn # NoConn

(* Until Close the current connection is open, however many goroutines swap it *)
(* at the same time: each closes the one it replaced (attemptDialNewAddr).     *)
CurrentOpen == conn # NoConn /\ ownerPc # "closed" => status[conn] = "open"

(* No socket is lost: one that is open is the current one, in the hands of the *)
(* goroutine that dialed or replaced it, or was given up with its error.       *)
OpenSocketsHeld ==
  \A c \in Conns : status[c] = "open" =>
    c = conn \/ c \in abandoned \/ \E t \in Dialers : c \in {fresh[t], prev[t]}

(* The sockets at all times: one current, open and right, and none lost.       *)
SocketsExact == CurrentConsistent /\ CurrentOpen /\ OpenSocketsHeld

(* No socket is closed under a Write that has begun on it, neither by a swap   *)
(* nor by Close (connMtx).                                                     *)
NoCloseUnderWrite ==
  [][\A w \in Writers : using[w] # NoConn /\ status[using[w]] = "open"
                          => status'[using[w]] = "open"]_vars

(* When the host name stops changing and lookups stop failing, the connection  *)
(* ends up at the address it resolves to, unless it is being closed.           *)
Converges == <>[](shutdown \/ destAddr = dns)

(* Line 158: "Close stops the reconnectLoop, then closes the connection".      *)
ClosedForGood ==
  ownerPc = "closed" /\ pc[Loop] = "exited" => \A c \in Conns \ abandoned : status[c] # "open"

=============================================================================
