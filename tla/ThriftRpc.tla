------------------------------ MODULE ThriftRpc ------------------------------
(***************************************************************************)
(* Calls over one connection: a TStandardClient, used by one goroutine and *)
(* perhaps shared by the clients of several services, the generated        *)
(* processor of one service, and the TSimpleServer that runs it.  A call   *)
(* may time out before its reply has arrived, also in the middle of it;    *)
(* the client keeps using the connection, as nothing in it says not to.    *)
(*                                                                         *)
(* Only the order of whole messages matters here, their bytes are those of *)
(* ThriftWire.  A position inside a message is not taken for the start of  *)
(* a message: the protocol id and version that ReadMessageBegin asks for   *)
(* are assumed not to occur in what is left of it.  The client reads with  *)
(* the compact protocol or strictly with the binary one: ReadMessageBegin  *)
(* then fails after at most four bytes.  A binary protocol that is not     *)
(* strict takes the four for a length and so may skip several replies; it  *)
(* is left out.                                                            *)
(***************************************************************************)
EXTENDS Integers, Sequences

CONSTANT MaxCalls

RpcAssumption == MaxCalls \in Nat

VARIABLES processor,    \* the table of the server's processor
          sent,         \* from the client, not yet read by the server
          replies,      \* to the client, not yet read completely
          inside,       \* the client's next byte is inside Head(replies)
          open,         \* the server has not closed the connection
          seqId,        \* TStandardClient.seqId, also the number of calls made
          pending,      \* the method whose reply Recv waits for, or NoMethod
          outcome,      \* of the last call: [seq, kind, of]
          outOfStep     \* some call has ended other than by a server's answer

thriftVars == <<processor, sent, replies, inside, open, seqId, pending, outcome, outOfStep>>

NoMethod == ""

----------------------------------------------------------------------------
(* The generated clients and processors, by the template of each method.   *)

AgentClient == [emitZipkinBatch |-> "oneway", emitBatch |-> "oneway"]
SamplingManagerClient == [getSamplingStrategy |-> "two-way"]
BaggageRestrictionManagerClient == [getBaggageRestrictions |-> "two-way"]
CollectorClient == [submitBatches |-> "two-way"]
ZipkinCollectorClient == [submitZipkinBatch |-> "two-way"]

AgentProcessor == [emitZipkinBatch |-> "oneway", emitBatch |-> "oneway"]
SamplingManagerProcessor == [getSamplingStrategy |-> "two-way"]
BaggageRestrictionManagerProcessor == [getBaggageRestrictions |-> "two-way"]
CollectorProcessor == [submitBatches |-> "two-way"]
ZipkinCollectorProcessor == [submitZipkinBatch |-> "two-way"]

Clients ==
    {AgentClient, SamplingManagerClient, BaggageRestrictionManagerClient, CollectorClient,
     ZipkinCollectorClient}
Processors ==
    {AgentProcessor, SamplingManagerProcessor, BaggageRestrictionManagerProcessor,
     CollectorProcessor, ZipkinCollectorProcessor}

----------------------------------------------------------------------------

ThriftInit ==
    /\ processor \in Processors
    /\ sent = <<>> /\ replies = <<>>
    /\ inside = FALSE /\ open = TRUE
    /\ seqId = 0 /\ pending = NoMethod
    /\ outcome = [seq |-> 0, kind |-> "none", of |-> 0]
    /\ outOfStep = FALSE

Ends(seq, kind, of) == outcome' = [seq |-> seq, kind |-> kind, of |-> of] /\ pending' = NoMethod

Fails(seq) == Ends(seq, "error", 0) /\ outOfStep' = TRUE

\* TStandardClient.Send: a message of the type CALL, oneway or not.  What is
\* sent on a connection the server has closed may or may not fail.
Send(name, seq) ==
    sent' = IF open THEN Append(sent, [name |-> name, seq |-> seq]) ELSE sent

Call(name, kind) ==
    /\ pending = NoMethod /\ seqId < MaxCalls
    /\ seqId' = seqId + 1
    /\ \/ /\ Send(name, seqId')
          /\ IF kind = "oneway" THEN Ends(seqId', "sent", seqId')
             ELSE pending' = name /\ UNCHANGED outcome
          /\ UNCHANGED outOfStep
       \/ ~open /\ Fails(seqId') /\ UNCHANGED sent
    /\ UNCHANGED <<processor, replies, inside, open>>

NextCall == \E client \in Clients : \E name \in DOMAIN client : Call(name, client[name])

----------------------------------------------------------------------------
(* TStandardClient.Recv. *)

\* ReadMessageBegin inside a message fails after one to four bytes; sooner or
\* later it has passed the message, and may then be inside the next one.
RecvInside ==
    /\ pending # NoMethod /\ inside
    /\ Fails(seqId)
    /\ \/ UNCHANGED <<replies, inside>>
       \/ replies' = Tail(replies) /\ inside' \in {FALSE, Len(replies) > 1}
    /\ UNCHANGED <<processor, sent, open, seqId>>

\* Mutant: the sequence id is not compared.
ExpectedOfAnyCall(m) == m.name = pending /\ m.type \in {"REPLY", "EXCEPTION"}

Expected(m) == m.name = pending /\ m.seq = seqId /\ m.type \in {"REPLY", "EXCEPTION"}

\* WRONG_METHOD_NAME, BAD_SEQUENCE_ID, INVALID_MESSAGE_TYPE: the body stays.
RecvMismatch ==
    /\ pending # NoMethod /\ ~inside /\ replies # <<>>
    /\ ~Expected(Head(replies))
    /\ Fails(seqId)
    /\ inside' = TRUE
    /\ UNCHANGED <<processor, sent, replies, open, seqId>>

\* The reply, or the tApplicationException of the server.
RecvReply ==
    /\ pending # NoMethod /\ ~inside /\ replies # <<>>
    /\ Expected(Head(replies))
    /\ Ends(seqId, Head(replies).type, Head(replies).of)
    /\ replies' = Tail(replies)
    /\ UNCHANGED <<processor, sent, inside, open, seqId, outOfStep>>

\* The transport's read deadline passes, before a reply or in the middle of it.
RecvTimeout ==
    /\ pending # NoMethod /\ open
    /\ Fails(seqId)
    /\ \/ UNCHANGED inside
       \/ replies # <<>> /\ inside' = TRUE
    /\ UNCHANGED <<processor, sent, replies, open, seqId>>

RecvEOF ==
    /\ pending # NoMethod /\ ~open /\ replies = <<>>
    /\ Fails(seqId)
    /\ UNCHANGED <<processor, sent, replies, inside, open, seqId>>

Recv == RecvInside \/ RecvMismatch \/ RecvReply \/ RecvTimeout \/ RecvEOF

----------------------------------------------------------------------------
(* The server: TSimpleServer.processRequests and the processor.            *)

Answer(r, type) ==
    replies' = Append(replies, [name |-> r.name, seq |-> r.seq, type |-> type, of |-> r.seq])

\* A method's Process: the arguments may not be readable, the handler may
\* abandon the request, fail with an error of its own or of a transport, or
\* succeed.  processRequests goes on after an error of the handler's own.
ProcessTwoWay(r) ==
    \/ Answer(r, "EXCEPTION") /\ open' \in BOOLEAN
    \/ UNCHANGED replies /\ open' = FALSE
    \/ Answer(r, "REPLY") /\ UNCHANGED open

ProcessOneway(r) == open' \in BOOLEAN /\ UNCHANGED replies

\* The processor knows no such method: it skips the arguments and answers,
\* also where the client does not wait for an answer.
ProcessUnknown(r) == Answer(r, "EXCEPTION") /\ UNCHANGED open

Process ==
    /\ open /\ sent # <<>>
    /\ LET r == Head(sent)
       IN  \/ r.name \notin DOMAIN processor /\ ProcessUnknown(r)
           \/ /\ r.name \in DOMAIN processor
              /\ \/ processor[r.name] = "two-way" /\ ProcessTwoWay(r)
                 \/ processor[r.name] = "oneway" /\ ProcessOneway(r)
    /\ sent' = Tail(sent)
    /\ UNCHANGED <<processor, inside, seqId, pending, outcome, outOfStep>>

ThriftNext == NextCall \/ Recv \/ Process

ThriftSpec == ThriftInit /\ [][ThriftNext]_thriftVars

----------------------------------------------------------------------------
(* Properties. *)

\* A call that succeeds, or fails with the server's exception, has the answer
\* to that very call and not a late one to an earlier call, and all calls
\* before it were in step: a client that has once left a reply unread never
\* gets an answer again, since every further call adds one to the queue and
\* takes at most one from it.  (TStandardClient has neither a way back into
\* step nor a sign that it is out of it.)
AnswersInStep ==
    outcome.kind \in {"REPLY", "EXCEPTION"} => outcome.of = outcome.seq /\ ~outOfStep
=============================================================================
