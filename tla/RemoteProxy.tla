---------------------------- MODULE RemoteProxy ----------------------------
(***************************************************************************)
(* lib/Remote: threads that share one RemoteProxyEnvironment, the stream   *)
(* to its server, and the server's handler with the objects that the       *)
(* client has handles to.                                                  *)
(*                                                                         *)
(* Requests go out under osMutex.  The thread that has isMutex waits on    *)
(* the stream, and keeps a reply for another thread in tidToReply.  `n`    *)
(* numbers the requests: a datagram has only the hash of the thread.       *)
(***************************************************************************)
EXTENDS Integers, Sequences, FiniteSets, SequencesExt, FiniteSetsExt

CONSTANTS Threads, None,
          Tid,         \* 32 bit hash of the id of a thread
          MaxRequests

\* Threads with the same hash would take each other's replies.
ASSUME TidAssumption == \A s, t \in Threads : s # t => Tid[s] # Tid[t]
ASSUME NoneAssumption == None \notin Threads
ASSUME MaxRequestsAssumption == MaxRequests \in Nat

VARIABLES
    pc,        \* of each thread in transact()
    request,   \* what it asks for, or asked for last
    foreign,   \* while an argument is converted: the handle called, the argument's
    isMutex,   \* who has it
    toServer, toClient,  \* datagrams on the stream
    tidToReply,
    connectionActive,
    broken,    \* the stream: its server is gone
    handles,   \* RemoteProxyHandles of the client, by remoteID
    objects,   \* ids in getObjectsMap() of the server
    lastId,    \* of getNewObjectId()
    serving,   \* runHandler() has not returned
    lastN      \* number of the last request

clientVars == <<pc, request, foreign, isMutex, tidToReply, connectionActive, handles, lastN>>
serverVars == <<objects, lastId, serving>>
stream == <<toServer, toClient, broken>>
vars == <<clientVars, serverVars, stream>>

\* RemoteProxyEnvironment() has returned: its object has the id 1.
EnvId == 1

Init ==
    /\ pc = [t \in Threads |-> "idle"]
    /\ request = [t \in Threads |-> [action |-> "none", uses |-> {}, n |-> 0]]
    /\ foreign = [t \in Threads |-> {}]
    /\ isMutex = None
    /\ toServer = <<>> /\ toClient = <<>>
    /\ tidToReply = <<>>
    /\ connectionActive = TRUE /\ broken = FALSE
    /\ handles = {}
    /\ objects = {EnvId} /\ lastId = EnvId
    /\ serving = TRUE
    /\ lastN = 0

(***************************************************************************)
(* The calls of the client                                                 *)
(***************************************************************************)

\* transact() throws at once when the connection is known to be inactive.
Ask(t, action, uses) ==
    /\ lastN' = lastN + 1
    /\ request' = [request EXCEPT ![t] = [action |-> action, uses |-> uses, n |-> lastN + 1]]
    /\ pc' = [pc EXCEPT ![t] = IF connectionActive THEN "send" ELSE "idle"]

Busy == {t \in Threads : pc[t] # "idle"}
Closed == \E t \in Threads : request[t].action = "close"

\* Mutant: a caller does not hold the handle and the arguments it uses
InUseMutant == UNION {foreign[t] : t \in Busy}

\* Threads hold the handles that they use.
InUse == UNION {request[t].uses \cup foreign[t] : t \in Busy}

\* "make" is findProxy() and convertObjectToProxy(), "query" the calls that
\* make no object.  An argument of another environment is converted by a make.
Begin(t) ==
    /\ pc[t] = "idle" /\ ~Closed /\ lastN < MaxRequests
    /\ \/ Ask(t, "make", {EnvId}) /\ UNCHANGED <<handles, foreign>>
       \/ \E h, arg \in handles, action \in {"call", "query"} :
             Ask(t, action, {h, arg}) /\ UNCHANGED <<handles, foreign>>
       \/ \E h \in handles \ InUse :                \* ~RemoteProxyHandle()
             Ask(t, "release", {h}) /\ handles' = handles \ {h} /\ UNCHANGED foreign
       \/ \E h \in handles :
             /\ Ask(t, "make", {EnvId}) /\ UNCHANGED handles
             /\ foreign' = [foreign EXCEPT ![t] = IF connectionActive THEN {h} ELSE {}]
    /\ UNCHANGED <<isMutex, tidToReply, connectionActive, serverVars, stream>>

\* The handle of a converted argument lives in the loop over the arguments:
\* it is released before the call is sent.
Continue(t) ==
    /\ pc[t] = "next"
    /\ IF request[t].action = "make"
         THEN Ask(t, "release", foreign[t] \ handles)
         ELSE Ask(t, "call", foreign[t])
    /\ foreign' = [foreign EXCEPT ![t] = IF connectionActive THEN @ ELSE {}]
    /\ UNCHANGED <<handles, isMutex, tidToReply, connectionActive, serverVars, stream>>

\* ~RemoteProxyEnvironment(): every handle shares the environment.
Close(t) ==
    /\ Busy = {} /\ handles = {} /\ ~Closed
    /\ Ask(t, "close", {EnvId})
    /\ UNCHANGED <<foreign, handles, isMutex, tidToReply, connectionActive, serverVars, stream>>

(***************************************************************************)
(* transact()                                                              *)
(***************************************************************************)

\* Mutant: the reply stays in the cache.
UncachedMutant(t) == tidToReply
Uncached(t) == Restrict(tidToReply, DOMAIN tidToReply \ {Tid[t]})

\* Mutant: a reply of another thread is thrown away.
CachedMutant(reply) == tidToReply
Cached(reply) ==
    [tid \in DOMAIN tidToReply \cup {reply.tid} |->
        IF tid = reply.tid THEN reply ELSE tidToReply[tid]]

\* The request goes out with the hash of the thread.
Datagram(t) == [action |-> request[t].action, uses |-> request[t].uses,
                n |-> request[t].n, tid |-> Tid[t]]

\* What is sent to a server that is gone is lost, noticed or not.
Send(t) ==
    /\ pc[t] = "send"
    /\ \/ /\ pc' = [pc EXCEPT ![t] = "wait"]
          /\ toServer' = IF broken THEN toServer ELSE Append(toServer, Datagram(t))
       \/ broken /\ pc' = [pc EXCEPT ![t] = "fail"] /\ UNCHANGED toServer
    /\ UNCHANGED <<request, foreign, isMutex, tidToReply, connectionActive, handles, lastN,
                   serverVars, toClient, broken>>

\* The catch of Poco::IOException
SendFailed(t) ==
    /\ pc[t] = "fail" /\ isMutex = None
    /\ tidToReply' = Uncached(t)
    /\ connectionActive' = FALSE
    /\ pc' = [pc EXCEPT ![t] = "idle"]
    /\ foreign' = [foreign EXCEPT ![t] = {}]
    /\ UNCHANGED <<request, isMutex, handles, lastN, serverVars, stream>>

\* The destructor of the argument's handle lets no error out.
Throw(t) ==
    LET goesOn == foreign[t] # {} /\ request[t].action = "release"
    IN  /\ pc' = [pc EXCEPT ![t] = IF goesOn THEN "next" ELSE "idle"]
        /\ foreign' = [foreign EXCEPT ![t] = IF goesOn THEN @ ELSE {}]
        /\ UNCHANGED handles

\* transact() returns `reply`, of which the caller makes a handle or throws.
Return(t, reply) ==
    IF foreign[t] = {} \/ request[t].action = "call"
      THEN /\ pc' = [pc EXCEPT ![t] = "idle"]
           /\ foreign' = [foreign EXCEPT ![t] = {}]
           /\ handles' = handles \cup reply.ids
    ELSE IF reply.result = "errorMsg"
      THEN Throw(t)
      ELSE /\ pc' = [pc EXCEPT ![t] = "next"]
           /\ foreign' = [foreign EXCEPT ![t] = @ \cup reply.ids]
           /\ UNCHANGED handles

LockInput(t) ==
    /\ pc[t] = "wait" /\ isMutex = None
    /\ IF Tid[t] \in DOMAIN tidToReply
         THEN /\ Return(t, tidToReply[Tid[t]])
              /\ tidToReply' = Uncached(t)
              /\ UNCHANGED isMutex
         ELSE /\ pc' = [pc EXCEPT ![t] = "read"]
              /\ isMutex' = t
              /\ UNCHANGED <<foreign, handles, tidToReply>>
    /\ UNCHANGED <<request, connectionActive, lastN, serverVars, stream>>

Read(t) ==
    /\ pc[t] = "read" /\ toClient # <<>>
    /\ LET reply == Head(toClient)
       IN  IF reply.tid = Tid[t]
             THEN Return(t, reply) /\ UNCHANGED tidToReply
             ELSE /\ tidToReply' = Cached(reply)
                  /\ pc' = [pc EXCEPT ![t] = "wait"]
                  /\ UNCHANGED <<foreign, handles>>
    /\ toClient' = Tail(toClient)
    /\ isMutex' = None
    /\ UNCHANGED <<request, connectionActive, lastN, serverVars, toServer, broken>>

\* At the end of the stream deserialize() throws ObjectSerializeError, which
\* the catch does not match: the connection stays "active".
ReadFails(t) ==
    /\ pc[t] = "read" /\ toClient = <<>> /\ broken
    /\ Throw(t)
    /\ isMutex' = None
    /\ UNCHANGED <<request, tidToReply, connectionActive, lastN, serverVars, stream>>

(***************************************************************************)
(* The server                                                              *)
(***************************************************************************)

\* Mutant: the result gets its id before the call has thrown.
AnswersMutant(q) ==
    {[tid |-> q.tid, n |-> q.n, result |-> result,
      ids |-> IF q.action \in {"make", "call"} THEN {lastId + 1} ELSE {}]
        : result \in {"message", "handleID"}}

\* What the handler may answer to request q, and the objects it leaves
Answers(q) ==
    LET answer(result, ids) == [tid |-> q.tid, n |-> q.n, result |-> result, ids |-> ids]
        made == {answer("handleID", {lastId + 1})}
    IN  IF q.action \in {"release", "close"} THEN {answer("result", {})}
        ELSE IF ~(q.uses \subseteq objects) THEN {answer("no object", {})}
        ELSE CASE q.action = "make" -> made \cup {answer("errorMsg", {})}
               [] q.action = "call" -> made \cup {answer("message", {})}
               [] q.action = "query" -> {answer("result", {})}

\* Mutant: the objects of released handles are kept.
RemovedMutant(q) == IF q.action = "close" THEN q.uses ELSE {}
Removed(q) == IF q.action \in {"release", "close"} THEN q.uses ELSE {}

\* runHandlerOnce(); a datagram to a client that is gone is lost.
Serve ==
    /\ serving /\ toServer # <<>>
    /\ LET q == Head(toServer)
       IN  \E reply \in Answers(q) :
             /\ objects' = (objects \ Removed(q)) \cup reply.ids
             /\ lastId' = lastId + Cardinality(reply.ids)
             /\ toClient' = IF broken THEN toClient ELSE Append(toClient, reply)
             /\ serving' = (q.action # "close")
    /\ toServer' = Tail(toServer)
    /\ UNCHANGED <<clientVars, broken>>

\* recvDatagram() throws out of runHandler().
HangUp ==
    /\ serving /\ broken /\ toServer = <<>>
    /\ serving' = FALSE
    /\ UNCHANGED <<clientVars, stream, objects, lastId>>

\* The connection ends: the last datagrams of either direction are lost.
Break ==
    /\ ~broken
    /\ broken' = TRUE
    /\ \E k \in 0..Len(toClient), m \in 0..Len(toServer) :
          toClient' = SubSeq(toClient, 1, k) /\ toServer' = SubSeq(toServer, 1, m)
    /\ UNCHANGED <<clientVars, serverVars>>

-----------------------------------------------------------------------------
Transact(t) == Send(t) \/ SendFailed(t) \/ Read(t) \/ ReadFails(t) \/ Continue(t)

\* Everyone has returned and nothing is left to ask.
Finished == Busy = {} /\ (lastN >= MaxRequests \/ Closed) /\ UNCHANGED vars

Next ==
    \/ \E t \in Threads : Begin(t) \/ Close(t) \/ Transact(t) \/ LockInput(t)
    \/ Serve \/ HangUp \/ Break \/ Finished

\* Threads run.  A thread that waits for isMutex gets it if it keeps being
\* released.  The server goes on, as long as its calls return.
Spec ==
    /\ Init /\ [][Next]_vars
    /\ \A t \in Threads : WF_vars(Transact(t)) /\ SF_vars(LockInput(t))
    /\ WF_vars(Serve)

(***************************************************************************)
(* Properties                                                              *)
(***************************************************************************)

Replies == Range(toClient) \cup Range(tidToReply)

TypeOK ==
    /\ pc \in [Threads -> {"idle", "send", "wait", "read", "fail", "next"}]
    /\ \A t \in Threads :
          /\ request[t].action \in {"none", "make", "call", "query", "release", "close"}
          /\ request[t].uses \subseteq 1..lastId /\ request[t].n \in 0..lastN
          /\ foreign[t] \subseteq 1..lastId
          /\ (isMutex = t) = (pc[t] = "read")
    /\ handles \subseteq 1..lastId /\ objects \subseteq 1..lastId
    /\ \A reply \in Replies :
          /\ reply.result \in {"handleID", "result", "message", "errorMsg", "no object"}
          /\ (reply.ids # {}) = (reply.result = "handleID")
    /\ \A tid \in DOMAIN tidToReply : tidToReply[tid].tid = tid
    /\ connectionActive \in BOOLEAN /\ broken \in BOOLEAN /\ serving \in BOOLEAN

\* RepliesHaveTakers: every reply on the stream or in the cache answers the
\* request that its thread now waits for, and no request has two (transact():
\* a reply left behind in tidToReply would be the result of a later call).
RepliesHaveTakers ==
    /\ \A reply \in Replies : \E t \in Threads :
          pc[t] \in {"wait", "read"} /\ Tid[t] = reply.tid /\ request[t].n = reply.n
    /\ \A i, j \in DOMAIN toClient : i # j => toClient[i].n # toClient[j].n
    /\ \A reply \in Range(toClient) : reply.tid \notin DOMAIN tidToReply

\* ObjectsMatchHandles: while the connection lives, the server keeps exactly
\* the objects that the client has handles to, will get or is about to release
\* (getNewObjectId() and removeObjectAtId() against makeHandle() and
\* ~RemoteProxyHandle(): none leaks); and in whatever order threads release
\* handles, a call on handles of this environment finds their objects.
ObjectsMatchHandles ==
    LET removals == {t \in Threads : request[t].action \in {"release", "close"}
                                       /\ (pc[t] = "send" \/ \E q \in Range(toServer) : q.n = request[t].n)}
        temporary(t) == IF pc[t] = "next" /\ request[t].action = "make" THEN foreign[t] ELSE {}
    IN  /\ \A reply \in Replies : reply.result = "no object" =>
              \E t \in Threads : reply.tid = Tid[t] /\ foreign[t] # {}
        /\ ~broken => objects =
          handles \cup (UNION {reply.ids : reply \in Replies})
                  \cup (UNION {request[t].uses : t \in removals})
                  \cup (UNION {temporary(t) : t \in Threads})
                  \cup (IF Closed THEN {} ELSE {EnvId})

\* ForeignArgumentsReachObjects: so does a call with an argument of another
\* environment, which is converted: "it will be converted to a local Object and
\* back into a ProxyObject of the correct environment" (Proxy/Handle.hpp:42-44).
ForeignArgumentsReachObjects == \A reply \in Replies : reply.result # "no object"

\* ImplementsCalls: transact() gives each thread the answer to its own call,
\* once; every call returns, if need be with an error after the connection is
\* lost (RemoteCalls).
Waiting(t) == pc[t] \in {"send", "wait", "read", "fail"}
Asked == [t \in Threads |-> IF Waiting(t) THEN request[t].n ELSE 0]
Answered ==
    [t \in Threads |->
        IF Waiting(t) /\ \E reply \in Replies : reply.tid = Tid[t]
          THEN (CHOOSE reply \in Replies : reply.tid = Tid[t]).n ELSE 0]
ImplementsCalls == INSTANCE RemoteCalls WITH
    asked <- Asked, answered <- Answered, lost <- broken
CallsSpec == ImplementsCalls!Spec
=============================================================================
