------------------------- MODULE RemoteProxyProofs -------------------------
(***************************************************************************)
(* RemoteProxy for every set of threads and every number of requests: a    *)
(* reply is taken by the thread it answers, the server keeps the objects   *)
(* that the client has handles to, and transact() keeps the safety half of *)
(* RemoteCalls.                                                            *)
(***************************************************************************)
EXTENDS RemoteProxy, FiniteSetTheorems, SequenceTheorems, TLAPS

Actions == {"none", "make", "call", "query", "release", "close"}
Results == {"handleID", "result", "message", "errorMsg", "no object"}
Tids == {Tid[t] : t \in Threads}
Requests == [action : Actions, uses : SUBSET Nat, n : Nat]
Datagrams == [action : Actions \ {"none"}, uses : SUBSET Nat, n : Nat, tid : Tids]
ReplyDatagrams == [tid : Tids, n : Nat, result : Results, ids : SUBSET Nat]

(***************************************************************************)
(* The inductive invariant.                                                *)
(***************************************************************************)

\* The types, with the shape of requests and datagrams that TypeOK leaves open.
Types ==
    /\ TypeOK
    /\ request \in [Threads -> Requests] /\ foreign \in [Threads -> SUBSET Nat]
    /\ isMutex \in Threads \cup {None}
    /\ lastId \in Nat \ {0} /\ lastN \in Nat
    /\ toServer \in Seq(Datagrams) /\ toClient \in Seq(ReplyDatagrams)
    /\ DOMAIN tidToReply \subseteq Tids /\ tidToReply \in [DOMAIN tidToReply -> ReplyDatagrams]
    /\ \A reply \in Replies : reply.ids \subseteq 1..lastId

\* A thread that sent a request, and has yet to see its reply.
Sent(t) == pc[t] \in {"wait", "read"}

\* A thread at work has a request, and the numbers of two threads differ.
NumbersDiffer ==
    /\ \A t \in Busy : request[t].n # 0 /\ request[t].action # "none"
    /\ \A s, t \in Threads : request[s].n = request[t].n => s = t \/ request[t].n = 0

\* A request on the stream is the one its thread waits with.
RequestsHaveCallers ==
    ~broken => \A q \in Range(toServer) : \E t \in Threads :
        Sent(t) /\ q = Datagram(t)

\* A reply answers the request its thread waits with; a release makes no object.
RepliesHaveCallers ==
    \A reply \in Replies : \E t \in Threads :
        /\ Sent(t) /\ Tid[t] = reply.tid /\ request[t].n = reply.n
        /\ request[t].action \in {"release", "close"} => reply.result = "result"

DistinctTids(s) == \A i, j \in DOMAIN s : s[i].tid = s[j].tid => i = j

\* A thread's request or its reply is in one place at most.
OnePlace ==
    /\ DistinctTids(toClient)
    /\ \A reply \in Range(toClient) : reply.tid \notin DOMAIN tidToReply
    /\ ~broken => /\ DistinctTids(toServer)
                  /\ \A q \in Range(toServer), reply \in Replies : q.tid # reply.tid

\* The reader looked for its reply in the cache; nobody else has put one there since.
ReaderUncached == \A t \in Threads : pc[t] = "read" => Tid[t] \notin DOMAIN tidToReply

\* An error on the stream means that the server is gone.
LossIsReal == ~connectionActive \/ (\E t \in Threads : pc[t] = "fail") => broken

CallInv ==
    /\ NumbersDiffer /\ RequestsHaveCallers /\ RepliesHaveCallers /\ OnePlace
    /\ ReaderUncached /\ LossIsReal

\* A thread that has objects to release: the server has not yet done it.
Removal(t) ==
    /\ request[t].action \in {"release", "close"}
    /\ pc[t] = "send" \/ \E q \in Range(toServer) : q.n = request[t].n

\* A thread between the making of a temporary handle and its release.
Temporary(t) == pc[t] = "next" /\ request[t].action = "make"

\* What was made for it and it has yet to see
Promised(t) == UNION {reply.ids : reply \in {r \in Replies : r.tid = Tid[t]}}

\* The objects of the server that a thread answers for: those it will get, those
\* it releases, and that of a temporary handle.
Owned(t) ==
    Promised(t) \cup (IF Removal(t) THEN request[t].uses ELSE {})
                \cup (IF Temporary(t) THEN foreign[t] \ handles ELSE {})

ThreadsOwned == UNION {Owned(t) : t \in Threads}

\* ~RemoteProxyEnvironment() answers for the environment's object.
EnvOwned == IF Closed THEN {} ELSE {EnvId}

\* An object on the server has one owner: the handles, a thread, or the environment.
OneOwner ==
    ~broken =>
        /\ objects = handles \cup ThreadsOwned \cup EnvOwned
        /\ handles \cap EnvOwned = {}
        /\ \A t \in Threads : Owned(t) \cap handles = {} /\ Owned(t) \cap EnvOwned = {}
        /\ \A s, t \in Threads : s # t => Owned(s) \cap Owned(t) = {}

\* The handles that a request uses stay in the client until it has returned.
HandlesInUse ==
    \A t \in Threads :
        /\ pc[t] = "idle" => foreign[t] = {}
        /\ pc[t] = "next" => request[t].action # "close"
        /\ pc[t] \in {"send", "wait", "read"} =>
              /\ request[t].action = "make" => foreign[t] \subseteq handles /\ request[t].uses = {EnvId}
              /\ request[t].action \in {"query", "close"} => foreign[t] = {}
              /\ request[t].action \in {"call", "query"} /\ foreign[t] = {} => request[t].uses \subseteq handles

\* The environment is closed last.
ClosedLast ==
    Closed => \A t \in Threads : request[t].action # "close" => pc[t] = "idle"

\* An object is not found only by a call with a converted argument.
ForeignOnly ==
    \A reply \in Replies : reply.result = "no object" =>
        \E t \in Threads : reply.tid = Tid[t] /\ foreign[t] # {}

ObjectInv == OneOwner /\ HandlesInUse /\ ClosedLast /\ ForeignOnly

(***************************************************************************)
(* Facts about the operators.                                              *)
(***************************************************************************)

\* A sequence's elements are the values of its indices.
LEMMA InRange ==
    ASSUME NEW S, NEW s \in Seq(S), NEW d
    PROVE  d \in Range(s) <=> \E i \in 1..Len(s) : s[i] = d
  BY DEF Range

\* Taking the head of a queue leaves its other elements, none of the same thread.
LEMMA Popped ==
    ASSUME NEW S, NEW s \in Seq(S), s # <<>>
    PROVE  /\ Head(s) \in Range(s) /\ Head(s) \in S
           /\ Tail(s) \in Seq(S)
           /\ Range(s) = {Head(s)} \cup Range(Tail(s))
           /\ DistinctTids(s) => /\ DistinctTids(Tail(s))
                                 /\ \A d \in Range(Tail(s)) : d.tid # Head(s).tid
<1>1. /\ Head(s) = s[1] /\ Len(s) \in Nat \ {0} /\ Tail(s) \in Seq(S)
      /\ Len(Tail(s)) = Len(s) - 1
      /\ \A i \in 1..Len(Tail(s)) : Tail(s)[i] = s[i + 1]
  OBVIOUS
<1>2. Head(s) \in Range(s) /\ Head(s) \in S
  BY <1>1, InRange
<1>3. ASSUME NEW d \in Range(Tail(s)) PROVE d \in Range(s)
<2>1. PICK i \in 1..Len(Tail(s)) : Tail(s)[i] = d
  BY <1>1, InRange
<2>2. i + 1 \in 1..Len(s) /\ s[i + 1] = d
  BY <1>1, <2>1
<2>3. QED BY <2>2, InRange
<1>4. ASSUME NEW d \in Range(s), d # Head(s) PROVE d \in Range(Tail(s))
<2>1. PICK i \in 1..Len(s) : s[i] = d
  BY InRange
<2>2. i - 1 \in 1..Len(Tail(s)) /\ Tail(s)[i - 1] = d
  BY <1>1, <1>4, <2>1
<2>3. QED BY <1>1, <2>2, InRange
<1>5. ASSUME DistinctTids(s)
      PROVE  /\ DistinctTids(Tail(s))
             /\ \A d \in Range(Tail(s)) : d.tid # Head(s).tid
<2>1. \A i, j \in 1..Len(s) : s[i].tid = s[j].tid => i = j
  BY <1>5 DEF DistinctTids
<2>2. \A i, j \in 1..Len(Tail(s)) : Tail(s)[i].tid = Tail(s)[j].tid => i = j
<3>1. SUFFICES ASSUME NEW i \in 1..Len(Tail(s)), NEW j \in 1..Len(Tail(s)),
                      Tail(s)[i].tid = Tail(s)[j].tid
               PROVE  i = j
  OBVIOUS
<3>2. i + 1 \in 1..Len(s) /\ j + 1 \in 1..Len(s) /\ s[i + 1].tid = s[j + 1].tid
  BY <1>1, <3>1
<3>3. i + 1 = j + 1
  BY <2>1, <3>2
<3>4. QED BY <1>1, <3>3
<2>3. ASSUME NEW d \in Range(Tail(s)) PROVE d.tid # Head(s).tid
<3>1. PICK i \in 1..Len(Tail(s)) : Tail(s)[i] = d
  BY <1>1, InRange
<3>2. i + 1 \in 1..Len(s) /\ s[i + 1] = d /\ i + 1 # 1 /\ 1 \in 1..Len(s)
  BY <1>1, <3>1
<3>3. QED BY <1>1, <2>1, <3>2
<2>4. DistinctTids(Tail(s))
  BY <1>1, <2>2 DEF DistinctTids
<2>5. QED BY <2>3, <2>4
<1>6. QED BY <1>1, <1>2, <1>3, <1>4, <1>5

\* A datagram of another thread joins the end of a queue.
LEMMA Pushed ==
    ASSUME NEW S, NEW s \in Seq(S), NEW e \in S
    PROVE  /\ Append(s, e) \in Seq(S)
           /\ Range(Append(s, e)) = Range(s) \cup {e}
           /\ DistinctTids(s) /\ (\A d \in Range(s) : d.tid # e.tid)
                 => DistinctTids(Append(s, e))
<1>1. /\ Append(s, e) \in Seq(S) /\ Len(Append(s, e)) = Len(s) + 1 /\ Len(s) \in Nat
      /\ \A i \in 1..Len(s) : Append(s, e)[i] = s[i]
      /\ Append(s, e)[Len(s) + 1] = e
  OBVIOUS
<1>2. ASSUME NEW d \in Range(Append(s, e)) PROVE d \in Range(s) \cup {e}
<2>1. PICK i \in 1..Len(Append(s, e)) : Append(s, e)[i] = d
<3>1. \A q \in Seq(S) : d \in Range(q) => \E i \in 1..Len(q) : q[i] = d
  BY InRange
<3>2. QED BY <1>1, <1>2, <3>1
<2>2. i = Len(s) + 1 \/ (i \in 1..Len(s) /\ s[i] = d)
  BY <1>1, <2>1
<2>3. QED BY <1>1, <2>1, <2>2, InRange
<1>3. ASSUME NEW d \in Range(s) PROVE d \in Range(Append(s, e))
<2>1. PICK i \in 1..Len(s) : s[i] = d
  BY InRange
<2>2. i \in 1..(Len(s) + 1) /\ Append(s, e)[i] = d
  BY <1>1, <2>1
<2>3. QED BY <1>1, <2>2, InRange
<1>4. e \in Range(Append(s, e))
<2>1. Len(s) + 1 \in 1..Len(Append(s, e))
  BY <1>1
<2>2. QED BY <1>1, <2>1, InRange
<1>5. ASSUME DistinctTids(s), \A d \in Range(s) : d.tid # e.tid
      PROVE  DistinctTids(Append(s, e))
<2>1. \A i, j \in 1..Len(s) : s[i].tid = s[j].tid => i = j
  BY <1>5 DEF DistinctTids
<2>2. \A i \in 1..Len(s) : s[i].tid # e.tid
  BY <1>5, InRange
<2>3. \A i, j \in 1..(Len(s) + 1) : Append(s, e)[i].tid = Append(s, e)[j].tid => i = j
  BY <1>1, <2>1, <2>2
<2>4. QED BY <1>1, <2>3 DEF DistinctTids
<1>6. QED BY <1>1, <1>2, <1>3, <1>4, <1>5

\* A lost connection cuts off the end of a queue.
LEMMA CutOff ==
    ASSUME NEW S, NEW s \in Seq(S), NEW k \in 0..Len(s)
    PROVE  /\ SubSeq(s, 1, k) \in Seq(S)
           /\ Range(SubSeq(s, 1, k)) \subseteq Range(s)
           /\ DistinctTids(s) => DistinctTids(SubSeq(s, 1, k))
<1>1. /\ SubSeq(s, 1, k) \in Seq(S) /\ Len(SubSeq(s, 1, k)) = k /\ Len(s) \in Nat
      /\ \A i \in 1..k : SubSeq(s, 1, k)[i] = s[i]
  OBVIOUS
<1>2. ASSUME NEW d \in Range(SubSeq(s, 1, k)) PROVE d \in Range(s)
<2>1. PICK i \in 1..k : SubSeq(s, 1, k)[i] = d
<3>1. \A r \in Seq(S) : d \in Range(r) => \E i \in 1..Len(r) : r[i] = d
  BY InRange
<3>2. PICK r \in Seq(S) : r = SubSeq(s, 1, k) /\ Len(r) = k
  BY <1>1
<3>3. d \in Range(r)
  BY ONLY <1>2, <3>2
<3>4. QED BY ONLY <3>1, <3>2, <3>3
<2>2. i \in 1..Len(s) /\ s[i] = d
  BY <1>1, <2>1
<2>3. QED BY <2>2, InRange
<1>3. DistinctTids(s) => DistinctTids(SubSeq(s, 1, k))
  BY <1>1 DEF DistinctTids
<1>4. QED BY <1>1, <1>2, <1>3

\* Two threads never share a hash, and no thread is None.
LEMMA ThreadIds == /\ \A s, t \in Threads : Tid[s] = Tid[t] => s = t
                   /\ None \notin Threads /\ \A t \in Threads : Tid[t] \in Tids
  BY TidAssumption, NoneAssumption DEF Tids

\* The cache is keyed by the hash in the reply.
LEMMA CachedByTid ==
    ASSUME Types
    PROVE  /\ \A r \in Range(tidToReply) : r.tid \in DOMAIN tidToReply
           /\ \A tid \in DOMAIN tidToReply : tidToReply[tid] \in Replies /\ tidToReply[tid].tid = tid
<1>1. \A tid \in DOMAIN tidToReply : tidToReply[tid].tid = tid
  BY DEF Types, TypeOK
<1>2. QED BY <1>1 DEF Range, Replies

\* Taking a thread's reply out of the cache leaves the others.
LEMMA CacheWithout ==
    ASSUME Types, NEW t \in Threads
    PROVE  /\ DOMAIN Uncached(t) = DOMAIN tidToReply \ {Tid[t]}
           /\ \A tid \in DOMAIN Uncached(t) : Uncached(t)[tid] = tidToReply[tid]
           /\ Range(Uncached(t)) = {r \in Range(tidToReply) : r.tid # Tid[t]}
<1>1. /\ DOMAIN Uncached(t) = DOMAIN tidToReply \ {Tid[t]}
      /\ \A tid \in DOMAIN Uncached(t) : Uncached(t)[tid] = tidToReply[tid]
  BY DEF Uncached, Restrict
<1>2. \A tid \in DOMAIN tidToReply : tidToReply[tid].tid = tid
  BY DEF Types, TypeOK
<1>3. QED BY <1>1, <1>2 DEF Range

\* A reply of another thread joins the cache.
LEMMA CacheWith ==
    ASSUME Types, NEW reply, reply.tid \notin DOMAIN tidToReply
    PROVE  /\ DOMAIN Cached(reply) = DOMAIN tidToReply \cup {reply.tid}
           /\ \A tid \in DOMAIN tidToReply : Cached(reply)[tid] = tidToReply[tid]
           /\ Cached(reply)[reply.tid] = reply
           /\ Range(Cached(reply)) = Range(tidToReply) \cup {reply}
<1>1. /\ DOMAIN Cached(reply) = DOMAIN tidToReply \cup {reply.tid}
      /\ \A tid \in DOMAIN tidToReply : Cached(reply)[tid] = tidToReply[tid]
      /\ Cached(reply)[reply.tid] = reply
  BY DEF Cached
<1>2. QED BY <1>1 DEF Range

\* transact() comes back to its caller, which keeps what the reply has made.
LEMMA Returned ==
    ASSUME Types, NEW t \in Threads, NEW reply \in Replies, Return(t, reply)
    PROVE  /\ pc' = [pc EXCEPT ![t] = pc'[t]] /\ pc'[t] \in {"idle", "next"}
           /\ foreign' = [foreign EXCEPT ![t] = foreign'[t]] /\ foreign'[t] \subseteq 1..lastId
           /\ handles' \in {handles, handles \cup reply.ids} /\ handles' \subseteq 1..lastId
<1>1. /\ reply.ids \subseteq 1..lastId /\ foreign[t] \subseteq 1..lastId /\ handles \subseteq 1..lastId
      /\ foreign \in [Threads -> SUBSET Nat]
      /\ pc \in [Threads -> {"idle", "send", "wait", "read", "fail", "next"}]
  BY DEF Types, TypeOK
<1>2. CASE foreign[t] = {} \/ request[t].action = "call"
<2>1. /\ pc' = [pc EXCEPT ![t] = "idle"]
      /\ foreign' = [foreign EXCEPT ![t] = {}]
      /\ handles' = handles \cup reply.ids
  BY <1>2 DEF Return
<2>2. QED BY <1>1, <2>1
<1>3. CASE ~(foreign[t] = {} \/ request[t].action = "call") /\ reply.result = "errorMsg"
<2>1. Throw(t)
  BY <1>3 DEF Return
<2>2. QED BY <1>1, <2>1 DEF Throw
<1>4. CASE ~(foreign[t] = {} \/ request[t].action = "call") /\ reply.result # "errorMsg"
<2>1. /\ pc' = [pc EXCEPT ![t] = "next"]
      /\ foreign' = [foreign EXCEPT ![t] = @ \cup reply.ids]
      /\ UNCHANGED handles
  BY <1>4 DEF Return
<2>2. QED BY <1>1, <2>1
<1>5. QED BY <1>2, <1>3, <1>4

(***************************************************************************)
(* The steps and the calls.                                                *)
(***************************************************************************)

\* Nothing is asked yet.
LEMMA InitCalls == Init => Types /\ CallInv
<1> SUFFICES ASSUME Init PROVE Types /\ CallInv
  OBVIOUS
<1>1. /\ Range(toClient) = {} /\ Range(tidToReply) = {} /\ Range(toServer) = {}
      /\ DOMAIN tidToReply = {}
  BY DEF Init, Range
<1>2. Replies = {}
  BY <1>1 DEF Replies
<1>3. lastId = 1 /\ lastN = 0 /\ 1 \in 1..1 /\ 0 \in 0..0
  BY DEF Init, EnvId
<1>4. TypeOK
  BY <1>1, <1>2, <1>3, ThreadIds DEF Init, TypeOK, EnvId
<1>5. Types
  BY <1>1, <1>2, <1>3, <1>4 DEF Init, Types, Requests, Actions
<1>6. CallInv
  BY <1>1, <1>2 DEF Init, CallInv, NumbersDiffer, Busy, RequestsHaveCallers, RepliesHaveCallers,
                    OnePlace, DistinctTids, ReaderUncached, LossIsReal
<1>7. QED BY <1>5, <1>6

\* A thread between two transactions asks for the next: its number is new, and
\* nothing of it is on the stream.
LEMMA AskKeepsCalls ==
    ASSUME Types, CallInv, NEW t \in Threads, pc[t] \in {"idle", "next"},
           NEW action \in Actions \ {"none"}, NEW uses \in SUBSET (1..lastId), Ask(t, action, uses),
           foreign' = [foreign EXCEPT ![t] = foreign'[t]], foreign'[t] \subseteq 1..lastId,
           handles' \subseteq handles,
           UNCHANGED <<isMutex, tidToReply, connectionActive, serverVars, stream>>
    PROVE  Types' /\ CallInv'
<1>1. /\ lastN' = lastN + 1 /\ lastN \in Nat /\ lastId \in Nat \ {0}
      /\ request' = [request EXCEPT ![t] = [action |-> action, uses |-> uses, n |-> lastN + 1]]
      /\ pc' = [pc EXCEPT ![t] = pc'[t]] /\ pc'[t] \in {"idle", "send"}
      /\ request \in [Threads -> Requests] /\ foreign \in [Threads -> SUBSET Nat]
      /\ pc \in [Threads -> {"idle", "send", "wait", "read", "fail", "next"}]
      /\ UNCHANGED <<isMutex, tidToReply, connectionActive, objects, lastId, serving,
                     toServer, toClient, broken>>
      /\ Replies' = Replies
  BY DEF Types, TypeOK, Ask, Replies, serverVars, stream
<1>2. [action |-> action, uses |-> uses, n |-> lastN + 1] \in Requests
  BY <1>1 DEF Requests
<1>3. TypeOK'
<2>1. pc' \in [Threads -> {"idle", "send", "wait", "read", "fail", "next"}]
  BY <1>1
<2>2. ASSUME NEW u \in Threads
      PROVE  /\ request'[u].action \in {"none", "make", "call", "query", "release", "close"}
             /\ request'[u].uses \subseteq 1..lastId' /\ request'[u].n \in 0..lastN'
             /\ foreign'[u] \subseteq 1..lastId'
             /\ (isMutex' = u) = (pc'[u] = "read")
<3>1. /\ request[u].action \in Actions /\ request[u].uses \subseteq 1..lastId
      /\ request[u].n \in 0..lastN /\ foreign[u] \subseteq 1..lastId
      /\ (isMutex = u) = (pc[u] = "read")
  BY DEF TypeOK, Types, Actions
<3>2. CASE u = t
<4>1. request'[u] = [action |-> action, uses |-> uses, n |-> lastN + 1]
  BY <1>1, <3>2
<4>2. lastN + 1 \in 0..lastN' /\ foreign'[u] \subseteq 1..lastId
  BY <1>1, <3>2
<4>3. (isMutex' = u) = (pc'[u] = "read")
  BY <1>1, <3>1, <3>2
<4>4. request'[u].action \in Actions /\ request'[u].uses \subseteq 1..lastId
  BY <4>1
<4>5. request'[u].n \in 0..lastN'
  BY <4>1, <4>2
<4>6. lastId' = lastId
  BY <1>1
<4>7. QED BY <4>2, <4>3, <4>4, <4>5, <4>6 DEF Actions
<3>3. CASE u # t
<4>1. /\ request'[u] = request[u] /\ foreign'[u] = foreign[u] /\ pc'[u] = pc[u]
      /\ request[u].n \in 0..lastN'
  BY <1>1, <3>1, <3>3
<4>2. lastId' = lastId /\ isMutex' = isMutex
  BY <1>1
<4>3. QED BY ONLY <3>1, <4>1, <4>2 DEF Actions
<3>4. QED BY <3>2, <3>3
<2>3. /\ objects' \subseteq 1..lastId' /\ connectionActive' \in BOOLEAN
      /\ broken' \in BOOLEAN /\ serving' \in BOOLEAN
      /\ \A tid \in DOMAIN tidToReply' : tidToReply'[tid].tid = tid
  BY <1>1 DEF TypeOK, Types
<2>4. /\ handles' \subseteq 1..lastId'
      /\ \A reply \in Replies' :
            /\ reply.result \in {"handleID", "result", "message", "errorMsg", "no object"}
            /\ (reply.ids # {}) = (reply.result = "handleID")
  BY <1>1 DEF TypeOK, Types
<2>5. QED BY ONLY <2>1, <2>2, <2>3, <2>4 DEF TypeOK
<1>4. Types'
<2>1. request' \in [Threads -> Requests] /\ foreign' \in [Threads -> SUBSET Nat]
  BY <1>1, <1>2
<2>2. QED BY <1>1, <1>3, <2>1 DEF Types
<1>5. NumbersDiffer'
<2>1. \A u \in Threads : request[u].n \in 0..lastN
  BY DEF Types, TypeOK
<2>2. /\ request'[t].n = lastN + 1 /\ request'[t].action # "none"
      /\ \A u \in Threads \ {t} : request'[u] = request[u]
      /\ Busy' \subseteq Busy \cup {t}
  BY <1>1 DEF Busy
<2>3. QED BY <1>1, <2>1, <2>2 DEF CallInv, NumbersDiffer, Busy
<1>6. \A u \in Threads : Sent(u) => /\ Sent(u)' /\ request'[u] = request[u]
                                  /\ foreign'[u] = foreign[u]
  BY <1>1 DEF Sent
<1>7. RequestsHaveCallers'
  BY <1>1, <1>6 DEF CallInv, RequestsHaveCallers, Datagram
<1>8. RepliesHaveCallers'
<2>1. ASSUME NEW reply \in Replies
      PROVE  \E u \in Threads :
                /\ Sent(u)' /\ Tid[u] = reply.tid /\ request'[u].n = reply.n
                /\ request'[u].action \in {"release", "close"} => reply.result = "result"
  BY <1>6 DEF CallInv, RepliesHaveCallers
<2>2. QED BY <1>1, <2>1 DEF RepliesHaveCallers
<1>9. OnePlace' /\ ReaderUncached' /\ LossIsReal'
  BY <1>1 DEF CallInv, OnePlace, DistinctTids, ReaderUncached, LossIsReal
<1>10. QED BY <1>4, <1>5, <1>7, <1>8, <1>9 DEF CallInv

\* A thread comes out of transact(): nothing of its transaction is left behind.
LEMMA LeavingKeepsCalls ==
    ASSUME Types, CallInv, NEW t \in Threads, pc[t] \in {"wait", "read", "fail"},
           pc' = [pc EXCEPT ![t] = pc'[t]], pc'[t] \in {"idle", "next"},
           foreign' = [foreign EXCEPT ![t] = foreign'[t]], foreign'[t] \subseteq 1..lastId,
           handles' \subseteq 1..lastId,
           isMutex' = IF pc[t] = "read" THEN None ELSE isMutex,
           connectionActive' = connectionActive \/ (broken /\ connectionActive' = FALSE),
           tidToReply' = tidToReply \/ tidToReply' = Uncached(t),
           toClient' = toClient \/ (toClient # <<>> /\ toClient' = Tail(toClient)),
           \A reply \in Replies' : reply.tid # Tid[t],
           ~broken => \A q \in Range(toServer) : q.tid # Tid[t],
           UNCHANGED <<request, lastN, serverVars, toServer, broken>>
    PROVE  Types' /\ CallInv'
<1>1. /\ UNCHANGED <<request, lastN, objects, lastId, serving, toServer, broken>>
      /\ request \in [Threads -> Requests] /\ foreign \in [Threads -> SUBSET Nat]
      /\ lastN \in Nat /\ lastId \in Nat
      /\ pc \in [Threads -> {"idle", "send", "wait", "read", "fail", "next"}]
      /\ \A u \in Threads : (isMutex = u) = (pc[u] = "read")
  BY DEF serverVars, Types, TypeOK
<1>2. /\ toClient' \in Seq(ReplyDatagrams) /\ Range(toClient') \subseteq Range(toClient)
      /\ DistinctTids(toClient')
<2>1. toClient \in Seq(ReplyDatagrams) /\ DistinctTids(toClient)
  BY DEF Types, CallInv, OnePlace
<2>2. CASE toClient # <<>> /\ toClient' = Tail(toClient)
  BY <2>1, <2>2, Popped
<2>3. QED BY <2>1, <2>2
<1>3. /\ DOMAIN tidToReply' \subseteq DOMAIN tidToReply
      /\ \A tid \in DOMAIN tidToReply' : tidToReply'[tid] = tidToReply[tid]
      /\ Range(tidToReply') \subseteq Range(tidToReply)
      /\ tidToReply' \in [DOMAIN tidToReply' -> ReplyDatagrams]
<2>1. tidToReply \in [DOMAIN tidToReply -> ReplyDatagrams]
  BY DEF Types
<2>2. CASE tidToReply' = Uncached(t)
<3>1. /\ DOMAIN tidToReply' = DOMAIN tidToReply \ {Tid[t]}
      /\ \A tid \in DOMAIN tidToReply' : tidToReply'[tid] = tidToReply[tid]
      /\ Range(tidToReply') \subseteq Range(tidToReply)
  BY <2>2, CacheWithout
<3>2. tidToReply' = [tid \in DOMAIN tidToReply' |-> tidToReply[tid]]
  BY <2>2, <3>1 DEF Uncached, Restrict
<3>3. QED BY <2>1, <3>1, <3>2
<2>3. QED BY <2>1, <2>2
<1>4. Replies' \subseteq Replies
  BY <1>2, <1>3 DEF Replies
<1>5. \A u \in Threads \ {t} : pc'[u] = pc[u] /\ foreign'[u] = foreign[u]
  BY <1>1
<1>6. TypeOK'
<2>1. \A u \in Threads : (isMutex' = u) = (pc'[u] = "read")
<3>1. CASE pc[t] = "read"
  BY <1>1, <1>5, <3>1, ThreadIds
<3>2. CASE pc[t] # "read"
  BY <1>1, <1>5, <3>2
<3>3. QED BY <3>1, <3>2
<2>2. \A u \in Threads : foreign'[u] \subseteq 1..lastId'
  BY <1>1, <1>5 DEF Types, TypeOK
<2>3. pc' \in [Threads -> {"idle", "send", "wait", "read", "fail", "next"}]
  BY <1>1
<2>4. \A tid \in DOMAIN tidToReply' : tidToReply'[tid].tid = tid
  BY <1>3 DEF Types, TypeOK
<2>5. QED BY <1>1, <1>4, <2>1, <2>2, <2>3, <2>4 DEF Types, TypeOK
<1>7. Types'
<2>1. foreign' \in [Threads -> SUBSET Nat]
  BY <1>1
<2>2. isMutex' \in Threads \cup {None}
  BY DEF Types
<2>3. QED BY <1>1, <1>2, <1>3, <1>4, <1>6, <2>1, <2>2 DEF Types
<1>8. NumbersDiffer'
<2>1. Busy' \subseteq Busy
  BY <1>1, <1>5 DEF Busy
<2>2. QED BY <1>1, <2>1 DEF CallInv, NumbersDiffer
<1>9. RequestsHaveCallers'
<2>1. ASSUME ~broken, NEW q \in Range(toServer)
      PROVE  \E u \in Threads : Sent(u)' /\ q = Datagram(u)'
<3>1. PICK u \in Threads : Sent(u) /\ q = Datagram(u)
  BY <2>1 DEF CallInv, RequestsHaveCallers
<3>2. u # t
  BY <2>1, <3>1 DEF Datagram
<3>3. QED BY <1>1, <1>5, <3>1, <3>2 DEF Sent, Datagram
<2>2. QED BY <1>1, <2>1 DEF RequestsHaveCallers
<1>10. RepliesHaveCallers'
<2>1. ASSUME NEW reply \in Replies'
      PROVE  \E u \in Threads :
                /\ Sent(u)' /\ Tid[u] = reply.tid /\ request'[u].n = reply.n
                /\ request'[u].action \in {"release", "close"} => reply.result = "result"
<3>1. PICK u \in Threads :
                /\ Sent(u) /\ Tid[u] = reply.tid /\ request[u].n = reply.n
                /\ request[u].action \in {"release", "close"} => reply.result = "result"
  BY <1>4 DEF CallInv, RepliesHaveCallers
<3>2. u # t
  BY <3>1
<3>3. QED BY <1>1, <1>5, <3>1, <3>2 DEF Sent
<2>2. QED BY <2>1 DEF RepliesHaveCallers
<1>11. OnePlace'
  BY <1>1, <1>2, <1>3, <1>4 DEF CallInv, OnePlace
<1>12. ReaderUncached' /\ LossIsReal'
  BY <1>1, <1>3, <1>5 DEF CallInv, ReaderUncached, LossIsReal
<1>13. QED BY <1>7, <1>8, <1>9, <1>10, <1>11, <1>12 DEF CallInv

\* What a thread's request and its reply share.
LEMMA DatagramShape ==
    ASSUME Types, CallInv, NEW t \in Busy
    PROVE  /\ Datagram(t) \in Datagrams
           /\ Datagram(t).tid = Tid[t] /\ Datagram(t).n = request[t].n
           /\ Datagram(t).action = request[t].action /\ Datagram(t).uses = request[t].uses
<1>1. request[t] \in Requests /\ Tid[t] \in Tids /\ request[t].action # "none"
  BY ThreadIds DEF Types, CallInv, NumbersDiffer, Busy
<1>2. QED BY <1>1 DEF Datagram, Datagrams, Requests

\* A request goes out: until then nothing of its thread is under way.
LEMMA SendKeepsCalls ==
    ASSUME Types, CallInv, NEW t \in Threads, Send(t)
    PROVE  Types' /\ CallInv'
<1>1. /\ UNCHANGED <<request, foreign, isMutex, tidToReply, connectionActive, handles, lastN,
                    objects, lastId, serving, toClient, broken>>
      /\ Replies' = Replies
  BY DEF Send, serverVars, Replies
<1>2. /\ pc \in [Threads -> {"idle", "send", "wait", "read", "fail", "next"}] /\ pc[t] = "send"
      /\ pc' = [pc EXCEPT ![t] = pc'[t]] /\ pc'[t] \in {"wait", "fail"}
      /\ pc'[t] = "fail" => broken
      /\ toServer' = toServer \/ (~broken /\ toServer' = Append(toServer, Datagram(t)) /\ pc'[t] = "wait")
      /\ toServer \in Seq(Datagrams)
<2>1. /\ pc \in [Threads -> {"idle", "send", "wait", "read", "fail", "next"}]
      /\ toServer \in Seq(Datagrams)
  BY DEF Types, TypeOK
<2>2. /\ pc[t] = "send"
      /\ \/ /\ pc' = [pc EXCEPT ![t] = "wait"]
            /\ toServer' = IF broken THEN toServer ELSE Append(toServer, Datagram(t))
         \/ broken /\ pc' = [pc EXCEPT ![t] = "fail"] /\ UNCHANGED toServer
  BY DEF Send
<2>3. CASE /\ pc' = [pc EXCEPT ![t] = "wait"]
           /\ toServer' = IF broken THEN toServer ELSE Append(toServer, Datagram(t))
  BY ONLY <2>1, <2>2, <2>3
<2>4. CASE broken /\ pc' = [pc EXCEPT ![t] = "fail"] /\ UNCHANGED toServer
  BY ONLY <2>1, <2>2, <2>4
<2>5. QED BY ONLY <2>2, <2>3, <2>4
<1>0. /\ \A u \in Threads : Sent(u) => u \in Busy
      /\ Datagram(t) \in Datagrams /\ Datagram(t).tid = Tid[t]
<2>1. t \in Busy
  BY <1>2 DEF Busy
<2>2. QED BY <2>1, DatagramShape DEF Sent, Busy
<1>3. \A u \in Threads \ {t} : pc'[u] = pc[u]
  BY <1>2
<1>4. /\ toServer' \in Seq(Datagrams)
      /\ Range(toServer') = Range(toServer) \/
         (~broken /\ Range(toServer') = Range(toServer) \cup {Datagram(t)})
<2>1. Datagram(t) \in Datagrams
  BY <1>0
<2>2. /\ Append(toServer, Datagram(t)) \in Seq(Datagrams)
      /\ Range(Append(toServer, Datagram(t))) = Range(toServer) \cup {Datagram(t)}
  BY <1>2, <2>1, Pushed
<2>3. QED BY <1>2, <2>2
<1>5. TypeOK'
<2>1. pc' \in [Threads -> {"idle", "send", "wait", "read", "fail", "next"}]
  BY <1>2
<2>2. ASSUME NEW u \in Threads PROVE (isMutex' = u) = (pc'[u] = "read")
<3>1. (isMutex = u) = (pc[u] = "read")
  BY DEF Types, TypeOK
<3>2. (pc'[u] = "read") = (pc[u] = "read")
  BY <1>2, <1>3
<3>3. QED BY <1>1, <3>1, <3>2
<2>3. QED BY <1>1, <2>1, <2>2 DEF Types, TypeOK
<1>6. Types'
  BY <1>1, <1>4, <1>5 DEF Types
<1>7. NumbersDiffer'
<2>1. Busy' = Busy
  BY <1>2, <1>3 DEF Busy
<2>2. QED BY <1>1, <2>1 DEF CallInv, NumbersDiffer
<1>8. ~broken => /\ \A q \in Range(toServer) : q.tid # Tid[t]
                 /\ \A reply \in Replies : reply.tid # Tid[t]
<2>1. ASSUME ~broken, NEW q \in Range(toServer) PROVE q.tid # Tid[t]
<3>1. PICK u \in Threads : Sent(u) /\ q = Datagram(u)
  BY <2>1 DEF CallInv, RequestsHaveCallers
<3>2. u # t
  BY <1>2, <3>1 DEF Sent
<3>3. q.tid = Tid[u]
  BY <1>0, <3>1, DatagramShape
<3>4. QED BY <3>2, <3>3, ThreadIds
<2>2. ASSUME NEW reply \in Replies PROVE reply.tid # Tid[t]
<3>1. PICK u \in Threads : Sent(u) /\ Tid[u] = reply.tid
  BY DEF CallInv, RepliesHaveCallers
<3>2. QED BY <1>2, <3>1, ThreadIds DEF Sent
<2>3. QED BY <2>1, <2>2
<1>9. RequestsHaveCallers'
<2>1. ASSUME ~broken, NEW q \in Range(toServer)'
      PROVE  \E u \in Threads : Sent(u)' /\ q = Datagram(u)'
<3>1. CASE q \in Range(toServer)
<4>1. PICK u \in Threads : Sent(u) /\ q = Datagram(u)
  BY <2>1, <3>1 DEF CallInv, RequestsHaveCallers
<4>2. u # t
  BY <1>2, <4>1 DEF Sent
<4>3. QED BY <1>1, <1>3, <4>1, <4>2 DEF Sent, Datagram
<3>2. CASE q \notin Range(toServer)
<4>1. q = Datagram(t) /\ pc'[t] = "wait"
  BY <1>2, <1>4, <2>1, <3>2
<4>2. QED BY <1>1, <4>1 DEF Sent, Datagram
<3>3. QED BY <3>1, <3>2
<2>2. QED BY <1>1, <2>1 DEF RequestsHaveCallers
<1>10. RepliesHaveCallers'
<2>1. ASSUME NEW reply \in Replies
      PROVE  \E u \in Threads :
                /\ Sent(u)' /\ Tid[u] = reply.tid /\ request'[u].n = reply.n
                /\ request'[u].action \in {"release", "close"} => reply.result = "result"
<3>1. PICK u \in Threads :
                /\ Sent(u) /\ Tid[u] = reply.tid /\ request[u].n = reply.n
                /\ request[u].action \in {"release", "close"} => reply.result = "result"
  BY DEF CallInv, RepliesHaveCallers
<3>2. u # t
  BY <1>2, <3>1 DEF Sent
<3>3. QED BY <1>1, <1>3, <3>1, <3>2 DEF Sent
<2>2. QED BY <1>1, <2>1 DEF RepliesHaveCallers
<1>11. OnePlace'
<2>1. ~broken => DistinctTids(toServer')
<3>1. CASE ~broken /\ toServer' = Append(toServer, Datagram(t))
  BY <1>0, <1>2, <1>8, <3>1, Pushed DEF CallInv, OnePlace
<3>2. QED BY <1>2, <3>1 DEF CallInv, OnePlace
<2>2. ~broken => \A q \in Range(toServer'), reply \in Replies : q.tid # reply.tid
  BY <1>0, <1>4, <1>8 DEF CallInv, OnePlace
<2>3. QED BY <1>1, <2>1, <2>2 DEF CallInv, OnePlace
<1>12. ReaderUncached' /\ LossIsReal'
  BY <1>1, <1>2, <1>3 DEF CallInv, ReaderUncached, LossIsReal
<1>13. QED BY <1>6, <1>7, <1>9, <1>10, <1>11, <1>12 DEF CallInv

\* A thread takes isMutex to read the stream, or gives it back with the reply of
\* another thread in the cache.
LEMMA ReadingKeepsCalls ==
    ASSUME Types, CallInv, NEW t \in Threads,
           pc' = [pc EXCEPT ![t] = pc'[t]],
           \/ /\ pc[t] = "wait" /\ pc'[t] = "read" /\ isMutex = None /\ isMutex' = t
              /\ Tid[t] \notin DOMAIN tidToReply /\ UNCHANGED <<tidToReply, toClient>>
           \/ /\ pc[t] = "read" /\ pc'[t] = "wait" /\ isMutex' = None /\ toClient # <<>>
              /\ Head(toClient).tid # Tid[t] /\ tidToReply' = Cached(Head(toClient))
              /\ toClient' = Tail(toClient),
           UNCHANGED <<request, foreign, connectionActive, handles, lastN, serverVars,
                       toServer, broken>>
    PROVE  Types' /\ CallInv' /\ Replies' = Replies
<1>1. /\ UNCHANGED <<request, foreign, connectionActive, handles, lastN, objects, lastId, serving,
                    toServer, broken>>
      /\ pc \in [Threads -> {"idle", "send", "wait", "read", "fail", "next"}]
      /\ \A u \in Threads : (isMutex = u) = (pc[u] = "read")
      /\ toClient \in Seq(ReplyDatagrams)
  BY DEF serverVars, Types, TypeOK
<1>2. \A u \in Threads \ {t} : pc'[u] = pc[u]
  BY <1>1
<1>3. /\ toClient' \in Seq(ReplyDatagrams) /\ DistinctTids(toClient')
      /\ DOMAIN tidToReply' \subseteq Tids
      /\ tidToReply' \in [DOMAIN tidToReply' -> ReplyDatagrams]
      /\ \A tid \in DOMAIN tidToReply' : tidToReply'[tid].tid = tid
      /\ Replies' = Replies
      /\ \A reply \in Range(toClient') : reply.tid \notin DOMAIN tidToReply'
      /\ \A u \in Threads \ {t} : pc[u] = "read" => Tid[u] \notin DOMAIN tidToReply'
      /\ pc'[t] = "read" => Tid[t] \notin DOMAIN tidToReply'
<2>1. CASE pc[t] = "wait"
<3>1. UNCHANGED <<tidToReply, toClient>> /\ Tid[t] \notin DOMAIN tidToReply
  BY <2>1
<3>2. /\ DistinctTids(toClient)
      /\ \A reply \in Range(toClient) : reply.tid \notin DOMAIN tidToReply
  BY DEF CallInv, OnePlace
<3>3. \A u \in Threads \ {t} : pc[u] = "read" => Tid[u] \notin DOMAIN tidToReply
  BY DEF CallInv, ReaderUncached
<3>4. /\ DOMAIN tidToReply \subseteq Tids
      /\ tidToReply \in [DOMAIN tidToReply -> ReplyDatagrams]
      /\ \A tid \in DOMAIN tidToReply : tidToReply[tid].tid = tid
  BY DEF Types, TypeOK
<3>5. Replies' = Replies
  BY <3>1 DEF Replies
<3>6. QED BY ONLY <1>1, <3>1, <3>2, <3>3, <3>4, <3>5
<2>2. CASE pc[t] = "read"
<3>1. /\ toClient # <<>> /\ tidToReply' = Cached(Head(toClient)) /\ toClient' = Tail(toClient)
      /\ pc'[t] = "wait"
  BY <2>2
<3>2. /\ DistinctTids(toClient)
      /\ \A reply \in Range(toClient) : reply.tid \notin DOMAIN tidToReply
  BY DEF CallInv, OnePlace
<3>3. /\ Head(toClient) \in Range(toClient) /\ Head(toClient) \in ReplyDatagrams
      /\ Tail(toClient) \in Seq(ReplyDatagrams)
      /\ Range(toClient) = {Head(toClient)} \cup Range(Tail(toClient))
      /\ DistinctTids(Tail(toClient))
      /\ \A d \in Range(Tail(toClient)) : d.tid # Head(toClient).tid
  BY <1>1, <3>1, <3>2, Popped
<3>4. /\ DOMAIN tidToReply' = DOMAIN tidToReply \cup {Head(toClient).tid}
      /\ \A tid \in DOMAIN tidToReply : tidToReply'[tid] = tidToReply[tid]
      /\ tidToReply'[Head(toClient).tid] = Head(toClient)
      /\ Range(tidToReply') = Range(tidToReply) \cup {Head(toClient)}
  BY <3>1, <3>2, <3>3, CacheWith
<3>5. Head(toClient).tid \in Tids
  BY <3>3 DEF ReplyDatagrams
<3>6. DOMAIN tidToReply' \subseteq Tids /\ tidToReply' \in [DOMAIN tidToReply' -> ReplyDatagrams]
<4>1. tidToReply' = [tid \in DOMAIN tidToReply' |-> tidToReply'[tid]]
  BY <3>1 DEF Cached
<4>2. QED BY <3>3, <3>4, <3>5, <4>1 DEF Types
<3>7. \A tid \in DOMAIN tidToReply' : tidToReply'[tid].tid = tid
  BY <3>4 DEF Types, TypeOK
<3>8. Replies' = Replies
  BY <3>1, <3>3, <3>4 DEF Replies
<3>9. \A u \in Threads \ {t} : pc[u] # "read"
  BY <1>1, <2>2
<3>10. QED BY <3>1, <3>2, <3>3, <3>4, <3>6, <3>7, <3>8, <3>9
<2>3. QED BY <2>1, <2>2
<1>4. TypeOK'
<2>1. pc' \in [Threads -> {"idle", "send", "wait", "read", "fail", "next"}]
  BY <1>1
<2>2. \A u \in Threads : (isMutex' = u) = (pc'[u] = "read")
  BY <1>1, <1>2, ThreadIds
<2>3. QED BY <1>1, <1>3, <2>1, <2>2 DEF Types, TypeOK
<1>5. Types'
  BY <1>1, <1>3, <1>4 DEF Types
<1>6. Busy' = Busy /\ \A u \in Threads : Sent(u)' <=> Sent(u)
  BY <1>1, <1>2 DEF Busy, Sent
<1>7. NumbersDiffer'
  BY <1>1, <1>6 DEF CallInv, NumbersDiffer
<1>8. RequestsHaveCallers'
  BY <1>1, <1>6 DEF CallInv, RequestsHaveCallers, Datagram
<1>9. RepliesHaveCallers'
<2>1. ASSUME NEW reply \in Replies
      PROVE  \E u \in Threads :
                /\ Sent(u)' /\ Tid[u] = reply.tid /\ request'[u].n = reply.n
                /\ request'[u].action \in {"release", "close"} => reply.result = "result"
<3>1. PICK u \in Threads :
                /\ Sent(u) /\ Tid[u] = reply.tid /\ request[u].n = reply.n
                /\ request[u].action \in {"release", "close"} => reply.result = "result"
  BY DEF CallInv, RepliesHaveCallers
<3>2. QED BY <1>1, <1>6, <3>1
<2>2. QED BY <1>3, <2>1 DEF RepliesHaveCallers
<1>10. OnePlace'
  BY <1>1, <1>3 DEF CallInv, OnePlace
<1>11. ReaderUncached' /\ LossIsReal'
  BY <1>1, <1>2, <1>3 DEF CallInv, ReaderUncached, LossIsReal
<1>12. QED BY <1>3, <1>5, <1>7, <1>8, <1>9, <1>10, <1>11 DEF CallInv

\* What the handler may answer.
LEMMA AnswerShape ==
    ASSUME Types, NEW q \in Datagrams, NEW reply \in Answers(q)
    PROVE  /\ reply \in ReplyDatagrams /\ reply.tid = q.tid /\ reply.n = q.n
           /\ reply.ids = {} \/ (reply.ids = {lastId + 1} /\ q.action \in {"make", "call"})
           /\ (reply.ids # {}) = (reply.result = "handleID")
           /\ q.action \in {"release", "close"} => reply.result = "result"
           /\ reply.result = "no object" => ~(q.uses \subseteq objects)
                                            /\ q.action \in {"make", "call", "query"}
<1> DEFINE answer(result, ids) == [tid |-> q.tid, n |-> q.n, result |-> result, ids |-> ids]
<1>1. q.action \in {"make", "call", "query", "release", "close"} /\ q.tid \in Tids /\ q.n \in Nat
  BY DEF Datagrams, Actions
<1>2. \/ q.action \in {"release", "close"} /\ reply = answer("result", {})
      \/ /\ q.action \in {"make", "call", "query"} /\ ~(q.uses \subseteq objects)
         /\ reply = answer("no object", {})
      \/ /\ q.action \in {"make", "call"}
         /\ reply \in {answer("handleID", {lastId + 1}), answer("errorMsg", {}), answer("message", {})}
      \/ q.action = "query" /\ reply = answer("result", {})
<2>1. CASE q.action \in {"release", "close"}
  BY <2>1 DEF Answers
<2>2. CASE q.action \in {"make", "call", "query"} /\ ~(q.uses \subseteq objects)
  BY <2>2 DEF Answers
<2>3. CASE q.action = "make" /\ q.uses \subseteq objects
  BY <2>3 DEF Answers
<2>4. CASE q.action = "call" /\ q.uses \subseteq objects
  BY <2>4 DEF Answers
<2>5. CASE q.action = "query" /\ q.uses \subseteq objects
  BY <2>5 DEF Answers
<2>6. QED BY <1>1, <2>1, <2>2, <2>3, <2>4, <2>5
<1>3. lastId + 1 \in Nat
  BY DEF Types
<1>4. \A result \in Results, ids \in SUBSET Nat :
         /\ answer(result, ids) \in ReplyDatagrams
         /\ answer(result, ids).tid = q.tid /\ answer(result, ids).n = q.n
         /\ answer(result, ids).result = result /\ answer(result, ids).ids = ids
  BY <1>1 DEF ReplyDatagrams
<1>5. {} \in SUBSET Nat /\ {lastId + 1} \in SUBSET Nat /\ {lastId + 1} # {}
  BY <1>3
<1> HIDE DEF answer
<1>6. PICK result \in Results, ids \in {{}, {lastId + 1}} :
         /\ reply = answer(result, ids)
         /\ ids = {lastId + 1} => q.action \in {"make", "call"} /\ result = "handleID"
         /\ result = "handleID" => ids = {lastId + 1}
         /\ q.action \in {"release", "close"} => result = "result"
         /\ result = "no object" => ~(q.uses \subseteq objects)
                                    /\ q.action \in {"make", "call", "query"}
  BY <1>1, <1>2, <1>5 DEF Results
<1>7. /\ reply \in ReplyDatagrams /\ reply.tid = q.tid /\ reply.n = q.n
      /\ reply.result = result /\ reply.ids = ids
  BY <1>4, <1>5, <1>6
<1>8. (reply.ids # {}) <=> (reply.result = "handleID")
  BY <1>5, <1>6, <1>7
<1>9. QED BY <1>6, <1>7, <1>8

\* The server answers the request at the head of the stream.
LEMMA ServeKeepsCalls ==
    ASSUME Types, CallInv, Serve
    PROVE  Types' /\ CallInv'
<1> DEFINE q == Head(toServer)
<1>1. /\ toServer # <<>> /\ toServer' = Tail(toServer)
      /\ UNCHANGED <<pc, request, foreign, isMutex, tidToReply, connectionActive, handles, lastN,
                    broken>>
      /\ serving' \in BOOLEAN
  BY DEF Serve, clientVars
<1>2. PICK reply \in Answers(q) :
         /\ objects' = (objects \ Removed(q)) \cup reply.ids
         /\ lastId' = lastId + Cardinality(reply.ids)
         /\ toClient' = IF broken THEN toClient ELSE Append(toClient, reply)
  BY DEF Serve
<1>3. /\ toServer \in Seq(Datagrams) /\ toClient \in Seq(ReplyDatagrams)
      /\ q \in Range(toServer) /\ q \in Datagrams
      /\ toServer' \in Seq(Datagrams)
      /\ Range(toServer) = {q} \cup Range(toServer')
      /\ DistinctTids(toServer) => /\ DistinctTids(toServer')
                                  /\ \A d \in Range(toServer') : d.tid # q.tid
  BY <1>1, Popped DEF Types
<1>4. /\ reply \in ReplyDatagrams /\ reply.tid = q.tid /\ reply.n = q.n
      /\ reply.ids = {} \/ reply.ids = {lastId + 1}
      /\ (reply.ids # {}) = (reply.result = "handleID")
      /\ q.action \in {"release", "close"} => reply.result = "result"
  BY <1>3, AnswerShape
<1>5. /\ lastId \in Nat \ {0} /\ lastId' \in Nat \ {0} /\ lastId <= lastId'
      /\ reply.ids \subseteq 1..lastId' /\ 1..lastId \subseteq 1..lastId'
<2>1. CASE reply.ids = {}
  BY <1>2, <2>1, FS_EmptySet DEF Types
<2>2. CASE reply.ids = {lastId + 1}
<3>1. Cardinality(reply.ids) = 1
  BY <2>2, FS_Singleton
<3>2. lastId \in Nat \ {0} /\ lastId' = lastId + 1
  BY <1>2, <3>1 DEF Types
<3>3. QED BY <2>2, <3>2
<2>3. QED BY <1>4, <2>1, <2>2
<1>6. /\ toClient' \in Seq(ReplyDatagrams)
      /\ broken => toClient' = toClient /\ Replies' = Replies
      /\ ~broken => /\ Range(toClient') = Range(toClient) \cup {reply}
                    /\ Replies' = Replies \cup {reply}
<2>1. CASE broken
  BY <1>1, <1>2, <1>3, <2>1 DEF Replies
<2>2. CASE ~broken
<3>1. toClient' = Append(toClient, reply)
  BY <1>2, <2>2
<3>2. toClient' \in Seq(ReplyDatagrams) /\ Range(toClient') = Range(toClient) \cup {reply}
  BY <1>3, <1>4, <3>1, Pushed
<3>3. QED BY <1>1, <2>2, <3>2 DEF Replies
<2>3. QED BY <2>1, <2>2
<1>7. /\ \A r \in Replies' : /\ r.ids \subseteq 1..lastId'
                             /\ r.result \in {"handleID", "result", "message", "errorMsg", "no object"}
                             /\ (r.ids # {}) = (r.result = "handleID")
<2>1. ASSUME NEW r \in Replies
      PROVE  /\ r.ids \subseteq 1..lastId
             /\ r.result \in {"handleID", "result", "message", "errorMsg", "no object"}
             /\ (r.ids # {}) = (r.result = "handleID")
  BY DEF Types, TypeOK
<2>2. reply.result \in {"handleID", "result", "message", "errorMsg", "no object"}
  BY <1>4 DEF ReplyDatagrams, Results
<2>3. Replies' \subseteq Replies \cup {reply}
  BY ONLY <1>6
<2>4. \A r \in Replies : r.ids \subseteq 1..lastId'
  BY ONLY <1>5, <2>1
<2>5. QED BY ONLY <1>4, <1>5, <2>1, <2>2, <2>3, <2>4
<1>8. TypeOK'
<2>1. objects' \subseteq 1..lastId' /\ handles' \subseteq 1..lastId'
  BY <1>1, <1>2, <1>5 DEF Types, TypeOK
<2>2. ASSUME NEW t \in Threads
      PROVE  /\ request'[t].action \in {"none", "make", "call", "query", "release", "close"}
             /\ request'[t].uses \subseteq 1..lastId' /\ request'[t].n \in 0..lastN'
             /\ foreign'[t] \subseteq 1..lastId'
             /\ (isMutex' = t) = (pc'[t] = "read")
  BY <1>1, <1>5 DEF Types, TypeOK
<2>3. QED BY <1>1, <1>7, <2>1, <2>2 DEF Types, TypeOK
<1>9. Types'
  BY <1>1, <1>3, <1>5, <1>6, <1>7, <1>8 DEF Types
<1>10. NumbersDiffer' /\ ReaderUncached' /\ LossIsReal'
  BY <1>1 DEF CallInv, NumbersDiffer, Busy, ReaderUncached, LossIsReal
<1>11. RequestsHaveCallers'
  BY <1>1, <1>3 DEF CallInv, RequestsHaveCallers, Sent, Datagram
<1>12. ~broken => \E t \in Threads : Sent(t) /\ q = Datagram(t)
  BY <1>3 DEF CallInv, RequestsHaveCallers
<1>13. RepliesHaveCallers'
<2>1. ASSUME NEW r \in Replies'
      PROVE  \E t \in Threads :
                /\ Sent(t) /\ Tid[t] = r.tid /\ request[t].n = r.n
                /\ request[t].action \in {"release", "close"} => r.result = "result"
<3>1. CASE r \in Replies
  BY <3>1 DEF CallInv, RepliesHaveCallers
<3>2. CASE r \notin Replies
<4>1. r = reply /\ ~broken
  BY <1>6, <2>1, <3>2
<4>2. PICK t \in Threads : Sent(t) /\ q = Datagram(t)
  BY <1>12, <4>1
<4>3. q.tid = Tid[t] /\ q.n = request[t].n /\ q.action = request[t].action
  BY <4>2 DEF Datagram
<4>4. QED BY <1>4, <4>1, <4>2, <4>3
<3>3. QED BY <3>1, <3>2
<2>2. QED BY <1>1, <2>1 DEF RepliesHaveCallers, Sent
<1>14. OnePlace'
<2>1. CASE broken
  BY <1>1, <1>6, <2>1 DEF CallInv, OnePlace
<2>2. CASE ~broken
<3>1. /\ DistinctTids(toServer) /\ DistinctTids(toClient)
      /\ \A d \in Range(toServer), r \in Replies : d.tid # r.tid
      /\ \A r \in Range(toClient) : r.tid \notin DOMAIN tidToReply
  BY <2>2 DEF CallInv, OnePlace
<3>2. \A r \in Replies : r.tid # reply.tid
  BY <1>3, <1>4, <3>1
<3>3. DistinctTids(toClient')
  BY <1>2, <1>3, <1>4, <2>2, <3>1, <3>2, Pushed DEF Replies
<3>4. reply.tid \notin DOMAIN tidToReply
<4>1. \A tid \in DOMAIN tidToReply : tidToReply[tid] \in Replies /\ tidToReply[tid].tid = tid
  BY CachedByTid
<4>2. QED BY <3>2, <4>1
<3>5. DistinctTids(toServer') /\ \A d \in Range(toServer'), r \in Replies' : d.tid # r.tid
  BY <1>3, <1>4, <1>6, <2>2, <3>1
<3>6. \A r \in Range(toClient') : r.tid \notin DOMAIN tidToReply'
  BY <1>1, <1>6, <2>2, <3>1, <3>4
<3>7. QED BY <3>3, <3>5, <3>6 DEF OnePlace
<2>3. QED BY <2>1, <2>2
<1>15. QED BY <1>9, <1>10, <1>11, <1>13, <1>14 DEF CallInv

\* The connection ends with what it carried.
LEMMA BreakKeepsCalls ==
    ASSUME Types, CallInv, Break
    PROVE  Types' /\ CallInv'
<1>1. /\ ~broken /\ broken' = TRUE
      /\ UNCHANGED <<pc, request, foreign, isMutex, tidToReply, connectionActive, handles, lastN,
                    objects, lastId, serving>>
      /\ toClient \in Seq(ReplyDatagrams) /\ toServer \in Seq(Datagrams)
  BY DEF Break, clientVars, serverVars, Types
<1>2. PICK k \in 0..Len(toClient), m \in 0..Len(toServer) :
         toClient' = SubSeq(toClient, 1, k) /\ toServer' = SubSeq(toServer, 1, m)
  BY DEF Break
<1>3. /\ toClient' \in Seq(ReplyDatagrams) /\ Range(toClient') \subseteq Range(toClient)
      /\ DistinctTids(toClient) => DistinctTids(toClient')
      /\ toServer' \in Seq(Datagrams)
  BY <1>1, <1>2, CutOff
<1>4. Replies' \subseteq Replies
  BY <1>1, <1>3 DEF Replies
<1>5. Types'
<2>1. TypeOK'
  BY <1>1, <1>4 DEF Types, TypeOK
<2>2. QED BY <1>1, <1>3, <1>4, <2>1 DEF Types
<1>6. NumbersDiffer' /\ ReaderUncached' /\ LossIsReal' /\ RequestsHaveCallers'
  BY <1>1 DEF CallInv, NumbersDiffer, Busy, ReaderUncached, LossIsReal, RequestsHaveCallers
<1>7. RepliesHaveCallers'
  BY <1>1, <1>4 DEF CallInv, RepliesHaveCallers, Sent
<1>8. OnePlace'
  BY <1>1, <1>3 DEF CallInv, OnePlace
<1>9. QED BY <1>5, <1>6, <1>7, <1>8 DEF CallInv

\* A caller begins, goes on with or closes: each asks.
LEMMA CallersAsk ==
    ASSUME Types, CallInv, NEW t \in Threads, Begin(t) \/ Continue(t) \/ Close(t)
    PROVE  /\ pc[t] \in {"idle", "next"}
           /\ \E action \in Actions \ {"none"}, uses \in SUBSET (1..lastId) : Ask(t, action, uses)
           /\ foreign' = [foreign EXCEPT ![t] = foreign'[t]] /\ foreign'[t] \subseteq 1..lastId
           /\ handles' \subseteq handles
           /\ UNCHANGED <<isMutex, tidToReply, connectionActive, serverVars, stream>>
<1>1. /\ foreign \in [Threads -> SUBSET Nat] /\ {EnvId} \subseteq 1..lastId
      /\ foreign[t] \subseteq 1..lastId /\ handles \subseteq 1..lastId
<2>1. foreign \in [Threads -> SUBSET Nat] /\ lastId \in Nat \ {0}
  BY DEF Types
<2>2. foreign[t] \subseteq 1..lastId /\ handles \subseteq 1..lastId
  BY DEF Types, TypeOK
<2>3. QED BY <2>1, <2>2 DEF EnvId
<1>2. CASE Begin(t)
<2>1. CASE Ask(t, "make", {EnvId}) /\ UNCHANGED <<handles, foreign>>
  BY <1>1, <1>2, <2>1 DEF Begin, Actions
<2>2. ASSUME NEW h \in handles, NEW arg \in handles, NEW action \in {"call", "query"},
             Ask(t, action, {h, arg}), UNCHANGED <<handles, foreign>>
      PROVE  \E a \in Actions \ {"none"}, uses \in SUBSET (1..lastId) : Ask(t, a, uses)
  BY <1>1, <2>2 DEF Actions
<2>3. ASSUME NEW h \in handles \ InUse, Ask(t, "release", {h})
      PROVE  \E a \in Actions \ {"none"}, uses \in SUBSET (1..lastId) : Ask(t, a, uses)
  BY <1>1, <2>3 DEF Actions
<2>4. ASSUME NEW h \in handles, Ask(t, "make", {EnvId}), UNCHANGED handles,
             foreign' = [foreign EXCEPT ![t] = IF connectionActive THEN {h} ELSE {}]
      PROVE  /\ \E a \in Actions \ {"none"}, uses \in SUBSET (1..lastId) : Ask(t, a, uses)
             /\ foreign' = [foreign EXCEPT ![t] = foreign'[t]] /\ foreign'[t] \subseteq 1..lastId
  BY <1>1, <2>4 DEF Actions
<2>5. QED BY <1>1, <1>2, <2>1, <2>2, <2>3, <2>4 DEF Begin
<1>3. CASE Continue(t)
<2>1. \E a \in Actions \ {"none"}, uses \in SUBSET (1..lastId) : Ask(t, a, uses)
<3>1. CASE Ask(t, "release", foreign[t] \ handles)
  BY <1>1, <3>1 DEF Actions
<3>2. CASE Ask(t, "call", foreign[t])
  BY <1>1, <3>2 DEF Actions
<3>3. QED BY <1>3, <3>1, <3>2 DEF Continue
<2>2. QED BY <1>1, <1>3, <2>1 DEF Continue
<1>4. CASE Close(t)
  BY <1>1, <1>4 DEF Close, Busy, Actions
<1>5. QED BY <1>2, <1>3, <1>4

\* A thread that comes out with a reply leaves no other behind.
LEMMA ReturnKeepsCalls ==
    ASSUME Types, CallInv, NEW t \in Threads, NEW reply \in Replies, Return(t, reply),
           reply.tid = Tid[t], UNCHANGED <<request, connectionActive, lastN, serverVars, toServer, broken>>,
           \/ /\ pc[t] = "wait" /\ Tid[t] \in DOMAIN tidToReply
              /\ tidToReply' = Uncached(t) /\ UNCHANGED <<isMutex, toClient>>
           \/ /\ pc[t] = "read" /\ isMutex' = None /\ UNCHANGED tidToReply
              /\ toClient # <<>> /\ reply = Head(toClient) /\ toClient' = Tail(toClient)
    PROVE  /\ Types' /\ CallInv' /\ pc[t] \in {"wait", "read"}
           /\ Replies' = {r \in Replies : r.tid # Tid[t]}
<1>1. /\ pc' = [pc EXCEPT ![t] = pc'[t]] /\ pc'[t] \in {"idle", "next"}
      /\ foreign' = [foreign EXCEPT ![t] = foreign'[t]] /\ foreign'[t] \subseteq 1..lastId
      /\ handles' \subseteq 1..lastId
  BY Returned
<1>2. ~broken => \A q \in Range(toServer) : q.tid # Tid[t]
  BY DEF CallInv, OnePlace
<1>3. Replies' = {r \in Replies : r.tid # Tid[t]}
<2>1. \A r \in Range(tidToReply) : r.tid \in DOMAIN tidToReply
  BY CachedByTid
<2>2. CASE pc[t] = "wait"
<3>1. \A r \in Range(toClient) : r.tid # Tid[t]
  BY <2>2 DEF CallInv, OnePlace
<3>2. Range(tidToReply)' = {r \in Range(tidToReply) : r.tid # Tid[t]}
  BY <2>2, CacheWithout
<3>3. QED BY <2>2, <3>1, <3>2 DEF Replies
<2>3. CASE pc[t] = "read"
<3>1. Tid[t] \notin DOMAIN tidToReply
  BY <2>3 DEF CallInv, ReaderUncached
<3>2. /\ Range(toClient) = {reply} \cup Range(toClient')
      /\ \A d \in Range(toClient') : d.tid # Tid[t]
  BY <2>3, Popped DEF Types, CallInv, OnePlace
<3>3. QED BY <2>1, <2>3, <3>1, <3>2 DEF Replies
<2>4. QED BY <2>2, <2>3
<1>4. pc[t] \in {"wait", "read"}
  OBVIOUS
<1>5. Types' /\ CallInv'
<2>1. \A r \in Replies' : r.tid # Tid[t]
  BY <1>3
<2>2. isMutex' = IF pc[t] = "read" THEN None ELSE isMutex
  OBVIOUS
<2>3. connectionActive' = connectionActive
  OBVIOUS
<2>4. QED BY <1>1, <1>2, <1>4, <2>1, <2>2, <2>3, LeavingKeepsCalls
<1>6. QED BY <1>3, <1>4, <1>5

\* An error of the stream: its server is gone, and the thread has no reply.
LEMMA FailKeepsCalls ==
    ASSUME Types, CallInv, NEW t \in Threads, SendFailed(t) \/ ReadFails(t)
    PROVE  /\ Types' /\ CallInv' /\ broken /\ Replies' \subseteq Replies
           /\ \A r \in Replies : r.tid # Tid[t]
           /\ pc[t] \in {"read", "fail"}
           /\ pc' = [pc EXCEPT ![t] = pc'[t]] /\ pc'[t] \in {"idle", "next"}
<1>1. broken
  BY DEF SendFailed, ReadFails, CallInv, LossIsReal
<1>2. /\ pc \in [Threads -> {"idle", "send", "wait", "read", "fail", "next"}]
      /\ foreign \in [Threads -> SUBSET Nat] /\ handles \subseteq 1..lastId
      /\ \A u \in Threads : foreign[u] \subseteq 1..lastId
      /\ \A u \in Threads : (isMutex = u) = (pc[u] = "read")
  BY DEF Types, TypeOK
<1>3. /\ pc[t] \in {"read", "fail"}
      /\ pc' = [pc EXCEPT ![t] = pc'[t]] /\ pc'[t] \in {"idle", "next"}
      /\ foreign' = [foreign EXCEPT ![t] = foreign'[t]] /\ foreign'[t] \subseteq 1..lastId
      /\ handles' = handles
      /\ isMutex' = IF pc[t] = "read" THEN None ELSE isMutex
      /\ UNCHANGED <<request, lastN, serverVars, stream>>
  BY <1>2 DEF SendFailed, ReadFails, Throw
<1>4. \A r \in Replies : r.tid # Tid[t]
<2>1. CASE pc[t] = "fail"
  BY <2>1, ThreadIds DEF CallInv, RepliesHaveCallers, Sent
<2>2. CASE pc[t] = "read"
<3>1. toClient = <<>> /\ Tid[t] \notin DOMAIN tidToReply
  BY <2>2 DEF SendFailed, ReadFails, CallInv, ReaderUncached
<3>2. Range(toClient) = {}
  BY <3>1 DEF Range
<3>3. \A r \in Range(tidToReply) : r.tid \in DOMAIN tidToReply
  BY CachedByTid
<3>4. QED BY <3>1, <3>2, <3>3 DEF Replies
<2>3. QED BY <1>3, <2>1, <2>2
<1>5. tidToReply' = tidToReply \/ tidToReply' = Uncached(t)
  BY DEF SendFailed, ReadFails
<1>6. Replies' \subseteq Replies
  BY <1>3, <1>5, CacheWithout DEF Replies, stream
<1>7. connectionActive' = connectionActive \/ (broken /\ connectionActive' = FALSE)
  BY <1>1 DEF SendFailed, ReadFails
<1>8. Types' /\ CallInv'
  BY <1>1, <1>2, <1>3, <1>4, <1>5, <1>6, <1>7, LeavingKeepsCalls DEF stream
<1>9. QED BY <1>1, <1>3, <1>4, <1>6, <1>8

\* A thread that waits and gets isMutex has its reply, or reads for it.
LEMMA LockInputKeepsCalls ==
    ASSUME Types, CallInv, NEW t \in Threads, LockInput(t)
    PROVE  Types' /\ CallInv'
<1>1. /\ pc[t] = "wait" /\ isMutex = None
      /\ UNCHANGED <<request, connectionActive, lastN, serverVars, toServer, toClient, broken>>
  BY DEF LockInput, stream
<1>2. CASE Tid[t] \in DOMAIN tidToReply
<2>1. /\ Return(t, tidToReply[Tid[t]]) /\ tidToReply' = Uncached(t) /\ UNCHANGED isMutex
  BY <1>2 DEF LockInput
<2>2. tidToReply[Tid[t]] \in Replies /\ tidToReply[Tid[t]].tid = Tid[t]
  BY <1>2, CachedByTid
<2>3. QED BY <1>1, <1>2, <2>1, <2>2, ReturnKeepsCalls
<1>3. CASE Tid[t] \notin DOMAIN tidToReply
<2>1. pc' = [pc EXCEPT ![t] = "read"] /\ isMutex' = t /\ UNCHANGED <<foreign, handles, tidToReply>>
  BY <1>3 DEF LockInput
<2>2. pc \in [Threads -> {"idle", "send", "wait", "read", "fail", "next"}]
  BY DEF Types, TypeOK
<2>3. pc' = [pc EXCEPT ![t] = pc'[t]] /\ pc'[t] = "read"
  BY <2>1, <2>2
<2>4. QED BY <1>1, <1>3, <2>1, <2>3, ReadingKeepsCalls
<1>4. QED BY <1>2, <1>3

\* The reader takes its own reply, or keeps that of another thread.
LEMMA ReadKeepsCalls ==
    ASSUME Types, CallInv, NEW t \in Threads, Read(t)
    PROVE  Types' /\ CallInv'
<1>1. /\ pc[t] = "read" /\ toClient # <<>> /\ toClient' = Tail(toClient) /\ isMutex' = None
      /\ UNCHANGED <<request, connectionActive, lastN, serverVars, toServer, broken>>
  BY DEF Read
<1>2. Head(toClient) \in Replies
  BY <1>1, Popped DEF Types, Replies
<1>3. CASE Head(toClient).tid = Tid[t]
<2>1. Return(t, Head(toClient)) /\ UNCHANGED tidToReply
  BY <1>3 DEF Read
<2>2. QED BY <1>1, <1>2, <1>3, <2>1, ReturnKeepsCalls
<1>4. CASE Head(toClient).tid # Tid[t]
<2>1. /\ tidToReply' = Cached(Head(toClient)) /\ pc' = [pc EXCEPT ![t] = "wait"]
      /\ UNCHANGED <<foreign, handles>>
  BY <1>4 DEF Read
<2>2. pc \in [Threads -> {"idle", "send", "wait", "read", "fail", "next"}]
  BY DEF Types, TypeOK
<2>3. pc' = [pc EXCEPT ![t] = pc'[t]] /\ pc'[t] = "wait"
  BY <2>1, <2>2
<2>4. QED BY <1>1, <1>4, <2>1, <2>3, ReadingKeepsCalls
<1>5. QED BY <1>3, <1>4

\* Steps that touch neither the calls nor the stream.
LEMMA IdleKeepsCalls ==
    ASSUME Types, CallInv, HangUp \/ UNCHANGED vars
    PROVE  Types' /\ CallInv'
<1>1. /\ UNCHANGED <<pc, request, foreign, isMutex, tidToReply, connectionActive, handles, lastN,
                    objects, lastId, toServer, toClient, broken>>
      /\ serving' \in BOOLEAN /\ Replies' = Replies
  BY DEF HangUp, vars, clientVars, serverVars, stream, Types, TypeOK, Replies
<1>2. Types'
  BY <1>1 DEF Types, TypeOK
<1>3. CallInv'
  BY <1>1 DEF CallInv, NumbersDiffer, Busy, RequestsHaveCallers, RepliesHaveCallers, OnePlace,
              DistinctTids, ReaderUncached, LossIsReal, Sent, Datagram
<1>4. QED BY <1>2, <1>3

\* So every step keeps what ties calls, requests and replies to each other.
LEMMA StepCalls == Types /\ CallInv /\ [Next]_vars => Types' /\ CallInv'
<1> SUFFICES ASSUME Types, CallInv, [Next]_vars PROVE Types' /\ CallInv'
  OBVIOUS
<1>1. ASSUME NEW t \in Threads, Begin(t) \/ Close(t) \/ Continue(t) PROVE Types' /\ CallInv'
  BY <1>1, CallersAsk, AskKeepsCalls
<1>2. ASSUME NEW t \in Threads, Send(t) PROVE Types' /\ CallInv'
  BY <1>2, SendKeepsCalls
<1>3. ASSUME NEW t \in Threads, SendFailed(t) \/ ReadFails(t) PROVE Types' /\ CallInv'
  BY <1>3, FailKeepsCalls
<1>4. ASSUME NEW t \in Threads, LockInput(t) PROVE Types' /\ CallInv'
  BY <1>4, LockInputKeepsCalls
<1>5. ASSUME NEW t \in Threads, Read(t) PROVE Types' /\ CallInv'
  BY <1>5, ReadKeepsCalls
<1>6. CASE Serve
  BY <1>6, ServeKeepsCalls
<1>7. CASE Break
  BY <1>7, BreakKeepsCalls
<1>8. CASE HangUp \/ Finished \/ UNCHANGED vars
  BY <1>8, IdleKeepsCalls DEF Finished
<1>9. QED BY <1>1, <1>2, <1>3, <1>4, <1>5, <1>6, <1>7, <1>8 DEF Next, Transact

\* The types of the proxy's state, and that every reply has its caller.
THEOREM AlwaysCalls == Spec => [](Types /\ CallInv)
  BY InitCalls, StepCalls, PTL DEF Spec

\* The fields of the environment and of the handler keep their types, isMutex is
\* held by the one thread that reads, and the cache is keyed by the reply's hash.
THEOREM TypesHold == Spec => []TypeOK
<1>1. Types => TypeOK
  BY DEF Types
<1>2. QED BY <1>1, AlwaysCalls, PTL

\* For any number of threads, however replies overtake each other in the cache: a
\* reply is for the call that its thread now waits in, and no call has two.
THEOREM RepliesTaken == Spec => []RepliesHaveTakers
<1>1. ASSUME Types, CallInv PROVE RepliesHaveTakers
<2>1. ASSUME NEW reply \in Replies
      PROVE  \E t \in Threads : /\ pc[t] \in {"wait", "read"} /\ Tid[t] = reply.tid
                                /\ request[t].n = reply.n /\ reply.n # 0
  BY <1>1 DEF CallInv, RepliesHaveCallers, Sent, NumbersDiffer, Busy
<2>2. ASSUME NEW i \in DOMAIN toClient, NEW j \in DOMAIN toClient, toClient[i].n = toClient[j].n
      PROVE  i = j
<3>1. toClient[i] \in Replies /\ toClient[j] \in Replies
  BY DEF Replies, Range
<3>2. PICK t \in Threads : Tid[t] = toClient[i].tid /\ request[t].n = toClient[i].n
                           /\ toClient[i].n # 0
  BY <2>1, <3>1
<3>3. PICK u \in Threads : Tid[u] = toClient[j].tid /\ request[u].n = toClient[j].n
  BY <2>1, <3>1
<3>4. t = u
  BY <1>1, <2>2, <3>2, <3>3 DEF CallInv, NumbersDiffer
<3>5. QED BY <1>1, <3>2, <3>3, <3>4 DEF CallInv, OnePlace, DistinctTids
<2>3. \A reply \in Range(toClient) : reply.tid \notin DOMAIN tidToReply
  BY <1>1 DEF CallInv, OnePlace
<2>4. QED BY <2>1, <2>2, <2>3 DEF RepliesHaveTakers
<1>2. QED BY <1>1, AlwaysCalls, PTL

(***************************************************************************)
(* The objects of the server and their owners.                             *)
(***************************************************************************)

\* What each thread owns, by how far it is in transact(), while the connection lives.
Holdings ==
    ~broken => \A t \in Threads :
        /\ pc[t] = "idle" => Owned(t) = {}
        /\ pc[t] = "next" => Owned(t) = IF request[t].action = "make" THEN foreign[t] \ handles ELSE {}
        /\ pc[t] = "send" => Owned(t) = IF request[t].action \in {"release", "close"}
                                          THEN request[t].uses ELSE {}
        /\ \A q \in Range(toServer) : q.tid = Tid[t] =>
              Owned(t) = IF q.action \in {"release", "close"} THEN q.uses ELSE {}
        /\ \A reply \in Replies : reply.tid = Tid[t] => Owned(t) = reply.ids

\* Only a thread that has sent its request has it or its reply on the way.
LEMMA OnTheWay ==
    ASSUME Types, CallInv, ~broken, NEW t \in Threads
    PROVE  /\ \A q \in Range(toServer) : q.tid = Tid[t] => Sent(t) /\ q = Datagram(t)
           /\ \A q \in Range(toServer) : q.n = request[t].n => Sent(t) /\ q = Datagram(t)
           /\ \A reply \in Replies : reply.tid = Tid[t] => Sent(t) /\ reply.n = request[t].n
<1>1. ASSUME NEW q \in Range(toServer), q.tid = Tid[t] \/ q.n = request[t].n
      PROVE  Sent(t) /\ q = Datagram(t)
<2>1. PICK u \in Threads : Sent(u) /\ q = Datagram(u)
  BY DEF CallInv, RequestsHaveCallers
<2>2. q.tid = Tid[u] /\ q.n = request[u].n /\ request[u].n # 0
  BY <2>1, DatagramShape DEF Sent, Busy, CallInv, NumbersDiffer, Datagram
<2>3. u = t
  BY <1>1, <2>2, ThreadIds DEF CallInv, NumbersDiffer
<2>4. QED BY <2>1, <2>3
<1>2. ASSUME NEW reply \in Replies, reply.tid = Tid[t] PROVE Sent(t) /\ reply.n = request[t].n
  BY <1>2, ThreadIds DEF CallInv, RepliesHaveCallers
<1>3. QED BY <1>1, <1>2

\* The three ways to own an object.
LEMMA OwnedWays ==
    ASSUME NEW t \in Threads
    PROVE  \A id : id \in Owned(t) <=>
              \/ \E r \in Replies : r.tid = Tid[t] /\ id \in r.ids
              \/ Removal(t) /\ id \in request[t].uses
              \/ Temporary(t) /\ id \in foreign[t] /\ id \notin handles
<1>1. ASSUME NEW id
      PROVE  id \in Promised(t) <=> \E r \in Replies : r.tid = Tid[t] /\ id \in r.ids
  BY DEF Promised
<1>2. QED BY <1>1 DEF Owned

\* A thread has one reply at most.
LEMMA OneReply ==
    ASSUME Types, CallInv, NEW r \in Replies, NEW s \in Replies, r.tid = s.tid
    PROVE  r = s
<1>1. /\ \A d \in Range(tidToReply) : d.tid \in DOMAIN tidToReply
      /\ \A d \in Range(tidToReply) : d = tidToReply[d.tid]
  BY CachedByTid DEF Range
<1>2. \A d \in Range(toClient) : d.tid \notin DOMAIN tidToReply
  BY DEF CallInv, OnePlace
<1>3. CASE r \in Range(toClient) /\ s \in Range(toClient)
  BY <1>3 DEF CallInv, OnePlace, DistinctTids, Range
<1>4. QED BY <1>1, <1>2, <1>3 DEF Replies

\* A thread owns what its one request, its one reply or its conversion is about.
LEMMA ThreadsOwn == Types /\ CallInv => Holdings
<1> SUFFICES ASSUME Types, CallInv, ~broken, NEW t \in Threads
             PROVE  /\ pc[t] = "idle" => Owned(t) = {}
                    /\ pc[t] = "next" =>
                          Owned(t) = IF request[t].action = "make" THEN foreign[t] \ handles ELSE {}
                    /\ pc[t] = "send" => Owned(t) = IF request[t].action \in {"release", "close"}
                                                      THEN request[t].uses ELSE {}
                    /\ \A q \in Range(toServer) : q.tid = Tid[t] =>
                          Owned(t) = IF q.action \in {"release", "close"} THEN q.uses ELSE {}
                    /\ \A reply \in Replies : reply.tid = Tid[t] => Owned(t) = reply.ids
  BY DEF Holdings
<1>1. ~Sent(t) => /\ \A r \in Replies : r.tid # Tid[t]
                  /\ Removal(t) <=> pc[t] = "send" /\ request[t].action \in {"release", "close"}
  BY OnTheWay DEF Removal
<1>2. /\ pc[t] = "idle" => Owned(t) = {}
      /\ pc[t] = "next" =>
            Owned(t) = IF request[t].action = "make" THEN foreign[t] \ handles ELSE {}
      /\ pc[t] = "send" => Owned(t) = IF request[t].action \in {"release", "close"}
                                        THEN request[t].uses ELSE {}
  BY <1>1, OwnedWays DEF Temporary, Sent
<1>3. ASSUME NEW q \in Range(toServer), q.tid = Tid[t]
      PROVE  Owned(t) = IF q.action \in {"release", "close"} THEN q.uses ELSE {}
<2>1. Sent(t) /\ q = Datagram(t) /\ t \in Busy
  BY <1>3, OnTheWay DEF Sent, Busy
<2>2. q.n = request[t].n /\ q.action = request[t].action /\ q.uses = request[t].uses
  BY <2>1, DatagramShape
<2>3. \A r \in Replies : r.tid # Tid[t]
  BY <1>3 DEF CallInv, OnePlace
<2>4. (Removal(t) <=> q.action \in {"release", "close"}) /\ ~Temporary(t)
  BY <2>1, <2>2 DEF Removal, Temporary, Sent
<2>5. QED BY <2>2, <2>3, <2>4, OwnedWays
<1>4. ASSUME NEW reply \in Replies, reply.tid = Tid[t] PROVE Owned(t) = reply.ids
<2>1. Sent(t) /\ ~Temporary(t)
  BY <1>4, OnTheWay DEF Sent, Temporary
<2>2. ~Removal(t)
<3>1. \A q \in Range(toServer) : q.tid # Tid[t]
  BY <1>4 DEF CallInv, OnePlace
<3>2. \A q \in Range(toServer) : q.n # request[t].n
  BY <2>1, <3>1, OnTheWay, DatagramShape DEF Sent, Busy
<3>3. QED BY <2>1, <3>2 DEF Removal, Sent
<2>3. \A r \in Replies : r.tid = Tid[t] => r = reply
  BY <1>4, OneReply
<2>4. QED BY <1>4, <2>1, <2>2, <2>3, OwnedWays
<1>5. QED BY <1>2, <1>3, <1>4

\* After a step, too.
LEMMA ThreadsOwnNext == Types' /\ CallInv' => Holdings'
  BY ThreadsOwn, PTL

\* A thread that a step leaves alone owns what it owned.
LEMMA OthersOwn ==
    ASSUME NEW u \in Threads,
           pc'[u] = pc[u], request'[u] = request[u], foreign'[u] = foreign[u],
           \A r : r \in Replies' /\ r.tid = Tid[u] <=> r \in Replies /\ r.tid = Tid[u],
           (\E q \in Range(toServer') : q.n = request[u].n)
              <=> \E q \in Range(toServer) : q.n = request[u].n,
           Temporary(u) => foreign[u] \ handles' = foreign[u] \ handles
    PROVE  Owned(u)' = Owned(u)
<1>1. Promised(u)' = Promised(u)
<2>1. {r \in Replies' : r.tid = Tid[u]} = {r \in Replies : r.tid = Tid[u]}
  OBVIOUS
<2>2. QED BY <2>1 DEF Promised
<1>2. (Removal(u)' <=> Removal(u)) /\ (Temporary(u)' <=> Temporary(u))
  BY DEF Removal, Temporary
<1>3. QED BY <1>1, <1>2 DEF Owned

\* Objects change hands, but not the set of them: it is enough to look at the
\* thread that acts.
LEMMA HandedOver ==
    ASSUME OneOwner, ~broken, NEW t \in Threads, objects' = objects,
           \A u \in Threads \ {t} : Owned(u)' = Owned(u),
           handles' \cup Owned(t)' \cup EnvOwned' = handles \cup Owned(t) \cup EnvOwned,
           handles' \cap Owned(t)' = {}, handles' \cap EnvOwned' = {}, Owned(t)' \cap EnvOwned' = {}
    PROVE  OneOwner'
<1>1. /\ objects = handles \cup ThreadsOwned \cup EnvOwned
      /\ \A u \in Threads : Owned(u) \cap handles = {} /\ Owned(u) \cap EnvOwned = {}
      /\ \A s, u \in Threads : s # u => Owned(s) \cap Owned(u) = {}
  BY DEF OneOwner
<1>2. /\ \A id : id \in ThreadsOwned <=> \E u \in Threads : id \in Owned(u)
      /\ \A id : id \in ThreadsOwned' <=> \E u \in Threads : id \in Owned(u)'
  BY DEF ThreadsOwned
<1>3. ASSUME NEW u \in Threads \ {t}
      PROVE  Owned(u)' \cap handles' = {} /\ Owned(u)' \cap EnvOwned' = {} /\ Owned(u)' \cap Owned(t)' = {}
  BY <1>1
<1>4. \A s, u \in Threads : s # u => Owned(s)' \cap Owned(u)' = {}
  BY <1>1, <1>3
<1>5. ASSUME NEW id
      PROVE  id \in objects' <=> id \in handles' \cup EnvOwned' \cup ThreadsOwned'
  BY <1>1, <1>2
<1>6. QED BY <1>3, <1>4, <1>5 DEF OneOwner

\* Who asks, while the connection lives, owns what it asks to release.
LEMMA AskOwns ==
    ASSUME Types, CallInv, Types', CallInv', ~broken, NEW t \in Threads, pc[t] \in {"idle", "next"},
           NEW action \in Actions \ {"none"}, NEW uses, Ask(t, action, uses),
           foreign' = [foreign EXCEPT ![t] = foreign'[t]],
           \A u \in Threads \ {t} : Temporary(u) => foreign[u] \ handles' = foreign[u] \ handles,
           UNCHANGED <<isMutex, tidToReply, connectionActive, serverVars, stream>>
    PROVE  /\ Owned(t)' = IF action \in {"release", "close"} THEN uses ELSE {}
           /\ \A u \in Threads \ {t} : Owned(u)' = Owned(u)
           /\ objects' = objects
           /\ action # "close" /\ ~Closed => EnvOwned' = EnvOwned
<1>1. /\ request' = [request EXCEPT ![t] = [action |-> action, uses |-> uses, n |-> lastN + 1]]
      /\ pc' = [pc EXCEPT ![t] = "send"]
      /\ request \in [Threads -> Requests] /\ foreign \in [Threads -> SUBSET Nat]
      /\ pc \in [Threads -> {"idle", "send", "wait", "read", "fail", "next"}]
      /\ UNCHANGED <<toServer, broken, objects>> /\ Replies' = Replies
  BY DEF Ask, CallInv, LossIsReal, Types, TypeOK, serverVars, stream, Replies
<1>2. /\ request'[t].action = action /\ request'[t].uses = uses /\ pc'[t] = "send"
      /\ \A u \in Threads \ {t} : pc'[u] = pc[u] /\ request'[u] = request[u] /\ foreign'[u] = foreign[u]
  BY <1>1
<1>3. Holdings'
  BY ThreadsOwnNext
<1>4. Owned(t)' = IF action \in {"release", "close"} THEN uses ELSE {}
  BY <1>1, <1>2, <1>3 DEF Holdings
<1>5. ASSUME NEW u \in Threads \ {t} PROVE Owned(u)' = Owned(u)
  BY <1>1, <1>2, OthersOwn
<1>6. action # "close" /\ ~Closed => EnvOwned' = EnvOwned
  BY <1>2 DEF EnvOwned, Closed
<1>7. QED BY <1>1, <1>4, <1>5, <1>6

\* Each object that a caller gives up goes to the request that releases it.
LEMMA CallersKeepOwners ==
    ASSUME Types, CallInv, Types', CallInv', ObjectInv, NEW t \in Threads,
           Begin(t) \/ Continue(t) \/ Close(t)
    PROVE  OneOwner'
<1> SUFFICES ASSUME ~broken' PROVE OneOwner'
  BY DEF OneOwner
<1>1. /\ pc[t] \in {"idle", "next"} /\ foreign' = [foreign EXCEPT ![t] = foreign'[t]]
      /\ UNCHANGED <<isMutex, tidToReply, connectionActive, serverVars, stream>>
  BY CallersAsk
<1>2. /\ ~broken /\ OneOwner /\ Holdings /\ connectionActive
      /\ EnvOwned = IF Closed THEN {} ELSE {EnvId}
      /\ handles \cap EnvOwned = {} /\ Owned(t) \cap handles = {} /\ Owned(t) \cap EnvOwned = {}
  BY <1>1, ThreadsOwn DEF ObjectInv, OneOwner, stream, CallInv, LossIsReal, EnvOwned
<1>3. CASE Begin(t)
<2>1. pc[t] = "idle" /\ ~Closed
  BY <1>3 DEF Begin
<2>2. Owned(t) = {}
  BY <1>2, <2>1 DEF Holdings
<2>3. ASSUME NEW action \in {"make", "call", "query"}, NEW uses, Ask(t, action, uses), UNCHANGED handles
      PROVE  OneOwner'
<3>1. /\ Owned(t)' = {} /\ \A u \in Threads \ {t} : Owned(u)' = Owned(u)
      /\ objects' = objects /\ EnvOwned' = EnvOwned
  BY <1>1, <1>2, <2>1, <2>3, AskOwns DEF Actions
<3>2. QED BY <1>2, <2>2, <2>3, <3>1, HandedOver
<2>4. ASSUME NEW h \in handles \ InUse, Ask(t, "release", {h}), handles' = handles \ {h}
      PROVE  OneOwner'
<3>1. \A u \in Threads \ {t} : Temporary(u) => foreign[u] \ handles' = foreign[u] \ handles
  BY <2>4 DEF Temporary, InUse, Busy
<3>2. /\ Owned(t)' = {h} /\ \A u \in Threads \ {t} : Owned(u)' = Owned(u)
      /\ objects' = objects /\ EnvOwned' = EnvOwned
  BY <1>1, <1>2, <2>1, <2>4, <3>1, AskOwns DEF Actions
<3>3. QED BY <1>2, <2>2, <2>4, <3>2, HandedOver
<2>5. QED BY <1>3, <2>3, <2>4 DEF Begin
<1>4. CASE Continue(t)
<2>1. /\ pc[t] = "next" /\ UNCHANGED handles
      /\ Owned(t) = IF request[t].action = "make" THEN foreign[t] \ handles ELSE {}
  BY <1>2, <1>4 DEF Continue, Holdings
<2>2. ~Closed
  BY <2>1 DEF ObjectInv, ClosedLast, HandlesInUse
<2>3. /\ Owned(t)' = Owned(t) /\ \A u \in Threads \ {t} : Owned(u)' = Owned(u)
      /\ objects' = objects /\ EnvOwned' = EnvOwned
<3>1. CASE request[t].action = "make"
<4>1. Ask(t, "release", foreign[t] \ handles)
  BY <1>4, <3>1 DEF Continue
<4>2. QED BY <1>1, <1>2, <2>1, <2>2, <3>1, <4>1, AskOwns DEF Actions
<3>2. CASE request[t].action # "make"
<4>1. Ask(t, "call", foreign[t])
  BY <1>4, <3>2 DEF Continue
<4>2. QED BY <1>1, <1>2, <2>1, <2>2, <3>2, <4>1, AskOwns DEF Actions
<3>3. QED BY <3>1, <3>2
<2>4. QED BY <1>2, <2>1, <2>3, HandedOver
<1>5. CASE Close(t)
<2>1. /\ pc[t] = "idle" /\ ~Closed /\ handles = {} /\ UNCHANGED handles /\ Ask(t, "close", {EnvId})
  BY <1>5 DEF Close, Busy
<2>2. Owned(t) = {}
  BY <1>2, <2>1 DEF Holdings
<2>3. /\ Owned(t)' = {EnvId} /\ \A u \in Threads \ {t} : Owned(u)' = Owned(u)
      /\ objects' = objects
  BY <1>1, <1>2, <2>1, AskOwns DEF Actions
<2>4. EnvOwned' = {}
<3>1. request'[t].action = "close"
  BY <2>1 DEF Ask, Types
<3>2. QED BY <3>1 DEF EnvOwned, Closed
<2>5. QED BY <1>2, <2>1, <2>2, <2>3, <2>4, HandedOver
<1>6. QED BY <1>3, <1>4, <1>5

\* Requests and replies under way change nobody's objects.
LEMMA UnderWayKeepsOwners ==
    ASSUME Types, CallInv, Types', CallInv', OneOwner, NEW t \in Threads,
           \/ Send(t)
           \/ /\ Sent(t) /\ Sent(t)' /\ Replies' = Replies /\ UNCHANGED toServer
              /\ pc' = [pc EXCEPT ![t] = pc'[t]]
              /\ UNCHANGED <<request, foreign, handles, serverVars, broken>>
    PROVE  OneOwner'
<1> SUFFICES ASSUME ~broken' PROVE OneOwner'
  BY DEF OneOwner
<1>1. /\ UNCHANGED <<request, foreign, handles, objects, broken>> /\ Replies' = Replies
      /\ pc' = [pc EXCEPT ![t] = pc'[t]] /\ pc[t] # "next" /\ pc'[t] # "next"
      /\ pc \in [Threads -> {"idle", "send", "wait", "read", "fail", "next"}]
      /\ toServer \in Seq(Datagrams)
<2>1. /\ pc \in [Threads -> {"idle", "send", "wait", "read", "fail", "next"}]
      /\ toServer \in Seq(Datagrams)
  BY DEF Types, TypeOK
<2>2. /\ UNCHANGED <<request, foreign, handles, objects, broken>>
  BY DEF Send, serverVars
<2>3. Replies' = Replies
  BY DEF Send, Replies
<2>4. CASE Send(t)
<3>1. pc[t] = "send" /\ \E next \in {"wait", "fail"} : pc' = [pc EXCEPT ![t] = next]
  BY <2>4 DEF Send
<3>2. QED BY ONLY <2>1, <2>2, <2>3, <3>1
<2>5. CASE Sent(t) /\ Sent(t)' /\ pc' = [pc EXCEPT ![t] = pc'[t]]
  BY ONLY <2>1, <2>2, <2>3, <2>5 DEF Sent
<2>6. QED BY <2>4, <2>5
<1>2. /\ Holdings /\ Holdings'
      /\ EnvOwned' = EnvOwned
<2>1. Holdings /\ Holdings'
  BY ThreadsOwn, ThreadsOwnNext
<2>2. request' = request
  BY <1>1
<2>3. QED BY <2>1, <2>2 DEF EnvOwned, Closed
<1>3. CASE Send(t)
<2>1. /\ t \in Busy /\ pc[t] = "send"
      /\ toServer' = Append(toServer, Datagram(t)) /\ pc'[t] = "wait"
  BY <1>1, <1>3 DEF Send, Busy
<2>2. /\ Datagram(t) \in Datagrams /\ Datagram(t).n = request[t].n /\ Datagram(t).tid = Tid[t]
      /\ Datagram(t).action = request[t].action /\ Datagram(t).uses = request[t].uses
  BY <2>1, DatagramShape
<2>3. Range(toServer') = Range(toServer) \cup {Datagram(t)}
  BY <1>1, <2>1, <2>2, Pushed
<2>4. Owned(t)' = Owned(t)
<3>1. Owned(t) = IF request[t].action \in {"release", "close"} THEN request[t].uses ELSE {}
  BY <1>1, <1>2, <2>1 DEF Holdings
<3>2. \A q \in Range(toServer') : q.tid = Tid[t] =>
         Owned(t)' = IF q.action \in {"release", "close"} THEN q.uses ELSE {}
  BY <1>1, <1>2 DEF Holdings
<3>3. QED BY <2>2, <2>3, <3>1, <3>2
<2>5. ASSUME NEW u \in Threads \ {t} PROVE Owned(u)' = Owned(u)
<3>1. request[u].n # request[t].n
  BY <2>1 DEF CallInv, NumbersDiffer
<3>2. QED BY <1>1, <2>2, <2>3, <3>1, OthersOwn
<2>6. QED BY <1>1, <1>2, <2>4, <2>5, HandedOver DEF OneOwner
<1>4. CASE UNCHANGED toServer /\ Sent(t) /\ Sent(t)'
<2>1. ASSUME NEW u \in Threads \ {t} PROVE Owned(u)' = Owned(u)
  BY <1>1, <1>4, OthersOwn
<2>2. Owned(t)' = Owned(t)
<3>1. Promised(t)' = Promised(t)
  BY <1>1 DEF Promised
<3>2. (Removal(t)' <=> Removal(t)) /\ ~Temporary(t) /\ ~Temporary(t)'
  BY <1>1, <1>4 DEF Removal, Temporary, Sent
<3>3. QED BY <1>1, <3>1, <3>2 DEF Owned
<2>3. QED BY <1>1, <1>2, <2>1, <2>2, HandedOver DEF OneOwner
<1>5. QED BY <1>3, <1>4

\* What transact() returns: the caller's handle, the object of a temporary one, or nothing.
LEMMA ReturnKeepsOwners ==
    ASSUME Types, CallInv, Types', CallInv', ObjectInv, NEW t \in Threads, NEW reply \in Replies,
           Return(t, reply), reply.tid = Tid[t], Sent(t),
           Replies' = {r \in Replies : r.tid # Tid[t]},
           UNCHANGED <<request, serverVars, toServer, broken>>
    PROVE  OneOwner'
<1> SUFFICES ASSUME ~broken' PROVE OneOwner'
  BY DEF OneOwner
<1>1. /\ UNCHANGED <<request, objects, toServer, broken>> /\ OneOwner
      /\ pc' = [pc EXCEPT ![t] = pc'[t]] /\ foreign' = [foreign EXCEPT ![t] = foreign'[t]]
      /\ pc \in [Threads -> {"idle", "send", "wait", "read", "fail", "next"}]
      /\ foreign \in [Threads -> SUBSET Nat] /\ pc'[t] \in {"idle", "next"}
      /\ handles' \in {handles, handles \cup reply.ids}
  BY Returned DEF serverVars, Types, TypeOK, ObjectInv
<1>2. Holdings /\ Holdings' /\ EnvOwned' = EnvOwned
  BY <1>1, ThreadsOwn, ThreadsOwnNext DEF EnvOwned, Closed
<1>3. Owned(t) = reply.ids
  BY <1>1, <1>2 DEF Holdings
<1>4. handles' \cup Owned(t)' = handles \cup reply.ids /\ handles' \cap Owned(t)' = {}
<2>1. /\ request[t].action \in Actions /\ request[t].action # "none"
      /\ (reply.ids # {}) = (reply.result = "handleID")
      /\ request[t].action \in {"release", "close"} => reply.result = "result"
<3>1. request[t] \in Requests /\ (reply.ids # {}) = (reply.result = "handleID")
  BY DEF Types, TypeOK
<3>2. request[t].action # "none"
  BY DEF CallInv, NumbersDiffer, Busy, Sent
<3>3. PICK u \in Threads : /\ Tid[u] = reply.tid
                           /\ request[u].action \in {"release", "close"} => reply.result = "result"
  BY DEF CallInv, RepliesHaveCallers
<3>4. u = t
  BY <3>3, ThreadIds
<3>5. QED BY <3>1, <3>2, <3>3, <3>4 DEF Requests
<2>2. /\ request[t].action = "make" => foreign[t] \subseteq handles
      /\ request[t].action \in {"query", "close"} => foreign[t] = {}
  BY DEF ObjectInv, HandlesInUse, Sent
<2>3. reply.ids \cap handles = {}
  BY <1>1, <1>3 DEF OneOwner
<2>4. pc'[t] = "idle" => Owned(t)' = {}
  BY <1>1, <1>2 DEF Holdings
<2>5. pc'[t] = "next" => Owned(t)' = IF request[t].action = "make" THEN foreign'[t] \ handles' ELSE {}
  BY <1>1, <1>2 DEF Holdings
<2>6. CASE foreign[t] = {} \/ request[t].action = "call"
<3>1. pc'[t] = "idle" /\ handles' = handles \cup reply.ids
  BY <1>1, <2>6 DEF Return
<3>2. QED BY <2>4, <3>1
<2>7. CASE foreign[t] # {} /\ request[t].action # "call" /\ reply.result = "errorMsg"
<3>1. handles' = handles /\ reply.ids = {} /\ request[t].action = "make"
  BY <2>1, <2>2, <2>7 DEF Return, Throw, Actions
<3>2. pc'[t] = "idle"
  BY <1>1, <2>7, <3>1 DEF Return, Throw
<3>3. QED BY <2>4, <3>1, <3>2
<2>8. CASE foreign[t] # {} /\ request[t].action # "call" /\ reply.result # "errorMsg"
<3>1. handles' = handles /\ pc'[t] = "next" /\ foreign'[t] = foreign[t] \cup reply.ids
  BY <1>1, <2>8 DEF Return
<3>2. CASE request[t].action = "make"
  BY <2>2, <2>3, <2>5, <3>1, <3>2
<3>3. CASE request[t].action = "release"
  BY <2>1, <2>5, <3>1, <3>3
<3>4. QED BY <2>1, <2>2, <2>8, <3>2, <3>3 DEF Actions
<2>9. QED BY <2>6, <2>7, <2>8
<1>5. ASSUME NEW u \in Threads \ {t} PROVE Owned(u)' = Owned(u)
<2>1. /\ pc'[u] = pc[u] /\ request'[u] = request[u] /\ foreign'[u] = foreign[u]
      /\ Tid[u] # Tid[t]
  BY <1>1, ThreadIds
<2>2. Temporary(u) => foreign[u] \ handles' = foreign[u] \ handles
<3>1. Temporary(u) => foreign[u] \ handles \subseteq Owned(u)
  BY DEF Owned
<3>2. Owned(u) \cap reply.ids = {}
  BY <1>1, <1>3 DEF OneOwner
<3>3. QED BY <1>1, <3>1, <3>2
<2>3. QED BY <1>1, <2>1, <2>2, OthersOwn
<1>6. handles' \cap EnvOwned' = {} /\ Owned(t)' \cap EnvOwned' = {}
  BY <1>1, <1>2, <1>3, <1>4 DEF OneOwner
<1>7. QED BY <1>1, <1>2, <1>3, <1>4, <1>5, <1>6, HandedOver

\* The request that the server takes is its thread's; the answer is new.
LEMMA Served ==
    ASSUME Types, CallInv, Serve, ~broken
    PROVE  \E t \in Threads, reply \in Answers(Head(toServer)) :
              LET q == Head(toServer)
              IN  /\ Sent(t) /\ q = Datagram(t) /\ q \in Range(toServer) /\ q.tid = Tid[t] /\ q.n = request[t].n
                  /\ q.action = request[t].action /\ q.uses = request[t].uses
                  /\ q \in Datagrams /\ toServer' = Tail(toServer)
                  /\ Range(toServer) = {q} \cup Range(toServer')
                  /\ objects' = (objects \ Removed(q)) \cup reply.ids
                  /\ Replies' = Replies \cup {reply}
                  /\ UNCHANGED <<clientVars, broken>>
<1> DEFINE q == Head(toServer)
<1>1. /\ toServer # <<>> /\ toServer' = Tail(toServer) /\ UNCHANGED <<clientVars, broken>>
      /\ toServer \in Seq(Datagrams) /\ toClient \in Seq(ReplyDatagrams)
  BY DEF Serve, Types
<1>2. q \in Range(toServer) /\ q \in Datagrams /\ Range(toServer) = {q} \cup Range(toServer')
  BY <1>1, Popped
<1>3. PICK t \in Threads : Sent(t) /\ q = Datagram(t)
  BY <1>2 DEF CallInv, RequestsHaveCallers
<1>4. /\ q.tid = Tid[t] /\ q.n = request[t].n
      /\ q.action = request[t].action /\ q.uses = request[t].uses
  BY <1>3, DatagramShape DEF Sent, Busy
<1>5. PICK reply \in Answers(q) :
         /\ objects' = (objects \ Removed(q)) \cup reply.ids
         /\ toClient' = Append(toClient, reply)
  BY DEF Serve
<1>6. reply \in ReplyDatagrams
  BY <1>2, AnswerShape
<1>7. Replies' = Replies \cup {reply}
  BY <1>1, <1>5, <1>6, Pushed DEF Replies, clientVars
<1>8. QED BY <1>1, <1>2, <1>3, <1>4, <1>5, <1>7

\* The server gives up what a release names, and what it makes has a new id.
LEMMA ServeKeepsOwners ==
    ASSUME Types, CallInv, Types', CallInv', OneOwner, Serve
    PROVE  OneOwner'
<1> SUFFICES ASSUME ~broken' PROVE OneOwner'
  BY DEF OneOwner
<1> DEFINE q == Head(toServer)
<1>1. ~broken
  BY DEF Serve
<1>2. PICK t \in Threads, reply \in Answers(q) :
         /\ Sent(t) /\ q \in Range(toServer) /\ q.tid = Tid[t] /\ q.n = request[t].n
         /\ q.action = request[t].action /\ q.uses = request[t].uses
         /\ q \in Datagrams /\ Range(toServer) = {q} \cup Range(toServer')
         /\ objects' = (objects \ Removed(q)) \cup reply.ids
         /\ Replies' = Replies \cup {reply}
         /\ UNCHANGED <<clientVars, broken>>
  BY <1>1, Served
<1>3. /\ reply.tid = Tid[t]
      /\ reply.ids = {} \/ (reply.ids = {lastId + 1} /\ q.action \in {"make", "call"})
      /\ q.action \in {"release", "close"} => reply.ids = {}
  BY <1>2, AnswerShape
<1>4. /\ Owned(t) = IF q.action \in {"release", "close"} THEN q.uses ELSE {}
      /\ Owned(t)' = reply.ids
  BY <1>1, <1>2, <1>3, ThreadsOwn, ThreadsOwnNext DEF Holdings
<1>5. objects' = (objects \ Owned(t)) \cup Owned(t)'
  BY <1>2, <1>4 DEF Removed
<1>6. Owned(t)' \cap objects = {}
<2>1. lastId \in Nat
  BY DEF Types
<2>2. objects \subseteq 1..lastId
  BY DEF Types, TypeOK
<2>3. lastId + 1 \notin 1..lastId
  BY <2>1
<2>4. QED BY <1>3, <1>4, <2>2, <2>3
<1>7. handles' = handles /\ EnvOwned' = EnvOwned
  BY <1>2 DEF clientVars, EnvOwned, Closed
<1>8. ASSUME NEW u \in Threads \ {t} PROVE Owned(u)' = Owned(u)
<2>1. request[u].n # request[t].n /\ Tid[u] # Tid[t]
  BY <1>2, ThreadIds DEF CallInv, NumbersDiffer, Busy, Sent
<2>2. /\ pc'[u] = pc[u] /\ request'[u] = request[u] /\ foreign'[u] = foreign[u]
      /\ handles' = handles
  BY <1>2 DEF clientVars
<2>3. QED BY <1>2, <1>3, <2>1, <2>2, OthersOwn
<1>9. /\ objects = handles \cup ThreadsOwned \cup EnvOwned
      /\ handles \cap EnvOwned = {}
      /\ \A u \in Threads : Owned(u) \cap handles = {} /\ Owned(u) \cap EnvOwned = {}
      /\ \A s, u \in Threads : s # u => Owned(s) \cap Owned(u) = {}
  BY <1>1 DEF OneOwner
<1>10. /\ \A id : id \in ThreadsOwned <=> \E u \in Threads : id \in Owned(u)
       /\ \A id : id \in ThreadsOwned' <=> \E u \in Threads : id \in Owned(u)'
  BY DEF ThreadsOwned
<1>11. ASSUME NEW id PROVE id \in objects' <=> id \in handles' \cup EnvOwned' \cup ThreadsOwned'
  BY <1>5, <1>7, <1>8, <1>9, <1>10
<1>12. \A u \in Threads : Owned(u)' \cap handles' = {} /\ Owned(u)' \cap EnvOwned' = {}
  BY <1>6, <1>7, <1>8, <1>9
<1>13. \A u \in Threads \ {t} : Owned(u)' \cap Owned(t)' = {}
  BY <1>6, <1>8, <1>9, <1>10
<1>14. \A s, u \in Threads : s # u => Owned(s)' \cap Owned(u)' = {}
  BY <1>8, <1>9, <1>13
<1>15. QED BY <1>7, <1>9, <1>11, <1>12, <1>14 DEF OneOwner

\* What a request uses is still there when the thread asks, and while others do.
LEMMA CallersKeepHandles ==
    ASSUME Types, CallInv, ObjectInv, NEW t \in Threads, Begin(t) \/ Continue(t) \/ Close(t)
    PROVE  HandlesInUse' /\ ClosedLast' /\ ForeignOnly'
<1>1. /\ pc[t] \in {"idle", "next"}
      /\ foreign' = [foreign EXCEPT ![t] = foreign'[t]]
      /\ handles' \subseteq handles
      /\ UNCHANGED <<isMutex, tidToReply, connectionActive, serverVars, stream>>
      /\ pc' = [pc EXCEPT ![t] = pc'[t]] /\ pc'[t] = IF connectionActive THEN "send" ELSE "idle"
      /\ request' = [request EXCEPT ![t] = request'[t]]
<2>1. /\ request \in [Threads -> Requests]
      /\ pc \in [Threads -> {"idle", "send", "wait", "read", "fail", "next"}]
  BY DEF Types, TypeOK
<2>2. PICK action, uses : Ask(t, action, uses)
  BY CallersAsk
<2>3. /\ pc' = [pc EXCEPT ![t] = pc'[t]] /\ pc'[t] = IF connectionActive THEN "send" ELSE "idle"
      /\ request' = [request EXCEPT ![t] = request'[t]]
  BY <2>1, <2>2 DEF Ask
<2>4. QED BY <2>3, CallersAsk
<1>2. /\ request \in [Threads -> Requests] /\ foreign \in [Threads -> SUBSET Nat]
      /\ pc \in [Threads -> {"idle", "send", "wait", "read", "fail", "next"}]
      /\ Replies' = Replies
  BY <1>1 DEF Types, TypeOK, stream, Replies
<1>3. \A u \in Threads \ {t} : pc'[u] = pc[u] /\ request'[u] = request[u] /\ foreign'[u] = foreign[u]
  BY <1>1, <1>2
<1>4. \A u \in Threads \ {t} : pc[u] \in {"send", "wait", "read"} =>
         /\ foreign[u] \subseteq handles => foreign[u] \subseteq handles'
         /\ request[u].uses \subseteq handles => request[u].uses \subseteq handles'
<2>1. CASE UNCHANGED handles
  BY <2>1
<2>2. ASSUME NEW h \in handles \ InUse, handles' = handles \ {h}
      PROVE  \A u \in Busy : h \notin foreign[u] /\ h \notin request[u].uses
  BY DEF InUse
<2>3. UNCHANGED handles \/ \E h \in handles \ InUse : handles' = handles \ {h}
  BY DEF Begin, Continue, Close
<2>4. QED BY <2>1, <2>2, <2>3 DEF Busy
<1>5. /\ pc'[t] = "idle" => foreign'[t] = {}
      /\ pc'[t] = "send" =>
            /\ request'[t].action = "make" => foreign'[t] \subseteq handles' /\ request'[t].uses = {EnvId}
            /\ request'[t].action \in {"query", "close"} => foreign'[t] = {}
            /\ request'[t].action \in {"call", "query"} /\ foreign'[t] = {} => request'[t].uses \subseteq handles'
<2>1. pc[t] = "idle" => foreign[t] = {}
  BY DEF ObjectInv, HandlesInUse
<2>2. \A action, uses : Ask(t, action, uses) => request'[t].action = action /\ request'[t].uses = uses
  BY <1>2 DEF Ask
<2>3. CASE Begin(t)
<3>1. pc[t] = "idle" /\ foreign[t] = {}
  BY <2>1, <2>3 DEF Begin
<3>2. CASE Ask(t, "make", {EnvId}) /\ UNCHANGED <<handles, foreign>>
  BY <2>2, <3>1, <3>2
<3>3. ASSUME NEW h \in handles, NEW arg \in handles, NEW action \in {"call", "query"},
             Ask(t, action, {h, arg}), UNCHANGED <<handles, foreign>>
      PROVE  foreign'[t] = {} /\ request'[t].action \in {"call", "query"} /\ request'[t].uses \subseteq handles'
  BY <2>2, <3>1, <3>3
<3>4. ASSUME NEW h \in handles, Ask(t, "release", {h}), UNCHANGED foreign
      PROVE  foreign'[t] = {} /\ request'[t].action = "release"
  BY <2>2, <3>1, <3>4
<3>5. ASSUME NEW h \in handles, Ask(t, "make", {EnvId}), UNCHANGED handles,
             foreign' = [foreign EXCEPT ![t] = IF connectionActive THEN {h} ELSE {}]
      PROVE  /\ request'[t].action = "make" /\ request'[t].uses = {EnvId} /\ foreign'[t] \subseteq handles'
             /\ pc'[t] = "idle" => foreign'[t] = {}
  BY <1>1, <1>2, <2>2, <3>5
<3>6. QED BY <2>3, <3>2, <3>3, <3>4, <3>5 DEF Begin
<2>4. CASE Continue(t)
<3>1. foreign'[t] = IF connectionActive THEN foreign[t] ELSE {}
  BY <1>2, <2>4 DEF Continue
<3>2. \/ request'[t].action = "release"
      \/ request'[t].action = "call" /\ request'[t].uses = foreign[t]
  BY <2>2, <2>4 DEF Continue
<3>3. QED BY <1>1, <3>1, <3>2
<2>5. CASE Close(t)
<3>1. /\ pc[t] = "idle" /\ foreign'[t] = {} /\ request'[t].action = "close"
  BY <2>1, <2>2, <2>5 DEF Close, Busy
<3>2. QED BY <3>1
<2>6. QED BY <2>3, <2>4, <2>5
<1>6. HandlesInUse'
<2>1. ASSUME NEW u \in Threads
      PROVE  /\ pc'[u] = "idle" => foreign'[u] = {}
             /\ pc'[u] = "next" => request'[u].action # "close"
             /\ pc'[u] \in {"send", "wait", "read"} =>
                   /\ request'[u].action = "make" => foreign'[u] \subseteq handles' /\ request'[u].uses = {EnvId}
                   /\ request'[u].action \in {"query", "close"} => foreign'[u] = {}
                   /\ request'[u].action \in {"call", "query"} /\ foreign'[u] = {} =>
                         request'[u].uses \subseteq handles'
<3>1. CASE u = t
  BY <1>1, <1>5, <3>1
<3>2. CASE u # t
  BY <1>3, <1>4, <3>2 DEF ObjectInv, HandlesInUse
<3>3. QED BY <3>1, <3>2
<2>2. QED BY <2>1 DEF HandlesInUse
<1>7. ClosedLast'
<2>1. CASE Close(t)
<3>1. request'[t].action = "close" /\ \A u \in Threads \ {t} : pc'[u] = "idle"
  BY <1>2, <1>3, <2>1 DEF Close, Busy, Ask
<3>2. QED BY <3>1 DEF ClosedLast
<2>2. CASE ~Close(t)
<3>1. ~Closed
  BY <2>2 DEF Begin, Continue, ObjectInv, ClosedLast, HandlesInUse
<3>2. request'[t].action # "close"
  BY <1>2, <2>2 DEF Begin, Continue, Ask
<3>3. QED BY <1>3, <3>1, <3>2 DEF Closed, ClosedLast
<2>3. QED BY <2>1, <2>2
<1>8. ForeignOnly'
<2>1. ASSUME NEW reply \in Replies, reply.result = "no object"
      PROVE  \E u \in Threads : reply.tid = Tid[u] /\ foreign'[u] # {}
<3>1. PICK u \in Threads : reply.tid = Tid[u] /\ foreign[u] # {}
  BY <2>1 DEF ObjectInv, ForeignOnly
<3>2. Sent(u)
  BY <3>1, ThreadIds DEF CallInv, RepliesHaveCallers
<3>3. u # t
  BY <1>1, <3>2 DEF Sent
<3>4. QED BY <1>3, <3>1, <3>3
<2>2. QED BY <1>2, <2>1 DEF ForeignOnly
<1>9. QED BY <1>6, <1>7, <1>8

\* In transact() a thread's handles stay in the client; it leaves with none in use.
LEMMA InsideKeepsHandles ==
    ASSUME Types, CallInv, ObjectInv, NEW t \in Threads, pc[t] # "idle",
           pc' = [pc EXCEPT ![t] = pc'[t]], foreign' = [foreign EXCEPT ![t] = foreign'[t]],
           request' = request, handles \subseteq handles', Replies' \subseteq Replies,
           pc'[t] = "idle" => foreign'[t] = {},
           pc'[t] = "next" => request[t].action # "close",
           pc'[t] \in {"send", "wait", "read"} => pc[t] \in {"send", "wait", "read"} /\ foreign'[t] = foreign[t],
           foreign'[t] = foreign[t] \/ \A reply \in Replies' : reply.tid # Tid[t]
    PROVE  HandlesInUse' /\ ClosedLast' /\ ForeignOnly'
<1>1. /\ foreign \in [Threads -> SUBSET Nat]
      /\ pc \in [Threads -> {"idle", "send", "wait", "read", "fail", "next"}]
  BY DEF Types, TypeOK
<1>2. \A u \in Threads \ {t} : pc'[u] = pc[u] /\ foreign'[u] = foreign[u]
  BY <1>1
<1>3. HandlesInUse'
<2>1. ASSUME NEW u \in Threads
      PROVE  /\ pc'[u] = "idle" => foreign'[u] = {}
             /\ pc'[u] = "next" => request[u].action # "close"
             /\ pc'[u] \in {"send", "wait", "read"} =>
                   /\ request[u].action = "make" => foreign'[u] \subseteq handles' /\ request[u].uses = {EnvId}
                   /\ request[u].action \in {"query", "close"} => foreign'[u] = {}
                   /\ request[u].action \in {"call", "query"} /\ foreign'[u] = {} =>
                         request[u].uses \subseteq handles'
  BY <1>2 DEF ObjectInv, HandlesInUse
<2>2. QED BY <2>1 DEF HandlesInUse
<1>4. ClosedLast'
  BY <1>2 DEF ObjectInv, ClosedLast, Closed
<1>5. ForeignOnly'
<2>1. ASSUME NEW reply \in Replies', reply.result = "no object"
      PROVE  \E u \in Threads : reply.tid = Tid[u] /\ foreign'[u] # {}
<3>1. PICK u \in Threads : reply.tid = Tid[u] /\ foreign[u] # {}
  BY <2>1 DEF ObjectInv, ForeignOnly
<3>2. QED BY <1>2, <2>1, <3>1
<2>2. QED BY <2>1 DEF ForeignOnly
<1>6. QED BY <1>3, <1>4, <1>5

\* The caller keeps its handle, or goes on with the conversion.
LEMMA ReturnKeepsObjects ==
    ASSUME Types, CallInv, Types', CallInv', ObjectInv, NEW t \in Threads, NEW reply \in Replies,
           Return(t, reply), reply.tid = Tid[t], Sent(t),
           Replies' = {r \in Replies : r.tid # Tid[t]},
           UNCHANGED <<request, serverVars, toServer, broken>>
    PROVE  ObjectInv'
<1>1. OneOwner'
  BY ReturnKeepsOwners
<1>2. /\ pc' = [pc EXCEPT ![t] = pc'[t]] /\ pc'[t] \in {"idle", "next"}
      /\ foreign' = [foreign EXCEPT ![t] = foreign'[t]]
      /\ handles \subseteq handles' /\ pc[t] # "idle"
  BY Returned DEF Sent
<1>3. /\ pc'[t] = "idle" => foreign'[t] = {}
      /\ pc'[t] = "next" => foreign[t] # {}
<2>1. /\ foreign \in [Threads -> SUBSET Nat]
      /\ pc \in [Threads -> {"idle", "send", "wait", "read", "fail", "next"}]
  BY DEF Types, TypeOK
<2>2. QED BY <2>1 DEF Return, Throw
<1>4. pc'[t] = "next" => request[t].action # "close"
  BY <1>3 DEF ObjectInv, HandlesInUse, Sent
<1>5. HandlesInUse' /\ ClosedLast' /\ ForeignOnly'
  BY <1>2, <1>3, <1>4, InsideKeepsHandles
<1>6. QED BY <1>1, <1>5 DEF ObjectInv

\* A call on handles of this environment finds their objects.
LEMMA ServeKeepsObjects ==
    ASSUME Types, CallInv, Types', CallInv', ObjectInv, Serve
    PROVE  ObjectInv'
<1>1. UNCHANGED clientVars
  BY DEF Serve
<1>2. OneOwner'
  BY ServeKeepsOwners DEF ObjectInv
<1>3. HandlesInUse' /\ ClosedLast'
  BY <1>1 DEF ObjectInv, HandlesInUse, ClosedLast, Closed, clientVars
<1>4. ForeignOnly'
<2>1. CASE broken
<3>1. Replies' = Replies
  BY <1>1, <2>1 DEF Serve, Replies, clientVars
<3>2. QED BY <1>1, <3>1 DEF ObjectInv, ForeignOnly, clientVars
<2>2. CASE ~broken
<3> DEFINE q == Head(toServer)
<3>1. PICK t \in Threads, reply \in Answers(q) :
         /\ Sent(t) /\ q.tid = Tid[t] /\ q \in Datagrams
         /\ q.action = request[t].action /\ q.uses = request[t].uses
         /\ Replies' = Replies \cup {reply}
  BY <2>2, Served
<3>2. /\ reply.tid = Tid[t]
      /\ reply.result = "no object" => ~(q.uses \subseteq objects) /\ q.action \in {"make", "call", "query"}
  BY <3>1, AnswerShape
<3>3. handles \subseteq objects /\ (~Closed => EnvId \in objects)
  BY <2>2 DEF ObjectInv, OneOwner, EnvOwned
<3>4. reply.result = "no object" => foreign[t] # {}
<4>1. SUFFICES ASSUME q.action \in {"make", "call", "query"}, foreign[t] = {}
               PROVE  q.uses \subseteq objects
  BY <3>2
<4>2. CASE q.action = "make"
<5>1. ~Closed
  BY <3>1, <4>2 DEF ObjectInv, ClosedLast, Sent
<5>2. q.uses = {EnvId}
  BY <3>1, <4>2 DEF ObjectInv, HandlesInUse, Sent
<5>3. QED BY <3>3, <5>1, <5>2
<4>3. CASE q.action \in {"call", "query"}
<5>1. q.uses \subseteq handles
  BY <3>1, <4>1, <4>3 DEF ObjectInv, HandlesInUse, Sent
<5>2. QED BY <3>3, <5>1
<4>4. QED BY <4>1, <4>2, <4>3
<3>5. QED BY <1>1, <3>1, <3>2, <3>4 DEF ObjectInv, ForeignOnly, clientVars
<2>3. QED BY <2>1, <2>2
<1>5. QED BY <1>2, <1>3, <1>4 DEF ObjectInv

\* The environment's object is the only one, and the environment answers for it.
LEMMA InitObjects == Init => ObjectInv
<1> SUFFICES ASSUME Init PROVE ObjectInv
  OBVIOUS
<1>1. /\ Replies = {} /\ Range(toServer) = {}
  BY DEF Init, Range, Replies
<1>2. \A t \in Threads : Owned(t) = {}
  BY <1>1, OwnedWays DEF Init, Removal, Temporary
<1>3. ThreadsOwned = {} /\ EnvOwned = {EnvId}
  BY <1>2 DEF Init, ThreadsOwned, EnvOwned, Closed
<1>4. OneOwner
  BY <1>2, <1>3 DEF Init, OneOwner
<1>5. HandlesInUse /\ ClosedLast /\ ForeignOnly
  BY <1>1 DEF Init, HandlesInUse, ClosedLast, Closed, ForeignOnly
<1>6. QED BY <1>4, <1>5 DEF ObjectInv

\* Every step of a client, of the server or of the connection keeps the owners.
LEMMA StepObjects == Types /\ CallInv /\ ObjectInv /\ [Next]_vars => ObjectInv'
<1> SUFFICES ASSUME Types, CallInv, ObjectInv, [Next]_vars PROVE ObjectInv'
  OBVIOUS
<1>1. Types' /\ CallInv'
  BY StepCalls
<1>2. ASSUME NEW t \in Threads, Begin(t) \/ Close(t) \/ Continue(t) PROVE ObjectInv'
  BY <1>1, <1>2, CallersKeepOwners, CallersKeepHandles DEF ObjectInv
<1>3. ASSUME NEW t \in Threads, Sent(t), Sent(t)', Replies' = Replies, pc' = [pc EXCEPT ![t] = pc'[t]],
             UNCHANGED <<request, foreign, handles, serverVars, toServer, broken>>
      PROVE  ObjectInv'
<2>1. OneOwner'
  BY <1>1, <1>3, UnderWayKeepsOwners DEF ObjectInv
<2>2. HandlesInUse' /\ ClosedLast' /\ ForeignOnly'
  BY <1>3, InsideKeepsHandles DEF Sent, Types
<2>3. QED BY <2>1, <2>2 DEF ObjectInv
<1>4. ASSUME NEW t \in Threads, Send(t) PROVE ObjectInv'
<2>1. OneOwner'
  BY <1>1, <1>4, UnderWayKeepsOwners DEF ObjectInv
<2>2. /\ pc[t] = "send" /\ pc' = [pc EXCEPT ![t] = pc'[t]] /\ pc'[t] \in {"wait", "fail"}
      /\ UNCHANGED <<request, foreign, handles>> /\ Replies' = Replies
  BY <1>4 DEF Send, Types, TypeOK, Replies
<2>3. HandlesInUse' /\ ClosedLast' /\ ForeignOnly'
  BY <2>2, InsideKeepsHandles DEF Types
<2>4. QED BY <2>1, <2>3 DEF ObjectInv
<1>5. ASSUME NEW t \in Threads, SendFailed(t) \/ ReadFails(t) PROVE ObjectInv'
<2>1. /\ broken /\ Replies' \subseteq Replies /\ \A r \in Replies : r.tid # Tid[t]
      /\ pc[t] \in {"read", "fail"}
      /\ pc' = [pc EXCEPT ![t] = pc'[t]] /\ pc'[t] \in {"idle", "next"}
  BY <1>5, FailKeepsCalls
<2>2. /\ foreign' = [foreign EXCEPT ![t] = foreign'[t]] /\ UNCHANGED <<request, handles, broken>>
      /\ pc'[t] = "idle" => foreign'[t] = {}
      /\ pc'[t] = "next" => request[t].action = "release"
<3>1. /\ foreign \in [Threads -> SUBSET Nat]
      /\ pc \in [Threads -> {"idle", "send", "wait", "read", "fail", "next"}]
  BY DEF Types, TypeOK
<3>2. QED BY <1>5, <3>1 DEF SendFailed, ReadFails, Throw, stream
<2>3. HandlesInUse' /\ ClosedLast' /\ ForeignOnly'
  BY <2>1, <2>2, InsideKeepsHandles
<2>4. QED BY <2>1, <2>2, <2>3 DEF ObjectInv, OneOwner
<1>6. ASSUME NEW t \in Threads, LockInput(t) PROVE ObjectInv'
<2>1. /\ pc[t] = "wait" /\ isMutex = None
      /\ UNCHANGED <<request, connectionActive, lastN, serverVars, toServer, toClient, broken>>
  BY <1>6 DEF LockInput, stream
<2>2. CASE Tid[t] \in DOMAIN tidToReply
<3>1. /\ Return(t, tidToReply[Tid[t]]) /\ tidToReply' = Uncached(t) /\ UNCHANGED isMutex
  BY <1>6, <2>2 DEF LockInput
<3>2. tidToReply[Tid[t]] \in Replies /\ tidToReply[Tid[t]].tid = Tid[t]
  BY <2>2, CachedByTid
<3>3. Replies' = {r \in Replies : r.tid # Tid[t]}
  BY <2>1, <2>2, <3>1, <3>2, ReturnKeepsCalls
<3>4. QED BY <1>1, <2>1, <3>1, <3>2, <3>3, ReturnKeepsObjects DEF Sent
<2>3. CASE Tid[t] \notin DOMAIN tidToReply
<3>1. /\ pc' = [pc EXCEPT ![t] = "read"] /\ UNCHANGED <<foreign, handles, tidToReply>>
      /\ pc \in [Threads -> {"idle", "send", "wait", "read", "fail", "next"}]
  BY <1>6, <2>3 DEF LockInput, Types, TypeOK
<3>2. Replies' = Replies
  BY <2>1, <3>1 DEF Replies
<3>3. QED BY <1>3, <2>1, <3>1, <3>2 DEF Sent
<2>4. QED BY <2>2, <2>3
<1>7. ASSUME NEW t \in Threads, Read(t) PROVE ObjectInv'
<2>1. /\ pc[t] = "read" /\ toClient # <<>> /\ toClient' = Tail(toClient) /\ isMutex' = None
      /\ UNCHANGED <<request, connectionActive, lastN, serverVars, toServer, broken>>
  BY <1>7 DEF Read
<2>2. Head(toClient) \in Replies
  BY <2>1, Popped DEF Types, Replies
<2>3. CASE Head(toClient).tid = Tid[t]
<3>1. Return(t, Head(toClient)) /\ UNCHANGED tidToReply
  BY <1>7, <2>3 DEF Read
<3>2. Replies' = {r \in Replies : r.tid # Tid[t]}
  BY <2>1, <2>2, <2>3, <3>1, ReturnKeepsCalls
<3>3. QED BY <1>1, <2>1, <2>2, <2>3, <3>1, <3>2, ReturnKeepsObjects DEF Sent
<2>4. CASE Head(toClient).tid # Tid[t]
<3>1. /\ tidToReply' = Cached(Head(toClient)) /\ pc' = [pc EXCEPT ![t] = "wait"]
      /\ UNCHANGED <<foreign, handles>>
      /\ pc \in [Threads -> {"idle", "send", "wait", "read", "fail", "next"}]
  BY <1>7, <2>4 DEF Read, Types, TypeOK
<3>2. Replies' = Replies
  BY <2>1, <2>4, <3>1, ReadingKeepsCalls
<3>3. QED BY <1>3, <2>1, <3>1, <3>2 DEF Sent
<2>5. QED BY <2>3, <2>4
<1>8. CASE Serve
  BY <1>1, <1>8, ServeKeepsObjects
<1>9. CASE Break
<2>1. UNCHANGED clientVars /\ broken'
  BY <1>9 DEF Break
<2>2. Replies' \subseteq Replies
<3>1. PICK k \in 0..Len(toClient) : toClient' = SubSeq(toClient, 1, k)
  BY <1>9 DEF Break
<3>2. QED BY <2>1, <3>1, CutOff DEF Types, Replies, clientVars
<2>3. QED BY <2>1, <2>2 DEF ObjectInv, OneOwner, HandlesInUse, ClosedLast, Closed, ForeignOnly, clientVars
<1>10. CASE HangUp \/ Finished \/ UNCHANGED vars
<2>1. UNCHANGED <<clientVars, stream, objects, lastId>> /\ Replies' = Replies
  BY <1>10 DEF HangUp, Finished, vars, serverVars, stream, clientVars, Replies
<2>2. \A t \in Threads : Owned(t)' = Owned(t)
  BY <2>1 DEF Owned, Promised, Removal, Temporary, clientVars, stream
<2>3. ThreadsOwned' = ThreadsOwned /\ EnvOwned' = EnvOwned
  BY <2>1, <2>2 DEF ThreadsOwned, EnvOwned, Closed, clientVars
<2>4. OneOwner'
  BY <2>1, <2>2, <2>3 DEF ObjectInv, OneOwner, clientVars, stream
<2>5. HandlesInUse' /\ ClosedLast' /\ ForeignOnly'
  BY <2>1 DEF ObjectInv, HandlesInUse, ClosedLast, Closed, ForeignOnly, clientVars
<2>6. QED BY <2>4, <2>5 DEF ObjectInv
<1>11. QED BY <1>2, <1>4, <1>5, <1>6, <1>7, <1>8, <1>9, <1>10 DEF Next, Transact

\* No object has two owners, and a request finds the handles it uses.
THEOREM AlwaysObjects == Spec => []ObjectInv
  BY AlwaysCalls, InitObjects, StepObjects, PTL DEF Spec

\* For any number of threads: while the connection lives the server keeps the
\* objects of the client's handles and of the requests and replies under way, and
\* nothing else; only a converted argument can name an object that is gone.
THEOREM NoObjectLeaks == Spec => []ObjectsMatchHandles
<1>1. ASSUME Types, CallInv, ObjectInv PROVE ObjectsMatchHandles
<2> DEFINE removals == {t \in Threads : request[t].action \in {"release", "close"}
                            /\ (pc[t] = "send" \/ \E q \in Range(toServer) : q.n = request[t].n)}
           temporary(t) == IF pc[t] = "next" /\ request[t].action = "make" THEN foreign[t] ELSE {}
<2>1. ASSUME ~broken
      PROVE  objects = handles \cup (UNION {reply.ids : reply \in Replies})
                               \cup (UNION {request[t].uses : t \in removals})
                               \cup (UNION {temporary(t) : t \in Threads})
                               \cup (IF Closed THEN {} ELSE {EnvId})
<3>1. objects = handles \cup ThreadsOwned \cup EnvOwned
  BY <1>1, <2>1 DEF ObjectInv, OneOwner
<3>2. \A id : id \in ThreadsOwned <=> \E t \in Threads : id \in Owned(t)
  BY DEF ThreadsOwned
<3>3. \A reply \in Replies : \E t \in Threads : reply.tid = Tid[t]
  BY <1>1 DEF CallInv, RepliesHaveCallers
<3>4. \A t \in Threads : t \in removals <=> Removal(t)
  BY DEF Removal
<3>5. \A t \in Threads : temporary(t) = IF Temporary(t) THEN foreign[t] ELSE {}
  BY DEF Temporary
<3> HIDE DEF removals, temporary
<3> DEFINE made == UNION {reply.ids : reply \in Replies}
           released == UNION {request[t].uses : t \in removals}
           kept == UNION {temporary(t) : t \in Threads}
<3>6. /\ \A id : id \in made <=> \E reply \in Replies : id \in reply.ids
      /\ \A id : id \in released <=> \E t \in removals : id \in request[t].uses
      /\ \A id : id \in kept <=> \E t \in Threads : id \in temporary(t)
  OBVIOUS
<3> HIDE DEF made, released, kept
<3>7. removals \subseteq Threads
  BY DEF removals
<3>8. ASSUME NEW id
      PROVE  (\E t \in Threads : id \in Owned(t)) \/ id \in handles
                <=> id \in handles \/ id \in made \/ id \in released \/ id \in kept
  BY <3>3, <3>4, <3>5, <3>6, <3>7, OwnedWays
<3>9. objects = handles \cup made \cup released \cup kept \cup EnvOwned
  BY <3>1, <3>2, <3>8
<3>10. QED BY <3>9 DEF made, released, kept, EnvOwned
<2>2. QED BY <1>1, <2>1 DEF ObjectsMatchHandles, ObjectInv, ForeignOnly
<1>2. QED BY <1>1, AlwaysCalls, AlwaysObjects, PTL

(***************************************************************************)
(* The calls of RemoteCalls.                                               *)
(***************************************************************************)

\* Seen from a thread, an answer is on its way when a reply has its hash.
Replied(t) == \E reply \in Replies : reply.tid = Tid[t]

\* The abstract state: what a thread asks, and that it has been answered.
MapsTo ==
    /\ Asked \in [Threads -> Nat] /\ Answered \in [Threads -> Nat]
    /\ \A t \in Threads :
          /\ Waiting(t) => Asked[t] = request[t].n /\ request[t].n # 0
          /\ ~Waiting(t) => Asked[t] = 0
          /\ Replied(t) => Waiting(t) /\ Answered[t] = request[t].n
          /\ ~Replied(t) => Answered[t] = 0

\* The answer that the mapping chooses is the one to the thread's own request.
LEMMA CallsMapped == Types /\ CallInv => MapsTo
<1> SUFFICES ASSUME Types, CallInv PROVE MapsTo
  OBVIOUS
<1>1. ASSUME NEW t \in Threads
      PROVE  /\ Asked[t] \in Nat /\ Answered[t] \in Nat
             /\ Waiting(t) => Asked[t] = request[t].n /\ request[t].n # 0
             /\ ~Waiting(t) => Asked[t] = 0
             /\ Replied(t) => Waiting(t) /\ Answered[t] = request[t].n
             /\ ~Replied(t) => Answered[t] = 0
<2>1. request[t].n \in Nat /\ (Waiting(t) => request[t].n # 0)
  BY DEF Types, Requests, CallInv, NumbersDiffer, Busy, Waiting
<2>2. Asked[t] = IF Waiting(t) THEN request[t].n ELSE 0
  BY DEF Asked
<2>3. Answered[t] = IF Waiting(t) /\ Replied(t)
                      THEN (CHOOSE reply \in Replies : reply.tid = Tid[t]).n ELSE 0
  BY DEF Answered, Replied
<2>4. ASSUME NEW reply \in Replies, reply.tid = Tid[t] PROVE Waiting(t) /\ reply.n = request[t].n
  BY <2>4, ThreadIds DEF CallInv, RepliesHaveCallers, Sent, Waiting
<2>5. Replied(t) => /\ Waiting(t)
                    /\ (CHOOSE reply \in Replies : reply.tid = Tid[t]).n = request[t].n
  BY <2>4 DEF Replied
<2>6. QED BY <2>1, <2>2, <2>3, <2>5
<1>2. Asked \in [Threads -> Nat] /\ Answered \in [Threads -> Nat]
<2>1. /\ Asked = [t \in Threads |-> Asked[t]] /\ Answered = [t \in Threads |-> Answered[t]]
  BY DEF Asked, Answered
<2>2. QED BY <1>1, <2>1
<1>3. QED BY <1>1, <1>2 DEF MapsTo

\* After a step, too.
LEMMA CallsMappedNext == Types' /\ CallInv' => MapsTo'
  BY CallsMapped, PTL

\* A step that changes neither what a thread waits with nor the replies stutters.
LEMMA SameCalls ==
    ASSUME MapsTo, MapsTo', broken' = broken,
           \A t \in Threads : /\ Waiting(t)' <=> Waiting(t)
                              /\ Waiting(t) => request'[t] = request[t]
                              /\ Replied(t)' <=> Replied(t)
    PROVE  UNCHANGED ImplementsCalls!vars
<1>1. \A t \in Threads : Asked'[t] = Asked[t] /\ Answered'[t] = Answered[t]
  BY DEF MapsTo
<1>2. Asked' = Asked /\ Answered' = Answered
  BY <1>1 DEF MapsTo
<1>3. QED BY <1>2 DEF ImplementsCalls!vars

\* A thread that leaves transact() returns with its reply, or fails on a dead stream.
LEMMA LeavesCall ==
    ASSUME MapsTo, MapsTo', NEW t \in Threads, broken' = broken, UNCHANGED request,
           Waiting(t), ~Waiting(t)', \A u \in Threads \ {t} : pc'[u] = pc[u],
           Replies' = {r \in Replies : r.tid # Tid[t]},
           Replied(t) \/ broken
    PROVE  ImplementsCalls!Next
<1>1. ~Replied(t)' /\ \A u \in Threads \ {t} : Replied(u)' <=> Replied(u)
  BY ThreadIds DEF Replied
<1>2. \A u \in Threads \ {t} : Waiting(u)' <=> Waiting(u)
  BY DEF Waiting
<1>3. Asked'[t] = 0 /\ Answered'[t] = 0 /\ Asked[t] # 0
  BY <1>1 DEF MapsTo
<1>4. \A u \in Threads \ {t} : Asked'[u] = Asked[u] /\ Answered'[u] = Answered[u]
  BY <1>1, <1>2 DEF MapsTo
<1>5. /\ Asked' = [Asked EXCEPT ![t] = 0]
      /\ Answered' = [Answered EXCEPT ![t] = 0]
  BY <1>3, <1>4 DEF MapsTo
<1>6. CASE Replied(t)
<2>1. Answered[t] = Asked[t]
  BY <1>6 DEF MapsTo
<2>2. ImplementsCalls!Return(t)
  BY <1>3, <1>5, <2>1 DEF ImplementsCalls!Return
<2>3. QED BY <2>2 DEF ImplementsCalls!Next
<1>7. CASE ~Replied(t)
<2>1. Answered[t] = 0
  BY <1>7 DEF MapsTo
<2>2. Answered' = Answered
  BY <1>5, <2>1 DEF MapsTo
<2>3. ImplementsCalls!Fail(t)
  BY <1>3, <1>5, <1>7, <2>1, <2>2 DEF ImplementsCalls!Fail
<2>4. QED BY <2>3 DEF ImplementsCalls!Next
<1>8. QED BY <1>6, <1>7

\* Asking is an Ask of RemoteCalls, or nothing once the connection is inactive.
LEMMA AskImplements ==
    ASSUME Types, CallInv, MapsTo, MapsTo', NEW t \in Threads, Begin(t) \/ Continue(t) \/ Close(t)
    PROVE  [ImplementsCalls!Next]_ImplementsCalls!vars
<1>1. /\ pc[t] \in {"idle", "next"}
      /\ UNCHANGED <<isMutex, tidToReply, connectionActive, serverVars, stream>>
  BY CallersAsk
<1>2. PICK action \in Actions, uses \in SUBSET (1..lastId) : Ask(t, action, uses)
  BY CallersAsk
<1>3. /\ request \in [Threads -> Requests] /\ lastN \in Nat
      /\ pc \in [Threads -> {"idle", "send", "wait", "read", "fail", "next"}]
      /\ \A u \in Threads : request[u].n <= lastN /\ request[u].n \in Nat
<2>1. /\ request \in [Threads -> Requests] /\ lastN \in Nat
      /\ pc \in [Threads -> {"idle", "send", "wait", "read", "fail", "next"}]
  BY DEF Types, TypeOK
<2>2. \A u \in Threads : request[u].n \in 0..lastN
  BY DEF Types, TypeOK
<2>3. QED BY <2>1, <2>2
<1>4. /\ request'[t].n = lastN + 1 /\ pc'[t] = IF connectionActive THEN "send" ELSE "idle"
      /\ \A u \in Threads \ {t} : request'[u] = request[u] /\ pc'[u] = pc[u]
  BY <1>2, <1>3 DEF Ask
<1>5. Replies' = Replies /\ broken' = broken
  BY <1>1 DEF Replies, stream
<1>6. /\ ~Waiting(t) /\ \A u \in Threads : Replied(u)' <=> Replied(u)
      /\ Waiting(t)' <=> connectionActive
      /\ \A u \in Threads \ {t} : Waiting(u)' <=> Waiting(u)
  BY <1>1, <1>4, <1>5 DEF Waiting, Replied
<1>7. CASE ~connectionActive
<2>1. \A u \in Threads : (Waiting(u)' <=> Waiting(u)) /\ (Waiting(u) => request'[u] = request[u])
  BY <1>4, <1>6, <1>7
<2>2. UNCHANGED ImplementsCalls!vars
  BY <1>5, <1>6, <2>1, SameCalls
<2>3. QED BY <2>2
<1>8. CASE connectionActive
<2>1. Asked[t] = 0 /\ Asked'[t] = lastN + 1
  BY <1>4, <1>6, <1>8 DEF MapsTo
<2>2. ASSUME NEW u \in Threads \ {t}
      PROVE  Asked'[u] = Asked[u] /\ Asked[u] <= lastN /\ Answered'[u] = Answered[u]
<3>1. request[u].n <= lastN /\ request'[u] = request[u] /\ lastN \in Nat
  BY <1>3, <1>4
<3>2. (Waiting(u)' <=> Waiting(u)) /\ (Replied(u)' <=> Replied(u))
  BY <1>6
<3>3. Asked'[u] = Asked[u] /\ Answered'[u] = Answered[u]
  BY <3>1, <3>2 DEF MapsTo
<3>4. Asked[u] = request[u].n \/ Asked[u] = 0
  BY DEF MapsTo
<3>5. QED BY <3>1, <3>3, <3>4
<2>3. Answered' = Answered
<3>1. Answered'[t] = Answered[t]
  BY <1>6 DEF MapsTo
<3>2. QED BY <2>2, <3>1 DEF MapsTo
<2>4. /\ Asked' = [Asked EXCEPT ![t] = Asked'[t]]
      /\ \A u \in Threads \ {t} : Asked'[u] # Asked'[t]
<3>1. Asked' = [Asked EXCEPT ![t] = Asked'[t]]
  BY <2>2 DEF MapsTo
<3>2. \A u \in Threads \ {t} : Asked[u] \in Nat
  BY DEF MapsTo
<3>3. QED BY <1>3, <2>1, <2>2, <3>1, <3>2
<2>5. Asked'[t] \in Nat \ {0, Asked[t]}
  BY <1>3, <2>1
<2>6. ImplementsCalls!Ask(t)
  BY <1>5, <2>1, <2>3, <2>4, <2>5 DEF ImplementsCalls!Ask
<2>7. QED BY <2>6 DEF ImplementsCalls!Next
<1>9. QED BY <1>7, <1>8

\* The server's answer is an Answer, the first to that call.
LEMMA ServeImplements ==
    ASSUME Types, CallInv, MapsTo, MapsTo', Serve
    PROVE  [ImplementsCalls!Next]_ImplementsCalls!vars
<1>1. UNCHANGED <<clientVars, broken>>
  BY DEF Serve
<1>2. /\ UNCHANGED <<pc, request>> /\ \A u \in Threads : Waiting(u)' <=> Waiting(u)
  BY <1>1 DEF Waiting, clientVars
<1>3. CASE broken
<2>1. Replies' = Replies
  BY <1>1, <1>3 DEF Serve, Replies, clientVars
<2>2. UNCHANGED ImplementsCalls!vars
  BY <1>1, <1>2, <2>1, SameCalls DEF Replied
<2>3. QED BY <2>2
<1>4. CASE ~broken
<2> DEFINE q == Head(toServer)
<2>1. PICK t \in Threads, reply \in Answers(q) :
         /\ Sent(t) /\ q \in Range(toServer) /\ q \in Datagrams /\ q.tid = Tid[t]
         /\ Replies' = Replies \cup {reply}
  BY <1>4, Served
<2>2. reply.tid = Tid[t]
  BY <2>1, AnswerShape
<2>3. Waiting(t) /\ ~Replied(t) /\ Replied(t)'
  BY <1>4, <2>1, <2>2 DEF Waiting, Sent, Replied, CallInv, OnePlace
<2>4. \A u \in Threads \ {t} : Replied(u)' <=> Replied(u)
  BY <2>1, <2>2, ThreadIds DEF Replied
<2>5. Asked[t] # 0 /\ Answered[t] = 0 /\ Answered'[t] = Asked[t]
  BY <1>2, <2>3 DEF MapsTo
<2>6. \A u \in Threads : Asked'[u] = Asked[u] /\ (u # t => Answered'[u] = Answered[u])
  BY <1>2, <2>4 DEF MapsTo
<2>7. Asked' = Asked /\ Answered' = [Answered EXCEPT ![t] = Asked[t]]
  BY <2>5, <2>6 DEF MapsTo
<2>8. ImplementsCalls!Answer(t)
  BY <1>1, <2>5, <2>7 DEF ImplementsCalls!Answer
<2>9. QED BY <2>8 DEF ImplementsCalls!Next
<1>5. QED BY <1>3, <1>4

\* A lost connection is a Lose: the replies it cut off are the lost answers.
LEMMA BreakImplements ==
    ASSUME Types, CallInv, MapsTo, MapsTo', Break
    PROVE  ImplementsCalls!Next
<1>1. UNCHANGED <<pc, request>> /\ broken' = TRUE
  BY DEF Break, clientVars
<1>2. Replies' \subseteq Replies
<2>1. PICK k \in 0..Len(toClient) : toClient' = SubSeq(toClient, 1, k)
  BY DEF Break
<2>2. QED BY <2>1, CutOff DEF Break, Types, Replies, clientVars
<1>3. \A t \in Threads : (Waiting(t)' <=> Waiting(t)) /\ (Replied(t)' => Replied(t))
  BY <1>1, <1>2 DEF Waiting, Replied
<1>4. \A t \in Threads : /\ Asked'[t] = Asked[t]
                         /\ Answered'[t] = IF Replied(t)' THEN Answered[t] ELSE 0
  BY <1>1, <1>3 DEF MapsTo
<1> DEFINE kept == {t \in Threads : Replied(t)'}
<1>5. /\ Asked' = Asked /\ kept \in SUBSET Threads
      /\ Answered' = [t \in Threads |-> IF t \in kept THEN Answered[t] ELSE 0]
  BY <1>4 DEF MapsTo
<1>6. ImplementsCalls!Lose
  BY <1>1, <1>5 DEF ImplementsCalls!Lose
<1>7. QED BY <1>6 DEF ImplementsCalls!Next

\* Every step of the proxy is a step of RemoteCalls or leaves it alone.
LEMMA StepImplements ==
    Types /\ CallInv /\ MapsTo /\ MapsTo' /\ [Next]_vars => [ImplementsCalls!Next]_ImplementsCalls!vars
<1> SUFFICES ASSUME Types, CallInv, MapsTo, MapsTo', [Next]_vars
             PROVE  [ImplementsCalls!Next]_ImplementsCalls!vars
  OBVIOUS
<1>0. pc \in [Threads -> {"idle", "send", "wait", "read", "fail", "next"}]
  BY DEF Types, TypeOK
<1>1. ASSUME NEW t \in Threads, Begin(t) \/ Close(t) \/ Continue(t)
      PROVE  [ImplementsCalls!Next]_ImplementsCalls!vars
  BY <1>1, AskImplements
<1>2. ASSUME NEW t \in Threads, Waiting(t), Waiting(t)', Replies' = Replies,
             pc' = [pc EXCEPT ![t] = pc'[t]], UNCHANGED <<request, broken>>
      PROVE  [ImplementsCalls!Next]_ImplementsCalls!vars
<2>1. \A u \in Threads : (Waiting(u)' <=> Waiting(u)) /\ (Replied(u)' <=> Replied(u))
  BY <1>0, <1>2 DEF Waiting, Replied
<2>2. QED BY <1>2, <2>1, SameCalls
<1>3. ASSUME NEW t \in Threads, Send(t) PROVE [ImplementsCalls!Next]_ImplementsCalls!vars
<2>1. /\ Replies' = Replies /\ pc' = [pc EXCEPT ![t] = pc'[t]] /\ UNCHANGED <<request, broken>>
      /\ Waiting(t) /\ Waiting(t)'
  BY <1>0, <1>3 DEF Send, Replies, Waiting
<2>2. QED BY <1>2, <2>1
<1>4. ASSUME NEW t \in Threads, SendFailed(t) \/ ReadFails(t)
      PROVE  [ImplementsCalls!Next]_ImplementsCalls!vars
<2>1. /\ broken /\ \A r \in Replies : r.tid # Tid[t]
      /\ pc[t] \in {"read", "fail"}
      /\ pc' = [pc EXCEPT ![t] = pc'[t]] /\ pc'[t] \in {"idle", "next"}
  BY <1>4, FailKeepsCalls
<2>2. UNCHANGED <<request, stream>> /\ (tidToReply' = tidToReply \/ tidToReply' = Uncached(t))
  BY <1>4 DEF SendFailed, ReadFails
<2>3. Replies' = {r \in Replies : r.tid # Tid[t]}
  BY <2>1, <2>2, CacheWithout DEF Replies, stream
<2>4. Waiting(t) /\ ~Waiting(t)' /\ \A u \in Threads \ {t} : pc'[u] = pc[u]
  BY <1>0, <2>1 DEF Waiting
<2>5. QED BY <2>1, <2>2, <2>3, <2>4, LeavesCall DEF stream
<1>5. ASSUME NEW t \in Threads, NEW reply \in Replies, reply.tid = Tid[t], Sent(t), Return(t, reply),
             Replies' = {r \in Replies : r.tid # Tid[t]}, UNCHANGED <<request, broken>>
      PROVE  ImplementsCalls!Next
<2>1. pc' = [pc EXCEPT ![t] = pc'[t]] /\ pc'[t] \in {"idle", "next"}
  BY <1>5, Returned
<2>2. Waiting(t) /\ ~Waiting(t)' /\ Replied(t) /\ \A u \in Threads \ {t} : pc'[u] = pc[u]
  BY <1>0, <1>5, <2>1 DEF Waiting, Sent, Replied
<2>3. QED BY <1>5, <2>2, LeavesCall
<1>6. ASSUME NEW t \in Threads, LockInput(t) PROVE [ImplementsCalls!Next]_ImplementsCalls!vars
<2>1. /\ pc[t] = "wait" /\ isMutex = None
      /\ UNCHANGED <<request, connectionActive, lastN, serverVars, toServer, toClient, broken>>
  BY <1>6 DEF LockInput, stream
<2>2. CASE Tid[t] \in DOMAIN tidToReply
<3>1. /\ Return(t, tidToReply[Tid[t]]) /\ tidToReply' = Uncached(t) /\ UNCHANGED isMutex
  BY <1>6, <2>2 DEF LockInput
<3>2. tidToReply[Tid[t]] \in Replies /\ tidToReply[Tid[t]].tid = Tid[t]
  BY <2>2, CachedByTid
<3>3. Replies' = {r \in Replies : r.tid # Tid[t]}
  BY <2>1, <2>2, <3>1, <3>2, ReturnKeepsCalls
<3>4. QED BY <1>5, <2>1, <3>1, <3>2, <3>3 DEF Sent
<2>3. CASE Tid[t] \notin DOMAIN tidToReply
<3>1. /\ pc' = [pc EXCEPT ![t] = "read"] /\ UNCHANGED tidToReply
  BY <1>6, <2>3 DEF LockInput
<3>2. Replies' = Replies /\ Waiting(t) /\ Waiting(t)' /\ pc' = [pc EXCEPT ![t] = pc'[t]]
  BY <1>0, <2>1, <3>1 DEF Replies, Waiting
<3>3. QED BY <1>2, <2>1, <3>2
<2>4. QED BY <2>2, <2>3
<1>7. ASSUME NEW t \in Threads, Read(t) PROVE [ImplementsCalls!Next]_ImplementsCalls!vars
<2>1. /\ pc[t] = "read" /\ toClient # <<>> /\ toClient' = Tail(toClient) /\ isMutex' = None
      /\ UNCHANGED <<request, connectionActive, lastN, serverVars, toServer, broken>>
  BY <1>7 DEF Read
<2>2. Head(toClient) \in Replies
  BY <2>1, Popped DEF Types, Replies
<2>3. CASE Head(toClient).tid = Tid[t]
<3>1. Return(t, Head(toClient)) /\ UNCHANGED tidToReply
  BY <1>7, <2>3 DEF Read
<3>2. Replies' = {r \in Replies : r.tid # Tid[t]}
  BY <2>1, <2>2, <2>3, <3>1, ReturnKeepsCalls
<3>3. QED BY <1>5, <2>1, <2>2, <2>3, <3>1, <3>2 DEF Sent
<2>4. CASE Head(toClient).tid # Tid[t]
<3>1. /\ tidToReply' = Cached(Head(toClient)) /\ pc' = [pc EXCEPT ![t] = "wait"]
      /\ UNCHANGED <<foreign, handles>>
  BY <1>7, <2>4 DEF Read
<3>2. /\ pc' = [pc EXCEPT ![t] = pc'[t]] /\ pc'[t] = "wait"
      /\ Waiting(t) /\ Waiting(t)'
  BY <1>0, <2>1, <3>1 DEF Waiting
<3>3. Replies' = Replies
  BY <2>1, <2>4, <3>1, <3>2, ReadingKeepsCalls
<3>4. QED BY <1>2, <2>1, <3>2, <3>3
<2>5. QED BY <2>3, <2>4
<1>8. CASE Serve
  BY <1>8, ServeImplements
<1>9. CASE Break
  BY <1>9, BreakImplements
<1>10. CASE HangUp \/ Finished \/ UNCHANGED vars
<2>1. UNCHANGED <<pc, request, broken>> /\ Replies' = Replies
  BY <1>10 DEF HangUp, Finished, vars, stream, clientVars, Replies
<2>2. UNCHANGED ImplementsCalls!vars
  BY <2>1, SameCalls DEF Waiting, Replied
<2>3. QED BY <2>2
<1>11. QED BY <1>1, <1>3, <1>4, <1>6, <1>7, <1>8, <1>9, <1>10 DEF Next, Transact

\* The safety half of ImplementsCalls, for any number of threads: each thread gets
\* the answer to its own call, once, and only a lost connection makes a call fail.
THEOREM CallsAnsweredOnce ==
    Spec => ImplementsCalls!Init /\ [][ImplementsCalls!Next]_ImplementsCalls!vars
<1>1. Init => ImplementsCalls!Init
<2>1. ASSUME Init PROVE ImplementsCalls!Init
<3>1. MapsTo /\ Replies = {}
  BY <2>1, InitCalls, CallsMapped DEF Init, Replies, Range
<3>2. \A t \in Threads : Asked[t] = 0 /\ Answered[t] = 0
  BY <2>1, <3>1 DEF Init, MapsTo, Waiting, Replied
<3>3. QED BY <2>1, <3>1, <3>2 DEF Init, MapsTo, ImplementsCalls!Init
<2>2. QED BY <2>1
<1>2. QED BY <1>1, AlwaysCalls, CallsMapped, StepImplements, PTL DEF Spec
=============================================================================
