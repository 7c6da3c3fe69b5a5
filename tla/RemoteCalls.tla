---------------------------- MODULE RemoteCalls ----------------------------
(***************************************************************************)
(* What a remote proxy environment promises to the threads that share it:  *)
(* every call returns, each call is answered at most once, with the answer *)
(* to that call; only a connection that is lost may make a call fail.      *)
(***************************************************************************)
EXTENDS Naturals

CONSTANT Threads

VARIABLES
    asked,     \* the number of each thread's call, 0 for none
    answered,  \* the number of the call whose answer is on its way to the thread
    lost       \* the connection

vars == <<asked, answered, lost>>

Init ==
    /\ asked = [t \in Threads |-> 0]
    /\ answered = [t \in Threads |-> 0]
    /\ lost = FALSE

Ask(t) ==
    /\ asked[t] = 0
    /\ asked'[t] \in Nat \ {0, asked[t]}
    /\ asked' = [asked EXCEPT ![t] = asked'[t]]
    /\ \A other \in Threads \ {t} : asked'[other] # asked'[t]
    /\ UNCHANGED <<answered, lost>>

Answer(t) ==
    /\ asked[t] # 0 /\ answered[t] = 0
    /\ answered' = [answered EXCEPT ![t] = asked[t]]
    /\ UNCHANGED <<asked, lost>>

Return(t) ==
    /\ asked[t] # 0 /\ answered[t] = asked[t]
    /\ asked' = [asked EXCEPT ![t] = 0]
    /\ answered' = [answered EXCEPT ![t] = 0]
    /\ UNCHANGED lost

\* Answers on the way may be lost with the connection.
Lose ==
    /\ lost' = TRUE
    /\ \E kept \in SUBSET Threads :
          answered' = [t \in Threads |-> IF t \in kept THEN answered[t] ELSE 0]
    /\ UNCHANGED asked

Fail(t) ==
    /\ lost /\ asked[t] # 0 /\ answered[t] = 0
    /\ asked' = [asked EXCEPT ![t] = 0]
    /\ UNCHANGED <<answered, lost>>

Next ==
    \/ \E t \in Threads : Ask(t) \/ Answer(t) \/ Return(t) \/ Fail(t)
    \/ Lose

Spec ==
    /\ Init /\ [][Next]_vars
    /\ \A t \in Threads : WF_vars(Answer(t) \/ Return(t) \/ Fail(t))
=============================================================================
