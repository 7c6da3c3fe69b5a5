---------------------------- MODULE ActorContext ----------------------------
(***************************************************************************)
(* What the actor of a Pothos block promises its block and the rest of the *)
(* topology, with no mutex, flag or condition variable in sight: the       *)
(* block's context belongs to one thread at a time, and whatever is pushed *)
(* into the block's ports while nobody looks is eventually worked upon.    *)
(***************************************************************************)
EXTENDS Naturals

CONSTANTS Clients,   \* threads that push into the block or call it
          Worker,    \* the thread that runs the block's work()
          NoThread   \* the context belongs to nobody

VARIABLES owner,     \* the thread that has the block's context
          inbox      \* items pushed into the block's ports, not yet consumed

vars == <<owner, inbox>>

\* The context has one owner at most, and the ports never owe items.
TypeOK ==
    /\ owner \in Clients \cup {Worker, NoThread}
    /\ inbox \in Nat

Init ==
    /\ owner = NoThread
    /\ inbox = 0

\* Another block, or the user, pushes into a port: exclusion is not needed.
Post ==
    /\ inbox' = inbox + 1
    /\ UNCHANGED owner

Enter(t) ==
    /\ owner = NoThread
    /\ owner' = t
    /\ UNCHANGED inbox

\* An external call may leave the block with something new to work on.
Leave(c) ==
    /\ owner = c
    /\ owner' = NoThread
    /\ inbox' \in {inbox, inbox + 1}

\* One pass of work(): it consumes an item when there is one.
Serve ==
    /\ owner = Worker
    /\ owner' = NoThread
    /\ inbox' = IF inbox > 0 THEN inbox - 1 ELSE inbox

Next ==
    \/ Post
    \/ \E t \in Clients \cup {Worker} : Enter(t)
    \/ \E c \in Clients : Leave(c)
    \/ Serve

Fairness ==
    /\ SF_vars(inbox > 0 /\ Enter(Worker))
    /\ WF_vars(Serve)

Spec == Init /\ [][Next]_vars /\ Fairness
=============================================================================
