------------------------------ MODULE Topology ------------------------------
(***************************************************************************)
(* Pothos::Topology: one user edits the flows of a topology and of the     *)
(* topologies within, and commits.  A commit loads the flat flows into one *)
(* topology per environment; these then commit all at the same time, each  *)
(* with a thread per flow and per block.                                   *)
(***************************************************************************)
EXTENDS TopologyFlows, SequencesExt

CONSTANTS Envs,
          AutoPorts,    \* <<direction, port>> that a block allocates on demand
          Connections,  \* <<topology, flow>> the user may connect
          MaxEdits, MaxCommits, MaxFailures

ASSUME BoundsAssumption == {MaxEdits, MaxCommits, MaxFailures} \subseteq Nat
ASSUME EnvsAssumption == \A b \in Blocks : EnvOf[b] \in Envs

VARIABLES
    flows,      \* _impl->flows of each topology
    portNames,  \* _impl->inputPortNames, outputPortNames
    allocated,  \* automatic ports in existence
    cache,      \* srcToNetgressCache: when the pair for a key was made
    envFlows,   \* flows of the topology of each environment
    envActive,  \* its activeFlatFlows
    subInputs,  \* _subscribers of output ports, as flows
    subOutputs, \* _subscribers of input ports, as flows
    managers,   \* output ports with a buffer manager, and which
    active,     \* blocks with activeState
    sub,        \* the sub-commit of each environment
    commits,    \* how many were begun; numbers the blocks made
    excused,    \* a reason to fail has been there
    left        \* budget of the environment

userVars == <<flows, portNames>>
blockVars == <<subInputs, subOutputs, managers, active>>
vars == <<userVars, allocated, cache, envFlows, envActive, blockVars, sub, commits,
          excused, left>>

Idle == [pc |-> "idle", todo |-> {}, error |-> FALSE]
NoManager == [port \in {} |-> ""]

Init ==
    /\ flows = [t \in Topologies |-> {}]
    /\ portNames = [t \in Topologies |-> [in |-> <<>>, out |-> <<>>]]
    /\ allocated = {}
    /\ cache = [key \in {} |-> 0]
    /\ envFlows = [e \in Envs |-> {}]
    /\ envActive = [e \in Envs |-> {}]
    /\ subInputs = {}
    /\ subOutputs = {}
    /\ managers = NoManager
    /\ active = {}
    /\ sub = [e \in Envs |-> Idle]
    /\ commits = 0
    /\ excused = FALSE
    /\ left = [edits |-> MaxEdits, failures |-> MaxFailures]

Committing == \E e \in Envs : sub[e].pc # "idle"

(***************************************************************************)
(* connect() and disconnect()                                              *)
(***************************************************************************)

Outputs(some) == {<<"out", Src(f)>> : f \in some}
Inputs(some) == {<<"in", Dst(f)>> : f \in some}

\* autoAllocatePort(), for both ends of the flows
AutoAllocated(some) == AutoPorts \cap (Outputs(some) \cup Inputs(some))

Exists(way, port, ports) ==
    IF OfHierarchy(port) THEN Contains(portNames[Obj(port)][way], port[2])
    ELSE <<way, port>> \in AutoPorts => <<way, port>> \in ports

\* Mutant: the subscribers of the port are not looked at.
AutoDeletedMutant(gone) == allocated \ (Outputs(gone) \cup Inputs(gone))

\* autoDeletePort(), for both ends of the flows: a port that has subscribers
\* stays.
AutoDeleted(gone) ==
    allocated \ ((Outputs(gone) \ Outputs(subInputs)) \cup (Inputs(gone) \ Inputs(subOutputs)))

Edit ==
    /\ ~Committing /\ left.edits > 0
    /\ left' = [left EXCEPT !.edits = @ - 1]
    /\ UNCHANGED <<cache, envFlows, envActive, blockVars, sub, commits, excused>>

\* Ports are allocated, then they must exist, but for those of the topology
\* itself: these come into being, also when the flow is there already.
Connect(t, flow) ==
    LET ports == allocated \cup AutoAllocated({flow})
        valid == /\ Obj(Src(flow)) # t => Exists("out", Src(flow), ports)
                 /\ Obj(Dst(flow)) # t => Exists("in", Dst(flow), ports)
    IN  /\ Edit
        /\ allocated' = ports
        /\ \/ /\ valid
              /\ portNames' = [portNames EXCEPT
                    ![t].in = IF Obj(Src(flow)) = t THEN Append(@, Src(flow)[2]) ELSE @,
                    ![t].out = IF Obj(Dst(flow)) = t THEN Append(@, Dst(flow)[2]) ELSE @]
              /\ flows' = [flows EXCEPT ![t] = @ \cup {flow}]
           \/ ~valid /\ UNCHANGED userVars

\* The names are taken from the list of the other direction, and before it is
\* known whether the flow exists.
Disconnect(t, flow) ==
    /\ Edit
    /\ Exists("out", Src(flow), allocated)
    /\ Exists("in", Dst(flow), allocated)
    /\ portNames' = [portNames EXCEPT
          ![t].out = IF Obj(Src(flow)) = t THEN RemoveFirst(@, Src(flow)[2]) ELSE @,
          ![t].in = IF Obj(Dst(flow)) = t THEN RemoveFirst(@, Dst(flow)[2]) ELSE @]
    /\ flows' = [flows EXCEPT ![t] = @ \ {flow}]
    /\ allocated' = IF flow \in flows[t] THEN AutoDeleted({flow}) ELSE allocated

\* With recursion, also the topologies that this one has flows with, but not
\* those within them.
DisconnectAll(t, recursive) ==
    LET all == {t} \cup IF recursive THEN Topologies \cap Objs(flows[t]) ELSE {}
    IN  /\ Edit
        /\ flows' = [o \in Topologies |-> IF o \in all THEN {} ELSE flows[o]]
        /\ allocated' = AutoDeleted(UNION {flows[o] : o \in all})
        /\ UNCHANGED portNames

(***************************************************************************)
(* commit(), to the futures of the sub-commits                             *)
(***************************************************************************)

Completes == Completed(Squashed(flows))

\* Mutant: the old flows are removed before the new ones are there.
OrderMutant == <<"remove", "add">>

\* updateFlows() is called twice ...
Order == <<"add", "remove">>

\* Mutant: what is active already is not taken out.
TasksMutant(action, next, current) ==
    {<<"output", f>> : f \in IF action = "add" THEN next ELSE current \ next}

\* ... with a thread for each new or old flow.
Tasks(action, next, current) ==
    {<<"output", f>> : f \in IF action = "add" THEN next \ current ELSE current \ next}

\* A flow found twice is refused while the environments are being loaded.
Commit ==
    LET now == commits + 1
        newCache == Cached(cache, Completes, now)
        tagged == RectifiedFlows(NetworkFlows(Completes, newCache), now)
        flat == {Plain(f) : f \in tagged}
        parts(some) == [e \in Envs |-> {f \in some : Env(Obj(Src(f))) = e}]
        twice == Cardinality(tagged) > Cardinality(flat)
    IN  /\ ~Committing /\ commits < MaxCommits
        /\ commits' = now
        /\ cache' = newCache
        /\ \E loaded \in IF twice THEN SUBSET flat ELSE {flat} :
              /\ allocated' = AutoDeleted(UNION {envFlows[e] : e \in Envs})
                              \cup AutoAllocated(loaded)
              /\ envFlows' = parts(loaded)
        /\ sub' = IF twice THEN sub
                  ELSE [e \in Envs |->
                          [pc |-> Order[1], error |-> FALSE,
                           todo |-> Tasks(Order[1], parts(flat)[e], envActive[e])]]
        /\ excused' = (excused \/ twice)
        /\ UNCHANGED <<userVars, envActive, blockVars, left>>

(***************************************************************************)
(* topologySubCommit() of an environment                                   *)
(***************************************************************************)

Toggled(subscribers, flow, action) ==
    IF action = "add" THEN subscribers \cup {flow} ELSE subscribers \ {flow}

\* subscribePort(): the output port's subscribers, then the input port's; one
\* that is there already, or is missing, is an error.
Subscribe(e) ==
    /\ sub[e].pc \in {"add", "remove"}
    /\ \E task \in sub[e].todo :
          LET flow == task[2]
              first == task[1] = "output"
              list == IF first THEN subInputs ELSE subOutputs
              wrong == (flow \in list) = (sub[e].pc = "add")
              list2 == IF wrong THEN list ELSE Toggled(list, flow, sub[e].pc)
          IN  /\ sub' = [sub EXCEPT
                    ![e].todo = (@ \ {task}) \cup
                                IF first /\ ~wrong THEN {<<"input", flow>>} ELSE {},
                    ![e].error = @ \/ wrong]
              /\ subInputs' = IF first THEN list2 ELSE subInputs
              /\ subOutputs' = IF first THEN subOutputs ELSE list2
    /\ UNCHANGED <<userVars, allocated, cache, envFlows, envActive, managers, active,
                   commits, excused, left>>

\* An error of any task ends the sub-commit.
EndUpdate(e) ==
    /\ sub[e].pc \in {"add", "remove"} /\ sub[e].todo = {}
    /\ sub' = [sub EXCEPT ![e] =
          IF @.error THEN [@ EXCEPT !.pc = "over"]
          ELSE IF @.pc = Order[2] THEN [@ EXCEPT !.pc = "install"]
          ELSE [@ EXCEPT !.pc = Order[2],
                         !.todo = Tasks(Order[2], envFlows[e], envActive[e])]]
    /\ UNCHANGED <<userVars, allocated, cache, envFlows, envActive, blockVars, commits,
                   excused, left>>

\* The manager for an output port whose first destination is given, and
\* whether installBufferManagers() gives up; it asks the other destinations
\* about a port with the name of the first.
ManagerFor(src, dst) ==
    IF Mode(src, FALSE, DomainOf(dst)) = "CUSTOM" THEN "source"
    ELSE IF Mode(dst, TRUE, DomainOf(src)) = "CUSTOM" THEN "destination"
    ELSE "generic"

GivesUp(src, dst, dsts) ==
    /\ ManagerFor(src, dst) = "destination"
    /\ \E other \in dsts \ {dst} :
          Mode(<<Obj(other), dst[2]>>, TRUE, DomainOf(src)) # "ABDICATE"

\* Managers are installed for the new flows only.
Sources(e) == {Src(f) : f \in envFlows[e] \ envActive[e]}

\* Mutant: the blocks of all new flows, the blocks of all old ones.
ObjsWithoutMutant(some, excludes) == Objs(some)

\* getObjSetFromFlowList()
ObjsWithout(some, excludes) == Objs(some) \ Objs(excludes)

\* Then the threads that activate the blocks that are new and deactivate those
\* that no flow has any more; the new flows are the active ones before it is
\* known how this goes.
Install(e) ==
    /\ sub[e].pc = "install"
    /\ \E first \in [Sources(e) -> {Dst(f) : f \in envFlows[e]}] :
          LET dsts(s) == {Dst(f) : f \in {g \in envFlows[e] \ envActive[e] : Src(g) = s}}
              refused == \E s \in Sources(e) : GivesUp(s, first[s], dsts(s))
          IN  /\ \A s \in Sources(e) : first[s] \in dsts(s)
              /\ \E given \in IF refused THEN SUBSET Sources(e) ELSE {Sources(e)} :
                    managers' = [s \in DOMAIN managers \cup given |->
                        IF s \in given THEN ManagerFor(s, first[s]) ELSE managers[s]]
              /\ sub' = [sub EXCEPT ![e] =
                    IF refused THEN [@ EXCEPT !.pc = "over", !.error = TRUE]
                    ELSE [@ EXCEPT !.pc = "activate", !.todo =
                        {<<"on", b>> : b \in ObjsWithout(envFlows[e] \ envActive[e],
                                                         envActive[e])} \cup
                        {<<"off", b>> : b \in ObjsWithout(envActive[e] \ envFlows[e],
                                                          envFlows[e])}]]
              /\ envActive' = IF refused THEN envActive
                              ELSE [envActive EXCEPT ![e] = envFlows[e]]
              /\ excused' = (excused \/ refused)
    /\ UNCHANGED <<userVars, allocated, cache, envFlows, subInputs, subOutputs, active,
                   commits, left>>

\* The other end of a pair of network blocks
Peer(b) == IF b.kind = "sink" THEN NetSource(b.key, b.made) ELSE NetSink(b.key, b.made)

IsNet(b) == b \notin Blocks /\ b.kind # "copier"

\* Mutant: the peer must be active before.
MeetsPeerMutant(b) == IsNet(b) => Peer(b) \in active

\* activate() of a network block has to meet that of its peer.
MeetsPeer(b) ==
    IsNet(b) => \/ Peer(b) \in active
                \/ <<"on", Peer(b)>> \in sub[Peer(b).env].todo

\* setActiveStateOn(), setActiveStateOff()
Activated(e, task, ok) ==
    /\ task \in sub[e].todo
    /\ active' = IF task[1] = "on" /\ ok THEN active \cup {task[2]} ELSE active \ {task[2]}
    /\ sub' = [sub EXCEPT ![e].todo = @ \ {task}, ![e].error = @ \/ ~ok]
    /\ UNCHANGED <<userVars, allocated, cache, envFlows, envActive, subInputs, subOutputs,
                   managers, commits>>

SetActiveState(e, task) ==
    /\ task[1] = "on" => MeetsPeer(task[2])
    /\ Activated(e, task, TRUE)
    /\ UNCHANGED <<excused, left>>

\* An exception of the block, or of the network that is slow
ActivationFails(e, task) ==
    /\ left.failures > 0
    /\ left' = [left EXCEPT !.failures = @ - 1]
    /\ task[1] = "off" => task[2] \in active
    /\ Activated(e, task, FALSE)
    /\ excused' = TRUE

\* The handshake of a network block times out when its peer does not come.
HandshakeFails(e, task) ==
    /\ task[1] = "on" /\ IsNet(task[2])
    /\ sub[Peer(task[2]).env].pc \in {"idle", "over"}
    /\ ~MeetsPeer(task[2])
    /\ Activated(e, task, FALSE)
    /\ UNCHANGED <<excused, left>>

EndActivation(e) ==
    /\ sub[e].pc = "activate" /\ sub[e].todo = {}
    /\ sub' = [sub EXCEPT ![e].pc = "over"]
    /\ UNCHANGED <<userVars, allocated, cache, envFlows, envActive, blockVars, commits,
                   excused, left>>

SubCommit(e) ==
    \/ Subscribe(e) \/ EndUpdate(e) \/ Install(e) \/ EndActivation(e)
    \/ /\ sub[e].pc = "activate"
       /\ \E task \in sub[e].todo :
             SetActiveState(e, task) \/ ActivationFails(e, task) \/ HandshakeFails(e, task)

\* Mutant: no pair of network blocks is ever forgotten.
StillUsedMutant == cache

\* Only the pairs of network blocks that a flow needs are remembered.
StillUsed == [key \in DOMAIN cache \cap {NetKey(f) : f \in Completes} |-> cache[key]]

\* commit() returns, or throws and remembers all pairs.
EndCommit ==
    /\ Committing
    /\ \A e \in Envs : sub[e].pc = "over"
    /\ sub' = [e \in Envs |-> [Idle EXCEPT !.error = sub[e].error]]
    /\ cache' = IF \E e \in Envs : sub[e].error THEN cache ELSE StillUsed
    /\ UNCHANGED <<userVars, allocated, envFlows, envActive, blockVars, commits, excused, left>>

Next ==
    \/ \E c \in Connections : Connect(c[1], c[2]) \/ Disconnect(c[1], c[2])
    \/ \E t \in Topologies, recursive \in BOOLEAN : DisconnectAll(t, recursive)
    \/ Commit \/ EndCommit
    \/ \E e \in Envs : SubCommit(e)

Spec == Init /\ [][Next]_vars /\ WF_vars(EndCommit) /\ \A e \in Envs : WF_vars(SubCommit(e))

(***************************************************************************)
(* Properties                                                              *)
(***************************************************************************)

Active == UNION {envActive[e] : e \in Envs}
Settled == ~Committing /\ ~excused

\* "Actual data flows ... are not changed until a call to commit()", and then
\* they are what was asked for: output ports, input ports and the topologies
\* of the environments agree on the flows, the active blocks are those that
\* have one, each port that may write has a manager, and the pairs of network
\* blocks that are remembered are those in use.
SubscriptionsMatch ==
    Settled => /\ subInputs = Active
               /\ subOutputs = Active
               /\ active = Objs(Active)
               /\ \A f \in subInputs : Src(f) \in DOMAIN managers
               /\ \A key \in DOMAIN cache : NetSink(key, cache[key]) \in Objs(Active)

\* A commit succeeds unless a flow was found twice, a manager was refused or
\* a block failed: in particular the two ends of a network flow meet.
CommitSucceeds == ~excused => \A e \in Envs : ~sub[e].error

\* A subscriber is a pointer to a port: no automatic port goes away while the
\* ports at the other end still have it, whatever has failed.
NoDanglingSubscriber ==
    AutoPorts \cap (Inputs(subInputs) \cup Outputs(subOutputs)) \subseteq allocated

\* A block that keeps sending to somebody is never without subscriber while
\* the flows are exchanged: there its output would be lost.
NoGap ==
    \A e \in Envs : \A old \in envActive[e] : \A new \in envFlows[e] :
        Committing /\ ~excused /\ Src(old) = Src(new)
        => \E f \in subInputs : Src(f) = Src(old)

\* commit() returns, whatever fails.
CommitEnds == Committing ~> ~Committing
=============================================================================
