--------------------------- MODULE TopologyProofs ---------------------------
(***************************************************************************)
(* Topology for every set of blocks, environments, connections and bounds: *)
(* no automatic port goes away while it is subscribed to, whatever fails;  *)
(* and a commit that has no reason to fail succeeds, loses nothing on the  *)
(* way, and leaves the environments with the flows that were asked for.    *)
(***************************************************************************)
EXTENDS Topology, TLAPS

(***************************************************************************)
(* The inductive invariant.                                                *)
(***************************************************************************)

Pcs == {"idle", "add", "remove", "install", "activate", "over"}

\* The shape of the sub-commits and of the flows of each environment.
Shapes ==
    /\ sub = [e \in Envs |-> sub[e]]
    /\ \A e \in Envs : sub[e] \in [pc : Pcs, todo : {sub[e].todo}, error : BOOLEAN]
    /\ envFlows = [e \in Envs |-> envFlows[e]] /\ envActive = [e \in Envs |-> envActive[e]]

\* The environments share no flow: a flow is that of its source's environment.
EnvsApart == \A e \in Envs : \A f \in envFlows[e] \cup envActive[e] : Env(Obj(Src(f))) = e

Activating(e) == sub[e].pc = "activate"
Updating(e) == sub[e].pc \in {"add", "remove"}

\* The flows that the running updateFlows() is for
UpdateFlows(e) ==
    IF sub[e].pc = "add" THEN envFlows[e] \ envActive[e] ELSE envActive[e] \ envFlows[e]

\* updateFlows() has threads for its flows only.
TasksOfFlows ==
    \A e \in Envs : Updating(e) => \A task \in sub[e].todo :
        \E f \in UpdateFlows(e) : task = <<"output", f>> \/ task = <<"input", f>>

\* The output port knows, the input port not yet.
HalfDone(e) == {f \in UpdateFlows(e) : Updating(e) /\ <<"input", f>> \in sub[e].todo}

\* Both ports of a flow are subscribed to each other, but for a flow half done.
BothEnds ==
    /\ \A e \in Envs : \A f \in HalfDone(e) :
          /\ <<"output", f>> \notin sub[e].todo
          /\ f \in subInputs <=> sub[e].pc = "add"
          /\ f \in subOutputs <=> sub[e].pc = "remove"
    /\ \A f \in subInputs \cup subOutputs :
          f \in subInputs \cap subOutputs \/ \E e \in Envs : f \in HalfDone(e)

\* The ports of what is being committed exist.
PortsLoaded ==
    Committing => \A e \in Envs : \A f \in envFlows[e] : AutoAllocated({f}) \subseteq allocated

\* So do those of every subscription.
PortsSubscribed == \A f \in subInputs \cup subOutputs : AutoAllocated({f}) \subseteq allocated

PortInv == EnvsApart /\ TasksOfFlows /\ BothEnds /\ PortsLoaded /\ PortsSubscribed

(***************************************************************************)
(* The ports of a flow.                                                    *)
(***************************************************************************)

\* A flow may allocate its output port and its input port.
LEMMA PortsOfFlow ==
    ASSUME NEW f
    PROVE  AutoAllocated({f}) = AutoPorts \cap {<<"out", Src(f)>>, <<"in", Dst(f)>>}
<1>1. Outputs({f}) = {<<"out", Src(f)>>} /\ Inputs({f}) = {<<"in", Dst(f)>>}
  BY DEF Outputs, Inputs
<1>2. QED BY <1>1 DEF AutoAllocated

\* A set of flows allocates the ports of each.
LEMMA PortsOfAll ==
    ASSUME NEW some, NEW f \in some
    PROVE  AutoAllocated({f}) \subseteq AutoAllocated(some)
  BY PortsOfFlow DEF AutoAllocated, Outputs, Inputs

\* While nothing is committed, both ports of a flow are subscribed to each other.
LEMMA AtRest ==
    ASSUME BothEnds, ~Committing
    PROVE  subInputs = subOutputs
<1>1. \A e \in Envs : sub[e].pc = "idle"
  BY DEF Committing
<1>2. \A e \in Envs : HalfDone(e) = {}
  BY <1>1 DEF HalfDone, Updating
<1>3. QED BY <1>2 DEF BothEnds

\* autoDeletePort() spares the ports that a subscription has at either end.
LEMMA SubscribedKept ==
    ASSUME BothEnds, PortsSubscribed, ~Committing, NEW gone
    PROVE  \A f \in subInputs \cup subOutputs : AutoAllocated({f}) \subseteq AutoDeleted(gone)
<1> SUFFICES ASSUME NEW f \in subInputs, f \in subOutputs
             PROVE  AutoAllocated({f}) \subseteq AutoDeleted(gone)
  BY AtRest
<1>1. <<"out", Src(f)>> \in Outputs(subInputs) /\ <<"in", Dst(f)>> \in Inputs(subOutputs)
  BY DEF Outputs, Inputs
<1>2. \A x, y : <<"in", x>> # <<"out", y>>
  OBVIOUS
<1>3. /\ <<"out", Src(f)>> \notin Inputs(gone)
      /\ <<"in", Dst(f)>> \notin Outputs(gone)
  BY <1>2 DEF Outputs, Inputs
<1>4. AutoAllocated({f}) \subseteq allocated
  BY DEF PortsSubscribed
<1>5. QED BY <1>1, <1>3, <1>4, PortsOfFlow DEF AutoDeleted

(***************************************************************************)
(* The steps.                                                              *)
(***************************************************************************)

\* Nothing is connected and nothing committed.
LEMMA InitPorts == Init => Shapes /\ PortInv
<1> SUFFICES ASSUME Init PROVE Shapes /\ PortInv
  OBVIOUS
<1>1. /\ \A e \in Envs : sub[e] = [pc |-> "idle", todo |-> {}, error |-> FALSE]
      /\ \A e \in Envs : envFlows[e] = {} /\ envActive[e] = {}
      /\ subInputs = {} /\ subOutputs = {}
  BY DEF Init, Idle
<1>2. ~Committing /\ \A e \in Envs : ~Updating(e)
  BY <1>1 DEF Committing, Updating
<1>3. Shapes
<2>1. /\ sub = [e \in Envs |-> sub[e]]
      /\ envFlows = [e \in Envs |-> envFlows[e]] /\ envActive = [e \in Envs |-> envActive[e]]
  BY DEF Init
<2>2. \A e \in Envs : sub[e] \in [pc : Pcs, todo : {sub[e].todo}, error : BOOLEAN]
<3>1. [pc |-> "idle", todo |-> {}, error |-> FALSE] \in [pc : Pcs, todo : {{}}, error : BOOLEAN]
  BY DEF Pcs
<3>2. \A e \in Envs : sub[e].todo = {}
  BY <1>1
<3>3. QED BY <1>1, <3>1, <3>2
<2>3. QED BY <2>1, <2>2 DEF Shapes
<1>4. EnvsApart /\ TasksOfFlows /\ PortsLoaded /\ PortsSubscribed
  BY <1>1, <1>2 DEF EnvsApart, TasksOfFlows, PortsLoaded, PortsSubscribed
<1>5. BothEnds
  BY <1>1, <1>2 DEF BothEnds, HalfDone
<1>6. QED BY <1>3, <1>4, <1>5 DEF PortInv

\* The user edits between commits: the ports that are subscribed to stay.
LEMMA EditKeepsPorts ==
    ASSUME Shapes, PortInv, Edit,
           allocated \subseteq allocated' \/ \E gone : allocated' = AutoDeleted(gone)
    PROVE  Shapes' /\ PortInv'
<1>1. ~Committing /\ UNCHANGED <<envFlows, envActive, sub, subInputs, subOutputs>>
  BY DEF Edit, blockVars
<1>2. Shapes' /\ ~Committing'
  BY <1>1 DEF Shapes, Committing
<1>3. EnvsApart' /\ TasksOfFlows' /\ BothEnds'
  BY <1>1 DEF PortInv, EnvsApart, TasksOfFlows, Updating, UpdateFlows, BothEnds, HalfDone
<1>4. PortsLoaded'
  BY <1>2 DEF PortsLoaded
<1>5. PortsSubscribed'
<2>1. CASE allocated \subseteq allocated'
  BY <1>1, <2>1 DEF PortInv, PortsSubscribed, AutoAllocated
<2>2. ASSUME NEW gone, allocated' = AutoDeleted(gone) PROVE PortsSubscribed'
  BY <1>1, <2>2, SubscribedKept DEF PortInv, PortsSubscribed
<2>3. QED BY <2>1, <2>2
<1>6. QED BY <1>2, <1>3, <1>4, <1>5 DEF PortInv

\* A commit loads flows into the environments of their sources, and allocates
\* what they need.
LEMMA CommitKeepsPorts ==
    ASSUME Shapes, PortInv, Commit
    PROVE  Shapes' /\ PortInv'
<1> DEFINE now == commits + 1
           tagged == RectifiedFlows(NetworkFlows(Completes, Cached(cache, Completes, now)), now)
           flat == {Plain(f) : f \in tagged}
           parts(some) == [e \in Envs |-> {f \in some : Env(Obj(Src(f))) = e}]
           twice == Cardinality(tagged) > Cardinality(flat)
<1>1. /\ ~Committing /\ UNCHANGED <<envActive, subInputs, subOutputs>>
      /\ sub' = IF twice THEN sub
                ELSE [e \in Envs |->
                        [pc |-> "add", error |-> FALSE,
                         todo |-> Tasks("add", parts(flat)[e], envActive[e])]]
  BY DEF Commit, blockVars, Order
<1>2. PICK loaded \in IF twice THEN SUBSET flat ELSE {flat} :
         /\ allocated' = AutoDeleted(UNION {envFlows[e] : e \in Envs}) \cup AutoAllocated(loaded)
         /\ envFlows' = parts(loaded)
  BY DEF Commit
<1>3. ~twice => loaded = flat
  BY <1>2
<1> HIDE DEF tagged, flat, twice
<1>4. \A e \in Envs : /\ envFlows'[e] = {f \in loaded : Env(Obj(Src(f))) = e}
                      /\ parts(flat)[e] = {f \in flat : Env(Obj(Src(f))) = e}
  BY <1>2
<1>5. Shapes'
<2>1. envFlows' = [e \in Envs |-> envFlows'[e]] /\ envActive' = [e \in Envs |-> envActive'[e]]
  BY <1>1, <1>2 DEF Shapes
<2>2. CASE twice
  BY <1>1, <2>1, <2>2 DEF Shapes
<2>3. CASE ~twice
  BY <1>1, <2>1, <2>3 DEF Shapes, Pcs
<2>4. QED BY <2>2, <2>3
<1>6. EnvsApart'
  BY <1>1, <1>4 DEF PortInv, EnvsApart
<1>7. \A e \in Envs : sub[e].pc = "idle"
  BY <1>1 DEF Committing
<1>8. ~twice => \A e \in Envs :
         /\ sub'[e].pc = "add"
         /\ \A task \in sub'[e].todo : \E f \in envFlows'[e] \ envActive'[e] : task = <<"output", f>>
<2>1. ASSUME ~twice, NEW e \in Envs
      PROVE  sub'[e].pc = "add" /\ sub'[e].todo = Tasks("add", envFlows'[e], envActive'[e])
  BY <1>1, <1>3, <1>4, <2>1
<2>2. QED BY <2>1 DEF Tasks
<1>9. TasksOfFlows'
<2> SUFFICES ASSUME NEW e \in Envs, Updating(e)', NEW task \in sub'[e].todo
             PROVE  \E f \in UpdateFlows(e)' : task = <<"output", f>> \/ task = <<"input", f>>
  BY DEF TasksOfFlows
<2>1. sub'[e].pc \in {"add", "remove"}
  BY DEF Updating
<2>2. ~twice
<3>1. twice => sub'[e].pc = "idle"
  BY <1>1, <1>7
<3>2. QED BY ONLY <2>1, <3>1
<2>3. PICK f \in envFlows'[e] \ envActive'[e] : task = <<"output", f>>
  BY <1>8, <2>2
<2>4. UpdateFlows(e)' = envFlows'[e] \ envActive'[e]
<3>1. sub'[e].pc = "add"
  BY <1>8, <2>2
<3>2. QED BY ONLY <3>1 DEF UpdateFlows
<2>5. QED BY ONLY <2>3, <2>4
<1>10. \A e \in Envs : HalfDone(e)' = {}
<2>1. \A f, g : <<"input", f>> # <<"output", g>>
  OBVIOUS
<2>2. QED BY <1>1, <1>7, <1>8, <2>1 DEF HalfDone, Updating
<1>11. BothEnds'
  BY <1>1, <1>10, AtRest DEF PortInv, BothEnds
<1>12. PortsLoaded'
<2>1. ASSUME NEW e \in Envs, NEW f \in envFlows'[e] PROVE AutoAllocated({f}) \subseteq allocated'
<3>1. f \in loaded
  BY <1>4, <2>1
<3>2. QED BY <1>2, <3>1, PortsOfAll
<2>2. QED BY <2>1 DEF PortsLoaded, AutoAllocated
<1>13. PortsSubscribed'
<2>1. \A f \in subInputs \cup subOutputs :
         AutoAllocated({f}) \subseteq AutoDeleted(UNION {envFlows[e] : e \in Envs})
  BY <1>1, SubscribedKept DEF PortInv
<2>2. QED BY <1>1, <1>2, <2>1 DEF PortsSubscribed, AutoAllocated
<1>14. QED BY <1>5, <1>6, <1>9, <1>11, <1>12, <1>13 DEF PortInv

\* The sub-commit of one environment takes a step.
Moves(e, pc, todo, error) ==
    /\ pc \in Pcs /\ error \in BOOLEAN
    /\ \E new \in [pc : {pc}, todo : {todo}, error : {error}] : sub' = [sub EXCEPT ![e] = new]
    /\ envFlows' = envFlows
    /\ envActive' = envActive \/ \E some : envActive' = [envActive EXCEPT ![e] = some]

\* It leaves the others alone.
LEMMA OneSubCommit ==
    ASSUME Shapes, NEW e \in Envs, NEW pc, NEW todo, NEW error, Moves(e, pc, todo, error)
    PROVE  /\ Shapes'
           /\ sub'[e].pc = pc /\ sub'[e].todo = todo /\ sub'[e].error = error
           /\ \A o \in Envs \ {e} : sub'[o] = sub[o] /\ envActive'[o] = envActive[o]
<1>1. /\ pc \in Pcs /\ error \in BOOLEAN /\ envFlows' = envFlows
      /\ envActive' = envActive \/ \E some : envActive' = [envActive EXCEPT ![e] = some]
  BY DEF Moves
<1>2. PICK new \in [pc : {pc}, todo : {todo}, error : {error}] : sub' = [sub EXCEPT ![e] = new]
  BY DEF Moves
<1>3. /\ sub'[e] = new
      /\ \A o \in Envs \ {e} : sub'[o] = sub[o]
      /\ sub' = [o \in Envs |-> sub'[o]]
  BY <1>2 DEF Shapes
<1>4. /\ envActive' = [o \in Envs |-> envActive'[o]]
      /\ \A o \in Envs \ {e} : envActive'[o] = envActive[o]
  BY <1>1 DEF Shapes
<1>5. \A o \in Envs : sub'[o] \in [pc : Pcs, todo : {sub'[o].todo}, error : BOOLEAN]
  BY <1>1, <1>2, <1>3 DEF Shapes
<1>6. QED BY <1>1, <1>2, <1>3, <1>4, <1>5 DEF Shapes

\* A subscription is refused, or the output port takes its step, or then the
\* input port.
Refused(e, f) ==
    /\ <<"output", f>> \in sub[e].todo /\ (f \in subInputs <=> sub[e].pc = "add")
    /\ sub'[e].todo = sub[e].todo \ {<<"output", f>>} /\ sub'[e].error
    /\ UNCHANGED <<subInputs, subOutputs>>

OutputDone(e, f) ==
    /\ <<"output", f>> \in sub[e].todo /\ (f \in subInputs <=> sub[e].pc # "add")
    /\ sub'[e].todo = (sub[e].todo \ {<<"output", f>>}) \cup {<<"input", f>>}
    /\ sub'[e].error = sub[e].error
    /\ subInputs' = Toggled(subInputs, f, sub[e].pc) /\ subOutputs' = subOutputs

InputDone(e, f) ==
    /\ <<"input", f>> \in sub[e].todo
    /\ sub'[e].todo = sub[e].todo \ {<<"input", f>>} /\ sub'[e].error = sub[e].error
    /\ subOutputs' = Toggled(subOutputs, f, sub[e].pc) /\ subInputs' = subInputs

\* What is half done can be finished, as nobody else has the flow.
LEMMA InputMayFollow ==
    ASSUME PortInv, NEW e \in Envs, Updating(e), NEW f \in UpdateFlows(e), <<"input", f>> \in sub[e].todo
    PROVE  /\ f \in HalfDone(e)
           /\ f \in subInputs <=> sub[e].pc = "add"
           /\ f \in subOutputs <=> sub[e].pc # "add"
<1>1. f \in HalfDone(e)
  BY DEF HalfDone
<1>2. QED BY <1>1 DEF PortInv, BothEnds, Updating

LEMMA SubscribeStep ==
    ASSUME Shapes, PortInv, NEW e \in Envs, Subscribe(e)
    PROVE  /\ Shapes' /\ Updating(e) /\ sub'[e].pc = sub[e].pc
           /\ \A o \in Envs \ {e} : sub'[o] = sub[o]
           /\ \E f \in UpdateFlows(e) : Refused(e, f) \/ OutputDone(e, f) \/ InputDone(e, f)
<1>1. /\ Updating(e) /\ UNCHANGED <<envFlows, envActive>>
  BY DEF Subscribe, Updating
<1>2. PICK task \in sub[e].todo :
         LET flow == task[2]
             first == task[1] = "output"
             list == IF first THEN subInputs ELSE subOutputs
             wrong == (flow \in list) = (sub[e].pc = "add")
             list2 == IF wrong THEN list ELSE Toggled(list, flow, sub[e].pc)
         IN  /\ sub' = [sub EXCEPT
                   ![e].todo = (@ \ {task}) \cup
                               IF first /\ ~wrong THEN {<<"input", flow>>} ELSE {},
                   ![e].error = @ \/ wrong]
             /\ subInputs' = IF first THEN list2 ELSE subInputs
             /\ subOutputs' = IF first THEN subOutputs ELSE list2
  BY DEF Subscribe
<1>3. PICK f \in UpdateFlows(e) : task = <<"output", f>> \/ task = <<"input", f>>
  BY <1>1, <1>2 DEF PortInv, TasksOfFlows
<1> DEFINE first == task[1] = "output"
           list == IF first THEN subInputs ELSE subOutputs
           wrong == (f \in list) = (sub[e].pc = "add")
           todo == (sub[e].todo \ {task}) \cup IF first /\ ~wrong THEN {<<"input", f>>} ELSE {}
<1>4. task[2] = f /\ (first <=> task = <<"output", f>>) /\ (~first <=> task = <<"input", f>>)
  BY <1>3
<1>5. /\ sub' = [sub EXCEPT ![e].todo = todo, ![e].error = @ \/ wrong]
      /\ subInputs' = IF first /\ ~wrong THEN Toggled(subInputs, f, sub[e].pc) ELSE subInputs
      /\ subOutputs' = IF ~first /\ ~wrong THEN Toggled(subOutputs, f, sub[e].pc) ELSE subOutputs
  BY <1>2, <1>4
<1>6. /\ Shapes' /\ sub'[e].pc = sub[e].pc /\ sub'[e].todo = todo
      /\ sub'[e].error <=> (sub[e].error \/ wrong)
      /\ sub'[e].error \in BOOLEAN /\ sub[e].error \in BOOLEAN
      /\ \A o \in Envs \ {e} : sub'[o] = sub[o]
<2>1. PICK pc \in Pcs : pc = sub[e].pc
  BY DEF Shapes
<2>2. PICK bad \in BOOLEAN : /\ sub' = [sub EXCEPT ![e].todo = todo, ![e].error = bad]
                             /\ bad <=> (sub[e].error \/ wrong)
  BY <1>5 DEF Shapes
<2> HIDE DEF todo, wrong
<2>3. PICK jobs : jobs = todo
  OBVIOUS
<2>4. PICK new \in [pc : {pc}, todo : {jobs}, error : {bad}] : sub' = [sub EXCEPT ![e] = new]
<3>1. /\ [sub[e] EXCEPT !.todo = jobs, !.error = bad] \in [pc : {pc}, todo : {jobs}, error : {bad}]
      /\ [sub EXCEPT ![e].todo = jobs, ![e].error = bad]
            = [sub EXCEPT ![e] = [sub[e] EXCEPT !.todo = jobs, !.error = bad]]
  BY <2>1 DEF Shapes
<3>2. QED BY <2>2, <2>3, <3>1
<2>5. Moves(e, pc, jobs, bad)
  BY <1>1, <2>4 DEF Moves
<2>6. /\ Shapes' /\ sub'[e].pc = pc /\ sub'[e].todo = jobs /\ sub'[e].error = bad
      /\ \A o \in Envs \ {e} : sub'[o] = sub[o]
  BY <2>5, OneSubCommit
<2>7. sub[e].error \in BOOLEAN
  BY DEF Shapes
<2>8. QED BY <2>1, <2>2, <2>3, <2>6, <2>7 DEF todo
<1>7. CASE first /\ wrong
<2>1. task = <<"output", f>> /\ <<"output", f>> \in sub[e].todo
  BY <1>2, <1>4, <1>7
<2>2. sub'[e].todo = sub[e].todo \ {task}
  BY <1>6, <1>7
<2>3. sub'[e].error
  BY <1>6, <1>7
<2>4. UNCHANGED <<subInputs, subOutputs>>
  BY <1>5, <1>7
<2>5. f \in subInputs <=> sub[e].pc = "add"
  BY <1>7
<2>6. Refused(e, f)
  BY <2>1, <2>2, <2>3, <2>4, <2>5 DEF Refused
<2>7. QED BY <1>1, <1>6, <2>6
<1>8. CASE first /\ ~wrong
<2>1. task = <<"output", f>> /\ <<"output", f>> \in sub[e].todo
  BY <1>2, <1>4, <1>8
<2>2. sub'[e].todo = (sub[e].todo \ {task}) \cup {<<"input", f>>}
  BY <1>6, <1>8
<2>3. sub'[e].error = sub[e].error
  BY <1>6, <1>8
<2>4. subInputs' = Toggled(subInputs, f, sub[e].pc) /\ subOutputs' = subOutputs
  BY <1>5, <1>8
<2>5. f \in subInputs <=> sub[e].pc # "add"
  BY <1>8
<2>6. OutputDone(e, f)
  BY <2>1, <2>2, <2>3, <2>4, <2>5 DEF OutputDone
<2>7. QED BY <1>1, <1>6, <2>6
<1>9. CASE ~first
<2>1. task = <<"input", f>> /\ <<"input", f>> \in sub[e].todo
  BY <1>2, <1>4, <1>9
<2>2. f \in subOutputs <=> sub[e].pc # "add"
  BY <1>1, <2>1, InputMayFollow
<2>3. ~wrong
  BY <1>9, <2>2
<2>4. sub'[e].todo = sub[e].todo \ {task}
  BY <1>6, <1>9
<2>5. sub'[e].error = sub[e].error
  BY <1>6, <2>3
<2>6. subOutputs' = Toggled(subOutputs, f, sub[e].pc) /\ subInputs' = subInputs
  BY <1>5, <1>9, <2>3
<2>7. InputDone(e, f)
  BY <2>1, <2>4, <2>5, <2>6 DEF InputDone
<2>8. QED BY <1>1, <1>6, <2>7
<1>10. QED BY <1>7, <1>8, <1>9

\* A subscription takes one step: the output port, then the input port.
LEMMA SubscribeKeepsPorts ==
    ASSUME Shapes, PortInv, NEW e \in Envs, Subscribe(e)
    PROVE  Shapes' /\ PortInv'
<1>1. /\ Updating(e) /\ UNCHANGED <<allocated, envFlows, envActive>>
  BY DEF Subscribe, Updating
<1>2. /\ Shapes' /\ sub'[e].pc = sub[e].pc
      /\ \A o \in Envs \ {e} : sub'[o] = sub[o]
  BY SubscribeStep
<1>3. PICK f \in UpdateFlows(e) : Refused(e, f) \/ OutputDone(e, f) \/ InputDone(e, f)
  BY SubscribeStep
<1>4. Env(Obj(Src(f))) = e /\ (sub[e].pc = "add" => f \in envFlows[e])
  BY <1>1, <1>3 DEF PortInv, EnvsApart, UpdateFlows, Updating
<1>5. \A o \in Envs \ {e} : f \notin HalfDone(o) /\ HalfDone(o)' = HalfDone(o)
<2>1. ASSUME NEW o \in Envs \ {e} PROVE HalfDone(o)' = HalfDone(o)
  BY <1>1, <1>2 DEF HalfDone, Updating, UpdateFlows
<2>2. ASSUME NEW o \in Envs \ {e}, f \in HalfDone(o) PROVE FALSE
  BY <1>4, <2>2 DEF HalfDone, UpdateFlows, PortInv, EnvsApart
<2>3. QED BY <2>1, <2>2
<1>6. EnvsApart' /\ PortsLoaded'
  BY <1>1, <1>2 DEF PortInv, EnvsApart, PortsLoaded, Committing, Updating
<1>7. TasksOfFlows'
<2>1. ASSUME NEW o \in Envs, Updating(o)', NEW job \in sub'[o].todo
      PROVE  \E g \in UpdateFlows(o)' : job = <<"output", g>> \/ job = <<"input", g>>
<3>1. UpdateFlows(o)' = UpdateFlows(o) /\ Updating(o)
  BY <1>1, <1>2, <2>1 DEF UpdateFlows, Updating
<3>2. job \in sub[o].todo \/ (o = e /\ job = <<"input", f>>)
  BY <1>2, <1>3, <2>1 DEF Refused, OutputDone, InputDone
<3>3. QED BY <1>3, <3>1, <3>2 DEF PortInv, TasksOfFlows
<2>2. QED BY <2>1 DEF TasksOfFlows
<1>8. UpdateFlows(e)' = UpdateFlows(e) /\ Updating(e)'
  BY <1>1, <1>2 DEF UpdateFlows, Updating
<1>9. \A g, h : /\ <<"input", g>> = <<"input", h>> => g = h
                /\ <<"output", g>> = <<"output", h>> => g = h
                /\ <<"input", g>> # <<"output", h>>
  OBVIOUS
<1>10. CASE Refused(e, f)
<2>1. /\ sub'[e].todo = sub[e].todo \ {<<"output", f>>}
      /\ subInputs' = subInputs /\ subOutputs' = subOutputs
  BY <1>10 DEF Refused
<2>2. HalfDone(e)' = HalfDone(e)
  BY <1>1, <1>8, <1>9, <2>1 DEF HalfDone
<2>3. BothEnds'
  BY <1>2, <1>5, <2>1, <2>2 DEF PortInv, BothEnds
<2>4. PortsSubscribed'
  BY <1>1, <2>1 DEF PortInv, PortsSubscribed, AutoAllocated
<2>5. QED BY <1>2, <1>6, <1>7, <2>3, <2>4 DEF PortInv
<1>11. CASE OutputDone(e, f)
<2>1. /\ <<"output", f>> \in sub[e].todo /\ (f \in subInputs <=> sub[e].pc # "add")
      /\ sub'[e].todo = (sub[e].todo \ {<<"output", f>>}) \cup {<<"input", f>>}
      /\ subInputs' = Toggled(subInputs, f, sub[e].pc) /\ subOutputs' = subOutputs
  BY <1>11 DEF OutputDone
<2>2. HalfDone(e)' = HalfDone(e) \cup {f}
  BY <1>1, <1>8, <1>9, <2>1 DEF HalfDone
<2>3. f \notin HalfDone(e)
  BY <2>1 DEF PortInv, BothEnds
<2>4. f \in subInputs <=> f \in subOutputs
  BY <1>5, <2>3 DEF PortInv, BothEnds
<2>5. /\ f \in subInputs' <=> sub[e].pc = "add"
      /\ \A g : g # f => (g \in subInputs' <=> g \in subInputs)
  BY <2>1 DEF Toggled
<2>6. f \in subOutputs <=> sub[e].pc = "remove"
  BY <1>1, <2>1, <2>4 DEF Updating
<2>7. BothEnds'
  BY <1>2, <1>5, <1>9, <2>1, <2>2, <2>3, <2>5, <2>6 DEF PortInv, BothEnds
<2>8. PortsSubscribed'
<3>1. ASSUME NEW g \in subInputs' \cup subOutputs' PROVE AutoAllocated({g}) \subseteq allocated
<4>1. CASE g = f /\ sub[e].pc = "add"
  BY <1>1, <1>4, <4>1 DEF PortInv, PortsLoaded, Committing
<4>2. CASE ~(g = f /\ sub[e].pc = "add")
  BY <2>1, <2>5, <3>1, <4>2 DEF PortInv, PortsSubscribed
<4>3. QED BY <4>1, <4>2
<3>2. QED BY <1>1, <3>1 DEF PortsSubscribed, AutoAllocated
<2>9. QED BY <1>2, <1>6, <1>7, <2>7, <2>8 DEF PortInv
<1>12. CASE InputDone(e, f)
<2>1. /\ <<"input", f>> \in sub[e].todo
      /\ sub'[e].todo = sub[e].todo \ {<<"input", f>>} /\ subInputs' = subInputs
      /\ subOutputs' = Toggled(subOutputs, f, sub[e].pc)
  BY <1>12 DEF InputDone
<2>2. /\ f \in HalfDone(e)
      /\ f \in subInputs <=> sub[e].pc = "add"
      /\ f \in subOutputs <=> sub[e].pc # "add"
  BY <1>1, <2>1, InputMayFollow
<2>3. HalfDone(e)' = HalfDone(e) \ {f}
  BY <1>1, <1>8, <1>9, <2>1 DEF HalfDone
<2>4. /\ f \in subOutputs' <=> f \in subInputs
      /\ \A g : g # f => (g \in subOutputs' <=> g \in subOutputs)
  BY <1>1, <2>1, <2>2 DEF Toggled, Updating
<2>5. BothEnds'
  BY <1>2, <1>5, <2>1, <2>3, <2>4 DEF PortInv, BothEnds
<2>6. PortsSubscribed'
  BY <1>1, <2>1, <2>4 DEF PortInv, PortsSubscribed, AutoAllocated
<2>7. QED BY <1>2, <1>6, <1>7, <2>5, <2>6 DEF PortInv
<1>13. QED BY <1>3, <1>10, <1>11, <1>12

\* The other steps of a sub-commit leave the subscriptions alone.
LEMMA RestKeepsPorts ==
    ASSUME Shapes, PortInv, NEW e \in Envs, sub[e].pc # "idle", Shapes',
           UNCHANGED <<allocated, envFlows, subInputs, subOutputs>>,
           \A o \in Envs \ {e} : sub'[o] = sub[o] /\ envActive'[o] = envActive[o],
           envActive'[e] \in {envActive[e], envFlows[e]},
           Updating(e) => sub[e].todo = {},
           Updating(e)' => \A task \in sub'[e].todo : \E f \in UpdateFlows(e)' : task = <<"output", f>>
    PROVE  PortInv'
<1>1. EnvsApart'
  BY DEF PortInv, EnvsApart
<1>2. ASSUME NEW o \in Envs \ {e}
      PROVE  /\ Updating(o)' <=> Updating(o)
             /\ UpdateFlows(o)' = UpdateFlows(o) /\ HalfDone(o)' = HalfDone(o)
  BY DEF Updating, UpdateFlows, HalfDone
<1>3. TasksOfFlows'
<2>1. ASSUME NEW o \in Envs, Updating(o)', NEW task \in sub'[o].todo
      PROVE  \E f \in UpdateFlows(o)' : task = <<"output", f>> \/ task = <<"input", f>>
<3>1. CASE o = e
  BY <2>1, <3>1
<3>2. CASE o # e
  BY <1>2, <2>1, <3>2 DEF PortInv, TasksOfFlows
<3>3. QED BY <3>1, <3>2
<2>2. QED BY <2>1 DEF TasksOfFlows
<1>4. HalfDone(e) = {} /\ HalfDone(e)' = {}
<2>1. \A f, g : <<"input", f>> # <<"output", g>>
  OBVIOUS
<2>2. QED BY <2>1 DEF HalfDone
<1>5. BothEnds'
<2>1. ASSUME NEW o \in Envs, NEW f \in HalfDone(o)'
      PROVE  /\ <<"output", f>> \notin sub'[o].todo
             /\ f \in subInputs' <=> sub'[o].pc = "add"
             /\ f \in subOutputs' <=> sub'[o].pc = "remove"
  BY <1>2, <1>4, <2>1 DEF PortInv, BothEnds
<2>2. \A f \in subInputs' \cup subOutputs' :
         f \in subInputs' \cap subOutputs' \/ \E o \in Envs : f \in HalfDone(o)'
  BY <1>2, <1>4 DEF PortInv, BothEnds
<2>3. QED BY <2>1, <2>2 DEF BothEnds
<1>6. PortsLoaded'
  BY DEF PortInv, PortsLoaded, Committing, AutoAllocated
<1>7. PortsSubscribed'
  BY DEF PortInv, PortsSubscribed, AutoAllocated
<1>8. QED BY <1>1, <1>3, <1>5, <1>6, <1>7 DEF PortInv

\* updateFlows() has ended: with an error, or the second, or the first.
LEMMA EndUpdateStep ==
    ASSUME Shapes, NEW e \in Envs, EndUpdate(e)
    PROVE  /\ Shapes' /\ Updating(e) /\ sub[e].todo = {} /\ sub'[e].error = sub[e].error
           /\ \A o \in Envs \ {e} : sub'[o] = sub[o]
           /\ \/ sub[e].error /\ sub'[e].pc = "over"
              \/ ~sub[e].error /\ sub[e].pc = "remove" /\ sub'[e].pc = "install"
              \/ /\ ~sub[e].error /\ sub[e].pc = "add" /\ sub'[e].pc = "remove"
                 /\ sub'[e].todo = Tasks("remove", envFlows[e], envActive[e])
<1>1. /\ Updating(e) /\ sub[e].todo = {}
      /\ UNCHANGED <<envFlows, envActive>>
      /\ sub[e].error \in BOOLEAN
  BY DEF EndUpdate, Updating, Shapes
<1>2. sub' = [sub EXCEPT ![e] =
          IF sub[e].error THEN [sub[e] EXCEPT !.pc = "over"]
          ELSE IF sub[e].pc = "remove" THEN [sub[e] EXCEPT !.pc = "install"]
          ELSE [sub[e] EXCEPT !.pc = "remove", !.todo = Tasks("remove", envFlows[e], envActive[e])]]
  BY DEF EndUpdate, Order, Shapes
<1>3. PICK error \in BOOLEAN : error = sub[e].error
  BY <1>1
<1>4. envFlows' = envFlows /\ envActive' = envActive
  BY <1>1
<1>5. CASE sub[e].error
<2>1. PICK new \in [pc : {"over"}, todo : {sub[e].todo}, error : {error}] : sub' = [sub EXCEPT ![e] = new]
<3>1. [sub[e] EXCEPT !.pc = "over"] \in [pc : {"over"}, todo : {sub[e].todo}, error : {error}]
  BY <1>3 DEF Shapes
<3>2. sub' = [sub EXCEPT ![e] = [sub[e] EXCEPT !.pc = "over"]]
  BY <1>2, <1>5
<3>3. QED BY <3>1, <3>2
<2>2. Moves(e, "over", sub[e].todo, error)
  BY <1>4, <2>1 DEF Moves, Pcs
<2>3. /\ Shapes' /\ sub'[e].pc = "over" /\ sub'[e].error = error
      /\ \A o \in Envs \ {e} : sub'[o] = sub[o]
  BY <2>2, OneSubCommit
<2>4. QED BY <1>1, <1>3, <1>5, <2>3
<1>6. CASE ~sub[e].error /\ sub[e].pc = "remove"
<2>1. PICK new \in [pc : {"install"}, todo : {sub[e].todo}, error : {error}] : sub' = [sub EXCEPT ![e] = new]
<3>1. [sub[e] EXCEPT !.pc = "install"] \in [pc : {"install"}, todo : {sub[e].todo}, error : {error}]
  BY <1>3 DEF Shapes
<3>2. sub' = [sub EXCEPT ![e] = [sub[e] EXCEPT !.pc = "install"]]
  BY <1>2, <1>6
<3>3. QED BY <3>1, <3>2
<2>2. Moves(e, "install", sub[e].todo, error)
  BY <1>4, <2>1 DEF Moves, Pcs
<2>3. /\ Shapes' /\ sub'[e].pc = "install" /\ sub'[e].error = error
      /\ \A o \in Envs \ {e} : sub'[o] = sub[o]
  BY <2>2, OneSubCommit
<2>4. QED BY <1>1, <1>3, <1>6, <2>3
<1>7. CASE ~sub[e].error /\ sub[e].pc # "remove"
<2> DEFINE jobs == Tasks("remove", envFlows[e], envActive[e])
<2>1. PICK todo : todo = jobs
  OBVIOUS
<2> HIDE DEF jobs
<2>2. PICK new \in [pc : {"remove"}, todo : {todo}, error : {error}] : sub' = [sub EXCEPT ![e] = new]
<3>1. [sub[e] EXCEPT !.pc = "remove", !.todo = todo] \in [pc : {"remove"}, todo : {todo}, error : {error}]
  BY <1>3 DEF Shapes
<3>2. sub' = [sub EXCEPT ![e] = [sub[e] EXCEPT !.pc = "remove", !.todo = todo]]
  BY <1>2, <1>7, <2>1 DEF jobs
<3>3. QED BY <3>1, <3>2
<2>3. Moves(e, "remove", todo, error)
  BY <1>4, <2>2 DEF Moves, Pcs
<2>4. /\ Shapes' /\ sub'[e].pc = "remove" /\ sub'[e].todo = todo /\ sub'[e].error = error
      /\ \A o \in Envs \ {e} : sub'[o] = sub[o]
  BY <2>3, OneSubCommit
<2>5. sub[e].pc = "add"
  BY <1>1, <1>7 DEF Updating
<2>6. QED BY <1>1, <1>3, <1>7, <2>1, <2>4, <2>5 DEF jobs
<1>8. QED BY <1>5, <1>6, <1>7

\* What follows updateFlows() starts with threads for output ports.
LEMMA EndUpdateKeepsPorts ==
    ASSUME Shapes, PortInv, NEW e \in Envs, EndUpdate(e)
    PROVE  Shapes' /\ PortInv'
<1>1. UNCHANGED <<allocated, envFlows, envActive, subInputs, subOutputs>>
  BY DEF EndUpdate, blockVars
<1>2. /\ Shapes' /\ Updating(e) /\ sub[e].todo = {}
      /\ \A o \in Envs \ {e} : sub'[o] = sub[o]
  BY EndUpdateStep
<1>3. ASSUME Updating(e)', NEW task \in sub'[e].todo
      PROVE  \E f \in UpdateFlows(e)' : task = <<"output", f>>
<2>1. sub'[e].pc = "remove" /\ sub'[e].todo = Tasks("remove", envFlows[e], envActive[e])
  BY <1>3, EndUpdateStep DEF Updating
<2>2. UpdateFlows(e)' = envActive[e] \ envFlows[e]
  BY <1>1, <2>1 DEF UpdateFlows
<2>3. QED BY <1>3, <2>1, <2>2 DEF Tasks
<1>4. sub[e].pc # "idle"
  BY <1>2 DEF Updating
<1>5. QED BY <1>1, <1>2, <1>3, <1>4, RestKeepsPorts

\* The threads that activate and deactivate blocks
Activation(e) ==
    {<<"on", b>> : b \in ObjsWithout(envFlows[e] \ envActive[e], envActive[e])} \cup
    {<<"off", b>> : b \in ObjsWithout(envActive[e] \ envFlows[e], envFlows[e])}

\* installBufferManagers() gives up, or the new flows become the active ones.
LEMMA InstallStep ==
    ASSUME Shapes, NEW e \in Envs, Install(e)
    PROVE  /\ Shapes' /\ sub[e].pc = "install"
           /\ \A o \in Envs \ {e} : sub'[o] = sub[o] /\ envActive'[o] = envActive[o]
           /\ \/ sub'[e].pc = "over" /\ excused' /\ envActive' = envActive
              \/ /\ sub'[e].pc = "activate" /\ sub'[e].todo = Activation(e)
                 /\ sub'[e].error = sub[e].error /\ (excused' <=> excused)
                 /\ envActive' = [envActive EXCEPT ![e] = envFlows[e]]
                 /\ DOMAIN managers' = DOMAIN managers \cup Sources(e)
<1>1. /\ sub[e].pc = "install" /\ sub[e].error \in BOOLEAN /\ UNCHANGED envFlows
  BY DEF Install, Shapes
<1>2. PICK refused \in BOOLEAN :
         /\ sub' = [sub EXCEPT ![e] =
               IF refused THEN [sub[e] EXCEPT !.pc = "over", !.error = TRUE]
               ELSE [sub[e] EXCEPT !.pc = "activate", !.todo = Activation(e)]]
         /\ envActive' = IF refused THEN envActive ELSE [envActive EXCEPT ![e] = envFlows[e]]
         /\ excused' = (excused \/ refused)
         /\ ~refused => DOMAIN managers' = DOMAIN managers \cup Sources(e)
<2>1. PICK first \in [Sources(e) -> {Dst(f) : f \in envFlows[e]}] :
         LET dsts(s) == {Dst(f) : f \in {g \in envFlows[e] \ envActive[e] : Src(g) = s}}
             refused == \E s \in Sources(e) : GivesUp(s, first[s], dsts(s))
         IN  /\ \E given \in IF refused THEN SUBSET Sources(e) ELSE {Sources(e)} :
                   managers' = [s \in DOMAIN managers \cup given |->
                       IF s \in given THEN ManagerFor(s, first[s]) ELSE managers[s]]
             /\ sub' = [sub EXCEPT ![e] =
                   IF refused THEN [@ EXCEPT !.pc = "over", !.error = TRUE]
                   ELSE [@ EXCEPT !.pc = "activate", !.todo =
                       {<<"on", b>> : b \in ObjsWithout(envFlows[e] \ envActive[e],
                                                        envActive[e])} \cup
                       {<<"off", b>> : b \in ObjsWithout(envActive[e] \ envFlows[e],
                                                         envFlows[e])}]]
             /\ envActive' = IF refused THEN envActive
                             ELSE [envActive EXCEPT ![e] = envFlows[e]]
             /\ excused' = (excused \/ refused)
  BY DEF Install
<2> DEFINE dsts(s) == {Dst(f) : f \in {g \in envFlows[e] \ envActive[e] : Src(g) = s}}
           refused == \E s \in Sources(e) : GivesUp(s, first[s], dsts(s))
<2>2. sub' = [sub EXCEPT ![e] =
               IF refused THEN [sub[e] EXCEPT !.pc = "over", !.error = TRUE]
               ELSE [sub[e] EXCEPT !.pc = "activate", !.todo = Activation(e)]]
  BY <2>1 DEF Shapes, Activation
<2>3. /\ envActive' = IF refused THEN envActive ELSE [envActive EXCEPT ![e] = envFlows[e]]
      /\ excused' = (excused \/ refused)
  BY <2>1
<2>4. ASSUME ~refused PROVE DOMAIN managers' = DOMAIN managers \cup Sources(e)
<3>1. \E given \in {Sources(e)} :
         managers' = [s \in DOMAIN managers \cup given |->
             IF s \in given THEN ManagerFor(s, first[s]) ELSE managers[s]]
  BY <2>1, <2>4
<3>2. QED BY <3>1
<2>5. refused \in BOOLEAN
  OBVIOUS
<2> HIDE DEF refused
<2>6. QED BY <2>2, <2>3, <2>4, <2>5
<1>3. CASE refused
<2>1. PICK new \in [pc : {"over"}, todo : {sub[e].todo}, error : {TRUE}] : sub' = [sub EXCEPT ![e] = new]
<3>1. [sub[e] EXCEPT !.pc = "over", !.error = TRUE] \in [pc : {"over"}, todo : {sub[e].todo}, error : {TRUE}]
  BY DEF Shapes
<3>2. sub' = [sub EXCEPT ![e] = [sub[e] EXCEPT !.pc = "over", !.error = TRUE]]
  BY <1>2, <1>3
<3>3. QED BY <3>1, <3>2
<2>2. envFlows' = envFlows /\ envActive' = envActive
  BY <1>1, <1>2, <1>3
<2>3. Moves(e, "over", sub[e].todo, TRUE)
  BY <2>1, <2>2 DEF Moves, Pcs
<2>4. /\ Shapes' /\ sub'[e].pc = "over"
      /\ \A o \in Envs \ {e} : sub'[o] = sub[o] /\ envActive'[o] = envActive[o]
  BY <2>3, OneSubCommit
<2>5. excused'
  BY <1>2, <1>3
<2>6. QED BY <1>1, <2>2, <2>4, <2>5
<1>4. CASE ~refused
<2>1. PICK error \in BOOLEAN : error = sub[e].error
  BY <1>1
<2>2. PICK todo : todo = Activation(e)
  OBVIOUS
<2>3. PICK new \in [pc : {"activate"}, todo : {todo}, error : {error}] : sub' = [sub EXCEPT ![e] = new]
<3>1. [sub[e] EXCEPT !.pc = "activate", !.todo = todo]
         \in [pc : {"activate"}, todo : {todo}, error : {error}]
  BY <2>1 DEF Shapes
<3>2. sub' = [sub EXCEPT ![e] = [sub[e] EXCEPT !.pc = "activate", !.todo = todo]]
  BY <1>2, <1>4, <2>2
<3>3. QED BY <3>1, <3>2
<2>5. /\ envFlows' = envFlows /\ envActive' = [envActive EXCEPT ![e] = envFlows[e]]
  BY <1>1, <1>2, <1>4
<2>6. Moves(e, "activate", todo, error)
  BY <2>3, <2>5 DEF Moves, Pcs
<2>8. /\ Shapes' /\ sub'[e].pc = "activate" /\ sub'[e].todo = todo /\ sub'[e].error = error
      /\ \A o \in Envs \ {e} : sub'[o] = sub[o] /\ envActive'[o] = envActive[o]
  BY <2>6, OneSubCommit
<2>9. (excused' <=> excused) /\ DOMAIN managers' = DOMAIN managers \cup Sources(e)
  BY <1>2, <1>4
<2>10. QED BY <1>1, <2>1, <2>2, <2>5, <2>8, <2>9
<1>5. QED BY <1>3, <1>4

LEMMA InstallKeepsPorts ==
    ASSUME Shapes, PortInv, NEW e \in Envs, Install(e)
    PROVE  Shapes' /\ PortInv'
<1>1. UNCHANGED <<allocated, envFlows, subInputs, subOutputs>>
  BY DEF Install
<1>2. /\ Shapes' /\ sub[e].pc = "install" /\ sub'[e].pc \in {"over", "activate"}
      /\ \A o \in Envs \ {e} : sub'[o] = sub[o] /\ envActive'[o] = envActive[o]
  BY InstallStep
<1>3. envActive'[e] \in {envActive[e], envFlows[e]}
  BY InstallStep DEF Shapes
<1>4. ~Updating(e) /\ ~Updating(e)' /\ sub[e].pc # "idle"
  BY <1>2 DEF Updating
<1>5. QED BY <1>1, <1>2, <1>3, <1>4, RestKeepsPorts

\* A block has been activated or deactivated, or has failed to.
LEMMA ActivatedStep ==
    ASSUME Shapes, NEW e \in Envs, Activating(e), NEW task, NEW ok, Activated(e, task, ok)
    PROVE  /\ Shapes' /\ sub'[e].pc = "activate" /\ sub'[e].todo = sub[e].todo \ {task}
           /\ sub'[e].error <=> (sub[e].error \/ ~ok)
           /\ \A o \in Envs \ {e} : sub'[o] = sub[o]
<1>1. envFlows' = envFlows /\ envActive' = envActive
  BY DEF Activated
<1>2. PICK bad \in BOOLEAN : /\ sub' = [sub EXCEPT ![e].todo = sub[e].todo \ {task}, ![e].error = bad]
                             /\ bad <=> (sub[e].error \/ ~ok)
  BY DEF Activated, Shapes
<1>3. PICK jobs : jobs = sub[e].todo \ {task}
  OBVIOUS
<1>4. PICK new \in [pc : {"activate"}, todo : {jobs}, error : {bad}] : sub' = [sub EXCEPT ![e] = new]
<2>1. /\ [sub[e] EXCEPT !.todo = jobs, !.error = bad] \in [pc : {"activate"}, todo : {jobs}, error : {bad}]
      /\ [sub EXCEPT ![e].todo = jobs, ![e].error = bad]
            = [sub EXCEPT ![e] = [sub[e] EXCEPT !.todo = jobs, !.error = bad]]
  BY DEF Shapes, Activating
<2>2. QED BY <1>2, <1>3, <2>1
<1>5. Moves(e, "activate", jobs, bad)
  BY <1>1, <1>4 DEF Moves, Pcs
<1>6. /\ Shapes' /\ sub'[e].pc = "activate" /\ sub'[e].todo = jobs /\ sub'[e].error = bad
      /\ \A o \in Envs \ {e} : sub'[o] = sub[o]
  BY <1>5, OneSubCommit
<1>7. QED BY <1>2, <1>3, <1>6

\* All blocks have.
LEMMA EndActivationStep ==
    ASSUME Shapes, NEW e \in Envs, EndActivation(e)
    PROVE  /\ Shapes' /\ Activating(e) /\ sub'[e].pc = "over" /\ sub'[e].error = sub[e].error
           /\ \A o \in Envs \ {e} : sub'[o] = sub[o]
<1>1. /\ Activating(e) /\ sub' = [sub EXCEPT ![e].pc = "over"]
      /\ envFlows' = envFlows /\ envActive' = envActive
  BY DEF EndActivation, Activating
<1>2. PICK error \in BOOLEAN : error = sub[e].error
  BY DEF Shapes
<1>3. PICK new \in [pc : {"over"}, todo : {sub[e].todo}, error : {error}] : sub' = [sub EXCEPT ![e] = new]
<2>1. /\ [sub[e] EXCEPT !.pc = "over"] \in [pc : {"over"}, todo : {sub[e].todo}, error : {error}]
      /\ [sub EXCEPT ![e].pc = "over"] = [sub EXCEPT ![e] = [sub[e] EXCEPT !.pc = "over"]]
  BY <1>2 DEF Shapes
<2>2. QED BY <1>1, <2>1
<1>4. Moves(e, "over", sub[e].todo, error)
  BY <1>1, <1>3 DEF Moves, Pcs
<1>5. /\ Shapes' /\ sub'[e].pc = "over" /\ sub'[e].error = error
      /\ \A o \in Envs \ {e} : sub'[o] = sub[o]
  BY <1>4, OneSubCommit
<1>6. QED BY <1>1, <1>2, <1>5

\* The activation leaves the flows alone.
LEMMA ActivationKeepsPorts ==
    ASSUME Shapes, PortInv, NEW e \in Envs, Activating(e), Shapes',
           sub'[e].pc \in {"over", "activate"}, \A o \in Envs \ {e} : sub'[o] = sub[o],
           UNCHANGED <<allocated, envFlows, envActive, subInputs, subOutputs>>
    PROVE  PortInv'
<1>1. ~Updating(e)' /\ ~Updating(e) /\ sub[e].pc # "idle"
  BY DEF Updating, Activating
<1>2. QED BY <1>1, RestKeepsPorts

\* The sub-commits are idle again, and remember whether there was an error.
LEMMA EndCommitStep ==
    ASSUME Shapes, EndCommit
    PROVE  /\ Shapes' /\ ~Committing'
           /\ \A e \in Envs : sub[e].pc = "over" /\ sub'[e].pc = "idle" /\ sub'[e].error = sub[e].error
<1>1. /\ \A e \in Envs : sub[e].pc = "over"
      /\ sub' = [e \in Envs |-> [Idle EXCEPT !.error = sub[e].error]]
      /\ UNCHANGED <<envFlows, envActive>>
  BY DEF EndCommit
<1>2. \A e \in Envs : sub'[e] \in [pc : {"idle"}, todo : {{}}, error : {sub[e].error}]
  BY <1>1 DEF Idle, Shapes
<1>3. \A e \in Envs : sub[e].error \in BOOLEAN
  BY DEF Shapes
<1>4. \A e \in Envs : sub'[e] \in [pc : Pcs, todo : {sub'[e].todo}, error : BOOLEAN]
  BY <1>2, <1>3 DEF Pcs
<1>5. sub' = [e \in Envs |-> sub'[e]]
  BY <1>1
<1>6. Shapes'
  BY <1>1, <1>4, <1>5 DEF Shapes
<1>7. QED BY <1>1, <1>2, <1>6 DEF Committing

LEMMA EndCommitKeepsPorts ==
    ASSUME Shapes, PortInv, EndCommit
    PROVE  Shapes' /\ PortInv'
<1>1. UNCHANGED <<allocated, envFlows, envActive, subInputs, subOutputs>>
  BY DEF EndCommit, blockVars
<1>2. Shapes' /\ ~Committing' /\ \A e \in Envs : ~Updating(e) /\ ~Updating(e)'
  BY EndCommitStep DEF Updating
<1>3. EnvsApart' /\ TasksOfFlows' /\ PortsLoaded' /\ PortsSubscribed'
  BY <1>1, <1>2 DEF PortInv, EnvsApart, TasksOfFlows, PortsLoaded, PortsSubscribed, AutoAllocated
<1>4. BothEnds'
  BY <1>1, <1>2 DEF PortInv, BothEnds, HalfDone
<1>5. QED BY <1>2, <1>3, <1>4 DEF PortInv

LEMMA StepKeepsPorts == Shapes /\ PortInv /\ [Next]_vars => Shapes' /\ PortInv'
<1> SUFFICES ASSUME Shapes, PortInv, [Next]_vars PROVE Shapes' /\ PortInv'
  OBVIOUS
<1>1. ASSUME NEW t, NEW flow, Connect(t, flow) PROVE Shapes' /\ PortInv'
<2>1. Edit /\ allocated' = allocated \cup AutoAllocated({flow})
  BY <1>1 DEF Connect
<2>2. QED BY <2>1, EditKeepsPorts
<1>2. ASSUME NEW t, NEW flow, Disconnect(t, flow) PROVE Shapes' /\ PortInv'
<2>1. Edit /\ allocated' = IF flow \in flows[t] THEN AutoDeleted({flow}) ELSE allocated
  BY <1>2 DEF Disconnect
<2>2. QED BY <2>1, EditKeepsPorts
<1>3. ASSUME NEW t, NEW recursive \in BOOLEAN, DisconnectAll(t, recursive) PROVE Shapes' /\ PortInv'
<2>1. Edit /\ \E gone : allocated' = AutoDeleted(gone)
  BY <1>3 DEF DisconnectAll
<2>2. QED BY <2>1, EditKeepsPorts
<1>4. ASSUME NEW e \in Envs, SubCommit(e) PROVE Shapes' /\ PortInv'
<2>1. CASE Subscribe(e) \/ EndUpdate(e) \/ Install(e)
  BY <2>1, SubscribeKeepsPorts, EndUpdateKeepsPorts, InstallKeepsPorts
<2>2. CASE EndActivation(e)
<3>1. UNCHANGED <<allocated, envFlows, envActive, subInputs, subOutputs>>
  BY <2>2 DEF EndActivation, blockVars
<3>2. /\ Activating(e) /\ Shapes' /\ sub'[e].pc = "over"
      /\ \A o \in Envs \ {e} : sub'[o] = sub[o]
  BY <2>2, EndActivationStep
<3>3. QED BY <3>1, <3>2, ActivationKeepsPorts
<2>3. ASSUME Activating(e), NEW task \in sub[e].todo,
             SetActiveState(e, task) \/ ActivationFails(e, task) \/ HandshakeFails(e, task)
      PROVE  Shapes' /\ PortInv'
<3>1. PICK ok \in BOOLEAN : Activated(e, task, ok)
  BY <2>3 DEF SetActiveState, ActivationFails, HandshakeFails
<3>2. UNCHANGED <<allocated, envFlows, envActive, subInputs, subOutputs>>
  BY <3>1 DEF Activated
<3>3. /\ Shapes' /\ sub'[e].pc = "activate"
      /\ \A o \in Envs \ {e} : sub'[o] = sub[o]
  BY <2>3, <3>1, ActivatedStep
<3>4. QED BY <2>3, <3>2, <3>3, ActivationKeepsPorts
<2>4. QED BY <1>4, <2>1, <2>2, <2>3 DEF SubCommit, Activating
<1>5. CASE UNCHANGED vars
<2>1. UNCHANGED <<allocated, envFlows, envActive, subInputs, subOutputs, sub>>
  BY <1>5 DEF vars, blockVars
<2>2. Shapes'
  BY <2>1 DEF Shapes
<2>3. EnvsApart' /\ PortsLoaded' /\ PortsSubscribed'
  BY <2>1 DEF PortInv, EnvsApart, PortsLoaded, PortsSubscribed, Committing, AutoAllocated
<2>4. TasksOfFlows'
  BY <2>1 DEF PortInv, TasksOfFlows, Updating, UpdateFlows
<2>5. BothEnds'
  BY <2>1 DEF PortInv, BothEnds, HalfDone, Updating, UpdateFlows
<2>6. QED BY <2>2, <2>3, <2>4, <2>5 DEF PortInv
<1>6. QED BY <1>1, <1>2, <1>3, <1>4, <1>5, CommitKeepsPorts, EndCommitKeepsPorts DEF Next

\* Whatever fails and in whatever order: the flows of a subscription have the
\* ports they need.
THEOREM AlwaysPorts == Spec => [](Shapes /\ PortInv)
<1>1. Init => Shapes /\ PortInv
  BY InitPorts
<1>2. Shapes /\ PortInv /\ [Next]_vars => (Shapes /\ PortInv)'
  BY StepKeepsPorts
<1>3. QED BY <1>1, <1>2, PTL DEF Spec

LEMMA SubscribersExist == PortInv => NoDanglingSubscriber
<1> SUFFICES ASSUME PortInv, NEW port \in AutoPorts,
                    port \in Inputs(subInputs) \cup Outputs(subOutputs)
             PROVE  port \in allocated
  BY DEF NoDanglingSubscriber
<1>1. PICK f \in subInputs \cup subOutputs : port = <<"in", Dst(f)>> \/ port = <<"out", Src(f)>>
  BY DEF Inputs, Outputs
<1>2. QED BY <1>1, PortsOfFlow DEF PortInv, PortsSubscribed

\* No automatic port is deleted while the port at the other end still has a
\* pointer to it: not by an edit, not by a commit, and whatever has failed.
THEOREM PortsOutliveSubscribers == Spec => []NoDanglingSubscriber
  BY AlwaysPorts, SubscribersExist, PTL

(***************************************************************************)
(* The subscriptions, until there was a reason to fail                     *)
(***************************************************************************)

\* The flows of an environment, by their source
Of(e, some) == {f \in some : Env(Obj(Src(f))) = e}

\* What the output ports of an environment are subscribed to
Known(e) ==
    IF sub[e].pc = "add"
    THEN envActive[e] \cup {f \in envFlows[e] : <<"output", f>> \notin sub[e].todo}
    ELSE IF sub[e].pc = "remove"
    THEN envFlows[e] \cup {f \in envActive[e] : <<"output", f>> \in sub[e].todo}
    ELSE IF sub[e].pc = "install" THEN envFlows[e]
    ELSE envActive[e]

OutputsKnow ==
    /\ \A f \in subInputs : Env(Obj(Src(f))) \in Envs
    /\ \A e \in Envs : Of(e, subInputs) = Known(e)

\* updateFlows() finds nothing wrong.
UpdatesSucceed ==
    \A e \in Envs : sub[e].pc \in {"add", "remove", "install"} => ~sub[e].error

ManagersThere == \A e \in Envs : \A f \in envActive[e] : Src(f) \in DOMAIN managers

\* The environments are at work together.
Together == Committing => \A e \in Envs : sub[e].pc # "idle"

FlowInv == Together /\ (~excused => OutputsKnow /\ UpdatesSucceed /\ ManagersThere)

(***************************************************************************)
(* The blocks, until there was a reason to fail                            *)
(***************************************************************************)

\* A flow stays within its environment.
FlowsLocal == \A e \in Envs : \A f \in envFlows[e] \cup envActive[e] : Env(Obj(Dst(f))) = e

\* While a commit goes on, network blocks are there in pairs.
PairsThere ==
    Committing => \A e \in Envs : \A b \in Objs(envFlows[e]) :
        IsNet(b) => Peer(b).env \in Envs /\ Peer(b) \in Objs(envFlows[Peer(b).env])

\* The blocks of an environment that are active
Alive(e) ==
    IF sub[e].pc = "activate"
    THEN {b \in Objs(envFlows[e]) : <<"on", b>> \notin sub[e].todo}
         \cup {task[2] : task \in {x \in sub[e].todo : x[1] = "off"}}
    ELSE Objs(envActive[e])

BlocksAlive ==
    /\ \A b \in active : Env(b) \in Envs
    /\ \A e \in Envs : {b \in active : Env(b) = e} = Alive(e)

ActivationTasks ==
    \A e \in Envs : sub[e].pc = "activate" => \A task \in sub[e].todo :
        \E b : /\ Env(b) = e
               /\ \/ task = <<"on", b>> /\ b \in Objs(envFlows[e])
                  \/ task = <<"off", b>> /\ b \notin Objs(envFlows[e])

\* The new flows have become the active ones.
FlowsTaken == \A e \in Envs : sub[e].pc \in {"activate", "over"} => envActive[e] = envFlows[e]

NoErrors == \A e \in Envs : ~sub[e].error

\* The remembered pairs are for flows between environments, ...
KeysCross == \A key \in DOMAIN cache : Env(Obj(key[1])) # key[2]

\* ... and those that will be remembered are in the flows that are loaded.
PairsLoaded ==
    Committing => \A key \in CrossingKeys(Completes) :
        \E e \in Envs : NetSink(key, cache[key]) \in Objs(envFlows[e])

PairsActive ==
    ~Committing => \A key \in DOMAIN cache : NetSink(key, cache[key]) \in Objs(Active)

BlockInv ==
    /\ FlowsLocal /\ KeysCross
    /\ ~excused => /\ PairsThere /\ BlocksAlive /\ ActivationTasks /\ FlowsTaken /\ NoErrors
                   /\ PairsLoaded /\ PairsActive

(***************************************************************************)
(* The steps and the subscriptions.                                        *)
(***************************************************************************)

\* Nothing is subscribed to.
LEMMA InitFlows == Init => FlowInv
<1> SUFFICES ASSUME Init PROVE FlowInv
  OBVIOUS
<1>1. /\ \A e \in Envs : sub[e].pc = "idle" /\ envActive[e] = {}
      /\ subInputs = {}
  BY DEF Init, Idle
<1>2. \A e \in Envs : Known(e) = {} /\ Of(e, subInputs) = {}
  BY <1>1 DEF Known, Of
<1>3. ~Committing
  BY <1>1 DEF Committing
<1>4. QED BY <1>1, <1>2, <1>3 DEF FlowInv, Together, OutputsKnow, UpdatesSucceed, ManagersThere

\* Steps that change nothing of this
LEMMA StutterKeepsFlows ==
    ASSUME FlowInv, UNCHANGED <<sub, envFlows, envActive, subInputs, managers, excused>>
    PROVE  FlowInv'
  BY DEF FlowInv, Together, Committing, OutputsKnow, UpdatesSucceed, ManagersThere, Known, Of

\* A commit starts with the flows that are active.
LEMMA CommitKeepsFlows ==
    ASSUME Shapes, PortInv, FlowInv, Commit
    PROVE  FlowInv'
<1> DEFINE now == commits + 1
           tagged == RectifiedFlows(NetworkFlows(Completes, Cached(cache, Completes, now)), now)
           flat == {Plain(f) : f \in tagged}
           parts(some) == [e \in Envs |-> {f \in some : Env(Obj(Src(f))) = e}]
           twice == Cardinality(tagged) > Cardinality(flat)
<1>1. /\ ~Committing /\ UNCHANGED <<envActive, subInputs, managers>>
      /\ excused' = (excused \/ twice)
  BY DEF Commit, blockVars
<1>2. ~twice => sub' = [e \in Envs |-> [pc |-> "add", error |-> FALSE,
                                        todo |-> Tasks("add", parts(flat)[e], envActive[e])]]
  BY DEF Commit, Order
<1>3. twice => sub' = sub
  BY DEF Commit
<1>4. ~twice => envFlows' = parts(flat)
<2>1. \E loaded \in IF twice THEN SUBSET flat ELSE {flat} : envFlows' = parts(loaded)
  BY DEF Commit
<2>2. QED BY <2>1
<1> HIDE DEF tagged, flat, twice
<1>5. Together'
<2>1. CASE twice
  BY <1>1, <1>3, <2>1 DEF Together, Committing
<2>2. CASE ~twice
<3>1. ASSUME NEW e \in Envs PROVE sub'[e].pc = "add"
<4>1. PICK todo : sub'[e] = [pc |-> "add", error |-> FALSE, todo |-> todo]
  BY <1>2, <2>2
<4>2. QED BY <4>1
<3>2. QED BY <3>1 DEF Together
<2>3. QED BY <2>1, <2>2
<1>6. ASSUME ~excused' PROVE OutputsKnow' /\ UpdatesSucceed' /\ ManagersThere'
<2>1. ~excused /\ ~twice
  BY <1>1, <1>6
<2>2. ASSUME NEW e \in Envs
      PROVE  /\ sub'[e].pc = "add" /\ ~sub'[e].error
             /\ sub'[e].todo = Tasks("add", envFlows'[e], envActive[e])
<3>1. PICK todo : todo = Tasks("add", envFlows'[e], envActive[e])
  OBVIOUS
<3>2. envFlows'[e] = parts(flat)[e]
  BY <1>4, <2>1
<3>3. sub' = [d \in Envs |-> [pc |-> "add", error |-> FALSE,
                             todo |-> Tasks("add", parts(flat)[d], envActive[d])]]
  BY <1>2, <2>1
<3> HIDE DEF parts
<3>4. sub'[e] = [pc |-> "add", error |-> FALSE, todo |-> todo]
  BY <3>1, <3>2, <3>3
<3>5. QED BY ONLY <3>1, <3>4
<2>3. ASSUME NEW e \in Envs PROVE Known(e)' = Known(e)
<3>1. Known(e)' = envActive[e] \cup {f \in envFlows'[e] : <<"output", f>> \notin sub'[e].todo}
  BY <1>1, <2>2 DEF Known
<3>2. \A f \in envFlows'[e] : f \notin envActive[e] => <<"output", f>> \in sub'[e].todo
  BY <2>2 DEF Tasks
<3>3. sub[e].pc = "idle"
  BY <1>1 DEF Committing
<3>4. Known(e) = envActive[e]
  BY <3>3 DEF Known
<3>5. QED BY <3>1, <3>2, <3>4
<2>4. OutputsKnow /\ ManagersThere
  BY <2>1 DEF FlowInv
<2>5. QED BY <1>1, <2>2, <2>3, <2>4 DEF OutputsKnow, UpdatesSucceed, ManagersThere, Of
<1>7. QED BY <1>5, <1>6 DEF FlowInv

\* The output port knows of the flow when its thread has done its first step.
LEMMA SubscribeKeepsFlows ==
    ASSUME Shapes, PortInv, FlowInv, NEW e \in Envs, Subscribe(e)
    PROVE  /\ FlowInv'
           /\ ~excused => sub'[e].error = sub[e].error
<1>1. UNCHANGED <<envFlows, envActive, managers, excused>>
  BY DEF Subscribe
<1>2. /\ Updating(e) /\ sub'[e].pc = sub[e].pc
      /\ \A o \in Envs \ {e} : sub'[o] = sub[o]
  BY SubscribeStep
<1>3. PICK f \in UpdateFlows(e) : Refused(e, f) \/ OutputDone(e, f) \/ InputDone(e, f)
  BY SubscribeStep
<1>4. Together'
<2>1. Committing /\ \A o \in Envs : sub'[o].pc = sub[o].pc
  BY <1>2 DEF Committing, Updating
<2>2. QED BY <2>1 DEF FlowInv, Together, Committing
<1>5. ASSUME ~excused
      PROVE  OutputsKnow' /\ UpdatesSucceed' /\ ManagersThere' /\ sub'[e].error = sub[e].error
<2>1. OutputsKnow /\ UpdatesSucceed /\ ManagersThere
  BY <1>5 DEF FlowInv
<2>2. Env(Obj(Src(f))) = e
  BY <1>1, <1>2, <1>3 DEF PortInv, EnvsApart, UpdateFlows
<2>3. f \in subInputs <=> f \in Known(e)
  BY <2>1, <2>2 DEF OutputsKnow, Of
<2>4. /\ sub[e].pc = "add" =>
            /\ f \in envFlows[e] /\ f \notin envActive[e]
            /\ Known(e) = envActive[e] \cup {g \in envFlows[e] : <<"output", g>> \notin sub[e].todo}
            /\ Known(e)' = envActive[e] \cup {g \in envFlows[e] : <<"output", g>> \notin sub'[e].todo}
      /\ sub[e].pc = "remove" =>
            /\ f \notin envFlows[e] /\ f \in envActive[e]
            /\ Known(e) = envFlows[e] \cup {g \in envActive[e] : <<"output", g>> \in sub[e].todo}
            /\ Known(e)' = envFlows[e] \cup {g \in envActive[e] : <<"output", g>> \in sub'[e].todo}
  BY <1>1, <1>2, <1>3 DEF UpdateFlows, Known
<2>5. ~Refused(e, f)
<3> SUFFICES ASSUME <<"output", f>> \in sub[e].todo, f \in subInputs <=> sub[e].pc = "add"
             PROVE  FALSE
  BY DEF Refused
<3>1. CASE sub[e].pc = "add"
  BY <2>3, <2>4, <3>1
<3>2. CASE sub[e].pc = "remove"
  BY <2>3, <2>4, <3>2
<3>3. QED BY <1>2, <3>1, <3>2 DEF Updating
<2>6. sub'[e].error = sub[e].error
  BY <1>3, <2>5 DEF OutputDone, InputDone
<2>7. \A o \in Envs \ {e} : Known(o)' = Known(o)
  BY <1>1, <1>2 DEF Known
<2>8. \A g, h : /\ <<"output", g>> = <<"output", h>> => g = h
                /\ <<"input", g>> # <<"output", h>>
  OBVIOUS
<2>9. /\ \A g \in subInputs' : g \in subInputs \/ g = f
      /\ \A o \in Envs \ {e} : Of(o, subInputs') = Of(o, subInputs)
<3>1. \A g : g # f => (g \in subInputs' <=> g \in subInputs)
  BY <1>3, <2>5 DEF OutputDone, InputDone, Toggled
<3>2. QED BY <2>2, <3>1 DEF Of
<2>10. Of(e, subInputs') = Known(e)'
<3>1. CASE OutputDone(e, f)
<4>1. /\ sub'[e].todo = (sub[e].todo \ {<<"output", f>>}) \cup {<<"input", f>>}
      /\ subInputs' = Toggled(subInputs, f, sub[e].pc)
  BY <3>1 DEF OutputDone
<4>2. Of(e, subInputs) = Known(e)
  BY <2>1 DEF OutputsKnow
<4>3. CASE sub[e].pc = "add"
<5>1. Of(e, subInputs') = Of(e, subInputs) \cup {f}
  BY <2>2, <4>1, <4>3 DEF Of, Toggled
<5>2. Known(e)' = Known(e) \cup {f}
  BY <2>4, <2>8, <4>1, <4>3
<5>3. QED BY <4>2, <5>1, <5>2
<4>4. CASE sub[e].pc = "remove"
<5>1. Of(e, subInputs') = Of(e, subInputs) \ {f}
  BY <4>1, <4>4 DEF Of, Toggled
<5>2. Known(e)' = Known(e) \ {f}
  BY <2>4, <2>8, <4>1, <4>4
<5>3. QED BY <4>2, <5>1, <5>2
<4>5. QED BY <1>2, <4>3, <4>4 DEF Updating
<3>2. CASE InputDone(e, f)
<4>1. sub'[e].todo = sub[e].todo \ {<<"input", f>>} /\ subInputs' = subInputs
  BY <3>2 DEF InputDone
<4>2. Known(e)' = Known(e)
<5>1. CASE sub[e].pc = "add"
  BY <2>4, <2>8, <4>1, <5>1
<5>2. CASE sub[e].pc = "remove"
  BY <2>4, <2>8, <4>1, <5>2
<5>3. QED BY <1>2, <5>1, <5>2 DEF Updating
<4>3. QED BY <2>1, <4>1, <4>2 DEF OutputsKnow
<3>3. QED BY <1>3, <2>5, <3>1, <3>2
<2>11. OutputsKnow'
  BY <2>1, <2>2, <2>7, <2>9, <2>10 DEF OutputsKnow
<2>12. UpdatesSucceed'
  BY <1>2, <2>1, <2>6 DEF UpdatesSucceed, Updating
<2>13. ManagersThere'
  BY <1>1, <2>1 DEF ManagersThere
<2>14. QED BY <2>6, <2>11, <2>12, <2>13
<1>6. QED BY <1>1, <1>4, <1>5 DEF FlowInv

\* A step of a sub-commit that leaves the subscriptions alone
LEMMA RestKeepsFlows ==
    ASSUME FlowInv, NEW e \in Envs, sub[e].pc # "idle", sub'[e].pc # "idle",
           UNCHANGED <<envFlows, subInputs>>, excused => excused',
           \A o \in Envs \ {e} : sub'[o] = sub[o] /\ envActive'[o] = envActive[o],
           ~excused' => /\ Known(e)' = Known(e)
                        /\ sub'[e].pc \in {"add", "remove", "install"} => ~sub'[e].error
                        /\ \A f \in envActive'[e] : Src(f) \in DOMAIN managers',
           DOMAIN managers \subseteq DOMAIN managers'
    PROVE  FlowInv'
<1>1. Together'
<2>1. Committing
  BY DEF Committing
<2>2. QED BY <2>1 DEF FlowInv, Together
<1>2. ASSUME ~excused' PROVE OutputsKnow' /\ UpdatesSucceed' /\ ManagersThere'
<2>1. OutputsKnow /\ UpdatesSucceed /\ ManagersThere
  BY <1>2 DEF FlowInv
<2>2. \A o \in Envs \ {e} : Known(o)' = Known(o)
  BY DEF Known
<2>3. OutputsKnow'
  BY <1>2, <2>1, <2>2 DEF OutputsKnow, Of
<2>4. UpdatesSucceed'
  BY <1>2, <2>1 DEF UpdatesSucceed
<2>5. ManagersThere'
  BY <1>2, <2>1 DEF ManagersThere
<2>6. QED BY <2>3, <2>4, <2>5
<1>3. QED BY <1>1, <1>2 DEF FlowInv

LEMMA EndUpdateKeepsFlows ==
    ASSUME Shapes, PortInv, FlowInv, NEW e \in Envs, EndUpdate(e)
    PROVE  FlowInv'
<1>1. UNCHANGED <<envFlows, envActive, subInputs, managers, excused>>
  BY DEF EndUpdate, blockVars
<1>2. /\ Updating(e) /\ sub[e].todo = {} /\ sub'[e].error = sub[e].error
      /\ \A o \in Envs \ {e} : sub'[o] = sub[o]
      /\ sub'[e].pc # "idle" /\ sub[e].pc # "idle"
  BY EndUpdateStep DEF Updating
<1>3. ASSUME ~excused
      PROVE  /\ Known(e)' = Known(e)
             /\ ~sub'[e].error
             /\ \A f \in envActive[e] : Src(f) \in DOMAIN managers
<2>1. UpdatesSucceed /\ ManagersThere
  BY <1>3 DEF FlowInv
<2>2. ~sub[e].error
  BY <1>2, <2>1 DEF UpdatesSucceed, Updating
<2>3. ASSUME sub[e].pc = "remove", sub'[e].pc = "install"
      PROVE  Known(e)' = Known(e)
<3>1. Known(e) = envFlows[e] \cup {f \in envActive[e] : <<"output", f>> \in sub[e].todo}
  BY <2>3 DEF Known
<3>2. Known(e)' = envFlows[e]
  BY <1>1, <2>3 DEF Known
<3>3. Known(e) = envFlows[e]
  BY <1>2, <3>1
<3>4. QED BY <3>2, <3>3
<2>4. ASSUME sub[e].pc = "add", sub'[e].pc = "remove",
             sub'[e].todo = Tasks("remove", envFlows[e], envActive[e])
      PROVE  Known(e)' = Known(e)
<3>1. Known(e) = envActive[e] \cup envFlows[e]
  BY <1>2, <2>4 DEF Known
<3>2. Known(e)' = envFlows[e] \cup {f \in envActive[e] : <<"output", f>> \in sub'[e].todo}
  BY <1>1, <2>4 DEF Known
<3>3. \A f \in envActive[e] : f \notin envFlows[e] => <<"output", f>> \in sub'[e].todo
  BY <2>4 DEF Tasks
<3>4. \A f : f \in Known(e)' <=> f \in Known(e)
  BY <3>1, <3>2, <3>3
<3>5. QED BY <3>4
<2>5. Known(e)' = Known(e)
  BY <2>2, <2>3, <2>4, EndUpdateStep
<2>6. QED BY <1>2, <2>1, <2>2, <2>5 DEF ManagersThere
<1>4. QED BY <1>1, <1>2, <1>3, RestKeepsFlows

\* Each output port of the new flows has its manager by now.
LEMMA InstallKeepsFlows ==
    ASSUME Shapes, PortInv, FlowInv, NEW e \in Envs, Install(e)
    PROVE  FlowInv'
<1>1. UNCHANGED <<envFlows, subInputs>>
  BY DEF Install
<1>2. /\ sub[e].pc = "install" /\ sub'[e].pc # "idle"
      /\ sub'[e].pc \notin {"add", "remove", "install"}
      /\ \A o \in Envs \ {e} : sub'[o] = sub[o] /\ envActive'[o] = envActive[o]
  BY InstallStep
<1>3. DOMAIN managers \subseteq DOMAIN managers' /\ (excused => excused')
  BY DEF Install
<1>4. ASSUME ~excused'
      PROVE  Known(e)' = Known(e) /\ \A f \in envActive'[e] : Src(f) \in DOMAIN managers'
<2>1. /\ sub'[e].pc = "activate" /\ envActive' = [envActive EXCEPT ![e] = envFlows[e]]
      /\ DOMAIN managers' = DOMAIN managers \cup Sources(e)
  BY <1>4, InstallStep
<2>2. envActive'[e] = envFlows[e]
  BY <2>1 DEF Shapes
<2>3. Known(e)' = Known(e)
  BY <1>2, <2>1, <2>2 DEF Known
<2>4. ManagersThere
  BY <1>3, <1>4 DEF FlowInv
<2>5. ASSUME NEW f \in envFlows[e] PROVE Src(f) \in DOMAIN managers'
<3>1. CASE f \in envActive[e]
  BY <2>1, <2>4, <3>1 DEF ManagersThere
<3>2. CASE f \notin envActive[e]
  BY <2>1, <3>2 DEF Sources
<3>3. QED BY <3>1, <3>2
<2>6. QED BY <2>2, <2>3, <2>5
<1>5. QED BY <1>1, <1>2, <1>3, <1>4, RestKeepsFlows

\* The activation is not about subscriptions.
LEMMA ActivationKeepsFlows ==
    ASSUME FlowInv, NEW e \in Envs, Activating(e), sub'[e].pc \in {"over", "activate"},
           \A o \in Envs \ {e} : sub'[o] = sub[o],
           UNCHANGED <<envFlows, envActive, subInputs, managers>>, excused => excused'
    PROVE  FlowInv'
<1>1. Known(e)' = Known(e) /\ sub[e].pc # "idle" /\ sub'[e].pc # "idle"
      /\ sub'[e].pc \notin {"add", "remove", "install"}
  BY DEF Known, Activating
<1>2. ~excused' => \A f \in envActive'[e] : Src(f) \in DOMAIN managers'
  BY DEF FlowInv, ManagersThere
<1>3. QED BY <1>1, <1>2, RestKeepsFlows

LEMMA EndCommitKeepsFlows ==
    ASSUME Shapes, FlowInv, EndCommit
    PROVE  FlowInv'
<1>1. UNCHANGED <<envFlows, envActive, subInputs, managers, excused>>
  BY DEF EndCommit, blockVars
<1>2. ~Committing' /\ \A e \in Envs : sub[e].pc = "over" /\ sub'[e].pc = "idle"
  BY EndCommitStep
<1>3. \A e \in Envs : Known(e)' = Known(e)
  BY <1>1, <1>2 DEF Known
<1>4. QED BY <1>1, <1>2, <1>3
          DEF FlowInv, Together, OutputsKnow, UpdatesSucceed, ManagersThere, Of

LEMMA StepKeepsFlows == Shapes /\ PortInv /\ FlowInv /\ [Next]_vars => FlowInv'
<1> SUFFICES ASSUME Shapes, PortInv, FlowInv, [Next]_vars PROVE FlowInv'
  OBVIOUS
<1>1. CASE Edit
<2>1. UNCHANGED <<sub, envFlows, envActive, subInputs, managers, excused>>
  BY <1>1 DEF Edit, blockVars
<2>2. QED BY <2>1, StutterKeepsFlows
<1>2. ASSUME NEW e \in Envs, SubCommit(e) PROVE FlowInv'
<2>1. CASE Subscribe(e) \/ EndUpdate(e) \/ Install(e)
  BY <2>1, SubscribeKeepsFlows, EndUpdateKeepsFlows, InstallKeepsFlows
<2>2. CASE EndActivation(e)
<3>1. UNCHANGED <<envFlows, envActive, subInputs, managers, excused>>
  BY <2>2 DEF EndActivation, blockVars
<3>2. /\ Activating(e) /\ sub'[e].pc = "over"
      /\ \A o \in Envs \ {e} : sub'[o] = sub[o]
  BY <2>2, EndActivationStep
<3>3. QED BY <3>1, <3>2, ActivationKeepsFlows
<2>3. ASSUME Activating(e), NEW task \in sub[e].todo,
             SetActiveState(e, task) \/ ActivationFails(e, task) \/ HandshakeFails(e, task)
      PROVE  FlowInv'
<3>1. PICK ok \in BOOLEAN : Activated(e, task, ok)
  BY <2>3 DEF SetActiveState, ActivationFails, HandshakeFails
<3>2. UNCHANGED <<envFlows, envActive, subInputs, managers>>
  BY <3>1 DEF Activated
<3>3. excused => excused'
  BY <2>3 DEF SetActiveState, ActivationFails, HandshakeFails
<3>4. /\ sub'[e].pc = "activate"
      /\ \A o \in Envs \ {e} : sub'[o] = sub[o]
  BY <2>3, <3>1, ActivatedStep
<3>5. QED BY <2>3, <3>2, <3>3, <3>4, ActivationKeepsFlows
<2>4. QED BY <1>2, <2>1, <2>2, <2>3 DEF SubCommit, Activating
<1>3. CASE UNCHANGED vars
<2>1. UNCHANGED <<sub, envFlows, envActive, subInputs, managers, excused>>
  BY <1>3 DEF vars, blockVars
<2>2. QED BY <2>1, StutterKeepsFlows
<1>4. (\E c \in Connections : Connect(c[1], c[2]) \/ Disconnect(c[1], c[2])) => Edit
  BY DEF Connect, Disconnect
<1>5. (\E t \in Topologies, recursive \in BOOLEAN : DisconnectAll(t, recursive)) => Edit
  BY DEF DisconnectAll
<1>6. QED BY <1>1, <1>2, <1>3, <1>4, <1>5, CommitKeepsFlows, EndCommitKeepsFlows DEF Next

\* Until there is a reason to fail, the subscriptions are in every state of a
\* commit just those that its progress tells, and updateFlows() finds nothing
\* wrong.
THEOREM AlwaysFlows == Spec => [](Shapes /\ PortInv /\ FlowInv)
<1>1. Init => FlowInv
  BY InitFlows
<1>2. Shapes /\ PortInv /\ FlowInv /\ [Next]_vars => FlowInv'
  BY StepKeepsFlows
<1>3. QED BY <1>1, <1>2, AlwaysPorts, PTL DEF Spec

LEMMA GapsClosed == FlowInv => NoGap
<1> SUFFICES ASSUME FlowInv, NEW e \in Envs, NEW old \in envActive[e], NEW new \in envFlows[e],
                    ~excused, Src(old) = Src(new)
             PROVE  \E f \in subInputs : Src(f) = Src(old)
  BY DEF NoGap
<1>1. Of(e, subInputs) = Known(e)
  BY DEF FlowInv, OutputsKnow
<1>2. old \in Known(e) \/ new \in Known(e)
  BY DEF Known
<1>3. QED BY <1>1, <1>2 DEF Of

\* A block whose output goes on being read has a subscriber at every moment of
\* the commit: whatever the order of the threads, the new flows are there
\* before the old ones go.
THEOREM NothingLostOnTheWay == Spec => []NoGap
  BY AlwaysFlows, GapsClosed, PTL

\* Between commits both ends of the subscriptions are those of the active flows.
LEMMA PortsAgree ==
    ASSUME PortInv, FlowInv, Settled
    PROVE  /\ subInputs = Active /\ subOutputs = Active
           /\ \A f \in subInputs : Src(f) \in DOMAIN managers
<1>1. ~Committing /\ OutputsKnow /\ ManagersThere
  BY DEF Settled, FlowInv
<1>2. \A e \in Envs : sub[e].pc = "idle"
  BY <1>1 DEF Committing
<1>3. \A e \in Envs : Of(e, subInputs) = envActive[e]
  BY <1>1, <1>2 DEF OutputsKnow, Known
<1>4. \A f : f \in subInputs <=> \E e \in Envs : f \in envActive[e]
  BY <1>1, <1>3 DEF OutputsKnow, Of
<1>5. subInputs = Active
  BY <1>4 DEF Active
<1>6. subInputs = subOutputs
  BY <1>1, AtRest DEF PortInv
<1>7. QED BY <1>1, <1>4, <1>5, <1>6 DEF ManagersThere

(***************************************************************************)
(* The flows that a commit makes                                           *)
(***************************************************************************)

\* The blocks of the user are none of those that commit() makes.
BlocksAreOthers ==
    /\ \A key, made : NetSink(key, made) \notin Blocks /\ NetSource(key, made) \notin Blocks
    /\ \A port, isInput, made : Obj(Copier(port, isInput, made)) \notin Blocks

Within(f) == Env(Obj(Src(f))) = Env(Obj(Dst(f))) /\ Env(Obj(Src(f))) \in Envs

\* The complete flows are from block to block.
LEMMA CompleteFlows == \A f \in Completes : Obj(Src(f)) \in Blocks /\ Obj(Dst(f)) \in Blocks
<1>1. \A x, y, z : Src(<<x, y, z>>) = x /\ Dst(<<x, y, z>>) = y
  BY DEF Src, Dst
<1>2. ASSUME NEW squashed, NEW f \in Completed(squashed)
      PROVE  Obj(Src(f)) \in Blocks /\ Obj(Dst(f)) \in Blocks
<2> DEFINE through == {g \in squashed : OfHierarchy(Src(g)) /\ OfHierarchy(Dst(g))}
           complete == {g \in squashed : ~OfHierarchy(Src(g)) /\ ~OfHierarchy(Dst(g))}
           heads == {g \in squashed : ~OfHierarchy(Src(g))}
           tails == {g \in squashed : ~OfHierarchy(Dst(g))}
           ways == {y \in heads \X through \X tails : Src(y[2]) = Src(y[3]) /\ Dst(y[2]) = Dst(y[1])}
<2>1. f \in complete \/ \E x \in ways : f = <<Src(x[1]), Dst(x[3]), x>>
  BY <1>2 DEF Completed
<2>2. CASE f \in complete
  BY <2>2 DEF OfHierarchy
<2>3. ASSUME NEW x \in ways, f = <<Src(x[1]), Dst(x[3]), x>>
      PROVE  Obj(Src(f)) \in Blocks /\ Obj(Dst(f)) \in Blocks
<3>1. x[1] \in heads /\ x[3] \in tails
  OBVIOUS
<3>2. Src(f) = Src(x[1]) /\ Dst(f) = Dst(x[3])
  BY <1>1, <2>3
<3>3. QED BY <3>1, <3>2 DEF OfHierarchy
<2>4. QED BY <2>1, <2>2, <2>3
<1>3. QED BY <1>2 DEF Completes

\* The environments of the blocks that commit() makes
LEMMA MadeEnvs ==
    ASSUME BlocksAreOthers
    PROVE  /\ \A key, made : /\ Env(NetSink(key, made)) = Env(Obj(key[1]))
                             /\ Env(NetSource(key, made)) = key[2]
                             /\ Peer(NetSink(key, made)) = NetSource(key, made)
                             /\ Peer(NetSource(key, made)) = NetSink(key, made)
                             /\ NetSink(key, made).env = Env(Obj(key[1]))
                             /\ NetSource(key, made).env = key[2]
           /\ \A port, isInput, made : /\ Env(Obj(Copier(port, isInput, made))) = Env(Obj(port))
                                       /\ ~IsNet(Obj(Copier(port, isInput, made)))
<1>1. ASSUME NEW key, NEW made
      PROVE  /\ Env(NetSink(key, made)) = Env(Obj(key[1]))
             /\ Env(NetSource(key, made)) = key[2]
             /\ Peer(NetSink(key, made)) = NetSource(key, made)
             /\ Peer(NetSource(key, made)) = NetSink(key, made)
             /\ NetSink(key, made).env = Env(Obj(key[1]))
             /\ NetSource(key, made).env = key[2]
<2>1. /\ NetSink(key, made).env = Env(Obj(key[1])) /\ NetSink(key, made).kind = "sink"
      /\ NetSink(key, made).key = key /\ NetSink(key, made).made = made
  BY DEF NetSink
<2>2. /\ NetSource(key, made).env = key[2] /\ NetSource(key, made).kind = "source"
      /\ NetSource(key, made).key = key /\ NetSource(key, made).made = made
  BY DEF NetSource
<2>3. NetSink(key, made) \notin Blocks /\ NetSource(key, made) \notin Blocks
  BY DEF BlocksAreOthers
<2>4. Env(NetSink(key, made)) = Env(Obj(key[1])) /\ Env(NetSource(key, made)) = key[2]
<3> HIDE DEF NetSink, NetSource
<3>1. \A b : b \notin Blocks => Env(b) = b.env
  BY DEF Env
<3>2. QED BY <2>1, <2>2, <2>3, <3>1
<2>5. Peer(NetSink(key, made)) = NetSource(key, made) /\ Peer(NetSource(key, made)) = NetSink(key, made)
  BY <2>1, <2>2 DEF Peer
<2>6. QED BY <2>1, <2>2, <2>4, <2>5
<1>2. ASSUME NEW port, NEW isInput, NEW made
      PROVE  /\ Env(Obj(Copier(port, isInput, made))) = Env(Obj(port))
             /\ ~IsNet(Obj(Copier(port, isInput, made)))
<2>1. /\ Obj(Copier(port, isInput, made)).env = Env(Obj(port))
      /\ Obj(Copier(port, isInput, made)).kind = "copier"
  BY DEF Copier, Obj
<2>2. Obj(Copier(port, isInput, made)) \notin Blocks
  BY DEF BlocksAreOthers
<2>3. \A b : b \notin Blocks => Env(b) = b.env
  BY DEF Env
<2>4. QED BY <2>1, <2>2, <2>3 DEF IsNet
<1>3. QED BY <1>1, <1>2

NetBlocks(fs, made) ==
    {NetSink(key, made[key]) : key \in CrossingKeys(fs)} \cup
    {NetSource(key, made[key]) : key \in CrossingKeys(fs)}

\* Network blocks make that no flow crosses from one environment to another.
LEMMA NetworkFlowsWithin ==
    ASSUME BlocksAreOthers, NEW fs, NEW made,
           \A f \in fs : Obj(Src(f)) \in Blocks /\ Obj(Dst(f)) \in Blocks
    PROVE  /\ \A n \in NetworkFlows(fs, made) :
                 Within(n) /\ {Obj(Src(n)), Obj(Dst(n))} \subseteq Blocks \cup NetBlocks(fs, made)
           /\ NetBlocks(fs, made) \subseteq Objs(NetworkFlows(fs, made))
<1>1. /\ \A x, y, z : Src(<<x, y, z>>) = x /\ Dst(<<x, y, z>>) = y
      /\ \A x, y : Obj(<<x, y>>) = x
      /\ \A x, y : <<x, y>>[1] = x /\ <<x, y>>[2] = y
  BY DEF Src, Dst, Obj
<1>2. \A b \in Blocks : Env(b) \in Envs
  BY EnvsAssumption DEF Env
<1>3. \A key \in CrossingKeys(fs) : \E f \in fs :
         Crosses(f) /\ key = NetKey(f) /\ key[1] = Src(f) /\ key[2] = Env(Obj(Dst(f)))
  BY <1>1 DEF CrossingKeys, NetKey
<1>4. \A f \in fs : Crosses(f) => NetKey(f) \in CrossingKeys(fs)
  BY DEF CrossingKeys
<1> DEFINE stay == {f \in fs : ~Crosses(f)}
           leave == {<<key[1], <<NetSink(key, made[key]), "0">>, <<>>>> : key \in CrossingKeys(fs)}
           come == {<<<<NetSource(NetKey(f), made[NetKey(f)]), "0">>, Dst(f), f[3]>> :
                       f \in {g \in fs : Crosses(g)}}
<1>5. NetworkFlows(fs, made) = stay \cup leave \cup come
  BY DEF NetworkFlows
<1>6. ASSUME NEW n \in NetworkFlows(fs, made)
      PROVE  Within(n) /\ {Obj(Src(n)), Obj(Dst(n))} \subseteq Blocks \cup NetBlocks(fs, made)
<2>1. CASE n \in stay
  BY <1>2, <2>1 DEF Crosses, Within
<2>2. ASSUME NEW key \in CrossingKeys(fs), n = <<key[1], <<NetSink(key, made[key]), "0">>, <<>>>>
      PROVE  Within(n) /\ {Obj(Src(n)), Obj(Dst(n))} \subseteq Blocks \cup NetBlocks(fs, made)
<3>1. Obj(Src(n)) = Obj(key[1]) /\ Obj(Dst(n)) = NetSink(key, made[key])
  BY <1>1, <2>2
<3>2. Obj(key[1]) \in Blocks
  BY <1>3
<3>3. Env(Obj(Dst(n))) = Env(Obj(key[1]))
  BY <3>1, MadeEnvs
<3>4. Obj(Dst(n)) \in NetBlocks(fs, made)
  BY <3>1 DEF NetBlocks
<3>5. QED BY <1>2, <3>1, <3>2, <3>3, <3>4 DEF Within
<2>3. ASSUME NEW f \in fs, Crosses(f),
             n = <<<<NetSource(NetKey(f), made[NetKey(f)]), "0">>, Dst(f), f[3]>>
      PROVE  Within(n) /\ {Obj(Src(n)), Obj(Dst(n))} \subseteq Blocks \cup NetBlocks(fs, made)
<3>1. Obj(Src(n)) = NetSource(NetKey(f), made[NetKey(f)]) /\ Dst(n) = Dst(f)
  BY <1>1, <2>3
<3>2. Env(Obj(Src(n))) = NetKey(f)[2]
  BY <3>1, MadeEnvs
<3>3. NetKey(f)[2] = Env(Obj(Dst(f)))
  BY <1>1 DEF NetKey
<3>4. Obj(Src(n)) \in NetBlocks(fs, made)
  BY <1>4, <2>3, <3>1 DEF NetBlocks
<3>5. QED BY <1>2, <3>1, <3>2, <3>3, <3>4 DEF Within
<2>4. QED BY <1>5, <2>1, <2>2, <2>3
<1>7. ASSUME NEW key \in CrossingKeys(fs)
      PROVE  /\ NetSink(key, made[key]) \in Objs(NetworkFlows(fs, made))
             /\ NetSource(key, made[key]) \in Objs(NetworkFlows(fs, made))
<2>1. PICK f \in fs : Crosses(f) /\ key = NetKey(f)
  BY <1>3
<2> DEFINE out == <<key[1], <<NetSink(key, made[key]), "0">>, <<>>>>
           in == <<<<NetSource(NetKey(f), made[NetKey(f)]), "0">>, Dst(f), f[3]>>
<2>2. out \in NetworkFlows(fs, made) /\ in \in NetworkFlows(fs, made)
  BY <1>5, <2>1
<2>3. Obj(Dst(out)) = NetSink(key, made[key]) /\ Obj(Src(in)) = NetSource(key, made[key])
  BY <1>1, <2>1
<2>4. QED BY <2>2, <2>3 DEF Objs
<1>8. QED BY <1>6, <1>7 DEF NetBlocks

\* Copiers stay within the environment, and hide neither end of a flow.
LEMMA RectifiedFlowsWithin ==
    ASSUME BlocksAreOthers, NEW fs, NEW now, \A f \in fs : Within(f)
    PROVE  /\ \A r \in RectifiedFlows(fs, now) :
                 /\ Within(r)
                 /\ \A b \in {Obj(Src(r)), Obj(Dst(r))} : b \in Objs(fs) \/ ~IsNet(b)
           /\ Objs(fs) \subseteq Objs(RectifiedFlows(fs, now))
<1>1. /\ \A x, y, z : Src(<<x, y, z>>) = x /\ Dst(<<x, y, z>>) = y
  BY DEF Src, Dst
<1> DEFINE badSrcs == {s \in {Src(f) : f \in fs} :
                          ~Acceptable(s, {f \in fs : Src(f) = s}, FALSE)}
           badDsts == {d \in {Dst(f) : f \in fs} :
                          ~Acceptable(d, {f \in fs : Dst(f) = d}, TRUE)}
           copier(f) == IF Dst(f) \in badDsts THEN Copier(Dst(f), TRUE, now)
                        ELSE Copier(Src(f), FALSE, now)
           bridged(f) == {<<Src(f), copier(f), <<>>>>, <<copier(f), Dst(f), <<>>>>}
           rectified(f) == IF Src(f) \in badSrcs \/ Dst(f) \in badDsts THEN bridged(f) ELSE {f}
<1>2. RectifiedFlows(fs, now) = UNION {rectified(f) : f \in fs}
  BY DEF RectifiedFlows
<1>3. ASSUME NEW f \in fs
      PROVE  /\ Env(Obj(copier(f))) = Env(Obj(Src(f))) /\ ~IsNet(Obj(copier(f)))
<2>1. copier(f) = Copier(Dst(f), TRUE, now) \/ copier(f) = Copier(Src(f), FALSE, now)
  OBVIOUS
<2>2. Env(Obj(Src(f))) = Env(Obj(Dst(f)))
  BY DEF Within
<2> HIDE DEF copier
<2>3. ASSUME NEW port, NEW isInput, copier(f) = Copier(port, isInput, now), Env(Obj(port)) = Env(Obj(Src(f)))
      PROVE  Env(Obj(copier(f))) = Env(Obj(Src(f))) /\ ~IsNet(Obj(copier(f)))
  BY <2>3, MadeEnvs
<2>4. QED BY <2>1, <2>2, <2>3
<1>4. \A f \in fs : rectified(f) = {f} \/ rectified(f) = {<<Src(f), copier(f), <<>>>>, <<copier(f), Dst(f), <<>>>>}
  OBVIOUS
<1> HIDE DEF copier, rectified
<1>5. ASSUME NEW r \in RectifiedFlows(fs, now)
      PROVE  Within(r) /\ \A b \in {Obj(Src(r)), Obj(Dst(r))} : b \in Objs(fs) \/ ~IsNet(b)
<2>1. PICK f \in fs : r \in rectified(f)
  BY <1>2
<2>2. Obj(Src(f)) \in Objs(fs) /\ Obj(Dst(f)) \in Objs(fs)
  BY DEF Objs
<2>3. CASE r = f
  BY <2>2, <2>3
<2>4. CASE r = <<Src(f), copier(f), <<>>>>
<3>1. Src(r) = Src(f) /\ Dst(r) = copier(f)
  BY <1>1, <2>4
<3>2. QED BY <1>3, <2>2, <3>1 DEF Within
<2>5. CASE r = <<copier(f), Dst(f), <<>>>>
<3>1. Src(r) = copier(f) /\ Dst(r) = Dst(f)
  BY <1>1, <2>5
<3>2. QED BY <1>3, <2>2, <3>1 DEF Within
<2>6. QED BY <1>4, <2>1, <2>3, <2>4, <2>5
<1>6. ASSUME NEW f \in fs
      PROVE  /\ Obj(Src(f)) \in Objs(RectifiedFlows(fs, now))
             /\ Obj(Dst(f)) \in Objs(RectifiedFlows(fs, now))
<2>1. CASE rectified(f) = {f}
<3>1. f \in RectifiedFlows(fs, now)
  BY <1>2, <2>1
<3>2. QED BY <3>1 DEF Objs
<2>2. CASE rectified(f) = {<<Src(f), copier(f), <<>>>>, <<copier(f), Dst(f), <<>>>>}
<3>1. /\ <<Src(f), copier(f), <<>>>> \in RectifiedFlows(fs, now)
      /\ <<copier(f), Dst(f), <<>>>> \in RectifiedFlows(fs, now)
  BY <1>2, <2>2
<3>2. Src(<<Src(f), copier(f), <<>>>>) = Src(f) /\ Dst(<<copier(f), Dst(f), <<>>>>) = Dst(f)
  BY <1>1
<3>3. QED BY <3>1, <3>2 DEF Objs
<2>3. QED BY <1>4, <2>1, <2>2
<1>7. QED BY <1>5, <1>6 DEF Objs

\* The flows that commit() loads
FlatFlows(made, now) == {Plain(f) : f \in RectifiedFlows(NetworkFlows(Completes, made), now)}

LEMMA FlatFlowsWithin ==
    ASSUME BlocksAreOthers, NEW made, NEW now
    PROVE  /\ \A f \in FlatFlows(made, now) : Within(f)
           /\ \A b \in Objs(FlatFlows(made, now)) : IsNet(b) => b \in NetBlocks(Completes, made)
           /\ NetBlocks(Completes, made) \subseteq Objs(FlatFlows(made, now))
<1> DEFINE network == NetworkFlows(Completes, made)
           tagged == RectifiedFlows(network, now)
<1>1. /\ \A n \in network :
            Within(n) /\ {Obj(Src(n)), Obj(Dst(n))} \subseteq Blocks \cup NetBlocks(Completes, made)
      /\ NetBlocks(Completes, made) \subseteq Objs(network)
  BY CompleteFlows, NetworkFlowsWithin
<1> HIDE DEF network
<1>2. /\ \A r \in tagged :
            /\ Within(r)
            /\ \A b \in {Obj(Src(r)), Obj(Dst(r))} : b \in Objs(network) \/ ~IsNet(b)
      /\ Objs(network) \subseteq Objs(tagged)
  BY <1>1, RectifiedFlowsWithin
<1>3. FlatFlows(made, now) = {Plain(f) : f \in tagged}
  BY DEF FlatFlows, network
<1> HIDE DEF tagged
<1>4. \A f : Src(Plain(f)) = Src(f) /\ Dst(Plain(f)) = Dst(f)
  BY DEF Plain, Src, Dst
<1>5. Objs(FlatFlows(made, now)) = Objs(tagged)
  BY <1>3, <1>4 DEF Objs
<1>6. \A f \in FlatFlows(made, now) : Within(f)
  BY <1>2, <1>3, <1>4 DEF Within
<1>7. ASSUME NEW b \in Objs(tagged), IsNet(b) PROVE b \in NetBlocks(Completes, made)
<2>1. b \in Objs(network)
  BY <1>2, <1>7 DEF Objs
<2>2. b \in Blocks \cup NetBlocks(Completes, made)
  BY <1>1, <2>1 DEF Objs
<2>3. QED BY <1>7, <2>2 DEF IsNet
<1>8. QED BY <1>1, <1>2, <1>5, <1>6, <1>7

(***************************************************************************)
(* The steps and the blocks.                                               *)
(***************************************************************************)

\* The blocks of the flows of an environment are in it.
LEMMA BlocksOfEnv ==
    ASSUME EnvsApart, FlowsLocal, NEW e \in Envs
    PROVE  \A b \in Objs(envFlows[e]) \cup Objs(envActive[e]) : Env(b) = e
  BY DEF EnvsApart, FlowsLocal, Objs

LEMMA InitBlocks == Init => BlockInv
<1> SUFFICES ASSUME Init PROVE BlockInv
  OBVIOUS
<1>1. /\ \A e \in Envs : sub[e].pc = "idle" /\ ~sub[e].error /\ envActive[e] = {} /\ envFlows[e] = {}
      /\ active = {} /\ DOMAIN cache = {}
  BY DEF Init, Idle
<1>2. ~Committing
  BY <1>1 DEF Committing
<1>3. BlocksAlive
<2>1. \A e \in Envs : Alive(e) = {}
  BY <1>1 DEF Alive, Objs
<2>2. QED BY <1>1, <2>1 DEF BlocksAlive
<1>4. FlowsLocal /\ KeysCross /\ ActivationTasks /\ FlowsTaken /\ NoErrors
  BY <1>1 DEF FlowsLocal, KeysCross, ActivationTasks, FlowsTaken, NoErrors
<1>5. PairsThere /\ PairsLoaded /\ PairsActive
  BY <1>1, <1>2 DEF PairsThere, PairsLoaded, PairsActive
<1>6. QED BY <1>3, <1>4, <1>5 DEF BlockInv

\* The user changes the flows between commits only.
LEMMA EditKeepsBlocks ==
    ASSUME BlockInv, Edit
    PROVE  BlockInv'
<1>1. /\ ~Committing
      /\ UNCHANGED <<cache, envFlows, envActive, active, sub, excused>>
  BY DEF Edit, blockVars
<1>2. ~Committing' /\ UNCHANGED Active
  BY <1>1 DEF Committing, Active
<1>3. FlowsLocal' /\ KeysCross'
  BY <1>1 DEF BlockInv, FlowsLocal, KeysCross
<1>4. ASSUME ~excused
      PROVE  /\ PairsThere' /\ BlocksAlive' /\ ActivationTasks' /\ FlowsTaken' /\ NoErrors'
             /\ PairsLoaded' /\ PairsActive'
<2>1. PairsThere' /\ PairsLoaded'
  BY <1>2 DEF PairsThere, PairsLoaded
<2>2. PairsActive'
  BY <1>1, <1>2, <1>4 DEF BlockInv, PairsActive
<2>3. BlocksAlive'
  BY <1>1, <1>4 DEF BlockInv, BlocksAlive, Alive
<2>4. ActivationTasks' /\ FlowsTaken' /\ NoErrors'
  BY <1>1, <1>4 DEF BlockInv, ActivationTasks, FlowsTaken, NoErrors
<2>5. QED BY <2>1, <2>2, <2>3, <2>4
<1>5. QED BY <1>1, <1>3, <1>4 DEF BlockInv

\* What a commit loads: the network blocks in pairs, one for each key.
LEMMA CommitKeepsBlocks ==
    ASSUME BlocksAreOthers, Shapes, PortInv, BlockInv, Commit
    PROVE  BlockInv'
<1> DEFINE now == commits + 1
           newCache == Cached(cache, Completes, now)
           tagged == RectifiedFlows(NetworkFlows(Completes, newCache), now)
           flat == {Plain(f) : f \in tagged}
           parts(some) == [e \in Envs |-> {f \in some : Env(Obj(Src(f))) = e}]
           twice == Cardinality(tagged) > Cardinality(flat)
<1>1. /\ ~Committing /\ UNCHANGED <<flows, envActive, active>>
      /\ excused' = (excused \/ twice) /\ cache' = newCache
  BY DEF Commit, blockVars, userVars
<1>2. ~twice => sub' = [e \in Envs |-> [pc |-> "add", error |-> FALSE,
                                        todo |-> Tasks("add", parts(flat)[e], envActive[e])]]
  BY DEF Commit, Order
<1>3. PICK loaded \in SUBSET flat : envFlows' = parts(loaded) /\ (~twice => loaded = flat)
<2>1. \E loaded \in IF twice THEN SUBSET flat ELSE {flat} : envFlows' = parts(loaded)
  BY DEF Commit
<2>2. QED BY <2>1
<1>4. flat = FlatFlows(newCache, now)
  BY DEF FlatFlows
<1>5. /\ \A f \in flat : Within(f)
      /\ \A b \in Objs(flat) : IsNet(b) => b \in NetBlocks(Completes, newCache)
      /\ NetBlocks(Completes, newCache) \subseteq Objs(flat)
  BY <1>4, FlatFlowsWithin
<1>6. Completes' = Completes
  BY <1>1 DEF Completes
<1>7. /\ DOMAIN newCache = DOMAIN cache \cup CrossingKeys(Completes)
      /\ \A key \in DOMAIN cache : newCache[key] = cache[key]
  BY DEF Cached
<1> HIDE DEF tagged, flat, twice, newCache
<1>8. \A e \in Envs : envFlows'[e] = {f \in loaded : Env(Obj(Src(f))) = e}
  BY <1>3
<1>9. FlowsLocal'
<2>1. \A e \in Envs : \A f \in envFlows'[e] : Env(Obj(Dst(f))) = e
  BY <1>5, <1>8 DEF Within
<2>2. QED BY <1>1, <2>1 DEF BlockInv, FlowsLocal
<1>10. KeysCross'
<2>1. ASSUME NEW key \in CrossingKeys(Completes) PROVE Env(Obj(key[1])) # key[2]
<3>1. PICK f \in Completes : Crosses(f) /\ key = NetKey(f)
  BY DEF CrossingKeys
<3>2. key[1] = Src(f) /\ key[2] = Env(Obj(Dst(f)))
  BY <3>1 DEF NetKey
<3>3. QED BY <3>1, <3>2 DEF Crosses
<2>2. QED BY <1>1, <1>7, <2>1 DEF BlockInv, KeysCross
<1>11. ASSUME ~excused'
       PROVE  /\ PairsThere' /\ BlocksAlive' /\ ActivationTasks' /\ FlowsTaken' /\ NoErrors'
              /\ PairsLoaded' /\ PairsActive'
<2>1. ~excused /\ ~twice
  BY <1>1, <1>11
<2>2. ASSUME NEW e \in Envs PROVE sub'[e].pc = "add" /\ ~sub'[e].error
<3>1. PICK todo : sub'[e] = [pc |-> "add", error |-> FALSE, todo |-> todo]
  BY <1>2, <2>1
<3>2. QED BY <3>1
<2>3. \A e \in Envs : sub[e].pc = "idle"
  BY <1>1 DEF Committing
<2>4. \A e \in Envs : envFlows'[e] = {f \in flat : Env(Obj(Src(f))) = e}
  BY <1>3, <1>8, <2>1
<2>5. ASSUME NEW b \in Objs(flat) PROVE Env(b) \in Envs /\ b \in Objs(envFlows'[Env(b)])
<3>1. PICK f \in flat : b = Obj(Src(f)) \/ b = Obj(Dst(f))
  BY DEF Objs
<3>2. Env(b) = Env(Obj(Src(f))) /\ Env(b) \in Envs
  BY <1>5, <3>1 DEF Within
<3>3. f \in envFlows'[Env(b)]
  BY <2>4, <3>2
<3>4. QED BY <3>1, <3>2, <3>3 DEF Objs
<2>6. \A e \in Envs : Objs(envFlows'[e]) \subseteq Objs(flat)
  BY <2>4 DEF Objs
<2>7. PairsThere'
<3>1. ASSUME NEW e \in Envs, NEW b \in Objs(envFlows'[e]), IsNet(b)
      PROVE  Peer(b).env \in Envs /\ Peer(b) \in Objs(envFlows'[Peer(b).env])
<4>1. b \in NetBlocks(Completes, newCache)
  BY <1>5, <2>6, <3>1
<4>2. PICK key \in CrossingKeys(Completes) :
         b = NetSink(key, newCache[key]) \/ b = NetSource(key, newCache[key])
  BY <4>1 DEF NetBlocks
<4>3. Peer(b) = NetSink(key, newCache[key]) \/ Peer(b) = NetSource(key, newCache[key])
  BY <4>2, MadeEnvs
<4>4. Peer(b) \in Objs(flat)
  BY <1>5, <4>3 DEF NetBlocks
<4>5. Peer(b).env = Env(Peer(b))
  BY <4>3, MadeEnvs
<4>6. QED BY <2>5, <4>4, <4>5
<3>2. QED BY <3>1 DEF PairsThere
<2>8. BlocksAlive'
<3>1. \A e \in Envs : Alive(e)' = Alive(e)
  BY <1>1, <2>2, <2>3 DEF Alive
<3>2. QED BY <1>1, <2>1, <3>1 DEF BlockInv, BlocksAlive
<2>9. ActivationTasks' /\ FlowsTaken' /\ NoErrors'
  BY <2>2 DEF ActivationTasks, FlowsTaken, NoErrors
<2>10. PairsLoaded'
<3>1. ASSUME NEW key \in CrossingKeys(Completes)
      PROVE  \E e \in Envs : NetSink(key, newCache[key]) \in Objs(envFlows'[e])
<4>1. NetSink(key, newCache[key]) \in Objs(flat)
  BY <1>5 DEF NetBlocks
<4>2. QED BY <2>5, <4>1
<3>2. QED BY <1>1, <1>6, <3>1 DEF PairsLoaded
<2>11. PairsActive'
<3>1. CASE Committing'
  BY <3>1 DEF PairsActive
<3>2. CASE ~Committing'
<4>1. Envs = {}
  BY <2>2, <3>2 DEF Committing
<4>2. CrossingKeys(Completes) = {}
  BY <4>1, EnvsAssumption, CompleteFlows DEF CrossingKeys
<4>3. UNCHANGED Active
  BY <1>1 DEF Active
<4>4. QED BY <1>1, <1>7, <2>1, <4>2, <4>3 DEF BlockInv, PairsActive
<3>3. QED BY <3>1, <3>2
<2>12. QED BY <2>7, <2>8, <2>9, <2>10, <2>11
<1>12. QED BY <1>9, <1>10, <1>11 DEF BlockInv

\* A task of setActiveStateOn() or setActiveStateOff()
TaskOf(e, task) ==
    \E b : /\ Env(b) = e
           /\ \/ task = <<"on", b>> /\ b \in Objs(envFlows[e])
              \/ task = <<"off", b>> /\ b \notin Objs(envFlows[e])

\* A step of a sub-commit: what is left to show of it.
LEMMA SubCommitKeepsBlocks ==
    ASSUME BlockInv, NEW e \in Envs, sub[e].pc # "idle", sub'[e].pc # "idle",
           UNCHANGED <<flows, cache, envFlows>>, excused => excused',
           \A o \in Envs \ {e} : sub'[o] = sub[o] /\ envActive'[o] = envActive[o],
           envActive'[e] \in {envActive[e], envFlows[e]},
           ~excused' =>
              /\ {b \in active' : Env(b) = e} = Alive(e)'
              /\ \A b : Env(b) # e => (b \in active' <=> b \in active)
              /\ ~sub'[e].error
              /\ sub'[e].pc \in {"activate", "over"} => envActive'[e] = envFlows[e]
              /\ sub'[e].pc = "activate" => \A task \in sub'[e].todo : TaskOf(e, task)
    PROVE  BlockInv'
<1>1. Committing /\ Committing' /\ Completes' = Completes
  BY DEF Committing, Completes
<1>2. FlowsLocal' /\ KeysCross'
  BY DEF BlockInv, FlowsLocal, KeysCross
<1>3. ASSUME ~excused'
      PROVE  /\ PairsThere' /\ BlocksAlive' /\ ActivationTasks' /\ FlowsTaken' /\ NoErrors'
             /\ PairsLoaded' /\ PairsActive'
<2>1. /\ PairsThere /\ BlocksAlive /\ ActivationTasks /\ FlowsTaken /\ NoErrors
      /\ PairsLoaded
  BY <1>3 DEF BlockInv
<2>2. PairsThere' /\ PairsActive'
  BY <1>1, <2>1 DEF PairsThere, PairsActive
<2>3. PairsLoaded'
  BY <1>1, <2>1 DEF PairsLoaded
<2>4. BlocksAlive'
<3>1. ASSUME NEW o \in Envs \ {e} PROVE {b \in active' : Env(b) = o} = Alive(o)'
<4>1. Alive(o)' = Alive(o)
  BY DEF Alive
<4>2. QED BY <1>3, <2>1, <4>1 DEF BlocksAlive
<3>2. \A b \in active' : Env(b) \in Envs
  BY <1>3, <2>1 DEF BlocksAlive
<3>3. QED BY <1>3, <3>1, <3>2 DEF BlocksAlive
<2>5. ActivationTasks'
<3>1. ASSUME NEW o \in Envs, sub'[o].pc = "activate", NEW task \in sub'[o].todo
      PROVE  TaskOf(o, task)'
<4>1. TaskOf(o, task)
  BY <1>3, <2>1, <3>1 DEF ActivationTasks, TaskOf
<4>2. QED BY <4>1 DEF TaskOf
<3>2. QED BY <3>1 DEF ActivationTasks, TaskOf
<2>6. FlowsTaken' /\ NoErrors'
  BY <1>3, <2>1 DEF FlowsTaken, NoErrors
<2>7. QED BY <2>2, <2>3, <2>4, <2>5, <2>6
<1>4. QED BY <1>2, <1>3 DEF BlockInv

LEMMA SubscribeKeepsBlocks ==
    ASSUME Shapes, PortInv, FlowInv, BlockInv, NEW e \in Envs, Subscribe(e)
    PROVE  BlockInv'
<1>1. UNCHANGED <<flows, cache, envFlows, envActive, active, excused>>
  BY DEF Subscribe, userVars
<1>2. /\ Updating(e) /\ sub'[e].pc = sub[e].pc
      /\ \A o \in Envs \ {e} : sub'[o] = sub[o]
      /\ ~excused => sub'[e].error = sub[e].error
  BY SubscribeStep, SubscribeKeepsFlows
<1>3. /\ sub[e].pc # "idle" /\ sub'[e].pc \notin {"idle", "activate", "over"}
      /\ Alive(e)' = Alive(e)
  BY <1>1, <1>2 DEF Updating, Alive
<1>4. ASSUME ~excused PROVE {b \in active : Env(b) = e} = Alive(e) /\ ~sub[e].error
  BY <1>4 DEF BlockInv, BlocksAlive, NoErrors
<1>5. QED BY <1>1, <1>2, <1>3, <1>4, SubCommitKeepsBlocks

LEMMA EndUpdateKeepsBlocks ==
    ASSUME Shapes, BlockInv, NEW e \in Envs, EndUpdate(e)
    PROVE  BlockInv'
<1>1. UNCHANGED <<flows, cache, envFlows, envActive, active, excused>>
  BY DEF EndUpdate, userVars, blockVars
<1>2. /\ Updating(e) /\ sub'[e].error = sub[e].error
      /\ sub'[e].pc \in {"over", "install", "remove"} /\ (~sub[e].error => sub'[e].pc # "over")
      /\ \A o \in Envs \ {e} : sub'[o] = sub[o]
  BY EndUpdateStep
<1>3. /\ sub[e].pc # "idle" /\ sub'[e].pc \notin {"idle", "activate"}
      /\ Alive(e)' = Alive(e)
  BY <1>1, <1>2 DEF Updating, Alive
<1>4. ASSUME ~excused PROVE {b \in active : Env(b) = e} = Alive(e) /\ ~sub[e].error
  BY <1>4 DEF BlockInv, BlocksAlive, NoErrors
<1>5. QED BY <1>1, <1>2, <1>3, <1>4, SubCommitKeepsBlocks

\* The blocks that are active when the activation begins
LEMMA ActivationBegins ==
    ASSUME NEW new, NEW old
    PROVE  \A b : b \in Objs(old) <=> \/ b \in Objs(new) /\ b \notin Objs(new \ old) \ Objs(old)
                                      \/ b \in Objs(old \ new) \ Objs(new)
<1>1. /\ \A b : b \in Objs(new) <=> \E f \in new : b = Obj(Src(f)) \/ b = Obj(Dst(f))
      /\ \A b : b \in Objs(old) <=> \E f \in old : b = Obj(Src(f)) \/ b = Obj(Dst(f))
      /\ \A b : b \in Objs(new \ old) <=> \E f \in new \ old : b = Obj(Src(f)) \/ b = Obj(Dst(f))
      /\ \A b : b \in Objs(old \ new) <=> \E f \in old \ new : b = Obj(Src(f)) \/ b = Obj(Dst(f))
  BY DEF Objs
<1>2. /\ \A b \in Objs(new) : b \in Objs(new \ old) \/ b \in Objs(old)
      /\ \A b \in Objs(old) : b \in Objs(old \ new) \/ b \in Objs(new)
      /\ Objs(new \ old) \subseteq Objs(new) /\ Objs(old \ new) \subseteq Objs(old)
  BY <1>1
<1>3. QED BY <1>2

LEMMA InstallKeepsBlocks ==
    ASSUME Shapes, PortInv, BlockInv, NEW e \in Envs, Install(e)
    PROVE  BlockInv'
<1>1. UNCHANGED <<flows, cache, envFlows, active>> /\ (excused => excused')
  BY DEF Install, userVars
<1>2. /\ sub[e].pc = "install" /\ sub'[e].pc # "idle"
      /\ \A o \in Envs \ {e} : sub'[o] = sub[o] /\ envActive'[o] = envActive[o]
  BY InstallStep
<1>3. envActive'[e] \in {envActive[e], envFlows[e]}
  BY InstallStep DEF Shapes
<1>4. ASSUME ~excused'
      PROVE  /\ {b \in active' : Env(b) = e} = Alive(e)'
             /\ ~sub'[e].error /\ envActive'[e] = envFlows[e]
             /\ \A task \in sub'[e].todo : TaskOf(e, task)
<2>1. /\ sub'[e].pc = "activate" /\ sub'[e].todo = Activation(e) /\ sub'[e].error = sub[e].error
      /\ envActive' = [envActive EXCEPT ![e] = envFlows[e]]
  BY <1>4, InstallStep
<2>2. ~excused
  BY <1>1, <1>4
<2>3. /\ {b \in active : Env(b) = e} = Alive(e) /\ ~sub[e].error
  BY <2>2 DEF BlockInv, BlocksAlive, NoErrors
<2> DEFINE on == ObjsWithout(envFlows[e] \ envActive[e], envActive[e])
           off == ObjsWithout(envActive[e] \ envFlows[e], envFlows[e])
<2>4. /\ \A b : <<"on", b>> \in sub'[e].todo <=> b \in on
      /\ \A task : task \in sub'[e].todo <=> \/ \E b \in on : task = <<"on", b>>
                                             \/ \E b \in off : task = <<"off", b>>
  BY <2>1 DEF Activation
<2>5. on = Objs(envFlows[e] \ envActive[e]) \ Objs(envActive[e])
  BY DEF ObjsWithout
<2>6. off = Objs(envActive[e] \ envFlows[e]) \ Objs(envFlows[e])
  BY DEF ObjsWithout
<2> HIDE DEF on, off
<2>7. {task[2] : task \in {x \in sub'[e].todo : x[1] = "off"}} = off
<3>1. \A x \in sub'[e].todo : x[1] = "off" => x[2] \in off
  BY <2>4
<3>2. \A b \in off : <<"off", b>> \in sub'[e].todo /\ <<"off", b>>[1] = "off" /\ <<"off", b>>[2] = b
  BY <2>4
<3>3. QED BY <3>1, <3>2
<2>8. Alive(e)' = {b \in Objs(envFlows[e]) : b \notin on} \cup off
  BY <1>1, <2>1, <2>4, <2>7 DEF Alive
<2>9. Alive(e)' = Objs(envActive[e])
<3>1. \A b : b \in Objs(envActive[e]) <=> (b \in Objs(envFlows[e]) /\ b \notin on) \/ b \in off
  BY <2>5, <2>6, ActivationBegins
<3>2. QED BY <2>8, <3>1
<2>10. Alive(e) = Objs(envActive[e])
  BY <1>2 DEF Alive
<2>11. \A b \in on : b \in Objs(envFlows[e])
  BY <2>5 DEF Objs
<2>12. \A b \in off : b \in Objs(envActive[e]) /\ b \notin Objs(envFlows[e])
  BY <2>6 DEF Objs
<2>13. \A task \in sub'[e].todo : TaskOf(e, task)
  BY <2>4, <2>11, <2>12, BlocksOfEnv DEF PortInv, BlockInv, TaskOf
<2>14. envActive'[e] = envFlows[e]
  BY <2>1 DEF Shapes
<2>15. QED BY <1>1, <2>1, <2>3, <2>9, <2>10, <2>13, <2>14
<1>5. QED BY <1>1, <1>2, <1>3, <1>4, SubCommitKeepsBlocks

\* The handshake of a pair of network blocks succeeds: both are in the flows of
\* their environments, and when one sub-commit is over its block is active.
LEMMA HandshakesMeet ==
    ASSUME FlowInv, BlockInv, ~excused, NEW e \in Envs, Activating(e), NEW task \in sub[e].todo
    PROVE  ~HandshakeFails(e, task)
<1> SUFFICES ASSUME HandshakeFails(e, task) PROVE FALSE
  OBVIOUS
<1>1. /\ task[1] = "on" /\ IsNet(task[2]) /\ sub[Peer(task[2]).env].pc \in {"idle", "over"}
      /\ ~MeetsPeer(task[2])
  BY DEF HandshakeFails
<1>2. /\ Together /\ Committing
      /\ PairsThere /\ BlocksAlive /\ ActivationTasks /\ FlowsTaken
  BY DEF FlowInv, BlockInv, Activating, Committing
<1>3. task[2] \in Objs(envFlows[e])
<2>1. PICK b : \/ task = <<"on", b>> /\ b \in Objs(envFlows[e])
               \/ task = <<"off", b>> /\ b \notin Objs(envFlows[e])
  BY <1>2 DEF ActivationTasks, Activating
<2>2. <<"off", b>>[1] # "on" /\ <<"on", b>>[2] = b
  OBVIOUS
<2>3. QED BY <1>1, <2>1, <2>2
<1>4. PICK p \in Envs : p = Peer(task[2]).env /\ Peer(task[2]) \in Objs(envFlows[p])
  BY <1>1, <1>2, <1>3 DEF PairsThere
<1>5. sub[p].pc = "over"
  BY <1>1, <1>2, <1>4 DEF Together
<1>6. Alive(p) = Objs(envFlows[p])
  BY <1>2, <1>5 DEF Alive, FlowsTaken
<1>7. Peer(task[2]) \in active
  BY <1>2, <1>4, <1>6 DEF BlocksAlive
<1>8. QED BY <1>1, <1>7 DEF MeetsPeer

\* A task of the activation is done, or there was a reason for it to fail.
LEMMA ActivatedKeepsBlocks ==
    ASSUME Shapes, PortInv, FlowInv, BlockInv, NEW e \in Envs, Activating(e), NEW task \in sub[e].todo,
           SetActiveState(e, task) \/ ActivationFails(e, task) \/ HandshakeFails(e, task)
    PROVE  BlockInv'
<1>1. PICK ok \in BOOLEAN : /\ Activated(e, task, ok)
                            /\ excused => excused'
                            /\ ~excused' => (~excused /\ (ok \/ HandshakeFails(e, task)))
<2>1. CASE SetActiveState(e, task)
<3>1. Activated(e, task, TRUE) /\ excused' = excused
  BY <2>1 DEF SetActiveState
<3>2. QED BY <3>1
<2>2. CASE ActivationFails(e, task)
<3>1. Activated(e, task, FALSE) /\ excused'
  BY <2>2 DEF ActivationFails
<3>2. QED BY <3>1
<2>3. CASE HandshakeFails(e, task)
<3>1. Activated(e, task, FALSE) /\ excused' = excused
  BY <2>3 DEF HandshakeFails
<3>2. QED BY <2>3, <3>1
<2>4. QED BY <2>1, <2>2, <2>3
<1>2. UNCHANGED <<flows, cache, envFlows, envActive>>
  BY <1>1 DEF Activated, userVars
<1>3. /\ sub'[e].pc = "activate" /\ sub'[e].todo = sub[e].todo \ {task}
      /\ sub'[e].error <=> (sub[e].error \/ ~ok)
      /\ \A o \in Envs \ {e} : sub'[o] = sub[o]
  BY <1>1, ActivatedStep
<1>4. sub[e].pc = "activate"
  BY DEF Activating
<1>5. ASSUME ~excused'
      PROVE  /\ {b \in active' : Env(b) = e} = Alive(e)'
             /\ \A b : Env(b) # e => (b \in active' <=> b \in active)
             /\ ~sub'[e].error /\ envActive'[e] = envFlows[e]
             /\ \A job \in sub'[e].todo : TaskOf(e, job)
<2>1. ~excused /\ ok
  BY <1>1, <1>5, HandshakesMeet
<2>2. /\ {b \in active : Env(b) = e} = Alive(e) /\ ~sub[e].error /\ envActive[e] = envFlows[e]
      /\ \A job \in sub[e].todo : TaskOf(e, job)
  BY <1>4, <2>1 DEF BlockInv, BlocksAlive, NoErrors, FlowsTaken, ActivationTasks, TaskOf
<2>3. PICK b : /\ Env(b) = e
               /\ \/ task = <<"on", b>> /\ b \in Objs(envFlows[e])
                  \/ task = <<"off", b>> /\ b \notin Objs(envFlows[e])
  BY <2>2 DEF TaskOf
<2>4. \A x, y : /\ <<x, y>>[1] = x /\ <<x, y>>[2] = y
                /\ <<"on", x>> # <<"off", y>>
                /\ <<"on", x>> = <<"on", y>> => x = y
  OBVIOUS
<2>5. \A x : x \in Alive(e) <=> \/ x \in Objs(envFlows[e]) /\ <<"on", x>> \notin sub[e].todo
                                \/ \E job \in sub[e].todo : job[1] = "off" /\ x = job[2]
  BY <1>4 DEF Alive
<2>6. \A x : x \in Alive(e)' <=>
            \/ x \in Objs(envFlows[e]) /\ <<"on", x>> \notin sub'[e].todo
            \/ \E job \in sub'[e].todo : job[1] = "off" /\ x = job[2]
  BY <1>2, <1>3 DEF Alive
<2>7. \A job \in sub[e].todo : job[1] = "off" => job = <<"off", job[2]>> /\ job[2] \notin Objs(envFlows[e])
<3>1. ASSUME NEW job \in sub[e].todo, job[1] = "off"
      PROVE  job = <<"off", job[2]>> /\ job[2] \notin Objs(envFlows[e])
<4>1. PICK x : \/ job = <<"on", x>> /\ x \in Objs(envFlows[e])
               \/ job = <<"off", x>> /\ x \notin Objs(envFlows[e])
  BY <2>2 DEF TaskOf
<4>2. job = <<"off", x>> /\ x \notin Objs(envFlows[e])
  BY <2>4, <3>1, <4>1
<4>3. QED BY <2>4, <4>2
<3>2. QED BY <3>1
<2>8. CASE task = <<"on", b>> /\ b \in Objs(envFlows[e])
<3>1. active' = active \cup {b}
  BY <1>1, <2>1, <2>4, <2>8 DEF Activated
<3>2. \A x : x \in Alive(e)' <=> (x \in Alive(e) \/ x = b)
<4>1. \A x : <<"on", x>> \in sub'[e].todo <=> (<<"on", x>> \in sub[e].todo /\ x # b)
  BY <1>3, <2>4, <2>8
<4>2. \A job : job[1] = "off" => (job \in sub'[e].todo <=> job \in sub[e].todo)
  BY <1>3, <2>4, <2>8
<4>3. QED BY <2>5, <2>6, <2>8, <4>1, <4>2
<3>3. {x \in active' : Env(x) = e} = Alive(e)'
  BY <2>2, <2>3, <3>1, <3>2
<3>4. QED BY <1>2, <1>3, <2>1, <2>2, <2>3, <3>1, <3>3
<2>9. CASE task = <<"off", b>> /\ b \notin Objs(envFlows[e])
<3>1. active' = active \ {b}
  BY <1>1, <2>1, <2>4, <2>9 DEF Activated
<3>2. \A x : x \in Alive(e)' <=> (x \in Alive(e) /\ x # b)
<4>1. \A x : <<"on", x>> \in sub'[e].todo <=> <<"on", x>> \in sub[e].todo
  BY <1>3, <2>4, <2>9
<4>2. \A job \in sub[e].todo : job[1] = "off" => (job \in sub'[e].todo <=> job[2] # b)
  BY <1>3, <2>4, <2>7, <2>9
<4>3. \A job : job \in sub'[e].todo => job \in sub[e].todo
  BY <1>3
<4>4. ASSUME NEW x, x \in Alive(e)' PROVE x \in Alive(e) /\ x # b
  BY <2>5, <2>6, <2>9, <4>1, <4>2, <4>3, <4>4
<4>5. ASSUME NEW x, x \in Alive(e), x # b PROVE x \in Alive(e)'
  BY <2>5, <2>6, <2>9, <4>1, <4>2, <4>5
<4>6. QED BY <4>4, <4>5
<3>3. {x \in active' : Env(x) = e} = Alive(e)'
  BY <2>2, <2>3, <3>1, <3>2
<3>4. QED BY <1>2, <1>3, <2>1, <2>2, <2>3, <3>1, <3>3
<2>10. QED BY <2>3, <2>8, <2>9
<1>6. QED BY <1>1, <1>2, <1>3, <1>4, <1>5, SubCommitKeepsBlocks

LEMMA EndActivationKeepsBlocks ==
    ASSUME Shapes, BlockInv, NEW e \in Envs, EndActivation(e)
    PROVE  BlockInv'
<1>1. UNCHANGED <<flows, cache, envFlows, envActive, active, excused>>
  BY DEF EndActivation, userVars, blockVars
<1>2. /\ Activating(e) /\ sub[e].todo = {} /\ sub'[e].pc = "over" /\ sub'[e].error = sub[e].error
      /\ \A o \in Envs \ {e} : sub'[o] = sub[o]
  BY EndActivationStep DEF EndActivation
<1>3. ASSUME ~excused
      PROVE  /\ {b \in active : Env(b) = e} = Alive(e) /\ ~sub[e].error
             /\ envActive[e] = envFlows[e]
  BY <1>2, <1>3 DEF BlockInv, BlocksAlive, NoErrors, FlowsTaken, Activating
<1>4. ASSUME ~excused PROVE Alive(e)' = Alive(e)
<2>1. Alive(e)' = Objs(envActive[e])
  BY <1>1, <1>2 DEF Alive
<2>2. Alive(e) = {b \in Objs(envFlows[e]) : <<"on", b>> \notin sub[e].todo}
                 \cup {task[2] : task \in {x \in sub[e].todo : x[1] = "off"}}
  BY <1>2 DEF Alive, Activating
<2>3. Alive(e) = Objs(envFlows[e])
  BY <1>2, <2>2
<2>4. QED BY <1>3, <1>4, <2>1, <2>3
<1>5. sub[e].pc # "idle"
  BY <1>2 DEF Activating
<1>6. QED BY <1>1, <1>2, <1>3, <1>4, <1>5, SubCommitKeepsBlocks

\* The pairs that are remembered are those of the flows that are active now.
LEMMA EndCommitKeepsBlocks ==
    ASSUME Shapes, FlowInv, BlockInv, EndCommit
    PROVE  BlockInv'
<1>1. UNCHANGED <<envFlows, envActive, active, excused>>
  BY DEF EndCommit, blockVars
<1>2. /\ ~Committing'
      /\ \A e \in Envs : sub[e].pc = "over" /\ sub'[e].pc = "idle" /\ sub'[e].error = sub[e].error
  BY EndCommitStep
<1>3. Committing /\ cache' = IF \E e \in Envs : sub[e].error THEN cache ELSE StillUsed
  BY DEF EndCommit
<1>4. /\ DOMAIN StillUsed = DOMAIN cache \cap {NetKey(f) : f \in Completes}
      /\ \A key \in DOMAIN StillUsed : StillUsed[key] = cache[key]
  BY DEF StillUsed
<1>5. DOMAIN cache' \subseteq DOMAIN cache
  BY <1>3, <1>4
<1>6. FlowsLocal' /\ KeysCross'
  BY <1>1, <1>5 DEF BlockInv, FlowsLocal, KeysCross
<1>7. ASSUME ~excused
      PROVE  /\ PairsThere' /\ BlocksAlive' /\ ActivationTasks' /\ FlowsTaken' /\ NoErrors'
             /\ PairsLoaded' /\ PairsActive'
<2>1. BlocksAlive /\ FlowsTaken /\ NoErrors /\ PairsLoaded /\ KeysCross
  BY <1>7 DEF BlockInv
<2>2. PairsThere' /\ PairsLoaded'
  BY <1>2 DEF PairsThere, PairsLoaded
<2>3. BlocksAlive'
<3>1. \A e \in Envs : Alive(e)' = Alive(e)
  BY <1>1, <1>2 DEF Alive
<3>2. QED BY <1>1, <2>1, <3>1 DEF BlocksAlive
<2>4. ActivationTasks' /\ FlowsTaken' /\ NoErrors'
  BY <1>2, <2>1 DEF ActivationTasks, FlowsTaken, NoErrors
<2>5. cache' = StillUsed
  BY <1>3, <2>1 DEF NoErrors
<2>6. ASSUME NEW key \in DOMAIN StillUsed PROVE NetSink(key, StillUsed[key]) \in Objs(Active)
<3>1. PICK f \in Completes : key = NetKey(f)
  BY <1>4
<3>2. key[1] = Src(f) /\ key[2] = Env(Obj(Dst(f)))
  BY <3>1 DEF NetKey
<3>3. Env(Obj(key[1])) # key[2]
  BY <1>4, <2>1 DEF KeysCross
<3>4. key \in CrossingKeys(Completes)
  BY <3>1, <3>2, <3>3 DEF CrossingKeys, Crosses
<3>5. PICK e \in Envs : NetSink(key, cache[key]) \in Objs(envFlows[e])
  BY <1>3, <2>1, <3>4 DEF PairsLoaded
<3>6. envFlows[e] = envActive[e]
  BY <1>2, <2>1 DEF FlowsTaken
<3>7. Objs(envActive[e]) \subseteq Objs(Active)
  BY DEF Objs, Active
<3>8. QED BY <1>4, <3>5, <3>6, <3>7
<2>7. PairsActive'
<3>1. Active' = Active
  BY <1>1 DEF Active
<3>2. QED BY <2>5, <2>6, <3>1 DEF PairsActive
<2>8. QED BY <2>2, <2>3, <2>4, <2>7
<1>8. QED BY <1>1, <1>6, <1>7 DEF BlockInv

LEMMA StepKeepsBlocks ==
    ASSUME BlocksAreOthers
    PROVE  Shapes /\ PortInv /\ FlowInv /\ BlockInv /\ [Next]_vars => BlockInv'
<1> SUFFICES ASSUME Shapes, PortInv, FlowInv, BlockInv, [Next]_vars PROVE BlockInv'
  OBVIOUS
<1>1. CASE Edit
  BY <1>1, EditKeepsBlocks
<1>2. ASSUME NEW e \in Envs, SubCommit(e) PROVE BlockInv'
<2>1. CASE Subscribe(e) \/ EndUpdate(e)
  BY <2>1, SubscribeKeepsBlocks, EndUpdateKeepsBlocks
<2>2. CASE Install(e) \/ EndActivation(e)
  BY <2>2, InstallKeepsBlocks, EndActivationKeepsBlocks
<2>3. ASSUME Activating(e), NEW task \in sub[e].todo,
             SetActiveState(e, task) \/ ActivationFails(e, task) \/ HandshakeFails(e, task)
      PROVE  BlockInv'
  BY <2>3, ActivatedKeepsBlocks
<2>4. QED BY <1>2, <2>1, <2>2, <2>3 DEF SubCommit, Activating
<1>3. CASE UNCHANGED vars
<2>1. UNCHANGED <<flows, cache, envFlows, envActive, active, sub, excused>>
  BY <1>3 DEF vars, userVars, blockVars
<2>2. Completes' = Completes
  BY <2>1 DEF Completes
<2>3. QED BY <2>1, <2>2
          DEF BlockInv, FlowsLocal, KeysCross, PairsThere, BlocksAlive, Alive, ActivationTasks,
              FlowsTaken, NoErrors, PairsLoaded, PairsActive, Committing, Active
<1>4. (\E c \in Connections : Connect(c[1], c[2]) \/ Disconnect(c[1], c[2])) => Edit
  BY DEF Connect, Disconnect
<1>5. (\E t \in Topologies, recursive \in BOOLEAN : DisconnectAll(t, recursive)) => Edit
  BY DEF DisconnectAll
<1>6. QED BY <1>1, <1>2, <1>3, <1>4, <1>5, CommitKeepsBlocks, EndCommitKeepsBlocks DEF Next

(***************************************************************************)
(* What a commit promises                                                  *)
(***************************************************************************)

\* Until there is a reason to fail: the network blocks are in pairs, the blocks
\* that are active are those that the progress of the commit tells, and
\* nothing has failed.
THEOREM AlwaysBlocks ==
    ASSUME BlocksAreOthers
    PROVE  Spec => [](Shapes /\ PortInv /\ FlowInv /\ BlockInv)
<1>1. Init => BlockInv
  BY InitBlocks
<1>2. Shapes /\ PortInv /\ FlowInv /\ BlockInv /\ [Next]_vars => BlockInv'
  BY StepKeepsBlocks
<1>3. QED BY <1>1, <1>2, AlwaysFlows, PTL DEF Spec

LEMMA NothingFails == BlockInv => CommitSucceeds
  BY DEF BlockInv, NoErrors, CommitSucceeds

\* A commit fails only for a reason: whatever the order in which the
\* environments take their steps, the ports are as updateFlows() expects them
\* and the two ends of a network flow meet.
THEOREM CommitsSucceed ==
    ASSUME BlocksAreOthers
    PROVE  Spec => []CommitSucceeds
  BY AlwaysBlocks, NothingFails, PTL

LEMMA AllAgree == PortInv /\ FlowInv /\ BlockInv => SubscriptionsMatch
<1> SUFFICES ASSUME PortInv, FlowInv, BlockInv, Settled
             PROVE  /\ subInputs = Active /\ subOutputs = Active
                    /\ active = Objs(Active)
                    /\ \A f \in subInputs : Src(f) \in DOMAIN managers
                    /\ \A key \in DOMAIN cache : NetSink(key, cache[key]) \in Objs(Active)
  BY DEF SubscriptionsMatch
<1>1. ~Committing /\ BlocksAlive /\ PairsActive
  BY DEF Settled, BlockInv
<1>2. \A e \in Envs : sub[e].pc = "idle"
  BY <1>1 DEF Committing
<1>3. \A e \in Envs : {b \in active : Env(b) = e} = Objs(envActive[e])
  BY <1>1, <1>2 DEF BlocksAlive, Alive
<1>4. \A b : b \in active <=> \E e \in Envs : b \in Objs(envActive[e])
  BY <1>1, <1>3 DEF BlocksAlive
<1>5. \A b : b \in Objs(Active) <=> \E e \in Envs : b \in Objs(envActive[e])
  BY DEF Objs, Active
<1>6. active = Objs(Active)
  BY <1>4, <1>5
<1>7. QED BY <1>1, <1>6, PortsAgree DEF PairsActive

\* When commit() has returned without a reason to fail, the environments are as
\* was asked for: output ports, input ports, managers, active blocks and
\* remembered network blocks all belong to the same flows.
THEOREM EnvironmentsAgree ==
    ASSUME BlocksAreOthers
    PROVE  Spec => []SubscriptionsMatch
  BY AlwaysBlocks, AllAgree, PTL
=============================================================================
