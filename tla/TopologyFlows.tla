--------------------------- MODULE TopologyFlows ---------------------------
(***************************************************************************)
(* How Topology::commit() turns the flows of a hierarchy of topologies     *)
(* into flows between blocks: it squashes the hierarchy, completes the     *)
(* flows that pass through a topology, bridges environments with a pair of *)
(* network blocks and buffer domains with a copier.                        *)
(*                                                                         *)
(* A port is <<obj, name>> and a flow <<src, dst>>, compared as the code   *)
(* compares them.  The obj of a port of the hierarchy is the topology      *)
(* itself (a null Proxy in the code).  The code works on vectors: here a   *)
(* flow has a third component that tells where it comes from, so that a    *)
(* flow found in two ways is there twice.                                  *)
(***************************************************************************)
EXTENDS Integers, Sequences, FiniteSets

CONSTANTS Blocks, Topologies,
          Top,                    \* the topology that is committed
          EnvOf,                  \* environment of each block
          Domain,                 \* of the ports that have one, else ""
          InputMode, OutputMode   \* by port and domain, else "ABDICATE"

Src(flow) == flow[1]
Dst(flow) == flow[2]
Plain(flow) == <<Src(flow), Dst(flow)>>
Obj(port) == port[1]

Objs(flows) == {Obj(Src(f)) : f \in flows} \cup {Obj(Dst(f)) : f \in flows}
OfHierarchy(port) == Obj(port) \notin Blocks

(***************************************************************************)
(* squashFlows()                                                           *)
(***************************************************************************)

\* Paths from a port to the blocks that it stands for, through the flows that
\* the topologies have with themselves.
PathsFrom(flows) ==
    LET ports == {Dst(f) : f \in UNION {flows[t] : t \in Topologies}}
        paths[p \in ports] ==
            IF ~OfHierarchy(p) THEN {<<p>>}
            ELSE UNION {IF Obj(Dst(f)) = Obj(p) THEN {<<p, Dst(f)>>}
                        ELSE {<<p>> \o path : path \in paths[Dst(f)]}
                        : f \in {g \in flows[Obj(p)] : Src(g) = p}}
    IN  paths

PathsTo(flows) ==
    LET ports == {Src(f) : f \in UNION {flows[t] : t \in Topologies}}
        paths[p \in ports] ==
            IF ~OfHierarchy(p) THEN {<<p>>}
            ELSE UNION {IF Obj(Src(f)) = Obj(p) THEN {<<Src(f), p>>}
                        ELSE {path \o <<p>> : path \in paths[Src(f)]}
                        : f \in {g \in flows[Obj(p)] : Dst(g) = p}}
    IN  paths

\* All combinations of sources and destinations of a flow, the flows of the
\* topologies within, and the flows that pass through.
Squashed(flows) ==
    LET squash[t \in Topologies] ==
            LET inner == {f \in flows[t] : t \notin Objs({f})}
                through == {f \in flows[t] : Objs({f}) = {t}}
            IN  UNION {{<<Head(s), d[Len(d)], s \o d>> :
                           s \in PathsTo(flows)[Src(f)], d \in PathsFrom(flows)[Dst(f)]}
                       : f \in inner}
                \cup UNION {squash[o] : o \in (Objs(flows[t]) \cap Topologies) \ {t}}
                \cup {<<Src(f), Dst(f), f>> : f \in through}
    IN  squash[Top]

\* Mutant: a flow that ends at a port of the hierarchy counts as complete.
CompletedMutant(squashed) == {f \in squashed : ~OfHierarchy(Src(f))}

\* completePassThroughFlows()
Completed(squashed) ==
    LET through == {f \in squashed : OfHierarchy(Src(f)) /\ OfHierarchy(Dst(f))}
        complete == {f \in squashed : ~OfHierarchy(Src(f)) /\ ~OfHierarchy(Dst(f))}
        heads == {f \in squashed : ~OfHierarchy(Src(f))}
        tails == {f \in squashed : ~OfHierarchy(Dst(f))}
    IN  complete \cup
        {<<Src(x[1]), Dst(x[3]), x>> :
            x \in {y \in heads \X through \X tails :
                      Src(y[2]) = Src(y[3]) /\ Dst(y[2]) = Dst(y[1])}}

(***************************************************************************)
(* createNetworkFlows()                                                    *)
(***************************************************************************)

\* The blocks that commit() makes; `made` tells those of one commit from
\* those of the next.
Env(obj) == IF obj \in Blocks THEN EnvOf[obj] ELSE obj.env

NetSink(key, made) ==
    [kind |-> "sink", key |-> key, made |-> made, env |-> Env(Obj(key[1]))]
NetSource(key, made) ==
    [kind |-> "source", key |-> key, made |-> made, env |-> key[2]]

\* envTagPort(): one pair of blocks per source and destination environment
NetKey(flow) == <<Src(flow), Env(Obj(Dst(flow)))>>
Crosses(flow) == Env(Obj(Src(flow))) # Env(Obj(Dst(flow)))
CrossingKeys(flows) == {NetKey(f) : f \in {g \in flows : Crosses(g)}}

Cached(cache, flows, now) ==
    [key \in DOMAIN cache \cup CrossingKeys(flows) |->
        IF key \in DOMAIN cache THEN cache[key] ELSE now]

NetworkFlows(flows, cache) ==
    {f \in flows : ~Crosses(f)}
    \cup {<<key[1], <<NetSink(key, cache[key]), "0">>, <<>>>> : key \in CrossingKeys(flows)}
    \cup {<<<<NetSource(NetKey(f), cache[NetKey(f)]), "0">>, Dst(f), f[3]>> :
             f \in {g \in flows : Crosses(g)}}

(***************************************************************************)
(* rectifyDomainFlows()                                                    *)
(***************************************************************************)

DomainOf(port) == IF port \in DOMAIN Domain THEN Domain[port] ELSE ""

\* getBufferMode(): does the block bring a manager for its port when the other
\* side has this domain?
Mode(port, isInput, domain) ==
    LET modes == IF isInput THEN InputMode ELSE OutputMode
    IN  IF <<port, domain>> \in DOMAIN modes THEN modes[<<port, domain>>] ELSE "ABDICATE"

\* isDomainCrossingAcceptable(), the flows on the port given
Acceptable(port, flows, isInput) ==
    LET others == {IF isInput THEN Src(f) ELSE Dst(f) : f \in flows}
        domains == {DomainOf(p) : p \in others}
        mode == Mode(port, isInput, CHOOSE d \in domains : TRUE)
    IN  /\ Cardinality(domains) = 1
        /\ \/ mode = "ABDICATE"
           \/ /\ mode = "CUSTOM"
              /\ isInput => Cardinality(flows) = 1
              /\ \A p \in others : Mode(p, ~isInput, DomainOf(port)) = "ABDICATE"

Copier(port, isInput, now) ==
    <<[kind |-> "copier", key |-> <<port, isInput>>, made |-> now, env |-> Env(Obj(port))], "0">>

RectifiedFlows(flows, now) ==
    LET badSrcs == {s \in {Src(f) : f \in flows} :
                       ~Acceptable(s, {f \in flows : Src(f) = s}, FALSE)}
        badDsts == {d \in {Dst(f) : f \in flows} :
                       ~Acceptable(d, {f \in flows : Dst(f) = d}, TRUE)}
        bridged(f) ==
            LET copier == IF Dst(f) \in badDsts THEN Copier(Dst(f), TRUE, now)
                          ELSE Copier(Src(f), FALSE, now)
            IN  {<<Src(f), copier, <<>>>>, <<copier, Dst(f), <<>>>>}
    IN  UNION {IF Src(f) \in badSrcs \/ Dst(f) \in badDsts THEN bridged(f) ELSE {f} : f \in flows}
=============================================================================
