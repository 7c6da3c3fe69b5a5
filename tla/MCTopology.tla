----------------------------- MODULE MCTopology -----------------------------
(***************************************************************************)
(* Blocks a and b in one environment, d in another, and a topology T with  *)
(* a block c in it; the input and the output port of T have one name, as   *)
(* ports with an index have.  The memory of c is a domain of its own.      *)
(***************************************************************************)
EXTENDS Topology

CONSTANTS a, b, c, d, S, T, here, there

MCEnvOf == [x \in Blocks |-> IF x = d THEN there ELSE here]

A == <<a, "0">>
B == <<b, "0">>
C == <<c, "0">>
D == <<d, "1">>
P == <<T, "0">>

MCDomain == C :> "device"
MCInputMode == <<C, "">> :> "CUSTOM"
MCOutputMode == [p \in {} |-> ""]
E == <<a, "1">>

MCAutoPorts == {<<"in", D>>, <<"out", E>>}

MCConnections ==
    {<<S, <<A, B>>>>, <<S, <<A, P>>>>, <<S, <<P, B>>>>, <<S, <<A, D>>>>, <<S, <<E, D>>>>,
     <<T, <<P, P>>>>, <<T, <<P, C>>>>}

\* The ways through the hierarchy, each port of a topology being two nodes.
Edges ==
    UNION {{<<IF Obj(Src(f)) = t THEN <<"in", Src(f)>> ELSE <<"out", Src(f)>>,
               IF Obj(Dst(f)) = t THEN <<"out", Dst(f)>> ELSE <<"in", Dst(f)>>>> :
                f \in flows[t]} : t \in Topologies}

\* From an input to an output of one topology
Through == {e \in Edges : e[1][1] = "in" /\ e[2][1] = "out"}

Joined(ways, more) == {<<x[1], y[2]>> : <<x, y>> \in {z \in ways \X more : z[1][2] = z[2][1]}}
Doubled(ways) == ways \cup Joined(ways, ways)

\* Ways of up to eight of these edges
Ways(edges) == Doubled(Doubled(Doubled(edges)))

\* The blocks at their ends
Reached(ways) ==
    {<<x[1][2], x[2][2]>> :
        x \in {y \in ways : ~OfHierarchy(y[1][2]) /\ ~OfHierarchy(y[2][2])}}

\* FlatIsReachable: commit() finds a flow from one block to another just when
\* there is a way through the hierarchy on which at most one flow passes through
\* a topology (with up to eight connections before and behind it), for
\* completePassThroughFlows() gives such a flow a head and a tail that end at
\* blocks.  A way through two topologies in a row is lost there.
FlatIsReachable ==
    LET direct == Ways(Edges \ Through)
    IN  {Plain(f) : f \in Completes} =
        Reached(direct \cup Joined(Joined(direct, Through), direct))
=============================================================================
