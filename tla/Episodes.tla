------------------------------- MODULE Episodes -------------------------------
(***************************************************************************)
(* The step-by-step walks of aegis_router/sim.py, and of the training      *)
(* environment RouterEnv of auto_opt/trainer.py, over a graph that stays   *)
(* as it is.                                                               *)
(*                                                                         *)
(* route_shortest_path asks the graph anew at every hop: its walk is a     *)
(* sequence of the searches of PathSearch, which run here step by step.    *)
(* The walks of QRoutingAgent and HybridRoutingScorer may take any hop     *)
(* their scores may prefer; learning changes scores only.  The actions of  *)
(* the environment are those of an untrained policy: any neighbour.        *)
(***************************************************************************)
EXTENDS PathSearch

CONSTANTS
  MaxHops,      \* max_hops of the routers
  Ttl           \* ttl of the environment's packets

ASSUME EpisodeAssumption == MaxHops \in Nat /\ Ttl \in Nat

VARIABLES
  router,       \* "shortest", "scored", "gym", or "none": a search of its own
  path,         \* the nodes the walk has reached: node, hop and visited of the code
  verdict       \* "open", "delivered" or "lost"

walkVars == <<router, path, verdict>>
allVars == <<vars, walkVars>>

Here == Last(path)
Hop == Len(path) - 1
Visited == ToSet(path)

\* reset of the environment takes a packet the simulator has generated.
Drawn == router = "gym" => src # dst

EpisodeInit ==
  /\ Init
  /\ router \in {"none", "shortest", "scored", "gym"}
  /\ router \in {"shortest", "scored", "gym"} => task = "hops"
  /\ Drawn
  /\ path = <<src>> /\ verdict = "open"

End(v) == verdict' = v /\ UNCHANGED <<vars, router, path>>
Walking(r) == router = r /\ verdict = "open"
-----------------------------------------------------------------------------
(* The routers *)

Routes == \/ Walking("shortest") \/ Walking("scored")

Arrive == Routes /\ Hop < MaxHops /\ Here = dst /\ End("delivered")

Deciding == Hop < MaxHops /\ Here # dst
Revisits == router = "shortest" /\ Here \in ToSet(Front(path))

\* The loop over range(max_hops) is over, also when the last hop reached dst; or the
\* shortest route has come back.
GiveUp == Routes /\ (Hop = MaxHops \/ (Deciding /\ Revisits)) /\ End("lost")

SearchKeepingSeen(n) ==                              \* mutant: seen outlives a search
  /\ queue' = {[cost |-> 0, node |-> n, first |-> {}]}
  /\ answer' = {} /\ done' = FALSE /\ settled' = [m \in Node |-> -1] /\ UNCHANGED seen
\* A new call of shortest_path_next_hop.
Search(n) ==
  /\ queue' = {[cost |-> 0, node |-> n, first |-> {}]}
  /\ answer' = {} /\ done' = FALSE /\ settled' = [m \in Node |-> -1] /\ seen' = {}

\* The search for the next hop is under way.
Seek ==
  /\ Walking("shortest") /\ Deciding /\ ~Revisits /\ ~done
  /\ Pop \/ NoPath
  /\ UNCHANGED walkVars

\* It has returned.
Forward ==
  /\ Walking("shortest") /\ Deciding /\ done
  /\ \/ answer = {} /\ End("lost")
     \/ \E nxt \in answer :
          /\ path' = Append(path, nxt) /\ src' = nxt /\ Search(nxt)
          /\ UNCHANGED <<router, verdict, task, dst, linkCost, offline, landmarks, bfsVars>>

\* The hops choose of the agent, training or not, or of the hybrid scorer may return.
ScoredHops == PreferUnvisited(ReachableNeighbors(Here), Visited)

Choose ==
  /\ Walking("scored") /\ Deciding
  /\ \/ ScoredHops = {} /\ End("lost")
     \/ \E nxt \in ScoredHops :
          path' = Append(path, nxt) /\ UNCHANGED <<vars, router, verdict>>
-----------------------------------------------------------------------------
(* The environment: a step that ends the episode, or one hop.  It does not *)
(* ask whether a node is offline.                                          *)

Fails ==
  \/ Adj[Here] = {} \/ Hop >= Ttl \/ Here \in ToSet(Front(path))

Step ==
  /\ Walking("gym")
  /\ \/ End("lost")                                  \* as it fails, or the link loses it
     \/ /\ ~Fails
        /\ \E nxt \in Adj[Here] :
             /\ path' = Append(path, nxt)
             /\ verdict' = IF nxt = dst THEN "delivered" ELSE "open"
        /\ UNCHANGED <<vars, router>>
-----------------------------------------------------------------------------
Over == verdict # "open" /\ UNCHANGED allVars

EpisodeNext ==
  \/ router = "none" /\ Next /\ UNCHANGED walkVars
  \/ Arrive \/ GiveUp \/ Seek \/ Forward \/ Choose \/ Step
  \/ Over

EpisodeSpec == EpisodeInit /\ [][EpisodeNext]_allVars
-----------------------------------------------------------------------------
(* Properties *)

\* Asking the graph anew at every hop (sim.py 85-105) goes straight: every hop brings the
\* packet one nearer, so that it never meets a node again, and it is reported delivered
\* exactly if there is a way and it is shorter than max_hops.
WalksStraight ==
  router = "shortest" =>
    LET way == Cheapest(path[1], dst)
    IN  /\ way < Unreached => Hop + Cheapest(Here, dst) = way
        /\ verdict # "open" => (verdict = "delivered" <=> way < Unreached /\ way < MaxHops)
=============================================================================
