---------------------------- MODULE MCExploration ----------------------------
(***************************************************************************)
(* Instances of Exploration: three places, two of them close enough that    *)
(* a failure at one rules out the other; and the checks of                  *)
(* FrontierSelection on every grid of two by four cells.                    *)
(***************************************************************************)
EXTENDS Exploration, FrontierSelection

Itself == {<<p, p>> : p \in Place}

NearAB == Itself \cup {<<"a", "b">>, <<"b", "a">>}

GoalIds == 1 .. MaxGoals

SmallGrid == Occupancy(2, 4, {Unknown, 0, 100})

Config == [freeThreshold |-> 20, occupiedThreshold |-> 65, minClusterSize |-> 2,
           clearance |-> 1, blacklistRadius |-> 1, visitedRadius |-> 2]

\* The least set with the seed that is closed under being neighbours in S.
Component(grid, S, seed) ==
  LET closed == {T \in SUBSET S : /\ seed \in T
                                  /\ \A c \in T : Neighbors8(grid, c) \cap S \subseteq T}
  IN  CHOOSE T \in closed : \A U \in closed : T \subseteq U

\* The clusters are the components of the frontier under eight-connectivity,
\* and the frontier separates free from unknown space.
ASSUME ClustersAreComponents ==
  \A grid \in SmallGrid :
    LET cells == FrontierCells(grid, Config)
    IN  FrontierClusters(grid, cells) = {Component(grid, cells, c) : c \in cells}

\* Every goal is a free cell with clearance at a frontier, and once it is
\* visited or blacklisted it is no goal any more: the places of Exploration.
ASSUME GoalsAreOpen ==
  \A grid \in SmallGrid : \A goal \in RankFrontiers(grid, Config, {}, {}) :
    /\ grid[goal] = 0
    /\ HasClearance(grid, goal, Config)
    /\ \E n \in Neighbors4(grid, goal) : grid[n] = Unknown
    /\ goal \notin RankFrontiers(grid, Config, {goal}, {})
    /\ goal \notin RankFrontiers(grid, Config, {}, {goal})

\* A map that is known everywhere has no goal: exploration may complete.
ASSUME KnownMapHasNoGoal ==
  \A grid \in SmallGrid : KnownCells(grid) = 8 => RankFrontiers(grid, Config, {}, {}) = {}
=============================================================================
