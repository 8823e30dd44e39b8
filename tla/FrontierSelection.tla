-------------------------- MODULE FrontierSelection --------------------------
(***************************************************************************)
(* omokai_exploration.frontier on an omokai_exploration.grid: which cells   *)
(* of an occupancy grid may become navigation goals.  A grid maps cells     *)
(* <<row, column>>, counted from 0, to -1 (unknown) .. 100; lengths are in  *)
(* cells.  The order by score, a difference of a length and a Euclidean     *)
(* distance, is left out: the candidates are a set.                         *)
(***************************************************************************)
EXTENDS Integers, FiniteSets, FiniteSetsExt

Unknown == -1

\* OccupancyGrid: a value for each of its cells.
Cell(height, width) == (0 .. height - 1) \X (0 .. width - 1)

Occupancy(height, width, Value) == [Cell(height, width) -> Value]

Distance2(a, b) ==
  (a[1] - b[1]) * (a[1] - b[1]) + (a[2] - b[2]) * (a[2] - b[2])

Neighbors4(grid, cell) == {c \in DOMAIN grid : Distance2(c, cell) = 1}

Neighbors8(grid, cell) == {c \in DOMAIN grid : Distance2(c, cell) \in {1, 2}}

\* measure_map_progress.
KnownCells(grid) == Cardinality({c \in DOMAIN grid : grid[c] # Unknown})

IsFree(value, config) == value \in 0 .. config.freeThreshold

IsOccupied(value, config) == value >= config.occupiedThreshold

\* frontier_cells: free cells with an edge to unknown space.
FrontierCells(grid, config) ==
  {c \in DOMAIN grid : /\ IsFree(grid[c], config)
                       /\ \E n \in Neighbors4(grid, c) : grid[n] = Unknown}

\* The inner loop of frontier_clusters: pending cells move to the cluster and
\* bring their neighbours.
RECURSIVE Grow(_, _, _, _)
Grow(grid, remaining, pending, cluster) ==
  IF pending = {} THEN cluster
  ELSE LET cell == CHOOSE c \in pending : TRUE
           connected == Neighbors8(grid, cell) \cap remaining
       IN  Grow(grid, remaining \ connected, (pending \ {cell}) \cup connected,
                cluster \cup {cell})

\* frontier_clusters: clusters grow from seeds until no cell remains.
RECURSIVE FrontierClusters(_, _)
FrontierClusters(grid, cells) ==
  IF cells = {} THEN {}
  ELSE LET seed == CHOOSE c \in cells : TRUE
           cluster == Grow(grid, cells \ {seed}, {seed}, {})
       IN  {cluster} \cup FrontierClusters(grid, cells \ cluster)

\* _has_clearance: nothing occupied in the square around the cell.
HasClearance(grid, cell, config) ==
  \A c \in DOMAIN grid :
    /\ c[1] \in cell[1] - config.clearance .. cell[1] + config.clearance
    /\ c[2] \in cell[2] - config.clearance .. cell[2] + config.clearance
    => config.clearance = 0 \/ ~ IsOccupied(grid[c], config)

IsNearPoints(cell, points, radius) ==
  \E p \in points : Distance2(cell, p) <= radius * radius

\* The cells of a cluster that rank_frontiers may send the robot to.
Eligible(grid, cluster, config, blacklist, visited) ==
  {c \in cluster : /\ HasClearance(grid, c, config)
                   /\ ~ IsNearPoints(c, blacklist, config.blacklistRadius)
                   /\ ~ IsNearPoints(c, visited, config.visitedRadius)}

\* The eligible cell nearest to the mean of the cluster, the first in row-major
\* order of several.  The mean is scaled by the size of the cluster.
GoalOf(cluster, eligible) ==
  LET n == Cardinality(cluster)
      sum(i) == FoldSet(LAMBDA c, total : total + c[i], 0, cluster)
      off(c) == Distance2(<<n * c[1], n * c[2]>>, <<sum(1), sum(2)>>)
      before(a, b) == a[1] < b[1] \/ (a[1] = b[1] /\ a[2] <= b[2])
  IN  CHOOSE c \in eligible : \A d \in eligible :
        off(c) < off(d) \/ (off(c) = off(d) /\ before(c, d))

\* rank_frontiers: the goals of the clusters that are large enough.
RankFrontiers(grid, config, blacklist, visited) ==
  LET clusters == FrontierClusters(grid, FrontierCells(grid, config))
      eligible(cluster) == Eligible(grid, cluster, config, blacklist, visited)
  IN  {GoalOf(cluster, eligible(cluster)) :
         cluster \in {k \in clusters : /\ Cardinality(k) >= config.minClusterSize
                                       /\ eligible(k) # {}}}
=============================================================================
