--------------------------- MODULE LevelObstacles ---------------------------
(***************************************************************************)
(* LevelObstacles.cpp: the level's boxes, the grid rasterised from them    *)
(* and the search on it.                                                   *)
(*                                                                         *)
(* Coordinates are integers, so the arithmetic of the slab test is exact   *)
(* (the code's is in floats).  A point is a pair, a cell a pair of         *)
(* indices; the length of a step between cells is CellCost, DiagonalCost   *)
(* for a diagonal one (the code's sqrt(2)), in a unit of its own.          *)
(***************************************************************************)
EXTENDS Integers, Sequences, FiniteSets, FiniteSetsExt

CONSTANTS
  Boxes,          \* obstacles_: <<minX, minY, maxX, maxY>>
  Margin,         \* kMarginUnits
  CellSize,       \* cellSize_ (of a level small enough for kMaxGridCells)
  AgentRadius,    \* kAgentRadius, and EnemyAI.cpp's kEnemyRadius
  MaxExpansions,  \* kMaxAStarExpansions
  CellCost, DiagonalCost

ASSUME ObstacleAssumption ==
  /\ IsFiniteSet(Boxes) /\ Boxes # {}
  /\ \A b \in Boxes : b \in Int \X Int \X Int \X Int /\ b[1] <= b[3] /\ b[2] <= b[4]
  /\ Margin \in Nat /\ CellSize \in Nat \ {0} /\ AgentRadius \in Nat
  /\ MaxExpansions \in Nat /\ CellCost \in Nat \ {0}
  /\ DiagonalCost \in Nat /\ CellCost <= DiagonalCost /\ DiagonalCost <= 2 * CellCost

Points == Int \X Int

(* static_cast<int> of a quotient truncates toward zero. *)
Trunc(a, b) == IF a >= 0 THEN a \div b ELSE -((-a) \div b)
Sign(a) == IF a > 0 THEN 1 ELSE IF a < 0 THEN -1 ELSE 0
Abs(a) == IF a < 0 THEN -a ELSE a

(* g, but f where f has a value. *)
Over(f, g) == [x \in DOMAIN f \cup DOMAIN g |-> IF x \in DOMAIN f THEN f[x] ELSE g[x]]
-----------------------------------------------------------------------------
(* BuildGrid *)
GridMinX == Min({ b[1] : b \in Boxes }) - Margin
GridMinY == Min({ b[2] : b \in Boxes }) - Margin
GridW == Max({1, Trunc(Max({ b[3] : b \in Boxes }) + Margin - GridMinX, CellSize) + 1})
GridH == Max({1, Trunc(Max({ b[4] : b \in Boxes }) + Margin - GridMinY, CellSize) + 1})

Cells == { <<x, y>> : x \in 0 .. GridW - 1, y \in 0 .. GridH - 1 }

(* The cell of a point; outside of the grid, no element of Cells, except   *)
(* that a point less than a cell to the left or below is in the first one. *)
CellOf(p) == <<Trunc(p[1] - GridMinX, CellSize), Trunc(p[2] - GridMinY, CellSize)>>

Inflate(b, r) == <<b[1] - r, b[2] - r, b[3] + r, b[4] + r>>

(* grid_: the cells from one corner of an inflated box to the other.       *)
CoveredBy(b) ==
  LET i == Inflate(b, AgentRadius)
      low == CellOf(<<i[1], i[2]>>)
      high == CellOf(<<i[3], i[4]>>)
  IN { c \in Cells : \A k \in 1 .. 2 : low[k] <= c[k] /\ c[k] <= high[k] }

BlockedCells == UNION { CoveredBy(b) : b \in Boxes }
FreeCells == Cells \ BlockedCells

Centre(c) == <<GridMinX + c[1] * CellSize + CellSize \div 2, GridMinY + c[2] * CellSize + CellSize \div 2>>
-----------------------------------------------------------------------------
(* SegmentBlocked: the slab test.  Times along the segment are multiplied  *)
(* by the lengths of its sides, "whole" is the time of its end.            *)
Slab(origin, along, low, high, whole) ==
  IF along = 0 THEN IF low <= origin /\ origin <= high THEN <<0, whole>> ELSE <<whole, 0>>
  ELSE LET Time(x) == (x - origin) * Sign(along) * (whole \div Abs(along))
       IN <<Min({Time(low), Time(high)}), Max({Time(low), Time(high)})>>

SegmentIntersectsBox(p, q, b) ==
  LET dx == q[1] - p[1]
      dy == q[2] - p[2]
      whole == Max({1, Abs(dx)}) * Max({1, Abs(dy)})
      x == Slab(p[1], dx, b[1], b[3], whole)
      y == Slab(p[2], dy, b[2], b[4], whole)
  IN Max({0, x[1], y[1]}) <= Min({whole, x[2], y[2]})

SegmentBlocked(p, q, radius) == \E b \in Boxes : SegmentIntersectsBox(p, q, Inflate(b, radius))
-----------------------------------------------------------------------------
(* FindPath *)

(* The free cells around, diagonally only between two free ones.           *)
Neighbours(c) ==
  { n \in FreeCells \ {c} :
      /\ Abs(n[1] - c[1]) <= 1 /\ Abs(n[2] - c[2]) <= 1
      /\ <<n[1], c[2]>> \notin BlockedCells /\ <<c[1], n[2]>> \notin BlockedCells }

MoveCost(c, n) == IF c[1] # n[1] /\ c[2] # n[2] THEN DiagonalCost ELSE CellCost

(* Mutation of Heuristic: the distance along the axes, which a diagonal undercuts. *)
HeuristicManhattan(c, goal) == (Abs(c[1] - goal[1]) + Abs(c[2] - goal[2])) * CellCost

Heuristic(c, goal) ==
  LET dx == Abs(c[1] - goal[1])
      dy == Abs(c[2] - goal[2])
      diagonal == Min({dx, dy})
  IN diagonal * DiagonalCost + (Max({dx, dy}) - diagonal) * CellCost

(* One turn of the loop: the entry with the least fScore is taken, and     *)
(* skipped if a better way there was found since it was queued.            *)
Expand(search, goal) ==
  LET top == CHOOSE t \in search.open : \A u \in search.open : t[2] <= u[2]
      c == top[1]
      rest == search.open \ {top}
      Through(n) == search.g[c] + MoveCost(c, n)
      better == { n \in Neighbours(c) : n \notin DOMAIN search.g \/ Through(n) < search.g[n] }
  IN IF search.open = {} \/ search.found THEN search
     ELSE IF c = goal THEN [search EXCEPT !.found = TRUE, !.open = rest]
     ELSE IF top[2] - Heuristic(c, goal) > search.g[c] THEN [search EXCEPT !.open = rest]
     ELSE [found |-> FALSE,
           g     |-> Over([n \in better |-> Through(n)], search.g),
           from  |-> Over([n \in better |-> c], search.from),
           open  |-> rest \cup { <<n, Through(n) + Heuristic(n, goal)>> : n \in better }]

AStar(start, goal) ==
  LET after[n \in 0 .. MaxExpansions] ==
        IF n > 0 THEN Expand(after[n - 1], goal)
        ELSE [found |-> FALSE, g |-> [c \in {start} |-> 0], from |-> [c \in {start} |-> c],
              open |-> {<<start, Heuristic(start, goal)>>}]
  IN after[MaxExpansions]

(* Every search there can be. *)
Searches == [cells \in FreeCells \X FreeCells |-> AStar(cells[1], cells[2])]

(* A search has ended by itself, with the goal or without entries, and not *)
(* because of its bound.                                                   *)
Ended(search) == search.found \/ search.open = {}

SearchesEnd == \A start, goal \in FreeCells : Ended(AStar(start, goal))

(* Mutation of Farthest: the line is looked along without the radius. *)
FarthestThin(path, anchor) ==
  Max({anchor + 1} \cup { i \in anchor + 2 .. Len(path) : ~SegmentBlocked(path[anchor], path[i], 0) })

(* The farthest point of the path in a straight line from one of them: the *)
(* next one is taken as such without a look.                               *)
Farthest(path, anchor) ==
  Max({anchor + 1} \cup { i \in anchor + 2 .. Len(path) : ~SegmentBlocked(path[anchor], path[i], AgentRadius) })

SmoothPath(path) ==
  LET from[i \in 1 .. Len(path)] ==
        IF i = Len(path) THEN <<path[i]>> ELSE <<path[i]>> \o from[Farthest(path, i)]
  IN from[1]

NoPath == <<>>

(* The cells the search came through. *)
WayTo(search, start, goal) ==
  LET cells[c \in DOMAIN search.from] ==
        IF c = start THEN <<c>> ELSE Append(cells[search.from[c]], c)
  IN cells[goal]

(* The ends are the points asked for, the points between centres of cells. *)
AlongCells(cells, p, q) ==
  SmoothPath([i \in DOMAIN cells |-> IF i = 1 THEN p ELSE IF i = Len(cells) THEN q ELSE Centre(cells[i])])

FindPath(p, q) ==
  LET start == CellOf(p)
      goal == CellOf(q)
      search == Searches[start, goal]
  IN IF {start, goal} \subseteq FreeCells
     THEN IF start = goal THEN <<q>>
          ELSE IF search.found THEN AlongCells(WayTo(search, start, goal), p, q)
          ELSE NoPath
     ELSE NoPath
-----------------------------------------------------------------------------
(* What the search should find, from no code: the length of a shortest way *)
(* from the start to every cell it can reach, by rounds of relaxation.     *)
Shortest(start) ==
  LET after[n \in 0 .. Cardinality(FreeCells)] ==
        IF n = 0 THEN [c \in {start} |-> 0]
        ELSE LET d == after[n - 1]
                 Ways(c) == { d[m] + MoveCost(m, c) : m \in Neighbours(c) \cap DOMAIN d }
                 nearer == { c \in FreeCells : Ways(c) # {} /\ (c \notin DOMAIN d \/ Min(Ways(c)) < d[c]) }
             IN Over([c \in nearer |-> Min(Ways(c))], d)
  IN after[Cardinality(FreeCells)]

(* The pairs of cells with a way between them. *)
Connected == UNION { {c} \X DOMAIN Shortest(c) : c \in FreeCells }

(* The searches that find a way if there is one, and none shorter exists.  *)
GoodSearches ==
  LET Good(c, best) == { d \in FreeCells : LET search == Searches[c, d]
                                           IN /\ search.found = (d \in DOMAIN best)
                                              /\ search.found => search.g[d] = best[d] }
  IN UNION { {c} \X Good(c, Shortest(c)) : c \in FreeCells }
=============================================================================
