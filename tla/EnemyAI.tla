------------------------------- MODULE EnemyAI -------------------------------
(***************************************************************************)
(* EnemyAI.cpp and the tick of a room that drives it: target choice,       *)
(* chase along a path, swing, windup and hit, and a caller's sweep.        *)
(*                                                                         *)
(* Time is in units of Tick's deltaSeconds, and a unit of time moves an    *)
(* enemy by one unit of length: a direction is rounded to one of the eight *)
(* to a neighbouring point, and turning it by kDeflectDegrees is exact.    *)
(* Countdowns that are only compared with zero stop there.  The record has *)
(* the fields Tick decides by.  Room::Tick is two steps, as the members    *)
(* move and hide in between: Look takes playerSnapshots, Act is            *)
(* EnemyAI::Tick under its lock and the packets that report it.            *)
(***************************************************************************)
EXTENDS LevelObstacles

CONSTANTS
  Enemies,          \* enemy ids
  Players,          \* members of the room
  Records,          \* what clients register: position, health, whether it is a caller
  Posts,            \* where players may stand
  Spawn,            \* where they stand at first
  Deltas,           \* deltaSeconds of a tick
  AttackRange, AttackCooldown,
  Windup,           \* kAttackWindupSeconds
  ArrivalRadius,    \* kWaypointArrivalRadius
  RepathCooldown,   \* the 0.3 s between searches
  RepathMove,       \* kRepathTargetMoveThreshold
  CallRadius, CallCooldown,
  None,             \* no session (id 0)
  MaxEvents         \* bound: what clients do besides waiting

ASSUME EnemyAssumption ==
  /\ IsFiniteSet(Enemies) /\ IsFiniteSet(Players) /\ None \notin Players
  /\ Posts \subseteq Points /\ Spawn \in Posts /\ Deltas \subseteq Nat \ {0}
  /\ AttackRange \in Nat /\ AttackCooldown \in Nat \ {0} /\ Windup \in Nat \ {0}
  /\ ArrivalRadius \in Nat /\ RepathCooldown \in Nat \ {0} /\ RepathMove \in Nat
  /\ CallRadius \in Nat /\ CallCooldown \in Nat \ {0} /\ MaxEvents \in Nat
  /\ Records \subseteq [pos : Points, health : Nat \ {0}, caller : BOOLEAN]

VARIABLES
  enemies,  \* enemies_: the registered enemies and the record of each
  at,       \* position_ of each member
  visible,  \* the members whose visible_ is set
  stale,    \* a hiding player's handler is about to reset the world
  looking,  \* the tick is between Look and Act
  seen,     \* playerSnapshots
  report,   \* the events of the last Act and the time it was given
  swing,    \* ghost: whom an enemy's last swing is for, and how long ago it began
  events    \* what clients have done

vars == <<enemies, at, visible, stale, looking, seen, report, swing, events>>

NoReport == [starts |-> {}, hits |-> {}, delta |-> 0]
Rested == [aim |-> None, age |-> Windup + AttackCooldown]

Plus(p, v) == <<p[1] + v[1], p[2] + v[2]>>
Minus(p, q) == <<p[1] - q[1], p[2] - q[2]>>
Scale(k, v) == <<k * v[1], k * v[2]>>
Square(v) == v[1] * v[1] + v[2] * v[2]
Within(p, q, r) == Square(Minus(p, q)) <= r * r

(* A vector over its length, to the nearest of the eight; nothing stays so. *)
Direction(v) == [k \in 1 .. 2 |-> IF 4 * v[k] * v[k] >= Square(v) THEN Sign(v[k]) ELSE 0]
TurnLeft(d) == <<Sign(d[1] - d[2]), Sign(d[1] + d[2])>>
TurnRight(d) == <<Sign(d[1] + d[2]), Sign(d[2] - d[1])>>

CountDown(remaining, delta) == Max({0, remaining - delta})
-----------------------------------------------------------------------------
(* One enemy's turn                                                        *)

Living(e) == e \in DOMAIN enemies /\ enemies[e].health > 0

(* resolveTargetIdx: the forced target if it is there, or a nearest one.   *)
Targets(r) ==
  IF r.forced \in DOMAIN seen THEN {r.forced}
  ELSE { p \in DOMAIN seen : \A o \in DOMAIN seen :
           Square(Minus(seen[p], r.pos)) <= Square(Minus(seen[o], r.pos)) }

Sees(r, p) == ~SegmentBlocked(r.pos, seen[p], 0)
InReach(r, p) == Within(r.pos, seen[p], AttackRange) /\ Sees(r, p)

(* A new search, when one is allowed and the path is used up or outdated.  *)
Repath(r, goal, delta) ==
  LET wait == CountDown(r.wait, delta)
      exhausted == r.idx > Len(r.path)
      outdated == ~Within(goal, r.goal, RepathMove)
  IN IF wait = 0 /\ (exhausted \/ outdated)
     THEN [r EXCEPT !.path = FindPath(r.pos, goal), !.idx = 1, !.wait = RepathCooldown, !.goal = goal]
     ELSE [r EXCEPT !.wait = wait]

(* Mutation of Waypoint: the index is never advanced. *)
WaypointStuck(r) == [to |-> r.path[r.idx], idx |-> r.idx]

(* The waypoint to head for, and the index after it: past the path when    *)
(* the last one has been reached.                                          *)
Waypoint(r) ==
  LET Arrived(i) == Within(r.path[i], r.pos, ArrivalRadius)
      next == Min({Len(r.path)} \cup { i \in r.idx .. Len(r.path) : ~Arrived(i) })
  IN [to |-> r.path[next], idx |-> IF Arrived(next) THEN Len(r.path) + 1 ELSE next]

(* The fallback: straight on, or to a side that is free if that is not.    *)
Steer(r, goal, delta) ==
  LET straight == Direction(Minus(goal, r.pos))
      Blocked(d) == SegmentBlocked(r.pos, Plus(r.pos, Scale(delta + AgentRadius, d)), AgentRadius)
  IN IF ~Blocked(straight) THEN straight
     ELSE IF ~Blocked(TurnLeft(straight)) THEN TurnLeft(straight)
     ELSE IF ~Blocked(TurnRight(straight)) THEN TurnRight(straight)
     ELSE straight

(* Along the path as long as there is one.                                 *)
Advance(s, p, delta) ==
  LET onPath == s.idx <= Len(s.path)
      way == Waypoint(s)
      heading == IF onPath THEN Direction(Minus(way.to, s.pos)) ELSE Steer(s, seen[p], delta)
  IN [s EXCEPT !.pos = Plus(@, Scale(delta, heading)),
               !.idx = IF onPath THEN way.idx ELSE @]

Chase(r, p, delta) == Advance(Repath(r, seen[p], delta), p, delta)

(* Within range: swing if the cooldown is over.                            *)
Attack(r, p, delta) ==
  LET rest == CountDown(r.rest, delta)
  IN IF rest > 0 THEN [r EXCEPT !.rest = rest]
     ELSE [r EXCEPT !.rest = AttackCooldown, !.windup = Windup, !.aim = p]

Called(r, delta) == r.caller /\ CountDown(r.call, delta) = 0

(* The caller's sweep: the living in its radius that have no forced target. *)
Sweep(all, e, p) ==
  [o \in DOMAIN all |->
     IF /\ o # e /\ all[o].health > 0
        /\ all[o].forced = None /\ Within(all[o].pos, all[e].pos, CallRadius)
     THEN [all[o] EXCEPT !.forced = p] ELSE all[o]]

(* Mutation of WindUp: the hit is judged when the swing begins, not at its end. *)
WindUpBlind(r, delta) ==
  LET left == CountDown(r.windup, delta)
  IN [record |-> [r EXCEPT !.windup = left, !.aim = IF left = 0 THEN None ELSE @],
      hits   |-> left = 0 /\ r.aim \in DOMAIN seen]

(* Mutation of WindUp: a swing that is over keeps its target. *)
WindUpKeepsAim(r, delta) ==
  LET left == CountDown(r.windup, delta)
  IN [record |-> [r EXCEPT !.windup = left],
      hits   |-> left = 0 /\ r.aim \in DOMAIN seen /\ InReach(r, r.aim)]

(* The windup: no more than its timer until it is over, then the verdict.  *)
WindUp(r, delta) ==
  LET left == CountDown(r.windup, delta)
  IN [record |-> [r EXCEPT !.windup = left, !.aim = IF left = 0 THEN None ELSE @],
      hits   |-> left = 0 /\ r.aim \in DOMAIN seen /\ InReach(r, r.aim)]

(* A target in reach: the swing, and the call of a caller.                 *)
Engage(t, e, p) ==
  LET r == t.all[e]
      s == Attack(r, p, t.delta)
      calls == Called(r, t.delta)
      c == IF r.caller THEN [s EXCEPT !.call = IF calls THEN CallCooldown ELSE CountDown(@, t.delta)]
           ELSE s
      all == [t.all EXCEPT ![e] = c]
  IN [t EXCEPT !.all = IF calls THEN Sweep(all, e, p) ELSE all,
               !.starts = IF s.windup > 0 THEN @ \cup {e} ELSE @]

(* The turn of enemy e in a tick that has come to t; nearest targets may tie. *)
Turns(t, e) ==
  LET r == t.all[e]
      Put(s) == [t EXCEPT !.all[e] = s]
      w == WindUp(r, t.delta)
  IN IF DOMAIN seen = {} \/ r.health = 0 THEN {t}
     ELSE IF r.windup > 0
       THEN {[Put(w.record) EXCEPT !.hits = IF w.hits THEN @ \cup {<<e, r.aim>>} ELSE @]}
     ELSE { IF InReach(r, p) THEN Engage(t, e, p) ELSE Put(Chase(r, p, t.delta)) : p \in Targets(r) }

Start(delta) == [all |-> enemies, starts |-> {}, hits |-> {}, delta |-> delta]
Then(ts, e) == UNION { Turns(t, e) : t \in ts }

(* Where a tick can have come to when some enemies have had their turns:   *)
(* in any order, as enemies_ is unordered.                                 *)
Ticks(delta) ==
  LET after[S \in SUBSET DOMAIN enemies] ==
        IF S = {} THEN {Start(delta)} ELSE UNION { Then(after[S \ {e}], e) : e \in S }
  IN after[DOMAIN enemies]
-----------------------------------------------------------------------------
(* Room::Tick *)

(* playerSnapshots: where the visible members are. *)
Look ==
  /\ ~looking /\ looking' = TRUE
  /\ seen' = [p \in visible |-> at[p]]
  /\ report' = NoReport
  /\ UNCHANGED <<enemies, at, visible, stale, swing, events>>

Aged(e, delta) == Min({Rested.age, swing[e].age + delta})

Act ==
  /\ looking /\ looking' = FALSE
  /\ seen' = <<>>
  /\ \E delta \in Deltas : \E t \in Ticks(delta) :
       /\ enemies' = t.all
       /\ report' = [starts |-> t.starts, hits |-> t.hits, delta |-> delta]
       /\ swing' = [e \in Enemies |->
            IF e \in t.starts THEN [aim |-> t.all[e].aim, age |-> 0]
            ELSE [aim |-> IF \E h \in t.hits : h[1] = e THEN None ELSE swing[e].aim, age |-> Aged(e, delta)]]
  /\ UNCHANGED <<at, visible, stale, events>>
-----------------------------------------------------------------------------
(* The handlers, on another thread than the tick                           *)

(* RegisterIfNew takes the first registration only. *)
RegisterIfNew(e, record) ==
  enemies' = [o \in DOMAIN enemies \cup {e} |-> IF o \in DOMAIN enemies THEN enemies[o] ELSE record]

(* C2S_EnemyRegister: the record starts at rest. *)
Register(e, initial) ==
  /\ RegisterIfNew(e,
       [pos |-> initial.pos, health |-> initial.health, caller |-> initial.caller,
        rest |-> 0, windup |-> 0, aim |-> None, call |-> 0, forced |-> None,
        path |-> NoPath, idx |-> 1, wait |-> 0, goal |-> <<0, 0>>])
  /\ UNCHANGED <<at, visible, stale, looking, seen, report, swing, events>>

Client == events < MaxEvents /\ events' = events + 1

(* C2S_EnemyDamage: ApplyDamage. *)
Damage(e) ==
  /\ Client /\ Living(e)
  /\ enemies' = [enemies EXCEPT ![e].health = @ - 1]
  /\ UNCHANGED <<at, visible, stale, looking, seen, report, swing>>

(* C2S_MoveInput *)
Move(p) ==
  /\ Client
  /\ \E post \in Posts \ {at[p]} : at' = [at EXCEPT ![p] = post]
  /\ UNCHANGED <<enemies, visible, stale, looking, seen, report, swing>>

Show(p) ==
  /\ Client /\ p \notin visible
  /\ visible' = visible \cup {p}
  /\ UNCHANGED <<enemies, at, stale, looking, seen, report, swing>>

(* C2S_SetVisible(false) or UnregisterSession, which may run on the send   *)
(* queue's thread, beside other handlers: for the tick, who leaves hides.  *)
(* ResetWorldStateIfNoVisibleMembers looks now and clears later.           *)
Hide(p) ==
  /\ Client /\ p \in visible
  /\ visible' = visible \ {p}
  /\ stale' = (stale \/ visible' = {})
  /\ UNCHANGED <<enemies, at, looking, seen, report, swing>>

Reset ==
  /\ stale /\ stale' = FALSE
  /\ enemies' = <<>>
  /\ swing' = [e \in Enemies |-> Rested]
  /\ UNCHANGED <<at, visible, looking, seen, report, events>>
-----------------------------------------------------------------------------
Init ==
  /\ enemies = <<>>
  /\ at = [p \in Players |-> Spawn] /\ visible = Players
  /\ stale = FALSE /\ looking = FALSE /\ seen = <<>>
  /\ report = NoReport
  /\ swing = [e \in Enemies |-> Rested]
  /\ events = 0

Next ==
  \/ Look \/ Act \/ Reset
  \/ \E e \in Enemies : Damage(e) \/ \E r \in Records : Register(e, r)
  \/ \E p \in Players : Move(p) \/ Show(p) \/ Hide(p)

(* BackgroundTickLoop goes on ticking: Look and Act are the steps that turn *)
(* looking over, and one of them is always enabled.  A handler that looked  *)
(* goes on to clear.                                                        *)
Ticking == looking' = ~looking
Fairness == WF_looking(Ticking) /\ WF_vars(Reset)

Spec == Init /\ [][Next]_vars /\ Fairness
-----------------------------------------------------------------------------
Fields == {"pos", "health", "caller", "rest", "windup", "aim", "call", "forced", "path", "idx", "wait", "goal"}

Sound(r) ==
  /\ DOMAIN r = Fields
  /\ r.pos \in Points /\ r.goal \in Points /\ r.health \in Nat /\ r.caller \in BOOLEAN
  /\ r.rest \in 0 .. AttackCooldown /\ r.windup \in 0 .. Windup
  /\ r.call \in 0 .. CallCooldown /\ r.wait \in 0 .. RepathCooldown
  /\ r.forced \in Players \cup {None}
  /\ r.aim \in Players \cup {None} /\ (r.windup > 0) = (r.aim # None)

(* Every field keeps its type, no countdown exceeds what it starts from,   *)
(* and only an enemy that winds up for a swing has somebody to hit.        *)
TypeOK ==
  /\ DOMAIN enemies \subseteq Enemies /\ \A e \in DOMAIN enemies : Sound(enemies[e])
  /\ at \in [Players -> Posts] /\ visible \subseteq Players
  /\ {stale, looking} \subseteq BOOLEAN
  /\ DOMAIN seen \subseteq Players
  /\ swing \in [Enemies -> [aim : Players \cup {None}, age : 0 .. Rested.age]]
  /\ events \in 0 .. MaxEvents

FairReport ==
  /\ \A h \in report'.hits :
       LET e == h[1] p == h[2]
       IN /\ swing[e].aim = p /\ swing[e].age + report'.delta >= Windup
          /\ enemies[e].health > 0
          /\ Within(enemies'[e].pos, seen[p], AttackRange)
          /\ ~SegmentBlocked(enemies'[e].pos, seen[p], 0)
  /\ \A e \in report'.starts :
       /\ swing[e].age + report'.delta >= Windup + AttackCooldown
       /\ enemies'[e].forced \in DOMAIN seen /\ enemies[e].forced # None
            => swing'[e].aim = enemies[e].forced

(* A hit answers one swing, the last, is on the player the swing was for,  *)
(* comes no earlier than the windup after it, and finds the player in      *)
(* range with no wall between; and a swing comes no earlier than windup    *)
(* and cooldown after the one before, whatever damage, resets, moves and   *)
(* callers do meanwhile.                                                   *)
FairFight == [][report' # report /\ report' # NoReport => FairReport]_vars

(* A path ends at the place it was asked for, an enemy's index is in it or *)
(* just past it, and an enemy's radius fits through every leg of it: none  *)
(* cuts the corner of an inflated obstacle.                                *)
PathClear ==
  \A e \in DOMAIN enemies :
    LET path == enemies[e].path
    IN path # NoPath =>
         /\ path[Len(path)] = enemies[e].goal
         /\ enemies[e].idx \in 1 .. Len(path) + 1
         /\ \A i \in 1 .. Len(path) - 1 : ~SegmentBlocked(path[i], path[i + 1], AgentRadius)

(* Wherever an enemy and a player stand, the search between them finds a   *)
(* shortest way if there is any, within its bound of expansions.           *)
PathShortest ==
  \A e \in DOMAIN enemies :
    \A p \in Players : LET c == CellOf(enemies[e].pos)
                           d == CellOf(at[p])
                       IN {c, d} \subseteq FreeCells => <<c, d>> \in GoodSearches

(* The way of an enemy to every visible player is open. *)
Hunts(e) ==
  /\ Living(e) /\ visible # {}
  /\ CellOf(enemies[e].pos) \in FreeCells
  /\ \A p \in visible : <<CellOf(enemies[e].pos), CellOf(at[p])>> \in Connected

(* An enemy that lives, with players it can get to, never stops for good:  *)
(* it swings again and again.                                              *)
ChaseEnds ==
  \A e \in Enemies : <>[]Hunts(e) => []<>(e \in report.starts)
=============================================================================
