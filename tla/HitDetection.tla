---------------------------- MODULE HitDetection ----------------------------
(***************************************************************************)
(* Who a shot hits: HitDetection.cpp and Session::ResolveAndBroadcastHit.  *)
(*                                                                         *)
(* A player is an upright capsule: the points within Radius of a vertical  *)
(* segment about pos.  Coordinates are integers, and what the code divides *)
(* is kept as a numerator over a positive denominator, so the arithmetic   *)
(* is exact (the code's is in floats).  The direction of a shot is any     *)
(* vector, not a unit one: along it, place u is origin + u * direction.    *)
(* The yaw of a player is told by the vector it faces, <<cos, sin>>.       *)
(***************************************************************************)
EXTENDS Integers, FiniteSets

CONSTANTS
  Radius,      \* kCapsuleRadius
  HalfHeight,  \* kCapsuleHalfHeight
  MaxRange     \* kMaxRange

ASSUME HitAssumption ==
  /\ Radius \in Nat \ {0} /\ HalfHeight \in Nat /\ MaxRange \in Nat \ {0}
  /\ Radius < HalfHeight

Sub(a, b) == <<a[1] - b[1], a[2] - b[2], a[3] - b[3]>>
Add(a, b) == <<a[1] + b[1], a[2] + b[2], a[3] + b[3]>>
Times(k, a) == <<k * a[1], k * a[2], k * a[3]>>
Dot(a, b) == a[1] * b[1] + a[2] * b[2] + a[3] * b[3]

Clamp(k, low, high) == IF k < low THEN low ELSE IF k > high THEN high ELSE k

CylinderHalfLen == HalfHeight - Radius
Bottom(centre) == Sub(centre, <<0, 0, CylinderHalfLen>>)
Axis == <<0, 0, 2 * CylinderHalfLen>>

(* Mutation of AxisPoint: the axis has no ends. *)
AxisPointEndless(O, D, centre) ==
  LET r == Sub(O, Bottom(centre))
      denom == Dot(D, D) * Dot(Axis, Axis) - Dot(D, Axis) * Dot(D, Axis)
      num == Dot(D, D) * Dot(Axis, r) - Dot(D, Axis) * Dot(D, r)
  IN  IF denom > 0 THEN <<num, denom>> ELSE <<0, 1>>

(* s, as <<numerator, denominator>>: how far up its axis the capsule is    *)
(* closest to the line of the shot; the bottom, if they are parallel.      *)
AxisPoint(O, D, centre) ==
  LET r == Sub(O, Bottom(centre))
      denom == Dot(D, D) * Dot(Axis, Axis) - Dot(D, Axis) * Dot(D, Axis)
      num == Dot(D, D) * Dot(Axis, r) - Dot(D, Axis) * Dot(D, r)
  IN  IF denom > 0 THEN <<Clamp(num, 0, denom), denom>> ELSE <<0, 1>>

(* Whether the point of the axis at O + toQ / scale is in range, and less  *)
(* than the radius off the shot.                                           *)
TestAxisPoint(D, toQ, scale) ==
  LET along == Dot(D, toQ)
      n == Dot(D, D)
      behind == along < 0
      beyond == along * along > MaxRange * MaxRange * n * scale * scale
      outside == n * Dot(toQ, toQ) - along * along > Radius * Radius * n * scale * scale
  IN  [hit |-> ~behind /\ ~beyond /\ ~outside, t |-> <<along, n * scale>>]

(* What the ray meets of one player: whether it is hit, and where, at      *)
(* place t[1] / t[2] of the shot, which is closest to the axis.            *)
TestRayAgainstPlayerCapsule(O, D, centre) ==
  LET s == AxisPoint(O, D, centre)
  IN  TestAxisPoint(D, Add(Times(s[2], Sub(Bottom(centre), O)), Times(s[1], Axis)), s[2])

(* The hit place, relative to the centre of the capsule and times t[2]. *)
HitPlace(O, D, centre, t) == Add(Times(t[2], Sub(O, centre)), Times(t[1], D))

(* The body region: by the height of the place, from the feet at 0 to the  *)
(* top of the head at 1, and the legs by its side of the player's facing.  *)
HitBoneAt(O, D, p, t) ==
  LET place == HitPlace(O, D, p.pos, t)
      whole == 2 * HalfHeight * t[2]
      height == Clamp(place[3] + HalfHeight * t[2], 0, whole)
      AtLeast(percent) == 20 * height >= (percent \div 5) * whole
      lateral == place[2] * p.facing[1] - place[1] * p.facing[2]
  IN  CASE AtLeast(85)   -> "Head"
        [] AtLeast(55) /\ ~AtLeast(85) -> "Chest"
        [] AtLeast(35) /\ ~AtLeast(55) -> "Stomach"
        [] ~AtLeast(35) -> IF lateral >= 0 THEN "RightLeg" ELSE "LeftLeg"

Earlier(t, u) == t[1] * u[2] < u[1] * t[2]

(* The nearest of the hits among the results of the single tests, as far   *)
(* as rayT < kMaxRange.                                                    *)
NearestHits(result, D) ==
  LET Closer(t) == t[1] * t[1] * Dot(D, D) < MaxRange * MaxRange * t[2] * t[2]
      hits == { o \in DOMAIN result : result[o].hit /\ Closer(result[o].t) }
  IN  { o \in hits : \A x \in hits : ~Earlier(result[x].t, result[o].t) }

(* The targets that ResolveAndBroadcastHit can report, each with its bone: *)
(* the loop keeps the first it meets of the nearest hits, and looks for    *)
(* nothing if the shot has no direction.  others is a function from ids to *)
(* [pos, facing].                                                          *)
ResolveHit(O, D, others) ==
  LET result == [o \in DOMAIN others |-> TestRayAgainstPlayerCapsule(O, D, others[o].pos)]
  IN  IF D = <<0, 0, 0>> THEN {}
      ELSE { [target |-> o, t |-> result[o].t,
              bone |-> HitBoneAt(O, D, others[o], result[o].t)] : o \in NearestHits(result, D) }

-----------------------------------------------------------------------------
(* Reference: a capsule as a set of points, a shot as the places k / 4     *)
(* that it passes.                                                         *)
InCapsule(v, scale) == \* v / scale, relative to the centre
  LET above == v[3] - Clamp(v[3], -CylinderHalfLen * scale, CylinderHalfLen * scale)
  IN  v[1] * v[1] + v[2] * v[2] + above * above <= Radius * Radius * scale * scale

Meets(O, D, centre, u) == InCapsule(HitPlace(O, D, centre, u), u[2])

Passed == 0 .. 4 * MaxRange

(* Their capsules have no point in common. *)
Disjoint(c1, c2) == ~InCapsule(Sub(c1, c2), 2)

(* A shot from outside every capsule, at players who stand clear of each   *)
(* other.                                                                  *)
FairShot(O, others) ==
  /\ \A o \in DOMAIN others : ~Meets(O, <<0, 0, 0>>, others[o].pos, <<0, 1>>)
  /\ \A o, x \in DOMAIN others : o # x => Disjoint(others[o].pos, others[x].pos)

WhollyInRange(O, centre) ==
  LET v == Sub(centre, O)
  IN  Dot(v, v) <= (MaxRange - HalfHeight) * (MaxRange - HalfHeight)
=============================================================================
