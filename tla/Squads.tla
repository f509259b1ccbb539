------------------------------- MODULE Squads -------------------------------
(***************************************************************************)
(* What matchmaking promises a player, with no queue, lock, thread or      *)
(* room: a session waits once, is seated in one squad together with        *)
(* everyone who waits at that moment, never more than MaxSquad of them,    *)
(* stays in that squad and no other, and leaves for good.  To a session    *)
(* that logs in twice, or is queued again after it left, nothing is        *)
(* promised any more, and no squad counts it: it is loose.                 *)
(***************************************************************************)
EXTENDS Integers, FiniteSets

CONSTANTS Sessions, MaxSquad

VARIABLES
  place,   \* where each session is
  squad    \* the number of the squad each session was seated in, 0 before

absvars == <<place, squad>>

Waiting == { s \in Sessions : place[s] = "waiting" }

Init ==
  /\ place = [s \in Sessions |-> "out"]
  /\ squad = [s \in Sessions |-> 0]

Join(s) ==
  /\ place[s] = "out"
  /\ place' = [place EXCEPT ![s] = "waiting"]
  /\ UNCHANGED squad

(* S is everyone who waits, and r a squad nobody was ever seated in. *)
Seat(S, r) ==
  /\ S # {} /\ Cardinality(S) <= MaxSquad
  /\ r > 0 /\ \A s \in Sessions : squad[s] # r
  /\ place' = [s \in Sessions |-> IF s \in S THEN "seated" ELSE place[s]]
  /\ squad' = [s \in Sessions |-> IF s \in S THEN r ELSE squad[s]]

(* The session whose arrival fills the squad is seated as it joins. *)
JoinAndSeat(s, r) == place[s] = "out" /\ Seat(Waiting \cup {s}, r)

Leave(s) ==
  /\ place[s] \notin {"left", "loose"}
  /\ place' = [place EXCEPT ![s] = "left"]
  /\ UNCHANGED squad

Loosen(s) ==
  /\ place' = [place EXCEPT ![s] = "loose"]
  /\ squad' = [squad EXCEPT ![s] = 0]

(* A session comes loose as its arrival fills the squad of the others. *)
LoosenAndSeat(s, r) ==
  /\ place[s] # "waiting" /\ Waiting # {} /\ Cardinality(Waiting) < MaxSquad
  /\ r > 0 /\ \A x \in Sessions : squad[x] # r
  /\ place' = [x \in Sessions |-> IF x = s THEN "loose"
                                  ELSE IF x \in Waiting THEN "seated" ELSE place[x]]
  /\ squad' = [x \in Sessions |-> IF x = s THEN 0
                                  ELSE IF x \in Waiting THEN r ELSE squad[x]]

Next(r) ==
  \/ \E s \in Sessions : \/ Join(s) \/ JoinAndSeat(s, r)
                          \/ Leave(s)
                          \/ Loosen(s) \/ LoosenAndSeat(s, r)
  \/ Seat(Waiting, r)
=============================================================================
