------------------------- MODULE MatchmakingProofs --------------------------
(***************************************************************************)
(* Theorems about Matchmaking, for every number of sessions, logins,       *)
(* squad size, window and number of rooms.  What is said of one session is *)
(* said of those that log in once and are not queued after their Cancel;   *)
(* of the others (Loose) the code keeps no such promise.                   *)
(***************************************************************************)
EXTENDS Matchmaking, FiniteSetTheorems, TLAPS

(* What a thread works on is there. *)
Working ==
  /\ pc["recv"] \in {"handle", "auth", "form"} => arg["recv"] \in Sessions
  /\ pc["recv"] = "auth" => auths[arg["recv"]] > 0
  /\ \A t \in Threads :
       /\ pc[t] \in {"cancel", "leave", "count", "erase"} => arg[t] \in Sessions
       /\ pc[t] \in {"count", "erase"} => room[t] \in RoomIds
  /\ forming.left # {} => forming.room \in RoomIds

(* A room that is still to come has nobody. *)
Fresh ==
  /\ \A r \in RoomIds : r >= nextRoom => members[r] = {}
  /\ forming.room < nextRoom
  /\ \A s \in Sessions : roomOf[s] < nextRoom

TInv == TypeOK /\ Working

FInv == TInv /\ Fresh /\ SquadFits

-----------------------------------------------------------------------------
(* The strengthening.  lock_ is held exactly while a squad is on its way   *)
(* into its room.                                                          *)
Held ==
  /\ \A t \in Threads : pc[t] = "form" => lock = t
  /\ lock # None => pc[lock] = "form"
  /\ lock = None => forming = NotForming

Unplaced(s) == ~Queued(s) /\ ~Forming(s) /\ roomOf[s] = 0

(* A session has no more entries than it has logged in. *)
Entries == \A e \in queue \cup forming.left : e.nth <= auths[e.id]

Places ==
  \A s \in Sessions : auths[s] <= 1 =>
    /\ auths[s] = 0 => Unplaced(s)
    /\ pc["recv"] = "auth" /\ arg["recv"] = s => Unplaced(s)
    /\ Queued(s) => ~Forming(s) /\ roomOf[s] = 0
    /\ Forming(s) => roomOf[s] = 0
    /\ \A r \in RoomIds : s \in members[r] => r = roomOf[s]

SInv == FInv /\ Held /\ Entries /\ Places /\ CompleteOnce

(* One thread unregisters a session.  Who has passed Cancel is not queued, *)
(* who has passed LeaveRoom is in no room.                                 *)
At(s, place) == \E t \in Threads : arg[t] = s /\ pc[t] = place

Leaving ==
  \A t \in Threads : pc[t] \in {"cancel", "leave"} =>
    /\ life[arg[t]] = "gone"
    /\ \A u \in Threads : pc[u] \in {"cancel", "leave"} /\ arg[u] = arg[t] => u = t

Gone ==
  \A s \in Sessions : life[s] = "gone" /\ ~Loose(s) /\ ~At(s, "cancel") =>
    /\ ~Queued(s) /\ ~Forming(s)
    /\ ~At(s, "leave") => \A r \in RoomIds : s \notin members[r]

GInv == SInv /\ Leaving /\ Gone

-----------------------------------------------------------------------------
(* There are finitely many entries, so every set of them has a size.       *)
LEMMA EntriesFinite ==
  ASSUME NEW S \in SUBSET Entry
  PROVE  IsFiniteSet(S) /\ Cardinality(S) \in Nat
<1> DEFINE P == Sessions \X (1 .. MaxAuth)
           f == [p \in P |-> [id |-> p[1], nth |-> p[2]]]
<1>1. IsFiniteSet(P)
  <2>1. IsFiniteSet(1 .. MaxAuth)
    BY FS_Interval, MatchAssumption
  <2> QED BY <2>1, FS_Product, MatchAssumption
<1>2. f \in Surjection(P, Entry)
  <2>1. f \in [P -> Entry]
    BY DEF Entry
  <2>2. \A e \in Entry : \E p \in P : f[p] = e
    <3> TAKE e \in Entry
    <3>1. <<e.id, e.nth>> \in P /\ f[<<e.id, e.nth>>] = e
      BY DEF Entry
    <3> QED BY <3>1
  <2> QED BY <2>1, <2>2 DEF Surjection
<1>3. IsFiniteSet(Entry)
  BY <1>1, <1>2, FS_Surjection
<1> QED BY <1>3, FS_Subset, FS_CardinalityType

(* The sessions of some entries are no more than the entries. *)
LEMMA IdsOfEntries ==
  ASSUME NEW S \in SUBSET Entry
  PROVE  LET ids == { e.id : e \in S }
         IN  ids \subseteq Sessions /\ Cardinality(ids) \in Nat /\ Cardinality(ids) <= Cardinality(S)
<1> DEFINE ids == { e.id : e \in S }
           f == [e \in S |-> e.id]
<1>1. f \in Surjection(S, ids)
  BY DEF Surjection
<1>2. IsFiniteSet(S)
  BY EntriesFinite
<1>3. Cardinality(ids) <= Cardinality(S) /\ IsFiniteSet(ids)
  BY <1>1, <1>2, FS_Surjection
<1>4. ids \subseteq Sessions
  BY DEF Entry
<1> QED BY <1>3, <1>4, FS_CardinalityType

LEMMA MatchedNat ==
  ASSUME NEW S \in SUBSET Entry, NEW s
  PROVE  Cardinality(Matched(S, s)) \in Nat
<1>1. Matched(S, s) \in SUBSET Entry
  BY DEF Matched
<1> QED BY <1>1, EntriesFinite

-----------------------------------------------------------------------------
LEMMA InitTInv == Init => TInv
<1> SUFFICES ASSUME Init PROVE TInv
  OBVIOUS
<1> USE MatchAssumption DEF Init
<1>1. TypeOK
  BY DEF TypeOK, Threads, RoomIds, NotForming
<1>2. Working
  BY DEF Working, NotForming, Threads
<1> QED BY <1>1, <1>2 DEF TInv

LEMMA FormSquadTInv ==
  ASSUME TInv, NEW t \in Threads, NEW squad \in SUBSET Entry, NEW s \in Sessions \cup {None},
         FormSquad(t, squad, s), elapsed' \in 0 .. Window,
         late' \subseteq Sessions, t = "recv" => s \in Sessions,
         UNCHANGED <<life, auths, members, roomOf, room>>
  PROVE  TInv'
<1> USE MatchAssumption DEF TInv, FormSquad, Goto
<1>1. completes' \in [Sessions -> Nat]
  BY MatchedNat DEF TypeOK
<1>2. nextRoom \in RoomIds /\ nextRoom' \in 1 .. MaxRooms + 1
  BY DEF TypeOK, RoomIds
<1>3. forming' \in [room : 0 .. MaxRooms, left : SUBSET Entry]
  BY <1>2 DEF RoomIds
<1>4. TypeOK'
  BY <1>1, <1>2, <1>3 DEF TypeOK
<1>5. Working'
  BY <1>2 DEF Working, TypeOK, Threads
<1> QED BY <1>4, <1>5

LEMMA StepTInv == TInv /\ [Next]_vars => TInv'
<1> SUFFICES ASSUME TInv, [Next]_vars PROVE TInv'
  OBVIOUS
<1> USE MatchAssumption DEF TInv
<1>1. ASSUME NEW s \in Sessions, Accept(s) PROVE TInv'
  BY <1>1 DEF Accept, TypeOK, Working
<1>2. ASSUME NEW s \in Sessions, Handle(s) PROVE TInv'
  <2>1. TypeOK'
    BY <1>2 DEF Handle, Goto, TypeOK, Threads
  <2>2. Working'
    BY <1>2 DEF Handle, Goto, TypeOK, Working, Threads
  <2> QED BY <2>1, <2>2
<1>13. ASSUME Authenticate PROVE TInv'
  <2>1. arg["recv"] \in Sessions
    BY <1>13 DEF Authenticate, Working
  <2>2. TypeOK'
    BY <1>13, <2>1 DEF Authenticate, Goto, TypeOK, Threads
  <2>3. Working'
    BY <1>13, <2>1 DEF Authenticate, Goto, TypeOK, Working, Threads
  <2> QED BY <2>2, <2>3
<1>14. ASSUME HandlerDone PROVE TInv'
  <2>1. TypeOK'
    BY <1>14 DEF HandlerDone, Goto, TypeOK, Threads
  <2>2. Working'
    BY <1>14 DEF HandlerDone, Goto, TypeOK, Working, Threads
  <2> QED BY <2>1, <2>2
<1>3. ASSUME NEW s \in Sessions, NEW t \in Threads, Unregister(t, s) PROVE TInv'
  <2>1. TypeOK'
    BY <1>3 DEF Unregister, Goto, TypeOK
  <2>2. Working'
    BY <1>3 DEF Unregister, Goto, TypeOK, Working, Threads
  <2> QED BY <2>1, <2>2
<1>4. ASSUME Enqueue PROVE TInv'
  <2> DEFINE s == arg["recv"]
             q == queue \cup {[id |-> s, nth |-> auths[s]]}
  <2>1. s \in Sessions /\ auths[s] \in 1 .. MaxAuth
    BY <1>4 DEF Enqueue, Working, TypeOK
  <2>2. q \in SUBSET Entry
    BY <2>1 DEF Entry, TypeOK
  <2>3. elapsed' \in 0 .. Window
    BY <1>4 DEF Enqueue, TypeOK
  <2>4. UNCHANGED <<life, auths, members, roomOf, room>>
    BY <1>4 DEF Enqueue
  <2>7. late' \subseteq Sessions
    BY <1>4, <2>1 DEF Enqueue, TypeOK
  <2>5. CASE FormSquad("recv", q, s)
    BY <2>1, <2>2, <2>3, <2>4, <2>5, <2>7, FormSquadTInv DEF Threads
  <2>6. CASE /\ queue' = q
             /\ Goto("recv", "handle", s)
             /\ UNCHANGED <<lock, forming, listed, nextRoom, completes>>
    <3>1. TypeOK'
      BY <2>1, <2>2, <2>3, <2>4, <2>6, <2>7 DEF TypeOK, Goto
    <3>2. Working'
      BY <2>1, <2>4, <2>6 DEF TypeOK, Working, Goto, Threads
    <3> QED BY <3>1, <3>2
  <2> QED BY <1>4, <2>5, <2>6 DEF Enqueue
<1>5. ASSUME Clock PROVE TInv'
  BY <1>5 DEF Clock, TypeOK, Working
<1>6. ASSUME TickTimeouts PROVE TInv'
  <2>1. queue \in SUBSET Entry /\ elapsed' \in 0 .. Window
    BY <1>6 DEF TickTimeouts, TypeOK
  <2>2. late' \subseteq Sessions
    BY <1>6 DEF TickTimeouts, TypeOK
  <2> QED BY <1>6, <2>1, <2>2, FormSquadTInv DEF TickTimeouts, Threads
<1>7. ASSUME NEW t \in Threads, NEW e \in Entry, AddSession(t, e) PROVE TInv'
  <2>1. e.id \in Sessions /\ forming.room \in RoomIds
    BY <1>7 DEF AddSession, Working, Entry
  <2>2. forming' \in [room : 0 .. MaxRooms, left : SUBSET Entry]
    BY <1>7 DEF AddSession, TypeOK
  <2>3. TypeOK'
    BY <1>7, <2>1, <2>2 DEF AddSession, TypeOK, RoomIds
  <2>4. Working'
    BY <1>7, <2>1 DEF AddSession, TypeOK, Working
  <2> QED BY <2>3, <2>4
<1>8. ASSUME NEW t \in Threads, FormDone(t) PROVE TInv'
  <2>1. TypeOK'
    BY <1>8 DEF FormDone, Goto, TypeOK, NotForming
  <2>2. Working'
    BY <1>8 DEF FormDone, Goto, TypeOK, Working, NotForming, Threads
  <2> QED BY <2>1, <2>2
<1>9. ASSUME NEW t \in Threads, Cancel(t) PROVE TInv'
  <2>1. TypeOK'
    BY <1>9 DEF Cancel, Goto, TypeOK, Working
  <2>2. Working'
    BY <1>9 DEF Cancel, Goto, TypeOK, Working, Threads
  <2> QED BY <2>1, <2>2
<1>10. ASSUME NEW t \in Threads, LeaveRoom(t) PROVE TInv'
  <2>1. arg[t] \in Sessions /\ roomOf[arg[t]] \in 0 .. MaxRooms
    BY <1>10 DEF LeaveRoom, TypeOK, Working
  <2>2. CASE roomOf[arg[t]] = 0
    <3>1. TypeOK'
      BY <1>10, <2>1, <2>2 DEF LeaveRoom, Goto, TypeOK
    <3>2. Working'
      BY <1>10, <2>1, <2>2 DEF LeaveRoom, Goto, TypeOK, Working, Threads
    <3> QED BY <3>1, <3>2
  <2>3. CASE roomOf[arg[t]] # 0
    <3>1. TypeOK'
      BY <1>10, <2>1, <2>3 DEF LeaveRoom, Goto, TypeOK
    <3>2. /\ \A u \in Threads : pc'[u] = IF u = t THEN "count" ELSE pc[u]
          /\ arg' = arg /\ room' = [room EXCEPT ![t] = roomOf[arg[t]]]
          /\ roomOf[arg[t]] \in RoomIds /\ UNCHANGED <<auths, forming>>
      BY <1>10, <2>1, <2>3 DEF LeaveRoom, Goto, TypeOK, RoomIds
    <3>3. Working'
      BY <2>1, <3>2 DEF TypeOK, Working, Threads
    <3> QED BY <3>1, <3>3
  <2> QED BY <2>2, <2>3
<1>11. ASSUME NEW t \in Threads, MemberCount(t) PROVE TInv'
  <2>1. TypeOK'
    BY <1>11 DEF MemberCount, Goto, TypeOK
  <2>2. Working'
    BY <1>11 DEF MemberCount, Goto, TypeOK, Working, Threads
  <2> QED BY <2>1, <2>2
<1>15. ASSUME NEW t \in Threads, EraseRoom(t) PROVE TInv'
  <2>1. TypeOK'
    BY <1>15 DEF EraseRoom, Goto, TypeOK
  <2>2. Working'
    BY <1>15 DEF EraseRoom, Goto, TypeOK, Working, Threads
  <2> QED BY <2>1, <2>2
<1>12. CASE UNCHANGED vars
  BY <1>12 DEF vars, TypeOK, Working
<1> QED BY <1>1, <1>2, <1>3, <1>4, <1>5, <1>6, <1>7, <1>8, <1>9, <1>10, <1>11, <1>12,
           <1>13, <1>14, <1>15
        DEF Next, Continue

-----------------------------------------------------------------------------
(* Who is in room r or on the way into it. *)
Inside(r) == members[r] \cup { e.id : e \in { x \in forming.left : forming.room = r } }

LEMMA InsideFits == SquadFits <=> /\ Cardinality(queue) < MaxSquad
                                  /\ \A r \in RoomIds : Cardinality(Inside(r)) <= MaxSquad
  BY DEF SquadFits, Inside

LEMMA InitFInv == Init => FInv
<1> SUFFICES ASSUME Init PROVE FInv
  OBVIOUS
<1>1. TInv
  BY InitTInv
<1>2. Fresh
  BY MatchAssumption DEF Init, Fresh, NotForming
<1>3. Cardinality(queue) < MaxSquad
  BY FS_EmptySet, MatchAssumption DEF Init
<1>4. \A r \in RoomIds : Inside(r) = {}
  BY DEF Init, Inside, NotForming
<1>5. SquadFits
  BY <1>3, <1>4, FS_EmptySet, InsideFits, MatchAssumption
<1> QED BY <1>1, <1>2, <1>5 DEF FInv

(* A squad that fits goes into a fresh room. *)
LEMMA FormSquadFInv ==
  ASSUME FInv, TInv', NEW t \in Threads, NEW squad \in SUBSET Entry, NEW s,
         Cardinality(squad) <= MaxSquad,
         FormSquad(t, squad, s), UNCHANGED <<members, roomOf>>
  PROVE  FInv'
<1> USE MatchAssumption
<1>1. /\ nextRoom \in RoomIds /\ nextRoom' = nextRoom + 1
      /\ forming' = [room |-> nextRoom, left |-> squad]
      /\ queue' = {}
  BY DEF FormSquad, FInv, TInv, TypeOK, RoomIds
<1>2. Fresh'
  <2>1. nextRoom \in Int /\ UNCHANGED <<members, roomOf>>
    BY <1>1 DEF RoomIds
  <2>2. \A r \in RoomIds : r >= nextRoom' => members'[r] = {}
    BY <1>1, <2>1 DEF FInv, Fresh, RoomIds
  <2>3. \A x \in Sessions : roomOf'[x] < nextRoom'
    <3>1. \A x \in Sessions : roomOf[x] \in Int
      BY DEF FInv, TInv, TypeOK
    <3> QED BY <1>1, <2>1, <3>1 DEF FInv, Fresh
  <2>4. forming'.room < nextRoom'
    BY <1>1, <2>1
  <2> QED BY <2>2, <2>3, <2>4 DEF Fresh
<1>3. Cardinality(queue') < MaxSquad
  BY <1>1, FS_EmptySet
<1>4. ASSUME NEW r \in RoomIds PROVE Cardinality(Inside(r)') <= MaxSquad
  <2>1. CASE r = nextRoom
    <3>1. members[r] = {}
      BY <1>1, <2>1 DEF FInv, Fresh, RoomIds
    <3>2. Inside(r)' = { e.id : e \in squad }
      BY <1>1, <2>1, <3>1 DEF Inside
    <3> QED BY <3>2, IdsOfEntries, EntriesFinite
  <2>2. CASE r # nextRoom
    <3>1. Inside(r)' = members[r]
      BY <1>1, <2>2 DEF Inside
    <3>2. members[r] \subseteq Inside(r) /\ Cardinality(Inside(r)) <= MaxSquad
      BY InsideFits DEF Inside, FInv
    <3>3. Inside(r) \subseteq Sessions /\ IsFiniteSet(Inside(r))
      <4>1. Inside(r) \subseteq Sessions
        BY DEF Inside, Entry, FInv, TInv, TypeOK
      <4> QED BY <4>1, FS_Subset
    <3>4. Cardinality(members[r]) <= Cardinality(Inside(r))
      BY <3>2, <3>3, FS_Subset
    <3>5. Cardinality(members[r]) \in Nat /\ Cardinality(Inside(r)) \in Nat
      BY <3>2, <3>3, FS_Subset, FS_CardinalityType
    <3> QED BY <3>1, <3>2, <3>4, <3>5
  <2> QED BY <2>1, <2>2
<1>5. SquadFits'
  BY <1>3, <1>4 DEF SquadFits, Inside
<1> QED BY <1>2, <1>5 DEF FInv

(* Rooms that grow by nobody, and a queue that does not grow, still fit. *)
LEMMA ShrinkFits ==
  ASSUME FInv, TInv', queue' \subseteq queue,
         \A r \in RoomIds : Inside(r)' \subseteq Inside(r)
  PROVE  SquadFits'
<1> USE MatchAssumption
<1>1. Cardinality(queue') < MaxSquad
  <2>1. queue \in SUBSET Entry /\ queue' \in SUBSET queue
    BY DEF FInv, TInv, TypeOK
  <2>2. Cardinality(queue') <= Cardinality(queue)
    BY <2>1, EntriesFinite, FS_Subset
  <2>3. Cardinality(queue') \in Nat /\ Cardinality(queue) \in Nat
    BY <2>1, EntriesFinite
  <2> QED BY <2>2, <2>3 DEF FInv, SquadFits
<1>2. ASSUME NEW r \in RoomIds PROVE Cardinality(Inside(r)') <= MaxSquad
  <2>1. Inside(r) \in SUBSET Sessions
    BY DEF Inside, Entry, FInv, TInv, TypeOK
  <2>2. IsFiniteSet(Inside(r)) /\ Cardinality(Inside(r)) \in Nat
    BY <2>1, FS_Subset, FS_CardinalityType
  <2>3. /\ Cardinality(Inside(r)') <= Cardinality(Inside(r))
        /\ Cardinality(Inside(r)') \in Nat
    BY <2>2, FS_Subset, FS_CardinalityType
  <2>4. Cardinality(Inside(r)) <= MaxSquad
    BY InsideFits DEF FInv
  <2> QED BY <2>2, <2>3, <2>4
<1> QED BY <1>1, <1>2 DEF SquadFits, Inside

LEMMA StepFInv == FInv /\ [Next]_vars => FInv'
<1> SUFFICES ASSUME FInv, [Next]_vars PROVE FInv'
  OBVIOUS
<1> USE MatchAssumption
<1>0. TInv /\ TInv'
  BY StepTInv DEF FInv
<1>1. ASSUME UNCHANGED <<queue, forming, nextRoom, members, roomOf>> PROVE FInv'
  <2>1. Fresh'
    BY <1>1 DEF FInv, Fresh
  <2>2. \A r \in RoomIds : Inside(r)' = Inside(r)
    BY <1>1 DEF Inside
  <2>3. SquadFits'
    BY <1>0, <1>1, <2>2, ShrinkFits
  <2> QED BY <1>0, <2>1, <2>3 DEF FInv
<1>2. ASSUME Enqueue PROVE FInv'
  <2> DEFINE s == arg["recv"]
             e == [id |-> s, nth |-> auths[s]]
             q == queue \cup {e}
  <2>1. s \in Sessions /\ auths[s] \in 1 .. MaxAuth
    BY <1>0, <1>2 DEF Enqueue, Working, TInv, TypeOK
  <2>2. q \in SUBSET Entry /\ queue \in SUBSET Entry
    BY <1>0, <2>1 DEF Entry, TInv, TypeOK
  <2>3. Cardinality(q) <= Cardinality(queue) + 1
    <3>1. IsFiniteSet(queue) /\ Cardinality(queue) \in Nat
      BY <2>2, EntriesFinite
    <3>2. Cardinality(q) = IF e \in queue THEN Cardinality(queue) ELSE Cardinality(queue) + 1
      BY <3>1, FS_AddElement
    <3> HIDE DEF e, q
    <3> QED BY <3>1, <3>2
  <2>4. Cardinality(q) <= MaxSquad
    BY <2>2, <2>3, EntriesFinite DEF FInv, SquadFits
  <2>5. CASE FormSquad("recv", q, s)
    <3>1. UNCHANGED <<members, roomOf>>
      BY <1>2 DEF Enqueue
    <3> QED BY <1>0, <2>2, <2>4, <2>5, <3>1, FormSquadFInv DEF Threads
  <2>6. CASE ~Full(Cardinality(q)) /\ queue' = q /\ UNCHANGED <<forming, nextRoom>>
    <3>1. UNCHANGED <<members, roomOf>>
      BY <1>2 DEF Enqueue
    <3>2. Cardinality(queue') < MaxSquad
      BY <2>2, <2>6, EntriesFinite DEF Full
    <3>3. \A r \in RoomIds : Cardinality(Inside(r)') <= MaxSquad
      BY <2>6, <3>1, InsideFits DEF Inside, FInv
    <3>4. SquadFits'
      BY <3>2, <3>3 DEF SquadFits, Inside
    <3>5. Fresh'
      BY <2>6, <3>1 DEF FInv, Fresh
    <3> QED BY <1>0, <3>4, <3>5 DEF FInv
  <2> QED BY <1>2, <2>5, <2>6 DEF Enqueue
<1>3. ASSUME TickTimeouts PROVE FInv'
  <2>1. queue \in SUBSET Entry /\ Cardinality(queue) <= MaxSquad
    <3>1. queue \in SUBSET Entry
      BY <1>0 DEF TInv, TypeOK
    <3> QED BY <3>1, EntriesFinite DEF FInv, SquadFits
  <2>2. FormSquad("tick", queue, None) /\ UNCHANGED <<members, roomOf>>
    BY <1>3 DEF TickTimeouts
  <2> QED BY <1>0, <2>1, <2>2, FormSquadFInv DEF Threads
<1>4. ASSUME NEW t \in Threads, NEW e \in Entry, AddSession(t, e) PROVE FInv'
  <2>1. e.id \in Sessions /\ forming.room \in RoomIds /\ forming.room < nextRoom
    BY <1>0, <1>4 DEF AddSession, TInv, Working, Entry, FInv, Fresh
  <2>2. Fresh'
    BY <1>0, <1>4, <2>1 DEF AddSession, FInv, Fresh, TInv, TypeOK, RoomIds
  <2>3. ASSUME NEW r \in RoomIds PROVE Inside(r)' \subseteq Inside(r)
    BY <1>0, <1>4, <2>1 DEF AddSession, Inside, TInv, TypeOK
  <2>4. queue' \subseteq queue
    BY <1>4 DEF AddSession
  <2> QED BY <1>0, <2>2, <2>3, <2>4, ShrinkFits DEF FInv
<1>5. ASSUME NEW t \in Threads, FormDone(t) PROVE FInv'
  <2>1. Fresh'
    BY <1>0, <1>5 DEF FormDone, FInv, Fresh, NotForming, TInv, TypeOK
  <2>2. \A r \in RoomIds : Inside(r)' \subseteq Inside(r)
    BY <1>5 DEF FormDone, Inside, NotForming
  <2>3. queue' \subseteq queue
    BY <1>5 DEF FormDone
  <2> QED BY <1>0, <2>1, <2>2, <2>3, ShrinkFits DEF FInv
<1>6. ASSUME NEW t \in Threads, Cancel(t) PROVE FInv'
  <2>1. Fresh'
    BY <1>6 DEF Cancel, FInv, Fresh
  <2>2. \A r \in RoomIds : Inside(r)' \subseteq Inside(r)
    BY <1>6 DEF Cancel, Inside
  <2>3. queue' \subseteq queue
    BY <1>6 DEF Cancel
  <2> QED BY <1>0, <2>1, <2>2, <2>3, ShrinkFits DEF FInv
<1>7. ASSUME NEW t \in Threads, LeaveRoom(t) PROVE FInv'
  <2>1. \A r \in RoomIds : members'[r] \subseteq members[r]
    BY <1>0, <1>7 DEF LeaveRoom, TInv, TypeOK
  <2>2. UNCHANGED <<queue, forming, nextRoom, roomOf>>
    BY <1>7 DEF LeaveRoom
  <2>3. Fresh'
    BY <2>1, <2>2 DEF FInv, Fresh
  <2>4. \A r \in RoomIds : Inside(r)' \subseteq Inside(r)
    BY <2>1, <2>2 DEF Inside
  <2> QED BY <1>0, <2>2, <2>3, <2>4, ShrinkFits DEF FInv
<1>8. ASSUME (\E s \in Sessions : Accept(s) \/ Handle(s)) \/ Authenticate \/ HandlerDone
      PROVE  FInv'
  BY <1>1, <1>8 DEF Accept, Handle, Authenticate, HandlerDone
<1>9. ASSUME NEW s \in Sessions, NEW t \in Threads, Unregister(t, s) PROVE FInv'
  BY <1>1, <1>9 DEF Unregister
<1>10. ASSUME Clock PROVE FInv'
  BY <1>1, <1>10 DEF Clock
<1>11. ASSUME NEW t \in Threads, MemberCount(t) \/ EraseRoom(t) PROVE FInv'
  BY <1>1, <1>11 DEF MemberCount, EraseRoom
<1>12. CASE UNCHANGED vars
  BY <1>1, <1>12 DEF vars
<1> QED BY <1>2, <1>3, <1>4, <1>5, <1>6, <1>7, <1>8, <1>9, <1>10, <1>11, <1>12
        DEF Next, Continue

-----------------------------------------------------------------------------
(* Every variable of matchmaking keeps its type, for any number of logins. *)
THEOREM MatchTypeCorrect == Spec => []TypeOK
<1>1. TInv => TypeOK
  BY DEF TInv
<1> QED BY <1>1, InitTInv, StepTInv, PTL DEF Spec

(* Neither a queue nor a room ever has more than maxSquadSize_, although   *)
(* the queue is emptied, the room filled and the lock let go in different  *)
(* steps, and sessions may log in again (Enqueue, CreateRoomForSquad).     *)
THEOREM SquadsAlwaysFit == Spec => []SquadFits
<1>1. FInv => SquadFits
  BY DEF FInv
<1> QED BY <1>1, InitFInv, StepFInv, PTL DEF Spec

(* Nobody joins a room that has been formed, nor is one formed again       *)
(* (EnqueueForMatch, CreateRoomForSquad).                                  *)
THEOREM NobodyJoinsLate == Spec => MembersFixed
<1> DEFINE Fixed ==
      \A r \in RoomIds :
        forming.room # r => /\ members'[r] \subseteq members[r]
                            /\ forming'.room = r => \A s \in Sessions : roomOf[s] # r
<1>1. FInv /\ [Next]_vars => [Fixed]_vars
  <2> SUFFICES ASSUME FInv, Next PROVE Fixed
    BY DEF vars
  <2> USE DEF FInv, TInv
  <2>1. ASSUME NEW t \in Threads, NEW e \in Entry, AddSession(t, e) PROVE Fixed
    BY <2>1 DEF AddSession, TypeOK
  <2>2. ASSUME NEW t \in Threads, LeaveRoom(t) PROVE Fixed
    BY <2>2 DEF LeaveRoom, TypeOK
  <2>3. ASSUME NEW t \in Threads,
               FormDone(t) \/ Cancel(t) \/ MemberCount(t) \/ EraseRoom(t)
        PROVE  Fixed
    BY <2>3 DEF FormDone, Cancel, MemberCount, EraseRoom, NotForming, RoomIds
  <2>4. ASSUME (\E s \in Sessions : Accept(s) \/ Handle(s)) \/ Authenticate \/ HandlerDone
        PROVE  Fixed
    BY <2>4 DEF Accept, Handle, Authenticate, HandlerDone
  <2>5. ASSUME NEW s \in Sessions, NEW t \in Threads, Unregister(t, s) PROVE Fixed
    BY <2>5 DEF Unregister
  <2>6. ASSUME UNCHANGED <<forming, members>> \/ (forming'.room = nextRoom /\ UNCHANGED members)
        PROVE  Fixed
    <3>1. \A s \in Sessions : roomOf[s] # nextRoom
      <4>1. nextRoom \in Int /\ \A s \in Sessions : roomOf[s] \in Int /\ roomOf[s] < nextRoom
        BY DEF Fresh, TypeOK
      <4> QED BY <4>1
    <3> QED BY <2>6, <3>1
  <2>7. ASSUME Enqueue \/ Clock \/ TickTimeouts PROVE Fixed
    BY <2>6, <2>7 DEF Enqueue, Clock, TickTimeouts, FormSquad
  <2> QED BY <2>1, <2>2, <2>3, <2>4, <2>5, <2>7 DEF Next, Continue
<1> QED BY <1>1, InitFInv, StepFInv, PTL DEF Spec, MembersFixed

-----------------------------------------------------------------------------
-----------------------------------------------------------------------------
(* A session that has logged in at most once has one entry at most. *)
LEMMA OneEntry ==
  ASSUME TypeOK, NEW S \in SUBSET Entry, \A e \in S : e.nth <= auths[e.id],
         NEW s \in Sessions, auths[s] <= 1
  PROVE  \A e \in S : e.id = s => e = [id |-> s, nth |-> 1]
<1> TAKE e \in S
<1> HAVE e.id = s
<1>1. e \in Entry /\ e.nth \in Int /\ e.nth >= 1 /\ e.nth <= auths[s]
  BY DEF Entry
<1>2. auths[s] \in Int /\ auths[s] <= 1
  BY DEF TypeOK
<1>3. e.nth = 1
  BY <1>1, <1>2
<1>4. e = [id |-> e.id, nth |-> e.nth]
  BY <1>1 DEF Entry
<1> QED BY <1>3, <1>4

LEMMA MatchedOnce ==
  ASSUME TypeOK, NEW S \in SUBSET Entry, \A e \in S : e.nth <= auths[e.id],
         NEW s \in Sessions, auths[s] <= 1
  PROVE  Cardinality(Matched(S, s)) = IF \E e \in S : e.id = s THEN 1 ELSE 0
<1>1. CASE \E e \in S : e.id = s
  <2>1. PICK e \in S : e.id = s
    BY <1>1
  <2>2. \A f \in S : f.id = s => f = e
    BY <2>1, OneEntry
  <2>3. Matched(S, s) = {e}
    BY <2>1, <2>2 DEF Matched
  <2> QED BY <1>1, <2>3, FS_Singleton
<1>2. CASE ~\E e \in S : e.id = s
  <2>1. Matched(S, s) = {}
    BY <1>2 DEF Matched
  <2> QED BY <1>2, <2>1, FS_EmptySet
<1> QED BY <1>1, <1>2

LEMMA InitSInv == Init => SInv
<1> SUFFICES ASSUME Init PROVE SInv
  OBVIOUS
<1>1. FInv
  BY InitFInv
<1>2. Held
  BY DEF Init, Held
<1>3. Places
  BY DEF Init, Places, Unplaced, Queued, Forming, NotForming, Threads
<1>4. CompleteOnce
  BY DEF Init, CompleteOnce, Forming, NotForming
<1>5. Entries
  BY DEF Init, Entries, NotForming
<1> QED BY <1>1, <1>2, <1>3, <1>4, <1>5 DEF SInv

(* The squad goes into its room: those in it were placed nowhere else. *)
LEMMA FormSquadSInv ==
  ASSUME SInv, FInv', lock = None,
         NEW t \in Threads, NEW squad \in SUBSET Entry, NEW s,
         FormSquad(t, squad, s), UNCHANGED <<auths, members, roomOf>>,
         \A e \in squad : e.nth <= auths[e.id],
         \A e \in squad : auths[e.id] <= 1 =>
           /\ roomOf[e.id] = 0 /\ auths[e.id] # 0
           /\ t # "recv" /\ pc["recv"] = "auth" => arg["recv"] # e.id
  PROVE  SInv'
<1> USE MatchAssumption DEF SInv
<1>1. /\ forming = NotForming
      /\ forming' = [room |-> nextRoom, left |-> squad] /\ queue' = {}
      /\ lock' = t /\ pc' = [pc EXCEPT ![t] = "form"] /\ arg' = [arg EXCEPT ![t] = s]
  BY DEF FormSquad, Goto, Held
<1>2. TypeOK /\ TypeOK'
  BY DEF FInv, TInv
<1>3. Held'
  BY <1>1, <1>2 DEF Held, TypeOK
<1>4. \A x \in Sessions : Forming(x)' <=> \E e \in squad : e.id = x
  BY <1>1 DEF Forming
<1>5. \A x \in Sessions : ~Queued(x)' /\ ~Forming(x)
  BY <1>1 DEF Queued, Forming, NotForming
<1>6. /\ \A u \in Threads : u # t => pc'[u] = pc[u] /\ arg'[u] = arg[u]
      /\ pc'[t] = "form"
  BY <1>1, <1>2 DEF TypeOK
<1>7. Places'
  BY <1>2, <1>4, <1>5, <1>6 DEF Places, Unplaced, Threads
<1>8. ASSUME NEW x \in Sessions, auths[x] <= 1
      PROVE  completes'[x] = IF Forming(x)' \/ roomOf'[x] # 0 THEN 1 ELSE 0
  <2>1. Cardinality(Matched(squad, x)) = IF \E e \in squad : e.id = x THEN 1 ELSE 0
    BY <1>2, <1>8, MatchedOnce
  <2>2. completes'[x] = completes[x] + (IF \E e \in squad : e.id = x THEN 1 ELSE 0)
    BY <2>1 DEF FormSquad
  <2>3. completes[x] = IF roomOf[x] # 0 THEN 1 ELSE 0
    BY <1>5, <1>8 DEF CompleteOnce
  <2> QED BY <1>4, <1>8, <2>2, <2>3
<1>9. CompleteOnce'
  BY <1>8 DEF CompleteOnce
<1>10. Entries'
  BY <1>1 DEF Entries
<1> QED BY <1>3, <1>7, <1>9, <1>10

LEMMA StepSInv == SInv /\ [Next]_vars => SInv'
<1> SUFFICES ASSUME SInv, [Next]_vars PROVE SInv'
  OBVIOUS
<1> USE MatchAssumption
<1>0. FInv' /\ TInv /\ TypeOK /\ TypeOK'
  BY StepFInv DEF SInv, FInv, TInv
<1>1. ASSUME UNCHANGED <<auths, queue, forming, roomOf, completes, lock>>,
             \A r \in RoomIds : members'[r] \subseteq members[r],
             \A u \in Threads : pc'[u] = "form" <=> pc[u] = "form",
             pc'["recv"] = "auth" => pc["recv"] = "auth" /\ UNCHANGED arg["recv"]
      PROVE  SInv'
  <2>1. Held'
    BY <1>0, <1>1 DEF SInv, Held, TypeOK
  <2>2. \A x \in Sessions : (Queued(x)' <=> Queued(x)) /\ (Forming(x)' <=> Forming(x))
    BY <1>1 DEF Queued, Forming
  <2>3. Places'
    BY <1>1, <2>2 DEF SInv, Places, Unplaced
  <2>4. CompleteOnce'
    BY <1>1, <2>2 DEF SInv, CompleteOnce
  <2>5. Entries'
    BY <1>1 DEF SInv, Entries
  <2> QED BY <1>0, <2>1, <2>3, <2>4, <2>5 DEF SInv
<1>2. ASSUME Authenticate PROVE SInv'
  <2>0. PICK s \in Sessions : s = arg["recv"]
    BY <1>0, <1>2 DEF Authenticate, TInv, Working
  <2>1. /\ auths' = [auths EXCEPT ![s] = @ + 1] /\ pc["recv"] = "handle"
        /\ pc' = [pc EXCEPT !["recv"] = "auth"] /\ arg' = [arg EXCEPT !["recv"] = s]
    BY <1>2, <2>0 DEF Authenticate, Goto
  <2>2. UNCHANGED <<queue, lock, forming, members, roomOf, completes>>
    BY <1>2 DEF Authenticate
  <2>3. Held'
    BY <1>0, <2>1, <2>2 DEF SInv, Held, TypeOK, Threads
  <2>4. \A x \in Sessions : (Queued(x)' <=> Queued(x)) /\ (Forming(x)' <=> Forming(x))
    BY <2>2 DEF Queued, Forming
  <2>5. \A x \in Sessions : /\ auths[x] \in Nat
                            /\ auths'[x] = IF x = s THEN auths[x] + 1 ELSE auths[x]
    BY <1>0, <2>1 DEF TypeOK
  <2>6. ASSUME NEW x \in Sessions, auths'[x] <= 1
        PROVE  /\ auths[x] <= 1
               /\ x = s => auths[x] = 0
               /\ auths'[x] = 0 => auths[x] = 0
    BY <2>5, <2>6
  <2>7. arg'["recv"] = s
    BY <1>0, <2>1 DEF TypeOK, Threads
  <2>8. Places'
    BY <2>2, <2>4, <2>6, <2>7 DEF SInv, Places, Unplaced
  <2>9. CompleteOnce'
    BY <2>2, <2>4, <2>6 DEF SInv, CompleteOnce
  <2>10. Entries'
    <3>1. \A e \in queue \cup forming.left : e.id \in Sessions /\ e.nth \in Int
      BY <1>0 DEF TypeOK, Entry
    <3>2. \A x \in Sessions : auths[x] \in Int /\ auths'[x] \in Int /\ auths[x] <= auths'[x]
      BY <2>5
    <3> QED BY <2>2, <3>1, <3>2 DEF SInv, Entries
  <2> QED BY <1>0, <2>3, <2>8, <2>9, <2>10 DEF SInv
<1>3. ASSUME Enqueue PROVE SInv'
  <2>1. PICK s \in Sessions : s = arg["recv"]
    BY <1>0, <1>3 DEF Enqueue, TInv, Working
  <2>2. PICK e \in Entry : e = [id |-> s, nth |-> auths[s]]
    <3>1. auths[s] \in 1 .. MaxAuth
      BY <1>0, <1>3, <2>1 DEF Enqueue, TInv, Working, TypeOK
    <3> QED BY <3>1 DEF Entry
  <2>3. PICK q : q = queue \cup {e}
    OBVIOUS
  <2>4. /\ auths[s] <= 1 => Unplaced(s)
        /\ auths[s] # 0 /\ pc["recv"] = "auth" /\ lock = None
        /\ e.id = s /\ e.nth = auths[s]
    BY <1>0, <1>3, <2>1, <2>2 DEF Enqueue, Working, TInv, TypeOK, SInv, Places
  <2>5. q \in SUBSET Entry /\ queue \in SUBSET Entry
    BY <1>0, <2>3 DEF TypeOK
  <2>6. UNCHANGED <<auths, members, roomOf>>
    BY <1>3 DEF Enqueue
  <2>7. \A f \in q : f.nth <= auths[f.id]
    <3>1. e.nth <= auths[e.id]
      BY <2>4, <1>0 DEF TypeOK
    <3> QED BY <2>3, <3>1 DEF SInv, Entries
  <2>8. \A f \in q : auths[f.id] <= 1 => roomOf[f.id] = 0 /\ auths[f.id] # 0
    <3>1. \A f \in queue : f.id \in Sessions /\ Queued(f.id)
      BY <2>5 DEF Entry, Queued
    <3>2. \A f \in queue : auths[f.id] <= 1 => roomOf[f.id] = 0 /\ auths[f.id] # 0
      BY <3>1 DEF SInv, Places, Unplaced
    <3> QED BY <2>3, <2>4, <3>2 DEF Unplaced
  <2>9. CASE FormSquad("recv", q, s)
    BY <1>0, <2>4, <2>5, <2>6, <2>7, <2>8, <2>9, FormSquadSInv DEF Threads
  <2>10. CASE /\ queue' = q /\ Goto("recv", "handle", s)
              /\ UNCHANGED <<lock, forming, completes>>
    <3>1. /\ pc' = [pc EXCEPT !["recv"] = "handle"]
      BY <2>10 DEF Goto
    <3>2. Held'
      BY <1>0, <2>4, <2>10, <3>1 DEF SInv, Held, TypeOK
    <3>3. \A x \in Sessions : Queued(x)' <=> Queued(x) \/ x = s
      BY <2>3, <2>4, <2>10 DEF Queued
    <3>4. \A x \in Sessions : Forming(x)' <=> Forming(x)
      BY <2>10 DEF Forming
    <3>5. pc'["recv"] # "auth"
      BY <1>0, <3>1 DEF TypeOK, Threads
    <3>6. Places'
      BY <2>4, <2>6, <3>3, <3>4, <3>5 DEF SInv, Places, Unplaced
    <3>7. CompleteOnce'
      BY <2>6, <2>10, <3>4 DEF SInv, CompleteOnce
    <3>8. Entries'
      BY <2>6, <2>7, <2>10 DEF SInv, Entries
    <3> QED BY <1>0, <3>2, <3>6, <3>7, <3>8 DEF SInv
  <2> QED BY <1>3, <2>1, <2>2, <2>3, <2>9, <2>10 DEF Enqueue
<1>4. ASSUME TickTimeouts PROVE SInv'
  <2>1. /\ queue \in SUBSET Entry /\ lock = None /\ FormSquad("tick", queue, None)
        /\ UNCHANGED <<auths, members, roomOf>>
    BY <1>0, <1>4 DEF TickTimeouts, TypeOK
  <2>2. \A f \in queue : f.id \in Sessions /\ Queued(f.id)
    BY <2>1 DEF Entry, Queued
  <2>3. \A f \in queue : auths[f.id] <= 1 =>
          /\ roomOf[f.id] = 0 /\ auths[f.id] # 0
          /\ pc["recv"] = "auth" => arg["recv"] # f.id
    BY <2>2 DEF SInv, Places, Unplaced
  <2>4. \A f \in queue : f.nth <= auths[f.id]
    BY DEF SInv, Entries
  <2> QED BY <1>0, <2>1, <2>3, <2>4, FormSquadSInv DEF Threads
<1>5. ASSUME NEW t \in Threads, NEW e \in Entry, AddSession(t, e) PROVE SInv'
  <2>1. /\ e.id \in Sessions /\ forming.room \in RoomIds /\ e \in forming.left
        /\ pc[t] = "form"
    BY <1>0, <1>5 DEF AddSession, TInv, Working, Entry
  <2>2. /\ roomOf' = [roomOf EXCEPT ![e.id] = forming.room]
        /\ members' = [members EXCEPT ![forming.room] = @ \cup {e.id}]
        /\ forming' = [room |-> forming.room, left |-> forming.left \ {e}]
        /\ UNCHANGED <<auths, queue, lock, pc, arg, completes>>
    BY <1>5 DEF AddSession
  <2>3. Held'
    <3>1. lock = t
      BY <2>1 DEF SInv, Held
    <3> QED BY <2>2, <3>1, MatchAssumption DEF SInv, Held
  <2>4. /\ \A x \in Sessions : (Queued(x)' <=> Queued(x)) /\ (Forming(x)' => Forming(x))
        /\ \A x \in Sessions : x # e.id => (Forming(x)' <=> Forming(x))
    BY <2>2 DEF Queued, Forming
  <2>5. auths[e.id] <= 1 => ~Forming(e.id)'
    <3> SUFFICES ASSUME auths[e.id] <= 1 PROVE ~Forming(e.id)'
      OBVIOUS
    <3>1. \A f \in forming.left : f.id = e.id => f = e
      <4>1. PICK L \in SUBSET Entry : L = forming.left
        BY <1>0 DEF TypeOK
      <4>2. \A f \in L : f.nth <= auths[f.id]
        BY <4>1 DEF SInv, Entries
      <4>3. PICK x \in Sessions : x = e.id
        BY <2>1
      <4>4. \A f \in L : f.id = x => f = [id |-> x, nth |-> 1]
        BY <1>0, <4>2, <4>3, OneEntry
      <4> QED BY <2>1, <4>1, <4>3, <4>4
    <3> QED BY <2>2, <3>1 DEF Forming
  <2>6. Forming(e.id) /\ (auths[e.id] <= 1 => roomOf[e.id] = 0)
    <3>1. Forming(e.id)
      BY <2>1 DEF Forming
    <3> QED BY <2>1, <3>1 DEF SInv, Places
  <2>7. \A x \in Sessions : roomOf'[x] = IF x = e.id THEN forming.room ELSE roomOf[x]
    BY <1>0, <2>2 DEF TypeOK
  <2>8. \A r \in RoomIds, x \in Sessions :
          x \in members'[r] => x \in members[r] \/ (x = e.id /\ r = forming.room)
    BY <1>0, <2>2 DEF TypeOK
  <2>9. Places'
    <3>1. auths[e.id] <= 1 => \A r \in RoomIds : e.id \notin members[r]
      BY <2>1, <2>6 DEF SInv, Places, RoomIds
    <3> QED BY <2>1, <2>2, <2>4, <2>5, <2>6, <2>7, <2>8, <3>1 DEF SInv, Places, Unplaced
  <2>10. CompleteOnce'
    <3>1. forming.room # 0
      BY <2>1 DEF RoomIds
    <3> QED BY <2>2, <2>4, <2>5, <2>6, <2>7, <3>1 DEF SInv, CompleteOnce
  <2>11. Entries'
    BY <2>2 DEF SInv, Entries
  <2> QED BY <1>0, <2>3, <2>9, <2>10, <2>11 DEF SInv
<1>6. ASSUME NEW t \in Threads, FormDone(t) PROVE SInv'
  <2>1. /\ forming.left = {} /\ forming' = NotForming /\ lock' = None /\ pc[t] = "form"
        /\ pc' = [pc EXCEPT ![t] = IF t = "recv" THEN "handle" ELSE "idle"]
        /\ UNCHANGED <<auths, queue, members, roomOf, completes>>
    BY <1>6 DEF FormDone, Goto
  <2>2. \A u \in Threads :
          pc'[u] = IF u = t THEN (IF t = "recv" THEN "handle" ELSE "idle") ELSE pc[u]
    BY <1>0, <2>1 DEF TypeOK
  <2>3. Held'
    BY <2>1, <2>2 DEF SInv, Held
  <2>4. \A x \in Sessions : (Queued(x)' <=> Queued(x)) /\ ~Forming(x)' /\ ~Forming(x)
    BY <2>1 DEF Queued, Forming, NotForming
  <2>5. pc'["recv"] = "auth" => pc["recv"] = "auth" /\ UNCHANGED arg["recv"]
    <3>1. arg' = arg
      BY <1>0, <1>6 DEF FormDone, Goto, TypeOK
    <3> QED BY <2>2, <3>1 DEF Threads
  <2>6. Places'
    BY <2>1, <2>4, <2>5 DEF SInv, Places, Unplaced
  <2>7. CompleteOnce'
    BY <2>1, <2>4 DEF SInv, CompleteOnce
  <2>8. Entries'
    BY <2>1 DEF SInv, Entries, NotForming
  <2> QED BY <1>0, <2>3, <2>6, <2>7, <2>8 DEF SInv
<1>7. ASSUME NEW t \in Threads, Cancel(t) PROVE SInv'
  <2>1. /\ pc[t] = "cancel" /\ lock = None /\ queue' = queue \ First(arg[t])
        /\ pc' = [pc EXCEPT ![t] = "leave"] /\ arg' = [arg EXCEPT ![t] = arg[t]]
        /\ UNCHANGED <<auths, lock, forming, members, roomOf, completes>>
    BY <1>7 DEF Cancel, Goto
  <2>2. Held'
    BY <1>0, <2>1 DEF SInv, Held, TypeOK
  <2>3. \A x \in Sessions : (Queued(x)' => Queued(x)) /\ (Forming(x)' <=> Forming(x))
    BY <2>1 DEF Queued, Forming
  <2>4. pc'["recv"] = "auth" => pc["recv"] = "auth" /\ UNCHANGED arg["recv"]
    BY <1>0, <2>1 DEF TypeOK, Threads
  <2>5. Places'
    BY <2>1, <2>3, <2>4 DEF SInv, Places, Unplaced
  <2>6. CompleteOnce'
    BY <2>1, <2>3 DEF SInv, CompleteOnce
  <2>7. Entries'
    BY <2>1 DEF SInv, Entries
  <2> QED BY <1>0, <2>2, <2>5, <2>6, <2>7 DEF SInv
<1>8. ASSUME NEW t \in Threads, LeaveRoom(t) PROVE SInv'
  <2>1. UNCHANGED <<auths, queue, forming, roomOf, completes, lock>>
    BY <1>8 DEF LeaveRoom
  <2>2. \A r \in RoomIds : members'[r] \subseteq members[r]
    BY <1>0, <1>8 DEF LeaveRoom, TypeOK
  <2>3. /\ \A u \in Threads : pc'[u] = "form" <=> pc[u] = "form"
        /\ pc'["recv"] = "auth" => pc["recv"] = "auth" /\ UNCHANGED arg["recv"]
    BY <1>0, <1>8 DEF LeaveRoom, Goto, TypeOK, Threads
  <2> QED BY <1>1, <2>1, <2>2, <2>3
<1>9. ASSUME NEW t \in Threads, MemberCount(t) \/ EraseRoom(t) PROVE SInv'
  <2>1. UNCHANGED <<auths, queue, forming, roomOf, completes, lock, members>>
    BY <1>9 DEF MemberCount, EraseRoom
  <2>2. /\ \A u \in Threads : pc'[u] = "form" <=> pc[u] = "form"
        /\ pc'["recv"] = "auth" => pc["recv"] = "auth" /\ UNCHANGED arg["recv"]
    BY <1>0, <1>9 DEF MemberCount, EraseRoom, Goto, TypeOK, Threads
  <2> QED BY <1>1, <2>1, <2>2
<1>10. ASSUME NEW s \in Sessions, NEW t \in Threads, Unregister(t, s) PROVE SInv'
  <2>1. UNCHANGED <<auths, queue, forming, roomOf, completes, lock, members>>
    BY <1>10 DEF Unregister
  <2>2. /\ \A u \in Threads : pc'[u] = "form" <=> pc[u] = "form"
        /\ pc'["recv"] = "auth" => pc["recv"] = "auth" /\ UNCHANGED arg["recv"]
    BY <1>0, <1>10 DEF Unregister, Goto, TypeOK, Threads
  <2> QED BY <1>1, <2>1, <2>2
<1>11. ASSUME NEW s \in Sessions, Accept(s) PROVE SInv'
  BY <1>1, <1>11 DEF Accept
<1>12. ASSUME Clock PROVE SInv'
  BY <1>1, <1>12 DEF Clock
<1>13. CASE UNCHANGED vars
  BY <1>1, <1>13 DEF vars
<1>14. ASSUME (\E s \in Sessions : Handle(s)) \/ HandlerDone PROVE SInv'
  <2>1. UNCHANGED <<auths, queue, forming, roomOf, completes, lock, members>>
    BY <1>14 DEF Handle, HandlerDone
  <2>2. /\ \A u \in Threads : pc'[u] = "form" <=> pc[u] = "form"
        /\ pc'["recv"] # "auth"
    BY <1>0, <1>14 DEF Handle, HandlerDone, Goto, TypeOK, Threads
  <2> QED BY <1>1, <2>1, <2>2
<1> QED BY <1>2, <1>3, <1>4, <1>5, <1>6, <1>7, <1>8, <1>9, <1>10, <1>11, <1>12, <1>13, <1>14
        DEF Next, Continue

-----------------------------------------------------------------------------
LEMMA SInvImplies == SInv => OnePlace /\ CompleteOnce
<1> SUFFICES ASSUME SInv PROVE OnePlace
  BY DEF SInv
<1>1. \A s \in Sessions, r \in RoomIds :
        auths[s] <= 1 /\ s \in members[r] => r = roomOf[s] /\ roomOf[s] # 0
  BY DEF SInv, Places, RoomIds
<1> QED BY <1>1 DEF SInv, Places, OnePlace

(* A session that has logged in at most once is in one place at a time,    *)
(* and is told once that its match is complete, when it has a room, also   *)
(* if it is unregistered under its handler (Matchmaker, Room).             *)
THEOREM OneSeat == Spec => [](OnePlace /\ CompleteOnce)
<1>1. Init => SInv
  BY InitSInv
<1>2. SInv /\ [Next]_vars => SInv'
  BY StepSInv
<1> QED BY <1>1, <1>2, SInvImplies, PTL DEF Spec

-----------------------------------------------------------------------------
LEMMA InitGone == Init => Leaving /\ Gone
  BY DEF Init, Leaving, Gone, Threads

(* A session that is loose stays so. *)
LEMMA StaysLoose ==
  ASSUME TypeOK, [Next]_vars
  PROVE  \A s \in Sessions : Loose(s) => Loose(s)'
<1>1. CASE UNCHANGED <<auths, late>>
  BY <1>1 DEF Loose
<1>2. CASE Authenticate
  <2>1. \A s \in Sessions : auths[s] \in Nat /\ auths'[s] \in {auths[s], auths[s] + 1}
    BY <1>2 DEF Authenticate, TypeOK
  <2>2. late' = late
    BY <1>2 DEF Authenticate
  <2> QED BY <2>1, <2>2 DEF Loose
<1>3. CASE Enqueue
  <2>1. auths' = auths /\ late \subseteq late'
    BY <1>3 DEF Enqueue
  <2> QED BY <2>1 DEF Loose
<1> QED BY <1>1, <1>2, <1>3 DEF Next, Continue, vars, Accept, Handle, HandlerDone, Unregister,
            Clock, TickTimeouts, AddSession, FormDone, Cancel, LeaveRoom, MemberCount, EraseRoom

(* Steps that begin or end neither Cancel nor LeaveRoom. *)
LEMMA LeavingKept ==
  ASSUME Leaving, UNCHANGED life,
         \A u \in Threads : pc'[u] \in {"cancel", "leave"} =>
                              pc[u] \in {"cancel", "leave"} /\ arg'[u] = arg[u]
  PROVE  Leaving'
  BY DEF Leaving

LEMMA CancelledIsPast == \A s : Cancelled(s) <=> life[s] = "gone" /\ ~At(s, "cancel")
  BY DEF Cancelled, At

(* Nothing but Cancel, LeaveRoom, Unregister and Accept tells on At. *)
LEMMA StepAt ==
  ASSUME TypeOK, Working, NEW x,
         \/ \E s \in Sessions : Handle(s)
         \/ Authenticate \/ HandlerDone \/ Enqueue \/ Clock \/ TickTimeouts
         \/ \E t \in Threads, e \in Entry : AddSession(t, e)
         \/ \E t \in Threads : FormDone(t) \/ MemberCount(t) \/ EraseRoom(t)
         \/ UNCHANGED vars
  PROVE  /\ UNCHANGED life
         /\ At(x, "cancel")' <=> At(x, "cancel")
         /\ At(x, "leave")' <=> At(x, "leave")
         /\ \A u \in Threads : pc'[u] \in {"cancel", "leave"} =>
                                 pc[u] \in {"cancel", "leave"} /\ arg'[u] = arg[u]
<1> DEFINE Quiet(u) == pc[u] \notin {"cancel", "leave"} /\ pc'[u] \notin {"cancel", "leave"}
<1>1. UNCHANGED life
  BY DEF Handle, Authenticate, HandlerDone, Enqueue, Clock, TickTimeouts, AddSession, FormDone,
         MemberCount, EraseRoom, vars
<1>2. CASE \E s \in Sessions : Handle(s)
  <2>1. Quiet("recv") /\ \A u \in Threads : u # "recv" => pc'[u] = pc[u] /\ arg'[u] = arg[u]
    BY <1>2 DEF Handle, Goto, TypeOK, Threads
  <2> QED BY <1>1, <2>1 DEF At
<1>3. CASE Authenticate \/ HandlerDone
  <2>1. Quiet("recv") /\ \A u \in Threads : u # "recv" => pc'[u] = pc[u] /\ arg'[u] = arg[u]
    BY <1>3 DEF Authenticate, HandlerDone, Goto, TypeOK, Threads
  <2> QED BY <1>1, <2>1 DEF At
<1>4. CASE Enqueue
  <2>1. Quiet("recv") /\ \A u \in Threads : u # "recv" => pc'[u] = pc[u] /\ arg'[u] = arg[u]
    BY <1>4 DEF Enqueue, FormSquad, Goto, TypeOK, Threads
  <2> QED BY <1>1, <2>1 DEF At
<1>5. CASE TickTimeouts
  <2>1. Quiet("tick") /\ \A u \in Threads : u # "tick" => pc'[u] = pc[u] /\ arg'[u] = arg[u]
    BY <1>5 DEF TickTimeouts, FormSquad, Goto, TypeOK, Threads
  <2> QED BY <1>1, <2>1 DEF At
<1>6. CASE \E t \in Threads : FormDone(t) \/ MemberCount(t) \/ EraseRoom(t)
  <2>1. PICK t \in Threads : FormDone(t) \/ MemberCount(t) \/ EraseRoom(t)
    BY <1>6
  <2>2. Quiet(t) /\ \A u \in Threads : u # t => pc'[u] = pc[u] /\ arg'[u] = arg[u]
    BY <2>1 DEF FormDone, MemberCount, EraseRoom, Goto, TypeOK
  <2> QED BY <1>1, <2>1, <2>2 DEF At
<1>7. CASE Clock \/ UNCHANGED vars \/ \E t \in Threads, e \in Entry : AddSession(t, e)
  <2>1. UNCHANGED <<pc, arg>>
    BY <1>7 DEF Clock, vars, AddSession
  <2> QED BY <1>1, <2>1 DEF At
<1> QED BY <1>2, <1>3, <1>4, <1>5, <1>6, <1>7

LEMMA StepLeaving == TInv /\ Leaving /\ [Next]_vars => Leaving'
<1> SUFFICES ASSUME TypeOK, Working, Leaving, [Next]_vars PROVE Leaving'
  BY DEF TInv
<1>1. CASE \/ \E s \in Sessions : Handle(s)
           \/ Authenticate \/ HandlerDone \/ Enqueue \/ Clock \/ TickTimeouts
           \/ \E t \in Threads, e \in Entry : AddSession(t, e)
           \/ \E t \in Threads : FormDone(t) \/ MemberCount(t) \/ EraseRoom(t)
           \/ UNCHANGED vars
  BY <1>1, StepAt, LeavingKept
<1>2. ASSUME NEW s \in Sessions, Accept(s) PROVE Leaving'
  <2>1. /\ \A x \in Sessions : life[x] = "gone" => life'[x] = "gone"
        /\ UNCHANGED <<pc, arg>>
    BY <1>2 DEF Accept, TypeOK
  <2>2. \A t \in Threads : pc[t] \in {"cancel", "leave"} => arg[t] \in Sessions
    BY DEF Working
  <2> QED BY <2>1, <2>2 DEF Leaving
<1>3. ASSUME NEW s \in Sessions, NEW t \in Threads, Unregister(t, s) PROVE Leaving'
  <2>1. /\ life[s] = "live" /\ pc[t] = "idle" /\ life'[s] = "gone"
        /\ \A x \in Sessions : life[x] = "gone" => life'[x] = "gone"
        /\ \A u \in Threads : /\ pc'[u] = (IF u = t THEN "cancel" ELSE pc[u])
                              /\ arg'[u] = (IF u = t THEN s ELSE arg[u])
    BY <1>3 DEF Unregister, Goto, TypeOK
  <2>2. \A u \in Threads : pc[u] \in {"cancel", "leave"} => arg[u] \in Sessions /\ arg[u] # s
    BY <2>1 DEF Working, Leaving
  <2> QED BY <2>1, <2>2 DEF Leaving
<1>4. ASSUME NEW t \in Threads, Cancel(t) PROVE Leaving'
  <2>1. UNCHANGED life /\ pc[t] = "cancel" /\ arg' = arg
        /\ \A u \in Threads : pc'[u] = IF u = t THEN "leave" ELSE pc[u]
    BY <1>4 DEF Cancel, Goto, TypeOK
  <2> QED BY <2>1, LeavingKept
<1>5. ASSUME NEW t \in Threads, LeaveRoom(t) PROVE Leaving'
  <2>1. /\ UNCHANGED life /\ pc'[t] \in {"idle", "count"}
        /\ \A u \in Threads : u # t => pc'[u] = pc[u] /\ arg'[u] = arg[u]
    BY <1>5 DEF LeaveRoom, Goto, TypeOK
  <2> QED BY <2>1, LeavingKept
<1> QED BY <1>1, <1>2, <1>3, <1>4, <1>5 DEF Next, Continue

(* The case of Gone where a session has already been through Cancel, or    *)
(* LeaveRoom, before the step.                                             *)
LEMMA GoneKept ==
  ASSUME Gone, NEW s \in Sessions, Loose(s) => Loose(s)',
         life'[s] = "gone" /\ ~Loose(s)' /\ ~At(s, "cancel")' =>
           /\ life[s] = "gone" /\ ~At(s, "cancel")
           /\ Queued(s)' => Queued(s)
           /\ Forming(s)' => Queued(s) \/ Forming(s)
           /\ ~At(s, "leave")' => /\ ~At(s, "leave")
                                  /\ \A r \in RoomIds : s \in members'[r] =>
                                                          s \in members[r] \/ Forming(s)
  PROVE  life'[s] = "gone" /\ ~Loose(s)' /\ ~At(s, "cancel")' =>
           /\ ~Queued(s)' /\ ~Forming(s)'
           /\ ~At(s, "leave")' => \A r \in RoomIds : s \notin members'[r]
  BY DEF Gone

(* Forming a squad moves the sessions in the queue, and those are not gone *)
(* unless Cancel is still to come for them, which waits for the lock.      *)
LEMMA FormsTheQueued ==
  ASSUME NEW t, NEW squad, NEW s, FormSquad(t, squad, s),
         NEW x \in Sessions, \A e \in squad : e.id = x => e \in queue
  PROVE  ~Queued(x)' /\ (Forming(x)' => Queued(x))
<1>1. queue' = {} /\ forming'.left = squad
  BY DEF FormSquad
<1> QED BY <1>1 DEF Queued, Forming

LEMMA StepGone == GInv /\ [Next]_vars => Gone'
<1> SUFFICES ASSUME GInv, [Next]_vars,
                    NEW s \in Sessions
             PROVE  life'[s] = "gone" /\ ~Loose(s)' /\ ~At(s, "cancel")' =>
                      /\ ~Queued(s)' /\ ~Forming(s)'
                      /\ ~At(s, "leave")' => \A r \in RoomIds : s \notin members'[r]
  BY DEF Gone
<1> DEFINE Goal == life'[s] = "gone" /\ ~Loose(s)' /\ ~At(s, "cancel")' =>
                     /\ ~Queued(s)' /\ ~Forming(s)'
                     /\ ~At(s, "leave")' => \A r \in RoomIds : s \notin members'[r]
<1>0. TypeOK /\ Working /\ Held /\ Entries /\ Places /\ Leaving /\ Gone
  BY DEF GInv, SInv, FInv, TInv
<1>l. Loose(s) => Loose(s)'
  BY <1>0, StaysLoose
<1>1. ASSUME UNCHANGED <<life, queue, forming, members>>,
             At(s, "cancel")' <=> At(s, "cancel"), At(s, "leave")' <=> At(s, "leave")
      PROVE  Goal
  <2>1. (Queued(s)' <=> Queued(s)) /\ (Forming(s)' <=> Forming(s))
    BY <1>1 DEF Queued, Forming
  <2> QED BY <1>0, <1>l, <1>1, <2>1, GoneKept
<1>2. ASSUME NEW x \in Sessions, Accept(x) PROVE Goal
  <2>1. /\ life'[s] = "gone" => life[s] = "gone"
        /\ UNCHANGED <<queue, forming, members, pc, arg>>
    BY <1>0, <1>2 DEF Accept, TypeOK
  <2>2. /\ Queued(s)' <=> Queued(s)
        /\ Forming(s)' <=> Forming(s)
        /\ At(s, "cancel")' <=> At(s, "cancel")
        /\ At(s, "leave")' <=> At(s, "leave")
    BY <2>1 DEF Queued, Forming, At
  <2> QED BY <1>0, <1>l, <2>1, <2>2, GoneKept
<1>3. ASSUME \/ \E x \in Sessions : Handle(x)
             \/ Authenticate \/ HandlerDone \/ Clock
             \/ \E t \in Threads : MemberCount(t) \/ EraseRoom(t)
             \/ UNCHANGED vars
      PROVE  Goal
  <2>1. UNCHANGED <<queue, forming, members>>
    BY <1>3 DEF Handle, Authenticate, HandlerDone, Clock, MemberCount, EraseRoom, vars
  <2>2. /\ UNCHANGED life
        /\ At(s, "cancel")' <=> At(s, "cancel")
        /\ At(s, "leave")' <=> At(s, "leave")
    BY <1>0, <1>3, StepAt
  <2> QED BY <1>1, <2>1, <2>2
<1>4. ASSUME NEW x \in Sessions, NEW t \in Threads, Unregister(t, x) PROVE Goal
  <2>1. /\ life[x] = "live" /\ pc[t] = "idle"
        /\ \A y \in Sessions : y # x => life'[y] = life[y]
        /\ \A u \in Threads : /\ pc'[u] = (IF u = t THEN "cancel" ELSE pc[u])
                              /\ arg'[u] = (IF u = t THEN x ELSE arg[u])
        /\ UNCHANGED <<queue, forming, members>>
    BY <1>0, <1>4 DEF Unregister, Goto, TypeOK
  <2>2. CASE s = x
    BY <2>1, <2>2 DEF At
  <2>3. CASE s # x
    <3>1. /\ At(s, "cancel")' <=> At(s, "cancel")
          /\ At(s, "leave")' <=> At(s, "leave")
      BY <2>1, <2>3 DEF At
    <3>2. (Queued(s)' <=> Queued(s)) /\ (Forming(s)' <=> Forming(s))
      BY <2>1 DEF Queued, Forming
    <3> QED BY <1>0, <1>l, <2>1, <2>3, <3>1, <3>2, GoneKept
  <2> QED BY <2>2, <2>3
<1>5. ASSUME Enqueue PROVE Goal
  <2>1. PICK x \in Sessions : x = arg["recv"]
    BY <1>0, <1>5 DEF Enqueue, Working
  <2>2. PICK q : q = queue \cup {[id |-> x, nth |-> auths[x]]}
    OBVIOUS
  <2>3. /\ UNCHANGED <<life, members>>
        /\ Cancelled(x) => x \in late'
        /\ \/ FormSquad("recv", q, x)
           \/ queue' = q /\ UNCHANGED forming
    BY <1>5, <2>1, <2>2 DEF Enqueue
  <2>4. /\ At(s, "cancel")' <=> At(s, "cancel")
        /\ At(s, "leave")' <=> At(s, "leave")
    BY <1>0, <1>5, StepAt
  <2>5. CASE s = x
    <3>1. Cancelled(s) => Loose(s)'
      BY <2>3, <2>5 DEF Loose
    <3>2. life'[s] = "gone" /\ ~At(s, "cancel")' => Cancelled(s)
      BY <2>3, <2>4, CancelledIsPast
    <3> QED BY <3>1, <3>2
  <2>6. CASE s # x
    <3>1. \A e \in q : e.id = s => e \in queue
      BY <2>2, <2>6
    <3>2. (Queued(s)' => Queued(s)) /\ (Forming(s)' => Queued(s) \/ Forming(s))
      <4>1. CASE FormSquad("recv", q, x)
        BY <3>1, <4>1, FormsTheQueued
      <4>2. CASE queue' = q /\ UNCHANGED forming
        BY <3>1, <4>2 DEF Queued, Forming
      <4> QED BY <2>3, <4>1, <4>2
    <3> QED BY <1>0, <1>l, <2>3, <2>4, <3>2, GoneKept
  <2> QED BY <2>5, <2>6
<1>6. ASSUME TickTimeouts PROVE Goal
  <2>1. FormSquad("tick", queue, None) /\ UNCHANGED <<life, members>>
    BY <1>6 DEF TickTimeouts
  <2>2. ~Queued(s)' /\ (Forming(s)' => Queued(s))
    BY <2>1, FormsTheQueued
  <2>3. /\ At(s, "cancel")' <=> At(s, "cancel")
        /\ At(s, "leave")' <=> At(s, "leave")
    BY <1>0, <1>6, StepAt
  <2> QED BY <1>0, <1>l, <2>1, <2>2, <2>3, GoneKept
<1>7. ASSUME NEW t \in Threads, NEW e \in Entry, AddSession(t, e) PROVE Goal
  <2>1. /\ e.id \in Sessions /\ forming.room \in RoomIds /\ e \in forming.left
        /\ members' = [members EXCEPT ![forming.room] = @ \cup {e.id}]
        /\ forming' = [room |-> forming.room, left |-> forming.left \ {e}]
        /\ UNCHANGED <<life, queue>>
    BY <1>0, <1>7 DEF AddSession, Working, Entry
  <2>2. (Queued(s)' <=> Queued(s)) /\ (Forming(s)' => Forming(s))
    BY <2>1 DEF Queued, Forming
  <2>3. \A r \in RoomIds : s \in members'[r] => s \in members[r] \/ s = e.id
    BY <1>0, <2>1 DEF TypeOK
  <2>4. s = e.id => Forming(s)
    BY <2>1 DEF Forming
  <2>5. /\ At(s, "cancel")' <=> At(s, "cancel")
        /\ At(s, "leave")' <=> At(s, "leave")
    BY <1>0, <1>7, StepAt
  <2> QED BY <1>0, <1>l, <2>1, <2>2, <2>3, <2>4, <2>5, GoneKept
<1>8. ASSUME NEW t \in Threads, FormDone(t) PROVE Goal
  <2>1. UNCHANGED <<life, queue, members>> /\ forming' = NotForming
    BY <1>8 DEF FormDone
  <2>2. (Queued(s)' <=> Queued(s)) /\ ~Forming(s)'
    BY <2>1 DEF NotForming, Queued, Forming
  <2>3. /\ At(s, "cancel")' <=> At(s, "cancel")
        /\ At(s, "leave")' <=> At(s, "leave")
    BY <1>0, <1>8, StepAt
  <2> QED BY <1>0, <1>l, <2>1, <2>2, <2>3, GoneKept
<1>9. ASSUME NEW t \in Threads, Cancel(t) PROVE Goal
  <2>1. /\ pc[t] = "cancel" /\ forming = NotForming /\ queue' = queue \ First(arg[t])
        /\ UNCHANGED <<life, forming, members, auths>> /\ arg' = arg
        /\ \A u \in Threads : pc'[u] = IF u = t THEN "leave" ELSE pc[u]
    BY <1>0, <1>9 DEF Cancel, Goto, Held, TypeOK
  <2>2. (Queued(s)' => Queued(s)) /\ ~Forming(s)'
    BY <2>1 DEF Queued, Forming, NotForming
  <2>3. CASE s = arg[t]
    <3>1. auths[s] <= 1 => ~Queued(s)'
      <4> SUFFICES ASSUME auths[s] <= 1 PROVE ~Queued(s)'
        OBVIOUS
      <4>1. PICK Q \in SUBSET Entry : Q = queue
        BY <1>0 DEF TypeOK
      <4>2. \A e \in Q : e.nth <= auths[e.id]
        BY <1>0, <4>1 DEF Entries
      <4>3. \A e \in Q : e.id = s => e = [id |-> s, nth |-> 1]
        BY <1>0, <4>2, OneEntry
      <4>4. \A e \in queue : e.id = s => e \in First(s)
        BY <4>1, <4>3 DEF First
      <4> QED BY <2>1, <2>3, <4>4 DEF Queued
    <3>2. At(s, "leave")'
      BY <2>1, <2>3 DEF At
    <3>3. ~Loose(s)' => auths[s] <= 1
      BY <1>0, <2>1 DEF Loose, TypeOK
    <3> QED BY <2>2, <3>1, <3>2, <3>3
  <2>4. CASE s # arg[t]
    <3>1. /\ At(s, "cancel")' <=> At(s, "cancel")
          /\ At(s, "leave")' <=> At(s, "leave")
      BY <2>1, <2>4 DEF At
    <3> QED BY <1>0, <1>l, <2>1, <2>2, <3>1, GoneKept
  <2> QED BY <2>3, <2>4
<1>10. ASSUME NEW t \in Threads, LeaveRoom(t) PROVE Goal
  <2>1. /\ pc[t] = "leave" /\ UNCHANGED <<life, queue, forming, auths, late>>
        /\ \A r \in RoomIds : members'[r] \subseteq members[r]
        /\ pc'[t] \in {"idle", "count"}
        /\ \A u \in Threads : u # t => pc'[u] = pc[u] /\ arg'[u] = arg[u]
    BY <1>0, <1>10 DEF LeaveRoom, Goto, TypeOK
  <2>2. /\ Queued(s)' <=> Queued(s)
        /\ Forming(s)' <=> Forming(s)
        /\ Loose(s)' <=> Loose(s)
    BY <2>1 DEF Queued, Forming, Loose
  <2>3. At(s, "cancel")' <=> At(s, "cancel")
    BY <2>1 DEF At
  <2>4. CASE s = arg[t] /\ auths[s] <= 1
    <3>1. \A r \in RoomIds : s \notin members'[r]
      <4>1. \A r \in RoomIds : s \in members[r] => r = roomOf[s] /\ r # 0
        BY <1>0, <2>4 DEF Places, RoomIds
      <4>2. CASE roomOf[s] = 0
        BY <2>1, <4>1, <4>2
      <4>3. CASE roomOf[s] # 0
        BY <1>0, <1>10, <2>4, <4>1, <4>3 DEF LeaveRoom, TypeOK
      <4> QED BY <4>2, <4>3
    <3> QED BY <1>0, <2>1, <2>2, <2>3, <3>1 DEF Gone
  <2>5. CASE s # arg[t]
    <3>1. At(s, "leave")' <=> At(s, "leave")
      BY <2>1, <2>5 DEF At
    <3> QED BY <1>0, <1>l, <2>1, <2>2, <2>3, <3>1, GoneKept
  <2>6. ~(auths[s] <= 1) => Loose(s)'
    BY <1>0, <2>1 DEF Loose, TypeOK
  <2> QED BY <2>4, <2>5, <2>6
<1> HIDE DEF Goal
<1>11. Goal
  BY <1>2, <1>3, <1>4, <1>5, <1>6, <1>7, <1>8, <1>9, <1>10 DEF Next, Continue
<1> QED BY <1>11 DEF Goal

LEMMA GInvStep == GInv /\ [Next]_vars => GInv'
<1>1. GInv => TInv
  BY DEF GInv, SInv, FInv
<1> QED BY <1>1, StepSInv, StepLeaving, StepGone DEF GInv

LEMMA GInvImplies == GInv => GoneNowhere
  BY DEF GInv, Gone, At, GoneNowhere, Cancelled

(* Nothing is left in the queue, in a squad being formed or in a room of a *)
(* session that has been unregistered, however Cancel and LeaveRoom        *)
(* interleave with the squads that are formed meanwhile and with the       *)
(* session's own handler: unless the session had logged in twice, or was   *)
(* queued by that handler when Cancel had passed (UnregisterSession,       *)
(* Matchmaker::Cancel, Room::RemoveSession).                               *)
THEOREM NothingOfTheGone == Spec => []GoneNowhere
<1>1. Init => GInv
  BY InitSInv, InitGone DEF GInv
<1> QED BY <1>1, GInvStep, GInvImplies, PTL DEF Spec

-----------------------------------------------------------------------------
(* The steps of Squads, told session by session.                           *)
Same(s) == PlaceOf(s)' = PlaceOf(s) /\ SquadOf(s)' = SquadOf(s)

LEMMA MapsToStutter ==
  ASSUME \A x \in Sessions : Same(x)
  PROVE  UNCHANGED Promise!absvars
  BY DEF Promise!absvars, Same

LEMMA MapsToLeave ==
  ASSUME NEW s \in Sessions, PlaceOf(s) \notin {"left", "loose"}, PlaceOf(s)' = "left",
         SquadOf(s)' = SquadOf(s), \A x \in Sessions \ {s} : Same(x)
  PROVE  Promise!Next(nextRoom)
<1>1. Promise!Leave(s)
  BY DEF Promise!Leave, Same
<1> QED BY <1>1 DEF Promise!Next

LEMMA MapsToJoin ==
  ASSUME NEW s \in Sessions, PlaceOf(s) = "out", PlaceOf(s)' = "waiting",
         SquadOf(s)' = SquadOf(s), \A x \in Sessions \ {s} : Same(x)
  PROVE  Promise!Next(nextRoom)
<1>1. Promise!Join(s)
  BY DEF Promise!Join, Same
<1> QED BY <1>1 DEF Promise!Next

LEMMA MapsToLoosen ==
  ASSUME NEW s \in Sessions, PlaceOf(s)' = "loose", SquadOf(s)' = 0,
         \A x \in Sessions \ {s} : Same(x)
  PROVE  Promise!Next(nextRoom)
<1>1. Promise!Loosen(s)
  BY DEF Promise!Loosen, Same
<1> QED BY <1>1 DEF Promise!Next

LEMMA MapsToSeat ==
  ASSUME NEW S \in SUBSET Sessions, S # {}, Cardinality(S) <= MaxSquad,
         nextRoom > 0, \A x \in Sessions : SquadOf(x) # nextRoom,
         \A x \in S : PlaceOf(x)' = "seated" /\ SquadOf(x)' = nextRoom,
         \A x \in Sessions \ S : Same(x)
  PROVE  Promise!Seat(S, nextRoom)
<1> DEFINE P == [x \in Sessions |-> PlaceOf(x)]
           Q == [x \in Sessions |-> SquadOf(x)]
<1>1. P' = [x \in Sessions |-> IF x \in S THEN "seated" ELSE P[x]]
  BY DEF Same
<1>2. Q' = [x \in Sessions |-> IF x \in S THEN nextRoom ELSE Q[x]]
  BY DEF Same
<1>3. \A x \in Sessions : Q[x] # nextRoom
  OBVIOUS
<1>4. Promise!Cardinality(S) = Cardinality(S)
  BY DEF Promise!Cardinality, Cardinality
<1> QED BY <1>1, <1>2, <1>3, <1>4 DEF Promise!Seat

LEMMA MapsToJoinAndSeat ==
  ASSUME NEW s \in Sessions, PlaceOf(s) = "out",
         Promise!Seat(Promise!Waiting \cup {s}, nextRoom)
  PROVE  Promise!Next(nextRoom)
<1>1. Promise!JoinAndSeat(s, nextRoom)
  BY DEF Promise!JoinAndSeat
<1> QED BY <1>1 DEF Promise!Next

LEMMA MapsToLoosenAndSeat ==
  ASSUME NEW s \in Sessions, NEW S, S = Promise!Waiting, s \notin S, S # {},
         Cardinality(S) < MaxSquad,
         nextRoom > 0, \A x \in Sessions : SquadOf(x) # nextRoom,
         PlaceOf(s)' = "loose", SquadOf(s)' = 0,
         \A x \in S : PlaceOf(x)' = "seated" /\ SquadOf(x)' = nextRoom,
         \A x \in Sessions \ (S \cup {s}) : Same(x)
  PROVE  Promise!Next(nextRoom)
<1> DEFINE P == [x \in Sessions |-> PlaceOf(x)]
           Q == [x \in Sessions |-> SquadOf(x)]
<1>1. P' = [x \in Sessions |-> IF x = s THEN "loose"
                               ELSE IF x \in S THEN "seated" ELSE P[x]]
  BY DEF Same
<1>2. Q' = [x \in Sessions |-> IF x = s THEN 0
                               ELSE IF x \in S THEN nextRoom ELSE Q[x]]
  BY DEF Same
<1>3. \A x \in Sessions : Q[x] # nextRoom
  OBVIOUS
<1>4. P[s] # "waiting"
  BY DEF Promise!Waiting
<1>5. Promise!Cardinality(S) = Cardinality(S)
  BY DEF Promise!Cardinality, Cardinality
<1>6. Promise!LoosenAndSeat(s, nextRoom)
  BY <1>1, <1>2, <1>3, <1>4, <1>5 DEF Promise!LoosenAndSeat
<1> QED BY <1>6 DEF Promise!Next

LEMMA LooseSame ==
  ASSUME NEW x \in Sessions, Loose(x), Loose(x)'
  PROVE  Same(x)
  BY DEF Same, PlaceOf, SquadOf

LEMMA WaitingAreQueued == Promise!Waiting = { x \in Sessions : Queued(x) /\ ~Loose(x) }
  BY DEF Promise!Waiting, PlaceOf

(* Who waits is in the queue, so all of them fit into a squad. *)
LEMMA WaitingFit ==
  ASSUME GInv
  PROVE  /\ Promise!Waiting \in SUBSET Sessions
         /\ Cardinality(Promise!Waiting) < MaxSquad
         /\ IsFiniteSet(Promise!Waiting)
         /\ Cardinality(Promise!Waiting) \in Nat
<1> DEFINE ids == { e.id : e \in queue }
<1>1. queue \in SUBSET Entry /\ Cardinality(queue) < MaxSquad
  BY DEF GInv, SInv, FInv, TInv, TypeOK, SquadFits
<1>2. /\ ids \subseteq Sessions /\ Cardinality(ids) \in Nat
      /\ Cardinality(ids) <= Cardinality(queue) /\ Cardinality(queue) \in Nat
  BY <1>1, IdsOfEntries, EntriesFinite
<1>3. Promise!Waiting \subseteq ids
  BY WaitingAreQueued DEF Queued
<1>4. IsFiniteSet(ids)
  BY <1>2, FS_Subset, MatchAssumption
<1>5. /\ Cardinality(Promise!Waiting) <= Cardinality(ids)
      /\ IsFiniteSet(Promise!Waiting) /\ Cardinality(Promise!Waiting) \in Nat
  BY <1>3, <1>4, FS_Subset, FS_CardinalityType
<1> QED BY <1>1, <1>2, <1>3, <1>5, MatchAssumption

(* No session is in the squad to be formed next. *)
LEMMA SquadIsFresh ==
  ASSUME GInv, lock = None
  PROVE  /\ nextRoom \in Nat /\ nextRoom > 0
         /\ \A x \in Sessions : ~Forming(x) /\ SquadOf(x) # nextRoom
<1>1. nextRoom \in Nat /\ nextRoom > 0 /\ forming = NotForming
  BY DEF GInv, SInv, FInv, TInv, TypeOK, Held
<1>2. \A x \in Sessions : ~Forming(x)
  BY <1>1 DEF Forming, NotForming
<1>3. \A x \in Sessions : roomOf[x] \in Int /\ roomOf[x] < nextRoom
  BY DEF GInv, SInv, FInv, TInv, TypeOK, Fresh
<1>4. \A x \in Sessions : SquadOf(x) \in {0, roomOf[x]}
  BY <1>2 DEF SquadOf
<1> QED BY <1>1, <1>2, <1>3, <1>4

(* Forming a squad seats everybody in it who is not loose. *)
LEMMA FormSquadSeats ==
  ASSUME GInv, lock = None, NEW t, NEW squad, NEW s, FormSquad(t, squad, s),
         UNCHANGED <<members, roomOf>>,
         NEW x \in Sessions, Cancelled(x)' <=> Cancelled(x)
  PROVE  /\ (\E e \in squad : e.id = x) /\ ~Loose(x)' =>
              PlaceOf(x)' = "seated" /\ SquadOf(x)' = nextRoom
         /\ (\A e \in squad : e.id # x) /\ ~Queued(x) /\ (Loose(x)' <=> Loose(x)) => Same(x)
<1>1. forming' = [room |-> nextRoom, left |-> squad] /\ queue' = {}
  BY DEF FormSquad
<1>2. ~Queued(x)' /\ (Forming(x)' <=> \E e \in squad : e.id = x) /\ ~Forming(x)
  BY <1>1, SquadIsFresh DEF Queued, Forming
<1>3. ASSUME \E e \in squad : e.id = x, ~Loose(x)'
      PROVE  PlaceOf(x)' = "seated" /\ SquadOf(x)' = nextRoom
  BY <1>1, <1>2, <1>3 DEF PlaceOf, SquadOf
<1>4. ASSUME \A e \in squad : e.id # x, ~Queued(x), Loose(x)' <=> Loose(x)
      PROVE  Same(x)
  <2>1. PlaceOf(x)' = PlaceOf(x)
    BY <1>2, <1>4 DEF PlaceOf
  <2>2. SquadOf(x)' = SquadOf(x)
    BY <1>2, <1>4 DEF SquadOf
  <2> QED BY <2>1, <2>2 DEF Same
<1> QED BY <1>3, <1>4

LEMMA StepCancelled ==
  ASSUME TypeOK, Working, NEW x,
         \/ \E s \in Sessions : Handle(s)
         \/ Authenticate \/ HandlerDone \/ Enqueue \/ Clock \/ TickTimeouts
         \/ \E t \in Threads, e \in Entry : AddSession(t, e)
         \/ \E t \in Threads : FormDone(t) \/ MemberCount(t) \/ EraseRoom(t)
         \/ UNCHANGED vars
  PROVE  Cancelled(x)' <=> Cancelled(x)
<1>1. UNCHANGED life /\ (At(x, "cancel")' <=> At(x, "cancel"))
  BY StepAt
<1>2. /\ Cancelled(x) <=> life[x] = "gone" /\ ~At(x, "cancel")
      /\ Cancelled(x)' <=> life'[x] = "gone" /\ ~At(x, "cancel")'
  BY DEF Cancelled, At
<1> QED BY <1>1, <1>2

(* Enqueue of a session that keeps, or never had, a promise. *)
LEMMA EnqueueMaps ==
  ASSUME GInv, Enqueue
  PROVE  Promise!Next(nextRoom) \/ UNCHANGED Promise!absvars
<1> DEFINE Mapped == Promise!Next(nextRoom) \/ UNCHANGED Promise!absvars
<1>0. TypeOK /\ Working /\ Held /\ Places /\ Leaving /\ Gone
  BY DEF GInv, SInv, FInv, TInv
<1>1. PICK s \in Sessions : s = arg["recv"]
  BY <1>0 DEF Enqueue, Working
<1>2. PICK e \in Entry : e = [id |-> s, nth |-> auths[s]]
  <2>1. auths[s] \in 1 .. MaxAuth
    BY <1>0, <1>1 DEF Enqueue, Working, TypeOK
  <2> QED BY <2>1 DEF Entry
<1>3. PICK q : q = queue \cup {e}
  OBVIOUS
<1>4. /\ pc["recv"] = "auth" /\ lock = None /\ e.id = s
      /\ UNCHANGED <<life, auths, members, roomOf>>
      /\ late' = IF Cancelled(s) THEN late \cup {s} ELSE late
      /\ \/ FormSquad("recv", q, s)
         \/ queue' = q /\ UNCHANGED forming
  BY <1>1, <1>2, <1>3 DEF Enqueue
<1>5. \A x \in Sessions : Cancelled(x)' <=> Cancelled(x)
  BY <1>0, StepCancelled
<1>6. \A x \in Sessions \ {s} : Loose(x)' <=> Loose(x)
  BY <1>4 DEF Loose
<1>7. Loose(s)' <=> Loose(s) \/ Cancelled(s)
  BY <1>4 DEF Loose
<1> DEFINE W == Promise!Waiting
<1>8. /\ W \in SUBSET Sessions /\ Cardinality(W) < MaxSquad
      /\ IsFiniteSet(W) /\ Cardinality(W) \in Nat
      /\ \A x \in Sessions : x \in W <=> Queued(x) /\ ~Loose(x)
  BY WaitingFit, WaitingAreQueued
<1>9. /\ nextRoom > 0
      /\ \A x \in Sessions : SquadOf(x) # nextRoom
  BY <1>4, SquadIsFresh
<1>10. ASSUME NEW x \in Sessions, FormSquad("recv", q, s), x # s
       PROVE  /\ x \in W => PlaceOf(x)' = "seated" /\ SquadOf(x)' = nextRoom
              /\ x \notin W => Same(x)
  <2>1. (\E f \in q : f.id = x) <=> Queued(x)
    BY <1>3, <1>4, <1>10 DEF Queued
  <2>2. CASE Loose(x)
    BY <1>6, <1>8, <1>10, <2>2, LooseSame
  <2>3. CASE ~Loose(x)
    BY <1>4, <1>5, <1>6, <1>8, <1>10, <2>1, <2>3, FormSquadSeats
  <2> QED BY <2>2, <2>3
<1>11. ASSUME queue' = q /\ UNCHANGED forming, NEW x \in Sessions, x # s PROVE Same(x)
  <2>1. (Queued(x)' <=> Queued(x)) /\ (Forming(x)' <=> Forming(x))
    BY <1>3, <1>4, <1>11 DEF Queued, Forming
  <2> QED BY <1>4, <1>5, <1>6, <1>11, <2>1 DEF Same, PlaceOf, SquadOf
<1>12. Loose(s)' => PlaceOf(s)' = "loose" /\ SquadOf(s)' = 0
  BY DEF PlaceOf, SquadOf
<1> HIDE DEF W
<1>13. CASE Loose(s)'
  <2>1. s \notin W
    <3>1. Cancelled(s) /\ ~Loose(s) => ~Queued(s)
      BY <1>0 DEF Gone, Cancelled, At
    <3> QED BY <1>7, <1>8, <1>13, <3>1
  <2>2. CASE queue' = q /\ UNCHANGED forming
    BY <1>11, <1>12, <1>13, <2>2, MapsToLoosen
  <2>3. CASE FormSquad("recv", q, s) /\ W = {}
    BY <1>10, <1>12, <1>13, <2>3, MapsToLoosen
  <2>4. CASE FormSquad("recv", q, s) /\ W # {}
    <3>1. \A x \in W : x # s
      BY <2>1
    <3> QED BY <1>8, <1>9, <1>10, <1>12, <1>13, <2>1, <2>4, <3>1, MapsToLoosenAndSeat DEF W
  <2> QED BY <1>4, <2>2, <2>3, <2>4
<1>14. CASE ~Loose(s)'
  <2>1. auths[s] <= 1 /\ ~Loose(s) /\ ~Cancelled(s)
    BY <1>0, <1>4, <1>7, <1>14 DEF Loose, TypeOK
  <2>2. Unplaced(s)
    BY <1>0, <1>1, <1>4, <2>1 DEF Places
  <2>3. PlaceOf(s) = "out"
    BY <1>0, <2>1, <2>2 DEF Places, Unplaced, PlaceOf, RoomIds
  <2>4. CASE queue' = q /\ UNCHANGED forming
    <3>1. Queued(s)' /\ ~Forming(s) /\ ~Forming(s)'
      BY <1>3, <1>4, <2>2, <2>4 DEF Unplaced, Queued, Forming
    <3>2. PlaceOf(s)' = "waiting" /\ SquadOf(s)' = SquadOf(s)
      BY <1>4, <1>14, <2>1, <3>1 DEF PlaceOf, SquadOf
    <3> QED BY <1>11, <2>3, <2>4, <3>2, MapsToJoin
  <2>5. CASE FormSquad("recv", q, s)
    <3>1. \E f \in q : f.id = s
      BY <1>3, <1>4
    <3>2. PlaceOf(s)' = "seated" /\ SquadOf(s)' = nextRoom
      BY <1>4, <1>5, <1>14, <2>5, <3>1, FormSquadSeats
    <3> DEFINE S == W \cup {s}
    <3>3. S \in SUBSET Sessions /\ S # {}
      BY <1>8
    <3>4. Cardinality(S) <= MaxSquad
      <4>1. Cardinality(S) = IF s \in W THEN Cardinality(W) ELSE Cardinality(W) + 1
        BY <1>8, FS_AddElement
      <4> QED BY <1>8, <4>1, MatchAssumption
    <3>5. /\ \A x \in S : PlaceOf(x)' = "seated" /\ SquadOf(x)' = nextRoom
          /\ \A x \in Sessions \ S : Same(x)
      BY <1>8, <1>10, <2>5, <3>2
    <3>6. Promise!Seat(S, nextRoom)
      <4> HIDE DEF S
      <4> QED BY <1>9, <3>3, <3>4, <3>5, MapsToSeat
    <3> QED BY <2>3, <3>6, MapsToJoinAndSeat DEF W
  <2> QED BY <1>4, <2>4, <2>5
<1> QED BY <1>13, <1>14

LEMMA StepMaps == GInv /\ [Next]_vars => [Promise!Next(nextRoom)]_(Promise!absvars)
<1> DEFINE Mapped == Promise!Next(nextRoom) \/ UNCHANGED Promise!absvars
<1> SUFFICES ASSUME GInv, [Next]_vars PROVE Mapped
  OBVIOUS
<1>0. TypeOK /\ Working /\ Held /\ Entries /\ Places /\ Leaving /\ Gone
  BY DEF GInv, SInv, FInv, TInv
<1>l. \A x \in Sessions : Loose(x) => Loose(x)'
  BY <1>0, StaysLoose
<1>1. ASSUME UNCHANGED <<queue, forming, members, roomOf>>,
             NEW x \in Sessions, Loose(x)' <=> Loose(x), Cancelled(x)' <=> Cancelled(x)
      PROVE  Same(x)
  <2>1. (Queued(x)' <=> Queued(x)) /\ (Forming(x)' <=> Forming(x))
    BY <1>1 DEF Queued, Forming
  <2> QED BY <1>1, <2>1 DEF Same, PlaceOf, SquadOf
<1>2. ASSUME NEW s \in Sessions, Accept(s) PROVE Mapped
  <2>1. /\ UNCHANGED <<queue, forming, members, roomOf, auths, late, pc, arg>>
        /\ \A x \in Sessions : life'[x] = "gone" <=> life[x] = "gone"
    BY <1>0, <1>2 DEF Accept, TypeOK
  <2>2. \A x \in Sessions : /\ Loose(x)' <=> Loose(x)
                            /\ Cancelled(x)' <=> Cancelled(x)
    BY <2>1 DEF Loose, Cancelled
  <2> QED BY <1>1, <2>1, <2>2, MapsToStutter
<1>3. ASSUME \/ \E s \in Sessions : Handle(s)
             \/ HandlerDone \/ Clock
             \/ \E t \in Threads : MemberCount(t) \/ EraseRoom(t)
             \/ UNCHANGED vars
      PROVE  Mapped
  <2>1. UNCHANGED <<queue, forming, members, roomOf, auths, late>>
    BY <1>3 DEF Handle, HandlerDone, Clock, MemberCount, EraseRoom, vars
  <2>2. \A x \in Sessions : Cancelled(x)' <=> Cancelled(x)
    BY <1>0, <1>3, StepCancelled
  <2>3. \A x \in Sessions : Loose(x)' <=> Loose(x)
    BY <2>1 DEF Loose
  <2> QED BY <1>1, <2>1, <2>2, <2>3, MapsToStutter
<1>4. ASSUME Authenticate PROVE Mapped
  <2>1. PICK s \in Sessions : s = arg["recv"]
    BY <1>0, <1>4 DEF Authenticate, Working
  <2>2. /\ UNCHANGED <<queue, forming, members, roomOf, late>>
        /\ \A x \in Sessions : x # s => auths'[x] = auths[x]
    BY <1>0, <1>4, <2>1 DEF Authenticate, TypeOK
  <2>3. \A x \in Sessions : Cancelled(x)' <=> Cancelled(x)
    BY <1>0, <1>4, StepCancelled
  <2>4. \A x \in Sessions : x # s => Same(x)
    BY <1>1, <2>2, <2>3 DEF Loose
  <2>5. CASE Loose(s)' <=> Loose(s)
    <3>1. Same(s)
      BY <1>1, <2>2, <2>3, <2>5
    <3> QED BY <2>4, <3>1, MapsToStutter
  <2>6. CASE Loose(s)' /\ ~Loose(s)
    <3>1. PlaceOf(s)' = "loose" /\ SquadOf(s)' = 0
      BY <2>6 DEF PlaceOf, SquadOf
    <3> QED BY <2>4, <3>1, MapsToLoosen
  <2> QED BY <1>l, <2>5, <2>6
<1>5. ASSUME NEW s \in Sessions, NEW t \in Threads, Unregister(t, s) PROVE Mapped
  <2>1. /\ life[s] = "live" /\ pc[t] = "idle"
        /\ UNCHANGED <<queue, forming, members, roomOf, auths, late>>
        /\ \A x \in Sessions : x # s => life'[x] = life[x]
        /\ \A u \in Threads : /\ pc'[u] = (IF u = t THEN "cancel" ELSE pc[u])
                              /\ arg'[u] = (IF u = t THEN s ELSE arg[u])
    BY <1>0, <1>5 DEF Unregister, Goto, TypeOK
  <2>2. ~Cancelled(s) /\ ~Cancelled(s)'
    BY <2>1 DEF Cancelled
  <2>3. \A x \in Sessions : x # s => (Cancelled(x)' <=> Cancelled(x))
    BY <2>1 DEF Cancelled
  <2>4. \A x \in Sessions : Loose(x)' <=> Loose(x)
    BY <2>1 DEF Loose
  <2> QED BY <1>1, <2>1, <2>2, <2>3, <2>4, MapsToStutter
<1>6. ASSUME TickTimeouts PROVE Mapped
  <2>1. /\ lock = None /\ FormSquad("tick", queue, None)
        /\ UNCHANGED <<members, roomOf, auths, late>>
    BY <1>6 DEF TickTimeouts
  <2>2. \A x \in Sessions : /\ Cancelled(x)' <=> Cancelled(x)
                            /\ Loose(x)' <=> Loose(x)
    BY <1>0, <1>6, <2>1, StepCancelled DEF Loose
  <2>3. ASSUME NEW x \in Sessions
        PROVE  /\ Queued(x) /\ ~Loose(x) => PlaceOf(x)' = "seated" /\ SquadOf(x)' = nextRoom
               /\ ~(Queued(x) /\ ~Loose(x)) => Same(x)
    <3>1. (\E f \in queue : f.id = x) <=> Queued(x)
      BY DEF Queued
    <3>2. CASE Loose(x)
      BY <2>2, <3>2, LooseSame
    <3>3. CASE ~Loose(x)
      BY <2>1, <2>2, <3>1, <3>3, FormSquadSeats
    <3> QED BY <3>2, <3>3
  <2>4. /\ nextRoom > 0
        /\ \A x \in Sessions : SquadOf(x) # nextRoom
    BY <2>1, SquadIsFresh
  <2> DEFINE W == Promise!Waiting
  <2>5. /\ W \in SUBSET Sessions /\ Cardinality(W) <= MaxSquad
        /\ \A x \in Sessions : x \in W <=> Queued(x) /\ ~Loose(x)
    BY WaitingFit, WaitingAreQueued, MatchAssumption
  <2> HIDE DEF W
  <2>6. CASE W = {}
    BY <2>3, <2>5, <2>6, MapsToStutter
  <2>7. CASE W # {}
    <3>1. Promise!Seat(W, nextRoom)
      BY <2>3, <2>4, <2>5, <2>7, MapsToSeat
    <3> QED BY <3>1 DEF W, Promise!Next
  <2> QED BY <2>6, <2>7
<1>7. ASSUME NEW t \in Threads, NEW e \in Entry, AddSession(t, e) PROVE Mapped
  <2>0. PICK s \in Sessions : s = e.id
    BY DEF Entry
  <2>1. /\ forming.room \in RoomIds /\ e \in forming.left
        /\ roomOf' = [roomOf EXCEPT ![s] = forming.room]
        /\ members' = [members EXCEPT ![forming.room] = @ \cup {s}]
        /\ forming' = [room |-> forming.room, left |-> forming.left \ {e}]
        /\ UNCHANGED <<queue, auths, late>>
    BY <1>0, <1>7, <2>0 DEF AddSession, Working
  <2>2. \A x \in Sessions : /\ Cancelled(x)' <=> Cancelled(x)
                            /\ Loose(x)' <=> Loose(x)
    BY <1>0, <1>7, <2>1, StepCancelled DEF Loose
  <2>3. \A x \in Sessions : /\ Queued(x)' <=> Queued(x)
                            /\ x # s => (Forming(x)' <=> Forming(x))
    BY <2>0, <2>1 DEF Queued, Forming
  <2>4. Forming(s)
    BY <2>0, <2>1 DEF Forming
  <2>5. /\ \A r \in RoomIds, x \in Sessions : x # s => (x \in members'[r] <=> x \in members[r])
        /\ s \in members'[forming.room]
        /\ roomOf'[s] = forming.room
        /\ \A x \in Sessions : x # s => roomOf'[x] = roomOf[x]
    BY <1>0, <2>1 DEF TypeOK
  <2>6. forming'.room = forming.room
    BY <2>1
  <2>7. \A x \in Sessions : x # s => Same(x)
    BY <2>2, <2>3, <2>5, <2>6 DEF Same, PlaceOf, SquadOf
  <2>8. Same(s)
    <3>1. CASE Loose(s)
      BY <2>2, <3>1, LooseSame
    <3>2. CASE ~Loose(s)
      BY <2>1, <2>2, <2>3, <2>4, <2>5, <2>6, <3>2 DEF Same, PlaceOf, SquadOf
    <3> QED BY <3>1, <3>2
  <2> QED BY <2>7, <2>8, MapsToStutter
<1>8. ASSUME NEW t \in Threads, FormDone(t) PROVE Mapped
  <2>1. UNCHANGED <<queue, members, roomOf, auths, late>>
        /\ \A x \in Sessions : (Queued(x)' <=> Queued(x)) /\ ~Forming(x) /\ ~Forming(x)'
    BY <1>8 DEF FormDone, NotForming, Queued, Forming
  <2>2. \A x \in Sessions : /\ Cancelled(x)' <=> Cancelled(x)
                            /\ Loose(x)' <=> Loose(x)
    BY <1>0, <1>8, <2>1, StepCancelled DEF Loose
  <2>3. \A x \in Sessions : Same(x)
    BY <2>1, <2>2 DEF Same, PlaceOf, SquadOf
  <2> QED BY <2>3, MapsToStutter
<1>9. ASSUME NEW t \in Threads, Cancel(t) PROVE Mapped
  <2>0. PICK s \in Sessions : s = arg[t]
    BY <1>0, <1>9 DEF Cancel, Working
  <2>1. /\ pc[t] = "cancel" /\ forming = NotForming /\ queue' = queue \ First(s)
        /\ life[s] = "gone" /\ arg' = arg
        /\ \A u \in Threads : pc'[u] = IF u = t THEN "leave" ELSE pc[u]
        /\ UNCHANGED <<life, forming, members, roomOf, auths, late>>
    BY <1>0, <1>9, <2>0 DEF Cancel, Goto, Held, TypeOK, Leaving
  <2>2. \A u \in Threads : pc[u] = "cancel" /\ arg[u] = s => u = t
    BY <1>0, <2>0, <2>1 DEF Leaving
  <2>3. ~Cancelled(s) /\ Cancelled(s)'
    BY <2>0, <2>1, <2>2 DEF Cancelled
  <2>4. \A x \in Sessions : x # s => (Cancelled(x)' <=> Cancelled(x))
    BY <2>0, <2>1 DEF Cancelled
  <2>5. \A x \in Sessions : /\ x # s => (Queued(x)' <=> Queued(x))
                            /\ ~Forming(x) /\ ~Forming(x)'
                            /\ Loose(x)' <=> Loose(x)
    BY <2>1 DEF First, Queued, Forming, NotForming, Loose
  <2>6. SquadOf(s)' = SquadOf(s) /\ \A x \in Sessions \ {s} : Same(x)
    BY <2>1, <2>4, <2>5 DEF Same, PlaceOf, SquadOf
  <2>7. CASE Loose(s)
    BY <2>5, <2>6, <2>7, LooseSame, MapsToStutter
  <2>8. CASE ~Loose(s)
    <3>1. ~Queued(s)'
      <4>1. Gone' /\ ~At(s, "cancel")' /\ life'[s] = "gone"
        BY <2>1, <2>3, StepGone DEF Cancelled, At
      <4> QED BY <2>5, <2>8, <4>1 DEF Gone
    <3>2. PlaceOf(s)' = IF \E r \in RoomIds : s \in members[r] THEN "seated" ELSE "left"
      BY <2>1, <2>3, <2>5, <2>8, <3>1 DEF PlaceOf
    <3>3. auths[s] <= 1
      BY <1>0, <2>8 DEF Loose, TypeOK
    <3>4. CASE \E r \in RoomIds : s \in members[r]
      <4>1. ~Queued(s)
        BY <1>0, <3>3, <3>4 DEF Places, RoomIds
      <4>2. Same(s)
        BY <2>5, <2>6, <2>8, <3>2, <3>4, <4>1 DEF Same, PlaceOf
      <4> QED BY <2>6, <4>2, MapsToStutter
    <3>5. CASE ~\E r \in RoomIds : s \in members[r]
      <4>1. PlaceOf(s) \notin {"left", "loose"} /\ PlaceOf(s)' = "left"
        BY <2>3, <2>5, <2>8, <3>2, <3>5 DEF PlaceOf
      <4> QED BY <2>6, <4>1, MapsToLeave
    <3> QED BY <3>4, <3>5
  <2> QED BY <2>7, <2>8
<1>10. ASSUME NEW t \in Threads, LeaveRoom(t) PROVE Mapped
  <2>0. PICK s \in Sessions : s = arg[t]
    BY <1>0, <1>10 DEF LeaveRoom, Working
  <2>1. /\ pc[t] = "leave" /\ life[s] = "gone"
        /\ UNCHANGED <<life, queue, forming, roomOf, auths, late>>
        /\ \A u \in Threads : u # t => pc'[u] = pc[u] /\ arg'[u] = arg[u]
        /\ pc'[t] \in {"idle", "count"}
    BY <1>0, <1>10, <2>0 DEF LeaveRoom, Goto, TypeOK, Leaving
  <2>2. \A x \in Sessions : Cancelled(x)' <=> Cancelled(x)
    BY <2>1 DEF Cancelled
  <2>3. \A x \in Sessions : /\ Queued(x)' <=> Queued(x)
                            /\ Forming(x)' <=> Forming(x)
                            /\ Loose(x)' <=> Loose(x)
    BY <2>1 DEF Queued, Forming, Loose
  <2>4. \A x \in Sessions, r \in RoomIds : x # s => (x \in members'[r] <=> x \in members[r])
    BY <1>0, <1>10, <2>0 DEF LeaveRoom, TypeOK
  <2>5. SquadOf(s)' = SquadOf(s) /\ \A x \in Sessions \ {s} : Same(x)
    BY <2>1, <2>2, <2>3, <2>4 DEF Same, PlaceOf, SquadOf
  <2>6. CASE Loose(s)
    BY <2>3, <2>5, <2>6, LooseSame, MapsToStutter
  <2>7. CASE ~Loose(s)
    <3>1. Cancelled(s)
      BY <1>0, <2>0, <2>1 DEF Cancelled, Leaving
    <3>2. ~Queued(s) /\ ~Forming(s)
      BY <1>0, <2>7, <3>1 DEF Gone, Cancelled, At
    <3>3. auths[s] <= 1
      BY <1>0, <2>7 DEF Loose, TypeOK
    <3>4. \A r \in RoomIds : s \notin members'[r]
      <4>1. \A r \in RoomIds : s \in members[r] => r = roomOf[s] /\ r # 0
        BY <1>0, <3>3 DEF Places, RoomIds
      <4>2. CASE roomOf[s] = 0
        BY <1>10, <2>0, <4>1, <4>2 DEF LeaveRoom
      <4>3. CASE roomOf[s] # 0
        BY <1>0, <1>10, <2>0, <4>1, <4>3 DEF LeaveRoom, TypeOK
      <4> QED BY <4>2, <4>3
    <3>5. PlaceOf(s)' = "left" /\ PlaceOf(s) # "loose"
      BY <2>2, <2>3, <2>7, <3>1, <3>2, <3>4 DEF PlaceOf
    <3>6. CASE PlaceOf(s) = "left"
      BY <2>5, <3>5, <3>6, MapsToStutter DEF Same
    <3>7. CASE PlaceOf(s) # "left"
      BY <2>5, <3>5, <3>7, MapsToLeave
    <3> QED BY <3>6, <3>7
  <2> QED BY <2>6, <2>7
<1>11. ASSUME Enqueue PROVE Mapped
  BY <1>11, EnqueueMaps
<1> HIDE DEF Mapped
<1> QED BY <1>2, <1>3, <1>4, <1>5, <1>6, <1>7, <1>8, <1>9, <1>10, <1>11 DEF Next, Continue

(* Matchmaking with its lock, its three threads, its window and its rooms  *)
(* is Squads to the players: who waits is seated at once with everyone     *)
(* else who waits, in a squad nobody was in before, and stays until he     *)
(* leaves; and whoever logs in twice, or is queued after his Cancel, comes *)
(* loose (Matchmaker.cpp, CreateRoomForSquad, UnregisterSession).          *)
THEOREM MatchmakingImplementsSquads == Spec => ImplementsSquads
<1>1. Init => GInv
  BY InitSInv, InitGone DEF GInv
<1>2. Init => Promise!Init
  <2> SUFFICES ASSUME Init PROVE Promise!Init
    OBVIOUS
  <2>1. \A s \in Sessions : PlaceOf(s) = "out" /\ SquadOf(s) = 0
    BY DEF Init, PlaceOf, SquadOf, Loose, Cancelled, Queued, Forming, NotForming
  <2> QED BY <2>1 DEF Promise!Init
<1>3. GInv /\ [Next]_vars => [Promise!Next(nextRoom)]_(Promise!absvars)
  BY StepMaps
<1> QED BY <1>1, <1>2, <1>3, GInvStep, PTL DEF Spec, ImplementsSquads
=============================================================================
