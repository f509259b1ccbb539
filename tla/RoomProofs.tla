------------------------------ MODULE RoomProofs ------------------------------
(***************************************************************************)
(* Theorems about Room, for any squad, maps of world state, enemies and    *)
(* number of resyncs.  Three arguments: the announcement that is under way *)
(* while the squad is moved in is the only reason why a member may not     *)
(* show another; whatever makes the last visible member hide or leave      *)
(* starts a reset, which nobody visible can interrupt without a later one  *)
(* being started, a session that has left least of all; and a session that *)
(* leaves is on its way to the release of its enemies, which only a handler *)
(* that "send" has overtaken can come after.                               *)
(***************************************************************************)
EXTENDS Room, TLAPS

Forming == {"form", "announce", "tellNew", "tellOthers"}

(* Everybody of the squad is still to join, a member, or gone.             *)
Squad ==
  /\ joining \cup members \cup left = Players
  /\ joining \cap members = {} /\ members \cap left = {} /\ joining \cap left = {}
  /\ former = None => joining = {}
  /\ \A s \in joining : visible[s]

(* What a thread has, by where it is. *)
Places ==
  /\ \A t \in Threads :
       /\ pc[t] \notin {"idle", "form"} => who[t] \in Players
       /\ pc[t] = "form" => t = former
       /\ pc[t] = "hide" => who[t] \notin seen /\ ~Unregistering(t)
       /\ pc[t] \in {"hide", "look", "leave", "sayLeft"} => t # "tick"
       /\ pc[t] = "look" /\ Unregistering(t) => who[t] \in left
       /\ pc[t] \in {"leave", "sayLeft"} => who[t] \in left
       /\ cleared[t] > 0 => pc[t] = "look" /\ to[t] = {}
  /\ former # None => pc[former] \in Forming /\ subjects[former] = {}

(* "send" does not look for the session whose handler it has overtaken.    *)
NotLookedFor == pc["send"] = "look" /\ handled \in left => handled \notin to["send"]

(* The announcement of the newcomer that has not got to s and x yet. *)
Untold(f, s, x) ==
  CASE pc[f] = "announce"   -> who[f] \in {s, x}
    [] pc[f] = "tellNew"    -> (s = who[f] /\ x \in to[f]) \/ x = who[f]
    [] pc[f] = "tellOthers" -> x = who[f] /\ s \in to[f]
    [] OTHER                -> FALSE

Told ==
  \A s, x \in members :
    x # s /\ x \in seen => x \in shown[s] \/ (former # None /\ Untold(former, s, x))

(* A reset that will clear m, if nobody comes back. *)
WillClear(t, m) ==
  \/ pc[t] = "hide"
  \/ /\ pc[t] = "look" /\ \A x \in to[t] : ~visible[x]
     /\ \E i \in cleared[t] + 1 .. Len(ClearOrder) : ClearOrder[i] = m

Dark == \A s \in members : ~visible[s]

Swept == Dark => \A m \in inSight : m \notin world \/ \E t \in Threads : WillClear(t, m)

IInv == TypeOK /\ Squad /\ Places /\ NotLookedFor /\ Told /\ Swept /\ OwnerPresent
-----------------------------------------------------------------------------
Points == {"idle", "form", "announce", "tellNew", "tellOthers", "move",
           "hide", "look", "leave", "sayLeft"}

ThreadTypes ==
  /\ handled \in Players \cup {None}
  /\ pc \in [Threads -> Points] /\ who \in [Threads -> Players \cup {None}]
  /\ subjects \in [Threads -> SUBSET Players] /\ to \in [Threads -> SUBSET Players]
  /\ cleared \in [Threads -> 0 .. Len(ClearOrder)]

LEMMA Parts ==
  ASSUME IInv
  PROVE  /\ TypeOK /\ Squad /\ Places /\ NotLookedFor /\ Told /\ Swept /\ OwnerPresent /\ ThreadTypes
         /\ None \notin Players \cup Threads /\ Len(ClearOrder) \in Nat
         /\ \A t \in Threads : cleared[t] \in Nat
         /\ \A m \in Claimable : \E i \in 1 .. Len(ClearOrder) : ClearOrder[i] = m
<1>1. Len(ClearOrder) \in Nat /\ DOMAIN ClearOrder = 1 .. Len(ClearOrder)
  BY RoomAssumption
<1>2. \A m \in Claimable : \E i \in 1 .. Len(ClearOrder) : ClearOrder[i] = m
  BY <1>1 DEF Claimable
<1>3. ThreadTypes
  BY DEF IInv, TypeOK, ThreadTypes, Points
<1>4. \A t \in Threads : cleared[t] \in Nat
  BY <1>1, <1>3 DEF ThreadTypes
<1> QED BY <1>1, <1>2, <1>3, <1>4, RoomAssumption DEF IInv

LEMMA InitIInv == Init => IInv
<1> SUFFICES ASSUME Init PROVE IInv
  OBVIOUS
<1>0. None \notin Players /\ Len(ClearOrder) \in Nat /\ 0 \in 0 .. Len(ClearOrder)
  BY RoomAssumption
<1>1. TypeOK
  BY <1>0, RoomAssumption DEF Init, TypeOK, Threads
<1>2. Squad
  <2>1. \A s \in joining : visible[s]
    BY Zenon DEF Init
  <2>2. former # None
    BY RoomAssumption DEF Init, Threads
  <2> QED BY <2>1, <2>2 DEF Init, Squad
<1>3. Places
  BY <1>0 DEF Init, Places, Threads, Forming
<1>4. Told
  BY DEF Init, Told
<1>5. Swept
  BY DEF Init, Swept
<1>6. OwnerPresent /\ NotLookedFor
  BY DEF Init, OwnerPresent, NotLookedFor, Threads
<1> QED BY <1>1, <1>2, <1>3, <1>4, <1>5, <1>6 DEF IInv

(* Thread t is the only one that has moved. *)
Alone(t) ==
  \A u \in Threads :
    u # t => pc'[u] = pc[u] /\ who'[u] = who[u] /\ to'[u] = to[u] /\ cleared'[u] = cleared[u]

(* What Goto does. *)
At(t, where, s, snapshot) ==
  /\ Alone(t) /\ cleared' = cleared /\ handled' = handled
  /\ pc'[t] = where /\ who'[t] = s /\ to'[t] = snapshot
  /\ pc' \in [Threads -> Points] /\ who' \in [Threads -> Players \cup {None}]
  /\ to' \in [Threads -> SUBSET Players]

LEMMA Moves ==
  ASSUME IInv, NEW t \in Threads, NEW where \in Points, NEW s \in Players \cup {None},
         NEW snapshot \in SUBSET Players, Goto(t, where, s, snapshot)
  PROVE  At(t, where, s, snapshot)
BY Parts DEF Goto, At, Alone, ThreadTypes

(* What Served does. *)
LEMMA Serves ==
  ASSUME IInv, NEW t \in Threads, NEW other \in Players, Served(t, other)
  PROVE  /\ Alone(t) /\ UNCHANGED <<handled, pc, who, subjects, cleared>>
         /\ to'[t] = to[t] \ {other} /\ to' \in [Threads -> SUBSET Players]
BY Parts DEF Served, Alone, ThreadTypes

(* What a thread can rely on where it stands. *)
LEMMA Standing ==
  ASSUME IInv, NEW t \in Threads
  PROVE  /\ pc[t] \notin {"idle", "form"} => who[t] \in Players
         /\ pc[t] # "look" \/ to[t] # {} => cleared[t] = 0
         /\ pc[t] \in {"hide", "look", "leave", "sayLeft"} => t # "tick"
         /\ members \in SUBSET Players /\ (t = former => former # None /\ subjects[t] = {})
<1>1. cleared[t] \in Nat /\ t # None
  BY Parts
<1>2. cleared[t] > 0 => pc[t] = "look" /\ to[t] = {}
  BY Parts DEF Places
<1>3. pc[t] # "look" \/ to[t] # {} => cleared[t] = 0
  BY <1>1, <1>2
<1>4. members \in SUBSET Players
  BY Parts DEF TypeOK
<1> QED BY <1>1, <1>3, <1>4, Parts DEF Places

(* Where the thread may go without harm to Places. *)
LEMMA PlacesGo ==
  ASSUME IInv, NEW t \in Threads, NEW where \in Points, NEW s \in Players \cup {None},
         NEW snapshot \in SUBSET Players, At(t, where, s, snapshot),
         cleared[t] = 0, former' = former, left \subseteq left', seen' \subseteq seen,
         \A u \in Threads : u # t => subjects'[u] = subjects[u],
         where \notin {"idle", "form"} => s \in Players,
         where = "form" => t = former,
         where = "hide" => s \notin seen' /\ ~Unregistering(t),
         where \in {"hide", "look", "leave", "sayLeft"} => t # "tick",
         where = "look" /\ Unregistering(t) => s \in left',
         where \in {"leave", "sayLeft"} => s \in left',
         t = former => where \in Forming /\ subjects'[t] = {},
         t = "send" /\ where = "look" => handled \notin left' \cap snapshot,
         handled \in left' => handled \in left \/ t = "send"
  PROVE  Places' /\ NotLookedFor'
<1>1. ASSUME NEW u \in Threads
      PROVE  /\ pc'[u] \notin {"idle", "form"} => who'[u] \in Players
             /\ pc'[u] = "form" => u = former'
             /\ pc'[u] = "hide" => who'[u] \notin seen' /\ ~Unregistering(u)'
             /\ pc'[u] \in {"hide", "look", "leave", "sayLeft"} => u # "tick"
             /\ pc'[u] = "look" /\ Unregistering(u)' => who'[u] \in left'
             /\ pc'[u] \in {"leave", "sayLeft"} => who'[u] \in left'
             /\ cleared'[u] > 0 => pc'[u] = "look" /\ to'[u] = {}
  <2>0. Unregistering(u)' = Unregistering(u)
    BY DEF At, Unregistering
  <2>1. CASE u = t
    BY <2>0, <2>1, Parts DEF At
  <2>2. CASE u # t
    BY <2>0, <2>2, Parts DEF At, Alone, Places
  <2> QED BY <2>1, <2>2
<1>2. former' # None => pc'[former'] \in Forming /\ subjects'[former'] = {}
  <2>1. former \in Threads \cup {None}
    BY Parts DEF TypeOK, Threads
  <2> QED BY <2>1, Parts DEF At, Alone, Places
<1>3. NotLookedFor'
  BY Parts DEF At, Alone, NotLookedFor, Threads
<1> QED BY <1>1, <1>2, <1>3 DEF Places

(* A thread that works on its snapshot: its place does not mind. *)
LEMMA PlacesServed ==
  ASSUME IInv, NEW t \in Threads, NEW other \in to[t], Served(t, other),
         UNCHANGED <<former, left, seen>>
  PROVE  Places' /\ NotLookedFor'
<1>1. other \in Players /\ UNCHANGED <<handled, pc, who, subjects, cleared>> /\ \A u \in Threads : u # t => to'[u] = to[u]
  BY Parts, Serves DEF ThreadTypes, Alone
<1>2. ~(cleared[t] > 0) /\ to'[t] \subseteq to[t]
  BY Parts, <1>1, Serves DEF Places
<1>3. NotLookedFor'
  BY <1>1, <1>2, Parts DEF NotLookedFor, Threads
<1>4. \A u \in Threads : Unregistering(u)' = Unregistering(u)
  BY <1>1 DEF Unregistering
<1> QED BY <1>1, <1>2, <1>3, <1>4, Parts DEF Places

(* Nobody's view gets smaller, and the announcement goes on as it was. *)
LEMMA ToldKept ==
  ASSUME IInv, former' = former, members' \subseteq members, seen' \subseteq seen,
         \A s \in Players : shown[s] \subseteq shown'[s],
         former # None => /\ pc'[former] = pc[former] /\ who'[former] = who[former]
                         /\ to'[former] = to[former]
  PROVE  Told'
<1> SUFFICES ASSUME NEW s \in members', NEW x \in members', x # s, x \in seen'
             PROVE  x \in shown'[s] \/ (former # None /\ Untold(former, s, x)')
  BY DEF Told
<1>1. s \in members /\ x \in members /\ x \in seen /\ s \in Players
  BY Parts DEF TypeOK
<1>2. x \in shown[s] \/ (former # None /\ Untold(former, s, x))
  BY <1>1, Parts DEF Told
<1>3. CASE x \in shown[s]
  BY <1>1, <1>3
<1>4. CASE former # None /\ Untold(former, s, x)
  <2>1. Untold(former, s, x)'
    BY <1>4 DEF Untold
  <2> QED BY <1>4, <2>1
<1> QED BY <1>2, <1>3, <1>4

(* No reset is given up, and nothing new is claimed in sight. *)
LEMMA SweptKept ==
  ASSUME IInv, Dark' => Dark, inSight' \subseteq inSight,
         \A m \in inSight' : m \notin world => m \notin world',
         \A t \in Threads, m \in inSight' :
           WillClear(t, m) => WillClear(t, m)' \/ m \notin world'
  PROVE  Swept'
<1> SUFFICES ASSUME Dark', NEW m \in inSight'
             PROVE  m \notin world' \/ \E t \in Threads : WillClear(t, m)'
  BY DEF Swept
<1>1. m \notin world \/ \E t \in Threads : WillClear(t, m)
  BY Parts DEF Swept
<1> QED BY <1>1

(* OwnerPresent, for an enemy that somebody owns. *)
LEMMA DrivenBy ==
  ASSUME IInv, NEW e \in Enemies \ strays, NEW o \in Players, owner[e] = o
  PROVE  o \in members \/ \E t \in Threads : Releases(t, o)
BY Parts DEF OwnerPresent

LEMMA DrivenWhen ==
  ASSUME TypeOK',
         \A e \in Enemies \ strays', o \in Players :
           owner'[e] = o => o \in members' \/ \E t \in Threads : Releases(t, o)'
  PROVE  OwnerPresent'
<1> SUFFICES ASSUME NEW e \in Enemies \ strays'
             PROVE  owner'[e] \in members' \cup {None} \/ \E t \in Threads : Releases(t, owner[e])'
  BY DEF OwnerPresent
<1>1. CASE owner'[e] \in Players
  <2>1. PICK o \in Players : o = owner'[e]
    BY <1>1
  <2>2. o \in members' \/ \E t \in Threads : Releases(t, o)'
    BY <2>1
  <2>3. \A t \in Threads : Releases(t, o)' => Releases(t, owner[e])'
    BY <2>1 DEF Releases
  <2> QED BY <2>1, <2>2, <2>3
<1>2. owner'[e] \in Players \cup {None}
  BY DEF TypeOK
<1> QED BY <1>1, <1>2

LEMMA DrivenKept ==
  ASSUME IInv, owner' = owner, strays' = strays, members \subseteq members',
         \A t \in Threads, s \in Players : Releases(t, s) => Releases(t, s)'
  PROVE  OwnerPresent'
<1> SUFFICES ASSUME NEW e \in Enemies \ strays
             PROVE  owner[e] \in members' \cup {None} \/ \E t \in Threads : Releases(t, owner[e])'
  BY DEF OwnerPresent, Releases, Unregistering
<1>1. owner[e] \in members \cup {None} \/ \E t \in Threads : Releases(t, owner[e])
  BY Parts DEF OwnerPresent
<1>2. owner[e] \in Players \cup {None}
  BY Parts DEF TypeOK
<1> QED BY <1>1, <1>2

(* A thread that is not part of a reset or a departure goes somewhere.     *)
LEMMA ElsewhereKept ==
  ASSUME IInv, NEW t \in Threads, pc[t] \notin {"hide", "look", "leave", "sayLeft"}, Alone(t),
         UNCHANGED <<members, visible, world, owner, inSight, strays, handled>>
  PROVE  Swept' /\ OwnerPresent'
<1>1. \A u \in Threads, m \in inSight : WillClear(u, m) => WillClear(u, m)'
  BY DEF WillClear, Alone
<1>2. \A u \in Threads, s \in Players : Releases(u, s) => Releases(u, s)'
  BY DEF Releases, Unregistering, Alone
<1>3. Dark' => Dark
  BY DEF Dark
<1>4. Swept'
  BY <1>1, <1>3, SweptKept
<1>5. OwnerPresent'
  BY <1>2, DrivenKept
<1> QED BY <1>4, <1>5

-----------------------------------------------------------------------------
(* The roster.                                                             *)
LEMMA AddSessionIInv ==
  ASSUME IInv, NEW t \in Threads, NEW s \in Players, AddSession(t, s)
  PROVE  IInv'
<1>0. /\ pc[t] = "form" /\ s \in joining /\ joining' = joining \ {s} /\ members' = members \cup {s}
      /\ Goto(t, "announce", s, {})
      /\ UNCHANGED <<former, resyncs, shown, subjects>> /\ UNCHANGED worldVars /\ UNCHANGED history
  BY DEF AddSession
<1>1. t = former /\ former # None /\ cleared[t] = 0
  BY <1>0, Parts DEF Places
<1>2. At(t, "announce", s, {})
  BY <1>0, Moves DEF Points
<1>3. UNCHANGED <<visible, left, world, owner, inSight, strays, seen>>
  BY <1>0 DEF worldVars, history
<1>4. TypeOK'
  BY <1>0, <1>2, <1>3, Parts DEF TypeOK, At, Points
<1>5. Squad'
  BY <1>0, <1>1, <1>3, Parts DEF Squad
<1>6. Places' /\ NotLookedFor'
  <2>1. subjects[t] = {}
    BY <1>1, Parts DEF Places
  <2> QED BY <1>0, <1>1, <1>2, <1>3, <2>1, PlacesGo DEF Points, Forming
<1>7. Told'
  <2>1. ASSUME NEW a \in members', NEW x \in members', x # a, x \in seen', s \notin {a, x}
        PROVE  x \in shown'[a]
    <3>1. a \in members /\ x \in members /\ x \in seen
      BY <1>0, <1>3, <2>1
    <3>2. ~Untold(former, a, x)
      BY <1>0, <1>1 DEF Untold
    <3> QED BY <1>0, <2>1, <3>1, <3>2, Parts DEF Told
  <2>2. \A a, x : s \in {a, x} => Untold(former, a, x)'
    BY <1>0, <1>1, <1>2 DEF Untold, At
  <2> QED BY <1>0, <1>1, <2>1, <2>2 DEF Told
<1>8. Swept'
  <2>1. visible'[s]
    BY <1>0, <1>3, Parts, Zenon DEF Squad
  <2>2. ~Dark'
    BY <1>0, <2>1, Zenon DEF Dark
  <2> QED BY <2>2 DEF Swept
<1>9. OwnerPresent'
  <2>1. \A u \in Threads, x \in Players : Releases(u, x) => Releases(u, x)'
    BY <1>0, <1>2 DEF Releases, Unregistering, At, Alone
  <2> QED BY <1>0, <1>3, <2>1, DrivenKept
<1> QED BY <1>4, <1>5, <1>6, <1>7, <1>8, <1>9 DEF IInv

LEMMA FormDoneIInv ==
  ASSUME IInv, NEW t \in Threads, FormDone(t)
  PROVE  IInv'
<1>0. /\ pc[t] = "form" /\ joining = {} /\ former' = None /\ Goto(t, "idle", None, {})
      /\ UNCHANGED <<joining, members, resyncs, shown, subjects>>
      /\ UNCHANGED worldVars /\ UNCHANGED history
  BY DEF FormDone, Finish
<1>1. t = former /\ former # None /\ cleared[t] = 0
  BY <1>0, Parts DEF Places
<1>2. At(t, "idle", None, {})
  BY <1>0, Moves DEF Points
<1>3. UNCHANGED <<visible, left, world, owner, inSight, strays, seen>>
  BY <1>0 DEF worldVars, history
<1>4. TypeOK'
  BY <1>0, <1>2, <1>3, Parts DEF TypeOK, At, Points
<1>5. Squad'
  BY <1>0, <1>3, Parts DEF Squad
<1>6. Places' /\ NotLookedFor'
  <2>1. \A u \in Threads : Unregistering(u)' = Unregistering(u)
    BY <1>2 DEF At, Unregistering
  <2>2. Places'
    BY <1>0, <1>1, <1>2, <1>3, <2>1, Parts DEF Places, At, Alone
  <2>3. NotLookedFor'
    BY <1>0, <1>2, <1>3, Parts DEF NotLookedFor, At, Alone, Threads
  <2> QED BY <2>2, <2>3
<1>7. Told'
  BY <1>0, <1>1, <1>3, Parts DEF Told, Untold
<1>8. Swept' /\ OwnerPresent'
  BY <1>0, <1>2, <1>3, ElsewhereKept DEF At
<1> QED BY <1>4, <1>5, <1>6, <1>7, <1>8 DEF IInv

LEMMA AnnounceIInv ==
  ASSUME IInv, NEW t \in Threads, Announce(t)
  PROVE  IInv'
<1>p. PICK s : s = who[t]
  OBVIOUS
<1>0. /\ pc[t] = "announce" /\ Goto(t, "tellNew", s, members \ {s})
      /\ UNCHANGED rosterVars /\ UNCHANGED subjects /\ UNCHANGED worldVars /\ UNCHANGED history
  BY <1>p DEF Announce, Others
<1>1. s \in Players /\ cleared[t] = 0 /\ members \in SUBSET Players
  BY <1>0, <1>p, Standing
<1>2. At(t, "tellNew", s, members \ {s})
  BY <1>0, <1>1, Moves DEF Points
<1>3. UNCHANGED <<joining, former, members, resyncs, shown, subjects,
                  visible, left, world, owner, inSight, strays, seen>>
  BY <1>0 DEF rosterVars, worldVars, history
<1>4. TypeOK'
  BY <1>2, <1>3, Parts DEF TypeOK, At, Points
<1>5. Squad'
  BY <1>3, Parts DEF Squad
<1>6. Places' /\ NotLookedFor'
  <2>1. t = former => subjects[t] = {}
    BY Standing
  <2> QED BY <1>1, <1>2, <1>3, <2>1, PlacesGo DEF Points, Forming
<1>7. Told'
  <2>1. CASE t # former
    BY <1>2, <1>3, <2>1, Parts, ToldKept DEF At, Alone, TypeOK, Threads
  <2>2. CASE t = former
    <3>1. ASSUME NEW a \in members, NEW x \in members, x # a, x \in seen, x \notin shown[a]
          PROVE  Untold(former, a, x)'
      <4>1. s \in {a, x}
        BY <1>0, <1>p, <2>2, <3>1, Parts DEF Told, Untold
      <4> QED BY <1>2, <1>3, <2>2, <3>1, <4>1 DEF Untold, At
    <3>2. former # None
      BY <2>2, Parts
    <3> QED BY <1>3, <3>1, <3>2 DEF Told
  <2> QED BY <2>1, <2>2
<1>8. Swept' /\ OwnerPresent'
  BY <1>0, <1>2, <1>3, ElsewhereKept DEF At
<1> QED BY <1>4, <1>5, <1>6, <1>7, <1>8 DEF IInv

LEMMA TellNewIInv ==
  ASSUME IInv, NEW t \in Threads, NEW other \in Players, TellNew(t, other)
  PROVE  IInv'
<1>p. PICK s : s = who[t]
  OBVIOUS
<1>0. /\ pc[t] = "tellNew" /\ other \in to[t]
      /\ shown' = [shown EXCEPT ![s] = shown[s] \cup {other}] /\ Served(t, other)
      /\ UNCHANGED <<joining, former, members, resyncs>> /\ UNCHANGED worldVars /\ UNCHANGED history
  BY <1>p DEF TellNew
<1>1. s \in Players
  BY <1>0, <1>p, Standing
<1>2. /\ Alone(t) /\ UNCHANGED <<handled, pc, who, subjects, cleared>>
      /\ to'[t] = to[t] \ {other} /\ to' \in [Threads -> SUBSET Players]
  BY <1>0, Serves
<1>3. UNCHANGED <<visible, left, world, owner, inSight, strays, seen>>
  BY <1>0 DEF worldVars, history
<1>4. /\ shown' \in [Players -> SUBSET Players] /\ shown'[s] = shown[s] \cup {other}
      /\ \A a \in Players : shown[a] \subseteq shown'[a]
  BY <1>0, <1>1, Parts DEF TypeOK
<1>5. TypeOK'
  BY <1>0, <1>2, <1>3, <1>4, Parts DEF TypeOK
<1>6. Squad'
  BY <1>0, <1>3, Parts DEF Squad
<1>7. Places' /\ NotLookedFor'
  BY <1>0, <1>3, PlacesServed
<1>8. Told'
  <2>1. CASE t # former
    BY <1>0, <1>2, <1>3, <1>4, <2>1, Parts, ToldKept DEF Alone, TypeOK, Threads
  <2>2. CASE t = former
    <3>1. former # None
      BY <2>2, Parts
    <3>2. ASSUME NEW a \in members, NEW x \in members, x # a, x \in seen, x \notin shown'[a]
          PROVE  Untold(former, a, x)'
      <4>1. x \notin shown[a] /\ a \in Players /\ ~(a = s /\ x = other)
        BY <1>4, <3>2, Standing
      <4>2. Untold(former, a, x)
        BY <3>1, <3>2, <4>1, Parts DEF Told
      <4>3. (a = s /\ x \in to[t]) \/ x = s
        BY <1>0, <1>p, <2>2, <4>2 DEF Untold
      <4>4. (a = s /\ x \in to'[t]) \/ x = s
        BY <1>2, <4>1, <4>3
      <4>5. pc'[t] = "tellNew" /\ who'[t] = s
        BY <1>0, <1>2, <1>p
      <4> QED BY <1>0, <2>2, <4>4, <4>5 DEF Untold
    <3> QED BY <1>0, <1>3, <3>1, <3>2 DEF Told
  <2> QED BY <2>1, <2>2
<1>9. Swept' /\ OwnerPresent'
  BY <1>0, <1>2, <1>3, ElsewhereKept
<1> QED BY <1>5, <1>6, <1>7, <1>8, <1>9 DEF IInv

LEMMA ThenOthersIInv ==
  ASSUME IInv, NEW t \in Threads, ThenOthers(t)
  PROVE  IInv'
<1>p. PICK s : s = who[t]
  OBVIOUS
<1>0. /\ pc[t] = "tellNew" /\ to[t] = {} /\ Goto(t, "tellOthers", s, members \ {s})
      /\ UNCHANGED rosterVars /\ UNCHANGED subjects /\ UNCHANGED worldVars /\ UNCHANGED history
  BY <1>p DEF ThenOthers, Others
<1>1. s \in Players /\ cleared[t] = 0 /\ members \in SUBSET Players
  BY <1>0, <1>p, Standing
<1>2. At(t, "tellOthers", s, members \ {s})
  BY <1>0, <1>1, Moves DEF Points
<1>3. UNCHANGED <<joining, former, members, resyncs, shown, subjects,
                  visible, left, world, owner, inSight, strays, seen>>
  BY <1>0 DEF rosterVars, worldVars, history
<1>4. TypeOK'
  BY <1>2, <1>3, Parts DEF TypeOK, At, Points
<1>5. Squad'
  BY <1>3, Parts DEF Squad
<1>6. Places' /\ NotLookedFor'
  <2>1. t = former => subjects[t] = {}
    BY Standing
  <2> QED BY <1>1, <1>2, <1>3, <2>1, PlacesGo DEF Points, Forming
<1>7. Told'
  <2>1. CASE t # former
    BY <1>2, <1>3, <2>1, Parts, ToldKept DEF At, Alone, TypeOK, Threads
  <2>2. CASE t = former
    <3>1. ASSUME NEW a \in members, NEW x \in members, x # a, x \in seen, x \notin shown[a]
          PROVE  Untold(former, a, x)'
      <4>1. x = s
        BY <1>0, <1>p, <2>2, <3>1, Parts DEF Told, Untold
      <4> QED BY <1>2, <1>3, <2>2, <3>1, <4>1 DEF Untold, At
    <3>2. former # None
      BY <2>2, Parts
    <3> QED BY <1>3, <3>1, <3>2 DEF Told
  <2> QED BY <2>1, <2>2
<1>8. Swept' /\ OwnerPresent'
  BY <1>0, <1>2, <1>3, ElsewhereKept DEF At
<1> QED BY <1>4, <1>5, <1>6, <1>7, <1>8 DEF IInv

LEMMA TellOtherIInv ==
  ASSUME IInv, NEW t \in Threads, NEW other \in Players, TellOther(t, other)
  PROVE  IInv'
<1>p. PICK s : s = who[t]
  OBVIOUS
<1>0. /\ pc[t] \in {"tellOthers", "move"} /\ other \in to[t]
      /\ shown' = [shown EXCEPT ![other] = shown[other] \cup {s}] /\ Served(t, other)
      /\ UNCHANGED <<joining, former, members, resyncs>> /\ UNCHANGED worldVars /\ UNCHANGED history
  BY <1>p DEF TellOther
<1>1. s \in Players
  BY <1>0, <1>p, Standing
<1>2. /\ Alone(t) /\ UNCHANGED <<handled, pc, who, subjects, cleared>>
      /\ to'[t] = to[t] \ {other} /\ to' \in [Threads -> SUBSET Players]
  BY <1>0, Serves
<1>3. UNCHANGED <<visible, left, world, owner, inSight, strays, seen>>
  BY <1>0 DEF worldVars, history
<1>4. /\ shown' \in [Players -> SUBSET Players] /\ shown'[other] = shown[other] \cup {s}
      /\ \A a \in Players : shown[a] \subseteq shown'[a]
  BY <1>0, <1>1, Parts DEF TypeOK
<1>5. TypeOK'
  BY <1>0, <1>2, <1>3, <1>4, Parts DEF TypeOK
<1>6. Squad'
  BY <1>0, <1>3, Parts DEF Squad
<1>7. Places' /\ NotLookedFor'
  BY <1>0, <1>3, PlacesServed
<1>8. Told'
  <2>1. CASE t # former
    BY <1>0, <1>2, <1>3, <1>4, <2>1, Parts, ToldKept DEF Alone, TypeOK, Threads
  <2>2. CASE t = former
    <3>1. former # None /\ pc[t] = "tellOthers"
      BY <1>0, <2>2, Parts DEF Places, Forming
    <3>2. ASSUME NEW a \in members, NEW x \in members, x # a, x \in seen, x \notin shown'[a]
          PROVE  Untold(former, a, x)'
      <4>1. x \notin shown[a] /\ a \in Players /\ ~(a = other /\ x = s)
        BY <1>4, <3>2, Standing
      <4>2. Untold(former, a, x)
        BY <3>1, <3>2, <4>1, Parts DEF Told
      <4>3. x = s /\ a \in to[t]
        BY <1>p, <2>2, <3>1, <4>2 DEF Untold
      <4>4. x = s /\ a \in to'[t]
        BY <1>2, <4>1, <4>3
      <4>5. pc'[t] = "tellOthers" /\ who'[t] = s
        BY <1>2, <1>p, <3>1
      <4> QED BY <1>0, <2>2, <4>4, <4>5 DEF Untold
    <3> QED BY <1>0, <1>3, <3>1, <3>2 DEF Told
  <2> QED BY <2>1, <2>2
<1>9. Swept' /\ OwnerPresent'
  BY <1>0, <1>2, <1>3, ElsewhereKept
<1> QED BY <1>5, <1>6, <1>7, <1>8, <1>9 DEF IInv

(* A thread that does not move the squad in goes from one announcement to  *)
(* another, or to none.                                                    *)
LEMMA QuietGo ==
  ASSUME IInv, NEW t \in Threads, t # former, NEW where \in {"idle", "announce", "move"},
         NEW s \in Players \cup {None}, NEW snapshot \in SUBSET Players,
         Goto(t, where, s, snapshot), where # "idle" => s \in Players,
         pc[t] \notin {"hide", "look", "leave", "sayLeft"},
         UNCHANGED <<joining, former, members, shown, visible, left, world, owner, inSight, strays, seen>>,
         \A u \in Threads : u # t => subjects'[u] = subjects[u]
  PROVE  At(t, where, s, snapshot) /\ Squad' /\ Places' /\ NotLookedFor' /\ Told' /\ Swept' /\ OwnerPresent'
<1>1. where \in Points
  BY DEF Points
<1>2. At(t, where, s, snapshot)
  BY <1>1, Moves
<1>3. Squad'
  BY Parts DEF Squad
<1>4. Places' /\ NotLookedFor'
  <2>1. cleared[t] = 0
    BY Standing
  <2> QED BY <1>1, <1>2, <2>1, PlacesGo
<1>5. Told'
  BY <1>2, Parts, ToldKept DEF At, Alone, TypeOK, Threads
<1>6. Swept' /\ OwnerPresent'
  BY <1>2, ElsewhereKept DEF At
<1> QED BY <1>2, <1>3, <1>4, <1>5, <1>6

LEMMA AnnouncedIInv ==
  ASSUME IInv, NEW t \in Threads, Announced(t)
  PROVE  IInv'
<1>0. /\ pc[t] \in {"tellOthers", "move"} /\ to[t] = {}
      /\ UNCHANGED rosterVars /\ UNCHANGED worldVars /\ UNCHANGED history
  BY DEF Announced
<1>1. UNCHANGED <<joining, former, members, resyncs, shown,
                  visible, left, world, owner, inSight, strays, seen>>
  BY <1>0 DEF rosterVars, worldVars, history
<1>2. CASE t = former
  <2>1. subjects[t] = {} /\ former # None /\ cleared[t] = 0 /\ pc[t] = "tellOthers"
    BY <1>0, <1>2, Standing, Parts DEF Places, Forming
  <2>2. Goto(t, "form", None, {}) /\ UNCHANGED subjects
    BY <1>2, <2>1 DEF Announced
  <2>3. At(t, "form", None, {})
    BY <2>2, Moves DEF Points
  <2>4. TypeOK'
    BY <1>1, <2>2, <2>3, Parts DEF TypeOK, At, Points
  <2>5. Squad'
    BY <1>1, Parts DEF Squad
  <2>6. Places' /\ NotLookedFor'
    BY <1>1, <1>2, <2>1, <2>2, <2>3, PlacesGo DEF Points, Forming
  <2>7. Told'
    <3>1. \A a, x : ~Untold(former, a, x)
      BY <1>0, <1>2, <2>1 DEF Untold
    <3> QED BY <1>1, <3>1, Parts DEF Told
  <2>8. Swept' /\ OwnerPresent'
    BY <1>0, <1>1, <2>3, ElsewhereKept DEF At
  <2> QED BY <2>4, <2>5, <2>6, <2>7, <2>8 DEF IInv
<1>3. CASE t # former
  <2>1. PICK where \in {"idle", "announce"}, s \in Players \cup {None} :
          /\ Goto(t, where, s, {}) /\ (where # "idle" => s \in Players)
          /\ subjects' \in [Threads -> SUBSET Players]
          /\ \A u \in Threads : u # t => subjects'[u] = subjects[u]
    <3>1. CASE \E s \in subjects[t] : /\ ReannounceMember(t, s)
                                      /\ subjects' = [subjects EXCEPT ![t] = subjects[t] \ {s}]
      BY <3>1, Parts DEF ReannounceMember, ThreadTypes
    <3>2. CASE Finish(t) /\ UNCHANGED subjects
      BY <3>2, Parts DEF Finish, ThreadTypes
    <3> QED BY <1>3, <3>1, <3>2 DEF Announced
  <2>2. At(t, where, s, {}) /\ Squad' /\ Places' /\ NotLookedFor' /\ Told' /\ Swept' /\ OwnerPresent'
    BY <1>0, <1>1, <1>3, <2>1, QuietGo
  <2>3. TypeOK'
    BY <1>1, <2>1, <2>2, Parts DEF TypeOK, At, Points
  <2> QED BY <2>2, <2>3 DEF IInv
<1> QED BY <1>2, <1>3

LEMMA ResyncIInv ==
  ASSUME IInv, Resync
  PROVE  IInv'
<1>1. PICK s \in members :
        /\ pc["tick"] = "idle" /\ resyncs < MaxResync /\ resyncs' = resyncs + 1
        /\ Goto("tick", "announce", s, {})
        /\ subjects' = [subjects EXCEPT !["tick"] = members \ {s}]
        /\ UNCHANGED <<joining, former, members, shown>> /\ UNCHANGED worldVars /\ UNCHANGED history
  BY DEF Resync, ReannounceMember
<1>2. UNCHANGED <<visible, left, world, owner, inSight, strays, seen>>
  BY <1>1 DEF worldVars, history
<1>3. "tick" # former /\ "tick" \in Threads
  BY <1>1, Parts DEF Places, Forming, Threads
<1>4. s \in Players /\ members \in SUBSET Players
  BY <1>1, <1>3, Standing
<1>5. /\ subjects' \in [Threads -> SUBSET Players]
      /\ \A u \in Threads : u # "tick" => subjects'[u] = subjects[u]
  BY <1>1, <1>4, Parts DEF ThreadTypes
<1>6. At("tick", "announce", s, {}) /\ Squad' /\ Places' /\ NotLookedFor' /\ Told' /\ Swept' /\ OwnerPresent'
  BY <1>1, <1>2, <1>3, <1>4, <1>5, QuietGo
<1>7. resyncs' \in 0 .. MaxResync
  BY <1>1, RoomAssumption, Parts DEF TypeOK
<1>8. TypeOK'
  BY <1>1, <1>2, <1>5, <1>6, <1>7, Parts DEF TypeOK, At, Points
<1> QED BY <1>6, <1>8 DEF IInv

-----------------------------------------------------------------------------
(* The handlers.                                                           *)
LEMMA HandlingMeans ==
  ASSUME IInv, NEW s \in Players, Handling(s)
  PROVE  "recv" \in Threads /\ pc["recv"] = "idle" /\ "recv" # former /\ handled = s
         /\ s \notin joining /\ s \in members \cup left /\ cleared["recv"] = 0
BY Parts, Standing DEF Handling, Places, Forming, Threads, Squad

LEMMA MultiMapReadyOrMoveInput ==
  ASSUME IInv, NEW s \in Players, MultiMapReady(s) \/ MoveInput(s)
  PROVE  IInv'
<1>0. /\ "recv" \in Threads /\ pc["recv"] = "idle" /\ "recv" # former /\ members \ {s} \in SUBSET Players
  BY HandlingMeans, Standing DEF MultiMapReady, MoveInput
<1>1. PICK where \in {"announce", "move"}, snapshot \in SUBSET Players :
        Goto("recv", where, s, snapshot)
  BY <1>0 DEF MultiMapReady, MoveInput, ReannounceMember, Others
<1>2. UNCHANGED rosterVars /\ UNCHANGED subjects /\ UNCHANGED worldVars /\ UNCHANGED history
  BY DEF MultiMapReady, MoveInput
<1>3. UNCHANGED <<joining, former, members, resyncs, shown, subjects,
                  visible, left, world, owner, inSight, strays, seen>>
  BY <1>2 DEF rosterVars, worldVars, history
<1>4. At("recv", where, s, snapshot) /\ Squad' /\ Places' /\ NotLookedFor' /\ Told' /\ Swept' /\ OwnerPresent'
  BY <1>0, <1>1, <1>3, QuietGo
<1>5. TypeOK'
  BY <1>3, <1>4, Parts DEF TypeOK, At, Points
<1> QED BY <1>4, <1>5 DEF IInv

(* A step that leaves the threads and the roster alone. *)
LEMMA ThreadsAlone ==
  ASSUME IInv, UNCHANGED threadVars, UNCHANGED <<joining, former, members, shown, left, seen>>
  PROVE  /\ Places' /\ NotLookedFor' /\ Told' /\ UNCHANGED <<handled, pc, who, subjects, to, cleared>>
         /\ \A t \in Threads, s \in Players : Releases(t, s) => Releases(t, s)'
<1>1. UNCHANGED <<handled, pc, who, subjects, to, cleared>>
  BY DEF threadVars
<1>2. Places' /\ Told' /\ NotLookedFor'
  BY <1>1, Parts DEF Places, NotLookedFor, Told, Untold, Unregistering
<1> QED BY <1>1, <1>2 DEF Releases, Unregistering

(* "recv" takes up a session, or is done with one. *)
LEMMA HandleIInv ==
  ASSUME IInv, HandlerDone \/ \E s \in Players : Handle(s)
  PROVE  IInv'
<1>0. /\ pc["recv"] = "idle" /\ handled' \in Players \cup {None} /\ handled' \notin left
      /\ UNCHANGED rosterVars /\ UNCHANGED worldVars /\ UNCHANGED history
      /\ UNCHANGED <<pc, who, subjects, to, cleared>>
  <2>1. None \notin left
    BY Parts DEF TypeOK
  <2> QED BY <2>1 DEF HandlerDone, Handle
<1>1. UNCHANGED <<joining, former, members, resyncs, shown,
                  visible, left, world, owner, inSight, strays, seen>>
  BY <1>0 DEF rosterVars, worldVars, history
<1>2. \A t \in Threads : pc[t] # "idle" /\ t # "tick" => Unregistering(t)' = Unregistering(t)
  BY <1>0 DEF Unregistering, Threads
<1>3. TypeOK'
  BY <1>0, <1>1, Parts DEF TypeOK
<1>4. Squad'
  BY <1>1, Parts DEF Squad
<1>5. Places'
  <2>1. ASSUME NEW t \in Threads
        PROVE  /\ pc'[t] \notin {"idle", "form"} => who'[t] \in Players
               /\ pc'[t] = "form" => t = former'
               /\ pc'[t] = "hide" => who'[t] \notin seen' /\ ~Unregistering(t)'
               /\ pc'[t] \in {"hide", "look", "leave", "sayLeft"} => t # "tick"
               /\ pc'[t] = "look" /\ Unregistering(t)' => who'[t] \in left'
               /\ pc'[t] \in {"leave", "sayLeft"} => who'[t] \in left'
               /\ cleared'[t] > 0 => pc'[t] = "look" /\ to'[t] = {}
    BY <1>0, <1>1, <1>2, Parts DEF Places
  <2>2. former' # None => pc'[former'] \in Forming /\ subjects'[former'] = {}
    BY <1>0, <1>1, Parts DEF Places
  <2> QED BY <2>1, <2>2 DEF Places
<1>6. NotLookedFor'
  BY <1>0, <1>1 DEF NotLookedFor
<1>7. Told'
  BY <1>0, <1>1, Parts, ToldKept
<1>8. Swept'
  <2>1. \A t \in Threads, n \in inSight' : WillClear(t, n) => WillClear(t, n)'
    BY <1>0, <1>1 DEF WillClear
  <2>2. Dark' => Dark
    BY <1>1 DEF Dark
  <2> QED BY <1>1, <2>1, <2>2, SweptKept
<1>9. OwnerPresent'
  <2>1. \A t \in Threads, x \in Players : Releases(t, x) => Releases(t, x)'
    BY <1>0, <1>2, Parts DEF Releases, Places
  <2> QED BY <1>1, <2>1, DrivenKept
<1> QED BY <1>3, <1>4, <1>5, <1>6, <1>7, <1>8, <1>9 DEF IInv

LEMMA ClaimIInv ==
  ASSUME IInv, NEW s \in Players, NEW m \in Claimable, Claim(s, m)
  PROVE  IInv'
<1>0. /\ Handling(s) /\ world' = world \cup {m}
      /\ inSight' = (IF visible[s] /\ s \in members THEN inSight \cup {m} ELSE inSight \ {m})
      /\ UNCHANGED rosterVars /\ UNCHANGED <<visible, left, owner, strays, seen>> /\ UNCHANGED threadVars
  BY DEF Claim
<1>2. UNCHANGED <<joining, former, members, resyncs, shown>>
  BY <1>0 DEF rosterVars
<1>3. /\ Places' /\ NotLookedFor' /\ Told' /\ UNCHANGED <<handled, pc, who, subjects, to, cleared>>
      /\ \A t \in Threads, x \in Players : Releases(t, x) => Releases(t, x)'
  BY <1>0, <1>2, ThreadsAlone
<1>4. TypeOK'
  <2>1. inSight' \subseteq Claimable /\ world' \subseteq Claimable
    BY <1>0, Parts DEF TypeOK
  <2> QED BY <1>0, <1>2, <1>3, <2>1, Parts DEF TypeOK
<1>5. Squad'
  BY <1>0, <1>2, Parts DEF Squad
<1>6. Swept'
  <2>1. CASE visible[s] /\ s \in members
    <3>1. ~Dark'
      BY <1>0, <1>2, <2>1, Zenon DEF Dark
    <3> QED BY <3>1 DEF Swept
  <2>2. CASE ~(visible[s] /\ s \in members)
    <3>1. inSight' = inSight \ {m}
      BY <1>0, <2>2
    <3>2. \A n \in inSight' : n \notin world => n \notin world'
      BY <1>0, <3>1
    <3>3. \A t \in Threads, n \in inSight' : WillClear(t, n) => WillClear(t, n)'
      BY <1>0, <1>3 DEF WillClear
    <3>4. Dark' => Dark
      BY <1>0, <1>2 DEF Dark
    <3> QED BY <3>1, <3>2, <3>3, <3>4, SweptKept
  <2> QED BY <2>1, <2>2
<1>7. OwnerPresent'
  BY <1>0, <1>2, <1>3, DrivenKept
<1> QED BY <1>3, <1>4, <1>5, <1>6, <1>7 DEF IInv

LEMMA ClaimEnemyIInv ==
  ASSUME IInv, NEW s \in Players, NEW e \in Enemies, ClaimEnemy(s, e)
  PROVE  IInv'
<1>0. /\ Handling(s) /\ owner' = [owner EXCEPT ![e] = s]
      /\ UNCHANGED rosterVars /\ UNCHANGED <<visible, left, world>>
      /\ strays' = (IF s \in left THEN strays \cup {e} ELSE strays \ {e})
      /\ UNCHANGED threadVars /\ UNCHANGED <<inSight, seen>>
  BY DEF ClaimEnemy
<1>1. s \in members \cup left
  BY <1>0, HandlingMeans
<1>2. UNCHANGED <<joining, former, members, resyncs, shown>>
  BY <1>0 DEF rosterVars
<1>3. /\ Places' /\ NotLookedFor' /\ Told' /\ UNCHANGED <<handled, pc, who, subjects, to, cleared>>
      /\ \A t \in Threads, x \in Players : Releases(t, x) => Releases(t, x)'
  BY <1>0, <1>2, ThreadsAlone
<1>4. TypeOK'
  BY <1>0, <1>2, <1>3, Parts DEF TypeOK
<1>5. Squad'
  BY <1>0, <1>2, Parts DEF Squad
<1>6. Swept'
  <2>1. \A t \in Threads, n \in inSight' : WillClear(t, n) => WillClear(t, n)'
    BY <1>0, <1>3 DEF WillClear
  <2>2. Dark' => Dark
    BY <1>0, <1>2 DEF Dark
  <2> QED BY <1>0, <1>2, <2>1, <2>2, SweptKept
<1>7. OwnerPresent'
  <2>1. ASSUME NEW d \in Enemies \ strays', NEW o \in Players, owner'[d] = o
        PROVE  o \in members' \/ \E t \in Threads : Releases(t, o)'
    <3>1. CASE d = e
      <4>1. owner'[e] = s /\ s \notin left
        BY <1>0, <2>1, <3>1, Parts DEF TypeOK
      <4> QED BY <1>1, <1>2, <2>1, <3>1, <4>1
    <3>2. CASE d # e
      <4>1. owner[d] = o /\ d \notin strays
        BY <1>0, <2>1, <3>2, Parts DEF TypeOK
      <4> QED BY <1>2, <1>3, <4>1, DrivenBy
    <3> QED BY <3>1, <3>2
  <2> QED BY <1>4, <2>1, DrivenWhen
<1> QED BY <1>3, <1>4, <1>5, <1>6, <1>7 DEF IInv

LEMMA ShowIInv ==
  ASSUME IInv, NEW s \in Players, Show(s)
  PROVE  IInv'
<1>0. /\ Handling(s) /\ visible' = [visible EXCEPT ![s] = TRUE]
      /\ UNCHANGED rosterVars /\ UNCHANGED <<left, world, owner>>
      /\ UNCHANGED threadVars /\ UNCHANGED history
  BY DEF Show
<1>1. s \in members \cup left /\ s \notin joining /\ pc["recv"] = "idle" /\ handled = s
  BY <1>0, HandlingMeans
<1>2. UNCHANGED <<joining, former, members, resyncs, shown, inSight, strays, seen>>
  BY <1>0 DEF rosterVars, history
<1>3. /\ Places' /\ NotLookedFor' /\ Told' /\ UNCHANGED <<handled, pc, who, subjects, to, cleared>>
      /\ \A t \in Threads, x \in Players : Releases(t, x) => Releases(t, x)'
  BY <1>0, <1>2, ThreadsAlone
<1>4. TypeOK'
  BY <1>0, <1>2, <1>3, Parts DEF TypeOK
<1>5. visible \in [Players -> BOOLEAN] /\ joining \subseteq Players
  BY Parts DEF TypeOK
<1>6. visible'[s] /\ \A x \in joining : visible'[x] = visible[x]
  BY <1>0, <1>1, <1>5
<1>7. Squad'
  <2>1. \A x \in joining' : visible'[x]
    BY <1>2, <1>6, Parts, Zenon DEF Squad
  <2> QED BY <1>0, <1>2, <2>1, Parts DEF Squad
<1>8. Swept'
  <2>1. CASE s \in members
    <3>1. ~Dark'
      BY <1>2, <1>6, <2>1, Zenon DEF Dark
    <3> QED BY <3>1 DEF Swept
  <2>2. CASE s \notin members
    <3>1. \A x : x # s => visible'[x] = visible[x]
      BY <1>0, <1>5
    <3>2. Dark' => Dark
      BY <1>2, <2>2, <3>1, Zenon DEF Dark
    <3>3. \A t \in Threads : pc[t] = "look" => s \notin to[t]
      BY <1>1, <2>2, Parts DEF NotLookedFor, Places, Threads
    <3>4. ASSUME NEW t \in Threads, NEW n \in inSight', WillClear(t, n)
          PROVE  WillClear(t, n)'
      <4>1. CASE pc[t] = "hide"
        BY <1>3, <4>1 DEF WillClear
      <4>2. CASE pc[t] = "look"
        <5>1. \A x \in to[t] : ~visible[x]
          BY <3>4, <4>2, Zenon DEF WillClear
        <5>2. s \notin to[t]
          BY <3>3, <4>2
        <5>3. \A x \in to'[t] : ~visible'[x]
          BY <1>3, <3>1, <5>1, <5>2, Zenon
        <5>4. \E i \in cleared[t] + 1 .. Len(ClearOrder) : ClearOrder[i] = n
          BY <3>4, <4>2 DEF WillClear
        <5> QED BY <1>3, <4>2, <5>3, <5>4 DEF WillClear
      <4> QED BY <3>4, <4>1, <4>2 DEF WillClear
    <3> QED BY <1>0, <1>2, <3>2, <3>4, SweptKept
  <2> QED BY <2>1, <2>2
<1>9. OwnerPresent'
  BY <1>0, <1>2, <1>3, DrivenKept
<1> QED BY <1>3, <1>4, <1>7, <1>8, <1>9 DEF IInv

LEMMA HideIInv ==
  ASSUME IInv, NEW s \in Players, Hide(s)
  PROVE  IInv'
<1>0. /\ Handling(s) /\ visible' = [visible EXCEPT ![s] = FALSE]
      /\ seen' = seen \ {s}
      /\ Goto("recv", "hide", s, members \ {s})
      /\ UNCHANGED rosterVars /\ UNCHANGED <<left, world, owner, subjects, inSight, strays>>
  BY DEF Hide, Others
<1>1. /\ "recv" \in Threads /\ pc["recv"] = "idle" /\ "recv" # former /\ cleared["recv"] = 0
      /\ handled = s /\ s \notin joining /\ members \ {s} \in SUBSET Players
  BY <1>0, HandlingMeans, Standing
<1>2. UNCHANGED <<joining, former, members, resyncs, shown>>
  BY <1>0 DEF rosterVars
<1>3. At("recv", "hide", s, members \ {s})
  BY <1>0, <1>1, Moves DEF Points
<1>4. TypeOK'
  <2>1. visible' \in [Players -> BOOLEAN]
    BY <1>0, Parts DEF TypeOK
  <2> QED BY <1>0, <1>2, <1>3, <2>1, Parts DEF TypeOK, At, Points
<1>5. visible \in [Players -> BOOLEAN] /\ joining \subseteq Players
  BY Parts DEF TypeOK
<1>6. \A x \in joining : visible'[x] = visible[x]
  BY <1>0, <1>1, <1>5
<1>7. Squad'
  <2>1. \A x \in joining' : visible'[x]
    BY <1>2, <1>6, Parts, Zenon DEF Squad
  <2> QED BY <1>0, <1>2, <2>1, Parts DEF Squad
<1>8. Places' /\ NotLookedFor'
  <2>1. seen' \subseteq seen /\ s \notin seen' /\ left \subseteq left'
    BY <1>0
  <2>2. ~Unregistering("recv")
    BY <1>1, Parts DEF Unregistering
  <2> QED BY <1>0, <1>1, <1>2, <1>3, <2>1, <2>2, PlacesGo DEF Points
<1>9. Told'
  BY <1>0, <1>1, <1>2, <1>3, Parts, ToldKept DEF At, Alone, TypeOK, Threads
<1>10. Swept'
  <2>1. \A m : WillClear("recv", m)'
    BY <1>3 DEF WillClear, At
  <2> QED BY <1>1, <2>1 DEF Swept
<1>11. OwnerPresent'
  <2>1. \A t \in Threads, x \in Players : Releases(t, x) => Releases(t, x)'
    BY <1>0, <1>1, <1>3 DEF Releases, Unregistering, At, Alone
  <2> QED BY <1>0, <1>2, <2>1, DrivenKept
<1> QED BY <1>4, <1>7, <1>8, <1>9, <1>10, <1>11 DEF IInv

-----------------------------------------------------------------------------
(* Resets and departures.                                                  *)
LEMMA TellLeftIInv ==
  ASSUME IInv, NEW t \in Threads, NEW other \in Players, TellLeft(t, other)
  PROVE  IInv'
<1>p. PICK s : s = who[t]
  OBVIOUS
<1>0. /\ pc[t] \in {"hide", "sayLeft"} /\ other \in to[t]
      /\ shown' = [shown EXCEPT ![other] = shown[other] \ {s}] /\ Served(t, other)
      /\ UNCHANGED <<joining, former, members, resyncs>> /\ UNCHANGED worldVars /\ UNCHANGED history
  BY <1>p DEF TellLeft
<1>1. t # former /\ s \notin members \cap seen
  BY <1>0, <1>p, Parts DEF Places, Forming, Squad
<1>2. /\ Alone(t) /\ UNCHANGED <<handled, pc, who, subjects, cleared>>
      /\ to'[t] = to[t] \ {other} /\ to' \in [Threads -> SUBSET Players]
  BY <1>0, Serves
<1>3. UNCHANGED <<visible, left, world, owner, inSight, strays, seen>>
  BY <1>0 DEF worldVars, history
<1>4. /\ shown' \in [Players -> SUBSET Players]
      /\ \A a \in Players : \A x : x \in shown[a] /\ x # s => x \in shown'[a]
  BY <1>0, Parts DEF TypeOK
<1>5. TypeOK'
  BY <1>0, <1>2, <1>3, <1>4, Parts DEF TypeOK
<1>6. Squad'
  BY <1>0, <1>3, Parts DEF Squad
<1>7. Places' /\ NotLookedFor'
  BY <1>0, <1>3, PlacesServed
<1>8. Told'
  <2>1. \A a, x : former # None /\ Untold(former, a, x) => Untold(former, a, x)'
    BY <1>0, <1>1, <1>2, Parts DEF Untold, Alone, TypeOK, Threads
  <2>2. members \subseteq Players
    BY Parts DEF TypeOK
  <2> QED BY <1>0, <1>1, <1>3, <1>4, <2>1, <2>2, Parts DEF Told
<1>9. Swept'
  <2>1. \A u \in Threads, m \in inSight : WillClear(u, m) => WillClear(u, m)'
    BY <1>0, <1>2, <1>3 DEF WillClear, Alone
  <2>2. Dark' => Dark
    BY <1>0, <1>3 DEF Dark
  <2> QED BY <1>3, <2>1, <2>2, SweptKept
<1>10. OwnerPresent'
  <2>1. \A u \in Threads, x \in Players : Releases(u, x) => Releases(u, x)'
    BY <1>2, <1>3 DEF Releases, Unregistering
  <2> QED BY <1>0, <1>3, <2>1, DrivenKept
<1> QED BY <1>5, <1>6, <1>7, <1>8, <1>9, <1>10 DEF IInv

(* A reset that starts to look, at all the members, clears everything if   *)
(* nobody is visible.                                                      *)
LEMMA LooksAtAll ==
  ASSUME IInv, NEW t \in Threads, NEW s \in Players, At(t, "look", s, members'),
         cleared[t] = 0, visible' = visible, inSight' = inSight
  PROVE  Swept'
<1> SUFFICES ASSUME Dark', NEW m \in inSight PROVE WillClear(t, m)'
  BY DEF Swept
<1>1. m \in Claimable
  BY Parts DEF TypeOK
<1>2. \E i \in 1 .. Len(ClearOrder) : ClearOrder[i] = m
  BY <1>1, Parts
<1>3. cleared'[t] + 1 = 1 /\ pc'[t] = "look" /\ to'[t] = members'
  BY DEF At
<1>4. \A x \in to'[t] : ~visible'[x]
  BY <1>3, Zenon DEF Dark
<1> QED BY <1>2, <1>3, <1>4 DEF WillClear

LEMMA HiddenIInv ==
  ASSUME IInv, Hidden
  PROVE  IInv'
<1>p. PICK s : s = who["recv"]
  OBVIOUS
<1>0. /\ pc["recv"] = "hide" /\ Goto("recv", "look", s, members)
      /\ UNCHANGED rosterVars /\ UNCHANGED subjects /\ UNCHANGED worldVars /\ UNCHANGED history
  BY <1>p DEF Hidden
<1>1. "recv" \in Threads
  BY DEF Threads
<1>2. "recv" # former /\ s \in Players /\ cleared["recv"] = 0 /\ members \in SUBSET Players
  BY <1>0, <1>1, <1>p, Standing, Parts DEF Places, Forming
<1>3. At("recv", "look", s, members)
  BY <1>0, <1>1, <1>2, Moves DEF Points
<1>4. UNCHANGED <<joining, former, members, resyncs, shown, subjects,
                  visible, left, world, owner, inSight, strays, seen>>
  BY <1>0 DEF rosterVars, worldVars, history
<1>5. TypeOK'
  BY <1>3, <1>4, Parts DEF TypeOK, At, Points
<1>6. Squad'
  BY <1>4, Parts DEF Squad
<1>7. Places' /\ NotLookedFor'
  <2>1. ~Unregistering("recv")
    BY <1>0, <1>1, Parts DEF Places
  <2> QED BY <1>1, <1>2, <1>3, <1>4, <2>1, PlacesGo DEF Points
<1>8. Told'
  BY <1>2, <1>3, <1>4, Parts, ToldKept DEF At, Alone, TypeOK, Threads
<1>9. Swept'
  BY <1>1, <1>2, <1>3, <1>4, LooksAtAll
<1>10. OwnerPresent'
  <2>1. \A u \in Threads, x \in Players : Releases(u, x) => Releases(u, x)'
    BY <1>0, <1>3, <1>4 DEF Releases, Unregistering, At, Alone
  <2> QED BY <1>4, <2>1, DrivenKept
<1> QED BY <1>5, <1>6, <1>7, <1>8, <1>9, <1>10 DEF IInv

LEMMA LookIInv ==
  ASSUME IInv, NEW t \in Threads, NEW other \in Players, Look(t, other)
  PROVE  IInv'
<1>p. PICK s : s = who[t]
  OBVIOUS
<1>0. /\ pc[t] = "look" /\ other \in to[t]
      /\ UNCHANGED rosterVars /\ UNCHANGED worldVars /\ UNCHANGED history
  BY DEF Look
<1>1. t # former /\ s \in Players /\ cleared[t] = 0
  BY <1>0, <1>p, Standing, Parts DEF Places, Forming
<1>2. UNCHANGED <<joining, former, members, resyncs, shown,
                  visible, left, world, owner, inSight, strays, seen>>
  BY <1>0 DEF rosterVars, worldVars, history
<1>3. Squad'
  BY <1>2, Parts DEF Squad
<1>4. Dark' => Dark
  BY <1>2 DEF Dark
<1>5. CASE visible[other] /\ AfterReset(t) /\ UNCHANGED subjects
  <2>1. PICK where \in {"leave", "idle"}, who1 \in Players \cup {None} :
          /\ Goto(t, where, who1, {})
          /\ Unregistering(t) => where = "leave" /\ who1 = s
          /\ where = "leave" => who1 \in left
    BY <1>0, <1>1, <1>5, <1>p, Parts DEF AfterReset, Finish, Places
  <2>2. At(t, where, who1, {}) /\ where \in Points
    BY <2>1, Moves DEF Points
  <2>3. left \subseteq Players
    BY Parts DEF TypeOK
  <2>4. TypeOK'
    BY <1>2, <1>5, <2>2, Parts DEF TypeOK, At, Points
  <2>5. Places' /\ NotLookedFor'
    BY <1>0, <1>1, <1>2, <1>5, <2>1, <2>2, <2>3, Standing, PlacesGo
  <2>6. Told'
    BY <1>1, <1>2, <2>2, Parts, ToldKept DEF At, Alone, TypeOK, Threads
  <2>7. Swept'
    <3>1. \A m : ~WillClear(t, m)
      BY <1>0, <1>5, Zenon DEF WillClear
    <3>2. ASSUME NEW u \in Threads, NEW m \in inSight, WillClear(u, m)
          PROVE  WillClear(u, m)'
      <4>1. u # t
        BY <3>1, <3>2
      <4> QED BY <1>2, <2>2, <3>2, <4>1 DEF WillClear, At, Alone
    <3> QED BY <1>2, <1>4, <3>2, SweptKept
  <2>8. OwnerPresent'
    <3>1. \A u \in Threads, x \in Players : Releases(u, x) => Releases(u, x)'
      BY <1>2, <1>p, <2>1, <2>2 DEF Releases, Unregistering, At, Alone
    <3> QED BY <1>2, <3>1, DrivenKept
  <2> QED BY <1>3, <2>4, <2>5, <2>6, <2>7, <2>8 DEF IInv
<1>6. CASE ~visible[other] /\ Served(t, other)
  <2>1. /\ Alone(t) /\ UNCHANGED <<handled, pc, who, subjects, cleared>>
        /\ to'[t] = to[t] \ {other} /\ to' \in [Threads -> SUBSET Players]
    BY <1>6, Serves
  <2>2. TypeOK'
    BY <1>2, <2>1, Parts DEF TypeOK
  <2>3. Places' /\ NotLookedFor'
    BY <1>0, <1>2, <1>6, PlacesServed
  <2>4. Told'
    BY <1>1, <1>2, <2>1, Parts, ToldKept DEF Alone, TypeOK, Threads
  <2>5. Swept'
    <3>1. \A u \in Threads, m \in inSight : WillClear(u, m) => WillClear(u, m)'
      BY <1>2, <2>1 DEF WillClear, Alone
    <3> QED BY <1>2, <1>4, <3>1, SweptKept
  <2>6. OwnerPresent'
    <3>1. \A u \in Threads, x \in Players : Releases(u, x) => Releases(u, x)'
      BY <1>2, <2>1 DEF Releases, Unregistering
    <3> QED BY <1>2, <3>1, DrivenKept
  <2> QED BY <1>3, <2>2, <2>3, <2>4, <2>5, <2>6 DEF IInv
<1> QED BY <1>5, <1>6 DEF Look

LEMMA ClearIInv ==
  ASSUME IInv, NEW t \in Threads, Clear(t)
  PROVE  IInv'
<1>p. PICK s, c : s = who[t] /\ c = cleared[t]
  OBVIOUS
<1>0. /\ pc[t] = "look" /\ to[t] = {}
      /\ UNCHANGED rosterVars /\ UNCHANGED <<visible, left, owner, handled, subjects, strays, seen>>
  BY DEF Clear
<1>1. t # former /\ s \in Players /\ c \in 0 .. Len(ClearOrder) /\ Len(ClearOrder) \in Nat
  BY <1>0, <1>p, Standing, Parts DEF Places, Forming, ThreadTypes
<1>2. UNCHANGED <<joining, former, members, resyncs, shown>>
  BY <1>0 DEF rosterVars
<1>3. Squad'
  BY <1>0, <1>2, Parts DEF Squad
<1>4. Dark' => Dark
  BY <1>0, <1>2 DEF Dark
<1>5. CASE c < Len(ClearOrder)
  <2>p. PICK m : m = ClearOrder[c + 1]
    OBVIOUS
  <2>1. /\ world' = world \ {m} /\ inSight' = inSight \ {m}
        /\ cleared' = [cleared EXCEPT ![t] = c + 1] /\ UNCHANGED <<pc, who, to>>
    BY <1>1, <1>5, <1>p, <2>p DEF Clear
  <2>2. /\ cleared' \in [Threads -> 0 .. Len(ClearOrder)] /\ cleared'[t] = c + 1
        /\ \A u \in Threads : u # t => cleared'[u] = cleared[u]
    BY <1>1, <1>5, <2>1, Parts DEF ThreadTypes
  <2>3. TypeOK'
    <3>1. world' \subseteq Claimable /\ inSight' \subseteq Claimable
      BY <2>1, Parts DEF TypeOK
    <3> QED BY <1>0, <1>2, <2>1, <2>2, <3>1, Parts DEF TypeOK
  <2>4. Places' /\ NotLookedFor'
    BY <1>0, <1>2, <2>1, <2>2, Parts DEF Places, NotLookedFor, Unregistering
  <2>5. Told'
    BY <1>0, <1>2, <2>1, Parts, ToldKept
  <2>6. Swept'
    <3>1. ASSUME NEW u \in Threads, NEW n \in inSight', WillClear(u, n)
          PROVE  WillClear(u, n)'
      <4>1. CASE u = t
        <5>1. PICK i \in (c + 1) .. Len(ClearOrder) : ClearOrder[i] = n
          BY <1>0, <1>p, <3>1, <4>1 DEF WillClear
        <5>2. i # c + 1
          BY <2>1, <2>p, <3>1, <5>1
        <5>3. i \in (c + 1) + 1 .. Len(ClearOrder)
          BY <1>1, <5>1, <5>2
        <5> QED BY <1>0, <2>1, <2>2, <4>1, <5>1, <5>3 DEF WillClear
      <4>2. CASE u # t
        BY <1>0, <2>1, <2>2, <3>1, <4>2 DEF WillClear
      <4> QED BY <4>1, <4>2
    <3>2. \A n \in inSight' : n \notin world => n \notin world'
      BY <2>1
    <3> QED BY <1>4, <2>1, <3>1, <3>2, SweptKept
  <2>7. OwnerPresent'
    <3>1. \A u \in Threads, x \in Players : Releases(u, x) => Releases(u, x)'
      BY <1>0, <2>1 DEF Releases, Unregistering
    <3> QED BY <1>0, <1>2, <3>1, DrivenKept
  <2> QED BY <1>3, <2>3, <2>4, <2>5, <2>6, <2>7 DEF IInv
<1>6. CASE c = Len(ClearOrder)
  <2>1. /\ cleared' = [cleared EXCEPT ![t] = 0]
        /\ pc' = [pc EXCEPT ![t] = IF Unregistering(t) THEN "leave" ELSE "idle"]
        /\ who' = [who EXCEPT ![t] = IF Unregistering(t) THEN s ELSE None]
        /\ UNCHANGED <<to, world, inSight>>
    BY <1>1, <1>6, <1>p DEF Clear
  <2>2. /\ \A u \in Threads : u # t => /\ cleared'[u] = cleared[u] /\ pc'[u] = pc[u]
                                       /\ who'[u] = who[u]
        /\ cleared' \in [Threads -> 0 .. Len(ClearOrder)] /\ cleared'[t] = 0
        /\ pc' \in [Threads -> Points] /\ pc'[t] = (IF Unregistering(t) THEN "leave" ELSE "idle")
        /\ who' \in [Threads -> Players \cup {None}] /\ who'[t] = (IF Unregistering(t) THEN s ELSE None)
    BY <1>1, <2>1, Parts DEF ThreadTypes, Points
  <2>3. TypeOK'
    BY <1>0, <1>2, <2>1, <2>2, Parts DEF TypeOK, Points
  <2>4. Places' /\ NotLookedFor'
    <3>1. ASSUME NEW u \in Threads
          PROVE  /\ pc'[u] \notin {"idle", "form"} => who'[u] \in Players
                 /\ pc'[u] = "form" => u = former'
                 /\ pc'[u] = "hide" => who'[u] \notin seen' /\ ~Unregistering(u)'
                 /\ pc'[u] \in {"hide", "look", "leave", "sayLeft"} => u # "tick"
                 /\ pc'[u] = "look" /\ Unregistering(u)' => who'[u] \in left'
                 /\ pc'[u] \in {"leave", "sayLeft"} => who'[u] \in left'
                 /\ cleared'[u] > 0 => pc'[u] = "look" /\ to'[u] = {}
      <4>0. Unregistering(u)' = Unregistering(u)
        BY <1>0 DEF Unregistering
      <4>1. CASE u = t
        <5>1. Unregistering(t) => s \in left
          BY <1>0, <1>p, Parts DEF Places
        <5> QED BY <1>0, <1>1, <2>2, <4>0, <4>1, <5>1, Standing
      <4>2. CASE u # t
        BY <1>0, <1>2, <2>1, <2>2, <4>0, <4>2, Parts DEF Places
      <4> QED BY <4>1, <4>2
    <3>2. former' # None => pc'[former'] \in Forming /\ subjects'[former'] = {}
      BY <1>0, <1>1, <1>2, <2>2, Parts DEF Places, TypeOK, Threads
    <3>3. NotLookedFor'
      BY <1>0, <2>1, <2>2, Parts DEF NotLookedFor, Threads
    <3> QED BY <3>1, <3>2, <3>3 DEF Places
  <2>5. Told'
    BY <1>0, <1>1, <1>2, <2>1, <2>2, Parts, ToldKept DEF TypeOK, Threads
  <2>6. Swept'
    <3>1. \A n : ~WillClear(t, n)
      BY <1>0, <1>1, <1>6, <1>p DEF WillClear
    <3>2. ASSUME NEW u \in Threads, NEW n \in inSight, WillClear(u, n)
          PROVE  WillClear(u, n)'
      <4>1. u # t
        BY <3>1, <3>2
      <4> QED BY <1>0, <2>1, <2>2, <3>2, <4>1 DEF WillClear
    <3> QED BY <1>4, <2>1, <3>2, SweptKept
  <2>7. OwnerPresent'
    <3>1. \A u \in Threads, x \in Players : Releases(u, x) => Releases(u, x)'
      BY <1>0, <1>p, <2>2 DEF Releases, Unregistering
    <3> QED BY <1>0, <1>2, <3>1, DrivenKept
  <2> QED BY <1>3, <2>3, <2>4, <2>5, <2>6, <2>7 DEF IInv
<1> QED BY <1>1, <1>5, <1>6

LEMMA UnregisterIInv ==
  ASSUME IInv, NEW t \in Threads, NEW s \in Players, Unregister(t, s)
  PROVE  IInv'
<1>0. /\ pc[t] = "idle" /\ s \in members /\ t # "tick" /\ Unregistering(t)
      /\ left' = left \cup {s} /\ members' = members \ {s}
      /\ Goto(t, "look", s, members')
      /\ UNCHANGED <<joining, former, resyncs, shown, visible, world, owner, subjects,
                  inSight, strays, seen>>
  BY DEF Unregister, MayUnregister, Unregistering
<1>1. cleared[t] = 0 /\ t # former /\ members' \in SUBSET Players
  BY <1>0, Standing, Parts DEF Places, Forming
<1>2. At(t, "look", s, members')
  BY <1>0, <1>1, Moves DEF Points
<1>3. TypeOK'
  BY <1>0, <1>1, <1>2, Parts DEF TypeOK, At, Points
<1>4. Squad'
  BY <1>0, Parts DEF Squad
<1>5. Places' /\ NotLookedFor'
  <2>1. handled \notin left' \cap members' /\ (handled \in left' => handled \in left \/ t = "send")
    BY <1>0, Parts DEF Squad, Unregistering
  <2> QED BY <1>0, <1>1, <1>2, <2>1, PlacesGo DEF Points
<1>6. Told'
  BY <1>0, <1>1, <1>2, Parts, ToldKept DEF At, Alone, TypeOK, Threads
<1>7. Swept'
  BY <1>0, <1>1, <1>2, LooksAtAll
<1>8. OwnerPresent'
  <2>1. ASSUME NEW e \in Enemies \ strays', NEW o \in Players, owner'[e] = o
        PROVE  o \in members' \/ \E u \in Threads : Releases(u, o)'
    <3>1. CASE o = s
      BY <1>0, <1>2, <3>1 DEF Releases, Unregistering, At
    <3>2. CASE o # s
      <4>1. o \in members \/ \E u \in Threads : Releases(u, o)
        BY <1>0, <2>1, DrivenBy
      <4>2. \A u \in Threads : Releases(u, o) => Releases(u, o)'
        BY <1>0, <1>2 DEF Releases, Unregistering, At, Alone
      <4> QED BY <1>0, <3>2, <4>1, <4>2
    <3> QED BY <3>1, <3>2
  <2> QED BY <1>3, <2>1, DrivenWhen
<1> QED BY <1>3, <1>4, <1>5, <1>6, <1>7, <1>8 DEF IInv

LEMMA SayLeftIInv ==
  ASSUME IInv, NEW t \in Threads, SayLeft(t)
  PROVE  IInv'
<1>p. PICK s : s = who[t]
  OBVIOUS
<1>0. /\ pc[t] = "leave" /\ Goto(t, "sayLeft", s, members \ {s})
      /\ UNCHANGED rosterVars /\ UNCHANGED subjects /\ UNCHANGED worldVars /\ UNCHANGED history
  BY <1>p DEF SayLeft, Others
<1>1. t # former /\ s \in Players /\ cleared[t] = 0 /\ members \in SUBSET Players /\ s \in left /\ t # "tick"
  BY <1>0, <1>p, Standing, Parts DEF Places, Forming
<1>2. At(t, "sayLeft", s, members \ {s})
  BY <1>0, <1>1, Moves DEF Points
<1>3. UNCHANGED <<joining, former, members, resyncs, shown, subjects,
                  visible, left, world, owner, inSight, strays, seen>>
  BY <1>0 DEF rosterVars, worldVars, history
<1>4. TypeOK'
  BY <1>2, <1>3, Parts DEF TypeOK, At, Points
<1>5. Squad'
  BY <1>3, Parts DEF Squad
<1>6. Places' /\ NotLookedFor'
  BY <1>1, <1>2, <1>3, PlacesGo DEF Points
<1>7. Told'
  BY <1>1, <1>2, <1>3, Parts, ToldKept DEF At, Alone, TypeOK, Threads
<1>8. Swept'
  <2>1. \A u \in Threads, m \in inSight : WillClear(u, m) => WillClear(u, m)'
    BY <1>0, <1>2, <1>3 DEF WillClear, At, Alone
  <2>2. Dark' => Dark
    BY <1>3 DEF Dark
  <2> QED BY <1>3, <2>1, <2>2, SweptKept
<1>9. OwnerPresent'
  <2>1. \A u \in Threads, x \in Players : Releases(u, x) => Releases(u, x)'
    BY <1>2, <1>3, <1>p DEF Releases, Unregistering, At, Alone
  <2> QED BY <1>3, <2>1, DrivenKept
<1> QED BY <1>4, <1>5, <1>6, <1>7, <1>8, <1>9 DEF IInv

LEMMA ReleaseEnemiesIInv ==
  ASSUME IInv, NEW t \in Threads, ReleaseEnemies(t)
  PROVE  IInv'
<1>p. PICK s : s = who[t]
  OBVIOUS
<1>0. /\ pc[t] = "sayLeft" /\ Goto(t, "idle", None, {})
      /\ owner' = [e \in Enemies |-> IF owner[e] = s THEN None ELSE owner[e]]
      /\ UNCHANGED rosterVars /\ UNCHANGED <<visible, left, world, subjects>> /\ UNCHANGED history
  BY <1>p DEF ReleaseEnemies, Finish
<1>1. t # former /\ s \in Players /\ cleared[t] = 0
  BY <1>0, <1>p, Standing, Parts DEF Places, Forming
<1>2. At(t, "idle", None, {})
  BY <1>0, Moves DEF Points
<1>3. UNCHANGED <<joining, former, members, resyncs, shown, inSight, strays, seen>>
  BY <1>0 DEF rosterVars, history
<1>4. TypeOK'
  <2>1. owner' \in [Enemies -> Players \cup {None}]
    BY <1>0, Parts DEF TypeOK
  <2> QED BY <1>0, <1>2, <1>3, <2>1, Parts DEF TypeOK, At, Points
<1>5. Squad'
  BY <1>0, <1>3, Parts DEF Squad
<1>6. Places' /\ NotLookedFor'
  BY <1>0, <1>1, <1>2, <1>3, PlacesGo DEF Points
<1>7. Told'
  BY <1>0, <1>1, <1>2, <1>3, Parts, ToldKept DEF At, Alone, TypeOK, Threads
<1>8. Swept'
  <2>1. \A u \in Threads, m \in inSight : WillClear(u, m) => WillClear(u, m)'
    BY <1>0, <1>2, <1>3 DEF WillClear, At, Alone
  <2>2. Dark' => Dark
    BY <1>0, <1>3 DEF Dark
  <2> QED BY <1>0, <1>3, <2>1, <2>2, SweptKept
<1>9. OwnerPresent'
  <2>1. ASSUME NEW e \in Enemies \ strays', NEW o \in Players, owner'[e] = o
        PROVE  o \in members' \/ \E u \in Threads : Releases(u, o)'
    <3>1. owner[e] = o /\ o # s
      BY <1>0, <2>1, Parts
    <3>2. o \in members \/ \E u \in Threads : Releases(u, o)
      BY <1>3, <2>1, <3>1, DrivenBy
    <3>3. \A u \in Threads : Releases(u, o) => Releases(u, o)'
      BY <1>0, <1>p, <1>2, <3>1 DEF Releases, Unregistering, At, Alone
    <3> QED BY <1>3, <3>2, <3>3
  <2> QED BY <1>4, <2>1, DrivenWhen
<1> QED BY <1>4, <1>5, <1>6, <1>7, <1>8, <1>9 DEF IInv

-----------------------------------------------------------------------------
LEMMA StutterIInv == IInv /\ UNCHANGED vars => IInv'
<1> SUFFICES ASSUME IInv, UNCHANGED vars PROVE IInv'
  OBVIOUS
<1>1. /\ UNCHANGED <<joining, former, members, resyncs, shown>> /\ UNCHANGED <<visible, left, world, owner>>
      /\ UNCHANGED <<handled, pc, who, subjects, to, cleared>> /\ UNCHANGED <<inSight, strays, seen>>
  BY DEF vars, rosterVars, worldVars, threadVars, history
<1>2. TypeOK' /\ Squad' /\ Places' /\ NotLookedFor'
  BY <1>1, Parts DEF TypeOK, Squad, Places, NotLookedFor, Unregistering
<1>3. Told'
  BY <1>1, Parts DEF Told, Untold
<1>4. Swept'
  BY <1>1, Parts DEF Swept, Dark, WillClear
<1>5. OwnerPresent'
  BY <1>1, Parts DEF OwnerPresent, Releases, Unregistering
<1> QED BY <1>2, <1>3, <1>4, <1>5 DEF IInv

LEMMA StepIInv == IInv /\ [Next]_vars => IInv'
<1> SUFFICES ASSUME IInv, [Next]_vars PROVE IInv'
  OBVIOUS
<1>1. ASSUME NEW t \in Threads, Roster(t) PROVE IInv'
  BY <1>1, AddSessionIInv, TellNewIInv, TellOtherIInv, FormDoneIInv, AnnounceIInv,
     ThenOthersIInv, AnnouncedIInv DEF Roster
<1>2. ASSUME NEW t \in Threads, Leaving(t) PROVE IInv'
  BY <1>2, UnregisterIInv, TellLeftIInv, LookIInv, ClearIInv, SayLeftIInv, ReleaseEnemiesIInv
     DEF Leaving
<1>3. ASSUME NEW s \in Players, Handler(s) PROVE IInv'
  BY <1>3, HandleIInv, MultiMapReadyOrMoveInput, ShowIInv, HideIInv, ClaimIInv, ClaimEnemyIInv
     DEF Handler
<1>4. ASSUME HandlerDone \/ Resync \/ Hidden PROVE IInv'
  BY <1>4, HandleIInv, ResyncIInv, HiddenIInv
<1>5. ASSUME UNCHANGED vars PROVE IInv'
  BY <1>5, StutterIInv
<1> QED BY <1>1, <1>2, <1>3, <1>4, <1>5 DEF Next

LEMMA IInvImplies == IInv => TypeOK /\ EveryoneSeen /\ FreshWorld /\ OwnerPresent
<1> SUFFICES ASSUME IInv PROVE TypeOK /\ EveryoneSeen /\ FreshWorld /\ OwnerPresent
  OBVIOUS
<1>1. EveryoneSeen
  BY Parts DEF Told, EveryoneSeen
<1>2. FreshWorld
  <2>1. Dark <=> \A s \in members : ~visible[s]
    BY Zenon DEF Dark
  <2>2. ~Resetting => \A t \in Threads, m \in inSight : ~WillClear(t, m)
    BY DEF Resetting, WillClear
  <2>3. Dark /\ ~Resetting => inSight \cap world = {}
    BY <2>2, Parts DEF Swept
  <2> QED BY <2>1, <2>3, Zenon DEF FreshWorld
<1>3. OwnerPresent
  BY Parts
<1> QED BY <1>1, <1>2, <1>3, Parts

(* Every step of every thread keeps the inductive invariant.               *)
THEOREM RoomInvariant == Spec => []IInv
<1> QED BY InitIInv, StepIInv, PTL DEF Spec

(* The state stays in its type: a snapshot is of the squad, and a reset    *)
(* clears each map once.                                                   *)
THEOREM RoomTypeCorrect == Spec => []TypeOK
<1>1. IInv => TypeOK
  BY IInvImplies
<1> QED BY <1>1, RoomInvariant, PTL

(* AnnounceNewMember and ReannounceMember: once the squad is moved in, two *)
(* members who never hid show each other.                                  *)
THEOREM EverybodySeen == Spec => []EveryoneSeen
<1>1. IInv => EveryoneSeen
  BY IInvImplies
<1> QED BY <1>1, RoomInvariant, PTL

(* ResetWorldStateIfNoVisibleMembers: when nobody is visible and no reset  *)
(* is under way, no claim of a visible member stands, however many hide or *)
(* leave at once, whoever comes back meanwhile, and though the handler of  *)
(* one that leaves may go on to hide, show and claim.                      *)
THEOREM WorldFresh == Spec => []FreshWorld
<1>1. IInv => FreshWorld
  BY IInvImplies
<1> QED BY <1>1, RoomInvariant, PTL

(* C2S_EnemyClaimRequest and ReleaseEnemiesOwnedBy: whoever drives an      *)
(* enemy is a member, is being unregistered, or was granted it after it    *)
(* had left.                                                               *)
THEOREM OwnersPresent == Spec => []OwnerPresent
<1>1. IInv => OwnerPresent
  BY IInvImplies
<1> QED BY <1>1, RoomInvariant, PTL
=============================================================================
