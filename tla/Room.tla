-------------------------------- MODULE Room --------------------------------
(***************************************************************************)
(* One room from the moment its squad is moved in: the roster its members  *)
(* see, the world state they claim, the enemies they drive, and what       *)
(* becomes of each when a member hides or disconnects.  Network/Room.cpp,  *)
(* the handlers of Network/Session.cpp that use it, and the part of        *)
(* UnregisterSession (Network/EchoServer.cpp) that leaves it.              *)
(*                                                                         *)
(* Every map of a Room has its own mutex, held for one access: an action   *)
(* is one such access, one read of a visible_ flag, or one Send.  Three    *)
(* threads interleave (see Matchmaking): "recv" runs the handlers, "recv"  *)
(* and "send" unregister, "tick" re-announces the members; "recv" or       *)
(* "tick" moves the squad in.  "send" may unregister the very session      *)
(* whose handler "recv" is in, which goes on and still has its room.  What *)
(* a client shows of the others is taken to follow the messages it is sent *)
(* (external).                                                             *)
(***************************************************************************)
EXTENDS Integers, Sequences, FiniteSets

CONSTANTS
  Players,    \* the sessions of the squad
  ClearOrder, \* the maps of world state the model has, of those below
  Enemies,    \* enemy ids of the client-driven kind
  MaxResync,  \* bound: resyncWindow_ divided by resyncInterval_
  None        \* no session, no thread

(* Those that ResetWorldStateIfNoVisibleMembers clears, in its order.      *)
(* Each is modelled with one key, which has an entry or has none.          *)
Maps == <<"pickedUpItems", "itemSpawnRolls", "containerLoot", "doorStates", "enemyAi">>

Threads == {"recv", "send", "tick"}

ASSUME RoomAssumption ==
  /\ IsFiniteSet(Players) /\ None \notin Players \cup Threads
  /\ ClearOrder \in Seq(STRING)
  /\ \E at \in [DOMAIN ClearOrder -> DOMAIN Maps] :
       /\ \A i \in DOMAIN ClearOrder : ClearOrder[i] = Maps[at[i]]
       /\ \A i, j \in DOMAIN ClearOrder : i < j => at[i] < at[j]
  /\ MaxResync \in Nat

(* The maps that clients write. *)
Claimable == { ClearOrder[i] : i \in DOMAIN ClearOrder }

VARIABLES
  joining,   \* the squad members AddSession has not been called for
  former,    \* the thread that calls it
  members,   \* members_
  resyncs,   \* how often the members were all announced again
  shown,     \* the other players each client shows
  visible,   \* visible_ of each session
  left,      \* the sessions that are being unregistered, or were
  world,     \* the maps that have their entry
  owner,     \* enemyOwners_
  handled,   \* the session whose OnRecvCompletion "recv" is in
  pc, who,   \* where each thread is, and the session it serves
  subjects,  \* the sessions a thread has yet to announce
  to,        \* its snapshot: the sessions it has yet to send to, or to look at
  cleared,   \* how many maps its reset has cleared
  inSight,   \* history: the maps whose entry was made by a visible member
  strays,    \* history: the enemies claimed by a session that had left
  seen       \* history: the sessions that never hid

rosterVars == <<joining, former, members, resyncs, shown>>
worldVars == <<visible, left, world, owner>>
threadVars == <<handled, pc, who, subjects, to, cleared>>
history == <<inSight, strays, seen>>
vars == <<rosterVars, worldVars, threadVars, history>>

TypeOK ==
  /\ joining \subseteq Players /\ members \subseteq Players /\ left \subseteq Players
  /\ former \in {"recv", "tick", None}
  /\ resyncs \in 0 .. MaxResync
  /\ shown \in [Players -> SUBSET Players]
  /\ visible \in [Players -> BOOLEAN]
  /\ world \subseteq Claimable
  /\ owner \in [Enemies -> Players \cup {None}]
  /\ handled \in Players \cup {None}
  /\ pc \in [Threads -> {"idle", "form", "announce", "tellNew", "tellOthers", "move",
                         "hide", "look", "leave", "sayLeft"}]
  /\ who \in [Threads -> Players \cup {None}]
  /\ subjects \in [Threads -> SUBSET Players] /\ to \in [Threads -> SUBSET Players]
  /\ cleared \in [Threads -> 0 .. Len(ClearOrder)]
  /\ inSight \subseteq Claimable /\ strays \subseteq Enemies /\ seen \subseteq Players

(* The thread that formed the squad is about to move it in; "recv" forms   *)
(* one in the handler of the session that filled it.                       *)
Init ==
  /\ joining = Players /\ members = {} /\ left = {}
  /\ former \in {"recv", "tick"}
  /\ resyncs = 0
  /\ shown = [s \in Players |-> {}]
  /\ visible = [s \in Players |-> TRUE]
  /\ world = {}
  /\ owner = [e \in Enemies |-> None]
  /\ handled \in IF former = "recv" THEN Players ELSE {None}
  /\ pc = [t \in Threads |-> IF t = former THEN "form" ELSE "idle"]
  /\ who = [t \in Threads |-> None]
  /\ subjects = [t \in Threads |-> {}] /\ to = [t \in Threads |-> {}]
  /\ cleared = [t \in Threads |-> 0]
  /\ inSight = {} /\ strays = {} /\ seen = Players

(* SnapshotOtherSessions *)
Others(s) == members \ {s}

(* Thread t goes on at a place, for a session, with a snapshot to work on. *)
Goto(t, where, s, snapshot) ==
  /\ pc' = [pc EXCEPT ![t] = where]
  /\ who' = [who EXCEPT ![t] = s]
  /\ to' = [to EXCEPT ![t] = snapshot]
  /\ UNCHANGED <<handled, cleared>>

Finish(t) == Goto(t, "idle", None, {})

(* One client of the snapshot is served. *)
Served(t, other) ==
  /\ to' = [to EXCEPT ![t] = @ \ {other}]
  /\ UNCHANGED <<handled, pc, who, subjects, cleared>>

-----------------------------------------------------------------------------
(* CreateRoomForSquad's next AddSession: the session gets its room, is a   *)
(* member, and is announced.                                               *)
AddSession(t, s) ==
  /\ pc[t] = "form" /\ s \in joining
  /\ joining' = joining \ {s}
  /\ members' = members \cup {s}
  /\ Goto(t, "announce", s, {})
  /\ UNCHANGED <<former, resyncs, shown, subjects, worldVars, history>>

FormDone(t) ==
  /\ pc[t] = "form" /\ joining = {}
  /\ former' = None
  /\ Finish(t)
  /\ UNCHANGED <<joining, members, resyncs, shown, subjects, worldVars, history>>

(* ReannounceMember announces a member as if it were new. *)
ReannounceMember(t, s) == Goto(t, "announce", s, {})

(* AnnounceNewMember: everyone else is told to the newcomer ...            *)
Announce(t) ==
  /\ pc[t] = "announce"
  /\ Goto(t, "tellNew", who[t], Others(who[t]))
  /\ UNCHANGED <<rosterVars, subjects, worldVars, history>>

TellNew(t, other) ==
  /\ pc[t] = "tellNew" /\ other \in to[t]
  /\ shown' = [shown EXCEPT ![who[t]] = @ \cup {other}]
  /\ Served(t, other)
  /\ UNCHANGED <<joining, former, members, resyncs, worldVars, history>>

(* Mutation of ThenOthers: nobody else is told. *)
ThenOthersNobody(t) ==
  /\ pc[t] = "tellNew" /\ to[t] = {}
  /\ Goto(t, "tellOthers", who[t], {})
  /\ UNCHANGED <<rosterVars, subjects, worldVars, history>>

(* ... then the newcomer to everyone else, on a new snapshot.              *)
ThenOthers(t) ==
  /\ pc[t] = "tellNew" /\ to[t] = {}
  /\ Goto(t, "tellOthers", who[t], Others(who[t]))
  /\ UNCHANGED <<rosterVars, subjects, worldVars, history>>

(* One Send of a Broadcast that puts who[t] on the other client's screen:  *)
(* S2C_SendPlayerInfo or S2C_MoveState.                                    *)
TellOther(t, other) ==
  /\ pc[t] \in {"tellOthers", "move"} /\ other \in to[t]
  /\ shown' = [shown EXCEPT ![other] = @ \cup {who[t]}]
  /\ Served(t, other)
  /\ UNCHANGED <<joining, former, members, resyncs, worldVars, history>>

(* On to the next session of the squad, or of the resync, or done.         *)
Announced(t) ==
  /\ pc[t] \in {"tellOthers", "move"} /\ to[t] = {}
  /\ \/ t = former /\ Goto(t, "form", None, {}) /\ UNCHANGED subjects
     \/ \E s \in subjects[t] :
          /\ ReannounceMember(t, s)
          /\ subjects' = [subjects EXCEPT ![t] = @ \ {s}]
     \/ t # former /\ subjects[t] = {} /\ Finish(t) /\ UNCHANGED subjects
  /\ UNCHANGED <<rosterVars, worldVars, history>>

(* Mutation of Resync: the window does not end it. *)
ResyncForever ==
  /\ pc["tick"] = "idle" /\ members # {}
  /\ resyncs' = resyncs + 1
  /\ \E s \in members :
       /\ ReannounceMember("tick", s)
       /\ subjects' = [subjects EXCEPT !["tick"] = members \ {s}]
  /\ UNCHANGED <<joining, former, members, shown, worldVars, history>>

(* Tick's MaybeResyncAllMembers, while the room is young. *)
Resync ==
  /\ pc["tick"] = "idle" /\ resyncs < MaxResync /\ members # {}
  /\ resyncs' = resyncs + 1
  /\ \E s \in members :
       /\ ReannounceMember("tick", s)
       /\ subjects' = [subjects EXCEPT !["tick"] = members \ {s}]
  /\ UNCHANGED <<joining, former, members, shown, worldVars, history>>

-----------------------------------------------------------------------------
(* OnRecvCompletion of a session begins; it handles packets one by one. *)
Handle(s) ==
  /\ pc["recv"] = "idle" /\ handled = None
  /\ s \notin left
  /\ handled' = s
  /\ UNCHANGED <<rosterVars, worldVars, pc, who, subjects, to, cleared, history>>

HandlerDone ==
  /\ pc["recv"] = "idle" /\ handled # None
  /\ handled' = None
  /\ UNCHANGED <<rosterVars, worldVars, pc, who, subjects, to, cleared, history>>

(* "recv" takes the next packet of s, which has its room, and keeps it     *)
(* when it is unregistered: no handler looks whether it was.               *)
Handling(s) == handled = s /\ pc["recv"] = "idle" /\ s \notin joining

(* C2S_MultiMapReady *)
MultiMapReady(s) ==
  /\ Handling(s)
  /\ ReannounceMember("recv", s)
  /\ UNCHANGED <<rosterVars, subjects, worldVars, history>>

(* C2S_MoveInput, for whatever map the player is in. *)
MoveInput(s) ==
  /\ Handling(s)
  /\ Goto("recv", "move", s, Others(s))
  /\ UNCHANGED <<rosterVars, subjects, worldVars, history>>

(***************************************************************************)
(* A claim on an entry of the world: the pickup of an item, a roll for a   *)
(* container or a spawn point, a door toggle, an enemy's registration.     *)
(* The first wins and stands, except that a door has its last toggle.      *)
(***************************************************************************)
Claim(s, m) ==
  /\ Handling(s)
  /\ m = "doorStates" \/ m \notin world
  /\ world' = world \cup {m}
  /\ inSight' = IF visible[s] /\ s \in members THEN inSight \cup {m} ELSE inSight \ {m}
  /\ UNCHANGED <<rosterVars, visible, left, owner, threadVars, strays, seen>>

(* C2S_EnemyClaimRequest, granted. *)
ClaimEnemy(s, e) ==
  /\ Handling(s)
  /\ owner[e] = None
  /\ owner' = [owner EXCEPT ![e] = s]
  /\ strays' = IF s \in left THEN strays \cup {e} ELSE strays \ {e}
  /\ UNCHANGED <<rosterVars, visible, left, world, threadVars, inSight, seen>>

(* C2S_SetVisible: to come back takes nothing more, to hide is told to the *)
(* others, and may end the visit.                                          *)
Show(s) ==
  /\ Handling(s) /\ ~visible[s]
  /\ visible' = [visible EXCEPT ![s] = TRUE]
  /\ UNCHANGED <<rosterVars, left, world, owner, threadVars, history>>

Hide(s) ==
  /\ Handling(s)
  /\ visible' = [visible EXCEPT ![s] = FALSE]
  /\ seen' = seen \ {s}
  /\ Goto("recv", "hide", s, Others(s))
  /\ UNCHANGED <<rosterVars, left, world, owner, subjects, inSight, strays>>

(* One Send of a Broadcast of S2C_PlayerLeft. *)
TellLeft(t, other) ==
  /\ pc[t] \in {"hide", "sayLeft"} /\ other \in to[t]
  /\ shown' = [shown EXCEPT ![other] = @ \ {who[t]}]
  /\ Served(t, other)
  /\ UNCHANGED <<joining, former, members, resyncs, worldVars, history>>

(* ResetWorldStateIfNoVisibleMembers, after SetVisible's broadcast. *)
Hidden ==
  /\ pc["recv"] = "hide" /\ to["recv"] = {}
  /\ Goto("recv", "look", who["recv"], members)
  /\ UNCHANGED <<rosterVars, subjects, worldVars, history>>

(* The reset's caller is UnregisterSession, and not a handler. *)
Unregistering(t) == t = "send" \/ handled = None

(* What follows the reset: the caller is SetVisible or UnregisterSession. *)
AfterReset(t) ==
  IF Unregistering(t) THEN Goto(t, "leave", who[t], {}) ELSE Finish(t)

(* Its loop reads one flag after the other, and gives up on a visible one. *)
Look(t, other) ==
  /\ pc[t] = "look" /\ other \in to[t]
  /\ \/ visible[other] /\ AfterReset(t) /\ UNCHANGED subjects
     \/ ~visible[other] /\ Served(t, other)
  /\ UNCHANGED <<rosterVars, worldVars, history>>

(* Nobody was: the maps are cleared one by one; enemyOwners_ is not among  *)
(* them.                                                                   *)
Clear(t) ==
  /\ pc[t] = "look" /\ to[t] = {}
  /\ \/ LET m == ClearOrder[cleared[t] + 1]
        IN /\ cleared[t] < Len(ClearOrder)
           /\ world' = world \ {m}
           /\ inSight' = inSight \ {m}
           /\ cleared' = [cleared EXCEPT ![t] = @ + 1]
           /\ UNCHANGED <<pc, who, to>>
     \/ /\ cleared[t] = Len(ClearOrder)
        /\ cleared' = [cleared EXCEPT ![t] = 0]
        /\ pc' = [pc EXCEPT ![t] = IF Unregistering(t) THEN "leave" ELSE "idle"]
        /\ who' = [who EXCEPT ![t] = IF Unregistering(t) THEN @ ELSE None]
        /\ UNCHANGED <<to, world, inSight>>
  /\ UNCHANGED <<rosterVars, visible, left, owner, handled, subjects, strays, seen>>

-----------------------------------------------------------------------------
(***************************************************************************)
(* A thread whose ReleaseIfIdle found the session closing and idle.  "recv" *)
(* comes to it between two handlers, "send" at any time, a handler of the  *)
(* session included.  Matchmaker::Cancel has waited for the squad to be    *)
(* moved in, unless the session was queued after it (Matchmaking's late):  *)
(* "send" has one such session at most.                                    *)
(***************************************************************************)
MayUnregister(t, s) ==
  /\ pc[t] = "idle" /\ s \in members
  /\ t = "send" \/ (t = "recv" /\ handled = None)
  /\ former = None \/ (t = "send" /\ left = {})

(* Mutation of Unregister: the reset looks before the session has left. *)
UnregisterLooksFirst(t, s) ==
  /\ MayUnregister(t, s)
  /\ left' = left \cup {s}
  /\ members' = members \ {s}
  /\ Goto(t, "look", s, members)
  /\ UNCHANGED <<joining, former, resyncs, shown, visible, world, owner, subjects,
                 inSight, strays, seen>>

(* UnregisterSession from RemoveSession on. *)
Unregister(t, s) ==
  /\ MayUnregister(t, s)
  /\ left' = left \cup {s}
  /\ members' = members \ {s}
  /\ Goto(t, "look", s, members')
  /\ UNCHANGED <<joining, former, resyncs, shown, visible, world, owner, subjects,
                 inSight, strays, seen>>

(* S2C_PlayerLeft to whoever is left. *)
SayLeft(t) ==
  /\ pc[t] = "leave"
  /\ Goto(t, "sayLeft", who[t], Others(who[t]))
  /\ UNCHANGED <<rosterVars, subjects, worldVars, history>>

(* Mutation of ReleaseEnemies: the leaver's enemies are not released. *)
ReleaseNone(t) ==
  /\ pc[t] = "sayLeft" /\ to[t] = {}
  /\ Finish(t)
  /\ UNCHANGED <<rosterVars, subjects, worldVars, history>>

(* Then ReleaseEnemiesOwnedBy; what the others are told changes nothing here. *)
ReleaseEnemies(t) ==
  /\ pc[t] = "sayLeft" /\ to[t] = {}
  /\ owner' = [e \in Enemies |-> IF owner[e] = who[t] THEN None ELSE owner[e]]
  /\ Finish(t)
  /\ UNCHANGED <<rosterVars, visible, left, world, subjects, history>>

Roster(t) ==
  \/ \E s \in Players : AddSession(t, s) \/ TellNew(t, s) \/ TellOther(t, s)
  \/ FormDone(t) \/ Announce(t) \/ ThenOthers(t) \/ Announced(t)

Handler(s) ==
  \/ Handle(s)
  \/ MultiMapReady(s) \/ MoveInput(s) \/ Show(s) \/ Hide(s)
  \/ \E m \in Claimable : Claim(s, m)
  \/ \E e \in Enemies : ClaimEnemy(s, e)

Leaving(t) ==
  \/ \E s \in Players : Unregister(t, s) \/ TellLeft(t, s) \/ Look(t, s)
  \/ Clear(t) \/ SayLeft(t) \/ ReleaseEnemies(t)

Next ==
  \/ \E t \in Threads : Roster(t) \/ Leaving(t)
  \/ \E s \in Players : Handler(s)
  \/ HandlerDone
  \/ Resync
  \/ Hidden

Spec == Init /\ [][Next]_vars

-----------------------------------------------------------------------------
Announcing == \E t \in Threads : pc[t] \in {"announce", "tellNew", "tellOthers"}
Resetting == \E t \in Threads : pc[t] \in {"hide", "look"}

(* Once the squad is moved in, two members who never hid show each other,  *)
(* whoever was added first and whatever was announced again meanwhile      *)
(* (Room.h, AnnounceNewMember; the bug Room.h's ReannounceMember is for).  *)
EveryoneSeen ==
  former = None =>
    \A s, x \in members : x # s /\ x \in seen => x \in shown[s]

(***************************************************************************)
(* While nobody is visible, and no reset is under way, no claim made by a  *)
(* visible member stands: the last one out resets the world even when two  *)
(* leave at once, each seeing the other still there, and even if it still  *)
(* hides, shows or claims after (ResetWorldStateIfNoVisibleMembers after   *)
(* RemoveSession, or after visible_ is set).  A claim that a session makes *)
(* once it is no member any more is not cleared by anything.               *)
(***************************************************************************)
FreshWorld ==
  (\A s \in members : ~visible[s]) /\ ~Resetting =>
    inSight \cap world = {}

(* Thread t has yet to release the enemies of the session that leaves. *)
Releases(t, s) ==
  /\ who[t] = s /\ Unregistering(t)
  /\ pc[t] \in {"look", "leave", "sayLeft"}

(***************************************************************************)
(* An enemy is driven by nobody, by a member, or by a session whose        *)
(* unregistration has yet to release it: no enemy stands still for ever    *)
(* because its owner has gone (enemy.fbs: the next claim "should succeed").*)
(* A claim granted to a session that has left already can come after the   *)
(* release, and then stands: the strays.                                   *)
(***************************************************************************)
OwnerPresent ==
  \A e \in Enemies \ strays :
    owner[e] \in members \cup {None} \/ \E t \in Threads : Releases(t, owner[e])

(* A claim is cleared only while nobody is visible (Room.h: it is          *)
(* forgotten "once no member is currently visible").  It fails: a reset    *)
(* that saw nobody visible goes on after somebody has come back.           *)
ClearedInTheDark ==
  [][\A m \in world \ world', s \in members : ~visible[s]]_vars

(* When nothing is being sent, a client shows members who are in the room  *)
(* (EchoServer.cpp: "despawn this player's remote actor instead of leaving *)
(* a frozen ghost").  It fails: the roster is announced from a snapshot    *)
(* that may hold a session which leaves before it is used.                 *)
NoGhost ==
  (\A t \in Threads : pc[t] = "idle") =>
    \A s \in members : shown[s] \subseteq members
=============================================================================
