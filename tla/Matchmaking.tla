---------------------------- MODULE Matchmaking -----------------------------
(***************************************************************************)
(* From an accepted session to a room and out of it again: Matchmaker's    *)
(* queue and window (Network/Matchmaker.cpp), CreateRoomForSquad and       *)
(* UnregisterSession (Network/EchoServer.cpp), AddSession and              *)
(* RemoveSession (Network/Room.cpp).                                       *)
(*                                                                         *)
(* Three threads work on this state.  "recv" drains the receive completion *)
(* queue and runs every session's packet handlers, "send" drains the send  *)
(* completion queue, "tick" is BackgroundTickLoop: RIONotify is armed once *)
(* a queue is drained, so each queue has one thread at a time.  recv and   *)
(* send both run UnregisterSession, and send may run it while recv is      *)
(* still inside a handler of the same session: OnRecvCompletion gives the  *)
(* session's last pending operation back before it handles the packets.    *)
(* An action is what one thread does in one critical section; the one long *)
(* section, forming a squad under Matchmaker::lock_, is cut at each        *)
(* AddSession.                                                             *)
(***************************************************************************)
EXTENDS Integers, FiniteSets

CONSTANTS
  Sessions,   \* the sessions ever accepted; ids are never used again
  MaxSquad,   \* maxSquadSize_
  Window,     \* matchWindow_, in ticks of the clock
  MaxAuth,    \* how many logins, or match joins, a connection makes
  MaxRooms,   \* bound on the rooms ever formed
  None        \* no thread, no session

Threads == {"recv", "send", "tick"}

ASSUME MatchAssumption ==
  /\ IsFiniteSet(Sessions) /\ None \notin Sessions \cup Threads
  /\ MaxSquad \in Nat \ {0}
  /\ Window \in Nat
  /\ MaxAuth \in Nat \ {0}
  /\ MaxRooms \in Nat

RoomIds == 1 .. MaxRooms

(* The n-th QueuedSession made for a session. *)
Entry == [id : Sessions, nth : 1 .. MaxAuth]

VARIABLES
  life,       \* "new", "live" (in sessions_) or "gone", for each session
  auths,      \* how often each session has authenticated
  late,       \* history: the sessions queued after their own Cancel
  queue,      \* queue_; the entries of a session are in the order of nth
  elapsed,    \* time since windowStartedAt_, up to Window
  lock,       \* the thread that holds Matchmaker::lock_ across steps
  forming,    \* the squad being moved into its room: the room and who is left
  listed,     \* the keys of rooms_
  nextRoom,   \* nextRoomId_
  members,    \* members_ of each room
  roomOf,     \* room_ of each session, 0 before it has one
  pc,         \* where each thread is
  arg,        \* the session whose handler or unregistration a thread runs
  room,       \* UnregisterSession's local copy of GetRoom()
  completes   \* how many S2C_MatchmakingComplete each session was sent

vars == <<life, auths, late, queue, elapsed, lock, forming, listed,
          nextRoom, members, roomOf, pc, arg, room, completes>>

NotForming == [room |-> 0, left |-> {}]

TypeOK ==
  /\ life \in [Sessions -> {"new", "live", "gone"}]
  /\ auths \in [Sessions -> 0 .. MaxAuth]
  /\ late \subseteq Sessions
  /\ queue \subseteq Entry
  /\ elapsed \in 0 .. Window
  /\ lock \in Threads \cup {None}
  /\ forming \in [room : 0 .. MaxRooms, left : SUBSET Entry]
  /\ listed \subseteq RoomIds
  /\ nextRoom \in 1 .. MaxRooms + 1
  /\ members \in [RoomIds -> SUBSET Sessions]
  /\ roomOf \in [Sessions -> 0 .. MaxRooms]
  /\ pc \in [Threads -> {"idle", "handle", "auth", "form",
                         "cancel", "leave", "count", "erase"}]
  /\ arg \in [Threads -> Sessions \cup {None}]
  /\ room \in [Threads -> 0 .. MaxRooms]
  /\ completes \in [Sessions -> Nat]

Init ==
  /\ life = [s \in Sessions |-> "new"]
  /\ auths = [s \in Sessions |-> 0]
  /\ late = {}
  /\ queue = {} /\ elapsed = 0
  /\ lock = None /\ forming = NotForming
  /\ listed = {} /\ nextRoom = 1
  /\ members = [r \in RoomIds |-> {}]
  /\ roomOf = [s \in Sessions |-> 0]
  /\ pc = [t \in Threads |-> "idle"]
  /\ arg = [t \in Threads |-> None]
  /\ room = [t \in Threads |-> 0]
  /\ completes = [s \in Sessions |-> 0]

Goto(t, where, s) ==
  /\ pc' = [pc EXCEPT ![t] = where]
  /\ arg' = [arg EXCEPT ![t] = s]

-----------------------------------------------------------------------------
(* OnAccepted puts the new session into sessions_. *)
Accept(s) ==
  /\ life[s] = "new"
  /\ life' = [life EXCEPT ![s] = "live"]
  /\ UNCHANGED <<auths, late, queue, elapsed, lock, forming, listed, nextRoom,
                 members, roomOf, pc, arg, room, completes>>

(* OnRecvCompletion of a session begins, and handles packets one by one. *)
Handle(s) ==
  /\ pc["recv"] = "idle" /\ life[s] = "live"
  /\ Goto("recv", "handle", s)
  /\ UNCHANGED <<life, auths, late, queue, elapsed, lock, forming, listed,
                 nextRoom, members, roomOf, room, completes>>

(***************************************************************************)
(* C2S_Login, or C2S_JoinMatch with a good ticket, has authenticated: the  *)
(* handler goes on to EnqueueForMatch, with no look at whether the session *)
(* is queued or in a room already, or closing (FinishAuthenticatedLogin).  *)
(***************************************************************************)
Authenticate ==
  LET s == arg["recv"]
  IN /\ pc["recv"] = "handle"
     /\ auths[s] < MaxAuth
     /\ auths' = [auths EXCEPT ![s] = @ + 1]
     /\ Goto("recv", "auth", s)
     /\ UNCHANGED <<life, late, queue, elapsed, lock, forming, listed, nextRoom,
                    members, roomOf, room, completes>>

HandlerDone ==
  /\ pc["recv"] = "handle"
  /\ Goto("recv", "idle", None)
  /\ UNCHANGED <<life, auths, late, queue, elapsed, lock, forming, listed,
                 nextRoom, members, roomOf, room, completes>>

Matched(squad, s) == { e \in squad : e.id = s }

(* Mutation of FormSquad: a room that still has a place is filled up. *)
FormSquadLateJoin(t, squad, s) ==
  LET open == { r \in listed : Cardinality(members[r]) + Cardinality(squad) <= MaxSquad }
      r == IF open = {} THEN nextRoom ELSE CHOOSE x \in open : TRUE
  IN /\ nextRoom <= MaxRooms
     /\ queue' = {}
     /\ completes' = [x \in Sessions |-> completes[x] + Cardinality(Matched(squad, x))]
     /\ forming' = [room |-> r, left |-> squad]
     /\ listed' = listed \cup {r}
     /\ nextRoom' = IF open = {} THEN nextRoom + 1 ELSE nextRoom
     /\ lock' = t /\ Goto(t, "form", s)

(***************************************************************************)
(* FormSquadLocked up to formRoom_, and CreateRoomForSquad up to its loop: *)
(* the queue is emptied, everyone in it is told, a room with a fresh id is *)
(* put into rooms_.  lock_ stays held.                                     *)
(***************************************************************************)
FormSquad(t, squad, s) ==
  /\ nextRoom <= MaxRooms
  /\ queue' = {}
  /\ completes' = [x \in Sessions |-> completes[x] + Cardinality(Matched(squad, x))]
  /\ forming' = [room |-> nextRoom, left |-> squad]
  /\ listed' = listed \cup {nextRoom}
  /\ nextRoom' = nextRoom + 1
  /\ lock' = t /\ Goto(t, "form", s)

Full(n) == n >= MaxSquad

(* UnregisterSession of the session has been past its Cancel. *)
Cancelled(s) ==
  /\ life[s] = "gone"
  /\ \A t \in Threads : arg[t] = s => pc[t] # "cancel"

(***************************************************************************)
(* Matchmaker::Enqueue.  The first entry opens the window; the one that    *)
(* fills the squad forms it at once.                                       *)
(***************************************************************************)
Enqueue ==
  LET s == arg["recv"]
      q == queue \cup {[id |-> s, nth |-> auths[s]]}
  IN /\ pc["recv"] = "auth" /\ lock = None
     /\ elapsed' = IF queue = {} THEN 0 ELSE elapsed
     /\ late' = IF Cancelled(s) THEN late \cup {s} ELSE late
     /\ \/ /\ Full(Cardinality(q))
           /\ FormSquad("recv", q, s)
        \/ /\ ~Full(Cardinality(q))
           /\ queue' = q
           /\ Goto("recv", "handle", s)
           /\ UNCHANGED <<lock, forming, listed, nextRoom, completes>>
     /\ UNCHANGED <<life, auths, members, roomOf, room>>

(* Time passes; it only matters while somebody waits. *)
Clock ==
  /\ queue # {} /\ elapsed < Window
  /\ elapsed' = elapsed + 1
  /\ UNCHANGED <<life, auths, late, queue, lock, forming, listed, nextRoom,
                 members, roomOf, pc, arg, room, completes>>

(* Mutation of TickTimeouts: a lone player is left waiting for a second. *)
TickTimeoutsNotAlone ==
  /\ pc["tick"] = "idle" /\ lock = None
  /\ Cardinality(queue) > 1 /\ elapsed >= Window
  /\ FormSquad("tick", queue, None)
  /\ UNCHANGED <<life, auths, late, elapsed, members, roomOf, room>>

TickTimeouts ==
  /\ pc["tick"] = "idle" /\ lock = None
  /\ queue # {} /\ elapsed >= Window
  /\ FormSquad("tick", queue, None)
  /\ UNCHANGED <<life, auths, late, elapsed, members, roomOf, room>>

(***************************************************************************)
(* One round of CreateRoomForSquad's loop: Room::AddSession sets the       *)
(* session's room and makes it a member.  The squad is taken in any order. *)
(* Only the unregistration of a late session can look in between, and it   *)
(* leaves the session in the room, as one that came before SetRoom does.   *)
(***************************************************************************)
AddSession(t, e) ==
  /\ pc[t] = "form" /\ e \in forming.left
  /\ roomOf' = [roomOf EXCEPT ![e.id] = forming.room]
  /\ members' = [members EXCEPT ![forming.room] = @ \cup {e.id}]
  /\ forming' = [room |-> forming.room, left |-> forming.left \ {e}]
  /\ UNCHANGED <<life, auths, late, queue, elapsed, lock, listed, nextRoom, pc, arg,
                 room, completes>>

FormDone(t) ==
  /\ pc[t] = "form" /\ forming.left = {}
  /\ forming' = NotForming
  /\ lock' = None
  /\ Goto(t, IF t = "recv" THEN "handle" ELSE "idle", arg[t])
  /\ UNCHANGED <<life, auths, late, queue, elapsed, listed, nextRoom, members, roomOf,
                 room, completes>>

(***************************************************************************)
(* UnregisterSession, run by a thread whose ReleaseIfIdle found the        *)
(* session closing and idle: first it leaves sessions_.  A handler of the  *)
(* session that recv is in goes on.                                        *)
(***************************************************************************)
Unregister(t, s) ==
  /\ t # "tick" /\ pc[t] = "idle"
  /\ life[s] = "live"
  /\ life' = [life EXCEPT ![s] = "gone"]
  /\ Goto(t, "cancel", s)
  /\ UNCHANGED <<auths, late, queue, elapsed, lock, forming, listed, nextRoom, members,
                 roomOf, room, completes>>

(* The entry Cancel erases: the first of the session's in the queue. *)
First(s) ==
  { e \in queue : e.id = s /\ \A f \in queue : f.id = s => e.nth <= f.nth }

(* Mutation of Cancel: it does not take lock_. *)
CancelUnlocked(t) ==
  /\ pc[t] = "cancel"
  /\ queue' = queue \ First(arg[t])
  /\ Goto(t, "leave", arg[t])
  /\ UNCHANGED <<life, auths, late, elapsed, lock, forming, listed, nextRoom, members,
                 roomOf, room, completes>>

Cancel(t) ==
  /\ pc[t] = "cancel" /\ lock = None
  /\ queue' = queue \ First(arg[t])
  /\ Goto(t, "leave", arg[t])
  /\ UNCHANGED <<life, auths, late, elapsed, lock, forming, listed, nextRoom, members,
                 roomOf, room, completes>>

(* GetRoom and, if there is one, Room::RemoveSession. *)
LeaveRoom(t) ==
  LET s == arg[t]
  IN /\ pc[t] = "leave"
     /\ room' = [room EXCEPT ![t] = roomOf[s]]
     /\ \/ /\ roomOf[s] = 0
           /\ Goto(t, "idle", None)
           /\ UNCHANGED members
        \/ /\ roomOf[s] # 0
           /\ members' = [members EXCEPT ![roomOf[s]] = @ \ {s}]
           /\ Goto(t, "count", s)
     /\ UNCHANGED <<life, auths, late, queue, elapsed, lock, forming, listed, nextRoom,
                    roomOf, completes>>

(* Mutation of MemberCount: it is off by one, as if the leaver counted. *)
MemberCountOne(t) ==
  /\ pc[t] = "count"
  /\ IF Cardinality(members[room[t]]) = 1
       THEN Goto(t, "erase", arg[t])
       ELSE Goto(t, "idle", None)
  /\ UNCHANGED <<life, auths, late, queue, elapsed, lock, forming, listed,
                 nextRoom, members, roomOf, room, completes>>

(* MemberCount under membersLock_: is the room empty? *)
MemberCount(t) ==
  /\ pc[t] = "count"
  /\ IF members[room[t]] = {}
       THEN Goto(t, "erase", arg[t])
       ELSE Goto(t, "idle", None)
  /\ UNCHANGED <<life, auths, late, queue, elapsed, lock, forming, listed,
                 nextRoom, members, roomOf, room, completes>>

(* Under roomsLock_, the room that was empty leaves rooms_. *)
EraseRoom(t) ==
  /\ pc[t] = "erase"
  /\ listed' = listed \ {room[t]}
  /\ Goto(t, "idle", None)
  /\ UNCHANGED <<life, auths, late, queue, elapsed, lock, forming, nextRoom,
                 members, roomOf, room, completes>>

(* What a thread does next in what it has begun. *)
Continue(t) ==
  \/ \E e \in Entry : AddSession(t, e)
  \/ FormDone(t)
  \/ Cancel(t)
  \/ LeaveRoom(t)
  \/ MemberCount(t)
  \/ EraseRoom(t)

Next ==
  \/ \E s \in Sessions : Accept(s) \/ Handle(s)
  \/ Authenticate
  \/ HandlerDone
  \/ \E s \in Sessions, t \in Threads : Unregister(t, s)
  \/ Enqueue
  \/ Clock
  \/ TickTimeouts
  \/ \E t \in Threads : Continue(t)

Spec == Init /\ [][Next]_vars

(***************************************************************************)
(* The threads run, the clock advances, BackgroundTickLoop keeps ticking.  *)
(* Nothing is asked of the clients: they connect, log in and go at will.   *)
(***************************************************************************)
Fairness ==
  /\ WF_vars(HandlerDone)
  /\ WF_vars(Enqueue)
  /\ WF_vars(Clock)
  /\ WF_vars(TickTimeouts)
  /\ \A t \in Threads : WF_vars(Continue(t))

FairSpec == Spec /\ Fairness

-----------------------------------------------------------------------------
Queued(s) == \E e \in queue : e.id = s
Forming(s) == \E e \in forming.left : e.id = s

(* A squad is never larger than kMaxSquadSize, nor is a room, and a queue  *)
(* that could fill one is not left waiting (Matchmaker.h: "never more than *)
(* maxSquadSize_, since Enqueue forms immediately upon reaching it").      *)
SquadFits ==
  /\ Cardinality(queue) < MaxSquad
  /\ \A r \in RoomIds :
       Cardinality(members[r] \cup { e.id : e \in { x \in forming.left : forming.room = r } })
         <= MaxSquad

(***************************************************************************)
(* The code keeps its promises to a session that logs in once and is not   *)
(* put back into the queue by a handler its unregistration has overtaken.  *)
(* Of the others it keeps none: a second login queues the session again,   *)
(* from a room too, and nothing ever looks for one queued late.            *)
(***************************************************************************)
Loose(s) == auths[s] > 1 \/ s \in late

(* A session is in the queue, in the squad being formed or in a room, one  *)
(* of them at a time and in one room only (EchoServer.h: a match has one   *)
(* room whose members are fixed).                                          *)
OnePlace ==
  \A s \in Sessions : auths[s] <= 1 =>
    /\ ~(Queued(s) /\ Forming(s))
    /\ \A r \in RoomIds : s \in members[r] => /\ ~Queued(s) /\ ~Forming(s)
                                              /\ r = roomOf[s]

(* Once a thread has unregistered a session it is in no queue, no squad    *)
(* being formed and no room (Matchmaker.h, Cancel: "so it doesn't linger   *)
(* in the queue (or get handed to formRoom_ as a stale entry ...)").       *)
GoneNowhere ==
  \A s \in Sessions :
    /\ ~Loose(s)
    /\ Cancelled(s) /\ \A t \in Threads : arg[t] = s => pc[t] # "leave"
    => /\ ~Queued(s) /\ ~Forming(s)
       /\ \A r \in RoomIds : s \notin members[r]

(* A session is sent S2C_MatchmakingComplete once, when it leaves the      *)
(* queue for a room, and not before (match.fbs: "exactly once").           *)
CompleteOnce ==
  \A s \in Sessions : auths[s] <= 1 =>
    completes[s] = IF Forming(s) \/ roomOf[s] # 0 THEN 1 ELSE 0

(* Once formed, a room only loses members, and the room of a new squad was *)
(* never anybody's: nobody joins a match that has begun (EchoServer.cpp,   *)
(* EnqueueForMatch).                                                       *)
MembersFixed ==
  [][\A r \in RoomIds :
       forming.room # r => /\ members'[r] \subseteq members[r]
                           /\ forming'.room = r => \A s \in Sessions : roomOf[s] # r]_vars

(* A session that waits is seated or gone in the end, however few wait     *)
(* with it (Matchmaker.h, TickTimeouts: "a player is never stuck           *)
(* waiting").                                                              *)
EventuallyMatched ==
  \A s \in Sessions : Queued(s) ~> (roomOf[s] # 0 \/ life[s] = "gone")

(* When every session has gone, every room goes (UnregisterSession:        *)
(* "rooms should go away on demand"), unless a loose session is in it.     *)
RoomsReclaimed ==
  (\A s \in Sessions : life[s] = "gone") ~>
    (\A r \in listed : \E s \in members[r] : Loose(s))

(* A room with a connected player is among the rooms that are ticked       *)
(* (EchoServer.h, rooms_).  It fails: a session queued late can be removed *)
(* from the room while its squad is moved in, and the room, found empty,   *)
(* is erased after another member was added.                               *)
SeatedIsTicked ==
  \A r \in RoomIds, s \in Sessions :
    s \in members[r] /\ ~Loose(s) /\ life[s] # "gone" => r \in listed

-----------------------------------------------------------------------------
(* Where the players are, seen from Squads. *)
PlaceOf(s) ==
  IF Loose(s) THEN "loose"
  ELSE IF Queued(s) THEN "waiting"
  ELSE IF Forming(s) \/ \E r \in RoomIds : s \in members[r] THEN "seated"
  ELSE IF Cancelled(s) THEN "left"
  ELSE "out"

SquadOf(s) ==
  IF Loose(s) THEN 0 ELSE IF Forming(s) THEN forming.room ELSE roomOf[s]

Promise == INSTANCE Squads WITH
  place <- [s \in Sessions |-> PlaceOf(s)],
  squad <- [s \in Sessions |-> SquadOf(s)]

(* Matchmaking with its lock, threads and rooms implements Squads: each of *)
(* its steps is one of Squads' steps, with the room's id for the squad's   *)
(* number, or changes nothing a player can see.                            *)
ImplementsSquads == Promise!Init /\ [][Promise!Next(nextRoom)]_(Promise!absvars)
=============================================================================
