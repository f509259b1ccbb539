------------------------------ MODULE LockOrder ------------------------------
(***************************************************************************)
(* Who waits for whose mutex: the order in which the server's threads take *)
(* Matchmaker::lock_, the sessions' lock_ and the mutexes of EchoServer,   *)
(* Room, EnemyAI and Database.                                             *)
(*                                                                         *)
(* Only two kinds of lock are held while another is taken: the lock_ of    *)
(* the session whose completion is handled (OnRecvCompletion holds it over *)
(* the whole handler) and the matchmaker's (held over every Send of a      *)
(* status and over the making of a room).  membersLock_ is modelled too,   *)
(* as every broadcast takes it.  Of the others (the maps' of Room,         *)
(* EnemyAI::lock_, sessionsLock_, roomsLock_, Database::lock_) each        *)
(* guards a section that takes no lock: nobody in it waits, and they are   *)
(* left out.                                                               *)
(*                                                                         *)
(* A thread has a list of instructions: to hold, to free or to use (lock   *)
(* and unlock in one step) a mutex, or to call a routine, which is         *)
(* replaced by its own instructions when it is reached, as what it does    *)
(* depends on the state then.  A thread that holds nothing keeps nobody    *)
(* waiting, so it begins when it gets its first lock.  Repeated Sends to   *)
(* one session are one.  The rooms are folded into one: no thread holds a  *)
(* mutex of one room and takes another's.  "recv" and "send" are the       *)
(* drainers of the two completion queues (see Workers), "tick" is          *)
(* BackgroundTickLoop; AcceptLoop never holds one lock and takes another,  *)
(* and Stop holds none while it waits for the threads.                     *)
(***************************************************************************)
EXTENDS Integers, Sequences, FiniteSets, SequencesExt

CONSTANTS
  Sessions,   \* the connections
  MaxSquad,   \* maxSquadSize_
  MaxLogins,  \* bound: authentications of one connection
  None        \* no session, no thread

Threads == {"recv", "send", "tick"}

ASSUME LockAssumption ==
  /\ IsFiniteSet(Sessions) /\ None \notin Sessions \cup Threads
  /\ MaxSquad \in Nat \ {0} /\ MaxLogins \in Nat

(* A mutex: its name and the session it belongs to, if to one. *)
LockOf(s) == <<"Session::lock_", s>>
Shared(name) == <<name, None>>
Held == { LockOf(s) : s \in Sessions } \cup {Shared("Matchmaker::lock_"), Shared("membersLock_")}

VARIABLES
  todo,     \* what each thread has yet to do
  owner,    \* the thread that holds a mutex
  queue,    \* queue_
  roomed,   \* the sessions whose room_ is set
  members,  \* members_
  logins,   \* how often each connection has authenticated
  gone      \* connections being unregistered, or gone

vars == <<todo, owner, queue, roomed, members, logins, gone>>

-----------------------------------------------------------------------------
(* Instructions *)
Do(op, lock) == << <<op, lock[1], lock[2]>> >>
SnapshotOthers == Do("use", Shared("membersLock_"))
FindEnemyOwnerSession == Do("use", Shared("membersLock_"))
Call(routine, s) == << <<"call", routine, s>> >>

(* Session::Send, and EnqueueEcho from outside of the handler. *)
SendTo(s) == Do("use", LockOf(s))
SendAll(order) == [i \in DOMAIN order |-> SendTo(order[i])[1]]
Each(routine, order) == [i \in DOMAIN order |-> Call(routine, order[i])[1]]

Routines == {"Broadcast", "Announce", "Enqueue", "Cancel", "TickTimeouts", "AddSession", "Leave"}
Instructions ==
  { Do(op, lock)[1] : op \in {"hold", "free", "use"}, lock \in Held }
  \cup ({"call"} \X Routines \X (Sessions \cup {None}))

(* The state has its types, and every member of the room has its room_ set. *)
TypeOK ==
  /\ todo \in [Threads -> Seq(Instructions)]
  /\ owner \in [Held -> Threads \cup {None}]
  /\ queue \in Seq(Sessions)
  /\ roomed \subseteq Sessions /\ members \subseteq roomed
  /\ logins \in [Sessions -> 0 .. MaxLogins]
  /\ gone \subseteq Sessions

Init ==
  /\ todo = [t \in Threads |-> <<>>]
  /\ owner = [l \in Held |-> None]
  /\ queue = <<>> /\ roomed = {} /\ members = {}
  /\ logins = [s \in Sessions |-> 0]
  /\ gone = {}

(* The instruction a thread is at, and the mutex it names. *)
At(t, op) == todo[t] # <<>> /\ todo[t][1][1] = op
AtCall(t, routine) == At(t, "call") /\ todo[t][1][2] = routine
LockAt(t) == <<todo[t][1][2], todo[t][1][3]>>
Arg(t) == todo[t][1][3]

NeedsMembers(t) == \E r \in {"Broadcast", "AddSession", "Leave"} : AtCall(t, r)

(* The thread that keeps t from going on: the owner of the mutex it needs, *)
(* except that a session's lock_ is recursive.                             *)
Blocker(t) ==
  LET lock == IF NeedsMembers(t) THEN Shared("membersLock_") ELSE LockAt(t)
  IN IF \/ At(t, "call") /\ ~NeedsMembers(t)
        \/ At(t, "free") \/ todo[t] = <<>>
        \/ lock[2] # None /\ owner[lock] = t
     THEN None ELSE owner[lock]

-----------------------------------------------------------------------------
(* A thread replaces the instruction it is at. *)
Continue(t, steps) == todo' = [todo EXCEPT ![t] = steps \o Tail(@)]
State == <<queue, roomed, members, logins, gone>>

Take(t) ==
  /\ At(t, "hold") /\ Blocker(t) = None
  /\ owner' = [owner EXCEPT ![LockAt(t)] = t]
  /\ Continue(t, <<>>) /\ UNCHANGED State

Free(t) ==
  /\ At(t, "free")
  /\ owner' = [owner EXCEPT ![LockAt(t)] = None]
  /\ Continue(t, <<>>) /\ UNCHANGED State

(* A critical section with no lock inside. *)
Pass(t) ==
  /\ At(t, "use") /\ Blocker(t) = None
  /\ Continue(t, <<>>) /\ UNCHANGED <<owner, State>>

(* Mutation of Broadcast: membersLock_ is held while the packets are sent. *)
BroadcastLocked(t) ==
  /\ AtCall(t, "Broadcast") /\ Blocker(t) = None
  /\ \E order \in SetToSeqs(members \ {Arg(t)}) :
       Continue(t, Do("hold", Shared("membersLock_")) \o SendAll(order)
                     \o Do("free", Shared("membersLock_")))
  /\ UNCHANGED <<owner, State>>

(* Room::Broadcast: SnapshotOtherSessions, then a Send to each.            *)
Broadcast(t) ==
  /\ AtCall(t, "Broadcast") /\ Blocker(t) = None
  /\ \E order \in SetToSeqs(members \ {Arg(t)}) : Continue(t, SendAll(order))
  /\ UNCHANGED <<owner, State>>

(* AnnounceNewMember: the others and the doors to the newcomer, the        *)
(* newcomer to the others.                                                 *)
Announce(t) ==
  /\ AtCall(t, "Announce")
  /\ Continue(t, SnapshotOthers \o SendTo(Arg(t)) \o Call("Broadcast", Arg(t)))
  /\ UNCHANGED <<owner, State>>
-----------------------------------------------------------------------------
(* The matchmaker, all of it with its lock held                            *)

FormSquad(t, squad) ==
  /\ queue' = <<>>
  /\ Continue(t, SendAll(squad) \o Each("AddSession", squad))

BroadcastStatus(t, q) == Continue(t, SendAll(q))

Enqueue(t) ==
  /\ AtCall(t, "Enqueue")
  /\ LET q == Append(queue, Arg(t))
     IN IF Len(q) >= MaxSquad THEN FormSquad(t, q)
        ELSE queue' = q /\ BroadcastStatus(t, q)
  /\ UNCHANGED <<owner, roomed, members, logins, gone>>

(* The first entry of the session goes; the others are told.               *)
Cancel(t) ==
  /\ AtCall(t, "Cancel")
  /\ LET found == { i \in DOMAIN queue : queue[i] = Arg(t) }
         first == CHOOSE i \in found : \A j \in found : i <= j
     IN IF found = {} THEN queue' = queue /\ Continue(t, <<>>)
        ELSE queue' = RemoveAt(queue, first) /\ BroadcastStatus(t, queue')
  /\ UNCHANGED <<owner, roomed, members, logins, gone>>

(* The window has run out, or it has not.                                  *)
TickTimeouts(t) ==
  /\ AtCall(t, "TickTimeouts")
  /\ \/ queue # <<>> /\ FormSquad(t, queue)
     \/ Continue(t, <<>>) /\ UNCHANGED queue
  /\ UNCHANGED <<owner, roomed, members, logins, gone>>

(* Mutation of AddSession: room_ is not set. *)
AddSessionNoRoom(t) ==
  /\ AtCall(t, "AddSession") /\ Blocker(t) = None
  /\ members' = members \cup {Arg(t)}
  /\ Continue(t, Call("Announce", Arg(t)))
  /\ UNCHANGED <<owner, queue, roomed, logins, gone>>

AddSession(t) ==
  /\ AtCall(t, "AddSession") /\ Blocker(t) = None
  /\ roomed' = roomed \cup {Arg(t)} /\ members' = members \cup {Arg(t)}
  /\ Continue(t, Call("Announce", Arg(t)))
  /\ UNCHANGED <<owner, queue, logins, gone>>

MatchLock == Shared("Matchmaker::lock_")
Matchmaker(routine, s) == Do("hold", MatchLock) \o Call(routine, s) \o Do("free", MatchLock)
-----------------------------------------------------------------------------
(* What the threads begin                                                  *)

(* ResetWorldStateIfNoVisibleMembers looks at the members, then clears.    *)
Reset == SnapshotOthers

RemoveSession(s) == members' = members \ {s}

(* The room's part of UnregisterSession, if the session has one by now.   *)
Leave(t) ==
  /\ AtCall(t, "Leave") /\ Blocker(t) = None
  /\ RemoveSession(Arg(t))
  /\ Continue(t, IF Arg(t) \in roomed THEN Reset \o Call("Broadcast", Arg(t)) ELSE <<>>)
  /\ UNCHANGED <<owner, queue, roomed, logins, gone>>

Unregister(s) == Matchmaker("Cancel", s) \o Call("Leave", s)

(* What a handler that does not log in takes under the session's lock: a   *)
(* save or a request nothing; a relay, a claim and MoveInput a broadcast;  *)
(* SetVisible a reset after it; MultiMapReady an announcement;             *)
(* EnemyDamage, and the others that answer one player, a Send.             *)
Handlers(s) ==
  {<<>>} \cup
  IF s \notin roomed THEN {}
  ELSE { Call("Broadcast", s), Call("Broadcast", s) \o Reset, Call("Announce", s) }
       \cup { FindEnemyOwnerSession \o SendTo(o) : o \in members }

Idle(t) == todo[t] = <<>>
Begin(t, lock, steps) ==
  /\ Idle(t) /\ owner[lock] = None
  /\ owner' = [owner EXCEPT ![lock] = t]
  /\ todo' = [todo EXCEPT ![t] = steps]

(* The end of a completion: lock_ is let go, then ReleaseIfIdle.           *)
AfterHandler(s, closes) ==
  Do("free", LockOf(s)) \o (IF closes THEN Unregister(s) ELSE <<>>)

(* OnRecvCompletion with a packet that does not log in, OnSendCompletion.  *)
(* A session is unregistered once, but a handler that was not counted any  *)
(* more can begin later; here any number of them do.                       *)
Complete(s) ==
  /\ \E closes \in BOOLEAN :
       /\ closes => s \notin gone
       /\ \/ \E h \in Handlers(s) : Begin("recv", LockOf(s), h \o AfterHandler(s, closes))
          \/ Begin("send", LockOf(s), AfterHandler(s, closes))
       /\ gone' = IF closes THEN gone \cup {s} ELSE gone
  /\ UNCHANGED <<queue, roomed, members, logins>>

(* C2S_Login, C2S_JoinMatch: FinishAuthenticatedLogin enqueues.            *)
Login(s) ==
  /\ logins[s] < MaxLogins
  /\ logins' = [logins EXCEPT ![s] = @ + 1]
  /\ Begin("recv", LockOf(s), Matchmaker("Enqueue", s) \o AfterHandler(s, FALSE))
  /\ UNCHANGED <<queue, roomed, members, gone>>

(* BackgroundTickLoop: the matchmaker's turn.                              *)
TickMatch ==
  /\ Begin("tick", MatchLock, Call("TickTimeouts", None) \o Do("free", MatchLock))
  /\ UNCHANGED State

(* Room::Tick: the resync, the enemies' broadcast, the hits.  It holds     *)
(* nothing from one to the next, so each is a turn of its own.             *)
TickRoom ==
  /\ Idle("tick")
  /\ \E s \in members : \E steps \in {Call("Announce", s), Call("Broadcast", None), SnapshotOthers \o SendTo(s)} :
       todo' = [todo EXCEPT !["tick"] = steps]
  /\ UNCHANGED <<owner, State>>

Next ==
  \/ \E s \in Sessions : Complete(s) \/ Login(s)
  \/ TickMatch \/ TickRoom
  \/ \E t \in Threads :
       \/ Take(t) \/ Free(t) \/ Pass(t)
       \/ Broadcast(t) \/ Announce(t)
       \/ Enqueue(t) \/ Cancel(t) \/ TickTimeouts(t) \/ AddSession(t) \/ Leave(t)

Spec == Init /\ [][Next]_vars
-----------------------------------------------------------------------------
(* No threads wait for each other in a circle, and none for a mutex it     *)
(* holds itself: whatever handlers, completions, disconnects and ticks     *)
(* meet, at least one of any group of threads is waiting for nobody in it. *)
NoCircularWait ==
  \A S \in (SUBSET Threads) \ {{}} : \E t \in S : Blocker(t) \notin S
=============================================================================
