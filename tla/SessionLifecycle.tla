-------------------------- MODULE SessionLifecycle --------------------------
(***************************************************************************)
(* The life of a Session object: accepted, started, serving completions,   *)
(* closing, unregistered, destroyed.  OnAccepted and UnregisterSession     *)
(* (Network/EchoServer.cpp); OnRecvCompletion, OnSendCompletion, Send,     *)
(* Close, ReleaseIfIdle and the destructor (Network/Session.cpp).          *)
(*                                                                         *)
(* A completion handler works under the session's lock_, on a raw pointer  *)
(* that RIO hands back; ReleaseIfIdle then reads three atomics without the *)
(* lock.  Everybody else holds a shared_ptr.  An action is one critical    *)
(* section of a lock, or one access to an atomic outside of it.  The       *)
(* memory of a destroyed session is taken to keep its last contents, the   *)
(* mildest outcome of a use after it.                                      *)
(***************************************************************************)
EXTENDS Integers, FiniteSets

CONSTANTS
  Conns,       \* the connections ever made, one session each
  Handles,     \* the values a SOCKET can have; closed ones are used again
  Senders,     \* threads that send to the session from outside its handlers
  MaxPlayers,  \* maxPlayers_
  None         \* no thread, no session, no handle

(* The two completion queues, and the thread that drains each. *)
Queues == {"recv", "send"}
Releasers == Queues \cup {"accept"}
Threads == Releasers \cup Senders
Owners == Threads \cup {"map", "room"}

ASSUME LifeAssumption ==
  /\ IsFiniteSet(Conns) /\ None \notin Conns \cup Handles \cup Threads
  /\ Senders \cap (Releasers \cup {"map", "room"}) = {}
  /\ MaxPlayers \in Nat

VARIABLES
  refs,       \* who holds a shared_ptr to each session: sessions_ ("map"),
              \* queue_ or its Room ("room"), threads
  fate,       \* "none", "made", "started" or "rejected", for each connection
  handle,     \* socket_
  open,       \* the sessions whose socket is open
  op,         \* the receive and the send of each session, as RIO sees them
  pending,    \* pendingOps_
  closing,    \* closing_
  released,   \* released_
  lock,       \* the thread that holds lock_ between two actions
  late,       \* history: the sessions whose own login queued them after
              \* UnregisterSession had taken them out of queue and room
  pc, cur     \* where each thread is, and the session it works on

vars == <<refs, fate, handle, open, op, pending, closing, released, lock, late, pc, cur>>

TypeOK ==
  /\ refs \in [Conns -> SUBSET Owners]
  /\ fate \in [Conns -> {"none", "made", "started", "rejected"}]
  /\ handle \in [Conns -> Handles \cup {None}]
  /\ open \subseteq Conns
  /\ op \in [Conns -> [Queues -> {"none", "posted", "ok", "fail"}]]
  /\ pending \in [Conns -> 0 .. 2]
  /\ closing \in [Conns -> BOOLEAN] /\ released \in [Conns -> BOOLEAN]
  /\ lock \in [Conns -> {None, "recv"}]
  /\ late \subseteq Conns
  /\ pc \in [Threads -> {"idle", "emplace", "start", "accepted", "locking", "handle",
                         "enqueue", "repost", "closing?", "pending?", "released?",
                         "erase", "leave", "drop", "send"}]
  /\ cur \in [Threads -> Conns \cup {None}]

Init ==
  /\ refs = [s \in Conns |-> {}]
  /\ fate = [s \in Conns |-> "none"]
  /\ handle = [s \in Conns |-> None]
  /\ open = {}
  /\ op = [s \in Conns |-> [q \in Queues |-> "none"]]
  /\ pending = [s \in Conns |-> 0]
  /\ closing = [s \in Conns |-> FALSE] /\ released = [s \in Conns |-> FALSE]
  /\ lock = [s \in Conns |-> None]
  /\ late = {}
  /\ pc = [t \in Threads |-> "idle"] /\ cur = [t \in Threads |-> None]

Listed == { s \in Conns : "map" \in refs[s] }

Destroyed(s) == fate[s] \in {"made", "started"} /\ refs[s] = {}

Goto(t, where) == pc' = [pc EXCEPT ![t] = where] /\ UNCHANGED cur

Begin(t, where, s) == pc' = [pc EXCEPT ![t] = where] /\ cur' = [cur EXCEPT ![t] = s]

Finish(t) == Begin(t, "idle", None)

(* closesocket closes whichever socket has that handle now. *)
CloseSocket(s) == open' = { x \in open : handle[x] # handle[s] }

(* Session::Close: only the first call closes the socket. *)
Close(s) ==
  /\ closing' = [closing EXCEPT ![s] = TRUE]
  /\ IF closing[s] THEN UNCHANGED open ELSE CloseSocket(s)

StayOpen == UNCHANGED <<closing, open>>

(* Letting go of a shared_ptr; the last one runs ~Session, whose           *)
(* closesocket does not depend on whether Close has been there.            *)
Unref(s, who) ==
  /\ refs' = [refs EXCEPT ![s] = @ \ {who}]
  /\ IF refs[s] = {who} THEN CloseSocket(s) ELSE UNCHANGED open

-----------------------------------------------------------------------------
HasPlace == Cardinality(Listed) < MaxPlayers

(* AcceptLoop takes a connection, whose socket has a handle nobody else    *)
(* has.                                                                    *)
AcceptLoop(s, h) ==
  /\ pc["accept"] = "idle" /\ fate[s] = "none"
  /\ \A x \in open : handle[x] # h

(* The new socket is closed again, and nothing is said. *)
RejectServerFull(s) ==
  /\ fate' = [fate EXCEPT ![s] = "rejected"]
  /\ UNCHANGED <<handle, open, refs, pc, cur>>

(* OnAccepted looks at the size of sessions_ in one critical section and   *)
(* inserts in another.                                                     *)
Accept(s, h) ==
  /\ AcceptLoop(s, h)
  /\ IF HasPlace
     THEN /\ fate' = [fate EXCEPT ![s] = "made"]
          /\ handle' = [handle EXCEPT ![s] = h]
          /\ open' = open \cup {s}
          /\ refs' = [refs EXCEPT ![s] = {"accept"}]
          /\ Begin("accept", "emplace", s)
     ELSE RejectServerFull(s)
  /\ UNCHANGED <<op, pending, closing, released, lock, late>>

Emplace ==
  /\ pc["accept"] = "emplace"
  /\ refs' = [refs EXCEPT ![cur["accept"]] = @ \cup {"map"}]
  /\ Goto("accept", "start")
  /\ UNCHANGED <<fate, handle, open, op, pending, closing, released, lock, late>>

(* A receive is posted, and counted, on an open socket. *)
Post(s, q, count) ==
  /\ s \in open
  /\ op' = [op EXCEPT ![s][q] = "posted"]
  /\ pending' = [pending EXCEPT ![s] = count + 1]

(* Session::Start, under lock_; if it fails the session is unregistered,   *)
(* with its socket open.                                                   *)
Start ==
  LET s == cur["accept"]
  IN /\ pc["accept"] = "start"
     /\ \/ /\ Post(s, "recv", pending[s])
           /\ fate' = [fate EXCEPT ![s] = "started"]
           /\ Goto("accept", "accepted")
        \/ Goto("accept", "erase") /\ UNCHANGED <<op, pending, fate>>
     /\ UNCHANGED <<refs, handle, open, closing, released, lock, late>>

(* OnAccepted returns. *)
Accepted ==
  /\ pc["accept"] = "accepted"
  /\ Unref(cur["accept"], "accept")
  /\ Finish("accept")
  /\ UNCHANGED <<fate, handle, op, pending, closing, released, lock, late>>

-----------------------------------------------------------------------------
(* RIO, external: an operation completes; on a closed socket it fails.     *)
Complete(s, q) ==
  /\ op[s][q] = "posted"
  /\ \/ s \in open /\ op' = [op EXCEPT ![s][q] = "ok"]
     \/ op' = [op EXCEPT ![s][q] = "fail"]
  /\ UNCHANGED <<refs, fate, handle, open, pending, closing, released, lock, late, pc, cur>>

(* WorkerLoop takes a completion and goes for the session's lock. *)
Dequeue(q, s) ==
  /\ pc[q] = "idle" /\ op[s][q] \in {"ok", "fail"}
  /\ Begin(q, "locking", s)
  /\ UNCHANGED <<refs, fate, handle, open, op, pending, closing, released, lock, late>>

(* The lock is taken and the operation no longer counts. *)
Enter(q, result) ==
  /\ pc[q] = "locking" /\ lock[cur[q]] = None
  /\ op[cur[q]][q] = result


(* Either handler on a failed operation, or a receive of 0 bytes. *)
CompletionFails(q) ==
  LET s == cur[q]
  IN /\ Enter(q, "fail")
     /\ op' = [op EXCEPT ![s][q] = "none"]
     /\ pending' = [pending EXCEPT ![s] = @ - 1]
     /\ Close(s)
     /\ Goto(q, "closing?")
     /\ UNCHANGED <<refs, fate, handle, released, lock, late>>

(* OnRecvCompletion with data: lock_ is held until the receive is posted   *)
(* again.                                                                  *)
RecvEnter ==
  LET s == cur["recv"]
  IN /\ Enter("recv", "ok")
     /\ op' = [op EXCEPT ![s]["recv"] = "none"]
     /\ pending' = [pending EXCEPT ![s] = @ - 1]
     /\ lock' = [lock EXCEPT ![s] = "recv"]
     /\ Goto("recv", "handle")
     /\ UNCHANGED <<refs, fate, handle, open, closing, released, late>>

(***************************************************************************)
(* EnqueueEcho on a session with count operations: the buffer overflows,   *)
(* or a send is outstanding already, or one is posted, or refused.         *)
(***************************************************************************)
Enqueue(s, count) ==
  \/ /\ Close(s)
     /\ UNCHANGED op /\ pending' = [pending EXCEPT ![s] = count]
  \/ /\ op[s]["send"] # "none" /\ StayOpen
     /\ UNCHANGED op /\ pending' = [pending EXCEPT ![s] = count]
  \/ /\ op[s]["send"] = "none" /\ StayOpen
     /\ Post(s, "send", count)

(***************************************************************************)
(* ProcessRecvBuffer: a packet without an answer, one that is answered     *)
(* (even when the session is closing), one that closes the session, or a   *)
(* login, which is answered and goes on to the matchmaker.                 *)
(***************************************************************************)
HandlePackets ==
  LET s == cur["recv"]
  IN /\ pc["recv"] = "handle"
     /\ \/ StayOpen /\ UNCHANGED <<op, pending>> /\ Goto("recv", "repost")
        \/ Enqueue(s, pending[s]) /\ \E where \in {"repost", "enqueue"} : Goto("recv", where)
        \/ Close(s) /\ UNCHANGED <<op, pending>> /\ Goto("recv", "repost")
     /\ UNCHANGED <<refs, fate, handle, released, lock, late>>

(* Neither in sessions_ nor about to be taken out of queue and room. *)
LeftBehind(s) == s \notin Listed /\ ~ \E t \in Releasers : cur[t] = s /\ pc[t] = "leave"

(***************************************************************************)
(* The end of FinishAuthenticatedLogin: the matchmaker's queue takes the   *)
(* session, and its room after it.  Nothing asks whether the session is    *)
(* closing, or registered.  On a destroyed session shared_from_this throws *)
(* and the process ends; the model goes on without it, which only adds     *)
(* behaviours.                                                             *)
(***************************************************************************)
EnqueueForMatch ==
  LET s == cur["recv"]
  IN /\ pc["recv"] = "enqueue"
     /\ IF refs[s] = {}
        THEN UNCHANGED <<refs, late>>
        ELSE /\ refs' = [refs EXCEPT ![s] = @ \cup {"room"}]
             /\ late' = IF LeftBehind(s) THEN late \cup {s} ELSE late
     /\ Goto("recv", "repost")
     /\ UNCHANGED <<fate, handle, open, op, pending, closing, released, lock>>

(* Mutations of Repost: the receive is not counted; a refusal is ignored.  *)
RepostUncounted ==
  LET s == cur["recv"]
  IN /\ pc["recv"] = "repost"
     /\ IF closing[s] THEN UNCHANGED op ELSE op' = [op EXCEPT ![s]["recv"] = "posted"]
     /\ lock' = [lock EXCEPT ![s] = None]
     /\ Goto("recv", "closing?")
     /\ UNCHANGED <<refs, fate, handle, released, late, pending, open, closing>>

RepostIgnored ==
  LET s == cur["recv"]
  IN /\ pc["recv"] = "repost"
     /\ \/ ~closing[s] /\ Post(s, "recv", pending[s])
        \/ UNCHANGED <<op, pending>>
     /\ StayOpen
     /\ lock' = [lock EXCEPT ![s] = None]
     /\ Goto("recv", "closing?")
     /\ UNCHANGED <<refs, fate, handle, released, late>>

(* The end of OnRecvCompletion's critical section. *)
Repost ==
  LET s == cur["recv"]
  IN /\ pc["recv"] = "repost"
     /\ \/ closing[s] /\ StayOpen /\ UNCHANGED <<op, pending>>
        \/ ~closing[s] /\ StayOpen /\ Post(s, "recv", pending[s])
        \/ ~closing[s] /\ Close(s) /\ UNCHANGED <<op, pending>>
     /\ lock' = [lock EXCEPT ![s] = None]
     /\ Goto("recv", "closing?")
     /\ UNCHANGED <<refs, fate, handle, released, late>>

(* OnSendCompletion with success: the rest of the backlog is sent, if any. *)
SendEnter ==
  LET s == cur["send"]
      uncounted == [pending EXCEPT ![s] = @ - 1]
      finished == [op EXCEPT ![s]["send"] = "none"]
  IN /\ Enter("send", "ok")
     /\ \/ StayOpen /\ op' = finished /\ pending' = uncounted
        \/ ~closing[s] /\ StayOpen /\ Post(s, "send", pending[s] - 1)
        \/ ~closing[s] /\ Close(s) /\ op' = finished /\ pending' = uncounted
     /\ Goto("send", "closing?")
     /\ UNCHANGED <<refs, fate, handle, released, lock, late>>

-----------------------------------------------------------------------------
(***************************************************************************)
(* ReleaseIfIdle, run by the completion's thread outside of lock_.         *)
(***************************************************************************)
ReadClosing(q) ==
  /\ pc[q] = "closing?"
  /\ IF closing[cur[q]] THEN Goto(q, "pending?") ELSE Finish(q)
  /\ UNCHANGED <<refs, fate, handle, open, op, pending, closing, released, lock, late>>

(* Mutation of ReadPending: the count is not looked at. *)
ReadPendingUnchecked(q) ==
  /\ pc[q] = "pending?"
  /\ Goto(q, "released?")
  /\ UNCHANGED <<refs, fate, handle, open, op, pending, closing, released, lock, late>>

ReadPending(q) ==
  /\ pc[q] = "pending?"
  /\ IF pending[cur[q]] = 0 THEN Goto(q, "released?") ELSE Finish(q)
  /\ UNCHANGED <<refs, fate, handle, open, op, pending, closing, released, lock, late>>

(* Mutation of ExchangeReleased: the flag is set but not tested. *)
SetReleased(q) ==
  /\ pc[q] = "released?"
  /\ released' = [released EXCEPT ![cur[q]] = TRUE]
  /\ Goto(q, "erase")
  /\ UNCHANGED <<refs, fate, handle, open, op, pending, closing, lock, late>>

ExchangeReleased(q) ==
  /\ pc[q] = "released?"
  /\ released' = [released EXCEPT ![cur[q]] = TRUE]
  /\ IF released[cur[q]] THEN Finish(q) ELSE Goto(q, "erase")
  /\ UNCHANGED <<refs, fate, handle, open, op, pending, closing, lock, late>>

(***************************************************************************)
(* UnregisterSession: out of sessions_ into keepAlive, out of the queue or *)
(* its room, and keepAlive goes.  A login that falls between Cancel and    *)
(* GetRoom is either found in its room or not found at all, as one before  *)
(* or one after the two.                                                   *)
(***************************************************************************)
Erase(t) ==
  LET s == cur[t]
  IN /\ pc[t] = "erase"
     /\ \/ /\ s \in Listed
           /\ refs' = [refs EXCEPT ![s] = (@ \ {"map"}) \cup {t}]
           /\ Goto(t, "leave")
        \/ s \notin Listed /\ Finish(t) /\ UNCHANGED refs
     /\ UNCHANGED <<fate, handle, open, op, pending, closing, released, lock, late>>

Leave(t) ==
  /\ pc[t] = "leave"
  /\ refs' = [refs EXCEPT ![cur[t]] = @ \ {"room"}]
  /\ Goto(t, "drop")
  /\ UNCHANGED <<fate, handle, open, op, pending, closing, released, lock, late>>

Drop(t) ==
  /\ pc[t] = "drop"
  /\ Unref(cur[t], t)
  /\ Finish(t)
  /\ UNCHANGED <<fate, handle, op, pending, closing, released, lock, late>>

-----------------------------------------------------------------------------
(* A thread that broadcasts copies the room's pointers, then sends. *)
Snapshot(t, s) ==
  /\ pc[t] = "idle" /\ "room" \in refs[s]
  /\ refs' = [refs EXCEPT ![s] = @ \cup {t}]
  /\ Begin(t, "send", s)
  /\ UNCHANGED <<fate, handle, open, op, pending, closing, released, lock, late>>

(* Session::Send: nothing on a closing session, else EnqueueEcho. *)
Send(t) ==
  LET s == cur[t]
  IN /\ pc[t] = "send" /\ lock[s] = None
     /\ \/ closing[s] /\ StayOpen /\ UNCHANGED <<op, pending>>
        \/ ~closing[s] /\ Enqueue(s, pending[s])
     /\ Goto(t, "drop")
     /\ UNCHANGED <<refs, fate, handle, released, lock, late>>

AcceptThread == Emplace \/ Start \/ Accepted

Drainer(q) ==
  \/ \E s \in Conns : Dequeue(q, s)
  \/ CompletionFails(q)
  \/ q = "recv" /\ (RecvEnter \/ HandlePackets \/ EnqueueForMatch \/ Repost)
  \/ q = "send" /\ SendEnter
  \/ ReadClosing(q) \/ ReadPending(q) \/ ExchangeReleased(q)

Unregister(t) == Erase(t) \/ Leave(t) \/ Drop(t)

Next ==
  \/ \E s \in Conns, h \in Handles : Accept(s, h)
  \/ AcceptThread
  \/ \E s \in Conns, q \in Queues : Complete(s, q)
  \/ \E q \in Queues : Drainer(q)
  \/ \E t \in Threads : Unregister(t)
  \/ \E t \in Senders, s \in Conns : Snapshot(t, s)
  \/ \E t \in Senders : Send(t)

Spec == Init /\ [][Next]_vars

(***************************************************************************)
(* Threads run.  RIO completes every operation once its socket is closed;  *)
(* an open connection may stay silent for ever.                            *)
(***************************************************************************)
Fairness ==
  /\ WF_vars(AcceptThread) /\ \A q \in Queues : WF_vars(Drainer(q))
  /\ \A t \in Threads : WF_vars(Unregister(t))
  /\ \A t \in Senders : WF_vars(Send(t))
  /\ \A s \in Conns, q \in Queues : WF_vars(s \notin open /\ Complete(s, q))

FairSpec == Spec /\ Fairness

-----------------------------------------------------------------------------
InFlight(s) == { q \in Queues : op[s][q] # "none" }

(* pendingOps_ is the number of operations that RIO has or whose           *)
(* completion is not yet handled, whatever posts fail meanwhile (PostRecv, *)
(* TryPostSend, the two handlers).                                         *)
PendingCountsOps == \A s \in Conns : pending[s] = Cardinality(InFlight(s))

(* Two threads that both find the session closing and idle do not both     *)
(* unregister it ("a racing completion already released this session").    *)
UnregisteredOnce ==
  \A t, u \in Releasers :
    /\ pc[t] \in {"erase", "leave", "drop"} /\ pc[u] \in {"erase", "leave", "drop"}
    /\ cur[t] = cur[u]
    => t = u

(* No operation, and no completion in a queue, is left for a session that  *)
(* has been destroyed: its registered memory and its pointer are not given *)
(* back to RIO's users (Session.h: "once no RIO op is in flight").         *)
NoOpOutlivesSession == \A s \in Conns : Destroyed(s) => InFlight(s) = {}

(* Never more than maxPlayers_ sessions, although the size is checked and  *)
(* the session inserted in two critical sections (OnAccepted).             *)
CapHeld == Cardinality(Listed) <= MaxPlayers

(* A started session that nobody is working on and that is not closing has *)
(* a receive outstanding: it can be heard from, and it can notice that its *)
(* peer has gone (OnRecvCompletion's repost-or-close).                     *)
NeverDeaf ==
  \A s \in Conns :
    fate[s] = "started" /\ ~closing[s] /\ lock[s] = None => op[s]["recv"] # "none"


Using == {"locking", "handle", "enqueue", "repost", "closing?", "pending?", "released?"}

(* A completion handler works on a session that still exists (Session.h:   *)
(* ReleaseIfIdle "erases the session once no RIO op is in flight").  It    *)
(* fails: an operation stops counting at the start of its handler, and     *)
(* the other queue's thread may then release the session under it.         *)
NoUseAfterDestroy ==
  \A q \in Queues : pc[q] \in Using => ~Destroyed(cur[q])

(* An open session's socket is closed by that session's Close alone        *)
(* (Session::Close: "already closing").  It fails: ~Session closes         *)
(* socket_ once more, when its value may be a new connection's.            *)
SocketKept ==
  \A s \in Conns : ~closing[s] /\ refs[s] # {} => s \in open
=============================================================================
