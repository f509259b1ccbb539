------------------------------- MODULE Workers -------------------------------
(***************************************************************************)
(* The threads of EchoServer (Network/EchoServer.cpp): how Start brings    *)
(* them up, how the workers share the two RIO completion queues, and how   *)
(* Stop takes everything down.                                             *)
(*                                                                         *)
(* A completion queue raises one notification, a key in the I/O completion *)
(* port, and is silent until RIONotify arms it again.  The worker that     *)
(* gets the key drains the queue in batches before it does so.  What a     *)
(* completion is handled by is in the other modules; here completions are  *)
(* numbered in the order in which they come.  The handlers are taken to    *)
(* return, as LockOrder shows that no thread waits for another for ever.   *)
(***************************************************************************)
EXTENDS Integers, Sequences, FiniteSets

CONSTANTS
  WorkerThreads,   \* workerThreads_
  Batch,           \* the size of WorkerLoop's results[]
  MaxCompletions   \* bound: completions of each queue, a function

ASSUME WorkersAssumption ==
  /\ IsFiniteSet(WorkerThreads) /\ WorkerThreads \cap {"accept", "tick"} = {}
  /\ Batch \in Nat \ {0} /\ MaxCompletions \in [{"recv", "send"} -> Nat]

Queues == {"recv", "send"}
Threads == WorkerThreads \cup {"accept", "tick"}

(* What Start opens, in this order. *)
Resources == <<"winsock", "listen", "iocp", "recv", "send">>

VARIABLES
  main,     \* where Start or Stop is, on the main thread
  running,  \* running_
  opened,   \* the resources that are open
  pc,       \* where each thread is
  on,       \* the queue a worker was notified of
  batch,    \* what it has dequeued and not yet handled
  full,     \* whether that filled results[]
  cq,       \* the completions in each queue
  armed,    \* the queues that will notify
  iocp,     \* the keys in iocp_
  made,     \* how many completions each queue has had
  handled   \* how many of them have been handled

vars == <<main, running, opened, pc, on, batch, full, cq, armed, iocp, made, handled>>
queues == <<cq, armed, iocp, made, handled>>
worker == <<on, batch, full>>

TypeOK ==
  /\ main \in {"start", "failed", "serving", "close listen", "join accept", "join tick",
               "post shutdown", "join workers", "close", "stopped"}
  /\ running \in BOOLEAN
  /\ opened \subseteq { Resources[i] : i \in DOMAIN Resources }
  /\ pc \in [Threads -> {"none", "waiting", "draining", "handling", "arming",
                         "accepting", "accepted", "ticking", "gone"}]
  /\ on \in [WorkerThreads -> Queues] /\ batch \in [WorkerThreads -> Seq(Nat)]
  /\ \A w \in WorkerThreads :
       batch[w] \in Seq(1 .. MaxCompletions[on[w]]) /\ Len(batch[w]) <= Batch
  /\ full \in [WorkerThreads -> BOOLEAN]
  /\ armed \subseteq Queues
  /\ iocp \in Seq(Queues \cup {"shutdown"})
  /\ cq \in [Queues -> Seq(Nat)] /\ made \in [Queues -> Nat] /\ handled \in [Queues -> Nat]
  /\ \A q \in Queues :
       /\ cq[q] \in Seq(1 .. MaxCompletions[q])
       /\ made[q] \in 0 .. MaxCompletions[q] /\ handled[q] \in 0 .. made[q]

Init ==
  /\ main = "start" /\ running = FALSE /\ opened = {}
  /\ pc = [t \in Threads |-> "none"]
  /\ on = [w \in WorkerThreads |-> "recv"]
  /\ batch = [w \in WorkerThreads |-> <<>>]
  /\ full = [w \in WorkerThreads |-> FALSE]
  /\ cq = [q \in Queues |-> <<>>]
  /\ armed = {} /\ iocp = <<>>
  /\ made = [q \in Queues |-> 0] /\ handled = [q \in Queues |-> 0]

Goto(t, where) == pc' = [pc EXCEPT ![t] = where]
-----------------------------------------------------------------------------
(* RIO and Windows, external                                               *)

(* Mutation of RIONotify: the queue waits for its next completion. *)
RIONotifyQuiet(q) == armed' = armed \cup {q} /\ UNCHANGED iocp

(* RIONotify: a queue that holds something notifies at once. *)
RIONotify(q) ==
  IF cq[q] = <<>> THEN armed' = armed \cup {q} /\ UNCHANGED iocp
                  ELSE iocp' = Append(iocp, q) /\ UNCHANGED armed

(* An operation of some session completes, once there are sessions. *)
Complete(q) ==
  /\ pc["accept"] # "none" /\ q \in opened /\ made[q] < MaxCompletions[q]
  /\ made' = [made EXCEPT ![q] = @ + 1]
  /\ cq' = [cq EXCEPT ![q] = Append(@, made[q] + 1)]
  /\ IF q \in armed THEN armed' = armed \ {q} /\ iocp' = Append(iocp, q)
                    ELSE UNCHANGED <<armed, iocp>>
  /\ UNCHANGED <<main, running, opened, pc, worker, handled>>
-----------------------------------------------------------------------------
(* Start                                                                   *)

(* InitWinsock, CreateListenSocket, InitRio: the next resource is opened,  *)
(* or Start fails, and whatever is open stays so: Stop only looks whether  *)
(* the server is running.  A queue is armed once both exist.               *)
Open ==
  LET next == Resources[Cardinality(opened) + 1]
  IN /\ main = "start" /\ Cardinality(opened) < Len(Resources)
     /\ \/ /\ opened' = opened \cup {next}
           /\ armed' = IF next = "send" THEN Queues ELSE armed
           /\ UNCHANGED main
        \/ main' = "failed" /\ UNCHANGED <<opened, armed>>
     /\ UNCHANGED <<running, pc, worker, cq, iocp, made, handled>>

(* The threads are started. *)
Start ==
  /\ main = "start" /\ Cardinality(opened) = Len(Resources)
  /\ running' = TRUE /\ main' = "serving"
  /\ pc' = [t \in Threads |-> "waiting"]
  /\ UNCHANGED <<opened, worker, queues>>
-----------------------------------------------------------------------------
(* WorkerLoop                                                              *)

(* Mutation of GetKey: the queue is armed before it is drained. *)
GetKeyArmsFirst(w) ==
  /\ pc[w] = "waiting" /\ iocp # <<>>
  /\ IF Head(iocp) = "shutdown"
     THEN Goto(w, "gone") /\ iocp' = Tail(iocp) /\ UNCHANGED <<worker, armed>>
     ELSE /\ Goto(w, "draining")
          /\ on' = [on EXCEPT ![w] = Head(iocp)]
          /\ armed' = armed \cup {Head(iocp)} /\ iocp' = Tail(iocp)
          /\ UNCHANGED <<batch, full>>
  /\ UNCHANGED <<main, running, opened, cq, made, handled>>

(* GetQueuedCompletionStatus: a worker that finds the shutdown key returns, *)
(* whatever is left in the queues.                                          *)
GetKey(w) ==
  /\ pc[w] = "waiting" /\ iocp # <<>>
  /\ iocp' = Tail(iocp)
  /\ IF Head(iocp) = "shutdown" THEN Goto(w, "gone") /\ UNCHANGED worker
     ELSE /\ Goto(w, "draining")
          /\ on' = [on EXCEPT ![w] = Head(iocp)] /\ UNCHANGED <<batch, full>>
  /\ UNCHANGED <<main, running, opened, cq, armed, made, handled>>

(* Mutation of Dequeue: a worker that finds nothing goes back to waiting. *)
DequeueLeaves(w) ==
  LET q == on[w]
      n == IF Len(cq[q]) < Batch THEN Len(cq[q]) ELSE Batch
  IN /\ pc[w] = "draining"
     /\ batch' = [batch EXCEPT ![w] = SubSeq(cq[q], 1, n)]
     /\ cq' = [cq EXCEPT ![q] = SubSeq(@, n + 1, Len(@))]
     /\ full' = [full EXCEPT ![w] = (n = Batch)]
     /\ Goto(w, IF n = 0 THEN "waiting" ELSE "handling")
     /\ UNCHANGED <<main, running, opened, on, armed, iocp, made, handled>>

(* RIODequeueCompletion: up to a batch. *)
Dequeue(w) ==
  LET q == on[w]
      n == IF Len(cq[q]) < Batch THEN Len(cq[q]) ELSE Batch
  IN /\ pc[w] = "draining"
     /\ batch' = [batch EXCEPT ![w] = SubSeq(cq[q], 1, n)]
     /\ cq' = [cq EXCEPT ![q] = SubSeq(@, n + 1, Len(@))]
     /\ full' = [full EXCEPT ![w] = (n = Batch)]
     /\ Goto(w, IF n = 0 THEN "arming" ELSE "handling")
     /\ UNCHANGED <<main, running, opened, on, armed, iocp, made, handled>>

(* OnRecvCompletion or OnSendCompletion of the next of the batch; after a  *)
(* full one there may be more.                                             *)
Handle(w) ==
  /\ pc[w] = "handling"
  /\ handled' = [handled EXCEPT ![on[w]] = @ + 1]
  /\ batch' = [batch EXCEPT ![w] = Tail(@)]
  /\ CASE Len(batch[w]) > 1 -> UNCHANGED pc
       [] Len(batch[w]) = 1 /\ full[w] -> Goto(w, "draining")
       [] OTHER -> Goto(w, "arming")
  /\ UNCHANGED <<main, running, opened, on, full, cq, armed, iocp, made>>

Arm(w) ==
  /\ pc[w] = "arming"
  /\ RIONotify(on[w]) /\ Goto(w, "waiting")
  /\ UNCHANGED <<main, running, opened, worker, cq, made, handled>>
-----------------------------------------------------------------------------
(* AcceptLoop and BackgroundTickLoop                                       *)

Others == <<main, running, opened, worker, queues>>

(* running_ is looked at, and an AcceptEx is under way. *)
AcceptEx ==
  /\ pc["accept"] = "waiting"
  /\ Goto("accept", IF running THEN "accepting" ELSE "gone")
  /\ UNCHANGED Others

(* It ends with a connection, if the listen socket is open, or it fails,   *)
(* which is tried again; but running_ is looked at first.                  *)
AcceptEnds ==
  /\ pc["accept"] = "accepting"
  /\ \/ ~running /\ Goto("accept", "gone")
     \/ running /\ "listen" \in opened /\ Goto("accept", "accepted")
     \/ running /\ Goto("accept", "waiting")
  /\ UNCHANGED Others

(* OnAccepted gives the new session its request queue on both queues.      *)
OnAccepted == pc["accept"] = "accepted" /\ Goto("accept", "waiting") /\ UNCHANGED Others

(* The tick sleeps, looks at running_, and ticks.                          *)
BackgroundTickLoop ==
  /\ \/ pc["tick"] = "waiting" /\ Goto("tick", IF running THEN "ticking" ELSE "gone")
     \/ pc["tick"] = "ticking" /\ Goto("tick", "waiting")
  /\ UNCHANGED Others
-----------------------------------------------------------------------------
(* Stop                                                                    *)

Phase(from, to) == main = from /\ main' = to

(* Only the first call goes on, and only when Start succeeded.             *)
Stop ==
  /\ Phase("serving", "close listen") /\ running' = FALSE
  /\ UNCHANGED <<opened, pc, worker, queues>>

CloseListenSocket ==
  /\ Phase("close listen", "join accept") /\ opened' = opened \ {"listen"}
  /\ UNCHANGED <<running, pc, worker, queues>>

Join(from, threads, to) ==
  /\ Phase(from, to) /\ \A t \in threads : pc[t] = "gone"
  /\ UNCHANGED <<running, opened, pc, worker, queues>>

(* Mutation of PostShutdown: one key for all the workers. *)
PostShutdownOnce ==
  /\ Phase("post shutdown", "join workers")
  /\ iocp' = Append(iocp, "shutdown")
  /\ UNCHANGED <<running, opened, pc, worker, cq, armed, made, handled>>

(* A key for each worker, as each takes one and returns.                   *)
PostShutdown ==
  /\ Phase("post shutdown", "join workers")
  /\ iocp' = iocp \o [i \in 1 .. Cardinality(WorkerThreads) |-> "shutdown"]
  /\ UNCHANGED <<running, opened, pc, worker, cq, armed, made, handled>>

(* Mutation of JoinWorkers: nobody is waited for. *)
JoinWorkersNot == Join("join workers", {}, "close")

JoinAccept == Join("join accept", {"accept"}, "join tick")
JoinTick == Join("join tick", {"tick"}, "post shutdown")
JoinWorkers == Join("join workers", WorkerThreads, "close")

(* sessions_ is cleared and the rest is closed, with completions and       *)
(* operations that nobody will handle any more.                            *)
Close ==
  /\ Phase("close", "stopped") /\ opened' = {}
  /\ UNCHANGED <<running, pc, worker, queues>>

MainNext ==
  \/ Open \/ Start \/ Stop \/ CloseListenSocket
  \/ JoinAccept \/ JoinTick \/ PostShutdown \/ JoinWorkers \/ Close
WorkerNext(w) == GetKey(w) \/ Dequeue(w) \/ Handle(w) \/ Arm(w)

Next ==
  \/ MainNext
  \/ \E w \in WorkerThreads : WorkerNext(w)
  \/ \E q \in Queues : Complete(q)
  \/ AcceptEx \/ AcceptEnds \/ OnAccepted \/ BackgroundTickLoop

Spec == Init /\ [][Next]_vars

(* A step of Stop that is under way. *)
StopNext ==
  CloseListenSocket \/ JoinAccept \/ JoinTick \/ PostShutdown \/ JoinWorkers \/ Close

(* Every thread goes on when it can.  Nobody has to connect, and nobody    *)
(* has to press the key that stops the server.                             *)
Fairness ==
  /\ WF_vars(StopNext)
  /\ \A w \in WorkerThreads : WF_vars(WorkerNext(w))
  /\ WF_vars(AcceptEx) /\ WF_vars(OnAccepted) /\ WF_vars(BackgroundTickLoop)
  /\ WF_vars(AcceptEnds /\ "listen" \notin opened)

FairSpec == Spec /\ Fairness
-----------------------------------------------------------------------------
Busy(q) == { w \in WorkerThreads : pc[w] \in {"draining", "handling", "arming"} /\ on[w] = q }

InHand(q) ==
  IF Busy(q) = {} THEN <<>> ELSE batch[CHOOSE w \in Busy(q) : TRUE]

(* However the workers share the notifications, each queue is drained by   *)
(* one of them at a time, and its completions are handled once each, in    *)
(* the order in which they came.  The other modules rest on this: they     *)
(* have one thread for each queue.                                         *)
HandledInOrder ==
  \A q \in Queues :
    /\ Cardinality(Busy(q)) <= 1
    /\ InHand(q) \o cq[q] = [i \in 1 .. made[q] - handled[q] |-> handled[q] + i]

(* Nothing is closed under a thread that uses it: the queues and the port  *)
(* are there while a worker is in its loop, a session is being started or  *)
(* the rooms are being ticked.                                             *)
QueuesOutliveUsers ==
  \A t \in Threads : pc[t] \notin {"none", "gone"} => Queues \cup {"iocp"} \subseteq opened

(* No completion lies in a queue that nobody will look at: the port has    *)
(* the queue's key, or a worker that has taken it will dequeue once more   *)
(* or arm the queue again, which notifies of what came meanwhile           *)
(* (WorkerLoop, RIONotify).                                                *)
WakeupNotLost ==
  \A q \in Queues : cq[q] # <<>> => (\E i \in DOMAIN iocp : iocp[i] = q) \/ Busy(q) # {}

(* A completion is handled, whether it came before, under or after the     *)
(* drain of its queue, unless the server is stopped first.                 *)
NoneForgotten ==
  \A q \in Queues : \A n \in 1 .. MaxCompletions[q] :
    made[q] >= n ~> (handled[q] >= n \/ ~running)

(* Stop returns: every thread it waits for comes to its end.               *)
StopEnds == main = "close listen" ~> main = "stopped"
=============================================================================
