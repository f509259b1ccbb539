----------------------- MODULE SessionLifecycleProofs ------------------------
(***************************************************************************)
(* Theorems about SessionLifecycle, for any connections, SOCKET values,    *)
(* sending threads and player cap.  The argument: a session that closes    *)
(* has its socket closed, so nothing is posted for it any more; a thread   *)
(* that has then read 0 operations knows that there never will be one; and *)
(* whoever exchanges released_ first is the only one to go on.             *)
(***************************************************************************)
EXTENDS SessionLifecycle, FiniteSetTheorems, TLAPS

OpStates == {"none", "posted", "ok", "fail"}

Points == {"idle", "emplace", "start", "accepted", "locking", "handle", "enqueue", "repost",
           "closing?", "pending?", "released?", "erase", "leave", "drop", "send"}

Leaving == {"erase", "leave", "drop"}

(* Where a thread can be, by its kind. *)
Reach(t) ==
  CASE t = "accept" -> {"idle", "emplace", "start", "accepted"} \cup Leaving
    [] t = "recv"   -> {"idle", "locking", "handle", "enqueue", "repost", "closing?",
                        "pending?", "released?"} \cup Leaving
    [] t = "send"   -> {"idle", "locking", "closing?", "pending?", "released?"} \cup Leaving
    [] OTHER        -> {"idle", "send", "drop"}

Places ==
  \A t \in Threads : pc[t] \in Reach(t) /\ (pc[t] # "idle" => cur[t] \in Conns)

(* A connection has operations, or is closing, once it was started; the    *)
(* accept thread has one that is not, the other threads have those that    *)
(* are.                                                                    *)
Started ==
  /\ \A s \in Conns :
       fate[s] # "started" => /\ ~closing[s] /\ "room" \notin refs[s]
                              /\ \A q \in Queues : op[s][q] = "none"
  /\ pc["accept"] \in {"emplace", "start", "erase", "leave", "drop"} =>
       fate[cur["accept"]] = "made"
  /\ \A t \in Queues \cup Senders : pc[t] # "idle" => fate[cur[t]] = "started"

(* A handler has the completion of its own queue, and between RecvEnter    *)
(* and Repost there is no receive.                                         *)
Handling ==
  /\ \A q \in Queues : pc[q] = "locking" => op[cur[q]][q] \in {"ok", "fail"}
  /\ pc["recv"] \in {"handle", "enqueue", "repost"} => op[cur["recv"]]["recv"] = "none"

Quiet(s) == closing[s] /\ \A q \in Queues : op[s][q] = "none"

(* What a thread on its way to release a session has found out stays so.   *)
Releasing ==
  /\ \A s \in Conns : closing[s] => s \notin open
  /\ \A q \in Queues :
       /\ pc[q] = "pending?" => closing[cur[q]]
       /\ pc[q] \in {"released?", "erase", "leave", "drop"} => Quiet(cur[q])
       /\ pc[q] \in {"erase", "leave", "drop"} => released[cur[q]]

(* Out of sessions_ is only who is on the way in, was never started, or is *)
(* quiet.                                                                  *)
Emplacing(s) == pc["accept"] = "emplace" /\ cur["accept"] = s

Unlisted ==
  \A s \in Conns :
    /\ fate[s] = "started" /\ s \notin Listed => Quiet(s)
    /\ Emplacing(s) => "accept" \in refs[s] /\ s \notin Listed
    /\ pc["accept"] = "start" /\ cur["accept"] = s => s \in Listed

PlaceKept == pc["accept"] = "emplace" => Cardinality(Listed) < MaxPlayers

Counted ==
  \A s \in Conns :
    pending[s] = (IF op[s]["recv"] = "none" THEN 0 ELSE 1)
                   + (IF op[s]["send"] = "none" THEN 0 ELSE 1)

IInv ==
  /\ TypeOK /\ Places /\ Started /\ Handling /\ Counted
  /\ Releasing /\ UnregisteredOnce /\ Unlisted
  /\ NeverDeaf /\ CapHeld /\ PlaceKept
-----------------------------------------------------------------------------
(* What every proof about a step starts from. *)
LEMMA Parts ==
  ASSUME IInv
  PROVE  /\ TypeOK /\ Places /\ Started /\ Handling /\ Counted
         /\ Releasing /\ UnregisteredOnce /\ Unlisted
         /\ NeverDeaf /\ CapHeld /\ PlaceKept
         /\ pc \in [Threads -> Points] /\ cur \in [Threads -> Conns \cup {None}]
         /\ op \in [Conns -> [Queues -> OpStates]]
BY DEF IInv, TypeOK, Points, OpStates

(* Where each kind of thread can be. *)
LEMMA KindsOfThreads ==
  /\ Reach("accept") = {"idle", "emplace", "start", "accepted"} \cup Leaving
  /\ Reach("recv") = {"idle", "locking", "handle", "enqueue", "repost", "closing?",
                      "pending?", "released?"} \cup Leaving
  /\ Reach("send") = {"idle", "locking", "closing?", "pending?", "released?"} \cup Leaving
  /\ \A t \in Senders : t \notin Releasers /\ Reach(t) = {"idle", "send", "drop"}
<1>1. \A t \in Senders : t # "accept" /\ t # "recv" /\ t # "send"
  BY LifeAssumption DEF Releasers, Queues
<1> QED BY <1>1 DEF Reach, Releasers, Queues

(* A thread goes to where it can be. *)
Moved(t, where, s) ==
  /\ pc' = [pc EXCEPT ![t] = where] /\ cur' = [cur EXCEPT ![t] = s]
  /\ pc' \in [Threads -> Points] /\ cur' \in [Threads -> Conns \cup {None}]
  /\ Places'

LEMMA Moves ==
  ASSUME IInv, NEW t \in Threads, NEW where \in Reach(t), NEW s \in Conns \cup {None},
         where # "idle" => s \in Conns, Begin(t, where, s)
  PROVE  Moved(t, where, s)
<1>1. Reach(t) \subseteq Points
  BY DEF Reach, Points, Leaving
<1>2. pc' = [pc EXCEPT ![t] = where] /\ cur' = [cur EXCEPT ![t] = s]
  BY DEF Begin
<1>3. pc' \in [Threads -> Points] /\ cur' \in [Threads -> Conns \cup {None}]
  BY <1>1, <1>2, Parts
<1> QED BY <1>2, <1>3, Parts DEF Moved, Places

LEMMA Finishes ==
  ASSUME IInv, NEW t \in Threads, Finish(t)
  PROVE  Moved(t, "idle", None)
BY Moves, "idle" \in Reach(t) DEF Finish, Reach

LEMMA Goes ==
  ASSUME IInv, NEW t \in Threads, NEW where \in Reach(t), pc[t] # "idle", Goto(t, where)
  PROVE  cur[t] \in Conns /\ Moved(t, where, cur[t])
<1>1. cur[t] \in Conns
  BY Parts DEF Places
<1>2. Begin(t, where, cur[t])
  BY Parts DEF Goto, Begin
<1> QED BY <1>1, <1>2, Moves

(* An operation of a session changes, and no other. *)
OpSet(s, q, v) ==
  /\ op' \in [Conns -> [Queues -> OpStates]]
  /\ op'[s][q] = v
  /\ \A x \in Conns, r \in Queues : x # s \/ r # q => op'[x][r] = op[x][r]

LEMMA UpdateOp ==
  ASSUME IInv, NEW s \in Conns, NEW q \in Queues, NEW v \in OpStates,
         op' = [op EXCEPT ![s][q] = v]
  PROVE  OpSet(s, q, v)
<1>1. op \in [Conns -> [Queues -> OpStates]]
  BY Parts
<1> DEFINE mine == [op[s] EXCEPT ![q] = v]
<1>2. /\ mine \in [Queues -> OpStates] /\ mine[q] = v
      /\ \A r \in Queues : r # q => mine[r] = op[s][r]
  BY <1>1
<1>3. op' = [op EXCEPT ![s] = mine]
  OBVIOUS
<1> HIDE DEF mine
<1> QED BY <1>1, <1>2, <1>3 DEF OpSet

(* The count stays small as long as it is right. *)
LEMMA PendingInRange ==
  ASSUME IInv, Counted', NEW s \in Conns, NEW n, pending' = [pending EXCEPT ![s] = n]
  PROVE  pending' \in [Conns -> 0 .. 2]
<1>1. pending \in [Conns -> 0 .. 2]
  BY DEF IInv, TypeOK
<1>2. pending'[s] \in 0 .. 2
  BY DEF Counted
<1> QED BY <1>1, <1>2

(* A completion takes its operation out of the count. *)
LEMMA CountedDown ==
  ASSUME IInv, NEW s \in Conns, NEW q \in Queues, op[s][q] # "none", OpSet(s, q, "none"),
         pending' = [pending EXCEPT ![s] = @ - 1]
  PROVE  Counted'
<1>1. /\ pending \in [Conns -> 0 .. 2] /\ q \in {"recv", "send"}
      /\ \A x \in Conns, r \in {"recv", "send"} : x # s \/ r # q => op'[x][r] = op[x][r]
      /\ op'[s][q] = "none"
  BY DEF IInv, TypeOK, OpSet, Queues
<1>2. \A x \in Conns : pending[x] = (IF op[x]["recv"] = "none" THEN 0 ELSE 1)
                                     + (IF op[x]["send"] = "none" THEN 0 ELSE 1)
  BY DEF IInv, Counted
<1>3. pending'[s] = pending[s] - 1 /\ \A x \in Conns : x # s => pending'[x] = pending[x]
  BY <1>1
<1> SUFFICES ASSUME NEW x \in Conns
             PROVE  pending'[x] = (IF op'[x]["recv"] = "none" THEN 0 ELSE 1)
                                    + (IF op'[x]["send"] = "none" THEN 0 ELSE 1)
  BY DEF Counted
<1>4. CASE x # s
  BY <1>1, <1>2, <1>3, <1>4
<1>5. CASE x = s /\ q = "recv"
  <2>1. op'[x]["recv"] = "none" /\ op[x]["recv"] # "none" /\ op'[x]["send"] = op[x]["send"]
    BY <1>1, <1>5
  <2> QED BY <1>2, <1>3, <1>5, <2>1
<1>6. CASE x = s /\ q = "send"
  <2>1. op'[x]["send"] = "none" /\ op[x]["send"] # "none" /\ op'[x]["recv"] = op[x]["recv"]
    BY <1>1, <1>6
  <2> QED BY <1>2, <1>3, <1>6, <2>1
<1> QED BY <1>1, <1>4, <1>5, <1>6

(* After Close the session is closing and its socket is not open. *)
LEMMA CloseCloses ==
  ASSUME IInv, NEW s \in Conns, Close(s)
  PROVE  closing' = [closing EXCEPT ![s] = TRUE] /\ open' \subseteq open \ {s}
BY DEF IInv, Releasing, Close, CloseSocket

(* A thread's shared_ptr is not the one in sessions_. *)
LEMMA Unrefs ==
  ASSUME IInv, NEW s \in Conns, NEW t \in Threads, Unref(s, t)
  PROVE  /\ refs' = [refs EXCEPT ![s] = @ \ {t}] /\ open' \subseteq open
         /\ refs' \in [Conns -> SUBSET Owners] /\ Listed' = Listed
<1>1. refs' = [refs EXCEPT ![s] = @ \ {t}] /\ open' \subseteq open
  BY DEF Unref, CloseSocket
<1>2. t # "map" /\ t # "room"
  BY LifeAssumption DEF Threads, Releasers, Queues
<1> QED BY <1>1, <1>2, Parts DEF TypeOK, Listed

(* sessions_ is finite. *)
LEMMA ListedFinite ==
  IsFiniteSet(Listed) /\ Cardinality(Listed) \in Nat
BY LifeAssumption, FS_Subset, FS_CardinalityType, Listed \subseteq Conns DEF Listed

(* The cap is not in danger when sessions_ does not grow. *)
LEMMA CapStays ==
  ASSUME IInv, Listed' \subseteq Listed,
         pc'["accept"] = "emplace" => pc["accept"] = "emplace"
  PROVE  CapHeld' /\ PlaceKept'
<1>1. /\ Cardinality(Listed) \in Nat /\ Cardinality(Listed') \in Nat
      /\ Cardinality(Listed') <= Cardinality(Listed)
  BY ListedFinite, FS_Subset, FS_CardinalityType
<1> QED BY <1>1, LifeAssumption, Parts DEF CapHeld, PlaceKept

-----------------------------------------------------------------------------
(* The accept thread. *)

(* The place seen free is still free: only the accept thread adds sessions. *)
LEMMA EmplaceKeeps ==
  ASSUME IInv, Emplace
  PROVE  IInv'
<1> USE LifeAssumption, Parts DEF Threads, Releasers, Queues
<1>1. /\ cur["accept"] \in Conns /\ Moved("accept", "start", cur["accept"])
      /\ pc["accept"] = "emplace"
      /\ refs' = [refs EXCEPT ![cur["accept"]] = @ \cup {"map"}]
      /\ UNCHANGED <<fate, handle, open, op, pending, closing, released, lock, late>>
  BY Goes, KindsOfThreads DEF Emplace
<1>2. refs' \in [Conns -> SUBSET Owners]
  BY <1>1 DEF TypeOK, Owners
<1> USE DEF Moved
<1>3. Counted' /\ NeverDeaf'
  BY <1>1, <1>2 DEF TypeOK, Counted, Started, NeverDeaf
<1>4. TypeOK'
  BY <1>1, <1>2 DEF TypeOK, Points, OpStates
<1>5. Started' /\ Handling'
  BY <1>1, <1>2 DEF TypeOK, Places, Started, Handling
<1>6. Releasing' /\ UnregisteredOnce'
  BY <1>1, <1>2 DEF TypeOK, Places, Started, Counted, Releasing, Quiet, UnregisteredOnce
<1>7. Unlisted'
  BY <1>1, <1>2 DEF TypeOK, Places, Started, Unlisted, Listed, Emplacing, Quiet, Releasing
<1>8. CapHeld' /\ PlaceKept'
  <2>1. Listed' = Listed \cup {cur["accept"]}
    BY <1>1 DEF Listed, TypeOK
  <2>2. Cardinality(Listed') =
          IF cur["accept"] \in Listed THEN Cardinality(Listed) ELSE Cardinality(Listed) + 1
    BY <2>1, ListedFinite, FS_AddElement
  <2>3. Cardinality(Listed) < MaxPlayers
    BY <1>1 DEF PlaceKept
  <2>4. CapHeld'
    BY <2>2, <2>3, ListedFinite DEF CapHeld
  <2> QED BY <1>1, <2>4 DEF PlaceKept
<1> QED BY <1>1, <1>2, <1>3, <1>4, <1>5, <1>6, <1>7, <1>8 DEF IInv, Moved

LEMMA AcceptedKeeps ==
  ASSUME IInv, Accepted
  PROVE  IInv'
<1> USE LifeAssumption, Parts DEF Threads, Releasers, Queues
<1>1. /\ cur["accept"] \in Conns /\ pc["accept"] = "accepted"
      /\ Moved("accept", "idle", None) /\ Unref(cur["accept"], "accept")
      /\ UNCHANGED <<fate, handle, op, pending, closing, released, lock, late>>
  BY Finishes DEF Accepted, Places
<1>2. /\ refs' = [refs EXCEPT ![cur["accept"]] = @ \ {"accept"}] /\ open' \subseteq open
      /\ refs' \in [Conns -> SUBSET Owners] /\ Listed' = Listed
  BY <1>1, Unrefs
<1> USE DEF Moved
<1>3. Counted' /\ NeverDeaf'
  BY <1>1, <1>2 DEF TypeOK, Counted, Started, NeverDeaf
<1>4. TypeOK'
  BY <1>1, <1>2 DEF TypeOK, Points, OpStates
<1>5. Started' /\ Handling'
  BY <1>1, <1>2 DEF TypeOK, Places, Started, Handling
<1>6. Releasing' /\ UnregisteredOnce'
  BY <1>1, <1>2 DEF TypeOK, Places, Started, Counted, Releasing, Quiet, UnregisteredOnce
<1>7. Unlisted'
  BY <1>1, <1>2 DEF TypeOK, Places, Started, Unlisted, Listed, Emplacing, Quiet, Releasing
<1>8. CapHeld' /\ PlaceKept'
  BY <1>1, <1>2, CapStays DEF Listed, TypeOK
<1> QED BY <1>1, <1>2, <1>3, <1>4, <1>5, <1>6, <1>7, <1>8 DEF IInv, Moved

LEMMA AcceptKeeps ==
  ASSUME IInv, NEW s \in Conns, NEW h \in Handles, HasPlace, Accept(s, h)
  PROVE  IInv'
<1> USE LifeAssumption, Parts DEF Threads, Releasers, Queues
<1>1. /\ pc["accept"] = "idle" /\ fate[s] = "none"
      /\ fate' = [fate EXCEPT ![s] = "made"]
      /\ handle' = [handle EXCEPT ![s] = h] /\ open' = open \cup {s}
      /\ refs' = [refs EXCEPT ![s] = {"accept"}]
      /\ Moved("accept", "emplace", s)
      /\ UNCHANGED <<op, pending, closing, released, lock, late>>
  BY Moves, KindsOfThreads DEF Accept, AcceptLoop, RejectServerFull
<1>2. refs' \in [Conns -> SUBSET Owners] /\ Listed' \subseteq Listed
  BY <1>1 DEF TypeOK, Owners, Listed
<1> USE DEF Moved
<1>3. Counted' /\ NeverDeaf'
  BY <1>1, <1>2 DEF TypeOK, Counted, Started, NeverDeaf
<1>4. TypeOK'
  BY <1>1, <1>2 DEF TypeOK, Points, OpStates
<1>5. Started' /\ Handling'
  BY <1>1, <1>2 DEF TypeOK, Places, Started, Handling
<1>6. Releasing' /\ UnregisteredOnce'
  BY <1>1, <1>2 DEF TypeOK, Places, Started, Counted, Releasing, Quiet, UnregisteredOnce
<1>7. Unlisted'
  BY <1>1, <1>2 DEF TypeOK, Places, Started, Unlisted, Listed, Emplacing, Quiet, Releasing
<1>8. CapHeld' /\ PlaceKept'
  <2>1. /\ Cardinality(Listed) \in Nat /\ Cardinality(Listed') \in Nat
        /\ Cardinality(Listed') <= Cardinality(Listed)
    BY <1>2, ListedFinite, FS_Subset, FS_CardinalityType
  <2> QED BY <2>1 DEF HasPlace, CapHeld, PlaceKept
<1> QED BY <1>1, <1>3, <1>4, <1>5, <1>6, <1>7, <1>8 DEF IInv

LEMMA RejectKeeps ==
  ASSUME IInv, NEW s \in Conns, NEW h \in Handles, ~HasPlace, Accept(s, h)
  PROVE  IInv'
<1> USE LifeAssumption, Parts DEF Threads, Releasers, Queues
<1>1. /\ fate' = [fate EXCEPT ![s] = "rejected"] /\ fate[s] = "none"
      /\ UNCHANGED <<refs, handle, open, op, pending, closing, released, lock, late, pc, cur>>
  BY DEF Accept, AcceptLoop, RejectServerFull
<1> USE DEF Moved
<1>2. Counted' /\ NeverDeaf'
  BY <1>1 DEF TypeOK, Counted, Started, NeverDeaf
<1>3. TypeOK' /\ Places'
  BY <1>1 DEF TypeOK, Places
<1>4. Started' /\ Handling'
  BY <1>1 DEF TypeOK, Places, Started, Handling
<1>5. Releasing' /\ UnregisteredOnce'
  BY <1>1 DEF TypeOK, Places, Started, Counted, Releasing, Quiet, UnregisteredOnce
<1>6. Unlisted'
  BY <1>1 DEF TypeOK, Places, Started, Unlisted, Listed, Emplacing, Quiet, Releasing
<1>7. CapHeld' /\ PlaceKept'
  BY <1>1, CapStays DEF Listed, TypeOK
<1> QED BY <1>1, <1>2, <1>3, <1>4, <1>5, <1>6, <1>7 DEF IInv, Moved

(* The first operation of a session that nobody else has seen. *)
LEMMA StartSucceedsKeeps ==
  ASSUME IInv, Start, pc'["accept"] = "accepted"
  PROVE  IInv'
<1> USE LifeAssumption, Parts DEF Threads, Releasers, Queues
<1>1. /\ cur["accept"] \in Conns /\ pc["accept"] = "start"
      /\ Moved("accept", "accepted", cur["accept"]) /\ cur["accept"] \in open
      /\ fate[cur["accept"]] = "made" /\ op[cur["accept"]]["recv"] = "none"
      /\ ~closing[cur["accept"]]
      /\ fate' = [fate EXCEPT ![cur["accept"]] = "started"]
      /\ OpSet(cur["accept"], "recv", "posted")
      /\ pending' = [pending EXCEPT ![cur["accept"]] = @ + 1]
      /\ UNCHANGED <<refs, handle, open, closing, released, lock, late>>
  <2>1. cur["accept"] \in Conns /\ pc["accept"] = "start"
    BY DEF Start, Places
  <2>2. /\ Goto("accept", "accepted") /\ Post(cur["accept"], "recv", pending[cur["accept"]])
        /\ fate' = [fate EXCEPT ![cur["accept"]] = "started"]
        /\ UNCHANGED <<refs, handle, open, closing, released, lock, late>>
    BY <2>1 DEF Start, Goto
  <2>3. /\ fate[cur["accept"]] = "made" /\ op[cur["accept"]]["recv"] = "none"
        /\ ~closing[cur["accept"]]
    BY <2>1 DEF Started
  <2>4. /\ Moved("accept", "accepted", cur["accept"])
        /\ OpSet(cur["accept"], "recv", "posted")
    BY <2>1, <2>2, Goes, KindsOfThreads, UpdateOp DEF Post, OpStates
  <2> QED BY <2>1, <2>2, <2>3, <2>4 DEF Post
<1> USE DEF Moved, OpSet
<1>2. \A x \in Conns : Quiet(x) => Quiet(x)'
  BY <1>1 DEF Quiet
<1>3. Counted'
  BY <1>1 DEF TypeOK, Counted
<1>4. TypeOK'
  BY <1>1, <1>3 DEF TypeOK, Points, OpStates, Counted
<1>5. Started'
  BY <1>1 DEF TypeOK, Places, Started
<1>6. Handling'
  <2>1. ASSUME NEW r \in Queues, pc'[r] = "locking" PROVE op'[cur'[r]][r] \in {"ok", "fail"}
    BY <1>1, <2>1 DEF Places, Handling, Started
  <2>2. ASSUME pc'["recv"] \in {"handle", "enqueue", "repost"} PROVE op'[cur'["recv"]]["recv"] = "none"
    BY <1>1, <2>2 DEF Places, Handling, Started
  <2> QED BY <2>1, <2>2 DEF Handling
<1>7. Releasing'
  BY <1>1, <1>2 DEF TypeOK, Places, Started, Releasing
<1>8. UnregisteredOnce'
  BY <1>1 DEF TypeOK, Places, Started, Releasing, UnregisteredOnce
<1>9. Unlisted'
  BY <1>1, <1>2 DEF TypeOK, Places, Started, Unlisted, Listed, Emplacing, Releasing
<1>10. NeverDeaf'
  BY <1>1 DEF TypeOK, Started, NeverDeaf
<1>11. CapHeld' /\ PlaceKept'
  BY <1>1, CapStays DEF Listed, TypeOK
<1> QED BY <1>1, <1>2, <1>3, <1>4, <1>5, <1>6, <1>7, <1>8, <1>9, <1>10, <1>11 DEF IInv, Moved

LEMMA StartFailsKeeps ==
  ASSUME IInv, Start, pc'["accept"] # "accepted"
  PROVE  IInv'
<1> USE LifeAssumption, Parts DEF Threads, Releasers, Queues
<1>1. /\ cur["accept"] \in Conns /\ pc["accept"] = "start"
      /\ Moved("accept", "erase", cur["accept"])
      /\ UNCHANGED <<refs, fate, handle, open, op, pending, closing, released, lock, late>>
  <2>1. cur["accept"] \in Conns /\ pc["accept"] = "start"
    BY DEF Start, Places
  <2>2. /\ Goto("accept", "erase")
        /\ UNCHANGED <<refs, fate, handle, open, op, pending, closing, released, lock, late>>
    BY <2>1 DEF Start, Goto
  <2> QED BY <2>1, <2>2, Goes, KindsOfThreads DEF Leaving
<1> USE DEF Moved
<1>2. Counted' /\ NeverDeaf'
  BY <1>1 DEF TypeOK, Counted, Started, NeverDeaf
<1>3. TypeOK'
  BY <1>1 DEF TypeOK, Points, OpStates
<1>4. Started' /\ Handling'
  BY <1>1 DEF TypeOK, Places, Started, Handling
<1>5. Releasing' /\ UnregisteredOnce'
  BY <1>1 DEF TypeOK, Places, Started, Counted, Releasing, Quiet, UnregisteredOnce
<1>6. Unlisted'
  BY <1>1 DEF TypeOK, Places, Started, Unlisted, Listed, Emplacing, Quiet, Releasing
<1>7. CapHeld' /\ PlaceKept'
  BY <1>1, CapStays DEF Listed, TypeOK
<1> QED BY <1>1, <1>2, <1>3, <1>4, <1>5, <1>6, <1>7 DEF IInv, Moved

-----------------------------------------------------------------------------
(* Completions. *)

(* A completion is still an operation. *)
LEMMA CompleteKeeps ==
  ASSUME IInv, NEW s \in Conns, NEW q \in Queues, Complete(s, q)
  PROVE  IInv'
<1> USE LifeAssumption, Parts DEF Threads, Releasers, Queues
<1>1. PICK v \in {"ok", "fail"} :
        /\ op[s][q] = "posted" /\ OpSet(s, q, v) /\ fate[s] = "started"
        /\ UNCHANGED <<refs, fate, handle, open, pending, closing, released, lock, late, pc, cur>>
  BY UpdateOp DEF Complete, OpStates, Started
<1>2. Places'
  BY <1>1 DEF Places
<1> USE DEF Moved, OpSet
<1>3. \A x \in Conns : Quiet(x) => Quiet(x)'
  BY <1>1, <1>2 DEF Quiet
<1>4. Counted'
  BY <1>1, <1>2 DEF TypeOK, Counted
<1>5. TypeOK'
  BY <1>1, <1>2, <1>4 DEF TypeOK, Points, OpStates, Counted
<1>6. Started'
  BY <1>1, <1>2 DEF TypeOK, Places, Started
<1>7. Handling'
  <2>1. ASSUME NEW r \in Queues, pc'[r] = "locking" PROVE op'[cur'[r]][r] \in {"ok", "fail"}
    BY <1>1, <1>2, <2>1 DEF Places, Handling, Started
  <2>2. ASSUME pc'["recv"] \in {"handle", "enqueue", "repost"} PROVE op'[cur'["recv"]]["recv"] = "none"
    BY <1>1, <1>2, <2>2 DEF Places, Handling, Started
  <2> QED BY <2>1, <2>2 DEF Handling
<1>8. Releasing'
  BY <1>1, <1>2, <1>3 DEF TypeOK, Places, Started, Releasing
<1>9. UnregisteredOnce'
  BY <1>1, <1>2 DEF TypeOK, Places, Started, Releasing, UnregisteredOnce
<1>10. Unlisted'
  BY <1>1, <1>2, <1>3 DEF TypeOK, Places, Started, Unlisted, Listed, Emplacing, Releasing
<1>11. NeverDeaf'
  BY <1>1, <1>2 DEF TypeOK, Started, NeverDeaf
<1>12. CapHeld' /\ PlaceKept'
  BY <1>1, <1>2, CapStays DEF Listed, TypeOK
<1> QED BY <1>1, <1>2, <1>3, <1>4, <1>5, <1>6, <1>7, <1>8, <1>9, <1>10, <1>11, <1>12
           DEF IInv, Moved

LEMMA DequeueKeeps ==
  ASSUME IInv, NEW q \in Queues, NEW s \in Conns, Dequeue(q, s)
  PROVE  IInv'
<1> USE LifeAssumption, Parts DEF Threads, Releasers, Queues
<1>1. /\ pc[q] = "idle" /\ op[s][q] \in {"ok", "fail"} /\ Moved(q, "locking", s)
      /\ UNCHANGED <<refs, fate, handle, open, op, pending, closing, released, lock, late>>
  BY Moves, KindsOfThreads DEF Dequeue
<1> USE DEF Moved
<1>2. Counted' /\ NeverDeaf'
  BY <1>1 DEF TypeOK, Counted, Started, NeverDeaf
<1>3. TypeOK'
  BY <1>1 DEF TypeOK, Points, OpStates
<1>4. Started' /\ Handling'
  BY <1>1 DEF TypeOK, Places, Started, Handling
<1>5. Releasing' /\ UnregisteredOnce'
  BY <1>1 DEF TypeOK, Places, Started, Counted, Releasing, Quiet, UnregisteredOnce
<1>6. Unlisted'
  BY <1>1 DEF TypeOK, Places, Started, Unlisted, Listed, Emplacing, Quiet, Releasing
<1>7. CapHeld' /\ PlaceKept'
  BY <1>1, CapStays DEF Listed, TypeOK
<1> QED BY <1>1, <1>2, <1>3, <1>4, <1>5, <1>6, <1>7 DEF IInv, Moved

(* The session closes before its operation is gone for the release. *)
LEMMA CompletionFailsKeeps ==
  ASSUME IInv, NEW q \in Queues, CompletionFails(q)
  PROVE  IInv'
<1> USE LifeAssumption, Parts DEF Threads, Releasers, Queues
<1>1. /\ cur[q] \in Conns /\ pc[q] = "locking" /\ Moved(q, "closing?", cur[q])
      /\ op[cur[q]][q] = "fail" /\ fate[cur[q]] = "started" /\ lock[cur[q]] = None
      /\ OpSet(cur[q], q, "none") /\ pending' = [pending EXCEPT ![cur[q]] = @ - 1]
      /\ closing' = [closing EXCEPT ![cur[q]] = TRUE] /\ open' \subseteq open \ {cur[q]}
      /\ UNCHANGED <<refs, fate, handle, released, lock, late>>
  <2>1. cur[q] \in Conns /\ fate[cur[q]] = "started" /\ pc[q] = "locking"
    BY DEF CompletionFails, Enter, Places, Started
  <2>2. Moved(q, "closing?", cur[q]) /\ OpSet(cur[q], q, "none")
    BY <2>1, Goes, KindsOfThreads, UpdateOp DEF CompletionFails, OpStates
  <2>3. closing' = [closing EXCEPT ![cur[q]] = TRUE] /\ open' \subseteq open \ {cur[q]}
    BY <2>1, CloseCloses DEF CompletionFails
  <2> QED BY <2>1, <2>2, <2>3 DEF CompletionFails, Enter
<1>2. Counted'
  <2>1. PICK s \in Conns : s = cur[q]
    BY <1>1
  <2>2. /\ op[s][q] # "none" /\ OpSet(s, q, "none")
        /\ pending' = [pending EXCEPT ![s] = @ - 1]
    BY <1>1, <2>1
  <2> QED BY <2>2, CountedDown
<1> USE DEF Moved, OpSet
<1>3. \A x \in Conns : Quiet(x) => Quiet(x)'
  BY <1>1 DEF Quiet
<1>4. TypeOK'
  BY <1>1, <1>2 DEF TypeOK, Points, OpStates, Counted
<1>5. Started'
  BY <1>1 DEF TypeOK, Places, Started
<1>6. Handling'
  <2>1. ASSUME NEW r \in Queues, pc'[r] = "locking" PROVE op'[cur'[r]][r] \in {"ok", "fail"}
    BY <1>1, <2>1 DEF Places, Handling, Started
  <2>2. ASSUME pc'["recv"] \in {"handle", "enqueue", "repost"} PROVE op'[cur'["recv"]]["recv"] = "none"
    BY <1>1, <2>2 DEF Places, Handling, Started
  <2> QED BY <2>1, <2>2 DEF Handling
<1>7. Releasing'
  BY <1>1, <1>3 DEF TypeOK, Places, Started, Releasing
<1>8. UnregisteredOnce'
  BY <1>1 DEF TypeOK, Places, Started, Releasing, UnregisteredOnce
<1>9. Unlisted'
  BY <1>1, <1>3 DEF TypeOK, Places, Started, Unlisted, Listed, Emplacing, Releasing
<1>10. NeverDeaf'
  BY <1>1 DEF TypeOK, Started, NeverDeaf
<1>11. CapHeld' /\ PlaceKept'
  BY <1>1, CapStays DEF Listed, TypeOK
<1> QED BY <1>1, <1>2, <1>3, <1>4, <1>5, <1>6, <1>7, <1>8, <1>9, <1>10, <1>11 DEF IInv, Moved

(* Without a receive, the lock is what keeps the session from being deaf. *)
LEMMA RecvEnterKeeps ==
  ASSUME IInv, RecvEnter
  PROVE  IInv'
<1> USE LifeAssumption, Parts DEF Threads, Releasers, Queues
<1>1. /\ cur["recv"] \in Conns /\ pc["recv"] = "locking" /\ Moved("recv", "handle", cur["recv"])
      /\ op[cur["recv"]]["recv"] = "ok" /\ fate[cur["recv"]] = "started"
      /\ OpSet(cur["recv"], "recv", "none")
      /\ pending' = [pending EXCEPT ![cur["recv"]] = @ - 1]
      /\ lock' = [lock EXCEPT ![cur["recv"]] = "recv"]
      /\ lock' \in [Conns -> {None, "recv"}]
      /\ UNCHANGED <<refs, fate, handle, open, closing, released, late>>
  <2>1. cur["recv"] \in Conns /\ fate[cur["recv"]] = "started" /\ pc["recv"] = "locking"
    BY DEF RecvEnter, Enter, Places, Started
  <2>2. /\ Moved("recv", "handle", cur["recv"]) /\ OpSet(cur["recv"], "recv", "none")
    BY <2>1, Goes, KindsOfThreads, UpdateOp DEF RecvEnter, OpStates
  <2> QED BY <2>1, <2>2 DEF RecvEnter, Enter, TypeOK
<1>2. Counted'
  <2>1. PICK s \in Conns : s = cur["recv"]
    BY <1>1
  <2>2. /\ op[s]["recv"] # "none" /\ OpSet(s, "recv", "none")
        /\ pending' = [pending EXCEPT ![s] = @ - 1]
    BY <1>1, <2>1
  <2> QED BY <2>2, CountedDown
<1> USE DEF Moved, OpSet
<1>3. \A x \in Conns : Quiet(x) => Quiet(x)'
  BY <1>1 DEF Quiet
<1>4. TypeOK'
  <2>1. pending' \in [Conns -> 0 .. 2]
    BY <1>1, <1>2, PendingInRange
  <2>2. closing' \in [Conns -> BOOLEAN] /\ released' \in [Conns -> BOOLEAN]
    BY <1>1 DEF TypeOK
  <2>3. refs' \in [Conns -> SUBSET Owners]
    BY <1>1 DEF TypeOK
  <2>4. handle' \in [Conns -> Handles \cup {None}] /\ open' \subseteq Conns
    BY <1>1 DEF TypeOK
  <2>5. fate' \in [Conns -> {"none", "made", "started", "rejected"}]
    BY <1>1 DEF TypeOK
  <2> QED BY <1>1, <2>1, <2>2, <2>3, <2>4, <2>5 DEF TypeOK, Points, OpStates
<1>5. Started'
  <2>1. ASSUME NEW x \in Conns, fate'[x] # "started"
        PROVE  ~closing'[x] /\ "room" \notin refs'[x]
    BY <1>1, <2>1 DEF Started
  <2>2. ASSUME NEW x \in Conns, fate'[x] # "started", NEW r \in Queues
        PROVE  op'[x][r] = "none"
    BY <1>1, <2>2 DEF Started
  <2>3. pc'["accept"] \in {"emplace", "start", "erase", "leave", "drop"} =>
          fate'[cur'["accept"]] = "made"
    BY <1>1 DEF Started
  <2>4. \A t \in Queues \cup Senders : pc'[t] # "idle" => fate'[cur'[t]] = "started"
    BY <1>1 DEF Started
  <2> QED BY <2>1, <2>2, <2>3, <2>4 DEF Started
<1>6. Handling'
  <2>1. ASSUME NEW r \in Queues, pc'[r] = "locking" PROVE op'[cur'[r]][r] \in {"ok", "fail"}
    BY <1>1, <2>1 DEF Places, Handling, Started
  <2>2. ASSUME pc'["recv"] \in {"handle", "enqueue", "repost"} PROVE op'[cur'["recv"]]["recv"] = "none"
    BY <1>1, <2>2 DEF Places, Handling, Started
  <2> QED BY <2>1, <2>2 DEF Handling
<1>7. Releasing'
  BY <1>1, <1>3 DEF TypeOK, Places, Started, Releasing
<1>8. UnregisteredOnce'
  BY <1>1 DEF TypeOK, Places, Started, Releasing, UnregisteredOnce
<1>9. Unlisted'
  BY <1>1, <1>3 DEF TypeOK, Places, Started, Unlisted, Listed, Emplacing, Releasing
<1>10. NeverDeaf'
  BY <1>1 DEF TypeOK, Started, NeverDeaf
<1>11. CapHeld' /\ PlaceKept'
  BY <1>1, CapStays DEF Listed, TypeOK
<1> QED BY <1>1, <1>2, <1>3, <1>4, <1>5, <1>6, <1>7, <1>8, <1>9, <1>10, <1>11 DEF IInv, Moved

LEMMA ReadClosingKeeps ==
  ASSUME IInv, NEW q \in Queues, ReadClosing(q)
  PROVE  IInv'
<1> USE LifeAssumption, Parts DEF Threads, Releasers, Queues
<1>1. /\ cur[q] \in Conns /\ pc[q] = "closing?"
      /\ UNCHANGED <<refs, fate, handle, open, op, pending, closing, released, lock, late>>
  BY DEF ReadClosing, Places
<1>2. \/ closing[cur[q]] /\ Moved(q, "pending?", cur[q])
      \/ Moved(q, "idle", None)
  BY <1>1, Goes, Finishes, KindsOfThreads DEF ReadClosing
<1> USE DEF Moved
<1>3. Counted' /\ NeverDeaf'
  BY <1>1, <1>2 DEF TypeOK, Counted, Started, NeverDeaf
<1>4. TypeOK'
  BY <1>1, <1>2 DEF TypeOK, Points, OpStates
<1>5. Started' /\ Handling'
  BY <1>1, <1>2 DEF TypeOK, Places, Started, Handling
<1>6. Releasing' /\ UnregisteredOnce'
  BY <1>1, <1>2 DEF TypeOK, Places, Started, Counted, Releasing, Quiet, UnregisteredOnce
<1>7. Unlisted'
  BY <1>1, <1>2 DEF TypeOK, Places, Started, Unlisted, Listed, Emplacing, Quiet, Releasing
<1>8. CapHeld' /\ PlaceKept'
  BY <1>1, <1>2, CapStays DEF Listed, TypeOK
<1> QED BY <1>1, <1>2, <1>3, <1>4, <1>5, <1>6, <1>7, <1>8 DEF IInv, Moved

(* No operations on a closing session: it is quiet for good. *)
LEMMA ReadPendingKeeps ==
  ASSUME IInv, NEW q \in Queues, ReadPending(q)
  PROVE  IInv'
<1> USE LifeAssumption, Parts DEF Threads, Releasers, Queues
<1>1. /\ cur[q] \in Conns /\ pc[q] = "pending?"
      /\ UNCHANGED <<refs, fate, handle, open, op, pending, closing, released, lock, late>>
  BY DEF ReadPending, Places
<1>2. \/ pending[cur[q]] = 0 /\ Moved(q, "released?", cur[q])
      \/ Moved(q, "idle", None)
  BY <1>1, Goes, Finishes, KindsOfThreads DEF ReadPending
<1> USE DEF Moved
<1>3. Counted' /\ NeverDeaf'
  BY <1>1, <1>2 DEF TypeOK, Counted, Started, NeverDeaf
<1>4. TypeOK'
  BY <1>1, <1>2 DEF TypeOK, Points, OpStates
<1>5. Started' /\ Handling'
  BY <1>1, <1>2 DEF TypeOK, Places, Started, Handling
<1>6. Releasing' /\ UnregisteredOnce'
  BY <1>1, <1>2 DEF TypeOK, Places, Started, Counted, Releasing, Quiet, UnregisteredOnce
<1>7. Unlisted'
  BY <1>1, <1>2 DEF TypeOK, Places, Started, Unlisted, Listed, Emplacing, Quiet, Releasing
<1>8. CapHeld' /\ PlaceKept'
  BY <1>1, <1>2, CapStays DEF Listed, TypeOK
<1> QED BY <1>1, <1>2, <1>3, <1>4, <1>5, <1>6, <1>7, <1>8 DEF IInv, Moved

(* Whoever is past the exchange has set released_, so only one gets past. *)
LEMMA ExchangeReleasedKeeps ==
  ASSUME IInv, NEW q \in Queues, ExchangeReleased(q)
  PROVE  IInv'
<1> USE LifeAssumption, Parts DEF Threads, Releasers, Queues
<1>1. /\ cur[q] \in Conns /\ pc[q] = "released?"
      /\ released' = [released EXCEPT ![cur[q]] = TRUE]
      /\ UNCHANGED <<refs, fate, handle, open, op, pending, closing, lock, late>>
  BY DEF ExchangeReleased, Places
<1>2. \/ ~released[cur[q]] /\ Moved(q, "erase", cur[q])
      \/ Moved(q, "idle", None)
  BY <1>1, Goes, Finishes, KindsOfThreads DEF ExchangeReleased, Leaving
<1> USE DEF Moved
<1>3. Counted' /\ NeverDeaf'
  BY <1>1, <1>2 DEF TypeOK, Counted, Started, NeverDeaf
<1>4. TypeOK'
  BY <1>1, <1>2 DEF TypeOK, Points, OpStates
<1>5. Started' /\ Handling'
  BY <1>1, <1>2 DEF TypeOK, Places, Started, Handling
<1>6. Releasing' /\ UnregisteredOnce'
  BY <1>1, <1>2 DEF TypeOK, Places, Started, Counted, Releasing, Quiet, UnregisteredOnce
<1>7. Unlisted'
  BY <1>1, <1>2 DEF TypeOK, Places, Started, Unlisted, Listed, Emplacing, Quiet, Releasing
<1>8. CapHeld' /\ PlaceKept'
  BY <1>1, <1>2, CapStays DEF Listed, TypeOK
<1> QED BY <1>1, <1>2, <1>3, <1>4, <1>5, <1>6, <1>7, <1>8 DEF IInv, Moved

-----------------------------------------------------------------------------
(* What Enqueue, Repost and Send do to a session's operations. *)
Untouched == UNCHANGED <<op, pending, closing, open>>

Closed(s) ==
  /\ UNCHANGED <<op, pending>>
  /\ closing' = [closing EXCEPT ![s] = TRUE] /\ open' \subseteq open \ {s}

Posted(s, q) ==
  /\ s \in open /\ op[s][q] = "none" /\ OpSet(s, q, "posted")
  /\ pending' = [pending EXCEPT ![s] = @ + 1] /\ UNCHANGED <<closing, open>>

(* Operations are added to a session that is open, hence not closing; none *)
(* goes away, and what is quiet stays so.                                  *)
Effect(q) ==
  /\ op' \in [Conns -> [Queues -> OpStates]] /\ pending' \in [Conns -> 0 .. 2]
  /\ closing' \in [Conns -> BOOLEAN] /\ open' \subseteq open /\ Counted'
  /\ \A x \in Conns :
       /\ Quiet(x) => Quiet(x)'
       /\ closing[x] => closing'[x]
       /\ closing'[x] => x \notin open'
       /\ fate[x] # "started" => ~closing'[x] /\ op'[x] = op[x]
       /\ \A r \in Queues : op[x][r] # "none" \/ r # q => op'[x][r] = op[x][r]

LEMMA Effects ==
  ASSUME IInv, NEW s \in Conns, NEW q \in Queues, fate[s] = "started",
         Untouched \/ Closed(s) \/ Posted(s, q)
  PROVE  Effect(q)
<1> USE Parts
<1>1. CASE Untouched
  BY <1>1 DEF Untouched, Effect, TypeOK, Counted, Quiet, Releasing, Started, OpStates
<1>2. CASE Closed(s)
  BY <1>2 DEF Closed, Effect, TypeOK, Counted, Quiet, Releasing, Started, OpStates
<1>3. CASE Posted(s, q)
  <2> USE <1>3 DEF Posted, OpSet
  <2>1. Counted'
    BY DEF Counted, TypeOK, Queues
  <2>2. pending' \in [Conns -> 0 .. 2]
    BY <2>1, PendingInRange
  <2>3. \A x \in Conns : Quiet(x) => Quiet(x)'
    BY DEF Quiet, Releasing
  <2>4. \A x \in Conns : fate[x] # "started" => ~closing'[x] /\ op'[x] = op[x]
    <3>1. ASSUME NEW x \in Conns, fate[x] # "started" PROVE op'[x] = op[x]
      <4>1. /\ op'[x] \in [Queues -> OpStates] /\ op[x] \in [Queues -> OpStates]
            /\ \A r \in Queues : op'[x][r] = op[x][r]
        BY <3>1
      <4> QED BY <4>1
    <3> QED BY <3>1 DEF Started
  <2> QED BY <2>1, <2>2, <2>3, <2>4 DEF Effect, Releasing, TypeOK
<1> QED BY <1>1, <1>2, <1>3

LEMMA Enqueues ==
  ASSUME IInv, NEW s \in Conns, Enqueue(s, pending[s])
  PROVE  Untouched \/ Closed(s) \/ Posted(s, "send")
<1>1. pending' = [pending EXCEPT ![s] = pending[s]] => UNCHANGED pending
  BY Parts DEF TypeOK
<1>2. CASE Close(s) /\ UNCHANGED op /\ pending' = [pending EXCEPT ![s] = pending[s]]
  BY <1>1, <1>2, CloseCloses DEF Closed
<1>3. CASE StayOpen /\ UNCHANGED op /\ pending' = [pending EXCEPT ![s] = pending[s]]
  BY <1>1, <1>3 DEF Untouched, StayOpen
<1>4. CASE op[s]["send"] = "none" /\ StayOpen /\ Post(s, "send", pending[s])
  BY <1>4, UpdateOp DEF Posted, StayOpen, Post, Queues, OpStates
<1> QED BY <1>2, <1>3, <1>4 DEF Enqueue

LEMMA HandlePacketsKeeps ==
  ASSUME IInv, HandlePackets
  PROVE  IInv'
<1> USE LifeAssumption, Parts DEF Threads, Releasers, Queues
<1>1. /\ cur["recv"] \in Conns /\ pc["recv"] = "handle" /\ fate[cur["recv"]] = "started"
      /\ UNCHANGED <<refs, fate, handle, released, lock, late>>
  BY DEF HandlePackets, Places, Started
<1>2. Moved("recv", "repost", cur["recv"]) \/ Moved("recv", "enqueue", cur["recv"])
  BY <1>1, Goes, KindsOfThreads DEF HandlePackets
<1>3. Effect("send")
  BY <1>1, Effects, Enqueues, CloseCloses DEF HandlePackets, StayOpen, Untouched, Closed
<1> USE DEF Moved, Effect
<1>4. TypeOK'
  BY <1>1, <1>2, <1>3 DEF TypeOK, Points, OpStates
<1>5. Started'
  BY <1>1, <1>2, <1>3 DEF TypeOK, Places, Started
<1>6. Handling'
  <2>1. ASSUME NEW r \in Queues, pc'[r] = "locking" PROVE op'[cur'[r]][r] \in {"ok", "fail"}
    BY <1>1, <1>2, <1>3, <2>1 DEF Places, Handling, Started
  <2>2. ASSUME pc'["recv"] \in {"handle", "enqueue", "repost"} PROVE op'[cur'["recv"]]["recv"] = "none"
    BY <1>1, <1>2, <1>3, <2>2 DEF Places, Handling, Started
  <2> QED BY <2>1, <2>2 DEF Handling
<1>7. Releasing'
  BY <1>1, <1>2, <1>3 DEF TypeOK, Places, Started, Releasing
<1>8. UnregisteredOnce'
  BY <1>1, <1>2, <1>3 DEF TypeOK, Places, Started, Releasing, UnregisteredOnce
<1>9. Unlisted'
  BY <1>1, <1>2, <1>3 DEF TypeOK, Places, Started, Unlisted, Listed, Emplacing, Releasing
<1>10. NeverDeaf'
  BY <1>1, <1>2, <1>3 DEF TypeOK, Started, NeverDeaf
<1>11. CapHeld' /\ PlaceKept'
  BY <1>1, <1>2, <1>3, CapStays DEF Listed, TypeOK
<1> QED BY <1>1, <1>2, <1>3, <1>4, <1>5, <1>6, <1>7, <1>8, <1>9, <1>10, <1>11 DEF IInv, Moved

LEMMA SendKeeps ==
  ASSUME IInv, NEW t \in Senders, Send(t)
  PROVE  IInv'
<1> USE LifeAssumption, Parts DEF Threads, Releasers, Queues
<1>1. /\ cur[t] \in Conns /\ pc[t] = "send" /\ fate[cur[t]] = "started"
      /\ t \notin Releasers
      /\ UNCHANGED <<refs, fate, handle, released, lock, late>>
  BY KindsOfThreads DEF Send, Places, Started
<1>2. Moved(t, "drop", cur[t])
  BY <1>1, Goes, KindsOfThreads DEF Send
<1>3. Effect("send")
  BY <1>1, Effects, Enqueues, CloseCloses DEF Send, StayOpen, Untouched, Closed
<1> USE DEF Moved, Effect
<1>4. TypeOK'
  BY <1>1, <1>2, <1>3 DEF TypeOK, Points, OpStates
<1>5. Started'
  BY <1>1, <1>2, <1>3 DEF TypeOK, Places, Started
<1>6. Handling'
  <2>1. ASSUME NEW r \in Queues, pc'[r] = "locking" PROVE op'[cur'[r]][r] \in {"ok", "fail"}
    BY <1>1, <1>2, <1>3, <2>1 DEF Places, Handling, Started
  <2>2. ASSUME pc'["recv"] \in {"handle", "enqueue", "repost"} PROVE op'[cur'["recv"]]["recv"] = "none"
    BY <1>1, <1>2, <1>3, <2>2 DEF Places, Handling, Started
  <2> QED BY <2>1, <2>2 DEF Handling
<1>7. Releasing'
  BY <1>1, <1>2, <1>3 DEF TypeOK, Places, Started, Releasing
<1>8. UnregisteredOnce'
  BY <1>1, <1>2, <1>3 DEF TypeOK, Places, Started, Releasing, UnregisteredOnce
<1>9. Unlisted'
  BY <1>1, <1>2, <1>3 DEF TypeOK, Places, Started, Unlisted, Listed, Emplacing, Releasing
<1>10. NeverDeaf'
  BY <1>1, <1>2, <1>3 DEF TypeOK, Started, NeverDeaf
<1>11. CapHeld' /\ PlaceKept'
  BY <1>1, <1>2, <1>3, CapStays DEF Listed, TypeOK
<1> QED BY <1>1, <1>2, <1>3, <1>4, <1>5, <1>6, <1>7, <1>8, <1>9, <1>10, <1>11 DEF IInv, Moved

(* The lock goes, with a receive posted or the session closing. *)
LEMMA RepostKeeps ==
  ASSUME IInv, Repost
  PROVE  IInv'
<1> USE LifeAssumption, Parts DEF Threads, Releasers, Queues
<1>1. /\ cur["recv"] \in Conns /\ pc["recv"] = "repost" /\ fate[cur["recv"]] = "started"
      /\ op[cur["recv"]]["recv"] = "none"
      /\ lock' = [lock EXCEPT ![cur["recv"]] = None]
      /\ UNCHANGED <<refs, fate, handle, released, late>>
  BY DEF Repost, Places, Started, Handling
<1>2. Moved("recv", "closing?", cur["recv"])
  BY <1>1, Goes, KindsOfThreads DEF Repost
<1>3. \/ closing[cur["recv"]] /\ Untouched
      \/ Posted(cur["recv"], "recv") \/ Closed(cur["recv"])
  BY <1>1, UpdateOp, CloseCloses
     DEF Repost, StayOpen, Untouched, Closed, Post, Posted, OpStates
<1>4. Effect("recv")
  BY <1>1, <1>3, Effects
<1> USE DEF Moved, Effect
<1>5. TypeOK'
  BY <1>1, <1>2, <1>3, <1>4 DEF TypeOK, Points, OpStates
<1>6. Started'
  BY <1>1, <1>2, <1>3, <1>4 DEF TypeOK, Places, Started
<1>7. Handling'
  <2>1. ASSUME NEW r \in Queues, pc'[r] = "locking" PROVE op'[cur'[r]][r] \in {"ok", "fail"}
    BY <1>1, <1>2, <1>3, <1>4, <2>1 DEF Places, Handling, Started
  <2>2. ASSUME pc'["recv"] \in {"handle", "enqueue", "repost"} PROVE op'[cur'["recv"]]["recv"] = "none"
    BY <1>1, <1>2, <1>3, <1>4, <2>2 DEF Places, Handling, Started
  <2> QED BY <2>1, <2>2 DEF Handling
<1>8. Releasing'
  BY <1>1, <1>2, <1>3, <1>4 DEF TypeOK, Places, Started, Releasing
<1>9. UnregisteredOnce'
  BY <1>1, <1>2, <1>3, <1>4 DEF TypeOK, Places, Started, Releasing, UnregisteredOnce
<1>10. Unlisted'
  BY <1>1, <1>2, <1>3, <1>4 DEF TypeOK, Places, Started, Unlisted, Listed, Emplacing, Releasing
<1>11. NeverDeaf'
  BY <1>1, <1>2, <1>3, <1>4 DEF TypeOK, Started, NeverDeaf, Untouched, Closed, Posted, OpSet
<1>12. CapHeld' /\ PlaceKept'
  BY <1>1, <1>2, <1>3, <1>4, CapStays DEF Listed, TypeOK
<1> QED BY <1>1, <1>2, <1>3, <1>4, <1>5, <1>6, <1>7, <1>8, <1>9, <1>10, <1>11, <1>12
           DEF IInv, Moved

(* The send that completed makes way for the next one, or for none. *)
LEMMA SendEnterKeeps ==
  ASSUME IInv, SendEnter
  PROVE  IInv'
<1> USE LifeAssumption, Parts DEF Threads, Releasers, Queues
<1>1. /\ cur["send"] \in Conns /\ pc["send"] = "locking" /\ fate[cur["send"]] = "started"
      /\ op[cur["send"]]["send"] = "ok" /\ pending[cur["send"]] \in 0 .. 2
      /\ UNCHANGED <<refs, fate, handle, released, lock, late>>
  BY DEF SendEnter, Enter, Places, Started, TypeOK
<1>2. Moved("send", "closing?", cur["send"])
  BY <1>1, Goes, KindsOfThreads DEF SendEnter
<1>3. \/ UNCHANGED <<closing, open>>
      \/ /\ closing' = [closing EXCEPT ![cur["send"]] = TRUE]
         /\ open' \subseteq open \ {cur["send"]}
  BY <1>1, CloseCloses DEF SendEnter, StayOpen, Post
<1>4. PICK v \in {"none", "posted"} :
        /\ OpSet(cur["send"], "send", v)
        /\ v = "none" => pending' = [pending EXCEPT ![cur["send"]] = @ - 1]
        /\ v = "posted" => ~closing[cur["send"]] /\ UNCHANGED <<pending, closing, open>>
  <2>1. CASE /\ cur["send"] \in open /\ StayOpen
             /\ op' = [op EXCEPT ![cur["send"]]["send"] = "posted"]
             /\ pending' = [pending EXCEPT ![cur["send"]] = pending[cur["send"]] - 1 + 1]
    <3>1. pending[cur["send"]] - 1 + 1 = pending[cur["send"]]
      BY <1>1
    <3>2. UNCHANGED pending
      BY <1>1, <2>1, <3>1 DEF TypeOK
    <3> QED BY <1>1, <2>1, <3>2, UpdateOp DEF StayOpen, OpStates, Releasing
  <2>2. CASE /\ op' = [op EXCEPT ![cur["send"]]["send"] = "none"]
             /\ pending' = [pending EXCEPT ![cur["send"]] = @ - 1]
    BY <1>1, <2>2, UpdateOp DEF OpStates
  <2> QED BY <2>1, <2>2 DEF SendEnter, Post
<1>5. /\ closing' \in [Conns -> BOOLEAN] /\ open' \subseteq open
      /\ \A x \in Conns : closing[x] => closing'[x]
      /\ \A x \in Conns : closing'[x] => x \notin open'
      /\ \A x \in Conns : x # cur["send"] => closing'[x] = closing[x]
  <2>1. CASE UNCHANGED <<closing, open>>
    BY <2>1 DEF TypeOK, Releasing
  <2>2. CASE /\ closing' = [closing EXCEPT ![cur["send"]] = TRUE]
             /\ open' \subseteq open \ {cur["send"]}
    BY <1>1, <2>2 DEF TypeOK, Releasing
  <2> QED BY <1>3, <2>1, <2>2
<1> USE DEF Moved, OpSet
<1>6. \A x \in Conns : Quiet(x) => Quiet(x)'
  <2>1. ASSUME NEW x \in Conns, Quiet(x) PROVE Quiet(x)'
    <3>1. x # cur["send"] /\ closing'[x]
      BY <1>1, <1>5, <2>1 DEF Quiet
    <3>2. \A r \in Queues : op'[x][r] = "none"
      BY <1>4, <2>1, <3>1 DEF Quiet
    <3> QED BY <3>1, <3>2 DEF Quiet
  <2> QED BY <2>1
<1>7. Counted'
  <2>1. pending \in [Conns -> 0 .. 2]
    BY DEF TypeOK
  <2> QED BY <1>1, <1>2, <1>4, <1>5, <2>1 DEF Counted
<1>8. TypeOK'
  BY <1>1, <1>2, <1>4, <1>5, <1>7, PendingInRange DEF TypeOK, Points, OpStates
<1>9. Started'
  <2>1. ASSUME NEW x \in Conns, fate'[x] # "started"
        PROVE  /\ ~closing'[x] /\ "room" \notin refs'[x]
               /\ \A r \in Queues : op'[x][r] = "none"
    <3>1. x # cur["send"] /\ fate[x] # "started"
      BY <1>1, <2>1
    <3>2. \A r \in Queues : op'[x][r] = "none"
      BY <1>4, <3>1 DEF Started
    <3> QED BY <1>1, <1>5, <3>1, <3>2 DEF Started
  <2>2. /\ pc'["accept"] \in {"emplace", "start", "erase", "leave", "drop"} =>
             fate'[cur'["accept"]] = "made"
        /\ \A t \in Queues \cup Senders : pc'[t] # "idle" => fate'[cur'[t]] = "started"
    BY <1>1, <1>2 DEF Started, TypeOK
  <2> QED BY <2>1, <2>2 DEF Started
<1>10. Handling'
  <2>1. ASSUME NEW r \in Queues, pc'[r] = "locking" PROVE op'[cur'[r]][r] \in {"ok", "fail"}
    BY <1>1, <1>2, <1>4, <1>5, <2>1 DEF Places, Handling, Started
  <2>2. ASSUME pc'["recv"] \in {"handle", "enqueue", "repost"} PROVE op'[cur'["recv"]]["recv"] = "none"
    BY <1>1, <1>2, <1>4, <1>5, <2>2 DEF Places, Handling, Started
  <2> QED BY <2>1, <2>2 DEF Handling
<1>11. Releasing'
  BY <1>1, <1>2, <1>5, <1>6 DEF TypeOK, Places, Started, Releasing
<1>12. UnregisteredOnce'
  BY <1>1, <1>2, <1>4, <1>5 DEF TypeOK, Places, Started, Releasing, UnregisteredOnce
<1>13. Unlisted'
  BY <1>1, <1>2, <1>4, <1>5, <1>6 DEF TypeOK, Places, Started, Unlisted, Listed, Emplacing,
     Releasing
<1>14. NeverDeaf'
  BY <1>1, <1>4, <1>5 DEF NeverDeaf, TypeOK
<1>15. CapHeld' /\ PlaceKept'
  BY <1>1, <1>2, <1>4, <1>5, CapStays DEF Listed, TypeOK
<1> QED BY <1>1, <1>2, <1>4, <1>5, <1>6, <1>7, <1>8, <1>9, <1>10, <1>11, <1>12, <1>13, <1>14,
           <1>15 DEF IInv, Moved

-----------------------------------------------------------------------------
(* The roster, and who holds a shared_ptr. *)

(* refs changes, but not whom sessions_ holds. *)
LEMMA EnqueueForMatchKeeps ==
  ASSUME IInv, EnqueueForMatch
  PROVE  IInv'
<1> USE LifeAssumption, Parts DEF Threads, Releasers, Queues
<1> DEFINE s == cur["recv"]
<1>1. /\ s \in Conns /\ pc["recv"] = "enqueue" /\ fate[s] = "started"
      /\ UNCHANGED refs \/ refs' = [refs EXCEPT ![s] = @ \cup {"room"}]
      /\ late' \subseteq Conns
      /\ UNCHANGED <<fate, handle, open, op, pending, closing, released, lock>>
  <2>1. s \in Conns /\ pc["recv"] = "enqueue" /\ fate[s] = "started"
    BY DEF EnqueueForMatch, Places, Started
  <2>2. late' = late \/ late' = late \cup {s}
    BY DEF EnqueueForMatch
  <2> QED BY <2>1, <2>2 DEF EnqueueForMatch, TypeOK
<1>2. Moved("recv", "repost", s)
  BY <1>1, Goes, KindsOfThreads DEF EnqueueForMatch
<1> HIDE DEF s
<1>3. /\ refs' \in [Conns -> SUBSET Owners]
      /\ \A x \in Conns : refs[x] \subseteq refs'[x] /\ refs'[x] \subseteq refs[x] \cup {"room"}
      /\ \A x \in Conns : x # s => refs'[x] = refs[x]
  <2>1. refs \in [Conns -> SUBSET Owners] /\ "room" \in Owners
    BY DEF TypeOK, Owners
  <2> QED BY <1>1, <2>1
<1>4. \A x \in Conns : "map" \in refs'[x] <=> "map" \in refs[x]
  BY <1>3
<1>5. Listed' = Listed
  BY <1>4 DEF Listed
<1> USE DEF Moved
<1>6. Counted' /\ NeverDeaf'
  BY <1>1, <1>2 DEF TypeOK, Counted, Started, NeverDeaf
<1>7. TypeOK'
  BY <1>1, <1>2, <1>3 DEF TypeOK, Points, OpStates
<1>8. Started' /\ Handling'
  <2>1. Started'
    BY <1>1, <1>2, <1>3 DEF Started
  <2>2. op[s]["recv"] = "none"
    BY <1>1 DEF Handling, s
  <2>3. Handling'
    BY <1>1, <1>2, <2>2 DEF Handling
  <2> QED BY <2>1, <2>3
<1>9. Releasing' /\ UnregisteredOnce'
  BY <1>1, <1>2 DEF TypeOK, Places, Started, Counted, Releasing, Quiet, UnregisteredOnce
<1>10. Unlisted'
  BY <1>1, <1>2, <1>3, <1>5 DEF Places, Started, Unlisted, Emplacing, Quiet
<1>11. CapHeld' /\ PlaceKept'
  BY <1>2, <1>5, CapStays
<1> QED BY <1>2, <1>6, <1>7, <1>8, <1>9, <1>10, <1>11 DEF IInv, Moved

LEMMA SnapshotKeeps ==
  ASSUME IInv, NEW t \in Senders, NEW s \in Conns, Snapshot(t, s)
  PROVE  IInv'
<1> USE LifeAssumption, Parts DEF Threads, Releasers, Queues
<1>1. /\ fate[s] = "started" /\ refs' = [refs EXCEPT ![s] = @ \cup {t}]
      /\ t \notin Releasers /\ t # "map"
      /\ UNCHANGED <<fate, handle, open, op, pending, closing, released, lock, late>>
  BY KindsOfThreads DEF Snapshot, Started
<1>2. Moved(t, "send", s)
  BY Moves, KindsOfThreads DEF Snapshot
<1>3. refs' \in [Conns -> SUBSET Owners]
  BY <1>1 DEF TypeOK, Owners
<1> USE DEF Moved
<1>4. Counted' /\ NeverDeaf'
  BY <1>1, <1>2, <1>3 DEF TypeOK, Counted, Started, NeverDeaf
<1>5. TypeOK'
  BY <1>1, <1>2, <1>3 DEF TypeOK, Points, OpStates
<1>6. Started' /\ Handling'
  BY <1>1, <1>2, <1>3 DEF TypeOK, Places, Started, Handling
<1>7. Releasing' /\ UnregisteredOnce'
  BY <1>1, <1>2, <1>3 DEF TypeOK, Places, Started, Counted, Releasing, Quiet, UnregisteredOnce
<1>8. Unlisted'
  BY <1>1, <1>2, <1>3 DEF TypeOK, Places, Started, Unlisted, Listed, Emplacing, Quiet, Releasing
<1>9. CapHeld' /\ PlaceKept'
  BY <1>1, <1>2, <1>3, CapStays DEF Listed, TypeOK
<1> QED BY <1>1, <1>2, <1>3, <1>4, <1>5, <1>6, <1>7, <1>8, <1>9 DEF IInv, Moved

LEMMA LeaveKeeps ==
  ASSUME IInv, NEW t \in Threads, Leave(t)
  PROVE  IInv'
<1> USE LifeAssumption, Parts DEF Threads, Releasers, Queues
<1>1. /\ cur[t] \in Conns /\ pc[t] = "leave" /\ t \in Releasers
      /\ refs' = [refs EXCEPT ![cur[t]] = @ \ {"room"}]
      /\ UNCHANGED <<fate, handle, open, op, pending, closing, released, lock, late>>
  BY KindsOfThreads DEF Leave, Places
<1>2. Moved(t, "drop", cur[t])
  BY <1>1, Goes, KindsOfThreads DEF Leave, Leaving
<1>3. refs' \in [Conns -> SUBSET Owners]
  BY <1>1 DEF TypeOK
<1> USE DEF Moved
<1>4. Counted' /\ NeverDeaf'
  BY <1>1, <1>2, <1>3 DEF TypeOK, Counted, Started, NeverDeaf
<1>5. TypeOK'
  BY <1>1, <1>2, <1>3 DEF TypeOK, Points, OpStates
<1>6. Started' /\ Handling'
  BY <1>1, <1>2, <1>3 DEF TypeOK, Places, Started, Handling
<1>7. Releasing' /\ UnregisteredOnce'
  BY <1>1, <1>2, <1>3 DEF TypeOK, Places, Started, Counted, Releasing, Quiet, UnregisteredOnce
<1>8. Unlisted'
  BY <1>1, <1>2, <1>3 DEF TypeOK, Places, Started, Unlisted, Listed, Emplacing, Quiet, Releasing
<1>9. CapHeld' /\ PlaceKept'
  BY <1>1, <1>2, <1>3, CapStays DEF Listed, TypeOK
<1> QED BY <1>1, <1>2, <1>3, <1>4, <1>5, <1>6, <1>7, <1>8, <1>9 DEF IInv, Moved

LEMMA DropKeeps ==
  ASSUME IInv, NEW t \in Threads, Drop(t)
  PROVE  IInv'
<1> USE LifeAssumption, Parts DEF Threads, Releasers, Queues
<1>1. /\ cur[t] \in Conns /\ pc[t] = "drop" /\ Unref(cur[t], t)
      /\ UNCHANGED <<fate, handle, op, pending, closing, released, lock, late>>
  BY DEF Drop, Places
<1>2. Moved(t, "idle", None)
  BY Finishes DEF Drop
<1>3. /\ refs' = [refs EXCEPT ![cur[t]] = @ \ {t}] /\ open' \subseteq open
      /\ refs' \in [Conns -> SUBSET Owners] /\ Listed' = Listed
  BY <1>1, Unrefs
<1> USE DEF Moved
<1>4. Counted' /\ NeverDeaf'
  BY <1>1, <1>2, <1>3 DEF TypeOK, Counted, Started, NeverDeaf
<1>5. TypeOK'
  BY <1>1, <1>2, <1>3 DEF TypeOK, Points, OpStates
<1>6. Started' /\ Handling'
  BY <1>1, <1>2, <1>3 DEF TypeOK, Places, Started, Handling
<1>7. Releasing' /\ UnregisteredOnce'
  BY <1>1, <1>2, <1>3 DEF TypeOK, Places, Started, Counted, Releasing, Quiet, UnregisteredOnce
<1>8. Unlisted'
  BY <1>1, <1>2, <1>3 DEF TypeOK, Places, Started, Unlisted, Listed, Emplacing, Quiet, Releasing
<1>9. CapHeld' /\ PlaceKept'
  BY <1>1, <1>2, <1>3, CapStays DEF Listed, TypeOK
<1> QED BY <1>1, <1>2, <1>3, <1>4, <1>5, <1>6, <1>7, <1>8, <1>9 DEF IInv, Moved

(* Who erases is the accept thread on a session never started, or the one thread
   that found the session quiet. *)
LEMMA EraseKeeps ==
  ASSUME IInv, NEW t \in Threads, Erase(t)
  PROVE  IInv'
<1> USE LifeAssumption, Parts DEF Threads, Releasers, Queues
<1>1. /\ cur[t] \in Conns /\ pc[t] = "erase" /\ t \in Releasers /\ t # "room"
      /\ UNCHANGED <<fate, handle, open, op, pending, closing, released, lock, late>>
  BY KindsOfThreads DEF Erase, Places
<1>2. \/ /\ Moved(t, "leave", cur[t])
         /\ refs' = [refs EXCEPT ![cur[t]] = (@ \ {"map"}) \cup {t}]
      \/ Moved(t, "idle", None) /\ UNCHANGED refs
  BY <1>1, Goes, Finishes, KindsOfThreads DEF Erase, Leaving
<1>3. /\ refs' \in [Conns -> SUBSET Owners]
      /\ \A x \in Conns : x # cur[t] => refs'[x] = refs[x]
      /\ \A x \in Conns : "room" \in refs'[x] => "room" \in refs[x]
      /\ \A x \in Conns : "map" \in refs'[x] => "map" \in refs[x]
  <2>1. refs \in [Conns -> SUBSET Owners] /\ t \in Owners
    BY DEF TypeOK, Owners
  <2>2. t # "map"
    BY <1>1, LifeAssumption
  <2> QED BY <1>1, <1>2, <2>1, <2>2
<1>4. Listed' \subseteq Listed
  BY <1>3 DEF Listed
<1> USE DEF Moved
<1>5. Counted' /\ NeverDeaf'
  BY <1>1, <1>2, <1>3 DEF TypeOK, Counted, Started, NeverDeaf
<1>6. TypeOK'
  BY <1>1, <1>2, <1>3 DEF TypeOK, Points, OpStates
<1>7. Started' /\ Handling'
  BY <1>1, <1>2, <1>3 DEF Places, Started, Handling
<1>8. Releasing' /\ UnregisteredOnce'
  BY <1>1, <1>2, <1>3 DEF TypeOK, Places, Started, Counted, Releasing, Quiet, UnregisteredOnce
<1>9. Unlisted'
  BY <1>1, <1>2, <1>3 DEF TypeOK, Places, Started, Unlisted, Listed, Emplacing, Quiet, Releasing
<1>10. CapHeld' /\ PlaceKept'
  BY <1>1, <1>2, <1>4, CapStays
<1> QED BY <1>1, <1>2, <1>3, <1>5, <1>6, <1>7, <1>8, <1>9, <1>10 DEF IInv, Moved

-----------------------------------------------------------------------------
LEMMA InitIInv == Init => IInv
<1> SUFFICES ASSUME Init PROVE IInv
  OBVIOUS
<1> USE LifeAssumption DEF Init, Threads, Releasers, Queues
<1>1. TypeOK /\ Counted
  BY DEF TypeOK, Counted
<1>2. Places
  BY DEF Places, Reach
<1>3. Started /\ Handling /\ Releasing /\ UnregisteredOnce /\ Unlisted /\ NeverDeaf
  BY DEF Started, Handling, Releasing, UnregisteredOnce, Unlisted, NeverDeaf, Emplacing
<1>4. Listed = {}
  BY DEF Listed
<1>5. CapHeld /\ PlaceKept
  BY <1>4, FS_EmptySet DEF CapHeld, PlaceKept
<1> QED BY <1>1, <1>2, <1>3, <1>5 DEF IInv

LEMMA StutterKeeps ==
  ASSUME IInv, UNCHANGED vars
  PROVE  IInv'
<1> USE Parts DEF vars
<1>1. TypeOK' /\ Places' /\ Started' /\ Handling' /\ Counted'
  BY DEF TypeOK, Places, Started, Handling, Counted
<1>2. Releasing' /\ UnregisteredOnce' /\ Unlisted' /\ NeverDeaf'
  BY DEF Releasing, Quiet, UnregisteredOnce, Unlisted, Listed, Emplacing, NeverDeaf
<1>3. CapHeld' /\ PlaceKept'
  BY DEF CapHeld, PlaceKept, Listed
<1> QED BY <1>1, <1>2, <1>3 DEF IInv

(* Every step keeps the inductive invariant. *)
LEMMA StepIInv == IInv /\ [Next]_vars => IInv'
<1> SUFFICES ASSUME IInv, [Next]_vars PROVE IInv'
  OBVIOUS
<1>1. ASSUME NEW s \in Conns, NEW h \in Handles, Accept(s, h) PROVE IInv'
  BY <1>1, AcceptKeeps, RejectKeeps
<1>2. ASSUME AcceptThread PROVE IInv'
  BY <1>2, EmplaceKeeps, StartSucceedsKeeps, StartFailsKeeps, AcceptedKeeps DEF AcceptThread
<1>3. ASSUME NEW s \in Conns, NEW q \in Queues, Complete(s, q) PROVE IInv'
  BY <1>3, CompleteKeeps
<1>4. ASSUME NEW q \in Queues, Drainer(q) PROVE IInv'
  BY <1>4, DequeueKeeps, CompletionFailsKeeps, RecvEnterKeeps, HandlePacketsKeeps, EnqueueForMatchKeeps, RepostKeeps,
     SendEnterKeeps, ReadClosingKeeps, ReadPendingKeeps, ExchangeReleasedKeeps DEF Drainer
<1>5. ASSUME NEW t \in Threads, Unregister(t) PROVE IInv'
  BY <1>5, EraseKeeps, LeaveKeeps, DropKeeps DEF Unregister
<1>6. ASSUME NEW t \in Senders, NEW s \in Conns, Snapshot(t, s) PROVE IInv'
  BY <1>6, SnapshotKeeps
<1>7. ASSUME NEW t \in Senders, Send(t) PROVE IInv'
  BY <1>7, SendKeeps
<1> QED BY <1>1, <1>2, <1>3, <1>4, <1>5, <1>6, <1>7, StutterKeeps DEF Next

LEMMA IInvHolds == Spec => []IInv
BY InitIInv, StepIInv, PTL DEF Spec

-----------------------------------------------------------------------------
(* Every variable keeps its type: pendingOps_ stays between 0 and 2.       *)
THEOREM LifeTypeCorrect == Spec => []TypeOK
<1>1. IInv => TypeOK
  BY DEF IInv
<1> QED BY <1>1, IInvHolds, PTL

(* pendingOps_ counts the operations in flight, on every path of PostRecv, *)
(* TryPostSend and the two handlers.                                       *)
THEOREM PendingIsRight == Spec => []PendingCountsOps
<1>1. IInv => PendingCountsOps
  <2> SUFFICES ASSUME IInv, NEW s \in Conns PROVE pending[s] = Cardinality(InFlight(s))
    BY DEF PendingCountsOps
  <2>1. /\ InFlight(s) = (IF op[s]["recv"] = "none" THEN {} ELSE {"recv"})
                         \cup (IF op[s]["send"] = "none" THEN {} ELSE {"send"})
    BY DEF InFlight, Queues
  <2>2. /\ Cardinality({}) = 0 /\ Cardinality({"recv"}) = 1
        /\ Cardinality({"send"}) = 1 /\ Cardinality({"recv", "send"}) = 2
    <3>1. Cardinality({}) = 0
      BY FS_EmptySet
    <3>2. /\ Cardinality({"recv"}) = 1 /\ IsFiniteSet({"recv"})
          /\ Cardinality({"send"}) = 1
      BY FS_Singleton
    <3>3. Cardinality({"recv"} \cup {"send"}) = Cardinality({"recv"}) + 1
      <4>1. "send" \notin {"recv"}
        OBVIOUS
      <4> QED BY <3>2, <4>1, FS_AddElement
    <3>4. {"recv"} \cup {"send"} = {"recv", "send"}
      OBVIOUS
    <3>5. Cardinality({"recv", "send"}) = 2
      <4>1. Cardinality({"recv", "send"}) = Cardinality({"recv"}) + 1
        BY <3>3, <3>4, Zenon
      <4> QED BY <3>2, <4>1
    <3> QED BY <3>1, <3>2, <3>5, Zenon
  <2>3. pending[s] = (IF op[s]["recv"] = "none" THEN 0 ELSE 1)
                       + (IF op[s]["send"] = "none" THEN 0 ELSE 1)
    BY DEF IInv, Counted
  <2>4. CASE op[s]["recv"] = "none" /\ op[s]["send"] = "none"
    BY <2>1, <2>2, <2>3, <2>4
  <2>5. CASE op[s]["recv"] = "none" /\ op[s]["send"] # "none"
    BY <2>1, <2>2, <2>3, <2>5
  <2>6. CASE op[s]["recv"] # "none" /\ op[s]["send"] = "none"
    BY <2>1, <2>2, <2>3, <2>6
  <2>7. CASE op[s]["recv"] # "none" /\ op[s]["send"] # "none"
    <3>1. InFlight(s) = {"recv", "send"}
      BY <2>1, <2>7
    <3> QED BY <2>2, <2>3, <2>7, <3>1
  <2> QED BY <2>4, <2>5, <2>6, <2>7
<1> QED BY <1>1, IInvHolds, PTL

(* Two racing completions do not both unregister a session.                *)
THEOREM ReleasedByOne == Spec => []UnregisteredOnce
<1>1. IInv => UnregisteredOnce
  BY DEF IInv
<1> QED BY <1>1, IInvHolds, PTL

(* A destroyed session has no operation, and no completion, left in RIO.   *)
THEOREM RioForgetsTheDead == Spec => []NoOpOutlivesSession
<1>1. IInv => NoOpOutlivesSession
  <2> SUFFICES ASSUME IInv, NEW s \in Conns, Destroyed(s)
               PROVE  \A q \in Queues : op[s][q] = "none"
    BY DEF NoOpOutlivesSession, InFlight
  <2>1. s \notin Listed
    BY DEF Destroyed, Listed
  <2> QED BY <2>1, Parts DEF Destroyed, Started, Unlisted, Quiet
<1> QED BY <1>1, IInvHolds, PTL

(* The player cap holds although it is checked and used in two steps.      *)
THEOREM CapAlwaysHeld == Spec => []CapHeld
<1>1. IInv => CapHeld
  BY DEF IInv
<1> QED BY <1>1, IInvHolds, PTL

(* A started session that is not closing and not being handled has a       *)
(* receive outstanding.                                                    *)
THEOREM NobodyGoesDeaf == Spec => []NeverDeaf
<1>1. IInv => NeverDeaf
  BY DEF IInv
<1> QED BY <1>1, IInvHolds, PTL

=============================================================================
