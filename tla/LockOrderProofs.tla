--------------------------- MODULE LockOrderProofs ---------------------------
(***************************************************************************)
(* Theorems about LockOrder, for every number of sessions and every squad  *)
(* size.  That nobody waits in a circle is proved for connections that log *)
(* in once: with MaxLogins = 2 TLC shows that somebody may.                *)
(***************************************************************************)
EXTENDS LockOrder, FiniteSetTheorems, SequenceTheorems, WellFoundedInduction, TLAPS

(* The instructions that the routines and the threads really use. *)
Hold == <<"hold", "Matchmaker::lock_", None>>
FreeMatch == <<"free", "Matchmaker::lock_", None>>
Use(s) == <<"use", "Session::lock_", s>>
Release(s) == <<"free", "Session::lock_", s>>
Enqueues(s) == <<"call", "Enqueue", s>>

(* What a routine or a handler has before it: no mutex stays held. *)
Quiet ==
  { Use(s) : s \in Sessions } \cup { <<"use", "membersLock_", None>> }
  \cup ({"call"} \X {"Broadcast"} \X (Sessions \cup {None}))
  \cup ({"call"} \X {"Announce", "AddSession"} \X Sessions)

Steps ==
  Quiet \cup {Hold, FreeMatch} \cup { Release(s) : s \in Sessions }
  \cup ({"call"} \X {"Enqueue", "Cancel", "Leave"} \X Sessions)
  \cup { <<"call", "TickTimeouts", None>> }

Occurs(c, p) == \E i \in DOMAIN p : p[i] = c

(* The matchmaker's lock_ is taken once, and let go after it. *)
OneSection(p) ==
  \A i \in DOMAIN p : p[i] = Hold =>
    /\ \E j \in DOMAIN p : j > i /\ p[j] = FreeMatch
    /\ \A j \in DOMAIN p : p[j] = Hold => j = i

EnqueueOnce(p) ==
  \A s \in Sessions : \A i, j \in DOMAIN p :
    p[i] = Enqueues(s) /\ p[j] = Enqueues(s) => i = j

(* A session's lock_ is let go in the end, and under it the matchmaker's   *)
(* is taken only to enqueue that session.                                  *)
Releases(p, s) ==
  \E i \in DOMAIN p :
    /\ p[i] = Release(s)
    /\ \A h \in DOMAIN p : h < i /\ p[h] = Hold => h + 1 \in DOMAIN p /\ p[h + 1] = Enqueues(s)

(* Instructions that wait for a session, or put it where others find it. *)
Names(s) == {Use(s), <<"call", "AddSession", s>>, <<"call", "Announce", s>>}

(* A session that the matchmaker and the rooms have never heard of. *)
Stranger(s) ==
  /\ ~Occurs(s, queue) /\ s \notin roomed \cup members
  /\ \A t \in Threads : \A c \in Names(s) : ~Occurs(c, todo[t])

Listed == todo \in [Threads -> Seq(Steps)]

Match ==
  /\ \A t \in Threads : OneSection(todo[t])
  /\ \A t \in Threads : owner[MatchLock] = t =>
       ~Occurs(Hold, todo[t]) /\ Occurs(FreeMatch, todo[t])
  /\ owner[Shared("membersLock_")] = None

(* Who holds a session's lock_: never the tick, "send" only until its next *)
(* instruction, "recv" until it releases it.                               *)
SessionLocks ==
  \A s \in Sessions :
    /\ owner[LockOf(s)] # "tick"
    /\ owner[LockOf(s)] = "send" => todo["send"] # <<>> /\ todo["send"][1] = Release(s)
    /\ owner[LockOf(s)] = "recv" => Releases(todo["recv"], s)

Strangers ==
  /\ EnqueueOnce(todo["recv"])
  /\ \A s \in Sessions :
       /\ \A t \in Threads : Occurs(Enqueues(s), todo[t]) => t = "recv" /\ logins[s] # 0
       /\ MaxLogins <= 1 /\ (logins[s] = 0 \/ Occurs(Enqueues(s), todo["recv"])) => Stranger(s)

LInv == TypeOK /\ Listed
IInv == LInv /\ Match /\ SessionLocks /\ Strangers

-----------------------------------------------------------------------------
(* Sequences: what the rest of a program, and a program with something put *)
(* before it, keep.                                                        *)
LEMMA TailIs ==
  ASSUME NEW S, NEW p \in Seq(S), p # <<>>
  PROVE  /\ Tail(p) \in Seq(S) /\ 1 \in DOMAIN p
         /\ \A i \in DOMAIN Tail(p) : i + 1 \in DOMAIN p /\ Tail(p)[i] = p[i + 1]
         /\ \A i \in DOMAIN p \ {1} : i - 1 \in DOMAIN Tail(p) /\ Tail(p)[i - 1] = p[i]
OBVIOUS

LEMMA PrefixIs ==
  ASSUME NEW S, NEW a \in Seq(S), NEW b \in Seq(S)
  PROVE  /\ a \o b \in Seq(S)
         /\ \A i \in DOMAIN a : i \in DOMAIN (a \o b) /\ (a \o b)[i] = a[i]
         /\ \A i \in DOMAIN b : Len(a) + i \in DOMAIN (a \o b) /\ (a \o b)[Len(a) + i] = b[i]
         /\ \A i \in DOMAIN (a \o b) : i \in DOMAIN a \/ (i > Len(a) /\ i - Len(a) \in DOMAIN b)
         /\ Len(a) \in Nat /\ DOMAIN a \subseteq Nat /\ DOMAIN b \subseteq Nat
         /\ \A i \in DOMAIN a : i <= Len(a)
         /\ \A i \in DOMAIN b : i >= 1
BY ConcatProperties

LEMMA TailKeeps ==
  ASSUME NEW p \in Seq(Steps), p # <<>>
  PROVE  /\ Tail(p) \in Seq(Steps)
         /\ OneSection(p) => OneSection(Tail(p))
         /\ EnqueueOnce(p) => EnqueueOnce(Tail(p))
         /\ \A s \in Sessions : Releases(p, s) /\ p[1] # Release(s) => Releases(Tail(p), s)
         /\ \A c : Occurs(c, Tail(p)) => Occurs(c, p)
         /\ \A c : Occurs(c, p) /\ p[1] # c => Occurs(c, Tail(p))
<1>t. /\ Tail(p) \in Seq(Steps) /\ 1 \in DOMAIN p
      /\ \A i \in DOMAIN Tail(p) : i + 1 \in DOMAIN p /\ Tail(p)[i] = p[i + 1]
      /\ \A i \in DOMAIN p \ {1} : i - 1 \in DOMAIN Tail(p) /\ Tail(p)[i - 1] = p[i]
  BY TailIs
<1>d. DOMAIN p \subseteq Nat /\ DOMAIN Tail(p) \subseteq Nat /\ \A i \in DOMAIN p \cup DOMAIN Tail(p) : i >= 1
  BY <1>t
<1> DEFINE q == Tail(p)
<1> HIDE DEF q
<1>q. /\ q \in Seq(Steps) /\ 1 \in DOMAIN p
      /\ \A i \in DOMAIN q : i + 1 \in DOMAIN p /\ q[i] = p[i + 1]
      /\ \A i \in DOMAIN p \ {1} : i - 1 \in DOMAIN q /\ q[i - 1] = p[i]
      /\ DOMAIN p \subseteq Nat /\ DOMAIN q \subseteq Nat /\ \A i \in DOMAIN p \cup DOMAIN q : i >= 1
  BY <1>t, <1>d DEF q
<1>1. ASSUME OneSection(p) PROVE OneSection(q)
  <2> SUFFICES ASSUME NEW i \in DOMAIN q, q[i] = Hold
               PROVE  /\ \E j \in DOMAIN q : j > i /\ q[j] = FreeMatch
                      /\ \A j \in DOMAIN q : q[j] = Hold => j = i
    BY DEF OneSection
  <2>1. i + 1 \in DOMAIN p /\ p[i + 1] = Hold
    BY <1>q
  <2>2. PICK j \in DOMAIN p : j > i + 1 /\ p[j] = FreeMatch
    BY <1>1, <2>1 DEF OneSection
  <2>3. j - 1 \in DOMAIN q /\ q[j - 1] = FreeMatch /\ j - 1 > i
    BY <1>q, <2>2
  <2>4. \A k \in DOMAIN q : q[k] = Hold => k = i
    <3> SUFFICES ASSUME NEW k \in DOMAIN q, q[k] = Hold PROVE k = i
      OBVIOUS
    <3>1. k + 1 \in DOMAIN p /\ p[k + 1] = Hold
      BY <1>q
    <3>2. k + 1 = i + 1
      BY <1>1, <2>1, <3>1 DEF OneSection
    <3> QED BY <3>2, <1>q
  <2> QED BY <2>3, <2>4
<1>2. ASSUME EnqueueOnce(p) PROVE EnqueueOnce(q)
  <2> SUFFICES ASSUME NEW s \in Sessions, NEW i \in DOMAIN q, NEW j \in DOMAIN q,
                      q[i] = Enqueues(s), q[j] = Enqueues(s)
               PROVE  i = j
    BY DEF EnqueueOnce
  <2>1. i + 1 = j + 1
    BY <1>2, <1>q DEF EnqueueOnce
  <2> QED BY <2>1, <1>q
<1>3. ASSUME NEW s \in Sessions, Releases(p, s), p[1] # Release(s) PROVE Releases(q, s)
  <2>1. PICK i \in DOMAIN p :
          /\ p[i] = Release(s)
          /\ \A h \in DOMAIN p : h < i /\ p[h] = Hold => h + 1 \in DOMAIN p /\ p[h + 1] = Enqueues(s)
    BY <1>3 DEF Releases
  <2>2. i - 1 \in DOMAIN q /\ q[i - 1] = Release(s)
    BY <1>3, <1>q, <2>1
  <2>3. ASSUME NEW h \in DOMAIN q, h < i - 1, q[h] = Hold
        PROVE  h + 1 \in DOMAIN q /\ q[h + 1] = Enqueues(s)
    <3>1. h + 1 \in DOMAIN p /\ p[h + 1] = Hold /\ h + 1 < i
      BY <1>q, <2>3
    <3>2. (h + 1) + 1 \in DOMAIN p /\ p[(h + 1) + 1] = Enqueues(s)
      BY <2>1, <3>1
    <3>3. (h + 1) + 1 # 1 /\ ((h + 1) + 1) - 1 = h + 1
      BY <1>q
    <3> QED BY <1>q, <3>2, <3>3
  <2> QED BY <2>2, <2>3 DEF Releases
<1>4. ASSUME NEW c, Occurs(c, q) PROVE Occurs(c, p)
  BY <1>4, <1>q DEF Occurs
<1>5. ASSUME NEW c, Occurs(c, p), p[1] # c PROVE Occurs(c, q)
  BY <1>5, <1>q DEF Occurs
<1> QED BY <1>q, <1>1, <1>2, <1>3, <1>4, <1>5 DEF q

LEMMA QuietIs ==
  ASSUME NEW c \in Quiet
  PROVE  /\ c \in Steps /\ c # Hold /\ c # FreeMatch
         /\ \A s : c # Release(s) /\ c # Enqueues(s)
BY DEF Quiet, Steps, Hold, FreeMatch, Release, Enqueues, Use

LEMMA PrefixKeeps ==
  ASSUME NEW a \in Seq(Quiet), NEW b \in Seq(Steps)
  PROVE  /\ a \o b \in Seq(Steps)
         /\ OneSection(b) => OneSection(a \o b)
         /\ EnqueueOnce(b) => EnqueueOnce(a \o b)
         /\ \A s \in Sessions : Releases(b, s) => Releases(a \o b, s)
         /\ \A c : Occurs(c, a \o b) <=> Occurs(c, a) \/ Occurs(c, b)
         /\ ~Occurs(Hold, a) /\ ~Occurs(FreeMatch, a)
         /\ \A s : ~Occurs(Enqueues(s), a)
<1>q. \A i \in DOMAIN a : a[i] \in Quiet
  OBVIOUS
<1>a. a \in Seq(Steps)
  BY QuietIs
<1> DEFINE p == a \o b
           n == Len(a)
<1> HIDE DEF p, n
<1>p. /\ p \in Seq(Steps)
      /\ \A i \in DOMAIN a : i \in DOMAIN p /\ p[i] = a[i]
      /\ \A i \in DOMAIN b : n + i \in DOMAIN p /\ p[n + i] = b[i]
      /\ \A i \in DOMAIN p : i \in DOMAIN a \/ (i > n /\ i - n \in DOMAIN b)
      /\ n \in Nat /\ DOMAIN a \subseteq Nat /\ DOMAIN b \subseteq Nat /\ DOMAIN p \subseteq Nat
      /\ \A i \in DOMAIN a : i <= n
      /\ \A i \in DOMAIN b : i >= 1
  BY <1>a, PrefixIs DEF p, n
<1>n. ASSUME NEW i \in DOMAIN p, p[i] \notin Quiet
      PROVE  i > n /\ i - n \in DOMAIN b /\ b[i - n] = p[i] /\ n + (i - n) = i
  BY <1>n, <1>p, <1>q
<1>1. ASSUME OneSection(b) PROVE OneSection(p)
  <2> SUFFICES ASSUME NEW i \in DOMAIN p, p[i] = Hold
               PROVE  /\ \E j \in DOMAIN p : j > i /\ p[j] = FreeMatch
                      /\ \A j \in DOMAIN p : p[j] = Hold => j = i
    BY DEF OneSection
  <2>1. i - n \in DOMAIN b /\ b[i - n] = Hold
    BY <1>n, QuietIs
  <2>2. PICK j \in DOMAIN b : j > i - n /\ b[j] = FreeMatch
    BY <1>1, <2>1 DEF OneSection
  <2>3. n + j \in DOMAIN p /\ p[n + j] = FreeMatch /\ n + j > i
    BY <1>p, <2>2
  <2>4. \A k \in DOMAIN p : p[k] = Hold => k = i
    <3> SUFFICES ASSUME NEW k \in DOMAIN p, p[k] = Hold PROVE k = i
      OBVIOUS
    <3>1. k - n \in DOMAIN b /\ b[k - n] = Hold
      BY <1>n, QuietIs
    <3>2. k - n = i - n
      BY <1>1, <2>1, <3>1 DEF OneSection
    <3> QED BY <3>2, <1>p
  <2> QED BY <2>3, <2>4
<1>2. ASSUME EnqueueOnce(b) PROVE EnqueueOnce(p)
  <2> SUFFICES ASSUME NEW s \in Sessions, NEW i \in DOMAIN p, NEW j \in DOMAIN p,
                      p[i] = Enqueues(s), p[j] = Enqueues(s)
               PROVE  i = j
    BY DEF EnqueueOnce
  <2>1. /\ i - n \in DOMAIN b /\ b[i - n] = Enqueues(s)
        /\ j - n \in DOMAIN b /\ b[j - n] = Enqueues(s)
    BY <1>n, QuietIs
  <2>2. i - n = j - n
    BY <1>2, <2>1 DEF EnqueueOnce
  <2> QED BY <2>2, <1>p
<1>3. ASSUME NEW s \in Sessions, Releases(b, s) PROVE Releases(p, s)
  <2>1. PICK i \in DOMAIN b :
          /\ b[i] = Release(s)
          /\ \A h \in DOMAIN b : h < i /\ b[h] = Hold => h + 1 \in DOMAIN b /\ b[h + 1] = Enqueues(s)
    BY <1>3 DEF Releases
  <2>2. n + i \in DOMAIN p /\ p[n + i] = Release(s)
    BY <1>p, <2>1
  <2>3. ASSUME NEW h \in DOMAIN p, h < n + i, p[h] = Hold
        PROVE  h + 1 \in DOMAIN p /\ p[h + 1] = Enqueues(s)
    <3>1. h > n /\ h - n \in DOMAIN b /\ b[h - n] = Hold
      BY <1>n, <2>3, QuietIs
    <3>2. h - n < i
      BY <2>3, <1>p
    <3>3. (h - n) + 1 \in DOMAIN b /\ b[(h - n) + 1] = Enqueues(s)
      BY <2>1, <3>1, <3>2
    <3>4. n + ((h - n) + 1) = h + 1
      BY <1>p
    <3> QED BY <1>p, <3>3, <3>4
  <2> QED BY <2>2, <2>3 DEF Releases
<1>4. ASSUME NEW c PROVE Occurs(c, p) <=> Occurs(c, a) \/ Occurs(c, b)
  <2>1. ASSUME Occurs(c, p) PROVE Occurs(c, a) \/ Occurs(c, b)
    <3>1. PICK i \in DOMAIN p : p[i] = c
      BY <2>1 DEF Occurs
    <3>2. CASE i \in DOMAIN a
      BY <3>1, <3>2, <1>p DEF Occurs
    <3>3. CASE i > n /\ i - n \in DOMAIN b
      <4>1. n + (i - n) = i
        BY <1>p
      <4> QED BY <3>1, <3>3, <4>1, <1>p DEF Occurs
    <3> QED BY <3>2, <3>3, <1>p
  <2>2. ASSUME Occurs(c, a) PROVE Occurs(c, p)
    BY <2>2, <1>p DEF Occurs
  <2>3. ASSUME Occurs(c, b) PROVE Occurs(c, p)
    BY <2>3, <1>p DEF Occurs
  <2> QED BY <2>1, <2>2, <2>3
<1>5. ~Occurs(Hold, a) /\ ~Occurs(FreeMatch, a) /\ \A s : ~Occurs(Enqueues(s), a)
  BY <1>q, QuietIs DEF Occurs
<1> QED BY <1>p, <1>1, <1>2, <1>3, <1>4, <1>5 DEF p

-----------------------------------------------------------------------------
(* The programs that the threads begin                                     *)
LEMMA DoIs ==
  ASSUME NEW op, NEW s, NEW n
  PROVE  /\ Do(op, LockOf(s)) = << <<op, "Session::lock_", s>> >>
         /\ Do(op, Shared(n)) = << <<op, n, None>> >>
BY DEF Do, LockOf, Shared

LEMMA TwoSteps ==
  ASSUME NEW S, NEW a \in S, NEW b \in S
  PROVE  LET p == <<a>> \o <<b>>
         IN  p \in Seq(S) /\ Len(p) = 2 /\ p[1] = a /\ p[2] = b
OBVIOUS

LEMMA OneMore ==
  ASSUME NEW p \in Seq(Steps), NEW a \in Seq(Steps), Len(a) = 1, NEW q, q = p \o a
  PROVE  /\ q \in Seq(Steps) /\ Len(q) = Len(p) + 1
         /\ q[Len(p) + 1] = a[1]
         /\ \A i \in DOMAIN p : q[i] = p[i]
<1>0. /\ p \o a \in Seq(Steps) /\ Len(p \o a) = Len(p) + Len(a)
      /\ \A i \in 1 .. Len(p) + Len(a) : (p \o a)[i] = IF i <= Len(p) THEN p[i] ELSE a[i - Len(p)]
  BY ConcatProperties
<1>1. /\ q \in Seq(Steps) /\ Len(q) = Len(p) + Len(a) /\ Len(p) \in Nat
      /\ \A i \in 1 .. Len(p) + Len(a) : q[i] = IF i <= Len(p) THEN p[i] ELSE a[i - Len(p)]
  BY <1>0
<1>2. q[Len(p) + 1] = a[1]
  <2>1. Len(p) + 1 \in 1 .. Len(p) + Len(a) /\ ~(Len(p) + 1 <= Len(p)) /\ (Len(p) + 1) - Len(p) = 1
    BY <1>1
  <2> QED BY <1>1, <2>1
<1>3. ASSUME NEW i \in DOMAIN p PROVE q[i] = p[i]
  <2>1. i \in 1 .. Len(p) + Len(a) /\ i <= Len(p)
    BY <1>1
  <2> QED BY <1>1, <2>1
<1> QED BY <1>1, <1>2, <1>3

LEMMA OneBefore ==
  ASSUME NEW S, NEW p \in Seq(S), NEW c \in S, NEW q, q = <<c>> \o p
  PROVE  /\ q \in Seq(S) /\ Len(q) = Len(p) + 1 /\ q[1] = c
         /\ \A i \in DOMAIN p : q[i + 1] = p[i]
<1> DEFINE a == <<c>>
<1>1. a \in Seq(S) /\ Len(a) = 1 /\ a[1] = c /\ q = a \o p
  OBVIOUS
<1> HIDE DEF a
<1> QED BY <1>1, ConcatProperties

LEMMA SectionIs ==
  ASSUME NEW routine, NEW s, <<"call", routine, s>> \in Steps
  PROVE  LET p == Matchmaker(routine, s)
         IN  /\ p \in Seq(Steps) /\ Len(p) = 3
             /\ p[1] = Hold /\ p[2] = <<"call", routine, s>> /\ p[3] = FreeMatch
<1>1. Do("hold", MatchLock) = <<Hold>> /\ Do("free", MatchLock) = <<FreeMatch>>
  BY DoIs DEF MatchLock, Hold, FreeMatch
<1>2. Hold \in Steps /\ FreeMatch \in Steps
  BY DEF Steps
<1> DEFINE c == <<"call", routine, s>>
           h == Do("hold", MatchLock) \o Call(routine, s)
<1> HIDE DEF c, h
<1>3. h \in Seq(Steps) /\ Len(h) = 2 /\ h[1] = Hold /\ h[2] = c
  BY <1>1, <1>2, TwoSteps DEF c, h, Call
<1> DEFINE q == Matchmaker(routine, s)
<1>4. q = h \o <<FreeMatch>>
  BY <1>1 DEF Matchmaker, h
<1> DEFINE a == <<FreeMatch>>
<1>8. a \in Seq(Steps) /\ Len(a) = 1 /\ a[1] = FreeMatch /\ q = h \o a
  BY <1>2, <1>4
<1> HIDE DEF q, a
<1>9. h \in Seq(Steps)
  BY <1>3
<1>5. /\ q \in Seq(Steps) /\ Len(q) = Len(h) + 1 /\ q[Len(h) + 1] = a[1]
      /\ \A i \in DOMAIN h : q[i] = h[i]
  BY <1>8, <1>9, OneMore
<1> QED BY <1>3, <1>5, <1>8 DEF c, q

(* The end of a completion. *)
LEMMA CompletionIs ==
  ASSUME NEW s \in Sessions, NEW closes \in BOOLEAN
  PROVE  LET p == AfterHandler(s, closes)
         IN  /\ p \in Seq(Steps) /\ 1 \in DOMAIN p /\ p[1] = Release(s)
             /\ OneSection(p) /\ Releases(p, s)
             /\ \A x : ~Occurs(Enqueues(x), p) /\ \A c \in Names(x) : ~Occurs(c, p)
<1>1. Do("free", LockOf(s)) = <<Release(s)>> /\ Release(s) \in Steps
  BY DoIs DEF Release, Steps
<1>2. CASE closes
  <2> DEFINE m == Matchmaker("Cancel", s)
             u == Unregister(s)
             p == AfterHandler(s, closes)
             leave == <<"call", "Leave", s>>
  <2>1. <<"call", "Cancel", s>> \in Steps /\ leave \in Steps /\ FreeMatch \in Steps
    BY DEF Steps
  <2>2. /\ m \in Seq(Steps) /\ Len(m) = 3
        /\ m[1] = Hold /\ m[2] = <<"call", "Cancel", s>> /\ m[3] = FreeMatch
    BY <2>1, SectionIs
  <2>3. u = m \o <<leave>> /\ p = <<Release(s)>> \o u
    BY <1>1, <1>2 DEF Unregister, AfterHandler, Call
  <2> HIDE DEF m, leave, u, p
  <2>4. /\ u \in Seq(Steps) /\ Len(u) = 4 /\ u[1] = Hold /\ u[2] = <<"call", "Cancel", s>>
        /\ u[3] = FreeMatch /\ u[4] = leave
    <3> DEFINE a == <<leave>>
    <3>1. a \in Seq(Steps) /\ Len(a) = 1 /\ a[1] = leave /\ u = m \o a
      BY <2>1, <2>3
    <3> HIDE DEF a
    <3>2. m \in Seq(Steps)
      BY <2>2
    <3>3. /\ u \in Seq(Steps) /\ Len(u) = Len(m) + 1 /\ u[Len(m) + 1] = a[1]
          /\ \A i \in DOMAIN m : u[i] = m[i]
      BY <3>1, <3>2, OneMore, Zenon
    <3> QED BY <2>2, <3>1, <3>3 DEF a
  <2>5. /\ p \in Seq(Steps) /\ Len(p) = 5 /\ p[1] = Release(s) /\ p[2] = Hold
        /\ p[3] = <<"call", "Cancel", s>> /\ p[4] = FreeMatch /\ p[5] = leave
    <3>1. p \in Seq(Steps) /\ Len(p) = Len(u) + 1 /\ p[1] = Release(s)
      BY <1>1, <2>3, <2>4, OneBefore
    <3>2. \A i \in DOMAIN u : p[i + 1] = u[i]
      BY <1>1, <2>3, <2>4, OneBefore
    <3> QED BY <2>4, <3>1, <3>2
  <2>6. DOMAIN p = {1, 2, 3, 4, 5}
    BY <2>5
  <2>7. /\ Release(s) # Hold /\ <<"call", "Cancel", s>> # Hold /\ FreeMatch # Hold /\ leave # Hold
    BY DEF Release, Hold, FreeMatch, leave
  <2>8. OneSection(p)
    <3>1. \A i \in DOMAIN p : p[i] = Hold => i = 2
      BY <2>5, <2>6, <2>7
    <3> QED BY <2>5, <2>6, <3>1 DEF OneSection
  <2>9. Releases(p, s)
    BY <2>5, <2>6 DEF Releases
  <2>10. ASSUME NEW x PROVE ~Occurs(Enqueues(x), p) /\ \A c \in Names(x) : ~Occurs(c, p)
    BY <2>5, <2>6 DEF Occurs, Enqueues, Names, Use, Release, Hold, FreeMatch, leave
  <2> QED BY <2>5, <2>6, <2>8, <2>9, <2>10 DEF p
<1>3. CASE ~closes
  <2> DEFINE p == AfterHandler(s, closes)
  <2>1. p = <<Release(s)>>
    BY <1>1, <1>3 DEF AfterHandler
  <2> HIDE DEF p
  <2>2. p \in Seq(Steps) /\ DOMAIN p = {1} /\ p[1] = Release(s)
    BY <1>1, <2>1
  <2>3. OneSection(p) /\ Releases(p, s)
    BY <2>2 DEF OneSection, Releases, Release, Hold
  <2>4. ASSUME NEW x PROVE ~Occurs(Enqueues(x), p) /\ \A c \in Names(x) : ~Occurs(c, p)
    BY <2>2 DEF Occurs, Enqueues, Names, Use, Release
  <2> QED BY <2>2, <2>3, <2>4 DEF p
<1> QED BY <1>2, <1>3

(* A login: the session is enqueued under its own lock_. *)
LEMMA LoginIs ==
  ASSUME NEW s \in Sessions
  PROVE  LET p == Matchmaker("Enqueue", s) \o AfterHandler(s, FALSE)
         IN  /\ p \in Seq(Steps)
             /\ OneSection(p) /\ Releases(p, s) /\ EnqueueOnce(p)
             /\ \A x : Occurs(Enqueues(x), p) => x = s
             /\ \A x : \A c \in Names(x) : ~Occurs(c, p)
<1> DEFINE m == Matchmaker("Enqueue", s)
           p == m \o AfterHandler(s, FALSE)
<1>1. Do("free", LockOf(s)) = <<Release(s)>> /\ Release(s) \in Steps /\ Enqueues(s) \in Steps
  BY DoIs DEF Release, Enqueues, Steps
<1>2. m \in Seq(Steps) /\ Len(m) = 3 /\ m[1] = Hold /\ m[2] = Enqueues(s) /\ m[3] = FreeMatch
  BY <1>1, SectionIs DEF Enqueues
<1>3. p = m \o <<Release(s)>>
  <2>1. AfterHandler(s, FALSE) = <<Release(s)>> \o <<>>
    BY <1>1 DEF AfterHandler
  <2>2. <<Release(s)>> \o <<>> = <<Release(s)>>
    OBVIOUS
  <2> QED BY <2>1, <2>2
<1> HIDE DEF m, p
<1>4. /\ p \in Seq(Steps) /\ Len(p) = 4
      /\ p[1] = Hold /\ p[2] = Enqueues(s) /\ p[3] = FreeMatch /\ p[4] = Release(s)
  <2> DEFINE a == <<Release(s)>>
  <2>1. a \in Seq(Steps) /\ Len(a) = 1 /\ a[1] = Release(s) /\ p = m \o a
    BY <1>1, <1>3
  <2> HIDE DEF a
  <2>2. /\ p \in Seq(Steps) /\ Len(p) = Len(m) + 1 /\ p[Len(m) + 1] = Release(s)
        /\ \A i \in DOMAIN m : p[i] = m[i]
    BY <1>2, <2>1, OneMore
  <2> QED BY <1>2, <2>2
<1>5. DOMAIN p = {1, 2, 3, 4}
  BY <1>4
<1>6. OneSection(p)
  BY <1>4, <1>5 DEF OneSection, Hold, FreeMatch, Enqueues, Release
<1>7. Releases(p, s)
  <2>1. \A h \in DOMAIN p : p[h] = Hold => h = 1
    BY <1>4, <1>5 DEF Hold, FreeMatch, Enqueues, Release
  <2> QED BY <1>4, <1>5, <2>1 DEF Releases
<1>8. \A i \in DOMAIN p : \A x : p[i] = Enqueues(x) => i = 2 /\ x = s
  BY <1>4, <1>5 DEF Hold, FreeMatch, Enqueues, Release
<1>9. \A x : \A c \in Names(x) : ~Occurs(c, p)
  BY <1>4, <1>5 DEF Occurs, Names, Use, Hold, FreeMatch, Enqueues, Release
<1>10. EnqueueOnce(p)
  BY <1>8 DEF EnqueueOnce
<1>11. \A x : Occurs(Enqueues(x), p) => x = s
  BY <1>8 DEF Occurs
<1> QED BY <1>4, <1>6, <1>7, <1>9, <1>10, <1>11 DEF p, m

(* The matchmaker's turn of the tick. *)
LEMMA TickIs ==
  LET p == Call("TickTimeouts", None) \o Do("free", MatchLock)
  IN  /\ p \in Seq(Steps) /\ OneSection(p)
      /\ ~Occurs(Hold, p) /\ Occurs(FreeMatch, p)
      /\ \A x : ~Occurs(Enqueues(x), p) /\ \A c \in Names(x) : ~Occurs(c, p)
<1> DEFINE p == Call("TickTimeouts", None) \o Do("free", MatchLock)
           c == <<"call", "TickTimeouts", None>>
<1>1. Do("free", MatchLock) = <<FreeMatch>> /\ FreeMatch \in Steps /\ c \in Steps
  BY DoIs DEF MatchLock, FreeMatch, Steps
<1>p. p = <<c>> \o <<FreeMatch>>
  BY <1>1 DEF Call
<1> HIDE DEF p, c
<1>2. p \in Seq(Steps) /\ Len(p) = 2 /\ p[1] = c /\ p[2] = FreeMatch
  BY <1>1, <1>p, TwoSteps
<1> USE DEF c
<1>3. DOMAIN p = {1, 2}
  BY <1>2
<1>4. OneSection(p) /\ ~Occurs(Hold, p) /\ Occurs(FreeMatch, p)
  BY <1>2, <1>3 DEF OneSection, Occurs, Hold, FreeMatch
<1>5. \A x : ~Occurs(Enqueues(x), p) /\ \A d \in Names(x) : ~Occurs(d, p)
  BY <1>2, <1>3 DEF Occurs, Enqueues, Names, Use, FreeMatch
<1> QED BY <1>2, <1>4, <1>5 DEF p

-----------------------------------------------------------------------------
(* One instruction of a thread is replaced by quiet ones. *)
LEMMA Replaced ==
  ASSUME Listed, NEW t \in Threads, todo[t] # <<>>, NEW a \in Seq(Quiet), Continue(t, a)
  PROVE  /\ Listed' /\ \A u \in Threads \ {t} : todo'[u] = todo[u]
         /\ todo[t] \in Seq(Steps) /\ todo'[t] \in Seq(Steps)
         /\ OneSection(todo[t]) => OneSection(todo'[t])
         /\ EnqueueOnce(todo[t]) => EnqueueOnce(todo'[t])
         /\ \A s \in Sessions : Releases(todo[t], s) /\ todo[t][1] # Release(s) => Releases(todo'[t], s)
         /\ \A c : Occurs(c, todo'[t]) => Occurs(c, a) \/ Occurs(c, Tail(todo[t]))
         /\ \A c : Occurs(c, Tail(todo[t])) => Occurs(c, todo[t])
         /\ \A c : Occurs(c, todo[t]) /\ todo[t][1] # c => Occurs(c, todo'[t])
         /\ ~Occurs(Hold, a) /\ \A s : ~Occurs(Enqueues(s), a)
<1>1. todo[t] \in Seq(Steps)
  BY DEF Listed
<1>2. todo' = [todo EXCEPT ![t] = a \o Tail(todo[t])]
  BY DEF Continue
<1>3. todo'[t] = a \o Tail(todo[t]) /\ \A u \in Threads \ {t} : todo'[u] = todo[u]
  BY <1>2 DEF Listed
<1>4. /\ Tail(todo[t]) \in Seq(Steps)
      /\ OneSection(todo[t]) => OneSection(Tail(todo[t]))
      /\ EnqueueOnce(todo[t]) => EnqueueOnce(Tail(todo[t]))
      /\ \A s \in Sessions : Releases(todo[t], s) /\ todo[t][1] # Release(s) => Releases(Tail(todo[t]), s)
      /\ \A c : Occurs(c, Tail(todo[t])) => Occurs(c, todo[t])
      /\ \A c : Occurs(c, todo[t]) /\ todo[t][1] # c => Occurs(c, Tail(todo[t]))
  BY <1>1, TailKeeps
<1> DEFINE b == Tail(todo[t])
<1> HIDE DEF b
<1>b. b \in Seq(Steps)
  BY <1>4 DEF b
<1>5. /\ a \o b \in Seq(Steps)
      /\ OneSection(b) => OneSection(a \o b)
      /\ EnqueueOnce(b) => EnqueueOnce(a \o b)
      /\ \A s \in Sessions : Releases(b, s) => Releases(a \o b, s)
      /\ \A c : Occurs(c, a \o b) <=> Occurs(c, a) \/ Occurs(c, b)
      /\ ~Occurs(Hold, a) /\ \A s : ~Occurs(Enqueues(s), a)
  BY <1>b, PrefixKeeps
<1>6. todo'[t] = a \o b
  BY <1>3 DEF b
<1>7. Listed'
  BY <1>2, <1>5, <1>6 DEF Listed, b
<1> QED BY <1>1, <1>3, <1>4, <1>5, <1>6, <1>7 DEF b

(* What is taken off is not there any more. *)
LEMMA HeadGone ==
  ASSUME NEW p \in Seq(Steps), p # <<>>
  PROVE  /\ p[1] = Hold /\ OneSection(p) => ~Occurs(Hold, Tail(p))
         /\ \A s \in Sessions : p[1] = Enqueues(s) /\ EnqueueOnce(p) => ~Occurs(Enqueues(s), Tail(p))
         /\ Occurs(p[1], p)
<1>t. /\ 1 \in DOMAIN p
      /\ \A i \in DOMAIN Tail(p) : i + 1 \in DOMAIN p /\ Tail(p)[i] = p[i + 1] /\ i + 1 # 1
  BY TailIs
<1>1. ASSUME p[1] = Hold, OneSection(p), Occurs(Hold, Tail(p)) PROVE FALSE
  <2>1. PICK i \in DOMAIN Tail(p) : Tail(p)[i] = Hold
    BY <1>1 DEF Occurs
  <2>2. i + 1 \in DOMAIN p /\ p[i + 1] = Hold /\ i + 1 # 1
    BY <1>t, <2>1
  <2> QED BY <1>t, <1>1, <2>2 DEF OneSection
<1>2. ASSUME NEW s \in Sessions, p[1] = Enqueues(s), EnqueueOnce(p), Occurs(Enqueues(s), Tail(p)) PROVE FALSE
  <2>1. PICK i \in DOMAIN Tail(p) : Tail(p)[i] = Enqueues(s)
    BY <1>2 DEF Occurs
  <2>2. i + 1 \in DOMAIN p /\ p[i + 1] = Enqueues(s) /\ i + 1 # 1
    BY <1>t, <2>1
  <2> QED BY <1>t, <1>2, <2>2 DEF EnqueueOnce
<1> QED BY <1>t, <1>1, <1>2 DEF Occurs

Foreign(s, a) == \A c \in Names(s) : ~Occurs(c, a)

(* A step that neither takes nor frees a mutex keeps everything, if it     *)
(* introduces to the others only who is known already.                     *)
LEMMA StepKeeps ==
  ASSUME IInv, NEW t \in Threads, todo[t] # <<>>, NEW a \in Seq(Quiet), Continue(t, a),
         UNCHANGED <<owner, logins>>,
         todo[t][1] # FreeMatch, \A s : todo[t][1] # Release(s),
         \A s \in Sessions : Stranger(s) /\ todo[t][1] # Enqueues(s) =>
           ~Occurs(s, queue') /\ s \notin roomed' \cup members' /\ Foreign(s, a)
  PROVE  Listed' /\ Match' /\ SessionLocks' /\ Strangers'
<1> USE DEF IInv, LInv
<1>1. /\ Listed' /\ \A u \in Threads \ {t} : todo'[u] = todo[u]
      /\ todo[t] \in Seq(Steps)
      /\ OneSection(todo[t]) => OneSection(todo'[t])
      /\ EnqueueOnce(todo[t]) => EnqueueOnce(todo'[t])
      /\ \A s \in Sessions : Releases(todo[t], s) /\ todo[t][1] # Release(s) => Releases(todo'[t], s)
      /\ \A c : Occurs(c, todo'[t]) => Occurs(c, a) \/ Occurs(c, Tail(todo[t]))
      /\ \A c : Occurs(c, Tail(todo[t])) => Occurs(c, todo[t])
      /\ \A c : Occurs(c, todo[t]) /\ todo[t][1] # c => Occurs(c, todo'[t])
      /\ ~Occurs(Hold, a) /\ \A s : ~Occurs(Enqueues(s), a)
  BY Replaced
<1>2. Match'
  <2>1. \A u \in Threads : OneSection(todo'[u])
    BY <1>1 DEF Match
  <2>2. \A u \in Threads : owner[MatchLock] = u => ~Occurs(Hold, todo'[u]) /\ Occurs(FreeMatch, todo'[u])
    BY <1>1 DEF Match
  <2> QED BY <2>1, <2>2 DEF Match, MatchLock, Shared
<1>3. SessionLocks'
  <2> SUFFICES ASSUME NEW s \in Sessions
               PROVE  /\ owner[LockOf(s)] # "tick"
                      /\ owner[LockOf(s)] = "send" => todo'["send"] # <<>> /\ todo'["send"][1] = Release(s)
                      /\ owner[LockOf(s)] = "recv" => Releases(todo'["recv"], s)
    BY DEF SessionLocks, LockOf
  <2>1. owner[LockOf(s)] = "send" => t # "send"
    BY DEF SessionLocks
  <2> QED BY <1>1, <2>1 DEF SessionLocks, Threads
<1>4. ASSUME NEW s \in Sessions, NEW u \in Threads, Occurs(Enqueues(s), todo'[u])
      PROVE  Occurs(Enqueues(s), todo[u]) /\ (u = t => todo[t][1] # Enqueues(s) \/ t # "recv")
  <2>1. CASE u # t
    BY <1>1, <1>4, <2>1
  <2>2. CASE u = t
    <3>1. Occurs(Enqueues(s), Tail(todo[t]))
      BY <1>1, <1>4, <2>2
    <3>2. t = "recv" => todo[t][1] # Enqueues(s)
      BY <1>1, <3>1, HeadGone DEF Strangers
    <3> QED BY <1>1, <2>2, <3>1, <3>2
  <2> QED BY <2>1, <2>2
<1>5. Strangers'
  <2>1. EnqueueOnce(todo'["recv"])
    BY <1>1 DEF Strangers, Threads
  <2>2. ASSUME NEW s \in Sessions, NEW u \in Threads, Occurs(Enqueues(s), todo'[u])
        PROVE  u = "recv" /\ logins[s] # 0
    BY <1>4, <2>2 DEF Strangers
  <2>3. ASSUME NEW s \in Sessions, MaxLogins <= 1, logins[s] = 0 \/ Occurs(Enqueues(s), todo'["recv"])
        PROVE  Stranger(s)'
    <3>1. "recv" \in Threads
      BY DEF Threads
    <3>2. Stranger(s)
      BY <1>4, <2>3, <3>1 DEF Strangers
    <3>3. todo[t][1] # Enqueues(s)
      <4>1. ASSUME todo[t][1] = Enqueues(s) PROVE FALSE
        <5>1. Occurs(Enqueues(s), todo[t])
          BY <1>1, <4>1, HeadGone
        <5>2. t = "recv" /\ logins[s] # 0
          BY <5>1 DEF Strangers
        <5> QED BY <1>4, <2>3, <3>1, <4>1, <5>2
      <4> QED BY <4>1
    <3>4. ~Occurs(s, queue') /\ s \notin roomed' \cup members' /\ Foreign(s, a)
      BY <3>2, <3>3
    <3>5. ASSUME NEW u \in Threads, NEW c \in Names(s) PROVE ~Occurs(c, todo'[u])
      BY <1>1, <3>2, <3>4 DEF Stranger, Foreign
    <3> QED BY <3>4, <3>5 DEF Stranger, Occurs, Names, Use
  <2>4. ASSUME NEW s \in Sessions, NEW u \in Threads, Occurs(Enqueues(s), todo[u])' PROVE Occurs(Enqueues(s), todo'[u])
    BY <2>4 DEF Occurs, Enqueues
  <2>5. ASSUME NEW s \in Sessions, Occurs(Enqueues(s), todo["recv"])' PROVE Occurs(Enqueues(s), todo'["recv"])
    BY <2>5 DEF Occurs, Enqueues
  <2>6. EnqueueOnce(todo["recv"])'
    BY <2>1 DEF EnqueueOnce, Enqueues
  <2> QED BY <2>2, <2>3, <2>4, <2>5, <2>6 DEF Strangers
<1> QED BY <1>1, <1>2, <1>3, <1>5

-----------------------------------------------------------------------------
(* What the routines put before the rest                                   *)
LEMMA QuietMember ==
  ASSUME NEW s \in Sessions
  PROVE  /\ Use(s) \in Quiet
         /\ <<"call", "Broadcast", s>> \in Quiet /\ <<"call", "Announce", s>> \in Quiet
         /\ <<"call", "AddSession", s>> \in Quiet
         /\ <<"call", "Broadcast", None>> \in Quiet
         /\ <<"use", "membersLock_", None>> \in Quiet
BY DEF Quiet

LEMMA SendAllIs ==
  ASSUME NEW S \in SUBSET Sessions, NEW q \in Seq(S)
  PROVE  /\ SendAll(q) \in Seq(Quiet)
         /\ \A s : ~Occurs(s, q) => Foreign(s, SendAll(q))
<1>1. \A i \in DOMAIN q : q[i] \in Sessions /\ SendTo(q[i])[1] = Use(q[i])
  BY DoIs DEF SendTo, Use
<1>2. SendAll(q) = [i \in DOMAIN q |-> Use(q[i])]
  BY <1>1 DEF SendAll
<1>3. DOMAIN q = 1 .. Len(q) /\ Len(q) \in Nat
  OBVIOUS
<1>4. SendAll(q) \in Seq(Quiet)
  <2>1. \A i \in 1 .. Len(q) : Use(q[i]) \in Quiet
    BY <1>1, <1>3, QuietMember
  <2> QED BY <1>2, <1>3, <2>1
<1>5. ASSUME NEW s, NEW c \in Names(s), Occurs(c, SendAll(q)) PROVE Occurs(s, q)
  <2>1. PICK i \in DOMAIN q : Use(q[i]) = c
    BY <1>2, <1>5 DEF Occurs
  <2>2. q[i] = s
    BY <2>1 DEF Names, Use
  <2> QED BY <2>2 DEF Occurs
<1> QED BY <1>4, <1>5 DEF Foreign

LEMMA EachIs ==
  ASSUME NEW q \in Seq(Sessions)
  PROVE  /\ Each("AddSession", q) \in Seq(Quiet)
         /\ \A s : ~Occurs(s, q) => Foreign(s, Each("AddSession", q))
<1> DEFINE e == Each("AddSession", q)
<1>1. \A s : Call("AddSession", s)[1] = <<"call", "AddSession", s>>
  BY DEF Call
<1>2. e = [i \in DOMAIN q |-> <<"call", "AddSession", q[i]>>]
  BY <1>1 DEF Each
<1>3. DOMAIN q = 1 .. Len(q) /\ Len(q) \in Nat
  OBVIOUS
<1>4. e \in Seq(Quiet)
  <2>1. ASSUME NEW i \in 1 .. Len(q) PROVE <<"call", "AddSession", q[i]>> \in Quiet
    <3>1. q[i] \in Sessions
      OBVIOUS
    <3> QED BY <3>1, QuietMember
  <2> QED BY <1>2, <1>3, <2>1
<1>5. ASSUME NEW s, NEW c \in Names(s), Occurs(c, e) PROVE Occurs(s, q)
  <2>1. PICK i \in DOMAIN q : <<"call", "AddSession", q[i]>> = c
    BY <1>2, <1>5 DEF Occurs
  <2>2. q[i] = s
    BY <2>1 DEF Names, Use
  <2> QED BY <2>2 DEF Occurs
<1> QED BY <1>4, <1>5 DEF Foreign

LEMMA ForeignParts ==
  ASSUME NEW a \in Seq(Quiet), NEW b \in Seq(Quiet)
  PROVE  /\ a \o b \in Seq(Quiet)
         /\ \A s : Foreign(s, a) /\ Foreign(s, b) => Foreign(s, a \o b)
<1>1. a \o b \in Seq(Quiet)
  OBVIOUS
<1>2. b \in Seq(Steps)
  BY QuietIs
<1>3. \A c : Occurs(c, a \o b) <=> Occurs(c, a) \/ Occurs(c, b)
  BY <1>2, PrefixKeeps
<1> QED BY <1>1, <1>3 DEF Foreign

(* One quiet instruction names at most one session. *)
LEMMA ForeignOne ==
  ASSUME NEW c \in Quiet
  PROVE  /\ <<c>> \in Seq(Quiet)
         /\ \A s : c \notin Names(s) => Foreign(s, <<c>>)
         /\ <<>> \in Seq(Quiet) /\ \A s : Foreign(s, <<>>)
<1>1. <<c>> \in Seq(Quiet) /\ <<>> \in Seq(Quiet)
  OBVIOUS
<1>2. DOMAIN <<c>> = {1} /\ <<c>>[1] = c
  OBVIOUS
<1>3. \A d : Occurs(d, <<c>>) => d = c
  BY <1>2 DEF Occurs
<1>4. \A d : ~Occurs(d, <<>>)
  BY DEF Occurs
<1> QED BY <1>1, <1>3, <1>4 DEF Foreign

LEMMA NamesOf ==
  ASSUME NEW s \in Sessions, NEW x \in Sessions, NEW z
  PROVE  /\ <<"use", "membersLock_", z>> \notin Names(x)
         /\ <<"call", "Broadcast", z>> \notin Names(x)
         /\ s # x => /\ Use(s) \notin Names(x)
                     /\ <<"call", "Announce", s>> \notin Names(x)
                     /\ <<"call", "AddSession", s>> \notin Names(x)
BY DEF Names, Use

-----------------------------------------------------------------------------
(* The routines                                                            *)
LEMMA StepsTyped == Steps \subseteq Instructions
<1> SUFFICES ASSUME NEW c \in Steps PROVE c \in Instructions
  OBVIOUS
<1>1. \A op \in {"hold", "free", "use"} : \A lock \in Held : Do(op, lock)[1] \in Instructions
  BY DEF Instructions
<1>2. \A s \in Sessions : LockOf(s) \in Held
  BY DEF Held
<1>3. MatchLock \in Held /\ Shared("membersLock_") \in Held
  BY DEF Held, MatchLock
<1>4. CASE c \in {Hold, FreeMatch, <<"use", "membersLock_", None>>}
  <2>1. /\ Do("hold", MatchLock)[1] = Hold /\ Do("free", MatchLock)[1] = FreeMatch
        /\ Do("use", Shared("membersLock_"))[1] = <<"use", "membersLock_", None>>
    BY DoIs DEF MatchLock, Hold, FreeMatch
  <2>2. Hold \in Instructions
    BY <1>1, <1>3, <2>1
  <2>3. FreeMatch \in Instructions
    BY <1>1, <1>3, <2>1
  <2>4. <<"use", "membersLock_", None>> \in Instructions
    BY <1>1, <1>3, <2>1
  <2> QED BY <1>4, <2>2, <2>3, <2>4
<1>5. CASE \E s \in Sessions : c \in {Use(s), Release(s)}
  <2>1. PICK s \in Sessions : c \in {Use(s), Release(s)}
    BY <1>5
  <2>2. Do("use", LockOf(s))[1] = Use(s) /\ Do("free", LockOf(s))[1] = Release(s)
    BY DoIs DEF Use, Release
  <2>3. Use(s) \in Instructions
    BY <1>1, <1>2, <2>2
  <2>4. Release(s) \in Instructions
    BY <1>1, <1>2, <2>2
  <2> QED BY <2>1, <2>3, <2>4
<1>6. CASE c \in {"call"} \X Routines \X (Sessions \cup {None})
  BY <1>6 DEF Instructions
<1>7. \/ c \in {Hold, FreeMatch, <<"use", "membersLock_", None>>}
      \/ \E s \in Sessions : c \in {Use(s), Release(s)}
      \/ c \in {"call"} \X Routines \X (Sessions \cup {None})
  BY DEF Steps, Quiet, Routines
<1> QED BY <1>4, <1>5, <1>6, <1>7

LEMMA ListedTyped ==
  ASSUME Listed' PROVE todo' \in [Threads -> Seq(Instructions)]
BY StepsTyped DEF Listed

(* What a thread that is at a call has before it. *)
LEMMA Called ==
  ASSUME IInv, NEW t \in Threads, NEW r \in Routines, AtCall(t, r)
  PROVE  /\ todo[t] # <<>> /\ todo[t][1] = <<"call", r, Arg(t)>>
         /\ todo[t] \in Seq(Steps) /\ Occurs(todo[t][1], todo[t])
         /\ todo[t][1] # FreeMatch /\ \A s : todo[t][1] # Release(s)
         /\ r \in {"Announce", "Enqueue", "Cancel", "AddSession", "Leave"} => Arg(t) \in Sessions
         /\ Arg(t) \in Sessions \cup {None}
<1>1. todo[t] # <<>> /\ todo[t] \in Seq(Steps) /\ todo[t][1][1] = "call" /\ todo[t][1][2] = r
  BY DEF AtCall, At, IInv, LInv, Listed
<1>2. todo[t][1] \in Steps /\ Occurs(todo[t][1], todo[t])
  BY <1>1, HeadGone
<1> DEFINE c == todo[t][1]
<1> HIDE DEF c
<1>3. c \in Steps /\ c[1] = "call" /\ c[2] = r
  BY <1>1, <1>2 DEF c
<1>4. \/ c \in {"call"} \X {"Broadcast"} \X (Sessions \cup {None})
      \/ c \in {"call"} \X {"Announce", "AddSession", "Enqueue", "Cancel", "Leave"} \X Sessions
      \/ c = <<"call", "TickTimeouts", None>>
  BY <1>3 DEF Steps, Quiet, Hold, FreeMatch, Release, Use
<1>5. c = <<"call", r, c[3]>> /\ c[3] \in Sessions \cup {None}
  BY <1>3, <1>4
<1>6. r \in {"Announce", "Enqueue", "Cancel", "AddSession", "Leave"} => c[3] \in Sessions
  BY <1>3, <1>4
<1>7. c # FreeMatch /\ \A s : c # Release(s)
  BY <1>3 DEF FreeMatch, Release
<1> QED BY <1>1, <1>2, <1>5, <1>6, <1>7 DEF c, Arg

(* Nobody calls a routine with a session that is a stranger, except Enqueue. *)
LEMMA NotStranger ==
  ASSUME IInv, NEW t \in Threads, NEW r \in {"Announce", "AddSession"}, AtCall(t, r),
         NEW s \in Sessions, Stranger(s)
  PROVE  s # Arg(t)
<1>1. todo[t][1] = <<"call", r, Arg(t)>> /\ Occurs(todo[t][1], todo[t])
  BY Called DEF Routines
<1> QED BY <1>1 DEF Stranger, Names

LEMMA FiniteSessions ==
  ASSUME NEW S \in SUBSET Sessions, NEW order \in SetToSeqs(S)
  PROVE  order \in Seq(S)
<1>1. IsFiniteSet(S)
  BY FS_Subset, LockAssumption
<1>2. Cardinality(S) \in Nat
  BY <1>1, FS_CardinalityType
<1> QED BY <1>2 DEF SetToSeqs

LEMMA StrangerIn ==
  ASSUME NEW S, NEW q \in Seq(S), NEW s, s \notin S
  PROVE  ~Occurs(s, q)
BY DEF Occurs

LEMMA BroadcastStep ==
  ASSUME IInv, NEW t \in Threads, Broadcast(t) PROVE IInv'
<1>1. /\ AtCall(t, "Broadcast") /\ todo[t] # <<>>
      /\ todo[t][1] # FreeMatch /\ \A s : todo[t][1] # Release(s)
  BY Called DEF Broadcast, Routines
<1>2. PICK order \in SetToSeqs(members \ {Arg(t)}) : Continue(t, SendAll(order))
  BY DEF Broadcast
<1>3. members \subseteq Sessions /\ members \subseteq roomed
  BY DEF IInv, LInv, TypeOK
<1>4. order \in Seq(members \ {Arg(t)})
  BY <1>2, <1>3, FiniteSessions
<1>5. SendAll(order) \in Seq(Quiet) /\ \A s : ~Occurs(s, order) => Foreign(s, SendAll(order))
  BY <1>3, <1>4, SendAllIs
<1>6. UNCHANGED <<owner, queue, roomed, members, logins, gone>>
  BY DEF Broadcast, State
<1>7. ASSUME NEW s \in Sessions, Stranger(s)
      PROVE  ~Occurs(s, queue') /\ s \notin roomed' \cup members' /\ Foreign(s, SendAll(order))
  <2>1. s \notin members \ {Arg(t)}
    BY <1>7 DEF Stranger
  <2>2. ~Occurs(s, order)
    BY <1>4, <2>1, StrangerIn
  <2> QED BY <1>5, <1>6, <1>7, <2>2 DEF Stranger, Occurs
<1>8. Listed' /\ Match' /\ SessionLocks' /\ Strangers'
  BY <1>1, <1>2, <1>5, <1>6, <1>7, StepKeeps
<1>9. TypeOK'
  BY <1>6, <1>8, ListedTyped DEF TypeOK, IInv, LInv
<1> QED BY <1>8, <1>9 DEF IInv, LInv

LEMMA AnnounceStep ==
  ASSUME IInv, NEW t \in Threads, Announce(t) PROVE IInv'
<1> DEFINE s == Arg(t)
           first == << <<"use", "membersLock_", None>> >>
           second == << Use(s) >>
           third == << <<"call", "Broadcast", s>> >>
           steps == first \o second \o third
<1>1. /\ AtCall(t, "Announce") /\ todo[t] # <<>> /\ s \in Sessions
      /\ todo[t][1] # FreeMatch /\ \A x : todo[t][1] # Release(x)
  BY Called DEF Announce, Routines
<1>2. Continue(t, steps)
  BY DoIs DEF Announce, SnapshotOthers, SendTo, Call, Use
<1>3. ASSUME NEW x \in Sessions, x # s
      PROVE  Foreign(x, first) /\ Foreign(x, second) /\ Foreign(x, third)
  <2>1. <<"use", "membersLock_", None>> \notin Names(x) /\ Use(s) \notin Names(x) /\ <<"call", "Broadcast", s>> \notin Names(x)
    BY <1>1, <1>3, NamesOf
  <2> QED BY <1>1, <2>1, QuietMember, ForeignOne
<1>4. first \in Seq(Quiet) /\ second \in Seq(Quiet) /\ third \in Seq(Quiet)
  BY <1>1, QuietMember, ForeignOne
<1> HIDE DEF first, second, third, s
<1>5. first \o second \in Seq(Quiet) /\ \A x : Foreign(x, first) /\ Foreign(x, second) => Foreign(x, first \o second)
  BY <1>4, ForeignParts
<1>6. steps \in Seq(Quiet) /\ \A x : Foreign(x, first \o second) /\ Foreign(x, third) => Foreign(x, steps)
  BY <1>4, <1>5, ForeignParts
<1>7. UNCHANGED <<owner, queue, roomed, members, logins, gone>>
  BY DEF Announce, State
<1>8. ASSUME NEW x \in Sessions, Stranger(x)
      PROVE  ~Occurs(x, queue') /\ x \notin roomed' \cup members' /\ Foreign(x, steps)
  <2>1. x # s
    BY <1>1, <1>8, NotStranger DEF s
  <2> QED BY <1>3, <1>5, <1>6, <1>7, <1>8, <2>1 DEF Stranger, Occurs
<1> HIDE DEF steps
<1>9. Listed' /\ Match' /\ SessionLocks' /\ Strangers'
  BY <1>1, <1>2, <1>6, <1>7, <1>8, StepKeeps
<1>10. TypeOK'
  BY <1>7, <1>9, ListedTyped DEF TypeOK, IInv, LInv
<1> QED BY <1>9, <1>10 DEF IInv, LInv

LEMMA AddSessionStep ==
  ASSUME IInv, NEW t \in Threads, AddSession(t) PROVE IInv'
<1> DEFINE s == Arg(t)
           c == <<"call", "Announce", s>>
<1>1. /\ AtCall(t, "AddSession") /\ todo[t] # <<>> /\ s \in Sessions
      /\ todo[t][1] # FreeMatch /\ \A x : todo[t][1] # Release(x)
  BY Called DEF AddSession, Routines
<1>2. Continue(t, <<c>>)
  BY DEF AddSession, Call
<1>3. <<c>> \in Seq(Quiet) /\ \A x : c \notin Names(x) => Foreign(x, <<c>>)
  BY <1>1, QuietMember, ForeignOne
<1>4. /\ UNCHANGED <<owner, queue, logins, gone>>
      /\ roomed' = roomed \cup {s} /\ members' = members \cup {s}
  BY DEF AddSession
<1>5. ASSUME NEW x \in Sessions, Stranger(x)
      PROVE  ~Occurs(x, queue') /\ x \notin roomed' \cup members' /\ Foreign(x, <<c>>)
  <2>1. x # s
    BY <1>1, <1>5, NotStranger
  <2>2. c \notin Names(x)
    BY <1>1, <2>1, NamesOf
  <2> QED BY <1>3, <1>4, <1>5, <2>1, <2>2 DEF Stranger, Occurs
<1> HIDE DEF c, s
<1>6. Listed' /\ Match' /\ SessionLocks' /\ Strangers'
  BY <1>1, <1>2, <1>3, <1>4, <1>5, StepKeeps
<1>7. TypeOK'
  BY <1>1, <1>4, <1>6, ListedTyped DEF TypeOK, IInv, LInv
<1> QED BY <1>6, <1>7 DEF IInv, LInv

LEMMA LeaveStep ==
  ASSUME IInv, NEW t \in Threads, Leave(t) PROVE IInv'
<1> DEFINE s == Arg(t)
           first == << <<"use", "membersLock_", None>> >>
           second == << <<"call", "Broadcast", s>> >>
           steps == IF s \in roomed THEN first \o second ELSE <<>>
<1>1. /\ AtCall(t, "Leave") /\ todo[t] # <<>> /\ s \in Sessions
      /\ todo[t][1] # FreeMatch /\ \A x : todo[t][1] # Release(x)
  BY Called DEF Leave, Routines
<1>2. Continue(t, steps)
  BY DoIs DEF Leave, Reset, SnapshotOthers, Call
<1>3. ASSUME NEW x \in Sessions PROVE Foreign(x, first) /\ Foreign(x, second) /\ Foreign(x, <<>>)
  BY <1>1, NamesOf, QuietMember, ForeignOne
<1>4. first \in Seq(Quiet) /\ second \in Seq(Quiet) /\ <<>> \in Seq(Quiet)
  BY <1>1, QuietMember, ForeignOne
<1> HIDE DEF first, second, s
<1>5. first \o second \in Seq(Quiet) /\ \A x : Foreign(x, first) /\ Foreign(x, second) => Foreign(x, first \o second)
  BY <1>4, ForeignParts
<1>6. steps \in Seq(Quiet) /\ \A x \in Sessions : Foreign(x, steps)
  BY <1>3, <1>4, <1>5
<1>7. UNCHANGED <<owner, queue, roomed, logins, gone>> /\ members' = members \ {s}
  BY DEF Leave, RemoveSession, s
<1>8. ASSUME NEW x \in Sessions, Stranger(x)
      PROVE  ~Occurs(x, queue') /\ x \notin roomed' \cup members' /\ Foreign(x, steps)
  BY <1>6, <1>7, <1>8 DEF Stranger, Occurs
<1> HIDE DEF steps
<1>9. Listed' /\ Match' /\ SessionLocks' /\ Strangers'
  BY <1>1, <1>2, <1>6, <1>7, <1>8, StepKeeps
<1>10. TypeOK'
  BY <1>7, <1>9, ListedTyped DEF TypeOK, IInv, LInv
<1> QED BY <1>9, <1>10 DEF IInv, LInv

(* A squad is formed, and the others are told: only who queued is named. *)
LEMMA SquadSteps ==
  ASSUME NEW q \in Seq(Sessions)
  PROVE  /\ SendAll(q) \o Each("AddSession", q) \in Seq(Quiet)
         /\ SendAll(q) \in Seq(Quiet)
         /\ \A s : ~Occurs(s, q) =>
              Foreign(s, SendAll(q)) /\ Foreign(s, SendAll(q) \o Each("AddSession", q))
<1>1. SendAll(q) \in Seq(Quiet) /\ \A s : ~Occurs(s, q) => Foreign(s, SendAll(q))
  BY SendAllIs
<1>2. Each("AddSession", q) \in Seq(Quiet) /\ \A s : ~Occurs(s, q) => Foreign(s, Each("AddSession", q))
  BY EachIs
<1> QED BY <1>1, <1>2, ForeignParts

LEMMA EnqueueStep ==
  ASSUME IInv, NEW t \in Threads, Enqueue(t) PROVE IInv'
<1> DEFINE s == Arg(t)
           q == Append(queue, s)
           forms == Len(q) >= MaxSquad
           steps == IF forms THEN SendAll(q) \o Each("AddSession", q) ELSE SendAll(q)
<1>1. /\ AtCall(t, "Enqueue") /\ todo[t] # <<>> /\ s \in Sessions
      /\ todo[t][1] # FreeMatch /\ \A x : todo[t][1] # Release(x)
      /\ todo[t][1] = Enqueues(s)
  BY Called DEF Enqueue, Routines, Enqueues
<1>2. queue \in Seq(Sessions)
  BY DEF IInv, LInv, TypeOK
<1>3. q \in Seq(Sessions)
  BY <1>1, <1>2
<1>4. \A x : x # s /\ ~Occurs(x, queue) => ~Occurs(x, q)
  BY <1>2, AppendProperties DEF Occurs
<1>5. Continue(t, steps) /\ queue' = (IF forms THEN <<>> ELSE q)
  BY DEF Enqueue, FormSquad, BroadcastStatus
<1> HIDE DEF q, forms, s
<1>6. steps \in Seq(Quiet) /\ \A x : ~Occurs(x, q) => Foreign(x, steps)
  BY <1>3, SquadSteps
<1>7. UNCHANGED <<owner, roomed, members, logins, gone>>
  BY DEF Enqueue
<1>8. ASSUME NEW x \in Sessions, Stranger(x), todo[t][1] # Enqueues(x)
      PROVE  ~Occurs(x, queue') /\ x \notin roomed' \cup members' /\ Foreign(x, steps)
  <2>1. ~Occurs(x, q)
    BY <1>1, <1>4, <1>8 DEF Stranger
  <2>2. ~Occurs(x, queue')
    BY <1>5, <2>1 DEF Occurs
  <2> QED BY <1>6, <1>7, <1>8, <2>1, <2>2 DEF Stranger
<1>9. queue' \in Seq(Sessions)
  BY <1>3, <1>5
<1> HIDE DEF steps
<1>10. Listed' /\ Match' /\ SessionLocks' /\ Strangers'
  BY <1>1, <1>5, <1>6, <1>7, <1>8, StepKeeps
<1>11. TypeOK'
  BY <1>7, <1>9, <1>10, ListedTyped DEF TypeOK, IInv, LInv
<1> QED BY <1>10, <1>11 DEF IInv, LInv

LEMMA RemoveAtIs ==
  ASSUME NEW S, NEW q \in Seq(S), NEW i \in DOMAIN q
  PROVE  RemoveAt(q, i) \in Seq(S) /\ \A x : Occurs(x, RemoveAt(q, i)) => Occurs(x, q)
<1> DEFINE T == { q[j] : j \in DOMAIN q }
<1>1. q \in Seq(T)
  OBVIOUS
<1>2. RemoveAt(q, i) \in Seq(T) /\ RemoveAt(q, i) \in Seq(S)
  BY <1>1 DEF RemoveAt
<1>3. \A x : Occurs(x, RemoveAt(q, i)) => x \in T
  BY <1>2 DEF Occurs
<1> QED BY <1>2, <1>3 DEF Occurs

LEMMA FirstOf ==
  ASSUME NEW found, found \subseteq Nat, found # {}
  PROVE  (CHOOSE i \in found : \A j \in found : i <= j) \in found
<1>1. \E R : IsWellFoundedOn(R, Nat) /\ \A i, j \in Nat : i < j => <<i, j>> \in R
  <2> DEFINE R == OpToRel(<, Nat)
  <2>1. IsWellFoundedOn(R, Nat)
    BY NatLessThanWellFounded
  <2>2. ASSUME NEW i \in Nat, NEW j \in Nat, i < j PROVE <<i, j>> \in R
    <3>1. <<i, j>> \in Nat \X Nat /\ <<i, j>>[1] < <<i, j>>[2]
      BY <2>2
    <3> QED BY <3>1, Zenon DEF OpToRel
  <2> HIDE DEF R
  <2> QED BY <2>1, <2>2, Zenon
<1>2. PICK R : IsWellFoundedOn(R, Nat) /\ \A i, j \in Nat : i < j => <<i, j>> \in R
  BY <1>1, Zenon
<1>3. IsWellFoundedOn(R, Nat) /\ found \subseteq Nat /\ found # {}
  BY <1>2, Zenon
<1>4. \E n \in found : \A m \in found : ~(<<m, n>> \in R)
  BY ONLY <1>3, WFMin, ZenonT(30)
<1>6. PICK n \in found : \A m \in found : ~(<<m, n>> \in R)
  BY <1>4, Zenon
<1>5. ASSUME NEW m \in found PROVE n <= m
  <2>1. ~(m < n)
    BY <1>2, <1>6, Zenon
  <2> QED BY <2>1
<1> QED BY <1>5

LEMMA CancelStep ==
  ASSUME IInv, NEW t \in Threads, Cancel(t) PROVE IInv'
<1> DEFINE s == Arg(t)
           found == { i \in DOMAIN queue : queue[i] = s }
           first == CHOOSE i \in found : \A j \in found : i <= j
           steps == IF found = {} THEN <<>> ELSE SendAll(queue')
<1>1. /\ AtCall(t, "Cancel") /\ todo[t] # <<>> /\ s \in Sessions
      /\ todo[t][1] # FreeMatch /\ \A x : todo[t][1] # Release(x)
  BY Called DEF Cancel, Routines
<1>2. queue \in Seq(Sessions)
  BY DEF IInv, LInv, TypeOK
<1>3. /\ Continue(t, steps)
      /\ queue' = (IF found = {} THEN queue ELSE RemoveAt(queue, first))
  BY DEF Cancel, BroadcastStatus
<1>4. found # {} => first \in DOMAIN queue
  <2>1. found \subseteq Nat
    BY <1>2
  <2> HIDE DEF found
  <2>2. found # {} => first \in found
    BY <2>1, FirstOf
  <2> QED BY <2>2 DEF found
<1> HIDE DEF first, found, s
<1>5. queue' \in Seq(Sessions) /\ \A x : Occurs(x, queue') => Occurs(x, queue)
  BY <1>2, <1>3, <1>4, RemoveAtIs
<1>6. steps \in Seq(Quiet) /\ \A x : ~Occurs(x, queue') => Foreign(x, steps)
  <2>1. CASE found = {}
    BY <2>1 DEF Foreign, Occurs
  <2>2. CASE found # {}
    BY <1>5, <2>2, SquadSteps
  <2> QED BY <2>1, <2>2
<1>7. UNCHANGED <<owner, roomed, members, logins, gone>>
  BY DEF Cancel
<1>8. ASSUME NEW x \in Sessions, Stranger(x)
      PROVE  ~Occurs(x, queue') /\ x \notin roomed' \cup members' /\ Foreign(x, steps)
  BY <1>5, <1>6, <1>7, <1>8 DEF Stranger
<1> HIDE DEF steps
<1>9. Listed' /\ Match' /\ SessionLocks' /\ Strangers'
  BY <1>1, <1>3, <1>6, <1>7, <1>8, StepKeeps
<1>10. TypeOK'
  BY <1>5, <1>7, <1>9, ListedTyped DEF TypeOK, IInv, LInv
<1> QED BY <1>9, <1>10 DEF IInv, LInv

LEMMA TickTimeoutsStep ==
  ASSUME IInv, NEW t \in Threads, TickTimeouts(t) PROVE IInv'
<1>1. /\ AtCall(t, "TickTimeouts") /\ todo[t] # <<>>
      /\ todo[t][1] # FreeMatch /\ \A x : todo[t][1] # Release(x)
  BY Called DEF TickTimeouts, Routines
<1>2. queue \in Seq(Sessions)
  BY DEF IInv, LInv, TypeOK
<1>3. UNCHANGED <<owner, roomed, members, logins, gone>>
  BY DEF TickTimeouts
<1>4. PICK steps : /\ Continue(t, steps) /\ steps \in Seq(Quiet)
                   /\ queue' \in {queue, <<>>}
                   /\ \A x : ~Occurs(x, queue) => Foreign(x, steps)
  <2>1. CASE FormSquad(t, queue)
    <3>1. /\ Continue(t, SendAll(queue) \o Each("AddSession", queue))
          /\ queue' = <<>>
      BY <2>1 DEF FormSquad
    <3> QED BY <1>2, <3>1, SquadSteps
  <2>2. CASE Continue(t, <<>>) /\ UNCHANGED queue
    <3>1. <<>> \in Seq(Quiet) /\ \A x : Foreign(x, <<>>)
      BY DEF Foreign, Occurs
    <3> QED BY <2>2, <3>1
  <2> QED BY <2>1, <2>2 DEF TickTimeouts
<1>5. ASSUME NEW x \in Sessions, Stranger(x)
      PROVE  ~Occurs(x, queue') /\ x \notin roomed' \cup members' /\ Foreign(x, steps)
  <2>1. ~Occurs(x, queue) /\ ~Occurs(x, <<>>)
    BY <1>5 DEF Stranger, Occurs
  <2> QED BY <1>3, <1>4, <1>5, <2>1 DEF Stranger
<1>6. Listed' /\ Match' /\ SessionLocks' /\ Strangers'
  BY <1>1, <1>3, <1>4, <1>5, StepKeeps
<1>7. queue' \in Seq(Sessions)
  <2>1. <<>> \in Seq(Sessions)
    OBVIOUS
  <2> QED BY <1>2, <1>4, <2>1
<1>8. TypeOK'
  BY <1>3, <1>6, <1>7, ListedTyped DEF TypeOK, IInv, LInv
<1> QED BY <1>6, <1>8 DEF IInv, LInv

-----------------------------------------------------------------------------
(* Mutexes: used, taken and freed by an instruction                        *)
LEMMA AtHead ==
  ASSUME IInv, NEW t \in Threads, todo[t] # <<>>
  PROVE  /\ todo[t] \in Seq(Steps) /\ todo[t][1] \in Steps /\ Occurs(todo[t][1], todo[t])
         /\ At(t, "hold") => todo[t][1] = Hold /\ LockAt(t) = MatchLock
         /\ At(t, "use") => todo[t][1] # FreeMatch /\ \A s : todo[t][1] # Release(s)
         /\ At(t, "free") => \/ todo[t][1] = FreeMatch /\ LockAt(t) = MatchLock
                             \/ \E s \in Sessions : todo[t][1] = Release(s) /\ LockAt(t) = LockOf(s)
<1>1. todo[t] \in Seq(Steps)
  BY DEF IInv, LInv, Listed
<1>2. todo[t][1] \in Steps /\ Occurs(todo[t][1], todo[t])
  BY <1>1, HeadGone
<1> DEFINE c == todo[t][1]
           l == <<c[2], c[3]>>
<1> HIDE DEF c
<1>3. c \in Steps
  BY <1>2 DEF c
<1>4. c[1] = "hold" => c = Hold
  BY <1>3 DEF Steps, Quiet, Hold, FreeMatch, Release, Use
<1>5. c[1] = "free" => c = FreeMatch \/ \E s \in Sessions : c = Release(s)
  BY <1>3 DEF Steps, Quiet, Hold, FreeMatch, Release, Use
<1>6. c = Hold \/ c = FreeMatch => l = MatchLock
  BY DEF Hold, FreeMatch, MatchLock, Shared
<1>7. \A s : c = Release(s) => l = LockOf(s)
  BY DEF Release, LockOf
<1>8. c[1] = "use" => c # FreeMatch /\ \A s : c # Release(s)
  BY DEF FreeMatch, Release
<1> QED BY <1>1, <1>2, <1>4, <1>5, <1>6, <1>7, <1>8 DEF At, LockAt, c

LEMMA PassStep ==
  ASSUME IInv, NEW t \in Threads, Pass(t) PROVE IInv'
<1>1. At(t, "use") /\ todo[t] # <<>>
  BY DEF Pass, At
<1>2. todo[t][1] # FreeMatch /\ \A s : todo[t][1] # Release(s)
  BY <1>1, AtHead
<1>3. Continue(t, <<>>) /\ UNCHANGED <<owner, queue, roomed, members, logins, gone>>
  BY DEF Pass, State
<1>4. <<>> \in Seq(Quiet) /\ \A x : Foreign(x, <<>>)
  BY DEF Foreign, Occurs
<1>5. \A x \in Sessions : Stranger(x) =>
        ~Occurs(x, queue') /\ x \notin roomed' \cup members' /\ Foreign(x, <<>>)
  BY <1>3, <1>4 DEF Stranger, Occurs
<1>6. Listed' /\ Match' /\ SessionLocks' /\ Strangers'
  BY <1>1, <1>2, <1>3, <1>4, <1>5, StepKeeps
<1>7. TypeOK'
  BY <1>3, <1>6, ListedTyped DEF TypeOK, IInv, LInv
<1> QED BY <1>6, <1>7 DEF IInv, LInv

(* The locks are different from one another. *)
LEMMA LocksDiffer ==
  /\ \A s : LockOf(s) # MatchLock /\ LockOf(s) # Shared("membersLock_")
  /\ MatchLock # Shared("membersLock_")
  /\ \A s, x : LockOf(s) = LockOf(x) => s = x
  /\ \A s \in Sessions : LockOf(s) \in Held
  /\ MatchLock \in Held
BY DEF LockOf, MatchLock, Shared, Held

(* Whatever a step puts nothing new in, strangers stay strangers. *)
LEMMA StrangersKept ==
  ASSUME IInv, NEW t \in Threads, todo[t] # <<>>, Continue(t, <<>>),
         UNCHANGED <<queue, roomed, members, logins, gone>>
  PROVE  Strangers'
<1> USE DEF IInv, LInv
<1>1. <<>> \in Seq(Quiet)
  OBVIOUS
<1>2. /\ \A u \in Threads \ {t} : todo'[u] = todo[u]
      /\ EnqueueOnce(todo[t]) => EnqueueOnce(todo'[t])
      /\ \A c : Occurs(c, todo'[t]) => Occurs(c, <<>>) \/ Occurs(c, Tail(todo[t]))
      /\ \A c : Occurs(c, Tail(todo[t])) => Occurs(c, todo[t])
  BY <1>1, Replaced
<1>3. ASSUME NEW u \in Threads, NEW c, Occurs(c, todo'[u]) PROVE Occurs(c, todo[u])
  <2>1. ~Occurs(c, <<>>)
    BY DEF Occurs
  <2>2. CASE u = t
    BY <1>2, <1>3, <2>1, <2>2
  <2>3. CASE u # t
    BY <1>2, <1>3, <2>3
  <2> QED BY <2>2, <2>3
<1>4. EnqueueOnce(todo'["recv"])
  BY <1>2 DEF Strangers, Threads
<1>5. ASSUME NEW s \in Sessions, NEW u \in Threads, Occurs(Enqueues(s), todo[u])'
      PROVE  u = "recv" /\ logins[s] # 0
  <2>1. Occurs(Enqueues(s), todo'[u])
    BY <1>5 DEF Occurs, Enqueues
  <2> QED BY <1>3, <2>1 DEF Strangers
<1>6. ASSUME NEW s \in Sessions, MaxLogins <= 1, logins[s] = 0 \/ Occurs(Enqueues(s), todo["recv"])'
      PROVE  Stranger(s)'
  <2>1. Occurs(Enqueues(s), todo["recv"])' => Occurs(Enqueues(s), todo'["recv"])
    BY DEF Occurs, Enqueues
  <2>2. Stranger(s)
    BY <1>3, <1>6, <2>1 DEF Strangers, Threads
  <2>3. \A u \in Threads : \A c \in Names(s) : ~Occurs(c, todo'[u])
    BY <1>3, <2>2 DEF Stranger
  <2> QED BY <2>2, <2>3 DEF Stranger, Occurs, Names, Use
<1>7. EnqueueOnce(todo["recv"])'
  BY <1>4 DEF EnqueueOnce, Enqueues
<1>8. UNCHANGED logins
  OBVIOUS
<1> QED BY <1>5, <1>6, <1>7, <1>8 DEF Strangers

LEMMA TakeStep ==
  ASSUME IInv, NEW t \in Threads, Take(t) PROVE IInv'
<1> USE DEF IInv, LInv
<1>1. todo[t] # <<>> /\ todo[t][1] = Hold /\ LockAt(t) = MatchLock /\ todo[t] \in Seq(Steps)
  BY AtHead DEF Take, At
<1>2. /\ Continue(t, <<>>) /\ owner' = [owner EXCEPT ![MatchLock] = t]
      /\ UNCHANGED <<queue, roomed, members, logins, gone>>
  BY <1>1 DEF Take, State
<1>3. <<>> \in Seq(Quiet)
  OBVIOUS
<1>4. /\ Listed' /\ \A u \in Threads \ {t} : todo'[u] = todo[u]
      /\ OneSection(todo[t]) => OneSection(todo'[t])
      /\ \A s \in Sessions : Releases(todo[t], s) /\ todo[t][1] # Release(s) => Releases(todo'[t], s)
      /\ \A c : Occurs(c, todo'[t]) => Occurs(c, <<>>) \/ Occurs(c, Tail(todo[t]))
      /\ \A c : Occurs(c, todo[t]) /\ todo[t][1] # c => Occurs(c, todo'[t])
  BY <1>1, <1>2, <1>3, Replaced
<1>5. ~Occurs(Hold, todo'[t]) /\ Occurs(FreeMatch, todo'[t])
  <2>1. ~Occurs(Hold, Tail(todo[t]))
    BY <1>1, HeadGone DEF Match
  <2>2. Occurs(FreeMatch, todo[t])
    <3>1. 1 \in DOMAIN todo[t]
      BY <1>1
    <3> QED BY <1>1, <3>1 DEF Match, OneSection, Occurs
  <2>3. Hold # FreeMatch /\ ~Occurs(Hold, <<>>)
    BY DEF Hold, FreeMatch, Occurs
  <2> QED BY <1>1, <1>4, <2>1, <2>2, <2>3
<1>6. /\ owner'[MatchLock] = t
      /\ \A l \in Held \ {MatchLock} : owner'[l] = owner[l]
      /\ owner' \in [Held -> Threads \cup {None}]
  BY <1>2, LocksDiffer DEF TypeOK
<1>7. Match'
  <2>1. \A u \in Threads : OneSection(todo'[u])
    BY <1>4 DEF Match
  <2>2. \A u \in Threads : owner'[MatchLock] = u => ~Occurs(Hold, todo'[u]) /\ Occurs(FreeMatch, todo'[u])
    BY <1>5, <1>6
  <2>3. owner'[Shared("membersLock_")] = None
    BY <1>6, LocksDiffer DEF Match, Held
  <2> QED BY <2>1, <2>2, <2>3 DEF Match, MatchLock, Shared, OneSection, Occurs, Hold, FreeMatch
<1>8. SessionLocks'
  <2> SUFFICES ASSUME NEW s \in Sessions
               PROVE  /\ owner'[LockOf(s)] # "tick"
                      /\ owner'[LockOf(s)] = "send" => todo'["send"] # <<>> /\ todo'["send"][1] = Release(s)
                      /\ owner'[LockOf(s)] = "recv" => Releases(todo'["recv"], s)
    BY DEF SessionLocks, LockOf
  <2>1. owner'[LockOf(s)] = owner[LockOf(s)]
    BY <1>6, LocksDiffer
  <2>2. Hold # Release(s)
    BY DEF Hold, Release
  <2> QED BY <1>1, <1>4, <2>1, <2>2 DEF SessionLocks, Threads
<1>9. Strangers'
  BY <1>1, <1>2, StrangersKept
<1>10. TypeOK'
  BY <1>2, <1>4, <1>6, ListedTyped DEF TypeOK
<1> QED BY <1>4, <1>7, <1>8, <1>9, <1>10

LEMMA FreeStep ==
  ASSUME IInv, NEW t \in Threads, Free(t) PROVE IInv'
<1> USE DEF IInv, LInv
<1> DEFINE l == LockAt(t)
<1>1. /\ todo[t] # <<>> /\ todo[t] \in Seq(Steps)
      /\ \/ todo[t][1] = FreeMatch /\ l = MatchLock
         \/ \E s \in Sessions : todo[t][1] = Release(s) /\ l = LockOf(s)
  BY AtHead DEF Free, At
<1>2. /\ Continue(t, <<>>) /\ owner' = [owner EXCEPT ![l] = None]
      /\ UNCHANGED <<queue, roomed, members, logins, gone>>
  BY DEF Free, State
<1> HIDE DEF l
<1>3. <<>> \in Seq(Quiet)
  OBVIOUS
<1>4. /\ Listed' /\ \A u \in Threads \ {t} : todo'[u] = todo[u]
      /\ OneSection(todo[t]) => OneSection(todo'[t])
      /\ \A s \in Sessions : Releases(todo[t], s) /\ todo[t][1] # Release(s) => Releases(todo'[t], s)
      /\ \A c : Occurs(c, todo'[t]) => Occurs(c, <<>>) \/ Occurs(c, Tail(todo[t]))
      /\ \A c : Occurs(c, Tail(todo[t])) => Occurs(c, todo[t])
      /\ \A c : Occurs(c, todo[t]) /\ todo[t][1] # c => Occurs(c, todo'[t])
  BY <1>1, <1>2, <1>3, Replaced
<1>5. l \in Held
  BY <1>1, LocksDiffer
<1>6. /\ owner'[l] = None /\ \A k \in Held \ {l} : owner'[k] = owner[k]
      /\ owner' \in [Held -> Threads \cup {None}]
      /\ None \notin Threads
  BY <1>2, <1>5, LockAssumption DEF TypeOK
<1>7. Match'
  <2>1. \A u \in Threads : OneSection(todo'[u])
    BY <1>4 DEF Match
  <2>2. ASSUME NEW u \in Threads, owner'[MatchLock] = u
        PROVE  ~Occurs(Hold, todo'[u]) /\ Occurs(FreeMatch, todo'[u])
    <3>1. l # MatchLock /\ owner[MatchLock] = u
      BY <1>6, <2>2, LocksDiffer
    <3>2. u = t => todo[t][1] # FreeMatch
      BY <1>1, <3>1 DEF FreeMatch, Release
    <3>3. ~Occurs(Hold, todo[u]) /\ Occurs(FreeMatch, todo[u])
      BY <3>1 DEF Match
    <3>4. ~Occurs(Hold, <<>>)
      BY DEF Occurs
    <3> QED BY <1>4, <3>2, <3>3, <3>4
  <2>3. owner'[Shared("membersLock_")] = None
    BY <1>6 DEF Match, Held
  <2> QED BY <2>1, <2>2, <2>3 DEF Match, MatchLock, Shared, OneSection, Occurs, Hold, FreeMatch
<1>8. SessionLocks'
  <2> SUFFICES ASSUME NEW s \in Sessions
               PROVE  /\ owner'[LockOf(s)] # "tick"
                      /\ owner'[LockOf(s)] = "send" => todo'["send"] # <<>> /\ todo'["send"][1] = Release(s)
                      /\ owner'[LockOf(s)] = "recv" => Releases(todo'["recv"], s)
    BY DEF SessionLocks, LockOf
  <2>1. CASE l = LockOf(s)
    BY <1>6, <2>1, LockAssumption DEF Threads
  <2>2. CASE l # LockOf(s)
    <3>1. owner'[LockOf(s)] = owner[LockOf(s)]
      BY <1>6, <2>2, LocksDiffer
    <3>2. todo[t][1] # Release(s)
      <4>1. ASSUME todo[t][1] = Release(s) PROVE FALSE
        <5>1. \A x : Release(x) = Release(s) => x = s
          BY DEF Release
        <5>2. Release(s) # FreeMatch
          BY DEF Release, FreeMatch
        <5> QED BY <1>1, <2>2, <4>1, <5>1, <5>2
      <4> QED BY <4>1
    <3> QED BY <1>4, <3>1, <3>2 DEF SessionLocks, Threads
  <2> QED BY <2>1, <2>2
<1>9. Strangers'
  BY <1>1, <1>2, StrangersKept
<1>10. TypeOK'
  BY <1>2, <1>4, <1>6, ListedTyped DEF TypeOK
<1> QED BY <1>4, <1>7, <1>8, <1>9, <1>10

-----------------------------------------------------------------------------
(* What the threads begin                                                  *)
LEMMA IdleOwnsNothing ==
  ASSUME IInv, NEW t \in Threads, Idle(t)
  PROVE  /\ owner[MatchLock] # t
         /\ \A s \in Sessions : owner[LockOf(s)] # t
<1>1. \A c : ~Occurs(c, <<>>) /\ \A s : ~Releases(<<>>, s)
  BY DEF Occurs, Releases
<1> QED BY <1>1 DEF Idle, IInv, Match, SessionLocks, Threads

LEMMA BeginKeeps ==
  ASSUME IInv, NEW t \in Threads, Idle(t),
         NEW p \in Seq(Steps), OneSection(p), EnqueueOnce(p), todo' = [todo EXCEPT ![t] = p],
         UNCHANGED <<queue, roomed, members>>,
         \/ UNCHANGED owner
         \/ /\ owner' = [owner EXCEPT ![MatchLock] = t]
            /\ ~Occurs(Hold, p) /\ Occurs(FreeMatch, p)
         \/ \E s \in Sessions :
              /\ owner' = [owner EXCEPT ![LockOf(s)] = t]
              /\ \/ t = "send" /\ p # <<>> /\ p[1] = Release(s)
                 \/ t = "recv" /\ Releases(p, s),
         \A x \in Sessions : logins'[x] = 0 => logins[x] = 0,
         \A x \in Sessions : Occurs(Enqueues(x), p) =>
           t = "recv" /\ logins'[x] # 0 /\ (MaxLogins <= 1 => logins[x] = 0),
         \A x \in Sessions : Stranger(x) => Foreign(x, p)
  PROVE  Listed' /\ Match' /\ SessionLocks' /\ Strangers' /\ owner' \in [Held -> Threads \cup {None}]
<1> USE DEF IInv, LInv
<1>1. todo'[t] = p /\ \A u \in Threads \ {t} : todo'[u] = todo[u]
  BY DEF Listed
<1>2. Listed'
  BY DEF Listed
<1>3. owner[MatchLock] # t /\ \A s \in Sessions : owner[LockOf(s)] # t
  BY IdleOwnsNothing
<1>4. owner' \in [Held -> Threads \cup {None}]
  BY DEF TypeOK
<1>5. Match'
  <2>1. \A u \in Threads : OneSection(todo'[u])
    BY <1>1 DEF Match
  <2>2. owner'[MatchLock] = t => ~Occurs(Hold, p) /\ Occurs(FreeMatch, p)
    BY <1>3, LocksDiffer DEF TypeOK
  <2>3. \A u \in Threads \ {t} : owner'[MatchLock] = u => owner[MatchLock] = u
    BY <1>3, LocksDiffer DEF TypeOK
  <2>4. \A u \in Threads : owner'[MatchLock] = u => ~Occurs(Hold, todo'[u]) /\ Occurs(FreeMatch, todo'[u])
    BY <1>1, <2>2, <2>3 DEF Match
  <2>5. owner'[Shared("membersLock_")] = None
    <3>1. Shared("membersLock_") \in Held
      BY DEF Held
    <3> QED BY <3>1, LocksDiffer DEF Match, TypeOK
  <2> QED BY <2>1, <2>4, <2>5 DEF Match, MatchLock, Shared, OneSection, Occurs, Hold, FreeMatch
<1>6. SessionLocks'
  <2> SUFFICES ASSUME NEW s \in Sessions
               PROVE  /\ owner'[LockOf(s)] # "tick"
                      /\ owner'[LockOf(s)] = "send" => todo'["send"] # <<>> /\ todo'["send"][1] = Release(s)
                      /\ owner'[LockOf(s)] = "recv" => Releases(todo'["recv"], s)
    BY DEF SessionLocks, LockOf
  <2>1. CASE owner'[LockOf(s)] = owner[LockOf(s)]
    BY <1>1, <1>3, <2>1 DEF SessionLocks, Threads
  <2>2. CASE owner'[LockOf(s)] # owner[LockOf(s)]
    <3>1. PICK x \in Sessions :
            /\ owner' = [owner EXCEPT ![LockOf(x)] = t]
            /\ \/ t = "send" /\ p # <<>> /\ p[1] = Release(x)
               \/ t = "recv" /\ Releases(p, x)
      BY <2>2, LocksDiffer DEF TypeOK
    <3>2. x = s
      BY <2>2, <3>1, LocksDiffer DEF TypeOK
    <3>3. owner'[LockOf(s)] = t
      BY <3>1, <3>2, LocksDiffer DEF TypeOK
    <3> QED BY <1>1, <3>1, <3>2, <3>3
  <2> QED BY <2>1, <2>2
<1>7. Strangers'
  <2>1. EnqueueOnce(todo["recv"])'
    <3>1. EnqueueOnce(todo'["recv"])
      BY <1>1 DEF Strangers, Threads
    <3> QED BY <3>1 DEF EnqueueOnce, Enqueues
  <2>2. ASSUME NEW s \in Sessions, NEW u \in Threads, Occurs(Enqueues(s), todo[u])'
        PROVE  u = "recv" /\ logins'[s] # 0
    <3>1. Occurs(Enqueues(s), todo'[u])
      BY <2>2 DEF Occurs, Enqueues
    <3>2. CASE u = t
      BY <1>1, <3>1, <3>2
    <3>3. CASE u # t
      BY <1>1, <3>1, <3>3 DEF Strangers
    <3> QED BY <3>2, <3>3
  <2>3. ASSUME NEW s \in Sessions, MaxLogins <= 1, logins'[s] = 0 \/ Occurs(Enqueues(s), todo["recv"])'
        PROVE  Stranger(s)'
    <3>1. Stranger(s)
      <4>1. CASE logins'[s] = 0
        BY <2>3, <4>1 DEF Strangers
      <4>2. CASE Occurs(Enqueues(s), todo["recv"])'
        <5>1. Occurs(Enqueues(s), todo'["recv"])
          BY <4>2 DEF Occurs, Enqueues
        <5>2. CASE t = "recv"
          BY <1>1, <2>3, <5>1, <5>2 DEF Strangers
        <5>3. CASE t # "recv"
          BY <1>1, <2>3, <5>1, <5>3 DEF Strangers, Threads
        <5> QED BY <5>2, <5>3
      <4> QED BY <2>3, <4>1, <4>2
    <3>2. ASSUME NEW u \in Threads, NEW c \in Names(s) PROVE ~Occurs(c, todo'[u])
      BY <1>1, <3>1 DEF Stranger, Foreign
    <3>3. UNCHANGED <<queue, roomed, members>>
      OBVIOUS
    <3> QED BY <3>1, <3>2, <3>3 DEF Stranger, Occurs, Names, Use
  <2> QED BY <2>1, <2>2, <2>3 DEF Strangers
<1> QED BY <1>2, <1>4, <1>5, <1>6, <1>7

LEMMA LoginStep ==
  ASSUME IInv, NEW s \in Sessions, Login(s) PROVE IInv'
<1> USE DEF IInv, LInv
<1> DEFINE p == Matchmaker("Enqueue", s) \o AfterHandler(s, FALSE)
<1>1. /\ p \in Seq(Steps)
      /\ OneSection(p) /\ Releases(p, s) /\ EnqueueOnce(p)
      /\ \A x : Occurs(Enqueues(x), p) => x = s
      /\ \A x : Foreign(x, p)
  BY LoginIs DEF Foreign
<1>2. /\ Begin("recv", LockOf(s), p)
      /\ logins' = [logins EXCEPT ![s] = @ + 1] /\ logins[s] < MaxLogins
      /\ UNCHANGED <<queue, roomed, members, gone>>
  BY DEF Login
<1> HIDE DEF p
<1>3. /\ logins' \in [Sessions -> 0 .. MaxLogins] /\ logins'[s] = logins[s] + 1
      /\ logins'[s] # 0 /\ (MaxLogins <= 1 => logins[s] = 0)
  BY <1>2, LockAssumption DEF TypeOK
<1>4. \A x \in Sessions : logins'[x] = 0 => logins[x] = 0
  BY <1>2, <1>3 DEF TypeOK
<1>5. Idle("recv") /\ todo' = [todo EXCEPT !["recv"] = p] /\ owner' = [owner EXCEPT ![LockOf(s)] = "recv"]
  BY <1>2 DEF Begin
<1>6. Listed' /\ Match' /\ SessionLocks' /\ Strangers' /\ owner' \in [Held -> Threads \cup {None}]
  <2>1. \A x \in Sessions : Occurs(Enqueues(x), p) => logins'[x] # 0 /\ (MaxLogins <= 1 => logins[x] = 0)
    BY <1>1, <1>3
  <2>2. "recv" \in Threads
    BY DEF Threads
  <2> QED BY <1>1, <1>2, <1>4, <1>5, <2>1, <2>2, BeginKeeps
<1>7. TypeOK'
  BY <1>2, <1>3, <1>6, ListedTyped DEF TypeOK
<1> QED BY <1>6, <1>7

(* A handler that does not log in, and what follows it. *)
LEMMA HandlerIs ==
  ASSUME IInv, NEW s \in Sessions, NEW h \in Handlers(s)
  PROVE  h \in Seq(Quiet) /\ \A x \in Sessions : Stranger(x) => Foreign(x, h)
<1> DEFINE reset == << <<"use", "membersLock_", None>> >>
           broadcast == << <<"call", "Broadcast", s>> >>
           announce == << <<"call", "Announce", s>> >>
<1>1. SnapshotOthers = reset /\ FindEnemyOwnerSession = reset
      /\ Call("Broadcast", s) = broadcast /\ Call("Announce", s) = announce
      /\ \A o : SendTo(o) = <<Use(o)>>
  BY DoIs DEF SnapshotOthers, FindEnemyOwnerSession, Call, SendTo, Use
<1>2. /\ <<>> \in Seq(Quiet) /\ \A x : Foreign(x, <<>>)
      /\ reset \in Seq(Quiet) /\ \A x \in Sessions : Foreign(x, reset)
      /\ broadcast \in Seq(Quiet) /\ \A x \in Sessions : Foreign(x, broadcast)
      /\ announce \in Seq(Quiet) /\ \A x \in Sessions : x # s => Foreign(x, announce)
  BY QuietMember, ForeignOne, NamesOf
<1>3. \A o \in Sessions : <<Use(o)>> \in Seq(Quiet) /\ \A x \in Sessions : x # o => Foreign(x, <<Use(o)>>)
  BY QuietMember, ForeignOne, NamesOf
<1> HIDE DEF reset, broadcast, announce
<1>4. CASE h = <<>>
  BY <1>2, <1>4
<1>5. CASE h # <<>>
  <2>1. /\ s \in roomed /\ members \subseteq Sessions /\ \A x \in Sessions : Stranger(x) => x # s /\ x \notin members
    BY <1>5 DEF Handlers, Stranger, IInv, LInv, TypeOK
  <2>2. CASE h = broadcast
    BY <1>2, <2>2
  <2>3. CASE h = announce
    BY <1>2, <2>1, <2>3
  <2>4. CASE h = broadcast \o reset
    BY <1>2, <2>4, ForeignParts
  <2>5. CASE \E o \in members : h = reset \o <<Use(o)>>
    <3>1. PICK o \in members : h = reset \o <<Use(o)>>
      BY <2>5
    <3> DEFINE last == <<Use(o)>>
    <3>2. last \in Seq(Quiet) /\ \A x \in Sessions : Stranger(x) => Foreign(x, last)
      BY <1>3, <2>1
    <3>3. h = reset \o last
      BY <3>1
    <3> HIDE DEF last
    <3> QED BY <1>2, <3>2, <3>3, ForeignParts
  <2> QED BY <1>1, <1>5, <2>1, <2>2, <2>3, <2>4, <2>5 DEF Handlers, Reset
<1> QED BY <1>4, <1>5

LEMMA CompleteStep ==
  ASSUME IInv, NEW s \in Sessions, Complete(s) PROVE IInv'
<1> USE DEF IInv, LInv
<1>1. PICK closes \in BOOLEAN :
        /\ \/ \E h \in Handlers(s) : Begin("recv", LockOf(s), h \o AfterHandler(s, closes))
           \/ Begin("send", LockOf(s), AfterHandler(s, closes))
        /\ gone' = IF closes THEN gone \cup {s} ELSE gone
  BY DEF Complete
<1>2. UNCHANGED <<queue, roomed, members, logins>>
  BY DEF Complete
<1> DEFINE b == AfterHandler(s, closes)
<1>3. /\ b \in Seq(Steps) /\ 1 \in DOMAIN b /\ b[1] = Release(s)
      /\ OneSection(b) /\ Releases(b, s)
      /\ \A x : ~Occurs(Enqueues(x), b) /\ \A c \in Names(x) : ~Occurs(c, b)
  BY CompletionIs
<1> HIDE DEF b
<1>4. EnqueueOnce(b)
  BY <1>3 DEF EnqueueOnce, Occurs
<1>5. "recv" \in Threads /\ "send" \in Threads
  BY DEF Threads
<1>6. Listed' /\ Match' /\ SessionLocks' /\ Strangers' /\ owner' \in [Held -> Threads \cup {None}]
  <2>1. ASSUME NEW h \in Handlers(s), Begin("recv", LockOf(s), h \o b)
        PROVE  Listed' /\ Match' /\ SessionLocks' /\ Strangers' /\ owner' \in [Held -> Threads \cup {None}]
    <3> DEFINE p == h \o b
    <3>1. h \in Seq(Quiet) /\ \A x \in Sessions : Stranger(x) => Foreign(x, h)
      BY HandlerIs
    <3>2. /\ p \in Seq(Steps) /\ OneSection(p) /\ EnqueueOnce(p) /\ Releases(p, s)
          /\ \A c : Occurs(c, p) <=> Occurs(c, h) \/ Occurs(c, b)
          /\ \A x : ~Occurs(Enqueues(x), h)
      BY <1>3, <1>4, <3>1, PrefixKeeps
    <3>3. Idle("recv") /\ todo' = [todo EXCEPT !["recv"] = p] /\ owner' = [owner EXCEPT ![LockOf(s)] = "recv"]
      BY <2>1 DEF Begin
    <3> HIDE DEF p
    <3>4. \A x : ~Occurs(Enqueues(x), p)
      BY <1>3, <3>2
    <3>5. \A x \in Sessions : Stranger(x) => Foreign(x, p)
      BY <1>3, <3>1, <3>2 DEF Foreign
    <3> QED BY <1>2, <1>5, <3>2, <3>3, <3>4, <3>5, BeginKeeps
  <2>2. ASSUME Begin("send", LockOf(s), b)
        PROVE  Listed' /\ Match' /\ SessionLocks' /\ Strangers' /\ owner' \in [Held -> Threads \cup {None}]
    <3>1. Idle("send") /\ todo' = [todo EXCEPT !["send"] = b] /\ owner' = [owner EXCEPT ![LockOf(s)] = "send"]
      BY <2>2 DEF Begin
    <3>2. b # <<>>
      BY <1>3
    <3>3. \A x \in Sessions : Foreign(x, b)
      BY <1>3 DEF Foreign
    <3> QED BY <1>2, <1>3, <1>4, <1>5, <3>1, <3>2, <3>3, BeginKeeps
  <2> QED BY <1>1, <2>1, <2>2 DEF b
<1>7. gone' \subseteq Sessions
  BY <1>1 DEF TypeOK
<1>8. TypeOK'
  BY <1>2, <1>6, <1>7, ListedTyped DEF TypeOK
<1> QED BY <1>6, <1>8

LEMMA TickMatchStep ==
  ASSUME IInv, TickMatch PROVE IInv'
<1> USE DEF IInv, LInv
<1> DEFINE p == Call("TickTimeouts", None) \o Do("free", MatchLock)
<1>1. /\ p \in Seq(Steps) /\ OneSection(p)
      /\ ~Occurs(Hold, p) /\ Occurs(FreeMatch, p)
      /\ \A x : ~Occurs(Enqueues(x), p) /\ \A c \in Names(x) : ~Occurs(c, p)
  BY TickIs
<1>2. /\ Idle("tick") /\ todo' = [todo EXCEPT !["tick"] = p] /\ owner' = [owner EXCEPT ![MatchLock] = "tick"]
      /\ UNCHANGED <<queue, roomed, members, logins, gone>>
  BY DEF TickMatch, Begin, State
<1> HIDE DEF p
<1>3. EnqueueOnce(p) /\ \A x \in Sessions : Foreign(x, p)
  BY <1>1 DEF EnqueueOnce, Occurs, Foreign
<1>4. "tick" \in Threads
  BY DEF Threads
<1>5. Listed' /\ Match' /\ SessionLocks' /\ Strangers' /\ owner' \in [Held -> Threads \cup {None}]
  BY <1>1, <1>2, <1>3, <1>4, BeginKeeps
<1>6. TypeOK'
  BY <1>2, <1>5, ListedTyped DEF TypeOK
<1> QED BY <1>5, <1>6

LEMMA TickRoomStep ==
  ASSUME IInv, TickRoom PROVE IInv'
<1> USE DEF IInv, LInv
<1>1. PICK s \in members : \E steps \in {Call("Announce", s), Call("Broadcast", None), SnapshotOthers \o SendTo(s)} :
        todo' = [todo EXCEPT !["tick"] = steps]
  BY DEF TickRoom
<1>2. /\ Idle("tick") /\ UNCHANGED <<owner, queue, roomed, members, logins, gone>>
  BY DEF TickRoom, State
<1>3. s \in Sessions /\ \A x \in Sessions : Stranger(x) => x # s
  BY DEF TypeOK, Stranger
<1> DEFINE reset == << <<"use", "membersLock_", None>> >>
           announce == << <<"call", "Announce", s>> >>
           broadcast == << <<"call", "Broadcast", None>> >>
           send == << Use(s) >>
<1>4. /\ reset \in Seq(Quiet) /\ \A x \in Sessions : Foreign(x, reset)
      /\ broadcast \in Seq(Quiet) /\ \A x \in Sessions : Foreign(x, broadcast)
      /\ announce \in Seq(Quiet) /\ \A x \in Sessions : x # s => Foreign(x, announce)
      /\ send \in Seq(Quiet) /\ \A x \in Sessions : x # s => Foreign(x, send)
  BY <1>3, QuietMember, ForeignOne, NamesOf
<1>5. /\ Call("Announce", s) = announce /\ Call("Broadcast", None) = broadcast
      /\ SnapshotOthers = reset /\ SendTo(s) = send
  BY DoIs DEF SnapshotOthers, Call, SendTo, Use
<1> HIDE DEF reset, announce, broadcast, send
<1>6. PICK p \in Seq(Quiet) :
        /\ todo' = [todo EXCEPT !["tick"] = p]
        /\ \A x \in Sessions : Stranger(x) => Foreign(x, p)
  <2>1. reset \o send \in Seq(Quiet) /\ \A x \in Sessions : Stranger(x) => Foreign(x, reset \o send)
    BY <1>3, <1>4, ForeignParts
  <2> QED BY <1>1, <1>3, <1>4, <1>5, <2>1
<1>7. /\ p \in Seq(Steps) /\ ~Occurs(Hold, p) /\ \A x : ~Occurs(Enqueues(x), p)
  <2>1. <<>> \in Seq(Steps)
    OBVIOUS
  <2>2. p \in Seq(Steps)
    BY QuietIs
  <2> QED BY <2>1, <2>2, PrefixKeeps
<1>8. OneSection(p) /\ EnqueueOnce(p)
  BY <1>7 DEF OneSection, EnqueueOnce, Occurs
<1>9. "tick" \in Threads
  BY DEF Threads
<1>10. Listed' /\ Match' /\ SessionLocks' /\ Strangers' /\ owner' \in [Held -> Threads \cup {None}]
  BY <1>2, <1>6, <1>7, <1>8, <1>9, BeginKeeps
<1>11. TypeOK'
  BY <1>2, <1>10, ListedTyped DEF TypeOK
<1> QED BY <1>10, <1>11

-----------------------------------------------------------------------------
(* The invariant *)
LEMMA InitIInv == Init => IInv
<1> SUFFICES ASSUME Init PROVE IInv
  OBVIOUS
<1> USE DEF Init
<1>1. \A t \in Threads : todo[t] = <<>>
  OBVIOUS
<1>2. \A c : ~Occurs(c, <<>>)
  BY DEF Occurs
<1>3. TypeOK
  <2>1. <<>> \in Seq(Instructions) /\ <<>> \in Seq(Sessions)
    OBVIOUS
  <2>2. 0 \in 0 .. MaxLogins
    BY LockAssumption
  <2> QED BY <2>1, <2>2 DEF TypeOK
<1>4. Listed
  <2>1. <<>> \in Seq(Steps)
    OBVIOUS
  <2> QED BY <2>1 DEF Listed
<1>5. MatchLock \in Held /\ Shared("membersLock_") \in Held /\ None \notin Threads
  BY LocksDiffer, LockAssumption DEF Held
<1>6. Match
  BY <1>1, <1>5 DEF Match, OneSection
<1>7. SessionLocks
  BY <1>5, LocksDiffer DEF SessionLocks, Threads
<1>8. Strangers
  BY <1>1, <1>2 DEF Strangers, Stranger, EnqueueOnce, Threads
<1> QED BY <1>3, <1>4, <1>6, <1>7, <1>8 DEF IInv, LInv

LEMMA StutterIInv ==
  ASSUME IInv, UNCHANGED vars PROVE IInv'
<1> USE DEF IInv, LInv, vars
<1>1. TypeOK' /\ Listed'
  BY DEF TypeOK, Listed
<1>2. Match'
  BY DEF Match, OneSection, Occurs, Hold, FreeMatch, MatchLock, Shared
<1>3. SessionLocks'
  BY DEF SessionLocks, Releases, LockOf, Release, Enqueues, Hold
<1>4. EnqueueOnce(todo["recv"])'
  BY DEF Strangers, EnqueueOnce, Enqueues
<1>5. \A s \in Sessions : \A t \in Threads : Occurs(Enqueues(s), todo[t])' => Occurs(Enqueues(s), todo[t])
  BY DEF Occurs, Enqueues
<1>6. \A s \in Sessions : Stranger(s) => Stranger(s)'
  BY DEF Stranger, Occurs, Names, Use
<1>7. Strangers'
  BY <1>4, <1>5, <1>6 DEF Strangers, Threads
<1> QED BY <1>1, <1>2, <1>3, <1>7

LEMMA NextIInv == IInv /\ [Next]_vars => IInv'
<1> SUFFICES ASSUME IInv, [Next]_vars PROVE IInv'
  OBVIOUS
<1>1. ASSUME NEW s \in Sessions, Complete(s) PROVE IInv'
  BY <1>1, CompleteStep
<1>2. ASSUME NEW s \in Sessions, Login(s) PROVE IInv'
  BY <1>2, LoginStep
<1>3. CASE TickMatch
  BY <1>3, TickMatchStep
<1>4. CASE TickRoom
  BY <1>4, TickRoomStep
<1>5. ASSUME NEW t \in Threads,
             \/ Take(t) \/ Free(t) \/ Pass(t)
             \/ Broadcast(t) \/ Announce(t)
             \/ Enqueue(t) \/ Cancel(t) \/ TickTimeouts(t) \/ AddSession(t) \/ Leave(t)
      PROVE  IInv'
  BY <1>5, TakeStep, FreeStep, PassStep, BroadcastStep, AnnounceStep,
     EnqueueStep, CancelStep, TickTimeoutsStep, AddSessionStep, LeaveStep
<1>6. CASE UNCHANGED vars
  BY <1>6, StutterIInv
<1> QED BY <1>1, <1>2, <1>3, <1>4, <1>5, <1>6 DEF Next

LEMMA LockInvariant == Spec => []IInv
<1> QED BY InitIInv, NextIInv, PTL DEF Spec

(* The state keeps its types, and every member of the room has its room_   *)
(* set, so that whoever is sent a packet can be found by the others.       *)
THEOREM LockTypeCorrect == Spec => []TypeOK
<1>1. IInv => TypeOK
  BY DEF IInv, LInv
<1> QED BY <1>1, LockInvariant, PTL

(* What a thread that waits for another waits for: the matchmaker's lock_, *)
(* or a session's that somebody else holds.                                *)
LEMMA BlockerIs ==
  ASSUME IInv, NEW t \in Threads, Blocker(t) \in Threads
  PROVE  /\ todo[t] # <<>>
         /\ \/ todo[t][1] = Hold /\ Blocker(t) = owner[MatchLock]
            \/ \E s \in Sessions : /\ todo[t][1] = Use(s) /\ Blocker(t) = owner[LockOf(s)]
                                   /\ Blocker(t) # t
<1>1. None \notin Threads
  BY LockAssumption
<1>2. todo[t] # <<>> /\ ~At(t, "free")
  BY <1>1 DEF Blocker
<1>3. ~NeedsMembers(t)
  BY <1>1 DEF Blocker, IInv, Match, Shared
<1>4. ~At(t, "call")
  BY <1>1, <1>3 DEF Blocker
<1>5. LockAt(t)[2] # None => owner[LockAt(t)] # t
  BY <1>1, <1>3 DEF Blocker
<1>6. Blocker(t) = owner[LockAt(t)]
  BY <1>1, <1>3 DEF Blocker
<1> DEFINE c == todo[t][1]
<1>7. c \in Steps
  BY <1>2, AtHead
<1>8. c[1] # "free" /\ c[1] # "call" /\ LockAt(t) = <<c[2], c[3]>>
  BY <1>2, <1>4 DEF At, LockAt
<1> HIDE DEF c
<1>9. c = Hold \/ c = <<"use", "membersLock_", None>> \/ \E s \in Sessions : c = Use(s)
  BY <1>7, <1>8 DEF Steps, Quiet, FreeMatch, Release
<1>10. CASE c = Hold
  <2>1. LockAt(t) = MatchLock
    BY <1>8, <1>10 DEF Hold, MatchLock, Shared
  <2> QED BY <1>2, <1>6, <1>10, <2>1 DEF c
<1>11. CASE c = <<"use", "membersLock_", None>>
  <2>1. LockAt(t) = Shared("membersLock_")
    BY <1>8, <1>11 DEF Shared
  <2> QED BY <1>1, <1>6, <2>1 DEF IInv, Match
<1>12. ASSUME NEW s \in Sessions, c = Use(s)
       PROVE  todo[t][1] = Use(s) /\ Blocker(t) = owner[LockOf(s)] /\ Blocker(t) # t
  <2>1. LockAt(t) = LockOf(s) /\ LockAt(t)[2] = s /\ s # None
    BY <1>8, <1>12, LockAssumption DEF Use, LockOf
  <2> QED BY <1>5, <1>6, <1>12, <2>1 DEF c
<1> QED BY <1>2, <1>9, <1>10, <1>11, <1>12 DEF c

(* The only circle there can be, however often a connection logs in: one   *)
(* that logs in holds its lock_ and waits for the matchmaker's, whose      *)
(* owner is about to send to that very session.                            *)
LoginCircle ==
  \E s \in Sessions : \E u \in {"send", "tick"} :
    /\ todo["recv"] # <<>> /\ todo["recv"][1] = Hold /\ Occurs(Enqueues(s), todo["recv"])
    /\ owner[LockOf(s)] = "recv" /\ owner[MatchLock] = u
    /\ todo[u] # <<>> /\ todo[u][1] = Use(s)

OnlyLoginCircle == NoCircularWait \/ LoginCircle

LEMMA CirclesAreLogins ==
  ASSUME IInv PROVE OnlyLoginCircle
<1> SUFFICES ASSUME NEW S \in (SUBSET Threads) \ {{}}, \A t \in S : Blocker(t) \in S
             PROVE  LoginCircle
  BY DEF OnlyLoginCircle, NoCircularWait
<1>1. ASSUME NEW t \in S
      PROVE  /\ t \in Threads /\ Blocker(t) \in S /\ todo[t] # <<>>
             /\ \/ todo[t][1] = Hold /\ Blocker(t) = owner[MatchLock]
                \/ \E s \in Sessions : /\ todo[t][1] = Use(s) /\ Blocker(t) = owner[LockOf(s)]
                                       /\ Blocker(t) # t
  BY <1>1, BlockerIs
<1>2. \A s \in Sessions : Hold # Release(s) /\ Hold # Use(s) /\ \A x : Use(x) # Release(s)
  BY DEF Hold, Use, Release
(* Nobody in the circle waits for a session's lock_, but for recv's. *)
<1>3. ASSUME NEW t \in S, NEW s \in Sessions, todo[t][1] = Use(s), Blocker(t) = owner[LockOf(s)]
      PROVE  owner[LockOf(s)] = "recv"
  <2>1. owner[LockOf(s)] \in S
    BY <1>1, <1>3
  <2>2. owner[LockOf(s)] # "tick"
    BY DEF IInv, SessionLocks
  <2>3. owner[LockOf(s)] # "send"
    <3>1. ASSUME owner[LockOf(s)] = "send" PROVE FALSE
      <4>1. todo["send"][1] = Release(s)
        BY <3>1 DEF IInv, SessionLocks
      <4>2. "send" \in S
        BY <2>1, <3>1
      <4> QED BY <1>1, <1>2, <4>1, <4>2
    <3> QED BY <3>1
  <2> QED BY <2>1, <2>2, <2>3 DEF Threads
(* Who owns the matchmaker's does not wait for it. *)
<1>4. ASSUME NEW t \in S, todo[t][1] = Hold PROVE owner[MatchLock] # t
  <2>1. Occurs(Hold, todo[t])
    BY <1>1, <1>4, AtHead
  <2> QED BY <1>1, <2>1 DEF IInv, Match
<1>5. PICK t \in S : TRUE
  <2>1. S # {}
    OBVIOUS
  <2> QED BY <2>1
<1>6. "recv" \in S
  <2>1. CASE \E s \in Sessions : todo[t][1] = Use(s) /\ Blocker(t) = owner[LockOf(s)]
    BY <1>1, <1>3, <2>1
  <2>2. CASE todo[t][1] = Hold /\ Blocker(t) = owner[MatchLock]
    <3> DEFINE u == owner[MatchLock]
    <3>1. u \in S /\ todo[u][1] # Hold
      BY <1>1, <1>4, <2>2
    <3>2. PICK s \in Sessions : todo[u][1] = Use(s) /\ Blocker(u) = owner[LockOf(s)]
      BY <1>1, <3>1
    <3> QED BY <1>1, <1>3, <3>1, <3>2
  <2> QED BY <1>1, <2>1, <2>2
<1>7. todo["recv"][1] = Hold /\ Blocker("recv") = owner[MatchLock]
  <2>1. ASSUME NEW s \in Sessions, todo["recv"][1] = Use(s), Blocker("recv") = owner[LockOf(s)],
               Blocker("recv") # "recv"
        PROVE  FALSE
    BY <1>3, <1>6, <2>1
  <2> QED BY <1>1, <1>6, <2>1
<1> DEFINE u == owner[MatchLock]
<1>8. u \in S /\ u # "recv" /\ todo[u][1] # Hold
  BY <1>1, <1>4, <1>6, <1>7
<1>9. PICK s \in Sessions : todo[u][1] = Use(s) /\ owner[LockOf(s)] = "recv"
  BY <1>1, <1>3, <1>8
<1>10. Occurs(Enqueues(s), todo["recv"])
  <2>1. PICK i \in DOMAIN todo["recv"] :
          /\ todo["recv"][i] = Release(s)
          /\ \A h \in DOMAIN todo["recv"] : h < i /\ todo["recv"][h] = Hold =>
               h + 1 \in DOMAIN todo["recv"] /\ todo["recv"][h + 1] = Enqueues(s)
    BY <1>9 DEF IInv, SessionLocks, Releases
  <2>2. todo["recv"] \in Seq(Steps) /\ todo["recv"] # <<>>
    BY <1>1, <1>6, AtHead
  <2>3. 1 \in DOMAIN todo["recv"] /\ 1 < i
    BY <1>2, <1>7, <2>1, <2>2
  <2> QED BY <1>7, <2>1, <2>3 DEF Occurs
<1>11. u \in {"send", "tick"}
  BY <1>1, <1>8 DEF Threads
<1> QED BY <1>1, <1>6, <1>7, <1>8, <1>9, <1>10, <1>11 DEF LoginCircle

(* However often connections log in, threads wait for each other only when *)
(* a session that is queued or in a room already logs in once more         *)
(* (FinishAuthenticatedLogin enqueues it under its own lock_) while a      *)
(* squad is being told or seated under the matchmaker's.                   *)
THEOREM OnlyLoginsCanCircle == Spec => []OnlyLoginCircle
<1>1. IInv => OnlyLoginCircle
  BY CirclesAreLogins
<1> QED BY <1>1, LockInvariant, PTL

(* With one login per connection nobody ever waits in a circle: whatever   *)
(* handlers, completions, disconnects and ticks meet, the server's mutexes *)
(* do not deadlock it.                                                     *)
THEOREM NoDeadlock == MaxLogins <= 1 => (Spec => []NoCircularWait)
<1> SUFFICES ASSUME MaxLogins <= 1 PROVE Spec => []NoCircularWait
  OBVIOUS
<1>1. IInv => NoCircularWait
  <2> SUFFICES ASSUME IInv, LoginCircle PROVE FALSE
    BY CirclesAreLogins DEF OnlyLoginCircle
  <2>1. PICK s \in Sessions, u \in {"send", "tick"} :
          /\ Occurs(Enqueues(s), todo["recv"])
          /\ todo[u] # <<>> /\ todo[u][1] = Use(s)
    BY DEF LoginCircle
  <2>2. Stranger(s)
    BY <2>1 DEF IInv, Strangers
  <2>3. u \in Threads
    BY DEF Threads
  <2>4. Occurs(Use(s), todo[u])
    BY <2>1, <2>3, AtHead
  <2> QED BY <2>2, <2>3, <2>4 DEF Stranger, Names
<1> QED BY <1>1, LockInvariant, PTL
==============================================================================
