---------------------------- MODULE WorkersProofs ----------------------------
(***************************************************************************)
(* Theorems about Workers, for any number of workers, size of batch and    *)
(* number of completions.  The argument: each queue has one token, which   *)
(* is that it is armed, its key in the port, or the worker that drains it; *)
(* so what was dequeued and not yet handled continues without a gap in     *)
(* what is still queued.  And Stop closes in the order in which it has     *)
(* seen the threads end.                                                   *)
(***************************************************************************)
EXTENDS Workers, SequenceTheorems, FiniteSetTheorems, TLAPS

(* The numbers after a, up to b. *)
Run(a, b) == [i \in 1 .. b - a |-> a + i]

Occurs(key, s) == \E i \in 1 .. Len(s) : s[i] = key

(* Every key but "shutdown" is in s once. *)
Once(s) == \A i, j \in 1 .. Len(s) : s[i] = s[j] /\ s[i] # "shutdown" => i = j

BeforeStart == {"start", "failed"}
AcceptJoined == {"join tick", "post shutdown", "join workers", "close", "stopped"}
TickJoined == AcceptJoined \ {"join tick"}
AllJoined == {"close", "stopped"}

(* What is open at each moment of Start. *)
Prefixes ==
  {{}, {"winsock"}, {"winsock", "listen"}, {"winsock", "listen", "iocp"},
   {"winsock", "listen", "iocp", "recv"}, {"winsock", "listen", "iocp", "recv", "send"}}

(* Where Start and Stop are tells what is open and who is there. *)
Phases ==
  /\ running <=> main = "serving"
  /\ main = "start" => /\ opened \in Prefixes
                        /\ armed = IF "send" \in opened THEN Queues ELSE {}
  /\ main \notin BeforeStart \cup {"stopped"} => Queues \cup {"iocp"} \subseteq opened
  /\ main \in BeforeStart =>
       /\ \A t \in Threads : pc[t] = "none"
       /\ iocp = <<>> /\ \A q \in Queues : cq[q] = <<>>
  /\ main \notin BeforeStart => \A t \in Threads : pc[t] # "none"
  /\ main \in AcceptJoined => pc["accept"] = "gone"
  /\ main \in TickJoined => pc["tick"] = "gone"
  /\ main \in AllJoined => \A w \in WorkerThreads : pc[w] = "gone"

(* The token of a queue, of which there is one once Start is done. *)
TokenOf(q) ==
  /\ q \in armed => ~Occurs(q, iocp) /\ Busy(q) = {} /\ cq[q] = <<>>
  /\ Occurs(q, iocp) => Busy(q) = {}
  /\ \A w, x \in Busy(q) : w = x
  /\ main \notin BeforeStart => q \in armed \/ Occurs(q, iocp) \/ Busy(q) # {}

OneToken == Once(iocp) /\ \A q \in Queues : TokenOf(q)

(* A worker has completions in hand exactly while it handles them. *)
InHandWhileHandling ==
  \A w \in WorkerThreads : batch[w] # <<>> <=> pc[w] = "handling"

(* How many completions of a queue were ever dequeued. *)
Taken(q) == made[q] - Len(cq[q])

(* No gap and no overlap between what was handled, what is in hand and     *)
(* what is queued.                                                         *)
NumberedIn(q) ==
  /\ Taken(q) \in handled[q] .. made[q]
  /\ cq[q] = Run(Taken(q), made[q])
  /\ \A w \in Busy(q) : batch[w] = Run(handled[q], Taken(q))
  /\ Busy(q) = {} => Taken(q) = handled[q]

Numbered == \A q \in Queues : NumberedIn(q)

IInv == TypeOK /\ Phases /\ OneToken /\ InHandWhileHandling /\ Numbered
-----------------------------------------------------------------------------
(* Runs of numbers: their type, and what the operations on sequences make  *)
(* of them.                                                                *)
IsRun(r, a, b) == r \in Seq(Nat) /\ Len(r) = b - a /\ \A i \in 1 .. b - a : r[i] = a + i

LEMMA RunIsRun ==
  ASSUME NEW a \in Nat, NEW b \in Nat, a <= b
  PROVE  IsRun(Run(a, b), a, b)
<1>1. b - a \in Nat
  OBVIOUS
<1>2. \A i \in 1 .. b - a : a + i \in Nat
  OBVIOUS
<1>3. Run(a, b) \in Seq(Nat)
  BY <1>1, <1>2, IsASeq DEF Run
<1>4. Len(Run(a, b)) = b - a
  BY <1>1, <1>3 DEF Run
<1> QED BY <1>3, <1>4 DEF Run, IsRun

LEMMA RunBounded ==
  ASSUME NEW a \in Nat, NEW b \in Nat, a <= b, NEW m \in Nat, b <= m
  PROVE  Run(a, b) \in Seq(1 .. m)
<1>1. b - a \in Nat
  OBVIOUS
<1>2. \A i \in 1 .. b - a : a + i \in 1 .. m
  OBVIOUS
<1> QED BY <1>1, <1>2, IsASeq DEF Run

LEMMA RunEmpty ==
  ASSUME NEW a \in Nat, NEW b \in Nat, a <= b
  PROVE  Run(a, b) = <<>> <=> a = b
<1>1. Run(a, b) \in Seq(Nat) /\ Len(Run(a, b)) = b - a
  BY RunIsRun DEF IsRun
<1> QED BY <1>1, EmptySeq

LEMMA IsRunUnique ==
  ASSUME NEW s, NEW a \in Nat, NEW b \in Nat, a <= b, IsRun(s, a, b)
  PROVE  s = Run(a, b)
<1>1. ASSUME NEW r, IsRun(r, a, b) PROVE s = r
  <2>1. r \in Seq(Nat) /\ s \in Seq(Nat) /\ Len(s) = b - a /\ Len(r) = b - a
    BY <1>1 DEF IsRun
  <2>2. \A i \in 1 .. Len(s) : s[i] = r[i]
    BY <1>1, <2>1 DEF IsRun
  <2> QED BY <2>1, <2>2, SeqEqual
<1> QED BY <1>1, RunIsRun

LEMMA RunAppend ==
  ASSUME NEW a \in Nat, NEW b \in Nat, a <= b
  PROVE  Append(Run(a, b), b + 1) = Run(a, b + 1)
<1>1. ASSUME NEW r, IsRun(r, a, b) PROVE IsRun(Append(r, b + 1), a, b + 1)
  <2>1. /\ Append(r, b + 1) \in Seq(Nat) /\ Len(Append(r, b + 1)) = b + 1 - a
        /\ \A i \in 1 .. b - a : Append(r, b + 1)[i] = r[i]
        /\ Append(r, b + 1)[b + 1 - a] = b + 1
    BY <1>1, AppendProperties DEF IsRun
  <2>2. \A i \in 1 .. b + 1 - a : i \in 1 .. b - a \/ i = b + 1 - a
    OBVIOUS
  <2>3. ASSUME NEW i \in 1 .. b + 1 - a PROVE Append(r, b + 1)[i] = a + i
    <3>1. CASE i \in 1 .. b - a
      BY <1>1, <2>1, <3>1 DEF IsRun
    <3>2. CASE i = b + 1 - a
      BY <2>1, <3>2
    <3> QED BY <2>2, <3>1, <3>2
  <2> QED BY <2>1, <2>3 DEF IsRun
<1>2. IsRun(Append(Run(a, b), b + 1), a, b + 1) /\ b + 1 \in Nat /\ a <= b + 1
  BY <1>1, RunIsRun
<1> QED BY <1>2, IsRunUnique

LEMMA RunSplit ==
  ASSUME NEW a \in Nat, NEW b \in Nat, a <= b, NEW n \in 0 .. b - a
  PROVE  /\ SubSeq(Run(a, b), 1, n) = Run(a, a + n)
         /\ SubSeq(Run(a, b), n + 1, Len(Run(a, b))) = Run(a + n, b)
<1>1. ASSUME NEW r, IsRun(r, a, b) PROVE IsRun(SubSeq(r, 1, n), a, a + n)
  <2>1. \A i \in 1 .. n : r[i] = a + i /\ r[i] \in Nat
    BY <1>1 DEF IsRun
  <2>2. /\ SubSeq(r, 1, n) \in Seq(Nat) /\ Len(SubSeq(r, 1, n)) = n
        /\ \A i \in 1 .. n : SubSeq(r, 1, n)[i] = r[i]
    BY <2>1, SubSeqProperties
  <2> QED BY <2>1, <2>2 DEF IsRun
<1>2. ASSUME NEW r, IsRun(r, a, b) PROVE IsRun(SubSeq(r, n + 1, Len(r)), a + n, b)
  <2>1. Len(r) = b - a /\ \A i \in n + 1 .. b - a : r[i] = a + i /\ r[i] \in Nat
    BY <1>2 DEF IsRun
  <2>2. /\ SubSeq(r, n + 1, b - a) \in Seq(Nat) /\ Len(SubSeq(r, n + 1, b - a)) = b - (a + n)
        /\ \A i \in 1 .. b - (a + n) : SubSeq(r, n + 1, b - a)[i] = r[n + i]
    BY <2>1, SubSeqProperties
  <2>3. \A i \in 1 .. b - (a + n) : n + i \in n + 1 .. b - a
    OBVIOUS
  <2> QED BY <2>1, <2>2, <2>3 DEF IsRun
<1>3. IsRun(Run(a, b), a, b)
  BY RunIsRun
<1>4. IsRun(SubSeq(Run(a, b), 1, n), a, a + n) /\ a + n \in Nat /\ a <= a + n
  BY <1>1, <1>3
<1>5. IsRun(SubSeq(Run(a, b), n + 1, Len(Run(a, b))), a + n, b) /\ a + n <= b
  BY <1>2, <1>3
<1> QED BY <1>4, <1>5, IsRunUnique

LEMMA RunTail ==
  ASSUME NEW a \in Nat, NEW b \in Nat, a < b
  PROVE  Tail(Run(a, b)) = Run(a + 1, b)
<1>1. ASSUME NEW r, IsRun(r, a, b) PROVE IsRun(Tail(r), a + 1, b)
  <2>1. r \in Seq(Nat) /\ r # <<>>
    BY <1>1 DEF IsRun
  <2>2. /\ Tail(r) \in Seq(Nat) /\ Len(Tail(r)) = b - (a + 1)
        /\ \A i \in 1 .. b - (a + 1) : Tail(r)[i] = r[i + 1] /\ i + 1 \in 1 .. b - a
    BY <1>1, <2>1, HeadTailProperties DEF IsRun
  <2> QED BY <1>1, <2>2 DEF IsRun
<1>2. IsRun(Tail(Run(a, b)), a + 1, b) /\ a + 1 \in Nat /\ a + 1 <= b
  BY <1>1, RunIsRun
<1> QED BY <1>2, IsRunUnique

LEMMA RunConcat ==
  ASSUME NEW a \in Nat, NEW b \in Nat, NEW c \in Nat, a <= b, b <= c
  PROVE  Run(a, b) \o Run(b, c) = Run(a, c)
<1>1. ASSUME NEW r, IsRun(r, a, b), NEW s, IsRun(s, b, c) PROVE IsRun(r \o s, a, c)
  <2>0. r \in Seq(Nat) /\ s \in Seq(Nat) /\ Len(r) = b - a /\ Len(s) = c - b
    BY <1>1 DEF IsRun
  <2>1. r \o s \in Seq(Nat) /\ Len(r \o s) = c - a
    BY <2>0, ConcatProperties
  <2>2. \A i \in 1 .. c - a : (r \o s)[i] = IF i <= b - a THEN r[i] ELSE s[i - (b - a)]
    BY <2>0, ConcatProperties
  <2>3. ASSUME NEW i \in 1 .. c - a PROVE (r \o s)[i] = a + i
    <3>1. CASE i <= b - a
      BY <1>1, <2>2, <3>1 DEF IsRun
    <3>2. CASE ~(i <= b - a)
      <4>1. i - (b - a) \in 1 .. c - b
        BY <3>2
      <4> QED BY <1>1, <2>2, <3>2, <4>1 DEF IsRun
    <3> QED BY <3>1, <3>2
  <2> QED BY <2>1, <2>3 DEF IsRun
<1>2. IsRun(Run(a, b) \o Run(b, c), a, c) /\ a <= c
  BY <1>1, RunIsRun
<1> QED BY <1>2, IsRunUnique

(* The keys of the port. *)
Keys == Queues \cup {"shutdown"}

LEMMA OccursAppend ==
  ASSUME NEW s \in Seq(Keys), NEW k \in Queues, Once(s), ~Occurs(k, s)
  PROVE  /\ Append(s, k) \in Seq(Keys) /\ Once(Append(s, k))
         /\ \A x \in Keys : Occurs(x, Append(s, k)) <=> Occurs(x, s) \/ x = k
<1> DEFINE t == Append(s, k)
<1>1. /\ t \in Seq(Keys) /\ Len(t) = Len(s) + 1 /\ t[Len(t)] = k
      /\ \A i \in 1 .. Len(s) : t[i] = s[i]
  BY DEF Keys
<1>2. 1 .. Len(t) = 1 .. Len(s) \cup {Len(t)}
  BY <1>1
<1> HIDE DEF t
<1> QED BY <1>1, <1>2 DEF Occurs, Once, t

LEMMA OccursTail ==
  ASSUME NEW s \in Seq(Keys), s # <<>>, Once(s)
  PROVE  /\ Tail(s) \in Seq(Keys) /\ Once(Tail(s)) /\ Head(s) \in Keys /\ Occurs(Head(s), s)
         /\ \A x \in Keys : Occurs(x, Tail(s)) => Occurs(x, s)
         /\ \A x \in Queues : Occurs(x, Tail(s)) <=> Occurs(x, s) /\ x # Head(s)
<1> DEFINE t == Tail(s)
<1>1. /\ t \in Seq(Keys) /\ Len(t) = Len(s) - 1 /\ Len(s) \in Nat \ {0} /\ Head(s) = s[1]
      /\ \A i \in 1 .. Len(t) : t[i] = s[i + 1] /\ i + 1 \in 1 .. Len(s)
  OBVIOUS
<1>2. \A i \in 1 .. Len(s) : i = 1 \/ (i - 1 \in 1 .. Len(t) /\ t[i - 1] = s[i])
  BY <1>1
<1>3. \A x \in Queues : x # "shutdown"
  BY DEF Queues
<1> HIDE DEF t
<1>4. Once(t)
  BY <1>1 DEF Once
<1>5. Occurs(Head(s), s) /\ Head(s) \in Keys
  BY <1>1 DEF Occurs
<1>6. \A x \in Keys : Occurs(x, t) => Occurs(x, s)
  BY <1>1 DEF Occurs
<1>7. \A x \in Queues : Occurs(x, t) => x # Head(s)
  <2>1. SUFFICES ASSUME NEW x \in Queues, NEW i \in 1 .. Len(t), t[i] = x, x = Head(s)
                 PROVE  FALSE
    BY DEF Occurs
  <2>2. s[i + 1] = s[1] /\ s[1] # "shutdown" /\ 1 \in 1 .. Len(s) /\ i + 1 \in 1 .. Len(s)
    BY <1>1, <1>3, <2>1
  <2> QED BY <2>2 DEF Once
<1>8. \A x \in Queues : Occurs(x, s) /\ x # Head(s) => Occurs(x, t)
  BY <1>1, <1>2 DEF Occurs
<1> QED BY <1>1, <1>4, <1>5, <1>6, <1>7, <1>8 DEF t, Keys

LEMMA OccursShutdown ==
  ASSUME NEW s \in Seq(Keys), Once(s), NEW n \in Nat
  PROVE  LET t == s \o [i \in 1 .. n |-> "shutdown"]
         IN  /\ t \in Seq(Keys) /\ Once(t)
             /\ \A x \in Queues : Occurs(x, t) <=> Occurs(x, s)
<1> DEFINE r == [i \in 1 .. n |-> "shutdown"]
           t == s \o r
<1>1. r \in Seq(Keys) /\ Len(r) = n /\ \A i \in 1 .. n : r[i] = "shutdown"
  BY IsASeq DEF Keys
<1> HIDE DEF r
<1>2. /\ t \in Seq(Keys) /\ Len(t) = Len(s) + n /\ Len(s) \in Nat
      /\ \A i \in 1 .. Len(t) : IF i <= Len(s) THEN i \in 1 .. Len(s) /\ t[i] = s[i]
                                                 ELSE t[i] = "shutdown"
      /\ \A i \in 1 .. Len(s) : i \in 1 .. Len(t)
  BY <1>1
<1> HIDE DEF t
<1>3. Once(t)
  BY <1>2 DEF Once
<1>4. \A x \in Queues : Occurs(x, t) <=> Occurs(x, s)
  BY <1>2 DEF Occurs, Queues
<1> QED BY <1>2, <1>3, <1>4 DEF t, r
-----------------------------------------------------------------------------
Places == {"none", "waiting", "draining", "handling", "arming",
           "accepting", "accepted", "ticking", "gone"}

LEMMA Parts ==
  ASSUME IInv
  PROVE  /\ TypeOK /\ Phases /\ OneToken /\ InHandWhileHandling /\ Numbered
         /\ pc \in [Threads -> Places] /\ WorkerThreads \subseteq Threads
         /\ "accept" \in Threads \ WorkerThreads /\ "tick" \in Threads \ WorkerThreads
         /\ iocp \in Seq(Keys) /\ Once(iocp) /\ \A q \in Queues : TokenOf(q) /\ NumberedIn(q)
BY WorkersAssumption DEF IInv, TypeOK, Places, OneToken, Numbered, Threads, Keys

(* What the resources are, and how many of them are open. *)
LEMMA ResourcesAre ==
  /\ Len(Resources) = 5
  /\ Resources[1] = "winsock" /\ Resources[2] = "listen" /\ Resources[3] = "iocp"
  /\ Resources[4] = "recv" /\ Resources[5] = "send"
  /\ { Resources[i] : i \in DOMAIN Resources } = {"winsock", "listen", "iocp", "recv", "send"}
<1>1. Resources \in Seq({"winsock", "listen", "iocp", "recv", "send"}) /\ Len(Resources) = 5
  BY DEF Resources
<1>2. DOMAIN Resources = {1, 2, 3, 4, 5}
  BY <1>1 DEF Resources
<1> QED BY <1>1, <1>2 DEF Resources

LEMMA PrefixSizes ==
  ASSUME NEW o \in Prefixes
  PROVE  LET n == Cardinality(o)
         IN  /\ n \in 0 .. 5 /\ o \subseteq {"winsock", "listen", "iocp", "recv", "send"}
             /\ n < 5 => /\ o \cup {Resources[n + 1]} \in Prefixes
                         /\ "send" \notin o
                         /\ "send" \in o \cup {Resources[n + 1]} <=> Resources[n + 1] = "send"
             /\ n = 5 => o = {"winsock", "listen", "iocp", "recv", "send"}
<1>1. Cardinality({}) = 0 /\ IsFiniteSet({})
  BY FS_EmptySet
<1>2. LET o1 == {"winsock"} IN Cardinality(o1) = 1 /\ IsFiniteSet(o1)
  BY FS_Singleton
<1>3. LET o2 == {"winsock", "listen"} IN Cardinality(o2) = 2 /\ IsFiniteSet(o2)
  <2>1. {"winsock", "listen"} = {"winsock"} \cup {"listen"}
    OBVIOUS
  <2> QED BY <1>2, <2>1, FS_AddElement
<1>4. LET o3 == {"winsock", "listen", "iocp"} IN Cardinality(o3) = 3 /\ IsFiniteSet(o3)
  <2>1. {"winsock", "listen", "iocp"} = {"winsock", "listen"} \cup {"iocp"}
    OBVIOUS
  <2> QED BY <1>3, <2>1, FS_AddElement
<1>5. LET o4 == {"winsock", "listen", "iocp", "recv"} IN Cardinality(o4) = 4 /\ IsFiniteSet(o4)
  <2>1. {"winsock", "listen", "iocp", "recv"} = {"winsock", "listen", "iocp"} \cup {"recv"}
    OBVIOUS
  <2> QED BY <1>4, <2>1, FS_AddElement
<1>6. Cardinality({"winsock", "listen", "iocp", "recv", "send"}) = 5
  <2>1. {"winsock", "listen", "iocp", "recv", "send"}
          = {"winsock", "listen", "iocp", "recv"} \cup {"send"}
    OBVIOUS
  <2> QED BY <1>5, <2>1, FS_AddElement
<1> QED BY <1>1, <1>2, <1>3, <1>4, <1>5, <1>6, ResourcesAre DEF Prefixes

LEMMA InitIInv == Init => IInv
<1> SUFFICES ASSUME Init PROVE IInv
  OBVIOUS
<1>1. \A q \in Queues : cq[q] = <<>> /\ made[q] = 0 /\ handled[q] = 0 /\ Busy(q) = {}
  BY WorkersAssumption DEF Init, Busy, Threads
<1>2. <<>> \in Seq(Nat) /\ Len(<<>>) = 0 /\ \A m \in Nat : <<>> \in Seq(1 .. m)
  BY EmptySeq
<1>3. MaxCompletions \in [Queues -> Nat] /\ "recv" \in Queues /\ Batch \in Nat
  BY WorkersAssumption DEF Queues
<1>4. TypeOK
  <2>1. batch \in [WorkerThreads -> Seq(Nat)] /\ cq \in [Queues -> Seq(Nat)]
        /\ on \in [WorkerThreads -> Queues] /\ full \in [WorkerThreads -> BOOLEAN]
        /\ made \in [Queues -> Nat] /\ handled \in [Queues -> Nat]
    BY <1>2, <1>3 DEF Init
  <2>2. \A w \in WorkerThreads : batch[w] = <<>> /\ on[w] = "recv"
    BY DEF Init
  <2>0. \A q \in Queues : MaxCompletions[q] \in Nat /\ <<>> \in Seq(1 .. MaxCompletions[q])
    BY <1>2, <1>3
  <2>6. Len(<<>>) <= Batch /\ 0 \in 0 .. 0 /\ \A q \in Queues : 0 \in 0 .. MaxCompletions[q]
    BY <1>2, <1>3, <2>0
  <2>3. \A w \in WorkerThreads : batch[w] \in Seq(1 .. MaxCompletions[on[w]]) /\ Len(batch[w]) <= Batch
    BY <1>3, <2>0, <2>2, <2>6, Zenon
  <2>4. \A q \in Queues : /\ cq[q] \in Seq(1 .. MaxCompletions[q])
                          /\ made[q] \in 0 .. MaxCompletions[q] /\ handled[q] \in 0 .. made[q]
    BY <1>1, <2>0, <2>6, Zenon
  <2>5. iocp \in Seq(Queues \cup {"shutdown"}) /\ pc \in [Threads -> Places]
    BY DEF Init, Places
  <2> QED BY <2>1, <2>3, <2>4, <2>5 DEF Init, TypeOK, Places
<1>5. Phases
  BY <1>1, "accept" \in Threads DEF Init, Phases, Prefixes, BeforeStart, AcceptJoined, TickJoined, AllJoined, Threads
<1>6. Once(iocp) /\ \A k : ~Occurs(k, iocp)
  BY <1>2 DEF Init, Once, Occurs
<1>7. OneToken
  BY <1>1, <1>6 DEF OneToken, TokenOf, Init, BeforeStart
<1>8. InHandWhileHandling
  BY WorkersAssumption DEF Init, InHandWhileHandling, Threads
<1>9. Numbered
  <2>1. Run(0, 0) = <<>>
    BY RunEmpty
  <2> QED BY <1>1, <1>2, <2>1 DEF Numbered, NumberedIn, Taken
<1> QED BY <1>4, <1>5, <1>7, <1>8, <1>9 DEF IInv

(* A step that leaves the workers and the queues alone keeps the tokens    *)
(* and the numbers.                                                        *)
LEMMA QueuesAlone ==
  ASSUME IInv, UNCHANGED <<worker, queues>>, \A w \in WorkerThreads : pc'[w] = pc[w],
         main' \notin BeforeStart => main \notin BeforeStart
  PROVE  OneToken' /\ InHandWhileHandling' /\ Numbered'
<1>1. \A q \in Queues : Busy(q)' = Busy(q)
  BY DEF Busy, worker
<1> USE DEF worker, queues
<1>2. OneToken'
  BY <1>1, Parts DEF OneToken, TokenOf
<1>3. InHandWhileHandling'
  BY Parts DEF InHandWhileHandling
<1>4. Numbered'
  BY <1>1, Parts DEF Numbered, NumberedIn, Taken
<1> QED BY <1>2, <1>3, <1>4

(* A step of the accept thread or of the tick.                             *)
LEMMA OthersStep ==
  ASSUME IInv, NEW t \in {"accept", "tick"}, NEW where \in Places \ {"none"},
         pc[t] \notin {"none", "gone"}, Goto(t, where), UNCHANGED Others
  PROVE  IInv'
<1>1. /\ t \in Threads \ WorkerThreads /\ pc' = [pc EXCEPT ![t] = where]
      /\ pc \in [Threads -> Places] /\ pc' \in [Threads -> Places]
  BY Parts DEF Goto
<1>2. pc'[t] = where /\ \A u \in Threads : u # t => pc'[u] = pc[u]
  BY <1>1
<1>3. UNCHANGED <<main, running, opened, worker, queues>>
  BY DEF Others
<1>4. OneToken' /\ InHandWhileHandling' /\ Numbered'
  BY <1>1, <1>2, <1>3, Parts, QueuesAlone
<1>5. TypeOK'
  BY <1>1, <1>3, Parts DEF TypeOK, Places, worker, queues
<1>6. Phases'
  <2>1. Phases
    BY Parts
  <2>2. main \notin BeforeStart
    BY <1>1, <2>1 DEF Phases
  <2> QED
    BY <1>1, <1>2, <1>3, <2>1, <2>2, Parts DEF Phases, queues, AcceptJoined, TickJoined, AllJoined
<1> QED BY <1>4, <1>5, <1>6 DEF IInv

LEMMA AcceptAndTick ==
  ASSUME IInv, AcceptEx \/ AcceptEnds \/ OnAccepted \/ BackgroundTickLoop
  PROVE  IInv'
<1>1. \E t \in {"accept", "tick"}, where \in Places \ {"none"} :
        pc[t] \notin {"none", "gone"} /\ Goto(t, where) /\ UNCHANGED Others
  <2>1. CASE AcceptEx
    BY <2>1 DEF AcceptEx, Places
  <2>2. CASE AcceptEnds
    BY <2>2 DEF AcceptEnds, Places
  <2>3. CASE OnAccepted
    BY <2>3 DEF OnAccepted, Places
  <2>4. CASE BackgroundTickLoop
    BY <2>4 DEF BackgroundTickLoop, Places
  <2> QED BY <2>1, <2>2, <2>3, <2>4
<1> QED BY <1>1, OthersStep

(* A step of Stop on the main thread, that touches neither threads nor     *)
(* queues.                                                                 *)
LEMMA StopStep ==
  ASSUME IInv, Stop \/ CloseListenSocket \/ JoinAccept \/ JoinTick \/ JoinWorkers \/ Close
  PROVE  IInv'
<1> USE DEF Phase, Join
<1>1. UNCHANGED <<pc, worker, queues>> /\ main' \notin BeforeStart /\ main \notin BeforeStart
  BY DEF Stop, CloseListenSocket, JoinAccept, JoinTick, JoinWorkers, Close, BeforeStart
<1>2. OneToken' /\ InHandWhileHandling' /\ Numbered'
  BY <1>1, Parts, QueuesAlone
<1>3. running' \in BOOLEAN /\ opened' \subseteq opened /\ TypeOK'
  BY <1>1, Parts DEF TypeOK, Places, worker, queues,
     Stop, CloseListenSocket, JoinAccept, JoinTick, JoinWorkers, Close
<1>4. Phases'
  <2>1. Phases /\ "iocp" # "listen" /\ Queues = {"recv", "send"}
    BY Parts DEF Queues
  <2> USE <1>1, <2>1 DEF Phases, queues, BeforeStart, AcceptJoined, TickJoined, AllJoined
  <2>2. CASE Stop
    BY <2>2 DEF Stop
  <2>3. CASE CloseListenSocket
    BY <2>3 DEF CloseListenSocket
  <2>4. CASE JoinAccept
    BY <2>4 DEF JoinAccept
  <2>5. CASE JoinTick
    BY <2>5 DEF JoinTick
  <2>6. CASE JoinWorkers
    BY <2>6 DEF JoinWorkers
  <2>7. CASE Close
    BY <2>7 DEF Close
  <2> QED BY <2>2, <2>3, <2>4, <2>5, <2>6, <2>7
<1> QED BY <1>2, <1>3, <1>4 DEF IInv

LEMMA OpenIInv ==
  ASSUME IInv, Open
  PROVE  IInv'
<1> DEFINE next == Resources[Cardinality(opened) + 1]
<1>0. /\ main = "start" /\ Cardinality(opened) < Len(Resources)
      /\ \/ /\ opened' = opened \cup {next}
            /\ armed' = IF next = "send" THEN Queues ELSE armed
            /\ UNCHANGED main
         \/ main' = "failed" /\ UNCHANGED <<opened, armed>>
      /\ UNCHANGED <<running, pc, worker, cq, iocp, made, handled>>
  BY DEF Open
<1>1. Phases /\ opened \in Prefixes /\ armed = IF "send" \in opened THEN Queues ELSE {}
  BY <1>0, Parts DEF Phases
<1>2. /\ opened \cup {next} \in Prefixes /\ "send" \notin opened
      /\ "send" \in opened \cup {next} <=> next = "send"
  BY <1>0, <1>1, PrefixSizes, ResourcesAre
<1>3. \A o \in Prefixes : o \subseteq { Resources[i] : i \in DOMAIN Resources }
  BY PrefixSizes, ResourcesAre
<1> HIDE DEF next
<1>4. TypeOK'
  BY <1>0, <1>2, <1>3, Parts DEF TypeOK, worker
<1>5. Phases'
  BY <1>0, <1>1, <1>2 DEF Phases, BeforeStart, AcceptJoined, TickJoined, AllJoined
<1>6. \A q \in Queues : Busy(q)' = Busy(q) /\ Busy(q) = {} /\ cq[q] = <<>>
  BY <1>0, <1>1, Parts DEF Busy, worker, Phases, BeforeStart
<1>7. OneToken'
  <2>1. \A k : ~Occurs(k, iocp)
    BY <1>0, <1>1 DEF Phases, BeforeStart, Occurs
  <2>2. main' \in BeforeStart
    BY <1>0 DEF BeforeStart
  <2> QED BY <1>0, <1>6, <2>1, <2>2, Parts DEF OneToken, TokenOf
<1>8. InHandWhileHandling' /\ Numbered'
  BY <1>0, <1>6, Parts DEF InHandWhileHandling, Numbered, NumberedIn, Taken, worker
<1> QED BY <1>4, <1>5, <1>7, <1>8 DEF IInv

LEMMA StartIInv ==
  ASSUME IInv, Start
  PROVE  IInv'
<1>0. /\ main = "start" /\ Cardinality(opened) = Len(Resources)
      /\ running' = TRUE /\ main' = "serving"
      /\ pc' = [t \in Threads |-> "waiting"]
      /\ UNCHANGED <<opened, worker, queues>>
  BY DEF Start
<1>1. Phases /\ opened \in Prefixes /\ armed = IF "send" \in opened THEN Queues ELSE {}
  BY <1>0, Parts DEF Phases
<1>2. opened = {"winsock", "listen", "iocp", "recv", "send"} /\ armed = Queues
  <2>1. Cardinality(opened) = 5
    BY <1>0, ResourcesAre
  <2>2. opened = {"winsock", "listen", "iocp", "recv", "send"}
    BY <1>1, <2>1, PrefixSizes
  <2> QED BY <1>1, <2>2
<1>3. /\ \A t \in Threads : pc[t] = "none" /\ pc'[t] = "waiting"
      /\ iocp = <<>> /\ \A q \in Queues : cq[q] = <<>>
  BY <1>0, <1>1 DEF Phases, BeforeStart
<1>4. TypeOK'
  BY <1>0, Parts DEF TypeOK, worker, queues, Places
<1>5. Phases'
  BY <1>0, <1>2, <1>3
     DEF Phases, BeforeStart, AcceptJoined, TickJoined, AllJoined, Queues
<1>6. \A q \in Queues : Busy(q)' = {} /\ Busy(q) = {}
  BY <1>3, Parts DEF Busy
<1>7. \A k : ~Occurs(k, iocp)
  BY <1>3 DEF Occurs
<1>8. OneToken'
  BY <1>0, <1>2, <1>3, <1>6, <1>7, Parts DEF OneToken, TokenOf, queues
<1>9. InHandWhileHandling' /\ Numbered'
  BY <1>0, <1>3, <1>6, Parts DEF InHandWhileHandling, Numbered, NumberedIn, Taken, worker, queues
<1> QED BY <1>4, <1>5, <1>8, <1>9 DEF IInv

LEMMA PostShutdownIInv ==
  ASSUME IInv, PostShutdown
  PROVE  IInv'
<1>0. /\ main = "post shutdown" /\ main' = "join workers"
      /\ iocp' = iocp \o [i \in 1 .. Cardinality(WorkerThreads) |-> "shutdown"]
      /\ UNCHANGED <<running, opened, pc, worker, cq, armed, made, handled>>
  BY DEF PostShutdown, Phase
<1>1. Cardinality(WorkerThreads) \in Nat
  BY WorkersAssumption, FS_CardinalityType
<1>2. iocp' \in Seq(Keys) /\ Once(iocp') /\ \A q \in Queues : Occurs(q, iocp') <=> Occurs(q, iocp)
  BY <1>0, <1>1, Parts, OccursShutdown
<1>3. TypeOK'
  BY <1>0, <1>2, Parts DEF TypeOK, worker, Keys
<1>4. Phases'
  BY <1>0, Parts DEF Phases, BeforeStart, AcceptJoined, TickJoined, AllJoined
<1>5. \A q \in Queues : Busy(q)' = Busy(q)
  BY <1>0 DEF Busy, worker
<1>6. OneToken'
  <2>1. main \notin BeforeStart
    BY <1>0 DEF BeforeStart
  <2>2. ASSUME NEW q \in Queues PROVE TokenOf(q)'
    <3>1. TokenOf(q) /\ (Occurs(q, iocp') <=> Occurs(q, iocp)) /\ Busy(q)' = Busy(q)
      BY <1>2, <1>5, Parts
    <3>2. UNCHANGED <<cq, armed>>
      BY <1>0
    <3> QED BY <2>1, <3>1, <3>2 DEF TokenOf
  <2> QED BY <1>2, <2>2 DEF OneToken
<1>7. InHandWhileHandling' /\ Numbered'
  BY <1>0, <1>5, Parts DEF InHandWhileHandling, Numbered, NumberedIn, Taken, worker
<1> QED BY <1>3, <1>4, <1>6, <1>7 DEF IInv

LEMMA GetKeyIInv ==
  ASSUME IInv, NEW w \in WorkerThreads, GetKey(w)
  PROVE  IInv'
<1>k. PICK k : k = Head(iocp)
  OBVIOUS
<1>0. /\ pc[w] = "waiting" /\ iocp # <<>> /\ iocp' = Tail(iocp)
      /\ IF k = "shutdown" THEN Goto(w, "gone") /\ UNCHANGED worker
         ELSE Goto(w, "draining") /\ on' = [on EXCEPT ![w] = k] /\ UNCHANGED <<batch, full>>
      /\ UNCHANGED <<main, running, opened, cq, armed, made, handled>>
  BY <1>k DEF GetKey
<1>1. /\ iocp' \in Seq(Keys) /\ Once(iocp') /\ k \in Keys /\ Occurs(k, iocp)
      /\ \A q \in Queues : Occurs(q, iocp') <=> Occurs(q, iocp) /\ q # k
  BY <1>0, <1>k, Parts, OccursTail
<1>2. /\ pc' = [pc EXCEPT ![w] = IF k = "shutdown" THEN "gone" ELSE "draining"]
      /\ on' \in [WorkerThreads -> Queues] /\ (k # "shutdown" => k \in Queues /\ on'[w] = k)
      /\ \A x \in WorkerThreads : x # w => on'[x] = on[x]
  BY <1>0, <1>1, Parts DEF Goto, TypeOK, worker, Keys
<1>3. /\ pc' \in [Threads -> Places] /\ \A t \in Threads : t # w => pc'[t] = pc[t]
      /\ pc'[w] = IF k = "shutdown" THEN "gone" ELSE "draining"
  BY <1>2, Parts DEF Places
<1>4. main \notin BeforeStart /\ batch[w] = <<>>
  BY <1>0, Parts DEF Phases, InHandWhileHandling
<1>5. batch' = batch /\ full' = full
  BY <1>0 DEF worker
<1>6. TypeOK'
  <2>1. ASSUME NEW x \in WorkerThreads
        PROVE  batch'[x] \in Seq(1 .. MaxCompletions[on'[x]]) /\ Len(batch'[x]) <= Batch
    <3>1. CASE x = w
      <4>1. MaxCompletions[on'[x]] \in Nat
        BY <1>2, WorkersAssumption DEF Queues
      <4>2. Len(batch'[x]) <= Batch
        BY <1>5, Parts DEF TypeOK
      <4> QED BY <1>4, <1>5, <3>1, <4>1, <4>2, EmptySeq
    <3>2. CASE x # w
      BY <1>2, <1>5, <3>2, Parts DEF TypeOK
    <3> QED BY <3>1, <3>2
  <2> QED BY <1>0, <1>1, <1>2, <1>3, <1>5, <2>1, Parts DEF TypeOK, Keys, Places
<1>7. Phases'
  BY <1>0, <1>3, <1>4, Parts DEF Phases, BeforeStart, AcceptJoined, TickJoined, AllJoined
<1>8. /\ \A q \in Queues \ {k} : Busy(q)' = Busy(q)
      /\ k \in Queues => Busy(k) = {} /\ Busy(k)' = {w} /\ k \notin armed
  <2>1. \A q \in Queues \ {k} : Busy(q)' = Busy(q)
    BY <1>0, <1>2, <1>3, Parts DEF Busy
  <2>2. ASSUME k \in Queues PROVE Busy(k) = {} /\ Busy(k)' = {w} /\ k \notin armed
    <3>1. Busy(k) = {} /\ k \notin armed
      BY <1>1, <2>2, Parts DEF TokenOf
    <3>2. k # "shutdown"
      BY <2>2 DEF Queues
    <3>3. on'[w] = k /\ pc'[w] = "draining"
      BY <1>2, <1>3, <3>2
    <3>4. w \in Busy(k)'
      BY <3>3 DEF Busy
    <3>5. ASSUME NEW x \in Busy(k)', x # w PROVE FALSE
      <4>1. pc'[x] = pc[x] /\ on'[x] = on[x] /\ x \in WorkerThreads
        BY <1>2, <1>3, <3>5, Parts DEF Busy
      <4>2. x \in Busy(k)
        BY <3>5, <4>1 DEF Busy
      <4> QED BY <3>1, <4>2
    <3> QED BY <3>1, <3>4, <3>5
  <2> QED BY <2>1, <2>2
<1>9. OneToken'
  <2>1. ASSUME NEW q \in Queues PROVE TokenOf(q)'
    <3>1. CASE q # k
      <4>1. TokenOf(q) /\ (Occurs(q, iocp') <=> Occurs(q, iocp)) /\ Busy(q)' = Busy(q)
        BY <1>1, <1>8, <3>1, Parts
      <4>2. UNCHANGED <<cq, armed, main>>
        BY <1>0
      <4> QED BY <4>1, <4>2 DEF TokenOf
    <3>2. CASE q = k
      BY <1>0, <1>1, <1>8, <3>2 DEF TokenOf
    <3> QED BY <3>1, <3>2
  <2> QED BY <1>1, <2>1 DEF OneToken
<1>10. InHandWhileHandling'
  BY <1>3, <1>4, <1>5, Parts DEF InHandWhileHandling
<1>11. Numbered'
  <2>1. ASSUME NEW q \in Queues PROVE NumberedIn(q)'
    <3>0. NumberedIn(q) /\ UNCHANGED <<cq, made, handled>> /\ Taken(q)' = Taken(q)
      BY <1>0, Parts DEF Taken
    <3>1. CASE q # k
      BY <1>5, <1>8, <3>0, <3>1 DEF NumberedIn
    <3>2. CASE q = k
      <4>1. Taken(q) = handled[q] /\ handled[q] \in Nat
        BY <1>8, <3>0, <3>2, Parts DEF NumberedIn, TypeOK
      <4>2. Run(handled[q], Taken(q)) = <<>>
        BY <4>1, RunEmpty
      <4>3. \A x \in Busy(q)' : batch'[x] = Run(handled[q], Taken(q))
        BY <1>4, <1>5, <1>8, <3>2, <4>2
      <4> QED BY <3>0, <4>1, <4>3 DEF NumberedIn
    <3> QED BY <3>1, <3>2
  <2> QED BY <2>1 DEF Numbered
<1> QED BY <1>6, <1>7, <1>9, <1>10, <1>11 DEF IInv

(* What a worker that drains a queue can rely on.                          *)
LEMMA TheBusyOne ==
  ASSUME IInv, NEW w \in WorkerThreads, pc[w] \in {"draining", "handling", "arming"}, NEW q, q = on[w]
  PROVE  /\ q \in Queues /\ Busy(q) = {w} /\ q \notin armed /\ ~Occurs(q, iocp)
         /\ main \notin BeforeStart
         /\ made[q] \in Nat /\ handled[q] \in Nat /\ MaxCompletions[q] \in Nat
         /\ made[q] <= MaxCompletions[q] /\ Taken(q) \in Nat /\ Len(cq[q]) = made[q] - Taken(q)
         /\ handled[q] <= Taken(q) /\ Taken(q) <= made[q]
         /\ cq[q] = Run(Taken(q), made[q]) /\ cq[q] \in Seq(Nat)
         /\ batch[w] = Run(handled[q], Taken(q))
         /\ \A x \in Queues \ {q} : w \notin Busy(x)
<1>1. q \in Queues /\ w \in Busy(q) /\ \A x \in Queues \ {q} : w \notin Busy(x)
  BY Parts DEF TypeOK, Busy
<1>2. TokenOf(q) /\ NumberedIn(q)
  BY <1>1, Parts
<1>3. Busy(q) = {w} /\ q \notin armed /\ ~Occurs(q, iocp)
  BY <1>1, <1>2 DEF TokenOf
<1>4. main \notin BeforeStart
  BY Parts DEF Phases
<1>5. /\ made[q] \in Nat /\ handled[q] \in Nat /\ MaxCompletions[q] \in Nat
      /\ made[q] <= MaxCompletions[q] /\ cq[q] \in Seq(Nat) /\ Len(cq[q]) \in Nat
  <2>1. MaxCompletions \in [Queues -> Nat]
    BY WorkersAssumption DEF Queues
  <2>2. made[q] \in Nat /\ handled[q] \in Nat /\ MaxCompletions[q] \in Nat /\ cq[q] \in Seq(Nat)
    BY <1>1, <2>1, Parts DEF TypeOK
  <2>3. made[q] \in 0 .. MaxCompletions[q]
    BY <1>1, Parts DEF TypeOK
  <2>4. Len(cq[q]) \in Nat
    BY <2>2, LenProperties
  <2> QED BY <2>2, <2>3, <2>4
<1>6. /\ Taken(q) \in handled[q] .. made[q] /\ cq[q] = Run(Taken(q), made[q])
      /\ batch[w] = Run(handled[q], Taken(q))
  BY <1>1, <1>2 DEF NumberedIn
<1>7. Taken(q) = made[q] - Len(cq[q])
  BY DEF Taken
<1> QED BY <1>1, <1>3, <1>4, <1>5, <1>6, <1>7

(* A queue that a step leaves alone keeps its token and its numbers.       *)
LEMMA QueueAlone ==
  ASSUME IInv, NEW q \in Queues, main' = main, Busy(q)' = Busy(q),
         Occurs(q, iocp') <=> Occurs(q, iocp), q \in armed' <=> q \in armed,
         cq'[q] = cq[q], made'[q] = made[q], handled'[q] = handled[q],
         \A w \in Busy(q) : batch'[w] = batch[w]
  PROVE  TokenOf(q)' /\ NumberedIn(q)'
<1>1. TokenOf(q) /\ NumberedIn(q)
  BY Parts
<1>2. Taken(q)' = Taken(q)
  BY DEF Taken
<1>3. TokenOf(q)'
  BY <1>1 DEF TokenOf
<1>4. NumberedIn(q)'
  BY <1>1, <1>2 DEF NumberedIn
<1> QED BY <1>3, <1>4

(* A worker goes from one part of its loop to another: Phases does not     *)
(* mind.                                                                   *)
LEMMA WorkerGoes ==
  ASSUME IInv, NEW w \in WorkerThreads, NEW where \in Places \ {"none"},
         pc[w] \in {"draining", "handling", "arming"}, Goto(w, where),
         UNCHANGED <<main, running, opened>>
  PROVE  /\ Phases' /\ pc' \in [Threads -> Places] /\ pc'[w] = where
         /\ \A t \in Threads : t # w => pc'[t] = pc[t]
<1>1. /\ pc' \in [Threads -> Places] /\ pc'[w] = where
      /\ \A t \in Threads : t # w => pc'[t] = pc[t]
  BY Parts DEF Goto
<1>2. main \notin BeforeStart /\ main \notin AllJoined
  BY Parts DEF Phases
<1> QED BY <1>1, <1>2, Parts DEF Phases, BeforeStart, AcceptJoined, TickJoined, AllJoined

LEMMA DequeueIInv ==
  ASSUME IInv, NEW w \in WorkerThreads, Dequeue(w)
  PROVE  IInv'
<1>q. PICK q : q = on[w]
  OBVIOUS
<1>n. PICK n : n = IF Len(cq[q]) < Batch THEN Len(cq[q]) ELSE Batch
  OBVIOUS
<1>0. /\ pc[w] = "draining"
      /\ batch' = [batch EXCEPT ![w] = SubSeq(cq[q], 1, n)]
      /\ cq' = [cq EXCEPT ![q] = SubSeq(cq[q], n + 1, Len(cq[q]))]
      /\ full' = [full EXCEPT ![w] = (n = Batch)]
      /\ Goto(w, IF n = 0 THEN "arming" ELSE "handling")
      /\ UNCHANGED <<main, running, opened, on, armed, iocp, made, handled>>
  BY <1>q, <1>n DEF Dequeue
<1>h. PICK h : h = handled[q]
  OBVIOUS
<1>t. PICK t : t = Taken(q)
  OBVIOUS
<1>m. PICK m : m = made[q]
  OBVIOUS
<1>1. /\ q \in Queues /\ Busy(q) = {w} /\ q \notin armed /\ ~Occurs(q, iocp)
      /\ h \in Nat /\ t \in Nat /\ m \in Nat /\ h <= t /\ t <= m /\ m <= MaxCompletions[q]
      /\ MaxCompletions[q] \in Nat /\ Len(cq[q]) = m - t /\ cq[q] = Run(t, m)
      /\ batch[w] = Run(h, t) /\ \A x \in Queues \ {q} : w \notin Busy(x)
  BY <1>0, <1>q, <1>h, <1>t, <1>m, TheBusyOne
<1>2. h = t
  <2>1. batch[w] = <<>>
    BY <1>0, Parts DEF InHandWhileHandling
  <2> QED BY <1>1, <2>1, RunEmpty
<1>3. n \in 0 .. m - t /\ n <= Batch /\ n \in Nat
  BY <1>n, <1>1, WorkersAssumption
<1>4. SubSeq(cq[q], 1, n) = Run(t, t + n) /\ SubSeq(cq[q], n + 1, Len(cq[q])) = Run(t + n, m)
  <2>1. /\ SubSeq(Run(t, m), 1, n) = Run(t, t + n)
        /\ SubSeq(Run(t, m), n + 1, Len(Run(t, m))) = Run(t + n, m)
    BY <1>1, <1>3, RunSplit
  <2>2. cq[q] = Run(t, m)
    BY <1>1
  <2> QED BY <2>1, <2>2, Zenon
<1>5. /\ Run(t, t + n) \in Seq(Nat) /\ Len(Run(t, t + n)) = n /\ Run(t, t + n) \in Seq(1 .. MaxCompletions[q])
      /\ Run(t + n, m) \in Seq(Nat) /\ Len(Run(t + n, m)) = m - (t + n)
      /\ Run(t + n, m) \in Seq(1 .. MaxCompletions[q])
      /\ (Run(t, t + n) = <<>> <=> n = 0)
  <2>1. t + n \in Nat /\ t <= t + n /\ t + n <= m /\ t + n <= MaxCompletions[q]
    BY <1>1, <1>3
  <2>2. IsRun(Run(t, t + n), t, t + n) /\ IsRun(Run(t + n, m), t + n, m)
    BY <1>1, <2>1, RunIsRun
  <2>3. /\ Run(t, t + n) \in Seq(1 .. MaxCompletions[q])
        /\ Run(t + n, m) \in Seq(1 .. MaxCompletions[q])
    BY <1>1, <2>1, RunBounded
  <2>4. Run(t, t + n) = <<>> <=> t = t + n
    BY <1>1, <2>1, RunEmpty
  <2> QED BY <1>1, <1>3, <2>2, <2>3, <2>4 DEF IsRun
<1>6. /\ batch' \in [WorkerThreads -> Seq(Nat)] /\ batch'[w] = Run(t, t + n)
      /\ \A x \in WorkerThreads : x # w => batch'[x] = batch[x]
      /\ cq' \in [Queues -> Seq(Nat)] /\ cq'[q] = Run(t + n, m)
      /\ \A x \in Queues : x # q => cq'[x] = cq[x]
      /\ full' \in [WorkerThreads -> BOOLEAN]
  BY <1>0, <1>1, <1>4, <1>5, Parts DEF TypeOK
<1>7. Phases' /\ pc' \in [Threads -> Places] /\ pc'[w] = (IF n = 0 THEN "arming" ELSE "handling")
      /\ \A x \in Threads : x # w => pc'[x] = pc[x]
  BY <1>0, WorkerGoes DEF Places
<1>8. TypeOK'
  <2>1. ASSUME NEW x \in WorkerThreads
        PROVE  batch'[x] \in Seq(1 .. MaxCompletions[on'[x]]) /\ Len(batch'[x]) <= Batch
    BY <1>q, <1>0, <1>3, <1>5, <1>6, Parts DEF TypeOK
  <2>2. ASSUME NEW x \in Queues PROVE cq'[x] \in Seq(1 .. MaxCompletions[x])
    BY <1>5, <1>6, Parts DEF TypeOK
  <2> QED BY <1>0, <1>6, <1>7, <2>1, <2>2, Parts DEF TypeOK, Places
<1>9. \A x \in Queues : Busy(x)' = Busy(x)
  BY <1>0, <1>7, Parts DEF Busy
<1>10. ASSUME NEW x \in Queues PROVE TokenOf(x)' /\ NumberedIn(x)'
  <2>1. CASE x # q
    <3>1. \A v \in Busy(x) : batch'[v] = batch[v]
      BY <1>1, <1>6, <2>1 DEF Busy
    <3> QED BY <1>0, <1>6, <1>9, <2>1, <3>1, QueueAlone
  <2>2. TokenOf(q)'
    <3>1. Busy(q)' = {w} /\ q \notin armed' /\ ~Occurs(q, iocp')
      BY <1>0, <1>1, <1>9
    <3> QED BY <3>1 DEF TokenOf
  <2>3. NumberedIn(q)'
    <3>1. made'[q] = m /\ cq'[q] = Run(t + n, m) /\ Len(cq'[q]) = m - (t + n)
      BY <1>0, <1>5, <1>6, <1>m
    <3>2. Taken(q)' = t + n
      BY <1>1, <1>3, <3>1 DEF Taken
    <3>3. handled'[q] = t /\ t + n \in t .. m
      BY <1>0, <1>1, <1>2, <1>3, <1>h
    <3>4. Busy(q)' = {w} /\ batch'[w] = Run(t, t + n)
      BY <1>1, <1>6, <1>9
    <3> QED BY <3>1, <3>2, <3>3, <3>4 DEF NumberedIn
  <2> QED BY <2>1, <2>2, <2>3
<1>11. InHandWhileHandling'
  BY <1>5, <1>6, <1>7, Parts DEF InHandWhileHandling
<1>12. Once(iocp')
  BY <1>0, Parts
<1> QED BY <1>7, <1>8, <1>10, <1>11, <1>12 DEF IInv, OneToken, Numbered

LEMMA HandleIInv ==
  ASSUME IInv, NEW w \in WorkerThreads, Handle(w)
  PROVE  IInv'
<1>q. PICK q : q = on[w]
  OBVIOUS
<1>0. /\ pc[w] = "handling"
      /\ handled' = [handled EXCEPT ![q] = handled[q] + 1]
      /\ batch' = [batch EXCEPT ![w] = Tail(batch[w])]
      /\ CASE Len(batch[w]) > 1 -> UNCHANGED pc
           [] Len(batch[w]) = 1 /\ full[w] -> Goto(w, "draining")
           [] OTHER -> Goto(w, "arming")
      /\ UNCHANGED <<main, running, opened, on, full, cq, armed, iocp, made>>
  BY <1>q DEF Handle
<1>h. PICK h : h = handled[q]
  OBVIOUS
<1>t. PICK t : t = Taken(q)
  OBVIOUS
<1>m. PICK m : m = made[q]
  OBVIOUS
<1>1. /\ q \in Queues /\ Busy(q) = {w} /\ q \notin armed /\ ~Occurs(q, iocp)
      /\ h \in Nat /\ t \in Nat /\ m \in Nat /\ h <= t /\ t <= m /\ m <= MaxCompletions[q]
      /\ MaxCompletions[q] \in Nat /\ Len(cq[q]) = m - t /\ cq[q] = Run(t, m)
      /\ batch[w] = Run(h, t) /\ \A x \in Queues \ {q} : w \notin Busy(x)
  BY <1>0, <1>q, <1>h, <1>t, <1>m, TheBusyOne
<1>2. h < t
  <2>1. batch[w] # <<>>
    BY <1>0, Parts DEF InHandWhileHandling
  <2> QED BY <1>1, <2>1, RunEmpty
<1>3. /\ Tail(batch[w]) = Run(h + 1, t) /\ Len(batch[w]) = t - h
      /\ Run(h + 1, t) \in Seq(Nat) /\ Len(Run(h + 1, t)) = t - (h + 1)
      /\ Run(h + 1, t) \in Seq(1 .. MaxCompletions[q])
      /\ (Run(h + 1, t) = <<>> <=> h + 1 = t)
  <2>1. h + 1 \in Nat /\ h + 1 <= t /\ t <= MaxCompletions[q]
    BY <1>1, <1>2
  <2>2. IsRun(Run(h, t), h, t) /\ IsRun(Run(h + 1, t), h + 1, t)
    BY <1>1, <2>1, RunIsRun
  <2>3. Tail(Run(h, t)) = Run(h + 1, t)
    BY <1>1, <1>2, RunTail
  <2>4. Run(h + 1, t) \in Seq(1 .. MaxCompletions[q])
    BY <1>1, <2>1, RunBounded
  <2>5. Run(h + 1, t) = <<>> <=> h + 1 = t
    BY <1>1, <2>1, RunEmpty
  <2>6. Len(Run(h, t)) = t - h /\ Run(h + 1, t) \in Seq(Nat) /\ Len(Run(h + 1, t)) = t - (h + 1)
    BY <2>2 DEF IsRun
  <2>7. batch[w] = Run(h, t)
    BY <1>1
  <2> QED BY <2>3, <2>4, <2>5, <2>6, <2>7
<1>4. /\ batch' \in [WorkerThreads -> Seq(Nat)] /\ batch'[w] = Run(h + 1, t)
      /\ \A x \in WorkerThreads : x # w => batch'[x] = batch[x]
      /\ handled' \in [Queues -> Nat] /\ handled'[q] = h + 1
      /\ \A x \in Queues : x # q => handled'[x] = handled[x]
  <2>1. handled \in [Queues -> Nat] /\ batch \in [WorkerThreads -> Seq(Nat)]
    BY Parts DEF TypeOK
  <2>2. handled' = [handled EXCEPT ![q] = h + 1] /\ h + 1 \in Nat
    BY <1>0, <1>1, <1>h
  <2>3. batch' = [batch EXCEPT ![w] = Run(h + 1, t)]
    BY <1>0, <1>3
  <2> QED BY <1>1, <1>3, <2>1, <2>2, <2>3
<1>5. /\ Phases' /\ pc' \in [Threads -> Places] /\ \A x \in Threads : x # w => pc'[x] = pc[x]
      /\ pc'[w] \in {"draining", "handling", "arming"} /\ (pc'[w] = "handling" <=> h + 1 < t)
  <2>1. CASE h + 1 < t
    <3>1. UNCHANGED pc
      BY <1>0, <1>1, <1>3, <2>1
    <3> QED BY <1>0, <2>1, <3>1, Parts DEF Phases
  <2>2. CASE ~(h + 1 < t)
    <3>1. Goto(w, "draining") \/ Goto(w, "arming")
      BY <1>0, <1>1, <1>3, <2>2
    <3>2. CASE Goto(w, "draining")
      BY <1>0, <2>2, <3>2, WorkerGoes DEF Places
    <3>3. CASE Goto(w, "arming")
      BY <1>0, <2>2, <3>3, WorkerGoes DEF Places
    <3> QED BY <3>1, <3>2, <3>3
  <2> QED BY <2>1, <2>2
<1>6. TypeOK'
  <2>1. ASSUME NEW x \in WorkerThreads
        PROVE  batch'[x] \in Seq(1 .. MaxCompletions[on'[x]]) /\ Len(batch'[x]) <= Batch
    <3>1. CASE x = w
      <4>1. Len(batch[w]) <= Batch /\ Batch \in Nat
        BY Parts, WorkersAssumption DEF TypeOK
      <4>2. t - (h + 1) <= Batch
        BY <1>1, <1>3, <4>1
      <4> QED BY <1>q, <1>0, <1>3, <1>4, <3>1, <4>2
    <3>2. CASE x # w
      BY <1>0, <1>4, <3>2, Parts DEF TypeOK
    <3> QED BY <3>1, <3>2
  <2>2. ASSUME NEW x \in Queues PROVE handled'[x] \in 0 .. made'[x]
    <3>1. made'[x] = made[x]
      BY <1>0
    <3>2. CASE x = q
      <4>1. handled'[x] = h + 1 /\ made'[x] = m
        BY <1>4, <1>m, <3>1, <3>2
      <4>2. h + 1 \in 0 .. m
        BY <1>1, <1>2
      <4> QED BY <4>1, <4>2
    <3>3. CASE x # q
      BY <1>4, <3>1, <3>3, Parts DEF TypeOK
    <3> QED BY <3>2, <3>3
  <2> QED BY <1>0, <1>4, <1>5, <2>1, <2>2, Parts DEF TypeOK, Places
<1>7. \A x \in Queues : Busy(x)' = Busy(x)
  BY <1>0, <1>5, Parts DEF Busy
<1>8. ASSUME NEW x \in Queues PROVE TokenOf(x)' /\ NumberedIn(x)'
  <2>1. CASE x # q
    <3>1. \A v \in Busy(x) : batch'[v] = batch[v]
      BY <1>1, <1>4, <2>1 DEF Busy
    <3> QED BY <1>0, <1>4, <1>7, <2>1, <3>1, QueueAlone
  <2>2. TokenOf(q)'
    <3>1. Busy(q)' = {w} /\ q \notin armed' /\ ~Occurs(q, iocp')
      BY <1>0, <1>1, <1>7
    <3> QED BY <3>1 DEF TokenOf
  <2>3. NumberedIn(q)'
    <3>1. made'[q] = m /\ cq'[q] = Run(t, m) /\ Len(cq'[q]) = m - t
      BY <1>0, <1>1, <1>m
    <3>2. Taken(q)' = t
      BY <1>1, <3>1 DEF Taken
    <3>3. handled'[q] = h + 1 /\ t \in h + 1 .. m
      BY <1>1, <1>2, <1>4
    <3>4. Busy(q)' = {w} /\ batch'[w] = Run(h + 1, t)
      BY <1>1, <1>4, <1>7
    <3> QED BY <3>1, <3>2, <3>3, <3>4 DEF NumberedIn
  <2> QED BY <2>1, <2>2, <2>3
<1>9. InHandWhileHandling'
  <2>1. batch'[w] # <<>> <=> pc'[w] = "handling"
    BY <1>1, <1>2, <1>3, <1>4, <1>5
  <2> QED BY <1>4, <1>5, <2>1, Parts DEF InHandWhileHandling
<1>10. Once(iocp')
  BY <1>0, Parts
<1> QED BY <1>5, <1>6, <1>8, <1>9, <1>10 DEF IInv, OneToken, Numbered

LEMMA ArmIInv ==
  ASSUME IInv, NEW w \in WorkerThreads, Arm(w)
  PROVE  IInv'
<1>q. PICK q : q = on[w]
  OBVIOUS
<1>0. /\ pc[w] = "arming" /\ Goto(w, "waiting")
      /\ IF cq[q] = <<>> THEN armed' = armed \cup {q} /\ UNCHANGED iocp
                         ELSE iocp' = Append(iocp, q) /\ UNCHANGED armed
      /\ UNCHANGED <<main, running, opened, worker, cq, made, handled>>
  BY <1>q DEF Arm, RIONotify
<1>1. /\ q \in Queues /\ Busy(q) = {w} /\ q \notin armed /\ ~Occurs(q, iocp)
      /\ handled[q] \in Nat /\ Taken(q) \in Nat /\ handled[q] <= Taken(q)
      /\ batch[w] = Run(handled[q], Taken(q)) /\ \A x \in Queues \ {q} : w \notin Busy(x)
  BY <1>0, <1>q, TheBusyOne
<1>2. handled[q] = Taken(q)
  <2>1. batch[w] = <<>>
    BY <1>0, Parts DEF InHandWhileHandling
  <2> QED BY <1>1, <2>1, RunEmpty
<1>3. Phases' /\ pc' \in [Threads -> Places] /\ pc'[w] = "waiting"
      /\ \A x \in Threads : x # w => pc'[x] = pc[x]
  BY <1>0, WorkerGoes DEF Places
<1>4. /\ iocp' \in Seq(Keys) /\ Once(iocp') /\ armed' \subseteq Queues
      /\ \A x \in Queues : x # q => (Occurs(x, iocp') <=> Occurs(x, iocp))
      /\ \A x \in Queues : x # q => (x \in armed' <=> x \in armed)
      /\ IF cq[q] = <<>> THEN q \in armed' /\ ~Occurs(q, iocp')
                         ELSE q \notin armed' /\ Occurs(q, iocp')
  <2>0. \A x \in Queues : x \in Keys
    BY DEF Keys
  <2>1. CASE cq[q] = <<>>
    BY <1>0, <1>1, <2>1, Parts DEF TypeOK
  <2>2. CASE cq[q] # <<>>
    <3>1. iocp' = Append(iocp, q) /\ armed' = armed
      BY <1>0, <2>2
    <3>2. /\ iocp' \in Seq(Keys) /\ Once(iocp')
          /\ \A x \in Keys : Occurs(x, iocp') <=> Occurs(x, iocp) \/ x = q
      BY <1>1, <3>1, Parts, OccursAppend
    <3> QED BY <1>1, <2>0, <2>2, <3>1, <3>2, Parts DEF TypeOK
  <2> QED BY <2>1, <2>2
<1>5. TypeOK'
  BY <1>0, <1>3, <1>4, Parts DEF TypeOK, Places, Keys, worker
<1>6. Busy(q)' = {} /\ \A x \in Queues : x # q => Busy(x)' = Busy(x)
  <2>1. ASSUME NEW v \in Busy(q)' PROVE FALSE
    <3>1. v \in WorkerThreads /\ v # w
      BY <1>3, <2>1 DEF Busy
    <3>2. v \in Busy(q)
      BY <1>0, <1>3, <2>1, <3>1, Parts DEF Busy, worker
    <3> QED BY <1>1, <3>1, <3>2
  <2>2. ASSUME NEW x \in Queues, x # q PROVE Busy(x)' = Busy(x)
    <3>1. on' = on /\ on[w] # x
      BY <1>0, <1>q, <2>2 DEF worker
    <3> QED BY <1>3, <3>1, Parts DEF Busy
  <2> QED BY <2>1, <2>2
<1>7. ASSUME NEW x \in Queues PROVE TokenOf(x)' /\ NumberedIn(x)'
  <2>1. CASE x # q
    <3>1. UNCHANGED <<main, cq, made, handled, batch>>
      BY <1>0 DEF worker
    <3>2. /\ Busy(x)' = Busy(x) /\ (Occurs(x, iocp') <=> Occurs(x, iocp))
          /\ (x \in armed' <=> x \in armed)
      BY <1>4, <1>6, <2>1
    <3> QED BY <3>1, <3>2, QueueAlone
  <2>2. TokenOf(q)'
    BY <1>0, <1>4, <1>6 DEF TokenOf
  <2>3. NumberedIn(q)'
    <3>1. NumberedIn(q) /\ Taken(q)' = Taken(q) /\ UNCHANGED <<cq, made, handled>>
      BY <1>0, <1>1, Parts DEF Taken
    <3> QED BY <1>2, <1>6, <3>1 DEF NumberedIn
  <2> QED BY <2>1, <2>2, <2>3
<1>8. InHandWhileHandling'
  BY <1>0, <1>3, Parts DEF InHandWhileHandling, worker
<1> QED BY <1>3, <1>4, <1>5, <1>7, <1>8 DEF IInv, OneToken, Numbered

LEMMA CompleteIInv ==
  ASSUME IInv, NEW q \in Queues, Complete(q)
  PROVE  IInv'
<1>m. PICK m : m = made[q]
  OBVIOUS
<1>t. PICK t : t = Taken(q)
  OBVIOUS
<1>0. /\ pc["accept"] # "none" /\ m < MaxCompletions[q]
      /\ made' = [made EXCEPT ![q] = m + 1]
      /\ cq' = [cq EXCEPT ![q] = Append(cq[q], m + 1)]
      /\ IF q \in armed THEN armed' = armed \ {q} /\ iocp' = Append(iocp, q)
                        ELSE UNCHANGED <<armed, iocp>>
      /\ UNCHANGED <<main, running, opened, pc, worker, handled>>
  BY <1>m DEF Complete
<1>1. /\ TokenOf(q) /\ NumberedIn(q) /\ MaxCompletions[q] \in Nat
      /\ m \in Nat /\ t \in Nat /\ handled[q] \in Nat /\ t \in handled[q] .. m
      /\ cq[q] = Run(t, m) /\ main \notin BeforeStart
  <2>1. TokenOf(q) /\ NumberedIn(q) /\ made[q] \in Nat /\ handled[q] \in Nat
    BY Parts DEF TypeOK
  <2>2. MaxCompletions[q] \in Nat
    BY WorkersAssumption DEF Queues
  <2>3. t \in handled[q] .. m /\ cq[q] = Run(t, m) /\ m \in Nat
    BY <1>m, <1>t, <2>1 DEF NumberedIn
  <2>4. t \in Nat
    BY <2>1, <2>3
  <2>5. main \notin BeforeStart
    BY <1>0, Parts DEF Phases
  <2> QED BY <2>1, <2>2, <2>3, <2>4, <2>5
<1>2. /\ Append(cq[q], m + 1) = Run(t, m + 1) /\ Run(t, m + 1) \in Seq(Nat)
      /\ Len(Run(t, m + 1)) = (m + 1) - t /\ Run(t, m + 1) \in Seq(1 .. MaxCompletions[q])
  <2>1. m + 1 \in Nat /\ t <= m /\ t <= m + 1 /\ m + 1 <= MaxCompletions[q]
    BY <1>0, <1>1
  <2>2. Append(Run(t, m), m + 1) = Run(t, m + 1)
    BY <1>1, <2>1, RunAppend
  <2>3. Run(t, m + 1) \in Seq(1 .. MaxCompletions[q])
    BY <1>1, <2>1, RunBounded
  <2>4. Append(cq[q], m + 1) = Run(t, m + 1)
    BY <1>1, <2>2, Zenon
  <2>5. Run(t, m + 1) \in Seq(Nat) /\ Len(Run(t, m + 1)) = (m + 1) - t
    BY <1>1, <2>1, RunIsRun DEF IsRun
  <2> QED BY <2>3, <2>4, <2>5
<1>3. /\ made' \in [Queues -> Nat] /\ made'[q] = m + 1 /\ \A x \in Queues : x # q => made'[x] = made[x]
      /\ cq' \in [Queues -> Seq(Nat)] /\ cq'[q] = Run(t, m + 1)
      /\ \A x \in Queues : x # q => cq'[x] = cq[x]
  <2>1. made \in [Queues -> Nat] /\ cq \in [Queues -> Seq(Nat)]
    BY Parts DEF TypeOK
  <2>2. made' = [made EXCEPT ![q] = m + 1] /\ m + 1 \in Nat
    BY <1>0, <1>1
  <2>3. cq' = [cq EXCEPT ![q] = Run(t, m + 1)] /\ Run(t, m + 1) \in Seq(Nat)
    BY <1>0, <1>2
  <2> QED BY <2>1, <2>2, <2>3
<1>4. /\ iocp' \in Seq(Keys) /\ Once(iocp') /\ armed' \subseteq Queues /\ q \notin armed'
      /\ \A x \in Queues : x # q => (Occurs(x, iocp') <=> Occurs(x, iocp))
      /\ \A x \in Queues : x # q => (x \in armed' <=> x \in armed)
      /\ Occurs(q, iocp') <=> Occurs(q, iocp) \/ q \in armed
  <2>0. \A x \in Queues : x \in Keys
    BY DEF Keys
  <2>1. CASE q \notin armed
    BY <1>0, <2>1, Parts DEF TypeOK
  <2>2. CASE q \in armed
    <3>1. iocp' = Append(iocp, q) /\ armed' = armed \ {q} /\ ~Occurs(q, iocp)
      BY <1>0, <1>1, <2>2 DEF TokenOf
    <3>2. /\ iocp' \in Seq(Keys) /\ Once(iocp')
          /\ \A x \in Keys : Occurs(x, iocp') <=> Occurs(x, iocp) \/ x = q
      BY <3>1, Parts, OccursAppend
    <3> QED BY <2>0, <2>2, <3>1, <3>2, Parts DEF TypeOK
  <2> QED BY <2>1, <2>2
<1>5. TypeOK'
  <2>1. ASSUME NEW x \in Queues
        PROVE  /\ cq'[x] \in Seq(1 .. MaxCompletions[x])
               /\ made'[x] \in 0 .. MaxCompletions[x] /\ handled'[x] \in 0 .. made'[x]
    <3>1. CASE x = q
      <4>1. m + 1 \in 0 .. MaxCompletions[q] /\ handled[q] \in 0 .. m + 1
        BY <1>0, <1>1
      <4>2. handled' = handled
        BY <1>0
      <4> QED BY <1>2, <1>3, <3>1, <4>1, <4>2
    <3>2. CASE x # q
      <4>1. handled' = handled
        BY <1>0
      <4> QED BY <1>3, <3>2, <4>1, Parts DEF TypeOK
    <3> QED BY <3>1, <3>2
  <2> QED BY <1>0, <1>3, <1>4, <2>1, Parts DEF TypeOK, Keys, worker
<1>6. Phases'
  BY <1>0, <1>1, Parts DEF Phases, BeforeStart
<1>7. \A x \in Queues : Busy(x)' = Busy(x)
  BY <1>0 DEF Busy, worker
<1>8. ASSUME NEW x \in Queues PROVE TokenOf(x)' /\ NumberedIn(x)'
  <2>1. CASE x # q
    <3>1. UNCHANGED <<main, handled, batch>> /\ cq'[x] = cq[x] /\ made'[x] = made[x]
      BY <1>0, <1>3, <2>1 DEF worker
    <3>2. /\ Busy(x)' = Busy(x) /\ (Occurs(x, iocp') <=> Occurs(x, iocp))
          /\ (x \in armed' <=> x \in armed)
      BY <1>4, <1>7, <2>1
    <3> QED BY <3>1, <3>2, QueueAlone
  <2>2. TokenOf(q)'
    <3>1. Busy(q)' = Busy(q) /\ main' = main
      BY <1>0, <1>7
    <3> QED BY <1>1, <1>4, <3>1 DEF TokenOf
  <2>3. NumberedIn(q)'
    <3>1. Taken(q)' = t
      BY <1>1, <1>2, <1>3 DEF Taken
    <3>2. batch' = batch /\ handled' = handled /\ Busy(q)' = Busy(q) /\ t \in handled[q] .. m + 1
      BY <1>0, <1>1, <1>7 DEF worker
    <3> QED BY <1>1, <1>3, <1>t, <3>1, <3>2 DEF NumberedIn
  <2> QED BY <2>1, <2>2, <2>3
<1>9. InHandWhileHandling'
  BY <1>0, Parts DEF InHandWhileHandling, worker
<1> QED BY <1>4, <1>5, <1>6, <1>8, <1>9 DEF IInv, OneToken, Numbered

LEMMA StepIInv == IInv /\ [Next]_vars => IInv'
<1> SUFFICES ASSUME IInv, [Next]_vars PROVE IInv'
  OBVIOUS
<1>1. CASE MainNext
  BY <1>1, OpenIInv, StartIInv, PostShutdownIInv, StopStep DEF MainNext
<1>2. ASSUME NEW w \in WorkerThreads, WorkerNext(w) PROVE IInv'
  BY <1>2, GetKeyIInv, DequeueIInv, HandleIInv, ArmIInv DEF WorkerNext
<1>3. ASSUME NEW q \in Queues, Complete(q) PROVE IInv'
  BY <1>3, CompleteIInv
<1>4. CASE AcceptEx \/ AcceptEnds \/ OnAccepted \/ BackgroundTickLoop
  BY <1>4, AcceptAndTick
<1>5. CASE UNCHANGED vars
  <2>1. /\ UNCHANGED <<main, running, opened, pc>> /\ UNCHANGED <<worker, queues>>
    BY <1>5 DEF vars, worker, queues
  <2>2. OneToken' /\ InHandWhileHandling' /\ Numbered'
    BY <2>1, QueuesAlone
  <2>3. TypeOK' /\ Phases'
    BY <2>1, Parts DEF TypeOK, Phases, worker, queues
  <2> QED BY <2>2, <2>3 DEF IInv
<1> QED BY <1>1, <1>2, <1>3, <1>4, <1>5 DEF Next

LEMMA IInvImplies ==
  ASSUME IInv
  PROVE  HandledInOrder /\ QueuesOutliveUsers /\ WakeupNotLost
<1>1. ASSUME NEW q \in Queues
      PROVE  /\ Cardinality(Busy(q)) <= 1
             /\ InHand(q) \o cq[q] = [i \in 1 .. made[q] - handled[q] |-> handled[q] + i]
  <2>1. TokenOf(q) /\ NumberedIn(q) /\ made[q] \in Nat /\ handled[q] \in Nat
    BY Parts DEF TypeOK
  <2>2. /\ Taken(q) \in Nat /\ handled[q] <= Taken(q) /\ Taken(q) <= made[q]
        /\ cq[q] = Run(Taken(q), made[q])
    BY <2>1 DEF NumberedIn
  <2>3. Run(handled[q], Taken(q)) \o Run(Taken(q), made[q]) = Run(handled[q], made[q])
    BY <2>1, <2>2, RunConcat
  <2>4. InHand(q) = Run(handled[q], Taken(q))
    <3>1. CASE Busy(q) = {}
      BY <2>1, <2>2, <3>1, RunEmpty DEF InHand, NumberedIn
    <3>2. CASE Busy(q) # {}
      <4>1. (CHOOSE w \in Busy(q) : TRUE) \in Busy(q)
        BY <3>2
      <4> QED BY <2>1, <3>2, <4>1 DEF InHand, NumberedIn
    <3> QED BY <3>1, <3>2
  <2>5. Cardinality(Busy(q)) <= 1
    <3>1. CASE Busy(q) = {}
      <4>1. Cardinality({}) = 0
        BY FS_EmptySet
      <4> QED BY <3>1, <4>1
    <3>2. CASE Busy(q) # {}
      <4>1. PICK w : w \in Busy(q)
        BY <3>2
      <4>2. Busy(q) = {w}
        BY <2>1, <4>1 DEF TokenOf
      <4>3. Cardinality({w}) = 1
        BY FS_Singleton
      <4> QED BY <4>2, <4>3
    <3> QED BY <3>1, <3>2
  <2>6. InHand(q) \o cq[q] = Run(handled[q], made[q])
    BY <2>2, <2>3, <2>4
  <2> QED BY <2>5, <2>6 DEF Run
<1>2. ASSUME NEW t \in Threads, pc[t] \notin {"none", "gone"}
      PROVE  Queues \cup {"iocp"} \subseteq opened
  <2>1. main \notin BeforeStart
    BY <1>2, Parts DEF Phases
  <2>2. main # "stopped"
    BY <1>2, Parts DEF Phases, AllJoined, AcceptJoined, TickJoined, Threads
  <2> QED BY <2>1, <2>2, Parts DEF Phases
<1>3. ASSUME NEW q \in Queues, cq[q] # <<>>
      PROVE  (\E i \in DOMAIN iocp : iocp[i] = q) \/ Busy(q) # {}
  <2>1. TokenOf(q) /\ main \notin BeforeStart
    BY <1>3, Parts DEF Phases
  <2> QED BY <1>3, <2>1 DEF TokenOf, Occurs
<1> QED BY <1>1, <1>2, <1>3 DEF HandledInOrder, QueuesOutliveUsers, WakeupNotLost

-----------------------------------------------------------------------------
(* The state stays in its type, for any number of workers and batch size:  *)
(* in particular no worker is handed more than results[] holds.            *)
THEOREM WorkersTypeCorrect == Spec => []TypeOK
<1>1. IInv => TypeOK
  BY DEF IInv
<1> QED BY <1>1, InitIInv, StepIInv, PTL DEF Spec

(* Each queue is drained by one worker at a time, its completions handled  *)
(* once each and in order (WorkerLoop, RIONotify).                         *)
THEOREM OneWorkerPerQueue == Spec => []HandledInOrder
<1>1. IInv => HandledInOrder
  BY IInvImplies
<1> QED BY <1>1, InitIInv, StepIInv, PTL DEF Spec

(* The port and the queues are open as long as a thread uses them (Start,  *)
(* Stop).                                                                  *)
THEOREM ClosedAfterUse == Spec => []QueuesOutliveUsers
<1>1. IInv => QueuesOutliveUsers
  BY IInvImplies
<1> QED BY <1>1, InitIInv, StepIInv, PTL DEF Spec

(* A completion in a queue has its key in the port or a worker at work on  *)
(* the queue: the notification that RIO gives once is never lost between   *)
(* the last dequeue and RIONotify (WorkerLoop).                            *)
THEOREM NoLostWakeup == Spec => []WakeupNotLost
<1>1. IInv => WakeupNotLost
  BY IInvImplies
<1> QED BY <1>1, InitIInv, StepIInv, PTL DEF Spec
=============================================================================
