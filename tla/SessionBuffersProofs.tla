------------------------ MODULE SessionBuffersProofs ------------------------
(***************************************************************************)
(* The two buffers of a session are kept right, for every capacity, prefix *)
(* size, set of body and packet lengths, and length of the streams.  First *)
(* what RingBuffer's operators keep, then the receive side, then the send  *)
(* side; each of the two is about a Capacity of its own.                   *)
(***************************************************************************)
EXTENDS RecvPath, SendPath, TLAPS

LEMMA CapacityNat == Capacity \in Nat /\ Capacity >= 1
  BY CapacityAssumption

(* Compacting keeps the buffer's bytes and puts them at the start. *)
LEMMA CompactKeeps ==
  ASSUME NEW b \in Buffer, NEW first \in Nat, Holds(b, first)
  PROVE  /\ Compact(b) \in Buffer
         /\ Compact(b).rd = 0
         /\ DataSize(Compact(b)) = DataSize(b)
         /\ Holds(Compact(b), first)
<1> USE CapacityNat DEF Buffer, Offsets, DataSize, Holds
<1>1. CASE b.rd = 0
  BY <1>1 DEF Compact
<1>2. CASE b.rd # 0
  <2> DEFINE m == [i \in Offsets |-> IF i < DataSize(b) THEN b.mem[i + b.rd] ELSE b.mem[i]]
  <2>1. Compact(b) = [mem |-> m, rd |-> 0, wr |-> DataSize(b)]
    BY <1>2 DEF Compact
  <2>2. m \in [Offsets -> Nat]
    <3> SUFFICES ASSUME NEW i \in Offsets
                 PROVE  (IF i < DataSize(b) THEN b.mem[i + b.rd] ELSE b.mem[i]) \in Nat
      OBVIOUS
    <3> QED OBVIOUS
  <2>3. \A i \in 0 .. DataSize(b) - 1 : m[i] = first + i
    <3> SUFFICES ASSUME NEW i \in 0 .. DataSize(b) - 1
                 PROVE  m[i] = first + i
      OBVIOUS
    <3>1. i \in Offsets /\ i + b.rd \in b.rd .. b.wr - 1
      OBVIOUS
    <3>2. \A j \in b.rd .. b.wr - 1 : b.mem[j] = first + (j - b.rd)
      BY DEF Holds
    <3>3. b.mem[i + b.rd] = first + ((i + b.rd) - b.rd)
      BY <3>1, <3>2
    <3>4. (i + b.rd) - b.rd = i
      OBVIOUS
    <3> QED BY <3>1, <3>3, <3>4
  <2> HIDE DEF m
  <2> QED BY <2>1, <2>2, <2>3
<1> QED BY <1>1, <1>2

(* Reserving keeps the buffer's bytes, and fails only when the unread      *)
(* bytes and those asked for exceed the whole buffer.                      *)
LEMMA ReserveKeeps ==
  ASSUME NEW b \in Buffer, NEW first \in Nat, Holds(b, first),
         NEW needed \in Nat
  PROVE  /\ Reserve(b, needed) \in Buffer
         /\ DataSize(Reserve(b, needed)) = DataSize(b)
         /\ Holds(Reserve(b, needed), first)
         /\ CanReserve(b, needed) <=> DataSize(b) + needed <= Capacity
<1>1. /\ Compact(b) \in Buffer
      /\ Compact(b).rd = 0
      /\ DataSize(Compact(b)) = DataSize(b)
      /\ Holds(Compact(b), first)
  BY CompactKeeps
<1>2. TailFreeSize(Compact(b)) = Capacity - DataSize(b)
  BY <1>1, CapacityNat DEF TailFreeSize, DataSize, Buffer
<1>3. /\ DataSize(b) \in Nat /\ TailFreeSize(b) \in Nat
      /\ TailFreeSize(b) <= Capacity - DataSize(b)
  BY CapacityNat DEF DataSize, TailFreeSize, Buffer
<1>4. CanReserve(b, needed) <=> DataSize(b) + needed <= Capacity
  BY <1>2, <1>3, CapacityNat DEF Reserve, CanReserve
<1> QED
  BY <1>1, <1>4 DEF Reserve

(* Holds, from the buffer's fields. *)
LEMMA HoldsWhen ==
  ASSUME NEW b, NEW first, NEW m, NEW r, NEW w, b.mem = m, b.rd = r, b.wr = w,
         \A i \in r .. w - 1 : m[i] = first + (i - r)
  PROVE  Holds(b, first)
BY DEF Holds

(* Reading len of the unread bytes leaves those after them. *)
LEMMA OnReadKeeps ==
  ASSUME NEW b \in Buffer, NEW first \in Nat, Holds(b, first),
         NEW len \in Nat, len <= DataSize(b)
  PROVE  /\ OnRead(b, len) \in Buffer
         /\ DataSize(OnRead(b, len)) = DataSize(b) - len
         /\ Holds(OnRead(b, len), first + len)
<1> USE CapacityNat DEF Buffer, Offsets, DataSize, OnRead
<1>1. CASE b.rd + len = b.wr
  BY <1>1 DEF Holds
<1>2. CASE b.rd + len # b.wr
  <2>1. OnRead(b, len) = [mem |-> b.mem, rd |-> b.rd + len, wr |-> b.wr]
    BY <1>2
  <2>2. b.rd \in Nat /\ b.wr \in Nat
    OBVIOUS
  <2>3. ASSUME NEW i \in b.rd + len .. b.wr - 1
        PROVE  b.mem[i] = (first + len) + (i - (b.rd + len))
    <3>1. i \in b.rd .. b.wr - 1 /\ i \in Int
      BY <2>2
    <3>2. b.mem[i] = first + (i - b.rd)
      BY <3>1 DEF Holds
    <3>3. first + (i - b.rd) = (first + len) + (i - (b.rd + len))
      BY <2>2, <3>1
    <3> QED BY <3>2, <3>3
  <2>4. Holds(OnRead(b, len), first + len)
    <3> DEFINE c == OnRead(b, len)
    <3>1. c.mem = b.mem /\ c.rd = b.rd + len /\ c.wr = b.wr
      BY <2>1
    <3> HIDE DEF c
    <3>2. Holds(c, first + len)
      BY ONLY <2>3, <3>1, HoldsWhen
    <3> QED BY <3>2 DEF c
  <2>5. OnRead(b, len) \in Buffer /\ DataSize(OnRead(b, len)) = DataSize(b) - len
    BY <2>1, <2>2
  <2> QED BY <2>4, <2>5
<1> QED BY <1>1, <1>2

(* Bytes that fit the tail and continue the stream extend what is held. *)
LEMMA AppendKeeps ==
  ASSUME NEW b \in Buffer, NEW first \in Nat, Holds(b, first),
         NEW len \in Nat, b.wr + len <= Capacity
  PROVE  LET c == OnWrite(Store(b, b.wr, len, first + DataSize(b)), len)
         IN  /\ c \in Buffer
             /\ DataSize(c) = DataSize(b) + len
             /\ Holds(c, first)
<1> DEFINE m == Fill(b.mem, b.wr, len, first + DataSize(b))
           c == OnWrite(Store(b, b.wr, len, first + DataSize(b)), len)
<1> USE CapacityNat DEF Buffer, Offsets, DataSize
<1>1. c = [mem |-> m, rd |-> b.rd, wr |-> b.wr + len]
  BY DEF OnWrite, Store
<1>2. m \in [Offsets -> Nat]
  BY DEF Fill
<1>3. \A i \in b.rd .. b.wr + len - 1 : m[i] = first + (i - b.rd)
  <2> SUFFICES ASSUME NEW i \in b.rd .. b.wr + len - 1
               PROVE  m[i] = first + (i - b.rd)
    OBVIOUS
  <2>1. i \in Offsets
    OBVIOUS
  <2>2. CASE i < b.wr
    <3>1. b.mem[i] = first + (i - b.rd)
      BY <2>2 DEF Holds
    <3> QED BY <2>1, <2>2, <3>1 DEF Fill
  <2>3. CASE i >= b.wr
    BY <2>1, <2>3 DEF Fill
  <2> QED BY <2>2, <2>3
<1> HIDE DEF m
<1>4. c \in Buffer /\ DataSize(c) = DataSize(b) + len
  BY <1>1, <1>2
<1>5. Holds(c, first)
  <2>1. c.mem = m /\ c.rd = b.rd /\ c.wr = b.wr + len
    BY <1>1
  <2> HIDE DEF c
  <2> QED BY ONLY <1>3, <2>1, HoldsWhen
<1> QED BY <1>4, <1>5

-----------------------------------------------------------------------------
(***************************************************************************)
(* The receive side.  The inductive invariant adds to the checked          *)
(* properties that the loop leaves no oversize packet behind, that the     *)
(* kernel has delivered just what was consumed and what is held, and that  *)
(* the handlers have consumed whole packets of the peer's: with the bytes  *)
(* in order, what the parser reads as a prefix is then one.                *)
(***************************************************************************)

(* What the loop leaves behind when it breaks off: less than a prefix, or  *)
(* the beginning of a packet that fits the buffer.                         *)
Incomplete ==
  pc \in {"repost", "posted"} =>
    \/ ~HeaderIn
    \/ Total(announced) <= Capacity /\ DataSize(recvBuffer) < Total(announced)

RecvIInv ==
  /\ RecvTypeOK
  /\ BytesInOrder
  /\ arrived = consumed + DataSize(recvBuffer)
  /\ consumed = boundary
  /\ PostedRegionFree
  /\ Incomplete

LEMMA TotalNat == \A size \in Bodies : Total(size) \in Nat /\ HeaderSize \in Nat
  BY RecvAssumption, CapacityNat DEF Total

(* The prefix read is the peer's when its bytes are in order and the       *)
(* packets before it were consumed whole.                                  *)
LEMMA PrefixRead ==
  ASSUME RecvTypeOK, BytesInOrder, consumed = boundary, HeaderIn
  PROVE  SizesRead = {announced}
<1> USE CapacityNat, RecvAssumption DEF RecvTypeOK, Buffer
<1>1. ASSUME NEW k \in 0 .. HeaderSize - 1
      PROVE  recvBuffer.mem[recvBuffer.rd + k] = boundary + k
  <2>1. recvBuffer.rd + k \in recvBuffer.rd .. recvBuffer.wr - 1
    BY DEF HeaderIn, DataSize
  <2>2. (recvBuffer.rd + k) - recvBuffer.rd = k
    OBVIOUS
  <2> QED BY <2>1, <2>2 DEF BytesInOrder, Holds
<1> QED BY <1>1 DEF SizesRead, AtBoundary

LEMMA RecvInitIInv == RecvInit => RecvIInv
<1> SUFFICES ASSUME RecvInit PROVE RecvIInv
  OBVIOUS
<1> USE CapacityNat, RecvAssumption, TotalNat DEF RecvInit
<1>1. EmptyBuffer \in Buffer
  BY DEF EmptyBuffer, Buffer, Offsets
<1>2. RecvTypeOK
  BY <1>1 DEF RecvTypeOK
<1>3. BytesInOrder /\ arrived = consumed + DataSize(recvBuffer) /\ Incomplete
  BY DEF BytesInOrder, Holds, EmptyBuffer, DataSize, Incomplete, HeaderIn
<1>4. consumed = boundary /\ PostedRegionFree
  BY DEF PostedRegionFree, EmptyBuffer
<1> QED BY <1>2, <1>3, <1>4 DEF RecvIInv

LEMMA RecvStepIInv == RecvIInv /\ [RecvNext]_recvVars => RecvIInv'
<1> SUFFICES ASSUME RecvIInv, [RecvNext]_recvVars PROVE RecvIInv'
  OBVIOUS
<1> USE CapacityNat, RecvAssumption
<1> USE DEF RecvIInv, RecvTypeOK
<1>1. ASSUME NEW n \in 1 .. Capacity, RecvData(n) PROVE RecvIInv'
  <2>1. recvOp.off = recvBuffer.wr /\ recvBuffer.wr + n <= Capacity /\ n \in Nat
    BY <1>1 DEF RecvData, PostedRegionFree, Buffer
  <2>2. arrived = consumed + DataSize(recvBuffer)
    OBVIOUS
  <2>3. recvBuffer' = OnWrite(Store(recvBuffer, recvBuffer.wr, n, consumed + DataSize(recvBuffer)), n)
    BY <1>1, <2>1, <2>2 DEF RecvData
  <2>4. /\ recvBuffer' \in Buffer
        /\ DataSize(recvBuffer') = DataSize(recvBuffer) + n
        /\ Holds(recvBuffer', consumed)
    BY <2>1, <2>3, AppendKeeps DEF BytesInOrder
  <2>5. DataSize(recvBuffer) \in Nat
    BY DEF DataSize, Buffer
  <2> QED
    BY <1>1, <2>1, <2>4, <2>5
    DEF RecvData, NoRecv, BytesInOrder, PostedRegionFree, Incomplete
<1>2. ASSUME Close PROVE RecvIInv'
  BY <1>2 DEF Close, NoRecv, BytesInOrder, PostedRegionFree, Incomplete
<1>3. ASSUME HandlePacket PROVE RecvIInv'
  <2>1. SizesRead = {announced}
    BY <1>3, PrefixRead DEF HandlePacket
  <2>2. /\ Total(announced) \in Nat /\ Total(announced) <= DataSize(recvBuffer)
        /\ recvBuffer' = OnRead(recvBuffer, Total(announced))
        /\ consumed' = consumed + Total(announced)
    BY <1>3, <2>1, TotalNat DEF HandlePacket, WholePacketIn
  <2>3. /\ recvBuffer' \in Buffer
        /\ DataSize(recvBuffer') = DataSize(recvBuffer) - Total(announced)
        /\ Holds(recvBuffer', consumed + Total(announced))
    BY <2>2, OnReadKeeps DEF BytesInOrder
  <2>4. DataSize(recvBuffer) \in Nat
    BY DEF DataSize, Buffer
  <2>5. boundary' = boundary + Total(announced) /\ boundary' \in Nat
    BY <1>3, TotalNat DEF HandlePacket, Total
  <2> QED
    BY <1>3, <2>2, <2>3, <2>4, <2>5
    DEF HandlePacket, BytesInOrder, PostedRegionFree, Incomplete
<1>4. ASSUME StopParsing PROVE RecvIInv'
  <2>1. HeaderIn => SizesRead = {announced}
    BY PrefixRead
  <2>2. Incomplete'
    BY <1>4, <2>1 DEF StopParsing, Waiting, HeaderIn, Incomplete
  <2> QED BY <1>4, <2>2 DEF StopParsing, Waiting, BytesInOrder, PostedRegionFree
<1>5. ASSUME PostRecv PROVE RecvIInv'
  <2>1. /\ recvBuffer' \in Buffer
        /\ DataSize(recvBuffer') = DataSize(recvBuffer)
        /\ Holds(recvBuffer', consumed)
    BY <1>5, ReserveKeeps DEF PostRecv, BytesInOrder
  <2>2. TailFreeSize(recvBuffer') >= 1
    BY <1>5 DEF PostRecv, CanReserve
  <2> QED
    BY <1>5, <2>1, <2>2
    DEF PostRecv, BytesInOrder, PostedRegionFree, Incomplete, HeaderIn,
        TailFreeSize, Buffer
<1>6. CASE UNCHANGED recvVars
  BY <1>6 DEF recvVars, BytesInOrder, PostedRegionFree, Incomplete, HeaderIn
<1> QED
  BY <1>1, <1>2, <1>3, <1>4, <1>5, <1>6
  DEF RecvNext, RecvFail, RejectOversize, RejectOrHandlerCloses, PostRecvFails

(* The packet handed over is the peer's next one, byte for byte. *)
LEMMA WholePacketRead ==
  ASSUME RecvIInv, HeaderIn, NEW size \in SizesRead, WholePacketIn(size)
  PROVE  /\ size = announced
         /\ DataSize(recvBuffer) >= HeaderSize + announced
         /\ \A i \in 0 .. HeaderSize + announced - 1 :
              recvBuffer.mem[recvBuffer.rd + i] = boundary + i
<1> USE CapacityNat, RecvAssumption DEF RecvIInv, RecvTypeOK, Buffer
<1>1. size = announced
  BY PrefixRead
<1>2. DataSize(recvBuffer) >= HeaderSize + announced
  BY <1>1 DEF WholePacketIn, Total
<1>3. ASSUME NEW i \in 0 .. HeaderSize + announced - 1
      PROVE  recvBuffer.mem[recvBuffer.rd + i] = boundary + i
  <2>1. recvBuffer.rd + i \in recvBuffer.rd .. recvBuffer.wr - 1
    BY <1>2 DEF DataSize
  <2>2. (recvBuffer.rd + i) - recvBuffer.rd = i
    OBVIOUS
  <2> QED BY <2>1, <2>2 DEF BytesInOrder, Holds
<1> QED BY <1>1, <1>2, <1>3

LEMMA RecvIInvImplies ==
  RecvIInv => RecvTypeOK /\ BytesInOrder /\ InSync /\ RoomForMore /\ PostedRegionFree /\ NoPacketLeftBehind
<1> SUFFICES ASSUME RecvIInv
             PROVE  InSync /\ RoomForMore /\ NoPacketLeftBehind
  BY DEF RecvIInv
<1>1. InSync
  BY WholePacketRead DEF InSync
<1> USE CapacityNat, RecvAssumption, TotalNat DEF RecvIInv, RecvTypeOK
<1>2. DataSize(recvBuffer) \in Nat
  BY DEF DataSize, Buffer
<1>3. ASSUME pc = "repost" PROVE CanReserve(recvBuffer, 1)
  <2>1. DataSize(recvBuffer) < Capacity
    BY <1>2, <1>3 DEF Incomplete, HeaderIn
  <2> QED BY <1>2, <2>1, ReserveKeeps DEF BytesInOrder
<1>4. ASSUME pc \in {"repost", "posted"}, HeaderIn, NEW size \in SizesRead
      PROVE  ~WholePacketIn(size)
  BY <1>2, <1>4, PrefixRead DEF Incomplete, WholePacketIn
<1> QED BY <1>1, <1>3, <1>4 DEF RoomForMore, NoPacketLeftBehind

(* The state stays in its type: in particular readPos_ <= writePos_ <=     *)
(* capacity_, so DataSize and TailFreeSize never underflow (RingBuffer.h). *)
THEOREM RecvTypeCorrect == RecvSpec => []RecvTypeOK
<1>1. RecvIInv => RecvTypeOK
  BY DEF RecvIInv
<1> QED BY <1>1, RecvInitIInv, RecvStepIInv, PTL DEF RecvSpec

(* What the buffer holds are the peer's bytes, in order (PostRecv,         *)
(* OnRecvCompletion).                                                      *)
THEOREM StreamIntact == RecvSpec => []BytesInOrder
<1>1. RecvIInv => BytesInOrder
  BY DEF RecvIInv
<1> QED BY <1>1, RecvInitIInv, RecvStepIInv, PTL DEF RecvSpec

(* A packet handed over is, byte for byte, the next one the peer sent: the *)
(* prefix read from the buffer is a prefix of the peer's stream, and what  *)
(* is consumed is that packet and no more (ProcessRecvBuffer).             *)
THEOREM ParserInSync == RecvSpec => []InSync
<1>1. RecvIInv => InSync
  BY RecvIInvImplies
<1> QED BY <1>1, RecvInitIInv, RecvStepIInv, PTL DEF RecvSpec

(* Waiting for the rest of a packet never runs out of buffer, and what is  *)
(* posted to the kernel is free space of the buffer (PostRecv).            *)
THEOREM AlwaysRoom == RecvSpec => [](RoomForMore /\ PostedRegionFree)
<1>1. RecvIInv => RoomForMore /\ PostedRegionFree
  BY RecvIInvImplies
<1> QED BY <1>1, RecvInitIInv, RecvStepIInv, PTL DEF RecvSpec

(* A packet that has arrived whole is handled before the session goes back *)
(* to waiting (ProcessRecvBuffer).                                         *)
THEOREM NothingLeftBehind == RecvSpec => []NoPacketLeftBehind
<1>1. RecvIInv => NoPacketLeftBehind
  BY RecvIInvImplies
<1> QED BY <1>1, RecvInitIInv, RecvStepIInv, PTL DEF RecvSpec

-----------------------------------------------------------------------------
(***************************************************************************)
(* The send side.  What is on the wire is not right: see WireInOrder.      *)
(***************************************************************************)

(* sendInProgress_ is set exactly while RIO has a send, which covers at    *)
(* least a byte, at most as many as the backlog, and only the allocation.  *)
OpInv ==
  /\ busy <=> sendOp.len > 0
  /\ sendOp.taken <= sendOp.len
  /\ sendOp.len <= DataSize(sendBuffer)
  /\ sendOp.off + sendOp.len <= Capacity

SendIInv == SendTypeOK /\ BacklogInOrder /\ OpInv /\ NothingStranded /\ OverflowOnlyWhenFull

LEMMA DataSizeNat == \A b \in Buffer : DataSize(b) \in 0 .. Capacity
  BY CapacityNat DEF DataSize, Buffer

LEMMA SendInitIInv == SendInit => SendIInv
<1> SUFFICES ASSUME SendInit PROVE SendIInv
  OBVIOUS
<1> USE CapacityNat DEF SendInit, NoSend, NoOverflow
<1>1. EmptyBuffer \in Buffer
  BY DEF EmptyBuffer, Buffer, Offsets
<1>2. DataSize(EmptyBuffer) = 0 /\ Holds(EmptyBuffer, 0)
  BY DEF EmptyBuffer, DataSize, Holds
<1>3. SendTypeOK
  <2>1. busy \in BOOLEAN /\ closing \in BOOLEAN
    OBVIOUS
  <2>2. /\ sendBuffer \in Buffer /\ wire \in Seq(Nat)
        /\ sendOp \in [off : 0 .. Capacity, len : 0 .. Capacity, taken : 0 .. Capacity]
        /\ overflow \in [backlog : Nat, need : Nat]
        /\ accepted \in Nat /\ acked \in Nat
    BY <1>1
  <2> QED BY <2>1, <2>2 DEF SendTypeOK
<1>4. OpInv
  <2>1. sendOp.len = 0 /\ sendOp.taken = 0 /\ sendOp.off = 0 /\ busy = FALSE
    OBVIOUS
  <2> QED BY <1>2, <2>1 DEF OpInv
<1>5. BacklogInOrder /\ NothingStranded /\ OverflowOnlyWhenFull
  BY <1>2 DEF BacklogInOrder, NothingStranded, OverflowOnlyWhenFull
<1> QED BY <1>3, <1>4, <1>5 DEF SendIInv

(* TryPostSend on a buffer b that the session will have, whatever was      *)
(* outstanding, leaves the session with a send or without a backlog.       *)
LEMMA TryPostSendKeeps ==
  ASSUME SendTypeOK, NEW b \in Buffer, NEW sending \in BOOLEAN,
         NEW cur \in [off : 0 .. Capacity, len : 0 .. Capacity, taken : 0 .. Capacity],
         sending <=> cur.len > 0,
         cur.taken <= cur.len, cur.len <= DataSize(b), cur.off + cur.len <= Capacity,
         TryPostSend(b, sending, cur)
  PROVE  /\ busy' \in BOOLEAN /\ closing' \in BOOLEAN
         /\ sendOp' \in [off : 0 .. Capacity, len : 0 .. Capacity, taken : 0 .. Capacity]
         /\ busy' <=> sendOp'.len > 0
         /\ sendOp'.taken <= sendOp'.len
         /\ sendOp'.len <= DataSize(b)
         /\ sendOp'.off + sendOp'.len <= Capacity
         /\ ~closing' /\ DataSize(b) > 0 => sendOp'.len > 0
<1> USE CapacityNat
<1>1. DataSize(b) \in 0 .. Capacity /\ b.rd \in 0 .. Capacity
  BY DataSizeNat DEF Buffer
<1>2. CASE /\ sending \/ DataSize(b) = 0
           /\ busy' = sending /\ sendOp' = cur /\ closing' = closing
  BY <1>1, <1>2 DEF SendTypeOK
<1>3. CASE /\ ~sending /\ DataSize(b) # 0 /\ ~closing
           /\ busy' = TRUE /\ sendOp' = Region(b) /\ closing' = FALSE
  <2>1. /\ sendOp' = [off |-> b.rd, len |-> DataSize(b), taken |-> 0]
        /\ b.rd + DataSize(b) <= Capacity
    BY <1>3 DEF Region, Buffer, DataSize
  <2>2. /\ sendOp'.len = DataSize(b) /\ sendOp'.taken = 0 /\ sendOp'.off = b.rd
        /\ sendOp' \in [off : 0 .. Capacity, len : 0 .. Capacity, taken : 0 .. Capacity]
    BY <1>1, <2>1
  <2>3. sendOp'.len > 0 /\ sendOp'.taken <= sendOp'.len /\ sendOp'.len <= DataSize(b)
        /\ sendOp'.off + sendOp'.len <= Capacity
    BY <1>1, <1>3, <2>1, <2>2
  <2>4. busy' \in BOOLEAN /\ busy' /\ closing' \in BOOLEAN /\ ~closing'
    BY <1>3
  <2> QED BY <2>2, <2>3, <2>4
<1>4. CASE /\ ~sending /\ DataSize(b) # 0
           /\ busy' = FALSE /\ sendOp' = cur /\ closing' = TRUE
  BY <1>1, <1>4
<1> QED BY <1>2, <1>3, <1>4 DEF TryPostSend

LEMMA EnqueueIInv ==
  ASSUME SendIInv, NEW len \in Lengths, EnqueueEcho(len)
  PROVE  SendIInv'
<1> USE CapacityNat DEF SendIInv, SendTypeOK
<1>0. len \in Nat
  BY SendAssumption
<1> DEFINE b == Reserve(sendBuffer, len)
<1>1. /\ b \in Buffer
      /\ DataSize(b) = DataSize(sendBuffer)
      /\ Holds(b, acked)
      /\ CanReserve(sendBuffer, len) <=> DataSize(sendBuffer) + len <= Capacity
  BY <1>0, ReserveKeeps DEF BacklogInOrder
<1> HIDE DEF b
<1>2. DataSize(sendBuffer) \in 0 .. Capacity
  BY DataSizeNat
<1>3. CASE EnqueueOverflow(len)
  <2>1. /\ sendBuffer' = b /\ closing' = TRUE
        /\ UNCHANGED <<busy, sendOp, accepted, acked, wire>>
        /\ overflow' = overflow \/ overflow' = [backlog |-> DataSize(sendBuffer), need |-> len]
        /\ DataSize(sendBuffer) + len > Capacity
    BY <1>0, <1>1, <1>2, <1>3 DEF EnqueueOverflow, b
  <2>2. overflow' \in [backlog : Nat, need : Nat] /\ OverflowOnlyWhenFull'
    BY <1>0, <1>2, <2>1 DEF OverflowOnlyWhenFull, NoOverflow
  <2> QED
    BY <1>1, <2>1, <2>2 DEF BacklogInOrder, OpInv, NothingStranded
<1>4. CASE EnqueueAppend(len)
  <2>1. /\ CanReserve(sendBuffer, len)
        /\ sendBuffer' = OnWrite(Store(b, b.wr, len, accepted), len)
        /\ accepted' = accepted + len
        /\ TryPostSend(sendBuffer', busy, sendOp)
        /\ UNCHANGED <<overflow, acked, wire>>
    BY <1>4 DEF EnqueueAppend, b
  <2>2. b.wr + len <= Capacity
    BY <1>0, <1>1, <2>1 DEF CanReserve, TailFreeSize, Buffer, b
  <2>3. accepted = acked + DataSize(b)
    BY <1>1 DEF BacklogInOrder
  <2>4. /\ sendBuffer' \in Buffer
        /\ DataSize(sendBuffer') = DataSize(b) + len
        /\ Holds(sendBuffer', acked)
    BY <1>0, <1>1, <2>1, <2>2, <2>3, AppendKeeps
  <2>5. sendOp.len <= DataSize(sendBuffer')
    BY <1>0, <1>1, <1>2, <2>4 DEF OpInv
  <2>6. /\ busy' \in BOOLEAN /\ closing' \in BOOLEAN
        /\ sendOp' \in [off : 0 .. Capacity, len : 0 .. Capacity, taken : 0 .. Capacity]
        /\ OpInv' /\ NothingStranded'
    BY <2>1, <2>4, <2>5, TryPostSendKeeps DEF OpInv, NothingStranded
  <2>7. BacklogInOrder' /\ accepted' \in Nat
    BY <1>0, <1>1, <1>2, <2>1, <2>3, <2>4 DEF BacklogInOrder
  <2> QED
    BY <2>1, <2>4, <2>6, <2>7 DEF OverflowOnlyWhenFull
<1> QED BY <1>3, <1>4 DEF EnqueueEcho

LEMMA SendStepIInv == SendIInv /\ [SendNext]_sendVars => SendIInv'
<1> SUFFICES ASSUME SendIInv, [SendNext]_sendVars PROVE SendIInv'
  OBVIOUS
<1> USE CapacityNat DEF SendIInv, SendTypeOK
<1>1. ASSUME NEW len \in Lengths, Send(len) \/ Echo(len) PROVE SendIInv'
  BY <1>1, EnqueueIInv DEF Send, Echo
<1>2. ASSUME Transmit PROVE SendIInv'
  <2>1. /\ sendOp.taken < sendOp.len
        /\ sendOp' = [off |-> sendOp.off, len |-> sendOp.len, taken |-> sendOp.taken + 1]
        /\ UNCHANGED <<sendBuffer, busy, closing, overflow, accepted, acked>>
    BY <1>2 DEF Transmit
  <2>2. wire' \in Seq(Nat)
    <3>1. sendOp.off + sendOp.taken \in Offsets
      BY <2>1 DEF OpInv, Offsets
    <3>2. sendBuffer.mem[sendOp.off + sendOp.taken] \in Nat
      BY <3>1 DEF Buffer
    <3> QED BY <1>2, <3>2 DEF Transmit
  <2>3. /\ sendOp' \in [off : 0 .. Capacity, len : 0 .. Capacity, taken : 0 .. Capacity]
        /\ sendOp'.len = sendOp.len /\ sendOp'.off = sendOp.off /\ sendOp'.taken <= sendOp'.len
    BY <2>1
  <2> QED
    BY <2>1, <2>2, <2>3 DEF BacklogInOrder, OpInv, NothingStranded, OverflowOnlyWhenFull
<1>3. ASSUME SendDone PROVE SendIInv'
  <2> DEFINE n == sendOp.taken
  <2>1. n \in Nat /\ n <= DataSize(sendBuffer)
    BY DataSizeNat DEF OpInv
  <2>2. /\ sendBuffer' \in Buffer
        /\ DataSize(sendBuffer') = DataSize(sendBuffer) - n
        /\ Holds(sendBuffer', acked + n)
    BY <1>3, <2>1, OnReadKeeps DEF SendDone, BacklogInOrder
  <2>3. acked' = acked + n /\ UNCHANGED <<overflow, accepted, wire>>
    BY <1>3 DEF SendDone
  <2>4. DataSize(sendBuffer) \in 0 .. Capacity /\ DataSize(sendBuffer') \in 0 .. Capacity
    BY <2>2, DataSizeNat
  <2>5. BacklogInOrder' /\ acked' \in Nat
    <3>1. acked \in Nat /\ accepted = acked + DataSize(sendBuffer)
      BY DEF BacklogInOrder
    <3>2. acked + n \in Nat /\ accepted = acked + n + (DataSize(sendBuffer) - n)
      BY <2>1, <2>4, <3>1
    <3>3. acked' \in Nat /\ accepted' = acked' + DataSize(sendBuffer')
      BY <2>2, <2>3, <3>2
    <3> QED BY <2>2, <2>3, <3>3 DEF BacklogInOrder
  <2>6. /\ NoSend \in [off : 0 .. Capacity, len : 0 .. Capacity, taken : 0 .. Capacity]
        /\ NoSend.len = 0 /\ NoSend.taken = 0 /\ NoSend.off = 0
    BY DEF NoSend
  <2>7. CASE closing
    <3>1. busy' = FALSE /\ sendOp' = NoSend /\ closing' = closing
      BY <1>3, <2>7 DEF SendDone
    <3>2. busy' \in BOOLEAN /\ ~busy' /\ closing' \in BOOLEAN /\ closing'
      BY <2>7, <3>1
    <3>3. ~(sendOp'.len > 0) /\ sendOp'.taken <= sendOp'.len /\ sendOp'.len <= DataSize(sendBuffer')
          /\ sendOp'.off + sendOp'.len <= Capacity
      BY <2>4, <2>6, <3>1
    <3>4. OpInv' /\ NothingStranded' /\ OverflowOnlyWhenFull'
      BY <2>3, <3>2, <3>3 DEF OpInv, NothingStranded, OverflowOnlyWhenFull
    <3> QED BY <2>2, <2>3, <2>5, <2>6, <3>1, <3>2, <3>4
  <2>8. CASE ~closing
    <3>1. TryPostSend(sendBuffer', FALSE, NoSend)
      BY <1>3, <2>8 DEF SendDone
    <3>2. /\ NoSend.len <= DataSize(sendBuffer') /\ NoSend.off + NoSend.len <= Capacity
          /\ NoSend.taken <= NoSend.len
          /\ FALSE <=> NoSend.len > 0
          /\ FALSE \in BOOLEAN
      BY <2>4, <2>6
    <3>3. /\ busy' \in BOOLEAN /\ closing' \in BOOLEAN
          /\ sendOp' \in [off : 0 .. Capacity, len : 0 .. Capacity, taken : 0 .. Capacity]
          /\ busy' <=> sendOp'.len > 0
          /\ sendOp'.taken <= sendOp'.len
          /\ sendOp'.len <= DataSize(sendBuffer')
          /\ sendOp'.off + sendOp'.len <= Capacity
          /\ ~closing' /\ DataSize(sendBuffer') > 0 => sendOp'.len > 0
      BY <2>2, <2>6, <3>1, <3>2, TryPostSendKeeps, Zenon
    <3> QED
      BY <2>2, <2>3, <2>5, <3>3 DEF OpInv, NothingStranded, OverflowOnlyWhenFull
  <2> QED BY <2>7, <2>8
<1>4. ASSUME SendFails PROVE SendIInv'
  <2>1. DataSize(sendBuffer) \in 0 .. Capacity
    BY DataSizeNat
  <2>2. /\ sendOp' \in [off : 0 .. Capacity, len : 0 .. Capacity, taken : 0 .. Capacity]
        /\ sendOp'.len = 0 /\ sendOp'.taken = 0 /\ sendOp'.off = 0
        /\ UNCHANGED <<sendBuffer, overflow, accepted, acked, wire>>
    BY <1>4 DEF SendFails, NoSend
  <2>3. busy' \in BOOLEAN /\ ~busy' /\ closing' \in BOOLEAN /\ closing'
    BY <1>4 DEF SendFails
  <2>4. OpInv'
    BY <2>1, <2>2, <2>3 DEF OpInv
  <2> QED
    BY <2>2, <2>3, <2>4 DEF BacklogInOrder, NothingStranded, OverflowOnlyWhenFull
<1>5. ASSUME CloseElsewhere PROVE SendIInv'
  BY <1>5
  DEF CloseElsewhere, BacklogInOrder, OpInv, NothingStranded, OverflowOnlyWhenFull
<1>6. CASE UNCHANGED sendVars
  BY <1>6 DEF sendVars, BacklogInOrder, OpInv, NothingStranded, OverflowOnlyWhenFull
<1> QED
  BY <1>1, <1>2, <1>3, <1>4, <1>5, <1>6 DEF SendNext

(* The state stays in its type, so readPos_, writePos_ and the region      *)
(* posted stay inside the allocation (RingBuffer.h, TryPostSend).          *)
THEOREM SendTypeCorrect == SendSpec => []SendTypeOK
<1>1. SendIInv => SendTypeOK
  BY DEF SendIInv
<1> QED BY <1>1, SendInitIInv, SendStepIInv, PTL DEF SendSpec

(* The backlog is the accepted stream after what was acknowledged          *)
(* (EnqueueEcho, OnSendCompletion).                                        *)
THEOREM BacklogIntact == SendSpec => []BacklogInOrder
<1>1. SendIInv => BacklogInOrder
  BY DEF SendIInv
<1> QED BY <1>1, SendInitIInv, SendStepIInv, PTL DEF SendSpec

(* A completion never consumes more than the backlog (OnSendCompletion).   *)
THEOREM NoUnderflow == SendSpec => []CompletionWithinBacklog
<1>1. SendIInv => CompletionWithinBacklog
  BY DEF SendIInv, OpInv, CompletionWithinBacklog
<1> QED BY <1>1, SendInitIInv, SendStepIInv, PTL DEF SendSpec

(* No backlog is left without a send under way (TryPostSend).              *)
THEOREM NoStall == SendSpec => []NothingStranded
<1>1. SendIInv => NothingStranded
  BY DEF SendIInv
<1> QED BY <1>1, SendInitIInv, SendStepIInv, PTL DEF SendSpec

(* A session is closed for overflow only when compacting the buffer would  *)
(* not have made room for the packet (EnqueueEcho).                        *)
THEOREM NoFalseOverflow == SendSpec => []OverflowOnlyWhenFull
<1>1. SendIInv => OverflowOnlyWhenFull
  BY DEF SendIInv
<1> QED BY <1>1, SendInitIInv, SendStepIInv, PTL DEF SendSpec
=============================================================================
