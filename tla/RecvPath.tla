------------------------------ MODULE RecvPath ------------------------------
(***************************************************************************)
(* One session's receive side: PostRecv, OnRecvCompletion and              *)
(* ProcessRecvBuffer (Network/Session.cpp).  The peer sends a stream of    *)
(* size-prefixed packets, cut by the network at any byte; at most one      *)
(* RIOReceive is outstanding; a completion appends its bytes, the whole    *)
(* packets in the buffer are handled one after the other, and the receive  *)
(* is posted again on what is left of the buffer.                          *)
(*                                                                         *)
(* What a handler does is not modelled here; that it may leave the         *)
(* connection closing is.                                                  *)
(***************************************************************************)
EXTENDS RingBuffer

CONSTANTS
  HeaderSize,   \* sizeof(uint32_t), the size prefix
  Bodies,       \* the body sizes a peer announces, any uint32_t
  MaxReceived   \* bound on the bytes a peer sends

ASSUME RecvAssumption ==
  /\ HeaderSize \in 1 .. Capacity
  /\ Bodies # {} /\ Bodies \subseteq Nat
  /\ MaxReceived \in Nat

VARIABLES
  recvBuffer,  \* recvBuffer_
  pc,          \* where the receive handler is, or that an operation is posted
  recvOp,      \* the RIO_BUF of the outstanding RIOReceive: offset and length
  announced,   \* the body size the peer put before the packet at boundary
  arrived,     \* stream bytes the kernel has delivered
  consumed,    \* stream bytes passed to OnRead
  boundary     \* where the peer's next unhandled packet starts in its stream

recvVars == <<recvBuffer, pc, recvOp, announced, arrived, consumed, boundary>>

NoRecv == [off |-> 0, len |-> 0]

RecvTypeOK ==
  /\ recvBuffer \in Buffer
  /\ pc \in {"posted", "parse", "repost", "closed"}
  /\ recvOp \in [off : 0 .. Capacity, len : 0 .. Capacity]
  /\ announced \in Bodies
  /\ arrived \in Nat /\ consumed \in Nat /\ boundary \in Nat

(* Mutation of Total: the sum is kept in the width of the prefix (here 16  *)
(* values instead of 2^32).                                                *)
TotalWrapped(size) == (HeaderSize + size) % 16

(***************************************************************************)
(* The length of a packet with its prefix, computed in 64 bits so that a   *)
(* body near 2^32 does not wrap.                                           *)
(***************************************************************************)
Total(size) == HeaderSize + size

HeaderIn == DataSize(recvBuffer) >= HeaderSize

(***************************************************************************)
(* What the memcpy of the prefix at ReadPos yields: the size the peer      *)
(* announced if these are the bytes the peer put there, any number if the  *)
(* read position has come to stand on other bytes.                         *)
(***************************************************************************)
AtBoundary ==
  \A k \in 0 .. HeaderSize - 1 : recvBuffer.mem[recvBuffer.rd + k] = boundary + k

SizesRead == IF AtBoundary THEN {announced} ELSE Bodies

WholePacketIn(size) ==
  /\ Total(size) <= Capacity
  /\ DataSize(recvBuffer) >= Total(size)

-----------------------------------------------------------------------------
(***************************************************************************)
(* Start's PostRecv on an empty buffer has succeeded.                      *)
(***************************************************************************)
RecvInit ==
  /\ recvBuffer = EmptyBuffer
  /\ pc = "posted"
  /\ recvOp = [off |-> 0, len |-> Capacity]
  /\ announced \in Bodies
  /\ arrived = 0 /\ consumed = 0 /\ boundary = 0

(***************************************************************************)
(* OnRecvCompletion with data: the kernel filled the start of the posted   *)
(* region, OnWrite advances over it.                                       *)
(***************************************************************************)
RecvData(n) ==
  /\ pc = "posted"
  /\ n <= recvOp.len /\ arrived + n <= MaxReceived
  /\ recvBuffer' = OnWrite(Store(recvBuffer, recvOp.off, n, arrived), n)
  /\ arrived' = arrived + n
  /\ recvOp' = NoRecv
  /\ pc' = "parse"
  /\ UNCHANGED <<announced, consumed, boundary>>

Close ==
  /\ pc' = "closed"
  /\ recvOp' = NoRecv
  /\ UNCHANGED <<recvBuffer, announced, arrived, consumed, boundary>>

(* OnRecvCompletion with an error, or with 0 bytes: the peer closed. *)
RecvFail == pc = "posted" /\ Close

(***************************************************************************)
(* One round of ProcessRecvBuffer's loop that handles a packet and leaves  *)
(* the connection open.  The peer's next packet announces any body size.   *)
(***************************************************************************)
HandlePacket ==
  /\ pc = "parse" /\ HeaderIn
  /\ \E size \in SizesRead :
       /\ WholePacketIn(size)
       /\ recvBuffer' = OnRead(recvBuffer, Total(size))
       /\ consumed' = consumed + Total(size)
  /\ boundary' = boundary + HeaderSize + announced
  /\ announced' \in Bodies
  /\ UNCHANGED <<pc, recvOp, arrived>>

(***************************************************************************)
(* The rounds that end the loop for good: a packet that can never fit, a   *)
(* packet the verifier refuses, a handler after which closing_ is set.     *)
(***************************************************************************)
RejectOversize ==
  /\ pc = "parse" /\ HeaderIn
  /\ \E size \in SizesRead : Total(size) > Capacity
  /\ Close

RejectOrHandlerCloses ==
  /\ pc = "parse" /\ HeaderIn
  /\ \E size \in SizesRead : WholePacketIn(size)
  /\ Close

(* Mutation of Waiting: the loop runs once per completion. *)
WaitingAfterOne == pc = "parse" /\ Total(announced) <= Capacity

(* Neither a whole packet nor an oversize one: the loop breaks. *)
Waiting ==
  /\ pc = "parse"
  /\ \/ ~HeaderIn
     \/ HeaderIn /\ \E size \in SizesRead : /\ Total(size) <= Capacity
                                            /\ DataSize(recvBuffer) < Total(size)

StopParsing ==
  /\ Waiting
  /\ pc' = "repost"
  /\ UNCHANGED <<recvBuffer, recvOp, announced, arrived, consumed, boundary>>

PostRecv ==
  /\ pc = "repost" /\ CanReserve(recvBuffer, 1)
  /\ recvBuffer' = Reserve(recvBuffer, 1)
  /\ recvOp' = [off |-> recvBuffer'.wr, len |-> TailFreeSize(recvBuffer')]
  /\ pc' = "posted"
  /\ UNCHANGED <<announced, arrived, consumed, boundary>>

(* RIOReceive may fail, and so would ReserveWritable on a full buffer. *)
PostRecvFails == pc = "repost" /\ Close

RecvNext ==
  \/ \E n \in 1 .. Capacity : RecvData(n)
  \/ RecvFail
  \/ HandlePacket
  \/ RejectOversize
  \/ RejectOrHandlerCloses
  \/ StopParsing
  \/ PostRecv
  \/ PostRecvFails

RecvSpec == RecvInit /\ [][RecvNext]_recvVars

-----------------------------------------------------------------------------
(* The bytes a handler is given are the peer's bytes, in order, none lost, *)
(* repeated or overwritten, whatever the completions' sizes and however    *)
(* often the buffer is compacted or reset (RingBuffer.h, OnRecvCompletion).*)
BytesInOrder == Holds(recvBuffer, consumed)

(* What the loop hands to a handler is one packet of the peer's, whole and *)
(* nothing but it, and the packets are handed over in the peer's order: no *)
(* cut of the stream, compaction of the buffer or size prefix, however     *)
(* large, makes the parser take a body for a prefix (ProcessRecvBuffer's   *)
(* memcpy from ReadPos, 64-bit total and OnRead).                          *)
InSync ==
  pc = "parse" /\ HeaderIn =>
    \A size \in SizesRead :
      WholePacketIn(size) =>
        /\ size = announced
        /\ DataSize(recvBuffer) >= HeaderSize + announced
        /\ \A i \in 0 .. HeaderSize + announced - 1 :
             recvBuffer.mem[recvBuffer.rd + i] = boundary + i

(* When the loop has broken off, a byte of room can be reserved: waiting   *)
(* for the rest of a packet never closes the connection for want of space, *)
(* since a packet that does not fit the whole buffer was refused           *)
(* (ProcessRecvBuffer, PostRecv).                                          *)
RoomForMore == pc = "repost" => CanReserve(recvBuffer, 1)

(* A receive posted to RIO covers the free tail of the buffer: the kernel  *)
(* writes inside the allocation and over no unread byte (PostRecv).        *)
PostedRegionFree ==
  pc = "posted" => /\ recvOp.off = recvBuffer.wr
                   /\ recvOp.len >= 1
                   /\ recvOp.off + recvOp.len <= Capacity

(* No packet that has arrived whole stays in the buffer while the session  *)
(* waits for the next completion, which might never come                   *)
(* (ProcessRecvBuffer's loop).                                             *)
NoPacketLeftBehind ==
  pc \in {"repost", "posted"} /\ HeaderIn => \A size \in SizesRead : ~WholePacketIn(size)
=============================================================================
