----------------------------- MODULE RingBuffer -----------------------------
(***************************************************************************)
(* The linear buffer behind every registered RIO region                    *)
(* (Network/RingBuffer.h): bytes are appended at wr, consumed at rd, and   *)
(* moved back to offset 0 when the tail runs out of room.  A buffer is a   *)
(* record; a byte is known by its position in the stream it belongs to, so *)
(* that a lost, repeated or overwritten byte can be told from the right    *)
(* one.  The module has no state of its own: RecvPath and SendPath keep    *)
(* one buffer each.                                                        *)
(***************************************************************************)
EXTENDS Integers

CONSTANT Capacity   \* kRecvBufferCapacity or kSendBufferCapacity, in bytes

ASSUME CapacityAssumption == Capacity \in Nat \ {0}

Offsets == 0 .. Capacity - 1

(***************************************************************************)
(* readPos_ and writePos_ never leave the allocation, and never cross.     *)
(***************************************************************************)
Buffer == { b \in [mem : [Offsets -> Nat], rd : 0 .. Capacity, wr : 0 .. Capacity] :
              b.rd <= b.wr }

EmptyBuffer == [mem |-> [i \in Offsets |-> 0], rd |-> 0, wr |-> 0]

DataSize(b) == b.wr - b.rd

TailFreeSize(b) == Capacity - b.wr

(***************************************************************************)
(* Writing len stream bytes, the first of which is number first, at offset *)
(* off: the kernel's receive, or the memcpy of EnqueueEcho.                *)
(***************************************************************************)
Fill(mem, off, len, first) ==
  [i \in Offsets |-> IF i \in off .. off + len - 1 THEN first + (i - off) ELSE mem[i]]

Store(b, off, len, first) == [mem |-> Fill(b.mem, off, len, first), rd |-> b.rd, wr |-> b.wr]

-----------------------------------------------------------------------------
(* Mutation of Compact: the positions move but the bytes do not. *)
CompactWithoutMove(b) == [mem |-> b.mem, rd |-> 0, wr |-> DataSize(b)]

Compact(b) ==
  IF b.rd = 0
  THEN b
  ELSE [mem |-> [i \in Offsets |-> IF i < DataSize(b) THEN b.mem[i + b.rd] ELSE b.mem[i]],
        rd  |-> 0,
        wr  |-> DataSize(b)]

(* Mutation of Reserve: the buffer is never compacted. *)
ReserveNoCompact(b, needed) == b

(***************************************************************************)
(* ReserveWritable(needed) is split into its effect on the buffer and its  *)
(* verdict: Reserve compacts when the tail is too short, CanReserve is the *)
(* value returned.                                                         *)
(***************************************************************************)
Reserve(b, needed) ==
  IF needed <= Capacity /\ TailFreeSize(b) < needed THEN Compact(b) ELSE b

CanReserve(b, needed) ==
  needed <= Capacity /\ TailFreeSize(Reserve(b, needed)) >= needed

OnWrite(b, len) == [mem |-> b.mem, rd |-> b.rd, wr |-> b.wr + len]

OnRead(b, len) ==
  IF b.rd + len = b.wr
  THEN [mem |-> b.mem, rd |-> 0, wr |-> 0]
  ELSE [mem |-> b.mem, rd |-> b.rd + len, wr |-> b.wr]

(***************************************************************************)
(* The unread bytes of b are the stream bytes from number first on.        *)
(***************************************************************************)
Holds(b, first) == \A i \in b.rd .. b.wr - 1 : b.mem[i] = first + (i - b.rd)
=============================================================================
