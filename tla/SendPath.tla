------------------------------ MODULE SendPath ------------------------------
(***************************************************************************)
(* One session's send side: EnqueueEcho, Send, TryPostSend and             *)
(* OnSendCompletion (Network/Session.cpp).  Packets from the session's own *)
(* handler (Echo) and from any thread (Send) are appended to one buffer    *)
(* under the session's lock; at most one RIOSend is outstanding; it covers *)
(* the whole backlog of the moment it was posted, and the next one is      *)
(* posted by its completion.                                               *)
(*                                                                         *)
(* Each action is one critical section of lock_.  Between them the network *)
(* adapter takes the bytes of the posted region out of the same memory,    *)
(* one Transmit a byte.                                                    *)
(***************************************************************************)
EXTENDS RingBuffer, Sequences

CONSTANTS
  Lengths,   \* the lengths of the packets sent
  MaxSent    \* bound on the bytes accepted for sending

ASSUME SendAssumption == Lengths \subseteq Nat \ {0} /\ MaxSent \in Nat

VARIABLES
  sendBuffer,  \* sendBuffer_
  busy,        \* sendInProgress_
  sendOp,      \* the outstanding RIOSend: its RIO_BUF and how much of it is taken
  closing,     \* closing_
  overflow,    \* the backlog and the length that made EnqueueEcho close the session
  accepted,    \* bytes appended to the buffer so far
  acked,       \* bytes passed to OnRead so far
  wire         \* the stream bytes the peer receives, in the order it does

sendVars == <<sendBuffer, busy, sendOp, closing, overflow, accepted, acked, wire>>

NoSend == [off |-> 0, len |-> 0, taken |-> 0]
NoOverflow == [backlog |-> 0, need |-> 0]

SendTypeOK ==
  /\ sendBuffer \in Buffer
  /\ busy \in BOOLEAN /\ closing \in BOOLEAN
  /\ sendOp \in [off : 0 .. Capacity, len : 0 .. Capacity, taken : 0 .. Capacity]
  /\ overflow \in [backlog : Nat, need : Nat]
  /\ accepted \in Nat /\ acked \in Nat
  /\ wire \in Seq(Nat)

SendInit ==
  /\ sendBuffer = EmptyBuffer
  /\ busy = FALSE /\ closing = FALSE
  /\ sendOp = NoSend
  /\ overflow = NoOverflow
  /\ accepted = 0 /\ acked = 0
  /\ wire = <<>>

-----------------------------------------------------------------------------
Region(b) == [off |-> b.rd, len |-> DataSize(b), taken |-> 0]

(***************************************************************************)
(* TryPostSend on buffer b, where sending is sendInProgress_ on entry and  *)
(* cur what RIO has outstanding: nothing to do, posted, or refused.        *)
(* RIOSend refuses once the socket is closed, and may refuse at any time;  *)
(* the session then closes.                                                *)
(***************************************************************************)
TryPostSend(b, sending, cur) ==
  \/ /\ sending \/ DataSize(b) = 0
     /\ busy' = sending /\ sendOp' = cur /\ closing' = closing
  \/ /\ ~sending /\ DataSize(b) # 0 /\ ~closing
     /\ busy' = TRUE /\ sendOp' = Region(b) /\ closing' = FALSE
  \/ /\ ~sending /\ DataSize(b) # 0
     /\ busy' = FALSE /\ sendOp' = cur /\ closing' = TRUE

(***************************************************************************)
(* EnqueueEcho: reserve, which may compact the buffer; close if there is   *)
(* no room; else append and try to send.                                   *)
(***************************************************************************)
EnqueueOverflow(len) ==
  /\ ~CanReserve(sendBuffer, len)
  /\ sendBuffer' = Reserve(sendBuffer, len)
  /\ overflow' = IF closing THEN overflow ELSE [backlog |-> DataSize(sendBuffer), need |-> len]
  /\ closing' = TRUE
  /\ UNCHANGED <<busy, sendOp, accepted, acked, wire>>

EnqueueAppend(len) ==
  LET b == Reserve(sendBuffer, len)
  IN /\ CanReserve(sendBuffer, len)
     /\ sendBuffer' = OnWrite(Store(b, b.wr, len, accepted), len)
     /\ accepted' = accepted + len
     /\ TryPostSend(sendBuffer', busy, sendOp)
     /\ UNCHANGED <<overflow, acked, wire>>

EnqueueEcho(len) == EnqueueOverflow(len) \/ EnqueueAppend(len)

(* Any thread; a session that is closing takes nothing more. *)
Send(len) == ~closing /\ accepted + len <= MaxSent /\ EnqueueEcho(len)

(* The session's own handler, which does not look at closing_ first. *)
Echo(len) == accepted + len <= MaxSent /\ EnqueueEcho(len)

(***************************************************************************)
(* The network adapter, external: takes the next byte of the region.       *)
(***************************************************************************)
Transmit ==
  /\ sendOp.taken < sendOp.len
  /\ wire' = Append(wire, sendBuffer.mem[sendOp.off + sendOp.taken])
  /\ sendOp' = [off |-> sendOp.off, len |-> sendOp.len, taken |-> sendOp.taken + 1]
  /\ UNCHANGED <<sendBuffer, busy, closing, overflow, accepted, acked>>

(* Mutations of SendDone: the completion does not send what was queued     *)
(* behind it; sendInProgress_ is not reset.                                *)
SendDoneNoRepost ==
  /\ sendOp.taken > 0
  /\ sendBuffer' = OnRead(sendBuffer, sendOp.taken)
  /\ acked' = acked + sendOp.taken
  /\ busy' = FALSE /\ sendOp' = NoSend /\ closing' = closing
  /\ UNCHANGED <<overflow, accepted, wire>>

SendDoneStillBusy ==
  /\ sendOp.taken > 0
  /\ sendBuffer' = OnRead(sendBuffer, sendOp.taken)
  /\ acked' = acked + sendOp.taken
  /\ TryPostSend(sendBuffer', busy, NoSend)
  /\ UNCHANGED <<overflow, accepted, wire>>

(***************************************************************************)
(* OnSendCompletion with success: what the adapter took leaves the buffer, *)
(* and the next send is posted unless the session is closing.              *)
(***************************************************************************)
SendDone ==
  /\ sendOp.taken > 0
  /\ sendBuffer' = OnRead(sendBuffer, sendOp.taken)
  /\ acked' = acked + sendOp.taken
  /\ IF closing
     THEN busy' = FALSE /\ sendOp' = NoSend /\ closing' = closing
     ELSE TryPostSend(sendBuffer', FALSE, NoSend)
  /\ UNCHANGED <<overflow, accepted, wire>>

SendFails ==
  /\ sendOp.len > 0
  /\ busy' = FALSE /\ sendOp' = NoSend /\ closing' = TRUE
  /\ UNCHANGED <<sendBuffer, overflow, accepted, acked, wire>>

(* The receive side, or a refusal elsewhere, closes the session. *)
CloseElsewhere ==
  /\ ~closing /\ closing' = TRUE
  /\ UNCHANGED <<sendBuffer, busy, sendOp, overflow, accepted, acked, wire>>

SendNext ==
  \/ \E len \in Lengths : Send(len) \/ Echo(len)
  \/ Transmit
  \/ SendDone
  \/ SendFails
  \/ CloseElsewhere

SendSpec == SendInit /\ [][SendNext]_sendVars

(***************************************************************************)
(* The adapter works on a posted region and RIO reports its completion,    *)
(* which a worker thread drains: nothing is asked of the senders.          *)
(***************************************************************************)
SendFairSpec == SendSpec /\ WF_sendVars(Transmit) /\ WF_sendVars(SendDone \/ SendFails)

-----------------------------------------------------------------------------
(* The backlog is exactly the accepted bytes not yet acknowledged, in      *)
(* order, through every compaction, reset and partial send (EnqueueEcho,   *)
(* OnSendCompletion).                                                      *)
BacklogInOrder == Holds(sendBuffer, acked) /\ accepted = acked + DataSize(sendBuffer)

(* A completion never consumes more than the backlog, even when the buffer *)
(* was compacted under the send: readPos_ does not pass writePos_, and     *)
(* DataSize does not wrap below 0 (OnSendCompletion, RingBuffer::OnRead).  *)
CompletionWithinBacklog == sendOp.len <= DataSize(sendBuffer)

(* An open session with unsent bytes has a send outstanding: no packet is  *)
(* left in the buffer with nothing to push it out, whichever thread added  *)
(* it and whatever completed meanwhile (TryPostSend's early return).       *)
NothingStranded == ~closing /\ DataSize(sendBuffer) > 0 => sendOp.len > 0

(* A session is closed for overflow only when its backlog and the packet   *)
(* together exceed the whole buffer: free space in front of the backlog is *)
(* always recovered first (EnqueueEcho's "send buffer overflow").          *)
OverflowOnlyWhenFull ==
  overflow # NoOverflow => overflow.backlog + overflow.need > Capacity

(* Every accepted byte is acknowledged unless the session closes: sends    *)
(* do not stop while there is a backlog (OnSendCompletion).                *)
EveryByteSent ==
  \A n \in 1 .. MaxSent : (accepted >= n) ~> (acked >= n \/ closing)

(* What the peer receives is the accepted stream, packet after packet      *)
(* (Session.h, Send: "lets EchoServer deliver a server-initiated           *)
(* (broadcast) packet to this client").  It fails: EnqueueEcho may compact *)
(* the buffer, and then write over the region, while a RIOSend still reads *)
(* from it.                                                                *)
WireInOrder == \A i \in 1 .. Len(wire) : wire[i] = i - 1
=============================================================================
