-------------------------- MODULE BufferedSequence --------------------------
(***************************************************************************)
(* sio::buffered_sequence (sequence/buffered_sequence.hpp) on top of the   *)
(* read and write senders of io_uring/file_handle.hpp: byte_stream::read   *)
(* and write transfer a buffer, or a span of buffers, piece by piece, and  *)
(* go on after each short transfer until nothing is left.                  *)
(*                                                                         *)
(* The kernel (outside the repository) transfers at least one byte if it   *)
(* can and at most what was asked for; without an offset it uses and       *)
(* advances the position of the file.  moved relates the bytes of the      *)
(* buffers, numbered from 0, with those of the file.                       *)
(***************************************************************************)
EXTENDS Lists, Integers, FiniteSets

CONSTANTS
  BufferShapes,  \* the sequences of buffer sizes to transfer
  Offsets,       \* the offsets that callers pass
  FileSize       \* how many bytes a file that is read has

ASSUME BufferedAssumption ==
  /\ \A s \in BufferShapes : s \in Seq(Nat)
  /\ Offsets \subseteq Nat
  /\ FileSize \in Nat

VARIABLES
  request,    \* the call: its buffers and offset, the position of the file
  left,       \* buffer_span::buffers_: the sizes that are left
  offset,     \* buffer_span::offset_
  sqe,        \* the entry in the submission queue
  position,   \* the position of the file, kept by the kernel
  moved,      \* which byte of the buffers was transferred from or to which
  transfer    \* where the sequence operation is

transferVars == <<request, left, offset, sqe, position, moved, transfer>>

ByteCount(buffers) == SumOfFirst(Len(buffers), buffers)

Smaller(a, b) == IF a < b THEN a ELSE b

IsSpan == request.kind = "span"

-----------------------------------------------------------------------------
(* What reaches the constructor of the sender.  Without an offset read and *)
(* write pass on the -1 of buffered_sequence, write_sender has the default *)
(* -1 and read_sender the default 0.                                       *)
FirstOffset(r) ==
  IF r.call = "read_some" /\ r.offset = -1 THEN 0 ELSE r.offset

(* A call, for one buffer or for a span of them; -1: without an offset.    *)
CallsWith(offsets) ==
  [call : {"read", "write", "read_some", "write_some"},
   kind : {"single", "span"}, buffers : BufferShapes,
   offset : offsets, position : {0, 1}]

ByteStreamCalls == CallsWith({-1})

(* read and write have no overload for a span and an offset, but           *)
(* buffered_sequence, which they call, takes both.                         *)
SeekableCalls == CallsWith(Offsets)

Calls == ByteStreamCalls \union SeekableCalls

(* sequence_op's constructor: connect_next for the first item.             *)
TransferInit ==
  /\ request \in Calls
  /\ request.kind = "single" => Len(request.buffers) = 1
  /\ left = request.buffers
  /\ offset = FirstOffset(request)
  /\ sqe = [direction |-> "none", off |-> -1, iov |-> <<>>]
  /\ position = request.position
  /\ moved = {}
  /\ transfer = "connected"

Direction ==
  IF request.call \in {"read", "read_some"} THEN "read" ELSE "write"

(* Mutant of Sqe: the offset of the call instead of the current one.       *)
SqeFirstOffset ==
  [direction |-> Direction, off |-> FirstOffset(request), iov |-> left]

(* The factory makes a sender from data() and offset() (make_sender), and  *)
(* its submission fills the entry: READ or WRITE with the bytes of one     *)
(* buffer, READV or WRITEV with the buffers of a span.                     *)
Sqe == [direction |-> Direction, off |-> offset, iov |-> left]

(* start(), or start(connect_next()).                                      *)
Submit ==
  /\ transfer = "connected"
  /\ transfer' = "submitted"
  /\ sqe' = Sqe
  /\ UNCHANGED <<request, left, offset, position, moved>>

(* Where the kernel transfers the next byte.                               *)
Place == IF sqe.off = -1 THEN position ELSE sqe.off

(* How many bytes the kernel may transfer: at least one if it can.         *)
Results ==
  LET there == IF sqe.direction = "write" THEN ByteCount(sqe.iov)
               ELSE IF Place >= FileSize THEN 0
               ELSE Smaller(ByteCount(sqe.iov), FileSize - Place)
  IN IF there = 0 THEN {0} ELSE 1..there

(* buffer_span<std::span<Buffer>>::advance: how many buffers at the front  *)
(* n bytes use up; the loop ends with n smaller than the next or with 0.   *)
UsedUp(n) ==
  CHOOSE k \in 0..Len(left) :
    /\ SumOfFirst(k, left) <= n
    /\ \/ k = Len(left)
       \/ SumOfFirst(k, left) = n
       \/ SumOfFirst(k + 1, left) > n
    /\ \A j \in 0..(k - 1) : SumOfFirst(j, left) < n

Moved(from, n) == IF from = -1 THEN -1 ELSE from + n

(* Mutants of AdvanceBuffer: a partly used buffer is given up; a span      *)
(* keeps the buffers that were used up.                                    *)
AdvanceWholeBuffers(n) ==
  LET k == IF n = 0 THEN 0 ELSE Smaller(UsedUp(n) + 1, Len(left)) IN
    /\ left' = SubSeq(left, k + 1, Len(left))
    /\ offset' = Moved(offset, n)

(* buffer_span<Buffer>::advance and buffer_span<std::span<Buffer>>::       *)
(* advance.  The span adds to offset_ what is left of n after the loop.    *)
AdvanceBuffer(n) ==
  LET k == UsedUp(n)
      rest == n - SumOfFirst(k, left)
  IN IF IsSpan
       THEN /\ left' = IF k = Len(left) THEN <<>>
                         ELSE <<left[k + 1] - rest>>
                                \o SubSeq(left, k + 2, Len(left))
            /\ offset' = Moved(offset, rest)
       ELSE /\ left' = <<left[1] - n>>
            /\ offset' = Moved(offset, n)

(* buffer_.data().empty(): no bytes, or no buffers.                        *)
DataEmpty(buffers) ==
  IF IsSpan THEN buffers = <<>> ELSE ByteCount(buffers) = 0

(* next_receiver::set_value, once the consumer is done with the item: the  *)
(* sequence ends or connects the next item, which may throw.  read_some    *)
(* and write_some end with their only transfer.                            *)
NextValue ==
  IF DataEmpty(left') \/ request.call \in {"read_some", "write_some"}
    THEN transfer' = "value"
    ELSE transfer' \in {"connected", "error"}

(* The completion entry carries n >= 0: io_operation_base::complete and    *)
(* item_receiver::set_value, then NextValue.                               *)
TransferValue ==
  /\ transfer = "submitted"
  /\ \E n \in Results :
       /\ moved' = moved \union
            {<<ByteCount(request.buffers) - ByteCount(sqe.iov) + i, Place + i>> :
               i \in 0..(n - 1)}
       /\ position' = IF sqe.off = -1 THEN position + n ELSE position
       /\ AdvanceBuffer(n)
  /\ NextValue
  /\ UNCHANGED <<request, sqe>>

(* The completion entry carries a negative result: set_error.              *)
TransferFails ==
  /\ transfer = "submitted"
  /\ transfer' = "item failed"
  /\ UNCHANGED <<request, left, offset, sqe, position, moved>>

(* The request was stopped: the item ends with set_stopped.                *)
TransferStopped ==
  /\ transfer = "submitted"
  /\ transfer' = "item stopped"
  /\ UNCHANGED <<request, left, offset, sqe, position, moved>>

(* The consumer of the failed or stopped item stops (reduce keeps the      *)
(* error): next_receiver::set_stopped ends the sequence with set_stopped   *)
(* or, if nobody requested that, with set_value.                           *)
CutShort ==
  /\ transfer \in {"item failed", "item stopped"}
  /\ transfer' = "cut short"
  /\ UNCHANGED <<request, left, offset, sqe, position, moved>>

TransferNext ==
  Submit \/ TransferValue \/ TransferFails \/ TransferStopped \/ CutShort

-----------------------------------------------------------------------------
(* Where the first byte of the transfer belongs.                           *)
FirstPlace ==
  IF request.offset = -1 THEN request.position ELSE request.offset

(* After any number of short transfers the bytes were moved in order,      *)
(* each once and each to its place: byte k of the buffers is byte k behind *)
(* the offset.                                                             *)
EveryByteInPlace ==
  moved = {<<i, FirstPlace + i>> : i \in 0..(Cardinality(moved) - 1)}

(* The same for all calls but two: a span with an offset, for which        *)
(* advance forgets the bytes of used up buffers, and read_some without     *)
(* offset, which reads at 0 whatever the position is.                      *)
BytesInPlace ==
  \/ IsSpan /\ request.offset # -1
  \/ request.call = "read_some" /\ request.offset = -1
  \/ EveryByteInPlace

(* A read or write that was not cut short completes with set_value only    *)
(* when every byte of the buffers was moved.                               *)
ValueMeansFilled ==
  transfer = "value" /\ request.call \in {"read", "write"} =>
    {m[1] : m \in moved} = 0..(ByteCount(request.buffers) - 1)

(* The bytes asked for exist, and there is no empty buffer that a transfer *)
(* of 0 bytes would have to remove.                                        *)
CanBeFilled ==
  /\ \/ Direction = "write"
     \/ FirstPlace + ByteCount(request.buffers) <= FileSize
  /\ IsSpan => \A i \in 1..Len(request.buffers) : request.buffers[i] > 0

(* If the bytes asked for exist the transfer ends.  At the end of a file   *)
(* it would go on reading 0 bytes.                                         *)
TransferEnds == CanBeFilled ~> transfer \in {"value", "cut short", "error"}
=============================================================================
