------------------------------ MODULE IOBuffer ------------------------------
(***************************************************************************)
(* CIOBufferPtr (base/src/IOBufferPtr.cpp, .h): bytes with a position to   *)
(* read from and one to write to, which holds integers in network order    *)
(* and strings; and the loop of CTcpService::recv_message that fills such a*)
(* buffer from a socket.                                                   *)
(*                                                                         *)
(* A byte is a number, an integer of n bytes the sequence of its bytes, the*)
(* lowest first (little endian, x86).  A buffer has one user at a time: a  *)
(* client that writes, skips and reads values, or recv_message.            *)
(*                                                                         *)
(* A client may resize its buffer below the write position, and skipAll    *)
(* moves that position by the length of the data, perhaps past the end.    *)
(* Then the room, an unsigned difference, is huge, and writes go to memory *)
(* behind the vector: the model records that they did, not what they hit.  *)
(***************************************************************************)
EXTENDS Integers, Sequences

CONSTANTS
  Size,       \* the size a client's buffer is made with
  NewSizes,   \* the sizes it resizes it to
  Lengths,    \* the lengths it skips and reads strings of
  Ints,       \* the integers the client writes: sequences of 1, 2, 4 or 8 bytes
  Strings,    \* the strings it writes
  MaxPos,     \* bound: how far a client moves the write position
  Offset,     \* offset, the 1 MB recv_message makes room for and reads
  MaxArrive   \* bound: the bytes that arrive for recv_message

Bytes == 0..255
Widths == {1, 2, 4, 8}

ASSUME BufferAssumption ==
  /\ Size \in Nat /\ MaxPos \in Nat
  /\ NewSizes \subseteq Nat /\ Lengths \subseteq Nat \ {0}
  /\ Ints \subseteq Seq(Bytes) /\ \A v \in Ints : Len(v) \in Widths
  /\ Strings \subseteq Seq(Bytes)
  /\ Offset \in Nat \ {0}
  /\ MaxArrive \in Nat

VARIABLES
  base,       \* m_mmset.base
  rd_pos,     \* m_mmset.rd_pos
  wr_pos,     \* m_mmset.wr_pos
  items,      \* what was written since the last Clear and not cut off by a Resize:
              \* <<position, kind, bytes>>
  last,       \* the item that was read last as what it is, and the result
  user,       \* who has the buffer: "client", "recv" or "message"
  arrived,    \* the bytes that have arrived at the socket: 1, 2, ...
  taken,      \* how many of them were read: allReadLen
  short,      \* a read returned less than offset
  late,       \* ... and another one returned data after it
  overrun,    \* since the last Clear a Resize or skipAll left wr_pos past the end
  spilled     \* since then bytes were written outside the vector

bufferVars == <<base, rd_pos, wr_pos>>
recvVars == <<user, arrived, taken, short, late>>
vars == <<bufferVars, items, last, recvVars, overrun, spilled>>

Zeros(n) == [i \in 1..n |-> 0]
Least(a, b) == IF a < b THEN a ELSE b
Nothing == <<<<0, "none", <<>>>>, <<>>>>

BufferInit ==
  /\ base = Zeros(Size)
  /\ rd_pos = 0
  /\ wr_pos = 0
  /\ items = {}
  /\ last = Nothing
  /\ user = "client"
  /\ arrived = 0
  /\ taken = 0
  /\ short = FALSE
  /\ late = FALSE
  /\ overrun = FALSE
  /\ spilled = FALSE

GetSize == Len(base)
GetLength == wr_pos - rd_pos
WriteableBytes == GetSize - wr_pos

(* Memory from WritePosition on gets the bytes s.  What does not fit lands *)
(* outside the vector: the buffer does not have it.                        *)
Stored(s) ==
  [i \in 1..GetSize |-> IF i > wr_pos /\ i <= wr_pos + Len(s) THEN s[i - wr_pos] ELSE base[i]]

(* base.resize.                                                            *)
Resized(n) == [i \in 1..n |-> IF i <= GetSize THEN base[i] ELSE 0]

-----------------------------------------------------------------------------
(* Integers.  htonl works on 32 bits whatever the type: a value is widened *)
(* with its sign or cut to 4 bytes, turned round, and cut or widened back. *)

Widened(v) ==
  [i \in 1..4 |-> IF i <= Len(v) THEN v[i] ELSE IF v[Len(v)] > 127 THEN 255 ELSE 0]

(* Mutant: two 16-bit halves are turned round, each by itself.             *)
htons(v) == [i \in 1..Len(v) |-> IF i <= 4 THEN Widened(v)[<<2, 1, 4, 3>>[i]] ELSE v[i]]

htonl(v) == [i \in 1..Len(v) |-> IF i <= 4 THEN Widened(v)[5 - i] ELSE 0]

(* Mutant: the room is not looked at.                                      *)
HasRoomAlways(n) == TRUE

(* base.size() - wr_pos is a size_t: below zero it is more than any length.*)
HasRoom(n) == wr_pos > GetSize \/ n <= WriteableBytes

Put(kind, stored, bytes) ==
  /\ user = "client"
  /\ HasRoom(Len(stored))
  /\ wr_pos' = wr_pos + Len(stored)
  /\ wr_pos' <= MaxPos
  /\ base' = Stored(stored)
  /\ items' = IF wr_pos' <= GetSize THEN items \cup {<<wr_pos, kind, bytes>>} ELSE items
  /\ spilled' = (spilled \/ wr_pos' > GetSize)
  /\ UNCHANGED <<rd_pos, last, recvVars, overrun>>

WriteInt(v) == Put("int", htonl(v), v)

WriteString(s) == Put("string", s, s)

(* Data that begins outside the vector is not read: at() throws.  A read of*)
(* something as what it was written as is the result of interest.          *)
Get(kind, n, value) ==
  LET known == {x \in items : x[1] = rd_pos /\ x[2] = kind /\ Len(x[3]) = n} IN
  /\ user = "client"
  /\ GetLength >= n
  /\ rd_pos < GetSize
  /\ rd_pos' = rd_pos + n
  /\ IF known = {} THEN last' = Nothing ELSE \E x \in known : last' = <<x, value>>
  /\ UNCHANGED <<base, wr_pos, items, recvVars, overrun, spilled>>

Unread(n) == SubSeq(base, rd_pos + 1, rd_pos + n)

ReadInt(n) == Get("int", n, htonl(Unread(n)))

ReadString(n) == Get("string", n, Unread(n))

Clear ==
  /\ user = "client"
  /\ base' = <<>>
  /\ rd_pos' = 0
  /\ wr_pos' = 0
  /\ items' = {}
  /\ overrun' = FALSE
  /\ spilled' = FALSE
  /\ UNCHANGED <<last, recvVars>>

Resize(n) ==
  /\ user = "client"
  /\ base' = Resized(n)
  /\ items' = {x \in items : x[1] + Len(x[3]) <= n}
  /\ overrun' = (overrun \/ n < wr_pos)
  /\ UNCHANGED <<rd_pos, wr_pos, last, recvVars, spilled>>

(* The room is an unsigned difference here too.  Mutant: skip does not look*)
(* at the room there is.                                                   *)
skipTooFar(len) == wr_pos + len

skip(len) == wr_pos + (IF wr_pos > GetSize THEN len ELSE Least(WriteableBytes, len))

Skip(n) ==
  /\ user = "client"
  /\ wr_pos' = skip(n)
  /\ wr_pos' <= MaxPos
  /\ UNCHANGED <<base, rd_pos, items, last, recvVars, overrun, spilled>>

SkipAll ==
  /\ user = "client"
  /\ wr_pos' = wr_pos + GetLength
  /\ wr_pos' <= MaxPos
  /\ overrun' = (overrun \/ wr_pos' > GetSize)
  /\ UNCHANGED <<base, rd_pos, items, last, recvVars, spilled>>

-----------------------------------------------------------------------------
(* recv_message, called when there is data.                                *)

MakeBuffer ==
  /\ user = "client"
  /\ user' = "recv"
  /\ base' = Zeros(Offset)
  /\ rd_pos' = 0
  /\ wr_pos' = 0
  /\ items' = {}
  /\ last' = Nothing
  /\ arrived' \in 1..MaxArrive
  /\ overrun' = FALSE
  /\ spilled' = FALSE
  /\ UNCHANGED <<taken, short, late>>

Arrive ==
  /\ user = "recv"
  /\ arrived < MaxArrive
  /\ arrived' = arrived + 1
  /\ UNCHANGED <<bufferVars, items, last, user, taken, short, late, overrun, spilled>>

(* The bytes that a read of offset bytes returns: all there are, up to it. *)
Available == Least(Offset, arrived - taken)

(* Mutant: the buffer never grows.                                         *)
GrownNever(bytes, pos, read) == bytes

(* After the skip the buffer grows if the read was a full one and there is *)
(* not as much room left.                                                  *)
Grown(bytes, pos, read) ==
  IF Len(bytes) - pos < Offset /\ read = Offset
  THEN [i \in 1..(pos - rd_pos + Offset) |-> IF i <= Len(bytes) THEN bytes[i] ELSE 0]
  ELSE bytes

Read ==
  /\ user = "recv"
  /\ Available > 0
  /\ LET n == Available
         pos == skip(n) IN
     /\ wr_pos' = pos
     /\ base' = Grown(Stored([i \in 1..n |-> taken + i]), pos, n)
     /\ taken' = taken + n
     /\ spilled' = (spilled \/ wr_pos + n > GetSize)
     /\ late' = (late \/ short)
     /\ short' = (short \/ n < Offset)
  /\ UNCHANGED <<rd_pos, items, last, user, arrived, overrun>>

(* Nothing left to read: what was read goes to the message function.       *)
MessageRecv ==
  /\ user = "recv"
  /\ Available = 0
  /\ taken > 0
  /\ user' = "message"
  /\ UNCHANGED <<bufferVars, items, last, arrived, taken, short, late, overrun, spilled>>

-----------------------------------------------------------------------------
BufferNext ==
  \/ \E v \in Ints : WriteInt(v)
  \/ \E s \in Strings : WriteString(s)
  \/ \E n \in Widths : ReadInt(n)
  \/ \E n \in Lengths : ReadString(n) \/ Skip(n)
  \/ \E n \in NewSizes : Resize(n)
  \/ SkipAll \/ Clear
  \/ Arrive \/ MakeBuffer \/ Read \/ MessageRecv

BufferSpec == BufferInit /\ [][BufferNext]_vars
=============================================================================
