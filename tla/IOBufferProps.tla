---------------------------- MODULE IOBufferProps ---------------------------
(***************************************************************************)
(* What is put into a buffer is there, and comes out.                      *)
(***************************************************************************)
EXTENDS IOBuffer

(* The type invariant.                                                     *)
BufferTypeOK ==
  /\ base \in Seq(Nat)
  /\ user \in {"client", "recv", "message"}
  /\ arrived \in 0..MaxArrive
  /\ taken \in 0..arrived
  /\ short \in BOOLEAN
  /\ late \in BOOLEAN
  /\ overrun \in BOOLEAN
  /\ spilled \in BOOLEAN
  /\ rd_pos \in Nat /\ wr_pos \in Nat

(* Nothing is written outside the vector, however the buffer is written,   *)
(* read, skipped, grown and cleared, and however data comes in, but for the*)
(* three cases in which the code leaves less room than it counts on: a     *)
(* Resize below the write position (IOBufferPtr.cpp:68), a skipAll past the*)
(* end (IOBufferPtr.h:74), and data that comes in after a read that was not*)
(* a full one (TcpService.cpp:283).                                        *)
WritesInside ==
  /\ spilled => overrun \/ late
  /\ wr_pos > GetSize => overrun

(* What is read as it was written comes back: strings and 4-byte integers  *)
(* whole, of 8-byte integers the low 32 bits, because htonl has no more    *)
(* (IOBufferPtr.cpp:24, 39).  Shorter integers do not: only their sign     *)
(* survives.                                                               *)
ReadsBack ==
  LET kind == last[1][2]
      bytes == last[1][3]
      value == last[2] IN
  /\ kind = "string" \/ (kind = "int" /\ Len(bytes) = 4) => value = bytes
  /\ kind = "int" /\ Len(bytes) = 8 =>
       value = [i \in 1..8 |-> IF i <= 4 THEN bytes[i] ELSE 0]

(* The message function gets every byte that recv_message read, in order,  *)
(* however much there was and however often the buffer grew, as long as no *)
(* data came in after a read that was not a full one (TcpService.cpp:283). *)
(* Then the buffer may have less room than the read asks for.              *)
RecvKeepsAll ==
  user = "message" /\ ~late =>
    /\ GetLength = taken
    /\ \A i \in 1..taken : base[rd_pos + i] = i
=============================================================================
