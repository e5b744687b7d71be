---------------------------- MODULE BufferProofs ----------------------------
(***************************************************************************)
(* The two buffers of bytes.  IOBufferPtr: for any sizes, values and       *)
(* offset, and however many bytes arrive, when bytes can land outside the  *)
(* vector, and what comes out of it.  CLog: for any messages, dates and    *)
(* threads, what is put into its buffer is written once, and to a file that*)
(* is open.                                                                *)
(***************************************************************************)
EXTENDS IOBufferProps, LogProps, SequenceTheorems, TLAPS

-----------------------------------------------------------------------------
(* The operators of the module.                                            *)

LEMMA FunctionIsSeq ==
  ASSUME NEW S, NEW n \in Nat, NEW f \in [1..n -> S]
  PROVE  f \in Seq(S) /\ Len(f) = n
<1>1. f \in Seq(S)
  BY SeqDef
<1>2. Len(f) \in Nat /\ DOMAIN f = 1..Len(f) /\ DOMAIN f = 1..n
  BY <1>1, LenProperties
<1> QED
  BY <1>1, <1>2

LEMMA ZerosOK ==
  ASSUME NEW n \in Nat
  PROVE  Zeros(n) \in Seq(Nat) /\ Len(Zeros(n)) = n
BY FunctionIsSeq DEF Zeros

(* htonl turns round what it has of a value, 32 bits.                      *)
LEMMA htonlOK ==
  ASSUME NEW v \in Seq(Bytes), Len(v) \in Widths
  PROVE  /\ htonl(v) \in Seq(Bytes)
         /\ Len(htonl(v)) = Len(v)
         /\ \A i \in 1..Len(v) : htonl(v)[i] = IF i <= 4 THEN Widened(v)[5 - i] ELSE 0
<1>1. Len(v) \in Nat /\ 1 <= Len(v)
  <2>1. \A n \in Widths : n \in Nat /\ 1 <= n
    BY DEF Widths
  <2> QED
    BY <2>1
<1>2. \A i \in 1..Len(v) : v[i] \in Bytes
  BY ElementOfSeq
<1>3. Widened(v) \in [1..4 -> Bytes]
  BY <1>1, <1>2 DEF Widened, Bytes
<1>4. \A i \in 1..Len(v) : i <= 4 => Widened(v)[5 - i] \in Bytes
  <2> TAKE i \in 1..Len(v)
  <2> HAVE i <= 4
  <2>1. 5 - i \in 1..4
    BY <1>1
  <2> QED
    BY <1>3, <2>1
<1>5. htonl(v) \in [1..Len(v) -> Bytes]
  <2>1. 0 \in Bytes
    BY DEF Bytes
  <2>2. \A i \in 1..Len(v) : (IF i <= 4 THEN Widened(v)[5 - i] ELSE 0) \in Bytes
    BY <1>4, <2>1
  <2> QED
    BY <2>2 DEF htonl
<1> QED
  BY <1>1, <1>5, FunctionIsSeq DEF htonl

(* Turned round twice, 4 bytes are what they were, and so is the low half  *)
(* of 8.                                                                   *)
LEMMA htonlTwice ==
  ASSUME NEW v \in Seq(Bytes), Len(v) \in {4, 8}
  PROVE  htonl(htonl(v)) = [i \in 1..Len(v) |-> IF i <= 4 THEN v[i] ELSE 0]
<1> DEFINE w == htonl(v)
<1>1. /\ w \in Seq(Bytes) /\ Len(w) = Len(v) /\ Len(v) \in Widths
      /\ \A i \in 1..Len(v) : w[i] = IF i <= 4 THEN Widened(v)[5 - i] ELSE 0
  BY htonlOK DEF Widths
<1> HIDE DEF w
<1>2. \A i \in 1..4 : Widened(v)[i] = v[i] /\ Widened(w)[i] = w[i]
  BY <1>1 DEF Widened
<1>3. \A i \in 1..4 : w[i] = v[5 - i]
  BY <1>1, <1>2
<1>4. \A i \in 1..4 : Widened(w)[5 - i] = v[i]
  BY <1>2, <1>3
<1>5. htonl(w) = [i \in 1..Len(v) |-> IF i <= 4 THEN v[i] ELSE 0]
  BY <1>1, <1>4 DEF htonl
<1> QED
  BY <1>5 DEF w

(* Bytes that are stored are there, and the others are as they were.       *)
LEMMA StoredOK ==
  ASSUME base \in Seq(Nat), wr_pos \in Nat, NEW s \in Seq(Nat)
  PROVE  /\ Stored(s) \in Seq(Nat)
         /\ Len(Stored(s)) = Len(base)
         /\ \A i \in 1..Len(base) :
              Stored(s)[i] = IF i > wr_pos /\ i <= wr_pos + Len(s) THEN s[i - wr_pos] ELSE base[i]
<1>1. Len(base) \in Nat /\ Len(s) \in Nat
  BY LenProperties
<1>2. /\ \A i \in 1..Len(base) : base[i] \in Nat
      /\ \A i \in 1..Len(s) : s[i] \in Nat
  BY ElementOfSeq
<1>3. Stored(s) \in [1..Len(base) -> Nat]
  BY <1>1, <1>2 DEF Stored, GetSize
<1> QED
  BY <1>1, <1>3, FunctionIsSeq DEF Stored, GetSize

LEMMA ResizedOK ==
  ASSUME base \in Seq(Nat), NEW n \in Nat
  PROVE  /\ Resized(n) \in Seq(Nat)
         /\ Len(Resized(n)) = n
         /\ \A i \in 1..n : i <= Len(base) => Resized(n)[i] = base[i]
<1>1. Len(base) \in Nat /\ \A i \in 1..Len(base) : base[i] \in Nat
  BY LenProperties, ElementOfSeq
<1>2. Resized(n) \in [1..n -> Nat]
  BY <1>1 DEF Resized, GetSize
<1> QED
  BY <1>2, FunctionIsSeq DEF Resized, GetSize

LEMMA UnreadOK ==
  ASSUME base \in Seq(Nat), rd_pos \in Nat, NEW n \in Nat, rd_pos + n <= Len(base)
  PROVE  /\ Unread(n) \in Seq(Nat)
         /\ Len(Unread(n)) = n
         /\ \A i \in 1..n : Unread(n)[i] = base[rd_pos + i]
<1>1. \A i \in (rd_pos + 1)..(rd_pos + n) : base[i] \in Nat
  BY LenProperties, ElementOfSeq
<1>2. rd_pos + 1 \in Int /\ rd_pos + n \in Int
  OBVIOUS
<1>3. /\ Unread(n) \in Seq(Nat)
      /\ Len(Unread(n)) = IF rd_pos + 1 <= rd_pos + n THEN rd_pos + n - (rd_pos + 1) + 1 ELSE 0
      /\ \A i \in 1..(rd_pos + n - (rd_pos + 1) + 1) : Unread(n)[i] = base[rd_pos + 1 + i - 1]
  BY <1>1, <1>2, SubSeqProperties DEF Unread
<1> QED
  BY <1>3

(* The buffer grows at its end, and there is room for a read after it.     *)
LEMMA GrownOK ==
  ASSUME NEW b \in Seq(Nat), NEW pos \in Nat, pos <= Len(b), NEW n \in Nat,
         rd_pos = 0, Offset \in Nat \ {0}
  PROVE  /\ Grown(b, pos, n) \in Seq(Nat)
         /\ Len(b) <= Len(Grown(b, pos, n))
         /\ \A i \in 1..Len(b) : Grown(b, pos, n)[i] = b[i]
         /\ n = Offset => Len(Grown(b, pos, n)) - pos >= Offset
<1>1. Len(b) \in Nat /\ \A i \in 1..Len(b) : b[i] \in Nat
  BY LenProperties, ElementOfSeq
<1>2. CASE Len(b) - pos < Offset /\ n = Offset
  <2> DEFINE g == [i \in 1..(pos + Offset) |-> IF i <= Len(b) THEN b[i] ELSE 0]
  <2>1. Grown(b, pos, n) = g
    BY <1>2 DEF Grown
  <2>2. g \in [1..(pos + Offset) -> Nat] /\ pos + Offset \in Nat
    BY <1>1
  <2>3. g \in Seq(Nat) /\ Len(g) = pos + Offset
    BY <2>2, FunctionIsSeq
  <2>4. \A i \in 1..Len(b) : g[i] = b[i]
    BY <1>1, <1>2
  <2> HIDE DEF g
  <2> QED
    BY <1>1, <1>2, <2>1, <2>3, <2>4
<1>3. CASE ~(Len(b) - pos < Offset /\ n = Offset)
  BY <1>1, <1>3 DEF Grown
<1> QED
  BY <1>2, <1>3

-----------------------------------------------------------------------------
(* The inductive invariant: where each item is, and in what form, and what *)
(* recv_message has of the bytes it read.                                  *)

Form(x) == IF x[2] = "int" THEN htonl(x[3]) ELSE x[3]

IsItem(x) ==
  /\ x[1] \in Nat
  /\ x[3] \in Seq(Bytes)
  /\ x[2] = "string" \/ (x[2] = "int" /\ Len(x[3]) \in Widths)

InItsPlace(x) ==
  /\ x[1] + Len(x[3]) <= wr_pos /\ x[1] + Len(x[3]) <= GetSize
  /\ \A i \in 1..Len(x[3]) : base[x[1] + i] = Form(x)[i]

ItemsOK == \A x \in items : IsItem(x) /\ InItsPlace(x)

PositionsOK == rd_pos \in Nat /\ wr_pos \in Nat /\ rd_pos <= wr_pos

(* As long as no data came in after a read that was not full there is room *)
(* for the next one.                                                       *)
RoomForNext ==
  /\ wr_pos = taken /\ ~spilled
  /\ \A i \in 1..taken : base[i] = i
  /\ ~short => GetSize - wr_pos >= Offset

Receiving ==
  /\ user = "client" => taken = 0
  /\ user # "client" => rd_pos = 0 /\ items = {} /\ ~overrun /\ (~late => RoomForNext)

BufferInv == BufferTypeOK /\ PositionsOK /\ ItemsOK /\ Receiving /\ ReadsBack /\ WritesInside

LEMMA FormOK ==
  ASSUME NEW x, IsItem(x)
  PROVE  /\ Form(x) \in Seq(Nat)
         /\ Len(Form(x)) = Len(x[3])
         /\ Len(x[3]) \in Nat
<1>1. Bytes \subseteq Nat
  BY DEF Bytes
<1>2. Len(x[3]) \in Nat
  BY LenProperties DEF IsItem
<1>3. CASE x[2] = "int"
  <2>1. x[3] \in Seq(Bytes) /\ Len(x[3]) \in Widths
    BY <1>3 DEF IsItem
  <2>2. htonl(x[3]) \in Seq(Bytes) /\ Len(htonl(x[3])) = Len(x[3])
    BY <2>1, htonlOK
  <2> QED
    BY <1>1, <1>2, <1>3, <2>2, SeqMonotonic DEF Form
<1>4. CASE x[2] # "int"
  <2>1. x[3] \in Seq(Bytes)
    BY DEF IsItem
  <2> QED
    BY <1>1, <1>2, <1>4, <2>1, SeqMonotonic DEF Form
<1> QED
  BY <1>3, <1>4

LEMMA BufferInitOK == BufferInit => BufferInv
<1> SUFFICES ASSUME BufferInit
             PROVE  BufferInv
  OBVIOUS
<1> USE BufferAssumption DEF BufferInit
<1>1. base \in Seq(Nat) /\ Len(base) = Size
  BY ZerosOK
<1>2. arrived = 0 /\ taken = 0 /\ rd_pos = 0 /\ wr_pos = 0 /\ Size \in Nat /\ MaxArrive \in Nat
  OBVIOUS
<1>5. BufferTypeOK
  <2>1. arrived \in 0..MaxArrive /\ taken \in 0..arrived
    BY <1>2
  <2>2. /\ short \in BOOLEAN /\ late \in BOOLEAN /\ user \in {"client", "recv", "message"}
        /\ overrun \in BOOLEAN /\ spilled \in BOOLEAN
    OBVIOUS
  <2> QED
    BY <1>1, <1>2, <2>1, <2>2 DEF BufferTypeOK
<1>6. PositionsOK
  BY <1>2 DEF PositionsOK
<1>7. WritesInside
  BY <1>1, <1>2 DEF WritesInside, GetSize
<1>3. ItemsOK /\ Receiving
  BY DEF ItemsOK, Receiving
<1>4. ReadsBack
  BY DEF ReadsBack, Nothing
<1> QED
  BY <1>3, <1>4, <1>5, <1>6, <1>7 DEF BufferInv

(* What is put goes behind all that is there.                              *)
LEMMA PutStep ==
  ASSUME BufferInv, NEW kind, NEW bytes, IsItem(<<0, kind, bytes>>),
         Put(kind, Form(<<0, kind, bytes>>), bytes)
  PROVE  BufferInv'
<1>n. PICK new, s : new = <<wr_pos, kind, bytes>> /\ s = Form(<<0, kind, bytes>>)
  OBVIOUS
<1>1. /\ base \in Seq(Nat) /\ wr_pos \in Nat /\ rd_pos \in Nat /\ Len(base) \in Nat
      /\ rd_pos <= wr_pos
  BY LenProperties DEF BufferInv, BufferTypeOK, PositionsOK
<1>2. IsItem(new) /\ Form(new) = s /\ new[1] = wr_pos /\ new[3] = bytes
  BY <1>n, <1>1 DEF IsItem, Form
<1>3. s \in Seq(Nat) /\ Len(s) = Len(bytes) /\ Len(bytes) \in Nat
  BY <1>2, FormOK
<1>4. /\ base' = Stored(s)
      /\ wr_pos' = wr_pos + Len(bytes)
      /\ wr_pos > Len(base) \/ wr_pos' <= Len(base)
      /\ items' = IF wr_pos' <= Len(base) THEN items \cup {new} ELSE items
      /\ spilled' = (spilled \/ wr_pos' > Len(base))
      /\ UNCHANGED <<rd_pos, last, user, arrived, taken, short, late, overrun>>
      /\ user = "client"
  <2>1. /\ user = "client"
        /\ wr_pos > Len(base) \/ Len(s) <= Len(base) - wr_pos
        /\ base' = Stored(s)
        /\ wr_pos' = wr_pos + Len(s)
        /\ items' = IF wr_pos' <= Len(base) THEN items \cup {new} ELSE items
        /\ spilled' = (spilled \/ wr_pos' > Len(base))
        /\ UNCHANGED <<rd_pos, last, user, arrived, taken, short, late, overrun>>
    BY <1>n DEF Put, HasRoom, WriteableBytes, GetSize, recvVars
  <2> QED
    BY <1>1, <1>3, <2>1
<1>5. /\ base' \in Seq(Nat) /\ Len(base') = Len(base)
      /\ \A i \in 1..Len(base) :
           base'[i] = IF i > wr_pos /\ i <= wr_pos + Len(bytes) THEN s[i - wr_pos] ELSE base[i]
  BY <1>1, <1>3, <1>4, StoredOK
<1>6. BufferTypeOK' /\ PositionsOK' /\ WritesInside'
  <2>1. wr_pos' \in Nat /\ wr_pos <= wr_pos'
    BY <1>1, <1>3, <1>4
  <2>2. BufferTypeOK'
    BY <1>4, <1>5, <2>1 DEF BufferInv, BufferTypeOK
  <2>3. PositionsOK'
    BY <1>1, <1>4, <2>1 DEF PositionsOK
  <2>4. wr_pos' > Len(base) => overrun
    BY <1>1, <1>4, <2>1 DEF BufferInv, WritesInside, GetSize
  <2>5. WritesInside'
    BY <1>4, <1>5, <2>4 DEF BufferInv, WritesInside, GetSize
  <2> QED
    BY <2>2, <2>3, <2>5
<1>7. ItemsOK'
  <2>1. ASSUME NEW x \in items
        PROVE  IsItem(x) /\ InItsPlace(x)'
    <3>1. IsItem(x) /\ InItsPlace(x) /\ Len(x[3]) \in Nat /\ x[1] \in Nat
      BY FormOK DEF BufferInv, ItemsOK, IsItem
    <3>2. x[1] + Len(x[3]) <= wr_pos /\ x[1] + Len(x[3]) <= Len(base)
      BY <3>1 DEF InItsPlace, GetSize
    <3>3. PICK p, n : p = x[1] /\ n = Len(x[3])
      OBVIOUS
    <3>4. p \in Nat /\ n \in Nat /\ p + n <= wr_pos /\ p + n <= Len(base)
      BY <3>1, <3>2, <3>3
    <3>5. \A i \in 1..n : p + i \in 1..Len(base) /\ ~(p + i > wr_pos)
      BY <1>1, <3>4
    <3>6. \A i \in 1..n : base'[p + i] = base[p + i]
      BY <1>5, <3>5
    <3>7. p + n <= wr_pos' /\ p + n <= Len(base')
      BY <1>1, <1>3, <1>4, <1>5, <3>4
    <3> QED
      BY <3>1, <3>3, <3>6, <3>7 DEF InItsPlace, GetSize
  <2>2. ASSUME wr_pos' <= Len(base)
        PROVE  InItsPlace(new)'
    <3>1. ASSUME NEW i \in 1..Len(bytes)
          PROVE  base'[wr_pos + i] = s[i]
      <4>1. /\ wr_pos + i \in 1..Len(base)
            /\ wr_pos + i > wr_pos /\ wr_pos + i <= wr_pos + Len(bytes)
            /\ wr_pos + i - wr_pos = i
        BY <1>1, <1>3, <1>4, <2>2
      <4>2. PICK j : j = wr_pos + i
        OBVIOUS
      <4>3. base'[j] = IF j > wr_pos /\ j <= wr_pos + Len(bytes) THEN s[j - wr_pos] ELSE base[j]
        BY <1>5, <4>1, <4>2
      <4>4. j > wr_pos /\ j <= wr_pos + Len(bytes) /\ j - wr_pos = i
        BY <1>1, <1>3, <4>1, <4>2
      <4>5. base'[j] = s[j - wr_pos]
        BY <4>3, <4>4
      <4>6. base'[j] = s[i]
        BY <4>4, <4>5
      <4> QED
        BY <4>2, <4>6
    <3>2. new[1] + Len(new[3]) <= wr_pos' /\ new[1] + Len(new[3]) <= Len(base')
      BY <1>1, <1>2, <1>3, <1>4, <1>5, <2>2
    <3>3. \A i \in 1..Len(new[3]) : base'[new[1] + i] = Form(new)[i]
      BY <1>2, <3>1
    <3> QED
      BY <3>2, <3>3 DEF InItsPlace, GetSize
  <2> QED
    BY <1>2, <1>4, <2>1, <2>2 DEF ItemsOK
<1>8. Receiving' /\ ReadsBack'
  BY <1>4 DEF BufferInv, Receiving, ReadsBack
<1> QED
  BY <1>6, <1>7, <1>8 DEF BufferInv

LEMMA WriteStep ==
  ASSUME BufferInv,
         \/ \E v \in Ints : WriteInt(v)
         \/ \E s \in Strings : WriteString(s)
  PROVE  BufferInv'
<1>1. ASSUME NEW v \in Ints, WriteInt(v)
      PROVE  BufferInv'
  <2>1. IsItem(<<0, "int", v>>)
    BY BufferAssumption DEF IsItem
  <2>2. Form(<<0, "int", v>>) = htonl(v)
    BY DEF Form
  <2>3. Put("int", Form(<<0, "int", v>>), v)
    BY <1>1, <2>2 DEF WriteInt
  <2> QED
    BY <2>1, <2>3, PutStep
<1>2. ASSUME NEW s \in Strings, WriteString(s)
      PROVE  BufferInv'
  <2>1. IsItem(<<0, "string", s>>)
    BY BufferAssumption DEF IsItem
  <2>2. Form(<<0, "string", s>>) = s
    BY DEF Form
  <2>3. Put("string", Form(<<0, "string", s>>), s)
    BY <1>2, <2>2 DEF WriteString
  <2> QED
    BY <2>1, <2>3, PutStep
<1> QED
  BY <1>1, <1>2

(* What is read where an item is, as what it is, is the form it has.       *)
LEMMA UnreadIsForm ==
  ASSUME BufferInv, NEW n \in Nat, NEW x \in items, x[1] = rd_pos, Len(x[3]) = n
  PROVE  Unread(n) = Form(x)
<1>1. base \in Seq(Nat) /\ rd_pos \in Nat /\ IsItem(x) /\ InItsPlace(x)
  BY DEF BufferInv, BufferTypeOK, PositionsOK, ItemsOK
<1>2. rd_pos + n <= Len(base)
  BY <1>1 DEF InItsPlace, GetSize
<1>3. /\ Unread(n) \in Seq(Nat) /\ Len(Unread(n)) = n
      /\ \A i \in 1..n : Unread(n)[i] = base[rd_pos + i]
  BY <1>1, <1>2, UnreadOK
<1>4. Form(x) \in Seq(Nat) /\ Len(Form(x)) = n
  BY <1>1, FormOK
<1>5. \A i \in 1..n : base[rd_pos + i] = Form(x)[i]
  BY <1>1 DEF InItsPlace
<1>6. \A i \in 1..Len(Unread(n)) : Unread(n)[i] = Form(x)[i]
  BY <1>3, <1>5
<1> QED
  BY <1>3, <1>4, <1>6, SeqEqual

LEMMA GetStep ==
  ASSUME BufferInv, NEW kind, NEW n \in Nat, NEW value,
         \/ kind = "int" /\ value = htonl(Unread(n))
         \/ kind = "string" /\ value = Unread(n),
         Get(kind, n, value)
  PROVE  BufferInv'
<1>1. /\ rd_pos \in Nat /\ wr_pos \in Nat /\ rd_pos + n <= wr_pos
      /\ UNCHANGED <<base, wr_pos, items, user, arrived, taken, short, late, overrun, spilled>>
      /\ rd_pos' = rd_pos + n /\ user = "client"
  BY DEF BufferInv, PositionsOK, GetLength, Get, recvVars
<1>2. PositionsOK' /\ rd_pos' \in Nat
  BY <1>1 DEF BufferInv, PositionsOK
<1>3. BufferTypeOK' /\ ItemsOK' /\ Receiving' /\ WritesInside'
  BY <1>1, <1>2 DEF BufferInv, BufferTypeOK, ItemsOK, InItsPlace, GetSize, Receiving, WritesInside
<1>4. ReadsBack'
  <2>1. CASE last' = Nothing
    BY <2>1 DEF ReadsBack, Nothing
  <2>2. CASE last' # Nothing
    <3>1. PICK x \in items : x[1] = rd_pos /\ x[2] = kind /\ Len(x[3]) = n /\ last' = <<x, value>>
      BY <2>2 DEF Get
    <3>2. last'[1] = x /\ last'[2] = value
      BY <3>1
    <3>3. Unread(n) = Form(x) /\ IsItem(x)
      BY <1>1, <3>1, UnreadIsForm DEF BufferInv, ItemsOK
    <3>4. CASE kind = "string"
      BY <3>1, <3>2, <3>3, <3>4 DEF ReadsBack, Form
    <3>5. CASE kind = "int"
      <4>1. value = htonl(htonl(x[3])) /\ x[3] \in Seq(Bytes)
        BY <3>1, <3>3, <3>5 DEF Form, IsItem
      <4>2. ASSUME n = 4
            PROVE  value = x[3]
        <5>1. value = [i \in 1..4 |-> IF i <= 4 THEN x[3][i] ELSE 0]
          BY <3>1, <4>1, <4>2, htonlTwice
        <5>2. x[3] = [i \in 1..4 |-> x[3][i]]
          BY <3>1, <4>1, <4>2, LenProperties
        <5>3. [i \in 1..4 |-> IF i <= 4 THEN x[3][i] ELSE 0] = [i \in 1..4 |-> x[3][i]]
          OBVIOUS
        <5> QED
          BY <5>1, <5>2, <5>3
      <4>3. ASSUME n = 8
            PROVE  value = [i \in 1..8 |-> IF i <= 4 THEN x[3][i] ELSE 0]
        BY <3>1, <4>1, <4>3, htonlTwice
      <4> QED
        BY <3>1, <3>2, <3>5, <4>2, <4>3 DEF ReadsBack
    <3> QED
      BY <3>4, <3>5
  <2> QED
    BY <2>1, <2>2
<1> QED
  BY <1>2, <1>3, <1>4 DEF BufferInv

LEMMA ReadIntStringStep ==
  ASSUME BufferInv,
         \/ \E n \in Widths : ReadInt(n)
         \/ \E n \in Lengths : ReadString(n)
  PROVE  BufferInv'
<1>1. Widths \subseteq Nat /\ Lengths \subseteq Nat
  BY BufferAssumption DEF Widths
<1>2. ASSUME NEW n \in Widths, ReadInt(n)
      PROVE  BufferInv'
  BY <1>1, <1>2, GetStep DEF ReadInt
<1>3. ASSUME NEW n \in Lengths, ReadString(n)
      PROVE  BufferInv'
  BY <1>1, <1>3, GetStep DEF ReadString
<1> QED
  BY <1>2, <1>3

LEMMA ClearStep ==
  ASSUME BufferInv, Clear
  PROVE  BufferInv'
<1>1. <<>> \in Seq(Nat) /\ Len(<<>>) = 0
  BY EmptySeq
<1>2. /\ base' = <<>> /\ rd_pos' = 0 /\ wr_pos' = 0 /\ items' = {} /\ user = "client"
      /\ overrun' = FALSE /\ spilled' = FALSE
      /\ UNCHANGED <<last, user, arrived, taken, short, late>>
  BY DEF Clear, recvVars
<1>5. BufferTypeOK'
  <2>1. base' \in Seq(Nat) /\ rd_pos' \in Nat /\ wr_pos' \in Nat
    BY <1>1, <1>2
  <2>2. overrun' \in BOOLEAN /\ spilled' \in BOOLEAN
    BY <1>2
  <2> QED
    BY <1>2, <2>1, <2>2 DEF BufferInv, BufferTypeOK
<1>3. PositionsOK' /\ WritesInside'
  BY <1>1, <1>2 DEF PositionsOK, WritesInside, GetSize
<1>4. ItemsOK' /\ Receiving' /\ ReadsBack'
  BY <1>2 DEF BufferInv, ItemsOK, Receiving, ReadsBack
<1> QED
  BY <1>3, <1>4, <1>5 DEF BufferInv

(* A Resize keeps what is not cut off, and is the one that leaves the write*)
(* position past the end.                                                  *)
LEMMA ResizeStep ==
  ASSUME BufferInv, NEW n \in NewSizes, Resize(n)
  PROVE  BufferInv'
<1>1. /\ base \in Seq(Nat) /\ rd_pos \in Nat /\ wr_pos \in Nat /\ n \in Nat
      /\ base' = Resized(n) /\ user = "client"
      /\ items' = {x \in items : x[1] + Len(x[3]) <= n}
      /\ overrun' = (overrun \/ n < wr_pos)
      /\ UNCHANGED <<rd_pos, wr_pos, last, user, arrived, taken, short, late, spilled>>
  <2>1. n \in Nat
    BY BufferAssumption
  <2>2. base \in Seq(Nat) /\ rd_pos \in Nat /\ wr_pos \in Nat
    BY DEF BufferInv, BufferTypeOK
  <2> QED
    BY <2>1, <2>2 DEF Resize, recvVars
<1>2. /\ base' \in Seq(Nat) /\ Len(base') = n
      /\ \A i \in 1..n : i <= Len(base) => base'[i] = base[i]
  BY <1>1, ResizedOK
<1>7. BufferTypeOK'
  <2>1. overrun' \in BOOLEAN
    BY <1>1
  <2> QED
    BY <1>1, <1>2, <2>1 DEF BufferInv, BufferTypeOK
<1>3. PositionsOK'
  BY <1>1 DEF BufferInv, PositionsOK
<1>4. WritesInside'
  BY <1>1, <1>2 DEF BufferInv, WritesInside, GetSize
<1>5. ItemsOK'
  <2>1. ASSUME NEW x \in items'
        PROVE  IsItem(x) /\ InItsPlace(x)'
    <3>0. x \in items /\ x[1] + Len(x[3]) <= n
      BY <1>1
    <3>1. IsItem(x) /\ InItsPlace(x) /\ Len(x[3]) \in Nat /\ x[1] \in Nat
      BY <3>0, FormOK DEF BufferInv, ItemsOK, IsItem
    <3>2. PICK p, m : p = x[1] /\ m = Len(x[3])
      OBVIOUS
    <3>3. p \in Nat /\ m \in Nat /\ p + m <= n /\ p + m <= Len(base)
      BY <3>0, <3>1, <3>2 DEF InItsPlace, GetSize
    <3>4. \A i \in 1..m : p + i \in 1..n /\ p + i <= Len(base)
      BY <1>1, <3>3, LenProperties
    <3>5. \A i \in 1..m : base'[p + i] = base[p + i]
      BY <1>2, <3>4
    <3> QED
      BY <1>1, <1>2, <3>0, <3>1, <3>2, <3>5 DEF InItsPlace, GetSize
  <2> QED
    BY <2>1 DEF ItemsOK
<1>6. Receiving' /\ ReadsBack'
  BY <1>1 DEF BufferInv, Receiving, ReadsBack
<1> QED
  BY <1>3, <1>4, <1>5, <1>6, <1>7 DEF BufferInv

(* skip stops at the end, skipAll need not.                                *)
LEMMA SkipStep ==
  ASSUME BufferInv, SkipAll \/ \E n \in Lengths : Skip(n)
  PROVE  BufferInv'
<1>1. /\ base \in Seq(Nat) /\ Len(base) \in Nat /\ rd_pos \in Nat /\ wr_pos \in Nat
      /\ rd_pos <= wr_pos /\ user = "client"
      /\ UNCHANGED <<base, rd_pos, items, last, user, arrived, taken, short, late, spilled>>
  BY LenProperties DEF BufferInv, BufferTypeOK, PositionsOK, SkipAll, Skip, recvVars
<1>2. /\ wr_pos' \in Nat /\ wr_pos <= wr_pos' /\ overrun' \in BOOLEAN
      /\ overrun => overrun'
      /\ wr_pos' > Len(base) => overrun'
  <2>1. CASE SkipAll
    <3>1. /\ wr_pos' = wr_pos + (wr_pos - rd_pos)
          /\ overrun' = (overrun \/ wr_pos' > Len(base))
      BY <2>1 DEF SkipAll, GetLength, GetSize
    <3>2. wr_pos' \in Nat /\ wr_pos <= wr_pos'
      BY <1>1, <3>1
    <3>3. /\ overrun' \in BOOLEAN
          /\ overrun => overrun'
          /\ wr_pos' > Len(base) => overrun'
      BY <3>1
    <3> QED
      BY <3>2, <3>3
  <2>2. ASSUME NEW n \in Lengths, Skip(n)
        PROVE  /\ wr_pos' \in Nat /\ wr_pos <= wr_pos' /\ overrun' \in BOOLEAN
               /\ overrun => overrun'
               /\ wr_pos' > Len(base) => overrun'
    <3>1. wr_pos' = wr_pos + (IF wr_pos > Len(base) THEN n ELSE Least(Len(base) - wr_pos, n))
      BY <2>2 DEF Skip, skip, WriteableBytes, GetSize
    <3>2. n \in Nat
      BY BufferAssumption
    <3>3. CASE wr_pos > Len(base)
      BY <1>1, <2>2, <3>1, <3>2, <3>3 DEF Skip, BufferInv, BufferTypeOK, WritesInside, GetSize
    <3>4. CASE ~(wr_pos > Len(base))
      <4>1. Least(Len(base) - wr_pos, n) \in Nat /\ Least(Len(base) - wr_pos, n) <= Len(base) - wr_pos
        BY <1>1, <3>2, <3>4 DEF Least
      <4>2. wr_pos' = wr_pos + Least(Len(base) - wr_pos, n)
        BY <3>1, <3>4
      <4> HIDE DEF Least
      <4>3. wr_pos' \in Nat /\ wr_pos <= wr_pos' /\ wr_pos' <= Len(base)
        BY <1>1, <4>1, <4>2
      <4> QED
        BY <1>1, <2>2, <4>3 DEF Skip, BufferInv, BufferTypeOK
    <3> QED
      BY <3>3, <3>4
  <2> QED
    BY <2>1, <2>2
<1>3. BufferTypeOK' /\ PositionsOK'
  BY <1>1, <1>2 DEF BufferInv, BufferTypeOK, PositionsOK
<1>4. WritesInside'
  BY <1>1, <1>2 DEF BufferInv, WritesInside, GetSize
<1>5. ItemsOK'
  <2>1. ASSUME NEW x \in items
        PROVE  IsItem(x) /\ InItsPlace(x)'
    <3>1. IsItem(x) /\ InItsPlace(x) /\ Len(x[3]) \in Nat /\ x[1] \in Nat
      BY FormOK DEF BufferInv, ItemsOK, IsItem
    <3> QED
      BY <1>1, <1>2, <3>1 DEF InItsPlace, GetSize
  <2> QED
    BY <1>1, <2>1 DEF ItemsOK
<1>6. Receiving' /\ ReadsBack'
  BY <1>1 DEF BufferInv, Receiving, ReadsBack
<1> QED
  BY <1>3, <1>4, <1>5, <1>6 DEF BufferInv

-----------------------------------------------------------------------------
(* recv_message.                                                           *)

LEMMA MakeBufferStep ==
  ASSUME BufferInv, MakeBuffer
  PROVE  BufferInv'
<1>1. base' = Zeros(Offset) /\ Offset \in Nat \ {0} /\ MaxArrive \in Nat
  BY BufferAssumption DEF MakeBuffer
<1>2. base' \in Seq(Nat) /\ Len(base') = Offset
  BY <1>1, ZerosOK
<1>3. /\ rd_pos' = 0 /\ wr_pos' = 0 /\ items' = {} /\ last' = Nothing /\ user' = "recv"
      /\ taken' = 0 /\ arrived' \in 1..MaxArrive
      /\ overrun' = FALSE /\ spilled' = FALSE
      /\ UNCHANGED <<short, late>>
  BY DEF MakeBuffer, BufferInv, Receiving
<1>4. BufferTypeOK'
  <2>1. arrived' \in 0..MaxArrive /\ taken' \in 0..arrived'
    BY <1>1, <1>3
  <2>2. user' \in {"client", "recv", "message"} /\ short' \in BOOLEAN /\ late' \in BOOLEAN
    BY <1>3 DEF BufferInv, BufferTypeOK
  <2> QED
    BY <1>2, <1>3, <2>1, <2>2 DEF BufferTypeOK
<1>5. PositionsOK' /\ WritesInside'
  BY <1>1, <1>2, <1>3 DEF PositionsOK, WritesInside, GetSize
<1>6. RoomForNext'
  BY <1>1, <1>2, <1>3 DEF RoomForNext, GetSize
<1>7. ItemsOK' /\ Receiving'
  BY <1>3, <1>6 DEF ItemsOK, Receiving
<1>8. ReadsBack'
  BY <1>3 DEF ReadsBack, Nothing
<1> QED
  BY <1>4, <1>5, <1>7, <1>8 DEF BufferInv

LEMMA ArriveStep ==
  ASSUME BufferInv, Arrive \/ MessageRecv
  PROVE  BufferInv'
<1>1. /\ UNCHANGED <<base, rd_pos, wr_pos, items, last, taken, short, late, overrun, spilled>>
      /\ user = "recv" /\ user' \in {"recv", "message"}
      /\ arrived' = arrived \/ (arrived < MaxArrive /\ arrived' = arrived + 1)
  BY DEF Arrive, MessageRecv, bufferVars
<1>2. BufferTypeOK'
  <2>1. arrived' \in 0..MaxArrive /\ taken' \in 0..arrived'
    BY <1>1, BufferAssumption DEF BufferInv, BufferTypeOK
  <2>2. user' \in {"client", "recv", "message"} /\ short' \in BOOLEAN /\ late' \in BOOLEAN
    BY <1>1 DEF BufferInv, BufferTypeOK
  <2>3. /\ base' \in Seq(Nat) /\ overrun' \in BOOLEAN /\ spilled' \in BOOLEAN
        /\ rd_pos' \in Nat /\ wr_pos' \in Nat
    BY <1>1 DEF BufferInv, BufferTypeOK
  <2> QED
    BY <2>1, <2>2, <2>3 DEF BufferTypeOK
<1>3. PositionsOK' /\ WritesInside' /\ ReadsBack'
  BY <1>1 DEF BufferInv, PositionsOK, WritesInside, GetSize, ReadsBack
<1>4. RoomForNext' = RoomForNext
  BY <1>1 DEF RoomForNext, GetSize
<1>5. ItemsOK' /\ Receiving'
  BY <1>1, <1>4 DEF BufferInv, ItemsOK, Receiving
<1> QED
  BY <1>2, <1>3, <1>5 DEF BufferInv

LEMMA ReadStep ==
  ASSUME BufferInv, Read
  PROVE  BufferInv'
<1>n. PICK n, s, b, pos :
        /\ n = Available /\ s = [i \in 1..n |-> taken + i] /\ b = Stored(s) /\ pos = skip(n)
  OBVIOUS
<1>1. /\ base \in Seq(Nat) /\ Len(base) \in Nat /\ rd_pos = 0 /\ wr_pos \in Nat /\ items = {}
      /\ wr_pos <= Len(base) /\ user = "recv" /\ overrun = FALSE
      /\ arrived \in 0..MaxArrive /\ taken \in 0..arrived /\ MaxArrive \in Nat /\ Offset \in Nat \ {0}
  BY BufferAssumption, LenProperties
     DEF BufferInv, BufferTypeOK, WritesInside, GetSize, Receiving, Read
<1>2. /\ n \in Nat /\ 0 < n /\ n <= Offset /\ n <= arrived - taken
  BY <1>n, <1>1 DEF Read, Available, Least
<1>3. s \in Seq(Nat) /\ Len(s) = n /\ \A i \in 1..n : s[i] = taken + i
  <2>1. s \in [1..n -> Nat]
    BY <1>n, <1>1, <1>2
  <2> QED
    BY <1>n, <1>2, <2>1, FunctionIsSeq
<1>4. /\ b \in Seq(Nat) /\ Len(b) = Len(base)
      /\ \A i \in 1..Len(base) :
           b[i] = IF i > wr_pos /\ i <= wr_pos + n THEN s[i - wr_pos] ELSE base[i]
  BY <1>n, <1>1, <1>3, StoredOK
<1>5. /\ pos \in Nat /\ wr_pos <= pos /\ pos <= Len(b)
      /\ n <= Len(base) - wr_pos => pos = wr_pos + n
  BY <1>n, <1>1, <1>2, <1>4 DEF skip, Least, WriteableBytes, GetSize
<1>6. /\ wr_pos' = pos /\ base' = Grown(b, pos, n) /\ taken' = taken + n
      /\ late' = (late \/ short)
      /\ short' = (short \/ n < Offset)
      /\ spilled' = (spilled \/ wr_pos + n > Len(base))
      /\ UNCHANGED <<rd_pos, items, last, user, arrived, overrun>>
  BY <1>n DEF Read, GetSize
<1>7. /\ base' \in Seq(Nat) /\ Len(b) <= Len(base') /\ Len(base') \in Nat
      /\ \A i \in 1..Len(b) : base'[i] = b[i]
      /\ n = Offset => Len(base') - pos >= Offset
  <2>1. /\ Grown(b, pos, n) \in Seq(Nat)
        /\ Len(b) <= Len(Grown(b, pos, n))
        /\ \A i \in 1..Len(b) : Grown(b, pos, n)[i] = b[i]
        /\ n = Offset => Len(Grown(b, pos, n)) - pos >= Offset
    BY <1>1, <1>2, <1>4, <1>5, GrownOK
  <2> QED
    BY <1>6, <2>1, LenProperties
<1>8. BufferTypeOK'
  <2>1. arrived' \in 0..MaxArrive /\ taken' \in 0..arrived'
    BY <1>1, <1>2, <1>6
  <2>2. /\ user' \in {"client", "recv", "message"} /\ short' \in BOOLEAN /\ late' \in BOOLEAN
        /\ overrun' \in BOOLEAN /\ spilled' \in BOOLEAN
    BY <1>1, <1>6 DEF BufferInv, BufferTypeOK
  <2>3. rd_pos' \in Nat /\ wr_pos' \in Nat
    BY <1>1, <1>5, <1>6
  <2> QED
    BY <1>7, <2>1, <2>2, <2>3 DEF BufferTypeOK
<1>9. PositionsOK'
  BY <1>1, <1>5, <1>6 DEF PositionsOK
<1>10. ASSUME ~late'
       PROVE  RoomForNext'
  <2>1. ~late /\ ~short
    BY <1>6, <1>10
  <2>2. /\ wr_pos = taken /\ (\A i \in 1..taken : base[i] = i) /\ Len(base) - wr_pos >= Offset
        /\ ~spilled
    BY <1>1, <2>1 DEF BufferInv, Receiving, RoomForNext, GetSize
  <2>3. pos = taken + n /\ wr_pos' = taken' /\ taken' = taken + n
    BY <1>1, <1>2, <1>5, <1>6, <2>2
  <2>4. ASSUME NEW i \in 1..(taken + n)
        PROVE  base'[i] = i
    <3>1. i \in 1..Len(base) /\ i \in Nat
      BY <1>1, <1>2, <2>2
    <3>2. base'[i] = b[i]
      BY <1>4, <1>7, <3>1
    <3>3. CASE i <= taken
      <4>1. i \in 1..taken /\ ~(i > wr_pos)
        BY <1>1, <2>2, <3>1, <3>3
      <4> QED
        BY <1>4, <2>2, <3>1, <3>2, <4>1
    <3>4. CASE i > taken
      <4>1. PICK j : j = i - taken
        OBVIOUS
      <4>2. j \in 1..n /\ taken + j = i /\ i > wr_pos /\ i <= wr_pos + n /\ i - wr_pos = j
        BY <1>1, <1>2, <2>2, <3>1, <3>4, <4>1
      <4>3. b[i] = s[j]
        BY <1>4, <3>1, <4>2
      <4> QED
        BY <1>3, <3>2, <4>2, <4>3
    <3> QED
      BY <1>1, <3>1, <3>3, <3>4
  <2>5. ~short' => Len(base') - wr_pos' >= Offset
    <3>1. ~short' => ~(n < Offset)
      BY <1>6
    <3>2. ~(n < Offset) => n = Offset
      BY <1>1, <1>2
    <3> QED
      BY <1>6, <1>7, <3>1, <3>2
  <2>6. ~spilled'
    <3>1. ~(wr_pos + n > Len(base))
      BY <1>1, <1>2, <2>2
    <3> QED
      BY <1>6, <2>2, <3>1
  <2> QED
    BY <2>3, <2>4, <2>5, <2>6 DEF RoomForNext, GetSize
<1>12. WritesInside'
  <2>1. ~late' => ~spilled'
    BY <1>10 DEF RoomForNext
  <2>2. ~(wr_pos' > Len(base'))
    BY <1>1, <1>4, <1>5, <1>6, <1>7
  <2> QED
    BY <2>1, <2>2 DEF WritesInside, GetSize
<1>11. ItemsOK' /\ ReadsBack' /\ Receiving'
  <2>1. ItemsOK' /\ Receiving'
    BY <1>1, <1>6, <1>10 DEF ItemsOK, Receiving
  <2>2. ReadsBack'
    BY <1>6 DEF BufferInv, ReadsBack
  <2> QED
    BY <2>1, <2>2
<1> QED
  BY <1>8, <1>9, <1>11, <1>12 DEF BufferInv

LEMMA BufferStep == BufferInv /\ [BufferNext]_vars => BufferInv'
<1> SUFFICES ASSUME BufferInv, [BufferNext]_vars
             PROVE  BufferInv'
  OBVIOUS
<1>1. CASE UNCHANGED vars
  <2>1. UNCHANGED <<base, rd_pos, wr_pos, items, last, user, arrived, taken, short, late, overrun,
                    spilled>>
    BY <1>1 DEF vars, bufferVars, recvVars
  <2>2. BufferTypeOK' /\ PositionsOK' /\ WritesInside' /\ ReadsBack'
    BY <2>1 DEF BufferInv, BufferTypeOK, PositionsOK, WritesInside, GetSize, ReadsBack
  <2>3. ItemsOK' /\ Receiving'
    BY <2>1 DEF BufferInv, ItemsOK, InItsPlace, GetSize, Receiving, RoomForNext
  <2> QED
    BY <2>2, <2>3 DEF BufferInv
<1>2. CASE \/ \E v \in Ints : WriteInt(v)
           \/ \E x \in Strings : WriteString(x)
  BY <1>2, WriteStep
<1>3. CASE \E n \in Widths : ReadInt(n)
  BY <1>3, ReadIntStringStep
<1>4. ASSUME NEW n \in Lengths, ReadString(n) \/ Skip(n)
      PROVE  BufferInv'
  BY <1>4, ReadIntStringStep, SkipStep
<1>5. ASSUME NEW n \in NewSizes, Resize(n)
      PROVE  BufferInv'
  BY <1>5, ResizeStep
<1>6. CASE SkipAll \/ Clear
  BY <1>6, SkipStep, ClearStep
<1>7. CASE Arrive \/ MakeBuffer \/ Read \/ MessageRecv
  BY <1>7, MakeBufferStep, ArriveStep, ReadStep
<1> QED
  BY <1>1, <1>2, <1>3, <1>4, <1>5, <1>6, <1>7 DEF BufferNext

LEMMA BufferAlways == BufferSpec => []BufferInv
BY BufferInitOK, BufferStep, PTL DEF BufferSpec

-----------------------------------------------------------------------------
(* A buffer holds bytes.                                                   *)
THEOREM BufferTypeCorrect == BufferSpec => []BufferTypeOK
<1>1. BufferInv => BufferTypeOK
  BY DEF BufferInv
<1> QED
  BY <1>1, BufferAlways, PTL

(* Nothing is written outside the vector but after a Resize below the write*)
(* position or a skipAll past the end (IOBufferPtr.cpp:68, .h:74), or when *)
(* data came in after a read that was not a full one (TcpService.cpp:283). *)
THEOREM WritesInsideCorrect == BufferSpec => []WritesInside
<1>1. BufferInv => WritesInside
  BY DEF BufferInv
<1> QED
  BY <1>1, BufferAlways, PTL

(* A string or a 4-byte integer that is read where and as it was written   *)
(* comes back, of an 8-byte integer the low half (IOBufferPtr.cpp:24, 39). *)
THEOREM ReadsBackCorrect == BufferSpec => []ReadsBack
<1>1. BufferInv => ReadsBack
  BY DEF BufferInv
<1> QED
  BY <1>1, BufferAlways, PTL

(* The message function gets every byte that was read, in order, however   *)
(* often the buffer grew, if no data came in after a read that was not a   *)
(* full one (TcpService.cpp:283).                                          *)
THEOREM RecvKeepsAllCorrect == BufferSpec => []RecvKeepsAll
<1>1. BufferInv => RecvKeepsAll
  <2> SUFFICES ASSUME BufferInv, user = "message", ~late
               PROVE  GetLength = taken /\ \A i \in 1..taken : base[rd_pos + i] = i
    BY DEF RecvKeepsAll
  <2>1. rd_pos = 0 /\ wr_pos = taken /\ \A i \in 1..taken : base[i] = i
    BY DEF BufferInv, Receiving, RoomForNext
  <2>2. taken \in Nat
    BY BufferAssumption DEF BufferInv, BufferTypeOK
  <2>3. GetLength = taken
    BY <2>1, <2>2 DEF GetLength
  <2>4. \A i \in 1..taken : rd_pos + i = i
    BY <2>1, <2>2
  <2> QED
    BY <2>1, <2>3, <2>4
<1> QED
  BY <1>1, BufferAlways, PTL

-----------------------------------------------------------------------------
(* The log.  Its cells of g messages, and what a file may hold of them.    *)

MessageCells(g) == (1..g) \X Nat
FileCells(g) == (0..g) \X Nat

LEMMA CellsOfMessages ==
  ASSUME NEW g \in Nat
  PROVE  /\ Garbage \in FileCells(g)
         /\ \A x \in MessageCells(g) :
              x \in FileCells(g) /\ x \in MessageCells(g + 1) /\ x # Garbage /\ x[1] \in 1..g
         /\ \A x \in FileCells(g) : x \in FileCells(g + 1) /\ x[1] \in 0..g
  BY DEF MessageCells, FileCells, Garbage

(* With one more message, what was a buffer or the files still is.         *)
LEMMA OneMore ==
  ASSUME NEW g \in Nat
  PROVE  /\ \A b \in Seq(MessageCells(g)) : b \in Seq(MessageCells(g + 1))
         /\ \A b \in Seq(MessageCells(g)) : b \in Seq(FileCells(g))
         /\ \A f \in Seq(Seq(FileCells(g))) : f \in Seq(Seq(FileCells(g + 1)))
<1>1. MessageCells(g) \subseteq MessageCells(g + 1) /\ MessageCells(g) \subseteq FileCells(g)
      /\ FileCells(g) \subseteq FileCells(g + 1)
  BY CellsOfMessages
<1>2. Seq(FileCells(g)) \subseteq Seq(FileCells(g + 1))
  BY <1>1, SeqMonotonic
<1> QED
  BY <1>1, <1>2, SeqMonotonic

(* NothingTwice of any buffer b and files f: no two cells of b are the     *)
(* same, none is in a file, and none is at two places of the files.        *)
BufferOnce(b) == \A i, j \in 1..Len(b) : i # j => b[i] # b[j]
NotWritten(b, f) ==
  \A i \in 1..Len(b) : \A n \in 1..Len(f) : \A k \in 1..Len(f[n]) : f[n][k] # b[i]
WrittenOnce(f) ==
  \A n, m \in 1..Len(f) : \A k \in 1..Len(f[n]), l \in 1..Len(f[m]) :
    (n # m \/ k # l) /\ f[n][k] # Garbage => f[n][k] # f[m][l]
Once(b, f) == BufferOnce(b) /\ NotWritten(b, f) /\ WrittenOnce(f)

(* A new message goes in front: its number is nowhere yet.                 *)
LEMMA FreshInFront ==
  ASSUME NEW g \in Nat, NEW b \in Seq(MessageCells(g)), NEW f \in Seq(Seq(FileCells(g))),
         NEW size \in Nat,
         Once(b, f)
  PROVE  LET c == [i \in 1..size |-> <<g + 1, i>>]
         IN  c \o b \in Seq(MessageCells(g + 1)) /\ Once(c \o b, f)
<1> DEFINE c == [i \in 1..size |-> <<g + 1, i>>]
<1>1. c \in Seq(MessageCells(g + 1)) /\ Len(c) = size
  <2>1. c \in [1..size -> MessageCells(g + 1)]
    BY DEF MessageCells
  <2> QED
    BY <2>1, FunctionIsSeq
<1>2. b \in Seq(MessageCells(g + 1)) /\ Len(b) \in Nat
  BY OneMore, LenProperties
<1>3. /\ c \o b \in Seq(MessageCells(g + 1))
      /\ Len(c \o b) = size + Len(b)
      /\ \A i \in 1..(size + Len(b)) : (c \o b)[i] = IF i <= size THEN c[i] ELSE b[i - size]
  BY <1>1, <1>2, ConcatProperties
<1>4. \A i \in 1..size : c[i] = <<g + 1, i>>
  OBVIOUS
<1>5. \A i \in 1..Len(b) : b[i][1] \in 1..g
  BY ElementOfSeq, CellsOfMessages
<1>6. \A n \in 1..Len(f) : \A k \in 1..Len(f[n]) : f[n][k][1] \in 0..g
  BY ElementOfSeq, CellsOfMessages
<1> HIDE DEF c
<1>7. \A i \in 1..size : c[i][1] = g + 1 /\ c[i][2] = i
  BY <1>4
<1>8. BufferOnce(c \o b)
  <2> SUFFICES ASSUME NEW i \in 1..(size + Len(b)), NEW j \in 1..(size + Len(b)), i # j
               PROVE  (c \o b)[i] # (c \o b)[j]
    BY <1>3 DEF BufferOnce
  <2>1. i \in Int /\ j \in Int
    OBVIOUS
  <2>2. CASE i <= size /\ j <= size
    <3>1. i \in 1..size /\ j \in 1..size
      BY <2>2
    <3> QED
      BY <1>3, <1>7, <2>2, <3>1
  <2>3. CASE ~(i <= size) /\ ~(j <= size)
    <3>1. i - size \in 1..Len(b) /\ j - size \in 1..Len(b) /\ i - size # j - size
      BY <1>2, <2>3
    <3>2. b[i - size] # b[j - size]
      BY <3>1 DEF Once, BufferOnce
    <3> QED
      BY <1>3, <2>3, <3>2
  <2>4. CASE i <= size /\ ~(j <= size)
    <3>1. i \in 1..size /\ j - size \in 1..Len(b)
      BY <1>2, <2>4
    <3>2. c[i][1] # b[j - size][1]
      BY <1>5, <1>7, <3>1
    <3> QED
      BY <1>3, <2>4, <3>2
  <2>5. CASE ~(i <= size) /\ j <= size
    <3>1. j \in 1..size /\ i - size \in 1..Len(b)
      BY <1>2, <2>5
    <3>2. c[j][1] # b[i - size][1]
      BY <1>5, <1>7, <3>1
    <3> QED
      BY <1>3, <2>5, <3>2
  <2> QED
    BY <2>2, <2>3, <2>4, <2>5
<1>9. NotWritten(c \o b, f)
  <2> SUFFICES ASSUME NEW i \in 1..(size + Len(b)), NEW n \in 1..Len(f), NEW k \in 1..Len(f[n])
               PROVE  f[n][k] # (c \o b)[i]
    BY <1>3 DEF NotWritten
  <2>1. CASE i <= size
    <3>1. i \in 1..size
      BY <2>1
    <3>2. f[n][k][1] # c[i][1]
      BY <1>6, <1>7, <3>1
    <3> QED
      BY <1>3, <2>1, <3>2
  <2>2. CASE ~(i <= size)
    <3>1. i - size \in 1..Len(b)
      BY <1>2, <2>2
    <3>2. f[n][k] # b[i - size]
      BY <3>1 DEF Once, NotWritten
    <3> QED
      BY <1>3, <2>2, <3>2
  <2> QED
    BY <2>1, <2>2
<1> QED
  BY <1>3, <1>8, <1>9 DEF Once, c

LEMMA PastTheFirst ==
  ASSUME NEW l \in Nat, NEW n \in Nat, NEW k \in 1..(l + n), ~(k <= l)
  PROVE  k - l \in 1..n
OBVIOUS

(* A part of the buffer goes to a file, with other memory for some cells,  *)
(* and leaves the buffer.                                                  *)
LEMMA PartMoves ==
  ASSUME NEW g \in Nat, NEW b \in Seq(MessageCells(g)), NEW f \in Seq(Seq(FileCells(g))),
         NEW x \in 1..Len(f), NEW part \in 0..Len(b),
         NEW s \in Seq(FileCells(g)), Len(s) = part,
         \A i \in 1..part : s[i] \in {b[i], Garbage}
  PROVE  /\ SubSeq(b, part + 1, Len(b)) \in Seq(MessageCells(g))
         /\ [f EXCEPT ![x] = @ \o s] \in Seq(Seq(FileCells(g)))
         /\ Len([f EXCEPT ![x] = @ \o s]) = Len(f)
         /\ Once(b, f) => Once(SubSeq(b, part + 1, Len(b)), [f EXCEPT ![x] = @ \o s])
<1> DEFINE r == SubSeq(b, part + 1, Len(b))
           h == [f EXCEPT ![x] = @ \o s]
<1>0. Len(b) \in Nat /\ part \in Nat /\ part <= Len(b) /\ Len(f) \in Nat
  BY LenProperties
<1>1. /\ r \in Seq(MessageCells(g))
      /\ Len(r) = Len(b) - part
      /\ \A i \in 1..Len(r) : i + part \in 1..Len(b) /\ r[i] = b[i + part]
  <2>1. \A i \in (part + 1)..Len(b) : b[i] \in MessageCells(g)
    BY <1>0, ElementOfSeq
  <2>2. /\ r \in Seq(MessageCells(g))
        /\ Len(r) = IF part + 1 <= Len(b) THEN Len(b) - (part + 1) + 1 ELSE 0
        /\ \A i \in 1..(Len(b) - (part + 1) + 1) : r[i] = b[part + 1 + i - 1]
    BY <1>0, <2>1, SubSeqProperties
  <2>3. Len(r) = Len(b) - part /\ Len(b) - (part + 1) + 1 = Len(b) - part
    BY <1>0, <2>2
  <2>4. ASSUME NEW i \in 1..(Len(b) - part) PROVE i + part \in 1..Len(b) /\ r[i] = b[i + part]
    <3>1. part + 1 + i - 1 = i + part /\ i + part \in 1..Len(b)
      BY <1>0
    <3> QED
      BY <2>2, <2>3, <3>1
  <2> QED
    BY <2>2, <2>3, <2>4
<1>2. /\ f[x] \in Seq(FileCells(g)) /\ Len(f[x]) \in Nat
      /\ f[x] \o s \in Seq(FileCells(g))
      /\ Len(f[x] \o s) = Len(f[x]) + part
      /\ \A i \in 1..(Len(f[x]) + part) :
           (f[x] \o s)[i] = IF i <= Len(f[x]) THEN f[x][i] ELSE s[i - Len(f[x])]
  <2>1. f[x] \in Seq(FileCells(g))
    BY ElementOfSeq
  <2> QED
    BY <2>1, ConcatProperties, LenProperties
<1>3. /\ h \in Seq(Seq(FileCells(g)))
      /\ Len(h) = Len(f)
      /\ \A n \in 1..Len(f) : h[n] = IF n = x THEN f[x] \o s ELSE f[n]
  <2>1. h = [f EXCEPT ![x] = f[x] \o s]
    OBVIOUS
  <2> QED
    BY <1>2, <2>1, ExceptSeq
<1> HIDE DEF r, h
<1>4. ASSUME NEW n \in 1..Len(h), NEW k \in 1..Len(h[n])
      PROVE  \/ k \in 1..Len(f[n]) /\ h[n][k] = f[n][k]
             \/ /\ n = x /\ k - Len(f[x]) \in 1..part
                /\ h[n][k] \in {b[k - Len(f[x])], Garbage}
  <2>1. CASE n # x
    BY <1>3, <2>1
  <2>2. CASE n = x /\ k <= Len(f[x])
    <3>1. h[n] = f[x] \o s /\ k \in 1..(Len(f[x]) + part)
      BY <1>2, <1>3, <2>2
    <3>2. k \in 1..Len(f[x])
      BY <1>2, <2>2, <3>1
    <3> QED
      BY <1>2, <2>2, <3>1, <3>2
  <2>3. CASE n = x /\ ~(k <= Len(f[x]))
    <3>1. k \in 1..(Len(f[x]) + part) /\ h[n][k] = s[k - Len(f[x])]
      BY <1>2, <1>3, <2>3
    <3>2. Len(f[x]) \in Nat /\ part \in Nat
      BY <1>0, <1>2
    <3>3. k - Len(f[x]) \in 1..part
      BY <2>3, <3>1, <3>2, PastTheFirst
    <3> QED
      BY <2>3, <3>1, <3>3
  <2> QED
    BY <2>1, <2>2, <2>3
<1>5. \A a \in 1..part : a \in 1..Len(b)
  BY <1>0
<1>6. ASSUME Once(b, f) PROVE Once(r, h)
  <2> USE <1>6 DEF Once
  <2>1. BufferOnce(r)
    <3> SUFFICES ASSUME NEW i \in 1..Len(r), NEW j \in 1..Len(r), i # j PROVE r[i] # r[j]
      BY DEF BufferOnce
    <3>1. i + part # j + part
      BY <1>0
    <3>2. i + part \in 1..Len(b) /\ j + part \in 1..Len(b)
      BY <1>1
    <3>3. b[i + part] # b[j + part]
      BY <3>1, <3>2 DEF BufferOnce
    <3> QED
      BY <1>1, <3>3
  <2>2. NotWritten(r, h)
    <3> SUFFICES ASSUME NEW i \in 1..Len(r), NEW n \in 1..Len(h), NEW k \in 1..Len(h[n])
                 PROVE  h[n][k] # r[i]
      BY DEF NotWritten
    <3>1. i + part \in 1..Len(b) /\ r[i] = b[i + part] /\ n \in 1..Len(f)
      BY <1>1, <1>3
    <3>2. CASE k \in 1..Len(f[n]) /\ h[n][k] = f[n][k]
      BY <3>1, <3>2 DEF NotWritten
    <3>3. CASE k - Len(f[x]) \in 1..part /\ h[n][k] \in {b[k - Len(f[x])], Garbage}
      <4>1. k - Len(f[x]) \in 1..Len(b) /\ k - Len(f[x]) # i + part
        <5>1. \A a \in 1..part : a \in 1..Len(b) /\ a # i + part
          BY <1>0
        <5> QED
          BY <3>3, <5>1
      <4>2. b[k - Len(f[x])] # b[i + part]
        BY <3>1, <4>1 DEF BufferOnce
      <4>3. b[i + part] # Garbage
        BY <3>1, ElementOfSeq, CellsOfMessages
      <4> QED
        BY <3>1, <3>3, <4>2, <4>3
    <3> QED
      BY <1>4, <3>2, <3>3
  <2>3. WrittenOnce(h)
    <3> SUFFICES ASSUME NEW n \in 1..Len(h), NEW m \in 1..Len(h)
                 PROVE  \A k \in 1..Len(h[n]), l \in 1..Len(h[m]) :
                          (n # m \/ k # l) /\ h[n][k] # Garbage => h[n][k] # h[m][l]
      BY DEF WrittenOnce
    <3> TAKE k \in 1..Len(h[n]), l \in 1..Len(h[m])
    <3> HAVE (n # m \/ k # l) /\ h[n][k] # Garbage
    <3>0. n \in 1..Len(f) /\ m \in 1..Len(f)
      BY <1>3
    <3>1. CASE k \in 1..Len(f[n]) /\ h[n][k] = f[n][k] /\ l \in 1..Len(f[m]) /\ h[m][l] = f[m][l]
      <4>1. \A i \in 1..Len(f[n]), j \in 1..Len(f[m]) :
              (n # m \/ i # j) /\ f[n][i] # Garbage => f[n][i] # f[m][j]
        BY <3>0 DEF WrittenOnce
      <4> QED
        BY <3>1, <4>1
    <3>2. CASE /\ k \in 1..Len(f[n]) /\ h[n][k] = f[n][k]
               /\ m = x /\ l - Len(f[x]) \in 1..part
               /\ h[m][l] \in {b[l - Len(f[x])], Garbage}
      <4>1. l - Len(f[x]) \in 1..Len(b)
        BY <1>5, <3>2
      <4> QED
        BY <3>0, <3>2, <4>1 DEF NotWritten
    <3>3. CASE /\ l \in 1..Len(f[m]) /\ h[m][l] = f[m][l]
               /\ n = x /\ k - Len(f[x]) \in 1..part
               /\ h[n][k] \in {b[k - Len(f[x])], Garbage}
      <4>1. k - Len(f[x]) \in 1..Len(b)
        BY <1>5, <3>3
      <4> QED
        BY <3>0, <3>3, <4>1 DEF NotWritten
    <3>4. CASE /\ n = x /\ k - Len(f[x]) \in 1..part
               /\ h[n][k] \in {b[k - Len(f[x])], Garbage}
               /\ m = x /\ l - Len(f[x]) \in 1..part
               /\ h[m][l] \in {b[l - Len(f[x])], Garbage}
      <4>1. k \in Int /\ l \in Int /\ k # l
        BY <1>2, <1>3, <3>4
      <4>2. k - Len(f[x]) \in 1..Len(b) /\ l - Len(f[x]) \in 1..Len(b)
        BY <1>5, <3>4
      <4>3. k - Len(f[x]) # l - Len(f[x])
        BY <1>2, <4>1
      <4>4. b[k - Len(f[x])] # b[l - Len(f[x])]
        BY <4>2, <4>3 DEF BufferOnce
      <4> QED
        BY <3>4, <4>4
    <3> QED
      BY <1>4, <3>1, <3>2, <3>3, <3>4
  <2> QED
    BY <2>1, <2>2, <2>3
<1> QED
  BY <1>1, <1>3, <1>6 DEF r, h

(* A new file is empty.                                                    *)
LEMMA FileOpened ==
  ASSUME NEW g \in Nat, NEW b, NEW f \in Seq(Seq(FileCells(g)))
  PROVE  /\ Append(f, <<>>) \in Seq(Seq(FileCells(g)))
         /\ Len(Append(f, <<>>)) = Len(f) + 1
         /\ Once(b, f) => Once(b, Append(f, <<>>))
<1> DEFINE h == Append(f, <<>>)
<1>1. <<>> \in Seq(FileCells(g)) /\ Len(<<>>) = 0 /\ Len(f) \in Nat
  BY EmptySeq, LenProperties
<1>2. /\ h \in Seq(Seq(FileCells(g))) /\ Len(h) = Len(f) + 1
      /\ \A i \in 1..Len(f) : h[i] = f[i]
      /\ h[Len(f) + 1] = <<>>
  BY <1>1, AppendProperties
<1> HIDE DEF h
<1>3. \A n \in 1..Len(h) : \A k \in 1..Len(h[n]) : n \in 1..Len(f) /\ h[n] = f[n]
  <2> SUFFICES ASSUME NEW n \in 1..Len(h), NEW k \in 1..Len(h[n])
               PROVE  n \in 1..Len(f) /\ h[n] = f[n]
    OBVIOUS
  <2>1. n # Len(f) + 1
    <3>1. ~(k \in 1..0)
      OBVIOUS
    <3> QED
      BY <1>1, <1>2, <3>1
  <2>2. n \in 1..(Len(f) + 1)
    BY <1>2
  <2>3. n \in 1..Len(f)
    <3>1. \A a \in Nat : \A i \in 1..(a + 1) : i # a + 1 => i \in 1..a
      OBVIOUS
    <3> QED
      BY <1>1, <2>1, <2>2, <3>1
  <2> QED
    BY <1>2, <2>3
<1>4. ASSUME Once(b, f) PROVE Once(b, h)
  <2>1. NotWritten(b, h)
    BY <1>3, <1>4 DEF Once, NotWritten
  <2>2. WrittenOnce(h)
    <3> SUFFICES ASSUME NEW n \in 1..Len(h), NEW m \in 1..Len(h)
                 PROVE  \A k \in 1..Len(h[n]), l \in 1..Len(h[m]) :
                          (n # m \/ k # l) /\ h[n][k] # Garbage => h[n][k] # h[m][l]
      BY DEF WrittenOnce
    <3> TAKE k \in 1..Len(h[n]), l \in 1..Len(h[m])
    <3>1. n \in 1..Len(f) /\ m \in 1..Len(f) /\ h[n] = f[n] /\ h[m] = f[m]
      BY <1>3
    <3> QED
      BY <1>4, <3>1 DEF Once, WrittenOnce
  <2> QED
    BY <1>4, <2>1, <2>2 DEF Once
<1> QED
  BY <1>2, <1>4 DEF h

LEMMA BufferCleared ==
  ASSUME NEW b, NEW f
  PROVE  Once(b, f) => Once(<<>>, f)
  BY EmptySeq DEF Once, BufferOnce, NotWritten

-----------------------------------------------------------------------------
(* Type correctness of the log.                                            *)

LEMMA LogConstants ==
  /\ Block \in Nat /\ Block >= 1
  /\ HighWater \in Nat /\ MaxLogged \in Nat /\ MaxFaults \in Nat
  /\ \A size \in Sizes : size \in Nat
  /\ Len(Dates) \in Nat /\ 1 <= Len(Dates)
  /\ \A w \in Writers : w \in Callers /\ w # Main /\ w \notin Clients
  /\ \A c \in Clients : c \in Callers /\ c # Main /\ c \notin Writers
  /\ Main \in Callers
<1>1. Len(Dates) \in Nat /\ 1 <= Len(Dates)
  BY LogAssumption, EmptySeq DEF LogAssumption
<1> QED
  BY <1>1, LogAssumption DEF LogAssumption, Callers

(* What the next state has to do with the cells: they are those of logged' *)
(* messages, and the file is one of those opened.                          *)
CellsOK ==
  /\ logged \in Nat
  /\ buffer \in Seq(MessageCells(logged))
  /\ offset \in 0..(Block - 1)
  /\ files \in Seq(Seq(FileCells(logged)))
  /\ open \subseteq 1..Len(files)
  /\ file \in 0..Len(files)

ControlOK ==
  /\ sem \in Nat
  /\ mutex \in Writers \cup {NoThread}
  /\ fputsType \in {0, 1}
  /\ today \in 1..Len(Dates)
  /\ at \in [Callers -> Statements]
  /\ cancelled \subseteq Writers
  /\ faults \in Nat
  /\ unopened \in BOOLEAN /\ exiting \in BOOLEAN /\ crashed \in BOOLEAN

DatesOK == fileTime \in Days /\ named \in Days /\ straddled \in BOOLEAN

LEMMA LogTypeParts == LogTypeOK <=> CellsOK /\ ControlOK /\ DatesOK
  BY DEF LogTypeOK, CellsOK, ControlOK, DatesOK, MessageCells, FileCells

LEMMA GoOK ==
  ASSUME at \in [Callers -> Statements], NEW t \in Callers, NEW from, NEW to \in Statements,
         Go(t, from, to)
  PROVE  at' \in [Callers -> Statements]
  BY DEF Go

(* What is written is at most what there is.                               *)
LEMMA PartOK ==
  ASSUME CellsOK
  PROVE  Part \in 0..Len(buffer) /\ (buffer # <<>> => Part >= 1)
<1>1. Len(buffer) \in Nat /\ (buffer # <<>> => Len(buffer) >= 1)
  BY EmptySeq, LenProperties DEF CellsOK
<1>2. Chunk \in Nat /\ Chunk >= 1
  BY LogConstants DEF Chunk
<1> QED
  BY <1>1, <1>2 DEF Part

LEMMA MemoryOK ==
  ASSUME CellsOK, NEW n \in 0..Len(buffer)
  PROVE  /\ Memory(n) \in Seq(FileCells(logged))
         /\ Len(Memory(n)) = n
         /\ \A i \in 1..n : Memory(n)[i] \in {buffer[i], Garbage}
<1>1. Len(buffer) \in Nat /\ n \in Nat /\ n <= Len(buffer)
  BY LenProperties DEF CellsOK
<1>2. \A i \in 1..n : buffer[i] \in FileCells(logged)
  <2>1. \A i \in 1..n : i \in 1..Len(buffer)
    BY <1>1
  <2> QED
    BY <2>1, ElementOfSeq, CellsOfMessages DEF CellsOK
<1>3. \A i \in 1..n : Memory(n)[i] \in {buffer[i], Garbage}
  BY DEF Memory
<1>4. Memory(n) \in [1..n -> FileCells(logged)]
  <2>1. Garbage \in FileCells(logged)
    BY CellsOfMessages DEF CellsOK
  <2> QED
    BY <1>2, <2>1 DEF Memory
<1> QED
  BY <1>1, <1>3, <1>4, FunctionIsSeq

(* The writer's write, and a write that comes up short: Part or fewer cells*)
(* go to the file.                                                         *)
LEMMA Writes ==
  ASSUME CellsOK, file \in open, NEW n \in 0..Len(buffer)
  PROVE  /\ SubSeq(buffer, n + 1, Len(buffer)) \in Seq(MessageCells(logged))
         /\ [files EXCEPT ![file] = @ \o Memory(n)] \in Seq(Seq(FileCells(logged)))
         /\ Len([files EXCEPT ![file] = @ \o Memory(n)]) = Len(files)
         /\ Once(buffer, files) =>
              Once(SubSeq(buffer, n + 1, Len(buffer)), [files EXCEPT ![file] = @ \o Memory(n)])
<1>1. file \in 1..Len(files)
  BY DEF CellsOK
<1> QED
  BY <1>1, MemoryOK, PartMoves DEF CellsOK

LEMMA CellsInit == LogInit => CellsOK /\ Once(buffer, files)
<1>1. 0 \in 0..(Block - 1)
  BY LogConstants
<1>2. Len(<<>>) = 0 /\ \A S : <<>> \in Seq(S)
  BY EmptySeq
<1>3. \A i : i \notin 1..0
  OBVIOUS
<1> QED
  BY <1>1, <1>2, <1>3 DEF LogInit, CellsOK, Once, BufferOnce, NotWritten, WrittenOnce

cellVars == <<buffer, offset, files, open, file, logged>>

(* The steps that leave the cells and the files alone.                     *)
LEMMA QuietSteps ==
  ASSUME CellsOK, UNCHANGED cellVars
  PROVE  CellsOK' /\ (Once(buffer, files) => Once(buffer, files)')
<1>1. UNCHANGED <<buffer, offset, files, open, file, logged>>
  BY DEF cellVars
<1>2. CellsOK'
  BY <1>1 DEF CellsOK
<1>3. Once(buffer, files)' = Once(buffer, files)
  BY <1>1 DEF Once, BufferOnce, NotWritten, WrittenOnce
<1> QED
  BY <1>2, <1>3

LEMMA Remainder ==
  ASSUME NEW a \in Int, NEW m \in Nat, m >= 1
  PROVE  a % m \in 0..(m - 1)
OBVIOUS

LEMMA LogPutsCells ==
  ASSUME CellsOK, NEW c \in Clients, NEW level, NEW size \in Sizes, NEW to,
         log_puts(c, level, size, to)
  PROVE  CellsOK' /\ (Once(buffer, files) => Once(buffer, files)')
<1>1. /\ logged' = logged + 1 /\ logged' \in Nat
      /\ UNCHANGED <<files, open, file>>
  BY DEF log_puts, CellsOK
<1>2. files \in Seq(Seq(FileCells(logged + 1))) /\ buffer \in Seq(MessageCells(logged + 1))
  BY OneMore DEF CellsOK
<1>3. CASE fputsType = 0
  BY <1>1, <1>2, <1>3 DEF log_puts, CellsOK, Once, BufferOnce, NotWritten, WrittenOnce
<1>4. CASE fputsType # 0
  <2>1. buffer' = Cells(size) \o buffer /\ offset' = (offset - size) % Block
    BY <1>4 DEF log_puts
  <2>2. offset' \in 0..(Block - 1)
    <3>1. offset - size \in Int
      BY LogConstants DEF CellsOK
    <3> QED
      BY <2>1, <3>1, LogConstants, Remainder
  <2>3. Cells(size) \o buffer \in Seq(MessageCells(logged + 1))
    <3>1. Cells(size) \in [1..size -> MessageCells(logged + 1)]
      BY LogConstants DEF Cells, MessageCells, CellsOK
    <3>2. Cells(size) \in Seq(MessageCells(logged + 1))
      BY <3>1, LogConstants, FunctionIsSeq
    <3> QED
      BY <1>2, <3>2, ConcatProperties
  <2>4. ASSUME Once(buffer, files) PROVE Once(Cells(size) \o buffer, files)
    BY <2>4, LogConstants, FreshInFront DEF CellsOK, Cells
  <2>5. CellsOK'
    BY <1>1, <1>2, <2>1, <2>2, <2>3 DEF CellsOK
  <2>6. Once(buffer, files) => Once(buffer', files')
    BY <1>1, <2>1, <2>4
  <2> QED
    BY <2>5, <2>6 DEF Once, BufferOnce, NotWritten, WrittenOnce
<1> QED
  BY <1>3, <1>4

LEMMA OpenFileCells ==
  ASSUME CellsOK, NEW t, OpenFile(t)
  PROVE  CellsOK' /\ (Once(buffer, files) => Once(buffer, files)')
<1>1. /\ files' = Append(files, <<>>) /\ file' = Len(files) + 1
      /\ open' = open \cup {Len(files) + 1}
      /\ UNCHANGED <<buffer, offset, logged>>
  BY DEF OpenFile
<1>2. /\ Append(files, <<>>) \in Seq(Seq(FileCells(logged)))
      /\ Len(Append(files, <<>>)) = Len(files) + 1
      /\ Once(buffer, files) => Once(buffer, Append(files, <<>>))
  BY FileOpened DEF CellsOK
<1>3. Len(files) \in Nat
  BY LenProperties DEF CellsOK
<1>4. CellsOK'
  <2>1. \A a \in Nat : \A i \in 1..a : i \in 1..(a + 1)
    OBVIOUS
  <2>2. open' \subseteq 1..Len(files')
    <3>1. Len(files') = Len(files) + 1 /\ Len(files) + 1 \in 1..(Len(files) + 1)
      BY <1>1, <1>2, <1>3
    <3>2. \A i \in open : i \in 1..(Len(files) + 1)
      BY <1>3, <2>1 DEF CellsOK
    <3> QED
      BY <1>1, <3>1, <3>2
  <2>3. file' \in 0..Len(files')
    BY <1>1, <1>2, <1>3
  <2> QED
    BY <1>1, <1>2, <2>2, <2>3 DEF CellsOK
<1>5. Once(buffer, files) => Once(buffer', files')
  BY <1>1, <1>2
<1> QED
  BY <1>4, <1>5 DEF Once, BufferOnce, NotWritten, WrittenOnce

LEMMA WritePartCells ==
  ASSUME CellsOK, NEW w, WritePart(w)
  PROVE  CellsOK' /\ (Once(buffer, files) => Once(buffer, files)')
<1>1. /\ files' = [files EXCEPT ![file] = @ \o Memory(Part)]
      /\ buffer' = SubSeq(buffer, Part + 1, Len(buffer))
      /\ offset' = IF Part = Len(buffer) THEN offset ELSE (offset + Part) % Block
      /\ file \in open
      /\ UNCHANGED <<open, file, logged>>
  BY DEF WritePart
<1>2. Part \in 0..Len(buffer)
  BY PartOK
<1>3. offset' \in 0..(Block - 1)
  <2>1. Part \in Int
    BY <1>2
  <2> QED
    BY <1>1, <2>1, LogConstants DEF CellsOK
<1>4. /\ buffer' \in Seq(MessageCells(logged))
      /\ files' \in Seq(Seq(FileCells(logged)))
      /\ Len(files') = Len(files)
      /\ Once(buffer, files) => Once(buffer', files')
  BY <1>1, <1>2, Writes
<1>5. CellsOK'
  BY <1>1, <1>3, <1>4 DEF CellsOK
<1> QED
  BY <1>4, <1>5 DEF Once, BufferOnce, NotWritten, WrittenOnce

LEMMA WriteFailsCells ==
  ASSUME CellsOK, NEW w, WriteFails(w)
  PROVE  CellsOK'
<1>1. PICK n \in 0..(Part - 1) : files' = [files EXCEPT ![file] = @ \o Memory(n)]
  BY DEF WriteFails
<1>2. file \in open /\ UNCHANGED <<buffer, offset, open, file, logged>>
  BY DEF WriteFails
<1>3. n \in 0..Len(buffer)
  <2>1. Part \in 0..Len(buffer) /\ Len(buffer) \in Nat
    BY PartOK, LenProperties DEF CellsOK
  <2> QED
    BY <2>1
<1> QED
  BY <1>1, <1>2, <1>3, Writes DEF CellsOK

(* Every step keeps the cells what they are; but for a write that comes up *)
(* short, which counts in faults, it also keeps each at one place.         *)
LEMMA CellsStep ==
  ASSUME CellsOK, [LogNext]_logVars
  PROVE  CellsOK' /\ (Once(buffer, files) => Once(buffer, files)' \/ faults' = faults + 1)
<1>1. CASE UNCHANGED logVars
  BY <1>1, QuietSteps DEF logVars, cellVars
<1>2. ASSUME NEW t, log_open(t)
      PROVE  CellsOK' /\ (Once(buffer, files) => Once(buffer, files)' \/ faults' = faults + 1)
  <2>1. CASE OpenFile(t)
    BY <2>1, OpenFileCells
  <2>2. CASE OpenFails(t)
    <3>1. Len(files) \in Nat
      BY LenProperties DEF CellsOK
    <3> QED
      BY <2>2, <3>1 DEF OpenFails, CellsOK
  <2>3. CASE SetFileTime(t)
    BY <2>3, QuietSteps DEF SetFileTime, cellVars
  <2>4. CASE SetPutsType(t)
    BY <2>4, QuietSteps DEF SetPutsType, cellVars
  <2> QED
    BY <1>2, <2>1, <2>2, <2>3, <2>4 DEF log_open
<1>3. ASSUME NEW w \in Writers, CreateWriter(w) \/ NextDay
      PROVE  UNCHANGED cellVars
  BY <1>3 DEF CreateWriter, NextDay, cellVars
<1>4. ASSUME NEW w \in Writers, log_write(w)
      PROVE  CellsOK' /\ (Once(buffer, files) => Once(buffer, files)' \/ faults' = faults + 1)
  <2>1. CASE Wait(w) \/ CheckDate(w) \/ Lock(w) \/ WriteNowhere(w) \/ Written(w) \/ Cancelled(w)
    BY <2>1, QuietSteps DEF Wait, CheckDate, Lock, WriteNowhere, Written, Cancelled, cellVars
  <2>2. CASE CloseFile(w)
    <3>1. UNCHANGED <<buffer, offset, files, file, logged>> /\ open' \subseteq open
      BY <2>2 DEF CloseFile
    <3>2. CellsOK'
      BY <3>1 DEF CellsOK
    <3> QED
      BY <3>1, <3>2 DEF Once, BufferOnce, NotWritten, WrittenOnce
  <2>3. CASE WritePart(w)
    BY <2>3, WritePartCells
  <2>4. CASE WriteFails(w)
    BY <2>4, WriteFailsCells DEF WriteFails
  <2> QED
    BY <1>2, <1>4, <2>1, <2>2, <2>3, <2>4 DEF log_write
<1>5. ASSUME NEW c \in Clients, Exit(c)
      PROVE  CellsOK' /\ (Once(buffer, files) => Once(buffer, files)')
  <2>1. CASE CancelWriters(c)
    BY <2>1, QuietSteps DEF CancelWriters, cellVars
  <2>2. CASE ClearBuffer(c)
    <3>1. CASE buffer' = buffer
      BY <2>2, <3>1, QuietSteps DEF ClearBuffer, cellVars
    <3>2. CASE buffer' = <<>>
      <4>1. UNCHANGED <<logged, offset, file, open, files>>
        BY <2>2 DEF ClearBuffer
      <4>2. CellsOK'
        BY <3>2, <4>1, EmptySeq DEF CellsOK
      <4>3. Once(buffer, files) => Once(buffer', files')
        BY <3>2, <4>1, BufferCleared
      <4> QED
        BY <4>2, <4>3 DEF Once, BufferOnce, NotWritten, WrittenOnce
    <3>3. buffer' = <<>> \/ buffer' = buffer
      BY <2>2 DEF ClearBuffer
    <3> QED
      BY <3>1, <3>2, <3>3
  <2>3. CASE CloseLog(c)
    <3>1. Len(files) \in Nat
      BY LenProperties DEF CellsOK
    <3> QED
      BY <2>3, <3>1 DEF CloseLog, CellsOK, Once, BufferOnce, NotWritten, WrittenOnce
  <2> QED
    BY <1>5, <2>1, <2>2, <2>3 DEF Exit
<1>6. ASSUME NEW c \in Clients, NEW level \in Levels, NEW size \in Sizes,
             log_msg(c, level, size) \/ log_dump(c, level, size)
      PROVE  CellsOK' /\ (Once(buffer, files) => Once(buffer, files)')
  BY <1>6, LogPutsCells DEF log_msg, log_dump
<1>7. CASE NextDay
  BY <1>7, QuietSteps DEF NextDay, cellVars
<1>8. CASE \E w \in Writers : CreateWriter(w)
  BY <1>3, <1>8, QuietSteps
<1> QED
  BY <1>1, <1>2, <1>4, <1>5, <1>6, <1>7, <1>8 DEF LogNext, Main_proc

(* The rest of the state.                                                  *)
LEMMA ControlStep ==
  ASSUME ControlOK, CellsOK, [LogNext]_logVars
  PROVE  ControlOK'
<1> USE LogConstants DEF Statements
<1>1. CASE UNCHANGED logVars
  BY <1>1 DEF logVars, ControlOK
<1>2. ASSUME NEW t \in Callers, log_open(t)
      PROVE  ControlOK'
  <2>1. at' \in [Callers -> Statements]
    BY <1>2, GoOK DEF log_open, OpenFile, OpenFails, SetFileTime, SetPutsType, ControlOK
  <2>2. faults' \in Nat /\ fputsType' \in {0, 1}
    BY <1>2 DEF log_open, OpenFile, OpenFails, SetFileTime, SetPutsType, ControlOK
  <2>3. unopened' \in BOOLEAN
    BY <1>2, Zenon DEF log_open, OpenFile, OpenFails, SetFileTime, SetPutsType, ControlOK
  <2>4. UNCHANGED <<sem, mutex, today, cancelled, exiting, crashed>>
    BY <1>2 DEF log_open, OpenFile, OpenFails, SetFileTime, SetPutsType
  <2> QED
    BY <2>1, <2>2, <2>3, <2>4 DEF ControlOK
<1>4. ASSUME NEW w \in Writers, CreateWriter(w)
      PROVE  ControlOK'
  BY <1>4 DEF CreateWriter, ControlOK
<1>5. ASSUME NEW w \in Writers, log_write(w)
      PROVE  ControlOK'
  <2>1. CASE Wait(w) \/ CheckDate(w) \/ CloseFile(w)
    <3>1. at' \in [Callers -> Statements]
      BY <2>1, GoOK DEF Wait, CheckDate, CloseFile, ControlOK
    <3>2. sem' \in Nat
      BY <2>1 DEF Wait, CheckDate, CloseFile, ControlOK
    <3>3. crashed' \in BOOLEAN
      BY <2>1, Zenon DEF Wait, CheckDate, CloseFile, ControlOK
    <3>4. UNCHANGED <<mutex, fputsType, today, cancelled, faults, unopened, exiting>>
      BY <2>1 DEF Wait, CheckDate, CloseFile
    <3> QED
      BY <3>1, <3>2, <3>3, <3>4 DEF ControlOK
  <2>2. CASE Lock(w)
    BY <2>2, GoOK DEF Lock, ControlOK
  <2>3. CASE WritePart(w) \/ WriteNowhere(w)
    BY <2>3 DEF WritePart, WriteNowhere, ControlOK
  <2>4. CASE WriteFails(w) \/ Written(w)
    BY <2>4 DEF WriteFails, Written, Unlock, ControlOK
  <2>5. CASE Cancelled(w)
    BY <2>5 DEF Cancelled, ControlOK
  <2> QED
    BY <1>2, <1>5, <2>1, <2>2, <2>3, <2>4, <2>5 DEF log_write
<1>6. ASSUME NEW c \in Clients, Exit(c)
      PROVE  ControlOK'
  <2>1. at' \in [Callers -> Statements]
    BY <1>6, GoOK DEF Exit, CancelWriters, ClearBuffer, CloseLog, ControlOK
  <2> QED
    BY <1>6, <2>1 DEF Exit, CancelWriters, ClearBuffer, CloseLog, ControlOK
<1>7. ASSUME NEW c \in Clients, NEW level \in Levels, NEW size \in Sizes,
             log_msg(c, level, size) \/ log_dump(c, level, size)
      PROVE  ControlOK'
  <2>1. PICK to \in Statements : log_puts(c, level, size, to)
    BY <1>7 DEF log_msg, log_dump
  <2>2. at' \in [Callers -> Statements]
    BY <2>1, GoOK DEF log_puts, ControlOK
  <2>3. sem' \in Nat
    BY <2>1 DEF log_puts, ControlOK
  <2>4. exiting' \in BOOLEAN
    BY <1>7 DEF log_msg, log_dump, ControlOK
  <2> QED
    BY <2>1, <2>2, <2>3, <2>4 DEF log_puts, ControlOK
<1>8. CASE NextDay
  BY <1>8 DEF NextDay, ControlOK
<1> QED
  BY <1>1, <1>2, <1>4, <1>5, <1>6, <1>7, <1>8 DEF LogNext, Main_proc

LEMMA ControlInit == LogInit => ControlOK
<1> SUFFICES ASSUME LogInit PROVE ControlOK
  OBVIOUS
<1>1. at \in [Callers -> Statements]
  BY DEF LogInit, Statements
<1>2. today \in 1..Len(Dates) /\ sem \in Nat /\ faults \in Nat /\ fputsType \in {0, 1}
  BY LogConstants DEF LogInit
<1>3. cancelled \subseteq Writers /\ mutex \in Writers \cup {NoThread}
  BY DEF LogInit
<1>4. unopened \in BOOLEAN /\ exiting \in BOOLEAN /\ crashed \in BOOLEAN
  BY DEF LogInit
<1> QED
  BY <1>1, <1>2, <1>3, <1>4 DEF ControlOK

LEMMA DatesStep == ControlOK /\ DatesOK /\ [LogNext]_logVars => DatesOK'
<1> SUFFICES ASSUME ControlOK, DatesOK, [LogNext]_logVars
             PROVE  DatesOK'
  OBVIOUS
<1>1. Dates[today] \in Days
  BY LogAssumption, ElementOfSeq DEF ControlOK
<1>2. CASE UNCHANGED dateVars
  BY <1>2 DEF dateVars, DatesOK
<1>3. ASSUME NEW t, OpenFile(t)
      PROVE  DatesOK'
  BY <1>1, <1>3 DEF OpenFile, DatesOK
<1>4. ASSUME NEW t, SetFileTime(t)
      PROVE  DatesOK'
  <2>1. straddled' \in BOOLEAN
    BY <1>4 DEF SetFileTime
  <2> QED
    BY <1>1, <1>4, <2>1 DEF SetFileTime, DatesOK
<1>5. \/ UNCHANGED dateVars
      \/ \E t \in Callers : OpenFile(t) \/ SetFileTime(t)
  BY LogConstants DEF LogNext, Main_proc, log_open, log_write, Exit, log_msg, log_dump, log_puts,
     logVars, OpenFails, SetPutsType, CreateWriter, CancelWriters, ClearBuffer, CloseLog, Wait,
     CheckDate, CloseFile, Lock, WritePart, WriteFails, WriteNowhere, Written, Cancelled, NextDay
<1> QED
  BY <1>2, <1>3, <1>4, <1>5

(* Every variable of the log keeps its type, for any messages, dates and   *)
(* failing calls: in particular its buffer holds cells of messages only,   *)
(* and m_pLogFile is NULL or a file that was opened.                       *)
THEOREM LogTypeCorrect == LogSpec => []LogTypeOK
<1>1. LogInit => LogTypeOK
  <2>1. ASSUME LogInit
        PROVE  DatesOK
    <3>1. [year |-> 1970, mon |-> 1, mday |-> 1] \in Days
      BY DEF Days
    <3>2. fileTime \in Days /\ named \in Days
      BY <2>1, <3>1 DEF LogInit
    <3>3. straddled \in BOOLEAN
      BY <2>1 DEF LogInit
    <3> QED
      BY <3>2, <3>3 DEF DatesOK
  <2> QED
    BY <2>1, CellsInit, ControlInit, LogTypeParts
<1>2. LogTypeOK /\ [LogNext]_logVars => LogTypeOK'
  <2>1. CellsOK' /\ ControlOK' /\ DatesOK' => LogTypeOK'
    BY DEF LogTypeOK, CellsOK, ControlOK, DatesOK, MessageCells, FileCells
  <2> QED
    BY <2>1, LogTypeParts, CellsStep, ControlStep, DatesStep
<1> QED
  BY <1>1, <1>2, PTL DEF LogSpec

-----------------------------------------------------------------------------
(* Nothing is written twice.                                               *)

LEMMA PlacesAre ==
  \A p \in Places : \/ \E i \in 1..Len(buffer) : p = <<0, i>> /\ CellAt(p) = buffer[i]
                    \/ \E n \in 1..Len(files) : \E k \in 1..Len(files[n]) :
                         p = <<n, k>> /\ CellAt(p) = files[n][k]
<1> SUFFICES ASSUME NEW p \in Places
             PROVE  \/ \E i \in 1..Len(buffer) : p = <<0, i>> /\ CellAt(p) = buffer[i]
                    \/ \E n \in 1..Len(files) : \E k \in 1..Len(files[n]) :
                         p = <<n, k>> /\ CellAt(p) = files[n][k]
  OBVIOUS
<1>1. CASE p \in {0} \X (1..Len(buffer))
  <2>1. PICK i \in 1..Len(buffer) : p = <<0, i>>
    BY <1>1
  <2> QED
    BY <2>1 DEF CellAt
<1>2. CASE p \notin {0} \X (1..Len(buffer))
  <2>1. PICK n \in 1..Len(files) : p \in {n} \X (1..Len(files[n]))
    BY <1>2 DEF Places
  <2>2. PICK k \in 1..Len(files[n]) : p = <<n, k>>
    BY <2>1
  <2>3. n # 0 /\ p[1] = n /\ p[2] = k
    BY <2>2
  <2> QED
    BY <2>2, <2>3 DEF CellAt
<1> QED
  BY <1>1, <1>2

LEMMA OnceIsNothingTwice ==
  ASSUME CellsOK, faults = 0 => Once(buffer, files)
  PROVE  NothingTwice
<1> SUFFICES ASSUME Once(buffer, files), NEW p \in Places, NEW q \in Places,
                    p # q, CellAt(p) # Garbage
             PROVE  CellAt(p) # CellAt(q)
  BY DEF NothingTwice
<1>1. CASE \E i \in 1..Len(buffer) : p = <<0, i>> /\ CellAt(p) = buffer[i]
  <2>1. PICK i \in 1..Len(buffer) : p = <<0, i>> /\ CellAt(p) = buffer[i]
    BY <1>1
  <2>2. CASE \E j \in 1..Len(buffer) : q = <<0, j>> /\ CellAt(q) = buffer[j]
    BY <2>1, <2>2 DEF Once, BufferOnce
  <2>3. CASE \E n \in 1..Len(files) : \E k \in 1..Len(files[n]) :
               q = <<n, k>> /\ CellAt(q) = files[n][k]
    BY <2>1, <2>3 DEF Once, NotWritten
  <2> QED
    BY <2>2, <2>3, PlacesAre
<1>2. CASE \E n \in 1..Len(files) : \E k \in 1..Len(files[n]) :
             p = <<n, k>> /\ CellAt(p) = files[n][k]
  <2>0. PICK n \in 1..Len(files) : \E k \in 1..Len(files[n]) :
          p = <<n, k>> /\ CellAt(p) = files[n][k]
    BY <1>2
  <2>1. PICK k \in 1..Len(files[n]) : p = <<n, k>> /\ CellAt(p) = files[n][k]
    BY <2>0
  <2>2. CASE \E j \in 1..Len(buffer) : q = <<0, j>> /\ CellAt(q) = buffer[j]
    BY <2>1, <2>2 DEF Once, NotWritten
  <2>3. CASE \E m \in 1..Len(files) : \E l \in 1..Len(files[m]) :
               q = <<m, l>> /\ CellAt(q) = files[m][l]
    <3>0. PICK m \in 1..Len(files) : \E l \in 1..Len(files[m]) :
            q = <<m, l>> /\ CellAt(q) = files[m][l]
      BY <2>3
    <3>1. PICK l \in 1..Len(files[m]) : q = <<m, l>> /\ CellAt(q) = files[m][l]
      BY <3>0
    <3>2. n # m \/ k # l
      BY <2>1, <3>1
    <3>3. files[n][k] # Garbage => files[n][k] # files[m][l]
      BY <3>2 DEF Once, WrittenOnce
    <3> QED
      BY <2>1, <3>1, <3>3
  <2> QED
    BY <2>2, <2>3, PlacesAre
<1> QED
  BY <1>1, <1>2, PlacesAre

(* No cell of a message is at two places of the files and the buffer       *)
(* (Log.cpp:305), for any sizes, dates and interleavings of the clients,   *)
(* writers, Main and exit, until an fopen or fwrite has failed.            *)
THEOREM NothingTwiceCorrect == LogSpec => []NothingTwice
<1> DEFINE Inv == CellsOK /\ ControlOK /\ (faults = 0 => Once(buffer, files))
<1>1. LogInit => Inv
  BY CellsInit, ControlInit
<1>2. Inv /\ [LogNext]_logVars => Inv'
  <2> SUFFICES ASSUME Inv, [LogNext]_logVars
               PROVE  Inv'
    OBVIOUS
  <2>1. CellsOK' /\ ControlOK'
    BY CellsStep, ControlStep
  <2>2. faults' = faults \/ faults' = faults + 1
    BY DEF LogNext, Main_proc, log_open, log_write, Exit, log_msg, log_dump, log_puts, logVars,
       OpenFile, OpenFails, SetFileTime, SetPutsType, CreateWriter, CancelWriters, ClearBuffer,
       CloseLog, Wait, CheckDate, CloseFile, Lock, WritePart, WriteFails, WriteNowhere, Written,
       Cancelled, NextDay
  <2>3. faults \in Nat
    BY DEF ControlOK
  <2>4. faults' = 0 => faults = 0 /\ faults' # faults + 1
    BY <2>2, <2>3
  <2>5. faults' = 0 => Once(buffer, files)'
    BY <2>4, CellsStep
  <2> QED
    BY <2>1, <2>5
<1>3. Inv => NothingTwice
  BY OnceIsNothingTwice
<1> QED
  BY <1>1, <1>2, <1>3, PTL DEF LogSpec

-----------------------------------------------------------------------------
(* The writer has its file.                                                *)

(* As long as nobody exits and every fopen succeeds, the one writer w is   *)
(* in its loop and the file is open, but between its fclose and its fopen. *)
FileOpen(w) ==
  ~exiting /\ ~unopened =>
    /\ ~crashed
    /\ cancelled = {}
    /\ \A c \in Clients : at[c] = "idle"
    /\ at[Main] \in {"open", "stamp", "create", "type", "opened"}
    /\ at[w] \in {"absent", "wait", "check", "close", "open", "stamp", "type", "lock", "flush"}
    /\ at[Main] \in {"open", "stamp"} => at[w] = "absent"
    /\ at[Main] # "open" /\ at[w] # "open" => file \in open

LEMMA FileOpenInit ==
  ASSUME NEW w \in Writers
  PROVE  LogInit => FileOpen(w)
  BY LogConstants DEF LogInit, FileOpen

LEMMA FileOpenStep ==
  ASSUME NEW w, Writers = {w}, ControlOK, CellsOK, FileOpen(w), [LogNext]_logVars
  PROVE  FileOpen(w)'
<1> USE LogConstants DEF ControlOK
<1>0. w \in Callers /\ w # Main /\ w \notin Clients
  OBVIOUS
<1>1. CASE UNCHANGED logVars
  BY <1>1 DEF logVars, FileOpen
<1>2. CASE log_open(Main)
  <2>1. Len(files) \in Nat
    BY LenProperties DEF CellsOK
  <2>2. CASE OpenFile(Main)
    BY <1>0, <2>2 DEF OpenFile, Go, FileOpen
  <2>3. CASE OpenFails(Main)
    BY <2>3 DEF OpenFails, FileOpen
  <2>4. CASE SetFileTime(Main)
    BY <1>0, <2>4 DEF SetFileTime, Go, FileOpen
  <2>5. CASE SetPutsType(Main)
    BY <1>0, <2>5 DEF SetPutsType, Go, FileOpen
  <2> QED
    BY <1>2, <2>2, <2>3, <2>4, <2>5 DEF log_open
<1>4. CASE CreateWriter(w)
  BY <1>0, <1>4 DEF CreateWriter, FileOpen
<1>5. CASE log_write(w)
  <2>1. CASE Wait(w)
    BY <1>0, <2>1 DEF Wait, Go, FileOpen
  <2>2. CASE CheckDate(w)
    BY <1>0, <2>2 DEF CheckDate, Go, FileOpen
  <2>3. CASE CloseFile(w)
    BY <1>0, <2>3 DEF CloseFile, Go, FileOpen
  <2>4. CASE OpenFile(w)
    BY <1>0, <2>4 DEF OpenFile, Go, FileOpen
  <2>5. CASE OpenFails(w)
    BY <2>5 DEF OpenFails, FileOpen
  <2>6. CASE SetFileTime(w)
    BY <1>0, <2>6 DEF SetFileTime, Go, FileOpen
  <2>12. CASE SetPutsType(w)
    BY <1>0, <2>12 DEF SetPutsType, Go, FileOpen
  <2>7. CASE Lock(w)
    BY <1>0, <2>7 DEF Lock, Go, FileOpen
  <2>8. CASE WritePart(w)
    BY <2>8 DEF WritePart, FileOpen
  <2>9. CASE WriteFails(w) \/ Written(w)
    BY <1>0, <2>9 DEF WriteFails, Written, Unlock, Flushing, FileOpen
  <2>10. CASE WriteNowhere(w)
    BY <1>0, <2>10 DEF WriteNowhere, Flushing, FileOpen
  <2>11. CASE Cancelled(w)
    BY <2>11 DEF Cancelled, FileOpen
  <2> QED
    BY <1>5, <2>1, <2>2, <2>3, <2>4, <2>5, <2>6, <2>7, <2>8, <2>9, <2>10, <2>11,
       <2>12 DEF log_write, log_open
<1>6. ASSUME NEW c \in Clients, Exit(c)
      PROVE  FileOpen(w)'
  <2>1. exiting' = exiting /\ unopened' = unopened /\ at[c] # "idle"
    BY <1>6 DEF Exit, CancelWriters, ClearBuffer, CloseLog, Go
  <2> QED
    BY <2>1 DEF FileOpen
<1>7. ASSUME NEW c \in Clients, NEW level, NEW size, log_msg(c, level, size)
      PROVE  FileOpen(w)'
  BY <1>0, <1>7 DEF log_msg, log_puts, Go, FileOpen
<1>8. ASSUME NEW c \in Clients, NEW level, NEW size, log_dump(c, level, size)
      PROVE  FileOpen(w)'
  BY <1>8 DEF log_dump, FileOpen
<1>9. CASE NextDay
  BY <1>9 DEF NextDay, FileOpen
<1> QED
  BY <1>1, <1>2, <1>4, <1>5, <1>6, <1>7, <1>8, <1>9 DEF LogNext, Main_proc

(* With one writer thread, as log_open makes by default, nothing is written*)
(* to a file that is closed and none is closed twice (Log.cpp:285, 301)    *)
(* while the process runs on and fopen succeeds, however many clients log  *)
(* and however the days end.                                               *)
THEOREM WriterHasFileCorrect ==
  ASSUME NEW w, Writers = {w}
  PROVE  LogSpec => []WriterHasFile
<1>1. LogInit => CellsOK /\ ControlOK /\ FileOpen(w)
  BY CellsInit, ControlInit, FileOpenInit
<1>2. CellsOK /\ ControlOK /\ FileOpen(w) /\ [LogNext]_logVars
      => (CellsOK /\ ControlOK /\ FileOpen(w))'
  BY CellsStep, ControlStep, FileOpenStep
<1>3. FileOpen(w) => WriterHasFile
  BY DEF FileOpen, WriterHasFile
<1> QED
  BY <1>1, <1>2, <1>3, PTL DEF LogSpec
=============================================================================
