------------------------------ MODULE LogProps ------------------------------
(***************************************************************************)
(* What the log owes those who log, with one writer thread unless it says  *)
(* otherwise.                                                              *)
(***************************************************************************)
EXTENDS Log

Statements ==
  {"absent", "wait", "check", "close", "open", "stamp", "lock", "flush", "cleanlock",
   "cleanflush", "create", "type", "opened", "idle", "cancel", "clear", "fclose", "gone"}

LogTypeOK ==
  /\ buffer \in Seq((1..logged) \X Nat)
  /\ offset \in 0..(Block - 1)
  /\ sem \in Nat
  /\ mutex \in Writers \cup {NoThread}
  /\ fputsType \in {0, 1}
  /\ files \in Seq(Seq((0..logged) \X Nat))
  /\ open \subseteq 1..Len(files)
  /\ file \in 0..Len(files)
  /\ today \in 1..Len(Dates)
  /\ fileTime \in Days /\ named \in Days /\ straddled \in BOOLEAN
  /\ at \in [Callers -> Statements]
  /\ cancelled \subseteq Writers
  /\ logged \in Nat
  /\ faults \in Nat
  /\ unopened \in BOOLEAN /\ exiting \in BOOLEAN /\ crashed \in BOOLEAN

(* The places where a cell can be: in the buffer, <<0, i>>, or in the n-th *)
(* file, <<n, i>>.                                                         *)
Places ==
  ({0} \X (1..Len(buffer))) \cup UNION {{n} \X (1..Len(files[n])) : n \in 1..Len(files)}

CellAt(p) == IF p[1] = 0 THEN buffer[p[2]] ELSE files[p[1]][p[2]]

(* A cell is written once, whatever is logged while the writer goes through*)
(* the buffer (Log.cpp:305), as long as fwrite does not come up short: no  *)
(* cell of a message is at two places of the files and the buffer.         *)
NothingTwice ==
  faults = 0 =>
    \A p, q \in Places : p # q /\ CellAt(p) # Garbage => CellAt(p) # CellAt(q)

(* Nothing is written to a file that is closed, and none is closed twice   *)
(* (Log.cpp:285, 301): not while the process runs on and every fopen       *)
(* succeeds, however the day's end and the logging interleave.             *)
WriterHasFile == ~exiting /\ ~unopened => ~crashed

(* What is logged to the file does not stay in memory: with no signal the  *)
(* writer's wait times out (Log.cpp:279).                                  *)
BufferDrains == buffer # <<>> ~> buffer = <<>> \/ exiting \/ crashed

(* A day that has come gets a file that is named for it (Log.cpp:100, 282),*)
(* at the end of a month and of a year too: unless a day ended just between*)
(* the two times log_open reads the clock, for the name (Log.cpp:99) and   *)
(* for m_FileTime (Log.cpp:108).                                           *)
NewDayNewFile ==
  file # 0 /\ named # Dates[today] ~>
    named = Dates[today] \/ straddled \/ exiting \/ crashed

(* The files hold the data of the buffer: Log.cpp:292 says that the data of*)
(* the buffer is to be written to the file.  The code writes up to 1024    *)
(* bytes from the address of a deque's first one.                          *)
FilesHoldTheBuffer ==
  \A n \in 1..Len(files) : \A i \in 1..Len(files[n]) : files[n][i] # Garbage
=============================================================================
