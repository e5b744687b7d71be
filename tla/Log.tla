--------------------------------- MODULE Log --------------------------------
(***************************************************************************)
(* CLog (base/src/Log.cpp): every thread puts what it logs in front of a   *)
(* buffer; a writer thread empties the buffer into a file when a semaphore *)
(* says that it is large, or when its wait times out, and starts a new file*)
(* every day.                                                              *)
(*                                                                         *)
(* A message is some cells <<message, i>>, a cell standing for a few bytes.*)
(* The buffer is a std::deque, which libstdc++ keeps in blocks of 512      *)
(* bytes; the writer takes up to 1024 bytes at a time from the address of  *)
(* the first one, so past the end of a block it reads something else.      *)
(*                                                                         *)
(* Left out: the format of a line; set_curpath and the names of files but  *)
(* for their date; m_sleepTime, the length of a wait.                      *)
(***************************************************************************)
EXTENDS Integers, Sequences, FiniteSets

CONSTANTS
  Writers,    \* the threads of log_write
  Clients,    \* the threads that log
  Main,       \* the caller of log_open
  NoThread,   \* "the mutex is free"
  Sizes,      \* the sizes of messages, in cells
  Levels,     \* their levels
  Block,      \* the cells of a block: 512 bytes
  HighWater,  \* the size above which the writer is woken: 1 MB
  Dates,      \* the dates the clock goes through
  MaxLogged,  \* bound: the messages
  MaxFaults   \* bound: the calls of fopen and fwrite that fail

Chunk == 2 * Block
Days == [year : Nat, mon : Nat, mday : Nat]

ASSUME LogAssumption ==
  /\ IsFiniteSet(Writers) /\ Writers # {}
  /\ Writers \cap Clients = {} /\ Main \notin Writers \cup Clients
  /\ NoThread \notin Writers \cup Clients \cup {Main}
  /\ Sizes \subseteq Nat \ {0}
  /\ Levels \subseteq Nat
  /\ Block \in Nat \ {0}
  /\ HighWater \in Nat
  /\ Dates \in Seq(Days) /\ Dates # <<>>
  /\ MaxLogged \in Nat
  /\ MaxFaults \in Nat

VARIABLES
  buffer,     \* m_deque
  offset,     \* the place of its first cell in that cell's block
  sem,        \* the value of m_ToWriteBuff
  mutex,      \* the owner of m_mutex
  fputsType,  \* m_fputsType: 0 for stdout, 1 for the file
  file,       \* m_pLogFile: 0 for NULL, n for the n-th file opened
  fileTime,   \* m_FileTime
  named,      \* the date in the name of the file that was opened last
  straddled,  \* the day ended between its two readings of the clock
  open,       \* the files that are open
  files,      \* files[n]: the cells written to the n-th file
  today,      \* the clock: an index of Dates
  at,         \* at[t]: the statement thread t is at
  cancelled,  \* the threads with a pending pthread_cancel
  logged,     \* the number of messages
  faults,     \* the number of calls that failed
  unopened,   \* a call of fopen failed
  exiting,    \* some thread has called exit
  crashed     \* fwrite or fclose got a file that is not open

dateVars == <<fileTime, named, straddled>>
logVars == <<buffer, offset, sem, mutex, fputsType, file, dateVars, open, files,
             today, at, cancelled, logged, faults, unopened, exiting, crashed>>

m_level == 0
Garbage == <<0, 0>>
Callers == Writers \cup Clients \cup {Main}

LogInit ==
  /\ buffer = <<>>
  /\ offset = 0
  /\ sem = 0
  /\ mutex = NoThread
  /\ fputsType = 0
  /\ file = 0
  /\ fileTime = [year |-> 1970, mon |-> 1, mday |-> 1]
  /\ named = fileTime
  /\ straddled = FALSE
  /\ open = {}
  /\ files = <<>>
  /\ today = 1
  /\ at = [t \in Callers |-> IF t \in Writers THEN "absent"
                             ELSE IF t = Main THEN "open" ELSE "idle"]
  /\ cancelled = {}
  /\ logged = 0
  /\ faults = 0
  /\ unopened = FALSE
  /\ exiting = FALSE
  /\ crashed = FALSE

Go(t, from, to) == at[t] = from /\ at' = [at EXCEPT ![t] = to]

-----------------------------------------------------------------------------
(* log_open, called by Main and, to go on with a new file, by a writer.    *)

(* Mutant: m_pLogFile keeps its old value.                                 *)
OpenFileKeeps(t) ==
  /\ Go(t, "open", "stamp")
  /\ files' = Append(files, <<>>)
  /\ open' = open \cup {Len(files')}
  /\ file' = IF file = 0 THEN 1 ELSE file
  /\ named' = Dates[today]
  /\ UNCHANGED <<buffer, offset, sem, mutex, fputsType, fileTime, straddled, today,
                 cancelled, logged, faults, unopened, exiting, crashed>>

(* The file is named by the date, opened, and the index goes up.           *)
OpenFile(t) ==
  /\ Go(t, "open", "stamp")
  /\ file' = Len(files) + 1
  /\ files' = Append(files, <<>>)
  /\ open' = open \cup {file'}
  /\ named' = Dates[today]
  /\ UNCHANGED <<buffer, offset, sem, mutex, fputsType, fileTime, straddled, today,
                 cancelled, logged, faults, unopened, exiting, crashed>>

OpenFails(t) ==
  /\ faults < MaxFaults
  /\ Go(t, "open", IF t = Main THEN "opened" ELSE "wait")
  /\ file' = 0
  /\ faults' = faults + 1
  /\ unopened' = TRUE
  /\ UNCHANGED <<buffer, offset, sem, mutex, fputsType, dateVars, open, files, today,
                 cancelled, logged, exiting, crashed>>

(* m_FileTime is the date after fopen: if the day ended in between, a file *)
(* named for the day before counts as today's.                             *)
SetFileTime(t) ==
  /\ Go(t, "stamp", IF t = Main THEN "create" ELSE "type")
  /\ fileTime' = Dates[today]
  /\ straddled' = (named # fileTime')
  /\ UNCHANGED <<buffer, offset, sem, mutex, fputsType, file, named, open, files, today,
                 cancelled, logged, faults, unopened, exiting, crashed>>

CreateWriter(w) ==
  /\ at[Main] = "create"
  /\ at[w] = "absent"
  /\ at' = [at EXCEPT ![w] = "wait",
              ![Main] = IF \E v \in Writers \ {w} : at[v] = "absent" THEN "create" ELSE "type"]
  /\ UNCHANGED <<buffer, offset, sem, mutex, fputsType, file, dateVars, open, files,
                 today, cancelled, logged, faults, unopened, exiting, crashed>>

(* A writer then goes round its loop: log_open always returns false, and   *)
(* what woke it is put off.                                                *)
SetPutsType(t) ==
  /\ Go(t, "type", IF t = Main THEN "opened" ELSE "wait")
  /\ fputsType' = 1
  /\ UNCHANGED <<buffer, offset, sem, mutex, file, dateVars, open, files, today,
                 cancelled, logged, faults, unopened, exiting, crashed>>

-----------------------------------------------------------------------------
(* log_msg, log_sys and log_err return, log_dump and log_quit call exit.   *)

Cells(size) == [i \in 1..size |-> <<logged + 1, i>>]

(* log_puts.  A level of m_level or less logs nothing, and does not exit.  *)
log_puts(c, level, size, to) ==
  /\ Go(c, "idle", to)
  /\ level > m_level
  /\ logged < MaxLogged
  /\ logged' = logged + 1
  /\ IF fputsType = 0
     THEN UNCHANGED <<buffer, offset, sem>>
     ELSE /\ mutex = NoThread
          /\ buffer' = Cells(size) \o buffer
          /\ offset' = (offset - size) % Block
          /\ sem' = IF Len(buffer') > HighWater THEN sem + 1 ELSE sem
  /\ UNCHANGED <<mutex, fputsType, file, dateVars, open, files, today, cancelled,
                 faults, unopened, crashed>>

log_msg(c, level, size) == log_puts(c, level, size, "idle") /\ UNCHANGED exiting

log_dump(c, level, size) == log_puts(c, level, size, "cancel") /\ exiting' = TRUE

(* exit runs ~CLog, which waits for nobody.                                *)
CancelWriters(c) ==
  /\ Go(c, "cancel", "clear")
  /\ cancelled' = {w \in Writers : at[w] \notin {"absent", "gone"}}
  /\ UNCHANGED <<buffer, offset, sem, mutex, fputsType, file, dateVars, open, files,
                 today, logged, faults, unopened, exiting, crashed>>

(* The deque is cleared without the mutex: inside a writer's critical      *)
(* section a data race, here with the outcomes that it counts or is lost.  *)
ClearBuffer(c) ==
  /\ Go(c, "clear", "fclose")
  /\ buffer' = <<>> \/ (mutex # NoThread /\ buffer' = buffer)
  /\ UNCHANGED <<offset, sem, mutex, fputsType, file, dateVars, open, files, today,
                 cancelled, logged, faults, unopened, exiting, crashed>>

CloseLog(c) ==
  /\ Go(c, "fclose", "gone")
  /\ open' = open \ {file}
  /\ file' = 0
  /\ crashed' = (file \notin open \cup {0})
  /\ UNCHANGED <<buffer, offset, sem, mutex, fputsType, dateVars, files, today,
                 cancelled, logged, faults, unopened, exiting>>

-----------------------------------------------------------------------------
(* log_write.                                                              *)

(* Mutant: only a signal makes it write.                                   *)
WaitsForSignal(w) ==
  /\ sem > 0
  /\ Go(w, "wait", "check")
  /\ sem' = sem - 1
  /\ UNCHANGED <<buffer, offset, mutex, fputsType, file, dateVars, open, files, today,
                 cancelled, logged, faults, unopened, exiting, crashed>>

(* sem_timedwait takes a token or times out; interrupted, it starts over.  *)
Wait(w) ==
  /\ Go(w, "wait", "check")
  /\ sem' = IF sem > 0 THEN sem - 1 ELSE 0
  /\ UNCHANGED <<buffer, offset, mutex, fputsType, file, dateVars, open, files, today,
                 cancelled, logged, faults, unopened, exiting, crashed>>

(* Mutant: only the day of the month is compared.                          *)
later_day(log, now) == log.mday < now.mday

(* Year, month and day are compared each on its own.                       *)
should_newfile(log, now) ==
  ~(log.year >= now.year /\ log.mon >= now.mon /\ log.mday >= now.mday)

CheckDate(w) ==
  /\ Go(w, "check", IF should_newfile(fileTime, Dates[today]) THEN "close" ELSE "lock")
  /\ UNCHANGED <<buffer, offset, sem, mutex, fputsType, file, dateVars, open, files,
                 today, cancelled, logged, faults, unopened, exiting, crashed>>

CloseFile(w) ==
  /\ Go(w, "close", "open")
  /\ open' = open \ {file}
  /\ crashed' = (file \notin open)
  /\ UNCHANGED <<buffer, offset, sem, mutex, fputsType, file, dateVars, files, today,
                 cancelled, logged, faults, unopened, exiting>>

Lock(w) ==
  /\ mutex = NoThread
  /\ mutex' = w
  /\ Go(w, "lock", "flush") \/ Go(w, "cleanlock", "cleanflush")
  /\ UNCHANGED <<buffer, offset, sem, fputsType, file, dateVars, open, files, today,
                 cancelled, logged, faults, unopened, exiting, crashed>>

Flushing(w) == at[w] \in {"flush", "cleanflush"}
Part == IF Len(buffer) > Chunk THEN Chunk ELSE Len(buffer)

(* The n cells from the address of the first one on.                       *)
Memory(n) == [i \in 1..n |-> IF offset + i <= Block THEN buffer[i] ELSE Garbage]

(* Mutant: the end of the buffer is erased.                                *)
WritePartKeeps(w) ==
  /\ Flushing(w)
  /\ buffer # <<>>
  /\ file \in open
  /\ files' = [files EXCEPT ![file] = @ \o Memory(Part)]
  /\ buffer' = SubSeq(buffer, 1, Len(buffer) - Part)
  /\ offset' = offset
  /\ UNCHANGED <<sem, mutex, fputsType, file, dateVars, open, today, at, cancelled,
                 logged, faults, unopened, exiting, crashed>>

WritePart(w) ==
  /\ Flushing(w)
  /\ buffer # <<>>
  /\ file \in open
  /\ files' = [files EXCEPT ![file] = @ \o Memory(Part)]
  /\ buffer' = SubSeq(buffer, Part + 1, Len(buffer))
  /\ offset' = IF Part = Len(buffer) THEN offset ELSE (offset + Part) % Block
  /\ UNCHANGED <<sem, mutex, fputsType, file, dateVars, open, today, at, cancelled,
                 logged, faults, unopened, exiting, crashed>>

Unlock(w) ==
  /\ mutex' = NoThread
  /\ at' = [at EXCEPT ![w] = IF @ = "flush" THEN "wait" ELSE "gone"]

(* A short write: some cells are in the file and all stay in the buffer.   *)
WriteFails(w) ==
  /\ Flushing(w)
  /\ buffer # <<>>
  /\ file \in open
  /\ faults < MaxFaults
  /\ \E n \in 0..(Part - 1) : files' = [files EXCEPT ![file] = @ \o Memory(n)]
  /\ faults' = faults + 1
  /\ Unlock(w)
  /\ UNCHANGED <<buffer, offset, sem, fputsType, file, dateVars, open, today, cancelled,
                 logged, unopened, exiting, crashed>>

WriteNowhere(w) ==
  /\ Flushing(w)
  /\ buffer # <<>>
  /\ file \notin open
  /\ crashed' = TRUE
  /\ UNCHANGED <<buffer, offset, sem, mutex, fputsType, file, dateVars, open, files,
                 today, at, cancelled, logged, faults, unopened, exiting>>

Written(w) ==
  /\ Flushing(w)
  /\ buffer = <<>>
  /\ Unlock(w)
  /\ UNCHANGED <<buffer, offset, sem, fputsType, file, dateVars, open, files, today,
                 cancelled, logged, faults, unopened, exiting, crashed>>

(* A pending cancel acts in the wait and in the calls of stdio, and runs   *)
(* clean_proc; inside the critical section that waits for its own mutex.   *)
Cancelled(w) ==
  /\ w \in cancelled
  /\ at[w] \in {"wait", "check", "close", "open", "lock", "flush"}
  /\ at' = [at EXCEPT ![w] = "cleanlock"]
  /\ cancelled' = cancelled \ {w}
  /\ UNCHANGED <<buffer, offset, sem, mutex, fputsType, file, dateVars, open, files,
                 today, logged, faults, unopened, exiting, crashed>>

-----------------------------------------------------------------------------
(* The clock.                                                              *)
NextDay ==
  /\ today < Len(Dates)
  /\ today' = today + 1
  /\ UNCHANGED <<buffer, offset, sem, mutex, fputsType, file, dateVars, open, files, at,
                 cancelled, logged, faults, unopened, exiting, crashed>>

log_open(t) == OpenFile(t) \/ OpenFails(t) \/ SetFileTime(t) \/ SetPutsType(t)

log_write(w) ==
  \/ Wait(w) \/ CheckDate(w) \/ CloseFile(w) \/ log_open(w) \/ Lock(w)
  \/ WritePart(w) \/ WriteFails(w) \/ WriteNowhere(w) \/ Written(w) \/ Cancelled(w)

Main_proc == log_open(Main) \/ \E w \in Writers : CreateWriter(w)

Exit(c) == CancelWriters(c) \/ ClearBuffer(c) \/ CloseLog(c)

(* The process runs until it has crashed or exit is done.                  *)
Running == ~crashed /\ \A c \in Clients : at[c] # "gone"

LogNext ==
  /\ Running
  /\ \/ Main_proc
     \/ \E w \in Writers : log_write(w)
     \/ \E c \in Clients :
          \/ \E level \in Levels, size \in Sizes :
               log_msg(c, level, size) \/ (~exiting /\ log_dump(c, level, size))
          \/ Exit(c)
     \/ NextDay

LogSpec == LogInit /\ [][LogNext]_logVars

(***************************************************************************)
(* Fairness: the threads that log_open creates and their creator run; who  *)
(* keeps asking for m_mutex gets it.                                       *)
(***************************************************************************)
FairLogSpec ==
  /\ LogSpec
  /\ WF_logVars(Running /\ Main_proc)
  /\ \A w \in Writers :
       WF_logVars(Running /\ log_write(w)) /\ SF_logVars(Running /\ Lock(w))
=============================================================================
