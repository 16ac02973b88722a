------------------------------ MODULE FileWal -------------------------------
(***************************************************************************)
(* The write-ahead log of internal/storage/wal.go: concurrent calls of     *)
(* Append hand their record to one writer goroutine over an unbuffered     *)
(* channel, Close closes the channel and waits for the writer.             *)
(*                                                                         *)
(* The file belongs to the operating system: a write may put down a part   *)
(* of the record, Sync makes durable all that was written before, and a    *)
(* crash of the machine keeps what was durable and cuts the rest anywhere, *)
(* inside a record too.  A record is whole when all its bytes but possibly *)
(* the newline are there: json.Decoder does not need the newline.          *)
(***************************************************************************)
EXTENDS Integers, Sequences

CONSTANTS
  Calls,        \* calls of Append, by the broker's goroutines
  Closers,      \* calls of Close
  NoCall, Free,
  \* Scenario bounds.
  MaxFaults,    \* failed writes and syncs
  MaxRestarts   \* ends of the process, by a crash or after Close

ASSUME NamesAssumption ==
  /\ NoCall \notin Calls
  /\ Free \notin Calls

VARIABLES
  mu, closed,          \* FileWAL.mu (its holder between steps), FileWAL.closed
  call,                \* state of each Append
  closer,              \* state of each Close
  writer, req, err,    \* runWriter: its place, the request, writeRecord's result
  file, synced,        \* the entries of the file; how many of them are durable
  fileOpen,            \* FileWAL.file is open
  mode,                \* the process: up, down, or failed to start
  faults, restarts

lock  == <<mu, closed>>
wr    == <<writer, req, err>>
disk  == <<file, synced>>
world == <<mode, faults, restarts>>

vars == <<lock, call, closer, wr, disk, fileOpen, world>>

Whole(c) == [rec |-> c, whole |-> TRUE]
Torn(c)  == [rec |-> c, whole |-> FALSE]

InProgress == {"sending", "waiting"}

Init ==
  /\ mu = Free /\ closed = FALSE
  /\ call = [c \in Calls |-> "new"]
  /\ closer = [k \in Closers |-> "new"]
  /\ writer = "receive" /\ req = NoCall /\ err = "ok"
  /\ file = <<>> /\ synced = 0 /\ fileOpen = TRUE
  /\ mode = "up" /\ faults = 0 /\ restarts = 0

-----------------------------------------------------------------------------
(* Append. *)

AppendRejected(c) ==
  /\ mode = "up" /\ call[c] = "new" /\ mu = Free /\ closed
  /\ call' = [call EXCEPT ![c] = "rejected"]
  /\ UNCHANGED <<lock, closer, wr, disk, fileOpen, world>>

\* Mutant of AppendLock: mu is released before the send.
AppendLockReleased(c) ==
  /\ mode = "up" /\ call[c] = "new" /\ mu = Free /\ ~closed
  /\ call' = [call EXCEPT ![c] = "sending"]
  /\ UNCHANGED <<lock, closer, wr, disk, fileOpen, world>>

AppendLock(c) ==
  /\ mode = "up" /\ call[c] = "new" /\ mu = Free /\ ~closed
  /\ mu' = c
  /\ call' = [call EXCEPT ![c] = "sending"]
  /\ UNCHANGED <<closed, closer, wr, disk, fileOpen, world>>

\* The send meets the receive of the writer's range loop; then mu is unlocked.
\* On a closed channel the send panics: NoSendAfterClose.
Send(c) ==
  /\ mode = "up" /\ call[c] = "sending" /\ writer = "receive" /\ ~closed
  /\ req' = c /\ writer' = "write"
  /\ call' = [call EXCEPT ![c] = "waiting"]
  /\ mu' = Free
  /\ UNCHANGED <<closed, closer, err, disk, fileOpen, world>>

-----------------------------------------------------------------------------
(* runWriter and writeRecord. *)

WriteDone ==
  /\ mode = "up" /\ writer = "write"
  /\ file' = Append(file, Whole(req))
  /\ writer' = "sync"
  /\ UNCHANGED <<lock, call, closer, req, err, synced, fileOpen, world>>

\* Write returned an error or n # len(data), or Marshal failed.
WriteFails ==
  /\ mode = "up" /\ writer = "write" /\ faults < MaxFaults
  /\ faults' = faults + 1
  /\ file' \in {file, Append(file, Whole(req)), Append(file, Torn(req))}
  /\ err' = "failed" /\ writer' = "reply"
  /\ UNCHANGED <<lock, call, closer, req, synced, fileOpen, mode, restarts>>

\* Mutant of SyncDone: the record is answered for without file.Sync.
SyncDoneNot ==
  /\ mode = "up" /\ writer = "sync"
  /\ err' = "ok" /\ writer' = "reply"
  /\ UNCHANGED <<lock, call, closer, req, disk, fileOpen, world>>

SyncDone ==
  /\ mode = "up" /\ writer = "sync"
  /\ synced' = Len(file)
  /\ err' = "ok" /\ writer' = "reply"
  /\ UNCHANGED <<lock, call, closer, req, file, fileOpen, world>>

SyncFails ==
  /\ mode = "up" /\ writer = "sync" /\ faults < MaxFaults
  /\ faults' = faults + 1
  /\ err' = "failed" /\ writer' = "reply"
  /\ UNCHANGED <<lock, call, closer, req, disk, fileOpen, mode, restarts>>

\* Mutant of Reply: an error ends the writer with its caller unanswered.
ReplyDies ==
  /\ mode = "up" /\ writer = "reply"
  /\ IF err = "ok"
     THEN call' = [call EXCEPT ![req] = err] /\ writer' = "receive"
     ELSE UNCHANGED call /\ writer' = "exited"
  /\ req' = NoCall
  /\ UNCHANGED <<lock, closer, err, disk, fileOpen, world>>

\* The result channel has room for one, so the send cannot block.
Reply ==
  /\ mode = "up" /\ writer = "reply"
  /\ call' = [call EXCEPT ![req] = err]
  /\ writer' = "receive" /\ req' = NoCall
  /\ UNCHANGED <<lock, closer, err, disk, fileOpen, world>>

WriterExits ==
  /\ mode = "up" /\ writer = "receive" /\ closed
  /\ writer' = "exited"
  /\ UNCHANGED <<lock, call, closer, req, err, disk, fileOpen, world>>

-----------------------------------------------------------------------------
(* Close. *)

\* Mutant of Close: the channel is not closed.
CloseKeepsChannel(k) ==
  /\ mode = "up" /\ closer[k] = "new" /\ mu = Free
  /\ closer' = [closer EXCEPT ![k] = "waiting"]
  /\ UNCHANGED <<lock, call, wr, disk, fileOpen, world>>

Close(k) ==
  /\ mode = "up" /\ closer[k] = "new" /\ mu = Free
  /\ closed' = TRUE
  /\ closer' = [closer EXCEPT ![k] = IF closed THEN "done" ELSE "waiting"]
  /\ UNCHANGED <<mu, call, wr, disk, fileOpen, world>>

\* Mutant of CloseFile: the writer is not waited for.
CloseFileAtOnce(k) ==
  /\ mode = "up" /\ closer[k] = "waiting"
  /\ closer' = [closer EXCEPT ![k] = "done"]
  /\ fileOpen' = FALSE
  /\ UNCHANGED <<lock, call, wr, disk, world>>

CloseFile(k) ==
  /\ mode = "up" /\ closer[k] = "waiting" /\ writer = "exited"
  /\ closer' = [closer EXCEPT ![k] = "done"]
  /\ fileOpen' = FALSE
  /\ UNCHANGED <<lock, call, wr, disk, world>>

-----------------------------------------------------------------------------
(* The end of the process, and the next start. *)

\* What is left of the calls: those under way never return.
Stop ==
  /\ restarts < MaxRestarts /\ restarts' = restarts + 1
  /\ mode' = "down"
  /\ call' = [c \in Calls |-> IF call[c] \in InProgress THEN "lost" ELSE call[c]]
  /\ UNCHANGED <<lock, closer, wr, fileOpen, faults>>

\* A crash of the process or of the machine, at any point.
Crash ==
  /\ mode = "up"
  /\ \E n \in synced .. Len(file) :
       \/ file' = SubSeq(file, 1, n)
       \/ n < Len(file) /\ file' = Append(SubSeq(file, 1, n), Torn(file[n + 1].rec))
  /\ synced' = Len(file')
  /\ Stop

\* runServer returns after Close.
Exit ==
  /\ mode = "up" /\ ~fileOpen
  /\ UNCHANGED disk
  /\ Stop

Loads == \A i \in DOMAIN file : file[i].whole

\* NewFileWAL opens the file for appending and starts the writer; Load, called by
\* NewBroker, decodes the file and fails on a torn record, which ends runServer.
NewFileWAL ==
  /\ mode = "down"
  /\ mu' = Free /\ closed' = FALSE
  /\ closer' = [k \in Closers |-> "new"]
  /\ writer' = "receive" /\ req' = NoCall /\ err' = "ok"
  /\ fileOpen' = TRUE
  /\ mode' = IF Loads THEN "up" ELSE "failed"
  /\ UNCHANGED <<call, disk, faults, restarts>>

-----------------------------------------------------------------------------
AppendSteps(c) == AppendRejected(c) \/ AppendLock(c) \/ Send(c)
WriterSteps ==
  WriteDone \/ WriteFails \/ SyncDone \/ SyncFails \/ Reply \/ WriterExits
CloseSteps(k) == Close(k) \/ CloseFile(k)

Next ==
  \/ \E c \in Calls : AppendSteps(c)
  \/ WriterSteps
  \/ \E k \in Closers : CloseSteps(k)
  \/ Crash \/ Exit \/ NewFileWAL

Spec == Init /\ [][Next]_vars

\* Goroutines run.  Calls need not be made: only one that has mu or waits goes on.
Fairness ==
  /\ \A c \in Calls : WF_vars(Send(c))
  /\ WF_vars(WriterSteps)
  /\ \A k \in Closers : WF_vars(CloseFile(k))

FairSpec == Spec /\ Fairness

-----------------------------------------------------------------------------
(* Properties. *)

\* Every variable holds a value of its kind, and no more of the file is durable
\* than there is.
TypeOK ==
  /\ mu \in Calls \cup {Free} /\ closed \in BOOLEAN
  /\ call \in [Calls -> InProgress \cup
                        {"new", "ok", "failed", "rejected", "lost"}]
  /\ closer \in [Closers -> {"new", "waiting", "done"}]
  /\ writer \in {"receive", "write", "sync", "reply", "exited"}
  /\ req \in Calls \cup {NoCall}
  /\ err \in {"ok", "failed"}
  /\ file \in Seq([rec : Calls, whole : BOOLEAN])
  /\ synced \in 0 .. Len(file)
  /\ fileOpen \in BOOLEAN
  /\ mode \in {"up", "down", "failed"}
  /\ faults \in Nat /\ restarts \in Nat

\* While an Append stands at the send of wal.go:117 the channel is open: a send
\* on the channel that Close has closed would panic the whole broker.
NoSendAfterClose ==
  mode = "up" => \A c \in Calls : call[c] = "sending" => ~closed

\* A record whose Append returned nil is on the disk in full, whatever failed or
\* crashed since (writeRecord answers only after Sync).
ConfirmedIsDurable ==
  \A c \in Calls : call[c] = "ok" => \E i \in 1 .. synced : file[i] = Whole(c)

\* When Close closes the file the writer is gone and every Append that got past
\* the closed check has been answered: no write meets a closed file.
CloseDrains ==
  mode = "up" /\ ~fileOpen =>
    writer = "exited" /\ \A c \in Calls : call[c] \notin InProgress

\* The record of the request in the writer's hands, once some of it is written.
Undecided == mode = "up" /\ file # <<>> /\ file[Len(file)].rec = req

\* The log as the callers know it: without that record.
Settled == IF Undecided THEN SubSeq(file, 1, Len(file) - 1) ELSE file

Answered == [c \in Calls |->
  IF call[c] \in {"new"} \cup InProgress THEN "none" ELSE call[c]]

Log == INSTANCE RecordLog WITH log <- Settled, result <- Answered

\* Mutex, channel, writer goroutine, short writes, crashes and restarts together
\* behave like the one-step append that the broker's code relies on.
ImplementsRecordLog == Log!Spec

\* An Append past the closed check returns and a Close returns, unless the
\* process ends first: the writer answers every request and exits on close.
CallsReturn ==
  /\ \A c \in Calls : call[c] \in InProgress ~> call[c] \notin InProgress
  /\ \A k \in Closers : closer[k] = "waiting" ~> closer[k] # "waiting" \/ mode # "up"
=============================================================================
