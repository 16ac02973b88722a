--------------------------- MODULE FileWalProofs ----------------------------
(***************************************************************************)
(* For any number of Append and Close calls, write faults and restarts:    *)
(* the safety invariants of FileWal, and that FileWal implements RecordLog.*)
(*                                                                         *)
(* None of the invariants is inductive alone.  Safe adds who holds mu and  *)
(* the request (Mutex, Handover) and how much of the request in hand is in *)
(* the file at each place of the writer (Written).                         *)
(***************************************************************************)
EXTENDS FileWal, SequenceTheorems, TLAPS

\* A step that names no prover is given more time than the default.
USE SMTT(30), ZenonT(30)

\* A record in the file, whole or torn.
Entry == [rec : Calls, whole : BOOLEAN]

\* The holder of mu is at the send, with the channel open.
Mutex ==
  /\ mode = "up" =>
       /\ \A c \in Calls : call[c] = "sending" <=> mu = c
       /\ mu # Free => ~closed

\* The writer has the request of the one caller that waits.
Handover ==
  /\ mode = "up" =>
       /\ \A c \in Calls : call[c] = "waiting" <=> c = req
       /\ req = NoCall <=> writer \in {"receive", "exited"}
       /\ writer = "exited" => closed
       /\ ~fileOpen => writer = "exited"
  /\ mode # "up" => \A c \in Calls : call[c] \notin InProgress

\* A call is in the file at most once.  The request in hand is there at the end,
\* complete and durable as far as the writer has come.
Written ==
  /\ \A i \in 1 .. Len(file) : call[file[i].rec] \notin {"new", "sending", "rejected"}
  /\ \A i, j \in 1 .. Len(file) : file[i].rec = file[j].rec => i = j
  /\ mode = "up" =>
       /\ \A i \in 1 .. Len(file) - 1 : file[i].rec # req
       /\ writer = "write" => \A i \in 1 .. Len(file) : file[i].rec # req
       /\ writer = "sync" => Len(file) > 0 /\ file[Len(file)] = Whole(req)
       /\ writer = "reply" /\ err = "ok" =>
            Len(file) > 0 /\ file[Len(file)] = Whole(req) /\ synced = Len(file)

\* The inductive invariant.
Safe == TypeOK /\ Mutex /\ Handover /\ Written /\ ConfirmedIsDurable

USE NamesAssumption
USE DEF vars, lock, wr, disk, world, Whole, Torn, InProgress

-----------------------------------------------------------------------------
(* Sequences. *)

\* What Append does to a sequence of entries.
LEMMA Appended ==
  ASSUME NEW s \in Seq(Entry), NEW e \in Entry
  PROVE  /\ Append(s, e) \in Seq(Entry)
         /\ Len(Append(s, e)) = Len(s) + 1
         /\ Len(s) \in Nat
         /\ \A i \in 1 .. Len(s) : Append(s, e)[i] = s[i]
         /\ Append(s, e)[Len(s) + 1] = e
BY AppendProperties, LenProperties

\* A prefix has the entries of the sequence.
LEMMA Prefix ==
  ASSUME NEW s \in Seq(Entry), NEW n \in 0 .. Len(s)
  PROVE  /\ SubSeq(s, 1, n) \in Seq(Entry)
         /\ Len(SubSeq(s, 1, n)) = n
         /\ \A i \in 1 .. n : SubSeq(s, 1, n)[i] = s[i]
<1>1. Len(s) \in Nat /\ \A i \in 1 .. n : s[i] \in Entry
  BY LenProperties, ElementOfSeq
<1>2. SubSeq(s, 1, n) \in Seq(Entry)
  BY <1>1, SubSeqProperties
<1>3. Len(SubSeq(s, 1, n)) = IF 1 <= n THEN n - 1 + 1 ELSE 0
  BY <1>1, SubSeqProperties
<1>4. \A i \in 1 .. n - 1 + 1 : SubSeq(s, 1, n)[i] = s[1 + i - 1]
  BY <1>1, SubSeqProperties
<1> QED BY <1>1, <1>2, <1>3, <1>4

\* Taking the entry just appended away again.
LEMMA FrontOfAppend ==
  ASSUME NEW s \in Seq(Entry), NEW e \in Entry
  PROVE  SubSeq(Append(s, e), 1, Len(Append(s, e)) - 1) = s
<1>1. /\ Append(s, e) \in Seq(Entry) /\ Len(s) \in Nat
      /\ Len(Append(s, e)) - 1 = Len(s)
      /\ \A i \in 1 .. Len(s) : Append(s, e)[i] = s[i]
  BY Appended
<1>2. /\ SubSeq(Append(s, e), 1, Len(s)) \in Seq(Entry)
      /\ Len(SubSeq(Append(s, e), 1, Len(s))) = Len(s)
      /\ \A i \in 1 .. Len(s) : SubSeq(Append(s, e), 1, Len(s))[i] = Append(s, e)[i]
  BY <1>1, Prefix
<1> QED BY <1>1, <1>2, SeqEqual

\* A nonempty sequence is its front and its last entry.
LEMMA FrontAndLast ==
  ASSUME NEW s \in Seq(Entry), Len(s) > 0
  PROVE  /\ SubSeq(s, 1, Len(s) - 1) \in Seq(Entry)
         /\ s = Append(SubSeq(s, 1, Len(s) - 1), s[Len(s)])
<1> DEFINE f == SubSeq(s, 1, Len(s) - 1)
<1>1. Len(s) \in Nat /\ s[Len(s)] \in Entry
  BY LenProperties, ElementOfSeq
<1>0. Len(s) - 1 \in 0 .. Len(s)
  BY <1>1
<1>2. f \in Seq(Entry) /\ Len(f) = Len(s) - 1 /\ \A i \in 1 .. Len(s) - 1 : f[i] = s[i]
  BY ZenonT(30), <1>0, Prefix
<1>3. /\ Append(f, s[Len(s)]) \in Seq(Entry)
      /\ Len(Append(f, s[Len(s)])) = Len(s)
      /\ \A i \in 1 .. Len(s) - 1 : Append(f, s[Len(s)])[i] = s[i]
      /\ Append(f, s[Len(s)])[Len(s)] = s[Len(s)]
  <2> HIDE DEF f
  <2> QED BY <1>1, <1>2, Appended
<1>4. \A i \in 1 .. Len(s) : s[i] = Append(f, s[Len(s)])[i]
  BY <1>1, <1>3
<1> QED BY <1>2, <1>3, <1>4, SeqEqual

\* A prefix of a prefix is a prefix.
LEMMA PrefixOfPrefix ==
  ASSUME NEW s \in Seq(Entry), NEW m \in 0 .. Len(s), NEW n \in 0 .. m
  PROVE  SubSeq(SubSeq(s, 1, m), 1, n) = SubSeq(s, 1, n)
<1>0. Len(s) \in Nat
  BY ZenonT(30), LenProperties
<1>1. /\ SubSeq(s, 1, m) \in Seq(Entry) /\ Len(SubSeq(s, 1, m)) = m
      /\ \A i \in 1 .. m : SubSeq(s, 1, m)[i] = s[i]
  BY ZenonT(30), Prefix
<1>2. /\ SubSeq(s, 1, n) \in Seq(Entry) /\ Len(SubSeq(s, 1, n)) = n
      /\ \A i \in 1 .. n : SubSeq(s, 1, n)[i] = s[i]
  BY <1>0, Prefix
<1>3. /\ SubSeq(SubSeq(s, 1, m), 1, n) \in Seq(Entry)
      /\ Len(SubSeq(SubSeq(s, 1, m), 1, n)) = n
      /\ \A i \in 1 .. n : SubSeq(SubSeq(s, 1, m), 1, n)[i] = SubSeq(s, 1, m)[i]
  BY ZenonT(30), <1>1, Prefix
<1> QED BY <1>0, <1>1, <1>2, <1>3, SeqEqual

\* The file is a sequence of entries of known calls.
LEMMA FileType ==
  ASSUME TypeOK
  PROVE  /\ file \in Seq(Entry) /\ Len(file) \in Nat
         /\ \A i \in 1 .. Len(file) : file[i] \in Entry /\ file[i].rec \in Calls
<1>1. file \in Seq(Entry)
  BY ZenonT(30) DEF TypeOK, Entry
<1>2. \A i \in 1 .. Len(file) : file[i] \in Entry
  BY ZenonT(30), <1>1, ElementOfSeq
<1> QED BY <1>1, <1>2, LenProperties DEF Entry

\* A crash leaves n entries, and perhaps a part of the next: all that the
\* invariants need to know of Crash.
LEMMA CrashEffect ==
  ASSUME TypeOK, Crash
  PROVE  \E n \in synced .. Len(file) :
           /\ file' \in Seq(Entry) /\ synced' = Len(file')
           /\ \/ file' = SubSeq(file, 1, n)
              \/ /\ n < Len(file)
                 /\ file' = Append(SubSeq(file, 1, n), Torn(file[n + 1].rec))
           /\ n <= Len(file') /\ Len(file') <= Len(file)
           /\ \A i \in 1 .. n : file'[i] = file[i]
           /\ \A i \in 1 .. Len(file') : file'[i].rec = file[i].rec
<1>0. file \in Seq(Entry) /\ Len(file) \in Nat /\ synced \in 0 .. Len(file)
  BY ZenonT(30), LenProperties DEF TypeOK, Entry
<1>1. PICK n \in synced .. Len(file) :
        \/ file' = SubSeq(file, 1, n)
        \/ n < Len(file) /\ file' = Append(SubSeq(file, 1, n), Torn(file[n + 1].rec))
  BY ZenonT(30) DEF Crash
<1>2. n \in 0 .. Len(file) /\ synced' = Len(file')
  BY <1>0 DEF Crash
<1>3. /\ SubSeq(file, 1, n) \in Seq(Entry)
      /\ Len(SubSeq(file, 1, n)) = n
      /\ \A i \in 1 .. n : SubSeq(file, 1, n)[i] = file[i]
  BY ZenonT(30), <1>0, <1>2, Prefix
<1> WITNESS n \in synced .. Len(file)
<1>4. CASE file' = SubSeq(file, 1, n)
  <2>1. /\ file' \in Seq(Entry) /\ synced' = Len(file') /\ Len(file') = n
        /\ \A i \in 1 .. n : file'[i] = file[i]
    BY ZenonT(30), <1>2, <1>3, <1>4
  <2> QED BY <1>0, <1>2, <1>4, <2>1
<1>5. CASE n < Len(file) /\ file' = Append(SubSeq(file, 1, n), Torn(file[n + 1].rec))
  <2>1. file[n + 1] \in Entry
    BY <1>0, <1>2, <1>5, ElementOfSeq
  <2>2. Torn(file[n + 1].rec) \in Entry
    BY ZenonT(30), <2>1 DEF Entry
  <2>3. /\ file' \in Seq(Entry) /\ Len(file') = n + 1
        /\ \A i \in 1 .. n : file'[i] = SubSeq(file, 1, n)[i]
        /\ file'[n + 1] = Torn(file[n + 1].rec)
    BY <1>3, <1>5, <2>2, Appended
  <2>4. \A i \in 1 .. n : file'[i] = file[i]
    BY ZenonT(30), <1>3, <2>3
  <2>5. \A i \in 1 .. Len(file') : file'[i].rec = file[i].rec
    BY <1>2, <2>3, <2>4
  <2> QED BY <1>0, <1>2, <1>5, <2>3, <2>4, <2>5
<1> QED BY <1>1, <1>4, <1>5

-----------------------------------------------------------------------------
(* The invariant. *)

\* Types: a request is in hand whenever one is used.
LEMMA TypeStep ==
  ASSUME TypeOK, Handover, [Next]_vars
  PROVE  TypeOK'
<1>1. ASSUME NEW c \in Calls, AppendRejected(c) PROVE TypeOK'
  BY ZenonT(30), <1>1 DEF AppendRejected, TypeOK
<1>2. ASSUME NEW c \in Calls, AppendLock(c) PROVE TypeOK'
  BY ZenonT(30), <1>2 DEF AppendLock, TypeOK
<1>3. ASSUME NEW c \in Calls, Send(c) PROVE TypeOK'
  BY ZenonT(30), <1>3 DEF Send, TypeOK
<1>4. CASE WriteDone
  <2>1. req \in Calls /\ Whole(req) \in Entry
    BY ZenonT(30), <1>4 DEF WriteDone, TypeOK, Handover, Entry
  <2>2. file \in Seq(Entry) /\ file' = Append(file, Whole(req)) /\ synced' = synced
    BY ZenonT(30), <1>4 DEF WriteDone, TypeOK, Entry
  <2>3. file' \in Seq(Entry) /\ synced' \in 0 .. Len(file')
    BY <2>1, <2>2, Appended DEF TypeOK
  <2> QED BY <1>4, <2>3 DEF WriteDone, TypeOK, Entry
<1>5. CASE WriteFails
  <2>1. req \in Calls /\ Whole(req) \in Entry /\ Torn(req) \in Entry
    BY ZenonT(30), <1>5 DEF WriteFails, TypeOK, Handover, Entry
  <2>2. file \in Seq(Entry) /\ synced' = synced
    BY ZenonT(30), <1>5 DEF WriteFails, TypeOK, Entry
  <2>3. file' \in Seq(Entry) /\ synced' \in 0 .. Len(file')
    <3>1. CASE file' = file
      BY ZenonT(30), <2>2, <3>1 DEF TypeOK
    <3>2. CASE file' = Append(file, Whole(req))
      BY <2>1, <2>2, <3>2, Appended DEF TypeOK
    <3>3. CASE file' = Append(file, Torn(req))
      BY <2>1, <2>2, <3>3, Appended DEF TypeOK
    <3> QED BY <1>5, <3>1, <3>2, <3>3 DEF WriteFails
  <2> QED BY <1>5, <2>3 DEF WriteFails, TypeOK, Entry
<1>6. CASE SyncDone
  <2>1. Len(file) \in 0 .. Len(file)
    BY LenProperties DEF TypeOK
  <2> QED BY <1>6, <2>1 DEF SyncDone, TypeOK
<1>7. CASE SyncFails
  BY <1>7 DEF SyncFails, TypeOK
<1>8. CASE Reply
  <2>1. req \in Calls
    BY ZenonT(30), <1>8 DEF Reply, TypeOK, Handover
  <2> QED BY <1>8, <2>1 DEF Reply, TypeOK
<1>9. CASE WriterExits
  BY ZenonT(30), <1>9 DEF WriterExits, TypeOK
<1>10. ASSUME NEW k \in Closers, Close(k) PROVE TypeOK'
  BY ZenonT(30), <1>10 DEF Close, TypeOK
<1>11. ASSUME NEW k \in Closers, CloseFile(k) PROVE TypeOK'
  BY ZenonT(30), <1>11 DEF CloseFile, TypeOK
<1>12. CASE Crash
  <2>1. file' \in Seq(Entry) /\ synced' = Len(file')
    BY ZenonT(30), <1>12, CrashEffect
  <2>2. synced' \in 0 .. Len(file')
    BY <2>1, LenProperties
  <2> QED BY <1>12, <2>1, <2>2 DEF Crash, Stop, TypeOK, Entry
<1>13. CASE Exit
  BY <1>13 DEF Exit, Stop, TypeOK
<1>14. CASE NewFileWAL
  BY ZenonT(30), <1>14 DEF NewFileWAL, TypeOK
<1>15. CASE UNCHANGED vars
  BY ZenonT(30), <1>15 DEF TypeOK
<1> QED BY <1>1, <1>2, <1>3, <1>4, <1>5, <1>6, <1>7, <1>8, <1>9, <1>10, <1>11, <1>12, <1>13, <1>14, <1>15 DEF Next, AppendSteps, WriterSteps, CloseSteps

\* mu is handed from the holder to nobody, and Close takes it only when free.
LEMMA MutexStep ==
  ASSUME TypeOK, Handover, Mutex, [Next]_vars
  PROVE  Mutex'
<1>1. ASSUME NEW c \in Calls, AppendRejected(c) PROVE Mutex'
  BY ZenonT(30), <1>1 DEF AppendRejected, TypeOK, Handover, Mutex
<1>2. ASSUME NEW c \in Calls, AppendLock(c) PROVE Mutex'
  BY ZenonT(30), <1>2 DEF AppendLock, TypeOK, Handover, Mutex
<1>3. ASSUME NEW c \in Calls, Send(c) PROVE Mutex'
  BY ZenonT(30), <1>3 DEF Send, TypeOK, Handover, Mutex
<1>4. CASE WriteDone
  BY ZenonT(30), <1>4 DEF WriteDone, TypeOK, Handover, Mutex
<1>5. CASE WriteFails
  BY ZenonT(30), <1>5 DEF WriteFails, TypeOK, Handover, Mutex
<1>6. CASE SyncDone
  BY ZenonT(30), <1>6 DEF SyncDone, TypeOK, Handover, Mutex
<1>7. CASE SyncFails
  BY ZenonT(30), <1>7 DEF SyncFails, TypeOK, Handover, Mutex
<1>8. CASE Reply
  BY ZenonT(30), <1>8 DEF Reply, TypeOK, Handover, Mutex
<1>9. CASE WriterExits
  BY ZenonT(30), <1>9 DEF WriterExits, TypeOK, Handover, Mutex
<1>10. ASSUME NEW k \in Closers, Close(k) PROVE Mutex'
  BY ZenonT(30), <1>10 DEF Close, TypeOK, Handover, Mutex
<1>11. ASSUME NEW k \in Closers, CloseFile(k) PROVE Mutex'
  BY ZenonT(30), <1>11 DEF CloseFile, TypeOK, Handover, Mutex
<1>12. CASE Crash
  BY ZenonT(30), <1>12 DEF Crash, Stop, TypeOK, Handover, Mutex
<1>13. CASE Exit
  BY ZenonT(30), <1>13 DEF Exit, Stop, TypeOK, Handover, Mutex
<1>14. CASE NewFileWAL
  BY ZenonT(30), <1>14 DEF NewFileWAL, TypeOK, Handover, Mutex
<1>15. CASE UNCHANGED vars
  BY ZenonT(30), <1>15 DEF TypeOK, Handover, Mutex
<1> QED BY <1>1, <1>2, <1>3, <1>4, <1>5, <1>6, <1>7, <1>8, <1>9, <1>10, <1>11, <1>12, <1>13, <1>14, <1>15 DEF Next, AppendSteps, WriterSteps, CloseSteps

\* A request goes from its caller to the writer and back.
LEMMA HandoverStep ==
  ASSUME TypeOK, Mutex, Handover, [Next]_vars
  PROVE  Handover'
<1>1. ASSUME NEW c \in Calls, AppendRejected(c) PROVE Handover'
  BY ZenonT(30), <1>1 DEF AppendRejected, TypeOK, Mutex, Handover
<1>2. ASSUME NEW c \in Calls, AppendLock(c) PROVE Handover'
  BY ZenonT(30), <1>2 DEF AppendLock, TypeOK, Mutex, Handover
<1>3. ASSUME NEW c \in Calls, Send(c) PROVE Handover'
  BY ZenonT(30), <1>3 DEF Send, TypeOK, Mutex, Handover
<1>4. CASE WriteDone
  BY ZenonT(30), <1>4 DEF WriteDone, TypeOK, Mutex, Handover
<1>5. CASE WriteFails
  BY ZenonT(30), <1>5 DEF WriteFails, TypeOK, Mutex, Handover
<1>6. CASE SyncDone
  BY ZenonT(30), <1>6 DEF SyncDone, TypeOK, Mutex, Handover
<1>7. CASE SyncFails
  BY ZenonT(30), <1>7 DEF SyncFails, TypeOK, Mutex, Handover
<1>8. CASE Reply
  BY ZenonT(30), <1>8 DEF Reply, TypeOK, Mutex, Handover
<1>9. CASE WriterExits
  BY ZenonT(30), <1>9 DEF WriterExits, TypeOK, Mutex, Handover
<1>10. ASSUME NEW k \in Closers, Close(k) PROVE Handover'
  BY ZenonT(30), <1>10 DEF Close, TypeOK, Mutex, Handover
<1>11. ASSUME NEW k \in Closers, CloseFile(k) PROVE Handover'
  BY ZenonT(30), <1>11 DEF CloseFile, TypeOK, Mutex, Handover
<1>12. CASE Crash
  BY ZenonT(30), <1>12 DEF Crash, Stop, TypeOK, Mutex, Handover
<1>13. CASE Exit
  BY ZenonT(30), <1>13 DEF Exit, Stop, TypeOK, Mutex, Handover
<1>14. CASE NewFileWAL
  BY ZenonT(30), <1>14 DEF NewFileWAL, TypeOK, Mutex, Handover
<1>15. CASE UNCHANGED vars
  BY ZenonT(30), <1>15 DEF TypeOK, Mutex, Handover
<1> QED BY <1>1, <1>2, <1>3, <1>4, <1>5, <1>6, <1>7, <1>8, <1>9, <1>10, <1>11, <1>12, <1>13, <1>14, <1>15 DEF Next, AppendSteps, WriterSteps, CloseSteps

\* What the write of a record may do to the file: nothing, or an entry for the
\* request at the end.
LEMMA WriteEffect ==
  ASSUME TypeOK, Handover, WriteDone \/ WriteFails
  PROVE  /\ req \in Calls
         /\ \/ file' = file
            \/ /\ file' \in Seq(Entry) /\ Len(file') = Len(file) + 1
               /\ \A i \in 1 .. Len(file) : file'[i] = file[i]
               /\ file'[Len(file) + 1].rec = req
               /\ SubSeq(file', 1, Len(file') - 1) = file
<1>1. req \in Calls /\ Whole(req) \in Entry /\ Torn(req) \in Entry
  BY ZenonT(30) DEF WriteDone, WriteFails, TypeOK, Handover, Entry
<1>2. file \in Seq(Entry)
  BY ZenonT(30) DEF TypeOK, Entry
<1>3. CASE file' = Append(file, Whole(req))
  BY <1>1, <1>2, <1>3, Appended, FrontOfAppend
<1>4. CASE file' = Append(file, Torn(req))
  BY <1>1, <1>2, <1>4, Appended, FrontOfAppend
<1> QED BY <1>1, <1>3, <1>4 DEF WriteDone, WriteFails

\* Only the write adds an entry, for the request in hand, which had none.
LEMMA WrittenStep ==
  ASSUME TypeOK, Mutex, Handover, Written, [Next]_vars
  PROVE  Written'
<1>0. Len(file) \in Nat /\ \A i \in 1 .. Len(file) : file[i].rec \in Calls
  BY ZenonT(30), FileType
<1>1. ASSUME NEW c \in Calls, AppendRejected(c) PROVE Written'
  BY <1>1, <1>0 DEF AppendRejected, TypeOK, Mutex, Handover, Written
<1>2. ASSUME NEW c \in Calls, AppendLock(c) PROVE Written'
  BY <1>2, <1>0 DEF AppendLock, TypeOK, Mutex, Handover, Written
<1>3. ASSUME NEW c \in Calls, Send(c) PROVE Written'
  BY <1>3, <1>0 DEF Send, TypeOK, Mutex, Handover, Written
<1>4. CASE WriteDone
  <2>1. Whole(req) \in Entry /\ file \in Seq(Entry)
    BY ZenonT(30), <1>4 DEF WriteDone, TypeOK, Handover, Entry
  <2>2. /\ Len(file') = Len(file) + 1
        /\ \A i \in 1 .. Len(file) : file'[i] = file[i]
        /\ file'[Len(file) + 1] = Whole(req)
    BY <1>4, <2>1, Appended DEF WriteDone
  <2> QED BY <1>0, <1>4, <2>2 DEF WriteDone, TypeOK, Handover, Written
<1>5. CASE WriteFails
  <2>0. /\ mode = "up" /\ writer = "write" /\ call[req] = "waiting"
        /\ call' = call /\ req' = req /\ writer' = "reply" /\ err' = "failed"
    BY ZenonT(30), <1>5 DEF WriteFails, TypeOK, Handover
  <2>1. CASE file' = file
    BY ZenonT(30), <1>0, <2>0, <2>1 DEF Written
  <2>2. CASE /\ Len(file') = Len(file) + 1
             /\ \A i \in 1 .. Len(file) : file'[i] = file[i]
             /\ file'[Len(file) + 1].rec = req
    <3>1. \A i \in 1 .. Len(file') : i \in 1 .. Len(file) \/ i = Len(file) + 1
      BY <1>0, <2>2
    <3>2. \A i \in 1 .. Len(file') : call[file'[i].rec] \notin {"new", "sending", "rejected"}
      BY ZenonT(30), <2>0, <2>2, <3>1 DEF Written
    <3>3. \A i \in 1 .. Len(file') - 1 : file'[i].rec # req
      BY <1>0, <2>0, <2>2 DEF Written
    <3>4. \A i, j \in 1 .. Len(file') : file'[i].rec = file'[j].rec => i = j
      BY <2>0, <2>2, <3>1 DEF Written
    <3> QED BY <2>0, <3>2, <3>3, <3>4 DEF Written
  <2> QED BY <1>5, <2>1, <2>2, WriteEffect
<1>6. CASE SyncDone
  BY ZenonT(30), <1>6, <1>0 DEF SyncDone, TypeOK, Mutex, Handover, Written
<1>7. CASE SyncFails
  BY ZenonT(30), <1>7, <1>0 DEF SyncFails, TypeOK, Mutex, Handover, Written
<1>8. CASE Reply
  BY <1>8, <1>0 DEF Reply, TypeOK, Mutex, Handover, Written
<1>9. CASE WriterExits
  BY ZenonT(30), <1>9, <1>0 DEF WriterExits, TypeOK, Mutex, Handover, Written
<1>10. ASSUME NEW k \in Closers, Close(k) PROVE Written'
  BY ZenonT(30), <1>10, <1>0 DEF Close, TypeOK, Mutex, Handover, Written
<1>11. ASSUME NEW k \in Closers, CloseFile(k) PROVE Written'
  BY ZenonT(30), <1>11, <1>0 DEF CloseFile, TypeOK, Mutex, Handover, Written
<1>12. CASE Crash
  <2>1. Len(file') <= Len(file) /\ \A i \in 1 .. Len(file') : file'[i].rec = file[i].rec
    BY ZenonT(30), <1>12, CrashEffect
  <2>2. Len(file') \in Nat
    BY ZenonT(30), <1>12, CrashEffect, LenProperties
  <2>3. \A i \in 1 .. Len(file') : i \in 1 .. Len(file)
    BY <1>0, <2>1, <2>2
  <2>4. \A i, j \in 1 .. Len(file') : file'[i].rec = file'[j].rec => i = j
    BY ZenonT(30), <2>1, <2>3 DEF Written
  <2>5. \A i \in 1 .. Len(file') : call'[file'[i].rec] \notin {"new", "sending", "rejected"}
    BY ZenonT(30), <1>0, <1>12, <2>1, <2>3 DEF Crash, Stop, Written
  <2> QED BY <1>12, <2>4, <2>5 DEF Crash, Stop, Written
<1>13. CASE Exit
  BY ZenonT(30), <1>13, <1>0 DEF Exit, Stop, TypeOK, Mutex, Handover, Written
<1>14. CASE NewFileWAL
  BY <1>14, <1>0 DEF NewFileWAL, TypeOK, Mutex, Handover, Written
<1>15. CASE UNCHANGED vars
  BY ZenonT(30), <1>15, <1>0 DEF TypeOK, Mutex, Handover, Written
<1> QED BY <1>1, <1>2, <1>3, <1>4, <1>5, <1>6, <1>7, <1>8, <1>9, <1>10, <1>11, <1>12, <1>13, <1>14, <1>15 DEF Next, AppendSteps, WriterSteps, CloseSteps

\* A reply of success finds the record durable; nothing takes durable entries away.
LEMMA DurableStep ==
  ASSUME TypeOK, Handover, Written, ConfirmedIsDurable, [Next]_vars
  PROVE  ConfirmedIsDurable'
<1>0. Len(file) \in Nat /\ synced \in 0 .. Len(file)
  BY ZenonT(30), FileType DEF TypeOK
\* Durable entries stay.
<1>1. synced' \in Nat /\ synced' >= synced /\ \A i \in 1 .. synced : file'[i] = file[i]
  <2>1. CASE WriteDone \/ WriteFails
    <3>1. synced' = synced
      BY ZenonT(30), <2>1 DEF WriteDone, WriteFails
    <3>2. \A i \in 1 .. Len(file) : file'[i] = file[i]
      BY ZenonT(30), <2>1, WriteEffect
    <3> QED BY <1>0, <3>1, <3>2
  <2>2. CASE Crash
    <3>1. PICK n \in synced .. Len(file) :
            /\ file' \in Seq(Entry) /\ synced' = Len(file')
            /\ n <= Len(file')
            /\ \A i \in 1 .. n : file'[i] = file[i]
      BY ZenonT(30), <2>2, CrashEffect
    <3>2. Len(file') \in Nat
      BY ZenonT(30), <3>1, LenProperties
    <3> QED BY <1>0, <3>1, <3>2
  <2>3. CASE SyncDone
    BY <1>0, <2>3 DEF SyncDone
  <2>4. CASE UNCHANGED disk
    BY <1>0, <2>4
  <2> QED
    BY ZenonT(30), <2>1, <2>2, <2>3, <2>4 DEF Next, AppendSteps, WriterSteps, CloseSteps,
       AppendRejected, AppendLock, Send, SyncFails, Reply, WriterExits, Close,
       CloseFile, Exit, NewFileWAL
\* Whoever is told ok now has a durable record now.
<1>2. ASSUME NEW c \in Calls, call'[c] = "ok", call[c] # "ok"
      PROVE  Len(file) \in 1 .. synced' /\ file'[Len(file)] = Whole(c)
  <2>1. Reply /\ c = req /\ err = "ok"
    BY ZenonT(30), <1>2 DEF Next, AppendSteps, WriterSteps, CloseSteps, TypeOK,
       AppendRejected, AppendLock, Send, WriteDone, WriteFails, SyncDone,
       SyncFails, Reply, WriterExits, Close, CloseFile, Crash, Exit, Stop,
       NewFileWAL
  <2>2. mode = "up" /\ writer = "reply" /\ file' = file /\ synced' = synced
    BY ZenonT(30), <2>1 DEF Reply
  <2> QED BY <1>0, <2>1, <2>2 DEF Written
<1>3. ASSUME NEW c \in Calls, call'[c] = "ok"
      PROVE  \E i \in 1 .. synced' : file'[i] = Whole(c)
  <2>1. CASE call[c] = "ok"
    <3>1. PICK i \in 1 .. synced : file[i] = Whole(c)
      BY ZenonT(30), <2>1 DEF ConfirmedIsDurable
    <3>2. i \in 1 .. synced' /\ file'[i] = Whole(c)
      BY <1>0, <1>1, <3>1
    <3> QED BY <3>2
  <2>2. CASE call[c] # "ok"
    BY ZenonT(30), <1>2, <1>3, <2>2
  <2> QED BY <2>1, <2>2
<1> QED BY <1>3 DEF ConfirmedIsDurable

\* An empty log that nobody has called.
LEMMA InitSafe == Init => Safe
<1> SUFFICES ASSUME Init PROVE Safe
  BY ZenonT(30)
<1>1. file \in Seq([rec : Calls, whole : BOOLEAN]) /\ Len(file) = 0
  BY ZenonT(30), EmptySeq DEF Init
<1>2. TypeOK
  <2>1. /\ mu \in Calls \cup {Free} /\ closed \in BOOLEAN /\ fileOpen \in BOOLEAN
        /\ call \in [Calls -> InProgress \cup
                              {"new", "ok", "failed", "rejected", "lost"}]
        /\ closer \in [Closers -> {"new", "waiting", "done"}]
    BY ZenonT(30) DEF Init
  <2>2. /\ writer = "receive" /\ req = NoCall /\ err = "ok" /\ mode = "up"
        /\ faults = 0 /\ restarts = 0 /\ synced = 0
    BY ZenonT(30) DEF Init
  <2> QED BY <1>1, <2>1, <2>2 DEF TypeOK
<1>3. Mutex /\ Handover
  BY ZenonT(30) DEF Init, Mutex, Handover
<1>4. Written
  <2>1. mode = "up" /\ writer = "receive"
    BY ZenonT(30) DEF Init
  <2> QED BY <1>1, <2>1 DEF Written
<1>5. ConfirmedIsDurable
  BY ZenonT(30) DEF Init, ConfirmedIsDurable
<1> QED BY <1>2, <1>3, <1>4, <1>5 DEF Safe

\* Every step of the callers, the writer, Close and the system keeps it.
LEMMA StepSafe == Safe /\ [Next]_vars => Safe'
BY ZenonT(30), TypeStep, MutexStep, HandoverStep, WrittenStep, DurableStep DEF Safe

\* Safe holds in every reachable state.
THEOREM AlwaysSafe == Spec => []Safe
BY InitSafe, StepSafe, PTL DEF Spec

\* TypeOK, for any number of calls, faults and restarts.
THEOREM TypeCorrect == Spec => []TypeOK
<1>1. Safe => TypeOK
  BY ZenonT(30) DEF Safe
<1> QED BY <1>1, AlwaysSafe, PTL

\* No Append sends on the channel that Close has closed (wal.go:117 and 241).
THEOREM ChannelOpenAtSend == Spec => []NoSendAfterClose
<1>1. Safe => NoSendAfterClose
  BY ZenonT(30) DEF Safe, Mutex, NoSendAfterClose
<1> QED BY <1>1, AlwaysSafe, PTL

\* An Append that returned nil has its record on the disk for good.
THEOREM Durability == Spec => []ConfirmedIsDurable
<1>1. Safe => ConfirmedIsDurable
  BY ZenonT(30) DEF Safe
<1> QED BY <1>1, AlwaysSafe, PTL

\* Close closes the file with nobody waiting for the writer.
THEOREM DrainedClose == Spec => []CloseDrains
<1>1. Safe => CloseDrains
  BY ZenonT(30) DEF Safe, TypeOK, Mutex, Handover, CloseDrains
<1> QED BY <1>1, AlwaysSafe, PTL

-----------------------------------------------------------------------------
(* FileWal implements RecordLog. *)

USE DEF Log!Whole, Log!Torn

\* With no request half done the callers' log is the file.
LEMMA SettledFile ==
  ASSUME TypeOK, Handover, Written,
         mode # "up" \/ writer \in {"receive", "write", "exited"}
  PROVE  Settled = file
<1>1. Len(file) \in Nat /\ (file # <<>> => Len(file) \in 1 .. Len(file))
  BY FileType, EmptySeq
<1>2. \A i \in 1 .. Len(file) : mode = "up" => file[i].rec # req
  BY FileType DEF Handover, Written
<1> QED BY <1>1, <1>2 DEF Settled, Undecided

\* Otherwise it lacks the last entry, if that is the request's.
LEMMA SettledFront ==
  ASSUME TypeOK, Undecided
  PROVE  /\ Len(file) > 0 /\ Settled = SubSeq(file, 1, Len(file) - 1)
         /\ Settled \in Seq(Entry) /\ Len(Settled) = Len(file) - 1
         /\ \A i \in 1 .. Len(Settled) : Settled[i] = file[i]
         /\ file = Append(Settled, file[Len(file)])
         /\ file[Len(file)] \in {Whole(req), Torn(req)}
<1>1. file \in Seq(Entry) /\ Len(file) \in Nat /\ Len(file) > 0
  BY FileType, EmptySeq DEF Undecided
<1>2. Settled = SubSeq(file, 1, Len(file) - 1) /\ Len(file) - 1 \in 0 .. Len(file)
  BY <1>1 DEF Settled
<1>3. /\ Settled \in Seq(Entry) /\ Len(Settled) = Len(file) - 1
      /\ \A i \in 1 .. Len(Settled) : Settled[i] = file[i]
  BY ZenonT(30), <1>1, <1>2, Prefix
<1>4. file = Append(Settled, file[Len(file)])
  BY ZenonT(30), <1>1, <1>2, FrontAndLast
<1>5. file[Len(file)] \in Entry /\ file[Len(file)].rec = req
  BY <1>1, ElementOfSeq DEF Undecided
<1> QED BY <1>1, <1>2, <1>3, <1>4, <1>5 DEF Entry

\* The empty file is the empty log.
LEMMA InitRefines == Init => Log!Init
<1> SUFFICES ASSUME Init PROVE Log!Init
  BY ZenonT(30)
<1>1. Settled = <<>>
  BY ZenonT(30) DEF Init, Settled, Undecided
<1>2. Answered = [c \in Calls |-> "none"]
  BY ZenonT(30) DEF Init, Answered
<1> QED BY <1>1, <1>2 DEF Log!Init

\* Steps that answer nobody and settle nothing.
LEMMA QuietStep ==
  ASSUME Safe, Safe',
         \/ \E c \in Calls : AppendLock(c) \/ Send(c)
         \/ WriteDone \/ WriteFails \/ SyncDone \/ SyncFails \/ WriterExits
         \/ \E k \in Closers : Close(k) \/ CloseFile(k)
         \/ Exit \/ NewFileWAL \/ UNCHANGED vars
  PROVE  UNCHANGED Log!vars
<1> USE DEF Safe
<1>1. Answered' = Answered
  BY DEF Answered, TypeOK, Handover, Mutex, AppendLock, Send, WriteDone, WriteFails,
     SyncDone, SyncFails, WriterExits, Close, CloseFile, Exit, Stop, NewFileWAL
<1>2. Settled' = Settled
  <2>1. CASE UNCHANGED <<file, req, mode>>
    BY ZenonT(30), <2>1 DEF Settled, Undecided
  <2>2. CASE WriteDone \/ WriteFails
    <3>1. Settled = file /\ mode' = "up" /\ req' = req /\ Len(file) \in Nat
      BY ZenonT(30), <2>2, SettledFile, FileType DEF WriteDone, WriteFails
    <3>2. CASE file' = file
      <4>1. \A i \in 1 .. Len(file) : file[i].rec # req
        BY ZenonT(30), <2>2 DEF Written, WriteDone, WriteFails
      <4>2. file # <<>> => Len(file) \in 1 .. Len(file)
        BY FileType, EmptySeq
      <4> QED BY <3>1, <3>2, <4>1, <4>2 DEF Settled, Undecided
    <3>3. CASE /\ Len(file') = Len(file) + 1
               /\ file'[Len(file) + 1].rec = req
               /\ SubSeq(file', 1, Len(file') - 1) = file
      <4>1. file' # <<>>
        BY <3>1, <3>3, EmptySeq
      <4> QED BY <3>1, <3>3, <4>1 DEF Settled, Undecided
    <3> QED BY <2>2, <3>2, <3>3, WriteEffect
  <2>3. ASSUME NEW c \in Calls, Send(c) PROVE Settled' = Settled
    <3>1. Settled = file /\ file' = file /\ req' = c /\ call[c] = "sending"
      BY ZenonT(30), <2>3, SettledFile DEF Send
    <3>2. \A i \in 1 .. Len(file) : file[i].rec # c
      BY ZenonT(30), <3>1 DEF Written
    <3>3. file # <<>> => Len(file) \in 1 .. Len(file)
      BY FileType, EmptySeq
    <3> QED BY <3>1, <3>2, <3>3 DEF Settled, Undecided
  <2>4. CASE Exit
    BY ZenonT(30), <2>4, SettledFile DEF Exit, Stop, Handover, Settled, Undecided
  <2>5. CASE NewFileWAL
    <3>1. Settled = file /\ file' = file /\ req' = NoCall
      BY ZenonT(30), <2>5, SettledFile DEF NewFileWAL
    <3>2. file # <<>> => file[Len(file)].rec \in Calls
      BY FileType, EmptySeq
    <3> QED BY <3>1, <3>2 DEF Settled, Undecided
  <2> QED
    BY ZenonT(30), <2>1, <2>2, <2>3, <2>4, <2>5 DEF AppendLock, SyncDone, SyncFails,
       WriterExits, Close, CloseFile
<1> QED BY <1>1, <1>2 DEF Log!vars

\* A call of Append on a closed log.
LEMMA RejectStep ==
  ASSUME Safe, NEW c \in Calls, AppendRejected(c)
  PROVE  Log!AppendRejected(c)
<1>1. Settled' = Settled
  BY ZenonT(30) DEF AppendRejected, Settled, Undecided
<1>2. Answered[c] = "none" /\ Answered' = [Answered EXCEPT ![c] = "rejected"]
  BY ZenonT(30) DEF Safe, TypeOK, AppendRejected, Answered
<1> QED BY <1>1, <1>2 DEF Log!AppendRejected, Log!Answer

\* The reply tells the caller what has happened to its record.
LEMMA ReplyStep ==
  ASSUME Safe, Reply
  PROVE  \E c \in Calls : Log!AppendOk(c) \/ Log!AppendFails(c)
<1> USE DEF Safe
<1>1. /\ req \in Calls /\ call[req] = "waiting" /\ err \in {"ok", "failed"}
      /\ mode = "up" /\ writer = "reply" /\ file' = file /\ req' = NoCall
  BY ZenonT(30) DEF Reply, TypeOK, Handover
<1>2. Answered[req] = "none" /\ Answered' = [Answered EXCEPT ![req] = err]
  BY ZenonT(30), <1>1 DEF Reply, TypeOK, Answered
<1>3. Settled' = file
  <2>1. file # <<>> => file[Len(file)].rec \in Calls
    BY FileType, EmptySeq
  <2> QED BY <1>1, <2>1 DEF Settled, Undecided
<1>4. CASE err = "ok"
  <2>1. Len(file) > 0 /\ file[Len(file)] = Whole(req)
    BY ZenonT(30), <1>1, <1>4 DEF Written
  <2>2. Undecided
    BY <1>1, <2>1, EmptySeq DEF Undecided
  <2>3. Settled' = Append(Settled, Whole(req))
    BY ZenonT(30), <1>3, <2>1, <2>2, SettledFront
  <2> QED BY <1>1, <1>2, <1>4, <2>3 DEF Log!AppendOk, Log!Answer
<1>5. CASE err = "failed"
  <2>1. Settled' \in {Settled, Append(Settled, Whole(req)), Append(Settled, Torn(req))}
    <3>1. CASE Undecided
      BY ZenonT(30), <1>3, <3>1, SettledFront
    <3>2. CASE ~Undecided
      BY ZenonT(30), <1>3, <3>2 DEF Settled
    <3> QED BY <3>1, <3>2
  <2> QED BY <1>1, <1>2, <1>5, <2>1 DEF Log!AppendFails, Log!Answer
<1> QED BY <1>1, <1>4, <1>5

\* A crash keeps the confirmed records: they are unique in the file and durable.
LEMMA CrashStep ==
  ASSUME Safe, Crash
  PROVE  \E lost \in SUBSET Calls, n \in 0 .. Len(Settled) : Log!Crash(lost, n)
<1> USE DEF Safe
<1> DEFINE lost == {c \in Calls : call[c] \in InProgress}
<1>1. PICK n \in synced .. Len(file) :
        \/ file' = SubSeq(file, 1, n)
        \/ n < Len(file) /\ file' = Append(SubSeq(file, 1, n), Torn(file[n + 1].rec))
  BY ZenonT(30), CrashEffect
<1>2. file \in Seq(Entry) /\ Len(file) \in Nat /\ n \in 0 .. Len(file) /\ synced <= n
  BY FileType DEF TypeOK
<1>3. /\ \A c \in lost : Answered[c] = "none"
      /\ Answered' = [c \in Calls |-> IF c \in lost THEN "lost" ELSE Answered[c]]
  BY ZenonT(30) DEF Crash, Stop, TypeOK, Answered
<1>4. Settled' = file'
  BY ZenonT(30) DEF Crash, Stop, Settled, Undecided
<1>5. ASSUME NEW i \in 1 .. Len(file), Answered[file[i].rec] = "ok"
      PROVE  i <= n
  <2>1. file[i].rec \in Calls
    BY ZenonT(30), FileType
  <2>2. call[file[i].rec] = "ok"
    BY ZenonT(30), <1>5, <2>1 DEF Answered
  <2>3. PICK j \in 1 .. synced : file[j] = Whole(file[i].rec)
    BY ZenonT(30), <2>1, <2>2 DEF ConfirmedIsDurable
  <2>4. j \in 1 .. Len(file) /\ file[j].rec = file[i].rec
    BY <1>2, <2>3 DEF TypeOK
  <2>5. j = i
    BY ZenonT(30), <2>4 DEF Written
  <2> QED BY <1>2, <2>3, <2>5 DEF TypeOK
<1>6. CASE ~Undecided
  <2>1. Settled = file /\ DOMAIN Settled = 1 .. Len(file)
    BY ZenonT(30), <1>2, <1>6, LenProperties DEF Settled
  <2>2. Log!Survives(n)
    BY ZenonT(30), <1>5, <2>1 DEF Log!Survives
  <2>3. Log!Crash(lost, n)
    BY ZenonT(30), <1>1, <1>3, <1>4, <2>1, <2>2 DEF Log!Crash
  <2> QED BY <1>2, <2>1, <2>3
<1>7. CASE Undecided
  <2>1. /\ Len(file) > 0 /\ Settled = SubSeq(file, 1, Len(file) - 1)
        /\ Settled \in Seq(Entry) /\ Len(Settled) = Len(file) - 1
        /\ \A i \in 1 .. Len(Settled) : Settled[i] = file[i]
        /\ file = Append(Settled, file[Len(file)])
        /\ file[Len(file)] \in {Whole(req), Torn(req)}
    BY ZenonT(30), <1>7, SettledFront
  <2>2. DOMAIN Settled = 1 .. Len(Settled) /\ Len(Settled) \in Nat
    BY ZenonT(30), <2>1, LenProperties
  <2>0. Len(Settled) = Len(file) - 1 /\ n \in Nat
    BY <1>2, <2>1
  <2>3. req \in lost /\ file[Len(file)].rec = req
    <3>1. req \in Calls
      BY <1>2, <2>1, FileType DEF Undecided
    <3> QED BY <1>7, <2>1, <3>1 DEF Undecided, Handover
  <2>4. CASE n <= Len(Settled)
    <3>1. SubSeq(file, 1, n) = SubSeq(Settled, 1, n)
      BY <1>2, <2>1, <2>4, PrefixOfPrefix
    <3>2. Log!Survives(n)
      BY <1>2, <1>5, <2>1, <2>2 DEF Log!Survives
    <3>3. CASE file' = SubSeq(file, 1, n)
      <4>1. Log!Crash(lost, n)
        BY ZenonT(30), <1>3, <1>4, <3>1, <3>2, <3>3 DEF Log!Crash
      <4> QED BY <1>2, <2>2, <2>4, <4>1
    <3>4. CASE n < Len(Settled) /\ file' = Append(SubSeq(file, 1, n), Torn(file[n + 1].rec))
      <4>1. Settled[n + 1] = file[n + 1]
        BY <1>2, <2>1, <2>2, <3>4
      <4>2. Log!Crash(lost, n)
        BY ZenonT(30), <1>3, <1>4, <3>1, <3>2, <3>4, <4>1 DEF Log!Crash
      <4> QED BY <1>2, <2>2, <2>4, <4>2
    <3>5. CASE n = Len(Settled) /\ file' = Append(SubSeq(file, 1, n), Torn(file[n + 1].rec))
      <4>1. file' = Append(Settled, Torn(req))
        <5>1. n = Len(file) - 1 /\ n + 1 = Len(file)
          BY <1>2, <2>0, <3>5
        <5>2. SubSeq(file, 1, n) = Settled /\ file[n + 1].rec = req
          BY ZenonT(30), <2>1, <2>3, <5>1
        <5> QED BY <3>5, <5>2
      <4>2. Log!Crash(lost, n)
        BY ZenonT(30), <1>3, <1>4, <2>3, <3>2, <4>1 DEF Log!Crash
      <4> QED BY <1>2, <2>2, <2>4, <4>2
    <3>6. n < Len(Settled) \/ n = Len(Settled)
      BY <1>2, <2>0, <2>4
    <3> QED BY <1>1, <3>3, <3>4, <3>5, <3>6
  <2>5. CASE n = Len(file)
    <3>1. file' = file
      BY <1>1, <1>2, <2>5, SubSeqFull
    <3>2. Settled' \in {Append(Settled, Whole(req)), Append(Settled, Torn(req))}
      BY ZenonT(30), <1>4, <2>1, <3>1
    <3>3. Log!Survives(Len(Settled))
      BY <2>2 DEF Log!Survives
    <3>4. Log!Crash(lost, Len(Settled))
      BY ZenonT(30), <1>3, <2>3, <3>2, <3>3 DEF Log!Crash
    <3> QED BY <2>2, <3>4
  <2>6. n <= Len(Settled) \/ n = Len(file)
    BY <1>2, <2>0
  <2> QED BY <2>4, <2>5, <2>6
<1> QED BY <1>6, <1>7

\* Every step is one of the abstract log, or changes nothing of it.
LEMMA StepRefines ==
  ASSUME Safe, Safe', [Next]_vars
  PROVE  [Log!Next]_Log!vars
<1>1. ASSUME NEW c \in Calls, AppendRejected(c) PROVE Log!Next
  BY ZenonT(30), <1>1, RejectStep DEF Log!Next
<1>2. CASE Reply
  BY ZenonT(30), <1>2, ReplyStep DEF Log!Next
<1>3. CASE Crash
  BY ZenonT(30), <1>3, CrashStep DEF Log!Next
<1>4. CASE \/ \E c \in Calls : AppendLock(c) \/ Send(c)
           \/ WriteDone \/ WriteFails \/ SyncDone \/ SyncFails \/ WriterExits
           \/ \E k \in Closers : Close(k) \/ CloseFile(k)
           \/ Exit \/ NewFileWAL \/ UNCHANGED vars
  BY ZenonT(30), <1>4, QuietStep
<1>5. \/ \E c \in Calls : AppendRejected(c)
      \/ Reply \/ Crash
      \/ \/ \E c \in Calls : AppendLock(c) \/ Send(c)
         \/ WriteDone \/ WriteFails \/ SyncDone \/ SyncFails \/ WriterExits
         \/ \E k \in Closers : Close(k) \/ CloseFile(k)
         \/ Exit \/ NewFileWAL \/ UNCHANGED vars
  BY ZenonT(30) DEF Next, AppendSteps, WriterSteps, CloseSteps
<1> QED BY <1>1, <1>2, <1>3, <1>4, <1>5

\* The log with its mutex, channel and writer goroutine implements the one-step
\* append, for any number of concurrent calls, write faults and crashes.
THEOREM Refinement == Spec => ImplementsRecordLog
BY InitRefines, StepRefines, AlwaysSafe, PTL DEF Spec, ImplementsRecordLog, Log!Spec
=============================================================================
