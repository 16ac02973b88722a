----------------------------- MODULE RecordLog ------------------------------
(***************************************************************************)
(* What storage.WAL promises its callers: Append is one step that either   *)
(* puts the record at the end of the log and says so, or fails, and then   *)
(* the record may be in the log, absent or torn.  A crash may take back    *)
(* what no Append has confirmed, never what one has.  This is the step     *)
(* QueueRuntime (Logged, LogFailed) and Registry use for every append.     *)
(***************************************************************************)
EXTENDS Integers, Sequences

CONSTANT Calls       \* the calls of Append; a call stands for its record

VARIABLES log,       \* what is in the file, oldest first
          result     \* what each call has been told

vars == <<log, result>>

\* whole: the decoder of Load gets the record back.
Whole(c) == [rec |-> c, whole |-> TRUE]
Torn(c)  == [rec |-> c, whole |-> FALSE]

Init == log = <<>> /\ result = [c \in Calls |-> "none"]

\* c is answered r.
Answer(c, r) == result[c] = "none" /\ result' = [result EXCEPT ![c] = r]

AppendOk(c) == Answer(c, "ok") /\ log' = Append(log, Whole(c))

AppendFails(c) ==
  /\ Answer(c, "failed")
  /\ log' \in {log, Append(log, Whole(c)), Append(log, Torn(c))}

\* The log was closed before.
AppendRejected(c) == Answer(c, "rejected") /\ UNCHANGED log

\* n entries survive a crash for certain: those up to the last confirmed one do.
Survives(n) == \A i \in DOMAIN log : result[log[i].rec] = "ok" => i <= n

\* Calls under way are never answered.  Of the entries after the n-th and of the
\* records under way, at most one more is left in the file, perhaps torn.
Crash(lost, n) ==
  /\ \A c \in lost : result[c] = "none"
  /\ result' = [c \in Calls |-> IF c \in lost THEN "lost" ELSE result[c]]
  /\ Survives(n)
  /\ \/ log' = SubSeq(log, 1, n)
     \/ n < Len(log) /\ log' = Append(SubSeq(log, 1, n), Torn(log[n + 1].rec))
     \/ \E c \in lost : log' \in {Append(log, Whole(c)), Append(log, Torn(c))}

Next ==
  \/ \E c \in Calls : AppendOk(c) \/ AppendFails(c) \/ AppendRejected(c)
  \/ \E lost \in SUBSET Calls, n \in 0 .. Len(log) : Crash(lost, n)

Spec == Init /\ [][Next]_vars
=============================================================================
