-------------------------- MODULE TransferPromise ---------------------------
(***************************************************************************)
(* What sending a file promises, without messages, checksums or files: a   *)
(* bounded number of attempts, then one verdict, which the caller and the  *)
(* server may each learn of once.                                          *)
(***************************************************************************)
EXTENDS Integers

CONSTANT MaxRetries

VARIABLES
  attempts,   \* how often the file was sent
  verdict,    \* what the client told the server in the end
  server,     \* whether the server accepted the file
  result      \* what the caller of handleRetrySendFile got

vars == <<attempts, verdict, server, result>>

TypeOK ==
  /\ attempts \in 0 .. MaxRetries
  /\ verdict \in {"none", "correct", "done"}
  /\ server \in {"pending", "accepted"}
  /\ result \in {"pending", "true", "false", "killed"}

Init ==
  /\ attempts = 0
  /\ verdict = "none"
  /\ server = "pending"
  /\ result = "pending"

\* The file goes out once more; never after the verdict.
SendOnce ==
  /\ verdict = "none" /\ result = "pending"
  /\ attempts < MaxRetries
  /\ attempts' = attempts + 1
  /\ UNCHANGED <<verdict, server, result>>

\* A file that was sent is reported correct.
ReportCorrect ==
  /\ verdict = "none" /\ result = "pending"
  /\ attempts > 0
  /\ verdict' = "correct"
  /\ UNCHANGED <<attempts, server, result>>

\* The transfer is aborted, but not before every attempt was used.
ReportDone ==
  /\ verdict = "none" /\ result = "pending"
  /\ attempts = MaxRetries
  /\ verdict' = "done"
  /\ UNCHANGED <<attempts, server, result>>

\* The server accepts what was reported correct, while the client waits.
Accept ==
  /\ verdict = "correct" /\ result = "pending"
  /\ server = "pending"
  /\ server' = "accepted"
  /\ UNCHANGED <<attempts, verdict, result>>

\* The caller gets its result after the verdict, and true only if the
\* verdict was correct.
Return ==
  /\ verdict # "none" /\ result = "pending"
  /\ result' \in {"true", "false"}
  /\ result' = "true" => verdict = "correct"
  /\ UNCHANGED <<attempts, verdict, server>>

\* The process dies with the verdict not sent.
Die ==
  /\ verdict = "none" /\ result = "pending"
  /\ result' = "killed"
  /\ UNCHANGED <<attempts, verdict, server>>

Next == SendOnce \/ ReportCorrect \/ ReportDone \/ Accept \/ Return \/ Die

Spec == Init /\ [][Next]_vars
=============================================================================
