------------------------------ MODULE Enrolment -----------------------------
(***************************************************************************)
(* The life of a client's account, without messages, files, connections    *)
(* or crashes: a name is registered once, gets a key in the very run that  *)
(* registered it or never, and only with a key listed uploads files, one   *)
(* client at a time.                                                       *)
(***************************************************************************)

CONSTANTS
  Name,     \* client names
  Nobody    \* no name

VARIABLES
  account,  \* the state of each name's account
  uploader  \* the client that is sending its file, or Nobody

vars == <<account, uploader>>

\* "waiting": registered, and its key may still come; "orphaned": registered,
\* and no key will ever come.
State == {"unknown", "waiting", "listed", "orphaned"}

TypeOK ==
  /\ account \in [Name -> State]
  /\ uploader \in Name \cup {Nobody}

Init ==
  /\ account \in [Name -> {"unknown", "listed"}]
  /\ uploader = Nobody

Becomes(n, from, to) ==
  /\ uploader = Nobody
  /\ account[n] \in from
  /\ account' = [account EXCEPT ![n] = to]
  /\ UNCHANGED uploader

\* The server registers a name, for a client that waits for it or that is
\* gone already.
Register(n) == Becomes(n, {"unknown"}, "waiting") \/ Becomes(n, {"unknown"}, "orphaned")

\* The server lists the first key of a name.
List(n) == Becomes(n, {"waiting"}, "listed")

\* The run that registered the name ends, or goes on without it.
Abandon(n) == Becomes(n, {"waiting"}, "orphaned")

\* A client begins to send its file.
Begin(n) ==
  /\ uploader = Nobody /\ account[n] = "listed"
  /\ uploader' = n
  /\ UNCHANGED account

End ==
  /\ uploader # Nobody
  /\ uploader' = Nobody
  /\ UNCHANGED account

Next == End \/ \E n \in Name : Register(n) \/ List(n) \/ Abandon(n) \/ Begin(n)

Spec == Init /\ [][Next]_vars
=============================================================================
