------------------------------ MODULE ResultQueue ------------------------------
(***************************************************************************)
(* The durable result queue (crates/pcrt-result-queue): one SQLite table   *)
(* keyed by session id, shared by the processor, the uploader and the      *)
(* operator's command line tool, each with a connection of its own.        *)
(*                                                                         *)
(* Every operation is one SQL statement in a database opened with          *)
(* synchronous = FULL, so it is one durable step.  An operation that may   *)
(* be refused comes as a predicate that says when, and an action for the   *)
(* statement.  Keys are derived from session ids and payloads are opaque   *)
(* to the queue: a row keeps only which result it holds.                   *)
(***************************************************************************)
EXTENDS Naturals

CONSTANTS
  Session,   \* session ids
  Result,    \* payloads, as far as the queue can tell them apart
  NoRow      \* no row with that session id

VARIABLE rows

States == {"prepared", "pending", "dead_letter"}

Row == [state : States, result : Result, attempts : Nat, created : Nat, due : Nat]

ASSUME NoRowAssumption == NoRow \notin Row

RowsOK == rows \in [Session -> Row \cup {NoRow}]

\* contains_session
Contains(s) == rows[s] # NoRow
InState(state) == {s \in Session : Contains(s) /\ rows[s].state = state}

-----------------------------------------------------------------------------
(* The processor's operations.                                             *)

\* insert: ON CONFLICT(session_id) DO NOTHING, then compare what is stored
InsertConflicts(s, r) == Contains(s) /\ rows[s].result # r

Insert(s, r, now) ==
  rows' = IF Contains(s) THEN rows
          ELSE [rows EXCEPT ![s] = [state |-> "prepared", result |-> r, attempts |-> 0,
                                    created |-> now, due |-> now]]

\* publish: safe to repeat while the row is pending
PublishRefused(s) == s \notin InState("prepared") \cup InState("pending")
Publish(s) ==
  rows' = IF s \in InState("prepared") THEN [rows EXCEPT ![s].state = "pending"] ELSE rows

-----------------------------------------------------------------------------
(* The uploader's operations.                                              *)

\* Mutant: every row that is due, whatever its state.
NextDueAnyState(now) == {s \in Session : Contains(s) /\ rows[s].due <= now}

\* next_due: earliest attempt first, then oldest; the order of session ids
\* that breaks the remaining ties is left open.
NextDue(now) ==
  {s \in InState("pending") :
     /\ rows[s].due <= now
     /\ \A other \in InState("pending") :
          \/ rows[s].due < rows[other].due
          \/ rows[s].due = rows[other].due /\ rows[s].created <= rows[other].created}

\* delete does not look at the state
Delete(s) == rows' = [rows EXCEPT ![s] = NoRow]

\* Mutant: the attempts are counted down.
RescheduleCountingDown(s, retryAt) ==
  rows' = [rows EXCEPT ![s].attempts = @ - 1, ![s].due = retryAt]

\* reschedule and dead_letter are refused unless the row is pending
Reschedule(s, retryAt) ==
  rows' = [rows EXCEPT ![s].attempts = @ + 1, ![s].due = retryAt]
DeadLetter(s) ==
  rows' = [rows EXCEPT ![s].state = "dead_letter", ![s].attempts = @ + 1]

-----------------------------------------------------------------------------
(* The operator's operation.                                               *)

\* requeue_dead_letter: refused for a row in another state
Requeue(s, now) ==
  /\ s \in InState("dead_letter")
  /\ rows' = [rows EXCEPT ![s].state = "pending", ![s].attempts = 0, ![s].due = now]
=============================================================================
