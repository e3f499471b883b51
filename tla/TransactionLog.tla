--------------------------- MODULE TransactionLog ---------------------------
(***************************************************************************)
(* What the write path of the database layer promises its callers: a       *)
(* submitted operation is settled once, in one step, either by making all  *)
(* its statements durable or by leaving the database as it was.  Nothing   *)
(* is said of the order, which depends on the number of workers.           *)
(***************************************************************************)
EXTENDS Integers, Sequences

VARIABLES
  submitted,  \* the statements of each operation, in order of submission
  settled,    \* the numbers of the operations that are over
  durable     \* the statements that are durable

vars == <<submitted, settled, durable>>

Statements(n) == {submitted[n][i] : i \in 1 .. Len(submitted[n])}

Init == submitted = <<>> /\ settled = {} /\ durable = {}

\* A caller hands over an operation.
Submit ==
  /\ Len(submitted') = Len(submitted) + 1
  /\ \A n \in 1 .. Len(submitted) : submitted'[n] = submitted[n]
  /\ UNCHANGED <<settled, durable>>

\* An operation is over, with all of its effects or with none.
Settle ==
  /\ \E n \in 1 .. Len(submitted) :
       /\ n \notin settled
       /\ settled' = settled \cup {n}
       /\ durable' \in {durable, durable \cup Statements(n)}
  /\ UNCHANGED submitted

Next == Submit \/ Settle

Spec == Init /\ [][Next]_vars
=============================================================================
