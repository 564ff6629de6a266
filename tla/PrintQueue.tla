----------------------------- MODULE PrintQueue -----------------------------
(***************************************************************************)
(* What UsbStream promises to the task that prints (usb_stream.h): a       *)
(* bounded queue from which the USB host takes the bytes of the current    *)
(* job in the order they were put, each once, until a transfer fails; from *)
(* then on nothing moves until the next job clears the queue.  A finish    *)
(* reports "completed" only with nothing left to take.                     *)
(*                                                                         *)
(* There are no tasks, no ring, no critical sections and no wake-ups here; *)
(* UsbStreamRefinement maps the two tasks of UsbStream to this module.     *)
(***************************************************************************)
EXTENDS Integers, Sequences

CONSTANTS
  Room,       \* bytes the queue holds
  Batch       \* bytes the USB host takes, or loses, at once

VARIABLES
  queue,      \* bytes put and not yet taken
  taken,      \* bytes of this job the USB host took
  broken,     \* a transfer of this job failed
  job, put,   \* the current job, and how many of its bytes were put
  verdict     \* what the last finish reported

qvars == <<queue, taken, broken, job, put, verdict>>

Init ==
  /\ queue = <<>> /\ taken = <<>> /\ broken = FALSE
  /\ job = 0 /\ put = 0 /\ verdict = "none"

Open ==
  /\ verdict' = "none"
  /\ UNCHANGED <<queue, taken, broken, job, put>>

Clear ==
  /\ job' = job + 1 /\ put' = 0
  /\ queue' = <<>> /\ taken' = <<>>
  /\ UNCHANGED <<broken, verdict>>

Repair ==
  /\ broken' = FALSE
  /\ UNCHANGED <<queue, taken, job, put, verdict>>

Put(n) ==
  /\ Len(queue) + n <= Room
  /\ queue' = queue \o [i \in 1..n |-> <<job, put + i>>]
  /\ put' = put + n
  /\ UNCHANGED <<taken, broken, job, verdict>>

Take(n) ==
  /\ ~broken /\ n <= Len(queue)
  /\ taken' = taken \o SubSeq(queue, 1, n)
  /\ queue' = SubSeq(queue, n + 1, Len(queue))
  /\ UNCHANGED <<broken, job, put, verdict>>

\* A transfer fails: its bytes are gone.
Lose(n) ==
  /\ ~broken /\ n <= Len(queue)
  /\ queue' = SubSeq(queue, n + 1, Len(queue))
  /\ broken' = TRUE
  /\ UNCHANGED <<taken, job, put, verdict>>

\* A block refused because the queue is broken is offered again from its start.
Withdraw(n) ==
  /\ broken /\ n <= put
  /\ put' = put - n
  /\ UNCHANGED <<queue, taken, broken, job, verdict>>

Finish(outcome) ==
  /\ outcome = "completed" => queue = <<>>
  /\ verdict' = outcome
  /\ UNCHANGED <<queue, taken, broken, job, put>>

Next ==
  \/ Open \/ Clear \/ Repair
  \/ \E n \in 1..Room : Put(n) \/ Withdraw(n)
  \/ \E n \in 1..Batch : Take(n) \/ Lose(n)
  \/ \E outcome \in {"completed", "aborted"} : Finish(outcome)

Spec == Init /\ [][Next]_qvars
=============================================================================
