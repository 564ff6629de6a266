------------------------ MODULE UsbStreamRefinement ------------------------
(***************************************************************************)
(* UsbStream implements PrintQueue while no job is given up with bytes     *)
(* queued: the ring, the chunk in the writer's hands and the moments in    *)
(* between are, seen from outside, one queue.                              *)
(***************************************************************************)
EXTENDS UsbStream

RingBytes == [i \in 1..used |-> ring[Forward(tail, i - 1)]]

\* From copyOut()'s second critical section until bulkWriteAll() returns the
\* chunk is in staging_ only.
Held == IF wpc = "write" THEN staging ELSE <<>>

\* The transfer has failed as soon as bulkWriteAll() has given up, a few stores
\* before failed_ says so.
Broken == failed \/ wpc \in {"lower_failing", "fail"}

\* Bytes of the job that push() has published, of the block under way too.
Published == doc + off

Q == INSTANCE PrintQueue WITH
       Room <- Capacity + Chunk, Batch <- Chunk,
       queue <- Held \o RingBytes, taken <- sent, broken <- Broken,
       job <- job, put <- Published, verdict <- verdict

\* Every step of the two tasks is a step of the queue or invisible to it: the
\* staging ring of usb_stream.cpp neither loses, repeats nor reorders a byte,
\* whatever the interleaving and wherever the ring wraps.
IsPrintQueue == Q!Spec

\* A job that flush() reports complete has had every byte taken by the USB host,
\* unless its stream failed and flush() looked between busy_ and failed_ (README).
CompletedIsDelivered == verdict = "completed" => Broken \/ Len(sent) = doc
=============================================================================
