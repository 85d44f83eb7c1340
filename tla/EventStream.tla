----------------------------- MODULE EventStream ----------------------------
(***************************************************************************)
(* What an inotify watcher promises to the goroutine that receives from    *)
(* it: the events about the watched directories in the order in which they *)
(* happened, each of them once, and no gap but after a loss.  Watcher      *)
(* implements it; Tracking builds on it.                                   *)
(***************************************************************************)
EXTENDS Naturals, Sequences

CONSTANT EventSet

VARIABLES
  stream,   \* events that have happened and were not received
  loss      \* an event, or the watch on a directory, is lost

\* Something happens in a watched directory.  If it is the end of the directory
\* itself, its watch is lost with it.
Send(e) == stream' = Append(stream, e) /\ loss' \in {loss, TRUE}

\* An event or a watch is lost.
Lose == loss' = TRUE /\ UNCHANGED stream

\* From then on others may be missing.
Gap ==
  /\ loss /\ UNCHANGED loss
  /\ \E i \in DOMAIN stream : stream' = SubSeq(stream, 1, i - 1) \o SubSeq(stream, i + 1, Len(stream))

Receive == stream # <<>> /\ stream' = Tail(stream) /\ UNCHANGED loss

Init == stream = <<>> /\ loss = FALSE

\* A step that leaves the stream as it was has sent nothing.
Next == (stream' # stream /\ \E e \in EventSet : Send(e)) \/ Lose \/ Gap \/ Receive

Spec == Init /\ [][Next]_<<stream, loss>>
=============================================================================
