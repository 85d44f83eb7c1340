---------------------------- MODULE WatcherStream ---------------------------
(***************************************************************************)
(* Watcher as an implementation of EventStream: the kernel's queue, what   *)
(* the reader has read and the Event channel are together the one stream   *)
(* of events that the receiver is promised.                                *)
(***************************************************************************)
EXTENDS Watcher

\* The events of a queue but for the overflows.
Reported(s) ==
  LET kept[i \in 0 .. Len(s)] ==
        IF i = 0 THEN <<>>
        ELSE IF s[i] = Overflow THEN kept[i - 1] ELSE Append(kept[i - 1], s[i])
  IN  kept[Len(s)]

InOrder == Reported(Event \o buf \o kernelQ)

\* An event was dropped, or a directory with a watch, recorded or about to be
\* recorded, is gone.
Lossy == lost \/ paths \ watched # {} \/ (cpc = "record" /\ wd \notin watched)

Stream == INSTANCE EventStream WITH
            EventSet <- [kind : {"create", "self", "file"}, wd : (Dir \cup {Root}) \X (0 .. MaxChanges),
                         dir : Dir \cup {Root}],
            stream <- InOrder, loss <- Lossy

\* The watcher implements the stream of EventStream: the kernel queue, the read
\* buffer and the channel together neither reorder nor repeat an event, and the
\* reader drops one with an unknown descriptor only when there was a loss.
ImplementsStream == Stream!Spec
=============================================================================
