---------------------------- MODULE DirectoryWatch ----------------------------
(***************************************************************************)
(* Watching a directory.  A task asks the server for changes over and over *)
(* and feeds a bounded channel without waiting: a consumer that is too     *)
(* slow loses the watch, not single events.  The consumer joins the two    *)
(* halves of a rename.  The server is external; it keeps the changes that  *)
(* happen between two requests, up to a limit of its own.                  *)
(***************************************************************************)
EXTENDS Naturals, Sequences, SequencesExt

CONSTANTS Changes,     \* how many changes happen at most
          WatchRoom    \* EVENT_CAPACITY, the capacity of the channel

ASSUME WatchAssumption == Changes \in Nat /\ WatchRoom \in Nat \ {0}

\* A rename is reported as two changes, one after the other.
Kinds == {"added", "old name", "new name"}

VARIABLES happened,   \* the changes so far
          kept,       \* those the server has not reported
          watcher,    \* the task: where it is, and the rest of a batch
          events,     \* the channel; the task's end closes it
          cancelled,  \* the caller's token
          consumer,   \* the pending old name, what was seen, how it ended
          dropped     \* the stream was dropped

watchVars == <<happened, kept, watcher, events, cancelled, consumer, dropped>>

WatchInit ==
  /\ happened = <<>>
  /\ kept = <<>>
  /\ watcher = [at |-> "ask", batch |-> <<>>]
  /\ events = <<>>
  /\ cancelled = FALSE
  /\ consumer = [from |-> 0, seen |-> <<>>, end |-> "open"]
  /\ dropped = FALSE

WatcherAt(at) == watcher.at = at
WatcherTo(at) == watcher' = [at |-> at, batch |-> <<>>]

-----------------------------------------------------------------------------
(* watch_stream_cancellable and _watch_options.                            *)

WatchAsk ==
  /\ WatcherAt("ask")
  /\ WatcherTo("asked")
  /\ UNCHANGED <<happened, kept, events, cancelled, consumer, dropped>>

\* The server's changes since the last request.
WatchReported ==
  /\ WatcherAt("asked") /\ kept # <<>>
  /\ watcher' = [at |-> "publish", batch |-> kept]
  /\ kept' = <<>>
  /\ UNCHANGED <<happened, events, cancelled, consumer, dropped>>

\* A request ends otherwise: cancelled by the caller, or by the server; the
\* directory is deleted or closed; too many changes; any other error.
WatchEnded ==
  /\ WatcherAt("asked")
  /\ \/ cancelled /\ WatcherTo("over")
     \/ WatcherTo("cleanup")
     \/ \E error \in {"cancelled", "too many", "error"} :
          watcher' = [at |-> "fail", batch |-> <<error>>]
  /\ UNCHANGED <<happened, kept, events, cancelled, consumer, dropped>>

\* Mutant of Overflows: the change is dropped and the watch goes on.
OverflowsSilently ==
  /\ watcher' = [watcher EXCEPT !.batch = Tail(@)]
  /\ UNCHANGED cancelled

\* The channel is full: the watch is cancelled and the error awaits room.
Overflows ==
  /\ watcher' = [at |-> "fail", batch |-> <<"overflow">>]
  /\ cancelled' = TRUE

\* publish_change_batch.
WatchPublish ==
  /\ WatcherAt("publish")
  /\ CASE watcher.batch = <<>> -> WatcherTo("ask") /\ UNCHANGED <<events, cancelled>>
       [] watcher.batch # <<>> /\ dropped ->
            WatcherTo("over") /\ cancelled' = TRUE /\ UNCHANGED events
       [] watcher.batch # <<>> /\ ~dropped /\ Len(events) < WatchRoom ->
            /\ events' = Append(events, Head(watcher.batch))
            /\ watcher' = [watcher EXCEPT !.batch = Tail(@)]
            /\ UNCHANGED cancelled
       [] OTHER -> Overflows /\ UNCHANGED events
  /\ UNCHANGED <<happened, kept, consumer, dropped>>

\* The error is sent when there is room, and not to a stream that is dropped.
WatchFail ==
  /\ WatcherAt("fail")
  /\ \/ /\ dropped \/ (watcher.batch = <<"cancelled">> /\ cancelled)
        /\ UNCHANGED events
     \/ ~dropped /\ Len(events) < WatchRoom /\ events' = events \o watcher.batch
  /\ WatcherTo("over")
  /\ UNCHANGED <<happened, kept, cancelled, consumer, dropped>>

Watch == WatchAsk \/ WatchReported \/ WatchEnded \/ WatchPublish \/ WatchFail

-----------------------------------------------------------------------------
(* The stream of Directory::watch and pair_directory_event.                *)

\* An old name is remembered; a new name needs one.
PairEvent(item) ==
  CASE item[2] = "old name" -> [consumer EXCEPT !.from = item[1]]
    [] item[2] = "new name" /\ consumer.from # 0 ->
         [consumer EXCEPT !.seen = Append(@, <<consumer.from, item[1]>>), !.from = 0]
    [] item[2] = "new name" /\ consumer.from = 0 -> [consumer EXCEPT !.end = "unpaired"]
    [] OTHER -> [consumer EXCEPT !.seen = Append(@, <<0, item[1]>>)]

Errors == {"cancelled", "too many", "error", "overflow"}

NextEvent ==
  /\ consumer.end = "open" /\ ~dropped /\ events # <<>>
  /\ consumer' = IF Head(events) \in Errors
                 THEN [consumer EXCEPT !.end = Head(events)] ELSE PairEvent(Head(events))
  /\ events' = Tail(events)
  /\ UNCHANGED <<happened, kept, watcher, cancelled, dropped>>

\* The channel is closed and empty; half a rename is an error.
EventsEnd ==
  /\ consumer.end = "open" /\ ~dropped /\ events = <<>>
  /\ WatcherAt("over") \/ WatcherAt("cleanup")
  /\ consumer' = [consumer EXCEPT !.end = IF consumer.from = 0 THEN "end" ELSE "unpaired",
                                  !.from = 0]
  /\ UNCHANGED <<happened, kept, watcher, events, cancelled, dropped>>

\* Dropping the stream cancels the task.
DropWatch ==
  /\ ~dropped
  /\ dropped' = TRUE /\ cancelled' = TRUE
  /\ UNCHANGED <<happened, kept, watcher, events, consumer>>

CancelWatch ==
  /\ ~cancelled
  /\ cancelled' = TRUE
  /\ UNCHANGED <<happened, kept, watcher, events, consumer, dropped>>

\* Something changes.  A new name follows an old one and nothing else does.
Change ==
  /\ Len(happened) < Changes
  /\ \E kind \in Kinds :
       /\ (kind = "new name") <=> (happened # <<>> /\ Last(happened)[2] = "old name")
       /\ happened' = Append(happened, <<Len(happened) + 1, kind>>)
       /\ kept' = Append(kept, Last(happened'))
  /\ UNCHANGED <<watcher, events, cancelled, consumer, dropped>>

WatchNext == Watch \/ NextEvent \/ EventsEnd \/ DropWatch \/ CancelWatch \/ Change

\* The task runs, an answered request is delivered, and the consumer polls.
WatchFairness ==
  /\ WF_watchVars(WatchAsk \/ WatchPublish \/ WatchFail)
  /\ WF_watchVars(WatcherAt("asked") /\ cancelled /\ WatchEnded)
  /\ WF_watchVars(NextEvent \/ EventsEnd)

WatchSpec == WatchInit /\ [][WatchNext]_watchVars /\ WatchFairness

-----------------------------------------------------------------------------
(* Properties.                                                             *)

\* What the caller should see of the first n changes: renames joined.
Joined(n) ==
  FoldLeft(LAMBDA seen, c : IF c[2] = "old name" THEN seen
                            ELSE Append(seen, <<IF c[2] = "new name" THEN c[1] - 1 ELSE 0, c[1]>>),
           <<>>, SubSeq(happened, 1, n))

\* The caller sees every change up to some point, in order, each rename with
\* its own two names; an old name it holds is the last change it received.
\* The stream ends without error only after a cancellation, or when the server
\* ended the watch: no change is lost in the middle.
NoSilentGap ==
  /\ \E n \in 0..Len(happened) : consumer.seen = Joined(n)
  /\ consumer.from # 0 => consumer.seen = Joined(consumer.from)
  /\ consumer.end = "end" => cancelled \/ WatcherAt("cleanup")

\* A watch that is cancelled, dropped or overrun comes to its end.
WatchEnds ==
  (cancelled \/ dropped) ~> /\ WatcherAt("over") \/ WatcherAt("cleanup")
                            /\ dropped \/ consumer.end # "open"
=============================================================================
