----------------------------- MODULE DirectoryScan -----------------------------
(***************************************************************************)
(* Listing a directory.  A stream spawns a task that asks the server for   *)
(* one page after the other and feeds a bounded channel; the consumer asks *)
(* for the next page by a stored wake-up when it has emptied the channel.  *)
(* The position of the scan belongs to the server's handle, so the streams *)
(* of a directory share it; a stream holds query_lock once it is built,    *)
(* but its task runs before that.  A listing tries the widest information  *)
(* class first and opens a new stream for the next when the server refuses *)
(* it.  The server is external.                                            *)
(***************************************************************************)
EXTENDS Naturals, Sequences

CONSTANTS Listings,   \* calls of Directory::entries on one directory
          Entries,    \* how many entries the directory has; the first is "."
          PageMax,    \* the most entries a page can hold
          Capacity,   \* of the channel between task and consumer
          MaxFailures \* queries the server fails

ASSUME ScanAssumption ==
  /\ Entries \in Nat /\ PageMax \in Nat \ {0} /\ Capacity \in Nat \ {0}
  /\ MaxFailures \in Nat

\* FileIdFull-, FileIdExtd- and FileDirectoryInformation.
Rungs == 1..3
Streams == Listings \X Rungs

VARIABLES accepted,  \* the widest class the server accepts
          position,  \* entries the server's scan has returned
          wire,      \* queries the server has yet to answer, in order
          lock,      \* the stream that holds query_lock, or none
          task,      \* the fetch loop of each stream
          channel,   \* what is between each task and its consumer
          demand,    \* the wake-up is stored
          gone,      \* "cancelled": the stream was dropped; "unread": only its receiver
          listing,   \* the consumer: its rung, where it is, and what it saw
          failures   \* queries that failed

scanVars == <<accepted, position, wire, lock, task, channel, demand, gone, listing, failures>>

None == <<>>
Refused == 0            \* STATUS_INVALID_INFO_CLASS
Failure == Entries + 1  \* any other error

ScanInit ==
  /\ accepted \in Rungs
  /\ position = 0
  /\ wire = <<>>
  /\ lock = None
  /\ task = [s \in Streams |-> [at |-> "none", first |-> TRUE, page |-> <<>>]]
  /\ channel = [s \in Streams |-> <<>>]
  /\ demand = [s \in Streams |-> FALSE]
  /\ gone = [s \in Streams |-> "no"]
  /\ listing \in [Listings -> [rung : {1}, at : {"idle", "dropped"}, seen : {<<>>},
                               failed : {FALSE}, alone : {TRUE}]]
  /\ failures = 0

TaskAt(s, at) == task[s].at = at
TaskTo(s, at) == task' = [task EXCEPT ![s].at = at]
TaskEnds(s) == task' = [task EXCEPT ![s] = [at |-> "done", first |-> FALSE, page |-> <<>>]]
Stream(l) == <<l, listing[l].rung>>

-----------------------------------------------------------------------------
(* The task: fetch_loop and send_query.                                    *)

\* A request for a consumer that is gone is cancelled before it is sent.
Ask(s) ==
  /\ TaskAt(s, "ask")
  /\ IF gone[s] = "cancelled" THEN TaskEnds(s) /\ UNCHANGED wire
     ELSE TaskTo(s, "asked") /\ wire' = Append(wire, s)
  /\ UNCHANGED <<accepted, position, lock, channel, demand, gone, listing, failures>>

\* Mutant of Page: the scan is restarted by every query.
PageRestarted(s, n) == [i \in 1..n |-> i]

\* n entries from where the scan stands; the first query restarts it.
Page(s, n) == [i \in 1..n |-> (IF task[s].first THEN 0 ELSE position) + i]
Left(s) == Entries - (IF task[s].first THEN 0 ELSE position)

\* The server answers in order: a page, no more files, or an error.
Reply(s) ==
  /\ wire # <<>> /\ s = Head(wire)
  /\ wire' = Tail(wire)
  /\ \/ /\ s[2] < accepted
        /\ task' = [task EXCEPT ![s] = [at |-> "deliver", first |-> FALSE, page |-> <<Refused>>]]
        /\ UNCHANGED <<position, failures>>
     \/ /\ s[2] >= accepted /\ Left(s) > 0
        /\ \E n \in 1..PageMax :
             /\ n <= Left(s)
             /\ task' = [task EXCEPT ![s] =
                           [at |-> "deliver", first |-> FALSE, page |-> Page(s, n)]]
             /\ position' = Entries - Left(s) + n
        /\ UNCHANGED failures
     \/ /\ s[2] >= accepted /\ Left(s) = 0
        /\ TaskEnds(s)
        /\ UNCHANGED <<position, failures>>
     \/ /\ failures < MaxFailures /\ failures' = failures + 1
        /\ task' = [task EXCEPT ![s] = [at |-> "deliver", first |-> FALSE, page |-> <<Failure>>]]
        /\ UNCHANGED position
  /\ UNCHANGED <<accepted, lock, channel, demand, gone, listing>>

\* sender.send: fails if the receiver is gone, waits while the channel is full.
Deliver(s) ==
  /\ TaskAt(s, "deliver")
  /\ IF task[s].page = <<>>
     THEN TaskTo(s, "park") /\ UNCHANGED channel
     ELSE IF gone[s] # "no"
     THEN TaskEnds(s) /\ UNCHANGED channel
     ELSE /\ Len(channel[s]) < Capacity
          /\ channel' = [channel EXCEPT ![s] = Append(@, Head(task[s].page))]
          /\ task' = [task EXCEPT ![s].page = Tail(@)]
  /\ UNCHANGED <<accepted, position, wire, lock, demand, gone, listing, failures>>

\* wait_for_demand.
Park(s) ==
  /\ TaskAt(s, "park") /\ (gone[s] = "cancelled" \/ demand[s])
  /\ IF gone[s] = "cancelled" THEN TaskEnds(s) /\ UNCHANGED demand
     ELSE TaskTo(s, "ask") /\ demand' = [demand EXCEPT ![s] = FALSE]
  /\ UNCHANGED <<accepted, position, wire, lock, channel, gone, listing, failures>>

Fetch(s) == Ask(s) \/ Reply(s) \/ Deliver(s) \/ Park(s)

-----------------------------------------------------------------------------
(* The consumer: entry_stream, probe_class and poll_next.                  *)

ListingAt(l, at) == listing[l].at = at

\* QueryDirectoryStream::new spawns the task, then waits for the lock.
OpenStream(l, rung) ==
  /\ listing' = [listing EXCEPT ![l].rung = rung, ![l].at = "lock"]
  /\ task' = [task EXCEPT ![<<l, rung>>].at = "ask"]

Listening(l) == listing[l].at \in {"lock", "probe", "read", "next"}

\* A task that may still send a query.
Querying(s) ==
  /\ task[s].at \notin {"none", "done"} /\ gone[s] # "cancelled"
  /\ gone[s] = "unread" => TaskAt(s, "ask")

\* alone is not in the code: it tells whether no other stream queried beside the listing.
BeginListing(l) ==
  /\ ListingAt(l, "idle")
  /\ listing' = [m \in Listings |->
                    IF m = l THEN [listing[l] EXCEPT !.at = "lock",
                                     !.alone = \A s \in Streams : ~Querying(s)]
                    ELSE [listing[m] EXCEPT !.alone = @ /\ ~Listening(m)]]
  /\ task' = [task EXCEPT ![<<l, 1>>].at = "ask"]
  /\ UNCHANGED <<accepted, position, wire, lock, channel, demand, gone, failures>>

\* The first item of the wider classes is read by probe_class.
TakeLock(l) ==
  /\ ListingAt(l, "lock") /\ lock = None
  /\ lock' = Stream(l)
  /\ listing' = [listing EXCEPT ![l].at = IF listing[l].rung < 3 THEN "probe" ELSE "read"]
  /\ UNCHANGED <<accepted, position, wire, task, channel, demand, gone, failures>>

\* Mutant of SignalDemand: the wake-up reaches only a task that is parked.
SignalParked(s) == [demand EXCEPT ![s] = TaskAt(s, "park")]

\* notify_one stores the wake-up.
SignalDemand(s) == [demand EXCEPT ![s] = TRUE]

\* Dropping the stream closes the channel, cancels, wakes the task and releases the lock.
DropStream(s) ==
  /\ channel' = [channel EXCEPT ![s] = <<>>]
  /\ gone' = [gone EXCEPT ![s] = "cancelled"]
  /\ lock' = IF lock = s THEN None ELSE lock

\* poll_next, and what a listing does with the item.  An error ends a listing that is
\* probed; later it is an item, and the consumer may go on.
Poll(l) ==
  LET s == Stream(l)
      item == Head(channel[s])
  IN /\ listing[l].at \in {"probe", "read"} /\ channel[s] # <<>>
     /\ demand' = IF Tail(channel[s]) = <<>> THEN SignalDemand(s) ELSE demand
     /\ \/ /\ item = Failure /\ ListingAt(l, "probe")
           /\ listing' = [listing EXCEPT ![l].at = "dropped", ![l].failed = TRUE]
           /\ DropStream(s)
        \/ /\ \/ /\ item \in 1..Entries
                 /\ listing' = [listing EXCEPT ![l].at = "read",
                                               ![l].seen = IF item = 1 THEN @ ELSE Append(@, item)]
              \/ /\ item = Refused
                 /\ listing' = [listing EXCEPT ![l].at = "next"]
              \/ /\ item = Failure /\ ListingAt(l, "read")
                 /\ listing' = [listing EXCEPT ![l].failed = TRUE]
           /\ channel' = [channel EXCEPT ![s] = Tail(@)]
           /\ UNCHANGED <<gone, lock>>
     /\ UNCHANGED <<accepted, position, wire, task, failures>>

\* The refused stream is dropped, and a narrower class is tried.
NextRung(l) ==
  /\ ListingAt(l, "next")
  /\ DropStream(Stream(l))
  /\ OpenStream(l, listing[l].rung + 1)
  /\ UNCHANGED <<accepted, position, wire, demand, failures>>

\* The task has ended and the channel is empty.
EndListing(l) ==
  /\ listing[l].at \in {"probe", "read"}
  /\ channel[Stream(l)] = <<>> /\ TaskAt(Stream(l), "done")
  /\ listing' = [listing EXCEPT ![l].at = "ended"]
  /\ DropStream(Stream(l))
  /\ UNCHANGED <<accepted, position, wire, task, demand, failures>>

\* The consumer drops the listing.  While it waits for the lock there is no stream yet
\* whose drop would cancel: only the receiver goes.
AbandonListing(l) ==
  /\ Listening(l)
  /\ listing' = [listing EXCEPT ![l].at = "dropped"]
  /\ IF ListingAt(l, "lock")
     THEN /\ gone' = [gone EXCEPT ![Stream(l)] = "unread"]
          /\ channel' = [channel EXCEPT ![Stream(l)] = <<>>]
          /\ UNCHANGED lock
     ELSE DropStream(Stream(l))
  /\ UNCHANGED <<accepted, position, wire, task, demand, failures>>

Consume(l) == TakeLock(l) \/ Poll(l) \/ NextRung(l) \/ EndListing(l)

-----------------------------------------------------------------------------
ScanNext ==
  \/ \E s \in Streams : Fetch(s)
  \/ \E l \in Listings : BeginListing(l) \/ Consume(l) \/ AbandonListing(l)

\* Tasks run, the server answers, and a consumer that is not dropped polls.
ScanFairness == WF_scanVars((\E s \in Streams : Fetch(s)) \/ (\E l \in Listings : Consume(l)))

ScanSpec == ScanInit /\ [][ScanNext]_scanVars /\ ScanFairness

-----------------------------------------------------------------------------
(* Properties.                                                             *)

\* The listing showed the directory's entries in order, none twice and none left out,
\* and all of them if it ended.
Exact(l) ==
  LET seen == listing[l].seen
  IN /\ \A i \in DOMAIN seen : seen[i] = i + 1
     /\ ListingAt(l, "ended") /\ Entries > 0 => Len(seen) = Entries - 1

\* A listing is exact unless it showed an error, whatever classes the server refused and
\* however pages, demand and dropped streams interleave, as long as it is the only one
\* that queries the handle.
ListingIsExact == \A l \in Listings : listing[l].alone /\ ~listing[l].failed => Exact(l)

\* Directory::query_lock: "This lock prevents iterating the directory twice at the same
\* time", so a listing is exact also when others are asked for meanwhile.
IterationIsExclusive == \A l \in Listings : ~listing[l].failed => Exact(l)

\* A listing ends, and no task outlives it: demand is never lost between a consumer that
\* waits for a page and a task that waits for demand.  Only the task of a listing that
\* was dropped while it waited for query_lock may stay, parked for good.
ListingsEnd ==
  (\E l \in Listings : Listening(l))
    ~> (\A s \in Streams : \/ task[s].at \in {"none", "done"}
                           \/ gone[s] = "unread" /\ TaskAt(s, "park"))
=============================================================================
