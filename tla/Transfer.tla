------------------------------ MODULE Transfer ------------------------------
(***************************************************************************)
(* File::transfer_to: a lazy operation that copies a file through a window *)
(* of concurrent reads and one ordered write at a time.                    *)
(*                                                                         *)
(* Sources: domain/transfer.rs, domain/operation.rs, and read_exact_at and *)
(* write_all_at of domain/mod.rs.  A byte of the source is its offset, so  *)
(* that the model tells which byte was written where.  The servers are     *)
(* external: they answer with any count, also with one that is too large,  *)
(* and a write that was sent may land after its caller has given up.       *)
(***************************************************************************)
EXTENDS Integers, FiniteSets, SequencesExt

CONSTANTS
    Length,         \* the bytes of the source when the copy starts
    ChunkSize,      \* TransferOptions::chunk_size
    Concurrency,    \* TransferOptions::concurrency
    ReadMax,        \* maximum_read_size of the source
    WriteMax        \* maximum_write_size of the destination

ASSUME TransferAssumption ==
    /\ {Length, ChunkSize, Concurrency} \subseteq Nat
    /\ {ReadMax, WriteMax} \subseteq Nat \ {0}

VARIABLES
    transfer,       \* the operation and the locals of run_transfer
    reads,          \* pending: offset -> the state of its read_exact_at
    ready,          \* ready: offset -> bytes
    writing,        \* the write_all_at in progress
    target,         \* the destination: offset -> a byte of the source, or Old
    sourceEnd       \* the length of the source, which others may truncate

transferVars == <<transfer, reads, ready, writing, target, sourceEnd>>

Old == -1
NotAsked == "lazy"
Ended == {"copied", "refused", "failed", "stuck", "cancelled", "timedOut", "dropped"}
Offsets == 0 .. Length - 1

\* transfer_to: a chunk is no larger than one request of either side.
TransferChunk == Min({ChunkSize, ReadMax, WriteMax})

\* The bytes of the source from offset on.
Slice(offset, count) == [i \in 1 .. count |-> offset + i - 1]

NoWrite == [asked |-> "no", bytes |-> << >>, done |-> 0]

TransferInit ==
    /\ transfer \in
           [op : {NotAsked}, deadline : BOOLEAN, length : {Length}, nextRead : {0},
            nextWrite : {0}, transferred : {0}, chunks : {0}]
    /\ reads = << >> /\ ready = << >> /\ writing = NoWrite
    /\ target = [i \in Offsets |-> Old]
    /\ sourceEnd = Length

Put(f, key, value) == [k \in DOMAIN f \union {key} |-> IF k = key THEN value ELSE f[k]]
Without(f, key) == [k \in DOMAIN f \ {key} |-> f[k]]

\* The operation ends: its futures are dropped, and with them what they hold.
EndsAs(outcome) ==
    /\ transfer' = [transfer EXCEPT !.op = outcome]
    /\ reads' = << >> /\ ready' = << >>
    /\ UNCHANGED <<writing, target, sourceEnd>>

----------------------------------------------------------------------------
(* Operation: poll, cancellation, deadline, drop.                          *)

\* The first poll starts the operation unless it is cancelled or late already.
\* The length is asked once; run_transfer refuses an empty window or chunk.
PollFirst ==
    /\ transfer.op = NotAsked
    /\ \/ /\ Concurrency > 0 /\ TransferChunk > 0
          /\ transfer' = [transfer EXCEPT !.op = "filling", !.length = sourceEnd]
          /\ UNCHANGED <<reads, ready, writing, target, sourceEnd>>
       \/ /\ ~ (Concurrency > 0 /\ TransferChunk > 0)
          /\ EndsAs("refused")
       \/ /\ transfer.deadline
          /\ EndsAs("timedOut")
       \/ EndsAs("cancelled")

\* run_bounded: the token of the operation or of the caller, the deadline, the drop.
\* They win over a result that is ready at the same time.
OperationCancelled ==
    /\ transfer.op \notin Ended \union {NotAsked}
    /\ EndsAs("cancelled")

DeadlineExpires ==
    /\ transfer.op \notin Ended \union {NotAsked}
    /\ transfer.deadline
    /\ EndsAs("timedOut")

DropOperation ==
    /\ transfer.op \notin Ended
    /\ EndsAs("dropped")

----------------------------------------------------------------------------
(* run_transfer.                                                           *)

FillWindow ==
    /\ transfer.op = "filling"
    /\ Cardinality(DOMAIN reads) + Cardinality(DOMAIN ready) < Concurrency
    /\ transfer.nextRead < transfer.length
    /\ LET count == Min({transfer.length - transfer.nextRead, TransferChunk})
       IN  /\ reads' = Put(reads, transfer.nextRead,
                           [length |-> count, got |-> 0, at |-> "new", count |-> 0])
           /\ transfer' = [transfer EXCEPT !.nextRead = @ + count]
    /\ UNCHANGED <<ready, writing, target, sourceEnd>>

WindowFull ==
    \/ Cardinality(DOMAIN reads) + Cardinality(DOMAIN ready) >= Concurrency
    \/ transfer.nextRead >= transfer.length

\* The chunk to write next.
\* Mutant: any chunk that was read.
AnyChunk == DOMAIN ready

NextChunk == DOMAIN ready \intersect {transfer.nextWrite}

\* The next chunk in order is written; else a read is awaited, which also polls every
\* pending read for the first time; else the copy is complete.
Schedule ==
    /\ transfer.op = "filling" /\ WindowFull
    /\ \/ \E offset \in NextChunk :
            /\ writing' = [asked |-> "yes", bytes |-> ready[offset], done |-> 0]
            /\ ready' = Without(ready, offset)
            /\ transfer' = [transfer EXCEPT !.op = "writing"]
            /\ UNCHANGED <<reads, target, sourceEnd>>
       \/ /\ NextChunk = {} /\ reads # << >>
          /\ transfer' = [transfer EXCEPT !.op = "reading"]
          /\ reads' = [o \in DOMAIN reads |->
                          [reads[o] EXCEPT !.at = IF @ = "new" THEN "asked" ELSE @]]
          /\ UNCHANGED <<ready, writing, target, sourceEnd>>
       \/ /\ NextChunk = {} /\ reads = << >> /\ ready = << >>
          /\ EndsAs("copied")
       \/ /\ NextChunk = {} /\ reads = << >> /\ ready # << >>
          /\ EndsAs("stuck")

\* read_exact_at: the answer is added to what was read; a short read asks again, an
\* empty or an oversized one fails the copy.
ReadCompletes(offset) ==
    LET read == reads[offset]
        got == read.got + read.count
    IN  /\ transfer.op = "reading"
        /\ offset \in DOMAIN reads /\ read.at = "answered"
        /\ \/ /\ read.count > 0 /\ got = read.length
              /\ ready' = Put(ready, offset, Slice(offset, got))
              /\ reads' = Without(reads, offset)
              /\ transfer' = [transfer EXCEPT !.op = "filling"]
              /\ UNCHANGED <<writing, target, sourceEnd>>
           \/ /\ read.count > 0 /\ got < read.length
              /\ reads' = [reads EXCEPT ![offset].got = got, ![offset].at = "asked"]
              /\ UNCHANGED <<transfer, ready, writing, target, sourceEnd>>
           \/ /\ read.count = 0 \/ got > read.length
              /\ EndsAs("failed")

\* write_all_at, then the bookkeeping of run_transfer: a short write asks for the rest,
\* a zero or an oversized one fails the copy.
WriteCompletes ==
    LET done == writing.done
        expected == Len(writing.bytes)
    IN  /\ transfer.op = "writing"
        /\ writing.asked = "answered"
        /\ \/ /\ done = expected
              /\ transfer' = [transfer EXCEPT !.op = "filling", !.nextWrite = @ + done,
                                              !.transferred = @ + done, !.chunks = @ + 1]
              /\ writing' = NoWrite
              /\ UNCHANGED <<reads, ready, target, sourceEnd>>
           \/ /\ done < expected
              /\ writing' = [writing EXCEPT !.asked = "yes"]
              /\ UNCHANGED <<transfer, reads, ready, target, sourceEnd>>

WriteFails ==
    /\ transfer.op = "writing"
    /\ writing.asked = "refused"
    /\ EndsAs("failed")

----------------------------------------------------------------------------
(* The servers (external) and other users of the source.                   *)

ServerReads(offset) ==
    /\ offset \in DOMAIN reads /\ reads[offset].at = "asked"
    /\ LET from == offset + reads[offset].got
           left == Max({0, sourceEnd - from})
           asked == Min({reads[offset].length - reads[offset].got, left})
       IN  \E count \in {0, 1, asked, reads[offset].length + 1} :
               /\ count \in {0, reads[offset].length + 1} \/ count \in 1 .. asked
               /\ reads' = [reads EXCEPT ![offset].at = "answered", ![offset].count = count]
    /\ UNCHANGED <<transfer, ready, writing, target, sourceEnd>>

\* The bytes of one request that the server stores before it answers, or refuses.
ServerWrites ==
    /\ writing.asked = "yes"
    /\ \E count \in 0 .. Len(writing.bytes) - writing.done :
          LET from == transfer.nextWrite + writing.done
              bytes == writing.bytes
          IN  /\ target' = [i \in Offsets |->
                               IF i \in from .. from + count - 1
                               THEN bytes[writing.done + i - from + 1] ELSE target[i]]
              /\ \/ /\ count > 0
                    /\ writing' = [writing EXCEPT !.asked = "answered", !.done = @ + count]
                 \/ writing' = [writing EXCEPT !.asked = "refused"]
    /\ UNCHANGED <<transfer, reads, ready, sourceEnd>>

Truncate ==
    /\ sourceEnd = Length
    /\ \E end \in Offsets : sourceEnd' = end
    /\ UNCHANGED <<transfer, reads, ready, writing, target>>

----------------------------------------------------------------------------
CopySteps ==
    \/ FillWindow \/ Schedule \/ WriteCompletes \/ WriteFails
    \/ \E offset \in Offsets : ReadCompletes(offset)

TransferNext ==
    \/ PollFirst \/ OperationCancelled \/ DeadlineExpires \/ DropOperation
    \/ CopySteps \/ ServerWrites \/ Truncate
    \/ \E offset \in Offsets : ServerReads(offset)

\* A transfer that is awaited is polled when it can go on, and its timer fires.  The
\* servers need never answer.
TransferFairness == WF_transferVars(PollFirst \/ CopySteps \/ DeadlineExpires)

TransferSpec == TransferInit /\ [][TransferNext]_transferVars

FairTransferSpec == TransferSpec /\ TransferFairness

----------------------------------------------------------------------------
(* Properties.                                                             *)

\* What has been written is a prefix of the source.  Whatever way the transfer ends, the
\* destination has every byte up to `transferred`, at its own place, and beyond it at
\* most the chunk whose write was in progress; a transfer that reports success has
\* copied the length it read at the start.
CopyIsPrefix ==
    /\ \A i \in Offsets : target[i] \in {Old, i}
    /\ \A i \in 0 .. transfer.transferred - 1 : target[i] = i
    /\ \A i \in Offsets : i >= transfer.transferred + TransferChunk => target[i] = Old
    /\ transfer.op = "copied" => transfer.transferred = transfer.length

\* The window bounds the memory of a transfer: the chunks that are being read, wait for
\* their turn or are being written are never more than the concurrency, and the reads
\* that arrived early never keep the next chunk out of the window.
WindowKept ==
    /\ Cardinality(DOMAIN reads) + Cardinality(DOMAIN ready) <= Concurrency
    /\ transfer.nextRead <= transfer.transferred + Concurrency * TransferChunk
    /\ transfer.op # "stuck"

\* A transfer with a deadline ends, though a server may never answer.
TransferEnds ==
    transfer.deadline /\ transfer.op # NotAsked ~> transfer.op \in Ended

\* A transfer copies in order and within its window, however reads overtake each other
\* and whatever ends it (run_transfer).
CopyInWindow == CopyIsPrefix /\ WindowKept
=============================================================================
