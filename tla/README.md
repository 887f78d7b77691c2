# A formal model of the smb-rs client

smb-rs is an SMB2/3 client in Rust. This directory models the parts of it where
ordering, concurrency or the layout of data decide what is correct. TLC checks the
models on small instances. TLAPS proves the main safety properties for every value
of the constants.

Source paths below are relative to `src/crates/smb/src/` unless they begin with
`src/`. `PROJECT.json` lists every component with its status, maps every definition to
the lines it models, and lists the hazards with the line where each one bites.

## The system

| Part | Source | Module |
|---|---|---|
| Request reducer: one request's caller, send and response progress, tombstone | `runtime/reducer.rs` | `RequestReducer` |
| Generation ledger: permits, bytes, credits, message ids, async index, deadlines | `runtime/state.rs` | `RequestLedger` |
| Owner task and ordered completion: pending operations, send queue, active write | `runtime/engine.rs`, `runtime/preparation_order.rs`, `connection/generation_runtime.rs` | `ConnectionOwner` |
| Object registry: epoch, kind, parent and phase of every object | `runtime/object_state.rs` | `ObjectRegistry` |
| Recovery coordinator: retry state, attempts, times | `runtime/recovery.rs` | `RecoveryCoordinator` |
| Recovery driver, task, close and drop of a connection | `runtime/recovery_driver.rs`, `connection.rs` | `RecoveryDriver` |
| Session and share recovery | `session.rs`, `tree.rs`, `connection.rs`, `session/channel.rs` | `SessionRecovery`, `ShareCell` |
| Session setup, channel, keys | `session/setup.rs`, `session/state.rs`, `session/channel.rs`, `runtime/wire.rs` | `SessionSetup` |
| Resource handles: create, durable reopen, close, oplock breaks | `resource.rs` | `ResourceHandles` |
| Directory queries and watches | `resource/directory.rs`, `runtime/port.rs`, `domain/mod.rs` | `DirectoryScan`, `DirectoryWatch` |
| Lazy operations and batches, credit charge | `domain/operation.rs`, `domain/batch.rs`, `runtime/operation.rs`, `runtime/engine.rs` | `DomainOperation` |
| Transfers | `domain/transfer.rs`, `domain/operation.rs` | `Transfer` |
| Client, connection map, session cache | `client/smb_client.rs`, `domain/mod.rs` | `ClientCaches` |
| Security calls, cleanup tasks, close of files and shares | `runtime/port.rs`, `domain/mod.rs` | `ShareUse` |
| Crypto executor, CMAC batcher, concurrent preparation | `runtime/crypto_executor.rs`, `runtime/cmac_batcher.rs`, `runtime/wire.rs` | `CryptoWork` |
| Connecting, negotiation | `connection.rs`, `dialects.rs`, `src/crates/smb-msg/src/negotiate.rs` | `Negotiation` |
| Framing and transport | `src/crates/smb-transport/` | `FrameTransport` |
| Messages, information classes | `src/crates/smb-msg/`, `src/crates/smb-fscc/`, `src/crates/smb-dtyp/` | `WireFields`, `SmbMessages`, `FileMessages`, `IoctlMessages`, `FileInformation`, `WireCodec` |
| Compounds and chained lists | `src/crates/smb-msg/src/wire_out.rs`, `src/crates/smb-fscc/src/chained_list.rs`, `runtime/wire.rs` | `WireChains` |
| RPC pipe and NDR stubs | `domain/rpc.rs`, `src/crates/smb-rpc/` | `RpcMessages`, `NdrStubs`, `RpcPipe` |

How the parts interact. A caller's operation becomes a request of the owner task of
the current generation of its connection. The owner admits it through the ledger,
prepares and writes its frame, applies the answer and tells the caller its outcome.
When the transport is lost the owner ends, the recovery task notices, and the
recovery driver makes a new generation while operations wait for it. Sessions and
shares are then restored on the new generation by whoever meets them first, and the
object registry refuses what belonged to the old one. Resources, listings, watches,
transfers and domain operations are built on requests of a share.

## The modules and the code

**RequestReducer** has one operator per `RequestEvent`. **RequestLedger** extends it;
`state` is `GenerationState`, and each method is an operator from state to state with
an action that applies it. Integer widths are the constants `CreditMax` (u32),
`GrantMax` (u16) and `MessageIdMax` (u64). Two variables are not in the code:
`window`, the server's own count of credits, and `overdrawn`, the charges of requests that
the server answered after the client had given them up and taken the credits back. The
server may answer any request the ledger knows.

**ConnectionOwner** extends the ledger, so the two are checked together. Every handler
of the loop is an action; what happens only in the `select!` is guarded by `AtSelect`.
The server is external: it receives a frame once it is wholly written and answers each
request at most twice.

**ObjectRegistry** has one action per call that changes a record. The walks up the
hierarchy are written out, because the kinds allow at most three steps.

**RecoveryCoordinator** is the pure reducer. **RecoveryDriver** extends it with the
recovery task, the operations that wait, the callers of `Connection::close` and the
drop of the last `Connection`. A step ends where the code can be overtaken: at an await,
at a lock, or between two reads of shared state. `WatchEnds` is coarser: it takes the
checks that follow the end of a generation as one step.

**SessionRecovery** has any number of tasks, each with a stack of calls: use of a share,
reauthentication, reconnect, the wait for a session, restoration after a replacement,
logoff and disconnect. Steps end at awaits and locks; an impatient task may be dropped
at any of them. **ShareCell** is what a share promises its users: its generation only
moves forward, and an object refused once is never accepted again.

**ResourceHandles** follows one resource through its share's replacements.
**SessionSetup** has several drivers of the setup loop on one connection with one shared
preauthentication transcript; a key is the transcript it is derived from.

**DirectoryScan**, **DirectoryWatch**, **Transfer**, **DomainOperation**, **ClientCaches**,
**ShareUse** and **CryptoWork** model one component each, with the drop of a future as an
action wherever the caller holds one. `DirectoryScan` has two listings of one handle;
`listing.alone` and `ClientCaches`' `user.late` are history, not code.

**Negotiation** covers dialling, the multi-protocol switch, the selection of dialect and
algorithms, the flags a dialect allows, and how a request on a share is then protected. **FrameTransport** covers vectored writes
with short counts, cancelled writes and the receive loop. **SmbMessages**,
**FileMessages**, **IoctlMessages** and **FileInformation** give the layout of each message
as fields, markers and bodies, in terms of **WireFields**; **WireCodec** has a writer and a
reader of layouts. **RpcMessages** and **NdrStubs** are the same for the RPC pipe.

The MC modules compose. `MCRecoveryDriver` puts `RecoveryDriver` and `ObjectRegistry` in
one state machine; `MCDeadlines` the owner and the recovery driver, each with its own
fairness; `MCLifecycle` the components from `SessionRecovery` to `CryptoWork`; `MCProgress`
those of them whose progress is checked; `MCWire` the wire modules. In each a variable
`chosen` that never changes picks the component that moves. The components share no
variables, so their interleavings would add states and no behaviour. The parts of the
client that do share state are composed for real: reducer, ledger and owner; coordinator,
driver and close; sessions and shares.

## What the runs show

| Run | Shows |
|---|---|
| `ledger` | Two requests in every order of their events: permits and bytes balance (`OwnershipBalanced`), credits equal the server's count plus what was overdrawn by late answers (`CreditsBacked`), async ids resolve to one request (`AsyncIndexExact`), the first outcome stands (`OutcomeStands`). |
| `owner_cancels` | Three operations that may be cancelled anywhere: "not sent" is true, credits are never invented, prepared requests keep their order. |
| `owner_compound` | A compound frame beside another operation, with interim answers, session invalidation and a lost transport: no caller and no work is stranded, a reply is not replaced. |
| `deadlines` | A caller with a deadline is answered and a tombstone ends, even with a stalled transport and a silent server (`DeadlineAnswers`, `TombstonesEnd`); every wait for a recovery and every recovery ends, though no server need ever answer (`WaitEnds`, `RecoveryEnds`). |
| `recovery_close` | Two losses, two concurrent closes and a drop: a recovery is driven while somebody waits for it and waits are released to the published replacement (`RecoveryServesWaits`); retries are bounded; the close that joins the recovery task is final (`CloseIsFinal`). In the registry, subtrees of what was revoked stay down (`SubtreeDown`) and a refused token stays refused (`RefusedForGood`). |
| `lifecycle` | A recovered share is on the session it is filed under (`RecoveredShareBelongs`); an accepted request carries its own session's id (`AcceptedOnOwnSession`); a published handle was opened on its share (`PublishedHandle`); a resource is closed at most once (`ClosedForGood`); a ready session has the server's keys (`ReadyKeysAgree`) and its exchanges are protected as configured (`ExchangesProtected`); the share cell is implemented (`ImplementsCell`). A listing that is alone on its handle yields each entry once, in order (`ListingIsExact`); a watch never skips a change silently (`NoSilentGap`); a copy is a prefix of its source and within its window (`CopyInWindow`); permits and batches of crypto work are accounted for (`WorkAccounted`); batches, lost outcomes and credit charges are reported as they are (`ReportsTrue`); a close of the client logs off the sessions it took and brings down every connection listed before it drained the list (`CloseReachesAll`); handles behind share calls are given back (`HandlesReturned`). |
| `progress` | Session calls, reopens, listings, watches, transfers, preparations and domain operations come to an end (`RecoveriesEnd`, `StreamsEnd`, `WorkEnds`), but for the preparation of a frame whose size was misjudged. |
| `wire` | A message reads back as written and a peer that follows its offsets finds its body (`LayoutsAgree`); compounds and lists come apart as they were put together (`ChainsHold`); frames arrive in order through short writes (`FramesInOrder`); the dialect, cipher and compression in use were offered, each negotiation has a fresh message id, and a share that asks for encryption is never sent a request in the clear (`TermsHold`); no two RPC calls of a binding have one call id, a call names an accepted context, and a stub reads back what was sent (`RepliesReadBack`). |
| `outcome_told`, `listing_overlap`, `client_close`, `lease_version` | End in a violation; see the next section. |

`owner_cancels` and `owner_compound` have no deadlines, and only the single operation of
the compound run can be cancelled. This matters: with a deadline `NotSentIsTrue` and
`CreditsNeverInvented` fail, and with a cancelled compound member `WorkIsQueued` fails.

## Where the code disagrees with its documentation

Four runs end in a violation, because a comment or a document says otherwise.

- `outcome_told` (`OutcomeTold`). `run_bounded` answers `Cancelled` or `OperationTimeout` as
  soon as the token or the deadline fires and drops the inner future, also when its request
  has been written (`domain/operation.rs:208`). `outcome_unknown()` of that error is false.
  `src/README.md:78` asks to check it before retrying, because "a sent request without a
  definitive response still has an unknown effect".
- `listing_overlap` (`IterationIsExclusive`). `resource/directory.rs:28` says of `query_lock`
  "This lock prevents iterating the directory twice at the same time." The task that queries
  is spawned at line 531, before the lock is awaited at line 543, so two listings share the
  position of one handle and one of them misses entries.
- `client_close` (`ClientCloseIsFinal`). `src/docs/architecture/async-public-interface.md:182`
  says "Only `close().await` guarantees logical admission closure and awaited teardown." A
  user that connects while the client is closed lists its connection after the list was
  drained (`client/smb_client.rs:44`, `54`), and sets up a session on it.
- `lease_version` (`LeaseVersionKept`). `src/crates/smb-msg/src/create.rs:516` says of leases
  "v1+2, request & response are the same". The enum at line 589 is read by trying version 1
  first, and a version 2 lease without flags passes its assertions.

## Other departures

The models have the following behaviours too. A property in brackets is defined in its
module and fails for this reason; no run is kept for it.

Requests and the owner task:

- A deadline reports a queued request as timed out and leaves its frame in the queue,
  to be written later; it gives back credits that the server then charges
  (`runtime/engine.rs:1319`, `runtime/state.rs:430`). `NotSentIsTrue` and
  `CreditsNeverInvented` are therefore checked without deadlines, and `CreditsBacked` counts
  those charges in `overdrawn`.
- A session invalidation puts the pending entry of a request whose caller was told back
  into the table, and nothing removes it (`runtime/engine.rs:2331`; `EntriesReleased`); a late answer drops the outcome kept for a detached caller
  (`runtime/engine.rs:2380`).
- A rolled-back request keeps its message id, and later ids run ahead of the grant
  (`runtime/state.rs:262`; `IdsWithinGrant`).
- An operation that waits for credits has no timer (`runtime/engine.rs:1510`;
  `AdmissionIsTimely`).
- Cancelling the first member of a queued compound removes the frame of all members
  (`runtime/engine.rs:2013`). Compound submission has no caller outside tests.
- A request can be reported as `Cancelled` after its frame was committed to the wire
  (`connection/generation_runtime.rs:176`).

Recovery of a connection:

- Close may read the old generation just before recovery publishes the new one, and
  then joins a task that watches the new one (`connection.rs:184`; `CloseCompletes`).
- The second of two concurrent closes returns before the recovery task has ended
  (`connection.rs:899`). `CloseIsFinal` is about the close that took the task's handle.
- An operation on a just-published connection is refused as not depending on the
  connection (`runtime/recovery_driver.rs:321`).
- Background tasks keep a dropped connection up (`connection.rs:845`).

Sessions, shares and resources:

- Reauthentication and reconnect take two locks in opposite orders; only the attempt
  timeout ends the wait. `CallsEnd` holds because of it.
- A session whose recovery is dropped at the wrong await, or leaves by the returns at
  `session.rs:470` and `473`, stays in recovery with nobody to finish it
  (`RecoveryIsOwned`).
- A request may be sent to the tree of another generation of its share
  (`SentToOwnTree`), or with the file id of another handle (`NamesOwnHandle`); the object
  token is current when it is sent, so the runtime accepts it.
- A waiter may reauthenticate a session that was just restored; logoff invalidates
  whichever session is current; the check and the store of a share's closed flag are two
  steps (`tree.rs:269`).
- An object that was published but never stored stays active. Only objects that were
  the session's are refused for good.
- A failed CREATE registration, an open of the wrong kind and a CREATE dropped in flight
  leave a handle open at the server (`resource.rs:303`, `309`, `323`, `376`); a failed close
  cannot be repeated.
  An oplock break between the CREATE response and its registration is dropped.
- Several setups on one connection share the transcript (`TranscriptIsPrivate`); the
  final answer may be admitted before the signer is installed, and then ends the
  connection (`SignerInstalledFirst`). What is proved is that no such setup becomes
  ready with keys that differ from the server's.
- A server that asks for encryption of a client with encryption disabled leaves a ready
  session that can send nothing.

Domain layer:

- Operations given up after submission are not withdrawn from the runtime
  (`GivenUpIsWithdrawn`); a batch cancelled midway loses the outcomes it has.
- Concurrent authentications each make a session; a closed session stays cached; a
  dropped close of the client forgets what it had drained, and `CloseReaches` says nothing
  after one.
- The close of a share does not wait for security calls whose cleanup is not yet
  spawned (`runtime/port.rs:498`).
- `ListingIsExact` is for a listing that is the only one to query its handle. The task of a
  listing that was dropped while it waited for `query_lock` stays parked; `ListingsEnd`
  excepts it.
- A cursor keeps the read or write of a poll that was abandoned; the next poll is given its
  result, whatever buffer it comes with (`domain/cursor.rs:60`, `104`). Cursors are not
  modelled.
- Overflow or drop of a watch cancels the token of its caller.
- Whether a frame is prepared inline is decided by its payload (`runtime/wire.rs:91`), how it
  is signed by the whole frame (`612`, `645`). A frame between the two is signed inline by
  the owner, which may wait for a batch leader or a permit that only its own loop moves.
  `OwnerReturns` excepts exactly these frames, and the runs have their sizes.
  A dropped leader of a CMAC batch fails the jobs of others.
- Sums of sizes for the credit charge are taken not to wrap (u32); a charge above the
  header's u16 is refused. `ReplayPolicy::decide` has no caller; `BatchResult::outcome` ignores the batch id.

Wire:

- A cipher or a capability that was not offered is recorded when a server answers it
  (`dialects.rs:249`, `connection.rs:352`). `TermsWereOffered` is about what is then used.
- The length of a frame has 24 bits; a longer frame has its length truncated
  (`src/crates/smb-transport/src/frame.rs:72`). `FrameTransport` has a small `LengthRange` and
  sends frames within it.
- The call id of an RPC reply is not compared (`domain/rpc.rs:225`). `RepliesReadBack` rests
  on the answer of a transact being its own, which the ledger gives. An error in a bind drops
  the pipe unclosed (`domain/rpc.rs:76`).
- A name of no characters with a buffer is not read as it is written
  (`src/crates/smb-rpc/src/interface/lsarpc.rs:362`, `421`). The runs send such names; the
  reader then goes astray, which the model marks as a failed read, and `AccountsReadBack`
  says that nothing else makes it fail. The lookup answer has no writer in the
  code; the model writes it as the tests of the interface do.
- `LayoutsAgree` has these exceptions, each a named definition: a version 2 lease without
  flags and a version 2 virtual disk context are read as version 1 (`ReadAsFirst`); the
  paths of V3 and V4 DFS referrals have offsets 8 too small (`Shifted`,
  `src/crates/smb-msg/src/dfsc.rs:321`); a BindAck whose results are not aligned
  (`Unaligned`); a list count that has wrapped (`Wraps`); an empty wide string
  (`HasEmptyName`); an application instance version declares 24 bytes and has 26
  (`Undeclared`).

### Bounds

The ledger run has two message ids, two async ids, two credits and one payload byte:
enough for two requests to compete for every limit. `CreditMax` is small so that a grant
overflows it. Every charge is one credit; larger charges are left to the proofs. The
async ids are interchangeable, so the run uses symmetry. The owner runs have at most
three operations, which is what it takes for one to be written, one queued and one
parked. Each picks what callers, server and transport may do; no run has all of it. The
registry has ids 0 to 3 and epochs 0 to 2, so a whole chain from connection to
resource exists and each object can run out of epochs. The recovery driver has two
attempts, two waits and a clock of 8 ticks (`Horizon`), more than the recoveries of a run
can use; `recovery_close` has two losses and two closes and uses symmetry of waits and
closes.

In `lifecycle` a caller with any kind of call meets a second one that executes or
disconnects, one loss and one expiry, and two generations of each object (`Slots`);
one user of a handle meets oplock breaks, or two users meet each other; one driver
of a setup meets every setting, or two drivers meet each other with one attempt. There, a
listing of three entries takes two pages, a transfer of five bytes takes
three chunks through a window of two, a watch has room for two of four changes, and the
lengths of an operation lie on both sides of a credit, with a header that holds two
(`MaxCharge`). Three jobs of the crypto work have every size around both thresholds. In `wire` the lengths lie on both
sides of 2^15 and 2^16, alignment and frame limits, and a binding has two calls before its
call ids run out. Proofs cover the other values where
the table below names a theorem.

`CHECK_DEADLOCK FALSE` is given where the system may stop: a generation that has ended,
callers with nothing to do.

### Fairness

`FairOwnerSpec` assumes only that the owner task is run while it has something to do,
its timer and finished preparations included. `FairRecoverySpec` assumes that spawned
tasks and calls in progress are run, that time passes, and that unreachable generations
are reclaimed. `MCProgress` assumes weak fairness of the steps of the component that
moves: its tasks and timers, not its users. Tokio's scheduler gives this to tasks that
are ready. No fairness is assumed of the server or the transport except where a timeout of the code stands in for its answer.

## What is proved

The theorems hold for every value of the constants that satisfies the named assumptions,
and for any number of requests, objects, tasks, users, waiters and closers.

| Theorem | Module | Property |
|---|---|---|
| `LedgerSound`, `TypeCorrect` | `RequestLedgerProofs` | the inductive invariant `IInv`; `TypeOK` |
| `OwnershipAlwaysBalanced` | `RequestLedgerProofs` | `OwnershipBalanced` |
| `CreditsAlwaysBacked` | `RequestLedgerProofs` | `CreditsBacked` |
| `SlotAlwaysFollowsCaller`, `TombstoneAlwaysArmed` | `RequestLedgerProofs` | `SlotFollowsCaller`, `TombstoneArmed` |
| `AsyncIndexAlwaysExact`, `OutcomeAlwaysStands` | `RequestLedgerProofs` | `AsyncIndexExact`, `OutcomeStands` |
| `RegistrySound`, `LineageAlwaysCurrent` | `ObjectRegistryProofs` | the inductive invariant `RegistryInv`; `LineageCurrent` |
| `SubtreeAlwaysDown`, `RefusalIsForGood` | `ObjectRegistryProofs` | `SubtreeDown`, `RefusedForGood` |
| `HandlePublished`, `HandleClosedForGood` | `ResourceHandlesProofs` | `PublishedHandle`, `ClosedForGood` |
| `RecoveredSharesBelong`, `RequestsOnOwnSession` | `SessionRecoveryProofs` | `RecoveredShareBelongs`, `AcceptedOnOwnSession` |
| `SharesImplementCell` | `SessionRecoveryProofs` | `ImplementsCell` |
| `RecoveryTypes` | `RecoveryDriverProofs` | `RecoveryTypeOK` |
| `WaitsAreServed`, `RetriesAreBounded`, `ClosesAreFinal` | `RecoveryDriverProofs` | `RecoveryServesWaits`, `RetryIsBounded`, `CloseIsFinal` |

**Ledger**, from `LedgerAssumption` and `AsyncIdsAssumption`. `IInv` says that the books are
`Sound` with `window + overdrawn` behind the credits, and types the two history variables.
The properties are not inductive by themselves. That a counter does not underflow when a
request gives something back needs the counter to equal the sum of what all records hold;
that a record gives back only what it holds needs the shape of a record at each point of
its life. An answer to a request that was rolled back adds its charge to `overdrawn` and
takes it from `window`, so the sum stays what the client counts. `LedgerBooks` has the
lemmas on sums and on the events of one request, `RequestLedgerProofs` answers,
admission, tear-down and the theorems.

**Object registry**, from `RegistryAssumption`. `RegistryInv` is the type, the lineage and
the subtrees together. A revocation reaches a whole subtree only if no parent token is
stale and the hierarchy is at most four deep. A replacement restores no old token because
it raises the epoch.

**Resource handles**, from `HandlesAssumption`. `HandlesInv` says what each actor may know
at each of its steps (`OpenerFrame`, `UserFrame`): the file id a future is about to store was
opened on the share it is going to be filed under, though the share may be replaced at
every await. `OneClose` says that whoever closes found the resource open and is the only
one, which is what makes a second Close impossible.

**Sessions and shares**, from `RecoveryAssumption`. `SessionInv` is the type of the shared
state (`SharedType`), the shape of each task's stack of calls (`StackInv`), the facts about
shared state (`SharedInv`) and, for each frame of a stack, what it has read and what is
still true of it (`FramesInv`). `SessionSteps` has the lemmas about steps of a stack.
Refinement: `Cell` maps the share to `ShareCell`, and each step is a step of the cell or
leaves it alone.

**Recovery driver**, from `PolicyAssumption` and `DriverAssumption`. `DriverInv` conjoins
what holds of the coordinator, the task, the waits, the closers and the flags. A wait is
served because whoever enqueues does so while the coordinator recovers, and the task leaves
that state only by releasing the queue; a close is final because it joins the task.

## What is only model-checked

Liveness under fairness is out of the prover's reach: `DeadlineAnswers`, `TombstonesEnd`,
`WaitEnds`, `RecoveryEnds`, `RecoveriesEnd`, `StreamsEnd` and `WorkEnds` rest on TLC. So does
what recursive definitions compute over data, as in the layouts, lists, frames and stubs of
`wire`. The safety of the owner task, session setup, listings, watches, transfers, crypto
work, domain operations, client caches and share handles is checked on the bounds above and
not proved.

## What is not modelled

- Bytes of signatures, keys, hashes, ciphertext and compressed data. A key is the
  transcript it is derived from; an encrypted frame is one that was encrypted.
- Sockets and the NetBIOS session service below the framing; name resolution; logging.
- The raw admission lane of the owner and the queue methods that only tests call
  (`advance_time`, `release_ready`, `drain_ancestor`); event emission and the object commands of the owner.
- `ShutDown` of `ConnectionOwner` drops everything the owner holds in one step; the order in which futures see
  the closed channels is not told apart.
- The saturation of the clock. Times are small numbers.
- Wrappers of files and pipes, cursors, security descriptors and metadata: their calls are
  requests of the modelled parts, their conversions are data.
- The interaction of the components that `chosen` separates, beyond what each module says
  of its environment: a lost generation, a replaced share and a silent server are choices
  in every module they concern.
