# nfsembed: specification and proofs

TLA+ models of the crate, the TLC configurations that check them on small
instances, and TLAPS proofs of most of their safety properties for every
instance. Paths are relative to the repository root; the lines that each
definition models are in `PROJECT.json` (`map`), next to the hazards that the
properties were chosen for (`hazards`).

## The system and its parts

A server run accepts TCP connections (`src/server/mod.rs`). Each connection is
one tokio task with three futures, reader, processor and writer, that talk
through two bounded channels (`src/server/connection.rs`). The processor spawns
a *request task* per record. A request task takes reply budget, asks the
*replay cache* (`src/replay/cache.rs`) whether the request is new, and if so
hands an *execution* to the `ExecutionTracker`, where it survives its
connection. Executions run the procedures of the NFS and MOUNT programs, which
call the application's `VirtualFileSystem`; `examples/mirrorfs.rs` is one. A
`ServerHandle` requests shutdown and waits for the run; a standalone portmapper
may run beside it. An older stack (`src/tcp.rs`, `src/rpcwire.rs`,
`src/transaction_tracker.rs`, `src/nfs_handlers.rs`) serves the demo.

| part | source | modules | how far |
|---|---|---|---|
| replay cache | `src/replay/cache.rs`, `src/rpc/reply.rs` | `ReplayCache`, `ReplayService` | all of it |
| connection pipeline | `src/server/connection.rs` 44-465 | `Connection` | all of it |
| server run, tracker, handle | `src/server/mod.rs`, `handle.rs` | `Server` | all of it |
| standalone portmapper | `src/server/portmapper.rs` | `Server` | its tasks and permits; not GETPORT |
| record marking | `src/rpc/record.rs` | `RecordMarking` | all of it |
| limits | `src/server/limits.rs` | `Limits` | `validate`; not the limits on time |
| NFSv3 procedures | `connection.rs` 465-1600, `src/nfs3/` | `Nfs3`, `ReadDir`, `Xdr` | all procedures |
| file handles | `src/handles/` | `Nfs3` | all of it, with an ideal tag |
| MOUNT | `connection.rs` 1602-1725 | `MountTable` | all that touches the list |
| RPC codec, authentication | `src/rpc/codec.rs`, `auth.rs` | `Xdr`, `Connection` | sizes; refusal as one outcome |
| VFS contract | `src/vfs/` | `Nfs3`, `ReadDir` | as the environment of the handlers |
| mirror example | `examples/mirrorfs.rs` | `MirrorFs` | the map and all that reads or changes it |
| demo stack | `src/tcp.rs`, `rpcwire.rs`, `transaction_tracker.rs`, `nfs_handlers.rs` | `LegacyTransport`, `TransactionTracker`, `LegacyNfs` | transport and NFS procedures |
| demo and certification examples, observability | `examples/`, `src/observability.rs` | | not modelled |

## Modules and how they compose

`ReplayService` says what the duplicate-request cache promises: a slot per
request, with the current execution and whether it has answered; what has
answered may be forgotten, what runs may not. `ReplayCache` is the cache as it
is written: generations, the `latest` index, the completion order with its
tombstones, byte accounting, expiry, and the two locked sections of
`ReplayLease::complete` as two steps. It implements `ReplayService`
(`ServiceSpec`, with the views `SlotView`, `StageView` and `SourceView`).
`Connection` uses the cache through `ReplayService`, so what it shows rests on
that refinement; in return `RequestSettles` of `Connection` shows what the
fairness of `ReplayCache` assumes of the callers, that every lease ends.

`Server` abstracts a connection to a task that starts request tasks and may end
at any time, and looks at what `Connection` leaves open: who joins, aborts or
outlives whom. In `Connection` the server is the actions `Shutdown`,
`ServerReturns` and `AbortConnection`.

`Limits` is `ServerLimits` and its validation, `Xdr` the sizes of what replies
are made of. `Nfs3`, `ReadDir` and `MountTable` are the handlers of the two
programs; they run under limits that `validate` accepts. `LegacyNfs` is their
counterpart of the demo stack. The four share no state, so `MCPrograms` checks
them as four parts of one state machine, each behaviour about one of them.

`TransactionTracker` is extended by `LegacyTransport`, which adds the pump, the
reader and the tasks of a connection of the demo stack.

### State and actions

* `ReplayCache`. `inner` is `CacheInner`; everything done under one lock
  acquisition is one step. `Begin*` are the outcomes of `begin`,
  `CompleteProbe` and `CompleteStore` the two halves of `complete`, `Cancel`
  the explicit or implicit drop of a lease, `WaiterGone` the drop of a
  receiver. A reply is the call that produced it and a shape: wire length,
  charged bytes, whether storing it needs a copy. `begin` samples the clock
  before it locks, so a step may use a time up to `MaxLockDelay` old.
* `Connection`. `task[r]` follows a request from the wire to the end of its
  request task, `exec[r]` its execution, `reply[r]` its reply in the queue and
  in the writer. `request_buffers`, `reply_buffers` and `requests` are the
  semaphores, as the sets of requests that hold a permit; since every
  reservation is for `max_rpc_record_size` bytes, a budget is counted in
  records. `Teardown` is the end of `try_join!` with an error or the abort of
  the connection task; `AbortTask` is the moment a request task of a dropped
  JoinSet is dropped, at whatever await it has reached. A wait with a deadline
  may time out whenever what it waits for is not available. Decoding,
  authentication and policy are the action `Reject`; what an execution computes
  is left out.
* `Server`. An aborted task stays `"aborted"` until it is dropped, since a poll
  in progress on another thread finishes; an aborted request task may still
  upgrade the tracker and spawn its execution. `run` names the loop or await
  of `run()` that is current.
* `RecordMarking`. A payload byte is named by its record, segment and position,
  so a lost, repeated or misplaced byte shows. The socket takes any prefix of
  what it is offered. The peer of the reader is a server like itself or a
  client that fragments as it likes.
* `Nfs3`. A procedure is one step up to the return of its first VFS call, and a
  second one if it then awaits `getattr`; changes by others, a timeout, or a new
  run of the server may come between. A result is its status, the arms it has
  (whose attributes, how old), and its size; `version` counts the changes of an
  object, `data` what is on stable storage. `client` follows RFC 1813: it keeps
  data until WRITE says that it is stable or COMMIT answers with the verifier of
  its WRITE.
* `ReadDir`. One client walks a directory; `Readdir` and `Getattr` are the two
  awaits of the handler, `Change` another client in between. The VFS returns any
  prefix of the entries behind the cookie that the trait allows. Sizes are the
  real XDR sizes. `seen` and `steady` record what the walk was given and what
  was in the directory all the time. A time of the directory or of an entry that
  XDR cannot hold makes the reply an error (`Unencodable`).
* `MountTable`. An MNT call moves through its awaits (`phase`) and then does the
  check and the push in one step, as the lock does; a call that awaits can be
  dropped. After the push the reply is on its way (`"answering"`) and may be
  lost. `told` records the mounts that clients were told they have, `lost` those
  whose reply was lost. NULL and EXPORT change nothing and are left out.
* `MirrorFs`. `host` is the mirrored tree, `id_to_relative`, `relative_to_id`,
  `exclusive_verifiers` and `next_file_id` are `FsMap`. A call is one step for
  each use of the map, under its mutex, and one for each operation of
  `tokio::fs`; a dropped call has the operation it handed out carried out
  nevertheless. Where the host resolves a symbolic link, above the last
  component or, for `open`, in it, it may end anywhere in the tree (`Resolved`).
  `told` records which inode a client was told an identifier is, `disturbed`
  which mishaps have happened: a removal or rename had company or was dropped, a
  link was followed.
* `LegacyTransport`. The pump does one thing at a time: while it waits for room
  in the pipe it writes no replies. Buffers are counted in records.
* `LegacyNfs`. A procedure is a chain of calls to the file system and other
  procedures run between them. Every change of an object is an entry of `log`,
  and its ctime the place of its last change there.

## Runs

Deadlock checking is off in the runs of systems that end (a finite number
of requests, a server that stops, a bound on the calls).

| run | what it shows | instance |
|---|---|---|
| `replay_safety` | Index, entries, bytes, leases and waiters agree; the completion order is complete, sorted and compacted before tombstones pile up; answers are original; duplicates run together only after a reuse of their XID; losses are justified; the cache implements `ReplayService`. | 4 calls, 2 XIDs, 2 fingerprints, capacity 2, 2 bytes, 3 reply shapes, 1 tick, a clock read before the lock, `CompactFloor = 1` (64 in the code, which would need 65 completions). Two calls make a duplicate, three a duplicate across a reuse or a compaction, four a third generation beside a waiter. |
| `replay_liveness` | A waiter is released. | 3 calls on one XID: leader, waiter and a reuse. |
| `connection_pipeline` | Permits are held by what they pay for; no lease or waiter is left behind; a clean close has answered all it queued; requests settle and the connection ends, although the peer need not read and a VFS call need not return. | A connection with 3 requests, of which 2 are equal and the third repeats that of an earlier connection, which has failed and left an execution behind whose VFS call hangs (`MCOutlivedInit`, `MCScenario`). Queues and JoinSet of 1, budgets of 2 records, 1 permit: every queue, budget and permit is contended. |
| `connection_repeat` | A retransmission never runs beside the original; both settle. | 2 connections, a request and its retransmission, 2 permits. |
| `server_lifecycle` | Permits follow connections; a stop leaves nothing behind but what aborted tasks hold; run, tasks and waiters end after a shutdown request. | 2 NFS connections and 1 portmapper connection under a limit of 2, 1 request, 2 waiters. |
| `server_wait_claim` | Expected violation, see Findings. | the same |
| `record_marking` | What is written is what is read; exactly the records beyond the limits are refused; memory is reserved before it is allocated; records arrive. | 27 combinations of limits, 2 records of up to 5 bytes in 8 segmentations, every partial write, clients with up to 4 fragments of 0, 1, 2 or 4 bytes. |
| `programs` | See below. | Four parts, see below. |
| `mirrorfs` | Both directions of the map agree and forgotten identifiers stay stale, always; an identifier denotes one object and repeated exclusive creations are recognised, as long as removals and renames run alone and to their end and no link is followed. | 2 calls at a time, 2 names, paths of 2 components, 2 inodes, 3 identifiers, 1 verifier. Of the three mishaps one happens in a behaviour, and after it, or after a dropped CREATE, only one inode and one identifier beside the root's are followed on; after a dropped removal or a followed link, one call at a time. A link is the only object in its tree. |
| `mirrorfs_cancellation` | Expected violation, see Findings. | 1 call at a time, 1 name, 2 inodes |
| `legacy_transport` | The tracker's indices agree; calls are not executed again within the retention period; requests settle unless the client has more under way than the buffers hold. | One place in each buffer, reads of 2 records, 5 sends, 1 repetition, 2 connections, 1 tick. |
| `legacy_one_result` | Expected violation, see Findings. | the part of `programs` on the demo stack |

The parts of `programs`:

* *NFS procedures*: 2 exports with 2 objects each, 2 runs of the server, limits
  with no slack (a record of 600 bytes in one fragment), a VFS that fails,
  returns too much or too little and has times that do not encode. Replies have
  the arms of their unions and describe the right objects
  (`ReplyDescribesCall`); an executed call is answered by its result
  (`ExecutedIsReported`); the write verifier protects data over restarts
  (`NoSilentLoss`); handles stay in their export and run
  (`HandlesStayInExport`); transfers within FSINFO's sizes are not cut
  (`AdvertisedSizesHold`).
* *Directory walk*: up to 4 entries, one with the longest name, 5 counts from
  too small to ample, 2 sets of limits, 1 change. Pages fit, lead on and miss
  nothing that was there all the time (`WalkIsComplete`).
* *MOUNT*: 2 calls of 2 clients on 5 paths, a list of 2 places: two calls race
  for the last place and for the same mount. The list holds what clients were
  told, what they are about to be told, and what a lost reply would have told
  (`ListIsAccountedFor`).
* *Demo stack*: 2 calls of any procedures on 2 names. Attributes before and after
  enclose the change, in both directories of a RENAME (`WccEnclosesChange`), and
  READDIRPLUS pages lead through the directory (`PagesLeadOn`).

Each property of a passing run has a mutant: a change to one definition, such
as a programmer could make, under which TLC finds the property violated
(`PROJECT.json`, `mutants`; the mutated operators stand before the definition
they replace and are marked *Mutation*).

### Fairness

* `ReplayCache`: a lease ends. The code runs every execution under
  `timeout_at(deadline)`, and completes, cancels or drops the lease when it
  ends; `RequestSettles` of `Connection` checks that.
* `Connection`: each of the three futures and each request task that can take a
  step takes one. Reads have `idle_connection_timeout`, queue and socket writes
  `request_timeout`, budgets, permits, duplicates and executions the request's
  deadline. Of a write and of an execution only the deadline is fair
  (`WriteFails`, `ExecutionFails`): a peer may never read, and a VFS call may
  never return. Application code that blocks its thread without awaiting is
  outside this assumption. No fairness is assumed of `Shutdown` or of the
  server's end.
* `Server`: `run`, the portmapper and aborted tasks are polled, the graceful
  deadline passes, executions have a deadline, the tokio mutex in the handle is
  granted in order (strong fairness of `WaitLocks`). No connection need ever
  close by itself.
* `RecordMarking`: writer and reader take the steps they can take.
* `LegacyTransport`: the pump, the reader and the tasks take the steps they can
  take. `RequestSettles` is conditional on the client's window, because
  nothing in the code breaks the circle of waits.

## Proofs

TLAPS checks the proofs from the assumptions of each module only: finitely many
calls, a positive capacity, and replies charged at least their length
(`ReplayConstants`); finitely many requests and positive bounds
(`ConnectionConstants`, `ServerConstants`); the order of the platform's maxima
(`PlatformConstants`); limits that `validate` accepts (`Nfs3Constants`); and that
markers such as `NoVerifier` and `Empty` are none of the values they stand
beside. All other constants are arbitrary: any
number of calls, requests, connections, names, exports, any capacity, budget,
depth and clock bound. TLC evaluates the assumptions in the runs.

| properties | theorems | module |
|---|---|---|
| `CacheAgrees`, `AnswersAreOriginal`, `OverlapNeedsReuse` | `CacheAgreement` (with its parts), `AnswersOriginal`, `DuplicatesNeverOverlap` | `ReplayCacheProofs` over `ReplayCacheLemmas` |
| `OrderIsComplete`, `OrderIsBounded`, `LossIsJustified` | `OrderComplete`, `OrderBounded`, `LossesJustified` | `ReplayOrderProofs` |
| `ServiceSpec` (refinement) | `ServiceImplemented` | `ReplayServiceProofs` |
| `ChargesFollowBytes`, `LeaseHasOwner`, `CleanCloseAnswersAll`, `RepeatsNeverRunTogether` | `BytesAreCharged`, `LeasesAreOwned`, `ClosedIsAnswered`, `RepeatsRunApart` | `ConnectionProofs` |
| `PermitsFollowConnections`, `StopIsComplete` | `PermitsAreExact`, `StopsAreComplete` | `ServerProofs` |
| `ReplyDescribesCall`, `ExecutedIsReported`, `NoSilentLoss`, `HandlesStayInExport`, `AdvertisedSizesHold` | `RepliesDescribeTheirCalls`, `ExecutedCallsAreReported`, `DataIsNotLost`, `HandlesAreScoped`, `SizesAreHonoured` | `Nfs3Proofs` |
| `IndexAgrees`, `FileIdDenotesOneObject`, `RepetitionsAreRecognised`, `StaleStaysStale` | `MapAgreement`, `IdentifiersDenote`, `RepetitionsRecognised`, `HandlesStayStale` | `MirrorFsProofs` |

Every proof has the same outline: an inductive invariant, one lemma per action
that it is kept, the property from the invariant. What the invariants say, and
why the property alone is not enough:

* **Replay cache.** `CacheInv` is about `inner` as a value, so that lemmas can
  follow the value through expire, evict, insert and compaction inside one
  step. `CallInv` is about calls and cache together: leases and in-flight
  entries correspond one to one, waiters are registered where they wait,
  retained replies are those that their leader produced, and if a call's
  generation is not the newest of its request, a generation with another
  fingerprint came between (`Superseded`), which is what makes
  `OverlapNeedsReuse` inductive. Sums of bytes are cardinalities of sets of
  charged bytes, which avoids a recursive sum.
* **Completion order.** `OrderInv`: every completed key has a live position,
  live positions are distinct and ordered by `completed_at`, items are neither
  in flight nor of a generation that is still to come (so a tombstone never
  comes to life), and no completion lies in the future. An operation pops a
  prefix (`Pops`), removes one key, or compacts. From this, what is evicted
  for space precedes all that stays (`OldestFirst`), and what expires has
  outlived its TTL even when the clock was read before the lock. That the order
  stays short counts live positions by an injection into the entries.
* **Refinement.** `SourceView` picks the leader of a call's generation with
  CHOOSE; `Sourced` says that there is one, and `Steady` that a step does not
  change it. Then `BeginWait` is `Join`, `BeginReplay` is `Replay`,
  `BeginRefused` is `Refuse`, `BeginExecute` is `Execute`, `CompleteStore` is
  `Finish`, `Cancel` is `Fail`, `WaiterGone` is `Leave`; `CompleteProbe` and
  `Tick` are invisible.
* **Connection.** `ChargeInv` ties each request's permits to the stages of its
  task, execution and reply; the one gap, a record that `dispatch_record` still
  holds when its execution has ended and given the charge back, is covered by the
  reply budget, and `ChargesFollowBytes` says so; `BudgetInv` bounds the semaphores; `QueueInv` says
  that the two queues hold exactly the requests in the stages for them, each
  once and on its own connection; `CacheInv` that every slot in flight belongs
  to the request that runs it, and every lease to a stage that will end it;
  `EndInv` what a connection on its way to a clean close still owes.
* **Server.** `PermitInv` counts permits over connections that live or are not
  joined; `StageInv` says for each await of `run` what is already joined,
  aborted or dropped; `RequesterInv` who holds the tracker; `WaitInv` where the
  handle's task is while callers of `wait` come, are cancelled and return.
* **NFS procedures.** `CapacityIsExact`, `MutationRepliesFit` (the claim of the
  comment at `limits.rs` 92) and `TransfersFit` are about `Limits` alone.
  `DataInv` says of every acknowledgement on its way, in the client or in a
  pending call that it is true of the run that gave it. `ShapeInv` says that a
  pending result lacks exactly the attributes that the handler still asks for,
  and leaves room for them. Every result is at most 304 bytes long but for READ
  (`TransfersFit`) and READLINK, which is the exception `ExecutedIsReported`
  names.
* **Mirror.** `MapInv` and `CallInv` give the agreement of the map for every
  interleaving of calls, dropped ones included and wherever links lead.
  `ObjectInv` needs more: as long as nothing is disturbed a step is the same step
  on the path itself (`Plainly`), calls beside each other only add, so what a call
  has found stays true; a removal or rename is alone, and while it is half done (`Unlinked`, `Renamed`) the
  invariant says what its remaining map step will restore. `TreeInv` keeps the
  host a tree: what is below a moved directory moves with it and nothing else
  does. `VerifierInv`
  follows `exclusive_verifiers`: a remembered path has an identifier, or a
  CREATE that is about to give it one, because `move_prefix` only moves the
  verifiers of paths that have an identifier.

`FileIdDenotesOneObject` and `RepetitionsAreRecognised` are conditional, in the
definition, on removals and renames having run alone and to their end and on no
path having been resolved through a symbolic link (and, for the latter, on no
CREATE having been dropped). Beyond that they do not hold of the code: it updates
the map after the host, in two steps without a lock over both; and READ and an
unchecked CREATE open what a link points to and reply under the identifier of the
link. `CancellationIsSafe` is the one of these conditions whose absence a doc
comment promises.

### What is only model-checked

* All liveness (`WaiterReleased`, `RequestSettles`, `ConnectionEnds`,
  `ShutdownTerminates`, `RecordArrives`): fairness and ENABLED are out of the
  prover's reach.
* `RoundTrip` and `RefusesExactly` of `RecordMarking`: what the fragments add up
  to is an induction over sequences, which the installed provers cannot
  instantiate.
* `WalkIsComplete` and `PagesLeadOn`: pages are cut by a fold over their
  entries, for the same reason.
* `AllocationIsReserved`, `ListIsAccountedFor` and `WccEnclosesChange`, and
  `TrackerAgrees`, `StallNeedsFullPipes` and `NotRepeatedTooSoon` of the demo
  stack: no principle stands in the way, they are not proved yet.

## Findings

`server_wait_claim`: the doc comment of `ServerHandle::wait`
(`src/server/handle.rs` 61) says "Waits for all listener and connection tasks
to terminate." After an accept error (`mod.rs` 273) or a failed portmapper
(`mod.rs` 304) `run` returns without joining its tasks; they are aborted, which
is asynchronous, and `wait` may return before they are gone. After the
graceful deadline the same is true of portmapper connections (`mod.rs` 318). What
does hold is `StopIsComplete` and `ShutdownTerminates`.

`legacy_one_result`: when the guard of a SETATTR does not match the ctime of the
object, `nfsproc3_setattr` of the demo stack (`src/nfs_handlers.rs` 1511) writes
NFS3ERR_NOT_SYNC and does not return: it sets the attributes and appends a
second reply to the same record.

`mirrorfs_cancellation`: the contract of `VirtualFileSystem` (`src/vfs/mod.rs` 16)
asks that mutations be cancellation-safe. `remove_object` and `rename` of the
mirror change the host and then the map (`examples/mirrorfs.rs` 359, 606). When
the deadline drops the call in between, the map keeps the identifier of a file
that is gone, and the next file of that name is told under it.

Other disagreements that were met while modelling. The models do what the code
does, and no property claims otherwise:

* The comment at the spawn of an execution (`src/server/connection.rs` 356) says
  that both buffer charges are kept until the "request bytes and any constructed
  reply have been released". The execution gives the request charge back when it
  ends, while `record` is a local of `dispatch_record` that lives until the request
  task is polled again (396). `ChargesFollowBytes` names this gap and bounds it by
  the reply budget.
* The comments above the handlers of the demo stack give the parts of each failure.
  An early failure of RENAME has one `wcc_data` for two (`src/nfs_handlers.rs` 1683,
  comment at 1659), a refused handle of SETATTR (1479) or READLINK (2088) and a
  failed FSINFO (451) have nothing.
* A GUARDED CREATE of the demo stack looks the name up and then creates, in two calls
  (`src/nfs_handlers.rs` 1334). When the lookup fails for another reason than
  absence, or another call creates the file in between, it succeeds on a file that
  exists, where the comment says "file exists. Fail with NFS3ERR_EXIST."
* READDIR of the demo stack lists from the start whatever the cookie
  (`src/nfs_handlers.rs` 1002), since `readdir_simple` has no parameter for one.

## What is not modelled

Byte-level XDR (argument decoders are modelled by the handles and names they
yield and by failing, encoders by sizes and by times that do not encode; the
`time_granularity` of FSINFO is taken to encode), GETPORT and the
mount and portmap handlers of the demo stack (no state), the cryptographic tag
of handles (ideal here: a tag verifies exactly if this run computed it), the
limits on time other than as timeouts that may strike, contents and attributes
of mirrored files, links that lead out of the mirrored tree and changes of the
tree by other programs, the byte
budget that connections of the demo stack share, `demo.rs` (each call is one
step under one mutex), tracing.
