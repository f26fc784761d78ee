# A formal model of DRBD

TLA+ models of the parts of DRBD (`src/drbd/`) that decide whether replicated
data is safe, the TLC configurations that check them on small instances, and
TLAPS proofs of the central results for every size.

1. [The system and its modules](#the-system-and-its-modules)
2. [Conventions](#conventions)
3. [Runs](#runs)
4. [Fairness](#fairness)
5. [Proofs](#proofs)
6. [Disagreements between code and documentation](#disagreements)
7. [Abstractions](#abstractions)
8. [What is not modelled](#what-is-not-modelled)

To check: `tlc -config request.cfg MCDrbdRequest` (likewise for the other
rows of the table of runs), `tlapm DrbdRequestProofs.tla` (likewise for the
other proof modules).

## The system and its modules

DRBD replicates a block device. A write of the application becomes a request
on the *transfer log*, goes to the local disk and to the peers, and is
completed when the protocol says so. Writes are grouped into *epochs*, which a
barrier separates on the wire and which the peer must not reorder. The
*activity log* on disk names the extents that may differ after a crash, the
*bitmaps* name the blocks that do differ, and the *data generation UUIDs* tell
a node, when it meets a peer, who has the newer data and whether the bitmap
suffices. A *resync* then copies blocks while writes go on. Changes of role and
of connections are agreed upon by a *two-phase commit* over all nodes that can
be reached.

| module | models | state and actions |
|---|---|---|
| `RequestState` | `drbd_req.[ch]` | Flags, the three reference counts and the caching pointers of requests. `mod_rq_state()` under `rq_lock` is one step; the puts that follow outside of it are steps of their own (`owe[a]` is what thread `a` still has to do). |
| `DrbdRequest` | `drbd_req.c`, `drbd_sender.c`, `drbd_receiver.c`, `drbd_main.c` | Submitter, disk, one sender, receiver and ack receiver per peer, the state engine's walks, retry worker, and what a peer does with the stream. |
| `DrbdEpoch` | `drbd_receiver.c` | The peer's side: epochs, write ordering methods, flushes, barrier acks, `P_CONFIRM_STABLE`, the cleanup after a connection loss. |
| `LruCache`, `DrbdActivityLog` | `lru_cache.c`, `drbd_actlog.c`, `drbd_req.c`, `drbd_nl.c` | The cache of slots; fast path, transactions, completion, suspension, resize, failing disk, crash and recovery. |
| `AlRing`, `AlStable` | `drbd_actlog.c` | The ring of transaction blocks, with torn blocks and the wrap of the transaction number; `AlStable` is the one atomic map it implements. |
| `DrbdQuorum`, `DrbdState`, `DrbdChange` | `drbd_state.c` | `calc_quorum()`, `sanitize_state()`, the validity checks, `finish_state_change()`. |
| `DrbdTwopc` | `drbd_state.c`, `drbd_receiver.c` | Cluster-wide changes: prepare, nested requests through hubs, replies, commit, abort, timers, lost connections. |
| `DrbdUuid`, `DrbdHandshake` | `drbd_main.c`, `drbd_receiver.c` | UUIDs and their rotation; `drbd_uuid_compare()` with all its rules, split brain policies. |
| `DrbdAfterState`, `DrbdExchange`, `DrbdGeneration` | `drbd_state.c`, `drbd_receiver.c`, `drbd_sender.c`, `drbd_main.c` | What a state change sends, the handlers of UUID, state and bitmap packets, and the cluster in which nodes write, crash and meet again. |
| `DrbdInterval`, `DrbdResync` | `drbd_interval.[ch]`, `drbd_int.h`, `drbd_sender.c`, `drbd_receiver.c` | Conflicts of overlapping requests; resync reads, checksums, discards, dagtag dependencies, draining, online verify. |
| `DrbdConnect` | `drbd_transport_tcp.c`, `drbd_transport.c`, `drbd_receiver.c` | How two nodes get their two sockets (`dtt_connect()`), the handshake (`conn_connect()`), and the loss of a connection. |

They compose as follows. `DrbdRequest` extends `RequestState`;
`DrbdActivityLog` extends `LruCache`; `AlRing` is the on-disk side of what
`DrbdActivityLog` treats as an atomic transaction, and its refinement of
`AlStable` is what justifies that. `DrbdTwopc` and `DrbdGeneration` share
`DrbdChange` over `DrbdState` over `DrbdQuorum`. What `DrbdEpoch` says about
barrier acks is what `DrbdRequest` expects of its peers, and the connection
that `DrbdConnect` makes is the pair of ordered streams all others start from.

`PROJECT.json` maps each definition to the source lines it stands for.

## Conventions

* Definitions keep the names of the source. A definition named `X_something`
  right before `X` is a faulty variant of `X`, used to see that a property can
  fail.
* Where several threads act, a step of the model is what happens under one
  lock, or one atomic operation.
* `budget \in Scenarios` is part of `Init` in most modules: a behaviour belongs
  to a scenario, which says what the behaviour may contain (how many losses,
  errors, crashes, commands). One run checks many scenarios, each small, and
  every bound has a name. The scenarios are in the MC modules.
* Fields like `races`, `late`, `window`, `rush` of a scenario bound the
  *schedules*: with them off, two steps that are close in the code happen
  together. Where a property fails with one of them on, this file says so.

## Runs

| run | instance | properties |
|---|---|---|
| `request` | up to 3 requests, 2 peers (protocols C and A), 2 blocks; 10 scenarios: a loss, preemption of a thread anywhere, two peers, suspended IO with resend, disk errors and negative acks, forced detach, flush, two mode changes, two writes of one block with one and two peers | `RefsMatchHolders`: each count is what the flags and the threads in flight hold. `NoLogicBug`: no "Logic BUG" branch, no failing assertion. `WritesFinishInOrder`, `NoBarrierBeforeData`, `AcksAreExpected`: order on the log and on the wire; a barrier ack matches the epoch. `BitmapCoversDifferences`: a block a peer does not have is marked for that peer. `CompletedEpochClosed`: no write joins an epoch after one of its writes has completed. `BioCompletedOnce`. |
| `request_live` | 2 writes, 1 peer, a loss | `EveryBioCompletes`, `LogDrains` |
| `al_crash` | 2 slots, 3 extents, an application and a peer write that both cross an extent boundary, failing disk, suspension, crash | `CrashSafe`: what may differ is in the on-disk bitmap or the on-disk log. `IInv`: the inductive invariant of its proof. |
| `al_admin` | 2 slots, 3 extents, an application write of two extents, another of one of these, a peer write of the third, a resize; the connection stays | `RefsMatchHolders`: a slot is held by the writes that activated its extent. `EveryWriteSubmitted`: each write gets its slots, also when they run out. `AdminEnds`: the resize ends. |
| `ring_wrap` | ring of 3 blocks, window 2, 3 slots, numbers modulo 6 | `RingInv` (inductive), `Reconstructed`: recovery finds the committed labels. `RefinesStable`: the ring implements `AlStable`. |
| `epoch` | up to 3 writes, 6 scenarios over the orderings barrier, flush, drain, none with losses, failing flushes, disks and allocations | `AcksAccepted`, `AckedAreStable`, `EpochAlive`, `OneEpochLeft`, `EveryWriteAcked`, `DisconnectEnds` |
| `twopc` | 4 nodes, one diskless, quorum by majority; 16 scenarios | `OnePrimary`, `CommitUnanimous` (also: no commit that fails locally), `MembersCoverOnline`, `PeersAgree`, `OneQuoratePartition`, and no deadlock |
| `generations` | 3 nodes, 1 block, history of 2; 10 scenarios | `SyncedEqual`: nodes that think they are in sync have the same data and generation. `Mirrors`: both ends decide the mirror image. `NoSilentRollback`: no acknowledged write disappears unless data was discarded on purpose. No deadlock. |
| `resync` | source, target, a third node, 2 blocks; 23 scenarios, with lost connections, reads that fail on the source (and, in a verify, on both nodes) and a failing allocation | `NewestWins`, `DiskExclusive`, `ClearMeansEqual`, `AnswerExpected`, `DrainedClean`, `VerifyTruth`, and no deadlock |
| `connect` | 2 nodes, up to 2 paths, 3 sockets, 2 pending connections; 12 scenarios | `StreamsPaired`: nodes that are C_CONNECTED use the two ends of the same two sockets and agree on version and settings. `OneResolver`: exactly one of them has RESOLVE_CONFLICTS. No deadlock. |
| `find_resize_crash`, `find_stuck_pass` | | Violated, see [below](#disagreements). |

Why the bounds are enough to be of use. The hazards of the request state machine
need one request with two threads, or two requests of which one overtakes the
other; a third request is there for the epoch that is resent or retried. Two
slots for three extents are the least in which a write can hold a part of what
it needs while another one evicts. In `al_admin` the writes need one slot more
than there is: `lc_get()` fails for want of a slot, the cache is starving, and
the resize finds it locked (`lc_try_lock()` fails) while a peer write changes
it; a third write takes the fast path when its extent is hot. The connection
stays there (`PeerCanLeave = FALSE`), because a waiting peer write that is
dropped leaks, see [below](#disagreements), and the bitmap starts all clear or
all set and is neither resynced nor written lazily (`BitmapVaries = FALSE`),
which no slot depends on. The proofs cover every other size of the activity log.
Three blocks with a window of two make a ring wrap in a few transactions, and
the number space of six wraps twice. Four nodes are needed for a request that
arrives on two ways, three for a reconciliation among survivors. Two blocks are
the least with which a resync request can be merged, split, or be half in
conflict. Three sockets are one more than a connection needs: an attempt of each
node crosses another one.

Deadlock is checked where the environment can always go on (`twopc`,
`generations`, `resync`, `connect`: a final stuttering step marks the states
where nothing is left to do). In the other runs the system may stop when the
budget of writes is used up; there, liveness properties say what must have
happened.

## Fairness

Fairness is only assumed for what the kernel and the hardware do anyway.

* `DrbdRequest`: weak fairness of each thread (submitter, sender, receiver, ack
  receiver, workers), of the disk (an IO ends) and of a peer that is connected.
  None for losses, errors, mode changes and commands.
* `DrbdActivityLog`: weak fairness of the submitter, the administrative command
  and the settling of a write, strong fairness of the completion of an extent's
  IO (`AlCompleteIo`), which other steps may disable for a while: the lock of the
  cache is held in turns, and `wait_event()` on it is woken each time.
* `DrbdEpoch`: weak fairness of receiver, ack sender, worker, IO, `tl_release()`
  and `conn_disconnect()`, and a primary that closes its last epoch with a
  barrier.

Nothing is fair for losses, errors, crashes and commands, so no liveness property
rests on them. No run assumes fairness that a lock or a wait queue does not give.

## Proofs

TLC checks an instance; the theorems hold for every value of the constants that
satisfies the named assumptions of the modules. The inductive invariants `IInv`
and `RingInv` are also invariants of the runs `al_crash` and `ring_wrap`.

**The activity log is safe across a crash.** `CrashSafety` (`DrbdActivityLogProofs`):
without a resize, for every number of slots, extents, writes and pending changes,
an extent whose data may differ is in the on-disk bitmap or the on-disk log.
`CrashSafe` alone is not inductive, as it does not say where an extent is that is
in memory only. `IInv` adds, in the order of the argument:

1. `UniqueLabels`, `OneTransaction`, `WaitersHold`: the cache finds one slot for a
   label, one transaction is written at a time, a waiting write holds its slots;
2. `LogMatches`: a slot on disk has the label it has in memory, or its new one
   once the transaction is written;
3. `InFlightHot`: an extent with a logged write in flight has a slot that this
   write holds, with the same label in memory and on disk, so it is not evicted;
4. `UnloggedMarked`, `KnownInMemory`: with the log suspended all bits are set, in
   memory and on disk; otherwise an extent that differs has its bit in memory or a
   logged write in flight;
5. `EvictedWritten`: the bits of a label that is to leave the log are on disk before
   the transaction is, which is why `al_write_transaction()` writes the bitmap first;
6. `KnownOnDisk`: an extent that differs has its bit on disk, or a slot on disk that
   still stands for it. `CrashSafe` follows from it.

The hypothesis `MaxResizes = 0` is needed: `find_resize_crash` shows that
`drbd_al_shrink()` breaks item 5. `AlStepProofs` has the facts about the cache
operations, `AlCrashProofs` one lemma per action.

**Reference counts of slots are exact.** `ReferencesExact`: if all writes are
application writes, a slot is held by exactly those writes that activated its
extent and have not given it back, with resizes, suspensions, failing disks and
crashes. The invariant `RefsInv` (`RefsInvariance`, also with peer writes) says
that a waiting write holds the slots of all extents it has passed (`WaitersHold`),
that one that is ready has passed all (`PendingComplete`), that a submitted one holds
committed slots of all (`SubmittedHold`) and that no application write leaves a
reference behind (`NoneLeft`). The hypothesis is needed: a peer write that
is dropped while it waits keeps what it has (`drbd_receiver.c:3530`, see
[below](#disagreements)).
`TypeCorrect` and `UniqueSlots` come with it.

**The ring is an atomic map.** `RingImplementsStable`, `RingReconstructs`
(`AlRingProofs`): the ring of blocks with a crash or an error in the middle of a
block implements a map from slots to labels that changes in one step. `RingInv`
says that a valid block is as old as its distance from the head, and that for every
slot in use the newest block that names it tells its label and is not older than the
last window over the slot. The block that is overwritten next is the one farthest
from the head, and the window has listed again what only it knew, as
`NrElements <= (RingSize - 1) * Window`. The hypothesis
`TrNumbers % RingSize = 0` is needed: `drbd_actlog.c:312` takes the 32 bit number
modulo the size of the ring.

**No write joins an epoch that has completed.** `CompletedEpochs`
(`DrbdRequestProofs`): for every number of peers, requests, bios and every scenario, all
races included, a write of which the master bio is completed is in an epoch before
the current one; a write submitted later is thus behind a barrier on every
connection. The invariant `EpochInv` rests on what other threads can know:
`MentionInv`, `FlagInv` and `WalkInv` say that the transfer log, the senders, the
disk, the streams and the flags mention only requests that
`drbd_send_and_submit()` has put into an epoch; `SubmitInv` that the one being put
there is known to no other thread; `AllocInv` that requests are numbered one after
the other; `CountInv` that the current epoch counts its writes and none of them
has completed. `drbd_req_complete()` closes the current epoch before it completes
one of its writes (`start_new_tl_epoch()`), which needs the count to be positive.
`RequestStepProofs` proves what one change of a request leaves alone,
`RequestEventProofs` does so for each event and walk, `DrbdRequestProofs` for each
action.

The modules with theorems need no more than the named assumptions of the modules
they extend (numbers are naturals, sets are finite, maps have their domains), and
TLC evaluates these in the runs.

**Model checked only.** Liveness and absence of deadlock (the prover has no rules
for `ENABLED`). `DrbdTwopc` and `DrbdResync`, which walk graphs and lists with
RECURSIVE operators. `DrbdGeneration`, whose properties depend on what the folds of
`drbd_uuid_compare()` and the order of the after-state work compute for a history
(an induction over data). `DrbdEpoch` and `DrbdConnect`, and the other properties
of `DrbdRequest`; these are within reach, but their invariants are larger than those
above.

## Disagreements

Two runs show a property that a comment or a document of the repository states
and that the code violates. `PROJECT.json` quotes the lines.

* `find_resize_crash` (`CrashSafe`): `disk_opts_check_al_size()` lets
  `drbd_al_shrink()` drop the labels of idle extents without writing their bitmap
  pages (`drbd_nl.c:2413`). The next transaction overwrites a slot on disk whose bits
  are in memory only.
* `find_stuck_pass` (`CompletedScheduled`): `drbd_unsuccessful_resync_request()` does
  not look at the requests behind the one it frees (`drbd_receiver.c:10957`), so a
  later one that has completed stays on the list and the pass does not end.

The others below were found with the same modules. To see one, check the
property with the scenario set (or constants) named here; the passing runs leave the
case out and say so in their scenarios.

| where | property, instance | what happens |
|---|---|---|
| `drbd_receiver.c:9670` | `NoHopelessWait`, `TwoWaiting` | `cancel_dagtag_dependent_requests()` leaves its loop after the first request, so only one of several resync reads that wait for a dagtag of the lost connection is cancelled. `:9820`: "Requests that are waiting for a dagtag on this connection must be cancelled". |
| `drbd_receiver.c:9726` | `DrainedClean`, `MergedWaits` | A received discard is merged into its neighbour, and the drain cancels the neighbour while it waits for a conflict; nothing unmerges it, and the `D_ASSERT` of `free_waiting_resync_requests()` fails. |
| `drbd_sender.c:583` | `AnswerExpected`, `TargetReadError`; deadlock, `TargetReadErrorLate` | With checksums and on-io-error pass_on, `w_e_send_csum()` frees a request whose read failed without `rs_sectors_came_in()`: it stays counted in `rs_in_flight`. If another request of the pass is cancelled by the source, the resync waits for the count to become zero and never goes on. |
| `drbd_sender.c:3515` | `LogDrains`, `UnsentDagtag` | A write submitted while a peer is not replicated to advances the dagtag past what its sender sees; the barrier of the last epoch is withheld. |
| `drbd_req.c:745` | `NoBioLost`, `AbortedRead` | A local read aborted by a forced detach is postponed, but never queued for retry. |
| `drbd_main.c:518` | `RefsMatchHolders`, `AbortRace` | `tl_abort_disk_io()` tests `RQ_LOCAL_PENDING` without the lock; one reference is put twice. |
| `drbd_main.c:371` | `AcksAreExpected`, `ResendSize` | After RESEND the peer counts only the write that is sent again, the primary also the one that RESEND has marked done. |
| `drbd_req.c:1016` | `NoLogicBug`, `ResumeAborted` | The late completion of an aborted local IO puts the done reference of a write whose completion is suspended. |
| `drbd_receiver.c:10064` | `NoLogicBug`, `ResumeRace` | IO is resumed before `conn_disconnect()` walks the log: a request that is still queued is marked done. |
| `drbd_sender.c:3641` | `NoLogicBug`, `ReplyRace` | The answer to a read is processed before the sender has marked the request as sent. |
| `drbd_req.c:1361` | `NetStateLegal`, `NetStates` | NEG_ACKED leaves a combination of net flags that the table at `drbd_req.h:112` does not have. |
| `drbd_receiver.c:3530` | `RefsMatchHolders`, `PeerCanLeave`, mixed kinds, wide writes, four extents | A peer write dropped while it waits for the rest of its extents keeps those it has. |
| `drbd_nl.c:2412` | `AdminEnds`, `PeerCanLeave`, mixed kinds, a resize, one slot | LC_DIRTY is left set when a waiting peer write is dropped; the resize waits for it with IO suspended. |
| `drbd_receiver.c:11283` | `EveryWriteSubmitted`, mixed kinds, failing disk, one slot | A peer write that ends after the disk has failed keeps its extents. |
| `drbd_actlog.c:312` | `Reconstructed`, ring of 3, numbers modulo 8 | The position jumps when the transaction number wraps in a ring whose size does not divide its range. |
| `drbd_receiver.c:10087` | `AcksAccepted`, `StaleConfirmed` | `confirmed` of the current epoch survives a loss; the first barrier ack of the next connection counts too few writes. |
| `drbd_receiver.c:2043` | `AckedAreStable`, `NoEpochMemory` | An epoch that is used again because there is no memory keeps the flags of before. |
| `drbd_receiver.c:1547`, `:2893`, `:3535` | `AcksAccepted` `StaleNumber`; `EpochAlive` `FreedEpoch`; `OneEpochLeft`, `EveryWriteAcked` `LateCleanup` and `BarrierLoss` | Events applied to an epoch while `epoch_lock` is given up, or while the clean up after a loss is under way. |
| `drbd_state.c:5536` | `CommitUnanimous`, `LateWork` | The work that answers an aborted transaction runs during the next one and says yes for it. |
| `drbd_state.c:2517` | `MembersCoverOnline`, `SplitDisconnect` | A disconnect that splits the cluster leaves members that the other half does not know. |
| `drbd_receiver.c:7123` | `SemaphoreBalanced`, `LostHub` | The semaphore of the state changes is released once too often. |

Observations that no run states as a property:

* Two-phase commit: a participant's timer that fires while the commit is on its way
  leaves the nodes with different views (so `twopc` has no such timeout); the header
  comment says a busy node "replies with P_TWOPC_NO", the code replies RETRY;
  OUTDATE_ON_2PC_COMMIT is not cleared when a transaction is aborted locally; quorum
  is computed before a crashed Primary is taken into account;
  `cleanup_remote_state_change()` may return without release.
* Generations: the link may be lost between the P_UUIDS and the P_STATE a target
  sends at the end of a resync; no new current UUID is made then, and the nodes
  drop their bits at the next handshake (`budget.told` excludes it). A write right
  after a reconnect may be lost for the node that has come back (`budget.rush`).
  The comment at `drbd_receiver.c:9859` says NEW_CUR_UUID stays set until the
  generation completes, but it is cleared before the pings (`budget.window`).
  `drbd_receiver.c:8321` tests `peer_device->flags` for UUID_FLAG_CRASHED_PRIMARY, whose
  bit is RESYNC_AFTER_NEG there, and so it is modelled. A bitmap that
  overtakes P_STATE after a forced promotion leaves both ends in WF_BITMAP.
  `attach_handshake()` returns on undetermined strategies before its split brain
  code. Both disks UpToDate make both ends SYNC_TARGET in
  `resolve_splitbrain_from_disk_states()`.
* Resync: the waits of `check_resync_source()` do nothing, against the comment at
  `drbd_receiver.c:6697`; a wakeup can be lost between `need_to_wait_for_dagtag()` and
  `list_add_tail()` (`:3743-3756`); `cancel_dagtag_dependent_requests()` does not
  give back `unacked` and the disk; `got_OVResult()` without a disk leaves
  `rs_pending`; a failing submission in `read_for_csum()` leaks;
  `make_one_resync_request()` puts a reference to the disk that it has not taken when
  there is no memory, and `make_resync_request()` puts its own as well;
  `drbd_peer_resync_read_cancel()` of a verify read decrements `rs_pending` twice.
* Epochs: a barrier write that fails is submitted again (`drbd_sender.c:162`), and
  both completions decrement `active_ee_cnt`; REQ_PREFLUSH of the "barrier" ordering
  does not cover writes in flight.
* Requests: `drbd_conflict_submit_write()` passes no bio to
  `drbd_req_put_completion_ref()` (`drbd_req.c:2247`), which uses it when the device
  fails all IO meanwhile.
* Connect: crossed sockets can leave both nodes past `dtt_connect()` with sockets
  that do not match; only the packets on both streams find out. A child socket
  that was not accepted inherits `dtt_incoming_connection()`, so that
  `pending_accepts` is counted twice when it is closed.

## Abstractions

Data is reduced to what the properties tell apart; control is kept. What is left
out of a module that is in the code it models:

* `DrbdRequest`: requests are numbered in the order of the log; P_OUT_OF_SYNC is not
  on the wire (its effect is); read balancing is a choice; `cached_err_io`,
  `fail_io`, Ahead mode, the peer ack queue, plugging, kref. Lost wakeups cannot
  happen in the model. Bits are not cleared by a resync. One submitter.
* `DrbdEpoch`: one volume; a write is received when it is sent; the completion of a
  write appends to `done_ee` and decrements `active_ee_cnt` in one step. No write
  acks, conflicts, two Primaries, reattach, failing allocation of the flush work,
  reissued barriers.
* `DrbdActivityLog`: a reference count is the set of its holders; a resize keeps the
  number of slots; one peer; a bit of the bitmap per extent. No DAX, no heuristics of
  the submitter. The recovery (`drbdmeta apply-al`) is external. `Init` is the state
  after attach.
* `DrbdTwopc`: one volume, protocol 118 and later, no fencing, one Primary, no
  openers; a packet is processed in one step; one connect work per node; sends of
  the after-state work are on the stream with the change; no resize, no UUID
  packets. Timeouts are free when nothing is in flight, bounded otherwise.
* `DrbdState`: one volume; no `fail_io`, `susp_user`, `susp_uuid`, resync-after, DEVICE_SEEN
  and similar flags; a resync that is refused is one error; reads from a peer are
  allowed; peers are visited by node id.
* `DrbdUuid`, `DrbdHandshake`, `DrbdAfterState`, `DrbdExchange`, `DrbdGeneration`: protocol
  124 and later, one volume; a UUID is a number with bit 0 as in the code, the
  history has no zero slots; no dry run, no bitmap IO error, no Ahead/Behind, no
  verify; whether the Primary can step down is an input of a policy; after-state
  work happens with the change, the bitmap last; cluster-wide changes are atomic;
  resync of a block is one step; one write in flight per node. Quorum is off, so
  PRIMARY_LOST_QUORUM is never set. A disk that is negotiating its state at attach
  is not reachable.
* `DrbdInterval`, `DrbdResync`: the tree is the set of its intervals; one resync, at most
  one third node, protocol C; no activity log, write errors, detach, throttling,
  Ahead/Behind, old peers. A node keeps its disk after a read error (on-io-error
  pass_on), and each node of `budget.readerr` has one. A failing allocation in
  `w_e_send_csum()` makes the sender drop the connection, so it is one of the losses.
  No flush is pending when a pass ends (`drbd_any_flush_pending()`), and the target
  is replicated to from the start: the passes that `drbd_resync_check_finished()`
  repeats to enable `peer_replication` are left out. The conflict worker picks in
  any order. A timer call that changes nothing is left out, so that a hang is a
  deadlock.
* `DrbdConnect`: two nodes, one connection; connecting and sending the first packet
  are one step; an attempt beyond the bounds gets no answer; a handshake packet is
  its type, its contents the configuration of the sender; the commit of the connect
  is prepare, yes, commit, and a late answer to an old prepare is not sent. Receive
  timeouts are bounded by the scenario where the peer would answer, and free where
  it does not have the other end. No TLS, no listener shared between connections,
  no peers before protocol 110.

## What is not modelled

The in-memory bitmap and its page IO (its bits and when they are written are),
the run length code of the bitmap transfer, the load-balanced and rdma transports and
the IO of the TCP transport, the checks of the configuration in `drbd_nl.c`, the
controller of the resync rate, peers that speak protocols before 110, DAX, and what
only prints: proc, debugfs, kref debugging, and the 8.4 compatibility. The
components of `PROJECT.json` list these with their sources.
