# Crystalline: a verification development

Crystalline keeps the knowledge of a person or a team as markdown files
(*engrams*) in *domains*, derives a search index from them, and serves them to
people (a web UI) and to agents (MCP), who may edit one document together. One
daemon per machine holds the database; every other process talks to it
(`docs/architecture.md`). This directory models the parts of it whose
correctness depends on the order of concurrent steps. Paths below are relative
to `src/`; `session.rs`, `changes.rs` and `events.rs` stand for
`crates/engine/src/collab/session.rs`, `crates/engine/src/changes.rs` and
`crates/rest/src/events.rs`.

Contents: [the system](#the-system) ·
[what is modelled](#what-is-modelled) · [the runs](#the-runs) ·
[fairness](#fairness) · [what is proved](#what-is-proved) ·
[only model-checked](#what-is-only-model-checked) ·
[disagreements found](#where-the-code-and-its-comments-disagree) ·
[not modelled](#what-is-not-modelled)

## The system

Eight Rust crates and a TypeScript web UI. `core` is the format; `index` the
derived database; `remote` everything that talks to a forge; `identity` accounts
and access; `engine` the verbs, drafts, co-editing and automations; `rest` the
JSON API; `service` the daemon; `cli` the binary; `fluid` the web UI.

### Components

Each entry: its state, its operations, whom it meets, what is hard, and what
makes it correct. `PROJECT.json` lists the same components with their sources.

**Co-editing room** (`session.rs`, `crates/rest/src/collab/ws.rs`). One room per
open document, behind one async mutex.
*State*: the CRDT document and its participants; `last_saved_text` and
`checksum`, the base and compare-and-swap token of the next save; `save_state`
(ok, failed, conflict), the pending conflict, `dirty`, `oldest_unsaved`,
`flush_requested`, `closed`, `final_saved`, and outside the mutex `disposed`.
*Operations*: join, update, flush, resolve, leave; the saver's tick with its
debounce, retry spacing and idle probe; the save pass (two attempts, with a merge
between them); the last save of whoever leaves last; the sweep of a domain that
goes away; an agent's edit that is composed into the live text; absorbing a file
that an engine verb wrote.
*Meets*: the registry, the engine's write verbs, the file, its index row, the kept
folder.
*Hard*: a save holds the mutex over several awaits while the file, the row
and `disposed` move; teardown is three critical sections; a MANIFEST's
save gives its mutex up half-way.
*Correct when* no save overwrites what no merge has seen; typed text is saved,
kept, or still on its way; a conflict can always be resolved; an unedited room
writes nothing; an emptied room goes.

**Three-way merge** (`crates/engine/src/collab/merge.rs`). A pure function. *Correct
when* one side's change wins where only one changed, and a line both changed
differently is a conflict, never markers in the text.

**Room registry** (`session.rs`, `engine/mod.rs`, `engine/move_.rs`). *State*: rooms by
key, epochs, fenced documents, rooms that moved. *Operations*: join or open, dispose,
rekey after a rename, sweep, fence a move and lift the fence. *Hard*: lock order
registry → session → file; caps `MAX_SESSIONS` and `MAX_PARTICIPANTS`; disposed
rooms still filed; a save that renames and the rekey after it are two critical
sections. *Correct when* a document has at most one live room, at its address, no
emptied room stays, and every member of a closed room hears exactly one reason.

**Change bus** (`changes.rs`). *State*: epoch, sequence, ring of 512, broadcast
channel of 1024, the newest `engram` event, recent `reflection` events, captured
audiences. *Operations*: announce, subscribe, replay after an id. *Hard*: ids
across restarts, eviction, dropping an echo of the wrong event. *Correct when* id
order, ring order and channel order are one, and what is dropped as an echo was
one.

**Event stream route** (`events.rs`). *State* per stream: receiver, backlog, a pending
reset, last id sent, visibility cache. *Operations*: acquire a slot, catch up from
`Last-Event-ID`, serve, lag, recheck, close. *Meets*: the bus, the account records,
the browser. *Hard*: subscribe and replay overlap; a reconnect may lose frames; access
changes under an open stream. *Correct when* a browser hears of everything it
may hear, in order, or is told to refetch.

**Threads file announcements** (`engine/threads.rs`, `engine/reflection.rs`,
`engine/mod.rs`). *State*: the checksum last walked or written per page. *Operations*:
write a comment, walk a domain, a targeted pass. *Hard*: overlapping passes read
and announce at different times. *Correct when* the tabs end up showing the
file.

**Web UI event hub** (`fluid/src/events`). The tabs of one browser elect the one that
holds the stream. *Correct when* one tab holds it and every tab is told of a reset.

**Automation leases and runs** (`engine/automation.rs`, `index/src/turso`,
`cli/src/automation/run.rs`).
*State*: a lease per domain and loop with its holder and expiry, what a run wrote, run
records. *Operations*: take, renew, note, share, record, release, status. *Hard*: what is
due and what is a person's unshared work is read before the lease is taken; an
expired runner comes back. *Correct when* one runner records a run and a
person's work is never shared as the run's.

**Automation triggers** (`service/src/automation_trigger.rs`). *State*: per domain and
loop a slot: armed, urgent, in flight, backoff; a rate window. *Operations*: a look
(of a change, a tick, a due timer), a delivery with its retries. *Hard*: a send that
becomes due while one is in flight, while the window is closed, or while a run
holds the lease. *Correct when* work that is due is eventually sent and no window
is exceeded.

**Domain rename** (`engine/rename_domain.rs`, `engine/src/rename.rs`). *State*: a
journal, the pause and its count of writers, the frozen spellings. *Operations*:
nine idempotent steps, resumed at the next start or by a resend. *Meets*: every
write and sync pass that names the domain. *Hard*: a crash between a step and its
journal entry; a writer between its name lookup and its count; a drain that times
out. *Correct when* every rename ends with one name everywhere, and no write lands in
a half-moved domain.

**Instance lock** (`service/src/instance.rs`, `client.rs`). *State*: `service.lock`,
`service.json`, `service.sock`. *Operations*: take, serve, release; a doctor's
clean-up; a client's dislodging. *Hard*: the file is removed while it is locked, so a
process may lock a file that has no name. *Correct when* one process owns the
index, and nobody removes a serving daemon's files.

**Index sync** (`index/src/sync.rs`, `engine/sync.rs`). *State*: rows, file stamps.
*Operations*: a scan without the store lock, an apply in one transaction, a targeted
pass. *Hard*: the scan is stale when it is applied. *Correct when* it drops only rows
whose files were deleted.

**Host lock of a shared database** (`index/src/hosting.rs`, `engine/fence.rs`).
*State*: which instance hosts a domain's files, until when, under which token; a mark
of a host move. *Operations*: claim, heartbeat, take over, release, the fence in
every write's transaction, putting back what a refused write left. *Hard*: a host
sleeps past its lease; a command claims beside its daemon. *Correct when* rows and
files are never written from two sides.

**Engine verbs** (`engine/write.rs`, `edit.rs`, `move_.rs`, `doc_file.rs`). Validate,
normalise, take the path's lock, compare and swap, index, announce.

**Draft overlays and review** (`domain_view.rs`, `overlay_journal.rs`,
`overlay_files.rs`, `review_mode.rs`). *State*: per account and path a row (a draft or a
deletion of the team's page) and its mirror under the state directory (a file, or a
`.tombstone` sidecar). *Operations*: save, delete, move, restore an engram; discard,
withdraw, resolve, converge with the team's folder; put back the rows of a rebuilt
index. *Meets*: the folder's pulls, a sync, a share. *Hard*: row and mirror are two
writes; a crash falls between them, a move has two pairs of them, and what drops a
draft takes other locks than what writes one. *Correct when* a rebuild of the index
loses no draft and revives no dropped one.

**Origin pull and share** (`remote/src/ops.rs`, `state.rs`). Files, base copies, a
state file. *Correct when* an interrupted pull is not read as the user's changes.

**Reflection backup** (`reflection_backup.rs`): marks and holds; a change marked
during a backup keeps its mark. **Sign-in state and throttles**
(`pending.rs`, `login_throttle.rs`): bounded stores, escalating delays. **OAuth
grants** (`oauth.rs`, `auth_store.rs`): rotation and replay. **Accounts, roles,
joins** (`identity`), **connected servers** (`remote/src/mounts.rs`, `fanout.rs`),
**format** (`core`), **stores and search** (`index`), **routes, MCP tools, daemon**,
**command line and pages**: mostly sequential, see
[what is not modelled](#what-is-not-modelled).

### How they interact

A verb takes its path's lock, writes the file, commits its row, drops the store lock
and announces on the bus; a sync pass announces what it found. Rooms save through
the same verbs and are told of a verb's write (`absorb_file_change`), so an edit of an open document
is first tried on the room (`apply_source_edit_staged`). The lock order is
registry, then session, then file, then store. Streams receive from the bus; the
sweeps that unregister, rename or switch a domain close its rooms first.

## What is modelled

| module | models | state ↔ code |
|---|---|---|
| `CollabText` | texts, line endings, spelling normalisation, the parse gate, `three_way` | `Text` is the room's LF text, `Content` the bytes of a file |
| `CollabRoom` | one room from the join that opened it until it is gone | below |
| `CollabRoomProofs` | theorems about `CollabRoom` | |
| `ChangeRing` | `ChangeBus`: sequence, ring, replay | `log` all events of the epoch, `oldest` the ring's front |
| `ChangeFeed` | abstract: what a browser is promised | |
| `EventStream` | `GET /api/v1/events` and its browsers | `phase`, `receiver`, `from`/`upto` (backlog), `owesReset`, `lastSent` are `Subscriber`'s fields; `lastId` the browser's |
| `EventStreamProofs` | theorems about `EventStream`, and about `ThreadsFeed` | |
| `ThreadsFeed` | one page's threads file and its announcements | `remembered` is `reflection_walks`, `latest` is `recent_reflections` |
| `AutomationLease`, `AutomationLeaseProofs` | the lease of one loop and its runs | `lease`, `history` are `automation_lease`, `automation_run`; `run[r]` the runner's process |
| `TriggerSlot` | one slot of the webhook task | `slot` is `slots[(domain, loop)]`, `flight` its delivery tasks |
| `Ownership` | abstract: at most one owner of the index | |
| `InstanceLock` | the service lock's files | `path`, `lock`, `fd` are the inode at `service.lock`, its lock, each process's open file |
| `DaemonProofs` | theorems about `InstanceLock`, and about `TriggerSlot` | |
| `DomainRename`, `DomainRenameProofs` | one rename beside writers and passes | `where[s]` the names the store of step `s` keeps the domain under; `journal` the rename's file |
| `CollabRegistry`, `CollabRegistryProofs` | the rooms of one domain by key | `held` is `sessions`, `fence` is `moving`, `room[r]` a `CollabSession` |
| `HostMove`, `HostMoveProofs` | host lock, host move, complete walks and the fence | `lock`, `last`, `mark` are `domain_lock`, `last_domain_host`, `domain.host_move`; `lease` is `claimed_tokens` |
| `OverlayMirror`, `OverlayMirrorProofs` | the drafts of one account, their mirror and a rebuilt index | `row` is the overlay's rows, `file` and `side` the mirror, `base` the team's folder, `pass` a sync's restore |
| `MC*` | model values and symmetry of the runs | |

`EventStream` EXTENDS `ChangeRing`, whose bus it consumes, and instantiates
`ChangeFeed` as `Feed`; `InstanceLock` instantiates `Ownership` as `Promise`.
`CollabRoom` EXTENDS `CollabText`. `CollabRegistry` is the outside of the rooms whose
inside is `CollabRoom`: its `room[r].disposed` is `disposed` there, its `Leave` ends
in that module's teardown. `DomainRename` and `HostMove` each have the writes and passes
of one domain, seen from what can take the domain away from them.

### CollabRoom

*Actors*: the sockets (`Join`, `Type`, `Answer`, `Flush`, `Resolve…`, `Leave`), the
saver task (`SaverDue`, `SaverDisarms`, `SaverProbes`, `SaverResumes`), the teardown of
each last connection (`FinishSaves`, `DisposeIfEmpty`), a sweep (`SweepStarts`,
`SweepSaves`, `SweepCloses`), an agent's edit (`AgentReads`, `AgentComposes`,
`AgentRefused`), an engine verb's write absorbed (`Absorb`), a panic (`Poison`), a
join that replaces a dead room (`Replace`), and the world: `OutsideChange` of the file and
`IndexSync` of its row, at any time, also while a save holds the mutex.

*The mutex.* `at` is the next step of its holder and `"free"` when there is none. A save
is `check → write → read → check → …`, one step per await in `save_locked` and
`save_attempt`; `tries` counts its two attempts. What does not take the mutex in the
code (the file, the row, `disposed`, the sweep's close) is not guarded by it here.

*Abstractions.* A text maps `Lines` to `Values`: a line is a region the merge treats as one
hunk. A value may be an alias a save respells (`Alias`) or something that keeps the text from
parsing (`Broken`). A checksum is the content it is the checksum of. The CRDT is the text it
yields: two concurrent updates are two steps. Time is left out: a timer that ran out is
a choice of the saver, so every interleaving of debounce, retry and probe is included.
`dirty` and `oldest_unsaved` always move together and are one variable.
A MANIFEST's save may or may not give its mutex up (`Manifest`), as the switch it
depends on may stand either way. The check of `disposed` before the
lock in the compose and absorb paths is one step with the lock. A transient
refusal of the engine is a bounded `Fault`.

*Observers.* `ended` says what ended the room. `slips` remembers, since the last save
that landed, the few things after which a property is known not to hold; every use in
a property is one of the disagreements listed below, or `late` (typed or decided after a
sweep's save, which the code leaves to the editor as a draft), or `mine` (the room chose
to write its text over somebody else's).

*Left out of it*: rooms over a Reflection page or a draft, guests, agent presence, a
permalink that changes while the room is open, a view that cannot be resolved (a domain
is unregistered only after its rooms are swept), panics inside a write, several
incarnations of the room (the registry's module).

### EventStream and ChangeRing

An event is the set of clients that may hear it, fixed when it is announced; the visibility
cache, revocation and captured audiences are for a later module. Announcing is one
step because the code stamps, rings and sends under one mutex. Subscribing and reading the
ring are two steps (`Subscribe`, then `StartLive` or `CatchUp`), as in `stream_events`.
`Frame` has the code's three outcomes: already sent, sent or not for this session, and
dropped because its session could not be re-resolved, which `events.rs`
documents ("A re-resolution that fails drops the event it was made for") and
`missed` therefore does not count. A frame that is written and lost with its
connection counts as not written. `Restart` starts another epoch; what changed while no
daemon ran is the 0 in `missed`. A browser that opens its first source has
just loaded its page, and one that opens a new source refetches (`hub.ts`).
The total cap on streams is modelled, the cap per account is not.

`ChangeFeed` states the promise without rings, channels and ids: a client hears of the
*first* change it missed, or of a refetch, and what it missed waits while it is
away. The refinement maps `count` to `Len(log)` and `on` to the clients whose stream is open.

### ThreadsFeed

One page whose threads file has no row. A verb writes, remembers, announces, in three
steps under the page's lock; a pass reads, compares or remembers, and announces, in
two or three, and passes overlap. A walk announces only what differs from
`remembered`; a targeted pass always announces. The bus drops a checksum equal
to the newest one in its window, and `WindowPasses` may happen at any time. A tab
that hears an event rereads the file at once. Left out: the collapse of a
burst, the first walk after a start or a switch, a write refused by the host fence.

### AutomationLease

A take reads the status (`Look`) and compare-and-sets the row (`Take`); an answer that
is lost leaves the row without the runner knowing (`TakeUnheard`), a daemon that
dies between the release of the old row and the record of it tears the history
(`TakeTorn`, `RecordTorn`). A lease that is not renewed lapses at any moment
(`Lapses`), so a runner comes back at every point after another took over. `McpWrites` and
`NoteWritten` are two steps, because the note is sent after the write answered.
`ShareLists`, `SharePushes`, `ShareNotes` are the share of a finishing run, and
`Record` its retries after lost answers. *Observers*: `wrote`, `shared`,
`torn`, `told`. `Raced = FALSE` keeps files from changing between a take's look and
its claim; `SharesOnlyWhatWasClean` fails without it, see below. *Left out*: the runner
itself, history trimming, a start from the web UI, the status texts.

### TriggerSlot

Three clocks and an event can ask for a look (`OnChange`, `OnLag`, `LeaseTick`,
`EvolveTick`, `DueLook`), and every look reads the same status and takes one of
`LookOff`, `LookBacksOff`, `LookRuns`, `LookNothingDue`, `LookNotYet`, `LookHolds`,
`LookSends`, in the code's order. A delivery posts, retries, yields to a run that
starts, or breaks; `Delivered` is its report. Timers have no instants: an armed timer may
fire, and each window closes by a step of its own (`RateEnds`, `WaitEnds`, `QuietEnds`,
`BackoffEnds`). `odd` counts what the code gives up on: a trigger read as off, a
status that could not be read, a run that fits between two ticks, a lag before the
first of them. `WorkIsTold` and `cut` exempt exactly those, see below.

### InstanceLock and Ownership

A lock is on an inode and `path` may name another one. `Open`, `TryLock`, `Check` (is
the locked inode still at the path?), `Bind`, `Publish` take it; `Unrecord`,
`Unsocket`, `Unname`, `Unlock` give it up, in the code's order, and `Dies` may stop a
process between any two. A doctor takes the same lock to clean up. `Dislodge`, `Kill`,
`SeesRecord`, `CleansRecord`, `SeesFree`, `CleansSocket` are a client's dislodging of a
daemon that does not answer. Pids are not reused. *Left out*: Windows, a newer version
that displaces an older one, readiness polling. `Raced = FALSE` keeps a daemon
from taking over between a look of that clean-up and its removal. `Ownership` says what the lock is for; the refinement maps
its owner to the process whose lock is on the file at the path.

### DomainRename

`Ask` and `Resend` are the two ways a rename begins, `Pause`, `Drained` or
`DrainTimesOut`, `SaveJournal`, then `RunStep`/`NoteStep` per step, `Publish`,
`RemoveJournal`, `Resume` its course. `RunStep` moves one store, `NoteStep`
journals it; a `Crash` between the two runs the step again. `Dropped` is the
request's future being dropped at an await (a client that disconnects), which
`DropsAt` places. `Start` resumes what the journal left. A writer looks its domain up
(`Localize`), waits for a pause (`WaitClear`, `WaitTimesOut`), is counted (`Count`),
looks at the pause again (`CheckPause`), writes and leaves; a pass does the same
without waiting. Constants name what is excluded: `Stale` (a pass may hold a name that
is gone) and `DropsAt` with `"drain"`. *Left out*: journals of another index, captured
audiences, the reasons rooms close with, origin locks, a rename that changes case
only.

### CollabRegistry

What happens under the registry's lock is one step; `CollabRoom` has the inside of a room.
`JoinOpen`, `JoinOpens`, `Leave`, `DisposeIfEmpty`, `Poison` are the life of a room;
`SaveRenames` and `Rekey` the two halves of a save that moves its document's address
(the write, then the map); `CloseForMove`, `MoveSaved`, `MoveCommits`, `MoveTells`,
`MoveDrops`, `MoveCancelled`, `MoveOrphaned`, `OrphanEnds` a call of `move_engram`,
which a client may drop while its final save goes on; `SweepBegins`, `SweepRefused`,
`SweepCollects`, `SweepCloses`, `SweepEnds` an unregistration. `Raced` is what may come
between the two halves of a rename. *Left out*: the
memory of where a moved document went, rooms over Reflection pages and drafts (keys of
their own), the sweeps of review mode and of a domain rename.

### HostMove

A transaction of the shared database is one step; what lies between two is where
an instance can lose the domain. `WalkBegins` claims and takes the snapshot of the
rows, `WalkScans` reads the disk without a lock, `WalkApplies` drops and adds rows
and may resolve the move. `WriteGated`, `WriteFile`, `WriteLands` or `WriteRefused` are
a write: the gate, the file, and the transaction with the fence. `Lapses`,
`Renews`, `Stops`, `Crashes`, `GivesBack` are the lock's; a command (`Cmds`)
claims under its machine's instance id, with a token of its own. Disks are one per
instance or one volume of both. `had` says which files each disk has or had:
an observer that tells "deleted here" from "never here".

*Abstractions.* A targeted pass is one step and reads no mark, and a deletion by hand is
seen by its watcher before the row changes again. An accept is chosen at the apply.
A write turned away at the gate is a `Renews` that holds nothing. Two writes of one
file do not overlap on a shared volume, the check and the write of a put-back are one
step, and a change by hand under a write is neither its deletion nor its own text:
the code compares contents there and cannot tell those apart. *Left out*: unreadable
folders, moves of files a walk finds, the pause of a rename (`DomainRename`), parse
failures, labels, writes of commands.

### OverlayMirror

A call is a list of decisions `[path, value]`: a draft (a text), a tombstone, or the
decision taken away. `Order` is the code's: the row first when something is decided
(`put`), the mirror first when it is dropped (`clear_row`), so that a crash
leaves a mirror that lags, and never one that revives what was dropped. `LandRow`,
`LandDraft`, `LandSidecar` are its three parts. `Save`, `Delete` and `Move` hold the
draft locks of their paths; `ResolveMerged`, `Discard` (also a withdrawal, a resolution
with the team's text, and a convergence that found the folder caught up) and
`FollowBase` hold the origin's lock only, `RestoreEngram` none. A move is two
decisions, and `PutBack` what a refusal of the second one undoes. A row that does not
land refuses the call (`DecisionFails`), a mirror that does not is a warning
(`MirrorFails`), a removal is refused at either (`RemovalFails`). `Crash` may stop a call
between any two writes, `Wipe` rebuilds the index while no daemon runs, and
`RestoreBegins`, `RestoreEntry`, `RestoreFails` put rows back where there are none,
under the store's lock, so that no row lands in between.

*Observers*: `told` and `kept` are what the answers so far let a caller expect of the row
and of the mirror; `raced` the paths where two calls overlapped, which the locks allow
(see [below](#where-the-code-and-its-comments-disagree)). *Left out*: several accounts, spellings that differ in
case only, drafted attachments, share-links, leaving review mode, unregistration, the
links that a move rebases, the record a convergence keeps.

## The runs

State counts are distinct states, found with two workers. All bounds are guards
(`MaxEdits`, `MaxOutside`, `MaxFaults`, `MaxTakes`, `MaxIncidents`, `MaxClaims`, …), so no
run uses a state constraint. Deadlock checking is off where the system really stops: a
room ends, a process runs once, claims and changes run out, drafts rest. It is on for `threads`
and `trigger`.

| run | instance | states | checks |
|---|---|---|---|
| `room_sockets` | 2 sockets, 2 lines, 2 values, MANIFEST, 2 edits, 1 outside change; symmetric | 2 583 088 | `NothingLost`, `UneditedNeverSaves`, `ComposeTouchesItsLine` |
| `room_outside` | 1 socket, 1 line, plain/alias/broken values, 1 edit, 2 outside changes, 1 fault | 3 510 960 | `TokenMatchesBase`, `NothingLost`, `ConflictIsResolvable`, `UnsavedIsArmed`, `SaveOverwritesOnlySeen`, `WritesAreEngrams` |
| `room_manifest` | 2 sockets, MANIFEST, plain/broken values, 1 edit, 1 fault, `FairSpec` | 236 361 | `OverStartsNoSave`, `UnsavedSettles`, `EmptiedRoomGoes` |
| `events` | 1 browser, ring 2, channel 2, 5 changes, 1 restart, 1 fault, `FairSpec` | 61 413 | `DrainedMissedNothing`, `FollowsFeed`, `StreamCatchesUp` |
| `threads` | 4 contents, 2 passes; symmetric | 44 745 | `TabsAreCurrent` |
| `lease` | 2 runners (an account's and the owner's), another account, 1 file, 2 takes, 2 faults, 2 tries of a record | 339 756 | `RecordedOnce`, `EveryRunIsInHistory`, `SharesOnlyOwnWrites`, `SharesOnlyWhatWasClean` |
| `trigger` | a reflect or an evolve slot, threshold 2, 2 tries, 2 deliveries, 1 fault or odd step, `TriggerFairSpec` | 439 890 | `CapHolds`, `OwedIsKept`, `WorkIsTold` |
| `lock` | 3 daemons, 1 doctor, 2 clients, 5 inodes; symmetric | 29 952 | `OwnersFileIsNamed`, `ServingIsFound`, `Exclusive` |
| `rename` | local and full, 2 writers, 1 pass, 1 crash, 1 fault, 2 places to drop, `FairSpec` | 94 667 | `OneName`, `HeldWithReason`, `LandsInWholeDomain`, `LeftoverGoes` |
| `registry` | 1 document, 2 addresses, 3 rooms, 2 connections, 2 moves, 2 incidents; symmetric | 1 147 030 | `OneRoom`, `RoomsKeepTheirAddress`, `NoEmptyRoomStays`, `EveryoneIsTold`, `SweepIsFinal` |
| `host` | 2 instances, 1 command, 2 disks or 1, 1 engram, 2 texts, 3 claims, 1 write, 1 change by hand; symmetric | 2 005 190 | `UnmarkedIsWhole`, `ReleaseFrees`, `LandedStays` |
| `drafts` | 2 paths, 2 texts (1 of them in the folder), 2 calls, 2 faults, 1 rebuild, 1 pull, `FairSpec` | 420 482 | `DecisionsStand`, `DraftsComeBack` |

*Why these bounds.*
**Rooms.** Sockets meet only through the room's mutex and the count of
connections, so two are enough for every race of teardown and join (three exist
only to repeat one of the two roles). Two lines give a merge that succeeds, one
gives a collision. A save makes two attempts, so two outside changes outrun it.
`room_outside` has one line so that everything collides, and the values a save
must respell or refuse; `room_sockets` has two lines and no such values;
`room_manifest` gives the liveness properties two racing teardowns and a sweep, with the
mutex given up inside each of them.
**Streams.** One browser is enough because browsers meet only in
the cap on streams, and the theorems hold for any number. Ring and channel of two and five changes
include a backlog evicted while it is away, a lag, a lag inside a backlog, and a
reconnect after each. Two overlapping passes beside a verb give every order of read
and announce; three more contents than the initial one let each of them read a different one.
**Leases.** Two takes are one runner that lost its lease and the one that has it, or one
runner twice; two faults are a lost answer on each side of a takeover, and two tries of a
record are the one whose answer was lost and the one that meets its own row. An
account and the owner are the two ways a run finds its files.
**Trigger.** A threshold of two has a count below it, at it and above; two tries are a
failure before and a failure at the end; two deliveries are needed because a slot turned
off forgets the one it has.
**Lock.** Three daemons are an owner, a contender that locked a file that has no name any
more, and one that takes over; five inodes are never exhausted by four processes.
**Rename.** A crash and a fault together are a rename resumed once by a start and once
by a resend. Writers interleave with every step, and two of them keep a drain waiting
while one is turned away.
**Registry.** Two addresses are there and back, three rooms are a corpse, its successor and one
opened behind a move; two moves are one that is cancelled and one that comes after it;
two incidents are any two of rename, panic, deletion and sweep. Two
documents and three addresses were explored to 2.7 million states outside the list
without a violation.
**Host.** Three claims are a take-over and a way back, or a command beside a daemon and
a take-over. One write and one change by hand are a refused write and what it
must not undo. With an attachment in place of the engram, which the walk drops by another
rule, the same three properties hold (1.87 million states, outside the list).
**Drafts.** Two calls follow each other or overlap; two faults are a refused move whose
put-back fails, or a warning and a crash; two paths are a move. The folder holds one of
two texts, so a draft may be the team's text or another. Three calls with one
fault and no pull were explored to 1.42 million states outside the list without a violation.

*What they show.*
`NothingLost`: a room that emptied or was swept has saved its text or the server has
kept it. `TokenMatchesBase`, `SaveOverwritesOnlySeen`: a save never replaces text no merge
has seen. `ConflictIsResolvable`: no room waits for a decision nobody can make.
`UnsavedIsArmed`: no unsaved text waits for a timer nobody set. `UneditedNeverSaves`:
greetings, probes and merges alone rewrite no file. `ComposeTouchesItsLine`: an agent's
edit reverts nobody's typing. `WritesAreEngrams`: what is written parses and is
respelled. `OverStartsNoSave`: no save begins in a room that is over. `UnsavedSettles`,
`EmptiedRoomGoes`: see fairness.
`DrainedMissedNothing`: a stream with nothing left to say has told its browser all.
`FollowsFeed`: the stream implements `ChangeFeed`. `StreamCatchesUp`: an open stream is
brought up to date. `TabsAreCurrent`: once nobody has anything left to announce, the
tabs show the file.
`RecordedOnce`, `EveryRunIsInHistory`: a run is in the history exactly once, by itself or as
expired. `SharesOnlyOwnWrites`, `SharesOnlyWhatWasClean`: its pull request carries
nobody else's work.
`CapHolds`: no delivery begins within `RATE_LIMIT` of the last one.
`OwedIsKept`, `WorkIsTold`: what is owed stays owed and goes out.
`OwnersFileIsNamed`: an owner removes its own lock file, never a successor's.
`ServingIsFound`: clients of a serving daemon find it. `Exclusive`: `InstanceLock`
implements `Ownership`.
`OneName`: a rename that is over left every store under one name.
`LandsInWholeDomain`: nothing is written into a half-moved domain. `HeldWithReason`,
`LeftoverGoes`: a pause is lifted and a rename that was begun is finished.
`OneRoom`, `RoomsKeepTheirAddress`: a document is edited in one place, and saved to
where it is. `NoEmptyRoomStays`: no left room keeps its place under `MAX_SESSIONS`.
`EveryoneIsTold`: nobody stays in a dead room untold. `SweepIsFinal`: nothing
reopens in a domain that is gone.
`UnmarkedIsWhole`: without a marked move, the rows the next walk drops are of files
deleted on its disk. `ReleaseFrees`: a daemon can release what it holds.
`LandedStays`: a refused write disturbs nobody's file.
`DecisionsStand`: a crash, a refusal, a rebuild and a restore undo no decision and bring
back nothing that was dropped. `DraftsComeBack`: a mirrored draft without a row gets it back.

Each property of a passing run has a mutant in `PROJECT.json`: a change to one
definition, defined beside it in the module (`Mutant of …`), under which TLC
finds the property violated.

## Fairness

*Rooms.* Weak fairness of the save steps, the restore and the saver: they are tasks of the
tokio runtime, which polls a task that can go on, and the engine answers each
call. Strong fairness of teardown and sweep: both wait for the room's mutex, which
a saver that keeps retrying takes again and again, and tokio's mutex
serves its waiters first-in first-out, so each waiter does get it. Nothing is assumed
of clients, agents, outside writers, the index or faults. `UnsavedSettles` says only
what this gives: text that parses is saved, unless there is a conflict first, or the room ends.

*Streams.* Weak fairness of opening and serving each stream: the connection takes what is
written to it. A connection that does not is closed, or lags. Nothing is assumed
of browsers, changes or restarts; `StreamCatchesUp` speaks of a stream that stays open.

*Trigger.* Weak fairness of the task's arms (its `select!` takes an arm that stays ready),
of each delivery (an HTTP request has a timeout), of the windows (time goes on), and of the end
of a run and of a backoff (a run that never ends loses its lease). Nothing is assumed of
people, counts, toggles, lags or restarts.

*Rename.* Weak fairness of the rename's steps, the daemon's start and of a write that is
under way. Strong fairness of `Restart`: a rename that stopped is resumed by the next start of the daemon,
and somebody starts it again some time; nothing in the code does. Without it
`LeftoverGoes` would not hold, nor would it have to. Crashes and faults are bounded.

*Drafts.* Weak fairness of the restore: a sync runs again some time (the daemon syncs when
it starts and after a pull), and one that has begun goes on. Nothing is assumed of calls.

`AutomationLease`, `InstanceLock`, `CollabRegistry` and `HostMove` state safety only.

## What is proved

`tlapm` checks the eight proof modules from nothing. The theorems hold for every value of
the constants: any number of connections, lines, browsers, runners, processes,
writers, rooms, instances and files, every capacity and every bound.

*Assumptions.* `RoomAssumption`, `SpellingAssumption` (the canonical spelling of an alias is
a value, and not the alias: what the engine's respelling is idempotent by),
`AbsentAssumption` (no content is the marker for "no file"); `RingAssumption` and
`StreamAssumption` (capacities are positive, an event is a set of clients). In the other
modules: `FeedAssumption`, `LeaseAssumption`, `TriggerAssumption`, `LockAssumption`, the four of
`DomainRename`, `RegistryAssumption`, `HostAssumption`, `OverlayAssumption` (kinds of
constants, disjoint sets, bounds that are numbers). Each is
evaluated by TLC in the runs. The stream theorems assume `~SameSecond`: two processes
do not start in the same second. Some others assume what their run sets, too: `~Raced`
(`CleanTheorem`, `FoundTheorem`, and where the sections below name it), `~Stale`, `Settled`
(`CurrentTheorem`). Without these the theorems are false;
[below](#where-the-code-and-its-comments-disagree) is why.

`EventStreamProofs` and `DaemonProofs` each hold the proofs about two components that share
no state; `ThreadsFeed` and `TriggerSlot` name their parts (`ThreadsSpec`, `TriggerSpec`)
so that the two can be extended side by side.

*CollabRoom* (1668 obligations). `TypeCorrect` is inductive by itself; its interesting part is that
`tries` stays at most 2, which holds because only the first attempt's merge goes
back to `check`. `TokenMatchesBase` and `ConflictIsResolvable` are not inductive:
a restore takes the pending conflict away while the room stays in conflict, and lands
by making it healthy, so the invariant `RoomInv` adds `RestoreInConflict` (a restore
runs only in a room that is in conflict). `RoomInvariant` proves the three
together, `TokenTheorem` and `ConflictTheorem` follow. `OverwriteTheorem`, an action property,
follows from the token: the only step of a save that writes compared the
file with the token, and the token says the base. `UneditedTheorem` needs
`UneditedInv`: outside a conflict the text differs from the one last saved only
after an edit or a "mine", and only such a difference takes a pass beyond its first check. The
key lemma is `MergeUnchanged`: merging into an unchanged text yields the other
side's. `EngramTheorem` rests on `Respelled`: a text that is about to be written or
restored has been normalised, and nothing changes it while the mutex is held.
`ArmedTheorem` rests on two facts: `ArmedInv`, stronger than the property (outside a
conflict a text that differs is dirty, or a "mine" left it to its flush, whoever
holds the mutex), and `PassUndisputed` (a pass beyond its check is in no conflict).
`LostTheorem` needs a notion of a debt that exists before the room has ended: `Owed` says
that the room ended, or that it is not over yet, but everybody's last save is behind it (all
tasks of closed sockets are past it, or the sweep is about to close). `LostInv` says that
whatever is owed is `Accounted` (saved, or kept) or `Excused` (one of the three slips, or
closed over its members' heads), and `CourseOfRoom` where the room can be then: who saves
for the last time holds the mutex, and no agent's edit is composed into a room that nobody will
save again. The proof has two halves: a debt that was accounted for stays so by every step that
can still happen (`OwedStands`), and a step after which something is owed first
accounts for it (`OwedArises`). `Accounted` compares texts as they are spelled canonically: a
pass after the last save merges, respells an alias the merge brought in, and may then fail.
The text that was kept then differs from the room's in that line's spelling and in nothing
else. `ComposeTheorem` and `OverTheorem` are
action properties: of the steps that end an agent's edit only `AgentComposes` changes the
text, in one line before it is normalised, and the only steps into a write check `disposed`.

*EventStream* (718). `StreamInv` is, per client: its receiver and backlog are within the log
and what it missed is in the log and for it (`Bounded`); the id its browser holds is of
this epoch or an earlier one, and everything missed comes after it (`IdBehind`); a
stream goes on after that id (`IdServed`); what an open stream's browser missed is in its
backlog or its channel, unsent (`MissedAhead`); a stream that is not open yet sent nothing
(`Unsent`). With `RingFilled` (a bus that announced anything holds something) this makes
`CatchUp` right: if the ring's first entry is not past the id's successor, nothing after
the id was evicted.
`StreamInvariant` proves it, `DrainedTheorem` and `OrderTheorem` follow. `FeedTheorem` is
the refinement: every step of the stream is a step of `ChangeFeed` or leaves it alone.
That an event served is the *first* one missed is what `MissedAhead` says.

*ThreadsFeed* (190), under `Settled`. `ThreadsInvariant` is `ThreadsTypeOK`, `Seen` (what is read,
remembered or announced was in the file once), `LatestIsShown` (the content the bus
announced last is the one the tabs show, while it is in the file) and `AnnouncementDue`: while the tabs show
something else, the engine remembers another checksum than the file's, or a verb or a pass
holds an announcement that the bus will not drop as an echo. `CurrentTheorem` follows, as in a quiet state
neither is so. `Settled` is what makes a content that is new to the tabs new to the window.

*AutomationLease* (994 obligations). `LeaseInvariant` is `TypeOK`, `Carries` (a run
past its look has a token), `Records` (whatever is recorded or carried was made by an
earlier take, what is in the history is not the lease's, and the holder is the runner the
row names), `Own` (what a lease's notes and its run's files name was written by its
account) and, under `~Raced`, `Clean`. `RecordedOnce` is not inductive by itself: that a
stale runner cannot record is a fact about the row it lost.
`OnceTheorem`, `HistoryTheorem`, `OwnWritesTheorem`, `CleanTheorem` follow.

*TriggerSlot* (696). `SlotInvariant` is `TriggerTypeOK`, `CapIsKnown` (a delivery within the last
`RATE_LIMIT` is in the slot's memory, unless it was turned off) and `OneDelivery`. `CapTheorem` and `OwedTheorem` are
action properties proved from it, look by look.

*InstanceLock* (604). `LocksAreHeld` and `HoldersLock` (a lock and its holder's descriptor
agree), `OpenHasFile` and `OwnersFileIsNamed`: together inductive, because only the holder of an
inode's lock, having checked the path, removes the name. `MutualExclusion` follows, since
two owners' files would both be at the path. `KeepsPromise` is the refinement.
`FoundTheorem` holds under `~Raced`: `Found` adds to `ServingIsFound` that a bound socket
is its daemon's, that nobody serves while a client that saw no record of one acts on what it saw, and that
nobody is bound while a client that found the lock free removes the socket file. An owner's
own clean-up takes nobody's files, since there is one owner (`IInv`).

*DomainRename* (695), under `~Stale` and `"drain" \notin DropsAt`. `OneConfig`: the
configuration has one name. `JournalIsTrue`: what the journal lists has moved, what comes
after its next step has not, and the next step's store is on either side, which a crash
between a step and its entry leaves. `SettledIsWhole`: without a journal every store is
with the configuration. `Course` relates the rename's place to its journal and pause,
`HalfMovedIsPaused` says that a half-moved domain is served only paused and drained, and
`WorkersKnow` that nobody is inside such a pause. With `HeldWithReason` they are inductive. `OneNameTheorem`, `HeldTheorem`, `OneRowTheorem`, `WholeTheorem` follow.

*CollabRegistry* (2753). `Registered` (keys and rooms agree, members have rooms, a sweep and
a move hold what they took out), `FencesCount` (a fence is the number of moves under
way), `TellsAreDue` and `LiveAreKnown` carry `NoEmptyTheorem`, `ToldTheorem` and `SweepTheorem`
for every order of events, `Raced` or not. Under `~Raced`, `Addressed` (addresses
differ, a room is filed at its document's address, one document is renamed at a time, a
move holds a closed room's document) carries `OneRoomTheorem` and `AddressTheorem`.

*HostMove* (2162). `HostInvariant` is `TypeOK` and `Fenced` (one write at a time has a file,
and what it would put back is what landed there): `LandedTheorem`. `ReleaseTheorem`
holds with one command at a time (`\A c, d \in Cmds : c = d`), by `Leased`: tokens name
claims, no two processes have one token, and an ended command handed its daemon's
back. Two overlapping commands really do leave a dead token, see below.
`WholeTheorem` holds under `~Raced`, by `Whole`: since a walk read the rows only its own
instance wrote any, a file it found is one its disk had, and a walk that goes on is the
lock holder's.

*OverlayMirror* (1691). `DecisionsStand` is about paths where nothing is under way, so
`MirrorInv` says what holds of the others. Per path that was not raced and is not being written (`PathTrue`):
the row is one of those `told`, the mirror one of those `kept`, whatever is told
is kept unless it is nothing, and a mirror without a row says something that was told, or nothing: that
is what allows a restore at any time, and `PassTrue` has the restore under way agree with
it. Per running call (`CallTrue`): of the path it writes next, which of the row, the
file and the sidecar it has written (`Under`, by its place `at`); of one it has not come
to, that it is as the call found it (`Untouched`); of one it is done with, that it is as
it wrote it, but for a mirror its answer will warn of (`Written`); and that the observers allow
for both ends (`Remembers`), which they do from the call's first step on. `Shape` has
the calls there are: one write, or the two of a move with what undoes the first. Every
action touches one path of one call (`StepKeepsInv`); an answer or the end of a crashed call
turns `CallTrue` back into `PathTrue` (`AnswerKeepsInv`, `DoneFits`, `RefusedFits`).
`StandTheorem` follows.

## What is only model-checked

* Liveness (`UnsavedSettles`, `EmptiedRoomGoes`, `StreamCatchesUp`, `WorkIsTold`,
  `LeftoverGoes`, `DraftsComeBack`): fairness and `ENABLED` are out of the prover's reach. Every other
  property of the runs is a theorem.
* `OneRoom`, `RoomsKeepTheirAddress`, `UnmarkedIsWhole` with `Raced = TRUE` are false, and
  `ReleaseFrees` with more than one command at a time; the next section says why.

## Where the code and its comments disagree

Each is told with the constant or the definition that shows it: set the constant in
the module's configuration, or list the definition as a property there, and TLC finds the
behaviour. Those under *Drafts* were met while modelling and `OverlayMirror` behaves as they say; the
first is why `DecisionsStand`
leaves out the paths in `raced`.

*Rooms and streams.*
1. `session.rs:2596` (`FinalTextIsSavedOrKept`): a *last* save outrun twice ends with merged text
   that is neither saved nor kept; the comment relies on a next tick.
2. `session.rs:774` (`LastOneLandsText`): a teardown that overtakes a later one drops the
   room before the later one's final save, which is then a no-op.
3. `session.rs:3062` (`NeverOverwritesExternalWork`): a file that appears between
   `restore_mine`'s look and its write is overwritten.
4. `session.rs:2645` (`FailedSaveIsRetried`): a failed save uses up the flush of a "mine" in a
   room that is not dirty, and nothing retries.
5. `session.rs:3007` (`DisposedNeverWrites`): a "mine" handled after the room is over still
   writes the file.
6. `changes.rs:351` (`RestartIsNoticed`, `SameSecond = TRUE`): an epoch in whole seconds does
   not tell two quick starts apart.
7. `changes.rs:397` (`Settled = FALSE`, `TabsAreCurrent`): a deletion is not recorded in the
   window, so a file that comes back as it was is dropped as an echo.

*Automations.*
8. `engine/automation.rs:327` (`Raced = TRUE`, `SharesOnlyWhatWasClean`): what a person
   has unshared is listed before the lease is taken, so what they change in between
   is shared by the run, against `docs/automation.md:107`.
9. `cli/src/automation/run.rs:291` (`ReportsAreTrue`): a record whose answer was lost and
   whose retry meets another holder's lease is reported as not recorded, and is.
10. `automation_trigger.rs` (`WorkIsTold` without its `odd`, `CapHolds` without its `cut`): a
   trigger read as off forgets the delivery under way, so one turned on again sends beside it
   or within the window (`:390`); a status that could not be read is taken as no work
   (`:420`); a run that starts and ends between two lease ticks is not seen (`:315`), nor is a
   lag before the first of them (`:273`).

*Lock and rename.*
11. `instance.rs:1911` (`Raced = TRUE`, `ServingIsFound`): a client's clean-up after a kill
    looks at the record and at the lock, then removes; a daemon that starts in between
    loses its record or its socket.
12. `index/src/sync.rs:143` (`Stale = TRUE`, `OneRow`): a pass that took its target's name
    before a rename registers a second row under it, against the comment at `:171`.
13. `rename_domain.rs:1028` (`DropsAt = {"drain"}`, `HeldWithReason`): a client that disconnects during the
    drain leaves the domain paused.
14. `rename_domain.rs:892` (`LandsInWholeDomain` with the resume as code has it): a resume
    does not wait for writers that entered before the crash's rename stopped;
    `engine/src/rename.rs:501` says none is left.

*Registry* (`Raced = TRUE`, `OneRoom`, `RoomsKeepTheirAddress`). The comment at `session.rs:1125` has the rekey follow
the save at once; between the two
15. a join under the new address opens a second room over the document
    (`session.rs:1132`);
16. a move fences the new address while the room is filed under the old one, and the rekey
    then strands it there (against `docs/teams.md:250`);
17. a last save renames the document while a move closes its room;
18. a cancelled move's room is still saving while the next move commits;
19. two rooms rename in a chain, or onto an address where a room over a deleted document
    stands.

*Host lock.*
20. `index/src/sync.rs:1796` (`Raced = TRUE`, `UnmarkedIsWhole`): a walk that began before
    its instance lost the domain and is applied after it has it back ends the new
    move from its old snapshot; the comment at `:1664` has a move "cleared only below,
    […] by a walk that saw every row".
21. Two overlapping commands of one machine, or a daemon that stops while a command of
    its machine runs, leave a lock row nobody can release before it is stale, although
    `release_hosts` gives it back "so a successor acquires immediately" (two `Cmds`, `ReleaseFrees`).
22. A walk drops the row of an attachment that was written between its scan and its apply;
    the next pass brings it back. `HostMove` allows it, and `UnmarkedIsWhole` is not about it.

*Drafts.*
23. `engine/origins.rs:2977`: a withdrawal compares a draft with what was proposed and then
    drops it, and so do a discard and a convergence (`engine/mod.rs:6322`), without the
    draft's lock. A save that lands in between is dropped, against "A draft edited since
    it was shared is never touched" (`:2937`) and "the one lock they all take"
    (`engine/write.rs:1490`). Such an overlap may also leave a mirror without a row, which
    the next sync brings back.
24. `domain_view.rs:1507`: a move of a draft that the folder has no page for drops its row and
    mirror before the destination's are written; a refusal is undone, a crash in between
    loses the text.
25. `domain_view.rs:815`: a removal that fails at its mirror "refuses a call that did
    nothing"; the comment is silent on one that fails at its row, when the mirror is already
    gone and a rebuild before the retry would lose the draft.
26. `domain_view.rs:1528`: a refused move puts its source back with the text it had prepared for the
    destination, whose links are rebased, where the comment says "exactly what this actor held".

The passing properties exclude exactly these situations and nothing wider:
`NothingLost` the slips `outrun` and `overtaken`, `UnsavedIsArmed` the slip
`flushonly`, `SaveOverwritesOnlySeen` and `OverStartsNoSave` speak of saves and not of
restores, the events run has `SameSecond = FALSE`, the threads run has
`Settled = TRUE` (content returns only when the newest announcement in the
window is of the file as it is), the lease, lock, registry and host runs have
`Raced = FALSE`, the rename run has `Stale = FALSE` and no drop during the drain, and
`DecisionsStand` leaves out the paths in `raced`.

## What is not modelled

*Within the modelled parts*: what each module's section names. In addition: the
visibility cache of a stream (its answer is a function of rows that another connection
may be changing; what it may hide is decided by the same query that a refetch makes), the
single-slot echo suppression of engram events (it compares with the
newest announce only, and a wrong drop is repaired by nothing but the next change of that
engram, so a property would need the path locks, the watcher and the bus in one model), the
web UI's election (browser locks and `BroadcastChannel`, outside of the daemon).

*Origin pull and share*: the working tree, the base snapshot and the state
file against a forge, thousands of lines of merge rules over file trees; the forge is
an external service. *Reflection backup*: its marks compare instants of different tasks,
and time is left out of every module here. *Sign-in state, throttles, OAuth grants,
accounts*: bounded maps behind one mutex, and transactions of the account store, one
statement each; nothing happens between two steps of theirs that a unit test would not reach.

The format (parser, emitter, schema), the SQL of both stores, search, embeddings and
model inference are sequential data processing with tests of their own, and no
property here tells their results apart beyond "parses", "is respelled" and
"merges". Connected servers are network I/O and merging of answers. Routes,
tools, command line and pages format what the verbs return.
