# Verification of the Earthworm core in EW7_GUItools

The repository holds a complete Earthworm 7.1 (`src/earthworm_7.1/`), the seismic
processing system made of many small processes that exchange messages over
shared-memory rings, and its author's own tools (`src/src/`, `src/ew_controller/`,
the `src/new_*` displays). This directory models the parts whose correctness depends
on how processes, threads, messages and crashes interleave. TLC checks the models on
small instances; TLAPS proves the theorems for every value of the constants.

Paths below are relative to `src/earthworm_7.1/src/` unless they begin with `src/`.

## 1. Inventory

| part | code | state it keeps | operations |
|---|---|---|---|
| transport ring | `libsrc/unix/transport.c`, `include/transport.h` | shared: `keyin`, `keyold`, `flag`, the ring, a System V semaphore; per process: the static `trak[]` tables | `tport_create`, `tport_attach`, `tport_putmsg`, `tport_getmsg`, `tport_putflag`, `tport_getflag` |
| buffering thread | `transport.c`: `tport_buffer`, `tport_bufthr`, `tport_copyfrom`, `tport_copyto` | a private ring behind a public one, tables of its own | copy, report of a gap, stop |
| memory queue | `libsrc/util/mem_circ_queue.c` | `QUEUE`: entries, `first`, `last`, `NumOfElements` | `initqueue`, `enqueue`, `dequeue`, `peekNextElement`, `dumpqueue`, `undumpqueue` |
| disk writer | `src/src/disk_wcatwc` | the queue between two threads, its mutex | read a packet, write a packet, end |
| trigger to disk | `archiving/trig2disk` | the queue, its file, the thread status words | stack, process, save, restart |
| startstop | `libsrc/util/startstop_unix_generic.c`, `startstop_lib.c`, `system_control/startstop_unix` | `child[]`, `metaring` | start all, restart, stop, reconfigure, status, shut down |
| statmgr | `reporting/statmgr/statmgr.c` | `desc[]`: heartbeat timer, alive, restart mark, pid | heartbeat, error, stop and restart messages, request of a restart |
| ew_controller | `src/ew_controller/ew_controller.c` | `g_mods[]` built from status messages, the selection | start, stop, restart on a button, refresh |
| location | `src/src/loc_wcatwc` | pick buffers, hypocentres, `mutsem1`, `mutsem2` | buffer a pick, locate, recycle a buffer |
| export_ack, import_ack | `data_exchange/export/export_ack.c`, `import_generic/import_ack.c` | `OutQueue`, the send queue `SQ`, two sockets, the status words of three threads, heartbeats | stack, send, acknowledge, send again, reconnect, watch |
| other exports and imports | `data_exchange/export`, `import_generic`, `ringdup` | queue, socket, status words, heartbeats | stack, send, reconnect, watch |
| wave_serverV | `archiving/wave_serverV` | tank files, indices, their redundant copies | write, serve, save, recover |

How they interact. Every module is a process that attaches to one or more rings and
calls `tport_getmsg` and `tport_putmsg`; these two functions are the only thing all
modules share. startstop creates the rings, forks the modules and ends them through
the ring's flag (`TERMINATE`, or a pid) or a signal. Modules put heartbeats on a
ring; statmgr reads them and, when they stop, asks startstop by a message for a
restart; operators do the same with `restart` and `stopmodule`, or with the buttons
of ew_controller, which learns the state of the system from startstop's status
message. Inside a module, a second thread and a memory queue decouple the ring from
whatever is slow: a disk, a socket, a wave server.

What makes them correct, and what is hard about it:

* transport ring: putters exclude each other, the ring holds whole messages, a getter
  returns whole messages in order, says when it missed some, and never hangs. Hard:
  getters take no lock, keys are reset while they run, processes are killed.
* buffering thread: nothing is lost but what a full private ring overwrites. Hard: it
  shares static tables with the main thread.
* memory queue: first in, first out, dropping the oldest. Hard: positions that wrap,
  two threads.
* trigger to disk: what is queued survives a stop; nothing is processed twice or out
  of order. Hard: crashes and failing writes between any two steps.
* startstop: each child runs at most once, a stop stops it, a reconfigure does not hurt
  what runs. Hard: `waitpid` in three places, failing forks, messages while it waits.
* statmgr: a dead module is restarted, a stopped one is not. Hard: old heartbeats, a
  stop that arrives before the pid is known, its own restart.
* ew_controller: a button acts on the module the user saw. Hard: the table is rebuilt
  while a dialog is open.
* location: a pick is not lost or mixed into another event. Hard: two threads, reads
  outside the lock.
* export_ack: what is not acknowledged is sent again, in order; a reconnect loses only what it
  says; a connection that does not work is ended. Hard: threads that are killed anywhere, status
  words that two threads write, acknowledgements that name a slot and not a message.
* wave_serverV: the index describes the tank after a crash. Hard: files written by
  different threads.

Everything else in the repository is listed in `PROJECT.json` under `components`
with the reason why it is not modelled: numeric code, displays, drivers, formats,
third-party code, other platforms.

## 2. Modules

| module | what it is |
|---|---|
| `RingLog` | abstract: a log of which the newest messages fit, read in order |
| `Transport` | `tport_putmsg` and `tport_getmsg` on one region, store by store |
| `Transport_proofs` | types, mutual exclusion, the ring intact over resets and kills, whole messages in order, misses told, where a reset may put places back, refinement of `RingLog` |
| `DropFifo` | abstract: a first-in first-out queue that drops its oldest |
| `MemCircQueue` | the functions of `mem_circ_queue.c` as operators on the `QUEUE` record |
| `MemCircQueue_proofs` | what those operators do to the queued sequence |
| `DiskWriter` | the two threads of `disk_wcatwc` and their queue |
| `DiskWriter_proofs` | types, exact drop count, refinement of `DropFifo` |
| `TrigQueue` | `trig2disk`: three threads, the queue, its file, stops and restarts |
| `TrigQueue_proofs` | types, the file holds the queue, triggers are begun in order, once and not too early |
| `ControlRings` | processes, flag and control messages, shared by the next four |
| `StartStop` | startstop: the table of children, forks, kills, orders, status, reconfigure, shutdown |
| `StatMgr` | statmgr: descriptors, heartbeats, marks, requests for restarts |
| `ControlPlane` | both composed with modules that die and operators that ask |
| `ControlPlane_proofs` | types, one process per entry, what was stopped in a calm moment stays stopped |
| `EwController` | the window of ew_controller composed with startstop |
| `EwController_proofs` | types, the pid that is sent is of the module the question named, unless its row was shifted |
| `LocateQuake` | `LocateQuake` of `loc_wcatwc`: what one location may do to a buffer |
| `PickBuffers` | the two threads of `loc_wcatwc` over the pick buffers |
| `PickBuffers_proofs` | types, ids of quakes are unique, manual picks are not knocked out |
| `ExportAck` | `export_ack` and `import_ack`: five threads and the connection between them |
| `ExportAck_proofs` | only what a killed thread had at hand is lost until the queue jams, first arrivals are in order, the connection carries no more than the slots |
| `MC*` | the constants TLC runs them with |

### Transport

`keyin`, `keyold`, `ring` and `sem` are the shared region and its semaphore. `put[p]`
and `get[g]` hold the program counter and the locals of a process in a call,
`ptrak[p]` and `gtrak[g]` its static tables; a table is a function whose domain is the
set of logos entered so far, since its order is never used. `sent`, `npub`, `ndel` and `last` are
history. Messages are copied cell by cell: cell `<<k, i>>` is the i-th of message k,
the header takes `HDR` of them, and bytes that were never a header decode to any
header at all, which is what a getter that is in the wrong place would see.

`tport_putmsg` is `PutCall`, `Acquire` (the semaphore, the table and the header, which
is private), `WrapIn`/`WrapOld`/`WrapFix` (the three stores of the key reset),
`Delete` (one turn of the loop that frees room), `CopyCell`, `Publish`, `Release`.
`tport_getmsg` is `GetCall` (entry of the requested logos), `FindKey`, `SnapIn` (the
one read of `keyin`), `ResetTrackers`, `Scan`, `ReadCell`, `CheckHeader`,
`CheckCopied` and `Return`. `Kill` and `Restart` are what startstop does to a module
that puts: SIGKILL at any point, and a new process with empty tables.

### MemCircQueue, DiskWriter

The queue is a record with the fields of `QUEUE`. `enqueue` and `dequeue` come in two
halves, the copy and the moves of `first`, `last` and `NumOfElements`, so that
`DiskWriter` can let the other thread run in between; only `MutexQueue` forbids it.
`DiskWriter` has one action per statement of the two loops of `disk_wcatwc` that
touches shared state. Packets are numbered in the order in which they are read.

### TrigQueue

Main starts `MessageStacker` and `SnippetMaker` and writes their status words
itself (`AssumeBest`); the threads set them too. The calls of the queue are one step each
here: both threads make them under one mutex, and `DiskWriter` shows that this is
enough. The dump is not one step: `DumpOpen` truncates the file, each `DumpWrite`
writes one item, either may fail, and so may the `fclose` at the end, which nobody notices (`CutShort`); a `Crash` or a `Return` of main may come between
any two. `Boot` loads what the file holds. What processing a trigger means (wave
servers, output formats) is one step, `SnipperWork`, that ends in the next loop or in
the thread's death.

### ControlRings, StartStop, StatMgr, ControlPlane

A process is one number of `Pids`; `proc` says whether it runs, is a zombie or is gone,
`owner` which entry of the command file it runs. `inbox[reader][ring]` is what a reader
has not got yet of the types it asks for: that is what `RingLog` promises to a reader
that keeps up, in order within a ring and without order between rings.

startstop (`child`, `nChild`, `next`, `ss`, `report`) takes one message per step
(`TakeOrder`, `TakeRequest`, `Reconfigure`), but each `fork` is a step that may fail
(`StartChild` = `Forked` or `ForkFailed`, which leaves pid -1 in the table as the code
does), and each row of a status is one (`EncodeRow`: `waitpid` with `WNOHANG` reaps a
zombie there). `Order` is the search of `StopChild` and `RestartChild`: the first entry with the
pid is killed and, for a restart, forked again (`ForkAgain`). kill(2)'s readings of 0
and -1 as pids are kept: a restart by -1 kills every process. `SeeFlag`, `ReapOne`,
`SigTerm` and `Exit` are `StopEarthworm`. `ReconfigureExits` is `GetConfig` leaving the process.

statmgr (`desc`, `sm`) gets messages (`HeartBeat`, `SeeOrder`), and does its chores when the ring
it polls last is empty (`Quiet`, `Late`, `Rested`). `Late(m)` sends the restart request when
`m` has restartMe and is not marked stopped. `Boot` is a new statmgr: it knows no pid, and
flushes the rings.

`ControlPlane` adds heartbeats (`Beat`), ends of processes (`Die`, `Leave`) and the operators'
programs: `stopmodule` (`OpStop`), `restart` (`OpRestart`), `status` and `reconfigure`
(`OpRequest`), `pau` (`Pau`) and `quit` on the console (`QuitStep`).

### EwController

`mods`, `sel` and `selPid` are `g_mods`, `g_sel_idx` and `g_sel_pid`; `dlg` is the modal
question. `Read` is `on_read`: parse, look up the pid that was selected, rebuild. GTK goes on
calling it while a question is open, so `Press` and `Yes` are two steps and the
pid is read in the second (`PidsSent`). `StartStop` carries out what is sent.

### LocateQuake, PickBuffers

`buf`, `hypo`, `id`, `last`, `removed` are the arrays indexed by buffer: `PBuf` with its
count, `Hypo`, `Hypo[i].iQuakeID`, `iLastBuffCnt`, `szStnRem`. A station stands for
its P: the number is its place in the order of arrival. Main's handling of one message is one step because it
holds the mutex throughout (`Main`: `LoadUpPBuff` in its cases `RepeatedPick`, `Joins`, `Dropped`,
`Gathers`, `Starts`; picks that name a quake, `NamedPick`; `Delete`, `ForceLocation`, `Amplitude`).
LocateThread looks at a buffer without the mutex (`Look`), locates with it (`Locate`), then moves
picks that do not fit away and takes picks that fit from others (`RemoveMisfits`,
`Scavenge`), sets `iFinalMade` after the release (`FinalMade`), chooses a buffer to recycle without
the mutex (`Scan`) and empties it with it (`Reuse`). `Locations` of `LocateQuake` is the relation
from the picks of a buffer to what the fit may leave: any set of at most `MAX_TO_KO` automatic
picks knocked out, good or not good, with the retry and the early returns of the code. `SortAllByPTime` is the set of all orders
in which `qsort` may leave the picks: those with equal times come in any order, those without a P at time 0 in front.

### ExportAck

`SQ`, `SendSequence`, `OutQueue`, `senderStatus`, `recvStatus` are the globals of `export_ack.c`, `mutex` the mutex of
the queue; `sender` holds the program counter and the slot of SocketSender, the thread that is killed, and `main`
where main stands between accept and the watch. `Sd` is the socket of import_ack and `receiver` its MessageReceiver.
The connection is two sequences, `toImport` and `toExport`, and `linked`; `Break` and every close keep a prefix
of what is under way. A send that times out ends the connection as a break does.

SocketSender first reviews `SQ` from `SendSequence` on (`Skip`, `Resend`, `MarkResent`), then loops: heartbeat (`BeatFails`),
wait for the slot (`Wait`, `SlotFree`), `Dequeue`, `Unlock`, the three assignments `MarkNew`, `Number`, `Advance`, `Send`,
`MarkSent`. SocketRecv is `Acknowledged` and `RecvFails`. Main is `Accept`, `StartRecv`, `StartWatch` (each sets a status word
after it started the thread) and `Retry`, which kills both threads wherever they are: `KillThread` sends
a signal whose handler ends the thread (`threads_ew.c:259`, `291`), so SocketSender may hold the mutex or a message.
import_ack acknowledges a packet (`ReadAndAck`) before it puts the message (`PutMsg`); `Reconnect` and `Connect` are its main.

Heartbeats are not packets here. `Beating` says when SocketSender gets to write, `ImportSilent` and
`ExportSilent` when the other side will hear nothing any more; then, and only then, a missed
heartbeat is free. Late heartbeats, breaks and restarts of import_ack are faults and counted in `breaks`.

## 3. Runs

Passing runs:

| run | instance | shows |
|---|---|---|
| `ordered` (`MCTransport`) | 1 putter of 2 logos, 1 getter that asks for all, bodies of 1 and 2 cells of which the second is too long for the caller and which may look like a message start, ring of 6, tables of 2 | what is returned is one whole message (`DeliveredIntact`), a getter keeps its place (`NoGetterExit`), sees each logo in put order (`InPutOrder`), is told of a gap exactly when there is one (`MissExact`); the calls implement `RingLog` (`ImplementsLog`) |
| `live` (`MCTransport`) | 2 putters, one with more logos than its table holds, 1 kill, 1 getter, ring of 2, fairness | putters exclude each other (`MutualExclusion`), calls return (`PutReturns`: unless a kill or `PUT_NOTRACK` left the semaphore down; `GetReturns`), every message is got or overwritten (`GotOrOverwritten`) |
| `reset` (`MCTransport`) | 1 putter of 1 logo that may be killed once and restarted, bodies of 1 and 2 cells of which each looks like a message start, a word of 15 for a ring of 5, so that keys are reset while a getter is at every point | from `keyold` to `keyin` the ring holds whole messages, also over the reset and the kill (`RingIntact`); after a reset a tracker is not behind `keyold`, at most a lap ahead of it, and beyond `keyin` only where a byte inside a deleted message misleads the getter (`KeyoutPutBack`) |
| `fifo` (`MCDiskWriter`) | 3 entries, 8 packets, fairness | drops are counted exactly, the queue is a `DropFifo`, every packet is taken or pushed out by a newer one |
| `restart` (`MCTrigQueue`) | 2 entries, 3 triggers, 2 processes, `DelayTime`, every malloc and every dump may fail, a dump at `fopen`, `fwrite` or `fclose`, fairness | the file restores the queue between calls unless it is full or a dump failed, noticed or not (`SavedUnlessFull`); no trigger is begun twice or after a later one as long as every dump could open its file (`InOrderOnce`), none too early (`NoneTooYoung`); a queued trigger is begun or pushed out by newer ones (`BegunOrPushedOut`; not that any is ever begun, section 6) |
| `safety` (`MCControlPlane`) | statmgr, a module and a third added by a reconfigure, 4 forks of which any may fail, 2 orders of all kinds, 1 death, a command file that may be wrong | no module runs twice (`OneProcess`), a module stopped in a calm moment stays stopped (`StaysStopped`) |
| `supervise` (`MCControlPlane`) | 2 entries, 4 forks, 1 order, 1 death, fairness | a dead module is started again (`Restarted`), a system told to end ends (`ShutsDown`) |
| `named` (`MCEwController`) | 3 entries, 4 forks of which any may fail, 1 order of somebody else, 1 death, 1 question, fairness of startstop | the pid that is sent is one of the module the question named unless a row above it, or its own, came or went (`NamedUnlessShifted`), and startstop does what it says (`Obeyed`) |
| `locate` (`MCPickBuffers`) | 2 buffers, 3 stations, 4 messages, ids that wrap after two quakes | no buffer is written past its end (`TypeOK`), ids differ (`UniqueIds`) |
| `revisit` (`MCPickBuffers`) | 3 buffers, 2 stations, 3 messages, each of which may be an analyst's, fairness of LocateThread | what an analyst changed is looked at again (`Revisited`), the locator comes to rest (`Settles`), a location leaves manual picks alone while there are automatic ones to knock out (`ManualKept`) |
| `export` (`MCExportAck`) | 2 slots, 2 queue entries, 3 messages, 2 faults, threads killed at every place, fairness | until the queue is jammed a message is with the partner, under way, to be sent again, was pushed out of a full queue, or was at hand of a thread that was killed (`NoneForgotten`); messages arrive in order over all reconnects, but for one whose slot was killed half made (`FirstInOrder`); no more packets are under way than there are slots (`TypeOK`); every message arrives or is given up, unless the mutex is dead or the queue jammed (`Progress`) |

One run finds the code at odds with its own documentation (details under `findings`):

* `stop` (`MCControlPlane`, `StopHolds`): a module dies, statmgr asks for a restart, an operator who asked for a stop
  is obeyed first, and the restart follows: the module runs again, although
  `stopmodule_ovr.html` says that statmgr should not restart it.

Six more definitions say what a comment or a document says and the code does not keep. They belong to no run; TLC shows a
counterexample within a minute when the definition is put into the configuration named. The passing run beside it checks what does hold.

| definition | put into | says, and what happens instead | what holds |
|---|---|---|---|
| `EveryPutReturns` | `MCTransport_live.cfg` | `transport.txt:175`: `tport_putmsg` returns `PUT_NOTRACK`, warns and continues; it returns with the semaphore down, and the next putter sleeps for ever | `PutReturns` |
| `KeyoutInRange` | `MCTransport_reset.cfg` | `transport.c:710`: `keyout` is between the keys after a reset; a byte inside a deleted message passes for a message start and `keyout` is lifted beyond `keyin` | `KeyoutPutBack` |
| `WholeOrDeleted` | `MCTrigQueue_restart.cfg` | `mem_circ_queue.c:263`: -1 on errors, and the file is deleted; when `fclose` fails, `dumpqueue` returns 0 and a file that is cut short stays | `SavedUnlessFull` |
| `NoOrphans` | `MCControlPlane_safety.cfg` | `startstop_unix_generic.c:276`: startstop does not bail out at a reconfigure; `GetConfig` exits, and all modules run on without it | |
| `NamedIsMeant` | `MCEwController_named.cfg` | `ew_controller.c:697`: the target is kept over the refresh; a fork fails while a question is open, the row of that module is left out of the next table, and the yes goes to another module | `NamedUnlessShifted` |
| `NoneLost` | `MCExportAck_export.cfg` | `import-export_ovr.html:140`, `169`: duplicates instead of losses; SocketSender is killed after it dequeued a message and before it marked the slot, or import_ack after it acknowledged one, and the message is lost | `NoneForgotten` |

Each property of a passing run is broken by a mutant, an operator of the module
that stands beside the one it replaces and is listed under `mutants`.

### Bounds, and why they are enough

* `WordMod` stands for 2^32 or 2^64 and `KeyMax` for the size of the region. What
  matters is how many laps of the ring fit into a word; from three on, a reset happens
  in each of its forms and none overtakes the next. `reset` uses exactly three.
  In `ordered` and `live` the word is large, so no reset happens: the code
  does not promise these properties over a reset (section 6).
* `Looks` says whether a byte inside a message may look like `FIRST_BYTE`: both in `ordered`, always in `reset`, where it matters most. In `live` messages are headers only.
* `SeqMod` stands for 256. In `ordered` it is larger than the messages that can be missed
  at a time; a getter that misses exactly 256 of one logo is not told (section 6).
* `NTrackPut`, `NTrackGet` stand for 200 and 500; 1 to 3, so that the getter's table overflows
  in `ordered` (two logos and the wildcard for two places) and does not in the others; a putter's overflows in `live`, where one
  of two putters has two logos for one place.
* `MaxMsgs` of `Transport` bounds a behaviour to 3 to 6 messages: at two or three messages per lap
  each cell is overwritten at least once while a getter stands at any of its steps.
* `ordered` asks for all logos at a time. With `AskEither` (all, or one of the two) and a table
  of three, `InPutOrder`, `MissExact` and `ImplementsLog` hold too for 3 messages with both looks of
  the payload and for 4 with either, 3 to 5 million states each: too long to be kept as a run.
* `MyMaxElements` is 2 or 3, so a queue is empty, partly full and full, and 8 packets
  take the positions twice round. Two processes of `trig2disk` are one that writes the file and one
  that reads it.
* `Oversize` is empty in the runs: both users allocate their queues for the longest
  message they read. The theorems hold for any set.
* `MaxPid` is 4 processes: two started, and two more forked by restarts, a death or a reconfigure.
  `MaxOrders` is 2 in `safety`, so that two operators, or one and statmgr, meet. `MaxUnread` is 0:
  statmgr's request finds startstop's inbox empty when it is put, and later orders may follow it. One ring: section 6 says what two would change.
* `MinPs` is 1 or 2 in the runs of `PickBuffers` where the code demands 5 or more, and `MaxVersions`
  2 or 3 where `MAX_VERSIONS` is larger, so that a quake is located, relocated, and hits the limit within
  four messages. `MaxIds` is twice the number of buffers, so that ids wrap at the second
  quake of a buffer. The retry in `Locations` needs more picks than the instances have. The code skips the search for bad picks below five;
  as `MinPs` is never below five there, that case does not arise and is not in the model.
* `SendQueueLen` and `RingSize` of `ExportAck` are 2: with 3 messages `SendSequence` passes 0 again, the slots fill up, and
  the queue overflows while SocketSender waits. `MaxBreaks` is 2: a reconnect may be broken again while
  the review of the slots is under way. A thread may be killed at every place. A jam needs a kill in the first use of a slot other than 0; two slots are
  enough for it.
* `MaxRead` of `TrigQueue` is 3, so that the stacker stops in the end and what is left in the queue gets old enough. No property rests on that:
  `BegunOrPushedOut` is content with a trigger that newer ones push out.
* `ordered` uses the symmetry of logos; it checks safety only.

Deadlock checking is off where a run may stop for good: a killed or refused putter
leaves the semaphore down, a process has ended, or the bound on messages is reached.

### Fairness

A call that has begun goes on (weak fairness of `PutStep` and `GetStep`): processes are
scheduled. `Acquire` and the locks of threads have strong fairness: a process asleep
in `semop` is woken when the semaphore is freed, and the loops that take a mutex sleep
or do slow work between two tries, so that another thread gets its turn. A getter polls for
ever (`GetCall`). startstop and statmgr loop for ever (weak fairness of their steps). startstop
looks at the flag before each sweep of the rings, whatever comes in (strong fairness of `SeeFlag`);
statmgr gets messages faster than modules put them, so that its last ring is empty again and
again (strong fairness of `Quiet`), and a module that is dead has no heartbeat left to be in
time (strong fairness of `Late` for it alone). A module leaves when the flag is up or SIGTERM
comes (`Leave`): startstop itself counts on that, its last wait has no end. LocateThread
runs (weak fairness). The threads of export_ack and import_ack run, and each main does what it does without a
fault: it accepts, starts threads, and ends a connection that is silent for good, since both mains compare the
time of the last heartbeat with a limit at every turn (a limit of 0, which turns the check off, is not in the
model). Nothing obliges a process to put, a stop to come, a crash to happen,
an operator, an analyst or a user of the window to act, a process to be started again, and no
failure must stop failing.

## 4. Proofs

Assumptions: `TransportAssumption` (positive header and ring sizes, a word of at least
three rings, finite set of logos), `QueueAssumption` (at least one entry),
`PacketAssumption` (packets are numbered), `ControlAssumption`, `StartAssumption`,
`MonitorAssumption`, `PlaneAssumption` (which readers and rings there are, bounds are numbers),
`LocateAssumption`, `BuffersAssumption` (fewer buffers than ids), `ExportAssumption` (at least one slot and one
entry). TLC evaluates them in the runs.

* `Transport_proofs!TypeCorrect`: `TypeOK` in three named parts, `RingTypes`,
  `PutTypes`, `GetTypes`, proved inductive one action at a time. It is not only types:
  the tables never exceed `NTRACK_PUT` and `NTRACK_GET`, whatever order logos and
  requests come in, and sequence numbers fit their byte. The bound on tables needs
  `TableBound` and `TableFill` on the cardinality of what a call enters.
* `Transport_proofs!OnePutterAtATime`: `MutualExclusion` is inductive given `TypeOK`:
  whoever is between the two `semop` calls holds the semaphore at 0, and only it can
  raise it. Kills and `PUT_NOTRACK` keep it at 0.
* `MemCircQueue_proofs`: `AfterInjective` (two offsets below the size are different
  entries) gives `CopyContents` (a copy does not disturb what is queued, or is the
  overwritten oldest), `LinkContents`, `EnqueueContents` and `DequeueContents`: enqueue
  appends, or drops the oldest and appends; dequeue takes the first.
* `DiskWriter_proofs`: the inductive invariant `IInv` is `TypeOK`, `LockHeld` (the mutex
  names the thread that is between request and release) and `CallState` (what the queue
  looks like in the middle of each call). `TypeCorrect` follows. `DropsAreCounted` adds the
  equation between read, taken, queued and dropped.
* `DiskWriter_proofs!QueueIsFifo`: `Spec => ImplementsFifo`. The mapping uses `Settled`,
  the queue as it will be once the call under way has moved the positions, so a call takes effect
  at its copy: that step is an `Add`, `Overwrite`, `Refuse` or `Take` of `DropFifo`,
  and all others are stutters. `LockHeld` is what makes `Settled` well defined: at most one call
  is half done.
* `ControlPlane_proofs`: the inductive invariant `IInv` is `TypeOK` and `Safe`. `Safe` says that
  whoever runs is the process `child[]` names for its entry (`Listed`), that pids not yet returned
  by fork are nobody's (`Unused`), and that what startstop is about to fork does not run (`Ready`);
  `OneProcess` alone is not inductive, as it does not know which process the next kill will find.
  `SsStepSafe` shows it for each step of startstop, with failed forks, kills of -1 and 0, and new entries;
  `EnvSafe` for everybody else, who only turn running processes into zombies. Contents of the rings do not matter: an
  order may name any pid. `TypesHold` and `NeverTwo` follow, for any number of
  entries, processes, rings, orders and deaths.
* `ControlPlane_proofs!StoppedStays`: here the contents of the rings do matter. `StopInv` says that a pid in `child[]` belongs to its
  entry and is the latest that does (`Newest`); that what statmgr knows belongs to whom it thinks (`Known`); that heartbeats wait
  in the order of a module's processes, none older than what statmgr knows, so no late heartbeat makes statmgr take up an old process or
  forget the mark (`Beats`); and that a restart of a running process that statmgr has not read is not read by startstop either (`Both`), so
  a calm moment has none at either. Then, as long as `halted` is "calm" (`Undisturbed`): statmgr is the same process, both know
  the same pid, the stop is in statmgr's box or the module marked STOPPED, no restart of it is on its way, and no fork for it is due.
* `Transport_proofs!RingHoldsMessages`: `RingIntact` is about the addresses in the keys, which come round; the
  inductive invariant `RingInv` tells it by the stream of all that was ever put. `Stream` gives each message of `sent`
  its place there, and `keyin` and `keyold` are places modulo the word; `Stored` says which cell of which message is in
  each place of the ring; `Settled`, that keys are that modulo between calls, and `Putting`, how far the putter at work
  is from that: after each of the three stores of a reset, after each deletion, each copied cell. A kill leaves
  cells of a message that is in no stream, from `keyin` on, where nobody looks.
* `WholeMessagesOnly` and `PlaceNeverLost` extend it (`ReadInv`) with what a getter holds at each step (`Reading(g)`): its places are
  starts of messages, and what it copied is of the message it thinks unless `keyold` has passed. Both are under
  `TwoFit` (any two messages fit into the ring together) and `KeysFit` (what was put so far fits into the word: no reset yet).
  Section 6 has the behaviours without them.
* `InOrderNoneTwice`: by `Ordered` no search begins before the message last got of a logo it is for: some tracker that every request
  for the logo consults is behind that message. It needs `RoomToTrack` besides: the table has
  room for all logos and the wildcard, or the getter asks for the same logos in every call.
* `RingIsLog`: with `KeysFit`, each step is one of `RingLog` or a stutter. `Publish` appends, `Delete` forgets, and a
  `Return` is a read of a message that is in the log and later than the last of its logo, by `Reading` and `Ordered`.
* `MissesAreTold`: `Numbered` ties the sequence number of each message to how many of its logo were put before it, which
  holds as long as each logo has one putter (`OneSource`) that was not killed (a new process counts from 0 again). `Expecting(g)`
  ties the number a tracker waits for to the message it stands behind. `FewSkipped`: fewer than `SeqMod` were missed.
* `PlacesPutBack`: `RingIntact` only speaks of what is between the keys. `Gap` says of the rest, from `keyin` (and the room a
  putter has taken, `Taken`) round to `keyold`, that no message begins there: a deleted message begins in the room taken, or it would not have
  been deleted, and the putter at work copies over all of that. A place beyond `keyin` at which a start is found
  after a reset is therefore inside a message: `Misleads`. Nothing is assumed of the bytes of a message; that such a place is at most a lap
  from `keyold` is the arithmetic of the loop that lifts it. The code's comment promises more (`KeyoutInRange`, section 3).
* `TrigQueue_proofs`: `IInv` has seven parts. `Data` and `Control` are types and who holds the mutex; `Dumping` says that the open file holds
  a part of the queue as it is; `Saved`, when a complete file is what the queue is; `Newest` and `Aged` bound the numbers and ages
  of what is anywhere; `Ordered` puts what was begun, what the snippet maker has taken out and the queue (and the file) into one order. `FileHoldsQueue`,
  `BegunInOrderOnce` and `NoneBegunTooYoung` follow for any number of entries, triggers, processes and failures; the order as long as
  no dump failed to open its file (`stale`, see section 6).
* `EwController_proofs`: `Meant` follows a pid from the fork to the click. `Entered`: whoever has a pid in `child[]` has one of its own.
  `Reporting`, `Arriving` and `Shown` (by `TrueRows`): each row of a status, as it is encoded, on its way and in the table, names a module and has a pid
  of that module, whichever rows were left out on the way; `StillSelected`: while a question is open and its row was not shifted, the row selected is
  the one of the module it names; `SentKnown` is the goal. Nothing is assumed of forks: where one fails, `Shifted` sees that the row has another
  name (section 6).
* `PickBuffers_proofs!IdsUnique`: buffer b only ever has ids that differ from b by a multiple of `NumPBuffs`
  (`OwnIds`), which the wrap keeps if `NumPBuffs` divides `MaxIds`; two buffers then never share an id, since they are less
  than `NumPBuffs` apart (`SmallMultiple`). `WholeTurns` is that condition and a hypothesis of the
  theorem: 10000 is `MaxIds` in the code, `NumPBuffs` comes from the configuration, and section 6 says
  what happens without it.
* `PickBuffers_proofs!TypesHold`: most of it is that a location leaves a buffer no longer than it was and a hypocenter
  that counts no more picks than fit (`LocationTypes`): sort, revival and fit keep the number of picks, and `DropStations`, which takes
  one station after the other away and is a recursive function, never adds one (`DropStationsTypes`).
* `PickBuffers_proofs!ManualPicksStay`: `FindBadPs` reaches for the first place of the buffer when it looks for more automatic
  picks than there are. `KnockedOutAutomatic` says that with `Enough` of them it does not, as the sort leaves as many as there were, wherever
  it puts them (`AutoSorted`), and so of everything a location may leave. It needs no invariant but the types.
* The library's induction theorems take an operator as a parameter. Where a recursive function is reasoned
  about here, induction goes through `LeastOf`: a set of numbers that is not empty has a least element, from
  `NatLessThanWellFounded` and `WFMin`; the counterexamples are the set.
* `ExportAck_proofs`: threads are killed anywhere, and nothing is assumed of where. The invariant has two faces: `IInv` until the queue is
  jammed and `Stuck` from then on; each step keeps the face it finds, but for the one kill that leads from the first to the second. Both share `Base`:
  `Types`, `Connections` (a connection nobody accepted carries nothing) and `Placed` (the status of each slot agrees with the place of SocketSender).
  `IInv` adds `Numbered` (a slot in use knows its number, but for the one that is being made), `Carried` (what is under way is of a slot that waits for it
  and still holds its message; an acknowledgement, of a message import_ack has, is about to put, or lost with a killed thread), `Once` (no slot is
  under way twice) and `AllKept`, which is the goal. `AllKept` alone says nothing of acknowledgements; `Carried` lets one clear its slot, `Once`
  keeps `Carried` when the slot is used again, `Numbered` makes a packet carry the number of its slot. A review
  needs `AheadStep`: from one slot to the next, what is left loses exactly that slot. `Stuck` says that the slot at `SendSequence` has number 0 and is not
  slot 0, that no other slot changes its number, and that SocketSender never gets beyond its review and its wait. `NothingForgotten` follows from the first face, for
  any number of slots, entries, messages and faults. `TypeCorrect` adds to either `Sound` (messages only come
  out of `OutQueue`), and a pigeonhole over `Once`: never more packets and acknowledgements than slots.
* `ExportAck_proofs!ArriveInOrder`: `FirstInOrder` from the order of everything that is anywhere: the slots from `SendSequence` on
  (`SlotsInOrder`), then what SocketSender holds (`Dequeued`), then the queue (`QueueInOrder`); what is under way is in the order of the slots
  (`WayInOrder`, `SentInOrder`); nothing older than what arrived is still new to the partner (`NothingStale`, `NoneBehind`). `Receiving` is the packet import_ack acknowledged and
  has not put. After a kill between the assignments of a new slot the order begins with the last slot instead: `Newest` is that case, and
  `EarlyInPlace` ties it to `early`, the messages the property excepts.

Only model-checked: all liveness properties (the prover has no fairness). Every invariant and every action property of a passing
run is stated by a theorem.

## 5. Not modelled

Most of the repository is numeric, is drawing, talks to devices or is a copy: location, picking
and magnitude code on floating-point data, displays, drivers of digitizers, tables, schemas, vendored libraries and the
Windows and Solaris variants of the code that is modelled. They have no states and steps TLC could
enumerate; `PROJECT.json` lists each with its reason. Three parts with states of their own are left
for later (section 7): the buffering thread, the exports without acknowledgements and their partners, and wave_serverV. Of the modelled parts is left out:

* Transport: the order in which other processors see stores (the model is sequentially
  consistent, as the code assumes; x86 keeps stores in order), errors of `semop`,
  which end the process, `PUT_TOOBIG`, which changes nothing, attaching and detaching,
  the flag, several regions per process, and the Windows and Solaris versions.
* Queue: `getNext`, `getPrev` and their like, which change nothing. The return value -4 of `undumpqueue` cannot
  arise: opening the file truncates it, so both stamps are of one dump.
* DiskWriter: the heartbeat clock, the conversion and the files of `diskw.c`.
* StartStop: reading the command file, rings that a reconfigure adds, priorities, users and
  agents of children, its own heartbeat and its own row in the status, the Windows and Solaris versions,
  a command file without statmgr (the code then indexes outside `child[]` at a reconfigure), pids that the system uses again.
* StatMgr: error messages, pages and mail, the clock. Who is checked may be late.
* EwController: the tab that edits configuration files, the log view, the label and buttons
  after a while without an answer.
* PickBuffers: travel times, magnitudes and the clock are open choices; picks of one station
  further apart than `BUFFER_TIMEOUT`, the match of a pick by `lPickIndex`, reports, alarms, files.
* ExportAck: the bytes of a packet and their escapes, the filter, the shutdown, a restart of export_ack (it starts with both
  queues empty, so what was in them is lost), a partner without acknowledgements, `RcvAliveInt` of 0.
* TrigQueue: a configuration without `QueueFile`, a queue size that changes between two
  starts, the work on a trigger, status messages.

## 6. What the code does not promise

These behaviours came up while the properties were being stated, most of them found by TLC. They are why some
properties are conditional and some instances exclude a case. Where no run shows it, it can be seen again
by changing the constants named.

* A putter killed between its two `semop` calls leaves the semaphore down for good, and so does one that is returned
  `PUT_NOTRACK` (`transport.c:477`): no process can put into that ring any more (`EveryPutReturns`; `LeftDown` is the exception in `PutReturns`).
* A message that needs the room of all others empties the ring before it is copied
  (`transport.c:507`); a getter whose place is `keyold` then passes both lap checks and returns bytes of
  a message that was not published yet (`DeliveredIntact`, and `NoGetterExit`, with `KeyMax = 4` in `MCTransport_ordered.cfg`).
* After a key reset a tracker may point into a message whose bytes look like a start,
  and a getter that stood still over a reset may take its old place for a place after
  `keyold`; then it reads what was overwritten, and exits or returns a torn message
  (`NoGetterExit` with the constants of `MCTransport_reset.cfg`). Such a place may also be in a deleted message and be raised beyond `keyin`
  (`KeyoutInRange`); the getter then takes every call for a key reset and gets nothing, until putters have passed that place.
* A getter that misses a multiple of 256 messages of a logo is returned `GET_OK`
  (`MissExact` with `SeqMod = 2`).
* A requested logo that finds no room in the table has no place of its own, and is
  returned the same message again (`InPutOrder` with `NTrackGet = 1` and two requests).
* `disk_wcatwc` ends while its writer thread is in the middle of a packet and others are
  queued; nothing waits for it.
* A stop of `trig2disk` in the middle of a dump leaves a truncated file, and what the dump
  before had saved is gone; a dump that cannot open the file leaves the older one, so
  that a trigger may be processed twice (`InOrderOnce` with `"open"` in `DumpFails`).
* `dumpqueue` ignores the result of `fclose` (`mem_circ_queue.c:316`): a file that was cut short there stays, trig2disk reports nothing, and
  a restart loads what is left (`WholeOrDeleted`; for `SavedUnlessFull` it is a dump that failed).
* With `DelayTime` and triggers that keep coming, each trigger of `trig2disk` may be pushed out before it is old enough, and none is ever begun:
  `trig2disk.c:1216-1222` says so ("If the MessageStacker is fast enough, we'll never have to do any work!"). `BegunOrPushedOut` promises no more.
* An overwrite in a full queue of `trig2disk` is not dumped (`trig2disk.c:1109`): until the next change the file
  holds the overwritten trigger and lacks the newest, and a restart brings back the one and
  loses the other. `trig2disk_cmd.html:239-242` promises that the queue is saved; `SavedUnlessFull` says what holds.
* A thread of `trig2disk` that dies before main sets its status to 0 is never noticed.
* startstop that finds its command file wrong at a reconfigure exits and leaves all
  children running (`GetConfig`, from line 356 of `startstop_unix_generic.c` on), though the comment at 276 says that it
  must not bail out (`NoOrphans`). An orderly end waits until no child is left (`NoneLeft`), with no limit of time.
* A failed fork leaves pid -1 in `child[]`. A restart by that pid, which an operator can read off a status, kills
  every process startstop may signal; ew_controller leaves such a row out, so that the module cannot be
  started from it any more, and a selected row below that one is another module's after the refresh, since the pid to look for is read out of
  the table when that has been rebuilt already (`NamedIsMeant`).
* A statmgr that a reconfigure adds has pid 0 when it is "restarted": kill(0, SIGKILL) ends startstop and its
  group (`AfterStop`, "killed").
* statmgr asks once per transition from alive to late. If that request is lost, or the fork for it fails, the module
  stays down: `Restarted` speaks of modules both agree on.
* A stop that comes before the first heartbeat told the pid is not recorded by statmgr; with
  operators on another ring than the one statmgr polls last, it may find the module dead
  before it gets the stop. In both cases the module is started again: `StaysStopped` is about a calm moment and
  one ring, the run `stop` shows the rest.
* loc_wcatwc: without `WholeTurns` two buffers can get the same id. Id 0, after the wrap, means "no quake" to
  hypo_display and to the test `iHypoID > 0`, so that quake cannot be edited.
* loc_wcatwc reads in front of the first entry of a buffer that a deletion emptied before the last location of its quake
  (`Locate`: either value of `iLoc`).
* A repick or deletion does not relocate when the last entry of the buffer is an amplitude: `iLoc` is then 0 and
  only magnitudes are computed, though the comment at `loc_wcatwc.c:285` speaks of a forced location. `Revisited` says that the
  buffer is visited.
* A pick that new_develo knocked out (`iUseMe` 0) is used again by the next location, which revives all such picks.
* A manual pick that names a quake replaces the first entry of its station there, which may be its amplitude; its
  P then is in the buffer twice.
* A buffer that LocateThread chose to recycle without the mutex is emptied with whatever main put there in
  between; picks that are not located yet are never gathered in the active buffer.

* `FindBadPs` with fewer automatic picks than it may knock out takes the first pick of the buffer, be it manual
  (`locquake.c:162`), though `earlybirdlib.h:406` has an `iUseMe` of 2 kept. `ManualKept` is about `Enough` automatic picks.
* export_ack loses a message when main kills SocketSender between `dequeue` and `SQS_NEW` (`export_ack.c:1118-1126`), and import_ack one
  that it acknowledged and had not put (`import_ack.c:637-690`); `import-export_ovr.html:140` and `169` promise duplicate
  data instead of lost data (`NoneLost`; `NoneForgotten` excepts them by `lost`).
* A SocketSender that is killed with the mutex takes it along: MessageStacker and every later SocketSender wait for ever,
  and main goes on beating (`Progress` excepts a mutex that is "dead").
* Killed between the number of a new slot and the step of `SendSequence` (`export_ack.c:1127-1128`), SocketSender leaves a new slot that is
  `SendSequence` itself: the review after the reconnect begins with it, and the newest message arrives before older ones (`FirstInOrder`
  excepts it by `early`).
* Killed between `SQS_NEW` and the number (`export_ack.c:1126-1127`) in the first use of a slot other than 0, it leaves a slot with number 0: the review
  sends it under that number, its acknowledgement clears slot 0, and its own slot is never acknowledged. As that is the slot `SendSequence` stands
  at, SocketSender waits for it without heartbeats until the partner gives up, reconnects and does the same again: no later message is ever sent,
  OutQueue overflows, and a message in slot 0 that had not arrived is lost. `Jammed` is that state: `NoneForgotten` and `Progress` speak of
  what happens before. In a later lap the slot still has its own number, and the kill does no more than the one before.
* An acknowledgement that comes between the send and `SQS_SENT` is overwritten. SocketSender then waits for the slot in a
  loop without heartbeats until the connection is given up and the slot sent again. It is only the heartbeats that
  end it: with `RcvAliveInt` 0 and no limit at the partner, never (mutant `ImportLost_Never`).
* The check for a hung thread has the arguments of `difftime` the wrong way round (`export_ack.c:737`, `export.c:685`):
  its result is never positive, so no hung thread is noticed.
* `KillThread` on a thread that has ended is undefined, and on 64-bit builds the thread id passed to it has been cut to 32 bits.

## 7. Plan

Done: `Transport`, `RingLog`, `MemCircQueue`, `DropFifo`, `DiskWriter`, `TrigQueue`, `ControlRings`, `StartStop`,
`StatMgr`, `ControlPlane`, `EwController`, `LocateQuake`, `PickBuffers`, `ExportAck`. Next, the most important first:

1. `BufferThread`: two tables, two rings, two threads; with `RingLog` on both sides.
2. `WaveTank`: tank, index and structure files over a crash.
3. `Export`: the exports without acknowledgements, as `ExportAck` with no slots; they lose what was sent and not read.

Proofs: every safety property of the runs is proved; the modules above come with theirs.

Runs are grouped by what they share, so that new components can be added without a
run per property.
