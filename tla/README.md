# Verification of the Jak 1 runtime

Models, model checking and proofs for the runtime of this repository: the C++
programs that stand in for the PlayStation 2 of Jak 1 (`src/game`), and the GOAL
code that drives them (`src/goal_src/jak1`), with which this mod is built.
Six subsystems are modelled: the loading of DGO files, the level slots that ask
for it, the memory card, the IOP kernel with its RPC channels, the ISO thread
with its queue, buffers and audio stream, and the hand-over of frames and level
data between the game and the renderer.

## 1. Inventory

### How the system is put together

`game/runtime.cpp` starts one OS thread per machine of the original console.

| Part | Source | State | Operations | Talks to |
|---|---|---|---|---|
| EE kernel and GOAL game | `game/kernel`, `goal_src/jak1` | heaps, symbol table, processes, level slots | link an object, run a frame, load a level, save | IOP by RPC, GFX by DMA chains, memory card by `op` |
| DGO client | `kernel/jak1/kdgo.cpp`, `engine/load/load-dgo.gc` | the DGO call, heap position | begin, get-next, continue, cancel, link | DGO thread by the DGO RPC |
| Level slots, load-state | `engine/level/level.gc` | two slots, their status, `want` | load-begin, load-continue, unload!, update! | DGO client, linker |
| IOP kernel | `game/system/IOP_Kernel.cpp` | threads, semaphores, mailboxes, RPC records | sleep, delay, wake up, send, wait, dispatch | called from EE and IOP threads |
| Overlord: ISO thread | `overlord/jak1/iso.cpp`, `iso_queue.cpp`, `fake_iso.cpp` | command queue, page buffers, a read under way | poll a message, read a page, run a callback, return a command | RPC threads by mailboxes, EE memory by DMA |
| Overlord: DGO, STR, PLAY, RAMDISK, LOADER, PLAYER threads | `overlord/jak1/*.cpp` | one command each, header cache | serve one RPC | ISO thread, sound driver |
| Memory card | `kernel/common/kmemcard.cpp` | `op`, `mc_files`, eight bank files | MC_save, MC_load, MC_run, MC_get_status | auto-save process, file system |
| Auto-save process | `engine/game/game-save.gc` | mode, result, buffer | get-card, save, restore, error, done | memory card, progress menu |
| Graphics | `graphics/pipelines/opengl.cpp`, `opengl_renderer` | frame index, chain to render, loaded levels | send_chain, vsync, sync_path | game thread, two mutexes, two condition variables |
| Debugger link | `system/Deci2Server.cpp`, `kernel/common/klisten.cpp` | socket, drivers, message buffer | accept, read, send | compiler's listener |
| Sound | `overlord/jak1/srpc.cpp`, `sound/989snd` | banks, voices | load, play, mix | ISO thread, audio callback |
| Mod: movement and weapons | `goal_src/jak1/engine/mods` | player state, ammunition | states of the player | game |
| Compiler, decompiler, language server, tools | `goalc`, `decompiler`, `lsp`, `tools` | | | not part of the running game |

### What is hard in it

* **Concurrency.** EE, IOP and graphics are OS threads. The IOP's own threads
  are coroutines of one OS thread that switch only at sleeps, delays and waits,
  so an IOP handler is atomic between two such points and nothing else is.
* **Hand-over by protocol, not by ownership.** A DGO object is sent straight
  into a buffer of the EE's heap. Nothing stops the IOP from sending the next
  one over it except the order of the messages `sync_mbx` and `dgo_mbx`.
* **Abandoned requests.** The game discards a level in the middle of its load
  without telling the IOP.
* **Crashes.** A save is written in place into one of two banks, and what a
  crash leaves of it is read without being verified.
* **Bounded resources.** Four page buffers, 64 VAG commands, one save buffer.
* **Polling.** The game polls RPCs, memory card results and the vertical
  blank; a poll of something that never changes is a hang.

What makes each part correct:

| Part | Properties |
|---|---|
| DGO loading | objects whole, in order, none overwritten in use; the last one at the heap's end; no message left over; every call answered |
| Level slots | a slot links only objects of its own level; a load ends or is retried; two loads never share the linker |
| IOP kernel, SIF RPC | no lost or spurious wake-up, no request lost or run twice, a command lives as long as the ISO thread holds it |
| ISO queue | no buffer leaked or used twice, the pool is never empty when one is needed, pages in order, each load returned |
| VAG streams | a command is freed once; flags and clocks do not outlive their stream; it is not read past its end |
| Memory card | a saved file keeps a whole save; what is shown is what is loaded; no older save is loaded; requests end |
| Graphics synchronisation | a chain stays whole while it is rendered, no lost notification, nobody waits for ever |
| Level data of the renderer | a level is requested, initializing or loaded, never two of these; the model table refers to loaded levels only; a wanted level is loaded |
| DECI2 | the mutex is released on every path; a message is dispatched once |

`PROJECT.json` lists the hazards at their lines, those no property covers yet
with the reason.

## 2. Plan

The most important behaviour first; what is done is marked.

1. `DgoLoad` with its abstraction `DgoPipeline`: the DGO client, the DGO and
   ISO threads and the load state machine. *Done*, safety and the refinement
   proved.
2. `MemCard` with its abstraction `SaveStore`: memory card and auto-save
   process. *Done*, safety and the refinement proved.
3. `LevelLoad`: two level slots and `load-state update!` over what `DgoPipeline`
   promises, with the linker's state and the last received message they share,
   and its abstraction `LevelSlots`. *Done*, safety and the refinement proved.
4. `IopKernel` with its abstraction `RpcChannel`: threads, sleep, delay,
   wake-ups, the RPC records, and handlers whose commands lie on their stack.
   It justifies that `DgoLoad` takes a call as one step. *Done*, safety and
   the refinement proved.
5. `IsoThread`: several commands with priorities, the buffer pool, close while a
   read is under way, and the audio stream. *Done*, safety proved.
6. `GfxSync`, `GfxLoader` and their composition `Graphics`: `gl_send_chain`,
   `gl_vsync`, `gl_sync_path`, the render loop, the level loader and its thread.
   *Done*, safety proved.
7. Open: the chunk cache of `RPC_STR` (`StrCache`), the debugger link (`Deci2`).
8. Open: an abstract specification of the ISO queue that `IsoThread` implements.

Constants carry named assumptions, each handler is one action, invariants are
conjunctions of named parts, and no module uses RECURSIVE, so that each can be
proved about.

## 3. Modules

| Module | What |
|---|---|
| `DgoLoad` | EE client, DGO thread, ISO thread, `RunDGOStateMachine` |
| `DgoPipeline` | what loading promises, without threads or buffers |
| `DgoLoad_proofs` | theorems about `DgoLoad` |
| `DgoPipeline_proofs` | that `DgoLoad` implements `DgoPipeline` |
| `MemCard`, `MemCard_proofs` | memory card, auto-save process, crashes; that they implement `SaveStore` |
| `SaveStore`, `SaveStore_proofs` | what saving and loading promises, without banks or counts, and what follows from it |
| `LevelLoad`, `LevelLoad_proofs` | level slots, load-state, shared linker and channel |
| `LevelSlots` | what the slots promise: one load at a time, statuses in order, no wanted level given up |
| `IopKernel`, `IopKernel_proofs` | IOP threads, RPC records, handlers that wait for the ISO thread |
| `RpcChannel` | what an RPC channel promises: a call is handled once, then answered |
| `IsoThread`, `IsoThread_proofs` | read loop, priority stack, buffers, audio stream |
| `GfxSync` | game and graphics thread taking turns over a frame |
| `GfxLoader` | level data: the game's wishes, the loader thread, upload and unloading |
| `Graphics`, `Graphics_proofs` | the three threads together |
| `MC*` | instances of these for TLC, each with its `.cfg` files |

How they fit: `LevelLoad` uses of the DGO channel what `DgoLoad` shows (a call
is answered, in order, with MORE or DONE). `DgoLoad` uses of the RPC channel what
`IopKernel` shows (`RpcChannel`), and follows one command through the loop whose
traffic of many commands is in `IsoThread`. `IsoThread` in turn leaves open when a
page of the DGO is consumed, which `DgoLoad` says, and sleeps in a read as
`IopKernel` shows it may. `Graphics` conjoins `GfxSync` and `GfxLoader` at two
places: the game names its levels at the end of a turn of its loop, and the
renderer brings the loader up to date at the start of a chain.

Operators whose comment begins with "Fault:" are not part of a specification;
each is a plausible error in the definition that follows it, and `PROJECT.json`
says which property detects it.

### DgoLoad

The EE asks for a file (`LOAD`); the IOP loads the first object into buffer 1
and the second into buffer 2 ahead of time; after linking one the EE says so
(`LOAD_NEXT`), which lets the state machine go on and is answered when the next
object is in memory. The last object waits for one more `LOAD_NEXT`, when both
buffers are free, and goes to the top of the heap.

| Variable | Code |
|---|---|
| `ee` | where the client is: `idle`, `wait` for an answer, `linking`, `linked` (before continue), `loaded`, `failed`; the file and heap it loads |
| `heapCur` | `heap->current`, counted in linked objects |
| `rpc` | the record of the DGO channel in `IOP_Kernel`: function, arguments, `started`, `finished`, the answer |
| `dgo` | where the DGO thread waits: in `rpc_loop` (`sleep`) or in one of the three `WaitMbx(dgo_mbx)` |
| `mbx` | messages in `iso_mbx`, `sync_mbx`, `dgo_mbx` |
| `cmd` | `sLoadDGO`; `pages` is its `callback_buffer` list by bytes left, `dest`/`destHeap`/`destPos` its `ee_destination_buffer` |
| `iso` | where the ISO thread is in its loop, the rest of the page its callback runs on, whether a read is under way |
| `content` | what lies in buffer 1, buffer 2 and at the heap top of each heap |

Actions are named for their functions; those of the state machine are one turn
of its `while` each, so that the EE interleaves with every write to its memory.
The DGO thread's actions are whole stretches between two yields and are enabled
only when the ISO thread is at a yield (`open`, `read`, `delay`). `sif_rpc`,
`sif_busy` and the marking in `rpc_loop` run under `sif_mtx` and are one step
each.

Abstractions: object data is an index and a size; the top-of-heap object is
taken to cover both buffers, which it may; linking is a step of unknown
duration; the address arithmetic of a heap is its count of linked objects;
the driver never fails a read. The single-buffer mode (`buffer1 == buffer2`)
belongs to Jak 2 and is never entered: Jak 1 passes two buffers.
`dgo-load-cancel` is called by nothing in the game; it is modelled at the only
place its comment calls good. `CancelDGO` from the cancel RPC dereferences its
command; from `LoadDGO` it is passed `nullptr` and has nothing to fill in.

### MemCard

| Variable | Code |
|---|---|
| `proc`, `told` | the auto-save process (there is at most one) and its last notification |
| `op` | the static `op`: operation, file, data, result |
| `p` | the statics `p2` (save count) and `p4` (bank), and whether the file is open |
| `mc_files` | the static of that name: present, save count, last bank, preview |
| `disk` | the two bank files of each save |
| `buffer` | the save delivered by the last load |
| `issued`, `acked`, `faults` | history: saves asked for, last save that gave OK, faults so far |

A bank is what the code can tell of it: missing, shorter than a bank, full of
zeros, with a header but no valid data, whole. A save is its number. A save in
`pc_game_save_synch` is two steps, `SaveOpen` (the `fopen` that truncates) and
`SaveDone` or `SaveFailed`, with a crash possible between them; everything else
of a `MC_run` is one step, for the game is single threaded there.
`AutoSave_Error` leaves out READ_ERROR because the process does.

Left out: `retry_count` (100, decremented once, never 0: each operation ends in
the same `MC_run`), `mc_last_file` (restore names its file), the format states
(a card is always formatted and `MC_format`, `MC_unformat`, `MC_createfile` only
return OK), the contents of a save. An unwritten file that stays in the page
cache when the power fails *after* OK is not modelled: a crash damages only the
bank being written.

`SaveStore` sees the set of whole saves of each file, the last save that gave OK,
the operation and its result, whether the process waits, what it was told, the
buffer, and whether anything went wrong so far (`Quiet`). Truncating a bank is
`MakeRoom`, which may push out saves but neither the last one nor, while nothing
went wrong, the newest; a look at the card is invisible.

### LevelLoad

Each frame `level-update` runs `load-continue` for both slots and then
`update!`; the IOP answers at any time. A GOAL function that calls others is an
operator from one state of the game to the next, so that calls nest as in the
code (`unload`, `load_begin`, `load_continue`, `AfterLink`, ...).

| Variable | Code |
|---|---|
| `game.lev` | the two `level` objects: status, name, display, the linking flag, the objects run so far, the bsp found, what is left of the login |
| `game.loadingLevel` | `(-> *level* loading-level)` |
| `game.linker` | the one saved state of `link_resume`: object, target, work left |
| `game.relocate` | `*texture-relocate-later*` |
| `game.rpc`, `game.received` | the DGO channel and its last message |
| `game.iop` | the file the IOP is loading and how far it is |
| `game.atTop` | what lies at the heap top of each slot |
| `want` | `want` of `*load-state*` |
| `pc` | where `level-update` is, with the blocking loops of `update!` |

`OneAtATime` restricts the game to wishes that never put two levels under way
(`Careful`); without it the shared state is mixed up, see section 6. Linking a
level's texture page sets `*texture-relocate-later*` only while `loading-level`
is slot 0, whose page comes first in video memory. The page is larger than the
linker copies in one call, so that its link takes several frames in every
instance. Left out: entities, textures, visibility data, special commands of load
boundaries.

`LevelSlots` sees of all this the status and level of each slot and the levels
wanted, and says what the comments above `level-status` and `level-status-set!`
say (`level.gc:248`, `:264`): there is one load at a time, begun in a slot that was
free; the statuses of a load follow in order; and only levels that are not wanted
are given up. A load may skip `loading-bt` in what a frame shows, when the last
object links at once.

### IopKernel

| Variable | Code |
|---|---|
| `state`, `waitType`, `due` | fields of `IopThread`; `due`: threads whose resume time has passed |
| `current` | `_currentThread` |
| `wakeup_queue` | the queue other host threads fill under `wakeup_mtx` |
| `record` | `started` and `finished` of each RPC record |
| `pc`, `todo` | where each thread is, and what its call still asks for |
| `iso_mbx`, `queue`, `left`, `have`, `reading` | the commands on the handlers' stacks, seen by the ISO thread |
| `job` | what the host's thread pool does for the ISO thread |

An IOP thread runs alone until it leaves; the EE (`sif_rpc`) and the pool
(`iWakeupThread`) may take a step between any two of its own. `Dispatch` is
`updateDelay`, `processWakeups` and `schedNext` together. A sleeping thread of
this code never looks why it was woken, so that every wake-up is the awaited one
has to follow from the protocol: that is `SleepersWillBeWoken` and
`CommandsOutlived`. The instance has two servers that load files and the loader,
which delays until a fade is over before it asks.

### IsoThread

| Variable | Code |
|---|---|
| `pc`, `todo` | the place in `ISOThread`'s loop; the commands `ProcessMessageData` has still to visit |
| `iso_mbx`, `gPriStack` | messages not received; the priority stack |
| `free`, `callback_buffer` | `sFreeBuffer` and `sFreeStrBuffer`; the list of filled buffers of each command |
| `location`, `taken`, `fd` | pages read of each file, pages its callback consumed, the file |
| `cmd_to_process`, `read_buffer`, `sReadInfo` | the read of this round |
| `vag`, `in_progress`, `gVAGCMD`, `vag_paused`, `unk`, `clock`, `half`, `gPlaying` | `vag_cmd` and the statics that go with the stream |
| `vag_cmd_cnt`, `spinning` | the pool of stream commands, and `GetVAGCommand` looking for a free one without yielding |
| `waiting` | clients whose command has not been returned |

Clients send only while the thread yields (`delay`, `reading`). A page is its
number, so that order and repetition can be told. `AtEnd` is the test of
`CheckVAGStreamProgress` for the half of the SPU buffer in which the stream ends:
once the voice is there, no more data is wanted and the voice plays no further.
When a page of the DGO is
consumed is a choice here. Left out: volumes, the ISO directory, the contents of
a VAG header but for whether it is one.

### GfxSync, GfxLoader, Graphics

| Variable | Code |
|---|---|
| `game` | the game thread's place in the display loop, and whether it tests, has failed the test and still holds `sync_mutex` (`block`), or waits |
| `on_screen`, `buf` | the frame being drawn; what the DMA buffers of the two frames hold |
| `has_data`, `chain` | `has_data_to_render`; the chain `dma_copier` refers to |
| `ticked`, `passed` | what the frame counters compare to: past the last chain, past the start of a `gl_vsync` |
| `render` | the graphics thread's place in its loop |
| `m_should_quit`, `exiting` | the window is closed; `MasterExit` is set |
| `m_desired_levels`, `m_level_to_load`, `initializing`, `loaded`, `unused` | the members of `Loader` of these names, maps by their keys |
| `merc`, `merc_done` | references to a level's models in `m_all_merc_models`; the stage's `m_done` |
| `looking`, `thread`, `upd` | who is in which section of the loader |

A section under one mutex is a step. The chain is rendered out of the game's own
memory (`run_dma_copy` is off), so the protocol is all that keeps it whole. The
unloading part of `update` runs without the loader's mutex and is therefore cut
into steps of its own. Left out: the frame limiter, the contents of the upload
stages, textures.

## 4. Runs

All runs explore their whole state space. A property the invariant `IInv` of a
module contains, its type invariant among them, is not listed a second time
unless it is a claim of its own.

| Run | Instance | Shows |
|---|---|---|
| `dgo_load` | files of 1 and 4 objects, one missing name, two heaps, headers of 2 and pages of 5 units; 170 176 states | objects intact and in order, the last at the heap's end, `NoLateWrites`, `EveryCallAnswered`, `IInv`, and that `DgoLoad` implements `DgoPipeline` |
| `memcard` | two files, 5 saves, 2 deaths of the process, 1 file error, counts below 4; a death leaves a short or a whole bank; 201 890 states | the menus show what is loaded, a restore delivers the newest save, the process ends |
| `memcard_crash` | two files, 5 saves, 2 power failures, 1 file error, counts below 4; a failure leaves a short, a zero or a whole bank; 332 662 states | a saved file keeps a whole save, `SaveStore` is implemented |
| `level_one` | two levels of four objects and one without a file, one load at a time, given up at any point; 208 866 states | slots link their own objects, whole, one loading level, `LevelSlots` is implemented, wanted levels are loaded |
| `iop_kernel` | two file servers and the loader, two calls each of up to two files of up to two buffers, one delay; 254 307 states | no handler outruns its command, every sleeper will be woken, `IInv`, `RpcChannel` is implemented, with its liveness |
| `iso_thread` | three single loads, the DGO and a bank; a stream of one page, one of three and one that is no VAG; a stack of two entries, 3 loads, 2 stream commands, one message; 957 325 states | buffers and pages, stream flags and pool, `IInv`, every load returns |
| `graphics` | two levels, room for one unused; 261 856 states | chains whole, notifications kept, iterator and models valid, `IInv`; waits end, blackouts end, wanted levels are loaded |
| `memcard_older`, `level_mixed`, `level_stale`, `graphics_exit`, `graphics_race` | one property each | the disagreements of section 6 |

Why the bounds are enough. *DGO:* four objects give each state of the double
buffer once with the toggle at 1 and once at 2, then the transition to the last
object; a file of one object is the special case of the header; pages of 5 split
a header and an object and hold whole objects between parts of two others. Two
heaps are what the game has. *Memory card:* five saves with counts below 4 wrap
the count with the newest save in either bank; two deaths allow the second to
hit while the damage of the first is in place. *Levels:* the game has two slots;
an object whose link takes several frames, one that sets the texture flag, one
more and the bsp are the kinds `load-continue` distinguishes. *Kernel:* priorities
are those of `overlord.cpp`; two buffers distinguish the first from the last, two
calls let a second one meet the end of the first. *ISO thread:* three singles
over a stack of two make queueing fail; three pages fill both halves of the SPU
buffer and end in either, and one page is the stream that ends in the half it
begins in; two stream commands are enough to replace, stop, pause
or continue a stream at every point of another's life. *Graphics:* with one
wanted level of two and two places, the loaded levels are the limit, so a level
is unloaded whenever the game changes its mind.

`graphics` says CHECK_DEADLOCK FALSE because the runtime really ends. Nothing
else stops: the menus can always look at the card, the ISO thread polls, a frame
follows a frame. In `iop_kernel` the calls are bounded, but the ISO thread goes
on polling.

### Fairness

* `DgoLoad`: `WF(IsoThread)`, for the ISO thread waits for nothing but time and the
  disc; `SF(DgoThread)`, for it may run only when the ISO thread yields, but at
  such a point the dispatcher takes it first (priority 98 against 100). The EE
  has none: `EveryCallAnswered` does not depend on its going on.
* `MemCard`: `WF(MC_run)` and `WF` of the process: each runs once a frame. Deaths,
  errors and new saves have none.
* `LevelLoad`: `WF(Frame)`, for frames follow each other, and `WF(Answer)`, which is
  `EveryCallAnswered` of `DgoLoad`. The game's wishes have none.
* `IopKernel`: `WF` of the kernel loop and of the thread that runs, of the pool's
  jobs and of each delay's end. The EE need not call.
* `IsoThread`: `WF(IsoRound)`: the loop goes on. Clients and the playing voice have
  none.
* `Graphics`: `WF` of the three OS threads; `SF(PlayFrame)`, for the debug window
  does not hold a frame for ever; `SF(StagesDone)`, for a level's stages are
  finite. `WantedIsLoaded` further assumes that chains are rendered again and
  again (see the last note of section 6).

## 5. Proofs

Eight modules of proofs, each about `Spec` for every value of the constants that
the named assumption of the module admits.

`DgoLoad_proofs` (every set of files and heaps, object sizes, header and page
size): `Spec => []IInv`, and from it `TypeOK`, `LinksIntactObject`,
`LastObjectAtHeapTop`, `ChannelQuietBetweenCalls`, `ErrorOnlyIfMissing` and
`NoLateWrites`. The properties are far from inductive: that the IOP does not
overwrite the object being linked depends on where all four parties are. `IInv`
therefore gives, for each place the DGO thread can wait, the messages under way
and how far the state machine is (`Handshake`): asleep, no message is under way
and either no load is under way or one object is returned and intact, with the
next at work in the *other* buffer (`Ahead`); waiting in LoadDGO, the request, the
state machine before its first object (`Starting`), or an answer; and so on.
`Progress` ties the state machine's counters to its target buffer, `EEInv` the
EE's count of linked objects to the number of the object last returned
(`Returned`). Each action is first read off as facts about single fields; then
each part of `IInv` is derived from those facts.

`DgoPipeline_proofs`: `Implements == Spec => ImplementsPipeline`. The two ends of
the pipeline lie in different threads: `sent` is the state machine's
`objects_loaded`, `linked` the EE's heap, and a step of one must be allowed by the
other. `SendsOurs` is the heart of it: when the machine completes an object the EE
waits for, at most one other is unlinked, and none if this is the last. `IInv`
does not remember enough of the past for that, so `PipeInv` adds what an answer was
about (`AnswerInv`), that a load is cancelled only between two objects
(`CancelInv`), and that sLoadDGO is returned with all objects loaded unless it was
aborted (`EndInv`). Only `Read_Obj_data` maps to `Send`; all that the DGO thread and
the rest of the state machine do is invisible to the pipeline.

`MemCard_proofs` (every number of files, limit of the save counts and bound):
`TypeCorrectness`; `Invariant` and `SaveSurvives`, assuming that a crash never
leaves a bank with a new header and no valid data: a bank has a save count exactly
if it is whole (`BankInv`), so the bank being written is never the whole one
`SomeSaveSurvives` needs; `KillInvariant` and `PreviewIsLoaded`, assuming a death
leaves a short bank or a whole one: the two banks never have the same save count
(`CountInv`), also when it wraps, so `>` in one place and `<=` in the other agree.
`SaveSurvives` admits a bank full of zeros, as a power failure may leave it.
`NewestIsDelivered` needs more of the past: as long as nothing failed, died or
was deleted and no count can have wrapped, the banks of a file take turns
(`TurnsInv`), the bank with the larger count holds the save acknowledged last,
and the save under way goes to the other one, which is why the newest save is
never the one being overwritten. The condition is part of the property, for with
a death in between it is false (`memcard_older`). `StoreImplemented` is the
refinement of `SaveStore`, under the assumption of `Invariant`. It uses all three
invariants at once: `BankInv` for the truncation, which must leave a whole save of
the file (`MakeRoomStep`), `TurnsInv` for the newest save to be left and delivered
while nothing went wrong, and `WholeInv`, that until then every bank is whole or
missing or being written, so that no request is refused (`RefusedStep`).

`SaveStore_proofs` (any set of files) proves of the abstract specification alone
what its reader would want of it: `StoreKeepsSaves`, and `StoreAnswersRight`: while
nothing goes wrong there is no error, a file said to have no save was never saved,
and a restore delivered the newest save. `AnswersRight` in `MemCard_proofs` carries
the latter over to the code by the refinement.

`IopKernel_proofs` (any number of servers, any ranks and bounds): `Spec => []IInv`,
where `RunInv` says who may be running, `ServerInv` ties each server's place to
its state, its record and the one reason it can be woken for, `IsoInv` does so for
the ISO thread and the pool's job, and `CommandInv` for the commands. From it
follow `CommandsOutlived`, `NoStaleDelay` and `SleepersWillBeWoken`. `Implements`
proves that initial states and steps map to `RpcChannel`; its fairness is checked
by TLC as part of `ImplementsChannel`.

`IsoThread_proofs` (any number of loads, files of any length, any stream commands,
any stack length): `Spec => []IInv` and from it each conjunct. The argument for
`PoolNeverEmpty`, that `AllocateBuffer` never loops for ever, is a count: the DGO
holds at most two page buffers, all single loads together at most one, because
`ProcessMessageData` empties their lists before the next page is linked
(`CapacityInv`), and the one being read makes four, which is the pool.
`PoolConserved` counts the stream's commands in the mailbox: each handler removes
one and frees one, and a music request, which goes round in the mailbox, is not of
the pool. `NotOverread` is about two threads that follow each other through the SPU
buffer: `VoiceInv` ties the number of pages handed over to what has been read and to
the length of the stream, and once they are all there no other one is asked for
(`Exhausted`), because in the half the stream ends in none is wanted (`WantsData`).
That a stream of one page reads a second is stated, not assumed away: two pages
are read before its length is known. `BuffersConserved` needs in addition that a pending read is linked to a queued
command or given back (`ReadInv`), and `PagesInOrder` that what was read is what
was taken plus what lies in the list (`LocationInv`).

`Graphics_proofs` (any levels, limits and lists): `SyncInv` and `LoaderInv` are
inductive each for its half, and every step of the composition is a step of a
half or of both. `SyncInv` says which of the two frames the pending chain lies
in at each place of the game, which gives `CompleteChains`, and that the frame of
a chain is over before the next is sent (`FramesInTurn`). `NotificationsKept`
shows why the notification under the wrong mutex does no harm: whenever the
game has failed its test, the renderer's frame still has a notification to
come, under the right one.

`LevelLoad_proofs` (any levels, files of any number of objects, links and logins of
any length): `TypeCorrectness` holds for every game, also one that lets two loads
overlap. The rest assumes `OneAtATime` and is false without it, as `level_mixed`
shows; `CareInv` restates the guard `Careful` of the game's wishes for every place
of a frame, and the proof shows that each step of `update!` keeps it. The properties
relate a slot to what belongs to no slot, so `LoadInv` says for the one slot under
way in which of six phases its load is: the file is asked for (`AskedFirst`), or the
next object (`AskedNext`), or it was answered (`Answered`), an object is being linked
(`Linking`), a texture page waits to move (`Moving`), or the file does not exist
(`MissingLoad`). Each phase fixes the request, the answer, the file the IOP has
open, what lies at the heap top and what the linker is about, in terms of the number
of objects run. `Stepped` is what a step of the loading slot must show; `SteppedInv`
derives the invariant from it, once for all operations. A slot that was unloaded
with a link under way is still under way for `LoadInv` though its status is
`inactive`: that is what `Careful` must respect, and where `level_stale` comes from.
From the invariant follow `OwnObjects`, `WholeLevels` and `LoadingLevelIsRight`.
`StatusesInOrder == Spec => ImplementsStatuses` is the refinement of `LevelSlots`:
what a frame does to a status is read off the code without any invariant (`Moves`);
the invariant adds that `login-begin` never gives up a level for want of its bsp
(`Calm`), that the slot taken for a new level is free and the other at rest
(`FreeSlot`), and so that `level-get-most-disposable` never has to choose among
slots in use.

Only model-checked: all liveness
(`EveryCallAnswered`, `RequestEnds`, `WantReached`, `LoadsReturn`, `SyncPathReturns`,
`VsyncReturns`, `WantedIsLoaded`, `BlackoutEnds`), which under fairness is beyond
the prover used, and with it the fairness of `RpcChannel`. `ImplementsChannel` says
so too; `IopKernel_proofs` proves its safety part. Every invariant of the runs
that are to pass is proved, and each refinement but for fairness. The properties of the other runs
are false, which is what those runs are for.

## 6. Disagreements between the code and its comments

| Run | What happens |
|---|---|
| `memcard_older` | with bank 0 damaged, counting starts again at 1 while bank 1 keeps its larger count: the new save is shadowed by the old one |
| `level_mixed` | with two levels under way, the slot that runs first takes the answer meant for the other and links the other level's object |
| `level_stale` | a level unloaded while an object of it is being linked keeps its linking flag, and the object is run in a heap that has been reset |
| `graphics_exit` | `gl_sync_path` does not look at `MasterExit`: with a chain pending when the graphics loop ends, the EE thread waits for ever and the runtime does not come down |
| `graphics_race` | the renderer erases from `m_loaded_tfrag3_levels` without the mutex while the game searches it ("only main thread can touch this") |

Noticed while modelling, without a run of their own:

* the presence of a save is decided by bank 0 alone (`kmemcard.cpp:517`): a crash
  while bank 0 is written hides the whole save in bank 1 from the menus, and a
  restore ends with no-save;
* a short bank 1 makes every load fail although bank 0 is whole
  (`kmemcard.cpp:324`); the model has it, no property claims otherwise;
* after READ_ERROR the auto-save process polls a result that will not change
  (`game-save.gc:1113`); only a bank of full size without valid data leads there,
  which the death of the process does not leave, so `RequestEnds` holds in the run
  `memcard`, and a power failure may, as in `memcard_crash`;
* a bank of full size without valid data is taken for the newest, for the card is
  read without verifying it (`kmemcard.cpp:164`), and the only whole bank is
  overwritten next; `SaveSurvives` excludes it by assumption;
* once the save count has wrapped, bank 1 with count 1 is the older one
  (`kmemcard.cpp:199`); this takes 2^32 saves;
* `GetVAGCommand` waits at 63 commands, but its mask has 32 bits: with 32 in use it
  looks for ever and never yields (`iso_queue.cpp:333`); a client sends so many
  only if the ISO thread stands still;
* a STOP that does not match the stream clears `vag_paused` and `unk` all the same
  (`iso.cpp:697`);
* `gl_send_chain`'s comment speaks of copying the chain, which `run_dma_copy` turns
  off; nothing but the protocol of `GfxSync` keeps it whole;
* a chain sent between the end of the 40 milliseconds the renderer waits and its
  clearing of `has_data_to_render` is dropped (`opengl.cpp:480`); the game loses one
  frame.

## 7. Not modelled

* The relocation of data by the linker and the EE kernel's heaps and symbols:
  sequential code whose difficulty is the layout of data. The steps of the
  linker over its saved state are in `LevelLoad`.
* The drawing of frames, sound synthesis, code translated from the PS2's vector
  units, the movement of the mod's player: data processing and real arithmetic.
  What remains of the mod's weapons restates its guards.
* The compiler, decompiler, language server and tools: sequential, with no state
  over time.
* The overlords of Jak 2 and 3, which this mod does not play, and with them
  blocking mailboxes and event flags. Semaphores: none of Jak 1 ever has two
  waiters, so the order in which `SignalSema` wakes them does not show.
* The chunk cache of `RPC_STR`, one sequential handler, and the debugger link,
  which exists in debug builds only; both are in the plan.
* The delayed write-back of an acknowledged save (`fclose` without a sync), a matter
  of the file system, and the killing of the auto-save process while it polls.
