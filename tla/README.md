# A verification project for umvc3-rollback

The program is a proxy DLL that adds rollback netplay to a fighting game whose
source nobody has: it hooks the game's input, allocation and frame functions,
snapshots the game's memory page by page, exchanges pads with a peer over UDP,
and, when a pad it guessed turns out wrong, puts the memory back to the frame
that went wrong and runs the game forward again.

These modules model the parts of it that carry its own logic. Source paths
below are relative to `src/` of the repository.

- [1. The system](#1-the-system)
- [2. The modules](#2-the-modules)
- [3. The runs](#3-the-runs)
- [4. What is proved](#4-what-is-proved)
- [5. What the code does not do](#5-what-the-code-does-not-do)
- [6. What is left out](#6-what-is-left-out)
- [7. The plan](#7-the-plan)

Run a model with `tlc -config NetInput_exchange.cfg MCNetInput`, check the
proofs of a module with `tlapm NetInputProof.tla`.

---

## 1. The system

### 1.1 Components

| Component | State it keeps | Operations | Hard because |
|---|---|---|---|
| Input exchange (`net_input.cpp`) | timeline (`g_epoch`, `g_want`, `g_delay`), clock (`g_net_frame`), two rings of pads, guesses, the newest frames known here and there | `propose_epoch`, `on_peer_epoch`, `on_recv_input`, `on_frame_begin`, `pump_stalled`, `advance_frame`, `pad_for_engine_frame` | datagrams are lost, duplicated, reordered; both peers may restart the clock at once; rings are overwritten in place |
| Session and transport (`net_session.cpp`, `net_transport.cpp`) | handshake state, nonce, timers, "peer is running", relay address, punched address and its freshness | `session_init`, `session_pump`, `transport_send_raw`, `transport_recv_raw`, `direct_is_live` | two paths, each working in two, one or no directions, chosen on one side's evidence; timeouts |
| Engine arm (`net_engine_arm.cpp`) | armed, pending, target frame, disarm request | `propose`, `on_peer_propose`, `tick_should_arm`, `propose_disarm`, `on_peer_disarm`, `consume_disarm` | presses cross; the clock they are stated in is restarted by the arm itself; the effect may be refused |
| Frame driver (`hk_main_proc` in `resim.cpp`) | frame counter, rollback request, stall counter, TimeSync debt | the stall gate, arm and disarm, save, rollback service, run a frame | decides when to hold; both peers may hold at once; a request lives across passes |
| Frame mapping (`net_input.cpp`) | `g_net_for_engine`, guesses, `g_rb_request` | `on_frame_begin` live and replayed, `on_recv_input`, `pad_for_engine_frame` | two clocks, one of them restarted under the other; a replay writes the map it reads |
| Arena snapshots (`arena.cpp`) | ring of page slots, baseline, write watch, dirty bits | `capture_baseline`, `save`, `load` | incremental: correct only if no written page is ever missed between three structures |
| Deferred fold (`arena.cpp`) | job queue, return ring, counters, the worker | `push_return`, `fold_worker`, `fold_drain`, the fold in `save` | a lock-free queue between two threads, with a switch that changes who folds |
| Rollback (`do_rollback` in `resim.cpp`) | frame cap, parked threads, paused voices, snapshots of the allocators | freeze, gate, load, restore the kept state, replay, thaw | every early return must undo what the phases before it did |
| Arena carving (`arena.cpp`) | watermark, free list, reservations, heap zone | `hk_VirtualAlloc`, `hk_VirtualFree`, `carve_region_for_pool`, heap hooks | hooks run on every thread of the game; its lists stay when a rollback brings back what was carved from them |
| Allocator unit (`resim.cpp`, `alloc_*`, `flist_rebuild.cpp`) | per saved frame: descriptor, free chain, alloc list | walk, heal, rebuild, capture, replay, repair | many locks taken one by one, with an unlocked fallback; the chain is in pages of several frames |
| Slab identity and quarantine (`idspine.cpp`, `quarantine.cpp`) | serial per block, held frees, their table per saved frame | birth, hold, flush, save and restore of the table, reconcile | state outside the arena that the revert does not touch |
| Thread freezing (`suspend.cpp`) | suspended threads | suspend, resume, lock probes | a frozen thread may hold a lock |
| Voice pool (`voice_pool.cpp`) | retained audio voices with the frame of their destruction | retain, flush, pause, restart of the waits, flush at a disarm | destruction deferred past a rollback that may bring the pointer back |
| Surfaces (`rtv_probe.cpp`) | wrappers known, destroyed, constructed in a replay | constructor and destructor hooks, `preserve_save`, `preserve_restore` | the wrapper goes back in time, the driver's reference count does not |
| The other rings of a rollback (`resim.cpp`) | `.data`, heap zone, allocator heads, per saved frame; the PRESERVE list; kept critical sections | `save_*`, `restore_*` | four rings of two lengths, searched differently, emptied at different times |
| Render kick (`resim.cpp`) | counter and toggle in memory a load leaves alone, their values per saved frame | record, suppress and play back, force at the end | a replayed frame must find what it found live; the record is one frame behind |
| Preservation of single fields (`*_preserve.cpp`, `dynamic_restore.cpp`) | copies of fields, in tables of a fixed size | capture before the load, restore after it | a later restore writes over an earlier one; a table that is full |
| Opening (`net_charsel.cpp`, `net_sync.cpp`) | phase follower, seed | follow the game's flow, force the seed once per round | two machines reach a phase at different times |
| Everything else | guards on single game functions, probes, logging, tables, the loader, MinHook | | reads or patches data of the binary |

### 1.2 How they interact

One thread does almost everything: the game's main loop is hooked at
`hk_main_proc`, and each pass of it

1. drains the socket (`session_pump`), which calls the handlers of the input
   exchange, of the engine arm and of the round seed;
2. follows the game's flow (`net_charsel::on_frame`), which proposes a timeline;
3. holds the frame, or not (stall gate, TimeSync); a held pass only re-sends the
   last input packet (`pump_stalled`);
4. applies a due arm or disarm; an arm captures a baseline;
5. services a rollback request: drains the fold, freezes the other threads,
   loads, replays;
6. saves the arena and runs the frame, whose input dispatch calls
   `on_frame_begin`.

So a datagram's handler, and one pass, are each one atomic action. The real
concurrency is between the two *machines* (through UDP), between the main
thread and the *fold worker* (through the two rings), and between the main
thread and the game's own threads (through locks, the allocators and the heap).

### 1.3 What makes each correct

- Input exchange: both machines number frames on one timeline, never disagree on
  the pad of a frame, report every wrong guess, lose no pad.
- Session: the title screen is released by mutual agreement; a session goes down
  when, and only when, the peer is gone.
- Engine arm: one press works, on both machines, on the same frame.
- Snapshots: a load gives back the bytes the frame began with.
- Deferred fold: the baseline is what folding at once would have made it, every
  buffer has one owner, a drain ends.
- Frame driver: the engine's clock goes forward by one and comes back from a
  rollback where it left; late input that contradicts a guess asks for a rollback
  deep enough; no hold lasts for ever.
- Quarantine: what a flush frees is dead, and a pointer of a frame still within
  reach never lands on a stranger; the set of dead objects answers for exactly
  those it holds.
- Voice pool: no voice that a frame within reach points to has been destroyed.
- Allocator unit: the free chain ends, holds no block in use, and the count is
  its length; no block is handed out twice.
- Surfaces: nothing is released that was not acquired.
- Render kick: the game sees the same counters in a replay as it saw live.
- Arena carving: no two regions in use overlap, whatever a rollback brought back.
- The rings of a rollback: all that is put back is of one instant, and what
  belongs to the system is of the present.

---

## 2. The modules

| Module | Models | Checked as |
|---|---|---|
| `EpochAgreement` | abstract: what the numbers of the timelines promise | implemented by `NetInput` |
| `NetInput` | `net_input.cpp` at both peers, over a UDP that loses, duplicates, reorders | `MCNetInput` |
| `NetInputProof` | theorems about `NetInput` | `tlapm` |
| `ArenaSnapshot` | `save`, `load`, `capture_baseline` and the frames around them | `MCArenaSnapshot` |
| `ArenaSnapshotProof` | theorems about `ArenaSnapshot` | `tlapm` |
| `BaselineFold` | abstract: slots age into the baseline in order | implemented by `DeferredFold` |
| `DeferredFold` | the fold's queue, its worker, both rings | `MCDeferredFold` |
| `DeferredFoldProof` | theorems about `DeferredFold` | `tlapm` |
| `EngineArm` | `net_engine_arm.cpp` and its callers, with the part of the timeline it is stated in | `MCEngineArm` |
| `EngineArmProof` | theorems about `EngineArm` | `tlapm` |
| `RollbackPhases` | `do_rollback` phase by phase, `suspend.cpp`, the threads it stops | `MCRollbackPhases` |
| `RollbackPhasesProof` | theorems about `RollbackPhases` | `tlapm` |
| `Session` | `net_session.cpp` over `net_transport.cpp`, with the two frame messages that feed back into it | `MCSession` |
| `SessionProof` | theorems about `Session` | `tlapm` |
| `FrameClock` | abstract: the engine's clock, back and forth | implemented by `RollbackFrames`, extended by the parts of `World` |
| `RollbackFrames` | one pass of `hk_main_proc` at one machine, engine frames against net-frames | `MCRollbackFrames` |
| `RollbackFramesProof` | theorems about `RollbackFrames` | `tlapm` |
| `SlabReuse`, `VoicePool`, `FreeListUnit`, `Surfaces`, `RevertParts`, `KickScalars`, `ArenaRegions`, `HuskSet` | what follows the clock: quarantine, voices, free lists, surfaces, the other rings, the render kick's counters, the carver's regions, the set of dead objects | through `World` |
| `World` | the eight of them on one clock | `MCWorld` |
| `WorldProof` | theorems about `World` | `tlapm` |

A definition named `Mutant...` is a broken variant of the definition that
follows it, the way a plausible bug would break it. Nothing uses it: put in the
place of that definition it must break the property the project pairs it with,
which shows that the property depends on the code.

### 2.1 NetInput

| Variable | Code |
|---|---|
| `epoch`, `want`, `delay`, `netFrame` | `g_epoch`, `g_want`, `g_delay`, `g_net_frame` |
| `lastCaptured`, `remoteHigh`, `peerAcked` | `g_last_captured`, `g_remote_high`, `g_peer_acked` |
| `local`, `remote` | `g_local`, `g_remote`: rings indexed by frame modulo `Ring`, an entry valid if it carries the frame asked for |
| `guess` | `g_pred` where `g_was_pred` |
| `unmapped` | the frames run on a guess, and still waiting for their pad, that `g_net_for_engine` has lost |
| `net` | datagrams that may still arrive |
| `shown`, `have`, `corrected` | ghosts: the pads the game ran with, the frames held, the frames whose rollback trigger fired |

| Action | Code |
|---|---|
| `ProposeEpoch` | `propose_epoch`; the delay is set first, and a debounced call keeps only that |
| `OnPeerEpoch` | `on_peer_epoch`: adopt a newer timeline, or answer an older proposal with the newer one |
| `RecvSameEpoch`, `RecvNewEpoch`, `RecvProposal` | the three ways through the epoch gate of `on_recv_input` |
| `PumpStalled` | a held pass |
| `RunFrame` | `on_frame_begin` and `advance_frame`: capture, fill the gap, send, map the frame, resolve both pads, guess |
| `ReplayFrames` | a rollback, as far as it takes entries of the map: it calls `on_frame_begin` with the clock standing still |
| `RunWithoutInput` | a frame of the engine in which the game did not dispatch input |

`Released` is the stall gate, including the bounded abandonment of a hold. The
wire is a set: a datagram stays in it after it was delivered, so it may be
delivered again, in any order; when the set is full one of its members is lost.

Of `g_net_for_engine` the model keeps which frames it no longer names. The slot a
frame takes is that of the engine's counter, which this module does not have, so
`TakeEntry` lets a frame, run or replayed, take the entry of any frame that waits
for its pad, or none: that is what happens with the engine off, when the ring comes
round, and in a replay. `StoreInput` then asks for nothing (`net_input.cpp:548-552`).
An entry of an abandoned timeline may name the same number by chance; a frame that
has only such a one counts as lost, since the request goes to another frame.
`corrected` says that a frame asked for its rollback; what comes of the request is
in `RollbackFrames`.

### 2.2 ArenaSnapshot

A page is an element with a value. The ring is a function from the frames of
the last `RingSlots` saves to the pages each one stored. `watch` is the
operating system's write watch, which `save` reads *and resets* below the carve
watermark and `load` resets everywhere. `baseline` is `g_baseline` with
`g_supplemental`. `dirtyBits` and `rebuildIn` are the accumulated dirty set and
the countdown to its rebuild. `Excluded` are pages registered as re-derived
(left live by a load), `CoherentFull` pages of an allocator's list (always put
back). `history` is the ghost the properties compare with: the memory each
frame of the current timeline began with.

`Save` is the whole of `arena::save`: harvest, fold the evicted slot, store,
extend or rebuild the dirty bits, or fail after the harvest. `Load` is the whole
of `arena::load`, entered the way `do_rollback` enters it: before the frame's
own save, with pages written since the last one. `ReplayFrame` runs a frame
without saving, as the replay does.

### 2.3 DeferredFold

The main thread (`SaveReusesSlot`, `QueueFull`, `SubmitJob`, `FoldInline`,
`RollbackDrain`, `QueueDrained`, `RollbackDone`, `Recapture`, `Toggle`) and the
worker (`Wake`, `Look`, `CopyPage`, `Consume`, `PushReturn`, `Report`) are
interleaved at each access to what they share; the copying of each page is a
step. The bytes of a slot are named by its number, so the baseline says of each
page which slot its copy came from. A page buffer is a number, and moves from
the ring slot to the job, to the return ring, and back to a slot.

### 2.4 EngineArm

One record per peer holds the four variables of the file with `g_engine_on`.
`Frame(p, pressed)` is a pass of `hk_main_proc`: the keyed part, then
`tick_should_arm`, then the baseline, which `MayRefuse` lets fail. The clock is
`net_input`'s, and an engine that comes on proposes a timeline on which the
clock starts again: that much of `NetInput` is in this module too.

### 2.5 Session

Time passes in units of `SYNC_RETRY_MS` (500 ms). In each unit every machine
that is up makes its pass, in either order, and one pass stands for the many of
half a second: it drains what has arrived and its periodic sends are due.
Instants (`g_last_recv_ms`, `g_last_direct_ms`) are kept as ages. A datagram
sent before the receiver's pass has arrived, or is `late`, a bounded number of
times: it then arrives later or never. `open[p]` says whether the direct path
carries p's datagrams, and may change; with `HalfOpen` it may carry one
direction only. `Continue` is `session_pump` with the sends of the frame;
`GiveUp` the timeout that closes the socket.

### 2.6 RollbackPhases

`pc` is where the main thread is in `do_rollback`; every phase that waits,
changes something or may return is a step.

| Action | Code |
|---|---|
| `Begin`, `Quiesce`, `HoldWindow` | entry; the flags of the window manager; WT-HOLD |
| `GatePassed`, `GateTimedOut` | `resim_gate::wait_until_safe`, and the first deferring return |
| `LockLog`, `Suspend(t)`, `Frozen` | `suspend::freeze`: the log's lock, one `SuspendThread` each, unlock and report |
| `CaughtSplicing`, `CaughtNobody` | the recheck, and the second deferring return |
| `Load`, `Thaw`, `ReplayFrame`, `ReplayDone` | the load, `thaw`, the loop, the way back |
| `RepairGate`, `Repair` | the second freeze, for the repair; it goes through `LockLog` to the recheck again |
| `Finish` | voices, cap, flags of entry |
| `Enter`, `Leave`, `Draw`, `Activate` | a worker in an allocator's section or in the log; the window loop; the player changing windows |

The window is run by a thread that `freeze` may open, by one whose access list
forbids it, or by the main thread itself (`host`): the comments of the code name
all three, so the model starts in any. `Load` may set the focus flags either
way. The 500 ms wait for the window's iteration fails open and is no guard. The
player changes windows (`Activate`) whenever the thread of that message's handler
is not stopped: in the wait for its iteration, between the tries of WT-HOLD,
throughout a rollback that could not hold it, and after the replay. Where the
main thread runs the window itself, that is between rollbacks. `told` is a ghost:
the flags as the handler last wrote them outside of a rollback.

---

### 2.7 RollbackFrames and FrameClock

`pc` is where the main thread is in a pass of `hk_main_proc`; the peer is the
environment, whose inputs arrive in any order or never.

| Action | Code |
|---|---|
| `Receive`, `Restart` | `session_pump`: `on_recv_input` for a frame not held yet; the activation of a timeline |
| `Service` | the request taken from `g_rb_request`, with its three caps |
| `Replay` | one frame of `do_rollback`'s loop, `on_frame_begin` included |
| `GiveBack`, `Stall`, `Pass` | the TimeSync hold, the prediction barrier with the fight's wait, the bounded end of both |
| `Switch`, `Manual`, `NoKey` | an arm or disarm that is due, F6 and the automatic rollback, neither |
| `Run` | the counter, the frame, `on_frame_begin`, `advance_frame` |

`map` is `g_net_for_engine`, `request` is `g_rb_request`, an *index* of that map.
The ghosts `ran`, `asked` and `repaired` record the pad each net-frame ran with,
the net-frame a rollback is for, and whether it was run again with the pad that
arrived.

`FrameClock` is what is left when all of this is forgotten: `on`, `frame`, `at`
(the frame being replayed, or `Live`), with `Forward`, `Rollback`, `Replay`,
`Arm`, `Disarm`. `Effective` is `effective_frame()`. `RollbackFrames` implements
it, and the modules of 2.8 are written over it, so that what they assume of the
frame driver is what the frame driver is shown to do.

### 2.8 World and its parts

Every part has an operation for the game's own frame (`...Game`), for the save of
a frame (`...Frame`), for a rollback (`...Rollback`), and, where the code has one,
for an arm, a disarm and the end of a replay. `World` pairs each with its step
of the clock; an action of `World` is that clock step with the operation of the
part. The parts share only the clock, and no property speaks of two of them, so
a behaviour follows one part, `watched`, chosen at the start; following all eight
would multiply their states and show nothing more.

- `SlabReuse`: `inUse` and `object` are the game's memory, `serial` and `births`
  idspine's, `table` and `slots` the quarantine's. `SlabFrame` flushes what is
  past `GRACE` and saves the table; `SaveFails` lets a slot be saved without one.
  `TableRestored` restores the slot's table, or reconciles without it. `past`
  remembers whether such a fallback has followed another rollback.
- `VoicePool`: `pool` holds the retained voices with their stamps, the oldest
  first. `VoiceFrame` saves, then drops what is older than `FLUSH_DELAY`;
  `VoiceResume` starts every wait again; a full pool destroys its oldest.
- `FreeListUnit`: one size class. `heap` is the descriptor, the links and the bits
  of the blocks. `LockedSave` walks, heals or rebuilds and captures; `TornSave`
  is the fallback after 64 failed tries for the locks; `Reverted` puts the pages
  back, some of them not (`Loose`), then the descriptor and the captured unit.
- `Surfaces`: `surface` is the word at +0x20 of each wrapper, `references` the
  driver's counts. `SurfaceRollback` is `preserve_save`, the load,
  `preserve_restore` and `on_resim_start`; `Suppressed` the decision of the
  destructor hook.
- `RevertParts`: a part's content is the instant it was written at. `PartsFrame`
  is the four saves of a frame, of which the last may fail; `PartsRollback` the
  restores in the order of `do_rollback`. What belongs to the system and lies in
  the pages (`InPages`: sounds, streaming, device handles, COM pointers, critical
  sections) goes back with them and is written back one part after the other, the
  PRESERVE fields inside `restore_data`. `Short` names the parts there may be more
  of than `do_rollback` has room to take; `missed` remembers those that were not
  taken.
- `KickScalars`: counter and toggle move together, so one number, `scalar`, stands
  for both. `KickFrame` records it under the frame that begins; `KickReplay` is the
  suppressed kick of a replayed frame, which takes what the next frame began with,
  or adds one where there is no such record; the check at the end of the loop of
  `do_rollback` finds the same record and changes nothing. `KickGame` lets the
  engine's own gate skip a live kick.
- `ArenaRegions`: `held` (what the game reserved) and `pooled` (what a save donated
  to an allocator) are in memory a rollback puts back; `watermark`, `freeList` and
  `reservations` are the carver's and are not. `Reserve` and `Donate` take any
  block that fits, else the watermark, and drop the entry a full array has no room
  for; `Release` finds the entry by its base, or ignores the call. The ghost
  `stale` names regions in use again although they are on the free list, `crossed`
  remembers that one was given to somebody else. A save donates once, where the
  code may up to four times; which of the fitting blocks is taken is left open.
- `HuskSet`: `husks` is the hash set of `quarantine.cpp` slot by slot, with its
  bounded probes, its tombstones, and the rebuild at a rollback; `dead` the
  quarantine's table, of which it keeps the order, since a rebuild inserts in
  it. An object in the table does not die again (`SlabReuse` has the fallback
  after which it might). `crowded` remembers an insertion that found no slot.

---

## 3. The runs

Deadlock is checked in the run of `RollbackPhases` only: every other model
stops at the bounds named for it, and a process that has died or a session that
has gone down takes no more steps.

### 3.1 Runs that pass

**`exchange`** (`MCNetInput`, `NetInput_exchange.cfg`). Two peers, two pads, one
delay, one timeline, three frames, a barrier of 1, one abandoned hold each, two
datagrams in flight; the map may lose any frame that waits for its pad. 1.5 million
states up to exchanging the machines, two to three minutes.
Loss, duplication and reordering all happen with two datagrams; three frames are
enough for a guess, its confirmation, and a second guess that rests on it; the
window of 4 is exactly `2 * Ahead`, the least for which `NoInputLostInFirstEpoch`
is claimed. Checks `TypeOK`, `InputAgreement`, `SameGameOrCorrected`,
`NoInputLostInFirstEpoch`.

**`timelines`** (`NetInput_timelines.cfg`). `LossySpec`: up to three timelines,
proposed by either peer, crossed and re-announced, on a wire that may lose any
datagram. Pads do not matter here: one. Delay 2 is different from the static
initial value. Checks `SharedTimeline`, `ClockForward`, that the exchange
implements `EpochAgreement`, and `TimelinesConverge`. Fairness: the main loop
keeps turning (`WF` of a held pass and of a frame); each machine reaches
character select once (`WF` of its first proposal); a datagram that is sent
again and again and would move its receiver to another timeline arrives some
time (`SF`). The code justifies the last by repeating: every input packet, also
that of a held pass, carries `want_epoch`.

**`load`** (`MCArenaSnapshot`, `ArenaSnapshot_load.cfg`). One page, three slots,
rollbacks of up to two frames, five frames, failing saves. 815 000 states. No
page's treatment depends on another page (the only thing pages share is the
countdown of the rebuild, which counts saves), so one page shows what the code
can do to any; it is both re-derived and of an allocator's list, the kind on
which the two rules meet. Five frames let the ring of three wrap and the dirty
bits be rebuilt with a rollback before and after. Checks `LoadIsExact`.

**`fold`** (`MCDeferredFold`, `DeferredFold_fold.cfg`). Two pages, two ring
slots, both rings of two entries, three slots folded: the queue fills, the
return ring fills, the switch is pressed, the list of destinations fails to
grow, the engine is armed again. 135 000 states. Checks `TypeOK`, `OneOwner`,
`ImplementsFold` (against `BaselineFold`), `DrainsEnd`.
Fairness: the worker is scheduled, and the main thread's waiting loop and the
end of a rollback are reached.

**`press`** and **`both`** (`MCEngineArm`, `EngineArm_press.cfg`,
`EngineArm_both.cfg`). The first asks of one machine, with losses, duplicates,
disarms, refused baselines and sessions that time out, that a press is never
swallowed, but for the latch a refused baseline leaves. The second
asks of both, with nothing lost and nobody disarming, that an arm under way
comes on at both (`BothArm`) and that crossed presses settle on one frame of
the timeline (`SameFrame`). Two presses are enough for a crossing; three
net-frames put the named frame (two ahead) in the past, the present and the
future of the receiver. Fairness: the main loops turn, and in the second run
every datagram arrives.

**`session`** (`MCSession`, `Session_session.cfg`). Two requests must be
answered (five in the code; two tell a fresh nonce from a repeated one), the
disconnect timeout of 12 units and the staleness of 2 are the code's own ratio
to the retry, two drains come back empty-handed and the direct path changes
twice, in both directions at once. 330 000 states. Checks
`SyncedByPeer`, `StaysUp`, `DeathNoticed`, `SyncCompletes`. Fairness: main loops
turn and time passes.

**`phases`** (`MCRollbackPhases`, `RollbackPhases_phases.cfg`). Two workers: one
may be stopped while the other still runs, and hold the section the other left.
Replays of one and two frames: the last one is special. Any number of
rollbacks, deferred or not; the window thread is suspended at most twice at
once, which is how far a second rollback after a deferred one gets; the player may
change windows at any time the window's thread runs. 56 000
states. Checks `TypeOK`, `NothingTorn`, `CompletePutsBack`, `WindowStaysDown`,
`RollbackEnds`, and that nothing deadlocks (leaving out the lock around
`freeze`'s loop deadlocks at once). Fairness: the main thread goes on where it
can, a worker that is not stopped leaves what it entered, and the main thread
gets the log in the end (`SF`: workers write to it now and then, not in a loop).

**`frames`** (`MCRollbackFrames`, `RollbackFrames_frames.cfg`). Two pads, engine
frames up to 4, three net-frames in each of two timelines, a delay of 1, rollbacks of
up to two frames and manual ones of three, a barrier of 2, two held passes before
the hold is given up, a map of three slots (the map wraps, and a wrapped index is
seen). Checks `TypeOK`, `LateInputAsks`, `KeepsMoving`, `ImplementsFrameClock`.
Fairness: `WF` of the main loop only. The peer may never answer and every
datagram may be lost; `KeepsMoving` holds because the code counts its held
passes.

**`world`** (`MCWorld`, `World_world.cfg`). 2.9 million states up to exchanging
wrappers and handles, which nothing orders. Five frames and rollbacks of up to
two of them, with every ring one longer than the depth or, for the heads and
`.data`, exactly the depth: rings wrap, a target is still there, and a second
rollback may follow the first at once. One block with two births is enough for a
stranger; a table of one entry is full with the second death; a pool of two
voices is pushed over by the third; two blocks make a chain that can lose an
element or turn back on itself; two wrappers share one of two handles, one
death fills the record; two reservations and two donations, of an arena of three
units with lists of two entries, are enough to release, split and take again what
a rollback brings back; two objects that hash to the last of three slots wrap
round, are found past a tombstone, and are crowded out. Checks `TypeOK`, `HeldIsDead`, `NoStranger` (quarantine),
`VoicesOutliveWindow`, `ChainIsFree`, `NoDoubleMember` (allocator unit),
`HandlesBacked`, `OneInstant`, `OnTrajectory`, `RegionsApart` (carver), `HusksAreHeld`
(set of dead objects).

### 3.2 Runs that find a disagreement

Each checks one sentence of the repository against what the code does.

**`again`** - `EveryLoadIsExact`. The replay saves nothing, and the slots of the
abandoned frames stay in the ring. A second rollback to a frame the first one
replayed restores what the abandoned timeline had stored for it. The comments
at `arena.cpp:1593` and `arena.cpp:1613` call the load state-identical and exact.

**`corrected`** - `CorrectedInputReplayed`. `on_frame_begin` maps the net-frame
it serves to the engine counter, which `hk_main_proc` has already moved on; a
save is kept under the counter before that. The rollback that late input asks
for is named by the map, so it starts one frame after the one that was run on
the wrong guess, and that frame is not run again. The comment in
`net_input.cpp` calls running it again with the input that arrived the point of
the replay.

---

## 4. What is proved

About `NetInput`, for any two peers, any set of pads, any ring,
window, gap, barrier, delays and bounds that satisfy the assumptions of the
module (`2 * delay` is less than the ring; the window is at most the ring; the
gap filled is less than the ring).

| Theorem | Says |
|---|---|
| `NetInputProof!TypeCorrect` | `Spec => []TypeOK` |
| `NetInputProof!TimelineIsShared` | `Spec => []SharedTimeline` |
| `NetInputProof!ClockRunsForward` | `Spec => ClockForward` |
| `NetInputProof!AgreementImplemented` | `Spec => ImplementsAgreement` |
| `NetInputProof!InputsAgree` | with one delay, `Spec => []InputAgreement` |
| `NetInputProof!FirstTimelineLosesNothing` | with one delay and a window of `2 * Ahead`, `Spec => []NoInputLostInFirstEpoch` |
| `NetInputProof!FirstTimelineSameGame` | with those, a delay within the gap that is filled, and no stale datagram: on the first timeline `SameGameOrCorrected` always holds (a frame the map has lost is exempt in it) |

About `ArenaSnapshot`, for any set of pages and values, any excluded and zone
pages, a ring of any length and a rollback of any depth within it:

| Theorem | Says |
|---|---|
| `ArenaSnapshotProof!TypeCorrect` | `Spec => []TypeOK` |
| `ArenaSnapshotProof!WindowedLoadIsExact` | with the windowed revert, `Spec => []LoadIsExact` |

About `DeferredFold`, for any set of pages, any ring, queue and number of slots:

| Theorem | Says |
|---|---|
| `DeferredFoldProof!TypeCorrect` | `Spec => []TypeOK` |
| `DeferredFoldProof!BuffersHaveOneOwner` | `Spec => []OneOwner` |
| `DeferredFoldProof!DeferredFoldImplements` | `Spec => ImplementsFold` |

About `EngineArm`, for any two peers, any lead, clocks, number of presses and timelines:

| Theorem | Says |
|---|---|
| `EngineArmProof!TypeCorrect` | `Spec => []TypeOK` |
| `EngineArmProof!NoPressIsSwallowed` | `Spec => PressHasEffect` |
| `EngineArmProof!EnginesArmOnOneFrame` | with one agreement, `Spec => []SameFrame` |

About `Session`, for any two peers, any number of rounds and any time-outs:

| Theorem | Says |
|---|---|
| `SessionProof!TypeCorrect` | `Spec => []TypeOK` |
| `SessionProof!RunningIsEarned` | `Spec => []SyncedByPeer` |
| `SessionProof!NobodyGivesUp` | with a patient time-out, `Spec => []StaysUp` |

About `RollbackPhases`, for any finite set of workers, any depth and bound:

| Theorem | Says |
|---|---|
| `RollbackPhasesProof!TypeCorrect` | `Spec => []TypeOK` |
| `RollbackPhasesProof!NeverTorn` | `Spec => []NothingTorn` |
| `RollbackPhasesProof!PutsBack` | `Spec => []CompletePutsBack` |
| `RollbackPhasesProof!WindowIsHeld` | `Spec => WindowStaysDown` |

About `RollbackFrames`, for any set of pads, any depths, barrier, ring and bounds:

| Theorem | Says |
|---|---|
| `RollbackFramesProof!TypeCorrect` | `Spec => []TypeOK` |
| `RollbackFramesProof!ClockRefined` | `Spec => ImplementsFrameClock` |
| `RollbackFramesProof!LateInputHeard` | `Spec => LateInputAsks` |

The conditions in the right-hand columns are the assumptions of the theorems
beyond those of the modules. A run of the same property satisfies each.

- *One delay* (`FixedDelay`): `Delays = {FirstDelay}`; section 5, *Two delays*, says
  what two do.
- *A window of `2 * Ahead`* (`WindowFits`): twice the frames that can be scheduled
  ahead, against 32 in the code; section 5, *The window*.
- *A delay within the gap that is filled* (`GapFits`): `FirstDelay <= GapCap`, 32 in
  the code; `WindowFits` there allows delays up to 9 only.
- *No stale datagram* (`[]NoneStale`, a condition on the behaviour): a packet
  of the first timeline that can still arrive starts less than a ring of frames (256,
  4 seconds) before the receiver's newest frame, and at most a ring before its clock. The
  timelines of run `exchange` are shorter than its ring, so every state of it is
  such. Without the condition the property is false; section 5, *A guess that is
  never judged*.
- *The windowed revert* (`Windowed`): `g_windowed_restore` is true unless a file or
  Numpad9 switches it off (`arena.cpp:497`). The full revert restores from the same
  slots, but reaches further back; section 5, *The Numpad9 switch*.
- *One agreement* (`OneAgreement`): no disarm, a network that loses and repeats
  nothing, sessions that stay up. What the arm does without each is in section 5,
  *A lost last proposal*; the property is false there. Refused baselines and
  crossing presses are inside the theorem.
- *A patient time-out* (`Patient`): the direct path opens and closes in both
  directions at once (half-open paths: section 5), and `DisconnectAfter` is at least
  `StaleAfter * (MaxFlips + 1) + 2 * (MaxLate + 1)`. The code's 6 seconds against
  1 second, in units of half a second, allow two changes of the path and two empty
  drains at any moments of a match: run `session` has exactly these. The bound is
  sufficient, not the least.

About `World`, for any sizes that satisfy the assumptions of its parts (every
ring reaches at least as far back as the deepest rollback; a grace at least, a
flush delay longer than that; a pool of at least one; at least one block in a size
class):

| Theorem | Says |
|---|---|
| `WorldProof!RevertIsOneInstant` | `Spec => []OneInstant` |
| `WorldProof!HeldStaysDead` | `Spec => []HeldIsDead` |
| `WorldProof!NoPointerMeetsStranger` | `Spec => []NoStranger` |
| `WorldProof!NoVoiceIsMissed` | `Spec => []VoicesOutliveWindow` |
| `WorldProof!KicksOnTrajectory` | `Spec => []OnTrajectory` |
| `WorldProof!RegionsStayApart` | `Spec => []RegionsApart` |
| `WorldProof!CountsCoverWrappers` | `Spec => []HandlesBacked` |
| `WorldProof!ChainEndsFree` | `Spec => []ChainIsFree` |
| `WorldProof!NoBlockHandedOutTwice` | `Spec => []NoDoubleMember` |
| `WorldProof!HusksAnswerForTheHeld` | `Spec => []HusksAreHeld` |
| `WorldProof!TypeCorrect` | `Spec => []TypeOK` |

For `NetInput` the argument is in four layers, each an inductive invariant that contains the
one below.

1. `IInv` = the type invariant; every epoch a datagram names is one its sender
   wants; no remote entry is newer than `remoteHigh`; `SharedTimeline`. The
   second conjunct is what makes the last inductive: the adopter learns the
   number from a datagram, not from the other's state.
2. `AInv` adds that a capture is behind the clock (so a peer schedules only
   frames it has not scheduled before: the *frontier* `lastCaptured + delay`),
   that everything below the delay is neutral everywhere, and that the pads in
   a packet and in the other's queue are those of the owner's queue. Without the
   frontier a frame already sent could be written again with another pad. It is
   where a single delay is needed: with two, the frontier moves backwards.
3. `WInv` adds the chain *frame - remoteHigh - acknowledged*: a peer is at most
   `Ahead` frames beyond its newest remote frame, which is at most `Ahead` frames
   beyond what the other has reported, so a window of `2 * Ahead` reaches down to
   the first frame the receiver lacks. Its second link breaks in the second
   timeline (section 5, *The acknowledgement of an earlier timeline*).
4. `SameInv` adds, for the first timeline, what each game was or will be given.
   Whatever a packet or a queue says of a frame is what the owner's game was given
   for it, or will be (`Owed`; the frames below the first capture are neutral on both
   sides). A frame that is held stays in its slot until its turn comes (`HaveOK`),
   and a guess on record belongs to a frame the receiver waits for (`GuessOK`): the
   verdict then compares the pad that came with the guess of that frame and no
   other. It is a rollback trigger unless another frame has taken its entry in the map,
   and stays so (`Excused`: the frames corrected and those lost). Two frames that share a slot never meet, since what a peer waits for and
   what the other has scheduled lie within a ring of its clock (`WaitsNear`,
   `FrontierNear`): that follows from the chain of layer 3.

For `ArenaSnapshot`, `TypeInv` adds to the types where the frames of the ring,
of the history and of a rollback lie (`InOrder`). `RewindInv` then says what a load
rests on. `SourceIsRight`: the newest copy of a page not after a frame (in the
ring, else in the baseline, else the zeros of a page never touched) is what the
frame began with, for every frame saved and not gone below. `UnwrittenIsSame`: a
page that the watch has not seen written since the frame has those bytes in memory,
which is what entitles the windowed load to leave it alone. `CleanIsSource` ties
the two before the first rollback of an arm: memory is what the frame began with,
and an unwatched page has its newest copy right; a save then moves no source but
those it stores. `Touched`: only committed pages have copies. Evicting a slot into
the baseline keeps the source since the frame evicted is the oldest one. The newest
of a set of frames exists since finite subsets are well-founded.

For `DeferredFold`, `TypeInv` counts: jobs submitted are no more than slots aged
out, less the one in hand, and what the worker has in hand belongs to its place.
`OwnedOnce` says of each pair of places (the ring, the queue, the stack of returned
buffers, the worker) that no buffer is in both: `OneOwner` of the buffers that pages
are read from is the part of it a reader sees. `CopyInv` is what the refinement
rests on: until something overtakes, all that is queued is of the baseline in
force, and a page that the worker is done with has the job's bytes. Then the step
that ends a copy is the abstract fold, and all others are stutters.

For `EngineArm`, `ArmInv` adds what a datagram carries, that a proposal pending at a
peer with a session has a net-frame (`PendingHasFrame`; the debounced passes of a
peer without a session have none), and that the latch is set without the engine
only by a refused baseline (`LatchIsEngine`): that last one is why a press cannot
be swallowed. `AgreeInv` adds, for one agreement, that the goal of a committed peer
(its target, then the frame it armed on) is *shared*: word of a frame no later is on
its way to the other peer, or the other is committed to one no later
(`GoalsAgree`). Two engines that are on are each other's bound, so their frames are
equal; and a pending target is not behind the clock, or the arm would come late.

For `Session`, the nonce in force is one beyond the rounds counted
(`RoundsCounted`), and every round counted, as whatever a reply under way echoes, was
answered by the other peer (`RoundsAnswered`). The second needs that a request
carries a round of the handshake (`RequestsTyped`): a reply is counted for the
nonce in force, whichever request caused it. That nobody gives up is shown by what
the silence of a peer can still become (`WaitBounded`): the other peer is silent
only while it takes a closed direct path for live, so the silence so far and the
units until that path is found stale (`Staleness` of the other's path, a datagram under way
counted as fresh news) stay within a budget. A tick lengthens the one and shortens the
other. Only a path that closes adds to the sum, by `StaleAfter`, and a drain that
finds nothing, by two units at most: `Budget` counts both.

For `RollbackPhases`, typing needs which freeze is under way (`WhichFreeze`: both
go through the same phases) and that a held handle means a stop still owed
(`StopsOwed`), or the counter of stops could go below zero. `StoppedWhole` adds
that every worker is stopped from the end of `freeze`'s loop on: the recheck then
says something that stays true until the thaw. `OutOfPlace` says phase by phase
what is out of place and which local will bring it back. The log and the threads a
freeze stops are in it always; the rest needs that no rollback was deferred
(section 5, *A deferral puts nothing back*), and the focus flags are those found at
entry (`told`), whatever the window's handler has written since. `WindowStaysDown`
needs that `freeze`, where it can open the window thread, has it stopped from its
recheck to the thaw, and holds it in its Sleep during the replay (`WindowDown`); if it
could not open it, the stop `do_rollback` makes itself (WT-HOLD) does, which only its
end takes away.

For `RollbackFrames`, `TypeInv` adds to the types that a replay is inside the
frames counted so far; without it `at + 1` could pass the counter, and the
replay would not come back to it. `GuessInv` adds that a guess still on record is
the pad its frame was run with: what `on_recv_input` compares the late pad with
is then what the game saw, although replays run `on_frame_begin` again.

For `World` an invariant about a part speaks of the behaviours that follow it.
The ten arguments:

1. `OneInstant` needs the shape of the rings (`RingInv`: one entry per frame, in
   order, the last `PartSlots` of them). The search for the newest entry not
   after the target then finds the target's own, whichever of the four ways of
   searching is used, and no restore of the state writes over what was put back for
   the system, because the critical sections come last; `PagesInv` says that an entry and the pages of the same
   frame were saved together. That the heads ring has never-saved slots that
   pass the search is harmless exactly because the target's entry exists.
2. `HeldIsDead` is inductive only together with the same statement about every
   saved table and the memory saved with it, and with `DeadSince`: before the
   first rollback of an arm, an entry stamped with a save's frame or an earlier one was
   already dead in that save. A rollback to a slot with a table uses the
   first, the fallback the second. After a rollback `DeadSince` is lost, which is
   why a fallback after another rollback is excluded.
3. `NoStranger` is about what a rollback finds: `Endures` says, for a save a rollback
   can still go back to (`InReach`), that each block which had an object then is in
   use and has that object or its remains, and that a table entry for it is stamped
   no earlier than the save. The stamp is what matters: the block is not flushed
   before its grace is over, and by then the save is out of reach. The same is
   stated of every later save (a rollback makes its memory the present one), and
   that what is alive is in use. A second fallback is excluded as in 2.
4. `VoicesOutliveWindow` rests on `Reachable`: a voice that a save points to and
   that waits in the pool was stamped no earlier than the save. When its wait
   ends, `FLUSH_DELAY` frames later, the save is out of every rollback's reach.
   It takes `Pointers` (each field holds a voice of its own) and `InHand` (a
   voice in the game's hands is neither gone nor waiting) to keep that true
   over saves and loads.
5. `OnTrajectory` needs that the ring holds exactly the last `KickSlots` frames with
   the values they began with (`KickInv`), so that a replay finds the record of
   every frame it moves on to, and misses only the one after the last.
6. `RegionsApart` is stated of the regions now in use and, in `RegionInv`, of those of
   every saved frame; the carver's own lists do not overlap (`CarverInv`), and
   whatever is on them is apart from a region in use or inside it (`Parts`), not
   across its border. So what a release puts on the free list is the region
   released or a part of it, which hits no third one, and what the carver takes
   from there can meet only a region in use that is `stale`: the exception.

7. `HandlesBacked` is the visible end of a count: `Covered` says that the count of a
   surface is at least the number of wrappers that use it or that a rollback would
   bring back (`Claims`: a save has them, and nothing has released them since),
   those a replay has constructed counted apart, because the replay constructs again
   what a save already claims. A destruction releases a handle only for a wrapper
   that had one, and a replay's releases nothing. Counting is by cardinality of
   finite sets, with the lemmas of `FiniteSetTheorems`.
8. `ChainIsFree` needs the chain as a path (`Linked`): the links from the head go
   through a sequence of blocks, none twice, to the end. `Good` adds that none of them
   is in use and that the count is the length. A save under the locks, healed or
   rebuilt from the bits, establishes it, and so does a rollback to such a save
   whatever pages it leaves; carve, free and splice keep it, and every saved unit
   has it too. `NoDoubleMember` adds that what the game owns is in use (`OwnedInUse`), now and
   in every saved unit. The walk of the model is a recursive function: it is proved
   to exist (`WalkToExists`, `WalkIs`), and then to stay on the path (`PathWalk`,
   `EndedPath`).
9. `HusksAreHeld` needs that a search for any object in the set stops at the object's own slot,
   past tombstones and neighbours (`HuskOK`): a deletion leaves a tombstone and
   opens no gap before another, and an addition takes the slot where its search
   stopped. The table, present or saved, has no object twice (`Sound`), so that
   what one entry's deletion takes away is no other's. The rebuild, the deletions of a flush
   and its pruning run over a table entry by entry; each is a recursive function,
   proved to exist, whose steps keep `HuskOK`.
10. `TypeOK` takes an invariant of each part for the bounds that a step does not
   give: the births and the table of the quarantine (`SlabTyped`), the order of the
   pool's stamps (`VoiceTyped`), the counts (`SurfaceTyped`), the instants of the
   parts (`PartsTyped`), the kicks recorded (`KickTyped`), the lengths of the carver's
   arrays (`RegionTyped`).

The invariants of 1 to 7, and `PatienceInv`, were checked with TLC on small instances
first; of 8 to 10 TLC checked the properties themselves.

### What stays with TLC

- **Liveness** (`TimelinesConverge`, `BothArm`, `DrainsEnd`, `DeathNoticed`,
  `SyncCompletes`, `RollbackEnds`, `KeepsMoving`) is out of the prover's reach.
- **`SameGameOrCorrected` beyond the first timeline**, which run `exchange` does not
  reach either: an input lost there (section 5, *The acknowledgement of an earlier
  timeline*) leaves a guess that is never judged.
- **`StaysUp` with a shorter time-out** than `Patient` asks for: with the bounds
  of run `session` TLC finds no violation down to 8 units, and one at 7.

The library's induction theorems take an operator as a parameter and cannot be
instantiated. Induction is by least counterexample instead: finite subsets are
well-founded (`FS_StrictSubsetOrderingWellFounded`), which yields the least of a
set of naturals, a subset that a property holds of up to a point, and so the
existence of the recursive functions and what holds along them. `FreeListUnit` and
`HuskSet` write their walks and folds as recursive functions for that reason.

---

## 5. What the code does not do

Found while modelling, besides the two runs above; the properties exclude these
cases, and say so.

### The exchange, the arm and the session

- **Two delays.** Crossed proposals carry two delays, and a timeline adopted
  from an input packet keeps the adopter's own; `propose_epoch` sets the delay
  even when it is debounced. Then frames already sent are scheduled again, or
  frames are skipped and travel as neutral pads. All pad properties are stated
  for one delay.
- **The window.** One packet carries 32 frames. `FirstTimelineLosesNothing`
  needs twice the frames that can be scheduled ahead, `7 + delay` and more after
  abandoned holds.
- **The acknowledgement of an earlier timeline.** `do_reset` (`net_input.cpp:122`)
  does not clear `g_peer_acked`. In the second timeline a peer believes the other
  has acknowledged frames it acknowledged in the first, starts its window there,
  and a lost datagram is not sent again; the comment at `net_input.cpp:308`
  says that a dropped datagram costs latency, never the input. Hence the *first
  timeline* in `NoInputLostInFirstEpoch`; `NoInputLost` without it fails.
- **A guess that is never judged.** `on_recv_input` stores every frame its slot does
  not hold (`net_input.cpp:502`) and asks nothing of its age. A packet late by a ring
  puts an old frame over a newer one, and clears the guess kept in that slot for a
  frame a ring later. And a frame that never comes leaves its guess set, so
  that the frame a ring later is recorded with none of its own
  (`net_input.cpp:423`) and is judged against the older one. Either way a frame
  run on a wrong guess may ask for no rollback. `FirstTimelineSameGame` excludes
  the first by `NoneStale`; the second takes an input lost for good, which the first
  timeline does not have.
- **A frame the map has lost.** Late input that contradicts a guess asks for a
  rollback only if an entry of `g_net_for_engine` names the frame
  (`net_input.cpp:548-552`). With the engine off its counter stands still and each
  frame takes the entry of the one before; the ring comes round after 256; a replay
  maps the frame the clock is at in place of the newest. Then nothing is asked and
  the frame stays wrong, as `net_input.cpp:158-160` says of play without rollback.
  `SameGameOrCorrected` and `LateInputAsks` exempt these frames.
- **The announcement.** `MSG_EPOCH` is sent once. While neither peer runs nothing
  repeats it; `TimelinesConverge` starts when one peer runs.
- **The heap zone.** It lies above the watermark the scan is clamped to, so its
  pages are in no slot, and are put back only if they are written after the last
  save. `LoadIsExact` does not speak of them.
- **A failed save** loses the pages it had harvested, since the watch is reset
  before the buffer is had. `LoadIsExact` holds for the other pages.
- **The Numpad9 switch** (windowed or full revert) is not neutral while pages are
  written and not saved; it is right after a save.
- **A fold that overtakes.** Folding inline (switch off, or the list of
  destinations cannot grow) while jobs are queued lets the worker write older
  bytes over newer ones; a re-capture frees the baseline the worker writes to.
  `ImplementsFold` holds until the first such overtaking.
- **A lost last proposal, or a lost disarm**, leaves one engine on; an old copy of
  a proposal arms again after a disarm; the arm restarts the clock the second
  engine is still counting in.
- **A refused baseline.** `tick_should_arm` latches `g_armed` before
  `capture_baseline` is tried. When it refuses, the engine is off, the latch on,
  and every later press returns at once, until a disarm of the peer comes; the
  log line at `resim.cpp:3660` says to try again. `PressHasEffect` makes this
  one exception.
- **The hold at the title.** A peer that is still syncing adopts the timeline of
  an `MSG_EPOCH` (a running peer sends it) and from then on sends `MSG_INPUT`,
  which the other takes as proof that it is running; `net_session.h:14` asks for
  mutual agreement.
- **A session that went down** is not opened again, and a peer that is still
  syncing has no timeout.
- **Half-open paths.** With the direct path open from the peer to us only, what
  arrives keeps the path fresh (`net_transport.cpp:137`), so we stop relaying;
  what we send is lost; the peer hears nothing and disconnects. The comment at
  `net_transport.cpp:82-83` says a half-open path cannot strand the match. Run
  `session` sets `HalfOpen = FALSE`; with `TRUE`, `StaysUp` fails.
- **The opening.** The seed of a round travels in a message that is sent once.
  Two that cross swap the seeds; one that comes late arms the next round.

### The frames of a rollback

- **The map is written by the replay.** `on_frame_begin` runs in a replayed frame
  too and maps the *counter*, not the frame being replayed, to the current
  net-frame: the newest entry is overwritten.
- **An unconfirmed frame is replayed as neutral**, not with the guess it was run
  with (`pad_for_engine_frame`): a replay that crosses a frame whose input has not
  come changes what that frame was.
- **A request is an index.** Late input asks for a slot of the map, a number
  modulo 256, and the service compares it with the engine counter. Past engine
  frame 262 or so every such request is out of reach and is dropped.
- **What a new timeline leaves.** The map, the pending request and
  `s_ts_next_frame` survive the restart of a timeline; the counter behind F6's
  "frames since arm" is zeroed once, not per arm.
- **A deferred rollback is not tried again**: its request was taken from
  `g_rb_request` before, and the mispredicted frame stands.
- **A deferral puts nothing back.** When the gate times out, or the recheck finds a
  worker stopped in a splice, `do_rollback` returns (`resim.cpp:2405`, `2445`) with
  the focus flags zeroed, the frame cap off, the voices' flush paused, the builds
  blocked, and the window thread suspended with its handle in a lost local. The
  next complete rollback saves the zeroed flags and cap as the live values and
  restores those. `resim.cpp:2394` calls this return clean, with nothing held.
  `CompletePutsBack` claims after a deferral only that the log is free and that
  no freeze has left a thread stopped; all else it claims with no deferral before.
- **A switch during the rollback is overwritten.** The window's handler runs in the
  wait of `resim.cpp:2300-2303`, between the tries of WT-HOLD, in all of a rollback whose
  hold gave up, and after the replay. Whatever it writes then, the exit puts the flags found
  at entry over it (`resim.cpp:3080-3081`): a game deactivated meanwhile goes on as if
  it had the focus, and one activated stays as if it had not, until the next switch.
  The comment above (`3076-3077`) names such a deactivation for the case where the game
  hangs all the same. `CompletePutsBack` claims the flags of entry, not the player's last.

### What follows the clock

- **Voices.** One that a rollback brought back while it was waiting stays in the
  pool, and a later flush or a disarm destroys it under the game; the comment at
  `resim.cpp:3027` says otherwise. A voice pushed out of a full pool is
  destroyed at once. `VoicesOutliveWindow` excuses both.
- **A second fallback.** A rollback to a slot without a table, after another
  rollback, reconciles by stamps that the first one has made ambiguous, and may
  leave an entry for a block that is alive: the flush then frees a live object.
  `HeldIsDead` excludes it (`past = "blind"`).
- **Serials** are not rolled back, so an entry of an abandoned timeline can outlive
  its block: the free is dropped and the block leaks.
- **The set of husks fills with tombstones.** `husk_del` (`quarantine.cpp:93`) leaves
  a tombstone, `husk_add` takes empty slots only and returns in silence when 16
  probes show none, and only a rollback rebuilds the set. Each release uses up a
  slot for good: at the 6 000 entries over 32 frames the comment expects, some 190
  a frame, the 131 072 slots are gone after some ten seconds without a rollback,
  and `is_held_husk` then misses the dead. The comment has the set maintained in
  lockstep with every table mutation. `HusksAreHeld` excludes it (`crowded`).
- **Default husks** (`quarantine.cpp:409`). `note_default_husk` takes a tombstone
  before it has looked for the address further on, so a second death of one
  address may be noted twice, and the next birth drops one of the two. A death
  replayed in frame f is stamped f and survives the prune of a second rollback
  to f. Either way a live object counts as dead. That set is not modelled.
- **The fallback save of the lists** carries no unit, and a rollback to it leaves
  chain, count and bits of different frames (`drifted`). `restore_allocators`
  walks `g_alloc_count` allocators, although the comment at `resim.cpp:829` says
  it restores only what the slot saved.
- **Deaths of surfaces.** `g_destroyed` is cleared by every rollback, loses the
  1025th death, loses one whose address is used again, and is never cleared while
  there is no rollback. A second rollback to an older save then revives a
  wrapper whose handle was released; only the check for a husk is left, and an
  address the driver has used again defeats it. `HandlesBacked` exempts this
  (`forgotten`). A destruction that is suppressed in a replay leaks the surface.
- **A handle, or a sound field, in the wrong object.** `preserve_restore` (and
  `sound_resource_preserve::restore`) write what they kept to the address, whatever
  the target has there.
- **`handle_preserve`** registers the entries of `sUnit` again at each save while
  `sRender` is null.
- **Targets without pages.** A rollback to a frame of an earlier arm, or one
  whose save failed, takes the pages of the baseline and `.data`, the heap zone and
  the heads of the frame asked for, against "whole group coherent" in `resim.cpp`.
  The slots of the heads ring that were never saved pass its search as frame -1.
  `OneInstant` excludes both.
- **The last record of the kick.** The frame a rollback is served before has no
  record yet, so the last replayed frame adds one to the scalars it finds. They
  end where they were only if that equals what the last live frame did. A rollback
  of one frame (F6, or one the network asks for) begins with the present's
  scalars, since the load leaves them alone, and ends one kick too far with the toggle
  inverted; so does one after a last frame whose kick was skipped. The comment at
  `resim.cpp:2858` says they end at the value before the rollback by construction.
- **The first replayed frame** reads the scalars of the present: the table at
  `dynamic_restore.cpp:164` says the page that carries them reverts, and
  `op_srender_rederive_exclude` (line 66) excludes all of `sRender`.
- **The carver is not rolled back.** A region released after the frame a rollback
  returns to is held again by the game and still on the free list: the carver may
  give it to another user, and a release by the first then does nothing, or frees
  the other's entry. A reservation or donation made after that frame is leaked.
  `RegionsApart` excludes the former (`crossed`).
- **The number of a pad's packet** (`dinput_probe.cpp`, from line 446). The poll of a
  live frame is keyed by the counter, which has moved on already; that of a
  replayed frame by the frame itself. The two differ by one, and with the engine
  off the counter stands still and so does the number, against the comment that
  says a replay recomputes from the same entry and yields the same value every
  time. No run shows it: that part of the pad input is not modelled.
- **What there is no room to take** goes back with the pages: the 4097th sound
  resource, the 257th object of the streaming engine, the 1025th COM pointer. It is
  dropped and counted, and nothing stops the rollback. `OneInstant` excludes it
  (`missed`) until the game has written it again.

---

## 6. What is left out

- The bytes of pads, pages and packets; wording, logging, counters.
- What `recommend_wait` averages: `RollbackFrames` leaves the advice open.
- Two machines in `RollbackFrames`: the peer is any sequence of inputs. Two
  machines are in `NetInput`, which has no engine frames; of the map it has which
  frames are lost, by any cause and at any time.
- Duplicates of a datagram that is still under way merge in a set, as do
  identical ones.
- Round-trip estimates, the relay's own handshake, loopback and direct
  configurations of a session.
- The seed of a round, the phase follower of character select.
- The compare-and-skip of the reader, and failures of the operating system's
  write watch itself.
- The automatic arm by file (`autoarm.on`, off by default).
- Of `RollbackPhases`: the loader's precondition of the gate (off by default), the
  tracer's lock beside the log's, the probes. What is restored besides the pages
  is in `World`.
- Of `SlabReuse`: the adaptive horizon, at most the depth plus 8 and so below
  `GRACE`; the list of `p4_shadow`, which observes only.
- Of `HuskSet`: the second set, of Default frees, with its aging.
- Of `FreeListUnit`: the reserve list with its donation and top-up, the overflow of
  a capture, the back link, the tail and the sum of sizes, the other allocators.
- Of `Surfaces`: textures and the optional set of epochs. A behaviour's game
  stops once a death is `forgotten`.
- Of `RevertParts`: bytes. Content is the instant it was written at; that the pages
  of a saved frame are that frame's is `ArenaSnapshot`'s subject.
- Of `KickScalars`: the cursors of the render ring that the last replayed frame sets
  up, and the automatic rollback, which comes after the record and would find it.
- In `World`, but for `RevertParts`, a rollback goes to a frame that has a save.

### Not modelled

- **The carver's race.** `hk_VirtualFree` changes `g_free_list` and `g_reservations`
  without `g_carve_cs` while another thread carves under it. `ArenaRegions` has
  releases atomic, as if the lock were taken: what the race can do to two plain
  arrays is anything, and every property of the carver would be about that. Also
  left out: commits and zeroing of pages, the bump allocator of the heap zone.
- **The opening** (`net_charsel.cpp`, `net_sync.cpp`). Seed and phase are written
  by address into menus of the game; a model would be of the menus.
- **Guards, repairs, probes, censuses, look-ups, the oracle, the monitor.** Each
  guard hooks one function of the game's binary and is right or wrong about a
  structure of that binary, which is not in the repository; the others only read.
  Together with the generated `census_types.h`, the vendored MinHook and the loader
  they are more than half of the lines of the implementation, which is why the
  modules cover about a sixth of it.

---

## 7. The plan

Done: the input exchange, the phases and the frames of a rollback with proofs;
what follows the clock, with proofs about the quarantine, the voices and the rings;
snapshots, fold, engine arm and session, with proofs; the render kick, the carver's
regions, the surfaces, the free lists and the set of husks, with proofs; the typing
of `World`.

Next, in this order:

1. `FreeListUnit` with the reserve list and its top-up: the second list from
   which a block may be handed out.
2. Two machines over `RollbackFrames`, composed with `NetInput`: whether the two
   games are the same where no replay is cut short by the cases of section 5.
