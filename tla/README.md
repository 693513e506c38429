# Formal models of the garnet sources

This directory holds TLA+ models of the code under `src/`, the TLC configurations
that model-check them, and TLAPS proofs. The centre of the repository, and of the
design document, is the zxdb debugger client. The other files under `src/` are
single files from unrelated subsystems: WLAN, Bluetooth, Scenic, Machina, audio
and an example app.

## Inventory

| Part | Source | State | Operations | Status |
|---|---|---|---|---|
| zxdb `SystemImpl`, the session root | `src/bin/zxdb/client/system_impl.cc` | `targets_`; each Target's Process (by koid); `job_contexts_`; `breakpoints_` (backend id → internal?); the build-ID cache; the observer list | constructor, `CreateNewTarget`/`AddNewTarget`, `CreateNewJobContext`, `CreateNewBreakpoint`, `CreateNewInternalBreakpoint`, `DeleteBreakpoint`, `ProcessImplFromKoid`, `NotifyDidCreateProcess`/`NotifyWillDestroyProcess`, `DidConnect`, `DidDisconnect`, `~SystemImpl`, `Pause`, `Continue`, `GetProcessTree` | modelled, except `Pause`, `Continue` and `GetProcessTree`; observers that call back into the breakpoint registry in `ZxdbBreakpointObservers.tla` |
| zxdb `ThreadController` | `thread_controller.h` | the controller stack of a thread; pending init callbacks; the thread's run state | `InitWithThread` (possibly asynchronous), `GetContinueOp`, `OnThreadStop` (vote), `NotifyControllerDone`, and the owning thread's exit | modelled (`ThreadController.tla`) |
| zxdb `Disassembler` | `disassembler.h` | none (pure) | `DisassembleOne`, `DisassembleMany`, `DisassembleDump` (budget and progress rules) | modelled, except `Init` |
| zxdb member resolution | `resolve_collection.h`, `inherited_from.cc` | the class hierarchy; memory reads in flight; the evaluation context; callbacks | `ResolveMember` by name, `ResolveMemberByPointer`, `ResolveInherited` | modelled (`ResolveHierarchy.tla`, `ResolveContract.tla`, `ResolveCollection.tla`) |
| WLAN `Dispatcher` | `src/lib/wlan/mlme/dispatcher.cpp` | statistics counters; what the MLME is handed; replies sent | `HandlePacket`, `HandleSvcPacket`, `HandleMlmeMessage`, the query handlers, `HandlePortPacket`, `HwIndication`, `HwScanComplete`, `ResetStats` | modelled |
| Bluetooth data `Domain` | `src/drivers/bluetooth/lib/data/domain.h` | the task queue; the data thread's lifecycle state; L2CAP links, services and channels; the callback queue; the reference count | every method of the interface as a posted task; inbound requests and link errors from the peer; the caller dropping its reference | modelled from the interface's contract (`BtDomain.tla`) |
| Scenic `ViewImpl`, root presenter, Machina config, interrupt controller, example app, tests | — | — | — | not modelled (reasons in `PROJECT.json`) |

How the zxdb parts interact:

- The Session owns one `SystemImpl`.
- `SystemImpl` owns the Targets, each of which may own one Process.
- `SystemImpl` also owns the breakpoint registry and the symbols.
- The debug agent reports events about processes by koid. `ProcessImplFromKoid` routes each event to the Target whose Process has that koid.
- Observers (the UI) are told of every object that comes and goes.
- ThreadControllers, which drive stepping, create internal breakpoints in the same registry. Internal breakpoints must stay invisible to the observers.

The behaviours that make this code hard are:

- **Notification order during teardown.** `~SystemImpl` must send a Process's destruction before its Target's.
- **Lost notifications.** A connection drop loses the exit notifications in flight, which is why `DidDisconnect` detaches every target.
- **Routing by koid.** If a koid were ever held twice, an event would reach the wrong target.
- **Reentrant observers.** An observer may create or delete breakpoints from inside a notification loop.

## Modules

### `ZxdbSystem.tla`: `SystemImpl` and what it interacts with

**State.** The variables, and what each stands for in the code:

| Variable | Code |
|---|---|
| `targets` | `targets_`; each entry is the koid of the Target's Process, or `NoProcess` |
| `jobs` | the size of `job_contexts_` |
| `breakpoints` | `breakpoints_`, abstracted to `id → is_internal()` |
| `nextBpId` | BreakpointImpl's backend id counter |
| `connected`, `epoch` | the connection to the agent |
| `buildIdCache` | the epochs of the loaded build-ID entries |

The remote side is `live`, `started` and `exitPending`. `exitPending` holds the exit notifications that are in flight.

Observers are a view, not a log:

- `obsTargets`, `obsProcs` and `obsBps` are the objects the observers were told of and not yet told are gone.
- `obsFault` records whether an observer call was ever about an object in the wrong state. Examples: a `WillDestroyTarget` for a target whose Process was never destroyed, or a second `DidCreateProcess`.

**Actions.** One per operation. An operation with observer fan-out is one action that includes the fan-out. The two loops, in `~SystemImpl` (lines 35–43) and `DidDisconnect` (190–191), are one action per iteration (`TeardownTarget`, `DisconnectTarget`). `phase` and `loopIdx` track the loop, and nothing else runs while a loop is going, as in the single-threaded code. `StartTeardown` and `FinishTeardown` model lines 32–35 and 44. `DidDisconnect` also drops the exit notifications in flight.

Some actions come from the design document, because their code is not under `src/`, and are marked `spec_modelled` in the map:

- TargetImpl attach and detach (`Attach`, `Detach`);
- the backend-id counter (`AllocBreakpointId`);
- the remote processes (`RemoteStart`, `RemoteExit`);
- the session's process-exiting handler (`OnProcessExiting`);
- symbol loading (`LoadSymbols`).

`Pause`, `Continue` and `GetProcessTree` are left out. Each forwards one request to the remote API and changes no client state.

**Properties.** Checked by TLC on `MC_ZxdbSystem`:

- `ObserversSeeUserBreakpoints`: the observers' breakpoints are exactly `GetBreakpoints()`, for any mix of user and internal creations and deletions.
- `NotificationsWellOrdered`: no observer call ever concerns an object in the wrong state. This includes the teardown order.
- `NoStaleProcess`: between operations, every Process a target holds is still running remotely, or its exit notification is in flight.
- `IInv` and `ViewInv`: the inductive invariants of the proofs below. `ViewInv` also says the observers know a target has a Process exactly when it has one, in every phase.
- `ExitedProcessesDropped`, a liveness property: a process that exits while held is eventually dropped.

### `WlanDispatcher.tla`: the WLAN MLME `Dispatcher`

The dispatcher is the entry point for every packet of a WLAN interface. All its entry points run on the device's work thread, so each call is one atomic action.

**State.**

| Variable | Code |
|---|---|
| `stats` | `stats_`: `any_packet` in/out/drop, and the management, control and data frame counters |
| `mlmeGot` | the sequence of what `mlme_` was handed: frames, timeouts, hardware events and decoded MLME primitives |
| `mlmeResets` | the calls to `ResetMlmeStats` |
| `replies` | the service messages sent with `SendServiceMsg`, as (ordinal, txid) |
| `lastIn`, `lastStatus` | the argument and the result of the last `HandlePacket` |
| `events` | the number of calls, bounded by `MaxEvents` |

**Abstractions.**

- A packet keeps only what the dispatcher reads:
  - its peer;
  - for a WLAN frame, its frame type, or `"none"` if it is too short for a FrameControl;
  - for a service message, its ordinal (or `"short"` if it is shorter than a FIDL header), its txid, and whether its body decodes.
- The MLME and the device return a nondeterministic status.
- `SendServiceMsg` may fail, and then nothing is sent.

**Actions.**

- `HandlePacket(p)` counts the packet (`CountPacket`) and routes it by peer. For a service message it calls `HandleSvcPacket`, which has one arm per ordinal group, as in the code.
- `HandlePortPacket`, `HwEvent` and `ResetStats` are the other entry points.

**Properties.**

- `StatsBalanced`: every packet counted in is counted out or dropped, and the frame-type counters never exceed the packets passed on. This holds across resets.
- `RepliesMatchRequests`, an action property: a call sends at most one reply, only while handling a service packet. A two-way reply carries the request's txid, and a one-way confirmation carries txid 0.
- `TypeOK` also says that no unknown ordinal ever reaches the MLME.

### `Disassembler.tla`: the batch rules of the `Disassembler`

Only the header is under `src/`, and its comments state the contract. The model takes it from there. The instruction decoder is an external library, abstracted to a table: `code[a]` is the length, in decode units, of the instruction that starts at unit `a`, or 0 if the bytes there do not decode. An instruction that would run past the data given to `DisassembleOne` does not decode. Each output line is an entry: its address, its kind (instruction, `data` placeholder or unmapped range), its length, and whether its address is shown.

One behaviour is one call. `Init` chooses the call, the decoder table, the mapped units of a dump, `max_instructions` and the options. Each `ManyStep` or `DumpStep` is one iteration of the call's loop, and `Return` ends it.

- `DisassembleOne` decodes one instruction, or emits a one-unit `data` line when `emit_undecodable` is set.
- `BatchOptions` forces `emit_undecodable` on in both loops, as the header requires.
- `DumpStep` turns a whole unmapped block into one line, which counts as one instruction and always shows its address. In a mapped block it decodes with the data up to the end of the block.

Properties:

- `OutputMatchesReference`: when a call returns, its output is the reference disassembly. The reference is stated from the contract, not from the loop:
  - the lines tile the data from its start;
  - each line is the right one for its address (`RightLine`);
  - the whole data is covered when `max_instructions` is 0, and otherwise exactly `max_instructions` lines are returned unless the data runs out first;
  - `*instruction_count` is the number of lines.
- `Termination`: every call returns. This is the forward-progress rule.

### `ThreadController.tla`: a thread and its controller stack

Only the abstract class is under `src/`, so its comments are the contract that the model takes. The owning Thread's side comes from those comments and from the design document:
  - which controller's `ContinueOp` is used;
  - what an init error does;
  - the weak binding of the init callback.

State:
  - `log`: the controllers in the order they were pushed. The stack (`Stack`) is the log without the deleted controllers, and its top (`TopOf`) is the last of them that is still there. Keeping the push order and the deletions apart, rather than a sequence filtered on every removal, keeps the stack's top a plain definition;
  - `initCb`: controllers whose `InitWithThread` callback has not come;
  - `deleted`: the controllers that were deleted;
  - `tstate`: stopped, running or exited;
  - `runUnder`: the controller whose `ContinueOp` the thread runs with.

Actions:
  - `AddController`: push a controller on a stopped thread and call `InitWithThread`.
  - `InitDone`: the callback. With no error, the thread is resumed when it is called, with the top controller's `ContinueOp`, as header lines 82-83 say. With an error, the controller is dropped and the thread stays stopped. If its controller or thread is gone, the callback does nothing (`InitLive`, from the design document).
  - `ThreadStop`: every controller votes, kStop wins, and the voters for kStop are deleted.
  - `NotifyControllerDone` and `ThreadExit`.

`TopOf`/`GetContinueOp`, `InitLive` and `ThreadExit` are the Thread's side of the contract and are marked `spec_modelled` in the map.

Property:
  - `NoRunBeforeInit`: the thread never runs while a controller on its stack awaits its init callback. This is what section 4.2 of the design document asks of `InitWithThread`: the thread is resumed only after the controller signals success. The `controller_safety` run finds it violated; see the findings below.

### `ResolveCollection.tla`: member and base-class resolution

The resolution model is split in three modules:
  - `ResolveHierarchy.tla` holds the class hierarchy and what both levels share. These are the constants, the state `bases`/`decl`/`boff` fixed by `HierarchyInit`, and the reference definition `RefOffset` over base-class paths.
  - `ResolveContract.tla` is the abstract specification: what `resolve_collection.h` promises a caller. `Call` either reports not-found at once or leaves the callback pending. `Answer` delivers the value at pointer + `RefOffset`, or a read error, while the context is alive. `Teardown` destroys the context.
  - `ResolveCollection.tla` is the implementation.

Classes are `1..NClasses`. A class's direct bases are higher-numbered classes, in increasing declaration order, so every hierarchy is acyclic. `Init` chooses:
  - the hierarchy;
  - the members declared on each class (a member named `n` sits at byte `n`);
  - the `InheritedFrom` offset of each base.

`FindMember`/`SearchBases` is the depth-first lookup by name. It is recursive, and used only by TLC. `ResolveInherited` projects a direct base. `ResolveMemberByPointer` looks the member up, then either reports not-found at once or issues one read at pointer + offset. `ReadDone` delivers the value, or a read error, through a weak reference to the context, and `DestroyContext` may come first. Memory holds at each address its own value, so a delivered value names the address it was read from.

Properties:
  - `LookupMatchesReference`: the search equals a reference stated over base-class paths. The reference takes the first path to a declaring class in depth-first (lexicographic) order, and adds up the offsets along it. A member found through a base is also the base's `ResolveInherited` projection plus the member's offset in that base.
  - `CallbackMatchesReference`: a value delivered to a callback is the memory at pointer + the reference offset, and not-found is reported exactly for members the reference does not find.
  - `ImplementsContract`: `Spec => Contract!Spec`. `Contract` is `INSTANCE ResolveContract` with every variable mapped to the one of the same name. The reads in flight are hidden. `ReadDone` maps to `Answer`, or to a stutter when the context is already gone. `DestroyContext` maps to `Teardown`. The implementation therefore finds members exactly as the path-based reference does, reads at the right address, and answers no call after the context is destroyed (`Answer` requires a live context). The weak reference (`WeakLive`) is the design document's, marked `spec_modelled`.

### `BtDomain.tla`: the Bluetooth data `Domain`

The interface is all that `src/` has, so the model follows its contract. The caller's every method posts one task to the data thread's queue. The data thread runs the tasks in order:
  - Initialize and ShutDown always act.
  - Every other task has no effect unless the Domain is initialized (`Effective`).
  - AddLEConnection also opens the ATT and SMP fixed channels and posts `channel_callback`.
  - RemoveConnection closes every channel of the link.
  - OpenL2capChannel posts `cb` with a channel or nullptr.
  - RegisterService keeps an existing handler; UnregisterService leaves open channels alone.

The remote peer sends inbound channel requests, which are accepted only for a registered PSM, and channels report link errors. Callbacks run on the caller's dispatcher, in order. The Domain is reference counted: the caller holds one reference and each queued task holds one, so that the caller may drop its reference right after ShutDown. The model lets the caller drop it at any time, which includes every caller the header allows.

Properties:
  - `NoUseAfterFree`: no task is left to run once the count reaches zero.
  - `ChannelsOnRegisteredLinks`: every open channel is on a registered link, whatever the interleaving of adds, removes, opens, inbound requests and shutdown.
  - `FreedAfterRelease`: once the caller has dropped its reference, the Domain is eventually freed. This holds under `FairSpec`, which is weak fairness of `RunTask` and `RunCallback`. The data thread and the caller's dispatcher each run every task posted to them. The last queued task releases the last reference (`ReleaseTaskRef`), after its own work is done.

### `ZxdbBreakpointObservers.tla`: observers that call back into the registry

`CreateNewBreakpoint` registers the breakpoint and then calls `DidCreateBreakpoint` on each observer in turn. `DeleteBreakpoint` calls `WillDestroyBreakpoint` on each observer, for user breakpoints only, and then erases the breakpoint. The code says observers "may mutate breakpoint list". A callback's own create or delete runs a nested loop to completion in the middle of the outer one.

The model keeps the loops in progress as a stack (`frames`). A `Notify` step tells the innermost loop's next observer. That observer's callback may then make one call, which pushes a new loop. `FinishLoop` pops a finished loop: a create returns its breakpoint, and a delete erases it. The constant `DeleteAny` says whether a callback may delete a breakpoint whose own notifications are still in progress.

Properties:
  - `NotifyingLiveBreakpoint`: every loop in progress holds a breakpoint that is still registered.
  - `QuiescentViewsAgree`: when no loop is running, every observer has been told of exactly the user breakpoints.
  - `ObsInv`: the inductive invariant behind both properties, used by the proofs below.

## Runs and bounds

| Run | Configuration | What it shows |
|---|---|---|
| `system_safety` | `MC_ZxdbSystem.cfg`; 2 koids as model values under symmetry, 2 targets, 2 job contexts, 3 breakpoint ids, 3 attaches, 2 connections; about 290k states | `ObserversSeeUserBreakpoints`, `NotificationsWellOrdered`, `NoStaleProcess`, and `IInv` and `ViewInv`, the invariants the proofs rest on |
| `system_liveness` | `MC_ZxdbSystem_live.cfg`; the same, with 1 job and 1 breakpoint, and without symmetry | `ExitedProcessesDropped` under the fairness below |
| `dispatcher_safety` | `MC_WlanDispatcher.cfg`; 2 txids, 3 calls; about 83k states | the dispatcher properties above, over every packet kind and ordinal |
| `disassembler_reference` | `MC_Disassembler.cfg`; 4 units, instructions up to 2 units, budgets 0, 1, 3; every decoder table and mapping, about 70k states | `TypeOK` and `OutputMatchesReference` |
| `disassembler_progress` | `MC_Disassembler_live.cfg`; 4 units, budgets 0 and 2 | `Termination` under weak fairness |
| `controller_safety` (violation) | `MC_ThreadController.cfg`; 2 controllers, 2 stops | `NoRunBeforeInit` fails; see the findings below |
| `resolve_reference` | `MC_ResolveCollection.cfg`; every acyclic hierarchy of 3 classes, 2 names, base offsets 0 and 4, one call through a null or a valid pointer; about 113k states | `TypeOK`, `LookupMatchesReference`, `CallbackMatchesReference` |
| `domain_safety` | `MC_BtDomain.cfg`; 1 handle, 2 PSMs, 5 operations or peer events; about 306k states | `NoUseAfterFree`, `ChannelsOnRegisteredLinks` |
| `resolve_refines` | `MC_ResolveCollection_refines.cfg`; the bounds of `resolve_reference`; about 113k states | `ImplementsContract` |
| `domain_liveness` | `MC_BtDomain_live.cfg`; the bounds of `domain_safety`, under `FairSpec` | `FreedAfterRelease` |
| `observers_reentrant` | `MC_ZxdbBreakpointObservers.cfg`; 2 observers, 3 breakpoint ids, `DeleteAny = FALSE`; about 750 states | `NotifyingLiveBreakpoint`, `QuiescentViewsAgree`, `ObsInv` |
| `observers_delete_new` (violation) | `MC_ZxdbBreakpointObservers_reentrant.cfg`; the same with `DeleteAny = TRUE` | `NotifyingLiveBreakpoint` fails; see the finding below |

The violation run reports this trace. An observer deletes the new breakpoint inside `DidCreateBreakpoint`, and `DeleteBreakpoint` erases and destroys it. `CreateNewBreakpoint` then hands the freed `to_return` to the remaining observers and returns it (`system_impl.cc:133-137`). If a callback deletes a breakpoint whose `WillDestroyBreakpoint` loop is already running, the outer `erase(found)` then uses an invalidated iterator. This is recorded as a `code_bug` finding in `PROJECT.json`.

The `controller_safety` run reports this trace, in four states. Controllers `c2` and `c1` are pushed on the stopped thread. `c1`'s `InitWithThread` calls back without an error, and the thread is resumed, as the header (`thread_controller.h:82-83`) says. `c2` has not called back yet. The design document says the thread is resumed only after the controller signals success, and that a controller must not assume it already is; with several controllers on the stack, neither text says whether the resume waits for all of them. This is recorded as a `spec_gap` finding.

Why these bounds are enough:

- Two targets and two koids let a koid be attachable by either target. They also let a disconnect loop meet one attached and one unattached target.
- Three attaches allow re-attaching after an exit.
- Two connections allow a reconnection with the cache filled before it.
- Three breakpoint ids allow a delete followed by a create.
- For the dispatcher, three calls allow a reset between two counted packets. Two txids let a reply carry the wrong request's id.

For the disassembler, four units with instructions of up to two units give every case:
  - an instruction cut off by the end of the data or of a mapped block;
  - undecodable bytes next to instructions;
  - an unmapped range of several units between mapped ones.
  Budget 1 stops in the middle, budget 3 stops in the middle or runs out of data first, and budget 0 has no limit. `MaxIterations` (`BufLen + 1`) caps a loop. A loop that makes progress never reaches the cap, and one that does not make progress reaches it and stops there, which `Termination` reports.

For the controllers, two controllers are the fewest for which one callback can arrive while the other is pending. For resolution, three classes give every shape of a small hierarchy: two bases, a base of a base, a diamond, and shadowing. Two offsets make two paths to the same name give different results. For the Domain, five events are enough to initialize, add a link, open or accept a channel, remove the link and shut down. One handle is enough for a remove to race an open or an inbound request on it. For the observers, two observers let a callback act between two notifications of the same loop. Three ids allow a nesting of two loops plus an earlier breakpoint to delete.

The controller, resolution, Domain and observer runs also set `CHECK_DEADLOCK FALSE`:
  - a thread may stay stopped for good, waiting on its user;
  - an evaluator is idle once its reads complete;
  - the Domain waits for a caller once the event bound is spent;
  - the registry is idle once the id bound is spent.

The disassembler runs set `CHECK_DEADLOCK FALSE` because a call returns, and then nothing is left to do. Its fairness is weak fairness of the loop, which runs on the caller's thread to its end.

The dispatcher run also sets `CHECK_DEADLOCK FALSE`. The dispatcher is a passive callee: it stops whenever no call arrives, which in the model is when the call bound is spent.

Every property of a passing run has a mutant in `PROJECT.json`: a plausible bug in one mapped definition that TLC then reports. The mutants are:

- `CreateNewInternalBreakpointNotifying` (the internal variant notifies observers);
- `TeardownTargetSwapped` (the two notifications in the destructor swapped);
- `DisconnectTargetNoDetach` (`DidDisconnect` does not detach);
- `OnProcessExitingIgnored` (the notification is never routed);
- `CountPacketNoOut` (`any_packet.out` not incremented);
- `HandleMinstrelPeerListNoTxid` (the peer list is sent without the txid);
- `HandleUnknownOrdinalForwarded` (an unknown ordinal is passed to the MLME);
- `DisassembleOneUnchecked` (an instruction is decoded past the end of the data);
- `UnmappedBlockPerUnit` (an unmapped range gets one line per unit);
- `BatchOptionsAsGiven` (the loops honour `emit_undecodable = false` and stall);
- `FoundUnchecked` (a read is issued for a member that was not found);
- `FindMemberBasesFirst` (bases are searched before the class's own members);
- `MemberAddressBase` (the read is made at the pointer, not at the member);
- `PostUnretained` (a task does not hold a reference to the Domain);
- `DoRemoveConnectionKeepsChannels` (RemoveConnection leaves the channels open);
- `ReleaseTaskRefLate` (a task's reference is counted as still held after it ran);
- `DeleteBreakpointEraseFirst` (the breakpoint erased before its observers are told);
- `TellAdding` (`WillDestroyBreakpoint` handled like `DidCreateBreakpoint`).

The refinement run reuses `MemberAddressBase`: reading at the pointer instead of at the member breaks `ImplementsContract`. A read callback that ignored the context's destruction breaks it too. `ObsInv` reuses `DeleteBreakpointEraseFirst`, `IInv` reuses `DisconnectTargetNoDetach`, and `ViewInv` reuses `TeardownTargetSwapped`.

**Fairness.** `FairSpec` assumes weak fairness of delivering each pending exit notification, and of each step of the two loops. Why the code justifies it:

- The client runs on a single message loop, and the agent's notifications for a process are delivered in order.
- A notification queued on the loop is eventually processed.
- A loop that has started runs to its end.

No fairness is assumed for user operations or for the remote side.

## Proofs (`ZxdbSystem_proofs.tla`)

TLAPS checks these for every value of the constants, under `KoidsAssumption` (a finite set of koids, with `NoProcess` outside it) and `BoundsAssumption`:

- `TypeCorrect`: `Spec => []TypeOK`. There is one lemma per action, split into one step per field the action changes. Helper lemmas cover a sequence updated at an index, and a Boolean function extended at a point or restricted to all points but one.
- `IInvHolds`: `Spec => []IInv`. The proof is by induction, from `InitIInv`, `NextIInv` and one lemma per action.
- `NoStaleProcessHolds`: `Spec => []NoStaleProcess`, derived from `IInv`.

`NoStaleProcess` is not inductive by itself. `IInv` strengthens it with four facts:

- `KoidsUnique`: no two targets hold the same koid. Without it, the first match of `ProcessImplFromKoid` could route an exit to the wrong target. With it, the lemma `ProcessImplFromKoidUnique` shows the lookup returns the one holder.
- `PendingExitsExited`: an in-flight exit is about a process that was started and has exited, and only a connection carries notifications.
- `DisconnectedDetached`: without a connection no target holds a Process, except inside the `DidDisconnect` loop, where the targets before `loopIdx` are already detached.
- `ConnectedFresh`: while connected, every Process that is held is live or has its exit in flight.

The lemmas `DropShrinks`, `ShrinkKeepsUnique` and `ShrinkIInv` cover every step that only takes Processes away, which is all three loops and detach.

- `ObserversSeeUserBreakpointsHolds`: `Spec => []ObserversSeeUserBreakpoints`, from the lemma `RegInvHolds`.

`ObserversSeeUserBreakpoints` is not inductive by itself: a create under an id that is still in `obsBps` would break it, so the proof needs every new id to be fresh. `RegInv`, in `ZxdbSystem.tla`, adds that every registered or deleted id is below `nextBpId` (so a new id is fresh), that no registered id is a deleted one, and that the build-ID cache holds only entries of the current connection.

The proof has one lemma per action that changes these variables:
  - `CreateNewBreakpointRegInv` covers both creates; only the user breakpoint reaches the observers;
  - `DeleteBreakpointRegInv`;
  - `CacheRegInv` covers `DidConnect` and `LoadSymbols`.

`QuietRegInv` covers every other step, which leaves the registry, `obsBps`, `epoch` and the cache alone.

The observers' view of targets and Processes has a third inductive invariant, `ViewInv`, also in `ZxdbSystem.tla`. TLAPS proves these:

- `ViewInvHolds`: `Spec => []ViewInv`.
- `NotificationsWellOrderedHolds`: `Spec => []NotificationsWellOrdered`.

`NotificationsWellOrdered` only speaks of the fault flag, so it is not inductive by itself. `ViewInv` states the view in every phase:
  - `obsProcs` is exactly the set of attached targets, in every phase;
  - `obsTargets` is every target, except during the destructor's loop, where it is the targets from `loopIdx` on;
  - the destructor's loop has already detached the targets before `loopIdx`.

The last conjunct gives `TeardownTarget` what it needs: the target it destroys is still known to the observers. It also gives `FinishTeardown` what it needs: when the loop ends, nothing is attached.

`ViewInv` is proved together with `IInv`. An exit notification reaches the one target that holds the koid only because `KoidsUnique` holds, by `ProcessImplFromKoidUnique`. The lemma `DropView` covers every drop of a Process outside the destructor: `Detach`, exit routing, and the `DidDisconnect` loop. There is one lemma for each other action that changes the view, and `QuietViewInv` covers the rest.

## Proofs (`WlanDispatcher_proofs.tla`)

TLAPS checks these for every set of txids and every call bound, under `DispatcherAssumption` (txids are positive naturals):

- `StatsBalancedHolds`: `Spec => []StatsBalanced`. Two lemmas carry the proof:
  - `PassKeepsBalance` shows that counting a packet as passed on (`in` and `out`) keeps the counters balanced.
  - `FrameKeepsBalance` shows the same for then counting a frame of a known type.
  Both take the counters as an opaque record, which keeps the nested `EXCEPT` terms small for the provers.
- `RepliesMatchRequestsHolds`: `Spec => RepliesMatchRequests`. The argument has three steps:
  - `SvcPacketAnswers` shows, one arm of `HandleSvcPacket` at a time, that a service packet gets nothing or one `Answer`.
  - `HandlePacketAnswers` lifts this to `HandlePacket`, where the other peers send nothing.
  - `NextRepliesMatch` turns an appended answer into the step property.

The invariant `Inv` adds to `StatsBalanced` that the counters are natural numbers and that `replies` is a sequence of replies. `Append`'s length facts need the second.

- `TypeCorrect`: `Spec => []TypeOK`. Besides the types, `TypeOK` says that the MLME is only handed frames, timeouts, hardware events and the MLME primitives `HandleSvcPacket` decodes, and that every counter is at most the call bound. The counter bounds are not inductive by themselves. The strengthening `TInv` adds that the counters are balanced, that `any_packet.in` is at most the number of calls so far, and that so is the number of MLME resets. `StatsBound` then bounds every counter by `in`. `SvcPacketMlme` takes one case per arm of `HandleSvcPacket`, and shows that only an MLME primitive is appended. TLC checked `TInv` on the `dispatcher_safety` bounds before it was proved.

## Proofs (`BtDomain_proofs.tla`)

TLAPS checks these for every set of handles and PSMs and every event bound, under `DomainAssumption`:

- `ChannelsOnRegisteredLinksHolds`: `Spec => []ChannelsOnRegisteredLinks`. The invariant is inductive by itself. `RunTaskChannels` takes one case per task kind: a removal takes its channels with it, a shutdown closes every channel, and every open happens on a registered link.
- `NoUseAfterFreeHolds`: `Spec => []NoUseAfterFree`. This one is not inductive: a step that drops the last reference could free a Domain whose queue still holds a task without a reference. The strengthening `RefInv` adds three facts:
  - the queue is a sequence of tasks that each hold a reference;
  - a freed Domain has no caller reference left, so nothing can be posted to it;
  - `added` stays a set of handles.

  The lemma `RefCountZero` carries the proof. It shows that a reference count of zero over such tasks means an empty queue and no caller reference, and it counts with `FS_Interval`. The reference count is defined with `Cardinality` over indices, not with `SelectSeq`, because the provers have no facts about `SelectSeq`.

- `TypeCorrect`: `Spec => []TypeOK`. `TypeOK` is not inductive by itself. A queued add, remove or open task with no handle, or a register task with no PSM, would put `NoHandle` into `links` or `NoPSM` into `services`. The strengthening `TyInv` adds `TaskOK`: every queued task carries the arguments its operation uses. The caller's operations post only such tasks, and `AppendTasks` and `TailTasks` carry this through a push and a pop. `RunTaskTyped` has one case per operation. TLC checked `TyInv` on the `domain_safety` bounds before it was proved.
## Proofs (`Disassembler_proofs.tla`)

TLAPS checks these for every buffer length, longest instruction and set of budgets, under `DisassemblerAssumption`, and for every decoder table, mapping and option:

- `TypeCorrect`: `Spec => []TypeOK`.
- `OutputMatchesReferenceHolds`: `Spec => []OutputMatchesReference`.

`OutputMatchesReference` speaks only of a returned call, so it is not inductive. The loop invariant `DInv` states what holds after every iteration:
  - the lines emitted so far tile the data from unit 1;
  - each line satisfies `RightLine`;
  - `offset` is the unit after the last line (`OutEnd`);
  - `count` is the number of lines, and it is below `offset`;
  - a nonzero budget was never overrun;
  - `pc = "done"` only at the end of the data or of the budget;
  - a buffer (`call = "many"`) is mapped throughout.

TLC checked `DInv` on the `disassembler_reference` bounds before it was proved. The argument has one lemma per loop:
  - `ManyLine` shows that DisassembleOne on a fully mapped buffer gives the reference line.
  - `DumpLine` does the same for the dump. There DisassembleOne gets the data up to the end of the mapped block, and `BlockEndSpec` characterises that end. An instruction that would run past it could only do so into an unmapped unit, so the reference also calls it "data". `BlockEndSpec` shows that `BlockEnd`'s `CHOOSE` has a witness: the least unit whose mapping differs, found with `WFMin` on the naturals.
  - `EmitLine` then shows that appending one such line keeps `DInv`.

`DInvOutput` derives the reference from `DInv` and the loop's exit condition.

## Proofs (`ZxdbBreakpointObservers_proofs.tla`)

TLAPS checks these for every number of observers and every id bound, under `ObserversAssumption` and the hypothesis `~DeleteAny`. That hypothesis says a callback deletes only breakpoints whose own notifications are complete. Without it the properties are false: that is the finding of the `observers_delete_new` run.

- `ObsInvHolds`: `Spec => []ObsInv`.
- `NotifyingLiveBreakpointHolds`: `Spec => []NotifyingLiveBreakpoint`.
- `QuiescentViewsAgreeHolds`: `Spec => []QuiescentViewsAgree`.
- `TypeCorrect`: `Spec => []TypeOK`. This holds for either value of `DeleteAny`, with one lemma per step.

Neither property is inductive by itself. `QuiescentViewsAgree` says nothing while loops are running, and a loop in progress may already have told some observers but not the rest. The strengthening `ObsInv` states four things:
  - backend ids below `nextBpId`, so a new breakpoint has a fresh id;
  - the loops on the stack are about distinct, registered, user breakpoints;
  - each observer's view is given by the registry and the stack (`Told`): an observer has been told of `x` exactly when `x` is a user breakpoint and every loop about `x` is a create that has already reached it, or a destroy that has not;
  - the type invariant.

The two properties follow from it directly. With an empty stack, `Told` is membership in `UserBps`.

A callback's call starts from the state the notification has just made: the top loop has been advanced, and the observer's view has been updated. So the invariant is restated over explicit arguments as `Inv(b, n, sn, fr)`. `ObsInvAt` ties `Inv` to `ObsInv`. Each registry call is proved once, for any stack `fs` and views `sn` satisfying `Inv`, to lead to a state satisfying `Inv`:
  - `CreateNewBreakpointInv`, `CreateNewInternalBreakpointInv` and `DeleteBreakpointInv`, combined in `ACallInv`;
  - a delete is covered only when no loop on `fs` is about the deleted breakpoint.

`NotifyTold` shows that one notification, taken alone, preserves `Inv`. `NotifyInv` then adds the optional call, whose deletable set is disjoint from the loops by `~DeleteAny`. `UserCallInv` uses the empty stack. `FinishLoopInv` pops a finished loop, whose breakpoint no other loop is about.

Lemmas on the stack operators carry the sequence reasoning:
  - `AgreesAppendNew` and `AgreesAppendOther` for a push;
  - `AgreesTop` for advancing the top loop;
  - `AgreesPop` and `PopSeq` for a pop, the latter giving `SubSeq`'s length and elements.

Only model-checked:

- `ExitedProcessesDropped` and `FreedAfterRelease`, and the disassembler's `Termination`. Liveness and `ENABLED` are beyond TLAPS.
- Everything about resolution, including the refinement `ImplementsContract`. `ResolveCollection` declares RECURSIVE operators, and the reference is a fold over paths; TLAPS cannot prove facts about either.
- The reentrant-observer properties when `DeleteAny` is TRUE, which fail.
- `ThreadController`, whose one property fails.

## Not modelled, and why

See `components` in `PROJECT.json`. In short:

- Some files are declarations whose implementation is not under `src/` and that state no behaviour to model: `presentation1.h` and `app.h`. (`domain.h`, `thread_controller.h` and `resolve_collection.h` are interfaces too, but their comments state a contract, and that contract is modelled.)
- Some are plain data: `guest_config.h` and `interrupt_controller.h`.
- `view_impl.cc` forwards each call to a registry that is not under `src/`.
- The two test files test code that is not here.

Planned next, in this order:

1. Composing the reentrant observers with `ThreadController`, whose controllers create internal breakpoints.
