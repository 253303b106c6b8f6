# floor: TLA+ models, checks and proofs

libfloor is a C++ compute/graphics library with one interface over CUDA,
Metal, OpenCL, Vulkan and the CPU ("host"), and the services such programs
need: threads, logging, events, configuration. This directory holds TLA+ models
of the parts in which several threads, a device or a protocol of calls meet,
the TLC configurations that check them, and proofs checked by TLAPS.

Paths below are relative to the repository.

## Inventory

| Part | State | Operations | Interacts with |
|---|---|---|---|
| resource slots (`include/floor/threading/resource_slot_handler.hpp`) | one atomic bitmask; each `resource_t` holds a slot | acquire, try_acquire, release, move, count | command pools, descriptor sets, heaps, argument buffers lease from it |
| `thread_base` (`src/threading/thread_base.cpp`) | status, finish flag, pause flag, delay CV | start, pause, unpause, set_thread_should_finish, finish; the loop around `run()` | base of the logger thread, event thread, completion threads |
| completion handler (`include/floor/device/utility.hpp`) | work queue, CV, workers | add_cmd_completion, run, destructor | Vulkan and Metal 4 queues add commands |
| Vulkan queue (`src/device/vulkan/vulkan_queue.cpp`) | per-thread command pools, completion handlers per buffer, timeline semaphore and its counter | make / submit / free command buffers, complete, destroy | slots, completion handler, device, thread exit |
| Metal 4 queue (`src/device/metal/metal4_queue.mm`) | per-thread pools, `completed` flags, ring of pending submission numbers | make / submit / complete command buffers, finish, destroy | slots, completion handler, ring buffer, feedback of the device |
| small_ring_buffer (`include/floor/core/small_ring_buffer.hpp`) | two indices, fixed storage | enqueue, dequeue, peek, clear, iterate | Metal 4 queue |
| Vulkan swapchain (`vulkan_context.cpp`), renderer (`vulkan_renderer.cpp`) | slots of semaphores and fences, locks of images; stage, drawable and barriers of a renderer | acquire, begin, draw, commit, present, resize | presentation engine, window, images |
| VR presentation (`src/vr/openxr_context.cpp`) | session state, frame, acquired image, image locks | poll events, begin / end a session, acquire and present | OpenXR runtime, Vulkan context |
| host execution (`src/device/host/host_function.cpp`, `elf_binary.cpp`) | group ticket, one fiber per work-item, ids, SIMD storage | launch, enter / switch / leave a fiber, barrier, ballot, shuffle | one OS thread per CPU |
| device algorithms (`include/floor/device/backend/algorithm.hpp`) | local memory of a work-group | reduce, inclusive and exclusive scan | barriers and sub-group functions of a backend |
| device buffers (`device_buffer.hpp`, `*_buffer.cpp`, `*_buffer.mm`) | memory, staging copies, open mappings | read, write, copy, fill, zero, map, unmap | queues, drivers |
| host buffers (`src/device/host/host_buffer.cpp`) | host memory, a shared Vulkan or Metal buffer, a lock | the same, synchronisation of the two | render backends |
| Vulkan images (`vulkan_image.cpp`, `vulkan_image_internal.cpp`) | layout and access the host believes in | transitions, zero, blit, write, map, use as argument, attachment or drawable | renderer, queue |
| Vulkan functions (`vulkan_args.hpp`, `vulkan_function.cpp`, `vulkan_shader.cpp`, `vulkan_program.cpp`, `vulkan_pipeline.cpp`) | layouts per function and pipeline; descriptor and constant memory | execute, draw, set arguments, bind | queues, argument buffers, indirect commands |
| indirect commands (`generic_indirect_command.cpp`, `device_queue.cpp`) | commands per device | record, reset, complete, execute ranges | queues of every backend |
| resource registry (`src/device/device_context.cpp`) | resources by pointer and by label | add, rename, look up, remove, disable | every memory object |
| universal binary (`src/device/universal_binary.cpp`) | targets to compile, programs, count of open jobs | build an archive, choose a binary for a device | tasks, toolchain |
| logger (`src/core/logger.cpp`) | store, output store, run number | log, flush, run, destroy | every thread of the program; thread_base |
| event system (`src/core/event.cpp`) | queued events, user queue, processing queue, handlers, three locks | add_event, handle_events, run, add / remove handler | SDL, user's handlers, `floor.cpp` |
| fences (`vulkan_fence.cpp`, Metal) | semaphore, last signal value | next value, wait, signal | queues |
| spin locks, atomic_shared_ptr, task (`include/floor/threading`) | a flag; a pointer; a thread | lock; exchange; spawn | everything above |
| descriptor sets, heap (`src/device/vulkan/internal`) | leased sets; sub-allocations | acquire, release | slots |
| rest of the Vulkan, Metal, CUDA and OpenCL backends | driver objects | one driver call per operation, mostly | drivers |
| toolchain, SPIR-V, ELF loader, lexer / grammar, json, bcm, unicode, serializer, math | none or local | parse, compile, convert | file system, compilers |

What is hard in them:

* Concurrency without locks: the slot mask, the flags of `thread_base`, the
  group ticket. Concurrency with several locks: events, swapchains, copies
  between host buffers.
* Condition variables used without a predicate or without their mutex; the code
  relies on timeouts, so lost notifications must cost time only, never work.
* Ownership passed through a queue: a command buffer belongs to the recording
  thread, the completion queue, a completion thread or the device, and error
  paths leave it somewhere. A frame's semaphores and images likewise.
* Something kept twice: an image layout (what the host believes, what the device
  has), a shared buffer, managed and staged memory, a label and its registry
  entry. The copies must be brought together in the right order.
* Barriers: fibers share ids and SIMD storage, items of a group share local
  memory, indirect commands overlap up to the next barrier.
* Shutdown: every component is destroyed while its thread may be anywhere.

What makes each part correct: slots are leased exclusively and none is lost; a
thread's status is true and a finish is prompt; an added command completes
once; a command buffer is not reused while the device has it, and has one
releaser; finish() returns after everything submitted before it; frames share
neither semaphores nor images; a VR frame that was begun is ended; messages come
out once, in order, before `destroy()` returns; a barrier holds all items, ids and
SIMD results are the item's own; reduce and scan combine each input exactly
once; buffers hold what was stored, and images are in the layout they are used
in; a lookup returns the object with that label; an archive holds for each target
its own binary, and the chosen one runs on the device; events are handled once
and in order, and the locks are taken without a cycle.
`PROJECT.json` lists the hazards line by line.

## Modules

    SlotPool              abstract pool of slots
      ^ implemented by
    ResourceSlots         the lock-free mask               ResourceSlotsProofs
    ThreadBase            a set of thread objects          ThreadBaseProofs
      ^ extended by
    CompletionHandler                                      CompletionHandlerProofs
    SmallRingBuffer
      ^ extended by
    Metal4Queue  \
    VulkanQueue  / MCDeviceQueues   pools as in SlotPool,
                                    handler as in CompletionHandler    DeviceQueueProofs
    HostExec, EventSystem, Logger (on ThreadBase)   } MCHostServices   HostServicesProofs
    ResourceRegistry, BufferSharing, BufferLocks    \                  MemoryProofs
    ArgumentLeases (as SlotPool), IndirectCommands  |  MCDeviceWork    CommandProofs
    BufferOperations, VulkanImages, VulkanArguments,
    GroupAlgorithms                                 /
    VulkanSwapchain, VrSession, UniversalBinary     } MCDeviceContext  DeviceContextProofs

Each module holds the component's state as VARIABLES under the source's names,
one action per operation or per step between two points where other threads can
act, and the properties at its end. Operators commented `Mutation` are plausible
errors the properties must catch; the specification does not use them. The four
MC modules put components side by side that belong together but share no state: a
behaviour is one of one `part`, so that one run asks all their questions. Each
component also has a specification of its own (`VulkanSpec`, `LogSpec`, `LaunchSpec`,
...), which the theorems are about: the behaviours of its part in the run, without
the fairness. The other runs check a component's module directly. A `MC*.cfg` gives the constants as
model values and small numbers.

**ResourceSlots.** The mask is the set of its 1-bits, a handle (`resource_t`) is
the process. Loads and compare-exchanges are separate actions
(`AcquireLoad`, `AcquireCas`, `CasRetry`, `ReleaseLoad`, ...). The search for
the lowest bit is modelled for masks of one and of two machine words,
`compute_free_slot_idx`. `try_acquire_slot` makes one attempt only. `MoveHandle` moves a handle onto any other;
`resource_t::operator=` does not release what the other held, so that slot goes to the
history variable `lost`. The use counts include it, and when all slots are gone that way nobody
acquires any more (the exception of `AcquireLockFree`). In `SlotPool` such a slot is simply
one that nobody gives back.

**ThreadBase.** `tpc` is the position of the OS thread in `_thread_run`, `call`
the owner's in `start`/`finish`. Every access to a flag is a step. The check of
the flag (`AfterRun`) and the sleep (`FallAsleep`) are apart, and a notification
wakes a thread only if it sleeps. `run()` begins and returns; modules that
extend this one replace that pair by what their `run()` does. finish() of an
unstarted thread skips the join and destroys a joinable `std::thread`
(`FinishUnstarted`: the process is terminated). The finish flag may be set before start()
(`early`): the OS thread, which exists since the construction, then leaves its first wait and
ends, and a start() that comes after that reports RUNNING.

**CompletionHandler.** Workers are ThreadBase threads whose `run()` waits,
takes one command under the lock, completes it outside (normally or with an
exception). The destructor sets every flag, notifies all, finishes one after the
other. Queued commands are left behind, as in the code.

**VulkanQueue.** A thread makes a primary command buffer (`MakeBuffer`), may
record a secondary into it, and submits (`Submit`) blocking or not; the device
executes the batches of a queue in order (`GpuSignal`, external); a completer
waits for the value, calls the completion handlers, releases the slot. Failing
calls: reset (`MakeBufferFails`, `MakeSecondaryFails`), submit (`QueueSubmit`), wait
(`WaitFails`), lost device (`DeviceLost`). `lost` and `sec_lost` record the slots that error
paths never release, `unwaited` the batches completed although the wait for them failed. A
thread may exit at any time it is between two calls. Its pool goes then, also when a
completion is queued or under way: what uses the pool afterwards (`UseDestroyedPool`), frees
it while the device executes a batch after the 5 s (`ThreadExit`), or submits without blocking
after destroy() (`SubmitToDestroyed`), is undefined. That sets `vk_undefined` and ends the behaviour.

**SmallRingBuffer, Metal4Queue.** The ring buffer's operations are functions of a
buffer; only reading wraps the two indices, as in the code. In Metal4Queue a
submission enqueues its number, blocks or goes to a completion thread, and is
completed when the feedback has set `completed` or after 60 s. Handlers of a
command buffer may submit and wait themselves, so an actor has a `stack` of
command buffers it completes. A thread may exit, which destroys its pool, and
destroy() ends the completion handler. What the code does not define (a pool or
handler used after its end) sets `undefined` and ends the behaviour.

**VulkanSwapchain.** A renderer takes the acquisition lock, searches a slot whose
semaphores are free (`Candidate`, `TakeSlot`, `SkipSlot`), waits for its fence,
acquires an image; `Commit` submits, `QueuePresent` presents; `EnginePresents`
signals the fence. A resize locks the same locks, waits 16 times 100 ms for each
fence and destroys the swapchain regardless (`gave_up`). Each call may fail once:
a blocking commit presents also when its submission has failed (`CommitFails`), and after a
resize whose new swapchain could not be made there is no slot to find (`no_swapchain`,
`NoSlots`). A frame of a swapchain that is gone would go on with freed semaphores; that
is undefined, and `Execute` and `QueuePresent` do not follow it (`Current`).

**VrSession.** `PollEvent` is handle_input with the session events, `AcquireImage`
and `Present` the steps of a frame; the runtime (`runtime`, states and queue of
changes) is external and follows the OpenXR state diagram. A failing xrBeginFrame leaves a frame that was
waited for. A renderer that fails or is dropped between acquisition and present
(`GiveUpFrame`) leaves the lock of its image behind, which `kept` records.

**HostExec.** The program of a launch is any sequence of barriers, ballots and
shuffles, the same for all items, as the source demands. A fiber switch
(`SwitchTo`) goes to the next linear or next SIMD item; `ids` are the ids of
the execution context, `saved` those kept per fiber. `DeviceExecution` selects
execute_device (ELF programs) or execute_host (functions in the binary).

**GroupAlgorithms.** The items of a group execute reduce or scan; between two
barriers they run in any order and `accesses` records which cells they touch. A
value is the sequence of inputs it was made of. The functions of a sub-group are one
step of all its lanes, written as the loops of the CUDA and Host-Compute backends:
`SubGroupLoop` counts the lanes combined so far, `Pass` is what one stride does.
The memory holds garbage at first. Apple builds of reduce leave out the barrier of the rounds
within the width of a sub-group (`SkipsBarrier`): the accesses of these rounds stay together in
`accesses`, and two lanes of one sub-group may be among them, as they are in lock step
(`InLockStep`). That is the assumption the code makes; the model executes the rounds one
after the other and so shows which items the assumption is needed for.

**BufferOperations.** `contents` is what the device, the staging buffer and the CPU
see, `promised` what the calls should have led to. The functions `read_buffer`,
`write_buffer`, ... follow the code by the kind of memory; an action checks the
arguments as a debug build does, applies one of them and keeps `promised`. Bytes
name the call they come from. Calls the code is known to get wrong are described
by the `...Deviates` operators, exactly; a behaviour ends after such a call.

**BufferSharing, BufferLocks.** BufferSharing follows one buffer that exists in host
memory and in Vulkan or Metal, under each combination of sharing flags; a content is
the number of the write that made it. Functions and render commands acquire the buffer;
`HostRead` (read, copy from the buffer, map) does not. BufferLocks has the recursive locks
of host buffers and threads that read, write, zero, fill or copy.

**VulkanImages.** `cur` is the layout an image object believes in, `actual` what the
submissions so far left behind. A transition of a renderer moves `cur` and keeps the
barrier in `img_transition_barriers` or the attachment barriers until begin or commit
records it. `wrong` are images that were used, or a barrier performed, in another
layout than expected; `strayed` those for which a known reason exists. An argument that is only
read is moved to the read-only layout, but its descriptor says `DescriptorLayout`, which is GENERAL
for all: `MisdescribedRead` names these uses, and they are held against the layout of the
transition, not that of the descriptor.

**IndirectCommands.** Encoders of several devices are recorded and executed; the loop
of device_queue::execute_indirect is one step per command, with the queue as a stream
(CUDA, OpenCL), at once (host) or overlapping (Vulkan).

**VulkanArguments.** `PipelineLayout` and `Bindings` are what vulkan_program and
vulkan_pipeline lay out when functions are loaded; the actions are one call of
set_arguments (`arg_pre_handler` in its cases, `SetArgument`, `SetPrintfBuffer`,
`SetArgumentsEnds`) and what the callers acquire before (`Acquire`) and bind after
(`Bind`). `descriptors`, `constant_buffer` and `sets` are what the device will read,
and are compared with the layouts. The path (compute, draw, mesh, each direct or indirect,
or argument buffer), the functions and how many arguments are passed are chosen at the start.

**ArgumentLeases.** What VulkanArguments takes as given: the memory arguments are
written to is one of 16 instances of descriptor and of constant buffers per function
(two here). `AcquireDescriptors` and `AcquireConstants` lease stage by stage,
`EncodeArguments` writes and leaves the leases to the handlers of the command
buffer, `RefuseArguments` is the error path; `reads` is what the device will read. A
draw of an indirect renderer goes to a secondary command buffer, whose handlers
nobody calls; `MakeCommandBuffer` clears them.

**ResourceRegistry.** Objects with addresses and labels; each registry call is one
step under its lock, and construction, renaming and destruction are the calls that
device_memory makes, in its order. A weak pointer is the object's identity.

**UniversalBinary.** Tasks take targets, compile, fail or throw, and count down;
the main thread waits and writes the archive. find_best_match_for_device is
translated comparison by comparison (`Fits`, `Beats`) for all six kinds of targets.

**Logger.** Callers append under `store_lock`; `run()` waits, swaps, writes
entry by entry, counts. `destroy()` logs a last message, ends the thread, then
calls `run()` itself. Of `run_num` only "has it changed since I looked" matters
(`same_run`).

**EventSystem.** `mpc` is the main thread in handle_events, `epc` the event
thread in run. `queued_events_lock` and `handler_lock` are held across steps;
`user_queue_lock` covers single steps. A user's handler may call `add_event`,
as `floor::set_fullscreen` and `floor::set_fov` do.

## Runs

| Run | Bounds | Shows |
|---|---|---|
| ResourceSlots | 4 handles, 3 slots, 2-bit words, 4-bit mask | waiting, failed exchanges, both words and the padding occur; leases exclusive, and complete but for overwritten handles; lock-free; implements SlotPool |
| ThreadBase | 2 threads, one with a delay | the status is true, at most one run after each flag, also one set before start(); finish returns |
| CompletionHandler | 2 workers, 2 commands | each command completes once; the destructor returns and leaves nobody inside |
| DeviceQueues | Vulkan: 2 threads, 1 queue, 2 workers, 2+1 slots, 2 submissions, 1 error. Metal: 1 thread, 2 completion threads, 2 slots, a ring of 2, 3 numbers, 1 timeout | no reuse on the device, one releaser, numbers in order; accepted work is freed unless its pool was destroyed, and finish returns unless nobody can make room (`QueuesDrain`) |
| HostServices | launch: 2 CPUs, 3 groups, 2 sub-groups of 2, 2 operations. Events: 2 clients, 2 handlers, 1 event per source. Logger: 2 callers, 1 message each | barriers, ids, SIMD results, every item once, the launch ends; order, exactly-once, removal, only the lock cycle blocks an event; messages in order and complete, also through destroy, flush waits for what a run has taken |
| DeviceWork | registry: 2 objects, 2 addresses, 2 labels. Buffers: 8 bytes, 12 buffers, 8 regions, 2 calls; sharing: 4 writes; locks: 3 threads, 3 buffers. Groups: 1 to 8 items, 1 to 4 sub-groups, 2 calls in a row, with and without Apple's barriers. Images: 4 pairs of kinds, one image mapped at a time. Indirect: 3 commands, 2 devices. Arguments: all kernels of up to 3 arguments of 7 kinds, pipelines of 6 argument lists per stage, up to 7 argument buffers. Leases: 2 threads, 3 calls, 2 instances, 1 primary and 1 secondary command buffer each | what memory objects hold and what is executed on them, see the properties |
| DeviceContext | window: 2 renderers, 1 image (2 slots), 3 frames, 1 resize, 1 error. VR: 2 frames at a time, 2 images, 7 changes of the session, 1 error. Builds of up to 3 targets, 2 workers, all archives of up to 3 targets of one type (33 targets) | frames, sessions, archives and the choice from them |
| Metal4PoolExit | 1 thread, 1 completion thread | **violation**: a pool is destroyed in use |
| OptionalStages | mesh draws of 6 argument lists per stage | **violation**: a missing stage is dereferenced |
| LostHandlers | as the leases of DeviceWork | **violation**: handlers of a secondary command buffer are not called |
| HostExecIds | execute_host | **violation**: ids are zero after a barrier |
| EventSystemCycle | 1 client, 1 handler | **violation**: two locks in opposite order |

Why the bounds suffice: in each run every action fires, and they are the
least with which the hazards happen - more handles than slots, so that one
waits; two workers, so that a notification can reach the wrong one; two threads
per lock or counter, three for a cycle of copies that is more than a pair; two
consecutive operations or calls, because SIMD storage, barriers, local memory and
mappings are reused only between neighbours; three groups for two CPUs, so that one
CPU takes two; a ring of two, so that it fills and wraps; one failing call, since
each error path is a path of its own; two instances and three calls, so that one call
waits for the memory of another while the third has its own; seven changes of a VR session, so that one
begins, ends and begins again. Groups of 8 items in sub-groups of 4 are the
smallest with a second pass that has idle lanes. Histories (`flag_runs`, `runs`)
are capped where one more would violate the property already. Parts of MCDeviceWork
other than `groups` may stop (blocked copies, behaviours given up); for `groups`
TLC's deadlock check shows that every call returns.

### Fairness

* Threads are scheduled: weak fairness of the steps of each thread. Timed waits
  (5s pause, 500ms logger, 200ms workers, the delay) end by themselves, so
  their end is such a step; notifications need no fairness.
* A member function that has begun continues. Leases end: a `resource_t`
  releases in its destructor, whichever handle holds the slot then (`WF` of `ReleaseLoad`
  per slot).
  No fairness makes a particular handle win: AcquireLockFree is lock-freedom.
* `FinishReturns` says that finish() takes an earlier pause back; that it returns
  is claimed only if the pause flag stays clear in the end, since a pause() after
  finish() has unpaused the thread makes the join hang in the code too.
* Devices execute what they accepted and report it (`VulkanFairness`,
  `MetalFairness`); the presentation engine presents what was queued
  (`SwapchainFairness`). The VR runtime owes nothing: its calls may fail.
* `MetalFairness` asks nothing of what follows undefined behaviour.
* Locks: strong fairness is assumed of exactly the steps that take a lock others
  keep taking and releasing - `HandleQueued` and `HandlerAdded` of the event
  system, `LockAcquisition` of a swapchain, `VrLock`. The spin locks and mutexes
  are not fair in theory; without the assumption the runs would report starvation by
  the scheduler and not a lock that is never released.
* Tasks of a build run (`BuildFairness`); a task that ended by an exception does not.
* No fairness is assumed of callers: they may stop at any time.

## Proofs

`ResourceSlotsProofs` proves for every set of handles, number of slots,
word size and bit width with `SizeAssumption` (at least one slot, the mask holds
all slots, at most two words):

* `SlotsAreExclusive`, `MaskIsExact` (a slot is in the mask, held, or lost by overwriting
  its handle), `UsedCountIsExact`: the safety invariants;
* `HandlerImplementsPool`: the lock-free handler implements SlotPool. `Spec` has
  no fairness, and none is needed for this.

The safety invariants are not inductive alone: a release toggles a bit, so it is
right only if the handle holds the slot when its exchange succeeds, and an
acquire only if it does not. `IInv` adds this relation between `pc` and
`slot_idx`. The content of the argument is in three lemmas - `TakeIInv` (a
successful exchange takes a bit that is 1 now, because the mask equals the loaded
one), `ReleaseIInv`, `MoveIInv` - and in `FreeSlotLowest`: the two-word
search returns the lowest set bit. `CtzLowest` derives the existence of a lowest
bit from the well-foundedness of `<`. `CountOfInvariant` is a bijection between
holding handles and the zero bits below the padding, those of lost slots aside. ABA is harmless here: the
exchange compares the whole state.

`ThreadBaseProofs` proves for every set of threads and delays that types are
kept (`TypesAreKept`), the reported status is true (`StatusIsTrue`), at most
one `run()` begins after the finish flag (`OneMoreRun`) and at most one while
the pause flag stays set (`PauseTakesEffect`; both together: `FlagsAreObeyed`).
These are not inductive alone. The invariant `IInv` is a conjunction per thread
object: `UnstartedInv` (before start() the status is INIT, or the thread was told to
finish early and has ended), `StatusInv`, `JoinedInv` (finish() has joined the OS thread), and for each of the two counts where the thread can be
once a run was counted: with the loop condition, or the check of the pause flag,
still ahead of the next run. The only assumption is `DelayedAssumption`.

`CompletionHandlerProofs` builds on it: `ThreadPart` shows that what each
step of the handler does to the thread objects is a step of ThreadBase, so `IInv`
carries over. `HInv` adds that a worker holds a command exactly while it
completes it (`WorkerInv`), that a taken command is with one worker until it has
an outcome (`HeldInv`), and that picked and queued commands together are the
added ones, each once (`SeenInv`). Picking up moves the border between the two
sequences (`MoveBorder`) and takes an element no other worker can hold, because
the whole has no duplicates. From this follow `CommandsArePickedOnce`,
`DestructionIsQuiet` and `HandlerTypesAreKept`, for every number of workers and
commands, with `CompletionAssumption` (no worker has a delay, as the constructor
of generic_cmd_completion_thread sets it to 0).

The other proof modules hold the theorems about the components of one MC module each;
`XInv` is the inductive invariant, its parts are named after what they say, and one
lemma per action or group of actions shows that it is kept. The bounds of the models
(`Max...`) are constants of any size there: no theorem depends on them.

`MemoryProofs`, for all threads, buffers, objects, addresses, labels, images and regions:

* `BufferAccess`: a host buffer is accessed by one thread, and nothing but a cycle of
  copies waits for ever. `LocksInv` ties the lock's holder to the place of each thread.
* `SharedBuffersAreCoherent`: `SharingInv` says which of the two memories is current
  at each point of an acquire and release; the host's is while the render side does not have
  the buffer to write, which is when a read of the host can be relied on.
* `ImageLayoutsAreTracked`: the moves still to come of an image - barriers of draws, the
  renderer's command buffer, barriers of set_attachments - lead from the layout on the device
  to the one the object believes in (`MovesConnect`), and the command buffer of each operation
  fits in there. The theorem says nothing of the layout in the descriptors of read arguments
  (`MisdescribedRead`). Images that strayed for a known reason are excepted, as in the run.
* `BuffersHoldWhatWasStored`: a buffer holds what its calls stored, and shows it, for every
  kind of memory, size, region, pattern and number of calls, until a call that deviates.
  Lemmas say what a call does to the memory of each kind: store data in a region (`StoresAs`;
  `WriteStores`, `FillStores`, `UnmapStores`) or only bring copies up to date (`SyncsAs`).
  The invariant adds what an open mapping that is changed shows of the region until it is
  unmapped (`MappingInv`), and that two of these never overlap (`MappingsApart`).
* `RegistryTellsTheTruth`: the three maps of the registry agree with each other and with
  the objects that live (`MapsInv`, `MemoryInv`); that a label finds its object needs which
  labels two objects have had at a time (`ContestedInv`) and that a registry never
  enabled is empty (`EmptyInv`).

`CommandProofs`, for all threads, command buffers, functions and instances:

* `LeasedArgumentsAreSafe`: the memory the device will read is neither written to nor
  leased again. A lease is in one of four places (`HoldersInv`), a command buffer too
  (`BuffersInv`), a thread has what its step says (`RecorderInv`), and what will be read is
  held by the handlers of the reader (`ReadsInv`).
* `IndirectRunsAsRecorded`: commands are launched in the recorded order and a barrier
  lets nothing pass, on all backends.
* `LocalMemoryIsNeverRaced`: reduce and scan share no cell of the local memory between two
  items but to read it, and stay in what was to be allocated, for every size, width, set of
  features and number of calls. Where an Apple build leaves a barrier out, lanes of one
  sub-group may meet, and groups whose size is not a power of two are excepted. All items are in one phase between two barriers, or
  wait for the one that follows (`InPhase`, `Following`); `MayAccess` says which cells an
  item may touch in a phase, so the cells of two items can be compared.
* `ResultsOfGroupsAreExact`: reduce and the scans return each input they should contain
  exactly once, of this call and no other, and the scans without sub-group support in
  order. The invariant (`ResultsInv`) adds to the phase the call and the stride all items
  have in common. `Holds` is what an item has in its hands at its label: the inputs of its
  residue class for reduce (`Lists`), those of a range of neighbours for scans (`Segment`),
  as wide as the stride says; `Stored` is what the local memory holds for the next reader,
  so that nothing of an earlier call or half can be read; `Returned` is the result of the
  last call. Loops inside a step, the passes of a sub-group and the first item of
  Host-Compute, are decided by their smallest counterexample (`SubGroupReduces`,
  `SubGroupScans`, `HostPrefixIsSegment`). That the butterfly meets every lane needs widths
  whose divisors but 1 are even (`IsPowerOf2`), which the code asks for by `pot_simd`.
  The generic reduce is excepted (`HalvesEvenly`) for sizes that are not powers of two:
  there the code loses inputs (see the observations).

`DeviceQueueProofs`, for all threads, queues, completion threads and command buffers:

* `CommandBuffersAreSafelyReused`: of the Vulkan queue. Each command buffer is free, recorded,
  queued, being completed or lost, in exactly one place (`SlotInv`, `SecondaryInv`); the
  batches of a thread are on one device queue in the order of their values, above its
  semaphore (`GpuInv`), up to undefined behaviour: so a completer whose wait has ended has one that is through, and
  what the device may still execute has a completer that has not called the handlers
  (`PendingInv`).
* `MetalCommandBuffersAreSafe`: of the Metal 4 queue, until undefined behaviour is met.
  First come lemmas about the ring buffer: for every capacity, `enqueue`,
  `advance_read_index`, the two peeks, the removal of completed submissions and the
  flag set in place do to the indices what the name says to the queue they stand
  for (`EnqueueAppends`, `AdvanceDrops`, `PeeksAreEnds`, `CleaningOpens`,
  `CompletedSubmissionIs`). The invariant gives every command buffer in use one place: held
  by an actor, in a stack of completions, in the line of the handler, or
  dropped with it (`PlacesInv`). The places that still have to report carry the open
  numbers of the ring, one each (`NumbersInv`); the device has a command buffer once, unless
  a timeout gave it up (`DeviceInv`); what can be acquired is completed (`CompletedInv`).

`HostServicesProofs`, for all clients, handlers, messages, programs and sizes:

* `EventsStayInOrder`, `RemovedHandlersAreNotCalled`: the events of add_event are, in
  order, those dispatched, those copied and those still queued (`EventQueues`).
* `NoMessageIsLost`, `FlushWaitsForWriting` (an action property): the logged messages are
  the written ones, the rest of the output store and the store, in that order (`LogOrder`).
  It holds because `run()` has one executor at a time (`OneRunner`), which in turn rests
  on ThreadBase's `IInv`: the destructor calls `run()` after the thread was joined.
* `BarriersHold`, `ItemsRunOnce`: `FibersInTurn` says where each item of a group is, given
  where the running one is: items before it have passed the same operation, items behind
  it have not, and sub-groups wait at the next SIMD operation or barrier. `Tickets` says
  that a group number belongs to one thread.
* `IdsAreRestored`, `SimdResultsAreRight`: `StorageOf` says what lies in the storage of the
  sub-group at each point of a ballot or shuffle, which is why no second storage is
  needed. Both assume `DeviceExecution`, that is execute_device. For execute_host they
  do not hold: the run HostExecIds shows it.

`DeviceContextProofs`, for all renderers, images, targets and tasks:

* `FramesUseTheirOwn`: slots and images of frames are distinct, and semaphores are
  signaled and waited for alternately. Frames of a swapchain that is gone are those a
  resize gave up on (`OldFrames`), and such a frame acquired its image before.
* `VrFramesAreEnded`: `FramesEnd` gives the state of the runtime at each step of a frame,
  as long as no call failed and no frames overlapped.
* `ArchivesAreComplete`: the counter is the number of tasks that have not ended
  (`JobsCounted`), for finite sets of workers and targets.
* `ChosenBinaryFits`: find_best_match chooses a target the device can run, and the best of
  these, for every device and any number of targets in any order. The comparisons of each
  backend are the lexicographic order of `Weight` (`BeatsIsAbove`). What the search
  returns for a list is an induction over the list, done by its smallest counterexample
  (`LeastNumber`): the best so far is the best of the targets seen (`BestOfIsBest`).

The assumptions are those of the modules (`...Assumption`): values that stand for "none"
are not members of the sets they complete, work-groups are divisible by the width,
sizes are numbers, targets and devices have the fields of their backend, and an archive
on disk was built by compile_target (`FittingAssumptions`, from `TargetsAssumption`).

Types and status are proved and need no run of their own. Only model-checked, and why:

* All liveness and deadlock (`QueuesDrain`, `FinishReturns`, `LaunchReturns`, ...): the prover
  has no rules for fairness and ENABLED.
* `ArgumentsLandRight`: folds over argument lists and concatenated binding lists
  (FlattenSeq), induction over data; TLC enumerates them instead.
* `OnlyLockCycleBlocks` is a liveness property of the events.

## Findings

Five places where the code does not do what its comment says; the runs marked
**violation** show them and `PROJECT.json` quotes the lines. The counterexamples are
short: read the run's trace next to the lines named.

## Observations

Found while modelling, built into the models as the code has it, and excepted in the
properties by name where a property would not hold because of it.

*Threads and logging.* A notification that falls between the check of the finish flag and
the sleep is lost, and the delay is slept out (`thread_base.cpp:86`). set_thread_should_finish() before start() ends the thread, and
a later start() reports it RUNNING (42, 49). `flush` returns
with a run in progress that has not taken its message (`logger.cpp:296`).
`resource_t::operator=` onto a handle in use never gives back the slot that handle had
(`resource_slot_handler.hpp:220`). With two machine words `ctz` of the upper one is evaluated
also when it is 0 (181), where it is undefined; the result is not used then. `invalid_slot_idx` 255 is a legal index of the large container
(`resource_slot_handler.hpp:351`). `local_memory_alloc_offset` is shared by
threads without synchronisation (`host_function.cpp:1312`).

*Queues.* Submissions of a thread go to the queue its pool was first made for
(`vulkan_queue.cpp:281`). A failing reset of a secondary command buffer leaks it (171). The exit
of a thread destroys its pool while a queued or running completion still uses it (126, 420; the
Metal 4 queue does the same, see the findings). A non-blocking submission after destroy() dereferences
a null handler (303). Metal 4: late feedback, after a timeout, completes the next
submission of that buffer; completion threads whose handlers submit wait for ever when
the ring is full (`NoRoomEver`); a non-blocking submission after destroy()
dereferences a null handler; finish() inside a completion handler waits for itself;
`free_command_buffer` uses the pool of the calling thread; in a debug build `clear` of a
ring buffer across the wrap, and the comparison of an empty `peek`, fail an assertion.

*Windows.* A failing reset of a fence, acquisition or present leaks its slot, and a later
search waits for its fence without a timeout and with both locks held
(`vulkan_context.cpp:3177`); a blocking commit ignores a failed submission and presents
(`vulkan_renderer.cpp:438`), which waits for a semaphore nobody signals; vkQueuePresentKHR (3389) is not under the queue's lock; a
resize destroys the swapchain after 16 times 100 ms (2485).

*VR.* acquire_next_vr_image without an image keeps the image's lock
(`vulkan_context.cpp:3076`), and so does a renderer that fails or is dropped before it presents. present() compares `cur_swapchain_image`
(`openxr_context.cpp:1153`), so that a frame is not ended and its image not released
when the next one has been acquired before. `is_focused` stays set when the session
becomes only visible; XR_FRAME_DISCARDED counts as a failure; xrEndSession on EXITING and
LOSS_PENDING is refused by the runtime.

*Memory objects.* A label given at creation is set before the object is registered and so
does not find it (`device_memory.cpp:141`), and setting it again does nothing. A label
that was taken over is erased by its first owner (`device_context.cpp:228`). The entry
of the empty label stays, and so do entries that change while the registry is disabled.
read, copy and map of a host buffer do not acquire it and return what was there before the render
side wrote (`host_buffer.cpp:118`, 148, 219). A shared buffer loses data when a write-only side leaves it unwritten; initial data is not
copied where compute may not read or render not write. Copies in opposite directions
block (`host_buffer.cpp:145`); fill takes no lock (154).

*Buffers.* Metal: the second part of an NSRange is a length, the code passes the end
(`metal_buffer.mm:384`, `435`, `metal4_buffer.mm:387`); a single-byte fill of managed
memory, hence zero(), is undone by the didModifyRange of the CPU's old copy;
synchronizeResource overwrites what the host wrote to an open mapping; a pattern
fill of private memory is refused by write_check, or in release stores to `nil`, and fill
returns true; maps of staged memory with an offset use the wrong part of the staging
buffer (573, 634). Vulkan: a pattern fill of coherent memory ignores the offset
(`vulkan_buffer.cpp:417`); vkCmdFillBuffer gets offsets that are no multiple of 4 (407);
a second mapping of coherent memory fails, and unmapping the first would unmap
both; a non-blocking unmap frees the staging buffer while the copy may run
(`vulkan_memory.cpp:474`); a failing map leaks its staging buffer (173). CUDA: memory
with HOST_READ_BACK_OPTIMIZE never gets its initial data (`cuda_buffer.cpp:107`).
OpenCL ignores `discard`. The checks of arguments exist in debug builds only.

*Images.* draw() replaces the barriers an earlier draw left, although the objects'
layouts have moved (`vulkan_renderer.cpp:711`, 723); begin and commit_and_continue keep
barriers and record them again; set_attachments drops unrecorded ones (530); they are
submitted before the renderer's own commands; zero() of a render target makes no
transition; a failed submission or an abandoned renderer loses barriers; descriptors
always say GENERAL (`vulkan_image_internal.cpp:577`), also of read arguments, whose images were moved
to SHADER_READ_ONLY (`MisdescribedRead`); unmap uses the iterator of a mapping that is erased
(`vulkan_image.cpp:605`); one image twice in a call gets two unordered barriers.

*Indirect commands.* The loop goes by the encoders of all devices and indexes the
commands of one (`device_queue.cpp:107`): out of bounds with several devices or an
encoder that was not executed, and short if one executed twice. A second execute of an
encoder has no arguments. CUDA, OpenCL and the host do not implement the fences.

*Arguments.* With fewer arguments than the stages take and a stage that uses printf, the
loop counts the implicit argument and reads behind `args` (`vulkan_args.hpp:562`). On a
device with few descriptor sets or inline uniform blocks the flags of a missing stage are
read (531, 539). Indirect mesh commands without a task shader leave out its element of
the list of memory, so the other stages find the wrong one or none
(`vulkan_indirect_command.cpp:608`). execute() returns without giving back the command
buffer and the constant buffer when its arguments are refused (`vulkan_function.cpp:363`), and
a refused draw loses its constant buffer (`vulkan_shader.cpp:179`). A renderer that is
destroyed without a commit keeps its command buffer and all leases in it
(`vulkan_renderer.cpp:103`). More than 16 draws of one shader before a commit wait for ever,
since a lease ends with the command buffer. More than two argument buffers of a task
shader, or three of a mesh shader, are accepted (`vulkan_args.hpp:622`;
`vulkan_device.hpp:225` promises 6), but cut off from the layout
(`vulkan_pipeline.cpp:267`) and bound over those of the next stage.

*Algorithms.* On Apple the barriers within the width of a sub-group are left out (`algorithm.hpp:187`),
which relies on lock step; the halves of a group whose size is not a power of two do not end at the
border of a sub-group, and there two sub-groups meet without a barrier. scan of a type without sub-group support gets too little local memory
where uint32_t has it (`algorithm.hpp:714`). The generic reduce of devices halves the
distance between the items it combines, so a group whose size is not a power of two loses
inputs: of three items the last one (184); no `requires` or `static_assert` excludes such
sizes, and Host-Compute takes all items. `ReduceIsWhole` alone, without the exception
`HalvesEvenly`, fails in DeviceWork with exactly this call.

*Universal binary.* Vulkan targets for AMD are refused, since their SIMD width is not set
(595); `max_mip_levels` is assigned to itself (571); mesh shading is not checked;
the order in the archive decides for `ptx_aa` and OpenCL targets without sub-groups; a
ballot assumes SPIR-V 1.3 of the device. An exception in a task is never counted, and
build_archive waits for ever (801).

## Not modelled

* `resource_slot_container_large`, device fences, the heap of descriptors: see the plan.
* Vulkan: what fences and semaphores add to a submission, creation of pools (one step,
  cannot fail), device set-up, states and specializations of pipelines, mip-map chains, stage masks, arrays
  of arguments.
* Host: local memory allocation, unequal programs, partial sub-groups, images.
* Indirect render commands; Metal's and Vulkan's own indirect pipelines.
* Buffers of several threads or queues at once (but BufferLocks), external buffers.
* Events: translation of SDL and VR input, double-click timers, event types (all events
  have one type, so each handler sees each event). OpenVR.
* Drivers, file formats (ELF, SPIR-V, archives, json, bcm), compilers and their output:
  sequential parsers without state that outlives a call. Floating point
  and the vector, matrix and constexpr mathematics: no integers TLC could enumerate.
* Start-up, window and configuration (`floor.cpp`): one thread, driver calls.

## Plan

1. All modules above with their runs, and the theorems above: done.
2. Next theorem: what of `ArgumentsLandRight` does not depend on the length of the lists.
3. Abstract specifications to add: a logger that writes `pushed` in order (Logger
   refines it), a FIFO event channel, a launch as "each item once, barriers as
   phases", a bag of commands completed once.
4. Modules that remain worth writing: several ResourceSlots searched in turn, fence
   values handed out by several threads, HostExec's local memory.
