-------------------------- MODULE VulkanSwapchain --------------------------
(***************************************************************************)
(* Acquisition and presentation of window images: acquire_next_image,      *)
(* queue_present, reinit_renderer of src/device/vulkan/vulkan_context.cpp  *)
(* as vulkan_renderer uses them.                                           *)
(*                                                                         *)
(* A renderer is a process: acquire, begin, commit, present. With a        *)
(* non-blocking commit the present runs on a completion thread, so what    *)
(* follows the commit is not bound to the thread that acquired. The        *)
(* presentation engine and the device are external.                        *)
(*                                                                         *)
(* A slot (sema_index) is a pair of binary semaphores and a present fence; *)
(* there are semaphore_multiplier times as many as images.                 *)
(***************************************************************************)
EXTENDS Naturals, FiniteSets

CONSTANTS
  Renderers,
  Resizer,     \* the thread that handles WINDOW_RESIZE
  Images,      \* number of swapchain images
  None,
  MaxFrames,   \* bound: acquisitions per renderer
  MaxResizes,  \* bound: resizes
  MaxErrors    \* bound: failing calls

ASSUME SwapchainAssumption ==
  /\ Resizer \notin Renderers /\ None \notin Renderers \cup {Resizer}
  /\ Images \in Nat \ {0}
  /\ MaxFrames \in Nat /\ MaxResizes \in Nat /\ MaxErrors \in Nat

semaphore_multiplier == 2
SlotCount == Images * semaphore_multiplier
Slots == 0..SlotCount - 1
ImageIds == 0..Images - 1

VARIABLES
  acquisition_lock, screen_sema_lock,  \* holder or None
  semas_in_use, next_sema_index,
  fence,          \* fence[s]: the present fence of slot s is signaled
  acq_sema,       \* acq_sema[s], present_sema[s]: the semaphore is signaled
  present_sema,
  available,      \* images that can be acquired
  queued,         \* presents the engine has yet to do: <<slot, image>>
  no_swapchain,   \* reinit_renderer failed: there is neither swapchain nor slot
  generation,     \* number of swapchains destroyed
  pc,             \* of each renderer and of the resizer
  scan,           \* scan[r] = <<pass, i>>: position in the search for a slot
  drawable,       \* drawable[r]: record or None
  frames, errors, \* bounds
  lost,           \* slots that error paths leave in use for good
  gave_up         \* a resize destroyed the swapchain before all presents were done

locks == <<acquisition_lock, screen_sema_lock>>
slots == <<semas_in_use, next_sema_index, fence>>
semas == <<acq_sema, present_sema>>
engine == <<available, queued, no_swapchain>>
bounds == <<frames, errors>>
swapchainVars == <<locks, slots, semas, engine, generation, pc, scan, drawable, bounds, lost, gave_up>>

SwapchainInit ==
  /\ acquisition_lock = None /\ screen_sema_lock = None
  /\ semas_in_use = [s \in Slots |-> FALSE] /\ next_sema_index = 0
  /\ fence = [s \in Slots |-> FALSE]
  /\ acq_sema = [s \in Slots |-> FALSE] /\ present_sema = [s \in Slots |-> FALSE]
  /\ available = ImageIds /\ queued = {} /\ no_swapchain = FALSE
  /\ generation = 0
  /\ pc = [p \in Renderers \cup {Resizer} |-> "idle"]
  /\ scan = [r \in Renderers |-> <<0, 0>>]
  /\ drawable = [r \in Renderers |-> None]
  /\ frames = [r \in Renderers |-> 0] /\ errors = 0
  /\ lost = {} /\ gave_up = FALSE

Go(p, label) == pc' = [pc EXCEPT ![p] = label]
Fails == errors < MaxErrors /\ errors' = errors + 1 /\ frames' = frames

-----------------------------------------------------------------------------
\* get_next_drawable: acquire_next_image takes acquisition_lock for all it does.

Acquire(r) ==
  /\ pc[r] = "idle" /\ frames[r] < MaxFrames
  /\ Go(r, "lock")
  /\ frames' = [frames EXCEPT ![r] = @ + 1]
  /\ UNCHANGED <<locks, slots, semas, engine, generation, scan, drawable, errors, lost, gave_up>>

LockAcquisition(r) ==
  /\ pc[r] = "lock" /\ acquisition_lock = None
  /\ acquisition_lock' = r
  /\ Go(r, "sema_lock")
  /\ UNCHANGED <<screen_sema_lock, slots, semas, engine, generation, scan, drawable, bounds, lost, gave_up>>

LockSemas(r) ==
  /\ pc[r] = "sema_lock" /\ screen_sema_lock = None
  /\ screen_sema_lock' = r
  /\ scan' = [scan EXCEPT ![r] = <<0, 0>>]
  /\ Go(r, "scan")
  /\ UNCHANGED <<acquisition_lock, slots, semas, engine, generation, drawable, bounds, lost, gave_up>>

Candidate(r) == (next_sema_index + scan[r][2]) % SlotCount

\* Mutation: the fence is not reset.
TakeSlotNoReset(r) ==
  LET s == Candidate(r) IN
  /\ pc[r] = "scan" /\ ~no_swapchain /\ (~semas_in_use[s] \/ fence[s])
  /\ semas_in_use' = [semas_in_use EXCEPT ![s] = TRUE]
  /\ next_sema_index' = (s + 1) % SlotCount
  /\ \/ /\ fence' = fence
        /\ drawable' = [drawable EXCEPT ![r] =
             [slot |-> s, image |-> 0, generation |-> generation]]
        /\ Go(r, "acquire")
        /\ UNCHANGED <<acquisition_lock, bounds, lost>>
     \* vkResetFences fails: the slot stays in use; nobody will signal a fence
     \* that is not signaled already
     \/ /\ Fails
        /\ lost' = IF fence[s] THEN lost ELSE lost \cup {s}
        /\ acquisition_lock' = None
        /\ Go(r, "idle")
        /\ UNCHANGED <<fence, drawable>>
  /\ screen_sema_lock' = None
  /\ UNCHANGED <<semas, engine, generation, scan, gave_up>>

\* The slot is taken: its fence is reset for the present that comes later.
TakeSlot(r) ==
  LET s == Candidate(r) IN
  /\ pc[r] = "scan" /\ ~no_swapchain /\ (~semas_in_use[s] \/ fence[s])
  /\ semas_in_use' = [semas_in_use EXCEPT ![s] = TRUE]
  /\ next_sema_index' = (s + 1) % SlotCount
  /\ \/ /\ fence' = [fence EXCEPT ![s] = FALSE]
        /\ drawable' = [drawable EXCEPT ![r] =
             [slot |-> s, image |-> 0, generation |-> generation]]
        /\ Go(r, "acquire")
        /\ UNCHANGED <<acquisition_lock, bounds, lost>>
     \* vkResetFences fails: the slot stays in use; nobody will signal a fence
     \* that is not signaled already
     \/ /\ Fails
        /\ lost' = IF fence[s] THEN lost ELSE lost \cup {s}
        /\ acquisition_lock' = None
        /\ Go(r, "idle")
        /\ UNCHANGED <<fence, drawable>>
  /\ screen_sema_lock' = None
  /\ UNCHANGED <<semas, engine, generation, scan, gave_up>>

\* The slot is in use: pass 0 looks at the next one, pass 1 waits for this one.
SkipSlot(r) ==
  /\ pc[r] = "scan" /\ ~no_swapchain /\ semas_in_use[Candidate(r)] /\ ~fence[Candidate(r)]
  /\ IF scan[r][1] = 0
     THEN /\ scan' = [scan EXCEPT ![r] = IF @[2] + 1 < SlotCount THEN <<0, @[2] + 1>> ELSE <<1, 0>>]
          /\ UNCHANGED pc
     ELSE Go(r, "fence_wait") /\ UNCHANGED scan
  /\ UNCHANGED <<locks, slots, semas, engine, generation, drawable, bounds, lost, gave_up>>

\* There are no slots to search.
NoSlots(r) ==
  /\ pc[r] = "scan" /\ no_swapchain
  /\ acquisition_lock' = None /\ screen_sema_lock' = None
  /\ Go(r, "idle")
  /\ UNCHANGED <<slots, semas, engine, generation, scan, drawable, bounds, lost, gave_up>>

\* vkWaitForFences without a timeout, both locks held
FenceSignaled(r) ==
  /\ pc[r] = "fence_wait" /\ fence[Candidate(r)]
  /\ Go(r, "scan")
  /\ UNCHANGED <<locks, slots, semas, engine, generation, scan, drawable, bounds, lost, gave_up>>

\* The query or the wait fails (device lost).
FenceError(r) ==
  /\ pc[r] \in {"scan", "fence_wait"} /\ semas_in_use[Candidate(r)]
  /\ Fails
  /\ acquisition_lock' = None /\ screen_sema_lock' = None
  /\ Go(r, "idle")
  /\ UNCHANGED <<slots, semas, engine, generation, scan, drawable, lost, gave_up>>

\* Mutation: acquisition_lock is not unlocked.
AcquireImageKeepsLock(r) ==
  /\ pc[r] = "acquire"
  /\ \E i \in available :
       /\ available' = available \ {i}
       /\ drawable' = [drawable EXCEPT ![r].image = i]
  /\ acq_sema' = [acq_sema EXCEPT ![drawable[r].slot] = TRUE]
  /\ Go(r, "acquired")
  /\ UNCHANGED <<locks, slots, present_sema, queued, no_swapchain, generation, scan, bounds,
                 lost, gave_up>>

\* vkAcquireNextImage2KHR; a timeout repeats it.
AcquireImage(r) ==
  /\ pc[r] = "acquire"
  /\ \E i \in available :
       /\ available' = available \ {i}
       /\ drawable' = [drawable EXCEPT ![r].image = i]
  /\ acq_sema' = [acq_sema EXCEPT ![drawable[r].slot] = TRUE]
  /\ acquisition_lock' = None
  /\ Go(r, "acquired")
  /\ UNCHANGED <<screen_sema_lock, slots, present_sema, queued, no_swapchain, generation, scan,
                 bounds, lost, gave_up>>

\* It fails: the slot stays in use and no present will signal its fence.
AcquireImageFails(r) ==
  /\ pc[r] = "acquire"
  /\ Fails
  /\ lost' = lost \cup {drawable[r].slot}
  /\ drawable' = [drawable EXCEPT ![r] = None]
  /\ acquisition_lock' = None
  /\ Go(r, "idle")
  /\ UNCHANGED <<screen_sema_lock, slots, semas, engine, generation, scan, gave_up>>

-----------------------------------------------------------------------------
\* vulkan_renderer: begin, commit, present

\* begin(), the end of the recording or a submission that is not blocking fails, or
\* the renderer is given up before the commit.
BeginFails(r) ==
  /\ pc[r] = "acquired"
  /\ Fails
  /\ lost' = lost \cup {drawable[r].slot}
  /\ drawable' = [drawable EXCEPT ![r] = None]
  /\ Go(r, "idle")
  /\ UNCHANGED <<locks, slots, semas, engine, generation, scan, gave_up>>

\* commit_internal submits; begin() has added the acquisition semaphore to the
\* waits and the present semaphore to the signals of the submission.
Commit(r) ==
  /\ pc[r] = "acquired"
  /\ Go(r, "submitted")
  /\ UNCHANGED <<locks, slots, semas, engine, generation, scan, drawable, bounds, lost, gave_up>>

\* A blocking commit does not look at the result of its submission: the present goes
\* on and waits for a semaphore that nobody will signal.
CommitFails(r) ==
  /\ pc[r] = "acquired"
  /\ Fails
  /\ lost' = lost \cup {drawable[r].slot}
  /\ Go(r, "executed")
  /\ UNCHANGED <<locks, slots, semas, engine, generation, scan, drawable, gave_up>>

\* The device executes the submission (external). A frame whose swapchain is gone
\* (gave_up) goes on with semaphores that were freed: that is undefined, and such a
\* frame is not followed any further.
Current(r) == drawable[r] # None /\ drawable[r].generation = generation
Execute(r) ==
  /\ pc[r] = "submitted" /\ Current(r)
  /\ acq_sema[drawable[r].slot]
  /\ acq_sema' = [acq_sema EXCEPT ![drawable[r].slot] = FALSE]
  /\ present_sema' = [present_sema EXCEPT ![drawable[r].slot] = TRUE]
  /\ Go(r, "executed")
  /\ UNCHANGED <<locks, slots, engine, generation, scan, drawable, bounds, lost, gave_up>>

\* queue_present; its result is not used.
QueuePresent(r) ==
  /\ pc[r] = "executed" /\ Current(r)
  /\ LET d == drawable[r] IN
     \/ queued' = queued \cup {<<d.slot, d.image>>} /\ UNCHANGED <<bounds, lost>>
     \/ Fails /\ lost' = lost \cup {d.slot} /\ UNCHANGED queued
  /\ drawable' = [drawable EXCEPT ![r] = None]
  /\ Go(r, "idle")
  /\ UNCHANGED <<locks, slots, semas, available, no_swapchain, generation, scan, gave_up>>

\* The engine presents an image: it consumes the semaphore, signals the fence
\* and makes another image available (external).
EnginePresents ==
  /\ \E q \in queued :
       /\ present_sema[q[1]]
       /\ queued' = queued \ {q}
       /\ available' = available \cup {q[2]}
       /\ fence' = [fence EXCEPT ![q[1]] = TRUE]
       /\ present_sema' = [present_sema EXCEPT ![q[1]] = FALSE]
  /\ UNCHANGED <<locks, semas_in_use, next_sema_index, acq_sema, no_swapchain, generation, pc,
                 scan, drawable, bounds, lost, gave_up>>

-----------------------------------------------------------------------------
\* reinit_renderer on WINDOW_RESIZE

Resize ==
  /\ pc[Resizer] = "idle" /\ generation < MaxResizes
  /\ acquisition_lock = None /\ screen_sema_lock = None
  /\ acquisition_lock' = Resizer /\ screen_sema_lock' = Resizer
  /\ Go(Resizer, "destroy")
  /\ UNCHANGED <<slots, semas, engine, generation, scan, drawable, bounds, lost, gave_up>>

\* destroy_renderer_swapchain waits for the fences of the slots in use, each at
\* most 16 times 100ms, then goes on regardless. What is made again afterwards may
\* fail before there are slots again; only a later resize tries it again.
AllPresented == \A s \in Slots : semas_in_use[s] => fence[s]
DestroySwapchain ==
  /\ pc[Resizer] = "destroy"
  /\ gave_up' = (gave_up \/ ~AllPresented)
  /\ fence' = [s \in Slots |-> FALSE]
  /\ next_sema_index' = 0
  /\ semas_in_use' = [s \in Slots |-> FALSE]
  /\ acq_sema' = [s \in Slots |-> FALSE] /\ present_sema' = [s \in Slots |-> FALSE]
  /\ queued' = {} /\ available' = ImageIds
  /\ generation' = generation + 1
  /\ lost' = {}
  /\ acquisition_lock' = None /\ screen_sema_lock' = None
  /\ \/ no_swapchain' = FALSE /\ UNCHANGED bounds
     \/ no_swapchain' = TRUE /\ Fails
  /\ Go(Resizer, "idle")
  /\ UNCHANGED <<scan, drawable>>

-----------------------------------------------------------------------------
AcquireStep(r) ==
  \/ LockAcquisition(r) \/ LockSemas(r) \/ TakeSlot(r) \/ SkipSlot(r) \/ NoSlots(r)
  \/ FenceSignaled(r) \/ FenceError(r) \/ AcquireImage(r) \/ AcquireImageFails(r)
FrameStep(r) == BeginFails(r) \/ Commit(r) \/ CommitFails(r) \/ Execute(r) \/ QueuePresent(r)

SwapchainNext ==
  \/ \E r \in Renderers : Acquire(r) \/ AcquireStep(r) \/ FrameStep(r)
  \/ EnginePresents
  \/ Resize \/ DestroySwapchain

SwapchainSpec == SwapchainInit /\ [][SwapchainNext]_swapchainVars

\* Threads run on, the device executes, the engine presents. acquisition_lock is
\* taken again and again by others, so a waiting thread needs strong fairness to get
\* it; what follows is done by the holder, or by a thread that waits for nobody.
Proceeds(r) ==
  \/ LockSemas(r) \/ TakeSlot(r) \/ SkipSlot(r) \/ NoSlots(r) \/ FenceSignaled(r)
  \/ AcquireImage(r) \/ FrameStep(r)
SwapchainFairness ==
  /\ \A r \in Renderers : SF_swapchainVars(LockAcquisition(r)) /\ WF_swapchainVars(Proceeds(r))
  /\ WF_swapchainVars(EnginePresents) /\ WF_swapchainVars(DestroySwapchain)

-----------------------------------------------------------------------------
\* Properties

\* The frames that use slot s of the current swapchain.
Users(s) == {r \in Renderers : /\ drawable[r] # None
                               /\ drawable[r].slot = s /\ drawable[r].generation = generation}

\* A slot belongs to one frame, from acquire_next_image until the engine has
\* presented it; an image, too. (The search resets slots that are still in use.)
SlotIsExclusive ==
  /\ \A s \in Slots : Cardinality(Users(s)) + Cardinality({q \in queued : q[1] = s}) <= 1
  /\ \A q1, q2 \in queued : q1[2] = q2[2] => q1 = q2
  /\ \A s \in Slots : Users(s) # {} => semas_in_use[s] /\ ~fence[s]

\* A binary semaphore may not be signaled twice: when an image is acquired with a
\* slot, its semaphores have been waited for since their last use.
SemaphoresAreFree ==
  \A r \in Renderers : pc[r] = "acquire" /\ Current(r) =>
    ~acq_sema[drawable[r].slot] /\ ~present_sema[drawable[r].slot]

\* "ensure all presents are done before we kill any resources": a frame outlives
\* its swapchain only if a resize gave up waiting.
FramesOutliveOnlyOnGiveUp ==
  (\E r \in Renderers : drawable[r] # None /\ ~Current(r)) => gave_up

\* What a frame uses is its own and there until the frame has been presented.
FramesAreSafe == SlotIsExclusive /\ SemaphoresAreFree /\ FramesOutliveOnlyOnGiveUp
=============================================================================
