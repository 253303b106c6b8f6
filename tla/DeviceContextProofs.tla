------------------------ MODULE DeviceContextProofs ------------------------
(***************************************************************************)
(* Proofs about what device_context offers besides queues and memory:      *)
(* frames of a window and of a VR session, for every number of renderers,  *)
(* images, frames, resizes, session events and failures; and the archives  *)
(* of universal binaries, for all targets and numbers of tasks.            *)
(***************************************************************************)
EXTENDS VulkanSwapchain, VrSession, UniversalBinary, FiniteSetTheorems, SequenceTheorems,
        WellFoundedInduction, TLAPS

-----------------------------------------------------------------------------
(* Presentation in a window                                                *)

Frame == [slot : Slots, image : ImageIds, generation : Nat]
Framed == {"acquire", "acquired", "submitted", "executed"}
Acquiring == {"sema_lock", "scan", "fence_wait", "acquire"}
Places ==
  {"idle", "lock", "acquired", "submitted", "executed", "destroy"} \cup Acquiring

(* r has a frame; it is one of the swapchain that exists. *)
HasFrame(r) == pc[r] \in Framed
InFrame(r) == HasFrame(r) /\ drawable[r].generation = generation

SwapchainTypes ==
  /\ semas_in_use \in [Slots -> BOOLEAN] /\ next_sema_index \in Slots
  /\ fence \in [Slots -> BOOLEAN]
  /\ acq_sema \in [Slots -> BOOLEAN] /\ present_sema \in [Slots -> BOOLEAN]
  /\ available \subseteq ImageIds /\ queued \subseteq Slots \X ImageIds
  /\ generation \in Nat
  /\ pc \in [Renderers \cup {Resizer} -> Places]
  /\ scan \in [Renderers -> Nat \X Nat]
  /\ DOMAIN drawable = Renderers
  /\ \A r \in Renderers : IF HasFrame(r) THEN drawable[r] \in Frame ELSE drawable[r] = None

(* acquire_next_image and the resize exclude each other. *)
LockHolders ==
  /\ \A r \in Renderers : pc[r] \in Acquiring => acquisition_lock = r
  /\ pc[Resizer] = "destroy" => acquisition_lock = Resizer
  /\ \A r \in Renderers : pc[r] # "destroy"

(* No frame is of a swapchain to come. A slot of the swapchain is taken    *)
(* over only when its fence is signaled, which its own present alone does: *)
(* the frames and the presents to come have each a slot and an image to    *)
(* themselves.                                                             *)
SlotsTaken ==
  /\ \A r \in Renderers : HasFrame(r) => drawable[r].generation <= generation
  /\ \A r \in Renderers : InFrame(r) =>
       semas_in_use[drawable[r].slot] /\ ~fence[drawable[r].slot]
  /\ \A q \in queued : semas_in_use[q[1]] /\ ~fence[q[1]]
  /\ \A r, o \in Renderers :
       InFrame(r) /\ InFrame(o) /\ drawable[r].slot = drawable[o].slot => r = o
  /\ \A r \in Renderers, q \in queued : InFrame(r) => drawable[r].slot # q[1]
  /\ \A p, q \in queued : p[1] = q[1] => p = q

WithImage(r) == InFrame(r) /\ pc[r] # "acquire"
ImagesTaken ==
  /\ \A r \in Renderers : WithImage(r) => drawable[r].image \notin available
  /\ \A q \in queued : q[2] \notin available
  /\ \A r, o \in Renderers :
       WithImage(r) /\ WithImage(o) /\ drawable[r].image = drawable[o].image => r = o
  /\ \A r \in Renderers, q \in queued : WithImage(r) => drawable[r].image # q[2]
  /\ \A p, q \in queued : p[2] = q[2] => p = q

(* A semaphore is signaled in a slot in use only, and waited for before    *)
(* the fence of the slot is signaled: never both, so a present that found  *)
(* its own semaphore has left none.                                        *)
SemasWaited ==
  /\ \A s \in Slots : acq_sema[s] \/ present_sema[s] => semas_in_use[s] /\ ~fence[s]
  /\ \A r \in Renderers : InFrame(r) /\ pc[r] = "acquire" =>
       ~acq_sema[drawable[r].slot] /\ ~present_sema[drawable[r].slot]
  /\ \A s \in Slots : ~(acq_sema[s] /\ present_sema[s])

(* A frame of a swapchain that is gone: a resize gave up waiting for it.   *)
(* Its image was acquired before, as the resize holds acquisition_lock.    *)
OldFrames ==
  \A r \in Renderers : HasFrame(r) /\ ~InFrame(r) =>
    gave_up = TRUE /\ pc[r] # "acquire"

FrameInv ==
  /\ SwapchainTypes /\ LockHolders /\ SlotsTaken /\ ImagesTaken /\ SemasWaited
  /\ OldFrames /\ gave_up \in BOOLEAN

LEMMA SlotCountIsPositive == SlotCount \in Nat \ {0} /\ 0 \in Slots
BY SwapchainAssumption DEF SlotCount, semaphore_multiplier, Slots

LEMMA CandidateIsSlot ==
  ASSUME SwapchainTypes, NEW r \in Renderers
  PROVE  Candidate(r) \in Slots /\ (Candidate(r) + 1) % SlotCount \in Slots
<1>1. \A a \in Nat : a % SlotCount \in Slots
  BY SlotCountIsPositive DEF Slots
<1>2. next_sema_index \in Nat /\ scan[r][2] \in Nat
  BY DEF SwapchainTypes, Slots
<1>3. Candidate(r) \in Slots
  BY <1>1, <1>2 DEF Candidate
<1> QED
  BY <1>1, <1>3 DEF Slots

LEMMA FramesInitially == SwapchainInit => FrameInv
<1> SUFFICES ASSUME SwapchainInit PROVE FrameInv
  OBVIOUS
<1>1. gave_up \in BOOLEAN
  BY Zenon DEF SwapchainInit
<1>2. SwapchainTypes
  BY SlotCountIsPositive, SwapchainAssumption
     DEF SwapchainInit, SwapchainTypes, HasFrame, Framed, Places, Acquiring
<1> QED
  BY <1>1, <1>2, SwapchainAssumption DEF SwapchainInit, FrameInv, LockHolders,
     SlotsTaken, ImagesTaken, SemasWaited, OldFrames, WithImage, InFrame, HasFrame, Framed, Acquiring

Frames == <<semas_in_use, next_sema_index, fence, acq_sema, present_sema, available,
            queued, generation, gave_up>>

(* Who gets and gives back acquisition_lock. *)
LEMMA LockHoldersPreserved ==
  ASSUME FrameInv, SwapchainNext
  PROVE  LockHolders' /\ DOMAIN pc' = Renderers \cup {Resizer}
<1> USE SwapchainAssumption DEF Places, Acquiring, Go
<1>1. LockHolders /\ pc \in [Renderers \cup {Resizer} -> Places]
  BY DEF FrameInv, SwapchainTypes
<1>2. ASSUME NEW r \in Renderers, Acquire(r) PROVE LockHolders' /\ DOMAIN pc' = DOMAIN pc
  BY <1>1, <1>2 DEF Acquire, LockHolders, locks
<1>3. ASSUME NEW r \in Renderers, LockAcquisition(r) PROVE LockHolders' /\ DOMAIN pc' = DOMAIN pc
  BY <1>1, <1>3 DEF LockAcquisition, LockHolders
<1>4. ASSUME NEW r \in Renderers, LockSemas(r) PROVE LockHolders' /\ DOMAIN pc' = DOMAIN pc
  BY <1>1, <1>4 DEF LockSemas, LockHolders
<1>5. ASSUME NEW r \in Renderers, TakeSlot(r) PROVE LockHolders' /\ DOMAIN pc' = DOMAIN pc
  BY <1>1, <1>5 DEF TakeSlot, LockHolders
<1>6. ASSUME NEW r \in Renderers, SkipSlot(r) PROVE LockHolders' /\ DOMAIN pc' = DOMAIN pc
  BY <1>1, <1>6 DEF SkipSlot, LockHolders, locks
<1>7. ASSUME NEW r \in Renderers, FenceSignaled(r) PROVE LockHolders' /\ DOMAIN pc' = DOMAIN pc
  BY <1>1, <1>7 DEF FenceSignaled, LockHolders, locks
<1>8. ASSUME NEW r \in Renderers, FenceError(r) PROVE LockHolders' /\ DOMAIN pc' = DOMAIN pc
  BY <1>1, <1>8 DEF FenceError, LockHolders
<1>9. ASSUME NEW r \in Renderers, AcquireImage(r) PROVE LockHolders' /\ DOMAIN pc' = DOMAIN pc
  BY <1>1, <1>9 DEF AcquireImage, LockHolders
<1>10. ASSUME NEW r \in Renderers, AcquireImageFails(r) PROVE LockHolders' /\ DOMAIN pc' = DOMAIN pc
  BY <1>1, <1>10 DEF AcquireImageFails, LockHolders
<1>11. ASSUME NEW r \in Renderers, FrameStep(r) PROVE LockHolders' /\ DOMAIN pc' = DOMAIN pc
  BY <1>1, <1>11
     DEF FrameStep, BeginFails, Commit, CommitFails, Execute, QueuePresent, LockHolders, locks
<1>12. CASE EnginePresents
  BY <1>1, <1>12 DEF EnginePresents, LockHolders, locks
<1>13. CASE Resize
  BY <1>1, <1>13 DEF Resize, LockHolders
<1>14. CASE DestroySwapchain
  BY <1>1, <1>14 DEF DestroySwapchain, LockHolders
<1>15. ASSUME NEW r \in Renderers, NoSlots(r) PROVE LockHolders' /\ DOMAIN pc' = DOMAIN pc
  BY <1>1, <1>15 DEF NoSlots, LockHolders
<1> QED
  BY <1>1, <1>2, <1>3, <1>4, <1>5, <1>6, <1>7, <1>8, <1>9, <1>10, <1>11, <1>12, <1>13, <1>14, <1>15
     DEF SwapchainNext, AcquireStep

(* A step that changes neither a frame nor what frames use. *)
LEMMA OtherStepsKeepFrames ==
  ASSUME FrameInv, UNCHANGED <<Frames, drawable>>,
         \A r \in Renderers :
           /\ pc'[r] \in Framed <=> pc[r] \in Framed
           /\ pc'[r] = "acquire" <=> pc[r] = "acquire"
  PROVE  SlotsTaken' /\ ImagesTaken' /\ SemasWaited' /\ OldFrames' /\ gave_up' \in BOOLEAN
<1>1. UNCHANGED <<semas_in_use, next_sema_index, fence, acq_sema, present_sema, available,
                  queued, generation, gave_up, drawable>>
  BY DEF Frames
<1>2. \A r \in Renderers : /\ HasFrame(r)' <=> HasFrame(r)
                           /\ InFrame(r)' <=> InFrame(r)
                           /\ WithImage(r)' <=> WithImage(r)
  BY <1>1 DEF HasFrame, InFrame, WithImage
<1>3. SlotsTaken'
  BY <1>1, <1>2 DEF FrameInv, SlotsTaken
<1>4. ImagesTaken'
  BY <1>1, <1>2 DEF FrameInv, ImagesTaken
<1>5. SemasWaited'
  BY <1>1, <1>2 DEF FrameInv, SemasWaited
<1>6. OldFrames' /\ gave_up' \in BOOLEAN
  <2>1. gave_up' = gave_up
    BY <1>1
  <2>2. \A r \in Renderers : pc'[r] # "acquire" <=> pc[r] # "acquire"
    OBVIOUS
  <2> QED
    BY <1>2, <2>1, <2>2, Zenon DEF FrameInv, OldFrames
<1> QED
  BY <1>3, <1>4, <1>5, <1>6

(* A frame ends without a present. *)
LEMMA DroppedFrame ==
  ASSUME FrameInv, NEW r \in Renderers,
         UNCHANGED Frames,
         drawable' = [drawable EXCEPT ![r] = None], pc' = [pc EXCEPT ![r] = "idle"]
  PROVE  SlotsTaken' /\ ImagesTaken' /\ SemasWaited' /\ OldFrames' /\ gave_up' \in BOOLEAN
<1>1. UNCHANGED <<semas_in_use, next_sema_index, fence, acq_sema, present_sema, available,
                  queued, generation, gave_up>>
  BY DEF Frames
<1>2. /\ DOMAIN pc = Renderers \cup {Resizer} /\ DOMAIN drawable = Renderers
  BY DEF FrameInv, SwapchainTypes
<1>3. ~HasFrame(r)' /\ ~InFrame(r)' /\ ~WithImage(r)'
  BY <1>2 DEF HasFrame, InFrame, WithImage, Framed
<1>4. \A o \in Renderers : o # r => /\ HasFrame(o)' <=> HasFrame(o)
                                    /\ InFrame(o)' <=> InFrame(o)
                                    /\ WithImage(o)' <=> WithImage(o)
                                    /\ drawable'[o] = drawable[o]
                                    /\ pc'[o] = pc[o]
  BY <1>1, <1>2 DEF HasFrame, InFrame, WithImage
<1>5. SlotsTaken'
  BY <1>1, <1>3, <1>4 DEF FrameInv, SlotsTaken
<1>6. ImagesTaken'
  BY <1>1, <1>3, <1>4 DEF FrameInv, ImagesTaken
<1>7. SemasWaited'
  BY <1>1, <1>3, <1>4 DEF FrameInv, SemasWaited
<1>8. OldFrames' /\ gave_up' \in BOOLEAN
  <2>1. gave_up' = gave_up
    BY <1>1
  <2> QED
    BY <1>3, <1>4, <2>1, Zenon DEF FrameInv, OldFrames
<1> QED
  BY <1>5, <1>6, <1>7, <1>8

LEMMA TakeSlotPreserves ==
  ASSUME FrameInv, NEW r \in Renderers, TakeSlot(r)
  PROVE  SwapchainTypes' /\ SlotsTaken' /\ ImagesTaken' /\ SemasWaited' /\ OldFrames'
         /\ gave_up' \in BOOLEAN
<1> PICK s \in Slots : s = Candidate(r)
  BY CandidateIsSlot DEF FrameInv
<1>1. /\ pc[r] = "scan" /\ (~semas_in_use[s] \/ fence[s])
      /\ semas_in_use' = [semas_in_use EXCEPT ![s] = TRUE]
      /\ next_sema_index' = (s + 1) % SlotCount
      /\ UNCHANGED <<acq_sema, present_sema, available, queued, generation, scan>>
  BY DEF TakeSlot, semas, engine
<1>2. gave_up' = gave_up
  BY DEF TakeSlot
<1>3. SwapchainTypes
  BY DEF FrameInv
<1>4. next_sema_index' \in Slots /\ semas_in_use' \in [Slots -> BOOLEAN]
  BY <1>1, <1>3, CandidateIsSlot DEF SwapchainTypes
<1>5. /\ \A o \in Renderers : InFrame(o) => drawable[o].slot # s
      /\ \A q \in queued : q[1] # s
      /\ ~acq_sema[s] /\ ~present_sema[s]
  BY <1>1 DEF FrameInv, SlotsTaken, SemasWaited
<1>6. /\ \A o \in Renderers : HasFrame(o) => drawable[o] \in Frame
      /\ \A q \in queued : q[1] \in Slots
      /\ r # Resizer /\ ~HasFrame(r)
  BY <1>1, <1>3, SwapchainAssumption DEF SwapchainTypes, HasFrame, Framed
<1>7. CASE pc' = [pc EXCEPT ![r] = "acquire"]
  <2>1. /\ fence' = [fence EXCEPT ![s] = FALSE]
        /\ drawable' = [drawable EXCEPT ![r] =
                          [slot |-> s, image |-> 0, generation |-> generation]]
    BY <1>3, <1>7 DEF TakeSlot, SwapchainTypes, Go
  <2>2. /\ drawable'[r] = [slot |-> s, image |-> 0, generation |-> generation]
        /\ pc'[r] = "acquire" /\ drawable'[r] \in Frame
        /\ \A o \in Renderers : o # r => drawable'[o] = drawable[o] /\ pc'[o] = pc[o]
    BY <1>3, <1>7, <2>1, SwapchainAssumption DEF SwapchainTypes, Frame, ImageIds
  <2>3. /\ HasFrame(r)' /\ InFrame(r)' /\ ~WithImage(r)'
        /\ \A o \in Renderers : o # r => /\ HasFrame(o)' <=> HasFrame(o)
                                         /\ InFrame(o)' <=> InFrame(o)
                                         /\ WithImage(o)' <=> WithImage(o)
    BY <1>1, <2>2 DEF HasFrame, InFrame, WithImage, Framed
  <2>4. SwapchainTypes'
    <3>1. pc' \in [Renderers \cup {Resizer} -> Places]
      BY <1>3, <1>7 DEF SwapchainTypes, Places, Acquiring
    <3>2. fence' \in [Slots -> BOOLEAN] /\ DOMAIN drawable' = Renderers
      BY <1>3, <2>1 DEF SwapchainTypes
    <3> QED
      BY <1>1, <1>3, <1>4, <2>2, <2>3, <3>1, <3>2 DEF SwapchainTypes
  <2>5. SlotsTaken'
    BY <1>1, <1>3, <1>5, <1>6, <2>1, <2>2, <2>3
       DEF FrameInv, SlotsTaken, SwapchainTypes, Frame, InFrame
  <2>6. ImagesTaken'
    BY <1>1, <2>2, <2>3 DEF FrameInv, ImagesTaken
  <2>7. SemasWaited'
    BY <1>1, <1>3, <1>5, <2>1, <2>2, <2>3 DEF FrameInv, SemasWaited, SwapchainTypes
  <2>8. OldFrames' /\ gave_up' \in BOOLEAN
    BY <1>2, <2>2, <2>3, Zenon DEF FrameInv, OldFrames
  <2> QED
    BY <2>4, <2>5, <2>6, <2>7, <2>8
<1>8. CASE pc' # [pc EXCEPT ![r] = "acquire"]
  <2>1. UNCHANGED <<fence, drawable>> /\ pc' = [pc EXCEPT ![r] = "idle"]
    BY <1>8 DEF TakeSlot, Go
  <2>2. pc'[r] = "idle" /\ \A o \in Renderers : o # r => pc'[o] = pc[o]
    BY <1>3, <2>1 DEF SwapchainTypes
  <2>3. \A o \in Renderers : /\ HasFrame(o)' <=> HasFrame(o)
                             /\ InFrame(o)' <=> InFrame(o)
                             /\ WithImage(o)' <=> WithImage(o)
    BY <1>1, <1>6, <2>1, <2>2 DEF HasFrame, InFrame, WithImage, Framed
  <2>4. SwapchainTypes'
    <3>1. pc' \in [Renderers \cup {Resizer} -> Places]
      BY <1>3, <2>1 DEF SwapchainTypes, Places, Acquiring
    <3> QED
      BY <1>1, <1>3, <1>4, <2>1, <2>3, <3>1 DEF SwapchainTypes
  <2>5. \A o \in Renderers : HasFrame(o) => drawable[o].slot \in Slots
    BY <1>6 DEF Frame
  <2>6. SlotsTaken'
    BY <1>1, <1>3, <1>6, <2>1, <2>3, <2>5
       DEF FrameInv, SlotsTaken, SwapchainTypes, InFrame
  <2>7. ImagesTaken'
    BY <1>1, <2>1, <2>3 DEF FrameInv, ImagesTaken
  <2>8. SemasWaited'
    <3>1. \A o \in Renderers : InFrame(o)' => pc'[o] = pc[o] /\ InFrame(o)
      BY <1>6, <2>2, <2>3 DEF InFrame
    <3> QED
      BY <1>1, <1>3, <1>5, <2>1, <3>1 DEF FrameInv, SemasWaited, SwapchainTypes
  <2>9. OldFrames' /\ gave_up' \in BOOLEAN
    BY <1>2, <1>6, <2>2, <2>3, Zenon DEF FrameInv, OldFrames
  <2> QED
    BY <2>4, <2>6, <2>7, <2>8, <2>9
<1> QED
  BY <1>7, <1>8

LEMMA AcquireImagePreserves ==
  ASSUME FrameInv, NEW r \in Renderers, AcquireImage(r)
  PROVE  SwapchainTypes' /\ SlotsTaken' /\ ImagesTaken' /\ SemasWaited' /\ OldFrames'
         /\ gave_up' \in BOOLEAN
<1>1. SwapchainTypes
  BY DEF FrameInv
<1>2. PICK i \in available : /\ available' = available \ {i}
                             /\ drawable' = [drawable EXCEPT ![r].image = i]
  BY DEF AcquireImage
<1>3. /\ pc[r] = "acquire" /\ pc' = [pc EXCEPT ![r] = "acquired"]
      /\ acq_sema' = [acq_sema EXCEPT ![drawable[r].slot] = TRUE]
      /\ UNCHANGED <<semas_in_use, next_sema_index, fence, present_sema, queued, generation,
                     scan>>
  BY DEF AcquireImage, Go, slots
<1>4. gave_up' = gave_up
  BY DEF AcquireImage
<1>5. /\ i \in ImageIds /\ r # Resizer
      /\ HasFrame(r) /\ drawable[r] \in Frame /\ drawable[r].slot \in Slots
  BY <1>1, <1>3, SwapchainAssumption DEF SwapchainTypes, HasFrame, Framed, Frame
<1>6. /\ drawable'[r] = [drawable[r] EXCEPT !.image = i] /\ pc'[r] = "acquired"
      /\ \A o \in Renderers : o # r => drawable'[o] = drawable[o] /\ pc'[o] = pc[o]
  BY <1>1, <1>2, <1>3 DEF SwapchainTypes
<1>7. /\ drawable'[r].slot = drawable[r].slot /\ drawable'[r].image = i
      /\ drawable'[r].generation = drawable[r].generation /\ drawable'[r] \in Frame
  BY <1>5, <1>6 DEF Frame
<1>8. \A o \in Renderers : /\ HasFrame(o)' <=> HasFrame(o)
                           /\ InFrame(o)' <=> InFrame(o)
                           /\ o # r => (WithImage(o)' <=> WithImage(o))
                           /\ drawable'[o].slot = drawable[o].slot
                           /\ drawable'[o].generation = drawable[o].generation
  BY <1>3, <1>6, <1>7 DEF HasFrame, InFrame, WithImage, Framed
<1>9. SwapchainTypes'
  <2>1. pc' \in [Renderers \cup {Resizer} -> Places]
    BY <1>1, <1>3 DEF SwapchainTypes, Places, Acquiring
  <2>2. acq_sema' \in [Slots -> BOOLEAN] /\ DOMAIN drawable' = Renderers
        /\ available' \subseteq ImageIds
    BY <1>1, <1>2, <1>3 DEF SwapchainTypes
  <2>3. \A o \in Renderers : IF HasFrame(o)' THEN drawable'[o] \in Frame
                                             ELSE drawable'[o] = None
    BY <1>1, <1>5, <1>6, <1>7, <1>8 DEF SwapchainTypes
  <2> QED
    BY <1>1, <1>3, <2>1, <2>2, <2>3 DEF SwapchainTypes
<1>10. SlotsTaken'
  BY <1>3, <1>8 DEF FrameInv, SlotsTaken
<1>11. ImagesTaken'
  BY <1>1, <1>2, <1>3, <1>6, <1>7, <1>8 DEF FrameInv, ImagesTaken, SwapchainTypes, InFrame
<1>12. SemasWaited'
  <2>1. InFrame(r)
    BY <1>3, <1>5 DEF FrameInv, OldFrames
  <2>2. \A o \in Renderers : InFrame(o) => drawable[o].slot \in Slots
    BY <1>1 DEF SwapchainTypes, InFrame, Frame
  <2>3. \A o \in Renderers : o # r /\ InFrame(o) => drawable[o].slot # drawable[r].slot
    BY <2>1 DEF FrameInv, SlotsTaken
  <2>4. \A q \in queued : q[1] \in Slots /\ q[1] # drawable[r].slot
    BY <1>1, <2>1 DEF FrameInv, SlotsTaken, SwapchainTypes
  <2>5. semas_in_use[drawable[r].slot] /\ ~fence[drawable[r].slot]
    BY <2>1 DEF FrameInv, SlotsTaken
  <2>6. \A o \in Renderers : InFrame(o)' /\ pc'[o] \in {"acquire", "executed"} =>
          o # r /\ InFrame(o) /\ pc'[o] = pc[o] /\ drawable'[o] = drawable[o]
    BY <1>6, <1>8
  <2>7. \A t \in Slots : acq_sema'[t] <=> t = drawable[r].slot \/ acq_sema[t]
    BY <1>1, <1>3, <1>5 DEF SwapchainTypes
  <2>8. ~present_sema[drawable[r].slot]
    BY <1>3, <2>1 DEF FrameInv, SemasWaited
  <2> QED
    BY <1>3, <1>5, <2>2, <2>3, <2>4, <2>5, <2>6, <2>7, <2>8 DEF FrameInv, SemasWaited
<1>13. OldFrames' /\ gave_up' \in BOOLEAN
  <2>1. \A o \in Renderers : pc'[o] = "acquire" => pc[o] = "acquire"
    BY <1>6
  <2> QED
    BY <1>4, <1>8, <2>1, Zenon DEF FrameInv, OldFrames
<1> QED
  BY <1>9, <1>10, <1>11, <1>12, <1>13

(* The device executes the commands of a frame. *)
LEMMA ExecutePreserves ==
  ASSUME FrameInv, NEW r \in Renderers, Execute(r)
  PROVE  SwapchainTypes' /\ SlotsTaken' /\ ImagesTaken' /\ SemasWaited' /\ OldFrames'
         /\ gave_up' \in BOOLEAN
<1>1. SwapchainTypes
  BY DEF FrameInv
<1>2. /\ pc[r] = "submitted" /\ drawable[r].generation = generation
      /\ pc' = [pc EXCEPT ![r] = "executed"]
      /\ acq_sema' = [acq_sema EXCEPT ![drawable[r].slot] = FALSE]
      /\ present_sema' = [present_sema EXCEPT ![drawable[r].slot] = TRUE]
      /\ UNCHANGED <<semas_in_use, next_sema_index, fence, available, queued, generation,
                     scan, drawable>>
  BY DEF Execute, Go, slots, engine, Current
<1>3. gave_up' = gave_up
  BY DEF Execute
<1>4. /\ r # Resizer /\ HasFrame(r) /\ InFrame(r) /\ drawable[r].slot \in Slots
  BY <1>1, <1>2, SwapchainAssumption DEF SwapchainTypes, InFrame, HasFrame, Framed, Frame
<1>5. pc'[r] = "executed" /\ \A o \in Renderers : o # r => pc'[o] = pc[o]
  BY <1>1, <1>2 DEF SwapchainTypes
<1>6. \A o \in Renderers : /\ HasFrame(o)' <=> HasFrame(o)
                           /\ InFrame(o)' <=> InFrame(o)
                           /\ WithImage(o)' <=> WithImage(o)
  BY <1>2, <1>4, <1>5 DEF HasFrame, InFrame, WithImage, Framed
<1>7. SwapchainTypes'
  <2>1. pc' \in [Renderers \cup {Resizer} -> Places]
    BY <1>1, <1>2 DEF SwapchainTypes, Places, Acquiring
  <2>2. acq_sema' \in [Slots -> BOOLEAN] /\ present_sema' \in [Slots -> BOOLEAN]
    BY <1>1, <1>2 DEF SwapchainTypes
  <2> QED
    BY <1>1, <1>2, <1>6, <2>1, <2>2 DEF SwapchainTypes
<1>8. SlotsTaken'
  BY <1>2, <1>6 DEF FrameInv, SlotsTaken
<1>9. ImagesTaken'
  BY <1>2, <1>6 DEF FrameInv, ImagesTaken
<1>10. SemasWaited'
  <2>1. \A o \in Renderers : o # r /\ InFrame(o) => drawable[o].slot # drawable[r].slot
    BY <1>4 DEF FrameInv, SlotsTaken
  <2>2. \A o \in Renderers : InFrame(o) => drawable[o].slot \in Slots
    BY <1>1 DEF SwapchainTypes, InFrame, Frame
  <2>3. \A q \in queued : q[1] \in Slots
    BY <1>1 DEF SwapchainTypes
  <2>4. semas_in_use[drawable[r].slot] /\ ~fence[drawable[r].slot]
    BY <1>4 DEF FrameInv, SlotsTaken
  <2>5. \A t \in Slots : /\ acq_sema'[t] <=> t # drawable[r].slot /\ acq_sema[t]
                         /\ present_sema'[t] <=> t = drawable[r].slot \/ present_sema[t]
    BY <1>1, <1>2, <1>4 DEF SwapchainTypes
  <2> QED
    BY <1>2, <1>4, <1>5, <1>6, <2>1, <2>2, <2>3, <2>4, <2>5 DEF FrameInv, SemasWaited
<1>11. OldFrames' /\ gave_up' \in BOOLEAN
  <2>1. \A o \in Renderers : pc'[o] = "acquire" => pc[o] = "acquire"
    BY <1>5
  <2> QED
    BY <1>3, <1>6, <2>1, Zenon DEF FrameInv, OldFrames
<1> QED
  BY <1>7, <1>8, <1>9, <1>10, <1>11

(* The frame is handed over to the presentation engine. *)
LEMMA QueuePresentPreserves ==
  ASSUME FrameInv, NEW r \in Renderers, QueuePresent(r)
  PROVE  SwapchainTypes' /\ SlotsTaken' /\ ImagesTaken' /\ SemasWaited' /\ OldFrames'
         /\ gave_up' \in BOOLEAN
<1>1. SwapchainTypes
  BY DEF FrameInv
<1>2. /\ pc[r] = "executed" /\ drawable[r].generation = generation
      /\ pc' = [pc EXCEPT ![r] = "idle"]
      /\ drawable' = [drawable EXCEPT ![r] = None]
      /\ UNCHANGED <<semas_in_use, next_sema_index, fence, acq_sema, present_sema, available,
                     generation, scan>>
  BY DEF QueuePresent, Go, slots, semas, Current
<1>3. gave_up' = gave_up
  BY DEF QueuePresent
<1>4. /\ r # Resizer /\ HasFrame(r) /\ InFrame(r) /\ WithImage(r) /\ drawable[r] \in Frame
  BY <1>1, <1>2, SwapchainAssumption
     DEF SwapchainTypes, InFrame, HasFrame, WithImage, Framed
<1>5. /\ pc'[r] = "idle" /\ drawable'[r] = None
      /\ \A o \in Renderers : o # r => pc'[o] = pc[o] /\ drawable'[o] = drawable[o]
  BY <1>1, <1>2 DEF SwapchainTypes
<1>6. /\ ~HasFrame(r)' /\ ~InFrame(r)' /\ ~WithImage(r)'
      /\ \A o \in Renderers : o # r => /\ HasFrame(o)' <=> HasFrame(o)
                                       /\ InFrame(o)' <=> InFrame(o)
                                       /\ WithImage(o)' <=> WithImage(o)
  BY <1>2, <1>5 DEF HasFrame, InFrame, WithImage, Framed
<1>7. PICK new \in Slots \X ImageIds :
        new[1] = drawable[r].slot /\ new[2] = drawable[r].image
        /\ (queued' = queued \cup {new} \/ queued' = queued)
  <2>1. drawable[r].slot \in Slots /\ drawable[r].image \in ImageIds
    BY <1>4 DEF Frame
  <2>2. queued' = queued \cup {<<drawable[r].slot, drawable[r].image>>} \/ queued' = queued
    BY DEF QueuePresent
  <2> DEFINE new == <<drawable[r].slot, drawable[r].image>>
  <2>3. /\ new \in Slots \X ImageIds
        /\ new[1] = drawable[r].slot /\ new[2] = drawable[r].image
    BY <2>1
  <2>4. queued' = queued \cup {new} \/ queued' = queued
    BY <2>2
  <2> HIDE DEF new
  <2> QED
    BY <2>3, <2>4
<1>8. SwapchainTypes'
  <2>1. pc' \in [Renderers \cup {Resizer} -> Places]
    BY <1>1, <1>2 DEF SwapchainTypes, Places, Acquiring
  <2>2. queued' \subseteq Slots \X ImageIds
    BY <1>1, <1>7 DEF SwapchainTypes
  <2>3. \A o \in Renderers : IF HasFrame(o)' THEN drawable'[o] \in Frame
                                             ELSE drawable'[o] = None
    BY <1>1, <1>5, <1>6 DEF SwapchainTypes
  <2>4. DOMAIN drawable' = Renderers
    BY <1>1, <1>2 DEF SwapchainTypes
  <2> QED
    BY <1>1, <1>2, <2>1, <2>2, <2>3, <2>4 DEF SwapchainTypes
<1>9. \A q \in queued' : q \in queued \/ q = new
  BY <1>7
<1>10. SlotsTaken'
  BY <1>2, <1>4, <1>5, <1>6, <1>7, <1>9 DEF FrameInv, SlotsTaken
<1>11. ImagesTaken'
  BY <1>2, <1>4, <1>5, <1>6, <1>7, <1>9 DEF FrameInv, ImagesTaken
<1>12. SemasWaited'
  BY <1>2, <1>4, <1>5, <1>6, <1>7, <1>9 DEF FrameInv, SemasWaited
<1>13. OldFrames' /\ gave_up' \in BOOLEAN
  BY <1>3, <1>5, <1>6, Zenon DEF FrameInv, OldFrames
<1> QED
  BY <1>8, <1>10, <1>11, <1>12, <1>13

(* The engine has presented an image. *)
LEMMA EnginePreserves ==
  ASSUME FrameInv, EnginePresents
  PROVE  SwapchainTypes' /\ SlotsTaken' /\ ImagesTaken' /\ SemasWaited' /\ OldFrames'
         /\ gave_up' \in BOOLEAN
<1>1. SwapchainTypes
  BY DEF FrameInv
<1>2. PICK p \in queued : /\ present_sema[p[1]]
                          /\ queued' = queued \ {p}
                          /\ available' = available \cup {p[2]}
                          /\ fence' = [fence EXCEPT ![p[1]] = TRUE]
                          /\ present_sema' = [present_sema EXCEPT ![p[1]] = FALSE]
  BY DEF EnginePresents
<1>3. UNCHANGED <<semas_in_use, next_sema_index, acq_sema, generation, pc, scan, drawable>>
  BY DEF EnginePresents
<1>4. gave_up' = gave_up
  BY DEF EnginePresents
<1>5. p[1] \in Slots /\ p[2] \in ImageIds
  BY <1>1 DEF SwapchainTypes
<1>6. \A o \in Renderers : /\ HasFrame(o)' <=> HasFrame(o)
                           /\ InFrame(o)' <=> InFrame(o)
                           /\ WithImage(o)' <=> WithImage(o)
                           /\ InFrame(o) => drawable[o].slot \in Slots
  BY <1>1, <1>3 DEF HasFrame, InFrame, WithImage, SwapchainTypes, Frame
<1>7. SwapchainTypes'
  <2>1. /\ queued' \subseteq Slots \X ImageIds /\ available' \subseteq ImageIds
        /\ fence' \in [Slots -> BOOLEAN] /\ present_sema' \in [Slots -> BOOLEAN]
    BY <1>1, <1>2, <1>5 DEF SwapchainTypes
  <2> QED
    BY <1>1, <1>3, <1>6, <2>1 DEF SwapchainTypes
<1>8. \A t \in Slots : /\ fence'[t] <=> t = p[1] \/ fence[t]
                       /\ present_sema'[t] <=> t # p[1] /\ present_sema[t]
  BY <1>1, <1>2, <1>5 DEF SwapchainTypes
<1>9. /\ \A o \in Renderers : InFrame(o) => drawable[o].slot # p[1]
      /\ \A q \in queued' : q \in queued /\ q[1] # p[1] /\ q[1] \in Slots
  BY <1>1, <1>2 DEF FrameInv, SlotsTaken, SwapchainTypes
<1>10. SlotsTaken'
  BY <1>3, <1>5, <1>6, <1>8, <1>9 DEF FrameInv, SlotsTaken
<1>11. ImagesTaken'
  BY <1>2, <1>3, <1>6, <1>9 DEF FrameInv, ImagesTaken
<1>12. SemasWaited'
  <2>1. ~acq_sema[p[1]]
    <3>1. present_sema[p[1]]
      BY <1>2
    <3> QED
      BY <1>5, <3>1 DEF FrameInv, SemasWaited
  <2> QED
    BY <1>3, <1>5, <1>6, <1>8, <1>9, <2>1 DEF FrameInv, SemasWaited
<1>13. OldFrames' /\ gave_up' \in BOOLEAN
  <2>1. pc' = pc
    BY <1>3
  <2> QED
    BY <1>4, <1>6, <2>1, Zenon DEF FrameInv, OldFrames
<1> QED
  BY <1>7, <1>10, <1>11, <1>12, <1>13

(* A resize replaces the swapchain: the frames that are not presented      *)
(* become old ones, for the fences of their slots are not signaled.        *)
LEMMA DestroyPreserves ==
  ASSUME FrameInv, DestroySwapchain
  PROVE  SwapchainTypes' /\ SlotsTaken' /\ ImagesTaken' /\ SemasWaited' /\ OldFrames'
         /\ gave_up' \in BOOLEAN
<1>1. SwapchainTypes
  BY DEF FrameInv
<1>2. /\ pc[Resizer] = "destroy" /\ pc' = [pc EXCEPT ![Resizer] = "idle"]
      /\ fence' = [s \in Slots |-> FALSE] /\ semas_in_use' = [s \in Slots |-> FALSE]
      /\ acq_sema' = [s \in Slots |-> FALSE] /\ present_sema' = [s \in Slots |-> FALSE]
      /\ next_sema_index' = 0 /\ queued' = {} /\ available' = ImageIds
      /\ generation' = generation + 1
      /\ UNCHANGED <<scan, drawable>>
  BY DEF DestroySwapchain, Go
<1>3. gave_up' = (gave_up \/ ~AllPresented)
  BY Zenon DEF DestroySwapchain
<1>4. \A o \in Renderers : /\ o # Resizer /\ pc'[o] = pc[o]
                           /\ HasFrame(o)' <=> HasFrame(o)
                           /\ HasFrame(o) => drawable[o] \in Frame
  BY <1>1, <1>2, SwapchainAssumption DEF HasFrame, SwapchainTypes
<1>5. SwapchainTypes'
  <2>1. pc' \in [Renderers \cup {Resizer} -> Places]
    BY <1>1, <1>2 DEF SwapchainTypes, Places, Acquiring
  <2>2. \A o \in Renderers : IF HasFrame(o)' THEN drawable'[o] \in Frame
                                             ELSE drawable'[o] = None
    BY <1>1, <1>2, <1>4 DEF SwapchainTypes
  <2> QED
    BY <1>1, <1>2, <2>1, <2>2, SlotCountIsPositive DEF SwapchainTypes
<1>6. OldFrames' /\ gave_up' \in BOOLEAN
  <2>1. \A o \in Renderers : HasFrame(o) => pc[o] # "acquire"
    BY <1>2, <1>4, SwapchainAssumption DEF FrameInv, LockHolders, Acquiring
  <2>2. ASSUME NEW o \in Renderers, HasFrame(o) PROVE gave_up \/ ~AllPresented
    <3>1. CASE InFrame(o)
      <4>1. drawable[o].slot \in Slots
        BY <1>4, <2>2 DEF Frame
      <4>2. ~AllPresented
        BY <3>1, <4>1 DEF FrameInv, SlotsTaken, AllPresented
      <4> QED
        BY <4>2
    <3>2. CASE ~InFrame(o)
      <4>1. gave_up = TRUE
        BY <2>2, <3>2, Zenon DEF FrameInv, OldFrames
      <4> QED
        BY <4>1, Zenon
    <3> QED
      BY <3>1, <3>2
  <2>3. \A o \in Renderers : HasFrame(o)' => HasFrame(o) /\ pc'[o] = pc[o]
    BY <1>4
  <2>4. gave_up' \in BOOLEAN
    BY <1>3, Zenon
  <2>5. \A o \in Renderers : HasFrame(o)' => gave_up' = TRUE /\ pc'[o] # "acquire"
    BY <1>3, <2>1, <2>2, <2>3, Zenon
  <2> QED
    BY <2>4, <2>5, Zenon DEF OldFrames
<1>7. \A o \in Renderers : ~InFrame(o)' /\ ~WithImage(o)'
  <2> SUFFICES ASSUME NEW o \in Renderers, HasFrame(o)' PROVE ~InFrame(o)'
    BY DEF InFrame, WithImage
  <2>1. drawable'[o].generation = drawable[o].generation
    BY <1>2
  <2>2. drawable[o].generation \in Nat /\ drawable[o].generation <= generation
    BY <1>4 DEF FrameInv, SlotsTaken, Frame
  <2>3. generation \in Nat
    BY <1>1 DEF SwapchainTypes
  <2> QED
    BY <1>2, <2>1, <2>2, <2>3 DEF InFrame
<1>8. SlotsTaken'
  <2>1. \A o \in Renderers : HasFrame(o)' => drawable'[o].generation <= generation'
    <3> SUFFICES ASSUME NEW o \in Renderers, HasFrame(o)'
                 PROVE  drawable'[o].generation <= generation'
      OBVIOUS
    <3>1. drawable[o].generation \in Nat /\ drawable[o].generation <= generation
      BY <1>4 DEF FrameInv, SlotsTaken, Frame
    <3>2. generation \in Nat
      BY <1>1 DEF SwapchainTypes
    <3> QED
      BY <1>2, <3>1, <3>2
  <2> QED
    BY <1>2, <1>7, <2>1 DEF SlotsTaken
<1> QED
  BY <1>2, <1>5, <1>6, <1>7, <1>8 DEF ImagesTaken, SemasWaited

LEMMA QuietSteps ==
  ASSUME FrameInv,
         \/ Resize
         \/ \E r \in Renderers :
              \/ Acquire(r) \/ LockAcquisition(r) \/ LockSemas(r) \/ SkipSlot(r)
              \/ NoSlots(r) \/ FenceSignaled(r) \/ FenceError(r) \/ Commit(r) \/ CommitFails(r)
  PROVE  SwapchainTypes' /\ SlotsTaken' /\ ImagesTaken' /\ SemasWaited' /\ OldFrames'
         /\ gave_up' \in BOOLEAN
<1>1. SwapchainTypes
  BY DEF FrameInv
<1>2. UNCHANGED <<Frames, drawable>>
  BY DEF Resize, Acquire, LockAcquisition, LockSemas, SkipSlot, NoSlots, FenceSignaled,
         FenceError, Commit, CommitFails, Frames, slots, semas, engine
<1>3. pc' \in [Renderers \cup {Resizer} -> Places]
  BY <1>1 DEF Resize, Acquire, LockAcquisition, LockSemas, SkipSlot, NoSlots, FenceSignaled,
              FenceError, Commit, CommitFails, Go, SwapchainTypes, Places, Acquiring
<1>4. scan' \in [Renderers -> Nat \X Nat]
  <2>1. CASE \E r \in Renderers : SkipSlot(r)
    <3>1. PICK r \in Renderers : SkipSlot(r)
      BY <2>1
    <3>2. scan[r] \in Nat \X Nat
      BY <1>1 DEF SwapchainTypes
    <3>3. scan' = [scan EXCEPT ![r] = <<0, scan[r][2] + 1>>]
          \/ scan' = [scan EXCEPT ![r] = <<1, 0>>] \/ scan' = scan
      BY <1>1, <3>1 DEF SkipSlot, SwapchainTypes
    <3> QED
      BY <1>1, <3>2, <3>3 DEF SwapchainTypes
  <2>2. CASE \E r \in Renderers : LockSemas(r)
    BY <1>1, <2>2 DEF LockSemas, SwapchainTypes
  <2>3. CASE scan' = scan
    BY <1>1, <2>3 DEF SwapchainTypes
  <2> QED
    BY <2>1, <2>2, <2>3 DEF Resize, Acquire, LockAcquisition, NoSlots, FenceSignaled,
         FenceError, Commit, CommitFails
<1>5. \A o \in Renderers : /\ pc'[o] \in Framed <=> pc[o] \in Framed
                           /\ pc'[o] = "acquire" <=> pc[o] = "acquire"
  <2>1. CASE Resize
    BY <1>1, <2>1, SwapchainAssumption DEF Resize, Go, SwapchainTypes
  <2>2. ASSUME NEW r \in Renderers,
               \/ Acquire(r) \/ LockAcquisition(r) \/ LockSemas(r) \/ SkipSlot(r)
               \/ NoSlots(r) \/ FenceSignaled(r) \/ FenceError(r) \/ Commit(r) \/ CommitFails(r)
        PROVE  \A o \in Renderers : /\ pc'[o] \in Framed <=> pc[o] \in Framed
                                    /\ pc'[o] = "acquire" <=> pc[o] = "acquire"
    BY <1>1, <2>2 DEF Acquire, LockAcquisition, LockSemas, SkipSlot, NoSlots, FenceSignaled,
                      FenceError, Commit, CommitFails, Go, SwapchainTypes, Framed
  <2> QED
    BY <2>1, <2>2
<1>6. SwapchainTypes'
  <2>1. \A o \in Renderers : HasFrame(o)' <=> HasFrame(o)
    BY <1>5 DEF HasFrame
  <2> QED
    BY <1>1, <1>2, <1>3, <1>4, <2>1 DEF SwapchainTypes, Frames
<1> QED
  BY <1>2, <1>5, <1>6, OtherStepsKeepFrames

LEMMA FailingSteps ==
  ASSUME FrameInv, NEW r \in Renderers, AcquireImageFails(r) \/ BeginFails(r)
  PROVE  SwapchainTypes' /\ SlotsTaken' /\ ImagesTaken' /\ SemasWaited' /\ OldFrames'
         /\ gave_up' \in BOOLEAN
<1>1. SwapchainTypes
  BY DEF FrameInv
<1>2. /\ UNCHANGED <<Frames, scan>>
      /\ drawable' = [drawable EXCEPT ![r] = None] /\ pc' = [pc EXCEPT ![r] = "idle"]
  BY DEF AcquireImageFails, BeginFails, Go, Frames, slots, semas, engine
<1>3. SwapchainTypes'
  <2>1. pc' \in [Renderers \cup {Resizer} -> Places]
    BY <1>1, <1>2 DEF SwapchainTypes, Places, Acquiring
  <2>2. DOMAIN drawable' = Renderers
    BY <1>1, <1>2 DEF SwapchainTypes
  <2>3. \A o \in Renderers : IF HasFrame(o)' THEN drawable'[o] \in Frame
                                             ELSE drawable'[o] = None
    BY <1>1, <1>2 DEF SwapchainTypes, HasFrame, Framed
  <2> QED
    BY <1>1, <1>2, <2>1, <2>2, <2>3 DEF SwapchainTypes, Frames
<1> QED
  BY <1>2, <1>3, DroppedFrame

LEMMA FramesPreserved == FrameInv /\ [SwapchainNext]_swapchainVars => FrameInv'
<1> SUFFICES ASSUME FrameInv, [SwapchainNext]_swapchainVars PROVE FrameInv'
  OBVIOUS
<1> DEFINE Kept == SwapchainTypes' /\ SlotsTaken' /\ ImagesTaken' /\ SemasWaited'
                   /\ OldFrames' /\ gave_up' \in BOOLEAN
<1>1. CASE SwapchainNext
  <2>1. Kept
    <3>1. ASSUME NEW r \in Renderers, Acquire(r) \/ AcquireStep(r) \/ FrameStep(r)
          PROVE  Kept
      BY <3>1, QuietSteps, FailingSteps, TakeSlotPreserves, AcquireImagePreserves,
         ExecutePreserves, QueuePresentPreserves DEF AcquireStep, FrameStep
    <3> QED
      BY <1>1, <3>1, QuietSteps, EnginePreserves, DestroyPreserves DEF SwapchainNext
  <2>2. LockHolders'
    BY <1>1, LockHoldersPreserved
  <2> QED
    BY <2>1, <2>2 DEF FrameInv
<1>2. CASE UNCHANGED swapchainVars
  <2>1. UNCHANGED <<Frames, drawable, pc, scan, locks, gave_up>>
    BY <1>2 DEF swapchainVars, Frames, slots, semas, engine
  <2>2. SwapchainTypes' /\ LockHolders'
    BY <2>1 DEF FrameInv, SwapchainTypes, LockHolders, Frames, locks, HasFrame
  <2> QED
    BY <2>1, <2>2, OtherStepsKeepFrames DEF FrameInv
<1> QED
  BY <1>1, <1>2

(* What a frame uses - its slot, its image, the semaphores - is its own    *)
(* until the engine has presented it, and it is there, unless a resize     *)
(* gave up waiting (acquire_next_image, queue_present, reinit_renderer).   *)
THEOREM FramesUseTheirOwn == SwapchainSpec => []FramesAreSafe
<1>1. FrameInv => FramesAreSafe
  <2> SUFFICES ASSUME FrameInv PROVE FramesAreSafe
    OBVIOUS
  <2>1. \A r \in Renderers : drawable[r] # None => HasFrame(r)
    BY DEF FrameInv, SwapchainTypes
  <2>2. \A s \in Slots : \A r \in Users(s) :
          r \in Renderers /\ InFrame(r) /\ drawable[r].slot = s
    BY <2>1 DEF Users, InFrame
  <2>3. ASSUME NEW s \in Slots
        PROVE  Cardinality(Users(s)) + Cardinality({q \in queued : q[1] = s}) <= 1
    <3> DEFINE U == Users(s)
               Q == {q \in queued : q[1] = s}
    <3>1. Cardinality({}) = 0 /\ \A x : Cardinality({x}) = 1
      BY FS_EmptySet, FS_Singleton
    <3>2. \A r, o \in U : r = o
      BY <2>2 DEF FrameInv, SlotsTaken
    <3>3. \A p, q \in Q : p = q
      BY DEF FrameInv, SlotsTaken
    <3>4. U = {} \/ Q = {}
      BY <2>2 DEF FrameInv, SlotsTaken
    <3> HIDE DEF U, Q
    <3>5. (U = {} \/ \E x : U = {x}) /\ (Q = {} \/ \E x : Q = {x})
      BY <3>2, <3>3
    <3>6. /\ U = {} => Cardinality(U) = 0
          /\ Q = {} => Cardinality(Q) = 0
          /\ Cardinality(U) = 0 \/ Cardinality(U) = 1
          /\ Cardinality(Q) = 0 \/ Cardinality(Q) = 1
      BY <3>1, <3>5, Zenon
    <3>7. Cardinality(U) + Cardinality(Q) <= 1
      BY <3>4, <3>6
    <3> QED
      BY <3>7 DEF U, Q
  <2>4. SlotIsExclusive
    <3>1. \A s \in Slots : Users(s) # {} => semas_in_use[s] /\ ~fence[s]
      BY <2>2 DEF FrameInv, SlotsTaken
    <3>2. \A p, q \in queued : p[2] = q[2] => p = q
      BY DEF FrameInv, ImagesTaken
    <3> QED
      BY <2>3, <3>1, <3>2 DEF SlotIsExclusive
  <2>5. SemaphoresAreFree
    BY <2>1 DEF SemaphoresAreFree, FrameInv, SemasWaited, InFrame, Current
  <2>6. FramesOutliveOnlyOnGiveUp
    <3>1. \A r \in Renderers : drawable[r] # None /\ ~Current(r) =>
            HasFrame(r) /\ ~InFrame(r)
      BY <2>1 DEF InFrame, Current
    <3> QED
      BY <3>1, Zenon DEF FrameInv, OldFrames, FramesOutliveOnlyOnGiveUp
  <2> QED
    BY <2>4, <2>5, <2>6 DEF FramesAreSafe
<1> QED
  BY <1>1, FramesInitially, FramesPreserved, PTL DEF SwapchainSpec

-----------------------------------------------------------------------------
(* Presentation in VR                                                      *)

XrStates == {"idle", "ready", "synchronized", "visible", "focused", "stopping",
             "exiting", "loss_pending"}
VrPlaces == {"idle", "lock", "image_lock", "wait_frame", "begin_frame", "views",
             "wait_image", "no_image", "acquired", "release", "end_frame", "unlock"}

VrTypes ==
  /\ session_state \in XrStates /\ xr_events \in Seq(XrStates)
  /\ xr_acquired \in Seq(VrImageIds)
  /\ vr_image_index \in VrImageIds /\ vr_image_locks \in [VrImageIds -> BOOLEAN]
  /\ DOMAIN external_swapchain_images = VrImageIds
  /\ vr_pc \in [VrRenderers -> VrPlaces]
  /\ vr_drawable \in [VrRenderers -> VrImageIds \cup {NoVr}]
  /\ kept \subseteq VrImageIds
  /\ vr_errors \in Nat

(* The lock of an image belongs to one frame, or was kept. *)
ImageLocks ==
  /\ \A r \in VrRenderers :
       vr_drawable[r] = NoVr <=> vr_pc[r] \in {"idle", "lock", "image_lock"}
  /\ \A r, o \in VrRenderers : vr_drawable[r] # NoVr /\ vr_drawable[r] = vr_drawable[o] => r = o
  /\ \A r \in VrRenderers : vr_drawable[r] \notin kept
  /\ \A i \in VrImageIds :
       vr_image_locks[i] <=> (\E r \in VrRenderers : vr_drawable[r] = i) \/ i \in kept

(* The session runs in all states behind "ready" but "exiting". The end of *)
(* a session is the last thing the runtime reports of it: no focus of a    *)
(* session that has ended is left to be polled.                            *)
Behind == {"synchronized", "visible", "focused", "stopping", "loss_pending"}
SessionEvents ==
  /\ session_state \in Behind => running
  /\ \A k \in 1 .. Len(xr_events) :
       /\ xr_events[k] = "focused" => session_state \in Behind
       /\ xr_events[k] \in {"exiting", "loss_pending"} => session_state = xr_events[k]
       /\ xr_events[k] = "stopping" => session_state = "stopping" /\ k = Len(xr_events)
  /\ is_focused => running

(* What is acquired of a frame that neither overlaps nor fails. *)
FrameStage(r) ==
  /\ vr_pc[r] \in {"wait_frame", "begin_frame", "unlock"} => ~frame_begun /\ xr_acquired = <<>>
  /\ vr_pc[r] = "views" => cur_should_render /\ xr_acquired = <<>>
  /\ vr_pc[r] = "no_image" => (frame_begun => ~cur_should_render) /\ xr_acquired = <<>>
  /\ vr_pc[r] \in {"wait_image", "acquired"} => cur_should_render /\ Len(xr_acquired) = 1
  /\ vr_pc[r] = "acquired" => external_swapchain_images[vr_drawable[r]] = cur_swapchain_image
  /\ vr_pc[r] = "release" => Len(xr_acquired) = 1
  /\ vr_pc[r] = "end_frame" => xr_acquired = <<>>
Calm == vr_errors = 0 /\ ~overlapped
FramesEnd ==
  Calm =>
    /\ \A r, o \in VrRenderers : vr_drawable[r] # NoVr /\ vr_drawable[o] # NoVr => r = o
    /\ \A r \in VrRenderers : FrameStage(r)
    /\ (\A r \in VrRenderers : vr_drawable[r] = NoVr) => ~frame_begun /\ xr_acquired = <<>>

VrInv == VrTypes /\ ImageLocks /\ SessionEvents /\ FramesEnd

LEMMA VrInitially == VrInit => VrInv
<1> SUFFICES ASSUME VrInit PROVE VrInv
  OBVIOUS
<1>1. /\ session_state = "idle" /\ xr_events = <<>> /\ xr_acquired = <<>>
      /\ vr_image_index = 0 /\ vr_image_locks = [i \in VrImageIds |-> FALSE]
      /\ external_swapchain_images = [i \in VrImageIds |-> NoVr]
      /\ vr_pc = [r \in VrRenderers |-> "idle"] /\ vr_drawable = [r \in VrRenderers |-> NoVr]
      /\ kept = {} /\ vr_errors = 0
  BY DEF VrInit
<1>2. VrTypes
  BY <1>1, VrAssumption DEF VrTypes, XrStates, VrPlaces, VrImageIds
<1>3. ImageLocks
  BY <1>1, VrAssumption DEF ImageLocks, VrImageIds
<1>4. ~is_focused /\ ~frame_begun
  BY Zenon DEF VrInit
<1>5. SessionEvents
  BY <1>1, <1>4 DEF SessionEvents, Behind
<1>6. FramesEnd
  BY <1>1, <1>4 DEF FramesEnd, FrameStage
<1> QED
  BY <1>2, <1>3, <1>5, <1>6 DEF VrInv

(* What the other actions leave alone. *)
LEMMA SessionKept ==
  ASSUME VrInv, UNCHANGED <<session_state, xr_events, running, is_focused>>
  PROVE  SessionEvents'
BY DEF VrInv, SessionEvents

LEMMA ImagesKept ==
  ASSUME VrInv, UNCHANGED <<vr_drawable, vr_image_locks, kept>>,
         \A r \in VrRenderers : vr_pc'[r] \in {"idle", "lock", "image_lock"}
                                  <=> vr_pc[r] \in {"idle", "lock", "image_lock"}
  PROVE  ImageLocks'
BY DEF VrInv, ImageLocks

LEMMA SessionChangesPreserves ==
  ASSUME VrInv, SessionChanges
  PROVE  VrInv'
<1>1. VrTypes /\ SessionEvents
  BY DEF VrInv
<1>2. UNCHANGED <<running, frame_waited, frame_begun, xr_acquired, is_focused, vr_image_index,
                  vr_image_locks, external_swapchain_images, cur_swapchain_image,
                  cur_should_render, vr_pc, vr_drawable, kept, overlapped, vr_errors>>
  BY DEF SessionChanges, frame, current, vr_history
<1>3. PICK s \in XrStates :
        /\ session_state' = s /\ xr_events' = Append(xr_events, s)
        /\ \/ s \in Behind /\ session_state \in Behind \ {"stopping", "loss_pending"}
           \/ s \in {"ready", "exiting"} /\ session_state = "idle"
           \/ s = "synchronized" /\ session_state = "ready" /\ running
  <2>1. CASE session_state = "ready" /\ running /\ ChangeState("synchronized")
    BY <2>1 DEF ChangeState, XrStates
  <2>2. CASE \E s \in Follows[session_state] : ChangeState(s)
    <3>1. PICK s \in Follows[session_state] : ChangeState(s)
      BY <2>2
    <3>2. /\ s \in XrStates
          /\ \/ s \in Behind /\ session_state \in Behind \ {"stopping", "loss_pending"}
             \/ s \in {"ready", "exiting"} /\ session_state = "idle"
      BY <1>1, <3>1 DEF Follows, XrStates, Behind, VrTypes
    <3> QED
      BY <3>1, <3>2 DEF ChangeState
  <2> QED
    BY <2>1, <2>2 DEF SessionChanges
<1>4. session_state \in Behind => running
  BY <1>1 DEF SessionEvents
<1>5. s \in Behind => running'
  <2>1. s \in Behind => session_state \in Behind \/ running
    BY <1>3 DEF Behind
  <2>2. running' = running
    BY <1>2
  <2> QED
    BY <1>4, <2>1, <2>2, Zenon
<1>6. /\ xr_events' \in Seq(XrStates) /\ Len(xr_events') = Len(xr_events) + 1
      /\ \A k \in 1 .. Len(xr_events) : xr_events'[k] = xr_events[k]
      /\ xr_events'[Len(xr_events')] = s /\ Len(xr_events) \in Nat
  BY <1>1, <1>3 DEF VrTypes
<1>7. \A k \in 1 .. Len(xr_events) :
        xr_events[k] \notin {"exiting", "loss_pending", "stopping"}
  BY <1>1, <1>3 DEF SessionEvents, Behind
<1>8. SessionEvents'
  <2>1. \A k \in 1 .. Len(xr_events) : xr_events[k] = "focused" => s \in Behind
    BY <1>1, <1>3 DEF SessionEvents, Behind
  <2>2. is_focused' => running'
    BY <1>1, <1>2 DEF SessionEvents
  <2>3. \A k \in 1 .. Len(xr_events') : k \in 1 .. Len(xr_events) \/ k = Len(xr_events')
    BY <1>6
  <2>4. ASSUME NEW k \in 1 .. Len(xr_events')
        PROVE  /\ xr_events'[k] = "focused" => session_state' \in Behind
               /\ xr_events'[k] \in {"exiting", "loss_pending"} => session_state' = xr_events'[k]
               /\ xr_events'[k] = "stopping" => session_state' = "stopping" /\ k = Len(xr_events')
    <3>1. CASE k \in 1 .. Len(xr_events)
      BY <1>3, <1>6, <1>7, <2>1, <3>1
    <3>2. CASE k = Len(xr_events')
      BY <1>3, <1>6, <3>2 DEF Behind
    <3> QED
      BY <2>3, <3>1, <3>2
  <2> QED
    BY <1>3, <1>5, <2>2, <2>4 DEF SessionEvents
<1>9. VrTypes'
  BY <1>1, <1>2, <1>3, <1>6 DEF VrTypes
<1>10. FramesEnd'
  BY <1>2 DEF VrInv, FramesEnd, FrameStage, Calm
<1>11. ImageLocks'
  BY <1>2, ImagesKept
<1> QED
  BY <1>8, <1>9, <1>10, <1>11 DEF VrInv

LEMMA PollEventPreserves ==
  ASSUME VrInv, PollEvent
  PROVE  VrInv'
<1>1. VrTypes /\ SessionEvents /\ FramesEnd
  BY DEF VrInv
<1>2. /\ xr_events # <<>> /\ xr_events' = Tail(xr_events)
      /\ UNCHANGED <<xr_acquired, vr_image_index, vr_image_locks, external_swapchain_images,
                     cur_swapchain_image, cur_should_render, vr_pc, vr_drawable, kept,
                     overlapped, vr_errors>>
  BY DEF PollEvent, current, vr_history, vr_bounds
<1> PICK s \in XrStates : s = Head(xr_events)
  BY <1>1, <1>2 DEF VrTypes
<1> DEFINE ends == s \in {"stopping", "exiting", "loss_pending"}
           accepted == ends /\ running /\ session_state = "stopping"
<1>3. /\ is_focused' = ((is_focused \/ s = "focused") /\ ~ends)
      /\ running' = ((running \/ (s = "ready" /\ ~running)) /\ ~accepted)
      /\ frame_begun' = (frame_begun /\ ~accepted)
  BY Zenon DEF PollEvent
<1>4. session_state' = IF accepted THEN "idle" ELSE session_state
  BY DEF PollEvent
<1>5. /\ frame_begun' => frame_begun
      /\ running /\ ~accepted => running'
      /\ is_focused' => (is_focused \/ s = "focused") /\ ~ends
  BY <1>3, Zenon
<1>6. /\ xr_events' \in Seq(XrStates) /\ Len(xr_events') = Len(xr_events) - 1
      /\ \A k \in 1 .. Len(xr_events') : xr_events'[k] = xr_events[k + 1]
      /\ s = xr_events[1] /\ Len(xr_events) \in Nat \ {0}
  BY <1>1, <1>2 DEF VrTypes
<1>7. s = "focused" => session_state \in Behind
  BY <1>1, <1>6 DEF SessionEvents
<1>8. accepted => Len(xr_events) = 1
  BY <1>1, <1>6 DEF SessionEvents
<1>9. is_focused' => running'
  <2>1. is_focused' => running
    BY <1>1, <1>5, <1>7 DEF SessionEvents
  <2> QED
    BY <1>5, <2>1 DEF accepted
<1>10. VrTypes'
  BY <1>1, <1>2, <1>4, <1>6 DEF VrTypes, XrStates
<1>11. SessionEvents'
  <2>1. CASE accepted
    <3>1. session_state' = "idle" /\ Len(xr_events') = 0
      BY <1>4, <1>6, <1>8, <2>1
    <3> QED
      BY <1>9, <3>1 DEF SessionEvents, Behind
  <2>2. CASE ~accepted
    <3>1. session_state' = session_state
      BY <1>4, <2>2
    <3>2. session_state' \in Behind => running'
      BY <1>1, <1>5, <2>2, <3>1 DEF SessionEvents
    <3>3. ASSUME NEW k \in 1 .. Len(xr_events')
          PROVE  /\ xr_events'[k] = "focused" => session_state' \in Behind
                 /\ xr_events'[k] \in {"exiting", "loss_pending"} => session_state' = xr_events'[k]
                 /\ xr_events'[k] = "stopping" => session_state' = "stopping" /\ k = Len(xr_events')
      <4>1. k + 1 \in 1 .. Len(xr_events) /\ xr_events'[k] = xr_events[k + 1]
        BY <1>6
      <4> QED
        BY <1>1, <1>6, <3>1, <4>1 DEF SessionEvents
    <3> QED
      BY <1>9, <3>2, <3>3 DEF SessionEvents
  <2> QED
    BY <2>1, <2>2
<1>12. FramesEnd'
  <2>1. Calm' => Calm
    BY <1>2 DEF Calm
  <2>2. \A r \in VrRenderers : FrameStage(r) => FrameStage(r)'
    BY <1>2, <1>5 DEF FrameStage
  <2> QED
    BY <1>1, <1>2, <1>5, <2>1, <2>2 DEF FramesEnd
<1>13. ImageLocks'
  BY <1>2, ImagesKept
<1> QED
  BY <1>10, <1>11, <1>12, <1>13 DEF VrInv

(* A frame begins: the lock of the image is free, so no frame has it. *)
LEMMA LockImagePreserves ==
  ASSUME VrInv, NEW r \in VrRenderers, LockImage(r)
  PROVE  VrInv'
<1>1. VrTypes /\ ImageLocks /\ FramesEnd
  BY DEF VrInv
<1>2. /\ vr_pc[r] = "image_lock" /\ ~vr_image_locks[vr_image_index]
      /\ vr_image_locks' = [vr_image_locks EXCEPT ![vr_image_index] = TRUE]
      /\ vr_drawable' = [vr_drawable EXCEPT ![r] = vr_image_index]
      /\ vr_pc' = [vr_pc EXCEPT ![r] = "wait_frame"]
      /\ UNCHANGED <<session_state, running, xr_events, frame_begun, xr_acquired, is_focused,
                     vr_image_index, external_swapchain_images, cur_should_render, kept,
                     vr_errors>>
  BY DEF LockImage, VrGo, runtime, frame, vr_bounds
<1>3. ~overlapped' => ~overlapped /\ \A o \in VrRenderers : vr_drawable[o] = NoVr
  <2>1. overlapped' = (overlapped \/ \E o \in VrRenderers : vr_drawable[o] # NoVr)
    BY Zenon DEF LockImage
  <2> QED
    BY <2>1, Zenon
<1>4. /\ vr_image_index \in VrImageIds /\ vr_image_index # NoVr
      /\ vr_image_index \notin kept /\ \A o \in VrRenderers : vr_drawable[o] # vr_image_index
      /\ vr_drawable[r] = NoVr
  BY <1>1, <1>2, VrAssumption DEF VrTypes, ImageLocks, VrImageIds
<1>5. /\ vr_drawable'[r] = vr_image_index /\ vr_pc'[r] = "wait_frame"
      /\ \A o \in VrRenderers : o # r => vr_drawable'[o] = vr_drawable[o] /\ vr_pc'[o] = vr_pc[o]
  BY <1>1, <1>2 DEF VrTypes
<1>6. VrTypes'
  BY <1>1, <1>2 DEF VrTypes, VrPlaces
<1>7. ImageLocks'
  <2>1. \A i \in VrImageIds : vr_image_locks'[i] <=> i = vr_image_index \/ vr_image_locks[i]
    BY <1>1, <1>2 DEF VrTypes
  <2>2. \A i \in VrImageIds : (\E o \in VrRenderers : vr_drawable'[o] = i)
          <=> i = vr_image_index \/ \E o \in VrRenderers : vr_drawable[o] = i
    <3> SUFFICES ASSUME NEW i \in VrImageIds
                 PROVE  (\E o \in VrRenderers : vr_drawable'[o] = i)
                          <=> i = vr_image_index \/ \E o \in VrRenderers : vr_drawable[o] = i
      OBVIOUS
    <3>1. i # NoVr
      BY VrAssumption DEF VrImageIds
    <3> QED
      BY <1>4, <1>5, <3>1
  <2> QED
    BY <1>1, <1>2, <1>4, <1>5, <2>1, <2>2 DEF ImageLocks
<1>8. FramesEnd'
  <2> SUFFICES ASSUME Calm' PROVE FramesEnd'
    BY DEF FramesEnd
  <2>1. Calm /\ \A o \in VrRenderers : vr_drawable[o] = NoVr
    BY <1>2, <1>3 DEF Calm
  <2>2. ~frame_begun /\ xr_acquired = <<>>
    BY <1>1, <2>1 DEF FramesEnd
  <2>3. \A o \in VrRenderers : o # r => vr_pc'[o] \in {"idle", "lock", "image_lock"}
                                        /\ vr_drawable'[o] = NoVr
    BY <1>1, <1>5, <2>1 DEF ImageLocks
  <2>4. ~frame_begun' /\ xr_acquired' = <<>>
    BY <1>2, <2>2
  <2>5. \A o \in VrRenderers : FrameStage(o)'
    BY <1>5, <2>3, <2>4 DEF FrameStage
  <2> QED
    BY <1>4, <1>5, <2>3, <2>4, <2>5 DEF FramesEnd
<1>9. SessionEvents'
  BY <1>2, SessionKept
<1> QED
  BY <1>6, <1>7, <1>8, <1>9 DEF VrInv

(* A step of a frame between its first and its last: it suffices to look   *)
(* at the frame itself, for without an overlap there is no other.          *)
LEMMA FrameGoesOn ==
  ASSUME VrInv, NEW r \in VrRenderers,
         vr_pc[r] \notin {"idle", "lock", "image_lock"},
         NEW to \in VrPlaces \ {"idle", "lock", "image_lock"},
         vr_pc' = [vr_pc EXCEPT ![r] = to],
         xr_acquired' \in Seq(VrImageIds),
         DOMAIN external_swapchain_images' = VrImageIds,
         vr_errors' \in Nat, vr_errors' = 0 => vr_errors = 0,
         UNCHANGED <<session_state, running, xr_events, is_focused, vr_image_index,
                     vr_image_locks, vr_drawable, kept, overlapped>>,
         Calm /\ Calm' /\ FrameStage(r) => FrameStage(r)'
  PROVE  VrInv'
<1>1. VrTypes /\ ImageLocks /\ FramesEnd
  BY DEF VrInv
<1>2. VrTypes'
  BY <1>1 DEF VrTypes
<1>3. /\ vr_pc'[r] = to
      /\ \A o \in VrRenderers : o # r => vr_pc'[o] = vr_pc[o]
  BY <1>1 DEF VrTypes
<1>4. ImageLocks'
  BY <1>3, ImagesKept
<1>5. FramesEnd'
  <2> SUFFICES ASSUME Calm' PROVE FramesEnd'
    BY DEF FramesEnd
  <2>1. Calm
    BY DEF Calm
  <2>2. vr_drawable[r] # NoVr
    BY <1>1 DEF ImageLocks
  <2>3. \A o \in VrRenderers : o # r => vr_pc'[o] \in {"idle", "lock", "image_lock"}
    BY <1>1, <1>3, <2>1, <2>2 DEF ImageLocks, FramesEnd
  <2>4. FrameStage(r)'
    BY <1>1, <2>1 DEF FramesEnd
  <2>5. \A o \in VrRenderers : o # r => FrameStage(o)'
    BY <2>3 DEF FrameStage
  <2>6. \A o, q \in VrRenderers : vr_drawable'[o] # NoVr /\ vr_drawable'[q] # NoVr => o = q
    BY <1>1, <2>1 DEF FramesEnd
  <2> QED
    BY <2>2, <2>4, <2>5, <2>6 DEF FramesEnd
<1>6. SessionEvents'
  BY SessionKept
<1> QED
  BY <1>2, <1>4, <1>5, <1>6 DEF VrInv

LEMMA WaitFramePreserves ==
  ASSUME VrInv, NEW r \in VrRenderers, WaitFrame(r)
  PROVE  VrInv'
<1>1. /\ vr_pc[r] = "wait_frame"
      /\ UNCHANGED <<session_state, running, xr_events, frame_begun, xr_acquired, is_focused,
                     vr_image_index, vr_image_locks, external_swapchain_images,
                     cur_swapchain_image, vr_drawable, kept, overlapped>>
  BY DEF WaitFrame, vr_history
<1>2. PICK to \in {"begin_frame", "no_image"} : vr_pc' = [vr_pc EXCEPT ![r] = to]
  BY DEF WaitFrame, VrGo
<1>3. vr_errors' \in Nat /\ (vr_errors' = 0 => vr_errors = 0)
  BY DEF WaitFrame, NoError, VrFails, VrInv, VrTypes
<1>4. ASSUME FrameStage(r) PROVE FrameStage(r)'
  <2>1. ~frame_begun /\ xr_acquired = <<>>
    BY <1>1, <1>4 DEF FrameStage
  <2>2. ~frame_begun' /\ xr_acquired' = <<>> /\ vr_pc'[r] = to
    BY <1>1, <1>2, <2>1 DEF VrInv, VrTypes
  <2> QED
    BY <1>2, <2>2 DEF FrameStage
<1> QED
  BY <1>1, <1>2, <1>3, <1>4, FrameGoesOn DEF VrPlaces, VrInv, VrTypes

LEMMA BeginFramePreserves ==
  ASSUME VrInv, NEW r \in VrRenderers, BeginFrame(r)
  PROVE  VrInv'
<1>1. /\ vr_pc[r] = "begin_frame"
      /\ UNCHANGED <<session_state, running, xr_events, xr_acquired, is_focused, vr_image_index,
                     vr_image_locks, external_swapchain_images, cur_swapchain_image,
                     cur_should_render, vr_drawable, kept, overlapped>>
  BY DEF BeginFrame, current, vr_history
<1> DEFINE next == IF ~frame_begun /\ cur_should_render THEN "views" ELSE "no_image"
           Begun == vr_pc' = [vr_pc EXCEPT ![r] = next]
           Failed == vr_pc' = [vr_pc EXCEPT ![r] = "no_image"] /\ frame_begun' = frame_begun
<1>5. Begun \/ Failed
  BY Zenon DEF BeginFrame, VrGo, frame
<1>6. vr_errors' \in Nat /\ (vr_errors' = 0 => vr_errors = 0)
  BY DEF BeginFrame, NoError, VrFails, VrInv, VrTypes
<1>2. PICK to \in {"views", "no_image"} : vr_pc' = [vr_pc EXCEPT ![r] = to]
  BY <1>5
<1>3. vr_pc'[r] = to
  BY <1>2 DEF VrInv, VrTypes
<1>4. ASSUME FrameStage(r) PROVE FrameStage(r)'
  <2>1. ~frame_begun /\ xr_acquired = <<>>
    BY <1>1, <1>4 DEF FrameStage
  <2>2. CASE Begun
    <3>1. vr_pc' = [vr_pc EXCEPT ![r] = IF ~frame_begun /\ cur_should_render
                                        THEN "views" ELSE "no_image"]
      BY <2>2
    <3>2. vr_pc'[r] = IF ~frame_begun /\ cur_should_render THEN "views" ELSE "no_image"
      BY <3>1 DEF VrInv, VrTypes
    <3>3. /\ to = "views" => cur_should_render
          /\ to = "no_image" => ~cur_should_render
      BY <1>3, <2>1, <3>2
    <3> QED
      BY <1>1, <1>2, <1>3, <2>1, <3>3 DEF FrameStage
  <2>3. CASE Failed
    <3>1. vr_pc' = [vr_pc EXCEPT ![r] = "no_image"] /\ frame_begun' = frame_begun
      BY <2>3
    <3>2. vr_pc'[r] = "no_image"
      BY <3>1 DEF VrInv, VrTypes
    <3> QED
      BY <1>1, <2>1, <3>1, <3>2 DEF FrameStage
  <2> QED
    BY <1>5, <2>2, <2>3
<1> HIDE DEF next, Begun, Failed
<1> QED
  BY <1>1, <1>2, <1>4, <1>6, FrameGoesOn DEF VrPlaces, VrInv, VrTypes

LEMMA AcquireSwapchainImagePreserves ==
  ASSUME VrInv, NEW r \in VrRenderers, AcquireSwapchainImage(r)
  PROVE  VrInv'
<1> DEFINE free == VrImageIds \ {xr_acquired[n] : n \in DOMAIN xr_acquired}
<1>1. /\ vr_pc[r] = "views"
      /\ UNCHANGED <<session_state, running, xr_events, frame_begun, is_focused, vr_image_index,
                     vr_image_locks, external_swapchain_images, cur_swapchain_image,
                     cur_should_render, vr_drawable, kept, overlapped>>
  BY DEF AcquireSwapchainImage, frame, current, vr_history
<1>2. \/ \E i \in free :
           /\ xr_acquired' = Append(xr_acquired, i)
           /\ vr_pc' = [vr_pc EXCEPT ![r] = "wait_image"] /\ vr_errors' = vr_errors
      \/ /\ vr_errors' = IF free = {} THEN vr_errors ELSE vr_errors + 1
         /\ vr_pc' = [vr_pc EXCEPT ![r] = "no_image"] /\ xr_acquired' = xr_acquired
  BY DEF AcquireSwapchainImage, VrGo, NoError
<1>3. vr_errors \in Nat /\ xr_acquired \in Seq(VrImageIds)
  BY DEF VrInv, VrTypes
<1>4. CASE \E i \in free :
             /\ xr_acquired' = Append(xr_acquired, i)
             /\ vr_pc' = [vr_pc EXCEPT ![r] = "wait_image"] /\ vr_errors' = vr_errors
  <2>1. PICK i \in VrImageIds :
          /\ xr_acquired' = Append(xr_acquired, i)
          /\ vr_pc' = [vr_pc EXCEPT ![r] = "wait_image"] /\ vr_errors' = vr_errors
    BY <1>4
  <2>2. /\ vr_pc'[r] = "wait_image" /\ xr_acquired' \in Seq(VrImageIds)
        /\ xr_acquired = <<>> => Len(xr_acquired') = 1
    BY <1>3, <2>1 DEF VrInv, VrTypes
  <2>3. FrameStage(r) => FrameStage(r)'
    BY <1>1, <2>2 DEF FrameStage
  <2> QED
    BY <1>1, <1>3, <2>1, <2>2, <2>3, FrameGoesOn DEF VrPlaces, VrInv, VrTypes
<1>5. CASE /\ vr_errors' = IF free = {} THEN vr_errors ELSE vr_errors + 1
           /\ vr_pc' = [vr_pc EXCEPT ![r] = "no_image"] /\ xr_acquired' = xr_acquired
  <2>1. xr_acquired = <<>> => free # {}
    BY VrAssumption DEF VrImageIds
  <2>2. vr_errors' \in Nat /\ (vr_errors' = 0 => vr_errors = 0)
    BY <1>3, <1>5
  <2>3. ~(Calm' /\ FrameStage(r))
    BY <1>1, <1>3, <1>5, <2>1 DEF Calm, FrameStage
  <2> QED
    BY <1>1, <1>3, <1>5, <2>2, <2>3, FrameGoesOn DEF VrPlaces, VrInv, VrTypes
<1> QED
  BY <1>2, <1>4, <1>5

LEMMA WaitSwapchainImagePreserves ==
  ASSUME VrInv, NEW r \in VrRenderers, WaitSwapchainImage(r)
  PROVE  VrInv'
<1> DEFINE i == xr_acquired[Len(xr_acquired)]
<1>1. /\ vr_pc[r] = "wait_image"
      /\ UNCHANGED <<session_state, running, xr_events, frame_begun, xr_acquired, is_focused,
                     vr_image_index, vr_image_locks, cur_should_render, vr_drawable, kept,
                     overlapped>>
  BY DEF WaitSwapchainImage, runtime, vr_history
<1>2. \/ /\ vr_errors' = vr_errors /\ cur_swapchain_image' = i
         /\ external_swapchain_images' =
              [external_swapchain_images EXCEPT ![vr_drawable[r]] = i]
         /\ vr_pc' = [vr_pc EXCEPT ![r] = "acquired"]
      \/ /\ vr_errors' = vr_errors + 1
         /\ vr_pc' = [vr_pc EXCEPT ![r] = "no_image"]
         /\ external_swapchain_images' = external_swapchain_images
  BY DEF WaitSwapchainImage, VrGo, VrFails, NoError
<1>3. /\ vr_errors \in Nat /\ DOMAIN external_swapchain_images = VrImageIds
      /\ vr_drawable[r] \in VrImageIds
  BY <1>1 DEF VrInv, VrTypes, ImageLocks
<1>4. CASE /\ vr_errors' = vr_errors /\ cur_swapchain_image' = i
           /\ external_swapchain_images' =
                [external_swapchain_images EXCEPT ![vr_drawable[r]] = i]
           /\ vr_pc' = [vr_pc EXCEPT ![r] = "acquired"]
  <2>1. /\ vr_pc'[r] = "acquired" /\ DOMAIN external_swapchain_images' = VrImageIds
        /\ external_swapchain_images'[vr_drawable'[r]] = cur_swapchain_image'
    BY <1>1, <1>3, <1>4 DEF VrInv, VrTypes
  <2>2. FrameStage(r) => FrameStage(r)'
    BY <1>1, <2>1 DEF FrameStage
  <2> QED
    BY <1>1, <1>3, <1>4, <2>1, <2>2, FrameGoesOn DEF VrPlaces, VrInv, VrTypes
<1>5. CASE /\ vr_errors' = vr_errors + 1
           /\ vr_pc' = [vr_pc EXCEPT ![r] = "no_image"]
           /\ external_swapchain_images' = external_swapchain_images
  <2>1. vr_errors' \in Nat \ {0}
    BY <1>3, <1>5
  <2> QED
    BY <1>1, <1>3, <1>5, <2>1, FrameGoesOn DEF VrPlaces, VrInv, VrTypes, Calm
<1> QED
  BY <1>2, <1>4, <1>5

LEMMA PresentPreserves ==
  ASSUME VrInv, NEW r \in VrRenderers, Present(r)
  PROVE  VrInv'
<1>1. /\ vr_pc[r] = "acquired"
      /\ UNCHANGED <<session_state, running, xr_events, frame_begun, xr_acquired, is_focused,
                     vr_image_index, vr_image_locks, external_swapchain_images,
                     cur_swapchain_image, cur_should_render, vr_drawable, kept, overlapped,
                     vr_errors>>
  BY DEF Present, runtime, current, vr_history, vr_bounds
<1> DEFINE to == IF external_swapchain_images[vr_drawable[r]] # cur_swapchain_image
                 THEN "unlock"
                 ELSE IF cur_should_render THEN "release" ELSE "end_frame"
<1>2. vr_pc' = [vr_pc EXCEPT ![r] = to]
  BY DEF Present, VrGo
<1>3. vr_pc'[r] = to
  BY <1>2 DEF VrInv, VrTypes
<1>4. to \in VrPlaces \ {"idle", "lock", "image_lock"}
  BY DEF VrPlaces
<1>5. FrameStage(r) => to = "release" /\ Len(xr_acquired) = 1
  BY <1>1 DEF FrameStage
<1>6. FrameStage(r) => FrameStage(r)'
  BY <1>1, <1>3, <1>5 DEF FrameStage
<1> HIDE DEF to
<1> QED
  BY <1>1, <1>2, <1>4, <1>6, FrameGoesOn DEF VrInv, VrTypes

LEMMA ReleaseSwapchainImagePreserves ==
  ASSUME VrInv, NEW r \in VrRenderers, ReleaseSwapchainImage(r)
  PROVE  VrInv'
<1>1. /\ vr_pc[r] = "release"
      /\ UNCHANGED <<session_state, running, xr_events, frame_begun, is_focused, vr_image_index,
                     vr_image_locks, external_swapchain_images, cur_swapchain_image,
                     cur_should_render, vr_drawable, kept, overlapped>>
  BY DEF ReleaseSwapchainImage, frame, current, vr_history
<1>2. \/ /\ xr_acquired # <<>> /\ xr_acquired' = Tail(xr_acquired)
         /\ vr_pc' = [vr_pc EXCEPT ![r] = "end_frame"] /\ vr_errors' = vr_errors
      \/ /\ vr_errors' = IF xr_acquired = <<>> THEN vr_errors ELSE vr_errors + 1
         /\ vr_pc' = [vr_pc EXCEPT ![r] = "unlock"] /\ xr_acquired' = xr_acquired
  BY DEF ReleaseSwapchainImage, VrGo, NoError
<1>3. vr_errors \in Nat /\ xr_acquired \in Seq(VrImageIds)
  BY DEF VrInv, VrTypes
<1>4. CASE /\ xr_acquired # <<>> /\ xr_acquired' = Tail(xr_acquired)
           /\ vr_pc' = [vr_pc EXCEPT ![r] = "end_frame"] /\ vr_errors' = vr_errors
  <2>1. /\ vr_pc'[r] = "end_frame" /\ xr_acquired' \in Seq(VrImageIds)
        /\ Len(xr_acquired) = 1 => xr_acquired' = <<>>
    BY <1>3, <1>4 DEF VrInv, VrTypes
  <2>2. FrameStage(r) => FrameStage(r)'
    BY <1>1, <2>1 DEF FrameStage
  <2> QED
    BY <1>1, <1>3, <1>4, <2>1, <2>2, FrameGoesOn DEF VrPlaces, VrInv, VrTypes
<1>5. CASE /\ vr_errors' = IF xr_acquired = <<>> THEN vr_errors ELSE vr_errors + 1
           /\ vr_pc' = [vr_pc EXCEPT ![r] = "unlock"] /\ xr_acquired' = xr_acquired
  <2>1. vr_errors' \in Nat /\ (vr_errors' = 0 => vr_errors = 0)
    BY <1>3, <1>5
  <2>2. FrameStage(r) => Len(xr_acquired) = 1
    BY <1>1 DEF FrameStage
  <2>3. Len(xr_acquired) = 1 => xr_acquired # <<>>
    OBVIOUS
  <2>4. xr_acquired # <<>> => vr_errors' # 0
    BY <1>3, <1>5
  <2>5. ~(Calm' /\ FrameStage(r))
    BY <2>2, <2>3, <2>4 DEF Calm
  <2> QED
    BY <1>1, <1>3, <1>5, <2>1, <2>5, FrameGoesOn DEF VrPlaces, VrInv, VrTypes
<1> QED
  BY <1>2, <1>4, <1>5

LEMMA EndFramePreserves ==
  ASSUME VrInv, NEW r \in VrRenderers, EndFrame(r)
  PROVE  VrInv'
<1>1. /\ vr_pc[r] = "end_frame" /\ vr_pc' = [vr_pc EXCEPT ![r] = "unlock"]
      /\ UNCHANGED <<session_state, running, xr_events, xr_acquired, is_focused, vr_image_index,
                     vr_image_locks, external_swapchain_images, vr_drawable, kept, overlapped,
                     vr_errors>>
  BY DEF EndFrame, VrGo, current, vr_history, vr_bounds
<1>2. ~frame_begun'
  BY DEF EndFrame
<1>3. vr_pc'[r] = "unlock"
  BY <1>1 DEF VrInv, VrTypes
<1>4. FrameStage(r) => FrameStage(r)'
  BY <1>1, <1>2, <1>3 DEF FrameStage
<1> QED
  BY <1>1, <1>4, FrameGoesOn DEF VrPlaces, VrInv, VrTypes

(* A frame ends, without an image or presented.                            *)
LEMMA FrameIsGone ==
  ASSUME VrInv, NEW r \in VrRenderers, vr_drawable[r] # NoVr,
         vr_pc' = [vr_pc EXCEPT ![r] = "idle"],
         vr_drawable' = [vr_drawable EXCEPT ![r] = NoVr],
         UNCHANGED <<session_state, running, xr_events, is_focused, xr_acquired, vr_image_index,
                     external_swapchain_images, overlapped>>,
         vr_errors' \in Nat, vr_errors' = 0 => vr_errors = 0,
         vr_image_locks' \in [VrImageIds -> BOOLEAN], kept' \subseteq VrImageIds,
         \/ /\ vr_image_locks' = vr_image_locks
            /\ kept' = kept \cup {vr_drawable[r]}
         \/ /\ vr_image_locks' = [vr_image_locks EXCEPT ![vr_drawable[r]] = FALSE]
            /\ kept' = kept,
         Calm /\ Calm' /\ FrameStage(r) => ~frame_begun' /\ xr_acquired = <<>>
  PROVE  VrInv'
<1>1. VrTypes /\ ImageLocks /\ FramesEnd
  BY DEF VrInv
<1>2. VrTypes'
  BY <1>1 DEF VrTypes, VrPlaces
<1>3. /\ vr_pc'[r] = "idle" /\ vr_drawable'[r] = NoVr
      /\ \A o \in VrRenderers : o # r => vr_pc'[o] = vr_pc[o] /\ vr_drawable'[o] = vr_drawable[o]
  BY <1>1 DEF VrTypes
<1>4. vr_drawable[r] \in VrImageIds /\ NoVr \notin VrImageIds
  BY <1>1, VrAssumption DEF VrTypes, VrImageIds
<1>5. \A o \in VrRenderers : o # r => vr_drawable'[o] # vr_drawable[r]
  BY <1>1, <1>3, <1>4 DEF ImageLocks
<1>6. ImageLocks'
  <2>1. \A o \in VrRenderers :
          vr_drawable'[o] = NoVr <=> vr_pc'[o] \in {"idle", "lock", "image_lock"}
    BY <1>1, <1>3 DEF ImageLocks
  <2>2. \A o, q \in VrRenderers :
          vr_drawable'[o] # NoVr /\ vr_drawable'[o] = vr_drawable'[q] => o = q
    BY <1>1, <1>3 DEF ImageLocks
  <2>3. \A o \in VrRenderers : vr_drawable'[o] \notin kept'
    BY <1>1, <1>3, <1>4, <1>5 DEF ImageLocks
  <2>4. \A i \in VrImageIds :
          vr_image_locks'[i] <=> (\E o \in VrRenderers : vr_drawable'[o] = i) \/ i \in kept'
    <3> SUFFICES ASSUME NEW i \in VrImageIds
                 PROVE  vr_image_locks'[i]
                          <=> (\E o \in VrRenderers : vr_drawable'[o] = i) \/ i \in kept'
      OBVIOUS
    <3>1. vr_image_locks[i] <=> (\E o \in VrRenderers : vr_drawable[o] = i) \/ i \in kept
      BY <1>1 DEF ImageLocks
    <3>2. CASE i = vr_drawable[r]
      <4>1. ~\E o \in VrRenderers : vr_drawable'[o] = i
        BY <1>3, <1>4, <1>5, <3>2
      <4>2. vr_image_locks[i] /\ i \notin kept
        BY <1>1, <3>1, <3>2 DEF ImageLocks
      <4>3. CASE vr_image_locks' = vr_image_locks /\ kept' = kept \cup {vr_drawable[r]}
        BY <3>2, <4>1, <4>2, <4>3
      <4>4. CASE /\ vr_image_locks' = [vr_image_locks EXCEPT ![vr_drawable[r]] = FALSE]
                 /\ kept' = kept
        <5>1. vr_image_locks'[i] = FALSE
          BY <1>1, <3>2, <4>4 DEF VrTypes
        <5> QED
          BY <4>1, <4>2, <4>4, <5>1
      <4> QED
        BY <4>3, <4>4
    <3>3. CASE i # vr_drawable[r]
      <4>1. (\E o \in VrRenderers : vr_drawable'[o] = i)
              <=> \E o \in VrRenderers : vr_drawable[o] = i
        BY <1>3, <1>4, <3>3
      <4>2. vr_image_locks'[i] = vr_image_locks[i] /\ (i \in kept' <=> i \in kept)
        BY <1>1, <3>3 DEF VrTypes
      <4> QED
        BY <3>1, <4>1, <4>2
    <3> QED
      BY <3>2, <3>3
  <2> QED
    BY <2>1, <2>2, <2>3, <2>4 DEF ImageLocks
<1>7. FramesEnd'
  <2> SUFFICES ASSUME Calm' PROVE FramesEnd'
    BY DEF FramesEnd
  <2>1. Calm
    BY DEF Calm
  <2>2. \A o \in VrRenderers : vr_drawable'[o] = NoVr
    BY <1>1, <1>3, <2>1 DEF FramesEnd
  <2>3. \A o \in VrRenderers : vr_pc'[o] \in {"idle", "lock", "image_lock"}
    BY <1>6, <2>2 DEF ImageLocks
  <2>4. ~frame_begun' /\ xr_acquired' = <<>>
    BY <1>1, <2>1 DEF FramesEnd
  <2>5. \A o \in VrRenderers : FrameStage(o)'
    BY <2>3 DEF FrameStage
  <2> QED
    BY <2>2, <2>4, <2>5 DEF FramesEnd
<1>8. SessionEvents'
  BY SessionKept
<1> QED
  BY <1>2, <1>6, <1>7, <1>8 DEF VrInv

LEMMA NoImagePreserves ==
  ASSUME VrInv, NEW r \in VrRenderers, NoImage(r)
  PROVE  VrInv'
<1>1. /\ vr_pc[r] = "no_image"
      /\ vr_pc' = [vr_pc EXCEPT ![r] = "idle"]
      /\ vr_drawable' = [vr_drawable EXCEPT ![r] = NoVr]
      /\ kept' = kept \cup {vr_drawable[r]}
      /\ UNCHANGED <<session_state, running, xr_events, is_focused, xr_acquired, vr_image_index,
                     vr_image_locks, external_swapchain_images, cur_should_render, overlapped,
                     vr_errors>>
  BY DEF NoImage, VrGo, current, vr_bounds
<1>2. frame_begun' = FALSE \/ frame_begun' = (frame_begun /\ cur_should_render)
  BY Zenon DEF NoImage
<1>3. frame_begun' => frame_begun /\ cur_should_render
  BY <1>2, Zenon
<1>4. FrameStage(r) => ~frame_begun' /\ xr_acquired = <<>>
  BY <1>1, <1>3 DEF FrameStage
<1>5. vr_drawable[r] # NoVr /\ vr_drawable[r] \in VrImageIds
  BY <1>1 DEF VrInv, ImageLocks, VrTypes
<1> QED
  BY <1>1, <1>4, <1>5, FrameIsGone DEF VrInv, VrTypes

LEMMA GiveUpFramePreserves ==
  ASSUME VrInv, NEW r \in VrRenderers, GiveUpFrame(r)
  PROVE  VrInv'
<1>1. /\ vr_pc[r] = "acquired"
      /\ vr_pc' = [vr_pc EXCEPT ![r] = "idle"]
      /\ vr_drawable' = [vr_drawable EXCEPT ![r] = NoVr]
      /\ kept' = kept \cup {vr_drawable[r]}
      /\ UNCHANGED <<session_state, running, xr_events, is_focused, frame_begun, xr_acquired,
                     vr_image_index, vr_image_locks, external_swapchain_images, overlapped>>
  BY DEF GiveUpFrame, VrGo, runtime, current
<1>2. vr_errors' \in Nat /\ vr_errors' # 0
  BY DEF GiveUpFrame, VrFails, VrInv, VrTypes
<1>3. vr_drawable[r] # NoVr /\ vr_drawable[r] \in VrImageIds
  BY <1>1 DEF VrInv, ImageLocks, VrTypes
<1>4. ~Calm'
  BY <1>2 DEF Calm
<1> QED
  BY <1>1, <1>2, <1>3, <1>4, FrameIsGone DEF VrInv, VrTypes

LEMMA UnlockImagePreserves ==
  ASSUME VrInv, NEW r \in VrRenderers, UnlockImage(r)
  PROVE  VrInv'
<1>1. /\ vr_pc[r] = "unlock"
      /\ vr_pc' = [vr_pc EXCEPT ![r] = "idle"]
      /\ vr_drawable' = [vr_drawable EXCEPT ![r] = NoVr]
      /\ vr_image_locks' = [vr_image_locks EXCEPT ![vr_drawable[r]] = FALSE]
      /\ UNCHANGED <<session_state, running, xr_events, is_focused, frame_begun, xr_acquired,
                     vr_image_index, external_swapchain_images, kept, overlapped, vr_errors>>
  BY DEF UnlockImage, VrGo, runtime, current, vr_history, vr_bounds
<1>2. FrameStage(r) => ~frame_begun' /\ xr_acquired = <<>>
  BY <1>1 DEF FrameStage
<1>3. vr_drawable[r] # NoVr /\ vr_drawable[r] \in VrImageIds
  BY <1>1 DEF VrInv, ImageLocks, VrTypes
<1>4. vr_image_locks' \in [VrImageIds -> BOOLEAN]
  BY <1>1 DEF VrInv, VrTypes
<1> QED
  BY <1>1, <1>2, <1>3, <1>4, FrameIsGone DEF VrInv, VrTypes

(* On the way to the image, and when nothing happens. *)
LEMMA NoFrameSteps ==
  ASSUME VrInv,
         UNCHANGED <<session_state, running, xr_events, is_focused, frame_begun, xr_acquired,
                     vr_image_locks, external_swapchain_images, cur_swapchain_image,
                     cur_should_render, vr_drawable, kept, overlapped, vr_errors>>,
         vr_image_index' \in VrImageIds, vr_pc' \in [VrRenderers -> VrPlaces],
         \A r \in VrRenderers :
           \/ vr_pc'[r] = vr_pc[r]
           \/ {vr_pc[r], vr_pc'[r]} \subseteq {"idle", "lock", "image_lock"}
  PROVE  VrInv'
<1>1. VrTypes /\ FramesEnd
  BY DEF VrInv
<1>2. VrTypes'
  BY <1>1 DEF VrTypes
<1>3. ImageLocks'
  BY ImagesKept
<1>4. \A r \in VrRenderers : FrameStage(r) => FrameStage(r)'
  BY DEF FrameStage
<1>5. FramesEnd'
  BY <1>1, <1>4 DEF FramesEnd, Calm
<1>6. SessionEvents'
  BY SessionKept
<1> QED
  BY <1>2, <1>3, <1>5, <1>6 DEF VrInv

LEMMA VrPreserved == VrInv /\ [VrNext]_vrVars => VrInv'
<1> SUFFICES ASSUME VrInv, [VrNext]_vrVars PROVE VrInv'
  OBVIOUS
<1>1. VrTypes
  BY DEF VrInv
<1>2. ASSUME NEW r \in VrRenderers, VrAcquire(r)
      PROVE  VrInv'
  <2>1. /\ vr_pc[r] = "idle" /\ vr_pc' = [vr_pc EXCEPT ![r] = "lock"]
        /\ UNCHANGED <<session_state, running, xr_events, is_focused, frame_begun, xr_acquired,
                       vr_image_index, vr_image_locks, external_swapchain_images,
                       cur_swapchain_image, cur_should_render, vr_drawable, kept, overlapped,
                       vr_errors>>
    BY <1>2 DEF VrAcquire, VrGo, runtime, current, vr_history
  <2> QED
    BY <1>1, <2>1, NoFrameSteps DEF VrTypes, VrPlaces
<1>3. ASSUME NEW r \in VrRenderers, VrLock(r)
      PROVE  VrInv'
  <2>1. /\ vr_pc[r] = "lock" /\ vr_pc' = [vr_pc EXCEPT ![r] = "image_lock"]
        /\ vr_image_index' = (vr_image_index + 1) % VrImages
        /\ UNCHANGED <<session_state, running, xr_events, is_focused, frame_begun, xr_acquired,
                       vr_image_locks, external_swapchain_images, cur_swapchain_image,
                       cur_should_render, vr_drawable, kept, overlapped, vr_errors>>
    BY <1>3 DEF VrLock, VrGo, runtime, current, vr_history, vr_bounds
  <2>2. vr_image_index' \in VrImageIds
    BY <1>1, <2>1, VrAssumption DEF VrTypes, VrImageIds
  <2> QED
    BY <1>1, <2>1, <2>2, NoFrameSteps DEF VrTypes, VrPlaces
<1>4. ASSUME NEW r \in VrRenderers, VrStep(r)
      PROVE  VrInv'
  BY <1>4, LockImagePreserves, WaitFramePreserves, BeginFramePreserves,
     AcquireSwapchainImagePreserves, WaitSwapchainImagePreserves, NoImagePreserves,
     GiveUpFramePreserves,
     PresentPreserves, ReleaseSwapchainImagePreserves, EndFramePreserves, UnlockImagePreserves
     DEF VrStep
<1>5. ASSUME UNCHANGED vrVars
      PROVE  VrInv'
  <2>1. UNCHANGED <<session_state, running, xr_events, is_focused, frame_begun, xr_acquired,
                    vr_image_index, vr_image_locks, external_swapchain_images,
                    cur_swapchain_image, cur_should_render, vr_pc, vr_drawable, kept, overlapped,
                    vr_errors>>
    BY <1>5 DEF vrVars, runtime, current, vr_history, vr_bounds
  <2> QED
    BY <1>1, <2>1, NoFrameSteps DEF VrTypes
<1> QED
  BY <1>2, <1>3, <1>4, <1>5, SessionChangesPreserves, PollEventPreserves DEF VrNext

(* VrSessionIsSound: the lock of an image of a VR session is held by the   *)
(* one frame that uses it, or was kept by an acquisition that returned no  *)
(* image or a renderer that gave up; unless frames overlap or a call of the runtime fails, a frame    *)
(* that was begun is ended and its image released before the next one is   *)
(* acquired, whenever the session ends; and input has the focus only while *)
(* the session runs. For any renderers, images, and order of the events.   *)
THEOREM VrFramesAreEnded == VrSpec => []VrSessionIsSound
<1>1. VrInv => VrSessionIsSound
  <2> SUFFICES ASSUME VrInv PROVE VrSessionIsSound
    OBVIOUS
  <2>1. VrLockMatchesFrame
    <3> SUFFICES ASSUME NEW i \in VrImageIds
                 PROVE  LET users == {r \in VrRenderers : vr_drawable[r] = i} IN
                        /\ Cardinality(users) + Cardinality({i} \cap kept) <= 1
                        /\ vr_image_locks[i] <=> (users # {} \/ i \in kept)
      BY Zenon DEF VrLockMatchesFrame
    <3> DEFINE users == {r \in VrRenderers : vr_drawable[r] = i}
               keeps == {i} \cap kept
    <3>1. i # NoVr
      BY VrAssumption DEF VrImageIds
    <3>2. \A r, o \in users : r = o
      BY <3>1 DEF VrInv, ImageLocks
    <3>3. users = {} \/ keeps = {}
      BY DEF VrInv, ImageLocks
    <3>4. keeps = {} \/ keeps = {i}
      OBVIOUS
    <3>5. vr_image_locks[i] <=> (users # {} \/ i \in kept)
      BY DEF VrInv, ImageLocks
    <3>6. Cardinality({}) = 0 /\ \A x : Cardinality({x}) = 1
      BY FS_EmptySet, FS_Singleton
    <3> HIDE DEF users, keeps
    <3>7. users = {} \/ \E x : users = {x}
      BY <3>2
    <3>8. /\ users = {} => Cardinality(users) = 0
          /\ keeps = {} => Cardinality(keeps) = 0
          /\ Cardinality(users) = 0 \/ Cardinality(users) = 1
          /\ Cardinality(keeps) = 0 \/ Cardinality(keeps) = 1
      BY <3>4, <3>6, <3>7, Zenon
    <3>9. Cardinality(users) + Cardinality(keeps) <= 1
      BY <3>3, <3>8
    <3> QED
      BY <3>5, <3>9 DEF users, keeps
  <2>2. FramesAreEnded
    BY DEF VrInv, FramesEnd, Calm, FramesAreEnded
  <2>3. FocusMeansRunning
    BY DEF VrInv, SessionEvents, FocusMeansRunning
  <2> QED
    BY <2>1, <2>2, <2>3 DEF VrSessionIsSound
<1> QED
  BY <1>1, VrInitially, VrPreserved, PTL DEF VrSpec

-----------------------------------------------------------------------------
(* Universal binaries                                                      *)

BuildTypes ==
  /\ targets \in Seq(case.targets) /\ remaining_targets \in Seq(DOMAIN targets)
  /\ targets_prog_data \in [DOMAIN targets -> case.targets \cup {Nothing}]
  /\ remaining_compile_jobs \in Nat
  /\ job \in [Workers -> {"none", "check", "take", "compile", "store", "end", "thrown"}]
  /\ build_target \in [Workers -> Nat]
  /\ main \in {"spawn", "wait", "load", "done", "failed"}

(* A task counts from when it is spawned until it has counted itself down, *)
(* which one that an exception ended never does.                           *)
Busy == {w \in Workers : job[w] # "none"}
JobsCounted ==
  /\ main = "spawn" => Busy = {} /\ remaining_compile_jobs = JobCount
  /\ main = "wait" => remaining_compile_jobs = Cardinality(Busy)
  /\ main \in {"load", "done", "failed"} => Busy = {}

(* A result is stored with the target it was compiled for.                 *)
ResultsInPlace ==
  /\ \A w \in Workers : job[w] \in {"compile", "store"} => build_target[w] \in DOMAIN targets
  /\ \A n \in DOMAIN targets : targets_prog_data[n] \in {Nothing, targets[n]}
  /\ main \in {"load", "done"} => archive = targets

BuildInv == BuildTypes /\ JobsCounted /\ ResultsInPlace

LEMMA BuildInitially == BuildInit => BuildInv
<1> SUFFICES ASSUME BuildInit PROVE BuildInv
  OBVIOUS
<1>1. /\ case \in BuildCases \cup LoadCases /\ main \in {"spawn", "load"}
      /\ targets \in Orders(case.targets) /\ remaining_targets = Indices
      /\ targets_prog_data = [n \in 1..Len(targets) |-> Nothing]
      /\ remaining_compile_jobs = JobCount
      /\ job = [w \in Workers |-> "none"] /\ build_target = [w \in Workers |-> 0]
      /\ main = "load" => archive = targets
  BY DEF BuildInit
<1>2. Cardinality(case.targets) \in Nat
  BY <1>1, UniversalBinaryAssumption, FS_CardinalityType
<1>3. targets \in [1..Cardinality(case.targets) -> case.targets]
  BY <1>1 DEF Orders
<1>4. targets \in Seq(case.targets) /\ Len(targets) \in Nat /\ DOMAIN targets = 1..Len(targets)
  BY <1>2, <1>3
<1>5. remaining_targets \in Seq(DOMAIN targets)
  BY <1>1, <1>4 DEF Indices
<1>6. Cardinality(Workers) \in Nat
  BY UniversalBinaryAssumption, FS_CardinalityType
<1>7. remaining_compile_jobs \in Nat
  BY <1>1, <1>4, <1>6 DEF JobCount
<1>8. BuildTypes
  BY <1>1, <1>4, <1>5, <1>7 DEF BuildTypes
<1>9. JobsCounted
  BY <1>1 DEF JobsCounted, Busy
<1>10. ResultsInPlace
  BY <1>1, <1>4 DEF ResultsInPlace
<1> QED
  BY <1>8, <1>9, <1>10 DEF BuildInv

(* A step of a task that stays busy. *)
LEMMA TaskGoesOn ==
  ASSUME BuildInv, NEW w \in Workers, NEW to \in {"check", "take", "compile", "store", "end", "thrown"},
         job[w] # "none", job' = [job EXCEPT ![w] = to],
         remaining_targets' \in Seq(DOMAIN targets),
         targets_prog_data' \in [DOMAIN targets -> case.targets \cup {Nothing}],
         \A n \in DOMAIN targets : targets_prog_data'[n] \in {Nothing, targets[n]},
         build_target' \in [Workers -> Nat],
         \A o \in Workers : o # w => build_target'[o] = build_target[o],
         to \in {"compile", "store"} => build_target'[w] \in DOMAIN targets,
         UNCHANGED <<case, targets, remaining_compile_jobs, main, archive>>
  PROVE  BuildInv'
<1>1. BuildTypes /\ JobsCounted /\ ResultsInPlace
  BY DEF BuildInv
<1>2. job'[w] = to /\ \A o \in Workers : o # w => job'[o] = job[o]
  BY <1>1 DEF BuildTypes
<1>3. Busy' = Busy
  BY <1>2 DEF Busy
<1>4. BuildTypes'
  BY <1>1 DEF BuildTypes
<1>5. JobsCounted'
  BY <1>1, <1>3 DEF JobsCounted, JobCount
<1>6. ResultsInPlace'
  BY <1>1, <1>2 DEF ResultsInPlace
<1> QED
  BY <1>4, <1>5, <1>6 DEF BuildInv

LEMMA TakeTargetPreserves ==
  ASSUME BuildInv, NEW w \in Workers, TakeTarget(w)
  PROVE  BuildInv'
<1>1. BuildTypes /\ ResultsInPlace
  BY DEF BuildInv
<1>2. /\ job[w] = "take"
      /\ UNCHANGED <<case, targets, targets_prog_data, remaining_compile_jobs, main, archive>>
  BY DEF TakeTarget
<1>3. CASE remaining_targets = <<>>
  <2>1. /\ job' = [job EXCEPT ![w] = "end"]
        /\ UNCHANGED <<remaining_targets, build_target>>
    BY <1>3 DEF TakeTarget, Does
  <2> QED
    BY <1>1, <1>2, <2>1, TaskGoesOn DEF BuildTypes, ResultsInPlace
<1>4. CASE remaining_targets # <<>>
  <2>1. /\ job' = [job EXCEPT ![w] = "compile"]
        /\ build_target' = [build_target EXCEPT ![w] = Head(remaining_targets)]
        /\ remaining_targets' = Tail(remaining_targets)
    BY <1>4 DEF TakeTarget, Does
  <2>2. /\ Head(remaining_targets) \in DOMAIN targets
        /\ remaining_targets' \in Seq(DOMAIN targets)
    BY <1>1, <1>4, <2>1 DEF BuildTypes
  <2>3. DOMAIN targets \subseteq Nat
    BY <1>1 DEF BuildTypes
  <2>4. /\ build_target' \in [Workers -> Nat] /\ build_target'[w] \in DOMAIN targets
        /\ \A o \in Workers : o # w => build_target'[o] = build_target[o]
    BY <1>1, <2>1, <2>2, <2>3 DEF BuildTypes
  <2> QED
    BY <1>1, <1>2, <2>1, <2>2, <2>4, TaskGoesOn DEF BuildTypes, ResultsInPlace
<1> QED
  BY <1>3, <1>4

LEMMA StoreProgramPreserves ==
  ASSUME BuildInv, NEW w \in Workers, StoreProgram(w)
  PROVE  BuildInv'
<1>1. BuildTypes /\ ResultsInPlace
  BY DEF BuildInv
<1>2. /\ job[w] = "store" /\ job' = [job EXCEPT ![w] = "check"]
      /\ targets_prog_data' =
           [targets_prog_data EXCEPT ![build_target[w]] = targets[build_target[w]]]
      /\ UNCHANGED <<case, targets, remaining_targets, remaining_compile_jobs, build_target,
                     main, archive>>
  BY DEF StoreProgram, Does
<1>3. build_target[w] \in DOMAIN targets /\ targets[build_target[w]] \in case.targets
  <2>1. build_target[w] \in DOMAIN targets
    BY <1>1, <1>2 DEF ResultsInPlace
  <2>2. targets \in Seq(case.targets)
    BY <1>1 DEF BuildTypes
  <2> QED
    BY <2>1, <2>2
<1>4. /\ targets_prog_data' \in [DOMAIN targets -> case.targets \cup {Nothing}]
      /\ \A n \in DOMAIN targets : targets_prog_data'[n] \in {Nothing, targets[n]}
  BY <1>1, <1>2, <1>3 DEF BuildTypes, ResultsInPlace
<1> QED
  BY <1>1, <1>2, <1>4, TaskGoesOn DEF BuildTypes

LEMMA EndJobPreserves ==
  ASSUME BuildInv, NEW w \in Workers, EndJob(w)
  PROVE  BuildInv'
<1>1. BuildTypes /\ JobsCounted /\ ResultsInPlace
  BY DEF BuildInv
<1>2. /\ job[w] = "end" /\ job' = [job EXCEPT ![w] = "none"]
      /\ remaining_compile_jobs' = remaining_compile_jobs - 1
      /\ UNCHANGED <<case, targets, remaining_targets, targets_prog_data, build_target, main,
                     archive>>
  BY DEF EndJob, Does
<1>3. w \in Busy /\ Busy' = Busy \ {w}
  BY <1>1, <1>2 DEF Busy, BuildTypes
<1>4. main = "wait"
  BY <1>1, <1>3 DEF JobsCounted, BuildTypes
<1>5. /\ IsFiniteSet(Busy) /\ Cardinality(Busy) \in Nat
      /\ Cardinality(Busy) # 0
      /\ Cardinality(Busy \ {w}) = Cardinality(Busy) - 1
  <2>1. IsFiniteSet(Busy)
    BY UniversalBinaryAssumption, FS_Subset DEF Busy
  <2> QED
    BY <1>3, <2>1, FS_CardinalityType, FS_RemoveElement, FS_EmptySet
<1>6. remaining_compile_jobs = Cardinality(Busy)
  BY <1>1, <1>4 DEF JobsCounted
<1>7. remaining_compile_jobs' = Cardinality(Busy') /\ remaining_compile_jobs' \in Nat
  BY <1>2, <1>3, <1>5, <1>6
<1>8. BuildTypes'
  BY <1>1, <1>2, <1>7 DEF BuildTypes
<1>9. JobsCounted'
  BY <1>2, <1>4, <1>7 DEF JobsCounted
<1>10. ResultsInPlace'
  BY <1>1, <1>2 DEF ResultsInPlace, BuildTypes
<1> QED
  BY <1>8, <1>9, <1>10 DEF BuildInv

LEMMA SpawnJobsPreserves ==
  ASSUME BuildInv, SpawnJobs
  PROVE  BuildInv'
<1>1. BuildTypes /\ JobsCounted /\ ResultsInPlace
  BY DEF BuildInv
<1>2. /\ main = "spawn" /\ main' = "wait"
      /\ UNCHANGED <<case, targets, remaining_targets, targets_prog_data,
                     remaining_compile_jobs, build_target, archive>>
  BY DEF SpawnJobs
<1>3. PICK S \in SUBSET Workers :
        /\ Cardinality(S) = JobCount
        /\ job' = [w \in Workers |-> IF w \in S THEN "check" ELSE "none"]
  BY DEF SpawnJobs
<1>4. Busy' = S
  BY <1>3 DEF Busy
<1>5. JobsCounted'
  BY <1>1, <1>2, <1>3, <1>4 DEF JobsCounted
<1>6. BuildTypes'
  BY <1>1, <1>2, <1>3 DEF BuildTypes
<1>7. ResultsInPlace'
  BY <1>1, <1>2, <1>3 DEF ResultsInPlace
<1> QED
  BY <1>5, <1>6, <1>7 DEF BuildInv

LEMMA WriteArchivePreserves ==
  ASSUME BuildInv, WriteArchive
  PROVE  BuildInv'
<1>1. BuildTypes /\ JobsCounted /\ ResultsInPlace
  BY DEF BuildInv
<1>2. /\ main = "wait" /\ remaining_compile_jobs = 0
      /\ UNCHANGED <<case, targets, remaining_targets, targets_prog_data,
                     remaining_compile_jobs, job, build_target>>
  BY DEF WriteArchive
<1>3. Busy = {}
  <2>1. IsFiniteSet(Busy)
    BY UniversalBinaryAssumption, FS_Subset DEF Busy
  <2> QED
    BY <1>1, <1>2, <2>1, FS_EmptySet DEF JobsCounted
<1>4. Busy' = {}
  BY <1>2, <1>3 DEF Busy
<1>5. main' = "failed" \/ (main' = "load" /\ archive' = targets)
  <2>1. CASE compilation_successful /\ \A n \in DOMAIN targets : targets_prog_data[n] # Nothing
    <3>1. archive' = targets_prog_data /\ main' = "load"
      BY <2>1, Zenon DEF WriteArchive
    <3>2. \A n \in DOMAIN targets : targets_prog_data[n] = targets[n]
      BY <1>1, <2>1 DEF ResultsInPlace
    <3>3. targets_prog_data = targets
      BY <1>1, <3>2 DEF BuildTypes
    <3> QED
      BY <3>1, <3>3
  <2>2. CASE ~(compilation_successful /\ \A n \in DOMAIN targets : targets_prog_data[n] # Nothing)
    <3> DEFINE complete == compilation_successful
                            /\ \A n \in DOMAIN targets : targets_prog_data[n] # Nothing
    <3>1. IF complete THEN archive' = targets_prog_data /\ main' = "load"
          ELSE archive' = archive /\ main' = "failed"
      BY DEF WriteArchive
    <3>2. ~complete
      BY <2>2
    <3> HIDE DEF complete
    <3> QED
      BY <3>1, <3>2, Zenon
  <2> QED
    BY <2>1, <2>2
<1>6. BuildTypes'
  BY <1>1, <1>2, <1>5 DEF BuildTypes
<1>7. JobsCounted'
  BY <1>4, <1>5 DEF JobsCounted
<1>8. ResultsInPlace'
  <2>1. main' \in {"load", "done"} => archive' = targets'
    BY <1>2, <1>5
  <2> QED
    BY <1>1, <1>2, <2>1 DEF ResultsInPlace
<1> QED
  BY <1>6, <1>7, <1>8 DEF BuildInv

LEMMA BuildPreserved == BuildInv /\ [BuildNext]_buildVars => BuildInv'
<1> SUFFICES ASSUME BuildInv, [BuildNext]_buildVars PROVE BuildInv'
  OBVIOUS
<1>1. BuildTypes /\ JobsCounted /\ ResultsInPlace
  BY DEF BuildInv
<1>2. ASSUME NEW w \in Workers,
             CheckSuccess(w) \/ CompileTarget(w) \/ CompileFails(w) \/ CompileThrows(w)
      PROVE  BuildInv'
  <2>1. UNCHANGED <<case, targets, remaining_targets, targets_prog_data,
                    remaining_compile_jobs, build_target, main, archive>>
    BY <1>2 DEF CheckSuccess, CompileTarget, CompileFails, CompileThrows
  <2>2. PICK to \in {"take", "end", "store", "thrown"} :
          /\ job' = [job EXCEPT ![w] = to]
          /\ job[w] # "none" /\ (to = "store" => job[w] = "compile")
    <3>1. CASE CheckSuccess(w)
      BY <3>1 DEF CheckSuccess, Does
    <3> QED
      BY <1>2, <3>1 DEF CompileTarget, CompileFails, CompileThrows, Does
  <2> QED
    BY <1>1, <2>1, <2>2, TaskGoesOn DEF BuildTypes, ResultsInPlace
<1>3. ASSUME FindBestMatch
      PROVE  BuildInv'
  <2>1. /\ main = "load" /\ main' = "done"
        /\ UNCHANGED <<case, targets, remaining_targets, targets_prog_data,
                       remaining_compile_jobs, job, build_target, archive>>
    BY <1>3 DEF FindBestMatch
  <2> QED
    BY <1>1, <2>1 DEF BuildInv, BuildTypes, JobsCounted, ResultsInPlace, Busy
<1>4. ASSUME UNCHANGED buildVars
      PROVE  BuildInv'
  BY <1>1, <1>4 DEF buildVars, BuildInv, BuildTypes, JobsCounted, ResultsInPlace, Busy, JobCount
<1> QED
  BY <1>2, <1>3, <1>4, SpawnJobsPreserves, TakeTargetPreserves, StoreProgramPreserves,
     EndJobPreserves, WriteArchivePreserves DEF BuildNext, JobStep

(* ArchiveMatches: whatever the number of targets and tasks, and whichever *)
(* of them fail, an archive that is written has for each target the binary *)
(* compiled for it; and when build_archive returns, no task that could     *)
(* still use its local variables is left, not even one that an exception   *)
(* ended (for that one it waits for ever).                                 *)
THEOREM ArchivesAreComplete == BuildSpec => []ArchiveMatches
<1>1. BuildInv => ArchiveMatches
  BY DEF BuildInv, JobsCounted, ResultsInPlace, Busy, ArchiveMatches
<1> QED
  BY <1>1, BuildInitially, BuildPreserved, PTL DEF BuildSpec

(* The choice of a binary                                                  *)

(* Induction by a smallest counterexample.                                 *)
Below == {p \in Nat \X Nat : p[1] < p[2]}
LEMMA LeastNumber ==
  ASSUME NEW S \in SUBSET Nat, S # {}
  PROVE  \E n \in S : \A m \in S : n <= m
<1>1. IsWellFoundedOn(Below, Nat)
  BY NatLessThanWellFounded DEF OpToRel, Below
<1>2. PICK n \in S : \A m \in S : <<m, n>> \notin Below
  BY <1>1, WFMin
<1>3. \A m \in S : ~(m < n)
  BY <1>2 DEF Below
<1> QED
  BY <1>3

(* The step of the search, and the candidates it has found after each.     *)
Looked(f, ts, d, n) ==
  IF n = 0 THEN 0
  ELSE LET b == f[n - 1] IN
       IF Fits(ts[n], d) /\ (b = 0 \/ Beats(ts[n], ts[b])) THEN n ELSE b
IsSearch(f, ts, d, k) == f = [n \in 0..k |-> Looked(f, ts, d, n)]

LEMMA SearchExists ==
  ASSUME NEW ts, NEW d, NEW k \in Nat
  PROVE  \E f : IsSearch(f, ts, d, k)
<1> DEFINE none == {n \in Nat : ~\E f : IsSearch(f, ts, d, n)}
<1>1. SUFFICES ASSUME none # {} PROVE FALSE
  OBVIOUS
<1>2. PICK n \in none : \A m \in none : n <= m
  <2>1. none \in SUBSET Nat
    OBVIOUS
  <2> HIDE DEF none
  <2> QED
    BY <1>1, <2>1, LeastNumber
<1>3. n \in Nat /\ ~\E f : IsSearch(f, ts, d, n)
  OBVIOUS
<1>4. n # 0
  <2> SUFFICES ASSUME n = 0 PROVE FALSE
    OBVIOUS
  <2> DEFINE f == [m \in 0..0 |-> 0]
  <2>1. \A m \in 0..0 : Looked(f, ts, d, m) = 0
    BY DEF Looked
  <2>2. IsSearch(f, ts, d, n)
    BY <2>1 DEF IsSearch
  <2> QED
    BY <1>3, <2>2
<1>5. n - 1 \in Nat /\ n - 1 \notin none
  BY <1>2, <1>3, <1>4
<1>6. PICK f : IsSearch(f, ts, d, n - 1)
  BY <1>5
<1> DEFINE g == [m \in 0..n |-> IF m < n THEN f[m] ELSE Looked(f, ts, d, n)]
<1>7. \A m \in 0..n : m # 0 => g[m - 1] = f[m - 1]
  BY <1>3
<1>8. \A m \in 0..n : Looked(g, ts, d, m) = Looked(f, ts, d, m)
  <2> HIDE DEF g
  <2> QED
    BY <1>7 DEF Looked
<1>9. \A m \in 0..n : m < n => f[m] = Looked(f, ts, d, m)
  BY <1>3, <1>6 DEF IsSearch
<1>10. \A m \in 0..n : g[m] = Looked(g, ts, d, m)
  <2> SUFFICES ASSUME NEW m \in 0..n PROVE g[m] = Looked(g, ts, d, m)
    OBVIOUS
  <2>1. CASE m < n
    BY <1>8, <1>9, <2>1
  <2>2. CASE m = n
    BY <1>3, <1>8, <2>2
  <2> QED
    BY <1>3, <2>1, <2>2
<1>11. g = [m \in 0..n |-> Looked(g, ts, d, m)]
  <2>1. DOMAIN g = 0..n /\ g = [m \in 0..n |-> g[m]]
    OBVIOUS
  <2> HIDE DEF g
  <2> QED
    BY <1>10, <2>1
<1> QED
  BY <1>3, <1>11 DEF IsSearch

LEMMA BestOfSearches ==
  ASSUME NEW ts, NEW d, Len(ts) \in Nat
  PROVE  \E f : IsSearch(f, ts, d, Len(ts)) /\ BestOf(ts, d) = f[Len(ts)]
<1>1. \E f : IsSearch(f, ts, d, Len(ts))
  BY SearchExists
<1> QED
  BY <1>1 DEF IsSearch, Looked, BestOf

-----------------------------------------------------------------------------
(* The comparisons of a backend are those of a sequence of numbers, which  *)
(* the first difference decides.                                           *)
Weight(t) ==
  CASE t.type = "OPENCL" -> <<t.version, IF t.version >= 20 THEN Flag(t.kind # "spir") ELSE 0,
                              Rank(cl_target_order, t.device_target), Cardinality(t.caps), t.simd>>
    [] t.type = "CUDA" -> <<Flag(t.kind = "cubin"), IF t.kind = "ptx" THEN t.version ELSE 0,
                            t.minor, Cardinality(t.caps), 0>>
    [] t.type = "METAL" -> <<t.version, Rank(mtl_target_order, t.device_target), t.simd,
                             Count(t, {"barycentric_coord"}), 0>>
    [] t.type = "HOST" -> <<t.version, 0, 0, 0, 0>>
    [] t.type = "VULKAN" -> <<t.version, t.minor, t.simd, Rank(vlk_target_order, t.device_target),
                              Cardinality(t.caps \ not_counted)>>
Above(p, q) ==
  \/ p[1] > q[1]
  \/ p[1] = q[1] /\ p[2] > q[2]
  \/ p[1] = q[1] /\ p[2] = q[2] /\ p[3] > q[3]
  \/ p[1] = q[1] /\ p[2] = q[2] /\ p[3] = q[3] /\ p[4] > q[4]
  \/ p[1] = q[1] /\ p[2] = q[2] /\ p[3] = q[3] /\ p[4] = q[4] /\ p[5] > q[5]

LEMMA AboveIsAnOrder ==
  ASSUME NEW p \in Nat \X Nat \X Nat \X Nat \X Nat, NEW q \in Nat \X Nat \X Nat \X Nat \X Nat,
         NEW r \in Nat \X Nat \X Nat \X Nat \X Nat
  PROVE  ~Above(p, p) /\ (Above(p, q) /\ Above(q, r) => Above(p, r))
BY DEF Above

FirstDifference(p) ==
  \E n \in DOMAIN p : p[n][1] > p[n][2] /\ \A m \in 1..n - 1 : p[m][1] = p[m][2]
LEMMA FirstOfFour ==
  ASSUME NEW p, DOMAIN p = 1..4
  PROVE  FirstDifference(p)
           <=> \/ p[1][1] > p[1][2]
               \/ p[1][1] = p[1][2] /\ p[2][1] > p[2][2]
               \/ p[1][1] = p[1][2] /\ p[2][1] = p[2][2] /\ p[3][1] > p[3][2]
               \/ /\ p[1][1] = p[1][2] /\ p[2][1] = p[2][2] /\ p[3][1] = p[3][2]
                  /\ p[4][1] > p[4][2]
<1>1. \A n \in 1..4 : n = 1 \/ n = 2 \/ n = 3 \/ n = 4
  OBVIOUS
<1>2. 1..1 - 1 = {} /\ 1..2 - 1 = {1} /\ 1..3 - 1 = {1, 2} /\ 1..4 - 1 = {1, 2, 3}
  OBVIOUS
<1>3. FirstDifference(p) <=> \/ p[1][1] > p[1][2] /\ \A m \in 1..1 - 1 : p[m][1] = p[m][2]
                             \/ p[2][1] > p[2][2] /\ \A m \in 1..2 - 1 : p[m][1] = p[m][2]
                             \/ p[3][1] > p[3][2] /\ \A m \in 1..3 - 1 : p[m][1] = p[m][2]
                             \/ p[4][1] > p[4][2] /\ \A m \in 1..4 - 1 : p[m][1] = p[m][2]
  BY <1>1 DEF FirstDifference
<1> QED
  BY <1>2, <1>3
LEMMA FirstOfFive ==
  ASSUME NEW p, DOMAIN p = 1..5
  PROVE  FirstDifference(p)
           <=> \/ p[1][1] > p[1][2]
               \/ p[1][1] = p[1][2] /\ p[2][1] > p[2][2]
               \/ p[1][1] = p[1][2] /\ p[2][1] = p[2][2] /\ p[3][1] > p[3][2]
               \/ /\ p[1][1] = p[1][2] /\ p[2][1] = p[2][2] /\ p[3][1] = p[3][2]
                  /\ p[4][1] > p[4][2]
               \/ /\ p[1][1] = p[1][2] /\ p[2][1] = p[2][2] /\ p[3][1] = p[3][2]
                  /\ p[4][1] = p[4][2] /\ p[5][1] > p[5][2]
<1>1. \A n \in 1..5 : n = 1 \/ n = 2 \/ n = 3 \/ n = 4 \/ n = 5
  OBVIOUS
<1>2. /\ 1..1 - 1 = {} /\ 1..2 - 1 = {1} /\ 1..3 - 1 = {1, 2} /\ 1..4 - 1 = {1, 2, 3}
      /\ 1..5 - 1 = {1, 2, 3, 4}
  OBVIOUS
<1>3. FirstDifference(p) <=> \/ p[1][1] > p[1][2] /\ \A m \in 1..1 - 1 : p[m][1] = p[m][2]
                             \/ p[2][1] > p[2][2] /\ \A m \in 1..2 - 1 : p[m][1] = p[m][2]
                             \/ p[3][1] > p[3][2] /\ \A m \in 1..3 - 1 : p[m][1] = p[m][2]
                             \/ p[4][1] > p[4][2] /\ \A m \in 1..4 - 1 : p[m][1] = p[m][2]
                             \/ p[5][1] > p[5][2] /\ \A m \in 1..5 - 1 : p[m][1] = p[m][2]
  BY <1>1 DEF FirstDifference
<1> QED
  BY <1>2, <1>3

LEMMA RankIsNumber ==
  ASSUME NEW order, Len(order) \in Nat, NEW n \in 1..Len(order)
  PROVE  Rank(order, order[n]) \in Nat
<1>1. \E m \in 1..Len(order) : order[m] = order[n]
  OBVIOUS
<1>2. Rank(order, order[n]) \in 1..Len(order)
  BY <1>1 DEF Rank
<1> QED
  BY <1>2

LEMMA FieldsAreNumbers ==
  ASSUME NEW t, IsTarget(t)
  PROVE  /\ t.version \in Nat /\ t.minor \in Nat /\ t.simd \in Nat /\ Cardinality(t.caps) \in Nat
         /\ t.type = "OPENCL" => Rank(cl_target_order, t.device_target) \in Nat
         /\ t.type = "METAL" => Rank(mtl_target_order, t.device_target) \in Nat
         /\ t.type = "VULKAN" => Rank(vlk_target_order, t.device_target) \in Nat
         /\ Count(t, {"barycentric_coord"}) \in Nat
         /\ Cardinality(t.caps \ not_counted) \in Nat
<1>1. IsFiniteSet(t.caps)
  BY DEF IsTarget
<1>2. IsFiniteSet(t.caps \cap {"barycentric_coord"}) /\ IsFiniteSet(t.caps \ not_counted)
  BY <1>1, FS_Subset, Zenon
<1>3. /\ Cardinality(t.caps) \in Nat /\ Count(t, {"barycentric_coord"}) \in Nat
      /\ Cardinality(t.caps \ not_counted) \in Nat
  BY <1>1, <1>2, FS_CardinalityType DEF Count
<1>4. Len(cl_target_order) = 7 /\ Len(mtl_target_order) = 4 /\ Len(vlk_target_order) = 4
  BY DEF cl_target_order, mtl_target_order, vlk_target_order
<1>5. ASSUME t.type = "OPENCL" PROVE Rank(cl_target_order, t.device_target) \in Nat
  <2>1. PICK n \in 1..7 : t.device_target = cl_target_order[n]
    BY <1>5 DEF IsTarget
  <2>2. Len(cl_target_order) \in Nat /\ n \in 1..Len(cl_target_order)
    BY <1>4
  <2> QED
    BY <2>1, <2>2, RankIsNumber, Zenon
<1>6. ASSUME t.type = "METAL" PROVE Rank(mtl_target_order, t.device_target) \in Nat
  <2>1. PICK n \in 1..4 : t.device_target = mtl_target_order[n]
    BY <1>6 DEF IsTarget
  <2>2. Len(mtl_target_order) \in Nat /\ n \in 1..Len(mtl_target_order)
    BY <1>4
  <2> QED
    BY <2>1, <2>2, RankIsNumber, Zenon
<1>7. ASSUME t.type = "VULKAN" PROVE Rank(vlk_target_order, t.device_target) \in Nat
  <2>1. PICK n \in 1..4 : t.device_target = vlk_target_order[n]
    BY <1>7 DEF IsTarget
  <2>2. Len(vlk_target_order) \in Nat /\ n \in 1..Len(vlk_target_order)
    BY <1>4
  <2> QED
    BY <2>1, <2>2, RankIsNumber, Zenon
<1> QED
  BY <1>3, <1>5, <1>6, <1>7 DEF IsTarget

LEMMA WeightIsNumbers ==
  ASSUME NEW t, IsTarget(t)
  PROVE  Weight(t) \in Nat \X Nat \X Nat \X Nat \X Nat
<1>1. \A b \in BOOLEAN : Flag(b) \in Nat
  BY DEF Flag
<1>2. Flag(t.kind # "spir") \in Nat /\ Flag(t.kind = "cubin") \in Nat
  BY <1>1
<1> QED
  BY <1>2, FieldsAreNumbers DEF Weight, IsTarget

(* Without a target that skips a comparison, Beats is that order.          *)
LEMMA BeatsIsAbove ==
  ASSUME NEW t, NEW b, IsTarget(t), IsTarget(b), t.type = b.type, ~OneSided(t), ~OneSided(b)
  PROVE  Beats(t, b) <=> Above(Weight(t), Weight(b))
<1> DEFINE p == Pairs(t, b)
<1>1. Beats(t, b) <=> FirstDifference(p)
  BY DEF Beats, FirstDifference
<1>2. CASE t.type = "OPENCL"
  <2> DEFINE f(x) == IF t.version >= 20 THEN Flag(x.kind # "spir") ELSE 0
             g(x) == IF x.version >= 20 THEN Flag(x.kind # "spir") ELSE 0
             r(x) == Rank(cl_target_order, x.device_target)
  <2>1. /\ DOMAIN p = 1..5 /\ p[1] = <<t.version, b.version>> /\ p[2] = <<f(t), f(b)>>
        /\ p[3] = <<r(t), r(b)>> /\ p[4] = <<Cardinality(t.caps), Cardinality(b.caps)>>
        /\ p[5] = <<t.simd, b.simd>>
        /\ Weight(t) = <<t.version, g(t), r(t), Cardinality(t.caps), t.simd>>
        /\ Weight(b) = <<b.version, g(b), r(b), Cardinality(b.caps), b.simd>>
    BY <1>2 DEF Pairs, OpenCLPairs, Weight, OneSided
  <2>2. f(t) = g(t) /\ (t.version = b.version => f(b) = g(b))
    OBVIOUS
  <2> HIDE DEF p, f, g, r
  <2> QED
    BY <1>1, <2>1, <2>2, FirstOfFive DEF Above
<1>3. CASE t.type = "CUDA"
  <2> DEFINE c(x) == Flag(x.kind = "cubin")
             f(x) == IF t.kind = "ptx" THEN x.version ELSE 0
             g(x) == IF x.kind = "ptx" THEN x.version ELSE 0
  <2>1. /\ DOMAIN p = 1..4 /\ p[1] = <<c(t), c(b)>> /\ p[2] = <<f(t), f(b)>>
        /\ p[3] = <<t.minor, b.minor>> /\ p[4] = <<Cardinality(t.caps), Cardinality(b.caps)>>
        /\ Weight(t) = <<c(t), g(t), t.minor, Cardinality(t.caps), 0>>
        /\ Weight(b) = <<c(b), g(b), b.minor, Cardinality(b.caps), 0>>
    BY <1>3 DEF Pairs, CudaPairs, Weight
  <2>2. f(t) = g(t) /\ (c(t) = c(b) => f(b) = g(b))
    BY <1>3 DEF OneSided, IsTarget, Flag
  <2> HIDE DEF p, c, f, g
  <2> QED
    BY <1>1, <2>1, <2>2, FirstOfFour DEF Above
<1>4. CASE t.type = "METAL"
  <2> DEFINE r(x) == Rank(mtl_target_order, x.device_target)
             n(x) == Count(x, {"barycentric_coord"})
  <2>1. /\ DOMAIN p = 1..4 /\ p[1] = <<t.version, b.version>> /\ p[2] = <<r(t), r(b)>>
        /\ p[3] = <<t.simd, b.simd>> /\ p[4] = <<n(t), n(b)>>
        /\ Weight(t) = <<t.version, r(t), t.simd, n(t), 0>>
        /\ Weight(b) = <<b.version, r(b), b.simd, n(b), 0>>
    BY <1>4 DEF Pairs, MetalPairs, Weight
  <2> HIDE DEF p, r, n
  <2> QED
    BY <1>1, <2>1, FirstOfFour DEF Above
<1>5. CASE t.type = "HOST"
  <2>1. /\ p = << <<t.version, b.version>> >>
        /\ Weight(t) = <<t.version, 0, 0, 0, 0>> /\ Weight(b) = <<b.version, 0, 0, 0, 0>>
    BY <1>5 DEF Pairs, HostPairs, Weight
  <2>2. FirstDifference(p) <=> t.version > b.version
    BY <2>1 DEF FirstDifference
  <2> QED
    BY <1>1, <2>1, <2>2 DEF Above
<1>6. CASE t.type = "VULKAN"
  <2> DEFINE r(x) == Rank(vlk_target_order, x.device_target)
             n(x) == Cardinality(x.caps \ not_counted)
  <2>1. /\ DOMAIN p = 1..5 /\ p[1] = <<t.version, b.version>> /\ p[2] = <<t.minor, b.minor>>
        /\ p[3] = <<t.simd, b.simd>> /\ p[4] = <<r(t), r(b)>> /\ p[5] = <<n(t), n(b)>>
        /\ Weight(t) = <<t.version, t.minor, t.simd, r(t), n(t)>>
        /\ Weight(b) = <<b.version, b.minor, b.simd, r(b), n(b)>>
    BY <1>6 DEF Pairs, VulkanPairs, Weight
  <2> HIDE DEF p, r, n
  <2> QED
    BY <1>1, <2>1, FirstOfFive DEF Above
<1> QED
  BY <1>2, <1>3, <1>4, <1>5, <1>6 DEF IsTarget

(* After n targets the search has found one of them that fits if any does, *)
(* and that none beats unless one skips a comparison.                      *)
FitsAt(ts, d, i) == i \in DOMAIN ts /\ Fits(ts[i], d)
AllCompared(ts, d) == \A i \in DOMAIN ts : FitsAt(ts, d, i) => ~OneSided(ts[i])
FoundBest(ts, d, n, b) ==
  /\ b \in 0..n
  /\ b = 0 => \A i \in 1..n : ~FitsAt(ts, d, i)
  /\ b # 0 => FitsAt(ts, d, b)
  /\ b # 0 /\ AllCompared(ts, d) => \A i \in 1..n : FitsAt(ts, d, i) => ~Beats(ts[i], ts[b])

LEMMA LookedKeepsBest ==
  ASSUME NEW ts, Len(ts) \in Nat, DOMAIN ts = 1..Len(ts), NEW d, NEW f, NEW n \in Nat, n # 0, n <= Len(ts),
         \A i \in DOMAIN ts : IsTarget(ts[i]),
         FoundBest(ts, d, n - 1, f[n - 1])
  PROVE  FoundBest(ts, d, n, Looked(f, ts, d, n))
<1> DEFINE b == f[n - 1]
<1>1. b \in 0..n - 1 /\ n \in DOMAIN ts /\ \A i \in 1..n : i \in 1..n - 1 \/ i = n
  BY DEF FoundBest
<1>2. ASSUME AllCompared(ts, d),
             NEW i \in DOMAIN ts, NEW j \in DOMAIN ts, FitsAt(ts, d, i), FitsAt(ts, d, j)
      PROVE  /\ Beats(ts[i], ts[j]) <=> Above(Weight(ts[i]), Weight(ts[j]))
             /\ Weight(ts[i]) \in Nat \X Nat \X Nat \X Nat \X Nat
  <2>1. ts[i].type = ts[j].type
    BY <1>2 DEF FitsAt, Fits
  <2> QED
    BY <1>2, <2>1, BeatsIsAbove, WeightIsNumbers DEF AllCompared
<1>3. ASSUME AllCompared(ts, d), NEW i \in DOMAIN ts, NEW j \in DOMAIN ts, NEW k \in DOMAIN ts,
             FitsAt(ts, d, i), FitsAt(ts, d, j), FitsAt(ts, d, k)
      PROVE  ~Beats(ts[i], ts[i]) /\ (Beats(ts[i], ts[j]) /\ Beats(ts[j], ts[k]) => Beats(ts[i], ts[k]))
  <2>1. PICK wi, wj, wk \in Nat \X Nat \X Nat \X Nat \X Nat :
          wi = Weight(ts[i]) /\ wj = Weight(ts[j]) /\ wk = Weight(ts[k])
    BY <1>2, <1>3
  <2>2. ~Above(wi, wi) /\ (Above(wi, wj) /\ Above(wj, wk) => Above(wi, wk))
    BY AboveIsAnOrder
  <2> QED
    BY <1>2, <1>3, <2>1, <2>2
<1>4. CASE FitsAt(ts, d, n) /\ (b = 0 \/ Beats(ts[n], ts[b]))
  <2>1. Looked(f, ts, d, n) = n
    BY <1>4 DEF Looked, FitsAt
  <2>2. ASSUME AllCompared(ts, d), NEW i \in 1..n, FitsAt(ts, d, i), Beats(ts[i], ts[n]) PROVE FALSE
    <3>1. i # n
      BY <1>1, <1>3, <1>4, <2>2
    <3>2. i \in 1..n - 1
      BY <1>1, <3>1
    <3>3. b # 0 /\ FitsAt(ts, d, b) /\ ~Beats(ts[i], ts[b])
      BY <2>2, <3>2 DEF FoundBest
    <3>4. b \in DOMAIN ts /\ i \in DOMAIN ts
      BY <2>2, <3>3 DEF FitsAt
    <3> QED
      BY <1>1, <1>3, <1>4, <2>2, <3>3, <3>4
  <2> QED
    BY <1>4, <2>1, <2>2 DEF FoundBest
<1>5. CASE ~(FitsAt(ts, d, n) /\ (b = 0 \/ Beats(ts[n], ts[b])))
  <2>1. Looked(f, ts, d, n) = b
    BY <1>1, <1>5 DEF Looked, FitsAt
  <2> HIDE DEF b
  <2>2. b \in 0..n
    BY <1>1
  <2>3. ASSUME b = 0 PROVE \A i \in 1..n : ~FitsAt(ts, d, i)
    BY <1>1, <1>5, <2>3 DEF FoundBest, b
  <2>4. b # 0 => FitsAt(ts, d, b)
    BY DEF FoundBest, b
  <2>5. ASSUME b # 0, AllCompared(ts, d)
        PROVE  \A i \in 1..n : FitsAt(ts, d, i) => ~Beats(ts[i], ts[b])
    BY <1>1, <1>5, <2>5 DEF FoundBest, b
  <2> QED
    BY <2>1, <2>2, <2>3, <2>4, <2>5 DEF FoundBest
<1> QED
  BY <1>4, <1>5

LEMMA BestOfIsBest ==
  ASSUME NEW ts, Len(ts) \in Nat, DOMAIN ts = 1..Len(ts), NEW d,
         \A i \in DOMAIN ts : IsTarget(ts[i])
  PROVE  FoundBest(ts, d, Len(ts), BestOf(ts, d))
<1>1. PICK f : IsSearch(f, ts, d, Len(ts)) /\ BestOf(ts, d) = f[Len(ts)]
  BY BestOfSearches
<1> DEFINE wrong == {n \in 0..Len(ts) : ~FoundBest(ts, d, n, f[n])}
<1>2. SUFFICES ASSUME wrong # {} PROVE FALSE
  BY <1>1
<1>3. PICK n \in wrong : \A m \in wrong : n <= m
  <2>1. wrong \in SUBSET Nat
    OBVIOUS
  <2> HIDE DEF wrong
  <2> QED
    BY <1>2, <2>1, LeastNumber
<1>4. n \in 0..Len(ts) /\ f[n] = Looked(f, ts, d, n)
  BY <1>1 DEF IsSearch
<1>5. n # 0
  <2>1. Looked(f, ts, d, 0) = 0
    BY DEF Looked
  <2>2. FoundBest(ts, d, 0, 0)
    BY DEF FoundBest
  <2> QED
    BY <1>4, <2>1, <2>2
<1>6. n - 1 \in 0..Len(ts) /\ FoundBest(ts, d, n - 1, f[n - 1])
  BY <1>3, <1>4, <1>5
<1>7. FoundBest(ts, d, n, f[n])
  BY <1>4, <1>5, <1>6, LookedKeepsBest
<1> QED
  BY <1>7

(* The width a binary was compiled for is the one its target names.        *)
WidthKept(t) ==
  (t.type = "VULKAN" \/ (t.type = "METAL" /\ t.kind = "MACOS")) /\ t.simd # 0
    => AssumedSimd(t) \in {0, t.simd}

LEMMA AcceptedWidth ==
  ASSUME NEW t, IsTarget(t), ~Refuses(t)
  PROVE  WidthKept(t)
<1>1. CASE t.type = "VULKAN"
  <2>1. ~VulkanRefuses(t) /\ AssumedSimd(t) = VulkanSimd(t) /\ t.simd \in Nat
    BY <1>1 DEF Refuses, AssumedSimd, IsTarget
  <2>2. t.device_target = "GENERIC" => VulkanSimd(t) = t.simd
    BY DEF VulkanSimd
  <2> QED
    BY <2>1, <2>2 DEF VulkanRefuses, WidthKept
<1>2. CASE t.type = "METAL" /\ t.kind = "MACOS"
  <2>1. ~MetalRefuses(t) /\ AssumedSimd(t) = MetalSimd(t) /\ t.simd \in Nat
    BY <1>2 DEF Refuses, AssumedSimd, IsTarget
  <2>2. t.device_target = "GENERIC" => MetalSimd(t) = t.simd
    BY <1>2 DEF MetalSimd
  <2> QED
    BY <1>2, <2>1, <2>2 DEF MetalRefuses, WidthKept
<1> QED
  BY <1>1, <1>2 DEF WidthKept

(* What has been compiled was accepted; the choice is made of what is      *)
(* written.                                                                *)
ChoiceInv ==
  /\ case \in BuildCases \cup LoadCases /\ targets \in Orders(case.targets)
  /\ \A w \in Workers : job[w] = "store" => ~Refuses(targets[build_target[w]])
  /\ main \in {"spawn", "wait"} =>
       \A n \in DOMAIN targets : targets_prog_data[n] # Nothing => ~Refuses(targets[n])
  /\ main \in {"load", "done"} => \A n \in DOMAIN targets : WidthKept(targets[n])
  /\ main = "done" => best = BestOf(targets, case.device)

LEMMA OrdersAreSequences ==
  ASSUME NEW S, IsFiniteSet(S), NEW s \in Orders(S)
  PROVE  /\ Len(s) \in Nat /\ DOMAIN s = 1..Len(s) /\ \A n \in DOMAIN s : s[n] \in S
         /\ \A x \in S : \E n \in DOMAIN s : s[n] = x
<1>1. Cardinality(S) \in Nat
  BY FS_CardinalityType
<1>2. s \in [1..Cardinality(S) -> S] /\ \A i, j \in DOMAIN s : s[i] = s[j] => i = j
  BY DEF Orders
<1>3. s \in Seq(S) /\ Len(s) = Cardinality(S) /\ DOMAIN s = 1..Len(s)
  BY <1>1, <1>2
<1>4. s \in Injection(1..Cardinality(S), S)
  BY <1>2 DEF Injection, IsInjective
<1>5. IsFiniteSet(1..Cardinality(S)) /\ Cardinality(1..Cardinality(S)) = Cardinality(S)
  BY <1>1, FS_Interval
<1>6. s \in Surjection(1..Cardinality(S), S)
  BY <1>4, <1>5, FS_Injection
<1> QED
  BY <1>1, <1>2, <1>3, <1>6 DEF Surjection

LEMMA CaseIsTyped ==
  ASSUME case \in BuildCases \cup LoadCases, targets \in Orders(case.targets)
  PROVE  /\ IsDevice(case.device) /\ \A n \in DOMAIN targets : IsTarget(targets[n])
         /\ Len(targets) \in Nat /\ DOMAIN targets = 1..Len(targets)
         /\ \A n \in DOMAIN targets : targets[n] \in case.targets
         /\ \A t \in case.targets : \E n \in DOMAIN targets : targets[n] = t
<1>1. IsFiniteSet(case.targets)
  BY UniversalBinaryAssumption
<1> QED
  BY <1>1, TargetsAssumption, OrdersAreSequences

LEMMA ChoiceInitially == BuildInit => ChoiceInv
<1> SUFFICES ASSUME BuildInit PROVE ChoiceInv
  OBVIOUS
<1>1. /\ (case \in BuildCases /\ main = "spawn") \/ (case \in LoadCases /\ main = "load")
      /\ targets \in Orders(case.targets)
      /\ targets_prog_data = [n \in 1..Len(targets) |-> Nothing]
      /\ job = [w \in Workers |-> "none"]
  BY DEF BuildInit
<1>2. DOMAIN targets = 1..Len(targets) /\ \A n \in DOMAIN targets : targets[n] \in case.targets
  BY <1>1, CaseIsTyped
<1>3. main = "load" => \A n \in DOMAIN targets : WidthKept(targets[n])
  BY <1>1, <1>2, TargetsAssumption DEF WidthKept
<1> QED
  BY <1>1, <1>2, <1>3 DEF ChoiceInv

LEMMA ChoicePreserved == BuildInv /\ ChoiceInv /\ [BuildNext]_buildVars => ChoiceInv'
<1> SUFFICES ASSUME BuildInv, ChoiceInv, [BuildNext]_buildVars PROVE ChoiceInv'
  OBVIOUS
<1>1. /\ BuildTypes /\ ResultsInPlace
      /\ case \in BuildCases \cup LoadCases /\ targets \in Orders(case.targets)
      /\ \A w \in Workers : job[w] = "store" => ~Refuses(targets[build_target[w]])
      /\ main \in {"spawn", "wait"} =>
           \A n \in DOMAIN targets : targets_prog_data[n] # Nothing => ~Refuses(targets[n])
      /\ main \in {"load", "done"} => \A n \in DOMAIN targets : WidthKept(targets[n])
      /\ main = "done" => best = BestOf(targets, case.device)
  BY DEF BuildInv, ChoiceInv
<1>2. ASSUME SpawnJobs PROVE ChoiceInv'
  <2>1. /\ main = "spawn" /\ main' = "wait"
        /\ UNCHANGED <<case, targets, targets_prog_data, build_target, best>>
        /\ \A w \in Workers : job'[w] # "store"
    BY <1>2 DEF SpawnJobs
  <2> QED
    BY <1>1, <2>1 DEF ChoiceInv
<1>3. ASSUME NEW w \in Workers,
             CheckSuccess(w) \/ CompileTarget(w) \/ CompileFails(w) \/ CompileThrows(w) \/ EndJob(w)
      PROVE  ChoiceInv'
  <2>1. UNCHANGED <<case, targets, targets_prog_data, build_target, main, best>>
    BY <1>3 DEF CheckSuccess, CompileTarget, CompileFails, CompileThrows, EndJob
  <2>2. PICK to : /\ job' = [job EXCEPT ![w] = to]
                  /\ to = "store" => ~Refuses(targets[build_target[w]])
    <3>1. CASE CheckSuccess(w)
      <4> DEFINE to == IF compilation_successful THEN "take" ELSE "end"
      <4>1. job' = [job EXCEPT ![w] = to] /\ to # "store"
        BY <3>1 DEF CheckSuccess, Does
      <4> HIDE DEF to
      <4> QED
        BY <4>1
    <3>2. CASE CompileTarget(w)
      BY <3>2 DEF CompileTarget, Does
    <3>3. CASE CompileFails(w) \/ CompileThrows(w) \/ EndJob(w)
      BY <3>3 DEF CompileFails, CompileThrows, EndJob, Does
    <3> QED
      BY <1>3, <3>1, <3>2, <3>3
  <2>3. \A o \in Workers : job'[o] = "store" => ~Refuses(targets[build_target[o]])
    BY <1>1, <2>2 DEF BuildTypes
  <2> QED
    BY <1>1, <2>1, <2>3 DEF ChoiceInv
<1>4. ASSUME NEW w \in Workers, TakeTarget(w) PROVE ChoiceInv'
  <2>1. /\ UNCHANGED <<case, targets, targets_prog_data, main, best>> /\ job[w] = "take"
        /\ \A o \in Workers : o # w => build_target'[o] = build_target[o] /\ job'[o] = job[o]
        /\ job'[w] # "store"
    <3>1. CASE remaining_targets = <<>>
      BY <1>1, <1>4, <3>1 DEF TakeTarget, Does, BuildTypes
    <3>2. CASE remaining_targets # <<>>
      BY <1>1, <1>4, <3>2 DEF TakeTarget, Does, BuildTypes
    <3> QED
      BY <3>1, <3>2
  <2>2. \A o \in Workers : job'[o] = "store" => ~Refuses(targets[build_target'[o]])
    BY <1>1, <2>1
  <2> QED
    BY <1>1, <2>1, <2>2 DEF ChoiceInv
<1>5. ASSUME NEW w \in Workers, StoreProgram(w) PROVE ChoiceInv'
  <2> DEFINE n == build_target[w]
  <2>1. /\ UNCHANGED <<case, targets, build_target, main, best>> /\ job[w] = "store"
        /\ job' = [job EXCEPT ![w] = "check"]
        /\ targets_prog_data' = [targets_prog_data EXCEPT ![n] = targets[n]]
    BY <1>5 DEF StoreProgram, Does
  <2>2. \A m \in DOMAIN targets : m # n => targets_prog_data'[m] = targets_prog_data[m]
    BY <1>1, <2>1 DEF BuildTypes
  <2>3. ~Refuses(targets[n])
    BY <1>1, <2>1
  <2>4. \A o \in Workers : job'[o] = "store" => job[o] = "store"
    BY <1>1, <2>1 DEF BuildTypes
  <2> QED
    BY <1>1, <2>1, <2>2, <2>3, <2>4 DEF ChoiceInv
<1>6. ASSUME WriteArchive PROVE ChoiceInv'
  <2> DEFINE complete == compilation_successful
                          /\ \A n \in DOMAIN targets : targets_prog_data[n] # Nothing
  <2>1. /\ main = "wait" /\ UNCHANGED <<case, targets, targets_prog_data, job, build_target, best>>
        /\ IF complete THEN archive' = targets_prog_data /\ main' = "load"
           ELSE archive' = archive /\ main' = "failed"
    BY <1>6 DEF WriteArchive
  <2>2. complete => \A n \in DOMAIN targets : WidthKept(targets[n])
    BY <1>1, <2>1, CaseIsTyped, AcceptedWidth
  <2> HIDE DEF complete
  <2>3. (main' = "load" /\ complete) \/ main' = "failed"
    BY <2>1
  <2> QED
    BY <1>1, <2>1, <2>2, <2>3 DEF ChoiceInv
<1>7. ASSUME FindBestMatch PROVE ChoiceInv'
  <2>1. /\ main = "load" /\ main' = "done" /\ best' = BestOf(targets, case.device)
        /\ UNCHANGED <<case, targets, targets_prog_data, job, build_target>>
    BY <1>7 DEF FindBestMatch
  <2> QED
    BY <1>1, <2>1 DEF ChoiceInv
<1>8. ASSUME UNCHANGED buildVars PROVE ChoiceInv'
  BY <1>1, <1>8 DEF buildVars, ChoiceInv
<1> QED
  BY <1>2, <1>3, <1>4, <1>5, <1>6, <1>7, <1>8 DEF BuildNext, JobStep

(* A target that fits is compiled for what the device has. *)
LEMMA FittingAssumptions ==
  ASSUME NEW t, IsTarget(t), WidthKept(t), NEW d, IsDevice(d), Fits(t, d)
  PROVE  /\ AssumedSimd(t) # 0 /\ t.simd # 0 => AssumedSimd(t) \in d.simd_range[1]..d.simd_range[2]
         /\ t.caps \ {"mesh_shading", "mip_levels"} \subseteq d.caps
         /\ ~(t.type = "OPENCL" /\ "sub_group_ballot" \in t.caps) => AssumedSpirv(t) <= d.minor
<1>1. t.type = d.type /\ d.minor \in Nat /\ t.simd \in Nat
  BY DEF Fits, IsDevice, IsTarget
<1>2. CASE t.type = "OPENCL"
  <2>1. OpenCLFits(t, d)
    BY <1>2 DEF Fits
  <2>2. t.simd # 0 => t.simd \in d.simd_range[1]..d.simd_range[2]
    BY <2>1 DEF OpenCLFits, InSimdRange
  <2>3. t.simd # 0 => AssumedSimd(t) = t.simd
    BY <1>1, <1>2 DEF AssumedSimd, OpenCLSimd
  <2>4. t.caps \subseteq d.caps
    BY <2>1 DEF OpenCLFits
  <2>5. t.kind = "spirv" => d.minor >= 10
    BY <1>1, <1>2, <2>1 DEF OpenCLFits, IsDevice
  <2>6. "sub_group_ballot" \notin t.caps => AssumedSpirv(t) = IF t.kind = "spirv" THEN 10 ELSE 0
    BY <1>2 DEF AssumedSpirv
  <2> QED
    BY <1>1, <1>2, <2>2, <2>3, <2>4, <2>5, <2>6
<1>3. CASE t.type = "CUDA"
  <2>1. AssumedSimd(t) = 0 /\ AssumedSpirv(t) = 0
    BY <1>3 DEF AssumedSimd, AssumedSpirv
  <2>2. t.caps \subseteq d.caps
    BY <1>3 DEF Fits, CudaFits
  <2> QED
    BY <1>1, <2>1, <2>2
<1>4. CASE t.type = "METAL"
  <2>1. MetalFits(t, d) /\ AssumedSimd(t) = MetalSimd(t) /\ AssumedSpirv(t) = 0
    BY <1>4 DEF Fits, AssumedSimd, AssumedSpirv
  <2>2. t.caps \ {"mesh_shading", "mip_levels"} \subseteq d.caps
    BY <1>4, <2>1 DEF MetalFits, IsTarget
  <2>3. CASE t.kind = "MACOS"
    <3>1. t.simd # 0 => AssumedSimd(t) \in {0, t.simd}
      BY <1>4, <2>3 DEF WidthKept
    <3>2. t.simd # 0 => t.simd \in d.simd_range[1]..d.simd_range[2]
      BY <2>1 DEF MetalFits, InSimdRange
    <3> QED
      BY <1>1, <2>1, <2>2, <3>1, <3>2
  <2>4. CASE t.kind # "MACOS"
    <3>1. d.simd_range = <<32, 32>>
      BY <1>1, <1>4, <2>1, <2>4 DEF MetalFits, IsDevice
    <3>2. MetalSimd(t) = 32
      BY <2>4 DEF MetalSimd
    <3>3. d.simd_range[1] = 32 /\ d.simd_range[2] = 32
      BY <3>1
    <3> QED
      BY <1>1, <2>1, <2>2, <3>2, <3>3
  <2> QED
    BY <2>3, <2>4
<1>5. CASE t.type = "HOST"
  <2>1. AssumedSimd(t) = 0 /\ AssumedSpirv(t) = 0 /\ t.caps = {}
    BY <1>5 DEF AssumedSimd, AssumedSpirv, IsTarget
  <2> QED
    BY <1>1, <2>1
<1>6. CASE t.type = "VULKAN"
  <2>1. VulkanFits(t, d) /\ AssumedSpirv(t) = t.minor
    BY <1>6 DEF Fits, AssumedSpirv
  <2>2. t.simd # 0 => AssumedSimd(t) \in {0, t.simd}
    BY <1>6 DEF WidthKept
  <2>3. t.simd # 0 => t.simd \in d.simd_range[1]..d.simd_range[2]
    BY <2>1 DEF VulkanFits, InSimdRange
  <2> QED
    BY <1>1, <2>1, <2>2, <2>3 DEF VulkanFits
<1> QED
  BY <1>2, <1>3, <1>4, <1>5, <1>6 DEF IsTarget

(* ChoiceIsSound: find_best_match_for_device, for any number of targets in *)
(* any order and every device. The first conjunct of the choice is that of *)
(* the search, by induction over the targets it has seen: each backend's   *)
(* comparisons are a lexicographic order of the numbers in Weight, so what *)
(* replaces the best candidate loses to none of those that lost to it -    *)
(* provided no candidate skips a comparison, when they no longer are one.  *)
(* The second holds as what is checked of the device is all compile_target *)
(* assumed of it, given that it refuses a target whose SIMD width is not   *)
(* the one it compiles for.                                                *)
THEOREM ChosenBinaryFits == BuildSpec => []ChoiceIsSound
<1>1. ASSUME ChoiceInv PROVE ChoiceIsSound
  <2> DEFINE d == case.device
  <2>1. SUFFICES ASSUME main = "done" PROVE ChoiceIsSound
    BY DEF ChoiceIsSound, ChoiceIsBest, AssumptionsHold
  <2>2. /\ IsDevice(d) /\ \A n \in DOMAIN targets : IsTarget(targets[n]) /\ WidthKept(targets[n])
        /\ Len(targets) \in Nat /\ DOMAIN targets = 1..Len(targets)
        /\ \A n \in DOMAIN targets : targets[n] \in case.targets
        /\ \A t \in case.targets : \E n \in DOMAIN targets : targets[n] = t
    BY <1>1, <2>1, CaseIsTyped DEF ChoiceInv
  <2>3. FoundBest(targets, d, Len(targets), best)
    BY <1>1, <2>1, <2>2, BestOfIsBest DEF ChoiceInv
  <2>4. best # 0 => /\ best \in DOMAIN targets /\ targets[best] \in case.targets
                    /\ Fits(targets[best], d) /\ IsTarget(targets[best]) /\ WidthKept(targets[best])
    BY <2>2, <2>3 DEF FoundBest, FitsAt
  <2>5. AssumptionsHold
    BY <2>2, <2>4, FittingAssumptions DEF AssumptionsHold
  <2>6. ChoiceIsBest
    <3> DEFINE fitting == {t \in case.targets : Fits(t, d)}
    <3>1. (best = 0) <=> (fitting = {})
      BY <2>2, <2>3, <2>4 DEF FoundBest, FitsAt
    <3>2. best # 0 => targets[best] \in fitting
      BY <2>4
    <3>3. ASSUME best # 0, NEW t \in fitting, Beats(t, targets[best]), \A u \in fitting : ~OneSided(u)
          PROVE  FALSE
      <4>1. AllCompared(targets, d)
        BY <2>2, <3>3 DEF AllCompared, FitsAt
      <4>2. PICK n \in DOMAIN targets : targets[n] = t
        BY <2>2
      <4>3. FitsAt(targets, d, n)
        BY <4>2 DEF FitsAt
      <4> QED
        BY <2>2, <2>3, <3>3, <4>1, <4>2, <4>3 DEF FoundBest
    <3> HIDE DEF fitting
    <3>4. best # 0 => \A t \in fitting : Beats(t, targets[best]) => \E u \in fitting : OneSided(u)
      BY <3>3
    <3> QED
      BY <3>1, <3>2, <3>4, Zenon DEF ChoiceIsBest, fitting
  <2> QED
    BY <2>5, <2>6 DEF ChoiceIsSound
<1> QED
  BY <1>1, BuildInitially, BuildPreserved, ChoiceInitially, ChoicePreserved, PTL DEF BuildSpec
=============================================================================
