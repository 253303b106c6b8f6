----------------------------- MODULE VrSession -----------------------------
(***************************************************************************)
(* An OpenXR session: the events and the frame loop of openxr_context      *)
(* (src/vr/openxr_context.cpp), as acquire_next_vr_image and queue_present *)
(* of src/device/vulkan/vulkan_context.cpp use it.                         *)
(*                                                                         *)
(* The main thread polls events and begins and ends the session; renderers *)
(* acquire images under acquisition_lock and present them, possibly on     *)
(* completion threads and while the next frame is acquired. The runtime    *)
(* (xr...) is external. Every result but XR_SUCCESS counts as a failure,   *)
(* XR_FRAME_DISCARDED too.                                                 *)
(***************************************************************************)
EXTENDS Naturals, Sequences, FiniteSets

CONSTANTS
  VrRenderers,
  VrImages,    \* number of images of the swapchain
  NoVr,
  MaxVrFrames, \* bound: acquisitions
  MaxChanges,  \* bound: changes of the session state
  MaxPending,  \* bound: events not polled yet
  MaxVrErrors  \* bound: failing calls and frames given up

ASSUME VrAssumption ==
  NoVr \notin VrRenderers \cup Nat /\ VrImages \in Nat \ {0}
  /\ MaxVrFrames \in Nat /\ MaxChanges \in Nat /\ MaxPending \in Nat /\ MaxVrErrors \in Nat

VrImageIds == 0..VrImages - 1

VARIABLES
  session_state,   \* of the runtime (external)
  running,         \* between xrBeginSession and xrEndSession (external)
  xr_events,       \* states the main thread has not polled yet (external)
  frame_waited, frame_begun, \* the frame of the runtime (external)
  xr_acquired,     \* images acquired and not released, oldest first (external)
  is_focused,
  vr_acquisition_lock,
  vr_image_index, vr_image_locks,
  external_swapchain_images,
  cur_swapchain_image,
  cur_should_render,
  vr_pc,
  vr_drawable,     \* index of the renderer's image, or NoVr
  kept,            \* images whose lock nobody will unlock: the acquisition had no image,
                   \* or the renderer gave the frame up
  overlapped,      \* a frame was begun to be acquired before the last was presented
  vr_frames, changes, vr_errors \* bounds

runtime == <<session_state, running, xr_events, frame_waited, frame_begun, xr_acquired>>
frame == <<frame_waited, frame_begun>>
current == <<external_swapchain_images, cur_swapchain_image, cur_should_render>>
vr_bounds == <<vr_frames, changes, vr_errors>>
vr_history == <<kept, overlapped>>
vrVars == <<runtime, is_focused, vr_acquisition_lock, vr_image_index, vr_image_locks, current,
            vr_pc, vr_drawable, vr_history, vr_bounds>>

VrInit ==
  /\ session_state = "idle" /\ running = FALSE /\ xr_events = <<>>
  /\ frame_waited = FALSE /\ frame_begun = FALSE /\ xr_acquired = <<>>
  /\ is_focused = FALSE
  /\ vr_acquisition_lock = NoVr
  /\ vr_image_index = 0 /\ vr_image_locks = [i \in VrImageIds |-> FALSE]
  /\ external_swapchain_images = [i \in VrImageIds |-> NoVr]
  /\ cur_swapchain_image = NoVr /\ cur_should_render = FALSE
  /\ vr_pc = [r \in VrRenderers |-> "idle"]
  /\ vr_drawable = [r \in VrRenderers |-> NoVr]
  /\ kept = {} /\ overlapped = FALSE
  /\ vr_frames = 0 /\ changes = 0 /\ vr_errors = 0

VrGo(r, label) == vr_pc' = [vr_pc EXCEPT ![r] = label]
VrFails == vr_errors < MaxVrErrors /\ vr_errors' = vr_errors + 1
NoError == vr_errors' = vr_errors

-----------------------------------------------------------------------------
\* The runtime changes the state of the session (external).

Follows ==
  [idle |-> {"ready", "exiting"}, ready |-> {}, synchronized |-> {"visible", "stopping", "loss_pending"},
   visible |-> {"focused", "synchronized"}, focused |-> {"visible"}, stopping |-> {},
   exiting |-> {}, loss_pending |-> {}]
ChangeState(s) ==
  /\ session_state' = s
  /\ xr_events' = Append(xr_events, s)
SessionChanges ==
  /\ changes < MaxChanges /\ Len(xr_events) < MaxPending
  /\ \/ \E s \in Follows[session_state] : ChangeState(s)
     \/ session_state = "ready" /\ running /\ ChangeState("synchronized")
  /\ changes' = changes + 1
  /\ UNCHANGED <<running, frame, xr_acquired, is_focused, vr_acquisition_lock, vr_image_index,
                 vr_image_locks, current, vr_pc, vr_drawable, vr_history, vr_frames, vr_errors>>

\* Mutation: the end of the session leaves is_focused.
PollEventKeepsFocus ==
  /\ xr_events # <<>>
  /\ LET s == Head(xr_events)
         begins == s = "ready" /\ ~running
         ends == s \in {"stopping", "exiting", "loss_pending"} /\ running /\ session_state = "stopping"
     IN /\ is_focused' = (is_focused \/ s = "focused")
        /\ running' = ((running \/ begins) /\ ~ends)
        /\ frame_waited' = (frame_waited /\ ~ends)
        /\ frame_begun' = (frame_begun /\ ~ends)
        /\ session_state' = IF ends THEN "idle" ELSE session_state
  /\ xr_events' = Tail(xr_events)
  /\ UNCHANGED <<xr_acquired, vr_acquisition_lock, vr_image_index, vr_image_locks, current,
                 vr_pc, vr_drawable, vr_history, vr_bounds>>

\* handle_input: one event. xrBeginSession and xrEndSession may be refused by the
\* runtime; that is logged only.
PollEvent ==
  /\ xr_events # <<>>
  /\ LET s == Head(xr_events)
         begins == s = "ready" /\ ~running
         ends == s \in {"stopping", "exiting", "loss_pending"}
         accepted == ends /\ running /\ session_state = "stopping"
     IN /\ is_focused' = ((is_focused \/ s = "focused") /\ ~ends)
        /\ running' = ((running \/ begins) /\ ~accepted)
        /\ frame_waited' = (frame_waited /\ ~accepted)
        /\ frame_begun' = (frame_begun /\ ~accepted)
        /\ session_state' = IF accepted THEN "idle" ELSE session_state
  /\ xr_events' = Tail(xr_events)
  /\ UNCHANGED <<xr_acquired, vr_acquisition_lock, vr_image_index, vr_image_locks, current,
                 vr_pc, vr_drawable, vr_history, vr_bounds>>

-----------------------------------------------------------------------------
\* acquire_next_image takes acquisition_lock, acquire_next_vr_image the next image.

VrAcquire(r) ==
  /\ vr_pc[r] = "idle" /\ vr_frames < MaxVrFrames
  /\ VrGo(r, "lock")
  /\ vr_frames' = vr_frames + 1
  /\ UNCHANGED <<runtime, is_focused, vr_acquisition_lock, vr_image_index, vr_image_locks, current,
                 vr_drawable, vr_history, changes, vr_errors>>

VrLock(r) ==
  /\ vr_pc[r] = "lock" /\ vr_acquisition_lock = NoVr
  /\ vr_acquisition_lock' = r
  /\ vr_image_index' = (vr_image_index + 1) % VrImages
  /\ VrGo(r, "image_lock")
  /\ UNCHANGED <<runtime, is_focused, vr_image_locks, current, vr_drawable, vr_history, vr_bounds>>

\* A spin lock; then openxr_context::acquire_next_image resets the image.
LockImage(r) ==
  /\ vr_pc[r] = "image_lock" /\ ~vr_image_locks[vr_image_index]
  /\ vr_image_locks' = [vr_image_locks EXCEPT ![vr_image_index] = TRUE]
  /\ vr_drawable' = [vr_drawable EXCEPT ![r] = vr_image_index]
  /\ cur_swapchain_image' = NoVr
  /\ overlapped' = (overlapped \/ \E o \in VrRenderers : vr_drawable[o] # NoVr)
  /\ VrGo(r, "wait_frame")
  /\ UNCHANGED <<runtime, is_focused, vr_acquisition_lock, vr_image_index, external_swapchain_images,
                 cur_should_render, kept, vr_bounds>>

\* xrWaitFrame; cur_frame_state is reset before. It blocks while a frame that has
\* been waited for is not begun.
WaitFrame(r) ==
  /\ vr_pc[r] = "wait_frame"
  /\ \/ /\ running /\ ~frame_waited
        /\ frame_waited' = TRUE
        /\ cur_should_render' \in BOOLEAN
        /\ VrGo(r, "begin_frame") /\ NoError
     \/ /\ ~running \/ VrFails
        /\ running => vr_errors' = vr_errors + 1
        /\ ~running => NoError
        /\ cur_should_render' = FALSE
        /\ VrGo(r, "no_image") /\ UNCHANGED frame_waited
  /\ UNCHANGED <<session_state, running, xr_events, frame_begun, xr_acquired, is_focused,
                 vr_acquisition_lock, vr_image_index, vr_image_locks, external_swapchain_images,
                 cur_swapchain_image, vr_drawable, vr_history, vr_frames, changes>>

\* xrBeginFrame; a frame that was begun before is discarded, which counts as failure.
\* When the call itself fails, the frame has been waited for and is not begun.
BeginFrame(r) ==
  /\ vr_pc[r] = "begin_frame"
  /\ \/ /\ frame_waited
        /\ frame_waited' = FALSE /\ frame_begun' = TRUE
        /\ VrGo(r, IF ~frame_begun /\ cur_should_render THEN "views" ELSE "no_image")
        /\ NoError
     \/ /\ ~frame_waited \/ VrFails
        /\ ~frame_waited => NoError
        /\ VrGo(r, "no_image") /\ UNCHANGED frame
  /\ UNCHANGED <<session_state, running, xr_events, xr_acquired, is_focused, vr_acquisition_lock,
                 vr_image_index, vr_image_locks, current, vr_drawable, vr_history, vr_frames, changes>>

\* xrLocateViews, xrLocateSpace, then xrAcquireSwapchainImage
AcquireSwapchainImage(r) ==
  /\ vr_pc[r] = "views"
  /\ LET free == VrImageIds \ {xr_acquired[n] : n \in DOMAIN xr_acquired} IN
     \/ \E i \in free :
          /\ \A j \in free : i <= j
          /\ xr_acquired' = Append(xr_acquired, i)
          /\ VrGo(r, "wait_image") /\ NoError
     \/ /\ free = {} \/ vr_errors < MaxVrErrors
        /\ vr_errors' = IF free = {} THEN vr_errors ELSE vr_errors + 1
        /\ VrGo(r, "no_image") /\ UNCHANGED xr_acquired
  /\ UNCHANGED <<session_state, running, xr_events, frame, is_focused, vr_acquisition_lock, vr_image_index,
                 vr_image_locks, current, vr_drawable, vr_history, vr_frames, changes>>

\* xrWaitSwapchainImage
WaitSwapchainImage(r) ==
  /\ vr_pc[r] = "wait_image"
  /\ \/ LET i == xr_acquired[Len(xr_acquired)] IN
          /\ NoError
          /\ cur_swapchain_image' = i
          /\ external_swapchain_images' = [external_swapchain_images EXCEPT ![vr_drawable[r]] = i]
          /\ vr_acquisition_lock' = NoVr
          /\ VrGo(r, "acquired")
     \/ /\ VrFails
        /\ VrGo(r, "no_image")
        /\ UNCHANGED <<cur_swapchain_image, external_swapchain_images, vr_acquisition_lock>>
  /\ UNCHANGED <<runtime, is_focused, vr_image_index, vr_image_locks, cur_should_render, vr_drawable,
                 vr_history, vr_frames, changes>>

\* No image: present(nullptr) ends the frame, if there is one; when it should have
\* been rendered its layer may not be complete and be refused. The lock stays.
NoImage(r) ==
  /\ vr_pc[r] = "no_image"
  /\ frame_begun' \in {FALSE, frame_begun /\ cur_should_render}
  /\ kept' = kept \cup {vr_drawable[r]}
  /\ vr_drawable' = [vr_drawable EXCEPT ![r] = NoVr]
  /\ vr_acquisition_lock' = NoVr
  /\ VrGo(r, "idle")
  /\ UNCHANGED <<session_state, running, xr_events, frame_waited, xr_acquired, is_focused, vr_image_index,
                 vr_image_locks, current, overlapped, vr_bounds>>

-----------------------------------------------------------------------------
\* The renderer fails before it presents, in begin() or in its submission, or it is
\* dropped: nobody unlocks the image.
GiveUpFrame(r) ==
  /\ vr_pc[r] = "acquired" /\ VrFails
  /\ kept' = kept \cup {vr_drawable[r]}
  /\ vr_drawable' = [vr_drawable EXCEPT ![r] = NoVr]
  /\ VrGo(r, "idle")
  /\ UNCHANGED <<runtime, is_focused, vr_acquisition_lock, vr_image_index, vr_image_locks, current,
                 overlapped, vr_frames, changes>>

\* queue_present: present() refuses an image that is not the current one, and
\* releases the oldest image of the swapchain; the lock is unlocked in any case.

Present(r) ==
  /\ vr_pc[r] = "acquired"
  /\ VrGo(r, IF external_swapchain_images[vr_drawable[r]] # cur_swapchain_image
             THEN "unlock"
             ELSE IF cur_should_render THEN "release" ELSE "end_frame")
  /\ UNCHANGED <<runtime, is_focused, vr_acquisition_lock, vr_image_index, vr_image_locks, current,
                 vr_drawable, vr_history, vr_bounds>>

ReleaseSwapchainImage(r) ==
  /\ vr_pc[r] = "release"
  /\ \/ /\ xr_acquired # <<>>
        /\ xr_acquired' = Tail(xr_acquired)
        /\ VrGo(r, "end_frame") /\ NoError
     \/ /\ xr_acquired = <<>> \/ vr_errors < MaxVrErrors
        /\ vr_errors' = IF xr_acquired = <<>> THEN vr_errors ELSE vr_errors + 1
        /\ VrGo(r, "unlock") /\ UNCHANGED xr_acquired
  /\ UNCHANGED <<session_state, running, xr_events, frame, is_focused, vr_acquisition_lock, vr_image_index,
                 vr_image_locks, current, vr_drawable, vr_history, vr_frames, changes>>

\* xrEndFrame; its failure is logged only
EndFrame(r) ==
  /\ vr_pc[r] = "end_frame"
  /\ frame_begun' = FALSE
  /\ VrGo(r, "unlock")
  /\ UNCHANGED <<session_state, running, xr_events, frame_waited, xr_acquired, is_focused,
                 vr_acquisition_lock, vr_image_index, vr_image_locks, current, vr_drawable, vr_history, vr_bounds>>

UnlockImage(r) ==
  /\ vr_pc[r] = "unlock"
  /\ vr_image_locks' = [vr_image_locks EXCEPT ![vr_drawable[r]] = FALSE]
  /\ vr_drawable' = [vr_drawable EXCEPT ![r] = NoVr]
  /\ VrGo(r, "idle")
  /\ UNCHANGED <<runtime, is_focused, vr_acquisition_lock, vr_image_index, current, vr_history, vr_bounds>>

-----------------------------------------------------------------------------
VrStep(r) ==
  \/ LockImage(r) \/ WaitFrame(r) \/ BeginFrame(r) \/ AcquireSwapchainImage(r) \/ WaitSwapchainImage(r)
  \/ NoImage(r) \/ GiveUpFrame(r) \/ Present(r) \/ ReleaseSwapchainImage(r) \/ EndFrame(r) \/ UnlockImage(r)

VrNext ==
  \/ SessionChanges \/ PollEvent
  \/ \E r \in VrRenderers : VrAcquire(r) \/ VrLock(r) \/ VrStep(r)

VrSpec == VrInit /\ [][VrNext]_vrVars

\* The main thread polls, renderers run on; the mutex is taken by others in between.
VrFairness ==
  /\ WF_vrVars(PollEvent)
  /\ \A r \in VrRenderers : SF_vrVars(VrLock(r)) /\ WF_vrVars(VrStep(r))

-----------------------------------------------------------------------------
\* Properties

\* The lock of an image is held by the one frame that uses it, from its acquisition
\* until it is presented, or for good when the acquisition returned no image or the
\* renderer gave the frame up.
VrLockMatchesFrame ==
  \A i \in VrImageIds :
    LET users == {r \in VrRenderers : vr_drawable[r] = i} IN
    /\ Cardinality(users) + Cardinality({i} \cap kept) <= 1
    /\ vr_image_locks[i] <=> (users # {} \/ i \in kept)

\* "still need to call present() to finish the frame": unless frames overlap or a
\* call fails, a frame that was begun is ended and its image released before the
\* next is acquired, also when the session ends in the middle of it.
FramesAreEnded ==
  vr_errors = 0 /\ ~overlapped /\ (\A r \in VrRenderers : vr_drawable[r] = NoVr)
  => ~frame_begun /\ xr_acquired = <<>>

\* Input is only synchronised while the session runs. (Not: while it has the
\* focus; is_focused stays when the session only becomes visible.)
FocusMeansRunning == is_focused => running

VrSessionIsSound == VrLockMatchesFrame /\ FramesAreEnded /\ FocusMeansRunning
=============================================================================
