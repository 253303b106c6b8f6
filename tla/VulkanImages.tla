---------------------------- MODULE VulkanImages ----------------------------
(***************************************************************************)
(* Image layouts in the Vulkan backend (src/device/vulkan/vulkan_image.cpp,*)
(* internal/vulkan_image_internal.cpp, vulkan_renderer.cpp).               *)
(*                                                                         *)
(* An image object remembers the layout and the access its last transition *)
(* was for (cur) and makes the next barrier from that. The device has the  *)
(* layout that what was submitted so far left behind (actual). The two     *)
(* meet as long as every barrier is submitted, once, and in the order the  *)
(* transitions were made in: a "soft" transition changes cur at once and   *)
(* leaves the barrier to the caller.                                       *)
(*                                                                         *)
(* Submissions of one queue take effect in order. A command buffer is what *)
(* it does to each image: the layout it finds and the one it leaves.       *)
(***************************************************************************)
EXTENDS Naturals, FiniteSets

CONSTANTS
  Images,
  KindCases,         \* the kinds of the images that are tried: "texture" is only read,
                     \* "storage" also written; "color" and "depth" are render targets;
                     \* "eye" is a VR image
  MaxStrayed,        \* bound: images that strayed before the behaviour is given up
  MaxMapped          \* bound: images that are mapped at a time

ASSUME ImagesAssumption ==
  /\ KindCases \subseteq [Images -> {"texture", "storage", "color", "depth", "eye"}]
  /\ MaxStrayed \in Nat /\ MaxMapped \in Nat

VARIABLES
  kind,      \* of each image
  cur,       \* its cur_access_mask and image_info.imageLayout
  actual,    \* the layout it has after everything that was submitted
  mapped,    \* the flags an image is mapped with, or "leaving" at the end of unmap
  renderer,  \* a vulkan_renderer
  wrong,     \* images that were used or moved in another layout than they had
  strayed    \* images whose barrier was lost, repeated, or overtaken

imageVars == <<kind, cur, actual, mapped, renderer, wrong, strayed>>

IsTarget(i) == kind[i] \in {"color", "depth", "eye"}

-----------------------------------------------------------------------------
\* What is recorded into a command buffer

Untouched == [used |-> FALSE, from |-> "UNDEFINED", to |-> "UNDEFINED", ok |-> TRUE]
EmptyBuffer == [i \in Images |-> Untouched]
Move(i, from, to) == [image |-> i, from |-> from, to |-> to]

\* A barrier, or a use (which leaves the layout as it is).
Put(buffer, m) ==
  LET mark == buffer[m.image] IN
  [buffer EXCEPT ![m.image] =
     IF mark.used THEN [mark EXCEPT !.to = m.to, !.ok = mark.ok /\ mark.to = m.from]
     ELSE [used |-> TRUE, from |-> m.from, to |-> m.to, ok |-> TRUE]]
\* One vkCmdPipelineBarrier2: at most one barrier per image.
PutAll(buffer, moves) ==
  [i \in Images |->
     IF \E m \in moves : m.image = i
     THEN Put(buffer, CHOOSE m \in moves : m.image = i)[i] ELSE buffer[i]]

Found(m, layout) == m.from \in {layout, "UNDEFINED"}
\* After the submission of a buffer: layouts, and images it found in a wrong one
LayoutsAfter(layouts, buffer) ==
  [i \in Images |-> IF buffer[i].used THEN buffer[i].to ELSE layouts[i]]
WrongIn(layouts, buffer) ==
  {i \in Images : buffer[i].used /\ ~(buffer[i].ok /\ Found(buffer[i], layouts[i]))}
Moved(buffer) == {i \in Images : buffer[i].used /\ buffer[i].from # buffer[i].to}

-----------------------------------------------------------------------------
\* Transitions. A tracked state is [layout, access]; a transition leads to another one.

State(layout, access) == [layout |-> layout, access |-> access]
BarrierOf(i, old, new) == Move(i, old.layout, new.layout)

\* transition_read
ReadState(i) ==
  CASE kind[i] = "depth" -> State("DEPTH_READ_ONLY", {"depth_read"})
    [] OTHER -> State("SHADER_READ_ONLY", {"shader_read"})
\* transition_write: direct writes of render targets are those of shaders
WriteState(i, read_write, is_rt_direct_write) ==
  IF ~IsTarget(i) \/ is_rt_direct_write
  THEN State("GENERAL", {"shader_write"} \cup IF read_write THEN {"shader_read"} ELSE {})
  ELSE IF kind[i] = "depth"
  THEN State("DEPTH_ATTACHMENT", {"depth_write"} \cup IF read_write THEN {"depth_read"} ELSE {})
  ELSE State("COLOR_ATTACHMENT", {"color_write"} \cup IF read_write THEN {"color_read"} ELSE {})

\* Mutation: the access alone decides.
IsInByAccess(state, wanted) == wanted.access \subseteq state.access
IsIn(state, wanted) == state.layout = wanted.layout /\ wanted.access \subseteq state.access
\* transition_read and transition_write do nothing if the image is there already
Transitioned(state, wanted) == IF IsIn(state, wanted) THEN state ELSE wanted

\* The states an image goes through in one command buffer, and their last one
TransferDst == State("TRANSFER_DST", {"transfer_write"})
TransferSrc == State("TRANSFER_SRC", {"transfer_read"})

-----------------------------------------------------------------------------
\* The renderer

NoRenderer ==
  [stage |-> "none", pass |-> [i \in Images |-> "none"], att |-> {}, att_recorded |-> FALSE,
   img |-> {}, img_performed |-> FALSE, buffer |-> EmptyBuffer, drawable |-> {},
   is_presenting |-> FALSE]

\* Images the renderer has moved, or uses, in what is not submitted yet
Open ==
  {m.image : m \in IF renderer.att_recorded THEN {} ELSE renderer.att}
  \cup {m.image : m \in IF renderer.img_performed THEN {} ELSE renderer.img}
  \cup {i \in Images : renderer.buffer[i].used} \cup {d.image : d \in renderer.drawable}
\* Images that are the renderer's from set_attachments on
Taken == Open \cup IF renderer.stage \in {"none", "idle"} THEN {}
                  ELSE {i \in Images : renderer.pass[i] # "none"}

\* A command block is made, recorded and submitted (VK_CMD_BLOCK): images is what it
\* is about, next their tracked state afterwards. Making it may fail, which leaves
\* everything as it was; when the submission fails its barriers are lost.
Block(images, next, buffer) ==
  \/ /\ cur' = next
     /\ actual' = LayoutsAfter(actual, buffer)
     /\ wrong' = wrong \cup WrongIn(actual, buffer)
     /\ strayed' = strayed \cup (images \cap Taken)
  \/ UNCHANGED <<cur, actual, wrong, strayed>>
  \/ /\ cur' = next
     /\ strayed' = strayed \cup (images \cap Taken) \cup Moved(buffer)
     /\ UNCHANGED <<actual, wrong>>

\* A transition with its own command buffer
TransitionTo(i, wanted) ==
  IF IsIn(cur[i], wanted)
  THEN UNCHANGED <<cur, actual, wrong, strayed>>
  ELSE Block({i}, [cur EXCEPT ![i] = wanted],
             Put(EmptyBuffer, BarrierOf(i, cur[i], wanted)))

\* A transfer, and the state the image has afterwards
Transfer(buffer, i, during, after) ==
  Put(Put(Put(buffer, BarrierOf(i, cur[i], during)), BarrierOf(i, during, during)),
      BarrierOf(i, during, after))

\* The constructor: to the general or the attachment layout, then to the defined usage
Created(i) ==
  IF IsTarget(i)
  THEN State(WriteState(i, FALSE, FALSE).layout, WriteState(i, FALSE, FALSE).access)
  ELSE LET first == State("GENERAL", {}) IN
       Transitioned(first, IF kind[i] = "texture" THEN ReadState(i) ELSE WriteState(i, FALSE, FALSE))

ImagesInit ==
  /\ kind \in KindCases
  /\ cur = [i \in Images |-> Created(i)]
  /\ actual = [i \in Images |-> cur[i].layout]
  /\ mapped = [i \in Images |-> {}]
  /\ renderer = NoRenderer
  /\ wrong = {} /\ strayed = {}

-----------------------------------------------------------------------------
\* Operations of images. Render targets cannot be copied from or to.

Copyable(i) == kind[i] \in {"texture", "storage"}

\* zero: clears an image in the transfer layout, and a render target with a clear
\* pass, which expects and leaves the attachment layout
zero(i) ==
  /\ kind[i] # "eye"
  /\ IF ~IsTarget(i)
     THEN Block({i}, cur, Transfer(EmptyBuffer, i, TransferDst, cur[i]))
     ELSE LET layout == WriteState(i, FALSE, FALSE).layout IN
       /\ actual' = [actual EXCEPT ![i] = layout]
       /\ wrong' = IF actual[i] = layout THEN wrong ELSE wrong \cup {i}
       /\ strayed' = IF cur[i].layout = layout THEN strayed \cup ({i} \cap Taken) ELSE strayed \cup {i}
       /\ UNCHANGED <<cur>>
  /\ UNCHANGED <<kind, mapped, renderer>>

\* blit: the source, unless it is in the transfer layout already
Source(buffer, src) ==
  IF cur[src].layout = "TRANSFER_SRC" THEN Put(buffer, Move(src, "TRANSFER_SRC", "TRANSFER_SRC"))
  ELSE Transfer(buffer, src, TransferSrc, cur[src])
\* blit, blit_async: both images go back to where they were
blit(dst, src) ==
  /\ Copyable(dst) /\ Copyable(src) /\ dst # src
  /\ Block({dst, src}, cur, Transfer(Source(EmptyBuffer, src), dst, TransferDst, cur[dst]))
  /\ UNCHANGED <<kind, mapped, renderer>>

\* The usage an image goes back to
Usage(i) == IF kind[i] = "texture" THEN ReadState(i) ELSE WriteState(i, FALSE, FALSE)

\* write, through a staging buffer or (host_image_copy_support) by the host itself
write(i) ==
  /\ Copyable(i)
  /\ \/ Block({i}, [cur EXCEPT ![i] = Usage(i)], Transfer(EmptyBuffer, i, TransferDst, Usage(i)))
     \/ /\ wrong' = wrong \cup WrongIn(actual, Put(EmptyBuffer, BarrierOf(i, cur[i], cur[i])))
        /\ strayed' = strayed \cup ({i} \cap Taken)
        /\ UNCHANGED <<cur, actual>>
  /\ UNCHANGED <<kind, mapped, renderer>>

\* map: to the transfer layout if the image is read
map(i, flags) ==
  /\ Copyable(i) /\ mapped[i] = {}
  /\ Cardinality({j \in Images : mapped[j] # {}}) < MaxMapped
  /\ IF "READ" \in flags
     THEN Block({i}, [cur EXCEPT ![i] = TransferSrc],
                Put(Put(EmptyBuffer, BarrierOf(i, cur[i], TransferSrc)), BarrierOf(i, TransferSrc, TransferSrc)))
     ELSE UNCHANGED <<cur, actual, wrong, strayed>>
  /\ mapped' = [mapped EXCEPT ![i] = IF "READ" \in flags => cur'[i] = TransferSrc THEN flags ELSE {}]
  /\ UNCHANGED <<kind, renderer>>

\* unmap: what was written is copied back, which may fail and leave it mapped; then
\* (leave_transfer) the image leaves the transfer layouts
unmap(i, discard) ==
  /\ mapped[i] \notin {{}, {"leaving"}}
  /\ IF "WRITE" \in mapped[i] /\ ~discard
     THEN /\ Block({i}, [cur EXCEPT ![i] = TransferDst],
                   Put(Put(EmptyBuffer, BarrierOf(i, cur[i], TransferDst)), BarrierOf(i, TransferDst, TransferDst)))
          /\ mapped' = IF cur'[i] = TransferDst THEN [mapped EXCEPT ![i] = {"leaving"}] ELSE mapped
     ELSE /\ mapped' = [mapped EXCEPT ![i] = {"leaving"}]
          /\ UNCHANGED <<cur, actual, wrong, strayed>>
  /\ UNCHANGED <<kind, renderer>>

Unmapped(i) == IF cur[i].layout \in {"TRANSFER_SRC", "TRANSFER_DST"} THEN Usage(i) ELSE cur[i]
leave_transfer(i) ==
  /\ mapped[i] = {"leaving"}
  /\ TransitionTo(i, Unmapped(i))
  /\ mapped' = [mapped EXCEPT ![i] = {}]
  /\ UNCHANGED <<kind, renderer>>

\* Arguments of a function: each image at most once, as the access the function has
Wanted(i, access) ==
  IF access = "READ" THEN ReadState(i) ELSE WriteState(i, access = "READ_WRITE", TRUE)
Usable(i, access) == kind[i] # "eye" /\ (access # "READ" => kind[i] \in {"storage", "color"})
Arguments == {a \in [Images -> {"none", "READ", "WRITE", "READ_WRITE"}] :
                \A i \in Images : a[i] # "none" => Usable(i, a[i])}
ArgState(i, access) == IF access = "none" THEN cur[i] ELSE Transitioned(cur[i], Wanted(i, access))
ArgBarriers(args) ==
  {BarrierOf(i, cur[i], ArgState(i, args[i])) :
     i \in {j \in Images : args[j] # "none" /\ ~IsIn(cur[j], Wanted(j, args[j]))}}

\* The descriptors of an image, which a function uses it through, are made once, and
\* all of them for the general layout; an image that is only read is in another one.
DescriptorLayout == "GENERAL"
MisdescribedRead(i, access) ==
  access = "READ" /\ ArgState(i, access).layout # DescriptorLayout
\* A misdescribed image is held against the layout of its transition.
UsedIn(i, access) ==
  IF MisdescribedRead(i, access) THEN ArgState(i, access).layout ELSE DescriptorLayout
ArgUses(args) ==
  {Move(i, UsedIn(i, args[i]), UsedIn(i, args[i])) : i \in {j \in Images : args[j] # "none"}}

\* A function is executed: one barrier command for all its arguments, then the dispatch
execute(args) ==
  /\ \E i \in Images : args[i] # "none"
  /\ Block({i \in Images : args[i] # "none"}, [i \in Images |-> ArgState(i, args[i])],
           PutAll(PutAll(EmptyBuffer, ArgBarriers(args)), ArgUses(args)))
  /\ UNCHANGED <<kind, mapped, renderer>>

-----------------------------------------------------------------------------
\* Operations of the renderer

Unchanged == UNCHANGED <<kind, actual, mapped, wrong>>

\* The pass a renderer is made for says how each render target is attached.
create_renderer(pass) ==
  /\ renderer.stage = "none"
  /\ renderer' = [NoRenderer EXCEPT !.stage = "idle", !.pass = pass]
  /\ UNCHANGED <<cur, strayed>> /\ Unchanged

AttachedState(i, mode) == IF mode = "READ" THEN ReadState(i) ELSE WriteState(i, mode = "READ_WRITE", FALSE)
Attached == {i \in Images : renderer.pass[i] # "none"}

\* set_attachments: the barriers of an earlier call that were not recorded are gone
set_attachments ==
  /\ renderer.stage \in {"idle", "ended"}
  /\ LET wanted(i) == AttachedState(i, renderer.pass[i])
         moving == {i \in Attached : ~IsIn(cur[i], wanted(i))}
     IN /\ cur' = [i \in Images |-> IF i \in moving THEN wanted(i) ELSE cur[i]]
        /\ renderer' = [renderer EXCEPT !.att = {BarrierOf(i, cur[i], wanted(i)) : i \in moving},
                                        !.att_recorded = FALSE, !.stage = "set"]
        /\ strayed' = strayed \cup {m.image : m \in IF renderer.att_recorded THEN {} ELSE renderer.att}
                              \cup {i \in moving : \E m \in renderer.img : m.image = i /\ ~renderer.img_performed}
  /\ Unchanged

\* get_next_drawable, of a VR image (acquire_next_vr_image): the image is made
\* writable, and the renderer tracks it with an object of its own from there on
get_next_drawable(i) ==
  /\ renderer.stage = "idle" /\ kind[i] = "eye" /\ renderer.drawable = {}
  /\ TransitionTo(i, WriteState(i, FALSE, FALSE))
  /\ renderer' = [renderer EXCEPT !.drawable = {[image |-> i, state |-> cur'[i]]}]
  /\ UNCHANGED <<kind, mapped>>

\* begin: the attachments' barriers are recorded, then the pass, which expects and
\* leaves each attachment in its layout
begin ==
  LET attached == {Move(i, AttachedState(i, renderer.pass[i]).layout,
                           AttachedState(i, renderer.pass[i]).layout) : i \in Attached}
      drawn == {BarrierOf(d.image, d.state, WriteState(d.image, FALSE, FALSE)) : d \in renderer.drawable}
      att == renderer.att \cup drawn
  IN
  /\ renderer.stage \in {"set", "ended"}
  /\ renderer' = [renderer EXCEPT
       !.stage = "pass", !.att = att, !.att_recorded = TRUE,
       !.buffer = PutAll(PutAll(@, att), attached),
       !.drawable = {[d EXCEPT !.state = WriteState(d.image, FALSE, FALSE)] : d \in @}]
  /\ strayed' = strayed \cup {m.image : m \in IF renderer.att_recorded THEN renderer.att ELSE {}}
                        \cup {i \in Attached : \E m \in renderer.img : m.image = i}
                        \cup {d.image : d \in {e \in renderer.drawable : e.state = TransferSrc}}
  /\ UNCHANGED cur /\ Unchanged

\* draw: the arguments' images are moved at once; their barriers replace those of an
\* earlier draw, and are for a command buffer that comes before the renderer's
draw(args) ==
  /\ renderer.stage = "pass"
  /\ \A i \in Images : args[i] # "none" => i \notin Attached
  /\ LET barriers == ArgBarriers(args) IN
     /\ cur' = [i \in Images |-> ArgState(i, args[i])]
     /\ renderer' = [renderer EXCEPT !.img = barriers, !.img_performed = FALSE,
                                     !.buffer = PutAll(@, ArgUses(args))]
     /\ strayed' = strayed \cup {m.image : m \in IF renderer.img_performed THEN {} ELSE renderer.img}
                           \cup {m.image : m \in {b \in barriers : renderer.buffer[b.image].used}}
  /\ Unchanged

end ==
  /\ renderer.stage = "pass"
  /\ renderer' = [renderer EXCEPT !.stage = "ended"]
  /\ UNCHANGED <<cur, strayed>> /\ Unchanged

present ==
  /\ renderer.stage = "ended" /\ renderer.drawable # {} /\ ~renderer.is_presenting
  /\ renderer' = [renderer EXCEPT !.is_presenting = TRUE]
  /\ UNCHANGED <<cur, strayed>> /\ Unchanged

\* commit: first the barriers of the draws, then the renderer's command buffer. The
\* renderer ends, or (commit_and_continue) goes on with a new command buffer.
Presented(buffer) ==
  IF ~renderer.is_presenting THEN buffer
  ELSE PutAll(buffer, {BarrierOf(d.image, d.state, TransferSrc) : d \in renderer.drawable})
\* queue_present: the image object learns the state the renderer left the image in
QueuePresent(tracked) ==
  [i \in Images |-> IF renderer.is_presenting /\ i \in {d.image : d \in renderer.drawable}
                    THEN TransferSrc ELSE tracked[i]]
commit(is_finishing) ==
  LET first == PutAll(EmptyBuffer, renderer.img)
      between == LayoutsAfter(actual, first)
      last == Presented(renderer.buffer)
  IN
  /\ renderer.stage = "ended"
  /\ actual' = LayoutsAfter(between, last)
  /\ wrong' = wrong \cup WrongIn(actual, first) \cup WrongIn(between, last)
  /\ strayed' = strayed \cup {m.image : m \in IF renderer.img_performed THEN renderer.img ELSE {}}
  /\ cur' = QueuePresent(cur)
  /\ renderer' = IF is_finishing THEN NoRenderer
                 ELSE [renderer EXCEPT !.stage = "ended", !.buffer = EmptyBuffer, !.img_performed = TRUE,
                                       !.is_presenting = FALSE,
                                       !.drawable = IF renderer.is_presenting THEN {[d EXCEPT !.state = TransferSrc] : d \in @}
                                                    ELSE @]
  /\ UNCHANGED <<kind, mapped>>

\* A renderer is given up: its barriers are lost. So it is when begin, a draw or a
\* submission fails.
give_up ==
  /\ renderer.stage # "none"
  /\ renderer' = NoRenderer
  /\ strayed' = strayed \cup Open
  /\ UNCHANGED cur /\ Unchanged

Passes == {p \in [Images -> {"none", "READ", "WRITE", "READ_WRITE"}] :
             \A i \in Images : p[i] # "none" => kind[i] \in {"color", "depth"}}

ImagesNext ==
  /\ Cardinality(strayed) <= MaxStrayed
  /\ \/ \E i \in Images :
          \/ zero(i) \/ write(i) \/ leave_transfer(i) \/ get_next_drawable(i)
          \/ \E discard \in BOOLEAN : unmap(i, discard)
          \/ \E flags \in {{"READ"}, {"WRITE"}, {"READ", "WRITE"}} : map(i, flags)
          \/ \E src \in Images : blit(i, src)
     \/ \E args \in Arguments : execute(args) \/ draw(args)
     \/ \E pass \in Passes : create_renderer(pass)
     \/ set_attachments \/ begin \/ end \/ present \/ give_up
     \/ \E is_finishing \in BOOLEAN : commit(is_finishing)
ImagesSpec == ImagesInit /\ [][ImagesNext]_imageVars

-----------------------------------------------------------------------------
\* Properties

\* Every barrier, transfer, attachment and argument that is written finds its image on
\* the device in the layout it was made for, an argument that is only read in the one
\* its transition was to, and the object's idea of the layout is the truth whenever no
\* renderer is about to move the image. That layout of a read argument is not the one
\* its descriptor says (MisdescribedRead): there the code deviates at every use.
\* Excepted from the rest are images of which a barrier was lost (a draw
\* replaces the barriers of the draw before, set_attachments those of the call before,
\* a renderer is given up, a submission fails), performed twice (begin or a commit
\* repeats them), or overtaken (the image is used while a renderer has moved it), and
\* render targets that were cleared by zero() in another layout than the attachment's.
LayoutsAgree ==
  /\ wrong \subseteq strayed
  /\ \A i \in Images \ (strayed \cup Open) : cur[i].layout = actual[i]
=============================================================================
