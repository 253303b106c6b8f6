\* Window: two frames at a time on one image (two slots), one resize, one failing
\* call; both slots are in use, so the search wraps, waits and takes a slot again.
\* VR: two frames on two images, a session that begins, ends and begins again.
\* Archives of up to three targets.
SPECIFICATION Spec
CONSTANTS
  Parts <- AllParts
  Renderers = {r1, r2}
  Resizer = resizer
  Images = 1
  None = None
  MaxFrames = 3
  MaxResizes = 1
  MaxErrors = 1
  VrRenderers = {v1, v2}
  VrImages = 2
  NoVr = NoVr
  MaxVrFrames = 3
  MaxChanges = 7
  MaxPending = 1
  MaxVrErrors = 1
  BuildCases <- MCBuildCases
  LoadCases <- MCLoadCases
  Workers = {w1, w2}
  Nothing = Nothing
  MaxFailures = 1
INVARIANTS
  FramesAreSafe
  VrSessionIsSound
  ArchiveMatches
  ChoiceIsSound
PROPERTIES
  CallsReturn
\* All frames are done, one waits for something lost, and a build
\* that is done stays so.
CHECK_DEADLOCK FALSE
