-------------------------- MODULE MCDeviceContext --------------------------
(***************************************************************************)
(* What device_context offers besides queues and memory objects:           *)
(* presentation in a window and in VR, and universal binaries. The parts   *)
(* have no state in common (a renderer draws in a window or, multi-view,   *)
(* in VR), so a behaviour is one of one part.                              *)
(***************************************************************************)
EXTENDS VulkanSwapchain, VrSession, UniversalBinary

CONSTANT Parts

VARIABLE part

vars == <<part, swapchainVars, vrVars, buildVars>>

Init ==
  /\ part \in Parts
  /\ SwapchainInit /\ VrInit
  /\ IF part = "build" THEN BuildInit
     ELSE /\ case = CHOOSE c \in BuildCases : TRUE
          /\ main = "idle" /\ targets = CHOOSE s \in Orders(case.targets) : TRUE
          /\ remaining_targets = <<>> /\ targets_prog_data = <<>>
          /\ remaining_compile_jobs = 0 /\ compilation_successful = TRUE
          /\ job = [w \in Workers |-> "none"] /\ build_target = [w \in Workers |-> 0]
          /\ archive = <<>> /\ best = 0 /\ failures = 0

Next ==
  \/ part = "window" /\ SwapchainNext /\ UNCHANGED <<part, vrVars, buildVars>>
  \/ part = "vr" /\ VrNext /\ UNCHANGED <<part, swapchainVars, buildVars>>
  \/ part = "build" /\ BuildNext /\ UNCHANGED <<part, swapchainVars, vrVars>>

Spec == Init /\ [][Next]_vars /\ SwapchainFairness /\ VrFairness /\ BuildFairness

-----------------------------------------------------------------------------
\* An acquisition ends, in a window unless a slot was lost before or a frame waits for
\* a swapchain that is gone, in VR unless the lock of an image was kept before. Renderers
\* differ in their names only, and one of the two sides is always idle: it is enough to
\* follow one renderer of each side.
AcquireReturns ==
  LET r == CHOOSE x \in Renderers : TRUE
      v == CHOOSE x \in VrRenderers : TRUE
  IN (pc[r] = "lock" \/ vr_pc[v] = "lock")
       ~> /\ pc[r] \in {"acquired", "idle"} \/ lost # {} \/ gave_up
          /\ vr_pc[v] \in {"acquired", "idle"} \/ kept # {}

\* The calls that wait for others come back: acquisitions, and build_archive, which
\* waits for its tasks.
CallsReturn == AcquireReturns /\ BuildReturns

-----------------------------------------------------------------------------
\* Targets and devices

Target(type, version, minor, kind, device_target, caps, simd) ==
  [type |-> type, version |-> version, minor |-> minor, kind |-> kind,
   device_target |-> device_target, caps |-> caps, simd |-> simd]
Device(type, version, minor, kind, vendor, caps, simd_range) ==
  [type |-> type, version |-> version, minor |-> minor, kind |-> kind,
   vendor |-> vendor, caps |-> caps, simd_range |-> simd_range]

CL(version, kind, dt, caps, simd) == Target("OPENCL", version, 0, kind, dt, caps, simd)
OpenCLTargets ==
  {CL(12, "spir", "GENERIC", {}, 0), CL(20, "spirv", "GENERIC", {}, 0), CL(20, "spir", "INTEL_GPU", {}, 0),
   CL(20, "spirv", "INTEL_GPU", {"sub_group"}, 16), CL(20, "spirv", "INTEL_GPU", {"sub_group", "sub_group_ballot"}, 8),
   CL(20, "spirv", "INTEL_GPU", {"double"}, 32), CL(20, "spirv", "AMD_CPU", {"double"}, 0), CL(30, "spirv", "GENERIC_CPU", {}, 4)}
OpenCLDevices ==
  {Device("OPENCL", 20, 10, "gpu", "INTEL", {"spir", "sub_group", "sub_group_ballot", "double"}, <<8, 32>>),
   Device("OPENCL", 30, 10, "cpu", "AMD", {"double"}, <<4, 4>>),
   Device("OPENCL", 12, 0, "other", "ANY", {"spir"}, <<1, 1>>)}

PTX(version, isa, kind, caps) == Target("CUDA", version, isa, kind, "-", caps, 0)
CudaTargets ==
  {PTX(80, 80, "ptx", {}), PTX(80, 85, "ptx", {"depth_compare"}), PTX(90, 80, "ptx_aa", {}), PTX(90, 80, "ptx", {}),
   PTX(90, 85, "cubin", {}), PTX(75, 70, "ptx", {}), PTX(100, 80, "ptx", {})}
CudaDevices == {Device("CUDA", v, 80, "-", "NVIDIA", {}, <<32, 32>>) : v \in {75, 90}}
               \cup {Device("CUDA", 90, 80, "-", "NVIDIA", {"depth_compare"}, <<32, 32>>)}

Metal(version, kind, dt, caps, simd) == Target("METAL", version, 0, kind, dt, caps, simd)
MetalTargets ==
  {Metal(30, "MACOS", "GENERIC", {}, 0), Metal(30, "MACOS", "APPLE", {"mesh_shading"}, 32),
   Metal(30, "MACOS", "AMD", {}, 64), Metal(30, "MACOS", "AMD", {"barycentric_coord"}, 0),
   Metal(40, "MACOS", "GENERIC", {"barycentric_coord"}, 0),
   Metal(30, "IOS", "APPLE", {}, 0), Metal(30, "IOS", "GENERIC", {}, 0)}
MetalDevices ==
  {Device("METAL", 40, 0, "MACOS", "APPLE", {"barycentric_coord"}, <<32, 32>>),
   Device("METAL", 30, 0, "MACOS", "AMD", {}, <<32, 64>>), Device("METAL", 30, 0, "IOS", "APPLE", {}, <<32, 32>>)}

Host(kind, tier) == Target("HOST", tier, 0, kind, "-", {}, 0)
HostTargets == {Host("x86", 1), Host("x86", 3), Host("x86", 4), Host("arm", 2)}
HostDevices == {Device("HOST", 3, 0, "x86", "HOST", {}, <<1, 8>>), Device("HOST", 6, 0, "arm", "HOST", {}, <<1, 4>>)}

Vulkan(version, spirv, dt, caps, simd) == Target("VULKAN", version, spirv, "-", dt, caps, simd)
VulkanTargets ==
  {Vulkan(13, 16, "GENERIC", {}, 0), Vulkan(13, 16, "GENERIC", {"double", "mip_levels"}, 0),
   Vulkan(13, 16, "NVIDIA", {"double"}, 0), Vulkan(13, 16, "AMD", {}, 64), Vulkan(13, 16, "INTEL", {}, 32),
   Vulkan(13, 16, "GENERIC", {"high_iub", "mesh_shading"}, 32), Vulkan(14, 16, "GENERIC", {}, 16)}
VulkanDevices ==
  {Device("VULKAN", 13, 16, "-", "NVIDIA", {"double", "high_iub"}, <<32, 32>>),
   Device("VULKAN", 14, 16, "-", "INTEL", {}, <<8, 16>>), Device("VULKAN", 14, 16, "-", "AMD", {"double"}, <<32, 64>>)}

SomeOf(S) == {T \in SUBSET S : Cardinality(T) \in 1..3}
CasesOf(S, devices) == {[targets |-> T, device |-> d] : T \in SomeOf(S), d \in devices}
MCLoadCases ==
  CasesOf(OpenCLTargets, OpenCLDevices) \cup CasesOf(CudaTargets, CudaDevices) \cup CasesOf(MetalTargets, MetalDevices)
  \cup CasesOf(HostTargets, HostDevices) \cup CasesOf(VulkanTargets, VulkanDevices)
MCBuildCases ==
  {[targets |-> {PTX(80, 80, "ptx", {}), PTX(90, 80, "ptx", {}), Host("x86", 1)}, device |-> CHOOSE d \in CudaDevices : d.version = 90],
   [targets |-> {Host("x86", 1), Vulkan(13, 16, "AMD", {}, 64)}, device |-> CHOOSE d \in HostDevices : d.kind = "x86"],
   [targets |-> {Metal(30, "MACOS", "AMD", {"barycentric_coord"}, 0)}, device |-> CHOOSE d \in HostDevices : d.kind = "x86"]}
AllParts == {"window", "vr", "build"}
=============================================================================
