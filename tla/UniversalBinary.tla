-------------------------- MODULE UniversalBinary --------------------------
(***************************************************************************)
(* Universal binaries (src/device/universal_binary.cpp): build_archive     *)
(* compiles a program for several targets on a pool of tasks and writes an *)
(* archive, find_best_match_for_device chooses the binary for a device.    *)
(*                                                                         *)
(* A target is [type, version, minor, kind, device_target, caps, simd]:    *)
(*   version, minor  OpenCL version; SM and PTX ISA version; Metal version;*)
(*                   CPU tier; Vulkan and SPIR-V version                   *)
(*   kind            "spir"/"spirv", "cubin"/"ptx"/"ptx_aa", the Apple     *)
(*                   platform, "x86"/"arm", "-"                            *)
(*   caps            optional capabilities; simd: 0 for any width          *)
(* A device is [type, version, minor, kind, vendor, caps, simd_range];     *)
(* minor is the SPIR-V version (0: none) or the least PTX ISA version.     *)
(* A binary is the target it was compiled for.                             *)
(***************************************************************************)
EXTENDS Naturals, FiniteSets, Sequences

CONSTANTS
  BuildCases,  \* [targets, device]: archives to be built
  LoadCases,   \* [targets, device]: archives that exist already
  Workers,     \* logical cores
  Nothing,
  MaxFailures  \* bound: failing compilations and exceptions

ASSUME UniversalBinaryAssumption ==
  /\ MaxFailures \in Nat /\ IsFiniteSet(Workers)
  /\ \A c \in BuildCases \cup LoadCases : IsFiniteSet(c.targets) /\ c.targets # {}

-----------------------------------------------------------------------------
\* find_best_match_for_device: the checks of each backend

\* Mutation: only the least width is checked.
InSimdRangeOpenEnded(t, d) == t.simd = 0 \/ t.simd >= d.simd_range[1]
InSimdRange(t, d) == t.simd = 0 \/ t.simd \in d.simd_range[1]..d.simd_range[2]

cl_target_order ==
  <<"GENERIC", "GENERIC_CPU", "GENERIC_GPU", "INTEL_CPU", "INTEL_GPU", "AMD_CPU", "AMD_GPU">>
OpenCLDeviceTargetFits(t, d) ==
  /\ d.kind = "other" => t.device_target = "GENERIC"
  /\ t.device_target \in {"GENERIC_CPU", "INTEL_CPU", "AMD_CPU"} => d.kind = "cpu"
  /\ t.device_target \in {"GENERIC_GPU", "INTEL_GPU", "AMD_GPU"} => d.kind = "gpu"
  /\ t.device_target \in {"INTEL_CPU", "INTEL_GPU"} => d.vendor = "INTEL"
  /\ t.device_target \in {"AMD_CPU", "AMD_GPU"} => d.vendor = "AMD"
OpenCLFits(t, d) ==
  /\ t.version <= d.version
  /\ IF t.kind = "spir" THEN "spir" \in d.caps ELSE d.minor > 0
  /\ OpenCLDeviceTargetFits(t, d)
  /\ t.caps \subseteq d.caps
  /\ InSimdRange(t, d)

CudaFits(t, d) ==
  /\ IF t.kind = "ptx" THEN t.version <= d.version ELSE t.version = d.version
  /\ t.minor >= d.minor
  /\ t.caps \subseteq d.caps

MetalFits(t, d) ==
  /\ t.kind = d.kind
  /\ t.version <= d.version
  /\ t.device_target # "GENERIC" => t.device_target = d.vendor
  /\ t.kind # "MACOS" => t.device_target = "APPLE"
  /\ InSimdRange(t, d)
  /\ t.caps \cap {"barycentric_coord"} \subseteq d.caps

HostFits(t, d) == t.kind = d.kind /\ t.version <= d.version

\* low_iub_count and low_desc_set_count are the absence of high_iub and high_desc_set.
VulkanFits(t, d) ==
  /\ t.version <= d.version /\ t.minor <= d.minor
  /\ t.device_target # "GENERIC" => t.device_target = d.vendor
  /\ InSimdRange(t, d)
  /\ t.caps \ {"mesh_shading", "mip_levels"} \subseteq d.caps

\* The version of the toolchain is left out: an archive with a binary of a toolchain
\* older than the required one is refused when it is loaded, with the same constant.
Fits(t, d) ==
  /\ t.type = d.type
  /\ CASE t.type = "OPENCL" -> OpenCLFits(t, d)
       [] t.type = "CUDA" -> CudaFits(t, d)
       [] t.type = "METAL" -> MetalFits(t, d)
       [] t.type = "HOST" -> HostFits(t, d)
       [] t.type = "VULKAN" -> VulkanFits(t, d)

-----------------------------------------------------------------------------
\* ... and its comparisons of a candidate with the best target so far. Each is a
\* sequence of pairs <<candidate, best>>; the first pair that differs decides.

Flag(b) == IF b THEN 1 ELSE 0
Rank(order, x) == CHOOSE n \in 1..Len(order) : order[n] = x
Count(t, counted) == Cardinality(t.caps \cap counted)

OpenCLPairs(t, b) ==
  << <<t.version, b.version>>,
     IF t.version >= 20 THEN <<Flag(t.kind # "spir"), Flag(b.kind # "spir")>> ELSE <<0, 0>>,
     <<Rank(cl_target_order, t.device_target), Rank(cl_target_order, b.device_target)>>,
     <<Cardinality(t.caps), Cardinality(b.caps)>>,
     IF "sub_group" \in t.caps THEN <<t.simd, b.simd>> ELSE <<0, 0>> >>

CudaPairs(t, b) ==
  << <<Flag(t.kind = "cubin"), Flag(b.kind = "cubin")>>,
     IF t.kind = "ptx" THEN <<t.version, b.version>> ELSE <<0, 0>>,
     <<t.minor, b.minor>>,
     <<Cardinality(t.caps), Cardinality(b.caps)>> >>

mtl_target_order == <<"GENERIC", "APPLE", "AMD", "INTEL">>
MetalPairs(t, b) ==
  << <<t.version, b.version>>,
     <<Rank(mtl_target_order, t.device_target), Rank(mtl_target_order, b.device_target)>>,
     <<t.simd, b.simd>>,
     <<Count(t, {"barycentric_coord"}), Count(b, {"barycentric_coord"})>> >>

HostPairs(t, b) == << <<t.version, b.version>> >>

vlk_target_order == <<"GENERIC", "NVIDIA", "AMD", "INTEL">>
not_counted == {"high_iub", "high_desc_set", "mesh_shading"}
VulkanPairs(t, b) ==
  << <<t.version, b.version>>, <<t.minor, b.minor>>, <<t.simd, b.simd>>,
     <<Rank(vlk_target_order, t.device_target), Rank(vlk_target_order, b.device_target)>>,
     <<Cardinality(t.caps \ not_counted), Cardinality(b.caps \ not_counted)>> >>

Pairs(t, b) ==
  CASE t.type = "OPENCL" -> OpenCLPairs(t, b)
    [] t.type = "CUDA" -> CudaPairs(t, b)
    [] t.type = "METAL" -> MetalPairs(t, b)
    [] t.type = "HOST" -> HostPairs(t, b)
    [] t.type = "VULKAN" -> VulkanPairs(t, b)
Beats(t, b) ==
  LET p == Pairs(t, b) IN
  \E n \in DOMAIN p : p[n][1] > p[n][2] /\ \A m \in 1..n - 1 : p[m][1] = p[m][2]

-----------------------------------------------------------------------------
\* compile_target: what it refuses, and what it assumes of the device

\* The SIMD width a device of this target is given; AMD leaves it at its default
\* of 0, although it has checked the target's.
VulkanSimd(t) ==
  CASE t.device_target = "GENERIC" -> t.simd
    [] t.device_target \in {"NVIDIA", "INTEL"} -> 32
    [] t.device_target = "AMD" -> 0
VulkanRefuses(t) ==
  \/ t.device_target = "AMD" /\ t.simd \notin {32, 64}
  \/ t.device_target # "GENERIC" /\ t.simd > 0 /\ VulkanSimd(t) # t.simd

MetalSimd(t) ==
  CASE t.kind # "MACOS" \/ t.device_target \in {"INTEL", "APPLE"} -> 32
    [] OTHER -> t.simd
MetalRefuses(t) ==
  /\ t.kind = "MACOS"
  /\ \/ t.device_target = "AMD" /\ t.simd \notin {32, 64}
     \/ t.device_target # "GENERIC" /\ t.simd > 0 /\ MetalSimd(t) # t.simd

OpenCLSimd(t) ==
  CASE t.simd > 0 -> t.simd
    [] t.simd = 0 /\ t.device_target \in {"INTEL_CPU", "AMD_CPU"} -> 4
    [] t.simd = 0 /\ t.device_target = "INTEL_GPU" -> 16
    [] OTHER -> 0

\* SM 9.1 and later need PTX ISA 8.4, all others 8.0.
CudaRefuses(t) == t.minor < IF t.version > 90 THEN 84 ELSE 80

Refuses(t) ==
  CASE t.type = "VULKAN" -> VulkanRefuses(t)
    [] t.type = "METAL" -> MetalRefuses(t)
    [] t.type = "CUDA" -> CudaRefuses(t)
    [] OTHER -> FALSE

\* The device properties the compiled code relies on.
AssumedSimd(t) ==
  CASE t.type = "OPENCL" -> OpenCLSimd(t)
    [] t.type = "METAL" -> MetalSimd(t)
    [] t.type = "VULKAN" -> VulkanSimd(t)
    [] OTHER -> 0
AssumedSpirv(t) ==
  CASE t.type = "VULKAN" -> t.minor
    [] t.type = "OPENCL" /\ t.kind = "spirv" -> IF "sub_group_ballot" \in t.caps THEN 13 ELSE 10
    [] OTHER -> 0

\* The bit fields of a target.
IsTarget(t) ==
  /\ t.type \in {"OPENCL", "CUDA", "METAL", "HOST", "VULKAN"}
  /\ t.version \in Nat /\ t.minor \in Nat /\ t.simd \in Nat /\ IsFiniteSet(t.caps)
  /\ t.type = "OPENCL" => \E n \in 1..7 : t.device_target = cl_target_order[n]
  /\ t.type = "CUDA" => t.kind \in {"ptx", "ptx_aa", "cubin"}
  /\ t.type = "METAL" => /\ \E n \in 1..4 : t.device_target = mtl_target_order[n]
                         /\ t.caps \subseteq {"barycentric_coord", "mesh_shading"}
  /\ t.type = "HOST" => t.caps = {}
  /\ t.type = "VULKAN" => \E n \in 1..4 : t.device_target = vlk_target_order[n]

\* SPIR-V starts with version 1.0, and the SIMD width is 32 on all Apple devices but Macs.
IsDevice(d) ==
  /\ d.minor \in Nat /\ (d.type = "OPENCL" => d.minor = 0 \/ d.minor >= 10)
  /\ d.type = "METAL" /\ d.kind # "MACOS" => d.simd_range = <<32, 32>>

\* An archive that exists has been built: compile_target has refused other widths.
ASSUME TargetsAssumption ==
  /\ \A c \in BuildCases \cup LoadCases : IsDevice(c.device) /\ \A t \in c.targets : IsTarget(t)
  /\ \A c \in LoadCases : \A t \in c.targets :
       (t.type = "VULKAN" \/ (t.type = "METAL" /\ t.kind = "MACOS")) /\ t.simd # 0
         => AssumedSimd(t) \in {0, t.simd}

-----------------------------------------------------------------------------
VARIABLES
  case,                    \* the targets and the device
  targets,                 \* in the order of the archive
  remaining_targets,       \* indices to be compiled
  targets_prog_data,       \* results by index
  remaining_compile_jobs,
  compilation_successful,
  job,                     \* job[w]: what the task does
  build_target,            \* build_target[w]: index it has taken
  main,                    \* what the calling thread does
  archive,                 \* the binaries written
  best,                    \* index of the binary for the device, 0 for none
  failures                 \* bound

buildVars == <<case, targets, remaining_targets, targets_prog_data, remaining_compile_jobs,
               compilation_successful, job, build_target, main, archive, best, failures>>

Orders(S) == {s \in [1..Cardinality(S) -> S] : \A i, j \in DOMAIN s : s[i] = s[j] => i = j}
JobCount == IF Cardinality(Workers) < Len(targets) THEN Cardinality(Workers) ELSE Len(targets)
Indices == [n \in 1..Len(targets) |-> n]

\* The order of the targets is that of an unordered_set.
BuildInit ==
  /\ \/ case \in BuildCases /\ main = "spawn"
     \/ case \in LoadCases /\ main = "load"
  /\ targets \in Orders(case.targets)
  /\ remaining_targets = Indices
  /\ targets_prog_data = [n \in 1..Len(targets) |-> Nothing]
  /\ remaining_compile_jobs = JobCount
  /\ compilation_successful = TRUE
  /\ job = [w \in Workers |-> "none"]
  /\ build_target = [w \in Workers |-> 0]
  /\ archive = IF main = "load" THEN targets ELSE <<>>
  /\ best = 0
  /\ failures = 0

Does(w, s) == job' = [job EXCEPT ![w] = s]

\* build_archive starts its tasks.
SpawnJobs ==
  /\ main = "spawn"
  /\ \E S \in SUBSET Workers : /\ Cardinality(S) = JobCount
                               /\ job' = [w \in Workers |-> IF w \in S THEN "check" ELSE "none"]
  /\ main' = "wait"
  /\ UNCHANGED <<case, targets, remaining_targets, targets_prog_data, remaining_compile_jobs,
                 compilation_successful, build_target, archive, best, failures>>

\* while (compilation_successful)
CheckSuccess(w) ==
  /\ job[w] = "check"
  /\ Does(w, IF compilation_successful THEN "take" ELSE "end")
  /\ UNCHANGED <<case, targets, remaining_targets, targets_prog_data, remaining_compile_jobs,
                 compilation_successful, build_target, main, archive, best, failures>>

\* under targets_lock
TakeTarget(w) ==
  /\ job[w] = "take"
  /\ IF remaining_targets = <<>>
     THEN Does(w, "end") /\ UNCHANGED <<remaining_targets, build_target>>
     ELSE /\ build_target' = [build_target EXCEPT ![w] = Head(remaining_targets)]
          /\ remaining_targets' = Tail(remaining_targets)
          /\ Does(w, "compile")
  /\ UNCHANGED <<case, targets, targets_prog_data, remaining_compile_jobs,
                 compilation_successful, main, archive, best, failures>>

\* compile_target, reading the binary and hashing it
CompileTarget(w) ==
  /\ job[w] = "compile" /\ ~Refuses(targets[build_target[w]])
  /\ Does(w, "store")
  /\ UNCHANGED <<case, targets, remaining_targets, targets_prog_data, remaining_compile_jobs,
                 compilation_successful, build_target, main, archive, best, failures>>

\* Mutation: a failing task returns at once.
CompileFailsReturns(w) ==
  /\ job[w] = "compile"
  /\ \/ Refuses(targets[build_target[w]]) /\ failures' = failures
     \/ failures < MaxFailures /\ failures' = failures + 1
  /\ compilation_successful' = FALSE
  /\ Does(w, "none")
  /\ UNCHANGED <<case, targets, remaining_targets, targets_prog_data, remaining_compile_jobs,
                 build_target, main, archive, best>>

\* The target is refused, or the compiler or the file fails.
CompileFails(w) ==
  /\ job[w] = "compile"
  /\ \/ Refuses(targets[build_target[w]]) /\ failures' = failures
     \/ failures < MaxFailures /\ failures' = failures + 1
  /\ compilation_successful' = FALSE
  /\ Does(w, "end")
  /\ UNCHANGED <<case, targets, remaining_targets, targets_prog_data, remaining_compile_jobs,
                 build_target, main, archive, best>>

\* An exception ends the task (task::run logs it); the job is never counted down.
CompileThrows(w) ==
  /\ job[w] = "compile" /\ failures < MaxFailures
  /\ failures' = failures + 1
  /\ Does(w, "thrown")
  /\ UNCHANGED <<case, targets, remaining_targets, targets_prog_data, remaining_compile_jobs,
                 compilation_successful, build_target, main, archive, best>>

\* Mutation: results are appended as they come.
StoreProgramAppended(w) ==
  /\ job[w] = "store"
  /\ LET free == {n \in DOMAIN targets : targets_prog_data[n] = Nothing}
         first == CHOOSE n \in free : \A m \in free : n <= m
     IN targets_prog_data' = [targets_prog_data EXCEPT ![first] = targets[build_target[w]]]
  /\ Does(w, "check")
  /\ UNCHANGED <<case, targets, remaining_targets, remaining_compile_jobs,
                 compilation_successful, build_target, main, archive, best, failures>>

\* under prog_data_lock
StoreProgram(w) ==
  /\ job[w] = "store"
  /\ targets_prog_data' = [targets_prog_data EXCEPT ![build_target[w]] = targets[build_target[w]]]
  /\ Does(w, "check")
  /\ UNCHANGED <<case, targets, remaining_targets, remaining_compile_jobs,
                 compilation_successful, build_target, main, archive, best, failures>>

\* --remaining_compile_jobs is the last the task does with build_archive's variables.
EndJob(w) ==
  /\ job[w] = "end"
  /\ remaining_compile_jobs' = remaining_compile_jobs - 1
  /\ Does(w, "none")
  /\ UNCHANGED <<case, targets, remaining_targets, targets_prog_data,
                 compilation_successful, build_target, main, archive, best, failures>>

\* The calling thread polls; then it checks the results and writes the archive.
WriteArchive ==
  /\ main = "wait" /\ remaining_compile_jobs = 0
  /\ IF compilation_successful /\ \A n \in DOMAIN targets : targets_prog_data[n] # Nothing
     THEN archive' = targets_prog_data /\ main' = "load"
     ELSE archive' = archive /\ main' = "failed"
  /\ UNCHANGED <<case, targets, remaining_targets, targets_prog_data, remaining_compile_jobs,
                 compilation_successful, job, build_target, best, failures>>

\* find_best_match_for_device looks at the targets in turn.
BestOf(ts, d) ==
  LET found[n \in 0..Len(ts)] ==
        IF n = 0 THEN 0
        ELSE LET b == found[n - 1] IN
             IF Fits(ts[n], d) /\ (b = 0 \/ Beats(ts[n], ts[b])) THEN n ELSE b
  IN found[Len(ts)]
FindBestMatch ==
  /\ main = "load"
  /\ best' = BestOf(targets, case.device)
  /\ main' = "done"
  /\ UNCHANGED <<case, targets, remaining_targets, targets_prog_data, remaining_compile_jobs,
                 compilation_successful, job, build_target, archive, failures>>

JobStep(w) ==
  CheckSuccess(w) \/ TakeTarget(w) \/ CompileTarget(w) \/ CompileFails(w) \/ CompileThrows(w)
  \/ StoreProgram(w) \/ EndJob(w)

BuildNext == SpawnJobs \/ (\E w \in Workers : JobStep(w)) \/ WriteArchive \/ FindBestMatch
BuildSpec == BuildInit /\ [][BuildNext]_buildVars

\* Tasks are threads, and the calling thread polls.
BuildFairness ==
  /\ WF_buildVars(SpawnJobs) /\ WF_buildVars(WriteArchive) /\ WF_buildVars(FindBestMatch)
  /\ \A w \in Workers : WF_buildVars(JobStep(w))

-----------------------------------------------------------------------------
\* Properties

\* An archive has for each target the binary compiled for it, none is missing, and
\* when build_archive returns no task uses its variables any more.
ArchiveMatches ==
  /\ main \in {"load", "done"} => archive = targets
  /\ main \in {"load", "done", "failed"} => \A w \in Workers : job[w] = "none"

\* The order of the targets in the archive may decide: an architecture-accelerated
\* PTX, or an OpenCL target without sub-groups, skips a comparison.
OneSided(t) ==
  \/ t.type = "CUDA" /\ t.kind = "ptx_aa"
  \/ t.type = "OPENCL" /\ "sub_group" \notin t.caps

\* The chosen binary fits the device, there is one if any fits, and no other that
\* fits would replace it.
ChoiceIsBest ==
  main = "done" =>
    LET fitting == {t \in case.targets : Fits(t, case.device)} IN
    /\ (best = 0) <=> (fitting = {})
    /\ best # 0 => /\ targets[best] \in fitting
                   /\ \A t \in fitting : Beats(t, targets[best]) => \E u \in fitting : OneSided(u)

\* What compile_target assumed of the device holds on the device the binary is
\* chosen for; but for a width no target named, mesh shading, the number of mip
\* levels, and the SPIR-V version that sub-group ballots imply, which nobody checks.
AssumptionsHold ==
  main = "done" /\ best # 0 =>
    LET t == targets[best]
        d == case.device
        simd == AssumedSimd(t)
    IN /\ simd # 0 /\ t.simd # 0 => simd \in d.simd_range[1]..d.simd_range[2]
       /\ t.caps \ {"mesh_shading", "mip_levels"} \subseteq d.caps
       /\ ~(t.type = "OPENCL" /\ "sub_group_ballot" \in t.caps) => AssumedSpirv(t) <= d.minor

ChoiceIsSound == ChoiceIsBest /\ AssumptionsHold

\* A build ends, with an archive if compile_target accepts all targets, unless a
\* compilation failed. (After an exception it never ends.)
BuildReturns ==
  main = "wait" ~> \/ main = "done"
                   \/ failures > 0
                   \/ main = "failed" /\ \E t \in case.targets : Refuses(t)
=============================================================================
