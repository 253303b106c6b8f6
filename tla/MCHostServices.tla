--------------------------- MODULE MCHostServices ---------------------------
(***************************************************************************)
(* What runs on the host beside the device backends: the logger, the event *)
(* system and the execution of functions on the CPU. They have no state in *)
(* common: a behaviour is one of one part.                                 *)
(***************************************************************************)
EXTENDS HostExec, EventSystem, Logger

CONSTANT Parts

VARIABLE part

vars == <<part, launchVars, eventVars, loggerVars>>

Init ==
  /\ part \in Parts
  /\ LaunchInit /\ EventInit /\ LogInit
  /\ part # "launch" => program = <<>>
  /\ part # "logger" => synchronous

Next ==
  \/ part = "launch" /\ LaunchNext /\ UNCHANGED <<part, eventVars, loggerVars>>
  \/ part = "events" /\ EventNext /\ UNCHANGED <<part, launchVars, loggerVars>>
  \/ part = "logger" /\ LogNext /\ UNCHANGED <<part, launchVars, eventVars>>

\* The OS schedules the worker threads of a launch.
LaunchFairness == \A c \in Cpus : WF_launchVars(part = "launch" /\ CpuStep(c))

\* The main thread calls handle_events again and again, the event thread is
\* scheduled, handlers return. A thread that waits for a lock that is free again
\* and again gets it.
EventFairness ==
  /\ WF_eventVars(part = "events" /\ HandleEventsStep)
  /\ WF_eventVars(part = "events" /\ EventRunStep)
  /\ WF_eventVars(part = "events" /\ Returns)
  /\ SF_eventVars(part = "events" /\ HandleQueued)
  /\ SF_eventVars(part = "events" /\ HandlerAdded)

\* All threads are scheduled and timed waits end.
LogFairness ==
  /\ WF_loggerVars(part = "logger" /\ LogThreadStep)
  /\ WF_loggerVars(part = "logger" /\ DestroyStep)
  /\ \A c \in Callers : WF_loggerVars(part = "logger" /\ WaitEnds(c))

Spec == Init /\ [][Next]_vars /\ LaunchFairness /\ EventFairness /\ LogFairness

AllParts == {"launch", "events", "logger"}
=============================================================================
