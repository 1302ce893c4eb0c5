----------------------------- MODULE MCServices -----------------------------
(***************************************************************************)
(* The parts of the application around the voice and the engine, and the   *)
(* loop detector with its own history: they call each other only at their  *)
(* ends, if at all, and are checked in one run.  "subject"                 *)
(* says which of them this behaviour is about; the others stay as they     *)
(* begin.                                                                  *)
(***************************************************************************)
EXTENDS LoopDetector, FiniteSets

CONSTANTS MaxSteps, MaxTools, MaxChunks, MaxLate,
          Models, Evictors, Unregistered, MaxUsers,
          Ids, Ops,
          Indices, MaxEvents,
          Urls, MaxResults, MaxRedirects, MaxAddresses, NoUrl,
          Requests,
          Prompts, MaxPrompts, Window, Cooldown, Timeout, Workers

VARIABLES
    subject,
    agent, asked, token, killed, lease, hook, handlers, ended,
    models, eviction,
    sqlite, vectors, available, clock, op, stale,
    phase, sent, acc, got, outcome,
    call, found, answer, page, redirects, tries, attempts,
    mode, pc, signalled, part, main, stdin, failed, gone,
    governed, hasModel, foreground, request, leased,
    history, cooldown, waiting, verdicts, readers, queue, stuck, line, shown

Agent == INSTANCE AgentSession WITH request <- asked, late <- handlers, outcome <- ended
Lifecycle == INSTANCE ModelLifecycle
Memory == INSTANCE MemoryStore
Http == INSTANCE HttpStream
Web == INSTANCE WebTools WITH pc <- call
Program == INSTANCE App
Seeing == INSTANCE Vision
Confirm == INSTANCE ConfirmationHook
             WITH Requests <- Prompts, asked <- waiting, outcome <- verdicts, stale <- stuck

ASSUME LimitsAssumption == Confirm!Limits
ASSUME HttpAssumption == Indices \subseteq Nat
ASSUME WebAssumption == MaxResults \in Nat \ {0} /\ MaxRedirects \in Nat /\ MaxAddresses \in Nat
ASSUME UnregisteredAssumption == Unregistered \notin Lifecycle!Record

agentVars == <<agent, asked, token, killed, lease, hook, handlers, ended>>
lifecycleVars == <<models, eviction>>
memoryVars == <<sqlite, vectors, available, clock, op, stale>>
httpVars == <<phase, sent, acc, got, outcome>>
webVars == <<call, found, answer, page, redirects, tries, attempts>>
appVars == <<mode, pc, signalled, part, main, stdin, failed, gone>>
visionVars == <<governed, hasModel, foreground, request, leased>>
loopVars == <<detector, calls, screens>>
promptVars == <<history, cooldown, waiting, verdicts, readers, queue, stuck, line, shown>>

ServicesInit ==
    /\ subject \in {"agent", "lifecycle", "memory", "http", "web", "app", "vision",
                     "loops", "prompts"}
    /\ Init /\ Confirm!Init
    /\ Agent!Init /\ Lifecycle!Init /\ Memory!Init /\ Http!Init /\ Web!Init
    /\ Program!Init /\ Seeing!Init
    /\ subject # "app" => mode = [kind |-> "cli", engine |-> TRUE]
    /\ subject # "memory" => \A m \in Ids : sqlite[m] = None
    /\ subject # "vision" => /\ governed /\ hasModel /\ foreground
                             /\ \A r \in Requests : request[r].tool = "ocr"

serviceVars == <<subject, agentVars, lifecycleVars, memoryVars, httpVars, webVars, appVars,
                visionVars, loopVars, promptVars>>

AgentNext ==
    /\ subject = "agent" /\ Agent!Next
    /\ UNCHANGED <<subject, lifecycleVars, memoryVars, httpVars, webVars,
                   appVars, visionVars, loopVars, promptVars>>

LifecycleNext ==
    /\ subject = "lifecycle" /\ Lifecycle!Next
    /\ UNCHANGED <<subject, agentVars, memoryVars, httpVars, webVars,
                   appVars, visionVars, loopVars, promptVars>>

MemoryNext ==
    /\ subject = "memory" /\ Memory!Next
    /\ UNCHANGED <<subject, agentVars, lifecycleVars, httpVars, webVars,
                   appVars, visionVars, loopVars, promptVars>>

HttpNext ==
    /\ subject = "http" /\ Http!Next
    /\ UNCHANGED <<subject, agentVars, lifecycleVars, memoryVars, webVars,
                   appVars, visionVars, loopVars, promptVars>>

WebNext ==
    /\ subject = "web" /\ Web!Next
    /\ UNCHANGED <<subject, agentVars, lifecycleVars, memoryVars, httpVars,
                   appVars, visionVars, loopVars, promptVars>>

AppNext ==
    /\ subject = "app" /\ Program!Next
    /\ UNCHANGED <<subject, agentVars, lifecycleVars, memoryVars, httpVars,
                   webVars, visionVars, loopVars, promptVars>>

VisionNext ==
    /\ subject = "vision" /\ Seeing!Next
    /\ UNCHANGED <<subject, agentVars, lifecycleVars, memoryVars, httpVars,
                   webVars, appVars, loopVars, promptVars>>

LoopNext ==
    /\ subject = "loops" /\ Next
    /\ UNCHANGED <<subject, agentVars, lifecycleVars, memoryVars, httpVars,
                   webVars, appVars, visionVars, promptVars>>

PromptNext ==
    /\ subject = "prompts" /\ Confirm!Next
    /\ UNCHANGED <<subject, agentVars, lifecycleVars, memoryVars, httpVars,
                   webVars, appVars, visionVars, loopVars>>

ServicesNext ==
    \/ AgentNext \/ LifecycleNext \/ MemoryNext \/ HttpNext \/ WebNext \/ AppNext \/ VisionNext
    \/ LoopNext \/ PromptNext

ServicesSpec ==
    /\ ServicesInit /\ [][ServicesNext]_serviceVars
    /\ subject = "agent" => Agent!Fairness
    /\ subject = "prompts" => Confirm!Fairness

(* LoopsAreFound is that of LoopDetector. *)
BurstsAreBounded == Confirm!BurstsAreBounded
NothingLeftBehind == Agent!NothingLeftBehind
RequestsEnd == /\ subject = "agent" => Agent!RequestsEnd
               /\ subject = "prompts" => Confirm!EveryRequestEnds
BusyIsSpared == Lifecycle!BusyIsSpared
ForgottenIsNotRecalled == Memory!ForgottenIsNotRecalled
AnswerIsWhatWasMeant == Http!AnswerIsWhatWasMeant
WhatWasFoundIsAnswered == Web!WhatWasFoundIsAnswered
EverythingIsTakenDown == Program!EverythingIsTakenDown
ModelOnlyUnderLease == Seeing!ModelOnlyUnderLease
=============================================================================
