------------------------------ MODULE StopFile ------------------------------
(***************************************************************************)
(* The stop-file protocol of rvpncli (cmd/rvpncli/main.go).  Every         *)
(* invocation is a process with a core of its own; a "start" keeps its     *)
(* process and polls for a file, a "stop" is another process that creates  *)
(* the file, a "restart" works on the core of its own process.             *)
(***************************************************************************)
EXTENDS Integers, FiniteSets

CONSTANTS Starters, Stoppers, Restarters,  \* processes by their -action
          Faults  \* subset of Calls: those that may fail

Calls == {"prepare", "remove", "start", "stop", "create"}

ASSUME StopFileAssumption ==
  /\ Starters \cap Stoppers = {} /\ (Starters \cup Stoppers) \cap Restarters = {}
  /\ Faults \subseteq Calls

Processes == Starters \cup Stoppers \cup Restarters

VARIABLES
  stopFile,   \* the file exists
  pc,         \* where each process is
  core,       \* the CoreState of each process's core
  asked,      \* history: the starters a stop was aimed at since they were launched
  kept        \* history: the starters that could not remove a file still there

vars == <<stopFile, pc, core, asked, kept>>
history == <<asked, kept>>

Running == {"remove", "start", "poll", "stop", "clean"}
Labels  == Running \cup {"new", "create", "stopOwn", "restart", "done", "failed"}

\* Types; and only a start that polls or stops has a core that is up.
TypeOK ==
  /\ stopFile \in BOOLEAN /\ asked \subseteq Starters /\ kept \subseteq Starters
  /\ pc \in [Processes -> Labels]
  /\ core \in [Processes -> {"STOPPED", "STARTED", "STOPPING"}]
  /\ \A p \in Processes : core[p] # "STOPPED" => pc[p] \in {"poll", "stop", "clean"}

Init ==
  /\ stopFile \in BOOLEAN  \* one may be left over
  /\ pc = [p \in Processes |-> "new"] /\ core = [p \in Processes |-> "STOPPED"]
  /\ asked = {} /\ kept = {}

Step(p, from, to) == pc[p] = from /\ pc' = [pc EXCEPT ![p] = to]

\* A process is launched, reads its flags and prepares its environment; it
\* may end there, before it has touched the file.
Launch(p) ==
  /\ \/ Step(p, "new", IF p \in Starters THEN "remove"
                       ELSE IF p \in Stoppers THEN "create" ELSE "restart")
     \/ "prepare" \in Faults /\ Step(p, "new", "failed")
  /\ UNCHANGED <<stopFile, core, history>>

\* The file is gone, for those too that could not remove it but have not found
\* it yet.
Removed == stopFile' = FALSE /\ kept' = {p \in kept : pc[p] \in {"stop", "clean"}}

-----------------------------------------------------------------------------
(* start                                                                   *)

\* Mutant: an old stop file is not removed.
RemoveForgets(p) == Step(p, "remove", "start") /\ UNCHANGED <<stopFile, core, history>>

\* os.Remove, its error ignored.
Remove(p) ==
  /\ Step(p, "remove", "start")
  /\ \/ Removed
     \/ /\ "remove" \in Faults /\ UNCHANGED stopFile
        /\ kept' = IF stopFile THEN kept \cup {p} ELSE kept
  /\ UNCHANGED <<core, asked>>

\* v2.Start; waitClashTCP goes on whether or not it succeeds.
StartCore(p) ==
  /\ \/ Step(p, "start", "poll") /\ core' = [core EXCEPT ![p] = "STARTED"]
     \/ "start" \in Faults /\ Step(p, "start", "failed") /\ UNCHANGED core
  /\ UNCHANGED <<stopFile, history>>

Poll(p) == Step(p, "poll", "stop") /\ stopFile /\ UNCHANGED <<stopFile, core, history>>

\* v2.Stop, its result ignored.
StopCore(p) ==
  /\ Step(p, "stop", "clean")
  /\ \/ core' = [core EXCEPT ![p] = "STOPPED"]
     \/ "stop" \in Faults /\ core' = [core EXCEPT ![p] = "STOPPING"]
  /\ UNCHANGED <<stopFile, history>>

\* os.Remove, its error ignored; the process ends, its core with it.
Clean(p) ==
  /\ Step(p, "clean", "done")
  /\ Removed \/ ("remove" \in Faults /\ UNCHANGED <<stopFile, kept>>)
  /\ core' = [core EXCEPT ![p] = "STOPPED"]
  /\ UNCHANGED asked

Start(p) == Remove(p) \/ StartCore(p) \/ Poll(p) \/ StopCore(p) \/ Clean(p)

-----------------------------------------------------------------------------
(* stop and restart                                                        *)

\* The file is for every starter that runs.
Create(p) ==
  /\ Step(p, "create", "stopOwn")
  /\ \/ stopFile' = TRUE /\ asked' = asked \cup {q \in Starters : pc[q] \in Running}
     \/ "create" \in Faults /\ UNCHANGED <<stopFile, asked>>
  /\ UNCHANGED <<core, kept>>

\* v2.Stop on the core of this process refuses: it is not started.
StopOwn(p) ==
  /\ core[p] # "STARTED" /\ Step(p, "stopOwn", "done")
  /\ UNCHANGED <<stopFile, core, history>>

\* Mutant: Restart brings up the core of its own process, which then ends.
RestartStarts(p) ==
  /\ Step(p, "restart", "done")
  /\ core' = [core EXCEPT ![p] = "STARTED"]
  /\ UNCHANGED <<stopFile, history>>

\* v2.Stop and v2.Restart on the core of this process refuse likewise.
Restart(p) ==
  /\ core[p] # "STARTED" /\ Step(p, "restart", "failed")
  /\ UNCHANGED <<stopFile, core, history>>

\* Another invocation of the same action.
Again(p) ==
  /\ pc[p] \in {"done", "failed"}
  /\ pc' = [pc EXCEPT ![p] = "new"]
  /\ asked' = asked \ {p} /\ kept' = kept \ {p}
  /\ UNCHANGED <<stopFile, core>>

-----------------------------------------------------------------------------
Advance(p) == Start(p) \/ Create(p) \/ StopOwn(p) \/ Restart(p)

Next == \E p \in Processes : Launch(p) \/ Advance(p) \/ Again(p)

Spec == Init /\ [][Next]_vars

\* A process that runs goes on; nobody has to launch one.
FairSpec == Spec /\ \A p \in Processes : WF_vars(Advance(p))

-----------------------------------------------------------------------------
(* Properties.                                                             *)

\* main.go:159 removes a stop file that may be old: a core is stopped only if
\* a stop was issued since its process was launched, whatever the other
\* starters and stoppers do with the file, or if the old file could not be
\* removed (160), nor was by anybody else before it was found.
NoStaleStop ==
  \A p \in Starters : pc[p] \in {"stop", "clean"} => p \in asked \cup kept

\* main.go:180: the stop file is created "so that the starting rvpncli stops
\* the core and exits".
StopStops ==
  \A p \in Starters : p \in asked ~> pc[p] \in {"done", "failed"}
=============================================================================
