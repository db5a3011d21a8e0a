---------------------------- MODULE StopFileProofs ----------------------------
(***************************************************************************)
(* That no start is ever stopped by a stop file older than its launch      *)
(* unless it could not remove that file, for any number of processes and   *)
(* whatever calls fail.                                                    *)
(***************************************************************************)
EXTENDS StopFile, TLAPS

\* Whoever finds the file once it is past the removal of the old one was asked
\* to stop, or that removal failed and nobody else's has gone well since.
FileIsFresh ==
  \A p \in Starters : stopFile /\ pc[p] \in {"start", "poll"} => p \in asked \cup kept

\* Only a start goes through the steps of a start.
Placed ==
  \A p \in Processes : pc[p] \in Running => p \in Starters

IInv == TypeOK /\ Placed /\ FileIsFresh /\ NoStaleStop

LEMMA InitInv == Init => IInv
  BY StopFileAssumption
  DEF Init, IInv, TypeOK, Placed, FileIsFresh, NoStaleStop, Labels, Running, Processes

\* Every step of a process preserves IInv.
LEMMA ProcessInv ==
  ASSUME IInv, NEW p \in Processes, Launch(p) \/ Advance(p) \/ Again(p)
  PROVE  IInv'
<1> USE StopFileAssumption DEF IInv
<1>0. Starters \subseteq Processes
  BY DEF Processes
<1>1. CASE Launch(p)
  <2>1. TypeOK'
    BY <1>0, <1>1 DEF Launch, history, Step, TypeOK, Placed, Labels, Running, Processes
  <2>2. Placed'
    BY <1>0, <1>1 DEF Launch, history, Step, TypeOK, Placed, Labels, Running, Processes
  <2>3. FileIsFresh' /\ NoStaleStop'
    BY <1>0, <1>1 DEF Launch, history, Step, TypeOK, Placed, FileIsFresh, NoStaleStop, Labels, Running
  <2>4. QED
    BY <2>1, <2>2, <2>3
<1>2. CASE Remove(p)
  <2>1. TypeOK'
    BY <1>0, <1>2 DEF Remove, history, Removed, Step, TypeOK, Placed, Labels, Running, Processes
  <2>2. Placed'
    BY <1>0, <1>2 DEF Remove, history, Removed, Step, TypeOK, Placed, Labels, Running, Processes
  <2>3. FileIsFresh' /\ NoStaleStop'
    BY <1>0, <1>2 DEF Remove, history, Removed, Step, TypeOK, Placed, FileIsFresh, NoStaleStop, Labels, Running
  <2>4. QED
    BY <2>1, <2>2, <2>3
<1>3. CASE StartCore(p)
  <2>1. TypeOK'
    BY <1>0, <1>3 DEF StartCore, history, Step, TypeOK, Placed, Labels, Running, Processes
  <2>2. Placed'
    BY <1>0, <1>3 DEF StartCore, history, Step, TypeOK, Placed, Labels, Running, Processes
  <2>3. FileIsFresh' /\ NoStaleStop'
    BY <1>0, <1>3 DEF StartCore, history, Step, TypeOK, Placed, FileIsFresh, NoStaleStop, Labels, Running
  <2>4. QED
    BY <2>1, <2>2, <2>3
<1>4. CASE Poll(p)
  <2>1. TypeOK'
    BY <1>0, <1>4 DEF Poll, history, Step, TypeOK, Placed, Labels, Running, Processes
  <2>2. Placed'
    BY <1>0, <1>4 DEF Poll, history, Step, TypeOK, Placed, Labels, Running, Processes
  <2>3. FileIsFresh' /\ NoStaleStop'
    BY <1>0, <1>4 DEF Poll, history, Step, TypeOK, Placed, FileIsFresh, NoStaleStop, Labels, Running
  <2>4. QED
    BY <2>1, <2>2, <2>3
<1>5. CASE StopCore(p)
  <2>1. TypeOK'
    BY <1>0, <1>5 DEF StopCore, history, Step, TypeOK, Placed, Labels, Running, Processes
  <2>2. Placed'
    BY <1>0, <1>5 DEF StopCore, history, Step, TypeOK, Placed, Labels, Running, Processes
  <2>3. FileIsFresh' /\ NoStaleStop'
    BY <1>0, <1>5 DEF StopCore, history, Step, TypeOK, Placed, FileIsFresh, NoStaleStop, Labels, Running
  <2>4. QED
    BY <2>1, <2>2, <2>3
<1>6. CASE Clean(p)
  <2>1. TypeOK'
    BY <1>0, <1>6 DEF Clean, history, Removed, Step, TypeOK, Placed, Labels, Running, Processes
  <2>2. Placed'
    BY <1>0, <1>6 DEF Clean, history, Removed, Step, TypeOK, Placed, Labels, Running, Processes
  <2>3. FileIsFresh' /\ NoStaleStop'
    BY <1>0, <1>6 DEF Clean, history, Removed, Step, TypeOK, Placed, FileIsFresh, NoStaleStop, Labels, Running
  <2>4. QED
    BY <2>1, <2>2, <2>3
<1>7. CASE Create(p)
  <2>1. TypeOK'
    BY <1>0, <1>7 DEF Create, history, Step, TypeOK, Placed, Labels, Running, Processes
  <2>2. Placed'
    BY <1>0, <1>7 DEF Create, history, Step, TypeOK, Placed, Labels, Running, Processes
  <2>3. FileIsFresh' /\ NoStaleStop'
    BY <1>0, <1>7 DEF Create, history, Step, TypeOK, Placed, FileIsFresh, NoStaleStop, Labels, Running
  <2>4. QED
    BY <2>1, <2>2, <2>3
<1>8. CASE StopOwn(p)
  <2>1. TypeOK'
    BY <1>0, <1>8 DEF StopOwn, history, Step, TypeOK, Placed, Labels, Running, Processes
  <2>2. Placed'
    BY <1>0, <1>8 DEF StopOwn, history, Step, TypeOK, Placed, Labels, Running, Processes
  <2>3. FileIsFresh' /\ NoStaleStop'
    BY <1>0, <1>8 DEF StopOwn, history, Step, TypeOK, Placed, FileIsFresh, NoStaleStop, Labels, Running
  <2>4. QED
    BY <2>1, <2>2, <2>3
<1>9. CASE Restart(p)
  <2>1. TypeOK'
    BY <1>0, <1>9 DEF Restart, history, Step, TypeOK, Placed, Labels, Running, Processes
  <2>2. Placed'
    BY <1>0, <1>9 DEF Restart, history, Step, TypeOK, Placed, Labels, Running, Processes
  <2>3. FileIsFresh' /\ NoStaleStop'
    BY <1>0, <1>9 DEF Restart, history, Step, TypeOK, Placed, FileIsFresh, NoStaleStop, Labels, Running
  <2>4. QED
    BY <2>1, <2>2, <2>3
<1>10. CASE Again(p)
  <2>1. TypeOK'
    BY <1>0, <1>10 DEF Again, history, Step, TypeOK, Placed, Labels, Running, Processes
  <2>2. Placed'
    BY <1>0, <1>10 DEF Again, history, Step, TypeOK, Placed, Labels, Running, Processes
  <2>3. FileIsFresh' /\ NoStaleStop'
    BY <1>0, <1>10 DEF Again, history, Step, TypeOK, Placed, FileIsFresh, NoStaleStop, Labels, Running
  <2>4. QED
    BY <2>1, <2>2, <2>3
<1>11. QED
  BY <1>1, <1>2, <1>3, <1>4, <1>5, <1>6, <1>7, <1>8, <1>9, <1>10 DEF Advance, Start

LEMMA StepInv == IInv /\ [Next]_vars => IInv'
<1> SUFFICES ASSUME IInv, [Next]_vars PROVE IInv'
  OBVIOUS
<1>1. CASE Next
  BY <1>1, ProcessInv DEF Next
<1>2. CASE UNCHANGED vars
  BY <1>2 DEF vars, IInv, TypeOK, Placed, FileIsFresh, NoStaleStop
<1>3. QED
  BY <1>1, <1>2

\* The variables keep their types, and only a start that polls or stops has a
\* core that is up (main.go:134-177, 203-209).
THEOREM StopFileTypeCorrect == Spec => []TypeOK
<1>1. IInv => TypeOK
  BY DEF IInv
<1>2. QED
  BY <1>1, InitInv, StepInv, PTL DEF Spec

\* A start is stopped only by a stop issued since it was launched, or by an old
\* file that was there all the time and that it failed to remove
\* (main.go:159-174).
THEOREM NoStaleStopEver == Spec => []NoStaleStop
<1>1. IInv => NoStaleStop
  BY DEF IInv
<1>2. QED
  BY <1>1, InitInv, StepInv, PTL DEF Spec
=============================================================================
