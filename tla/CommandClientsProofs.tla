------------------------- MODULE CommandClientsProofs -------------------------
(***************************************************************************)
(* That no command whose calls do not overlap ever has a stray or a second *)
(* client, for any number of callers, commands and clients.                *)
(***************************************************************************)
EXTENDS CommandClients, TLAPS

\* What a call holds at each step.
Shape ==
  \A c \in Callers :
    /\ pc[c] = "idle" <=> cmd[c] = Nil
    /\ pc[c] \in {"idle", "take", "delete"} => client[c] = Nil
    /\ pc[c] \in {"connect", "store"} => client[c] # Nil

\* At most one call works on a command whose calls do not overlap.
Exclusive ==
  \A c, d \in Callers : cmd[c] # Nil /\ cmd[c] = cmd[d] /\ cmd[c] \notin Overlapping => c = d

\* A client is connected, if at all, for the command it is kept under.
Matching ==
  /\ \A m \in Commands : ffiClients[m] # Nil => conn[ffiClients[m]] \in {m, Nil}
  /\ \A c \in Callers : client[c] # Nil => conn[client[c]] \in {cmd[c], Nil}
  /\ \A c \in Callers : pc[c] = "connect" => conn[client[c]] = Nil

\* While a call works on such a command, no other client is connected for it.
Quiet ==
  \A c \in Callers : cmd[c] \notin Overlapping =>
    /\ pc[c] \in {"connect", "store"} /\ ffiClients[cmd[c]] # Nil
         => conn[ffiClients[cmd[c]]] = Nil
    /\ pc[c] = "disconnect" => ffiClients[cmd[c]] = Nil

IInv == TypeOK /\ Shape /\ Exclusive /\ Matching /\ Quiet /\ NoStrayClient

-----------------------------------------------------------------------------
LEMMA InitInv == Init => IInv
  BY ClientsAssumption DEF Init, IInv, TypeOK, OnePlace, Labels, Shape, Exclusive, Matching, Quiet,
    NoStrayClient

\* Every step of a call and every break of a connection preserves IInv.
LEMMA InvokeInv ==
  ASSUME IInv, NEW c \in Callers, NEW m \in Commands, NEW first \in {"take", "delete"},
         Invoke(c, first, m)
  PROVE  IInv'
<1> USE ClientsAssumption DEF IInv, TypeOK, Labels
<1>1. TypeOK'
  BY DEF Step, Invoke, OnePlace, Shape
<1>2. Shape'
  BY DEF Step, Invoke, Shape
<1>3. Exclusive'
  BY DEF Step, Invoke, Shape, Exclusive
<1>4. Matching'
  BY DEF Step, Invoke, OnePlace, Shape, Matching
<1>5. Quiet'
  BY DEF Step, Invoke, OnePlace, Shape, Exclusive, Matching, Quiet, NoStrayClient
<1>6. NoStrayClient'
  BY DEF Step, Invoke, OnePlace, Shape, Exclusive, Matching, Quiet, NoStrayClient
<1>7. QED
  BY <1>1, <1>2, <1>3, <1>4, <1>5, <1>6

LEMMA TakeInv ==
  ASSUME IInv, NEW c \in Callers, Take(c)
  PROVE  IInv'
<1> USE ClientsAssumption DEF IInv, TypeOK, Labels
<1>1. TypeOK'
  BY DEF Step, Take, Disconnect, Free, OnePlace, Shape
<1>2. Shape'
  BY DEF Step, Take, Disconnect, Free, Shape
<1>3. Exclusive'
  BY DEF Step, Take, Disconnect, Free, Shape, Exclusive
<1>4. Matching'
  BY DEF Step, Take, Disconnect, Free, OnePlace, Shape, Matching
<1>5. Quiet'
  BY DEF Step, Take, Disconnect, Free, OnePlace, Shape, Exclusive, Matching, Quiet, NoStrayClient
<1>6. NoStrayClient'
  BY DEF Step, Take, Disconnect, Free, OnePlace, Shape, Exclusive, Matching, Quiet, NoStrayClient
<1>7. QED
  BY <1>1, <1>2, <1>3, <1>4, <1>5, <1>6

LEMMA ConnectInv ==
  ASSUME IInv, NEW c \in Callers, Connect(c)
  PROVE  IInv'
<1> USE ClientsAssumption DEF IInv, TypeOK, Labels
<1>1. TypeOK'
  BY DEF Step, Connect, Return, OnePlace, Shape
<1>2. Shape'
  BY DEF Step, Connect, Return, Shape
<1>3. Exclusive'
  BY DEF Step, Connect, Return, Shape, Exclusive
<1>4. Matching'
  BY DEF Step, Connect, Return, OnePlace, Shape, Matching
<1>5. Quiet'
  BY DEF Step, Connect, Return, OnePlace, Shape, Exclusive, Matching, Quiet, NoStrayClient
<1>6. NoStrayClient'
  BY DEF Step, Connect, Return, OnePlace, Shape, Exclusive, Matching, Quiet, NoStrayClient
<1>7. QED
  BY <1>1, <1>2, <1>3, <1>4, <1>5, <1>6

LEMMA StoreInv ==
  ASSUME IInv, NEW c \in Callers, Store(c)
  PROVE  IInv'
<1> USE ClientsAssumption DEF IInv, TypeOK, Labels
<1>1. TypeOK'
  BY DEF Step, Store, Return, OnePlace, Shape
<1>2. Shape'
  BY DEF Step, Store, Return, Shape
<1>3. Exclusive'
  BY DEF Step, Store, Return, Shape, Exclusive
<1>4. Matching'
  BY DEF Step, Store, Return, OnePlace, Shape, Matching
<1>5. Quiet'
  BY DEF Step, Store, Return, OnePlace, Shape, Exclusive, Matching, Quiet, NoStrayClient
<1>6. NoStrayClient'
  BY DEF Step, Store, Return, OnePlace, Shape, Exclusive, Matching, Quiet, NoStrayClient
<1>7. QED
  BY <1>1, <1>2, <1>3, <1>4, <1>5, <1>6

LEMMA DeleteInv ==
  ASSUME IInv, NEW c \in Callers, Delete(c)
  PROVE  IInv'
<1> USE ClientsAssumption DEF IInv, TypeOK, Labels
<1>1. TypeOK'
  BY DEF Step, Delete, OnePlace, Shape
<1>2. Shape'
  BY DEF Step, Delete, Shape
<1>3. Exclusive'
  BY DEF Step, Delete, Shape, Exclusive
<1>4. Matching'
  BY DEF Step, Delete, OnePlace, Shape, Matching
<1>5. Quiet'
  BY DEF Step, Delete, OnePlace, Shape, Exclusive, Matching, Quiet, NoStrayClient
<1>6. NoStrayClient'
  BY DEF Step, Delete, OnePlace, Shape, Exclusive, Matching, Quiet, NoStrayClient
<1>7. QED
  BY <1>1, <1>2, <1>3, <1>4, <1>5, <1>6

LEMMA StopDisconnectInv ==
  ASSUME IInv, NEW c \in Callers, StopDisconnect(c)
  PROVE  IInv'
<1> USE ClientsAssumption DEF IInv, TypeOK, Labels
<1>1. TypeOK'
  BY DEF Step, StopDisconnect, Return, Disconnect, OnePlace, Shape
<1>2. Shape'
  BY DEF Step, StopDisconnect, Return, Disconnect, Shape
<1>3. Exclusive'
  BY DEF Step, StopDisconnect, Return, Disconnect, Shape, Exclusive
<1>4. Matching'
  BY DEF Step, StopDisconnect, Return, Disconnect, OnePlace, Shape, Matching
<1>5. Quiet'
  BY DEF Step, StopDisconnect, Return, Disconnect, OnePlace, Shape, Exclusive, Matching, Quiet,
    NoStrayClient
<1>6. NoStrayClient'
  BY DEF Step, StopDisconnect, Return, Disconnect, OnePlace, Shape, Exclusive, Matching, Quiet,
    NoStrayClient
<1>7. QED
  BY <1>1, <1>2, <1>3, <1>4, <1>5, <1>6

LEMMA BreakInv ==
  ASSUME IInv, Break
  PROVE  IInv'
<1> USE ClientsAssumption DEF IInv, TypeOK, Break
<1>1. TypeOK' /\ Shape' /\ Exclusive'
  BY DEF OnePlace, Shape, Exclusive
<1>2. Matching' /\ Quiet'
  BY DEF Matching, Quiet, Shape
<1>3. NoStrayClient'
  BY DEF NoStrayClient
<1>4. QED
  BY <1>1, <1>2, <1>3

LEMMA StepInv == IInv /\ [Next]_vars => IInv'
<1> SUFFICES ASSUME IInv, [Next]_vars PROVE IInv'
  OBVIOUS
<1>1. ASSUME NEW c \in Callers, NEW m \in Commands,
             Invoke(c, "take", m) \/ Invoke(c, "delete", m)
      PROVE  IInv'
  BY <1>1, InvokeInv
<1>2. ASSUME NEW c \in Callers, StartCommand(c) \/ StopCommand(c)
      PROVE  IInv'
  BY <1>2, TakeInv, ConnectInv, StoreInv, DeleteInv, StopDisconnectInv DEF StartCommand, StopCommand
<1>3. CASE UNCHANGED vars
  BY <1>3 DEF vars, IInv, TypeOK, OnePlace, Shape, Exclusive, Matching, Quiet, NoStrayClient
<1>4. QED
  BY <1>1, <1>2, <1>3, BreakInv DEF Next

\* The clients' variables keep their types, and each client is in one place,
\* for all callers, commands, pools and overlaps.
THEOREM ClientsTypeCorrect == Spec => []TypeOK
<1>1. IInv => TypeOK
  BY DEF IInv
<1>2. QED
  BY <1>1, InitInv, StepInv, PTL DEF Spec

\* No connected client of a command whose calls do not overlap is ever out of
\* the reach of StopCommand (command_client.go:253-277, 282-287).
THEOREM NoStrayClientEver == Spec => []NoStrayClient
<1>1. IInv => NoStrayClient
  BY DEF IInv
<1>2. QED
  BY <1>1, InitInv, StepInv, PTL DEF Spec

\* Two connected clients of such a command would have to be the registered one
\* and one a call holds, and that call has seen the registered one disconnected.
LEMMA AtMostOne == IInv => OneClientPerCommand
<1> SUFFICES ASSUME IInv,
                    NEW j \in Clients, NEW k \in Clients,
                    conn[j] # Nil, conn[j] = conn[k], conn[j] \notin Overlapping
             PROVE  j = k
  BY DEF OneClientPerCommand
<1> USE ClientsAssumption DEF IInv, TypeOK
<1> DEFINE Held(i) == \E c \in Callers : cmd[c] = conn[i] /\ client[c] = i
<1>1. conn[j] \in Commands
  OBVIOUS
<1>2. ASSUME NEW i \in Clients, conn[i] = conn[j], Held(i)
      PROVE  ffiClients[conn[j]] # Nil => conn[ffiClients[conn[j]]] = Nil
  <2>1. PICK c \in Callers : cmd[c] = conn[i] /\ client[c] = i
    BY <1>2
  <2>2. pc[c] \in {"connect", "store", "disconnect"}
    BY <2>1, <1>1, <1>2 DEF Shape, Labels
  <2>3. QED
    BY <2>1, <2>2, <1>1, <1>2 DEF Quiet
<1>3. Held(j) /\ Held(k) => j = k
  BY <1>1 DEF Exclusive
<1>4. \A i \in {j, k} : ffiClients[conn[j]] = i \/ Held(i)
  BY DEF NoStrayClient
<1>5. QED
  BY <1>1, <1>2, <1>3, <1>4

\* A command whose calls do not overlap has at most one connected client
\* (command_client.go:253-277).
THEOREM OneClientEver == Spec => []OneClientPerCommand
<1>1. QED
  BY AtMostOne, InitInv, StepInv, PTL DEF Spec
=============================================================================
