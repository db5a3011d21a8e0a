---------------------------- MODULE CommandClients ----------------------------
(***************************************************************************)
(* The command clients of the FFI (v2/command_client.go): StartCommand and *)
(* StopCommand over the registry of connected clients.  A caller is a      *)
(* thread of the Flutter side; it advances one step per section under      *)
(* ffiClientsMu and per call on a client.  The clients and the command     *)
(* server they connect to are libbox's, external.                          *)
(***************************************************************************)
EXTENDS Integers

CONSTANTS Callers, Commands,
          Clients,      \* libbox.CommandClient objects (a pool: bounds those in use at once)
          Overlapping,  \* the commands whose calls may overlap; nothing in the code
                        \* prevents it, so a property names the commands it is about
          Nil

ASSUME ClientsAssumption ==
  Overlapping \subseteq Commands /\ Nil \notin Clients \cup Commands

VARIABLES
  ffiClients,   \* the registered client of each command
  conn,         \* the command each client's connection streams, or Nil
  pc, cmd,      \* per caller: where it is, the command it was asked about
  client        \* per caller: the client it holds

vars == <<ffiClients, conn, pc, cmd, client>>

Labels == {"idle", "take", "connect", "store", "delete", "disconnect"}

\* A client is in one place: registered under a command, or held by a call.
OnePlace ==
  /\ \A c \in Callers, m \in Commands : client[c] # Nil => ffiClients[m] # client[c]
  /\ \A c, d \in Callers : client[c] # Nil /\ client[c] = client[d] => c = d
  /\ \A m, n \in Commands : ffiClients[m] # Nil /\ ffiClients[m] = ffiClients[n] => m = n

TypeOK ==
  /\ OnePlace
  /\ ffiClients \in [Commands -> Clients \cup {Nil}]
  /\ conn \in [Clients -> Commands \cup {Nil}]
  /\ pc \in [Callers -> Labels]
  /\ cmd \in [Callers -> Commands \cup {Nil}]
  /\ client \in [Callers -> Clients \cup {Nil}]

Init ==
  /\ ffiClients = [m \in Commands |-> Nil] /\ conn = [k \in Clients |-> Nil]
  /\ pc = [c \in Callers |-> "idle"] /\ cmd = [c \in Callers |-> Nil]
  /\ client = [c \in Callers |-> Nil]

-----------------------------------------------------------------------------
Step(c, from, to) == pc[c] = from /\ pc' = [pc EXCEPT ![c] = to]
Return(c, from) ==
  /\ Step(c, from, "idle")
  /\ cmd' = [cmd EXCEPT ![c] = Nil] /\ client' = [client EXCEPT ![c] = Nil]

\* Disconnecting what is not connected does nothing.
Disconnect(k) == conn' = [j \in Clients |-> IF j = k THEN Nil ELSE conn[j]]

\* Clients nothing refers to.  Bound: a start waits for one.
Free == {k \in Clients : /\ conn[k] = Nil
                         /\ \A m \in Commands : ffiClients[m] # k
                         /\ \A c \in Callers : client[c] # k}

Invoke(c, first, m) ==
  /\ m \notin Overlapping => \A d \in Callers : cmd[d] # m
  /\ Step(c, "idle", first)
  /\ cmd' = [cmd EXCEPT ![c] = m]
  /\ UNCHANGED <<ffiClients, conn, client>>

-----------------------------------------------------------------------------
(* StartCommand.                                                           *)

\* Mutant: the client that was there stays connected.
TakeForgets(c) ==
  /\ Step(c, "take", "connect")
  /\ \E k \in Free : client' = [client EXCEPT ![c] = k]
  /\ UNCHANGED <<conn, ffiClients, cmd>>

\* Disconnect the old client, which stays registered; make a new one.
Take(c) ==
  /\ Step(c, "take", "connect")
  /\ Disconnect(ffiClients[cmd[c]])
  /\ \E k \in Free : client' = [client EXCEPT ![c] = k]
  /\ UNCHANGED <<ffiClients, cmd>>

\* Connect succeeds, or the call fails and leaves the registry as it was.
Connect(c) ==
  /\ \/ /\ Step(c, "connect", "store") /\ UNCHANGED <<cmd, client>>
        /\ conn' = [conn EXCEPT ![client[c]] = cmd[c]]
     \/ Return(c, "connect") /\ UNCHANGED conn
  /\ UNCHANGED ffiClients

Store(c) ==
  /\ Return(c, "store")
  /\ ffiClients' = [ffiClients EXCEPT ![cmd[c]] = client[c]]
  /\ UNCHANGED conn

StartCommand(c) == Take(c) \/ Connect(c) \/ Store(c)

-----------------------------------------------------------------------------
(* StopCommand.                                                            *)

\* Mutant: the client is disconnected and stays registered.
DeleteKeeps(c) ==
  /\ Step(c, "delete", "disconnect")
  /\ client' = [client EXCEPT ![c] = ffiClients[cmd[c]]]
  /\ UNCHANGED <<ffiClients, conn, cmd>>

Delete(c) ==
  /\ Step(c, "delete", "disconnect")
  /\ client' = [client EXCEPT ![c] = ffiClients[cmd[c]]]
  /\ ffiClients' = [ffiClients EXCEPT ![cmd[c]] = Nil]
  /\ UNCHANGED <<conn, cmd>>

\* Mutant: StopCommand forgets the client without disconnecting it.
StopForgets(c) == Return(c, "disconnect") /\ UNCHANGED <<conn, ffiClients>>

StopDisconnect(c) ==
  Return(c, "disconnect") /\ Disconnect(client[c]) /\ UNCHANGED ffiClients

StopCommand(c) == Delete(c) \/ StopDisconnect(c)

-----------------------------------------------------------------------------
\* The core stops, or the connection breaks: the clients are not told apart
\* from connected ones in the registry.
Break ==
  /\ \E broken \in SUBSET Clients :
       conn' = [k \in Clients |-> IF k \in broken THEN Nil ELSE conn[k]]
  /\ UNCHANGED <<ffiClients, pc, cmd, client>>

Next ==
  \/ \E c \in Callers, m \in Commands : Invoke(c, "take", m) \/ Invoke(c, "delete", m)
  \/ \E c \in Callers : StartCommand(c) \/ StopCommand(c)
  \/ Break

Spec == Init /\ [][Next]_vars

-----------------------------------------------------------------------------
(* Properties.                                                             *)

\* A command whose calls do not overlap has at most one connected client,
\* whatever fails and whatever other commands' callers do: Flutter gets each
\* status once (command_client.go:253-257, 275-277, 282-287).
OneClientPerCommand ==
  \A j, k \in Clients :
    conn[j] # Nil /\ conn[j] = conn[k] /\ conn[j] \notin Overlapping => j = k

\* Every connected client of such a command is within reach of the next
\* StopCommand: registered under the command, or held by a call in progress
\* that will register or disconnect it.
NoStrayClient ==
  \A k \in Clients : conn[k] # Nil /\ conn[k] \notin Overlapping =>
    \/ ffiClients[conn[k]] = k
    \/ \E c \in Callers : cmd[c] = conn[k] /\ client[c] = k
=============================================================================
