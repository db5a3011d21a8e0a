---------------------------- MODULE ExtensionHost ----------------------------
(***************************************************************************)
(* The extension host (extension/extension_host.go, extension.go,          *)
(* interface.go): gRPC handlers that open a UI stream, submit a form,      *)
(* close, enable and disable extensions, over the stored records (v2/db)   *)
(* and the map of loaded extensions.  Nothing is locked.  A caller is one  *)
(* handler goroutine; it advances one step per access to the database, to  *)
(* the map or to a queue.  An access to the database may fail: each opens  *)
(* the files of its table anew, and gives up when others keep them locked  *)
(* or the disk fails (v2/db/rostovvpn_db.go:17-44).                        *)
(*                                                                         *)
(* What an extension's own code does (GetUI, SubmitData, Close) is         *)
(* external: SubmitData may change the extension's data and update its UI. *)
(***************************************************************************)
EXTENDS Integers, FiniteSets

CONSTANTS Streams,     \* handlers of Connect
          Admins,      \* handlers of the other calls
          Extensions,  \* the registered factories
          Instances,   \* extension objects (a pool: bounds those referenced at once)
          Values,      \* what an extension keeps in its Data
          Default,     \* the Data of a new extension
          Faults,      \* the database calls that may fail
          Nil

Callers == Streams \cup Admins
Calls   == {"Connect", "SubmitForm", "Close", "Enable", "Disable"}

ASSUME ExtensionAssumption ==
  /\ Streams \cap Admins = {} /\ Default \in Values
  /\ Faults \subseteq {"Get", "UpdateInsert"}
  /\ Nil \notin Extensions \cup Instances

VARIABLES
  store,                 \* the record of each extension: enable flag and data
  enabledExtensionsMap,  \* the loaded object of each extension
  data,                  \* the Data of each object
  queue,                 \* the messages in each object's channel, of capacity 1
  pc, call,              \* per caller: where it is, what it was asked
  extension, record,     \* per caller: the object and the record it holds
  current,               \* history: the Data a client should find an extension has
  lost,                  \* history: whose Data a failed access to the database lost
  missed                 \* history: whose last edit or start failed half-way

vars == <<store, enabledExtensionsMap, data, queue, pc, call, extension, record,
          current, lost, missed>>
disk == <<store, current, lost, missed>>
objects == <<enabledExtensionsMap, data, queue>>
locals  == <<call, extension, record>>

Records == [enable : BOOLEAN, data : Values]
NoCall  == [op |-> "none", id |-> Nil]
NewRecord == [enable |-> FALSE, data |-> Default]
Labels == {"idle", "isEnable", "lookup", "updateUI", "receive", "submit", "submitUI", "storeGet",
           "storePut", "delete", "editGet", "editPut", "loadCheck", "loadInit", "loadMap"}

TypeOK ==
  /\ store \in [Extensions -> Records] /\ current \in [Extensions -> Values]
  /\ lost \subseteq Extensions /\ missed \subseteq Extensions
  /\ enabledExtensionsMap \in [Extensions -> Instances \cup {Nil}]
  /\ data \in [Instances -> Values] /\ queue \in [Instances -> {0, 1}]
  /\ pc \in [Callers -> Labels] /\ record \in [Callers -> Records]
  /\ call \in [Callers -> [op : Calls \cup {"none"}, id : Extensions \cup {Nil}]]
  /\ extension \in [Callers -> Instances \cup {Nil}]

\* The first start: extensionService.start has written a record for each factory.
Init ==
  /\ store = [x \in Extensions |-> NewRecord]
  /\ current = [x \in Extensions |-> Default] /\ lost = {} /\ missed = {}
  /\ enabledExtensionsMap = [x \in Extensions |-> Nil]
  /\ data = [i \in Instances |-> Default] /\ queue = [i \in Instances |-> 0]
  /\ pc = [c \in Callers |-> "idle"] /\ call = [c \in Callers |-> NoCall]
  /\ extension = [c \in Callers |-> Nil] /\ record = [c \in Callers |-> NewRecord]

-----------------------------------------------------------------------------
Id(c) == call[c].id
Step(c, from, to) == pc[c] = from /\ pc' = [pc EXCEPT ![c] = to]

Hold(c, i) == extension' = [extension EXCEPT ![c] = i] /\ UNCHANGED <<call, record>>

Return(c, from) ==
  /\ Step(c, from, "idle")
  /\ call' = [call EXCEPT ![c] = NoCall] /\ extension' = [extension EXCEPT ![c] = Nil]
  /\ record' = [record EXCEPT ![c] = NewRecord]

\* Objects no map entry and no call refers to.  Bound: a load waits for one.
FreeInstances ==
  Instances \ ({enabledExtensionsMap[x] : x \in Extensions} \cup {extension[c] : c \in Callers})

Invoke(c, o, x) ==
  /\ Step(c, "idle", IF o = "Enable" THEN "editGet" ELSE "isEnable")
  /\ call' = [call EXCEPT ![c] = [op |-> o, id |-> x]]
  /\ UNCHANGED <<disk, objects, extension, record>>

-----------------------------------------------------------------------------
(* getExtension: the record's flag, then the map.                          *)

\* Disable goes on without the object, and so without storing its Data.
Unstored(c) ==
  /\ lost' = IF call[c].op = "Disable" THEN lost \cup {Id(c)} ELSE lost
  /\ UNCHANGED <<store, current, missed>>

\* Disable goes on without an object, the other calls fail.
NotFound(c, from) ==
  \/ call[c].op = "Disable" /\ Step(c, from, "delete") /\ UNCHANGED locals
  \/ call[c].op # "Disable" /\ Return(c, from)

\* A record that cannot be read counts as one that is not enabled.
IsEnable(c) ==
  /\ pc[c] = "isEnable"
  /\ \/ store[Id(c)].enable /\ Step(c, "isEnable", "lookup") /\ UNCHANGED <<locals, disk>>
     \/ ~store[Id(c)].enable /\ NotFound(c, "isEnable") /\ UNCHANGED disk
     \/ "Get" \in Faults /\ NotFound(c, "isEnable") /\ Unstored(c)
  /\ UNCHANGED objects

Entry == [Connect |-> "updateUI", SubmitForm |-> "submit",
          Close |-> "storeGet", Disable |-> "storeGet"]

Lookup(c) ==
  /\ pc[c] = "lookup"
  /\ \/ /\ enabledExtensionsMap[Id(c)] # Nil
        /\ Step(c, "lookup", Entry[call[c].op]) /\ Hold(c, enabledExtensionsMap[Id(c)])
     \/ enabledExtensionsMap[Id(c)] = Nil /\ NotFound(c, "lookup")
  /\ UNCHANGED <<disk, objects>>

GetExtension(c) == IsEnable(c) \/ Lookup(c)

-----------------------------------------------------------------------------
(* Connect and SubmitForm.                                                 *)

\* Mutant: the channel takes any number of messages.
UpdateUIUnbounded(c) ==
  /\ queue' = [queue EXCEPT ![extension[c]] = @ + 1]
  /\ UNCHANGED <<enabledExtensionsMap, data>>

\* UpdateUI sends into the channel; it waits while the channel is full.
UpdateUI(c) ==
  /\ queue[extension[c]] = 0
  /\ queue' = [queue EXCEPT ![extension[c]] = 1]
  /\ UNCHANGED <<enabledExtensionsMap, data>>

\* Mutant: the message is passed on and left in the channel.
ReceiveKeeps(c) ==
  /\ Step(c, "receive", "receive")
  /\ queue[extension[c]] = 1
  /\ UNCHANGED <<objects, locals, disk>>

\* Connect's loop passes a message on to its stream.
Receive(c) ==
  /\ Step(c, "receive", "receive")
  /\ queue[extension[c]] = 1 /\ queue' = [queue EXCEPT ![extension[c]] = 0]
  /\ UNCHANGED <<enabledExtensionsMap, data, locals, disk>>

\* The client leaves; only the loop notices.
Leave(c) == Return(c, "receive") /\ UNCHANGED <<disk, objects>>

\* The first UI is sent before the loop that could receive it.
Connect(c) ==
  \/ Step(c, "updateUI", "receive") /\ UpdateUI(c) /\ UNCHANGED <<locals, disk>>
  \/ Receive(c)

\* SubmitData: the extension changes its Data, and may update its UI.
SubmitForm(c) ==
  \/ \E v \in Values :
       /\ pc[c] = "submit"
       /\ data' = [data EXCEPT ![extension[c]] = v]
       /\ current' = [current EXCEPT ![Id(c)] = v] /\ lost' = lost \ {Id(c)}
       /\ \/ Step(c, "submit", "submitUI") /\ UNCHANGED locals
          \/ Return(c, "submit")
       /\ UNCHANGED <<store, missed, enabledExtensionsMap, queue>>
  \/ Return(c, "submitUI") /\ UpdateUI(c) /\ UNCHANGED disk

-----------------------------------------------------------------------------
(* Close and EditExtension.                                                *)

Get(c, from, to) ==
  /\ Step(c, from, to)
  /\ record' = [record EXCEPT ![c] = store[Id(c)]]
  /\ UNCHANGED <<call, extension, disk, objects>>

\* UpdateInsert writes all of the record read before.
Put(c, r) == store' = [store EXCEPT ![Id(c)] = r] /\ UNCHANGED <<current, lost, missed>>

\* StoreData returns: Close is done, Disable goes on to unload the object.
Stored(c, from) ==
  /\ \/ call[c].op = "Close" /\ Return(c, from)
     \/ call[c].op = "Disable" /\ Step(c, from, "delete") /\ UNCHANGED locals
  /\ UNCHANGED objects

\* Mutant: StoreData writes a record of its own instead of the one it read.
StorePutFresh(c) ==
  Stored(c, "storePut") /\ Put(c, [NewRecord EXCEPT !.data = data[extension[c]]])

StorePut(c) ==
  Stored(c, "storePut") /\ Put(c, [record[c] EXCEPT !.data = data[extension[c]]])

\* StoreData has no result: when the record cannot be read or written (or the
\* Data not be marshalled) its caller goes on.
StoreFails(c) ==
  /\ \/ "Get" \in Faults /\ Stored(c, "storeGet")
     \/ "UpdateInsert" \in Faults /\ Stored(c, "storePut")
  /\ Unstored(c)

\* StoreData, after the extension's own Close.
StoreData(c) == Get(c, "storeGet", "storePut") \/ StorePut(c) \/ StoreFails(c)

\* Mutant: a disabled extension stays loaded.
DeleteForgets(c) ==
  /\ Step(c, "delete", "editGet") /\ missed' = missed \ {Id(c)}
  /\ UNCHANGED <<store, current, lost, objects, locals>>

\* An object whose Data were not stored takes them with it.
Delete(c) ==
  /\ Step(c, "delete", "editGet") /\ missed' = missed \ {Id(c)}
  /\ enabledExtensionsMap' = [enabledExtensionsMap EXCEPT ![Id(c)] = Nil]
  /\ UNCHANGED <<data, queue, store, current, lost, locals>>

\* An edit that stops where it is, or goes on with nothing written: Disable has
\* unloaded the extension, the load of Enable has not happened.
Misses(c) ==
  /\ missed' = IF call[c].op = "Disable" \/ pc[c] = "loadCheck" THEN missed \cup {Id(c)}
               ELSE missed
  /\ UNCHANGED <<store, current, lost>>

EditGet(c) ==
  \/ Get(c, "editGet", "editPut")
  \/ "Get" \in Faults /\ Return(c, "editGet") /\ Misses(c) /\ UNCHANGED objects

\* Mutant: EditExtension writes a record of its own instead of the one it read.
EditPutFresh(c) ==
  /\ pc[c] = "editPut" /\ Put(c, [NewRecord EXCEPT !.enable = (call[c].op = "Enable")])
  /\ \/ call[c].op = "Enable" /\ Step(c, "editPut", "loadCheck") /\ UNCHANGED locals
     \/ call[c].op = "Disable" /\ Return(c, "editPut")
  /\ UNCHANGED objects

\* The result of UpdateInsert is ignored.
EditPut(c) ==
  /\ pc[c] = "editPut"
  /\ \/ Put(c, [record[c] EXCEPT !.enable = (call[c].op = "Enable")])
     \/ "UpdateInsert" \in Faults /\ Misses(c)
  /\ \/ call[c].op = "Enable" /\ Step(c, "editPut", "loadCheck") /\ UNCHANGED locals
     \/ call[c].op = "Disable" /\ Return(c, "editPut")
  /\ UNCHANGED objects

LoadCheck(c) ==
  /\ pc[c] = "loadCheck"
  /\ \/ store[Id(c)].enable /\ Step(c, "loadCheck", "loadInit") /\ UNCHANGED <<locals, disk>>
     \/ ~store[Id(c)].enable /\ Return(c, "loadCheck") /\ UNCHANGED disk
     \/ "Get" \in Faults /\ Return(c, "loadCheck") /\ Misses(c)
  /\ UNCHANGED objects

\* Mutant: the stored data is not loaded.
LoadInitEmpty(c) ==
  /\ Step(c, "loadInit", "loadMap")
  /\ \E i \in FreeInstances :
       /\ Hold(c, i)
       /\ data' = [data EXCEPT ![i] = Default] /\ queue' = [queue EXCEPT ![i] = 0]
  /\ UNCHANGED <<disk, enabledExtensionsMap>>

\* Builder and init: a new object, an empty channel, the stored data, or those
\* of a new extension when they cannot be read.
LoadInit(c) ==
  /\ Step(c, "loadInit", "loadMap")
  /\ \E i \in FreeInstances, v \in Values :
       /\ \/ v = store[Id(c)].data /\ UNCHANGED lost
          \/ "Get" \in Faults /\ v = Default /\ lost' = lost \cup {Id(c)}
       /\ Hold(c, i)
       /\ data' = [data EXCEPT ![i] = v] /\ queue' = [queue EXCEPT ![i] = 0]
  /\ UNCHANGED <<store, current, missed, enabledExtensionsMap>>

\* An object loaded before is replaced, with the Data it had not stored;
\* streams and calls may still hold it.
LoadMap(c) ==
  /\ Return(c, "loadMap")
  /\ enabledExtensionsMap' = [enabledExtensionsMap EXCEPT ![Id(c)] = extension[c]]
  /\ current' = [current EXCEPT ![Id(c)] =
                   IF enabledExtensionsMap[Id(c)] = Nil THEN @ ELSE store[Id(c)].data]
  /\ missed' = missed \ {Id(c)}
  /\ UNCHANGED <<store, lost, data, queue>>

EditExtension(c) ==
  \/ Delete(c) \/ EditGet(c) \/ EditPut(c)
  \/ LoadCheck(c) \/ LoadInit(c) \/ LoadMap(c)

-----------------------------------------------------------------------------
\* The process ends at any point and is started again.  extensionService.start
\* reads the records in any order and loads the extensions they enable.  The
\* unread, whose record could not be read, get a new one; an extension whose
\* record init could not read is loaded empty; where no new record can be
\* written, or loadExtension cannot read the flag, the start ends, and leaves
\* out what it has not come to.  The callers of start ignore that.
StartsWith(unread, loaded, empty, f) ==
  /\ \A x, y \in loaded : f[x] = f[y] => x = y
  /\ missed' = {x \in Extensions \ (unread \cup loaded) : store[x].enable}
  /\ "Get" \notin Faults => unread = {} /\ empty = {} /\ missed' = {}
  /\ store' = [x \in Extensions |-> IF x \in unread THEN NewRecord ELSE store[x]]
  /\ enabledExtensionsMap' = [x \in Extensions |-> IF x \in loaded THEN f[x] ELSE Nil]
  /\ data' = [i \in Instances |-> IF \E x \in loaded \ empty : f[x] = i
                                  THEN store[CHOOSE x \in loaded : f[x] = i].data
                                  ELSE Default]
  /\ queue' = [i \in Instances |-> 0]
  /\ lost' = unread \cup empty /\ current' = [x \in Extensions |-> store[x].data]
  /\ pc' = [c \in Callers |-> "idle"] /\ call' = [c \in Callers |-> NoCall]
  /\ extension' = [c \in Callers |-> Nil] /\ record' = [c \in Callers |-> NewRecord]

Restart ==
  \E unread \in SUBSET Extensions :
  \E loaded \in SUBSET {x \in Extensions \ unread : store[x].enable} :
  \E empty \in SUBSET loaded, f \in [loaded -> Instances] :
    StartsWith(unread, loaded, empty, f)

Advance(c) ==
  GetExtension(c) \/ Connect(c) \/ SubmitForm(c) \/ StoreData(c) \/ EditExtension(c)

Next ==
  \/ \E c \in Streams, x \in Extensions : Invoke(c, "Connect", x)
  \/ \E c \in Admins, o \in Calls \ {"Connect"}, x \in Extensions : Invoke(c, o, x)
  \/ \E c \in Callers : Advance(c) \/ Leave(c)
  \/ Restart

Spec == Init /\ [][Next]_vars

\* A handler that has a step to take takes it; of the senders that wait for
\* room in a channel the runtime serves the one that waits longest.
FairSpec == Spec /\ \A c \in Callers : SF_vars(Advance(c))

-----------------------------------------------------------------------------
(* Properties.                                                             *)

AdminsIdle == \A c \in Admins : pc[c] = "idle"

\* While the calls that edit records do not overlap, only EditExtension
\* changes an enable flag: the record StoreData writes back whole still holds
\* the flag it read (extension.go:44-58, extension_host.go:123-129), whatever
\* streams, restarts and failed accesses do meanwhile.  The exception is a
\* start that cannot read the record of an enabled extension: it disables it
\* (interface.go:63-71).
Unread(x) == store'[x] = NewRecord /\ x \in lost' /\ \A c \in Callers : pc'[c] = "idle"
OnlyEditsToggle ==
  [][\A x \in Extensions : store'[x].enable # store[x].enable =>
       \/ \E c \in Admins : pc[c] = "editPut" /\ Id(c) = x
       \/ Unread(x)]_vars

\* Under the same conditions, between calls and from one process to the next,
\* an extension is loaded only if its record enables it; it is loaded if its
\* record enables it, unless the last edit of it, or the last start, met a
\* failing access half-way (extension_host.go:121-133, interface.go:59-81).
LoadedIffEnabled ==
  AdminsIdle => \A x \in Extensions :
    /\ enabledExtensionsMap[x] # Nil => store[x].enable
    /\ store[x].enable => enabledExtensionsMap[x] # Nil \/ x \in missed

\* README: "Save Extension Data from e.Base.Data", "Load Extension Data".
\* Between calls a disabled extension's record holds the Data it last had, and
\* a loaded one has the Data it last had; only a restart, or enabling what is
\* enabled, goes back to the Data last stored.  Until a form sets them anew,
\* this is not so for the Data that a Disable could not store, that init could
\* not read, or whose record a start could not read.
DataKept ==
  AdminsIdle => \A x \in Extensions \ lost :
    current[x] = IF enabledExtensionsMap[x] = Nil THEN store[x].data
                 ELSE data[enabledExtensionsMap[x]]

\* The host implements ExtensionContract (extension_host.go:75-133,
\* extension.go:44-58, interface.go:59-81), with the failures of the database
\* as the contract's: what clients find of an extension is the Data of its
\* loaded object, or else what is stored.
Shown(x) == IF enabledExtensionsMap[x] = Nil THEN store[x].data
            ELSE data[enabledExtensionsMap[x]]
Asked(c) == IF pc[c] \in {"idle", "submitUI"} THEN NoCall ELSE call[c]
Contract == INSTANCE ExtensionContract
  WITH Callers <- Admins, Fails <- Faults # {},
       asked   <- [c \in Admins |-> Asked(c)],
       enabled <- {x \in Extensions : store[x].enable},
       stored  <- [x \in Extensions |-> store[x].data],
       shown   <- [x \in Extensions |-> Shown(x)]
ImplementsContract == Contract!Spec

\* A form's UI update goes through, however streams come and go, as long as
\* some stream listens to that object (extension.go:106, extension_host.go:63-73).
Heard(c) == \E s \in Streams : pc[s] = "receive" /\ extension[s] = extension[c]
SubmitGoesThrough == \A c \in Admins : ~<>[](pc[c] = "submitUI" /\ Heard(c))

\* README: "Show Custom UI from Extension UpdateUI()": a client that connects
\* gets as far as listening for the UI.
ConnectGoesThrough == \A c \in Streams : pc[c] = "updateUI" ~> pc[c] # "updateUI"
=============================================================================
