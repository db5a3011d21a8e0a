------------------------- MODULE ExtensionHostProofs -------------------------
(***************************************************************************)
(* That, while the calls that edit records do not overlap, only            *)
(* EditExtension changes an enable flag, an extension is loaded exactly if *)
(* its record says so, its Data is kept, and the host implements           *)
(* ExtensionContract, for any number of streams, extensions, objects and   *)
(* values, with restarts at every step and with or without failures of the *)
(* database.                                                               *)
(***************************************************************************)
EXTENDS ExtensionHost, TLAPS

\* The calls of the other handlers do not overlap.
OneAdmin == \A a, b \in Admins : a = b

Holding == {"updateUI", "receive", "submit", "submitUI", "storeGet", "storePut", "loadMap"}
Edits   == {"editGet", "editPut"}
Loads   == {"loadCheck", "loadInit", "loadMap"}

\* What a caller was asked, and what it holds, at each step.
Shape ==
  \A c \in Callers :
    /\ pc[c] # "idle" => call[c].op \in Calls /\ Id(c) \in Extensions
    /\ pc[c] \in Holding => extension[c] \in Instances
    /\ pc[c] # "idle" => (call[c].op = "Connect" <=> c \in Streams)
    /\ pc[c] \in {"isEnable", "lookup"} => call[c].op # "Enable"
    /\ c \in Streams => pc[c] \in {"idle", "isEnable", "lookup", "updateUI", "receive"}
    /\ pc[c] \in {"storeGet", "storePut"} => call[c].op \in {"Close", "Disable"}
    /\ pc[c] \in {"updateUI", "receive"} => call[c].op = "Connect"
    /\ pc[c] \in {"submit", "submitUI"} => call[c].op = "SubmitForm"
    /\ pc[c] = "delete" => call[c].op = "Disable"
    /\ pc[c] \in Edits => call[c].op \in {"Enable", "Disable"}
    /\ pc[c] \in Loads => call[c].op = "Enable"

\* A record about to be written back holds the flag the store has.
FreshRecord ==
  \A c \in Callers : pc[c] \in {"storePut", "editPut"} =>
    record[c].enable = store[Id(c)].enable

\* What is loaded is enabled, what is enabled is loaded, missed, or being edited.
Busy(x) == \E c \in Admins :
  Id(c) = x /\ (pc[c] \in Loads \/ (pc[c] \in Edits /\ call[c].op = "Disable"))
Flags ==
  /\ \A x \in Extensions : enabledExtensionsMap[x] # Nil => store[x].enable
  /\ \A x \in Extensions :
       store[x].enable => enabledExtensionsMap[x] # Nil \/ x \in missed \/ Busy(x)
  /\ \A c \in Admins : pc[c] \in {"loadInit", "loadMap"} => store[Id(c)].enable
  /\ \A c \in Admins : pc[c] \in Edits /\ call[c].op = "Disable"
       => enabledExtensionsMap[Id(c)] = Nil

\* Where nothing fails nothing is lost or missed, and an enabled record is written.
Sound ==
  Faults = {} =>
    /\ lost = {} /\ missed = {}
    /\ \A c \in Admins : pc[c] = "loadCheck" => store[Id(c)].enable

IInv == TypeOK /\ Shape /\ FreshRecord /\ Flags /\ Sound

-----------------------------------------------------------------------------
LEMMA InitInv == Init => IInv
<1> SUFFICES ASSUME Init PROVE IInv
  OBVIOUS
<1> USE ExtensionAssumption DEF Init, NewRecord, NoCall
<1>1. TypeOK
  BY DEF TypeOK, Records, Calls, Labels
<1>2. Shape /\ FreshRecord
  BY DEF Shape, FreshRecord, Callers, Holding, Edits, Loads
<1>3. Flags /\ Sound
  BY DEF Flags, Busy, Sound, Callers, Edits, Loads
<1>4. QED
  BY <1>1, <1>2, <1>3 DEF IInv

\* A call that returns leaves its caller's variables as they were at first.
LEMMA Returned ==
  ASSUME TypeOK, NEW c \in Callers, NEW from, Return(c, from)
  PROVE  /\ pc' \in [Callers -> Labels] /\ record' \in [Callers -> Records]
         /\ call' \in [Callers -> [op : Calls \cup {"none"}, id : Extensions \cup {Nil}]]
         /\ extension' \in [Callers -> Instances \cup {Nil}]
         /\ pc[c] = from /\ pc'[c] = "idle"
         /\ \A d \in Callers \ {c} :
              /\ pc'[d] = pc[d] /\ call'[d] = call[d]
              /\ extension'[d] = extension[d] /\ record'[d] = record[d]
<1> USE ExtensionAssumption DEF TypeOK, Return, Step, Labels
<1>1. NewRecord \in Records
  BY DEF NewRecord, Records
<1>2. NoCall \in [op : Calls \cup {"none"}, id : Extensions \cup {Nil}]
  BY DEF NoCall
<1>3. QED
  BY <1>1, <1>2

LEMMA ReturnShape ==
  ASSUME TypeOK, Shape, NEW c \in Callers, NEW from, Return(c, from)
  PROVE  Shape'
  BY Returned DEF Shape, Holding, Edits, Loads, Id

\* Steps that change no flag and no loaded object, and move nobody into or out
\* of an edit, keep Flags; likewise for FreshRecord.
SameFlags == \A x \in Extensions : store'[x].enable = store[x].enable

LEMMA FlagsKept ==
  ASSUME Flags, SameFlags, UNCHANGED <<enabledExtensionsMap, missed>>, Shape,
         \A d \in Admins : \/ pc'[d] = pc[d] /\ call'[d] = call[d]
                           \/ pc[d] \notin Edits \cup Loads /\ pc'[d] \notin Edits \cup Loads
  PROVE  Flags'
  BY DEF Flags, SameFlags, Busy, Id, Shape, Edits, Loads, Callers

\* Likewise for Sound, where nothing is lost that was not.
LEMMA SoundKept ==
  ASSUME Sound, SameFlags, UNCHANGED missed, lost' \subseteq lost \/ Faults # {}, Shape,
         \A d \in Admins : pc'[d] = "loadCheck" => pc'[d] = pc[d] /\ call'[d] = call[d]
  PROVE  Sound'
  BY DEF Sound, SameFlags, Id, Shape, Callers

LEMMA FreshKept ==
  ASSUME FreshRecord, SameFlags, Shape,
         \A d \in Callers : pc'[d] \in {"storePut", "editPut"} =>
           pc'[d] = pc[d] /\ call'[d] = call[d] /\ record'[d] = record[d]
  PROVE  FreshRecord'
  BY DEF FreshRecord, SameFlags, Id, Shape

-----------------------------------------------------------------------------
\* One lemma per step of the host: each keeps the five parts of IInv.
LEMMA InvokeInv ==
  ASSUME OneAdmin, IInv, NEW c \in Callers, NEW x \in Extensions, NEW o \in Calls,
         c \in Streams <=> o = "Connect", Invoke(c, o, x)
  PROVE  IInv'
<1> USE ExtensionAssumption
    DEF IInv, TypeOK, Labels, Records, Calls, Step, Id, Callers, Holding, Edits, Loads,
      disk, objects, locals, Invoke
<1>1. TypeOK'
  BY DEF Shape
<1>2. Shape'
  BY DEF Shape
<1>3. FreshRecord'
  BY DEF Shape, FreshRecord, OneAdmin
<1>4. Flags'
  BY DEF Shape, FreshRecord, Flags, Busy, OneAdmin
<1>5. Sound'
  BY SoundKept DEF SameFlags
<1>6. QED
  BY <1>1, <1>2, <1>3, <1>4, <1>5

LEMMA NotFoundInv ==
  ASSUME OneAdmin, IInv, NEW c \in Callers, NEW from \in {"isEnable", "lookup"},
         NotFound(c, from), UNCHANGED <<store, current, missed, objects>>,
         \/ UNCHANGED lost
         \/ Faults # {} /\ lost' \in {lost, lost \cup {Id(c)}}
  PROVE  IInv'
<1> USE ExtensionAssumption
    DEF IInv, TypeOK, Labels, Records, Calls, Step, Id, Callers, Holding, Edits, Loads,
      objects, locals
<1>0. lost' \subseteq Extensions /\ pc[c] = from
  BY DEF Shape, NotFound, Return
<1>1. CASE call[c].op = "Disable" /\ Step(c, from, "delete") /\ UNCHANGED locals
  <2>1. TypeOK'
    BY <1>0, <1>1 DEF Shape
  <2>2. Shape'
    BY <1>1 DEF Shape
  <2>3. FreshRecord'
    BY <1>1 DEF Shape, FreshRecord, OneAdmin
  <2>4. Flags'
    BY <1>1, FlagsKept DEF SameFlags
  <2>5. Sound'
    BY <1>1, SoundKept DEF SameFlags
  <2>6. QED
    BY <2>1, <2>2, <2>3, <2>4, <2>5
<1>2. CASE call[c].op # "Disable" /\ Return(c, from)
  <2>1. TypeOK'
    BY <1>0, <1>2, Returned DEF Shape
  <2>2. Shape'
    BY <1>2, ReturnShape
  <2>3. FreshRecord'
    BY <1>2, Returned, FreshKept DEF SameFlags
  <2>4. Flags'
    BY <1>2, Returned, FlagsKept DEF SameFlags
  <2>5. Sound'
    BY <1>2, Returned, SoundKept DEF SameFlags
  <2>6. QED
    BY <2>1, <2>2, <2>3, <2>4, <2>5
<1>3. QED
  BY <1>1, <1>2 DEF NotFound

LEMMA IsEnableInv ==
  ASSUME OneAdmin, IInv, NEW c \in Callers, IsEnable(c)
  PROVE  IInv'
<1> USE ExtensionAssumption
    DEF IInv, TypeOK, Labels, Records, Calls, Step, Id, Callers, Holding, Edits, Loads,
      disk, objects, locals
<1>1. CASE Step(c, "isEnable", "lookup") /\ UNCHANGED <<locals, disk>>
  <2>1. TypeOK'
    BY <1>1 DEF IsEnable, Shape
  <2>2. Shape'
    BY <1>1 DEF IsEnable, Shape
  <2>3. FreshRecord'
    BY <1>1 DEF IsEnable, Shape, FreshRecord, OneAdmin
  <2>4. Flags'
    BY <1>1, FlagsKept DEF IsEnable, SameFlags
  <2>5. Sound'
    BY <1>1, SoundKept DEF SameFlags
  <2>6. QED
    BY <2>1, <2>2, <2>3, <2>4, <2>5
<1>2. CASE NotFound(c, "isEnable") /\ UNCHANGED disk
  BY <1>2, NotFoundInv DEF IsEnable
<1>3. CASE "Get" \in Faults /\ NotFound(c, "isEnable") /\ Unstored(c)
  BY <1>3, NotFoundInv DEF IsEnable, Unstored
<1>4. QED
  BY <1>1, <1>2, <1>3 DEF IsEnable

LEMMA LookupInv ==
  ASSUME OneAdmin, IInv, NEW c \in Callers, Lookup(c)
  PROVE  IInv'
<1> USE ExtensionAssumption
    DEF IInv, TypeOK, Labels, Records, Calls, Step, Id, Callers, Holding, Edits, Loads,
      disk, objects, locals, Hold, Entry
<1>1. CASE /\ enabledExtensionsMap[Id(c)] # Nil
           /\ Step(c, "lookup", Entry[call[c].op]) /\ Hold(c, enabledExtensionsMap[Id(c)])
  <2>1. TypeOK'
    BY <1>1 DEF Lookup, Shape
  <2>2. Shape'
    BY <1>1 DEF Lookup, Shape
  <2>3. FreshRecord'
    BY <1>1 DEF Lookup, Shape, FreshRecord, OneAdmin
  <2>4. Flags'
    BY <1>1 DEF Lookup, Shape, FreshRecord, Flags, Busy, OneAdmin
  <2>5. Sound'
    BY <1>1 DEF Lookup, Shape, Sound
  <2>6. QED
    BY <2>1, <2>2, <2>3, <2>4, <2>5
<1>2. CASE NotFound(c, "lookup")
  BY <1>2, NotFoundInv DEF Lookup
<1>3. QED
  BY <1>1, <1>2 DEF Lookup

LEMMA ConnectInv ==
  ASSUME OneAdmin, IInv, NEW c \in Callers, Connect(c)
  PROVE  IInv'
<1> USE ExtensionAssumption
    DEF IInv, TypeOK, Labels, Records, Calls, Step, Id, Callers, Holding, Edits, Loads,
      disk, objects, locals, Connect, UpdateUI, Receive
<1>1. TypeOK'
  BY DEF Shape
<1>2. Shape'
  BY DEF Shape
<1>3. FreshRecord'
  BY DEF Shape, FreshRecord, OneAdmin
<1>4. Flags'
  BY FlagsKept DEF SameFlags
<1>5. Sound'
  BY SoundKept DEF SameFlags
<1>6. QED
  BY <1>1, <1>2, <1>3, <1>4, <1>5

LEMMA LeaveInv ==
  ASSUME OneAdmin, IInv, NEW c \in Callers, Leave(c)
  PROVE  IInv'
<1> USE ExtensionAssumption
    DEF IInv, TypeOK, Labels, Records, Calls, Step, Id, Callers, Holding, Edits, Loads,
      disk, objects, locals, Leave
<1>1. TypeOK'
  BY Returned
<1>2. Shape'
  BY ReturnShape
<1>3. FreshRecord'
  BY Returned, FreshKept DEF SameFlags
<1>4. /\ pc[c] = "receive" /\ pc'[c] = "idle" /\ UNCHANGED <<disk, objects>>
      /\ \A d \in Admins : d # c => pc'[d] = pc[d] /\ call'[d] = call[d]
  BY Returned
<1>5. Flags'
  BY <1>4, FlagsKept DEF SameFlags
<1>6. Sound'
  BY <1>4, SoundKept DEF SameFlags
<1>7. QED
  BY <1>1, <1>2, <1>3, <1>5, <1>6

LEMMA SubmitFormInv ==
  ASSUME OneAdmin, IInv, NEW c \in Callers, SubmitForm(c)
  PROVE  IInv'
<1> USE ExtensionAssumption
    DEF IInv, TypeOK, Labels, Records, Calls, Step, Id, Callers, Holding, Edits, Loads,
      disk, objects, locals
<1>1. /\ data' \in [Instances -> Values] /\ current' \in [Extensions -> Values]
      /\ queue' \in [Instances -> {0, 1}] /\ lost' \subseteq lost
      /\ pc[c] \in {"submit", "submitUI"} /\ UNCHANGED <<store, missed, enabledExtensionsMap>>
  <2>1. CASE pc[c] = "submit"
    <3>1. PICK v \in Values : /\ data' = [data EXCEPT ![extension[c]] = v]
                              /\ current' = [current EXCEPT ![Id(c)] = v]
                              /\ lost' = lost \ {Id(c)}
                              /\ UNCHANGED <<store, missed, enabledExtensionsMap, queue>>
      BY <2>1 DEF SubmitForm, Return
    <3>2. QED
      BY <2>1, <3>1
  <2>2. CASE pc[c] # "submit"
    BY <2>2 DEF SubmitForm, UpdateUI, Return, Shape
  <2>3. QED
    BY <2>1, <2>2
<1>2. CASE Step(c, "submit", "submitUI") /\ UNCHANGED locals
  <2>1. TypeOK'
    BY <1>1, <1>2 DEF Shape
  <2>2. Shape'
    BY <1>1, <1>2 DEF Shape
  <2>3. FreshRecord'
    BY <1>1, <1>2 DEF Shape, FreshRecord, OneAdmin
  <2>4. Flags'
    BY <1>1, <1>2, FlagsKept DEF SameFlags
  <2>5. Sound'
    BY <1>1, <1>2, SoundKept DEF SameFlags
  <2>6. QED
    BY <2>1, <2>2, <2>3, <2>4, <2>5
<1>3. CASE Return(c, pc[c])
  <2>1. TypeOK'
    BY <1>1, <1>3, Returned DEF Shape
  <2>2. Shape'
    BY <1>3, ReturnShape
  <2>3. FreshRecord'
    BY <1>1, <1>3, Returned, FreshKept DEF SameFlags
  <2>4. Flags'
    BY <1>1, <1>3, Returned, FlagsKept DEF SameFlags
  <2>5. Sound'
    BY <1>1, <1>3, Returned, SoundKept DEF SameFlags
  <2>6. QED
    BY <2>1, <2>2, <2>3, <2>4, <2>5
<1>4. QED
  BY <1>1, <1>2, <1>3 DEF SubmitForm, Return

LEMMA GetInv ==
  ASSUME OneAdmin, IInv, NEW c \in Callers,
         Get(c, "storeGet", "storePut") \/ Get(c, "editGet", "editPut")
  PROVE  IInv'
<1> USE ExtensionAssumption
    DEF IInv, TypeOK, Labels, Records, Calls, Step, Id, Callers, Holding, Edits, Loads,
      disk, objects, locals, Get
<1>1. TypeOK'
  BY DEF Shape
<1>2. Shape'
  BY DEF Shape
<1>3. FreshRecord'
  BY DEF Shape, FreshRecord, OneAdmin
<1>4. Flags'
  BY DEF Shape, FreshRecord, Flags, Busy, OneAdmin
<1>5. Sound'
  BY SoundKept DEF SameFlags
<1>6. QED
  BY <1>1, <1>2, <1>3, <1>4, <1>5

\* StoreData returns, whether it has changed a record's Data or not.
LEMMA StoredInv ==
  ASSUME OneAdmin, IInv, NEW c \in Callers, NEW from \in {"storeGet", "storePut"},
         Stored(c, from), SameFlags, store' \in [Extensions -> Records],
         UNCHANGED <<current, missed>>,
         UNCHANGED lost \/ (Faults # {} /\ lost' \in {lost, lost \cup {Id(c)}})
  PROVE  IInv'
<1> USE ExtensionAssumption
    DEF IInv, TypeOK, Labels, Records, Calls, Step, Id, Callers, Holding, Edits, Loads,
      objects, locals
<1>0. lost' \subseteq Extensions /\ UNCHANGED objects /\ pc[c] = from
  BY DEF Shape, Stored, Return
<1>1. CASE call[c].op = "Close" /\ Return(c, from)
  <2>1. TypeOK'
    BY <1>0, <1>1, Returned DEF Shape
  <2>2. Shape'
    BY <1>1, ReturnShape
  <2>3. FreshRecord'
    BY <1>1, Returned, FreshKept
  <2>4. Flags'
    BY <1>0, <1>1, Returned, FlagsKept
  <2>5. Sound'
    BY <1>1, Returned, SoundKept
  <2>6. QED
    BY <2>1, <2>2, <2>3, <2>4, <2>5
<1>2. CASE call[c].op = "Disable" /\ Step(c, from, "delete") /\ UNCHANGED locals
  <2>1. TypeOK'
    BY <1>0, <1>2 DEF Shape
  <2>2. Shape'
    BY <1>0, <1>2 DEF Shape
  <2>3. FreshRecord'
    BY <1>2, FreshKept
  <2>4. Flags'
    BY <1>0, <1>2, FlagsKept
  <2>5. Sound'
    BY <1>2, SoundKept
  <2>6. QED
    BY <2>1, <2>2, <2>3, <2>4, <2>5
<1>3. QED
  BY <1>1, <1>2 DEF Stored

LEMMA StorePutInv ==
  ASSUME OneAdmin, IInv, NEW c \in Callers, StorePut(c)
  PROVE  IInv'
<1> USE DEF IInv, TypeOK, Records, Step, Id, Callers
<1> DEFINE r == [record[c] EXCEPT !.data = data[extension[c]]]
<1>1. pc[c] = "storePut" /\ Id(c) \in Extensions /\ extension[c] \in Instances
  BY DEF StorePut, Stored, Return, Shape, Holding
<1>2. /\ r \in Records /\ r.enable = store[Id(c)].enable
      /\ store' = [store EXCEPT ![Id(c)] = r] /\ UNCHANGED <<current, lost, missed>>
  BY <1>1 DEF StorePut, Put, FreshRecord
<1> HIDE DEF r
<1>3. store' \in [Extensions -> Records] /\ SameFlags
  BY <1>1, <1>2 DEF SameFlags
<1>4. QED
  BY <1>2, <1>3, StoredInv DEF StorePut

LEMMA StoreFailsInv ==
  ASSUME OneAdmin, IInv, NEW c \in Callers, StoreFails(c)
  PROVE  IInv'
<1>1. /\ SameFlags /\ store' \in [Extensions -> Records] /\ UNCHANGED <<current, missed>>
      /\ Faults # {} /\ lost' \in {lost, lost \cup {Id(c)}}
  BY DEF StoreFails, Unstored, SameFlags, IInv, TypeOK
<1>2. QED
  BY <1>1, StoredInv DEF StoreFails

LEMMA DeleteInv ==
  ASSUME OneAdmin, IInv, NEW c \in Callers, Delete(c)
  PROVE  IInv'
<1> USE ExtensionAssumption
    DEF IInv, TypeOK, Labels, Records, Calls, Step, Id, Callers, Holding, Edits, Loads,
      disk, objects, locals, Delete
<1>1. TypeOK'
  BY DEF Shape
<1>2. Shape'
  BY DEF Shape
<1>3. FreshRecord'
  BY DEF Shape, FreshRecord, OneAdmin
<1>4. Flags'
  <2>1. c \in Admins /\ Id(c) \in Extensions /\ call[c].op = "Disable" /\ pc'[c] = "editGet"
    BY DEF Shape
  <2>2. Busy(Id(c))'
    BY <2>1 DEF Busy
  <2>3. \A x \in Extensions : ~Busy(x)
    BY <2>1 DEF Busy, OneAdmin
  <2>4. QED
    BY <2>1, <2>2, <2>3 DEF Flags, OneAdmin
<1>5. Sound'
  BY DEF Sound, Shape
<1>6. QED
  BY <1>1, <1>2, <1>3, <1>4, <1>5

\* An edit that cannot read the record ends there.
LEMMA EditFailsInv ==
  ASSUME OneAdmin, IInv, NEW c \in Callers, "Get" \in Faults,
         Return(c, "editGet"), Misses(c), UNCHANGED objects
  PROVE  IInv'
<1> USE ExtensionAssumption
    DEF IInv, TypeOK, Callers, objects, Id
<1>0. pc[c] = "editGet" /\ UNCHANGED <<store, current, lost>>
  BY DEF Misses, Return, Step
<1>1. Id(c) \in Extensions /\ pc[c] = "editGet" /\ c \in Admins
      /\ missed' = (IF call[c].op = "Disable" THEN missed \cup {Id(c)} ELSE missed)
      /\ UNCHANGED <<store, current, lost>>
  <2>1. Id(c) \in Extensions /\ c \in Admins
    BY <1>0 DEF Shape
  <2>2. QED
    BY <1>0, <2>1 DEF Misses
<1>2. TypeOK'
  BY <1>1, Returned
<1>3. Shape'
  BY <1>1, ReturnShape
<1>4. FreshRecord'
  BY <1>1, Returned, FreshKept DEF SameFlags
<1>5. Flags'
  <2>1. \A d \in Admins : d = c /\ pc'[d] = "idle"
    BY <1>1, Returned DEF OneAdmin
  <2>2. \A x \in Extensions : Busy(x) => x \in missed'
    BY <1>1, <2>1 DEF Busy, Edits, Loads
  <2>3. QED
    BY <1>1, <2>1, <2>2 DEF Flags, Edits
<1>6. Sound'
  BY DEF Sound
<1>7. QED
  BY <1>2, <1>3, <1>4, <1>5, <1>6

\* The write of an edit, done or failed.
LEMMA EditPutInv ==
  ASSUME OneAdmin, IInv, NEW c \in Callers, EditPut(c)
  PROVE  IInv'
<1> USE ExtensionAssumption
    DEF IInv, TypeOK, Labels, Records, Calls, Step, Id, Callers, Holding, Edits, Loads,
      objects, locals
<1> DEFINE on == call[c].op = "Enable"
           r == [record[c] EXCEPT !.enable = on]
<1>1. /\ Id(c) \in Extensions /\ pc[c] = "editPut" /\ c \in Admins
      /\ record[c].enable = store[Id(c)].enable /\ UNCHANGED <<current, lost, objects>>
      /\ call[c].op \in {"Enable", "Disable"} /\ on \in BOOLEAN
  BY DEF EditPut, Put, Misses, Shape, FreshRecord
<1>2. \/ store' = [store EXCEPT ![Id(c)] = r] /\ UNCHANGED missed
      \/ /\ "UpdateInsert" \in Faults /\ UNCHANGED store
         /\ missed' = IF on THEN missed ELSE missed \cup {Id(c)}
  BY <1>1 DEF EditPut, Put, Misses
<1>3. /\ store' \in [Extensions -> Records] /\ missed' \subseteq Extensions
      /\ \A x \in Extensions : x # Id(c) => store'[x] = store[x]
      /\ missed \subseteq missed'
      /\ store'[Id(c)].enable = on
         \/ ("UpdateInsert" \in Faults /\ UNCHANGED store /\ (~on => Id(c) \in missed'))
  <2>1. r \in Records /\ r.enable = on
    <3> HIDE DEF on
    <3>1. QED
      BY <1>1
  <2> HIDE DEF r, on
  <2>2. QED
    BY <1>1, <1>2, <2>1
<1> HIDE DEF r
<1>4. \A d \in Admins : d = c
  BY <1>1 DEF OneAdmin
<1>5. CASE on /\ Step(c, "editPut", "loadCheck") /\ UNCHANGED locals
  <2>1. TypeOK'
    BY <1>1, <1>3, <1>5 DEF Shape
  <2>2. Shape'
    BY <1>1, <1>5 DEF Shape
  <2>3. FreshRecord'
    BY <1>1, <1>3, <1>4, <1>5 DEF Shape, FreshRecord
  <2>4. Flags'
    <3>1. Busy(Id(c))' /\ \A x \in Extensions : ~Busy(x)
      BY <1>1, <1>4, <1>5 DEF Busy
    <3>2. QED
      BY <1>1, <1>3, <1>4, <1>5, <3>1 DEF Flags
  <2>5. Sound'
    BY <1>1, <1>2, <1>3, <1>4, <1>5 DEF Sound
  <2>6. QED
    BY <2>1, <2>2, <2>3, <2>4, <2>5
<1>6. CASE ~on /\ Return(c, "editPut")
  <2>1. TypeOK'
    BY <1>1, <1>3, <1>6, Returned
  <2>2. Shape'
    BY <1>6, ReturnShape
  <2>3. FreshRecord'
    BY <1>1, <1>3, <1>6, Returned DEF Shape, FreshRecord, OneAdmin
  <2>4. Flags'
    <3>1. pc'[c] = "idle" /\ enabledExtensionsMap[Id(c)] = Nil
      BY <1>1, <1>6, Returned DEF Flags
    <3>2. \A x \in Extensions : Busy(x) => x = Id(c)
      BY <1>4 DEF Busy
    <3>3. QED
      BY <1>1, <1>3, <1>4, <1>6, <3>1, <3>2 DEF Flags
  <2>5. Sound'
    BY <1>1, <1>2, <1>4, <1>6, Returned DEF Sound
  <2>6. QED
    BY <2>1, <2>2, <2>3, <2>4, <2>5
<1>7. QED
  BY <1>1, <1>5, <1>6 DEF EditPut

LEMMA LoadCheckInv ==
  ASSUME OneAdmin, IInv, NEW c \in Callers, LoadCheck(c)
  PROVE  IInv'
<1> USE ExtensionAssumption
    DEF IInv, TypeOK, Labels, Records, Calls, Step, Id, Callers, Holding, Edits, Loads,
      disk, objects, locals
<1>1. /\ Id(c) \in Extensions /\ pc[c] = "loadCheck" /\ c \in Admins /\ UNCHANGED objects
      /\ UNCHANGED <<store, current, lost>>
  BY DEF LoadCheck, Misses, Shape
<1>2. \A d \in Admins : d = c
  BY <1>1 DEF OneAdmin
<1>3. CASE store[Id(c)].enable /\ Step(c, "loadCheck", "loadInit") /\ UNCHANGED <<locals, disk>>
  <2>1. TypeOK' /\ Shape'
    BY <1>1, <1>3 DEF Shape
  <2>2. FreshRecord' /\ Sound'
    BY <1>1, <1>2, <1>3 DEF FreshRecord, Sound, Shape
  <2>3. Flags'
    BY <1>1, <1>2, <1>3 DEF Flags, Busy
  <2>4. QED
    BY <2>1, <2>2, <2>3
<1>4. CASE /\ Return(c, "loadCheck")
           /\ \/ ~store[Id(c)].enable /\ UNCHANGED missed
              \/ Faults # {} /\ missed' = missed \cup {Id(c)}
  <2>1. TypeOK'
    BY <1>1, <1>4, Returned
  <2>2. Shape'
    BY <1>4, ReturnShape
  <2>3. FreshRecord'
    BY <1>1, <1>4, Returned, FreshKept DEF SameFlags
  <2>4. Flags'
    <3>1. pc'[c] = "idle"
      BY <1>4, Returned
    <3>2. \A x \in Extensions : Busy(x) => x = Id(c)
      BY <1>2 DEF Busy
    <3>3. QED
      BY <1>1, <1>2, <1>4, <3>1, <3>2 DEF Flags
  <2>5. Sound'
    BY <1>1, <1>2, <1>4, Returned DEF Sound
  <2>6. QED
    BY <2>1, <2>2, <2>3, <2>4, <2>5
<1>5. QED
  BY <1>1, <1>3, <1>4 DEF LoadCheck, Misses

LEMMA LoadInitInv ==
  ASSUME OneAdmin, IInv, NEW c \in Callers, LoadInit(c)
  PROVE  IInv'
<1> USE ExtensionAssumption
    DEF IInv, TypeOK, Labels, Records, Calls, Step, Id, Callers, Holding, Edits, Loads,
      disk, objects, locals
<1>1. PICK i \in FreeInstances, v \in Values :
        /\ \/ UNCHANGED lost
           \/ Faults # {} /\ lost' = lost \cup {Id(c)}
        /\ Hold(c, i)
        /\ data' = [data EXCEPT ![i] = v] /\ queue' = [queue EXCEPT ![i] = 0]
  BY DEF LoadInit
<1>2. /\ i \in Instances /\ Step(c, "loadInit", "loadMap") /\ Id(c) \in Extensions
      /\ UNCHANGED <<store, current, missed, enabledExtensionsMap>>
  BY DEF LoadInit, FreeInstances, Shape
<1>3. TypeOK'
  BY <1>1, <1>2 DEF Hold
<1>4. Shape'
  BY <1>1, <1>2 DEF Shape, Hold
<1>5. FreshRecord'
  BY <1>1, <1>2 DEF Shape, FreshRecord, Hold, OneAdmin
<1>6. Flags'
  BY <1>1, <1>2 DEF Shape, Flags, Busy, Hold, OneAdmin
<1>7. Sound'
  BY <1>1, <1>2, SoundKept DEF Hold, SameFlags
<1>8. QED
  BY <1>3, <1>4, <1>5, <1>6, <1>7

LEMMA LoadMapInv ==
  ASSUME OneAdmin, IInv, NEW c \in Callers, LoadMap(c)
  PROVE  IInv'
<1> USE ExtensionAssumption
    DEF IInv, TypeOK, Labels, Records, Calls, Step, Id, Callers, Holding, Edits, Loads
<1>1. /\ Id(c) \in Extensions /\ extension[c] \in Instances /\ c \in Admins
      /\ pc[c] = "loadMap" /\ Return(c, "loadMap") /\ UNCHANGED <<store, lost, data, queue>>
      /\ enabledExtensionsMap' = [enabledExtensionsMap EXCEPT ![Id(c)] = extension[c]]
      /\ current' \in [Extensions -> Values] /\ missed' = missed \ {Id(c)}
  BY DEF LoadMap, Shape, Return
<1>2. TypeOK'
  BY <1>1, Returned
<1>3. Shape'
  BY <1>1, ReturnShape
<1>4. FreshRecord'
  BY <1>1, Returned, FreshKept DEF SameFlags
<1>5. Flags'
  <2>1. \A d \in Admins : d = c /\ pc'[d] = "idle"
    BY <1>1, Returned DEF OneAdmin
  <2>2. \A x \in Extensions : Busy(x) => x = Id(c)
    BY <2>1 DEF Busy
  <2>3. store[Id(c)].enable
    BY <1>1 DEF Flags
  <2>4. QED
    BY <1>1, <2>1, <2>2, <2>3 DEF Flags
<1>6. Sound'
  BY <1>1, Returned DEF Sound, OneAdmin
<1>7. QED
  BY <1>2, <1>3, <1>4, <1>5, <1>6

LEMMA RestartInv ==
  ASSUME IInv, Restart
  PROVE  IInv'
<1> USE ExtensionAssumption
    DEF IInv, TypeOK, Labels, Records, NewRecord, NoCall, Calls, Id, Callers, Holding, Edits,
      Loads
<1>0. PICK unread \in SUBSET Extensions :
      \E loaded \in SUBSET {x \in Extensions \ unread : store[x].enable} :
      \E empty \in SUBSET loaded, f \in [loaded -> Instances] :
        StartsWith(unread, loaded, empty, f)
  BY DEF Restart
<1>1. PICK loaded \in SUBSET {x \in Extensions \ unread : store[x].enable} :
      \E empty \in SUBSET loaded, f \in [loaded -> Instances] :
        StartsWith(unread, loaded, empty, f)
  BY <1>0
<1>2. PICK empty \in SUBSET loaded, f \in [loaded -> Instances] :
        StartsWith(unread, loaded, empty, f)
  BY <1>1
<1>3. /\ queue' = [i \in Instances |-> 0] /\ current' = [x \in Extensions |-> store[x].data]
      /\ pc' = [c \in Callers |-> "idle"] /\ call' = [c \in Callers |-> NoCall]
      /\ extension' = [c \in Callers |-> Nil] /\ record' = [c \in Callers |-> NewRecord]
  BY <1>2 DEF StartsWith
<1>4. TypeOK'
  <2>1. data' \in [Instances -> Values]
    BY <1>2 DEF StartsWith
  <2>2. /\ store' \in [Extensions -> Records]
        /\ enabledExtensionsMap' \in [Extensions -> Instances \cup {Nil}]
        /\ missed' \subseteq Extensions /\ lost' \subseteq Extensions
    BY <1>2 DEF StartsWith
  <2>3. QED
    BY <1>3, <2>1, <2>2
<1>5. Shape' /\ FreshRecord'
  BY <1>3 DEF Shape, FreshRecord
<1>6. Flags'
  BY <1>2, <1>3 DEF StartsWith, Flags, Busy
<1>7. Sound'
  BY <1>2, <1>3 DEF StartsWith, Sound
<1>8. QED
  BY <1>4, <1>5, <1>6, <1>7

-----------------------------------------------------------------------------
LEMMA StepInv == OneAdmin /\ IInv /\ [Next]_vars => IInv'
<1> SUFFICES ASSUME OneAdmin, IInv, [Next]_vars PROVE IInv'
  OBVIOUS
<1>1. ASSUME NEW c \in Streams, NEW x \in Extensions, Invoke(c, "Connect", x) PROVE IInv'
  BY <1>1, InvokeInv DEF Callers, Calls
<1>2. ASSUME NEW c \in Admins, NEW o \in Calls \ {"Connect"}, NEW x \in Extensions,
             Invoke(c, o, x)
      PROVE  IInv'
  BY <1>2, InvokeInv, ExtensionAssumption DEF Callers
<1>3. ASSUME NEW c \in Callers, Advance(c) PROVE IInv'
  <2>1. CASE GetExtension(c) \/ Connect(c) \/ SubmitForm(c) \/ StoreData(c)
    BY <2>1, IsEnableInv, LookupInv, ConnectInv, SubmitFormInv, GetInv, StorePutInv,
       StoreFailsInv
    DEF GetExtension, StoreData
  <2>2. CASE EditExtension(c)
    BY <2>2, DeleteInv, GetInv, EditFailsInv, EditPutInv, LoadCheckInv, LoadInitInv, LoadMapInv
    DEF EditExtension, EditGet
  <2>3. QED
    BY <1>3, <2>1, <2>2 DEF Advance
<1>4. CASE UNCHANGED vars
  BY <1>4 DEF vars, IInv, TypeOK, Shape, FreshRecord, Flags, Busy, Sound, Id
<1>5. QED
  BY <1>1, <1>2, <1>3, <1>4, LeaveInv, RestartInv DEF Next

\* Every variable keeps its type, and a channel never holds more than one
\* message, for any streams, extensions, objects and values, whatever fails.
THEOREM ExtensionTypeCorrect ==
  ASSUME OneAdmin
  PROVE  Spec => []TypeOK
<1>1. IInv => TypeOK
  BY DEF IInv
<1>2. IInv /\ [Next]_vars => IInv'
  BY StepInv
<1>3. QED
  BY <1>1, <1>2, InitInv, PTL DEF Spec

\* Between calls, and from one process to the next, what is loaded is enabled,
\* and what is enabled is loaded unless the last edit or start met a failing
\* access to the database (extension_host.go:121-133, interface.go:59-81).
THEOREM LoadedIffEnabledEver ==
  ASSUME OneAdmin
  PROVE  Spec => []LoadedIffEnabled
<1>1. IInv => LoadedIffEnabled
  BY DEF IInv, Flags, Busy, LoadedIffEnabled, AdminsIdle, Edits, Loads
<1>2. IInv /\ [Next]_vars => IInv'
  BY StepInv
<1>3. QED
  BY <1>1, <1>2, InitInv, PTL DEF Spec

\* Three steps write records: one writes the flag back as it was, one is the
\* edit's, and one is a start's that could not read the record.
Toggles(x) == \E c \in Admins : pc[c] = "editPut" /\ Id(c) = x

LEMMA StepToggles ==
  ASSUME IInv, Next, NEW x \in Extensions, store'[x].enable # store[x].enable
  PROVE  Toggles(x) \/ Unread(x)
<1> USE DEF disk, objects, Put, Return, Unstored, Misses
<1>1. CASE Restart
  BY <1>1 DEF Restart, StartsWith, Unread
<1>2. ASSUME ~Restart PROVE \E c \in Callers : StorePut(c) \/ EditPut(c)
  <2>1. store' # store
    OBVIOUS
  <2>2. ASSUME NEW c \in Callers, Advance(c) PROVE StorePut(c) \/ EditPut(c)
    <3>1. CASE GetExtension(c) \/ Connect(c) \/ SubmitForm(c)
      BY <3>1, <2>1 DEF GetExtension, IsEnable, Lookup, Connect, Receive, SubmitForm
    <3>2. CASE StoreData(c) \/ EditExtension(c)
      BY <3>2, <2>1 DEF StoreData, StoreFails, Get, EditExtension, EditGet, Delete, LoadCheck,
         LoadInit, LoadMap
    <3>3. QED
      BY <2>2, <3>1, <3>2 DEF Advance
  <2>3. QED
    BY <1>2, <2>1, <2>2 DEF Next, Invoke, Leave
<1>3. ASSUME NEW c \in Callers, StorePut(c) PROVE Toggles(x)
  <2>1. pc[c] = "storePut" /\ Id(c) \in Extensions
    BY <1>3 DEF IInv, Shape, StorePut, Stored, Step
  <2>2. record[c].enable = store[Id(c)].enable
    BY <2>1 DEF IInv, FreshRecord
  <2>3. store'[Id(c)].enable = store[Id(c)].enable
    BY <1>3, <2>1, <2>2 DEF IInv, TypeOK, Records, StorePut
  <2>4. \A y \in Extensions : y # Id(c) => store'[y] = store[y]
    BY <1>3 DEF IInv, TypeOK, StorePut
  <2>5. QED
    BY <2>3, <2>4
<1>4. ASSUME NEW c \in Callers, EditPut(c) PROVE Toggles(x)
  <2>1. Id(c) \in Extensions /\ pc[c] = "editPut" /\ c \in Admins
    BY <1>4 DEF IInv, Shape, EditPut, Callers
  <2>2. Id(c) = x
    BY <1>4, <2>1 DEF IInv, TypeOK, EditPut
  <2>3. QED
    BY <2>1, <2>2 DEF Toggles
<1>5. QED
  BY <1>1, <1>2, <1>3, <1>4

\* The record StoreData writes back whole holds the flag it read: only
\* EditExtension changes an enable flag, or a start that cannot read the record
\* (extension.go:44-58, extension_host.go:123-129, interface.go:63-71).
THEOREM OnlyEditsToggleEver ==
  ASSUME OneAdmin
  PROVE  Spec => OnlyEditsToggle
<1> DEFINE Flips == \A x \in Extensions : store'[x].enable # store[x].enable =>
                      \/ \E c \in Admins : pc[c] = "editPut" /\ Id(c) = x
                      \/ Unread(x)
<1>1. IInv /\ [Next]_vars => [Flips]_vars
  BY StepToggles DEF Toggles
<1>2. IInv /\ [Next]_vars => IInv'
  BY StepInv
<1>3. QED
  BY <1>1, <1>2, InitInv, PTL DEF Spec, OnlyEditsToggle

-----------------------------------------------------------------------------
(* DataKept.  It holds at every step, given what the steps of a call hand  *)
(* on: the object a call found is still the one loaded, a record read to   *)
(* be edited and an object built to be loaded have the stored data, and    *)
(* what is about to be unloaded has been stored, unless they are lost.     *)

Kept == \A x \in Extensions \ lost :
  current[x] = IF enabledExtensionsMap[x] = Nil THEN store[x].data
               ELSE data[enabledExtensionsMap[x]]

DataAt(c) ==
  /\ pc[c] \in {"submit", "submitUI", "storeGet", "storePut"} =>
       extension[c] = enabledExtensionsMap[Id(c)]
  /\ pc[c] = "delete" /\ enabledExtensionsMap[Id(c)] # Nil =>
       store[Id(c)].data = data[enabledExtensionsMap[Id(c)]] \/ Id(c) \in lost
  /\ pc[c] = "editPut" => record[c].data = store[Id(c)].data
  /\ pc[c] = "loadMap" =>
       /\ data[extension[c]] = store[Id(c)].data
          \/ (data[extension[c]] = Default /\ Id(c) \in lost)
       /\ \A x \in Extensions : enabledExtensionsMap[x] # extension[c]

DataInv ==
  /\ \A x, y \in Extensions :
       enabledExtensionsMap[x] = enabledExtensionsMap[y] /\ enabledExtensionsMap[x] # Nil => x = y
  /\ \A c \in Admins : DataAt(c)
  /\ Kept

\* A step that touches no record and no object's data, finds nothing that was
\* lost, and keeps DataAt.
LEMMA QuietData ==
  ASSUME DataInv, UNCHANGED <<store, current, enabledExtensionsMap, data>>, lost \subseteq lost',
         \A d \in Admins : DataAt(d)'
  PROVE  DataInv'
  BY DEF DataInv, Kept

\* Streams touch neither.
LEMMA StreamData ==
  ASSUME IInv, DataInv, NEW c \in Streams,
         \/ \E x \in Extensions : Invoke(c, "Connect", x)
         \/ Advance(c) \/ Leave(c)
  PROVE  DataInv'
<1> USE DEF Callers, disk, objects, locals, Step, Hold, Return
<1>1. \A d \in Admins : d # c
  BY ExtensionAssumption
<1>2. /\ pc[c] \in {"idle", "isEnable", "lookup", "updateUI", "receive"}
      /\ pc[c] # "idle" => call[c].op = "Connect"
  BY DEF IInv, Shape
<1>3. Advance(c) => GetExtension(c) \/ Connect(c)
  BY <1>2 DEF Advance, SubmitForm, StoreData, StoreFails, Stored, Get, StorePut, EditExtension,
     EditGet, Delete, EditPut, LoadCheck, LoadInit, LoadMap
<1>4. /\ UNCHANGED <<disk, enabledExtensionsMap, data>>
      /\ \A d \in Admins : /\ pc'[d] = pc[d] /\ call'[d] = call[d]
                           /\ extension'[d] = extension[d] /\ record'[d] = record[d]
  BY <1>1, <1>2, <1>3 DEF IInv, TypeOK, Invoke, GetExtension, IsEnable, Lookup, NotFound,
     Unstored, Connect, UpdateUI, Receive, Leave
<1>5. QED
  BY <1>4, QuietData DEF DataInv, DataAt, Id

\* A call of another handler, up to the object it found.
LEMMA FoundData ==
  ASSUME OneAdmin, IInv, DataInv, NEW c \in Admins,
         \/ \E o \in Calls, x \in Extensions : Invoke(c, o, x)
         \/ GetExtension(c) \/ Connect(c) \/ Leave(c)
  PROVE  DataInv'
<1> USE DEF IInv, TypeOK, Callers, disk, objects, locals, Step, Hold, Return, Id
<1>1. UNCHANGED <<store, current, enabledExtensionsMap, data>> /\ lost \subseteq lost'
  BY DEF Invoke, GetExtension, IsEnable, Lookup, Unstored, Connect, UpdateUI, Receive, Leave
<1>2. DataAt(c)'
  <2>1. CASE \E o \in Calls, x \in Extensions : Invoke(c, o, x)
    BY <2>1 DEF Invoke, DataAt
  <2>2. CASE IsEnable(c)
    <3>1. pc[c] = "isEnable" /\ Id(c) \in Extensions
      BY <2>2 DEF IsEnable, Shape
    <3>2. ~store[Id(c)].enable => enabledExtensionsMap[Id(c)] = Nil
      BY <3>1 DEF Flags
    <3>3. CASE Step(c, "isEnable", "lookup") /\ UNCHANGED <<locals, disk>>
      BY <3>1, <3>3 DEF DataAt
    <3>4. CASE ~store[Id(c)].enable /\ NotFound(c, "isEnable") /\ UNCHANGED disk
      BY <2>2, <3>1, <3>2, <3>4 DEF IsEnable, NotFound, DataAt
    <3>5. CASE NotFound(c, "isEnable") /\ Unstored(c)
      BY <3>1, <3>5 DEF NotFound, Unstored, DataAt
    <3>6. QED
      BY <2>2, <3>3, <3>4, <3>5 DEF IsEnable
  <2>3. CASE Lookup(c)
    BY <2>3 DEF Lookup, NotFound, Entry, Shape, Calls, DataAt
  <2>4. CASE Connect(c) \/ Leave(c)
    BY <2>4 DEF Connect, UpdateUI, Receive, Leave, DataAt
  <2>5. QED
    BY <2>1, <2>2, <2>3, <2>4 DEF GetExtension
<1>3. QED
  BY <1>1, <1>2, QuietData DEF OneAdmin

\* SubmitForm changes the data of the loaded object, and what a client should find.
LEMMA SubmitData ==
  ASSUME OneAdmin, IInv, DataInv, NEW c \in Admins, SubmitForm(c)
  PROVE  DataInv'
<1> USE DEF IInv, TypeOK, Callers, disk, objects, locals, Step, Return, Id
<1>1. CASE pc[c] = "submit"
  <2>1. PICK v \in Values : /\ data' = [data EXCEPT ![extension[c]] = v]
                            /\ current' = [current EXCEPT ![Id(c)] = v]
                            /\ lost' = lost \ {Id(c)}
                            /\ UNCHANGED <<store, enabledExtensionsMap>>
    BY <1>1 DEF SubmitForm
  <2>2. pc'[c] \in {"submitUI", "idle"} /\ (pc'[c] = "submitUI" => UNCHANGED locals)
    BY <1>1 DEF SubmitForm
  <2>3. extension[c] = enabledExtensionsMap[Id(c)] /\ extension[c] \in Instances
        /\ Id(c) \in Extensions
    BY <1>1 DEF DataInv, DataAt, Shape, Holding
  <2>4. Kept'
    BY <2>1, <2>3, ExtensionAssumption DEF DataInv, Kept
  <2>5. DataAt(c)'
    BY <2>1, <2>2, <2>3 DEF DataAt
  <2>6. QED
    BY <2>1, <2>4, <2>5 DEF DataInv, OneAdmin
<1>2. CASE pc[c] # "submit"
  <2>1. UNCHANGED <<disk, enabledExtensionsMap, data>> /\ pc'[c] = "idle"
    BY <1>2 DEF SubmitForm, UpdateUI
  <2>2. QED
    BY <2>1, QuietData DEF DataAt, OneAdmin
<1>3. QED
  BY <1>1, <1>2

\* Close and the storing half of Disable.
LEMMA StoreDataData ==
  ASSUME OneAdmin, IInv, DataInv, NEW c \in Admins, StoreData(c)
  PROVE  DataInv'
<1> USE DEF IInv, TypeOK, Callers, disk, objects, locals, Step, Return, Id
<1>1. CASE Get(c, "storeGet", "storePut")
  BY <1>1, QuietData DEF Get, DataInv, DataAt, OneAdmin
<1>2. CASE StorePut(c)
  <2> DEFINE r == [record[c] EXCEPT !.data = data[extension[c]]]
  <2>0. pc[c] = "storePut" /\ Id(c) \in Extensions
    BY <1>2 DEF StorePut, Stored, Shape
  <2>1. extension[c] = enabledExtensionsMap[Id(c)] /\ extension[c] # Nil
    BY <2>0, ExtensionAssumption DEF DataInv, DataAt, Shape, Holding
  <2>2. /\ store' = [store EXCEPT ![Id(c)] = r] /\ r.data = data[extension[c]]
        /\ UNCHANGED <<current, lost, enabledExtensionsMap, data>>
    BY <1>2, <2>0 DEF StorePut, Stored, Put, Records
  <2>3. pc'[c] \in {"idle", "delete"} /\ (pc'[c] = "delete" => UNCHANGED locals)
    BY <1>2, <2>0 DEF StorePut, Stored
  <2> HIDE DEF r
  <2>4. Kept'
    BY <2>0, <2>1, <2>2 DEF DataInv, Kept
  <2>5. DataAt(c)'
    BY <2>0, <2>1, <2>2, <2>3 DEF DataAt
  <2>6. QED
    BY <2>2, <2>4, <2>5 DEF DataInv, OneAdmin
<1>3. CASE StoreFails(c)
  <2>1. UNCHANGED <<store, current, enabledExtensionsMap, data>> /\ lost \subseteq lost'
    BY <1>3 DEF StoreFails, Stored, Unstored
  <2>2. pc[c] \in {"storeGet", "storePut"}
    BY <1>3 DEF StoreFails, Stored
  <2>3. DataAt(c)'
    BY <1>3, <2>1, <2>2 DEF StoreFails, Stored, Unstored, DataAt
  <2>4. QED
    BY <2>1, <2>3, QuietData DEF OneAdmin
<1>4. QED
  BY <1>1, <1>2, <1>3 DEF StoreData

\* EditExtension and loadExtension.
LEMMA EditData ==
  ASSUME OneAdmin, IInv, DataInv, NEW c \in Admins, EditExtension(c)
  PROVE  DataInv'
<1> USE DEF IInv, TypeOK, Callers, disk, objects, locals, Step, Return, Id
<1>1. CASE Delete(c)
  BY <1>1 DEF Delete, Shape, DataInv, DataAt, Kept, OneAdmin
<1>2. CASE EditGet(c)
  BY <1>2, QuietData DEF EditGet, Get, Misses, Shape, DataInv, DataAt, OneAdmin
<1>3. CASE EditPut(c)
  <2> DEFINE on == call[c].op = "Enable"
             r == [record[c] EXCEPT !.enable = on]
  <2>1. Id(c) \in Extensions /\ r.data = store[Id(c)].data
    BY <1>3 DEF EditPut, DataInv, DataAt, Shape, Records
  <2>2. /\ store' = [store EXCEPT ![Id(c)] = r] \/ UNCHANGED store
        /\ UNCHANGED <<current, lost, enabledExtensionsMap, data>>
        /\ pc'[c] \in {"idle", "loadCheck"}
    BY <1>3 DEF EditPut, Put, Misses
  <2> HIDE DEF r
  <2>3. \A x \in Extensions : store'[x].data = store[x].data
    BY <2>1, <2>2
  <2>4. QED
    BY <2>2, <2>3 DEF DataInv, DataAt, Kept, OneAdmin
<1>4. CASE LoadCheck(c)
  <2>1. UNCHANGED <<store, current, lost, enabledExtensionsMap, data>>
        /\ pc'[c] \in {"idle", "loadInit"}
    BY <1>4 DEF LoadCheck, Misses
  <2>2. QED
    BY <2>1, QuietData DEF DataAt, OneAdmin
<1>5. CASE LoadInit(c)
  <2>1. PICK i \in FreeInstances, v \in Values :
          /\ \/ v = store[Id(c)].data /\ UNCHANGED lost
             \/ v = Default /\ lost' = lost \cup {Id(c)}
          /\ Hold(c, i) /\ data' = [data EXCEPT ![i] = v]
    BY <1>5 DEF LoadInit
  <2>2. /\ i \in Instances /\ \A x \in Extensions : enabledExtensionsMap[x] # i
        /\ pc'[c] = "loadMap" /\ UNCHANGED <<store, current, enabledExtensionsMap>>
    BY <1>5, <2>1 DEF LoadInit, FreeInstances
  <2>3. DataAt(c)'
    BY <2>1, <2>2 DEF Hold, DataAt
  <2>4. Kept'
    BY <2>1, <2>2 DEF DataInv, Kept
  <2>5. QED
    BY <2>2, <2>3, <2>4 DEF DataInv, OneAdmin
<1>6. CASE LoadMap(c)
  <2>1. /\ Id(c) \in Extensions /\ extension[c] \in Instances /\ extension[c] # Nil
        /\ data[extension[c]] = store[Id(c)].data \/ Id(c) \in lost
        /\ \A x \in Extensions : enabledExtensionsMap[x] # extension[c]
    BY <1>6, ExtensionAssumption DEF LoadMap, Shape, Holding, DataInv, DataAt
  <2>2. Kept'
    BY <1>6, <2>1 DEF LoadMap, DataInv, Kept
  <2>3. QED
    BY <1>6, <2>1, <2>2 DEF LoadMap, DataInv, DataAt, OneAdmin
<1>7. QED
  BY <1>1, <1>2, <1>3, <1>4, <1>5, <1>6 DEF EditExtension

\* What a start finds: it loads every object it could read with its stored data.
Finds(unread, loaded, empty) ==
  /\ empty \subseteq loaded /\ loaded \cap unread = {}
  /\ Faults = {} => unread = {} /\ empty = {}
  /\ lost' = unread \cup empty
  /\ \A x \in Extensions :
       /\ store'[x] = IF x \in unread THEN NewRecord ELSE store[x]
       /\ x \in loaded => /\ enabledExtensionsMap'[x] \in Instances
                          /\ data'[enabledExtensionsMap'[x]] =
                               IF x \in empty THEN Default ELSE store[x].data
       /\ x \notin loaded => enabledExtensionsMap'[x] = Nil
  /\ \A x, y \in loaded : enabledExtensionsMap'[x] = enabledExtensionsMap'[y] => x = y
  /\ \A x \in loaded : store[x].enable

LEMMA RestartFinds ==
  ASSUME Restart
  PROVE  \E unread, loaded, empty \in SUBSET Extensions : Finds(unread, loaded, empty)
<1>1. PICK unread \in SUBSET Extensions :
      \E loaded \in SUBSET {x \in Extensions \ unread : store[x].enable} :
      \E empty \in SUBSET loaded, f \in [loaded -> Instances] :
        StartsWith(unread, loaded, empty, f)
  BY DEF Restart
<1>2. PICK loaded \in SUBSET {x \in Extensions \ unread : store[x].enable} :
      \E empty \in SUBSET loaded, f \in [loaded -> Instances] :
        StartsWith(unread, loaded, empty, f)
  BY <1>1
<1>3. PICK empty \in SUBSET loaded, f \in [loaded -> Instances] :
        StartsWith(unread, loaded, empty, f)
  BY <1>2
<1>4. \A x, y \in loaded : f[x] = f[y] => x = y
  BY <1>3 DEF StartsWith
<1>5. \A x \in loaded : (CHOOSE y \in loaded : f[y] = f[x]) = x
  BY <1>4
<1>6. \A x \in loaded : (\E y \in loaded \ empty : f[y] = f[x]) <=> x \notin empty
  BY <1>4
<1>7. ASSUME NEW x \in loaded
      PROVE  data'[f[x]] = IF x \in empty THEN Default ELSE store[x].data
  <2>1. f[x] \in Instances
    BY <1>3
  <2>2. data'[f[x]] = IF \E y \in loaded \ empty : f[y] = f[x]
                      THEN store[CHOOSE y \in loaded : f[y] = f[x]].data ELSE Default
    BY <1>3, <2>1 DEF StartsWith
  <2>3. QED
    BY <1>5, <1>6, <2>2
<1>8. \A x \in Extensions : enabledExtensionsMap'[x] = IF x \in loaded THEN f[x] ELSE Nil
  BY <1>3 DEF StartsWith
<1>9. /\ \A x \in Extensions : store'[x] = IF x \in unread THEN NewRecord ELSE store[x]
      /\ lost' = unread \cup empty /\ (Faults = {} => unread = {} /\ empty = {})
  BY <1>3 DEF StartsWith
<1>10. \A x \in loaded : /\ enabledExtensionsMap'[x] = f[x] /\ f[x] \in Instances
                         /\ data'[enabledExtensionsMap'[x]] =
                              IF x \in empty THEN Default ELSE store[x].data
  BY <1>2, <1>7, <1>8
<1>11. \A x, y \in loaded : enabledExtensionsMap'[x] = enabledExtensionsMap'[y] => x = y
  BY <1>4, <1>10
<1>12. /\ unread \in SUBSET Extensions /\ loaded \in SUBSET Extensions
       /\ empty \in SUBSET Extensions /\ empty \subseteq loaded /\ loaded \cap unread = {}
       /\ \A x \in loaded : store[x].enable
  BY <1>1, <1>2, <1>3
<1>13. \A x \in Extensions : x \notin loaded => enabledExtensionsMap'[x] = Nil
  BY <1>8
<1>14. Finds(unread, loaded, empty)
  BY <1>9, <1>10, <1>11, <1>12, <1>13 DEF Finds
<1>15. QED
  BY <1>12, <1>14

LEMMA RestartData ==
  ASSUME IInv, DataInv, Restart
  PROVE  DataInv'
<1>1. PICK unread, loaded, empty \in SUBSET Extensions : Finds(unread, loaded, empty)
  BY RestartFinds
<1>2. current' = [x \in Extensions |-> store[x].data] /\ pc' = [c \in Callers |-> "idle"]
  BY DEF Restart, StartsWith
<1>3. Kept'
  BY <1>1, <1>2, ExtensionAssumption DEF Finds, Kept
<1>4. \A x, y \in Extensions :
        enabledExtensionsMap'[x] = enabledExtensionsMap'[y] /\ enabledExtensionsMap'[x] # Nil => x = y
  BY <1>1 DEF Finds
<1>5. \A c \in Admins : DataAt(c)'
  BY <1>2 DEF DataAt, Callers
<1>6. QED
  BY <1>3, <1>4, <1>5 DEF DataInv

LEMMA StepData == OneAdmin /\ IInv /\ DataInv /\ [Next]_vars => DataInv'
<1> SUFFICES ASSUME OneAdmin, IInv, DataInv, [Next]_vars PROVE DataInv'
  OBVIOUS
<1>1. CASE UNCHANGED vars
  BY <1>1 DEF vars, DataInv, DataAt, Kept, Id
<1>2. ASSUME NEW c \in Streams, Advance(c) \/ Leave(c) PROVE DataInv'
  BY <1>2, StreamData
<1>3. ASSUME NEW c \in Admins, Advance(c) \/ Leave(c) PROVE DataInv'
  BY <1>3, FoundData, SubmitData, StoreDataData, EditData DEF Advance
<1>4. CASE \E c \in Streams, x \in Extensions : Invoke(c, "Connect", x)
  BY <1>4, StreamData
<1>5. CASE \E c \in Admins, o \in Calls \ {"Connect"}, x \in Extensions : Invoke(c, o, x)
  BY <1>5, FoundData
<1>6. QED
  BY <1>1, <1>2, <1>3, <1>4, <1>5, RestartData DEF Next, Callers

\* Between calls a client finds the Data an extension last had: what a disable
\* unloads has been stored, what an enable loads is what was stored, and no
\* submit reaches an object other than the loaded one (extension.go:44-58,
\* extension_host.go:75-133, interface.go:59-81).  Only the Data that a failed
\* access to the database lost are excepted, until a form sets them anew.
THEOREM DataKeptEver ==
  ASSUME OneAdmin
  PROVE  Spec => []DataKept
<1>1. Init => DataInv
  BY ExtensionAssumption DEF Init, NewRecord, DataInv, DataAt, Kept, Callers
<1>2. IInv /\ [Next]_vars => IInv'
  BY StepInv
<1>3. IInv /\ DataInv /\ [Next]_vars => DataInv'
  BY StepData
<1>4. DataInv => DataKept
  BY DEF DataInv, Kept, DataKept
<1>5. QED
  BY <1>1, <1>2, <1>3, <1>4, InitInv, PTL DEF Spec

-----------------------------------------------------------------------------
(* The host implements ExtensionContract: an invocation, a refusal, a      *)
(* form, the write of StoreData, the unloading of what was not stored, the *)
(* write of EditExtension, the end of a load and a restart are steps of    *)
(* the contract, everything else is a stutter.                             *)

AskedBar   == [c \in Admins |-> Asked(c)]
EnabledBar == {x \in Extensions : store[x].enable}
StoredBar  == [x \in Extensions |-> store[x].data]
ShownBar   == [x \in Extensions |-> Shown(x)]
Unseen     == UNCHANGED <<EnabledBar, StoredBar, ShownBar>>
Stutter    == UNCHANGED AskedBar /\ Unseen

\* Of the calls of Admins only that of a step's caller can change.
LEMMA AskedChanges ==
  ASSUME OneAdmin, NEW c \in Admins, NEW k, Asked(c)' = k
  PROVE  AskedBar' = [AskedBar EXCEPT ![c] = k]
  BY DEF OneAdmin, AskedBar

LEMMA AskedStays ==
  ASSUME \A c \in Admins : Asked(c)' = Asked(c)
  PROVE  UNCHANGED AskedBar
  BY DEF AskedBar

\* What a client finds changes in one extension.
LEMMA ShownChanges ==
  ASSUME NEW y \in Extensions, NEW v, Shown(y)' = v,
         \A x \in Extensions : x # y => Shown(x)' = Shown(x)
  PROVE  ShownBar' = [ShownBar EXCEPT ![y] = v]
  BY DEF ShownBar

LEMMA ShownStays ==
  ASSUME \A x \in Extensions : Shown(x)' = Shown(x)
  PROVE  UNCHANGED ShownBar
  BY DEF ShownBar

\* A step that touches no record and no object.
LEMMA QuietUnseen ==
  ASSUME UNCHANGED <<store, enabledExtensionsMap, data>>
  PROVE  Unseen
  BY DEF Unseen, EnabledBar, StoredBar, ShownBar, Shown

\* A call that ends with no more effect is refused.
LEMMA Refused ==
  ASSUME OneAdmin, NEW c \in Admins, Unseen, Asked(c) = call[c], Asked(c)' = NoCall,
         call[c].op \in Calls,
         Faults # {} \/ (call[c].op \in {"SubmitForm", "Close"} /\ call[c].id \notin EnabledBar)
  PROVE  Contract!Refuse(c)
<1>1. AskedBar' = [AskedBar EXCEPT ![c] = NoCall] /\ AskedBar[c] = call[c]
  BY AskedChanges DEF AskedBar
<1>2. call[c] # NoCall
  BY DEF NoCall, Calls
<1>3. QED
  BY <1>1, <1>2
  DEF Contract!Refuse, Contract!Ends, Unseen, AskedBar, EnabledBar, StoredBar, ShownBar

LEMMA StreamStutter ==
  ASSUME IInv, NEW c \in Streams,
         \/ \E x \in Extensions : Invoke(c, "Connect", x)
         \/ Advance(c) \/ Leave(c)
  PROVE  Stutter
<1> USE DEF Callers, disk, objects, locals, Step, Hold, Return
<1>1. \A d \in Admins : d # c
  BY ExtensionAssumption
<1>2. pc[c] \in {"idle", "isEnable", "lookup", "updateUI", "receive"}
  BY DEF IInv, Shape
<1>3. Advance(c) => GetExtension(c) \/ Connect(c)
  BY <1>2 DEF Advance, SubmitForm, StoreData, StoreFails, Stored, Get, StorePut, EditExtension,
     EditGet, Delete, EditPut, LoadCheck, LoadInit, LoadMap
<1>4. /\ UNCHANGED <<store, enabledExtensionsMap, data>>
      /\ \A d \in Admins : pc'[d] = pc[d] /\ call'[d] = call[d]
  BY <1>1, <1>3 DEF IInv, TypeOK, Invoke, GetExtension, IsEnable, Lookup, NotFound, Unstored,
     Connect, UpdateUI, Receive, Leave
<1>5. \A d \in Admins : Asked(d)' = Asked(d)
  BY <1>4 DEF Asked
<1>6. QED
  BY <1>4, <1>5, QuietUnseen, AskedStays DEF Stutter

LEMMA InvokeContract ==
  ASSUME OneAdmin, IInv, NEW c \in Admins, NEW o \in Calls \ {"Connect"}, NEW x \in Extensions,
         Invoke(c, o, x)
  PROVE  Contract!Ask(c, o, x)
<1> USE DEF IInv, TypeOK, Callers, disk, objects, Step
<1>1. /\ pc[c] = "idle" /\ pc'[c] \in {"editGet", "isEnable"} /\ call'[c] = [op |-> o, id |-> x]
      /\ UNCHANGED <<store, enabledExtensionsMap, data>>
  BY DEF Invoke
<1>2. Unseen
  BY <1>1, QuietUnseen
<1>3. Asked(c) = NoCall /\ Asked(c)' = [op |-> o, id |-> x]
  BY <1>1 DEF Asked
<1>4. AskedBar[c] = NoCall /\ AskedBar' = [AskedBar EXCEPT ![c] = [op |-> o, id |-> x]]
  BY <1>3, AskedChanges DEF AskedBar
<1>5. QED
  BY <1>2, <1>4 DEF Contract!Ask, Unseen, AskedBar, EnabledBar, StoredBar, ShownBar

\* getExtension finds an object, or the call is refused.
LEMMA GetExtensionContract ==
  ASSUME OneAdmin, IInv, NEW c \in Admins, GetExtension(c)
  PROVE  Stutter \/ Contract!Refuse(c)
<1> USE DEF IInv, TypeOK, Callers, disk, objects, locals, Step, Hold
<1>0. PICK y \in Extensions : y = call[c].id
  BY DEF GetExtension, IsEnable, Lookup, Shape, Id
<1>1. /\ pc[c] \in {"isEnable", "lookup"}
      /\ call[c].op \in {"SubmitForm", "Close", "Disable"}
      /\ UNCHANGED <<store, enabledExtensionsMap, data>>
  BY ExtensionAssumption DEF GetExtension, IsEnable, Lookup, Unstored, Shape, Calls
<1>2. Unseen
  BY <1>1, QuietUnseen
<1>3. CASE pc'[c] \in {"lookup", "submit", "storeGet", "delete"} /\ UNCHANGED call
  <2>1. Asked(c)' = Asked(c)
    BY <1>1, <1>3 DEF Asked
  <2>2. QED
    BY <1>2, <2>1, AskedStays DEF OneAdmin, Stutter
<1>4. CASE pc'[c] = "idle" /\ call[c].op # "Disable" /\ (~store[y].enable \/ Faults # {})
  <2>1. Asked(c)' = NoCall /\ Asked(c) = call[c]
    BY <1>1, <1>4 DEF Asked
  <2>2. Faults # {} \/ (call[c].op \in {"SubmitForm", "Close"} /\ call[c].id \notin EnabledBar)
    BY <1>0, <1>1, <1>4 DEF EnabledBar
  <2>3. QED
    BY <1>1, <1>2, <2>1, <2>2, Refused DEF Calls
<1>5. CASE IsEnable(c)
  BY <1>0, <1>1, <1>3, <1>4, <1>5 DEF IsEnable, NotFound, Return, Id
<1>6. CASE Lookup(c)
  <2>1. CASE enabledExtensionsMap[y] = Nil
    <3>1. ~Busy(y)
      BY <1>1 DEF Busy, Edits, Loads, OneAdmin
    <3>2. ~store[y].enable \/ Faults # {}
      BY <2>1, <3>1 DEF Flags, Sound
    <3>3. QED
      BY <1>0, <1>3, <1>4, <1>6, <2>1, <3>2 DEF Lookup, NotFound, Return, Id
  <2>2. CASE enabledExtensionsMap[y] # Nil
    <3>1. Entry[call[c].op] \in {"submit", "storeGet"}
      BY <1>1 DEF Entry
    <3>2. QED
      BY <1>0, <1>3, <1>6, <2>2, <3>1 DEF Lookup, Id
  <2>3. QED
    BY <2>1, <2>2
<1>7. QED
  BY <1>5, <1>6 DEF GetExtension

\* A read of a record is nothing a client sees.
LEMMA GetStutter ==
  ASSUME OneAdmin, IInv, NEW c \in Admins,
         Get(c, "storeGet", "storePut") \/ Get(c, "editGet", "editPut")
  PROVE  Stutter
<1> USE DEF IInv, TypeOK, Callers, disk, objects, Step
<1>1. /\ pc[c] \in {"storeGet", "editGet"} /\ pc'[c] \in {"storePut", "editPut"}
      /\ UNCHANGED <<call, store, enabledExtensionsMap, data>>
  BY DEF Get
<1>2. Unseen
  BY <1>1, QuietUnseen
<1>3. Asked(c)' = Asked(c)
  BY <1>1 DEF Asked
<1>4. QED
  BY <1>2, <1>3, AskedStays DEF OneAdmin, Stutter

LEMMA SubmitContract ==
  ASSUME OneAdmin, IInv, DataInv, NEW c \in Admins, SubmitForm(c)
  PROVE  Stutter \/ \E v \in Values : Contract!SubmitForm(c, v)
<1> USE DEF IInv, TypeOK, Callers, disk, objects, locals, Step, Return, Id
<1>1. CASE pc[c] = "submit"
  <2>1. PICK v \in Values : /\ data' = [data EXCEPT ![extension[c]] = v]
                            /\ UNCHANGED <<store, enabledExtensionsMap>>
    BY <1>1 DEF SubmitForm
  <2>0. PICK y \in Extensions : y = call[c].id
    BY <1>1 DEF Shape
  <2>2. pc'[c] \in {"submitUI", "idle"}
    BY <1>1 DEF SubmitForm
  <2>3. extension[c] = enabledExtensionsMap[y] /\ extension[c] \in Instances
        /\ enabledExtensionsMap[y] # Nil
    BY <1>1, <2>0, ExtensionAssumption DEF DataInv, DataAt, Shape, Holding
  <2>4. store[y].enable
    BY <2>3 DEF Flags
  <2>5. Shown(y)' = v
    BY <2>1, <2>3 DEF Shown
  <2>6. \A x \in Extensions : x # y => Shown(x)' = Shown(x)
    BY <2>1, <2>3 DEF DataInv, Shown
  <2>7. ShownBar' = [ShownBar EXCEPT ![y] = v]
    BY <2>5, <2>6, ShownChanges
  <2>8. y \in EnabledBar /\ UNCHANGED <<EnabledBar, StoredBar>>
    BY <2>1, <2>4 DEF EnabledBar, StoredBar
  <2>9. Asked(c) = call[c] /\ Asked(c)' = NoCall /\ call[c].op = "SubmitForm"
    BY <1>1, <2>2 DEF Asked, Shape
  <2>10. AskedBar[c] = call[c] /\ AskedBar' = [AskedBar EXCEPT ![c] = NoCall]
    BY <2>9, AskedChanges DEF AskedBar
  <2>11. Contract!SubmitForm(c, v)
    BY <2>0, <2>7, <2>8, <2>9, <2>10
    DEF Contract!SubmitForm, Contract!Ends, AskedBar, EnabledBar, StoredBar, ShownBar
  <2>12. QED
    BY <2>11
<1>2. CASE pc[c] # "submit"
  <2>1. UNCHANGED <<store, enabledExtensionsMap, data>> /\ pc'[c] = "idle" /\ pc[c] = "submitUI"
    BY <1>2 DEF SubmitForm, UpdateUI
  <2>2. Unseen
    BY <2>1, QuietUnseen
  <2>3. Asked(c)' = Asked(c)
    BY <2>1 DEF Asked
  <2>4. QED
    BY <2>2, <2>3, AskedStays DEF OneAdmin, Stutter
<1>3. QED
  BY <1>1, <1>2

LEMMA StoreContract ==
  ASSUME OneAdmin, IInv, DataInv, NEW c \in Admins, StorePut(c)
  PROVE  Contract!StoreData(c)
<1> USE DEF IInv, TypeOK, Callers, disk, objects, locals, Step, Return, Id
<1> DEFINE r == [record[c] EXCEPT !.data = data[extension[c]]]
<1>0. pc[c] = "storePut" /\ pc'[c] \in {"idle", "delete"}
  BY DEF StorePut, Stored
<1>1. PICK y \in Extensions : y = call[c].id
  BY <1>0 DEF Shape
<1>2. extension[c] = enabledExtensionsMap[y] /\ extension[c] # Nil
  BY <1>0, <1>1, ExtensionAssumption DEF DataInv, DataAt, Shape, Holding
<1>3. /\ store' = [store EXCEPT ![y] = r] /\ r.data = data[extension[c]]
      /\ r.enable = store[y].enable /\ UNCHANGED <<enabledExtensionsMap, data>>
  BY <1>0, <1>1 DEF StorePut, Stored, Put, Records, FreshRecord
<1>4. store[y].enable
  BY <1>2 DEF Flags
<1> HIDE DEF r
<1>5. \A x \in Extensions : store'[x].enable = store[x].enable /\ (x # y => store'[x] = store[x])
  BY <1>1, <1>3
<1>6. store'[y].data = data[enabledExtensionsMap[y]]
  BY <1>1, <1>2, <1>3
<1>7. \A x \in Extensions : Shown(x)' = Shown(x)
  BY <1>2, <1>3, <1>5 DEF Shown
<1>8. UNCHANGED ShownBar
  BY <1>7, ShownStays
<1>9. StoredBar' = [StoredBar EXCEPT ![y] = ShownBar[y]]
  BY <1>1, <1>2, <1>5, <1>6 DEF StoredBar, ShownBar, Shown
<1>10. y \in EnabledBar /\ UNCHANGED EnabledBar
  BY <1>1, <1>4, <1>5 DEF EnabledBar
<1>11. Asked(c) = call[c] /\ AskedBar[c] = call[c]
  BY <1>0 DEF Asked, AskedBar
<1>12. CASE call[c].op = "Close" /\ Return(c, "storePut")
  <2>1. Asked(c)' = NoCall
    BY <1>0, <1>12 DEF Asked
  <2>2. AskedBar' = [AskedBar EXCEPT ![c] = NoCall]
    BY <2>1, AskedChanges
  <2>3. QED
    BY <1>1, <1>8, <1>9, <1>10, <1>11, <1>12, <2>2
    DEF Contract!StoreData, Contract!Ends, AskedBar, EnabledBar, StoredBar, ShownBar
<1>13. CASE call[c].op = "Disable" /\ Step(c, "storePut", "delete") /\ UNCHANGED locals
  <2>1. Asked(c)' = Asked(c)
    BY <1>0, <1>13 DEF Asked
  <2>2. UNCHANGED AskedBar
    BY <2>1, AskedStays DEF OneAdmin
  <2>3. QED
    BY <1>1, <1>8, <1>9, <1>10, <1>11, <1>13, <2>2
    DEF Contract!StoreData, AskedBar, EnabledBar, StoredBar, ShownBar
<1>14. QED
  BY <1>12, <1>13 DEF StorePut, Stored

\* StoreData that fails: Close ends, Disable goes on.
LEMMA StoreFailsContract ==
  ASSUME OneAdmin, IInv, NEW c \in Admins, StoreFails(c)
  PROVE  Stutter \/ Contract!Refuse(c)
<1> USE DEF IInv, TypeOK, Callers, objects, locals, Step, Return
<1>1. /\ pc[c] \in {"storeGet", "storePut"} /\ UNCHANGED <<store, enabledExtensionsMap, data>>
      /\ Faults # {} /\ call[c].op \in {"Close", "Disable"}
      /\ pc'[c] = "idle" \/ (pc'[c] = "delete" /\ call' = call)
  BY DEF StoreFails, Stored, Unstored
<1>2. Unseen
  BY <1>1, QuietUnseen
<1>3. Asked(c) = call[c]
  BY <1>1 DEF Asked
<1>4. CASE pc'[c] = "idle"
  <2>1. Asked(c)' = NoCall
    BY <1>4 DEF Asked
  <2>2. QED
    BY <1>1, <1>2, <1>3, <2>1, Refused DEF Calls
<1>5. CASE pc'[c] = "delete" /\ call' = call
  <2>1. Asked(c)' = Asked(c)
    BY <1>1, <1>5 DEF Asked
  <2>2. QED
    BY <1>2, <2>1, AskedStays DEF OneAdmin, Stutter
<1>6. QED
  BY <1>1, <1>4, <1>5

\* What is unloaded has been stored, or is lost.
LEMMA DeleteContract ==
  ASSUME OneAdmin, IInv, DataInv, NEW c \in Admins, Delete(c)
  PROVE  Stutter \/ Contract!Unload(c)
<1> USE DEF IInv, TypeOK, Callers, disk, objects, locals, Step, Id
<1>0. PICK y \in Extensions : y = call[c].id
  BY DEF Delete, Shape
<1>1. /\ pc[c] = "delete" /\ pc'[c] = "editGet" /\ call' = call /\ call[c].op = "Disable"
      /\ enabledExtensionsMap' = [enabledExtensionsMap EXCEPT ![y] = Nil]
      /\ UNCHANGED <<store, data>>
  BY <1>0 DEF Delete, Shape
<1>2. Shown(y)' = store[y].data /\ \A x \in Extensions : x # y => Shown(x)' = Shown(x)
  BY <1>0, <1>1 DEF Shown
<1>3. UNCHANGED <<EnabledBar, StoredBar>> /\ StoredBar[y] = store[y].data
  BY <1>1 DEF EnabledBar, StoredBar
<1>4. Asked(c)' = Asked(c) /\ Asked(c) = call[c]
  BY <1>1 DEF Asked
<1>5. UNCHANGED AskedBar /\ AskedBar[c] = call[c]
  BY <1>4, AskedStays DEF OneAdmin, AskedBar
<1>6. CASE Shown(y) = store[y].data
  <2>1. UNCHANGED ShownBar
    BY <1>2, <1>6, ShownStays
  <2>2. QED
    BY <1>3, <1>5, <2>1 DEF Stutter, Unseen
<1>7. CASE Shown(y) # store[y].data
  <2>1. y \in lost
    BY <1>0, <1>1, <1>7 DEF DataInv, DataAt, Shown
  <2>2. Faults # {}
    BY <2>1 DEF Sound
  <2>3. ShownBar' = [ShownBar EXCEPT ![y] = StoredBar[y]]
    BY <1>2, <1>3, ShownChanges
  <2>4. QED
    BY <1>0, <1>1, <1>3, <1>5, <2>2, <2>3
    DEF Contract!Unload, AskedBar, EnabledBar, StoredBar, ShownBar
<1>8. QED
  BY <1>6, <1>7

LEMMA EditGetContract ==
  ASSUME OneAdmin, IInv, NEW c \in Admins, EditGet(c)
  PROVE  Stutter \/ Contract!Refuse(c)
<1>1. CASE Get(c, "editGet", "editPut")
  BY <1>1, GetStutter
<1>2. CASE "Get" \in Faults /\ Return(c, "editGet") /\ Misses(c) /\ UNCHANGED objects
  <2>1. /\ pc[c] = "editGet" /\ pc'[c] = "idle"
        /\ UNCHANGED <<store, enabledExtensionsMap, data>>
    BY <1>2 DEF Return, Step, Misses, objects, IInv, TypeOK, Callers
  <2>2. Unseen
    BY <2>1, QuietUnseen
  <2>3. Asked(c) = call[c] /\ Asked(c)' = NoCall /\ call[c].op \in Calls
    BY <2>1 DEF Asked, IInv, Shape, Callers
  <2>4. QED
    BY <1>2, <2>2, <2>3, Refused
<1>3. QED
  BY <1>1, <1>2 DEF EditGet

LEMMA EditPutContract ==
  ASSUME OneAdmin, IInv, DataInv, NEW c \in Admins, EditPut(c)
  PROVE  Stutter \/ Contract!Enable(c) \/ Contract!Disable(c) \/ Contract!Refuse(c)
<1> USE DEF IInv, TypeOK, Callers, objects, locals, Step, Return, Id
<1> DEFINE on == call[c].op = "Enable"
           r  == [record[c] EXCEPT !.enable = on]
<1>1. /\ pc[c] = "editPut" /\ call[c].op \in {"Enable", "Disable"} /\ call[c].op \in Calls
      /\ UNCHANGED <<enabledExtensionsMap, data>>
  BY DEF EditPut, Put, Misses, Shape, Edits
<1>0. PICK y \in Extensions : y = call[c].id
  BY <1>1 DEF Shape
<1>2. /\ on => pc'[c] = "loadCheck" /\ call' = call
      /\ ~on => pc'[c] = "idle"
  BY <1>1 DEF EditPut
<1>3. Asked(c) = call[c] /\ (on => Asked(c)' = call[c]) /\ (~on => Asked(c)' = NoCall)
  BY <1>1, <1>2 DEF Asked
<1>4. CASE Put(c, r)
  <2>1. record[c].data = store[y].data /\ r.data = record[c].data /\ r.enable = on
    BY <1>0, <1>1 DEF DataInv, DataAt, Records
  <2>2. store' = [store EXCEPT ![y] = r]
    BY <1>0, <1>4 DEF Put
  <2> HIDE DEF r
  <2>3. /\ \A x \in Extensions : store'[x].data = store[x].data /\ (x # y => store'[x] = store[x])
        /\ store'[y].enable = on
    BY <1>0, <1>1, <2>1, <2>2
  <2>4. UNCHANGED <<StoredBar, ShownBar>>
    BY <1>1, <2>3 DEF StoredBar, ShownBar, Shown
  <2>5. AskedBar[c] = call[c]
    BY <1>3 DEF AskedBar
  <2>6. CASE on
    <3>1. EnabledBar' = EnabledBar \cup {y}
      BY <1>0, <2>3, <2>6 DEF EnabledBar
    <3>2. UNCHANGED AskedBar
      BY <1>3, <2>6, AskedStays DEF OneAdmin
    <3>3. QED
      BY <1>0, <2>4, <2>5, <2>6, <3>1, <3>2
      DEF Contract!Enable, AskedBar, EnabledBar, StoredBar, ShownBar
  <2>7. CASE ~on
    <3>1. EnabledBar' = EnabledBar \ {y}
      BY <1>0, <2>3, <2>7 DEF EnabledBar
    <3>2. AskedBar' = [AskedBar EXCEPT ![c] = NoCall]
      BY <1>3, <2>7, AskedChanges
    <3>3. enabledExtensionsMap[y] = Nil
      BY <1>0, <1>1, <2>7 DEF Flags, Edits
    <3>4. StoredBar[y] = ShownBar[y]
      BY <1>0, <3>3 DEF StoredBar, ShownBar, Shown
    <3>5. QED
      BY <1>0, <1>1, <2>4, <2>5, <2>7, <3>1, <3>2, <3>4
      DEF Contract!Disable, Contract!Ends, AskedBar, EnabledBar, StoredBar, ShownBar
  <2>8. QED
    BY <2>6, <2>7
<1>5. CASE "UpdateInsert" \in Faults /\ Misses(c)
  <2>1. Unseen
    BY <1>1, <1>5, QuietUnseen DEF Misses
  <2>2. CASE on
    BY <1>3, <2>1, <2>2, AskedStays DEF OneAdmin, Stutter
  <2>3. CASE ~on
    BY <1>1, <1>3, <1>5, <2>1, <2>3, Refused
  <2>4. QED
    BY <2>2, <2>3
<1>6. QED
  BY <1>4, <1>5 DEF EditPut

\* The load goes on, or is given up.
LEMMA LoadCheckContract ==
  ASSUME OneAdmin, IInv, NEW c \in Admins, LoadCheck(c)
  PROVE  Stutter \/ Contract!Refuse(c)
<1> USE DEF IInv, TypeOK, Callers, disk, objects, locals, Step, Return, Id
<1>1. /\ pc[c] = "loadCheck" /\ UNCHANGED <<store, enabledExtensionsMap, data>>
      /\ call[c].op \in Calls
  BY DEF LoadCheck, Misses, Shape
<1>2. Unseen /\ Asked(c) = call[c]
  BY <1>1, QuietUnseen DEF Asked
<1>3. CASE pc'[c] = "loadInit" /\ call' = call
  <2>1. Asked(c)' = Asked(c)
    BY <1>1, <1>3 DEF Asked
  <2>2. QED
    BY <1>2, <2>1, AskedStays DEF OneAdmin, Stutter
<1>4. CASE pc'[c] = "idle" /\ Faults # {}
  <2>1. Asked(c)' = NoCall
    BY <1>4 DEF Asked
  <2>2. QED
    BY <1>1, <1>2, <1>4, <2>1, Refused
<1>5. ~store[Id(c)].enable => Faults # {}
  BY <1>1 DEF Sound
<1>6. QED
  BY <1>1, <1>3, <1>4, <1>5 DEF LoadCheck

LEMMA LoadInitStutter ==
  ASSUME OneAdmin, IInv, NEW c \in Admins, LoadInit(c)
  PROVE  Stutter
<1> USE DEF IInv, TypeOK, Callers, Step, Hold
<1>1. PICK i \in FreeInstances, v \in Values :
        data' = [data EXCEPT ![i] = v] /\ Hold(c, i)
  BY DEF LoadInit
<1>2. /\ pc[c] = "loadInit" /\ pc'[c] = "loadMap" /\ call' = call
      /\ UNCHANGED <<store, enabledExtensionsMap>>
  BY <1>1 DEF LoadInit
<1>3. \A x \in Extensions : enabledExtensionsMap[x] # i
  BY DEF FreeInstances
<1>4. \A x \in Extensions : Shown(x)' = Shown(x)
  BY <1>1, <1>2, <1>3 DEF Shown
<1>5. Unseen
  BY <1>2, <1>4, ShownStays DEF Unseen, EnabledBar, StoredBar
<1>6. Asked(c)' = Asked(c)
  BY <1>2 DEF Asked
<1>7. QED
  BY <1>5, <1>6, AskedStays DEF OneAdmin, Stutter

LEMMA LoadMapContract ==
  ASSUME OneAdmin, IInv, DataInv, NEW c \in Admins, LoadMap(c)
  PROVE  Contract!Load(c)
<1> USE DEF IInv, TypeOK, Callers, Step, Return, Id
<1>1. pc[c] = "loadMap" /\ pc'[c] = "idle" /\ call[c].op = "Enable" /\ UNCHANGED <<store, data>>
  BY DEF LoadMap, Shape, Loads
<1>0. PICK y \in Extensions : y = call[c].id
  BY <1>1 DEF Shape
<1>2. /\ extension[c] \in Instances /\ extension[c] # Nil
      /\ enabledExtensionsMap' = [enabledExtensionsMap EXCEPT ![y] = extension[c]]
      /\ data[extension[c]] = store[y].data \/ (data[extension[c]] = Default /\ y \in lost)
  BY <1>0, <1>1, ExtensionAssumption DEF LoadMap, Shape, Holding, DataInv, DataAt
<1>3. /\ Shown(y)' = data[extension[c]]
      /\ \A x \in Extensions : x # y => Shown(x)' = Shown(x)
  BY <1>0, <1>1, <1>2 DEF Shown
<1>4. ShownBar' = [ShownBar EXCEPT ![y] = data[extension[c]]]
  BY <1>3, ShownChanges
<1>5. data[extension[c]] \in {StoredBar[y]} \cup (IF Faults # {} THEN {Default} ELSE {})
  BY <1>0, <1>2 DEF Sound, StoredBar
<1>6. y \in EnabledBar /\ UNCHANGED <<EnabledBar, StoredBar>>
  BY <1>0, <1>1 DEF Flags, EnabledBar, StoredBar
<1>7. Asked(c) = call[c] /\ Asked(c)' = NoCall
  BY <1>1 DEF Asked
<1>8. AskedBar[c] = call[c] /\ AskedBar' = [AskedBar EXCEPT ![c] = NoCall]
  BY <1>7, AskedChanges DEF AskedBar
<1>9. QED
  BY <1>0, <1>1, <1>4, <1>5, <1>6, <1>8
  DEF Contract!Load, Contract!Ends, AskedBar, EnabledBar, StoredBar, ShownBar

LEMMA RestartContract ==
  ASSUME IInv, Restart
  PROVE  Contract!Restart
<1>1. PICK unread, loaded, empty \in SUBSET Extensions : Finds(unread, loaded, empty)
  BY RestartFinds
<1>2. pc' = [c \in Callers |-> "idle"]
  BY DEF Restart, StartsWith
<1>3. Faults # {} \/ (unread = {} /\ empty = {})
  BY <1>1 DEF Finds
<1>4. EnabledBar' = EnabledBar \ unread
  BY <1>1 DEF Finds, EnabledBar, NewRecord
<1>5. StoredBar' = [x \in Extensions |-> IF x \in unread THEN Default ELSE StoredBar[x]]
  BY <1>1 DEF Finds, StoredBar, NewRecord
<1>6. \A x \in Extensions : Shown(x)' = IF x \in empty THEN Default ELSE store'[x].data
  BY <1>1, ExtensionAssumption DEF Finds, Shown
<1>7. ShownBar' = [x \in Extensions |-> IF x \in empty THEN Default ELSE StoredBar'[x]]
  BY <1>6 DEF ShownBar, StoredBar
<1>8. AskedBar' = [c \in Admins |-> NoCall]
  BY <1>2 DEF AskedBar, Asked, Callers
<1>9. QED
  BY <1>3, <1>4, <1>5, <1>7, <1>8
  DEF Contract!Restart, AskedBar, ShownBar, StoredBar, EnabledBar

LEMMA StepContract ==
  OneAdmin /\ IInv /\ DataInv /\ [Next]_vars => [Contract!Next]_(Contract!contract)
<1> SUFFICES ASSUME OneAdmin, IInv, DataInv, [Next]_vars PROVE Stutter \/ Contract!Next
  BY DEF Stutter, Unseen, AskedBar, EnabledBar, StoredBar, ShownBar, Contract!contract
<1>1. CASE UNCHANGED vars
  <2>1. Unseen /\ \A c \in Admins : Asked(c)' = Asked(c)
    BY <1>1, QuietUnseen DEF vars, Asked
  <2>2. QED
    BY <2>1, AskedStays DEF Stutter
<1>2. ASSUME NEW c \in Streams, Advance(c) \/ Leave(c) PROVE Stutter
  BY <1>2, StreamStutter
<1>3. ASSUME NEW c \in Admins, Advance(c) \/ Leave(c) PROVE Stutter \/ Contract!Next
  <2>1. CASE GetExtension(c)
    BY <2>1, GetExtensionContract DEF Contract!Next
  <2>2. CASE SubmitForm(c)
    BY <2>2, SubmitContract DEF Contract!Next
  <2>3. CASE StoreData(c)
    BY <2>3, GetStutter, StoreContract, StoreFailsContract DEF StoreData, Contract!Next
  <2>4. CASE EditExtension(c)
    BY <2>4, DeleteContract, EditGetContract, EditPutContract, LoadCheckContract,
       LoadInitStutter, LoadMapContract
    DEF EditExtension, Contract!Next
  <2>5. ~Connect(c) /\ ~Leave(c)
    BY ExtensionAssumption DEF IInv, Shape, Connect, Receive, Leave, Return, Step, Callers
  <2>6. QED
    BY <1>3, <2>1, <2>2, <2>3, <2>4, <2>5 DEF Advance
<1>4. CASE \E c \in Streams, x \in Extensions : Invoke(c, "Connect", x)
  BY <1>4, StreamStutter
<1>5. CASE \E c \in Admins, o \in Calls \ {"Connect"}, x \in Extensions : Invoke(c, o, x)
  BY <1>5, InvokeContract DEF Contract!Next, Calls
<1>6. CASE Restart
  BY <1>6, RestartContract DEF Contract!Next
<1>7. QED
  BY <1>1, <1>2, <1>3, <1>4, <1>5, <1>6 DEF Next, Callers

\* The host implements the contract, where nothing fails and where the database
\* does: a call that ends has taken effect, or is refused where the contract
\* lets it be, and a crash at any step leaves what was stored
\* (extension_host.go:75-133, extension.go:44-58, interface.go:59-81).
THEOREM HostImplementsContract ==
  ASSUME OneAdmin
  PROVE  Spec => ImplementsContract
<1>1. Init => Contract!Init
  <2> SUFFICES ASSUME Init PROVE Contract!Init
    OBVIOUS
  <2>1. EnabledBar = {} /\ StoredBar = [x \in Extensions |-> Default]
    BY DEF Init, EnabledBar, StoredBar, NewRecord
  <2>2. \A x \in Extensions : Shown(x) = store[x].data
    BY DEF Init, Shown
  <2>3. ShownBar = StoredBar
    BY <2>2 DEF ShownBar, StoredBar
  <2>4. AskedBar = [c \in Admins |-> NoCall]
    BY DEF Init, AskedBar, Asked, Callers
  <2>5. QED
    BY <2>1, <2>3, <2>4 DEF Contract!Init, AskedBar, EnabledBar, StoredBar, ShownBar
<1>2. Init => DataInv
  BY ExtensionAssumption DEF Init, NewRecord, DataInv, DataAt, Kept, Callers
<1>3. IInv /\ [Next]_vars => IInv'
  BY StepInv
<1>4. IInv /\ DataInv /\ [Next]_vars => DataInv'
  BY StepData
<1>5. IInv /\ DataInv /\ [Next]_vars => [Contract!Next]_(Contract!contract)
  BY StepContract
<1>6. QED
  BY <1>1, <1>2, <1>3, <1>4, <1>5, InitInv, PTL DEF Spec, ImplementsContract, Contract!Spec
=============================================================================
