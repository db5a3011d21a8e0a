-------------------------- MODULE ExtensionContract --------------------------
(***************************************************************************)
(* What the extension host promises while the calls that edit records do   *)
(* not overlap.  A call waits until it has taken effect or is refused,     *)
(* which happens to forms and Close of an extension that is not enabled.   *)
(* Only a form changes the Data clients find, only what clients find is    *)
(* ever stored, what is disabled has been stored, and only a restart, or   *)
(* enabling anew, goes back to what was stored.  A restart forgets the     *)
(* calls that wait.                                                        *)
(*                                                                         *)
(* Where accesses to the database fail, any call may be refused half-way,  *)
(* a Disable may unload Data it has not stored, a load may find none, and  *)
(* a start may reset an extension to a new one.                            *)
(***************************************************************************)
CONSTANTS Callers, Extensions, Values, Default, NoCall,
          Fails      \* whether accesses to the database may fail

VARIABLES asked,    \* per caller: the call that waits
          enabled,  \* the extensions that are enabled
          stored,   \* the Data that outlives the process
          shown     \* the Data clients find

contract == <<asked, enabled, stored, shown>>

Init ==
  /\ asked = [c \in Callers |-> NoCall] /\ enabled = {}
  /\ stored = [x \in Extensions |-> Default] /\ shown = stored

Ask(c, o, x) ==
  /\ asked[c] = NoCall /\ asked' = [asked EXCEPT ![c] = [op |-> o, id |-> x]]
  /\ UNCHANGED <<enabled, stored, shown>>

Ends(c) == asked' = [asked EXCEPT ![c] = NoCall]

Refuse(c) ==
  /\ asked[c] # NoCall
  /\ Fails \/ (asked[c].op \in {"SubmitForm", "Close"} /\ asked[c].id \notin enabled)
  /\ Ends(c) /\ UNCHANGED <<enabled, stored, shown>>

SubmitForm(c, v) ==
  /\ asked[c].op = "SubmitForm" /\ asked[c].id \in enabled
  /\ shown' = [shown EXCEPT ![asked[c].id] = v]
  /\ Ends(c) /\ UNCHANGED <<enabled, stored>>

StoreData(c) ==
  /\ asked[c].id \in enabled
  /\ stored' = [stored EXCEPT ![asked[c].id] = shown[asked[c].id]]
  /\ \/ asked[c].op = "Close" /\ Ends(c)
     \/ asked[c].op = "Disable" /\ UNCHANGED asked
  /\ UNCHANGED <<enabled, shown>>

Enable(c) ==
  /\ asked[c].op = "Enable" /\ enabled' = enabled \cup {asked[c].id}
  /\ UNCHANGED <<asked, stored, shown>>

\* An extension that is enabled anew starts from what was stored.
Load(c) ==
  /\ asked[c].op = "Enable" /\ asked[c].id \in enabled
  /\ \E v \in {stored[asked[c].id]} \cup (IF Fails THEN {Default} ELSE {}) :
       shown' = [shown EXCEPT ![asked[c].id] = v]
  /\ Ends(c) /\ UNCHANGED <<enabled, stored>>

\* Without what was not stored.
Unload(c) ==
  /\ Fails /\ asked[c].op = "Disable"
  /\ shown' = [shown EXCEPT ![asked[c].id] = stored[asked[c].id]]
  /\ UNCHANGED <<asked, enabled, stored>>

Disable(c) ==
  /\ asked[c].op = "Disable" /\ enabled' = enabled \ {asked[c].id}
  /\ stored[asked[c].id] = shown[asked[c].id]
  /\ Ends(c) /\ UNCHANGED <<stored, shown>>

Restart ==
  /\ \E reset, empty \in SUBSET Extensions :
       /\ Fails \/ (reset = {} /\ empty = {})
       /\ enabled' = enabled \ reset
       /\ stored' = [x \in Extensions |-> IF x \in reset THEN Default ELSE stored[x]]
       /\ shown' = [x \in Extensions |-> IF x \in empty THEN Default ELSE stored'[x]]
  /\ asked' = [c \in Callers |-> NoCall]

Next ==
  \/ \E c \in Callers :
       \/ \E o \in {"SubmitForm", "Close", "Enable", "Disable"}, x \in Extensions : Ask(c, o, x)
       \/ Refuse(c) \/ StoreData(c) \/ Enable(c) \/ Load(c) \/ Unload(c) \/ Disable(c)
       \/ \E v \in Values : SubmitForm(c, v)
  \/ Restart

Spec == Init /\ [][Next]_contract
=============================================================================
