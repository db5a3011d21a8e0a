------------------------------ MODULE WebClient ------------------------------
(***************************************************************************)
(* The extension pages of the web client (extension/html/rpc): the list of *)
(* extensions, the page of one of them and its dialogs, in one browser     *)
(* page.  JavaScript runs one handler at a time up to its next await, so   *)
(* an action is what runs between two awaits; answers, stream events and   *)
(* clicks come in any order.  The server is the extension host, reduced to *)
(* the enable flags of its records: a handler goes on at the server when   *)
(* the page has given its call up, each access to the database is a step   *)
(* and may fail.  Bounds: one browser page, and no restart of the server.  *)
(*                                                                         *)
(* A button of a form or of a dialog submits it for the extension that is  *)
(* current; nothing on the page depends on the answer, so only the closing *)
(* of the dialog shows here.                                               *)
(***************************************************************************)
EXTENDS Naturals, Sequences, FiniteSets

CONSTANTS Extensions,
          Calls,        \* unary calls (a pool: bounds those in flight)
  MaxLeft,      \* bound: calls the page gave up whose handlers go on
          Streams,      \* streams (a pool: bounds those the page keeps)
          Undefined

ASSUME WebAssumption == Undefined \notin Extensions \cup Calls /\ "" \notin Extensions

VARIABLES
  enabled,              \* the server's records
  page,                 \* what the page shows, "list" or "extension"
  list,                 \* the listings in #extension-list
  currentExtensionId,
  form,                 \* whose form the extension page holds
  dialog,               \* whose dialog is open
  call, stream,
  \* history: the last call of listExtensions while it is in flight and
  \* whether it failed; whether two overlapped; whether the server carried
  \* out, since it was made, what the page took for failed; whether the
  \* extension page still waits for its first form; whether a stream for the
  \* current extension failed since one was last asked for
  latest, lost, overlap, unseen, awaiting, cut

server  == enabled
lists   == <<list, latest, lost, overlap, unseen>>
pages   == <<page, currentExtensionId>>
forms   == <<form, dialog, awaiting>>
streams == <<stream, cut>>
vars    == <<server, lists, pages, forms, streams, call>>

-----------------------------------------------------------------------------
Flags    == [Extensions -> BOOLEAN]
Items    == [Extensions -> [enable : BOOLEAN, checked : BOOLEAN]]
MaybeExt == Extensions \cup {Undefined}

\* How far the server is with a call.
Stages   == {"sent", "found", "read", "ready", "done", "failed"}
NoAnswer == [x \in Extensions |-> FALSE]
NoCall   == [op |-> "none", id |-> Undefined, enable |-> FALSE, stage |-> "sent",
             saw |-> FALSE, left |-> FALSE, answer |-> NoAnswer]
NoStream == [id |-> Undefined, state |-> "free"]
ListCall == [NoCall EXCEPT !.op = "list"]
EditCall(x, e) == [NoCall EXCEPT !.op = "edit", !.id = x, !.enable = e]
CloseCall(x)   == [NoCall EXCEPT !.op = "close", !.id = x]

TypeOK ==
  /\ enabled \in Flags /\ page \in {"list", "extension"}
  /\ list \in Seq(Items)
  /\ currentExtensionId \in MaybeExt /\ form \in MaybeExt /\ dialog \in MaybeExt
  /\ call \in [Calls -> [op : {"none", "list", "edit", "close"}, id : MaybeExt,
                         enable : BOOLEAN, stage : Stages, saw : BOOLEAN,
                         left : BOOLEAN, answer : Flags]]
  /\ stream \in [Streams -> [id : MaybeExt, state : {"free", "sent", "open", "ended"}]]
  /\ latest \in Calls \cup {Undefined} /\ lost \in BOOLEAN
  /\ overlap \in BOOLEAN /\ unseen \in BOOLEAN /\ awaiting \in BOOLEAN /\ cut \in BOOLEAN

\* window.onload has called listExtensions; L are the calls of an earlier load
\* that are left at the server.
Onload(k, L) ==
  [j \in Calls |-> IF j = k THEN ListCall
                  ELSE IF j \in L THEN [call[j] EXCEPT !.left = TRUE] ELSE NoCall]

Init ==
  /\ enabled \in Flags
  /\ page = "list" /\ list = <<>> /\ currentExtensionId = Undefined
  /\ form = Undefined /\ dialog = Undefined
  /\ \E k \in Calls :
       call = [j \in Calls |-> IF j = k THEN ListCall ELSE NoCall] /\ latest = k
  /\ stream = [s \in Streams |-> NoStream]
  /\ lost = FALSE /\ overlap = FALSE /\ unseen = FALSE /\ awaiting = FALSE /\ cut = FALSE

-----------------------------------------------------------------------------
(* What the handlers share.                                                *)

Free(k)    == call[k].op = "none"
Waiting(k) == ~Free(k) /\ ~call[k].left

\* A handler at the server that has begun runs to its end; a call that is
\* still under way may come to nothing or reach the server at any later time.
Running(k) == call[k].stage \in {"found", "read", "ready"}
Working(k) == call[k].op \in {"edit", "close"} /\ (call[k].stage = "sent" \/ Running(k))

Few(calls) == Cardinality({k \in Calls : calls[k].left}) <= MaxLeft

\* What becomes of the calls when the page has done with call k.
Ended(k) ==
  {c \in {[call EXCEPT ![k] = NoCall], [call EXCEPT ![k].left = TRUE]} :
     IF c[k] = NoCall THEN ~Running(k) ELSE Working(k) /\ Few(c)}

\* A protobuf string field holds "" where undefined was assigned; no
\* extension has that id.
Wire(x) == IF x = Undefined THEN "" ELSE x

\* Mutant: the previous entries are not cleared.
ListWithoutClearing(k, calls) ==
  /\ page' = "list" /\ list' = list
  /\ call' = [calls EXCEPT ![k] = ListCall]
  /\ latest' = k /\ lost' = FALSE /\ unseen' = FALSE
  /\ overlap' = \E j \in Calls \ {k} : calls[j].op = "list"

\* listExtensions() up to its await: the list is cleared before the call.
ListExtensions(k, calls) ==
  /\ page' = "list" /\ list' = <<>>
  /\ call' = [calls EXCEPT ![k] = ListCall]
  /\ latest' = k /\ lost' = FALSE /\ unseen' = FALSE
  /\ overlap' = \E j \in Calls \ {k} : calls[j].op = "list"

\* connect(): a new stream for the extension that is current now.
Connect(s, x) ==
  /\ stream' = [stream EXCEPT ![s] = [id |-> x, state |-> "sent"]]
  /\ cut' = FALSE

-----------------------------------------------------------------------------
(* Clicks; an open dialog is modal.                                        *)

\* The switch of an item: toggleExtension(id, checked) up to its await.
Toggle(k, i, x) ==
  /\ page = "list" /\ dialog = Undefined /\ Free(k)
  /\ list' = [list EXCEPT ![i][x].checked = ~list[i][x].checked]
  /\ call' = [call EXCEPT ![k] = EditCall(x, ~list[i][x].checked)]
  /\ UNCHANGED <<server, latest, lost, overlap, unseen, pages, forms, streams>>

\* An item: enabled, as of its listing, it opens the extension's page.
OpenExtensionPage(s, i, x) ==
  /\ page = "list" /\ dialog = Undefined
  /\ list[i][x].enable
  /\ stream[s].state = "free"
  /\ currentExtensionId' = x /\ page' = "extension" /\ awaiting' = TRUE
  /\ Connect(s, x)
  /\ UNCHANGED <<server, lists, form, dialog, call>>

\* The form's Close button: handleStopButtonClick up to its await.
StopClick(k) ==
  /\ page = "extension" /\ dialog = Undefined /\ form # Undefined /\ Free(k)
  /\ call' = [call EXCEPT ![k] = CloseCall(currentExtensionId)]
  /\ UNCHANGED <<server, lists, pages, forms, streams>>

\* A button of the dialog, or its cross.
CloseDialog ==
  /\ dialog # Undefined /\ dialog' = Undefined
  /\ UNCHANGED <<server, lists, pages, form, awaiting, streams, call>>

Click ==
  \/ \E k \in Calls, x \in Extensions : \E i \in 1 .. Len(list) : Toggle(k, i, x)
  \/ \E s \in Streams, x \in Extensions : \E i \in 1 .. Len(list) : OpenExtensionPage(s, i, x)
  \/ \E k \in Calls : StopClick(k)
  \/ CloseDialog

-----------------------------------------------------------------------------
(* The extension host: steps of the handler of call k, each of which gives *)
(* the calls and the records that may follow it.                           *)

At(k, stage) == [call EXCEPT ![k].stage = stage, ![k].saw = FALSE]

\* ListExtensions; a failed read is among the failures of Listed.
ServeList(k) ==
  /\ call[k].op = "list" /\ call[k].stage = "sent"
  /\ call' = [At(k, "done") EXCEPT ![k].answer = enabled]
  /\ UNCHANGED enabled

\* getExtension, for Close and for EditExtension that disables: the extension
\* is enabled by its record and loaded, or Close refuses.
GetExtension(k) ==
  /\ call[k].op = "close" \/ (call[k].op = "edit" /\ ~call[k].enable)
  /\ call[k].stage = "sent"
  /\ \/ /\ Wire(call[k].id) \in {x \in Extensions : enabled[x]}
        /\ call' = At(k, "found")
     \/ call' = At(k, IF call[k].op = "close" THEN "failed" ELSE "ready")
  /\ UNCHANGED enabled

Stored(k) == At(k, IF call[k].op = "close" THEN "done" ELSE "ready")

\* StoreData reads the record, with its flag;
StoreGet(k) ==
  /\ call[k].stage = "found"
  /\ \/ call' = [At(k, "read") EXCEPT ![k].saw = enabled[call[k].id]]
     \/ call' = Stored(k)
  /\ UNCHANGED enabled

\* and writes it back with the flag it read, whatever the flag is by now.
StorePut(k) ==
  /\ call[k].stage = "read"
  /\ call' = Stored(k)
  /\ enabled' \in {enabled, [enabled EXCEPT ![call[k].id] = call[k].saw]}

\* The rest of EditExtension: Get may fail and so may, unnoticed, the write.
EditPut(k) ==
  /\ call[k].op = "edit"
  /\ call[k].stage = "ready" \/ (call[k].stage = "sent" /\ call[k].enable)
  /\ \/ call' = At(k, "failed") /\ UNCHANGED enabled
     \/ /\ call' = At(k, "done")
        /\ enabled' \in {enabled, [enabled EXCEPT ![call[k].id] = call[k].enable]}

Serve(k) ==
  /\ ServeList(k) \/ GetExtension(k) \/ StoreGet(k) \/ StorePut(k) \/ EditPut(k)
  /\ unseen' = (unseen \/ (call[k].left /\ enabled' # enabled))
  /\ UNCHANGED <<list, latest, lost, overlap, pages, forms, streams>>

\* A handler whose call the page gave up has ended.
Unheard(k) ==
  /\ call[k].left /\ ~Working(k)
  /\ call' = [call EXCEPT ![k] = NoCall]
  /\ UNCHANGED <<server, lists, pages, forms, streams>>

-----------------------------------------------------------------------------
(* The page's side of the calls: an answer, or a failure at any time.      *)

\* Mutant: the switch of an item is not set.
ItemUnset(e) == [enable |-> e]

Item(e) == [enable |-> e, checked |-> e]

\* The rest of listExtensions; a failure leaves the list as it is.
Listed(k) ==
  /\ call[k].op = "list"
  /\ call' = [call EXCEPT ![k] = NoCall]
  /\ latest' = (IF k = latest THEN Undefined ELSE latest)
  /\ \/ /\ call[k].stage = "done"
        /\ list' = Append(list, [x \in Extensions |-> Item(call[k].answer[x])])
        /\ UNCHANGED lost
     \/ lost' = (lost \/ k = latest) /\ UNCHANGED list
  /\ UNCHANGED <<server, overlap, unseen, pages, forms, streams>>

\* Mutant: a toggle whose answer comes back does not list anew.
EditedForgets(k, j) ==
  /\ call[k].op = "edit" /\ Waiting(k)
  /\ call' \in Ended(k)
  /\ UNCHANGED <<server, lists, pages, forms, streams>>

\* The rest of toggleExtension, whether or not the call failed.
Edited(k, j) ==
  /\ call[k].op = "edit" /\ Waiting(k)
  /\ \E calls \in Ended(k) : calls[j] = NoCall /\ ListExtensions(j, calls)
  /\ UNCHANGED <<server, currentExtensionId, forms, streams>>

\* The rest of handleStopButtonClick; a failure is logged.
Closed(k) ==
  /\ call[k].op = "close" /\ Waiting(k)
  /\ \/ /\ call[k].stage = "done"
        /\ currentExtensionId' = Undefined
        /\ ListExtensions(k, call)
     \/ /\ call' \in Ended(k)
        /\ unseen' = (unseen \/ call[k].stage = "done")
        /\ UNCHANGED <<list, latest, lost, overlap, pages>>
  /\ UNCHANGED <<server, forms, streams>>

-----------------------------------------------------------------------------
(* Streams.  The page never cancels one.                                   *)

\* The extension host accepts a stream for an enabled extension.
Accept(s) ==
  /\ stream[s].state = "sent" /\ Wire(stream[s].id) \in {x \in Extensions : enabled[x]}
  /\ stream' = [stream EXCEPT ![s].state = "open"]
  /\ UNCHANGED <<server, lists, pages, forms, cut, call>>

\* Mutant: what arrives is shown whatever page it is for.
DataForAnyPage(s) ==
  /\ stream[s].state = "open"
  /\ \/ form' = stream[s].id /\ awaiting' = FALSE /\ UNCHANGED dialog
     \/ dialog' = stream[s].id /\ UNCHANGED <<form, awaiting>>
  /\ UNCHANGED <<server, lists, pages, streams, call>>

\* 'data': a form or a dialog, dropped unless it is for the current page.
Data(s) ==
  /\ stream[s].state = "open" /\ stream[s].id = currentExtensionId
  /\ \/ form' = stream[s].id /\ awaiting' = FALSE /\ UNCHANGED dialog
     \/ dialog' = stream[s].id /\ UNCHANGED <<form, awaiting>>
  /\ UNCHANGED <<server, lists, pages, streams, call>>

\* 'error' alone: logged, nothing connects again.
Error(s) ==
  /\ stream[s].state \in {"sent", "open"}
  /\ stream' = [stream EXCEPT ![s] = NoStream]
  /\ cut' = (cut \/ stream[s].id = currentExtensionId)
  /\ UNCHANGED <<server, lists, pages, forms, call>>

\* Mutant: the end of a stream is only logged.
EndForgets(s) ==
  /\ stream[s].state \in {"sent", "open"}
  /\ stream' = [stream EXCEPT ![s] = NoStream]
  /\ UNCHANGED <<server, lists, pages, forms, cut, call>>

\* 'end', after 'error' where the status came in the body: a timer is set.
StreamEnd(s) ==
  /\ stream[s].state \in {"sent", "open"}
  /\ stream' = [stream EXCEPT ![s] = [id |-> Undefined, state |-> "ended"]]
  /\ UNCHANGED <<server, lists, pages, forms, cut, call>>

\* The timer connects whatever extension is current by then.
Reconnect(s) ==
  /\ stream[s].state = "ended"
  /\ Connect(s, currentExtensionId)
  /\ UNCHANGED <<server, lists, pages, forms, call>>

-----------------------------------------------------------------------------
\* The page is loaded anew.
Reload(k) ==
  /\ \E L \in SUBSET {j \in Calls \ {k} : Working(j)} :
       /\ \A j \in Calls : Working(j) /\ (Running(j) \/ call[j].left) => j \in L
       /\ call' = Onload(k, L) /\ Few(call')
  /\ page' = "list" /\ list' = <<>> /\ currentExtensionId' = Undefined
  /\ form' = Undefined /\ dialog' = Undefined /\ latest' = k
  /\ stream' = [s \in Streams |-> NoStream]
  /\ lost' = FALSE /\ overlap' = FALSE /\ unseen' = FALSE
  /\ awaiting' = FALSE /\ cut' = FALSE
  /\ UNCHANGED server

Next ==
  \/ Click
  \/ \E k \in Calls : Serve(k) \/ Unheard(k) \/ Listed(k) \/ Closed(k) \/ Reload(k)
  \/ \E k, j \in Calls : Edited(k, j)
  \/ \E s \in Streams : Accept(s) \/ Data(s) \/ Error(s) \/ StreamEnd(s) \/ Reconnect(s)

Spec == Init /\ [][Next]_vars

-----------------------------------------------------------------------------
(* Properties.                                                             *)

\* The page waits for the answer to a toggle, or to a Close that was carried
\* out; either is listed after.
Pending(k) ==
  Waiting(k) /\ (call[k].op = "edit" \/ (call[k].op = "close" /\ call[k].stage = "done"))

\* Once no such answer is due and the last listing asked for has arrived, the
\* page holds a listing that agrees with the server's records, in whatever
\* order quick toggles and Closes, which write the flag back too, were
\* carried out and answered; only what the page took for failed and the
\* server carried out all the same may be missing from it
\* (extensionList.js:9-18, 74-86, extensionPage.js:70-88).
FreshListing ==
  (\A k \in Calls : ~Pending(k)) /\ latest = Undefined /\ ~lost /\ ~unseen
  => \E i \in 1 .. Len(list) : \A x \in Extensions : list[i][x].enable = enabled[x]

\* Every extension is listed once, unless two calls of listExtensions
\* overlapped: each clears the list first and appends to it when it is
\* answered (extensionList.js:11-18).
ListedOnce == ~overlap => Len(list) <= 1

\* Once its first form has arrived, an extension's page holds that
\* extension's form, and not one from a stream of a page opened before
\* (extensionPage.js:7-12, 21-33): what is submitted goes where it belongs.
FormMatchesPage ==
  page = "extension" /\ ~awaiting => form = currentExtensionId

\* The answer to a dialog goes to the extension that opened it or, if its
\* page was closed meanwhile, to none; never to another extension.
DialogAnswersItsOwner ==
  dialog # Undefined => currentExtensionId \in {dialog, Undefined}

\* While an extension's page is open it has a stream or is about to have one,
\* unless a stream for it failed (extensionPage.js:35-44), however streams
\* and timers of pages opened before come to their ends.
PageIsFed ==
  page = "extension" =>
    /\ currentExtensionId # Undefined
    /\ \/ \E s \in Streams : \/ stream[s].state = "ended"
                             \/ /\ stream[s].id = currentExtensionId
                                /\ stream[s].state \in {"sent", "open"}
       \/ cut
=============================================================================
