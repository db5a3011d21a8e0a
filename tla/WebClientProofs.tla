--------------------------- MODULE WebClientProofs ---------------------------
(***************************************************************************)
(* Theorems about WebClient, for any extensions, calls in flight and       *)
(* streams kept.                                                           *)
(***************************************************************************)
EXTENDS WebClient, TLAPS

CallType == [op : {"none", "list", "edit", "close"}, id : MaybeExt,
             enable : BOOLEAN, stage : Stages, saw : BOOLEAN, left : BOOLEAN,
             answer : Flags]

\* A toggle names an extension and so does a handler that found one; only
\* toggles and Closes are left at the server.
RightCall == {c \in CallType :
                /\ c.op = "edit" => c.id \in Extensions
                /\ c.stage \in {"found", "read"} =>
                     c.id \in Extensions /\ c.op \in {"edit", "close"}
                /\ c.left => c.op \in {"edit", "close"}}

TypeInv == TypeOK /\ call \in [Calls -> RightCall]

\* Unless listings overlapped, at most one is in flight, and none once the
\* list is filled.
OneListing ==
  ~overlap =>
    /\ \A j, k \in Calls : call[j].op = "list" /\ call[k].op = "list" => j = k
    /\ \/ Len(list) = 0
       \/ Len(list) = 1 /\ \A k \in Calls : call[k].op # "list"

Quiet == \A k \in Calls : ~Pending(k)

\* The latest listing is a call in flight; with no answer due that is listed
\* after, what it was answered agrees with the records.
LatestIsFresh ==
  latest # Undefined =>
    /\ call[latest].op = "list"
    /\ Quiet /\ ~unseen /\ call[latest].stage = "done" => call[latest].answer = enabled

PageInv == FormMatchesPage /\ DialogAnswersItsOwner /\ PageIsFed

IInv == TypeInv /\ OneListing /\ LatestIsFresh /\ FreshListing /\ PageInv

-----------------------------------------------------------------------------
(* The calls the page makes.                                               *)

LEMMA CallsTyped ==
  ASSUME NEW x \in Extensions, NEW m \in MaybeExt, NEW e \in BOOLEAN
  PROVE  /\ EditCall(x, e) \in RightCall /\ CloseCall(m) \in RightCall
         /\ EditCall(x, e).op = "edit" /\ ~EditCall(x, e).left
         /\ CloseCall(m).op = "close"
  BY DEF RightCall, CallType, Stages, NoCall, EditCall, CloseCall, NoAnswer, Flags, MaybeExt

LEMMA PlainCalls ==
  /\ NoCall \in RightCall /\ ListCall \in RightCall
  /\ NoCall.op = "none" /\ ~NoCall.left
  /\ ListCall.op = "list" /\ ListCall.stage = "sent" /\ ~ListCall.left
  BY DEF RightCall, CallType, Stages, NoCall, ListCall, NoAnswer, Flags, MaybeExt

\* The page has done with a toggle or a Close: it is gone or left.
LEMMA EndedCalls ==
  ASSUME TypeInv, NEW k \in Calls, NEW calls \in Ended(k)
  PROVE  \E c \in RightCall : /\ calls = [call EXCEPT ![k] = c]
                              /\ c.op \in {"none", "edit", "close"}
                              /\ c.op = "none" \/ c.left
<1>1. CASE calls = [call EXCEPT ![k] = NoCall]
  BY <1>1, PlainCalls
<1>2. CASE calls = [call EXCEPT ![k].left = TRUE] /\ Working(k)
  <2>1. call[k] \in RightCall /\ call[k].op \in {"edit", "close"}
    BY <1>2 DEF TypeInv, Working
  <2> DEFINE c == [call[k] EXCEPT !.left = TRUE]
  <2>2. c \in RightCall /\ c.left /\ c.op = call[k].op
    BY <2>1 DEF RightCall, CallType
  <2>3. calls = [call EXCEPT ![k] = c]
    BY <1>2 DEF TypeInv
  <2>4. QED
    BY <2>1, <2>2, <2>3
<1>3. CASE calls = [call EXCEPT ![k].left = TRUE] /\ ~Working(k)
  <2>1. calls[k] = NoCall
    BY <1>3 DEF Ended
  <2>2. calls[k].left
    BY <1>3 DEF TypeInv, RightCall, CallType
  <2>3. QED
    BY <2>1, <2>2, PlainCalls
<1>4. QED
  BY <1>1, <1>2, <1>3 DEF Ended

\* A step of a handler keeps the call's operation and whose it is.
LEMMA ServedCall ==
  ASSUME TypeInv, NEW k \in Calls, Serve(k)
  PROVE  \E c \in RightCall : /\ call' = [call EXCEPT ![k] = c]
                              /\ c.op = call[k].op /\ c.left = call[k].left
                              /\ call[k].op # "none"
<1> DEFINE to(s, f) == [call[k] EXCEPT !.stage = s, !.saw = f]
<1>1. call[k] \in RightCall /\ enabled \in Flags
  BY DEF TypeInv, TypeOK
<1>2. ASSUME NEW s \in Stages, NEW f \in BOOLEAN,
             s \in {"found", "read"} =>
               call[k].id \in Extensions /\ call[k].op \in {"edit", "close"}
      PROVE  /\ to(s, f) \in RightCall
             /\ to(s, f).op = call[k].op /\ to(s, f).left = call[k].left
  BY <1>1, <1>2 DEF RightCall, CallType
<1>3. \A s \in Stages : At(k, s) = [call EXCEPT ![k] = to(s, FALSE)]
  BY DEF At, TypeInv
<1>4. ASSUME NEW s \in Stages \ {"found", "read"}, call' = At(k, s), call[k].op # "none"
      PROVE  \E c \in RightCall : /\ call' = [call EXCEPT ![k] = c]
                                  /\ c.op = call[k].op /\ c.left = call[k].left
                                  /\ call[k].op # "none"
  BY <1>2, <1>3, <1>4
<1>5. CASE ServeList(k)
  <2> DEFINE c == [call[k] EXCEPT !.stage = "done", !.saw = FALSE, !.answer = enabled]
  <2>1. c \in RightCall /\ c.op = call[k].op /\ c.left = call[k].left
    BY <1>1, <1>5 DEF ServeList, RightCall, CallType, Stages
  <2>2. call' = [call EXCEPT ![k] = c]
    BY <1>5 DEF ServeList, At, TypeInv
  <2>3. QED
    BY <1>5, <2>1, <2>2 DEF ServeList
<1>6. CASE GetExtension(k)
  <2>1. CASE call' = At(k, "found") /\ Wire(call[k].id) \in Extensions
    <3>1. call[k].id \in Extensions
      BY <2>1, WebAssumption DEF Wire
    <3>2. QED
      BY <1>2, <1>3, <1>6, <2>1, <3>1 DEF GetExtension, Stages
  <2>2. CASE call' = At(k, IF call[k].op = "close" THEN "failed" ELSE "ready")
    BY <1>4, <1>6, <2>2 DEF GetExtension, Stages
  <2>3. QED
    BY <1>6, <2>1, <2>2 DEF GetExtension
<1>7. ASSUME call' = Stored(k), call[k].stage \in {"found", "read"}
      PROVE  \E c \in RightCall : /\ call' = [call EXCEPT ![k] = c]
                                  /\ c.op = call[k].op /\ c.left = call[k].left
                                  /\ call[k].op # "none"
  <2>1. call[k].op # "none"
    BY <1>1, <1>7 DEF RightCall
  <2>2. CASE call[k].op = "close"
    BY <1>4, <1>7, <2>1, <2>2 DEF Stored, Stages
  <2>3. CASE call[k].op # "close"
    BY <1>4, <1>7, <2>1, <2>3 DEF Stored, Stages
  <2>4. QED
    BY <2>2, <2>3
<1>8. CASE StoreGet(k)
  <2>1. CASE call' = [At(k, "read") EXCEPT ![k].saw = enabled[call[k].id]]
    <3> DEFINE f == enabled[call[k].id]
    <3>1. call[k].id \in Extensions /\ call[k].op \in {"edit", "close"}
      BY <1>1, <1>8 DEF StoreGet, RightCall
    <3>2. f \in BOOLEAN
      BY <1>1, <3>1 DEF Flags
    <3> HIDE DEF f
    <3>3. call' = [call EXCEPT ![k] = to("read", f)]
      BY <2>1 DEF At, TypeInv, f
    <3>4. QED
      BY <1>2, <3>1, <3>2, <3>3 DEF Stages
  <2>2. CASE call' = Stored(k)
    BY <1>7, <1>8, <2>2 DEF StoreGet
  <2>3. QED
    BY <1>8, <2>1, <2>2 DEF StoreGet
<1>9. CASE StorePut(k)
  BY <1>7, <1>9 DEF StorePut
<1>10. CASE EditPut(k)
  BY <1>4, <1>10 DEF EditPut, Stages
<1>11. QED
  BY <1>5, <1>6, <1>8, <1>9, <1>10 DEF Serve

\* The calls left by an earlier load are toggles and Closes.
LEMMA ReloadedCalls ==
  ASSUME TypeInv, NEW k \in Calls, NEW L \in SUBSET {j \in Calls \ {k} : Working(j)}
  PROVE  /\ Onload(k, L) \in [Calls -> RightCall] /\ Onload(k, L)[k] = ListCall
         /\ \A j \in Calls \ {k} : Onload(k, L)[j].op # "list"
<1>1. ASSUME NEW j \in L
      PROVE  /\ [call[j] EXCEPT !.left = TRUE] \in RightCall
             /\ [call[j] EXCEPT !.left = TRUE].op \in {"edit", "close"}
  <2>1. call[j] \in RightCall /\ call[j].op \in {"edit", "close"}
    BY DEF TypeInv, Working
  <2>2. QED
    BY <2>1 DEF RightCall, CallType
<1>2. QED
  BY <1>1, PlainCalls DEF Onload

LEMMA StreamsTyped ==
  NoStream \in [id : MaybeExt, state : {"free", "sent", "open", "ended"}]
  BY DEF NoStream, MaybeExt

-----------------------------------------------------------------------------
(* Types.                                                                  *)

LEMMA InitType == Init => TypeInv
<1> SUFFICES ASSUME Init PROVE TypeInv
  OBVIOUS
<1>1. PICK k \in Calls :
        call = [j \in Calls |-> IF j = k THEN ListCall ELSE NoCall] /\ latest = k
  BY DEF Init
<1>2. call \in [Calls -> RightCall]
  BY <1>1, PlainCalls
<1>3. stream \in [Streams -> [id : MaybeExt, state : {"free", "sent", "open", "ended"}]]
  BY StreamsTyped DEF Init
<1>4. list \in Seq(Items)
  BY DEF Init
<1>5. QED
  BY <1>1, <1>2, <1>3, <1>4 DEF Init, TypeInv, TypeOK, RightCall, CallType, MaybeExt

LEMMA ToggleType ==
  ASSUME TypeInv, NEW k \in Calls, NEW i \in 1 .. Len(list), NEW x \in Extensions,
         Toggle(k, i, x)
  PROVE  TypeInv' /\ Len(list') = Len(list)
<1> DEFINE t == [list[i] EXCEPT ![x].checked = ~list[i][x].checked]
<1>1. list[i] \in Items /\ list[i][x].checked \in BOOLEAN
  BY DEF TypeInv, TypeOK, Items
<1>2. t \in Items
  BY <1>1 DEF Items
<1>3. list' = [list EXCEPT ![i] = t]
  BY DEF Toggle
<1> HIDE DEF t
<1>4. list' \in Seq(Items) /\ Len(list') = Len(list)
  BY <1>2, <1>3 DEF TypeInv, TypeOK
<1>5. call' \in [Calls -> RightCall]
  <2> DEFINE e == ~list[i][x].checked
  <2>1. e \in BOOLEAN /\ call' = [call EXCEPT ![k] = EditCall(x, e)]
    BY <1>1 DEF Toggle
  <2>2. x \in MaybeExt
    BY DEF MaybeExt
  <2> HIDE DEF e
  <2>3. EditCall(x, e) \in RightCall
    BY <2>1, <2>2, CallsTyped
  <2>4. QED
    BY <2>1, <2>3 DEF TypeInv
<1>6. QED
  BY <1>4, <1>5 DEF Toggle, TypeInv, TypeOK, RightCall, CallType, server, pages, forms, streams

LEMMA ListExtensionsType ==
  ASSUME NEW k \in Calls, NEW calls \in [Calls -> RightCall], ListExtensions(k, calls)
  PROVE  /\ page' = "list" /\ list' \in Seq(Items) /\ Len(list') = 0
         /\ call' \in [Calls -> RightCall]
         /\ call'[k] = ListCall /\ \A j \in Calls \ {k} : call'[j] = calls[j]
         /\ latest' = k /\ lost' = FALSE /\ unseen' = FALSE /\ overlap' \in BOOLEAN
<1>1. /\ call' \in [Calls -> RightCall]
      /\ call'[k] = ListCall /\ \A j \in Calls \ {k} : call'[j] = calls[j]
  BY PlainCalls DEF ListExtensions
<1>2. list' \in Seq(Items) /\ Len(list') = 0
  BY DEF ListExtensions
<1>3. QED
  BY <1>1, <1>2 DEF ListExtensions

LEMMA TypeStep ==
  ASSUME TypeInv, [Next]_vars
  PROVE  TypeInv'
<1>1. ASSUME NEW k \in Calls, NEW x \in Extensions, NEW i \in 1 .. Len(list),
             Toggle(k, i, x)
      PROVE  TypeInv'
  BY <1>1, ToggleType
<1>2. ASSUME NEW s \in Streams, NEW x \in Extensions, NEW i \in 1 .. Len(list),
             OpenExtensionPage(s, i, x)
      PROVE  TypeInv'
  BY <1>2 DEF OpenExtensionPage, Connect, TypeInv, TypeOK, MaybeExt, server, lists
<1>3. ASSUME NEW k \in Calls, StopClick(k)
      PROVE  TypeInv'
  <2>1. CloseCall(currentExtensionId) \in RightCall
    BY DEF RightCall, CallType, Stages, CloseCall, NoCall, NoAnswer, Flags, MaybeExt, TypeInv, TypeOK
  <2>2. call' \in [Calls -> RightCall]
    BY <1>3, <2>1 DEF StopClick, TypeInv
  <2>3. QED
    BY <1>3, <2>2
    DEF StopClick, TypeInv, TypeOK, RightCall, CallType, server, lists, pages, forms, streams
<1>4. CASE CloseDialog
  BY <1>4 DEF CloseDialog, TypeInv, TypeOK, MaybeExt, server, lists, pages, streams
<1>5. ASSUME NEW k \in Calls, Serve(k)
      PROVE  TypeInv'
  <2>1. PICK c \in RightCall : call' = [call EXCEPT ![k] = c]
    BY <1>5, ServedCall
  <2>2. call' \in [Calls -> RightCall]
    BY <2>1 DEF TypeInv
  <2>3. enabled' \in Flags
    <3>1. enabled \in Flags /\ call[k] \in RightCall
      BY DEF TypeInv, TypeOK
    <3>2. ASSUME NEW x, NEW f \in BOOLEAN, enabled' \in {enabled, [enabled EXCEPT ![x] = f]}
          PROVE  enabled' \in Flags
      BY <3>1, <3>2 DEF Flags
    <3>3. call[k].saw \in BOOLEAN /\ call[k].enable \in BOOLEAN
      BY <3>1 DEF RightCall, CallType
    <3>4. CASE StorePut(k)
      BY <3>2, <3>3, <3>4 DEF StorePut
    <3>5. CASE EditPut(k)
      BY <3>1, <3>2, <3>3, <3>5 DEF EditPut
    <3>6. QED
      BY <1>5, <3>1, <3>4, <3>5 DEF Serve, ServeList, GetExtension, StoreGet
  <2>4. unseen' \in BOOLEAN
    <3>1. call[k].left \in BOOLEAN /\ unseen \in BOOLEAN
      BY DEF TypeInv, TypeOK, RightCall, CallType
    <3>2. QED
      BY <1>5, <3>1, Zenon DEF Serve
  <2>5. QED
    BY <1>5, <2>2, <2>3, <2>4
    DEF Serve, TypeInv, TypeOK, RightCall, CallType, pages, forms, streams
<1>6. ASSUME NEW k \in Calls, Unheard(k)
      PROVE  TypeInv'
  <2>1. call' \in [Calls -> RightCall]
    BY <1>6, PlainCalls DEF Unheard, TypeInv
  <2>2. QED
    BY <1>6, <2>1
    DEF Unheard, TypeInv, TypeOK, RightCall, CallType, server, lists, pages, forms, streams
<1>7. ASSUME NEW k \in Calls, Listed(k)
      PROVE  TypeInv'
  <2>1. call' \in [Calls -> RightCall]
    BY <1>7, PlainCalls DEF Listed, TypeInv
  <2>2. [x \in Extensions |-> Item(call[k].answer[x])] \in Items
    BY DEF TypeInv, TypeOK, RightCall, CallType, Flags, Items, Item
  <2>3. list' \in Seq(Items)
    BY <1>7, <2>2 DEF Listed, TypeInv, TypeOK
  <2>4. lost' \in BOOLEAN /\ latest' \in Calls \cup {Undefined}
    BY <1>7, Zenon DEF Listed, TypeInv, TypeOK
  <2>5. QED
    BY <1>7, <2>1, <2>3, <2>4
    DEF Listed, TypeInv, TypeOK, RightCall, CallType, server, pages, forms, streams
<1>8. ASSUME NEW k \in Calls, NEW j \in Calls, Edited(k, j)
      PROVE  TypeInv'
  <2>1. PICK calls \in Ended(k) : calls[j] = NoCall /\ ListExtensions(j, calls)
    BY <1>8 DEF Edited
  <2>2. calls \in [Calls -> RightCall]
    BY EndedCalls DEF TypeInv
  <2>3. QED
    BY <1>8, <2>1, <2>2, ListExtensionsType
    DEF Edited, TypeInv, TypeOK, RightCall, CallType, server, forms, streams
<1>9. ASSUME NEW k \in Calls, Closed(k)
      PROVE  TypeInv'
  <2>1. CASE ListExtensions(k, call) /\ currentExtensionId' = Undefined
    BY <1>9, <2>1, ListExtensionsType
    DEF Closed, TypeInv, TypeOK, RightCall, CallType, MaybeExt, server, forms, streams
  <2>2. CASE /\ call' \in Ended(k)
             /\ unseen' = (unseen \/ call[k].stage = "done")
             /\ UNCHANGED <<list, latest, lost, overlap, pages>>
    <3>1. call' \in [Calls -> RightCall]
      BY <2>2, EndedCalls DEF TypeInv
    <3>2. unseen' \in BOOLEAN
      BY <2>2, Zenon DEF TypeInv, TypeOK
    <3>3. QED
      BY <1>9, <2>2, <3>1, <3>2
      DEF Closed, TypeInv, TypeOK, RightCall, CallType, server, pages, forms, streams
  <2>3. QED
    BY <1>9, <2>1, <2>2 DEF Closed
<1>10. ASSUME NEW k \in Calls, Reload(k)
      PROVE  TypeInv'
  <2>1. PICK L \in SUBSET {j \in Calls \ {k} : Working(j)} : call' = Onload(k, L)
    BY <1>10 DEF Reload
  <2>2. call' \in [Calls -> RightCall]
    BY <2>1, ReloadedCalls
  <2>3. stream' \in [Streams -> [id : MaybeExt, state : {"free", "sent", "open", "ended"}]]
    BY <1>10, StreamsTyped DEF Reload
  <2>4. list' \in Seq(Items)
    BY <1>10 DEF Reload
  <2>5. QED
    BY <1>10, <2>2, <2>3, <2>4 DEF Reload, TypeInv, TypeOK, RightCall, CallType, MaybeExt, server
<1>11. ASSUME NEW s \in Streams,
              Accept(s) \/ Data(s) \/ Error(s) \/ StreamEnd(s) \/ Reconnect(s)
       PROVE  TypeInv'
  <2>1. stream' \in [Streams -> [id : MaybeExt, state : {"free", "sent", "open", "ended"}]]
    BY <1>11, StreamsTyped
    DEF Accept, Data, Error, StreamEnd, Reconnect, Connect, TypeInv, TypeOK, MaybeExt, streams
  <2>2. stream[s].id \in MaybeExt
    BY DEF TypeInv, TypeOK
  <2>3. QED
    BY <1>11, <2>1, <2>2
    DEF Accept, Data, Error, StreamEnd, Reconnect, Connect, TypeInv, TypeOK,
        server, lists, pages, forms, streams
<1>12. CASE UNCHANGED vars
  BY <1>12
  DEF vars, TypeInv, TypeOK, server, lists, pages, forms, streams
<1>13. QED
  BY <1>1, <1>2, <1>3, <1>4, <1>5, <1>6, <1>7, <1>8, <1>9, <1>10, <1>11, <1>12 DEF Next, Click

-----------------------------------------------------------------------------
(* The list.                                                               *)

Listing == OneListing /\ LatestIsFresh /\ FreshListing

\* What the streams, the dialog and the page opened do leaves the list alone.
LEMMA ListingFrame ==
  ASSUME Listing, UNCHANGED <<enabled, list, latest, lost, overlap, unseen, call>>
  PROVE  Listing'
  BY DEF Listing, OneListing, LatestIsFresh, FreshListing, Quiet, Pending, Waiting, Free

\* Listing anew.
LEMMA ListExtensionsListing ==
  ASSUME NEW k \in Calls, NEW calls \in [Calls -> RightCall], ListExtensions(k, calls)
  PROVE  Listing'
<1>1. /\ call'[k] = ListCall /\ \A j \in Calls \ {k} : call'[j] = calls[j]
      /\ latest' = k /\ Len(list') = 0
  BY ListExtensionsType
<1>2. ListCall.op = "list" /\ ListCall.stage = "sent"
  BY PlainCalls
<1>3. k # Undefined
  BY WebAssumption
<1>4. overlap' = \E j \in Calls \ {k} : calls[j].op = "list"
  BY DEF ListExtensions
<1>5. OneListing'
  BY <1>1, <1>2, <1>4 DEF OneListing
<1>6. LatestIsFresh' /\ FreshListing'
  BY <1>1, <1>2, <1>3 DEF LatestIsFresh, FreshListing
<1>7. QED
  BY <1>5, <1>6 DEF Listing

\* A call that is not a listing begins, goes on or ends: what is listed after
\* it stays so, and what is not is counted as unseen.
LEMMA OtherCallListing ==
  ASSUME TypeInv, Listing, NEW k \in Calls, NEW c \in RightCall,
         call[k].op # "list", c.op # "list",
         call' = [call EXCEPT ![k] = c], Len(list') = Len(list),
         UNCHANGED <<latest, lost, overlap>>,
         Quiet' /\ ~unseen' =>
           ~Pending(k) /\ ~unseen /\ UNCHANGED <<enabled, list>>
  PROVE  Listing'
<1>1. call'[k] = c /\ \A j \in Calls \ {k} : call'[j] = call[j]
  BY DEF TypeInv
<1>2. OneListing'
  BY <1>1 DEF Listing, OneListing
<1>3. latest # Undefined => latest \in Calls \ {k}
  BY DEF TypeInv, TypeOK, Listing, LatestIsFresh
<1>4. Quiet' /\ ~unseen' => Quiet /\ ~unseen /\ UNCHANGED <<enabled, list>>
  BY <1>1 DEF Quiet, Pending, Waiting, Free
<1>5. LatestIsFresh'
  BY <1>1, <1>3, <1>4 DEF Listing, LatestIsFresh
<1>6. FreshListing'
  BY <1>4 DEF Listing, FreshListing, Quiet
<1>7. QED
  BY <1>2, <1>5, <1>6 DEF Listing

LEMMA ServeListing ==
  ASSUME TypeInv, Listing, NEW k \in Calls, Serve(k)
  PROVE  Listing'
<1>1. PICK c \in RightCall : /\ call' = [call EXCEPT ![k] = c]
                            /\ c.op = call[k].op /\ c.left = call[k].left
                            /\ call[k].op # "none"
  BY ServedCall
<1>2. call'[k] = c /\ \A j \in Calls \ {k} : call'[j] = call[j]
  BY <1>1 DEF TypeInv
<1>3. UNCHANGED <<list, latest, lost, overlap>>
  BY DEF Serve
<1>4. unseen' = (unseen \/ (call[k].left /\ enabled' # enabled))
  BY DEF Serve
<1>5. CASE call[k].op = "list"
  <2>1. /\ enabled' = enabled /\ call' = [At(k, "done") EXCEPT ![k].answer = enabled]
    BY <1>5 DEF Serve, ServeList, GetExtension, StoreGet, StorePut, EditPut, TypeInv, RightCall
  <2>2. call'[k].answer = enabled
    BY <2>1 DEF At, TypeInv, RightCall, CallType
  <2>3. Quiet' = Quiet /\ (~unseen' => ~unseen)
    BY <1>1, <1>2, <1>4, <1>5 DEF Quiet, Pending, Waiting, Free
  <2>4. OneListing'
    BY <1>1, <1>2, <1>3 DEF Listing, OneListing
  <2>5. LatestIsFresh'
    BY <1>1, <1>2, <1>3, <2>1, <2>2, <2>3 DEF Listing, LatestIsFresh, TypeInv, TypeOK
  <2>6. FreshListing'
    BY <1>3, <2>1, <2>3 DEF Listing, FreshListing, Quiet
  <2>7. QED
    BY <2>4, <2>5, <2>6 DEF Listing
<1>6. CASE call[k].op # "list"
  <2>1. Pending(k) => Pending(k)'
    <3>1. CASE call[k].op = "edit"
      BY <1>1, <1>2, <3>1 DEF Pending, Waiting, Free
    <3>2. CASE call[k].op = "close" /\ call[k].stage = "done"
      BY <3>2 DEF Serve, ServeList, GetExtension, StoreGet, StorePut, EditPut
    <3>3. QED
      BY <3>1, <3>2 DEF Pending
  <2>2. CASE enabled' = enabled
    <3>1. Quiet' /\ ~unseen' => ~Pending(k) /\ ~unseen /\ UNCHANGED <<enabled, list>>
      BY <1>3, <1>4, <2>1, <2>2 DEF Quiet
    <3>2. QED
      BY <1>1, <1>3, <1>6, <3>1, OtherCallListing
  <2>3. CASE enabled' # enabled
    <3>1. CASE call[k].left
      <4>1. unseen'
        BY <1>4, <2>3, <3>1
      <4>2. QED
        BY <1>1, <1>3, <1>6, <4>1, OtherCallListing
    <3>2. CASE ~call[k].left
      <4>1. StorePut(k) \/ EditPut(k)
        BY <2>3 DEF Serve, ServeList, GetExtension, StoreGet
      <4>2. call[k].op \in {"edit", "close"}
        BY <1>1, <1>6 DEF RightCall, CallType, TypeInv
      <4>3. CASE call[k].op = "edit"
        <5>1. Pending(k)'
          BY <1>1, <1>2, <3>2, <4>3 DEF Pending, Waiting, Free
        <5>2. QED
          BY <1>1, <1>3, <1>6, <5>1, OtherCallListing DEF Quiet
      <4>4. CASE call[k].op = "close"
        <5>1. call' = Stored(k)
          BY <4>1, <4>4 DEF StorePut, EditPut
        <5>2. call'[k].stage = "done"
          BY <4>4, <5>1 DEF Stored, At, TypeInv, RightCall, CallType
        <5>3. Pending(k)'
          BY <1>1, <1>2, <3>2, <4>4, <5>2 DEF Pending, Waiting, Free
        <5>4. QED
          BY <1>1, <1>3, <1>6, <5>3, OtherCallListing DEF Quiet
      <4>5. QED
        BY <4>2, <4>3, <4>4
    <3>3. QED
      BY <3>1, <3>2
  <2>4. QED
    BY <2>2, <2>3
<1>7. QED
  BY <1>5, <1>6

\* A toggle or a Close ends on the page, or is left at the server.
LEMMA EndedListing ==
  ASSUME TypeInv, Listing, NEW k \in Calls, call[k].op \in {"edit", "close"},
         call' \in Ended(k), UNCHANGED <<enabled, list, latest, lost, overlap>>,
         ~unseen' => ~unseen /\ ~Pending(k)
  PROVE  Listing'
<1>1. PICK c \in RightCall : /\ call' = [call EXCEPT ![k] = c]
                            /\ c.op \in {"none", "edit", "close"}
  BY EndedCalls
<1>2. QED
  BY <1>1, OtherCallListing

LEMMA ListedListing ==
  ASSUME TypeInv, Listing, NEW k \in Calls, Listed(k)
  PROVE  Listing'
<1>1. /\ call'[k] = NoCall /\ \A j \in Calls \ {k} : call'[j] = call[j]
      /\ NoCall.op = "none" /\ call[k].op = "list"
  BY PlainCalls DEF Listed, TypeInv
<1>2. enabled' = enabled /\ overlap' = overlap /\ unseen' = unseen
      /\ latest' = IF k = latest THEN Undefined ELSE latest
  BY DEF Listed, server
<1>3. Quiet' = Quiet
  BY <1>1 DEF Quiet, Pending, Waiting, Free
<1>4. LatestIsFresh'
  BY <1>1, <1>2, <1>3 DEF Listing, LatestIsFresh, TypeInv, TypeOK
<1> DEFINE new == [x \in Extensions |-> Item(call[k].answer[x])]
<1>5. new \in Items /\ list \in Seq(Items)
  BY DEF TypeInv, TypeOK, RightCall, CallType, Flags, Items, Item
<1>6. CASE call[k].stage = "done" /\ list' = Append(list, new) /\ lost' = lost
  <2> HIDE DEF new
  <2>1. /\ Len(list') = Len(list) + 1 /\ list'[Len(list) + 1] = new
        /\ \A i \in 1 .. Len(list) : list'[i] = list[i]
    BY <1>5, <1>6
  <2>2. OneListing'
    BY <1>1, <1>2, <1>5, <2>1 DEF Listing, OneListing
  <2>3. ASSUME Quiet, latest' = Undefined, ~lost', ~unseen
        PROVE  \E i \in 1 .. Len(list') : \A x \in Extensions : list'[i][x].enable = enabled'[x]
    <3>1. CASE latest = k
      <4>1. call[k].answer = enabled
        BY <1>6, <2>3, <3>1, WebAssumption DEF Listing, LatestIsFresh
      <4>2. \A x \in Extensions : new[x].enable = enabled[x]
        BY <4>1 DEF new, Item
      <4>3. Len(list') \in 1 .. Len(list')
        BY <1>5, <2>1
      <4>4. QED
        BY <1>2, <1>5, <2>1, <4>2, <4>3
    <3>2. CASE latest # k
      <4>1. PICK i \in 1 .. Len(list) : \A x \in Extensions : list[i][x].enable = enabled[x]
        BY <1>2, <1>6, <2>3, <3>2 DEF Listing, FreshListing, Quiet
      <4>2. i \in 1 .. Len(list') /\ list'[i] = list[i]
        BY <1>5, <2>1
      <4>3. QED
        BY <1>2, <4>1, <4>2
    <3>3. QED
      BY <3>1, <3>2
  <2>4. FreshListing'
    BY <1>2, <1>3, <2>3 DEF FreshListing, Quiet
  <2>5. QED
    BY <1>4, <2>2, <2>4 DEF Listing
<1>7. CASE lost' = (lost \/ k = latest) /\ list' = list
  <2>1. OneListing'
    BY <1>1, <1>2, <1>7 DEF Listing, OneListing
  <2>2. ~lost' => ~lost /\ latest' = latest
    BY <1>2, <1>7
  <2>3. FreshListing'
    BY <1>2, <1>3, <1>7, <2>2 DEF Listing, FreshListing, Quiet
  <2>4. QED
    BY <1>4, <2>1, <2>3 DEF Listing
<1>8. QED
  BY <1>6, <1>7 DEF Listed

LEMMA InitListing == Init => Listing
<1> SUFFICES ASSUME Init PROVE Listing
  OBVIOUS
<1>1. PICK k \in Calls :
        call = [j \in Calls |-> IF j = k THEN ListCall ELSE NoCall] /\ latest = k
  BY DEF Init
<1>2. /\ call[k] = ListCall /\ \A j \in Calls \ {k} : call[j] = NoCall
      /\ NoCall.op = "none" /\ ListCall.op = "list" /\ ListCall.stage = "sent"
  BY <1>1, PlainCalls
<1>3. OneListing
  BY <1>2 DEF Init, OneListing
<1>4. LatestIsFresh /\ FreshListing
  BY <1>1, <1>2, WebAssumption DEF LatestIsFresh, FreshListing
<1>5. QED
  BY <1>3, <1>4 DEF Listing

LEMMA ReloadListing ==
  ASSUME TypeInv, Listing, NEW k \in Calls, Reload(k)
  PROVE  Listing'
<1>1. /\ call'[k] = ListCall /\ \A j \in Calls \ {k} : call'[j].op # "list"
      /\ ListCall.op = "list" /\ ListCall.stage = "sent" /\ latest' = k
  BY PlainCalls, ReloadedCalls DEF Reload
<1>2. OneListing'
  BY <1>1 DEF Reload, OneListing
<1>3. LatestIsFresh' /\ FreshListing'
  BY <1>1, WebAssumption DEF LatestIsFresh, FreshListing
<1>4. QED
  BY <1>2, <1>3 DEF Listing

LEMMA ListingStep ==
  ASSUME TypeInv, Listing, [Next]_vars
  PROVE  Listing'
<1>1. ASSUME NEW k \in Calls, NEW x \in Extensions, NEW i \in 1 .. Len(list),
             Toggle(k, i, x)
      PROVE  Listing'
  <2>1. list[i][x].checked \in BOOLEAN
    BY DEF TypeInv, TypeOK, Items
  <2>2. PICK e \in BOOLEAN : call' = [call EXCEPT ![k] = EditCall(x, e)]
    BY <1>1, <2>1 DEF Toggle
  <2>3. x \in MaybeExt
    BY DEF MaybeExt
  <2>4. /\ EditCall(x, e) \in RightCall
        /\ EditCall(x, e).op = "edit" /\ ~EditCall(x, e).left
    BY <2>3, CallsTyped
  <2>5. call[k].op = "none" /\ UNCHANGED <<enabled, latest, lost, overlap, unseen>>
    BY <1>1 DEF Toggle, Free, server
  <2>6. ~Quiet'
    BY <2>2, <2>4 DEF Quiet, Pending, Waiting, Free, TypeInv
  <2>7. QED
    BY <1>1, <2>2, <2>4, <2>5, <2>6, ToggleType, OtherCallListing
<1>2. ASSUME NEW s \in Streams, NEW x \in Extensions, NEW i \in 1 .. Len(list),
             OpenExtensionPage(s, i, x)
      PROVE  Listing'
  BY <1>2, ListingFrame DEF OpenExtensionPage, server, lists
<1>3. ASSUME NEW k \in Calls, StopClick(k)
      PROVE  Listing'
  <2>1. CloseCall(currentExtensionId) \in RightCall /\ CloseCall(currentExtensionId).op = "close"
    BY DEF RightCall, CallType, Stages, CloseCall, NoCall, NoAnswer, Flags, MaybeExt, TypeInv, TypeOK
  <2>2. ~Pending(k)
    BY <1>3 DEF StopClick, Pending, Waiting
  <2>3. QED
    BY <1>3, <2>1, <2>2, OtherCallListing DEF StopClick, Free, server, lists
<1>4. CASE CloseDialog
  BY <1>4, ListingFrame DEF CloseDialog, server, lists
<1>5. ASSUME NEW k \in Calls, Serve(k) \/ Listed(k) \/ Reload(k)
      PROVE  Listing'
  BY <1>5, ServeListing, ListedListing, ReloadListing
<1>6. ASSUME NEW k \in Calls, NEW j \in Calls, Edited(k, j)
      PROVE  Listing'
  <2>1. PICK calls \in Ended(k) : ListExtensions(j, calls)
    BY <1>6 DEF Edited
  <2>2. calls \in [Calls -> RightCall]
    BY EndedCalls DEF TypeInv
  <2>3. QED
    BY <2>1, <2>2, ListExtensionsListing
<1>7. ASSUME NEW k \in Calls, Closed(k)
      PROVE  Listing'
  <2>1. CASE ListExtensions(k, call)
    BY <2>1, ListExtensionsListing DEF TypeInv
  <2>2. CASE /\ call' \in Ended(k)
             /\ unseen' = (unseen \/ call[k].stage = "done")
             /\ UNCHANGED <<list, latest, lost, overlap, pages>>
    <3>1. ~unseen' => ~unseen /\ ~Pending(k)
      BY <1>7, <2>2 DEF Closed, Pending
    <3>2. QED
      BY <1>7, <2>2, <3>1, EndedListing DEF Closed, server
  <2>3. QED
    BY <1>7, <2>1, <2>2 DEF Closed
<1>8. ASSUME NEW k \in Calls, Unheard(k)
       PROVE  Listing'
  <2>1. call[k].op # "list" /\ ~Pending(k)
    BY <1>8 DEF Unheard, Pending, Waiting, TypeInv, RightCall
  <2>2. QED
    BY <1>8, <2>1, PlainCalls, OtherCallListing DEF Unheard, server, lists
<1>9. ASSUME NEW s \in Streams,
             Accept(s) \/ Data(s) \/ Error(s) \/ StreamEnd(s) \/ Reconnect(s)
      PROVE  Listing'
  BY <1>9, ListingFrame DEF Accept, Data, Error, StreamEnd, Reconnect, server, lists
<1>10. CASE UNCHANGED vars
  BY <1>10, ListingFrame DEF vars, server, lists
<1>11. QED
  BY <1>1, <1>2, <1>3, <1>4, <1>5, <1>6, <1>7, <1>8, <1>9, <1>10 DEF Next, Click

-----------------------------------------------------------------------------
(* The extension page.                                                     *)

LEMMA InitPage == Init => PageInv
  BY DEF Init, PageInv, FormMatchesPage, DialogAnswersItsOwner, PageIsFed

\* A stream, a timer or a flag that stands for the page's stream still does.
LEMMA PageStep ==
  ASSUME TypeInv, PageInv, [Next]_vars
  PROVE  PageInv'
<1> USE DEF PageInv, FormMatchesPage, DialogAnswersItsOwner, PageIsFed
<1>1. ASSUME NEW k \in Calls, NEW x \in Extensions, NEW i \in 1 .. Len(list),
             Toggle(k, i, x)
      PROVE  PageInv'
  BY <1>1 DEF Toggle, pages, forms, streams
<1>2. ASSUME NEW s \in Streams, NEW x \in Extensions, NEW i \in 1 .. Len(list),
             OpenExtensionPage(s, i, x)
      PROVE  PageInv'
  <2>1. stream'[s].id = currentExtensionId' /\ stream'[s].state = "sent"
    BY <1>2 DEF OpenExtensionPage, Connect, TypeInv, TypeOK
  <2>2. QED
    BY <1>2, <2>1, WebAssumption DEF OpenExtensionPage
<1>3. ASSUME NEW k \in Calls, StopClick(k) \/ Serve(k) \/ Unheard(k) \/ Listed(k)
      PROVE  PageInv'
  BY <1>3 DEF StopClick, Serve, Unheard, Listed, pages, forms, streams
<1>4. CASE CloseDialog
  BY <1>4 DEF CloseDialog, pages, streams
<1>5. ASSUME NEW k \in Calls, NEW j \in Calls, Edited(k, j) \/ Closed(k) \/ Reload(k)
      PROVE  PageInv'
  BY <1>5 DEF Edited, Closed, Reload, ListExtensions, pages, forms, streams
<1>6. ASSUME NEW s \in Streams, Accept(s)
      PROVE  PageInv'
  BY <1>6 DEF Accept, pages, forms, TypeInv, TypeOK
<1>7. ASSUME NEW s \in Streams, Data(s)
      PROVE  PageInv'
  BY <1>7 DEF Data, pages, streams
<1>8. ASSUME NEW s \in Streams, Error(s)
      PROVE  PageInv'
  BY <1>8 DEF Error, pages, forms, TypeInv, TypeOK
<1>9. ASSUME NEW s \in Streams, StreamEnd(s)
      PROVE  PageInv'
  BY <1>9 DEF StreamEnd, pages, forms, TypeInv, TypeOK
<1>10. ASSUME NEW s \in Streams, Reconnect(s)
       PROVE  PageInv'
  BY <1>10 DEF Reconnect, Connect, pages, forms, TypeInv, TypeOK
<1>11. CASE UNCHANGED vars
  BY <1>11 DEF vars, pages, forms, streams
<1>12. QED
  BY <1>1, <1>2, <1>3, <1>4, <1>5, <1>6, <1>7, <1>8, <1>9, <1>10, <1>11 DEF Next, Click

-----------------------------------------------------------------------------
\* Nothing an answer, a stream or a click brings breaks the invariant.
THEOREM Invariance == Spec => []IInv
<1>1. Init => IInv
  BY InitType, InitListing, InitPage DEF IInv, Listing
<1>2. IInv /\ [Next]_vars => IInv'
  BY TypeStep, ListingStep, PageStep DEF IInv, Listing
<1>3. QED
  BY <1>1, <1>2, PTL DEF Spec

\* Every variable of the page keeps its type.
THEOREM TypeCorrect == Spec => []TypeOK
<1>1. IInv => TypeOK
  BY DEF IInv, TypeInv
<1>2. QED
  BY <1>1, Invariance, PTL

\* The list agrees with the records once the last listing has arrived and no
\* answer is due that is listed after, but for what the page took for failed
\* and the server carried out (extensionList.js:9-18, 74-86).
THEOREM FreshListingEver == Spec => []FreshListing
<1>1. IInv => FreshListing
  BY DEF IInv
<1>2. QED
  BY <1>1, Invariance, PTL

\* Listings that do not overlap list every extension once
\* (extensionList.js:11-18).
THEOREM ListedOnceEver == Spec => []ListedOnce
<1>1. IInv => ListedOnce
  <2> SUFFICES ASSUME IInv, ~overlap PROVE Len(list) <= 1
    BY DEF ListedOnce
  <2>1. Len(list) \in Nat
    BY DEF IInv, TypeInv, TypeOK
  <2>2. Len(list) = 0 \/ Len(list) = 1
    BY DEF IInv, OneListing
  <2>3. \A n \in Nat : n = 0 \/ n = 1 => n <= 1
    OBVIOUS
  <2>4. QED
    BY <2>1, <2>2, <2>3
<1>2. QED
  BY <1>1, Invariance, PTL

\* The form of an extension's page is that extension's
\* (extensionPage.js:7-12, 21-33).
THEOREM FormMatchesPageEver == Spec => []FormMatchesPage
<1>1. IInv => FormMatchesPage
  BY DEF IInv, PageInv
<1>2. QED
  BY <1>1, Invariance, PTL

\* The answer to a dialog goes to no extension but the one that asked
\* (extensionPage.js:21-33, 47-67).
THEOREM DialogAnswersItsOwnerEver == Spec => []DialogAnswersItsOwner
<1>1. IInv => DialogAnswersItsOwner
  BY DEF IInv, PageInv
<1>2. QED
  BY <1>1, Invariance, PTL

\* The page of an extension keeps a stream, or a timer that opens one
\* (extensionPage.js:35-44).
THEOREM PageIsFedEver == Spec => []PageIsFed
<1>1. IInv => PageIsFed
  BY DEF IInv, PageInv
<1>2. QED
  BY <1>1, Invariance, PTL
=============================================================================
