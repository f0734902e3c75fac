---------------------------- MODULE Page_proofs -----------------------------
(***************************************************************************)
(* Proofs about the page's side (electron-blazor-glue): object references, *)
(* navigation, root components, data streams, event delegation, calls on   *)
(* members and the value of a select, each for any values of its           *)
(* constants. Each section has its inductive invariant, one lemma for each *)
(* action that disturbs it, and the theorem.                               *)
(***************************************************************************)
EXTENDS JsReferences, JsMembers, FormValues, Navigation, RootComponents,
        DataStreams, EventDelegation, SequenceFacts, FiniteSetTheorems,
        WellFoundedInduction, TLAPS

-----------------------------------------------------------------------------
(* JavaScript object references. ReferencesAccounted needs to know where   *)
(* an id may be: below nextJsObjectId, in one pair of hands, and in one    *)
(* answer (Owners, Answers); the table is then described id by id (Table). *)

(* The types of JsReferences' variables.                                   *)
ReferenceTypeOK ==
  /\ cachedJSObjectsById \in [ReferenceIds -> Objects \cup {Gone}]
  /\ meant \in [ReferenceIds -> Objects \cup {Gone}]
  /\ nextJsObjectId \in 1 .. MaxReferences + 1
  /\ jsOwns \subseteq ReferenceIds /\ netKnew \subseteq ReferenceIds
  /\ orphans \subseteq ReferenceIds
  /\ ask \in [Requests -> {"none", "open", "answering", "answered", "failed"}]
  /\ answer \in [Requests -> 0 .. MaxReferences]

(* A request whose answer names an id.                                     *)
Answering(a) == ask[a] \in {"answering", "answered"}

(* Each answer has an id of its own, made for it.                          *)
Answers ==
  /\ \A a \in Requests : Answering(a) => answer[a] \in ReferenceIds /\ answer[a] < nextJsObjectId
  /\ \A a, b \in Requests : Answering(a) /\ Answering(b) /\ answer[a] = answer[b] => a = b
  /\ \A a \in Requests : ask[a] = "answering" =>
       answer[a] \notin jsOwns /\ answer[a] \notin netKnew /\ answer[a] \notin orphans

(* Who may share an id with whom, and that each id was made.               *)
Owners ==
  /\ \A i \in ReferenceIds : i \in jsOwns \/ i \in netKnew \/ i \in orphans => i < nextJsObjectId
  /\ netOwns \subseteq netKnew /\ handed \subseteq netKnew /\ recalled \subseteq netKnew
  /\ \A i \in jsOwns : i \notin netKnew /\ i \notin orphans
  /\ \A i \in netKnew : i \notin orphans

(* An answer on its way names i.                                           *)
OnItsWay(i) == \E a \in Requests : ask[a] = "answering" /\ answer[a] = i

(* Somebody can still give i up.                                           *)
Held(i) == (i \in jsOwns \/ i \in netOwns \/ i \in orphans \/ OnItsWay(i)) /\ i \notin recalled

(* The accounting itself, id by id.                                        *)
Table ==
  \A i \in ReferenceIds :
    /\ i >= nextJsObjectId => cachedJSObjectsById[i] = Gone
    /\ cachedJSObjectsById[i] \in {Gone, meant[i]}
    /\ cachedJSObjectsById[i] # Gone <=> Held(i)

(* An orphan is the answer of a call that .NET gave up.                    *)
Orphaned ==
  \A i \in orphans : \E a \in Requests : a \in cancelled /\ ask[a] = "answered" /\ answer[a] = i

(* The inductive invariant.                                                *)
ReferenceInv == ReferenceTypeOK /\ Answers /\ Owners /\ Table /\ Orphaned /\ cancelled \subseteq Requests

(* At the start no reference was made.                                     *)
LEMMA ReferenceInvInit == ReferenceInit => ReferenceInv
  BY ReferenceAssumption
     DEF ReferenceAssumption, ReferenceInit, ReferenceInv, ReferenceTypeOK, Answers, Answering,
         Owners, Table, Held, OnItsWay, Orphaned, ReferenceIds

-----------------------------------------------------------------------------
(* JavaScript's references.                                                *)
LEMMA CreateKeeps ==
  ASSUME ReferenceInv, NEW o \in Objects, Create(o)
  PROVE  ReferenceInv'
  BY ReferenceAssumption
     DEF ReferenceAssumption, Create, createJSObjectReference, askVars, ReferenceInv,
         ReferenceTypeOK, Answers, Answering, Owners, Table, Held, OnItsWay, Orphaned, ReferenceIds

(* JavaScript gives a reference up.                                        *)
LEMMA DisposeKeeps ==
  ASSUME ReferenceInv, NEW i \in ReferenceIds, disposeJSObjectReference(i)
  PROVE  ReferenceInv'
  BY ReferenceAssumption
     DEF ReferenceAssumption, disposeJSObjectReference, disposeJSObjectReferenceById, askVars,
         ReferenceInv, ReferenceTypeOK, Answers, Answering, Owners, Table, Held, OnItsWay,
         Orphaned, ReferenceIds

(* JavaScript hands one to .NET.                                           *)
LEMMA HandKeeps ==
  ASSUME ReferenceInv, NEW i \in ReferenceIds, Hand(i)
  PROVE  ReferenceInv'
  BY ReferenceAssumption
     DEF ReferenceAssumption, Hand, tableVars, askVars, ReferenceInv,
         ReferenceTypeOK, Answers, Answering, Owners, Table, Held, OnItsWay, Orphaned, ReferenceIds

(* .NET gives one up.                                                      *)
LEMMA DisposeAsyncKeeps ==
  ASSUME ReferenceInv, NEW i \in ReferenceIds, DisposeAsync(i)
  PROVE  ReferenceInv'
  BY ReferenceAssumption
     DEF ReferenceAssumption, DisposeAsync, disposeJSObjectReferenceById, jsVars, askVars,
         ReferenceInv, ReferenceTypeOK, Answers, Answering, Owners, Table, Held, OnItsWay,
         Orphaned, ReferenceIds

-----------------------------------------------------------------------------
(* .NET's calls.                                                           *)
LEMMA InvokeKeeps ==
  ASSUME ReferenceInv, NEW ids, NEW o \in Objects, InvokeJS(ids, o)
  PROVE  ReferenceInv'
  BY ReferenceAssumption
     DEF ReferenceAssumption, InvokeJS, createJSObjectReference, jsVars, askVars, ReferenceInv,
         ReferenceTypeOK, Answers, Answering, Owners, Table, Held, OnItsWay, Orphaned, ReferenceIds

(* A call begins, or is rejected.                                          *)
LEMMA BeginKeeps ==
  ASSUME ReferenceInv, NEW a \in Requests, NEW ids, BeginInvokeJS(a, ids) \/ Reject(a)
  PROVE  ReferenceInv'
  <1>1. /\ ~Answering(a) /\ UNCHANGED <<tableVars, ownerVars, answer, cancelled>>
        /\ ask' = [ask EXCEPT ![a] = "open"] \/ ask' = [ask EXCEPT ![a] = "failed"]
    BY DEF BeginInvokeJS, Reject, Answering
  <1>2. \A b \in Requests : /\ Answering(b)' <=> Answering(b)
                            /\ ask'[b] = "answering" <=> ask[b] = "answering"
                            /\ ask'[b] = "answered" <=> ask[b] = "answered"
    BY <1>1 DEF ReferenceInv, ReferenceTypeOK, Answering
  <1>3. ReferenceTypeOK'
    BY <1>1 DEF ReferenceInv, ReferenceTypeOK, tableVars, ownerVars, jsVars
  <1>4. Answers' /\ Orphaned'
    BY <1>1, <1>2 DEF ReferenceInv, Answers, Orphaned, tableVars, ownerVars, jsVars
  <1>5. \A i : Held(i)' <=> Held(i)
    BY <1>1, <1>2 DEF Held, OnItsWay, ownerVars, jsVars
  <1>6. Owners' /\ Table'
    BY <1>1, <1>5 DEF ReferenceInv, Owners, Table, tableVars, ownerVars, jsVars
  <1> QED BY <1>1, <1>3, <1>4, <1>6 DEF ReferenceInv

(* The new answer is the id that nobody has yet.                           *)
LEMMA FulfilKeeps ==
  ASSUME ReferenceInv, NEW a \in Requests, NEW o \in Objects, Fulfil(a, o)
  PROVE  ReferenceInv'
  <1> DEFINE n == nextJsObjectId
  <1>1. /\ n \in ReferenceIds /\ nextJsObjectId' = n + 1 /\ n \in Nat
        /\ cachedJSObjectsById' = [cachedJSObjectsById EXCEPT ![n] = o]
        /\ meant' = [meant EXCEPT ![n] = o]
        /\ ask[a] = "open"
        /\ ask' = [ask EXCEPT ![a] = "answering"] /\ answer' = [answer EXCEPT ![a] = n]
        /\ UNCHANGED <<ownerVars, cancelled>>
    BY ReferenceAssumption
       DEF ReferenceAssumption, Fulfil, createJSObjectReference, ReferenceInv, ReferenceTypeOK,
           ReferenceIds
  <1>2. ReferenceTypeOK'
    BY <1>1, ReferenceAssumption
       DEF ReferenceAssumption, ReferenceInv, ReferenceTypeOK, ReferenceIds, ownerVars, jsVars
  <1>3. \A i \in ReferenceIds : i \in Nat
    BY ReferenceAssumption DEF ReferenceAssumption, ReferenceIds
  <1>4. n \notin jsOwns /\ n \notin netKnew /\ n \notin orphans /\ n \notin recalled /\ n \notin netOwns
    BY <1>1 DEF ReferenceInv, Owners
  <1>5. Answers'
    <2>1. \A b \in Requests \ {a} : ask'[b] = ask[b] /\ answer'[b] = answer[b]
      BY <1>1 DEF ReferenceInv, ReferenceTypeOK
    <2>2. ask'[a] = "answering" /\ answer'[a] = n
      BY <1>1 DEF ReferenceInv, ReferenceTypeOK
    <2>3. \A b \in Requests \ {a} : Answering(b)' => answer'[b] \in ReferenceIds /\ answer'[b] < n
      BY <2>1 DEF ReferenceInv, Answers, Answering
    <2>4. \A b \in Requests : Answering(b)' =>
            answer'[b] \in ReferenceIds /\ answer'[b] < nextJsObjectId'
      <3>1. \A i \in ReferenceIds : i < n \/ i = n => i < nextJsObjectId'
        BY <1>1, <1>3
      <3>2. \A b \in Requests : Answering(b)' =>
              answer'[b] \in ReferenceIds /\ (answer'[b] < n \/ answer'[b] = n)
        BY <1>1, <2>2, <2>3
      <3> QED BY <3>1, <3>2
    <2>5. \A b, c \in Requests :
            Answering(b)' /\ Answering(c)' /\ answer'[b] = answer'[c] => b = c
      <3>1. \A b, c \in Requests \ {a} :
              Answering(b)' /\ Answering(c)' /\ answer'[b] = answer'[c] => b = c
        BY <2>1 DEF ReferenceInv, Answers, Answering
      <3>2. \A b \in Requests \ {a} : Answering(b)' => answer'[b] # n
        BY <1>3, <2>3
      <3> QED BY <3>1, <3>2, <2>2
    <2>6. \A b \in Requests : ask'[b] = "answering" =>
            answer'[b] \notin jsOwns' /\ answer'[b] \notin netKnew' /\ answer'[b] \notin orphans'
      BY <1>1, <1>4, <2>1, <2>2 DEF ReferenceInv, Answers, ownerVars, jsVars
    <2> QED BY <2>4, <2>5, <2>6 DEF Answers
  <1>6. Owners'
    BY <1>1, <1>3 DEF ReferenceInv, Owners, ownerVars, jsVars
  <1>7. Table'
    <2> SUFFICES ASSUME NEW i \in ReferenceIds
                 PROVE  /\ i >= n + 1 => cachedJSObjectsById'[i] = Gone
                        /\ cachedJSObjectsById'[i] \in {Gone, meant'[i]}
                        /\ cachedJSObjectsById'[i] # Gone <=> Held(i)'
      BY <1>1 DEF Table
    <2>1. CASE i = n
      BY <2>1, <1>1, <1>4, ReferenceAssumption
         DEF ReferenceAssumption, ReferenceInv, ReferenceTypeOK, Held, OnItsWay, ownerVars, jsVars
    <2>2. CASE i # n
      <3>1. OnItsWay(i)' <=> OnItsWay(i)
        BY <2>2, <1>1 DEF OnItsWay, ReferenceInv, ReferenceTypeOK
      <3>2. Held(i)' <=> Held(i)
        BY <3>1, <1>1 DEF Held, ownerVars, jsVars
      <3> QED
        BY <2>2, <3>2, <1>1, <1>3 DEF ReferenceInv, ReferenceTypeOK, Table
    <2> QED BY <2>1, <2>2
  <1>8. Orphaned'
    BY <1>1 DEF ReferenceInv, ReferenceTypeOK, Orphaned, ownerVars, jsVars
  <1> QED BY <1>1, <1>2, <1>5, <1>6, <1>7, <1>8 DEF ReferenceInv

(* .NET cancels a call: whoever answers it will find nobody.               *)
LEMMA CancelKeeps ==
  ASSUME ReferenceInv, NEW a \in Requests, Cancel(a)
  PROVE  ReferenceInv'
  BY ReferenceAssumption
     DEF ReferenceAssumption, Cancel, tableVars, jsVars, ownerVars, ReferenceInv,
         ReferenceTypeOK, Answers, Answering, Owners, Table, Held, OnItsWay, Orphaned, ReferenceIds

(* The answer finds its call, or becomes an orphan.                        *)
LEMMA EndInvokeKeeps ==
  ASSUME ReferenceInv, NEW a \in Requests, EndInvokeJS(a)
  PROVE  ReferenceInv'
  <1> DEFINE n == answer[a]
  <1>1. /\ ask[a] = "answering" /\ ask' = [ask EXCEPT ![a] = "answered"]
        /\ UNCHANGED <<tableVars, jsVars, answer, cancelled>>
        /\ IF a \in cancelled
           THEN orphans' = orphans \cup {n} /\ UNCHANGED <<netOwns, netKnew>>
           ELSE netOwns' = netOwns \cup {n} /\ netKnew' = netKnew \cup {n} /\ UNCHANGED orphans
    BY DEF EndInvokeJS, TakeAnswer
  <1>2. /\ n \in ReferenceIds /\ n < nextJsObjectId
        /\ n \notin jsOwns /\ n \notin netKnew /\ n \notin orphans /\ n \notin recalled
    BY <1>1 DEF ReferenceInv, Answers, Answering, Owners
  <1>3. ReferenceTypeOK'
    BY <1>1, <1>2 DEF ReferenceInv, ReferenceTypeOK, tableVars, jsVars
  <1>4. \A b \in Requests : /\ Answering(b)' <=> Answering(b)
                            /\ ask'[b] = "answering" <=> ask[b] = "answering" /\ b # a
    BY <1>1 DEF ReferenceInv, ReferenceTypeOK, Answering
  <1>5. \A b \in Requests \ {a} : Answering(b) => answer[b] # n
    BY <1>1 DEF ReferenceInv, Answers, Answering
  <1>6. Answers'
    <2>1. \A b \in Requests : Answering(b)' =>
            answer'[b] \in ReferenceIds /\ answer'[b] < nextJsObjectId'
      BY <1>1, <1>4 DEF ReferenceInv, Answers, tableVars
    <2>2. \A b, c \in Requests :
            Answering(b)' /\ Answering(c)' /\ answer'[b] = answer'[c] => b = c
      BY <1>1, <1>4 DEF ReferenceInv, Answers
    <2>3. \A b \in Requests : ask'[b] = "answering" =>
            answer'[b] \notin jsOwns' /\ answer'[b] \notin netKnew' /\ answer'[b] \notin orphans'
      BY <1>1, <1>4, <1>5 DEF ReferenceInv, Answers, Answering, jsVars
    <2> QED BY <2>1, <2>2, <2>3 DEF Answers
  <1>7. Owners'
    BY <1>1, <1>2 DEF ReferenceInv, Owners, tableVars, jsVars
  <1>8. Table'
    <2> SUFFICES ASSUME NEW i \in ReferenceIds PROVE Held(i)' <=> Held(i)
      BY <1>1 DEF Table, ReferenceInv, tableVars
    <2>1. CASE i = n
      <3>1. Held(i)
        BY <2>1, <1>1, <1>2 DEF Held, OnItsWay
      <3>2. Held(i)'
        BY <2>1, <1>1, <1>2 DEF Held, jsVars
      <3> QED BY <3>1, <3>2
    <2>2. CASE i # n
      <3>1. OnItsWay(i)' <=> OnItsWay(i)
        BY <2>2, <1>1, <1>4 DEF OnItsWay
      <3> QED
        BY <2>2, <3>1, <1>1 DEF Held, jsVars
    <2> QED BY <2>1, <2>2
  <1>9. Orphaned'
    BY <1>1 DEF ReferenceInv, ReferenceTypeOK, Orphaned
  <1> QED BY <1>1, <1>3, <1>6, <1>7, <1>8, <1>9 DEF ReferenceInv

-----------------------------------------------------------------------------
(* Calls of JavaScript's touch no reference.                               *)
LEMMA CallKeeps ==
  ASSUME ReferenceInv, UNCHANGED <<tableVars, ownerVars, askVars>>
  PROVE  ReferenceInv'
  BY DEF tableVars, ownerVars, jsVars, askVars, ReferenceInv, ReferenceTypeOK, Answers, Answering,
         Owners, Table, Held, OnItsWay, Orphaned

(* Every step keeps ReferenceInv.                                          *)
LEMMA ReferenceInvNext == ReferenceInv /\ [ReferenceNext]_referenceVars => ReferenceInv'
  <1> SUFFICES ASSUME ReferenceInv, [ReferenceNext]_referenceVars PROVE ReferenceInv'
    OBVIOUS
  <1>1. CASE UNCHANGED referenceVars
    BY <1>1, CallKeeps DEF referenceVars
  <1>2. CASE \E o \in Objects : Create(o) \/ \E ids \in AtMostOne(netKnew) : InvokeJS(ids, o)
    BY <1>2, CreateKeeps, InvokeKeeps
  <1>3. CASE \E i \in ReferenceIds : disposeJSObjectReference(i) \/ Hand(i) \/ DisposeAsync(i)
    BY <1>3, DisposeKeeps, HandKeeps, DisposeAsyncKeeps
  <1>4. CASE \E a \in Requests :
               \/ \E ids \in AtMostOne(netKnew) : BeginInvokeJS(a, ids)
               \/ \E o \in Objects : Fulfil(a, o)
               \/ Reject(a) \/ Cancel(a) \/ EndInvokeJS(a)
    BY <1>4, BeginKeeps, FulfilKeeps, CancelKeeps, EndInvokeKeeps
  <1>5. CASE \E c \in Calls :
               \/ invokeDotNetMethodAsync(c) \/ BeginInvokeDotNet(c) \/ EndWithError(c)
               \/ \E ids \in AtMostOne(netKnew), queued \in BOOLEAN :
                    EndInvokeDotNet(c, ids, queued)
    BY <1>5, CallKeeps
       DEF invokeDotNetMethodAsync, BeginInvokeDotNet, EndWithError, Step, EndInvokeDotNet
  <1> QED BY <1>1, <1>2, <1>3, <1>4, <1>5 DEF ReferenceNext

(* ReferenceInv holds in every behaviour of the object table               *)
(* (Microsoft.JSInterop.ts).                                               *)
THEOREM ReferenceInvariant == ReferenceSpec => []ReferenceInv
  BY ReferenceInvInit, ReferenceInvNext, PTL DEF ReferenceSpec

-----------------------------------------------------------------------------
(* No object stays in the table but for a holder or a cancelled call, no   *)
(* holder has lost its object or has another's, and no id has two holders  *)
(* (createJSObjectReference to disposeJSObjectReferenceById), for any      *)
(* number of references, calls and cancellations.                          *)
THEOREM ReferencesAreAccounted == ReferenceSpec => []ReferencesAccounted
  <1>1. ReferenceInv => ReferencesAccounted
    <2> SUFFICES ASSUME ReferenceInv PROVE ReferencesAccounted
      OBVIOUS
    <2>1. \A i : i \in InTransit <=> OnItsWay(i)
      BY DEF InTransit, OnItsWay
    <2>2. \A i \in jsOwns \cup netOwns \cup InTransit \cup orphans : i \in ReferenceIds
      BY <2>1 DEF ReferenceInv, ReferenceTypeOK, Owners, Answers, Answering, OnItsWay
    <2>3. {i \in ReferenceIds : cachedJSObjectsById[i] # Gone} =
            (jsOwns \cup netOwns \cup InTransit \cup orphans) \ recalled
      BY <2>1, <2>2 DEF ReferenceInv, Table, Held
    <2>4. \A i \in ReferenceIds : cachedJSObjectsById[i] \in {Gone, meant[i]}
      BY DEF ReferenceInv, Table
    <2>5. orphans \cap (netKnew \cup InTransit) = {} /\ InTransit \cap netKnew = {}
      BY <2>1 DEF ReferenceInv, Owners, Answers, OnItsWay
    <2>6. jsOwns \cap (netOwns \cup InTransit \cup orphans) = {}
      BY <2>1 DEF ReferenceInv, Owners, Answers, OnItsWay
    <2>7. \A i \in orphans : \E a \in cancelled : ask[a] = "answered" /\ answer[a] = i
      BY DEF ReferenceInv, Orphaned
    <2> QED BY <2>3, <2>4, <2>5, <2>6, <2>7 DEF ReferencesAccounted
  <1> QED BY <1>1, ReferenceInvariant, PTL

-----------------------------------------------------------------------------
(* Navigation: .NET's location and the history.                            *)

(* The browser's history.                                                  *)
Entries == [url : Urls, index : Nat]

HistoryTypeOK ==
  /\ entries \in Seq(Entries) /\ at \in 1..Len(entries)
  /\ currentHistoryIndex \in Nat
  /\ navigationCallbacks \subseteq {ListeningRenderer} /\ uri \subseteq Urls

(* Entries of another page come from the interactive router, which starts  *)
(* after .NET began to listen on a renderer that is attached.              *)
OnePageUntilAttached ==
  /\ uri # {} => ListeningRenderer \in navigationCallbacks
  /\ hasInteractiveRouter => attached /\ uri # {}
  /\ ~attached => \A i, j \in 1..Len(entries) : entries[i].url.page = entries[j].url.page

(* What every step of NavigationManager.ts and of the browser keeps.       *)
NavigationInv == HistoryTypeOK /\ OnePageUntilAttached /\ UriFollowsLocation

(* history.pushState.                                                      *)
LEMMA EntryPushed ==
  ASSUME HistoryTypeOK, NEW e \in Entries,
         entries' = Append(SubSeq(entries, 1, at), e), at' = at + 1
  PROVE  /\ entries' \in Seq(Entries) /\ Len(entries') = at + 1 /\ at' \in 1..Len(entries')
         /\ \A i \in 1..at : i \in 1..Len(entries) /\ entries'[i] = entries[i]
         /\ entries'[at'] = e
<1>1. entries \in Seq(Entries) /\ at \in 1..Len(entries) /\ Len(entries) \in Nat
  BY DEF HistoryTypeOK
<1>2. PICK r : r = SubSeq(entries, 1, at)
  OBVIOUS
<1>3. \A i \in 1..at : entries[i] \in Entries /\ i \in 1..Len(entries)
  BY <1>1, ElementOfSeq
<1>4. /\ r \in Seq(Entries)
      /\ Len(r) = IF 1 <= at THEN at - 1 + 1 ELSE 0
      /\ \A i \in 1..(at - 1 + 1) : r[i] = entries[1 + i - 1]
  BY <1>1, <1>2, <1>3, SubSeqProperties
<1>5. Len(r) = at /\ \A i \in 1..at : r[i] = entries[i]
  BY <1>1, <1>4
<1>6. /\ entries' \in Seq(Entries) /\ Len(entries') = Len(r) + 1
      /\ \A i \in 1..Len(r) : entries'[i] = r[i]
      /\ entries'[Len(r) + 1] = e
  BY <1>2, <1>4, AppendFacts
<1> QED
  BY <1>1, <1>3, <1>5, <1>6

(* At the start the history is the one page that was loaded.               *)
LEMMA NavigationInvInit == NavigationInit => NavigationInv
<1> SUFFICES ASSUME NavigationInit PROVE NavigationInv
  OBVIOUS
<1>1. PICK url \in Urls : entries = <<Entry(url, 0)>>
  BY DEF NavigationInit
<1>2. Entry(url, 0) \in Entries
  BY DEF Entry, Entries
<1>3. entries \in Seq(Entries) /\ Len(entries) = 1
  BY <1>1, <1>2
<1> QED
  BY <1>3 DEF NavigationInit, NavigationInv, HistoryTypeOK, OnePageUntilAttached,
     UriFollowsLocation, hasInteractiveRouter

(* The router pushes an entry; .NET follows unless only the hash changes.  *)
LEMMA PushKeeps ==
  ASSUME NavigationInv, NEW url \in Urls, performInternalNavigation(url)
  PROVE  NavigationInv'
<1> USE DEF NavigationInv
<1>1. /\ attached /\ ListeningRenderer \in navigationCallbacks
      /\ UNCHANGED <<navigationCallbacks, attached, interactiveRouterRendererId>>
      /\ at' = at + 1 /\ currentHistoryIndex' = currentHistoryIndex + 1
      /\ entries' = Append(SubSeq(entries, 1, at), Entry(url, currentHistoryIndex + 1))
      /\ \/ url.page = Location.page /\ uri' = uri
         \/ uri' = {url}
  BY DEF performInternalNavigation, OnePageUntilAttached, setupVars, saveToBrowserHistory,
     isSamePageWithHash, notifyLocationChanged, SetLocation, CallsHandlers
<1>2. PICK e : e = Entry(url, currentHistoryIndex + 1)
  OBVIOUS
<1>3. e \in Entries /\ e.url = url /\ e.index = currentHistoryIndex'
  BY <1>1, <1>2 DEF Entry, Entries, HistoryTypeOK
<1>4. /\ entries' \in Seq(Entries) /\ Len(entries') = at + 1 /\ at' \in 1..Len(entries')
      /\ entries'[at'] = e
  BY <1>1, <1>2, <1>3, EntryPushed
<1>5. HistoryTypeOK'
  BY <1>1, <1>4 DEF HistoryTypeOK
<1>6. OnePageUntilAttached'
  BY <1>1 DEF OnePageUntilAttached, hasInteractiveRouter
<1>7. UriFollowsLocation'
  BY <1>1, <1>3, <1>4 DEF UriFollowsLocation, Location
<1> QED
  BY <1>5, <1>6, <1>7

(* popstate: .NET is told where the browser is now. Before the renderer is *)
(* attached it is not, but then the page is the same.                      *)
LEMMA PopKeeps ==
  ASSUME NavigationInv, onPopState,
         entries' \in Seq(Entries), at' \in 1..Len(entries'), UNCHANGED setupVars,
         ~attached => Location'.page = Location.page,
         ~attached => \A i, j \in 1..Len(entries') : entries'[i].url.page = entries'[j].url.page
  PROVE  NavigationInv'
<1> USE DEF NavigationInv
<1>1. /\ UNCHANGED <<navigationCallbacks, attached, interactiveRouterRendererId>>
      /\ IF ListeningRenderer \in navigationCallbacks /\ attached
         THEN uri' = {Location'} ELSE uri' = uri
      /\ \/ navigationCallbacks = {} /\ currentHistoryIndex' = currentHistoryIndex
         \/ currentHistoryIndex' = entries'[at'].index
         \/ rejected' = TRUE /\ currentHistoryIndex' = currentHistoryIndex
  BY DEF setupVars, onPopState, notifyLocationChanged, SetLocation, CallsHandlers
<1>2. entries'[at'] \in Entries
  BY ElementOfSeq
<1>3. Location' \in Urls /\ entries'[at'].index \in Nat
  BY <1>2 DEF Location, Entries
<1>4. HistoryTypeOK'
  BY <1>1, <1>3 DEF HistoryTypeOK
<1>5. OnePageUntilAttached'
  BY <1>1 DEF OnePageUntilAttached, hasInteractiveRouter
<1>6. UriFollowsLocation'
  BY <1>1 DEF UriFollowsLocation, Location, OnePageUntilAttached
<1> QED
  BY <1>4, <1>5, <1>6

(* The browser goes to another entry of its history.                       *)
LEMMA TraverseKeeps ==
  ASSUME NavigationInv, NEW to \in DOMAIN entries, Traverse(to)
  PROVE  NavigationInv'
<1>1. entries \in Seq(Entries) /\ at \in 1..Len(entries) /\ to \in 1..Len(entries)
  BY DEF NavigationInv, HistoryTypeOK
<1>2. at' = to /\ entries' = entries /\ onPopState /\ UNCHANGED setupVars
  BY DEF Traverse
<1>3. ~attached =>
        /\ Location'.page = Location.page
        /\ \A i, j \in 1..Len(entries') : entries'[i].url.page = entries'[j].url.page
  BY <1>1, <1>2 DEF NavigationInv, OnePageUntilAttached, Location
<1> QED
  BY <1>1, <1>2, <1>3, PopKeeps

(* The browser itself follows a link within the page, before a renderer is *)
(* attached.                                                               *)
LEMMA FollowHashKeeps ==
  ASSUME NavigationInv, NEW url \in Urls, BrowserFollowsHash(url)
  PROVE  NavigationInv'
<1>1. HistoryTypeOK /\ entries \in Seq(Entries) /\ at \in 1..Len(entries) /\ Len(entries) \in Nat
  BY DEF NavigationInv, HistoryTypeOK
<1>2. PICK e : e = Entry(url, 0)
  OBVIOUS
<1>3. e \in Entries /\ e.url = url
  BY <1>2 DEF Entry, Entries
<1>4. /\ url.page = Location.page /\ onPopState /\ UNCHANGED setupVars
      /\ \/ entries' = [entries EXCEPT ![at] = e] /\ at' = at
         \/ entries' = Append(SubSeq(entries, 1, at), e) /\ at' = at + 1
  BY <1>2 DEF BrowserFollowsHash
<1>5. /\ entries' \in Seq(Entries) /\ at' \in 1..Len(entries') /\ entries'[at'] = e
      /\ \A i \in 1..Len(entries') :
           i = at' \/ (i \in 1..Len(entries) /\ entries'[i] = entries[i])
  <2>1. CASE entries' = [entries EXCEPT ![at] = e] /\ at' = at
    BY <1>1, <1>3, <2>1
  <2>2. CASE entries' = Append(SubSeq(entries, 1, at), e) /\ at' = at + 1
    <3>1. /\ entries' \in Seq(Entries) /\ Len(entries') = at + 1 /\ at' \in 1..Len(entries')
          /\ \A i \in 1..at : i \in 1..Len(entries) /\ entries'[i] = entries[i]
          /\ entries'[at'] = e
      BY <1>1, <1>3, <2>2, EntryPushed
    <3> QED
      BY <1>1, <2>2, <3>1
  <2> QED
    BY <1>4, <2>1, <2>2
<1>6. Location'.page = Location.page
  BY <1>3, <1>4, <1>5 DEF Location
<1>7. ~attached => \A i \in 1..Len(entries') : entries'[i].url.page = Location.page
  BY <1>1, <1>3, <1>4, <1>5 DEF NavigationInv, OnePageUntilAttached, Location
<1> QED
  BY <1>4, <1>5, <1>6, <1>7, PopKeeps

(* Every step keeps NavigationInv.                                         *)
LEMMA NavigationInvNext == NavigationInv /\ [NavigationNext]_navigationVars => NavigationInv'
<1> SUFFICES ASSUME NavigationInv, [NavigationNext]_navigationVars PROVE NavigationInv'
  OBVIOUS
<1> USE DEF NavigationInv
<1>1. CASE Initialize
  <2>1. entries[at] \in Entries
    BY ElementOfSeq DEF HistoryTypeOK
  <2>2. Location \in Urls /\ entries[at].index \in Nat
    BY <2>1 DEF Location, Entries
  <2> QED
    BY <1>1, <2>2 DEF Initialize, HistoryTypeOK, OnePageUntilAttached, UriFollowsLocation,
       Location, hasInteractiveRouter
<1>2. CASE AttachRenderer \/ EnableNavigationInterception
  BY <1>2 DEF AttachRenderer, EnableNavigationInterception, historyVars, HistoryTypeOK,
     OnePageUntilAttached, UriFollowsLocation, Location, hasInteractiveRouter
<1>3. CASE \/ \E value \in BOOLEAN : SetNavigationLockState(value)
           \/ Unload
           \/ \E url \in Urls : NavigateTo(url)
           \/ UNCHANGED navigationVars
  BY <1>3 DEF SetNavigationLockState, Unload, NavigateTo, navigationVars, historyVars,
     setupVars, HistoryTypeOK, OnePageUntilAttached, UriFollowsLocation, Location,
     hasInteractiveRouter
<1> QED
  BY <1>1, <1>2, <1>3, PushKeeps, TraverseKeeps, FollowHashKeeps DEF NavigationNext

(* For any URLs and any length of the history, however clicks, the         *)
(* browser's own entries and traversals mix, and whichever handlers throw: *)
(* .NET is on the page the browser shows, and once a renderer listens the  *)
(* index kept beside the history is that of the current entry, but from a  *)
(* move on which a handler threw until the index is set again              *)
(* (NavigationManager.ts: notifyLocationChanged, onPopState,               *)
(* saveToBrowserHistory).                                                  *)
THEOREM UriFollows == NavigationSpec => []UriFollowsLocation
<1>1. NavigationInv => UriFollowsLocation
  BY DEF NavigationInv
<1> QED
  BY <1>1, NavigationInvInit, NavigationInvNext, PTL DEF NavigationSpec

-----------------------------------------------------------------------------
(* Root components: the messages between the page and .NET.                *)

(* The calls that the page and .NET queue for each other.                  *)
Messages ==
  [op : {"add", "set", "setCallback", "setNull", "remove"}, component : Components, good : BOOLEAN]

(* m is in the queue q.                                                    *)
Queued(q, m) == \E i \in 1..Len(q) : q[i] = m

(* Nothing in q is about c.                                                *)
NoneFor(q, c) == \A i \in 1..Len(q) : q[i].component # c

(* At most one call in q is about c.                                       *)
OneFor(q, c) == \A i, j \in 1..Len(q) : q[i].component = c /\ q[j].component = c => i = j

(* A message is put at the end of a queue.                                 *)
LEMMA MessageSent ==
  ASSUME NEW q \in Seq(Messages), NEW m \in Messages, NEW r, r = Append(q, m)
  PROVE  /\ r \in Seq(Messages)
         /\ \A n : Queued(r, n) <=> Queued(q, n) \/ n = m
         /\ \A c : NoneFor(r, c) <=> NoneFor(q, c) /\ m.component # c
         /\ \A c : (IF m.component = c THEN NoneFor(q, c) ELSE OneFor(q, c)) => OneFor(r, c)
<1>1. /\ r \in Seq(Messages) /\ Len(r) = Len(q) + 1 /\ Len(q) \in Nat
      /\ \A i \in 1..Len(q) : r[i] = q[i]
      /\ r[Len(q) + 1] = m
  BY AppendFacts
<1>2. \A i \in 1..Len(r) : (i \in 1..Len(q) /\ r[i] = q[i]) \/ (i = Len(q) + 1 /\ r[i] = m)
  BY <1>1
<1>3. \A i \in 1..Len(q) : i \in 1..Len(r)
  BY <1>1
<1>4. Len(q) + 1 \in 1..Len(r)
  BY <1>1
<1>5. \A n : Queued(r, n) <=> Queued(q, n) \/ n = m
  BY <1>1, <1>2, <1>3, <1>4 DEF Queued
<1>6. \A c : NoneFor(r, c) <=> NoneFor(q, c) /\ m.component # c
  BY <1>1, <1>2, <1>3, <1>4 DEF NoneFor
<1>7. ASSUME NEW c, IF m.component = c THEN NoneFor(q, c) ELSE OneFor(q, c)
      PROVE  OneFor(r, c)
  BY <1>2, <1>7 DEF NoneFor, OneFor
<1> QED
  BY <1>1, <1>5, <1>6, <1>7

(* The first message of a queue is taken.                                  *)
LEMMA MessageTaken ==
  ASSUME NEW q \in Seq(Messages), q # <<>>, NEW r, r = Tail(q), NEW m, m = Head(q)
  PROVE  /\ r \in Seq(Messages) /\ m \in Messages /\ Queued(q, m)
         /\ \A n : Queued(r, n) => Queued(q, n)
         /\ \A n : Queued(q, n) => Queued(r, n) \/ n = m
         /\ \A c : NoneFor(q, c) => NoneFor(r, c)
         /\ \A c : OneFor(q, c) => OneFor(r, c)
         /\ OneFor(q, m.component) => NoneFor(r, m.component)
<1>1. /\ r \in Seq(Messages) /\ Len(r) = Len(q) - 1 /\ Len(q) \in Nat \ {0}
      /\ \A i \in 1..Len(r) : r[i] = q[i + 1]
      /\ m = q[1] /\ m \in Messages
  BY TailFacts
<1>2. \A i \in 1..Len(r) : i + 1 \in 1..Len(q) /\ i + 1 # 1
  BY <1>1
<1>3. \A i \in 1..Len(q) : i = 1 \/ (i - 1 \in 1..Len(r) /\ r[i - 1] = q[i])
  <2> SUFFICES ASSUME NEW i \in 1..Len(q), i # 1 PROVE i - 1 \in 1..Len(r) /\ r[i - 1] = q[i]
    OBVIOUS
  <2>1. i - 1 \in 1..Len(r) /\ i - 1 + 1 = i
    BY <1>1
  <2> QED
    BY <1>1, <2>1
<1>4. 1 \in 1..Len(q)
  BY <1>1
<1>5. Queued(q, m) /\ \A n : Queued(r, n) => Queued(q, n)
  BY <1>1, <1>2, <1>4 DEF Queued
<1>6. \A n : Queued(q, n) => Queued(r, n) \/ n = m
  BY <1>1, <1>3 DEF Queued
<1>7. \A c : NoneFor(q, c) => NoneFor(r, c)
  BY <1>1, <1>2 DEF NoneFor
<1>8. ASSUME NEW c, OneFor(q, c), NEW i \in 1..Len(r), NEW j \in 1..Len(r),
             r[i].component = c, r[j].component = c
      PROVE  i = j
  <2>1. i + 1 = j + 1
    BY <1>1, <1>2, <1>8 DEF OneFor
  <2> QED
    BY <2>1
<1>9. OneFor(q, m.component) => NoneFor(r, m.component)
  BY <1>1, <1>2, <1>4 DEF OneFor, NoneFor
<1> QED
  BY <1>1, <1>5, <1>6, <1>7, <1>8, <1>9 DEF OneFor

-----------------------------------------------------------------------------
(* The types of RootComponents' variables.                                 *)
RootTypeOK ==
  /\ added \in 0..MaxAdds
  /\ pendingRootComponentContainers \in [Components -> Elements \cup {NoElement}]
  /\ componentId \in [Components -> {"none", "set", "null"}]
  /\ wrapped \subseteq Components /\ cached \subseteq Components
  /\ callback \subseteq Components /\ refused \subseteq Components
  /\ root \in [Components -> Elements \cup {NoElement}]
  /\ toDotNet \in Seq(Messages) /\ toJs \in Seq(Messages)

(* The page does not have the component yet.                               *)
Unknown(c) ==
  /\ componentId[c] = "none"
  /\ c \notin wrapped /\ c \notin cached /\ c \notin callback /\ c \notin refused

(* What is on the way while an add is: nothing else for the component.     *)
AddsInv ==
  /\ \A c \in Components : c > added =>
       /\ Unknown(c) /\ root[c] = NoElement /\ pendingRootComponentContainers[c] = NoElement
       /\ NoneFor(toDotNet, c) /\ NoneFor(toJs, c)
  /\ \A m \in Messages : Queued(toDotNet, m) /\ m.op = "add" =>
       /\ Unknown(m.component) /\ root[m.component] = NoElement
       /\ OneFor(toDotNet, m.component) /\ NoneFor(toJs, m.component)
  /\ \A m \in Messages : Queued(toJs, m) /\ m.op = "add" =>
       /\ Unknown(m.component) /\ (root[m.component] # NoElement => m.good)
       /\ (m.good => pendingRootComponentContainers[m.component] = NoElement)
       /\ NoneFor(toDotNet, m.component) /\ OneFor(toJs, m.component)

(* A removal that was answered is one that .NET has done, and a callback   *)
(* that .NET has, or will get for a component it has, can be found.        *)
CallbackInv ==
  /\ \A m \in Messages : Queued(toJs, m) => m.op \in {"add", "remove"}
  /\ \A m \in Messages : Queued(toJs, m) /\ m.op = "remove" /\ m.good => root[m.component] = NoElement
  /\ \A m \in Messages : Queued(toDotNet, m) /\ m.op = "setCallback" =>
       root[m.component] = NoElement \/ m.component \in cached
  /\ \A c \in callback : c \in cached /\ root[c] # NoElement
  /\ \A c \in wrapped : c \in cached \/ root[c] = NoElement

(* c has still to be added by the one whose calls are q.                   *)
AddUnderWay(q, c) == \E m \in Messages : Queued(q, m) /\ m.op = "add" /\ m.component = c

(* An element has one component; a component that has one is set or under  *)
(* way; and a claim on an element is answered by a component that is still *)
(* to be added.                                                            *)
PlacesInv ==
  /\ \A c, d \in Components : root[c] # NoElement /\ root[d] = root[c] => d = c
  /\ \A c \in Components : root[c] # NoElement =>
       (componentId[c] = "set" \/ AddUnderWay(toJs, c)) /\ c \notin refused
  /\ \A c \in Components : pendingRootComponentContainers[c] # NoElement =>
       AddUnderWay(toDotNet, c) \/ AddUnderWay(toJs, c) \/ c \in refused

(* What every step of JSRootComponents.ts and of .NET's side of it keeps.  *)
RootInv == RootTypeOK /\ AddsInv /\ CallbackInv /\ PlacesInv

(* At the start no component was added.                                    *)
LEMMA RootInvInit == RootInit => RootInv
<1> SUFFICES ASSUME RootInit PROVE RootInv
  OBVIOUS
<1>1. /\ toDotNet \in Seq(Messages) /\ toJs \in Seq(Messages)
      /\ Len(toDotNet) = 0 /\ Len(toJs) = 0
  BY DEF RootInit
<1>2. /\ \A m : ~Queued(toDotNet, m) /\ ~Queued(toJs, m)
      /\ \A c : NoneFor(toDotNet, c) /\ NoneFor(toJs, c)
  BY <1>1 DEF Queued, NoneFor
<1>3. RootTypeOK
  BY <1>1, RootAssumption DEF RootInit, RootTypeOK
<1> QED
  BY <1>2, <1>3, RootAssumption
  DEF RootInit, RootInv, AddsInv, CallbackInv, PlacesInv, AddUnderWay, Unknown

-----------------------------------------------------------------------------
(* The page asks for a component.                                          *)
LEMMA AddKeeps ==
  ASSUME RootInv, NEW e \in Elements, NEW known \in BOOLEAN, AddRootComponent(e, known)
  PROVE  RootInv'
<1> USE DEF RootInv
<1>1. PICK c : c = added + 1
  OBVIOUS
<1>2. PICK m : m = Message("add", c, known)
  OBVIOUS
<1>3. /\ added' = added + 1 /\ added < MaxAdds
      /\ pendingRootComponentContainers' = [pendingRootComponentContainers EXCEPT ![c] = e]
      /\ toDotNet' = Append(toDotNet, m)
      /\ UNCHANGED <<calls, componentId, wrapped, cached, toJs, root, callback, refused>>
  BY <1>1, <1>2 DEF AddRootComponent, Send
<1>4. c \in Components /\ c > added /\ \A d \in Components : d > added' => d > added /\ d # c
  BY <1>1, <1>3, RootAssumption DEF RootTypeOK, Components
<1>5. m \in Messages /\ m.op = "add" /\ m.component = c
  BY <1>2, <1>4 DEF Message, Messages
<1>6. /\ Unknown(c) /\ root[c] = NoElement
      /\ NoneFor(toDotNet, c) /\ NoneFor(toJs, c)
  BY <1>4 DEF AddsInv
<1>7. /\ toDotNet' \in Seq(Messages)
      /\ \A n : Queued(toDotNet', n) <=> Queued(toDotNet, n) \/ n = m
      /\ \A d : NoneFor(toDotNet', d) <=> NoneFor(toDotNet, d) /\ m.component # d
      /\ \A d : (IF m.component = d THEN NoneFor(toDotNet, d) ELSE OneFor(toDotNet, d))
                  => OneFor(toDotNet', d)
  BY <1>3, <1>5, MessageSent DEF RootTypeOK
<1>8. \A n \in Messages : Queued(toDotNet, n) => n.component # c
  BY <1>6 DEF Queued, NoneFor
<1>9. \A n \in Messages : Queued(toJs, n) => n.component # c
  BY <1>6 DEF Queued, NoneFor
<1>10. RootTypeOK'
  BY <1>3, <1>4, <1>7, RootAssumption DEF RootTypeOK
<1>11. AddsInv'
  <2>1. \A d : Unknown(d)' <=> Unknown(d)
    BY <1>3 DEF Unknown
  <2>2. \A d \in Components \ {c} :
          pendingRootComponentContainers'[d] = pendingRootComponentContainers[d]
    BY <1>3 DEF RootTypeOK
  <2>3. \A d \in Components : d > added' =>
          /\ Unknown(d)' /\ root'[d] = NoElement /\ pendingRootComponentContainers'[d] = NoElement
          /\ NoneFor(toDotNet', d) /\ NoneFor(toJs', d)
    BY <1>3, <1>4, <1>5, <1>7, <2>1, <2>2 DEF AddsInv
  <2>4. \A n \in Messages : Queued(toDotNet', n) /\ n.op = "add" =>
          /\ Unknown(n.component)' /\ root'[n.component] = NoElement
          /\ OneFor(toDotNet', n.component) /\ NoneFor(toJs', n.component)
    BY <1>3, <1>5, <1>6, <1>7, <1>8, <2>1 DEF AddsInv
  <2>5. \A n \in Messages : Queued(toJs', n) /\ n.op = "add" =>
          /\ Unknown(n.component)' /\ (root'[n.component] # NoElement => n.good)
          /\ (n.good => pendingRootComponentContainers'[n.component] = NoElement)
          /\ NoneFor(toDotNet', n.component) /\ OneFor(toJs', n.component)
    <3> SUFFICES ASSUME NEW n \in Messages, Queued(toJs', n), n.op = "add"
                 PROVE  /\ Unknown(n.component)' /\ (root'[n.component] # NoElement => n.good)
                        /\ (n.good => pendingRootComponentContainers'[n.component] = NoElement)
                        /\ NoneFor(toDotNet', n.component) /\ OneFor(toJs', n.component)
      OBVIOUS
    <3>1. Queued(toJs, n) /\ n.component # c /\ n.component \in Components
      BY <1>3, <1>9 DEF Messages
    <3> QED
      BY <1>3, <1>5, <1>7, <2>1, <2>2, <3>1 DEF AddsInv
  <2> QED
    BY <2>3, <2>4, <2>5 DEF AddsInv
<1>12. CallbackInv'
  BY <1>3, <1>5, <1>7 DEF CallbackInv
<1>13. PlacesInv'
  <2>1. \A d \in Components : AddUnderWay(toDotNet, d) \/ d = c => AddUnderWay(toDotNet', d)
    BY <1>5, <1>7 DEF AddUnderWay
  <2>2. \A d \in Components \ {c} :
          pendingRootComponentContainers'[d] = pendingRootComponentContainers[d]
    BY <1>3 DEF RootTypeOK
  <2> QED
    BY <1>3, <2>1, <2>2 DEF PlacesInv
<1> QED
  BY <1>10, <1>11, <1>12, <1>13

-----------------------------------------------------------------------------
(* A component the page has is no new one, and no add is under way for it. *)
LEMMA NoAddUnderWay ==
  ASSUME RootInv, NEW c \in Components, ~Unknown(c)
  PROVE  /\ c \in 0..added
         /\ \A n \in Messages : Queued(toDotNet, n) /\ n.op = "add" => n.component # c
         /\ \A n \in Messages : Queued(toJs, n) /\ n.op = "add" => n.component # c
  BY RootAssumption DEF RootInv, RootTypeOK, AddsInv, Components

(* The page sends a component its parameters.                              *)
LEMMA SetKeeps ==
  ASSUME RootInv, NEW c \in Components, NEW b \in BOOLEAN, PageSetsParameters(c, b)
  PROVE  RootInv'
<1> USE DEF RootInv
<1>1. PICK m : m = Message(IF componentId'[c] = "null" THEN "setNull"
                           ELSE IF b THEN "setCallback" ELSE "set", c, TRUE)
  OBVIOUS
<1>2. /\ componentId[c] # "none"
      /\ wrapped' = IF b THEN wrapped \cup {c} ELSE wrapped
      /\ cached' = IF b /\ c \notin wrapped THEN cached \cup {c} ELSE cached
      /\ toDotNet' = Append(toDotNet, m)
      /\ UNCHANGED <<added, pendingRootComponentContainers, componentId, toJs, root, callback, refused>>
  BY <1>1 DEF PageSetsParameters, SetParameters, Send
<1>3. /\ m \in Messages /\ m.op # "add" /\ m.component = c
      /\ m.op = "setCallback" => b
  BY <1>1 DEF Message, Messages
<1>4. /\ c \in 0..added
      /\ \A n \in Messages : Queued(toDotNet, n) /\ n.op = "add" => n.component # c
      /\ \A n \in Messages : Queued(toJs, n) /\ n.op = "add" => n.component # c
  BY <1>2, NoAddUnderWay DEF Unknown
<1>5. /\ toDotNet' \in Seq(Messages)
      /\ \A n : Queued(toDotNet', n) <=> Queued(toDotNet, n) \/ n = m
      /\ \A d : NoneFor(toDotNet', d) <=> NoneFor(toDotNet, d) /\ m.component # d
      /\ \A d : (IF m.component = d THEN NoneFor(toDotNet, d) ELSE OneFor(toDotNet, d))
                  => OneFor(toDotNet', d)
  BY <1>2, <1>3, MessageSent DEF RootTypeOK
<1>6. \A d : d # c => (Unknown(d)' <=> Unknown(d))
  BY <1>2 DEF Unknown
<1>7. \A d \in Components : d > added => d # c
  BY <1>4, RootAssumption DEF Components, RootTypeOK
<1>8. cached \subseteq cached' /\ wrapped \subseteq wrapped'
  BY <1>2
<1>9. RootTypeOK'
  BY <1>2, <1>5 DEF RootTypeOK
<1>10. AddsInv'
  <2>1. \A d \in Components : d > added' =>
          /\ Unknown(d)' /\ root'[d] = NoElement /\ pendingRootComponentContainers'[d] = NoElement
          /\ NoneFor(toDotNet', d) /\ NoneFor(toJs', d)
    BY <1>2, <1>3, <1>5, <1>6, <1>7 DEF AddsInv
  <2>2. \A n \in Messages : Queued(toDotNet', n) /\ n.op = "add" =>
          /\ Unknown(n.component)' /\ root'[n.component] = NoElement
          /\ OneFor(toDotNet', n.component) /\ NoneFor(toJs', n.component)
    BY <1>2, <1>3, <1>4, <1>5, <1>6 DEF AddsInv
  <2>3. \A n \in Messages : Queued(toJs', n) /\ n.op = "add" =>
          /\ Unknown(n.component)' /\ (root'[n.component] # NoElement => n.good)
          /\ (n.good => pendingRootComponentContainers'[n.component] = NoElement)
          /\ NoneFor(toDotNet', n.component) /\ OneFor(toJs', n.component)
    BY <1>2, <1>3, <1>4, <1>5, <1>6 DEF AddsInv
  <2> QED
    BY <2>1, <2>2, <2>3 DEF AddsInv
<1>11. CallbackInv'
  <2>1. b => c \in cached' \/ root[c] = NoElement
    BY <1>2 DEF CallbackInv
  <2>2. \A n \in Messages : Queued(toDotNet', n) /\ n.op = "setCallback" =>
          root'[n.component] = NoElement \/ n.component \in cached'
    BY <1>2, <1>3, <1>5, <1>8, <2>1 DEF CallbackInv
  <2>3. \A d \in wrapped' : d \in cached' \/ root'[d] = NoElement
    BY <1>2, <1>8, <2>1 DEF CallbackInv
  <2> QED
    BY <1>2, <1>8, <2>2, <2>3 DEF CallbackInv
<1>12. PlacesInv'
  BY <1>2, <1>5 DEF PlacesInv, AddUnderWay
<1> QED
  BY <1>9, <1>10, <1>11, <1>12

(* The page asks for a component to be disposed.                           *)
LEMMA DisposeCallKeeps ==
  ASSUME RootInv, NEW c \in Components, PageDisposes(c)
  PROVE  RootInv'
<1> USE DEF RootInv
<1>1. PICK m : m = Message("remove", c, TRUE)
  OBVIOUS
<1>2. /\ componentId[c] = "set"
      /\ toDotNet' = Append(toDotNet, m)
      /\ UNCHANGED <<jsComponentVars, toJs, root, callback, refused>>
  BY <1>1 DEF PageDisposes, Send
<1>3. m \in Messages /\ m.op = "remove" /\ m.component = c
  BY <1>1 DEF Message, Messages
<1>4. /\ c \in 0..added
      /\ \A n \in Messages : Queued(toDotNet, n) /\ n.op = "add" => n.component # c
      /\ \A n \in Messages : Queued(toJs, n) /\ n.op = "add" => n.component # c
  BY <1>2, NoAddUnderWay DEF Unknown
<1>5. /\ toDotNet' \in Seq(Messages)
      /\ \A n : Queued(toDotNet', n) <=> Queued(toDotNet, n) \/ n = m
      /\ \A d : NoneFor(toDotNet', d) <=> NoneFor(toDotNet, d) /\ m.component # d
      /\ \A d : (IF m.component = d THEN NoneFor(toDotNet, d) ELSE OneFor(toDotNet, d))
                  => OneFor(toDotNet', d)
  BY <1>2, <1>3, MessageSent DEF RootTypeOK
<1>6. \A d : Unknown(d)' <=> Unknown(d)
  BY <1>2 DEF Unknown, jsComponentVars
<1>7. \A d \in Components : d > added => d # c
  BY <1>4, RootAssumption DEF Components, RootTypeOK
<1>8. RootTypeOK'
  BY <1>2, <1>5 DEF RootTypeOK, jsComponentVars
<1>9. AddsInv'
  <2>1. \A d \in Components : d > added' =>
          /\ Unknown(d)' /\ root'[d] = NoElement /\ pendingRootComponentContainers'[d] = NoElement
          /\ NoneFor(toDotNet', d) /\ NoneFor(toJs', d)
    BY <1>2, <1>3, <1>5, <1>6, <1>7 DEF AddsInv, jsComponentVars
  <2>2. \A n \in Messages : Queued(toDotNet', n) /\ n.op = "add" =>
          /\ Unknown(n.component)' /\ root'[n.component] = NoElement
          /\ OneFor(toDotNet', n.component) /\ NoneFor(toJs', n.component)
    BY <1>2, <1>3, <1>4, <1>5, <1>6 DEF AddsInv
  <2>3. \A n \in Messages : Queued(toJs', n) /\ n.op = "add" =>
          /\ Unknown(n.component)' /\ (root'[n.component] # NoElement => n.good)
          /\ (n.good => pendingRootComponentContainers'[n.component] = NoElement)
          /\ NoneFor(toDotNet', n.component) /\ OneFor(toJs', n.component)
    BY <1>2, <1>3, <1>4, <1>5, <1>6 DEF AddsInv, jsComponentVars
  <2> QED
    BY <2>1, <2>2, <2>3 DEF AddsInv
<1>10. CallbackInv'
  BY <1>2, <1>3, <1>5 DEF CallbackInv, jsComponentVars
<1>11. PlacesInv'
  BY <1>2, <1>5 DEF PlacesInv, AddUnderWay, jsComponentVars
<1> QED
  BY <1>8, <1>9, <1>10, <1>11

-----------------------------------------------------------------------------
(* add resumes with the component it asked for, and sets its parameters.   *)
LEMMA AddedKeeps ==
  ASSUME RootInv, NEW b \in BOOLEAN, Resume(b), Head(toJs).op = "add", Head(toJs).good
  PROVE  RootInv'
<1> USE DEF RootInv
<1>1. PICK a : a = Head(toJs)
  OBVIOUS
<1>2. PICK c : c = a.component
  OBVIOUS
<1>3. PICK m : m = Message(IF b THEN "setCallback" ELSE "set", c, TRUE)
  OBVIOUS
<1>4. /\ toJs # <<>> /\ toJs' = Tail(toJs) /\ toJs \in Seq(Messages)
      /\ componentId' = [componentId EXCEPT ![c] = "set"]
      /\ SetParameters(c, b)
      /\ UNCHANGED <<added, pendingRootComponentContainers, root, callback, refused>>
      /\ a.op = "add" /\ a.good
  BY <1>1, <1>2 DEF Resume, RootTypeOK
<1>5. /\ toJs' \in Seq(Messages) /\ a \in Messages /\ Queued(toJs, a)
      /\ \A n : Queued(toJs', n) => Queued(toJs, n)
      /\ \A n : Queued(toJs, n) => Queued(toJs', n) \/ n = a
      /\ \A d : NoneFor(toJs, d) => NoneFor(toJs', d)
      /\ \A d : OneFor(toJs, d) => OneFor(toJs', d)
      /\ OneFor(toJs, a.component) => NoneFor(toJs', a.component)
  BY <1>1, <1>4, MessageTaken
<1>6. /\ c \in Components /\ Unknown(c) /\ NoneFor(toDotNet, c) /\ NoneFor(toJs', c)
      /\ pendingRootComponentContainers[c] = NoElement
  BY <1>2, <1>4, <1>5 DEF AddsInv, Messages
<1>7. c \in 0..added
  <2>1. ~ c > added
    BY <1>4, <1>5, <1>2, <1>6 DEF AddsInv, Queued, NoneFor
  <2> QED
    BY <1>6, <2>1, RootAssumption DEF RootTypeOK, Components
<1>8. /\ wrapped' = IF b THEN wrapped \cup {c} ELSE wrapped
      /\ cached' = IF b THEN cached \cup {c} ELSE cached
      /\ toDotNet' = Append(toDotNet, m)
      /\ componentId'[c] = "set"
      /\ \A d \in Components \ {c} : componentId'[d] = componentId[d]
  BY <1>3, <1>4, <1>6 DEF SetParameters, Send, Unknown, RootTypeOK
<1>9. /\ m \in Messages /\ m.op # "add" /\ m.component = c
      /\ m.op = "setCallback" => b
  BY <1>3, <1>6 DEF Message, Messages
<1>10. /\ toDotNet' \in Seq(Messages)
       /\ \A n : Queued(toDotNet', n) <=> Queued(toDotNet, n) \/ n = m
       /\ \A d : NoneFor(toDotNet', d) <=> NoneFor(toDotNet, d) /\ m.component # d
       /\ \A d : (IF m.component = d THEN NoneFor(toDotNet, d) ELSE OneFor(toDotNet, d))
                   => OneFor(toDotNet', d)
  <2>1. toDotNet \in Seq(Messages) /\ m \in Messages /\ toDotNet' = Append(toDotNet, m)
    BY <1>8, <1>9 DEF RootTypeOK
  <2> HIDE DEF RootInv
  <2> QED
    BY <2>1, MessageSent
<1>11. \A d \in Components \ {c} : Unknown(d)' <=> Unknown(d)
  BY <1>4, <1>8 DEF Unknown
<1>12. \A n \in Messages : Queued(toDotNet, n) => n.component \in Components \ {c}
  BY <1>6 DEF Queued, NoneFor, Messages
<1>13. \A n \in Messages : Queued(toJs', n) => n.component \in Components \ {c}
  BY <1>6 DEF Queued, NoneFor, Messages
<1>14. \A d \in Components : d > added => d \in Components \ {c}
  BY <1>7, RootAssumption DEF Components, RootTypeOK
<1>15. RootTypeOK'
  BY <1>4, <1>5, <1>6, <1>8, <1>10 DEF RootTypeOK
<1>16. AddsInv'
  <2>1. \A d \in Components : d > added' =>
          /\ Unknown(d)' /\ root'[d] = NoElement /\ pendingRootComponentContainers'[d] = NoElement
          /\ NoneFor(toDotNet', d) /\ NoneFor(toJs', d)
    BY <1>4, <1>5, <1>9, <1>10, <1>11, <1>14 DEF AddsInv
  <2>2. \A n \in Messages : Queued(toDotNet', n) /\ n.op = "add" =>
          /\ Unknown(n.component)' /\ root'[n.component] = NoElement
          /\ OneFor(toDotNet', n.component) /\ NoneFor(toJs', n.component)
    BY <1>4, <1>5, <1>9, <1>10, <1>11, <1>12 DEF AddsInv
  <2>3. \A n \in Messages : Queued(toJs', n) /\ n.op = "add" =>
          /\ Unknown(n.component)' /\ (root'[n.component] # NoElement => n.good)
          /\ (n.good => pendingRootComponentContainers'[n.component] = NoElement)
          /\ NoneFor(toDotNet', n.component) /\ OneFor(toJs', n.component)
    BY <1>4, <1>5, <1>9, <1>10, <1>11, <1>13 DEF AddsInv
  <2> QED
    BY <2>1, <2>2, <2>3 DEF AddsInv
<1>17. CallbackInv'
  BY <1>4, <1>5, <1>8, <1>9, <1>10 DEF CallbackInv
<1>18. PlacesInv'
  <2>1. \A d \in Components \ {c} : AddUnderWay(toJs, d) => AddUnderWay(toJs', d)
    BY <1>2, <1>5 DEF AddUnderWay
  <2>2. \A d \in Components : AddUnderWay(toDotNet, d) => AddUnderWay(toDotNet', d)
    BY <1>10 DEF AddUnderWay
  <2> QED
    BY <1>4, <1>6, <1>8, <2>1, <2>2 DEF PlacesInv
<1> QED
  BY <1>15, <1>16, <1>17, <1>18

(* dispose resumes: .NET has removed the component.                        *)
LEMMA DisposedKeeps ==
  ASSUME RootInv, NEW b \in BOOLEAN, Resume(b), Head(toJs).op = "remove", Head(toJs).good
  PROVE  RootInv'
<1> USE DEF RootInv
<1>1. PICK a : a = Head(toJs)
  OBVIOUS
<1>2. PICK c : c = a.component
  OBVIOUS
<1>3. /\ toJs # <<>> /\ toJs' = Tail(toJs) /\ toJs \in Seq(Messages)
      /\ componentId' = [componentId EXCEPT ![c] = "null"]
      /\ cached' = cached \ {c}
      /\ UNCHANGED <<added, pendingRootComponentContainers, wrapped, toDotNet, root, callback, refused>>
      /\ a.op = "remove" /\ a.good
  BY <1>1, <1>2 DEF Resume, RootTypeOK
<1>4. /\ toJs' \in Seq(Messages) /\ a \in Messages /\ Queued(toJs, a)
      /\ \A n : Queued(toJs', n) => Queued(toJs, n)
      /\ \A n : Queued(toJs, n) => Queued(toJs', n) \/ n = a
      /\ \A d : NoneFor(toJs, d) => NoneFor(toJs', d)
      /\ \A d : OneFor(toJs, d) => OneFor(toJs', d)
  BY <1>1, <1>3, MessageTaken
<1>5. c \in Components /\ root[c] = NoElement
  BY <1>2, <1>3, <1>4 DEF CallbackInv, Messages
<1>6. \A d \in Components : d > added => d # c
  BY <1>2, <1>4 DEF AddsInv, Queued, NoneFor
<1>7. \A n \in Messages : Queued(toDotNet, n) /\ n.op = "add" => n.component # c
  BY <1>2, <1>4 DEF AddsInv, Queued, NoneFor
<1>8. \A n \in Messages : Queued(toJs, n) /\ n.op = "add" => n.component # c
  <2> SUFFICES ASSUME NEW n \in Messages, Queued(toJs, n), n.op = "add", n.component = c PROVE FALSE
    OBVIOUS
  <2>1. PICK i \in 1..Len(toJs), j \in 1..Len(toJs) : toJs[i] = n /\ toJs[j] = a
    BY <1>4 DEF Queued
  <2>2. OneFor(toJs, c)
    BY DEF AddsInv
  <2>3. i = j
    BY <1>2, <2>1, <2>2 DEF OneFor
  <2> QED
    BY <1>3, <2>1, <2>3
<1>9. \A d \in Components \ {c} : componentId'[d] = componentId[d] /\ (Unknown(d)' <=> Unknown(d))
  BY <1>3 DEF Unknown, RootTypeOK
<1>10. RootTypeOK'
  BY <1>3, <1>4, <1>5 DEF RootTypeOK
<1>11. AddsInv'
  <2>1. \A n \in Messages : Queued(toDotNet, n) /\ n.op = "add" => n.component \in Components \ {c}
    BY <1>7 DEF Messages
  <2>2. \A n \in Messages : Queued(toJs', n) /\ n.op = "add" => n.component \in Components \ {c}
    BY <1>4, <1>8 DEF Messages
  <2> QED
    BY <1>3, <1>4, <1>6, <1>9, <2>1, <2>2 DEF AddsInv
<1>12. CallbackInv'
  BY <1>3, <1>4, <1>5 DEF CallbackInv
<1>13. PlacesInv'
  <2>1. \A d \in Components : AddUnderWay(toJs, d) => AddUnderWay(toJs', d)
    BY <1>3, <1>4 DEF AddUnderWay
  <2> QED
    BY <1>3, <1>5, <1>9, <2>1 DEF PlacesInv
<1> QED
  BY <1>10, <1>11, <1>12, <1>13

(* A call resumes with an error.                                           *)
LEMMA FailedKeeps ==
  ASSUME RootInv, NEW b \in BOOLEAN, Resume(b), ~Head(toJs).good
  PROVE  RootInv'
<1> USE DEF RootInv
<1>1. PICK a : a = Head(toJs)
  OBVIOUS
<1>2. PICK c : c = a.component
  OBVIOUS
<1>3. /\ toJs # <<>> /\ toJs' = Tail(toJs) /\ toJs \in Seq(Messages)
      /\ refused' = IF a.op = "add" THEN refused \cup {c} ELSE refused
      /\ UNCHANGED <<added, pendingRootComponentContainers, componentId, wrapped, cached,
                     toDotNet, root, callback>>
      /\ ~a.good
  BY <1>1, <1>2 DEF Resume, RootTypeOK
<1>4. /\ toJs' \in Seq(Messages) /\ a \in Messages /\ Queued(toJs, a)
      /\ \A n : Queued(toJs', n) => Queued(toJs, n)
      /\ \A n : Queued(toJs, n) => Queued(toJs', n) \/ n = a
      /\ \A d : NoneFor(toJs, d) => NoneFor(toJs', d)
      /\ \A d : OneFor(toJs, d) => OneFor(toJs', d)
      /\ OneFor(toJs, a.component) => NoneFor(toJs', a.component)
  BY <1>1, <1>3, MessageTaken
<1>5. c \in Components
  BY <1>2, <1>4 DEF Messages
<1>6. \A d \in Components : d > added => d # c
  BY <1>2, <1>4 DEF AddsInv, Queued, NoneFor
<1>7. \A n \in Messages : Queued(toDotNet, n) /\ n.op = "add" => n.component # c
  BY <1>2, <1>4 DEF AddsInv, Queued, NoneFor
<1>8. a.op = "add" => root[c] = NoElement /\ NoneFor(toJs', c)
  BY <1>2, <1>3, <1>4 DEF AddsInv
<1>9. a.op = "add" => \A n \in Messages : Queued(toJs', n) => n.component # c
  BY <1>8 DEF Queued, NoneFor
<1>10. \A d \in Components : d # c \/ a.op # "add" => (Unknown(d)' <=> Unknown(d))
  BY <1>3 DEF Unknown
<1>11. RootTypeOK'
  BY <1>3, <1>4, <1>5 DEF RootTypeOK
<1>12. AddsInv'
  <2>1. \A n \in Messages : Queued(toDotNet, n) /\ n.op = "add" => (Unknown(n.component)' <=> Unknown(n.component))
    BY <1>7, <1>10 DEF Messages
  <2>2. \A n \in Messages : Queued(toJs', n) /\ n.op = "add" => (Unknown(n.component)' <=> Unknown(n.component))
    BY <1>9, <1>10 DEF Messages
  <2> QED
    BY <1>3, <1>4, <1>6, <1>10, <2>1, <2>2 DEF AddsInv
<1>13. CallbackInv'
  BY <1>3, <1>4 DEF CallbackInv
<1>14. PlacesInv'
  <2>1. \A d \in Components : AddUnderWay(toJs, d) => AddUnderWay(toJs', d) \/ (d = c /\ a.op = "add")
    BY <1>2, <1>4 DEF AddUnderWay
  <2> QED
    BY <1>3, <1>8, <2>1 DEF PlacesInv
<1> QED
  BY <1>11, <1>12, <1>13, <1>14

(* A call of the page resumes.                                             *)
LEMMA ResumeKeeps ==
  ASSUME RootInv, NEW b \in BOOLEAN, Resume(b)
  PROVE  RootInv'
BY AddedKeeps, DisposedKeeps, FailedKeeps DEF Resume

-----------------------------------------------------------------------------
(* .NET adds a component, or refuses to.                                   *)
LEMMA DotNetAddsKeeps ==
  ASSUME RootInv, DotNetHandles, Head(toDotNet).op = "add"
  PROVE  RootInv'
<1> USE DEF RootInv
<1>1. PICK m : m = Head(toDotNet)
  OBVIOUS
<1>2. PICK c : c = m.component
  OBVIOUS
<1>3. PICK e : e = pendingRootComponentContainers[c]
  OBVIOUS
<1>4. PICK fine : fine = (m.good /\ ~isInteractiveRootComponentElement(e))
  OBVIOUS
<1>5. PICK a : a = [m EXCEPT !.good = fine]
  OBVIOUS
<1>6. /\ toDotNet # <<>> /\ toDotNet' = Tail(toDotNet) /\ toDotNet \in Seq(Messages)
      /\ toJs \in Seq(Messages)
      /\ m.op = "add"
      /\ pendingRootComponentContainers' =
           IF m.good THEN [pendingRootComponentContainers EXCEPT ![c] = NoElement]
           ELSE pendingRootComponentContainers
      /\ root' = IF fine THEN [root EXCEPT ![c] = e] ELSE root
      /\ toJs' = Append(toJs, a)
      /\ UNCHANGED <<added, componentId, wrapped, cached, refused, callback>>
  BY <1>1, <1>2, <1>3, <1>4, <1>5
  DEF DotNetHandles, DotNetAdds, DotNetSets, DotNetRemoves, Answer, RootTypeOK
<1>7. /\ toDotNet' \in Seq(Messages) /\ m \in Messages /\ Queued(toDotNet, m)
      /\ \A n : Queued(toDotNet', n) => Queued(toDotNet, n)
      /\ \A n : Queued(toDotNet, n) => Queued(toDotNet', n) \/ n = m
      /\ \A d : NoneFor(toDotNet, d) => NoneFor(toDotNet', d)
      /\ \A d : OneFor(toDotNet, d) => OneFor(toDotNet', d)
      /\ OneFor(toDotNet, m.component) => NoneFor(toDotNet', m.component)
  BY <1>1, <1>6, MessageTaken
<1>8. /\ c \in Components /\ Unknown(c) /\ root[c] = NoElement
      /\ NoneFor(toDotNet', c) /\ NoneFor(toJs, c)
  BY <1>2, <1>6, <1>7 DEF AddsInv, Messages
<1>9. fine \in BOOLEAN
  BY <1>4, <1>7 DEF Messages
<1>10. a \in Messages /\ a.op = "add" /\ a.component = c /\ a.good = fine
  BY <1>2, <1>5, <1>6, <1>7, <1>9 DEF Messages
<1>11. /\ toJs' \in Seq(Messages)
       /\ \A n : Queued(toJs', n) <=> Queued(toJs, n) \/ n = a
       /\ \A d : NoneFor(toJs', d) <=> NoneFor(toJs, d) /\ a.component # d
       /\ \A d : (IF a.component = d THEN NoneFor(toJs, d) ELSE OneFor(toJs, d))
                   => OneFor(toJs', d)
  <2> HIDE DEF RootInv
  <2> QED
    BY <1>6, <1>10, MessageSent
<1>12. e \in Elements \cup {NoElement}
  BY <1>3, <1>8 DEF RootTypeOK
<1>13. /\ \A d \in Components \ {c} :
            /\ root'[d] = root[d]
            /\ pendingRootComponentContainers'[d] = pendingRootComponentContainers[d]
       /\ root'[c] = IF fine THEN e ELSE NoElement
       /\ m.good => pendingRootComponentContainers'[c] = NoElement
  BY <1>6, <1>8 DEF RootTypeOK
<1>14. \A d \in Components : d > added => d # c
  BY <1>2, <1>7 DEF AddsInv, Queued, NoneFor
<1>15. \A n \in Messages : Queued(toDotNet', n) => n.component \in Components \ {c}
  BY <1>8 DEF Queued, NoneFor, Messages
<1>16. \A n \in Messages : Queued(toJs, n) => n.component \in Components \ {c}
  BY <1>8 DEF Queued, NoneFor, Messages
<1>17. \A d : Unknown(d)' <=> Unknown(d)
  BY <1>6 DEF Unknown
<1>18. RootTypeOK'
  BY <1>6, <1>7, <1>8, <1>11, <1>12 DEF RootTypeOK
<1>19. AddsInv'
  <2>1. \A d \in Components : d > added' =>
          /\ Unknown(d)' /\ root'[d] = NoElement /\ pendingRootComponentContainers'[d] = NoElement
          /\ NoneFor(toDotNet', d) /\ NoneFor(toJs', d)
    BY <1>6, <1>7, <1>10, <1>11, <1>13, <1>14, <1>17 DEF AddsInv
  <2>2. \A n \in Messages : Queued(toDotNet', n) /\ n.op = "add" =>
          /\ Unknown(n.component)' /\ root'[n.component] = NoElement
          /\ OneFor(toDotNet', n.component) /\ NoneFor(toJs', n.component)
    BY <1>7, <1>10, <1>11, <1>13, <1>15, <1>17 DEF AddsInv
  <2>3. \A n \in Messages : Queued(toJs', n) /\ n.op = "add" =>
          /\ Unknown(n.component)' /\ (root'[n.component] # NoElement => n.good)
          /\ (n.good => pendingRootComponentContainers'[n.component] = NoElement)
          /\ NoneFor(toDotNet', n.component) /\ OneFor(toJs', n.component)
    <3> SUFFICES ASSUME NEW n \in Messages, Queued(toJs', n), n.op = "add"
                 PROVE  /\ Unknown(n.component)' /\ (root'[n.component] # NoElement => n.good)
                        /\ (n.good => pendingRootComponentContainers'[n.component] = NoElement)
                        /\ NoneFor(toDotNet', n.component) /\ OneFor(toJs', n.component)
      OBVIOUS
    <3>1. CASE n = a
      BY <1>4, <1>8, <1>10, <1>11, <1>13, <1>17, <3>1
    <3>2. CASE Queued(toJs, n)
      BY <1>7, <1>10, <1>11, <1>13, <1>16, <1>17, <3>2 DEF AddsInv
    <3> QED
      BY <1>11, <3>1, <3>2
  <2> QED
    BY <2>1, <2>2, <2>3 DEF AddsInv
<1>20. CallbackInv'
  <2>1. \A n \in Messages : Queued(toDotNet', n) => root'[n.component] = root[n.component]
    BY <1>13, <1>15
  <2>2. \A n \in Messages : Queued(toJs, n) => root'[n.component] = root[n.component]
    BY <1>13, <1>16
  <2>3. \A d \in callback \cup wrapped : root'[d] = root[d]
    BY <1>8, <1>13 DEF RootTypeOK, Unknown
  <2> QED
    BY <1>6, <1>7, <1>10, <1>11, <2>1, <2>2, <2>3 DEF CallbackInv
<1>21. PlacesInv'
  <2>1. \A d \in Components : AddUnderWay(toJs, d) \/ d = c => AddUnderWay(toJs', d)
    BY <1>10, <1>11 DEF AddUnderWay
  <2>2. \A d \in Components \ {c} : AddUnderWay(toDotNet, d) => AddUnderWay(toDotNet', d)
    BY <1>2, <1>7 DEF AddUnderWay
  <2>3. fine => \A d \in Components : root[d] # e
    BY <1>4 DEF isInteractiveRootComponentElement
  <2>4. \A d, f \in Components : root'[d] # NoElement /\ root'[f] = root'[d] => f = d
    BY <1>13, <2>3 DEF PlacesInv
  <2>5. c \notin refused
    BY <1>8 DEF Unknown
  <2> QED
    BY <1>6, <1>13, <2>1, <2>2, <2>4, <2>5 DEF PlacesInv
<1> QED
  BY <1>18, <1>19, <1>20, <1>21

(* .NET sets the parameters of a component.                                *)
LEMMA DotNetSetsKeeps ==
  ASSUME RootInv, DotNetHandles, Head(toDotNet).op \in {"set", "setCallback", "setNull"}
  PROVE  RootInv'
<1> USE DEF RootInv
<1>1. PICK m : m = Head(toDotNet)
  OBVIOUS
<1>2. /\ toDotNet # <<>> /\ toDotNet' = Tail(toDotNet) /\ toDotNet \in Seq(Messages)
      /\ m.op \in {"set", "setCallback", "setNull"}
      /\ callback' = IF m.op = "setCallback" /\ root[m.component] # NoElement
                     THEN callback \cup {m.component} ELSE callback
      /\ UNCHANGED <<added, pendingRootComponentContainers, componentId, wrapped, cached,
                     toJs, root, refused>>
  BY <1>1 DEF DotNetHandles, DotNetAdds, DotNetSets, DotNetRemoves, RootTypeOK
<1>3. /\ toDotNet' \in Seq(Messages) /\ m \in Messages /\ Queued(toDotNet, m)
      /\ \A n : Queued(toDotNet', n) => Queued(toDotNet, n)
      /\ \A n : Queued(toDotNet, n) => Queued(toDotNet', n) \/ n = m
      /\ \A d : NoneFor(toDotNet, d) => NoneFor(toDotNet', d)
      /\ \A d : OneFor(toDotNet, d) => OneFor(toDotNet', d)
  BY <1>1, <1>2, MessageTaken
<1>4. \A d \in Components : d > added => d # m.component
  BY <1>3 DEF AddsInv, Queued, NoneFor
<1>5. \A n \in Messages : Queued(toJs, n) /\ n.op = "add" => n.component # m.component
  BY <1>3 DEF AddsInv, Queued, NoneFor
<1>6. \A n \in Messages : Queued(toDotNet, n) /\ n.op = "add" => n.component # m.component
  <2> SUFFICES ASSUME NEW n \in Messages, Queued(toDotNet, n), n.op = "add",
                      n.component = m.component
               PROVE  FALSE
    OBVIOUS
  <2>1. PICK i \in 1..Len(toDotNet), j \in 1..Len(toDotNet) : toDotNet[i] = n /\ toDotNet[j] = m
    BY <1>3 DEF Queued
  <2>2. OneFor(toDotNet, m.component)
    BY DEF AddsInv
  <2>3. i = j
    BY <2>1, <2>2 DEF OneFor
  <2> QED
    BY <1>2, <2>1, <2>3
<1>7. \A d : d # m.component => (Unknown(d)' <=> Unknown(d))
  BY <1>2 DEF Unknown
<1>8. RootTypeOK'
  BY <1>2, <1>3 DEF RootTypeOK, Messages
<1>9. AddsInv'
  BY <1>2, <1>3, <1>4, <1>5, <1>6, <1>7 DEF AddsInv
<1>10. CallbackInv'
  BY <1>2, <1>3 DEF CallbackInv
<1>11. PlacesInv'
  <2>1. \A d \in Components : AddUnderWay(toDotNet, d) => AddUnderWay(toDotNet', d)
    BY <1>2, <1>3 DEF AddUnderWay
  <2> QED
    BY <1>2, <2>1 DEF PlacesInv
<1> QED
  BY <1>8, <1>9, <1>10, <1>11

(* .NET removes a component, or refuses to.                                *)
LEMMA DotNetRemovesKeeps ==
  ASSUME RootInv, DotNetHandles, Head(toDotNet).op = "remove"
  PROVE  RootInv'
<1> USE DEF RootInv
<1>1. PICK m : m = Head(toDotNet)
  OBVIOUS
<1>2. PICK c : c = m.component
  OBVIOUS
<1>3. PICK a : a = [m EXCEPT !.good = (root[c] # NoElement)]
  OBVIOUS
<1>4. /\ toDotNet # <<>> /\ toDotNet' = Tail(toDotNet) /\ toDotNet \in Seq(Messages)
      /\ toJs \in Seq(Messages)
      /\ m.op = "remove"
      /\ root' = [root EXCEPT ![c] = NoElement]
      /\ callback' = callback \ {c}
      /\ toJs' = Append(toJs, a)
      /\ UNCHANGED <<added, pendingRootComponentContainers, componentId, wrapped, cached, refused>>
  BY <1>1, <1>2, <1>3
  DEF DotNetHandles, DotNetAdds, DotNetSets, DotNetRemoves, Answer, RootTypeOK
<1>5. /\ toDotNet' \in Seq(Messages) /\ m \in Messages /\ Queued(toDotNet, m)
      /\ \A n : Queued(toDotNet', n) => Queued(toDotNet, n)
      /\ \A n : Queued(toDotNet, n) => Queued(toDotNet', n) \/ n = m
      /\ \A d : NoneFor(toDotNet, d) => NoneFor(toDotNet', d)
      /\ \A d : OneFor(toDotNet, d) => OneFor(toDotNet', d)
  BY <1>1, <1>4, MessageTaken
<1>6. c \in Components
  BY <1>2, <1>5 DEF Messages
<1>7. a \in Messages /\ a.op = "remove" /\ a.component = c
  BY <1>2, <1>3, <1>4, <1>5 DEF Messages
<1>8. /\ toJs' \in Seq(Messages)
      /\ \A n : Queued(toJs', n) <=> Queued(toJs, n) \/ n = a
      /\ \A d : NoneFor(toJs', d) <=> NoneFor(toJs, d) /\ a.component # d
      /\ \A d : (IF a.component = d THEN NoneFor(toJs, d) ELSE OneFor(toJs, d))
                  => OneFor(toJs', d)
  <2> HIDE DEF RootInv
  <2> QED
    BY <1>4, <1>7, MessageSent
<1>9. /\ root'[c] = NoElement
      /\ \A d \in Components \ {c} : root'[d] = root[d]
  BY <1>4, <1>6 DEF RootTypeOK
<1>10. \A d \in Components : d > added => d # c
  BY <1>2, <1>5 DEF AddsInv, Queued, NoneFor
<1>11. \A n \in Messages : Queued(toJs, n) /\ n.op = "add" => n.component # c
  BY <1>2, <1>5 DEF AddsInv, Queued, NoneFor
<1>12. \A n \in Messages : Queued(toDotNet, n) /\ n.op = "add" => n.component # c
  <2> SUFFICES ASSUME NEW n \in Messages, Queued(toDotNet, n), n.op = "add", n.component = c
               PROVE  FALSE
    OBVIOUS
  <2>1. PICK i \in 1..Len(toDotNet), j \in 1..Len(toDotNet) : toDotNet[i] = n /\ toDotNet[j] = m
    BY <1>5 DEF Queued
  <2>2. OneFor(toDotNet, c)
    BY DEF AddsInv
  <2>3. i = j
    BY <1>2, <2>1, <2>2 DEF OneFor
  <2> QED
    BY <1>4, <2>1, <2>3
<1>13. \A d : d # c => (Unknown(d)' <=> Unknown(d))
  BY <1>4 DEF Unknown
<1>14. RootTypeOK'
  BY <1>4, <1>5, <1>8 DEF RootTypeOK
<1>15. AddsInv'
  <2>1. \A d \in Components : d > added' =>
          /\ Unknown(d)' /\ root'[d] = NoElement /\ pendingRootComponentContainers'[d] = NoElement
          /\ NoneFor(toDotNet', d) /\ NoneFor(toJs', d)
    BY <1>4, <1>5, <1>7, <1>8, <1>9, <1>10, <1>13 DEF AddsInv
  <2>2. \A n \in Messages : Queued(toDotNet', n) /\ n.op = "add" =>
          /\ Unknown(n.component)' /\ root'[n.component] = NoElement
          /\ OneFor(toDotNet', n.component) /\ NoneFor(toJs', n.component)
    <3> SUFFICES ASSUME NEW n \in Messages, Queued(toDotNet', n), n.op = "add"
                 PROVE  /\ Unknown(n.component)' /\ root'[n.component] = NoElement
                        /\ OneFor(toDotNet', n.component) /\ NoneFor(toJs', n.component)
      OBVIOUS
    <3>1. Queued(toDotNet, n) /\ n.component \in Components \ {c}
      BY <1>5, <1>12 DEF Messages
    <3> QED
      BY <1>5, <1>7, <1>8, <1>9, <1>13, <3>1 DEF AddsInv
  <2>3. \A n \in Messages : Queued(toJs', n) /\ n.op = "add" =>
          /\ Unknown(n.component)' /\ (root'[n.component] # NoElement => n.good)
          /\ (n.good => pendingRootComponentContainers'[n.component] = NoElement)
          /\ NoneFor(toDotNet', n.component) /\ OneFor(toJs', n.component)
    <3> SUFFICES ASSUME NEW n \in Messages, Queued(toJs', n), n.op = "add"
                 PROVE  /\ Unknown(n.component)' /\ (root'[n.component] # NoElement => n.good)
                        /\ (n.good => pendingRootComponentContainers'[n.component] = NoElement)
                        /\ NoneFor(toDotNet', n.component) /\ OneFor(toJs', n.component)
      OBVIOUS
    <3>1. Queued(toJs, n) /\ n.component \in Components \ {c}
      BY <1>7, <1>8, <1>11 DEF Messages
    <3> QED
      BY <1>4, <1>5, <1>7, <1>8, <1>9, <1>13, <3>1 DEF AddsInv
  <2> QED
    BY <2>1, <2>2, <2>3 DEF AddsInv
<1>16. CallbackInv'
  <2>1. \A d \in Components : root'[d] = root[d] \/ (d = c /\ root'[d] = NoElement)
    BY <1>9
  <2>2. \A n \in Messages : n.component \in Components
    BY DEF Messages
  <2>3. callback' \subseteq Components /\ wrapped \subseteq Components
    BY <1>4 DEF RootTypeOK
  <2>4. /\ \A n \in Messages : Queued(toJs', n) => n.op \in {"add", "remove"}
        /\ \A n \in Messages : Queued(toJs', n) /\ n.op = "remove" /\ n.good
             => root'[n.component] = NoElement
    BY <1>7, <1>8, <1>9, <2>1, <2>2 DEF CallbackInv
  <2>5. \A n \in Messages : Queued(toDotNet', n) /\ n.op = "setCallback" =>
          root'[n.component] = NoElement \/ n.component \in cached'
    BY <1>4, <1>5, <2>1, <2>2 DEF CallbackInv
  <2>6. \A d \in callback' : d \in cached' /\ root'[d] # NoElement
    BY <1>4, <1>9, <2>3 DEF CallbackInv
  <2>7. \A d \in wrapped' : d \in cached' \/ root'[d] = NoElement
    BY <1>4, <2>1, <2>3 DEF CallbackInv
  <2> QED
    BY <2>4, <2>5, <2>6, <2>7 DEF CallbackInv
<1>17. PlacesInv'
  <2>1. \A d \in Components : AddUnderWay(toJs, d) => AddUnderWay(toJs', d)
    BY <1>8 DEF AddUnderWay
  <2>2. \A d \in Components : AddUnderWay(toDotNet, d) => AddUnderWay(toDotNet', d)
    BY <1>4, <1>5 DEF AddUnderWay
  <2>3. \A d \in Components : root'[d] # NoElement => d # c /\ root'[d] = root[d]
    BY <1>9
  <2> QED
    BY <1>4, <2>1, <2>2, <2>3 DEF PlacesInv
<1> QED
  BY <1>14, <1>15, <1>16, <1>17

(* .NET handles a call.                                                    *)
LEMMA DotNetHandlesKeeps ==
  ASSUME RootInv, DotNetHandles
  PROVE  RootInv'
BY DotNetAddsKeeps, DotNetSetsKeeps, DotNetRemovesKeeps
DEF DotNetHandles, DotNetAdds, DotNetSets, DotNetRemoves

-----------------------------------------------------------------------------
(* Every step keeps the invariant.                                         *)
LEMMA RootInvNext == RootInv /\ [RootNext]_rootVars => RootInv'
<1> SUFFICES ASSUME RootInv, [RootNext]_rootVars PROVE RootInv'
  OBVIOUS
<1>1. CASE UNCHANGED rootVars
  BY <1>1 DEF rootVars, jsComponentVars, RootInv, RootTypeOK, AddsInv, CallbackInv, PlacesInv,
     Unknown, AddUnderWay
<1>2. ASSUME NEW e \in Elements, NEW known \in BOOLEAN, AddRootComponent(e, known)
      PROVE  RootInv'
  BY <1>2, AddKeeps
<1>3. ASSUME NEW c \in Components, NEW b \in BOOLEAN, PageSetsParameters(c, b)
      PROVE  RootInv'
  BY <1>3, SetKeeps
<1>4. ASSUME NEW c \in Components, PageDisposes(c)
      PROVE  RootInv'
  BY <1>4, DisposeCallKeeps
<1>5. ASSUME NEW b \in BOOLEAN, Resume(b)
      PROVE  RootInv'
  BY <1>5, ResumeKeeps
<1>6. CASE DotNetHandles
  BY <1>6, DotNetHandlesKeeps
<1> QED
  BY <1>1, <1>2, <1>3, <1>4, <1>5, <1>6 DEF RootNext

(* The invariant says what the page and .NET must agree on.                *)
LEMMA RootInvAgrees == RootInv => RootsAgree
<1> SUFFICES ASSUME RootInv PROVE RootsAgree
  OBVIOUS
<1>1. ASSUME NEW q \in Seq(Messages), NEW c \in Components, AddUnderWay(q, c)
      PROVE  OnTheWay(q, "add", c)
  <2>1. PICK i \in 1..Len(q) : q[i].op = "add" /\ q[i].component = c
    BY <1>1 DEF AddUnderWay, Queued
  <2>2. i \in DOMAIN q
    OBVIOUS
  <2> QED
    BY <2>1, <2>2 DEF OnTheWay
<1>2. toDotNet \in Seq(Messages) /\ toJs \in Seq(Messages)
  BY DEF RootInv, RootTypeOK
<1>3. callback \subseteq cached
  BY DEF RootInv, CallbackInv
<1> QED
  BY <1>1, <1>2, <1>3 DEF RootInv, PlacesInv, RootsAgree

(* For any components, elements and calls under way: a component that .NET *)
(* may still render has an element of its own and can call its callback,   *)
(* the page can dispose it, and a container waits only for a call that     *)
(* takes it or stays of one that was refused (JSRootComponents.ts:         *)
(* RootComponentsFunctions.add, DynamicRootComponent).                     *)
THEOREM RootComponentsAgree == RootSpec => []RootsAgree
<1>1. RootSpec => []RootInv
  BY RootInvInit, RootInvNext, PTL DEF RootSpec
<1> QED
  BY <1>1, RootInvAgrees, PTL

-----------------------------------------------------------------------------
(* Data streams: readers that await one read before the next.              *)

(* The types of a stream's variables.                                      *)
ReadTypeOK ==
  /\ offset \in 0..Total /\ closed \in BOOLEAN
  /\ read \in [Reads -> [phase : {"idle", "asked", "cancelled", "done"}, from : Nat, count : Nat]]
  /\ delivered \in Seq(Nat)

(* A read under way is the only one and asked for bytes at the position.   *)
OneUnderWay ==
  /\ \A r, q \in UnderWay : r = q
  /\ \A r \in UnderWay : read[r].from = offset

(* No read goes past the stream's end.                                     *)
Within == \A r \in Reads : read[r].from + read[r].count <= Total

(* What .NET got is in the order of the stream, and with what it threw     *)
(* away all that was read.                                                 *)
InOrder ==
  /\ \A j, k \in DOMAIN delivered : j < k => delivered[j] < delivered[k]
  /\ Members(delivered) \cup discarded = 0..(offset - 1)

(* The last chunk closes the stream.                                       *)
ClosedAtEnd == closed <=> offset = Total /\ \E r \in Reads : read[r].phase = "done"

(* All of it, for a stream that no two reads used at once: overlapping     *)
(* reads are the caller's error and void it.                               *)
ReadInv == ~overlapped => ReadTypeOK /\ OneUnderWay /\ Within /\ InOrder /\ ClosedAtEnd

(* The bytes of a chunk.                                                   *)
LEMMA PositionsFacts ==
  ASSUME NEW from \in Nat, NEW n \in Nat, NEW s, s = Positions(from, n)
  PROVE  /\ s \in Seq(Nat) /\ Len(s) = n
         /\ \A k \in 1..n : s[k] = from + k - 1
         /\ Members(s) = from..(from + n - 1)
<1>1. s = [k \in 1..n |-> from + k - 1]
  BY DEF Positions
<1>2. \A k \in 1..n : from + k - 1 \in Nat
  OBVIOUS
<1>3. s \in Seq(Nat) /\ Len(s) = n
  BY <1>1, <1>2
<1>4. \A k \in 1..n : s[k] = from + k - 1
  BY <1>1
<1>5. DOMAIN s = 1..n
  BY <1>1
<1>6. ASSUME NEW x \in from..(from + n - 1) PROVE x \in Members(s)
  <2>1. PICK k : k = x - from + 1
    OBVIOUS
  <2>2. k \in 1..n /\ from + k - 1 = x
    BY <2>1
  <2> QED
    BY <1>4, <1>5, <2>2 DEF Members
<1>7. ASSUME NEW k \in 1..n PROVE s[k] \in from..(from + n - 1)
  BY <1>4
<1>8. Members(s) = from..(from + n - 1)
  BY <1>5, <1>6, <1>7 DEF Members
<1> QED
  BY <1>3, <1>4, <1>8

(* getNextChunk reads the positions asked for.                             *)
LEMMA ChunkFacts ==
  ASSUME NEW from \in Nat, NEW n \in Nat, from + n <= Total
  PROVE  getNextChunk(from, n) = Positions(from, n)
  BY DEF getNextChunk

(* Later bytes appended to bytes in order.                                 *)
LEMMA ChunkAppended ==
  ASSUME NEW o \in Nat, NEW n \in Nat, NEW d \in Seq(Nat),
         Members(d) \subseteq 0..(o - 1),
         \A j, k \in DOMAIN d : j < k => d[j] < d[k],
         NEW c, c = Positions(o, n), NEW r, r = d \o c
  PROVE  /\ r \in Seq(Nat)
         /\ \A j, k \in DOMAIN r : j < k => r[j] < r[k]
         /\ Members(r) = Members(d) \cup (o..(o + n - 1))
<1>1. /\ c \in Seq(Nat) /\ Len(c) = n /\ Members(c) = o..(o + n - 1)
      /\ \A k \in 1..n : c[k] = o + k - 1
  <2>1. c \in Seq(Nat) /\ Len(c) = n
    BY PositionsFacts
  <2>2. Members(c) = o..(o + n - 1)
    BY PositionsFacts
  <2>3. \A k \in 1..n : c[k] = o + k - 1
    BY DEF Positions
  <2> QED
    BY <2>1, <2>2, <2>3
<1>2. PICK m : m = Len(d)
  OBVIOUS
<1>3. d \in Seq(Nat) /\ c \in Seq(Nat) /\ r = d \o c /\ m = Len(d) /\ n = Len(c)
  BY <1>1, <1>2
<1>4. /\ r \in Seq(Nat) /\ m \in Nat
      /\ DOMAIN r = 1..(m + n) /\ DOMAIN d = 1..m
      /\ \A k \in 1..m : r[k] = d[k]
      /\ \A k \in (m + 1)..(m + n) : k - m \in 1..n /\ r[k] = c[k - m]
      /\ Members(r) = Members(d) \cup Members(c)
  <2>1. m \in Nat
    BY <1>2
  <2>2. r \in Seq(Nat) /\ Joined(r, d, c, m, n)
    BY <1>3, <2>1, ConcatFacts
  <2> QED
    BY <2>1, <2>2 DEF Joined
<1>5. ASSUME NEW k \in 1..m PROVE r[k] \in 0..(o - 1)
  BY <1>4 DEF Members
<1>6. ASSUME NEW k \in (m + 1)..(m + n) PROVE r[k] = o + (k - m) - 1
  BY <1>1, <1>4
<1>7. ASSUME NEW j \in DOMAIN r, NEW k \in DOMAIN r, j < k PROVE r[j] < r[k]
  <2>1. j \in Int /\ k \in Int /\ 1 <= j /\ k <= m + n
    BY <1>4
  <2>2. CASE k <= m
    <3>1. j \in 1..m /\ k \in 1..m
      BY <1>4, <1>7, <2>1, <2>2
    <3>2. d[j] < d[k]
      BY <1>4, <1>7, <3>1
    <3>3. r[j] = d[j] /\ r[k] = d[k]
      BY <1>4, <3>1
    <3> QED
      BY <3>2, <3>3
  <2>3. CASE k > m /\ j <= m
    <3>1. j \in 1..m /\ k \in (m + 1)..(m + n)
      BY <1>4, <2>1, <2>3
    <3>2. r[j] \in 0..(o - 1) /\ r[k] = o + (k - m) - 1
      BY <1>5, <1>6, <3>1
    <3>3. k - m >= 1
      BY <1>4, <2>1, <2>3
    <3>4. r[j] <= o - 1 /\ r[j] \in Int
      BY <3>2
    <3>5. PICK a, b : a = r[j] /\ b = r[k]
      OBVIOUS
    <3>6. m \in Int /\ k \in Int
      BY <1>4, <2>1
    <3>7. a \in Int /\ a <= o - 1 /\ b = o + (k - m) - 1
      BY <3>2, <3>4, <3>5
    <3>8. a < b
      BY <3>3, <3>6, <3>7
    <3> QED
      BY <3>5, <3>8
  <2>4. CASE j > m
    <3>1. j \in (m + 1)..(m + n) /\ k \in (m + 1)..(m + n)
      BY <1>4, <1>7, <2>1, <2>4
    <3>2. r[j] = o + (j - m) - 1 /\ r[k] = o + (k - m) - 1
      BY <1>6, <3>1
    <3>3. m \in Int /\ j \in Int /\ k \in Int
      BY <1>4, <2>1
    <3>4. j < k
      BY <1>7
    <3>5. o + (j - m) - 1 < o + (k - m) - 1
      BY <3>3, <3>4
    <3> QED
      BY <3>2, <3>5
  <2>5. k <= m \/ (k > m /\ j <= m) \/ j > m
    BY <1>4, <2>1
  <2> QED
    BY <2>2, <2>3, <2>4, <2>5
<1> QED
  BY <1>1, <1>4, <1>7

(* .NET asks for a chunk.                                                  *)
LEMMA ReadAsyncKeeps ==
  ASSUME ReadInv, NEW r \in Reads, NEW n \in 1..MaxCount, ReadAsync(r, n)
  PROVE  ReadInv'
<1> SUFFICES ASSUME ~overlapped' PROVE (ReadTypeOK /\ OneUnderWay /\ Within /\ InOrder /\ ClosedAtEnd)'
  BY DEF ReadInv
<1>1. /\ ReadTypeOK /\ OneUnderWay /\ Within /\ InOrder /\ ClosedAtEnd
      /\ UnderWay = {}
  BY DEF ReadAsync, ReadInv
<1>2. PICK w, m : w = NumBytesToRead(n) /\ m = read'
  OBVIOUS
<1>3. /\ m = [read EXCEPT ![r] = [phase |-> "asked", from |-> offset, count |-> w]]
      /\ read[r].phase = "idle"
      /\ UNCHANGED <<offset, closed, delivered, discarded>>
  BY <1>2 DEF ReadAsync
<1>4. w \in Nat /\ offset \in Nat /\ offset + w <= Total
  BY <1>1, <1>2, StreamAssumption DEF ReadTypeOK, NumBytesToRead
<1>5. ReadTypeOK'
  <2>1. m \in [Reads -> [phase : {"idle", "asked", "cancelled", "done"}, from : Nat, count : Nat]]
    BY <1>1, <1>3, <1>4 DEF ReadTypeOK
  <2> QED
    BY <1>1, <1>2, <1>3, <2>1 DEF ReadTypeOK
<1>6. m[r].phase = "asked" /\ m[r].from = offset /\ m[r].count = w
  BY <1>1, <1>3 DEF ReadTypeOK
<1>7. \A q \in Reads \ {r} : m[q] = read[q] /\ q \notin UnderWay
  BY <1>1, <1>3 DEF ReadTypeOK
<1>8. OneUnderWay'
  BY <1>2, <1>3, <1>6, <1>7 DEF OneUnderWay, UnderWay
<1>9. Within'
  BY <1>1, <1>2, <1>4, <1>6, <1>7 DEF Within
<1>10. InOrder'
  BY <1>1, <1>3 DEF InOrder
<1>11. ClosedAtEnd'
  <2>1. \A q \in Reads : m[q].phase = "done" <=> read[q].phase = "done"
    BY <1>3, <1>6, <1>7
  <2> QED
    BY <1>1, <1>2, <1>3, <2>1 DEF ClosedAtEnd
<1> QED
  BY <1>5, <1>8, <1>9, <1>10, <1>11

(* .NET gives the read up.                                                 *)
LEMMA CancelReadKeeps ==
  ASSUME ReadInv, NEW r \in Reads, CancelRead(r)
  PROVE  ReadInv'
<1> SUFFICES ASSUME ~overlapped' PROVE (ReadTypeOK /\ OneUnderWay /\ Within /\ InOrder /\ ClosedAtEnd)'
  BY DEF ReadInv
<1>1. ReadTypeOK /\ OneUnderWay /\ Within /\ InOrder /\ ClosedAtEnd
  BY DEF CancelRead, ReadInv
<1>2. PICK m : m = read'
  OBVIOUS
<1>3. /\ m = [read EXCEPT ![r].phase = "cancelled"]
      /\ read[r].phase = "asked"
      /\ UNCHANGED <<offset, closed, delivered, discarded>>
  BY <1>2 DEF CancelRead
<1>4. ReadTypeOK'
  <2>1. m \in [Reads -> [phase : {"idle", "asked", "cancelled", "done"}, from : Nat, count : Nat]]
    BY <1>1, <1>3 DEF ReadTypeOK
  <2> QED
    BY <1>1, <1>2, <1>3, <2>1 DEF ReadTypeOK
<1>5. m[r].phase = "cancelled" /\ m[r].from = read[r].from /\ m[r].count = read[r].count
  BY <1>1, <1>3 DEF ReadTypeOK
<1>6. \A q \in Reads \ {r} : m[q] = read[q]
  BY <1>1, <1>3 DEF ReadTypeOK
<1>7. UnderWay' = UnderWay
  BY <1>2, <1>3, <1>5, <1>6 DEF UnderWay
<1>8. OneUnderWay'
  BY <1>1, <1>2, <1>3, <1>5, <1>6, <1>7 DEF OneUnderWay, UnderWay
<1>9. Within'
  BY <1>1, <1>2, <1>5, <1>6 DEF Within
<1>10. InOrder'
  BY <1>1, <1>3 DEF InOrder
<1>11. ClosedAtEnd'
  <2>1. \A q \in Reads : m[q].phase = "done" <=> read[q].phase = "done"
    BY <1>3, <1>5, <1>6
  <2> QED
    BY <1>1, <1>2, <1>3, <2>1 DEF ClosedAtEnd
<1> QED
  BY <1>4, <1>8, <1>9, <1>10, <1>11

(* The chunk arrives, is appended or thrown away, and closes the stream    *)
(* when it was the last.                                                   *)
LEMMA ChunkArrivesKeeps ==
  ASSUME ReadInv, NEW r \in Reads, ChunkArrives(r)
  PROVE  ReadInv'
<1> SUFFICES ASSUME ~overlapped' PROVE (ReadTypeOK /\ OneUnderWay /\ Within /\ InOrder /\ ClosedAtEnd)'
  BY DEF ReadInv
<1>1. ReadTypeOK /\ OneUnderWay /\ Within /\ InOrder /\ ClosedAtEnd
  BY DEF ChunkArrives, ReadInv
<1>2. PICK m, n, chunk : m = read' /\ n = read[r].count /\ chunk = getNextChunk(read[r].from, n)
  OBVIOUS
<1>3. /\ r \in UnderWay /\ read[r].from = offset /\ n \in Nat /\ offset \in Nat /\ offset + n <= Total
      /\ \A q \in UnderWay : q = r
  BY <1>1, <1>2 DEF ChunkArrives, OneUnderWay, Within, ReadTypeOK
<1>4. chunk = Positions(offset, n)
  BY <1>2, <1>3, ChunkFacts
<1>5. Len(chunk) = n /\ Members(chunk) = offset..(offset + n - 1)
  <2>1. PICK o : o = offset
    OBVIOUS
  <2>2. Len(chunk) = n /\ Members(chunk) = o..(o + n - 1)
    BY <1>3, <1>4, <2>1, PositionsFacts
  <2> QED
    BY <2>1, <2>2
<1>6. /\ m = [read EXCEPT ![r].phase = "done"]
      /\ offset' = offset + n
      /\ closed' = (closed \/ offset' = Total)
      /\ IF read[r].phase = "cancelled"
         THEN discarded' = discarded \cup Members(chunk) /\ UNCHANGED delivered
         ELSE delivered' = delivered \o chunk /\ UNCHANGED discarded
  BY <1>2, <1>5 DEF ChunkArrives, Advance, Members
<1>7. PICK o2 : o2 = offset'
  OBVIOUS
<1>8. o2 \in 0..Total /\ o2 = offset + n
  BY <1>3, <1>6, <1>7, StreamAssumption
<1>9. PICK d2, x2 : d2 = delivered' /\ x2 = discarded'
  OBVIOUS
<1>10. /\ delivered \in Seq(Nat)
       /\ \A j, k \in DOMAIN delivered : j < k => delivered[j] < delivered[k]
       /\ Members(delivered) \cup discarded = 0..(offset - 1)
  BY <1>1 DEF ReadTypeOK, InOrder
<1>11. (0..(offset - 1)) \cup (offset..(offset + n - 1)) = 0..(o2 - 1)
  BY <1>3, <1>8
<1>12. /\ d2 \in Seq(Nat)
       /\ \A j, k \in DOMAIN d2 : j < k => d2[j] < d2[k]
       /\ Members(d2) \cup x2 = 0..(o2 - 1)
  <2>1. CASE read[r].phase = "cancelled"
    <3>1. d2 = delivered /\ x2 = discarded \cup Members(chunk)
      BY <1>6, <1>9, <2>1
    <3>2. x2 = discarded \cup (offset..(offset + n - 1))
      BY <1>5, <3>1
    <3> QED
      BY <1>10, <1>11, <3>1, <3>2
  <2>2. CASE read[r].phase # "cancelled"
    <3>1. d2 = delivered \o chunk /\ x2 = discarded
      BY <1>6, <1>9, <2>2
    <3>2. /\ d2 \in Seq(Nat)
          /\ \A j, k \in DOMAIN d2 : j < k => d2[j] < d2[k]
          /\ Members(d2) = Members(delivered) \cup (offset..(offset + n - 1))
      <4>1. PICK o : o = offset
        OBVIOUS
      <4>2. o \in Nat /\ chunk = Positions(o, n) /\ Members(delivered) \subseteq 0..(o - 1)
        BY <1>3, <1>4, <1>10, <4>1
      <4>3. PICK d : d = delivered
        OBVIOUS
      <4>4. d \in Seq(Nat) /\ Members(d) \subseteq 0..(o - 1)
        BY <1>10, <4>2, <4>3
      <4>5. \A j, k \in DOMAIN d : j < k => d[j] < d[k]
        BY <1>10, <4>3
      <4>6. d2 = d \o chunk /\ n \in Nat
        BY <1>3, <3>1, <4>3
      <4>7. d2 \in Seq(Nat)
        BY <4>2, <4>4, <4>5, <4>6, ChunkAppended
      <4>8. \A j, k \in DOMAIN d2 : j < k => d2[j] < d2[k]
        BY <4>2, <4>4, <4>5, <4>6, ChunkAppended
      <4>9. Members(d2) = Members(d) \cup (o..(o + n - 1))
        BY <4>2, <4>4, <4>5, <4>6, ChunkAppended
      <4> QED
        BY <4>1, <4>3, <4>7, <4>8, <4>9
    <3> QED
      BY <1>10, <1>11, <3>1, <3>2
  <2> QED
    BY <2>1, <2>2
<1>13. /\ m \in [Reads -> [phase : {"idle", "asked", "cancelled", "done"}, from : Nat, count : Nat]]
       /\ m[r].phase = "done" /\ m[r].from = read[r].from /\ m[r].count = read[r].count
       /\ \A q \in Reads \ {r} : m[q] = read[q]
  BY <1>1, <1>6 DEF ReadTypeOK
<1>14. ReadTypeOK'
  <2>1. closed' \in BOOLEAN
    BY <1>1, <1>6 DEF ReadTypeOK
  <2> QED
    BY <1>2, <1>7, <1>8, <1>9, <1>12, <1>13, <2>1 DEF ReadTypeOK
<1>15. OneUnderWay'
  <2>1. UnderWay' = {}
    BY <1>2, <1>3, <1>13 DEF UnderWay
  <2> QED
    BY <2>1 DEF OneUnderWay
<1>16. Within'
  BY <1>1, <1>2, <1>13 DEF Within
<1>17. InOrder'
  BY <1>7, <1>9, <1>12 DEF InOrder
<1>18. ClosedAtEnd'
  <2>1. \E q \in Reads : m[q].phase = "done"
    BY <1>13
  <2>2. closed => o2 = Total
    BY <1>1, <1>3, <1>8 DEF ClosedAtEnd, ReadTypeOK
  <2> QED
    BY <1>1, <1>2, <1>6, <1>7, <2>1, <2>2 DEF ClosedAtEnd, ReadTypeOK
<1> QED
  BY <1>14, <1>15, <1>16, <1>17, <1>18

(* At the start nothing was read.                                          *)
LEMMA ReadInvInit == StreamInit => ReadInv
<1> SUFFICES ASSUME StreamInit PROVE ReadTypeOK /\ OneUnderWay /\ Within /\ InOrder /\ ClosedAtEnd
  BY DEF ReadInv
<1>1. /\ offset = 0 /\ read = [r \in Reads |-> Idle] /\ closed = FALSE
      /\ delivered = <<>> /\ discarded = {}
  BY DEF StreamInit
<1>2. \A r \in Reads : read[r].phase = "idle" /\ read[r].from = 0 /\ read[r].count = 0
  BY <1>1 DEF Idle
<1>3. ReadTypeOK
  <2>1. <<>> \in Seq(Nat)
    OBVIOUS
  <2>2. read \in [Reads -> [phase : {"idle", "asked", "cancelled", "done"}, from : Nat, count : Nat]]
    BY <1>1 DEF Idle
  <2>3. offset \in 0..Total
    BY <1>1, StreamAssumption
  <2>5. closed \in BOOLEAN
    BY <1>1
  <2>4. delivered \in Seq(Nat)
    BY <1>1, <2>1
  <2> QED
    BY <2>2, <2>3, <2>4, <2>5 DEF ReadTypeOK
<1>4. OneUnderWay
  BY <1>2 DEF OneUnderWay, UnderWay
<1>5. Within
  BY <1>2, StreamAssumption DEF Within
<1>6. InOrder
  <2>1. DOMAIN delivered = {}
    BY <1>1
  <2>2. 0..(offset - 1) = {}
    BY <1>1
  <2> QED
    BY <1>1, <2>1, <2>2 DEF InOrder, Members
<1>7. ClosedAtEnd
  BY <1>1, <1>2 DEF ClosedAtEnd
<1> QED
  BY <1>3, <1>4, <1>5, <1>6, <1>7

(* Every step keeps ReadInv.                                               *)
LEMMA ReadInvNext == ReadInv /\ [StreamNext]_streamVars => ReadInv'
<1> SUFFICES ASSUME ReadInv, [StreamNext]_streamVars PROVE ReadInv'
  OBVIOUS
<1>1. ASSUME UNCHANGED readVars PROVE ReadInv'
  BY <1>1 DEF readVars, ReadInv, ReadTypeOK, OneUnderWay, UnderWay, Within, InOrder, ClosedAtEnd
<1>2. CASE UNCHANGED streamVars
  BY <1>1, <1>2 DEF streamVars
<1>3. ASSUME NEW s \in Streams, BeginTransmit(s) \/ getDotNetStreamPromise(s) \/ TransmitStreamAsync(s)
      PROVE  ReadInv'
  BY <1>1, <1>3 DEF BeginTransmit, getDotNetStreamPromise, TransmitStreamAsync
<1> QED
  BY <1>2, <1>3, ReadAsyncKeeps, CancelReadKeeps, ChunkArrivesKeeps DEF StreamNext

(* For streams of any length and reads of any size: as long as no read     *)
(* starts before the one before it has ended, .NET gets the bytes of the   *)
(* stream in order and each one once, but for those of cancelled reads,    *)
(* and the last one closes the stream (RequestDataFromJSAsync,             *)
(* getNextChunk).                                                          *)
THEOREM StreamsReadInOrder == StreamSpec => []ReadsInOrder
<1>1. ReadInv => ReadsInOrder
  <2> SUFFICES ASSUME ReadInv, ~overlapped
               PROVE  /\ \A j, k \in DOMAIN delivered : j < k => delivered[j] < delivered[k]
                      /\ {delivered[k] : k \in DOMAIN delivered} \cup discarded = 0 .. offset - 1
                      /\ closed <=> offset = Total /\ \E r \in Reads : read[r].phase = "done"
                      /\ \A r \in Reads : Len(getNextChunk(read[r].from, read[r].count)) = read[r].count
    BY DEF ReadsInOrder
  <2>1. ReadTypeOK /\ Within /\ InOrder /\ ClosedAtEnd
    BY DEF ReadInv
  <2>2. ASSUME NEW r \in Reads PROVE Len(getNextChunk(read[r].from, read[r].count)) = read[r].count
    <3>1. PICK f, n : f = read[r].from /\ n = read[r].count
      OBVIOUS
    <3>2. f \in Nat /\ n \in Nat /\ f + n <= Total
      BY <2>1, <3>1 DEF ReadTypeOK, Within
    <3>3. Len(getNextChunk(f, n)) = n
      BY <3>2, ChunkFacts, PositionsFacts
    <3> QED
      BY <3>1, <3>3
  <2> QED
    BY <2>1, <2>2 DEF InOrder, Members, ClosedAtEnd
<1> QED
  BY <1>1, ReadInvInit, ReadInvNext, PTL DEF StreamSpec

-----------------------------------------------------------------------------
(* Event delegation: what is counted, and the document's listeners.        *)

(* The name of the browser's event for the event n, when the aliases A are *)
(* registered.                                                             *)
Browser(A, n) == IF n \in A THEN Target ELSE n

(* The places of F whose browser event is n, and how many claim a listener *)
(* for it, by a handler or a flag.                                         *)
Mine(A, F, n) == {p \in F : Browser(A, p[2]) = n}

(* How many claim a listener for n, by a handler or by a flag.             *)
Claims(A, H, S, P, n) ==
  Cardinality(Mine(A, H, n)) + Cardinality(Mine(A, S, n)) + Cardinality(Mine(A, P, n))

(* What addEventListener is told.                                          *)
Listeners == [name : Names, capture : BOOLEAN, active : BOOLEAN]

(* A listener for n whose call may prevent the default action.             *)
ListensActively(n, L) == \E l \in L : l.name = n /\ l.capture = (n \in NonBubbling) /\ l.active

(* Aliases are not counted by their own name; every other name counts at   *)
(* least its claims, has a listener while it is counted, and an active one *)
(* where a flag asked for it.                                              *)
Accounts(A, lt, H, S, P, c, L) ==
  /\ A \subseteq Aliases /\ H \subseteq Places /\ S \subseteq Places /\ P \subseteq Places
  /\ c \in [Names -> Nat \cup {NaN}]
  /\ L \subseteq Listeners
  /\ \A a \in A : c[a] \in {0, NaN}
  /\ \A n \in Names \ A : c[n] # NaN /\ c[n] >= Claims(A, H, S, P, n)
  /\ \A l \in L : l.capture = (l.name \in NonBubbling) /\ (l.capture => l.active)
  /\ \A n \in Names : c[n] \notin {0, NaN} => ListensTo(n, L)
  /\ \A n \in Names : c[n] = 0 => \A l \in L : l.name = n => l.capture
  /\ \A p \in P : p[2] \notin lt => ListensActively(Browser(A, p[2]), L)

(* The claims grow by at most one, for b; shrink by one at least, for n.   *)
OneMore(A, H, S, H2, S2, P, b) ==
  \A m \in Names : Claims(A, H2, S2, P, m) <= Claims(A, H, S, P, m) + (IF m = b THEN 1 ELSE 0)

OneLess(A, H, S, P, H2, S2, P2, n) ==
  \A m \in Names \ A :
    Claims(A, H2, S2, P2, m) <= Claims(A, H, S, P, m) - (IF m = n THEN 1 ELSE 0)

(* addEventListener with a listener that is not passive.                   *)
Listening(L, b) == Listen(L, b, TRUE)

(* addActiveGlobalListener, when the name is counted or not.               *)
Relistened(L, b, counted) == Listening(IF counted THEN Unlisten(L, b) ELSE L, b)

(* The claims shrink by f at least.                                        *)
ManyLess(A, H, S, P, H2, S2, P2, f) ==
  \A m \in Names \ A : Claims(A, H2, S2, P2, m) <= Claims(A, H, S, P, m) - f[m]

(* The counts, once f of each name is given back.                          *)
Reduced(c, f) == [m \in Names |-> IF c[m] = NaN THEN NaN ELSE c[m] - f[m]]

(* The listeners that remain then.                                         *)
Unlistened(L, c, f) ==
  {l \in L : l.name \notin {m \in Names : f[m] # 0 /\ c[m] = f[m]} \/ l.capture}

(* addGlobalListener counts.                                               *)
Incremented(c, b) == [c EXCEPT ![b] = Plus(@, 1)]

(* decrementCountByEventName counts.                                       *)
Decremented(c, n) == [c EXCEPT ![n] = IF @ \in {0, NaN} THEN NaN ELSE @ - 1]

(* What the names of events are, when the aliases A are registered.        *)
LEMMA NameFacts ==
  /\ IsFiniteSet(Places) /\ Target \in Names /\ Target \notin Aliases
  /\ \A A \in SUBSET Aliases, n \in Names :
       Browser(A, n) \in Names \ A
  /\ Aliases \subseteq Names /\ NonBubbling \subseteq Names
  /\ Passive \cap NonBubbling = {}
<1>1. IsFiniteSet(Names)
  BY EventAssumption, FS_Union DEF Names
<1>2. IsFiniteSet(Nested)
  <2>1. Depth \in Int /\ 1 \in Int
    BY EventAssumption
  <2> QED
    BY <2>1, FS_Interval DEF Nested
<1>3. IsFiniteSet(Places)
  BY <1>1, <1>2, FS_Product DEF Places
<1> QED
  BY <1>3, EventAssumption DEF Names, Browser

(* There are finitely many places that need the browser's event n.         *)
LEMMA MineFinite ==
  ASSUME NEW A, NEW F \in SUBSET Places, NEW n
  PROVE  IsFiniteSet(Mine(A, F, n)) /\ Cardinality(Mine(A, F, n)) \in Nat
<1>1. Mine(A, F, n) \in SUBSET Places
  BY DEF Mine
<1> QED
  BY <1>1, NameFacts, FS_Subset, FS_CardinalityType

(* Fewer places, fewer that need n.                                        *)
LEMMA MineFewer ==
  ASSUME NEW A, NEW F \in SUBSET Places, NEW G \in SUBSET F, NEW n
  PROVE  Cardinality(Mine(A, G, n)) <= Cardinality(Mine(A, F, n))
<1>1. Mine(A, G, n) \in SUBSET Mine(A, F, n)
  BY DEF Mine
<1> QED
  BY <1>1, MineFinite, FS_Subset

(* One more place.                                                         *)
LEMMA MineAdded ==
  ASSUME NEW A, NEW F \in SUBSET Places, NEW p \in Places, NEW G, G = F \cup {p}, NEW n
  PROVE  Cardinality(Mine(A, G, n))
           <= Cardinality(Mine(A, F, n)) + (IF Browser(A, p[2]) = n THEN 1 ELSE 0)
<1>1. IsFiniteSet(Mine(A, F, n)) /\ Cardinality(Mine(A, F, n)) \in Nat
  BY MineFinite
<1>2. CASE Browser(A, p[2]) = n
  <2>1. Mine(A, G, n) = Mine(A, F, n) \cup {p}
    BY <1>2 DEF Mine
  <2>2. PICK M : M = Mine(A, F, n)
    OBVIOUS
  <2>3. Cardinality(M \cup {p}) = IF p \in M THEN Cardinality(M) ELSE Cardinality(M) + 1
    BY <1>1, <2>2, FS_AddElement
  <2>4. Cardinality(M) \in Nat /\ Mine(A, G, n) = M \cup {p}
    BY <1>1, <2>1, <2>2
  <2>5. Cardinality(M \cup {p}) <= Cardinality(M) + 1
    BY <2>3, <2>4
  <2>6. Cardinality(Mine(A, G, n)) <= Cardinality(Mine(A, F, n)) + 1
    BY <2>2, <2>4, <2>5
  <2> QED
    BY <1>2, <2>6
<1>3. CASE Browser(A, p[2]) # n
  <2>1. Mine(A, G, n) = Mine(A, F, n)
    BY <1>3 DEF Mine
  <2>2. Cardinality(Mine(A, G, n)) = Cardinality(Mine(A, F, n)) + 0
    BY <1>1, <2>1
  <2> QED
    BY <1>1, <1>3, <2>2
<1> QED
  BY <1>2, <1>3

(* One place fewer.                                                        *)
LEMMA MineRemoved ==
  ASSUME NEW A, NEW F \in SUBSET Places, NEW p \in F, NEW G, G = F \ {p}, NEW n
  PROVE  Cardinality(Mine(A, G, n))
           = Cardinality(Mine(A, F, n)) - (IF Browser(A, p[2]) = n THEN 1 ELSE 0)
<1>1. IsFiniteSet(Mine(A, F, n)) /\ Cardinality(Mine(A, F, n)) \in Nat
  BY MineFinite
<1>2. CASE Browser(A, p[2]) = n
  <2>1. Mine(A, G, n) = Mine(A, F, n) \ {p} /\ p \in Mine(A, F, n)
    BY <1>2 DEF Mine
  <2>2. PICK M : M = Mine(A, F, n)
    OBVIOUS
  <2>3. Cardinality(M \ {p}) = IF p \in M THEN Cardinality(M) - 1 ELSE Cardinality(M)
    BY <1>1, <2>2, FS_RemoveElement
  <2> QED
    BY <1>1, <1>2, <2>1, <2>2, <2>3
<1>3. CASE Browser(A, p[2]) # n
  <2>1. Mine(A, G, n) = Mine(A, F, n)
    BY <1>3 DEF Mine
  <2>2. Cardinality(Mine(A, G, n)) = Cardinality(Mine(A, F, n)) + 0
    BY <1>1, <2>1
  <2> QED
    BY <1>1, <1>3, <2>2
<1> QED
  BY <1>2, <1>3

(* The claims are counted by a number.                                     *)
LEMMA ClaimsNat ==
  ASSUME NEW A, NEW H \in SUBSET Places, NEW S \in SUBSET Places, NEW P \in SUBSET Places, NEW n
  PROVE  Claims(A, H, S, P, n) \in Nat
  BY MineFinite DEF Claims

(* A place with a handler or a flag is a claim.                            *)
LEMMA Claimed ==
  ASSUME NEW A, NEW H \in SUBSET Places, NEW S \in SUBSET Places, NEW P \in SUBSET Places,
         NEW n, NEW p \in H \cup S \cup P, n = Browser(A, p[2])
  PROVE  Claims(A, H, S, P, n) # 0
<1>1. PICK h, s, q : /\ h = Cardinality(Mine(A, H, n)) /\ s = Cardinality(Mine(A, S, n))
                     /\ q = Cardinality(Mine(A, P, n))
  OBVIOUS
<1>2. h \in Nat /\ s \in Nat /\ q \in Nat
  BY <1>1, MineFinite
<1>3. ASSUME NEW F \in SUBSET Places, p \in F PROVE Cardinality(Mine(A, F, n)) # 0
  <2>1. p \in Mine(A, F, n)
    BY <1>3 DEF Mine
  <2>2. IsFiniteSet(Mine(A, F, n))
    BY MineFinite
  <2>3. PICK M : M = Mine(A, F, n)
    OBVIOUS
  <2>4. Cardinality(M) = 0 <=> M = {}
    BY <2>2, <2>3, FS_EmptySet
  <2> QED
    BY <2>1, <2>3, <2>4
<1>4. h # 0 \/ s # 0 \/ q # 0
  BY <1>1, <1>3
<1>5. h + s + q # 0
  BY <1>2, <1>4
<1> QED
  BY <1>1, <1>5 DEF Claims

(* A listener is added.                                                    *)
LEMMA ListenFacts ==
  ASSUME NEW L \in SUBSET Listeners, NEW b \in Names, NEW active \in BOOLEAN
  PROVE  /\ Listen(L, b, active) \subseteq Listeners /\ L \subseteq Listen(L, b, active)
         /\ \A l \in Listen(L, b, active) :
              l \in L \/ (l.name = b /\ l.capture = (b \in NonBubbling) /\ l.active = active)
<1>1. CASE \E l \in L : l.name = b /\ l.capture = (b \in NonBubbling)
  BY <1>1 DEF Listen
<1>2. CASE ~\E l \in L : l.name = b /\ l.capture = (b \in NonBubbling)
  <2>1. PICK l : l = [name |-> b, capture |-> (b \in NonBubbling), active |-> active]
    OBVIOUS
  <2>2. Listen(L, b, active) = L \cup {l}
    BY <1>2, <2>1 DEF Listen
  <2>3. l.name = b /\ l.capture = (b \in NonBubbling) /\ l.active = active
    BY <2>1
  <2>4. l \in Listeners
    BY <2>1 DEF Listeners
  <2> QED
    BY <2>2, <2>3, <2>4
<1> QED
  BY <1>1, <1>2

(* addEventListener listens; actively, when no listener of that name is    *)
(* there.                                                                  *)
LEMMA ListensAdded ==
  ASSUME NEW L \in SUBSET Listeners, NEW b \in Names, NEW active \in BOOLEAN,
         NEW L2, L2 = Listen(L, b, active)
  PROVE  /\ ListensTo(b, L2)
         /\ (\A l \in L : ~(l.name = b /\ l.capture = (b \in NonBubbling))) /\ active => ListensActively(b, L2)
<1>1. CASE \E l \in L : l.name = b /\ l.capture = (b \in NonBubbling)
  BY <1>1 DEF Listen, ListensTo
<1>2. CASE ~\E l \in L : l.name = b /\ l.capture = (b \in NonBubbling)
  <2>1. PICK l : l = [name |-> b, capture |-> (b \in NonBubbling), active |-> active]
    OBVIOUS
  <2>2. l \in L2
    BY <1>2, <2>1 DEF Listen
  <2>3. l.name = b /\ l.capture = (b \in NonBubbling) /\ l.active = active
    BY <2>1
  <2> QED
    BY <2>2, <2>3 DEF ListensTo, ListensActively
<1> QED
  BY <1>1, <1>2

(* Only the listeners that do not capture are removed.                     *)
LEMMA UnlistenFacts ==
  ASSUME NEW L, NEW b
  PROVE  /\ Unlisten(L, b) \subseteq L
         /\ \A l \in L : l.name # b => l \in Unlisten(L, b)
         /\ \A l \in Unlisten(L, b) : l.name = b => l.capture
  BY DEF Unlisten

(* More listeners listen to no less.                                       *)
LEMMA ListensMore ==
  ASSUME NEW L, NEW L2, L \subseteq L2
  PROVE  /\ \A m : ListensTo(m, L) => ListensTo(m, L2)
         /\ \A m : ListensActively(m, L) => ListensActively(m, L2)
  BY DEF ListensTo, ListensActively

(* A claim is counted for a listener of the usual mode.                    *)
LEMMA GlobalCounted ==
  ASSUME NEW A, NEW lt, NEW H, NEW S, NEW P, NEW c, NEW L, Accounts(A, lt, H, S, P, c, L),
         NEW n \in Names, NEW b, b = Browser(A, n),
         NEW H2 \in SUBSET Places, NEW S2 \in SUBSET Places,
         OneMore(A, H, S, H2, S2, P, b),
         NEW c2, c2 = Incremented(c, b),
         NEW L2, L2 = IF c[b] # 0 THEN L ELSE Listen(L, b, b \notin Passive)
  PROVE  Accounts(A, lt, H2, S2, P, c2, L2)
<1>0. /\ A \in SUBSET Aliases /\ H \in SUBSET Places /\ S \in SUBSET Places /\ P \in SUBSET Places
      /\ c \in [Names -> Nat \cup {NaN}] /\ L \in SUBSET Listeners
      /\ \A m \in Names \ A : c[m] # NaN /\ c[m] >= Claims(A, H, S, P, m)
  BY DEF Accounts
<1>1. b \in Names \ A /\ (b \in Passive => b \notin NonBubbling)
  BY <1>0, NameFacts
<1>2. /\ c2 \in [Names -> Nat \cup {NaN}]
      /\ c2[b] = c[b] + 1 /\ c[b] \in Nat
      /\ \A m \in Names \ {b} : c2[m] = c[m]
  BY <1>0, <1>1 DEF Incremented, Plus, NaN
<1>3. PICK active \in BOOLEAN : active = (b \notin Passive)
  OBVIOUS
<1>4. /\ L2 \subseteq Listeners /\ L \subseteq L2 /\ ListensTo(b, L2)
      /\ \A l \in L2 : l \in L \/ (l.name = b /\ l.capture = (b \in NonBubbling) /\ l.active = active)
  <2>1. CASE c[b] # 0
    BY <1>0, <1>1, <1>2, <2>1 DEF Accounts, NaN
  <2>2. CASE c[b] = 0
    <3>1. L2 = Listen(L, b, active)
      BY <1>3, <2>2
    <3>2. Listen(L, b, active) \subseteq Listeners
      BY <1>0, <1>1, ListenFacts
    <3>3. L \subseteq Listen(L, b, active)
      BY <1>0, <1>1, ListenFacts
    <3>4. \A l \in Listen(L, b, active) :
            l \in L \/ (l.name = b /\ l.capture = (b \in NonBubbling) /\ l.active = active)
      BY <1>0, <1>1, ListenFacts
    <3>5. ListensTo(b, L2)
      BY <1>0, <1>1, <3>1, ListensAdded
    <3> QED
      BY <3>1, <3>2, <3>3, <3>4, <3>5
  <2> QED
    BY <2>1, <2>2
<1>5. /\ \A m : ListensTo(m, L) => ListensTo(m, L2)
      /\ \A m : ListensActively(m, L) => ListensActively(m, L2)
  BY <1>4, ListensMore
<1>6. \A m \in Names \ A : c2[m] # NaN /\ c2[m] >= Claims(A, H2, S2, P, m)
  <2> SUFFICES ASSUME NEW m \in Names \ A
               PROVE  c2[m] # NaN /\ c2[m] >= Claims(A, H2, S2, P, m)
    OBVIOUS
  <2>1. Claims(A, H, S, P, m) \in Nat /\ Claims(A, H2, S2, P, m) \in Nat
    BY <1>0, ClaimsNat
  <2>2. c[m] \in Nat /\ c[m] >= Claims(A, H, S, P, m)
    BY <1>0
  <2>3. Claims(A, H2, S2, P, m) <= Claims(A, H, S, P, m) + (IF m = b THEN 1 ELSE 0)
    BY DEF OneMore
  <2> QED
    BY <1>1, <1>2, <2>1, <2>2, <2>3 DEF NaN
<1>7. \A a \in A : c2[a] \in {0, NaN}
  BY <1>0, <1>1, <1>2, NameFacts DEF Accounts
<1>8. \A l \in L2 : l.capture = (l.name \in NonBubbling) /\ (l.capture => l.active)
  BY <1>1, <1>3, <1>4 DEF Accounts
<1>9. \A m \in Names : c2[m] \notin {0, NaN} => ListensTo(m, L2)
  BY <1>2, <1>4, <1>5 DEF Accounts
<1>10. \A m \in Names : c2[m] = 0 => \A l \in L2 : l.name = m => l.capture
  <2>1. c2[b] # 0
    BY <1>2
  <2> QED
    BY <1>2, <1>4, <2>1 DEF Accounts
<1>11. \A p \in P : p[2] \notin lt => ListensActively(Browser(A, p[2]), L2)
  BY <1>5 DEF Accounts
<1> QED
  BY <1>0, <1>2, <1>4, <1>6, <1>7, <1>8, <1>9, <1>10, <1>11 DEF Accounts

(* An active listener is added.                                            *)
LEMMA ActiveAdded ==
  ASSUME NEW L \in SUBSET Listeners, NEW b \in Names, NEW r, r = Listening(L, b)
  PROVE  /\ r \subseteq Listeners /\ L \subseteq r
         /\ \A l \in r : l \in L \/ (l.name = b /\ l.capture = (b \in NonBubbling) /\ l.active)
         /\ \E l \in r : l.name = b /\ l.capture = (b \in NonBubbling) /\ (l \notin L => l.active)
<1>1. CASE \E l \in L : l.name = b /\ l.capture = (b \in NonBubbling)
  <2>1. r = L
    BY <1>1 DEF Listen, Listening
  <2> QED
    BY <1>1, <2>1
<1>2. CASE ~\E l \in L : l.name = b /\ l.capture = (b \in NonBubbling)
  <2>1. PICK l : l = [name |-> b, capture |-> (b \in NonBubbling), active |-> TRUE]
    OBVIOUS
  <2>2. r = L \cup {l}
    BY <1>2, <2>1 DEF Listen, Listening
  <2>3. l.name = b /\ l.capture = (b \in NonBubbling) /\ l.active
    BY <2>1
  <2>4. l \in Listeners
    BY <2>1 DEF Listeners
  <2> QED
    BY <2>2, <2>3, <2>4
<1> QED
  BY <1>1, <1>2

(* A claim is counted for an active listener.                              *)
LEMMA ActiveCounted ==
  ASSUME NEW A, NEW lt, NEW H, NEW S, NEW P, NEW c, NEW L, Accounts(A, lt, H, S, P, c, L),
         NEW p \in Places, NEW b, b = Browser(A, p[2]), NEW P2, P2 = P \cup {p},
         NEW c2, c2 = Incremented(c, b),
         NEW L2, L2 = Relistened(L, b, c[b] # 0)
  PROVE  Accounts(A, lt, H, S, P2, c2, L2)
<1>0. /\ A \in SUBSET Aliases /\ H \in SUBSET Places /\ S \in SUBSET Places /\ P \in SUBSET Places
      /\ c \in [Names -> Nat \cup {NaN}] /\ L \in SUBSET Listeners
      /\ \A m \in Names \ A : c[m] # NaN /\ c[m] >= Claims(A, H, S, P, m)
      /\ \A l \in L : l.capture = (l.name \in NonBubbling) /\ (l.capture => l.active)
  BY DEF Accounts
<1>1. b \in Names \ A
  BY <1>0, NameFacts DEF Places
<1>2. /\ c2 \in [Names -> Nat \cup {NaN}]
      /\ c2[b] = c[b] + 1 /\ c[b] \in Nat
      /\ \A m \in Names \ {b} : c2[m] = c[m]
  BY <1>0, <1>1 DEF Incremented, Plus, NaN
<1>3. PICK K : K = IF c[b] # 0 THEN Unlisten(L, b) ELSE L
  OBVIOUS
<1>4. /\ K \in SUBSET L
      /\ \A l \in L : l.name # b => l \in K
      /\ \A l \in K : l.name = b => l.capture
  <2>1. CASE c[b] # 0
    <3>1. K = Unlisten(L, b)
      BY <1>3, <2>1
    <3>2. /\ Unlisten(L, b) \subseteq L
          /\ \A l \in L : l.name # b => l \in Unlisten(L, b)
          /\ \A l \in Unlisten(L, b) : l.name = b => l.capture
      BY <1>0, UnlistenFacts
    <3> QED
      BY <3>1, <3>2
  <2>2. CASE c[b] = 0
    BY <1>1, <1>3, <2>2 DEF Accounts
  <2> QED
    BY <2>1, <2>2
<1>5. /\ L2 \subseteq Listeners /\ K \subseteq L2
      /\ \A l \in L2 : l \in K \/ (l.name = b /\ l.capture = (b \in NonBubbling) /\ l.active)
      /\ \E l \in L2 : l.name = b /\ l.capture = (b \in NonBubbling) /\ (l \notin K => l.active)
  <2>1. L2 = Listening(K, b)
    BY <1>3 DEF Relistened
  <2>2. K \in SUBSET Listeners /\ b \in Names
    BY <1>0, <1>1, <1>4
  <2>3. L2 \subseteq Listeners /\ K \subseteq L2
    BY <2>1, <2>2, ActiveAdded
  <2>4. \A l \in L2 : l \in K \/ (l.name = b /\ l.capture = (b \in NonBubbling) /\ l.active)
    BY <2>1, <2>2, ActiveAdded
  <2>5. \E l \in L2 : l.name = b /\ l.capture = (b \in NonBubbling) /\ (l \notin K => l.active)
    BY <2>1, <2>2, ActiveAdded
  <2> QED
    BY <2>3, <2>4, <2>5
<1>6. ListensTo(b, L2) /\ ListensActively(b, L2)
  BY <1>0, <1>4, <1>5 DEF ListensTo, ListensActively
<1>7. \A m : ListensTo(m, L) => ListensTo(m, L2)
  <2> SUFFICES ASSUME NEW m, ListensTo(m, L), m # b PROVE ListensTo(m, L2)
    BY <1>6
  <2> QED
    BY <1>4, <1>5 DEF ListensTo
<1>8. \A m : ListensActively(m, L) => ListensActively(m, L2)
  <2> SUFFICES ASSUME NEW m, ListensActively(m, L), m # b PROVE ListensActively(m, L2)
    BY <1>6
  <2> QED
    BY <1>4, <1>5 DEF ListensActively
<1>9. \A m \in Names \ A : c2[m] # NaN /\ c2[m] >= Claims(A, H, S, P2, m)
  <2> SUFFICES ASSUME NEW m \in Names \ A
               PROVE  c2[m] # NaN /\ c2[m] >= Claims(A, H, S, P2, m)
    OBVIOUS
  <2>1. PICK h, s, k, k2 : /\ h = Cardinality(Mine(A, H, m)) /\ s = Cardinality(Mine(A, S, m))
                           /\ k = Cardinality(Mine(A, P, m)) /\ k2 = Cardinality(Mine(A, P2, m))
    OBVIOUS
  <2>2. h \in Nat /\ s \in Nat /\ k \in Nat /\ k2 \in Nat
    <3>1. P2 \in SUBSET Places
      BY <1>0
    <3> QED
      BY <1>0, <2>1, <3>1, MineFinite
  <2>3. k2 <= k + (IF b = m THEN 1 ELSE 0)
    BY <1>0, <2>1, MineAdded
  <2>4. c[m] \in Nat /\ c[m] >= h + s + k
    BY <1>0, <2>1 DEF Claims
  <2>5. c2[m] # NaN /\ c2[m] >= h + s + k2
    BY <1>1, <1>2, <2>2, <2>3, <2>4 DEF NaN
  <2> QED
    BY <2>1, <2>5 DEF Claims
<1>10. \A a \in A : c2[a] \in {0, NaN}
  BY <1>0, <1>1, <1>2, NameFacts DEF Accounts
<1>11. \A l \in L2 : l.capture = (l.name \in NonBubbling) /\ (l.capture => l.active)
  BY <1>0, <1>4, <1>5
<1>12. \A m \in Names : c2[m] \notin {0, NaN} => ListensTo(m, L2)
  BY <1>2, <1>6, <1>7 DEF Accounts
<1>13. \A m \in Names : c2[m] = 0 => \A l \in L2 : l.name = m => l.capture
  <2> SUFFICES ASSUME NEW m \in Names, c2[m] = 0, NEW l \in L2, l.name = m PROVE l.capture
    OBVIOUS
  <2>1. m # b
    BY <1>2
  <2>2. c[m] = 0 /\ l \in L
    BY <1>2, <1>4, <1>5, <2>1
  <2> QED
    BY <2>2 DEF Accounts
<1>14. \A q \in P2 : q[2] \notin lt => ListensActively(Browser(A, q[2]), L2)
  BY <1>6, <1>8 DEF Accounts
<1> QED
  BY <1>0, <1>2, <1>5, <1>9, <1>10, <1>11, <1>12, <1>13, <1>14 DEF Accounts

(* A claim is given back.                                                  *)
LEMMA ClaimGivenBack ==
  ASSUME NEW A, NEW lt, NEW H, NEW S, NEW P, NEW c, NEW L, Accounts(A, lt, H, S, P, c, L),
         NEW n \in Names,
         NEW H2 \in SUBSET H, NEW S2 \in SUBSET S, NEW P2 \in SUBSET P,
         OneLess(A, H, S, P, H2, S2, P2, n),
         NEW c2, c2 = Decremented(c, n),
         NEW L2, L2 = IF c[n] = 1 THEN Unlisten(L, n) ELSE L
  PROVE  Accounts(A, lt, H2, S2, P2, c2, L2)
<1>0. /\ A \in SUBSET Aliases /\ H \in SUBSET Places /\ S \in SUBSET Places /\ P \in SUBSET Places
      /\ c \in [Names -> Nat \cup {NaN}] /\ L \in SUBSET Listeners
      /\ \A m \in Names \ A : c[m] # NaN /\ c[m] >= Claims(A, H, S, P, m)
      /\ \A a \in A : c[a] \in {0, NaN}
      /\ \A l \in L : l.capture = (l.name \in NonBubbling) /\ (l.capture => l.active)
      /\ A \subseteq Names
  BY NameFacts DEF Accounts
<1>1. \A m \in Names : c[m] \in Nat \cup {NaN}
  BY <1>0
<1>2. /\ c2 \in [Names -> Nat \cup {NaN}]
      /\ \A m \in Names \ {n} : c2[m] = c[m]
      /\ c2[n] = IF c[n] \in {0, NaN} THEN NaN ELSE c[n] - 1
  BY <1>0, <1>1 DEF Decremented, NaN
<1>3. /\ L2 \in SUBSET L
      /\ \A l \in L : l.name # n => l \in L2
      /\ c[n] = 1 => \A l \in L2 : l.name = n => l.capture
      /\ c[n] # 1 => L2 = L
  <2>1. /\ Unlisten(L, n) \subseteq L
        /\ \A l \in L : l.name # n => l \in Unlisten(L, n)
        /\ \A l \in Unlisten(L, n) : l.name = n => l.capture
    BY UnlistenFacts
  <2> QED
    BY <2>1
<1>4. ASSUME NEW m \in Names \ A
      PROVE  /\ c2[m] # NaN /\ c2[m] >= Claims(A, H2, S2, P2, m)
             /\ m = n => c[m] # 0
             /\ m = n /\ c[m] = 1 => Claims(A, H2, S2, P2, m) = 0
  <2>1. Claims(A, H, S, P, m) \in Nat /\ Claims(A, H2, S2, P2, m) \in Nat
    <3>1. H2 \in SUBSET Places /\ S2 \in SUBSET Places /\ P2 \in SUBSET Places
      BY <1>0
    <3> QED
      BY <1>0, <3>1, ClaimsNat
  <2>2. c[m] \in Nat /\ c[m] >= Claims(A, H, S, P, m)
    BY <1>0
  <2>3. Claims(A, H2, S2, P2, m) <= Claims(A, H, S, P, m) - (IF m = n THEN 1 ELSE 0)
    BY DEF OneLess
  <2>4. CASE m = n
    <3>1. /\ c[m] # 0 /\ c[m] - 1 >= Claims(A, H2, S2, P2, m)
          /\ c[m] = 1 => Claims(A, H2, S2, P2, m) = 0
      BY <2>1, <2>2, <2>3, <2>4
    <3>2. c2[m] = c[m] - 1
      BY <1>2, <2>2, <2>4, <3>1 DEF NaN
    <3> QED
      BY <2>2, <3>1, <3>2 DEF NaN
  <2>5. CASE m # n
    BY <1>2, <2>1, <2>2, <2>3, <2>5 DEF NaN
  <2> QED
    BY <2>4, <2>5
<1>5. \A a \in A : c2[a] \in {0, NaN}
  BY <1>0, <1>2
<1>6. \A l \in L2 : l.capture = (l.name \in NonBubbling) /\ (l.capture => l.active)
  BY <1>0, <1>3
<1>7. \A m \in Names : c2[m] \notin {0, NaN} => ListensTo(m, L2)
  <2> SUFFICES ASSUME NEW m \in Names, c2[m] \notin {0, NaN} PROVE ListensTo(m, L2)
    OBVIOUS
  <2>1. c[m] \notin {0, NaN} /\ (m = n => c[n] # 1)
    BY <1>2 DEF NaN
  <2>2. ListensTo(m, L)
    BY <2>1 DEF Accounts
  <2> QED
    BY <1>3, <2>1, <2>2 DEF ListensTo
<1>8. \A m \in Names : c2[m] = 0 => \A l \in L2 : l.name = m => l.capture
  <2> SUFFICES ASSUME NEW m \in Names, c2[m] = 0, NEW l \in L2, l.name = m PROVE l.capture
    OBVIOUS
  <2>1. CASE m = n
    <3>1. c[n] = 1
      BY <1>1, <1>2, <2>1 DEF NaN
    <3> QED
      BY <1>3, <2>1, <3>1
  <2>2. CASE m # n
    BY <1>2, <1>3, <2>2 DEF Accounts
  <2> QED
    BY <2>1, <2>2
<1>9. \A p \in P2 : p[2] \notin lt => ListensActively(Browser(A, p[2]), L2)
  <2> SUFFICES ASSUME NEW p \in P2, p[2] \notin lt PROVE ListensActively(Browser(A, p[2]), L2)
    OBVIOUS
  <2>1. ListensActively(Browser(A, p[2]), L)
    BY DEF Accounts
  <2>2. Browser(A, p[2]) \in Names \ A
    BY <1>0, NameFacts DEF Places
  <2>4. Claims(A, H2, S2, P2, Browser(A, p[2])) # 0
    <3>1. H2 \in SUBSET Places /\ S2 \in SUBSET Places /\ P2 \in SUBSET Places
      BY <1>0
    <3> QED
      BY <3>1, Claimed
  <2>5. Browser(A, p[2]) # n \/ c[n] # 1
    BY <1>4, <2>2, <2>4
  <2> QED
    BY <1>3, <2>1, <2>5 DEF ListensActively
<1>10. L2 \subseteq Listeners /\ H2 \subseteq Places /\ S2 \subseteq Places /\ P2 \subseteq Places
  BY <1>0, <1>3
<1> QED
  BY <1>0, <1>2, <1>4, <1>5, <1>6, <1>7, <1>8, <1>9, <1>10 DEF Accounts

(* The claims of several handlers are given back, by browser event.        *)
LEMMA ClaimsGivenBack ==
  ASSUME NEW A, NEW lt, NEW H, NEW S, NEW P, NEW c, NEW L, Accounts(A, lt, H, S, P, c, L),
         NEW H2 \in SUBSET H, NEW S2 \in SUBSET S, NEW P2 \in SUBSET P,
         NEW f \in [Names -> Nat],
         \A m \in A : f[m] = 0,
         ManyLess(A, H, S, P, H2, S2, P2, f),
         NEW c2, c2 = Reduced(c, f), NEW L2, L2 = Unlistened(L, c, f)
  PROVE  Accounts(A, lt, H2, S2, P2, c2, L2)
<1>0. /\ A \in SUBSET Aliases /\ H \in SUBSET Places /\ S \in SUBSET Places /\ P \in SUBSET Places
      /\ c \in [Names -> Nat \cup {NaN}] /\ L \in SUBSET Listeners
      /\ \A m \in Names \ A : c[m] # NaN /\ c[m] >= Claims(A, H, S, P, m)
      /\ \A a \in A : c[a] \in {0, NaN}
      /\ \A l \in L : l.capture = (l.name \in NonBubbling) /\ (l.capture => l.active)
      /\ A \subseteq Names
  BY NameFacts DEF Accounts
<1>1. \A m \in Names : c[m] \in Nat \cup {NaN} /\ f[m] \in Nat
  BY <1>0
<1>2. /\ L2 \in SUBSET L
      /\ \A l \in L : ~(f[l.name] # 0 /\ c[l.name] = f[l.name]) => l \in L2
      /\ \A l \in L2 : l.name \in Names /\ f[l.name] # 0 /\ c[l.name] = f[l.name] => l.capture
  BY DEF Unlistened
<1>3. ASSUME NEW m \in Names \ A
      PROVE  /\ c2[m] \in Nat /\ c2[m] = c[m] - f[m] /\ c2[m] >= Claims(A, H2, S2, P2, m)
  <2>1. Claims(A, H, S, P, m) \in Nat /\ Claims(A, H2, S2, P2, m) \in Nat
    <3>1. H2 \in SUBSET Places /\ S2 \in SUBSET Places /\ P2 \in SUBSET Places
      BY <1>0
    <3> QED
      BY <1>0, <3>1, ClaimsNat
  <2>2. c[m] \in Nat /\ c[m] >= Claims(A, H, S, P, m) /\ c[m] # NaN /\ f[m] \in Nat
    BY <1>0
  <2>3. Claims(A, H2, S2, P2, m) <= Claims(A, H, S, P, m) - f[m]
    BY DEF ManyLess
  <2>4. c2[m] = c[m] - f[m]
    BY <2>2 DEF Reduced
  <2> QED
    BY <2>1, <2>2, <2>3, <2>4
<1>4. ASSUME NEW m \in A PROVE m \in Names /\ c2[m] = c[m]
  BY <1>0, <1>1 DEF NaN, Reduced
<1>5. c2 \in [Names -> Nat \cup {NaN}]
  <2>1. \A m \in Names : c2[m] \in Nat \cup {NaN}
    BY <1>1, <1>3, <1>4
  <2> QED
    BY <2>1 DEF Reduced
<1>6. \A l \in L2 : l.capture = (l.name \in NonBubbling) /\ (l.capture => l.active)
  BY <1>0, <1>2
<1>7. \A m \in Names : c2[m] \notin {0, NaN} => ~(f[m] # 0 /\ c[m] = f[m]) /\ c[m] \notin {0, NaN}
  <2> SUFFICES ASSUME NEW m \in Names, c2[m] \notin {0, NaN}
               PROVE  ~(f[m] # 0 /\ c[m] = f[m]) /\ c[m] \notin {0, NaN}
    OBVIOUS
  <2>1. c2[m] \in Nat \cup {NaN} /\ c[m] \in Nat \cup {NaN} /\ f[m] \in Nat
    BY <1>1, <1>5
  <2>2. c[m] # NaN /\ c2[m] = c[m] - f[m]
    BY DEF Reduced
  <2> QED
    BY <2>1, <2>2 DEF NaN
<1>8. \A m \in Names : c2[m] \notin {0, NaN} => ListensTo(m, L2)
  <2> SUFFICES ASSUME NEW m \in Names, c2[m] \notin {0, NaN} PROVE ListensTo(m, L2)
    OBVIOUS
  <2>1. ListensTo(m, L) /\ ~(f[m] # 0 /\ c[m] = f[m])
    BY <1>7 DEF Accounts
  <2> QED
    BY <1>2, <2>1 DEF ListensTo
<1>9. \A m \in Names : c2[m] = 0 => \A l \in L2 : l.name = m => l.capture
  <2> SUFFICES ASSUME NEW m \in Names, c2[m] = 0, NEW l \in L2, l.name = m PROVE l.capture
    OBVIOUS
  <2>1. c[m] = 0 \/ (f[m] # 0 /\ c[m] = f[m])
    BY <1>1 DEF NaN, Reduced
  <2>2. CASE c[m] = 0
    BY <1>2, <2>2 DEF Accounts
  <2>3. CASE f[m] # 0 /\ c[m] = f[m]
    BY <1>2, <2>3
  <2> QED
    BY <2>1, <2>2, <2>3
<1>10. \A p \in P2 : p[2] \notin lt => ListensActively(Browser(A, p[2]), L2)
  <2> SUFFICES ASSUME NEW p \in P2, p[2] \notin lt PROVE ListensActively(Browser(A, p[2]), L2)
    OBVIOUS
  <2>1. ListensActively(Browser(A, p[2]), L)
    BY DEF Accounts
  <2>2. PICK m \in Names \ A : m = Browser(A, p[2])
    BY <1>0, NameFacts DEF Places
  <2>4. Claims(A, H2, S2, P2, m) # 0 /\ Claims(A, H2, S2, P2, m) \in Nat
    <3>1. H2 \in SUBSET Places /\ S2 \in SUBSET Places /\ P2 \in SUBSET Places
      BY <1>0
    <3> QED
      BY <2>2, <3>1, Claimed, ClaimsNat
  <2>5. c2[m] \notin {0, NaN}
    BY <1>3, <2>4 DEF NaN
  <2>6. ~(f[m] # 0 /\ c[m] = f[m])
    BY <1>7, <2>5
  <2> QED
    BY <1>2, <2>1, <2>2, <2>6 DEF ListensActively
<1>11. L2 \subseteq Listeners /\ H2 \subseteq Places /\ S2 \subseteq Places /\ P2 \subseteq Places
  BY <1>0, <1>2
<1>12. \A m \in Names \ A : c2[m] # NaN /\ c2[m] >= Claims(A, H2, S2, P2, m)
  BY <1>3 DEF NaN
<1>13. \A a \in A : c2[a] \in {0, NaN}
  BY <1>0, <1>4
<1> QED
  BY <1>0, <1>5, <1>6, <1>8, <1>9, <1>10, <1>11, <1>12, <1>13 DEF Accounts

(* What is counted for a name is counted for the browser event that the    *)
(* name is an alias of from now on.                                        *)
LEMMA AliasCounted ==
  ASSUME NEW A, NEW lt, NEW H, NEW S, NEW P, NEW c, NEW L, Accounts(A, lt, H, S, P, c, L),
         NEW a \in Aliases, a \notin A, NEW A2, A2 = A \cup {a},
         NEW lt2, lt2 = IF c[a] = 0 THEN lt ELSE lt \cup {a},
         NEW c2 \in [Names -> Nat \cup {NaN}],
         c2[a] = 0, c2[Target] = Plus(c[Target], c[a]), \A m \in Names \ {a, Target} : c2[m] = c[m],
         NEW active \in BOOLEAN,
         NEW K, K = Unlisten(L, a), NEW L2,
         c[a] = 0 => L2 = L,
         c[a] # 0 /\ c[Target] # 0 => L2 = K,
         c[a] # 0 /\ c[Target] = 0 => L2 = Listen(K, Target, active)
  PROVE  Accounts(A2, lt2, H, S, P, c2, L2)
<1>0. /\ A \in SUBSET Aliases /\ H \in SUBSET Places /\ S \in SUBSET Places /\ P \in SUBSET Places
      /\ c \in [Names -> Nat \cup {NaN}] /\ L \in SUBSET Listeners
      /\ \A m \in Names \ A : c[m] # NaN /\ c[m] >= Claims(A, H, S, P, m)
      /\ \A d \in A : c[d] \in {0, NaN}
      /\ \A l \in L : l.capture = (l.name \in NonBubbling) /\ (l.capture => l.active)
      /\ A \subseteq Names
  BY NameFacts DEF Accounts
<1>1. /\ a \in Names \ A /\ Target \in Names \ A2 /\ a # Target
      /\ Target \in Names \ A
  BY <1>0, NameFacts
<1>2. /\ c[a] \in Nat /\ c[Target] \in Nat
      /\ c2 \in [Names -> Nat \cup {NaN}]
      /\ c2[a] = 0 /\ c2[Target] = c[Target] + c[a]
      /\ \A m \in Names \ {a, Target} : c2[m] = c[m]
  BY <1>0, <1>1 DEF Plus, NaN
<1>3. /\ K \in SUBSET L
      /\ \A l \in L : l.name # a => l \in K
      /\ \A l \in K : l.name = a => l.capture
  BY UnlistenFacts
<1>4. c[a] # 0 /\ c[Target] = 0 =>
        /\ L2 \subseteq Listeners /\ K \subseteq L2 /\ ListensTo(Target, L2)
        /\ \A l \in L2 : l \in K \/ (l.name = Target /\ l.capture = (Target \in NonBubbling) /\ l.active = active)
  <2> SUFFICES ASSUME c[a] # 0, c[Target] = 0
               PROVE  /\ L2 \subseteq Listeners /\ K \subseteq L2 /\ ListensTo(Target, L2)
                      /\ \A l \in L2 : l \in K \/
                           (l.name = Target /\ l.capture = (Target \in NonBubbling) /\ l.active = active)
    OBVIOUS
  <2>1. K \in SUBSET Listeners /\ Target \in Names /\ L2 = Listen(K, Target, active)
    BY <1>0, <1>1, <1>3
  <2>2. Listen(K, Target, active) \subseteq Listeners
    BY <2>1, ListenFacts
  <2>3. K \subseteq Listen(K, Target, active)
    BY <2>1, ListenFacts
  <2>4. ListensTo(Target, L2)
    BY <2>1, ListensAdded
  <2>5. \A l \in Listen(K, Target, active) : l \in K \/
          (l.name = Target /\ l.capture = (Target \in NonBubbling) /\ l.active = active)
    BY <2>1, ListenFacts
  <2> QED
    BY <2>1, <2>2, <2>3, <2>4, <2>5
<1>5. /\ L2 \subseteq Listeners
      /\ \A l \in L : l.name # a => l \in L2
      /\ \A l \in L2 : l \in L \/
           (c[a] # 0 /\ l.name = Target /\ l.capture = (Target \in NonBubbling) /\ l.active = active)
      /\ c[a] # 0 => \A l \in L2 : l.name = a => l.capture
  <2>1. CASE c[a] = 0
    BY <1>0, <2>1
  <2>2. CASE c[a] # 0 /\ c[Target] # 0
    BY <1>0, <1>3, <2>2
  <2>3. CASE c[a] # 0 /\ c[Target] = 0
    BY <1>1, <1>3, <1>4, <2>3
  <2> QED
    BY <2>1, <2>2, <2>3
<1>6. \A m : m # a => (ListensTo(m, L) => ListensTo(m, L2)) /\ (ListensActively(m, L) => ListensActively(m, L2))
  BY <1>5 DEF ListensTo, ListensActively
<1>7. \A F \in SUBSET Places, m \in Names \ A2 :
        Cardinality(Mine(A2, F, m)) <= Cardinality(Mine(A, F, m))
                                       + (IF m = Target THEN Cardinality(Mine(A, F, a)) ELSE 0)
  <2> SUFFICES ASSUME NEW F \in SUBSET Places, NEW m \in Names \ A2
               PROVE  Cardinality(Mine(A2, F, m)) <= Cardinality(Mine(A, F, m))
                                       + (IF m = Target THEN Cardinality(Mine(A, F, a)) ELSE 0)
    OBVIOUS
  <2>1. PICK X, Y : X = Mine(A, F, m) /\ Y = Mine(A, F, a)
    OBVIOUS
  <2>2. /\ IsFiniteSet(X) /\ Cardinality(X) \in Nat /\ IsFiniteSet(Y) /\ Cardinality(Y) \in Nat
    BY <2>1, MineFinite
  <2>3. CASE m = Target
    <3>1. Mine(A2, F, m) = X \cup Y
      BY <1>1, <2>1, <2>3 DEF Mine, Browser
    <3>2. Cardinality(X \cup Y) = Cardinality(X) + Cardinality(Y) - Cardinality(X \cap Y)
      BY <2>2, FS_Union
    <3>3. Cardinality(X \cap Y) \in Nat
      BY <2>2, FS_Intersection, FS_CardinalityType
    <3>4. Cardinality(X \cup Y) <= Cardinality(X) + Cardinality(Y)
      BY <2>2, <3>2, <3>3
    <3> QED
      BY <2>1, <2>3, <3>1, <3>4
  <2>4. CASE m # Target
    <3>1. Mine(A2, F, m) = X
      BY <1>1, <2>1, <2>4 DEF Mine, Browser
    <3>2. Cardinality(Mine(A2, F, m)) <= Cardinality(Mine(A, F, m)) + 0
      BY <2>1, <2>2, <3>1
    <3> QED
      BY <2>4, <3>2
  <2> QED
    BY <2>3, <2>4
<1>8. \A m \in Names \ A2 : c2[m] # NaN /\ c2[m] >= Claims(A2, H, S, P, m)
  <2> SUFFICES ASSUME NEW m \in Names \ A2
               PROVE  c2[m] # NaN /\ c2[m] >= Claims(A2, H, S, P, m)
    OBVIOUS
  <2>1. PICK h, s, p, h2, s2, p2, ha, sa, pa :
          /\ h = Cardinality(Mine(A, H, m)) /\ s = Cardinality(Mine(A, S, m)) /\ p = Cardinality(Mine(A, P, m))
          /\ h2 = Cardinality(Mine(A2, H, m)) /\ s2 = Cardinality(Mine(A2, S, m)) /\ p2 = Cardinality(Mine(A2, P, m))
          /\ ha = Cardinality(Mine(A, H, a)) /\ sa = Cardinality(Mine(A, S, a)) /\ pa = Cardinality(Mine(A, P, a))
    OBVIOUS
  <2>2. /\ h \in Nat /\ s \in Nat /\ p \in Nat /\ h2 \in Nat /\ s2 \in Nat /\ p2 \in Nat
        /\ ha \in Nat /\ sa \in Nat /\ pa \in Nat
    BY <1>0, <2>1, MineFinite
  <2>3. /\ h2 <= h + (IF m = Target THEN ha ELSE 0)
        /\ s2 <= s + (IF m = Target THEN sa ELSE 0)
        /\ p2 <= p + (IF m = Target THEN pa ELSE 0)
    BY <1>0, <1>7, <2>1
  <2>4. m \in Names \ A /\ m # a
    BY <1>1
  <2>5. /\ c[m] \in Nat /\ c[m] >= h + s + p
        /\ c[a] >= ha + sa + pa
    BY <1>0, <1>1, <2>1, <2>4 DEF Claims
  <2>6. c2[m] = c[m] + (IF m = Target THEN c[a] ELSE 0)
    BY <1>2, <2>4, <2>5
  <2>7. c2[m] \in Nat /\ c2[m] >= h2 + s2 + p2
    BY <1>2, <2>2, <2>3, <2>5, <2>6
  <2> QED
    BY <2>1, <2>7 DEF Claims, NaN
<1>9. \A d \in A2 : c2[d] \in {0, NaN}
  BY <1>0, <1>1, <1>2
<1>10. \A l \in L2 : l.capture = (l.name \in NonBubbling) /\ (l.capture => l.active)
  BY <1>0, <1>5, EventAssumption
<1>11. \A m \in Names : c2[m] \notin {0, NaN} => ListensTo(m, L2)
  <2> SUFFICES ASSUME NEW m \in Names, c2[m] \notin {0, NaN} PROVE ListensTo(m, L2)
    OBVIOUS
  <2>1. m # a
    BY <1>2
  <2>2. CASE c[m] \notin {0, NaN}
    BY <1>6, <2>1, <2>2 DEF Accounts
  <2>3. CASE m = Target /\ c[Target] = 0
    <3>1. c[a] # 0
      BY <1>2, <2>3
    <3> QED
      BY <1>4, <2>3, <3>1
  <2> QED
    BY <1>2, <2>1, <2>2, <2>3 DEF NaN
<1>12. \A m \in Names : c2[m] = 0 => \A l \in L2 : l.name = m => l.capture
  <2> SUFFICES ASSUME NEW m \in Names, c2[m] = 0, NEW l \in L2, l.name = m PROVE l.capture
    OBVIOUS
  <2>1. CASE m = a
    BY <1>1, <1>5, <2>1 DEF Accounts
  <2>2. CASE m # a
    <3>1. c[m] = 0 /\ (m = Target => c[a] = 0)
      BY <1>2, <2>2
    <3> QED
      BY <1>5, <3>1 DEF Accounts
  <2> QED
    BY <2>1, <2>2
<1>13. \A p \in P : p[2] \notin lt2 => ListensActively(Browser(A2, p[2]), L2)
  <2> SUFFICES ASSUME NEW p \in P, p[2] \notin lt2 PROVE ListensActively(Browser(A2, p[2]), L2)
    OBVIOUS
  <2>1. p[2] # a
    <3> SUFFICES ASSUME p[2] = a PROVE FALSE
      OBVIOUS
    <3>1. c[a] = 0
      OBVIOUS
    <3>2. a = Browser(A, p[2])
      BY DEF Browser
    <3>3. p \in H \cup S \cup P
      OBVIOUS
    <3>4. Claims(A, H, S, P, a) # 0
      BY <1>0, <3>2, <3>3, Claimed
    <3>5. Claims(A, H, S, P, a) \in Nat
      BY <1>0, ClaimsNat
    <3> QED
      BY <1>0, <1>1, <3>1, <3>4, <3>5
  <2>2. Browser(A2, p[2]) = Browser(A, p[2]) /\ Browser(A, p[2]) # a
    BY <1>1, <2>1 DEF Browser
  <2>3. ListensActively(Browser(A, p[2]), L)
    BY DEF Accounts
  <2> QED
    BY <1>6, <2>2, <2>3
<1>14. A2 \subseteq Aliases
  BY <1>0
<1> QED
  BY <1>0, <1>2, <1>5, <1>8, <1>9, <1>10, <1>11, <1>12, <1>13, <1>14 DEF Accounts

-----------------------------------------------------------------------------
(* The tables of handlers, and what .NET has rendered.                     *)
TablesOK ==
  /\ infos \in [Ids -> Places \cup {Nothing}] /\ handler \in [Places -> Ids \cup {Nothing}]
  /\ renderedIds \in [Places -> Ids \cup {Nothing}] /\ disposing \subseteq Ids
  /\ dropped \subseteq Places /\ issued \in 0..MaxIds

(* An id is issued once: it is rendered at one place, or being disposed, or*)
(* neither; the delegator knows no others.                                 *)
IdsOnce ==
  /\ \A i \in Ids : i > issued => infos[i] = Nothing /\ i \notin disposing
  /\ \A p \in Places : renderedIds[p] # Nothing =>
       renderedIds[p] <= issued /\ renderedIds[p] \notin disposing
  /\ \A p, q \in Places : renderedIds[p] # Nothing /\ renderedIds[q] = renderedIds[p] => p = q

(* An event handler that .NET has not disposed is at a rendered place, and *)
(* what is rendered is tracked there.                                      *)
Tracked ==
  /\ \A i \in Ids : infos[i] # Nothing => i \in disposing \/ \E p \in Places : renderedIds[p] = i
  /\ \A p \in Places \ dropped : renderedIds[p] # Nothing => infos[renderedIds[p]] = p

(* What keeps handlers, infos and rendered attributes in agreement.        *)
TablesInv == TablesOK /\ TablesAgree /\ IdsOnce /\ Tracked

(* What a place is.                                                        *)
LEMMA PlaceFacts ==
  /\ Nothing \notin Places /\ Nothing \notin Ids
  /\ \A e \in Nested, n \in Names : <<e, n>> \in Places
  /\ \A p \in Places : p[1] \in Nested /\ p[2] \in Names /\ p = <<p[1], p[2]>>
  BY EventAssumption DEF Places, Nested, Names, Ids

(* What setListener does to the tables.                                    *)
LEMMA SetListenerTables ==
  ASSUME TablesOK, TablesAgree, NEW e \in Nested, NEW n \in Names, NEW id \in Ids,
         infos[id] = Nothing, setListener(e, n, id),
         NEW p, p = <<e, n>>
  PROVE  /\ infos' \in [Ids -> Places \cup {Nothing}] /\ handler' \in [Places -> Ids \cup {Nothing}]
         /\ infos'[id] = p /\ handler'[p] = id
         /\ \A i \in Ids \ {id} : infos'[i] = IF i = handler[p] THEN Nothing ELSE infos[i]
         /\ \A q \in Places \ {p} : handler'[q] = handler[q]
<1>1. p \in Places
  BY PlaceFacts
<1>2. CASE handler[p] # Nothing
  <2>1. PICK h \in Ids : h = handler[p]
    BY <1>1, <1>2 DEF TablesOK
  <2>2. infos[h] = p /\ h # id
    BY <1>1, <1>2, <2>1, PlaceFacts DEF TablesAgree
  <2>3. /\ infos' = [infos EXCEPT ![h] = Nothing, ![id] = infos[h]]
        /\ handler' = [handler EXCEPT ![infos[h]] = id]
    BY <1>2, <2>1 DEF setListener, update
  <2> QED
    BY <1>1, <2>1, <2>2, <2>3 DEF TablesOK
<1>3. CASE handler[p] = Nothing
  <2>1. /\ infos' = [infos EXCEPT ![id] = p]
        /\ handler' = [handler EXCEPT ![p] = id]
    BY <1>3 DEF setListener
  <2> QED
    BY <1>1, <1>3, <2>1, PlaceFacts DEF TablesOK
<1> QED
  BY <1>2, <1>3

(* The renderer applies an event handler attribute.                        *)
LEMMA ApplyKeepsTables ==
  ASSUME TablesInv, NEW e \in Nested, NEW n \in Names, applyAttribute(e, n)
  PROVE  TablesInv'
<1> USE DEF TablesInv
<1>1. PICK p : p = <<e, n>>
  OBVIOUS
<1>2. PICK id : id = issued + 1
  OBVIOUS
<1>3. /\ issued < MaxIds /\ issued' = id
      /\ setListener(e, n, id)
      /\ renderedIds' = [renderedIds EXCEPT ![p] = id]
      /\ disposing' = disposing \cup ({renderedIds[p]} \ {Nothing})
      /\ dropped' = dropped \ {p}
  BY <1>1, <1>2 DEF applyAttribute
<1>4. p \in Places /\ id \in Ids /\ id > issued /\ issued \in Nat
  BY <1>1, <1>2, <1>3, EventAssumption, PlaceFacts DEF TablesOK, Ids
<1>5. infos[id] = Nothing /\ id \notin disposing /\ \A q \in Places : renderedIds[q] # id
  BY <1>4, PlaceFacts DEF IdsOnce, TablesOK, Ids
<1>6. /\ infos' \in [Ids -> Places \cup {Nothing}] /\ handler' \in [Places -> Ids \cup {Nothing}]
      /\ infos'[id] = p /\ handler'[p] = id
      /\ \A i \in Ids \ {id} : infos'[i] = IF i = handler[p] THEN Nothing ELSE infos[i]
      /\ \A q \in Places \ {p} : handler'[q] = handler[q]
  BY <1>1, <1>3, <1>4, <1>5, SetListenerTables
<1>7. /\ renderedIds'[p] = id
      /\ \A q \in Places \ {p} : renderedIds'[q] = renderedIds[q]
  BY <1>3, <1>4 DEF TablesOK
<1>8. TablesOK'
  <2>1. renderedIds' \in [Places -> Ids \cup {Nothing}]
    BY <1>3, <1>4 DEF TablesOK
  <2>2. disposing' \subseteq Ids
    BY <1>3, <1>4 DEF TablesOK
  <2>3. issued' \in 0..MaxIds
    BY <1>3, <1>4 DEF Ids
  <2> QED
    BY <1>3, <1>6, <2>1, <2>2, <2>3 DEF TablesOK
<1>9. TablesAgree'
  <2>1. ASSUME NEW q \in Places, handler'[q] # Nothing PROVE infos'[handler'[q]] = q
    <3>1. CASE q = p
      BY <1>6, <3>1
    <3>2. CASE q # p
      <4>1. PICK i \in Ids : i = handler[q] /\ handler'[q] = i
        BY <1>6, <2>1, <3>2 DEF TablesOK
      <4>2. infos[i] = q
        BY <2>1, <4>1 DEF TablesAgree
      <4>3. i # id /\ i # handler[p]
        BY <1>4, <1>5, <3>2, <4>1, <4>2, PlaceFacts DEF TablesAgree
      <4> QED
        BY <1>6, <4>1, <4>2, <4>3
    <3> QED
      BY <3>1, <3>2
  <2>2. ASSUME NEW i \in Ids, infos'[i] # Nothing PROVE handler'[infos'[i]] = i
    <3>1. CASE i = id
      BY <1>6, <3>1
    <3>2. CASE i # id
      <4>1. i # handler[p] /\ infos'[i] = infos[i]
        BY <1>6, <2>2, <3>2
      <4>2. infos[i] \in Places /\ handler[infos[i]] = i
        BY <2>2, <4>1 DEF TablesAgree, TablesOK
      <4> QED
        BY <1>6, <4>1, <4>2
    <3> QED
      BY <3>1, <3>2
  <2> QED
    BY <2>1, <2>2 DEF TablesAgree
<1>10. IdsOnce'
  <2>1. ASSUME NEW i \in Ids, i > issued' PROVE infos'[i] = Nothing /\ i \notin disposing'
    <3>1. i # id /\ i > issued
      BY <1>2, <1>3, <1>4, <2>1 DEF Ids
    <3>2. infos[i] = Nothing /\ i \notin disposing
      BY <3>1 DEF IdsOnce
    <3>3. renderedIds[p] # i
      BY <1>4, <3>1, PlaceFacts DEF IdsOnce, TablesOK, Ids
    <3> QED
      BY <1>3, <1>6, <3>1, <3>2, <3>3
  <2>2. ASSUME NEW q \in Places, renderedIds'[q] # Nothing
        PROVE  renderedIds'[q] <= issued' /\ renderedIds'[q] \notin disposing'
    <3>1. CASE q = p
      BY <1>3, <1>4, <1>5, <1>7, <3>1 DEF Ids
    <3>2. CASE q # p
      <4>1. renderedIds'[q] = renderedIds[q] /\ renderedIds[q] \in Ids
        BY <1>7, <2>2, <3>2 DEF TablesOK
      <4>2. renderedIds[q] <= issued /\ renderedIds[q] \notin disposing /\ renderedIds[q] # renderedIds[p]
        BY <1>4, <2>2, <3>2, <4>1 DEF IdsOnce
      <4> QED
        BY <1>2, <1>3, <1>4, <4>1, <4>2 DEF Ids
    <3> QED
      BY <3>1, <3>2
  <2>3. ASSUME NEW q \in Places, NEW r \in Places,
               renderedIds'[q] # Nothing, renderedIds'[r] = renderedIds'[q]
        PROVE  q = r
    BY <1>4, <1>5, <1>7, <2>3 DEF IdsOnce
  <2> QED
    BY <2>1, <2>2, <2>3 DEF IdsOnce
<1>11. Tracked'
  <2>1. ASSUME NEW i \in Ids, infos'[i] # Nothing
        PROVE  i \in disposing' \/ \E q \in Places : renderedIds'[q] = i
    <3>1. CASE i = id
      BY <1>4, <1>7, <3>1
    <3>2. CASE i # id
      <4>1. infos[i] # Nothing
        BY <1>6, <2>1, <3>2
      <4>2. i \in disposing \/ \E q \in Places : renderedIds[q] = i
        BY <4>1 DEF Tracked
      <4>3. ASSUME NEW q \in Places, renderedIds[q] = i
            PROVE  i \in disposing' \/ renderedIds'[q] = i
        BY <1>3, <1>7, <4>3, PlaceFacts
      <4> QED
        BY <1>3, <4>2, <4>3
    <3> QED
      BY <3>1, <3>2
  <2>2. ASSUME NEW q \in Places \ dropped', renderedIds'[q] # Nothing
        PROVE  infos'[renderedIds'[q]] = q
    <3>1. CASE q = p
      BY <1>6, <1>7, <3>1
    <3>2. CASE q # p
      <4>1. PICK i \in Ids : i = renderedIds[q] /\ renderedIds'[q] = i
        BY <1>7, <2>2, <3>2 DEF TablesOK
      <4>2. infos[i] = q
        BY <1>3, <2>2, <3>2, <4>1, PlaceFacts DEF Tracked
      <4>3. i # id /\ i # handler[p]
        BY <1>4, <1>5, <3>2, <4>1, <4>2, PlaceFacts DEF TablesAgree
      <4> QED
        BY <1>6, <4>1, <4>2, <4>3
    <3> QED
      BY <3>1, <3>2
  <2> QED
    BY <2>1, <2>2 DEF Tracked
<1> QED
  BY <1>8, <1>9, <1>10, <1>11

(* Attributes or elements go: the ids of their handlers will be disposed.  *)
LEMMA RemovalKeepsTables ==
  ASSUME TablesInv, NEW U \in SUBSET Places,
         renderedIds' = [p \in Places |-> IF p \in U THEN Nothing ELSE renderedIds[p]],
         disposing' = disposing \cup ({renderedIds[p] : p \in U} \ {Nothing}),
         dropped' = dropped \ U,
         UNCHANGED <<infos, handler, issued>>
  PROVE  TablesInv'
<1> USE DEF TablesInv
<1>1. /\ \A p \in U : renderedIds'[p] = Nothing
      /\ \A p \in Places \ U : renderedIds'[p] = renderedIds[p]
  OBVIOUS
<1>2. TablesOK'
  <2>1. renderedIds' \in [Places -> Ids \cup {Nothing}]
    BY DEF TablesOK
  <2>2. disposing' \subseteq Ids
    BY DEF TablesOK
  <2> QED
    BY <2>1, <2>2 DEF TablesOK
<1>3. TablesAgree'
  BY DEF TablesAgree
<1>4. IdsOnce'
  <2>1. ASSUME NEW i \in Ids, i > issued' PROVE infos'[i] = Nothing /\ i \notin disposing'
    <3>1. \A p \in Places : renderedIds[p] # i
      BY <2>1, EventAssumption, PlaceFacts DEF IdsOnce, TablesOK, Ids
    <3>2. infos[i] = Nothing /\ i \notin disposing
      BY <2>1 DEF IdsOnce
    <3> QED
      BY <3>1, <3>2
  <2>2. ASSUME NEW q \in Places, renderedIds'[q] # Nothing
        PROVE  renderedIds'[q] <= issued' /\ renderedIds'[q] \notin disposing'
    <3>1. q \notin U /\ renderedIds'[q] = renderedIds[q]
      BY <1>1, <2>2
    <3>2. renderedIds[q] <= issued /\ renderedIds[q] \notin disposing
      BY <2>2, <3>1 DEF IdsOnce
    <3>3. \A p \in U : renderedIds[p] # renderedIds[q]
      BY <2>2, <3>1 DEF IdsOnce
    <3> QED
      BY <3>1, <3>2, <3>3
  <2>3. ASSUME NEW q \in Places, NEW r \in Places,
               renderedIds'[q] # Nothing, renderedIds'[r] = renderedIds'[q]
        PROVE  q = r
    BY <1>1, <2>3 DEF IdsOnce
  <2> QED
    BY <2>1, <2>2, <2>3 DEF IdsOnce
<1>5. Tracked'
  <2>1. ASSUME NEW i \in Ids, infos'[i] # Nothing
        PROVE  i \in disposing' \/ \E q \in Places : renderedIds'[q] = i
    <3>1. i \in disposing \/ \E q \in Places : renderedIds[q] = i
      BY <2>1 DEF Tracked
    <3>2. ASSUME NEW q \in Places, renderedIds[q] = i
          PROVE  i \in disposing' \/ renderedIds'[q] = i
      <4>1. i # Nothing
        BY PlaceFacts
      <4> QED
        BY <1>1, <3>2, <4>1
    <3> QED
      BY <3>1, <3>2
  <2>2. ASSUME NEW q \in Places \ dropped', renderedIds'[q] # Nothing
        PROVE  infos'[renderedIds'[q]] = q
    BY <1>1, <2>2 DEF Tracked
  <2> QED
    BY <2>1, <2>2 DEF Tracked
<1> QED
  BY <1>2, <1>3, <1>4, <1>5

(* The renderer removes one.                                               *)
LEMMA RemoveAttributeKeepsTables ==
  ASSUME TablesInv, NEW e \in Nested, NEW n \in Names, removeAttribute(e, n)
  PROVE  TablesInv'
<1>1. PICK p \in Places : p = <<e, n>>
  BY PlaceFacts
<1>2. PICK U : U = {p}
  OBVIOUS
<1>3. /\ renderedIds[p] # Nothing
      /\ renderedIds' = [renderedIds EXCEPT ![p] = Nothing]
      /\ disposing' = disposing \cup {renderedIds[p]}
      /\ dropped' = dropped \ {p}
      /\ UNCHANGED <<infos, handler, issued>>
  BY <1>1 DEF removeAttribute, storeVars
<1>4. renderedIds' = [q \in Places |-> IF q \in U THEN Nothing ELSE renderedIds[q]]
  BY <1>2, <1>3 DEF TablesInv, TablesOK
<1>5. disposing' = disposing \cup ({renderedIds[q] : q \in U} \ {Nothing})
  BY <1>2, <1>3
<1>6. U \in SUBSET Places /\ dropped' = dropped \ U
  BY <1>2, <1>3
<1> QED
  BY <1>3, <1>4, <1>5, <1>6, RemovalKeepsTables

(* The renderer removes an element with its handlers.                      *)
LEMMA RemoveElementKeepsTables ==
  ASSUME TablesInv, NEW e \in Nested, removeElement(e)
  PROVE  TablesInv'
<1>1. PICK U \in SUBSET Places : U = {p \in Places : p[1] <= e}
  OBVIOUS
<1>2. /\ renderedIds' = [p \in Places |-> IF p \in U THEN Nothing ELSE renderedIds[p]]
      /\ disposing' = disposing \cup ({renderedIds[p] : p \in U} \ {Nothing})
      /\ dropped' = dropped \ U
      /\ UNCHANGED <<infos, handler, issued>>
  BY <1>1 DEF removeElement, storeVars
<1> QED
  BY <1>2, RemovalKeepsTables

(* All handlers of the elements are forgotten.                             *)
LEMMA DetachKeepsTables ==
  ASSUME TablesInv, NEW e \in Nested, detachEventHandlersFromElement(e)
  PROVE  TablesInv'
<1> USE DEF TablesInv
<1>1. PICK T \in SUBSET Places : T = {p \in Places : p[1] \in 1..e /\ handler[p] # Nothing}
  OBVIOUS
<1>2. /\ infos' = [i \in Ids |-> IF \E p \in T : handler[p] = i THEN Nothing ELSE infos[i]]
      /\ handler' = [p \in Places |-> IF p \in T THEN Nothing ELSE handler[p]]
      /\ dropped' = dropped \cup {p \in Places : p[1] = e /\ renderedIds[p] # Nothing}
      /\ \A p \in Places : p[1] < e => renderedIds[p] = Nothing
      /\ UNCHANGED <<renderedIds, disposing, issued>>
  BY <1>1 DEF detachEventHandlersFromElement, removeListenersForElements
<1>3. \A p \in T : handler[p] # Nothing /\ handler[p] \in Ids /\ infos[handler[p]] = p
  BY <1>1 DEF TablesOK, TablesAgree
<1>4. \A i \in Ids : infos[i] \in T => infos'[i] = Nothing
  BY <1>2 DEF TablesAgree
<1>5. \A i \in Ids : infos[i] \notin T => infos'[i] = infos[i]
  BY <1>2, <1>3
<1>6. TablesOK'
  <2>1. infos' \in [Ids -> Places \cup {Nothing}]
    BY <1>2 DEF TablesOK
  <2>2. handler' \in [Places -> Ids \cup {Nothing}]
    BY <1>2 DEF TablesOK
  <2> QED
    BY <1>2, <2>1, <2>2 DEF TablesOK
<1>7. TablesAgree'
  <2>1. ASSUME NEW q \in Places, handler'[q] # Nothing PROVE infos'[handler'[q]] = q
    <3>1. q \notin T /\ handler'[q] = handler[q] /\ handler[q] \in Ids /\ infos[handler[q]] = q
      BY <1>2, <2>1 DEF TablesOK, TablesAgree
    <3> QED
      BY <1>5, <3>1
  <2>2. ASSUME NEW i \in Ids, infos'[i] # Nothing PROVE handler'[infos'[i]] = i
    <3>1. infos[i] \notin T /\ infos'[i] = infos[i]
      BY <1>4, <1>5, <2>2
    <3>2. infos[i] \in Places /\ handler[infos[i]] = i
      BY <2>2, <3>1 DEF TablesOK, TablesAgree
    <3> QED
      BY <1>2, <3>1, <3>2
  <2> QED
    BY <2>1, <2>2 DEF TablesAgree
<1>8. \A i \in Ids : infos'[i] # Nothing => infos'[i] = infos[i]
  BY <1>2
<1>9. IdsOnce'
  BY <1>2, <1>8 DEF IdsOnce
<1>10. Tracked'
  <2>1. \A i \in Ids : infos'[i] # Nothing => i \in disposing' \/ \E p \in Places : renderedIds'[p] = i
    BY <1>2, <1>8 DEF Tracked
  <2>2. ASSUME NEW q \in Places \ dropped', renderedIds'[q] # Nothing
        PROVE  infos'[renderedIds'[q]] = q
    <3>1. q \notin dropped /\ ~(q[1] < e) /\ q[1] # e
      BY <1>2, <2>2
    <3>2. q \notin T
      BY <1>1, <3>1, PlaceFacts, EventAssumption DEF Nested
    <3>3. renderedIds'[q] = renderedIds[q] /\ renderedIds[q] \in Ids /\ infos[renderedIds[q]] = q
      BY <1>2, <2>2, <3>1 DEF TablesOK, Tracked
    <3> QED
      BY <1>5, <3>2, <3>3
  <2> QED
    BY <2>1, <2>2 DEF Tracked
<1> QED
  BY <1>6, <1>7, <1>9, <1>10

(* The id of a handler is disposed.                                        *)
LEMMA DisposalKeepsTables ==
  ASSUME TablesInv, NEW id \in Ids, disposeEventHandler(id)
  PROVE  TablesInv'
<1> USE DEF TablesInv
<1>1. /\ id \in disposing /\ disposing' = disposing \ {id}
      /\ removeListener(id)
      /\ UNCHANGED <<renderedIds, dropped, issued>>
  BY DEF disposeEventHandler
<1>2. /\ infos' \in [Ids -> Places \cup {Nothing}]
      /\ infos'[id] = Nothing
      /\ \A i \in Ids \ {id} : infos'[i] = infos[i]
  <2>1. CASE infos[id] = Nothing
    BY <1>1, <2>1 DEF removeListener, remove, TablesOK
  <2>2. CASE infos[id] # Nothing
    BY <1>1, <2>2 DEF removeListener, remove, TablesOK
  <2> QED
    BY <2>1, <2>2
<1>3. /\ handler' \in [Places -> Ids \cup {Nothing}]
      /\ \A p \in Places : handler'[p] = IF handler[p] = id THEN Nothing ELSE handler[p]
  <2>1. CASE infos[id] = Nothing
    <3>1. \A p \in Places : handler[p] # id
      BY <2>1, PlaceFacts DEF TablesAgree
    <3> QED
      BY <1>1, <2>1, <3>1 DEF removeListener, TablesOK
  <2>2. CASE infos[id] # Nothing
    <3>1. infos[id] \in Places /\ handler[infos[id]] = id
      BY <2>2 DEF TablesOK, TablesAgree
    <3>2. \A p \in Places : handler[p] = id => p = infos[id]
      BY PlaceFacts DEF TablesAgree
    <3>3. handler' = [handler EXCEPT ![infos[id]] = Nothing]
      BY <1>1, <2>2 DEF removeListener
    <3> QED
      BY <3>1, <3>2, <3>3 DEF TablesOK
  <2> QED
    BY <2>1, <2>2
<1>4. TablesOK'
  BY <1>1, <1>2, <1>3 DEF TablesOK
<1>5. TablesAgree'
  <2>1. ASSUME NEW q \in Places, handler'[q] # Nothing PROVE infos'[handler'[q]] = q
    <3>1. handler'[q] = handler[q] /\ handler[q] \in Ids \ {id} /\ infos[handler[q]] = q
      BY <1>3, <2>1 DEF TablesOK, TablesAgree
    <3> QED
      BY <1>2, <3>1
  <2>2. ASSUME NEW i \in Ids, infos'[i] # Nothing PROVE handler'[infos'[i]] = i
    <3>1. i # id /\ infos'[i] = infos[i] /\ infos[i] \in Places /\ handler[infos[i]] = i
      BY <1>2, <2>2 DEF TablesOK, TablesAgree
    <3> QED
      BY <1>3, <3>1
  <2> QED
    BY <2>1, <2>2 DEF TablesAgree
<1>6. IdsOnce'
  BY <1>1, <1>2 DEF IdsOnce
<1>7. Tracked'
  <2>1. ASSUME NEW i \in Ids, infos'[i] # Nothing
        PROVE  i \in disposing' \/ \E q \in Places : renderedIds'[q] = i
    BY <1>1, <1>2, <2>1 DEF Tracked
  <2>2. ASSUME NEW q \in Places \ dropped', renderedIds'[q] # Nothing
        PROVE  infos'[renderedIds'[q]] = q
    <3>1. renderedIds'[q] = renderedIds[q] /\ renderedIds[q] \in Ids \ {id}
      BY <1>1, <2>2 DEF TablesOK, IdsOnce
    <3>2. infos[renderedIds[q]] = q
      BY <1>1, <2>2, <3>1 DEF Tracked
    <3> QED
      BY <1>2, <3>1, <3>2
  <2> QED
    BY <2>1, <2>2 DEF Tracked
<1> QED
  BY <1>4, <1>5, <1>6, <1>7

(* Every step keeps the tables.                                            *)
tablesVars == <<infos, handler, renderedIds, disposing, dropped, issued>>

(* Every step keeps TablesInv.                                             *)
LEMMA TablesInvNext == TablesInv /\ [EventNext]_eventVars => TablesInv'
<1> SUFFICES ASSUME TablesInv, [EventNext]_eventVars PROVE TablesInv'
  OBVIOUS
<1>1. ASSUME UNCHANGED tablesVars PROVE TablesInv'
  BY <1>1 DEF tablesVars, TablesInv, TablesOK, TablesAgree, IdsOnce, Tracked
<1>2. CASE UNCHANGED eventVars
  BY <1>1, <1>2 DEF tablesVars, eventVars, storeVars, netVars
<1>3. CASE Register
  BY <1>1, <1>3 DEF Register, registerCustomEventType, tablesVars, netVars
<1>4. CASE Dispatch
  BY <1>1, <1>4
  DEF Dispatch, onGlobalEvent, Look, ReadFlags, NextName, tablesVars, storeVars, netVars
<1>5. CASE BeginBatch \/ EndEdits \/ EndBatch
  BY <1>1, <1>5 DEF BeginBatch, EndEdits, EndBatch, tablesVars, storeVars
<1>6. ASSUME NEW e \in Nested, insertElement(e) PROVE TablesInv'
  BY <1>1, <1>6 DEF insertElement, tablesVars, storeVars
<1>7. ASSUME NEW e \in Nested, removeElement(e) PROVE TablesInv'
  BY <1>7, RemoveElementKeepsTables
<1>8. ASSUME NEW e \in Nested, detachEventHandlersFromElement(e) PROVE TablesInv'
  BY <1>8, DetachKeepsTables
<1>9. ASSUME NEW e \in Nested, NEW n \in Names, applyAttribute(e, n) PROVE TablesInv'
  BY <1>9, ApplyKeepsTables
<1>10. ASSUME NEW e \in Nested, NEW n \in Names, removeAttribute(e, n) PROVE TablesInv'
  BY <1>10, RemoveAttributeKeepsTables
<1>11. ASSUME NEW e \in Nested, NEW n \in Names, NEW value \in BOOLEAN,
              applyInternalAttribute(e, n, value)
       PROVE  TablesInv'
  <2>1. UNCHANGED <<infos, handler>>
    BY <1>11 DEF applyInternalAttribute, setStopPropagation, setPreventDefault
  <2> QED
    BY <1>1, <1>11, <2>1 DEF applyInternalAttribute, tablesVars
<1>12. ASSUME NEW id \in Ids, disposeEventHandler(id) PROVE TablesInv'
  BY <1>12, DisposalKeepsTables
<1>13. CASE Batch
  BY <1>5, <1>6, <1>7, <1>8, <1>9, <1>10, <1>11, <1>12, <1>13 DEF Batch
<1> QED
  BY <1>2, <1>3, <1>4, <1>13 DEF EventNext

-----------------------------------------------------------------------------
(* Every operation of the delegator keeps the accounts.                    *)
Handlers == {p \in Places : handler[p] # Nothing}

(* The accounts of EventInfoStore as they are.                             *)
AccountInv ==
  /\ Accounts(aliases, late, Handlers, stop, prevent, count, listeners)
  /\ late \subseteq aliases

(* getBrowserEventName is Browser.                                         *)
LEMMA BrowserNameIs == \A n : BrowserName(n) = Browser(aliases, n)
  BY DEF BrowserName, Browser

(* The types that the accounts imply.                                      *)
LEMMA AccountTypes ==
  ASSUME AccountInv
  PROVE  /\ aliases \in SUBSET Aliases /\ Handlers \in SUBSET Places
         /\ stop \in SUBSET Places /\ prevent \in SUBSET Places
         /\ count \in [Names -> Nat \cup {NaN}]
  BY DEF AccountInv, Accounts

(* setListener gives back the claim of the handler that was there and      *)
(* claims for the new one.                                                 *)
LEMMA SetListenerAccounts ==
  ASSUME TablesInv, AccountInv, NEW e \in Nested, NEW n \in Names, NEW id \in Ids,
         infos[id] = Nothing, setListener(e, n, id), UNCHANGED <<aliases, late>>
  PROVE  AccountInv'
<1>1. PICK p \in Places : p = <<e, n>>
  BY PlaceFacts
<1>2. /\ handler'[p] = id
      /\ \A q \in Places \ {p} : handler'[q] = handler[q]
  BY <1>1, SetListenerTables DEF TablesInv
<1>3. Handlers' = Handlers \cup {p}
  BY <1>1, <1>2, PlaceFacts DEF Handlers
<1>4. UNCHANGED <<stop, prevent>>
  BY DEF setListener
<1>5. CASE handler[p] # Nothing
  <2>1. UNCHANGED <<count, listeners>>
    BY <1>1, <1>5 DEF setListener, update
  <2>2. Handlers' = Handlers
    BY <1>3, <1>5 DEF Handlers
  <2> QED
    BY <1>4, <2>1, <2>2 DEF AccountInv
<1>6. CASE handler[p] = Nothing
  <2>1. addGlobalListener(n)
    BY <1>1, <1>6 DEF setListener
  <2>2. PICK b : b = Browser(aliases, n)
    OBVIOUS
  <2>3. /\ count' = Incremented(count, b)
        /\ listeners' = IF count[b] # 0 THEN listeners ELSE Listen(listeners, b, b \notin Passive)
    BY <2>1, <2>2, BrowserNameIs DEF addGlobalListener, Incremented
  <2>4. OneMore(aliases, Handlers, stop, Handlers', stop, prevent, b)
    <3> SUFFICES ASSUME NEW m \in Names
                 PROVE  Claims(aliases, Handlers', stop, prevent, m)
                           <= Claims(aliases, Handlers, stop, prevent, m) + (IF m = b THEN 1 ELSE 0)
      BY DEF OneMore
    <3>1. PICK h, h2, s, q : /\ h = Cardinality(Mine(aliases, Handlers, m))
                             /\ h2 = Cardinality(Mine(aliases, Handlers', m))
                             /\ s = Cardinality(Mine(aliases, stop, m))
                             /\ q = Cardinality(Mine(aliases, prevent, m))
      OBVIOUS
    <3>2. Handlers' \in SUBSET Places
      BY <1>3, AccountTypes
    <3>3. h \in Nat /\ h2 \in Nat /\ s \in Nat /\ q \in Nat
      BY <3>1, <3>2, AccountTypes, MineFinite
    <3>4. Browser(aliases, p[2]) = b
      BY <1>1, <2>2
    <3>5. h2 <= h + (IF b = m THEN 1 ELSE 0)
      BY <1>3, <3>1, <3>4, AccountTypes, MineAdded
    <3>6. h2 + s + q <= h + s + q + (IF m = b THEN 1 ELSE 0)
      BY <3>3, <3>5
    <3> QED
      BY <3>1, <3>6 DEF Claims
  <2>5. Handlers' \in SUBSET Places /\ stop \in SUBSET Places
    BY <1>3, AccountTypes
  <2>6. Accounts(aliases, late, Handlers', stop, prevent, count', listeners')
    BY <2>2, <2>3, <2>4, <2>5, GlobalCounted DEF AccountInv
  <2> QED
    BY <1>4, <2>6 DEF AccountInv
<1> QED
  BY <1>5, <1>6

(* removeListener gives one claim back.                                    *)
LEMMA RemoveListenerAccounts ==
  ASSUME TablesInv, AccountInv, NEW id \in Ids, removeListener(id), UNCHANGED <<aliases, late>>
  PROVE  AccountInv'
<1>1. UNCHANGED <<stop, prevent>>
  BY DEF removeListener
<1>2. CASE infos[id] = Nothing
  <2>1. UNCHANGED <<handler, count, listeners>>
    BY <1>2 DEF removeListener, remove
  <2> QED
    BY <1>1, <2>1 DEF AccountInv, Handlers
<1>3. CASE infos[id] # Nothing
  <2>1. PICK p \in Places : p = infos[id] /\ handler[p] = id
    BY <1>3 DEF TablesInv, TablesOK, TablesAgree
  <2>2. PICK n \in Names : n = Browser(aliases, p[2])
    BY AccountTypes, NameFacts, PlaceFacts
  <2>3. /\ handler' = [handler EXCEPT ![p] = Nothing]
        /\ count' = Decremented(count, n)
        /\ listeners' = IF count[n] = 1 THEN Unlisten(listeners, n) ELSE listeners
    BY <1>3, <2>1, <2>2, BrowserNameIs DEF removeListener, remove, decrementCountByEventName, Decremented
  <2>4. p \in Handlers /\ Handlers' = Handlers \ {p}
    BY <2>1, <2>3, PlaceFacts DEF Handlers, TablesInv, TablesOK
  <2>5. OneLess(aliases, Handlers, stop, prevent, Handlers', stop, prevent, n)
    <3> SUFFICES ASSUME NEW m \in Names \ aliases
                 PROVE  Claims(aliases, Handlers', stop, prevent, m)
                   <= Claims(aliases, Handlers, stop, prevent, m) - (IF m = n THEN 1 ELSE 0)
      BY DEF OneLess
    <3>1. PICK h, h2, s, q : /\ h = Cardinality(Mine(aliases, Handlers, m))
                             /\ h2 = Cardinality(Mine(aliases, Handlers', m))
                             /\ s = Cardinality(Mine(aliases, stop, m))
                             /\ q = Cardinality(Mine(aliases, prevent, m))
      OBVIOUS
    <3>2. h \in Nat /\ s \in Nat /\ q \in Nat
      BY <3>1, AccountTypes, MineFinite
    <3>3. h2 = h - (IF n = m THEN 1 ELSE 0)
      BY <2>2, <2>4, <3>1, AccountTypes, MineRemoved
    <3>4. PICK x, y : x = Claims(aliases, Handlers, stop, prevent, m) /\ y = Claims(aliases, Handlers', stop, prevent, m)
      OBVIOUS
    <3>5. x = h + s + q /\ y = h2 + s + q
      BY <3>1, <3>4 DEF Claims
    <3>6. y <= x - (IF m = n THEN 1 ELSE 0)
      BY <3>2, <3>3, <3>5
    <3> QED
      BY <3>4, <3>6
  <2>6. /\ Handlers' \in SUBSET Handlers /\ stop \in SUBSET stop /\ prevent \in SUBSET prevent
    BY <2>4
  <2>7. Accounts(aliases, late, Handlers', stop, prevent, count', listeners')
    BY <2>3, <2>5, <2>6, ClaimGivenBack DEF AccountInv
  <2> QED
    BY <1>1, <2>7 DEF AccountInv
<1> QED
  BY <1>2, <1>3

(* setStopPropagation claims or gives back.                                *)
LEMMA StopAccounts ==
  ASSUME AccountInv, NEW e \in Nested, NEW n \in Names, NEW value \in BOOLEAN,
         setStopPropagation(e, n, value), UNCHANGED <<aliases, late>>
  PROVE  AccountInv'
<1>1. PICK p \in Places : p = <<e, n>>
  BY PlaceFacts
<1>2. Handlers' = Handlers /\ UNCHANGED prevent
  BY DEF setStopPropagation, Handlers
<1>3. CASE value /\ p \notin stop
  <2>1. stop' = stop \cup {p} /\ addGlobalListener(n)
    BY <1>1, <1>3 DEF setStopPropagation
  <2>2. PICK b : b = Browser(aliases, n)
    OBVIOUS
  <2>3. /\ count' = Incremented(count, b)
        /\ listeners' = IF count[b] # 0 THEN listeners ELSE Listen(listeners, b, b \notin Passive)
    BY <2>1, <2>2, BrowserNameIs DEF addGlobalListener, Incremented
  <2>4. OneMore(aliases, Handlers, stop, Handlers, stop', prevent, b)
    <3> SUFFICES ASSUME NEW m \in Names
                 PROVE  Claims(aliases, Handlers, stop', prevent, m)
                           <= Claims(aliases, Handlers, stop, prevent, m) + (IF m = b THEN 1 ELSE 0)
      BY DEF OneMore
    <3>1. PICK h, s, s2, q : /\ h = Cardinality(Mine(aliases, Handlers, m))
                             /\ s = Cardinality(Mine(aliases, stop, m))
                             /\ s2 = Cardinality(Mine(aliases, stop', m))
                             /\ q = Cardinality(Mine(aliases, prevent, m))
      OBVIOUS
    <3>2. stop' \in SUBSET Places
      BY <2>1, AccountTypes
    <3>3. h \in Nat /\ s2 \in Nat /\ s \in Nat /\ q \in Nat
      BY <3>1, <3>2, AccountTypes, MineFinite
    <3>4. Browser(aliases, p[2]) = b
      BY <1>1, <2>2
    <3>5. s2 <= s + (IF b = m THEN 1 ELSE 0)
      BY <2>1, <3>1, <3>4, AccountTypes, MineAdded
    <3>6. h + s2 + q <= h + s + q + (IF m = b THEN 1 ELSE 0)
      BY <3>3, <3>5
    <3> QED
      BY <3>1, <3>6 DEF Claims
  <2>5. Handlers \in SUBSET Places /\ stop' \in SUBSET Places
    BY <2>1, AccountTypes
  <2>6. Accounts(aliases, late, Handlers, stop', prevent, count', listeners')
    BY <2>2, <2>3, <2>4, <2>5, GlobalCounted DEF AccountInv
  <2> QED
    BY <1>2, <2>6 DEF AccountInv
<1>4. CASE ~value /\ p \in stop
  <2>1. stop' = stop \ {p} /\ decrementCountByEventName(n)
    BY <1>1, <1>4 DEF setStopPropagation
  <2>2. /\ count' = Decremented(count, n)
        /\ listeners' = IF count[n] = 1 THEN Unlisten(listeners, n) ELSE listeners
    BY <2>1 DEF decrementCountByEventName, Decremented
  <2>3. OneLess(aliases, Handlers, stop, prevent, Handlers, stop', prevent, n)
    <3> SUFFICES ASSUME NEW m \in Names \ aliases
                 PROVE  Claims(aliases, Handlers, stop', prevent, m)
                   <= Claims(aliases, Handlers, stop, prevent, m) - (IF m = n THEN 1 ELSE 0)
      BY DEF OneLess
    <3>1. PICK h, s, s2, q : /\ h = Cardinality(Mine(aliases, Handlers, m))
                             /\ s = Cardinality(Mine(aliases, stop, m))
                             /\ s2 = Cardinality(Mine(aliases, stop', m))
                             /\ q = Cardinality(Mine(aliases, prevent, m))
      OBVIOUS
    <3>2. h \in Nat /\ s \in Nat /\ q \in Nat
      BY <3>1, AccountTypes, MineFinite
    <3>3. s2 = s - (IF Browser(aliases, n) = m THEN 1 ELSE 0)
      BY <1>1, <1>4, <2>1, <3>1, AccountTypes, MineRemoved
    <3>4. m = n => Browser(aliases, n) = m
      BY DEF Browser
    <3>5. PICK x, y : x = Claims(aliases, Handlers, stop, prevent, m) /\ y = Claims(aliases, Handlers, stop', prevent, m)
      OBVIOUS
    <3>6. x = h + s + q /\ y = h + s2 + q
      BY <3>1, <3>5 DEF Claims
    <3>7. y <= x - (IF m = n THEN 1 ELSE 0)
      BY <3>2, <3>3, <3>4, <3>6
    <3> QED
      BY <3>5, <3>7
  <2>4. /\ Handlers \in SUBSET Handlers /\ stop' \in SUBSET stop /\ prevent \in SUBSET prevent
    BY <2>1
  <2>5. Accounts(aliases, late, Handlers, stop', prevent, count', listeners')
    BY <2>2, <2>3, <2>4, ClaimGivenBack DEF AccountInv
  <2> QED
    BY <1>2, <2>5 DEF AccountInv
<1>5. CASE ~(value /\ p \notin stop) /\ ~(~value /\ p \in stop)
  <2>1. UNCHANGED <<stop, count, listeners>>
    BY <1>1, <1>5 DEF setStopPropagation
  <2> QED
    BY <1>2, <2>1 DEF AccountInv
<1> QED
  BY <1>3, <1>4, <1>5

(* setPreventDefault claims, actively, or gives back.                      *)
LEMMA PreventAccounts ==
  ASSUME AccountInv, NEW e \in Nested, NEW n \in Names, NEW value \in BOOLEAN,
         setPreventDefault(e, n, value), UNCHANGED <<aliases, late>>
  PROVE  AccountInv'
<1>1. PICK p \in Places : p = <<e, n>>
  BY PlaceFacts
<1>2. Handlers' = Handlers /\ UNCHANGED stop
  BY DEF setPreventDefault, Handlers
<1>3. CASE value /\ p \notin prevent
  <2>1. prevent' = prevent \cup {p} /\ addActiveGlobalListener(n)
    BY <1>1, <1>3 DEF setPreventDefault
  <2>2. PICK b : b = Browser(aliases, p[2])
    OBVIOUS
  <2>3. /\ count' = Incremented(count, b)
        /\ listeners' = Relistened(listeners, b, count[b] # 0)
    BY <1>1, <2>1, <2>2, BrowserNameIs DEF addActiveGlobalListener, Incremented, Relistened, Listening
  <2>4. Accounts(aliases, late, Handlers, stop, prevent', count', listeners')
    BY <2>1, <2>2, <2>3, ActiveCounted DEF AccountInv
  <2> QED
    BY <1>2, <2>4 DEF AccountInv
<1>4. CASE ~value /\ p \in prevent
  <2>1. prevent' = prevent \ {p} /\ decrementCountByEventName(n)
    BY <1>1, <1>4 DEF setPreventDefault
  <2>2. /\ count' = Decremented(count, n)
        /\ listeners' = IF count[n] = 1 THEN Unlisten(listeners, n) ELSE listeners
    BY <2>1 DEF decrementCountByEventName, Decremented
  <2>3. OneLess(aliases, Handlers, stop, prevent, Handlers, stop, prevent', n)
    <3> SUFFICES ASSUME NEW m \in Names \ aliases
                 PROVE  Claims(aliases, Handlers, stop, prevent', m)
                   <= Claims(aliases, Handlers, stop, prevent, m) - (IF m = n THEN 1 ELSE 0)
      BY DEF OneLess
    <3>1. PICK h, s, q, q2 : /\ h = Cardinality(Mine(aliases, Handlers, m))
                             /\ s = Cardinality(Mine(aliases, stop, m))
                             /\ q = Cardinality(Mine(aliases, prevent, m))
                             /\ q2 = Cardinality(Mine(aliases, prevent', m))
      OBVIOUS
    <3>2. h \in Nat /\ s \in Nat /\ q \in Nat
      BY <3>1, AccountTypes, MineFinite
    <3>3. q2 = q - (IF Browser(aliases, n) = m THEN 1 ELSE 0)
      BY <1>1, <1>4, <2>1, <3>1, AccountTypes, MineRemoved
    <3>4. m = n => Browser(aliases, n) = m
      BY DEF Browser
    <3>5. PICK x, y : x = Claims(aliases, Handlers, stop, prevent, m) /\ y = Claims(aliases, Handlers, stop, prevent', m)
      OBVIOUS
    <3>6. x = h + s + q /\ y = h + s + q2
      BY <3>1, <3>5 DEF Claims
    <3>7. y <= x - (IF m = n THEN 1 ELSE 0)
      BY <3>2, <3>3, <3>4, <3>6
    <3> QED
      BY <3>5, <3>7
  <2>4. /\ Handlers \in SUBSET Handlers /\ stop \in SUBSET stop /\ prevent' \in SUBSET prevent
    BY <2>1
  <2>5. Accounts(aliases, late, Handlers, stop, prevent', count', listeners')
    BY <2>2, <2>3, <2>4, ClaimGivenBack DEF AccountInv
  <2> QED
    BY <1>2, <2>5 DEF AccountInv
<1>5. CASE ~(value /\ p \notin prevent) /\ ~(~value /\ p \in prevent)
  <2>1. UNCHANGED <<prevent, count, listeners>>
    BY <1>1, <1>5 DEF setPreventDefault
  <2> QED
    BY <1>2, <2>1 DEF AccountInv
<1> QED
  BY <1>3, <1>4, <1>5

(* removeListenersForElement gives back what the elements claimed.         *)
LEMMA DetachAccounts ==
  ASSUME TablesInv, AccountInv, NEW e \in Nested, removeListenersForElements(1..e),
         UNCHANGED <<aliases, late>>
  PROVE  AccountInv'
<1>1. PICK T \in SUBSET Places : T = {p \in Places : p[1] \in 1..e /\ handler[p] # Nothing}
  OBVIOUS
<1>2. PICK f : f = [n \in Names |-> Cardinality(Mine(aliases, T, n))]
  OBVIOUS
<1>3. \A n : {p \in T : BrowserName(p[2]) = n} = Mine(aliases, T, n)
  BY BrowserNameIs DEF Mine
<1>4. \A n \in Names : Cardinality({p \in T : BrowserName(p[2]) = n}) = f[n]
  BY <1>2, <1>3
<1>5. /\ handler' = [p \in Places |-> IF p \in T THEN Nothing ELSE handler[p]]
      /\ count' = [n \in Names |-> IF count[n] = NaN THEN NaN
                                   ELSE count[n] - Cardinality({p \in T : BrowserName(p[2]) = n})]
      /\ listeners' = {l \in listeners :
           l.name \notin {n \in Names : Cardinality({p \in T : BrowserName(p[2]) = n}) # 0
                                        /\ count[n] = Cardinality({p \in T : BrowserName(p[2]) = n})}
           \/ l.capture}
      /\ stop' \in SUBSET stop /\ prevent' \in SUBSET prevent
  BY <1>1 DEF removeListenersForElements
<1>6. count' = Reduced(count, f) /\ listeners' = Unlistened(listeners, count, f)
  BY <1>4, <1>5 DEF Reduced, Unlistened
<1>7. f \in [Names -> Nat]
  BY <1>2, MineFinite
<1>8. \A m \in aliases : f[m] = 0
  <2> SUFFICES ASSUME NEW m \in aliases PROVE f[m] = 0
    OBVIOUS
  <2>1. m \in Names
    BY AccountTypes, NameFacts
  <2>2. \A p \in T : Browser(aliases, p[2]) \in Names \ aliases
    BY AccountTypes, NameFacts, PlaceFacts
  <2>3. Mine(aliases, T, m) = {}
    BY <2>2 DEF Mine
  <2> QED
    BY <1>2, <2>1, <2>3, FS_EmptySet
<1>9. Handlers' = Handlers \ T /\ T \subseteq Handlers
  BY <1>1, <1>5 DEF Handlers
<1>10. ManyLess(aliases, Handlers, stop, prevent, Handlers', stop', prevent', f)
  <2> SUFFICES ASSUME NEW m \in Names \ aliases
               PROVE  Claims(aliases, Handlers', stop', prevent', m)
                        <= Claims(aliases, Handlers, stop, prevent, m) - f[m]
    BY DEF ManyLess
  <2>1. PICK h, h2, s, s2, q, q2 :
          /\ h = Cardinality(Mine(aliases, Handlers, m)) /\ h2 = Cardinality(Mine(aliases, Handlers', m))
          /\ s = Cardinality(Mine(aliases, stop, m)) /\ s2 = Cardinality(Mine(aliases, stop', m))
          /\ q = Cardinality(Mine(aliases, prevent, m)) /\ q2 = Cardinality(Mine(aliases, prevent', m))
    OBVIOUS
  <2>2. Handlers' \in SUBSET Places /\ stop' \in SUBSET Places /\ prevent' \in SUBSET Places
    BY <1>5, <1>9, AccountTypes
  <2>3. /\ h \in Nat /\ s \in Nat /\ q \in Nat /\ h2 \in Nat /\ s2 \in Nat /\ q2 \in Nat
    BY <2>1, <2>2, AccountTypes, MineFinite
  <2>4. s2 <= s /\ q2 <= q
    BY <1>5, <2>1, AccountTypes, MineFewer
  <2>5. h2 = h - f[m]
    <3>1. PICK X, Y : X = Mine(aliases, Handlers, m) /\ Y = Mine(aliases, T, m)
      OBVIOUS
    <3>2. Mine(aliases, Handlers', m) = X \ Y /\ X \cap Y = Y
      BY <1>9, <3>1 DEF Mine
    <3>3. IsFiniteSet(X)
      BY <3>1, AccountTypes, MineFinite
    <3>4. Cardinality(X \ Y) = Cardinality(X) - Cardinality(X \cap Y)
      BY <3>3, FS_Difference
    <3> QED
      BY <1>2, <2>1, <3>1, <3>2, <3>4
  <2>6. PICK x, y : /\ x = Claims(aliases, Handlers, stop, prevent, m)
                    /\ y = Claims(aliases, Handlers', stop', prevent', m)
    OBVIOUS
  <2>7. x = h + s + q /\ y = h2 + s2 + q2
    BY <2>1, <2>6 DEF Claims
  <2>8. f[m] \in Nat
    BY <1>7
  <2>9. y <= x - f[m]
    BY <2>3, <2>4, <2>5, <2>7, <2>8
  <2> QED
    BY <2>6, <2>9
<1>11. Handlers' \in SUBSET Handlers
  BY <1>9
<1>12. Accounts(aliases, late, Handlers', stop', prevent', count', listeners')
  BY <1>5, <1>6, <1>7, <1>8, <1>10, <1>11, ClaimsGivenBack DEF AccountInv
<1> QED
  BY <1>12 DEF AccountInv

(* A custom event type moves the claims for the alias to the browser's     *)
(* event.                                                                  *)
LEMMA RegisterAccounts ==
  ASSUME AccountInv, NEW a \in Aliases, registerCustomEventType(a)
  PROVE  AccountInv'
<1>1. /\ a \notin aliases /\ aliases' = aliases \cup {a}
      /\ late' = IF count[a] = 0 THEN late ELSE late \cup {a}
      /\ count' = [count EXCEPT ![a] = 0, ![Target] = Plus(@, count[a])]
      /\ UNCHANGED <<handler, stop, prevent>>
  BY DEF registerCustomEventType, handleEventNameAliasAdded
<1>2. a \in Names /\ Target \in Names /\ a # Target
  BY NameFacts
<1>3. count \in [Names -> Nat \cup {NaN}]
  BY AccountTypes
<1>4. count[a] \in Nat /\ count[Target] \in Nat
  BY <1>1, <1>2, <1>3, NameFacts DEF AccountInv, Accounts
<1>5. PICK c2 : c2 = count'
  OBVIOUS
<1>6. /\ c2 \in [Names -> Nat \cup {NaN}]
      /\ c2[a] = 0 /\ c2[Target] = Plus(count[Target], count[a])
      /\ \A m \in Names \ {a, Target} : c2[m] = count[m]
  BY <1>1, <1>2, <1>3, <1>4, <1>5 DEF Plus, NaN
<1>7. PICK K : K = Unlisten(listeners, a)
  OBVIOUS
<1>8. PICK active \in BOOLEAN : active = (Target \notin Passive)
  OBVIOUS
<1>9. /\ count[a] = 0 => listeners' = listeners
      /\ count[a] # 0 /\ count[Target] # 0 => listeners' = K
      /\ count[a] # 0 /\ count[Target] = 0 => listeners' = Listen(K, Target, active)
  BY <1>7, <1>8 DEF registerCustomEventType, handleEventNameAliasAdded
<1>10. PICK A2, lt2, L2 : A2 = aliases' /\ lt2 = late' /\ L2 = listeners'
  OBVIOUS
<1>11. Accounts(A2, lt2, Handlers, stop, prevent, c2, L2)
  BY <1>1, <1>6, <1>7, <1>9, <1>10, AliasCounted DEF AccountInv
<1>12. Handlers' = Handlers
  BY <1>1 DEF Handlers
<1>13. late' \subseteq aliases'
  BY <1>1 DEF AccountInv
<1> QED
  BY <1>1, <1>5, <1>10, <1>11, <1>12, <1>13 DEF AccountInv

(* Every step keeps the accounts.                                          *)
LEMMA AccountInvNext == TablesInv /\ AccountInv /\ [EventNext]_eventVars => AccountInv'
<1> SUFFICES ASSUME TablesInv, AccountInv, [EventNext]_eventVars PROVE AccountInv'
  OBVIOUS
<1>1. ASSUME UNCHANGED storeVars, UNCHANGED aliasVars PROVE AccountInv'
  BY <1>1 DEF storeVars, aliasVars, AccountInv, Handlers
<1>2. CASE UNCHANGED eventVars
  BY <1>1, <1>2 DEF eventVars
<1>3. CASE Register
  BY <1>3, RegisterAccounts DEF Register
<1>4. CASE Dispatch
  BY <1>1, <1>4 DEF Dispatch, onGlobalEvent, Look, ReadFlags, NextName
<1>5. CASE BeginBatch \/ EndEdits \/ EndBatch
  BY <1>1, <1>5 DEF BeginBatch, EndEdits, EndBatch
<1>6. ASSUME NEW e \in Nested, insertElement(e) PROVE AccountInv'
  BY <1>1, <1>6 DEF insertElement
<1>7. ASSUME NEW e \in Nested, removeElement(e) PROVE AccountInv'
  BY <1>1, <1>7 DEF removeElement
<1>8. ASSUME NEW e \in Nested, detachEventHandlersFromElement(e) PROVE AccountInv'
  BY <1>8, DetachAccounts DEF detachEventHandlersFromElement, aliasVars
<1>9. ASSUME NEW e \in Nested, NEW n \in Names, applyAttribute(e, n) PROVE AccountInv'
  <2>1. PICK id : id = issued + 1
    OBVIOUS
  <2>2. /\ issued < MaxIds /\ setListener(e, n, id) /\ UNCHANGED <<aliases, late>>
    BY <1>9, <2>1 DEF applyAttribute, aliasVars
  <2>3. id \in Ids /\ infos[id] = Nothing
    BY <2>1, <2>2, EventAssumption DEF TablesInv, TablesOK, IdsOnce, Ids
  <2> QED
    BY <2>2, <2>3, SetListenerAccounts
<1>10. ASSUME NEW e \in Nested, NEW n \in Names, removeAttribute(e, n) PROVE AccountInv'
  BY <1>1, <1>10 DEF removeAttribute
<1>11. ASSUME NEW e \in Nested, NEW n \in Names, NEW value \in BOOLEAN,
              applyInternalAttribute(e, n, value)
       PROVE  AccountInv'
  BY <1>11, StopAccounts, PreventAccounts DEF applyInternalAttribute, aliasVars
<1>12. ASSUME NEW id \in Ids, disposeEventHandler(id) PROVE AccountInv'
  BY <1>12, RemoveListenerAccounts DEF disposeEventHandler, aliasVars
<1>13. CASE Batch
  BY <1>5, <1>6, <1>7, <1>8, <1>9, <1>10, <1>11, <1>12, <1>13 DEF Batch
<1> QED
  BY <1>2, <1>3, <1>4, <1>13 DEF EventNext

-----------------------------------------------------------------------------
(* The walk of a dispatch over the elements.                               *)

(* The path of an event from e to the document's end.                      *)
From(e) == [k \in 1..(Depth - e + 1) |-> e + k - 1]

(* The elements from t to last that have a handler for n.                  *)
HandledUpTo(H, t, last, n) == {f \in t..last : H[<<f, n>>] # Nothing}

(* Elements below e were passed, and nothing stopped the event there.      *)
PassedQuietly(w, H, S, t, e) ==
  /\ \A f \in t..(e - 1) : <<f, w.name>> \notin S
  /\ w.name \in NonBubbling => e = t
  /\ w.held = Nothing
  /\ w.called = HandledUpTo(H, t, IF w.at = "look" THEN e - 1 ELSE e, w.name)

(* The elements at which the DOM would call a handler.                     *)
DomCalls(w, H, S, t) ==
  {e \in t..Depth :
     /\ H[<<e, w.name>>] # Nothing
     /\ w.name \in NonBubbling => e = t
     /\ \A f \in t..(e - 1) : <<f, w.name>> \notin S}

(* A walk is at an element from its target to the outermost; while no table*)
(* changes, it has called what the rules of the DOM give.                  *)
Follows(w, H, S) ==
  /\ w \in Walks
  /\ w.at # "flags" => w.held = Nothing
  /\ \E t \in Nested :
       /\ w.full = From(t)
       /\ w.at # "done" => \E e \in t..Depth : w.path = From(e) /\ (w.quiet => PassedQuietly(w, H, S, t, e))
       /\ w.at = "done" /\ w.quiet => w.called = DomCalls(w, H, S, t)

(* The walk under way, if there is one, follows the DOM.                   *)
WalkInv == walk # Nothing => Follows(walk, handler, stop)

(* The path starts at e and goes on above e.                               *)
LEMMA FromFacts ==
  ASSUME NEW e \in Nested
  PROVE  /\ From(e) \in Seq(Nested) /\ From(e) # <<>> /\ Head(From(e)) = e
         /\ Len(From(e)) = Depth - e + 1
         /\ e < Depth => Tail(From(e)) = From(e + 1)
<1>1. Depth \in Nat /\ e \in 1..Depth
  BY EventAssumption DEF Nested
<1>2. PICK n \in Nat : n = Depth - e + 1 /\ n >= 1
  BY <1>1
<1>3. PICK s : s = From(e)
  OBVIOUS
<1>4. s = [k \in 1..n |-> e + k - 1]
  BY <1>2, <1>3 DEF From
<1>5. \A k \in 1..n : e + k - 1 \in Nested
  BY <1>1, <1>2 DEF Nested
<1>6. s \in Seq(Nested) /\ Len(s) = n
  BY <1>4, <1>5
<1>7. s[1] = e
  BY <1>1, <1>2, <1>4
<1>8. s # <<>> /\ Head(s) = e
  BY <1>2, <1>6, <1>7
<1>9. e < Depth => Tail(s) = From(e + 1)
  <2> SUFFICES ASSUME e < Depth PROVE Tail(s) = From(e + 1)
    OBVIOUS
  <2>1. PICK r, m, d : r = Tail(s) /\ m = n - 1 /\ d = e + 1
    OBVIOUS
  <2>2. r \in Seq(Nested) /\ Len(r) = m /\ \A k \in 1..m : r[k] = s[k + 1]
    BY <1>6, <1>8, <2>1, TailFacts
  <2>3. \A k \in 1..m : s[k + 1] = d + k - 1
    BY <1>1, <1>2, <1>4, <2>1
  <2>4. r = [k \in 1..m |-> r[k]]
    BY <2>2
  <2>5. r = [k \in 1..m |-> d + k - 1]
    BY <2>2, <2>3, <2>4
  <2>6. m = Depth - d + 1
    BY <1>1, <1>2, <2>1
  <2> QED
    BY <2>1, <2>5, <2>6 DEF From
<1> QED
  BY <1>2, <1>3, <1>6, <1>8, <1>9

(* The end of the body of the loop keeps what the walk has called right.   *)
LEMMA UpFollows ==
  ASSUME NEW w \in Walks, NEW H, NEW S,
         NEW t \in Nested, NEW e \in t..Depth, w.full = From(t), w.path = From(e),
         NEW stopped \in BOOLEAN,
         w.quiet => /\ \A f \in t..(e - 1) : <<f, w.name>> \notin S
                    /\ w.name \in NonBubbling => e = t
                    /\ stopped = (<<e, w.name>> \in S)
                    /\ w.called = HandledUpTo(H, t, e, w.name)
  PROVE  Follows(Up(w, stopped), H, S)
<1>1. Depth \in Nat /\ t \in 1..Depth /\ e \in 1..Depth /\ e \in Nested
  BY EventAssumption DEF Nested
<1>2. PICK u : u = Up(w, stopped)
  OBVIOUS
<1>3. /\ w.path \in Seq(Nested) /\ w.path # <<>> /\ Len(w.path) = Depth - e + 1
      /\ e < Depth => Tail(w.path) = From(e + 1)
  BY <1>1, FromFacts
<1>4. PICK end \in BOOLEAN : end = (w.name \in NonBubbling \/ stopped \/ Len(w.path) = 1)
  OBVIOUS
<1>5. Len(w.path) = 1 <=> e = Depth
  BY <1>1, <1>3
<1>6. u = [w EXCEPT !.path = IF end THEN <<>> ELSE Tail(w.path),
                    !.at = IF end THEN "done" ELSE "look", !.held = Nothing]
  BY <1>2, <1>4 DEF Up
<1>7. u \in Walks
  <2>1. <<>> \in Seq(Nested)
    OBVIOUS
  <2>2. Tail(w.path) \in Seq(Nested)
    BY <1>3
  <2> QED
    BY <1>6, <2>1, <2>2 DEF Walks
<1>8. /\ u.full = w.full /\ u.name = w.name /\ u.called = w.called /\ u.quiet = w.quiet
      /\ u.held = Nothing
      /\ end => u.at = "done"
      /\ ~end => u.at = "look" /\ u.path = Tail(w.path)
  BY <1>6 DEF Walks
<1>9. CASE ~end
  <2>1. e # Depth
    BY <1>4, <1>5, <1>9
  <2>2. e < Depth /\ e + 1 \in t..Depth
    BY <1>1, <2>1
  <2>3. e + 1 \in t..Depth /\ u.path = From(e + 1)
    BY <1>3, <1>8, <1>9, <2>2
  <2>4. u.quiet => PassedQuietly(u, H, S, t, e + 1)
    <3> SUFFICES ASSUME u.quiet PROVE PassedQuietly(u, H, S, t, e + 1)
      OBVIOUS
    <3>1. /\ \A f \in t..(e - 1) : <<f, u.name>> \notin S
          /\ u.name \notin NonBubbling
          /\ <<e, u.name>> \notin S
          /\ u.called = HandledUpTo(H, t, e, u.name)
      BY <1>4, <1>8, <1>9
    <3>2. \A f \in t..((e + 1) - 1) : <<f, u.name>> \notin S
      <4> TAKE f \in t..((e + 1) - 1)
      <4>1. f = e \/ f \in t..(e - 1)
        BY <1>1
      <4> QED
        BY <3>1, <4>1
    <3>3. (e + 1) - 1 = e
      BY <1>1
    <3> QED
      BY <1>8, <1>9, <3>1, <3>2, <3>3 DEF PassedQuietly
  <2> QED
    BY <1>2, <1>7, <1>8, <1>9, <2>3, <2>4 DEF Follows
<1>10. CASE end
  <2>1. u.quiet => u.called = DomCalls(u, H, S, t)
    <3> SUFFICES ASSUME u.quiet PROVE u.called = DomCalls(u, H, S, t)
      OBVIOUS
    <3>1. /\ \A f \in t..(e - 1) : <<f, u.name>> \notin S
          /\ u.name \in NonBubbling => e = t
          /\ u.name \in NonBubbling \/ <<e, u.name>> \in S \/ e = Depth
          /\ u.called = HandledUpTo(H, t, e, u.name)
      BY <1>4, <1>5, <1>8, <1>10
    <3>2. ASSUME NEW f \in t..e, H[<<f, u.name>>] # Nothing PROVE f \in DomCalls(u, H, S, t)
      <4>1. f \in t..Depth /\ (u.name \in NonBubbling => f = t)
        BY <1>1, <3>1
      <4>2. \A g \in t..(f - 1) : g \in t..(e - 1)
        BY <1>1
      <4> QED
        BY <3>1, <3>2, <4>1, <4>2 DEF DomCalls
    <3>3. ASSUME NEW f \in DomCalls(u, H, S, t) PROVE f \in t..e
      <4>1. /\ f \in t..Depth /\ (u.name \in NonBubbling => f = t)
            /\ \A g \in t..(f - 1) : <<g, u.name>> \notin S
        BY DEF DomCalls
      <4>2. CASE f > e
        <5>1. e \in t..(f - 1) /\ f # t /\ e # Depth
          BY <1>1, <4>1, <4>2
        <5> QED
          BY <3>1, <4>1, <5>1
      <4> QED
        BY <1>1, <4>1, <4>2
    <3>4. \A f \in DomCalls(u, H, S, t) : H[<<f, u.name>>] # Nothing
      BY DEF DomCalls
    <3> QED
      BY <3>1, <3>2, <3>3, <3>4 DEF HandledUpTo
  <2> QED
    BY <1>2, <1>7, <1>8, <1>10, <2>1 DEF Follows
<1> QED
  BY <1>9, <1>10

(* The walk looks for a handler at its element.                            *)
LEMMA LookFollows ==
  ASSUME TablesInv, AccountInv, WalkInv, Look
  PROVE  WalkInv'
<1>1. /\ walk # Nothing /\ walk.at = "look" /\ UNCHANGED <<handler, stop>>
      /\ walk' = IF handler[<<Head(walk.path), walk.name>>] = Nothing
                 THEN Up(walk, walk.name \in StopsAt(Head(walk.path)))
                 ELSE [walk EXCEPT !.called = @ \cup {Head(walk.path)}, !.at = "flags"]
  BY DEF Look, Walking, storeVars
<1>2. /\ walk \in Walks /\ walk.held = Nothing /\ walk.name \in Names
      /\ walk.called \subseteq Nested
  BY <1>1 DEF WalkInv, Follows, Walks
<1>3. PICK t \in Nested : /\ walk.full = From(t)
                          /\ \E e \in t..Depth : walk.path = From(e) /\ (walk.quiet => PassedQuietly(walk, handler, stop, t, e))
  BY <1>1 DEF WalkInv, Follows
<1>4. PICK e \in t..Depth : walk.path = From(e) /\ (walk.quiet => PassedQuietly(walk, handler, stop, t, e))
  BY <1>3
<1>5. e \in Nested /\ t \in Int /\ e \in Int
  BY EventAssumption DEF Nested
<1>6. Head(walk.path) = e
  BY <1>4, <1>5, FromFacts
<1>7. walk.name \in StopsAt(e) <=> <<e, walk.name>> \in stop
  BY <1>2 DEF StopsAt
<1>8. walk.quiet => /\ \A f \in t..(e - 1) : <<f, walk.name>> \notin stop
                    /\ walk.name \in NonBubbling => e = t
                    /\ walk.called = HandledUpTo(handler, t, e - 1, walk.name)
  BY <1>1, <1>4 DEF PassedQuietly
<1>9. \A f : f \in t..e <=> f \in t..(e - 1) \/ f = e
  BY <1>5
<1>10. CASE handler[<<e, walk.name>>] = Nothing
  <2>1. (walk.name \in StopsAt(e)) \in BOOLEAN
    OBVIOUS
  <2>2. PICK stopped \in BOOLEAN : stopped = (walk.name \in StopsAt(e))
    BY <2>1
  <2>3. walk.quiet => stopped = (<<e, walk.name>> \in stop)
    BY <1>7, <2>2
  <2>4. walk' = Up(walk, stopped)
    BY <1>1, <1>6, <1>10, <2>2
  <2>5. HandledUpTo(handler, t, e - 1, walk.name) = HandledUpTo(handler, t, e, walk.name)
    BY <1>9, <1>10 DEF HandledUpTo
  <2>6. Follows(Up(walk, stopped), handler, stop)
    BY <1>2, <1>3, <1>4, <1>8, <2>3, <2>5, UpFollows
  <2> QED
    BY <1>1, <2>4, <2>6 DEF WalkInv
<1>11. CASE handler[<<e, walk.name>>] # Nothing
  <2>1. PICK w : w = walk'
    OBVIOUS
  <2>2. w = [walk EXCEPT !.called = @ \cup {e}, !.at = "flags"]
    BY <1>1, <1>6, <1>11, <2>1
  <2>3. w \in Walks
    BY <1>2, <1>5, <2>2 DEF Walks
  <2>4. /\ w.at = "flags" /\ w.full = walk.full /\ w.path = walk.path /\ w.name = walk.name
        /\ w.quiet = walk.quiet /\ w.held = walk.held /\ w.called = walk.called \cup {e}
    BY <1>2, <2>2 DEF Walks
  <2>5. HandledUpTo(handler, t, e - 1, walk.name) \cup {e} = HandledUpTo(handler, t, e, walk.name)
    BY <1>9, <1>11 DEF HandledUpTo
  <2>6. w.quiet => PassedQuietly(w, handler, stop, t, e)
    BY <1>2, <1>8, <2>4, <2>5 DEF PassedQuietly
  <2>7. Follows(w, handler, stop)
    BY <1>3, <1>4, <2>3, <2>4, <2>6 DEF Follows
  <2> QED
    BY <1>1, <2>1, <2>7 DEF WalkInv
<1> QED
  BY <1>10, <1>11

(* The walk reads the flags of its element once the handler has returned.  *)
LEMMA ReadFlagsFollows ==
  ASSUME WalkInv, ReadFlags
  PROVE  WalkInv'
<1>1. PICK stops : stops = IF walk.held = Nothing THEN StopsAt(Head(walk.path)) ELSE walk.held
  OBVIOUS
<1>0. (walk.name \in stops) \in BOOLEAN
  OBVIOUS
<1>2. PICK stopped \in BOOLEAN : stopped = (walk.name \in stops)
  BY <1>0
<1>3. /\ walk # Nothing /\ walk.at = "flags" /\ UNCHANGED <<handler, stop>>
      /\ walk' = Up(walk, stopped)
  BY <1>1, <1>2 DEF ReadFlags, Walking, storeVars
<1>4. walk \in Walks /\ walk.name \in Names
  BY <1>3 DEF WalkInv, Follows, Walks
<1>5. PICK t \in Nested : /\ walk.full = From(t)
                          /\ \E e \in t..Depth : walk.path = From(e) /\ (walk.quiet => PassedQuietly(walk, handler, stop, t, e))
  BY <1>3 DEF WalkInv, Follows
<1>6. PICK e \in t..Depth : walk.path = From(e) /\ (walk.quiet => PassedQuietly(walk, handler, stop, t, e))
  BY <1>5
<1>7. e \in Nested
  BY EventAssumption DEF Nested
<1>8. Head(walk.path) = e
  BY <1>6, <1>7, FromFacts
<1>9. walk.quiet => /\ \A f \in t..(e - 1) : <<f, walk.name>> \notin stop
                    /\ walk.name \in NonBubbling => e = t
                    /\ walk.held = Nothing
                    /\ walk.called = HandledUpTo(handler, t, e, walk.name)
  BY <1>3, <1>6 DEF PassedQuietly
<1>10. walk.quiet => stopped = (<<e, walk.name>> \in stop)
  BY <1>1, <1>2, <1>4, <1>8, <1>9 DEF StopsAt
<1>11. Follows(Up(walk, stopped), handler, stop)
  BY <1>4, <1>5, <1>6, <1>9, <1>10, UpFollows
<1> QED
  BY <1>3, <1>11 DEF WalkInv

(* The walk is over; another name of the same browser event, an alias,     *)
(* starts the next one.                                                    *)
LEMMA NextNameFollows ==
  ASSUME AccountInv, WalkInv, NextName
  PROVE  WalkInv'
<1>1. PICK left : left = IF walk.name = walk.event /\ walk.event = Target THEN aliases ELSE walk.left
  OBVIOUS
<1>2. /\ walk # Nothing /\ walk.at = "done" /\ UNCHANGED <<handler, stop>>
      /\ IF left = {} THEN walk' = Nothing
         ELSE \E n \in left :
                walk' = [walk EXCEPT !.name = n, !.left = left \ {n}, !.path = walk.full,
                                     !.at = "look", !.called = {}, !.quiet = TRUE]
  BY <1>1 DEF NextName, Walking, storeVars
<1>3. walk \in Walks /\ walk.left \subseteq Names /\ walk.held = Nothing
  BY <1>2 DEF WalkInv, Follows, Walks
<1>4. PICK t \in Nested : walk.full = From(t)
  BY <1>2 DEF WalkInv, Follows
<1>5. left \subseteq Names
  BY <1>1, <1>3, AccountTypes, NameFacts
<1>6. CASE left = {}
  BY <1>2, <1>6 DEF WalkInv
<1>7. ASSUME NEW n \in left,
             walk' = [walk EXCEPT !.name = n, !.left = left \ {n}, !.path = walk.full,
                                  !.at = "look", !.called = {}, !.quiet = TRUE]
      PROVE  WalkInv'
  <2>1. PICK w : w = walk'
    OBVIOUS
  <2>2. w \in Walks
    BY <1>3, <1>5, <1>7, <2>1 DEF Walks
  <2>3. /\ w.name = n /\ w.at = "look" /\ w.called = {} /\ w.held = Nothing
        /\ w.full = walk.full /\ w.path = walk.full
    BY <1>3, <1>7, <2>1 DEF Walks
  <2>4. t \in t..Depth /\ t - 1 < t /\ t \in Int
    BY EventAssumption DEF Nested
  <2>5. PassedQuietly(w, handler, stop, t, t)
    BY <2>3, <2>4 DEF PassedQuietly, HandledUpTo
  <2>6. Follows(w, handler, stop)
    BY <1>4, <2>2, <2>3, <2>4, <2>5 DEF Follows
  <2> QED
    BY <1>2, <2>1, <2>6 DEF WalkInv
<1> QED
  BY <1>2, <1>6, <1>7

(* The browser's event starts the walk at its target.                      *)
LEMMA EventFollows ==
  ASSUME NEW b \in BrowserNames, NEW e \in Nested, onGlobalEvent(b, e)
  PROVE  WalkInv'
<1>1. PICK w : w = walk'
  OBVIOUS
<1>2. /\ w = [event |-> b, name |-> b, left |-> {}, full |-> From(e), path |-> From(e),
              at |-> "look", held |-> Nothing, called |-> {}, quiet |-> TRUE, base |-> phase]
      /\ phase \in {"idle", "edits"} /\ UNCHANGED <<handler, stop>>
  BY <1>1 DEF onGlobalEvent, From, storeVars
<1>3. w \in Walks
  BY <1>2, FromFacts DEF Walks, Names
<1>4. e \in e..Depth /\ e - 1 < e /\ e \in Int
  BY EventAssumption DEF Nested
<1>5. PassedQuietly(w, handler, stop, e, e)
  BY <1>2, <1>4 DEF PassedQuietly, HandledUpTo
<1>6. Follows(w, handler, stop)
  BY <1>2, <1>3, <1>4, <1>5 DEF Follows
<1> QED
  BY <1>1, <1>2, <1>6 DEF WalkInv

(* A walk that is told that tables changed promises nothing any more.      *)
LEMMA UnquietFollows ==
  ASSUME WalkInv, NEW E, Unquiet(E)
  PROVE  WalkInv'
<1>1. CASE walk = Nothing
  BY <1>1 DEF Unquiet, WalkInv
<1>2. CASE walk # Nothing
  <2>1. PICK w, h : /\ w = walk'
                    /\ h = IF walk.at = "flags" /\ walk.held = Nothing /\ Head(walk.path) \in E
                           THEN StopsAt(Head(walk.path)) ELSE walk.held
    OBVIOUS
  <2>2. w = [walk EXCEPT !.quiet = FALSE, !.held = h]
    BY <1>2, <2>1 DEF Unquiet
  <2>3. walk \in Walks /\ (walk.at # "flags" => walk.held = Nothing)
    BY <1>2 DEF WalkInv, Follows
  <2>4. h \in (SUBSET Names) \cup {Nothing} /\ (walk.at # "flags" => h = Nothing)
    BY <2>1, <2>3 DEF StopsAt, Walks
  <2>5. w \in Walks
    BY <2>2, <2>3, <2>4 DEF Walks
  <2>6. w.quiet = FALSE /\ w.held = h /\ w.at = walk.at /\ w.full = walk.full /\ w.path = walk.path
    BY <2>2, <2>3 DEF Walks
  <2>7. Follows(w, handler', stop')
    BY <1>2, <2>4, <2>5, <2>6 DEF WalkInv, Follows
  <2> QED
    BY <2>1, <2>7 DEF WalkInv
<1> QED
  BY <1>1, <1>2

(* A custom event type is registered, perhaps by a handler of the walk.    *)
LEMMA RegisterFollows ==
  ASSUME WalkInv, NEW a \in Aliases, registerCustomEventType(a)
  PROVE  WalkInv'
<1>1. walk' = IF walk = Nothing THEN Nothing ELSE [walk EXCEPT !.quiet = FALSE]
  BY DEF registerCustomEventType
<1>2. CASE walk = Nothing
  BY <1>1, <1>2 DEF WalkInv
<1>3. CASE walk # Nothing
  <2>1. PICK w : w = walk'
    OBVIOUS
  <2>2. walk \in Walks
    BY <1>3 DEF WalkInv, Follows
  <2>3. w \in Walks
    BY <1>1, <1>3, <2>1, <2>2 DEF Walks
  <2>4. w.quiet = FALSE /\ w.held = walk.held /\ w.at = walk.at /\ w.full = walk.full /\ w.path = walk.path
    BY <1>1, <1>3, <2>1, <2>2 DEF Walks
  <2>5. Follows(w, handler', stop')
    BY <1>3, <2>3, <2>4 DEF WalkInv, Follows
  <2> QED
    BY <2>1, <2>5 DEF WalkInv
<1> QED
  BY <1>2, <1>3

(* Every step keeps WalkInv.                                               *)
LEMMA WalkInvNext ==
  TablesInv /\ AccountInv /\ WalkInv /\ [EventNext]_eventVars => WalkInv'
<1> SUFFICES ASSUME TablesInv, AccountInv, WalkInv, [EventNext]_eventVars PROVE WalkInv'
  OBVIOUS
<1>1. ASSUME UNCHANGED storeVars, UNCHANGED walk PROVE WalkInv'
  BY <1>1 DEF storeVars, WalkInv
<1>2. CASE UNCHANGED eventVars
  BY <1>1, <1>2 DEF eventVars
<1>3. CASE Register
  BY <1>3, RegisterFollows DEF Register
<1>4. CASE Dispatch
  BY <1>4, LookFollows, ReadFlagsFollows, NextNameFollows, EventFollows DEF Dispatch
<1>5. CASE BeginBatch \/ EndEdits \/ EndBatch
  BY <1>1, <1>5 DEF BeginBatch, EndEdits, EndBatch
<1>6. ASSUME NEW e \in Nested, insertElement(e) \/ removeElement(e) PROVE WalkInv'
  BY <1>1, <1>6 DEF insertElement, removeElement
<1>7. ASSUME NEW e \in Nested, detachEventHandlersFromElement(e) PROVE WalkInv'
  BY <1>7, UnquietFollows DEF detachEventHandlersFromElement
<1>8. ASSUME NEW e \in Nested, NEW n \in Names, applyAttribute(e, n) PROVE WalkInv'
  BY <1>8, UnquietFollows DEF applyAttribute
<1>9. ASSUME NEW e \in Nested, NEW n \in Names, removeAttribute(e, n) PROVE WalkInv'
  BY <1>1, <1>9 DEF removeAttribute
<1>10. ASSUME NEW e \in Nested, NEW n \in Names, NEW value \in BOOLEAN,
              applyInternalAttribute(e, n, value)
       PROVE  WalkInv'
  BY <1>10, UnquietFollows DEF applyInternalAttribute
<1>11. ASSUME NEW id \in Ids, disposeEventHandler(id) PROVE WalkInv'
  BY <1>11, UnquietFollows DEF disposeEventHandler
<1>12. CASE Batch
  BY <1>5, <1>6, <1>7, <1>8, <1>9, <1>10, <1>11, <1>12 DEF Batch
<1> QED
  BY <1>2, <1>3, <1>4, <1>12 DEF EventNext

-----------------------------------------------------------------------------
(* The document, and the phases of a batch.                                *)
DocumentOK ==
  /\ document \subseteq Nested /\ gone \subseteq Nested /\ document \cap gone = {}
  /\ phase \in {"idle", "edits", "disposals"} /\ edits \in 0..MaxEdits

(* Every step keeps DocumentOK.                                            *)
LEMMA DocumentNext == DocumentOK /\ [EventNext]_eventVars => DocumentOK'
<1> SUFFICES ASSUME DocumentOK, [EventNext]_eventVars PROVE DocumentOK'
  OBVIOUS
<1>1. /\ document \subseteq Nested /\ gone \subseteq Nested /\ document \cap gone = {}
      /\ phase \in {"idle", "edits", "disposals"} /\ edits \in 0..MaxEdits
  BY DEF DocumentOK
<1>2. ASSUME UNCHANGED <<document, gone, edits>>, phase' \in {"idle", "edits", "disposals"}
      PROVE  DocumentOK'
  BY <1>1, <1>2 DEF DocumentOK
<1>3. CASE UNCHANGED eventVars
  BY <1>1, <1>2, <1>3 DEF eventVars, netVars
<1>4. CASE Register \/ Dispatch
  BY <1>1, <1>2, <1>4 DEF Register, registerCustomEventType, Dispatch, onGlobalEvent, Look,
                          ReadFlags, NextName, netVars
<1>5. CASE BeginBatch \/ EndEdits \/ EndBatch
  BY <1>2, <1>5 DEF BeginBatch, EndEdits, EndBatch
<1>6. ASSUME NEW e, Edit(e) PROVE edits' \in 0..MaxEdits
  BY <1>1, <1>6, EventAssumption DEF Edit
<1>7. ASSUME NEW e \in Nested, insertElement(e) PROVE DocumentOK'
  <2>1. edits' \in 0..MaxEdits
    BY <1>6, <1>7 DEF insertElement
  <2> QED
    BY <1>1, <1>7, <2>1 DEF insertElement, DocumentOK
<1>8. ASSUME NEW E, Leave(E), edits' \in 0..MaxEdits, phase' = phase PROVE DocumentOK'
  BY <1>1, <1>8 DEF Leave, DocumentOK
<1>9. ASSUME NEW e \in Nested, removeElement(e) PROVE DocumentOK'
  BY <1>6, <1>8, <1>9 DEF removeElement
<1>10. ASSUME NEW e \in Nested, detachEventHandlersFromElement(e) PROVE DocumentOK'
  BY <1>6, <1>8, <1>10 DEF detachEventHandlersFromElement
<1>11. ASSUME edits' \in 0..MaxEdits, UNCHANGED <<document, gone, phase>> PROVE DocumentOK'
  BY <1>1, <1>11 DEF DocumentOK
<1>12. ASSUME NEW e \in Nested, NEW n \in Names, applyAttribute(e, n) \/ removeAttribute(e, n)
       PROVE  DocumentOK'
  BY <1>6, <1>11, <1>12 DEF applyAttribute, removeAttribute
<1>13. ASSUME NEW e \in Nested, NEW n \in Names, NEW value \in BOOLEAN,
              applyInternalAttribute(e, n, value)
       PROVE  DocumentOK'
  BY <1>6, <1>11, <1>13 DEF applyInternalAttribute
<1>14. ASSUME NEW id \in Ids, disposeEventHandler(id) PROVE DocumentOK'
  BY <1>1, <1>2, <1>14 DEF disposeEventHandler
<1>15. CASE Batch
  BY <1>5, <1>7, <1>9, <1>10, <1>12, <1>13, <1>14, <1>15 DEF Batch
<1> QED
  BY <1>3, <1>4, <1>15 DEF EventNext

-----------------------------------------------------------------------------
(* The inductive invariant of event delegation.                            *)
EventInv == TablesInv /\ AccountInv /\ WalkInv /\ DocumentOK

(* At the start there are no handlers and no listeners.                    *)
LEMMA EventInvInit == EventInit => EventInv
<1> SUFFICES ASSUME EventInit PROVE EventInv
  OBVIOUS
<1> USE DEF EventInit
<1>1. TablesInv
  <2>1. \A i \in Ids : infos[i] = Nothing
    OBVIOUS
  <2>2. \A p \in Places : handler[p] = Nothing /\ renderedIds[p] = Nothing
    OBVIOUS
  <2>3. TablesOK
    BY EventAssumption DEF TablesOK
  <2>4. TablesAgree
    BY <2>1, <2>2 DEF TablesAgree
  <2>5. IdsOnce
    BY <2>1, <2>2 DEF IdsOnce
  <2>6. Tracked
    BY <2>1, <2>2 DEF Tracked
  <2> QED
    BY <2>3, <2>4, <2>5, <2>6 DEF TablesInv
<1>2. AccountInv
  <2>1. Handlers = {}
    BY DEF Handlers
  <2>2. \A n : Mine({}, {}, n) = {}
    BY DEF Mine
  <2>3. Cardinality({}) = 0
    BY FS_EmptySet
  <2>4. \A n : Claims({}, {}, {}, {}, n) = 0
    BY <2>2, <2>3 DEF Claims
  <2>5. \A n \in Names : count[n] = 0
    OBVIOUS
  <2>6. count \in [Names -> Nat \cup {NaN}]
    OBVIOUS
  <2>7. \A n \in Names : count[n] # NaN /\ count[n] >= Claims({}, {}, {}, {}, n)
    BY <2>4, <2>5 DEF NaN
  <2>8. Accounts({}, {}, {}, {}, {}, count, {})
    BY <2>5, <2>6, <2>7 DEF Accounts
  <2> QED
    BY <2>1, <2>8 DEF AccountInv
<1>3. WalkInv
  BY DEF WalkInv
<1>4. DocumentOK
  BY EventAssumption DEF DocumentOK, Nested
<1> QED
  BY <1>1, <1>2, <1>3, <1>4 DEF EventInv

(* Every step keeps EventInv.                                              *)
LEMMA EventInvNext == EventInv /\ [EventNext]_eventVars => EventInv'
  BY TablesInvNext, AccountInvNext, WalkInvNext, DocumentNext DEF EventInv

(* EventInv holds in every behaviour.                                      *)
LEMMA EventInvariant == EventSpec => []EventInv
  BY EventInvInit, EventInvNext, PTL DEF EventSpec

(* EventInv has the types of EventDelegation in it.                        *)
LEMMA EventTyped == EventInv => EventTypeOK
<1> SUFFICES ASSUME EventInv PROVE EventTypeOK
  OBVIOUS
<1>1. TablesOK /\ DocumentOK
  BY DEF EventInv, TablesInv
<1>2. /\ aliases \subseteq Aliases /\ late \subseteq aliases
      /\ stop \subseteq Places /\ prevent \subseteq Places
      /\ count \in [Names -> Nat \cup {NaN}]
      /\ listeners \subseteq Listeners
  BY DEF EventInv, AccountInv, Accounts
<1>3. walk \in Walks \cup {Nothing}
  BY DEF EventInv, WalkInv, Follows
<1> QED
  BY <1>1, <1>2, <1>3 DEF EventTypeOK, TablesOK, DocumentOK, Listeners

(* Event delegation, for any elements, event names and handlers            *)
(* (EventDelegator.ts, BrowserRenderer.ts): a handler that infos keeps is  *)
(* rendered or about to be disposed with the batch under way, and an event *)
(* handler that is rendered is the one infos knows for its place.          *)
THEOREM HandlersAreLive == EventSpec => []TrackedAreLive
<1>1. EventInv => TrackedAreLive
  BY EventTyped DEF EventInv, TablesInv, Tracked, TrackedAreLive
<1> QED
  BY <1>1, EventInvariant, PTL

(* EventInv implies that the document listens for every place.             *)
LEMMA EventsReach == EventInv => EventsArrive
<1> SUFFICES ASSUME EventInv, NEW p \in Places
             PROVE  /\ handler[p] # Nothing \/ p \in stop \/ p \in prevent
                         => ListensTo(BrowserName(p[2]), listeners)
                    /\ p \in prevent /\ p[2] \notin late
                         => ListensTo(BrowserName(p[2]), {l \in listeners : l.active})
  BY DEF EventsArrive
<1>1. Accounts(aliases, late, Handlers, stop, prevent, count, listeners)
  BY DEF EventInv, AccountInv
<1>2. PICK n : n = BrowserName(p[2])
  OBVIOUS
<1>3. n = Browser(aliases, p[2]) /\ n \in Names \ aliases
  BY <1>1, <1>2, BrowserNameIs, NameFacts, PlaceFacts DEF Accounts
<1>4. ASSUME p \in Handlers \cup stop \cup prevent PROVE ListensTo(n, listeners)
  <2>1. /\ Handlers \in SUBSET Places /\ stop \in SUBSET Places /\ prevent \in SUBSET Places
    BY <1>1 DEF Accounts
  <2>2. Claims(aliases, Handlers, stop, prevent, n) # 0
    BY <1>3, <1>4, <2>1, Claimed
  <2>3. Claims(aliases, Handlers, stop, prevent, n) \in Nat
    BY <2>1, ClaimsNat
  <2>4. count[n] # NaN /\ count[n] >= Claims(aliases, Handlers, stop, prevent, n) /\ count[n] \in Nat \cup {NaN}
    BY <1>1, <1>3 DEF Accounts
  <2>5. count[n] \notin {0, NaN}
    BY <2>2, <2>3, <2>4
  <2> QED
    BY <1>1, <1>3, <2>5 DEF Accounts
<1>5. ASSUME p \in prevent, p[2] \notin late PROVE ListensTo(n, {l \in listeners : l.active})
  <2>1. ListensActively(n, listeners)
    BY <1>1, <1>3, <1>5 DEF Accounts
  <2> QED
    BY <2>1 DEF ListensActively, ListensTo
<1> QED
  BY <1>2, <1>4, <1>5 DEF Handlers

(* For any elements, names and aliases, with custom event types registered *)
(* at any time: the document listens for the browser's event of every      *)
(* handler and flag, actively for each preventDefault that is not older    *)
(* than its alias, however often claims were given back (EventInfoStore:   *)
(* addGlobalListener, decrementCountByEventName).                          *)
THEOREM ListenersStay == EventSpec => []EventsArrive
  BY EventInvariant, EventsReach, PTL

(* EventInv implies that the handlers called are those the DOM would call. *)
LEMMA CallsAreTheDoms == EventInv => BubblesLikeTheDom
<1> SUFFICES ASSUME EventInv, walk # Nothing, walk.at = "done", walk.quiet
             PROVE  walk.called = {e \in Head(walk.full)..Depth :
                     /\ handler[<<e, walk.name>>] # Nothing
                     /\ walk.name \in NonBubbling => e = Head(walk.full)
                     /\ \A f \in Head(walk.full)..(e - 1) : <<f, walk.name>> \notin stop}
  BY DEF BubblesLikeTheDom
<1>1. PICK t \in Nested : walk.full = From(t) /\ walk.called = DomCalls(walk, handler, stop, t)
  BY DEF EventInv, WalkInv, Follows
<1>2. Head(walk.full) = t
  BY <1>1, FromFacts
<1> QED
  BY <1>1, <1>2 DEF DomCalls

(* For any depth of the page: an event during whose dispatch no table      *)
(* changed called the handlers which the DOM itself would have called on   *)
(* the way from its target to the top (EventDelegator.onGlobalEvent).      *)
THEOREM CallsLikeTheDom == EventSpec => []BubblesLikeTheDom
  BY EventInvariant, CallsAreTheDoms, PTL
-----------------------------------------------------------------------------
(* Calls on a JavaScript member. A handler made once is kept for every     *)
(* later call of its type: CallsFollowTheMember needs that the one kept    *)
(* for reading looks at the member whenever it runs (MemberInv), and that  *)
(* JavaScript's lookup has one place that decides (FirstFacts).            *)

Chains == [1..ChainLength -> Descriptors \cup {Missing}]

(* A handler of reading or writing looks again whenever it runs.           *)
MemberInv ==
  /\ own \in Chains
  /\ cachedHandlers["GetValue"] \in {Missing, "GetValue"}
  /\ DOMAIN cachedHandlers = CallTypes

(* The place that decides.                                                 *)
LEMMA FirstFacts ==
  ASSUME NEW O, In(O) # {}
  PROVE  First(O) \in In(O) /\ \A k \in In(O) : First(O) <= k
<1>1. In(O) \subseteq Nat
  BY DEF In
<1>2. \E l \in In(O) : \A k \in In(O) : l <= k
  BY <1>1, LeastOf
<1> QED
  BY <1>2 DEF First

(* It is a place of the chain, and holds one of the two kinds of members.  *)
LEMMA FirstIs ==
  ASSUME NEW O \in Chains, In(O) # {}
  PROVE  /\ First(O) \in 1..ChainLength /\ O[First(O)] \in Descriptors
         /\ O[First(O)].kind \in {"data", "accessor"}
<1>1. First(O) \in 1..ChainLength /\ O[First(O)] # Missing
  BY FirstFacts DEF In
<1>2. O[First(O)] \in Descriptors
  BY <1>1 DEF Chains
<1>3. \A d \in Descriptors : d.kind \in {"data", "accessor"}
  BY DEF Descriptors
<1> QED
  BY <1>1, <1>2, <1>3

(* An assignment to a member that is not an accessor's can be read.        *)
LEMMA SetIsRead ==
  ASSUME MemberAssumption, own \in Chains, NEW v \in Data, Set(v)
  PROVE  /\ own' \in Chains
         /\ Get(own)' = v \/ own'[First(own')].kind = "accessor"
<1>1. CASE In(own) # {} /\ own[First(own)].kind = "accessor"
  BY <1>1 DEF Set
<1>2. CASE ~(In(own) # {} /\ own[First(own)].kind = "accessor")
  <2>1. own' = [own EXCEPT ![1] = DataOf(v)]
    BY <1>2 DEF Set
  <2>2. 1 \in 1..ChainLength
    BY MemberAssumption
  <2>3. PICK d : d = DataOf(v)
    OBVIOUS
  <2>4. d \in Descriptors /\ d # Missing /\ d.kind = "data" /\ d.value = v
    <3>1. v \in Values
      BY DEF Values
    <3>2. d.kind = "data" /\ d.value = v
      BY <2>3 DEF DataOf
    <3>3. d \in [kind : {"data"}, value : Values, writable : BOOLEAN]
      BY <2>3, <3>1 DEF DataOf
    <3> QED
      BY <3>2, <3>3, MemberAssumption DEF Descriptors
  <2>5. own' \in Chains /\ own'[1] = d
    BY <2>1, <2>2, <2>3, <2>4 DEF Chains
  <2>6. 1 \in In(own')
    BY <2>2, <2>4, <2>5 DEF In
  <2>7. First(own') \in In(own') /\ First(own') <= 1
    BY <2>6, FirstFacts
  <2>8. First(own') = 1
    BY <2>7 DEF In
  <2>9. Get(own)' = v
    BY <2>4, <2>5, <2>6, <2>8 DEF Get
  <2> QED
    BY <2>5, <2>9
<1> QED
  BY <1>1, <1>2

(* What one step does: see CallsFollowTheMember.                           *)
FreshIsRefused ==
  outcome'.fresh =>
    (outcome'.threw <=>
       CASE outcome'.callType = "SetValue" -> ~CanSet(own)
         [] outcome'.callType = "GetValue" ->
              In(own) = {} \/ (own[First(own)].kind = "accessor" /\ ~own[First(own)].get)
         [] OTHER -> Get(own) \notin Functions)

ReadsAndWrites ==
  /\ outcome'.callType = "GetValue" /\ ~outcome'.threw => outcome'.value = Get(own)
  /\ outcome'.callType = "SetValue" /\ ~outcome'.threw =>
       Get(own)' = outcome'.value \/ own'[First(own')].kind = "accessor"

(* Running a handler.                                                      *)
LEMMA RunFollows ==
  ASSUME MemberAssumption, own \in Chains, NEW t \in CallTypes, NEW h, NEW v \in Data,
         t = "GetValue" => h = "GetValue", Run(t, h, v)
  PROVE  /\ own' \in Chains /\ ReadsAndWrites
         /\ outcome'.callType = t /\ outcome'.fresh = (cachedHandlers[t] = Missing)
         /\ outcome'.threw = (t = "SetValue" /\ ~CanSet(own))
<1>1. CASE t # "SetValue"
  <2>1. /\ UNCHANGED own
        /\ \E x : /\ t = "GetValue" => x = Get(own)
                  /\ outcome' = [callType |-> t, fresh |-> cachedHandlers[t] = Missing,
                                 threw |-> FALSE, value |-> x]
    BY <1>1 DEF Run, Outcome
  <2>2. /\ outcome'.callType = t /\ outcome'.fresh = (cachedHandlers[t] = Missing)
        /\ outcome'.threw = FALSE /\ (t = "GetValue" => outcome'.value = Get(own))
    BY <2>1
  <2> QED
    BY <1>1, <2>1, <2>2 DEF ReadsAndWrites
<1>2. CASE t = "SetValue" /\ CanSet(own)
  <2>1. /\ Set(v)
        /\ outcome' = [callType |-> t, fresh |-> cachedHandlers[t] = Missing,
                       threw |-> FALSE, value |-> v]
    BY <1>2 DEF Run, Outcome
  <2>2. /\ outcome'.callType = t /\ outcome'.fresh = (cachedHandlers[t] = Missing)
        /\ outcome'.threw = FALSE /\ outcome'.value = v
    BY <2>1
  <2>3. own' \in Chains /\ (Get(own)' = v \/ own'[First(own')].kind = "accessor")
    BY <2>1, SetIsRead
  <2> QED
    BY <1>2, <2>2, <2>3 DEF ReadsAndWrites
<1>3. CASE t = "SetValue" /\ ~CanSet(own)
  <2>1. /\ UNCHANGED own
        /\ outcome' = [callType |-> t, fresh |-> cachedHandlers[t] = Missing,
                       threw |-> TRUE, value |-> Missing]
    BY <1>3 DEF Run, Outcome
  <2>2. /\ outcome'.callType = t /\ outcome'.fresh = (cachedHandlers[t] = Missing)
        /\ outcome'.threw = TRUE
    BY <2>1
  <2> QED
    BY <1>3, <2>1, <2>2 DEF ReadsAndWrites
<1> QED
  BY <1>1, <1>2, <1>3

(* What the code allows is what JavaScript can do, but for an assignment   *)
(* to a member of a prototype, which JavaScript refuses itself.            *)
LEMMA AllowedIs ==
  ASSUME own \in Chains, NEW t \in CallTypes
  PROVE  /\ t = "SetValue" /\ CanSet(own) => Allowed(t)
         /\ t = "GetValue" =>
              (Allowed(t) <=> ~(In(own) = {} \/ (own[First(own)].kind = "accessor" /\ ~own[First(own)].get)))
         /\ t \notin {"GetValue", "SetValue"} => (Allowed(t) <=> Get(own) \in Functions)
<1>1. CASE t = "SetValue"
  <2>1. Allowed(t) = isWritableProperty
    BY <1>1 DEF Allowed
  <2>2. CanSet(own) => isWritableProperty
    BY DEF CanSet, isWritableProperty
  <2> QED
    BY <1>1, <2>1, <2>2
<1>2. CASE t = "GetValue"
  <2>1. Allowed(t) = isReadableProperty
    BY <1>2 DEF Allowed
  <2>2. isReadableProperty <=>
          ~(In(own) = {} \/ (own[First(own)].kind = "accessor" /\ ~own[First(own)].get))
    BY FirstIs DEF isReadableProperty
  <2> QED
    BY <1>2, <2>1, <2>2
<1>3. CASE t \notin {"GetValue", "SetValue"}
  BY <1>3 DEF Allowed
<1> QED
  BY <1>1, <1>2, <1>3

(* A step of the page is no call.                                          *)
LEMMA NoCallFollows ==
  ASSUME MemberAssumption, outcome' = NoCall
  PROVE  FreshIsRefused /\ ReadsAndWrites
<1>1. /\ outcome'.callType = Missing /\ outcome'.fresh = FALSE
  BY DEF NoCall
<1>2. Missing \notin {"GetValue", "SetValue"}
  BY MemberAssumption DEF CallTypes
<1> QED
  BY <1>1, <1>2 DEF FreshIsRefused, ReadsAndWrites

(* A call, its handler kept from an earlier one or made and kept now.      *)
LEMMA CallFollows ==
  ASSUME MemberAssumption, MemberInv, NEW t \in CallTypes, NEW v \in Data, Call(t, v)
  PROVE  MemberInv' /\ FreshIsRefused /\ ReadsAndWrites
<1>1. own \in Chains /\ cachedHandlers["GetValue"] \in {Missing, "GetValue"} /\ DOMAIN cachedHandlers = CallTypes
  BY DEF MemberInv
<1>2. CASE cachedHandlers[t] # Missing
  <2>1. Run(t, cachedHandlers[t], v) /\ UNCHANGED cachedHandlers
    BY <1>2 DEF Call
  <2>2. t = "GetValue" => cachedHandlers[t] = "GetValue"
    BY <1>1, <1>2
  <2>3. /\ own' \in Chains /\ ReadsAndWrites /\ outcome'.fresh = FALSE
    BY <1>1, <1>2, <2>1, <2>2, RunFollows
  <2> QED
    BY <1>1, <2>1, <2>3 DEF MemberInv, FreshIsRefused
<1>3. CASE cachedHandlers[t] = Missing /\ Allowed(t)
  <2>1. PICK h : h = wrapJSCallAsFunction(t)
    OBVIOUS
  <2>2. cachedHandlers' = [cachedHandlers EXCEPT ![t] = h] /\ Run(t, cachedHandlers'[t], v)
    BY <1>3, <2>1 DEF Call
  <2>3. cachedHandlers'[t] = h /\ (t = "GetValue" => h = "GetValue")
    BY <1>1, <2>1, <2>2 DEF wrapJSCallAsFunction
  <2>4. /\ own' \in Chains /\ ReadsAndWrites
        /\ outcome'.callType = t /\ outcome'.threw = (t = "SetValue" /\ ~CanSet(own))
    BY <1>1, <2>2, <2>3, RunFollows
  <2>5. FreshIsRefused
    BY <1>1, <1>3, <2>4, AllowedIs DEF FreshIsRefused
  <2>6. MemberInv'
    BY <1>1, <2>2, <2>3, <2>4 DEF MemberInv, CallTypes
  <2> QED
    BY <2>4, <2>5, <2>6
<1>4. CASE cachedHandlers[t] = Missing /\ ~Allowed(t)
  <2>1. /\ outcome' = [callType |-> t, fresh |-> cachedHandlers[t] = Missing, threw |-> TRUE, value |-> Missing]
        /\ UNCHANGED <<own, cachedHandlers>>
    BY <1>4 DEF Call, Outcome
  <2>2. outcome'.callType = t /\ outcome'.threw = TRUE
    BY <2>1
  <2>3. FreshIsRefused
    BY <1>1, <1>4, <2>2, AllowedIs DEF FreshIsRefused
  <2> QED
    BY <1>1, <2>1, <2>2, <2>3 DEF MemberInv, ReadsAndWrites
<1> QED
  BY <1>2, <1>3, <1>4

(* Nothing is kept at first.                                               *)
LEMMA MemberInvInit == MemberInit => MemberInv
  BY MemberAssumption DEF MemberInit, MemberInv, Chains, CallTypes

(* Whatever happens next.                                                  *)
LEMMA MemberStep ==
  ASSUME MemberInv, MemberNext
  PROVE  MemberInv' /\ FreshIsRefused /\ ReadsAndWrites
<1>1. ASSUME NEW t \in CallTypes, NEW v \in Data, Call(t, v)
      PROVE  MemberInv' /\ FreshIsRefused /\ ReadsAndWrites
  BY <1>1, CallFollows, MemberAssumption
<1>2. ASSUME NEW l \in 1..ChainLength, NEW d \in Descriptors \cup {Missing}, Define(l, d)
      PROVE  MemberInv' /\ FreshIsRefused /\ ReadsAndWrites
  <2>1. own' = [own EXCEPT ![l] = d] /\ outcome' = NoCall /\ UNCHANGED cachedHandlers
    BY <1>2 DEF Define
  <2>2. MemberInv'
    BY <2>1 DEF MemberInv, Chains
  <2> QED
    BY <2>1, <2>2, NoCallFollows, MemberAssumption
<1>3. CASE preventExtensions
  <2>1. outcome' = NoCall /\ UNCHANGED <<own, cachedHandlers>>
    BY <1>3 DEF preventExtensions
  <2>2. MemberInv'
    BY <2>1 DEF MemberInv
  <2> QED
    BY <2>1, <2>2, NoCallFollows, MemberAssumption
<1> QED
  BY <1>1, <1>2, <1>3 DEF MemberNext

(* A first call of its type fails exactly when JavaScript would have it    *)
(* fail (isReadableProperty, isWritableProperty and wrapJSCallAsFunction   *)
(* agree with the lookup along the prototype chain), and every call that   *)
(* succeeds, its handler kept or new, reads or writes the member as it is  *)
(* now.                                                                    *)
THEOREM CallsFollowMembers == MemberSpec => CallsFollowTheMember
<1>1. MemberInv /\ UNCHANGED memberVars => MemberInv'
  BY DEF MemberInv, memberVars
<1>2. MemberInv /\ [MemberNext]_memberVars => MemberInv'
  BY <1>1, MemberStep
<1>3. MemberInv /\ [MemberNext]_memberVars => [FreshIsRefused /\ ReadsAndWrites]_memberVars
  BY MemberStep
<1> QED
  BY <1>2, <1>3, MemberInvInit, PTL DEF MemberSpec, CallsFollowTheMember, FreshIsRefused, ReadsAndWrites

-----------------------------------------------------------------------------
(* The value of a select. What ValueIsShown needs to go on holding is what *)
(* the renderer keeps on the element for options to come (Shows). A select *)
(* that is inserted with its options is filled by a loop: that the loop    *)
(* has run, and what it keeps, follows from the least place at which it    *)
(* would not (LeastOf).                                                    *)

(* An element as the renderer has it.                                      *)
Selects ==
  [options : Seq(Options), late : SUBSET Options, selected : SUBSET Options,
   deferred : (SUBSET Options) \cup {Null, Absent}]

(* At most one element.                                                    *)
Few(v) == \A x, y \in v : x = y

(* No option twice, and one at most selected in a drop-down list.          *)
SelectOK(S) ==
  /\ S \in Selects
  /\ \A j, k \in DOMAIN S.options : S.options[j] = S.options[k] => j = k
  /\ ~multiple => Few(S.selected)

(* What is selected, and what is kept for the options to come, is what .NET*)
(* asked for.                                                              *)
Shows(S, v) ==
  IF multiple
  THEN S.deferred = v /\ \A o \in Has(S) \ S.late : o \in S.selected <=> o \in v
  ELSE /\ S.deferred \in {v, Absent}
       /\ \A o \in v : /\ o \notin Has(S) => S.deferred = v
                       /\ o \in Has(S) \ S.late => S.selected = {o}

(* The inductive invariant of the select.                                  *)
FormInv ==
  /\ multiple \in BOOLEAN
  /\ wanted \in ValuesOf(multiple) \cup {Null}
  /\ select # Absent => SelectOK(select)
  /\ Ready /\ wanted # Null /\ since = "set" => Shows(select, wanted)

(* What ValuesOf gives.                                                    *)
LEMMA FewIs ==
  ASSUME NEW v \in SUBSET Options
  PROVE  Cardinality(v) <= 1 <=> Few(v)
<1>1. IsFiniteSet(v) /\ Cardinality(v) \in Nat
  BY FormAssumption, FS_Subset, FS_CardinalityType
<1>2. PICK n \in Nat : n = Cardinality(v)
  BY <1>1
<1>3. (n = 0 <=> v = {}) /\ (n = 1 <=> \E x : v = {x})
  BY <1>1, <1>2, FS_EmptySet, FS_Singleton
<1>4. Few(v) <=> v = {} \/ \E x : v = {x}
  <2>1. ASSUME Few(v), v # {} PROVE \E x : v = {x}
    <3>1. PICK x : x \in v
      BY <2>1
    <3>2. v = {x}
      BY <2>1, <3>1 DEF Few
    <3> QED
      BY <3>2
  <2> QED
    BY <2>1 DEF Few
<1>5. n <= 1 <=> n = 0 \/ n = 1
  OBVIOUS
<1> QED
  BY <1>2, <1>3, <1>4, <1>5

(* An option is put into a sequence of options.                            *)
LEMMA InsertAtFacts ==
  ASSUME NEW s \in Seq(Options), NEW k \in 1..(Len(s) + 1), NEW o \in Options,
         \A i \in DOMAIN s : s[i] # o,
         \A i, j \in DOMAIN s : s[i] = s[j] => i = j,
         NEW r, r = InsertAt(s, k, o)
  PROVE  /\ r \in Seq(Options) /\ ToSet(r) = ToSet(s) \cup {o}
         /\ \A i, j \in DOMAIN r : r[i] = r[j] => i = j
<1>1. PICK n \in Nat : n = Len(s)
  OBVIOUS
<1>2. DOMAIN s = 1..n /\ k \in 1..(n + 1)
  BY <1>1
<1>3. PICK a, b, c : a = SubSeq(s, 1, k - 1) /\ b = SubSeq(s, k, n) /\ c = a \o <<o>>
  OBVIOUS
<1>4. \A i \in 1..n : s[i] \in Options
  BY <1>1
<1>5. a \in Seq(Options) /\ Len(a) = k - 1 /\ \A i \in 1..(k - 1) : a[i] = s[i]
  <2>1. 1 \in Int /\ k - 1 \in Int /\ \A i \in 1..(k - 1) : s[i] \in Options
    BY <1>2, <1>4
  <2>2. /\ a \in Seq(Options) /\ Len(a) = IF 1 <= k - 1 THEN k - 1 - 1 + 1 ELSE 0
        /\ \A i \in 1..(k - 1 - 1 + 1) : a[i] = s[1 + i - 1]
    BY <1>3, <2>1, SubSeqProperties
  <2> QED
    BY <1>2, <2>2
<1>6. b \in Seq(Options) /\ Len(b) = n - k + 1 /\ \A i \in 1..(n - k + 1) : b[i] = s[k + i - 1]
  <2>1. k \in Int /\ n \in Int /\ \A i \in k..n : s[i] \in Options
    BY <1>2, <1>4
  <2>2. /\ b \in Seq(Options) /\ Len(b) = IF k <= n THEN n - k + 1 ELSE 0
        /\ \A i \in 1..(n - k + 1) : b[i] = s[k + i - 1]
    BY <1>3, <2>1, SubSeqProperties
  <2> QED
    BY <1>2, <2>2
<1>7. c \in Seq(Options) /\ Len(c) = k /\ c[k] = o /\ \A i \in 1..(k - 1) : c[i] = s[i]
  <2>1. c = Append(a, o)
    BY <1>3, <1>5
  <2>2. c \in Seq(Options) /\ Len(c) = Len(a) + 1 /\ c[Len(a) + 1] = o /\ \A i \in 1..Len(a) : c[i] = a[i]
    BY <1>5, <2>1, AppendFacts
  <2> QED
    BY <1>2, <1>5, <2>2
<1>8. r = c \o b
  BY <1>1, <1>3 DEF InsertAt
<1>9. /\ r \in Seq(Options) /\ DOMAIN r = 1..(n + 1)
      /\ \A i \in 1..k : r[i] = c[i]
      /\ \A i \in (k + 1)..(n + 1) : r[i] = b[i - k]
  <2>1. PICK p : p = n - k + 1
    OBVIOUS
  <2>2. p \in Nat /\ k \in Nat /\ k + p = n + 1
    BY <1>2, <2>1
  <2>3. r \in Seq(Options) /\ Joined(r, c, b, k, p)
    BY <1>6, <1>7, <1>8, <2>1, <2>2, ConcatFacts
  <2> QED
    BY <2>2, <2>3 DEF Joined
<1>10. /\ DOMAIN r = 1..(n + 1) /\ r[k] = o
       /\ \A i \in 1..(k - 1) : r[i] = s[i]
       /\ \A i \in (k + 1)..(n + 1) : r[i] = s[i - 1]
  <2>1. ASSUME NEW i \in (k + 1)..(n + 1) PROVE r[i] = s[i - 1]
    <3>1. i - k \in 1..(n - k + 1)
      BY <1>2
    <3>2. r[i] = b[i - k] /\ b[i - k] = s[k + (i - k) - 1]
      BY <1>6, <1>9, <3>1
    <3>3. k + (i - k) - 1 = i - 1
      BY <1>2
    <3> QED
      BY <3>2, <3>3
  <2>2. ASSUME NEW i \in 1..(k - 1) PROVE r[i] = s[i]
    <3>1. i \in 1..k
      BY <1>2
    <3> QED
      BY <1>7, <1>9, <3>1
  <2>3. k \in 1..k
    BY <1>2
  <2>4. r[k] = o
    BY <1>7, <1>9, <2>3
  <2>5. DOMAIN r = 1..(n + 1)
    BY <1>9
  <2> QED
    BY <2>1, <2>2, <2>4, <2>5
<1>11. ASSUME NEW i \in 1..(n + 1)
       PROVE  \/ i = k /\ r[i] = o
              \/ i < k /\ i \in 1..n /\ r[i] = s[i]
              \/ i > k /\ i - 1 \in 1..n /\ r[i] = s[i - 1]
  <2>1. CASE i < k
    BY <1>2, <1>10, <2>1
  <2>2. CASE i > k
    BY <1>2, <1>10, <2>2
  <2> QED
    BY <1>2, <1>10, <2>1, <2>2
<1>12. ASSUME NEW i \in DOMAIN r, NEW j \in DOMAIN r, r[i] = r[j] PROVE i = j
  <2>1. i \in 1..(n + 1) /\ j \in 1..(n + 1)
    BY <1>10
  <2>2. i \in Int /\ j \in Int /\ k \in Int
    BY <2>1
  <2>3. i = k <=> j = k
    BY <1>2, <1>11, <1>12, <2>1
  <2>4. ASSUME NEW x \in 1..n, NEW y \in 1..n, s[x] = s[y] PROVE x = y
    BY <1>2, <2>4
  <2>5. CASE i < k /\ j < k
    BY <1>11, <1>12, <2>1, <2>2, <2>4, <2>5
  <2>6. CASE i > k /\ j > k
    <3>1. i - 1 \in 1..n /\ j - 1 \in 1..n /\ s[i - 1] = s[j - 1]
      BY <1>11, <1>12, <2>1, <2>2, <2>6
    <3>2. i - 1 = j - 1
      BY <2>4, <3>1
    <3> QED
      BY <2>2, <3>2
  <2>7. CASE i < k /\ j > k
    <3>1. i \in 1..n /\ j - 1 \in 1..n /\ s[i] = s[j - 1]
      BY <1>11, <1>12, <2>1, <2>2, <2>7
    <3>2. i = j - 1
      BY <2>4, <3>1
    <3> QED
      BY <2>2, <2>7, <3>2
  <2>8. CASE i > k /\ j < k
    <3>1. i - 1 \in 1..n /\ j \in 1..n /\ s[i - 1] = s[j]
      BY <1>11, <1>12, <2>1, <2>2, <2>8
    <3>2. i - 1 = j
      BY <2>4, <3>1
    <3> QED
      BY <2>2, <2>8, <3>2
  <2> QED
    BY <2>2, <2>3, <2>5, <2>6, <2>7, <2>8
<1>13. ToSet(r) = ToSet(s) \cup {o}
  <2>1. ASSUME NEW i \in 1..(n + 1) PROVE r[i] \in ToSet(s) \cup {o}
    BY <1>2, <1>11 DEF ToSet
  <2>2. ASSUME NEW i \in 1..n PROVE s[i] \in ToSet(r)
    <3>1. CASE i < k
      <4>1. i \in 1..(k - 1) /\ i \in DOMAIN r
        BY <1>10, <3>1
      <4>2. r[i] = s[i]
        BY <1>10, <4>1
      <4> QED
        BY <4>1, <4>2 DEF ToSet
    <3>2. CASE ~(i < k)
      <4>1. PICK j : j = i + 1
        OBVIOUS
      <4>2. j \in (k + 1)..(n + 1) /\ j \in DOMAIN r /\ j - 1 = i
        BY <1>2, <1>10, <3>2, <4>1
      <4>3. r[j] = s[i]
        BY <1>10, <4>2
      <4> QED
        BY <4>2, <4>3 DEF ToSet
    <3> QED
      BY <3>1, <3>2
  <2>3. k \in DOMAIN r
    BY <1>2, <1>10
  <2>4. \A x \in ToSet(r) : x \in ToSet(s) \cup {o}
    BY <1>10, <2>1 DEF ToSet
  <2>5. \A x \in ToSet(s) : x \in ToSet(r)
    BY <1>2, <2>2 DEF ToSet
  <2>6. o \in ToSet(r)
    BY <1>10, <2>3 DEF ToSet
  <2> QED
    BY <2>4, <2>5, <2>6
<1> QED
  BY <1>9, <1>12, <1>13

(* An option is taken out.                                                 *)
LEMMA RemoveAtFacts ==
  ASSUME NEW s \in Seq(Options), NEW k \in 1..Len(s),
         \A i, j \in DOMAIN s : s[i] = s[j] => i = j,
         NEW r, r = RemoveAt(s, k)
  PROVE  /\ r \in Seq(Options) /\ ToSet(r) = ToSet(s) \ {s[k]}
         /\ \A i, j \in DOMAIN r : r[i] = r[j] => i = j
<1>1. PICK n \in Nat : n = Len(s)
  OBVIOUS
<1>2. DOMAIN s = 1..n /\ k \in 1..n
  BY <1>1
<1>3. PICK a, b : a = SubSeq(s, 1, k - 1) /\ b = SubSeq(s, k + 1, n)
  OBVIOUS
<1>4. \A i \in 1..n : s[i] \in Options
  BY <1>1
<1>5. a \in Seq(Options) /\ Len(a) = k - 1 /\ \A i \in 1..(k - 1) : a[i] = s[i]
  <2>1. 1 \in Int /\ k - 1 \in Int /\ \A i \in 1..(k - 1) : s[i] \in Options
    BY <1>2, <1>4
  <2>2. /\ a \in Seq(Options) /\ Len(a) = IF 1 <= k - 1 THEN k - 1 - 1 + 1 ELSE 0
        /\ \A i \in 1..(k - 1 - 1 + 1) : a[i] = s[1 + i - 1]
    BY <1>3, <2>1, SubSeqProperties
  <2> QED
    BY <1>2, <2>2
<1>6. b \in Seq(Options) /\ Len(b) = n - k /\ \A i \in 1..(n - k) : b[i] = s[k + i]
  <2>1. k + 1 \in Int /\ n \in Int /\ \A i \in (k + 1)..n : s[i] \in Options
    BY <1>2, <1>4
  <2>2. /\ b \in Seq(Options) /\ Len(b) = IF k + 1 <= n THEN n - (k + 1) + 1 ELSE 0
        /\ \A i \in 1..(n - (k + 1) + 1) : b[i] = s[k + 1 + i - 1]
    BY <1>3, <2>1, SubSeqProperties
  <2>3. n - (k + 1) + 1 = n - k /\ \A i \in 1..(n - k) : k + 1 + i - 1 = k + i
    BY <1>2
  <2>4. Len(b) = n - k
    BY <1>2, <2>2
  <2>5. ASSUME NEW i \in 1..(n - k) PROVE b[i] = s[k + i]
    <3>1. b[i] = s[k + 1 + i - 1] /\ k + 1 + i - 1 = k + i
      BY <2>2, <2>3
    <3> QED
      BY <3>1
  <2> QED
    BY <2>2, <2>4, <2>5
<1>7. r = a \o b
  BY <1>1, <1>3 DEF RemoveAt
<1>8. /\ r \in Seq(Options) /\ DOMAIN r = 1..(n - 1)
      /\ \A i \in 1..(k - 1) : r[i] = a[i]
      /\ \A i \in k..(n - 1) : r[i] = b[i - (k - 1)]
  <2>1. PICK p, q : p = k - 1 /\ q = n - k
    OBVIOUS
  <2>2. p \in Nat /\ q \in Nat /\ p + q = n - 1 /\ p + 1 = k
    BY <1>2, <2>1
  <2>3. r \in Seq(Options) /\ Joined(r, a, b, p, q)
    BY <1>5, <1>6, <1>7, <2>1, <2>2, ConcatFacts
  <2> QED
    BY <2>1, <2>2, <2>3 DEF Joined
<1>9. DOMAIN r = 1..(n - 1)
  BY <1>8
<1>10. ASSUME NEW i \in 1..(n - 1)
       PROVE  \/ i < k /\ i \in 1..n /\ r[i] = s[i]
              \/ i >= k /\ i + 1 \in 1..n /\ r[i] = s[i + 1]
  <2>1. CASE i < k
    <3>1. i \in 1..(k - 1) /\ i \in 1..n
      BY <1>2, <2>1
    <3> QED
      BY <1>5, <1>8, <2>1, <3>1
  <2>2. CASE ~(i < k)
    <3>1. i - (k - 1) \in 1..(n - k) /\ i \in k..(n - 1) /\ i + 1 \in 1..n /\ i >= k
      BY <1>2, <2>2
    <3>2. r[i] = b[i - (k - 1)] /\ b[i - (k - 1)] = s[k + (i - (k - 1))]
      BY <1>6, <1>8, <3>1
    <3>3. k + (i - (k - 1)) = i + 1
      BY <1>2
    <3> QED
      BY <3>1, <3>2, <3>3
  <2> QED
    BY <2>1, <2>2
<1>11. ASSUME NEW x \in 1..n, NEW y \in 1..n, s[x] = s[y] PROVE x = y
  BY <1>2, <1>11
<1>12. ASSUME NEW i \in DOMAIN r, NEW j \in DOMAIN r, r[i] = r[j] PROVE i = j
  <2>1. i \in 1..(n - 1) /\ j \in 1..(n - 1)
    BY <1>9
  <2>2. i \in Int /\ j \in Int /\ k \in Int
    BY <2>1
  <2>3. PICK x, y : /\ x \in 1..n /\ r[i] = s[x] /\ ((i < k /\ x = i) \/ (i >= k /\ x = i + 1))
                    /\ y \in 1..n /\ r[j] = s[y] /\ ((j < k /\ y = j) \/ (j >= k /\ y = j + 1))
    BY <1>10, <2>1
  <2>4. x = y
    BY <1>11, <1>12, <2>3
  <2> QED
    BY <2>2, <2>3, <2>4
<1>13. ToSet(r) = ToSet(s) \ {s[k]}
  <2>1. ASSUME NEW i \in 1..(n - 1) PROVE r[i] \in ToSet(s) \ {s[k]}
    <3>1. PICK x \in 1..n : r[i] = s[x] /\ ((i < k /\ x = i) \/ (i >= k /\ x = i + 1))
      BY <1>10
    <3>2. x # k
      BY <1>2, <3>1
    <3>3. s[x] # s[k]
      BY <1>2, <1>11, <3>2
    <3> QED
      BY <1>2, <3>1, <3>3 DEF ToSet
  <2>2. ASSUME NEW i \in 1..n, i # k PROVE s[i] \in ToSet(r)
    <3>1. CASE i < k
      <4>1. i \in 1..(n - 1) /\ i \in DOMAIN r
        BY <1>2, <1>9, <3>1
      <4>2. r[i] = s[i]
        BY <1>2, <1>10, <3>1, <4>1
      <4> QED
        BY <4>1, <4>2 DEF ToSet
    <3>2. CASE ~(i < k)
      <4>1. PICK j : j = i - 1
        OBVIOUS
      <4>2. j \in 1..(n - 1) /\ j \in DOMAIN r /\ j + 1 = i /\ ~(j < k)
        BY <1>2, <1>9, <2>2, <3>2, <4>1
      <4>3. r[j] = s[i]
        BY <1>10, <4>2
      <4> QED
        BY <4>2, <4>3 DEF ToSet
    <3> QED
      BY <3>1, <3>2
  <2>3. \A x \in ToSet(r) : x \in ToSet(s) \ {s[k]}
    BY <1>9, <2>1 DEF ToSet
  <2>4. \A x \in ToSet(s) \ {s[k]} : x \in ToSet(r)
    BY <1>2, <2>2 DEF ToSet
  <2> QED
    BY <2>3, <2>4
<1> QED
  BY <1>8, <1>12, <1>13

(* The browser's choice.                                                   *)
LEMMA ResetKeeps ==
  ASSUME NEW S, SelectOK(S), NEW r, r = Reset(S)
  PROVE  /\ SelectOK(r) /\ r.options = S.options /\ r.late = S.late /\ r.deferred = S.deferred
         /\ multiple \/ S.selected # {} => r.selected = S.selected
<1>1. CASE r = S
  BY <1>1 DEF SelectOK
<1>2. CASE ~multiple /\ S.selected = {} /\ S.options # <<>>
  <2>1. S \in Selects
    BY DEF SelectOK
  <2>2. PICK o : o = Head(S.options)
    OBVIOUS
  <2>3. o \in Options
    BY <1>2, <2>1, <2>2 DEF Selects
  <2>4. r = [S EXCEPT !.selected = {o}]
    BY <1>2, <2>2 DEF Reset
  <2>5. /\ r \in Selects /\ r.options = S.options /\ r.late = S.late /\ r.deferred = S.deferred
        /\ r.selected = {o}
    BY <2>1, <2>3, <2>4 DEF Selects
  <2>6. Few(r.selected)
    BY <2>5 DEF Few
  <2> QED
    BY <1>2, <2>5, <2>6 DEF SelectOK
<1> QED
  BY <1>1, <1>2 DEF Reset

(* An option is inserted.                                                  *)
LEMMA InsertedIs ==
  ASSUME NEW S, SelectOK(S), NEW k \in 1..(Len(S.options) + 1), NEW o \in Options \ Has(S),
         NEW r, r = Inserted(S, k, o)
  PROVE  /\ SelectOK(r) /\ Has(r) = Has(S) \cup {o} /\ r.late = S.late /\ r.deferred = S.deferred
         /\ multiple \/ S.selected # {} => r.selected = S.selected
<1>1. S \in Selects /\ S.options \in Seq(Options)
  BY DEF SelectOK, Selects
<1>2. PICK q : q = InsertAt(S.options, k, o)
  OBVIOUS
<1>3. /\ q \in Seq(Options) /\ ToSet(q) = ToSet(S.options) \cup {o}
      /\ \A i, j \in DOMAIN q : q[i] = q[j] => i = j
  <2>1. \A i \in DOMAIN S.options : S.options[i] # o
    BY DEF Has, ToSet
  <2>2. \A i, j \in DOMAIN S.options : S.options[i] = S.options[j] => i = j
    BY DEF SelectOK
  <2> QED
    BY <1>1, <1>2, <2>1, <2>2, InsertAtFacts
<1>4. PICK m : m = [S EXCEPT !.options = q]
  OBVIOUS
<1>5. /\ m \in Selects /\ m.options = q /\ m.late = S.late /\ m.deferred = S.deferred
      /\ m.selected = S.selected
  BY <1>1, <1>3, <1>4 DEF Selects
<1>6. SelectOK(m)
  BY <1>3, <1>5 DEF SelectOK
<1>7. r = Reset(m)
  BY <1>2, <1>4 DEF Inserted
<1>8. /\ SelectOK(r) /\ r.options = m.options /\ r.late = m.late /\ r.deferred = m.deferred
      /\ multiple \/ m.selected # {} => r.selected = m.selected
  BY <1>6, <1>7, ResetKeeps
<1> QED
  BY <1>3, <1>5, <1>8 DEF Has

(* An option is removed.                                                   *)
LEMMA RemovedIs ==
  ASSUME NEW S, SelectOK(S), NEW k \in 1..Len(S.options), NEW r, r = Removed(S, k)
  PROVE  /\ SelectOK(r) /\ Has(r) = Has(S) \ {S.options[k]}
         /\ r.late = S.late \ {S.options[k]} /\ r.deferred = S.deferred
         /\ multiple \/ S.selected \ {S.options[k]} # {} => r.selected = S.selected \ {S.options[k]}
<1>1. S \in Selects /\ S.options \in Seq(Options)
  BY DEF SelectOK, Selects
<1>2. PICK q, o : q = RemoveAt(S.options, k) /\ o = S.options[k]
  OBVIOUS
<1>3. /\ q \in Seq(Options) /\ ToSet(q) = ToSet(S.options) \ {o}
      /\ \A i, j \in DOMAIN q : q[i] = q[j] => i = j
  <2>1. \A i, j \in DOMAIN S.options : S.options[i] = S.options[j] => i = j
    BY DEF SelectOK
  <2> QED
    BY <1>1, <1>2, <2>1, RemoveAtFacts
<1>4. PICK m : m = [S EXCEPT !.options = q, !.selected = @ \ {o}, !.late = @ \ {o}]
  OBVIOUS
<1>5. /\ m \in Selects /\ m.options = q /\ m.late = S.late \ {o} /\ m.deferred = S.deferred
      /\ m.selected = S.selected \ {o}
  BY <1>1, <1>3, <1>4 DEF Selects
<1>6. SelectOK(m)
  <2>1. ~multiple => Few(m.selected)
    BY <1>5 DEF SelectOK, Few
  <2> QED
    BY <1>3, <1>5, <2>1 DEF SelectOK
<1>7. r = Reset(m)
  BY <1>2, <1>4 DEF Removed
<1>8. /\ SelectOK(r) /\ r.options = m.options /\ r.late = m.late /\ r.deferred = m.deferred
      /\ multiple \/ m.selected # {} => r.selected = m.selected
  BY <1>6, <1>7, ResetKeeps
<1> QED
  BY <1>2, <1>3, <1>5, <1>8 DEF Has

(* Of what v asks for, a select selects what it has.                       *)
Selected(r, S, v) ==
  /\ SelectOK(r) /\ r.options = S.options /\ Has(r) = Has(S)
  /\ r.late = S.late /\ r.deferred = S.deferred
  /\ r.selected = IF v = Null THEN {} ELSE v \cap Has(S)

(* The browser is told the value.                                          *)
LEMMA DeferredIsSet ==
  ASSUME NEW S, SelectOK(S), NEW v \in (SUBSET Options) \cup {Null},
         v # Null /\ ~multiple => Few(v), NEW r, r = setDeferredElementValue(S, v)
  PROVE  Selected(r, S, v)
<1>1. S \in Selects
  BY DEF SelectOK
<1>2. PICK w : w = IF v = Null THEN {} ELSE v \cap Has(S)
  OBVIOUS
<1>3. w \in SUBSET Options /\ (~multiple => Few(w))
  <2>1. CASE v = Null
    BY <1>2, <2>1 DEF Few
  <2>2. CASE v # Null
    <3>1. v \in SUBSET Options /\ w = v \cap Has(S)
      BY <1>2, <2>2
    <3>2. ~multiple => Few(v)
      BY <2>2
    <3> QED
      BY <3>1, <3>2 DEF Few
  <2> QED
    BY <2>1, <2>2
<1>4. r = [S EXCEPT !.selected = w]
  BY <1>2 DEF setDeferredElementValue
<1>5. /\ r \in Selects /\ r.options = S.options /\ r.late = S.late /\ r.deferred = S.deferred
      /\ r.selected = w
  BY <1>1, <1>3, <1>4 DEF Selects
<1> QED
  BY <1>2, <1>3, <1>5 DEF Selected, SelectOK, Has

(* The renderer sets the value of the select.                              *)
LEMMA ValueIsApplied ==
  ASSUME NEW S, SelectOK(S), NEW v \in (SUBSET Options) \cup {Null},
         v # Null /\ ~multiple => Few(v), NEW r, r = tryApplyValueProperty(S, v)
  PROVE  SelectOK(r) /\ r.options = S.options /\ r.late = {} /\ r.deferred = v
         /\ r.selected = IF v = Null THEN {} ELSE v \cap Has(S)
<1>1. PICK m : m = setDeferredElementValue(S, v)
  OBVIOUS
<1>2. /\ SelectOK(m) /\ m.options = S.options
      /\ m.selected = IF v = Null THEN {} ELSE v \cap Has(S)
  BY <1>1, DeferredIsSet DEF Selected
<1>3. r = [m EXCEPT !.deferred = v, !.late = {}]
  BY <1>1 DEF tryApplyValueProperty
<1>4. m \in Selects
  BY <1>2 DEF SelectOK
<1>5. r \in Selects /\ r.options = m.options /\ r.late = {} /\ r.deferred = v /\ r.selected = m.selected
  BY <1>3, <1>4 DEF Selects
<1> QED
  BY <1>2, <1>5 DEF SelectOK

(* A value that has just been applied shows.                               *)
LEMMA AppliedShows ==
  ASSUME NEW S, SelectOK(S), NEW v \in SUBSET Options, ~multiple => Few(v),
         S.selected = v \cap Has(S), S.deferred = v
  PROVE  Shows(S, v)
<1>1. CASE multiple
  BY <1>1 DEF Shows
<1>2. CASE ~multiple
  BY <1>2 DEF Shows, Few
<1> QED
  BY <1>1, <1>2

(* What an option does to the select when it tries to be selected.         *)
Tried(r, S, o) ==
  /\ SelectOK(r) /\ r.options = S.options /\ Has(r) = Has(S) /\ r.late = S.late
  /\ S.deferred = Absent => r = S
  /\ multiple => r.deferred = S.deferred
  /\ multiple /\ S.deferred # Absent =>
       r.selected = IF o \in S.deferred THEN S.selected \cup {o} ELSE S.selected \ {o}
  /\ ~multiple /\ S.deferred = {o} => r.deferred = Absent /\ r.selected = {o} \cap Has(S)
  /\ ~multiple /\ S.deferred # {o} => r = S

(* An option that is there tries to be selected.                           *)
LEMMA OptionTries ==
  ASSUME FormAssumption, NEW S, SelectOK(S), NEW o \in Options, ~Throws(S),
         NEW r, r = trySetSelectValueFromOptionElement(S, o)
  PROVE  Tried(r, S, o)
<1>1. S \in Selects
  BY DEF SelectOK
<1>2. CASE r = S /\ (S.deferred = Absent \/ (~multiple /\ S.deferred # {o}))
  <2>1. {o} # Absent
    BY FormAssumption
  <2> QED
    BY <1>2, <2>1 DEF Tried, Has
<1>3. CASE multiple /\ S.deferred # Absent
  <2>1. PICK w : w = IF o \in S.deferred THEN S.selected \cup {o} ELSE S.selected \ {o}
    OBVIOUS
  <2>2. w \in SUBSET Options
    BY <1>1, <2>1 DEF Selects
  <2>3. r = [S EXCEPT !.selected = w]
    BY <1>3, <2>1 DEF trySetSelectValueFromOptionElement
  <2>4. /\ r \in Selects /\ r.options = S.options /\ r.late = S.late /\ r.deferred = S.deferred
        /\ r.selected = w
    BY <1>1, <2>2, <2>3 DEF Selects
  <2> QED
    BY <1>3, <2>1, <2>4 DEF Tried, SelectOK, Has
<1>4. CASE ~multiple /\ S.deferred = {o}
  <2>1. {o} # Absent /\ {o} # Null
    BY FormAssumption
  <2>2. PICK m : m = setDeferredElementValue(S, {o})
    OBVIOUS
  <2>3. Few({o})
    BY DEF Few
  <2>4. /\ SelectOK(m) /\ m.options = S.options /\ m.late = S.late
        /\ m.selected = {o} \cap Has(S)
    BY <2>1, <2>2, <2>3, DeferredIsSet DEF Selected
  <2>5. r = [m EXCEPT !.deferred = Absent]
    BY <1>4, <2>1, <2>2 DEF trySetSelectValueFromOptionElement
  <2>6. m \in Selects
    BY <2>4 DEF SelectOK
  <2>7. /\ r \in Selects /\ r.options = m.options /\ r.late = m.late /\ r.deferred = Absent
        /\ r.selected = m.selected
    <3>1. PICK x : x = Absent
      OBVIOUS
    <3>2. r = [m EXCEPT !.deferred = x] /\ x \in (SUBSET Options) \cup {Null, Absent}
      BY <2>5, <3>1
    <3>3. /\ r \in Selects /\ r.options = m.options /\ r.late = m.late /\ r.deferred = x
          /\ r.selected = m.selected
      BY <2>6, <3>2 DEF Selects
    <3> QED
      BY <3>1, <3>3
  <2> QED
    BY <1>4, <2>1, <2>4, <2>7 DEF Tried, SelectOK, Has
<1> QED
  BY <1>2, <1>3, <1>4 DEF trySetSelectValueFromOptionElement

(* A select with one option more, which goes on to show v.                 *)
Grown(r, S, o, v) ==
  /\ SelectOK(r) /\ Has(r) = Has(S) \cup {o} /\ r.late = S.late
  /\ S.deferred = Absent => r.deferred = Absent
  /\ multiple => r.deferred = S.deferred
  /\ v \in ValuesOf(multiple) /\ Shows(S, v) => Shows(r, v)

(* An option comes, one by one.                                            *)
LEMMA OptionInserted ==
  ASSUME FormAssumption, NEW S, SelectOK(S), NEW k \in 1..(Len(S.options) + 1), NEW o \in Options \ Has(S),
         ~Throws(S), NEW v, NEW r, r = insertOption(S, k, o)
  PROVE  Grown(r, S, o, v)
<1>1. PICK m : m = Inserted(S, k, o)
  OBVIOUS
<1>2. /\ SelectOK(m) /\ Has(m) = Has(S) \cup {o} /\ m.late = S.late /\ m.deferred = S.deferred
      /\ multiple \/ S.selected # {} => m.selected = S.selected
  BY <1>1, InsertedIs
<1>3. r = trySetSelectValueFromOptionElement(m, o) /\ ~Throws(m) /\ o \in Options /\ SelectOK(m)
  BY <1>1, <1>2 DEF insertOption, Throws
<1>4. /\ SelectOK(r) /\ Has(r) = Has(m) /\ r.late = m.late
      /\ m.deferred = Absent => r = m
      /\ multiple => r.deferred = m.deferred
      /\ multiple /\ m.deferred # Absent =>
           r.selected = IF o \in m.deferred THEN m.selected \cup {o} ELSE m.selected \ {o}
      /\ ~multiple /\ m.deferred = {o} => r.deferred = Absent /\ r.selected = {o} \cap Has(m)
      /\ ~multiple /\ m.deferred # {o} => r = m
  <2>1. Tried(r, m, o)
    BY <1>3, OptionTries, FormAssumption
  <2> QED
    BY <2>1 DEF Tried
<1>5. ASSUME v \in ValuesOf(multiple), Shows(S, v) PROVE Shows(r, v)
  <2>1. v \in SUBSET Options /\ v # Absent
    BY <1>5, FormAssumption DEF ValuesOf
  <2>2. CASE multiple
    <3>1. S.deferred = v /\ \A x \in Has(S) \ S.late : x \in S.selected <=> x \in v
      BY <1>5, <2>2 DEF Shows
    <3>2. r.deferred = v /\ r.selected = IF o \in v THEN S.selected \cup {o} ELSE S.selected \ {o}
      BY <1>2, <1>4, <2>1, <2>2, <3>1
    <3>3. \A x \in Has(r) \ r.late : x \in r.selected <=> x \in v
      BY <1>2, <1>4, <3>1, <3>2
    <3> QED
      BY <2>2, <3>2, <3>3 DEF Shows
  <2>3. CASE ~multiple
    <3>1. /\ S.deferred \in {v, Absent}
          /\ \A x \in v : /\ x \notin Has(S) => S.deferred = v
                          /\ x \in Has(S) \ S.late => S.selected = {x}
      BY <1>5, <2>3 DEF Shows
    <3>2. Few(v)
      BY <1>5, <2>1, <2>3, FewIs DEF ValuesOf
    <3>3. CASE S.deferred = {o}
      <4>1. v = {o}
        BY <3>1, <3>3, FormAssumption
      <4>2. r.deferred = Absent /\ r.selected = {o} /\ o \in Has(r)
        BY <1>2, <1>4, <2>3, <3>3
      <4> QED
        BY <2>3, <4>1, <4>2 DEF Shows
    <3>4. CASE S.deferred # {o}
      <4>1. r = m
        BY <1>2, <1>4, <2>3, <3>4
      <4>2. \A x \in v : x # o
        <5>1. ASSUME o \in v PROVE FALSE
          <6>1. v = {o} /\ S.deferred = v
            BY <3>1, <3>2, <5>1 DEF Few
          <6> QED
            BY <3>4, <6>1
        <5> QED
          BY <5>1
      <4>3. \A x \in v : x \in Has(m) \ m.late => m.selected = {x}
        BY <1>2, <2>3, <3>1, <4>2
      <4>4. \A x \in v : x \notin Has(m) => m.deferred = v
        BY <1>2, <3>1
      <4> QED
        BY <1>2, <2>3, <3>1, <4>1, <4>3, <4>4 DEF Shows
    <3> QED
      BY <3>3, <3>4
  <2> QED
    BY <2>2, <2>3
<1> QED
  BY <1>2, <1>4, <1>5 DEF Grown

(* Markup brings an option: nothing is tried, but a value that was set     *)
(* before is applied at the end of insertSelect.                           *)
LEMMA MarkupInserted ==
  ASSUME FormAssumption, NEW S, SelectOK(S), NEW k \in 1..(Len(S.options) + 1), NEW o \in Options \ Has(S),
         NEW v, NEW r, r = [Inserted(S, k, o) EXCEPT !.late = @ \cup {o}],
         v \in ValuesOf(multiple), Shows(S, v)
  PROVE  Shows(r, v)
<1>1. PICK m : m = Inserted(S, k, o)
  OBVIOUS
<1>2. /\ SelectOK(m) /\ Has(m) = Has(S) \cup {o} /\ m.late = S.late /\ m.deferred = S.deferred
      /\ multiple \/ S.selected # {} => m.selected = S.selected
  BY <1>1, InsertedIs
<1>3. m \in Selects
  BY <1>2 DEF SelectOK
<1>4. /\ r.options = m.options /\ r.late = S.late \cup {o} /\ r.deferred = S.deferred
      /\ r.selected = m.selected
  BY <1>1, <1>2, <1>3 DEF Selects
<1>5. Has(r) = Has(S) \cup {o} /\ Has(r) \ r.late = Has(S) \ (S.late \cup {o})
  BY <1>2, <1>4 DEF Has
<1>6. CASE multiple
  BY <1>2, <1>4, <1>5, <1>6 DEF Shows
<1>7. CASE ~multiple
  <2>1. /\ S.deferred \in {v, Absent}
        /\ \A x \in v : /\ x \notin Has(S) => S.deferred = v
                        /\ x \in Has(S) \ S.late => S.selected = {x}
    BY <1>7 DEF Shows
  <2>2. \A x \in v : x \in Has(r) \ r.late => r.selected = {x}
    BY <1>2, <1>4, <1>5, <2>1
  <2>3. \A x \in v : x \notin Has(r) => r.deferred = v
    BY <1>4, <1>5, <2>1
  <2> QED
    BY <1>4, <1>7, <2>1, <2>2, <2>3 DEF Shows
<1> QED
  BY <1>6, <1>7

(* An option is removed that was not the one shown.                        *)
LEMMA RemovedShows ==
  ASSUME FormAssumption, NEW S, SelectOK(S), NEW k \in 1..Len(S.options), NEW r, r = Removed(S, k),
         NEW v \in ValuesOf(multiple), Shows(S, v), multiple \/ v # {S.options[k]}
  PROVE  Shows(r, v)
<1>1. PICK o : o = S.options[k]
  OBVIOUS
<1>2. /\ SelectOK(r) /\ Has(r) = Has(S) \ {o} /\ r.late = S.late \ {o} /\ r.deferred = S.deferred
      /\ multiple \/ S.selected \ {o} # {} => r.selected = S.selected \ {o}
  BY <1>1, RemovedIs
<1>3. Has(r) \ r.late = (Has(S) \ S.late) \ {o}
  BY <1>2
<1>4. CASE multiple
  BY <1>2, <1>3, <1>4 DEF Shows
<1>5. CASE ~multiple
  <2>1. /\ S.deferred \in {v, Absent}
        /\ \A x \in v : /\ x \notin Has(S) => S.deferred = v
                        /\ x \in Has(S) \ S.late => S.selected = {x}
    BY <1>5 DEF Shows
  <2>2. Few(v) /\ v # {o}
    BY <1>1, <1>5, FewIs DEF ValuesOf
  <2>3. \A x \in v : x # o
    BY <2>2 DEF Few
  <2>4. \A x \in v : x \in Has(r) \ r.late => r.selected = {x}
    BY <1>2, <1>3, <2>1, <2>3
  <2>5. \A x \in v : x \notin Has(r) => r.deferred = v
    BY <1>2, <2>1, <2>3
  <2> QED
    BY <1>2, <1>5, <2>1, <2>4, <2>5 DEF Shows
<1> QED
  BY <1>4, <1>5

(* An option gets another value, which another option may have waited for. *)
Renaming(S, o, new) ==
  [S EXCEPT !.options = [k \in DOMAIN @ |-> IF @[k] = o THEN new ELSE @[k]],
            !.selected = IF o \in @ THEN (@ \ {o}) \cup {new} ELSE @]

(* The options are the same but for that one.                              *)
LEMMA RenamingIs ==
  ASSUME NEW S, SelectOK(S), NEW o \in Has(S), NEW new \in Options \ Has(S),
         NEW r, r = Renaming(S, o, new)
  PROVE  /\ SelectOK(r) /\ Has(r) = (Has(S) \ {o}) \cup {new}
         /\ r.late = S.late /\ r.deferred = S.deferred
         /\ r.selected = IF o \in S.selected THEN (S.selected \ {o}) \cup {new} ELSE S.selected
<1>1. S \in Selects /\ S.options \in Seq(Options)
  BY DEF SelectOK, Selects
<1>2. PICK q, w : /\ q = [k \in DOMAIN S.options |-> IF S.options[k] = o THEN new ELSE S.options[k]]
                  /\ w = IF o \in S.selected THEN (S.selected \ {o}) \cup {new} ELSE S.selected
  OBVIOUS
<1>3. PICK s, n : s = S.options /\ n = Len(s)
  OBVIOUS
<1>4. s \in Seq(Options) /\ n \in Nat /\ DOMAIN s = 1..n /\ \A i \in 1..n : s[i] \in Options
  BY <1>1, <1>3
<1>5. q = [k \in 1..n |-> IF s[k] = o THEN new ELSE s[k]]
  BY <1>2, <1>3, <1>4
<1>6. q \in Seq(Options) /\ DOMAIN q = 1..n
  <2>1. \A k \in 1..n : (IF s[k] = o THEN new ELSE s[k]) \in Options
    BY <1>4
  <2>2. q \in [1..n -> Options]
    BY <1>5, <2>1
  <2> QED
    BY <1>4, <2>2
<1>7. ASSUME NEW i \in 1..n, NEW j \in 1..n, s[i] = s[j] PROVE i = j
  BY <1>3, <1>4, <1>7 DEF SelectOK
<1>8. \A i \in 1..n : s[i] # new
  BY <1>3, <1>4 DEF Has, ToSet
<1>9. \A i, j \in DOMAIN q : q[i] = q[j] => i = j
  BY <1>5, <1>6, <1>7, <1>8
<1>10. ToSet(q) = (ToSet(s) \ {o}) \cup {new}
  <2>1. PICK h \in 1..n : s[h] = o
    BY <1>3, <1>4 DEF Has, ToSet
  <2>2. o # new
    OBVIOUS
  <2>3. \A x \in ToSet(q) : x \in (ToSet(s) \ {o}) \cup {new}
    BY <1>4, <1>5, <1>6 DEF ToSet
  <2>4. ASSUME NEW i \in 1..n, s[i] # o PROVE s[i] \in ToSet(q)
    BY <1>5, <1>6, <2>4 DEF ToSet
  <2>5. new \in ToSet(q)
    BY <1>5, <1>6, <2>1 DEF ToSet
  <2>6. \A x \in ToSet(s) \ {o} : x \in ToSet(q)
    BY <1>4, <2>4 DEF ToSet
  <2> QED
    BY <2>3, <2>5, <2>6
<1>11. w \in SUBSET Options /\ (~multiple => Few(w))
  <2>1. S.selected \in SUBSET Options /\ (~multiple => Few(S.selected))
    BY <1>1 DEF Selects, SelectOK
  <2> QED
    BY <1>2, <2>1 DEF Few
<1>12. r = [S EXCEPT !.options = q, !.selected = w]
  BY <1>2 DEF Renaming
<1>13. /\ r \in Selects /\ r.options = q /\ r.late = S.late /\ r.deferred = S.deferred
       /\ r.selected = w
  BY <1>1, <1>6, <1>11, <1>12 DEF Selects
<1> QED
  BY <1>2, <1>3, <1>9, <1>10, <1>11, <1>13 DEF SelectOK, Has

(* The renamed option tries to be selected.                                *)
LEMMA OptionRenamed ==
  ASSUME FormAssumption, NEW S, SelectOK(S), NEW o \in Has(S) \ S.late, NEW new \in Options \ Has(S),
         ~Throws(S), NEW v, NEW r, r = trySetSelectValueFromOptionElement(Renaming(S, o, new), new)
  PROVE  /\ SelectOK(r)
         /\ v \in ValuesOf(multiple) /\ Shows(S, v) /\ (multiple \/ v # {o}) => Shows(r, v)
<1>1. PICK m : m = Renaming(S, o, new)
  OBVIOUS
<1>2. /\ SelectOK(m) /\ Has(m) = (Has(S) \ {o}) \cup {new} /\ m.late = S.late /\ m.deferred = S.deferred
      /\ m.selected = IF o \in S.selected THEN (S.selected \ {o}) \cup {new} ELSE S.selected
  BY <1>1, RenamingIs
<1>3. r = trySetSelectValueFromOptionElement(m, new) /\ ~Throws(m) /\ new \in Options /\ SelectOK(m)
  BY <1>1, <1>2 DEF Throws
<1>4. /\ SelectOK(r) /\ Has(r) = Has(m) /\ r.late = m.late
      /\ m.deferred = Absent => r = m
      /\ multiple => r.deferred = m.deferred
      /\ multiple /\ m.deferred # Absent =>
           r.selected = IF new \in m.deferred THEN m.selected \cup {new} ELSE m.selected \ {new}
      /\ ~multiple /\ m.deferred = {new} => r.deferred = Absent /\ r.selected = {new} \cap Has(m)
      /\ ~multiple /\ m.deferred # {new} => r = m
  <2>1. Tried(r, m, new)
    BY <1>3, OptionTries, FormAssumption
  <2> QED
    BY <2>1 DEF Tried
<1>5. ASSUME v \in ValuesOf(multiple), Shows(S, v), multiple \/ v # {o} PROVE Shows(r, v)
  <2>1. v \in SUBSET Options /\ v # Absent /\ new # o
    BY <1>5, FormAssumption DEF ValuesOf
  <2>2. CASE multiple
    <3>1. S.deferred = v /\ \A x \in Has(S) \ S.late : x \in S.selected <=> x \in v
      BY <1>5, <2>2 DEF Shows
    <3>2. r.deferred = v /\ r.selected = IF new \in v THEN m.selected \cup {new} ELSE m.selected \ {new}
      BY <1>2, <1>4, <2>1, <2>2, <3>1
    <3>3. ASSUME NEW x \in Has(r) \ r.late PROVE x \in r.selected <=> x \in v
      <4>1. CASE x = new
        BY <3>2, <4>1
      <4>2. CASE x # new
        <5>1. x \in Has(S) \ S.late /\ x # o
          BY <1>2, <1>4, <3>3, <4>2
        <5>2. x \in r.selected <=> x \in S.selected
          BY <1>2, <3>2, <4>2, <5>1
        <5> QED
          BY <3>1, <5>1, <5>2
      <4> QED
        BY <4>1, <4>2
    <3> QED
      BY <2>2, <3>2, <3>3 DEF Shows
  <2>3. CASE ~multiple
    <3>1. /\ S.deferred \in {v, Absent}
          /\ \A x \in v : /\ x \notin Has(S) => S.deferred = v
                          /\ x \in Has(S) \ S.late => S.selected = {x}
      BY <1>5, <2>3 DEF Shows
    <3>2. Few(v) /\ v # {o}
      BY <1>5, <2>1, <2>3, FewIs DEF ValuesOf
    <3>3. CASE S.deferred = {new}
      <4>1. v = {new}
        BY <3>1, <3>3, FormAssumption
      <4>2. r.deferred = Absent /\ r.selected = {new} /\ new \in Has(r)
        BY <1>2, <1>4, <2>3, <3>3
      <4> QED
        BY <2>3, <4>1, <4>2 DEF Shows
    <3>4. CASE S.deferred # {new}
      <4>1. r = m
        BY <1>2, <1>4, <2>3, <3>4
      <4>2. \A x \in v : x # new /\ v = {x}
        <5>1. ASSUME NEW x \in v PROVE v = {x}
          BY <3>2 DEF Few
        <5>2. ASSUME new \in v PROVE FALSE
          <6>1. v = {new} /\ S.deferred = v
            BY <3>1, <5>1, <5>2
          <6> QED
            BY <3>4, <6>1
        <5> QED
          BY <5>1, <5>2
      <4>3. \A x \in v : x # o
        BY <3>2, <4>2
      <4>4. \A x \in v : x \in Has(m) \ m.late => m.selected = {x}
        BY <1>2, <3>1, <4>2, <4>3
      <4>5. \A x \in v : x \notin Has(m) => m.deferred = v
        BY <1>2, <3>1, <4>3
      <4> QED
        BY <1>2, <2>3, <3>1, <4>1, <4>4, <4>5 DEF Shows
    <3> QED
      BY <3>3, <3>4
  <2> QED
    BY <2>2, <2>3
<1> QED
  BY <1>4, <1>5

(* The first m steps of filling a select exist as a function.              *)
Fills(g, v, options, markup, m) ==
  g = [i \in 0..m |-> IF i = 0 THEN Begun(v) ELSE PutOption(g[i - 1], options[i], markup)]

(* There is such a function, for any number of options.                    *)
LEMMA FillingExists ==
  ASSUME NEW v, NEW options, NEW markup, NEW n \in Nat
  PROVE  \E g : Fills(g, v, options, markup, n)
<1> DEFINE T == {m \in Nat : ~\E g : Fills(g, v, options, markup, m)}
<1>1. SUFFICES ASSUME T # {} PROVE FALSE
  BY <1>1
<1>2. PICK x \in T : \A y \in T : x <= y
  BY <1>1, LeastOf
<1>3. x \in Nat /\ ~\E g : Fills(g, v, options, markup, x)
  BY <1>2
<1>4. CASE x = 0
  <2>1. PICK g : g = [i \in 0..0 |-> Begun(v)]
    OBVIOUS
  <2>2. Fills(g, v, options, markup, 0)
    BY <2>1 DEF Fills
  <2> QED
    BY <1>3, <1>4, <2>2
<1>5. CASE x # 0
  <2>1. PICK m \in Nat : m + 1 = x
    <3>1. x - 1 \in Nat /\ (x - 1) + 1 = x
      BY <1>3, <1>5
    <3> QED
      BY <3>1
  <2>2. m \notin T
    BY <1>2, <2>1
  <2>3. PICK g : Fills(g, v, options, markup, m)
    BY <2>1, <2>2
  <2>4. PICK h : h = [i \in 0..x |-> IF i = x THEN PutOption(g[m], options[x], markup) ELSE g[i]]
    OBVIOUS
  <2>5. \A i \in 0..m : h[i] = g[i]
    BY <2>1, <2>4
  <2>6. ASSUME NEW i \in 0..x
        PROVE  h[i] = IF i = 0 THEN Begun(v) ELSE PutOption(h[i - 1], options[i], markup)
    <3>1. CASE i = x
      <4>1. i - 1 = m /\ m \in 0..m /\ i # 0
        BY <2>1, <3>1
      <4>2. h[i] = PutOption(g[m], options[i], markup) /\ h[m] = g[m]
        BY <2>4, <2>5, <3>1, <4>1
      <4> QED
        BY <4>1, <4>2
    <3>2. CASE i # x
      <4>1. i \in 0..m
        BY <2>1, <3>2
      <4>2. h[i] = IF i = 0 THEN Begun(v) ELSE PutOption(g[i - 1], options[i], markup)
        BY <2>3, <2>5, <4>1 DEF Fills
      <4>3. i # 0 => i - 1 \in 0..m
        BY <4>1
      <4>4. i # 0 => h[i - 1] = g[i - 1]
        BY <2>5, <4>3
      <4> QED
        BY <4>2, <4>4
    <3> QED
      BY <3>1, <3>2
  <2>7. Fills(h, v, options, markup, x)
    <3>1. h = [i \in 0..x |-> h[i]]
      BY <2>4
    <3> QED
      BY <2>6, <3>1 DEF Fills
  <2> QED
    BY <1>3, <2>7
<1> QED
  BY <1>4, <1>5

(* Filled is the last of the steps.                                        *)
LEMMA FilledIs ==
  ASSUME NEW v, NEW options, NEW markup, NEW n \in Nat, n = Len(options)
  PROVE  \E g : Fills(g, v, options, markup, n) /\ Filled(v, options, markup) = g[n]
<1>1. PICK g : Fills(g, v, options, markup, n)
  BY FillingExists
<1>2. PICK f : f = CHOOSE h : Fills(h, v, options, markup, n)
  OBVIOUS
<1>3. Fills(f, v, options, markup, n)
  BY <1>1, <1>2
<1>4. Filled(v, options, markup) = f[n]
  BY <1>2 DEF Filled, Fills
<1> QED
  BY <1>3, <1>4

(* A select that is being filled has the options so far, none of them      *)
(* late, and keeps its value, if it has one, or shows it.                  *)
FillOK(S, v, markup, seen) ==
  /\ SelectOK(S) /\ Has(S) = seen /\ S.late = {}
  /\ v = Null => S.deferred = Absent
  /\ v # Null /\ markup => S.deferred = v
  /\ v # Null /\ ~markup => Shows(S, v)

(* The select has no options at first.                                     *)
LEMMA BegunIs ==
  ASSUME FormAssumption, NEW v \in ValuesOf(multiple) \cup {Null}, NEW markup, NEW r, r = Begun(v)
  PROVE  FillOK(r, v, markup, {})
<1>1. PICK S : S = NewSelect
  OBVIOUS
<1>2. S.options = <<>> /\ S.late = {} /\ S.selected = {} /\ S.deferred = Absent /\ S \in Selects
  BY <1>1 DEF NewSelect, Selects
<1>3. Has(S) = {} /\ SelectOK(S)
  BY <1>2 DEF Has, ToSet, SelectOK, Few
<1>4. CASE v = Null
  <2>1. r = S
    BY <1>1, <1>4 DEF Begun
  <2> QED
    BY <1>2, <1>3, <1>4, <2>1 DEF FillOK
<1>5. CASE v # Null
  <2>1. v \in SUBSET Options /\ (~multiple => Few(v))
    BY <1>5, FewIs DEF ValuesOf
  <2>2. r = tryApplyValueProperty(S, v)
    BY <1>1, <1>5 DEF Begun
  <2>3. /\ SelectOK(r) /\ r.options = S.options /\ r.late = {} /\ r.deferred = v
        /\ r.selected = IF v = Null THEN {} ELSE v \cap Has(S)
    BY <1>3, <2>1, <2>2, ValueIsApplied
  <2>4. Has(r) = {} /\ r.selected = v \cap Has(r)
    BY <1>3, <1>5, <2>3 DEF Has
  <2>5. Shows(r, v)
    BY <2>1, <2>3, <2>4, AppliedShows
  <2> QED
    BY <1>5, <2>3, <2>4, <2>5 DEF FillOK
<1> QED
  BY <1>4, <1>5

(* Each option is put behind the others; markup is looked at in the end.   *)
LEMMA PutKeeps ==
  ASSUME FormAssumption, NEW v \in ValuesOf(multiple) \cup {Null}, NEW markup \in BOOLEAN, NEW seen,
         NEW S, FillOK(S, v, markup, seen), NEW o \in Options \ seen, NEW r, r = PutOption(S, o, markup)
  PROVE  FillOK(r, v, markup, seen \cup {o})
<1>1. SelectOK(S) /\ Has(S) = seen /\ S.late = {} /\ S \in Selects /\ o \in Options \ Has(S)
  BY DEF FillOK, SelectOK
<1>2. PICK k : k = Len(S.options) + 1
  OBVIOUS
<1>3. k \in 1..(Len(S.options) + 1)
  <2>1. Len(S.options) \in Nat
    BY <1>1 DEF Selects
  <2> QED
    BY <1>2, <2>1
<1>4. CASE markup
  <2>1. r = Inserted(S, k, o)
    BY <1>2, <1>4 DEF PutOption
  <2>2. SelectOK(r) /\ Has(r) = Has(S) \cup {o} /\ r.late = S.late /\ r.deferred = S.deferred
    BY <1>1, <1>3, <2>1, InsertedIs
  <2> QED
    BY <1>1, <1>4, <2>2 DEF FillOK
<1>5. CASE ~markup
  <2>1. r = insertOption(S, k, o)
    BY <1>2, <1>5 DEF PutOption
  <2>2. ~Throws(S)
    <3>1. multiple => S.deferred = v \/ S.deferred = Absent
      BY <1>5 DEF FillOK, Shows
    <3>2. v = Null => S.deferred = Absent
      BY DEF FillOK
    <3> QED
      BY <3>1, <3>2, FormAssumption DEF Throws
  <2>3. /\ SelectOK(r) /\ Has(r) = Has(S) \cup {o} /\ r.late = S.late
        /\ S.deferred = Absent => r.deferred = Absent
        /\ v \in ValuesOf(multiple) /\ Shows(S, v) => Shows(r, v)
    <3>1. Grown(r, S, o, v)
      BY <1>1, <1>3, <2>1, <2>2, OptionInserted, FormAssumption
    <3> QED
      BY <3>1 DEF Grown
  <2> QED
    BY <1>1, <1>5, <2>3 DEF FillOK
<1> QED
  BY <1>4, <1>5

(* All options are put one after the other.                                *)
LEMMA FilledKeeps ==
  ASSUME FormAssumption, NEW v \in ValuesOf(multiple) \cup {Null}, NEW markup \in BOOLEAN,
         NEW options \in Seq(Options), \A i, j \in DOMAIN options : options[i] = options[j] => i = j
  PROVE  FillOK(Filled(v, options, markup), v, markup, ToSet(options))
<1>1. PICK n \in Nat : n = Len(options)
  OBVIOUS
<1>2. PICK g : Fills(g, v, options, markup, n) /\ Filled(v, options, markup) = g[n]
  BY <1>1, FilledIs
<1>3. /\ g[0] = Begun(v)
      /\ \A i \in 1..n : g[i] = PutOption(g[i - 1], options[i], markup)
  BY <1>2 DEF Fills
<1> DEFINE Seen(i) == {options[j] : j \in 1..i}
           T == {i \in 0..n : ~FillOK(g[i], v, markup, Seen(i))}
<1>4. ASSUME T # {} PROVE FALSE
  <2>1. T \subseteq Nat
    OBVIOUS
  <2>2. PICK x \in T : \A y \in T : x <= y
    BY <1>4, <2>1, LeastOf
  <2>3. x \in 0..n /\ ~FillOK(g[x], v, markup, Seen(x))
    BY <2>2
  <2>4. Seen(0) = {}
    OBVIOUS
  <2>5. FillOK(g[0], v, markup, {})
    BY <1>3, BegunIs
  <2>6. x # 0
    BY <2>3, <2>4, <2>5
  <2>7. PICK m \in Nat : m + 1 = x
    <3>1. x - 1 \in Nat /\ (x - 1) + 1 = x
      BY <2>3, <2>6
    <3> QED
      BY <3>1
  <2>8. m \in 0..n /\ m \notin T /\ x \in 1..n /\ x - 1 = m
    <3>1. m \in 0..n /\ x \in 1..n /\ x - 1 = m /\ ~(x <= m)
      BY <2>3, <2>6, <2>7
    <3>2. m \notin T
      BY <2>2, <3>1
    <3> QED
      BY <3>1, <3>2
  <2>9. FillOK(g[m], v, markup, Seen(m))
    BY <2>8
  <2>10. options[x] \in Options /\ \A j \in 1..m : options[j] # options[x]
    BY <1>1, <2>7, <2>8
  <2>11. options[x] \in Options \ Seen(m)
    BY <2>10
  <2>12. g[x] = PutOption(g[m], options[x], markup)
    BY <1>3, <2>8
  <2>13. FillOK(g[x], v, markup, Seen(m) \cup {options[x]})
    BY <2>9, <2>11, <2>12, PutKeeps
  <2>14. Seen(x) = Seen(m) \cup {options[x]}
    BY <2>7
  <2> QED
    BY <2>3, <2>13, <2>14
<1>5. FillOK(g[n], v, markup, Seen(n))
  <2>1. T = {}
    BY <1>4
  <2>2. n \in 0..n
    OBVIOUS
  <2>3. n \notin T
    BY <2>1
  <2> QED
    BY <2>2, <2>3
<1>6. Seen(n) = ToSet(options)
  BY <1>1 DEF ToSet
<1> QED
  BY <1>2, <1>5, <1>6

(* The select is inserted with its options, and its value shows.           *)
LEMMA SelectInserted ==
  ASSUME FormAssumption, NEW v \in ValuesOf(multiple) \cup {Null}, NEW markup \in BOOLEAN,
         NEW options \in Seq(Options), \A i, j \in DOMAIN options : options[i] = options[j] => i = j,
         NEW r, r = insertSelect(v, options, markup)
  PROVE  SelectOK(r) /\ (v # Null => Shows(r, v))
<1>1. PICK S : S = Filled(v, options, markup)
  OBVIOUS
<1>2. /\ SelectOK(S) /\ S.late = {}
      /\ v = Null => S.deferred = Absent
      /\ v # Null /\ markup => S.deferred = v
      /\ v # Null /\ ~markup => Shows(S, v)
  BY <1>1, FilledKeeps DEF FillOK
<1>3. CASE S.deferred = Absent
  <2>1. r = S
    BY <1>1, <1>3 DEF insertSelect
  <2>2. v # Null => v # Absent
    BY FormAssumption DEF ValuesOf
  <2> QED
    BY <1>2, <1>3, <2>1, <2>2
<1>4. CASE S.deferred # Absent
  <2>1. v # Null /\ S.deferred = v
    BY <1>2, <1>4 DEF Shows
  <2>2. v \in SUBSET Options /\ (~multiple => Few(v))
    BY <2>1, FewIs DEF ValuesOf
  <2>3. r = setDeferredElementValue(S, v)
    BY <1>1, <1>4, <2>1 DEF insertSelect
  <2>4. SelectOK(S) /\ v \in (SUBSET Options) \cup {Null} /\ (v # Null /\ ~multiple => Few(v))
    BY <1>2, <2>2
  <2>5. /\ SelectOK(r) /\ Has(r) = Has(S) /\ r.deferred = S.deferred
        /\ r.selected = IF v = Null THEN {} ELSE v \cap Has(S)
    <3>1. Selected(r, S, v)
      BY <2>3, <2>4, DeferredIsSet
    <3> QED
      BY <3>1 DEF Selected
  <2>6. r.selected = v \cap Has(r) /\ r.deferred = v
    BY <2>1, <2>5
  <2>7. Shows(r, v)
    BY <2>2, <2>5, <2>6, AppliedShows
  <2> QED
    BY <2>5, <2>7
<1> QED
  BY <1>3, <1>4

(* At the start there is no select.                                        *)
LEMMA FormInvInit == FormInit => FormInv
<1> SUFFICES ASSUME FormInit PROVE FormInv
  OBVIOUS
<1>1. multiple \in BOOLEAN /\ select = Absent /\ wanted = Null
  BY DEF FormInit
<1>2. ~Ready
  BY <1>1 DEF Ready
<1> QED
  BY <1>1, <1>2 DEF FormInv

(* The renderer inserts a select.                                          *)
LEMMA RenderSelectKeeps ==
  ASSUME FormAssumption, FormInv, NEW v \in ValuesOf(multiple) \cup {Null}, NEW options \in OptionLists,
         NEW markup \in BOOLEAN, RenderSelect(v, options, markup)
  PROVE  FormInv'
<1>1. /\ multiple' = multiple /\ failed' = failed /\ wanted' = v /\ since' = "set"
      /\ select' = insertSelect(v, options, markup)
  BY DEF RenderSelect
<1>2. options \in Seq(Options) /\ \A i, j \in DOMAIN options : options[i] = options[j] => i = j
  <2>1. PICK n \in 0 .. Cardinality(Options) : options \in [1 .. n -> Options] /\ IsInjective(options)
    BY DEF OptionLists
  <2>2. n \in Nat
    OBVIOUS
  <2> QED
    BY <2>1, <2>2 DEF IsInjective
<1>3. PICK r : r = insertSelect(v, options, markup)
  OBVIOUS
<1>4. SelectOK(r) /\ (v # Null => Shows(r, v))
  BY <1>2, <1>3, SelectInserted
<1>5. SelectOK(select') = SelectOK(r) /\ Shows(select', wanted') = Shows(r, v)
  BY <1>1, <1>3
<1>6. SelectOK(select)' /\ (wanted' # Null => Shows(select, wanted)')
  BY <1>1, <1>3, <1>4 DEF SelectOK, Shows
<1>7. wanted' \in ValuesOf(multiple') \cup {Null} /\ multiple' \in BOOLEAN
  BY <1>1 DEF FormInv
<1> QED
  BY <1>6, <1>7 DEF FormInv, ValuesOf

(* The element leaves with what was kept on it.                            *)
LEMMA RemoveSelectKeeps ==
  ASSUME FormInv, RemoveSelect
  PROVE  FormInv'
<1>1. /\ multiple' = multiple /\ select' = Absent /\ wanted' = Null
  BY DEF RemoveSelect
<1>2. ~Ready'
  BY <1>1 DEF Ready
<1> QED
  BY <1>1, <1>2 DEF FormInv

(* .NET sets the value.                                                    *)
LEMMA SetValueKeeps ==
  ASSUME FormAssumption, FormInv, NEW v \in ValuesOf(multiple) \cup {Null}, SetValue(v)
  PROVE  FormInv'
<1>1. /\ multiple' = multiple /\ failed' = failed /\ wanted' = v /\ since' = "set"
      /\ select' = tryApplyValueProperty(select, v) /\ SelectOK(select)
  BY DEF SetValue, FormInv, Ready
<1>2. PICK r : r = tryApplyValueProperty(select, v)
  OBVIOUS
<1>3. v \in (SUBSET Options) \cup {Null} /\ (v # Null /\ ~multiple => Few(v))
  BY FewIs DEF ValuesOf
<1>4. /\ SelectOK(r) /\ r.options = select.options /\ r.late = {} /\ r.deferred = v
      /\ r.selected = IF v = Null THEN {} ELSE v \cap Has(select)
  BY <1>1, <1>2, <1>3, ValueIsApplied
<1>5. Has(r) = Has(select)
  BY <1>4 DEF Has
<1>6. v # Null => Shows(r, v)
  BY <1>3, <1>4, <1>5, AppliedShows
<1>7. SelectOK(select)' /\ (wanted' # Null => Shows(select, wanted)')
  BY <1>1, <1>2, <1>4, <1>6 DEF SelectOK, Shows
<1>8. wanted' \in ValuesOf(multiple') \cup {Null} /\ multiple' \in BOOLEAN
  BY <1>1 DEF FormInv
<1> QED
  BY <1>7, <1>8 DEF FormInv, ValuesOf

(* The select and the value .NET gave it, when only options change.        *)
LEMMA OptionsKeep ==
  ASSUME FormInv, UNCHANGED <<multiple, wanted>>, NEW r, select' = r, SelectOK(r),
         Ready' /\ wanted # Null /\ since' = "set" => Shows(r, wanted)
  PROVE  FormInv'
<1>1. SelectOK(select)' /\ (Ready' /\ wanted' # Null /\ since' = "set" => Shows(select, wanted)')
  BY DEF SelectOK, Shows
<1>2. wanted' \in ValuesOf(multiple') \cup {Null} /\ multiple' \in BOOLEAN
  BY DEF FormInv
<1> QED
  BY <1>1, <1>2 DEF FormInv, ValuesOf

(* The renderer inserts an option; with a removed value in a list it       *)
(* throws.                                                                 *)
LEMMA InsertOptionKeeps ==
  ASSUME FormAssumption, FormInv, NEW k \in 1 .. Len(select.options) + 1, NEW o \in Options, InsertOption(k, o)
  PROVE  FormInv'
<1>1. /\ Ready /\ o \in Options \ Has(select) /\ SelectOK(select)
      /\ UNCHANGED <<multiple, wanted, since>>
      /\ wanted # Null /\ since = "set" => Shows(select, wanted)
  BY DEF InsertOption, FormInv, Ready
<1>2. k \in 1..(Len(select.options) + 1)
  OBVIOUS
<1>3. CASE Throws(select)
  <2>1. select' = Inserted(select, k, o) /\ failed'
    BY <1>3 DEF InsertOption
  <2>2. PICK r : r = Inserted(select, k, o)
    OBVIOUS
  <2>3. SelectOK(r)
    BY <1>1, <1>2, <2>2, InsertedIs
  <2>4. ~Ready'
    BY <2>1 DEF Ready
  <2> QED
    BY <1>1, <2>1, <2>2, <2>3, <2>4, OptionsKeep
<1>4. CASE ~Throws(select)
  <2>1. PICK r : r = insertOption(select, k, o)
    OBVIOUS
  <2>2. select' = r
    BY <1>4, <2>1 DEF InsertOption
  <2>3. Grown(r, select, o, wanted)
    BY <1>1, <1>2, <1>4, <2>1, OptionInserted, FormAssumption
  <2>4. wanted # Null /\ since' = "set" => Shows(r, wanted)
    BY <1>1, <2>3 DEF Grown, FormInv
  <2>5. SelectOK(r)
    BY <2>3 DEF Grown
  <2> QED
    BY <1>1, <2>2, <2>4, <2>5, OptionsKeep
<1> QED
  BY <1>3, <1>4

(* Markup brings an option.                                                *)
LEMMA InsertMarkupKeeps ==
  ASSUME FormAssumption, FormInv, NEW k \in 1 .. Len(select.options) + 1, NEW o \in Options, InsertMarkup(k, o)
  PROVE  FormInv'
<1>1. /\ Ready /\ o \in Options \ Has(select) /\ SelectOK(select)
      /\ UNCHANGED <<multiple, wanted, since>>
      /\ wanted # Null /\ since = "set" => Shows(select, wanted)
  BY DEF InsertMarkup, FormInv, Ready
<1>2. k \in 1..(Len(select.options) + 1)
  OBVIOUS
<1>3. PICK m, r : m = Inserted(select, k, o) /\ r = [m EXCEPT !.late = @ \cup {o}]
  OBVIOUS
<1>4. select' = r
  BY <1>3 DEF InsertMarkup
<1>5. SelectOK(m)
  BY <1>1, <1>2, <1>3, InsertedIs
<1>6. r \in Selects /\ r.options = m.options /\ r.selected = m.selected
  BY <1>3, <1>5 DEF SelectOK, Selects
<1>7. SelectOK(r)
  BY <1>5, <1>6 DEF SelectOK
<1>8. ASSUME wanted # Null, since = "set" PROVE Shows(r, wanted)
  <2>1. wanted \in ValuesOf(multiple) /\ Shows(select, wanted)
    BY <1>1, <1>8 DEF FormInv
  <2> QED
    BY <1>1, <1>2, <1>3, <2>1, MarkupInserted, FormAssumption
<1> QED
  BY <1>1, <1>4, <1>7, <1>8, OptionsKeep

(* An option gets another value.                                           *)
LEMMA SetOptionValueKeeps ==
  ASSUME FormAssumption, FormInv, NEW o \in Options, NEW new \in Options, SetOptionValue(o, new)
  PROVE  FormInv'
<1>1. /\ Ready /\ o \in Has(select) \ select.late /\ new \in Options \ Has(select) /\ SelectOK(select)
      /\ UNCHANGED <<multiple, wanted>> /\ Leaves(o)
      /\ wanted # Null /\ since = "set" => Shows(select, wanted)
  BY DEF SetOptionValue, FormInv, Ready
<1>2. since' = "set" => since = "set" /\ (multiple \/ wanted # {o})
  BY <1>1 DEF Leaves
<1>3. PICK m : m = Renaming(select, o, new)
  OBVIOUS
<1>4. CASE Throws(select)
  <2>1. select' = m /\ failed'
    BY <1>3, <1>4 DEF SetOptionValue, Renaming
  <2>2. SelectOK(m)
    BY <1>1, <1>3, RenamingIs
  <2>3. ~Ready'
    BY <2>1 DEF Ready
  <2> QED
    BY <1>1, <2>1, <2>2, <2>3, OptionsKeep
<1>5. CASE ~Throws(select)
  <2>1. PICK r : r = trySetSelectValueFromOptionElement(m, new)
    OBVIOUS
  <2>2. select' = r
    BY <1>3, <1>5, <2>1 DEF SetOptionValue, Renaming
  <2>3. /\ SelectOK(r)
        /\ wanted \in ValuesOf(multiple) /\ Shows(select, wanted) /\ (multiple \/ wanted # {o}) =>
             Shows(r, wanted)
    BY <1>1, <1>3, <1>5, <2>1, OptionRenamed, FormAssumption
  <2>4. wanted # Null /\ since' = "set" => Shows(r, wanted)
    BY <1>1, <1>2, <2>3 DEF FormInv
  <2> QED
    BY <1>1, <2>2, <2>3, <2>4, OptionsKeep
<1> QED
  BY <1>4, <1>5

(* An option is removed.                                                   *)
LEMMA RemoveOptionKeeps ==
  ASSUME FormAssumption, FormInv, NEW k \in 1 .. Len(select.options), RemoveOption(k)
  PROVE  FormInv'
<1>1. PICK o : o = select.options[k]
  OBVIOUS
<1>2. /\ Ready /\ SelectOK(select) /\ UNCHANGED <<multiple, wanted>> /\ Leaves(o)
      /\ select' = Removed(select, k)
      /\ wanted # Null /\ since = "set" => Shows(select, wanted)
  BY <1>1 DEF RemoveOption, FormInv, Ready
<1>3. since' = "set" => since = "set" /\ (multiple \/ wanted # {o})
  BY <1>2 DEF Leaves
<1>4. PICK r : r = Removed(select, k)
  OBVIOUS
<1>5. SelectOK(r)
  BY <1>2, <1>4, RemovedIs
<1>6. ASSUME wanted # Null, since' = "set" PROVE Shows(r, wanted)
  <2>1. wanted \in ValuesOf(multiple) /\ Shows(select, wanted) /\ (multiple \/ wanted # {o})
    BY <1>2, <1>3, <1>6 DEF FormInv
  <2> QED
    BY <1>1, <1>2, <1>4, <2>1, RemovedShows, FormAssumption
<1> QED
  BY <1>2, <1>4, <1>5, <1>6, OptionsKeep

(* The user chooses; what .NET asked for before does not matter any more.  *)
LEMMA ChooseKeeps ==
  ASSUME FormAssumption, FormInv, NEW v \in ValuesOf(multiple), Choose(v)
  PROVE  FormInv'
<1>1. /\ multiple' = multiple /\ wanted' = v /\ since' = "chosen" /\ SelectOK(select)
      /\ select' = [select EXCEPT !.selected = v]
  BY DEF Choose, FormInv, Ready
<1>2. v \in SUBSET Options /\ (~multiple => Few(v))
  BY FewIs DEF ValuesOf
<1>3. PICK r : r = [select EXCEPT !.selected = v]
  OBVIOUS
<1>4. r \in Selects /\ r.options = select.options /\ r.selected = v
  BY <1>1, <1>2, <1>3 DEF SelectOK, Selects
<1>5. SelectOK(r)
  BY <1>1, <1>2, <1>4 DEF SelectOK
<1>6. SelectOK(select)'
  BY <1>1, <1>3, <1>5 DEF SelectOK
<1>7. since' # "set" /\ wanted' \in ValuesOf(multiple') /\ multiple' \in BOOLEAN
  BY <1>1 DEF FormInv
<1> QED
  BY <1>6, <1>7 DEF FormInv, ValuesOf

(* Every step keeps FormInv.                                               *)
LEMMA FormStep ==
  ASSUME FormInv, [FormNext]_formVars
  PROVE  FormInv'
<1>1. FormAssumption
  BY FormAssumption
<1>2. ASSUME UNCHANGED formVars PROVE FormInv'
  BY <1>2 DEF formVars, FormInv, Ready, SelectOK, Shows, ValuesOf
<1> QED
  BY <1>1, <1>2, RenderSelectKeeps, RemoveSelectKeeps, SetValueKeeps, InsertOptionKeeps,
     InsertMarkupKeeps, SetOptionValueKeeps, RemoveOptionKeeps, ChooseKeeps DEF FormNext

(* FormInv implies that the value shows.                                   *)
LEMMA ShownIs ==
  ASSUME FormInv
  PROVE  ValueIsShown
<1> SUFFICES ASSUME Ready, wanted # Null, since = "set" PROVE ShowsValue(select, wanted)
  BY DEF ValueIsShown
<1>1. Shows(select, wanted) /\ SelectOK(select) /\ wanted \in ValuesOf(multiple)
  BY DEF FormInv, Ready
<1>2. select \in Selects
  BY <1>1 DEF SelectOK
<1>3. CASE multiple
  BY <1>1, <1>3 DEF Shows, ShowsValue
<1>4. CASE ~multiple
  <2>1. \A x \in wanted : x \in Has(select) \ select.late => select.selected = {x}
    BY <1>1, <1>4 DEF Shows
  <2>2. Cardinality(select.selected) <= 1
    <3>1. select.selected \in SUBSET Options /\ Few(select.selected)
      BY <1>1, <1>2, <1>4 DEF SelectOK, Selects
    <3> QED
      BY <3>1, FewIs
  <2> QED
    BY <1>4, <2>1, <2>2 DEF ShowsValue
<1> QED
  BY <1>3, <1>4

(* For any options, inserted, renamed, moved and removed in any order, in  *)
(* a block or one by one: the value .NET set shows for the options that    *)
(* are there, until the option that showed it leaves or the user chooses   *)
(* another (DomSpecialPropertyUtil.ts: applyAnyDeferredValue,              *)
(* trySetSelectValueFromOptionElement).                                    *)
THEOREM ValuesAreShown == FormSpec => []ValueIsShown
  BY FormInvInit, FormStep, ShownIs, PTL DEF FormSpec

=============================================================================
