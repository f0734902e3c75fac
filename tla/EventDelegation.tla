-------------------------- MODULE EventDelegation --------------------------
(***************************************************************************)
(* EventDelegator.ts: one listener per event name at the document stands   *)
(* for the handlers and flags of all elements. The tables that say which   *)
(* handler an element has are changed by render batches, which may run     *)
(* inside the dispatch of an event, and by custom event names that are     *)
(* registered as aliases of browser events when handlers for them exist.   *)
(*                                                                         *)
(* Elements are nested: Depth is the outermost, 1 the innermost. An event  *)
(* raised by the .NET code that an event reached has a walk of its own,    *)
(* which reads the same tables: one walk is modelled at a time. Left out:  *)
(* disabled form elements, which count as elements without a handler for   *)
(* mouse clicks, the permanent count for click (notifyAfterClick), and the *)
(* effect of preventDefault on the browser.                                *)
(***************************************************************************)
EXTENDS Integers, FiniteSets, Sequences

CONSTANTS Depth,          \* nested elements
          BrowserNames,   \* events of the browser
          NonBubbling,    \* those in nonBubblingEvents
          Passive,        \* those the browser listens to passively by default
          Aliases,        \* names that may become aliases ...
          Target,         \* ... of this browser event
          MaxIds,         \* event handler ids .NET may issue
          MaxEdits,       \* edits in a behaviour
          Nothing

ASSUME EventAssumption ==
  /\ Depth \in Nat \ {0} /\ MaxIds \in Nat /\ MaxEdits \in Nat
  /\ NonBubbling \subseteq BrowserNames /\ Passive \subseteq BrowserNames \ NonBubbling
  /\ Target \in BrowserNames \cap Passive /\ Aliases \cap BrowserNames = {}
  /\ IsFiniteSet(BrowserNames) /\ IsFiniteSet(Aliases)
  /\ Nothing \notin 1..MaxIds /\ Nothing \notin (1..Depth) \X (BrowserNames \cup Aliases)

Nested == 1..Depth
Names == BrowserNames \cup Aliases
Places == Nested \X Names
Ids == 1..MaxIds
NaN == -1     \* what decrementing a missing entry leaves behind

VARIABLES
  infos,      \* infosByEventHandlerId: the place of the handler with an id
  handler,    \* EventHandlerInfosForElement.handlers: the id of the handler at a place
  stop,       \* stopPropagationFlags that are true
  prevent,    \* preventDefaultFlags that are true
  count,      \* countByEventName, 0: no entry
  listeners,  \* the document's listeners
  aliases,    \* eventTypeRegistry: aliases registered so far
  late,       \* aliases registered while their name was counted
  walk,       \* dispatchGlobalEventToAllElements in progress, or Nothing
  document,   \* elements in the document
  gone,       \* elements removed from it
  renderedIds,  \* .NET: the handler id its render tree has at a place, or Nothing
  disposing,  \* .NET: disposedEventHandlerIds of the batch
  dropped,    \* rendered places whose handler went with an attached root
  phase,      \* where renderBatch is
  issued,     \* .NET: the last handler id issued
  edits       \* edits left

storeVars == <<infos, handler, stop, prevent, count, listeners>>
aliasVars == <<aliases, late>>
netVars   == <<document, gone, renderedIds, disposing, dropped, phase, issued, edits>>
eventVars == <<storeVars, aliasVars, walk, netVars>>

Walks == [event : BrowserNames, name : Names, left : SUBSET Names,
          full : Seq(Nested), path : Seq(Nested), at : {"look", "flags", "done"},
          held : (SUBSET Names) \cup {Nothing}, called : SUBSET Nested,
          quiet : BOOLEAN, base : {"idle", "edits"}]

EventInit ==
  /\ infos = [i \in Ids |-> Nothing] /\ handler = [p \in Places |-> Nothing]
  /\ stop = {} /\ prevent = {}
  /\ count = [n \in Names |-> 0] /\ listeners = {}
  /\ aliases = {} /\ late = {} /\ walk = Nothing
  /\ document = {Depth} /\ gone = {}
  /\ renderedIds = [p \in Places |-> Nothing]
  /\ disposing = {} /\ dropped = {} /\ phase = "idle" /\ issued = 0
  /\ edits = MaxEdits

-----------------------------------------------------------------------------
(* EventInfoStore                                                          *)

(* The browser event that stands behind a name.                            *)
BrowserName(n) == IF n \in aliases THEN Target ELSE n

(* addEventListener ignores a listener that is there already, whatever its *)
(* mode; removeEventListener, called without useCapture, removes only the  *)
(* one that does not capture.                                              *)
Listen(L, n, active) ==
  LET capture == n \in NonBubbling IN
  IF \E l \in L : l.name = n /\ l.capture = capture THEN L
  ELSE L \cup {[name |-> n, capture |-> capture, active |-> active]}

Unlisten(L, n) == {l \in L : l.name # n \/ l.capture}

Plus(c, k) == IF c = NaN THEN NaN ELSE c + k

addGlobalListener(n) ==
  LET b == BrowserName(n) IN
  /\ count' = [count EXCEPT ![b] = Plus(@, 1)]
  /\ listeners' = IF count[b] # 0 THEN listeners
                  ELSE Listen(listeners, b, b \notin Passive)

addActiveGlobalListener(n) ==
  LET b == BrowserName(n) IN
  /\ count' = [count EXCEPT ![b] = Plus(@, 1)]
  /\ listeners' = Listen(IF count[b] # 0 THEN Unlisten(listeners, b) ELSE listeners, b, TRUE)

decrementCountByEventName(n) ==
  /\ count' = [count EXCEPT ![n] = IF @ \in {0, NaN} THEN NaN ELSE @ - 1]
  /\ listeners' = IF count[n] = 1 THEN Unlisten(listeners, n) ELSE listeners

(* Mutant: the old id stays in the table.                                  *)
updateAndKeep(old, new) ==
  /\ infos' = [infos EXCEPT ![new] = infos[old]]
  /\ handler' = [handler EXCEPT ![infos[old]] = new]
  /\ UNCHANGED <<count, listeners>>

(* The id of an existing handler is replaced; nothing is counted.          *)
update(old, new) ==
  /\ infos' = [infos EXCEPT ![old] = Nothing, ![new] = infos[old]]
  /\ handler' = [handler EXCEPT ![infos[old]] = new]
  /\ UNCHANGED <<count, listeners>>

(* A listener whose id is unknown was replaced during the batch, or its    *)
(* element's listeners were removed.                                       *)
remove(id) ==
  IF infos[id] = Nothing THEN UNCHANGED <<infos, count, listeners>>
  ELSE /\ infos' = [infos EXCEPT ![id] = Nothing]
       /\ decrementCountByEventName(BrowserName(infos[id][2]))

-----------------------------------------------------------------------------
(* EventDelegator                                                          *)

setListener(e, n, id) ==
  /\ IF handler[<<e, n>>] # Nothing THEN update(handler[<<e, n>>], id)
     ELSE /\ infos' = [infos EXCEPT ![id] = <<e, n>>]
          /\ handler' = [handler EXCEPT ![<<e, n>>] = id]
          /\ addGlobalListener(n)
  /\ UNCHANGED <<stop, prevent>>

removeListener(id) ==
  /\ remove(id)
  /\ handler' = IF infos[id] = Nothing THEN handler
                ELSE [handler EXCEPT ![infos[id]] = Nothing]
  /\ UNCHANGED <<stop, prevent>>

(* All handlers of the elements are removed and their flags are forgotten, *)
(* without giving back what was counted for the flags. A dispatch that has *)
(* fetched the flags of one of the elements keeps them.                    *)
removeListenersForElements(E) ==
  LET theirs == {p \in Places : p[1] \in E /\ handler[p] # Nothing}
      fewer(n) == Cardinality({p \in theirs : BrowserName(p[2]) = n})
      none    == {n \in Names : fewer(n) # 0 /\ count[n] = fewer(n)}
  IN
  /\ infos' = [i \in Ids |-> IF \E p \in theirs : handler[p] = i THEN Nothing ELSE infos[i]]
  /\ handler' = [p \in Places |-> IF p \in theirs THEN Nothing ELSE handler[p]]
  /\ count' = [n \in Names |-> IF count[n] = NaN THEN NaN ELSE count[n] - fewer(n)]
  /\ listeners' = {l \in listeners : l.name \notin none \/ l.capture}
  /\ stop' = {p \in stop : p[1] \notin E}
  /\ prevent' = {p \in prevent : p[1] \notin E}

StopsAt(e) == {n \in Names : <<e, n>> \in stop}

setStopPropagation(e, n, value) ==
  /\ stop' = IF value THEN stop \cup {<<e, n>>} ELSE stop \ {<<e, n>>}
  /\ CASE value /\ <<e, n>> \notin stop -> addGlobalListener(n)
       [] ~value /\ <<e, n>> \in stop  -> decrementCountByEventName(n)
       [] OTHER                        -> UNCHANGED <<count, listeners>>
  /\ UNCHANGED <<infos, handler, prevent>>

(* Mutant: prevention counts like any listener.                            *)
setPreventDefaultPassive(e, n, value) ==
  /\ prevent' = IF value THEN prevent \cup {<<e, n>>} ELSE prevent \ {<<e, n>>}
  /\ CASE value /\ <<e, n>> \notin prevent -> addGlobalListener(n)
       [] ~value /\ <<e, n>> \in prevent  -> decrementCountByEventName(n)
       [] OTHER                           -> UNCHANGED <<count, listeners>>
  /\ UNCHANGED <<infos, handler, stop>>

setPreventDefault(e, n, value) ==
  /\ prevent' = IF value THEN prevent \cup {<<e, n>>} ELSE prevent \ {<<e, n>>}
  /\ CASE value /\ <<e, n>> \notin prevent -> addActiveGlobalListener(n)
       [] ~value /\ <<e, n>> \in prevent  -> decrementCountByEventName(n)
       [] OTHER                           -> UNCHANGED <<count, listeners>>
  /\ UNCHANGED <<infos, handler, stop>>

(* Mutant: what was counted becomes one.                                   *)
handleEventNameAliasAddedOnce(a) ==
  /\ count' = [count EXCEPT ![a] = 0, ![Target] = IF count[a] = 0 THEN @ ELSE Plus(@, 1)]
  /\ listeners' = LET L == Unlisten(listeners, a) IN
       IF count[a] = 0 THEN listeners
       ELSE IF count[Target] # 0 THEN L
       ELSE Listen(L, Target, Target \notin Passive)

(* EventInfoStore.handleEventNameAliasAdded: what was counted for the name *)
(* is counted for the browser event from now on.                           *)
handleEventNameAliasAdded(a) ==
  /\ count' = [count EXCEPT ![a] = 0, ![Target] = Plus(@, count[a])]
  /\ listeners' = LET L == Unlisten(listeners, a) IN
       IF count[a] = 0 THEN listeners
       ELSE IF count[Target] # 0 THEN L
       ELSE Listen(L, Target, Target \notin Passive)

(* Page code registers a custom event type with a browserEventName.        *)
registerCustomEventType(a) ==
  /\ a \notin aliases
  /\ handleEventNameAliasAdded(a)
  /\ aliases' = aliases \cup {a}
  /\ late' = IF count[a] = 0 THEN late ELSE late \cup {a}
  /\ walk' = IF walk = Nothing THEN Nothing ELSE [walk EXCEPT !.quiet = FALSE]
  /\ UNCHANGED <<infos, handler, stop, prevent, netVars>>

-----------------------------------------------------------------------------
(* Render batches. A batch is applied when no other is, at any time        *)
(* JavaScript waits for .NET: between events or inside a dispatch. While   *)
(* an event that a batch itself caused is dispatched, its edits wait.      *)

MayEdit == phase = "edits" /\ (walk # Nothing => walk.base = "idle")

Edit(e) ==
  /\ MayEdit /\ edits > 0 /\ e \in document
  /\ edits' = edits - 1

(* A dispatch that waits for the flags of an element keeps its object.     *)
Unquiet(E) ==
  walk' = IF walk = Nothing THEN Nothing
          ELSE [walk EXCEPT !.quiet = FALSE,
                            !.held = IF walk.at = "flags" /\ @ = Nothing /\ Head(walk.path) \in E
                                     THEN StopsAt(Head(walk.path)) ELSE @]

BeginBatch ==
  /\ phase = "idle" /\ edits > 0
  /\ walk # Nothing => walk.at = "flags"
  /\ phase' = "edits"
  /\ UNCHANGED <<storeVars, aliasVars, walk, document, gone, renderedIds, disposing, dropped, issued, edits>>

(* applyAttribute with a new handler id. The id it replaces will be        *)
(* disposed at the end of the batch.                                       *)
applyAttribute(e, n) ==
  /\ Edit(e)
  /\ issued < MaxIds
  /\ issued' = issued + 1
  /\ setListener(e, n, issued + 1)
  /\ renderedIds' = [renderedIds EXCEPT ![<<e, n>>] = issued + 1]
  /\ disposing' = disposing \cup ({renderedIds[<<e, n>>]} \ {Nothing})
  /\ dropped' = dropped \ {<<e, n>>}
  /\ Unquiet({})
  /\ UNCHANGED <<aliasVars, document, gone, phase>>

(* The edit removes an attribute; the delegator learns of it by the id.    *)
removeAttribute(e, n) ==
  /\ Edit(e)
  /\ renderedIds[<<e, n>>] # Nothing
  /\ renderedIds' = [renderedIds EXCEPT ![<<e, n>>] = Nothing]
  /\ disposing' = disposing \cup {renderedIds[<<e, n>>]}
  /\ dropped' = dropped \ {<<e, n>>}
  /\ UNCHANGED <<storeVars, aliasVars, walk, document, gone, phase, issued>>

applyInternalAttribute(e, n, value) ==
  /\ Edit(e)
  /\ \/ setStopPropagation(e, n, value)
     \/ setPreventDefault(e, n, value)
  /\ Unquiet({})
  /\ UNCHANGED <<aliasVars, document, gone, renderedIds, disposing, dropped, phase, issued>>

insertElement(e) ==
  /\ Edit(e + 1)
  /\ e \in Nested \ (document \cup gone)
  /\ document' = document \cup {e}
  /\ UNCHANGED <<storeVars, aliasVars, walk, gone, renderedIds, disposing, dropped, phase, issued>>

Leave(E) ==
  /\ document' = document \ E
  /\ gone' = gone \cup (document \cap E)

(* An element is removed with all it contains. Nothing is said to the      *)
(* delegator before the ids of its handlers are disposed.                  *)
removeElement(e) ==
  LET under == {p \in Places : p[1] <= e} IN
  /\ Edit(e)
  /\ Leave(1..e)
  /\ renderedIds' = [p \in Places |-> IF p \in under THEN Nothing ELSE renderedIds[p]]
  /\ disposing' = disposing \cup ({renderedIds[p] : p \in under} \ {Nothing})
  /\ dropped' = dropped \ under
  /\ UNCHANGED <<storeVars, aliasVars, walk, phase, issued>>

(* updateComponent, first rendering of a root component in the container   *)
(* e: what e contains, prerendered or left by a component that is gone, is *)
(* removed, and the listeners of all this and of e itself are.             *)
detachEventHandlersFromElement(e) ==
  /\ Edit(e)
  /\ \A p \in Places : p[1] < e => renderedIds[p] = Nothing
  /\ removeListenersForElements(1..e)
  /\ Leave(1..(e - 1))
  /\ dropped' = dropped \cup {p \in Places : p[1] = e /\ renderedIds[p] # Nothing}
  /\ Unquiet(1..e)
  /\ UNCHANGED <<aliasVars, renderedIds, disposing, phase, issued>>

EndEdits ==
  /\ MayEdit
  /\ phase' = "disposals"
  /\ UNCHANGED <<storeVars, aliasVars, walk, document, gone, renderedIds, disposing, dropped, issued, edits>>

(* Mutant: disposed ids are not passed on to the delegator.                *)
disposeNothing(id) ==
  /\ phase = "disposals" /\ id \in disposing
  /\ disposing' = disposing \ {id}
  /\ UNCHANGED <<storeVars, aliasVars, walk, document, gone, renderedIds, dropped, phase, issued, edits>>

disposeEventHandler(id) ==
  /\ phase = "disposals" /\ id \in disposing
  /\ removeListener(id)
  /\ disposing' = disposing \ {id}
  /\ Unquiet({})
  /\ UNCHANGED <<aliasVars, document, gone, renderedIds, dropped, phase, issued, edits>>

EndBatch ==
  /\ phase = "disposals" /\ disposing = {}
  /\ phase' = "idle"
  /\ UNCHANGED <<storeVars, aliasVars, walk, document, gone, renderedIds, disposing, dropped, issued, edits>>

-----------------------------------------------------------------------------
(* Dispatch                                                                *)

(* An event at element e, raised by the user or by an edit of a batch.     *)
onGlobalEvent(b, e) ==
  LET full == [k \in 1..(Depth - e + 1) |-> e + k - 1] IN
  /\ walk = Nothing /\ phase \in {"idle", "edits"} /\ e \in document
  /\ \E l \in listeners : l.name = b
  /\ walk' = [event |-> b, name |-> b, left |-> {}, full |-> full, path |-> full,
              at |-> "look", held |-> Nothing, called |-> {}, quiet |-> TRUE, base |-> phase]
  /\ UNCHANGED <<storeVars, aliasVars, netVars>>

Walking(at) == walk # Nothing /\ walk.at = at /\ walk.base = phase

(* The end of the loop's body: up to the parent unless the event does not  *)
(* bubble, by the name it is dispatched for, or an element stopped it.     *)
Up(w, stopped) ==
  LET end == w.name \in NonBubbling \/ stopped \/ Len(w.path) = 1 IN
  [w EXCEPT !.path = IF end THEN <<>> ELSE Tail(@),
            !.at = IF end THEN "done" ELSE "look", !.held = Nothing]

(* Mutant: the flags of elements without a handler are not looked at.      *)
LookForHandlers ==
  LET e == Head(walk.path) IN
  /\ Walking("look")
  /\ walk' = IF handler[<<e, walk.name>>] = Nothing THEN Up(walk, FALSE)
             ELSE [walk EXCEPT !.called = @ \cup {e}, !.at = "flags"]
  /\ UNCHANGED <<storeVars, aliasVars, netVars>>

(* The element has no handler, or it is called: .NET may run and apply     *)
(* batches before the flags are read.                                      *)
Look ==
  LET e == Head(walk.path) IN
  /\ Walking("look")
  /\ walk' = IF handler[<<e, walk.name>>] = Nothing
             THEN Up(walk, walk.name \in StopsAt(e))
             ELSE [walk EXCEPT !.called = @ \cup {e}, !.at = "flags"]
  /\ UNCHANGED <<storeVars, aliasVars, netVars>>

ReadFlags ==
  LET stops == IF walk.held = Nothing THEN StopsAt(Head(walk.path)) ELSE walk.held IN
  /\ Walking("flags")
  /\ walk' = Up(walk, walk.name \in stops)
  /\ UNCHANGED <<storeVars, aliasVars, netVars>>

(* After the browser's name come its aliases, as registered by then.       *)
NextName ==
  LET left == IF walk.name = walk.event /\ walk.event = Target THEN aliases ELSE walk.left IN
  /\ Walking("done")
  /\ IF left = {} THEN walk' = Nothing
     ELSE \E n \in left :
            walk' = [walk EXCEPT !.name = n, !.left = left \ {n}, !.path = walk.full,
                                 !.at = "look", !.called = {}, !.quiet = TRUE]
  /\ UNCHANGED <<storeVars, aliasVars, netVars>>

-----------------------------------------------------------------------------
Register == \E a \in Aliases : phase = "idle" /\ registerCustomEventType(a)

Batch ==
  \/ BeginBatch \/ EndEdits \/ EndBatch
  \/ \E e \in Nested : insertElement(e) \/ removeElement(e) \/ detachEventHandlersFromElement(e)
  \/ \E e \in Nested, n \in Names : applyAttribute(e, n) \/ removeAttribute(e, n)
  \/ \E e \in Nested, n \in Names, value \in BOOLEAN : applyInternalAttribute(e, n, value)
  \/ \E id \in Ids : disposeEventHandler(id)

Dispatch ==
  \/ \E b \in BrowserNames, e \in Nested : onGlobalEvent(b, e)
  \/ Look \/ ReadFlags \/ NextName

EventNext == Register \/ Batch \/ Dispatch

EventSpec == EventInit /\ [][EventNext]_eventVars

-----------------------------------------------------------------------------
EventTypeOK ==
  /\ infos \in [Ids -> Places \cup {Nothing}] /\ handler \in [Places -> Ids \cup {Nothing}]
  /\ stop \subseteq Places /\ prevent \subseteq Places
  /\ count \in [Names -> Nat \cup {NaN}]
  /\ listeners \subseteq [name : Names, capture : BOOLEAN, active : BOOLEAN]
  /\ late \subseteq aliases /\ aliases \subseteq Aliases
  /\ walk \in Walks \cup {Nothing}
  /\ document \subseteq Nested /\ gone \subseteq Nested /\ document \cap gone = {}
  /\ renderedIds \in [Places -> Ids \cup {Nothing}] /\ disposing \subseteq Ids
  /\ dropped \subseteq Places
  /\ phase \in {"idle", "edits", "disposals"}
  /\ issued \in 0..MaxIds /\ edits \in 0..MaxEdits

(* The table by id and the tables by element name the same handlers, after *)
(* any order of replacing, disposing and clearing (setListener,            *)
(* removeListener, removeListenersForElement).                             *)
TablesAgree ==
  /\ \A p \in Places : handler[p] # Nothing => infos[handler[p]] = p
  /\ \A i \in Ids : infos[i] # Nothing => handler[infos[i]] = i

(* The tables agree; an id the delegator would send to .NET is one that    *)
(* .NET knows, or one the batch being applied will dispose; and a handler  *)
(* .NET has rendered is the one the delegator knows at its element, unless *)
(* the listeners of its element were removed because it became a root      *)
(* component's container (BrowserRenderer.ts:66-68). A disposal never hits *)
(* a replacement.                                                          *)
TrackedAreLive ==
  /\ EventTypeOK /\ TablesAgree
  /\ \A i \in Ids : infos[i] # Nothing => i \in disposing \/ \E p \in Places : renderedIds[p] = i
  /\ \A p \in Places \ dropped : renderedIds[p] # Nothing => infos[renderedIds[p]] = p

ListensTo(b, L) == \E l \in L : l.name = b /\ l.capture = (b \in NonBubbling)

(* While an element has a handler or a flag for a name, the document has   *)
(* the listener for its browser event: countByEventName never falls to     *)
(* zero too early, whatever becomes an alias when. Where the default       *)
(* action is to be prevented it is an active one, also for events to which *)
(* the browser listens passively (addActiveGlobalListener), except for an  *)
(* alias registered after the flag was set: handleEventNameAliasAdded adds *)
(* a listener in the default mode.                                         *)
EventsArrive ==
  \A p \in Places :
    /\ handler[p] # Nothing \/ p \in stop \/ p \in prevent
         => ListensTo(BrowserName(p[2]), listeners)
    /\ p \in prevent /\ p[2] \notin late
         => ListensTo(BrowserName(p[2]), {l \in listeners : l.active})

(* A dispatch during which no table changed has called the elements that   *)
(* the rules of the DOM give: the target, and if the name bubbles those    *)
(* above up to the first that stops it, as far as they have a handler.     *)
(* (An alias of an event that does not bubble bubbles here, as in the code.) *)
BubblesLikeTheDom ==
  walk # Nothing /\ walk.at = "done" /\ walk.quiet =>
    LET target == Head(walk.full) IN
    walk.called = {e \in target..Depth :
                     /\ handler[<<e, walk.name>>] # Nothing
                     /\ walk.name \in NonBubbling => e = target
                     /\ \A f \in target..(e - 1) : <<f, walk.name>> \notin stop}

=============================================================================
