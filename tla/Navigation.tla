----------------------------- MODULE Navigation -----------------------------
(***************************************************************************)
(* The browser's history beside the location that .NET knows               *)
(* (NavigationManager.ts, NavigationUtils.ts, ElectronNavigationManager.cs,*)
(* ElectronNavigationInterception.cs).                                     *)
(*                                                                         *)
(* A URL is within the base and has a page (path and query) and a hash.    *)
(* The browser, Router and the handlers that an application registers are  *)
(* external.  JavaScript calls locationChanged at once and on the same     *)
(* thread, so each handler is one step.                                    *)
(*                                                                         *)
(* Left out, since nothing here starts it: enhanced navigation, and what   *)
(* navigationManager.navigateTo would do (see NavigateTo).                 *)
(***************************************************************************)
EXTENDS Naturals, Sequences

CONSTANTS
  Pages,
  Hashes,     (* "" is a URL without a hash                                 *)
  NoRenderer,
  MaxEntries, (* bound: entries of the history                              *)
  MaxIndex    (* bound: the index of an entry                               *)

ASSUME NavigationAssumption ==
  MaxEntries \in Nat \ {0} /\ MaxIndex \in Nat /\ "" \in Hashes

Urls == [page : Pages, hash : Hashes]

VARIABLES
  entries,  (* the session history: urls and the _index of their state      *)
  at,       (* the current entry                                            *)
  currentHistoryIndex,
  rejected, (* onPopState failed since the index was last set               *)
  navigationCallbacks,  (* renderers that listen                            *)
  hasLocationChangingEventListeners,
  attached,             (* isRendererAttached(0)                            *)
  interactiveRouterRendererId,
  uri,      (* .NET: NavigationManager.Uri, a set, empty until initialised  *)
  asked,    (* URLs that .NET's location changing handlers were asked about *)
  unloaded  (* the page is gone                                             *)

historyVars == <<entries, at, currentHistoryIndex, rejected>>
setupVars ==
  <<navigationCallbacks, hasLocationChangingEventListeners, attached, interactiveRouterRendererId>>
navigationVars == <<historyVars, setupVars, uri, asked, unloaded>>

(* The ids .NET passes.                                                    *)
ListeningRenderer == 0
InterceptingRenderer == 4

Location == entries[at].url

(* history.state?._index ?? 0: an entry that the browser made has no state *)
Entry(url, index) == [url |-> url, index |-> index]

NavigationInit ==
  /\ \E url \in Urls : entries = <<Entry(url, 0)>>
  /\ at = 1 /\ currentHistoryIndex = 0 /\ rejected = FALSE
  /\ navigationCallbacks = {} /\ hasLocationChangingEventListeners = FALSE
  /\ attached = FALSE
  /\ interactiveRouterRendererId = NoRenderer
  /\ uri = {} /\ asked = {} /\ unloaded = FALSE

hasInteractiveRouter == interactiveRouterRendererId # NoRenderer

(* Mutant: a URL with a hash is on the same page.                          *)
isSamePageWithAnyHash(oldUrl, newUrl) == newUrl.hash # ""

isSamePageWithHash(oldUrl, newUrl) == oldUrl.page = newUrl.page /\ newUrl.hash # ""

-----------------------------------------------------------------------------
(* EnsureInitialized, when the application first uses its manager.         *)
Initialize ==
  /\ ~unloaded /\ uri = {}
  /\ navigationCallbacks' = navigationCallbacks \cup {ListeningRenderer}
  /\ currentHistoryIndex' = entries[at].index /\ rejected' = FALSE
  /\ uri' = {Location}
  /\ UNCHANGED <<entries, at, hasLocationChangingEventListeners, attached,
                 interactiveRouterRendererId, asked, unloaded>>

(* The renderer attaches itself; later a Router initialises the manager    *)
(* and enables interception.                                               *)
AttachRenderer ==
  /\ ~unloaded /\ ~attached
  /\ attached' = TRUE
  /\ UNCHANGED <<historyVars, navigationCallbacks, hasLocationChangingEventListeners,
                 interactiveRouterRendererId, uri, asked, unloaded>>

EnableNavigationInterception ==
  /\ ~unloaded /\ attached /\ uri # {} /\ ~hasInteractiveRouter
  /\ interactiveRouterRendererId' = InterceptingRenderer
  /\ UNCHANGED <<historyVars, navigationCallbacks, hasLocationChangingEventListeners,
                 attached, uri, asked, unloaded>>

(* The first handler was registered, or the last one removed.              *)
SetNavigationLockState(value) ==
  /\ ~unloaded /\ ListeningRenderer \in navigationCallbacks
  /\ hasLocationChangingEventListeners # value
  /\ hasLocationChangingEventListeners' = value
  /\ UNCHANGED <<historyVars, navigationCallbacks, attached, interactiveRouterRendererId,
                 uri, asked, unloaded>>

-----------------------------------------------------------------------------
(* .NET's side. The location is set before the handlers are called, so it  *)
(* is also if one of them throws.                                          *)
SetLocation(url) == uri' = {url}

CallsHandlers == ListeningRenderer \in navigationCallbacks /\ attached

notifyLocationChanged(url) ==
  IF CallsHandlers THEN SetLocation(url) ELSE UNCHANGED uri

(* Whether JavaScript asks .NET first.  It never does, for the renderer    *)
(* that intercepts is not the one that listens; the question and its       *)
(* answer are left out.                                                    *)
Asks ==
  /\ interactiveRouterRendererId \in navigationCallbacks
  /\ hasLocationChangingEventListeners

(* history.pushState drops the entries that follow.                        *)
saveToBrowserHistory(url) ==
  /\ at < MaxEntries /\ currentHistoryIndex < MaxIndex
  /\ entries' = Append(SubSeq(entries, 1, at), Entry(url, currentHistoryIndex + 1))
  /\ at' = at + 1
  /\ currentHistoryIndex' = currentHistoryIndex + 1 /\ rejected' = FALSE

(* A click on a link that handleClickForNavigationInterception accepts.    *)
(* What a handler throws comes too late to change anything.                *)
performInternalNavigation(url) ==
  /\ ~unloaded /\ hasInteractiveRouter /\ ~Asks
  /\ saveToBrowserHistory(url)
  /\ IF isSamePageWithHash(Location, url) THEN UNCHANGED uri ELSE notifyLocationChanged(url)
  /\ UNCHANGED <<setupVars, asked, unloaded>>

(* What a handler throws ends it before the index is set.                  *)
onPopState ==
  /\ ~Asks
  /\ notifyLocationChanged(Location')
  /\ \/ navigationCallbacks = {} /\ UNCHANGED <<currentHistoryIndex, rejected>>
     \/ /\ navigationCallbacks # {}
        /\ currentHistoryIndex' = entries'[at'].index /\ rejected' = FALSE
     \/ CallsHandlers /\ rejected' = TRUE /\ UNCHANGED currentHistoryIndex

(* The browser moves in its history.                                       *)
Traverse(to) ==
  /\ ~unloaded /\ to # at
  /\ at' = to
  /\ UNCHANGED entries
  /\ onPopState
  /\ UNCHANGED <<setupVars, asked, unloaded>>

(* A click that is left to the browser, before there is a Router or on a   *)
(* link with another target: on the same page it adds an entry, unless the *)
(* URL is that of the current one, and fires popstate ...                  *)
BrowserFollowsHash(url) ==
  /\ ~unloaded /\ url.page = Location.page /\ url.hash # ""
  /\ IF url = Location
     THEN entries' = [entries EXCEPT ![at] = Entry(url, 0)] /\ UNCHANGED at
     ELSE /\ at < MaxEntries
          /\ entries' = Append(SubSeq(entries, 1, at), Entry(url, 0))
          /\ at' = at + 1
  /\ onPopState
  /\ UNCHANGED <<setupVars, asked, unloaded>>

(* ... and elsewhere it replaces the page.                                 *)
Unload ==
  /\ ~unloaded
  /\ unloaded' = TRUE
  /\ UNCHANGED <<historyVars, setupVars, uri, asked>>

(* NavigateToCore asks the handlers, if there are any.  When they agree it *)
(* calls Blazor._internal.navigateTo, which does not exist; the exception  *)
(* is dropped, so nothing follows.                                         *)
NavigateTo(url) ==
  /\ ~unloaded /\ uri # {} /\ hasLocationChangingEventListeners
  /\ asked' = asked \cup {url}
  /\ UNCHANGED <<historyVars, setupVars, uri, unloaded>>

NavigationNext ==
  \/ Initialize
  \/ AttachRenderer
  \/ EnableNavigationInterception
  \/ \E value \in BOOLEAN : SetNavigationLockState(value)
  \/ \E url \in Urls : performInternalNavigation(url)
  \/ \E to \in DOMAIN entries : Traverse(to)
  \/ \E url \in Urls : BrowserFollowsHash(url)
  \/ Unload
  \/ \E url \in Urls : NavigateTo(url)

NavigationSpec == NavigationInit /\ [][NavigationNext]_navigationVars

-----------------------------------------------------------------------------
(* .NET is on the page the browser shows, whoever moved and however the    *)
(* clicks, the browser's own entries and the traversals mix, also if the   *)
(* manager is used before the renderer is attached and its listeners are   *)
(* not called yet, and when a handler throws.  Only the hash may be that   *)
(* of an earlier entry.  The index kept beside the history is that of the  *)
(* current entry, unless a handler threw when the browser moved: then the  *)
(* next move that succeeds, or the next new entry, puts it right.          *)
(* (notifyLocationChanged, onPopState, saveToBrowserHistory.)              *)
UriFollowsLocation ==
  /\ \A u \in uri : u.page = Location.page
  /\ navigationCallbacks # {} /\ ~rejected => currentHistoryIndex = entries[at].index

(* While handlers are registered, the page changes only to a URL that they *)
(* were asked about: the lock "must be forwarded to the JS side so it only *)
(* invokes the callback path that re-validates the navigation"             *)
(* (ElectronNavigationManager.cs:93-95).                                   *)
LockIsHonoured ==
  [][hasLocationChangingEventListeners /\ Location'.page # Location.page
       => Location' \in asked]_navigationVars
=============================================================================
