------------------------- MODULE ComponentDiscovery -------------------------
(***************************************************************************)
(* The root components that a page comes with (discoverComponents of       *)
(* ComponentDescriptorDiscovery.ts, called by Boot.Electron.ts), and their *)
(* attachment (WebAssemblyComponentAttacher.ts, toLogicalElement and       *)
(* toLogicalRootCommentElement of LogicalElements.ts). A comment marks a   *)
(* component; one whose content was prerendered has a second comment with  *)
(* the same prerenderId where the content ends.                            *)
(*                                                                         *)
(* A document is the sequence of its nodes in document order, each with    *)
(* the place of its parent; 0 is the document. A node is a text or any     *)
(* other comment, metadata, an element, a start or an end marker. Left     *)
(* out: parameters (decoded here, read by .NET), sequences and keys of     *)
(* markers, and what is rendered after the attachment, which LogicalTree   *)
(* has.                                                                    *)
(***************************************************************************)
EXTENDS Naturals, SequencesExt

CONSTANTS
  Markups,       \* the documents that may be loaded
  PrerenderIds,
  NoId           \* no prerenderId

VARIABLES
  markup,             \* the document
  initialComponents,  \* the descriptors found
  startup,            \* "loading", then "started", or "failed": discovery threw
  logical,            \* the logical children of the nodes that have them
  logicalParent,      \* the logical parent of the nodes that have one
  attachedRoots       \* start comments with a descriptor

discoveryVars == <<markup, initialComponents, startup, logical, logicalParent, attachedRoots>>

PageNodes ==
  [kind : {"text", "metadata", "element"}, parent : Nat]
  \cup [kind : {"start"}, parent : Nat, type : STRING, id : PrerenderIds \cup {NoId},
        complete : BOOLEAN]
  \cup [kind : {"end"}, parent : Nat, id : PrerenderIds]

(* Only elements contain nodes, and what a node contains is not            *)
(* interrupted by what it does not contain.                                *)
IsDocument(m) ==
  /\ m \in Seq(PageNodes)
  /\ \A i \in DOMAIN m :
       /\ m[i].parent < i
       /\ m[i].parent # 0 => m[m[i].parent].kind = "element"
  /\ \A i, j \in DOMAIN m : m[j].parent < i /\ i < j => m[j].parent <= m[i].parent

ASSUME DiscoveryAssumption ==
  NoId \notin PrerenderIds /\ \A m \in Markups : IsDocument(m)

IsMarker(i) == markup[i].kind \in {"start", "end"}
MarkerTypes == {"server", "webassembly", "auto"}

childNodes(p) == {i \in DOMAIN markup : markup[i].parent = p}

(* After the last of some nodes.                                           *)
NoNode == Len(markup) + 1
FirstOf(nodes) == IF nodes = {} THEN NoNode ELSE Min(nodes)

nextSiblings(i) == {j \in childNodes(markup[i].parent) : i < j}

-----------------------------------------------------------------------------
(* Mutant: the first end marker of the same id ends a component, whatever  *)
(* is between.                                                             *)
FirstOfSameId(i) ==
  FirstOf({j \in nextSiblings(i) : markup[j].kind = "end" /\ markup[j].id = markup[i].id})

(* An end marker has an id and nothing else.                               *)
validateEndComponentPayload(j, id) == markup[j].kind = "end" /\ markup[j].id = id

(* The end of a start marker with an id: the next marker, if it is such an *)
(* end; none if it is not, or if there is none.                            *)
getComponentEndComment(i) ==
  LET next == FirstOf({j \in nextSiblings(i) : IsMarker(j)})
  IN  IF next # NoNode /\ validateEndComponentPayload(next, markup[i].id) THEN next ELSE NoNode

(* The payload of a component of the type that is asked for.               *)
validateWebAssemblyComponentPayload(i) == markup[i].complete

createWebAssemblyComponentComment(i, end) ==
  [start |-> i, end |-> IF end = i THEN NoNode ELSE end]

(* What is found, or an exception; that ends the whole discovery.          *)
Found(components) == [components |-> components, thrown |-> FALSE]
Thrown == [components |-> <<>>, thrown |-> TRUE]

Then(first, more) ==
  IF first.thrown \/ more.thrown THEN Thrown ELSE Found(first.components \o more.components)

(* The component that starts at i, then the nodes after it or after its    *)
(* end.                                                                    *)
getComponentComment(i, found) ==
  LET end == IF markup[i].id = NoId THEN i ELSE getComponentEndComment(i)
      rest == found[FirstOf(nextSiblings(end))]
  IN  IF \/ markup[i].parent = 0 \/ markup[i].kind = "end"
         \/ markup[i].type \notin MarkerTypes \/ end = NoNode
      THEN Thrown
      ELSE IF markup[i].type # "webassembly" THEN rest
      ELSE IF ~validateWebAssemblyComponentPayload(i) THEN Thrown
      ELSE Then(Found(<<createWebAssemblyComponentComment(i, end)>>), rest)

(* What a node and its later siblings hold.                                *)
resolveComponentComments ==
  LET found[i \in 1 .. NoNode] ==
        IF i = NoNode THEN Found(<<>>)
        ELSE IF IsMarker(i) THEN getComponentComment(i, found)
        ELSE Then(found[FirstOf(childNodes(i))], found[FirstOf(nextSiblings(i))])
  IN  found[FirstOf(childNodes(0))]

-----------------------------------------------------------------------------
isMetadataComment(i) == markup[i].kind = "metadata"

LogicalChildNodes(p) == {i \in childNodes(p) : ~isMetadataComment(i)}

(* These nodes in the order of the document.                               *)
InDocumentOrder(nodes) ==
  [k \in 1 .. Cardinality(nodes) |->
     CHOOSE i \in nodes : Cardinality({j \in nodes : j < i}) = k - 1]

(* toLogicalElement with existing contents: the nodes from p down that are *)
(* to become logical; one that is logical already stops it.                *)
Promoted(p) ==
  LET below[q \in {0} \cup DOMAIN markup] ==
        IF q \in DOMAIN logical THEN {}
        ELSE {q} \cup UNION {below[c] : c \in LogicalChildNodes(q)}
  IN  below[p]

toLogicalElement(p) ==
  LET new == Promoted(p)
      adopted == UNION {LogicalChildNodes(q) : q \in new}
  IN  [children |-> [q \in DOMAIN logical \cup new |->
                       IF q \in new THEN InDocumentOrder(LogicalChildNodes(q)) ELSE logical[q]],
       parent |-> [q \in DOMAIN logicalParent \cup adopted |->
                       IF q \in adopted THEN markup[q].parent ELSE logicalParent[q]]]

Place(s, x) == CHOOSE k \in DOMAIN s : s[k] = x

(* Mutant: the end comment stays with the parent.                          *)
LastBeforeEnd(children, d) == Place(children, d.end) - 1

LastMoved(children, d) == Place(children, d.end)

(* The children from the one after the start comment on move to it, until  *)
(* the end comment has.                                                    *)
toLogicalRootCommentElement(d) ==
  LET parent == markup[d.start].parent
      L == toLogicalElement(parent)
      children == L.children[parent]
      start == Place(children, d.start)
      last == IF d.end = NoNode THEN start ELSE LastMoved(children, d)
      moved == SubSeq(children, start + 1, last)
  IN  /\ attachedRoots' = attachedRoots \cup {d.start}
      /\ logical' = [L.children EXCEPT
           ![parent] = SubSeq(@, 1, start) \o SubSeq(@, last + 1, Len(@)),
           ![d.start] = @ \o moved]
      /\ logicalParent' = [q \in DOMAIN L.parent |->
           IF Contains(moved, q) THEN d.start ELSE L.parent[q]]

-----------------------------------------------------------------------------
DiscoveryInit ==
  /\ markup = <<>> /\ initialComponents = <<>> /\ startup = "loading"
  /\ logical = [p \in {} |-> <<>>] /\ logicalParent = [p \in {} |-> 0]
  /\ attachedRoots = {}

LoadPage ==
  /\ markup = <<>> /\ markup' \in Markups
  /\ UNCHANGED <<initialComponents, startup, logical, logicalParent, attachedRoots>>

(* Of the type webassembly, from the document.                             *)
discoverComponents ==
  /\ markup # <<>> /\ startup = "loading"
  /\ LET found == resolveComponentComments
     IN  /\ initialComponents' = found.components
         /\ startup' = IF found.thrown THEN "failed" ELSE "started"
  /\ UNCHANGED <<markup, logical, logicalParent, attachedRoots>>

(* .NET attaches a root component by the number of a descriptor; one that  *)
(* is attached already stays as it is.                                     *)
resolveRegisteredElement(id) ==
  /\ startup = "started"
  /\ initialComponents[id].start \notin attachedRoots
  /\ toLogicalRootCommentElement(initialComponents[id])
  /\ UNCHANGED <<markup, initialComponents, startup>>

DiscoveryNext ==
  \/ LoadPage
  \/ discoverComponents
  \/ \E id \in DOMAIN initialComponents : resolveRegisteredElement(id)

DiscoverySpec == DiscoveryInit /\ [][DiscoveryNext]_discoveryVars

-----------------------------------------------------------------------------
(* The i-th and the k-th node delimit prerendered content.                 *)
Delimit(i, k) ==
  /\ i < k /\ markup[i].parent = markup[k].parent
  /\ markup[i].kind = "start" /\ markup[k].kind = "end"
  /\ markup[i].id = markup[k].id
  /\ \A j \in childNodes(markup[i].parent) : i < j /\ j < k => ~IsMarker(j)

(* The j-th node is prerendered content.                                   *)
Enclosed(j) ==
  \E i, k \in childNodes(markup[j].parent) : Delimit(i, k) /\ i < j /\ j < k

(* The j-th node is the i-th or inside of it: none of those after the i-th *)
(* belongs to a node before it.                                            *)
Within(j, i) == i <= j /\ \A k \in i + 1 .. j : i <= markup[k].parent

(* Outside of every prerendered component.                                 *)
InTheOpen(j) == \A i \in DOMAIN markup : Within(j, i) => ~Enclosed(i)

IsPaired(i) == \E k \in DOMAIN markup : Delimit(i, k) \/ Delimit(k, i)

GoodMarker(i) ==
  LET n == markup[i] IN
  /\ n.parent # 0
  /\ n.kind = "end" \/ n.id # NoId => IsPaired(i)
  /\ n.kind = "start" => n.type \in MarkerTypes /\ (n.type = "webassembly" => n.complete)

Markers == {i \in DOMAIN markup : IsMarker(i) /\ InTheOpen(i)}

Declared == {i \in Markers : markup[i].kind = "start" /\ markup[i].type = "webassembly"}

(* The components .NET is told of are those the markup declares: every     *)
(* marker of the type outside of prerendered content, in any element, with *)
(* the end that belongs to it, in the order of the document, whose numbers *)
(* .NET uses; and a page one of whose markers is out of place is refused   *)
(* as a whole. (resolveComponentComments to validateEndComponentPayload.)  *)
DiscoveryMatchesMarkup ==
  /\ startup = "failed" => \E i \in Markers : ~GoodMarker(i)
  /\ startup = "started" =>
       /\ \A i \in Markers : GoodMarker(i)
       /\ {initialComponents[k].start : k \in DOMAIN initialComponents} = Declared
       /\ \A k \in DOMAIN initialComponents : LET d == initialComponents[k] IN
            /\ IF markup[d.start].id = NoId THEN d.end = NoNode ELSE Delimit(d.start, d.end)
            /\ \A j \in 1 .. k - 1 : initialComponents[j].start < d.start

(* A node is prerendered for the component of this start comment, or is    *)
(* its end comment.                                                        *)
BelongsTo(q, start) ==
  /\ markup[start].parent = markup[q].parent /\ start < q
  /\ \E k \in DOMAIN markup : Delimit(start, k) /\ q <= k

(* The attached root that a node belongs to, or its parent in the DOM.     *)
Owner(q) ==
  LET owners == {s \in attachedRoots : BelongsTo(q, s)}
  IN  IF owners = {} THEN markup[q].parent ELSE CHOOSE s \in owners : TRUE

Own(p) == {q \in DOMAIN markup : ~isMetadataComment(q) /\ Owner(q) = p}

(* In whatever order root components are attached, each owns exactly the   *)
(* content prerendered for it, up to and with its end comment, and nothing *)
(* else moves: every logical element has as its children the nodes that    *)
(* are its own, in the order of the page, and they know it as their        *)
(* parent. (toLogicalRootCommentElement, toLogicalElement.)                *)
RootsOwnTheirContent ==
  /\ attachedRoots \subseteq DOMAIN logical
  /\ \A p \in DOMAIN logical :
       /\ ToSet(logical[p]) = Own(p)
       /\ \A k, l \in DOMAIN logical[p] : k < l => logical[p][k] < logical[p][l]
       /\ \A q \in Own(p) : logicalParent[q] = p
=============================================================================
