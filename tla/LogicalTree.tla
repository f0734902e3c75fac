---------------------------- MODULE LogicalTree ----------------------------
(***************************************************************************)
(* LogicalElements.ts and the edits of BrowserRenderer.ts. Components and  *)
(* markup are comments in the DOM whose contents follow them, so the       *)
(* renderer keeps the tree that .NET has in arrays of logical children,    *)
(* beside the DOM, and finds every place in the DOM from these arrays.     *)
(*                                                                         *)
(* page is the state of the browser: what each node is, its logical        *)
(* children and parent, and the children of each element in the DOM.       *)
(* rendered is .NET's own tree, by kinds only; its edits address it by     *)
(* paths of sibling indices.                                               *)
(*                                                                         *)
(* Left out: text and attributes (EventDelegation has those that have      *)
(* state), the insertion of nodes that are in the page already (DomSync    *)
(* only), prerendered content with comments that are not logical, and DOM  *)
(* nodes that are not the renderer's.                                      *)
(***************************************************************************)
EXTENDS Integers, FiniteSets, SequencesExt

CONSTANTS MaxNodes,   \* nodes below the root
          MaxFrames,  \* frames that one edit inserts
          MaxMoved,   \* siblings that one permutation moves
          None

ASSUME TreeAssumption ==
  MaxNodes \in Nat \ {0} /\ MaxFrames \in Nat \ {0} /\ MaxMoved \in Nat /\ None \notin 0..MaxNodes

Root == 0     \* the element the components of the page live in
Nodes == 1..MaxNodes
All == Nodes \cup {Root}

VARIABLES
  page,       \* the logical elements and the DOM
  roots,      \* rootComponentIds, by their elements
  toClear,    \* elementsToClearOnRootComponentRender
  cursor,     \* applyEdits: the current parent, None between diffs
  rendered,   \* .NET: the tree below the root element
  path        \* .NET: the sibling indices that lead to the current parent

vars == <<page, roots, toClear, cursor, rendered, path>>

Kinds == {"element", "text", "component", "markup"}
Comments == {"component", "markup"}

-----------------------------------------------------------------------------
(* The DOM. Markers are nodes too, during a permutation.                   *)

IsElement(P, n) == P.kind[n] = "element"

parentNode(P, n) == CHOOSE e \in All : IsElement(P, e) /\ Contains(P.dom[e], n)

Position(s, x) == CHOOSE k \in DOMAIN s : s[k] = x

Detached(P, n) == [P EXCEPT !.dom = [e \in All |-> Remove(@[e], n)]]

insertBefore(P, n, next) ==
  IF n = next THEN P
  ELSE LET e == parentNode(P, next)
           D == Detached(P, n)
       IN  [D EXCEPT !.dom[e] = InsertAt(@, Position(@, next), n)]

appendChild(P, n, e) ==
  LET D == Detached(P, n) IN [D EXCEPT !.dom[e] = Append(@, n)]

nextSibling(P, n) ==
  LET s == P.dom[parentNode(P, n)]  k == Position(s, n) IN
  IF k = Len(s) THEN None ELSE s[k + 1]

previousSibling(P, n) ==
  LET s == P.dom[parentNode(P, n)] IN s[Position(s, n) - 1]

-----------------------------------------------------------------------------
(* Logical elements. Indices of siblings count from 0.                     *)

getLogicalNextSibling(P, n) ==
  LET s == P.children[P.parent[n]]  k == Position(s, n) IN
  IF k = Len(s) THEN None ELSE s[k + 1]

(* Mutant: the contents of a comment are appended to its element.          *)
RECURSIVE appendAtEnd(_, _, _)
appendAtEnd(P, n, p) ==
  IF IsElement(P, p) THEN appendChild(P, n, p) ELSE appendAtEnd(P, n, P.parent[p])

(* The place behind the contents of p, which is looked for upwards.        *)
RECURSIVE appendDomNode(_, _, _)
appendDomNode(P, n, p) ==
  IF IsElement(P, p) THEN appendChild(P, n, p)
  ELSE LET next == getLogicalNextSibling(P, p) IN
       IF next # None THEN insertBefore(P, n, next)
       ELSE appendDomNode(P, n, P.parent[p])

RECURSIVE findLastDomNodeInRange(_, _)
findLastDomNodeInRange(P, n) ==
  IF IsElement(P, n) THEN n
  ELSE LET next == getLogicalNextSibling(P, n)
           p    == P.parent[n]
       IN  IF next # None THEN previousSibling(P, next)
           ELSE IF IsElement(P, p) THEN Last(P.dom[p])
           ELSE findLastDomNodeInRange(P, p)

Free(P) == {n \in Nodes : P.kind[n] = None}

Fresh(P) == CHOOSE n \in Free(P) : \A m \in Free(P) : n <= m

(* A new node of the kind becomes child i of p.                            *)
insertLogicalChild(P, kind, p, i) ==
  LET n == Fresh(P)
      s == P.children[p]
      D == IF i < Len(s) THEN insertBefore(P, n, s[i + 1]) ELSE appendDomNode(P, n, p)
  IN [D EXCEPT !.kind[n] = kind, !.parent[n] = p,
               !.children[p] = IF i < Len(s) THEN InsertAt(@, i + 1, n) ELSE Append(@, n)]

(* A comment's contents leave the DOM with it, one after the other.        *)
RECURSIVE removeLogicalChild(_, _, _), emptyLogicalElement(_, _)
removeLogicalChild(P, p, i) ==
  LET n == P.children[p][i + 1]
      L == [P EXCEPT !.children[p] = RemoveAt(@, i + 1)]
  IN Detached(IF L.kind[n] \in Comments THEN emptyLogicalElement(L, n) ELSE L, n)
emptyLogicalElement(P, n) ==
  IF P.children[n] = <<>> THEN P ELSE emptyLogicalElement(removeLogicalChild(P, n, 0), n)

(* What was removed is garbage: its nodes may stand for new ones.          *)
RECURSIVE Below(_, _)
Below(P, n) == {n} \cup UNION {Below(P, m) : m \in ToSet(P.children[n])}

Collected(P) ==
  LET kept == Below(P, Root) IN
  [kind     |-> [n \in All |-> IF n \in kept THEN P.kind[n] ELSE None],
   children |-> [n \in All |-> IF n \in kept THEN P.children[n] ELSE <<>>],
   parent   |-> [n \in All |-> IF n \in kept THEN P.parent[n] ELSE None],
   dom      |-> [n \in All |-> IF n \in kept THEN P.dom[n] ELSE <<>>]]

-----------------------------------------------------------------------------
(* permuteLogicalChildren. The entries of the list are <<from, to>>.       *)

Marker(k) == MaxNodes + k

(* Phase 2: a marker behind each place of arrival.                         *)
InsertMarkers(P, p, list) ==
  LET s == P.children[p]
      Put(Q, k) == LET to == list[k][2] IN
        IF to + 2 <= Len(s) THEN insertBefore(Q, Marker(k), s[to + 2])
        ELSE appendDomNode(Q, Marker(k), p)
  IN FoldLeft(Put, P, [k \in DOMAIN list |-> k])

(* Phase 3: the nodes from n to end move before the marker, one by one.    *)
RECURSIVE MoveRange(_, _, _, _)
MoveRange(P, n, end, marker) ==
  LET next == nextSibling(P, n)
      Q    == insertBefore(P, n, marker)
  IN IF n = end \/ next = None THEN Q ELSE MoveRange(Q, next, end, marker)

permuteLogicalChildren(P, p, list) ==
  LET s == P.children[p]
      start(k) == s[list[k][1] + 1]
      Move(Q, k) == Detached(MoveRange(Q, start(k), findLastDomNodeInRange(P, start(k)), Marker(k)),
                             Marker(k))
      D == FoldLeft(Move, InsertMarkers(P, p, list), [k \in DOMAIN list |-> k])
      Write(t, k) == ReplaceAt(t, list[k][2] + 1, start(k))
  IN [D EXCEPT !.children[p] = FoldLeft(Write, s, [k \in DOMAIN list |-> k])]

(* Lists for n siblings: some of them, in any order, change places.        *)
PermutationLists(n) ==
  UNION {{[k \in DOMAIN from |-> <<from[k], to[k]>>] : from, to \in SetToSeqs(I)} :
           I \in {J \in SUBSET (0..(n - 1)) : Cardinality(J) \in 2..MaxMoved}}

-----------------------------------------------------------------------------
(* Frames. A frame has a type and the length of its subtree, 1 for those   *)
(* that have none. Regions group frames without a node; a capture refers   *)
(* to the element around it; attributes come first in an element.          *)

Frame(type, len) == <<[type |-> type, len |-> len]>>

Repeated(type, n) == FlattenSeq([k \in 1..n |-> Frame(type, 1)])

(* Frame lists of length n with one root, and with any number of roots,    *)
(* directly inside an element or elsewhere.                                *)
RECURSIVE Trees(_, _), Forests(_, _)
Trees(n, inElement) ==
  {Frame("component", n) \o Repeated("attribute", n - 1)}
  \cup UNION {{Frame("element", n) \o Repeated("attribute", a) \o f : f \in Forests(n - 1 - a, TRUE)} :
                a \in 0..(n - 1)}
  \cup {Frame("region", n) \o f : f \in Forests(n - 1, inElement)}
  \cup (IF n = 1 THEN {Frame("text", 1), Frame("markup", 1)} ELSE {})
  \cup (IF n = 1 /\ inElement THEN {Frame("capture", 1)} ELSE {})
Forests(n, inElement) ==
  IF n = 0 THEN {<<>>}
  ELSE UNION {{t \o f : t \in Trees(k, inElement), f \in Forests(n - k, inElement)} : k \in 1..n}

countDescendantFrames(f) ==
  IF f.type \in {"component", "element", "region"} THEN f.len - 1 ELSE 0

(* Mutant: a region counts as one child.                                   *)
RECURSIVE insertRegionAsOne(_, _, _, _, _, _)
insertRegionAsOne(P, p, i, frames, k, end) ==
  IF k > end THEN [page |-> P, next |-> i]
  ELSE LET f == frames[k]
           e == Fresh(P)
           R == CASE f.type = "element" ->
                       [page |-> insertRegionAsOne(insertLogicalChild(P, "element", p, i), e, 0, frames, k + 1, k + f.len - 1).page,
                        next |-> i + 1]
                  [] f.type = "region" ->
                       [page |-> insertRegionAsOne(P, p, i, frames, k + 1, k + f.len - 1).page, next |-> i + 1]
                  [] f.type \in {"text", "component", "markup"} ->
                       [page |-> insertLogicalChild(P, f.type, p, i), next |-> i + 1]
                  [] OTHER -> [page |-> P, next |-> i]
       IN insertRegionAsOne(R.page, p, R.next, frames, k + 1 + countDescendantFrames(f), end)

(* insertFrameRange with insertFrame for each frame: the page with the     *)
(* frames from k to end inserted from child i of p on, and the index after *)
(* the last child inserted. Attributes of an element insert nothing, so    *)
(* they are passed over like captures. Markup is a container and, at least,*)
(* one node.                                                               *)
RECURSIVE insertFrameRange(_, _, _, _, _, _)
insertFrameRange(P, p, i, frames, k, end) ==
  IF k > end THEN [page |-> P, next |-> i]
  ELSE LET f == frames[k]
           e == Fresh(P)
           R == CASE f.type = "element" ->
                       [page |-> insertFrameRange(insertLogicalChild(P, "element", p, i), e, 0, frames, k + 1, k + f.len - 1).page,
                        next |-> i + 1]
                  [] f.type = "region" ->
                       insertFrameRange(P, p, i, frames, k + 1, k + f.len - 1)
                  [] f.type = "markup" ->
                       [page |-> insertLogicalChild(insertLogicalChild(P, "markup", p, i), "text", e, 0), next |-> i + 1]
                  [] f.type \in {"text", "component"} ->
                       [page |-> insertLogicalChild(P, f.type, p, i), next |-> i + 1]
                  [] OTHER -> [page |-> P, next |-> i]
       IN insertFrameRange(R.page, p, R.next, frames, k + 1 + countDescendantFrames(f), end)

NodesOf(frames) ==
  FoldLeft(LAMBDA n, f : n + (CASE f.type = "markup" -> 2
                                [] f.type \in {"element", "text", "component"} -> 1
                                [] OTHER -> 0), 0, frames)

-----------------------------------------------------------------------------
(* .NET's tree: a node is its kind and the sequence of its children.       *)

Leaf(kind) == [kind |-> kind, kids |-> <<>>]

(* The children that frames k to end stand for.                            *)
RECURSIVE Meaning(_, _, _)
Meaning(frames, k, end) ==
  IF k > end THEN <<>>
  ELSE LET f == frames[k] IN
       (CASE f.type = "element" -> <<[kind |-> "element", kids |-> Meaning(frames, k + 1, k + f.len - 1)]>>
          [] f.type = "region" -> Meaning(frames, k + 1, k + f.len - 1)
          [] f.type = "markup" -> <<[kind |-> "markup", kids |-> <<Leaf("text")>>]>>
          [] f.type \in {"text", "component"} -> <<Leaf(f.type)>>
          [] OTHER -> <<>>) \o Meaning(frames, k + f.len, end)

RECURSIVE KidsAt(_, _)
KidsAt(kids, where) ==
  IF where = <<>> THEN kids ELSE KidsAt(kids[where[1] + 1].kids, Tail(where))

RECURSIVE WithKidsAt(_, _, _)
WithKidsAt(kids, where, new) ==
  IF where = <<>> THEN new
  ELSE [kids EXCEPT ![where[1] + 1].kids = WithKidsAt(@, Tail(where), new)]

(* What the page shows, and the place of a node in it.                     *)
RECURSIVE Shown(_, _)
Shown(P, n) ==
  [k \in DOMAIN P.children[n] |->
     LET m == P.children[n][k] IN [kind |-> P.kind[m], kids |-> Shown(P, m)]]

RECURSIVE PathTo(_, _)
PathTo(P, n) ==
  IF n = Root THEN <<>>
  ELSE Append(PathTo(P, P.parent[n]), Position(P.children[P.parent[n]], n) - 1)

(* The nodes that the logical children of n stand for in the DOM.          *)
RECURSIVE Flattened(_, _)
Flattened(P, n) ==
  FlattenSeq([k \in DOMAIN P.children[n] |->
    LET m == P.children[n][k] IN
    <<m>> \o (IF P.kind[m] \in Comments THEN Flattened(P, m) ELSE <<>>)])

-----------------------------------------------------------------------------
(* The root element may have content when its page is loaded.              *)
Init ==
  /\ \E content \in {<<>>, <<1>>} :
       page = [kind     |-> [n \in All |-> IF n = Root THEN "element"
                                           ELSE IF Contains(content, n) THEN "text" ELSE None],
               children |-> [n \in All |-> IF n = Root THEN content ELSE <<>>],
               parent   |-> [n \in All |-> IF Contains(content, n) THEN Root ELSE None],
               dom      |-> [n \in All |-> IF n = Root THEN content ELSE <<>>]]
  /\ roots = {} /\ toClear = {}
  /\ cursor = None /\ path = <<>>
  /\ rendered = Shown(page, Root)

Show(P) == page' = Collected(P)

(* attachRootComponentToLogicalElement, to the root element or, once or    *)
(* more, to a container appended to it. An application uses one of these   *)
(* ways for an element: the first rendering in the element would remove    *)
(* the containers.                                                         *)
attachRootComponentToElement(appendContent) ==
  /\ cursor = None /\ Root \notin roots
  /\ IF appendContent
     THEN LET n == Fresh(page) IN
          /\ Free(page) # {}
          /\ page' = insertLogicalChild(page, "component", Root, Len(page.children[Root]))
          /\ roots' = roots \cup {n} /\ toClear' = toClear \cup {n}
          /\ rendered' = Append(rendered, Leaf("component"))
     ELSE /\ roots = {}
          /\ roots' = {Root} /\ toClear' = {Root}
          /\ UNCHANGED <<page, rendered>>
  /\ UNCHANGED <<cursor, path>>

(* What has a component: the root element, its containers, and what these  *)
(* have rendered. A container of the root element loses it when disposed.  *)
HasComponent(n) ==
  \/ n \in roots
  \/ page.kind[n] = "component" /\ (page.parent[n] # Root \/ Root \in roots \ toClear)

(* updateComponent, up to its first edit.                                  *)
updateComponent(n) ==
  /\ cursor = None
  /\ HasComponent(n)
  /\ cursor' = n /\ path' = PathTo(page, n)
  /\ IF n \in toClear
     THEN /\ Show(emptyLogicalElement(page, n))
          /\ rendered' = WithKidsAt(rendered, PathTo(page, n), <<>>)
     ELSE UNCHANGED <<page, rendered>>
  /\ toClear' = {m \in toClear \ {n} : page'.kind[m] # None}
  /\ UNCHANGED roots

Editing == cursor # None

Kids == KidsAt(rendered, path)

prependFrame(i, frames) ==
  /\ Editing /\ i <= Len(Kids)
  /\ NodesOf(frames) <= Cardinality(Free(page))
  /\ page' = insertFrameRange(page, cursor, i, frames, 1, Len(frames)).page
  /\ rendered' = WithKidsAt(rendered, path,
                   SubSeq(Kids, 1, i) \o Meaning(frames, 1, Len(frames)) \o SubSeq(Kids, i + 1, Len(Kids)))
  /\ UNCHANGED <<roots, toClear, cursor, path>>

removeFrame(i) ==
  /\ Editing /\ i < Len(Kids)
  /\ Show(removeLogicalChild(page, cursor, i))
  /\ rendered' = WithKidsAt(rendered, path, RemoveAt(Kids, i + 1))
  /\ UNCHANGED <<roots, toClear, cursor, path>>

(* The container is replaced with its content.                             *)
updateMarkup(i) ==
  /\ Editing /\ i < Len(Kids) /\ Kids[i + 1].kind = "markup"
  /\ Show(insertFrameRange(Collected(removeLogicalChild(page, cursor, i)), cursor, i,
                           Frame("markup", 1), 1, 1).page)
  /\ UNCHANGED <<roots, toClear, cursor, rendered, path>>

stepIn(i) ==
  /\ Editing /\ i < Len(Kids) /\ Kids[i + 1].kind = "element"
  /\ cursor' = page.children[cursor][i + 1]
  /\ path' = Append(path, i)
  /\ UNCHANGED <<page, roots, toClear, rendered>>

(* A diff steps out of the elements that it has stepped into.              *)
stepOut ==
  /\ Editing /\ path # <<>> /\ IsElement(page, cursor) /\ cursor \notin roots
  /\ cursor' = page.parent[cursor]
  /\ path' = Front(path)
  /\ UNCHANGED <<page, roots, toClear, rendered>>

permutationListEnd(list) ==
  /\ Editing
  /\ page' = permuteLogicalChildren(page, cursor, list)
  /\ rendered' = WithKidsAt(rendered, path,
       [k \in DOMAIN Kids |->
          LET E == {e \in DOMAIN list : list[e][2] + 1 = k} IN
          IF E = {} THEN Kids[k] ELSE Kids[list[CHOOSE e \in E : TRUE][1] + 1]])
  /\ UNCHANGED <<roots, toClear, cursor, path>>

EndOfDiff ==
  /\ Editing
  /\ cursor' = None /\ path' = <<>>
  /\ UNCHANGED <<page, roots, toClear, rendered>>

(* disposeComponent for a root component: its element stays, empty.        *)
disposeComponent(n) ==
  /\ cursor = None /\ n \in roots
  /\ roots' = roots \ {n}
  /\ Show(emptyLogicalElement(page, n))
  /\ rendered' = WithKidsAt(rendered, PathTo(page, n), <<>>)
  /\ UNCHANGED <<toClear, cursor, path>>

Next ==
  \/ \E appendContent \in BOOLEAN : attachRootComponentToElement(appendContent)
  \/ \E n \in All : updateComponent(n) \/ disposeComponent(n)
  \/ \E i \in 0..MaxNodes : removeFrame(i) \/ updateMarkup(i) \/ stepIn(i)
  \/ \E i \in 0..MaxNodes, len \in 1..MaxFrames :
       \E frames \in Trees(len, Editing /\ IsElement(page, cursor)) : prependFrame(i, frames)
  \/ \E list \in PermutationLists(IF Editing THEN Len(Kids) ELSE 0) : permutationListEnd(list)
  \/ stepOut \/ EndOfDiff

Spec == Init /\ [][Next]_vars

-----------------------------------------------------------------------------
TypeOK ==
  /\ page.kind \in [All -> Kinds \cup {None}] /\ page.kind[Root] = "element"
  /\ page.parent \in [All -> All \cup {None}]
  /\ \A n \in All : page.children[n] \in Seq(Nodes) /\ page.dom[n] \in Seq(Nodes)
  /\ roots \subseteq All /\ toClear \subseteq All
  /\ cursor \in All \cup {None} /\ path \in Seq(0..MaxNodes)

(* The DOM children of every element are its logical children, each        *)
(* comment followed by its contents, in any state a batch can leave:       *)
(* insertion at the end of nested containers, removal and permutation find *)
(* the right places (insertLogicalChild, appendDomNode,                    *)
(* findLastDomNodeInRange, permuteLogicalChildren). No node is left        *)
(* behind in the DOM or moved out of its component.                        *)
DomFollowsTree ==
  /\ TypeOK
  /\ \A e \in All : IsElement(page, e) => page.dom[e] = Flattened(page, e)

(* The logical tree is the one .NET has rendered, also in the middle of a  *)
(* diff: indices that .NET counts lead to the nodes it means, regions and  *)
(* captures included, and stepping out leads back (applyEdits,             *)
(* insertFrameRange, getLogicalParent). And the DOM follows that tree.     *)
PageShowsRendered ==
  /\ DomFollowsTree
  /\ Shown(page, Root) = rendered
  /\ Editing => PathTo(page, cursor) = path

=============================================================================
