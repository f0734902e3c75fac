------------------------------- MODULE MCPage -------------------------------
(* Small instances, for TLC, of the parts of the page: what crosses to it, *)
(* its trees, events, form values, root components, the content merged     *)
(* into it, its history, and the objects and streams it shares with .NET.  *)
(* They share no state, so a behaviour follows one of them.                *)
EXTENDS LogicalTree, RenderBatchFormat, DomMerging, RootComponents, Navigation,
        EventDelegation, FormValues, JsMembers, JsReferences, DataStreams,
        ComponentDiscovery, TLC

VARIABLE part

(* Strings that need one and two bytes for their length, and the empty one. *)
MCUtf8Length == ("" :> 0) @@ ("blank" :> 1) @@ ("name" :> 4) @@ ("text" :> 130)

MCWhiteSpace == {"", "blank"}

AttributeFrame(value) ==
  [type |-> Attribute, name |-> "name", value |-> value, handler |-> <<1, 7>>]

TextFrame(type, text) == [type |-> type, text |-> text]

Frames ==
  {[type |-> Element, subtree |-> 2, name |-> "name"],
   [type |-> Component, subtree |-> 1, component |-> 3],
   [type |-> Region, subtree |-> 1],
   [type |-> ComponentReferenceCapture],
   [type |-> NamedEvent],
   TextFrame(Text, "text"), TextFrame(Text, "blank"),
   TextFrame(Markup, "blank"), TextFrame(ElementReferenceCapture, "name"),
   AttributeFrame([kind |-> "bool", bool |-> TRUE]),
   AttributeFrame([kind |-> "bool", bool |-> FALSE]),
   AttributeFrame([kind |-> "string", string |-> ""]),
   AttributeFrame([kind |-> "string", string |-> "text"]),
   AttributeFrame([kind |-> "object"])}

(* Two components share one array of edits; the first one's segment does   *)
(* not start at 0. Edits: 1 prependFrame, 4 removeAttribute, 9 permutation *)
(* list entry.                                                             *)
EditRecord(type, sibling, index, name) ==
  [type |-> type, sibling |-> sibling, index |-> index, name |-> name]

MCEdits == <<EditRecord(1, 0, 0, NoString), EditRecord(9, 300, 1, NoString), EditRecord(4, 1, 0, "name")>>

Diffs ==
  {<<>>,
   <<[component |-> 70000, offset |-> 1, count |-> 2],
     [component |-> 0, offset |-> 0, count |-> 1]>>}

FrameLists ==
  {<<>>} \union {<<f>> : f \in Frames}
    \union {<<f, f, [type |-> Element, subtree |-> 1, name |-> "blank"]>> : f \in Frames}

MCBatches ==
  {[updated |-> d, edits |-> MCEdits, frames |-> f,
    disposedComponents |-> IF d = <<>> THEN <<>> ELSE <<5, 256>>,
    disposedHandlers |-> IF d = <<>> THEN <<<<0, 9>>>> ELSE <<>>] :
      d \in Diffs, f \in FrameLists}

-----------------------------------------------------------------------------
(* Content to merge: up to two nodes of any kind, or more simple ones.     *)
TextNode(t) == Node("text", t, NoAttributes, <<>>)
Div(attributes, children) == Node("element", "div", attributes, children)

MCLiveContent == <<[TextNode("live") EXCEPT !.logical = TRUE]>>

Texts == {TextNode("a"), TextNode("b")}

Divs ==
  {Div(NoAttributes, <<TextNode("a")>>),
   Div("class" :> "x", <<TextNode("b"), Div(NoAttributes, <<>>)>>)}

Others ==
  {Div("data-permanent" :> "p", <<TextNode("a")>>),
   Div("data-permanent" :> "p", <<TextNode("b")>>),
   Div("data-permanent" :> "", <<TextNode("a")>>),
   Node("component", "k", "descriptor" :> "d1", <<TextNode("a")>>),
   Node("component", "k", "descriptor" :> "d2", <<>>),
   Node("component", NoKey, "descriptor" :> "d1", <<>>),
   Div(NoAttributes, <<Node("component", "k", "descriptor" :> "d1", <<>>)>>),
   Div("data-permanent" :> "p", <<Node("component", "k", "descriptor" :> "d2", <<>>)>>)}

MCAttributes ==
  {NoAttributes, "class" :> "x", "data-permanent" :> "p", "data-permanent" :> "",
   "descriptor" :> "d1", "descriptor" :> "d2"}

MCContents ==
  UNION {[1 .. n -> Texts \cup Divs \cup Others] : n \in 0 .. 2}
    \cup [1 .. 3 -> Texts \cup Divs] \cup [1 .. 4 -> Texts]

-----------------------------------------------------------------------------
(* Documents with markers: side by side, inside of elements, inside of     *)
(* prerendered content, incomplete, and out of place. Each of these is a   *)
(* document of its own; documents are put beside each other and into       *)
(* elements.                                                               *)
Other(kind) == <<[kind |-> kind, parent |-> 0]>>
Start(type, id, complete) ==
  <<[kind |-> "start", parent |-> 0, type |-> type, id |-> id, complete |-> complete]>>
End(id) == <<[kind |-> "end", parent |-> 0, id |-> id]>>

Beside(d, e) ==
  d \o [k \in DOMAIN e |-> [e[k] EXCEPT !.parent = IF @ = 0 THEN 0 ELSE @ + Len(d)]]

Document(parts) == FoldLeft(Beside, <<>>, parts)

Tag(parts) ==
  LET content == Document(parts)
  IN  Other("element") \o [k \in DOMAIN content |-> [content[k] EXCEPT !.parent = @ + 1]]

App == Start("webassembly", NoId, TRUE)
Prerendered(id) == Start("webassembly", id, TRUE)
Simple == {Other("text"), App, Prerendered(1), End(1)}
More ==
  Simple \cup {Other("metadata"), Prerendered(2), End(2), Start("server", 1, FALSE),
              Start("webassembly", NoId, FALSE), Start("unknown", NoId, TRUE)}

Nests ==
  {Tag(c) : c \in UNION {[1 .. n -> Simple] : n \in 0 .. 2}
                 \cup {<<Prerendered(2), Tag(<<Other("text")>>), End(2)>>}}

Bodies ==
  UNION {[1 .. n -> More] : n \in 0 .. 3} \cup [1 .. 4 -> Simple \cup {Other("metadata")}]
    \cup UNION {[1 .. n -> (Simple \ {App}) \cup Nests] : n \in 1 .. 2}
    \cup {<<Prerendered(1), Other("text"), End(1), Start("server", 2, FALSE), Other("text"),
            End(2), Prerendered(2), Tag(<<>>), End(2), App>>}

MCMarkups ==
  {Document(<<Other("text"), Tag(b)>>) : b \in Bodies}
    \cup {Document(<<App, Tag(<<>>)>>), Document(<<End(1)>>)}

-----------------------------------------------------------------------------
PageInit ==
  /\ Init /\ FormatInit /\ MergeInit /\ RootInit /\ NavigationInit /\ EventInit
  /\ FormInit /\ MemberInit /\ ReferenceInit /\ StreamInit /\ DiscoveryInit
  /\ part \in {"tree", "batch", "merging", "roots", "history", "events", "form",
               "member", "references", "streams", "discovery"}

treeVars == vars

(* The step is one of p's.                                                 *)
Only(p) ==
  /\ part = p /\ UNCHANGED part
  /\ IF p = "tree" THEN TRUE ELSE UNCHANGED treeVars
  /\ IF p = "batch" THEN TRUE ELSE UNCHANGED formatVars
  /\ IF p = "merging" THEN TRUE ELSE UNCHANGED mergeVars
  /\ IF p = "roots" THEN TRUE ELSE UNCHANGED rootVars
  /\ IF p = "history" THEN TRUE ELSE UNCHANGED navigationVars
  /\ IF p = "events" THEN TRUE ELSE UNCHANGED eventVars
  /\ IF p = "form" THEN TRUE ELSE UNCHANGED formVars
  /\ IF p = "member" THEN TRUE ELSE UNCHANGED memberVars
  /\ IF p = "references" THEN TRUE ELSE UNCHANGED referenceVars
  /\ IF p = "streams" THEN TRUE ELSE UNCHANGED streamVars
  /\ IF p = "discovery" THEN TRUE ELSE UNCHANGED discoveryVars

PageNext ==
  \/ Only("tree") /\ Next
  \/ Only("batch") /\ FormatNext
  \/ Only("merging") /\ MergeNext
  \/ Only("roots") /\ RootNext
  \/ Only("history") /\ NavigationNext
  \/ Only("events") /\ EventNext
  \/ Only("form") /\ FormNext
  \/ Only("member") /\ MemberNext
  \/ Only("references") /\ ReferenceNext
  \/ Only("streams") /\ StreamNext
  \/ Only("discovery") /\ DiscoveryNext

pageVars ==
  <<treeVars, formatVars, mergeVars, rootVars, navigationVars, eventVars,
    formVars, memberVars, referenceVars, streamVars, discoveryVars, part>>

PageSpec == PageInit /\ [][PageNext]_pageVars

(* Two states that differ in the names of their nodes only are one: the    *)
(* view names each node by its place in the logical tree.                  *)
RECURSIVE Preorder(_)
Preorder(n) == <<n>> \o FlattenSeq([k \in DOMAIN page.children[n] |-> Preorder(page.children[n][k])])

UpToNames ==
  LET order == Preorder(Root)
      Name(n) == IF Contains(order, n) THEN Position(order, n) ELSE None
  IN <<Shown(page, Root),
       [k \in DOMAIN order |-> <<Name(page.parent[order[k]]),
                                 [j \in DOMAIN page.dom[order[k]] |-> Name(page.dom[order[k]][j])]>>],
       {Name(n) : n \in roots}, {Name(n) : n \in toClear}, Name(cursor), rendered, path>>

View ==
  <<part, CASE part = "tree" -> UpToNames
            [] part = "batch" -> formatVars
            [] part = "merging" -> mergeVars
            [] part = "roots" -> rootVars
            [] part = "history" -> navigationVars
            [] part = "events" -> eventVars
            [] part = "form" -> formVars
            [] part = "member" -> memberVars
            [] part = "references" -> referenceVars
            [] part = "streams" -> streamVars
            [] part = "discovery" -> discoveryVars>>
=============================================================================
