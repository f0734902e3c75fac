----------------------------- MODULE DomMerging -----------------------------
(***************************************************************************)
(* Merging new content into a page (Rendering/DomMerging). DomSync.ts      *)
(* walks two lists of siblings along the script of EditScript.ts, keeps    *)
(* the nodes that match and descends into them, AttributeSync.ts does      *)
(* their attributes.                                                       *)
(*                                                                         *)
(* Abstracted: lists are sequences, whether of DOM nodes, of logical       *)
(* children or of a range between comments. Left out: values of form       *)
(* elements, the integrity of links and scripts, the registration of       *)
(* descriptors in inserted content, and components inside of elements that *)
(* become interactive.                                                     *)
(***************************************************************************)
EXTENDS EditScript

CONSTANTS
  Contents,     (* what may arrive: sequences of nodes                      *)
  LiveContent,  (* what .NET renders into a component                       *)
  Labels,       (* texts, tags and keys of components                       *)
  Attributes,   (* functions from names to values                           *)
  Nesting,      (* levels of nodes that a page has                          *)
  MaxMerges     (* bound: contents that arrive                              *)

VARIABLES
  pageContent,  (* the content of the page                                  *)
  pageLogical,  (* what holds it is a logical element                       *)
  before,       (* the content that was compared in the last merge          *)
  source,       (* the one it was compared with                             *)
  merges

mergeVars == <<pageContent, pageLogical, before, source, merges>>

NoAttributes == [n \in {} |-> ""]

(* The nodes whose children are one of these lists.                        *)
NodesOver(lists) ==
  [kind : {"text"}, name : Labels, data : {NoAttributes}, children : {<<>>},
   logical : BOOLEAN, interactive : {FALSE}]
  \cup [kind : {"element"}, name : Labels, data : Attributes, children : lists,
        logical : BOOLEAN, interactive : {FALSE}]
  \cup [kind : {"component"}, name : Labels, data : Attributes, children : lists,
        logical : BOOLEAN, interactive : BOOLEAN]

(* Lists of siblings that have at most d levels. No list is so long that   *)
(* it costs as much to replace it as an infinite cost.                     *)
Lists[d \in 0 .. Nesting] ==
  IF d = 0 THEN {<<>>}
  ELSE {list \in Seq(NodesOver(Lists[d - 1])) : 2 * Len(list) <= MaxValue}

(* What arrives is markup: it has no logical elements, and .NET has not    *)
(* rendered into it.                                                       *)
ASSUME MergeAssumption ==
  /\ Nesting \in Nat \ {0} /\ MaxMerges \in Nat
  /\ \A data \in Attributes : data = [n \in DOMAIN data |-> data[n]]
  /\ NoAttributes \in Attributes
  /\ LiveContent \in Lists[Nesting - 1]
  /\ \A new \in Contents :
       /\ new \in Lists[Nesting]
       /\ \A i \in DOMAIN new : ~new[i].interactive /\ ~new[i].logical

-----------------------------------------------------------------------------
(* AttributeSync.ts: attributes are functions from names to values.        *)

synchronizeAttributes(destination, new) ==
  LET remaining == DOMAIN destination \ DOMAIN new
  IN  [n \in (DOMAIN destination \cup DOMAIN new) \ remaining |->
         IF n \in DOMAIN destination /\ destination[n] = new[n]
         THEN destination[n] ELSE new[n]]

-----------------------------------------------------------------------------
(* LogicalElements.ts: what holds the comment of a component is a logical  *)
(* element, with all that is inside of it.                                 *)

HoldsComponent(nodes) == \E i \in DOMAIN nodes : nodes[i].kind = "component"

(* The nodes of a parent that is logical or not, once the comments among   *)
(* them and below were found; logical elements are left alone.             *)
Marked(nodes, logical, inside) ==
  [i \in DOMAIN nodes |->
     IF nodes[i].logical THEN nodes[i]
     ELSE LET becomes == logical \/ HoldsComponent(nodes) \/ HoldsComponent(nodes[i].children)
          IN  [nodes[i] EXCEPT !.logical = becomes, !.children = inside[<<@, becomes>>]]]

marked[d \in 0 .. Nesting] ==
  [p \in Lists[d] \X BOOLEAN |-> IF d = 0 THEN <<>> ELSE Marked(p[1], p[2], marked[d - 1])]

toLogicalElements(nodes) == marked[Nesting][<<nodes, TRUE>>]

upgradeComponentCommentsToLogicalRootComments(new) == marked[Nesting][<<new, FALSE>>]

-----------------------------------------------------------------------------
(* DomSync.ts.                                                             *)

treatAsSubstitution(destination, new) == [destination EXCEPT !.name = new.name]

(* Mutant: what permanent elements hold is merged, too.                    *)
treatAsMatchPermanent(destination, new, sync) ==
  [destination EXCEPT
     !.data = new.data,
     !.children = IF destination.interactive THEN @ ELSE sync[<<@, new.children>>]]

(* sync is what merges the children.                                       *)
treatAsMatch(destination, new, sync) ==
  CASE destination.kind = "text" -> destination
    [] destination.kind = "component" ->
         [destination EXCEPT
            !.data = new.data,
            !.children = IF destination.interactive THEN @
                         ELSE sync[<<@, new.children>>]]
    [] destination.kind = "element" ->
         [destination EXCEPT
            !.data = synchronizeAttributes(@, new.data),
            !.children = IF isDataPermanentElement(new) THEN @
                         ELSE sync[<<@, new.children>>]]

(* The walkers: what is left on either side, and what was passed.          *)
advance(nodes) == Tail(nodes)

treatAsDeletion(w) == [w EXCEPT !.to = advance(@)]

treatAsInsertion(w, node) == [w EXCEPT !.passed = Append(@, node)]

ApplyEdit(w, operation, sync) ==
  LET keep(n) == [to |-> advance(w.to), from |-> advance(w.from), passed |-> Append(w.passed, n)]
  IN  CASE operation = "keep"   -> keep(treatAsMatch(Head(w.to), Head(w.from), sync))
        [] operation = "update" -> keep(treatAsSubstitution(Head(w.to), Head(w.from)))
        [] operation = "delete" -> treatAsDeletion(w)
        [] operation = "insert" ->
             [treatAsInsertion(w, Head(w.from)) EXCEPT !.from = advance(@)]

Merged(destination, new, sync) ==
  LET script == computeEditScript(destination, new)
      n == script.skipCount
      walk[k \in 0 .. Len(script.edits)] ==
        IF k = 0
        THEN [to |-> SubSeq(destination, n + 1, Len(destination)),
              from |-> SubSeq(new, n + 1, Len(new)),
              passed |-> [i \in 1 .. n |-> treatAsMatch(destination[i], new[i], sync)]]
        ELSE ApplyEdit(walk[k - 1], script.edits[k], sync)
      w == walk[Len(script.edits)]
  IN  w.passed \o [i \in DOMAIN w.to |-> treatAsMatch(w.to[i], w.from[i], sync)]

(* synchronizeDomContentCore, on lists of at most d levels.                *)
synchronized[d \in 0 .. Nesting] ==
  [p \in Lists[d] \X Lists[d] |->
     IF d = 0 THEN <<>> ELSE Merged(p[1], p[2], synchronized[d - 1])]

synchronizeDomContent(destination, new) == synchronized[Nesting][<<destination, new>>]

-----------------------------------------------------------------------------
MergeInit ==
  /\ pageContent = <<>> /\ pageLogical = FALSE
  /\ before = <<>> /\ source = <<>>
  /\ merges = 0

(* If one of both holds logical elements, the other is made to.            *)
Synchronize(new) ==
  LET upgraded == upgradeComponentCommentsToLogicalRootComments(new)
      isSynchronizingLogicalElements == pageLogical \/ HoldsComponent(new)
      Normalized(nodes) ==
        IF isSynchronizingLogicalElements THEN toLogicalElements(nodes) ELSE nodes
  IN  /\ merges < MaxMerges
      /\ merges' = merges + 1
      /\ pageLogical' = isSynchronizingLogicalElements
      /\ before' = Normalized(pageContent)
      /\ source' = Normalized(upgraded)
      /\ pageContent' = synchronizeDomContent(before', source')

(* .NET takes over a component of the page and renders into it.            *)
Activate(i) ==
  /\ pageContent[i].kind = "component" /\ ~pageContent[i].interactive
  /\ pageContent' = [pageContent EXCEPT ![i].interactive = TRUE, ![i].children = LiveContent]
  /\ UNCHANGED <<pageLogical, before, source, merges>>

MergeNext ==
  \/ \E new \in Contents : Synchronize(new)
  \/ \E i \in DOMAIN pageContent : Activate(i)

MergeSpec == MergeInit /\ [][MergeNext]_mergeVars

-----------------------------------------------------------------------------
(* What holds its own content: nothing that is merged changes it.          *)
KeepsContent(node) ==
  node.interactive \/ (node.kind = "element" /\ isDataPermanentElement(node))

(* node is the old one, and looks like the new one.                        *)
Kept(node, old, new, below) ==
  /\ node.kind = new.kind /\ node.name = new.name /\ node.data = new.data
  /\ node.logical = old.logical /\ node.interactive = old.interactive
  /\ IF KeepsContent(node) THEN node.children = old.children
     ELSE below[<<old.children, new.children, node.children>>]

(* The nodes are the old ones that m matches with a new one, which look    *)
(* like it, and the new ones that it matches with none.                    *)
Follows(nodes, m, old, new, below) ==
  /\ DOMAIN nodes = DOMAIN new
  /\ \A j \in DOMAIN new :
       \/ nodes[j] = new[j] /\ \A i \in DOMAIN old : m[i] # j
       \/ \E i \in DOMAIN old : m[i] = j /\ Kept(nodes[j], old[i], new[j], below)

(* As many nodes as possible are the old ones, at every depth.             *)
Shows[d \in 0 .. Nesting] ==
  [p \in Lists[d] \X Lists[d] \X Lists[d] |->
     \/ d = 0
     \/ \E m \in Matchings(p[1], p[2]) :
          /\ MatchingCost(m, p[1], p[2]) = LeastCost(p[1], p[2])
          /\ Follows(p[3], m, p[1], p[2], Shows[d - 1])]

(* After a merge the page shows what was merged into it, with the          *)
(* attributes at every depth, in a cheapest way: what can stay, stays. A   *)
(* permanent element that stays holds what it held, although the new one   *)
(* holds something else, and so does a component that .NET rendered into.  *)
(* (synchronizeDomContentCore.)                                            *)
PageShowsContent ==
  [][merges' # merges => Shows[Nesting][<<before', source', pageContent'>>]]_mergeVars

(* No way of matching old nodes with new ones in order needs fewer         *)
(* deletions, insertions and updates than the script, although the ends    *)
(* that match are cut off first.  (computeEditScript.)                     *)
ScriptIsMinimal ==
  ScriptCost(computeEditScript(before, source).edits) = LeastCost(before, source)
=============================================================================
