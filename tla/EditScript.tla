----------------------------- MODULE EditScript -----------------------------
(***************************************************************************)
(* The edit script of Rendering/DomMerging/EditScript.ts: the cheapest way *)
(* to turn one list of siblings into another, and the comparison of nodes  *)
(* that DomSync.ts gives it. Left out: doctypes; a comment is a component, *)
(* or like a text.                                                         *)
(***************************************************************************)
EXTENDS Integers, FiniteSets, SequencesExt

CONSTANT MaxValue  (* Number.MAX_VALUE, that stands for an infinite cost *)

ASSUME MaxValueAssumption == MaxValue \in Nat

(* A node of the markup: name is the text, the tag or the key of a         *)
(* component; data the attributes of an element or the descriptor of a     *)
(* component. logical is isLogicalElement.                                 *)
Node(kind, name, data, children) ==
  [kind |-> kind, name |-> name, data |-> data, children |-> children,
   logical |-> FALSE, interactive |-> FALSE]

NoKey == ""

isDataPermanentElement(n) == "data-permanent" \in DOMAIN n.data

cannotMergeDueToDataPermanentAttributes(a, b) ==
  \/ isDataPermanentElement(a) # isDataPermanentElement(b)
  \/ isDataPermanentElement(a) /\ a.data["data-permanent"] # b.data["data-permanent"]

(* domNodeComparer: "none", "some" or "infinite".                          *)
UpdateCost(a, b) ==
  IF a.kind # b.kind \/ a.logical # b.logical THEN "infinite"
  ELSE CASE a.kind = "text"     -> IF a.name = b.name THEN "none" ELSE "some"
         [] a.kind = "component" -> IF a.name = b.name /\ a.name # NoKey THEN "none" ELSE "infinite"
         [] a.kind = "element"  ->
              IF a.name # b.name \/ cannotMergeDueToDataPermanentAttributes(a, b)
              THEN "infinite" ELSE "none"

-----------------------------------------------------------------------------
lengthOfCommonPrefix(old, new) ==
  Max({n \in 0 .. Min({Len(old), Len(new)}) :
         \A i \in 1 .. n : UpdateCost(old[i], new[i]) = "none"})

lengthOfCommonSuffix(old, new, start) ==
  Max({n \in 0 .. Min({Len(old), Len(new)}) - start :
         \A i \in 0 .. n - 1 : UpdateCost(old[Len(old) - i], new[Len(new) - i]) = "none"})

(* Mutant: an update counts as a deletion and an insertion.                *)
costAsRetainTwice(cost, diagonal) ==
  CASE cost = "none" -> diagonal [] cost = "some" -> diagonal + 2 [] OTHER -> MaxValue

costAsRetain(cost, diagonal) ==
  CASE cost = "none" -> diagonal [] cost = "some" -> diagonal + 1 [] OTHER -> MaxValue

(* The cheapest of the three ways to end, on ties not to retain.           *)
Cheapest(comparison, diagonal, left, above) ==
  LET retain == costAsRetain(comparison, diagonal)
      insert == left + 1
      delete == above + 1
  IN  IF retain < insert /\ retain < delete
      THEN [cost |-> retain, operation |-> IF comparison = "none" THEN "keep" ELSE "update"]
      ELSE IF insert < delete THEN [cost |-> insert, operation |-> "insert"]
      ELSE [cost |-> delete, operation |-> "delete"]

Cells(old, new) == (0 .. Len(old)) \X (0 .. Len(new))

(* Cost and last operation for the first i old and the first j new nodes.  *)
computeOperations(old, new) ==
  LET entry[p \in Cells(old, new)] ==
        LET i == p[1]
            j == p[2]
        IN  IF i = 0 THEN [cost |-> j, operation |-> "insert"]
            ELSE IF j = 0 THEN [cost |-> i, operation |-> "delete"]
            ELSE Cheapest(UpdateCost(old[i], new[j]), entry[<<i - 1, j - 1>>].cost,
                          entry[<<i, j - 1>>].cost, entry[<<i - 1, j>>].cost)
  IN  entry

(* The cell an operation comes from.                                       *)
Previous(p, operation) ==
  <<IF operation = "insert" THEN p[1] ELSE p[1] - 1,
    IF operation = "delete" THEN p[2] ELSE p[2] - 1>>

(* From the bottom right corner backwards.                                 *)
toEditScript(operations, old, new) ==
  LET script[p \in Cells(old, new)] ==
        IF p = <<0, 0>> THEN <<>>
        ELSE Append(script[Previous(p, operations[p].operation)], operations[p].operation)
  IN  script[<<Len(old), Len(new)>>]

ItemListSubset(nodes, first, last) == SubSeq(nodes, first, last)

computeEditScript(old, new) ==
  LET prefix == lengthOfCommonPrefix(old, new)
      suffix == lengthOfCommonSuffix(old, new, prefix)
      olds == ItemListSubset(old, prefix + 1, Len(old) - suffix)
      news == ItemListSubset(new, prefix + 1, Len(new) - suffix)
  IN  [skipCount |-> prefix, edits |-> toEditScript(computeOperations(olds, news), olds, news)]

-----------------------------------------------------------------------------
(* What a script costs.                                                    *)
ScriptCost(edits) == Cardinality({k \in DOMAIN edits : edits[k] # "keep"})

(* The ways to match old nodes with new ones, in order; 0 is no node.      *)
Matchings(old, new) ==
  {m \in [DOMAIN old -> 0 .. Len(new)] :
     /\ \A i \in DOMAIN old : m[i] # 0 => UpdateCost(old[i], new[m[i]]) # "infinite"
     /\ \A i, j \in DOMAIN old : i < j /\ m[i] # 0 /\ m[j] # 0 => m[i] < m[j]}

(* Deletions, insertions and updates.                                      *)
MatchingCost(m, old, new) ==
  LET matched == {i \in DOMAIN old : m[i] # 0}
      updated == {i \in matched : UpdateCost(old[i], new[m[i]]) = "some"}
  IN  Len(old) + Len(new) - 2 * Cardinality(matched) + Cardinality(updated)

LeastCost(old, new) == Min({MatchingCost(m, old, new) : m \in Matchings(old, new)})
=============================================================================
