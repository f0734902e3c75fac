-------------------------- MODULE Documents_proofs --------------------------
(***************************************************************************)
(* Proofs about documents. DomMerging: the edit script is one of the       *)
(* cheapest, for any two lists, and the page shows what was merged into    *)
(* it, for contents of any shape and depth. ComponentDiscovery: the root   *)
(* components found are those that the markup declares, and each owns its  *)
(* prerendered content once attached, for documents of any size and depth. *)
(***************************************************************************)
EXTENDS DomMerging, ComponentDiscovery, SequenceFacts, FiniteSetTheorems, TLAPS

-----------------------------------------------------------------------------
(* The matrices of computeOperations. Recursive functions exist because    *)
(* they can be built diagonal by diagonal.                                 *)

Costs == {"none", "some", "infinite"}
Operations == {"keep", "update", "insert", "delete"}

(* One entry of the matrices, given the others.                            *)
EntryOf(f, old, new, i, j) ==
  IF i = 0 THEN [cost |-> j, operation |-> "insert"]
  ELSE IF j = 0 THEN [cost |-> i, operation |-> "delete"]
  ELSE Cheapest(UpdateCost(old[i], new[j]), f[<<i - 1, j - 1>>].cost,
                f[<<i, j - 1>>].cost, f[<<i - 1, j>>].cost)

(* f has the right entries on the first d diagonals.                       *)
RightUpTo(f, old, new, m, n, d) ==
  /\ DOMAIN f = (0..m) \X (0..n) /\ f = [p \in DOMAIN f |-> f[p]]
  /\ \A i \in 0..m, j \in 0..n : i + j < d => f[<<i, j>>] = EntryOf(f, old, new, i, j)

LEMMA DiagonalsExist ==
  ASSUME NEW old, NEW new, NEW m \in Nat, NEW n \in Nat, NEW d \in Nat
  PROVE  \E f : RightUpTo(f, old, new, m, n, d)
<1> DEFINE T == {e \in Nat : ~\E f : RightUpTo(f, old, new, m, n, e)}
<1>1. SUFFICES ASSUME T # {} PROVE FALSE
  BY <1>1
<1>2. PICK x \in T : \A y \in T : x <= y
  BY <1>1, LeastOf
<1>3. x \in Nat /\ ~\E f : RightUpTo(f, old, new, m, n, x)
  BY <1>2
<1>4. CASE x = 0
  <2>1. PICK f : f = [p \in (0..m) \X (0..n) |-> 0]
    OBVIOUS
  <2>2. RightUpTo(f, old, new, m, n, 0)
    <3>1. DOMAIN f = (0..m) \X (0..n) /\ f = [p \in DOMAIN f |-> f[p]]
      BY <2>1
    <3>2. \A i \in 0..m, j \in 0..n : ~(i + j < 0)
      OBVIOUS
    <3> QED
      BY <3>1, <3>2 DEF RightUpTo
  <2> QED
    BY <1>3, <1>4, <2>2
<1>5. CASE x # 0
  <2>1. PICK e \in Nat : e + 1 = x
    <3>1. x - 1 \in Nat /\ (x - 1) + 1 = x
      BY <1>3, <1>5
    <3> QED
      BY <3>1
  <2>2. e \notin T
    BY <1>2, <2>1
  <2>3. PICK f : RightUpTo(f, old, new, m, n, e)
    BY <2>1, <2>2
  <2>4. PICK g : g = [p \in (0..m) \X (0..n) |->
                        IF p[1] + p[2] < e THEN f[p] ELSE EntryOf(f, old, new, p[1], p[2])]
    OBVIOUS
  <2>5. \A i \in 0..m, j \in 0..n :
          g[<<i, j>>] = IF i + j < e THEN f[<<i, j>>] ELSE EntryOf(f, old, new, i, j)
    BY <2>4
  <2>6. \A i \in 0..m, j \in 0..n : g[<<i, j>>] = EntryOf(f, old, new, i, j) \/ ~(i + j < x)
    <3> SUFFICES ASSUME NEW i \in 0..m, NEW j \in 0..n
                 PROVE  g[<<i, j>>] = EntryOf(f, old, new, i, j) \/ ~(i + j < x)
      OBVIOUS
    <3>1. CASE i + j < e
      BY <2>3, <2>5, <3>1 DEF RightUpTo
    <3>2. CASE ~(i + j < e)
      BY <2>5, <3>2
    <3> QED
      BY <3>1, <3>2
  <2>7. ASSUME NEW i \in 0..m, NEW j \in 0..n, i + j < x
        PROVE  EntryOf(f, old, new, i, j) = EntryOf(g, old, new, i, j)
    <3>1. CASE i = 0 \/ j = 0
      BY <3>1 DEF EntryOf
    <3>2. CASE i # 0 /\ j # 0
      <4>1. i - 1 \in 0..m /\ j - 1 \in 0..n /\ (i - 1) + (j - 1) < e
            /\ i + (j - 1) < e /\ (i - 1) + j < e
        BY <2>1, <2>7, <3>2
      <4>2. /\ g[<<i - 1, j - 1>>] = f[<<i - 1, j - 1>>]
            /\ g[<<i, j - 1>>] = f[<<i, j - 1>>]
            /\ g[<<i - 1, j>>] = f[<<i - 1, j>>]
        BY <2>5, <4>1
      <4> QED
        BY <4>2 DEF EntryOf
    <3> QED
      BY <3>1, <3>2
  <2>8. RightUpTo(g, old, new, m, n, x)
    <3>1. DOMAIN g = (0..m) \X (0..n) /\ g = [p \in DOMAIN g |-> g[p]]
      BY <2>4
    <3>2. \A i \in 0..m, j \in 0..n : i + j < x => g[<<i, j>>] = EntryOf(g, old, new, i, j)
      BY <2>6, <2>7
    <3> QED
      BY <3>1, <3>2 DEF RightUpTo
  <2> QED
    BY <1>3, <2>8
<1> QED
  BY <1>4, <1>5

(* What computeOperations returns.                                         *)
Entries(f, old, new, m, n) ==
  \A i \in 0..m, j \in 0..n : f[<<i, j>>] = EntryOf(f, old, new, i, j)

LEMMA OperationsAre ==
  ASSUME NEW old, NEW new, NEW m \in Nat, NEW n \in Nat, m = Len(old), n = Len(new),
         NEW f, f = computeOperations(old, new)
  PROVE  Entries(f, old, new, m, n)
<1> DEFINE Body(g, p) ==
      IF p[1] = 0 THEN [cost |-> p[2], operation |-> "insert"]
      ELSE IF p[2] = 0 THEN [cost |-> p[1], operation |-> "delete"]
      ELSE Cheapest(UpdateCost(old[p[1]], new[p[2]]), g[<<p[1] - 1, p[2] - 1>>].cost,
                    g[<<p[1], p[2] - 1>>].cost, g[<<p[1] - 1, p[2]>>].cost)
<1>1. f = CHOOSE g : g = [p \in (0..m) \X (0..n) |-> Body(g, p)]
  BY DEF computeOperations, Cells
<1>2. m + n + 1 \in Nat
  OBVIOUS
<1>3. PICK g : RightUpTo(g, old, new, m, n, m + n + 1)
  BY <1>2, DiagonalsExist
<1>4. \A i \in 0..m, j \in 0..n : i + j < m + n + 1
  OBVIOUS
<1>5. \A i \in 0..m, j \in 0..n : g[<<i, j>>] = EntryOf(g, old, new, i, j)
  BY <1>3, <1>4 DEF RightUpTo
<1>6. \A p \in (0..m) \X (0..n) : g[p] = Body(g, p)
  <2> SUFFICES ASSUME NEW p \in (0..m) \X (0..n) PROVE g[p] = Body(g, p)
    OBVIOUS
  <2>1. PICK i \in 0..m, j \in 0..n : p = <<i, j>>
    OBVIOUS
  <2>2. p[1] = i /\ p[2] = j
    BY <2>1
  <2> QED
    BY <1>5, <2>1, <2>2 DEF EntryOf
<1>7. g = [p \in (0..m) \X (0..n) |-> Body(g, p)]
  <2>1. DOMAIN g = (0..m) \X (0..n) /\ g = [p \in DOMAIN g |-> g[p]]
    BY <1>3 DEF RightUpTo
  <2> QED
    BY <1>6, <2>1
<1>8. f = [p \in (0..m) \X (0..n) |-> Body(f, p)]
  BY <1>1, <1>7
<1> SUFFICES ASSUME NEW i \in 0..m, NEW j \in 0..n PROVE f[<<i, j>>] = EntryOf(f, old, new, i, j)
  BY DEF Entries
<1>9. PICK p : p = <<i, j>>
  OBVIOUS
<1>10. p \in (0..m) \X (0..n) /\ p[1] = i /\ p[2] = j
  BY <1>9
<1>11. f[p] = Body(f, p)
  BY <1>8, <1>10
<1> QED
  BY <1>9, <1>10, <1>11 DEF EntryOf

(* What an entry is, given the entries before it.                          *)
Ends(comparison, c, op, diagonal, left, above) ==
  \/ op = "keep" /\ comparison = "none" /\ c = diagonal
  \/ op = "update" /\ comparison = "some" /\ c = diagonal + 1
  \/ op = "insert" /\ c = left + 1
  \/ op = "delete" /\ c = above + 1

Below(comparison, c, diagonal, left, above) ==
  /\ c \in Nat /\ c <= left + 1 /\ c <= above + 1
  /\ comparison = "none" => c <= diagonal
  /\ comparison = "some" => c <= diagonal + 1

LEMMA CheapestIs ==
  ASSUME NEW comparison \in Costs, NEW diagonal \in Nat, NEW left \in Nat, NEW above \in Nat,
         left + 1 <= MaxValue, NEW r, r = Cheapest(comparison, diagonal, left, above)
  PROVE  /\ Ends(comparison, r.cost, r.operation, diagonal, left, above)
         /\ Below(comparison, r.cost, diagonal, left, above)
<1>1. PICK retain : retain = costAsRetain(comparison, diagonal)
  OBVIOUS
<1>2. /\ comparison = "none" => retain = diagonal
      /\ comparison = "some" => retain = diagonal + 1
      /\ comparison = "infinite" => retain = MaxValue
  BY <1>1 DEF costAsRetain
<1>3. retain \in Nat
  BY <1>2, MaxValueAssumption DEF Costs
<1>4. CASE retain < left + 1 /\ retain < above + 1
  <2>1. r = [cost |-> retain, operation |-> IF comparison = "none" THEN "keep" ELSE "update"]
    BY <1>1, <1>4 DEF Cheapest
  <2>2. r.cost = retain /\ r.operation = IF comparison = "none" THEN "keep" ELSE "update"
    BY <2>1
  <2>3. comparison # "infinite"
    BY <1>2, <1>3, <1>4
  <2>4. Ends(comparison, r.cost, r.operation, diagonal, left, above)
    BY <1>2, <2>2, <2>3 DEF Ends, Costs
  <2>5. Below(comparison, r.cost, diagonal, left, above)
    BY <1>2, <1>3, <1>4, <2>2 DEF Below
  <2> QED
    BY <2>4, <2>5
<1>5. CASE ~(retain < left + 1 /\ retain < above + 1) /\ left + 1 < above + 1
  <2>1. r = [cost |-> left + 1, operation |-> "insert"]
    BY <1>1, <1>5 DEF Cheapest
  <2>2. r.cost = left + 1 /\ r.operation = "insert"
    BY <2>1
  <2>3. Below(comparison, r.cost, diagonal, left, above)
    BY <1>2, <1>3, <1>5, <2>2 DEF Below
  <2> QED
    BY <2>2, <2>3 DEF Ends
<1>6. CASE ~(retain < left + 1 /\ retain < above + 1) /\ ~(left + 1 < above + 1)
  <2>1. r = [cost |-> above + 1, operation |-> "delete"]
    BY <1>1, <1>6 DEF Cheapest
  <2>2. r.cost = above + 1 /\ r.operation = "delete"
    BY <2>1
  <2>3. Below(comparison, r.cost, diagonal, left, above)
    BY <1>2, <1>3, <1>6, <2>2 DEF Below
  <2> QED
    BY <2>2, <2>3 DEF Ends
<1> QED
  BY <1>4, <1>5, <1>6

(* The matrices f of m old and n new nodes, by their costs.                *)
Comparable(old, new, m, n) ==
  \A i \in 1..m, j \in 1..n : UpdateCost(old[i], new[j]) \in Costs

Cost(f, i, j) == f[<<i, j>>].cost
Operation(f, i, j) == f[<<i, j>>].operation

CellIs(f, old, new, i, j) ==
  /\ Ends(UpdateCost(old[i], new[j]), Cost(f, i, j), Operation(f, i, j),
          Cost(f, i - 1, j - 1), Cost(f, i, j - 1), Cost(f, i - 1, j))
  /\ Below(UpdateCost(old[i], new[j]), Cost(f, i, j),
           Cost(f, i - 1, j - 1), Cost(f, i, j - 1), Cost(f, i - 1, j))

Matrices(f, old, new, m, n) ==
  /\ \A i \in 0..m, j \in 0..n : Cost(f, i, j) \in Nat /\ Cost(f, i, j) <= i + j
  /\ \A j \in 0..n : Cost(f, 0, j) = j /\ Operation(f, 0, j) = "insert"
  /\ \A i \in 1..m : Cost(f, i, 0) = i /\ Operation(f, i, 0) = "delete"
  /\ \A i \in 1..m, j \in 1..n : CellIs(f, old, new, i, j)

LEMMA MatricesAre ==
  ASSUME NEW old, NEW new, NEW m \in Nat, NEW n \in Nat, m = Len(old), n = Len(new),
         m + n <= MaxValue, Comparable(old, new, m, n),
         NEW f, f = computeOperations(old, new)
  PROVE  Matrices(f, old, new, m, n)
<1>1. Entries(f, old, new, m, n)
  BY OperationsAre
<1>2. \A j \in 0..n : Cost(f, 0, j) = j /\ Operation(f, 0, j) = "insert"
  <2> TAKE j \in 0..n
  <2>1. 0 \in 0..m /\ j \in 0..n
    OBVIOUS
  <2>2. f[<<0, j>>] = EntryOf(f, old, new, 0, j)
    BY <1>1, <2>1 DEF Entries
  <2>3. f[<<0, j>>] = [cost |-> j, operation |-> "insert"]
    BY <2>2 DEF EntryOf
  <2> QED
    BY <2>3 DEF Cost, Operation
<1>3. \A i \in 1..m : Cost(f, i, 0) = i /\ Operation(f, i, 0) = "delete"
  <2> TAKE i \in 1..m
  <2>1. i \in 0..m /\ 0 \in 0..n /\ i # 0
    OBVIOUS
  <2>2. f[<<i, 0>>] = EntryOf(f, old, new, i, 0)
    BY <1>1, <2>1 DEF Entries
  <2>3. f[<<i, 0>>] = [cost |-> i, operation |-> "delete"]
    BY <2>1, <2>2 DEF EntryOf
  <2> QED
    BY <2>3 DEF Cost, Operation
<1> DEFINE Bounded(i, j) == Cost(f, i, j) \in Nat /\ Cost(f, i, j) <= i + j
<1>4. ASSUME NEW i \in 1..m, NEW j \in 1..n,
             Bounded(i - 1, j - 1), Bounded(i, j - 1), Bounded(i - 1, j)
      PROVE  CellIs(f, old, new, i, j) /\ Bounded(i, j)
  <2>1. PICK a, b, c : a = Cost(f, i - 1, j - 1) /\ b = Cost(f, i, j - 1) /\ c = Cost(f, i - 1, j)
    OBVIOUS
  <2>2. a \in Nat /\ b \in Nat /\ c \in Nat /\ b <= i + (j - 1)
    BY <1>4, <2>1
  <2>3. b + 1 <= MaxValue /\ b + 1 <= i + j
    BY <2>2, MaxValueAssumption
  <2>4. PICK k \in Costs : k = UpdateCost(old[i], new[j])
    BY DEF Comparable
  <2>5. f[<<i, j>>] = Cheapest(k, a, b, c)
    <3>1. f[<<i, j>>] = EntryOf(f, old, new, i, j)
      BY <1>1 DEF Entries
    <3> QED
      BY <2>1, <2>4, <3>1 DEF EntryOf, Cost
  <2>6. /\ Ends(k, f[<<i, j>>].cost, f[<<i, j>>].operation, a, b, c)
        /\ Below(k, f[<<i, j>>].cost, a, b, c)
    BY <2>2, <2>3, <2>5, CheapestIs
  <2>7. CellIs(f, old, new, i, j)
    BY <2>1, <2>4, <2>6 DEF CellIs, Cost, Operation
  <2>8. PICK x : x = Cost(f, i, j)
    OBVIOUS
  <2>9. x \in Nat /\ x <= b + 1
    BY <2>6, <2>8 DEF Below, Cost
  <2>10. Bounded(i, j)
    BY <2>2, <2>3, <2>8, <2>9
  <2> QED
    BY <2>7, <2>10
<1> HIDE DEF Bounded
<1> DEFINE T == {s \in Nat : \E i \in 0..m, j \in 0..n : i + j = s /\ ~Bounded(i, j)}
<1>5. T = {}
  <2>1. SUFFICES ASSUME T # {} PROVE FALSE
    BY <2>1
  <2>2. PICK x \in T : \A y \in T : x <= y
    BY <2>1, LeastOf
  <2>3. PICK i \in 0..m, j \in 0..n : i + j = x /\ ~Bounded(i, j)
    BY <2>2
  <2>4. ASSUME NEW k \in 0..m, NEW l \in 0..n, k + l < x
        PROVE  Bounded(k, l)
    <3>1. k + l \in Nat /\ ~(x <= k + l)
      BY <2>3, <2>4
    <3>2. k + l \notin T
      BY <2>2, <3>1
    <3> QED
      BY <3>1, <3>2
  <2>5. CASE i = 0
    BY <1>2, <2>3, <2>5 DEF Bounded
  <2>6. CASE j = 0 /\ i # 0
    BY <1>3, <2>3, <2>6 DEF Bounded
  <2>7. CASE i # 0 /\ j # 0
    <3>1. /\ i \in 1..m /\ j \in 1..n /\ i - 1 \in 0..m /\ j - 1 \in 0..n
          /\ (i - 1) + (j - 1) < x /\ i + (j - 1) < x /\ (i - 1) + j < x
      BY <2>3, <2>7
    <3>2. Bounded(i - 1, j - 1) /\ Bounded(i, j - 1) /\ Bounded(i - 1, j)
      BY <2>4, <3>1
    <3> QED
      BY <1>4, <2>3, <3>1, <3>2
  <2> QED
    BY <2>5, <2>6, <2>7
<1>6. ASSUME NEW i \in 0..m, NEW j \in 0..n
      PROVE  Bounded(i, j)
  <2>1. i + j \in Nat
    OBVIOUS
  <2>2. i + j \notin T
    BY <1>5
  <2> QED
    BY <2>1, <2>2
<1>7. \A i \in 1..m, j \in 1..n : CellIs(f, old, new, i, j)
  <2> TAKE i \in 1..m, j \in 1..n
  <2>1. i \in 0..m /\ j \in 0..n /\ i - 1 \in 0..m /\ j - 1 \in 0..n
    OBVIOUS
  <2> QED
    BY <1>4, <1>6, <2>1
<1>8. \A i \in 0..m, j \in 0..n : Cost(f, i, j) \in Nat /\ Cost(f, i, j) <= i + j
  BY <1>6 DEF Bounded
<1> QED
  BY <1>2, <1>3, <1>7, <1>8 DEF Matrices

-----------------------------------------------------------------------------
(* Matchings. CostTo counts the pairs that a matching M has among the      *)
(* first i old and the first j new nodes.                                  *)

InOrder(M, old, new, m, n) ==
  /\ M \in [1..m -> 0..n]
  /\ \A k \in 1..m : M[k] # 0 => UpdateCost(old[k], new[M[k]]) # "infinite"
  /\ \A k, l \in 1..m : k < l /\ M[k] # 0 /\ M[l] # 0 => M[k] < M[l]

Pairs(M, i, j) == {k \in 1..i : M[k] \in 1..j}
Updates(M, old, new, i, j) ==
  {k \in Pairs(M, i, j) : UpdateCost(old[k], new[M[k]]) = "some"}

CostTo(M, old, new, i, j) ==
  i + j - 2 * Cardinality(Pairs(M, i, j)) + Cardinality(Updates(M, old, new, i, j))

LEMMA PairsCounted ==
  ASSUME NEW M, NEW old, NEW new, NEW i \in Nat, NEW j
  PROVE  /\ IsFiniteSet(Pairs(M, i, j)) /\ Cardinality(Pairs(M, i, j)) \in Nat
         /\ IsFiniteSet(Updates(M, old, new, i, j))
         /\ Cardinality(Updates(M, old, new, i, j)) \in Nat
<1>1. IsFiniteSet(1..i)
  BY FS_Interval
<1>2. Pairs(M, i, j) \subseteq 1..i
  BY DEF Pairs
<1>3. IsFiniteSet(Pairs(M, i, j))
  BY <1>1, <1>2, FS_Subset
<1>4. Updates(M, old, new, i, j) \subseteq Pairs(M, i, j)
  BY DEF Updates
<1>5. IsFiniteSet(Updates(M, old, new, i, j))
  BY <1>3, <1>4, FS_Subset
<1> QED
  BY <1>3, <1>5, FS_CardinalityType

Dearer(M, old, new, i, j, k, l, w) ==
  CostTo(M, old, new, i, j) = CostTo(M, old, new, k, l) + w

(* The same pairs, one node further on either side.                        *)
LEMMA SamePairs ==
  ASSUME NEW M, NEW old, NEW new, NEW i \in Nat, NEW j \in Nat, NEW k \in Nat, NEW l \in Nat,
         k + l + 1 = i + j, Pairs(M, i, j) = Pairs(M, k, l)
  PROVE  Dearer(M, old, new, i, j, k, l, 1)
<1>1. Updates(M, old, new, i, j) = Updates(M, old, new, k, l)
  BY DEF Updates
<1>2. PICK a, b : a = Cardinality(Pairs(M, k, l)) /\ b = Cardinality(Updates(M, old, new, k, l))
  OBVIOUS
<1>3. a \in Nat /\ b \in Nat
  BY <1>2, PairsCounted
<1>4. CostTo(M, old, new, i, j) = i + j - 2 * a + b
  BY <1>1, <1>2 DEF CostTo
<1>5. CostTo(M, old, new, k, l) = k + l - 2 * a + b
  BY <1>2 DEF CostTo
<1>6. i + j - 2 * a + b = k + l - 2 * a + b + 1
  BY <1>3
<1> QED
  BY <1>4, <1>5, <1>6 DEF Dearer

(* One more pair.                                                          *)
Charge(comparison) == IF comparison = "some" THEN 1 ELSE 0

LEMMA OneMorePair ==
  ASSUME NEW M, NEW old, NEW new, NEW i \in Nat \ {0}, NEW j \in Nat \ {0}, M[i] = j,
         \A k \in 1..(i - 1) : M[k] # 0 => M[k] < j
  PROVE  Dearer(M, old, new, i, j, i - 1, j - 1, Charge(UpdateCost(old[i], new[j])))
<1>1. PICK h \in Nat : h + 1 = i
  <2>1. i - 1 \in Nat /\ (i - 1) + 1 = i
    OBVIOUS
  <2> QED
    BY <2>1
<1>2. PICK g \in Nat : g + 1 = j
  <2>1. j - 1 \in Nat /\ (j - 1) + 1 = j
    OBVIOUS
  <2> QED
    BY <2>1
<1>3. i - 1 = h /\ j - 1 = g
  BY <1>1, <1>2
<1> DEFINE P == Pairs(M, h, g)
           U == Updates(M, old, new, h, g)
<1>4. Pairs(M, i, j) = P \cup {i}
  <2>1. ASSUME NEW k \in Pairs(M, i, j), k # i PROVE k \in P
    <3>1. k \in 1..h /\ M[k] \in 1..j
      BY <1>1, <2>1 DEF Pairs
    <3>2. M[k] < j
      BY <1>3, <3>1
    <3>3. M[k] \in 1..g
      BY <1>2, <3>1, <3>2
    <3> QED
      BY <3>1, <3>3 DEF Pairs
  <2>2. ASSUME NEW k \in P PROVE k \in Pairs(M, i, j)
    BY <1>1, <1>2 DEF Pairs
  <2>3. i \in Pairs(M, i, j)
    BY DEF Pairs
  <2> QED
    BY <2>1, <2>2, <2>3
<1>5. i \notin P
  BY <1>1 DEF Pairs
<1>6. PICK a, b : a = Cardinality(P) /\ b = Cardinality(U)
  OBVIOUS
<1>7. a \in Nat /\ b \in Nat /\ IsFiniteSet(P) /\ IsFiniteSet(U)
  BY <1>1, <1>6, PairsCounted
<1>8. Cardinality(Pairs(M, i, j)) = a + 1
  BY <1>4, <1>5, <1>6, <1>7, FS_AddElement
<1>9. PICK w : w = Charge(UpdateCost(old[i], new[j]))
  OBVIOUS
<1>10. w \in Nat
  BY <1>9 DEF Charge
<1>11. Cardinality(Updates(M, old, new, i, j)) = b + w
  <2>1. CASE UpdateCost(old[i], new[j]) = "some"
    <3>1. Updates(M, old, new, i, j) = U \cup {i}
      BY <1>4, <2>1 DEF Updates
    <3>2. i \notin U
      BY <1>5 DEF Updates
    <3>3. w = 1
      BY <1>9, <2>1 DEF Charge
    <3> QED
      BY <1>6, <1>7, <3>1, <3>2, <3>3, FS_AddElement
  <2>2. CASE UpdateCost(old[i], new[j]) # "some"
    <3>1. Updates(M, old, new, i, j) = U
      BY <1>4, <2>2 DEF Updates
    <3>2. w = 0
      BY <1>9, <2>2 DEF Charge
    <3> QED
      BY <1>6, <1>7, <3>1, <3>2
  <2> QED
    BY <2>1, <2>2
<1>12. CostTo(M, old, new, i, j) = i + j - 2 * (a + 1) + (b + w)
  BY <1>8, <1>11 DEF CostTo
<1>13. CostTo(M, old, new, h, g) = h + g - 2 * a + b
  BY <1>6 DEF CostTo
<1>14. i + j - 2 * (a + 1) + (b + w) = h + g - 2 * a + b + w
  BY <1>1, <1>2, <1>7, <1>10
<1> QED
  BY <1>3, <1>9, <1>12, <1>13, <1>14 DEF Dearer

(* At the edge there are no pairs.                                         *)
LEMMA NoPairs ==
  ASSUME NEW M, NEW old, NEW new, NEW i \in Nat, NEW j \in Nat, i = 0 \/ j = 0
  PROVE  CostTo(M, old, new, i, j) = i + j
<1>1. Pairs(M, i, j) = {}
  BY DEF Pairs
<1>2. Updates(M, old, new, i, j) = {}
  BY <1>1 DEF Updates
<1>3. Cardinality({}) = 0
  BY FS_EmptySet
<1> QED
  BY <1>1, <1>2, <1>3 DEF CostTo

(* No matching is cheaper than the matrices say.                           *)
LEMMA NoneCheaper ==
  ASSUME NEW old, NEW new, NEW m \in Nat, NEW n \in Nat, NEW f, Matrices(f, old, new, m, n),
         Comparable(old, new, m, n), NEW M, InOrder(M, old, new, m, n)
  PROVE  Cost(f, m, n) <= CostTo(M, old, new, m, n)
<1> DEFINE AtMost(i, j) == Cost(f, i, j) <= CostTo(M, old, new, i, j)
<1>1. ASSUME NEW i \in Nat, NEW j \in Nat PROVE CostTo(M, old, new, i, j) \in Int
  <2>1. PICK a, b : a = Cardinality(Pairs(M, i, j)) /\ b = Cardinality(Updates(M, old, new, i, j))
    OBVIOUS
  <2>2. a \in Nat /\ b \in Nat
    BY <2>1, PairsCounted
  <2> QED
    BY <2>1, <2>2 DEF CostTo
<1>2. ASSUME NEW i \in 0..m, NEW j \in 0..n, i = 0 \/ j = 0
      PROVE  AtMost(i, j)
  <2>1. Cost(f, i, j) \in Nat /\ Cost(f, i, j) <= i + j
    BY DEF Matrices
  <2>2. CostTo(M, old, new, i, j) = i + j
    BY <1>2, NoPairs
  <2> QED
    BY <2>1, <2>2
<1>3. ASSUME NEW i \in 1..m, NEW j \in 1..n, AtMost(i - 1, j - 1), AtMost(i, j - 1), AtMost(i - 1, j)
      PROVE  AtMost(i, j)
  <2>1. /\ i \in Nat \ {0} /\ j \in Nat \ {0} /\ i - 1 \in Nat /\ j - 1 \in Nat
        /\ i \in 0..m /\ j \in 0..n /\ i - 1 \in 0..m /\ j - 1 \in 0..n
    OBVIOUS
  <2>2. PICK c, x, y, z : /\ c = Cost(f, i, j) /\ x = Cost(f, i - 1, j - 1)
                          /\ y = Cost(f, i, j - 1) /\ z = Cost(f, i - 1, j)
    OBVIOUS
  <2>3. x \in Nat /\ y \in Nat /\ z \in Nat /\ c \in Nat
    BY <2>1, <2>2 DEF Matrices
  <2>4. PICK k : k = UpdateCost(old[i], new[j])
    OBVIOUS
  <2>5. k \in Costs
    BY <2>4 DEF Comparable
  <2>6. Below(k, c, x, y, z)
    BY <2>2, <2>4 DEF Matrices, CellIs
  <2>7. PICK t : t = CostTo(M, old, new, i, j)
    OBVIOUS
  <2>8. t \in Int
    BY <1>1, <2>1, <2>7
  <2>9. M[i] \in 0..n
    BY DEF InOrder
  <2>10. CASE M[i] = j
    <3>1. \A l \in 1..(i - 1) : M[l] # 0 => M[l] < j
      <4> TAKE l \in 1..(i - 1)
      <4>1. l \in 1..m /\ l < i
        BY <2>1
      <4> QED
        BY <2>1, <2>10, <4>1 DEF InOrder
    <3>2. PICK s : s = CostTo(M, old, new, i - 1, j - 1)
      OBVIOUS
    <3>3. PICK w : w = Charge(k)
      OBVIOUS
    <3>4. t = s + w
      <4>1. Dearer(M, old, new, i, j, i - 1, j - 1, Charge(UpdateCost(old[i], new[j])))
        BY <2>1, <2>10, <3>1, OneMorePair
      <4> QED
        BY <2>4, <2>7, <3>2, <3>3, <4>1 DEF Dearer
    <3>5. k # "infinite"
      BY <2>1, <2>4, <2>10 DEF InOrder
    <3>6. w \in Nat /\ c <= x + w
      BY <2>3, <2>5, <2>6, <3>3, <3>5 DEF Below, Charge, Costs
    <3>7. x <= s /\ s \in Int
      BY <1>1, <1>3, <2>1, <2>2, <3>2
    <3>8. c <= t
      BY <2>3, <3>4, <3>6, <3>7
    <3> QED
      BY <2>2, <2>7, <3>8
  <2>11. CASE M[i] = 0 \/ M[i] > j
    <3>1. Pairs(M, i, j) = Pairs(M, i - 1, j)
      <4>1. ASSUME NEW l \in Pairs(M, i, j) PROVE l \in Pairs(M, i - 1, j)
        <5>1. l \in 1..i /\ M[l] \in 1..j
          BY DEF Pairs
        <5>2. l # i
          BY <2>9, <2>11, <5>1
        <5> QED
          BY <5>1, <5>2 DEF Pairs
      <4>2. ASSUME NEW l \in Pairs(M, i - 1, j) PROVE l \in Pairs(M, i, j)
        BY DEF Pairs
      <4> QED
        BY <4>1, <4>2
    <3>2. PICK s : s = CostTo(M, old, new, i - 1, j)
      OBVIOUS
    <3>3. t = s + 1
      <4>1. PICK q \in Nat : q = i - 1
        BY <2>1
      <4>2. i \in Nat /\ j \in Nat /\ q + j + 1 = i + j
        BY <2>1, <4>1
      <4>3. Dearer(M, old, new, i, j, q, j, 1)
        BY <3>1, <4>1, <4>2, SamePairs
      <4> QED
        BY <2>7, <3>2, <4>1, <4>3 DEF Dearer
    <3>4. z <= s /\ s \in Int
      BY <1>1, <1>3, <2>1, <2>2, <3>2
    <3>5. c <= z + 1
      BY <2>6 DEF Below
    <3>6. c <= t
      BY <2>3, <3>3, <3>4, <3>5
    <3> QED
      BY <2>2, <2>7, <3>6
  <2>12. CASE M[i] # 0 /\ M[i] < j
    <3>1. Pairs(M, i, j) = Pairs(M, i, j - 1)
      <4>1. ASSUME NEW l \in Pairs(M, i, j) PROVE l \in Pairs(M, i, j - 1)
        <5>1. l \in 1..i /\ M[l] \in 1..j /\ l \in 1..m
          BY <2>1 DEF Pairs
        <5>2. M[l] # j
          <6>1. CASE l = i
            BY <2>12, <6>1
          <6>2. CASE l < i
            <7>1. M[l] < M[i]
              BY <2>12, <5>1, <6>2 DEF InOrder
            <7> QED
              BY <2>9, <2>12, <5>1, <7>1
          <6> QED
            BY <5>1, <6>1, <6>2
        <5>3. M[l] \in 1..(j - 1)
          BY <5>1, <5>2
        <5> QED
          BY <5>1, <5>3 DEF Pairs
      <4>2. ASSUME NEW l \in Pairs(M, i, j - 1) PROVE l \in Pairs(M, i, j)
        BY DEF Pairs
      <4> QED
        BY <4>1, <4>2
    <3>2. PICK s : s = CostTo(M, old, new, i, j - 1)
      OBVIOUS
    <3>3. t = s + 1
      <4>1. PICK q \in Nat : q = j - 1
        BY <2>1
      <4>2. i \in Nat /\ j \in Nat /\ i + q + 1 = i + j
        BY <2>1, <4>1
      <4>3. Dearer(M, old, new, i, j, i, q, 1)
        BY <3>1, <4>1, <4>2, SamePairs
      <4> QED
        BY <2>7, <3>2, <4>1, <4>3 DEF Dearer
    <3>4. y <= s /\ s \in Int
      BY <1>1, <1>3, <2>1, <2>2, <3>2
    <3>5. c <= y + 1
      BY <2>6 DEF Below
    <3>6. c <= t
      BY <2>3, <3>3, <3>4, <3>5
    <3> QED
      BY <2>2, <2>7, <3>6
  <2> QED
    BY <2>9, <2>10, <2>11, <2>12
<1> HIDE DEF AtMost
<1> DEFINE T == {s \in Nat : \E i \in 0..m, j \in 0..n : i + j = s /\ ~AtMost(i, j)}
<1>4. T = {}
  <2>1. SUFFICES ASSUME T # {} PROVE FALSE
    BY <2>1
  <2>2. PICK x \in T : \A y \in T : x <= y
    BY <2>1, LeastOf
  <2>3. PICK i \in 0..m, j \in 0..n : i + j = x /\ ~AtMost(i, j)
    BY <2>2
  <2>4. ASSUME NEW k \in 0..m, NEW l \in 0..n, k + l < x
        PROVE  AtMost(k, l)
    <3>1. k + l \in Nat /\ ~(x <= k + l)
      BY <2>3, <2>4
    <3>2. k + l \notin T
      BY <2>2, <3>1
    <3> QED
      BY <3>1, <3>2
  <2>5. i # 0 /\ j # 0
    BY <1>2, <2>3
  <2>6. /\ i \in 1..m /\ j \in 1..n /\ i - 1 \in 0..m /\ j - 1 \in 0..n
        /\ (i - 1) + (j - 1) < x /\ i + (j - 1) < x /\ (i - 1) + j < x
    BY <2>3, <2>5
  <2>7. AtMost(i - 1, j - 1) /\ AtMost(i, j - 1) /\ AtMost(i - 1, j)
    BY <2>4, <2>6
  <2> QED
    BY <1>3, <2>3, <2>6, <2>7
<1>5. m \in 0..m /\ n \in 0..n /\ m + n \in Nat
  OBVIOUS
<1>6. m + n \notin T
  BY <1>4
<1>7. AtMost(m, n)
  BY <1>5, <1>6
<1> QED
  BY <1>7 DEF AtMost

-----------------------------------------------------------------------------
(* The last operation at a cell <<i, j>>, and the cell <<k, l>> before it. *)

Turn(f, old, new, i, j, op, k, l) ==
  \/ /\ op = "keep" /\ i > 0 /\ j > 0 /\ k = i - 1 /\ l = j - 1
     /\ UpdateCost(old[i], new[j]) = "none" /\ Cost(f, i, j) = Cost(f, k, l)
  \/ /\ op = "update" /\ i > 0 /\ j > 0 /\ k = i - 1 /\ l = j - 1
     /\ UpdateCost(old[i], new[j]) = "some" /\ Cost(f, i, j) = Cost(f, k, l) + 1
  \/ op = "insert" /\ j > 0 /\ k = i /\ l = j - 1 /\ Cost(f, i, j) = Cost(f, k, l) + 1
  \/ op = "delete" /\ i > 0 /\ k = i - 1 /\ l = j /\ Cost(f, i, j) = Cost(f, k, l) + 1

LEMMA TurnExists ==
  ASSUME NEW old, NEW new, NEW m \in Nat, NEW n \in Nat, NEW f, Matrices(f, old, new, m, n),
         NEW i \in 0..m, NEW j \in 0..n, i # 0 \/ j # 0, NEW op, op = Operation(f, i, j)
  PROVE  \E k \in 0..m, l \in 0..n :
           /\ Previous(<<i, j>>, op) = <<k, l>> /\ k + l < i + j
           /\ Turn(f, old, new, i, j, op, k, l)
<1>1. CASE i = 0
  <2>1. op = "insert" /\ j > 0 /\ j - 1 \in 0..n /\ j - 1 < j
    BY <1>1 DEF Matrices
  <2>2. PICK l : l = j - 1
    OBVIOUS
  <2>3. l \in 0..n /\ 0 + l < 0 + j
    BY <2>1, <2>2
  <2>4. Cost(f, 0, j) = j /\ Cost(f, 0, l) = l /\ j = l + 1
    BY <1>1, <2>2, <2>3 DEF Matrices
  <2>5. Previous(<<i, j>>, op) = <<0, l>>
    BY <1>1, <2>1, <2>2 DEF Previous
  <2>6. Turn(f, old, new, i, j, op, 0, l)
    BY <1>1, <2>1, <2>2, <2>4 DEF Turn
  <2>7. 0 \in 0..m
    OBVIOUS
  <2> QED
    BY <1>1, <2>3, <2>5, <2>6, <2>7
<1>2. CASE i # 0 /\ j = 0
  <2>1. i \in 1..m /\ op = "delete"
    BY <1>2 DEF Matrices
  <2>2. PICK k : k = i - 1
    OBVIOUS
  <2>3. k \in 0..m /\ k + 0 < i + 0 /\ i > 0 /\ 0 \in 0..n
    BY <2>1, <2>2
  <2>4. Cost(f, i, 0) = i
    BY <2>1 DEF Matrices
  <2>5. Cost(f, k, 0) = k
    <3>1. CASE k = 0
      BY <2>3, <3>1 DEF Matrices
    <3>2. CASE k # 0
      <4>1. k \in 1..m
        BY <2>3, <3>2
      <4> QED
        BY <4>1 DEF Matrices
    <3> QED
      BY <3>1, <3>2
  <2>6. i = k + 1
    BY <2>1, <2>2
  <2>7. Previous(<<i, j>>, op) = <<k, 0>>
    BY <1>2, <2>1, <2>2 DEF Previous
  <2>8. Turn(f, old, new, i, j, op, k, 0)
    BY <1>2, <2>1, <2>2, <2>3, <2>4, <2>5, <2>6 DEF Turn
  <2> QED
    BY <1>2, <2>3, <2>7, <2>8
<1>3. CASE i # 0 /\ j # 0
  <2>1. i \in 1..m /\ j \in 1..n
    BY <1>3
  <2>2. Ends(UpdateCost(old[i], new[j]), Cost(f, i, j), op,
             Cost(f, i - 1, j - 1), Cost(f, i, j - 1), Cost(f, i - 1, j))
    BY <2>1 DEF Matrices, CellIs
  <2>3. PICK k, l : k = i - 1 /\ l = j - 1
    OBVIOUS
  <2>4. /\ k \in 0..m /\ l \in 0..n /\ i \in 0..m /\ j \in 0..n /\ i > 0 /\ j > 0
        /\ k + l < i + j /\ i + l < i + j /\ k + j < i + j
    BY <2>1, <2>3
  <2>5. CASE op = "keep" \/ op = "update"
    <3>1. Previous(<<i, j>>, op) = <<k, l>>
      BY <2>3, <2>5 DEF Previous
    <3>2. Turn(f, old, new, i, j, op, k, l)
      BY <2>2, <2>3, <2>4, <2>5 DEF Ends, Turn
    <3> QED
      BY <2>4, <3>1, <3>2
  <2>6. CASE op = "insert"
    <3>1. Previous(<<i, j>>, op) = <<i, l>>
      BY <2>3, <2>6 DEF Previous
    <3>2. Turn(f, old, new, i, j, op, i, l)
      BY <2>2, <2>3, <2>4, <2>6 DEF Ends, Turn
    <3> QED
      BY <2>4, <3>1, <3>2
  <2>7. CASE op = "delete"
    <3>1. Previous(<<i, j>>, op) = <<k, j>>
      BY <2>3, <2>7 DEF Previous
    <3>2. Turn(f, old, new, i, j, op, k, j)
      BY <2>2, <2>3, <2>4, <2>7 DEF Ends, Turn
    <3> QED
      BY <2>4, <3>1, <3>2
  <2> QED
    BY <2>2, <2>5, <2>6, <2>7 DEF Ends
<1> QED
  BY <1>1, <1>2, <1>3

(* The scripts g that lead to the cells, on the first d diagonals.         *)
ScriptAt(f, g, i, j) ==
  IF i = 0 /\ j = 0 THEN <<>>
  ELSE Append(g[Previous(<<i, j>>, Operation(f, i, j))], Operation(f, i, j))

ScriptsUpTo(f, g, m, n, d) ==
  /\ DOMAIN g = (0..m) \X (0..n) /\ g = [p \in DOMAIN g |-> g[p]]
  /\ \A i \in 0..m, j \in 0..n : i + j < d => g[<<i, j>>] = ScriptAt(f, g, i, j)

LEMMA ScriptsExist ==
  ASSUME NEW old, NEW new, NEW m \in Nat, NEW n \in Nat, NEW f, Matrices(f, old, new, m, n),
         NEW d \in Nat
  PROVE  \E g : ScriptsUpTo(f, g, m, n, d)
<1> DEFINE T == {e \in Nat : ~\E g : ScriptsUpTo(f, g, m, n, e)}
<1>1. SUFFICES ASSUME T # {} PROVE FALSE
  BY <1>1
<1>2. PICK x \in T : \A y \in T : x <= y
  BY <1>1, LeastOf
<1>3. x \in Nat /\ ~\E g : ScriptsUpTo(f, g, m, n, x)
  BY <1>2
<1>4. CASE x = 0
  <2>1. PICK g : g = [p \in (0..m) \X (0..n) |-> <<>>]
    OBVIOUS
  <2>2. DOMAIN g = (0..m) \X (0..n) /\ g = [p \in DOMAIN g |-> g[p]]
    BY <2>1
  <2>3. \A i \in 0..m, j \in 0..n : ~(i + j < 0)
    OBVIOUS
  <2>4. ScriptsUpTo(f, g, m, n, 0)
    BY <2>2, <2>3 DEF ScriptsUpTo
  <2> QED
    BY <1>3, <1>4, <2>4
<1>5. CASE x # 0
  <2>1. PICK e \in Nat : e + 1 = x
    <3>1. x - 1 \in Nat /\ (x - 1) + 1 = x
      BY <1>3, <1>5
    <3> QED
      BY <3>1
  <2>2. e \notin T
    BY <1>2, <2>1
  <2>3. PICK g : ScriptsUpTo(f, g, m, n, e)
    BY <2>1, <2>2
  <2>4. PICK h : h = [p \in (0..m) \X (0..n) |->
                        IF p[1] + p[2] < e THEN g[p] ELSE ScriptAt(f, g, p[1], p[2])]
    OBVIOUS
  <2>5. \A i \in 0..m, j \in 0..n :
          h[<<i, j>>] = IF i + j < e THEN g[<<i, j>>] ELSE ScriptAt(f, g, i, j)
    BY <2>4
  <2>6. \A i \in 0..m, j \in 0..n : h[<<i, j>>] = ScriptAt(f, g, i, j) \/ ~(i + j < x)
    <3> SUFFICES ASSUME NEW i \in 0..m, NEW j \in 0..n
                 PROVE  h[<<i, j>>] = ScriptAt(f, g, i, j) \/ ~(i + j < x)
      OBVIOUS
    <3>1. CASE i + j < e
      BY <2>3, <2>5, <3>1 DEF ScriptsUpTo
    <3>2. CASE ~(i + j < e)
      BY <2>5, <3>2
    <3> QED
      BY <3>1, <3>2
  <2>7. ASSUME NEW i \in 0..m, NEW j \in 0..n, i + j < x
        PROVE  ScriptAt(f, g, i, j) = ScriptAt(f, h, i, j)
    <3>1. CASE i = 0 /\ j = 0
      BY <3>1 DEF ScriptAt
    <3>2. CASE i # 0 \/ j # 0
      <4>1. PICK k \in 0..m, l \in 0..n :
              Previous(<<i, j>>, Operation(f, i, j)) = <<k, l>> /\ k + l < i + j
        BY <3>2, TurnExists
      <4>2. k + l < e
        BY <2>1, <2>7, <4>1
      <4>3. h[<<k, l>>] = g[<<k, l>>]
        BY <2>5, <4>2
      <4> QED
        BY <3>2, <4>1, <4>3 DEF ScriptAt
    <3> QED
      BY <3>1, <3>2
  <2>8. ScriptsUpTo(f, h, m, n, x)
    <3>1. DOMAIN h = (0..m) \X (0..n) /\ h = [p \in DOMAIN h |-> h[p]]
      BY <2>4
    <3>2. \A i \in 0..m, j \in 0..n : i + j < x => h[<<i, j>>] = ScriptAt(f, h, i, j)
      BY <2>6, <2>7
    <3> QED
      BY <3>1, <3>2 DEF ScriptsUpTo
  <2> QED
    BY <1>3, <2>8
<1> QED
  BY <1>4, <1>5

(* The script that toEditScript returns is the last of the scripts.        *)
Scripts(f, g, m, n) == \A i \in 0..m, j \in 0..n : g[<<i, j>>] = ScriptAt(f, g, i, j)

LEMMA ScriptIs ==
  ASSUME NEW old, NEW new, NEW m \in Nat, NEW n \in Nat, m = Len(old), n = Len(new),
         NEW f, Matrices(f, old, new, m, n)
  PROVE  \E g : Scripts(f, g, m, n) /\ toEditScript(f, old, new) = g[<<m, n>>]
<1> DEFINE Body(g, p) ==
      IF p = <<0, 0>> THEN <<>>
      ELSE Append(g[Previous(p, f[p].operation)], f[p].operation)
<1>1. PICK s : s = CHOOSE g : g = [p \in (0..m) \X (0..n) |-> Body(g, p)]
  OBVIOUS
<1>2. toEditScript(f, old, new) = s[<<m, n>>]
  BY <1>1 DEF toEditScript, Cells
<1>3. m + n + 1 \in Nat
  OBVIOUS
<1>4. PICK g : ScriptsUpTo(f, g, m, n, m + n + 1)
  BY <1>3, ScriptsExist
<1>5. \A i \in 0..m, j \in 0..n : i + j < m + n + 1
  OBVIOUS
<1>6. \A i \in 0..m, j \in 0..n : g[<<i, j>>] = ScriptAt(f, g, i, j)
  BY <1>4, <1>5 DEF ScriptsUpTo
<1>7. ASSUME NEW h, NEW i \in 0..m, NEW j \in 0..n
      PROVE  Body(h, <<i, j>>) = ScriptAt(f, h, i, j)
  <2>1. (<<i, j>> = <<0, 0>>) <=> (i = 0 /\ j = 0)
    OBVIOUS
  <2> QED
    BY <2>1 DEF ScriptAt, Operation
<1>8. \A p \in (0..m) \X (0..n) : g[p] = Body(g, p)
  <2> SUFFICES ASSUME NEW p \in (0..m) \X (0..n) PROVE g[p] = Body(g, p)
    OBVIOUS
  <2>1. PICK i \in 0..m, j \in 0..n : p = <<i, j>>
    OBVIOUS
  <2>2. g[<<i, j>>] = ScriptAt(f, g, i, j)
    BY <1>6
  <2>3. Body(g, <<i, j>>) = ScriptAt(f, g, i, j)
    BY <1>7
  <2> QED
    BY <2>1, <2>2, <2>3
<1>9. g = [p \in (0..m) \X (0..n) |-> Body(g, p)]
  <2>1. DOMAIN g = (0..m) \X (0..n) /\ g = [p \in DOMAIN g |-> g[p]]
    BY <1>4 DEF ScriptsUpTo
  <2> QED
    BY <1>8, <2>1
<1>10. s = [p \in (0..m) \X (0..n) |-> Body(s, p)]
  BY <1>1, <1>9
<1>11. ASSUME NEW i \in 0..m, NEW j \in 0..n PROVE s[<<i, j>>] = ScriptAt(f, s, i, j)
  <2>1. <<i, j>> \in (0..m) \X (0..n)
    OBVIOUS
  <2>2. s[<<i, j>>] = Body(s, <<i, j>>)
    BY <1>10, <2>1
  <2> QED
    BY <1>7, <2>2
<1> QED
  BY <1>2, <1>11 DEF Scripts

(* A script costs one for each operation that does not keep a node.        *)
Priced(s, c) == s \in Seq(Operations) /\ ScriptCost(s) = c

LEMMA PriceAppended ==
  ASSUME NEW s, NEW c \in Nat, Priced(s, c), NEW op \in Operations,
         NEW r, r = Append(s, op), NEW d, d = IF op = "keep" THEN c ELSE c + 1
  PROVE  Priced(r, d)
<1>1. s \in Seq(Operations)
  BY DEF Priced
<1>2. PICK n \in Nat : n = Len(s)
  BY <1>1
<1>3. r \in Seq(Operations) /\ Len(r) = n + 1 /\ r[n + 1] = op
      /\ \A k \in 1..n : r[k] = s[k]
  BY <1>1, <1>2, AppendFacts
<1>4. DOMAIN s = 1..n /\ DOMAIN r = 1..(n + 1)
  BY <1>1, <1>2, <1>3
<1> DEFINE A == {k \in DOMAIN s : s[k] # "keep"}
           B == {k \in DOMAIN r : r[k] # "keep"}
<1>5. IsFiniteSet(A) /\ n + 1 \notin A
  <2>1. IsFiniteSet(1..n)
    BY FS_Interval
  <2>2. A \subseteq 1..n
    BY <1>4
  <2> QED
    BY <2>1, <2>2, FS_Subset
<1>6. Cardinality(A) = c
  BY DEF Priced, ScriptCost
<1>7. Cardinality(B) = d
  <2>1. CASE op = "keep"
    <3>1. B = A
      BY <1>3, <1>4, <2>1
    <3> QED
      BY <1>6, <2>1, <3>1
  <2>2. CASE op # "keep"
    <3>1. B = A \cup {n + 1}
      BY <1>3, <1>4, <2>2
    <3> QED
      BY <1>5, <1>6, <2>2, <3>1, FS_AddElement
  <2> QED
    BY <2>1, <2>2
<1> QED
  BY <1>3, <1>7 DEF Priced, ScriptCost

(* A matching of the first i old and j new nodes that costs c.             *)
Attains(M, old, new, i, j, c) == InOrder(M, old, new, i, j) /\ CostTo(M, old, new, i, j) = c

(* One more old node, that is matched with l or with none.                 *)
Extended(N, old, new, i, j, l, c) ==
  InOrder(N, old, new, i + 1, IF l = 0 THEN j ELSE j + 1) /\ CostTo(N, old, new, i, j) = c

LEMMA MatchingExtended ==
  ASSUME NEW old, NEW new, NEW i \in Nat, NEW j \in Nat, NEW c, NEW M,
         Attains(M, old, new, i, j, c), NEW l, l = 0 \/ l = j + 1,
         l # 0 => UpdateCost(old[i + 1], new[l]) # "infinite",
         NEW N, N = [k \in 1..(i + 1) |-> IF k = i + 1 THEN l ELSE M[k]]
  PROVE  Extended(N, old, new, i, j, l, c)
<1>1. PICK b : b = IF l = 0 THEN j ELSE j + 1
  OBVIOUS
<1>2. /\ M \in [1..i -> 0..j]
      /\ \A k \in 1..i : M[k] # 0 => UpdateCost(old[k], new[M[k]]) # "infinite"
      /\ \A k, h \in 1..i : k < h /\ M[k] # 0 /\ M[h] # 0 => M[k] < M[h]
  BY DEF Attains, InOrder
<1>3. N[i + 1] = l /\ i + 1 \in 1..(i + 1)
  OBVIOUS
<1>4. \A k \in 1..i : N[k] = M[k] /\ k \in 1..(i + 1) /\ k < i + 1
  OBVIOUS
<1>5. \A k \in 1..(i + 1) : k = i + 1 \/ k \in 1..i
  OBVIOUS
<1>6. l \in 0..b /\ \A k \in 1..i : M[k] \in 0..b /\ (l # 0 => M[k] < l)
  BY <1>1, <1>2
<1>7. N \in [1..(i + 1) -> 0..b]
  BY <1>3, <1>4, <1>5, <1>6
<1>8. \A k \in 1..(i + 1) : N[k] # 0 => UpdateCost(old[k], new[N[k]]) # "infinite"
  <2> SUFFICES ASSUME NEW k \in 1..(i + 1), N[k] # 0
               PROVE  UpdateCost(old[k], new[N[k]]) # "infinite"
    OBVIOUS
  <2>1. CASE k = i + 1
    BY <1>3, <2>1
  <2>2. CASE k \in 1..i
    BY <1>2, <1>4, <2>2
  <2> QED
    BY <1>5, <2>1, <2>2
<1>9. \A k, h \in 1..(i + 1) : k < h /\ N[k] # 0 /\ N[h] # 0 => N[k] < N[h]
  <2> SUFFICES ASSUME NEW k \in 1..(i + 1), NEW h \in 1..(i + 1), k < h, N[k] # 0, N[h] # 0
               PROVE  N[k] < N[h]
    OBVIOUS
  <2>1. k \in 1..i
    OBVIOUS
  <2>2. CASE h = i + 1
    BY <1>3, <1>4, <1>6, <2>1, <2>2
  <2>3. CASE h \in 1..i
    BY <1>2, <1>4, <2>1, <2>3
  <2> QED
    BY <1>5, <2>2, <2>3
<1>10. InOrder(N, old, new, i + 1, b)
  BY <1>7, <1>8, <1>9 DEF InOrder
<1>11. Pairs(N, i, j) = Pairs(M, i, j)
  BY <1>4 DEF Pairs
<1>12. Updates(N, old, new, i, j) = Updates(M, old, new, i, j)
  BY <1>4, <1>11 DEF Updates, Pairs
<1>13. CostTo(N, old, new, i, j) = CostTo(M, old, new, i, j)
  BY <1>11, <1>12 DEF CostTo
<1> QED
  BY <1>1, <1>10, <1>13 DEF Attains, Extended

(* N is M, with what the operation op at <<i, j>> does to the old node i.   *)
Onward(N, M, op, i, j, k) ==
  \A h \in 1..i : N[h] = IF h \in 1..k THEN M[h] ELSE IF op = "delete" THEN 0 ELSE j

LEMMA MatchedOnward ==
  ASSUME NEW old, NEW new, NEW m \in Nat, NEW n \in Nat, NEW f, Matrices(f, old, new, m, n),
         NEW i \in 0..m, NEW j \in 0..n, NEW k \in 0..m, NEW l \in 0..n, NEW op,
         Turn(f, old, new, i, j, op, k, l), NEW M, Attains(M, old, new, k, l, Cost(f, k, l))
  PROVE  \E N : Attains(N, old, new, i, j, Cost(f, i, j)) /\ Onward(N, M, op, i, j, k)
<1>1. PICK c : c = Cost(f, k, l)
  OBVIOUS
<1>2. c \in Nat /\ i \in Nat /\ j \in Nat /\ k \in Nat /\ l \in Nat
  BY <1>1 DEF Matrices
<1>3. Attains(M, old, new, k, l, c)
  BY <1>1
<1>4. CASE op = "keep" \/ op = "update"
  <2>1. i = k + 1 /\ j = l + 1 /\ k = i - 1 /\ l = j - 1 /\ i \in Nat \ {0} /\ j \in Nat \ {0}
    BY <1>2, <1>4 DEF Turn
  <2>2. PICK x : x = UpdateCost(old[i], new[j])
    OBVIOUS
  <2>3. x # "infinite" /\ Cost(f, i, j) = c + Charge(x)
    BY <1>1, <1>2, <1>4, <2>2 DEF Turn, Charge
  <2>4. PICK N : N = [h \in 1..(k + 1) |-> IF h = k + 1 THEN j ELSE M[h]]
    OBVIOUS
  <2>5. j # 0 /\ UpdateCost(old[k + 1], new[j]) # "infinite"
    BY <2>1, <2>2, <2>3
  <2>6. Extended(N, old, new, k, l, j, c)
    BY <1>2, <1>3, <2>1, <2>4, <2>5, MatchingExtended
  <2>7. InOrder(N, old, new, i, j)
    BY <2>1, <2>5, <2>6 DEF Extended
  <2>8. N[i] = j
    BY <1>2, <2>1, <2>4
  <2>9. \A h \in 1..(i - 1) : N[h] # 0 => N[h] < j
    <3> TAKE h \in 1..(i - 1)
    <3>1. h \in 1..i /\ i \in 1..i /\ h < i
      BY <2>1
    <3> QED
      BY <2>5, <2>7, <2>8, <3>1 DEF InOrder
  <2>10. Dearer(N, old, new, i, j, i - 1, j - 1, Charge(UpdateCost(old[i], new[j])))
    BY <2>1, <2>8, <2>9, OneMorePair
  <2>11. CostTo(N, old, new, i, j) = c + Charge(x)
    BY <2>1, <2>2, <2>6, <2>10 DEF Dearer, Extended
  <2>12. Attains(N, old, new, i, j, Cost(f, i, j))
    BY <2>3, <2>7, <2>11 DEF Attains
  <2>13. ASSUME NEW h \in 1..i PROVE N[h] = IF h \in 1..k THEN M[h] ELSE j
    BY <1>2, <2>1, <2>4
  <2>14. Onward(N, M, op, i, j, k)
    BY <1>4, <2>13 DEF Onward
  <2> QED
    BY <2>12, <2>14
<1>5. CASE op = "insert"
  <2>1. i = k /\ j = l + 1 /\ Cost(f, i, j) = c + 1
    BY <1>1, <1>2, <1>5 DEF Turn
  <2>2. InOrder(M, old, new, i, l)
    BY <1>3, <2>1 DEF Attains
  <2>3. M \in [1..i -> 0..l]
    BY <2>2 DEF InOrder
  <2>4. M \in [1..i -> 0..j]
    BY <1>2, <2>1, <2>3
  <2>5. InOrder(M, old, new, i, j)
    BY <2>2, <2>4 DEF InOrder
  <2>6. Pairs(M, i, j) = Pairs(M, i, l)
    BY <1>2, <2>1, <2>3 DEF Pairs
  <2>7. i + l + 1 = i + j
    BY <1>2, <2>1
  <2>8. Dearer(M, old, new, i, j, i, l, 1)
    BY <1>2, <2>6, <2>7, SamePairs
  <2>9. CostTo(M, old, new, i, j) = c + 1
    BY <1>3, <2>1, <2>8 DEF Dearer, Attains
  <2>10. Attains(M, old, new, i, j, Cost(f, i, j))
    BY <2>1, <2>5, <2>9 DEF Attains
  <2>11. Onward(M, M, op, i, j, k)
    BY <2>1 DEF Onward
  <2> QED
    BY <2>10, <2>11
<1>6. CASE op = "delete"
  <2>1. i = k + 1 /\ j = l /\ Cost(f, i, j) = c + 1
    BY <1>1, <1>2, <1>6 DEF Turn
  <2>2. PICK e : e = 0
    OBVIOUS
  <2>3. (e = 0 \/ e = l + 1) /\ (e # 0 => UpdateCost(old[k + 1], new[e]) # "infinite")
    BY <2>2
  <2>4. PICK N : N = [h \in 1..(k + 1) |-> IF h = k + 1 THEN e ELSE M[h]]
    OBVIOUS
  <2>5. Extended(N, old, new, k, l, e, c)
    BY <1>2, <1>3, <2>3, <2>4, MatchingExtended
  <2>6. InOrder(N, old, new, i, j)
    BY <2>1, <2>2, <2>5 DEF Extended
  <2>7. Pairs(N, i, j) = Pairs(N, k, j)
    <3>1. N[i] \notin 1..j
      BY <1>2, <2>1, <2>2, <2>4
    <3>2. ASSUME NEW h \in 1..i, h # i PROVE h \in 1..k
      BY <1>2, <2>1, <3>2
    <3>3. \A h \in 1..k : h \in 1..i
      BY <1>2, <2>1
    <3> QED
      BY <3>1, <3>2, <3>3 DEF Pairs
  <2>8. k + j + 1 = i + j
    BY <1>2, <2>1
  <2>9. Dearer(N, old, new, i, j, k, j, 1)
    BY <1>2, <2>7, <2>8, SamePairs
  <2>10. CostTo(N, old, new, i, j) = c + 1
    BY <2>1, <2>5, <2>9 DEF Dearer, Extended
  <2>11. Attains(N, old, new, i, j, Cost(f, i, j))
    BY <2>1, <2>6, <2>10 DEF Attains
  <2>12. ASSUME NEW h \in 1..i PROVE N[h] = IF h \in 1..k THEN M[h] ELSE 0
    BY <1>2, <2>1, <2>2, <2>4
  <2>13. Onward(N, M, op, i, j, k)
    BY <1>6, <2>12 DEF Onward
  <2> QED
    BY <2>11, <2>13
<1> QED
  BY <1>4, <1>5, <1>6 DEF Turn

(* At every cell, the script costs what the matrices say, and so does a    *)
(* matching.                                                               *)
LEMMA ScriptsPriced ==
  ASSUME NEW old, NEW new, NEW m \in Nat, NEW n \in Nat, NEW f, Matrices(f, old, new, m, n),
         NEW g, Scripts(f, g, m, n)
  PROVE  Priced(g[<<m, n>>], Cost(f, m, n)) /\ \E M : Attains(M, old, new, m, n, Cost(f, m, n))
<1> DEFINE Fine(i, j) == /\ Priced(g[<<i, j>>], Cost(f, i, j))
                         /\ \E M : Attains(M, old, new, i, j, Cost(f, i, j))
<1>1. Fine(0, 0)
  <2>1. 0 \in 0..m /\ 0 \in 0..n
    OBVIOUS
  <2>2. Cost(f, 0, 0) = 0
    BY <2>1 DEF Matrices
  <2>3. g[<<0, 0>>] = <<>>
    BY <2>1 DEF Scripts, ScriptAt
  <2>4. <<>> \in Seq(Operations) /\ {k \in DOMAIN <<>> : <<>>[k] # "keep"} = {}
    OBVIOUS
  <2>5. Priced(<<>>, 0)
    BY <2>4, FS_EmptySet DEF Priced, ScriptCost
  <2>6. PICK M : M = [k \in 1..0 |-> 0]
    OBVIOUS
  <2>7. InOrder(M, old, new, 0, 0)
    BY <2>6 DEF InOrder
  <2>8. CostTo(M, old, new, 0, 0) = 0
    BY NoPairs
  <2>9. Attains(M, old, new, 0, 0, 0)
    BY <2>7, <2>8 DEF Attains
  <2> QED
    BY <2>2, <2>3, <2>5, <2>9
<1>2. ASSUME NEW i \in 0..m, NEW j \in 0..n, NEW k \in 0..m, NEW l \in 0..n, i # 0 \/ j # 0,
             Previous(<<i, j>>, Operation(f, i, j)) = <<k, l>>,
             Turn(f, old, new, i, j, Operation(f, i, j), k, l), Fine(k, l)
      PROVE  Fine(i, j)
  <2>1. PICK op : op = Operation(f, i, j)
    OBVIOUS
  <2>2. Turn(f, old, new, i, j, op, k, l)
    BY <1>2, <2>1
  <2>3. PICK c \in Nat : c = Cost(f, k, l)
    BY DEF Matrices
  <2>4. op \in Operations /\ Cost(f, i, j) = IF op = "keep" THEN c ELSE c + 1
    BY <2>2, <2>3 DEF Turn, Operations
  <2>5. g[<<i, j>>] = Append(g[<<k, l>>], op)
    BY <1>2, <2>1 DEF Scripts, ScriptAt
  <2>6. Priced(g[<<k, l>>], c)
    BY <1>2, <2>3
  <2>7. Priced(g[<<i, j>>], Cost(f, i, j))
    BY <2>4, <2>5, <2>6, PriceAppended
  <2>8. PICK M : Attains(M, old, new, k, l, Cost(f, k, l))
    BY <1>2
  <2>9. \E N : Attains(N, old, new, i, j, Cost(f, i, j))
    BY <2>2, <2>8, MatchedOnward
  <2> QED
    BY <2>7, <2>9
<1> HIDE DEF Fine
<1> DEFINE T == {s \in Nat : \E i \in 0..m, j \in 0..n : i + j = s /\ ~Fine(i, j)}
<1>3. T = {}
  <2>1. SUFFICES ASSUME T # {} PROVE FALSE
    BY <2>1
  <2>2. PICK x \in T : \A y \in T : x <= y
    BY <2>1, LeastOf
  <2>3. PICK i \in 0..m, j \in 0..n : i + j = x /\ ~Fine(i, j)
    BY <2>2
  <2>4. i # 0 \/ j # 0
    BY <1>1, <2>3
  <2>5. PICK k \in 0..m, l \in 0..n :
          /\ Previous(<<i, j>>, Operation(f, i, j)) = <<k, l>> /\ k + l < i + j
          /\ Turn(f, old, new, i, j, Operation(f, i, j), k, l)
    BY <2>4, TurnExists
  <2>6. k + l \in Nat /\ ~(x <= k + l)
    BY <2>3, <2>5
  <2>7. k + l \notin T
    BY <2>2, <2>6
  <2>8. Fine(k, l)
    BY <2>6, <2>7
  <2> QED
    BY <1>2, <2>3, <2>4, <2>5, <2>8
<1>4. m \in 0..m /\ n \in 0..n /\ m + n \in Nat
  OBVIOUS
<1>5. m + n \notin T
  BY <1>3
<1>6. Fine(m, n)
  BY <1>4, <1>5
<1> QED
  BY <1>6 DEF Fine

-----------------------------------------------------------------------------
(* Nodes that match one after the other. N is M, with the next s of them.  *)
RunMatched(N, M, i, j, s) ==
  N = [h \in 1..(i + s) |-> IF h \in 1..i THEN M[h] ELSE j + (h - i)]

RunFollows(N, M, i, j, s) ==
  (\A h \in 1..i : N[h] = M[h]) /\ (\A t \in 1..s : N[i + t] = j + t)

(* They need no update.                                                    *)
RunMatches(old, new, i, j, s) ==
  \A t \in 1..s : UpdateCost(old[i + t], new[j + t]) = "none"

LEMMA RunAttains ==
  ASSUME NEW old, NEW new, NEW i \in Nat, NEW j \in Nat, NEW c, NEW M,
         Attains(M, old, new, i, j, c), NEW s \in Nat,
         RunMatches(old, new, i, j, s),
         NEW N, RunMatched(N, M, i, j, s)
  PROVE  Attains(N, old, new, i + s, j + s, c) /\ RunFollows(N, M, i, j, s)
<1>1. /\ M \in [1..i -> 0..j]
      /\ \A k \in 1..i : M[k] # 0 => UpdateCost(old[k], new[M[k]]) # "infinite"
      /\ \A k, h \in 1..i : k < h /\ M[k] # 0 /\ M[h] # 0 => M[k] < M[h]
  BY DEF Attains, InOrder
<1>2. \A h \in 1..i : h \in 1..(i + s) /\ N[h] = M[h]
  BY DEF RunMatched
<1>3. ASSUME NEW h \in (i + 1)..(i + s)
      PROVE  h \in 1..(i + s) /\ h \notin 1..i /\ N[h] = j + (h - i)
  <2>1. h \in 1..(i + s) /\ h \notin 1..i
    OBVIOUS
  <2> QED
    BY <2>1 DEF RunMatched
<1>4. ASSUME NEW t \in 1..s PROVE N[i + t] = j + t /\ i + t \in (i + 1)..(i + s)
  <2>1. i + t \in (i + 1)..(i + s) /\ j + ((i + t) - i) = j + t
    OBVIOUS
  <2> QED
    BY <1>3, <2>1
<1>5. \A h \in 1..(i + s) : h \in 1..i \/ h \in (i + 1)..(i + s)
  OBVIOUS
<1>6. \A h \in (i + 1)..(i + s) : N[h] \in (j + 1)..(j + s)
  <2> TAKE h \in (i + 1)..(i + s)
  <2>1. N[h] = j + (h - i)
    BY <1>3
  <2> QED
    BY <2>1
<1>7. \A h \in 1..i : N[h] \in 0..j
  BY <1>1, <1>2
<1>8. N \in [1..(i + s) -> 0..(j + s)]
  <2>1. N = [h \in 1..(i + s) |-> N[h]]
    BY DEF RunMatched
  <2>2. ASSUME NEW h \in 1..(i + s) PROVE N[h] \in 0..(j + s)
    <3>1. CASE h \in 1..i
      BY <1>7, <3>1
    <3>2. CASE h \in (i + 1)..(i + s)
      BY <1>6, <3>2
    <3> QED
      BY <1>5, <3>1, <3>2
  <2> QED
    BY <2>1, <2>2
<1>9. ASSUME NEW h \in 1..(i + s), N[h] # 0 PROVE UpdateCost(old[h], new[N[h]]) # "infinite"
  <2>1. CASE h \in 1..i
    BY <1>1, <1>2, <1>9, <2>1
  <2>2. CASE h \in (i + 1)..(i + s)
    <3>1. PICK t : t = h - i
      OBVIOUS
    <3>2. t \in 1..s /\ i + t = h
      BY <2>2, <3>1
    <3>3. N[h] = j + t
      BY <1>4, <3>2
    <3>4. UpdateCost(old[h], new[N[h]]) = "none"
      BY <3>2, <3>3 DEF RunMatches
    <3> QED
      BY <3>4
  <2> QED
    BY <1>5, <2>1, <2>2
<1>10. ASSUME NEW k \in 1..(i + s), NEW h \in 1..(i + s), k < h, N[k] # 0, N[h] # 0
       PROVE  N[k] < N[h]
  <2>1. CASE h \in 1..i
    <3>1. k \in 1..i
      BY <1>10, <2>1
    <3> QED
      BY <1>1, <1>2, <1>10, <2>1, <3>1
  <2>2. CASE h \in (i + 1)..(i + s) /\ k \in 1..i
    <3>1. N[k] \in 0..j /\ N[h] \in (j + 1)..(j + s)
      BY <1>6, <1>7, <2>2
    <3> QED
      BY <3>1
  <2>3. CASE h \in (i + 1)..(i + s) /\ k \in (i + 1)..(i + s)
    <3>1. N[k] = j + (k - i) /\ N[h] = j + (h - i)
      BY <1>3, <2>3
    <3> QED
      BY <1>10, <3>1
  <2> QED
    BY <1>5, <2>1, <2>2, <2>3
<1>11. InOrder(N, old, new, i + s, j + s)
  BY <1>8, <1>9, <1>10 DEF InOrder
<1>12. Pairs(N, i + s, j + s) = Pairs(M, i, j) \cup (i + 1)..(i + s)
  <2>1. \A h \in 1..i : N[h] \in 1..(j + s) <=> M[h] \in 1..j
    <3> TAKE h \in 1..i
    <3>1. N[h] = M[h] /\ M[h] \in 0..j
      BY <1>1, <1>2
    <3> QED
      BY <3>1
  <2>2. \A h \in (i + 1)..(i + s) : h \in 1..(i + s) /\ N[h] \in 1..(j + s)
    <3> TAKE h \in (i + 1)..(i + s)
    <3>1. N[h] \in (j + 1)..(j + s)
      BY <1>6
    <3> QED
      BY <3>1
  <2>3. \A h \in 1..i : h \in 1..(i + s)
    BY <1>2
  <2> QED
    BY <1>5, <2>1, <2>2, <2>3 DEF Pairs
<1>13. Updates(N, old, new, i + s, j + s) = Updates(M, old, new, i, j)
  <2>1. \A h \in Pairs(M, i, j) : N[h] = M[h]
    BY <1>2 DEF Pairs
  <2>2. ASSUME NEW h \in (i + 1)..(i + s) PROVE UpdateCost(old[h], new[N[h]]) # "some"
    <3>1. PICK t : t = h - i
      OBVIOUS
    <3>2. t \in 1..s /\ i + t = h
      BY <3>1
    <3>3. N[h] = j + t
      BY <1>4, <3>2
    <3>4. UpdateCost(old[h], new[N[h]]) = "none"
      BY <3>2, <3>3 DEF RunMatches
    <3> QED
      BY <3>4
  <2> QED
    BY <1>12, <2>1, <2>2 DEF Updates
<1>14. Cardinality(Pairs(N, i + s, j + s)) = Cardinality(Pairs(M, i, j)) + s
  <2>1. PICK A, B : A = Pairs(M, i, j) /\ B = (i + 1)..(i + s)
    OBVIOUS
  <2>2. IsFiniteSet(A) /\ Cardinality(A) \in Nat
    BY <2>1, PairsCounted
  <2>3. i + 1 \in Int /\ i + s \in Int
    OBVIOUS
  <2>4. IsFiniteSet(B) /\ Cardinality(B) = IF i + 1 > i + s THEN 0 ELSE (i + s) - (i + 1) + 1
    BY <2>1, <2>3, FS_Interval
  <2>5. Cardinality(B) = s
    BY <2>4
  <2>6. A \cap B = {}
    <3>1. \A h \in A : h \in 1..i
      BY <2>1 DEF Pairs
    <3>2. \A h \in 1..i : h \notin B
      BY <2>1
    <3> QED
      BY <3>1, <3>2
  <2>7. Cardinality({}) = 0
    BY FS_EmptySet
  <2>8. Cardinality(A \cup B) = Cardinality(A) + Cardinality(B) - Cardinality(A \cap B)
    BY <2>2, <2>4, FS_Union
  <2>9. PICK a \in Nat : a = Cardinality(A)
    BY <2>2
  <2>10. Cardinality(A \cup B) = a + s - 0
    BY <2>5, <2>6, <2>7, <2>8, <2>9
  <2>11. Cardinality(A \cup B) = Cardinality(A) + s
    BY <2>9, <2>10
  <2> QED
    BY <1>12, <2>1, <2>11
<1>15. CostTo(N, old, new, i + s, j + s) = c
  <2>1. PICK a, b : a = Cardinality(Pairs(M, i, j)) /\ b = Cardinality(Updates(M, old, new, i, j))
    OBVIOUS
  <2>2. a \in Nat /\ b \in Nat
    BY <2>1, PairsCounted
  <2>3. CostTo(N, old, new, i + s, j + s) = (i + s) + (j + s) - 2 * (a + s) + b
    BY <1>13, <1>14, <2>1 DEF CostTo
  <2>4. c = i + j - 2 * a + b
    BY <2>1 DEF Attains, CostTo
  <2>5. (i + s) + (j + s) - 2 * (a + s) + b = i + j - 2 * a + b
    BY <2>2
  <2> QED
    BY <2>3, <2>4, <2>5
<1> QED
  BY <1>2, <1>4, <1>11, <1>15 DEF Attains, RunFollows

-----------------------------------------------------------------------------
(* Cutting off the ends that match changes no cost.                        *)

(* Next to each other, costs differ by one at most.                        *)
Near(f, i, j) ==
  /\ i # 0 => Cost(f, i - 1, j) <= Cost(f, i, j) + 1 /\ Cost(f, i, j) <= Cost(f, i - 1, j) + 1
  /\ j # 0 => Cost(f, i, j - 1) <= Cost(f, i, j) + 1 /\ Cost(f, i, j) <= Cost(f, i, j - 1) + 1

LEMMA CostsAreNear ==
  ASSUME NEW old, NEW new, NEW m \in Nat, NEW n \in Nat, NEW f, Matrices(f, old, new, m, n)
  PROVE  \A i \in 0..m, j \in 0..n : Near(f, i, j)
<1>1. ASSUME NEW i \in 0..m, NEW j \in 0..n, i = 0 \/ j = 0
      PROVE  Near(f, i, j)
  <2>1. CASE i = 0
    <3>1. CASE j = 0
      BY <2>1, <3>1 DEF Near
    <3>2. CASE j # 0
      <4>1. PICK l : l = j - 1
        OBVIOUS
      <4>2. l \in 0..n /\ j = l + 1
        BY <3>2, <4>1
      <4>3. Cost(f, 0, j) = j /\ Cost(f, 0, l) = l
        BY <4>2 DEF Matrices
      <4> QED
        BY <2>1, <4>1, <4>2, <4>3 DEF Near
    <3> QED
      BY <3>1, <3>2
  <2>2. CASE i # 0 /\ j = 0
    <3>1. PICK k : k = i - 1
      OBVIOUS
    <3>2. k \in 0..m /\ i = k + 1 /\ i \in 1..m /\ 0 \in 0..n
      BY <2>2, <3>1
    <3>3. Cost(f, i, 0) = i
      BY <3>2 DEF Matrices
    <3>4. Cost(f, k, 0) = k
      <4>1. CASE k = 0
        BY <3>2, <4>1 DEF Matrices
      <4>2. CASE k # 0
        <5>1. k \in 1..m
          BY <3>2, <4>2
        <5> QED
          BY <5>1 DEF Matrices
      <4> QED
        BY <4>1, <4>2
    <3> QED
      BY <2>2, <3>1, <3>2, <3>3, <3>4 DEF Near
  <2> QED
    BY <1>1, <2>1, <2>2
<1>2. ASSUME NEW i \in 1..m, NEW j \in 1..n, Near(f, i, j - 1), Near(f, i - 1, j)
      PROVE  Near(f, i, j)
  <2>1. i \in 0..m /\ j \in 0..n /\ i - 1 \in 0..m /\ j - 1 \in 0..n /\ i # 0 /\ j # 0
    OBVIOUS
  <2>2. PICK c, x, y, z : /\ c = Cost(f, i, j) /\ x = Cost(f, i - 1, j - 1)
                          /\ y = Cost(f, i, j - 1) /\ z = Cost(f, i - 1, j)
    OBVIOUS
  <2>3. x \in Nat /\ y \in Nat /\ z \in Nat /\ c \in Nat
    BY <2>1, <2>2 DEF Matrices
  <2>4. /\ Ends(UpdateCost(old[i], new[j]), c, Operation(f, i, j), x, y, z)
        /\ Below(UpdateCost(old[i], new[j]), c, x, y, z)
    BY <2>2 DEF Matrices, CellIs
  <2>5. c <= y + 1 /\ c <= z + 1
    BY <2>4 DEF Below
  <2>6. c = x \/ c = x + 1 \/ c = y + 1 \/ c = z + 1
    BY <2>4 DEF Ends
  <2>7. x <= y + 1 /\ y <= x + 1
    BY <1>2, <2>1, <2>2 DEF Near
  <2>8. x <= z + 1 /\ z <= x + 1
    BY <1>2, <2>1, <2>2 DEF Near
  <2>9. y <= c + 1 /\ z <= c + 1
    BY <2>3, <2>6, <2>7, <2>8
  <2> QED
    BY <2>2, <2>5, <2>9 DEF Near
<1> DEFINE T == {s \in Nat : \E i \in 0..m, j \in 0..n : i + j = s /\ ~Near(f, i, j)}
<1>3. T = {}
  <2>1. SUFFICES ASSUME T # {} PROVE FALSE
    BY <2>1
  <2>2. PICK x \in T : \A y \in T : x <= y
    BY <2>1, LeastOf
  <2>3. PICK i \in 0..m, j \in 0..n : i + j = x /\ ~Near(f, i, j)
    BY <2>2
  <2>4. ASSUME NEW k \in 0..m, NEW l \in 0..n, k + l < x
        PROVE  Near(f, k, l)
    <3>1. k + l \in Nat /\ ~(x <= k + l)
      BY <2>3, <2>4
    <3>2. k + l \notin T
      BY <2>2, <3>1
    <3> QED
      BY <3>1, <3>2
  <2>5. i # 0 /\ j # 0
    BY <1>1, <2>3
  <2>6. /\ i \in 1..m /\ j \in 1..n /\ i - 1 \in 0..m /\ j - 1 \in 0..n
        /\ i + (j - 1) < x /\ (i - 1) + j < x
    BY <2>3, <2>5
  <2>7. Near(f, i, j - 1) /\ Near(f, i - 1, j)
    BY <2>4, <2>6
  <2> QED
    BY <1>2, <2>3, <2>6, <2>7
<1>4. SUFFICES ASSUME NEW i \in 0..m, NEW j \in 0..n PROVE Near(f, i, j)
  OBVIOUS
<1>5. i + j \in Nat
  OBVIOUS
<1>6. i + j \notin T
  BY <1>3
<1> QED
  BY <1>5, <1>6

(* A node that matches costs nothing.                                      *)
LEMMA MatchIsFree ==
  ASSUME NEW old, NEW new, NEW m \in Nat, NEW n \in Nat, NEW f, Matrices(f, old, new, m, n),
         NEW i \in 1..m, NEW j \in 1..n, UpdateCost(old[i], new[j]) = "none"
  PROVE  Cost(f, i, j) = Cost(f, i - 1, j - 1)
<1>1. i \in 0..m /\ j \in 0..n /\ i - 1 \in 0..m /\ j - 1 \in 0..n /\ i # 0 /\ j # 0
  OBVIOUS
<1>2. PICK c, x, y, z : /\ c = Cost(f, i, j) /\ x = Cost(f, i - 1, j - 1)
                        /\ y = Cost(f, i, j - 1) /\ z = Cost(f, i - 1, j)
  OBVIOUS
<1>3. x \in Nat /\ y \in Nat /\ z \in Nat /\ c \in Nat
  BY <1>1, <1>2 DEF Matrices
<1>4. /\ Ends("none", c, Operation(f, i, j), x, y, z) /\ Below("none", c, x, y, z)
  BY <1>2 DEF Matrices, CellIs
<1>5. c <= x
  BY <1>4 DEF Below
<1>6. c = x \/ c = y + 1 \/ c = z + 1
  BY <1>4 DEF Ends
<1>7. x <= y + 1
  <2>1. Near(f, i, j - 1)
    BY <1>1, CostsAreNear
  <2> QED
    BY <1>1, <1>2, <2>1 DEF Near
<1>8. x <= z + 1
  <2>1. Near(f, i - 1, j)
    BY <1>1, CostsAreNear
  <2> QED
    BY <1>1, <1>2, <2>1 DEF Near
<1>9. c = x
  BY <1>3, <1>5, <1>6, <1>7, <1>8
<1> QED
  BY <1>2, <1>9

(* The last s nodes match.                                                 *)
MatchAtEnd(old, new, m, n, s) ==
  \A i \in 0..(s - 1) : UpdateCost(old[m - i], new[n - i]) = "none"

LEMMA EndIsFree ==
  ASSUME NEW old, NEW new, NEW m \in Nat, NEW n \in Nat, NEW f, Matrices(f, old, new, m, n),
         NEW s \in Nat, s <= m, s <= n, MatchAtEnd(old, new, m, n, s)
  PROVE  Cost(f, m, n) = Cost(f, m - s, n - s)
<1> DEFINE Same(i) == Cost(f, m, n) = Cost(f, m - i, n - i)
<1>1. Same(0)
  OBVIOUS
<1>2. ASSUME NEW i \in 0..(s - 1), Same(i) PROVE Same(i + 1)
  <2>1. PICK k, l : k = m - i /\ l = n - i
    OBVIOUS
  <2>2. k \in 1..m /\ l \in 1..n /\ k - 1 = m - (i + 1) /\ l - 1 = n - (i + 1)
    BY <2>1
  <2>3. UpdateCost(old[k], new[l]) = "none"
    BY <2>1 DEF MatchAtEnd
  <2>4. Cost(f, k, l) = Cost(f, k - 1, l - 1)
    BY <2>2, <2>3, MatchIsFree
  <2> QED
    BY <1>2, <2>1, <2>2, <2>4
<1> HIDE DEF Same
<1> DEFINE T == {i \in Nat : i <= s /\ ~Same(i)}
<1>3. T = {}
  <2>1. SUFFICES ASSUME T # {} PROVE FALSE
    BY <2>1
  <2>2. PICK x \in T : \A y \in T : x <= y
    BY <2>1, LeastOf
  <2>3. x \in Nat /\ x <= s /\ ~Same(x) /\ x # 0
    BY <1>1, <2>2
  <2>4. PICK i : i = x - 1
    OBVIOUS
  <2>5. i \in 0..(s - 1) /\ i + 1 = x /\ i \in Nat /\ i <= s /\ ~(x <= i)
    BY <2>3, <2>4
  <2>6. i \notin T
    BY <2>2, <2>5
  <2>7. Same(i)
    BY <2>5, <2>6
  <2>8. Same(i + 1)
    BY <1>2, <2>5, <2>7
  <2> QED
    BY <2>3, <2>5, <2>8
<1>4. s \notin T /\ s <= s
  BY <1>3
<1> QED
  BY <1>4 DEF Same

(* The first p nodes match.                                                *)
MatchAtStart(old, new, p) == \A i \in 1..p : UpdateCost(old[i], new[i]) = "none"

(* Beyond them, the edges of the matrices are those of smaller ones.       *)
Edges(f, m, n, p) ==
  /\ \A i \in 0..(m - p) : Cost(f, i + p, p) = i
  /\ \A j \in 0..(n - p) : Cost(f, p, j + p) = j

LEMMA StartIsFree ==
  ASSUME NEW old, NEW new, NEW m \in Nat, NEW n \in Nat, NEW f, Matrices(f, old, new, m, n),
         NEW p \in Nat, p <= m, p <= n, MatchAtStart(old, new, p)
  PROVE  Edges(f, m, n, p)
<1>1. \A i \in 0..m, j \in 0..n : Near(f, i, j) /\ Cost(f, i, j) \in Nat
  BY CostsAreNear DEF Matrices
<1> DEFINE Free(k) == Cost(f, k, k) = 0
<1>2. \A k \in 0..p : Free(k)
  <2>1. Free(0)
    BY DEF Matrices
  <2>2. ASSUME NEW k \in 1..p, Free(k - 1) PROVE Free(k)
    <3>1. k \in 1..m /\ k \in 1..n
      OBVIOUS
    <3>2. UpdateCost(old[k], new[k]) = "none"
      BY DEF MatchAtStart
    <3>3. Cost(f, k, k) = Cost(f, k - 1, k - 1)
      BY <3>1, <3>2, MatchIsFree
    <3> QED
      BY <2>2, <3>3
  <2> HIDE DEF Free
  <2> DEFINE T == {k \in Nat : k <= p /\ ~Free(k)}
  <2>3. T = {}
    <3>1. SUFFICES ASSUME T # {} PROVE FALSE
      BY <3>1
    <3>2. PICK x \in T : \A y \in T : x <= y
      BY <3>1, LeastOf
    <3>3. x \in 1..p /\ ~Free(x)
      BY <2>1, <3>2
    <3>4. PICK k : k = x - 1
      OBVIOUS
    <3>5. k \in Nat /\ k <= p /\ ~(x <= k)
      BY <3>3, <3>4
    <3>6. k \notin T
      BY <3>2, <3>5
    <3>7. Free(x - 1)
      BY <3>4, <3>5, <3>6
    <3> QED
      BY <2>2, <3>3, <3>7
  <2> QED
    BY <2>3
<1> DEFINE Right(i) == i <= m - p => Cost(f, i + p, p) <= i
           Down(j) == j <= n - p => Cost(f, p, j + p) <= j
           FarRight(k) == k <= p => \A i \in 0..(m - k) : i <= Cost(f, i + k, k)
           FarDown(k) == k <= p => \A j \in 0..(n - k) : j <= Cost(f, k, j + k)
<1>3. Right(0) /\ Down(0)
  <2>1. Cost(f, p, p) = 0 /\ 0 + p = p
    BY <1>2
  <2> QED
    BY <2>1
<1>4. ASSUME NEW i \in Nat, Right(i), Down(i) PROVE Right(i + 1) /\ Down(i + 1)
  <2>1. ASSUME i + 1 <= m - p PROVE Cost(f, (i + 1) + p, p) <= i + 1
    <3>1. PICK k : k = i + p
      OBVIOUS
    <3>2. k \in 0..m /\ (i + 1) + p = k + 1 /\ k + 1 \in 0..m /\ p \in 0..n /\ k + 1 # 0
          /\ (k + 1) - 1 = k /\ i <= m - p
      BY <2>1, <3>1
    <3>3. PICK c, d : c = Cost(f, k, p) /\ d = Cost(f, k + 1, p)
      OBVIOUS
    <3>4. c <= i /\ c \in Nat /\ d \in Nat
      BY <1>1, <1>4, <3>1, <3>2, <3>3
    <3>5. d <= c + 1
      BY <1>1, <3>2, <3>3 DEF Near
    <3>6. d <= i + 1
      BY <3>4, <3>5
    <3> QED
      BY <3>2, <3>3, <3>6
  <2>2. ASSUME i + 1 <= n - p PROVE Cost(f, p, (i + 1) + p) <= i + 1
    <3>1. PICK k : k = i + p
      OBVIOUS
    <3>2. k \in 0..n /\ (i + 1) + p = k + 1 /\ k + 1 \in 0..n /\ p \in 0..m /\ k + 1 # 0
          /\ (k + 1) - 1 = k /\ i <= n - p
      BY <2>2, <3>1
    <3>3. PICK c, d : c = Cost(f, p, k) /\ d = Cost(f, p, k + 1)
      OBVIOUS
    <3>4. c <= i /\ c \in Nat /\ d \in Nat
      BY <1>1, <1>4, <3>1, <3>2, <3>3
    <3>5. d <= c + 1
      BY <1>1, <3>2, <3>3 DEF Near
    <3>6. d <= i + 1
      BY <3>4, <3>5
    <3> QED
      BY <3>2, <3>3, <3>6
  <2> QED
    BY <2>1, <2>2
<1>5. FarRight(0) /\ FarDown(0)
  <2>1. ASSUME NEW i \in 0..m PROVE i <= Cost(f, i + 0, 0)
    <3>1. CASE i = 0
      BY <1>1, <3>1
    <3>2. CASE i # 0
      <4>1. i \in 1..m /\ i + 0 = i
        BY <3>2
      <4>2. Cost(f, i, 0) = i
        BY <4>1 DEF Matrices
      <4> QED
        BY <4>1, <4>2
    <3> QED
      BY <3>1, <3>2
  <2>2. ASSUME NEW j \in 0..n PROVE j <= Cost(f, 0, j + 0)
    <3>1. Cost(f, 0, j) = j /\ j + 0 = j
      BY DEF Matrices
    <3> QED
      BY <3>1
  <2> QED
    BY <2>1, <2>2
<1>6. ASSUME NEW k \in Nat, FarRight(k), FarDown(k) PROVE FarRight(k + 1) /\ FarDown(k + 1)
  <2>1. ASSUME k + 1 <= p, NEW i \in 0..(m - (k + 1)) PROVE i <= Cost(f, i + (k + 1), k + 1)
    <3>1. PICK h : h = i + (k + 1)
      OBVIOUS
    <3>2. /\ h \in 0..m /\ i + 1 \in 0..(m - k) /\ (i + 1) + k = h /\ k \in 0..n
          /\ k + 1 \in 0..n /\ k + 1 # 0 /\ (k + 1) - 1 = k /\ k <= p
      BY <2>1, <3>1
    <3>3. PICK c, d : c = Cost(f, h, k) /\ d = Cost(f, h, k + 1)
      OBVIOUS
    <3>4. i + 1 <= c /\ c \in Nat /\ d \in Nat
      BY <1>1, <1>6, <3>2, <3>3
    <3>5. c <= d + 1
      BY <1>1, <3>2, <3>3 DEF Near
    <3>6. i <= d
      BY <3>4, <3>5
    <3> QED
      BY <3>1, <3>3, <3>6
  <2>2. ASSUME k + 1 <= p, NEW i \in 0..(n - (k + 1)) PROVE i <= Cost(f, k + 1, i + (k + 1))
    <3>1. PICK h : h = i + (k + 1)
      OBVIOUS
    <3>2. /\ h \in 0..n /\ i + 1 \in 0..(n - k) /\ (i + 1) + k = h /\ k \in 0..m
          /\ k + 1 \in 0..m /\ k + 1 # 0 /\ (k + 1) - 1 = k /\ k <= p
      BY <2>2, <3>1
    <3>3. PICK c, d : c = Cost(f, k, h) /\ d = Cost(f, k + 1, h)
      OBVIOUS
    <3>4. i + 1 <= c /\ c \in Nat /\ d \in Nat
      BY <1>1, <1>6, <3>2, <3>3
    <3>5. c <= d + 1
      BY <1>1, <3>2, <3>3 DEF Near
    <3>6. i <= d
      BY <3>4, <3>5
    <3> QED
      BY <3>1, <3>3, <3>6
  <2> QED
    BY <2>1, <2>2
<1> DEFINE Good(i) == Right(i) /\ Down(i) /\ FarRight(i) /\ FarDown(i)
<1>7. Good(0)
  BY <1>3, <1>5
<1>8. ASSUME NEW i \in Nat, Good(i) PROVE Good(i + 1)
  BY <1>4, <1>6, <1>8
<1> HIDE DEF Good
<1> DEFINE T == {i \in Nat : ~Good(i)}
<1>9. \A i \in Nat : Good(i)
  <2>1. SUFFICES ASSUME T # {} PROVE FALSE
    BY <2>1
  <2>2. PICK x \in T : \A y \in T : x <= y
    BY <2>1, LeastOf
  <2>3. x \in Nat /\ x # 0
    BY <1>7, <2>2
  <2>4. PICK i \in Nat : i + 1 = x
    <3>1. x - 1 \in Nat /\ (x - 1) + 1 = x
      BY <2>3
    <3> QED
      BY <3>1
  <2>5. i \notin T
    BY <2>2, <2>4
  <2> QED
    BY <1>8, <2>2, <2>4, <2>5
<1>10. ASSUME NEW i \in 0..(m - p) PROVE Cost(f, i + p, p) = i
  <2>1. Cost(f, i + p, p) <= i /\ i <= Cost(f, i + p, p)
    BY <1>9 DEF Good
  <2>2. i + p \in 0..m /\ p \in 0..n
    OBVIOUS
  <2> QED
    BY <1>1, <2>1, <2>2
<1>11. ASSUME NEW i \in 0..(n - p) PROVE Cost(f, p, i + p) = i
  <2>1. Cost(f, p, i + p) <= i /\ i <= Cost(f, p, i + p)
    BY <1>9 DEF Good
  <2>2. i + p \in 0..n /\ p \in 0..m
    OBVIOUS
  <2> QED
    BY <1>1, <2>1, <2>2
<1> QED
  BY <1>10, <1>11 DEF Edges

(* The matrices g of the middles of two lists, p nodes from their starts.  *)
Middle(old, new, olds, news, p, m, n) ==
  \A i \in 1..m, j \in 1..n : UpdateCost(olds[i], news[j]) = UpdateCost(old[i + p], new[j + p])

Shifted(f, g, p, m, n) ==
  \A i \in 0..m, j \in 0..n : Cost(g, i, j) = Cost(f, i + p, j + p)

(* Two ways to end that are right cost the same.                           *)
LEMMA EndsAgree ==
  ASSUME NEW k, NEW c \in Nat, NEW d \in Nat, NEW op, NEW oq, NEW x \in Nat, NEW y \in Nat,
         NEW z \in Nat, Ends(k, c, op, x, y, z), Below(k, c, x, y, z),
         Ends(k, d, oq, x, y, z), Below(k, d, x, y, z)
  PROVE  c = d
<1>1. c <= d
  <2>1. /\ c <= y + 1 /\ c <= z + 1 /\ (k = "none" => c <= x) /\ (k = "some" => c <= x + 1)
    BY DEF Below
  <2> QED
    BY <2>1 DEF Ends
<1>2. d <= c
  <2>1. /\ d <= y + 1 /\ d <= z + 1 /\ (k = "none" => d <= x) /\ (k = "some" => d <= x + 1)
    BY DEF Below
  <2> QED
    BY <2>1 DEF Ends
<1> QED
  BY <1>1, <1>2

LEMMA MiddleCosts ==
  ASSUME NEW old, NEW new, NEW M \in Nat, NEW N \in Nat, NEW f, Matrices(f, old, new, M, N),
         NEW olds, NEW news, NEW m \in Nat, NEW n \in Nat, NEW g, Matrices(g, olds, news, m, n),
         NEW p \in Nat, m + p <= M, n + p <= N, MatchAtStart(old, new, p),
         Middle(old, new, olds, news, p, m, n)
  PROVE  Shifted(f, g, p, m, n)
<1> DEFINE Agree(i, j) == Cost(g, i, j) = Cost(f, i + p, j + p)
<1>1. p <= M /\ p <= N
  OBVIOUS
<1>2. Edges(f, M, N, p)
  BY <1>1, StartIsFree
<1>3. ASSUME NEW i \in 0..m, NEW j \in 0..n, i = 0 \/ j = 0
      PROVE  Agree(i, j)
  <2>1. CASE i = 0
    <3>1. j \in 0..(N - p) /\ i + p = p
      BY <2>1
    <3>2. Cost(f, i + p, j + p) = j
      BY <1>2, <3>1 DEF Edges
    <3>3. Cost(g, i, j) = j
      BY <2>1 DEF Matrices
    <3> QED
      BY <3>2, <3>3
  <2>2. CASE i # 0 /\ j = 0
    <3>1. i \in 0..(M - p) /\ j + p = p /\ i \in 1..m
      BY <2>2
    <3>2. Cost(f, i + p, j + p) = i
      BY <1>2, <3>1 DEF Edges
    <3>3. Cost(g, i, j) = i
      BY <2>2, <3>1 DEF Matrices
    <3> QED
      BY <3>2, <3>3
  <2> QED
    BY <1>3, <2>1, <2>2
<1>4. ASSUME NEW i \in 1..m, NEW j \in 1..n,
             Agree(i - 1, j - 1), Agree(i, j - 1), Agree(i - 1, j)
      PROVE  Agree(i, j)
  <2>1. PICK k, l : k = i + p /\ l = j + p
    OBVIOUS
  <2>2. /\ k \in 1..M /\ l \in 1..N /\ k - 1 = (i - 1) + p /\ l - 1 = (j - 1) + p
        /\ k \in 0..M /\ l \in 0..N /\ k - 1 \in 0..M /\ l - 1 \in 0..N
        /\ i \in 0..m /\ j \in 0..n
    BY <2>1
  <2>3. PICK x, y, z : /\ x = Cost(f, k - 1, l - 1) /\ y = Cost(f, k, l - 1)
                       /\ z = Cost(f, k - 1, l)
    OBVIOUS
  <2>4. x = Cost(g, i - 1, j - 1) /\ y = Cost(g, i, j - 1) /\ z = Cost(g, i - 1, j)
    BY <1>4, <2>1, <2>2, <2>3
  <2>5. PICK c, d : c = Cost(f, k, l) /\ d = Cost(g, i, j)
    OBVIOUS
  <2>6. c \in Nat /\ d \in Nat /\ x \in Nat /\ y \in Nat /\ z \in Nat
    <3>1. \A a \in 0..M, b \in 0..N : Cost(f, a, b) \in Nat
      BY DEF Matrices
    <3>2. \A a \in 0..m, b \in 0..n : Cost(g, a, b) \in Nat
      BY DEF Matrices
    <3> QED
      BY <2>2, <2>3, <2>5, <3>1, <3>2
  <2>7. PICK u : u = UpdateCost(old[k], new[l])
    OBVIOUS
  <2>8. u = UpdateCost(olds[i], news[j])
    BY <2>1, <2>7 DEF Middle
  <2>9. Ends(u, c, Operation(f, k, l), x, y, z) /\ Below(u, c, x, y, z)
    BY <2>2, <2>3, <2>5, <2>7 DEF Matrices, CellIs
  <2>10. Ends(u, d, Operation(g, i, j), x, y, z) /\ Below(u, d, x, y, z)
    BY <2>4, <2>5, <2>8 DEF Matrices, CellIs
  <2>11. c = d
    BY <2>6, <2>9, <2>10, EndsAgree
  <2> QED
    BY <2>1, <2>5, <2>11
<1> HIDE DEF Agree
<1> DEFINE T == {s \in Nat : \E i \in 0..m, j \in 0..n : i + j = s /\ ~Agree(i, j)}
<1>5. T = {}
  <2>1. SUFFICES ASSUME T # {} PROVE FALSE
    BY <2>1
  <2>2. PICK x \in T : \A y \in T : x <= y
    BY <2>1, LeastOf
  <2>3. PICK i \in 0..m, j \in 0..n : i + j = x /\ ~Agree(i, j)
    BY <2>2
  <2>4. ASSUME NEW k \in 0..m, NEW l \in 0..n, k + l < x
        PROVE  Agree(k, l)
    <3>1. k + l \in Nat /\ ~(x <= k + l)
      BY <2>3, <2>4
    <3>2. k + l \notin T
      BY <2>2, <3>1
    <3> QED
      BY <3>1, <3>2
  <2>5. i # 0 /\ j # 0
    BY <1>3, <2>3
  <2>6. /\ i \in 1..m /\ j \in 1..n /\ i - 1 \in 0..m /\ j - 1 \in 0..n
        /\ (i - 1) + (j - 1) < x /\ i + (j - 1) < x /\ (i - 1) + j < x
    BY <2>3, <2>5
  <2>7. Agree(i - 1, j - 1) /\ Agree(i, j - 1) /\ Agree(i - 1, j)
    BY <2>4, <2>6
  <2> QED
    BY <1>4, <2>3, <2>6, <2>7
<1>6. ASSUME NEW i \in 0..m, NEW j \in 0..n PROVE Agree(i, j)
  <2>1. i + j \in Nat
    OBVIOUS
  <2>2. i + j \notin T
    BY <1>5
  <2> QED
    BY <2>1, <2>2
<1> QED
  BY <1>6 DEF Agree, Shifted

-----------------------------------------------------------------------------
(* What computeEditScript cuts off, and what is left.                      *)

LEMMA GreatestOf ==
  ASSUME NEW b \in Nat, NEW T, T \subseteq 0..b, T # {}
  PROVE  \E x \in T : \A y \in T : x >= y
<1>1. PICK R : R = {b - x : x \in T}
  OBVIOUS
<1>2. R \subseteq Nat /\ R # {}
  <2>1. \A x \in T : x \in 0..b /\ b - x \in Nat
    OBVIOUS
  <2> QED
    BY <1>1, <2>1
<1>3. PICK r \in R : \A q \in R : r <= q
  BY <1>2, LeastOf
<1>4. PICK x \in T : r = b - x
  BY <1>1
<1>5. ASSUME NEW y \in T PROVE x >= y
  <2>1. b - y \in R
    BY <1>1
  <2>2. r <= b - y
    BY <1>3, <2>1
  <2>3. x \in Int /\ y \in Int
    OBVIOUS
  <2> QED
    BY <1>4, <2>2, <2>3
<1> QED
  BY <1>5

LEMMA MaxOf ==
  ASSUME NEW b \in Nat, NEW T, T \subseteq 0..b, T # {}
  PROVE  Max(T) \in T
<1>1. \E x \in T : \A y \in T : x >= y
  BY GreatestOf
<1> QED
  BY <1>1 DEF Max

LEMMA MinOfTwo ==
  ASSUME NEW a \in Nat, NEW b \in Nat
  PROVE  Min({a, b}) \in Nat /\ Min({a, b}) <= a /\ Min({a, b}) <= b
<1>1. \E x \in {a, b} : \A y \in {a, b} : x <= y
  <2>1. CASE a <= b
    BY <2>1
  <2>2. CASE b <= a
    BY <2>2
  <2> QED
    BY <2>1, <2>2
<1> QED
  BY <1>1 DEF Min

LEMMA PrefixIs ==
  ASSUME NEW old, NEW new, NEW m \in Nat, NEW n \in Nat, m = Len(old), n = Len(new),
         NEW p, p = lengthOfCommonPrefix(old, new)
  PROVE  p \in 0..Min({m, n}) /\ MatchAtStart(old, new, p)
<1> DEFINE T == {q \in 0..Min({m, n}) : MatchAtStart(old, new, q)}
<1>1. p = Max(T)
  BY DEF lengthOfCommonPrefix, MatchAtStart
<1>2. Min({m, n}) \in Nat
  BY MinOfTwo
<1>3. 0 \in T
  BY <1>2 DEF MatchAtStart
<1>4. p \in T
  <2>1. T \subseteq 0..Min({m, n}) /\ T # {}
    BY <1>3
  <2> HIDE DEF T
  <2> QED
    BY <1>1, <1>2, <2>1, MaxOf
<1> QED
  BY <1>4

LEMMA SuffixIs ==
  ASSUME NEW old, NEW new, NEW m \in Nat, NEW n \in Nat, m = Len(old), n = Len(new),
         NEW p \in 0..Min({m, n}), NEW s, s = lengthOfCommonSuffix(old, new, p)
  PROVE  s \in Nat /\ s + p <= m /\ s + p <= n /\ MatchAtEnd(old, new, m, n, s)
<1> DEFINE T == {q \in 0..(Min({m, n}) - p) : MatchAtEnd(old, new, m, n, q)}
<1>1. s = Max(T)
  BY DEF lengthOfCommonSuffix, MatchAtEnd
<1>2. PICK k \in Nat : k = Min({m, n})
  BY MinOfTwo
<1>3. k <= m /\ k <= n
  BY <1>2, MinOfTwo
<1>4. PICK b \in Nat : b = k - p
  BY <1>2
<1>5. T = {q \in 0..b : MatchAtEnd(old, new, m, n, q)}
  BY <1>2, <1>4
<1>6. 0 \in T
  <2>1. 0 \in 0..b /\ \A i : i \notin 0..(0 - 1)
    OBVIOUS
  <2>2. MatchAtEnd(old, new, m, n, 0)
    BY <2>1 DEF MatchAtEnd
  <2> QED
    BY <1>5, <2>1, <2>2
<1>7. s \in T
  <2>1. T \subseteq 0..b /\ T # {}
    BY <1>5, <1>6
  <2> HIDE DEF T
  <2> QED
    BY <1>1, <2>1, MaxOf
<1>8. s \in 0..b /\ MatchAtEnd(old, new, m, n, s)
  BY <1>5, <1>7
<1> QED
  BY <1>2, <1>3, <1>4, <1>8

(* A part of a sequence, without its first p and its last s elements.      *)
Part(s, r, p, n) ==
  /\ Len(r) = n /\ \A i \in 1..n : r[i] = s[i + p]

LEMMA SubsetIs ==
  ASSUME NEW S, NEW list \in Seq(S), NEW n \in Nat, n = Len(list), NEW p \in Nat, NEW s \in Nat,
         s + p <= n, NEW r, r = ItemListSubset(list, p + 1, n - s)
  PROVE  r \in Seq(S) /\ Part(list, r, p, n - s - p)
<1>1. PICK a, b : a = p + 1 /\ b = n - s
  OBVIOUS
<1>2. a \in Int /\ b \in Int /\ a \in 1..(n + 1) /\ b \in 0..n
  BY <1>1
<1>3. \A i \in a..b : list[i] \in S
  <2>1. \A i \in a..b : i \in 1..n
    BY <1>2
  <2> QED
    BY <2>1, ElementOfSeq
<1>4. r = SubSeq(list, a, b)
  BY <1>1 DEF ItemListSubset
<1>5. /\ r \in Seq(S) /\ Len(r) = IF a <= b THEN b - a + 1 ELSE 0
      /\ \A i \in 1..(b - a + 1) : r[i] = list[a + i - 1]
  <2>1. a \in Int /\ b \in Int
    BY <1>2
  <2>2. SubSeq(list, a, b) \in Seq(S)
    BY <1>3, <2>1, SubSeqProperties
  <2>3. Len(SubSeq(list, a, b)) = IF a <= b THEN b - a + 1 ELSE 0
    BY <1>3, <2>1, SubSeqProperties
  <2>4. \A i \in 1..(b - a + 1) : SubSeq(list, a, b)[i] = list[a + i - 1]
    BY <1>3, <2>1, SubSeqProperties
  <2> QED
    BY <1>4, <2>2, <2>3, <2>4
<1>6. PICK k \in Nat : k = n - s - p
  <2>1. n - s - p \in Nat
    OBVIOUS
  <2> QED
    BY <2>1
<1>7. b - a + 1 = k
  BY <1>1, <1>6
<1>8. Len(r) = k
  <2>1. CASE a <= b
    BY <1>5, <1>7, <2>1
  <2>2. CASE ~(a <= b)
    <3>1. k = 0
      BY <1>1, <1>6, <2>2
    <3> QED
      BY <1>5, <2>2, <3>1
  <2> QED
    BY <2>1, <2>2
<1>9. ASSUME NEW i \in 1..k PROVE r[i] = list[i + p]
  <2>1. a + i - 1 = i + p
    BY <1>1
  <2> QED
    BY <1>5, <1>7, <2>1
<1> QED
  BY <1>5, <1>6, <1>8, <1>9 DEF Part

(* The lists m and n long, without p nodes that match at their starts and  *)
(* s at their ends, with the matrices g and the scripts h of the k and l   *)
(* nodes in between.                                                       *)
Cut(old, new, m, n, p, s, k, l, olds, news, g, h) ==
  /\ p \in Nat /\ s \in Nat /\ k \in Nat /\ l \in Nat
  /\ m = p + k + s /\ n = p + l + s
  /\ MatchAtStart(old, new, p) /\ MatchAtEnd(old, new, m, n, s)
  /\ Part(old, olds, p, k) /\ Part(new, news, p, l)
  /\ Matrices(g, olds, news, k, l) /\ Scripts(g, h, k, l)
  /\ computeEditScript(old, new) = [skipCount |-> p, edits |-> h[<<k, l>>]]

LEMMA PartsCompare ==
  ASSUME NEW old, NEW new, NEW m \in Nat, NEW n \in Nat, Comparable(old, new, m, n),
         NEW p \in Nat, NEW k \in Nat, NEW l \in Nat, p + k <= m, p + l <= n,
         NEW olds, NEW news, Part(old, olds, p, k), Part(new, news, p, l)
  PROVE  Middle(old, new, olds, news, p, k, l) /\ Comparable(olds, news, k, l)
<1>1. \A i \in 1..k, j \in 1..l :
        /\ olds[i] = old[i + p] /\ news[j] = new[j + p] /\ i + p \in 1..m /\ j + p \in 1..n
  BY DEF Part
<1> QED
  BY <1>1 DEF Middle, Comparable

LEMMA CutExists ==
  ASSUME NEW S, NEW old \in Seq(S), NEW new \in Seq(S),
         NEW m \in Nat, NEW n \in Nat, m = Len(old), n = Len(new),
         m + n <= MaxValue, Comparable(old, new, m, n)
  PROVE  \E p, s, k, l, olds, news, g, h : Cut(old, new, m, n, p, s, k, l, olds, news, g, h)
<1>1. PICK p : p = lengthOfCommonPrefix(old, new)
  OBVIOUS
<1>2. p \in 0..Min({m, n}) /\ MatchAtStart(old, new, p)
  BY <1>1, PrefixIs
<1>3. PICK s : s = lengthOfCommonSuffix(old, new, p)
  OBVIOUS
<1>4. s \in Nat /\ s + p <= m /\ s + p <= n /\ MatchAtEnd(old, new, m, n, s)
  BY <1>2, <1>3, SuffixIs
<1>5. p \in Nat
  BY <1>2
<1>6. PICK k, l : k = m - s - p /\ l = n - s - p
  OBVIOUS
<1>7. k \in Nat /\ l \in Nat /\ m = p + k + s /\ n = p + l + s /\ p + k <= m /\ p + l <= n
      /\ k + l <= MaxValue
  <2>1. k \in Nat /\ l \in Nat /\ m = p + k + s /\ n = p + l + s
    BY <1>4, <1>5, <1>6
  <2> QED
    BY <1>4, <1>5, <2>1, MaxValueAssumption
<1>8. PICK olds : olds = ItemListSubset(old, p + 1, m - s)
  OBVIOUS
<1>9. PICK news : news = ItemListSubset(new, p + 1, n - s)
  OBVIOUS
<1>10. Part(old, olds, p, k)
  BY <1>4, <1>5, <1>6, <1>8, SubsetIs
<1>11. Part(new, news, p, l)
  BY <1>4, <1>5, <1>6, <1>9, SubsetIs
<1>12. Comparable(olds, news, k, l)
  BY <1>5, <1>7, <1>10, <1>11, PartsCompare
<1>13. Len(olds) = k /\ Len(news) = l
  BY <1>10, <1>11 DEF Part
<1>14. PICK g : g = computeOperations(olds, news)
  OBVIOUS
<1>15. Matrices(g, olds, news, k, l)
  BY <1>7, <1>12, <1>13, <1>14, MatricesAre
<1>16. PICK h : Scripts(g, h, k, l) /\ toEditScript(g, olds, news) = h[<<k, l>>]
  BY <1>7, <1>13, <1>15, ScriptIs
<1>17. computeEditScript(old, new) = [skipCount |-> p, edits |-> h[<<k, l>>]]
  BY <1>1, <1>3, <1>8, <1>9, <1>14, <1>16 DEF computeEditScript
<1>18. Cut(old, new, m, n, p, s, k, l, olds, news, g, h)
  BY <1>2, <1>4, <1>5, <1>7, <1>10, <1>11, <1>15, <1>16, <1>17 DEF Cut
<1> QED
  BY <1>18

(* Matchings of whole lists.                                               *)
LEMMA MatchingsAre ==
  ASSUME NEW S, NEW old \in Seq(S), NEW new \in Seq(S),
         NEW m \in Nat, NEW n \in Nat, m = Len(old), n = Len(new), NEW M
  PROVE  /\ M \in Matchings(old, new) <=> InOrder(M, old, new, m, n)
         /\ InOrder(M, old, new, m, n) => MatchingCost(M, old, new) = CostTo(M, old, new, m, n)
<1>1. DOMAIN old = 1..m
  OBVIOUS
<1>2. M \in Matchings(old, new) <=> InOrder(M, old, new, m, n)
  BY <1>1 DEF Matchings, InOrder
<1>3. ASSUME InOrder(M, old, new, m, n)
      PROVE  MatchingCost(M, old, new) = CostTo(M, old, new, m, n)
  <2>1. \A i \in 1..m : M[i] # 0 <=> M[i] \in 1..n
    BY <1>3 DEF InOrder
  <2>2. {i \in DOMAIN old : M[i] # 0} = Pairs(M, m, n)
    BY <1>1, <2>1 DEF Pairs
  <2> QED
    BY <2>2 DEF MatchingCost, CostTo, Updates
<1> QED
  BY <1>2, <1>3

(* The matrices f say what a cheapest matching costs.                      *)
LEMMA LeastIs ==
  ASSUME NEW S, NEW old \in Seq(S), NEW new \in Seq(S),
         NEW m \in Nat, NEW n \in Nat, m = Len(old), n = Len(new),
         Comparable(old, new, m, n), NEW f, Matrices(f, old, new, m, n)
  PROVE  LeastCost(old, new) = Cost(f, m, n)
<1>1. PICK c : c = Cost(f, m, n)
  OBVIOUS
<1>2. \E M : Attains(M, old, new, m, n, c)
  <2>1. PICK q : Scripts(f, q, m, n)
    BY ScriptIs
  <2> QED
    BY <1>1, <2>1, ScriptsPriced
<1> DEFINE T == {MatchingCost(M, old, new) : M \in Matchings(old, new)}
<1>3. c \in T
  <2>1. PICK M : Attains(M, old, new, m, n, c)
    BY <1>2
  <2>2. InOrder(M, old, new, m, n) /\ CostTo(M, old, new, m, n) = c
    BY <2>1 DEF Attains
  <2>3. M \in Matchings(old, new) /\ MatchingCost(M, old, new) = c
    BY <2>2, MatchingsAre
  <2> QED
    BY <2>3
<1>4. ASSUME NEW d \in T PROVE c <= d
  <2>1. PICK M \in Matchings(old, new) : d = MatchingCost(M, old, new)
    OBVIOUS
  <2>2. InOrder(M, old, new, m, n) /\ MatchingCost(M, old, new) = CostTo(M, old, new, m, n)
    BY MatchingsAre
  <2>3. InOrder(M, old, new, m, n)
    BY <2>2
  <2>4. Cost(f, m, n) <= CostTo(M, old, new, m, n)
    BY <2>3, NoneCheaper
  <2> QED
    BY <1>1, <2>1, <2>2, <2>4
<1>5. \A d \in T : d \in Int
  <2> SUFFICES ASSUME NEW d \in T PROVE d \in Int
    OBVIOUS
  <2>1. PICK M \in Matchings(old, new) : d = MatchingCost(M, old, new)
    OBVIOUS
  <2>2. d = CostTo(M, old, new, m, n)
    BY <2>1, MatchingsAre
  <2>3. PICK a, b : a = Cardinality(Pairs(M, m, n)) /\ b = Cardinality(Updates(M, old, new, m, n))
    OBVIOUS
  <2>4. a \in Nat /\ b \in Nat
    BY <2>3, PairsCounted
  <2> QED
    BY <2>2, <2>3, <2>4 DEF CostTo
<1>6. LeastCost(old, new) = Min(T)
  BY DEF LeastCost
<1>7. Min(T) = c
  <2> HIDE DEF T
  <2>1. \A d \in T : d <= c /\ c <= d => d = c
    BY <1>3, <1>5
  <2>2. Min(T) \in T /\ \A d \in T : Min(T) <= d
    BY <1>3, <1>4 DEF Min
  <2> QED
    BY <1>3, <1>4, <2>1, <2>2
<1> QED
  BY <1>1, <1>6, <1>7

(* The matrices f of whole lists and g of the middles.                     *)
LEMMA CutShifted ==
  ASSUME NEW old, NEW new, NEW m \in Nat, NEW n \in Nat, Comparable(old, new, m, n),
         NEW f, Matrices(f, old, new, m, n), NEW p, NEW s, NEW k, NEW l, NEW olds, NEW news,
         NEW g, NEW h, Cut(old, new, m, n, p, s, k, l, olds, news, g, h)
  PROVE  /\ Middle(old, new, olds, news, p, k, l) /\ Shifted(f, g, p, k, l)
         /\ Cost(f, m, n) = Cost(f, k + p, l + p) /\ Cost(g, k, l) = Cost(f, m, n)
<1>1. /\ p \in Nat /\ s \in Nat /\ k \in Nat /\ l \in Nat
      /\ m = p + k + s /\ n = p + l + s
      /\ MatchAtStart(old, new, p) /\ MatchAtEnd(old, new, m, n, s)
      /\ Part(old, olds, p, k) /\ Part(new, news, p, l) /\ Matrices(g, olds, news, k, l)
  BY DEF Cut
<1>2. p + k <= m /\ p + l <= n /\ k + p <= m /\ l + p <= n /\ s <= m /\ s <= n
      /\ k + p = m - s /\ l + p = n - s
  BY <1>1
<1>3. Middle(old, new, olds, news, p, k, l)
  BY <1>1, <1>2, PartsCompare
<1>4. Shifted(f, g, p, k, l)
  BY <1>1, <1>2, <1>3, MiddleCosts
<1>5. k \in 0..k /\ l \in 0..l
  BY <1>1
<1>6. Cost(g, k, l) = Cost(f, k + p, l + p)
  BY <1>4, <1>5 DEF Shifted
<1>7. Cost(f, m, n) = Cost(f, m - s, n - s)
  BY <1>1, <1>2, EndIsFree
<1> QED
  BY <1>2, <1>3, <1>4, <1>6, <1>7

(* The script for any two lists is one of the cheapest.                    *)
LEMMA CheapestScript ==
  ASSUME NEW S, NEW old \in Seq(S), NEW new \in Seq(S),
         NEW m \in Nat, NEW n \in Nat, m = Len(old), n = Len(new),
         m + n <= MaxValue, Comparable(old, new, m, n)
  PROVE  ScriptCost(computeEditScript(old, new).edits) = LeastCost(old, new)
<1>1. PICK f : f = computeOperations(old, new)
  OBVIOUS
<1>2. Matrices(f, old, new, m, n)
  BY <1>1, MatricesAre
<1>3. PICK p, s, k, l, olds, news, g, h : Cut(old, new, m, n, p, s, k, l, olds, news, g, h)
  BY CutExists
<1>4. k \in Nat /\ l \in Nat /\ Matrices(g, olds, news, k, l) /\ Scripts(g, h, k, l)
  BY <1>3 DEF Cut
<1>5. computeEditScript(old, new).edits = h[<<k, l>>]
  BY <1>3 DEF Cut
<1>6. Cost(g, k, l) = Cost(f, m, n)
  <2>1. /\ Middle(old, new, olds, news, p, k, l) /\ Shifted(f, g, p, k, l)
        /\ Cost(f, m, n) = Cost(f, k + p, l + p) /\ Cost(g, k, l) = Cost(f, m, n)
    BY <1>2, <1>3, CutShifted
  <2> QED
    BY <2>1
<1>7. Priced(h[<<k, l>>], Cost(g, k, l))
  BY <1>4, ScriptsPriced
<1>8. ScriptCost(computeEditScript(old, new).edits) = Cost(f, m, n)
  BY <1>5, <1>6, <1>7 DEF Priced
<1> QED
  BY <1>2, <1>8, LeastIs

-----------------------------------------------------------------------------
(* The walk along a script e.                                              *)

Walks(w, start, e, n, sync) ==
  w[0] = start /\ \A k \in 1..n : w[k] = ApplyEdit(w[k - 1], e[k], sync)

LEMMA WalkExists ==
  ASSUME NEW start, NEW e, NEW sync, NEW n \in Nat
  PROVE  \E w : w = [k \in 0..n |-> w[k]] /\ Walks(w, start, e, n, sync)
<1> DEFINE Exists(k) == \E w : w = [q \in 0..k |-> w[q]] /\ Walks(w, start, e, k, sync)
<1>1. Exists(0)
  <2>1. PICK w : w = [q \in 0..0 |-> start]
    OBVIOUS
  <2>2. w = [q \in 0..0 |-> w[q]] /\ w[0] = start /\ \A k : k \notin 1..0
    BY <2>1
  <2>3. Walks(w, start, e, 0, sync)
    BY <2>2 DEF Walks
  <2> QED
    BY <2>2, <2>3
<1>2. ASSUME NEW k \in Nat, Exists(k) PROVE Exists(k + 1)
  <2>1. PICK w : w = [q \in 0..k |-> w[q]] /\ Walks(w, start, e, k, sync)
    BY <1>2
  <2>2. PICK x : x = ApplyEdit(w[k], e[k + 1], sync)
    OBVIOUS
  <2>3. PICK v : v = [q \in 0..(k + 1) |-> IF q = k + 1 THEN x ELSE w[q]]
    OBVIOUS
  <2>4. v = [q \in 0..(k + 1) |-> v[q]]
    BY <2>3
  <2>5. v[k + 1] = x /\ \A q \in 0..k : v[q] = w[q]
    BY <2>3
  <2>6. v[0] = start
    BY <2>1, <2>5 DEF Walks
  <2>7. ASSUME NEW q \in 1..(k + 1) PROVE v[q] = ApplyEdit(v[q - 1], e[q], sync)
    <3>1. CASE q = k + 1
      <4>1. q - 1 = k /\ k \in 0..k
        BY <3>1
      <4> QED
        BY <2>2, <2>5, <3>1, <4>1
    <3>2. CASE q # k + 1
      <4>1. q \in 1..k /\ q \in 0..k /\ q - 1 \in 0..k
        BY <3>2
      <4>2. w[q] = ApplyEdit(w[q - 1], e[q], sync)
        BY <2>1, <4>1 DEF Walks
      <4> QED
        BY <2>5, <4>1, <4>2
    <3> QED
      BY <3>1, <3>2
  <2>8. Walks(v, start, e, k + 1, sync)
    BY <2>6, <2>7 DEF Walks
  <2> QED
    BY <2>4, <2>8
<1> HIDE DEF Exists
<1> DEFINE T == {k \in Nat : ~Exists(k)}
<1>3. T = {}
  <2>1. SUFFICES ASSUME T # {} PROVE FALSE
    BY <2>1
  <2>2. PICK x \in T : \A y \in T : x <= y
    BY <2>1, LeastOf
  <2>3. x \in Nat /\ x # 0
    BY <1>1, <2>2
  <2>4. PICK k \in Nat : k + 1 = x
    <3>1. x - 1 \in Nat /\ (x - 1) + 1 = x
      BY <2>3
    <3> QED
      BY <3>1
  <2>5. k \notin T
    BY <2>2, <2>4
  <2> QED
    BY <1>2, <2>2, <2>4, <2>5
<1> QED
  BY <1>3 DEF Exists

(* What a node of the merged list may be: the new one, or an old one that  *)
(* it matched.                                                             *)
Origins(old, m, b, sync) ==
  {b} \cup {treatAsMatch(old[q], b, sync) : q \in {q \in 1..m : UpdateCost(old[q], b) = "none"}}
    \cup {treatAsSubstitution(old[q], b) : q \in {q \in 1..m : UpdateCost(old[q], b) = "some"}}

(* A set that holds them for every new node.                               *)
Accepts(T, old, new, m, n, sync) ==
  \A q \in 1..n : Origins(old, m, new[q], sync) \subseteq T

(* x is what a merge that matches the first i old nodes as M does makes of *)
(* the new node q.                                                         *)
Origin(x, M, i, old, new, q, sync) ==
  \/ x = new[q] /\ \A h \in 1..i : M[h] # q
  \/ \E h \in 1..i : M[h] = q /\ UpdateCost(old[h], new[q]) = "none"
                     /\ x = treatAsMatch(old[h], new[q], sync)
  \/ \E h \in 1..i : M[h] = q /\ UpdateCost(old[h], new[q]) = "some"
                     /\ x = treatAsSubstitution(old[h], new[q])

LEMMA OriginIn ==
  ASSUME NEW old, NEW new, NEW m \in Nat, NEW i \in 0..m, NEW M, NEW q, NEW sync, NEW x,
         Origin(x, M, i, old, new, q, sync)
  PROVE  x \in Origins(old, m, new[q], sync)
<1>1. \A h \in 1..i : h \in 1..m
  OBVIOUS
<1> QED
  BY <1>1 DEF Origin, Origins

(* More old nodes, none of them matched with q.                            *)
LEMMA OriginKept ==
  ASSUME NEW old, NEW new, NEW k \in Nat, NEW i \in Nat, k <= i, NEW M, NEW N,
         \A h \in 1..k : N[h] = M[h], NEW q, \A h \in 1..i : h \in 1..k \/ N[h] # q,
         NEW sync, NEW x, Origin(x, M, k, old, new, q, sync)
  PROVE  Origin(x, N, i, old, new, q, sync)
<1>1. \A h \in 1..k : h \in 1..i
  OBVIOUS
<1>2. CASE x = new[q] /\ \A h \in 1..k : M[h] # q
  BY <1>2 DEF Origin
<1>3. CASE \E h \in 1..k : M[h] = q /\ UpdateCost(old[h], new[q]) = "none"
                           /\ x = treatAsMatch(old[h], new[q], sync)
  BY <1>1, <1>3 DEF Origin
<1>4. CASE \E h \in 1..k : M[h] = q /\ UpdateCost(old[h], new[q]) = "some"
                           /\ x = treatAsSubstitution(old[h], new[q])
  BY <1>1, <1>4 DEF Origin
<1> QED
  BY <1>2, <1>3, <1>4 DEF Origin

(* The walkers, after the first i old and the first j new nodes.           *)
WalkersAt(w, M, old, new, m, n, i, j, S, T, sync) ==
  /\ w \in [to : Seq(S), from : Seq(S), passed : Seq(T)]
  /\ Part(old, w.to, i, m - i) /\ Part(new, w.from, j, n - j)
  /\ Len(w.passed) = j /\ \A q \in 1..j : Origin(w.passed[q], M, i, old, new, q, sync)

(* A passed node.                                                          *)
LEMMA PassedOn ==
  ASSUME NEW old, NEW new, NEW M, NEW i, NEW j \in Nat, NEW T, NEW sync,
         NEW s \in Seq(T), Len(s) = j, \A q \in 1..j : Origin(s[q], M, i, old, new, q, sync),
         NEW x \in T, Origin(x, M, i, old, new, j + 1, sync), NEW r, r = Append(s, x)
  PROVE  /\ r \in Seq(T) /\ Len(r) = j + 1
         /\ \A q \in 1..(j + 1) : Origin(r[q], M, i, old, new, q, sync)
<1>1. /\ r \in Seq(T) /\ Len(r) = j + 1 /\ r[j + 1] = x
      /\ \A q \in 1..j : r[q] = s[q]
  BY AppendFacts
<1>2. ASSUME NEW q \in 1..(j + 1) PROVE Origin(r[q], M, i, old, new, q, sync)
  <2>1. CASE q = j + 1
    BY <1>1, <2>1
  <2>2. CASE q \in 1..j
    BY <1>1, <2>2
  <2> QED
    BY <2>1, <2>2
<1> QED
  BY <1>1, <1>2

(* A walker that advances.                                                 *)
LEMMA AdvancedTo ==
  ASSUME NEW S, NEW list, NEW n \in Nat, NEW i \in 0..(n - 1), NEW s \in Seq(S),
         Part(list, s, i, n - i), NEW r, r = advance(s)
  PROVE  r \in Seq(S) /\ Part(list, r, i + 1, n - (i + 1)) /\ Head(s) = list[i + 1] /\ Head(s) \in S
<1>1. PICK k \in Nat : k = n - (i + 1)
  <2>1. n - (i + 1) \in Nat
    OBVIOUS
  <2> QED
    BY <2>1
<1>2. Len(s) = k + 1 /\ \A q \in 1..(k + 1) : s[q] = list[q + i]
  <2>1. n - i = k + 1
    BY <1>1
  <2> QED
    BY <2>1 DEF Part
<1>3. s # <<>>
  BY <1>1, <1>2
<1>4. /\ r \in Seq(S) /\ Len(r) = Len(s) - 1
      /\ \A q \in 1..Len(r) : r[q] = s[q + 1]
      /\ Head(s) = s[1] /\ Head(s) \in S
  BY <1>3, TailFacts DEF advance
<1>5. Len(r) = k
  BY <1>1, <1>2, <1>4
<1>6. ASSUME NEW q \in 1..k PROVE r[q] = list[q + (i + 1)]
  <2>1. q + 1 \in 1..(k + 1) /\ (q + 1) + i = q + (i + 1)
    BY <1>1
  <2> QED
    BY <1>2, <1>4, <1>5, <2>1
<1>7. s[1] = list[i + 1]
  <2>1. 1 \in 1..(k + 1) /\ 1 + i = i + 1
    BY <1>1
  <2> QED
    BY <1>2, <2>1
<1> QED
  BY <1>1, <1>4, <1>5, <1>6, <1>7 DEF Part

(* An operation takes the walkers from k and l to i and j.                 *)
Leads(old, new, op, i, j, k, l) ==
  \/ op = "keep" /\ i = k + 1 /\ j = l + 1 /\ UpdateCost(old[i], new[j]) = "none"
  \/ op = "update" /\ i = k + 1 /\ j = l + 1 /\ UpdateCost(old[i], new[j]) = "some"
  \/ op = "insert" /\ i = k /\ j = l + 1
  \/ op = "delete" /\ i = k + 1 /\ j = l

LEMMA EditApplied ==
  ASSUME NEW S, NEW T, NEW sync, NEW old, NEW new, NEW m \in Nat, NEW n \in Nat,
         Accepts(T, old, new, m, n, sync),
         NEW i \in 0..m, NEW j \in 0..n, NEW k \in 0..m, NEW l \in 0..n, NEW op,
         Leads(old, new, op, i, j, k, l), NEW M \in [1..k -> 0..l], NEW N,
         Onward(N, M, op, i, j, k), NEW w, WalkersAt(w, M, old, new, m, n, k, l, S, T, sync),
         NEW v, v = ApplyEdit(w, op, sync)
  PROVE  WalkersAt(v, N, old, new, m, n, i, j, S, T, sync)
<1>1. /\ w \in [to : Seq(S), from : Seq(S), passed : Seq(T)]
      /\ Part(old, w.to, k, m - k) /\ Part(new, w.from, l, n - l)
      /\ Len(w.passed) = l /\ \A q \in 1..l : Origin(w.passed[q], M, k, old, new, q, sync)
  BY DEF WalkersAt
<1>2. w.to \in Seq(S) /\ w.from \in Seq(S) /\ w.passed \in Seq(T)
  BY <1>1
<1>3. PICK a, b, c : a = advance(w.to) /\ b = advance(w.from) /\ c = w.passed
  OBVIOUS
<1>4. PICK x, y : x = Head(w.to) /\ y = Head(w.from)
  OBVIOUS
<1>5. ASSUME i = k + 1
      PROVE  a \in Seq(S) /\ Part(old, a, i, m - i) /\ x = old[i]
  <2>1. k \in 0..(m - 1)
    BY <1>5
  <2>2. PICK t \in Seq(S) : t = w.to
    BY <1>2
  <2>3. Part(old, t, k, m - k) /\ a = advance(t) /\ x = Head(t)
    BY <1>1, <1>3, <1>4, <2>2
  <2>4. a \in Seq(S) /\ Part(old, a, k + 1, m - (k + 1)) /\ Head(t) = old[k + 1]
    BY <2>1, <2>3, AdvancedTo
  <2> QED
    BY <1>5, <2>3, <2>4
<1>6. ASSUME j = l + 1
      PROVE  b \in Seq(S) /\ Part(new, b, j, n - j) /\ y = new[j] /\ l \in 0..(n - 1)
  <2>1. l \in 0..(n - 1)
    BY <1>6
  <2>2. PICK t \in Seq(S) : t = w.from
    BY <1>2
  <2>3. Part(new, t, l, n - l) /\ b = advance(t) /\ y = Head(t)
    BY <1>1, <1>3, <1>4, <2>2
  <2>4. b \in Seq(S) /\ Part(new, b, l + 1, n - (l + 1)) /\ Head(t) = new[l + 1]
    BY <2>1, <2>3, AdvancedTo
  <2> QED
    BY <1>6, <2>1, <2>3, <2>4
<1>7. /\ i \in Nat /\ k \in Nat /\ l \in Nat /\ k <= i
      /\ \A h \in 1..k : h \in 1..i /\ N[h] = M[h] /\ M[h] \in 0..l
      /\ \A h \in 1..i : h \in 1..k \/ N[h] = 0 \/ (N[h] = j /\ op # "delete")
  <2>1. i = k \/ i = k + 1
    BY DEF Leads
  <2>2. i \in Nat /\ k \in Nat /\ l \in Nat /\ k <= i /\ \A h \in 1..k : h \in 1..i
    BY <2>1
  <2> QED
    BY <2>2 DEF Onward
<1>8. \A q \in 1..l : Origin(c[q], N, i, old, new, q, sync)
  <2> SUFFICES ASSUME NEW q \in 1..l PROVE Origin(c[q], N, i, old, new, q, sync)
    OBVIOUS
  <2>1. j # q \/ op = "delete"
    BY DEF Leads
  <2>2. q # 0
    OBVIOUS
  <2>3. \A h \in 1..i : h \in 1..k \/ N[h] # q
    BY <1>7, <2>1, <2>2
  <2>4. Origin(c[q], M, k, old, new, q, sync)
    BY <1>1, <1>3
  <2>5. \A h \in 1..k : N[h] = M[h]
    BY <1>7
  <2> QED
    BY <1>7, <2>3, <2>4, <2>5, OriginKept
<1>9. ASSUME j = l + 1, NEW z, Origin(z, N, i, old, new, j, sync), NEW r, r = Append(c, z)
       PROVE  r \in Seq(T) /\ Len(r) = j /\ \A q \in 1..j : Origin(r[q], N, i, old, new, q, sync)
  <2>1. z \in T
    <3>1. j \in 1..n
      BY <1>9
    <3>2. z \in Origins(old, m, new[j], sync)
      BY <1>9, OriginIn
    <3> QED
      BY <3>1, <3>2 DEF Accepts
  <2>2. l \in Nat /\ c \in Seq(T) /\ Len(c) = l
    BY <1>1, <1>2, <1>3, <1>7
  <2>3. Origin(z, N, i, old, new, l + 1, sync)
    BY <1>9
  <2>4. /\ r \in Seq(T) /\ Len(r) = l + 1
        /\ \A q \in 1..(l + 1) : Origin(r[q], N, i, old, new, q, sync)
    BY <1>8, <1>9, <2>1, <2>2, <2>3, PassedOn
  <2> QED
    BY <1>9, <2>4
<1>10. ASSUME i = k + 1, j = l + 1, NEW z, Origin(z, N, i, old, new, j, sync),
              v = [to |-> a, from |-> b, passed |-> Append(c, z)]
       PROVE  WalkersAt(v, N, old, new, m, n, i, j, S, T, sync)
  <2>1. PICK r : r = Append(c, z)
    OBVIOUS
  <2>2. r \in Seq(T) /\ Len(r) = j /\ \A q \in 1..j : Origin(r[q], N, i, old, new, q, sync)
    BY <1>9, <1>10, <2>1
  <2>3. v = [to |-> a, from |-> b, passed |-> r]
    BY <1>10, <2>1
  <2>4. v.to = a /\ v.from = b /\ v.passed = r
    BY <2>3
  <2>5. v \in [to : Seq(S), from : Seq(S), passed : Seq(T)]
    <3>1. a \in Seq(S) /\ b \in Seq(S) /\ r \in Seq(T)
      BY <1>5, <1>6, <1>10, <2>2
    <3> QED
      BY <2>3, <3>1
  <2> QED
    BY <1>5, <1>6, <1>10, <2>2, <2>4, <2>5 DEF WalkersAt
<1>11. CASE op = "keep"
  <2>1. i = k + 1 /\ j = l + 1 /\ UpdateCost(old[i], new[j]) = "none"
    BY <1>11 DEF Leads
  <2>2. PICK z : z = treatAsMatch(x, y, sync)
    OBVIOUS
  <2>3. Origin(z, N, i, old, new, j, sync)
    <3>1. i \in 1..i /\ i \notin 1..k
      BY <1>7, <2>1
    <3>2. z = treatAsMatch(old[i], new[j], sync)
      BY <1>5, <1>6, <2>1, <2>2
    <3>3. N[i] = j
      BY <1>11, <3>1 DEF Onward
    <3> QED
      BY <2>1, <3>1, <3>2, <3>3 DEF Origin
  <2>4. v = [to |-> a, from |-> b, passed |-> Append(c, z)]
    BY <1>3, <1>4, <1>11, <2>2 DEF ApplyEdit
  <2> QED
    BY <1>10, <2>1, <2>3, <2>4
<1>12. CASE op = "update"
  <2>1. i = k + 1 /\ j = l + 1 /\ UpdateCost(old[i], new[j]) = "some"
    BY <1>12 DEF Leads
  <2>2. PICK z : z = treatAsSubstitution(x, y)
    OBVIOUS
  <2>3. Origin(z, N, i, old, new, j, sync)
    <3>1. i \in 1..i /\ i \notin 1..k
      BY <1>7, <2>1
    <3>2. z = treatAsSubstitution(old[i], new[j])
      BY <1>5, <1>6, <2>1, <2>2
    <3>3. N[i] = j
      BY <1>12, <3>1 DEF Onward
    <3> QED
      BY <2>1, <3>1, <3>2, <3>3 DEF Origin
  <2>4. v = [to |-> a, from |-> b, passed |-> Append(c, z)]
    BY <1>3, <1>4, <1>12, <2>2 DEF ApplyEdit
  <2> QED
    BY <1>10, <2>1, <2>3, <2>4
<1>13. CASE op = "insert"
  <2>1. i = k /\ j = l + 1
    BY <1>13 DEF Leads
  <2>2. Origin(y, N, i, old, new, j, sync)
    <3>1. \A h \in 1..i : N[h] \in 0..l
      BY <1>7, <2>1
    <3>2. \A h \in 1..i : N[h] # j
      BY <2>1, <3>1
    <3> QED
      BY <1>6, <2>1, <3>2 DEF Origin
  <2>3. PICK r : r = Append(c, y)
    OBVIOUS
  <2>4. r \in Seq(T) /\ Len(r) = j /\ \A q \in 1..j : Origin(r[q], N, i, old, new, q, sync)
    BY <1>9, <2>1, <2>2, <2>3
  <2>5. v = [treatAsInsertion(w, y) EXCEPT !.from = advance(@)]
    BY <1>4, <1>13 DEF ApplyEdit
  <2>6. PICK u : u = treatAsInsertion(w, y)
    OBVIOUS
  <2>7. u = [w EXCEPT !.passed = Append(w.passed, y)]
    BY <2>6 DEF treatAsInsertion
  <2>8. u = [w EXCEPT !.passed = r]
    BY <1>3, <2>3, <2>7
  <2>9. u = [to |-> w.to, from |-> w.from, passed |-> r]
    BY <1>1, <2>8
  <2>10. v = [u EXCEPT !.from = advance(u.from)]
    BY <2>5, <2>6
  <2>11. v = [to |-> w.to, from |-> b, passed |-> r]
    BY <1>3, <2>9, <2>10
  <2>12. v.to = w.to /\ v.from = b /\ v.passed = r
    BY <2>11
  <2>13. v \in [to : Seq(S), from : Seq(S), passed : Seq(T)]
    BY <1>2, <1>6, <2>1, <2>4, <2>11
  <2> QED
    BY <1>1, <1>6, <2>1, <2>4, <2>12, <2>13 DEF WalkersAt
<1>14. CASE op = "delete"
  <2>1. i = k + 1 /\ j = l
    BY <1>14 DEF Leads
  <2>2. v = [w EXCEPT !.to = advance(w.to)]
    BY <1>14 DEF ApplyEdit, treatAsDeletion
  <2>3. v = [to |-> a, from |-> w.from, passed |-> w.passed]
    BY <1>1, <1>3, <2>2
  <2>4. v.to = a /\ v.from = w.from /\ v.passed = w.passed
    BY <2>3
  <2>5. v \in [to : Seq(S), from : Seq(S), passed : Seq(T)]
    BY <1>2, <1>5, <2>1, <2>3
  <2>6. Len(c) = j /\ \A q \in 1..j : Origin(c[q], N, i, old, new, q, sync)
    BY <1>1, <1>3, <1>8, <2>1
  <2> QED
    BY <1>1, <1>3, <1>5, <2>1, <2>4, <2>5, <2>6 DEF WalkersAt
<1> QED
  BY <1>11, <1>12, <1>13, <1>14 DEF Leads

(* A turn in the matrices leads on in the whole lists.                     *)
LEMMA TurnLeads ==
  ASSUME NEW old, NEW new, NEW olds, NEW news, NEW p \in Nat, NEW k \in Nat, NEW l \in Nat,
         Middle(old, new, olds, news, p, k, l), NEW g, NEW op,
         NEW i \in 0..k, NEW j \in 0..l, NEW a \in 0..k, NEW b \in 0..l,
         Turn(g, olds, news, i, j, op, a, b)
  PROVE  Leads(old, new, op, i + p, j + p, a + p, b + p) /\ op \in Operations
<1>1. ASSUME i > 0, j > 0 PROVE UpdateCost(olds[i], news[j]) = UpdateCost(old[i + p], new[j + p])
  <2>1. i \in 1..k /\ j \in 1..l
    BY <1>1
  <2> QED
    BY <2>1 DEF Middle
<1>2. a = i - 1 => i + p = (a + p) + 1
  OBVIOUS
<1>3. b = j - 1 => j + p = (b + p) + 1
  OBVIOUS
<1>4. CASE op = "keep"
  <2>1. i > 0 /\ j > 0 /\ a = i - 1 /\ b = j - 1 /\ UpdateCost(olds[i], news[j]) = "none"
    BY <1>4 DEF Turn
  <2> QED
    BY <1>1, <1>2, <1>3, <1>4, <2>1 DEF Leads, Operations
<1>5. CASE op = "update"
  <2>1. i > 0 /\ j > 0 /\ a = i - 1 /\ b = j - 1 /\ UpdateCost(olds[i], news[j]) = "some"
    BY <1>5 DEF Turn
  <2> QED
    BY <1>1, <1>2, <1>3, <1>5, <2>1 DEF Leads, Operations
<1>6. CASE op = "insert"
  <2>1. a = i /\ b = j - 1
    BY <1>6 DEF Turn
  <2> QED
    BY <1>3, <1>6, <2>1 DEF Leads, Operations
<1>7. CASE op = "delete"
  <2>1. a = i - 1 /\ b = j
    BY <1>7 DEF Turn
  <2> QED
    BY <1>2, <1>7, <2>1 DEF Leads, Operations
<1> QED
  BY <1>4, <1>5, <1>6, <1>7 DEF Turn

(* It is a turn in the matrices f of the whole lists, too.                 *)
LEMMA TurnShifts ==
  ASSUME NEW old, NEW new, NEW olds, NEW news, NEW p \in Nat, NEW k \in Nat, NEW l \in Nat,
         Middle(old, new, olds, news, p, k, l), NEW f, NEW g, Shifted(f, g, p, k, l), NEW op,
         NEW i \in 0..k, NEW j \in 0..l, NEW a \in 0..k, NEW b \in 0..l,
         Turn(g, olds, news, i, j, op, a, b)
  PROVE  Turn(f, old, new, i + p, j + p, op, a + p, b + p)
<1>1. ASSUME i > 0, j > 0 PROVE UpdateCost(olds[i], news[j]) = UpdateCost(old[i + p], new[j + p])
  <2>1. i \in 1..k /\ j \in 1..l
    BY <1>1
  <2> QED
    BY <2>1 DEF Middle
<1>2. Cost(g, i, j) = Cost(f, i + p, j + p) /\ Cost(g, a, b) = Cost(f, a + p, b + p)
  BY DEF Shifted
<1>3. /\ i > 0 => i + p > 0
      /\ j > 0 => j + p > 0
      /\ a = i - 1 => a + p = (i + p) - 1
      /\ b = j - 1 => b + p = (j + p) - 1
  OBVIOUS
<1>4. CASE op = "keep"
  <2>1. /\ i > 0 /\ j > 0 /\ a = i - 1 /\ b = j - 1
        /\ UpdateCost(olds[i], news[j]) = "none" /\ Cost(g, i, j) = Cost(g, a, b)
    BY <1>4 DEF Turn
  <2> QED
    BY <1>1, <1>2, <1>3, <1>4, <2>1 DEF Turn
<1>5. CASE op = "update"
  <2>1. /\ i > 0 /\ j > 0 /\ a = i - 1 /\ b = j - 1
        /\ UpdateCost(olds[i], news[j]) = "some" /\ Cost(g, i, j) = Cost(g, a, b) + 1
    BY <1>5 DEF Turn
  <2> QED
    BY <1>1, <1>2, <1>3, <1>5, <2>1 DEF Turn
<1>6. CASE op = "insert"
  <2>1. j > 0 /\ a = i /\ b = j - 1 /\ Cost(g, i, j) = Cost(g, a, b) + 1
    BY <1>6 DEF Turn
  <2> QED
    BY <1>2, <1>3, <1>6, <2>1 DEF Turn
<1>7. CASE op = "delete"
  <2>1. i > 0 /\ a = i - 1 /\ b = j /\ Cost(g, i, j) = Cost(g, a, b) + 1
    BY <1>7 DEF Turn
  <2> QED
    BY <1>2, <1>3, <1>7, <2>1 DEF Turn
<1> QED
  BY <1>4, <1>5, <1>6, <1>7 DEF Turn

LEMMA PlusIn ==
  ASSUME NEW p \in Nat, NEW k \in Nat, NEW s \in Nat, NEW i \in 0..k
  PROVE  i + p \in 0..(p + k + s)
OBVIOUS

(* The walkers are where they are after a cheapest matching M so far.      *)
Cheaply(w, M, f, old, new, m, n, i, j, S, T, sync) ==
  /\ Attains(M, old, new, i, j, Cost(f, i, j))
  /\ WalkersAt(w, M, old, new, m, n, i, j, S, T, sync)

LEMMA WalkersArrive ==
  ASSUME NEW S, NEW T, NEW sync, NEW old, NEW new, NEW m \in Nat, NEW n \in Nat,
         Accepts(T, old, new, m, n, sync),
         Comparable(old, new, m, n), NEW f, Matrices(f, old, new, m, n),
         NEW p, NEW s, NEW k, NEW l, NEW olds, NEW news, NEW g, NEW h,
         Cut(old, new, m, n, p, s, k, l, olds, news, g, h),
         NEW start, NEW M, Cheaply(start, M, f, old, new, m, n, p, p, S, T, sync),
         NEW w, Walks(w, start, h[<<k, l>>], Len(h[<<k, l>>]), sync)
  PROVE  \E N : Cheaply(w[Len(h[<<k, l>>])], N, f, old, new, m, n, k + p, l + p, S, T, sync)
<1>1. /\ p \in Nat /\ s \in Nat /\ k \in Nat /\ l \in Nat
      /\ m = p + k + s /\ n = p + l + s
      /\ Matrices(g, olds, news, k, l) /\ Scripts(g, h, k, l)
  BY DEF Cut
<1>2. Middle(old, new, olds, news, p, k, l) /\ Shifted(f, g, p, k, l)
  BY CutShifted
<1> DEFINE At(x, i, j) == \E N : Cheaply(x, N, f, old, new, m, n, i + p, j + p, S, T, sync)
           Arrives(i, j) ==
      /\ h[<<i, j>>] \in Seq(Operations)
      /\ \A v : Walks(v, start, h[<<i, j>>], Len(h[<<i, j>>]), sync)
                  => At(v[Len(h[<<i, j>>])], i, j)
<1>3. ASSUME NEW i \in 0..k, NEW j \in 0..l, NEW a \in 0..k, NEW b \in 0..l, NEW op,
             Turn(g, olds, news, i, j, op, a, b), NEW x, At(x, a, b), NEW y, y = ApplyEdit(x, op, sync)
      PROVE  At(y, i, j)
  <2>1. PICK N : Cheaply(x, N, f, old, new, m, n, a + p, b + p, S, T, sync)
    BY <1>3
  <2>2. i + p \in 0..m /\ j + p \in 0..n /\ a + p \in 0..m /\ b + p \in 0..n
    <3>1. p \in Nat /\ s \in Nat /\ k \in Nat /\ l \in Nat
      BY <1>1
    <3>2. m = p + k + s /\ n = p + l + s
      BY <1>1
    <3>3. i + p \in 0..(p + k + s) /\ a + p \in 0..(p + k + s)
      BY <3>1, PlusIn
    <3>4. j + p \in 0..(p + l + s) /\ b + p \in 0..(p + l + s)
      BY <3>1, PlusIn
    <3> QED
      BY <3>2, <3>3, <3>4
  <2>3. Leads(old, new, op, i + p, j + p, a + p, b + p)
    BY <1>1, <1>2, <1>3, TurnLeads
  <2>4. Turn(f, old, new, i + p, j + p, op, a + p, b + p)
    BY <1>1, <1>2, <1>3, TurnShifts
  <2>5. Attains(N, old, new, a + p, b + p, Cost(f, a + p, b + p))
    BY <2>1 DEF Cheaply
  <2>6. PICK O : /\ Attains(O, old, new, i + p, j + p, Cost(f, i + p, j + p))
                 /\ Onward(O, N, op, i + p, j + p, a + p)
    BY <2>2, <2>4, <2>5, MatchedOnward
  <2>7. N \in [1..(a + p) -> 0..(b + p)]
    BY <2>5 DEF Attains, InOrder
  <2>8. WalkersAt(x, N, old, new, m, n, a + p, b + p, S, T, sync)
    BY <2>1 DEF Cheaply
  <2>9. WalkersAt(y, O, old, new, m, n, i + p, j + p, S, T, sync)
    BY <1>3, <2>2, <2>3, <2>6, <2>7, <2>8, EditApplied
  <2>10. Cheaply(y, O, f, old, new, m, n, i + p, j + p, S, T, sync)
    BY <2>6, <2>9 DEF Cheaply
  <2> QED
    BY <2>10
<1>4. At(start, 0, 0)
  <2>1. 0 + p = p
    BY <1>1
  <2> QED
    BY <2>1
<1> HIDE DEF At
<1>5. Arrives(0, 0)
  <2>1. 0 \in 0..k /\ 0 \in 0..l
    BY <1>1
  <2>2. h[<<0, 0>>] = <<>>
    BY <1>1, <2>1 DEF Scripts, ScriptAt
  <2>3. <<>> \in Seq(Operations) /\ Len(<<>>) = 0
    OBVIOUS
  <2>4. \A v : Walks(v, start, <<>>, 0, sync) => v[0] = start
    BY DEF Walks
  <2> QED
    BY <1>4, <2>2, <2>3, <2>4
<1>6. ASSUME NEW i \in 0..k, NEW j \in 0..l, NEW a \in 0..k, NEW b \in 0..l, i # 0 \/ j # 0,
             Previous(<<i, j>>, Operation(g, i, j)) = <<a, b>>,
             Turn(g, olds, news, i, j, Operation(g, i, j), a, b), Arrives(a, b)
      PROVE  Arrives(i, j)
  <2>1. PICK op : op = Operation(g, i, j)
    OBVIOUS
  <2>2. PICK c : c = h[<<a, b>>]
    OBVIOUS
  <2>3. c \in Seq(Operations)
    BY <1>6, <2>2
  <2>4. PICK d : d = Append(c, op)
    OBVIOUS
  <2>5. h[<<i, j>>] = d
    BY <1>1, <1>6, <2>1, <2>2, <2>4 DEF Scripts, ScriptAt
  <2>6. op \in Operations
    BY <1>1, <1>2, <1>6, <2>1, TurnLeads
  <2>7. PICK x \in Nat : x = Len(c)
    BY <2>3
  <2>8. d \in Seq(Operations) /\ Len(d) = x + 1 /\ d[x + 1] = op /\ \A q \in 1..x : d[q] = c[q]
    BY <2>3, <2>4, <2>6, <2>7, AppendFacts
  <2>9. ASSUME NEW v, Walks(v, start, d, x + 1, sync) PROVE At(v[x + 1], i, j)
    <3>1. \A q \in 1..x : q \in 1..(x + 1)
      OBVIOUS
    <3>2. Walks(v, start, c, x, sync)
      BY <2>8, <2>9, <3>1 DEF Walks
    <3>3. At(v[x], a, b)
      BY <1>6, <2>2, <2>7, <3>2
    <3>4. x + 1 \in 1..(x + 1) /\ (x + 1) - 1 = x
      OBVIOUS
    <3>5. v[x + 1] = ApplyEdit(v[x], op, sync)
      BY <2>8, <2>9, <3>4 DEF Walks
    <3>6. Turn(g, olds, news, i, j, op, a, b)
      BY <1>6, <2>1
    <3> QED
      BY <1>3, <3>3, <3>5, <3>6
  <2> QED
    BY <2>5, <2>8, <2>9
<1> HIDE DEF Arrives
<1> DEFINE R == {x \in Nat : \E i \in 0..k, j \in 0..l : i + j = x /\ ~Arrives(i, j)}
<1>7. R = {}
  <2>1. SUFFICES ASSUME R # {} PROVE FALSE
    BY <2>1
  <2>2. PICK x \in R : \A y \in R : x <= y
    BY <2>1, LeastOf
  <2>3. PICK i \in 0..k, j \in 0..l : i + j = x /\ ~Arrives(i, j)
    BY <2>2
  <2>4. i # 0 \/ j # 0
    BY <1>5, <2>3
  <2>5. PICK a \in 0..k, b \in 0..l :
          /\ Previous(<<i, j>>, Operation(g, i, j)) = <<a, b>> /\ a + b < i + j
          /\ Turn(g, olds, news, i, j, Operation(g, i, j), a, b)
    BY <1>1, <2>4, TurnExists
  <2>6. a + b \in Nat /\ ~(x <= a + b)
    BY <1>1, <2>3, <2>5
  <2>7. a + b \notin R
    BY <2>2, <2>6
  <2>8. Arrives(a, b)
    BY <2>6, <2>7
  <2> QED
    BY <1>6, <2>3, <2>4, <2>5, <2>8
<1>8. k \in 0..k /\ l \in 0..l /\ k + l \in Nat
  BY <1>1
<1>9. k + l \notin R
  BY <1>7
<1>10. Arrives(k, l)
  BY <1>8, <1>9
<1>11. At(w[Len(h[<<k, l>>])], k, l)
  BY <1>10 DEF Arrives
<1> QED
  BY <1>11 DEF At

LEMMA ListOf ==
  ASSUME NEW T, NEW n \in Nat, NEW s, s = [q \in 1..n |-> s[q]], \A q \in 1..n : s[q] \in T
  PROVE  s \in Seq(T) /\ Len(s) = n /\ DOMAIN s = 1..n
<1>1. s \in [1..n -> T] /\ DOMAIN s = 1..n
  OBVIOUS
<1>2. s \in Seq(T)
  BY <1>1
<1>3. Len(s) = n
  BY <1>1, <1>2, LenProperties
<1> QED
  BY <1>1, <1>2, <1>3

(* What merging returns, by a cheapest matching M.                         *)
MergedFrom(r, M, old, new, m, n, sync, T) ==
  /\ r \in Seq(T) /\ Len(r) = n
  /\ M \in Matchings(old, new) /\ MatchingCost(M, old, new) = LeastCost(old, new)
  /\ \A q \in 1..n : Origin(r[q], M, m, old, new, q, sync)

LEMMA MergedIs ==
  ASSUME NEW S, NEW T, NEW sync, NEW old \in Seq(S), NEW new \in Seq(S),
         NEW m \in Nat, NEW n \in Nat, m = Len(old), n = Len(new),
         m + n <= MaxValue, Comparable(old, new, m, n),
         Accepts(T, old, new, m, n, sync),
         NEW r, r = Merged(old, new, sync)
  PROVE  \E M : MergedFrom(r, M, old, new, m, n, sync, T)
<1>1. PICK p, s, k, l, olds, news, g, h : Cut(old, new, m, n, p, s, k, l, olds, news, g, h)
  BY CutExists
<1>2. /\ p \in Nat /\ s \in Nat /\ k \in Nat /\ l \in Nat
      /\ m = p + k + s /\ n = p + l + s
      /\ MatchAtStart(old, new, p) /\ MatchAtEnd(old, new, m, n, s)
  BY <1>1 DEF Cut
<1>3. PICK e : e = h[<<k, l>>]
  OBVIOUS
<1>4. computeEditScript(old, new) = [skipCount |-> p, edits |-> e]
  BY <1>1, <1>3 DEF Cut
<1>5. PICK a, b : a = SubSeq(old, p + 1, m) /\ b = SubSeq(new, p + 1, n)
  OBVIOUS
<1>6. PICK c : c = [i \in 1..p |-> treatAsMatch(old[i], new[i], sync)]
  OBVIOUS
<1>7. PICK start : start = [to |-> a, from |-> b, passed |-> c]
  OBVIOUS
<1>8. p + k + s \in Nat /\ p <= m /\ p <= n
  BY <1>2
<1>9. PICK f : f = computeOperations(old, new)
  OBVIOUS
<1>10. PICK M : M = [i \in 1..p |-> i]
  OBVIOUS
<1>11. Matrices(f, old, new, m, n)
  BY <1>9, MatricesAre
<1>12. /\ Middle(old, new, olds, news, p, k, l) /\ Shifted(f, g, p, k, l)
       /\ Cost(f, m, n) = Cost(f, k + p, l + p) /\ Cost(g, k, l) = Cost(f, m, n)
  BY <1>1, <1>11, CutShifted
<1>13. Attains(M, old, new, p, p, Cost(f, p, p))
  <2>1. PICK N : N = [h1 \in 1..0 |-> 0]
    OBVIOUS
  <2>2. InOrder(N, old, new, 0, 0)
    BY <2>1 DEF InOrder
  <2>3. CostTo(N, old, new, 0, 0) = 0
    BY NoPairs
  <2>4. Attains(N, old, new, 0, 0, 0)
    BY <2>2, <2>3 DEF Attains
  <2>5. RunMatched(M, N, 0, 0, p)
    <3>1. 0 + p = p /\ \A i \in 1..p : i \notin 1..0 /\ 0 + (i - 0) = i
      BY <1>2
    <3> QED
      BY <1>10, <3>1 DEF RunMatched
  <2>6. RunMatches(old, new, 0, 0, p)
    <3>1. \A t \in 1..p : 0 + t = t
      OBVIOUS
    <3> QED
      BY <1>2, <3>1 DEF MatchAtStart, RunMatches
  <2>7. Attains(M, old, new, 0 + p, 0 + p, 0)
    BY <1>2, <2>4, <2>5, <2>6, RunAttains
  <2>8. Cost(f, p, p) = 0
    <3>1. 0 \in 0..k /\ 0 \in 0..l /\ 0 + p = p
      BY <1>2
    <3>2. Cost(g, 0, 0) = 0
      <4>1. Matrices(g, olds, news, k, l)
        BY <1>1 DEF Cut
      <4> QED
        BY <3>1, <4>1 DEF Matrices
    <3>3. Cost(g, 0, 0) = Cost(f, 0 + p, 0 + p)
      BY <1>12, <3>1 DEF Shifted
    <3> QED
      BY <3>1, <3>2, <3>3
  <2>9. 0 + p = p
    BY <1>2
  <2> QED
    BY <2>7, <2>8, <2>9
<1>14. /\ c \in Seq(T) /\ Len(c) = p /\ DOMAIN c = 1..p
       /\ \A q \in 1..p : Origin(c[q], M, p, old, new, q, sync)
  <2>1. ASSUME NEW q \in 1..p PROVE Origin(c[q], M, p, old, new, q, sync) /\ c[q] \in T
    <3>1. q \in 1..n /\ q \in 1..m /\ p \in 0..m
      BY <1>2, <1>8
    <3>2. UpdateCost(old[q], new[q]) = "none"
      BY <1>2 DEF MatchAtStart
    <3>3. c[q] = treatAsMatch(old[q], new[q], sync)
      BY <1>6
    <3>4. M[q] = q
      BY <1>10
    <3>5. Origin(c[q], M, p, old, new, q, sync)
      BY <3>2, <3>3, <3>4 DEF Origin
    <3>6. c[q] \in Origins(old, m, new[q], sync)
      BY <3>1, <3>5, OriginIn
    <3> QED
      BY <3>1, <3>5, <3>6 DEF Accepts
  <2>2. c = [q \in 1..p |-> c[q]]
    BY <1>6
  <2>3. c \in Seq(T) /\ Len(c) = p /\ DOMAIN c = 1..p
    BY <1>2, <2>1, <2>2, ListOf
  <2> QED
    BY <2>1, <2>3
<1>15. a \in Seq(S) /\ Part(old, a, p, m - p)
  <2>1. 0 \in Nat /\ 0 + p <= m /\ m - 0 = m /\ m - 0 - p = m - p
    BY <1>2, <1>8
  <2>2. PICK x : x = ItemListSubset(old, p + 1, m - 0)
    OBVIOUS
  <2>3. x \in Seq(S) /\ Part(old, x, p, m - 0 - p)
    BY <1>2, <2>1, <2>2, SubsetIs
  <2>4. x = a
    BY <1>5, <2>1, <2>2 DEF ItemListSubset
  <2> QED
    BY <2>1, <2>3, <2>4
<1>16. b \in Seq(S) /\ Part(new, b, p, n - p)
  <2>1. 0 \in Nat /\ 0 + p <= n /\ n - 0 = n /\ n - 0 - p = n - p
    BY <1>2, <1>8
  <2>2. PICK x : x = ItemListSubset(new, p + 1, n - 0)
    OBVIOUS
  <2>3. x \in Seq(S) /\ Part(new, x, p, n - 0 - p)
    BY <1>2, <2>1, <2>2, SubsetIs
  <2>4. x = b
    BY <1>5, <2>1, <2>2 DEF ItemListSubset
  <2> QED
    BY <2>1, <2>3, <2>4
<1>17. Cheaply(start, M, f, old, new, m, n, p, p, S, T, sync)
  <2>1. start.to = a /\ start.from = b /\ start.passed = c
    BY <1>7
  <2>2. start \in [to : Seq(S), from : Seq(S), passed : Seq(T)]
    BY <1>7, <1>15, <1>16, <1>14
  <2> QED
    BY <1>15, <1>16, <1>13, <1>14, <2>1, <2>2 DEF WalkersAt, Cheaply
<1>18. PICK N : N = Len(e)
  OBVIOUS
<1> DEFINE script == computeEditScript(old, new)
           Body(v, q) ==
             IF q = 0
             THEN [to |-> SubSeq(old, script.skipCount + 1, Len(old)),
                   from |-> SubSeq(new, script.skipCount + 1, Len(new)),
                   passed |-> [i \in 1..script.skipCount |-> treatAsMatch(old[i], new[i], sync)]]
             ELSE ApplyEdit(v[q - 1], script.edits[q], sync)
           walk == CHOOSE v : v = [q \in 0..Len(script.edits) |-> Body(v, q)]
           end == walk[Len(script.edits)]
<1>19. PICK w : w = walk
  OBVIOUS
<1>20. PICK z : z = w[N]
  OBVIOUS
<1>21. PICK tail : tail = [i \in DOMAIN z.to |-> treatAsMatch(z.to[i], z.from[i], sync)]
  OBVIOUS
<1>22. r = z.passed \o tail
  <2>1. r = end.passed \o [i \in DOMAIN end.to |-> treatAsMatch(end.to[i], end.from[i], sync)]
    BY DEF Merged
  <2>2. script.edits = e
    BY <1>4
  <2>3. z = end
    BY <1>18, <1>19, <1>20, <2>2
  <2> HIDE DEF end
  <2> QED
    BY <1>21, <2>1, <2>3
<1>23. PICK x : h[<<k, l>>] \in Seq(x)
  <2>1. e \in Seq(Operations)
    <3>1. Priced(h[<<k, l>>], Cost(g, k, l))
      <4>1. /\ Matrices(g, olds, news, k, l) /\ Scripts(g, h, k, l)
        BY <1>1 DEF Cut
      <4> QED
        BY <1>2, <4>1, ScriptsPriced
    <3> QED
      BY <1>3, <3>1 DEF Priced
  <2> QED
    BY <1>3, <2>1
<1>24. N \in Nat
  BY <1>3, <1>18, <1>23
<1>25. Walks(w, start, e, N, sync)
  <2>1. PICK v : v = [q \in 0..N |-> v[q]] /\ Walks(v, start, e, N, sync)
    BY <1>24, WalkExists
  <2>2. script.edits = e /\ script.skipCount = p
    BY <1>4
  <2>3. \A u, q : Body(u, q) = IF q = 0 THEN start ELSE ApplyEdit(u[q - 1], e[q], sync)
    BY <1>5, <1>6, <1>7, <2>2
  <2> HIDE DEF Body
  <2>4. \A q \in 0..N : v[q] = Body(v, q)
    <3> SUFFICES ASSUME NEW q \in 0..N PROVE v[q] = Body(v, q)
      OBVIOUS
    <3>1. CASE q = 0
      BY <2>1, <2>3, <3>1 DEF Walks
    <3>2. CASE q # 0
      <4>1. q \in 1..N
        BY <1>24, <3>2
      <4> QED
        BY <2>1, <2>3, <3>2, <4>1 DEF Walks
    <3> QED
      BY <3>1, <3>2
  <2>5. v = [q \in 0..Len(script.edits) |-> Body(v, q)]
    BY <1>18, <2>1, <2>2, <2>4
  <2>6. w = [q \in 0..Len(script.edits) |-> Body(w, q)]
    BY <1>19, <2>5
  <2>7. w = [q \in 0..N |-> Body(w, q)]
    BY <1>18, <2>2, <2>6
  <2>8. 0 \in 0..N /\ \A q \in 1..N : q \in 0..N /\ q # 0
    BY <1>24
  <2> QED
    BY <2>3, <2>7, <2>8 DEF Walks
<1>26. PICK Q : Cheaply(z, Q, f, old, new, m, n, k + p, l + p, S, T, sync)
  BY <1>1, <1>3, <1>17, <1>18, <1>20, <1>25, <1>11, WalkersArrive
<1>27. /\ Attains(Q, old, new, k + p, l + p, Cost(f, k + p, l + p))
       /\ z.passed \in Seq(T) /\ z.to \in Seq(S)
       /\ Part(old, z.to, k + p, m - (k + p)) /\ Part(new, z.from, l + p, n - (l + p))
       /\ Len(z.passed) = l + p
       /\ \A q \in 1..(l + p) : Origin(z.passed[q], Q, k + p, old, new, q, sync)
  BY <1>26 DEF WalkersAt, Cheaply
<1>28. m - (k + p) = s /\ n - (l + p) = s
  BY <1>2
<1>29. DOMAIN z.to = 1..s
  BY <1>2, <1>27, <1>28 DEF Part
<1>30. ASSUME NEW i \in 1..s
       PROVE  /\ i + (k + p) \in 1..m /\ i + (l + p) \in 1..n
              /\ UpdateCost(old[i + (k + p)], new[i + (l + p)]) = "none"
  <2>1. PICK d : d = s - i
    OBVIOUS
  <2>2. d \in 0..(s - 1) /\ i + (k + p) = m - d /\ i + (l + p) = n - d
        /\ i + (k + p) \in 1..m /\ i + (l + p) \in 1..n
    BY <1>2, <2>1
  <2> QED
    BY <1>2, <2>2 DEF MatchAtEnd
<1>31. PICK O : /\ Attains(O, old, new, m, n, Cost(f, m, n))
                /\ \A h1 \in 1..(k + p) : O[h1] = Q[h1]
                /\ \A t \in 1..s : O[(k + p) + t] = (l + p) + t
  <2>1. PICK i, j, c1 : i = k + p /\ j = l + p /\ c1 = Cost(f, m, n)
    OBVIOUS
  <2>2. i \in Nat /\ j \in Nat /\ s \in Nat /\ i + s = m /\ j + s = n
    BY <1>2, <2>1
  <2>3. PICK O : RunMatched(O, Q, i, j, s)
    BY DEF RunMatched
  <2>4. RunMatches(old, new, i, j, s)
    <3>1. \A t \in 1..s : t + (k + p) = i + t /\ t + (l + p) = j + t
      BY <1>2, <2>1
    <3> QED
      BY <1>30, <3>1 DEF RunMatches
  <2>5. Attains(Q, old, new, i, j, c1)
    BY <1>27, <1>12, <2>1
  <2>6. Attains(O, old, new, i + s, j + s, c1) /\ RunFollows(O, Q, i, j, s)
    <3>1. i \in Nat /\ j \in Nat /\ s \in Nat
      BY <2>2
    <3> QED
      BY <2>3, <2>4, <2>5, <3>1, RunAttains
  <2>7. Attains(O, old, new, m, n, Cost(f, m, n))
    BY <2>1, <2>2, <2>6
  <2>8. /\ \A h1 \in 1..i : O[h1] = Q[h1]
        /\ \A t \in 1..s : O[i + t] = j + t
    BY <2>6 DEF RunFollows
  <2> QED
    BY <2>1, <2>7, <2>8
<1>32. ASSUME NEW i \in 1..s
       PROVE  Origin(tail[i], O, m, old, new, i + (l + p), sync) /\ tail[i] \in T
  <2>1. z.to[i] = old[i + (k + p)] /\ z.from[i] = new[i + (l + p)]
    BY <1>27, <1>28 DEF Part
  <2>2. /\ i + (k + p) \in 1..m /\ i + (l + p) \in 1..n
        /\ UpdateCost(old[i + (k + p)], new[i + (l + p)]) = "none"
    BY <1>30
  <2>3. tail[i] = treatAsMatch(old[i + (k + p)], new[i + (l + p)], sync)
    BY <1>21, <1>29, <2>1
  <2>4. (k + p) + i = i + (k + p) /\ (l + p) + i = i + (l + p) /\ m \in 0..m
    BY <1>2
  <2>5. O[i + (k + p)] = i + (l + p)
    BY <1>31, <2>4
  <2>6. Origin(tail[i], O, m, old, new, i + (l + p), sync)
    BY <2>2, <2>3, <2>5 DEF Origin
  <2>7. tail[i] \in Origins(old, m, new[i + (l + p)], sync)
    BY <2>2, <2>4, <2>6, OriginIn
  <2> QED
    BY <2>2, <2>6, <2>7 DEF Accepts
<1>33. tail \in Seq(T) /\ Len(tail) = s
  <2>1. tail = [i \in 1..s |-> tail[i]]
    BY <1>21, <1>29
  <2> QED
    BY <1>2, <1>32, <2>1, ListOf
<1>34. PICK d \in Nat : d = l + p
  BY <1>2
<1>35. r \in Seq(T) /\ Joined(r, z.passed, tail, d, s)
  BY <1>2, <1>22, <1>27, <1>33, <1>34, ConcatFacts
<1>36. d + s = n
  BY <1>2, <1>34
<1>37. /\ DOMAIN r = 1..n /\ \A q \in 1..d : r[q] = z.passed[q]
       /\ \A q \in (d + 1)..n : q - d \in 1..s /\ r[q] = tail[q - d]
  BY <1>35, <1>36 DEF Joined
<1>38. Len(r) = n
  BY <1>35, <1>37
<1>39. ASSUME NEW q \in 1..n PROVE Origin(r[q], O, m, old, new, q, sync)
  <2>1. CASE q \in 1..d
    <3>1. Origin(z.passed[q], Q, k + p, old, new, q, sync)
      BY <1>27, <1>34, <2>1
    <3>2. ASSUME NEW h1 \in 1..m, h1 \notin 1..(k + p) PROVE O[h1] # q
      <4>1. PICK t : t = h1 - (k + p)
        OBVIOUS
      <4>2. t \in 1..s /\ (k + p) + t = h1 /\ (l + p) + t # q
        BY <1>2, <1>34, <2>1, <3>2, <4>1
      <4> QED
        BY <1>31, <4>2
    <3>3. k + p \in Nat /\ k + p <= m
      BY <1>2
    <3>4. \A h1 \in 1..m : h1 \in 1..(k + p) \/ O[h1] # q
      BY <3>2
    <3>5. Origin(z.passed[q], O, m, old, new, q, sync)
      BY <1>31, <3>1, <3>3, <3>4, OriginKept
    <3> QED
      BY <1>37, <2>1, <3>5
  <2>2. CASE q \in (d + 1)..n
    <3>1. PICK i : i = q - d
      OBVIOUS
    <3>2. i \in 1..s /\ r[q] = tail[i]
      BY <1>37, <2>2, <3>1
    <3>3. i + (l + p) = q
      BY <1>2, <1>34, <2>2, <3>1
    <3> QED
      BY <1>32, <3>2, <3>3
  <2>3. q \in 1..d \/ q \in (d + 1)..n
    BY <1>34
  <2> QED
    BY <2>1, <2>2, <2>3
<1>40. O \in Matchings(old, new) /\ MatchingCost(O, old, new) = LeastCost(old, new)
  <2>1. InOrder(O, old, new, m, n) /\ CostTo(O, old, new, m, n) = Cost(f, m, n)
    BY <1>31 DEF Attains
  <2>2. O \in Matchings(old, new) /\ MatchingCost(O, old, new) = CostTo(O, old, new, m, n)
    BY <2>1, MatchingsAre
  <2>3. LeastCost(old, new) = Cost(f, m, n)
    BY <1>11, LeastIs
  <2> QED
    BY <2>1, <2>2, <2>3
<1>41. MergedFrom(r, O, old, new, m, n, sync, T)
  BY <1>35, <1>38, <1>39, <1>40 DEF MergedFrom
<1> QED
  BY <1>41

-----------------------------------------------------------------------------
(* Lists, their merging and their likeness exist at every depth.           *)

ListsAt(f, d) ==
  IF d = 0 THEN {<<>>}
  ELSE {list \in Seq(NodesOver(f[d - 1])) : 2 * Len(list) <= MaxValue}

(* Right up to depth k.                                                    *)
ListsUp(f, k) == \A q \in 0..k : f[q] = ListsAt(f, q)

LEMMA ListsExist ==
  ASSUME NEW k \in Nat
  PROVE  \E f : f = [q \in 0..k |-> f[q]] /\ ListsUp(f, k)
<1> DEFINE Exists(n) == \E f : f = [q \in 0..n |-> f[q]] /\ ListsUp(f, n)
<1>1. Exists(0)
  <2>1. PICK g : g = [q \in 0..0 |-> ListsAt(0, 0)]
    OBVIOUS
  <2>2. g = [q \in 0..0 |-> g[q]] /\ g[0] = ListsAt(0, 0)
    BY <2>1
  <2>3. ListsAt(0, 0) = ListsAt(g, 0)
    BY DEF ListsAt
  <2>4. ListsUp(g, 0)
    <3>1. \A q \in 0..0 : q = 0
      OBVIOUS
    <3> QED
      BY <2>2, <2>3, <3>1 DEF ListsUp
  <2> QED
    BY <2>2, <2>4
<1>2. ASSUME NEW n \in Nat, Exists(n) PROVE Exists(n + 1)
  <2>1. PICK f : f = [q \in 0..n |-> f[q]] /\ ListsUp(f, n)
    BY <1>2
  <2>2. PICK x : x = ListsAt(f, n + 1)
    OBVIOUS
  <2>3. PICK g : g = [q \in 0..(n + 1) |-> IF q = n + 1 THEN x ELSE f[q]]
    OBVIOUS
  <2>4. g = [q \in 0..(n + 1) |-> g[q]] /\ g[n + 1] = x /\ \A q \in 0..n : g[q] = f[q]
    BY <2>3
  <2>5. ASSUME NEW q \in 0..(n + 1) PROVE ListsAt(f, q) = ListsAt(g, q)
    <3>1. CASE q = 0
      BY <3>1 DEF ListsAt
    <3>2. CASE q # 0
      <4>1. q - 1 \in 0..n
        BY <3>2
      <4>2. f[q - 1] = g[q - 1]
        BY <2>4, <4>1
      <4> QED
        BY <4>2 DEF ListsAt
    <3> QED
      BY <3>1, <3>2
  <2>6. ASSUME NEW q \in 0..(n + 1) PROVE g[q] = ListsAt(g, q)
    <3>1. CASE q = n + 1
      BY <2>2, <2>4, <2>5, <3>1
    <3>2. CASE q # n + 1
      <4>1. q \in 0..n
        BY <3>2
      <4>2. f[q] = ListsAt(f, q)
        BY <2>1, <4>1 DEF ListsUp
      <4> QED
        BY <2>4, <2>5, <4>1, <4>2
    <3> QED
      BY <3>1, <3>2
  <2>7. ListsUp(g, n + 1)
    BY <2>6 DEF ListsUp
  <2> QED
    BY <2>4, <2>7
<1> HIDE DEF Exists
<1> DEFINE T == {n \in Nat : ~Exists(n)}
<1>3. T = {}
  <2>1. SUFFICES ASSUME T # {} PROVE FALSE
    BY <2>1
  <2>2. PICK x \in T : \A y \in T : x <= y
    BY <2>1, LeastOf
  <2>3. x \in Nat /\ x # 0
    BY <1>1, <2>2
  <2>4. PICK n \in Nat : n + 1 = x
    <3>1. x - 1 \in Nat /\ (x - 1) + 1 = x
      BY <2>3
    <3> QED
      BY <3>1
  <2>5. n \notin T
    BY <2>2, <2>4
  <2> QED
    BY <1>2, <2>2, <2>4, <2>5
<1> QED
  BY <1>3 DEF Exists

LEMMA ListsAre ==
  \A d \in 0..Nesting : Lists[d] = ListsAt(Lists, d)
<1>1. Nesting \in Nat
  BY MergeAssumption
<1>2. Lists = CHOOSE f : f = [d \in 0..Nesting |-> ListsAt(f, d)]
  BY DEF Lists, ListsAt
<1>3. PICK g : g = [q \in 0..Nesting |-> g[q]] /\ ListsUp(g, Nesting)
  BY <1>1, ListsExist
<1>4. g = [d \in 0..Nesting |-> ListsAt(g, d)]
  BY <1>3 DEF ListsUp
<1>5. Lists = [d \in 0..Nesting |-> ListsAt(Lists, d)]
  BY <1>2, <1>4
<1> QED
  BY <1>5

MergedAt(f, d) ==
  [p \in Lists[d] \X Lists[d] |-> IF d = 0 THEN <<>> ELSE Merged(p[1], p[2], f[d - 1])]

(* Right up to depth k.                                                    *)
MergesUp(f, k) == \A q \in 0..k : f[q] = MergedAt(f, q)

LEMMA MergesExist ==
  ASSUME NEW k \in Nat
  PROVE  \E f : f = [q \in 0..k |-> f[q]] /\ MergesUp(f, k)
<1> DEFINE Exists(n) == \E f : f = [q \in 0..n |-> f[q]] /\ MergesUp(f, n)
<1>1. Exists(0)
  <2>1. PICK g : g = [q \in 0..0 |-> MergedAt(0, 0)]
    OBVIOUS
  <2>2. g = [q \in 0..0 |-> g[q]] /\ g[0] = MergedAt(0, 0)
    BY <2>1
  <2>3. MergedAt(0, 0) = MergedAt(g, 0)
    BY DEF MergedAt
  <2>4. MergesUp(g, 0)
    <3>1. \A q \in 0..0 : q = 0
      OBVIOUS
    <3> QED
      BY <2>2, <2>3, <3>1 DEF MergesUp
  <2> QED
    BY <2>2, <2>4
<1>2. ASSUME NEW n \in Nat, Exists(n) PROVE Exists(n + 1)
  <2>1. PICK f : f = [q \in 0..n |-> f[q]] /\ MergesUp(f, n)
    BY <1>2
  <2>2. PICK x : x = MergedAt(f, n + 1)
    OBVIOUS
  <2>3. PICK g : g = [q \in 0..(n + 1) |-> IF q = n + 1 THEN x ELSE f[q]]
    OBVIOUS
  <2>4. g = [q \in 0..(n + 1) |-> g[q]] /\ g[n + 1] = x /\ \A q \in 0..n : g[q] = f[q]
    BY <2>3
  <2>5. ASSUME NEW q \in 0..(n + 1) PROVE MergedAt(f, q) = MergedAt(g, q)
    <3>1. CASE q = 0
      BY <3>1 DEF MergedAt
    <3>2. CASE q # 0
      <4>1. q - 1 \in 0..n
        BY <3>2
      <4>2. f[q - 1] = g[q - 1]
        BY <2>4, <4>1
      <4> QED
        BY <4>2 DEF MergedAt
    <3> QED
      BY <3>1, <3>2
  <2>6. ASSUME NEW q \in 0..(n + 1) PROVE g[q] = MergedAt(g, q)
    <3>1. CASE q = n + 1
      BY <2>2, <2>4, <2>5, <3>1
    <3>2. CASE q # n + 1
      <4>1. q \in 0..n
        BY <3>2
      <4>2. f[q] = MergedAt(f, q)
        BY <2>1, <4>1 DEF MergesUp
      <4> QED
        BY <2>4, <2>5, <4>1, <4>2
    <3> QED
      BY <3>1, <3>2
  <2>7. MergesUp(g, n + 1)
    BY <2>6 DEF MergesUp
  <2> QED
    BY <2>4, <2>7
<1> HIDE DEF Exists
<1> DEFINE T == {n \in Nat : ~Exists(n)}
<1>3. T = {}
  <2>1. SUFFICES ASSUME T # {} PROVE FALSE
    BY <2>1
  <2>2. PICK x \in T : \A y \in T : x <= y
    BY <2>1, LeastOf
  <2>3. x \in Nat /\ x # 0
    BY <1>1, <2>2
  <2>4. PICK n \in Nat : n + 1 = x
    <3>1. x - 1 \in Nat /\ (x - 1) + 1 = x
      BY <2>3
    <3> QED
      BY <3>1
  <2>5. n \notin T
    BY <2>2, <2>4
  <2> QED
    BY <1>2, <2>2, <2>4, <2>5
<1> QED
  BY <1>3 DEF Exists

LEMMA MergesAre ==
  \A d \in 0..Nesting : synchronized[d] = MergedAt(synchronized, d)
<1>1. Nesting \in Nat
  BY MergeAssumption
<1>2. synchronized = CHOOSE f : f = [d \in 0..Nesting |-> MergedAt(f, d)]
  BY DEF synchronized, MergedAt
<1>3. PICK g : g = [q \in 0..Nesting |-> g[q]] /\ MergesUp(g, Nesting)
  BY <1>1, MergesExist
<1>4. g = [d \in 0..Nesting |-> MergedAt(g, d)]
  BY <1>3 DEF MergesUp
<1>5. synchronized = [d \in 0..Nesting |-> MergedAt(synchronized, d)]
  BY <1>2, <1>4
<1> QED
  BY <1>5

MarkedAt(f, d) ==
  [p \in Lists[d] \X BOOLEAN |-> IF d = 0 THEN <<>> ELSE Marked(p[1], p[2], f[d - 1])]

(* Right up to depth k.                                                    *)
MarksUp(f, k) == \A q \in 0..k : f[q] = MarkedAt(f, q)

LEMMA MarksExist ==
  ASSUME NEW k \in Nat
  PROVE  \E f : f = [q \in 0..k |-> f[q]] /\ MarksUp(f, k)
<1> DEFINE Exists(n) == \E f : f = [q \in 0..n |-> f[q]] /\ MarksUp(f, n)
<1>1. Exists(0)
  <2>1. PICK g : g = [q \in 0..0 |-> MarkedAt(0, 0)]
    OBVIOUS
  <2>2. g = [q \in 0..0 |-> g[q]] /\ g[0] = MarkedAt(0, 0)
    BY <2>1
  <2>3. MarkedAt(0, 0) = MarkedAt(g, 0)
    BY DEF MarkedAt
  <2>4. MarksUp(g, 0)
    <3>1. \A q \in 0..0 : q = 0
      OBVIOUS
    <3> QED
      BY <2>2, <2>3, <3>1 DEF MarksUp
  <2> QED
    BY <2>2, <2>4
<1>2. ASSUME NEW n \in Nat, Exists(n) PROVE Exists(n + 1)
  <2>1. PICK f : f = [q \in 0..n |-> f[q]] /\ MarksUp(f, n)
    BY <1>2
  <2>2. PICK x : x = MarkedAt(f, n + 1)
    OBVIOUS
  <2>3. PICK g : g = [q \in 0..(n + 1) |-> IF q = n + 1 THEN x ELSE f[q]]
    OBVIOUS
  <2>4. g = [q \in 0..(n + 1) |-> g[q]] /\ g[n + 1] = x /\ \A q \in 0..n : g[q] = f[q]
    BY <2>3
  <2>5. ASSUME NEW q \in 0..(n + 1) PROVE MarkedAt(f, q) = MarkedAt(g, q)
    <3>1. CASE q = 0
      BY <3>1 DEF MarkedAt
    <3>2. CASE q # 0
      <4>1. q - 1 \in 0..n
        BY <3>2
      <4>2. f[q - 1] = g[q - 1]
        BY <2>4, <4>1
      <4> QED
        BY <4>2 DEF MarkedAt
    <3> QED
      BY <3>1, <3>2
  <2>6. ASSUME NEW q \in 0..(n + 1) PROVE g[q] = MarkedAt(g, q)
    <3>1. CASE q = n + 1
      BY <2>2, <2>4, <2>5, <3>1
    <3>2. CASE q # n + 1
      <4>1. q \in 0..n
        BY <3>2
      <4>2. f[q] = MarkedAt(f, q)
        BY <2>1, <4>1 DEF MarksUp
      <4> QED
        BY <2>4, <2>5, <4>1, <4>2
    <3> QED
      BY <3>1, <3>2
  <2>7. MarksUp(g, n + 1)
    BY <2>6 DEF MarksUp
  <2> QED
    BY <2>4, <2>7
<1> HIDE DEF Exists
<1> DEFINE T == {n \in Nat : ~Exists(n)}
<1>3. T = {}
  <2>1. SUFFICES ASSUME T # {} PROVE FALSE
    BY <2>1
  <2>2. PICK x \in T : \A y \in T : x <= y
    BY <2>1, LeastOf
  <2>3. x \in Nat /\ x # 0
    BY <1>1, <2>2
  <2>4. PICK n \in Nat : n + 1 = x
    <3>1. x - 1 \in Nat /\ (x - 1) + 1 = x
      BY <2>3
    <3> QED
      BY <3>1
  <2>5. n \notin T
    BY <2>2, <2>4
  <2> QED
    BY <1>2, <2>2, <2>4, <2>5
<1> QED
  BY <1>3 DEF Exists

LEMMA MarksAre ==
  \A d \in 0..Nesting : marked[d] = MarkedAt(marked, d)
<1>1. Nesting \in Nat
  BY MergeAssumption
<1>2. marked = CHOOSE f : f = [d \in 0..Nesting |-> MarkedAt(f, d)]
  BY DEF marked, MarkedAt
<1>3. PICK g : g = [q \in 0..Nesting |-> g[q]] /\ MarksUp(g, Nesting)
  BY <1>1, MarksExist
<1>4. g = [d \in 0..Nesting |-> MarkedAt(g, d)]
  BY <1>3 DEF MarksUp
<1>5. marked = [d \in 0..Nesting |-> MarkedAt(marked, d)]
  BY <1>2, <1>4
<1> QED
  BY <1>5

ShowsAt(f, d) ==
  [p \in Lists[d] \X Lists[d] \X Lists[d] |->
     \/ d = 0
     \/ \E m \in Matchings(p[1], p[2]) :
          /\ MatchingCost(m, p[1], p[2]) = LeastCost(p[1], p[2])
          /\ Follows(p[3], m, p[1], p[2], f[d - 1])]

(* Right up to depth k.                                                    *)
ShowsUp(f, k) == \A q \in 0..k : f[q] = ShowsAt(f, q)

LEMMA ShowsExist ==
  ASSUME NEW k \in Nat
  PROVE  \E f : f = [q \in 0..k |-> f[q]] /\ ShowsUp(f, k)
<1> DEFINE Exists(n) == \E f : f = [q \in 0..n |-> f[q]] /\ ShowsUp(f, n)
<1>1. Exists(0)
  <2>1. PICK g : g = [q \in 0..0 |-> ShowsAt(0, 0)]
    OBVIOUS
  <2>2. g = [q \in 0..0 |-> g[q]] /\ g[0] = ShowsAt(0, 0)
    BY <2>1
  <2>3. ShowsAt(0, 0) = ShowsAt(g, 0)
    BY DEF ShowsAt
  <2>4. ShowsUp(g, 0)
    <3>1. \A q \in 0..0 : q = 0
      OBVIOUS
    <3> QED
      BY <2>2, <2>3, <3>1 DEF ShowsUp
  <2> QED
    BY <2>2, <2>4
<1>2. ASSUME NEW n \in Nat, Exists(n) PROVE Exists(n + 1)
  <2>1. PICK f : f = [q \in 0..n |-> f[q]] /\ ShowsUp(f, n)
    BY <1>2
  <2>2. PICK x : x = ShowsAt(f, n + 1)
    OBVIOUS
  <2>3. PICK g : g = [q \in 0..(n + 1) |-> IF q = n + 1 THEN x ELSE f[q]]
    OBVIOUS
  <2>4. g = [q \in 0..(n + 1) |-> g[q]] /\ g[n + 1] = x /\ \A q \in 0..n : g[q] = f[q]
    BY <2>3
  <2>5. ASSUME NEW q \in 0..(n + 1) PROVE ShowsAt(f, q) = ShowsAt(g, q)
    <3>1. CASE q = 0
      BY <3>1 DEF ShowsAt
    <3>2. CASE q # 0
      <4>1. q - 1 \in 0..n
        BY <3>2
      <4>2. f[q - 1] = g[q - 1]
        BY <2>4, <4>1
      <4> QED
        BY <4>2 DEF ShowsAt
    <3> QED
      BY <3>1, <3>2
  <2>6. ASSUME NEW q \in 0..(n + 1) PROVE g[q] = ShowsAt(g, q)
    <3>1. CASE q = n + 1
      BY <2>2, <2>4, <2>5, <3>1
    <3>2. CASE q # n + 1
      <4>1. q \in 0..n
        BY <3>2
      <4>2. f[q] = ShowsAt(f, q)
        BY <2>1, <4>1 DEF ShowsUp
      <4> QED
        BY <2>4, <2>5, <4>1, <4>2
    <3> QED
      BY <3>1, <3>2
  <2>7. ShowsUp(g, n + 1)
    BY <2>6 DEF ShowsUp
  <2> QED
    BY <2>4, <2>7
<1> HIDE DEF Exists
<1> DEFINE T == {n \in Nat : ~Exists(n)}
<1>3. T = {}
  <2>1. SUFFICES ASSUME T # {} PROVE FALSE
    BY <2>1
  <2>2. PICK x \in T : \A y \in T : x <= y
    BY <2>1, LeastOf
  <2>3. x \in Nat /\ x # 0
    BY <1>1, <2>2
  <2>4. PICK n \in Nat : n + 1 = x
    <3>1. x - 1 \in Nat /\ (x - 1) + 1 = x
      BY <2>3
    <3> QED
      BY <3>1
  <2>5. n \notin T
    BY <2>2, <2>4
  <2> QED
    BY <1>2, <2>2, <2>4, <2>5
<1> QED
  BY <1>3 DEF Exists

LEMMA ShowsAre ==
  \A d \in 0..Nesting : Shows[d] = ShowsAt(Shows, d)
<1>1. Nesting \in Nat
  BY MergeAssumption
<1>2. Shows = CHOOSE f : f = [d \in 0..Nesting |-> ShowsAt(f, d)]
  BY DEF Shows, ShowsAt
<1>3. PICK g : g = [q \in 0..Nesting |-> g[q]] /\ ShowsUp(g, Nesting)
  BY <1>1, ShowsExist
<1>4. g = [d \in 0..Nesting |-> ShowsAt(g, d)]
  BY <1>3 DEF ShowsUp
<1>5. Shows = [d \in 0..Nesting |-> ShowsAt(Shows, d)]
  BY <1>2, <1>4
<1> QED
  BY <1>5

-----------------------------------------------------------------------------
(* One node.                                                               *)

Text ==
  [kind : {"text"}, name : Labels, data : {NoAttributes}, children : {<<>>},
   logical : BOOLEAN, interactive : {FALSE}]

Element(lists) ==
  [kind : {"element"}, name : Labels, data : Attributes, children : lists,
   logical : BOOLEAN, interactive : {FALSE}]

Component(lists) ==
  [kind : {"component"}, name : Labels, data : Attributes, children : lists,
   logical : BOOLEAN, interactive : BOOLEAN]

LEMMA NodeIs ==
  ASSUME NEW lists, NEW x \in NodesOver(lists)
  PROVE  \/ x.kind = "text" /\ x \in Text
         \/ x.kind = "element" /\ x \in Element(lists)
         \/ x.kind = "component" /\ x \in Component(lists)
BY DEF NodesOver, Text, Element, Component

LEMMA IsNode ==
  ASSUME NEW lists, NEW x, x \in Text \/ x \in Element(lists) \/ x \in Component(lists)
  PROVE  x \in NodesOver(lists)
BY DEF NodesOver, Text, Element, Component

LEMMA NodesCompare ==
  ASSUME NEW lists, NEW x \in NodesOver(lists), NEW y \in NodesOver(lists)
  PROVE  UpdateCost(x, y) \in Costs
<1>1. x.kind \in {"text", "element", "component"}
  BY NodeIs
<1> QED
  BY <1>1 DEF UpdateCost, Costs

LEMMA AttributesSynchronized ==
  ASSUME NEW destination, NEW new \in Attributes
  PROVE  synchronizeAttributes(destination, new) = new
<1>1. new = [n \in DOMAIN new |-> new[n]]
  BY MergeAssumption
<1>2. (DOMAIN destination \cup DOMAIN new) \ (DOMAIN destination \ DOMAIN new) = DOMAIN new
  OBVIOUS
<1>3. synchronizeAttributes(destination, new)
        = [n \in DOMAIN new |-> IF n \in DOMAIN destination /\ destination[n] = new[n]
                                THEN destination[n] ELSE new[n]]
  BY <1>2 DEF synchronizeAttributes
<1>4. \A n \in DOMAIN new : (IF n \in DOMAIN destination /\ destination[n] = new[n]
                             THEN destination[n] ELSE new[n]) = new[n]
  OBVIOUS
<1> QED
  BY <1>1, <1>3, <1>4

(* sync merges the children, and below says how.                           *)
ChildrenShow(lists, sync, below) ==
  /\ <<>> \in lists /\ sync[<<<<>>, <<>>>>] = <<>>
  /\ \A u, v \in lists : sync[<<u, v>>] \in lists /\ below[<<u, v, sync[<<u, v>>]>>]

LEMMA NothingShows ==
  ASSUME NEW lists, NEW sync, NEW below, ChildrenShow(lists, sync, below)
  PROVE  below[<<<<>>, <<>>, <<>>>>]
<1>1. PICK u \in lists : u = <<>>
  BY DEF ChildrenShow
<1>2. sync[<<u, u>>] = u
  BY <1>1 DEF ChildrenShow
<1>3. below[<<u, u, sync[<<u, u>>]>>]
  BY DEF ChildrenShow
<1> QED
  BY <1>1, <1>2, <1>3

LEMMA MatchShows ==
  ASSUME NEW lists, NEW sync, NEW below, ChildrenShow(lists, sync, below),
         NEW x \in NodesOver(lists), NEW y \in NodesOver(lists), UpdateCost(x, y) = "none",
         NEW z, z = treatAsMatch(x, y, sync)
  PROVE  z \in NodesOver(lists) /\ Kept(z, x, y, below)
<1>1. x.kind = y.kind
  BY DEF UpdateCost
<1>2. PICK c : c = sync[<<x.children, y.children>>]
  OBVIOUS
<1>3. CASE x.kind = "text"
  <2>1. z = x
    BY <1>3 DEF treatAsMatch
  <2>2. x.name = y.name
    BY <1>1, <1>3 DEF UpdateCost
  <2>3. x \in Text /\ y \in Text
    BY <1>1, <1>3, NodeIs
  <2>4. x.data = y.data /\ x.children = <<>> /\ y.children = <<>> /\ x.interactive = FALSE
    BY <2>3 DEF Text
  <2>5. below[<<<<>>, <<>>, <<>>>>]
    BY NothingShows
  <2>6. ~KeepsContent(z)
    BY <1>3, <2>1, <2>4 DEF KeepsContent
  <2>7. below[<<x.children, y.children, z.children>>]
    BY <2>1, <2>4, <2>5
  <2>8. Kept(z, x, y, below)
    BY <1>1, <2>1, <2>2, <2>4, <2>6, <2>7 DEF Kept
  <2> QED
    BY <2>1, <2>8
<1>4. CASE x.kind = "component"
  <2>1. x \in Component(lists) /\ y \in Component(lists)
    BY <1>1, <1>4, NodeIs
  <2>2. y.data \in Attributes /\ x.children \in lists /\ y.children \in lists
    BY <2>1 DEF Component
  <2>3. c \in lists /\ below[<<x.children, y.children, c>>]
    BY <1>2, <2>2 DEF ChildrenShow
  <2>4. x.name = y.name
    BY <1>1, <1>4 DEF UpdateCost
  <2>5. z = [x EXCEPT !.data = y.data, !.children = IF x.interactive THEN x.children ELSE c]
    BY <1>2, <1>4 DEF treatAsMatch
  <2>6. /\ z.kind = x.kind /\ z.name = x.name /\ z.data = y.data
        /\ z.children = (IF x.interactive THEN x.children ELSE c)
        /\ z.interactive = x.interactive /\ z.logical = x.logical
    BY <2>1, <2>5 DEF Component
  <2>7. z \in Component(lists)
    BY <2>1, <2>2, <2>3, <2>5 DEF Component
  <2>8. KeepsContent(z) <=> z.interactive
    BY <1>4, <2>6 DEF KeepsContent
  <2>9. IF KeepsContent(z) THEN z.children = x.children
        ELSE below[<<x.children, y.children, z.children>>]
    BY <2>3, <2>6, <2>8
  <2>10. Kept(z, x, y, below)
    BY <1>1, <2>4, <2>6, <2>9 DEF Kept
  <2> QED
    BY <2>7, <2>10, IsNode
<1>5. CASE x.kind = "element"
  <2>1. x \in Element(lists) /\ y \in Element(lists)
    BY <1>1, <1>5, NodeIs
  <2>2. y.data \in Attributes /\ x.children \in lists /\ y.children \in lists
        /\ x.interactive = FALSE
    BY <2>1 DEF Element
  <2>3. c \in lists /\ below[<<x.children, y.children, c>>]
    BY <1>2, <2>2 DEF ChildrenShow
  <2>4. x.name = y.name
    BY <1>1, <1>5 DEF UpdateCost
  <2>5. synchronizeAttributes(x.data, y.data) = y.data
    BY <2>2, AttributesSynchronized
  <2>6. z = [x EXCEPT !.data = y.data,
                      !.children = IF isDataPermanentElement(y) THEN x.children ELSE c]
    BY <1>2, <1>5, <2>5 DEF treatAsMatch
  <2>7. /\ z.kind = x.kind /\ z.name = x.name /\ z.data = y.data
        /\ z.children = (IF isDataPermanentElement(y) THEN x.children ELSE c)
        /\ z.interactive = x.interactive /\ z.logical = x.logical
    BY <2>1, <2>6 DEF Element
  <2>8. z \in Element(lists)
    BY <2>1, <2>2, <2>3, <2>6 DEF Element
  <2>9. KeepsContent(z) <=> isDataPermanentElement(y)
    BY <1>5, <2>2, <2>7 DEF KeepsContent, isDataPermanentElement
  <2>10. IF KeepsContent(z) THEN z.children = x.children
         ELSE below[<<x.children, y.children, z.children>>]
    BY <2>3, <2>7, <2>9
  <2>11. Kept(z, x, y, below)
    BY <1>1, <2>4, <2>7, <2>10 DEF Kept
  <2> QED
    BY <2>8, <2>11, IsNode
<1> QED
  BY <1>3, <1>4, <1>5, NodeIs

LEMMA SubstitutionShows ==
  ASSUME NEW lists, NEW sync, NEW below, ChildrenShow(lists, sync, below),
         NEW x \in NodesOver(lists), NEW y \in NodesOver(lists), UpdateCost(x, y) = "some",
         NEW z, z = treatAsSubstitution(x, y)
  PROVE  z \in NodesOver(lists) /\ Kept(z, x, y, below)
<1>1. x.kind \in {"text", "element", "component"}
  BY NodeIs
<1>2. x.kind = "text" /\ y.kind = "text"
  BY <1>1 DEF UpdateCost
<1>3. x \in Text /\ y \in Text
  BY <1>2, NodeIs
<1>4. z = [x EXCEPT !.name = y.name]
  BY DEF treatAsSubstitution
<1>5. /\ z.kind = "text" /\ z.name = y.name /\ z.data = y.data /\ z.logical = x.logical
      /\ z.interactive = FALSE /\ x.interactive = FALSE
      /\ x.children = <<>> /\ y.children = <<>> /\ z.children = <<>>
  BY <1>3, <1>4 DEF Text
<1>6. z \in Text
  BY <1>3, <1>4 DEF Text
<1>7. below[<<x.children, y.children, z.children>>]
  BY <1>5, NothingShows
<1>8. ~KeepsContent(z)
  BY <1>5 DEF KeepsContent
<1>9. Kept(z, x, y, below)
  BY <1>2, <1>5, <1>7, <1>8 DEF Kept
<1> QED
  BY <1>6, <1>9, IsNode

-----------------------------------------------------------------------------
(* Whole lists, at every depth.                                            *)

LEMMA ListIs ==
  ASSUME NEW d \in 1..Nesting, NEW a
  PROVE  /\ a \in Lists[d]
              <=> (a \in Seq(NodesOver(Lists[d - 1])) /\ 2 * Len(a) <= MaxValue)
         /\ <<>> \in Lists[d]
<1>1. d \in 0..Nesting /\ d # 0
  BY MergeAssumption
<1>2. Lists[d] = {list \in Seq(NodesOver(Lists[d - 1])) : 2 * Len(list) <= MaxValue}
  BY <1>1, ListsAre DEF ListsAt
<1>3. <<>> \in Seq(NodesOver(Lists[d - 1])) /\ 2 * Len(<<>>) <= MaxValue
  BY MaxValueAssumption
<1> QED
  BY <1>2, <1>3

(* What holds for the lists of depth 0, and for those of a depth if it     *)
(* does for those of the depth below.                                      *)
LEMMA EveryDepth ==
  ASSUME NEW T, 0 \in T, \A d \in 1..Nesting : d - 1 \in T => d \in T
  PROVE  0..Nesting \subseteq T
<1> DEFINE R == {d \in Nat : d <= Nesting /\ d \notin T}
<1>1. SUFFICES ASSUME R # {} PROVE FALSE
  BY <1>1, MergeAssumption
<1>2. PICK x \in R : \A y \in R : x <= y
  BY <1>1, LeastOf
<1>3. x \in Nat /\ x <= Nesting /\ x \notin T /\ x # 0
  BY <1>2
<1>4. PICK d : d = x - 1
  OBVIOUS
<1>5. d \in Nat /\ d <= Nesting /\ ~(x <= d) /\ x \in 1..Nesting
  BY <1>3, <1>4, MergeAssumption
<1>6. d \in T
  BY <1>2, <1>5
<1> QED
  BY <1>3, <1>4, <1>5, <1>6

(* Marking logical elements makes a list of one.                           *)
Marks(d) ==
  /\ \A u \in Lists[d], l \in BOOLEAN : marked[d][<<u, l>>] \in Lists[d]
  /\ \A l \in BOOLEAN : marked[d][<<<<>>, l>>] = <<>>

LEMMA NodeMarked ==
  ASSUME NEW lists, NEW x \in NodesOver(lists), NEW l \in BOOLEAN, NEW c \in lists,
         x.children = <<>> => c = <<>>,
         NEW z, z = [x EXCEPT !.logical = l, !.children = c]
  PROVE  z \in NodesOver(lists)
<1>1. z = [x EXCEPT !.logical = l, !.children = c]
  OBVIOUS
<1>2. CASE x \in Text
  BY <1>1, <1>2, IsNode DEF Text
<1>3. CASE x \in Element(lists)
  BY <1>1, <1>3, IsNode DEF Element
<1>4. CASE x \in Component(lists)
  BY <1>1, <1>4, IsNode DEF Component
<1> QED
  BY <1>1, <1>2, <1>3, <1>4, NodeIs

LEMMA MarkedIsList ==
  ASSUME NEW d \in 1..Nesting, Marks(d - 1), NEW a \in Lists[d], NEW l \in BOOLEAN,
         NEW r, r = marked[d][<<a, l>>]
  PROVE  r \in Lists[d] /\ Len(r) = Len(a)
<1>1. d \in 0..Nesting /\ d # 0
  BY MergeAssumption
<1>2. PICK lists, inside : lists = Lists[d - 1] /\ inside = marked[d - 1]
  OBVIOUS
<1>3. PICK S : S = NodesOver(lists)
  OBVIOUS
<1>4. a \in Seq(S) /\ 2 * Len(a) <= MaxValue
  BY <1>2, <1>3, ListIs
<1>5. PICK n \in Nat : n = Len(a)
  BY <1>4
<1>6. DOMAIN a = 1..n
  BY <1>4, <1>5
<1>7. r = Marked(a, l, inside)
  <2>1. PICK p : p = <<a, l>>
    OBVIOUS
  <2>2. p \in Lists[d] \X BOOLEAN /\ p[1] = a /\ p[2] = l
    BY <2>1
  <2>3. marked[d] = MarkedAt(marked, d)
    BY <1>1, MarksAre
  <2>4. MarkedAt(marked, d)[p] = Marked(p[1], p[2], marked[d - 1])
    BY <1>1, <2>2 DEF MarkedAt
  <2> QED
    BY <1>2, <2>1, <2>2, <2>3, <2>4
<1>8. ASSUME NEW i \in 1..n PROVE r[i] \in S
  <2>1. PICK x \in NodesOver(lists) : x = a[i]
    BY <1>3, <1>4, <1>5, ElementOfSeq
  <2>2. CASE x.logical
    <3>1. r[i] = a[i]
      BY <1>6, <1>7, <2>1, <2>2 DEF Marked
    <3> QED
      BY <1>3, <2>1, <3>1
  <2>3. CASE ~x.logical
    <3>1. PICK becomes \in BOOLEAN :
            becomes = (l \/ HoldsComponent(a) \/ HoldsComponent(x.children))
      OBVIOUS
    <3>2. PICK c : c = inside[<<x.children, becomes>>]
      OBVIOUS
    <3>3. r[i] = [x EXCEPT !.logical = becomes, !.children = c]
      BY <1>6, <1>7, <2>1, <2>3, <3>1, <3>2 DEF Marked
    <3>4. x.children \in lists \/ x.children = <<>>
      BY NodeIs DEF Text, Element, Component
    <3>5. <<>> \in lists
      <4>1. Marks(d - 1) /\ TRUE \in BOOLEAN
        OBVIOUS
      <4>2. d - 1 = 0 \/ d - 1 \in 1..Nesting
        BY MergeAssumption
      <4>3. CASE d - 1 = 0
        <5>1. 0 \in 0..Nesting
          BY MergeAssumption
        <5> QED
          BY <1>2, <4>3, <5>1, ListsAre DEF ListsAt
      <4>4. CASE d - 1 \in 1..Nesting
        BY <1>2, <4>4, ListIs
      <4> QED
        BY <4>2, <4>3, <4>4
    <3>6. c \in lists /\ (x.children = <<>> => c = <<>>)
      BY <1>2, <3>1, <3>2, <3>4, <3>5 DEF Marks
    <3>7. PICK z : z = [x EXCEPT !.logical = becomes, !.children = c]
      OBVIOUS
    <3>8. z \in NodesOver(lists)
      BY <3>6, <3>7, NodeMarked
    <3> QED
      BY <1>3, <3>3, <3>7, <3>8
  <2> QED
    BY <2>2, <2>3
<1>9. r = [i \in 1..n |-> r[i]]
  BY <1>6, <1>7 DEF Marked
<1>10. r \in Seq(S) /\ Len(r) = n
  BY <1>8, <1>9, ListOf
<1> QED
  BY <1>2, <1>3, <1>4, <1>5, <1>10, ListIs

LEMMA EveryDepthMarks ==
  \A d \in 0..Nesting : Marks(d)
<1>1. Marks(0)
  <2>1. 0 \in 0..Nesting
    BY MergeAssumption
  <2>2. Lists[0] = {<<>>}
    BY <2>1, ListsAre DEF ListsAt
  <2>3. marked[0] = MarkedAt(marked, 0)
    BY <2>1, MarksAre
  <2>4. ASSUME NEW l \in BOOLEAN PROVE marked[0][<<<<>>, l>>] = <<>>
    <3>1. PICK p : p = <<<<>>, l>>
      OBVIOUS
    <3>2. p \in Lists[0] \X BOOLEAN
      BY <2>2, <3>1
    <3> QED
      BY <2>3, <3>1, <3>2 DEF MarkedAt
  <2> QED
    BY <2>2, <2>4 DEF Marks
<1>2. ASSUME NEW d \in 1..Nesting, Marks(d - 1) PROVE Marks(d)
  <2>1. ASSUME NEW u \in Lists[d], NEW l \in BOOLEAN
        PROVE  marked[d][<<u, l>>] \in Lists[d] /\ Len(marked[d][<<u, l>>]) = Len(u)
    BY <1>2, MarkedIsList
  <2>2. ASSUME NEW l \in BOOLEAN PROVE marked[d][<<<<>>, l>>] = <<>>
    <3>1. PICK u, r : u = <<>> /\ r = marked[d][<<u, l>>]
      OBVIOUS
    <3>2. u \in Lists[d]
      BY <3>1, ListIs
    <3>3. r \in Lists[d] /\ Len(r) = 0
      BY <2>1, <3>1, <3>2
    <3>4. r \in Seq(NodesOver(Lists[d - 1]))
      BY <3>3, ListIs
    <3> QED
      BY <3>1, <3>3, <3>4
  <2> QED
    BY <2>1, <2>2 DEF Marks
<1> DEFINE T == {d \in Nat : Marks(d)}
<1>3. 0 \in T /\ \A d \in 1..Nesting : d - 1 \in T => d \in T
  BY <1>1, <1>2
<1> HIDE DEF T
<1>4. 0..Nesting \subseteq T
  BY <1>3, EveryDepth
<1> QED
  BY <1>4 DEF T

Fits(d) == ChildrenShow(Lists[d], synchronized[d], Shows[d])

LEMMA ShowsIs ==
  ASSUME NEW d \in 1..Nesting, NEW a \in Lists[d], NEW b \in Lists[d], NEW r \in Lists[d],
         NEW M \in Matchings(a, b), MatchingCost(M, a, b) = LeastCost(a, b),
         Follows(r, M, a, b, Shows[d - 1])
  PROVE  Shows[d][<<a, b, r>>]
<1>1. d \in 0..Nesting /\ d # 0
  BY MergeAssumption
<1>2. Shows[d] = ShowsAt(Shows, d)
  BY <1>1, ShowsAre
<1>3. PICK p : p = <<a, b, r>>
  OBVIOUS
<1>4. p \in Lists[d] \X Lists[d] \X Lists[d] /\ p[1] = a /\ p[2] = b /\ p[3] = r
  BY <1>3
<1>5. \E m \in Matchings(p[1], p[2]) :
        /\ MatchingCost(m, p[1], p[2]) = LeastCost(p[1], p[2])
        /\ Follows(p[3], m, p[1], p[2], Shows[d - 1])
  BY <1>4
<1>6. ShowsAt(Shows, d)[p]
  BY <1>4, <1>5 DEF ShowsAt
<1> QED
  BY <1>2, <1>3, <1>6

LEMMA MergeShows ==
  ASSUME NEW d \in 1..Nesting, Fits(d - 1), NEW a \in Lists[d], NEW b \in Lists[d],
         NEW r, r = synchronized[d][<<a, b>>]
  PROVE  r \in Lists[d] /\ Shows[d][<<a, b, r>>] /\ Len(r) = Len(b)
<1>1. d \in 0..Nesting /\ d # 0
  BY MergeAssumption
<1>2. PICK sync, below, lists :
        sync = synchronized[d - 1] /\ below = Shows[d - 1] /\ lists = Lists[d - 1]
  OBVIOUS
<1>3. ChildrenShow(lists, sync, below)
  BY <1>2 DEF Fits
<1>4. PICK S : S = NodesOver(lists)
  OBVIOUS
<1>5. a \in Seq(S) /\ b \in Seq(S) /\ 2 * Len(a) <= MaxValue /\ 2 * Len(b) <= MaxValue
  BY <1>2, <1>4, ListIs
<1>6. PICK m, n : m = Len(a) /\ n = Len(b)
  OBVIOUS
<1>7. m \in Nat /\ n \in Nat /\ m + n <= MaxValue
  <2>1. m \in Nat /\ n \in Nat
    BY <1>5, <1>6
  <2> QED
    BY <1>5, <1>6, <2>1, MaxValueAssumption
<1>8. DOMAIN a = 1..m /\ DOMAIN b = 1..n
  BY <1>5, <1>6
<1>9. (\A q \in 1..m : a[q] \in S) /\ (\A q \in 1..n : b[q] \in S)
  BY <1>5, <1>6, ElementOfSeq
<1>10. Comparable(a, b, m, n)
  BY <1>4, <1>9, NodesCompare DEF Comparable
<1>11. ASSUME NEW k \in 1..m, NEW q \in 1..n, NEW z,
              \/ UpdateCost(a[k], b[q]) = "none" /\ z = treatAsMatch(a[k], b[q], sync)
              \/ UpdateCost(a[k], b[q]) = "some" /\ z = treatAsSubstitution(a[k], b[q])
       PROVE  z \in S /\ Kept(z, a[k], b[q], below)
  <2>1. PICK x, y : x = a[k] /\ y = b[q]
    OBVIOUS
  <2>2. x \in NodesOver(lists) /\ y \in NodesOver(lists)
    BY <1>4, <1>9, <2>1
  <2>3. CASE UpdateCost(x, y) = "none" /\ z = treatAsMatch(x, y, sync)
    BY <1>3, <1>4, <2>1, <2>2, <2>3, MatchShows
  <2>4. CASE UpdateCost(x, y) = "some" /\ z = treatAsSubstitution(x, y)
    BY <1>3, <1>4, <2>1, <2>2, <2>4, SubstitutionShows
  <2> QED
    BY <1>11, <2>1, <2>3, <2>4
<1>12. Accepts(S, a, b, m, n, sync)
  <2> SUFFICES ASSUME NEW q \in 1..n, NEW z \in Origins(a, m, b[q], sync) PROVE z \in S
    BY DEF Accepts
  <2>1. CASE z = b[q]
    BY <1>9, <2>1
  <2>2. ASSUME NEW k \in 1..m, UpdateCost(a[k], b[q]) = "none", z = treatAsMatch(a[k], b[q], sync)
        PROVE  z \in S
    BY <1>11, <2>2
  <2>3. ASSUME NEW k \in 1..m, UpdateCost(a[k], b[q]) = "some", z = treatAsSubstitution(a[k], b[q])
        PROVE  z \in S
    BY <1>11, <2>3
  <2> QED
    BY <2>1, <2>2, <2>3 DEF Origins
<1>13. r = Merged(a, b, sync)
  <2>1. PICK p : p = <<a, b>>
    OBVIOUS
  <2>2. p \in Lists[d] \X Lists[d] /\ p[1] = a /\ p[2] = b
    BY <2>1
  <2>3. synchronized[d] = MergedAt(synchronized, d)
    BY <1>1, MergesAre
  <2>4. MergedAt(synchronized, d)[p] = Merged(p[1], p[2], synchronized[d - 1])
    BY <1>1, <2>2 DEF MergedAt
  <2> QED
    BY <1>2, <2>1, <2>2, <2>3, <2>4
<1>14. PICK M : MergedFrom(r, M, a, b, m, n, sync, S)
  BY <1>5, <1>6, <1>7, <1>10, <1>12, <1>13, MergedIs
<1>15. /\ r \in Seq(S) /\ Len(r) = n /\ M \in Matchings(a, b)
       /\ MatchingCost(M, a, b) = LeastCost(a, b)
       /\ \A q \in 1..n : Origin(r[q], M, m, a, b, q, sync)
  BY <1>14 DEF MergedFrom
<1>16. r \in Lists[d]
  BY <1>2, <1>4, <1>5, <1>6, <1>15, ListIs
<1>17. Follows(r, M, a, b, below)
  <2>1. DOMAIN r = 1..n
    BY <1>15
  <2>2. ASSUME NEW q \in 1..n
        PROVE  \/ r[q] = b[q] /\ \A k \in 1..m : M[k] # q
               \/ \E k \in 1..m : M[k] = q /\ Kept(r[q], a[k], b[q], below)
    <3>1. Origin(r[q], M, m, a, b, q, sync)
      BY <1>15
    <3>2. ASSUME NEW k \in 1..m, M[k] = q, UpdateCost(a[k], b[q]) = "none",
                 r[q] = treatAsMatch(a[k], b[q], sync)
          PROVE  Kept(r[q], a[k], b[q], below)
      BY <1>11, <3>2
    <3>3. ASSUME NEW k \in 1..m, M[k] = q, UpdateCost(a[k], b[q]) = "some",
                 r[q] = treatAsSubstitution(a[k], b[q])
          PROVE  Kept(r[q], a[k], b[q], below)
      BY <1>11, <3>3
    <3> QED
      BY <3>1, <3>2, <3>3 DEF Origin
  <2> QED
    BY <1>8, <2>1, <2>2 DEF Follows
<1>18. Shows[d][<<a, b, r>>]
  BY <1>2, <1>15, <1>16, <1>17, ShowsIs
<1> QED
  BY <1>6, <1>15, <1>16, <1>18

LEMMA EveryDepthFits ==
  \A d \in 0..Nesting : Fits(d)
<1>1. Fits(0)
  <2>1. 0 \in 0..Nesting
    BY MergeAssumption
  <2>2. Lists[0] = {<<>>}
    BY <2>1, ListsAre DEF ListsAt
  <2>3. synchronized[0] = MergedAt(synchronized, 0) /\ Shows[0] = ShowsAt(Shows, 0)
    BY <2>1, MergesAre, ShowsAre
  <2>4. synchronized[0][<<<<>>, <<>>>>] = <<>>
    <3>1. PICK p : p = <<<<>>, <<>>>>
      OBVIOUS
    <3>2. p \in Lists[0] \X Lists[0]
      BY <2>2, <3>1
    <3> QED
      BY <2>3, <3>1, <3>2 DEF MergedAt
  <2>5. Shows[0][<<<<>>, <<>>, <<>>>>]
    <3>1. PICK p : p = <<<<>>, <<>>, <<>>>>
      OBVIOUS
    <3>2. p \in Lists[0] \X Lists[0] \X Lists[0]
      BY <2>2, <3>1
    <3>3. ShowsAt(Shows, 0)[p]
      BY <3>2 DEF ShowsAt
    <3> QED
      BY <2>3, <3>1, <3>3
  <2> QED
    BY <2>2, <2>4, <2>5 DEF Fits, ChildrenShow
<1>2. ASSUME NEW d \in 1..Nesting, Fits(d - 1) PROVE Fits(d)
  <2>1. <<>> \in Lists[d]
    BY ListIs
  <2>2. ASSUME NEW u \in Lists[d], NEW v \in Lists[d]
        PROVE  /\ synchronized[d][<<u, v>>] \in Lists[d]
               /\ Shows[d][<<u, v, synchronized[d][<<u, v>>]>>]
               /\ Len(synchronized[d][<<u, v>>]) = Len(v)
    BY <1>2, MergeShows
  <2>3. synchronized[d][<<<<>>, <<>>>>] = <<>>
    <3>1. PICK u, r : u = <<>> /\ r = synchronized[d][<<u, u>>]
      OBVIOUS
    <3>2. r \in Lists[d] /\ Len(r) = 0
      BY <2>1, <2>2, <3>1
    <3>3. r \in Seq(NodesOver(Lists[d - 1]))
      BY <3>2, ListIs
    <3> QED
      BY <3>1, <3>2, <3>3
  <2> QED
    BY <2>1, <2>2, <2>3 DEF Fits, ChildrenShow
<1> DEFINE T == {d \in Nat : Fits(d)}
<1>3. 0 \in T /\ \A d \in 1..Nesting : d - 1 \in T => d \in T
  BY <1>1, <1>2
<1> HIDE DEF T
<1>4. 0..Nesting \subseteq T
  BY <1>3, EveryDepth
<1> QED
  BY <1>4 DEF T

-----------------------------------------------------------------------------
(* The page.                                                               *)

MergeInv ==
  /\ pageContent \in Lists[Nesting] /\ before \in Lists[Nesting] /\ source \in Lists[Nesting]
  /\ pageLogical \in BOOLEAN

LEMMA SynchronizeKeeps ==
  ASSUME MergeInv, NEW new \in Contents, Synchronize(new)
  PROVE  MergeInv' /\ Shows[Nesting][<<before', source', pageContent'>>]
<1>1. Nesting \in 1..Nesting /\ Nesting \in 0..Nesting /\ Nesting - 1 \in 0..Nesting
  BY MergeAssumption
<1>2. PICK x \in Lists[Nesting], y \in Lists[Nesting] : x = pageContent /\ y = new
  BY MergeAssumption DEF MergeInv
<1>3. Marks(Nesting) /\ Fits(Nesting - 1)
  BY <1>1, EveryDepthMarks, EveryDepthFits
<1>4. PICK u : u = marked[Nesting][<<y, FALSE>>]
  OBVIOUS
<1>5. u \in Lists[Nesting]
  BY <1>3, <1>4 DEF Marks
<1>6. PICK v, w : v = marked[Nesting][<<x, TRUE>>] /\ w = marked[Nesting][<<u, TRUE>>]
  OBVIOUS
<1>7. v \in Lists[Nesting] /\ w \in Lists[Nesting]
  BY <1>3, <1>5, <1>6 DEF Marks
<1>8. (before' = v /\ source' = w) \/ (before' = x /\ source' = u)
  BY <1>2, <1>4, <1>6
     DEF Synchronize, toLogicalElements, upgradeComponentCommentsToLogicalRootComments
<1>9. PICK a \in Lists[Nesting], b \in Lists[Nesting] : before' = a /\ source' = b
  BY <1>5, <1>7, <1>8
<1>10. PICK r : r = synchronized[Nesting][<<a, b>>]
  OBVIOUS
<1>11. pageContent' = r
  BY <1>9, <1>10 DEF Synchronize, synchronizeDomContent
<1>12. r \in Lists[Nesting] /\ Shows[Nesting][<<a, b, r>>]
  BY <1>1, <1>3, <1>10, MergeShows
<1>13. pageLogical' \in BOOLEAN
  BY DEF Synchronize, MergeInv
<1> QED
  BY <1>9, <1>11, <1>12, <1>13 DEF MergeInv

LEMMA ActivateKeeps ==
  ASSUME MergeInv, NEW i \in DOMAIN pageContent, Activate(i)
  PROVE  MergeInv' /\ merges' = merges
<1>1. Nesting \in 1..Nesting
  BY MergeAssumption
<1>2. PICK a \in Lists[Nesting] : a = pageContent
  BY DEF MergeInv
<1>3. PICK lists, S : lists = Lists[Nesting - 1] /\ S = NodesOver(lists)
  OBVIOUS
<1>4. a \in Seq(S) /\ 2 * Len(a) <= MaxValue
  BY <1>1, <1>2, <1>3, ListIs
<1>5. PICK n \in Nat : n = Len(a)
  BY <1>4
<1>6. DOMAIN a = 1..n /\ i \in 1..n
  BY <1>2, <1>4, <1>5
<1>7. a[i] \in S
  BY <1>4, <1>5, <1>6, ElementOfSeq
<1>8. PICK x : x = [a[i] EXCEPT !.interactive = TRUE, !.children = LiveContent]
  OBVIOUS
<1>9. PICK r : r = [a EXCEPT ![i] = x]
  OBVIOUS
<1>10. pageContent' = r
  <2>1. pageContent' = [a EXCEPT ![i].interactive = TRUE, ![i].children = LiveContent]
    BY <1>2 DEF Activate
  <2>2. r = [a EXCEPT ![i].interactive = TRUE, ![i].children = LiveContent]
    BY <1>4, <1>6, <1>8, <1>9
  <2> QED
    BY <2>1, <2>2
<1>11. a[i] \in Component(lists)
  <2>1. a[i].kind = "component"
    BY <1>2 DEF Activate
  <2> QED
    BY <1>3, <1>7, <2>1, NodeIs
<1>12. LiveContent \in lists
  BY <1>3, MergeAssumption
<1>13. x \in S
  <2>1. x \in Component(lists)
    BY <1>8, <1>11, <1>12 DEF Component
  <2> QED
    BY <1>3, <2>1, IsNode
<1>14. r \in Seq(S) /\ Len(r) = n
  <2>1. r = [q \in 1..n |-> r[q]] /\ \A q \in 1..n : r[q] = IF q = i THEN x ELSE a[q]
    BY <1>6, <1>9
  <2>2. \A q \in 1..n : r[q] \in S
    BY <1>4, <1>5, <1>13, <2>1, ElementOfSeq
  <2> QED
    BY <2>1, <2>2, ListOf
<1>15. r \in Lists[Nesting]
  BY <1>1, <1>3, <1>4, <1>5, <1>14, ListIs
<1> QED
  BY <1>10, <1>15 DEF MergeInv, Activate

LEMMA MergeInitHolds ==
  MergeInit => MergeInv
<1>1. Nesting \in 1..Nesting
  BY MergeAssumption
<1>2. <<>> \in Lists[Nesting]
  BY <1>1, ListIs
<1> QED
  BY <1>2 DEF MergeInit, MergeInv

LEMMA MergeSteps ==
  ASSUME MergeInv, [MergeNext]_mergeVars
  PROVE  /\ MergeInv'
         /\ [merges' # merges => Shows[Nesting][<<before', source', pageContent'>>]]_mergeVars
<1>1. CASE \E new \in Contents : Synchronize(new)
  BY <1>1, SynchronizeKeeps
<1>2. CASE \E i \in DOMAIN pageContent : Activate(i)
  BY <1>2, ActivateKeeps
<1>3. CASE UNCHANGED mergeVars
  BY <1>3 DEF mergeVars, MergeInv
<1> QED
  BY <1>1, <1>2, <1>3 DEF MergeNext

THEOREM MergeCorrect == MergeSpec => []MergeInv
<1>1. MergeInv /\ [MergeNext]_mergeVars => MergeInv'
  BY MergeSteps
<1> QED
  BY <1>1, MergeInitHolds, PTL DEF MergeSpec

(* After each merge, whatever the page held and whatever arrived, to any   *)
(* depth, the page shows what was merged into it, and keeps as many of the *)
(* old nodes as it can. The permanent elements among these hold what they  *)
(* held, and so do the components that .NET rendered into                  *)
(* (synchronizeDomContentCore).                                            *)
THEOREM ContentShown == MergeSpec => PageShowsContent
<1>1. MergeInv /\ [MergeNext]_mergeVars
        => [merges' # merges => Shows[Nesting][<<before', source', pageContent'>>]]_mergeVars
  BY MergeSteps
<1> QED
  BY <1>1, MergeCorrect, PTL DEF MergeSpec, PageShowsContent

(* No way of matching the two lists in order costs less than the script    *)
(* that computeEditScript returns, for lists of any length.                *)
THEOREM ScriptMinimal == MergeSpec => []ScriptIsMinimal
<1>1. MergeInv => ScriptIsMinimal
  <2> SUFFICES ASSUME MergeInv PROVE ScriptIsMinimal
    OBVIOUS
  <2>1. Nesting \in 1..Nesting
    BY MergeAssumption
  <2>2. PICK S : S = NodesOver(Lists[Nesting - 1])
    OBVIOUS
  <2>3. PICK a, b : a = before /\ b = source
    OBVIOUS
  <2>4. a \in Seq(S) /\ b \in Seq(S) /\ 2 * Len(a) <= MaxValue /\ 2 * Len(b) <= MaxValue
    BY <2>1, <2>2, <2>3, ListIs DEF MergeInv
  <2>5. PICK m, n : m = Len(a) /\ n = Len(b)
    OBVIOUS
  <2>6. m \in Nat /\ n \in Nat
    BY <2>4, <2>5
  <2>7. m + n <= MaxValue
    BY <2>4, <2>5, <2>6, MaxValueAssumption
  <2>8. Comparable(a, b, m, n)
    <3>1. (\A q \in 1..m : a[q] \in S) /\ (\A q \in 1..n : b[q] \in S)
      BY <2>4, <2>5, ElementOfSeq
    <3> QED
      BY <2>2, <3>1, NodesCompare DEF Comparable
  <2>9. ScriptCost(computeEditScript(a, b).edits) = LeastCost(a, b)
    BY <2>4, <2>5, <2>6, <2>7, <2>8, CheapestScript
  <2> QED
    BY <2>3, <2>9 DEF ScriptIsMinimal
<1> QED
  BY <1>1, MergeCorrect, PTL

-----------------------------------------------------------------------------
(* Components of a page. The nodes are numbered in document order, so that *)
(* what is inside of a node is all between it and its next sibling.        *)

Tree(N) ==
  /\ N \in Nat /\ N = Len(markup) /\ DOMAIN markup = 1..N /\ NoNode = N + 1
  /\ \A i \in 1..N : markup[i].parent \in Nat /\ markup[i].parent < i
  /\ \A i \in 1..N : IsMarker(i) => \A j \in 1..N : markup[j].parent # i
  /\ \A i, j \in 1..N : markup[j].parent < i /\ i < j => markup[j].parent <= markup[i].parent

LEMMA TreeOf ==
  ASSUME IsDocument(markup)
  PROVE  \E N \in Nat : Tree(N)
<1>1. PICK N \in Nat : N = Len(markup) /\ DOMAIN markup = 1..N /\ NoNode = N + 1
  BY DEF IsDocument, NoNode
<1>2. ASSUME NEW i \in 1..N
      PROVE  markup[i].parent \in Nat /\ markup[i].parent < i
  <2>1. markup[i] \in PageNodes
    BY <1>1 DEF IsDocument
  <2>2. markup[i].parent \in Nat
    BY <2>1 DEF PageNodes
  <2> QED
    BY <1>1, <2>2 DEF IsDocument
<1>3. ASSUME NEW i \in 1..N, IsMarker(i), NEW j \in 1..N
      PROVE  markup[j].parent # i
  <2>1. markup[j].parent # 0 => markup[markup[j].parent].kind = "element"
    BY <1>1 DEF IsDocument
  <2> QED
    BY <1>3, <2>1 DEF IsMarker
<1>4. \A i, j \in 1..N : markup[j].parent < i /\ i < j => markup[j].parent <= markup[i].parent
  BY <1>1 DEF IsDocument
<1> QED
  BY <1>1, <1>2, <1>3, <1>4 DEF Tree

(* The first of some nodes.                                                *)
LEMMA FirstIs ==
  ASSUME NEW N, Tree(N), NEW nodes, nodes \subseteq 1..N, NEW f, f = FirstOf(nodes)
  PROVE  /\ f \in 1..(N + 1)
         /\ nodes = {} => f = N + 1
         /\ nodes # {} => f \in nodes /\ f \in 1..N
         /\ f # N + 1 => f \in nodes
         /\ \A j \in nodes : f <= j
<1>1. CASE nodes = {}
  BY <1>1 DEF FirstOf, Tree
<1>2. CASE nodes # {}
  <2>0. nodes \subseteq Nat
    BY DEF Tree
  <2>1. PICK x \in nodes : \A y \in nodes : x <= y
    BY <1>2, <2>0, LeastOf
  <2>2. f = CHOOSE y \in nodes : \A j \in nodes : y <= j
    BY <1>2 DEF FirstOf, Min
  <2>3. f \in nodes /\ \A j \in nodes : f <= j
    BY <2>1, <2>2
  <2>4. f \in 1..N
    BY <2>3
  <2> QED
    BY <1>2, <2>3, <2>4 DEF Tree
<1> QED
  BY <1>1, <1>2

(* A node with what is inside of it, and with its later siblings and what  *)
(* is inside of them.                                                      *)
Inside(N, i) == {j \in 1..N : Within(j, i)}

From(N, i) == {j \in 1..N : i <= j /\ \A k \in i..j : markup[i].parent <= markup[k].parent}

LEMMA InsideIs ==
  ASSUME NEW N, Tree(N), NEW i \in 1..N, NEW c, c = FirstOf(childNodes(i))
  PROVE  /\ c = i + 1 \/ c = N + 1
         /\ i \in Inside(N, i)
         /\ \A j \in Inside(N, i) : j = i \/ j \in From(N, c)
         /\ \A j \in From(N, c) : j \in Inside(N, i) /\ i < j
<1>1. childNodes(i) \subseteq 1..N /\ \A j \in 1..N : j \in childNodes(i) <=> markup[j].parent = i
  BY DEF childNodes, Tree
<1>2. c \in 1..(N + 1) /\ (c # N + 1 => c \in childNodes(i)) /\ \A j \in childNodes(i) : c <= j
  BY <1>1, FirstIs
<1>3. N \in Nat
  BY DEF Tree
<1>4. CASE c = N + 1
  <2>1. \A j \in 1..N : markup[j].parent # i
    BY <1>1, <1>2, <1>3, <1>4
  <2>2. From(N, c) = {}
    BY <1>3, <1>4 DEF From
  <2>3. ASSUME NEW j \in Inside(N, i)
        PROVE  j = i
    <3>1. j \in 1..N /\ i <= j /\ \A k \in i + 1 .. j : i <= markup[k].parent
      BY DEF Inside, Within
    <3>2. SUFFICES ASSUME i < j PROVE FALSE
      BY <1>3, <3>1, <3>2
    <3>3. i + 1 \in i + 1 .. j /\ i + 1 \in 1..N
      BY <1>3, <3>1, <3>2
    <3>4. i <= markup[i + 1].parent /\ markup[i + 1].parent < i + 1 /\ markup[i + 1].parent \in Nat
      BY <3>1, <3>3 DEF Tree
    <3> QED
      BY <2>1, <3>3, <3>4
  <2>4. i \in Inside(N, i)
    BY <1>3 DEF Inside, Within
  <2> QED
    BY <1>4, <2>2, <2>3, <2>4
<1>5. CASE c # N + 1
  <2>1. c \in 1..N /\ markup[c].parent = i /\ i < c
    BY <1>1, <1>2, <1>3, <1>5 DEF Tree
  <2>2. c = i + 1
    <3>1. SUFFICES ASSUME i + 1 < c PROVE FALSE
      BY <1>3, <2>1, <3>1
    <3>2. i + 1 \in 1..N
      BY <1>3, <2>1, <3>1
    <3>3. i <= markup[i + 1].parent /\ markup[i + 1].parent < i + 1 /\ markup[i + 1].parent \in Nat
      BY <2>1, <3>1, <3>2 DEF Tree
    <3>4. markup[i + 1].parent = i
      BY <3>3
    <3> QED
      BY <1>1, <1>2, <1>3, <3>1, <3>2, <3>4
  <2>3. \A j \in 1..N : j \in From(N, c) <=> i < j /\ Within(j, i)
    <3> TAKE j \in 1..N
    <3>1. c <= j <=> i < j
      BY <1>3, <2>2
    <3>2. c..j = i + 1 .. j
      BY <2>2
    <3> QED
      BY <2>1, <2>2, <3>1, <3>2 DEF From, Within
  <2>4. i \in Inside(N, i)
    BY <1>3 DEF Inside, Within
  <2>5. \A j \in Inside(N, i) : j = i \/ i < j
    BY <1>3 DEF Inside, Within
  <2> QED
    BY <2>2, <2>3, <2>4, <2>5 DEF Inside, From
<1> QED
  BY <1>4, <1>5

(* From a node on: the node with what is inside, then from its next        *)
(* sibling on.                                                             *)
LEMMA FromIs ==
  ASSUME NEW N, Tree(N), NEW i \in 1..N, NEW s, s = FirstOf(nextSiblings(i))
  PROVE  /\ s \in (i + 1)..(N + 1)
         /\ s # N + 1 => s \in 1..N /\ markup[s].parent = markup[i].parent
         /\ \A k \in 1..N : i < k /\ markup[k].parent = markup[i].parent => s <= k
         /\ From(N, i) = Inside(N, i) \cup From(N, s)
         /\ \A j \in Inside(N, i), k \in From(N, s) : j < k
<1>1. N \in Nat
  BY DEF Tree
<1>2. nextSiblings(i) \subseteq 1..N
      /\ \A j \in 1..N : j \in nextSiblings(i) <=> markup[j].parent = markup[i].parent /\ i < j
  BY DEF nextSiblings, childNodes, Tree
<1>3. s \in 1..(N + 1) /\ (s # N + 1 => s \in nextSiblings(i)) /\ \A j \in nextSiblings(i) : s <= j
  BY <1>2, FirstIs
<1>4. s \in (i + 1)..(N + 1) /\ (s # N + 1 => s \in 1..N /\ markup[s].parent = markup[i].parent)
  BY <1>1, <1>2, <1>3
<1>5. \A k \in 1..N : i < k /\ markup[k].parent = markup[i].parent => s <= k
  BY <1>2, <1>3
<1>6. PICK p : p = markup[i].parent
  OBVIOUS
<1>7. p \in Nat /\ p < i
  BY <1>6 DEF Tree
<1>8. \A k \in 1..N : markup[k].parent \in Nat /\ markup[k].parent < k
  BY DEF Tree
<1>9. \A k, j \in 1..N : markup[j].parent < k /\ k < j => markup[j].parent <= markup[k].parent
  BY DEF Tree
<1>10. ASSUME NEW j \in From(N, i), j < s
       PROVE  j \in Inside(N, i)
  <2>1. j \in 1..N /\ i <= j /\ \A k \in i..j : p <= markup[k].parent
    BY <1>6 DEF From
  <2>2. ASSUME NEW k \in (i + 1)..j
        PROVE  i <= markup[k].parent
    <3>1. k \in 1..N /\ i < k /\ k \in i..j /\ k < s
      BY <1>1, <1>3, <1>10, <2>1
    <3>2. markup[k].parent \in Nat /\ p <= markup[k].parent /\ markup[k].parent # p
      BY <1>1, <1>3, <1>5, <1>6, <1>8, <2>1, <3>1
    <3>3. SUFFICES ASSUME markup[k].parent < i PROVE FALSE
      BY <3>2, <3>3
    <3>4. markup[k].parent <= p
      BY <1>6, <1>9, <3>1, <3>3
    <3> QED
      BY <1>7, <3>2, <3>4
  <2> QED
    BY <2>1, <2>2 DEF Inside, Within
<1>11. ASSUME NEW j \in From(N, i), ~(j < s)
       PROVE  j \in From(N, s)
  <2>1. j \in 1..N /\ i <= j /\ \A k \in i..j : p <= markup[k].parent
    BY <1>6 DEF From
  <2>2. s <= j /\ s \in 1..N /\ markup[s].parent = p
    BY <1>1, <1>4, <1>6, <1>11, <2>1
  <2>3. \A k \in s..j : k \in i..j
    BY <1>1, <1>4, <2>1, <2>2
  <2> QED
    BY <2>1, <2>2, <2>3 DEF From
<1>12. ASSUME NEW j \in Inside(N, i)
       PROVE  j < s /\ j \in From(N, i)
  <2>1. j \in 1..N /\ i <= j /\ \A k \in (i + 1)..j : i <= markup[k].parent
    BY DEF Inside, Within
  <2>2. ASSUME NEW k \in i..j
        PROVE  p <= markup[k].parent
    <3>1. k = i \/ k \in (i + 1)..j
      BY <1>1, <2>1
    <3>2. k \in 1..N
      BY <1>1, <2>1
    <3> QED
      BY <1>6, <1>7, <1>8, <2>1, <3>1, <3>2
  <2>3. j < s
    <3>1. SUFFICES ASSUME s <= j PROVE FALSE
      BY <1>1, <1>3, <2>1, <3>1
    <3>2. s \in 1..N /\ s \in (i + 1)..j
      BY <1>1, <1>4, <2>1, <3>1
    <3>3. i <= markup[s].parent /\ markup[s].parent = p
      BY <1>1, <1>4, <1>6, <2>1, <3>2
    <3> QED
      BY <1>7, <3>3
  <2> QED
    BY <1>6, <2>1, <2>2, <2>3 DEF From
<1>13. ASSUME NEW j \in From(N, s)
       PROVE  j \in From(N, i) /\ s <= j
  <2>1. j \in 1..N /\ s <= j /\ \A k \in s..j : markup[s].parent <= markup[k].parent
    BY DEF From
  <2>2. s \in 1..N /\ markup[s].parent = p /\ i < s
    BY <1>1, <1>4, <1>6, <2>1
  <2>3. ASSUME NEW k \in i..j
        PROVE  p <= markup[k].parent
    <3>1. k \in 1..N
      BY <1>1, <2>1
    <3>2. CASE k = i
      BY <1>6, <1>7, <3>2
    <3>3. CASE s <= k
      <4>1. k \in s..j
        BY <1>1, <2>2, <3>1, <3>3
      <4> QED
        BY <2>1, <2>2, <4>1
    <3>4. CASE k # i /\ k < s
      <4>1. markup[s].parent < k /\ k < s
        BY <1>1, <1>7, <2>2, <3>1, <3>4
      <4> QED
        BY <1>9, <2>2, <3>1, <4>1
    <3> QED
      BY <1>1, <2>2, <3>1, <3>2, <3>3, <3>4
  <2>4. i <= j
    BY <1>1, <2>1, <2>2
  <2> QED
    BY <1>6, <2>1, <2>3, <2>4 DEF From
<1>14. From(N, i) = Inside(N, i) \cup From(N, s)
  BY <1>10, <1>11, <1>12, <1>13
<1>15. ASSUME NEW j \in Inside(N, i), NEW k \in From(N, s) PROVE j < k
  <2>1. j < s /\ s <= k /\ j \in 1..N /\ k \in 1..N
    BY <1>12, <1>13 DEF Inside, From
  <2> QED
    BY <1>1, <1>3, <2>1
<1> QED
  BY <1>4, <1>5, <1>14, <1>15

(* What is in the open, and where a scan may be: not at the end of         *)
(* prerendered content.                                                    *)
Scannable(N, i) == InTheOpen(i) /\ \A a \in 1..N : ~Delimit(a, i)

LEMMA EnclosedIs ==
  ASSUME NEW N, Tree(N), NEW j \in 1..N
  PROVE  Enclosed(j) <=> \E a, k \in 1..N :
           /\ markup[a].parent = markup[j].parent /\ markup[k].parent = markup[j].parent
           /\ Delimit(a, k) /\ a < j /\ j < k
  BY DEF Enclosed, childNodes, Tree

LEMMA DelimitIs ==
  ASSUME NEW N, Tree(N), NEW i \in 1..N, NEW k \in 1..N, Delimit(i, k)
  PROVE  /\ i < k /\ markup[k].parent = markup[i].parent
         /\ markup[i].kind = "start" /\ markup[k].kind = "end" /\ markup[i].id = markup[k].id
         /\ IsMarker(i) /\ IsMarker(k)
         /\ \A j \in 1..N : markup[j].parent = markup[i].parent /\ i < j /\ j < k => ~IsMarker(j)
  BY DEF Delimit, IsMarker, childNodes, Tree

(* Later siblings of what is in the open are so too, unless enclosed.      *)
LEMMA OpenSibling ==
  ASSUME NEW N, Tree(N), NEW i \in 1..N, NEW s \in 1..N, i < s,
         markup[s].parent = markup[i].parent, InTheOpen(i), ~Enclosed(s)
  PROVE  InTheOpen(s)
<1>1. N \in Nat /\ DOMAIN markup = 1..N /\ markup[i].parent \in Nat /\ markup[i].parent < i
  BY DEF Tree
<1>2. SUFFICES ASSUME NEW a \in 1..N, Within(s, a), a # s
               PROVE  ~Enclosed(a)
  BY <1>1 DEF InTheOpen
<1>3. a <= s /\ \A k \in (a + 1)..s : a <= markup[k].parent
  BY <1>2 DEF Within
<1>4. s \in (a + 1)..s
  BY <1>1, <1>2, <1>3
<1>5. a <= markup[i].parent
  BY <1>3, <1>4
<1>6. a <= i /\ \A k \in (a + 1)..i : k \in (a + 1)..s
  BY <1>1, <1>5
<1>7. Within(i, a)
  BY <1>3, <1>6 DEF Within
<1> QED
  BY <1>1, <1>7 DEF InTheOpen

LEMMA OpenChild ==
  ASSUME NEW N, Tree(N), NEW i \in 1..N, i + 1 \in 1..N, markup[i + 1].parent = i, InTheOpen(i)
  PROVE  Scannable(N, i + 1)
<1>1. N \in Nat /\ DOMAIN markup = 1..N
  BY DEF Tree
<1>2. ASSUME NEW a \in 1..N, markup[a].parent = i
      PROVE  ~(a < i + 1)
  <2>1. i < a
    BY <1>2 DEF Tree
  <2> QED
    BY <1>1, <2>1
<1>3. ~Enclosed(i + 1)
  BY <1>2, EnclosedIs
<1>4. \A a \in 1..N : ~Delimit(a, i + 1)
  BY <1>2, DelimitIs
<1>5. ASSUME NEW a \in 1..N, Within(i + 1, a), a # i + 1
      PROVE  ~Enclosed(a)
  <2>1. a <= i /\ \A k \in (a + 1)..i : a <= markup[k].parent
    BY <1>1, <1>5 DEF Within
  <2>2. Within(i, a)
    BY <2>1 DEF Within
  <2> QED
    BY <1>1, <2>2 DEF InTheOpen
<1> QED
  BY <1>1, <1>3, <1>4, <1>5 DEF Scannable, InTheOpen

(* A scan goes on with the next sibling of a node that starts nothing.     *)
LEMMA ScanNext ==
  ASSUME NEW N, Tree(N), NEW i \in 1..N, InTheOpen(i), \A k \in 1..N : ~Delimit(i, k),
         NEW s, s = FirstOf(nextSiblings(i)), s # N + 1
  PROVE  s \in 1..N /\ Scannable(N, s)
<1>1. N \in Nat /\ DOMAIN markup = 1..N
  BY DEF Tree
<1>2. /\ s \in 1..N /\ i < s /\ markup[s].parent = markup[i].parent
      /\ \A k \in 1..N : i < k /\ markup[k].parent = markup[i].parent => s <= k
  <2>1. /\ s \in (i + 1)..(N + 1) /\ s \in 1..N /\ markup[s].parent = markup[i].parent
        /\ \A k \in 1..N : i < k /\ markup[k].parent = markup[i].parent => s <= k
    BY FromIs
  <2>2. i < s
    BY <1>1, <2>1
  <2> QED
    BY <2>1, <2>2
<1>3. ~Enclosed(i)
  <2>1. Within(i, i)
    BY <1>1 DEF Within
  <2> QED
    BY <1>1, <2>1 DEF InTheOpen
<1>4. ASSUME NEW a \in 1..N, NEW k \in 1..N, Delimit(a, k), a < s, s <= k,
             markup[a].parent = markup[i].parent
      PROVE  FALSE
  <2>1. a < i
    BY <1>1, <1>2, <1>4
  <2>2. i < k /\ markup[k].parent = markup[i].parent
    BY <1>1, <1>2, <1>4, DelimitIs
  <2> QED
    BY <1>3, <1>4, <2>1, <2>2, EnclosedIs
<1>5. ~Enclosed(s)
  <2>1. \A k \in 1..N : s < k => s <= k
    BY <1>1, <1>2
  <2> QED
    BY <1>2, <1>4, <2>1, EnclosedIs
<1>6. InTheOpen(s)
  BY <1>2, <1>5, OpenSibling
<1>7. ASSUME NEW a \in 1..N, Delimit(a, s) PROVE FALSE
  <2>1. a < s /\ markup[a].parent = markup[i].parent /\ s <= s
    BY <1>1, <1>2, <1>7, DelimitIs
  <2> QED
    BY <1>2, <1>4, <1>7, <2>1
<1> QED
  BY <1>2, <1>6, <1>7 DEF Scannable

(* A marker has nothing inside.                                            *)
LEMMA InsideMarker ==
  ASSUME NEW N, Tree(N), NEW i \in 1..N, IsMarker(i)
  PROVE  Inside(N, i) = {i}
<1>1. PICK c : c = FirstOf(childNodes(i))
  OBVIOUS
<1>2. childNodes(i) = {}
  BY DEF childNodes, Tree
<1>3. c = N + 1
  BY <1>1, <1>2, FirstIs
<1>4. N \in Nat /\ From(N, c) = {}
  BY <1>3 DEF From, Tree
<1> QED
  BY <1>1, <1>4, InsideIs

(* What is from i on is inside of i or of a sibling.                       *)
LEMMA BranchOf ==
  ASSUME NEW N, Tree(N), NEW i \in 1..N, NEW j \in From(N, i)
  PROVE  \E m \in 1..N : /\ markup[m].parent = markup[i].parent /\ i <= m /\ m <= j
                         /\ Within(j, m)
<1>1. N \in Nat
  BY DEF Tree
<1>2. PICK p : p = markup[i].parent
  OBVIOUS
<1>3. p \in Nat /\ p < i
  BY <1>2 DEF Tree
<1>4. j \in 1..N /\ i <= j /\ \A k \in i..j : p <= markup[k].parent
  BY <1>2 DEF From
<1> DEFINE T == {x \in Nat : \E m \in 1..N : markup[m].parent = p /\ i <= m /\ m <= j /\ x = j - m}
<1>5. j - i \in T
  BY <1>1, <1>2, <1>4
<1>6. PICK x \in T : \A y \in T : x <= y
  BY <1>5, LeastOf
<1>7. PICK m \in 1..N : markup[m].parent = p /\ i <= m /\ m <= j /\ x = j - m
  BY <1>6
<1>8. ASSUME NEW k \in (m + 1)..j
      PROVE  m <= markup[k].parent
  <2>1. k \in 1..N /\ k \in i..j /\ m < k /\ k <= j
    BY <1>1, <1>4, <1>7
  <2>2. markup[k].parent \in Nat /\ p <= markup[k].parent
    BY <1>4, <2>1 DEF Tree
  <2>3. markup[k].parent # p
    <3>1. SUFFICES ASSUME markup[k].parent = p PROVE FALSE
      BY <3>1
    <3>2. j - k \in Nat /\ i <= k /\ ~(x <= j - k)
      BY <1>1, <1>4, <1>7, <2>1
    <3>3. j - k \in T
      BY <2>1, <3>1, <3>2
    <3> QED
      BY <1>6, <3>2, <3>3
  <2>4. SUFFICES ASSUME markup[k].parent < m PROVE FALSE
    BY <1>1, <2>2, <2>4
  <2>5. markup[k].parent <= markup[m].parent
    BY <2>1, <2>4 DEF Tree
  <2> QED
    BY <1>3, <1>7, <2>2, <2>3, <2>5
<1>9. Within(j, m)
  BY <1>7, <1>8 DEF Within
<1> QED
  BY <1>2, <1>7, <1>9

(* Between a start marker and its end nothing is in the open, and the scan *)
(* goes on behind the end.                                                 *)
LEMMA EndOf ==
  ASSUME NEW N, Tree(N), NEW i \in 1..N, InTheOpen(i), NEW k \in 1..N, Delimit(i, k),
         NEW s, s = FirstOf(nextSiblings(k))
  PROVE  /\ s \in (k + 1)..(N + 1) /\ (s # N + 1 => s \in 1..N /\ Scannable(N, s))
         /\ k \in From(N, i) /\ InTheOpen(k)
         /\ \A j \in From(N, s) : j \in From(N, i) /\ k < j
         /\ \A j \in From(N, i) : InTheOpen(j) => j = i \/ j = k \/ j \in From(N, s)
<1>1. N \in Nat /\ DOMAIN markup = 1..N
  BY DEF Tree
<1>2. /\ i < k /\ markup[k].parent = markup[i].parent /\ markup[k].kind = "end"
      /\ IsMarker(i) /\ IsMarker(k)
      /\ \A j \in 1..N : markup[j].parent = markup[i].parent /\ i < j /\ j < k => ~IsMarker(j)
  BY DelimitIs
<1>3. ~Enclosed(k)
  <2>1. SUFFICES ASSUME NEW a \in 1..N, NEW l \in 1..N, Delimit(a, l), a < k, k < l,
                        markup[a].parent = markup[k].parent
                 PROVE  FALSE
    BY EnclosedIs
  <2> QED
    BY <1>2, <2>1, DelimitIs
<1>4. InTheOpen(k)
  BY <1>2, <1>3, OpenSibling
<1>5. /\ s \in (k + 1)..(N + 1)
      /\ From(N, k) = Inside(N, k) \cup From(N, s)
      /\ \A j \in Inside(N, k), l \in From(N, s) : j < l
  BY FromIs
<1>6. Inside(N, k) = {k}
  BY <1>2, InsideMarker
<1>7. ASSUME s # N + 1
      PROVE  s \in 1..N /\ Scannable(N, s)
  <2>1. \A l \in 1..N : ~Delimit(k, l)
    BY <1>2, DelimitIs
  <2> QED
    BY <1>4, <1>7, <2>1, ScanNext
<1>8. ASSUME NEW j \in From(N, k)
      PROVE  j \in From(N, i)
  <2>1. j \in 1..N /\ k <= j /\ \A l \in k..j : markup[i].parent <= markup[l].parent
    BY <1>2 DEF From
  <2>2. ASSUME NEW l \in i..j
        PROVE  markup[i].parent <= markup[l].parent
    <3>1. l \in 1..N
      BY <1>1, <2>1
    <3>2. CASE k <= l
      <4>1. l \in k..j
        BY <1>1, <2>1, <3>1, <3>2
      <4> QED
        BY <2>1, <4>1
    <3>3. CASE l < k
      <4>1. markup[i].parent \in Nat /\ markup[i].parent < i
        BY DEF Tree
      <4>2. markup[k].parent < l /\ l < k
        BY <1>2, <3>1, <3>3, <4>1
      <4>3. markup[k].parent <= markup[l].parent
        BY <3>1, <4>2 DEF Tree
      <4> QED
        BY <1>2, <4>3
    <3> QED
      BY <1>1, <3>1, <3>2, <3>3
  <2>3. i <= j
    BY <1>1, <1>2, <2>1
  <2> QED
    BY <2>1, <2>2, <2>3 DEF From
<1>9. \A j \in From(N, s) : j \in From(N, i) /\ k < j
  BY <1>5, <1>6, <1>8
<1>10. k \in From(N, i)
  BY <1>5, <1>6, <1>8
<1>11. ASSUME NEW j \in From(N, i), InTheOpen(j)
       PROVE  j = i \/ j = k \/ j \in From(N, s)
  <2>1. j \in 1..N /\ i <= j /\ \A l \in i..j : markup[i].parent <= markup[l].parent
    BY DEF From
  <2>2. CASE k <= j
    <3>1. \A l \in k..j : l \in i..j
      BY <1>1, <1>2, <2>1
    <3>2. j \in From(N, k)
      BY <1>2, <2>1, <2>2, <3>1 DEF From
    <3> QED
      BY <1>5, <1>6, <3>2
  <2>3. CASE j < k
    <3>1. PICK m \in 1..N : /\ markup[m].parent = markup[i].parent /\ i <= m /\ m <= j
                            /\ Within(j, m)
      BY BranchOf
    <3>2. CASE m = i
      <4>1. j \in Inside(N, i)
        BY <2>1, <3>1, <3>2 DEF Inside
      <4> QED
        BY <1>2, <4>1, InsideMarker
    <3>3. CASE m # i
      <4>1. i < m /\ m < k
        BY <1>1, <2>1, <2>3, <3>1, <3>3
      <4>2. Enclosed(m)
        BY <1>2, <3>1, <4>1, EnclosedIs
      <4> QED
        BY <1>1, <1>11, <3>1, <4>2 DEF InTheOpen
    <3> QED
      BY <3>2, <3>3
  <2> QED
    BY <1>1, <2>1, <2>2, <2>3
<1> QED
  BY <1>4, <1>5, <1>7, <1>9, <1>10, <1>11

(* The end that belongs to a start marker, if there is one.                *)
LEMMA EndCommentIs ==
  ASSUME NEW N, Tree(N), NEW i \in 1..N, markup[i].kind = "start",
         NEW e, e = getComponentEndComment(i)
  PROVE  \/ e = N + 1 /\ \A k \in 1..N : ~Delimit(i, k)
         \/ e \in 1..N /\ Delimit(i, e)
<1>1. N \in Nat /\ NoNode = N + 1
  BY DEF Tree
<1>2. PICK later : later = {j \in nextSiblings(i) : IsMarker(j)}
  OBVIOUS
<1>3. /\ later \subseteq 1..N
      /\ \A j \in 1..N : j \in later <=> markup[j].parent = markup[i].parent /\ i < j /\ IsMarker(j)
  BY <1>2 DEF nextSiblings, childNodes, Tree
<1>4. PICK n : n = FirstOf(later)
  OBVIOUS
<1>5. /\ n \in 1..(N + 1) /\ (n # N + 1 => n \in later) /\ \A j \in later : n <= j
  BY <1>3, <1>4, FirstIs
<1>6. e = IF n # NoNode /\ validateEndComponentPayload(n, markup[i].id) THEN n ELSE NoNode
  BY <1>2, <1>4 DEF getComponentEndComment
<1>7. ASSUME NEW k \in 1..N, Delimit(i, k)
      PROVE  n = k
  <2>1. /\ i < k /\ markup[k].parent = markup[i].parent /\ IsMarker(k)
        /\ \A j \in 1..N : markup[j].parent = markup[i].parent /\ i < j /\ j < k => ~IsMarker(j)
    BY <1>7, DelimitIs
  <2>2. k \in later /\ n <= k
    BY <1>3, <1>5, <2>1
  <2>3. n \in 1..N /\ n # N + 1
    BY <1>1, <1>5, <2>2
  <2>4. ~(n < k)
    BY <1>3, <1>5, <2>1, <2>3
  <2> QED
    BY <1>1, <2>2, <2>3, <2>4
<1>8. CASE n # NoNode /\ validateEndComponentPayload(n, markup[i].id)
  <2>1. e = n /\ n \in later /\ n \in 1..N
    BY <1>1, <1>3, <1>5, <1>6, <1>8
  <2>2. ASSUME NEW j \in 1..N, markup[j].parent = markup[i].parent, i < j, j < n, IsMarker(j)
        PROVE  FALSE
    <3>1. n <= j
      BY <1>3, <1>5, <2>2
    <3> QED
      BY <1>1, <2>1, <2>2, <3>1
  <2>3. Delimit(i, n)
    <3>1. i < n /\ markup[n].parent = markup[i].parent
      BY <1>3, <2>1
    <3>2. markup[n].kind = "end" /\ markup[n].id = markup[i].id
      BY <1>8 DEF validateEndComponentPayload
    <3>3. \A j \in childNodes(markup[i].parent) : i < j /\ j < n => ~IsMarker(j)
      BY <2>2 DEF childNodes, Tree
    <3> QED
      BY <3>1, <3>2, <3>3 DEF Delimit
  <2> QED
    BY <2>1, <2>3
<1>9. CASE ~(n # NoNode /\ validateEndComponentPayload(n, markup[i].id))
  <2>1. e = N + 1
    BY <1>1, <1>6, <1>9
  <2>2. ASSUME NEW k \in 1..N, Delimit(i, k)
        PROVE  FALSE
    <3>1. n = k /\ markup[n].kind = "end" /\ markup[n].id = markup[i].id
      BY <1>7, <2>2, DelimitIs
    <3>2. n # NoNode
      BY <1>1, <3>1
    <3> QED
      BY <1>9, <3>1, <3>2 DEF validateEndComponentPayload
  <2> QED
    BY <2>1, <2>2
<1> QED
  BY <1>8, <1>9

-----------------------------------------------------------------------------
(* The scan is a recursive function: what a node and its later siblings    *)
(* hold depends on later nodes only.                                       *)
HeldFrom(g, i) ==
  IF i = NoNode THEN Found(<<>>)
  ELSE IF IsMarker(i) THEN getComponentComment(i, g)
  ELSE Then(g[FirstOf(childNodes(i))], g[FirstOf(nextSiblings(i))])

BadStart(i) == markup[i].parent = 0 \/ markup[i].kind = "end" \/ markup[i].type \notin MarkerTypes

EndFor(i) == IF markup[i].id = NoId THEN i ELSE getComponentEndComment(i)

CommentFrom(i, e, rest) ==
  IF BadStart(i) \/ e = NoNode THEN Thrown
  ELSE IF markup[i].type # "webassembly" THEN rest
  ELSE IF ~validateWebAssemblyComponentPayload(i) THEN Thrown
  ELSE Then(Found(<<createWebAssemblyComponentComment(i, e)>>), rest)

LEMMA CommentIs ==
  ASSUME NEW i, NEW g, NEW r, r = getComponentComment(i, g), NEW e, e = EndFor(i),
         NEW rest, rest = g[FirstOf(nextSiblings(e))]
  PROVE  r = CommentFrom(i, e, rest)
  BY DEF getComponentComment, CommentFrom, BadStart, EndFor

LEMMA HeldSame ==
  ASSUME NEW N, Tree(N), NEW i \in 1..(N + 1), NEW g, NEW h,
         \A j \in (i + 1)..(N + 1) : g[j] = h[j]
  PROVE  HeldFrom(g, i) = HeldFrom(h, i)
<1>1. N \in Nat /\ NoNode = N + 1
  BY DEF Tree
<1>2. CASE i = NoNode
  BY <1>2 DEF HeldFrom
<1>3. CASE i # NoNode /\ ~IsMarker(i)
  <2>1. i \in 1..N
    BY <1>1, <1>3
  <2>2. PICK c, s : c = FirstOf(childNodes(i)) /\ s = FirstOf(nextSiblings(i))
    OBVIOUS
  <2>3. c = i + 1 \/ c = N + 1
    BY <2>1, <2>2, InsideIs
  <2>4. s \in (i + 1)..(N + 1)
    BY <2>1, <2>2, FromIs
  <2>5. g[c] = h[c] /\ g[s] = h[s]
    BY <1>1, <2>1, <2>3, <2>4
  <2> QED
    BY <1>3, <2>2, <2>5 DEF HeldFrom
<1>4. CASE i # NoNode /\ IsMarker(i)
  <2>1. i \in 1..N /\ (markup[i].kind = "start" \/ markup[i].kind = "end")
    BY <1>1, <1>4 DEF IsMarker
  <2>2. PICK e : e = EndFor(i)
    OBVIOUS
  <2>3. SUFFICES getComponentComment(i, g) = getComponentComment(i, h)
    BY <1>4 DEF HeldFrom
  <2>4. PICK s : s = FirstOf(nextSiblings(e))
    OBVIOUS
  <2>5. CASE BadStart(i) \/ e = NoNode
    <3>1. getComponentComment(i, g) = Thrown /\ getComponentComment(i, h) = Thrown
      BY <2>2, <2>5, CommentIs DEF CommentFrom
    <3> QED
      BY <3>1
  <2>6. CASE ~(BadStart(i) \/ e = NoNode)
    <3>1. e \in 1..N /\ i <= e
      <4>1. CASE markup[i].id = NoId
        BY <1>1, <2>1, <2>2, <4>1 DEF EndFor
      <4>2. CASE markup[i].id # NoId
        <5>1. e = getComponentEndComment(i) /\ markup[i].kind = "start" /\ e # N + 1
          BY <1>1, <2>1, <2>2, <2>6, <4>2 DEF EndFor, BadStart
        <5>2. e \in 1..N /\ Delimit(i, e)
          BY <2>1, <5>1, EndCommentIs
        <5>3. i < e
          BY <2>1, <5>2, DelimitIs
        <5> QED
          BY <1>1, <2>1, <5>2, <5>3
      <4> QED
        BY <4>1, <4>2
    <3>2. s \in (e + 1)..(N + 1)
      BY <2>4, <3>1, FromIs
    <3>3. g[s] = h[s]
      BY <1>1, <2>1, <3>1, <3>2
    <3>4. PICK rest : rest = g[s] /\ rest = h[s]
      BY <3>3
    <3>5. rest = g[FirstOf(nextSiblings(e))]
      BY <2>4, <3>4
    <3>6. rest = h[FirstOf(nextSiblings(e))]
      BY <2>4, <3>4
    <3>7. getComponentComment(i, g) = CommentFrom(i, e, rest)
      BY <2>2, <3>5, CommentIs
    <3>8. getComponentComment(i, h) = CommentFrom(i, e, rest)
      BY <2>2, <3>6, CommentIs
    <3> QED
      BY <3>7, <3>8
  <2> QED
    BY <2>5, <2>6
<1> QED
  BY <1>2, <1>3, <1>4

ScansFrom(g, N, n) == \A i \in (N + 1 - n)..(N + 1) : g[i] = HeldFrom(g, i)

LEMMA ScansExist ==
  ASSUME NEW N, Tree(N), NEW n \in 0..N
  PROVE  \E g : ScansFrom(g, N, n)
<1>1. N \in Nat
  BY DEF Tree
<1> DEFINE T == {m \in 0..N : ~\E g : ScansFrom(g, N, m)}
<1>2. SUFFICES ASSUME T # {} PROVE FALSE
  BY <1>2
<1>3. T \subseteq Nat
  BY <1>1
<1>4. PICK x \in T : \A y \in T : x <= y
  BY <1>2, <1>3, LeastOf
<1>5. x \in 0..N /\ ~\E g : ScansFrom(g, N, x)
  BY <1>4
<1>6. PICK g : (x = 0) \/ ScansFrom(g, N, x - 1)
  <2>1. CASE x = 0
    BY <2>1
  <2>2. CASE x # 0
    <3>1. x - 1 \in 0..N /\ ~(x <= x - 1)
      BY <1>1, <1>5, <2>2
    <3>2. x - 1 \notin T
      BY <1>4, <3>1
    <3> QED
      BY <3>1, <3>2
  <2> QED
    BY <2>1, <2>2
<1>7. PICK b : b = N + 1 - x
  OBVIOUS
<1>8. b \in 1..(N + 1)
  BY <1>1, <1>5, <1>7
<1>9. PICK h : h = [i \in 1..(N + 1) |-> IF i = b THEN HeldFrom(g, i) ELSE g[i]]
  OBVIOUS
<1>10. \A j \in (b + 1)..(N + 1) : h[j] = g[j]
  BY <1>1, <1>8, <1>9
<1>11. ASSUME NEW i \in b..(N + 1)
       PROVE  h[i] = HeldFrom(h, i)
  <2>1. i \in 1..(N + 1)
    BY <1>1, <1>8
  <2>2. \A j \in (i + 1)..(N + 1) : g[j] = h[j]
    BY <1>1, <1>8, <1>10
  <2>3. HeldFrom(g, i) = HeldFrom(h, i)
    BY <2>1, <2>2, HeldSame
  <2>4. CASE i = b
    BY <1>9, <2>1, <2>3, <2>4
  <2>5. CASE i # b
    <3>1. i \in (N + 1 - (x - 1))..(N + 1) /\ x # 0
      BY <1>1, <1>5, <1>7, <1>8, <2>5
    <3>2. g[i] = HeldFrom(g, i)
      BY <1>6, <3>1 DEF ScansFrom
    <3> QED
      BY <1>9, <2>1, <2>3, <2>5, <3>2
  <2> QED
    BY <2>4, <2>5
<1>12. ScansFrom(h, N, x)
  BY <1>7, <1>11 DEF ScansFrom
<1> QED
  BY <1>5, <1>12

LEMMA ScanIs ==
  ASSUME NEW N, Tree(N)
  PROVE  \E g : /\ ScansFrom(g, N, N)
                /\ resolveComponentComments = g[FirstOf(childNodes(0))]
<1>1. N \in Nat /\ NoNode = N + 1 /\ N \in 0..N /\ N + 1 - N = 1
  BY DEF Tree
<1>2. PICK h : ScansFrom(h, N, N)
  BY <1>1, ScansExist
<1>3. \A i \in 1..(N + 1) : h[i] = HeldFrom(h, i)
  BY <1>1, <1>2 DEF ScansFrom
<1> DEFINE Is(f) == f = [i \in 1..NoNode |->
             IF i = NoNode THEN Found(<<>>)
             ELSE IF IsMarker(i) THEN getComponentComment(i, f)
             ELSE Then(f[FirstOf(childNodes(i))], f[FirstOf(nextSiblings(i))])]
<1>4. \A f : Is(f) <=> f = [i \in 1..(N + 1) |-> HeldFrom(f, i)]
  BY <1>1 DEF HeldFrom
<1>5. PICK k : k = [i \in 1..(N + 1) |-> h[i]]
  OBVIOUS
<1>6. ASSUME NEW i \in 1..(N + 1)
      PROVE  h[i] = HeldFrom(k, i)
  <2>1. \A j \in (i + 1)..(N + 1) : h[j] = k[j]
    BY <1>1, <1>5
  <2> QED
    BY <1>3, <2>1, HeldSame
<1>7. k = [i \in 1..(N + 1) |-> HeldFrom(k, i)]
  BY <1>5, <1>6
<1>8. PICK g : g = CHOOSE f : Is(f)
  OBVIOUS
<1>9. resolveComponentComments = g[FirstOf(childNodes(0))]
  BY <1>8 DEF resolveComponentComments
<1>10. Is(k)
  BY <1>4, <1>7
<1>11. Is(g)
  BY <1>8, <1>10
<1> HIDE DEF Is
<1>12. g = [i \in 1..(N + 1) |-> HeldFrom(g, i)]
  BY <1>4, <1>11
<1>13. \A i \in 1..(N + 1) : g[i] = HeldFrom(g, i)
  BY <1>12
<1> QED
  BY <1>1, <1>9, <1>13 DEF ScansFrom
-----------------------------------------------------------------------------
(* What a scan over some of the nodes has to find.                         *)
Descriptors(N) == [start : 1..N, end : 1..(N + 1)]

EndRight(d) ==
  IF markup[d.start].id = NoId THEN d.end = NoNode
  ELSE d.end \in DOMAIN markup /\ Delimit(d.start, d.end)

Ascending(c) == \A k, l \in DOMAIN c : k < l => c[k].start < c[l].start

Describes(c, N, nodes) ==
  /\ c \in Seq(Descriptors(N))
  /\ \A k \in DOMAIN c : c[k].start \in Declared \cap nodes /\ EndRight(c[k])
  /\ \A j \in Declared \cap nodes : \E k \in DOMAIN c : c[k].start = j
  /\ Ascending(c)

Scanned(r, N, nodes) ==
  /\ r.thrown \in BOOLEAN
  /\ r.thrown => r.components = <<>> /\ \E j \in Markers \cap nodes : ~GoodMarker(j)
  /\ ~r.thrown => Describes(r.components, N, nodes) /\ \A j \in Markers \cap nodes : GoodMarker(j)

LEMMA ScannedBad ==
  ASSUME NEW N, NEW nodes, NEW i \in Markers \cap nodes, ~GoodMarker(i)
  PROVE  Scanned(Thrown, N, nodes)
<1>1. Thrown.thrown = TRUE /\ Thrown.components = <<>>
  BY DEF Thrown
<1> QED
  BY <1>1 DEF Scanned

(* Nodes that nothing is to be found in may be added.                      *)
LEMMA ScannedMore ==
  ASSUME NEW N, NEW S, NEW T, NEW r, Scanned(r, N, S), S \subseteq T,
         \A j \in T \ S : j \in Markers => GoodMarker(j) /\ j \notin Declared
  PROVE  Scanned(r, N, T)
<1>1. Declared \cap T = Declared \cap S
  BY DEF Declared
<1>2. ASSUME ~r.thrown
      PROVE  Describes(r.components, N, T) /\ \A j \in Markers \cap T : GoodMarker(j)
  <2>1. Describes(r.components, N, S) /\ \A j \in Markers \cap S : GoodMarker(j)
    BY <1>2 DEF Scanned
  <2>2. Describes(r.components, N, T)
    BY <1>1, <2>1 DEF Describes
  <2> QED
    BY <2>1, <2>2
<1> QED
  BY <1>2 DEF Scanned

LEMMA ListsJoin ==
  ASSUME NEW N \in Nat, NEW S, NEW T, NEW c, NEW d, Describes(c, N, S), Describes(d, N, T),
         S \subseteq 1..N, T \subseteq 1..N, \A j \in S, k \in T : j < k, NEW r, r = c \o d
  PROVE  Describes(r, N, S \cup T)
<1>1. c \in Seq(Descriptors(N)) /\ d \in Seq(Descriptors(N))
  BY DEF Describes
<1>2. PICK m \in Nat, n \in Nat : m = Len(c) /\ n = Len(d)
  BY <1>1
<1>3. r \in Seq(Descriptors(N)) /\ Joined(r, c, d, m, n)
  BY <1>1, <1>2, ConcatFacts
<1>4. /\ DOMAIN r = 1..(m + n) /\ DOMAIN c = 1..m /\ DOMAIN d = 1..n
      /\ \A k \in 1..m : r[k] = c[k]
      /\ \A k \in (m + 1)..(m + n) : k - m \in 1..n /\ r[k] = d[k - m]
  BY <1>3 DEF Joined
<1>5. ASSUME NEW k \in DOMAIN r
      PROVE  r[k].start \in Declared \cap (S \cup T) /\ EndRight(r[k])
  <2>1. k \in 1..m \/ k \in (m + 1)..(m + n)
    BY <1>2, <1>4
  <2>2. CASE k \in 1..m
    BY <1>4, <2>2 DEF Describes
  <2>3. CASE k \in (m + 1)..(m + n)
    <3>1. PICK l \in 1..n : r[k] = d[l]
      BY <1>4, <2>3
    <3> QED
      BY <1>4, <3>1 DEF Describes
  <2> QED
    BY <2>1, <2>2, <2>3
<1>6. ASSUME NEW j \in Declared \cap (S \cup T)
      PROVE  \E k \in DOMAIN r : r[k].start = j
  <2>1. CASE j \in S
    <3>1. PICK k \in 1..m : c[k].start = j
      BY <1>4, <2>1 DEF Describes
    <3>2. k \in DOMAIN r /\ r[k] = c[k]
      BY <1>4, <3>1
    <3> QED
      BY <3>1, <3>2
  <2>2. CASE j \in T
    <3>1. PICK l \in 1..n : d[l].start = j
      BY <1>4, <2>2 DEF Describes
    <3>2. PICK k : k = l + m
      OBVIOUS
    <3>3. k \in (m + 1)..(m + n) /\ k - m = l
      BY <3>2
    <3>4. k \in DOMAIN r /\ r[k] = d[l]
      BY <1>4, <3>3
    <3> QED
      BY <3>1, <3>4
  <2> QED
    BY <2>1, <2>2
<1>7. ASSUME NEW k \in DOMAIN r, NEW l \in DOMAIN r, k < l
      PROVE  r[k].start < r[l].start
  <2>1. (k \in 1..m \/ k \in (m + 1)..(m + n)) /\ (l \in 1..m \/ l \in (m + 1)..(m + n))
    BY <1>2, <1>4
  <2>2. CASE l \in 1..m
    <3>1. k \in 1..m
      BY <1>2, <1>4, <1>7, <2>2
    <3> QED
      BY <1>4, <1>7, <2>2, <3>1 DEF Describes, Ascending
  <2>3. CASE k \in 1..m /\ l \in (m + 1)..(m + n)
    <3>1. PICK o \in 1..n : r[l] = d[o]
      BY <1>4, <2>3
    <3>2. r[k].start \in S /\ r[l].start \in T
      BY <1>4, <2>3, <3>1 DEF Describes
    <3> QED
      BY <3>2
  <2>4. CASE k \in (m + 1)..(m + n) /\ l \in (m + 1)..(m + n)
    <3>1. k - m \in 1..n /\ l - m \in 1..n /\ r[k] = d[k - m] /\ r[l] = d[l - m]
      BY <1>4, <2>4
    <3>2. PICK o \in 1..n, q \in 1..n : o = k - m /\ q = l - m
      BY <3>1
    <3>3. o < q
      BY <1>7, <2>4, <3>2
    <3>4. d[o].start < d[q].start
      BY <1>4, <3>2, <3>3 DEF Describes, Ascending
    <3> QED
      BY <3>1, <3>2, <3>4
  <2> QED
    BY <2>1, <2>2, <2>3, <2>4
<1> QED
  BY <1>3, <1>5, <1>6, <1>7 DEF Describes, Ascending

LEMMA ScannedThen ==
  ASSUME NEW N \in Nat, NEW S, NEW T, NEW a, NEW b, Scanned(a, N, S), Scanned(b, N, T),
         S \subseteq 1..N, T \subseteq 1..N, \A j \in S, k \in T : j < k, NEW r, r = Then(a, b)
  PROVE  Scanned(r, N, S \cup T)
<1>1. CASE a.thrown \/ b.thrown
  <2>1. PICK j \in Markers \cap (S \cup T) : ~GoodMarker(j)
    BY <1>1 DEF Scanned
  <2>2. r = Thrown
    BY <1>1 DEF Then
  <2> QED
    BY <2>1, <2>2, ScannedBad
<1>2. CASE ~(a.thrown \/ b.thrown)
  <2>1. r = Found(a.components \o b.components)
    BY <1>2 DEF Then
  <2>2. PICK c : c = a.components \o b.components
    OBVIOUS
  <2>5. r.thrown = FALSE /\ r.components = c
    <3>1. r = Found(c)
      BY <2>1, <2>2
    <3> QED
      BY <3>1 DEF Found
  <2>3. /\ Describes(a.components, N, S) /\ \A j \in Markers \cap S : GoodMarker(j)
        /\ Describes(b.components, N, T) /\ \A j \in Markers \cap T : GoodMarker(j)
    BY <1>2 DEF Scanned
  <2>4. Describes(r.components, N, S \cup T)
    BY <2>2, <2>3, <2>5, ListsJoin
  <2> QED
    BY <2>3, <2>4, <2>5 DEF Scanned
<1> QED
  BY <1>1, <1>2

LEMMA ScannedNone ==
  ASSUME NEW N, NEW nodes, Markers \cap nodes = {}
  PROVE  Scanned(Found(<<>>), N, nodes)
<1>1. Found(<<>>).thrown = FALSE /\ Found(<<>>).components = <<>>
  BY DEF Found
<1>2. Declared \cap nodes = {}
  BY DEF Declared
<1>3. Describes(<<>>, N, nodes)
  BY <1>2 DEF Describes, Ascending
<1> QED
  BY <1>1, <1>3 DEF Scanned

LEMMA ScannedOne ==
  ASSUME NEW N \in Nat, NEW d \in Descriptors(N), NEW nodes, d.start \in Declared, EndRight(d),
         d.start \in nodes, \A j \in Markers \cap nodes : GoodMarker(j),
         \A j \in nodes : j # d.start => j \notin Declared
  PROVE  Scanned(Found(<<d>>), N, nodes)
<1>1. Found(<<d>>).thrown = FALSE /\ Found(<<d>>).components = <<d>>
  BY DEF Found
<1>2. PICK c : c = <<d>>
  OBVIOUS
<1>3. c \in Seq(Descriptors(N)) /\ DOMAIN c = {1} /\ c[1] = d
  BY <1>2
<1>4. Ascending(c)
  BY <1>3 DEF Ascending
<1>5. Describes(c, N, nodes)
  BY <1>3, <1>4 DEF Describes
<1> QED
  BY <1>1, <1>2, <1>5 DEF Scanned
-----------------------------------------------------------------------------
(* The scan from a node on, if the later ones are right.                   *)

LEMMA OpenItself ==
  ASSUME NEW N, Tree(N), NEW i \in 1..N, InTheOpen(i)
  PROVE  i \in Inside(N, i) /\ ~Enclosed(i) /\ (IsMarker(i) => i \in Markers)
<1>1. N \in Nat /\ DOMAIN markup = 1..N
  BY DEF Tree
<1>2. Within(i, i)
  BY <1>1 DEF Within
<1> QED
  BY <1>1, <1>2 DEF Inside, InTheOpen, Markers

Right(g, N, i) == i = N + 1 \/ Scannable(N, i) => Scanned(g[i], N, From(N, i))

LEMMA ScanPastEnd ==
  ASSUME NEW N, Tree(N), NEW g, NEW i, i = N + 1, g[i] = HeldFrom(g, i)
  PROVE  Right(g, N, i)
<1>1. N \in Nat /\ NoNode = N + 1
  BY DEF Tree
<1>2. g[i] = Found(<<>>)
  BY <1>1 DEF HeldFrom
<1>3. From(N, i) = {}
  BY <1>1 DEF From
<1> QED
  BY <1>2, <1>3, ScannedNone DEF Right

LEMMA ScanNode ==
  ASSUME NEW N, Tree(N), NEW g, NEW i \in 1..N, ~IsMarker(i), g[i] = HeldFrom(g, i),
         \A j \in (i + 1)..(N + 1) : Right(g, N, j)
  PROVE  Right(g, N, i)
<1>1. N \in Nat /\ NoNode = N + 1 /\ DOMAIN markup = 1..N /\ i # NoNode
  BY DEF Tree
<1>2. SUFFICES ASSUME Scannable(N, i) PROVE Scanned(g[i], N, From(N, i))
  BY <1>1 DEF Right
<1>3. PICK c, s : c = FirstOf(childNodes(i)) /\ s = FirstOf(nextSiblings(i))
  OBVIOUS
<1>4. PICK r, a, b : r = g[i] /\ a = g[c] /\ b = g[s]
  OBVIOUS
<1>5. r = Then(a, b)
  BY <1>1, <1>3, <1>4 DEF HeldFrom
<1>6. /\ c = i + 1 \/ c = N + 1
      /\ i \in Inside(N, i)
      /\ \A j \in Inside(N, i) : j = i \/ j \in From(N, c)
      /\ \A j \in From(N, c) : j \in Inside(N, i) /\ i < j
  BY <1>3, InsideIs
<1>7. /\ s \in (i + 1)..(N + 1)
      /\ From(N, i) = Inside(N, i) \cup From(N, s)
      /\ \A j \in Inside(N, i), k \in From(N, s) : j < k
  BY <1>3, FromIs
<1>8. InTheOpen(i)
  BY <1>2 DEF Scannable
<1>9. Scanned(a, N, From(N, c))
  <2>1. CASE c = N + 1
    <3>1. c \in (i + 1)..(N + 1)
      BY <1>1, <2>1
    <3> QED
      BY <1>4, <2>1, <3>1 DEF Right
  <2>2. CASE c # N + 1
    <3>1. c = i + 1 /\ c \in 1..N /\ c \in (i + 1)..(N + 1)
      BY <1>1, <1>6, <2>2
    <3>2. childNodes(i) \subseteq 1..N
      BY <1>1 DEF childNodes
    <3>3. c \in childNodes(i)
      BY <1>3, <2>2, <3>2, FirstIs
    <3>4. markup[i + 1].parent = i
      BY <3>1, <3>3 DEF childNodes
    <3>5. Scannable(N, c)
      BY <1>8, <3>1, <3>4, OpenChild
    <3> QED
      BY <1>4, <3>1, <3>5 DEF Right
  <2> QED
    BY <2>1, <2>2
<1>10. Scanned(b, N, From(N, s))
  <2>1. CASE s = N + 1
    BY <1>4, <1>7, <2>1 DEF Right
  <2>2. CASE s # N + 1
    <3>1. \A k \in 1..N : ~Delimit(i, k)
      BY DelimitIs
    <3>2. Scannable(N, s)
      BY <1>3, <1>8, <2>2, <3>1, ScanNext
    <3> QED
      BY <1>4, <1>7, <3>2 DEF Right
  <2> QED
    BY <2>1, <2>2
<1>11. PICK S, T : S = From(N, c) /\ T = From(N, s)
  OBVIOUS
<1>12. S \subseteq 1..N /\ T \subseteq 1..N
  BY <1>11 DEF From
<1>13. \A j \in S, k \in T : j < k
  BY <1>6, <1>7, <1>11
<1>14. Scanned(r, N, S \cup T)
  BY <1>1, <1>5, <1>9, <1>10, <1>11, <1>12, <1>13, ScannedThen
<1>15. PICK U : U = From(N, i)
  OBVIOUS
<1>16. S \cup T \subseteq U /\ \A j \in U \ (S \cup T) : j = i
  BY <1>6, <1>7, <1>11, <1>15
<1>17. i \notin Markers
  BY DEF Markers
<1>18. Scanned(r, N, U)
  BY <1>14, <1>16, <1>17, ScannedMore
<1> QED
  BY <1>4, <1>15, <1>18

(* A start marker with the nodes up to its end, and what comes behind.     *)
LEMMA ScanComponent ==
  ASSUME NEW N, Tree(N), NEW i \in 1..N, i \in Markers, ~BadStart(i), markup[i].kind = "start",
         NEW e \in 1..N, EndFor(i) = e, NEW rest, NEW S, NEW T, S \subseteq 1..N, T \subseteq 1..N,
         NEW U \in SUBSET (1..N),
         Scanned(rest, N, T), \A j \in S, k \in T : j < k, S = {i, e},
         \A k \in S : k = i \/ Delimit(i, k), markup[i].id # NoId => Delimit(i, e),
         S \cup T \subseteq U, \A j \in U : InTheOpen(j) => j \in S \cup T,
         e \in Markers, NEW r, r = CommentFrom(i, e, rest)
  PROVE  Scanned(r, N, U)
<1>1. N \in Nat /\ NoNode = N + 1 /\ DOMAIN markup = 1..N /\ e # NoNode
  BY DEF Tree
<1>2. markup[i].parent # 0 /\ markup[i].type \in MarkerTypes
  BY DEF BadStart
<1>3. (markup[i].type = "webassembly" /\ ~validateWebAssemblyComponentPayload(i)) \/ GoodMarker(i)
  <2>1. markup[i].id # NoId => IsPaired(i)
    BY <1>1 DEF IsPaired
  <2> QED
    BY <1>2, <2>1 DEF GoodMarker, validateWebAssemblyComponentPayload
<1>4. ASSUME NEW k \in S, k # i
      PROVE  GoodMarker(k) /\ k \notin Declared
  <2>1. Delimit(i, k) /\ k \in 1..N
    BY <1>4
  <2>2. markup[k].kind = "end" /\ markup[k].parent = markup[i].parent
    BY <2>1, DelimitIs
  <2>3. IsPaired(k)
    BY <1>1, <2>1 DEF IsPaired
  <2>4. GoodMarker(k)
    BY <1>2, <2>2, <2>3 DEF GoodMarker
  <2>5. k \notin Declared
    BY <2>2 DEF Declared
  <2> QED
    BY <2>4, <2>5
<1>5. \A j \in U \ (S \cup T) : j \notin Markers
  BY DEF Markers
<1>6. CASE markup[i].type # "webassembly"
  <2>1. r = rest
    BY <1>1, <1>6 DEF CommentFrom
  <2>2. GoodMarker(i) /\ i \notin Declared
    BY <1>3, <1>6 DEF Declared
  <2>3. \A j \in U \ T : j \in Markers => GoodMarker(j) /\ j \notin Declared
    BY <1>4, <1>5, <2>2
  <2>4. T \subseteq U
    OBVIOUS
  <2> QED
    BY <2>1, <2>3, <2>4, ScannedMore
<1>7. CASE markup[i].type = "webassembly" /\ ~validateWebAssemblyComponentPayload(i)
  <2>1. r = Thrown
    BY <1>1, <1>7 DEF CommentFrom
  <2>2. ~GoodMarker(i)
    BY <1>7 DEF GoodMarker, validateWebAssemblyComponentPayload
  <2>3. i \in Markers \cap U
    OBVIOUS
  <2> QED
    BY <2>1, <2>2, <2>3, ScannedBad
<1>8. CASE markup[i].type = "webassembly" /\ validateWebAssemblyComponentPayload(i)
  <2>1. PICK d : d = createWebAssemblyComponentComment(i, e)
    OBVIOUS
  <2>2. r = Then(Found(<<d>>), rest)
    BY <1>1, <1>8, <2>1 DEF CommentFrom
  <2>3. d = [start |-> i, end |-> IF e = i THEN NoNode ELSE e]
    BY <2>1 DEF createWebAssemblyComponentComment
  <2>4. d \in Descriptors(N) /\ d.start = i
    BY <1>1, <2>3 DEF Descriptors
  <2>5. EndRight(d)
    <3>1. CASE markup[i].id = NoId
      BY <2>3, <3>1 DEF EndRight, EndFor
    <3>2. CASE markup[i].id # NoId
      <4>1. Delimit(i, e) /\ i < e
        BY <3>2, DelimitIs
      <4>2. d.end = e
        BY <2>3, <4>1
      <4> QED
        BY <1>1, <2>4, <3>2, <4>1, <4>2 DEF EndRight
    <3> QED
      BY <3>1, <3>2
  <2>6. GoodMarker(i) /\ i \in Declared
    BY <1>3, <1>8 DEF Declared
  <2>7. \A j \in Markers \cap S : GoodMarker(j)
    BY <1>4, <2>6
  <2>8. Scanned(Found(<<d>>), N, S)
    BY <1>1, <1>4, <2>4, <2>5, <2>6, <2>7, ScannedOne
  <2>9. PICK a : a = Found(<<d>>)
    OBVIOUS
  <2>10. Scanned(r, N, S \cup T)
    BY <1>1, <2>2, <2>8, <2>9, ScannedThen
  <2>11. \A j \in U \ (S \cup T) : j \in Markers => GoodMarker(j) /\ j \notin Declared
    BY <1>5
  <2> QED
    BY <2>10, <2>11, ScannedMore
<1> QED
  BY <1>6, <1>7, <1>8

LEMMA ScanMarker ==
  ASSUME NEW N, Tree(N), NoId \notin PrerenderIds, IsDocument(markup),
         NEW g, NEW i \in 1..N, IsMarker(i), g[i] = HeldFrom(g, i),
         \A j \in (i + 1)..(N + 1) : Right(g, N, j)
  PROVE  Right(g, N, i)
<1>1. N \in Nat /\ NoNode = N + 1 /\ DOMAIN markup = 1..N /\ i # NoNode
  BY DEF Tree
<1>2. SUFFICES ASSUME Scannable(N, i) PROVE Scanned(g[i], N, From(N, i))
  BY <1>1 DEF Right
<1>3. PICK e : e = EndFor(i)
  OBVIOUS
<1>4. PICK r, s, rest : r = g[i] /\ s = FirstOf(nextSiblings(e)) /\ rest = g[s]
  OBVIOUS
<1>5. r = CommentFrom(i, e, rest)
  <2>1. r = getComponentComment(i, g)
    BY <1>1, <1>4 DEF HeldFrom
  <2>2. rest = g[FirstOf(nextSiblings(e))]
    BY <1>4
  <2> QED
    BY <1>3, <2>1, <2>2, CommentIs
<1>6. InTheOpen(i) /\ i \in Markers /\ \A a \in 1..N : ~Delimit(a, i)
  BY <1>2, OpenItself DEF Scannable
<1>7. PICK U : U = From(N, i)
  OBVIOUS
<1>8. i \in U /\ U \in SUBSET (1..N)
  <2>1. U = Inside(N, i) \cup From(N, FirstOf(nextSiblings(i)))
    BY <1>7, FromIs
  <2> QED
    BY <1>6, <1>7, <2>1, OpenItself DEF From
<1>9. CASE BadStart(i) \/ e = NoNode
  <2>1. r = Thrown
    BY <1>5, <1>9 DEF CommentFrom
  <2>2. ~GoodMarker(i)
    <3>1. CASE markup[i].parent = 0
      BY <3>1 DEF GoodMarker
    <3>2. CASE markup[i].kind = "end"
      <4>1. \A k \in 1..N : ~Delimit(i, k)
        BY <3>2, DelimitIs
      <4>2. ~IsPaired(i)
        BY <1>1, <1>6, <4>1 DEF IsPaired
      <4> QED
        BY <3>2, <4>2 DEF GoodMarker
    <3>3. CASE markup[i].kind # "end" /\ markup[i].type \notin MarkerTypes
      <4>1. markup[i].kind = "start"
        BY <3>3 DEF IsMarker
      <4> QED
        BY <3>3, <4>1 DEF GoodMarker
    <3>4. CASE markup[i].kind # "end" /\ e = NoNode
      <4>1. markup[i].kind = "start"
        BY <3>4 DEF IsMarker
      <4>2. markup[i].id # NoId /\ e = getComponentEndComment(i)
        BY <1>1, <1>3, <3>4 DEF EndFor
      <4>3. \A k \in 1..N : ~Delimit(i, k)
        <5>1. e \notin 1..N
          BY <1>1, <3>4
        <5> QED
          BY <4>1, <4>2, <5>1, EndCommentIs
      <4>4. ~IsPaired(i)
        BY <1>1, <1>6, <4>3 DEF IsPaired
      <4> QED
        BY <4>2, <4>4 DEF GoodMarker
    <3> QED
      BY <1>9, <3>1, <3>2, <3>3, <3>4 DEF BadStart
  <2>3. i \in Markers \cap U
    BY <1>6, <1>8
  <2>4. Scanned(Thrown, N, U)
    BY <2>2, <2>3, ScannedBad
  <2> QED
    BY <1>4, <1>7, <2>1, <2>4
<1>10. CASE ~(BadStart(i) \/ e = NoNode)
  <2>1. markup[i].kind = "start" /\ ~BadStart(i)
    BY <1>10 DEF BadStart, IsMarker
  <2>2. CASE markup[i].id = NoId
    <3>1. e = i
      BY <1>3, <2>2 DEF EndFor
    <3>2. ASSUME NEW k \in 1..N, Delimit(i, k)
          PROVE  FALSE
      <4>1. markup[k].kind = "end" /\ markup[k].id = NoId
        BY <2>2, <3>2, DelimitIs
      <4>2. markup[k] \in PageNodes
        BY <1>1 DEF IsDocument
      <4>3. markup[k].id \in PrerenderIds
        BY <4>1, <4>2 DEF PageNodes
      <4> QED
        BY <4>1, <4>3
    <3>3. /\ s \in (i + 1)..(N + 1)
          /\ U = Inside(N, i) \cup From(N, s)
          /\ \A j \in Inside(N, i), k \in From(N, s) : j < k
      BY <1>4, <1>7, <3>1, FromIs
    <3>4. Inside(N, i) = {i}
      BY InsideMarker
    <3>5. s = N + 1 \/ Scannable(N, s)
      BY <1>4, <1>6, <3>1, <3>2, ScanNext
    <3>6. Scanned(rest, N, From(N, s))
      BY <1>4, <3>3, <3>5 DEF Right
    <3>7. PICK T, S : T = From(N, s) /\ S = {i}
      OBVIOUS
    <3>8. T \subseteq 1..N /\ S \subseteq 1..N /\ S = {i, e}
      BY <3>1, <3>7 DEF From
    <3>9. \A j \in S, k \in T : j < k
      BY <3>3, <3>4, <3>7
    <3>10. S \cup T \subseteq U /\ \A j \in U : InTheOpen(j) => j \in S \cup T
      BY <3>3, <3>4, <3>7
    <3>11. Scanned(rest, N, T)
      BY <3>6, <3>7
    <3>12. e \in 1..N /\ e \in Markers /\ EndFor(i) = e
      BY <1>3, <1>6, <3>1
    <3>13. \A k \in S : k = i \/ Delimit(i, k)
      BY <3>7
    <3>14. Scanned(r, N, U)
      BY <1>5, <1>6, <1>8, <2>1, <2>2, <3>8, <3>9, <3>10, <3>11, <3>12, <3>13, ScanComponent
    <3> QED
      BY <1>4, <1>7, <3>14
  <2>3. CASE markup[i].id # NoId
    <3>1. e = getComponentEndComment(i)
      BY <1>3, <2>3 DEF EndFor
    <3>2. e \in 1..N /\ Delimit(i, e)
      BY <1>1, <1>10, <2>1, <3>1, EndCommentIs
    <3>3. /\ s \in (e + 1)..(N + 1) /\ (s # N + 1 => s \in 1..N /\ Scannable(N, s))
          /\ e \in U /\ InTheOpen(e)
          /\ \A j \in From(N, s) : j \in U /\ e < j
          /\ \A j \in U : InTheOpen(j) => j = i \/ j = e \/ j \in From(N, s)
      BY <1>4, <1>6, <1>7, <3>2, EndOf
    <3>4. i < e /\ IsMarker(e)
      BY <3>2, DelimitIs
    <3>5. s \in (i + 1)..(N + 1)
      BY <1>1, <3>2, <3>3, <3>4
    <3>6. Scanned(rest, N, From(N, s))
      BY <1>4, <3>3, <3>5 DEF Right
    <3>7. PICK T, S : T = From(N, s) /\ S = {i, e}
      OBVIOUS
    <3>8. T \subseteq 1..N /\ S \subseteq 1..N
      BY <3>2, <3>7 DEF From
    <3>9. \A j \in S, k \in T : j < k
      <4> SUFFICES ASSUME NEW j \in S, NEW k \in T PROVE j < k
        OBVIOUS
      <4>1. e < k /\ k \in 1..N
        BY <3>3, <3>7, <3>8
      <4>2. j = i \/ j = e
        BY <3>7
      <4> QED
        BY <1>1, <3>2, <3>4, <4>1, <4>2
    <3>10. S \cup T \subseteq U /\ \A j \in U : InTheOpen(j) => j \in S \cup T
      BY <1>8, <3>3, <3>7
    <3>11. Scanned(rest, N, T)
      BY <3>6, <3>7
    <3>12. e \in Markers
      BY <3>2, <3>3, <3>4, OpenItself
    <3>13. \A k \in S : k = i \/ Delimit(i, k)
      BY <3>2, <3>7
    <3>14. Scanned(r, N, U)
      BY <1>3, <1>5, <1>6, <1>8, <2>1, <3>2, <3>7, <3>8, <3>9, <3>10, <3>11, <3>12, <3>13, ScanComponent
    <3> QED
      BY <1>4, <1>7, <3>14
  <2> QED
    BY <2>2, <2>3
<1> QED
  BY <1>9, <1>10

(* What discovery finds is right.                                          *)
LEMMA AllScansRight ==
  ASSUME NEW N, Tree(N), NoId \notin PrerenderIds, IsDocument(markup),
         NEW g, ScansFrom(g, N, N), NEW i \in 1..(N + 1)
  PROVE  Right(g, N, i)
<1>1. N \in Nat
  BY DEF Tree
<1>2. \A j \in 1..(N + 1) : g[j] = HeldFrom(g, j)
  <2>1. N + 1 - N = 1
    BY <1>1
  <2> QED
    BY <2>1 DEF ScansFrom
<1> DEFINE T == {x \in 0..N : ~Right(g, N, N + 1 - x)}
<1>3. T = {}
  <2>1. SUFFICES ASSUME T # {} PROVE FALSE
    BY <2>1
  <2>2. T \subseteq Nat
    BY <1>1
  <2>3. PICK x \in T : \A y \in T : x <= y
    BY <2>1, <2>2, LeastOf
  <2>4. PICK j : j = N + 1 - x
    OBVIOUS
  <2>5. j \in 1..(N + 1) /\ ~Right(g, N, j) /\ x \in 0..N
    BY <1>1, <2>3, <2>4
  <2>6. ASSUME NEW k \in (j + 1)..(N + 1)
        PROVE  Right(g, N, k)
    <3>1. PICK y : y = N + 1 - k
      OBVIOUS
    <3>2. y \in 0..N /\ ~(x <= y) /\ N + 1 - y = k
      BY <1>1, <2>4, <2>5, <3>1
    <3>3. y \notin T
      BY <2>3, <3>2
    <3> QED
      BY <3>2, <3>3
  <2>7. g[j] = HeldFrom(g, j)
    BY <1>2, <2>5
  <2>8. CASE j = N + 1
    BY <2>5, <2>7, <2>8, ScanPastEnd
  <2>9. CASE j # N + 1
    <3>1. j \in 1..N
      BY <1>1, <2>5, <2>9
    <3>2. CASE IsMarker(j)
      BY <2>5, <2>6, <2>7, <3>1, <3>2, ScanMarker
    <3>3. CASE ~IsMarker(j)
      BY <2>5, <2>6, <2>7, <3>1, <3>3, ScanNode
    <3> QED
      BY <3>2, <3>3
  <2> QED
    BY <2>8, <2>9
<1>4. PICK x : x = N + 1 - i
  OBVIOUS
<1>5. x \in 0..N /\ N + 1 - x = i
  BY <1>1, <1>4
<1> QED
  BY <1>3, <1>5

LEMMA DiscoveryIs ==
  ASSUME NEW N, Tree(N), NoId \notin PrerenderIds, IsDocument(markup)
  PROVE  Scanned(resolveComponentComments, N, 1..N)
<1>1. N \in Nat /\ NoNode = N + 1 /\ DOMAIN markup = 1..N
  BY DEF Tree
<1>2. PICK g : ScansFrom(g, N, N) /\ resolveComponentComments = g[FirstOf(childNodes(0))]
  BY ScanIs
<1>3. PICK f : f = FirstOf(childNodes(0))
  OBVIOUS
<1>4. childNodes(0) \subseteq 1..N
  BY <1>1 DEF childNodes
<1>5. f \in 1..(N + 1) /\ (f # N + 1 => f \in childNodes(0)) /\ \A j \in childNodes(0) : f <= j
  BY <1>3, <1>4, FirstIs
<1>6. Right(g, N, f)
  BY <1>2, <1>5, AllScansRight
<1>7. CASE N = 0
  <2>1. f = N + 1 /\ From(N, f) = 1..N
    BY <1>5, <1>7 DEF From
  <2> QED
    BY <1>2, <1>3, <1>6, <2>1 DEF Right
<1>8. CASE N # 0
  <2>1. 1 \in 1..N
    BY <1>1, <1>8
  <2>2. \A j \in 1..N : markup[j].parent \in Nat /\ markup[j].parent < j
    BY DEF Tree
  <2>3. markup[1].parent = 0
    BY <2>1, <2>2
  <2>4. 1 \in childNodes(0)
    BY <1>1, <2>1, <2>3 DEF childNodes
  <2>5. f = 1
    BY <1>1, <1>5, <2>4
  <2>6. From(N, 1) = 1..N
    <3>1. ASSUME NEW j \in 1..N PROVE j \in From(N, 1)
      <4>1. \A k \in 1..j : k \in 1..N
        BY <1>1
      <4>2. \A k \in 1..j : 0 <= markup[k].parent
        BY <2>2, <4>1
      <4> QED
        BY <1>1, <2>3, <4>2 DEF From
    <3> QED
      BY <3>1 DEF From
  <2>7. Scannable(N, 1)
    <3>1. ASSUME NEW a \in 1..N, a < 1 PROVE FALSE
      BY <1>1, <3>1
    <3>2. ~Enclosed(1)
      BY <2>1, <3>1, EnclosedIs
    <3>3. \A a \in 1..N : ~Delimit(a, 1)
      BY <2>1, <3>1, DelimitIs
    <3>4. \A a \in 1..N : Within(1, a) => a = 1
      BY <1>1 DEF Within
    <3> QED
      BY <1>1, <3>2, <3>3, <3>4 DEF Scannable, InTheOpen
  <2> QED
    BY <1>2, <1>3, <1>6, <2>5, <2>6, <2>7 DEF Right
<1> QED
  BY <1>7, <1>8
-----------------------------------------------------------------------------
(* Logical children are increasing sequences of nodes.                     *)
Increasing(s) == \A k, l \in DOMAIN s : k < l => s[k] < s[l]

Nodes(nodes, N) == \A j \in nodes : j \in Nat /\ 1 <= j /\ j <= N

Earlier(nodes, i) == {j \in nodes : j < i}
Rank(nodes, i) == Cardinality(Earlier(nodes, i))

LEMMA RankIs ==
  ASSUME NEW N \in Nat, NEW nodes, Nodes(nodes, N), NEW i \in Nat
  PROVE  /\ IsFiniteSet(nodes) /\ Cardinality(nodes) \in Nat
         /\ IsFiniteSet(Earlier(nodes, i))
         /\ Rank(nodes, i) \in Nat
         /\ \A j \in Nat : i <= j => Rank(nodes, i) <= Rank(nodes, j)
         /\ Rank(nodes, i + 1) = Rank(nodes, i) + (IF i \in nodes THEN 1 ELSE 0)
         /\ Rank(nodes, N + 1) = Cardinality(nodes)
         /\ Rank(nodes, i) <= Cardinality(nodes)
<1>0. \A j \in nodes : j \in Nat /\ 1 <= j /\ j <= N
  BY DEF Nodes
<1>1. IsFiniteSet(1..N)
  BY FS_Interval
<1>2. IsFiniteSet(nodes)
  <2>1. nodes \subseteq 1..N
    BY <1>0
  <2> QED
    BY <1>1, <2>1, FS_Subset
<1>3. \A j : IsFiniteSet(Earlier(nodes, j)) /\ Cardinality(Earlier(nodes, j)) <= Cardinality(nodes)
  <2> TAKE j
  <2>1. Earlier(nodes, j) \subseteq nodes
    BY DEF Earlier
  <2> QED
    BY <1>2, <2>1, FS_Subset
<1>4. \A j : Rank(nodes, j) \in Nat
  BY <1>3, FS_CardinalityType DEF Rank
<1>5. ASSUME NEW j \in Nat, i <= j
      PROVE  Rank(nodes, i) <= Rank(nodes, j)
  <2>1. Earlier(nodes, i) \subseteq Earlier(nodes, j)
    BY <1>0, <1>5 DEF Earlier
  <2> QED
    BY <1>3, <2>1, FS_Subset DEF Rank
<1>6. Rank(nodes, i + 1) = Rank(nodes, i) + (IF i \in nodes THEN 1 ELSE 0)
  <2>1. CASE i \in nodes
    <3>0. \A j \in nodes : j < i + 1 <=> j < i \/ j = i
      BY <1>0
    <3>a. \A j : j \in Earlier(nodes, i + 1) <=> j \in Earlier(nodes, i) \/ j = i
      BY <2>1, <3>0 DEF Earlier
    <3>b. i \notin Earlier(nodes, i)
      BY DEF Earlier
    <3>1. Earlier(nodes, i + 1) = Earlier(nodes, i) \cup {i} /\ i \notin Earlier(nodes, i)
      BY <3>a, <3>b
    <3> QED
      BY <1>3, <2>1, <3>1, FS_AddElement DEF Rank
  <2>2. CASE i \notin nodes
    <3>1. Earlier(nodes, i + 1) = Earlier(nodes, i)
      BY <1>0, <2>2 DEF Earlier
    <3> QED
      BY <1>4, <2>2, <3>1 DEF Rank
  <2> QED
    BY <2>1, <2>2
<1>7. Earlier(nodes, N + 1) = nodes
  BY <1>0 DEF Earlier
<1> QED
  BY <1>2, <1>3, <1>4, <1>5, <1>6, <1>7, FS_CardinalityType DEF Rank

LEMMA OrderIs ==
  ASSUME NEW N \in Nat, NEW nodes, Nodes(nodes, N), NEW s, s = InDocumentOrder(nodes)
  PROVE  s \in Seq(1..N) /\ Increasing(s) /\ Members(s) = nodes
<1>1. PICK n : n = Cardinality(nodes)
  OBVIOUS
<1>2. 0 \in Nat /\ N + 1 \in Nat
  OBVIOUS
<1>3. n \in Nat /\ Rank(nodes, N + 1) = n
  BY <1>1, <1>2, RankIs
<1>4. \A i, j \in Nat : i <= j => Rank(nodes, i) <= Rank(nodes, j)
  BY RankIs
<1>5. \A i \in Nat : Rank(nodes, i) \in Nat /\ Rank(nodes, i) <= n
  BY <1>1, RankIs
<1>6. \A i \in Nat : Rank(nodes, i + 1) = Rank(nodes, i) + (IF i \in nodes THEN 1 ELSE 0)
  BY RankIs
<1>7. \A j \in nodes : j \in Nat /\ 1 <= j /\ j <= N
  BY DEF Nodes
<1> DEFINE r(i) == Rank(nodes, i)
<1>8. ASSUME NEW k \in 1..n
      PROVE  \E i \in nodes : r(i) = k - 1
  <2> DEFINE T == {x \in 0..(N + 1) : k <= r(x)}
  <2>1. N + 1 \in T
    BY <1>3
  <2>2. PICK x \in T : \A y \in T : x <= y
    <3>1. T \subseteq Nat
      OBVIOUS
    <3> QED
      BY <2>1, <3>1, LeastOf
  <2>3. x \in 0..(N + 1) /\ k <= r(x)
    OBVIOUS
  <2>4. r(0) = 0
    <3>1. Earlier(nodes, 0) = {}
      BY <1>7 DEF Earlier
    <3> QED
      BY <3>1, FS_EmptySet DEF Rank
  <2>5. x # 0
    BY <1>3, <2>3, <2>4
  <2>6. PICK y \in Nat : y + 1 = x
    <3>1. x - 1 \in Nat /\ (x - 1) + 1 = x
      BY <2>3, <2>5
    <3> QED
      BY <3>1
  <2>7. y \in 0..(N + 1) /\ ~(x <= y)
    BY <2>3, <2>6
  <2>8. ~(k <= r(y))
    BY <2>2, <2>7
  <2>9. r(x) = r(y) + (IF y \in nodes THEN 1 ELSE 0)
    BY <1>6, <2>6
  <2>10. PICK a, b : a = r(x) /\ b = r(y)
    OBVIOUS
  <2>11. a \in Nat /\ b \in Nat
    BY <1>5, <2>3, <2>6, <2>10
  <2>12. y \in nodes /\ b = k - 1
    BY <1>3, <2>3, <2>8, <2>9, <2>10, <2>11
  <2> QED
    BY <2>10, <2>12
<1>9. s = [k \in 1..n |-> CHOOSE i \in nodes : r(i) = k - 1]
  BY <1>1 DEF InDocumentOrder, Rank, Earlier
<1>10. DOMAIN s = 1..n /\ \A k \in 1..n : s[k] \in nodes /\ r(s[k]) = k - 1
  BY <1>8, <1>9
<1>11. Increasing(s)
  <2> SUFFICES ASSUME NEW k \in 1..n, NEW l \in 1..n, k < l PROVE s[k] < s[l]
    BY <1>10 DEF Increasing
  <2>1. s[k] \in Nat /\ s[l] \in Nat /\ r(s[k]) = k - 1 /\ r(s[l]) = l - 1
    BY <1>7, <1>10
  <2>2. SUFFICES ASSUME s[l] <= s[k] PROVE FALSE
    BY <2>1, <2>2
  <2>3. r(s[l]) <= r(s[k])
    BY <1>4, <2>1, <2>2
  <2> QED
    BY <1>3, <2>1, <2>3
<1>12. ASSUME NEW i \in nodes
       PROVE  \E k \in 1..n : s[k] = i
  <2>1. i \in Nat /\ i + 1 \in Nat
    BY <1>7
  <2>2. r(i + 1) = r(i) + 1 /\ r(i) \in Nat /\ r(i + 1) \in Nat /\ r(i + 1) <= n
    BY <1>5, <1>6, <2>1
  <2>3. PICK k : k = r(i) + 1
    OBVIOUS
  <2>4. k \in 1..n
    BY <1>3, <2>2, <2>3
  <2>5. PICK j : j = s[k]
    OBVIOUS
  <2>6. j \in nodes /\ j \in Nat /\ j + 1 \in Nat /\ r(j) = k - 1
    BY <1>7, <1>10, <2>4, <2>5
  <2>7. r(j + 1) = r(j) + 1
    BY <1>6, <2>6
  <2>8. j < i => r(j + 1) <= r(i)
    <3>1. j < i => j + 1 <= i
      BY <2>1, <2>6
    <3> QED
      BY <1>4, <2>1, <2>6, <3>1
  <2>9. i < j => r(i + 1) <= r(j)
    <3>1. i < j => i + 1 <= j
      BY <2>1, <2>6
    <3> QED
      BY <1>4, <2>1, <2>6, <3>1
  <2>10. PICK a, b : a = r(i) /\ b = r(j)
    OBVIOUS
  <2>11. a \in Nat /\ b = a
    BY <2>2, <2>3, <2>6, <2>10
  <2>12. ~(j < i) /\ ~(i < j)
    BY <2>2, <2>7, <2>8, <2>9, <2>10, <2>11
  <2> QED
    BY <2>1, <2>4, <2>5, <2>6, <2>12
<1>13. s \in Seq(1..N)
  BY <1>3, <1>7, <1>9, <1>10
<1>14. Members(s) = nodes
  BY <1>10, <1>12 DEF Members
<1> QED
  BY <1>11, <1>13, <1>14

(* A part of an increasing sequence.                                       *)
LEMMA PartIs ==
  ASSUME NEW N \in Nat, NEW s \in Seq(1..N), Increasing(s), NEW a \in Nat, NEW b \in Nat,
         b <= Len(s), NEW r, r = SubSeq(s, a + 1, b)
  PROVE  /\ r \in Seq(1..N) /\ Increasing(r)
         /\ \A x \in Members(r) : \E k \in DOMAIN s : x = s[k] /\ a < k /\ k <= b
         /\ \A k \in DOMAIN s : a < k /\ k <= b => s[k] \in Members(r)
<1>1. PICK n \in Nat : n = Len(s)
  OBVIOUS
<1>2. DOMAIN s = 1..n /\ \A k \in 1..n : s[k] \in 1..N
  BY <1>1
<1>3. \A k \in (a + 1)..b : s[k] \in 1..N
  BY <1>1, <1>2
<1>4. PICK m : m = IF a + 1 <= b THEN b - a ELSE 0
  OBVIOUS
<1>5. m \in Nat /\ (a + 1 <= b => m = b - a) /\ (~(a + 1 <= b) => m = 0)
  BY <1>4
<1>6. r \in Seq(1..N) /\ Len(r) = m /\ \A k \in 1..m : r[k] = s[a + k]
  <2>1. r = [k \in 1..m |-> s[a + k]]
    <3>1. CASE a + 1 <= b
      <4>1. b - (a + 1) + 1 = m /\ \A k \in 1..m : k + (a + 1) - 1 = a + k
        BY <1>5, <3>1
      <4>2. r = [k \in 1..(b - (a + 1) + 1) |-> s[k + (a + 1) - 1]]
        OBVIOUS
      <4> QED
        BY <4>1, <4>2
    <3>2. CASE ~(a + 1 <= b)
      <4>1. 1..m = {} /\ 1..(b - (a + 1) + 1) = {}
        BY <1>5, <3>2
      <4>2. r = [k \in 1..(b - (a + 1) + 1) |-> s[k + (a + 1) - 1]]
        OBVIOUS
      <4> QED
        BY <4>1, <4>2
    <3> QED
      BY <3>1, <3>2
  <2>2. \A k \in 1..m : s[a + k] \in 1..N
    <3> TAKE k \in 1..m
    <3>1. a + k \in (a + 1)..b
      BY <1>5
    <3> QED
      BY <1>3, <3>1
  <2> QED
    BY <1>5, <2>1, <2>2
<1>7. DOMAIN r = 1..m
  BY <1>5, <1>6
<1>8. \A k \in 1..m : a + k \in 1..n /\ a < a + k /\ a + k <= b
  BY <1>1, <1>5
<1>9. Increasing(r)
  <2> SUFFICES ASSUME NEW k \in 1..m, NEW l \in 1..m, k < l PROVE r[k] < r[l]
    BY <1>7 DEF Increasing
  <2>1. a + k \in DOMAIN s /\ a + l \in DOMAIN s /\ a + k < a + l
    BY <1>2, <1>5, <1>8
  <2>2. s[a + k] < s[a + l]
    BY <2>1 DEF Increasing
  <2> QED
    BY <1>6, <2>2
<1>10. ASSUME NEW x \in Members(r)
       PROVE  \E k \in DOMAIN s : x = s[k] /\ a < k /\ k <= b
  <2>1. PICK k \in 1..m : x = r[k]
    BY <1>7 DEF Members
  <2>2. x = s[a + k] /\ a + k \in DOMAIN s /\ a < a + k /\ a + k <= b
    BY <1>2, <1>6, <1>8, <2>1
  <2> QED
    BY <2>2
<1>11. ASSUME NEW k \in DOMAIN s, a < k, k <= b
       PROVE  s[k] \in Members(r)
  <2>1. PICK l : l = k - a
    OBVIOUS
  <2>2. l \in 1..m /\ a + l = k
    BY <1>2, <1>5, <1>11, <2>1
  <2> QED
    BY <1>6, <1>7, <2>2 DEF Members
<1> QED
  BY <1>6, <1>9, <1>10, <1>11
-----------------------------------------------------------------------------
(* The nodes that toLogicalElement makes logical are found by a recursive  *)
(* function too: from a node down, until one that is logical already.      *)
LEMMA ChildrenAre ==
  ASSUME NEW N, Tree(N), NEW q \in 0..N
  PROVE  /\ \A c : c \in LogicalChildNodes(q)
                     <=> c \in 1..N /\ markup[c].parent = q /\ ~isMetadataComment(c)
         /\ Nodes(LogicalChildNodes(q), N)
         /\ \A c \in LogicalChildNodes(q) : q < c /\ c \in 0..N
<1>1. N \in Nat
  BY DEF Tree
<1>2. \A c : c \in LogicalChildNodes(q)
               <=> c \in 1..N /\ markup[c].parent = q /\ ~isMetadataComment(c)
  BY DEF LogicalChildNodes, childNodes, Tree
<1>3. \A c \in 1..N : markup[c].parent \in Nat /\ markup[c].parent < c
  BY DEF Tree
<1>4. ASSUME NEW c \in LogicalChildNodes(q)
      PROVE  q < c /\ c \in 0..N /\ c \in Nat /\ 1 <= c /\ c <= N
  BY <1>1, <1>2, <1>3, <1>4
<1> QED
  BY <1>2, <1>4 DEF Nodes

BelowFrom(g, q) ==
  IF q \in DOMAIN logical THEN {} ELSE {q} \cup UNION {g[c] : c \in LogicalChildNodes(q)}

LEMMA BelowSame ==
  ASSUME NEW N, Tree(N), NEW q \in 0..N, NEW g, NEW h, \A j \in (q + 1)..N : g[j] = h[j]
  PROVE  BelowFrom(g, q) = BelowFrom(h, q)
<1>1. ASSUME NEW c \in LogicalChildNodes(q)
      PROVE  g[c] = h[c]
  <2>1. q < c /\ c \in 0..N /\ N \in Nat
    BY <1>1, ChildrenAre DEF Tree
  <2>2. c \in (q + 1)..N
    BY <2>1
  <2> QED
    BY <2>2
<1>2. {g[c] : c \in LogicalChildNodes(q)} = {h[c] : c \in LogicalChildNodes(q)}
  BY <1>1
<1> QED
  BY <1>2 DEF BelowFrom

PromotesFrom(g, N, n) == \A q \in (N + 1 - n)..N : g[q] = BelowFrom(g, q)

LEMMA PromotesExist ==
  ASSUME NEW N, Tree(N), NEW n \in 0..(N + 1)
  PROVE  \E g : PromotesFrom(g, N, n)
<1>1. N \in Nat
  BY DEF Tree
<1> DEFINE T == {m \in 0..(N + 1) : ~\E g : PromotesFrom(g, N, m)}
<1>2. SUFFICES ASSUME T # {} PROVE FALSE
  BY <1>2
<1>3. T \subseteq Nat
  BY <1>1
<1>4. PICK x \in T : \A y \in T : x <= y
  BY <1>2, <1>3, LeastOf
<1>5. x \in 0..(N + 1) /\ ~\E g : PromotesFrom(g, N, x)
  BY <1>4
<1>6. PICK g : (x = 0) \/ PromotesFrom(g, N, x - 1)
  <2>1. CASE x = 0
    BY <2>1
  <2>2. CASE x # 0
    <3>1. x - 1 \in 0..(N + 1) /\ ~(x <= x - 1)
      BY <1>1, <1>5, <2>2
    <3>2. x - 1 \notin T
      BY <1>4, <3>1
    <3> QED
      BY <3>1, <3>2
  <2> QED
    BY <2>1, <2>2
<1>7. PICK b : b = N + 1 - x
  OBVIOUS
<1>8. b \in 0..(N + 1)
  BY <1>1, <1>5, <1>7
<1>9. PICK h : h = [i \in 0..N |-> IF i = b THEN BelowFrom(g, i) ELSE g[i]]
  OBVIOUS
<1>10. \A j \in (b + 1)..N : h[j] = g[j]
  BY <1>1, <1>8, <1>9
<1>11. ASSUME NEW i \in b..N
       PROVE  h[i] = BelowFrom(h, i)
  <2>1. i \in 0..N
    BY <1>1, <1>8
  <2>2. \A j \in (i + 1)..N : g[j] = h[j]
    BY <1>1, <1>8, <1>10
  <2>3. BelowFrom(g, i) = BelowFrom(h, i)
    BY <2>1, <2>2, BelowSame
  <2>4. CASE i = b
    BY <1>9, <2>1, <2>3, <2>4
  <2>5. CASE i # b
    <3>1. i \in (N + 1 - (x - 1))..N /\ x # 0
      BY <1>1, <1>5, <1>7, <1>8, <2>5
    <3>2. g[i] = BelowFrom(g, i)
      BY <1>6, <3>1 DEF PromotesFrom
    <3> QED
      BY <1>9, <2>1, <2>3, <2>5, <3>2
  <2> QED
    BY <2>4, <2>5
<1>12. PromotesFrom(h, N, x)
  BY <1>7, <1>11 DEF PromotesFrom
<1> QED
  BY <1>5, <1>12

LEMMA PromotedIs ==
  ASSUME NEW N, Tree(N), NEW p
  PROVE  \E g : PromotesFrom(g, N, N + 1) /\ Promoted(p) = g[p]
<1>1. N \in Nat /\ {0} \cup DOMAIN markup = 0..N /\ N + 1 \in 0..(N + 1) /\ N + 1 - (N + 1) = 0
  BY DEF Tree
<1>2. PICK h : PromotesFrom(h, N, N + 1)
  BY <1>1, PromotesExist
<1>3. \A q \in 0..N : h[q] = BelowFrom(h, q)
  BY <1>1, <1>2 DEF PromotesFrom
<1> DEFINE Is(f) == f = [q \in {0} \cup DOMAIN markup |->
             IF q \in DOMAIN logical THEN {}
             ELSE {q} \cup UNION {f[c] : c \in LogicalChildNodes(q)}]
<1>4. \A f : Is(f) <=> f = [q \in 0..N |-> BelowFrom(f, q)]
  BY <1>1 DEF BelowFrom
<1>5. PICK k : k = [q \in 0..N |-> h[q]]
  OBVIOUS
<1>6. ASSUME NEW q \in 0..N
      PROVE  h[q] = BelowFrom(k, q)
  <2>1. \A j \in (q + 1)..N : h[j] = k[j]
    BY <1>1, <1>5
  <2> QED
    BY <1>3, <2>1, BelowSame
<1>7. k = [q \in 0..N |-> BelowFrom(k, q)]
  BY <1>5, <1>6
<1>8. PICK g : g = CHOOSE f : Is(f)
  OBVIOUS
<1>9. Promoted(p) = g[p]
  BY <1>8 DEF Promoted
<1>10. Is(k)
  BY <1>4, <1>7
<1> HIDE DEF Is
<1>11. Is(g)
  BY <1>8, <1>10
<1>12. g = [q \in 0..N |-> BelowFrom(g, q)]
  BY <1>4, <1>11
<1>13. \A q \in 0..N : g[q] = BelowFrom(g, q)
  BY <1>12
<1> QED
  BY <1>1, <1>9, <1>13 DEF PromotesFrom

(* What becomes logical was not, and all below it is logical then.         *)
Promotion(S, q, N) ==
  /\ S \subseteq 0..N
  /\ \A r \in S : r \notin DOMAIN logical
  /\ q \notin DOMAIN logical => q \in S
  /\ q \in DOMAIN logical => S = {}
  /\ \A r \in S : \A c \in LogicalChildNodes(r) : c \in DOMAIN logical \/ c \in S

LEMMA PromotedFacts ==
  ASSUME NEW N, Tree(N), NEW p \in 0..N
  PROVE  Promotion(Promoted(p), p, N)
<1>1. N \in Nat
  BY DEF Tree
<1>2. PICK g : PromotesFrom(g, N, N + 1) /\ Promoted(p) = g[p]
  BY PromotedIs
<1>3. \A q \in 0..N : g[q] = BelowFrom(g, q)
  BY <1>1, <1>2 DEF PromotesFrom
<1>4. ASSUME NEW q \in 0..N, \A c \in LogicalChildNodes(q) : Promotion(g[c], c, N)
      PROVE  Promotion(g[q], q, N)
  <2>1. CASE q \in DOMAIN logical
    <3>1. g[q] = {}
      BY <1>3, <2>1 DEF BelowFrom
    <3> QED
      BY <2>1, <3>1 DEF Promotion
  <2>2. CASE q \notin DOMAIN logical
    <3>1. g[q] = {q} \cup UNION {g[c] : c \in LogicalChildNodes(q)}
      BY <1>3, <2>2 DEF BelowFrom
    <3>2. PICK S : S = g[q]
      OBVIOUS
    <3>3. \A r : r \in S <=> r = q \/ \E c \in LogicalChildNodes(q) : r \in g[c]
      BY <3>1, <3>2
    <3>4. ASSUME NEW r \in S
          PROVE  r \in 0..N /\ r \notin DOMAIN logical
      BY <1>4, <2>2, <3>3 DEF Promotion
    <3>5. ASSUME NEW r \in S, NEW c \in LogicalChildNodes(r)
          PROVE  c \in DOMAIN logical \/ c \in S
      <4>1. CASE r = q
        <5>1. Promotion(g[c], c, N)
          BY <1>4, <3>5, <4>1
        <5>2. c \in DOMAIN logical \/ c \in g[c]
          BY <5>1 DEF Promotion
        <5> QED
          BY <3>3, <3>5, <4>1, <5>2
      <4>2. CASE r # q
        <5>1. PICK b \in LogicalChildNodes(q) : r \in g[b]
          BY <3>3, <4>2
        <5>2. c \in DOMAIN logical \/ c \in g[b]
          BY <1>4, <3>5, <5>1 DEF Promotion
        <5> QED
          BY <3>3, <5>1, <5>2
      <4> QED
        BY <4>1, <4>2
    <3>6. Promotion(S, q, N)
      BY <2>2, <3>3, <3>4, <3>5 DEF Promotion
    <3> QED
      BY <3>2, <3>6
  <2> QED
    BY <2>1, <2>2
<1> DEFINE T == {x \in 0..N : ~Promotion(g[N - x], N - x, N)}
<1>5. T = {}
  <2>1. SUFFICES ASSUME T # {} PROVE FALSE
    BY <2>1
  <2>2. T \subseteq Nat
    BY <1>1
  <2>3. PICK x \in T : \A y \in T : x <= y
    BY <2>1, <2>2, LeastOf
  <2>4. PICK q : q = N - x
    OBVIOUS
  <2>5. q \in 0..N /\ x \in 0..N /\ ~Promotion(g[q], q, N)
    BY <1>1, <2>3, <2>4
  <2>6. ASSUME NEW c \in LogicalChildNodes(q)
        PROVE  Promotion(g[c], c, N)
    <3>1. q < c /\ c \in 0..N
      BY <2>5, ChildrenAre
    <3>2. PICK y : y = N - c
      OBVIOUS
    <3>3. y \in 0..N /\ ~(x <= y) /\ N - y = c
      BY <1>1, <2>4, <2>5, <3>1, <3>2
    <3>4. y \notin T
      BY <2>3, <3>3
    <3> QED
      BY <3>3, <3>4
  <2> QED
    BY <1>4, <2>5, <2>6
<1>6. PICK x : x = N - p
  OBVIOUS
<1>7. x \in 0..N /\ N - x = p
  BY <1>1, <1>6
<1> QED
  BY <1>2, <1>5, <1>7
-----------------------------------------------------------------------------
(* Owners: prerendered contents do not overlap.                            *)
OwnersIn(A, q) == {s \in A : BelongsTo(q, s)}

OwnerIn(A, q) ==
  IF OwnersIn(A, q) = {} THEN markup[q].parent ELSE CHOOSE s \in OwnersIn(A, q) : TRUE

OwnIn(A, p) == {q \in DOMAIN markup : ~isMetadataComment(q) /\ OwnerIn(A, q) = p}

LEMMA BelongsIs ==
  ASSUME NEW N, Tree(N), NEW q \in 1..N, NEW s \in 1..N, BelongsTo(q, s)
  PROVE  /\ markup[s].parent = markup[q].parent /\ s < q
         /\ \E k \in 1..N : Delimit(s, k) /\ q <= k
  BY DEF BelongsTo, Tree

LEMMA NotBetween ==
  ASSUME NEW N, Tree(N), NEW q \in 1..N, NEW s \in 1..N, NEW t \in 1..N,
         BelongsTo(q, s), BelongsTo(q, t)
  PROVE  ~(s < t)
<1>1. SUFFICES ASSUME s < t PROVE FALSE
  BY <1>1
<1>2. /\ markup[s].parent = markup[q].parent /\ s < q
      /\ \E k \in 1..N : Delimit(s, k) /\ q <= k
  BY BelongsIs
<1>3. /\ markup[t].parent = markup[q].parent /\ t < q
      /\ \E k \in 1..N : Delimit(t, k) /\ q <= k
  BY BelongsIs
<1>4. PICK k \in 1..N : Delimit(s, k) /\ q <= k
  BY <1>2
<1>5. PICK l \in 1..N : Delimit(t, l)
  BY <1>3
<1>6. IsMarker(t)
  BY <1>5, DelimitIs
<1>7. t < k
  BY <1>3, <1>4 DEF Tree
<1>8. \A j \in 1..N : markup[j].parent = markup[s].parent /\ s < j /\ j < k => ~IsMarker(j)
  BY <1>4, DelimitIs
<1> QED
  BY <1>1, <1>2, <1>3, <1>6, <1>7, <1>8

LEMMA OneOwner ==
  ASSUME NEW N, Tree(N), NEW q \in 1..N, NEW s \in 1..N, NEW t \in 1..N,
         BelongsTo(q, s), BelongsTo(q, t)
  PROVE  s = t
<1>1. ~(s < t) /\ ~(t < s)
  BY NotBetween
<1> QED
  BY <1>1 DEF Tree

LEMMA OwnerIs ==
  ASSUME NEW N, Tree(N), NEW A, A \subseteq 1..N, NEW q \in 1..N
  PROVE  /\ (\A s \in A : ~BelongsTo(q, s)) => OwnerIn(A, q) = markup[q].parent
         /\ \A s \in A : BelongsTo(q, s) => OwnerIn(A, q) = s
         /\ OwnerIn(A, q) = markup[q].parent
              \/ (OwnerIn(A, q) \in A /\ BelongsTo(q, OwnerIn(A, q)))
<1>1. CASE \A s \in A : ~BelongsTo(q, s)
  <2>1. OwnersIn(A, q) = {}
    BY <1>1 DEF OwnersIn
  <2> QED
    BY <1>1, <2>1 DEF OwnerIn
<1>2. ASSUME NEW s \in A, BelongsTo(q, s)
      PROVE  OwnerIn(A, q) = s
  <2>1. \A t \in OwnersIn(A, q) : t = s
    BY <1>2, OneOwner DEF OwnersIn
  <2>2. s \in OwnersIn(A, q)
    BY <1>2 DEF OwnersIn
  <2>3. OwnerIn(A, q) = CHOOSE t \in OwnersIn(A, q) : TRUE
    BY <2>2 DEF OwnerIn
  <2>4. (CHOOSE t \in OwnersIn(A, q) : TRUE) \in OwnersIn(A, q)
    BY <2>2
  <2> QED
    BY <2>1, <2>3, <2>4
<1> QED
  BY <1>1, <1>2

OwnedBy(A, q, o) == o = markup[q].parent \/ (o \in A /\ BelongsTo(q, o))

LEMMA OwnerEither ==
  ASSUME NEW N, Tree(N), NEW A, A \subseteq 1..N, NEW q \in 1..N
  PROVE  OwnedBy(A, q, OwnerIn(A, q))
<1>1. OwnerIn(A, q) = markup[q].parent \/ (OwnerIn(A, q) \in A /\ BelongsTo(q, OwnerIn(A, q)))
  BY OwnerIs
<1> QED
  BY <1>1 DEF OwnedBy

(* One more root owns what belongs to it, and that had been its parent's.  *)
OwnerMoves(A, b, q) ==
  /\ BelongsTo(q, b) => OwnerIn(A \cup {b}, q) = b /\ OwnerIn(A, q) = markup[b].parent
  /\ ~BelongsTo(q, b) => OwnerIn(A \cup {b}, q) = OwnerIn(A, q)

LEMMA OwnerMore ==
  ASSUME NEW N, Tree(N), NEW A, A \subseteq 1..N, NEW b \in 1..N, b \notin A, NEW q \in 1..N
  PROVE  OwnerMoves(A, b, q)
<1>1. PICK B : B = A \cup {b}
  OBVIOUS
<1>2. B \subseteq 1..N
  BY <1>1
<1>3. /\ (\A s \in B : ~BelongsTo(q, s)) => OwnerIn(B, q) = markup[q].parent
      /\ \A s \in B : BelongsTo(q, s) => OwnerIn(B, q) = s
  BY <1>2, OwnerIs
<1>4. /\ (\A s \in A : ~BelongsTo(q, s)) => OwnerIn(A, q) = markup[q].parent
      /\ \A s \in A : BelongsTo(q, s) => OwnerIn(A, q) = s
  BY OwnerIs
<1>5. ASSUME BelongsTo(q, b)
      PROVE  \A s \in A : ~BelongsTo(q, s)
  BY <1>5, OneOwner
<1>6. ASSUME BelongsTo(q, b)
      PROVE  markup[q].parent = markup[b].parent
  BY <1>6, BelongsIs
<1>7. ASSUME ~BelongsTo(q, b)
      PROVE  OwnerIn(B, q) = OwnerIn(A, q)
  <2>1. CASE \A s \in A : ~BelongsTo(q, s)
    BY <1>1, <1>3, <1>4, <1>7, <2>1
  <2>2. CASE \E s \in A : BelongsTo(q, s)
    BY <1>1, <1>3, <1>4, <2>2
  <2> QED
    BY <2>1, <2>2
<1> QED
  BY <1>1, <1>3, <1>4, <1>5, <1>6, <1>7 DEF OwnerMoves

LEMMA OwnIs ==
  ASSUME NEW N, Tree(N), NEW A, NEW p, NEW q
  PROVE  q \in OwnIn(A, p) <=> q \in 1..N /\ ~isMetadataComment(q) /\ OwnerIn(A, q) = p
  BY DEF OwnIn, Tree
-----------------------------------------------------------------------------
(* Every logical element has its own nodes as children.                    *)
Holds(N, s, nodes, p, P) ==
  /\ s \in Seq(1..N) /\ Increasing(s) /\ Members(s) = nodes
  /\ \A q \in nodes : q \in DOMAIN P /\ P[q] = p

RootsIn(N, L, A) ==
  \A s \in A : /\ s \in 1..N /\ s \in DOMAIN L
               /\ markup[s].kind = "start" /\ markup[s].parent \in DOMAIN L

Shape(N, L, P, A) ==
  /\ RootsIn(N, L, A)
  /\ DOMAIN L \subseteq 0..N
  /\ \A p \in DOMAIN L : Holds(N, L[p], OwnIn(A, p), p, P)
  /\ \A p \in DOMAIN L : \A c \in LogicalChildNodes(p) : c \in DOMAIN L

Adopts(C, Q, new) ==
  /\ DOMAIN C = DOMAIN logical \cup new
  /\ \A q \in DOMAIN logical \cup new :
       /\ q \in new => C[q] = InDocumentOrder(LogicalChildNodes(q))
       /\ q \notin new => C[q] = logical[q]
  /\ \A x \in DOMAIN logicalParent :
       /\ x \in DOMAIN Q
       /\ (\A q \in new : x \notin LogicalChildNodes(q)) => Q[x] = logicalParent[x]
  /\ \A q \in new : \A x \in LogicalChildNodes(q) :
       x \in DOMAIN Q /\ Q[x] = markup[x].parent

LEMMA ElementIs ==
  ASSUME NEW p, NEW new, new = Promoted(p), NEW C, C = toLogicalElement(p).children,
         NEW Q, Q = toLogicalElement(p).parent
  PROVE  Adopts(C, Q, new)
<1>1. PICK adopted : adopted = UNION {LogicalChildNodes(q) : q \in new}
  OBVIOUS
<1>2. C = [q \in DOMAIN logical \cup new |->
             IF q \in new THEN InDocumentOrder(LogicalChildNodes(q)) ELSE logical[q]]
  BY DEF toLogicalElement
<1>3. Q = [q \in DOMAIN logicalParent \cup adopted |->
             IF q \in adopted THEN markup[q].parent ELSE logicalParent[q]]
  BY <1>1 DEF toLogicalElement
<1>4. \A x : x \in adopted <=> \E q \in new : x \in LogicalChildNodes(q)
  BY <1>1
<1> QED
  BY <1>2, <1>3, <1>4 DEF Adopts

LEMMA ElementKeeps ==
  ASSUME NEW N, Tree(N), NEW A, Shape(N, logical, logicalParent, A), NEW p \in 0..N,
         NEW C, C = toLogicalElement(p).children, NEW Q, Q = toLogicalElement(p).parent
  PROVE  /\ Shape(N, C, Q, A)
         /\ p \in DOMAIN C
<1>1. PICK new : new = Promoted(p)
  OBVIOUS
<1>2. Promotion(new, p, N)
  BY <1>1, PromotedFacts
<1>a. Adopts(C, Q, new)
  BY <1>1, ElementIs
<1>3. DOMAIN C = DOMAIN logical \cup new
  BY <1>a DEF Adopts
<1>4. \A q \in DOMAIN logical \cup new :
        /\ q \in new => C[q] = InDocumentOrder(LogicalChildNodes(q))
        /\ q \notin new => C[q] = logical[q]
  BY <1>a DEF Adopts
<1>5. \A x \in DOMAIN logicalParent :
        /\ x \in DOMAIN Q
        /\ (\A q \in new : x \notin LogicalChildNodes(q)) => Q[x] = logicalParent[x]
  BY <1>a DEF Adopts
<1>6. \A q \in new : \A x \in LogicalChildNodes(q) : x \in DOMAIN Q /\ Q[x] = markup[x].parent
  BY <1>a DEF Adopts
<1>7. \A s \in A : /\ s \in 1..N /\ s \in DOMAIN logical
                   /\ markup[s].kind = "start" /\ markup[s].parent \in DOMAIN logical
  BY DEF Shape, RootsIn
<1>8. A \subseteq 1..N
  BY <1>7
<1>9. N \in Nat
  BY DEF Tree
<1>10. ASSUME NEW x \in 1..N
       PROVE  /\ OwnerIn(A, x) \in DOMAIN logical => markup[x].parent \in DOMAIN logical
              /\ OwnerIn(A, x) \notin DOMAIN logical => OwnerIn(A, x) = markup[x].parent
              /\ markup[x].parent \notin DOMAIN logical => OwnerIn(A, x) = markup[x].parent
  <2>1. PICK o : o = OwnerIn(A, x)
    OBVIOUS
  <2>2. o = markup[x].parent \/ (o \in A /\ BelongsTo(x, o))
    BY <1>8, <2>1, OwnerIs
  <2>3. ASSUME o \in A, BelongsTo(x, o)
        PROVE  o \in DOMAIN logical /\ markup[x].parent \in DOMAIN logical
    <3>1. markup[o].parent = markup[x].parent
      BY <1>8, <2>3, BelongsIs
    <3> QED
      BY <1>7, <2>3, <3>1
  <2> QED
    BY <2>1, <2>2, <2>3
<1>11. ASSUME NEW q \in new
       PROVE  Holds(N, C[q], OwnIn(A, q), q, Q)
  <2>1. q \in 0..N /\ q \notin DOMAIN logical
    BY <1>2 DEF Promotion
  <2>2. PICK nodes : nodes = LogicalChildNodes(q)
    OBVIOUS
  <2>3. Nodes(nodes, N)
        /\ \A c : c \in nodes <=> c \in 1..N /\ markup[c].parent = q /\ ~isMetadataComment(c)
    BY <2>1, <2>2, ChildrenAre
  <2>4. C[q] = InDocumentOrder(nodes)
    BY <1>4, <2>2
  <2>5. C[q] \in Seq(1..N) /\ Increasing(C[q]) /\ Members(C[q]) = nodes
    BY <1>9, <2>3, <2>4, OrderIs
  <2>6. \A x : x \in OwnIn(A, q) <=> x \in nodes
    <3> TAKE x
    <3>1. x \in OwnIn(A, q) <=> x \in 1..N /\ ~isMetadataComment(x) /\ OwnerIn(A, x) = q
      BY OwnIs
    <3> QED
      BY <1>10, <2>1, <2>3, <3>1
  <2>7. OwnIn(A, q) = nodes
    BY <2>6
  <2>8. \A x \in nodes : x \in DOMAIN Q /\ Q[x] = q
    BY <1>6, <2>2, <2>3
  <2> QED
    BY <2>5, <2>7, <2>8 DEF Holds
<1>12. ASSUME NEW q \in DOMAIN logical
       PROVE  Holds(N, C[q], OwnIn(A, q), q, Q)
  <2>1. q \notin new
    BY <1>2 DEF Promotion
  <2>2. C[q] = logical[q]
    BY <1>4, <2>1
  <2>3. Holds(N, logical[q], OwnIn(A, q), q, logicalParent)
    BY DEF Shape
  <2>4. ASSUME NEW x \in OwnIn(A, q)
        PROVE  x \in DOMAIN Q /\ Q[x] = q
    <3>1. x \in DOMAIN logicalParent /\ logicalParent[x] = q
      BY <2>3 DEF Holds
    <3>2. x \in 1..N /\ OwnerIn(A, x) = q
      BY OwnIs
    <3>3. markup[x].parent \in DOMAIN logical
      BY <1>10, <3>2
    <3>4. ASSUME NEW r \in new PROVE x \notin LogicalChildNodes(r)
      <4>1. r \in 0..N /\ r \notin DOMAIN logical
        BY <1>2 DEF Promotion
      <4>2. x \in LogicalChildNodes(r) => markup[x].parent = r
        BY <4>1, ChildrenAre
      <4> QED
        BY <3>3, <4>1, <4>2
    <3> QED
      BY <1>5, <3>1, <3>4
  <2> QED
    BY <2>2, <2>3, <2>4 DEF Holds
<1>13. DOMAIN C \subseteq 0..N
  <2>1. DOMAIN logical \subseteq 0..N /\ new \subseteq 0..N
    BY <1>2 DEF Shape, Promotion
  <2> QED
    BY <1>3, <2>1
<1>14. \A q \in DOMAIN C : \A c \in LogicalChildNodes(q) : c \in DOMAIN C
  BY <1>2, <1>3 DEF Shape, Promotion
<1>15. RootsIn(N, C, A)
  BY <1>3, <1>7 DEF RootsIn
<1>16. p \in DOMAIN C
  BY <1>2, <1>3 DEF Promotion
<1>17. \A q \in DOMAIN C : Holds(N, C[q], OwnIn(A, q), q, Q)
  BY <1>3, <1>11, <1>12
<1> QED
  BY <1>13, <1>14, <1>15, <1>16, <1>17 DEF Shape

(* Cutting a part out of an increasing sequence.                           *)
Parted(N, s, a, z, m, r) ==
  /\ m \in Seq(1..N) /\ Increasing(m) /\ r \in Seq(1..N) /\ Increasing(r)
  /\ \A x : x \in Members(m) <=> \E k \in DOMAIN s : x = s[k] /\ a < k /\ k <= z
  /\ \A x : x \in Members(r) <=> \E k \in DOMAIN s : x = s[k] /\ (k <= a \/ z < k)

LEMMA CutIs ==
  ASSUME NEW N \in Nat, NEW s \in Seq(1..N), Increasing(s), NEW a \in Nat, NEW z \in Nat,
         a <= z, z <= Len(s), NEW m, m = SubSeq(s, a + 1, z),
         NEW r, r = SubSeq(s, 1, a) \o SubSeq(s, z + 1, Len(s))
  PROVE  Parted(N, s, a, z, m, r)
<1>1. PICK n \in Nat : n = Len(s)
  OBVIOUS
<1>2. DOMAIN s = 1..n /\ \A k \in 1..n : s[k] \in 1..N
  BY <1>1
<1>3. /\ m \in Seq(1..N) /\ Increasing(m)
      /\ \A x \in Members(m) : \E k \in DOMAIN s : x = s[k] /\ a < k /\ k <= z
      /\ \A k \in DOMAIN s : a < k /\ k <= z => s[k] \in Members(m)
  BY PartIs
<1>4. PICK f : f = SubSeq(s, 1, a)
  OBVIOUS
<1>5. /\ f \in Seq(1..N) /\ Increasing(f)
      /\ \A x \in Members(f) : \E k \in DOMAIN s : x = s[k] /\ 0 < k /\ k <= a
      /\ \A k \in DOMAIN s : 0 < k /\ k <= a => s[k] \in Members(f)
  <2>1. 0 + 1 = 1 /\ a <= Len(s) /\ 0 \in Nat
    BY <1>1
  <2>2. f = SubSeq(s, 0 + 1, a)
    BY <1>4, <2>1
  <2> QED
    BY <2>1, <2>2, PartIs
<1>6. PICK t : t = SubSeq(s, z + 1, Len(s))
  OBVIOUS
<1>7. /\ t \in Seq(1..N) /\ Increasing(t)
      /\ \A x \in Members(t) : \E k \in DOMAIN s : x = s[k] /\ z < k /\ k <= n
      /\ \A k \in DOMAIN s : z < k /\ k <= n => s[k] \in Members(t)
  <2>1. n <= Len(s) /\ t = SubSeq(s, z + 1, n)
    BY <1>1, <1>6
  <2> QED
    BY <2>1, PartIs
<1>8. r = f \o t
  BY <1>4, <1>6
<1>9. PICK h \in Nat, l \in Nat : h = Len(f) /\ l = Len(t)
  BY <1>5, <1>7
<1>10. r \in Seq(1..N) /\ Joined(r, f, t, h, l)
  BY <1>5, <1>7, <1>8, <1>9, ConcatFacts
<1>11. \A x : x \in Members(r) <=> x \in Members(f) \/ x \in Members(t)
  BY <1>10 DEF Joined
<1>12. Increasing(r)
  <2> SUFFICES ASSUME NEW i \in 1..(h + l), NEW j \in 1..(h + l), i < j PROVE r[i] < r[j]
    BY <1>10 DEF Increasing, Joined
  <2>1. CASE j <= h
    <3>1. i \in 1..h /\ j \in 1..h
      BY <2>1
    <3>2. f[i] < f[j]
      BY <1>5, <1>10, <3>1 DEF Increasing, Joined
    <3> QED
      BY <1>10, <3>1, <3>2 DEF Joined
  <2>2. CASE h < i
    <3>1. i \in (h + 1)..(h + l) /\ j \in (h + 1)..(h + l)
      BY <2>2
    <3>2. i - h \in 1..l /\ j - h \in 1..l /\ i - h < j - h
      BY <3>1
    <3>3. t[i - h] < t[j - h]
      BY <1>7, <1>10, <3>2 DEF Increasing, Joined
    <3>4. r[i] = t[i - h] /\ r[j] = t[j - h]
      BY <1>10, <3>1 DEF Joined
    <3> QED
      BY <3>3, <3>4
  <2>3. CASE i <= h /\ h < j
    <3>1. i \in 1..h /\ j \in (h + 1)..(h + l)
      BY <2>3
    <3>2. j - h \in 1..l
      BY <3>1
    <3>3. r[i] = f[i] /\ r[j] = t[j - h]
      BY <1>10, <3>1 DEF Joined
    <3>4. f[i] \in Members(f) /\ t[j - h] \in Members(t)
      BY <1>10, <3>1, <3>2 DEF Joined, Members
    <3>5. PICK x, y : x = r[i] /\ y = r[j]
      OBVIOUS
    <3>6. x \in Members(f) /\ y \in Members(t)
      BY <3>3, <3>4, <3>5
    <3>7. PICK u \in DOMAIN s : x = s[u] /\ u <= a
      BY <1>5, <3>6
    <3>8. PICK v \in DOMAIN s : y = s[v] /\ z < v
      BY <1>7, <3>6
    <3>9. u < v
      BY <1>2, <3>7, <3>8
    <3>10. s[u] < s[v]
      BY <3>9 DEF Increasing
    <3>11. x < y
      BY <3>7, <3>8, <3>10
    <3> QED
      BY <3>5, <3>11
  <2>4. i \in Nat /\ j \in Nat /\ h \in Nat
    BY <1>9
  <2>5. j <= h \/ h < i \/ (i <= h /\ h < j)
    BY <2>4
  <2> QED
    BY <2>1, <2>2, <2>3, <2>5
<1>13. ASSUME NEW x
       PROVE  x \in Members(r) <=> \E k \in DOMAIN s : x = s[k] /\ (k <= a \/ z < k)
  <2>1. ASSUME x \in Members(r)
        PROVE  \E k \in DOMAIN s : x = s[k] /\ (k <= a \/ z < k)
    BY <1>5, <1>7, <1>11, <2>1
  <2>2. ASSUME NEW k \in DOMAIN s, x = s[k], k <= a \/ z < k
        PROVE  x \in Members(r)
    <3>1. k \in Nat /\ 0 < k /\ k <= n
      BY <1>2
    <3> QED
      BY <1>5, <1>7, <1>11, <2>2, <3>1
  <2> QED
    BY <2>1, <2>2
<1> QED
  BY <1>3, <1>10, <1>12, <1>13 DEF Parted

LEMMA PlaceIs ==
  ASSUME NEW s, NEW x \in Members(s), NEW k, k = Place(s, x)
  PROVE  k \in DOMAIN s /\ s[k] = x
<1>1. \E l \in DOMAIN s : s[l] = x
  BY DEF Members
<1>2. k = CHOOSE l \in DOMAIN s : s[l] = x
  BY DEF Place
<1> QED
  BY <1>1, <1>2

(* What is after one element, up to another.                               *)
LEMMA BetweenPlaces ==
  ASSUME NEW N \in Nat, NEW s \in Seq(1..N), Increasing(s), NEW b \in Members(s),
         NEW e \in Members(s), b < e, NEW a, a = Place(s, b), NEW z, z = Place(s, e)
  PROVE  /\ a \in Nat /\ z \in Nat /\ a <= z /\ z <= Len(s)
         /\ \A k \in DOMAIN s : a < k /\ k <= z <=> b < s[k] /\ s[k] <= e
<1>1. PICK n \in Nat : n = Len(s)
  OBVIOUS
<1>2. DOMAIN s = 1..n /\ \A k \in 1..n : s[k] \in 1..N
  BY <1>1
<1>3. a \in 1..n /\ s[a] = b /\ z \in 1..n /\ s[z] = e
  BY <1>2, PlaceIs
<1>4. \A k, l \in 1..n : k < l => s[k] < s[l]
  BY <1>2 DEF Increasing
<1>5. ASSUME NEW k \in 1..n
      PROVE  (a < k <=> b < s[k]) /\ (k <= z <=> s[k] <= e)
  <2>1. PICK x \in 1..N : x = s[k]
    BY <1>2
  <2>2. b \in 1..N /\ e \in 1..N
    BY <1>2, <1>3
  <2>3. (a < k => b < x) /\ (k < a => x < b) /\ (k < z => x < e) /\ (z < k => e < x)
    BY <1>3, <1>4, <2>1
  <2>4. (k = a => x = b) /\ (k = z => x = e)
    BY <1>3, <2>1
  <2>5. a < k <=> b < x
    BY <1>3, <2>2, <2>3, <2>4
  <2>6. k <= z <=> x <= e
    BY <1>3, <2>2, <2>3, <2>4
  <2> QED
    BY <2>1, <2>5, <2>6
<1>6. ~(z < a)
  <2>1. z < a => e < b
    BY <1>3, <1>4
  <2>2. b \in 1..N /\ e \in 1..N
    BY <1>2, <1>3
  <2> QED
    BY <2>1, <2>2
<1> QED
  BY <1>1, <1>2, <1>3, <1>5, <1>6

(* What changes owners with a new root.                                    *)
Takes(A, b, p) ==
  /\ \A x : x \notin OwnIn(A, b)
  /\ \A x : x \in OwnIn(A \cup {b}, b) <=> x \in OwnIn(A, p) /\ BelongsTo(x, b)
  /\ \A x : x \in OwnIn(A \cup {b}, p) <=> x \in OwnIn(A, p) /\ ~BelongsTo(x, b)
  /\ \A q : q # p /\ q # b => OwnIn(A \cup {b}, q) = OwnIn(A, q)

LEMMA RootOwns ==
  ASSUME NEW N, Tree(N), NEW A, \A s \in A : s \in 1..N, NEW b \in 1..N, b \notin A,
         markup[b].kind = "start", NEW p, p = markup[b].parent
  PROVE  Takes(A, b, p)
<1>1. PICK B : B = A \cup {b}
  OBVIOUS
<1>3. A \subseteq 1..N
  OBVIOUS
<1>7. p # b
  BY DEF Tree
<1>9. \A x : x \notin OwnIn(A, b)
  <2> SUFFICES ASSUME NEW x, x \in OwnIn(A, b) PROVE FALSE
    OBVIOUS
  <2>1. x \in 1..N /\ OwnerIn(A, x) = b
    BY OwnIs
  <2>2. OwnedBy(A, x, OwnerIn(A, x))
    BY <1>3, <2>1, OwnerEither
  <2>4. markup[x].parent = b
    BY <2>1, <2>2 DEF OwnedBy
  <2>5. IsMarker(b)
    BY DEF IsMarker
  <2> QED
    BY <2>1, <2>4, <2>5 DEF Tree
<1>10. \A x \in 1..N : /\ BelongsTo(x, b) => OwnerIn(B, x) = b /\ OwnerIn(A, x) = p
                       /\ ~BelongsTo(x, b) => OwnerIn(B, x) = OwnerIn(A, x)
  <2> TAKE x \in 1..N
  <2>1. OwnerMoves(A, b, x)
    BY <1>3, OwnerMore
  <2> QED
    BY <1>1, <2>1 DEF OwnerMoves
<1>11. \A x, q : x \in OwnIn(A, q) <=> x \in 1..N /\ ~isMetadataComment(x) /\ OwnerIn(A, x) = q
  BY OwnIs
<1>12. \A x, q : x \in OwnIn(B, q) <=> x \in 1..N /\ ~isMetadataComment(x) /\ OwnerIn(B, x) = q
  BY OwnIs
<1>13. \A x : x \in OwnIn(B, b) <=> x \in OwnIn(A, p) /\ BelongsTo(x, b)
  BY <1>9, <1>10, <1>11, <1>12
<1>14. \A x : x \in OwnIn(B, p) <=> x \in OwnIn(A, p) /\ ~BelongsTo(x, b)
  BY <1>7, <1>10, <1>11, <1>12
<1>15. \A q : q # p /\ q # b => OwnIn(B, q) = OwnIn(A, q)
  <2> SUFFICES ASSUME NEW q, q # p, q # b PROVE OwnIn(B, q) = OwnIn(A, q)
    OBVIOUS
  <2>1. \A x : x \in OwnIn(B, q) <=> x \in OwnIn(A, q)
    BY <1>10, <1>11, <1>12
  <2> QED
    BY <2>1
<1> QED
  BY <1>1, <1>9, <1>13, <1>14, <1>15 DEF Takes

(* What moves, and what stays, when a root is attached.                    *)
Splits(N, m, r, A, p, b) ==
  /\ m \in Seq(1..N) /\ Increasing(m) /\ r \in Seq(1..N) /\ Increasing(r)
  /\ \A x : x \in Members(m) <=> x \in OwnIn(A, p) /\ BelongsTo(x, b)
  /\ \A x : x \in Members(r) <=> x \in OwnIn(A, p) /\ ~BelongsTo(x, b)

Moved(C, p, b, m, r) == [C EXCEPT ![p] = r, ![b] = @ \o m]

Reparented(Q, b, m) == [q \in DOMAIN Q |-> IF Contains(m, q) THEN b ELSE Q[q]]

(* A new root takes what belongs to it from its parent.                    *)
LEMMA RootTakes ==
  ASSUME NEW N, Tree(N), NEW A, NEW C, NEW Q, Shape(N, C, Q, A),
         NEW b \in 1..N, b \notin A, markup[b].kind = "start",
         NEW p, p = markup[b].parent, p \in DOMAIN C,
         NEW m, NEW r, Splits(N, m, r, A, p, b),
         NEW D, D = Moved(C, p, b, m, r), NEW R, R = Reparented(Q, b, m)
  PROVE  Shape(N, D, R, A \cup {b})
<1>1. PICK B : B = A \cup {b}
  OBVIOUS
<1>b. /\ m \in Seq(1..N) /\ Increasing(m) /\ r \in Seq(1..N) /\ Increasing(r)
      /\ \A x : x \in Members(m) <=> x \in OwnIn(A, p) /\ BelongsTo(x, b)
      /\ \A x : x \in Members(r) <=> x \in OwnIn(A, p) /\ ~BelongsTo(x, b)
  BY DEF Splits
<1>2. \A s \in A : /\ s \in 1..N /\ s \in DOMAIN C
                   /\ markup[s].kind = "start" /\ markup[s].parent \in DOMAIN C
  BY DEF Shape, RootsIn
<1>3. A \subseteq 1..N
  BY <1>2
<1>4. \A q \in DOMAIN C : Holds(N, C[q], OwnIn(A, q), q, Q)
  BY DEF Shape
<1>5. \A q \in DOMAIN C : \A c \in LogicalChildNodes(q) : c \in DOMAIN C
  BY DEF Shape
<1>6. DOMAIN C \subseteq 0..N
  BY DEF Shape
<1>7. p # b /\ p \in 0..N
  <2>1. p \in Nat /\ p < b
    BY DEF Tree
  <2> QED
    BY <1>6, <2>1
<1>8. b \in DOMAIN C
  <2>1. ~isMetadataComment(b)
    BY DEF isMetadataComment
  <2>2. b \in LogicalChildNodes(p)
    BY <1>7, <2>1, ChildrenAre
  <2> QED
    BY <1>5, <2>2
<1>a. Takes(A, b, p)
  BY <1>2, RootOwns
<1>9. \A x : x \notin OwnIn(A, b)
  BY <1>a DEF Takes
<1>13. \A x : x \in OwnIn(B, b) <=> x \in OwnIn(A, p) /\ BelongsTo(x, b)
  BY <1>1, <1>a DEF Takes
<1>14. \A x : x \in OwnIn(B, p) <=> x \in OwnIn(A, p) /\ ~BelongsTo(x, b)
  BY <1>1, <1>a DEF Takes
<1>15. \A q : q # p /\ q # b => OwnIn(B, q) = OwnIn(A, q)
  BY <1>1, <1>a DEF Takes
<1>16. Members(m) = OwnIn(B, b) /\ Members(r) = OwnIn(B, p)
  BY <1>b, <1>13, <1>14
<1>17. \A x : Contains(m, x) <=> x \in OwnIn(B, b)
  <2> TAKE x
  <2>1. Contains(m, x) <=> \E i \in 1..Len(m) : m[i] = x
    BY DEF Contains
  <2>2. DOMAIN m = 1..Len(m)
    BY <1>b
  <2>3. Contains(m, x) <=> x \in Members(m)
    BY <2>1, <2>2 DEF Members
  <2> QED
    BY <1>16, <2>3
<1>18. C[b] = <<>>
  <2>1. Holds(N, C[b], OwnIn(A, b), b, Q)
    BY <1>4, <1>8
  <2>2. PICK s : s = C[b]
    OBVIOUS
  <2>3. s \in Seq(1..N) /\ Members(s) = OwnIn(A, b)
    BY <2>1, <2>2 DEF Holds
  <2>4. ASSUME NEW k \in DOMAIN s PROVE FALSE
    <3>1. s[k] \in Members(s)
      BY DEF Members
    <3> QED
      BY <1>9, <2>3, <3>1
  <2>5. s = <<>>
    <3>1. PICK n \in Nat : n = Len(s)
      BY <2>3
    <3>2. DOMAIN s = 1..n
      BY <2>3, <3>1
    <3>3. n = 0
      BY <2>4, <3>2
    <3> QED
      BY <2>3, <3>1, <3>3, EmptySeq
  <2> QED
    BY <2>2, <2>5
<1>19. DOMAIN D = DOMAIN C /\ D[p] = r /\ D[b] = m
       /\ \A q \in DOMAIN C : q # p /\ q # b => D[q] = C[q]
  <2>1. <<>> \o m = m
    BY <1>b
  <2>2. D = [C EXCEPT ![p] = r, ![b] = <<>> \o m]
    BY <1>7, <1>18 DEF Moved
  <2> QED
    BY <1>7, <1>8, <2>1, <2>2
<1>20. /\ DOMAIN R = DOMAIN Q
       /\ \A x \in DOMAIN Q : x \in OwnIn(B, b) => R[x] = b
       /\ \A x \in DOMAIN Q : x \notin OwnIn(B, b) => R[x] = Q[x]
  BY <1>17 DEF Reparented
<1>21. ASSUME NEW q \in DOMAIN C, NEW x \in OwnIn(A, q)
       PROVE  x \in DOMAIN Q /\ Q[x] = q
  BY <1>4 DEF Holds
<1>22. ASSUME NEW q \in DOMAIN C, NEW x \in OwnIn(B, q)
       PROVE  x \in DOMAIN R /\ R[x] = q
  <2>1. CASE q = b
    <3>1. x \in OwnIn(A, p)
      BY <1>13, <2>1
    <3>2. x \in DOMAIN Q
      BY <1>21, <3>1
    <3>3. x \in OwnIn(B, b)
      BY <2>1
    <3>4. x \in DOMAIN R
      BY <1>20, <3>2
    <3>5. R[x] = b
      BY <1>20, <3>2, <3>3
    <3> QED
      BY <2>1, <3>4, <3>5
  <2>2. CASE q # b
    <3>1. x \in OwnIn(A, q)
      BY <1>14, <1>15, <2>2
    <3>2. x \in DOMAIN Q /\ Q[x] = q
      BY <1>21, <3>1
    <3>a. OwnerIn(B, x) = q
      BY OwnIs
    <3>3. x \notin OwnIn(B, b)
      BY <2>2, <3>a, OwnIs
    <3> QED
      BY <1>20, <3>2, <3>3
  <2> QED
    BY <2>1, <2>2
<1>23. ASSUME NEW q \in DOMAIN C
       PROVE  Holds(N, D[q], OwnIn(B, q), q, R)
  <2>1. CASE q = b
    BY <1>8, <1>16, <1>19, <1>22, <1>b, <2>1 DEF Holds
  <2>2. CASE q = p
    BY <1>16, <1>19, <1>22, <1>b, <2>2 DEF Holds
  <2>3. CASE q # b /\ q # p
    <3>1. D[q] = C[q] /\ OwnIn(B, q) = OwnIn(A, q)
      BY <1>15, <1>19, <2>3
    <3>2. Holds(N, C[q], OwnIn(A, q), q, Q)
      BY <1>4
    <3> QED
      BY <1>22, <3>1, <3>2 DEF Holds
  <2> QED
    BY <2>1, <2>2, <2>3
<1>24. RootsIn(N, D, B)
  BY <1>1, <1>2, <1>8, <1>19 DEF RootsIn
<1>25. Shape(N, D, R, B)
  BY <1>5, <1>6, <1>19, <1>23, <1>24 DEF Shape
<1> QED
  BY <1>1, <1>25

(* The markers of a root are its parent's, before it is attached.          *)
LEMMA StartIsOwn ==
  ASSUME NEW N, Tree(N), NEW A, \A s \in A : s \in 1..N, NEW b \in 1..N,
         markup[b].kind = "start"
  PROVE  b \in OwnIn(A, markup[b].parent)
<1>1. A \subseteq 1..N
  OBVIOUS
<1>2. ASSUME NEW s \in A, BelongsTo(b, s) PROVE FALSE
  <2>1. s \in 1..N
    OBVIOUS
  <2>2. /\ markup[s].parent = markup[b].parent /\ s < b
        /\ \E k \in 1..N : Delimit(s, k) /\ b <= k
    BY <1>2, <2>1, BelongsIs
  <2>3. PICK k \in 1..N : Delimit(s, k) /\ b <= k
    BY <2>2
  <2>4. /\ markup[k].kind = "end"
        /\ \A j \in 1..N : markup[j].parent = markup[s].parent /\ s < j /\ j < k => ~IsMarker(j)
    BY <2>1, <2>3, DelimitIs
  <2>5. IsMarker(b)
    BY DEF IsMarker
  <2>6. b < k
    BY <2>3, <2>4 DEF Tree
  <2> QED
    BY <2>2, <2>4, <2>5, <2>6
<1>3. OwnedBy(A, b, OwnerIn(A, b))
  BY <1>1, OwnerEither
<1>4. OwnerIn(A, b) = markup[b].parent
  BY <1>2, <1>3 DEF OwnedBy
<1>5. ~isMetadataComment(b)
  BY DEF isMetadataComment
<1> QED
  BY <1>4, <1>5, OwnIs

LEMMA EndIsOwn ==
  ASSUME NEW N, Tree(N), NEW A, \A s \in A : s \in 1..N, NEW b \in 1..N, b \notin A,
         NEW e \in 1..N, Delimit(b, e)
  PROVE  e \in OwnIn(A, markup[b].parent)
<1>1. A \subseteq 1..N
  OBVIOUS
<1>2. /\ b < e /\ markup[e].parent = markup[b].parent /\ markup[e].kind = "end"
      /\ IsMarker(b) /\ IsMarker(e)
      /\ \A j \in 1..N : markup[j].parent = markup[b].parent /\ b < j /\ j < e => ~IsMarker(j)
  BY DelimitIs
<1>3. ASSUME NEW s \in A, BelongsTo(e, s) PROVE FALSE
  <2>1. s \in 1..N /\ s # b
    OBVIOUS
  <2>2. /\ markup[s].parent = markup[e].parent /\ s < e
        /\ \E k \in 1..N : Delimit(s, k) /\ e <= k
    BY <1>3, <2>1, BelongsIs
  <2>3. PICK k \in 1..N : Delimit(s, k) /\ e <= k
    BY <2>2
  <2>4. /\ IsMarker(s)
        /\ \A j \in 1..N : markup[j].parent = markup[s].parent /\ s < j /\ j < k => ~IsMarker(j)
    BY <2>1, <2>3, DelimitIs
  <2>5. ~(s < b /\ b < k)
    BY <1>2, <2>2, <2>4
  <2>6. ~(b < s)
    BY <1>2, <2>1, <2>2, <2>4
  <2>7. b < k
    BY <1>2, <2>3 DEF Tree
  <2>8. s < b \/ b < s
    BY <2>1 DEF Tree
  <2> QED
    BY <2>5, <2>6, <2>7, <2>8
<1>4. OwnedBy(A, e, OwnerIn(A, e))
  BY <1>1, OwnerEither
<1>5. OwnerIn(A, e) = markup[b].parent
  BY <1>2, <1>3, <1>4 DEF OwnedBy
<1>6. ~isMetadataComment(e)
  BY <1>2 DEF isMetadataComment
<1> QED
  BY <1>5, <1>6, OwnIs

LEMMA BelongsWhen ==
  ASSUME NEW N, Tree(N), NEW A, \A s \in A : s \in 1..N /\ markup[s].kind = "start",
         NEW b \in 1..N, NEW e \in 1..N, Delimit(b, e), NEW x \in OwnIn(A, markup[b].parent)
  PROVE  BelongsTo(x, b) <=> b < x /\ x <= e
<1>1. A \subseteq 1..N
  OBVIOUS
<1>2. /\ b < e /\ markup[e].parent = markup[b].parent /\ IsMarker(e)
      /\ \A j \in 1..N : markup[j].parent = markup[b].parent /\ b < j /\ j < e => ~IsMarker(j)
  BY DelimitIs
<1>3. x \in 1..N /\ OwnerIn(A, x) = markup[b].parent
  BY OwnIs
<1>4. ASSUME BelongsTo(x, b)
      PROVE  b < x /\ x <= e
  <2>1. b < x /\ \E k \in 1..N : Delimit(b, k) /\ x <= k
    BY <1>3, <1>4, BelongsIs
  <2>2. PICK k \in 1..N : Delimit(b, k) /\ x <= k
    BY <2>1
  <2>3. /\ b < k /\ markup[k].parent = markup[b].parent /\ IsMarker(k)
        /\ \A j \in 1..N : markup[j].parent = markup[b].parent /\ b < j /\ j < k => ~IsMarker(j)
    BY <2>2, DelimitIs
  <2>4. ~(e < k) /\ ~(k < e)
    BY <1>2, <2>3
  <2>5. k = e
    BY <2>4 DEF Tree
  <2> QED
    BY <2>1, <2>2, <2>5
<1>5. ASSUME b < x, x <= e
      PROVE  BelongsTo(x, b)
  <2>1. OwnedBy(A, x, OwnerIn(A, x))
    BY <1>1, <1>3, OwnerEither
  <2>2. markup[b].parent \notin A
    <3>1. SUFFICES ASSUME markup[b].parent \in A PROVE FALSE
      BY <3>1
    <3>2. IsMarker(markup[b].parent) /\ markup[b].parent \in 1..N
      BY <3>1 DEF IsMarker
    <3> QED
      BY <3>2 DEF Tree
  <2>3. markup[x].parent = markup[b].parent
    BY <1>3, <2>1, <2>2 DEF OwnedBy
  <2> QED
    BY <1>5, <2>3 DEF BelongsTo, Tree
<1> QED
  BY <1>4, <1>5

(* Where the part is that moves.                                           *)
Stretch(s, a, z, b) ==
  /\ a \in Nat /\ z \in Nat /\ a <= z /\ z <= Len(s)
  /\ \A k \in DOMAIN s : a < k /\ k <= z <=> BelongsTo(s[k], b)

LEMMA NothingMoves ==
  ASSUME NEW N, Tree(N), NEW b \in 1..N, \A k \in 1..N : ~Delimit(b, k),
         NEW s \in Seq(1..N), b \in Members(s), NEW a, a = Place(s, b)
  PROVE  Stretch(s, a, a, b)
<1>1. PICK n \in Nat : n = Len(s)
  OBVIOUS
<1>2. DOMAIN s = 1..n
  BY <1>1
<1>3. a \in DOMAIN s
  BY PlaceIs
<1>4. a \in Nat /\ a <= n
  BY <1>2, <1>3
<1>5. \A k \in DOMAIN s : ~(a < k /\ k <= a)
  BY <1>2, <1>4
<1>6. \A x : ~BelongsTo(x, b)
  BY DEF BelongsTo, Tree
<1> QED
  BY <1>1, <1>4, <1>5, <1>6 DEF Stretch

LEMMA UpToEnd ==
  ASSUME NEW N, Tree(N), NEW A, \A t \in A : t \in 1..N /\ markup[t].kind = "start",
         NEW b \in 1..N, b \notin A, NEW e \in 1..N, Delimit(b, e),
         NEW s \in Seq(1..N), Increasing(s), Members(s) = OwnIn(A, markup[b].parent),
         NEW a, a = Place(s, b), NEW z, z = Place(s, e)
  PROVE  Stretch(s, a, z, b)
<1>1. N \in Nat
  BY DEF Tree
<1>2. b < e /\ markup[b].kind = "start"
  BY DelimitIs
<1>3. b \in Members(s)
  BY <1>2, StartIsOwn
<1>4. e \in Members(s)
  BY EndIsOwn
<1>5. /\ a \in Nat /\ z \in Nat /\ a <= z /\ z <= Len(s)
      /\ \A k \in DOMAIN s : a < k /\ k <= z <=> b < s[k] /\ s[k] <= e
  BY <1>1, <1>2, <1>3, <1>4, BetweenPlaces
<1>6. ASSUME NEW k \in DOMAIN s
      PROVE  BelongsTo(s[k], b) <=> b < s[k] /\ s[k] <= e
  <2>1. s[k] \in OwnIn(A, markup[b].parent)
    BY DEF Members
  <2> QED
    BY <2>1, BelongsWhen
<1> QED
  BY <1>5, <1>6 DEF Stretch

LEMMA SplitIs ==
  ASSUME NEW N \in Nat, NEW A, NEW b, NEW p, NEW s \in Seq(1..N), Increasing(s),
         Members(s) = OwnIn(A, p), NEW a, NEW z, Stretch(s, a, z, b)
  PROVE  Splits(N, SubSeq(s, a + 1, z), SubSeq(s, 1, a) \o SubSeq(s, z + 1, Len(s)), A, p, b)
<1>1. PICK m, r : m = SubSeq(s, a + 1, z) /\ r = SubSeq(s, 1, a) \o SubSeq(s, z + 1, Len(s))
  OBVIOUS
<1>5. \A x : x \in Members(s) <=> \E k \in DOMAIN s : x = s[k]
  BY DEF Members
<1>6. /\ a \in Nat /\ z \in Nat /\ a <= z /\ z <= Len(s)
      /\ \A k \in DOMAIN s : a < k /\ k <= z <=> BelongsTo(s[k], b)
  BY DEF Stretch
<1>7. /\ m \in Seq(1..N) /\ Increasing(m) /\ r \in Seq(1..N) /\ Increasing(r)
      /\ \A x : x \in Members(m) <=> \E k \in DOMAIN s : x = s[k] /\ a < k /\ k <= z
      /\ \A x : x \in Members(r) <=> \E k \in DOMAIN s : x = s[k] /\ (k <= a \/ z < k)
  <2>1. Parted(N, s, a, z, m, r)
    BY <1>1, <1>6, CutIs
  <2> QED
    BY <2>1 DEF Parted
<1>8. \A k \in DOMAIN s : (k <= a \/ z < k) <=> ~BelongsTo(s[k], b)
  <2> TAKE k \in DOMAIN s
  <2>1. k \in Nat /\ a \in Nat /\ z \in Nat
    BY <1>6
  <2>2. (k <= a \/ z < k) <=> ~(a < k /\ k <= z)
    BY <2>1
  <2> QED
    BY <1>6, <2>2
<1>9. \A x : x \in Members(m) <=> x \in OwnIn(A, p) /\ BelongsTo(x, b)
  <2> TAKE x
  <2>1. x \in Members(m) <=> \E k \in DOMAIN s : x = s[k] /\ BelongsTo(s[k], b)
    BY <1>6, <1>7
  <2>2. x \in OwnIn(A, p) <=> \E k \in DOMAIN s : x = s[k]
    BY <1>5
  <2> QED
    BY <2>1, <2>2
<1>10. \A x : x \in Members(r) <=> x \in OwnIn(A, p) /\ ~BelongsTo(x, b)
  <2> TAKE x
  <2>1. x \in Members(r) <=> \E k \in DOMAIN s : x = s[k] /\ ~BelongsTo(s[k], b)
    BY <1>7, <1>8
  <2>2. x \in OwnIn(A, p) <=> \E k \in DOMAIN s : x = s[k]
    BY <1>5
  <2> QED
    BY <2>1, <2>2
<1> QED
  BY <1>1, <1>7, <1>9, <1>10 DEF Splits

LEMMA RootKeeps ==
  ASSUME NEW N, Tree(N), NoId \notin PrerenderIds, IsDocument(markup),
         Shape(N, logical, logicalParent, attachedRoots), NEW d, d \in Descriptors(N),
         markup[d.start].kind = "start", d.start \notin attachedRoots, EndRight(d),
         toLogicalRootCommentElement(d)
  PROVE  Shape(N, logical', logicalParent', attachedRoots')
<1>1. PICK A, b, p, e : /\ A = attachedRoots /\ b = d.start /\ p = markup[b].parent /\ e = d.end
  OBVIOUS
<1>2. PICK C, Q : C = toLogicalElement(p).children /\ Q = toLogicalElement(p).parent
  OBVIOUS
<1>3. PICK s, a : s = C[p] /\ a = Place(s, b)
  OBVIOUS
<1>4. PICK z : z = IF e = N + 1 THEN a ELSE Place(s, e)
  OBVIOUS
<1>5. PICK m, r : m = SubSeq(s, a + 1, z) /\ r = SubSeq(s, 1, a) \o SubSeq(s, z + 1, Len(s))
  OBVIOUS
<1>6. NoNode = N + 1 /\ N \in Nat /\ DOMAIN markup = 1..N
  BY DEF Tree
<1>7. b \in 1..N /\ e \in 1..(N + 1) /\ markup[b].kind = "start" /\ b \notin A
  BY <1>1 DEF Descriptors
<1>8. /\ attachedRoots' = A \cup {b}
      /\ logical' = [C EXCEPT ![p] = r, ![b] = @ \o m]
      /\ logicalParent' = [q \in DOMAIN Q |-> IF Contains(m, q) THEN b ELSE Q[q]]
  BY <1>1, <1>2, <1>3, <1>4, <1>5, <1>6 DEF toLogicalRootCommentElement, LastMoved
<1>9. p \in 0..N
  <2>1. p \in Nat /\ p < b
    BY <1>1, <1>7 DEF Tree
  <2> QED
    BY <1>6, <1>7, <2>1
<1>10. Shape(N, C, Q, A) /\ p \in DOMAIN C
  BY <1>1, <1>2, <1>9, ElementKeeps
<1>11. \A t \in A : t \in 1..N /\ markup[t].kind = "start"
  BY <1>10 DEF Shape, RootsIn
<1>12. s \in Seq(1..N) /\ Increasing(s) /\ Members(s) = OwnIn(A, p)
  <2>1. Holds(N, C[p], OwnIn(A, p), p, Q)
    BY <1>10 DEF Shape
  <2> QED
    BY <1>3, <2>1 DEF Holds
<1>13. e # N + 1 => Delimit(b, e)
  BY <1>1, <1>6 DEF EndRight
<1>14. e = N + 1 => \A k \in 1..N : ~Delimit(b, k)
  <2> SUFFICES ASSUME e = N + 1, NEW k \in 1..N, Delimit(b, k) PROVE FALSE
    OBVIOUS
  <2>1. markup[b].id = NoId
    BY <1>1, <1>6 DEF EndRight
  <2>2. markup[k].kind = "end" /\ markup[b].id = markup[k].id
    BY <1>7, DelimitIs
  <2>3. markup[k] \in PageNodes
    BY <1>6 DEF IsDocument
  <2>4. markup[k].id \in PrerenderIds
    BY <2>2, <2>3 DEF PageNodes
  <2> QED
    BY <2>1, <2>2, <2>4
<1>15. Stretch(s, a, z, b)
  <2>1. CASE e = N + 1
    <3>1. b \in Members(s)
      BY <1>1, <1>7, <1>11, <1>12, StartIsOwn
    <3>2. Stretch(s, a, a, b)
      BY <1>3, <1>7, <1>12, <1>14, <2>1, <3>1, NothingMoves
    <3> QED
      BY <1>4, <2>1, <3>2
  <2>2. CASE e # N + 1
    <3>1. e \in 1..N /\ Delimit(b, e) /\ z = Place(s, e)
      BY <1>4, <1>6, <1>7, <1>13, <2>2
    <3>2. Members(s) = OwnIn(A, markup[b].parent)
      BY <1>1, <1>12
    <3> QED
      BY <1>3, <1>7, <1>11, <1>12, <3>1, <3>2, UpToEnd
  <2> QED
    BY <2>1, <2>2
<1>16. Splits(N, m, r, A, p, b)
  BY <1>5, <1>6, <1>12, <1>15, SplitIs
<1>17. PICK D, R : D = Moved(C, p, b, m, r) /\ R = Reparented(Q, b, m)
  OBVIOUS
<1>18. Shape(N, D, R, A \cup {b})
  BY <1>1, <1>7, <1>10, <1>16, <1>17, RootTakes
<1> QED
  BY <1>8, <1>17, <1>18 DEF Moved, Reparented
-----------------------------------------------------------------------------
(* A step that leaves the document alone leaves what is said of it.        *)
LEMMA SamePaths ==
  ASSUME markup' = markup
  PROVE  /\ \A i : (IsMarker(i))' <=> IsMarker(i)
         /\ \A i : (isMetadataComment(i))' <=> isMetadataComment(i)
         /\ \A p : (childNodes(p))' = childNodes(p)
         /\ \A i, k : (Delimit(i, k))' <=> Delimit(i, k)
<1>1. \A i : (IsMarker(i))' <=> IsMarker(i)
  BY DEF IsMarker
<1>2. \A i : (isMetadataComment(i))' <=> isMetadataComment(i)
  BY DEF isMetadataComment
<1>3. \A p : (childNodes(p))' = childNodes(p)
  BY DEF childNodes
<1>4. \A i, k : (Delimit(i, k))' <=> Delimit(i, k)
  BY <1>1, <1>3 DEF Delimit
<1> QED
  BY <1>1, <1>2, <1>3, <1>4

LEMMA SameMarkers ==
  ASSUME markup' = markup
  PROVE  /\ Markers' = Markers /\ Declared' = Declared
         /\ \A i : (GoodMarker(i))' <=> GoodMarker(i)
         /\ \A d : (EndRight(d))' <=> EndRight(d)
<1>1. /\ \A i : (IsMarker(i))' <=> IsMarker(i)
      /\ \A p : (childNodes(p))' = childNodes(p)
      /\ \A i, k : (Delimit(i, k))' <=> Delimit(i, k)
  BY SamePaths
<1>2. \A j : (Enclosed(j))' <=> Enclosed(j)
  BY <1>1 DEF Enclosed
<1>3. \A j, i : (Within(j, i))' <=> Within(j, i)
  BY DEF Within
<1>4. \A j : (InTheOpen(j))' <=> InTheOpen(j)
  BY <1>2, <1>3 DEF InTheOpen
<1>5. Markers' = Markers
  BY <1>1, <1>4 DEF Markers
<1>6. Declared' = Declared
  BY <1>5 DEF Declared
<1>7. \A i : (IsPaired(i))' <=> IsPaired(i)
  BY <1>1 DEF IsPaired
<1>8. \A i : (GoodMarker(i))' <=> GoodMarker(i)
  BY <1>7 DEF GoodMarker
<1>9. \A d : (EndRight(d))' <=> EndRight(d)
  BY <1>1 DEF EndRight, NoNode
<1> QED
  BY <1>5, <1>6, <1>8, <1>9

LEMMA SameLists ==
  ASSUME markup' = markup, NEW c, NEW N, NEW nodes
  PROVE  (Describes(c, N, nodes))' <=> Describes(c, N, nodes)
  BY SameMarkers DEF Describes

LEMMA SameShape ==
  ASSUME markup' = markup, NEW N, NEW L, NEW P, NEW A
  PROVE  (Shape(N, L, P, A))' <=> Shape(N, L, P, A)
<1>1. /\ \A p : (childNodes(p))' = childNodes(p)
      /\ \A i : (isMetadataComment(i))' <=> isMetadataComment(i)
      /\ \A i, k : (Delimit(i, k))' <=> Delimit(i, k)
  BY SamePaths
<1>2. \A q, s : (BelongsTo(q, s))' <=> BelongsTo(q, s)
  BY <1>1 DEF BelongsTo
<1>3. \A q : (OwnersIn(A, q))' = OwnersIn(A, q)
  BY <1>2 DEF OwnersIn
<1>4. \A q : (OwnerIn(A, q))' = OwnerIn(A, q)
  <2> TAKE q
  <2>1. PICK S : S = OwnersIn(A, q)
    OBVIOUS
  <2>2. S = (OwnersIn(A, q))'
    BY <1>3, <2>1
  <2>3. OwnerIn(A, q) = IF S = {} THEN markup[q].parent ELSE CHOOSE s \in S : TRUE
    BY <2>1 DEF OwnerIn
  <2>4. (OwnerIn(A, q))' = IF S = {} THEN markup[q].parent ELSE CHOOSE s \in S : TRUE
    BY <2>2 DEF OwnerIn
  <2> QED
    BY <2>3, <2>4
<1>5. \A p : (OwnIn(A, p))' = OwnIn(A, p)
  BY <1>1, <1>4 DEF OwnIn
<1>6. \A p : (LogicalChildNodes(p))' = LogicalChildNodes(p)
  BY <1>1 DEF LogicalChildNodes
<1>7. (RootsIn(N, L, A))' <=> RootsIn(N, L, A)
  BY DEF RootsIn
<1> QED
  BY <1>5, <1>6, <1>7 DEF Shape
-----------------------------------------------------------------------------
(* The inductive invariant: what was discovered is what the markup         *)
(* declares, and every logical element has its own nodes as children.      *)
DiscoveryInv ==
  /\ IsDocument(markup)
  /\ startup \in {"loading", "started", "failed"}
  /\ markup = <<>> => startup = "loading"
  /\ startup = "loading" => initialComponents = <<>> /\ DOMAIN logical = {} /\ attachedRoots = {}
  /\ startup = "failed" => \E i \in Markers : ~GoodMarker(i)
  /\ startup = "started" => /\ \A i \in Markers : GoodMarker(i)
                            /\ Describes(initialComponents, Len(markup), 1..Len(markup))
  /\ Shape(Len(markup), logical, logicalParent, attachedRoots)

LEMMA DiscoveryStarts == DiscoveryInit => DiscoveryInv
<1> SUFFICES ASSUME DiscoveryInit PROVE DiscoveryInv
  OBVIOUS
<1>1. /\ markup = <<>> /\ initialComponents = <<>> /\ startup = "loading"
      /\ DOMAIN logical = {} /\ attachedRoots = {}
  BY DEF DiscoveryInit
<1>2. IsDocument(markup)
  <2>1. markup \in Seq(PageNodes) /\ DOMAIN markup = {}
    BY <1>1
  <2> QED
    BY <2>1 DEF IsDocument
<1>3. Shape(Len(markup), logical, logicalParent, attachedRoots)
  BY <1>1 DEF Shape, RootsIn
<1> QED
  BY <1>1, <1>2, <1>3 DEF DiscoveryInv

LEMMA LoadKeeps ==
  ASSUME DiscoveryInv, LoadPage
  PROVE  DiscoveryInv'
<1>1. /\ markup = <<>> /\ markup' \in Markups
      /\ UNCHANGED <<initialComponents, startup, logical, logicalParent, attachedRoots>>
  BY DEF LoadPage
<1>2. startup = "loading" /\ initialComponents = <<>> /\ DOMAIN logical = {} /\ attachedRoots = {}
  BY <1>1 DEF DiscoveryInv
<1>3. PICK document \in Markups : markup' = document
  BY <1>1
<1>4. (IsDocument(markup))'
  BY <1>3, DiscoveryAssumption DEF IsDocument
<1>5. (Shape(Len(markup), logical, logicalParent, attachedRoots))'
  BY <1>1, <1>2 DEF Shape, RootsIn
<1> QED
  BY <1>1, <1>2, <1>4, <1>5 DEF DiscoveryInv

LEMMA DiscoverKeeps ==
  ASSUME DiscoveryInv, discoverComponents
  PROVE  DiscoveryInv'
<1>1. /\ markup # <<>> /\ startup = "loading" /\ markup' = markup
      /\ logical' = logical /\ logicalParent' = logicalParent /\ attachedRoots' = attachedRoots
  BY DEF discoverComponents
<1>2. PICK found : found = resolveComponentComments
  OBVIOUS
<1>3. /\ initialComponents' = found.components
      /\ startup' = IF found.thrown THEN "failed" ELSE "started"
  BY <1>2 DEF discoverComponents
<1>4. IsDocument(markup) /\ NoId \notin PrerenderIds
  BY DiscoveryAssumption DEF DiscoveryInv
<1>5. PICK N \in Nat : Tree(N)
  BY <1>4, TreeOf
<1>6. N = Len(markup) /\ DOMAIN markup = 1..N
  BY <1>5 DEF Tree
<1>7. Scanned(found, N, 1..N)
  BY <1>2, <1>4, <1>5, DiscoveryIs
<1>8. Markers \subseteq 1..N
  BY <1>6 DEF Markers
<1>9. /\ found.thrown \in BOOLEAN
      /\ found.thrown => \E j \in Markers : ~GoodMarker(j)
      /\ ~found.thrown => Describes(found.components, N, 1..N) /\ \A j \in Markers : GoodMarker(j)
  BY <1>7, <1>8 DEF Scanned
<1>10. Markers' = Markers /\ \A i : (GoodMarker(i))' <=> GoodMarker(i)
  BY <1>1, SameMarkers
<1>11. (IsDocument(markup))'
  BY <1>1, <1>4 DEF IsDocument
<1>12. (Shape(Len(markup), logical, logicalParent, attachedRoots))'
  <2>1. DOMAIN logical = {} /\ attachedRoots = {}
    BY <1>1 DEF DiscoveryInv
  <2> QED
    BY <1>1, <2>1 DEF Shape, RootsIn
<1>13. CASE found.thrown
  <2>1. startup' = "failed"
    BY <1>3, <1>13
  <2>2. (\E i \in Markers : ~GoodMarker(i))'
    BY <1>9, <1>10, <1>13
  <2> QED
    BY <1>1, <1>11, <1>12, <2>1, <2>2 DEF DiscoveryInv
<1>14. CASE ~found.thrown
  <2>1. startup' = "started"
    BY <1>3, <1>14
  <2>2. (\A i \in Markers : GoodMarker(i))'
    BY <1>9, <1>10, <1>14
  <2>3. PICK c : c = found.components
    OBVIOUS
  <2>4. Describes(c, N, 1..N)
    BY <1>9, <1>14, <2>3
  <2>5. (Describes(c, N, 1..N))'
    BY <1>1, <2>4, SameLists
  <2>6. initialComponents' = c /\ Len(markup') = N
    BY <1>1, <1>3, <1>6, <2>3
  <2>7. (Describes(initialComponents, Len(markup), 1..Len(markup)))'
    BY <2>5, <2>6 DEF Describes
  <2> QED
    BY <1>1, <1>11, <1>12, <2>1, <2>2, <2>7 DEF DiscoveryInv
<1> QED
  BY <1>9, <1>13, <1>14

LEMMA ResolveKeeps ==
  ASSUME DiscoveryInv, NEW id \in DOMAIN initialComponents, resolveRegisteredElement(id)
  PROVE  DiscoveryInv'
<1>1. PICK d : d = initialComponents[id]
  OBVIOUS
<1>2. /\ startup = "started" /\ d.start \notin attachedRoots /\ toLogicalRootCommentElement(d)
      /\ markup' = markup /\ initialComponents' = initialComponents /\ startup' = startup
  BY <1>1 DEF resolveRegisteredElement
<1>3. IsDocument(markup) /\ NoId \notin PrerenderIds /\ markup # <<>>
  BY <1>2, DiscoveryAssumption DEF DiscoveryInv
<1>4. PICK N \in Nat : Tree(N)
  BY <1>3, TreeOf
<1>5. N = Len(markup) /\ DOMAIN markup = 1..N
  BY <1>4 DEF Tree
<1>6. /\ Shape(N, logical, logicalParent, attachedRoots)
      /\ Describes(initialComponents, N, 1..N) /\ \A i \in Markers : GoodMarker(i)
  BY <1>2, <1>5 DEF DiscoveryInv
<1>7. d \in Descriptors(N) /\ d.start \in Declared /\ EndRight(d)
  <2>1. PICK c : c = initialComponents
    OBVIOUS
  <2>2. /\ c \in Seq(Descriptors(N)) /\ \A k \in DOMAIN c : c[k].start \in Declared /\ EndRight(c[k])
    BY <1>6, <2>1 DEF Describes
  <2>3. id \in DOMAIN c /\ d = c[id]
    BY <1>1, <2>1
  <2> QED
    BY <2>2, <2>3
<1>8. markup[d.start].kind = "start"
  BY <1>7 DEF Declared
<1>9. Shape(N, logical', logicalParent', attachedRoots')
  BY <1>2, <1>3, <1>4, <1>6, <1>7, <1>8, RootKeeps
<1>10. (Shape(Len(markup), logical, logicalParent, attachedRoots))'
  <2>1. PICK L, P, A : L = logical' /\ P = logicalParent' /\ A = attachedRoots'
    OBVIOUS
  <2>2. (Shape(N, L, P, A))'
    BY <1>2, <1>9, <2>1, SameShape
  <2>3. Len(markup') = N
    BY <1>2, <1>5
  <2> QED
    BY <2>1, <2>2, <2>3
<1>11. (IsDocument(markup))'
  BY <1>2, <1>3 DEF IsDocument
<1>12. (Describes(initialComponents, Len(markup), 1..Len(markup)))'
  <2>1. PICK c : c = initialComponents
    OBVIOUS
  <2>2. (Describes(c, N, 1..N))'
    BY <1>2, <1>6, <2>1, SameLists
  <2>3. initialComponents' = c /\ Len(markup') = N
    BY <1>2, <1>5, <2>1
  <2> QED
    BY <2>2, <2>3 DEF Describes
<1>13. (\A i \in Markers : GoodMarker(i))'
  BY <1>2, <1>6, SameMarkers
<1> QED
  BY <1>2, <1>3, <1>10, <1>11, <1>12, <1>13 DEF DiscoveryInv

LEMMA DiscoverySteps == DiscoveryInv /\ [DiscoveryNext]_discoveryVars => DiscoveryInv'
<1> SUFFICES ASSUME DiscoveryInv, [DiscoveryNext]_discoveryVars PROVE DiscoveryInv'
  OBVIOUS
<1>1. CASE LoadPage
  BY <1>1, LoadKeeps
<1>2. CASE discoverComponents
  BY <1>2, DiscoverKeeps
<1>3. CASE \E id \in DOMAIN initialComponents : resolveRegisteredElement(id)
  BY <1>3, ResolveKeeps
<1>4. CASE UNCHANGED discoveryVars
  <2>1. /\ markup' = markup /\ initialComponents' = initialComponents /\ startup' = startup
        /\ logical' = logical /\ logicalParent' = logicalParent /\ attachedRoots' = attachedRoots
    BY <1>4 DEF discoveryVars
  <2>2. PICK c, N, L, P, A : /\ c = initialComponents /\ N = Len(markup) /\ L = logical
                             /\ P = logicalParent /\ A = attachedRoots
    OBVIOUS
  <2>3. (Describes(c, N, 1..N))' <=> Describes(c, N, 1..N)
    BY <2>1, SameLists
  <2>4. (Shape(N, L, P, A))' <=> Shape(N, L, P, A)
    BY <2>1, SameShape
  <2>5. (Describes(initialComponents, Len(markup), 1..Len(markup)))' <=> Describes(c, N, 1..N)
    <3>1. initialComponents' = c /\ Len(markup') = N
      BY <2>1, <2>2
    <3> QED
      BY <2>3, <3>1 DEF Describes
  <2>6. (Shape(Len(markup), logical, logicalParent, attachedRoots))' <=> Shape(N, L, P, A)
    BY <2>1, <2>2, <2>4
  <2>7. Markers' = Markers /\ \A i : (GoodMarker(i))' <=> GoodMarker(i)
    BY <2>1, SameMarkers
  <2>8. (IsDocument(markup))' <=> IsDocument(markup)
    BY <2>1 DEF IsDocument
  <2> QED
    BY <2>1, <2>2, <2>5, <2>6, <2>7, <2>8 DEF DiscoveryInv
<1> QED
  BY <1>1, <1>2, <1>3, <1>4 DEF DiscoveryNext

(* The invariant is that of the specification.                             *)
LEMMA DiscoveryInvariant == DiscoverySpec => []DiscoveryInv
<1> QED
  BY DiscoveryStarts, DiscoverySteps, PTL DEF DiscoverySpec

LEMMA InvMatches == DiscoveryInv => DiscoveryMatchesMarkup
<1> SUFFICES ASSUME DiscoveryInv PROVE DiscoveryMatchesMarkup
  OBVIOUS
<1>1. startup = "failed" => \E i \in Markers : ~GoodMarker(i)
  BY DEF DiscoveryInv
<1>2. PICK c, N : c = initialComponents /\ N = Len(markup)
  OBVIOUS
<1>3. ASSUME startup = "started"
      PROVE  /\ \A i \in Markers : GoodMarker(i)
             /\ {c[k].start : k \in DOMAIN c} = Declared
             /\ \A k \in DOMAIN c : EndRight(c[k]) /\ \A j \in 1 .. k - 1 : c[j].start < c[k].start
  <2>1. N \in Nat /\ DOMAIN markup = 1..N
    BY <1>2 DEF DiscoveryInv, IsDocument
  <2>2. Describes(c, N, 1..N) /\ \A i \in Markers : GoodMarker(i)
    BY <1>2, <1>3 DEF DiscoveryInv
  <2>3. Declared \subseteq 1..N
    BY <2>1 DEF Declared, Markers
  <2>4. /\ c \in Seq(Descriptors(N))
        /\ \A k \in DOMAIN c : c[k].start \in Declared /\ EndRight(c[k])
        /\ \A j \in Declared : \E k \in DOMAIN c : c[k].start = j
    BY <2>2, <2>3 DEF Describes
  <2>5. \A k, l \in DOMAIN c : k < l => c[k].start < c[l].start
    BY <2>2 DEF Describes, Ascending
  <2>6. {c[k].start : k \in DOMAIN c} = Declared
    BY <2>4
  <2>7. ASSUME NEW k \in DOMAIN c, NEW j \in 1 .. k - 1
        PROVE  c[j].start < c[k].start
    <3>1. PICK n \in Nat : DOMAIN c = 1..n
      BY <2>4
    <3>2. j \in DOMAIN c /\ j < k
      BY <3>1
    <3> QED
      BY <2>5, <3>2
  <2> QED
    BY <2>2, <2>4, <2>6, <2>7
<1> QED
  BY <1>1, <1>2, <1>3 DEF DiscoveryMatchesMarkup, EndRight

(* The components .NET is told of (discoverComponents) are those that the  *)
(* markup declares, each with its end, in the order of the page, and a     *)
(* page with a marker out of place is refused as a whole: for any          *)
(* documents, of any size and depth.                                       *)
THEOREM DiscoveryIsRight == DiscoverySpec => []DiscoveryMatchesMarkup
<1> QED
  BY DiscoveryInvariant, InvMatches, PTL

LEMMA InvOwns == DiscoveryInv => RootsOwnTheirContent
<1> SUFFICES ASSUME DiscoveryInv PROVE RootsOwnTheirContent
  OBVIOUS
<1>1. PICK N, A : N = Len(markup) /\ A = attachedRoots
  OBVIOUS
<1>2. Shape(N, logical, logicalParent, A)
  BY <1>1 DEF DiscoveryInv
<1>3. \A q : Owner(q) = OwnerIn(A, q)
  BY <1>1 DEF Owner, OwnerIn, OwnersIn
<1>4. \A p : Own(p) = OwnIn(A, p)
  BY <1>3 DEF Own, OwnIn
<1>5. attachedRoots \subseteq DOMAIN logical
  BY <1>1, <1>2 DEF Shape, RootsIn
<1>6. ASSUME NEW p \in DOMAIN logical
      PROVE  /\ ToSet(logical[p]) = Own(p)
             /\ \A k, l \in DOMAIN logical[p] : k < l => logical[p][k] < logical[p][l]
             /\ \A q \in Own(p) : logicalParent[q] = p
  <2>1. Holds(N, logical[p], OwnIn(A, p), p, logicalParent)
    BY <1>2 DEF Shape
  <2>2. ToSet(logical[p]) = Members(logical[p])
    BY DEF ToSet, Members
  <2> QED
    BY <1>4, <2>1, <2>2 DEF Holds, Increasing
<1> QED
  BY <1>5, <1>6 DEF RootsOwnTheirContent

(* In whatever order the roots of a page are attached                      *)
(* (resolveRegisteredElement, toLogicalRootCommentElement), each owns      *)
(* exactly its prerendered content, with its end comment, and every other  *)
(* node stays where it was, in the order of the page: for any documents.   *)
THEOREM RootsOwnContent == DiscoverySpec => []RootsOwnTheirContent
<1> QED
  BY DiscoveryInvariant, InvOwns, PTL
=============================================================================
