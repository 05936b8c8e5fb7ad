------------------------- MODULE SortedColumnProofs --------------------------
(***************************************************************************)
(* Theorems about a sorted column, for any number of rows and of bytes:    *)
(* the lookup in the index of values and the binary search find what they  *)
(* look for on every layout of pages, a range whose bounds are values of   *)
(* the column selects what its predicate says, and a scan throws for an    *)
(* equality without a successor only.                                      *)
(***************************************************************************)
EXTENDS SortedColumn, WellFoundedInduction, TLAPS

----------------------------------------------------------------------------
(* The inductive invariant *)

Typed ==
  /\ column \in [Rows -> Values] /\ Ascending
  /\ ends \subseteq Rows /\ N \in ends /\ primary \subseteq ends
  /\ lastSecondaryValue \in Values \cup {NoValue}
  /\ triple \in Triples /\ complete \in BOOLEAN /\ matched \subseteq 0 .. N + 1
  /\ state \in {"build", "ready", "answered", "spent", "thrown"}
  /\ asked \in [pred : Preds, rhs : Values]

\* The pages are written from the first one to the last one.
WrittenInOrder ==
  /\ \A e \in primary, f \in ends : f < e => f \in primary
  /\ state # "build" => N \in primary

\* The index of values has an entry for each value that ends a page, of the first of
\* these pages; and the value it was extended by last is that of the last page.
Indexed ==
  /\ \A v \in DOMAIN secondary : secondary[v] \in primary /\ column[secondary[v]] = v
  /\ \A e \in primary : column[e] \in DOMAIN secondary /\ secondary[column[e]] <= e
LastEntered ==
  /\ primary = {} => DOMAIN secondary = {} /\ lastSecondaryValue = NoValue
  /\ primary # {} => \E e \in primary : column[e] = lastSecondaryValue
                                        /\ \A f \in primary : f <= e

IInv ==
  /\ Typed /\ WrittenInOrder /\ Indexed /\ LastEntered
  /\ BoundsExact /\ ThrowsWithoutSuccessor

----------------------------------------------------------------------------
(* Numbers *)

LEMMA LeastExists ==
  ASSUME NEW S \in SUBSET Nat, S # {}
  PROVE  \E m \in S : \A x \in S : m <= x
<1>1. PICK m \in S : \A x \in S : ~ (<<x, m>> \in OpToRel(<, Nat))
  BY NatLessThanWellFounded, WFMin
<1>2. \A x \in S : x \in Nat /\ m \in Nat
  OBVIOUS
<1>3. \A x \in S : ~ (x < m)
  BY <1>1, <1>2 DEF OpToRel
<1> QED BY <1>2, <1>3

LEMMA GreatestExists ==
  ASSUME NEW k \in Nat, NEW S \in SUBSET (0 .. k), S # {}
  PROVE  \E m \in S : \A x \in S : x <= m
<1> DEFINE T == {k - x : x \in S}
<1>1. T \subseteq Nat
  <2>1. \A x \in S : x \in Int /\ 0 <= x /\ x <= k
    OBVIOUS
  <2>2. \A x \in S : k - x \in Nat
    BY <2>1
  <2> QED BY <2>2
<1> T # {}
  OBVIOUS
<1>2. PICK d \in T : \A y \in T : d <= y
  BY <1>1, LeastExists
<1>3. PICK m \in S : d = k - m
  BY <1>2
<1>4. \A x \in S : k - m <= k - x
  BY <1>2, <1>3
<1>5. \A x \in S : x \in Int
  OBVIOUS
<1> QED BY <1>3, <1>4, <1>5

LEMMA BaseIs == Base \in Nat /\ Base > 1 /\ NoValue \in Nat /\ Values \subseteq Nat /\ NoValue \notin Values
<1>1. Base \in Nat /\ Base > 1
  BY SortedAssumption DEF Base
<1>2. Base * Base \in Nat
  BY <1>1
<1> QED BY <1>1, <1>2 DEF NoValue, Values

\* A value is as large as its smallest larger one, or smaller.
LEMMA LargerIs ==
  ASSUME NEW v \in Nat
  PROVE  SmallestLarger(v) \in Nat /\ v <= SmallestLarger(v)
BY BaseIs DEF SmallestLarger

----------------------------------------------------------------------------
(* The binary search *)

\* A step of it: the middle of a range, and the half that is left.
Parts == (1 .. N + 1) \X (0 .. N)
Half(key, part) ==
  LET mid == (part[1] + part[2]) \div 2
  IN  IF key < column[mid] THEN <<part[1], mid - 1>> ELSE <<mid + 1, part[2]>>
Looked(f, key, part) ==
  LET mid == (part[1] + part[2]) \div 2
  IN  IF part[1] > part[2] THEN 0
      ELSE IF column[mid] = key THEN mid ELSE f[Half(key, part)]

\* The parts of up to k rows.
Small(k) == {part \in Parts : part[2] < part[1] + k}

LEMMA HalfIs ==
  ASSUME NEW k \in Nat, NEW part \in Small(k + 1), part[1] <= part[2], NEW key
  PROVE  LET mid == (part[1] + part[2]) \div 2
         IN  /\ mid \in part[1] .. part[2]
             /\ Half(key, part) \in Small(k)
             /\ Half(key, part) = <<part[1], mid - 1>> \/ Half(key, part) = <<mid + 1, part[2]>>
             /\ key < column[mid] => Half(key, part) = <<part[1], mid - 1>>
             /\ ~ key < column[mid] => Half(key, part) = <<mid + 1, part[2]>>
<1> DEFINE mid == (part[1] + part[2]) \div 2
<1>1. PICK a \in 1 .. N + 1, b \in 0 .. N : part = <<a, b>>
  BY DEF Small, Parts
<1>2. N \in Nat /\ a <= b /\ b <= a + k
  BY <1>1, SortedAssumption DEF Small
<1>3. mid \in a .. b
  BY <1>1, <1>2
<1> HIDE DEF mid
<1>4. <<a, mid - 1>> \in Small(k) /\ <<mid + 1, b>> \in Small(k)
  BY <1>2, <1>3 DEF Small, Parts
<1> QED BY <1>1, <1>3, <1>4 DEF Half, mid

\* A function that searches all parts is built from those that search the small ones.
LEMMA SearchBuilt ==
  ASSUME NEW key
  PROVE  \A k \in Nat : \E f : f = [part \in Small(k) |-> Looked(f, key, part)]
<1> DEFINE Fails == {k \in Nat : ~ \E f : f = [part \in Small(k) |-> Looked(f, key, part)]}
<1> SUFFICES ASSUME Fails # {} PROVE FALSE
  OBVIOUS
<1>1. PICK k \in Fails : \A j \in Fails : k <= j
  BY LeastExists
<1>2. k # 0
  <2>1. \A f : \A part \in Small(0) : Looked(f, key, part) = 0
    BY SortedAssumption DEF Small, Parts, Looked
  <2> DEFINE f == [part \in Small(0) |-> 0]
  <2>2. f = [part \in Small(0) |-> Looked(f, key, part)]
    BY <2>1
  <2> QED BY <1>1, <2>2
<1>3. PICK j \in Nat : k = j + 1
  <2>1. k \in Nat /\ k - 1 \in Nat /\ k = (k - 1) + 1
    BY <1>2
  <2> QED BY <2>1
<1>4. PICK f : f = [part \in Small(j) |-> Looked(f, key, part)]
  BY <1>1, <1>3
<1> DEFINE g == [part \in Small(k) |-> Looked(f, key, part)]
<1>5. Small(j) \subseteq Small(k)
  BY <1>3, SortedAssumption DEF Small, Parts
<1>6. \A part \in Small(j) : g[part] = f[part]
  BY <1>4, <1>5
<1>7. ASSUME NEW part \in Small(k) PROVE Looked(g, key, part) = Looked(f, key, part)
  <2>1. CASE part[1] > part[2]
    BY <2>1 DEF Looked
  <2>2. CASE ~ part[1] > part[2]
    <3>1. part[1] <= part[2]
      BY <2>2, SortedAssumption DEF Small, Parts
    <3>2. Half(key, part) \in Small(j)
      BY <1>3, <3>1, HalfIs
    <3> QED BY <1>6, <3>2 DEF Looked
  <2> QED BY <2>1, <2>2
<1>8. g = [part \in Small(k) |-> Looked(g, key, part)]
  BY <1>7
<1> HIDE DEF g
<1> QED BY <1>1, <1>8

LEMMA SearchStep ==
  ASSUME NEW key
  PROVE  \A part \in Parts : BiSearchIn(key)[part] = Looked(BiSearchIn(key), key, part)
<1>1. Small(N) = Parts
  BY SortedAssumption DEF Small, Parts
<1>2. \E g : g = [part \in Small(N) |-> Looked(g, key, part)]
  BY SearchBuilt, SortedAssumption
<1> DEFINE f == CHOOSE h : h = [part \in Parts |-> Looked(h, key, part)]
<1>3. f = [part \in Parts |-> Looked(f, key, part)]
  <2>1. \E g : g = [part \in Parts |-> Looked(g, key, part)]
    BY <1>1, <1>2, Zenon
  <2> QED BY <2>1, Zenon
<1>4. BiSearchIn(key) = f
  BY DEF BiSearchIn, Looked, Half, Parts
<1> HIDE DEF f
<1> QED BY <1>3, <1>4

\* What is found in a part of an ascending column: a row with the value that is
\* looked for, or 0 when there is none.
LEMMA SearchIs ==
  ASSUME Typed, NEW key \in Nat
  PROVE  \A part \in Parts :
           IF \E p \in part[1] .. part[2] : column[p] = key
             THEN /\ BiSearchIn(key)[part] \in part[1] .. part[2]
                  /\ column[BiSearchIn(key)[part]] = key
             ELSE BiSearchIn(key)[part] = 0
<1> DEFINE Right(part) ==
      IF \E p \in part[1] .. part[2] : column[p] = key
        THEN BiSearchIn(key)[part] \in part[1] .. part[2] /\ column[BiSearchIn(key)[part]] = key
        ELSE BiSearchIn(key)[part] = 0
           Wrong == {k \in Nat : \E part \in Small(k) : ~ Right(part)}
<1>1. Small(N) = Parts /\ N \in Nat
  BY SortedAssumption DEF Small, Parts
<1> SUFFICES ASSUME Wrong # {} PROVE FALSE
  BY <1>1
<1>2. PICK k \in Wrong : \A j \in Wrong : k <= j
  BY LeastExists
<1>3. PICK part \in Small(k) : ~ Right(part)
  BY <1>2
<1>4. PICK a \in 1 .. N + 1, b \in 0 .. N : part = <<a, b>>
  BY DEF Small, Parts
<1>5. part \in Parts /\ b < a + k
  BY <1>3, <1>4 DEF Small
<1>6. BiSearchIn(key)[part] = Looked(BiSearchIn(key), key, part)
  BY <1>5, SearchStep
<1>7. a <= b
  <2> SUFFICES ASSUME a > b PROVE FALSE
    BY <1>1, <1>4
  <2>1. BiSearchIn(key)[part] = 0
    BY <1>4, <1>6 DEF Looked
  <2> QED BY <1>1, <1>3, <1>4, <2>1
<1>8. PICK j \in Nat : k = j + 1
  <2>1. k \in Nat /\ k # 0
    BY <1>1, <1>5, <1>7
  <2>2. k - 1 \in Nat /\ k = (k - 1) + 1
    BY <2>1
  <2> QED BY <2>2
<1> DEFINE mid == (a + b) \div 2
           half == Half(key, part)
<1>9. /\ mid \in a .. b /\ half \in Small(j)
      /\ key < column[mid] => half = <<a, mid - 1>>
      /\ ~ key < column[mid] => half = <<mid + 1, b>>
  BY <1>3, <1>4, <1>7, <1>8, HalfIs
<1>10. BiSearchIn(key)[part] = IF column[mid] = key THEN mid ELSE BiSearchIn(key)[half]
  BY <1>1, <1>4, <1>6, <1>7 DEF Looked
<1>11. Right(half)
  BY <1>2, <1>8, <1>9
<1> HIDE DEF half, mid
<1>12. a .. b \subseteq Rows /\ \A p \in a .. b : column[p] \in Nat
  <2>1. a .. b \subseteq Rows
    BY <1>1 DEF Rows
  <2>2. \A p \in Rows : column[p] \in Values
    BY DEF Typed
  <2> QED BY <2>1, <2>2, BaseIs
<1>13. column[mid] # key
  BY <1>3, <1>4, <1>9, <1>10
<1>14. \A p \in a .. b : p < mid => column[p] <= column[mid]
  BY <1>9, <1>12 DEF Typed, Ascending
<1>15. \A p \in a .. b : mid < p => column[mid] <= column[p]
  BY <1>9, <1>12 DEF Typed, Ascending
<1>16. mid \in Int /\ a \in Int /\ b \in Int
  BY <1>1, <1>9
<1>17. CASE key < column[mid]
  <2>1. \A p \in a .. b : column[p] = key => p \in a .. mid - 1
    BY <1>9, <1>12, <1>15, <1>16, <1>17
  <2>2. \A p \in a .. mid - 1 : p \in a .. b
    BY <1>9, <1>16
  <2>3. half = <<a, mid - 1>>
    BY <1>9, <1>17
  <2> QED BY <1>3, <1>4, <1>10, <1>11, <1>13, <2>1, <2>2, <2>3
<1>18. CASE ~ key < column[mid]
  <2>1. \A p \in a .. b : column[p] = key => p \in mid + 1 .. b
    BY <1>9, <1>12, <1>13, <1>14, <1>16, <1>18
  <2>2. \A p \in mid + 1 .. b : p \in a .. b
    BY <1>9, <1>16
  <2>3. half = <<mid + 1, b>>
    BY <1>9, <1>18
  <2> QED BY <1>3, <1>4, <1>10, <1>11, <1>13, <2>1, <2>2, <2>3
<1> QED BY <1>17, <1>18

----------------------------------------------------------------------------
(* The index of values *)

\* All pages are written.
Built == Typed /\ WrittenInOrder /\ Indexed /\ N \in primary

LEMMA Numbers ==
  ASSUME Typed
  PROVE  /\ N \in Nat /\ N \in Rows /\ primary \subseteq Rows
         /\ \A p \in Rows : p \in Nat /\ 1 <= p /\ p <= N /\ column[p] \in Nat
         /\ \A p, q \in Rows : p <= q => column[p] <= column[q]
         /\ \A p, q \in Rows : column[p] < column[q] => p < q
<1>1. N \in Nat /\ N \in Rows /\ \A p \in Rows : p \in Nat /\ 1 <= p /\ p <= N
  BY SortedAssumption DEF Rows
<1>2. primary \subseteq Rows
  BY DEF Typed
<1>3. \A p \in Rows : column[p] \in Nat
  BY BaseIs DEF Typed
<1>4. \A p, q \in Rows : p <= q => column[p] <= column[q]
  BY <1>1, <1>3 DEF Typed, Ascending
<1> QED BY <1>1, <1>2, <1>3, <1>4

\* A lookup finds one page at most, the first one that ends with the key or above.
LEMMA LandedIs ==
  ASSUME Built, NEW key \in Nat
  PROVE  /\ Landed(key) = {} => AllBelow(key)
         /\ \A e \in Landed(key) :
              /\ Landed(key) = {e} /\ e \in primary /\ column[e] >= key
              /\ \A f \in primary : f < e => column[f] < key
<1> USE DEF Built
<1> DEFINE above == {w \in DOMAIN secondary : w >= key}
<1>1. \A v \in DOMAIN secondary : v \in Nat /\ secondary[v] \in primary /\ column[secondary[v]] = v
  BY Numbers DEF Indexed
<1>2. ASSUME Landed(key) = {} PROVE AllBelow(key)
  <2> SUFFICES ASSUME NEW p \in Rows, ~ column[p] < key PROVE FALSE
    BY DEF AllBelow
  <2>1. column[N] >= key /\ column[N] \in DOMAIN secondary
    BY Numbers DEF Indexed
  <2>2. above \subseteq Nat /\ above # {}
    BY <1>1, <2>1
  <2>3. PICK w \in above : \A u \in above : w <= u
    BY <2>2, LeastExists
  <2>4. secondary[w] \in Landed(key)
    BY <2>3 DEF Landed
  <2> QED BY <1>2, <2>4
<1>3. ASSUME NEW e \in Landed(key)
      PROVE  /\ Landed(key) = {e} /\ e \in primary /\ column[e] >= key
             /\ \A f \in primary : f < e => column[f] < key
  <2>1. PICK v \in DOMAIN secondary :
          e = secondary[v] /\ v >= key /\ \A u \in DOMAIN secondary : u >= key => v <= u
    BY DEF Landed
  <2>2. e \in primary /\ column[e] = v /\ v \in Nat
    BY <1>1, <2>1
  <2>3. ASSUME NEW f \in Landed(key) PROVE f = e
    <3>1. PICK w \in DOMAIN secondary :
            f = secondary[w] /\ w >= key /\ \A u \in DOMAIN secondary : u >= key => w <= u
      BY DEF Landed
    <3>2. w <= v /\ v <= w /\ w \in Nat
      BY <1>1, <2>1, <3>1
    <3>3. w = v
      BY <2>2, <3>2
    <3> QED BY <2>1, <3>1, <3>3
  <2>4. ASSUME NEW f \in primary, f < e, ~ column[f] < key PROVE FALSE
    <3>1. f \in Rows /\ e \in Rows /\ f \in Nat /\ e \in Nat /\ column[f] \in Nat
      BY <2>2, Numbers
    <3>2. column[f] \in DOMAIN secondary /\ secondary[column[f]] <= f
      BY DEF Indexed
    <3>3. v <= column[f]
      BY <2>1, <2>4, <3>1, <3>2
    <3>4. column[f] <= column[e]
      BY <2>4, <3>1, Numbers
    <3>5. column[f] = v
      BY <2>2, <3>1, <3>3, <3>4
    <3> QED BY <2>1, <2>4, <3>1, <3>2, <3>5
  <2>5. \A f \in primary : column[f] \in Nat
    BY Numbers
  <2> QED BY <2>1, <2>2, <2>3, <2>4, <2>5
<1> QED BY <1>2, <1>3

LEMMA FirstRow ==
  ASSUME Typed, NEW key \in Nat, ~ AllBelow(key)
  PROVE  \E p \in Rows : FirstFrom(p, key)
<1> DEFINE S == {p \in Rows : column[p] >= key}
<1>1. S \subseteq Nat /\ S # {}
  BY Numbers DEF AllBelow
<1>2. PICK p \in S : \A q \in S : p <= q
  BY <1>1, LeastExists
<1>3. p \in Rows /\ column[p] >= key
  OBVIOUS
<1>4. ASSUME NEW q \in Rows, q < p PROVE column[q] < key
  <2>1. ~ column[q] >= key
    BY <1>2, <1>3, <1>4, Numbers
  <2> QED BY <2>1, Numbers
<1> QED BY <1>3, <1>4 DEF FirstFrom

LEMMA BoundaryFound ==
  ASSUME Built, NEW key \in Nat, NEW e \in Landed(key)
  PROVE  \E p \in Rows : FirstFrom(p, key) /\ p <= e /\ \A f \in primary : f < e => f < p
<1> USE DEF Built
<1>1. e \in primary /\ column[e] >= key /\ \A f \in primary : f < e => column[f] < key
  BY LandedIs
<1>2. e \in Rows /\ column[e] \in Nat
  BY <1>1, Numbers
<1>3. PICK p \in Rows : FirstFrom(p, key)
  BY <1>1, <1>2, FirstRow DEF AllBelow
<1>4. p <= e
  BY <1>1, <1>2, <1>3, Numbers DEF FirstFrom
<1>5. ASSUME NEW f \in primary, f < e PROVE f < p
  <2>1. column[f] < key /\ f \in Rows
    BY <1>1, <1>5, Numbers
  <2>2. column[f] < column[p]
    BY <1>3, <2>1, Numbers DEF FirstFrom
  <2> QED BY <2>1, <2>2, Numbers
<1> QED BY <1>3, <1>4, <1>5

\* A page starts behind the one before it.
LEMMA PageStartIs ==
  ASSUME Typed, NEW e \in primary
  PROVE  /\ PageStart(e) \in 1 .. e
         /\ \E s \in {0} \cup primary : PageStart(e) = 1 + s /\ s < e
         /\ <<PageStart(e), e>> \in Parts
<1> DEFINE S == {s \in {0} \cup primary : s < e}
<1>1. e \in Nat /\ 1 <= e /\ e <= N /\ N \in Nat /\ \A f \in primary : f \in Nat
  BY Numbers
<1>2. S \subseteq 0 .. N /\ S # {}
  <2>1. \A s \in {0} \cup primary : s \in 0 .. N
    BY <1>1, Numbers
  <2>2. 0 \in S
    BY <1>1
  <2> QED BY <2>1, <2>2
<1>3. PICK m \in S : \A s \in S : s <= m
  BY <1>1, <1>2, GreatestExists
<1> DEFINE Before(s) == s < e /\ \A f \in {0} \cup primary : f < e => f <= s
           s == CHOOSE s \in {0} \cup primary : Before(s)
<1>4. m \in {0} \cup primary /\ Before(m)
  BY <1>3
<1>5. s \in {0} \cup primary /\ Before(s)
  <2> HIDE DEF Before
  <2> QED BY <1>4
<1>6. PageStart(e) = 1 + s
  BY DEF PageStart
<1> HIDE DEF s
<1>7. s \in Nat
  <2>1. \A f \in {0} \cup primary : f \in Nat
    BY <1>1
  <2> QED BY <1>5, <2>1
<1>8. PageStart(e) \in 1 .. e
  BY <1>1, <1>5, <1>6, <1>7
<1>9. PageStart(e) \in 1 .. N + 1 /\ e \in 0 .. N
  BY <1>1, <1>8
<1> QED BY <1>1, <1>5, <1>6, <1>8, <1>9 DEF Parts

LEMMA BiSearchIs ==
  ASSUME Typed, NEW e \in primary, NEW key \in Nat
  PROVE  IF \E p \in PageStart(e) .. e : column[p] = key
           THEN BiSearch(e, key) \in PageStart(e) .. e /\ column[BiSearch(e, key)] = key
           ELSE BiSearch(e, key) = 0
<1>1. <<PageStart(e), e>> \in Parts
  BY PageStartIs
<1> QED BY <1>1, SearchIs DEF BiSearch

\* The position of a value is a row that has it, and 0 if there is none.
LEMMA PositionIs ==
  ASSUME Built, NEW key \in Nat
  PROVE  /\ Position(key) \in 0 .. N
         /\ Position(key) # 0 => Position(key) \in Rows /\ column[Position(key)] = key
         /\ Present(key) <=> Position(key) # 0
         /\ HasPage(key) <=> ~ AllBelow(key)
<1> USE DEF Built
<1>1. HasPage(key) <=> ~ AllBelow(key)
  <2>1. ASSUME HasPage(key), AllBelow(key) PROVE FALSE
    <3>1. PICK e \in Landed(key) : TRUE
      BY <2>1 DEF HasPage
    <3>2. e \in Rows /\ column[e] >= key /\ column[e] \in Nat
      BY LandedIs, Numbers
    <3> QED BY <2>1, <3>2 DEF AllBelow
  <2> QED BY <2>1, LandedIs DEF HasPage
<1>2. CASE ~ HasPage(key)
  <2>1. Position(key) = 0
    BY <1>2 DEF Position
  <2>2. ~ Present(key)
    BY <1>1, <1>2, Numbers DEF AllBelow, Present
  <2> QED BY <1>1, <2>1, <2>2, Numbers
<1>3. CASE HasPage(key)
  <2>1. PICK e \in Landed(key) : e = CHOOSE x \in Landed(key) : TRUE
    BY <1>3 DEF HasPage
  <2>2. Position(key) = BiSearch(e, key) /\ e \in primary
    BY <1>3, <2>1, LandedIs DEF Position
  <2>9. PageStart(e) \in Nat /\ 1 <= PageStart(e) /\ PageStart(e) <= e /\ e \in Nat /\ e <= N /\ N \in Nat
    <3>1. e \in Nat /\ e <= N /\ N \in Nat
      BY <2>2, Numbers
    <3>2. PageStart(e) \in 1 .. e
      BY <2>2, PageStartIs
    <3> QED BY <3>1, <3>2
  <2>3. \A p \in PageStart(e) .. e : p \in Rows
    BY <2>9 DEF Rows
  <2>4. ASSUME NEW r \in Rows, column[r] = key PROVE \E p \in PageStart(e) .. e : column[p] = key
    <3>1. PICK p \in Rows : FirstFrom(p, key) /\ p <= e /\ \A f \in primary : f < e => f < p
      BY BoundaryFound
    <3>2. p <= r /\ p \in Nat /\ r \in Nat
      BY <2>4, <3>1, Numbers DEF FirstFrom
    <3>3. column[p] <= key /\ column[p] >= key /\ column[p] \in Nat
      BY <2>4, <3>1, <3>2, Numbers DEF FirstFrom
    <3>4. column[p] = key
      BY <3>3
    <3>5. PageStart(e) <= p
      <4>1. PICK s \in {0} \cup primary : PageStart(e) = 1 + s /\ s < e
        BY <2>2, PageStartIs
      <4> QED BY <3>1, <3>2, <4>1, Numbers
    <3>6. p \in PageStart(e) .. e
      BY <2>2, <3>1, <3>2, <3>5, PageStartIs, Numbers
    <3> QED BY <3>4, <3>6
  <2>5. Present(key) <=> \E p \in PageStart(e) .. e : column[p] = key
    BY <2>3, <2>4 DEF Present
  <2>6. 0 \notin PageStart(e) .. e
    BY <2>9
  <2> QED BY <1>1, <2>2, <2>3, <2>5, <2>6, BiSearchIs, Numbers
<1> QED BY <1>2, <1>3

----------------------------------------------------------------------------
(* The range of a predicate *)

\* What a result selects, and the rows it is to select.
Taken(result) ==
  IF result.complete THEN Rows
  ELSE IF result.triple = NullTriple THEN {} ELSE Positions(result.triple)
MatchingOf(pred, rhs) == {p \in Rows : Satisfies(column[p], pred, rhs)}
Distinct == \A p, q \in Rows : p # q => column[p] # column[q]

HitBy(pred, rhs) ==
  CASE pred = "LT" -> Bounded(rhs)
    [] pred = "GE" -> Present(rhs)
    [] pred \in {"LE", "GT"} -> HasSuccessor(rhs) /\ Bounded(SmallestLarger(rhs))
    [] pred = "EQ" -> ~ Present(rhs) \/ (HasSuccessor(rhs) /\ Bounded(SmallestLarger(rhs)))

ShapedAs(result) ==
  /\ result.triple \in Triples /\ result.complete \in BOOLEAN
  /\ Positions(result.triple) \subseteq 0 .. N + 1

LEMMA RangeIs ==
  ASSUME NEW first \in Nat, NEW last \in Nat, first <= last + 1
  PROVE  /\ Range(first, last) \in [start : Nat, reps : Nat]
         /\ Range(first, last).start = first /\ Range(first, last).reps = last - first + 1
         /\ Positions(Range(first, last)) = first .. last
         /\ first # 0 => Range(first, last) # NullTriple
         /\ \A limit \in Nat : first <= limit /\ last <= limit + 1 /\ last - first + 1 <= limit + 1
              => Range(first, last) \in [start : 0 .. limit, reps : 0 .. limit + 1]
                 /\ Positions(Range(first, last)) \subseteq 0 .. limit + 1
<1>1. last - first + 1 \in Nat /\ first + (last - first + 1) - 1 = last
  OBVIOUS
<1>2. Range(first, last).start = first /\ Range(first, last).reps = last - first + 1
  BY DEF Range
<1>3. Positions(Range(first, last)) = first .. last
  BY <1>1, <1>2 DEF Positions
<1>4. Range(first, last) = [start |-> first, reps |-> last - first + 1]
  BY DEF Range
<1>5. first # 0 => Range(first, last) # NullTriple
  BY <1>2 DEF NullTriple
<1>6. ASSUME NEW limit \in Nat, first <= limit, last <= limit + 1, last - first + 1 <= limit + 1
      PROVE  Range(first, last) \in [start : 0 .. limit, reps : 0 .. limit + 1]
             /\ Positions(Range(first, last)) \subseteq 0 .. limit + 1
  <2>1. first \in 0 .. limit /\ last - first + 1 \in 0 .. limit + 1
    BY <1>1, <1>6
  <2>2. first .. last \subseteq 0 .. limit + 1
    BY <1>6
  <2> QED BY <1>3, <1>4, <2>1, <2>2
<1> QED BY <1>1, <1>2, <1>3, <1>4, <1>5, <1>6

LEMMA RangeTaken ==
  ASSUME NEW first \in Nat, NEW last \in Nat, first <= last + 1, N \in Nat,
         first <= N, last <= N + 1, last - first + 1 <= N + 1
  PROVE  /\ ShapedAs(Only(Range(first, last)))
         /\ first # 0 => Taken(Only(Range(first, last))) = first .. last
         /\ Thrown(Only(Range(first, last))) => last - first + 1 = 0
<1>1. Only(Range(first, last)).triple = Range(first, last) /\ Only(Range(first, last)).complete = FALSE
  BY DEF Only
<1>2. /\ Range(first, last) \in Triples
      /\ Positions(Range(first, last)) \subseteq 0 .. N + 1
  BY RangeIs DEF Triples
<1>3. /\ Range(first, last).reps = last - first + 1
      /\ Positions(Range(first, last)) = first .. last
      /\ first # 0 => Range(first, last) # NullTriple
  BY RangeIs
<1> QED BY <1>1, <1>2, <1>3 DEF ShapedAs, Taken, Thrown

LEMMA NothingTaken ==
  ASSUME N \in Nat
  PROVE  /\ ShapedAs(Nothing) /\ Taken(Nothing) = {} /\ ~ Thrown(Nothing)
         /\ ShapedAs(All) /\ Taken(All) = Rows /\ ~ Thrown(All)
<1>1. NullTriple \in Triples
  BY DEF NullTriple, Triples
<1>2. Positions(NullTriple) \subseteq 0 .. N + 1
  BY DEF NullTriple, Positions
<1>3. /\ Nothing.triple = NullTriple /\ Nothing.complete = FALSE
      /\ All.triple = NullTriple /\ All.complete = TRUE
      /\ NullTriple.start = 0
  BY DEF Nothing, All, NullTriple
<1> QED BY <1>1, <1>2, <1>3 DEF ShapedAs, Taken, Thrown

\* The rows from a key on, or those behind it, where the key is a value or above all.
LEMMA GreaterThanIs ==
  ASSUME Built, NEW key \in Nat
  PROVE  /\ ShapedAs(GreaterThan(key)) /\ ~ Thrown(GreaterThan(key))
         /\ Bounded(key) =>
              /\ \A p \in Taken(GreaterThan(key)) : p \in Rows /\ column[p] >= key
              /\ Distinct => Taken(GreaterThan(key)) =
                   IF {p \in Rows : column[p] >= key} = {N} THEN {} ELSE {p \in Rows : column[p] >= key}
<1> DEFINE pos == Position(key)
           match == {p \in Rows : column[p] >= key}
<1>1. N \in Nat /\ N \in Rows
  BY Numbers DEF Built
<1>2. CASE ~ HasPage(key)
  <2>1. match = {}
    BY <1>2, PositionIs, Numbers DEF AllBelow, Built
  <2>2. GreaterThan(key) = Nothing
    BY <1>2 DEF GreaterThan
  <2> QED BY <1>1, <2>1, <2>2, NothingTaken
<1>3. CASE HasPage(key) /\ pos = N
  <2>1. GreaterThan(key) = Nothing
    BY <1>3 DEF GreaterThan
  <2>2. ASSUME Distinct PROVE match \subseteq {N}
    <3>1. \A p \in Rows : p # N => column[p] # key /\ column[p] <= key /\ column[p] \in Nat
      BY <1>1, <1>3, <2>2, PositionIs, Numbers DEF Distinct, Built
    <3> QED BY <3>1
  <2>3. N \in match
    BY <1>1, <1>3, PositionIs, Numbers DEF Built
  <2> QED BY <1>1, <2>1, <2>2, <2>3, NothingTaken
<1>4. CASE HasPage(key) /\ pos # N
  <2>1. pos \in 0 .. N /\ GreaterThan(key) = Only(Range(pos, N))
    BY <1>4, PositionIs DEF GreaterThan, From
  <2>2. ShapedAs(Only(Range(pos, N))) /\ ~ Thrown(Only(Range(pos, N)))
    BY <1>1, <1>4, <2>1, RangeTaken
  <2>3. ASSUME Bounded(key)
        PROVE  /\ pos \in Rows /\ column[pos] = key /\ Taken(Only(Range(pos, N))) = pos .. N
    <3>1. ~ AllBelow(key)
      BY <1>4, PositionIs
    <3>2. pos # 0 /\ pos \in Rows /\ column[pos] = key
      BY <2>3, <3>1, PositionIs DEF Bounded
    <3>3. pos \in Nat /\ pos <= N + 1 /\ pos <= N /\ N <= N + 1 /\ N - pos + 1 <= N + 1
      BY <1>1, <2>1
    <3> QED BY <1>1, <3>2, <3>3, RangeTaken
  <2>4. ASSUME Bounded(key), NEW p \in Taken(Only(Range(pos, N))) PROVE p \in match
    <3>1. p \in Rows /\ pos <= p
      BY <1>1, <2>1, <2>3, <2>4 DEF Rows
    <3> QED BY <2>3, <2>4, <3>1, Numbers DEF Built
  <2>5. ASSUME Bounded(key), Distinct, NEW p \in match PROVE p \in pos .. N
    <3>1. ~ p < pos
      <4> SUFFICES ASSUME p < pos PROVE FALSE
        OBVIOUS
      <4>1. column[p] <= column[pos] /\ column[p] # column[pos]
        BY <2>3, <2>5, Numbers DEF Distinct, Built
      <4> QED BY <2>3, <2>5, <4>1, Numbers DEF Built
    <3>2. p \in Rows /\ p \in Nat /\ p <= N
      BY Numbers DEF Built
    <3> QED BY <1>1, <2>1, <3>1, <3>2
  <2>6. Bounded(key) => match # {N}
    BY <1>4, <2>3, Numbers DEF Built
  <2>7. Bounded(key) /\ Distinct => Taken(Only(Range(pos, N))) = match
    BY <2>3, <2>4, <2>5
  <2> HIDE DEF pos, match
  <2>8. Bounded(key) => \A p \in Taken(Only(Range(pos, N))) : p \in Rows /\ column[p] >= key
    BY <2>4 DEF match
  <2> QED BY <2>1, <2>2, <2>6, <2>7, <2>8 DEF match
<1> QED BY <1>2, <1>3, <1>4

LEMMA GreaterThanOrEqualIs ==
  ASSUME Built, NEW key \in Nat
  PROVE  LET match == {p \in Rows : column[p] >= key}
         IN  /\ ShapedAs(GreaterThanOrEqual(key)) /\ ~ Thrown(GreaterThanOrEqual(key))
             /\ Present(key) =>
                  /\ \A p \in Taken(GreaterThanOrEqual(key)) : p \in Rows /\ column[p] >= key
                  /\ Distinct => Taken(GreaterThanOrEqual(key)) =
                       IF match = {N} THEN {} ELSE match
<1> DEFINE pos == Position(key)
           result == [triple |-> Range(pos, N), complete |-> pos = 0]
<1>1. N \in Nat /\ pos \in 0 .. N /\ (Present(key) <=> pos # 0)
  BY PositionIs, Numbers DEF Built
<1>2. CASE pos = N
  <2>1. GreaterThanOrEqual(key) = Nothing /\ HasPage(key)
    <3>1. pos # 0
      BY <1>2, Numbers DEF Built
    <3> QED BY <1>2, <3>1 DEF GreaterThanOrEqual, Position
  <2>2. GreaterThan(key) = Nothing /\ Bounded(key)
    <3>1. pos # 0
      BY <1>2, Numbers DEF Built
    <3> QED BY <1>1, <1>2, <2>1, <3>1 DEF GreaterThan, Bounded
  <2> QED BY <2>1, <2>2, GreaterThanIs
<1>3. CASE pos # N /\ pos = 0
  <2>1. GreaterThanOrEqual(key) = result
    BY <1>3 DEF GreaterThanOrEqual, From
  <2>2. Range(pos, N) \in Triples /\ Positions(Range(pos, N)) \subseteq 0 .. N + 1 /\ Range(pos, N).start = 0
    <3>1. 0 <= N + 1 /\ N <= N + 1 /\ N - 0 + 1 <= N + 1 /\ 0 <= N /\ 0 \in Nat
      BY <1>1
    <3>2. Range(0, N) \in Triples /\ Positions(Range(0, N)) \subseteq 0 .. N + 1 /\ Range(0, N).start = 0
      BY <1>1, <3>1, RangeIs DEF Triples
    <3> QED BY <1>3, <3>2
  <2>3. result.triple = Range(pos, N) /\ result.complete \in BOOLEAN
    OBVIOUS
  <2> HIDE DEF result
  <2> QED BY <1>1, <1>3, <2>1, <2>2, <2>3 DEF ShapedAs, Thrown
<1>4. CASE pos # N /\ pos # 0
  <2>1. HasPage(key)
    BY <1>4 DEF Position
  <2>2. GreaterThanOrEqual(key) = [triple |-> From(pos), complete |-> FALSE]
    BY <1>4 DEF GreaterThanOrEqual
  <2>3. GreaterThan(key) = [triple |-> From(pos), complete |-> FALSE]
    BY <1>4, <2>1 DEF GreaterThan, Only
  <2> QED BY <2>2, <2>3, GreaterThanIs DEF Bounded
<1> QED BY <1>2, <1>3, <1>4

\* The rows below a key.
LEMMA LessThanIs ==
  ASSUME Built, NEW key \in Nat
  PROVE  LET match == {p \in Rows : column[p] < key}
         IN  /\ ShapedAs(LessThan(key)) /\ ~ Thrown(LessThan(key))
             /\ Bounded(key) =>
                  /\ match \subseteq Taken(LessThan(key))
                  /\ Distinct => Taken(LessThan(key)) = match
<1> DEFINE pos == Position(key)
           match == {p \in Rows : column[p] < key}
<1>1. N \in Nat /\ pos \in 0 .. N /\ (Present(key) <=> pos # 0)
  BY PositionIs, Numbers DEF Built
<1>2. CASE ~ HasPage(key)
  <2>1. match = Rows
    BY <1>2, PositionIs DEF AllBelow
  <2>2. LessThan(key) = All
    BY <1>2 DEF LessThan
  <2> QED BY <1>1, <2>1, <2>2, NothingTaken
<1>3. ASSUME HasPage(key), Bounded(key)
      PROVE  /\ pos \in Rows /\ column[pos] = key
             /\ \A p \in match : p \in 1 .. pos - 1
             /\ Distinct => \A p \in 1 .. pos - 1 : p \in match
  <2>1. pos \in Rows /\ column[pos] = key
    BY <1>3, PositionIs DEF Bounded
  <2>2. \A p \in match : p < pos /\ p \in Rows
    BY <2>1, Numbers DEF Built
  <2>3. \A p \in match : p \in 1 .. pos - 1
    BY <1>1, <2>2, Numbers DEF Built
  <2>4. ASSUME Distinct, NEW p \in 1 .. pos - 1 PROVE p \in match
    <3>1. p \in Rows /\ p <= pos /\ p # pos
      BY <1>1 DEF Rows
    <3> HIDE DEF pos
    <3>2. column[p] <= column[pos] /\ column[p] # column[pos] /\ column[p] \in Nat /\ column[pos] \in Nat
      BY <2>1, <2>4, <3>1, Numbers DEF Distinct, Built
    <3> QED BY <2>1, <3>1, <3>2
  <2> QED BY <2>1, <2>3, <2>4
<1>4. CASE HasPage(key) /\ pos > 1
  <2>1. LessThan(key) = Only(Range(1, pos - 1))
    BY <1>4 DEF LessThan, Upto
  <2>2. pos - 1 \in Nat /\ pos - 1 <= N + 1 /\ 1 <= pos - 1 + 1 /\ 1 <= N /\ pos - 1 - 1 + 1 <= N + 1
        /\ pos - 1 - 1 + 1 # 0
    BY <1>1, <1>4
  <2>3. /\ ShapedAs(Only(Range(1, pos - 1))) /\ ~ Thrown(Only(Range(1, pos - 1)))
        /\ Taken(Only(Range(1, pos - 1))) = 1 .. pos - 1
    BY <1>1, <2>2, RangeTaken
  <2> QED BY <1>3, <1>4, <2>1, <2>3
<1>5. CASE HasPage(key) /\ ~ pos > 1
  <2>1. LessThan(key) = Nothing
    BY <1>5 DEF LessThan
  <2>2. Bounded(key) => match = {}
    BY <1>1, <1>3, <1>5
  <2> QED BY <1>1, <2>1, <2>2, NothingTaken
<1> QED BY <1>2, <1>4, <1>5

\* The rows with a value.
LEMMA EqualIs ==
  ASSUME Built, NEW rhs \in Nat, NEW result \in Results("EQ", rhs)
  PROVE  LET match == {p \in Rows : column[p] = rhs}
             temp == SmallestLarger(rhs)
         IN  /\ ShapedAs(result)
             /\ Thrown(result) => Present(rhs) /\ (~ Present(temp) \/ temp = rhs)
             /\ ~ Present(rhs) \/ (HasSuccessor(rhs) /\ Bounded(temp)) =>
                  /\ \A p \in Taken(result) : column[p] >= rhs
                  /\ Distinct => Taken(result) = match
<1> DEFINE first == Position(rhs)
           temp == SmallestLarger(rhs)
           match == {p \in Rows : column[p] = rhs}
<1>1. N \in Nat /\ first \in 0 .. N /\ (Present(rhs) <=> first # 0)
  BY PositionIs, Numbers DEF Built
<1>2. temp \in Nat /\ rhs <= temp
  BY LargerIs
<1>3. CASE first = 0
  <2>1. result = Nothing
    BY <1>3 DEF Results
  <2>2. match = {}
    BY <1>1, <1>3 DEF Present
  <2> QED BY <1>1, <2>1, <2>2, NothingTaken
<1>4. CASE first # 0
  <2>1. first \in Rows /\ column[first] = rhs /\ Present(rhs) /\ first \in Nat /\ 1 <= first /\ first <= N
    BY <1>1, <1>4, PositionIs, Numbers DEF Built
  <2>2. PICK end \in End(temp) : result = Equal(first, end)
    BY <1>4 DEF Results
  <2>3. Distinct => match = {first}
    BY <2>1 DEF Distinct
  <2> HIDE DEF first, temp
  <2>4. \A p \in first .. N : p \in Rows /\ column[p] >= rhs
    BY <1>1, <2>1, Numbers DEF Rows, Built
  <2>5. CASE ~ HasPage(temp)
    <3>1. end = 0
      BY <2>2, <2>5 DEF End
    <3>2. AllBelow(temp)
      BY <1>2, <2>5, PositionIs
    <3>3. HasSuccessor(rhs) => temp = rhs + 1
      BY DEF HasSuccessor, temp
    <3>4. ASSUME HasSuccessor(rhs), Distinct, NEW p \in first .. N PROVE p = first
      <4>1. p \in Rows /\ column[p] >= rhs /\ column[p] < rhs + 1 /\ column[p] \in Nat
        BY <2>4, <3>2, <3>3, <3>4, Numbers DEF AllBelow, Built
      <4>2. column[p] = rhs
        BY <4>1
      <4> QED BY <2>1, <3>4, <4>1, <4>2 DEF Distinct
    <3>5. CASE first = 1
      <4>1. result = All
        BY <2>2, <3>1, <3>5 DEF Equal
      <4>2. Rows = first .. N
        BY <3>5 DEF Rows
      <4> QED BY <1>1, <2>1, <2>3, <2>4, <3>4, <4>1, <4>2, NothingTaken
    <3>6. CASE first # 1
      <4>1. result = Only(Range(first, N))
        BY <2>2, <3>1, <3>6 DEF Equal, From
      <4>2. first <= N + 1 /\ N <= N + 1 /\ N - first + 1 <= N + 1 /\ N - first + 1 # 0 /\ first # 0
        BY <1>1, <2>1
      <4>3. ShapedAs(result) /\ Taken(result) = first .. N /\ ~ Thrown(result)
        BY <1>1, <2>1, <4>1, <4>2, RangeTaken
      <4>4. first \in first .. N
        BY <2>1, <1>1
      <4> QED BY <2>1, <2>3, <2>4, <3>4, <4>3, <4>4
    <3> QED BY <3>5, <3>6
  <2>6. CASE HasPage(temp) /\ Position(temp) # 0 /\ temp # rhs
    <3> DEFINE next == Position(temp)
    <3>1. next \in Rows /\ column[next] = temp /\ end = next - 1 /\ next \in Nat /\ next <= N
      BY <1>2, <2>2, <2>6, PositionIs, Numbers DEF End, Built
    <3> HIDE DEF next
    <3>2. first < next
      BY <1>2, <2>1, <2>6, <3>1, Numbers DEF Built
    <3>3. end \in Nat /\ first <= end /\ end <= N /\ first <= end + 1 /\ end <= N + 1
          /\ end - first + 1 <= N + 1 /\ end - first + 1 # 0 /\ end # 0
      BY <1>1, <2>1, <3>1, <3>2
    <3>4. result = Only(Range(first, end))
      BY <2>2, <3>3 DEF Equal
    <3>5. ShapedAs(result) /\ Taken(result) = first .. end /\ ~ Thrown(result)
      BY <1>1, <2>1, <3>3, <3>4, RangeTaken
    <3>6. first \in first .. end /\ \A p \in first .. end : p \in first .. N /\ p < next
      BY <1>1, <2>1, <3>1, <3>3
    <3>7. ASSUME HasSuccessor(rhs), Distinct, NEW p \in first .. end PROVE p = first
      <4>1. p \in Rows /\ column[p] >= rhs /\ p <= next /\ p # next /\ column[p] \in Nat
        BY <2>4, <3>6, <3>1, Numbers DEF Built
      <4>2. column[p] <= rhs + 1
        BY <3>1, <3>7, <4>1, Numbers DEF HasSuccessor, Built, temp
      <4>3. column[p] # rhs + 1
        BY <3>1, <3>7, <4>1 DEF HasSuccessor, Distinct, temp
      <4>4. column[p] = rhs
        BY <4>1, <4>2, <4>3
      <4> QED BY <2>1, <3>7, <4>1, <4>4 DEF Distinct
    <3>8. \A p \in Taken(result) : column[p] >= rhs
      BY <2>4, <3>5, <3>6
    <3>9. HasSuccessor(rhs) /\ Distinct => Taken(result) = match
      <4> SUFFICES ASSUME HasSuccessor(rhs), Distinct PROVE Taken(result) = match
        OBVIOUS
      <4>1. first .. end = {first}
        BY <3>6, <3>7
      <4> QED BY <2>3, <3>5, <4>1
    <3> QED BY <2>1, <3>5, <3>8, <3>9
  <2>7. CASE HasPage(temp) /\ (Position(temp) = 0 \/ temp = rhs)
    <3>1. ~ Present(temp) \/ temp = rhs
      BY <1>2, <2>7, PositionIs
    <3>2. ~ (HasSuccessor(rhs) /\ Bounded(temp))
      <4>1. ~ AllBelow(temp)
        BY <1>2, <2>7, PositionIs
      <4> QED BY <3>1, <4>1 DEF HasSuccessor, Bounded, temp
    <3>3. end \in 0 .. N + 1
      <4>1. Position(temp) \in 0 .. N
        BY <1>2, PositionIs
      <4> QED BY <1>1, <2>2, <4>1 DEF End
    <3>4. ShapedAs(result)
      <4>1. CASE end = 0 /\ first = 1
        BY <1>1, <2>2, <4>1, NothingTaken DEF Equal
      <4>2. CASE end = 0 /\ first # 1
        <5>1. result = Only(Range(first, N)) /\ first <= N + 1 /\ N <= N + 1 /\ N - first + 1 <= N + 1
          BY <1>1, <2>1, <2>2, <4>2 DEF Equal, From
        <5> QED BY <1>1, <2>1, <5>1, RangeTaken
      <4>3. CASE end # 0 /\ end >= first
        <5>1. result = Only(Range(first, end)) /\ first <= end + 1 /\ end <= N + 1 /\ end - first + 1 <= N + 1
              /\ end \in Nat
          BY <1>1, <2>1, <2>2, <3>3, <4>3 DEF Equal
        <5> QED BY <1>1, <2>1, <5>1, RangeTaken
      <4>4. CASE end # 0 /\ end = first - 1
        <5>1. result = Only([start |-> first, reps |-> 0])
          BY <1>1, <2>1, <2>2, <4>4 DEF Equal
        <5>2. [start |-> first, reps |-> 0] = Range(first, end) /\ end \in Nat /\ first <= end + 1
              /\ end <= N + 1 /\ end - first + 1 <= N + 1
          BY <1>1, <2>1, <4>4, <3>3 DEF Range
        <5> QED BY <1>1, <2>1, <5>1, <5>2, RangeTaken
      <4>5. CASE end # 0 /\ ~ end >= first /\ end # first - 1
        <5>1. result = Only(Range(first, N + 1)) /\ first <= N + 1 + 1 /\ N + 1 <= N + 1
              /\ N + 1 - first + 1 <= N + 1 /\ N + 1 \in Nat
          BY <1>1, <2>1, <2>2, <4>5 DEF Equal
        <5> QED BY <1>1, <2>1, <5>1, RangeTaken
      <4> QED BY <4>1, <4>2, <4>3, <4>4, <4>5
    <3> QED BY <2>1, <3>1, <3>2, <3>4 DEF temp
  <2> QED BY <2>5, <2>6, <2>7 DEF temp
<1> QED BY <1>3, <1>4

\* Any predicate.
RightFor(result, pred, rhs) ==
  /\ pred \in {"EQ", "GE"} => \A p \in Taken(result) : column[p] >= rhs
  /\ pred = "GT" => \A p \in Taken(result) : column[p] > rhs
  /\ pred \in {"LT", "LE"} => MatchingOf(pred, rhs) \subseteq Taken(result)
  /\ Distinct => Taken(result) = IF pred \in {"GE", "GT"} /\ MatchingOf(pred, rhs) = {N}
                                   THEN {} ELSE MatchingOf(pred, rhs)

LEMMA ResultIs ==
  ASSUME Built, NEW pred \in Preds, NEW rhs \in Values, NEW result \in Results(pred, rhs)
  PROVE  /\ ShapedAs(result)
         /\ Thrown(result) =>
              /\ pred = "EQ" /\ Present(rhs)
              /\ ~ Present(SmallestLarger(rhs)) \/ SmallestLarger(rhs) = rhs
         /\ HitBy(pred, rhs) => RightFor(result, pred, rhs)
<1> DEFINE temp == SmallestLarger(rhs)
<1>1. rhs \in Nat
  BY BaseIs
<1>2. temp \in Nat /\ rhs <= temp
  BY <1>1, LargerIs
<1>3. HasSuccessor(rhs) => temp = rhs + 1
  BY DEF HasSuccessor
<1>4. \A p \in Rows : column[p] \in Nat
  BY Numbers DEF Built
<1> HIDE DEF temp
<1>5. CASE pred = "GT"
  <2>1. result = GreaterThan(temp) /\ (HitBy(pred, rhs) <=> HasSuccessor(rhs) /\ Bounded(temp))
    BY <1>5 DEF Results, HitBy, temp
  <2>2. MatchingOf(pred, rhs) = {p \in Rows : column[p] > rhs}
    BY <1>5 DEF MatchingOf, Satisfies
  <2>3. HasSuccessor(rhs) => {p \in Rows : column[p] > rhs} = {p \in Rows : column[p] >= temp}
    BY <1>1, <1>3, <1>4
  <2>4. /\ ShapedAs(result) /\ ~ Thrown(result)
        /\ Bounded(temp) =>
             /\ \A p \in Taken(result) : p \in Rows /\ column[p] >= temp
             /\ Distinct => Taken(result) =
                  IF {p \in Rows : column[p] >= temp} = {N} THEN {} ELSE {p \in Rows : column[p] >= temp}
    BY <1>2, <2>1, GreaterThanIs
  <2>5. HitBy(pred, rhs) => \A p \in Taken(result) : column[p] > rhs
    BY <1>1, <1>3, <1>4, <2>1, <2>4
  <2>6. HitBy(pred, rhs) => RightFor(result, pred, rhs)
    BY <1>5, <2>1, <2>2, <2>3, <2>4, <2>5 DEF RightFor
  <2> QED BY <1>5, <2>4, <2>6
<1>6. CASE pred = "GE"
  <2>1. result = GreaterThanOrEqual(rhs) /\ (HitBy(pred, rhs) <=> Present(rhs))
    BY <1>6 DEF Results, HitBy
  <2>2. MatchingOf(pred, rhs) = {p \in Rows : column[p] >= rhs}
    BY <1>6 DEF MatchingOf, Satisfies
  <2>3. /\ ShapedAs(result) /\ ~ Thrown(result)
        /\ Present(rhs) =>
             /\ \A p \in Taken(result) : column[p] >= rhs
             /\ Distinct => Taken(result) =
                  IF {p \in Rows : column[p] >= rhs} = {N} THEN {} ELSE {p \in Rows : column[p] >= rhs}
    BY <1>1, <2>1, GreaterThanOrEqualIs
  <2>4. HitBy(pred, rhs) => RightFor(result, pred, rhs)
    BY <1>6, <2>1, <2>2, <2>3 DEF RightFor
  <2> QED BY <1>6, <2>3, <2>4
<1>7. CASE pred = "LT"
  <2>1. result = LessThan(rhs) /\ (HitBy(pred, rhs) <=> Bounded(rhs))
    BY <1>7 DEF Results, HitBy
  <2>2. MatchingOf(pred, rhs) = {p \in Rows : column[p] < rhs}
    BY <1>7 DEF MatchingOf, Satisfies
  <2>3. /\ ShapedAs(result) /\ ~ Thrown(result)
        /\ Bounded(rhs) =>
             /\ {p \in Rows : column[p] < rhs} \subseteq Taken(result)
             /\ Distinct => Taken(result) = {p \in Rows : column[p] < rhs}
    BY <1>1, <2>1, LessThanIs
  <2>4. HitBy(pred, rhs) => RightFor(result, pred, rhs)
    BY <1>7, <2>1, <2>2, <2>3 DEF RightFor
  <2> QED BY <1>7, <2>3, <2>4
<1>8. CASE pred = "LE"
  <2>1. result = LessThan(temp) /\ (HitBy(pred, rhs) <=> HasSuccessor(rhs) /\ Bounded(temp))
    BY <1>8 DEF Results, HitBy, temp
  <2>2. MatchingOf(pred, rhs) = {p \in Rows : column[p] <= rhs}
    BY <1>8 DEF MatchingOf, Satisfies
  <2>3. HasSuccessor(rhs) => {p \in Rows : column[p] <= rhs} = {p \in Rows : column[p] < temp}
    BY <1>1, <1>3, <1>4
  <2>4. /\ ShapedAs(result) /\ ~ Thrown(result)
        /\ Bounded(temp) =>
             /\ {p \in Rows : column[p] < temp} \subseteq Taken(result)
             /\ Distinct => Taken(result) = {p \in Rows : column[p] < temp}
    BY <1>2, <2>1, LessThanIs
  <2>5. HitBy(pred, rhs) => RightFor(result, pred, rhs)
    BY <1>8, <2>1, <2>2, <2>3, <2>4 DEF RightFor
  <2> QED BY <1>8, <2>4, <2>5
<1>9. CASE pred = "EQ"
  <2>1. result \in Results("EQ", rhs)
    BY <1>9
  <2>2. HitBy(pred, rhs) => ~ Present(rhs) \/ (HasSuccessor(rhs) /\ Bounded(temp))
    <3>1. ASSUME HitBy(pred, rhs), Present(rhs) PROVE HasSuccessor(rhs) /\ Bounded(temp)
      BY <1>9, <3>1 DEF HitBy, temp
    <3> QED BY <3>1
  <2>3. MatchingOf(pred, rhs) = {p \in Rows : column[p] = rhs}
    BY <1>9 DEF MatchingOf, Satisfies
  <2>4. /\ ShapedAs(result)
        /\ Thrown(result) => Present(rhs) /\ (~ Present(temp) \/ temp = rhs)
        /\ ~ Present(rhs) \/ (HasSuccessor(rhs) /\ Bounded(temp)) =>
             /\ \A p \in Taken(result) : column[p] >= rhs
             /\ Distinct => Taken(result) = {p \in Rows : column[p] = rhs}
    BY <1>1, <2>1, EqualIs DEF temp
  <2>5. HitBy(pred, rhs) => RightFor(result, pred, rhs)
    BY <1>9, <2>2, <2>3, <2>4 DEF RightFor
  <2> QED BY <1>9, <2>4, <2>5 DEF temp
<1> QED BY <1>5, <1>6, <1>7, <1>8, <1>9 DEF Preds

----------------------------------------------------------------------------
(* The steps *)

LEMMA InitSound == Init => IInv
<1> SUFFICES ASSUME Init PROVE IInv
  OBVIOUS
<1> USE DEF Init
<1>1. N \in Nat /\ 0 \in Values
  <2>1. Base * Base - 1 \in Nat
    <3>1. Base * Base \in Nat /\ Base * Base # 0
      BY BaseIs
    <3> QED BY <3>1
  <2> QED BY <2>1, SortedAssumption DEF Values
<1>2. Typed
  <2>1. triple \in Triples /\ matched \subseteq 0 .. N + 1 /\ asked \in [pred : Preds, rhs : Values]
    BY <1>1 DEF NullTriple, Triples, Preds
  <2>2. ends \subseteq Rows /\ primary \subseteq ends /\ lastSecondaryValue \in Values \cup {NoValue}
    OBVIOUS
  <2> QED BY <2>1, <2>2 DEF Typed
<1>3. WrittenInOrder /\ Indexed /\ LastEntered
  BY DEF WrittenInOrder, Indexed, LastEntered
<1>4. BoundsExact /\ ThrowsWithoutSuccessor
  BY DEF BoundsExact, HitExact, OneSided, ThrowsWithoutSuccessor
<1> QED BY <1>2, <1>3, <1>4 DEF IInv

\* A page is written behind all others, and its end value entered once.
LEMMA WritePageKeeps ==
  ASSUME IInv, NEW e \in Rows, WritePage(e)
  PROVE  IInv'
<1> USE DEF IInv
<1>1. N \in Nat /\ N \in Rows /\ e \in Nat /\ e <= N /\ column[e] \in Values /\ primary \subseteq Rows
  BY Numbers DEF Typed
<1>2. /\ state = "build" /\ e \in ends /\ e \notin primary
      /\ \A f \in ends \ primary : e <= f
      /\ primary' = primary \cup {e}
      /\ state' = IF e = N THEN "ready" ELSE "build"
      /\ column' = column /\ ends' = ends /\ triple' = triple /\ complete' = complete
      /\ matched' = matched /\ asked' = asked
  BY DEF WritePage, layout, source
<1>3. /\ UseSecondary(e) =>
           /\ secondary' = [v \in DOMAIN secondary \cup {column[e]} |->
                              IF v = column[e] THEN e ELSE secondary[v]]
           /\ lastSecondaryValue' = column[e]
      /\ ~ UseSecondary(e) => secondary' = secondary /\ lastSecondaryValue' = lastSecondaryValue
  BY DEF WritePage
<1>4. Typed'
  BY <1>1, <1>2, <1>3 DEF Typed, Ascending
\* Those that are written come before it.
<1>5. \A f \in primary : f < e
  <2> SUFFICES ASSUME NEW f \in primary, ~ f < e PROVE FALSE
    OBVIOUS
  <2>1. e < f
    BY <1>1, <1>2, Numbers DEF Typed
  <2> QED BY <1>2, <2>1 DEF WrittenInOrder
<1>6. WrittenInOrder'
  <2>1. \A f \in ends : f < e => f \in primary
    BY <1>1, <1>2, Numbers DEF Typed, Rows
  <2>2. N \in ends
    BY DEF Typed
  <2> QED BY <1>2, <2>1, <2>2 DEF WrittenInOrder
<1>7. LastEntered'
  <2>1. primary' # {} /\ e \in primary' /\ column'[e] = column[e]
    BY <1>2
  <2>2. \A f \in primary' : f <= e
    BY <1>1, <1>2, <1>5, Numbers
  <2>3. column[e] = lastSecondaryValue'
    BY <1>3 DEF UseSecondary
  <2> QED BY <2>1, <2>2, <2>3 DEF LastEntered
<1>8. Indexed'
  <2>1. CASE UseSecondary(e)
    <3>1. column[e] \notin DOMAIN secondary
      <4> SUFFICES ASSUME column[e] \in DOMAIN secondary PROVE FALSE
        OBVIOUS
      <4>1. PICK f \in primary : column[f] = column[e]
        BY DEF Indexed
      <4>2. PICK g \in primary : column[g] = lastSecondaryValue /\ \A h \in primary : h <= g
        BY <4>1 DEF LastEntered
      <4>3. f <= g /\ g <= e /\ f \in Rows /\ g \in Rows
        BY <1>1, <1>5, <4>1, <4>2, Numbers
      <4>4. column[f] <= column[g] /\ column[g] <= column[e] /\ column[g] \in Nat /\ column[f] \in Nat
        BY <4>3, Numbers
      <4>5. column[g] = column[e]
        BY <4>1, <4>4
      <4> QED BY <2>1, <4>2, <4>5 DEF UseSecondary
    <3>2. \A v \in DOMAIN secondary' :
            IF v = column[e] THEN secondary'[v] = e ELSE v \in DOMAIN secondary /\ secondary'[v] = secondary[v]
      BY <1>3, <2>1
    <3>3. DOMAIN secondary' = DOMAIN secondary \cup {column[e]}
      BY <1>3, <2>1
    <3>4. \A v \in DOMAIN secondary' : secondary'[v] \in primary' /\ column[secondary'[v]] = v
      BY <1>2, <3>2 DEF Indexed
    <3>5. \A f \in primary : column[f] \in DOMAIN secondary /\ column[f] # column[e] /\ secondary[column[f]] <= f
      BY <3>1 DEF Indexed
    <3>6. \A f \in primary' : column[f] \in DOMAIN secondary' /\ secondary'[column[f]] <= f
      BY <1>1, <1>2, <3>2, <3>3, <3>5
    <3> QED BY <1>2, <3>4, <3>6 DEF Indexed
  <2>2. CASE ~ UseSecondary(e)
    <3>1. primary # {}
      <4> SUFFICES ASSUME primary = {} PROVE FALSE
        OBVIOUS
      <4>1. lastSecondaryValue = NoValue
        BY DEF LastEntered
      <4> QED BY <1>1, <2>2, <4>1, BaseIs DEF UseSecondary
    <3>2. PICK g \in primary : column[g] = lastSecondaryValue
      BY <3>1 DEF LastEntered
    <3>3. column[e] = column[g] /\ g < e /\ g \in Nat
      BY <1>5, <2>2, <3>2, Numbers DEF UseSecondary
    <3>4. secondary[column[g]] \in Nat /\ secondary[column[g]] <= g /\ column[g] \in DOMAIN secondary
      BY <3>2, Numbers DEF Indexed
    <3>5. column[e] \in DOMAIN secondary /\ secondary[column[e]] <= e
      BY <1>1, <3>3, <3>4
    <3> QED BY <1>2, <1>3, <2>2, <3>5 DEF Indexed
  <2> QED BY <2>1, <2>2
<1>9. state' # "answered" /\ state' # "thrown"
  BY <1>2
<1>10. (BoundsExact /\ ThrowsWithoutSuccessor)'
  BY <1>9 DEF BoundsExact, HitExact, OneSided, ThrowsWithoutSuccessor
<1> QED BY <1>4, <1>6, <1>7, <1>8, <1>10 DEF IInv

LEMMA AskedBuilt ==
  ASSUME IInv, Asked
  PROVE  Built /\ UNCHANGED <<column, ends, primary, secondary, lastSecondaryValue>>
BY DEF IInv, Asked, Built, WrittenInOrder, layout, index

\* The answer to the first predicate.
LEMMA FirstScanKeeps ==
  ASSUME IInv, NEW pred \in Preds, NEW rhs \in Values, FirstScan(pred, rhs)
  PROVE  IInv'
<1>1. Built /\ UNCHANGED <<column, ends, primary, secondary, lastSecondaryValue>>
  BY AskedBuilt DEF FirstScan
<1>2. PICK result \in Results(pred, rhs) :
        /\ triple' = result.triple
        /\ complete' = result.complete
        /\ matched' = IF result.complete \/ result.triple = NullTriple THEN {} ELSE Positions(result.triple)
        /\ state' = IF Thrown(result) THEN "thrown" ELSE "answered"
        /\ asked' = [pred |-> pred, rhs |-> rhs]
  BY DEF FirstScan
<1>3. /\ ShapedAs(result)
      /\ Thrown(result) =>
           /\ pred = "EQ" /\ Present(rhs)
           /\ ~ Present(SmallestLarger(rhs)) \/ SmallestLarger(rhs) = rhs
      /\ HitBy(pred, rhs) => RightFor(result, pred, rhs)
  BY <1>1, <1>2, ResultIs
<1>4. Typed' /\ WrittenInOrder' /\ Indexed' /\ LastEntered'
  <2>1. Typed'
    BY <1>1, <1>2, <1>3 DEF Built, Typed, Ascending, ShapedAs
  <2>2. (WrittenInOrder /\ Indexed)'
    BY <1>1 DEF Built, WrittenInOrder, Indexed
  <2>3. LastEntered'
    BY <1>1 DEF IInv, LastEntered
  <2> QED BY <2>1, <2>2, <2>3
<1>5. Selected' = Taken(result)
  BY <1>2 DEF Selected, Taken
<1>6. asked'.pred = pred /\ asked'.rhs = rhs
  BY <1>2
<1>7. Matching' = MatchingOf(pred, rhs)
  BY <1>1, <1>6 DEF Matching, MatchingOf
<1>8. Hit' <=> HitBy(pred, rhs)
  BY <1>1, <1>6 DEF Hit, HitBy, Bounded, Present, AllBelow
<1>9. BoundsExact'
  <2>1. OneSided'
    BY <1>1, <1>3, <1>5, <1>6, <1>7, <1>8 DEF OneSided, RightFor
  <2>2. HitExact'
    BY <1>1, <1>3, <1>5, <1>6, <1>7, <1>8 DEF HitExact, RightFor, Distinct
  <2> QED BY <2>1, <2>2 DEF BoundsExact
<1>10. ThrowsWithoutSuccessor'
  BY <1>1, <1>2, <1>3, <1>6 DEF ThrowsWithoutSuccessor, Present
<1> QED BY <1>4, <1>9, <1>10 DEF IInv

LEMMA ScanAgainKeeps ==
  ASSUME IInv, ScanAgain
  PROVE  IInv'
<1>1. UNCHANGED <<column, ends, primary, secondary, lastSecondaryValue>> /\ Built
  BY AskedBuilt DEF ScanAgain
<1>2. complete' = FALSE /\ matched' = {} /\ state' = "spent" /\ triple' = triple /\ asked' = asked
  BY DEF ScanAgain
<1>3. Typed'
  BY <1>1, <1>2 DEF Built, Typed, Ascending
<1>4. (WrittenInOrder /\ Indexed /\ LastEntered)'
  BY <1>1 DEF IInv, Built, WrittenInOrder, Indexed, LastEntered
<1>5. (BoundsExact /\ ThrowsWithoutSuccessor)'
  BY <1>2 DEF BoundsExact, HitExact, OneSided, ThrowsWithoutSuccessor
<1> QED BY <1>3, <1>4, <1>5 DEF IInv

LEMMA StutterKeeps == IInv /\ UNCHANGED vars => IInv'
<1> SUFFICES ASSUME IInv, UNCHANGED vars PROVE IInv'
  OBVIOUS
<1>1. UNCHANGED <<column, ends, primary, secondary, lastSecondaryValue, triple, complete, matched, state, asked>>
  BY DEF vars, layout, index, source
<1>2. (Typed /\ WrittenInOrder /\ Indexed /\ LastEntered)'
  BY <1>1 DEF IInv, Typed, Ascending, WrittenInOrder, Indexed, LastEntered
<1>3. Hit' = Hit /\ Matching' = Matching /\ Selected' = Selected
  BY <1>1 DEF Hit, Bounded, Present, AllBelow, Matching, Selected
<1>4. (BoundsExact /\ ThrowsWithoutSuccessor)'
  BY <1>1, <1>3 DEF IInv, BoundsExact, HitExact, OneSided, ThrowsWithoutSuccessor, Present
<1> QED BY <1>2, <1>4 DEF IInv

LEMMA InvariantHolds == Spec => []IInv
<1>1. IInv /\ [Next]_vars => IInv'
  BY WritePageKeeps, FirstScanKeeps, ScanAgainKeeps, StutterKeeps DEF Next
<1> QED BY InitSound, <1>1, PTL DEF Spec

----------------------------------------------------------------------------
(* The theorems *)

LEMMA InvariantIsWellFormed == IInv => WellFormed
<1> SUFFICES ASSUME IInv PROVE WellFormed
  OBVIOUS
<1>1. TypeOK
  <2>1. DOMAIN secondary \subseteq Values
    <3>1. \A p \in Rows : column[p] \in Values
      BY DEF IInv, Typed
    <3> QED BY <3>1, Numbers DEF IInv, Indexed
  <2>2. primary # {} => lastSecondaryValue \in DOMAIN secondary
    BY DEF IInv, LastEntered, Indexed
  <2> QED BY <2>1, <2>2 DEF IInv, Typed, Indexed, TypeOK
<1>2. PageHoldsBoundary
  <2> SUFFICES ASSUME state = "ready", NEW key \in Values
               PROVE  /\ Landed(key) = {} => AllBelow(key)
                      /\ \A e \in Landed(key) : \E p \in Rows :
                           FirstFrom(p, key) /\ p <= e /\ \A f \in primary : f < e => f < p
    BY DEF PageHoldsBoundary
  <2>1. Built /\ key \in Nat
    BY BaseIs DEF IInv, Built, WrittenInOrder
  <2> QED BY <2>1, LandedIs, BoundaryFound
<1>3. SearchFinds
  <2> SUFFICES ASSUME NEW key \in Values, NEW e \in primary
               PROVE  LET page == {p \in Rows : PageStart(e) <= p /\ p <= e /\ column[p] = key}
                      IN  IF page = {} THEN BiSearch(e, key) = 0 ELSE BiSearch(e, key) \in page
    BY DEF SearchFinds
  <2> DEFINE page == {p \in Rows : PageStart(e) <= p /\ p <= e /\ column[p] = key}
  <2>1. Typed /\ key \in Nat
    BY BaseIs DEF IInv
  <2>2. e \in Rows /\ e \in Nat /\ e <= N /\ N \in Nat
    BY <2>1, Numbers
  <2>3. PageStart(e) \in 1 .. e
    BY <2>1, PageStartIs
  <2>4. \A p \in Rows : p \in Nat
    BY <2>1, Numbers
  <2>5. \A p : p \in page <=> p \in PageStart(e) .. e /\ column[p] = key
    BY <2>2, <2>3, <2>4 DEF Rows
  <2> HIDE DEF page
  <2>6. IF page = {} THEN BiSearch(e, key) = 0 ELSE BiSearch(e, key) \in page
    BY <2>1, <2>5, BiSearchIs
  <2> QED BY <2>6 DEF page
<1> QED BY <1>1, <1>2, <1>3 DEF WellFormed

\* The types hold, a lookup by value finds the page of the first row from the value
\* on, and the binary search on a page finds a value exactly if it is there, for
\* any column and any cut into pages (PagePlacer.cpp:109-133, StringReader.cpp:86).
THEOREM LookupsFind == Spec => []WellFormed
BY InvariantHolds, InvariantIsWellFormed, PTL

\* A range whose bounds are values of the column is exact over different values, but
\* for the last row alone, and right on one side where values repeat, for any
\* column, any predicate and any cut into pages (DataSource.cpp:215-304).
THEOREM RangesAreExact == Spec => []BoundsExact
<1>1. IInv => BoundsExact
  BY DEF IInv
<1> QED BY <1>1, InvariantHolds, PTL

\* A scan throws only for an equality with a value without a successor in the column
\* (DataSource.cpp:273-287, StringUtil.cpp:82).
THEOREM ThrowsForEqualOnly == Spec => []ThrowsWithoutSuccessor
<1>1. IInv => ThrowsWithoutSuccessor
  BY DEF IInv
<1> QED BY <1>1, InvariantHolds, PTL

=============================================================================
