-------------------------- MODULE TripStoreProofs ---------------------------
(***************************************************************************)
(* Machine-checked proofs about TripStore, for every set of requests, item *)
(* identities, payloads and days and every number of attempts.             *)
(***************************************************************************)
EXTENDS TripStore, FiniteSetTheorems, TLAPS

(* The image of a finite set under a function is finite.                   *)
LEMMA ImageFinite ==
    ASSUME NEW S, IsFiniteSet(S), NEW f, f = [x \in S |-> f[x]], NEW T,
           T = {f[x] : x \in S}
    PROVE  IsFiniteSet(T)
<1>1. f \in Surjection(S, T)
  BY DEF Surjection
<1> QED
  BY <1>1, FS_Surjection

(* The index of a row is a natural number, and it grows with the position: *)
(* reading ORDER BY position and numbering densely keeps the order.        *)
LEMMA IndexNat ==
    ASSUME NEW R, R \in SUBSET Row, IsFiniteSet(R), NEW r \in R
    PROVE  Index(r, R) \in Nat
<1> DEFINE B == {s \in R : s.pos < r.pos}
<1>1. IsFiniteSet(B)
  BY FS_Subset
<1> QED
  BY <1>1, FS_CardinalityType DEF Index

LEMMA IndexIncreasing ==
    ASSUME NEW R, R \in SUBSET Row, IsFiniteSet(R),
           NEW r \in R, NEW s \in R, r.pos < s.pos
    PROVE  Index(r, R) < Index(s, R)
<1> DEFINE B(x) == {t \in R : t.pos < x.pos}
<1>1. IsFiniteSet(B(s)) /\ IsFiniteSet(B(r))
  BY FS_Subset
<1>2. B(r) \in SUBSET B(s) /\ r \in B(s) /\ r \notin B(r)
  BY DEF Row
<1>3. /\ Cardinality(B(r)) <= Cardinality(B(s))
      /\ Cardinality(B(s)) = Cardinality(B(r)) => B(s) = B(r)
  BY <1>1, <1>2, FS_Subset
<1>4. Cardinality(B(r)) \in Nat /\ Cardinality(B(s)) \in Nat
  BY <1>1, FS_CardinalityType
<1> QED
  BY <1>2, <1>3, <1>4 DEF Index

(* What _replace_items stores is a finite set of rows, and a list if the   *)
(* items it was given are one.                                             *)
LEMMA RenumberRows ==
    ASSUME NEW R, R \in SUBSET Row, IsFiniteSet(R)
    PROVE  /\ Renumber(R) \in SUBSET Row
           /\ IsFiniteSet(Renumber(R))
           /\ IsList(R) => IsList(Renumber(R))
<1> DEFINE g == [r \in R |-> [r EXCEPT !.pos = Index(r, R)]]
<1>1. \A r \in R : Index(r, R) \in Nat
  BY IndexNat
<1>2. \A r \in R : /\ g[r] \in Row
                   /\ g[r].uid = r.uid
                   /\ g[r].pos = Index(r, R)
                   /\ g[r].val = r.val
  BY <1>1 DEF Row
<1>3. Renumber(R) = {g[r] : r \in R}
  BY DEF Renumber
<1>4. IsFiniteSet(Renumber(R))
  <2> HIDE DEF g
  <2>1. g = [r \in R |-> g[r]]
    BY DEF g
  <2> QED
    BY <1>3, <2>1, ImageFinite
<1>5. ASSUME IsList(R) PROVE IsList(Renumber(R))
  <2>1. SUFFICES ASSUME NEW r \in R, NEW s \in R,
                        g[r].uid = g[s].uid \/ g[r].pos = g[s].pos
                 PROVE  r = s
    BY <1>3 DEF IsList
  <2>2. CASE r.uid = s.uid
    BY <1>5, <2>2 DEF IsList
  <2>3. CASE Index(r, R) = Index(s, R)
    <3>1. ~(r.pos < s.pos) /\ ~(s.pos < r.pos)
      BY <1>1, <2>3, IndexIncreasing
    <3>2. r.pos = s.pos
      BY <3>1 DEF Row
    <3> QED
      BY <1>5, <3>2 DEF IsList
  <2> QED
    BY <1>2, <2>1, <2>2, <2>3
<1> QED
  BY <1>2, <1>3, <1>4, <1>5

(* The direct insert: the new row's position is free once the slot is open.*)
LEMMA InsertRowRows ==
    ASSUME NEW R, R \in SUBSET Row, IsFiniteSet(R),
           NEW u \in Uids \ UidsOf(R), NEW v \in Payloads,
           NEW N \in InsertRows(R, u, v)
    PROVE  /\ N \in SUBSET Row
           /\ IsFiniteSet(N)
           /\ IsList(R) => IsList(N)
<1>1. PICK k \in 0..Cardinality(R) :
         \E q \in RowPositionForIndex(R, k) : N = InsertRow(R, u, v, q)
  BY DEF InsertRows
<1>2. PICK q \in RowPositionForIndex(R, k) : N = InsertRow(R, u, v, q)
  BY <1>1
<1>3. q \in Nat
  BY <1>2 DEF RowPositionForIndex, Row
<1> DEFINE g == [r \in R |-> IF r.pos >= q THEN [r EXCEPT !.pos = @ + 1] ELSE r]
           n == [uid |-> u, pos |-> q, val |-> v]
<1>4. \A r \in R : /\ g[r] \in Row
                   /\ g[r].uid = r.uid
                   /\ g[r].pos = IF r.pos >= q THEN r.pos + 1 ELSE r.pos
  BY <1>3 DEF Row
<1>5. N = {g[r] : r \in R} \union {n}
  BY <1>2 DEF InsertRow, ShiftFrom
<1>6. n \in Row /\ n.uid = u /\ n.pos = q
  BY <1>3 DEF Row
<1>7. IsFiniteSet(N)
  <2> HIDE DEF g, n
  <2>1. g = [r \in R |-> g[r]]
    BY DEF g
  <2>2. IsFiniteSet({g[r] : r \in R})
    BY <2>1, ImageFinite
  <2> QED
    BY <1>5, <2>2, FS_AddElement
<1>8. ASSUME IsList(R) PROVE IsList(N)
  <2>1. \A r \in R : g[r].pos # q /\ g[r].uid # u
    BY <1>3, <1>4 DEF Row, UidsOf
  <2>2. ASSUME NEW r \in R, NEW s \in R,
               g[r].uid = g[s].uid \/ g[r].pos = g[s].pos
        PROVE  r = s
    <3>1. r.uid = s.uid \/ r.pos = s.pos
      BY <1>3, <1>4, <2>2 DEF Row
    <3> QED
      BY <1>8, <3>1 DEF IsList
  <2> HIDE DEF g, n
  <2> QED
    BY <1>5, <1>6, <2>1, <2>2 DEF IsList
<1> QED
  <2> HIDE DEF g, n
  <2>1. N \in SUBSET Row
    BY <1>4, <1>5, <1>6
  <2> QED
    BY <2>1, <1>7, <1>8

LEMMA RemoveRowRows ==
    ASSUME NEW R, R \in SUBSET Row, IsFiniteSet(R), NEW u
    PROVE  /\ RemoveRow(R, u) \in SUBSET Row
           /\ IsFiniteSet(RemoveRow(R, u))
           /\ IsList(R) => IsList(RemoveRow(R, u))
<1>1. RemoveRow(R, u) \in SUBSET R
  BY DEF RemoveRow
<1>2. IsFiniteSet(RemoveRow(R, u))
  BY <1>1, FS_Subset
<1> QED
  BY <1>1, <1>2 DEF IsList

LEMMA WriteRowRows ==
    ASSUME NEW R, R \in SUBSET Row, IsFiniteSet(R), NEW u, NEW v \in Payloads
    PROVE  /\ WriteRow(R, u, v) \in SUBSET Row
           /\ IsFiniteSet(WriteRow(R, u, v))
           /\ IsList(R) => IsList(WriteRow(R, u, v))
<1> DEFINE g == [r \in R |-> IF r.uid = u THEN [r EXCEPT !.val = v] ELSE r]
<1>1. \A r \in R : g[r] \in Row /\ g[r].uid = r.uid /\ g[r].pos = r.pos
  BY DEF Row
<1>2. WriteRow(R, u, v) = {g[r] : r \in R}
  BY DEF WriteRow
<1> HIDE DEF g
<1>3. g = [r \in R |-> g[r]]
  BY DEF g
<1>4. IsFiniteSet(WriteRow(R, u, v))
  BY <1>2, <1>3, ImageFinite
<1>5. IsList(R) => IsList(WriteRow(R, u, v))
  BY <1>1, <1>2 DEF IsList
<1> QED
  BY <1>1, <1>2, <1>4, <1>5

LEMMA ReorderedRows ==
    ASSUME NEW R, R \in SUBSET Row, IsFiniteSet(R), NEW N \in Reordered(R)
    PROVE  /\ N \in SUBSET Row
           /\ IsFiniteSet(N)
           /\ IsList(R) => IsList(N)
<1> DEFINE places == 0..(Cardinality(R) - 1)
<1>0. Cardinality(R) \in Nat
  BY FS_CardinalityType
<1>1. PICK f \in [UidsOf(R) -> places] :
         /\ \A u, w \in UidsOf(R) : f[u] = f[w] => u = w
         /\ N = {[r EXCEPT !.pos = f[r.uid]] : r \in R}
  BY DEF Reordered
<1> DEFINE g == [r \in R |-> [r EXCEPT !.pos = f[r.uid]]]
<1>2. \A r \in R : r.uid \in UidsOf(R) /\ f[r.uid] \in Nat
  BY <1>0, <1>1 DEF UidsOf
<1>3. \A r \in R : g[r] \in Row /\ g[r].uid = r.uid /\ g[r].pos = f[r.uid]
  BY <1>2 DEF Row
<1>4. N = {g[r] : r \in R}
  BY <1>1
<1> HIDE DEF g
<1>5. g = [r \in R |-> g[r]]
  BY DEF g
<1>6. IsFiniteSet(N)
  BY <1>4, <1>5, ImageFinite
<1>7. IsList(R) => IsList(N)
  BY <1>1, <1>2, <1>3, <1>4 DEF IsList
<1> QED
  BY <1>3, <1>4, <1>6, <1>7

(* Whatever a structural save does to the list it loaded, it stores a list.*)
LEMMA MutationsRows ==
    ASSUME NEW R, R \in SUBSET Row, IsFiniteSet(R), NEW N \in Mutations(R)
    PROVE  /\ N \in SUBSET Row
           /\ IsFiniteSet(N)
           /\ IsList(R) => IsList(N)
<1>1. CASE N \in Inserted(R)
  <2>1. PICK u \in Uids \ UidsOf(R), v \in Payloads :
           \E M \in InsertRows(R, u, v) : N = Renumber(M)
    BY <1>1 DEF Inserted
  <2>2. PICK M \in InsertRows(R, u, v) : N = Renumber(M)
    BY <2>1
  <2> QED
    BY <2>2, InsertRowRows, RenumberRows
<1>2. CASE N \in Removed(R)
  <2>1. PICK u \in UidsOf(R) : N = Renumber(RemoveRow(R, u))
    BY <1>2 DEF Removed
  <2> QED
    BY <2>1, RemoveRowRows, RenumberRows
<1>3. CASE N \in Rewritten(R)
  <2>1. PICK u \in UidsOf(R), v \in Payloads : N = Renumber(WriteRow(R, u, v))
    BY <1>3 DEF Rewritten
  <2> QED
    BY <2>1, WriteRowRows, RenumberRows
<1>4. CASE N \in Reordered(R)
  BY <1>4, ReorderedRows
<1> QED
  BY <1>1, <1>2, <1>3, <1>4 DEF Mutations
-----------------------------------------------------------------------------
(* Lists that differ in their gaps only.  Positions mean nothing but their *)
(* order, so what an operation makes of a list and of the same list        *)
(* without gaps is the same list again.                                    *)

(* A row as _replace_items would write it.                                 *)
Dense(r, R) == [r EXCEPT !.pos = Index(r, R)]

(* What a one-to-one function makes of a finite set has as many elements.  *)
LEMMA ImageCount ==
    ASSUME NEW S, IsFiniteSet(S), NEW f, f = [x \in S |-> f[x]],
           \A x, y \in S : f[x] = f[y] => x = y, NEW T, T = {f[x] : x \in S}
    PROVE  IsFiniteSet(T) /\ Cardinality(T) = Cardinality(S)
<1>1. f \in Surjection(S, T)
  BY DEF Surjection
<1>2. f \in [S -> T]
  BY <1>1 DEF Surjection
<1>3. f \in Injection(S, T)
  BY <1>2 DEF Injection, IsInjective
<1> QED
  BY <1>1, <1>3, FS_Surjection

(* Two sets of rows with the same items in the same order are numbered     *)
(* alike.                                                                  *)
LEMMA SameOrder ==
    ASSUME NEW I, IsFiniteSet(I), NEW a \in [I -> Row], NEW b \in [I -> Row],
           \A i, j \in I : a[i].uid = a[j].uid => i = j,
           \A i \in I : b[i].uid = a[i].uid /\ b[i].val = a[i].val,
           \A i, j \in I : a[i].pos < a[j].pos <=> b[i].pos < b[j].pos,
           NEW A, \A r : r \in A <=> \E i \in I : r = a[i],
           NEW B, \A r : r \in B <=> \E i \in I : r = b[i]
    PROVE  /\ \A i \in I : Index(a[i], A) = Index(b[i], B)
           /\ Renumber(A) = Renumber(B)
<1>1. \A i \in I : Index(a[i], A) = Index(b[i], B)
  <2> SUFFICES ASSUME NEW k \in I PROVE Index(a[k], A) = Index(b[k], B)
    OBVIOUS
  <2>1. /\ \A i, j \in I : a[i] = a[j] => i = j
        /\ \A i, j \in I : b[i] = b[j] => i = j
    OBVIOUS
  <2> DEFINE J == {i \in I : a[i].pos < a[k].pos}
  <2>2. J = {i \in I : a[i].pos < a[k].pos} /\ J = {i \in I : b[i].pos < b[k].pos}
    OBVIOUS
  <2> HIDE DEF J
  <2>3. IsFiniteSet(J)
    BY <2>2, FS_Subset
  <2>4. Index(a[k], A) = Cardinality(J)
    <3> DEFINE T == {s \in A : s.pos < a[k].pos}
               f == [i \in J |-> a[i]]
    <3>1. T = {f[i] : i \in J} /\ f = [i \in J |-> f[i]]
      BY <2>2
    <3>2. \A i, j \in J : f[i] = f[j] => i = j
      BY <2>1, <2>2
    <3> HIDE DEF T, f
    <3>3. Cardinality(T) = Cardinality(J)
      BY <2>3, <3>1, <3>2, ImageCount
    <3> QED
      BY <3>3 DEF Index, T
  <2>5. Index(b[k], B) = Cardinality(J)
    <3> DEFINE T == {s \in B : s.pos < b[k].pos}
               f == [i \in J |-> b[i]]
    <3>1. T = {f[i] : i \in J} /\ f = [i \in J |-> f[i]]
      BY <2>2
    <3>2. \A i, j \in J : f[i] = f[j] => i = j
      BY <2>1, <2>2
    <3> HIDE DEF T, f
    <3>3. Cardinality(T) = Cardinality(J)
      BY <2>3, <3>1, <3>2, ImageCount
    <3> QED
      BY <3>3 DEF Index, T
  <2> QED
    BY <2>4, <2>5
<1>2. ASSUME NEW i \in I PROVE Dense(a[i], A) = Dense(b[i], B)
  <2>1. a[i] \in Row /\ b[i] \in Row /\ Index(a[i], A) = Index(b[i], B)
    BY <1>1
  <2> QED
    BY <2>1 DEF Row, Dense
<1>3. /\ Renumber(A) = {Dense(r, A) : r \in A}
      /\ Renumber(B) = {Dense(r, B) : r \in B}
  BY DEF Renumber, Dense
<1>4. /\ \A x : x \in Renumber(A) <=> \E i \in I : x = Dense(a[i], A)
      /\ \A x : x \in Renumber(B) <=> \E i \in I : x = Dense(b[i], B)
  BY <1>3
<1>5. Renumber(A) = Renumber(B)
  <2> SUFFICES ASSUME NEW x PROVE x \in Renumber(A) <=> x \in Renumber(B)
    OBVIOUS
  <2>1. x \in Renumber(A) <=> \E i \in I : x = Dense(a[i], A)
    BY ONLY <1>4
  <2>2. x \in Renumber(B) <=> \E i \in I : x = Dense(b[i], B)
    BY ONLY <1>4
  <2> QED
    BY ONLY <1>2, <2>1, <2>2
<1> QED
  BY <1>1, <1>5

LEMMA DenseRow ==
    ASSUME NEW R, R \in SUBSET Row, IsFiniteSet(R), NEW r \in R
    PROVE  /\ Dense(r, R) \in Row
           /\ Dense(r, R).uid = r.uid
           /\ Dense(r, R).val = r.val
           /\ Dense(r, R).pos = Index(r, R)
<1>1. Index(r, R) \in Nat
  BY IndexNat
<1> QED
  BY <1>1 DEF Dense, Row

LEMMA DenseOrder ==
    ASSUME NEW R, R \in SUBSET Row, IsFiniteSet(R), NEW r \in R, NEW s \in R
    PROVE  r.pos < s.pos <=> Index(r, R) < Index(s, R)
<1>1. Index(r, R) \in Nat /\ Index(s, R) \in Nat /\ r.pos \in Nat /\ s.pos \in Nat
  BY IndexNat DEF Row
<1>2. r.pos < s.pos => Index(r, R) < Index(s, R)
  BY IndexIncreasing
<1>3. s.pos < r.pos => Index(s, R) < Index(r, R)
  BY IndexIncreasing
<1>4. r.pos = s.pos => Index(r, R) = Index(s, R)
  BY DEF Index
<1> QED
  BY <1>1, <1>2, <1>3, <1>4

(* Numbering densely keeps the items, their number and their order, and    *)
(* once is enough.                                                         *)
LEMMA RenumberAgain ==
    ASSUME NEW R, R \in SUBSET Row, IsFiniteSet(R), IsList(R)
    PROVE  /\ \A r \in R : Index(Dense(r, R), Renumber(R)) = Index(r, R)
           /\ Renumber(Renumber(R)) = Renumber(R)
           /\ UidsOf(Renumber(R)) = UidsOf(R)
           /\ Cardinality(Renumber(R)) = Cardinality(R)
<1> DEFINE a == [r \in R |-> r]
           b == [r \in R |-> Dense(r, R)]
<1>1. a \in [R -> Row] /\ b \in [R -> Row]
  BY DenseRow
<1>2. \A r \in R : /\ a[r] = r /\ b[r] = Dense(r, R)
                   /\ b[r].uid = r.uid /\ b[r].val = r.val /\ b[r].pos = Index(r, R)
  BY DenseRow
<1>3. R = {a[r] : r \in R} /\ Renumber(R) = {b[r] : r \in R}
  BY DEF Renumber, Dense
<1>4. \A r, s \in R : r.uid = s.uid => r = s
  BY DEF IsList
<1>5. \A r, s \in R : a[r].pos < a[s].pos <=> b[r].pos < b[s].pos
  BY <1>2, DenseOrder
<1> HIDE DEF a, b
<1>6. /\ \A r \in R : Index(a[r], R) = Index(b[r], Renumber(R))
      /\ Renumber(R) = Renumber(Renumber(R))
  <2>1. \A r, s \in R : a[r].uid = a[s].uid => r = s
    BY <1>2, <1>4
  <2>2. \A r \in R : b[r].uid = a[r].uid /\ b[r].val = a[r].val
    BY <1>2
  <2> DEFINE A == {a[r] : r \in R}
             D == {b[r] : r \in R}
  <2>3. A = R /\ D = Renumber(R)
    BY <1>3
  <2>4. /\ \A x : x \in A <=> \E r \in R : x = a[r]
        /\ \A x : x \in D <=> \E r \in R : x = b[r]
    OBVIOUS
  <2> HIDE DEF A, D
  <2>5. /\ \A r \in R : Index(a[r], A) = Index(b[r], D)
        /\ Renumber(A) = Renumber(D)
    BY <1>1, <1>5, <2>1, <2>2, <2>4, SameOrder
  <2> QED
    BY <2>3, <2>5
<1>7. UidsOf(Renumber(R)) = UidsOf(R)
  BY <1>2, <1>3 DEF UidsOf
<1>8. b = [r \in R |-> b[r]] /\ \A r, s \in R : b[r] = b[s] => r = s
  BY <1>1, <1>2, <1>4
<1>9. Cardinality(Renumber(R)) = Cardinality(R)
  BY <1>3, <1>8, ImageCount
<1> QED
  BY <1>2, <1>6, <1>7, <1>9

LEMMA RemoveSame ==
    ASSUME NEW R, R \in SUBSET Row, IsFiniteSet(R), IsList(R), NEW u
    PROVE  Renumber(RemoveRow(R, u)) = Renumber(RemoveRow(Renumber(R), u))
<1> DEFINE I == RemoveRow(R, u)
           a == [r \in I |-> r]
           b == [r \in I |-> Dense(r, R)]
<1>0. I \in SUBSET R /\ IsFiniteSet(I)
  BY FS_Subset DEF RemoveRow
<1>1. a \in [I -> Row] /\ b \in [I -> Row]
  BY <1>0, DenseRow
<1>2. \A r \in I : /\ a[r] = r /\ b[r] = Dense(r, R)
                   /\ b[r].uid = r.uid /\ b[r].val = r.val /\ b[r].pos = Index(r, R)
  BY <1>0, DenseRow
<1>3. I = {a[r] : r \in I}
  OBVIOUS
<1>4. RemoveRow(Renumber(R), u) = {b[r] : r \in I}
  <2>1. Renumber(R) = {Dense(r, R) : r \in R}
    BY DEF Renumber, Dense
  <2>2. \A r \in R : Dense(r, R).uid = r.uid
    BY DenseRow
  <2> QED
    BY <2>1, <2>2 DEF RemoveRow
<1>5. \A r, s \in I : r.uid = s.uid => r = s
  BY <1>0 DEF IsList
<1>6. \A r, s \in I : a[r].pos < a[s].pos <=> b[r].pos < b[s].pos
  BY <1>0, <1>2, DenseOrder
<1> HIDE DEF a, b, I
<1>7. Renumber(I) = Renumber(RemoveRow(Renumber(R), u))
  BY <1>0, <1>1, <1>2, <1>3, <1>4, <1>5, <1>6, SameOrder
<1> QED
  BY <1>7 DEF I

LEMMA WriteSame ==
    ASSUME NEW R, R \in SUBSET Row, IsFiniteSet(R), IsList(R), NEW u, NEW v \in Payloads
    PROVE  Renumber(WriteRow(R, u, v)) = Renumber(WriteRow(Renumber(R), u, v))
<1> DEFINE w(r) == IF r.uid = u THEN [r EXCEPT !.val = v] ELSE r
           a == [r \in R |-> w(r)]
           b == [r \in R |-> w(Dense(r, R))]
<1>1. \A r \in Row : /\ w(r) \in Row /\ w(r).uid = r.uid /\ w(r).pos = r.pos
                     /\ w(r).val = IF r.uid = u THEN v ELSE r.val
  BY DEF Row
<1>2. WriteRow(R, u, v) = {a[r] : r \in R}
  BY DEF WriteRow
<1>3. WriteRow(Renumber(R), u, v) = {b[r] : r \in R}
  BY DEF WriteRow, Renumber, Dense
<1> HIDE DEF w
<1>4. a \in [R -> Row] /\ b \in [R -> Row]
  BY <1>1, DenseRow
<1>5. \A r \in R : /\ a[r].uid = r.uid /\ a[r].pos = r.pos
                   /\ b[r].uid = a[r].uid /\ b[r].val = a[r].val /\ b[r].pos = Index(r, R)
  BY <1>1, DenseRow
<1>6. \A r, s \in R : a[r].pos < a[s].pos <=> b[r].pos < b[s].pos
  BY <1>5, DenseOrder
<1> HIDE DEF a, b
<1>7. \A r, s \in R : a[r].uid = a[s].uid => r = s
  BY <1>5 DEF IsList
<1>8. \A r \in R : b[r].uid = a[r].uid /\ b[r].val = a[r].val
  BY <1>5
<1> DEFINE A == WriteRow(R, u, v)
           B == WriteRow(Renumber(R), u, v)
<1>9. A = {a[r] : r \in R} /\ B = {b[r] : r \in R}
  BY <1>2, <1>3
<1> HIDE DEF A, B
<1>10. Renumber(A) = Renumber(B)
  BY <1>4, <1>6, <1>7, <1>8, <1>9, SameOrder
<1> QED
  BY <1>10 DEF A, B

(* The place for an index: before the same rows in both lists.             *)
LEMMA PlaceSame ==
    ASSUME NEW R, R \in SUBSET Row, IsFiniteSet(R), IsList(R), NEW k \in Nat,
           NEW q \in RowPositionForIndex(R, k)
    PROVE  /\ q \in Nat
           /\ \E m \in RowPositionForIndex(Renumber(R), k) :
                 m \in Nat /\ \A r \in R : r.pos < q <=> Index(r, R) < m
<1> DEFINE D == Renumber(R)
           there == {r \in R : Index(r, R) = k}
           last == {r \in R : \A s \in R : s.pos <= r.pos}
           thereD == {r \in D : Index(r, D) = k}
           lastD == {r \in D : \A s \in D : s.pos <= r.pos}
<1>1. D = {Dense(r, R) : r \in R}
  BY DEF Renumber, Dense
<1>2. \A r \in R : Dense(r, R).pos = Index(r, R) /\ Index(Dense(r, R), D) = Index(r, R)
  BY DenseRow, RenumberAgain
<1>3. \A r \in R : Index(r, R) \in Nat /\ r.pos \in Nat
  BY IndexNat DEF Row
<1>4. /\ RowPositionForIndex(R, k) = IF there # {} THEN {r.pos : r \in there}
                                     ELSE IF R = {} THEN {0} ELSE {r.pos + 1 : r \in last}
      /\ RowPositionForIndex(D, k) = IF thereD # {} THEN {r.pos : r \in thereD}
                                     ELSE IF D = {} THEN {0} ELSE {r.pos + 1 : r \in lastD}
  BY DEF RowPositionForIndex
<1>5. \A r \in R : r \in there <=> Dense(r, R) \in thereD
  BY <1>1, <1>2
<1> HIDE DEF D
<1>6. CASE there # {}
  <2>1. PICK t \in there : q = t.pos
    BY <1>4, <1>6
  <2>2. Dense(t, R) \in thereD /\ t \in R
    BY <1>5, <2>1
  <2>3. Index(t, R) \in RowPositionForIndex(D, k)
    BY <1>2, <1>4, <2>2
  <2>4. \A r \in R : r.pos < q <=> Index(r, R) < Index(t, R)
    BY <2>1, <2>2, DenseOrder
  <2> QED
    BY <1>3, <2>1, <2>2, <2>3, <2>4 DEF D
<1>7. CASE there = {} /\ R = {}
  <2>1. q = 0 /\ D = {} /\ thereD = {}
    BY <1>1, <1>4, <1>7
  <2> QED
    BY <1>4, <1>7, <2>1 DEF D
<1>8. CASE there = {} /\ R # {}
  <2>1. PICK t \in last : q = t.pos + 1
    BY <1>4, <1>8
  <2>2. D # {} /\ thereD = {}
    BY <1>1, <1>5, <1>8
  <2>3. \A r \in R : Index(r, R) <= Index(t, R)
    <3> SUFFICES ASSUME NEW r \in R PROVE Index(r, R) <= Index(t, R)
      OBVIOUS
    <3>1. ~(t.pos < r.pos)
      BY <1>3, <2>1
    <3>2. ~(Index(t, R) < Index(r, R))
      BY <2>1, <3>1, DenseOrder
    <3> QED
      BY <1>3, <2>1, <3>2
  <2>4. Dense(t, R) \in lastD
    BY <1>1, <1>2, <2>1, <2>3
  <2>5. Index(t, R) + 1 \in RowPositionForIndex(D, k)
    BY <1>2, <1>4, <2>1, <2>2, <2>4
  <2>6. \A r \in R : r.pos < q /\ Index(r, R) < Index(t, R) + 1
    BY <1>3, <2>1, <2>3
  <2> QED
    BY <1>3, <2>1, <2>5, <2>6 DEF D
<1> QED
  BY <1>6, <1>7, <1>8

LEMMA InsertSame ==
    ASSUME NEW R, R \in SUBSET Row, IsFiniteSet(R), IsList(R),
           NEW u \in Uids \ UidsOf(R), NEW v \in Payloads, NEW N \in InsertRows(R, u, v)
    PROVE  \E M \in InsertRows(Renumber(R), u, v) : Renumber(N) = Renumber(M)
<1>1. PICK k \in 0..Cardinality(R) :
         \E q \in RowPositionForIndex(R, k) : N = InsertRow(R, u, v, q)
  BY DEF InsertRows
<1>2. PICK q \in RowPositionForIndex(R, k) : N = InsertRow(R, u, v, q)
  BY <1>1
<1>3. k \in Nat
  BY <1>1
<1>4. q \in Nat
  BY <1>2, <1>3, PlaceSame
<1>5. PICK m \in RowPositionForIndex(Renumber(R), k) :
         m \in Nat /\ \A r \in R : r.pos < q <=> Index(r, R) < m
  BY <1>2, <1>3, PlaceSame
<1> DEFINE M == InsertRow(Renumber(R), u, v, m)
<1>6. M \in InsertRows(Renumber(R), u, v)
  <2>1. k \in 0..Cardinality(Renumber(R))
    BY <1>1, RenumberAgain
  <2> QED
    BY <1>5, <2>1 DEF InsertRows
<1> DEFINE up(r, p) == IF r.pos >= p THEN [r EXCEPT !.pos = @ + 1] ELSE r
           n == [uid |-> u, pos |-> q, val |-> v]
           d == [uid |-> u, pos |-> m, val |-> v]
           I == R \union {n}
           a == [r \in I |-> IF r = n THEN n ELSE up(r, q)]
           b == [r \in I |-> IF r = n THEN d ELSE up(Dense(r, R), m)]
<1>7. \A p \in Nat, r \in Row :
         /\ up(r, p) \in Row /\ up(r, p).uid = r.uid /\ up(r, p).val = r.val
         /\ up(r, p).pos = IF r.pos >= p THEN r.pos + 1 ELSE r.pos
  BY DEF Row
<1>8. /\ n \in Row /\ n.uid = u /\ n.pos = q /\ n.val = v
      /\ d \in Row /\ d.uid = u /\ d.pos = m /\ d.val = v
  BY <1>4, <1>5 DEF Row
<1>9. n \notin R /\ \A r \in R : r.uid # u
  BY <1>8 DEF UidsOf
<1>10. /\ \A r \in R : a[r] = up(r, q) /\ b[r] = up(Dense(r, R), m)
       /\ a[n] = n /\ b[n] = d
  BY <1>9
<1>11. N = {a[i] : i \in I}
  <2>1. N = {up(r, q) : r \in R} \union {n}
    BY <1>2 DEF InsertRow, ShiftFrom
  <2> HIDE DEF up, n, a
  <2> QED
    BY <1>10, <2>1
<1>12. M = {b[i] : i \in I}
  <2>1. M = {up(r, m) : r \in Renumber(R)} \union {d}
    BY DEF InsertRow, ShiftFrom
  <2>2. Renumber(R) = {Dense(r, R) : r \in R}
    BY DEF Renumber, Dense
  <2> HIDE DEF up, n, d, b
  <2> QED
    BY <1>10, <2>1, <2>2
<1> HIDE DEF up, n, d, a, b, M
<1>13. \A r \in R : r \in Row /\ Dense(r, R) \in Row /\ r.pos \in Nat /\ Index(r, R) \in Nat
                    /\ Dense(r, R).uid = r.uid /\ Dense(r, R).val = r.val
                    /\ Dense(r, R).pos = Index(r, R)
  BY DenseRow, IndexNat DEF Row
<1>14. \A r \in R : /\ a[r] \in Row /\ b[r] \in Row
                    /\ a[r].uid = r.uid /\ b[r].uid = r.uid /\ b[r].val = a[r].val
                    /\ a[r].pos = IF r.pos >= q THEN r.pos + 1 ELSE r.pos
                    /\ b[r].pos = IF Index(r, R) >= m THEN Index(r, R) + 1 ELSE Index(r, R)
  BY <1>4, <1>5, <1>7, <1>10, <1>13
<1>15. a \in [I -> Row] /\ b \in [I -> Row]
  <2>1. \A i \in I : a[i] \in Row /\ b[i] \in Row
    BY <1>8, <1>10, <1>14
  <2> QED
    BY <2>1 DEF a, b
<1>16. \A i, j \in I : a[i].uid = a[j].uid => i = j
  BY <1>8, <1>9, <1>10, <1>14 DEF IsList
<1>17. \A i \in I : b[i].uid = a[i].uid /\ b[i].val = a[i].val
  BY <1>8, <1>10, <1>14
<1>18. \A i, j \in I : a[i].pos < a[j].pos <=> b[i].pos < b[j].pos
  <2>1. ASSUME NEW r \in R, NEW s \in R PROVE a[r].pos < a[s].pos <=> b[r].pos < b[s].pos
    <3>1. r.pos < s.pos <=> Index(r, R) < Index(s, R)
      BY DenseOrder
    <3>2. s.pos < r.pos <=> Index(s, R) < Index(r, R)
      BY DenseOrder
    <3>3. (r.pos < q <=> Index(r, R) < m) /\ (s.pos < q <=> Index(s, R) < m)
      BY <1>5
    <3> QED
      BY <1>4, <1>5, <1>13, <1>14, <3>1, <3>2, <3>3
  <2>2. ASSUME NEW r \in R PROVE /\ a[r].pos < a[n].pos <=> b[r].pos < b[n].pos
                                 /\ a[n].pos < a[r].pos <=> b[n].pos < b[r].pos
    <3>1. r.pos < q <=> Index(r, R) < m
      BY <1>5
    <3> QED
      BY <1>4, <1>5, <1>8, <1>10, <1>13, <1>14, <3>1
  <2>3. ~(a[n].pos < a[n].pos) /\ ~(b[n].pos < b[n].pos)
    BY <1>4, <1>5, <1>8, <1>10
  <2> QED
    BY <2>1, <2>2, <2>3
<1>19. IsFiniteSet(I)
  BY FS_AddElement
<1> HIDE DEF I
<1>20. Renumber(N) = Renumber(M)
  BY <1>11, <1>12, <1>15, <1>16, <1>17, <1>18, <1>19, SameOrder
<1> QED
  BY <1>6, <1>20

LEMMA ReorderSame ==
    ASSUME NEW R, R \in SUBSET Row, IsFiniteSet(R), IsList(R), NEW N \in Reordered(R)
    PROVE  Renumber(N) \in Reordered(Renumber(R))
<1>0. Cardinality(R) \in Nat
  BY FS_CardinalityType
<1>1. PICK f \in [UidsOf(R) -> 0..(Cardinality(R) - 1)] :
         /\ \A u, w \in UidsOf(R) : f[u] = f[w] => u = w
         /\ N = {[r EXCEPT !.pos = f[r.uid]] : r \in R}
  BY DEF Reordered
<1> DEFINE g == [r \in R |-> [r EXCEPT !.pos = f[r.uid]]]
<1>2. \A r \in R : r.uid \in UidsOf(R) /\ f[r.uid] \in Nat
  BY <1>0, <1>1 DEF UidsOf
<1>3. \A r \in R : g[r] \in Row /\ g[r].uid = r.uid /\ g[r].val = r.val
  BY <1>2 DEF Row
<1>4. N = {g[r] : r \in R}
  BY <1>1
<1>5. N \in SUBSET Row /\ IsFiniteSet(N) /\ IsList(N)
  BY ReorderedRows
<1>6. g = [r \in R |-> g[r]]
  OBVIOUS
<1> HIDE DEF g
<1>7. Cardinality(N) = Cardinality(R)
  <2>1. \A r, s \in R : g[r] = g[s] => r = s
    BY <1>3 DEF IsList
  <2> QED
    BY <1>4, <1>6, <2>1, ImageCount
<1>8. \A x \in N : Index(x, N) \in 0..(Cardinality(R) - 1)
  <2> SUFFICES ASSUME NEW x \in N PROVE Index(x, N) \in 0..(Cardinality(R) - 1)
    OBVIOUS
  <2> DEFINE B == {s \in N : s.pos < x.pos}
  <2>1. B \in SUBSET N /\ x \notin B
    BY <1>5 DEF Row
  <2>2. Cardinality(B) <= Cardinality(N) /\ Cardinality(N) # Cardinality(B)
    BY <1>5, <2>1, FS_Subset
  <2>3. Index(x, N) \in Nat /\ Index(x, N) = Cardinality(B)
    BY <1>5, IndexNat DEF Index
  <2> QED
    BY <1>0, <1>7, <2>2, <2>3
<1> DEFINE row(w) == CHOOSE x \in N : x.uid = w
           h == [w \in UidsOf(R) |-> Index(row(w), N)]
<1>9. \A r \in R : row(r.uid) = g[r]
  <2> SUFFICES ASSUME NEW r \in R PROVE row(r.uid) = g[r]
    OBVIOUS
  <2>1. g[r] \in N /\ g[r].uid = r.uid
    BY <1>3, <1>4
  <2>2. row(r.uid) \in N /\ row(r.uid).uid = r.uid
    BY <2>1
  <2> HIDE DEF row
  <2> QED
    BY <1>5, <2>1, <2>2 DEF IsList
<1> HIDE DEF row
<1>10. \A w \in UidsOf(R) : \E r \in R : r.uid = w
  BY DEF UidsOf
<1>11. \A r \in R : h[r.uid] = Index(g[r], N)
  BY <1>2, <1>9
<1>12. h \in [UidsOf(R) -> 0..(Cardinality(R) - 1)]
  <2>1. \A w \in UidsOf(R) : Index(row(w), N) \in 0..(Cardinality(R) - 1)
    BY <1>4, <1>8, <1>9, <1>10
  <2> QED
    BY <2>1
<1>13. \A u, w \in UidsOf(R) : h[u] = h[w] => u = w
  <2> SUFFICES ASSUME NEW u \in UidsOf(R), NEW w \in UidsOf(R), h[u] = h[w] PROVE u = w
    OBVIOUS
  <2>0. PICK r \in R, s \in R : r.uid = u /\ s.uid = w
    BY <1>10
  <2>1. Index(g[r], N) = Index(g[s], N) /\ g[r] \in N /\ g[s] \in N
    BY <1>4, <1>11, <2>0
  <2>2. ~(g[r].pos < g[s].pos) /\ ~(g[s].pos < g[r].pos)
    <3>1. Index(g[r], N) \in Nat
      BY <1>5, <2>1, IndexNat
    <3> QED
      BY <1>5, <2>1, <3>1, DenseOrder
  <2>3. g[r].pos \in Nat /\ g[s].pos \in Nat
    BY <1>5, <2>1 DEF Row
  <2>4. g[r] = g[s]
    BY <1>5, <2>1, <2>2, <2>3 DEF IsList
  <2> QED
    BY <1>3, <2>0, <2>4
<1> HIDE DEF h
<1>14. Renumber(N) = {[x EXCEPT !.pos = h[x.uid]] : x \in Renumber(R)}
  <2> DEFINE put(x) == [x EXCEPT !.pos = h[x.uid]]
  <2>1. Renumber(N) = {Dense(x, N) : x \in N}
    BY DEF Renumber, Dense
  <2>2. Renumber(R) = {Dense(r, R) : r \in R}
    BY DEF Renumber, Dense
  <2>3. ASSUME NEW r \in R PROVE Dense(g[r], N) = put(Dense(r, R))
    <3>1. /\ Dense(r, R) \in Row /\ Dense(r, R).uid = r.uid /\ Dense(r, R).val = r.val
          /\ g[r] \in Row /\ g[r].uid = r.uid /\ g[r].val = r.val
          /\ h[r.uid] = Index(g[r], N)
      BY <1>3, <1>11, DenseRow
    <3>2. Dense(g[r], N) = [g[r] EXCEPT !.pos = h[r.uid]]
      BY <3>1 DEF Dense
    <3>3. put(Dense(r, R)) = [Dense(r, R) EXCEPT !.pos = h[r.uid]]
      BY <3>1
    <3> QED
      BY <3>1, <3>2, <3>3 DEF Row
  <2> HIDE DEF put
  <2>4. \A x : x \in Renumber(N) <=> \E r \in R : x = Dense(g[r], N)
    BY <1>4, <2>1
  <2>5. \A x : x \in {put(y) : y \in Renumber(R)} <=> \E r \in R : x = put(Dense(r, R))
    BY <2>2
  <2>6. Renumber(N) = {put(x) : x \in Renumber(R)}
    BY <2>3, <2>4, <2>5
  <2> QED
    BY <2>6 DEF put
<1>15. UidsOf(Renumber(R)) = UidsOf(R) /\ Cardinality(Renumber(R)) = Cardinality(R)
  BY RenumberAgain
<1> QED
  BY <1>12, <1>13, <1>14, <1>15 DEF Reordered

(* What a structural save makes of the list it loaded, it makes of the     *)
(* list without gaps.                                                      *)
LEMMA MutationsSame ==
    ASSUME NEW R, R \in SUBSET Row, IsFiniteSet(R), IsList(R), NEW N \in Mutations(R)
    PROVE  Renumber(N) \in Mutations(Renumber(R))
<1>0. UidsOf(Renumber(R)) = UidsOf(R)
  BY RenumberAgain
<1>1. CASE N \in Inserted(R)
  <2>1. PICK u \in Uids \ UidsOf(R), v \in Payloads :
           \E K \in InsertRows(R, u, v) : N = Renumber(K)
    BY <1>1 DEF Inserted
  <2>2. PICK K \in InsertRows(R, u, v) : N = Renumber(K)
    BY <2>1
  <2>3. Renumber(N) = Renumber(K)
    BY <2>2, InsertRowRows, RenumberAgain
  <2>4. PICK M \in InsertRows(Renumber(R), u, v) : Renumber(K) = Renumber(M)
    BY <2>2, InsertSame
  <2> QED
    BY <1>0, <2>3, <2>4 DEF Mutations, Inserted
<1>2. CASE N \in Removed(R)
  <2>1. PICK u \in UidsOf(R) : N = Renumber(RemoveRow(R, u))
    BY <1>2 DEF Removed
  <2>2. Renumber(N) = Renumber(RemoveRow(R, u))
    BY <2>1, RemoveRowRows, RenumberAgain
  <2> QED
    BY <1>0, <2>2, RemoveSame DEF Mutations, Removed
<1>3. CASE N \in Rewritten(R)
  <2>1. PICK u \in UidsOf(R), v \in Payloads : N = Renumber(WriteRow(R, u, v))
    BY <1>3 DEF Rewritten
  <2>2. Renumber(N) = Renumber(WriteRow(R, u, v))
    BY <2>1, WriteRowRows, RenumberAgain
  <2> QED
    BY <1>0, <2>2, WriteSame DEF Mutations, Rewritten
<1>4. CASE N \in Reordered(R)
  BY <1>4, ReorderSame DEF Mutations
<1> QED
  BY <1>1, <1>2, <1>3, <1>4 DEF Mutations
-----------------------------------------------------------------------------
LEMMA InitIInv == Init => IInv
<1> SUFFICES ASSUME Init PROVE IInv
  OBVIOUS
<1> USE StoreAssumption DEF Init
<1>0. Blank \in Metas
  BY DEF Metas, Blank
<1>1. TypeOK
  <2>0. live \in BOOLEAN /\ back \in BOOLEAN
    OBVIOUS
  <2>1. /\ id \in RowIds /\ version \in Nat /\ life \in Nat \ {0}
        /\ rows \in SUBSET Row /\ IsFiniteSet(rows) /\ meta \in Metas
    BY <1>0, FS_EmptySet
  <2>2. /\ pc \in [Requests -> {"idle", "load", "half", "loaded"}]
        /\ attempt \in [Requests -> 0..(Attempts - 1)]
        /\ rid \in [Requests -> RowIds]
        /\ ver \in [Requests -> Nat]
        /\ of \in [Requests -> Nat]
    OBVIOUS
  <2>3. /\ snapMeta \in [Requests -> Metas]
        /\ snap \in [Requests -> SUBSET Row]
        /\ \A p \in Requests : IsFiniteSet(snap[p])
    BY <1>0, FS_EmptySet
  <2> QED
    BY <2>0, <2>1, <2>2, <2>3 DEF TypeOK
<1>2. RowsAreAList /\ ReadsPast /\ SnapshotCurrent
  BY DEF RowsAreAList, IsList, ReadsPast, SnapshotCurrent
<1> QED
  BY <1>1, <1>2 DEF IInv

(* Every step keeps the types: the rows a save stores are rows.            *)
LEMMA NextTypeOK == TypeOK /\ [Next]_vars => TypeOK'
<1> SUFFICES ASSUME TypeOK, [Next]_vars PROVE TypeOK'
  OBVIOUS
<1> USE StoreAssumption DEF TypeOK, Goto, trip, reads
<1>0. Blank \in Metas
  BY DEF Blank, Metas
<1>1. ASSUME NEW p \in Requests, Start(p) PROVE TypeOK'
  BY <1>1 DEF Start
<1>2. ASSUME NEW p \in Requests, LoadRow(p) PROVE TypeOK'
  BY <1>2 DEF LoadRow
<1>3. ASSUME NEW p \in Requests, LoadItems(p) PROVE TypeOK'
  BY <1>3, FS_EmptySet DEF LoadItems
<1>4. ASSUME NEW p \in Requests, Save(p) PROVE TypeOK'
  <2>1. rows' \in SUBSET Row /\ IsFiniteSet(rows')
    BY <1>4, MutationsRows DEF Save
  <2> QED
    BY <1>0, <1>4, <2>1, FS_EmptySet DEF Save, Bump, Done, Forget
<1>5. ASSUME NEW p \in Requests, Conflict(p) PROVE TypeOK'
  BY <1>0, <1>5, FS_EmptySet DEF Conflict, Forget
<1>6. ASSUME NEW p \in Requests, SaveIntoNewRow(p) PROVE TypeOK'
  <2>1. rows' \in SUBSET Row /\ IsFiniteSet(rows')
    BY <1>6, MutationsRows DEF SaveIntoNewRow
  <2> QED
    BY <1>0, <1>6, <2>1, FS_EmptySet DEF SaveIntoNewRow, Done, Forget
<1>7. ASSUME NEW p \in Requests, PatchDayMeta(p) PROVE TypeOK'
  <2>1. meta' \in Metas
    BY <1>7 DEF PatchDayMeta, Metas
  <2> QED
    BY <1>0, <1>7, <2>1, FS_EmptySet DEF PatchDayMeta, Bump, Done, Forget
<1>8. ASSUME NEW p \in Requests, EditUnderCas(p) PROVE TypeOK'
  <2>1. rows' \in SUBSET Row /\ IsFiniteSet(rows')
    BY <1>8, WriteRowRows DEF EditUnderCas
  <2> QED
    BY <1>0, <1>8, <2>1, FS_EmptySet DEF EditUnderCas, Bump, Done, Forget
<1>9. ASSUME UpdateSegmentFields \/ DeleteRow \/ InsertItem PROVE TypeOK'
  <2>1. rows' \in SUBSET Row /\ IsFiniteSet(rows')
    BY <1>9, WriteRowRows, RemoveRowRows, InsertRowRows
       DEF UpdateSegmentFields, DeleteRow, InsertItem
  <2>2. CASE UpdateSegmentFields
    BY <2>1, <2>2 DEF UpdateSegmentFields, Bump
  <2>3. CASE DeleteRow
    BY <2>1, <2>3 DEF DeleteRow, Bump
  <2>4. CASE InsertItem
    BY <2>1, <2>4 DEF InsertItem, Bump
  <2> QED
    BY <1>9, <2>2, <2>3, <2>4
<1>10. ASSUME CreateProject \/ DeleteProject PROVE TypeOK'
  <2>1. CASE CreateProject
    BY <1>0, <2>1, FS_EmptySet DEF CreateProject
  <2>2. CASE DeleteProject
    BY <2>2, FS_EmptySet DEF DeleteProject
  <2> QED
    BY <1>10, <2>1, <2>2
<1>11. CASE UNCHANGED vars
  BY <1>11 DEF vars
<1> QED
  BY <1>1, <1>2, <1>3, <1>4, <1>5, <1>6, <1>7, <1>8, <1>9, <1>10, <1>11
     DEF Next, Step, SaveStale, PatchStale

(* No step puts two rows in one place, in the trip or in what was read.    *)
LEMMA NextLists ==
    TypeOK /\ RowsAreAList /\ (\A p \in Requests : IsList(snap[p])) /\ [Next]_vars
        => RowsAreAList' /\ \A p \in Requests : IsList(snap'[p])
<1> SUFFICES ASSUME TypeOK, RowsAreAList, [Next]_vars,
                    \A p \in Requests : IsList(snap[p])
             PROVE  IsList(rows') /\ \A p \in Requests : IsList(snap'[p])
  BY DEF RowsAreAList
<1> USE DEF TypeOK, RowsAreAList, trip, reads
<1>0. IsList({})
  BY DEF IsList
<1>1. ASSUME NEW p \in Requests, Save(p) \/ SaveIntoNewRow(p)
      PROVE  IsList(rows') /\ \A q \in Requests : IsList(snap'[q])
  BY <1>0, <1>1, MutationsRows DEF Save, SaveIntoNewRow, Done, Forget
<1>2. ASSUME NEW p \in Requests, EditUnderCas(p)
      PROVE  IsList(rows') /\ \A q \in Requests : IsList(snap'[q])
  BY <1>0, <1>2, WriteRowRows DEF EditUnderCas, Done, Forget
<1>3. ASSUME NEW p \in Requests, Conflict(p) \/ PatchDayMeta(p)
      PROVE  IsList(rows') /\ \A q \in Requests : IsList(snap'[q])
  BY <1>0, <1>3 DEF Conflict, PatchDayMeta, Done, Forget
<1>4. ASSUME NEW p \in Requests, Start(p) \/ LoadRow(p) \/ LoadItems(p)
      PROVE  IsList(rows') /\ \A q \in Requests : IsList(snap'[q])
  BY <1>0, <1>4 DEF Start, LoadRow, LoadItems
<1>5. ASSUME UpdateSegmentFields \/ DeleteRow \/ InsertItem
      PROVE  IsList(rows') /\ \A q \in Requests : IsList(snap'[q])
  BY <1>5, WriteRowRows, RemoveRowRows, InsertRowRows
     DEF UpdateSegmentFields, DeleteRow, InsertItem
<1>6. ASSUME CreateProject \/ DeleteProject
      PROVE  IsList(rows') /\ \A q \in Requests : IsList(snap'[q])
  BY <1>0, <1>6 DEF CreateProject, DeleteProject
<1>7. CASE UNCHANGED vars
  BY <1>7 DEF vars
<1> QED
  BY <1>1, <1>2, <1>3, <1>4, <1>5, <1>6, <1>7
     DEF Next, Step, SaveStale, PatchStale

(* Every committed write moves lock_version past what any request that     *)
(* loaded before it holds, so a match means nothing was written since.     *)
LEMMA NextSnapshots ==
    IInv /\ [Next]_vars => ReadsPast' /\ SnapshotCurrent'
<1> SUFFICES ASSUME IInv, [Next]_vars PROVE ReadsPast' /\ SnapshotCurrent'
  OBVIOUS
<1>0. \A p \in Requests : IsList(snap'[p])
  BY NextLists DEF IInv, ReadsPast
<1> USE DEF IInv, TypeOK, ReadsPast, SnapshotCurrent, Goto, trip, reads
<1>1. ASSUME NEW p \in Requests, Start(p)
      PROVE  ReadsPast' /\ SnapshotCurrent'
  BY <1>0, <1>1 DEF Start
<1>2. ASSUME NEW p \in Requests, LoadRow(p)
      PROVE  ReadsPast' /\ SnapshotCurrent'
  BY <1>0, <1>2 DEF LoadRow
<1>3. ASSUME NEW p \in Requests, LoadItems(p)
      PROVE  ReadsPast' /\ SnapshotCurrent'
  BY <1>0, <1>3 DEF LoadItems
<1>4. ASSUME NEW p \in Requests, Save(p)
      PROVE  ReadsPast' /\ SnapshotCurrent'
  BY <1>0, <1>4 DEF Save, Bump, Done, Forget
<1>5. ASSUME NEW p \in Requests, Conflict(p)
      PROVE  ReadsPast' /\ SnapshotCurrent'
  BY <1>0, <1>5 DEF Conflict, Forget
<1>6. ASSUME NEW p \in Requests, SaveIntoNewRow(p)
      PROVE  ReadsPast' /\ SnapshotCurrent'
  BY <1>0, <1>6 DEF SaveIntoNewRow, Done, Forget
<1>7. ASSUME NEW p \in Requests, PatchDayMeta(p) \/ EditUnderCas(p)
      PROVE  ReadsPast' /\ SnapshotCurrent'
  BY <1>0, <1>7 DEF PatchDayMeta, EditUnderCas, Bump, Done, Forget
<1>8. ASSUME UpdateSegmentFields \/ DeleteRow \/ InsertItem
      PROVE  ReadsPast' /\ SnapshotCurrent'
  BY <1>0, <1>8 DEF UpdateSegmentFields, DeleteRow, InsertItem, Bump
<1>9. ASSUME CreateProject \/ DeleteProject
      PROVE  ReadsPast' /\ SnapshotCurrent'
  BY <1>0, <1>9 DEF CreateProject, DeleteProject
<1>10. CASE UNCHANGED vars
  BY <1>0, <1>10 DEF vars
<1> QED
  BY <1>1, <1>2, <1>3, <1>4, <1>5, <1>6, <1>7, <1>8, <1>9, <1>10
     DEF Next, Step, SaveStale, PatchStale

(* The invariant that carries the three results below.                     *)
THEOREM StoreInvariant == Spec => []IInv
<1>1. IInv /\ [Next]_vars => IInv'
  BY NextTypeOK, NextLists, NextSnapshots DEF IInv, ReadsPast
<1> QED
  BY <1>1, InitIInv, PTL DEF Spec

(* save_project, update_segment_fields, the direct inserts and deletes and *)
(* the metadata writes keep every stored and loaded value of its type.     *)
THEOREM StoreTypeCorrect == Spec => []TypeOK
  BY StoreInvariant, PTL DEF IInv

(* The timeline stays a list under any interleaving of structural saves    *)
(* with the direct inserts and deletes that leave gaps in the positions.   *)
THEOREM StoreRowsAreAList == Spec => []RowsAreAList
  BY StoreInvariant, PTL DEF IInv

(* The compare-and-swap of save_project and check_and_bump_lock_version    *)
(* detects every write made to the trip since it was loaded.               *)
THEOREM StoreSnapshotCurrent == Spec => []SnapshotCurrent
  BY StoreInvariant, PTL DEF IInv
-----------------------------------------------------------------------------
(* The refinement, for a trip that is not deleted.                         *)

(* A trip that cannot be deleted stays the one it was, and a request that  *)
(* has read one has read this one.                                         *)
OneLife == /\ live /\ life = 1
           /\ \A p \in Requests : pc[p] \in {"half", "loaded"} => of[p] = life

LEMMA NextOneLife ==
    ASSUME MaxDeletes = 0, IInv, OneLife, [Next]_vars
    PROVE  OneLife'
<1> USE DEF IInv, TypeOK, OneLife, Goto, trip, reads
<1>1. ASSUME NEW p \in Requests, Start(p) PROVE OneLife'
  BY <1>1 DEF Start
<1>2. ASSUME NEW p \in Requests, LoadRow(p) \/ LoadItems(p) PROVE OneLife'
  BY <1>2 DEF LoadRow, LoadItems
<1>3. ASSUME NEW p \in Requests, Save(p) PROVE OneLife'
  BY <1>3 DEF Save, Done, Forget
<1>4. ASSUME NEW p \in Requests, Conflict(p) PROVE OneLife'
  BY <1>4 DEF Conflict, Forget
<1>5. ASSUME NEW p \in Requests, PatchDayMeta(p) \/ EditUnderCas(p) PROVE OneLife'
  BY <1>5 DEF PatchDayMeta, EditUnderCas, Done, Forget
<1>6. ASSUME UpdateSegmentFields \/ DeleteRow \/ InsertItem PROVE OneLife'
  BY <1>6 DEF UpdateSegmentFields, DeleteRow, InsertItem
<1>7. ~CreateProject /\ ~DeleteProject /\ \A p \in Requests : ~SaveIntoNewRow(p)
  BY DEF CreateProject, DeleteProject, SaveIntoNewRow
<1>8. CASE UNCHANGED vars
  BY <1>8 DEF vars
<1> QED
  BY <1>1, <1>2, <1>3, <1>4, <1>5, <1>6, <1>7, <1>8
     DEF Next, Step, SaveStale, PatchStale

(* The abstract specification's operators are this module's.               *)
LEMMA AtomicMutations == \A R : Atomic!Mutations(R) = Mutations(R)
<1>1. \A R : Atomic!UidsOf(R) = UidsOf(R)
  BY DEF Atomic!UidsOf, UidsOf
<1>0. \A R : Atomic!Cardinality(R) = Cardinality(R)
  BY DEF Atomic!Cardinality, Cardinality
<1>2. \A r, R : Atomic!Index(r, R) = Index(r, R)
  BY <1>0 DEF Atomic!Index, Index
<1>3. \A R : Atomic!Renumber(R) = Renumber(R)
  BY <1>2 DEF Atomic!Renumber, Renumber
<1>4. \A R, k : Atomic!RowPositionForIndex(R, k) = RowPositionForIndex(R, k)
  BY <1>2 DEF Atomic!RowPositionForIndex, RowPositionForIndex
<1>5. \A R, u, v, q : Atomic!InsertRow(R, u, v, q) = InsertRow(R, u, v, q)
  BY DEF Atomic!InsertRow, InsertRow, Atomic!ShiftFrom, ShiftFrom
<1>6. \A R, u, v : Atomic!InsertRows(R, u, v) = InsertRows(R, u, v)
  BY <1>0, <1>4, <1>5 DEF Atomic!InsertRows, InsertRows
<1>7. \A R, u : Atomic!RemoveRow(R, u) = RemoveRow(R, u)
  BY DEF Atomic!RemoveRow, RemoveRow
<1>8. \A R, u, v : Atomic!WriteRow(R, u, v) = WriteRow(R, u, v)
  BY DEF Atomic!WriteRow, WriteRow
<1>9. \A R : Atomic!Inserted(R) = Inserted(R)
  BY <1>1, <1>3, <1>6 DEF Atomic!Inserted, Inserted
<1>10. \A R : Atomic!Removed(R) = Removed(R)
  BY <1>1, <1>3, <1>7 DEF Atomic!Removed, Removed
<1>11. \A R : Atomic!Rewritten(R) = Rewritten(R)
  BY <1>1, <1>3, <1>8 DEF Atomic!Rewritten, Rewritten
<1>12. \A R : Atomic!Reordered(R) = Reordered(R)
  BY <1>0, <1>1 DEF Atomic!Reordered, Reordered
<1> QED
  BY <1>9, <1>10, <1>11, <1>12 DEF Atomic!Mutations, Mutations

(* Every step of the store is a step of the atomic trip or leaves it as it *)
(* is.                                                                     *)
LEMMA StepSimulates ==
    ASSUME MaxDeletes = 0, IInv, OneLife, [Next]_vars
    PROVE  [Atomic!AtomicNext]_(Atomic!atomicVars)
<1> DEFINE list == Renumber(rows)
<1>0. rows \in SUBSET Row /\ IsFiniteSet(rows) /\ IsList(rows)
  BY DEF IInv, TypeOK, RowsAreAList
<1>a. ASSUME rows' = rows, meta' = meta PROVE [Atomic!AtomicNext]_(Atomic!atomicVars)
  BY <1>a DEF Atomic!atomicVars
<1>b. ASSUME Renumber(rows') \in Mutations(Renumber(rows)), meta' = meta
      PROVE  Atomic!AtomicNext
  BY <1>b, AtomicMutations DEF Atomic!AtomicNext, Atomic!ListChanged
<1>c. ASSUME NEW u \in UidsOf(rows), NEW v \in Payloads, rows' = WriteRow(rows, u, v)
      PROVE  Renumber(rows') \in Mutations(Renumber(rows))
  <2>1. Renumber(rows') = Renumber(WriteRow(Renumber(rows), u, v))
    BY <1>0, <1>c, WriteSame
  <2>2. u \in UidsOf(Renumber(rows))
    BY <1>0, RenumberAgain
  <2> QED
    BY <2>1, <2>2 DEF Mutations, Rewritten
<1>1. ASSUME NEW p \in Requests, Save(p) PROVE Atomic!AtomicNext
  <2>1. snap[p] = rows /\ snapMeta[p] = meta
    BY <1>1 DEF Save, SaveMatches, IInv, SnapshotCurrent, OneLife
  <2>2. rows' \in Mutations(rows) /\ meta' = meta
    BY <1>1, <2>1 DEF Save
  <2> QED
    BY <1>0, <1>b, <2>2, MutationsSame
<1>2. ASSUME NEW p \in Requests, PatchDayMeta(p) PROVE Atomic!AtomicNext
  <2>1. snapMeta[p] = meta
    BY <1>2 DEF PatchDayMeta, CasMatches, IInv, SnapshotCurrent, OneLife
  <2>2. rows' = rows /\ \E d \in Days, n \in DayNotes : meta' = [meta EXCEPT ![d] = n]
    BY <1>2, <2>1 DEF PatchDayMeta
  <2> QED
    BY <2>2 DEF Atomic!AtomicNext, Atomic!DayChanged
<1>3. ASSUME NEW p \in Requests, EditUnderCas(p) PROVE Atomic!AtomicNext
  <2>1. snap[p] = rows
    BY <1>3 DEF EditUnderCas, CasMatches, IInv, SnapshotCurrent, OneLife
  <2>2. meta' = meta /\ \E u \in UidsOf(rows), v \in Payloads : rows' = WriteRow(rows, u, v)
    BY <1>3, <2>1 DEF EditUnderCas
  <2> QED
    BY <1>b, <1>c, <2>2
<1>4. ASSUME UpdateSegmentFields PROVE Atomic!AtomicNext
  <2>1. meta' = meta /\ \E u \in UidsOf(rows), v \in Payloads : rows' = WriteRow(rows, u, v)
    BY <1>4 DEF UpdateSegmentFields
  <2> QED
    BY <1>b, <1>c, <2>1
<1>5. ASSUME DeleteRow PROVE Atomic!AtomicNext
  <2>1. PICK u \in UidsOf(rows) : rows' = RemoveRow(rows, u)
    BY <1>5 DEF DeleteRow
  <2>2. Renumber(rows') = Renumber(RemoveRow(Renumber(rows), u))
    BY <1>0, <2>1, RemoveSame
  <2>3. u \in UidsOf(Renumber(rows))
    BY <1>0, RenumberAgain
  <2>4. Renumber(rows') \in Mutations(Renumber(rows))
    BY <2>2, <2>3 DEF Mutations, Removed
  <2> QED
    BY <1>5, <1>b, <2>4 DEF DeleteRow
<1>6. ASSUME InsertItem PROVE Atomic!AtomicNext
  <2>1. PICK u \in Uids \ UidsOf(rows), v \in Payloads : rows' \in InsertRows(rows, u, v)
    BY <1>6 DEF InsertItem
  <2>2. PICK M \in InsertRows(Renumber(rows), u, v) : Renumber(rows') = Renumber(M)
    BY <1>0, <2>1, InsertSame
  <2>3. u \in Uids \ UidsOf(Renumber(rows))
    BY <1>0, RenumberAgain
  <2>4. Renumber(rows') \in Mutations(Renumber(rows))
    BY <2>2, <2>3 DEF Mutations, Inserted
  <2> QED
    BY <1>6, <1>b, <2>4 DEF InsertItem
<1>7. ASSUME NEW p \in Requests, Start(p) \/ LoadRow(p) \/ LoadItems(p) \/ Conflict(p)
      PROVE  rows' = rows /\ meta' = meta
  BY <1>7 DEF Start, LoadRow, LoadItems, Conflict, trip
<1>8. ~CreateProject /\ ~DeleteProject /\ \A p \in Requests : ~SaveIntoNewRow(p)
  BY DEF CreateProject, DeleteProject, SaveIntoNewRow, OneLife
<1>9. CASE UNCHANGED vars
  BY <1>a, <1>9 DEF vars, trip
<1> QED
  BY <1>a, <1>1, <1>2, <1>3, <1>4, <1>5, <1>6, <1>7, <1>8, <1>9
     DEF Next, Step, SaveStale, PatchStale

(* However many requests load, retry and save at once, every acknowledged  *)
(* write is one change made to the trip as it stood when it committed: the *)
(* store of lock_version, snapshots and gaps implements the atomic trip.   *)
THEOREM StoreImplementsAtomicTrip ==
    ASSUME MaxDeletes = 0
    PROVE  Spec => ImplementsAtomicTrip
<1>1. Init => IInv /\ OneLife
  BY InitIInv DEF Init, OneLife
<1>2. IInv /\ OneLife /\ [Next]_vars => IInv' /\ OneLife'
  BY NextTypeOK, NextLists, NextSnapshots, NextOneLife DEF IInv, ReadsPast
<1>3. Init => Atomic!AtomicInit
  BY StoreAssumption DEF Init, Atomic!AtomicInit, Renumber, Blank
<1>4. IInv /\ OneLife /\ [Next]_vars => [Atomic!AtomicNext]_(Atomic!atomicVars)
  BY StepSimulates
<1> QED
  BY <1>1, <1>2, <1>3, <1>4, PTL DEF Spec, ImplementsAtomicTrip, Atomic!AtomicSpec
=============================================================================
