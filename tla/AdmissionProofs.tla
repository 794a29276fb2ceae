-------------------------- MODULE AdmissionProofs --------------------------
(***************************************************************************)
(* Theorems of Admission, for any machine, caps, requests and pressures:   *)
(* what admission promises of memory, of the RAM ceiling, of the order of  *)
(* the lanes, of a provider's stop and of the launch budget.  The first    *)
(* part shows that the sums of the model are sums: what one lease more or  *)
(* less does to them.  A fold over a finite set is followed by taking a    *)
(* smallest subset on which the claim fails.                               *)
(***************************************************************************)
EXTENDS Admission, FiniteSetTheorems, TLAPS

(* The element the sum over a set takes first. *)
First(S) == CHOOSE x \in S : TRUE

(* f is the table of the sums of w over the subsets of S. *)
Sums(w, S, f) ==
    f = [T \in SUBSET S |-> IF T = {} THEN 0 ELSE w[First(T)] + f[T \ {First(T)}]]

-----------------------------------------------------------------------------
(* Sums over finite sets *)

LEMMA FirstIn == ASSUME NEW S, S # {} PROVE First(S) \in S
BY DEF First

(* Among the subsets of a finite set that are bad, one has no bad proper   *)
(* subset.                                                                 *)
LEMMA Smallest ==
    ASSUME NEW S, IsFiniteSet(S), NEW Bad, Bad \subseteq SUBSET S, Bad # {}
    PROVE  \E T \in Bad : \A U \in SUBSET T : U # T => U \notin Bad
<1> DEFINE Less == StrictSubsetOrdering(S)
<1>1. IsWellFoundedOn(Less, SUBSET S)
  BY FS_StrictSubsetOrderingWellFounded, FS_FiniteSubsetsOfFinite
<1>2. ASSUME NEW U \in SUBSET S, NEW T \in SUBSET S, U \subseteq T, U # T
      PROVE  <<U, T>> \in Less
  BY <1>2 DEF StrictSubsetOrdering
<1> HIDE DEF Less
<1>3. PICK T \in Bad : \A U \in Bad : ~(<<U, T>> \in Less)
  BY <1>1, WFMin
<1> QED
  BY <1>2, <1>3

(* Two tables agree wherever both are defined. *)
LEMMA SumsAgree ==
    ASSUME NEW w, NEW S, NEW R \in SUBSET S, IsFiniteSet(S), NEW f, NEW g,
           Sums(w, S, f), Sums(w, R, g)
    PROVE  \A T \in SUBSET R : f[T] = g[T]
<1> DEFINE Bad == {T \in SUBSET R : f[T] # g[T]}
<1>1. SUFFICES ASSUME Bad # {} PROVE FALSE
  OBVIOUS
<1>2. IsFiniteSet(R) /\ Bad \subseteq SUBSET R
  BY FS_Subset
<1> HIDE DEF Bad
<1>3. PICK T \in Bad : \A U \in SUBSET T : U # T => U \notin Bad
  BY <1>1, <1>2, Smallest
<1>4. T \in SUBSET R /\ T \in SUBSET S /\ f[T] # g[T]
  BY <1>3 DEF Bad
<1>5. T # {}
  BY <1>4 DEF Sums
<1>6. T \ {First(T)} \notin Bad
  BY <1>3, <1>5, FirstIn
<1>7. f[T \ {First(T)}] = g[T \ {First(T)}]
  BY <1>4, <1>6 DEF Bad
<1> QED
  BY <1>4, <1>5, <1>7 DEF Sums

(* A finite set has a table. *)
LEMMA SumsExist == ASSUME NEW w, NEW S, IsFiniteSet(S) PROVE \E f : Sums(w, S, f)
<1> DEFINE Bad == {T \in SUBSET S : ~\E f : Sums(w, T, f)}
<1>1. SUFFICES ASSUME Bad # {} PROVE FALSE
  OBVIOUS
<1>2. Bad \subseteq SUBSET S
  OBVIOUS
<1> HIDE DEF Bad
<1>P. PICK T \in Bad : \A U \in SUBSET T : U # T => U \notin Bad
  BY <1>1, <1>2, Smallest
<1> DEFINE table(U) == CHOOSE f : Sums(w, U, f)
           h == [U \in SUBSET T |->
                   IF U = {} THEN 0
                   ELSE w[First(U)] + table(U \ {First(U)})[U \ {First(U)}]]
<1>3. T \in SUBSET S /\ IsFiniteSet(T)
  BY <1>2, <1>P, FS_Subset
<1>4. ASSUME NEW U \in SUBSET T, U # T PROVE Sums(w, U, table(U)) /\ IsFiniteSet(U)
  BY <1>3, <1>4, <1>P, FS_Subset DEF Bad
<1> HIDE DEF table
<1>5. ASSUME NEW U \in SUBSET T, U # {}
      PROVE  table(U \ {First(U)})[U \ {First(U)}] = h[U \ {First(U)}]
  <2> DEFINE V == U \ {First(U)}
             X == V \ {First(V)}
  <2>1. V \in SUBSET T /\ V # T
    BY <1>5, FirstIn
  <2>2. Sums(w, V, table(V)) /\ IsFiniteSet(V)
    BY <1>4, <2>1
  <2>3. CASE V = {}
    BY <2>1, <2>2, <2>3 DEF Sums
  <2>4. CASE V # {}
    <3>1. X \in SUBSET T /\ X # T /\ X \in SUBSET V
      BY <2>1
    <3>2. Sums(w, X, table(X))
      BY <1>4, <3>1
    <3>3. table(V)[X] = table(X)[X]
      BY <2>2, <3>1, <3>2, SumsAgree
    <3>4. table(V)[V] = w[First(V)] + table(V)[X]
      BY <2>2, <2>4 DEF Sums
    <3>5. h[V] = w[First(V)] + table(X)[X]
      BY <2>1, <2>4
    <3> QED
      BY <3>3, <3>4, <3>5
  <2> QED
    BY <2>3, <2>4
<1>6. Sums(w, T, h)
  BY <1>5 DEF Sums
<1> QED
  BY <1>6, <1>P DEF Bad

(* The model's sum is what any table says of it. *)
LEMMA TotalIs ==
    ASSUME NEW w, NEW S, IsFiniteSet(S), NEW f, Sums(w, S, f)
    PROVE  Total(w, S) = f[S]
<1> DEFINE g == CHOOSE h : Sums(w, S, h)
<1>1. Sums(w, S, g)
  OBVIOUS
<1>2. Total(w, S) = g[S]
  BY <1>1 DEF Total, MapThenSumSet, MapThenFoldSet, Sums, First
<1> HIDE DEF g
<1> QED
  BY <1>1, <1>2, SumsAgree

LEMMA TotalUnfold ==
    ASSUME NEW w, NEW S, IsFiniteSet(S)
    PROVE  /\ S = {} => Total(w, S) = 0
           /\ S # {} => Total(w, S) = w[First(S)] + Total(w, S \ {First(S)})
<1>1. PICK f : Sums(w, S, f)
  BY SumsExist
<1>2. Total(w, S) = f[S]
  BY <1>1, TotalIs
<1>3. CASE S = {}
  BY <1>1, <1>2, <1>3 DEF Sums
<1>4. CASE S # {}
  <2> DEFINE R == S \ {First(S)}
  <2>1. R \in SUBSET S /\ IsFiniteSet(R)
    BY FS_Subset
  <2>2. PICK g : Sums(w, R, g)
    BY <2>1, SumsExist
  <2>3. Total(w, R) = g[R] /\ f[R] = g[R]
    BY <1>1, <2>1, <2>2, TotalIs, SumsAgree
  <2>4. f[S] = w[First(S)] + f[R]
    BY <1>1, <1>4 DEF Sums
  <2> QED
    BY <1>2, <1>4, <2>3, <2>4
<1> QED
  BY <1>3, <1>4

LEMMA TotalNat ==
    ASSUME NEW w, NEW S, IsFiniteSet(S), \A x \in S : w[x] \in Nat
    PROVE  Total(w, S) \in Nat
<1> DEFINE Bad == {T \in SUBSET S : Total(w, T) \notin Nat}
<1>1. SUFFICES ASSUME Bad # {} PROVE FALSE
  OBVIOUS
<1>P. Bad \subseteq SUBSET S
  OBVIOUS
<1> HIDE DEF Bad
<1>2. PICK T \in Bad : \A U \in SUBSET T : U # T => U \notin Bad
  BY <1>1, <1>P, Smallest
<1>3. T \in SUBSET S /\ IsFiniteSet(T) /\ Total(w, T) \notin Nat
  BY <1>2, FS_Subset DEF Bad
<1>4. T # {}
  <2>1. T = {} => Total(w, T) = 0
    BY <1>3, TotalUnfold
  <2> QED
    BY <1>3, <2>1
<1>5. First(T) \in T /\ T \ {First(T)} \in SUBSET T /\ T \ {First(T)} # T
  BY <1>4, FirstIn
<1>6. Total(w, T \ {First(T)}) \in Nat
  BY <1>2, <1>3, <1>5 DEF Bad
<1>7. Total(w, T) = w[First(T)] + Total(w, T \ {First(T)})
  BY <1>3, <1>4, TotalUnfold
<1> QED
  BY <1>3, <1>5, <1>6, <1>7

(* Any element may be taken out of the sum. *)
LEMMA TotalSplit ==
    ASSUME NEW w, NEW S, IsFiniteSet(S), \A x \in S : w[x] \in Nat, NEW x \in S
    PROVE  Total(w, S) = w[x] + Total(w, S \ {x})
<1> DEFINE Bad == {T \in SUBSET S : \E y \in T : Total(w, T) # w[y] + Total(w, T \ {y})}
<1>1. SUFFICES ASSUME Bad # {} PROVE FALSE
  BY <1>1
<1>P. Bad \subseteq SUBSET S
  OBVIOUS
<1> HIDE DEF Bad
<1>2. PICK T \in Bad : \A U \in SUBSET T : U # T => U \notin Bad
  BY <1>1, <1>P, Smallest
<1>3. T \in SUBSET S /\ IsFiniteSet(T)
  BY <1>P, <1>2, FS_Subset
<1>4. PICK y \in T : Total(w, T) # w[y] + Total(w, T \ {y})
  BY <1>2 DEF Bad
<1> DEFINE z == First(T)
<1>5. z \in T /\ Total(w, T) = w[z] + Total(w, T \ {z})
  BY <1>3, <1>4, FirstIn, TotalUnfold
<1> HIDE DEF z
<1>6. y # z
  BY <1>4, <1>5
<1> DEFINE R == (T \ {y}) \ {z}
<1>7. T \ {y} \notin Bad /\ T \ {z} \notin Bad /\ (T \ {z}) \ {y} = R
  BY <1>2, <1>4, <1>5
<1>8. Total(w, T \ {y}) = w[z] + Total(w, R)
  BY <1>3, <1>5, <1>6, <1>7 DEF Bad
<1>9. Total(w, T \ {z}) = w[y] + Total(w, R)
  BY <1>3, <1>4, <1>6, <1>7 DEF Bad
<1>10. IsFiniteSet(R) /\ R \in SUBSET S
  BY <1>3, FS_Subset
<1>11. Total(w, R) \in Nat /\ w[y] \in Nat /\ w[z] \in Nat
  BY <1>3, <1>4, <1>5, <1>10, TotalNat
<1> HIDE DEF R
<1> QED
  BY <1>4, <1>5, <1>8, <1>9, <1>11

(* Fewer or smaller summands have a smaller sum. *)
LEMMA TotalLeq ==
    ASSUME NEW v, NEW w, NEW S, IsFiniteSet(S), NEW R \in SUBSET S,
           \A x \in S : v[x] \in Nat, \A x \in R : w[x] \in Nat /\ w[x] <= v[x]
    PROVE  Total(w, R) <= Total(v, S)
<1> DEFINE Bad == {T \in SUBSET S : ~(Total(w, T \cap R) <= Total(v, T))}
<1>1. SUFFICES ASSUME Bad # {} PROVE FALSE
  <2>1. S \notin Bad /\ S \cap R = R
    BY <1>1
  <2> QED
    BY <2>1
<1>P. Bad \subseteq SUBSET S
  OBVIOUS
<1> HIDE DEF Bad
<1>2. PICK T \in Bad : \A U \in SUBSET T : U # T => U \notin Bad
  BY <1>1, <1>P, Smallest
<1>3. T \in SUBSET S /\ IsFiniteSet(T) /\ IsFiniteSet(T \cap R)
  BY <1>P, <1>2, FS_Subset
<1>4. T # {}
  <2>1. SUFFICES ASSUME T = {} PROVE FALSE
    OBVIOUS
  <2>2. T \cap R = {}
    BY <2>1
  <2>3. Total(w, T \cap R) = 0 /\ Total(v, T) = 0
    BY <1>3, <2>1, <2>2, TotalUnfold
  <2> QED
    BY <1>2, <2>3 DEF Bad
<1>5. PICK x \in T : TRUE
  BY <1>4
<1> DEFINE U == T \ {x}
<1>6. U \in SUBSET S /\ U \notin Bad /\ IsFiniteSet(U) /\ IsFiniteSet(U \cap R)
  BY <1>2, <1>3, <1>5, FS_Subset
<1>7. Total(w, U \cap R) <= Total(v, U)
  BY <1>6 DEF Bad
<1>8. Total(v, T) = v[x] + Total(v, U) /\ v[x] \in Nat
  BY <1>3, <1>5, TotalSplit
<1>9. Total(v, U) \in Nat /\ Total(w, U \cap R) \in Nat
  BY <1>6, TotalNat
<1>10. CASE x \in R
  <2>1. (T \cap R) \ {x} = U \cap R
    OBVIOUS
  <2>2. Total(w, T \cap R) = w[x] + Total(w, U \cap R)
    BY <1>3, <1>5, <1>10, <2>1, TotalSplit
  <2>3. w[x] \in Nat /\ w[x] <= v[x]
    BY <1>10
  <2> HIDE DEF U
  <2>4. Total(w, T \cap R) <= Total(v, T)
    BY <1>7, <1>8, <1>9, <2>2, <2>3
  <2> QED
    BY <1>2, <2>4 DEF Bad
<1>11. CASE x \notin R
  <2>1. T \cap R = U \cap R
    BY <1>11
  <2>3. Total(w, T \cap R) = Total(w, U \cap R)
    BY <2>1
  <2> HIDE DEF U
  <2>2. Total(w, T \cap R) <= Total(v, T)
    BY <1>7, <1>8, <1>9, <2>1, <2>3
  <2> QED
    BY <1>2, <2>2 DEF Bad
<1> QED
  BY <1>10, <1>11

(* The sum depends on the summands alone. *)
LEMMA TotalSame ==
    ASSUME NEW v, NEW w, NEW S, IsFiniteSet(S), \A x \in S : w[x] \in Nat /\ v[x] = w[x]
    PROVE  Total(v, S) = Total(w, S)
<1>1. /\ \A x \in S : v[x] \in Nat /\ v[x] <= w[x]
      /\ \A x \in S : w[x] \in Nat /\ w[x] <= v[x]
  OBVIOUS
<1>2. Total(v, S) <= Total(w, S) /\ Total(w, S) <= Total(v, S)
  BY <1>1, TotalLeq
<1>3. Total(v, S) \in Nat /\ Total(w, S) \in Nat
  BY <1>1, TotalNat
<1> QED
  BY <1>2, <1>3
-----------------------------------------------------------------------------
(* Bags of leases *)

(* What all leases of B were charged, at c[l] a lease. *)
Cost(c, B) == Total([l \in DOMAIN B |-> c[l] * B[l]], DOMAIN B)

Stock(B) == IsABag(B) /\ DOMAIN B \subseteq Leases /\ IsFiniteSet(DOMAIN B)

PartOf(C, B) == DOMAIN C \subseteq DOMAIN B /\ C = [l \in DOMAIN C |-> B[l]]

LEMMA CostNat ==
    ASSUME NEW B, Stock(B), NEW c \in [Leases -> Nat]
    PROVE  Cost(c, B) \in Nat
<1> DEFINE w == [l \in DOMAIN B |-> c[l] * B[l]]
<1>1. ASSUME NEW l \in DOMAIN B PROVE w[l] \in Nat
  <2>1. B[l] \in Nat /\ c[l] \in Nat
    BY DEF Stock, IsABag
  <2> QED
    BY <2>1
<1> HIDE DEF w
<1>2. Total(w, DOMAIN B) \in Nat
  BY <1>1, TotalNat DEF Stock
<1> QED
  BY <1>2 DEF Cost, w

(* One lease more. *)
LEMMA CostAdd ==
    ASSUME NEW B, Stock(B), NEW c \in [Leases -> Nat], NEW l \in Leases
    PROVE  Stock(B (+) One(l)) /\ Cost(c, B (+) One(l)) = Cost(c, B) + c[l]
<1> DEFINE C == B (+) One(l)
           S == DOMAIN B \cup {l}
           w == [x \in DOMAIN B |-> c[x] * B[x]]
           v == [x \in S |-> c[x] * C[x]]
<1>1. /\ IsABag(C) /\ DOMAIN C = S
      /\ \A x \in DOMAIN B \ {l} : C[x] = B[x]
      /\ C[l] = IF l \in DOMAIN B THEN B[l] + 1 ELSE 1
  BY DEF Stock, IsABag, One, (+), SetToBag
<1>2. IsFiniteSet(DOMAIN B) /\ IsFiniteSet(S) /\ IsFiniteSet(S \ {l})
  BY FS_AddElement, FS_RemoveElement DEF Stock
<1>3. Stock(C)
  BY <1>1, <1>2 DEF Stock
<1>4. \A x \in DOMAIN B : B[x] \in Nat /\ c[x] \in Nat
  BY DEF Stock, IsABag
<1>5. \A x \in S : C[x] \in Nat /\ c[x] \in Nat
  BY <1>1, <1>3 DEF Stock, IsABag
<1> HIDE DEF C
<1>6. \A x \in S : v[x] \in Nat
  BY <1>5
<1>7. \A x \in DOMAIN B : w[x] \in Nat
  BY <1>4
<1>8. \A x \in S \ {l} : v[x] = w[x] /\ w[x] \in Nat
  BY <1>1, <1>7
<1>9. v[l] = c[l] * C[l] /\ c[l] \in Nat
  BY <1>5
<1>10. Cost(c, C) = Total(v, S) /\ Cost(c, B) = Total(w, DOMAIN B)
  BY <1>1 DEF Cost
<1> HIDE DEF v
<1>11. Total(v, S) = v[l] + Total(v, S \ {l})
  BY <1>2, <1>6, TotalSplit
<1>12. l \in DOMAIN B => w[l] = c[l] * B[l] /\ B[l] \in Nat
  BY <1>4
<1> HIDE DEF w
<1>13. Total(v, S \ {l}) = Total(w, S \ {l}) /\ Total(w, S \ {l}) \in Nat
  BY <1>2, <1>8, TotalSame, TotalNat
<1>14. CASE l \in DOMAIN B
  <2>1. S = DOMAIN B
    BY <1>14
  <2>2. Total(w, DOMAIN B) = w[l] + Total(w, S \ {l})
    BY <1>2, <1>7, <1>14, <2>1, TotalSplit
  <2>3. v[l] = w[l] + c[l]
    <3>1. C[l] = B[l] + 1
      BY <1>1, <1>14
    <3>2. c[l] * (B[l] + 1) = c[l] * B[l] + c[l]
      BY <1>9, <1>12, <1>14
    <3> QED
      BY <1>9, <1>12, <1>14, <3>1, <3>2
  <2>4. w[l] \in Nat
    BY <1>7, <1>14
  <2> HIDE DEF S
  <2>5. Cost(c, C) = Cost(c, B) + c[l]
    BY <1>9, <1>10, <1>11, <1>13, <2>2, <2>3, <2>4
  <2> QED
    BY <1>3, <2>5 DEF C
<1>15. CASE l \notin DOMAIN B
  <2>1. S \ {l} = DOMAIN B
    BY <1>15
  <2>2. v[l] = c[l]
    BY <1>1, <1>9, <1>15
  <2>3. Total(w, S \ {l}) = Total(w, DOMAIN B)
    BY <2>1
  <2> HIDE DEF S
  <2>4. Cost(c, C) = Cost(c, B) + c[l]
    BY <1>9, <1>10, <1>11, <1>13, <2>2, <2>3
  <2> QED
    BY <1>3, <2>4 DEF C
<1> QED
  BY <1>14, <1>15

(* One lease less. *)
LEMMA CostRemove ==
    ASSUME NEW B, Stock(B), NEW c \in [Leases -> Nat], NEW l \in DOMAIN B
    PROVE  Stock(B (-) One(l)) /\ Cost(c, B) = Cost(c, B (-) One(l)) + c[l]
<1> DEFINE C == B (-) One(l)
<1>1. IsABag(C) /\ DOMAIN C \subseteq DOMAIN B
  BY DEF Stock, IsABag, One, (-), SetToBag
<1>2. Stock(C)
  BY <1>1, FS_Subset DEF Stock
<1>3. C (+) One(l) = B
  <2> DEFINE D == C (+) One(l)
  <2>1. B = [x \in DOMAIN B |-> B[x]] /\ \A x \in DOMAIN B : B[x] \in Nat /\ B[x] > 0
    BY DEF Stock, IsABag
  <2>2. /\ DOMAIN C = {x \in DOMAIN B : x = l => B[x] > 1}
        /\ \A x \in DOMAIN C : C[x] = IF x = l THEN B[x] - 1 ELSE B[x]
    BY <2>1 DEF One, (-), SetToBag
  <2> HIDE DEF C
  <2>3. D = [x \in DOMAIN C \cup {l} |-> (IF x \in DOMAIN C THEN C[x] ELSE 0)
                                         + (IF x \in {l} THEN 1 ELSE 0)]
    BY DEF One, (+), SetToBag
  <2>4. DOMAIN C \cup {l} = DOMAIN B
    BY <2>1, <2>2
  <2>5. ASSUME NEW x \in DOMAIN B PROVE D[x] = B[x]
    <3>1. CASE x = l
      BY <2>1, <2>2, <2>3, <2>4, <3>1
    <3>2. CASE x # l
      BY <2>1, <2>2, <2>3, <2>4, <3>2
    <3> QED
      BY <3>1, <3>2
  <2>6. D = [x \in DOMAIN B |-> D[x]]
    BY <2>3, <2>4
  <2> HIDE DEF D
  <2>7. D = B
    BY <2>1, <2>5, <2>6
  <2> QED
    BY <2>7 DEF D
<1>4. l \in Leases
  BY DEF Stock
<1> HIDE DEF C
<1>5. Cost(c, C (+) One(l)) = Cost(c, C) + c[l]
  BY <1>2, <1>4, CostAdd
<1>6. Cost(c, B) = Cost(c, C) + c[l]
  BY <1>3, <1>5
<1> QED
  BY <1>2, <1>6 DEF C

(* Some of the leases. *)
LEMMA CostPart ==
    ASSUME NEW B, Stock(B), NEW c \in [Leases -> Nat], NEW C, PartOf(C, B)
    PROVE  Stock(C) /\ Cost(c, C) <= Cost(c, B)
<1> DEFINE w == [x \in DOMAIN C |-> c[x] * C[x]]
           v == [x \in DOMAIN B |-> c[x] * B[x]]
<1>1. IsABag(C) /\ DOMAIN C \subseteq DOMAIN B
  BY DEF Stock, IsABag, PartOf
<1>2. Stock(C) /\ IsFiniteSet(DOMAIN B)
  BY <1>1, FS_Subset DEF Stock
<1>3. \A x \in DOMAIN B : B[x] \in Nat /\ c[x] \in Nat
  BY DEF Stock, IsABag
<1>4. \A x \in DOMAIN C : C[x] = B[x] /\ x \in DOMAIN B
  BY <1>1 DEF PartOf
<1>5. \A x \in DOMAIN B : v[x] \in Nat
  BY <1>3
<1>6. \A x \in DOMAIN C : w[x] = v[x]
  BY <1>4
<1> HIDE DEF v, w
<1>7. \A x \in DOMAIN C : w[x] \in Nat /\ w[x] <= v[x]
  BY <1>4, <1>5, <1>6
<1>8. Total(w, DOMAIN C) <= Total(v, DOMAIN B)
  BY <1>1, <1>2, <1>5, <1>7, TotalLeq
<1> QED
  BY <1>2, <1>8 DEF Cost, v, w
-----------------------------------------------------------------------------
(* The three measures *)

OneEach == [l \in Leases |-> 1]
MemEach == [l \in Leases |-> l.mem]

LEMMA LeaseTypes ==
    ASSUME NEW l \in Leases
    PROVE  l.acct \in Accounts /\ l.weight \in Positive /\ l.mem \in Positive
                /\ l.st \in LeaseStates
BY RequestAssumption DEF Leases

LEMMA Measures ==
    ASSUME NEW B, Stock(B)
    PROVE  Size(B) = Cost(OneEach, B) /\ TotalMem(B) = Cost(MemEach, B)
<1>1. DOMAIN B \subseteq Leases /\ B = [l \in DOMAIN B |-> B[l]]
  BY DEF Stock, IsABag
<1>2. \A l \in DOMAIN B : B[l] \in Nat
  BY DEF Stock, IsABag
<1>3. [l \in DOMAIN B |-> OneEach[l] * B[l]] = B
  <2>1. \A l \in DOMAIN B : OneEach[l] * B[l] = B[l]
    BY <1>1, <1>2 DEF OneEach
  <2> QED
    BY <1>1, <2>1
<1>4. [l \in DOMAIN B |-> MemEach[l] * B[l]] = [l \in DOMAIN B |-> l.mem * B[l]]
  BY <1>1 DEF MemEach
<1> QED
  BY <1>3, <1>4 DEF Size, TotalMem, Cost

LEMMA MeasureTypes == OneEach \in [Leases -> Nat] /\ MemEach \in [Leases -> Nat]
BY LeaseTypes DEF OneEach, MemEach, Positive

LEMMA StockNat ==
    ASSUME NEW B, Stock(B)
    PROVE  /\ Size(B) \in Nat /\ TotalMem(B) \in Nat
           /\ \A acct : SumWeight(B, acct) \in Nat
<1>1. Size(B) \in Nat /\ TotalMem(B) \in Nat
  BY Measures, MeasureTypes, CostNat
<1>2. ASSUME NEW acct PROVE SumWeight(B, acct) \in Nat
  <2> DEFINE w == [l \in DOMAIN B |-> l.weight * B[l]]
             S == {l \in DOMAIN B : l.acct = acct}
  <2>1. IsFiniteSet(S)
    BY FS_Subset DEF Stock
  <2>2. ASSUME NEW l \in S PROVE w[l] \in Nat
    <3>1. l.weight \in Nat /\ B[l] \in Nat
      BY LeaseTypes DEF Stock, IsABag, Positive
    <3> QED
      BY <3>1
  <2> HIDE DEF w
  <2>3. Total(w, S) \in Nat
    BY <2>1, <2>2, TotalNat
  <2> QED
    BY <2>3 DEF SumWeight, w
<1> QED
  BY <1>1, <1>2

LEMMA StockAdd ==
    ASSUME NEW B, Stock(B), NEW l \in Leases
    PROVE  /\ Stock(B (+) One(l))
           /\ Size(B (+) One(l)) = Size(B) + 1
           /\ TotalMem(B (+) One(l)) = TotalMem(B) + l.mem
<1>1. Stock(B (+) One(l))
  BY CostAdd, MeasureTypes
<1>2. OneEach[l] = 1 /\ MemEach[l] = l.mem
  BY DEF OneEach, MemEach
<1> QED
  BY <1>1, <1>2, Measures, MeasureTypes, CostAdd

LEMMA StockRemove ==
    ASSUME NEW B, Stock(B), NEW l \in DOMAIN B
    PROVE  /\ Stock(B (-) One(l)) /\ l \in Leases
           /\ Size(B) = Size(B (-) One(l)) + 1
           /\ TotalMem(B) = TotalMem(B (-) One(l)) + l.mem
<1>1. Stock(B (-) One(l))
  BY CostRemove, MeasureTypes
<1>2. l \in Leases
  BY DEF Stock
<1>3. OneEach[l] = 1 /\ MemEach[l] = l.mem
  BY <1>2 DEF OneEach, MemEach
<1> QED
  BY <1>1, <1>2, <1>3, Measures, MeasureTypes, CostRemove

LEMMA StockPart ==
    ASSUME NEW B, Stock(B), NEW C, PartOf(C, B)
    PROVE  Stock(C) /\ Size(C) <= Size(B) /\ TotalMem(C) <= TotalMem(B)
<1>1. Stock(C)
  BY CostPart, MeasureTypes
<1> QED
  BY <1>1, Measures, MeasureTypes, CostPart

(* A lease replaced by one of the same memory. *)
LEMMA StockMoved ==
    ASSUME Stock(leases), NEW l \in DOMAIN leases, NEW m \in Leases, m.mem = l.mem
    PROVE  /\ Stock(Moved(l, m)) /\ Size(Moved(l, m)) = Size(leases)
           /\ TotalMem(Moved(l, m)) = TotalMem(leases)
<1> DEFINE B == leases (-) One(l)
<1>1. /\ Stock(B) /\ l \in Leases
      /\ Size(leases) = Size(B) + 1 /\ TotalMem(leases) = TotalMem(B) + l.mem
  BY StockRemove
<1>2. Size(B) \in Nat /\ TotalMem(B) \in Nat
  BY <1>1, StockNat
<1> HIDE DEF B
<1>3. /\ Stock(B (+) One(m)) /\ Size(B (+) One(m)) = Size(B) + 1
      /\ TotalMem(B (+) One(m)) = TotalMem(B) + m.mem
  BY <1>1, StockAdd
<1> QED
  BY <1>1, <1>2, <1>3 DEF Moved, B

LEMMA Parts ==
    ASSUME NEW B
    PROVE  /\ PartOf(Pruned(B), B) /\ PartOf(Reclaimed(B), B)
           /\ \A states : PartOf(In(B, states), B)
BY DEF PartOf, Pruned, Reclaimed, In, Only

(* The terminal rows of the file. *)
Rows == {l \in Leases : l.st \in {"gone", "expired"}}

LEMMA RowsAdd ==
    ASSUME NEW E, IsABag(E), DOMAIN E \subseteq Rows, NEW B, IsABag(B), DOMAIN B \subseteq Rows
    PROVE  IsABag(E (+) B) /\ DOMAIN (E (+) B) \subseteq Rows
BY DEF IsABag, (+)

LEMMA RowsIn ==
    ASSUME NEW B, Stock(B), NEW states \in SUBSET {"gone", "expired"}
    PROVE  IsABag(In(B, states)) /\ DOMAIN In(B, states) \subseteq Rows
BY DEF IsABag, Stock, In, Only, Rows

LEMMA RowsOne ==
    ASSUME NEW l \in Rows
    PROVE  IsABag(One(l)) /\ DOMAIN One(l) \subseteq Rows
BY DEF IsABag, One, SetToBag

LEMMA RowsLess ==
    ASSUME NEW E, IsABag(E), DOMAIN E \subseteq Rows, NEW l
    PROVE  IsABag(E (-) One(l)) /\ DOMAIN (E (-) One(l)) \subseteq Rows
BY DEF IsABag, (-), One, SetToBag

-----------------------------------------------------------------------------
(* Ceilings and caps *)

LEMMA Ceilings ==
    ASSUME machine \in Machines
    PROVE  /\ machine.ram \in Nat /\ Headroom \in Nat
           /\ RawCeiling \in 1 .. HardCap /\ OperatingCap \in 1 .. RawCeiling
           /\ HardCap \in Nat
<1>1. /\ machine.ram \in Nat /\ machine.override \in Nat
      /\ Reserve \in Nat /\ Worst \in Positive /\ HardCap \in Positive
  BY MachineAssumption
<1>2. Headroom \in Nat
  BY <1>1 DEF Headroom, Greatest
<1>3. Headroom \div Worst \in Nat
  BY <1>1, <1>2 DEF Positive
<1>4. RawCeiling \in 1 .. HardCap
  BY <1>1, <1>3 DEF RawCeiling, Greatest, Least, Positive
<1>5. Tier \in Nat
  BY <1>1 DEF Tier
<1>6. OperatingCap \in 1 .. RawCeiling
  BY <1>1, <1>4, <1>5 DEF OperatingCap, Greatest, Least
<1> QED
  BY <1>1, <1>2, <1>4, <1>6 DEF Positive

LEMMA LaneTotals ==
    ASSUME machine \in Machines
    PROVE  /\ \A lane \in Lanes : LaneTotal(lane) \in 1 .. RawCeiling
           /\ LaneTotal("bulk") <= LaneTotal("normal")
           /\ LaneTotal("normal") <= LaneTotal("critical")
<1>1. RawCeiling \in Nat /\ OperatingCap \in 1 .. RawCeiling
  BY Ceilings
<1> QED
  BY <1>1 DEF LaneTotal, Lanes, Greatest, Least, BulkGlobalReserve, CriticalGlobalBorrow

-----------------------------------------------------------------------------
(* The invariant *)

AdmissionInv == TypeOK /\ IsFiniteSet(DOMAIN leases)

LEMMA Stocked ==
    ASSUME AdmissionInv
    PROVE  /\ Stock(leases) /\ machine \in Machines /\ cooling \subseteq Agents \cup Accounts
           /\ IsABag(ended) /\ DOMAIN ended \subseteq Rows
BY DEF AdmissionInv, TypeOK, Stock, Rows

LEMMA Initially == Init => AdmissionInv
<1> SUFFICES ASSUME Init PROVE AdmissionInv
  OBVIOUS
<1>1. DOMAIN leases = {} /\ IsABag(leases) /\ DOMAIN ended = {} /\ IsABag(ended)
  BY DEF Init, EmptyBag, SetToBag, IsABag
<1>2. IsFiniteSet(DOMAIN leases)
  BY <1>1, FS_EmptySet
<1>3. machine \in Machines /\ cooling = {}
  BY DEF Init
<1> QED
  BY <1>1, <1>2, <1>3, Ceilings DEF AdmissionInv, TypeOK

(* What the active leases B hold beyond what C holds. *)
Worse(B, C) == OverBudget(B) > OverBudget(C) \/ OverCeiling(B) > OverCeiling(C)

(* What a step must show of the invariant and of the two bounds. *)
Sound == AdmissionInv' /\ UNCHANGED machine /\ (Worse(leases', leases) => Reactivates)

LEMMA Kept ==
    ASSUME AdmissionInv, UNCHANGED machine, cooling' \subseteq Agents \cup Accounts,
           NEW B, leases' = B, Stock(B),
           NEW E, ended' = E, IsABag(E), DOMAIN E \subseteq Rows
    PROVE  AdmissionInv'
<1>1. RawCeiling' = RawCeiling /\ OperatingCap' = OperatingCap
  BY DEF Headroom, RawCeiling, OperatingCap, Tier
<1> QED
  BY <1>1 DEF AdmissionInv, TypeOK, Stock, Rows

(* Fewer leases, or less memory, are no worse. *)
LEMMA LessNotWorse ==
    ASSUME machine \in Machines, NEW B, Stock(B), NEW C, Stock(C),
           Size(B) <= Size(C), TotalMem(B) <= TotalMem(C)
    PROVE  ~Worse(B, C)
<1>1. /\ Size(B) \in Nat /\ TotalMem(B) \in Nat
      /\ Size(C) \in Nat /\ TotalMem(C) \in Nat
  BY StockNat
<1>2. Headroom \in Nat /\ RawCeiling \in Nat
  BY Ceilings
<1>3. OverBudget(B) <= OverBudget(C) /\ OverBudget(B) \in Nat /\ OverBudget(C) \in Nat
  BY <1>1, <1>2 DEF OverBudget, Greatest
<1>4. OverCeiling(B) <= OverCeiling(C) /\ OverCeiling(B) \in Nat /\ OverCeiling(C) \in Nat
  BY <1>1, <1>2 DEF OverCeiling, Greatest
<1> QED
  BY <1>3, <1>4 DEF Worse

(* Leases within the bounds are no worse than any. *)
LEMMA WithinNotWorse ==
    ASSUME machine \in Machines, NEW B, Stock(B), NEW C, Stock(C),
           Size(B) <= RawCeiling, machine.ram > 0 => TotalMem(B) <= Headroom
    PROVE  ~Worse(B, C)
<1>1. /\ Size(B) \in Nat /\ TotalMem(B) \in Nat
      /\ Size(C) \in Nat /\ TotalMem(C) \in Nat
  BY StockNat
<1>2. Headroom \in Nat /\ RawCeiling \in Nat /\ machine.ram \in Nat
  BY Ceilings
<1>3. OverBudget(B) = 0 /\ OverBudget(C) \in Nat
  BY <1>1, <1>2 DEF OverBudget, Greatest
<1>4. OverCeiling(B) = 0 /\ OverCeiling(C) \in Nat
  BY <1>1, <1>2 DEF OverCeiling, Greatest
<1> QED
  BY <1>3, <1>4 DEF Worse

LEMMA ConsideredPart ==
    ASSUME NEW r, NEW lane, NEW p
    PROVE  PartOf(Considered(r, lane, p), leases)
BY Parts DEF Considered

LEMMA SoundAcquire ==
    ASSUME AdmissionInv, NEW r \in Requests, NEW lane \in Lanes, NEW p, Acquire(r, lane, p)
    PROVE  Sound
<1> DEFINE C == Considered(r, lane, p)
           l == [acct |-> r.acct, weight |-> r.weight, mem |-> r.mem, st |-> "reserved"]
           dropped == IF Reclaims(r, lane, p) THEN {"gone", "expired"} ELSE {"expired"}
           E == ended (+) In(leases, dropped)
<1>1. Stock(leases) /\ machine \in Machines /\ cooling \subseteq Agents \cup Accounts
  BY Stocked
<1>2. Stock(C)
  BY <1>1, ConsideredPart, StockPart
<1>3. l \in Leases /\ l.mem = r.mem /\ r.mem \in Nat
  BY RequestAssumption DEF Leases, LeaseStates, Positive
<1>4. ~Full(C, r, lane, p) /\ leases' = C (+) One(l) /\ ended' = E
         /\ UNCHANGED <<machine, cooling>>
  BY DEF Acquire, Admitted
<1>5. IsABag(E) /\ DOMAIN E \subseteq Rows
  <2>1. dropped \in SUBSET {"gone", "expired"}
    OBVIOUS
  <2> HIDE DEF dropped
  <2> QED
    BY <1>1, <2>1, RowsIn, RowsAdd, Stocked
<1> HIDE DEF C, l, E, dropped
<1>6. /\ Stock(C (+) One(l)) /\ Size(C (+) One(l)) = Size(C) + 1
      /\ TotalMem(C (+) One(l)) = TotalMem(C) + r.mem
  BY <1>2, <1>3, StockAdd
<1>7. Size(C) \in Nat /\ TotalMem(C) \in Nat
  BY <1>2, StockNat
<1>8. Size(C (+) One(l)) <= RawCeiling
  <2>1. LaneTotal(lane) \in 1 .. RawCeiling /\ RawCeiling \in Nat
    BY <1>1, LaneTotals, Ceilings
  <2>2. Size(C) < LaneTotal(lane)
    BY <1>4, <1>7, <2>1 DEF Full
  <2> QED
    BY <1>6, <1>7, <2>1, <2>2
<1>9. machine.ram > 0 => TotalMem(C (+) One(l)) <= Headroom
  <2>1. Headroom \in Nat
    BY <1>1, Ceilings
  <2>2. machine.ram > 0 => ~(TotalMem(C) + r.mem > Headroom)
    BY <1>4 DEF Full, OverRam
  <2> QED
    BY <1>3, <1>6, <1>7, <2>1, <2>2
<1>10. ~Worse(leases', leases)
  BY <1>1, <1>4, <1>6, <1>8, <1>9, WithinNotWorse
<1>11. AdmissionInv'
  BY <1>1, <1>4, <1>5, <1>6, Kept
<1> QED
  BY <1>4, <1>10, <1>11 DEF Sound

(* What happens to one active lease. *)
LEMMA SoundLease ==
    ASSUME AdmissionInv, NEW l \in DOMAIN leases,
           \/ Spawn(l) \/ Die(l) \/ Outlive(l) \/ Release(l) \/ Retain(l)
           \/ \E acct \in Accounts : Rebind(l, acct)
    PROVE  Sound
<1>1. /\ Stock(leases) /\ cooling \subseteq Agents \cup Accounts /\ l \in Leases
      /\ machine \in Machines /\ IsABag(ended) /\ DOMAIN ended \subseteq Rows
  BY Stocked DEF Stock
<1>2. Size(leases) \in Nat /\ TotalMem(leases) \in Nat
  BY <1>1, StockNat
<1>3. ASSUME NEW m \in Leases, m.mem = l.mem, leases' = Moved(l, m),
             UNCHANGED <<machine, ended, cooling>>
      PROVE  Sound
  <2>1. Stock(Moved(l, m)) /\ Size(Moved(l, m)) <= Size(leases)
            /\ TotalMem(Moved(l, m)) <= TotalMem(leases)
    BY <1>1, <1>2, <1>3, StockMoved
  <2>2. ~Worse(leases', leases)
    BY <1>1, <1>3, <2>1, LessNotWorse
  <2>3. AdmissionInv'
    BY <1>1, <1>3, <2>1, Kept
  <2> QED
    BY <1>3, <2>2, <2>3 DEF Sound
<1>4. ASSUME NEW st \in LeaseStates, Becomes(l, st) PROVE Sound
  <2>1. [l EXCEPT !.st = st] \in Leases /\ [l EXCEPT !.st = st].mem = l.mem
    BY <1>1 DEF Leases
  <2> QED
    BY <1>3, <1>4, <2>1 DEF Becomes
<1>5. CASE Spawn(l) \/ Die(l) \/ Outlive(l) \/ Retain(l)
  BY <1>4, <1>5 DEF Spawn, Die, Outlive, Retain, LeaseStates
<1>6. CASE Release(l)
  <2> DEFINE B == leases (-) One(l)
             row == [l EXCEPT !.st = "gone"]
  <2>1. Stock(B) /\ Size(leases) = Size(B) + 1 /\ TotalMem(leases) = TotalMem(B) + l.mem
    BY <1>1, StockRemove
  <2>2. l.mem \in Nat
    BY <1>1, LeaseTypes DEF Positive
  <2>3. Size(B) \in Nat /\ TotalMem(B) \in Nat
    BY <2>1, StockNat
  <2>4. leases' = B /\ UNCHANGED <<machine, cooling>>
    BY <1>6 DEF Release
  <2>5. row \in Rows
    BY <1>1 DEF Rows, Leases, LeaseStates
  <2>6. ended' = ended \/ ended' = ended (+) One(row)
    BY <1>6 DEF Release
  <2> HIDE DEF B, row
  <2>7. IsABag(ended') /\ DOMAIN ended' \subseteq Rows
    BY <1>1, <2>5, <2>6, RowsOne, RowsAdd
  <2>8. Size(B) <= Size(leases) /\ TotalMem(B) <= TotalMem(leases)
    BY <2>1, <2>2, <2>3
  <2>9. ~Worse(leases', leases)
    BY <1>1, <2>1, <2>4, <2>8, LessNotWorse
  <2>10. AdmissionInv'
    BY <1>1, <2>1, <2>4, <2>7, Kept
  <2> QED
    BY <2>4, <2>9, <2>10 DEF Sound
<1>7. CASE \E acct \in Accounts : Rebind(l, acct)
  <2>1. PICK acct \in Accounts : Rebind(l, acct)
    BY <1>7
  <2>2. [l EXCEPT !.acct = acct] \in Leases /\ [l EXCEPT !.acct = acct].mem = l.mem
    BY <1>1 DEF Leases
  <2> QED
    BY <1>3, <2>1, <2>2 DEF Rebind
<1> QED
  BY <1>5, <1>6, <1>7

(* What happens to one terminal row: its reactivation is the step that may *)
(* go past the bounds.                                                     *)
LEMMA SoundRow ==
    ASSUME AdmissionInv, NEW l \in DOMAIN ended, Reactivate(l) \/ Forget(l)
    PROVE  Sound
<1>1. /\ Stock(leases) /\ cooling \subseteq Agents \cup Accounts /\ l \in Rows
      /\ machine \in Machines /\ IsABag(ended) /\ DOMAIN ended \subseteq Rows
  BY Stocked
<1>2. IsABag(ended (-) One(l)) /\ DOMAIN (ended (-) One(l)) \subseteq Rows
  BY <1>1, RowsLess
<1>3. CASE Reactivate(l)
  <2> DEFINE m == [l EXCEPT !.st = "running"]
  <2>1. m \in Leases
    BY <1>1 DEF Rows, Leases, LeaseStates
  <2>2. leases' = leases (+) One(m) /\ ended' = ended (-) One(l) /\ UNCHANGED <<machine, cooling>>
    BY <1>3 DEF Reactivate
  <2> HIDE DEF m
  <2>3. Stock(leases (+) One(m))
    BY <1>1, <2>1, StockAdd
  <2>4. AdmissionInv'
    BY <1>1, <1>2, <2>2, <2>3, Kept
  <2>5. Reactivates
    BY <1>3 DEF Reactivates
  <2> QED
    BY <2>2, <2>4, <2>5 DEF Sound
<1>4. CASE Forget(l)
  <2>1. UNCHANGED <<machine, leases, cooling>> /\ ended' = ended (-) One(l)
    BY <1>4 DEF Forget
  <2>2. AdmissionInv'
    BY <1>1, <1>2, <2>1, Kept
  <2>3. Size(leases) <= Size(leases) /\ TotalMem(leases) <= TotalMem(leases)
    BY <1>1, StockNat
  <2>4. ~Worse(leases', leases)
    BY <1>1, <2>1, <2>3, LessNotWorse
  <2> QED
    BY <2>1, <2>2, <2>4 DEF Sound
<1> QED
  BY <1>3, <1>4

(* Pruning and reclaiming. *)
LEMMA SoundSwept ==
    ASSUME AdmissionInv,
           \/ ReleaseStale
           \/ \E key \in Agents \cup (Accounts \ {Default}) : Cool(key)
           \/ \E key \in cooling : ClearCooldown(key)
    PROVE  Sound
<1>1. /\ Stock(leases) /\ cooling \subseteq Agents \cup Accounts /\ machine \in Machines
      /\ IsABag(ended) /\ DOMAIN ended \subseteq Rows
  BY Stocked
<1>2. /\ UNCHANGED machine /\ cooling' \subseteq Agents \cup Accounts
      /\ leases' = Pruned(leases) \/ leases' = Reclaimed(leases)
  BY <1>1 DEF ReleaseStale, Cool, ClearCooldown, Prunes
<1>3. \E states \in SUBSET {"gone", "expired"} : ended' = ended (+) In(leases, states)
  BY DEF ReleaseStale, Cool, ClearCooldown, Prunes
<1>4. IsABag(ended') /\ DOMAIN ended' \subseteq Rows
  BY <1>1, <1>3, RowsIn, RowsAdd
<1>5. PICK B : leases' = B
  OBVIOUS
<1>6. PartOf(B, leases)
  BY <1>2, <1>5, Parts
<1>7. Stock(B) /\ Size(B) <= Size(leases) /\ TotalMem(B) <= TotalMem(leases)
  BY <1>1, <1>6, StockPart
<1>8. ~Worse(leases', leases)
  BY <1>1, <1>5, <1>7, LessNotWorse
<1>9. AdmissionInv'
  BY <1>2, <1>4, <1>5, <1>7, Kept
<1> QED
  BY <1>2, <1>8, <1>9 DEF Sound

LEMMA SoundStep == AdmissionInv /\ [Next]_vars => Sound
<1> SUFFICES ASSUME AdmissionInv, [Next]_vars PROVE Sound
  OBVIOUS
<1>1. CASE UNCHANGED vars
  <2>1. /\ Stock(leases) /\ machine \in Machines
        /\ IsABag(ended) /\ DOMAIN ended \subseteq Rows /\ cooling \subseteq Agents \cup Accounts
        /\ UNCHANGED <<machine, leases, ended, cooling>>
    BY <1>1, Stocked DEF vars
  <2>2. Size(leases) <= Size(leases) /\ TotalMem(leases) <= TotalMem(leases)
    BY <2>1, StockNat
  <2>3. ~Worse(leases', leases)
    BY <2>1, <2>2, LessNotWorse
  <2>4. AdmissionInv'
    BY <2>1, Kept
  <2> QED
    BY <2>1, <2>3, <2>4 DEF Sound
<1>2. CASE Next
  BY <1>2, SoundAcquire, SoundLease, SoundRow, SoundSwept DEF Next
<1> QED
  BY <1>1, <1>2

LEMMA InvHolds == Spec => []AdmissionInv
<1>1. AdmissionInv /\ [Next]_vars => AdmissionInv'
  BY SoundStep DEF Sound
<1> QED
  BY <1>1, Initially, PTL DEF Spec

(* Types, and no machine however small or unreadable has a ceiling of zero *)
(* (profile).                                                              *)
THEOREM TypeCorrect == Spec => []TypeOK
<1>1. AdmissionInv => TypeOK
  BY DEF AdmissionInv
<1> QED
  BY <1>1, InvHolds, PTL

(* The RSS budget of cmd_acquire binds all lanes and survives rebinding,   *)
(* pruning and reclaiming: only a supervisor that brings an ended lease    *)
(* back (retain_indeterminate_live_lease) takes the memory charged past    *)
(* it, or further past it, and no grant adds to what is past it.           *)
THEOREM RamHeldAlways == Spec => RamHeld
<1>1. AdmissionInv /\ [Next]_vars
        => [OverBudget(leases') > OverBudget(leases) => Reactivates]_vars
  BY SoundStep DEF Sound, Worse
<1> QED
  BY <1>1, InvHolds, PTL DEF Spec, RamHeld

(* Likewise the number of leases and the RAM ceiling, whatever the         *)
(* critical lane borrows (cmd_acquire's machine cap).                      *)
THEOREM WithinCeilingAlways == Spec => WithinCeiling
<1>1. AdmissionInv /\ [Next]_vars
        => [OverCeiling(leases') > OverCeiling(leases) => Reactivates]_vars
  BY SoundStep DEF Sound, Worse
<1> QED
  BY <1>1, InvHolds, PTL DEF Spec, WithinCeiling
-----------------------------------------------------------------------------
(* Pressure *)

LEMMA Lowest ==
    ASSUME NEW S \in SUBSET Nat, S # {}
    PROVE  Min(S) \in S /\ \A i \in S : Min(S) <= i
<1> DEFINE Less == OpToRel(<, Nat)
<1>1. IsWellFoundedOn(Less, Nat)
  BY NatLessThanWellFounded
<1>2. ASSUME NEW i \in Nat, NEW j \in Nat, i < j PROVE <<i, j>> \in Less
  BY <1>2 DEF OpToRel
<1> HIDE DEF Less
<1>3. PICK j \in S : \A i \in S : ~(<<i, j>> \in Less)
  BY <1>1, WFMin
<1>4. ASSUME NEW i \in S PROVE j <= i
  <2>1. i \in Nat /\ j \in Nat /\ ~(i < j)
    BY <1>2, <1>3
  <2> QED
    BY <2>1
<1> QED
  BY <1>4 DEF Min

LEMMA CapTypes ==
    ASSUME NEW acct, NEW fallback \in Positive
    PROVE  AccountCap(acct, fallback) \in Positive
BY CapsAssumption DEF AccountCap

LEMMA PressureTypes ==
    ASSUME NEW p \in Pressures
    PROVE  /\ DOMAIN p \subseteq Nat
           /\ \A i \in DOMAIN p : p[i] \in Entries
BY PressureAssumption

LEMMA EntryTypes ==
    ASSUME NEW e \in Entries
    PROVE  e.stop \in BOOLEAN /\ e.labels \in SUBSET Agents /\ (e.stop => e.scope = "provider")
BY DEF Entries

LEMMA RecommendedTypes ==
    ASSUME NEW e, NEW agent \in Agents
    PROVE  Recommended(e, agent) \in Positive
<1>1. \A a \in Agents : AgentCaps[a] \in Nat /\ AgentCaps[a] \div 2 \in Nat
  BY CapsAssumption DEF Positive
<1>2. Pool \in Agents
  BY CapsAssumption
<1> QED
  BY <1>1, <1>2 DEF Recommended, Greatest, Positive

(* An entry's cap: zero for a stop, at least one otherwise. *)
LEMMA EffectiveTypes ==
    ASSUME NEW e \in Entries, NEW agent \in Agents, NEW base \in Positive
    PROVE  /\ EffectiveCap(e, agent, base) \in Nat
           /\ e.stop => EffectiveCap(e, agent, base) = 0
           /\ ~e.stop => /\ EffectiveCap(e, agent, base) \in 1 .. base
                         /\ EffectiveCap(e, agent, base) = Least(base, Recommended(e, agent))
<1>1. Recommended(e, agent) \in Positive
  BY RecommendedTypes
<1> QED
  BY <1>1, EntryTypes DEF EffectiveCap, Greatest, Least, Positive

(* The entries that lower the cap of an agent. *)
Lowering(agent, base, p) ==
    {i \in DOMAIN p : Touches(p[i], agent) /\ EffectiveCap(p[i], agent, base) < base}

LEMMA AdaptiveIs ==
    ASSUME NEW agent, NEW base, NEW p
    PROVE  /\ Lowering(agent, base, p) = {} =>
                 Adaptive(agent, base, p) = [cap |-> base, walked |-> FALSE]
           /\ Lowering(agent, base, p) # {} =>
                 Adaptive(agent, base, p) =
                     [cap |-> EffectiveCap(p[Min(Lowering(agent, base, p))], agent, base),
                      walked |-> TRUE]
BY DEF Adaptive, Lowering

LEMMA AdaptiveTypes ==
    ASSUME NEW agent \in Agents, NEW base \in Positive, NEW p \in Pressures
    PROVE  /\ Adaptive(agent, base, p).cap \in 0 .. base
           /\ Adaptive(agent, base, p).walked \in BOOLEAN
<1> DEFINE S == Lowering(agent, base, p)
<1>1. CASE S = {}
  <2>1. Adaptive(agent, base, p) = [cap |-> base, walked |-> FALSE]
    BY <1>1, AdaptiveIs
  <2> QED
    BY <2>1 DEF Positive
<1>2. CASE S # {}
  <2>1. S \in SUBSET Nat /\ S \subseteq DOMAIN p
    BY PressureTypes DEF Lowering
  <2>2. Min(S) \in S
    BY <1>2, <2>1, Lowest
  <2>3. EffectiveCap(p[Min(S)], agent, base) < base
    BY <2>2 DEF Lowering
  <2>4. p[Min(S)] \in Entries
    BY <2>1, <2>2, PressureTypes
  <2>5. EffectiveCap(p[Min(S)], agent, base) \in Nat
    BY <2>4, EffectiveTypes
  <2>6. Adaptive(agent, base, p) =
            [cap |-> EffectiveCap(p[Min(S)], agent, base), walked |-> TRUE]
    BY <1>2, AdaptiveIs
  <2> QED
    BY <2>3, <2>5, <2>6 DEF Positive
<1> QED
  BY <1>1, <1>2

(* What an agent is left when a stop touches it and nothing hides the stop. *)
LEMMA Stopped ==
    ASSUME NEW agent \in Agents, NEW base \in Positive, NEW p \in Pressures,
           NEW i \in DOMAIN p, p[i].stop, Touches(p[i], agent), ~Hidden(p, agent)
    PROVE  Adaptive(agent, base, p) = [cap |-> 0, walked |-> TRUE]
<1> DEFINE S == Lowering(agent, base, p)
           j == Min(S)
<1>1. S \in SUBSET Nat /\ S \subseteq DOMAIN p
  BY PressureTypes DEF Lowering
<1>2. i \in S
  <2>1. EffectiveCap(p[i], agent, base) = 0
    BY PressureTypes, EffectiveTypes
  <2> QED
    BY <2>1 DEF Lowering, Positive
<1>3. j \in S /\ j <= i
  BY <1>1, <1>2, Lowest
<1>4. Touches(p[j], agent) /\ j \in DOMAIN p /\ p[j] \in Entries
  BY <1>1, <1>3, PressureTypes DEF Lowering
<1>5. Adaptive(agent, base, p) = [cap |-> EffectiveCap(p[j], agent, base), walked |-> TRUE]
  BY <1>2, AdaptiveIs
<1> HIDE DEF j
<1>6. p[j].stop
  <2>1. CASE j = i
    BY <2>1
  <2>2. CASE j # i
    <3>1. j < i
      BY <1>1, <1>2, <1>3, <2>2
    <3> QED
      BY <1>4, <3>1 DEF Hidden
  <2> QED
    BY <2>1, <2>2
<1>7. EffectiveCap(p[j], agent, base) = 0
  BY <1>4, <1>6, EffectiveTypes
<1> QED
  BY <1>5, <1>7

-----------------------------------------------------------------------------
(* Lanes *)

LEMMA LaneCaps ==
    ASSUME NEW a, a.cap \in Nat, a.walked \in BOOLEAN
    PROVE  /\ \A lane \in Lanes : LaneAgentCap(lane, a) \in Nat
           /\ LaneAgentCap("bulk", a) <= LaneAgentCap("normal", a)
           /\ LaneAgentCap("normal", a) <= LaneAgentCap("critical", a)
           /\ a.cap = 0 /\ a.walked => \A lane \in Lanes : LaneAgentCap(lane, a) = 0
BY DEF LaneAgentCap, Lanes, Greatest, BulkPoolReserve, CriticalPoolBorrow

LEMMA RequestTypes ==
    ASSUME NEW r \in Requests
    PROVE  /\ r.agent \in Agents /\ r.weight \in Nat /\ r.weight > 0
           /\ AccountCap(r.acct, AgentCaps[Pool]) \in Positive
<1>1. AgentCaps[Pool] \in Positive
  BY CapsAssumption
<1> QED
  BY <1>1, CapTypes, RequestAssumption DEF Positive

LEMMA TimesLeq ==
    ASSUME NEW k \in Nat, NEW m \in Nat, NEW n \in Nat, m <= n
    PROVE  k * m \in Nat /\ k * n \in Nat /\ k * m <= k * n
<1>1. k * n = k * m + k * (n - m) /\ k * m \in Nat /\ k * n \in Nat /\ k * (n - m) \in Nat
  OBVIOUS
<1> QED
  BY <1>1

(* What is full for a lane that gets more is full for one that gets less. *)
LEMMA FullOrdered ==
    ASSUME machine \in Machines, NEW B, Stock(B), NEW r \in Requests, NEW p \in Pressures
    PROVE  /\ Full(B, r, "normal", p) => Full(B, r, "bulk", p)
           /\ Full(B, r, "critical", p) => Full(B, r, "normal", p)
<1> DEFINE a == Adaptive(r.agent, AccountCap(r.acct, AgentCaps[Pool]), p)
<1>1. a.cap \in Nat /\ a.walked \in BOOLEAN
  BY RequestTypes, AdaptiveTypes
<1>2. RequestCap(r, "bulk", p) = LaneAgentCap("bulk", a)
      /\ RequestCap(r, "normal", p) = LaneAgentCap("normal", a)
      /\ RequestCap(r, "critical", p) = LaneAgentCap("critical", a)
  BY DEF RequestCap
<1> HIDE DEF a
<1>3. /\ \A lane \in Lanes : RequestCap(r, lane, p) \in Nat
      /\ RequestCap(r, "bulk", p) <= RequestCap(r, "normal", p)
      /\ RequestCap(r, "normal", p) <= RequestCap(r, "critical", p)
  BY <1>1, <1>2, LaneCaps DEF Lanes
<1>4. Slot \in Nat
  BY MachineAssumption DEF Positive
<1>5. /\ \A lane \in Lanes : Slot * RequestCap(r, lane, p) \in Nat
      /\ Slot * RequestCap(r, "bulk", p) <= Slot * RequestCap(r, "normal", p)
      /\ Slot * RequestCap(r, "normal", p) <= Slot * RequestCap(r, "critical", p)
  BY <1>3, <1>4, TimesLeq DEF Lanes
<1>6. /\ \A lane \in Lanes : LaneTotal(lane) \in Nat
      /\ LaneTotal("bulk") <= LaneTotal("normal")
      /\ LaneTotal("normal") <= LaneTotal("critical")
  BY LaneTotals, Ceilings
<1>7. Size(B) \in Nat /\ SumWeight(B, r.acct) + r.weight \in Nat
  BY StockNat, RequestTypes
<1>8. "bulk" \in Lanes /\ "normal" \in Lanes /\ "critical" \in Lanes
  BY DEF Lanes
<1>9. ASSUME NEW less \in Lanes, NEW more \in Lanes, Full(B, r, more, p),
             LaneTotal(less) <= LaneTotal(more),
             Slot * RequestCap(r, less, p) <= Slot * RequestCap(r, more, p)
      PROVE  Full(B, r, less, p)
  <2>1. CASE Size(B) >= LaneTotal(more)
    <3>1. Size(B) >= LaneTotal(less)
      BY <1>6, <1>7, <1>9, <2>1
    <3> QED
      BY <3>1 DEF Full
  <2>2. CASE SumWeight(B, r.acct) + r.weight > Slot * RequestCap(r, more, p)
    <3>1. SumWeight(B, r.acct) + r.weight > Slot * RequestCap(r, less, p)
      BY <1>5, <1>7, <1>9, <2>2
    <3> QED
      BY <3>1 DEF Full
  <2>3. CASE OverRam(B, r, more)
    BY <2>3 DEF Full, OverRam
  <2> QED
    BY <1>9, <2>1, <2>2, <2>3 DEF Full
<1> QED
  BY <1>5, <1>6, <1>8, <1>9

(* Reclaiming keeps the order: it is tried by whichever lane is refused. *)
LEMMA AdmittedOrdered ==
    ASSUME NEW r, NEW p, NEW less, NEW more,
           \A B \in {Pruned(leases), Reclaimed(leases)} : Full(B, r, more, p) => Full(B, r, less, p),
           Admitted(r, less, p)
    PROVE  Admitted(r, more, p)
BY DEF Admitted, Considered, Reclaims

(* The lanes are ordered in every state and under every pressure           *)
(* (cmd_acquire): no reserve, borrow, clamp or reclaiming turns the order  *)
(* round.                                                                  *)
THEOREM LanesOrderedAlways == Spec => []LanesOrdered
<1>1. AdmissionInv => LanesOrdered
  <2> SUFFICES ASSUME AdmissionInv, NEW r \in Requests, NEW p \in Pressures
               PROVE  /\ Admitted(r, "bulk", p) => Admitted(r, "normal", p)
                      /\ Admitted(r, "normal", p) => Admitted(r, "critical", p)
    BY DEF LanesOrdered
  <2>1. Stock(leases) /\ machine \in Machines
    BY Stocked
  <2>2. \A B \in {Pruned(leases), Reclaimed(leases)} : Stock(B)
    BY <2>1, Parts, StockPart
  <2>3. \A B \in {Pruned(leases), Reclaimed(leases)} :
            /\ Full(B, r, "normal", p) => Full(B, r, "bulk", p)
            /\ Full(B, r, "critical", p) => Full(B, r, "normal", p)
    BY <2>1, <2>2, FullOrdered
  <2> QED
    BY <2>3, AdmittedOrdered
<1> QED
  BY <1>1, InvHolds, PTL

-----------------------------------------------------------------------------
(* A stop and the budget *)

(* A provider's hard stop is a stop in every lane, unless a milder entry   *)
(* is read first (adaptive_agent_cap).                                     *)
THEOREM StopHoldsAlways == Spec => []StopHolds
<1>1. AdmissionInv => StopHolds
  <2> SUFFICES ASSUME AdmissionInv, NEW r \in Requests, NEW p \in Pressures, NEW lane \in Lanes,
                      NEW i \in DOMAIN p, p[i].stop, Touches(p[i], r.agent),
                      ~Hidden(p, r.agent)
               PROVE  ~Admitted(r, lane, p)
    BY DEF StopHolds
  <2> DEFINE a == Adaptive(r.agent, AccountCap(r.acct, AgentCaps[Pool]), p)
             C == Considered(r, lane, p)
  <2>1. a = [cap |-> 0, walked |-> TRUE]
    BY RequestTypes, Stopped
  <2>2. RequestCap(r, lane, p) = LaneAgentCap(lane, a)
    BY DEF RequestCap
  <2> HIDE DEF a
  <2>3. RequestCap(r, lane, p) = 0
    BY <2>1, <2>2, LaneCaps
  <2>4. Stock(C)
    <3>1. Stock(leases)
      BY Stocked
    <3> QED
      BY <3>1, ConsideredPart, StockPart
  <2>5. SumWeight(C, r.acct) \in Nat /\ r.weight \in Nat /\ r.weight > 0 /\ Slot \in Nat
    BY <2>4, StockNat, RequestTypes, MachineAssumption DEF Positive
  <2>6. SumWeight(C, r.acct) + r.weight > Slot * RequestCap(r, lane, p)
    BY <2>3, <2>5
  <2> QED
    BY <2>6 DEF Admitted, Full
<1> QED
  BY <1>1, InvHolds, PTL
(* The cap an account gets under its own label is no more than under the   *)
(* pool's, which is what the budget asks for.                              *)
LEMMA CapOfPool ==
    ASSUME NEW r \in Requests, NEW p \in Pressures, ~Hidden(p, r.agent)
    PROVE  Adaptive(r.agent, AccountCap(r.acct, AgentCaps[Pool]), p).cap
             <= Adaptive(Pool, AccountCap(r.acct, AccountDefault), p).cap
<1> DEFINE low == AccountCap(r.acct, AgentCaps[Pool])
           high == AccountCap(r.acct, AccountDefault)
           own == Adaptive(r.agent, low, p)
           pooled == Adaptive(Pool, high, p)
           S == Lowering(Pool, high, p)
           k == Min(S)
           R == Lowering(r.agent, low, p)
           m == Min(R)
<1>1. Pool \in Agents /\ r.agent \in Agents
  BY CapsAssumption, RequestTypes
<1>2. low \in Positive /\ high \in Positive
  BY CapsAssumption, CapTypes
<1>3. low <= high
  <2>1. \A a \in DOMAIN Configured : Configured[a] \in Nat
    BY CapsAssumption DEF Positive
  <2>2. AgentCaps[Pool] <= AccountDefault /\ AgentCaps[Pool] \in Nat /\ AccountDefault \in Nat
    BY ShippedAssumption, CapsAssumption DEF Positive
  <2> QED
    BY <2>1, <2>2 DEF AccountCap
<1> HIDE DEF low, high
<1>4. own.cap \in 0 .. low
  BY <1>1, <1>2, AdaptiveTypes
<1>5. S \in SUBSET Nat /\ R \in SUBSET Nat /\ S \subseteq DOMAIN p /\ R \subseteq DOMAIN p
  BY PressureTypes DEF Lowering
<1>6. ASSUME NEW e PROVE Recommended(e, r.agent) <= Recommended(e, Pool)
  <2>1. \A a \in Agents : /\ AgentCaps[a] \in Nat /\ AgentCaps[a] \div 2 \in Nat
                          /\ AgentCaps[a] \div 2 <= AgentCaps[Pool] \div 2
    BY <1>1, CapsAssumption, ShippedAssumption DEF Positive
  <2> QED
    BY <1>1, <2>1 DEF Recommended, Greatest
<1>7. CASE S = {}
  <2>1. pooled = [cap |-> high, walked |-> FALSE]
    BY <1>7, AdaptiveIs
  <2> QED
    BY <1>2, <1>3, <1>4, <2>1 DEF low, high, Positive
<1>8. CASE S # {}
  <2>1. k \in S /\ k \in DOMAIN p /\ p[k] \in Entries
    BY <1>5, <1>8, Lowest, PressureTypes
  <2>2. pooled = [cap |-> EffectiveCap(p[k], Pool, high), walked |-> TRUE]
    BY <1>8, AdaptiveIs
  <2>3. Touches(p[k], Pool) /\ EffectiveCap(p[k], Pool, high) < high
    BY <2>1 DEF Lowering
  <2>4. Touches(p[k], r.agent)
    BY <2>3 DEF Touches
  <2> HIDE DEF k
  <2>5. CASE p[k].stop
    <3>1. own.cap = 0
      BY <1>1, <1>2, <2>1, <2>4, <2>5, Stopped
    <3>2. pooled.cap \in Nat
      BY <1>1, <1>2, AdaptiveTypes
    <3> QED
      BY <3>1, <3>2 DEF low, high
  <2>6. CASE ~p[k].stop
    <3>1. pooled.cap = Least(high, Recommended(p[k], Pool))
      BY <1>1, <1>2, <2>1, <2>2, <2>6, EffectiveTypes
    <3>2. ASSUME NEW e PROVE Recommended(e, Pool) = Recommended(p[k], Pool)
      BY DEF Recommended
    <3>3. /\ Recommended(p[k], Pool) \in Positive
          /\ \A e : Recommended(e, r.agent) \in Positive
      BY <1>1, RecommendedTypes
    <3>4. \A e : Recommended(e, r.agent) <= Recommended(p[k], Pool)
      BY <1>6, <3>2
    <3>5. own.cap <= Recommended(p[k], Pool)
      <4>1. CASE R = {}
        <5>1. own = [cap |-> low, walked |-> FALSE]
          BY <4>1, AdaptiveIs
        <5>2. ~(EffectiveCap(p[k], r.agent, low) < low)
          BY <2>1, <2>4, <4>1 DEF Lowering
        <5>3. EffectiveCap(p[k], r.agent, low) = Least(low, Recommended(p[k], r.agent))
          BY <1>1, <1>2, <2>1, <2>6, EffectiveTypes
        <5>4. low <= Recommended(p[k], r.agent)
          BY <1>2, <3>3, <5>2, <5>3 DEF Least, Positive
        <5> QED
          BY <1>2, <3>3, <3>4, <5>1, <5>4 DEF Positive
      <4>2. CASE R # {}
        <5>1. m \in R /\ m \in DOMAIN p /\ p[m] \in Entries
          BY <1>5, <4>2, Lowest, PressureTypes
        <5>2. own = [cap |-> EffectiveCap(p[m], r.agent, low), walked |-> TRUE]
          BY <4>2, AdaptiveIs
        <5> HIDE DEF m
        <5>3. own.cap = 0 \/ own.cap = Least(low, Recommended(p[m], r.agent))
          BY <1>1, <1>2, <5>1, <5>2, EffectiveTypes
        <5> QED
          BY <1>2, <3>3, <3>4, <5>3 DEF Least, Positive
      <4> QED
        BY <4>1, <4>2
    <3> HIDE DEF own, pooled
    <3>6. own.cap <= pooled.cap
      BY <1>2, <1>3, <1>4, <3>1, <3>3, <3>5 DEF Least, Positive
    <3> QED
      BY <3>6 DEF own, pooled, low, high
  <2> QED
    BY <2>5, <2>6
<1> QED
  BY <1>7, <1>8

(* The budget that picks an account is never stricter than the acquire     *)
(* that follows it in the normal lane (launch_slot_budget), for the        *)
(* shipped numbers.                                                        *)
THEOREM BudgetNeverShortAlways == Spec => []BudgetNeverShort
<1>1. AdmissionInv => BudgetNeverShort
  <2> SUFFICES ASSUME AdmissionInv, Reclaimed(leases) = Pruned(leases),
                      NEW r \in Requests, NEW p \in Pressures,
                      BudgetRefuses(r, p), ~Hidden(p, r.agent)
               PROVE  ~Admitted(r, "normal", p)
    BY DEF BudgetNeverShort
  <2> DEFINE C == Pruned(leases)
             own == Adaptive(r.agent, AccountCap(r.acct, AgentCaps[Pool]), p)
             pooled == Adaptive(Pool, AccountCap(r.acct, AccountDefault), p)
             charged == SumWeight(C, r.acct)
  <2>1. Considered(r, "normal", p) = C
    BY DEF Considered
  <2>2. RequestCap(r, "normal", p) = own.cap
    BY DEF RequestCap, LaneAgentCap
  <2>3. own.cap \in Nat /\ pooled.cap \in Nat /\ own.cap <= pooled.cap
    <3>1. AccountCap(r.acct, AccountDefault) \in Positive /\ Pool \in Agents
      BY CapsAssumption, CapTypes
    <3> QED
      BY <3>1, RequestTypes, AdaptiveTypes, CapOfPool
  <2>4. charged \in Nat /\ r.weight \in Nat
    <3>1. Stock(leases)
      BY Stocked
    <3>2. Stock(C)
      BY <3>1, Parts, StockPart
    <3> QED
      BY <3>2, StockNat, RequestTypes
  <2>5. AccountRemaining(r.acct, p) = Greatest(0, Slot * pooled.cap - charged)
    BY DEF AccountRemaining
  <2> HIDE DEF C, own, pooled, charged
  <2>6. Slot * own.cap \in Nat /\ Slot * pooled.cap \in Nat
            /\ Slot * own.cap <= Slot * pooled.cap
    BY <2>3, TimesLeq, MachineAssumption DEF Positive
  <2>7. Greatest(0, Slot * pooled.cap - charged) < r.weight
    BY <2>5 DEF BudgetRefuses
  <2>8. charged + r.weight > Slot * own.cap
    BY <2>4, <2>6, <2>7 DEF Greatest
  <2> QED
    BY <2>1, <2>2, <2>8 DEF Admitted, Full, charged
<1> QED
  BY <1>1, InvHolds, PTL
=============================================================================
