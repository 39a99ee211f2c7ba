---------------------------- MODULE Sums_proofs ----------------------------
(***************************************************************************)
(* Sums over finite sets, as MapThenSumSet of the community modules        *)
(* computes them: what adding an element does to a sum.                    *)
(***************************************************************************)
EXTENDS Integers, FiniteSetsExt, Functions, FiniteSetTheorems, WellFoundedInduction,
        TLAPS

\* The element MapThenSumSet takes next.
First(s) == CHOOSE x \in s : TRUE

\* f is the table MapThenSumSet fills for the values v of the elements of S.
SumTable(f, S, v) ==
  f = [ s \in SUBSET S |->
          IF s = {} THEN 0 ELSE v[First(s)] + f[s \ {First(s)}] ]

Table(S, v) == CHOOSE f : SumTable(f, S, v)

Total(S, v) == Table(S, v)[S]

\* Induction over a finite set: of the subsets that are bad, some is minimal.
LEMMA MinimalSubset ==
  ASSUME NEW S, IsFiniteSet(S), NEW Bad, Bad \subseteq SUBSET S, Bad # {}
  PROVE  \E m \in Bad : \A t \in Bad : t \subseteq m => t = m
<1>1. IsWellFoundedOn(StrictSubsetOrdering(S), SUBSET S)
  BY FS_StrictSubsetOrderingWellFounded, FS_FiniteSubsetsOfFinite
<1>2. \E m \in Bad : \A t \in Bad : ~(<<t, m>> \in StrictSubsetOrdering(S))
  BY <1>1, WFMin
<1>3. PICK m \in Bad : \A t \in Bad : ~(<<t, m>> \in StrictSubsetOrdering(S))
  BY <1>2
<1>4. ASSUME NEW t \in Bad, t \subseteq m, t # m PROVE FALSE
  BY <1>3, <1>4 DEF StrictSubsetOrdering
<1> QED BY <1>4

\* It is an element.
LEMMA FirstIn ==
  ASSUME NEW s, s # {}
  PROVE  First(s) \in s
BY DEF First

\* An entry of the table is the next value and the entry without it.
LEMMA TableStep ==
  ASSUME NEW S, NEW v, NEW f, SumTable(f, S, v), NEW s \in SUBSET S, s # {}
  PROVE  f[s] = v[First(s)] + f[s \ {First(s)}]
BY Zenon DEF SumTable

\* The entry of no elements.
LEMMA TableEmpty ==
  ASSUME NEW S, NEW v, NEW f, SumTable(f, S, v)
  PROVE  f[{}] = 0
<1>1. {} \in SUBSET S
  OBVIOUS
<1> QED BY <1>1 DEF SumTable

\* Two tables agree where both are defined.
LEMMA TablesAgree ==
  ASSUME NEW S, IsFiniteSet(S), NEW v, NEW f, SumTable(f, S, v),
         NEW R, R \subseteq S, NEW g, SumTable(g, R, v)
  PROVE  \A s \in SUBSET R : f[s] = g[s]
<1> DEFINE Bad == {s \in SUBSET R : f[s] # g[s]}
<1> HIDE DEF Bad
<1>1. SUFFICES ASSUME Bad # {} PROVE FALSE
  BY DEF Bad
<1>2. IsFiniteSet(R) /\ Bad \subseteq SUBSET R
  BY FS_Subset DEF Bad
<1>3. PICK m \in Bad : \A t \in Bad : t \subseteq m => t = m
  BY <1>1, <1>2, MinimalSubset
<1>8. m \in SUBSET S /\ m \in SUBSET R /\ f[m] # g[m]
  BY DEF Bad
<1>4. m # {}
  BY <1>8, TableEmpty
<1>5. First(m) \in m
  BY <1>4, FirstIn
<1>6. m \ {First(m)} \in SUBSET R /\ m \ {First(m)} \notin Bad
  BY <1>3, <1>5, <1>8
<1>7. f[m \ {First(m)}] = g[m \ {First(m)}]
  BY <1>6 DEF Bad
<1>9. f[m] = v[First(m)] + f[m \ {First(m)}]
  BY <1>4, <1>8, TableStep
<1>10. g[m] = v[First(m)] + g[m \ {First(m)}]
  BY <1>4, <1>8, TableStep
<1> QED BY <1>7, <1>8, <1>9, <1>10

\* Every finite set has a table.
LEMMA TableExists ==
  ASSUME NEW S, IsFiniteSet(S), NEW v
  PROVE  SumTable(Table(S, v), S, v)
<1> DEFINE Bad == {s \in SUBSET S : ~SumTable(Table(s, v), s, v)}
<1> HIDE DEF Bad
<1>1. SUFFICES ASSUME Bad # {} PROVE FALSE
  BY FS_Subset DEF Bad
<1>0. Bad \subseteq SUBSET S
  BY DEF Bad
<1>2. PICK m \in Bad : \A t \in Bad : t \subseteq m => t = m
  BY <1>0, <1>1, MinimalSubset
<1>3. \A t \in SUBSET m : t # m => SumTable(Table(t, v), t, v)
  BY <1>2 DEF Bad
<1>4. IsFiniteSet(m)
  BY <1>0, FS_Subset
<1> DEFINE Below(t) == IF t = {} THEN 0
                       ELSE v[First(t)] + Total(t \ {First(t)}, v)
           f == [t \in SUBSET m |-> Below(t)]
<1>5. ASSUME NEW t \in SUBSET m, t # m PROVE f[t] = Total(t, v)
  <2>1. SumTable(Table(t, v), t, v)
    BY <1>3, <1>5
  <2>2. CASE t = {}
    BY <2>1, <2>2, TableEmpty DEF Total
  <2>3. CASE t # {}
    <3>1. First(t) \in t
      BY <2>3, FirstIn
    <3>2. t \ {First(t)} \in SUBSET m /\ t \ {First(t)} # m /\ t \ {First(t)} \subseteq t
      BY <3>1
    <3>3. SumTable(Table(t \ {First(t)}, v), t \ {First(t)}, v)
      BY <1>3, <3>2
    <3>4. IsFiniteSet(t)
      BY <1>4, FS_Subset
    <3>5. \A s \in SUBSET (t \ {First(t)}) : Table(t, v)[s] = Table(t \ {First(t)}, v)[s]
      BY <2>1, <3>2, <3>3, <3>4, TablesAgree
    <3>6. Table(t, v)[t \ {First(t)}] = Total(t \ {First(t)}, v)
      BY <3>5 DEF Total
    <3>7. t \in SUBSET t
      OBVIOUS
    <3>8. Table(t, v)[t] = v[First(t)] + Table(t, v)[t \ {First(t)}]
      BY <2>1, <2>3, <3>7, TableStep
    <3> QED BY <2>3, <3>6, <3>8 DEF Total
  <2> QED BY <2>2, <2>3
<1>6. SumTable(f, m, v)
  <2>1. ASSUME NEW t \in SUBSET m, t # {}
        PROVE  f[t] = v[First(t)] + f[t \ {First(t)}]
    <3>1. First(t) \in t
      BY <2>1, FirstIn
    <3>2. t \ {First(t)} \in SUBSET m /\ t \ {First(t)} # m
      BY <3>1
    <3>3. f[t \ {First(t)}] = Total(t \ {First(t)}, v)
      BY <1>5, <3>2
    <3>4. f[t] = v[First(t)] + Total(t \ {First(t)}, v)
      BY <2>1
    <3> QED BY <3>3, <3>4
  <2>2. ASSUME NEW t \in SUBSET m
        PROVE  f[t] = IF t = {} THEN 0 ELSE v[First(t)] + f[t \ {First(t)}]
    <3>1. CASE t = {}
      BY <3>1
    <3>2. CASE t # {}
      BY <2>1, <3>2
    <3> QED BY <3>1, <3>2
  <2>3. f = [t \in SUBSET m |-> f[t]]
    OBVIOUS
  <2> HIDE DEF f
  <2>4. f = [ t \in SUBSET m |->
                IF t = {} THEN 0 ELSE v[First(t)] + f[t \ {First(t)}] ]
    BY <2>2, <2>3
  <2> QED BY <2>4 DEF SumTable
<1>7. SumTable(Table(m, v), m, v)
  <2> HIDE DEF f
  <2> QED BY <1>6 DEF Table
<1> QED BY <1>7 DEF Bad

\* A table over a set serves for each of its subsets.
LEMMA TotalOfSubset ==
  ASSUME NEW S, IsFiniteSet(S), NEW v, NEW s \in SUBSET S
  PROVE  Table(S, v)[s] = Total(s, v)
<1>1. IsFiniteSet(s) /\ s \in SUBSET s
  BY FS_Subset
<1>2. SumTable(Table(S, v), S, v) /\ SumTable(Table(s, v), s, v)
  BY <1>1, TableExists
<1> QED BY <1>1, <1>2, TablesAgree DEF Total

\* The sum over nothing.
LEMMA TotalEmpty ==
  ASSUME NEW v
  PROVE  Total({}, v) = 0
<1>1. SumTable(Table({}, v), {}, v)
  BY FS_EmptySet, TableExists
<1> QED BY <1>1, TableEmpty DEF Total

\* The sum takes the next element's value and goes on without it.
LEMMA TotalStep ==
  ASSUME NEW S, IsFiniteSet(S), NEW v, S # {}
  PROVE  Total(S, v) = v[First(S)] + Total(S \ {First(S)}, v)
<1>1. SumTable(Table(S, v), S, v) /\ S \in SUBSET S
  BY TableExists
<1>2. Table(S, v)[S] = v[First(S)] + Table(S, v)[S \ {First(S)}]
  BY <1>1, TableStep
<1>3. Table(S, v)[S \ {First(S)}] = Total(S \ {First(S)}, v)
  BY TotalOfSubset
<1> QED BY <1>2, <1>3 DEF Total

\* A sum of integers is an integer.
LEMMA TotalInt ==
  ASSUME NEW S, IsFiniteSet(S), NEW v, \A x \in S : v[x] \in Int
  PROVE  Total(S, v) \in Int
<1> DEFINE Bad == {s \in SUBSET S : Total(s, v) \notin Int}
<1> HIDE DEF Bad
<1>1. SUFFICES ASSUME Bad # {} PROVE FALSE
  BY DEF Bad
<1>2. Bad \subseteq SUBSET S
  BY DEF Bad
<1>3. PICK m \in Bad : \A t \in Bad : t \subseteq m => t = m
  BY <1>1, <1>2, MinimalSubset
<1>4. m \in SUBSET S /\ IsFiniteSet(m) /\ Total(m, v) \notin Int
  BY FS_Subset DEF Bad
<1>5. m # {}
  BY <1>4, TotalEmpty
<1>6. First(m) \in m
  BY <1>5, FirstIn
<1>7. Total(m \ {First(m)}, v) \in Int
  BY <1>3, <1>4, <1>6 DEF Bad
<1>8. Total(m, v) = v[First(m)] + Total(m \ {First(m)}, v)
  BY <1>4, <1>5, TotalStep
<1> QED BY <1>4, <1>6, <1>7, <1>8

\* A new element adds its value to the sum, whatever the order of summation.
LEMMA TotalAddWithin ==
  ASSUME NEW S, IsFiniteSet(S), NEW v, \A y \in S : v[y] \in Int
  PROVE  \A s \in SUBSET S : \A x \in S \ s :
           Total(s \cup {x}, v) = Total(s, v) + v[x]
<1> DEFINE Bad == {s \in SUBSET S : \E x \in S \ s :
                     Total(s \cup {x}, v) # Total(s, v) + v[x]}
<1> HIDE DEF Bad
<1>1. SUFFICES ASSUME Bad # {} PROVE FALSE
  BY DEF Bad
<1>2. Bad \subseteq SUBSET S
  BY DEF Bad
<1>3. PICK m \in Bad : \A t \in Bad : t \subseteq m => t = m
  BY <1>1, <1>2, MinimalSubset
<1>4. PICK x \in S \ m : Total(m \cup {x}, v) # Total(m, v) + v[x]
  BY DEF Bad
<1>5. m \in SUBSET S /\ IsFiniteSet(m) /\ IsFiniteSet(m \cup {x})
  BY <1>2, FS_Subset, FS_AddElement
<1>6. Total(m, v) \in Int
  BY <1>5, TotalInt
<1> DEFINE y == First(m \cup {x})
           r == m \ {y}
<1>7. y \in m \cup {x}
  BY FirstIn
<1>8. Total(m \cup {x}, v) = v[y] + Total((m \cup {x}) \ {y}, v)
  BY <1>5, TotalStep
<1> HIDE DEF y
<1>9. CASE y = x
  <2>1. (m \cup {x}) \ {y} = m
    BY <1>4, <1>9
  <2>2. Total(m \cup {x}, v) = v[x] + Total(m, v)
    BY <1>8, <1>9, <2>1
  <2>3. v[x] \in Int
    OBVIOUS
  <2> QED BY <1>4, <1>6, <2>2, <2>3
<1>10. CASE y # x
  <2>1. y \in m /\ y \in S \ r /\ x \in S \ r
    BY <1>5, <1>7, <1>10
  <2>2. (m \cup {x}) \ {y} = r \cup {x} /\ r \cup {y} = m
    BY <1>4, <1>10, <2>1
  <2>3. r \in SUBSET S /\ r \subseteq m /\ r # m /\ IsFiniteSet(r)
    BY <1>5, <2>1, FS_Subset
  <2>4. \A z \in S \ r : Total(r \cup {z}, v) = Total(r, v) + v[z]
    BY <1>3, <2>3 DEF Bad
  <2> HIDE DEF r
  <2>5. Total(r, v) \in Int /\ v[x] \in Int /\ v[y] \in Int
    BY <2>1, <2>3, TotalInt
  <2>6. Total(m, v) = Total(r, v) + v[y]
    BY <2>1, <2>2, <2>4
  <2>7. Total(m \cup {x}, v) = v[y] + (Total(r, v) + v[x])
    BY <1>8, <2>1, <2>2, <2>4
  <2> QED BY <1>4, <2>5, <2>6, <2>7
<1> QED BY <1>9, <1>10

\* A new element adds its value, whatever the order of the sum.
LEMMA TotalAdd ==
  ASSUME NEW S, IsFiniteSet(S), NEW x, x \notin S,
         NEW v, \A y \in S \cup {x} : v[y] \in Int
  PROVE  Total(S \cup {x}, v) = Total(S, v) + v[x]
<1>1. IsFiniteSet(S \cup {x})
  BY FS_AddElement
<1>2. S \in SUBSET (S \cup {x}) /\ x \in (S \cup {x}) \ S
  OBVIOUS
<1>3. \A s \in SUBSET (S \cup {x}) : \A z \in (S \cup {x}) \ s :
         Total(s \cup {z}, v) = Total(s, v) + v[z]
  BY <1>1, TotalAddWithin
<1> QED BY <1>2, <1>3

\* The sum over one element.
LEMMA TotalOne ==
  ASSUME NEW x, NEW v, v[x] \in Int
  PROVE  Total({x}, v) = v[x]
<1>1. Total({} \cup {x}, v) = Total({}, v) + v[x]
  BY FS_EmptySet, TotalAdd
<1>2. {} \cup {x} = {x}
  OBVIOUS
<1> QED BY <1>1, <1>2, TotalEmpty

\* The sum over two disjoint sets is the sum of the sums.
LEMMA TotalUnion ==
  ASSUME NEW S, IsFiniteSet(S), NEW R, IsFiniteSet(R), S \cap R = {},
         NEW v, \A y \in S \cup R : v[y] \in Int
  PROVE  Total(S \cup R, v) = Total(S, v) + Total(R, v)
<1> DEFINE Bad == {r \in SUBSET R : Total(S \cup r, v) # Total(S, v) + Total(r, v)}
<1> HIDE DEF Bad
<1>1. SUFFICES ASSUME Bad # {} PROVE FALSE
  BY DEF Bad
<1>2. Bad \subseteq SUBSET R
  BY DEF Bad
<1>3. PICK m \in Bad : \A t \in Bad : t \subseteq m => t = m
  BY <1>1, <1>2, MinimalSubset
<1>4. m \in SUBSET R /\ Total(S \cup m, v) # Total(S, v) + Total(m, v)
  BY DEF Bad
<1>5. Total(S, v) \in Int
  BY TotalInt
<1>6. m # {}
  <2>1. SUFFICES ASSUME m = {} PROVE FALSE
    OBVIOUS
  <2>2. S \cup m = S
    BY <2>1
  <2> QED BY <1>4, <1>5, <2>1, <2>2, TotalEmpty
<1> DEFINE x == First(m)
           r == m \ {x}
<1>7. x \in m
  BY <1>6, FirstIn
<1> HIDE DEF x
<1>8. /\ r \in SUBSET R /\ r \subseteq m /\ r # m
      /\ m = r \cup {x} /\ x \notin r /\ x \notin S \cup r
      /\ S \cup m = (S \cup r) \cup {x}
  BY <1>4, <1>7
<1>9. IsFiniteSet(r) /\ IsFiniteSet(S \cup r)
  BY <1>8, FS_Subset, FS_Union
<1>10. Total(S \cup r, v) = Total(S, v) + Total(r, v)
  BY <1>3, <1>8 DEF Bad
<1>11. \A y \in (S \cup r) \cup {x} : v[y] \in Int
  BY <1>4, <1>7, <1>8
<1> HIDE DEF r
<1>12. Total(m, v) = Total(r, v) + v[x]
  BY <1>8, <1>9, <1>11, TotalAdd
<1>13. Total(S \cup m, v) = Total(S \cup r, v) + v[x]
  BY <1>8, <1>9, <1>11, TotalAdd
<1>14. Total(r, v) \in Int /\ v[x] \in Int
  BY <1>9, <1>11, TotalInt
<1> QED BY <1>4, <1>5, <1>10, <1>12, <1>13, <1>14

\* What is taken out of a set is taken off its sum.
LEMMA TotalMinus ==
  ASSUME NEW S, IsFiniteSet(S), NEW R, R \subseteq S,
         NEW v, \A y \in S : v[y] \in Int
  PROVE  /\ Total(S \ R, v) = Total(S, v) - Total(R, v)
         /\ Total(S \ R, v) \in Int /\ Total(S, v) \in Int /\ Total(R, v) \in Int
<1>1. IsFiniteSet(R) /\ IsFiniteSet(S \ R)
  BY FS_Subset
<1>2. (S \ R) \cup R = S /\ (S \ R) \cap R = {}
  OBVIOUS
<1>3. Total((S \ R) \cup R, v) = Total(S \ R, v) + Total(R, v)
  BY <1>1, <1>2, TotalUnion
<1>4. Total(S \ R, v) \in Int /\ Total(S, v) \in Int /\ Total(R, v) \in Int
  BY <1>1, TotalInt
<1> QED BY <1>2, <1>3, <1>4

\* A sum of naturals is a natural.
LEMMA TotalNat ==
  ASSUME NEW S, IsFiniteSet(S), NEW v, \A x \in S : v[x] \in Nat
  PROVE  Total(S, v) \in Nat
<1> DEFINE Bad == {s \in SUBSET S : Total(s, v) \notin Nat}
<1> HIDE DEF Bad
<1>1. SUFFICES ASSUME Bad # {} PROVE FALSE
  BY DEF Bad
<1>2. Bad \subseteq SUBSET S
  BY DEF Bad
<1>3. PICK m \in Bad : \A t \in Bad : t \subseteq m => t = m
  BY <1>1, <1>2, MinimalSubset
<1>4. m \in SUBSET S /\ IsFiniteSet(m) /\ Total(m, v) \notin Nat
  BY FS_Subset DEF Bad
<1>5. m # {}
  BY <1>4, TotalEmpty
<1>6. First(m) \in m
  BY <1>5, FirstIn
<1>7. Total(m \ {First(m)}, v) \in Nat
  BY <1>3, <1>4, <1>6 DEF Bad
<1>8. Total(m, v) = v[First(m)] + Total(m \ {First(m)}, v)
  BY <1>4, <1>5, TotalStep
<1> QED BY <1>4, <1>6, <1>7, <1>8

\* MapThenSumSet over the values of records is such a sum.
LEMMA SumOfValues ==
  ASSUME NEW S, IsFiniteSet(S), NEW v, \A c \in S : v[c] = c.value
  PROVE  MapThenSumSet(LAMBDA c : c.value, S) = Total(S, v)
<1> DEFINE Body(f, s) == IF s = {} THEN 0 ELSE First(s).value + f[s \ {First(s)}]
           Filled(f) == f = [s \in SUBSET S |-> Body(f, s)]
           g == CHOOSE f : Filled(f)
<1>1. MapThenSumSet(LAMBDA c : c.value, S) = g[S]
  BY DEF MapThenSumSet, MapThenFoldSet, First
<1>2. ASSUME NEW f PROVE SumTable(f, S, v) <=> Filled(f)
  <2>1. ASSUME NEW s \in SUBSET S
        PROVE  Body(f, s) = IF s = {} THEN 0 ELSE v[First(s)] + f[s \ {First(s)}]
    BY FirstIn
  <2> HIDE DEF Body
  <2>2. [s \in SUBSET S |-> Body(f, s)]
          = [s \in SUBSET S |-> IF s = {} THEN 0 ELSE v[First(s)] + f[s \ {First(s)}]]
    BY <2>1
  <2> QED BY <2>2 DEF SumTable
<1> HIDE DEF Filled
<1>3. Filled(g)
  <2>1. Filled(Table(S, v))
    BY <1>2, TableExists
  <2> QED BY <2>1
<1> HIDE DEF g
<1>4. SumTable(g, S, v) /\ SumTable(Table(S, v), S, v) /\ S \in SUBSET S
  BY <1>2, <1>3, TableExists
<1>5. g[S] = Table(S, v)[S]
  BY <1>4, TablesAgree
<1> QED BY <1>1, <1>5 DEF Total

\* So is SumFunctionOnSet over the values of a function.
LEMMA SumOnSetIsTotal ==
  ASSUME NEW S, IsFiniteSet(S), NEW v
  PROVE  SumFunctionOnSet(v, S) = Total(S, v)
<1> DEFINE Body(f, s) == IF s = {} THEN 0 ELSE v[First(s)] + f[s \ {First(s)}]
           Filled(f) == f = [s \in SUBSET S |-> Body(f, s)]
           g == CHOOSE f : Filled(f)
<1>1. SumFunctionOnSet(v, S) = g[S]
  BY DEF SumFunctionOnSet, FoldFunctionOnSet, MapThenFoldSet, First
<1>2. \A f : SumTable(f, S, v) <=> Filled(f)
  BY DEF SumTable
<1> HIDE DEF Filled
<1>3. Filled(g)
  <2>1. Filled(Table(S, v))
    BY <1>2, TableExists
  <2> QED BY <2>1
<1> HIDE DEF g
<1>4. SumTable(g, S, v) /\ SumTable(Table(S, v), S, v) /\ S \in SUBSET S
  BY <1>2, <1>3, TableExists
<1>5. g[S] = Table(S, v)[S]
  BY <1>4, TablesAgree
<1> QED BY <1>1, <1>5 DEF Total

\* A sum depends on the values of its own elements only.
LEMMA TotalSame ==
  ASSUME NEW S, IsFiniteSet(S), NEW v, NEW w, \A x \in S : v[x] = w[x]
  PROVE  Total(S, v) = Total(S, w)
<1>1. SumTable(Table(S, v), S, v) /\ SumTable(Table(S, w), S, w) /\ S \in SUBSET S
  BY TableExists
<1> DEFINE f == Table(S, w)
<1>2. SumTable(f, S, v)
  <2> HIDE DEF f
  <2>1. ASSUME NEW s \in SUBSET S
        PROVE  (IF s = {} THEN 0 ELSE w[First(s)] + f[s \ {First(s)}])
                 = IF s = {} THEN 0 ELSE v[First(s)] + f[s \ {First(s)}]
    BY FirstIn
  <2>2. SumTable(f, S, w)
    BY <1>1 DEF f
  <2> QED BY <2>1, <2>2 DEF SumTable
<1>3. \A s \in SUBSET S : Table(S, v)[s] = f[s]
  BY <1>1, <1>2, TablesAgree
<1> QED BY <1>1, <1>3 DEF Total

\* Smaller integers have a smaller sum.
LEMMA TotalBelow ==
  ASSUME NEW S, IsFiniteSet(S), NEW v, NEW w,
         \A x \in S : v[x] \in Int /\ w[x] \in Int /\ v[x] <= w[x]
  PROVE  Total(S, v) <= Total(S, w)
<1> DEFINE Bad == {s \in SUBSET S : ~(Total(s, v) <= Total(s, w))}
<1> HIDE DEF Bad
<1>1. SUFFICES ASSUME Bad # {} PROVE FALSE
  BY DEF Bad
<1>2. Bad \subseteq SUBSET S
  BY DEF Bad
<1>3. PICK m \in Bad : \A t \in Bad : t \subseteq m => t = m
  BY <1>1, <1>2, MinimalSubset
<1>4. m \in SUBSET S /\ IsFiniteSet(m) /\ ~(Total(m, v) <= Total(m, w))
  BY FS_Subset DEF Bad
<1>5. m # {}
  <2>1. SUFFICES ASSUME m = {} PROVE FALSE
    OBVIOUS
  <2>2. Total(m, v) = 0 /\ Total(m, w) = 0
    BY <2>1, TotalEmpty
  <2> QED BY <1>4, <2>2
<1> DEFINE x == First(m)
           r == m \ {x}
<1>6. x \in m
  BY <1>5, FirstIn
<1>7. Total(m, v) = v[x] + Total(r, v) /\ Total(m, w) = w[x] + Total(r, w)
  BY <1>4, <1>5, TotalStep
<1> HIDE DEF x
<1>8. r \in SUBSET S /\ r \subseteq m /\ r # m /\ IsFiniteSet(r)
  BY <1>4, <1>6, FS_Subset
<1>9. Total(r, v) <= Total(r, w)
  BY <1>3, <1>8 DEF Bad
<1> HIDE DEF r
<1>10. Total(r, v) \in Int /\ Total(r, w) \in Int
  BY <1>8, TotalInt
<1>11. v[x] \in Int /\ w[x] \in Int /\ v[x] <= w[x]
  BY <1>4, <1>6
<1> QED BY <1>4, <1>7, <1>9, <1>10, <1>11

\* A sum of zeros is zero.
LEMMA TotalZero ==
  ASSUME NEW S, IsFiniteSet(S), NEW v, \A x \in S : v[x] = 0
  PROVE  Total(S, v) = 0
<1> DEFINE Bad == {s \in SUBSET S : Total(s, v) # 0}
<1> HIDE DEF Bad
<1>1. SUFFICES ASSUME Bad # {} PROVE FALSE
  BY DEF Bad
<1>2. Bad \subseteq SUBSET S
  BY DEF Bad
<1>3. PICK m \in Bad : \A t \in Bad : t \subseteq m => t = m
  BY <1>1, <1>2, MinimalSubset
<1>4. m \in SUBSET S /\ IsFiniteSet(m) /\ Total(m, v) # 0
  BY FS_Subset DEF Bad
<1>5. m # {}
  BY <1>4, TotalEmpty
<1>6. First(m) \in m
  BY <1>5, FirstIn
<1>7. Total(m \ {First(m)}, v) = 0
  BY <1>3, <1>4, <1>6 DEF Bad
<1>8. Total(m, v) = v[First(m)] + Total(m \ {First(m)}, v)
  BY <1>4, <1>5, TotalStep
<1> QED BY <1>4, <1>6, <1>7, <1>8

\* A sum over part of a set of naturals is at most the sum over all of it.
LEMMA TotalPart ==
  ASSUME NEW S, IsFiniteSet(S), NEW R, R \subseteq S,
         NEW v, \A y \in S : v[y] \in Nat
  PROVE  Total(R, v) <= Total(S, v)
<1>1. /\ Total(S \ R, v) = Total(S, v) - Total(R, v)
      /\ Total(S, v) \in Int /\ Total(R, v) \in Int
  BY TotalMinus
<1>2. Total(S \ R, v) \in Nat
  <2>1. IsFiniteSet(S \ R)
    BY FS_Subset
  <2> QED BY <2>1, TotalNat
<1> QED BY <1>1, <1>2

\* Renaming the elements does not change a sum.
LEMMA TotalImage ==
  ASSUME NEW S, IsFiniteSet(S), NEW h,
         \A x \in S : \A y \in S : h[x] = h[y] => x = y,
         NEW v, NEW w, \A x \in S : w[x] = v[h[x]] /\ w[x] \in Int
  PROVE  Total({h[x] : x \in S}, v) = Total(S, w)
<1> DEFINE Image(s) == {h[x] : x \in s}
           Bad == {s \in SUBSET S : Total(Image(s), v) # Total(s, w)}
<1>1. SUFFICES ASSUME Bad # {} PROVE FALSE
  OBVIOUS
<1>2. Bad \subseteq SUBSET S
  OBVIOUS
<1> HIDE DEF Bad
<1>3. PICK m \in Bad : \A t \in Bad : t \subseteq m => t = m
  BY <1>1, <1>2, MinimalSubset
<1>4. m \in SUBSET S /\ IsFiniteSet(m) /\ Total(Image(m), v) # Total(m, w)
  BY FS_Subset DEF Bad
<1>5. m # {}
  <2>1. SUFFICES ASSUME m = {} PROVE FALSE
    OBVIOUS
  <2>2. Image(m) = {}
    BY <2>1
  <2> QED BY <1>4, <2>1, <2>2, TotalEmpty
<1> DEFINE x == First(m)
           r == m \ {x}
<1>6. x \in m
  BY <1>5, FirstIn
<1>7. Total(m, w) = w[x] + Total(r, w)
  BY <1>4, <1>5, TotalStep
<1> HIDE DEF x
<1>8. r \in SUBSET S /\ r \subseteq m /\ r # m /\ IsFiniteSet(r)
  BY <1>4, <1>6, FS_Subset
<1>9. Total(Image(r), v) = Total(r, w)
  BY <1>3, <1>8 DEF Bad
<1>10. Image(m) = Image(r) \cup {h[x]} /\ h[x] \notin Image(r)
  <2>1. m = r \cup {x} /\ x \notin r
    BY <1>6
  <2> HIDE DEF r
  <2>2. Image(r \cup {x}) = Image(r) \cup {h[x]}
    OBVIOUS
  <2>3. \A z \in r : h[z] # h[x]
    BY <1>4, <1>6, <1>8, <2>1
  <2> QED BY <2>1, <2>2, <2>3
<1>11. IsFiniteSet(Image(r))
  <2> HIDE DEF r
  <2> DEFINE f == [z \in r |-> h[z]]
  <2>1. f \in Surjection(r, Image(r))
    BY DEF Surjection
  <2> HIDE DEF f, Image
  <2> QED BY <1>8, <2>1, FS_Surjection
<1>12. \A y \in Image(r) \cup {h[x]} : v[y] \in Int
  BY <1>4, <1>6
<1> HIDE DEF Image, r
<1>13. Total(Image(m), v) = Total(Image(r), v) + v[h[x]]
  <2> DEFINE A == Image(r)
             e == h[x]
  <2> HIDE DEF A, e
  <2>1. IsFiniteSet(A) /\ e \notin A /\ (\A y \in A \cup {e} : v[y] \in Int)
    BY <1>10, <1>11, <1>12 DEF A, e
  <2>2. Total(A \cup {e}, v) = Total(A, v) + v[e]
    BY <2>1, TotalAdd
  <2> QED BY <1>10, <2>2 DEF A, e
<1>14. v[h[x]] = w[x] /\ w[x] \in Int
  BY <1>4, <1>6
<1>15. Total(r, w) \in Int
  BY <1>8, TotalInt
<1> QED BY <1>4, <1>7, <1>9, <1>13, <1>14, <1>15
=============================================================================
