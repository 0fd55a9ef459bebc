------------------------- MODULE MintRecords_proofs -------------------------
(***************************************************************************)
(* Proofs about MintRecords: the rows are the mints of the stored logs,    *)
(* for any logs and any order of overlapping batches, they add up to what  *)
(* those logs mint, and an identity that was found is kept.                *)
(***************************************************************************)
EXTENDS MintRecords, FiniteSetTheorems, WellFoundedInduction, TLAPS

\* No log that the decoder refuses is stored.
Sound == \A p \in evidence : ~ Refused(chain[p])

IInv == TypeOK /\ Sound /\ RowsOfEvidence

Allowed(p, f) == p \in Positions /\ f \in Forms /\ ~ Refused(f)

-----------------------------------------------------------------------------
(* The decoder.                                                            *)

\* The mints of a log have the log's place and a positive quantity.
LEMMA DecodedMints ==
  ASSUME NEW p, NEW f, Allowed(p, f), NEW m \in Decoded(p, f)
  PROVE  m \in Mints /\ m.tx = p.tx /\ m.index = p.index
<1>1. /\ p.tx \in STRING /\ p.index \in Nat
      /\ f.tokens \in Seq(Nat) /\ f.quantities \in Seq(Nat)
  BY PositionsAssumption, FormsAssumption DEF Allowed, LogForms
<1>2. CASE Recognised(f, "transfer")
  <2>1. m = Mint(p, 0, f.tokens[1], 1)
    BY <1>2 DEF Decoded, Recognised
  <2>2. Len(f.tokens) = 1
    BY <1>2, FormsAssumption DEF Allowed, Recognised
  <2>3. f.tokens[1] \in Nat
    BY <1>1, <2>2
  <2> QED BY <1>1, <2>1, <2>3 DEF Mint, Mints
<1>3. CASE Recognised(f, "single")
  <2>1. m = Mint(p, 0, f.tokens[1], f.quantities[1])
    BY <1>3 DEF Decoded, Recognised
  <2>2. Len(f.tokens) = 1 /\ Len(f.quantities) = 1
    BY <1>3, FormsAssumption DEF Allowed, Recognised
  <2>3. f.tokens[1] \in Nat /\ f.quantities[1] \in Nat /\ 1 \in DOMAIN f.quantities
    BY <1>1, <2>2
  <2>4. f.quantities[1] # 0
    BY <1>3, <2>3 DEF Allowed, Refused, Kinds
  <2> QED BY <1>1, <2>1, <2>3, <2>4 DEF Mint, Mints
<1>4. CASE Recognised(f, "batch")
  <2>1. PICK i \in DOMAIN f.tokens : m = Mint(p, i - 1, f.tokens[i], f.quantities[i])
    BY <1>4 DEF Decoded, Recognised
  <2>2. Len(f.tokens) = Len(f.quantities)
    BY <1>4 DEF Allowed, Refused, Recognised, Kinds
  <2>3. i - 1 \in Nat /\ f.tokens[i] \in Nat /\ f.quantities[i] \in Nat /\ i \in DOMAIN f.quantities
    BY <1>1, <2>2
  <2>4. f.quantities[i] # 0
    BY <1>4, <2>3 DEF Allowed, Refused, Kinds
  <2> QED BY <1>1, <2>1, <2>3, <2>4 DEF Mint, Mints
<1>5. CASE Recognised(f, "consecutive")
  <2>1. Len(f.tokens) = 2
    BY <1>5, FormsAssumption DEF Allowed, Recognised
  <2>2. f.tokens[1] \in Nat /\ f.tokens[2] \in Nat
    BY <1>1, <2>1
  <2>3. PICK n \in 0 .. Width(f) - 1 : m = Mint(p, n, f.tokens[1] + n, 1)
    BY <1>5 DEF Decoded, Consecutive, Recognised
  <2>4. n \in Nat /\ f.tokens[1] + n \in Nat
    BY <2>2, <2>3 DEF Width
  <2> QED BY <1>1, <2>3, <2>4 DEF Mint, Mints
<1>6. CASE ~ \E kind \in {"transfer", "single", "batch", "consecutive"} : Recognised(f, kind)
  BY <1>6 DEF Decoded
<1> QED BY <1>2, <1>3, <1>4, <1>5, <1>6

\* sub_index tells the mints of a log apart.
LEMMA SubsDiffer ==
  ASSUME NEW p, NEW f, Allowed(p, f),
         NEW m \in Decoded(p, f), NEW n \in Decoded(p, f), m.sub = n.sub
  PROVE  m = n
<1>1. f.tokens \in Seq(Nat)
  BY FormsAssumption DEF Allowed, LogForms
<1>2. CASE Recognised(f, "transfer")
  BY <1>2 DEF Decoded, Recognised
<1>3. CASE Recognised(f, "single")
  BY <1>3 DEF Decoded, Recognised
<1>4. CASE Recognised(f, "batch")
  <2>1. PICK i \in DOMAIN f.tokens : m = Mint(p, i - 1, f.tokens[i], f.quantities[i])
    BY <1>4 DEF Decoded, Recognised
  <2>2. PICK j \in DOMAIN f.tokens : n = Mint(p, j - 1, f.tokens[j], f.quantities[j])
    BY <1>4 DEF Decoded, Recognised
  <2>3. i \in Nat /\ j \in Nat /\ i - 1 = j - 1
    BY <1>1, <2>1, <2>2 DEF Mint
  <2> QED BY <2>1, <2>2, <2>3
<1>5. CASE Recognised(f, "consecutive")
  <2>1. PICK i \in 0 .. Width(f) - 1 : m = Mint(p, i, f.tokens[1] + i, 1)
    BY <1>5 DEF Decoded, Consecutive, Recognised
  <2>2. PICK j \in 0 .. Width(f) - 1 : n = Mint(p, j, f.tokens[1] + j, 1)
    BY <1>5 DEF Decoded, Consecutive, Recognised
  <2> QED BY <2>1, <2>2 DEF Mint
<1>6. CASE ~ \E kind \in {"transfer", "single", "batch", "consecutive"} : Recognised(f, kind)
  BY <1>6 DEF Decoded
<1> QED BY <1>2, <1>3, <1>4, <1>5, <1>6

\* The unique constraint refuses nothing but what is recorded already.
LEMMA KeysDiffer ==
  ASSUME NEW p, NEW f, Allowed(p, f), NEW m \in Decoded(p, f),
         NEW q, NEW g, Allowed(q, g), NEW n \in Decoded(q, g),
         p = q => f = g, Key(m) = Key(n)
  PROVE  m = n
<1>1. p \in Positions /\ q \in Positions
  BY DEF Allowed
<1>2. m.tx = p.tx /\ m.index = p.index /\ n.tx = q.tx /\ n.index = q.index
  BY DecodedMints
<1>3. m.tx = n.tx /\ m.index = n.index /\ m.sub = n.sub
  BY DEF Key
<1>4. p = q
  BY <1>1, <1>2, <1>3, PositionsAssumption
<1> QED BY <1>3, <1>4, SubsDiffer

-----------------------------------------------------------------------------
(* The invariant.                                                          *)

\* At the start no mint is recorded.
LEMMA InitIInv == Init => IInv
<1> SUFFICES ASSUME Init PROVE IInv
  OBVIOUS
<1>1. PICK logged \in SUBSET Positions : chain \in [logged -> Forms]
  BY DEF Init
<1>2. DOMAIN chain = logged
  BY <1>1
<1>3. DOMAIN rows = {}
  BY DEF Init
<1>4. TypeOK
  BY <1>1, <1>2, <1>3 DEF Init, TypeOK
<1>5. Sound /\ RowsOfEvidence
  BY <1>3 DEF Init, Sound, RowsOfEvidence, Recorded
<1> QED BY <1>4, <1>5 DEF IInv

\* A commit adds the rows of its logs, and changes no other.
LEMMA CommitRecords ==
  ASSUME IInv, NEW first, NEW last, Commit(first, last)
  PROVE  /\ IInv'
         /\ \A m \in Recorded : m \in DOMAIN rows' /\ rows'[m] = rows[m]
<1> DEFINE batch == Logs(first, last)
           mints == UNION {Decoded(p, chain[p]) : p \in batch}
           new == {m \in mints : \A r \in Recorded : Key(r) # Key(m)}
<1>1. /\ batch \subseteq DOMAIN chain /\ \A p \in batch : ~ Refused(chain[p])
      /\ evidence' = evidence \cup batch
      /\ UNCHANGED <<chain, calls>>
  BY DEF Commit, Logs
<1>2. rows' = [m \in Recorded \cup new |-> IF m \in Recorded THEN rows[m] ELSE "not_enriched"]
  BY DEF Commit, Record
<1>3. \A p \in evidence \cup batch : Allowed(p, chain[p])
  BY <1>1 DEF IInv, TypeOK, Sound, Allowed
<1>4. mints \subseteq Mints
  BY <1>3, DecodedMints
<1>5. mints \subseteq Recorded \cup new
  <2> SUFFICES ASSUME NEW m \in mints, NEW r \in Recorded, Key(r) = Key(m)
               PROVE  m \in Recorded
    OBVIOUS
  <2>1. PICK p \in batch : m \in Decoded(p, chain[p])
    OBVIOUS
  <2>2. PICK q \in evidence : r \in Decoded(q, chain[q])
    BY DEF IInv, RowsOfEvidence
  <2>3. Allowed(p, chain[p]) /\ Allowed(q, chain[q])
    BY <1>3
  <2>4. m = r
    BY <2>1, <2>2, <2>3, KeysDiffer
  <2> QED BY <2>4
<1>6. DOMAIN rows' = Recorded \cup mints
  BY <1>2, <1>5
<1>7. TypeOK'
  <2>1. rows' \in [DOMAIN rows' -> Identities]
    BY <1>2 DEF IInv, TypeOK, Recorded, Identities
  <2> QED BY <1>1, <1>4, <1>6, <2>1 DEF IInv, TypeOK, Recorded
<1>8. Sound'
  BY <1>1 DEF IInv, Sound
<1>9. RowsOfEvidence'
  BY <1>1, <1>6 DEF IInv, RowsOfEvidence, Recorded
<1>10. \A m \in Recorded : m \in DOMAIN rows' /\ rows'[m] = rows[m]
  BY <1>2
<1> QED BY <1>7, <1>8, <1>9, <1>10 DEF IInv

\* Enrichment changes rows without an identity only.
LEMMA EnrichKeeps ==
  ASSUME IInv, NEW tx, Enrich(tx)
  PROVE  /\ IInv'
         /\ \A m \in Recorded : /\ m \in DOMAIN rows'
                                /\ rows[m] # "not_enriched" => rows'[m] = rows[m]
<1>1. /\ rows' = [m \in Recorded |-> IF m \in Unenriched(tx) THEN Identity(tx) ELSE rows[m]]
      /\ UNCHANGED <<chain, calls, evidence>>
  BY DEF Enrich
<1>2. DOMAIN rows' = Recorded
  BY <1>1
<1>3. rows' \in [DOMAIN rows' -> Identities]
  BY <1>1 DEF IInv, TypeOK, Recorded, Identity, Identities
<1>4. TypeOK'
  BY <1>1, <1>2, <1>3 DEF IInv, TypeOK, Recorded
<1>5. Sound' /\ RowsOfEvidence'
  BY <1>1, <1>2 DEF IInv, Sound, RowsOfEvidence, Recorded
<1>6. \A m \in Recorded : rows[m] # "not_enriched" => rows'[m] = rows[m]
  BY <1>1 DEF Unenriched
<1> QED BY <1>2, <1>4, <1>5, <1>6 DEF IInv

\* Every commit and every enrichment keeps the invariant.
LEMMA StepIInv == IInv /\ [Next]_vars => IInv'
<1> SUFFICES ASSUME IInv, [Next]_vars PROVE IInv'
  OBVIOUS
<1>1. ASSUME NEW first \in Blocks, NEW last \in Blocks, Commit(first, last) PROVE IInv'
  BY <1>1, CommitRecords
<1>2. ASSUME NEW tx \in Txs, Enrich(tx) PROVE IInv'
  BY <1>2, EnrichKeeps
<1>3. CASE UNCHANGED vars
  BY <1>3 DEF vars, IInv, TypeOK, Sound, RowsOfEvidence, Recorded
<1> QED BY <1>1, <1>2, <1>3 DEF Next

\* The invariant holds in every state of a collection's records.
THEOREM Invariance == Spec => []IInv
  BY InitIInv, StepIInv, PTL DEF Spec

-----------------------------------------------------------------------------
(* Sums.  SumFunctionOnSet takes the elements in an order of its own.      *)

\* Induction over the subsets of a finite set: what holds of a subset if it
\* holds of those strictly inside it, holds of them all.
LEMMA SubsetInduction ==
  ASSUME NEW S, IsFiniteSet(S), NEW Good,
         \A U \in SUBSET S : (\A T \in (SUBSET U) \ {U} : T \in Good) => U \in Good
  PROVE  \A U \in SUBSET S : U \in Good
<1> DEFINE bad == (SUBSET S) \ Good
<1> SUFFICES ASSUME bad # {} PROVE FALSE
  OBVIOUS
<1>1. IsWellFoundedOn(StrictSubsetOrdering(S), FiniteSubsetsOf(S))
  BY FS_StrictSubsetOrderingWellFounded
<1>2. bad \subseteq FiniteSubsetsOf(S)
  BY FS_Subset DEF FiniteSubsetsOf
<1>3. PICK U \in bad : \A T \in bad : ~ (<<T, U>> \in StrictSubsetOrdering(S))
  <2> HIDE DEF bad
  <2> QED BY <1>1, <1>2, WFMin
<1>4. \A T \in (SUBSET U) \ {U} : T \in Good
  <2> SUFFICES ASSUME NEW T \in (SUBSET U) \ {U}, T \notin Good PROVE FALSE
    OBVIOUS
  <2>1. T \in bad
    OBVIOUS
  <2>2. <<T, U>> \in StrictSubsetOrdering(S)
    BY <2>1 DEF StrictSubsetOrdering
  <2> QED BY <1>3, <2>1, <2>2
<1> QED BY <1>4

AnyOf(T) == CHOOSE x \in T : TRUE

\* h is the sum of f over each subset of S, taken element by element.
IsSum(f, S, h) ==
  h = [T \in SUBSET S |-> IF T = {} THEN 0 ELSE f[AnyOf(T)] + h[T \ {AnyOf(T)}]]

\* A step of such a sum.
LEMMA SumStep ==
  ASSUME NEW f, NEW S, NEW h, IsSum(f, S, h), NEW T \in SUBSET S
  PROVE  h[T] = IF T = {} THEN 0 ELSE f[AnyOf(T)] + h[T \ {AnyOf(T)}]
  BY DEF IsSum

\* A set without the element that is taken of it.
LEMMA WithoutAny ==
  ASSUME NEW T, T # {}
  PROVE  AnyOf(T) \in T /\ T \ {AnyOf(T)} \in (SUBSET T) \ {T}
  BY DEF AnyOf

\* Two sums agree where both are defined.
LEMMA SumUnique ==
  ASSUME NEW f, NEW A, NEW B, NEW h, NEW k, IsSum(f, A, h), IsSum(f, B, k),
         NEW S, IsFiniteSet(S), S \subseteq A, S \subseteq B
  PROVE  h[S] = k[S]
<1> DEFINE Good == {T \in SUBSET S : h[T] = k[T]}
<1>1. ASSUME NEW U \in SUBSET S, \A T \in (SUBSET U) \ {U} : T \in Good
      PROVE  U \in Good
  <2>1. CASE U = {}
    <3>1. h[U] = 0 /\ k[U] = 0
      BY <2>1, SumStep
    <3> QED BY <3>1
  <2>2. CASE U # {}
    <3>0. U \in SUBSET A /\ U \in SUBSET B
      OBVIOUS
    <3>1. /\ h[U] = f[AnyOf(U)] + h[U \ {AnyOf(U)}]
          /\ k[U] = f[AnyOf(U)] + k[U \ {AnyOf(U)}]
      <4> HIDE DEF Good
      <4>1. h[U] = f[AnyOf(U)] + h[U \ {AnyOf(U)}]
        BY <2>2, <3>0, SumStep
      <4>2. k[U] = f[AnyOf(U)] + k[U \ {AnyOf(U)}]
        BY <2>2, <3>0, SumStep
      <4> QED BY <4>1, <4>2
    <3>2. h[U \ {AnyOf(U)}] = k[U \ {AnyOf(U)}]
      BY <1>1, <2>2, WithoutAny
    <3> QED BY <3>1, <3>2
  <2> QED BY <2>1, <2>2
<1> HIDE DEF Good
<1>2. S \in Good
  BY <1>1, SubsetInduction
<1> QED BY <1>2 DEF Good

\* A finite set has such a sum.
LEMMA SumExists ==
  ASSUME NEW f, NEW S, IsFiniteSet(S)
  PROVE  \E h : IsSum(f, S, h)
<1> DEFINE H(T) == CHOOSE h : IsSum(f, T, h)
           Good == {T \in SUBSET S : \E h : IsSum(f, T, h)}
<1>1. ASSUME NEW U \in SUBSET S, \A T \in (SUBSET U) \ {U} : T \in Good
      PROVE  U \in Good
  <2> DEFINE h == [T \in SUBSET U |-> IF T = {} THEN 0
                     ELSE f[AnyOf(T)] + H(T \ {AnyOf(T)})[T \ {AnyOf(T)}]]
  <2>1. \A T \in (SUBSET U) \ {U} : IsSum(f, T, H(T)) /\ IsFiniteSet(T)
    BY <1>1, FS_Subset
  <2>2. ASSUME NEW V \in (SUBSET U) \ {U}
        PROVE  h[V] = H(V)[V]
    <3>1. IsSum(f, V, H(V))
      BY <2>1
    <3>2. CASE V = {}
      <4>1. H(V)[V] = 0
        BY <3>1, <3>2, SumStep
      <4>2. h[V] = 0
        BY <3>2
      <4> QED BY <4>1, <4>2
    <3>3. CASE V # {}
      <4> DEFINE W == V \ {AnyOf(V)}
      <4>1. W \in (SUBSET V) \ {V} /\ W \in (SUBSET U) \ {U}
        BY <3>3, WithoutAny
      <4>2. H(V)[V] = f[AnyOf(V)] + H(V)[W]
        BY <3>1, <3>3, SumStep
      <4>3. H(V)[W] = H(W)[W]
        <5>1. IsSum(f, W, H(W)) /\ IsFiniteSet(W)
          BY <2>1, <4>1
        <5> HIDE DEF H, W
        <5> QED BY <3>1, <4>1, <5>1, SumUnique
      <4>4. h[V] = f[AnyOf(V)] + H(W)[W]
        BY <3>3
      <4> QED BY <4>2, <4>3, <4>4
    <3> QED BY <3>2, <3>3
  <2>3. ASSUME NEW T \in SUBSET U
        PROVE  h[T] = IF T = {} THEN 0 ELSE f[AnyOf(T)] + h[T \ {AnyOf(T)}]
    <3>1. CASE T = {}
      BY <3>1
    <3>2. CASE T # {}
      <4>1. T \ {AnyOf(T)} \in (SUBSET U) \ {U}
        BY <3>2, WithoutAny
      <4>2. h[T] = f[AnyOf(T)] + H(T \ {AnyOf(T)})[T \ {AnyOf(T)}]
        BY <3>2
      <4>3. h[T \ {AnyOf(T)}] = H(T \ {AnyOf(T)})[T \ {AnyOf(T)}]
        BY <2>2, <4>1
      <4> QED BY <3>2, <4>2, <4>3
    <3> QED BY <3>1, <3>2
  <2>4. \E g : g = [T \in SUBSET U |-> g[T]] /\ \A T \in SUBSET U :
          g[T] = IF T = {} THEN 0 ELSE f[AnyOf(T)] + g[T \ {AnyOf(T)}]
    <3>1. h = [T \in SUBSET U |-> h[T]]
      OBVIOUS
    <3> HIDE DEF h
    <3> QED BY <2>3, <3>1
  <2>5. PICK g : /\ g = [T \in SUBSET U |-> g[T]]
                 /\ \A T \in SUBSET U :
                      g[T] = IF T = {} THEN 0 ELSE f[AnyOf(T)] + g[T \ {AnyOf(T)}]
    BY <2>4
  <2>6. IsSum(f, U, g)
    BY ONLY <2>5, Zenon DEF IsSum
  <2> QED BY <2>6
<1> HIDE DEF Good
<1>2. S \in Good
  BY <1>1, SubsetInduction
<1> QED BY <1>2 DEF Good

\* The sum of the library is such a sum.
LEMMA SumIsSum ==
  ASSUME NEW f, NEW S, NEW h, IsSum(f, S, h), IsFiniteSet(S)
  PROVE  SumFunctionOnSet(f, S) = h[S]
<1>1. SumFunctionOnSet(f, S) = (CHOOSE k : IsSum(f, S, k))[S]
  BY Zenon DEF SumFunctionOnSet, FoldFunctionOnSet, MapThenFoldSet, IsSum, AnyOf
<1>2. IsSum(f, S, CHOOSE k : IsSum(f, S, k))
  OBVIOUS
<1> QED BY <1>1, <1>2, SumUnique

\* The empty sum, and one more element than the rest.
LEMMA SumOfAny ==
  ASSUME NEW f, NEW S, IsFiniteSet(S)
  PROVE  SumFunctionOnSet(f, S) =
           IF S = {} THEN 0 ELSE f[AnyOf(S)] + SumFunctionOnSet(f, S \ {AnyOf(S)})
<1>1. PICK h : IsSum(f, S, h)
  BY SumExists
<1>2. SumFunctionOnSet(f, S) = h[S]
  BY <1>1, SumIsSum
<1>3. h[S] = IF S = {} THEN 0 ELSE f[AnyOf(S)] + h[S \ {AnyOf(S)}]
  BY <1>1, SumStep
<1>4. CASE S # {}
  <2>1. IsFiniteSet(S \ {AnyOf(S)}) /\ S \ {AnyOf(S)} \subseteq S
    BY FS_RemoveElement
  <2>2. PICK k : IsSum(f, S \ {AnyOf(S)}, k)
    BY <2>1, SumExists
  <2>3. SumFunctionOnSet(f, S \ {AnyOf(S)}) = k[S \ {AnyOf(S)}]
    BY <2>1, <2>2, SumIsSum
  <2>4. k[S \ {AnyOf(S)}] = h[S \ {AnyOf(S)}]
    BY <1>1, <2>1, <2>2, SumUnique
  <2> QED BY <1>2, <1>3, <1>4, <2>3, <2>4
<1> QED BY <1>2, <1>3, <1>4

\* A sum of integers is one.
LEMMA SumType ==
  ASSUME NEW f, NEW S, IsFiniteSet(S), \A x \in S : f[x] \in Int
  PROVE  SumFunctionOnSet(f, S) \in Int
<1> DEFINE Good == {T \in SUBSET S : SumFunctionOnSet(f, T) \in Int}
<1>1. ASSUME NEW U \in SUBSET S, \A T \in (SUBSET U) \ {U} : T \in Good
      PROVE  U \in Good
  <2>1. IsFiniteSet(U)
    BY FS_Subset
  <2>2. SumFunctionOnSet(f, U) =
          IF U = {} THEN 0 ELSE f[AnyOf(U)] + SumFunctionOnSet(f, U \ {AnyOf(U)})
    BY <2>1, SumOfAny
  <2>3. CASE U # {}
    <3>1. AnyOf(U) \in U /\ U \ {AnyOf(U)} \in Good
      BY <1>1, <2>3, WithoutAny
    <3> QED BY <2>2, <2>3, <3>1
  <2> QED BY <2>2, <2>3
<1> HIDE DEF Good
<1>2. S \in Good
  BY <1>1, SubsetInduction
<1> QED BY <1>2 DEF Good

\* Any element may be taken first.
LEMMA SumTake ==
  ASSUME NEW f, NEW S, IsFiniteSet(S), \A x \in S : f[x] \in Int, NEW x \in S
  PROVE  SumFunctionOnSet(f, S) = f[x] + SumFunctionOnSet(f, S \ {x})
<1> DEFINE Sum(T) == SumFunctionOnSet(f, T)
           Good == {T \in SUBSET S : \A y \in T : Sum(T) = f[y] + Sum(T \ {y})}
<1>0. \A T \in SUBSET S : IsFiniteSet(T) /\ Sum(T) \in Int
  BY FS_Subset, SumType
<1>1. ASSUME NEW U \in SUBSET S, \A T \in (SUBSET U) \ {U} : T \in Good
      PROVE  U \in Good
  <2> SUFFICES ASSUME NEW y \in U PROVE Sum(U) = f[y] + Sum(U \ {y})
    OBVIOUS
  <2>1. PICK a \in U : a = AnyOf(U)
    BY WithoutAny
  <2>2. Sum(U) = f[a] + Sum(U \ {a})
    BY <1>0, <2>1, SumOfAny
  <2>3. CASE a # y
    <3>1. Sum(U \ {a}) = f[y] + Sum((U \ {a}) \ {y})
      BY <1>1, <2>3
    <3>2. Sum(U \ {y}) = f[a] + Sum((U \ {y}) \ {a})
      BY <1>1, <2>3
    <3>3. (U \ {a}) \ {y} = (U \ {y}) \ {a}
      OBVIOUS
    <3>4. PICK T \in SUBSET S : T = (U \ {y}) \ {a}
      OBVIOUS
    <3>5. Sum(T) \in Int /\ f[a] \in Int /\ f[y] \in Int
      BY <1>0
    <3>6. Sum(U \ {a}) = f[y] + Sum(T) /\ Sum(U \ {y}) = f[a] + Sum(T)
      BY <3>1, <3>2, <3>3, <3>4
    <3>7. \A i, j, k \in Int : i + (j + k) = j + (i + k)
      OBVIOUS
    <3> QED BY ONLY <2>2, <3>5, <3>6, <3>7
  <2> QED BY <2>2, <2>3
<1>2. S \in Good
  <2> HIDE DEF Good
  <2> QED BY <1>1, SubsetInduction
<1> QED BY <1>2

\* One element more.
LEMMA SumAdd ==
  ASSUME NEW f, NEW S, IsFiniteSet(S), NEW x, x \notin S,
         \A y \in S \cup {x} : f[y] \in Int
  PROVE  SumFunctionOnSet(f, S \cup {x}) = SumFunctionOnSet(f, S) + f[x]
<1>1. IsFiniteSet(S \cup {x}) /\ (S \cup {x}) \ {x} = S
  BY FS_AddElement
<1>2. SumFunctionOnSet(f, S \cup {x}) = f[x] + SumFunctionOnSet(f, S)
  BY <1>1, SumTake
<1>3. SumFunctionOnSet(f, S) \in Int
  BY SumType
<1> QED BY <1>2, <1>3

\* No element.
LEMMA SumEmpty ==
  ASSUME NEW f
  PROVE  SumFunctionOnSet(f, {}) = 0
  BY SumOfAny, FS_EmptySet

\* One element.
LEMMA SumOne ==
  ASSUME NEW f, NEW x, f[x] \in Int
  PROVE  SumFunctionOnSet(f, {x}) = f[x]
<1>1. SumFunctionOnSet(f, {} \cup {x}) = SumFunctionOnSet(f, {}) + f[x]
  BY FS_EmptySet, SumAdd
<1>2. {} \cup {x} = {x}
  OBVIOUS
<1> QED BY <1>1, <1>2, SumEmpty

\* Sets without a common element add up.
LEMMA SumUnion ==
  ASSUME NEW f, NEW A, NEW B, IsFiniteSet(A), IsFiniteSet(B), A \cap B = {},
         \A x \in A \cup B : f[x] \in Int
  PROVE  SumFunctionOnSet(f, A \cup B) = SumFunctionOnSet(f, A) + SumFunctionOnSet(f, B)
<1> DEFINE Sum(T) == SumFunctionOnSet(f, T)
           Good == {T \in SUBSET B : Sum(A \cup T) = Sum(A) + Sum(T)}
<1>0. /\ \A T \in SUBSET B : IsFiniteSet(T) /\ Sum(T) \in Int
      /\ Sum(A) \in Int
  BY FS_Subset, SumType
<1>1. ASSUME NEW U \in SUBSET B, \A T \in (SUBSET U) \ {U} : T \in Good
      PROVE  U \in Good
  <2>1. CASE U = {}
    <3>1. A \cup U = A /\ Sum(U) = 0
      BY <2>1, SumEmpty
    <3>2. Sum(A \cup U) = Sum(A)
      BY <3>1
    <3>3. Sum(A) = Sum(A) + 0
      BY ONLY <1>0
    <3> QED BY <3>1, <3>2, <3>3
  <2>2. CASE U # {}
    <3>1. PICK x \in U : TRUE
      BY <2>2
    <3>2. PICK T \in SUBSET B : T = U \ {x}
      OBVIOUS
    <3>3. Sum(A \cup T) = Sum(A) + Sum(T)
      BY <1>1, <3>1, <3>2
    <3>4. Sum(T \cup {x}) = Sum(T) + f[x]
      BY <1>0, <3>2, SumAdd
    <3>5. IsFiniteSet(A \cup T) /\ x \notin A \cup T
      BY <1>0, <3>2, FS_Union
    <3>6. Sum((A \cup T) \cup {x}) = Sum(A \cup T) + f[x]
      BY <3>5, SumAdd
    <3>7. (A \cup T) \cup {x} = A \cup U /\ T \cup {x} = U
      BY <3>1, <3>2
    <3>8. Sum(T) \in Int /\ f[x] \in Int
      BY <1>0
    <3>9. Sum(A \cup U) = Sum(A) + Sum(U)
      <4> HIDE DEF Sum
      <4> QED BY <1>0, <3>3, <3>4, <3>6, <3>7, <3>8
    <3> QED BY <3>9
  <2> QED BY <2>1, <2>2
<1>2. B \in Good
  <2> HIDE DEF Good
  <2> QED BY <1>1, SubsetInduction
<1> QED BY <1>2

Image(h, S) == {h[x] : x \in S}

\* The sum over the image of a set under a function that keeps its elements apart.
LEMMA SumImage ==
  ASSUME NEW f, NEW S, IsFiniteSet(S), NEW g, NEW h,
         \A x \in S : f[x] \in Int /\ g[h[x]] = f[x],
         \A x, y \in S : h[x] = h[y] => x = y
  PROVE  /\ IsFiniteSet(Image(h, S))
         /\ SumFunctionOnSet(g, Image(h, S)) = SumFunctionOnSet(f, S)
<1> DEFINE Good == {T \in SUBSET S : /\ IsFiniteSet(Image(h, T))
                                     /\ SumFunctionOnSet(g, Image(h, T)) = SumFunctionOnSet(f, T)}
<1>1. ASSUME NEW U \in SUBSET S, \A T \in (SUBSET U) \ {U} : T \in Good
      PROVE  U \in Good
  <2>1. CASE U = {}
    <3>1. Image(h, U) = {}
      BY <2>1 DEF Image
    <3>2. IsFiniteSet({}) /\ SumFunctionOnSet(g, {}) = 0 /\ SumFunctionOnSet(f, {}) = 0
      BY SumEmpty, FS_EmptySet
    <3> QED BY <2>1, <3>1, <3>2
  <2>2. CASE U # {}
    <3>1. PICK x \in U : TRUE
      BY <2>2
    <3>2. PICK T \in SUBSET S : T = U \ {x}
      OBVIOUS
    <3>3. IsFiniteSet(Image(h, T)) /\ SumFunctionOnSet(g, Image(h, T)) = SumFunctionOnSet(f, T)
      BY <1>1, <3>1, <3>2
    <3>4. Image(h, U) = Image(h, T) \cup {h[x]} /\ h[x] \notin Image(h, T)
      BY <3>1, <3>2 DEF Image
    <3>5. SumFunctionOnSet(f, T \cup {x}) = SumFunctionOnSet(f, T) + f[x]
      BY <3>2, FS_Subset, SumAdd
    <3>6. \A y \in Image(h, T) \cup {h[x]} : g[y] \in Int
      BY <3>2 DEF Image
    <3>7. SumFunctionOnSet(g, Image(h, T) \cup {h[x]}) = SumFunctionOnSet(g, Image(h, T)) + g[h[x]]
      <4> QED BY <3>3, <3>4, <3>6, SumAdd
    <3>8. IsFiniteSet(Image(h, T) \cup {h[x]})
      <4> QED BY <3>3, FS_AddElement
    <3>9. T \cup {x} = U
      BY <3>1, <3>2
    <3>10. SumFunctionOnSet(g, Image(h, U)) = SumFunctionOnSet(f, U)
      <4> QED BY <3>3, <3>4, <3>5, <3>7, <3>9
    <3>11. IsFiniteSet(Image(h, U))
      <4> QED BY <3>4, <3>8
    <3> QED BY <3>10, <3>11
  <2> QED BY <2>1, <2>2
<1>2. S \in Good
  <2> HIDE DEF Good
  <2> QED BY <1>1, SubsetInduction
<1> QED BY <1>2

\* Functions that agree on a set have the same sum over it.
LEMMA SumSame ==
  ASSUME NEW f, NEW S, IsFiniteSet(S), NEW g, \A x \in S : f[x] \in Int /\ g[x] = f[x]
  PROVE  SumFunctionOnSet(g, S) = SumFunctionOnSet(f, S)
<1> DEFINE h == [x \in S |-> x]
<1>1. \A x \in S : h[x] = x
  OBVIOUS
<1>2. Image(h, S) = S
  BY <1>1 DEF Image
<1> HIDE DEF h
<1>3. SumFunctionOnSet(g, Image(h, S)) = SumFunctionOnSet(f, S)
  BY <1>1, SumImage
<1> QED BY <1>2, <1>3

-----------------------------------------------------------------------------
(* What the rows add up to.                                                *)

Quantity == [m \in Mints |-> m.quantity]
Of(mints, token) == {m \in mints : m.token = token}
Unprefixed(f) == f.prefix = ""
Batch(p, tokens, quantities) ==
  {Mint(p, i - 1, tokens[i], quantities[i]) : i \in DOMAIN tokens}
Elements(tokens, token) == {i \in DOMAIN tokens : tokens[i] = token}

\* A mint of a place, a token and a positive quantity.
LEMMA MintFields ==
  ASSUME NEW p \in Positions
  PROVE  \A sub, token \in Nat : \A quantity \in Nat \ {0} :
           /\ Mint(p, sub, token, quantity) \in Mints
           /\ Mint(p, sub, token, quantity).sub = sub
           /\ Mint(p, sub, token, quantity).token = token
           /\ Quantity[Mint(p, sub, token, quantity)] = quantity
<1> SUFFICES ASSUME NEW sub \in Nat, NEW token \in Nat, NEW quantity \in Nat \ {0}
             PROVE  /\ Mint(p, sub, token, quantity) \in Mints
                    /\ Mint(p, sub, token, quantity).sub = sub
                    /\ Mint(p, sub, token, quantity).token = token
                    /\ Quantity[Mint(p, sub, token, quantity)] = quantity
  OBVIOUS
<1>1. p.tx \in STRING /\ p.index \in Nat
  BY PositionsAssumption
<1>2. /\ Mint(p, sub, token, quantity) \in Mints
      /\ Mint(p, sub, token, quantity).sub = sub
      /\ Mint(p, sub, token, quantity).token = token
      /\ Mint(p, sub, token, quantity).quantity = quantity
  BY <1>1 DEF Mint, Mints
<1> QED BY <1>2 DEF Quantity

\* A log with a single mint.
LEMMA OneMinted ==
  ASSUME NEW p \in Positions, NEW minted \in Nat, NEW quantity \in Nat \ {0},
         NEW token \in Nat
  PROVE  /\ IsFiniteSet(Of({Mint(p, 0, minted, quantity)}, token))
         /\ SumFunctionOnSet(Quantity, Of({Mint(p, 0, minted, quantity)}, token)) =
              IF minted = token THEN quantity ELSE 0
<1> DEFINE m == Mint(p, 0, minted, quantity)
<1>1. m.token = minted /\ Quantity[m] = quantity
  BY MintFields
<1> HIDE DEF m
<1>2. Of({m}, token) = IF minted = token THEN {m} ELSE {}
  BY <1>1 DEF Of
<1>3. IsFiniteSet({m}) /\ IsFiniteSet({})
  BY FS_Singleton, FS_EmptySet
<1>4. SumFunctionOnSet(Quantity, {}) = 0 /\ SumFunctionOnSet(Quantity, {m}) = quantity
  BY <1>1, SumEmpty, SumOne
<1>5. /\ IsFiniteSet(Of({m}, token))
      /\ SumFunctionOnSet(Quantity, Of({m}, token)) = IF minted = token THEN quantity ELSE 0
  BY <1>2, <1>3, <1>4
<1> QED BY <1>5 DEF m

\* The rows of a batch are those of its elements.
LEMMA BatchMinted ==
  ASSUME NEW p \in Positions, NEW tokens \in Seq(Nat), NEW quantities \in Seq(Nat),
         Len(tokens) = Len(quantities), \A i \in DOMAIN quantities : quantities[i] # 0,
         NEW token \in Nat
  PROVE  /\ IsFiniteSet(Of(Batch(p, tokens, quantities), token))
         /\ SumFunctionOnSet(Quantity, Of(Batch(p, tokens, quantities), token)) =
              SumFunctionOnSet(quantities, Elements(tokens, token))
<1> DEFINE S == Elements(tokens, token)
           h == [i \in DOMAIN tokens |-> Mint(p, i - 1, tokens[i], quantities[i])]
<1>1. /\ DOMAIN tokens = 1 .. Len(tokens) /\ Len(tokens) \in Nat
      /\ DOMAIN tokens = DOMAIN quantities
  OBVIOUS
<1>2. IsFiniteSet(S)
  <2>1. IsFiniteSet(1 .. Len(tokens))
    BY <1>1, FS_Interval
  <2>2. S \subseteq 1 .. Len(tokens)
    BY <1>1 DEF Elements
  <2> HIDE DEF S
  <2> QED BY <2>1, <2>2, FS_Subset
<1>3. \A i \in DOMAIN tokens : /\ i \in Nat /\ i - 1 \in Nat /\ tokens[i] \in Nat
                               /\ quantities[i] \in Nat \ {0}
  BY <1>1
<1>4. \A i \in DOMAIN tokens : /\ h[i].token = tokens[i] /\ h[i].sub = i - 1
                               /\ Quantity[h[i]] = quantities[i]
  <2> SUFFICES ASSUME NEW i \in DOMAIN tokens
               PROVE  /\ h[i].token = tokens[i] /\ h[i].sub = i - 1
                      /\ Quantity[h[i]] = quantities[i]
    OBVIOUS
  <2>1. h[i] = Mint(p, i - 1, tokens[i], quantities[i])
    OBVIOUS
  <2> HIDE DEF h
  <2>2. i - 1 \in Nat /\ tokens[i] \in Nat /\ quantities[i] \in Nat \ {0}
    BY <1>3
  <2>3. PICK sub \in Nat, minted \in Nat, quantity \in Nat \ {0} :
          sub = i - 1 /\ minted = tokens[i] /\ quantity = quantities[i]
    BY <2>2
  <2>4. /\ Mint(p, sub, minted, quantity).sub = sub
        /\ Mint(p, sub, minted, quantity).token = minted
        /\ Quantity[Mint(p, sub, minted, quantity)] = quantity
    BY ONLY MintFields
  <2> QED BY <2>1, <2>3, <2>4
<1>5. Of(Batch(p, tokens, quantities), token) = Image(h, S)
  <2>1. Batch(p, tokens, quantities) = Image(h, DOMAIN tokens)
    BY DEF Batch, Image
  <2> HIDE DEF h
  <2>2. Of(Image(h, DOMAIN tokens), token) = Image(h, S)
    <3>1. ASSUME NEW m \in Of(Image(h, DOMAIN tokens), token) PROVE m \in Image(h, S)
      <4>1. PICK i \in DOMAIN tokens : m = h[i] /\ h[i].token = token
        BY <3>1 DEF Of, Image
      <4> QED BY <1>4, <4>1 DEF Image, Elements
    <3>2. ASSUME NEW i \in S PROVE h[i] \in Of(Image(h, DOMAIN tokens), token)
      BY <1>4 DEF Of, Image, Elements
    <3> QED BY <3>1, <3>2 DEF Image, Of
  <2> QED BY <2>1, <2>2
<1>6. \A i, j \in S : h[i] = h[j] => i = j
  <2> SUFFICES ASSUME NEW i \in S, NEW j \in S, h[i] = h[j] PROVE i = j
    OBVIOUS
  <2>0. i \in DOMAIN tokens /\ j \in DOMAIN tokens
    BY DEF Elements
  <2>1. i \in Nat /\ j \in Nat /\ i - 1 = j - 1
    <3> HIDE DEF h
    <3> QED BY <1>3, <1>4, <2>0
  <2> QED BY <2>1
<1>7. \A i \in S : quantities[i] \in Int /\ Quantity[h[i]] = quantities[i]
  BY <1>3, <1>4 DEF Elements
<1>8. /\ IsFiniteSet(Image(h, S))
      /\ SumFunctionOnSet(Quantity, Image(h, S)) = SumFunctionOnSet(quantities, S)
  <2> HIDE DEF S, h
  <2>1. ASSUME NEW f, NEW g, \A i \in S : f[i] \in Int /\ g[h[i]] = f[i]
        PROVE  /\ IsFiniteSet(Image(h, S))
               /\ SumFunctionOnSet(g, Image(h, S)) = SumFunctionOnSet(f, S)
    BY ONLY <1>2, <1>6, <2>1, SumImage
  <2> QED BY ONLY <1>7, <2>1
<1> QED BY <1>5, <1>8

\* A range has one row for each of its tokens.
LEMMA RangeMinted ==
  ASSUME NEW p \in Positions, NEW f, NEW a \in Nat, NEW b \in Nat,
         f.tokens[1] = a, f.tokens[2] = b, NEW token \in Nat
  PROVE  /\ IsFiniteSet(Of(Consecutive(p, f), token))
         /\ SumFunctionOnSet(Quantity, Of(Consecutive(p, f), token)) =
              IF token \in a .. b THEN 1 ELSE 0
<1> DEFINE m == Mint(p, token - a, token, 1)
           mints == Of(Consecutive(p, f), token)
<1>1. Width(f) - 1 = b - a
  BY DEF Width
<1>2. \A n \in 0 .. b - a : Mint(p, n, a + n, 1).token = a + n
  BY MintFields
<1>3. Consecutive(p, f) = {Mint(p, n, a + n, 1) : n \in 0 .. b - a}
  BY <1>1 DEF Consecutive
<1>4. CASE token \in a .. b
  <2>1. token - a \in 0 .. b - a /\ token - a \in Nat /\ a + (token - a) = token
    BY <1>4
  <2>2. m \in Consecutive(p, f) /\ m.token = token /\ Quantity[m] = 1
    BY <1>3, <2>1, MintFields
  <2>3. \A n \in 0 .. b - a : a + n = token => n = token - a
    OBVIOUS
  <2>4. \A x \in Consecutive(p, f) : x.token = token => x = m
    <3> SUFFICES ASSUME NEW x \in Consecutive(p, f), x.token = token PROVE x = m
      OBVIOUS
    <3>1. PICK n \in 0 .. b - a : x = Mint(p, n, a + n, 1)
      BY <1>3
    <3>2. a + n = token
      BY <1>2, <3>1
    <3>3. n = token - a
      BY <2>3, <3>2
    <3> QED BY <3>1, <3>2, <3>3
  <2>5. mints = {m}
    <3> HIDE DEF m
    <3> QED BY <2>2, <2>4 DEF Of
  <2>6. IsFiniteSet({m}) /\ SumFunctionOnSet(Quantity, {m}) = 1
    <3> HIDE DEF m
    <3>1. Quantity[m] = 1
      BY <2>2
    <3>2. SumFunctionOnSet(Quantity, {m}) = Quantity[m]
      BY ONLY <3>1, SumOne
    <3> QED BY <3>1, <3>2, FS_Singleton
  <2> QED BY <1>4, <2>5, <2>6
<1>5. CASE token \notin a .. b
  <2>1. \A n \in 0 .. b - a : a + n # token
    BY <1>5
  <2>2. mints = {}
    BY <1>2, <1>3, <2>1 DEF Of
  <2> QED BY <1>5, <2>2, SumEmpty, FS_EmptySet
<1> QED BY <1>4, <1>5

\* The rows of a log add up to what it mints of a token.
LEMMA LogMinted ==
  ASSUME NEW p, NEW f, Allowed(p, f), Unprefixed(f), NEW token \in Nat
  PROVE  /\ IsFiniteSet(Of(Decoded(p, f), token))
         /\ SumFunctionOnSet(Quantity, Of(Decoded(p, f), token)) = Minted(f, token)
<1>1. /\ p \in Positions /\ f.kind \in Kinds
      /\ f.tokens \in Seq(Nat) /\ f.quantities \in Seq(Nat)
  BY FormsAssumption DEF Allowed, LogForms
<1>2. CASE Recognised(f, "transfer")
  <2>1. Decoded(p, f) = {Mint(p, 0, f.tokens[1], 1)}
    BY <1>2 DEF Decoded, Recognised
  <2>2. f.tokens[1] \in Nat
    <3>1. Len(f.tokens) = 1
      BY <1>2, FormsAssumption DEF Allowed, Recognised
    <3> QED BY <1>1, <3>1
  <2>3. Minted(f, token) = IF f.tokens[1] = token THEN 1 ELSE 0
    BY <1>2 DEF Minted, Recognised
  <2>4. PICK minted \in Nat : minted = f.tokens[1]
    BY <2>2
  <2>5. p \in Positions /\ 1 \in Nat \ {0}
    BY <1>1
  <2>6. /\ IsFiniteSet(Of({Mint(p, 0, minted, 1)}, token))
        /\ SumFunctionOnSet(Quantity, Of({Mint(p, 0, minted, 1)}, token)) =
             IF minted = token THEN 1 ELSE 0
    BY ONLY <2>5, OneMinted
  <2> QED BY <2>1, <2>3, <2>4, <2>6
<1>3. CASE Recognised(f, "single")
  <2>1. Decoded(p, f) = {Mint(p, 0, f.tokens[1], f.quantities[1])}
    BY <1>3 DEF Decoded, Recognised
  <2>2. Len(f.tokens) = 1 /\ Len(f.quantities) = 1
    BY <1>3, FormsAssumption DEF Allowed, Recognised
  <2>3. f.tokens[1] \in Nat /\ f.quantities[1] \in Nat /\ 1 \in DOMAIN f.quantities
    BY <1>1, <2>2
  <2>4. f.quantities[1] # 0
    BY <1>3, <2>3 DEF Allowed, Refused, Kinds
  <2>5. Minted(f, token) = IF f.tokens[1] = token THEN f.quantities[1] ELSE 0
    BY <1>3 DEF Minted, Recognised
  <2>6. PICK minted \in Nat, quantity \in Nat \ {0} :
          minted = f.tokens[1] /\ quantity = f.quantities[1]
    BY <2>3, <2>4
  <2>7. p \in Positions
    BY <1>1
  <2>8. /\ IsFiniteSet(Of({Mint(p, 0, minted, quantity)}, token))
        /\ SumFunctionOnSet(Quantity, Of({Mint(p, 0, minted, quantity)}, token)) =
             IF minted = token THEN quantity ELSE 0
    BY ONLY <2>7, OneMinted
  <2> QED BY <2>1, <2>5, <2>6, <2>8
<1>4. CASE Recognised(f, "batch")
  <2>1. Decoded(p, f) = Batch(p, f.tokens, f.quantities)
    BY <1>4 DEF Decoded, Recognised, Batch
  <2>2. Len(f.tokens) = Len(f.quantities) /\ \A i \in DOMAIN f.quantities : f.quantities[i] # 0
    BY <1>4 DEF Allowed, Refused, Recognised, Kinds
  <2>3. Minted(f, token) =
          SumFunctionOnSet(f.quantities, Elements(f.tokens, token))
    BY <1>4 DEF Minted, Recognised, Elements
  <2>4. PICK tokens \in Seq(Nat), quantities \in Seq(Nat) :
          tokens = f.tokens /\ quantities = f.quantities
    BY <1>1
  <2>5. /\ IsFiniteSet(Of(Batch(p, tokens, quantities), token))
        /\ SumFunctionOnSet(Quantity, Of(Batch(p, tokens, quantities), token)) =
             SumFunctionOnSet(quantities, Elements(tokens, token))
    <3>1. Len(tokens) = Len(quantities) /\ \A i \in DOMAIN quantities : quantities[i] # 0
      BY <2>2, <2>4
    <3> QED BY <1>1, <3>1, BatchMinted
  <2> QED BY <2>1, <2>3, <2>4, <2>5
<1>5. CASE Recognised(f, "consecutive")
  <2>1. Decoded(p, f) = Consecutive(p, f)
    BY <1>5 DEF Decoded, Recognised
  <2>2. f.tokens[1] \in Nat /\ f.tokens[2] \in Nat
    <3>1. Len(f.tokens) = 2
      BY <1>5, FormsAssumption DEF Allowed, Recognised
    <3> QED BY <1>1, <3>1
  <2>3. Minted(f, token) = IF token \in f.tokens[1] .. f.tokens[2] THEN 1 ELSE 0
    BY <1>5 DEF Minted, Recognised
  <2> QED BY <1>1, <2>1, <2>2, <2>3, RangeMinted
<1>6. CASE ~ \E kind \in {"transfer", "single", "batch", "consecutive"} : Recognised(f, kind)
  <2>1. Of(Decoded(p, f), token) = {}
    BY <1>6 DEF Decoded, Of
  <2>2. Minted(f, token) = 0
    BY <1>1, <1>6 DEF Minted, Recognised, Kinds, Unprefixed
  <2> QED BY <2>1, <2>2, SumEmpty, FS_EmptySet
<1> QED BY <1>2, <1>3, <1>4, <1>5, <1>6

\* A log whose topics have a prefix has no rows.
LEMMA PrefixedIgnored ==
  ASSUME NEW p, NEW f, ~ Unprefixed(f)
  PROVE  Decoded(p, f) = {}
  BY DEF Decoded, Recognised, Unprefixed

\* What the rows of some stored logs add up to.
LEMMA LogsMinted ==
  ASSUME IInv, NEW token \in Nat
  PROVE  /\ IsFiniteSet(RowsOf(token)) /\ IsFiniteSet(Read({""}))
         /\ SumFunctionOnSet(Quantity, RowsOf(token)) = MintedBy(Read({""}), token)
<1> DEFINE RowsIn(E) == Of(UNION {Decoded(p, chain[p]) : p \in E}, token)
           Plain(E) == {p \in E : Unprefixed(chain[p])}
           minted == [p \in Plain(evidence) |-> Minted(chain[p], token)]
           Good == {E \in SUBSET evidence :
                      /\ IsFiniteSet(RowsIn(E))
                      /\ SumFunctionOnSet(Quantity, RowsIn(E)) =
                           SumFunctionOnSet(minted, Plain(E))}
<1>1. /\ \A p \in evidence : Allowed(p, chain[p])
      /\ Recorded = UNION {Decoded(p, chain[p]) : p \in evidence}
  BY DEF IInv, TypeOK, Sound, Allowed, RowsOfEvidence
<1>2. /\ IsFiniteSet(evidence)
      /\ \A E \in SUBSET evidence : IsFiniteSet(E) /\ IsFiniteSet(Plain(E))
  BY PositionsAssumption, FS_Subset DEF IInv, TypeOK
<1>3. \A p \in evidence : \A m \in Decoded(p, chain[p]) : m \in Mints /\ Quantity[m] \in Int
  BY <1>1, DecodedMints DEF Quantity, Mints
<1>4. \A p \in Plain(evidence) :
        minted[p] \in Int /\ minted[p] = Minted(chain[p], token)
  <2> SUFFICES ASSUME NEW p \in Plain(evidence) PROVE Minted(chain[p], token) \in Int
    OBVIOUS
  <2>1. /\ IsFiniteSet(Of(Decoded(p, chain[p]), token))
        /\ SumFunctionOnSet(Quantity, Of(Decoded(p, chain[p]), token)) = Minted(chain[p], token)
    BY <1>1, LogMinted
  <2>2. \A m \in Of(Decoded(p, chain[p]), token) : Quantity[m] \in Int
    BY <1>3 DEF Of
  <2> QED BY <2>1, <2>2, SumType
<1>5. ASSUME NEW U \in SUBSET evidence, \A T \in (SUBSET U) \ {U} : T \in Good
      PROVE  U \in Good
  <2>1. CASE U = {}
    <3>1. RowsIn(U) = {} /\ Plain(U) = {}
      BY <2>1 DEF Of
    <3>2. /\ IsFiniteSet({}) /\ SumFunctionOnSet(Quantity, {}) = 0
          /\ SumFunctionOnSet(minted, {}) = 0
      BY SumEmpty, FS_EmptySet
    <3> QED BY <3>1, <3>2
  <2>2. CASE U # {}
    <3>1. PICK x \in U : TRUE
      BY <2>2
    <3>2. PICK T \in SUBSET evidence : T = U \ {x}
      OBVIOUS
    <3>3. /\ IsFiniteSet(RowsIn(T))
          /\ SumFunctionOnSet(Quantity, RowsIn(T)) = SumFunctionOnSet(minted, Plain(T))
      BY <1>5, <3>1, <3>2
    <3> DEFINE rest == RowsIn(T)
               own == Of(Decoded(x, chain[x]), token)
    <3>4. RowsIn(U) = rest \cup own
      BY <3>1, <3>2 DEF Of
    <3>5. rest \cap own = {}
      <4> SUFFICES ASSUME NEW m \in rest, m \in own PROVE FALSE
        OBVIOUS
      <4>1. PICK p \in T : m \in Decoded(p, chain[p])
        BY DEF Of
      <4>2. m \in Decoded(x, chain[x])
        BY DEF Of
      <4>3. p.tx = x.tx /\ p.index = x.index
        BY <1>1, <3>2, <4>1, <4>2, DecodedMints
      <4>4. p \in Positions /\ x \in Positions
        BY <1>1, <3>2 DEF Allowed
      <4>5. p # x
        BY <3>2
      <4> QED BY <4>3, <4>4, <4>5, PositionsAssumption
    <3>6. /\ \A m \in rest : Quantity[m] \in Int
          /\ \A m \in own : Quantity[m] \in Int
      BY <1>3, <3>2 DEF Of
    <3>7. CASE Unprefixed(chain[x])
      <4>1. IsFiniteSet(own) /\ SumFunctionOnSet(Quantity, own) = Minted(chain[x], token)
        BY <1>1, <3>7, LogMinted
      <4>2. SumFunctionOnSet(Quantity, rest \cup own) =
              SumFunctionOnSet(Quantity, rest) + SumFunctionOnSet(Quantity, own)
        <5> HIDE DEF rest, own
        <5> QED BY <3>3, <3>5, <3>6, <4>1, SumUnion DEF rest
      <4>3. x \in Plain(evidence) /\ minted[x] = Minted(chain[x], token)
        BY <1>4, <3>7
      <4>4. /\ Plain(U) = Plain(T) \cup {x} /\ x \notin Plain(T)
            /\ IsFiniteSet(Plain(T)) /\ Plain(T) \cup {x} \subseteq Plain(evidence)
        BY <1>2, <3>1, <3>2, <3>7
      <4>5. SumFunctionOnSet(minted, Plain(T) \cup {x}) =
              SumFunctionOnSet(minted, Plain(T)) + minted[x]
        <5> HIDE DEF minted, Plain
        <5> QED BY <1>4, <4>4, SumAdd
      <4>6. IsFiniteSet(rest \cup own)
        <5> HIDE DEF own, RowsIn
        <5> QED BY <3>3, <4>1, FS_Union
      <4>7. SumFunctionOnSet(Quantity, RowsIn(U)) = SumFunctionOnSet(minted, Plain(U))
        <5> HIDE DEF minted, Plain, RowsIn, own
        <5> QED BY <3>3, <3>4, <4>1, <4>2, <4>3, <4>4, <4>5
      <4>8. IsFiniteSet(RowsIn(U))
        <5> HIDE DEF RowsIn, own
        <5> QED BY <3>4, <4>6
      <4> QED BY <4>7, <4>8
    <3>8. CASE ~ Unprefixed(chain[x])
      <4>1. own = {}
        BY <3>8, PrefixedIgnored DEF Of
      <4>2. RowsIn(U) = RowsIn(T)
        <5> HIDE DEF RowsIn, own
        <5> QED BY <3>4, <4>1
      <4>3. Plain(U) = Plain(T)
        BY <3>1, <3>2, <3>8
      <4>4. /\ IsFiniteSet(RowsIn(U))
            /\ SumFunctionOnSet(Quantity, RowsIn(U)) = SumFunctionOnSet(minted, Plain(U))
        <5> HIDE DEF minted, Plain, RowsIn
        <5> QED BY <3>3, <4>2, <4>3
      <4> QED BY <4>4
    <3> QED BY <3>7, <3>8
  <2> QED BY <2>1, <2>2
<1>6. evidence \in Good
  <2> HIDE DEF Good
  <2> QED BY <1>2, <1>5, SubsetInduction
<1>7. RowsIn(evidence) = RowsOf(token)
  BY <1>1 DEF RowsOf, Of
<1>8. Plain(evidence) = Read({""})
  BY DEF Read, Unprefixed
<1>9. MintedBy(Read({""}), token) = SumFunctionOnSet(minted, Plain(evidence))
  <2>1. DOMAIN minted = Plain(evidence)
    OBVIOUS
  <2>2. minted = [p \in Read({""}) |-> Minted(chain[p], token)]
    BY <1>8
  <2> HIDE DEF minted, Plain
  <2> QED BY <2>1, <2>2 DEF MintedBy, SumFunction
<1> QED BY <1>2, <1>6, <1>7, <1>8, <1>9

\* The supply of a token is the sum over its rows.
LEMMA SupplySum ==
  ASSUME IInv, NEW token \in Nat
  PROVE  Supply(token) = SumFunctionOnSet(Quantity, RowsOf(token))
<1> DEFINE q == [m \in RowsOf(token) |-> m.quantity]
<1>1. Supply(token) = SumFunctionOnSet(q, RowsOf(token))
  BY DEF Supply, SumFunction
<1>2. \A m \in RowsOf(token) : Quantity[m] \in Int /\ q[m] = Quantity[m]
  BY DEF IInv, TypeOK, RowsOf, Recorded, Quantity, Mints
<1>3. IsFiniteSet(RowsOf(token))
  BY LogsMinted
<1> HIDE DEF q
<1>4. SumFunctionOnSet(q, RowsOf(token)) = SumFunctionOnSet(Quantity, RowsOf(token))
  BY <1>2, <1>3, SumSame
<1> QED BY <1>1, <1>4

-----------------------------------------------------------------------------
(* The theorems.                                                           *)

\* Every row is a mint with a positive quantity and an identity of the code.
THEOREM TypeCorrect == Spec => []TypeOK
  BY Invariance, PTL DEF IInv

\* The rows are exactly the mints of the stored logs, however often and in
\* whatever batches the logs are committed.
THEOREM RowsAreExact == Spec => []RowsOfEvidence
  BY Invariance, PTL DEF IInv

\* For every token the rows add up to what the stored logs mint of it by the
\* standards, for logs whose topics have no prefix: nothing is counted twice,
\* however the batches overlap, and no element of an array or a range is left
\* out (decode_mint_log, commit).
THEOREM SupplyIsRecorded == Spec => []SupplyRecorded
<1>1. IInv => SupplyRecorded
  <2> SUFFICES ASSUME IInv, NEW token \in Tokens
               PROVE  Supply(token) = MintedBy(Read({""}), token)
    BY DEF SupplyRecorded
  <2>1. token \in Nat
    <3>1. PICK f \in Forms : token \in {f.tokens[i] : i \in DOMAIN f.tokens}
      BY DEF Tokens
    <3>2. f.tokens \in Seq(Nat)
      BY FormsAssumption DEF LogForms
    <3> QED BY <3>1, <3>2
  <2> QED BY <2>1, SupplySum, LogsMinted
<1> QED BY Invariance, <1>1, PTL

\* No step loses a row or changes an identity that was found.
THEOREM IdentitiesAreKept == Spec => IdentityKept
<1> DEFINE Kept == \A m \in Recorded :
                     /\ m \in DOMAIN rows'
                     /\ rows[m] # "not_enriched" => rows'[m] = rows[m]
<1>1. IInv /\ [Next]_vars => Kept \/ UNCHANGED vars
  <2> SUFFICES ASSUME IInv, Next PROVE Kept
    OBVIOUS
  <2>1. ASSUME NEW first \in Blocks, NEW last \in Blocks, Commit(first, last) PROVE Kept
    BY <2>1, CommitRecords
  <2>2. ASSUME NEW tx \in Txs, Enrich(tx) PROVE Kept
    BY <2>2, EnrichKeeps
  <2> QED BY <2>1, <2>2 DEF Next
<1>2. IInv /\ [Next]_vars => [Kept]_vars
  BY <1>1
<1> QED BY <1>2, Invariance, PTL DEF Spec, IdentityKept

=============================================================================
