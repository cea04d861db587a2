------------------------- MODULE TransactionsProofs -------------------------
(***************************************************************************)
(* Facts about createTransaction and the transactions table that the       *)
(* proofs of every service that posts rows rest on.                        *)
(***************************************************************************)
EXTENDS Transactions, FiniteSetTheorems, WellFoundedInduction, TLAPS

USE DEF Posted, Drafted

\* A key has at most one row, counting those inserted and not committed.
KeyInv ==
  /\ KeyOnce
  /\ \A r, s \in Requests :
       Drafted(r) /\ Drafted(s) /\ draft[r].key = draft[s].key => r = s
  /\ \A r, s \in Requests :
       Drafted(r) /\ Posted(s) => draft[r].key # ledger[s].key

\* Rows stay, under the same key, and a cancelled one stays cancelled.
RowsStay ==
  \A s \in Requests :
    Posted(s) => /\ Posted(s)'
                 /\ ledger'[s].key = ledger[s].key
                 /\ ledger[s].status = "CANCELLED" => ledger'[s].status = "CANCELLED"

LEMMA InitKey == TransactionsInit => KeyInv
BY DEF TransactionsInit, KeyInv, KeyOnce

\* The row createTransaction inserts has the columns of the table.
LEMMA NewRowType ==
  ASSUME NEW r \in Requests, NEW type \in L!Types, NEW client \in Clients,
         NEW amount \in Int
  PROVE  /\ NewRow(r, type, client, amount) \in L!Rows
         /\ NewRow(r, type, client, amount) # NoRow
         /\ NewRow(r, type, client, amount).key = Op[r].key
         /\ NewRow(r, type, client, amount).status = "COMPLETED"
BY TransactionsAssumption DEF NewRow, L!Rows, L!Statuses

\* A step that posts nothing and at most drops a draft.
LEMMA DropKey ==
  ASSUME TransactionsTypeOK, KeyInv, NEW r \in Requests, ledger' = ledger,
         draft' = draft \/ DropDraft(r)
  PROVE  KeyInv'
BY DEF KeyInv, KeyOnce, TransactionsTypeOK, DropDraft

LEMMA InsertKey ==
  ASSUME TransactionsTypeOK, KeyInv, NEW r \in Requests, ~Drafted(r), NEW t \in L!Rows,
         t.key = Op[r].key, ~InsertWaits(r), KeyFree(r),
         InsertDraft(r, t) \/ InsertCommitted(r, t)
  PROVE  KeyInv'
<1>1. /\ \A s \in Requests : Posted(s) => ledger[s].key # Op[r].key
      /\ \A s \in Requests \ {r} : Drafted(s) => draft[s].key # Op[r].key
  BY DEF KeyFree, FindByKey, InsertWaits, KeyClaimed, HoldsKey
<1>2. t # NoRow
  BY TransactionsAssumption
<1>3. CASE InsertDraft(r, t)
  BY <1>1, <1>2, <1>3 DEF InsertDraft, KeyInv, KeyOnce, TransactionsTypeOK
<1>4. CASE InsertCommitted(r, t)
  BY <1>1, <1>2, <1>4 DEF InsertCommitted, KeyInv, KeyOnce, TransactionsTypeOK,
     L!LedgerTypeOK
<1>5. QED
  BY <1>3, <1>4

LEMMA CommitKey ==
  ASSUME TransactionsTypeOK, KeyInv, NEW r \in Requests, ledger' = WithDraft(r),
         DropDraft(r)
  PROVE  KeyInv'
<1>1. CASE Drafted(r)
  <2>1. ledger' = [ledger EXCEPT ![r] = draft[r]]
    BY <1>1 DEF WithDraft
  <2>2. QED
    BY <1>1, <2>1 DEF KeyInv, KeyOnce, DropDraft, TransactionsTypeOK, L!LedgerTypeOK
<1>2. CASE ~Drafted(r)
  BY <1>2, DropKey DEF WithDraft
<1>3. QED
  BY <1>1, <1>2

\* Cancelling a posted row changes its status and nothing else.
LEMMA CancelRow ==
  ASSUME TransactionsTypeOK, NEW t \in Requests, Posted(t),
         ledger' = [ledger EXCEPT ![t].status = "CANCELLED"]
  PROVE  /\ L!LedgerTypeOK'
         /\ RowsStay
         /\ ledger'[t].status = "CANCELLED"
         /\ \A s \in Requests : Posted(s)' => Posted(s) /\ ledger'[s].key = ledger[s].key
         /\ \A s \in Requests : Posted(s) => ledger'[s].type = ledger[s].type
<1>1. ledger \in [Requests -> L!Rows \cup {NoRow}] /\ ledger[t] \in L!Rows
  BY DEF TransactionsTypeOK, L!LedgerTypeOK
<1>2. /\ ledger'[t] \in L!Rows
      /\ ledger'[t].key = ledger[t].key
      /\ ledger'[t].type = ledger[t].type
      /\ ledger'[t].status = "CANCELLED"
  BY <1>1 DEF L!Rows, L!Statuses
<1>3. ledger'[t] # NoRow
  BY <1>2, TransactionsAssumption
<1>4. L!LedgerTypeOK'
  BY <1>1, <1>2 DEF L!LedgerTypeOK
<1>5. QED
  BY <1>1, <1>2, <1>3, <1>4 DEF RowsStay

LEMMA CancelKey ==
  ASSUME TransactionsTypeOK, KeyInv, NEW r \in Requests, NEW t \in Requests, Posted(t),
         ledger' = [ledger EXCEPT ![t].status = "CANCELLED"],
         draft' = draft \/ DropDraft(r)
  PROVE  KeyInv'
BY CancelRow DEF KeyInv, KeyOnce, DropDraft, TransactionsTypeOK

-----------------------------------------------------------------------------
(* Rows are posted once and stay *)

LEMMA PostStays ==
  ASSUME TransactionsTypeOK, NEW r \in Requests, ~Posted(r), NEW t,
         ledger' = [ledger EXCEPT ![r] = t]
  PROVE  RowsStay
BY DEF RowsStay, TransactionsTypeOK, L!LedgerTypeOK

LEMMA PostRefines ==
  ASSUME TransactionsTypeOK, KeyInv', NEW r \in Requests, ~Posted(r), NEW t \in L!Rows,
         t.status = "COMPLETED", ledger' = [ledger EXCEPT ![r] = t]
  PROVE  L!LedgerNext
<1>1. ledger'[r] = t /\ t # NoRow
  BY TransactionsAssumption DEF TransactionsTypeOK, L!LedgerTypeOK
<1>2. \A s \in Requests : L!Posted(s) => ledger[s].key # ledger'[r].key
  BY <1>1 DEF KeyInv, KeyOnce, L!Posted, TransactionsTypeOK, L!LedgerTypeOK
<1>3. L!Post(r)
  BY <1>1, <1>2 DEF L!Post, L!Posted
<1>4. QED
  BY <1>3 DEF L!LedgerNext

LEMMA CancelRefines ==
  ASSUME NEW t \in Requests, Posted(t), ledger[t].type \in L!Reversible,
         ledger' = [ledger EXCEPT ![t].status = "CANCELLED"]
  PROVE  L!LedgerNext
<1>1. L!Cancel(t)
  BY DEF L!Cancel, L!Posted
<1>2. QED
  BY <1>1 DEF L!LedgerNext

-----------------------------------------------------------------------------
(***************************************************************************)
(* Sums over finite sets.  SumOf is a fold, a function defined by          *)
(* recursion on the subsets of a set; these lemmas are all that the        *)
(* proofs about balances and debts know of it.  Each goes by the smallest  *)
(* subset for which it would fail.                                         *)
(***************************************************************************)

LEMMA SmallestSubset ==
  ASSUME NEW S, IsFiniteSet(S), NEW F, F \subseteq SUBSET S, F # {}
  PROVE  \E T \in F : \A U \in F : U \subseteq T => U = T
<1>1. IsWellFoundedOn(StrictSubsetOrdering(S), SUBSET S)
  BY FS_StrictSubsetOrderingWellFounded, FS_FiniteSubsetsOfFinite
<1>2. PICK T \in F : \A U \in F : <<U, T>> \notin StrictSubsetOrdering(S)
  BY <1>1, WFMin, Zenon
<1>3. ASSUME NEW U \in F, U \subseteq T, U # T PROVE FALSE
  <2>1. <<U, T>> \in StrictSubsetOrdering(S)
    BY <1>3 DEF StrictSubsetOrdering
  <2>2. QED
    BY <1>2, <2>1
<1>4. QED
  BY <1>2, <1>3

Pick(s) == CHOOSE x \in s : TRUE
\* The partial sums over the subsets of S.
IsSum(h, f, S) ==
  h = [s \in SUBSET S |-> IF s = {} THEN 0 ELSE f[Pick(s)] + h[s \ {Pick(s)}]]

LEMMA SumUnfold ==
  ASSUME NEW f, NEW S
  PROVE  SumOf(f, S) = (CHOOSE h : IsSum(h, f, S))[S]
BY Zenon DEF SumOf, MapThenSumSet, MapThenFoldSet, IsSum, Pick

LEMMA PickIn == ASSUME NEW s, s # {} PROVE Pick(s) \in s
BY DEF Pick

LEMMA SumAt ==
  ASSUME NEW f, NEW S, NEW h, IsSum(h, f, S)
  PROVE  \A s \in SUBSET S : h[s] = IF s = {} THEN 0 ELSE f[Pick(s)] + h[s \ {Pick(s)}]
BY Zenon DEF IsSum

LEMMA SumUnique ==
  ASSUME NEW f, NEW S, IsFiniteSet(S), NEW R, NEW g, NEW h, IsSum(g, f, S), IsSum(h, f, R),
         NEW T \in SUBSET S, T \subseteq R
  PROVE  g[T] = h[T]
<1> DEFINE Bad == {U \in SUBSET T : g[U] # h[U]}
<1> SUFFICES ASSUME Bad # {} PROVE FALSE
  OBVIOUS
<1>1. IsFiniteSet(T)
  BY FS_Subset
<1>2. PICK U \in Bad : \A V \in Bad : V \subseteq U => V = U
  <2> HIDE DEF Bad
  <2>1. Bad \subseteq SUBSET T
    BY DEF Bad
  <2> QED BY <1>1, <2>1, SmallestSubset
<1>3. U \in SUBSET S /\ U \in SUBSET R /\ g[U] # h[U]
  OBVIOUS
<1>0. /\ g[U] = IF U = {} THEN 0 ELSE f[Pick(U)] + g[U \ {Pick(U)}]
      /\ h[U] = IF U = {} THEN 0 ELSE f[Pick(U)] + h[U \ {Pick(U)}]
  <2>1. \A s \in SUBSET S : g[s] = IF s = {} THEN 0 ELSE f[Pick(s)] + g[s \ {Pick(s)}]
    BY SumAt
  <2>2. \A s \in SUBSET R : h[s] = IF s = {} THEN 0 ELSE f[Pick(s)] + h[s \ {Pick(s)}]
    BY ONLY IsSum(h, f, R), SumAt
  <2> HIDE DEF Bad
  <2> QED BY <1>3, <2>1, <2>2
<1>4. U # {}
  BY <1>3, <1>0
<1>5. U \ {Pick(U)} \notin Bad
  BY <1>2, <1>4, PickIn
<1>6. g[U \ {Pick(U)}] = h[U \ {Pick(U)}]
  BY <1>5
<1>7. QED
  BY <1>3, <1>4, <1>6, <1>0, Zenon

LEMMA SumExists ==
  ASSUME NEW f, NEW S, IsFiniteSet(S)
  PROVE  \E h : IsSum(h, f, S)
<1> DEFINE Bad == {T \in SUBSET S : ~ \E h : IsSum(h, f, T)}
<1> SUFFICES ASSUME Bad # {} PROVE FALSE
  OBVIOUS
<1>1. PICK T \in Bad : \A U \in Bad : U \subseteq T => U = T
  <2> HIDE DEF Bad
  <2>1. Bad \subseteq SUBSET S
    BY DEF Bad
  <2> QED BY <2>1, SmallestSubset
<1>2. T \subseteq S /\ IsFiniteSet(T)
  BY FS_Subset
<1> DEFINE H(U) == CHOOSE h : IsSum(h, f, U)
           g == [s \in SUBSET T |->
                   IF s = {} THEN 0
                   ELSE f[Pick(s)] + H(s \ {Pick(s)})[s \ {Pick(s)}]]
<1>3. ASSUME NEW U \in SUBSET T, U # T PROVE IsSum(H(U), f, U)
  <2>1. U \notin Bad /\ U \in SUBSET S
    BY <1>1, <1>2, <1>3
  <2>2. \E h : IsSum(h, f, U)
    BY <2>1
  <2> QED BY <2>2, Zenon
<1>4. ASSUME NEW s \in SUBSET T, s # {}
      PROVE  g[s \ {Pick(s)}] = H(s \ {Pick(s)})[s \ {Pick(s)}]
  <2> DEFINE U == s \ {Pick(s)}
  <2> HIDE DEF H, g
  <2>1. U \in SUBSET T /\ U # T
    BY <1>4, PickIn
  <2>2. IsSum(H(U), f, U)
    BY <1>3, <2>1
  <2>3. CASE U = {}
    BY <2>1, <2>2, <2>3, SumAt DEF g
  <2>4. CASE U # {}
    <3> DEFINE V == U \ {Pick(U)}
    <3>1. V \in SUBSET T /\ V # T /\ V \in SUBSET U
      BY <2>1, <2>4, PickIn
    <3>2. IsSum(H(V), f, V)
      BY <1>3, <3>1
    <3>3. IsFiniteSet(U)
      BY <1>2, <2>1, FS_Subset
    <3>4. H(U)[V] = H(V)[V]
      <4> HIDE DEF U, V
      <4> QED BY <2>2, <3>1, <3>2, <3>3, SumUnique
    <3>5. g[U] = f[Pick(U)] + H(V)[V]
      BY <2>1, <2>4 DEF g
    <3>6. H(U)[U] = f[Pick(U)] + H(U)[V]
      <4> DEFINE h == H(U)
      <4>1. \A s_1 \in SUBSET U : h[s_1] = IF s_1 = {} THEN 0 ELSE f[Pick(s_1)] + h[s_1 \ {Pick(s_1)}]
        <5> HIDE DEF U, h
        <5> QED BY <2>2, SumAt DEF h
      <4>2. h[U] = IF U = {} THEN 0 ELSE f[Pick(U)] + h[U \ {Pick(U)}]
        <5> HIDE DEF U, h
        <5> QED BY <4>1
      <4> HIDE DEF h
      <4> QED BY <2>4, <4>2 DEF h
    <3> QED BY <3>4, <3>5, <3>6
  <2> QED BY <2>3, <2>4
<1>5. IsSum(g, f, T)
  <2>1. \A s \in SUBSET T : (IF s = {} THEN 0 ELSE f[Pick(s)] + g[s \ {Pick(s)}])
                = (IF s = {} THEN 0 ELSE f[Pick(s)] + H(s \ {Pick(s)})[s \ {Pick(s)}])
    <3> HIDE DEF g, H
    <3> QED BY <1>4
  <2>2. g = [s \in SUBSET T |-> IF s = {} THEN 0 ELSE f[Pick(s)] + g[s \ {Pick(s)}]]
    <3> DEFINE B(s) == IF s = {} THEN 0 ELSE f[Pick(s)] + g[s \ {Pick(s)}]
               A(s) == IF s = {} THEN 0 ELSE f[Pick(s)] + H(s \ {Pick(s)})[s \ {Pick(s)}]
    <3>1. \A s \in SUBSET T : B(s) = A(s)
      BY <2>1
    <3>2. g = [s \in SUBSET T |-> A(s)]
      OBVIOUS
    <3>3. [s \in SUBSET T |-> A(s)] = [s \in SUBSET T |-> B(s)]
      <4> HIDE DEF A, B
      <4> QED BY <3>1
    <3>4. g = [s \in SUBSET T |-> B(s)]
      <4> HIDE DEF g, A, B
      <4> QED BY <3>2, <3>3
    <3> HIDE DEF g
    <3> QED BY <3>4
  <2> HIDE DEF g
  <2> QED BY <2>2, Zenon DEF IsSum
<1> QED BY <1>5

LEMMA SumDef ==
  ASSUME NEW f, NEW S, IsFiniteSet(S)
  PROVE  SumOf(f, S) = IF S = {} THEN 0 ELSE f[Pick(S)] + SumOf(f, S \ {Pick(S)})
<1> DEFINE h == CHOOSE h : IsSum(h, f, S)
           T == S \ {Pick(S)}
           g == CHOOSE g : IsSum(g, f, T)
<1>1. IsSum(h, f, S)
  BY SumExists, Zenon
<1>2. IsFiniteSet(T) /\ T \in SUBSET S /\ T \in SUBSET T
  BY FS_Subset
<1>3. IsSum(g, f, T)
  <2> HIDE DEF T
  <2> QED BY <1>2, SumExists, Zenon
<1>4. SumOf(f, S) = h[S] /\ SumOf(f, T) = g[T]
  BY SumUnfold
<1> HIDE DEF g, h
<1>5. h[T] = g[T]
  <2> HIDE DEF T
  <2> QED BY <1>1, <1>2, <1>3, SumUnique
<1>6. h[S] = IF S = {} THEN 0 ELSE f[Pick(S)] + h[T]
  <2>1. \A s \in SUBSET S : h[s] = IF s = {} THEN 0 ELSE f[Pick(s)] + h[s \ {Pick(s)}]
    BY <1>1, SumAt
  <2> QED BY <2>1
<1> QED BY <1>4, <1>5, <1>6

LEMMA SumEmpty == ASSUME NEW f PROVE SumOf(f, {}) = 0
BY SumDef, FS_EmptySet

LEMMA SumEqual ==
  ASSUME NEW S, IsFiniteSet(S), NEW f, NEW g, \A x \in S : f[x] = g[x]
  PROVE  SumOf(f, S) = SumOf(g, S)
<1> DEFINE Bad == {T \in SUBSET S : SumOf(f, T) # SumOf(g, T)}
<1> SUFFICES ASSUME Bad # {} PROVE FALSE
  OBVIOUS
<1>1. PICK T \in Bad : \A U \in Bad : U \subseteq T => U = T
  <2>1. Bad \subseteq SUBSET S
    OBVIOUS
  <2> HIDE DEF Bad
  <2> QED BY <2>1, SmallestSubset
<1>2. IsFiniteSet(T)
  BY FS_Subset
<1>3. /\ SumOf(f, T) = IF T = {} THEN 0 ELSE f[Pick(T)] + SumOf(f, T \ {Pick(T)})
      /\ SumOf(g, T) = IF T = {} THEN 0 ELSE g[Pick(T)] + SumOf(g, T \ {Pick(T)})
  BY ONLY <1>2, SumDef
<1>4. T # {}
  BY <1>3
<1>5. Pick(T) \in T
  BY <1>4, PickIn
<1>6. SumOf(f, T \ {Pick(T)}) = SumOf(g, T \ {Pick(T)})
  BY <1>1, <1>5
<1> QED BY <1>3, <1>5, <1>6

LEMMA SumInt ==
  ASSUME NEW S, IsFiniteSet(S), NEW f, \A x \in S : f[x] \in Int
  PROVE  SumOf(f, S) \in Int
<1> DEFINE Bad == {T \in SUBSET S : SumOf(f, T) \notin Int}
<1> SUFFICES ASSUME Bad # {} PROVE FALSE
  OBVIOUS
<1>1. PICK T \in Bad : \A U \in Bad : U \subseteq T => U = T
  <2>1. Bad \subseteq SUBSET S
    OBVIOUS
  <2> HIDE DEF Bad
  <2> QED BY <2>1, SmallestSubset
<1>2. IsFiniteSet(T)
  BY FS_Subset
<1>3. SumOf(f, T) = IF T = {} THEN 0 ELSE f[Pick(T)] + SumOf(f, T \ {Pick(T)})
  BY ONLY <1>2, SumDef
<1>4. T # {}
  BY <1>3
<1>5. Pick(T) \in T
  BY <1>4, PickIn
<1>6. SumOf(f, T \ {Pick(T)}) \in Int
  BY <1>1, <1>5
<1> QED BY <1>3, <1>4, <1>5, <1>6

LEMMA SumZero ==
  ASSUME NEW S, IsFiniteSet(S), NEW f, \A x \in S : f[x] = 0
  PROVE  SumOf(f, S) = 0
<1> DEFINE Bad == {T \in SUBSET S : SumOf(f, T) # 0}
<1> SUFFICES ASSUME Bad # {} PROVE FALSE
  OBVIOUS
<1>1. PICK T \in Bad : \A U \in Bad : U \subseteq T => U = T
  <2>1. Bad \subseteq SUBSET S
    OBVIOUS
  <2> HIDE DEF Bad
  <2> QED BY <2>1, SmallestSubset
<1>2. IsFiniteSet(T)
  BY FS_Subset
<1>3. SumOf(f, T) = IF T = {} THEN 0 ELSE f[Pick(T)] + SumOf(f, T \ {Pick(T)})
  BY ONLY <1>2, SumDef
<1>4. T # {}
  BY <1>3
<1>5. Pick(T) \in T
  BY <1>4, PickIn
<1>6. SumOf(f, T \ {Pick(T)}) = 0
  BY <1>1, <1>5
<1> QED BY <1>3, <1>4, <1>5, <1>6

LEMMA SumRemove ==
  ASSUME NEW S, IsFiniteSet(S), NEW f, \A x \in S : f[x] \in Int, NEW a \in S
  PROVE  SumOf(f, S) = f[a] + SumOf(f, S \ {a})
<1> DEFINE Bad == {T \in SUBSET S : \E x \in T : SumOf(f, T) # f[x] + SumOf(f, T \ {x})}
<1> SUFFICES ASSUME Bad # {} PROVE FALSE
  OBVIOUS
<1>1. PICK T \in Bad : \A U \in Bad : U \subseteq T => U = T
  <2>1. Bad \subseteq SUBSET S
    OBVIOUS
  <2> HIDE DEF Bad
  <2> QED BY <2>1, SmallestSubset
<1>2. PICK x \in T : SumOf(f, T) # f[x] + SumOf(f, T \ {x})
  OBVIOUS
<1> DEFINE c == Pick(T)
<1>3. T \in SUBSET S /\ T # {} /\ c \in T /\ x \in S /\ c \in S
  BY PickIn
<1>4. /\ IsFiniteSet(T) /\ IsFiniteSet(T \ {x})  /\ IsFiniteSet(T \ {c})
      /\ IsFiniteSet(T \ {x, c})
  <2>1. T \ {x} \in SUBSET S /\ T \ {c} \in SUBSET S /\ T \ {x, c} \in SUBSET S
    BY <1>3
  <2> HIDE DEF c, Bad
  <2> QED BY <1>3, <2>1, FS_Subset
<1>5. SumOf(f, T) = f[c] + SumOf(f, T \ {c})
  BY ONLY <1>3, <1>4, SumDef
<1>6. c # x
  BY <1>2, <1>5
<1>7. SumOf(f, T \ {c}) = f[x] + SumOf(f, (T \ {c}) \ {x})
  <2>1. T \ {c} \notin Bad /\ x \in T \ {c} /\ T \ {c} \in SUBSET S
    BY <1>1, <1>3, <1>6
  <2> HIDE DEF c
  <2> QED BY <2>1
<1>8. SumOf(f, T \ {x}) = f[c] + SumOf(f, (T \ {x}) \ {c})
  <2>1. T \ {x} \notin Bad /\ c \in T \ {x} /\ T \ {x} \in SUBSET S
    BY <1>1, <1>3, <1>6
  <2> HIDE DEF c
  <2> QED BY <2>1
<1>9. (T \ {x}) \ {c} = T \ {x, c} /\ (T \ {c}) \ {x} = T \ {x, c}
  OBVIOUS
<1>10. SumOf(f, T \ {x, c}) \in Int
  <2> HIDE DEF c, Bad
  <2> QED BY <1>3, <1>4, SumInt
<1> QED
  <2> HIDE DEF c, Bad
  <2> QED BY <1>2, <1>3, <1>5, <1>7, <1>8, <1>9, <1>10

LEMMA SumWithout ==
  ASSUME NEW S, IsFiniteSet(S), NEW f, \A x \in S : f[x] \in Int, NEW a
  PROVE  SumOf(f, S) = (IF a \in S THEN f[a] ELSE 0) + SumOf(f, S \ {a})
<1>1. CASE a \in S
  BY <1>1, SumRemove
<1>2. CASE a \notin S
  <2>1. S \ {a} = S
    BY <1>2
  <2>2. SumOf(f, S \ {a}) = SumOf(f, S)
    BY <2>1, Zenon
  <2>3. SumOf(f, S) \in Int
    BY SumInt
  <2>4. QED
    BY <1>2, <2>2, <2>3
<1>3. QED
  BY <1>1, <1>2

\* One term of a sum changes, comes or goes.
LEMMA SumChange ==
  ASSUME NEW S, IsFiniteSet(S), NEW T, IsFiniteSet(T), NEW f, NEW g, NEW a,
         S \ {a} = T \ {a},
         \A x \in S : f[x] \in Int, \A x \in T : g[x] \in Int,
         \A x \in S \ {a} : f[x] = g[x]
  PROVE  SumOf(g, T) - (IF a \in T THEN g[a] ELSE 0)
           = SumOf(f, S) - (IF a \in S THEN f[a] ELSE 0)
<1>1. IsFiniteSet(S \ {a})
  BY FS_Subset
<1>2. SumOf(f, S \ {a}) = SumOf(g, S \ {a})
  BY <1>1, SumEqual
<1>3. SumOf(g, S \ {a}) = SumOf(g, T \ {a})
  BY Zenon
<1>4. SumOf(f, S \ {a}) \in Int
  BY <1>1, SumInt
<1>5. SumOf(f, S) = (IF a \in S THEN f[a] ELSE 0) + SumOf(f, S \ {a})
  BY ONLY IsFiniteSet(S), \A x \in S : f[x] \in Int, SumWithout
<1>6. SumOf(g, T) = (IF a \in T THEN g[a] ELSE 0) + SumOf(g, T \ {a})
  BY ONLY IsFiniteSet(T), \A x \in T : g[x] \in Int, SumWithout
<1>7. (a \in S => f[a] \in Int) /\ (a \in T => g[a] \in Int)
  OBVIOUS
<1>8. QED
  BY <1>2, <1>3, <1>4, <1>5, <1>6, <1>7

\* A sum splits over a subset and the rest.
LEMMA SumSplit ==
  ASSUME NEW S, IsFiniteSet(S), NEW f, \A x \in S : f[x] \in Int, NEW P \in SUBSET S
  PROVE  SumOf(f, S) = SumOf(f, P) + SumOf(f, S \ P)
<1> DEFINE Bad == {T \in SUBSET S : SumOf(f, S) # SumOf(f, T) + SumOf(f, S \ T)}
<1> SUFFICES ASSUME Bad # {} PROVE FALSE
  OBVIOUS
<1>1. PICK T \in Bad : \A U \in Bad : U \subseteq T => U = T
  <2>1. Bad \subseteq SUBSET S
    OBVIOUS
  <2> HIDE DEF Bad
  <2> QED BY <2>1, SmallestSubset
<1>2. T \in SUBSET S /\ SumOf(f, S) # SumOf(f, T) + SumOf(f, S \ T)
  OBVIOUS
<1>3. T # {}
  <2>1. CASE T = {}
    <3>1. S \ T = S
      BY <2>1
    <3>2. SumOf(f, S \ T) = SumOf(f, S) /\ SumOf(f, T) = 0
      BY <2>1, <3>1, SumEmpty, Zenon
    <3>3. SumOf(f, S) \in Int
      BY SumInt
    <3> QED BY <1>2, <3>2, <3>3
  <2> QED BY <2>1
<1>4. PICK a \in T : TRUE
  BY <1>3
<1> DEFINE U == T \ {a}
<1>5. /\ U \in SUBSET S /\ a \in S
      /\ IsFiniteSet(T) /\ IsFiniteSet(U) /\ IsFiniteSet(S \ T) /\ IsFiniteSet(S \ U)
  <2>1. U \in SUBSET S /\ a \in S /\ S \ T \in SUBSET S /\ S \ U \in SUBSET S
    BY <1>2
  <2> HIDE DEF U, Bad
  <2> QED BY <1>2, <2>1, FS_Subset
<1>6. SumOf(f, S) = SumOf(f, U) + SumOf(f, S \ U)
  BY <1>1, <1>4, <1>5
<1>7. SumOf(f, T) = f[a] + SumOf(f, U)
  <2> HIDE DEF Bad
  <2> QED BY <1>2, <1>4, <1>5, SumRemove
<1>8. SumOf(f, S \ U) = f[a] + SumOf(f, S \ T)
  <2>1. a \in S \ U /\ (S \ U) \ {a} = S \ T
    BY <1>2, <1>4
  <2>2. \A x \in S \ U : f[x] \in Int
    OBVIOUS
  <2> HIDE DEF U, Bad
  <2>3. SumOf(f, S \ U) = f[a] + SumOf(f, (S \ U) \ {a})
    BY ONLY <1>5, <2>1, <2>2, SumRemove
  <2> QED BY <2>1, <2>3
<1>9. /\ f[a] \in Int /\ SumOf(f, U) \in Int /\ SumOf(f, S \ T) \in Int
  <2>1. (\A x \in U : f[x] \in Int) /\ (\A x \in S \ T : f[x] \in Int) /\ f[a] \in Int
    BY <1>5
  <2> HIDE DEF U, Bad
  <2> QED BY ONLY <1>5, <2>1, SumInt
<1> QED
  <2> HIDE DEF U, Bad
  <2> QED BY <1>2, <1>6, <1>7, <1>8, <1>9

\* A sum of naturals is one.
LEMMA SumNat ==
  ASSUME NEW S, IsFiniteSet(S), NEW f, \A x \in S : f[x] \in Nat
  PROVE  SumOf(f, S) \in Nat
<1> DEFINE Bad == {T \in SUBSET S : SumOf(f, T) \notin Nat}
<1> SUFFICES ASSUME Bad # {} PROVE FALSE
  OBVIOUS
<1>1. PICK T \in Bad : \A U \in Bad : U \subseteq T => U = T
  <2>1. Bad \subseteq SUBSET S
    OBVIOUS
  <2> HIDE DEF Bad
  <2> QED BY <2>1, SmallestSubset
<1>2. IsFiniteSet(T)
  BY FS_Subset
<1>3. SumOf(f, T) = IF T = {} THEN 0 ELSE f[Pick(T)] + SumOf(f, T \ {Pick(T)})
  BY ONLY <1>2, SumDef
<1>4. T # {}
  BY <1>3
<1>5. Pick(T) \in T
  BY <1>4, PickIn
<1>6. SumOf(f, T \ {Pick(T)}) \in Nat
  BY <1>1, <1>5
<1> QED BY <1>3, <1>4, <1>5, <1>6

\* More terms, none negative, make no smaller sum.
LEMMA SumGrows ==
  ASSUME NEW S, IsFiniteSet(S), NEW f, \A x \in S : f[x] \in Nat, NEW P \in SUBSET S
  PROVE  SumOf(f, P) \in Nat /\ SumOf(f, S) \in Nat /\ SumOf(f, P) <= SumOf(f, S)
<1>1. IsFiniteSet(P) /\ IsFiniteSet(S \ P)
  BY FS_Subset
<1>2. SumOf(f, P) \in Nat /\ SumOf(f, S \ P) \in Nat
  BY <1>1, SumNat
<1>3. SumOf(f, S) = SumOf(f, P) + SumOf(f, S \ P)
  BY SumSplit
<1> QED BY <1>2, <1>3

\* As many times the same term.
LEMMA SumConstant ==
  ASSUME NEW S, IsFiniteSet(S), NEW b \in Int, NEW f, \A x \in S : f[x] = b
  PROVE  SumOf(f, S) = b * Cardinality(S)
<1> DEFINE Bad == {T \in SUBSET S : SumOf(f, T) # b * Cardinality(T)}
<1> SUFFICES ASSUME Bad # {} PROVE FALSE
  OBVIOUS
<1>1. PICK T \in Bad : \A U \in Bad : U \subseteq T => U = T
  <2>1. Bad \subseteq SUBSET S
    OBVIOUS
  <2> HIDE DEF Bad
  <2> QED BY <2>1, SmallestSubset
<1>2. IsFiniteSet(T)
  BY FS_Subset
<1>3. SumOf(f, T) = IF T = {} THEN 0 ELSE f[Pick(T)] + SumOf(f, T \ {Pick(T)})
  BY ONLY <1>2, SumDef
<1>4. T # {}
  <2>1. b * 0 = 0
    OBVIOUS
  <2>2. CASE T = {}
    <3>1. SumOf(f, T) = 0 /\ Cardinality(T) = 0
      BY <2>2, SumEmpty, FS_EmptySet
    <3>2. SumOf(f, T) # b * Cardinality(T)
      OBVIOUS
    <3> QED BY <2>1, <3>1, <3>2
  <2> QED BY <2>2
<1>5. Pick(T) \in T
  BY <1>4, PickIn
<1>6. SumOf(f, T \ {Pick(T)}) = b * Cardinality(T \ {Pick(T)})
  BY <1>1, <1>5
<1>7. Cardinality(T) \in Nat /\ Cardinality(T \ {Pick(T)}) = Cardinality(T) - 1
  <2> HIDE DEF Bad
  <2> QED BY <1>2, <1>5, FS_CardinalityType, FS_RemoveElement
<1>8. f[Pick(T)] = b
  BY <1>5
<1>9. b * Cardinality(T) = b + b * (Cardinality(T) - 1)
  <2> HIDE DEF Bad
  <2> QED BY <1>7
<1>10. SumOf(f, T) = b + b * (Cardinality(T) - 1)
  BY <1>3, <1>4, <1>6, <1>7, <1>8
<1>11. SumOf(f, T) # b * Cardinality(T)
  OBVIOUS
<1> QED BY <1>9, <1>10, <1>11
=============================================================================
