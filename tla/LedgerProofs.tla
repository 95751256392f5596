---------------------------- MODULE LedgerProofs ----------------------------
(***************************************************************************)
(* Sums over finite sets, and with them the ledger: a wallet leaves its    *)
(* transactions only by stale commits, and never when no two actors change *)
(* one wallet.                                                             *)
(***************************************************************************)
EXTENDS SafetyProofs, Ledger, FiniteSetTheorems

\* What the library's fold computes: one element is chosen, the rest is summed.
Some(t) == CHOOSE x \in t : TRUE
Body(f, h, t) == IF t = {} THEN 0 ELSE f[Some(t)] + h[t \ {Some(t)}]
Sums(f, S, h) == h = [t \in SUBSET S |-> Body(f, h, t)]

LEMMA SumIs ==
  ASSUME NEW f, NEW S
  PROVE  SumFunctionOnSet(f, S) = (CHOOSE h : Sums(f, S, h))[S]
BY DEF SumFunctionOnSet, FoldFunctionOnSet, MapThenFoldSet, Sums, Body, Some

\* A family of subsets of a finite set has a smallest member.
LEMMA Smallest ==
  ASSUME NEW S, IsFiniteSet(S), NEW C, C \subseteq SUBSET S, C # {}
  PROVE  \E T \in C : \A U \in C : U \subseteq T => U = T
<1>1. IsWellFoundedOn(StrictSubsetOrdering(S), SUBSET S)
  BY FS_StrictSubsetOrderingWellFounded, FS_FiniteSubsetsOfFinite
<1>2. \E T \in C : \A U \in C : <<U, T>> \notin StrictSubsetOrdering(S)
  BY <1>1, WFMin
<1>3. PICK T \in C : \A U \in C : <<U, T>> \notin StrictSubsetOrdering(S)
  BY <1>2
<1>4. ASSUME NEW U \in C, U \subseteq T, U # T PROVE FALSE
  <2>1. <<U, T>> \in StrictSubsetOrdering(S)
    BY <1>4 DEF StrictSubsetOrdering
  <2>2. QED BY <2>1, <1>3
<1>5. QED BY <1>4

LEMMA SomeOf == ASSUME NEW t, t # {} PROVE Some(t) \in t
BY DEF Some

LEMMA SumsAt ==
  ASSUME NEW f, NEW S, NEW h, Sums(f, S, h), NEW t, t \subseteq S
  PROVE  h[t] = IF t = {} THEN 0 ELSE f[Some(t)] + h[t \ {Some(t)}]
<1>1. h = [u \in SUBSET S |-> Body(f, h, u)]
  BY DEF Sums
<1>2. h[t] = Body(f, h, t)
  BY <1>1
<1>3. QED BY <1>2 DEF Body

\* Two such functions agree where both are defined.
LEMMA SumsAgree ==
  ASSUME NEW f, NEW S, IsFiniteSet(S), NEW g, Sums(f, S, g),
         NEW T, T \subseteq S, NEW h, Sums(f, T, h)
  PROVE  \A t \in SUBSET T : g[t] = h[t]
<1> DEFINE C == {t \in SUBSET T : g[t] # h[t]}
<1>1. SUFFICES ASSUME C # {} PROVE FALSE
  OBVIOUS
<1>2. PICK t \in C : \A U \in C : U \subseteq t => U = t
  <2>1. IsFiniteSet(T) /\ C \subseteq SUBSET T
    BY FS_Subset
  <2> HIDE DEF C
  <2>2. QED BY <1>1, <2>1, Smallest
<1>3. t \subseteq T /\ t \subseteq S /\ g[t] # h[t]
  OBVIOUS
<1>4. /\ g[t] = IF t = {} THEN 0 ELSE f[Some(t)] + g[t \ {Some(t)}]
      /\ h[t] = IF t = {} THEN 0 ELSE f[Some(t)] + h[t \ {Some(t)}]
  BY <1>3, SumsAt
<1>5. t # {} /\ g[t \ {Some(t)}] # h[t \ {Some(t)}]
  BY <1>3, <1>4
<1>6. t \ {Some(t)} \in C /\ t \ {Some(t)} # t
  BY <1>3, <1>5, SomeOf
<1>7. QED BY <1>2, <1>6

\* The sum over a finite set exists, and is that of one element and the rest.
LEMMA SumsExist ==
  ASSUME NEW f, NEW S, IsFiniteSet(S)
  PROVE  \E h : Sums(f, S, h)
<1> DEFINE C == {T \in SUBSET S : ~\E h : Sums(f, T, h)}
<1>1. SUFFICES ASSUME C # {} PROVE FALSE
  OBVIOUS
<1>2. PICK T \in C : \A U \in C : U \subseteq T => U = T
  <2>1. C \subseteq SUBSET S
    OBVIOUS
  <2> HIDE DEF C
  <2>2. QED BY <1>1, <2>1, Smallest
<1>3. T \subseteq S /\ IsFiniteSet(T) /\ ~\E h : Sums(f, T, h)
  BY FS_Subset
<1>4. ASSUME NEW U, U \subseteq T, U # T
      PROVE  SumFunctionOnSet(f, U) =
               IF U = {} THEN 0 ELSE f[Some(U)] + SumFunctionOnSet(f, U \ {Some(U)})
  <2> DEFINE g == CHOOSE h : Sums(f, U, h)
             V == U \ {Some(U)}
             k == CHOOSE h : Sums(f, V, h)
  <2>1. U \notin C /\ U \in SUBSET S /\ V \in SUBSET S /\ V \subseteq T /\ V # T /\ IsFiniteSet(U)
    BY <1>2, <1>3, <1>4, FS_Subset
  <2>2. V \notin C
    BY <1>2, <2>1
  <2>3. Sums(f, U, g) /\ Sums(f, V, k)
    <3>1. (\E h : Sums(f, U, h)) /\ (\E h : Sums(f, V, h))
      BY <2>1, <2>2
    <3>2. QED BY <3>1
  <2>4. SumFunctionOnSet(f, U) = g[U] /\ SumFunctionOnSet(f, V) = k[V]
    BY SumIs
  <2>5. g[U] = IF U = {} THEN 0 ELSE f[Some(U)] + g[V]
    <3> HIDE DEF g
    <3>1. QED BY <2>3, SumsAt
  <2>6. g[V] = k[V]
    <3>1. V \subseteq U
      OBVIOUS
    <3> HIDE DEF g, k, V
    <3>2. QED BY <2>1, <2>3, <3>1, SumsAgree
  <2>7. QED BY <2>4, <2>5, <2>6
<1> DEFINE g == [U \in SUBSET T |->
                   IF U # T THEN SumFunctionOnSet(f, U)
                   ELSE IF T = {} THEN 0 ELSE f[Some(T)] + SumFunctionOnSet(f, T \ {Some(T)})]
<1>5. ASSUME NEW U \in SUBSET T
      PROVE  g[U] = Body(f, g, U)
  <2>1. U # {} => U \ {Some(U)} \in SUBSET T /\ U \ {Some(U)} # T
    BY SomeOf
  <2>2. U # {} => g[U \ {Some(U)}] = SumFunctionOnSet(f, U \ {Some(U)})
    BY <2>1
  <2>3. CASE U = T
    <3>1. g[U] = IF U = {} THEN 0 ELSE f[Some(U)] + SumFunctionOnSet(f, U \ {Some(U)})
      BY <2>3
    <3> HIDE DEF g
    <3>2. QED BY <2>2, <3>1 DEF Body
  <2>4. CASE U # T
    <3>1. g[U] = SumFunctionOnSet(f, U)
      BY <2>4
    <3> HIDE DEF g
    <3>2. QED BY <1>4, <2>2, <2>4, <3>1 DEF Body
  <2>5. QED BY <2>3, <2>4
<1>6. Sums(f, T, g)
  <2>1. g = [U \in SUBSET T |-> g[U]]
    OBVIOUS
  <2>2. [U \in SUBSET T |-> g[U]] = [U \in SUBSET T |-> Body(f, g, U)]
    <3> HIDE DEF g
    <3>1. QED BY <1>5
  <2> HIDE DEF g
  <2>3. QED BY <2>1, <2>2 DEF Sums
<1>7. QED BY <1>3, <1>6

LEMMA SumChosen ==
  ASSUME NEW f, NEW S, IsFiniteSet(S)
  PROVE  SumFunctionOnSet(f, S) =
           IF S = {} THEN 0 ELSE f[Some(S)] + SumFunctionOnSet(f, S \ {Some(S)})
<1> DEFINE V == S \ {Some(S)}
           g == CHOOSE h : Sums(f, S, h)
           k == CHOOSE h : Sums(f, V, h)
<1>1. IsFiniteSet(V) /\ V \subseteq S
  BY FS_Subset
<1>2. Sums(f, S, g) /\ Sums(f, V, k)
  BY <1>1, SumsExist
<1>3. SumFunctionOnSet(f, S) = g[S] /\ SumFunctionOnSet(f, V) = k[V]
  BY SumIs
<1>4. g[S] = IF S = {} THEN 0 ELSE f[Some(S)] + g[V]
  <2> HIDE DEF g
  <2>1. QED BY <1>2, SumsAt
<1>5. g[V] = k[V]
  <2> HIDE DEF g, k, V
  <2>1. QED BY <1>1, <1>2, SumsAgree
<1>6. QED BY <1>3, <1>4, <1>5

\* Sums of integers are integers.
LEMMA SumInt ==
  ASSUME NEW f, NEW S, IsFiniteSet(S), \A x \in S : f[x] \in Int
  PROVE  SumFunctionOnSet(f, S) \in Int
<1> DEFINE C == {T \in SUBSET S : SumFunctionOnSet(f, T) \notin Int}
<1>1. SUFFICES ASSUME C # {} PROVE FALSE
  OBVIOUS
<1>2. PICK T \in C : \A U \in C : U \subseteq T => U = T
  <2>1. C \subseteq SUBSET S
    OBVIOUS
  <2> HIDE DEF C
  <2>2. QED BY <1>1, <2>1, Smallest
<1>3. T \subseteq S /\ IsFiniteSet(T) /\ SumFunctionOnSet(f, T) \notin Int
  BY FS_Subset
<1>4. T # {} /\ Some(T) \in T /\ Some(T) \in S
  <2>1. T = {} => SumFunctionOnSet(f, T) = 0
    BY <1>3, SumChosen
  <2>2. T # {}
    BY <1>3, <2>1
  <2>3. QED BY <1>3, <2>2, SomeOf
<1>5. T \ {Some(T)} \notin C
  BY <1>2, <1>4
<1>6. SumFunctionOnSet(f, T \ {Some(T)}) \in Int
  BY <1>3, <1>5
<1>7. QED BY <1>3, <1>4, <1>6, SumChosen

\* Any element may be taken out first.
LEMMA SumWithout ==
  ASSUME NEW f, NEW S, IsFiniteSet(S), \A y \in S : f[y] \in Int, NEW x \in S
  PROVE  SumFunctionOnSet(f, S) = f[x] + SumFunctionOnSet(f, S \ {x})
<1> DEFINE C == {T \in SUBSET S :
                   \E z \in T : SumFunctionOnSet(f, T) # f[z] + SumFunctionOnSet(f, T \ {z})}
<1>1. SUFFICES ASSUME C # {} PROVE FALSE
  OBVIOUS
<1>2. PICK T \in C : \A U \in C : U \subseteq T => U = T
  <2>1. C \subseteq SUBSET S
    OBVIOUS
  <2> HIDE DEF C
  <2>2. QED BY <1>1, <2>1, Smallest
<1>3. T \subseteq S /\ IsFiniteSet(T)
  BY FS_Subset
<1>4. PICK z \in T : SumFunctionOnSet(f, T) # f[z] + SumFunctionOnSet(f, T \ {z})
  OBVIOUS
<1> DEFINE c == Some(T)
           rest == (T \ {c}) \ {z}
<1>5. c \in T /\ SumFunctionOnSet(f, T) = f[c] + SumFunctionOnSet(f, T \ {c})
  BY <1>3, SumChosen, SomeOf
<1>6. c # z /\ f[c] \in Int /\ f[z] \in Int
  BY <1>3, <1>4, <1>5
<1>7. SumFunctionOnSet(f, T \ {c}) = f[z] + SumFunctionOnSet(f, rest)
  <2>1. T \ {c} \notin C /\ T \ {c} \in SUBSET S /\ z \in T \ {c}
    BY <1>2, <1>3, <1>5, <1>6
  <2>2. QED BY <2>1
<1>8. SumFunctionOnSet(f, T \ {z}) = f[c] + SumFunctionOnSet(f, rest)
  <2>1. T \ {z} \notin C /\ T \ {z} \in SUBSET S /\ c \in T \ {z}
    BY <1>2, <1>3, <1>5, <1>6
  <2>2. SumFunctionOnSet(f, T \ {z}) = f[c] + SumFunctionOnSet(f, (T \ {z}) \ {c})
    BY <2>1
  <2>3. (T \ {z}) \ {c} = rest
    OBVIOUS
  <2>4. QED BY <2>2, <2>3
<1>9. SumFunctionOnSet(f, rest) \in Int
  <2>1. IsFiniteSet(rest) /\ \A y \in rest : f[y] \in Int
    BY <1>3, FS_Subset
  <2> HIDE DEF rest
  <2>2. QED BY <2>1, SumInt
<1> HIDE DEF rest, c, C
<1>10. QED BY <1>4, <1>5, <1>6, <1>7, <1>8, <1>9

LEMMA SumWith ==
  ASSUME NEW f, NEW S, IsFiniteSet(S), \A y \in S : f[y] \in Int, NEW x, x \notin S, f[x] \in Int
  PROVE  SumFunctionOnSet(f, S \cup {x}) = f[x] + SumFunctionOnSet(f, S)
<1> DEFINE T == S \cup {x}
<1>1. IsFiniteSet(T) /\ x \in T /\ T \ {x} = S /\ \A y \in T : f[y] \in Int
  BY FS_AddElement
<1> HIDE DEF T
<1>2. SumFunctionOnSet(f, T) = f[x] + SumFunctionOnSet(f, S)
  BY <1>1, SumWithout
<1>3. QED BY <1>2 DEF T

-----------------------------------------------------------------------------
(* What the wallets' entries make of the ledger. *)

\* However many requests there are, a wallet has finitely many entries.
FiniteBooks == \A u \in Users : IsFiniteSet(Credited(u)) /\ IsFiniteSet(Debited(u))

\* The amounts that are summed.
LEMMA Summands ==
  /\ \A r \in Reqs : Charges[r] = Charge(r) /\ Charge(r) \in Int
  /\ \A c \in Credits : CreditAmount[c] \in Int
BY RequestData, DataAssumption DEF DataAssumption, Charges

\* A transaction's status is written.
Moved(t, after) == txn' = [txn EXCEPT ![t] = after]

LEMMA DebitEntry ==
  ASSUME TypeOK, NEW d \in Reqs, NEW after, Moved(d, after), NEW u \in Users
  PROVE  /\ Credited(u)' = Credited(u)
         /\ ReqUser[d] = u /\ after \in {"processing", "success"} => Debited(u)' = Debited(u) \cup {d}
         /\ ~(ReqUser[d] = u /\ after \in {"processing", "success"}) => Debited(u)' = Debited(u) \ {d}
<1>1. txn'[d] = after /\ \A t \in Refs \ {d} : txn'[t] = txn[t]
  BY RequestData DEF Moved, TypeOK, StoreTypeOK
<1>2. Credited(u)' = Credited(u)
  BY <1>1, ActorAssumption DEF ActorAssumption, Credited, Refs
<1>3. \A r \in Reqs \ {d} : Live(r)' <=> Live(r)
  BY <1>1 DEF Live, Refs
<1>4. Live(d)' <=> after \in {"processing", "success"}
  BY <1>1 DEF Live
<1>5. QED BY <1>2, <1>3, <1>4 DEF Debited

LEMMA CreditEntry ==
  ASSUME TypeOK, NEW c \in Credits, Moved(c, "success"), NEW u \in Users
  PROVE  /\ CreditUser[c] = u => Credited(u)' = Credited(u) \cup {c}
         /\ CreditUser[c] # u => Credited(u)' = Credited(u)
         /\ Debited(u)' = Debited(u)
<1>1. c \in Refs /\ \A r \in Reqs : r \in Refs /\ r # c
  BY ActorAssumption DEF ActorAssumption, Refs
<1>2. txn'[c] = "success" /\ \A t \in Refs \ {c} : txn'[t] = txn[t]
  BY <1>1 DEF Moved, TypeOK, StoreTypeOK
<1>3. QED BY <1>1, <1>2 DEF Credited, Debited, Live, Refs

\* The sums of a wallet's entries are integers.
LEMMA SumsInt ==
  ASSUME FiniteBooks, NEW u \in Users
  PROVE  /\ SumFunctionOnSet(CreditAmount, Credited(u)) \in Int
         /\ SumFunctionOnSet(Charges, Debited(u)) \in Int
         /\ InitBalance[u] \in Int
<1>1. IsFiniteSet(Credited(u)) /\ \A c \in Credited(u) : CreditAmount[c] \in Int
  BY Summands DEF FiniteBooks, Credited
<1>2. IsFiniteSet(Debited(u)) /\ \A r \in Debited(u) : Charges[r] \in Int
  BY Summands DEF FiniteBooks, Debited
<1>3. InitBalance[u] \in Int
  BY DataAssumption DEF DataAssumption
<1>4. QED BY <1>1, <1>2, <1>3, SumInt

LEMMA ExpectedThen ==
  ASSUME NEW u, NEW C, Credited(u)' = C, NEW D, Debited(u)' = D
  PROVE  Expected(u)' = InitBalance[u] + SumFunctionOnSet(CreditAmount, C)
                                       - SumFunctionOnSet(Charges, D)
BY DEF Expected

\* A debit that is committed, or given back, or a deposit moves what its wallet
\* should hold by what it is worth, and no other wallet's.
LEMMA DebitExpected ==
  ASSUME TypeOK, FiniteBooks, NEW d \in Reqs, ~Live(d), Moved(d, "processing"),
         NEW u \in Users
  PROVE  Expected(u)' = Expected(u) - (IF ReqUser[d] = u THEN Charge(d) ELSE 0)
<1>1. d \notin Debited(u) /\ \A r \in Debited(u) : Charges[r] \in Int
  BY Summands DEF Debited
<1>2. IsFiniteSet(Debited(u))
  BY DEF FiniteBooks
<1>3. Charges[d] = Charge(d) /\ Charge(d) \in Int
  BY Summands
<1>4. SumFunctionOnSet(Charges, Debited(u) \cup {d}) = Charge(d) + SumFunctionOnSet(Charges, Debited(u))
  BY <1>1, <1>2, <1>3, SumWith
<1>5. /\ Credited(u)' = Credited(u)
      /\ ReqUser[d] = u => Debited(u)' = Debited(u) \cup {d}
      /\ ReqUser[d] # u => Debited(u)' = Debited(u)
  BY <1>1, DebitEntry
<1>6. CASE ReqUser[d] = u
  <2>1. Expected(u)' = InitBalance[u] + SumFunctionOnSet(CreditAmount, Credited(u))
                                      - SumFunctionOnSet(Charges, Debited(u) \cup {d})
    BY <1>5, <1>6, ExpectedThen
  <2>2. QED BY <1>3, <1>4, <1>6, <2>1, SumsInt DEF Expected
<1>7. CASE ReqUser[d] # u
  <2>1. Expected(u)' = Expected(u)
    BY <1>5, <1>7, ExpectedThen DEF Expected
  <2>2. Expected(u) \in Int
    BY SumsInt DEF Expected
  <2>3. QED BY <1>7, <2>1, <2>2
<1>8. QED BY <1>6, <1>7

LEMMA RefundExpected ==
  ASSUME TypeOK, FiniteBooks, NEW d \in Reqs, Live(d), Moved(d, "failed"),
         NEW u \in Users
  PROVE  Expected(u)' = Expected(u) + (IF ReqUser[d] = u THEN Charge(d) ELSE 0)
<1>1. \A r \in Debited(u) : Charges[r] \in Int
  BY Summands DEF Debited
<1>2. IsFiniteSet(Debited(u)) /\ IsFiniteSet(Debited(u) \ {d})
  BY FS_Subset DEF FiniteBooks
<1>3. Charges[d] = Charge(d) /\ Charge(d) \in Int
  BY Summands
<1>4. Credited(u)' = Credited(u) /\ Debited(u)' = Debited(u) \ {d}
  BY DebitEntry
<1>5. Expected(u)' = InitBalance[u] + SumFunctionOnSet(CreditAmount, Credited(u))
                                    - SumFunctionOnSet(Charges, Debited(u) \ {d})
  BY <1>4, ExpectedThen
<1>6. CASE ReqUser[d] = u
  <2>1. d \in Debited(u)
    BY <1>6 DEF Debited
  <2>2. SumFunctionOnSet(Charges, Debited(u))
          = Charge(d) + SumFunctionOnSet(Charges, Debited(u) \ {d})
    BY <1>1, <1>2, <1>3, <2>1, SumWithout
  <2>3. SumFunctionOnSet(Charges, Debited(u) \ {d}) \in Int
    BY <1>1, <1>2, SumInt
  <2>4. QED BY <1>3, <1>5, <1>6, <2>2, <2>3, SumsInt DEF Expected
<1>7. CASE ReqUser[d] # u
  <2>1. Debited(u) \ {d} = Debited(u)
    BY <1>7 DEF Debited
  <2>2. Expected(u)' = Expected(u)
    BY <1>5, <2>1 DEF Expected
  <2>3. Expected(u) \in Int
    BY SumsInt DEF Expected
  <2>4. QED BY <1>7, <2>2, <2>3
<1>8. QED BY <1>6, <1>7

LEMMA DepositExpected ==
  ASSUME TypeOK, FiniteBooks, NEW c \in Credits, txn[c] # "success",
         Moved(c, "success"), NEW u \in Users
  PROVE  Expected(u)' = Expected(u) + (IF CreditUser[c] = u THEN CreditAmount[c] ELSE 0)
<1>1. c \notin Credited(u) /\ \A x \in Credited(u) : CreditAmount[x] \in Int
  BY Summands DEF Credited
<1>2. IsFiniteSet(Credited(u)) /\ CreditAmount[c] \in Int
  BY Summands DEF FiniteBooks
<1>3. SumFunctionOnSet(CreditAmount, Credited(u) \cup {c})
        = CreditAmount[c] + SumFunctionOnSet(CreditAmount, Credited(u))
  BY <1>1, <1>2, SumWith
<1>4. CASE CreditUser[c] = u
  <2>1. Expected(u)' = InitBalance[u] + SumFunctionOnSet(CreditAmount, Credited(u) \cup {c})
                                      - SumFunctionOnSet(Charges, Debited(u))
    BY <1>4, CreditEntry, ExpectedThen
  <2>2. QED BY <1>2, <1>3, <1>4, <2>1, SumsInt DEF Expected
<1>5. CASE CreditUser[c] # u
  <2>1. Expected(u)' = Expected(u)
    BY <1>5, CreditEntry, ExpectedThen DEF Expected
  <2>2. Expected(u) \in Int
    BY SumsInt DEF Expected
  <2>3. QED BY <1>5, <2>1, <2>2
<1>6. QED BY <1>4, <1>5

LEMMA KeepExpected ==
  ASSUME TypeOK, FiniteBooks, NEW d \in Reqs, Live(d), Moved(d, "success"), NEW u \in Users
  PROVE  Expected(u)' = Expected(u)
<1>1. Credited(u)' = Credited(u) /\ Debited(u)' = Debited(u)
  BY DebitEntry DEF Debited
<1>2. QED BY <1>1, ExpectedThen DEF Expected

\* Every step writes one entry at most, so the books stay finite.
LEMMA FiniteInductive ==
  ASSUME TypeOK, CoreInv, FiniteBooks, [Next]_vars
  PROVE  FiniteBooks'
<1> SUFFICES ASSUME NEW u \in Users
             PROVE  IsFiniteSet(Credited(u)') /\ IsFiniteSet(Debited(u)')
  BY DEF FiniteBooks
<1>1. /\ IsFiniteSet(Credited(u)) /\ IsFiniteSet(Debited(u))
      /\ \A t : /\ IsFiniteSet(Credited(u) \cup {t}) /\ IsFiniteSet(Debited(u) \cup {t})
                /\ IsFiniteSet(Debited(u) \ {t})
  BY FS_AddElement, FS_RemoveElement DEF FiniteBooks
<1>2. ASSUME NEW d \in Reqs, NEW after, Moved(d, after)
      PROVE  IsFiniteSet(Credited(u)') /\ IsFiniteSet(Debited(u)')
  <2>1. Credited(u)' = Credited(u) /\ Debited(u)' \in {Debited(u) \cup {d}, Debited(u) \ {d}}
    BY <1>2, DebitEntry
  <2>2. IsFiniteSet(Debited(u) \cup {d}) /\ IsFiniteSet(Debited(u) \ {d})
    BY <1>1
  <2>3. CASE Debited(u)' = Debited(u) \cup {d}
    BY <1>1, <2>1, <2>2, <2>3
  <2>4. CASE Debited(u)' = Debited(u) \ {d}
    BY <1>1, <2>1, <2>2, <2>4
  <2>5. QED BY <2>1, <2>3, <2>4
<1>3. ASSUME NEW c \in Credits, Moved(c, "success")
      PROVE  IsFiniteSet(Credited(u)') /\ IsFiniteSet(Debited(u)')
  <2>1. Debited(u)' = Debited(u) /\ Credited(u)' \in {Credited(u) \cup {c}, Credited(u)}
    BY <1>3, CreditEntry
  <2>2. IsFiniteSet(Credited(u) \cup {c})
    BY <1>1
  <2>3. CASE Credited(u)' = Credited(u) \cup {c}
    BY <1>1, <2>1, <2>2, <2>3
  <2>4. CASE Credited(u)' = Credited(u)
    BY <1>1, <2>1, <2>4
  <2>5. QED BY <2>1, <2>3, <2>4
<1>4. CASE ConfirmSuccess \/ ConfirmFailure
  BY <1>2, <1>4, Reconciling DEF ConfirmSuccess, ConfirmFailure, Moved
<1>5. CASE ApplyCredit
  BY <1>3, <1>5, Crediting DEF Moved
<1>6. CASE \E r \in Reqs : txn' = [txn EXCEPT ![r] = "processing"]
  BY <1>2, <1>6 DEF Moved
<1>7. CASE txn' = txn
  BY <1>1, <1>7 DEF Credited, Debited, Live
<1>8. QED BY <1>4, <1>5, <1>6, <1>7, TxnWriters

\* A step of the atomic wallet moves a balance and what it should be alike.
LEMMA WalletKeepsDrift ==
  ASSUME TypeOK, FiniteBooks, W!Next, NEW u \in Users
  PROVE  Drift(u)' = Drift(u)
<1>1. /\ balance \in [Users -> Int] /\ Expected(u) \in Int
      /\ \A r \in Reqs : ReqUser[r] \in Users /\ Charge(r) \in Int
      /\ \A c \in Credits : CreditUser[c] \in Users /\ CreditAmount[c] \in Int
  BY RequestData, Summands, SumsInt, DataAssumption DEF DataAssumption, TypeOK, StoreTypeOK, Expected
<1>2. ASSUME NEW d \in Reqs, W!Take(d) PROVE Drift(u)' = Drift(u)
  <2>1. ~Live(d) /\ Moved(d, "processing")
    BY <1>2 DEF W!Take, W!Becomes, Live, Moved
  <2>2. Expected(u)' = Expected(u) - (IF ReqUser[d] = u THEN Charge(d) ELSE 0)
    BY <2>1, DebitExpected
  <2>3. balance' = [balance EXCEPT ![ReqUser[d]] = @ + -Charge(d)]
    BY <1>2 DEF W!Take, W!Add
  <2>4. balance'[u] = balance[u] - (IF ReqUser[d] = u THEN Charge(d) ELSE 0)
    BY <1>1, <2>3
  <2>5. QED BY <1>1, <2>2, <2>4 DEF Drift
<1>3. ASSUME NEW d \in Reqs, W!Keep(d) PROVE Drift(u)' = Drift(u)
  <2>1. Live(d) /\ Moved(d, "success") /\ balance' = balance
    BY <1>3 DEF W!Keep, W!Becomes, Live, Moved
  <2>2. QED BY <2>1, KeepExpected DEF Drift
<1>4. ASSUME NEW d \in Reqs, W!GiveBack(d) PROVE Drift(u)' = Drift(u)
  <2>1. Live(d) /\ Moved(d, "failed")
    BY <1>4 DEF W!GiveBack, W!Becomes, Live, Moved
  <2>2. Expected(u)' = Expected(u) + (IF ReqUser[d] = u THEN Charge(d) ELSE 0)
    BY <2>1, RefundExpected
  <2>3. balance' = [balance EXCEPT ![ReqUser[d]] = @ + Charge(d)]
    BY <1>4 DEF W!GiveBack, W!Add
  <2>4. balance'[u] = balance[u] + (IF ReqUser[d] = u THEN Charge(d) ELSE 0)
    BY <1>1, <2>3
  <2>5. QED BY <1>1, <2>2, <2>4 DEF Drift
<1>5. ASSUME NEW c \in Credits, W!Deposit(c) PROVE Drift(u)' = Drift(u)
  <2>1. txn[c] # "success" /\ Moved(c, "success")
    BY <1>5 DEF W!Deposit, W!Becomes, Moved
  <2>2. Expected(u)' = Expected(u) + (IF CreditUser[c] = u THEN CreditAmount[c] ELSE 0)
    BY <2>1, DepositExpected
  <2>3. balance' = [balance EXCEPT ![CreditUser[c]] = @ + CreditAmount[c]]
    BY <1>5 DEF W!Deposit, W!Add
  <2>4. balance'[u] = balance[u] + (IF CreditUser[c] = u THEN CreditAmount[c] ELSE 0)
    BY <1>1, <2>3
  <2>5. QED BY <1>1, <2>2, <2>4 DEF Drift
<1>6. QED BY <1>2, <1>3, <1>4, <1>5 DEF W!Next

\* A stale commit errs by the change it overwrites.
LEMMA StaleDrifts ==
  ASSUME TypeOK, FiniteBooks, NEW r \in Reqs, StaleCommit(r), NEW u \in Users
  PROVE  /\ ReqUser[r] = u => Drift(u)' - Drift(u) = snap[r].balance - balance[u]
         /\ ReqUser[r] # u => Drift(u)' = Drift(u)
<1>1. /\ balance \in [Users -> Int] /\ Expected(u) \in Int
      /\ ReqUser[r] \in Users /\ Charge(r) \in Int /\ snap[r].balance \in Int
  BY RequestData, SumsInt DEF TypeOK, StoreTypeOK, PayoutTypeOK, Expected
<1>2. ~Live(r) /\ Moved(r, "processing")
  BY DEF StaleCommit, W!Becomes, Live, Moved
<1>3. Expected(u)' = Expected(u) - (IF ReqUser[r] = u THEN Charge(r) ELSE 0)
  BY <1>2, DebitExpected
<1>4. balance' = [balance EXCEPT ![ReqUser[r]] = snap[r].balance - Charge(r)]
  BY DEF StaleCommit
<1>5. balance'[u] = IF ReqUser[r] = u THEN snap[r].balance - Charge(r) ELSE balance[u]
  BY <1>1, <1>4
<1>6. QED BY <1>1, <1>3, <1>5 DEF Drift

\* Nothing has moved at first.
LEMMA InitLedger == Init => FiniteBooks /\ LedgerBalanced
<1> SUFFICES ASSUME Init, NEW u \in Users
             PROVE  IsFiniteSet(Credited(u)) /\ IsFiniteSet(Debited(u)) /\ Drift(u) = 0
  BY DEF FiniteBooks, LedgerBalanced
<1>1. Credited(u) = {} /\ Debited(u) = {}
  BY DEF Init, StoreInit, Credited, Debited, Live, Refs
<1>2. IsFiniteSet({}) /\ \A f : SumFunctionOnSet(f, {}) = 0
  BY FS_EmptySet, SumChosen
<1>3. Expected(u) = InitBalance[u] /\ balance[u] = InitBalance[u] /\ InitBalance[u] \in Int
  BY <1>1, <1>2, DataAssumption DEF DataAssumption, Expected, Init, StoreInit
<1>4. QED BY <1>1, <1>2, <1>3 DEF Drift

LEMMA BooksFinite == Spec => []FiniteBooks
<1>1. TypeOK /\ CoreInv /\ FiniteBooks /\ [Next]_vars => FiniteBooks'
  BY FiniteInductive
<1>2. QED BY <1>1, InitLedger, CoreInvariant, PTL DEF Spec

\* The one way the ledger comes apart, for any number of actors: a payout that
\* commits over a change its request has not loaded errs by exactly that change.
THEOREM DriftOnlyByStaleCommits == Spec => OnlyStaleCommitsDrift
<1>1. TypeOK /\ CoreInv /\ EntryInv /\ FiniteBooks /\ [Next]_vars =>
        [\A u \in Users : Drift(u)' # Drift(u) =>
           \E r \in Reqs :
             /\ ReqUser[r] = u /\ pc[r] = "transfer" /\ pc'[r] = "committed"
             /\ Drift(u)' - Drift(u) = snap[r].balance - balance[u]]_vars
  <2> SUFFICES ASSUME TypeOK, CoreInv, EntryInv, FiniteBooks, [Next]_vars,
                      NEW u \in Users, Drift(u)' # Drift(u)
               PROVE  \E r \in Reqs :
                        /\ ReqUser[r] = u /\ pc[r] = "transfer" /\ pc'[r] = "committed"
                        /\ Drift(u)' - Drift(u) = snap[r].balance - balance[u]
    OBVIOUS
  <2>1. CASE W!Next
    BY <2>1, WalletKeepsDrift
  <2>2. CASE UNCHANGED <<balance, txn>>
    BY <2>2 DEF Drift, Expected, Credited, Debited, Live
  <2>3. CASE \E r \in Reqs : StaleCommit(r)
    <3>1. PICK r \in Reqs : StaleCommit(r)
      BY <2>3
    <3>2. ReqUser[r] = u /\ Drift(u)' - Drift(u) = snap[r].balance - balance[u]
      BY <3>1, StaleDrifts
    <3>3. QED BY <3>1, <3>2 DEF StaleCommit
  <2>4. QED BY <2>1, <2>2, <2>3, StepsAreWallet
<1>2. QED BY <1>1, CoreInvariant, EntryInvariant, BooksFinite, PTL DEF Spec, OnlyStaleCommitsDrift

\* When no two actors change one wallet, the promise of the documentation holds:
\* at every moment each wallet holds what its transactions say.
THEOREM SeparateWalletsBalance ==
  ASSUME Separate
  PROVE  Spec => []LedgerBalanced
<1>1. TypeOK /\ FiniteBooks /\ LedgerBalanced /\ [W!Next]_<<balance, txn>> => LedgerBalanced'
  <2> SUFFICES ASSUME TypeOK, FiniteBooks, LedgerBalanced, [W!Next]_<<balance, txn>>, NEW u \in Users
               PROVE  Drift(u)' = 0
    BY DEF LedgerBalanced
  <2>1. CASE W!Next
    BY <2>1, WalletKeepsDrift DEF LedgerBalanced
  <2>2. CASE UNCHANGED <<balance, txn>>
    BY <2>2 DEF LedgerBalanced, Drift, Expected, Credited, Debited, Live
  <2>3. QED BY <2>1, <2>2
<1>2. QED
  BY <1>1, InitLedger, CoreInvariant, BooksFinite, PayoutsImplementWallet, PTL
  DEF Spec, ImplementsWallet, W!Spec
=============================================================================
