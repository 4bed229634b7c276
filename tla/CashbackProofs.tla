--------------------------- MODULE CashbackProofs ---------------------------
(***************************************************************************)
(* Proofs about the cashback program: for any number of clients,           *)
(* employees, rewards, codes, photos and handlers.                         *)
(*                                                                         *)
(* TypeInv says what a handler holds at each of its steps.  From it follow *)
(* the kinds of steps there are (Works), and over these the row            *)
(* locks, the replay of the ledger, the receipts, the expirations, the cap *)
(* per period and the redemptions are proved one after the other.          *)
(***************************************************************************)
EXTENDS Cashback, FiniteSetTheorems, WellFoundedInduction, TLAPS

-----------------------------------------------------------------------------
(***************************************************************************)
(* What the sum of a finite set of entries is, AmountOf, for every set: by *)
(* induction over the finite subsets, with FS_StrictSubsetOrdering-        *)
(* WellFounded.  Also the greatest element of a finite set of integers.    *)
(***************************************************************************)
LEMMA FiniteInduction ==
  ASSUME NEW S, IsFiniteSet(S), NEW T,
         {} \in T,
         \A U \in SUBSET S : U # {} /\ (\A V \in SUBSET U : V # U => V \in T) => U \in T
  PROVE  S \in T
<1> SUFFICES ASSUME S \notin T PROVE FALSE
  OBVIOUS
<1> DEFINE R == StrictSubsetOrdering(S)
           B == (SUBSET S) \ T
<1>1. IsWellFoundedOn(R, SUBSET S)
  <2>1. IsWellFoundedOn(R, FiniteSubsetsOf(S))
    BY FS_StrictSubsetOrderingWellFounded
  <2>2. FiniteSubsetsOf(S) = SUBSET S
    BY FS_FiniteSubsetsOfFinite
  <2> QED BY <2>1, <2>2
<1>2. B \subseteq SUBSET S /\ B # {}
  OBVIOUS
<1> HIDE DEF B, R
<1>3. PICK x \in B : \A y \in B : ~ (<<y, x>> \in R)
  BY <1>1, <1>2, WFMin
<1>4. \A V \in SUBSET x : V # x => V \in T
  <2> TAKE V \in SUBSET x
  <2>1. x \in SUBSET S /\ V \in SUBSET S
     BY <1>2
  <2>2. V # x => <<V, x>> \in R
     BY <2>1 DEF R, StrictSubsetOrdering
  <2> QED BY <1>3, <2>1, <2>2 DEF B
<1> QED BY <1>2, <1>3, <1>4 DEF B

(* The element a sum takes next. *)
First(s) == CHOOSE x \in s : TRUE

Adding(e, S, g) == [s \in SUBSET S |-> IF s = {} THEN 0 ELSE e[First(s)].amount + g[s \ {First(s)}]]

Partial(e, S) == CHOOSE g : g = Adding(e, S, g)

LEMMA AmountOfPartial ==
  ASSUME NEW e, NEW S
  PROVE  AmountOf(e, S) = Partial(e, S)[S]
BY DEF AmountOf, MapThenSumSet, MapThenFoldSet, Partial, Adding, First

LEMMA PartialAt ==
  ASSUME NEW e, NEW S, NEW g, g = Adding(e, S, g), NEW s \in SUBSET S
  PROVE  g[s] = IF s = {} THEN 0 ELSE e[First(s)].amount + g[s \ {First(s)}]
BY DEF Adding

LEMMA FirstIn == ASSUME NEW s, s # {} PROVE First(s) \in s
BY DEF First

LEMMA PartialUnique ==
  ASSUME NEW e, NEW V, NEW W, NEW g, NEW h, g = Adding(e, V, g), h = Adding(e, W, h),
         NEW S, IsFiniteSet(S), S \subseteq V, S \subseteq W
  PROVE  g[S] = h[S]
<1> DEFINE T == {s \in SUBSET S : g[s] = h[s]}
<1>1. {} \in T
  BY PartialAt
<1>2. ASSUME NEW s \in SUBSET S, s # {}, \A r \in SUBSET s : r # s => r \in T
      PROVE  s \in T
  <2> DEFINE r == s \ {First(s)}
  <2>1. r \in SUBSET s /\ r # s
    BY <1>2, FirstIn
  <2>2. r \in T
    BY <1>2, <2>1
  <2>3. g[s] = e[First(s)].amount + g[r]
    BY <1>2, PartialAt
  <2>4. h[s] = e[First(s)].amount + h[r]
    BY <1>2, PartialAt
  <2> QED BY <2>2, <2>3, <2>4
<1> HIDE DEF T
<1>3. S \in T
  BY <1>1, <1>2, FiniteInduction
<1> QED BY <1>3 DEF T

LEMMA PartialExists ==
  ASSUME NEW e, NEW S, IsFiniteSet(S)
  PROVE  Partial(e, S) = Adding(e, S, Partial(e, S))
<1> DEFINE T == {U \in SUBSET S : Partial(e, U) = Adding(e, U, Partial(e, U))}
<1>0. ASSUME NEW U \in SUBSET S, NEW g, g = Adding(e, U, g)
      PROVE  U \in T
  BY <1>0 DEF Partial
<1>1. {} \in T
  <2> DEFINE g == [s \in SUBSET {} |-> 0]
  <2>1. g = Adding(e, {}, g)
    BY DEF Adding
  <2> HIDE DEF g
  <2> HIDE DEF T
  <2> QED BY <1>0, <2>1
<1>2. ASSUME NEW U \in SUBSET S, U # {}, \A V \in SUBSET U : V # U => V \in T
      PROVE  U \in T
  <2> DEFINE Rest(s) == s \ {First(s)}
             Sum(s) == Partial(e, s)[s]
             g == [s \in SUBSET U |-> IF s = {} THEN 0 ELSE e[First(s)].amount + Sum(Rest(s))]
  <2>1. ASSUME NEW s \in SUBSET U, s # {}
        PROVE  g[Rest(s)] = Sum(Rest(s))
    <3> DEFINE r == Rest(s)
    <3>1. r \in SUBSET U /\ r # U
      BY <2>1, FirstIn
    <3>2. r \in T
      BY <1>2, <3>1
    <3>3. CASE r = {}
      <4>1. Sum(r) = 0
        BY <3>2, <3>3, PartialAt
      <4> QED BY <3>3, <4>1
    <3>4. CASE r # {}
      <4>1. Sum(r) = e[First(r)].amount + Partial(e, r)[Rest(r)]
        <5>1. Partial(e, r) = Adding(e, r, Partial(e, r)) /\ r \in SUBSET r
          BY <3>2
        <5> HIDE DEF r
        <5> QED BY <5>1, <3>4, PartialAt
      <4>2. Rest(r) \in SUBSET U /\ Rest(r) # U
        BY <3>1
      <4>3. Rest(r) \in T
        BY <1>2, <4>2
      <4>4. IsFiniteSet(Rest(r))
        <5>1. Rest(r) \subseteq S
          BY <4>2
        <5> QED BY <5>1, FS_Subset
      <4>5. Partial(e, r)[Rest(r)] = Sum(Rest(r))
        <5>1. Partial(e, r) = Adding(e, r, Partial(e, r))
          BY <3>2
        <5>2. Partial(e, Rest(r)) = Adding(e, Rest(r), Partial(e, Rest(r)))
          BY <4>3
        <5>3. Rest(r) \subseteq r
          OBVIOUS
        <5> QED BY <4>4, <5>1, <5>2, <5>3, PartialUnique
      <4> QED BY <3>1, <3>4, <4>1, <4>5
    <3> QED BY <3>3, <3>4
  <2>2. g = Adding(e, U, g)
    <3>1. \A s \in SUBSET U : s # {} => g[Rest(s)] = Sum(Rest(s))
      BY <2>1
    <3>2. Adding(e, U, g) = [s \in SUBSET U |-> IF s = {} THEN 0 ELSE e[First(s)].amount + g[Rest(s)]]
      BY DEF Adding
    <3> HIDE DEF Rest, Sum
    <3>3. g = [s \in SUBSET U |-> IF s = {} THEN 0 ELSE e[First(s)].amount + Sum(Rest(s))]
      OBVIOUS
    <3> HIDE DEF g
    <3> QED BY <3>1, <3>2, <3>3
  <2> HIDE DEF g, T
  <2> QED BY <1>0, <2>2
<1> HIDE DEF T
<1>3. S \in T
  BY <1>1, <1>2, FiniteInduction
<1> QED BY <1>3 DEF T

LEMMA SumEmpty == ASSUME NEW e PROVE AmountOf(e, {}) = 0
<1>1. IsFiniteSet({})
  BY FS_EmptySet
<1> QED BY <1>1, AmountOfPartial, PartialExists, PartialAt

LEMMA SumFirst ==
  ASSUME NEW e, NEW S, IsFiniteSet(S), S # {}
  PROVE  AmountOf(e, S) = e[First(S)].amount + AmountOf(e, S \ {First(S)})
<1> DEFINE r == S \ {First(S)}
<1>1. IsFiniteSet(r)
  BY FS_Subset
<1>2. /\ Partial(e, S) = Adding(e, S, Partial(e, S))
      /\ Partial(e, r) = Adding(e, r, Partial(e, r))
  BY <1>1, PartialExists
<1>3. Partial(e, S)[S] = e[First(S)].amount + Partial(e, S)[r]
  BY <1>2, PartialAt
<1>4. Partial(e, S)[r] = Partial(e, r)[r]
  BY <1>1, <1>2, PartialUnique
<1> QED BY <1>3, <1>4, AmountOfPartial

LEMMA SumType ==
  ASSUME NEW e, NEW S, IsFiniteSet(S), \A i \in S : e[i].amount \in Int
  PROVE  AmountOf(e, S) \in Int
<1> DEFINE T == {s \in SUBSET S : AmountOf(e, s) \in Int}
<1>1. {} \in T
  BY SumEmpty
<1>2. ASSUME NEW s \in SUBSET S, s # {}, \A r \in SUBSET s : r # s => r \in T
      PROVE  s \in T
  <2>1. s \ {First(s)} \in T /\ First(s) \in S
    BY <1>2, FirstIn
  <2>2. IsFiniteSet(s)
    BY FS_Subset
  <2>3. AmountOf(e, s) = e[First(s)].amount + AmountOf(e, s \ {First(s)})
    BY <1>2, <2>2, SumFirst
  <2> QED BY <2>1, <2>3
<1> HIDE DEF T
<1>3. S \in T
  BY <1>1, <1>2, FiniteInduction
<1> QED BY <1>3 DEF T

LEMMA SumElement ==
  ASSUME NEW e, NEW S, IsFiniteSet(S), \A i \in S : e[i].amount \in Int, NEW x \in S
  PROVE  AmountOf(e, S) = e[x].amount + AmountOf(e, S \ {x})
<1> DEFINE T == {s \in SUBSET S : \A y \in s : AmountOf(e, s) = e[y].amount + AmountOf(e, s \ {y})}
<1>1. {} \in T
  OBVIOUS
<1>2. ASSUME NEW s \in SUBSET S, s # {}, \A r \in SUBSET s : r # s => r \in T
      PROVE  s \in T
  <2> SUFFICES ASSUME NEW y \in s
               PROVE  AmountOf(e, s) = e[y].amount + AmountOf(e, s \ {y})
    OBVIOUS
  <2> DEFINE f == First(s)
  <2>1. f \in s /\ IsFiniteSet(s) /\ IsFiniteSet(s \ {f}) /\ IsFiniteSet(s \ {y}) /\ IsFiniteSet(s \ {f, y})
    BY <1>2, FirstIn, FS_Subset
  <2>2. AmountOf(e, s) = e[f].amount + AmountOf(e, s \ {f})
    BY <1>2, <2>1, SumFirst
  <2>3. CASE y = f
    BY <2>2, <2>3
  <2>4. CASE y # f
    <3>1. s \ {f} \in T /\ s \ {y} \in T
      BY <1>2, <2>1
    <3>2. AmountOf(e, s \ {f}) = e[y].amount + AmountOf(e, (s \ {f}) \ {y})
      BY <2>4, <3>1
    <3>3. AmountOf(e, s \ {y}) = e[f].amount + AmountOf(e, (s \ {y}) \ {f})
      BY <2>1, <2>4, <3>1
    <3>4. (s \ {f}) \ {y} = s \ {f, y} /\ (s \ {y}) \ {f} = s \ {f, y}
      OBVIOUS
    <3>5. AmountOf(e, s \ {f, y}) \in Int
      BY <2>1, SumType
    <3>6. e[y].amount \in Int /\ e[f].amount \in Int
      BY <2>1
    <3>7. PICK k, a, b : k = AmountOf(e, s \ {f, y}) /\ a = e[f].amount /\ b = e[y].amount
      OBVIOUS
    <3>8. AmountOf(e, s) = a + (b + k)
      BY <2>2, <3>2, <3>4, <3>7
    <3>9. AmountOf(e, s \ {y}) = a + k
      BY <3>3, <3>4, <3>7
    <3> QED BY <3>5, <3>6, <3>7, <3>8, <3>9
  <2> QED BY <2>3, <2>4
<1> HIDE DEF T
<1>3. S \in T
  BY <1>1, <1>2, FiniteInduction
<1> QED BY <1>3 DEF T

LEMMA SumSame ==
  ASSUME NEW e, NEW d, NEW S, IsFiniteSet(S), \A i \in S : e[i].amount = d[i].amount
  PROVE  AmountOf(e, S) = AmountOf(d, S)
<1> DEFINE T == {s \in SUBSET S : AmountOf(e, s) = AmountOf(d, s)}
<1>1. {} \in T
  BY SumEmpty
<1>2. ASSUME NEW s \in SUBSET S, s # {}, \A r \in SUBSET s : r # s => r \in T
      PROVE  s \in T
  <2>1. s \ {First(s)} \in T /\ First(s) \in S
    BY <1>2, FirstIn
  <2>2. IsFiniteSet(s)
    BY FS_Subset
  <2>3. /\ AmountOf(e, s) = e[First(s)].amount + AmountOf(e, s \ {First(s)})
        /\ AmountOf(d, s) = d[First(s)].amount + AmountOf(d, s \ {First(s)})
    BY <1>2, <2>2, SumFirst
  <2> QED BY <2>1, <2>3
<1> HIDE DEF T
<1>3. S \in T
  BY <1>1, <1>2, FiniteInduction
<1> QED BY <1>3 DEF T

LEMMA MaxExists ==
  ASSUME NEW S, IsFiniteSet(S), S \subseteq Int, S # {}
  PROVE  Max(S) \in S /\ \A y \in S : y <= Max(S)
<1> DEFINE T == {s \in SUBSET S : s # {} => \E x \in s : \A y \in s : y <= x}
<1>1. {} \in T
  OBVIOUS
<1>2. ASSUME NEW s \in SUBSET S, s # {}, \A r \in SUBSET s : r # s => r \in T
      PROVE  s \in T
  <2>1. PICK x : x \in s
    BY <1>2
  <2>2. s \ {x} \in T
    BY <1>2, <2>1
  <2>3. CASE s \ {x} = {}
    BY <2>1, <2>3
  <2>4. CASE s \ {x} # {}
    <3>1. PICK m \in s \ {x} : \A y \in s \ {x} : y <= m
      BY <2>2, <2>4
    <3>2. x \in Int /\ m \in Int
      BY <2>1, <3>1
    <3> QED BY <2>1, <3>1, <3>2
  <2> QED BY <2>3, <2>4
<1> HIDE DEF T
<1>3. S \in T
  BY <1>1, <1>2, FiniteInduction
<1> QED BY <1>3 DEF T, Max

-----------------------------------------------------------------------------
(***************************************************************************)
(* TypeOK is not inductive: a handler commits what its job holds, so what  *)
(* a job holds must be known wherever the handler is.                      *)
(***************************************************************************)
CreditPCs == {"sumWindow", "upsertBalance", "insertEarn"}
ExpirePCs == {"selectExpiring", "deductExpired", "commitExpired"}
BurnPCs == {"reserveStock", "deductBalance", "insertRedemption"}
CorrectPCs == {"checkCorrectable", "adjustBalance", "insertAdjustment"}
BalancePCs == CreditPCs \cup ExpirePCs \cup BurnPCs \cup CorrectPCs

(* An expiration that was posted for client c and waits for its commit.    *)
ExpirationOf(entry, c) == /\ entry.type = "expiration"
                          /\ entry.client = c
                          /\ entry.extract = NoExtract

(* What a handler that is at step s holds. *)
JobFits(s, j) ==
    /\ s \in BalancePCs => j.client \in Clients
    /\ s \in BurnPCs => /\ j.reward \in Rewards
                        /\ j.code \in Codes
                        /\ -j.amount \in Nat \ {0}
    /\ s = "markConfirmed" => j.code \in Codes /\ j.collaborator \in Collaborators
    /\ s \notin CreditPCs => j.extract = NoExtract
    /\ s \notin {"deductExpired", "commitExpired"} => j.posted = <<>>
    /\ s = "commitExpired" => j.posted # <<>>
    /\ \A i \in DOMAIN j.posted : ExpirationOf(j.posted[i], j.client)

JobsOK == \A p \in Procs : JobFits(pc[p], job[p])

(* What is still to be expired was credited. *)
TodoOK == \A p \in Procs : pc[p] = "deductExpired" => job[p].todo \subseteq DOMAIN ledger

TypeInv == TypeOK /\ JobsOK /\ TodoOK

LEMMA NoJobType == NoJob \in Job /\ JobFits("idle", NoJob)
<1>1. NoJob \in Job
    BY DEF NoJob, Job
<1>2. JobFits("idle", NoJob)
    BY DEF NoJob, JobFits, BalancePCs, CreditPCs, ExpirePCs, BurnPCs, CorrectPCs
<1> QED BY <1>1, <1>2

(* The rates and limits that pass the validation. *)
LEMMA StoredType ==
    ASSUME NEW new \in Configs, ValidUpdate(new), NEW rate \in 1 .. Whole
    PROVE  \A active \in BOOLEAN : Stored(new, rate, active) \in Config
<1>1. new \in [rate : Nat, expiry : Int \cup {None}, minTicket : Int \cup {None},
               maxTx : Int \cup {None}, maxPeriod : Int \cup {None}]
    BY ConfigAssumption
<1>2. /\ new.expiry \in (Nat \ {0}) \cup {None}
      /\ new.maxTx \in (Nat \ {0}) \cup {None}
      /\ new.maxPeriod \in (Nat \ {0}) \cup {None}
      /\ new.minTicket \in Nat \cup {None}
    BY <1>1 DEF ValidUpdate
<1>3. ASSUME NEW active \in BOOLEAN PROVE Stored(new, rate, active) \in Config
    BY <1>2 DEF Stored, Config
<1> QED BY <1>3

LEMMA WholeType == Whole \in Nat /\ Whole > 99
BY DEF Whole

LEMMA NormalRateType ==
    ASSUME NEW rate \in Nat, rate > 0, NormalRate(rate) \in 0 .. Whole
    PROVE  NormalRate(rate) \in 1 .. Whole
<1>1. CASE rate > Whole
    <2>1. rate \div 100 \in Int /\ rate \div 100 >= 1
        BY <1>1, WholeType
    <2> QED BY <1>1, <2>1, WholeType DEF NormalRate
<1>2. CASE ~(rate > Whole)
    BY <1>2, WholeType DEF NormalRate
<1> QED BY <1>1, <1>2

LEMMA CostsAndStocks == Costs \subseteq Nat /\ Stocks \subseteq Nat \cup {None}
BY ConfigAssumption

LEMMA ConfigRates == \A new \in Configs : new.rate \in Nat
BY ConfigAssumption

LEMMA TypeInit == Init => TypeInv
<1> SUFFICES ASSUME Init PROVE TypeInv
    OBVIOUS
<1>1. config \in Config
    <2> DEFINE Begun(n) == config = Stored(n, NormalRate(n.rate), TRUE)
    <2>1. PICK n \in Configs : n.rate > 0 /\ ValidUpdate(n) /\ Begun(n)
        BY Zenon DEF Init
    <2> HIDE DEF Begun
    <2>2. n.rate \in Nat /\ n.rate > 0 /\ NormalRate(n.rate) \in 0 .. Whole
        BY <2>1, ConfigRates DEF ValidUpdate
    <2>3. NormalRate(n.rate) \in 1 .. Whole
        BY <2>2, NormalRateType
    <2>4. \A active \in BOOLEAN : Stored(n, NormalRate(n.rate), active) \in Config
        BY <2>1, <2>3, StoredType
    <2> QED BY <2>1, <2>4, Zenon DEF Begun
<1>2. reward \in [Rewards -> Reward]
    <2>1. [cost : Costs \ {0}, stock : Stocks, count : {0}] \subseteq Reward
        <3> SUFFICES ASSUME NEW r \in [cost : Costs \ {0}, stock : Stocks, count : {0}]
                     PROVE  r \in Reward
            OBVIOUS
        <3>1. r.cost \in Costs \ {0} /\ r.stock \in Stocks
            OBVIOUS
        <3>2. r = [cost |-> r.cost, stock |-> r.stock, count |-> 0]
            OBVIOUS
        <3>3. \A n \in Costs \ {0}, m \in Stocks :
                  [cost |-> n, stock |-> m, count |-> 0] \in Reward
            BY CostsAndStocks DEF Reward
        <3> QED BY <3>1, <3>2, <3>3
    <2> QED BY <2>1 DEF Init
<1>3. pc \in [Procs -> PCs] /\ job \in [Procs -> Job]
    BY NoJobType DEF Init, PCs
<1>4. TypeOK
    BY <1>1, <1>2, <1>3 DEF Init, TypeOK
<1>5. JobsOK /\ TodoOK
    BY NoJobType DEF Init, JobsOK, TodoOK
<1> QED BY <1>4, <1>5 DEF TypeInv

(* A handler that moves to a step with a job that fits it. *)
LEMMA TypeMove ==
    ASSUME TypeInv, NEW p \in Procs, NEW s \in PCs, NEW j \in Job, JobFits(s, j),
           s = "deductExpired" => j.todo \subseteq DOMAIN ledger',
           DOMAIN ledger \subseteq DOMAIN ledger',
           pc' = [pc EXCEPT ![p] = s], job' = [job EXCEPT ![p] = j]
    PROVE  /\ pc' \in [Procs -> PCs]
           /\ job' \in [Procs -> Job]
           /\ JobsOK' /\ TodoOK'
<1>1. pc \in [Procs -> PCs] /\ job \in [Procs -> Job]
    BY DEF TypeInv, TypeOK
<1>2. pc' \in [Procs -> PCs] /\ job' \in [Procs -> Job]
    BY <1>1
<1>3. JobsOK'
    BY <1>1 DEF TypeInv, JobsOK
<1>4. TodoOK'
    BY <1>1 DEF TypeInv, TodoOK
<1> QED BY <1>2, <1>3, <1>4

LEMMA TypeFinish ==
    ASSUME TypeInv, NEW p \in Procs, Finish(p), DOMAIN ledger \subseteq DOMAIN ledger'
    PROVE  /\ pc' \in [Procs -> PCs]
           /\ job' \in [Procs -> Job]
           /\ JobsOK' /\ TodoOK'
<1>1. "idle" \in PCs
    BY DEF PCs
<1> QED BY <1>1, NoJobType, TypeMove DEF Finish

(* A step that leaves the rows alone. *)
LEMMA TypeSameRows ==
    ASSUME TypeInv, UNCHANGED dbVars, UNCHANGED clockVars, messages' \in Nat, adminUpdates' \in Nat,
           pc' \in [Procs -> PCs], job' \in [Procs -> Job], JobsOK', TodoOK'
    PROVE  TypeInv'
<1>1. TypeOK'
    BY DEF TypeInv, TypeOK, dbVars, clockVars
<1> QED BY <1>1 DEF TypeInv

LEMMA TypeGoto ==
    ASSUME TypeInv, NEW p \in Procs, NEW s \in PCs, NEW j \in Job, JobFits(s, j),
           s = "deductExpired" => j.todo \subseteq DOMAIN ledger,
           GotoWith(p, s, j), UNCHANGED <<clockVars, countVars>>
    PROVE  TypeInv'
<1>1. UNCHANGED dbVars /\ UNCHANGED ledger
    BY DEF GotoWith, dbVars
<1>2. pc' \in [Procs -> PCs] /\ job' \in [Procs -> Job] /\ JobsOK' /\ TodoOK'
    BY <1>1, TypeMove DEF GotoWith
<1> QED BY <1>1, <1>2, TypeSameRows DEF countVars, TypeInv, TypeOK

LEMMA TypeRollback ==
    ASSUME TypeInv, NEW p \in Procs, Rollback(p), UNCHANGED <<clockVars, countVars>>
    PROVE  TypeInv'
<1>1. "idle" \in PCs
    BY DEF PCs
<1> QED BY <1>1, NoJobType, TypeGoto DEF Rollback, Finish, GotoWith

(* A message that arrives. *)
LEMMA TypeBegin ==
    ASSUME TypeInv, NEW p \in Procs, NEW s \in PCs \ {"deductExpired"}, NEW j \in Job, JobFits(s, j),
           Begin(p, s, j), UNCHANGED <<dbVars, clockVars, adminUpdates>>
    PROVE  TypeInv'
<1>1. UNCHANGED ledger
    BY DEF dbVars
<1>2. pc' \in [Procs -> PCs] /\ job' \in [Procs -> Job] /\ JobsOK' /\ TodoOK'
    BY <1>1, TypeMove DEF Begin
<1>3. messages' \in Nat /\ adminUpdates' \in Nat
    BY DEF TypeInv, TypeOK, Begin
<1> QED BY <1>2, <1>3, TypeSameRows

LEMMA CashbackType ==
    ASSUME TypeInv, NEW a \in Int
    PROVE  CashbackFor(a) \in Int
<1>1. config \in Config
    BY DEF TypeInv, TypeOK
<1>2. config.rate \in 1 .. Whole
    BY <1>1 DEF Config
<1>3. a * config.rate \in Int
    BY <1>2, WholeType
<1> QED BY <1>3, WholeType DEF CashbackFor

LEMMA CreditJobType ==
    ASSUME TypeInv, NEW c \in Clients, NEW w \in Collaborators, NEW a \in Amounts,
           NEW x \in Extracts \cup {NoExtract}
    PROVE  /\ CreditJob(c, w, a, x) \in Job
           /\ JobFits("sumWindow", CreditJob(c, w, a, x))
<1>1. config \in Config
    BY DEF TypeInv, TypeOK
<1>2. Capped(a) \in Int
    <2>1. CashbackFor(a) \in Int
        BY ConfigAssumption, CashbackType
    <2> QED BY <1>1, <2>1 DEF Capped, AtMost, Config
<1>3. config.maxPeriod \in Nat \cup {None} /\ WindowDays \in Nat
    BY <1>1, ConfigAssumption DEF Config, WindowDays
<1> HIDE DEF Capped, WindowDays
<1>4. CreditJob(c, w, a, x) \in Job
    BY <1>2, <1>3, NoJobType DEF CreditJob, Job
<1>5. JobFits("sumWindow", CreditJob(c, w, a, x))
    BY DEF CreditJob, NoJob, JobFits, BalancePCs, CreditPCs, ExpirePCs, BurnPCs, CorrectPCs
<1> QED BY <1>4, <1>5

LEMMA TypeAddCashback ==
    ASSUME TypeInv, NEW p \in Procs, AddCashback(p)
    PROVE  TypeInv'
<1>1. PICK c \in Clients, w \in Collaborators, a \in Amounts, x \in Extracts \cup {NoExtract} :
        /\ Begin(p, "sumWindow", CreditJob(c, w, a, x))
        /\ UNCHANGED <<dbVars, clockVars, adminUpdates>>
    BY DEF AddCashback
<1>2. "sumWindow" \in PCs \ {"deductExpired"}
    BY DEF PCs
<1> QED BY <1>1, <1>2, CreditJobType, TypeBegin

LEMMA TypeCheckBalance ==
    ASSUME TypeInv, NEW p \in Procs, CheckBalance(p)
    PROVE  TypeInv'
<1> DEFINE J(c) == [NoJob EXCEPT !.client = c, !.window = config.expiry]
<1>1. PICK c \in Clients :
        /\ config.expiry # None
        /\ Begin(p, "selectExpiring", J(c))
        /\ UNCHANGED <<dbVars, clockVars, adminUpdates>>
    BY DEF CheckBalance
<1>2. config.expiry \in Nat
    BY <1>1 DEF TypeInv, TypeOK, Config
<1>3. J(c) \in Job
    BY <1>2, NoJobType DEF Job
<1>4. JobFits("selectExpiring", J(c))
    BY DEF NoJob, JobFits, BalancePCs, CreditPCs, ExpirePCs, BurnPCs, CorrectPCs
<1>5. "selectExpiring" \in PCs \ {"deductExpired"}
    BY DEF PCs
<1> HIDE DEF J
<1> QED BY <1>1, <1>3, <1>4, <1>5, TypeBegin

LEMMA TypeRequestRedemption ==
    ASSUME TypeInv, NEW p \in Procs, RequestRedemption(p)
    PROVE  TypeInv'
<1>1. PICK c \in Clients, r \in Rewards, k \in Codes :
        /\ Begin(p, "reserveStock", BurnJob(c, r, k))
        /\ UNCHANGED <<dbVars, clockVars, adminUpdates>>
    BY DEF RequestRedemption
<1>2. reward[r].cost \in Nat \ {0}
    BY DEF TypeInv, TypeOK, Reward
<1>3. PICK n \in Int : n = -reward[r].cost /\ -n \in Nat \ {0}
    BY <1>2
<1> DEFINE j == [NoJob EXCEPT !.client = c, !.reward = r, !.code = k, !.amount = n]
<1>4. BurnJob(c, r, k) = j
    BY <1>3 DEF BurnJob
<1>5. j \in Job
    BY NoJobType DEF Job
<1>6. JobFits("reserveStock", j)
    BY <1>3 DEF NoJob, JobFits, BalancePCs, CreditPCs, ExpirePCs, BurnPCs, CorrectPCs
<1>7. "reserveStock" \in PCs \ {"deductExpired"}
    BY DEF PCs
<1> HIDE DEF j
<1> QED BY <1>1, <1>4, <1>5, <1>6, <1>7, TypeBegin

LEMMA TypeConfirmRedemption ==
    ASSUME TypeInv, NEW p \in Procs, ConfirmRedemption(p)
    PROVE  TypeInv'
<1> DEFINE J(k, w) == [NoJob EXCEPT !.code = k, !.collaborator = w]
<1>1. PICK k \in Codes, w \in Collaborators :
        /\ Begin(p, "markConfirmed", J(k, w))
        /\ UNCHANGED <<dbVars, clockVars, adminUpdates>>
    BY DEF ConfirmRedemption
<1>2. J(k, w) \in Job
    BY NoJobType DEF Job
<1>3. JobFits("markConfirmed", J(k, w))
    BY DEF NoJob, JobFits, BalancePCs, CreditPCs, ExpirePCs, BurnPCs, CorrectPCs
<1>4. "markConfirmed" \in PCs \ {"deductExpired"}
    BY DEF PCs
<1> HIDE DEF J
<1> QED BY <1>1, <1>2, <1>3, <1>4, TypeBegin

LEMMA TypeUpdateCashback ==
    ASSUME TypeInv, NEW p \in Procs, UpdateCashback(p)
    PROVE  TypeInv'
<1>1. PICK i \in DOMAIN ledger, n \in NewAmounts, w \in Collaborators :
        /\ Begin(p, "checkCorrectable", AdjustJob(i, n, w))
        /\ UNCHANGED <<dbVars, clockVars, adminUpdates>>
    BY DEF UpdateCashback
<1>2. ledger \in Seq(Transaction) /\ ledger[i] \in Transaction /\ i \in Nat
    BY DEF TypeInv, TypeOK
<1>3. PICK c \in Clients, m \in Int :
        c = ledger[i].client /\ m = CashbackFor(n) - ledger[i].amount
    <2>1. CashbackFor(n) \in Int
        BY ConfigAssumption, CashbackType
    <2> QED BY <1>2, <2>1 DEF Transaction
<1> DEFINE j == [NoJob EXCEPT !.client = c, !.collaborator = w, !.ref = i, !.amount = m]
<1>4. AdjustJob(i, n, w) = j
    BY <1>3 DEF AdjustJob
<1>5. j \in Job
    BY <1>2, NoJobType DEF Job
<1>6. JobFits("checkCorrectable", j)
    BY DEF NoJob, JobFits, BalancePCs, CreditPCs, ExpirePCs, BurnPCs, CorrectPCs
<1>7. "checkCorrectable" \in PCs \ {"deductExpired"}
    BY DEF PCs
<1> HIDE DEF j
<1> QED BY <1>1, <1>4, <1>5, <1>6, <1>7, TypeBegin

(* A handler that goes on with what it holds. *)
LEMMA FitsOn ==
    ASSUME TypeInv, NEW p \in Procs, NEW s, NEW j,
           s \notin {"deductExpired", "commitExpired"},
           pc[p] \notin {"deductExpired", "commitExpired"},
           s \in CreditPCs <=> pc[p] \in CreditPCs,
           s \in BalancePCs => pc[p] \in BalancePCs,
           s \in BurnPCs => pc[p] \in BurnPCs /\ j.amount = job[p].amount,
           s = "markConfirmed" => pc[p] = "markConfirmed",
           j.client = job[p].client, j.reward = job[p].reward, j.code = job[p].code,
           j.collaborator = job[p].collaborator, j.extract = job[p].extract,
           j.posted = job[p].posted
    PROVE  JobFits(s, j)
<1>1. JobFits(pc[p], job[p])
    BY DEF TypeInv, JobsOK
<1> QED BY <1>1 DEF JobFits

LEMMA CreditedType ==
    ASSUME TypeInv, NEW S \in SUBSET DOMAIN ledger
    PROVE  IsFiniteSet(S) /\ AmountOf(ledger, S) \in Int
<1>1. ledger \in Seq(Transaction)
    BY DEF TypeInv, TypeOK
<1>2. IsFiniteSet(DOMAIN ledger)
    <2>1. DOMAIN ledger = 1..Len(ledger) /\ Len(ledger) \in Int
        BY <1>1
    <2> QED BY <2>1, FS_Interval
<1>3. IsFiniteSet(S)
    BY <1>2, FS_Subset
<1>4. \A i \in S : ledger[i].amount \in Int
    <2>1. \A i \in DOMAIN ledger : ledger[i] \in Transaction
        BY <1>1
    <2>2. \A e \in Transaction : e.amount \in Int
        BY DEF Transaction
    <2> QED BY <2>1, <2>2
<1> QED BY <1>3, <1>4, SumType

(* What SumCashbackInWindow finds for p. *)
Window(p) == {i \in DOMAIN ledger : /\ ledger[i].type = "earn"
                                    /\ ledger[i].client = job[p].client
                                    /\ ledger[i].day >= today - job[p].window}

(* The three outcomes of the SELECT of the sum. *)
LEMMA SumWindowSteps ==
    ASSUME TypeInv, NEW p \in Procs, SumWindow(p)
    PROVE  \/ Rollback(p)
           \/ \E a \in Int :
                /\ GotoWith(p, "upsertBalance",
                            [job[p] EXCEPT !.day = today, !.seen = Len(ledger), !.amount = a])
                /\ job[p].cap # None => AmountOf(ledger, Window(p)) + a <= job[p].cap
                /\ job[p].amount > 0 => a > 0
<1> DEFINE sum == AmountOf(ledger, Window(p))
           j == [job[p] EXCEPT !.day = today, !.seen = Len(ledger)]
           J(a) == [job[p] EXCEPT !.day = today, !.seen = Len(ledger), !.amount = a]
<1>1. job[p] \in Job
    BY DEF TypeInv, TypeOK
<1>2. /\ j.client = job[p].client /\ j.window = job[p].window /\ j.cap = job[p].cap
      /\ j.amount = job[p].amount
      /\ J(j.amount) = j
      /\ \A a : [j EXCEPT !.amount = a] = J(a)
    BY <1>1 DEF Job
<1>3. sum \in Int
    <2>1. Window(p) \in SUBSET DOMAIN ledger
        BY DEF Window
    <2> QED BY <2>1, CreditedType
<1>4. Credited(ledger, j.client, today, j.window) = sum
    BY <1>2 DEF Credited, Window
<1>5. job[p].amount \in Int /\ job[p].cap \in Nat \cup {None} /\ None \notin Int
    BY <1>1, ConfigAssumption DEF Job
<1> HIDE DEF j, sum
<1>6. \/ j.cap = None /\ GotoWith(p, "upsertBalance", j)
      \/ Rollback(p)
      \/ /\ j.cap # None /\ ~(j.cap - sum <= 0)
         /\ GotoWith(p, "upsertBalance", [j EXCEPT !.amount = Cut(@, j.cap - sum)])
    BY <1>4 DEF SumWindow, j
<1>7. CASE j.cap = None /\ GotoWith(p, "upsertBalance", j)
    <2>1. GotoWith(p, "upsertBalance", J(j.amount))
        BY <1>2, <1>7
    <2> QED BY <1>2, <1>5, <1>7, <2>1
<1>8. CASE /\ j.cap # None /\ ~(j.cap - sum <= 0)
           /\ GotoWith(p, "upsertBalance", [j EXCEPT !.amount = Cut(@, j.cap - sum)])
    <2>1. PICK k \in Nat, m \in Int, t \in Int : k = j.cap /\ m = j.amount /\ t = sum
        BY <1>2, <1>3, <1>5, <1>8
    <2>2. PICK a : a = Cut(m, k - t)
        OBVIOUS
    <2>3. a \in Int /\ t + a <= k /\ (m > 0 => a > 0)
        <3>1. a = IF m > k - t THEN k - t ELSE m
            BY <1>5, <2>2 DEF Cut, AtMost
        <3> QED BY <1>8, <2>1, <3>1
    <2>4. sum + a <= job[p].cap
        BY <1>2, <2>1, <2>3
    <2>5. [j EXCEPT !.amount = Cut(@, j.cap - sum)] = [j EXCEPT !.amount = a]
        BY <1>1, <2>1, <2>2 DEF j, Job
    <2>6. GotoWith(p, "upsertBalance", J(a))
        BY <1>2, <1>8, <2>5
    <2>7. job[p].amount > 0 => a > 0
        BY <1>2, <2>1, <2>3
    <2> QED BY <2>3, <2>4, <2>6, <2>7 DEF sum
<1> QED BY <1>6, <1>7, <1>8

LEMMA TypeSumWindow ==
    ASSUME TypeInv, NEW p \in Procs, SumWindow(p)
    PROVE  TypeInv'
<1>0. pc[p] = "sumWindow" /\ UNCHANGED <<clockVars, countVars>>
    BY DEF SumWindow
<1>1. CASE Rollback(p)
    BY <1>0, <1>1, TypeRollback
<1>2. ASSUME NEW a \in Int,
             GotoWith(p, "upsertBalance",
                      [job[p] EXCEPT !.day = today, !.seen = Len(ledger), !.amount = a])
      PROVE  TypeInv'
    <2> DEFINE j == [job[p] EXCEPT !.day = today, !.seen = Len(ledger), !.amount = a]
    <2>1. job[p] \in Job /\ today \in Nat /\ Len(ledger) \in Nat
        BY DEF TypeInv, TypeOK
    <2>2. /\ j \in Job
          /\ j.client = job[p].client /\ j.reward = job[p].reward /\ j.code = job[p].code
          /\ j.collaborator = job[p].collaborator /\ j.extract = job[p].extract
          /\ j.posted = job[p].posted
        BY <2>1 DEF Job
    <2> HIDE DEF j
    <2>3. JobFits("upsertBalance", j)
        BY <1>0, <2>2, FitsOn DEF BalancePCs, CreditPCs, BurnPCs
    <2>4. "upsertBalance" \in PCs
        BY DEF PCs
    <2> QED BY <1>0, <1>2, <2>2, <2>3, <2>4, TypeGoto DEF j
<1> QED BY <1>1, <1>2, SumWindowSteps

(* A handler that takes the lock of a balance. *)
LEMMA HeldJobType ==
    ASSUME TypeInv, NEW p \in Procs, NEW n \in Nat
    PROVE  LET j == [job[p] EXCEPT !.newBalance = n]
           IN  /\ j \in Job /\ j.newBalance = n
               /\ j.client = job[p].client /\ j.reward = job[p].reward
               /\ j.code = job[p].code /\ j.amount = job[p].amount
               /\ j.collaborator = job[p].collaborator
               /\ j.extract = job[p].extract /\ j.posted = job[p].posted
               /\ j.cap = job[p].cap /\ j.window = job[p].window
               /\ j.day = job[p].day /\ j.seen = job[p].seen
<1> DEFINE j == [job[p] EXCEPT !.newBalance = n]
<1>1. job[p] \in Job
    BY DEF TypeInv, TypeOK
<1>2. j \in Job
    BY <1>1 DEF Job
<1>3. /\ j.newBalance = n /\ j.client = job[p].client /\ j.reward = job[p].reward
      /\ j.code = job[p].code /\ j.amount = job[p].amount
      /\ j.collaborator = job[p].collaborator
    BY <1>1 DEF Job
<1>4. /\ j.extract = job[p].extract /\ j.posted = job[p].posted
      /\ j.cap = job[p].cap /\ j.window = job[p].window
      /\ j.day = job[p].day /\ j.seen = job[p].seen
    BY <1>1 DEF Job
<1> HIDE DEF j
<1>5. /\ j \in Job /\ j.newBalance = n
      /\ j.client = job[p].client /\ j.reward = job[p].reward
      /\ j.code = job[p].code /\ j.amount = job[p].amount
      /\ j.collaborator = job[p].collaborator
      /\ j.extract = job[p].extract /\ j.posted = job[p].posted
      /\ j.cap = job[p].cap /\ j.window = job[p].window
      /\ j.day = job[p].day /\ j.seen = job[p].seen
    BY <1>2, <1>3, <1>4
<1> QED BY <1>5 DEF j

LEMMA LockedBalance ==
    ASSUME TypeInv, NEW p \in Procs, NEW s, LockBalance(p, s), job[p].client \in Clients
    PROVE  \E n \in Nat :
             /\ n = Greatest0(balance[job[p].client] + job[p].amount)
             /\ GotoWith(p, s, [job[p] EXCEPT !.newBalance = n])
<1>1. balance[job[p].client] \in Nat /\ job[p].amount \in Int
    BY DEF TypeInv, TypeOK, Job
<1>2. Greatest0(balance[job[p].client] + job[p].amount) \in Nat
    BY <1>1 DEF Greatest0
<1> QED BY <1>2 DEF LockBalance

LEMMA TypeLockBalance ==
    ASSUME TypeInv, NEW p \in Procs, NEW s \in PCs, LockBalance(p, s),
           UNCHANGED <<clockVars, countVars>>,
           \/ pc[p] = "upsertBalance" /\ s = "insertEarn"
           \/ pc[p] = "adjustBalance" /\ s = "insertAdjustment"
    PROVE  TypeInv'
<1>1. job[p].client \in Clients
    BY DEF TypeInv, JobsOK, JobFits, BalancePCs, CreditPCs, CorrectPCs
<1>2. PICK n \in Nat : GotoWith(p, s, [job[p] EXCEPT !.newBalance = n])
    BY <1>1, LockedBalance
<1> DEFINE j == [job[p] EXCEPT !.newBalance = n]
<1>3. /\ j \in Job /\ j.client = job[p].client /\ j.reward = job[p].reward
      /\ j.code = job[p].code /\ j.amount = job[p].amount
      /\ j.collaborator = job[p].collaborator
      /\ j.extract = job[p].extract /\ j.posted = job[p].posted
    BY HeldJobType
<1> HIDE DEF j
<1>4. JobFits(s, j)
    BY <1>3, FitsOn DEF BalancePCs, CreditPCs, BurnPCs, CorrectPCs
<1>5. s # "deductExpired"
    OBVIOUS
<1> QED BY <1>2, <1>3, <1>4, <1>5, TypeGoto DEF j

(* The old credits the first SELECT of ExpireBalance finds. *)
Due(p) == {i \in DOMAIN ledger : /\ Is(i, "earn", job[p].client)
                                 /\ ledger[i].day < today - job[p].window
                                 /\ ~Expired(i)}

LEMMA SelectExpiringSteps ==
    ASSUME NEW p \in Procs, SelectExpiring(p)
    PROVE  \/ Rollback(p)
           \/ GotoWith(p, "deductExpired", [job[p] EXCEPT !.todo = Due(p), !.day = today,
                                                          !.seen = Len(ledger)])
BY DEF SelectExpiring, Due

LEMMA TypeSelectExpiring ==
    ASSUME TypeInv, NEW p \in Procs, SelectExpiring(p)
    PROVE  TypeInv'
<1> DEFINE due == Due(p)
           j == [job[p] EXCEPT !.todo = due, !.day = today, !.seen = Len(ledger)]
<1>0. pc[p] = "selectExpiring" /\ UNCHANGED <<clockVars, countVars>>
    BY DEF SelectExpiring
<1>1. CASE Rollback(p)
    BY <1>0, <1>1, TypeRollback
<1>2. CASE GotoWith(p, "deductExpired", j)
    <2>1. /\ job[p] \in Job /\ today \in Nat /\ ledger \in Seq(Transaction)
          /\ JobFits("selectExpiring", job[p])
        BY <1>0 DEF TypeInv, TypeOK, JobsOK
    <2>2. due \subseteq DOMAIN ledger /\ due \subseteq Nat /\ Len(ledger) \in Nat
        BY <2>1 DEF Due
    <2> HIDE DEF due
    <2>3. /\ j \in Job /\ j.todo = due
          /\ j.client = job[p].client /\ j.extract = job[p].extract
          /\ j.posted = job[p].posted
        BY <2>1, <2>2 DEF Job
    <2>4. GotoWith(p, "deductExpired", j)
        BY <1>2
    <2> HIDE DEF j
    <2>5. JobFits("deductExpired", j)
        BY <2>1, <2>3 DEF JobFits, BalancePCs, CreditPCs, ExpirePCs, BurnPCs, CorrectPCs
    <2>6. "deductExpired" \in PCs
        BY DEF PCs
    <2> QED BY <1>0, <2>2, <2>3, <2>4, <2>5, <2>6, TypeGoto
<1> QED BY <1>1, <1>2, SelectExpiringSteps

(* The money the client has left when p deducts the next expired credit.   *)
Held(p) == IF job[p].posted = <<>> THEN balance[job[p].client] ELSE job[p].newBalance

(* What it then holds. *)
Deducted(p, i, rest, e, j) ==
    /\ j.todo = job[p].todo \ {i} /\ j.newBalance = rest
    /\ j.posted = Append(job[p].posted, e)
    /\ j.client = job[p].client /\ j.extract = job[p].extract
    /\ j.seen = job[p].seen

LEMMA DeductExpiredSteps ==
    ASSUME TypeInv, NEW p \in Procs, DeductExpired(p)
    PROVE  \E i \in job[p].todo, rest \in Nat, e \in Transaction,
              s \in {"deductExpired", "commitExpired"} :
                /\ i \in DOMAIN ledger
                /\ rest = Greatest0(Held(p) + e.amount)
                /\ ExpirationOf(e, job[p].client)
                /\ e.ref = i /\ e.after = rest
                /\ \E j \in Job : Deducted(p, i, rest, e, j) /\ GotoWith(p, s, j)
<1>1. /\ pc[p] = "deductExpired" /\ job[p] \in Job /\ ledger \in Seq(Transaction)
      /\ JobFits("deductExpired", job[p]) /\ job[p].todo \subseteq DOMAIN ledger
    BY DEF DeductExpired, TypeInv, TypeOK, JobsOK, TodoOK
<1>2. job[p].client \in Clients /\ job[p].extract = NoExtract
    BY <1>1 DEF JobFits, BalancePCs, CreditPCs, ExpirePCs
<1> DEFINE Entry0 == Entry(p, "expiration")
           E(i, rest) == [Entry0 EXCEPT !.amount = -ledger[i].amount, !.after = rest, !.ref = i]
           J(i, rest, e) == [job[p] EXCEPT !.todo = @ \ {i}, !.newBalance = rest,
                                           !.posted = Append(@, e)]
<1>3. PICK i \in job[p].todo :
        GotoWith(p, IF job[p].todo = {i} THEN "commitExpired" ELSE "deductExpired",
                 LET rest == Greatest0(Held(p) - ledger[i].amount)
                 IN  J(i, rest, E(i, rest)))
    BY DEF DeductExpired, Held
<1>4. i \in DOMAIN ledger /\ i \in Nat /\ ledger[i].amount \in Int
    <2>1. i \in DOMAIN ledger /\ ledger[i] \in Transaction
        BY <1>1
    <2> QED BY <1>1, <2>1 DEF Transaction
<1>5. Held(p) \in Nat
    BY <1>1, <1>2 DEF Held, TypeInv, TypeOK, Job
<1>6. PICK rest \in Nat : /\ rest = Greatest0(Held(p) - ledger[i].amount)
                          /\ rest = Greatest0(Held(p) + (-ledger[i].amount))
    BY <1>4, <1>5 DEF Greatest0
<1>7. PICK n \in Int : n = -ledger[i].amount
    BY <1>4
<1>8. PICK e : e = E(i, rest)
    OBVIOUS
<1>9. /\ e \in Transaction /\ e.amount = n /\ e.after = rest /\ e.ref = i
      /\ ExpirationOf(e, job[p].client)
    BY <1>1, <1>2, <1>4, <1>7, <1>8 DEF Entry, Transaction, TransactionTypes, Job, ExpirationOf
<1>10. PICK s \in {"deductExpired", "commitExpired"} :
          s = IF job[p].todo = {i} THEN "commitExpired" ELSE "deductExpired"
    OBVIOUS
<1>11. GotoWith(p, s, J(i, rest, e))
    BY <1>3, <1>6, <1>8, <1>10
<1>12. J(i, rest, e) \in Job /\ Deducted(p, i, rest, e, J(i, rest, e))
    <2>1. job[p].posted \in Seq(Transaction) /\ job[p].todo \in SUBSET Nat
        BY <1>1 DEF Job
    <2>2. Append(job[p].posted, e) \in Seq(Transaction) /\ job[p].todo \ {i} \in SUBSET Nat
        BY <1>9, <2>1
    <2> QED BY <1>1, <2>2 DEF Deducted, Job
<1> HIDE DEF J
<1> QED BY <1>4, <1>6, <1>7, <1>9, <1>11, <1>12

LEMMA TypeDeductExpired ==
    ASSUME TypeInv, NEW p \in Procs, DeductExpired(p)
    PROVE  TypeInv'
<1>0. /\ pc[p] = "deductExpired" /\ UNCHANGED <<clockVars, countVars>>
      /\ JobFits("deductExpired", job[p]) /\ job[p].todo \subseteq DOMAIN ledger
    BY DEF DeductExpired, TypeInv, JobsOK, TodoOK
<1>1. PICK i \in job[p].todo, rest \in Nat, e \in Transaction,
           s \in {"deductExpired", "commitExpired"} :
        /\ ExpirationOf(e, job[p].client)
        /\ \E j \in Job : Deducted(p, i, rest, e, j) /\ GotoWith(p, s, j)
    BY DeductExpiredSteps
<1>2. PICK j \in Job : Deducted(p, i, rest, e, j) /\ GotoWith(p, s, j)
    BY <1>1
<1>3. /\ j.todo = job[p].todo \ {i}
      /\ j.posted = Append(job[p].posted, e)
      /\ j.client = job[p].client /\ j.extract = job[p].extract
      /\ job[p].posted \in Seq(Transaction)
    BY <1>2 DEF Deducted, TypeInv, TypeOK, Job
<1> DEFINE T == {x \in Transaction : ExpirationOf(x, job[p].client)}
<1>4. (\A k \in DOMAIN j.posted : ExpirationOf(j.posted[k], j.client)) /\ j.posted # <<>>
    <2>1. \A k \in DOMAIN job[p].posted : job[p].posted[k] \in T
        BY <1>0, <1>3 DEF JobFits
    <2>2. e \in T
        BY <1>1
    <2> HIDE DEF T
    <2>3. job[p].posted \in Seq(T)
        BY <1>3, <2>1
    <2>4. Append(job[p].posted, e) \in Seq(T) /\ Append(job[p].posted, e) # <<>>
        BY <2>2, <2>3
    <2>5. (\A k \in DOMAIN j.posted : j.posted[k] \in T) /\ j.posted # <<>>
        BY <1>3, <2>4
    <2> QED BY <1>3, <2>5 DEF T
<1> HIDE DEF T
<1>5. JobFits(s, j)
    BY <1>0, <1>3, <1>4 DEF JobFits, BalancePCs, CreditPCs, ExpirePCs, BurnPCs, CorrectPCs
<1>6. s \in PCs
    BY DEF PCs
<1>7. j.todo \subseteq DOMAIN ledger
    BY <1>0, <1>3
<1> QED BY <1>0, <1>1, <1>2, <1>3, <1>5, <1>6, <1>7, TypeGoto

LEMMA TypeReserveStock ==
    ASSUME TypeInv, NEW p \in Procs, ReserveStock(p)
    PROVE  TypeInv'
<1>0. pc[p] = "reserveStock" /\ UNCHANGED <<clockVars, countVars>>
    BY DEF ReserveStock
<1>1. CASE Rollback(p)
    BY <1>0, <1>1, TypeRollback
<1>2. CASE GotoWith(p, "deductBalance",
                    [job[p] EXCEPT !.newCount = reward[job[p].reward].count + 1, !.day = today])
    <2>1. job[p] \in Job /\ today \in Nat /\ JobFits("reserveStock", job[p])
        BY <1>0 DEF TypeInv, TypeOK, JobsOK
    <2>2. job[p].reward \in Rewards
        BY <2>1 DEF JobFits, BurnPCs
    <2>3. PICK n \in Nat : n = reward[job[p].reward].count + 1
        BY <2>2 DEF TypeInv, TypeOK, Reward
    <2> DEFINE j == [job[p] EXCEPT !.newCount = n, !.day = today]
    <2>4. /\ j \in Job /\ j.client = job[p].client /\ j.reward = job[p].reward
          /\ j.code = job[p].code /\ j.amount = job[p].amount
          /\ j.collaborator = job[p].collaborator
          /\ j.extract = job[p].extract /\ j.posted = job[p].posted
        BY <2>1 DEF Job
    <2>5. GotoWith(p, "deductBalance", j)
        BY <1>2, <2>3
    <2> HIDE DEF j
    <2>6. JobFits("deductBalance", j)
        BY <1>0, <2>4, FitsOn DEF BalancePCs, CreditPCs, BurnPCs
    <2>7. "deductBalance" \in PCs
        BY DEF PCs
    <2> QED BY <1>0, <2>4, <2>5, <2>6, <2>7, TypeGoto
<1> QED BY <1>1, <1>2 DEF ReserveStock

LEMMA DeductBalanceSteps ==
    ASSUME TypeInv, NEW p \in Procs, DeductBalance(p)
    PROVE  \/ Rollback(p)
           \/ \E n \in Nat :
                /\ n = Greatest0(balance[job[p].client] + job[p].amount)
                /\ GotoWith(p, "insertRedemption", [job[p] EXCEPT !.newBalance = n])
<1>1. JobFits("deductBalance", job[p]) /\ job[p] \in Job
    BY DEF DeductBalance, TypeInv, TypeOK, JobsOK
<1>2. job[p].client \in Clients
    BY <1>1 DEF JobFits, BalancePCs, BurnPCs
<1>3. PICK n \in Int : n = balance[job[p].client] + job[p].amount
    BY <1>1, <1>2 DEF TypeInv, TypeOK, Job
<1>4. CASE n >= 0 /\ GotoWith(p, "insertRedemption", [job[p] EXCEPT !.newBalance = n])
    BY <1>3, <1>4 DEF Greatest0
<1> QED BY <1>3, <1>4 DEF DeductBalance

LEMMA TypeDeductBalance ==
    ASSUME TypeInv, NEW p \in Procs, DeductBalance(p)
    PROVE  TypeInv'
<1>0. pc[p] = "deductBalance" /\ UNCHANGED <<clockVars, countVars>>
    BY DEF DeductBalance
<1>1. CASE Rollback(p)
    BY <1>0, <1>1, TypeRollback
<1>2. ASSUME NEW n \in Nat, GotoWith(p, "insertRedemption", [job[p] EXCEPT !.newBalance = n])
      PROVE  TypeInv'
    <2> DEFINE j == [job[p] EXCEPT !.newBalance = n]
    <2>1. /\ j \in Job /\ j.client = job[p].client /\ j.reward = job[p].reward
          /\ j.code = job[p].code /\ j.amount = job[p].amount
          /\ j.collaborator = job[p].collaborator
          /\ j.extract = job[p].extract /\ j.posted = job[p].posted
        BY HeldJobType
    <2> HIDE DEF j
    <2>2. JobFits("insertRedemption", j)
        BY <1>0, <2>1, FitsOn DEF BalancePCs, CreditPCs, BurnPCs
    <2>3. "insertRedemption" \in PCs
        BY DEF PCs
    <2> QED BY <1>0, <1>2, <2>1, <2>2, <2>3, TypeGoto DEF j
<1> QED BY <1>1, <1>2, DeductBalanceSteps

LEMMA TypeCheckCorrectable ==
    ASSUME TypeInv, NEW p \in Procs, CheckCorrectable(p)
    PROVE  TypeInv'
<1>0. pc[p] = "checkCorrectable" /\ UNCHANGED <<clockVars, countVars>>
    BY DEF CheckCorrectable
<1>1. CASE Rollback(p)
    BY <1>0, <1>1, TypeRollback
<1>2. CASE GotoWith(p, "adjustBalance", [job[p] EXCEPT !.day = today])
    <2> DEFINE j == [job[p] EXCEPT !.day = today]
    <2>1. job[p] \in Job /\ today \in Nat
        BY DEF TypeInv, TypeOK
    <2>2. /\ j \in Job /\ j.client = job[p].client /\ j.reward = job[p].reward
          /\ j.code = job[p].code /\ j.amount = job[p].amount
          /\ j.collaborator = job[p].collaborator
          /\ j.extract = job[p].extract /\ j.posted = job[p].posted
        BY <2>1 DEF Job
    <2> HIDE DEF j
    <2>3. JobFits("adjustBalance", j)
        BY <1>0, <2>2, FitsOn DEF BalancePCs, CreditPCs, BurnPCs, CorrectPCs
    <2>4. "adjustBalance" \in PCs
        BY DEF PCs
    <2> QED BY <1>0, <1>2, <2>2, <2>3, <2>4, TypeGoto DEF j
<1> QED BY <1>1, <1>2 DEF CheckCorrectable

(* The entries a transaction posts when it commits, es, and what it has    *)
(* checked before.                                                         *)
PostsEarn(p, es) == /\ pc[p] = "insertEarn" /\ es = <<Entry(p, "earn")>>
                    /\ ~DuplicateReceipt(job[p].extract)

PostsBurn(p, es) == pc[p] = "insertRedemption" /\ es = <<Entry(p, "burn")>>

PostsAdjustment(p, es) == pc[p] = "insertAdjustment" /\ es = <<Entry(p, "adjustment")>>

PostsExpired(p, es) == pc[p] = "commitExpired" /\ es = job[p].posted

Posts(p, es) ==
    /\ CommitEntries(p, es)
    /\ Finish(p)
    /\ \/ PostsEarn(p, es) \/ PostsBurn(p, es)
       \/ PostsAdjustment(p, es) \/ PostsExpired(p, es)

LEMMA EntryType ==
    ASSUME TypeInv, NEW p \in Procs, NEW type \in TransactionTypes,
           job[p].client \in Clients
    PROVE  /\ Entry(p, type) \in Transaction
           /\ Entry(p, type).type = type
           /\ Entry(p, type).client = job[p].client
           /\ Entry(p, type).amount = job[p].amount
           /\ Entry(p, type).after = job[p].newBalance
           /\ Entry(p, type).day = job[p].day
           /\ Entry(p, type).extract = job[p].extract
<1>1. job[p] \in Job
    BY DEF TypeInv, TypeOK
<1> QED BY <1>1 DEF Entry, Job, Transaction

LEMMA PosterType ==
    ASSUME TypeInv, NEW p \in Procs, NEW es, Posts(p, es)
    PROVE  /\ job[p] \in Job
           /\ job[p].client \in Clients
           /\ es \in Seq(Transaction) /\ es # <<>>
           /\ HoldsBalance(p, job[p].client)
<1>1. job[p] \in Job /\ JobFits(pc[p], job[p])
    BY DEF TypeInv, TypeOK, JobsOK
<1>2. pc[p] \in {"insertEarn", "insertRedemption", "insertAdjustment", "commitExpired"}
    BY DEF Posts, PostsEarn, PostsBurn, PostsAdjustment, PostsExpired
<1>3. job[p].client \in Clients
    BY <1>1, <1>2 DEF JobFits, BalancePCs, CreditPCs, BurnPCs, CorrectPCs, ExpirePCs
<1>4. ASSUME NEW type \in TransactionTypes, es = <<Entry(p, type)>>
      PROVE  es \in Seq(Transaction) /\ es # <<>>
    BY <1>3, <1>4, EntryType
<1>5. ASSUME PostsExpired(p, es)
      PROVE  es \in Seq(Transaction) /\ es # <<>>
    BY <1>1, <1>5 DEF PostsExpired, JobFits, Job
<1>6. es \in Seq(Transaction) /\ es # <<>>
    BY <1>4, <1>5 DEF Posts, PostsEarn, PostsBurn, PostsAdjustment, TransactionTypes
<1> QED BY <1>1, <1>2, <1>3, <1>6 DEF HoldsBalance

(* What posting does to the ledger. *)
LEMMA PostedEntries ==
    ASSUME TypeInv, NEW p \in Procs, NEW es, Posts(p, es)
    PROVE  /\ ledger \in Seq(Transaction) /\ ledger' \in Seq(Transaction)
           /\ Len(ledger) \in Nat /\ Len(es) \in Nat /\ Len(es) > 0
           /\ DOMAIN ledger = 1 .. Len(ledger) /\ DOMAIN es = 1 .. Len(es)
           /\ DOMAIN ledger' = 1 .. Len(ledger) + Len(es)
           /\ \A i \in DOMAIN ledger : ledger'[i] = ledger[i]
           /\ \A i \in DOMAIN es : ledger'[Len(ledger) + i] = es[i]
<1>1. ledger \in Seq(Transaction) /\ es \in Seq(Transaction) /\ es # <<>>
    BY PosterType DEF TypeInv, TypeOK
<1>2. ledger' = ledger \o es
    BY DEF Posts, CommitEntries
<1> QED BY <1>1, <1>2

LEMMA TypePosts ==
    ASSUME TypeInv, NEW p \in Procs, NEW es, Posts(p, es),
           UNCHANGED <<config, clockVars, countVars>>,
           reward' \in [Rewards -> Reward],
           redemption' \in [Codes -> Redemption \cup {NoRedemption}]
    PROVE  TypeInv'
<1>1. DOMAIN ledger \subseteq DOMAIN ledger' /\ ledger' \in Seq(Transaction)
    BY PostedEntries
<1>2. pc' \in [Procs -> PCs] /\ job' \in [Procs -> Job] /\ JobsOK' /\ TodoOK'
    BY <1>1, TypeFinish DEF Posts
<1>3. balance' \in [Clients -> Nat]
    BY PosterType DEF Posts, CommitEntries, TypeInv, TypeOK, Job
<1>4. TypeOK'
    BY <1>1, <1>2, <1>3 DEF TypeInv, TypeOK, clockVars, countVars
<1> QED BY <1>2, <1>4 DEF TypeInv

LEMMA InsertEarnSteps ==
    ASSUME NEW p \in Procs, InsertEarn(p)
    PROVE  \/ Rollback(p)
           \/ /\ \E es : PostsEarn(p, es) /\ Posts(p, es)
              /\ UNCHANGED <<config, reward, redemption>>
BY DEF InsertEarn, Posts, PostsEarn

LEMMA TypeInsertEarn ==
    ASSUME TypeInv, NEW p \in Procs, InsertEarn(p)
    PROVE  TypeInv'
<1>0. UNCHANGED <<clockVars, countVars>>
    BY DEF InsertEarn
<1>1. CASE Rollback(p)
    BY <1>0, <1>1, TypeRollback
<1>2. ASSUME NEW es, Posts(p, es), UNCHANGED <<config, reward, redemption>>
      PROVE  TypeInv'
    <2>1. /\ reward' \in [Rewards -> Reward]
          /\ redemption' \in [Codes -> Redemption \cup {NoRedemption}]
        BY <1>2 DEF TypeInv, TypeOK
    <2> QED BY <1>0, <1>2, <2>1, TypePosts
<1> QED BY <1>1, <1>2, InsertEarnSteps

LEMMA CommitExpiredSteps ==
    ASSUME NEW p \in Procs, CommitExpired(p)
    PROVE  \E es : PostsExpired(p, es) /\ Posts(p, es)
BY DEF CommitExpired, Posts, PostsExpired

LEMMA InsertAdjustmentSteps ==
    ASSUME NEW p \in Procs, InsertAdjustment(p)
    PROVE  \E es : PostsAdjustment(p, es) /\ Posts(p, es)
BY DEF InsertAdjustment, Posts, PostsAdjustment

LEMMA TypePlainPosts ==
    ASSUME TypeInv, NEW p \in Procs, CommitExpired(p) \/ InsertAdjustment(p)
    PROVE  TypeInv'
<1>1. UNCHANGED <<config, reward, redemption, clockVars, countVars>>
    BY DEF CommitExpired, InsertAdjustment
<1>2. /\ reward' \in [Rewards -> Reward]
      /\ redemption' \in [Codes -> Redemption \cup {NoRedemption}]
    BY <1>1 DEF TypeInv, TypeOK
<1>3. PICK es : Posts(p, es)
    BY CommitExpiredSteps, InsertAdjustmentSteps
<1> QED BY <1>1, <1>2, <1>3, TypePosts

LEMMA InsertRedemptionSteps ==
    ASSUME NEW p \in Procs, InsertRedemption(p)
    PROVE  \/ Rollback(p)
           \/ /\ \E es : PostsBurn(p, es) /\ Posts(p, es)
              /\ reward' = [reward EXCEPT ![job[p].reward].count = job[p].newCount]
              /\ redemption' = [redemption EXCEPT ![job[p].code] =
                    [status |-> "pending", client |-> job[p].client,
                     reward |-> job[p].reward, amount |-> -job[p].amount, by |-> Nil]]
              /\ UNCHANGED config
BY DEF InsertRedemption, Rollback, Posts, PostsBurn

LEMMA TypeInsertRedemption ==
    ASSUME TypeInv, NEW p \in Procs, InsertRedemption(p)
    PROVE  TypeInv'
<1> DEFINE r == job[p].reward
           row == [status |-> "pending", client |-> job[p].client, reward |-> r,
                   amount |-> -job[p].amount, by |-> Nil]
<1>0. pc[p] = "insertRedemption" /\ UNCHANGED <<clockVars, countVars>>
    BY DEF InsertRedemption
<1>1. CASE Rollback(p)
    BY <1>0, <1>1, TypeRollback
<1>2. ASSUME NEW es, Posts(p, es),
             reward' = [reward EXCEPT ![r].count = job[p].newCount],
             redemption' = [redemption EXCEPT ![job[p].code] = row],
             UNCHANGED config
      PROVE  TypeInv'
    <2>1. /\ job[p] \in Job /\ job[p].client \in Clients /\ r \in Rewards
          /\ job[p].code \in Codes /\ -job[p].amount \in Nat \ {0}
        BY <1>0, <1>2, PosterType DEF TypeInv, JobsOK, JobFits, BurnPCs
    <2>2. reward' \in [Rewards -> Reward]
        <3>1. PICK n \in Nat : n = job[p].newCount
            BY <2>1 DEF Job
        <3>2. reward \in [Rewards -> Reward]
            BY DEF TypeInv, TypeOK
        <3>3. [reward[r] EXCEPT !.count = n] \in Reward
            BY <2>1, <3>2 DEF Reward
        <3>4. reward' = [reward EXCEPT ![r] = [reward[r] EXCEPT !.count = n]]
            BY <1>2, <3>1, <3>2
        <3> QED BY <3>2, <3>3, <3>4
    <2>3. row \in Redemption
        BY <2>1 DEF Redemption
    <2>4. redemption' \in [Codes -> Redemption \cup {NoRedemption}]
        BY <1>2, <2>1, <2>3 DEF TypeInv, TypeOK
    <2> QED BY <1>0, <1>2, <2>2, <2>4, TypePosts
<1> QED BY <1>1, <1>2, InsertRedemptionSteps

LEMMA ConfirmedType ==
    ASSUME TypeInv, NEW k \in Codes, NEW w \in Collaborators,
           SetConfirmedIfPending(k, w)
    PROVE  redemption' \in [Codes -> Redemption \cup {NoRedemption}]
<1>1. redemption \in [Codes -> Redemption \cup {NoRedemption}]
    BY DEF TypeInv, TypeOK
<1>2. CASE redemption[k].status # "pending"
    BY <1>1, <1>2 DEF SetConfirmedIfPending
<1>3. CASE redemption[k].status = "pending"
    <2>1. redemption[k] \in Redemption
        BY <1>1, <1>3 DEF NoRedemption
    <2>2. [redemption[k] EXCEPT !.status = "confirmed", !.by = w] \in Redemption
        BY <2>1 DEF Redemption
    <2>3. redemption' = [redemption EXCEPT
            ![k] = [redemption[k] EXCEPT !.status = "confirmed", !.by = w]]
        BY <1>1, <1>3 DEF SetConfirmedIfPending
    <2> QED BY <1>1, <2>2, <2>3
<1> QED BY <1>2, <1>3

LEMMA TypeMarkConfirmed ==
    ASSUME TypeInv, NEW p \in Procs, MarkConfirmed(p)
    PROVE  TypeInv'
<1>1. job[p].code \in Codes /\ job[p].collaborator \in Collaborators
    BY DEF MarkConfirmed, TypeInv, JobsOK, JobFits
<1>2. redemption' \in [Codes -> Redemption \cup {NoRedemption}]
    BY <1>1, ConfirmedType DEF MarkConfirmed
<1>3. UNCHANGED <<config, balance, ledger, reward, clockVars, countVars>>
    BY DEF MarkConfirmed
<1>4. pc' \in [Procs -> PCs] /\ job' \in [Procs -> Job] /\ JobsOK' /\ TodoOK'
    BY <1>3, TypeFinish DEF MarkConfirmed
<1>5. TypeOK'
    BY <1>2, <1>3, <1>4 DEF TypeInv, TypeOK, clockVars, countVars
<1> QED BY <1>4, <1>5 DEF TypeInv

(* What can happen at any time. *)
LEMMA TypeSameJobs ==
    ASSUME TypeInv, UNCHANGED <<ledger, pc, job>>, TypeOK'
    PROVE  TypeInv'
BY DEF TypeInv, JobsOK, TodoOK

LEMMA TypeUpdateProgram ==
    ASSUME TypeInv, UpdateProgram
    PROVE  TypeInv'
<1>1. config' \in Config
    <2>1. PICK new \in Configs : /\ ValidUpdate(new)
                                 /\ \E active \in BOOLEAN : config' = Updated(new, active)
        BY Zenon DEF UpdateProgram
    <2>2. PICK rate : rate = IF new.rate = 0 THEN config.rate ELSE NormalRate(new.rate)
        OBVIOUS
    <2>3. config \in Config
        BY DEF TypeInv, TypeOK
    <2>4. rate \in 1 .. Whole
        <3>1. CASE new.rate = 0
            BY <2>2, <2>3, <3>1 DEF Config
        <3>2. CASE new.rate # 0
            <4>1. new.rate \in Nat /\ new.rate > 0 /\ NormalRate(new.rate) \in 0 .. Whole
                BY <2>1, <3>2, ConfigRates DEF ValidUpdate
            <4> QED BY <2>2, <3>2, <4>1, NormalRateType
        <3> QED BY <3>1, <3>2
    <2>5. \A active \in BOOLEAN : Stored(new, rate, active) \in Config
        BY <2>1, <2>4, StoredType
    <2>6. \E active \in BOOLEAN : config' = Stored(new, rate, active)
        BY <2>1, <2>2, Zenon DEF Updated
    <2> QED BY <2>5, <2>6, Zenon
<1>2. adminUpdates' \in Nat
    BY DEF UpdateProgram, TypeInv, TypeOK
<1>3. UNCHANGED <<balance, ledger, reward, redemption, pc, job, clockVars, messages>>
    BY DEF UpdateProgram
<1>4. TypeOK'
    BY <1>1, <1>2, <1>3 DEF TypeInv, TypeOK, clockVars
<1> QED BY <1>3, <1>4, TypeSameJobs

LEMMA TypeUpdateReward ==
    ASSUME TypeInv, NEW r \in Rewards, UpdateReward(r)
    PROVE  TypeInv'
<1>1. PICK cost \in Costs, stock \in Stocks :
        reward' = [reward EXCEPT ![r].cost = IF cost > 0 THEN cost ELSE @,
                                 ![r].stock = stock]
    BY DEF UpdateReward
<1>2. reward' \in [Rewards -> Reward]
    <2>1. reward \in [Rewards -> Reward] /\ reward[r] \in Reward
        BY DEF TypeInv, TypeOK
    <2>2. PICK n \in Nat \ {0} : n = IF cost > 0 THEN cost ELSE reward[r].cost
        BY <2>1, CostsAndStocks DEF Reward
    <2>3. [reward[r] EXCEPT !.cost = n, !.stock = stock] \in Reward
        BY <2>1, CostsAndStocks DEF Reward
    <2>4. reward' = [reward EXCEPT ![r] = [reward[r] EXCEPT !.cost = n, !.stock = stock]]
        BY <1>1, <2>1, <2>2
    <2> QED BY <2>1, <2>3, <2>4
<1>3. UNCHANGED <<config, balance, ledger, redemption, pc, job, clockVars, messages>>
    BY DEF UpdateReward
<1>4. adminUpdates' \in Nat
    BY DEF UpdateReward, TypeInv, TypeOK
<1>5. TypeOK'
    BY <1>2, <1>3, <1>4 DEF TypeInv, TypeOK, clockVars
<1> QED BY <1>3, <1>5, TypeSameJobs

LEMMA TypePassHours ==
    ASSUME TypeInv, NEW h \in {1, 2, 24}, PassHours(h)
    PROVE  TypeInv'
<1>1. UNCHANGED <<dbVars, pc, job, countVars>>
    BY DEF PassHours
<1>2. today' \in Nat
    BY DEF PassHours, TypeInv, TypeOK
<1>3. closed' \subseteq DOMAIN ledger /\ lapsed' \subseteq Codes
    BY DEF PassHours, TypeInv, TypeOK
<1>4. TypeOK'
    BY <1>1, <1>2, <1>3 DEF TypeInv, TypeOK, dbVars, countVars
<1> QED BY <1>1, <1>4, TypeSameJobs DEF dbVars

LEMMA TypeStutter ==
    ASSUME TypeInv, UNCHANGED vars
    PROVE  TypeInv'
<1>1. TypeOK'
    BY DEF TypeInv, TypeOK, vars, dbVars, clockVars, countVars
<1> QED BY <1>1, TypeSameJobs DEF vars, dbVars

LEMMA TypeNext == TypeInv /\ [Next]_vars => TypeInv'
<1> SUFFICES ASSUME TypeInv, [Next]_vars PROVE TypeInv'
    OBVIOUS
<1>1. ASSUME NEW p \in Procs, Accept(p) PROVE TypeInv'
    BY <1>1, TypeAddCashback, TypeCheckBalance, TypeRequestRedemption,
       TypeConfirmRedemption, TypeUpdateCashback DEF Accept
<1>2. ASSUME NEW p \in Procs, Step(p) PROVE TypeInv'
    <2>1. "insertEarn" \in PCs /\ "insertAdjustment" \in PCs
        BY DEF PCs
    <2>2. CASE UpsertBalance(p)
        BY <2>1, <2>2, TypeLockBalance DEF UpsertBalance
    <2>3. CASE AdjustBalance(p)
        BY <2>1, <2>3, TypeLockBalance DEF AdjustBalance
    <2> QED
        BY <1>2, <2>2, <2>3, TypeSumWindow, TypeInsertEarn, TypeSelectExpiring,
           TypeDeductExpired, TypePlainPosts, TypeReserveStock, TypeDeductBalance,
           TypeInsertRedemption, TypeMarkConfirmed, TypeCheckCorrectable DEF Step
<1>3. ASSUME NEW p \in Procs, Abort(p) PROVE TypeInv'
    BY <1>3, TypeRollback DEF Abort
<1>4. CASE UpdateProgram
    BY <1>4, TypeUpdateProgram
<1>5. CASE \E r \in Rewards : UpdateReward(r)
    BY <1>5, TypeUpdateReward
<1>6. CASE \E h \in {1, 2, 24} : PassHours(h)
    BY <1>6, TypePassHours
<1>7. CASE Quiescent \/ UNCHANGED vars
    BY <1>7, TypeStutter DEF Quiescent
<1> QED BY <1>1, <1>2, <1>3, <1>4, <1>5, <1>6, <1>7 DEF Next

LEMMA TypeInvariance == Spec => []TypeInv
BY TypeInit, TypeNext, PTL DEF Spec

(* Every variable keeps to the rows and records the code can write: no     *)
(* balance is ever below zero, whatever is redeemed, corrected and expired *)
(* at once, and whatever limits the admin sets.                            *)
THEOREM TypeCorrect == Spec => []TypeOK
<1>1. TypeInv => TypeOK
    BY DEF TypeInv
<1> QED BY <1>1, TypeInvariance, PTL

-----------------------------------------------------------------------------
(***************************************************************************)
(* What the steps do to balances, ledger and jobs.  The rest of the proofs *)
(* looks at these kinds and not at the actions.                            *)
(***************************************************************************)
RestPCs == {"idle", "sumWindow", "selectExpiring", "reserveStock", "deductBalance",
            "markConfirmed", "checkCorrectable", "adjustBalance"}

Moves(p, s, j) == /\ pc' = [pc EXCEPT ![p] = s]
                  /\ job' = [job EXCEPT ![p] = j]
                  /\ UNCHANGED <<balance, ledger>>

(* A handler begins, ends or goes on, and holds no balance.                *)
Rests(p) == \E s \in RestPCs : \E j : /\ Moves(p, s, j)
                                      /\ s = "sumWindow" => j.amount > 0

Sums(p) ==
    \E a \in Int :
        /\ pc[p] = "sumWindow"
        /\ Moves(p, "upsertBalance",
                 [job[p] EXCEPT !.day = today, !.seen = Len(ledger), !.amount = a])
        /\ job[p].cap # None => AmountOf(ledger, Window(p)) + a <= job[p].cap
        /\ job[p].amount > 0 => a > 0

Locks(p, s) ==
    \E n \in Nat :
        /\ ~BalanceLocked(p, job[p].client)
        /\ n = Greatest0(balance[job[p].client] + job[p].amount)
        /\ Moves(p, s, [job[p] EXCEPT !.newBalance = n])

LocksSome(p) ==
    \/ pc[p] = "upsertBalance" /\ Locks(p, "insertEarn")
    \/ pc[p] = "adjustBalance" /\ Locks(p, "insertAdjustment")
    \/ pc[p] = "deductBalance" /\ Locks(p, "insertRedemption")

Selects(p) ==
    /\ pc[p] = "selectExpiring"
    /\ Moves(p, "deductExpired",
             [job[p] EXCEPT !.todo = Due(p), !.day = today, !.seen = Len(ledger)])

Works(p) == \/ Rests(p) \/ Sums(p) \/ LocksSome(p) \/ Selects(p) \/ DeductExpired(p)
            \/ \E es : Posts(p, es)

LEMMA RollbackRests == ASSUME NEW p \in Procs, Rollback(p) PROVE Rests(p)
BY DEF Rollback, Finish, Rests, Moves, RestPCs, dbVars

LEMMA GotoMoves == ASSUME NEW p, NEW s, NEW j, GotoWith(p, s, j) PROVE Moves(p, s, j)
BY DEF GotoWith, Moves, dbVars

LEMMA AcceptRests == ASSUME NEW p \in Procs, Accept(p) PROVE Rests(p)
<1>1. UNCHANGED dbVars
    BY DEF Accept, AddCashback, CheckBalance, RequestRedemption, ConfirmRedemption,
           UpdateCashback
<1>2. CASE AddCashback(p)
    <2>1. PICK c \in Clients, w \in Collaborators, a \in Amounts, x \in Extracts \cup {NoExtract} :
            Creditable(a) /\ Begin(p, "sumWindow", CreditJob(c, w, a, x))
        BY <1>2 DEF AddCashback
    <2>2. PICK j : j = CreditJob(c, w, a, x)
        OBVIOUS
    <2>3. j.amount > 0
        BY <2>1, <2>2 DEF Creditable, CreditJob, NoJob
    <2> QED BY <1>1, <2>1, <2>2, <2>3 DEF Begin, Rests, Moves, RestPCs, dbVars
<1>3. CASE CheckBalance(p) \/ RequestRedemption(p) \/ ConfirmRedemption(p) \/ UpdateCashback(p)
    <2>1. \E s \in RestPCs \ {"sumWindow"} : \E j : Begin(p, s, j)
        BY <1>3 DEF CheckBalance, RequestRedemption, ConfirmRedemption, UpdateCashback, RestPCs
    <2> QED BY <1>1, <2>1 DEF Begin, Rests, Moves, dbVars
<1> QED BY <1>2, <1>3 DEF Accept

LEMMA StepWorks == ASSUME TypeInv, NEW p \in Procs, Step(p) PROVE Works(p)
<1>0. JobFits(pc[p], job[p])
    BY DEF TypeInv, JobsOK
<1>1. CASE SumWindow(p)
    BY <1>1, SumWindowSteps, RollbackRests, GotoMoves DEF SumWindow, Works, Sums
<1>2. CASE UpsertBalance(p)
    <2>1. job[p].client \in Clients
        BY <1>0, <1>2 DEF UpsertBalance, JobFits, BalancePCs, CreditPCs
    <2>2. PICK n \in Nat :
            /\ n = Greatest0(balance[job[p].client] + job[p].amount)
            /\ GotoWith(p, "insertEarn", [job[p] EXCEPT !.newBalance = n])
        BY <1>2, <2>1, LockedBalance DEF UpsertBalance
    <2>3. ~BalanceLocked(p, job[p].client)
        BY <1>2 DEF UpsertBalance, LockBalance
    <2>4. Locks(p, "insertEarn")
        BY <2>2, <2>3, GotoMoves DEF Locks
    <2> QED BY <1>2, <2>4 DEF UpsertBalance, LocksSome, Works
<1>3. CASE AdjustBalance(p)
    <2>1. job[p].client \in Clients
        BY <1>0, <1>3 DEF AdjustBalance, JobFits, BalancePCs, CorrectPCs
    <2>2. PICK n \in Nat :
            /\ n = Greatest0(balance[job[p].client] + job[p].amount)
            /\ GotoWith(p, "insertAdjustment", [job[p] EXCEPT !.newBalance = n])
        BY <1>3, <2>1, LockedBalance DEF AdjustBalance
    <2>3. ~BalanceLocked(p, job[p].client)
        BY <1>3 DEF AdjustBalance, LockBalance
    <2>4. Locks(p, "insertAdjustment")
        BY <2>2, <2>3, GotoMoves DEF Locks
    <2> QED BY <1>3, <2>4 DEF AdjustBalance, LocksSome, Works
<1>4. CASE DeductBalance(p)
    <2>1. CASE Rollback(p)
        BY <2>1, RollbackRests DEF Works
    <2>2. ASSUME NEW n \in Nat,
                 n = Greatest0(balance[job[p].client] + job[p].amount),
                 GotoWith(p, "insertRedemption", [job[p] EXCEPT !.newBalance = n])
          PROVE  Works(p)
        <3>1. pc[p] = "deductBalance" /\ ~BalanceLocked(p, job[p].client)
            BY <1>4 DEF DeductBalance
        <3>2. Locks(p, "insertRedemption")
            BY <2>2, <3>1, GotoMoves DEF Locks
        <3> QED BY <3>1, <3>2 DEF LocksSome, Works
    <2> QED BY <1>4, <2>1, <2>2, DeductBalanceSteps
<1>5. CASE SelectExpiring(p)
    BY <1>5, SelectExpiringSteps, RollbackRests, GotoMoves DEF SelectExpiring, Selects, Works
<1>6. CASE DeductExpired(p)
    BY <1>6 DEF Works
<1>7. CASE InsertEarn(p) \/ InsertRedemption(p) \/ InsertAdjustment(p) \/ CommitExpired(p)
    BY <1>7, InsertEarnSteps, InsertRedemptionSteps, InsertAdjustmentSteps,
       CommitExpiredSteps, RollbackRests DEF Works
<1>8. CASE MarkConfirmed(p)
    BY <1>8 DEF MarkConfirmed, Finish, Works, Rests, Moves, RestPCs
<1>9. CASE ReserveStock(p)
    <2>1. CASE Rollback(p)
        BY <2>1, RollbackRests DEF Works
    <2>2. ASSUME NEW j, GotoWith(p, "deductBalance", j) PROVE Works(p)
        BY <2>2, GotoMoves DEF Works, Rests, RestPCs
    <2> QED BY <1>9, <2>1, <2>2 DEF ReserveStock
<1>10. CASE CheckCorrectable(p)
    <2>1. CASE Rollback(p)
        BY <2>1, RollbackRests DEF Works
    <2>2. ASSUME NEW j, GotoWith(p, "adjustBalance", j) PROVE Works(p)
        BY <2>2, GotoMoves DEF Works, Rests, RestPCs
    <2> QED BY <1>10, <2>1, <2>2 DEF CheckCorrectable
<1> QED BY <1>1, <1>2, <1>3, <1>4, <1>5, <1>6, <1>7, <1>8, <1>9, <1>10 DEF Step

LEMMA NextWorks ==
    ASSUME TypeInv, [Next]_vars
    PROVE  UNCHANGED <<balance, ledger, pc, job>> \/ \E p \in Procs : Works(p)
<1>1. ASSUME NEW p \in Procs, Accept(p) \/ Step(p) \/ Abort(p) PROVE Works(p)
    BY <1>1, AcceptRests, StepWorks, RollbackRests DEF Abort, Works
<1>2. CASE \/ UpdateProgram
           \/ \E r \in Rewards : UpdateReward(r)
           \/ \E h \in {1, 2, 24} : PassHours(h)
           \/ Quiescent \/ UNCHANGED vars
    BY <1>2 DEF UpdateProgram, UpdateReward, PassHours, Quiescent, vars, dbVars
<1> QED BY <1>1, <1>2 DEF Next

-----------------------------------------------------------------------------
(***************************************************************************)
(* The row locks.  HeldRowsAreCurrent is inductive given TypeInv: a step   *)
(* of p changes what p holds, and a balance it writes is one it holds, so  *)
(* what the others hold stays current.                                     *)
(***************************************************************************)
Current(p, c) ==
    /\ \A q \in Procs \ {p} : ~HoldsBalance(q, c)
    /\ job[p].posted = <<>> =>
           job[p].newBalance = Greatest0(balance[c] + job[p].amount)
    /\ job[p].posted # <<>> =>
           /\ Chained(job[p].posted, balance[c])
           /\ job[p].newBalance = job[p].posted[Len(job[p].posted)].after

LEMMA HeldSplit ==
    HeldRowsAreCurrent <=> \A p \in Procs, c \in Clients : HoldsBalance(p, c) => Current(p, c)
BY DEF HeldRowsAreCurrent, Current

LEMMA HeldJoin ==
    (\A p \in Procs, c \in Clients : HoldsBalance(p, c) => Current(p, c))'
        => HeldRowsAreCurrent'
BY HeldSplit, PTL

(* A handler that holds no balance any more; it has written one at most,   *)
(* which it held.                                                          *)
LEMMA HeldReleased ==
    ASSUME TypeInv, HeldRowsAreCurrent, NEW p \in Procs,
           \A q \in Procs \ {p} : pc'[q] = pc[q] /\ job'[q] = job[q],
           \A c \in Clients : ~HoldsBalance(p, c)',
           \A c \in Clients : balance'[c] = balance[c] \/ HoldsBalance(p, c)
    PROVE  HeldRowsAreCurrent'
<1>1. ASSUME NEW q \in Procs, NEW c \in Clients, HoldsBalance(q, c)' PROVE Current(q, c)'
    <2>1. q # p
        BY <1>1
    <2>2. HoldsBalance(q, c)
        BY <1>1, <2>1 DEF HoldsBalance
    <2>3. Current(q, c)
        BY <2>2, HeldSplit
    <2>4. ~HoldsBalance(p, c) /\ balance'[c] = balance[c]
        BY <2>1, <2>3 DEF Current
    <2>5. \A r \in Procs \ {q} : ~HoldsBalance(r, c)'
        <3>1. ASSUME NEW r \in Procs \ {p, q} PROVE HoldsBalance(r, c)' <=> HoldsBalance(r, c)
            BY DEF HoldsBalance
        <3> QED BY <2>3, <3>1 DEF Current
    <2>6. job'[q] = job[q]
        BY <2>1
    <2> QED BY <2>3, <2>4, <2>5, <2>6 DEF Current
<1> QED BY <1>1, HeldJoin

(* A handler that gets a balance nobody else holds, or goes on holding it. *)
LEMMA HeldTaken ==
    ASSUME TypeInv, HeldRowsAreCurrent, NEW p \in Procs, NEW d \in Clients,
           \A q \in Procs \ {p} : pc'[q] = pc[q] /\ job'[q] = job[q],
           UNCHANGED balance, ~BalanceLocked(p, d),
           \A c \in Clients : HoldsBalance(p, c)' => c = d,
           NEW j, job'[p] = j,
           j.posted = <<>> => j.newBalance = Greatest0(balance[d] + j.amount),
           j.posted # <<>> => /\ Chained(j.posted, balance[d])
                              /\ j.newBalance = j.posted[Len(j.posted)].after
    PROVE  HeldRowsAreCurrent'
<1>1. \A q \in Procs \ {p}, c \in Clients : HoldsBalance(q, c)' <=> HoldsBalance(q, c)
    BY DEF HoldsBalance
<1>2. \A q \in Procs \ {p} : ~HoldsBalance(q, d)
    BY DEF BalanceLocked
<1>3. ASSUME NEW q \in Procs, NEW c \in Clients, HoldsBalance(q, c)' PROVE Current(q, c)'
    <2>1. CASE q = p
        <3>1. c = d
            BY <1>3, <2>1
        <3>2. \A r \in Procs \ {p} : ~HoldsBalance(r, d)'
            BY <1>1, <1>2
        <3> QED BY <2>1, <3>1, <3>2 DEF Current, Chained
    <2>2. CASE q # p
        <3>1. HoldsBalance(q, c)
            BY <1>1, <1>3, <2>2
        <3>2. Current(q, c) /\ c # d
            BY <1>2, <2>2, <3>1, HeldSplit
        <3>3. ~HoldsBalance(p, c)'
            BY <3>2
        <3>4. \A r \in Procs \ {q} : ~HoldsBalance(r, c)'
            BY <1>1, <3>2, <3>3 DEF Current
        <3>5. job'[q] = job[q] /\ balance' = balance
            BY <2>2
        <3> QED BY <3>2, <3>4, <3>5 DEF Current, Chained
    <2> QED BY <2>1, <2>2
<1> QED BY <1>3, HeldJoin

LEMMA MovedOthers ==
    ASSUME TypeInv, NEW p \in Procs, NEW s, NEW j,
           pc' = [pc EXCEPT ![p] = s], job' = [job EXCEPT ![p] = j]
    PROVE  /\ pc'[p] = s /\ job'[p] = j
           /\ \A q \in Procs \ {p} : pc'[q] = pc[q] /\ job'[q] = job[q]
<1>1. pc \in [Procs -> PCs] /\ job \in [Procs -> Job]
    BY DEF TypeInv, TypeOK
<1> QED BY <1>1

LEMMA MovesOthers ==
    ASSUME TypeInv, NEW p \in Procs, NEW s, NEW j, Moves(p, s, j)
    PROVE  /\ pc'[p] = s /\ job'[p] = j
           /\ \A q \in Procs \ {p} : pc'[q] = pc[q] /\ job'[q] = job[q]
<1>1. pc' = [pc EXCEPT ![p] = s] /\ job' = [job EXCEPT ![p] = j]
    BY DEF Moves
<1> QED BY <1>1, MovedOthers

LEMMA HeldMoves ==
    ASSUME TypeInv, HeldRowsAreCurrent, NEW p \in Procs, NEW s, NEW j, Moves(p, s, j),
           \/ s \in RestPCs \cup {"upsertBalance"}
           \/ s = "deductExpired" /\ j.posted = <<>>
    PROVE  HeldRowsAreCurrent'
<1>1. pc'[p] = s /\ job'[p] = j
    BY MovesOthers
<1>2. \A q \in Procs \ {p} : pc'[q] = pc[q] /\ job'[q] = job[q]
    BY MovesOthers
<1>3. \A c \in Clients : ~HoldsBalance(p, c)'
    BY <1>1 DEF HoldsBalance, RestPCs
<1> QED BY <1>2, <1>3, HeldReleased DEF Moves

LEMMA HeldLocks ==
    ASSUME TypeInv, HeldRowsAreCurrent, NEW p \in Procs, LocksSome(p)
    PROVE  HeldRowsAreCurrent'
<1>1. PICK s \in {"insertEarn", "insertAdjustment", "insertRedemption"} : Locks(p, s)
    BY DEF LocksSome
<1>2. JobFits(pc[p], job[p]) /\ pc[p] \in {"upsertBalance", "adjustBalance", "deductBalance"}
    BY DEF LocksSome, TypeInv, JobsOK
<1>3. PICK d \in Clients : d = job[p].client
    BY <1>2 DEF JobFits, BalancePCs, CreditPCs, BurnPCs, CorrectPCs
<1>4. PICK n \in Nat : /\ ~BalanceLocked(p, d)
                       /\ n = Greatest0(balance[d] + job[p].amount)
                       /\ Moves(p, s, [job[p] EXCEPT !.newBalance = n])
    BY <1>1, <1>3 DEF Locks
<1>5. PICK j : j = [job[p] EXCEPT !.newBalance = n]
    OBVIOUS
<1>6. job[p].posted = <<>>
    BY <1>2 DEF JobFits
<1>7. j.posted = <<>> /\ j.newBalance = n /\ j.client = d /\ j.amount = job[p].amount
    <2>1. job[p] \in Job
        BY DEF TypeInv, TypeOK
    <2> QED BY <1>3, <1>5, <1>6, <2>1 DEF Job
<1>8. Moves(p, s, j)
    BY <1>4, <1>5
<1>9. pc'[p] = s /\ job'[p] = j
    BY <1>8, MovesOthers
<1>10. \A q \in Procs \ {p} : pc'[q] = pc[q] /\ job'[q] = job[q]
    BY <1>8, MovesOthers
<1>11. \A c \in Clients : HoldsBalance(p, c)' => c = d
    BY <1>7, <1>9 DEF HoldsBalance
<1>12. UNCHANGED balance
    BY <1>8 DEF Moves
<1>13. j.newBalance = Greatest0(balance[d] + j.amount)
    BY <1>4, <1>7
<1> QED BY <1>4, <1>7, <1>9, <1>10, <1>11, <1>12, <1>13, HeldTaken

LEMMA ChainedOn ==
    ASSUME NEW es \in Seq(Transaction), NEW e \in Transaction, NEW start,
           Chained(es, start),
           e.after = Greatest0((IF es = <<>> THEN start ELSE es[Len(es)].after) + e.amount)
    PROVE  Chained(Append(es, e), start)
<1> DEFINE on == Append(es, e)
<1>1. /\ DOMAIN on = 1 .. Len(es) + 1 /\ DOMAIN es = 1 .. Len(es) /\ Len(es) \in Nat
      /\ \A i \in 1 .. Len(es) : on[i] = es[i]
      /\ on[Len(es) + 1] = e
    OBVIOUS
<1>2. es = <<>> <=> Len(es) = 0
    OBVIOUS
<1> HIDE DEF on
<1>3. ASSUME NEW i \in DOMAIN on
      PROVE  on[i].after = Greatest0((IF i = 1 THEN start ELSE on[i - 1].after) + on[i].amount)
    <2>1. CASE i = Len(es) + 1
        <3>1. CASE Len(es) = 0
            BY <1>1, <1>2, <2>1, <3>1
        <3>2. CASE Len(es) # 0
            <4>1. i # 1 /\ i - 1 = Len(es) /\ i - 1 \in 1 .. Len(es)
                BY <1>1, <2>1, <3>2
            <4> QED BY <1>1, <1>2, <2>1, <3>2, <4>1
        <3> QED BY <3>1, <3>2
    <2>2. CASE i # Len(es) + 1
        <3>1. i \in 1 .. Len(es) /\ (i # 1 => i - 1 \in 1 .. Len(es))
            BY <1>1, <2>2
        <3> QED BY <1>1, <3>1 DEF Chained
    <2> QED BY <2>1, <2>2
<1> QED BY <1>3 DEF Chained, on

LEMMA HeldDeducts ==
    ASSUME TypeInv, HeldRowsAreCurrent, NEW p \in Procs, DeductExpired(p)
    PROVE  HeldRowsAreCurrent'
<1>1. /\ pc[p] = "deductExpired" /\ job[p] \in Job
      /\ JobFits("deductExpired", job[p])
      /\ ~BalanceLocked(p, job[p].client)
    BY DEF DeductExpired, TypeInv, TypeOK, JobsOK
<1>2. PICK d \in Clients : d = job[p].client
    BY <1>1 DEF JobFits, BalancePCs, ExpirePCs
<1>3. PICK i \in job[p].todo, rest \in Nat, e \in Transaction,
           s \in {"deductExpired", "commitExpired"} :
        /\ rest = Greatest0(Held(p) + e.amount)
        /\ e.after = rest
        /\ \E j \in Job : Deducted(p, i, rest, e, j) /\ GotoWith(p, s, j)
    BY DeductExpiredSteps
<1>4. PICK j \in Job : Deducted(p, i, rest, e, j) /\ GotoWith(p, s, j)
    BY <1>3
<1>5. PICK es \in Seq(Transaction) : es = job[p].posted
    BY <1>1 DEF Job
<1>6. /\ j.newBalance = rest /\ j.posted = Append(es, e) /\ j.client = d
    BY <1>2, <1>4, <1>5 DEF Deducted
<1>7. /\ Append(es, e) # <<>> /\ Len(Append(es, e)) = Len(es) + 1
      /\ Append(es, e)[Len(es) + 1] = e
    <2>1. Len(Append(es, e)) = Len(es) + 1
        OBVIOUS
    <2>2. Append(es, e)[Len(es) + 1] = e
        OBVIOUS
    <2>3. Len(Append(es, e)) # 0 /\ Len(<<>>) = 0
        BY <2>1
    <2>4. Append(es, e) # <<>>
        BY <2>3
    <2> QED BY <2>1, <2>2, <2>4
<1>8. Chained(es, balance[d])
      /\ Held(p) = IF es = <<>> THEN balance[d] ELSE es[Len(es)].after
    <2>1. CASE es = <<>>
        BY <1>2, <1>5, <2>1 DEF Held, Chained
    <2>2. CASE es # <<>>
        <3>1. HoldsBalance(p, d)
            BY <1>1, <1>2, <1>5, <2>2 DEF HoldsBalance
        <3>2. Current(p, d)
            BY <3>1, HeldSplit
        <3> QED BY <1>5, <2>2, <3>2 DEF Current, Held
    <2> QED BY <2>1, <2>2
<1>9. Chained(j.posted, balance[d])
    BY <1>3, <1>6, <1>8, ChainedOn
<1>10. j.newBalance = j.posted[Len(j.posted)].after
    BY <1>3, <1>6, <1>7
<1>11. Moves(p, s, j)
    BY <1>4, GotoMoves
<1>12. pc'[p] = s /\ job'[p] = j
    BY <1>11, MovesOthers
<1>13. \A q \in Procs \ {p} : pc'[q] = pc[q] /\ job'[q] = job[q]
    BY <1>11, MovesOthers
<1>14. \A c \in Clients : HoldsBalance(p, c)' => c = d
    BY <1>6, <1>12 DEF HoldsBalance
<1>15. UNCHANGED balance
    BY <1>11 DEF Moves
<1>16. j.posted # <<>>
    BY <1>6, <1>7
<1> QED BY <1>1, <1>2, <1>9, <1>10, <1>12, <1>13, <1>14, <1>15, <1>16, HeldTaken

LEMMA HeldPosts ==
    ASSUME TypeInv, HeldRowsAreCurrent, NEW p \in Procs, NEW es, Posts(p, es)
    PROVE  HeldRowsAreCurrent'
<1>1. pc' = [pc EXCEPT ![p] = "idle"] /\ job' = [job EXCEPT ![p] = NoJob]
    BY DEF Posts, Finish
<1>2. pc'[p] = "idle" /\ \A q \in Procs \ {p} : pc'[q] = pc[q] /\ job'[q] = job[q]
    BY <1>1, MovedOthers
<1>3. \A c \in Clients : ~HoldsBalance(p, c)'
    BY <1>2 DEF HoldsBalance
<1>4. \A c \in Clients : balance'[c] = balance[c] \/ HoldsBalance(p, c)
    BY PosterType DEF Posts, CommitEntries, TypeInv, TypeOK
<1> QED BY <1>2, <1>3, <1>4, HeldReleased

LEMMA HeldStep ==
    ASSUME TypeInv, HeldRowsAreCurrent, [Next]_vars
    PROVE  HeldRowsAreCurrent'
<1>1. CASE UNCHANGED <<balance, ledger, pc, job>>
    BY <1>1 DEF HeldRowsAreCurrent, HoldsBalance, Chained
<1>2. ASSUME NEW p \in Procs, Works(p) PROVE HeldRowsAreCurrent'
    <2>1. CASE Rests(p)
        BY <2>1, HeldMoves DEF Rests
    <2>2. CASE Sums(p)
        BY <2>2, HeldMoves DEF Sums
    <2>3. CASE Selects(p)
        <3>1. PICK j : /\ j = [job[p] EXCEPT !.todo = Due(p), !.day = today, !.seen = Len(ledger)]
                       /\ Moves(p, "deductExpired", j)
            BY <2>3 DEF Selects
        <3>2. job[p].posted = <<>> /\ job[p] \in Job
            BY <2>3 DEF Selects, TypeInv, TypeOK, JobsOK, JobFits
        <3>3. j.posted = <<>>
            BY <3>1, <3>2 DEF Job
        <3> QED BY <3>1, <3>3, HeldMoves
    <2> QED BY <1>2, <2>1, <2>2, <2>3, HeldLocks, HeldDeducts, HeldPosts DEF Works
<1> QED BY <1>1, <1>2, NextWorks

LEMMA HeldInit == Init => HeldRowsAreCurrent
BY DEF Init, HeldRowsAreCurrent, HoldsBalance

(* READ COMMITTED and the row locks: what a transaction is about to        *)
(* commit, several expirations in a row among it, was computed from the    *)
(* balance as it still is, and no two transactions hold one balance.       *)
THEOREM RowLocksCorrect == Spec => []HeldRowsAreCurrent
<1>1. TypeInv /\ HeldRowsAreCurrent /\ [Next]_vars => HeldRowsAreCurrent'
    BY HeldStep
<1> QED BY <1>1, HeldInit, TypeInvariance, PTL DEF Spec

-----------------------------------------------------------------------------
(***************************************************************************)
(* The balance is what the ledger says.  ReplaysFor is BalanceReplaysLedger *)
(* for one client, with neighbours among the client's entries instead of   *)
(* the greatest entry before another.                                      *)
(***************************************************************************)
Neighbours(S, i, j) == i < j /\ \A k \in S : k <= i \/ k >= j

ReplaysFor(c) ==
    /\ Own(c) = {} => balance[c] = 0
    /\ \A j \in Own(c) :
        /\ (\A i \in Own(c) : i >= j) => ledger[j].after = Greatest0(0 + ledger[j].amount)
        /\ \A i \in Own(c) : Neighbours(Own(c), i, j) =>
               ledger[j].after = Greatest0(ledger[i].after + ledger[j].amount)
        /\ (\A i \in Own(c) : i <= j) => balance[c] = ledger[j].after

LedgerReplays == \A c \in Clients : ReplaysFor(c)

LEMMA ReplaysMeans ==
    ASSUME TypeInv, LedgerReplays
    PROVE  BalanceReplaysLedger
<1> SUFFICES ASSUME NEW c \in Clients
             PROVE  /\ \A j \in Own(c) :
                        LET before == IF Before(j) = {} THEN 0 ELSE ledger[Max(Before(j))].after
                        IN  ledger[j].after = Greatest0(before + ledger[j].amount)
                    /\ balance[c] = IF Own(c) = {} THEN 0 ELSE ledger[Max(Own(c))].after
    BY DEF BalanceReplaysLedger
<1>1. ReplaysFor(c)
    BY DEF LedgerReplays
<1>2. /\ Own(c) \subseteq DOMAIN ledger /\ Own(c) \subseteq Int /\ IsFiniteSet(Own(c))
      /\ \A j \in Own(c) : ledger[j].client = c
    <2>1. ledger \in Seq(Transaction)
        BY DEF TypeInv, TypeOK
    <2>2. Own(c) \in SUBSET DOMAIN ledger
        BY DEF Own
    <2> QED BY <2>1, <2>2, CreditedType DEF Own
<1>3. ASSUME NEW j \in Own(c)
      PROVE  LET before == IF Before(j) = {} THEN 0 ELSE ledger[Max(Before(j))].after
             IN  ledger[j].after = Greatest0(before + ledger[j].amount)
    <2>1. Before(j) = {i \in Own(c) : i < j}
        BY <1>2 DEF Before
    <2>2. CASE Before(j) = {}
        <3>1. \A i \in Own(c) : i >= j
            BY <1>2, <2>1, <2>2
        <3> QED BY <1>1, <2>2, <3>1 DEF ReplaysFor
    <2>3. CASE Before(j) # {}
        <3>1. Before(j) \subseteq Own(c) /\ IsFiniteSet(Before(j)) /\ Before(j) \subseteq Int
            BY <1>2, <2>1, FS_Subset
        <3>2. Max(Before(j)) \in Before(j) /\ \A y \in Before(j) : y <= Max(Before(j))
            BY <2>3, <3>1, MaxExists
        <3>3. PICK m \in Own(c) : m = Max(Before(j))
            BY <3>1, <3>2
        <3>4. Neighbours(Own(c), m, j)
            BY <1>2, <2>1, <3>2, <3>3 DEF Neighbours
        <3> QED BY <1>1, <2>3, <3>3, <3>4 DEF ReplaysFor
    <2> QED BY <2>2, <2>3
<1>4. balance[c] = IF Own(c) = {} THEN 0 ELSE ledger[Max(Own(c))].after
    <2>1. CASE Own(c) # {}
        <3>1. Max(Own(c)) \in Own(c) /\ \A y \in Own(c) : y <= Max(Own(c))
            BY <1>2, <2>1, MaxExists
        <3> QED BY <1>1, <2>1, <3>1 DEF ReplaysFor
    <2> QED BY <1>1, <2>1 DEF ReplaysFor
<1> QED BY <1>3, <1>4

LEMMA ReplaysJoin == (\A c \in Clients : ReplaysFor(c))' => LedgerReplays'
BY DEF LedgerReplays

(* What a transaction posts is its client's, chained from the balance it   *)
(* holds to the one it writes.                                             *)
LEMMA PostedChain ==
    ASSUME TypeInv, HeldRowsAreCurrent, NEW p \in Procs, NEW es, Posts(p, es)
    PROVE  /\ \A i \in DOMAIN es : es[i].client = job[p].client
           /\ Chained(es, balance[job[p].client])
           /\ es[Len(es)].after = job[p].newBalance
<1>1. PICK c \in Clients : c = job[p].client
    BY PosterType
<1>2. HoldsBalance(p, c) /\ Current(p, c) /\ JobFits(pc[p], job[p])
    BY <1>1, PosterType, HeldSplit DEF TypeInv, JobsOK
<1>3. ASSUME NEW type \in TransactionTypes, es = <<Entry(p, type)>>,
             job[p].posted = <<>>
      PROVE  /\ \A i \in DOMAIN es : es[i].client = c
             /\ Chained(es, balance[c])
             /\ es[Len(es)].after = job[p].newBalance
    <2>1. PICK e : e = Entry(p, type)
        OBVIOUS
    <2>2. /\ e.client = c /\ e.amount = job[p].amount /\ e.after = job[p].newBalance
        BY <1>1, <2>1, EntryType
    <2>3. Len(es) = 1 /\ DOMAIN es = {1} /\ es[1] = e
        BY <1>3, <2>1
    <2>4. e.after = Greatest0(balance[c] + e.amount)
        BY <1>2, <1>3, <2>2 DEF Current
    <2> QED BY <2>2, <2>3, <2>4 DEF Chained
<1>4. CASE PostsExpired(p, es)
    <2>1. es = job[p].posted /\ pc[p] = "commitExpired"
        BY <1>4 DEF PostsExpired
    <2>2. es # <<>> /\ \A i \in DOMAIN es : es[i].client = c
        BY <1>1, <1>2, <2>1 DEF JobFits, ExpirationOf
    <2> QED BY <1>1, <1>2, <2>1, <2>2 DEF Current
<1>5. CASE PostsEarn(p, es) \/ PostsBurn(p, es) \/ PostsAdjustment(p, es)
    <2>1. job[p].posted = <<>>
        BY <1>2, <1>5 DEF PostsEarn, PostsBurn, PostsAdjustment, JobFits
    <2>2. \E type \in TransactionTypes : es = <<Entry(p, type)>>
        BY <1>5 DEF PostsEarn, PostsBurn, PostsAdjustment, TransactionTypes
    <2> QED BY <1>1, <1>3, <2>1, <2>2
<1> QED BY <1>1, <1>4, <1>5 DEF Posts

LEMMA ReplayPosts ==
    ASSUME TypeInv, HeldRowsAreCurrent, LedgerReplays, NEW p \in Procs, NEW es, Posts(p, es)
    PROVE  LedgerReplays'
<1>1. PICK c \in Clients : c = job[p].client
    BY PosterType
<1>2. PICK N \in Nat, K \in Nat \ {0} :
        /\ N = Len(ledger) /\ K = Len(es)
        /\ DOMAIN ledger = 1 .. N /\ DOMAIN es = 1 .. K /\ DOMAIN ledger' = 1 .. N + K
        /\ \A i \in 1 .. N : ledger'[i] = ledger[i]
        /\ \A i \in 1 .. K : ledger'[N + i] = es[i]
    BY PostedEntries
<1>3. /\ \A i \in 1 .. K : es[i].client = c
      /\ Chained(es, balance[c])
      /\ es[K].after = job[p].newBalance
    BY <1>1, <1>2, PostedChain
<1>4. balance' = [balance EXCEPT ![c] = job[p].newBalance] /\ balance \in [Clients -> Nat]
    BY <1>1 DEF Posts, CommitEntries, TypeInv, TypeOK
<1>5. \A i \in N + 1 .. N + K : i - N \in 1 .. K /\ i = N + (i - N)
    OBVIOUS
<1>6. ASSUME NEW i \in N + 1 .. N + K PROVE ledger'[i] = es[i - N] /\ ledger'[i].client = c
    <2>1. PICK k \in 1 .. K : k = i - N /\ i = N + k
        BY <1>5
    <2>2. ledger'[i] = es[k]
        BY <1>2, <2>1
    <2> QED BY <1>3, <2>1, <2>2
<1>7. \A i \in 1 .. N + K : i \in 1 .. N \/ i \in N + 1 .. N + K
    OBVIOUS
<1>8. 1 .. N \subseteq 1 .. N + K /\ N + 1 .. N + K \subseteq 1 .. N + K
    OBVIOUS
<1>9. \A d \in Clients : Own(d) = {i \in 1 .. N : ledger[i].client = d}
    BY <1>2 DEF Own
<1>10. \A d \in Clients : Own(d)' = {i \in 1 .. N + K : ledger'[i].client = d}
    BY <1>2 DEF Own
<1>11. Own(c)' = Own(c) \cup (N + 1 .. N + K)
    BY <1>2, <1>6, <1>7, <1>8, <1>9, <1>10
<1>12. ASSUME NEW d \in Clients \ {c} PROVE Own(d)' = Own(d) /\ balance'[d] = balance[d]
    <2>1. ASSUME NEW i PROVE i \in Own(d)' <=> i \in Own(d)
        BY <1>2, <1>6, <1>7, <1>8, <1>9, <1>10
    <2> QED BY <1>4, <2>1
<1>13. \A d \in Clients : \A i \in Own(d) : i \in 1 .. N /\ ledger'[i] = ledger[i]
    BY <1>2, <1>9
<1>14. ASSUME NEW d \in Clients \ {c} PROVE ReplaysFor(d)'
    <2>1. ReplaysFor(d)
        BY DEF LedgerReplays
    <2> QED BY <1>12, <1>13, <2>1 DEF ReplaysFor, Neighbours
<1>15. ReplaysFor(c)
    BY DEF LedgerReplays
<1>16. N + K \in Own(c)' /\ balance'[c] = es[K].after /\ ledger'[N + K] = es[K]
    BY <1>2, <1>3, <1>4, <1>11
<1>17. es[1].after = Greatest0(balance[c] + es[1].amount)
    BY <1>2, <1>3 DEF Chained
<1>18. \A m \in 2 .. K : es[m].after = Greatest0(es[m - 1].after + es[m].amount)
    <2>1. \A m \in 2 .. K : m \in 1 .. K /\ m # 1
        OBVIOUS
    <2> QED BY <1>2, <1>3, <2>1 DEF Chained
<1>19. ASSUME NEW j \in Own(c)
       PROVE  /\ (\A i \in Own(c)' : i >= j) => ledger'[j].after = Greatest0(0 + ledger'[j].amount)
              /\ \A i \in Own(c)' : Neighbours(Own(c)', i, j) =>
                     ledger'[j].after = Greatest0(ledger'[i].after + ledger'[j].amount)
              /\ (\A i \in Own(c)' : i <= j) => balance'[c] = ledger'[j].after
    <2>1. j \in 1 .. N /\ ledger'[j] = ledger[j]
        BY <1>13
    <2>2. ~\A i \in Own(c)' : i <= j
        BY <1>16, <2>1
    <2>3. ASSUME NEW i \in Own(c)', Neighbours(Own(c)', i, j)
          PROVE  ledger'[j].after = Greatest0(ledger'[i].after + ledger'[j].amount)
        <3>1. i \in Own(c)
            BY <1>11, <2>1, <2>3 DEF Neighbours
        <3>2. Neighbours(Own(c), i, j)
            BY <1>11, <2>3 DEF Neighbours
        <3> QED BY <1>13, <1>15, <2>1, <3>1, <3>2 DEF ReplaysFor
    <2>4. (\A i \in Own(c)' : i >= j) => ledger'[j].after = Greatest0(0 + ledger'[j].amount)
        BY <1>11, <1>15, <2>1 DEF ReplaysFor
    <2> QED BY <2>2, <2>3, <2>4
<1>20. ASSUME NEW m \in 1 .. K, NEW j, j = N + m
       PROVE  /\ (\A i \in Own(c)' : i >= j) => ledger'[j].after = Greatest0(0 + ledger'[j].amount)
              /\ \A i \in Own(c)' : Neighbours(Own(c)', i, j) =>
                     ledger'[j].after = Greatest0(ledger'[i].after + ledger'[j].amount)
              /\ (\A i \in Own(c)' : i <= j) => balance'[c] = ledger'[j].after
    <2>1. ledger'[j] = es[m] /\ j \in Own(c)'
        BY <1>2, <1>11, <1>20
    <2>2. (\A i \in Own(c)' : i <= j) => balance'[c] = ledger'[j].after
        <3>1. (\A i \in Own(c)' : i <= j) => m = K
            BY <1>16, <1>20
        <3> QED BY <1>16, <2>1, <3>1
    <2>3. CASE m = 1
        <3>1. ASSUME \A i \in Own(c)' : i >= j
              PROVE  ledger'[j].after = Greatest0(0 + ledger'[j].amount)
            <4>1. Own(c) = {}
                BY <1>11, <1>13, <1>20, <2>3, <3>1
            <4>2. balance[c] = 0
                BY <1>15, <4>1 DEF ReplaysFor
            <4> QED BY <1>17, <2>1, <2>3, <4>2
        <3>2. ASSUME NEW i \in Own(c)', Neighbours(Own(c)', i, j)
              PROVE  ledger'[j].after = Greatest0(ledger'[i].after + ledger'[j].amount)
            <4>1. i \in Own(c)
                BY <1>11, <1>20, <2>3, <3>2 DEF Neighbours
            <4>2. \A k \in Own(c) : k <= i
                BY <1>11, <1>13, <1>20, <2>3, <3>2 DEF Neighbours
            <4>3. balance[c] = ledger[i].after
                BY <1>15, <4>1, <4>2 DEF ReplaysFor
            <4> QED BY <1>13, <1>17, <2>1, <2>3, <4>1, <4>3
        <3> QED BY <2>2, <3>1, <3>2
    <2>4. CASE m # 1
        <3>1. PICK k \in 1 .. K : k = m - 1 /\ m \in 2 .. K
            BY <2>4
        <3>2. N + k \in Own(c)' /\ ledger'[N + k] = es[k] /\ N + k < j
            BY <1>2, <1>11, <1>20, <3>1
        <3>3. ~\A i \in Own(c)' : i >= j
            BY <1>20, <3>2
        <3>4. ASSUME NEW i \in Own(c)', Neighbours(Own(c)', i, j)
              PROVE  ledger'[j].after = Greatest0(ledger'[i].after + ledger'[j].amount)
            <4>1. i \in 1 .. N + K /\ i < j /\ N + k <= i
                BY <1>10, <1>20, <3>2, <3>4 DEF Neighbours
            <4>2. i = N + k
                BY <1>20, <3>1, <4>1
            <4> QED BY <1>18, <2>1, <3>1, <3>2, <4>2
        <3> QED BY <2>2, <3>3, <3>4
    <2> QED BY <2>3, <2>4
<1>21. ReplaysFor(c)'
    <2>1. Own(c)' # {}
        BY <1>16
    <2>2. \A j \in Own(c)' : j \in Own(c) \/ \E m \in 1 .. K : j = N + m
        BY <1>5, <1>11
    <2> QED BY <1>19, <1>20, <2>1, <2>2 DEF ReplaysFor
<1> QED BY <1>14, <1>21, ReplaysJoin

LEMMA ReplayStep ==
    ASSUME TypeInv, HeldRowsAreCurrent, LedgerReplays, [Next]_vars
    PROVE  LedgerReplays'
<1>1. CASE UNCHANGED <<balance, ledger>>
    BY <1>1 DEF LedgerReplays, ReplaysFor, Own, Neighbours
<1>2. ASSUME NEW p \in Procs, Works(p) PROVE LedgerReplays'
    <2>1. CASE \E es : Posts(p, es)
        BY <2>1, ReplayPosts
    <2>2. CASE Rests(p) \/ Sums(p) \/ LocksSome(p) \/ Selects(p) \/ DeductExpired(p)
        <3>1. UNCHANGED <<balance, ledger>>
            BY <2>2 DEF Rests, Sums, LocksSome, Locks, Selects, DeductExpired, GotoWith,
                        Moves, dbVars
        <3> QED BY <1>1, <3>1
    <2> QED BY <1>2, <2>1, <2>2 DEF Works
<1> QED BY <1>1, <1>2, NextWorks

LEMMA ReplayInit == Init => LedgerReplays
BY DEF Init, LedgerReplays, ReplaysFor, Own

(* Whoever credits, corrects, redeems and expires at once, and whatever is *)
(* rolled back, a client's entries replayed from zero end at the client's  *)
(* balance, and each of them shows the balance after it.                   *)
THEOREM ReplayCorrect == Spec => []BalanceReplaysLedger
<1>1. TypeInv /\ HeldRowsAreCurrent /\ LedgerReplays /\ [Next]_vars => LedgerReplays'
    BY ReplayStep
<1>2. TypeInv /\ LedgerReplays => BalanceReplaysLedger
    BY ReplaysMeans
<1> QED BY <1>1, <1>2, ReplayInit, TypeInvariance, RowLocksCorrect, PTL DEF Spec

-----------------------------------------------------------------------------
(***************************************************************************)
(* A ticket is credited once.  Two photos of one ticket have one           *)
(* fingerprint, and the entry of a credit is the only one with a photo.    *)
(***************************************************************************)
LEMMA DatesAgree ==
    ASSUME NEW x \in Extracts, NEW y \in Extracts, SameDate(x.date, y.date)
    PROVE  NormalizeDate(x.date) = NormalizeDate(y.date)
<1> DEFINE d == x.date
           e == y.date
<1>1. CASE d = e
    BY <1>1
<1>2. CASE d # e
    <2>1. /\ NoText \notin {d, e} /\ d.value = e.value
          /\ {d.form, e.form} \subseteq DateLayouts
        BY <1>2 DEF SameDate
    <2>2. d = [value |-> d.value, form |-> d.form] /\ e = [value |-> e.value, form |-> e.form]
        BY <2>1, ExtractAssumption
    <2>3. \A v, f : [[value |-> v, form |-> f] EXCEPT !.form = "iso"] = [value |-> v, form |-> "iso"]
        OBVIOUS
    <2>4. /\ [d EXCEPT !.form = "iso"] = [value |-> d.value, form |-> "iso"]
          /\ [e EXCEPT !.form = "iso"] = [value |-> e.value, form |-> "iso"]
        BY <2>2, <2>3
    <2> QED BY <2>1, <2>4 DEF NormalizeDate
<1> QED BY <1>1, <1>2

LEMMA FingerprintsAgree ==
    ASSUME NEW x \in Extracts, NEW y \in Extracts, SameTicket(x, y)
    PROVE  Fingerprint(x) = Fingerprint(y) /\ Fingerprint(x) # NoReceipt
<1>1. BusinessOf(x) = BusinessOf(y)
    BY DEF SameTicket, Shown, BusinessOf, NormalizeText
<1>2. NormalizeText(x.folio) = NormalizeText(y.folio)
    BY DEF SameTicket, Shown, NormalizeText
<1>3. NormalizeDate(x.date) = NormalizeDate(y.date)
    BY DatesAgree DEF SameTicket
<1>4. Identified(x) /\ Identified(y) /\ x.total = y.total
    BY DEF SameTicket
<1>5. ComputeFingerprint(x) = ComputeFingerprint(y)
    BY <1>1, <1>2, <1>3, <1>4 DEF ComputeFingerprint
<1>6. ComputeFingerprint(x) # NoReceipt /\ x # NoExtract /\ y # NoExtract
    BY <1>4, ExtractAssumption
<1> QED BY <1>5, <1>6 DEF Fingerprint

(* A photo is posted by a credit only, alone, and is not yet known. *)
LEMMA PostedPhoto ==
    ASSUME TypeInv, NEW p \in Procs, NEW es, Posts(p, es), NEW i \in DOMAIN es,
           es[i].extract # NoExtract
    PROVE  Len(es) = 1 /\ ~DuplicateReceipt(es[i].extract)
<1>1. JobFits(pc[p], job[p]) /\ job[p].client \in Clients
    BY PosterType DEF TypeInv, JobsOK
<1>2. CASE PostsExpired(p, es)
    BY <1>1, <1>2 DEF PostsExpired, JobFits, ExpirationOf
<1>3. ASSUME NEW type \in TransactionTypes, es = <<Entry(p, type)>>
      PROVE  Len(es) = 1 /\ es[i].extract = job[p].extract
    <2>1. PICK e : e = Entry(p, type) /\ e.extract = job[p].extract
        BY <1>1, EntryType
    <2>2. Len(es) = 1 /\ i = 1 /\ es[1] = e
        BY <1>3, <2>1
    <2> QED BY <2>1, <2>2
<1>4. CASE PostsBurn(p, es) \/ PostsAdjustment(p, es)
    <2>1. job[p].extract = NoExtract
        BY <1>1, <1>4 DEF PostsBurn, PostsAdjustment, JobFits, CreditPCs
    <2> QED BY <1>3, <1>4, <2>1 DEF PostsBurn, PostsAdjustment, TransactionTypes
<1>5. CASE PostsEarn(p, es)
    BY <1>3, <1>5 DEF PostsEarn, TransactionTypes
<1> QED BY <1>2, <1>4, <1>5 DEF Posts

LEMMA TicketPosts ==
    ASSUME TypeInv, TicketCreditedOnce, NEW p \in Procs, NEW es, Posts(p, es)
    PROVE  TicketCreditedOnce'
<1>1. PICK N \in Nat, K \in Nat \ {0} :
        /\ N = Len(ledger) /\ K = Len(es)
        /\ DOMAIN ledger = 1 .. N /\ DOMAIN es = 1 .. K /\ DOMAIN ledger' = 1 .. N + K
        /\ \A i \in 1 .. N : ledger'[i] = ledger[i]
        /\ \A i \in 1 .. K : ledger'[N + i] = es[i]
    BY PostedEntries
<1>2. \A i \in DOMAIN ledger' : ledger'[i].extract \in Extracts \cup {NoExtract}
    <2>1. \A i \in DOMAIN ledger' : ledger'[i] \in Transaction
        BY PostedEntries
    <2>2. \A e \in Transaction : e.extract \in Extracts \cup {NoExtract}
        BY DEF Transaction
    <2> QED BY <2>1, <2>2
<1>3. ASSUME NEW i \in DOMAIN ledger', i > N, ledger'[i].extract # NoExtract
      PROVE  i = N + 1 /\ K = 1 /\ ~DuplicateReceipt(ledger'[i].extract)
    <2>1. PICK k \in 1 .. K : i = N + k
        <3>1. i - N \in 1 .. K /\ i = N + (i - N)
            BY <1>1, <1>3
        <3> QED BY <3>1
    <2>2. ledger'[i] = es[k] /\ k \in DOMAIN es
        BY <1>1, <2>1
    <2>3. K = 1 /\ ~DuplicateReceipt(es[k].extract)
        BY <1>1, <1>3, <2>2, PostedPhoto
    <2> QED BY <2>1, <2>2, <2>3
<1>4. ASSUME NEW i \in DOMAIN ledger', NEW j \in DOMAIN ledger',
             NoExtract \notin {ledger'[i].extract, ledger'[j].extract},
             SameTicket(ledger'[i].extract, ledger'[j].extract)
      PROVE  i = j
    <2>1. PICK x \in Extracts, y \in Extracts :
              x = ledger'[i].extract /\ y = ledger'[j].extract
        BY <1>2, <1>4
    <2>2. Fingerprint(x) = Fingerprint(y) /\ Fingerprint(x) # NoReceipt
        BY <1>4, <2>1, FingerprintsAgree
    <2>3. CASE i > N /\ j > N
        BY <1>3, <1>4, <2>3
    <2>4. CASE i > N /\ ~(j > N)
        <3>1. j \in DOMAIN ledger /\ Fingerprint(ledger[j].extract) = Fingerprint(x)
            BY <1>1, <2>1, <2>2, <2>4
        <3>2. DuplicateReceipt(x)
            BY <2>2, <3>1 DEF DuplicateReceipt
        <3> QED BY <1>3, <1>4, <2>1, <2>4, <3>2
    <2>5. CASE ~(i > N) /\ j > N
        <3>1. i \in DOMAIN ledger /\ Fingerprint(ledger[i].extract) = Fingerprint(y)
            BY <1>1, <2>1, <2>2, <2>5
        <3>2. DuplicateReceipt(y)
            BY <2>2, <3>1 DEF DuplicateReceipt
        <3> QED BY <1>3, <1>4, <2>1, <2>5, <3>2
    <2>6. CASE ~(i > N) /\ ~(j > N)
        <3>1. /\ i \in DOMAIN ledger /\ ledger'[i] = ledger[i]
              /\ j \in DOMAIN ledger /\ ledger'[j] = ledger[j]
            BY <1>1, <2>6
        <3> QED BY <1>4, <3>1 DEF TicketCreditedOnce
    <2> QED BY <2>3, <2>4, <2>5, <2>6
<1> QED BY <1>4 DEF TicketCreditedOnce

(* Only a commit of entries changes the ledger. *)
LEMMA LedgerGrows ==
    ASSUME TypeInv, [Next]_vars
    PROVE  UNCHANGED ledger \/ \E p \in Procs : \E es : Posts(p, es)
<1>1. ASSUME NEW p \in Procs, Works(p) PROVE UNCHANGED ledger \/ \E es : Posts(p, es)
    BY <1>1 DEF Works, Rests, Sums, LocksSome, Locks, Selects, DeductExpired, GotoWith,
                Moves, dbVars
<1> QED BY <1>1, NextWorks

LEMMA TicketStep ==
    ASSUME TypeInv, TicketCreditedOnce, [Next]_vars
    PROVE  TicketCreditedOnce'
<1>1. CASE UNCHANGED ledger
    BY <1>1 DEF TicketCreditedOnce
<1> QED BY <1>1, LedgerGrows, TicketPosts

LEMMA TicketInit == Init => TicketCreditedOnce
BY DEF Init, TicketCreditedOnce

(* However often and at how many places at once the photos of a ticket are *)
(* sent, and however they were read, the ticket is credited once.          *)
THEOREM TicketCorrect == Spec => []TicketCreditedOnce
<1>1. TypeInv /\ TicketCreditedOnce /\ [Next]_vars => TicketCreditedOnce'
    BY TicketStep
<1> QED BY <1>1, TicketInit, TypeInvariance, PTL DEF Spec

-----------------------------------------------------------------------------
(***************************************************************************)
(* Expirations.  What a transaction expires, what it has posted and what   *)
(* it has still to do, had not been expired in the ledger its SELECT saw.  *)
(***************************************************************************)
Doing(j) == j.todo \cup {j.posted[i].ref : i \in DOMAIN j.posted}

ExpireFits(j) ==
    /\ j.seen <= Len(ledger)
    /\ \A i \in DOMAIN ledger :
        ledger[i].type = "expiration" /\ ledger[i].ref \in Doing(j) => i > j.seen

ExpireInv ==
    \A p \in Procs : pc[p] \in {"deductExpired", "commitExpired"} => ExpireFits(job[p])

LEMMA ExpireJoin ==
    ASSUME TypeInv, NEW p \in Procs, NEW s, NEW j,
           pc' = [pc EXCEPT ![p] = s], job' = [job EXCEPT ![p] = j],
           s \in {"deductExpired", "commitExpired"} => ExpireFits(j)',
           \A q \in Procs \ {p} :
               pc[q] \in {"deductExpired", "commitExpired"} => ExpireFits(job[q])'
    PROVE  ExpireInv'
BY DEF TypeInv, TypeOK, ExpireInv

LEMMA ExpireMoves ==
    ASSUME TypeInv, ExpireInv, NEW p \in Procs, NEW s, NEW j, Moves(p, s, j),
           s \in {"deductExpired", "commitExpired"} => ExpireFits(j)
    PROVE  ExpireInv'
<1>1. UNCHANGED ledger /\ pc' = [pc EXCEPT ![p] = s] /\ job' = [job EXCEPT ![p] = j]
    BY DEF Moves
<1>2. pc \in [Procs -> PCs] /\ job \in [Procs -> Job]
    BY DEF TypeInv, TypeOK
<1>3. ASSUME NEW q \in Procs, pc'[q] \in {"deductExpired", "commitExpired"}
      PROVE  ExpireFits(job[q])'
    <2>1. CASE q = p
        BY <1>1, <1>2, <1>3, <2>1 DEF ExpireFits, Doing
    <2>2. CASE q # p
        <3>1. ExpireFits(job[q]) /\ job'[q] = job[q]
            BY <1>1, <1>2, <1>3, <2>2 DEF ExpireInv
        <3> QED BY <1>1, <3>1 DEF ExpireFits, Doing
    <2> QED BY <2>1, <2>2
<1> QED BY <1>3 DEF ExpireInv

LEMMA ExpirePosts ==
    ASSUME TypeInv, ExpireInv, NEW p \in Procs, NEW es, Posts(p, es)
    PROVE  ExpireInv'
<1>1. pc' = [pc EXCEPT ![p] = "idle"] /\ job' = [job EXCEPT ![p] = NoJob]
    BY DEF Posts, Finish
<1>2. pc \in [Procs -> PCs] /\ job \in [Procs -> Job]
    BY DEF TypeInv, TypeOK
<1>3. PICK N \in Nat, K \in Nat \ {0} :
        /\ N = Len(ledger) /\ DOMAIN ledger = 1 .. N
        /\ Len(ledger') = N + K /\ DOMAIN ledger' = 1 .. N + K
        /\ \A i \in 1 .. N : ledger'[i] = ledger[i]
    BY PostedEntries
<1>4. ASSUME NEW q \in Procs, pc'[q] \in {"deductExpired", "commitExpired"}
      PROVE  ExpireFits(job[q])'
    <2>1. q # p /\ pc'[q] = pc[q] /\ job'[q] = job[q]
        BY <1>1, <1>2, <1>4
    <2>2. ExpireFits(job[q]) /\ job[q].seen \in Nat
        BY <1>2, <1>4, <2>1 DEF ExpireInv, Job
    <2>3. PICK n, D : n \in Nat /\ n = job[q].seen /\ D = Doing(job[q])
        BY <2>2
    <2>4. n <= N /\ \A i \in 1 .. N : ledger[i].type = "expiration" /\ ledger[i].ref \in D => i > n
        BY <1>3, <2>2, <2>3 DEF ExpireFits
    <2>5. \A i \in 1 .. N + K : ledger'[i].type = "expiration" /\ ledger'[i].ref \in D => i > n
        <3>1. \A i \in 1 .. N + K : i \in 1 .. N \/ i > n
            BY <2>3, <2>4
        <3> QED BY <1>3, <2>4, <3>1
    <2>6. Doing(job[q])' = D /\ job'[q].seen = n /\ n <= N + K
        BY <2>1, <2>3, <2>4 DEF Doing
    <2> QED BY <1>3, <2>5, <2>6 DEF ExpireFits
<1> QED BY <1>4 DEF ExpireInv

LEMMA ExpireSelects ==
    ASSUME TypeInv, ExpireInv, NEW p \in Procs, Selects(p)
    PROVE  ExpireInv'
<1>1. PICK j : /\ j = [job[p] EXCEPT !.todo = Due(p), !.day = today, !.seen = Len(ledger)]
               /\ Moves(p, "deductExpired", j)
    BY DEF Selects
<1>2. job[p] \in Job /\ job[p].posted = <<>> /\ Len(ledger) \in Nat
    BY DEF Selects, TypeInv, TypeOK, JobsOK, JobFits
<1>3. j.todo = Due(p) /\ j.seen = Len(ledger) /\ j.posted = <<>>
    BY <1>1, <1>2 DEF Job
<1>4. Doing(j) = Due(p)
    BY <1>3 DEF Doing
<1>5. ExpireFits(j)
    BY <1>2, <1>3, <1>4 DEF ExpireFits, Due, Expired
<1> QED BY <1>1, <1>5, ExpireMoves

LEMMA ExpireDeducts ==
    ASSUME TypeInv, ExpireInv, NEW p \in Procs, DeductExpired(p)
    PROVE  ExpireInv'
<1>1. PICK i \in job[p].todo, rest \in Nat, e \in Transaction,
           s \in {"deductExpired", "commitExpired"} :
        /\ e.ref = i
        /\ \E j \in Job : Deducted(p, i, rest, e, j) /\ GotoWith(p, s, j)
    BY DeductExpiredSteps
<1>2. PICK j \in Job : Deducted(p, i, rest, e, j) /\ GotoWith(p, s, j)
    BY <1>1
<1>3. PICK es \in Seq(Transaction) : es = job[p].posted
    BY DEF TypeInv, TypeOK, Job
<1>4. /\ j.todo \subseteq job[p].todo /\ j.posted = Append(es, e)
      /\ j.seen = job[p].seen
    BY <1>2, <1>3 DEF Deducted
<1>5. Doing(j) \subseteq Doing(job[p])
    <2>1. ASSUME NEW k \in DOMAIN j.posted PROVE j.posted[k].ref \in Doing(job[p])
        <3>1. CASE k \in DOMAIN es
            <4>1. j.posted[k] = es[k]
                BY <1>4, <3>1
            <4> QED BY <1>3, <3>1, <4>1 DEF Doing
        <3>2. CASE k \notin DOMAIN es
            <4>1. j.posted[k] = e
                BY <1>4, <2>1, <3>2
            <4> QED BY <1>1, <4>1 DEF Doing
        <3> QED BY <3>1, <3>2
    <2> QED BY <1>4, <2>1 DEF Doing
<1>6. ExpireFits(job[p])
    BY DEF ExpireInv, DeductExpired
<1>7. ExpireFits(j)
    BY <1>4, <1>5, <1>6 DEF ExpireFits
<1> QED BY <1>2, <1>7, GotoMoves, ExpireMoves

LEMMA ExpireStep ==
    ASSUME TypeInv, ExpireInv, [Next]_vars
    PROVE  ExpireInv'
<1>1. CASE UNCHANGED <<balance, ledger, pc, job>>
    BY <1>1 DEF ExpireInv, ExpireFits, Doing
<1>2. ASSUME NEW p \in Procs, Works(p) PROVE ExpireInv'
    <2>1. CASE Rests(p)
        BY <2>1, ExpireMoves DEF Rests, RestPCs
    <2>2. CASE Sums(p)
        BY <2>2, ExpireMoves DEF Sums
    <2>3. CASE LocksSome(p)
        BY <2>3, ExpireMoves DEF LocksSome, Locks
    <2> QED BY <1>2, <2>1, <2>2, <2>3, ExpireSelects, ExpireDeducts, ExpirePosts DEF Works
<1> QED BY <1>1, <1>2, NextWorks

LEMMA ExpireInit == Init => ExpireInv
BY DEF Init, ExpireInv

(* A credit is expired a second time only by a transaction that began      *)
(* before the first one committed, however many expire it at once.         *)
THEOREM ExpirationCorrect == Spec => ExpiredTwiceOnlyByOverlap
<1> DEFINE NotSeen ==
        \A p \in Procs : pc[p] = "commitExpired" /\ ledger' # ledger =>
            \A i \in DOMAIN job[p].posted, j \in DOMAIN ledger :
                (/\ ledger[j].type = "expiration"
                 /\ ledger[j].ref = job[p].posted[i].ref) => j > job[p].seen
<1>1. TypeInv /\ ExpireInv /\ [Next]_vars => ExpireInv'
    BY ExpireStep
<1>2. ExpireInv => NotSeen
    BY DEF ExpireInv, ExpireFits, Doing
<1>3. ExpireInv => [NotSeen]_vars
    BY <1>2
<1> QED BY <1>1, <1>3, ExpireInit, TypeInvariance, PTL DEF Spec, ExpiredTwiceOnlyByOverlap

-----------------------------------------------------------------------------
(***************************************************************************)
(* The cap per period.  A credit on its way is positive, and with what its *)
(* SELECT has seen it is within the cap.                                   *)
(***************************************************************************)
CreditedBefore(j) == {i \in DOMAIN ledger : /\ i <= j.seen
                                            /\ Is(i, "earn", j.client)
                                            /\ ledger[i].day >= j.day - j.window}

CapFits(j) ==
    /\ j.seen <= Len(ledger)
    /\ j.cap # None => AmountOf(ledger, CreditedBefore(j)) + j.amount <= j.cap

CapInv ==
    \A p \in Procs :
        /\ pc[p] \in CreditPCs => job[p].amount > 0
        /\ pc[p] \in {"upsertBalance", "insertEarn"} => CapFits(job[p])

LEMMA CapMoves ==
    ASSUME TypeInv, CapInv, NEW p \in Procs, NEW s, NEW j, Moves(p, s, j),
           s \in CreditPCs => j.amount > 0,
           s \in {"upsertBalance", "insertEarn"} => CapFits(j)
    PROVE  CapInv'
<1>1. UNCHANGED ledger /\ pc' = [pc EXCEPT ![p] = s] /\ job' = [job EXCEPT ![p] = j]
    BY DEF Moves
<1>2. pc \in [Procs -> PCs] /\ job \in [Procs -> Job]
    BY DEF TypeInv, TypeOK
<1>3. ASSUME NEW q \in Procs
      PROVE  /\ pc'[q] \in CreditPCs => job'[q].amount > 0
             /\ pc'[q] \in {"upsertBalance", "insertEarn"} => CapFits(job[q])'
    <2>1. CASE q = p
        BY <1>1, <1>2, <2>1 DEF CapFits, CreditedBefore, Is
    <2>2. CASE q # p
        <3>1. job'[q] = job[q] /\ pc'[q] = pc[q]
            BY <1>1, <1>2, <2>2
        <3> QED BY <1>1, <3>1 DEF CapInv, CapFits, CreditedBefore, Is
    <2> QED BY <2>1, <2>2
<1> QED BY <1>3 DEF CapInv

(* Later commits leave alone what the SELECT has seen. *)
LEMMA CreditedBeforeStays ==
    ASSUME TypeInv, NEW p \in Procs, NEW es, Posts(p, es), NEW j \in Job, j.seen <= Len(ledger)
    PROVE  /\ CreditedBefore(j)' = CreditedBefore(j)
           /\ AmountOf(ledger', CreditedBefore(j)) = AmountOf(ledger, CreditedBefore(j))
           /\ Len(ledger) <= Len(ledger')
<1>1. PICK N \in Nat, K \in Nat \ {0} :
        /\ N = Len(ledger) /\ DOMAIN ledger = 1 .. N
        /\ Len(ledger') = N + K /\ DOMAIN ledger' = 1 .. N + K
        /\ \A i \in 1 .. N : ledger'[i] = ledger[i]
    BY PostedEntries
<1>2. PICK n \in Nat : n = j.seen /\ n <= N
    BY <1>1 DEF Job
<1>3. \A i \in 1 .. N + K : i <= n => i \in 1 .. N
    BY <1>2
<1>4. 1 .. N \subseteq 1 .. N + K
    OBVIOUS
<1>5. CreditedBefore(j)' = CreditedBefore(j)
    BY <1>1, <1>2, <1>3, <1>4 DEF CreditedBefore, Is
<1>6. CreditedBefore(j) \in SUBSET DOMAIN ledger
    BY DEF CreditedBefore
<1>7. IsFiniteSet(CreditedBefore(j))
    BY <1>6, CreditedType
<1>8. \A i \in CreditedBefore(j) : ledger'[i].amount = ledger[i].amount
    BY <1>1, <1>6
<1> QED BY <1>1, <1>5, <1>7, <1>8, SumSame

LEMMA CapPosts ==
    ASSUME TypeInv, CapInv, NEW p \in Procs, NEW es, Posts(p, es)
    PROVE  CapInv'
<1>1. pc' = [pc EXCEPT ![p] = "idle"] /\ job' = [job EXCEPT ![p] = NoJob]
    BY DEF Posts, Finish
<1>2. pc \in [Procs -> PCs] /\ job \in [Procs -> Job]
    BY DEF TypeInv, TypeOK
<1>3. ASSUME NEW q \in Procs
      PROVE  /\ pc'[q] \in CreditPCs => job'[q].amount > 0
             /\ pc'[q] \in {"upsertBalance", "insertEarn"} => CapFits(job[q])'
    <2>1. CASE q = p
        BY <1>1, <1>2, <2>1 DEF CreditPCs
    <2>2. CASE q # p
        <3>1. job'[q] = job[q] /\ pc'[q] = pc[q]
            BY <1>1, <1>2, <2>2
        <3>2. ASSUME pc[q] \in {"upsertBalance", "insertEarn"} PROVE CapFits(job[q])'
            <4>1. PICK j \in Job : j = job[q]
                BY <1>2
            <4>2. CapFits(j)
                BY <3>2, <4>1 DEF CapInv
            <4>3. PICK n \in Nat : n = j.seen
                BY DEF Job
            <4>4. /\ CreditedBefore(j)' = CreditedBefore(j)
                  /\ AmountOf(ledger', CreditedBefore(j)) = AmountOf(ledger, CreditedBefore(j))
                  /\ Len(ledger) <= Len(ledger')
                BY <4>2, CreditedBeforeStays DEF CapFits
            <4>5. n <= Len(ledger')
                <5>1. Len(ledger) \in Nat /\ Len(ledger') \in Nat
                    BY PostedEntries
                <5> QED BY <4>2, <4>3, <4>4, <5>1 DEF CapFits
            <4>6. CapFits(j)'
                BY <4>2, <4>3, <4>4, <4>5 DEF CapFits
            <4> QED BY <3>1, <4>1, <4>6 DEF CapFits, CreditedBefore
        <3> QED BY <3>1, <3>2 DEF CapInv
    <2> QED BY <2>1, <2>2
<1> QED BY <1>3 DEF CapInv

LEMMA CapSums ==
    ASSUME TypeInv, CapInv, NEW p \in Procs, Sums(p)
    PROVE  CapInv'
<1>1. PICK a, j :
        /\ a \in Int
        /\ j = [job[p] EXCEPT !.day = today, !.seen = Len(ledger), !.amount = a]
        /\ Moves(p, "upsertBalance", j)
        /\ job[p].cap # None => AmountOf(ledger, Window(p)) + a <= job[p].cap
        /\ job[p].amount > 0 => a > 0
        /\ pc[p] = "sumWindow"
    BY DEF Sums
<1>2. job[p] \in Job /\ Len(ledger) \in Nat /\ DOMAIN ledger = 1 .. Len(ledger)
    BY DEF TypeInv, TypeOK
<1>3. /\ j.day = today /\ j.seen = Len(ledger) /\ j.amount = a
      /\ j.client = job[p].client /\ j.window = job[p].window /\ j.cap = job[p].cap
    BY <1>1, <1>2 DEF Job
<1>4. CreditedBefore(j) = Window(p)
    BY <1>2, <1>3 DEF CreditedBefore, Window, Is
<1>5. CapFits(j)
    BY <1>1, <1>2, <1>3, <1>4 DEF CapFits
<1>6. j.amount > 0
    BY <1>1, <1>3 DEF CapInv, CreditPCs
<1> QED BY <1>1, <1>5, <1>6, CapMoves

LEMMA CapLocks ==
    ASSUME TypeInv, CapInv, NEW p \in Procs, LocksSome(p)
    PROVE  CapInv'
<1>1. CASE pc[p] = "upsertBalance" /\ Locks(p, "insertEarn")
    <2>1. PICK n, j : /\ n \in Nat /\ j = [job[p] EXCEPT !.newBalance = n]
                      /\ Moves(p, "insertEarn", j)
        BY <1>1 DEF Locks
    <2>2. job[p] \in Job
        BY DEF TypeInv, TypeOK
    <2>3. /\ j.client = job[p].client /\ j.amount = job[p].amount
          /\ j.cap = job[p].cap /\ j.window = job[p].window
          /\ j.day = job[p].day /\ j.seen = job[p].seen
        BY <2>1, <2>2 DEF Job
    <2>4. CapFits(job[p]) /\ job[p].amount > 0
        BY <1>1 DEF CapInv, CreditPCs
    <2>5. CreditedBefore(j) = CreditedBefore(job[p])
        BY <2>3 DEF CreditedBefore
    <2>6. CapFits(j) /\ j.amount > 0
        BY <2>3, <2>4, <2>5 DEF CapFits
    <2> QED BY <2>1, <2>6, CapMoves
<1>2. CASE Locks(p, "insertAdjustment") \/ Locks(p, "insertRedemption")
    <2>1. PICK s \in {"insertAdjustment", "insertRedemption"} : Locks(p, s)
        BY <1>2
    <2>2. PICK n \in Nat : Moves(p, s, [job[p] EXCEPT !.newBalance = n])
        BY <2>1 DEF Locks
    <2>3. PICK j : j = [job[p] EXCEPT !.newBalance = n]
        OBVIOUS
    <2>4. Moves(p, s, j)
        BY <2>2, <2>3
    <2> QED BY <2>1, <2>4, CapMoves DEF CreditPCs
<1> QED BY <1>1, <1>2 DEF LocksSome

LEMMA CapStep ==
    ASSUME TypeInv, CapInv, [Next]_vars
    PROVE  CapInv'
<1>1. CASE UNCHANGED <<balance, ledger, pc, job>>
    BY <1>1 DEF CapInv, CapFits, CreditedBefore, Is
<1>2. ASSUME NEW p \in Procs, Works(p) PROVE CapInv'
    <2>1. CASE Rests(p)
        BY <2>1, CapMoves DEF Rests, RestPCs, CreditPCs
    <2>2. CASE Selects(p)
        BY <2>2, CapMoves DEF Selects, CreditPCs
    <2>3. CASE DeductExpired(p)
        <3>1. PICK s, j : s \in {"deductExpired", "commitExpired"} /\ GotoWith(p, s, j)
            BY <2>3, DeductExpiredSteps
        <3>2. Moves(p, s, j)
            BY <3>1, GotoMoves
        <3> QED BY <3>1, <3>2, CapMoves DEF CreditPCs
    <2> QED BY <1>2, <2>1, <2>2, <2>3, CapSums, CapLocks, CapPosts DEF Works
<1> QED BY <1>1, <1>2, NextWorks

LEMMA CapInit == Init => CapInv
BY DEF Init, CapInv, CreditPCs

(* The commit of a credit that did not overlap with another of its client. *)
LEMMA CapCommit ==
    ASSUME TypeInv, HeldRowsAreCurrent, CapInv, [Next]_vars,
           NEW p \in Procs, CreditsAlone(p), job[p].cap # None
    PROVE  Credited(ledger', job[p].client, job[p].day, job[p].window) <= job[p].cap
<1>1. PICK j \in Job : j = job[p]
    BY DEF TypeInv, TypeOK
<1>2. /\ pc[p] = "insertEarn" /\ Len(ledger') > Len(ledger)
      /\ \A i \in DOMAIN ledger : Is(i, "earn", j.client) => i <= j.seen
    BY <1>1 DEF CreditsAlone
<1>3. PICK amount \in Nat, window \in Nat, day \in Nat, cap \in Nat :
        amount = j.amount /\ window = j.window /\ day = j.day /\ cap = j.cap
    <2>1. j.amount > 0
        BY <1>1, <1>2 DEF CapInv, CreditPCs
    <2> QED BY <1>1, <2>1 DEF Job
<1>4. PICK q, es : q \in Procs /\ Posts(q, es)
    <2>1. ~UNCHANGED ledger
        <3>1. Len(ledger) \in Nat
            BY DEF TypeInv, TypeOK
        <3> QED BY <1>2, <3>1
    <2> QED BY <2>1, LedgerGrows
<1>5. CapFits(j)
    BY <1>1, <1>2 DEF CapInv
<1>6. PICK N \in Nat, K \in Nat \ {0} :
        /\ N = Len(ledger) /\ K = Len(es)
        /\ DOMAIN ledger = 1 .. N /\ DOMAIN es = 1 .. K /\ DOMAIN ledger' = 1 .. N + K
        /\ \A i \in 1 .. N : ledger'[i] = ledger[i]
        /\ \A i \in 1 .. K : ledger'[N + i] = es[i]
    BY <1>4, PostedEntries
<1> DEFINE B == CreditedBefore(j)
           S == {i \in DOMAIN ledger' : /\ ledger'[i].type = "earn"
                                        /\ ledger'[i].client = j.client
                                        /\ ledger'[i].day >= day - window}
<1>7. /\ AmountOf(ledger', B) = AmountOf(ledger, B)
      /\ AmountOf(ledger, B) \in Int /\ AmountOf(ledger, B) + amount <= cap
    <2>1. B \in SUBSET DOMAIN ledger
        BY DEF CreditedBefore
    <2>2. AmountOf(ledger, B) \in Int
        BY <2>1, CreditedType
    <2> HIDE DEF B
    <2>3. AmountOf(ledger', B) = AmountOf(ledger, B)
        BY <1>4, <1>5, CreditedBeforeStays DEF CapFits, B
    <2> QED BY <1>1, <1>3, <1>5, <2>2, <2>3 DEF CapFits, B
<1>8. \A i \in 1 .. N : i \in S <=> i \in B
    <2>1. \A i \in 1 .. N : i \in 1 .. N + K
        OBVIOUS
    <2> QED BY <1>2, <1>3, <1>6, <2>1 DEF CreditedBefore, Is
<1>9. B \subseteq 1 .. N /\ S \subseteq 1 .. N + K
    BY <1>6 DEF CreditedBefore
<1>10. Credited(ledger', job[p].client, job[p].day, job[p].window) = AmountOf(ledger', S)
    BY <1>1, <1>3 DEF Credited
<1>11. \A i \in 1 .. N + K : i \in 1 .. N \/ \E k \in 1 .. K : i = N + k
    <2>1. \A i \in 1 .. N + K : i > N => i - N \in 1 .. K /\ i = N + (i - N)
        OBVIOUS
    <2> QED BY <2>1
<1>12. CASE q = p
    <2>1. PostsEarn(p, es)
        BY <1>2, <1>4, <1>12 DEF Posts, PostsEarn, PostsBurn, PostsAdjustment, PostsExpired
    <2>2. PICK e : e = Entry(p, "earn") /\ es = <<e>>
        BY <2>1 DEF PostsEarn
    <2>3. /\ e.type = "earn" /\ e.client = j.client /\ e.amount = amount /\ e.day = day
        BY <1>1, <1>3, <1>4, <1>12, <2>2, PosterType, EntryType DEF TransactionTypes
    <2>4. K = 1 /\ ledger'[N + 1] = e
        BY <1>6, <2>2
    <2>5. N + 1 \in S /\ N + 1 \notin B
        BY <1>3, <1>6, <1>9, <2>3, <2>4
    <2>6. S \ {N + 1} = B
        BY <1>8, <1>9, <1>11, <2>4, <2>5
    <2>7. IsFiniteSet(S) /\ \A i \in S : ledger'[i].amount \in Int
        <3>1. IsFiniteSet(1 .. N + K)
            BY FS_Interval
        <3>2. IsFiniteSet(S)
            BY <1>9, <3>1, FS_Subset
        <3>3. \A i \in DOMAIN ledger' : ledger'[i] \in Transaction
            BY <1>4, PostedEntries
        <3>4. \A x \in Transaction : x.amount \in Int
            BY DEF Transaction
        <3> QED BY <3>2, <3>3, <3>4
    <2> HIDE DEF S, B
    <2>8. AmountOf(ledger', S) = ledger'[N + 1].amount + AmountOf(ledger', S \ {N + 1})
        BY <2>5, <2>7, SumElement
    <2>9. AmountOf(ledger', S) = amount + AmountOf(ledger, B)
        BY <1>7, <2>3, <2>4, <2>6, <2>8
    <2> QED BY <1>1, <1>3, <1>7, <1>10, <2>9
<1>13. CASE q # p
    <2>1. PICK c \in Clients : c = j.client
        <3>1. JobFits(pc[p], job[p])
            BY DEF TypeInv, JobsOK
        <3> QED BY <1>1, <1>2, <3>1 DEF JobFits, BalancePCs, CreditPCs
    <2>2. HoldsBalance(p, c)
        BY <1>1, <1>2, <2>1 DEF HoldsBalance
    <2>3. job[q].client # c
        BY <1>4, <1>13, <2>2, PosterType, HeldSplit DEF Current
    <2>4. \A i \in DOMAIN es : es[i].client = job[q].client
        BY <1>4, PostedChain
    <2>5. \A k \in 1 .. K : N + k \notin S
        BY <1>6, <2>1, <2>3, <2>4
    <2>6. S = B
        BY <1>8, <1>9, <1>11, <2>5
    <2> HIDE DEF S, B
    <2> QED BY <1>1, <1>3, <1>7, <1>10, <2>6
<1> QED BY <1>12, <1>13

(* Every credit with a cap per period that did not overlap with another of *)
(* its client leaves the period's total within the cap, whatever was       *)
(* credited, corrected, expired and changed before.                        *)
THEOREM PeriodCapCorrect == Spec => PeriodCapHolds
<1> DEFINE Within ==
        \A p \in Procs : (CreditsAlone(p) /\ job[p].cap # None) =>
            Credited(ledger', job[p].client, job[p].day, job[p].window) <= job[p].cap
<1>1. TypeInv /\ CapInv /\ [Next]_vars => CapInv'
    BY CapStep
<1>2. TypeInv /\ HeldRowsAreCurrent /\ CapInv /\ [Next]_vars => Within
    BY CapCommit
<1>3. TypeInv /\ HeldRowsAreCurrent /\ CapInv /\ [Next]_vars => [Within]_vars
    BY <1>2
<1> QED
    BY <1>1, <1>3, CapInit, TypeInvariance, RowLocksCorrect, PTL DEF Spec, PeriodCapHolds

-----------------------------------------------------------------------------
(***************************************************************************)
(* Redemptions.  A handler that has reserved a unit holds the row of the   *)
(* reward, so the count it will write is the next one; and a step redeems, *)
(* which writes a redemption, its entry and the count, or keeps them all.  *)
(***************************************************************************)
StockPCs == {"deductBalance", "insertRedemption"}

HeldRewards ==
    \A p \in Procs, r \in Rewards : HoldsReward(p, r) =>
        /\ \A q \in Procs \ {p} : ~HoldsReward(q, r)
        /\ InStock(r) /\ job[p].newCount = reward[r].count + 1

Becomes(p, s, j) == pc' = [pc EXCEPT ![p] = s] /\ job' = [job EXCEPT ![p] = j]

(* A handler without a unit begins, ends or goes on; what it had is back. *)
GoesOn(p) == \E s : s \notin StockPCs /\ \E j : Becomes(p, s, j)

Reserves(p) ==
    \E n \in Nat, d \in Nat :
        /\ ~RewardLocked(job[p].reward) /\ InStock(job[p].reward)
        /\ n = reward[job[p].reward].count + 1
        /\ job[p].reward \in Rewards
        /\ Becomes(p, "deductBalance", [job[p] EXCEPT !.newCount = n, !.day = d])

Deducts(p) ==
    /\ pc[p] = "deductBalance"
    /\ \E n \in Nat : Becomes(p, "insertRedemption", [job[p] EXCEPT !.newBalance = n])

Redeems(p, k, r) ==
    /\ HoldsReward(p, r)
    /\ k = job[p].code /\ redemption[k] = NoRedemption
    /\ \E es : PostsBurn(p, es) /\ Posts(p, es)
    /\ reward' = [reward EXCEPT ![r].count = job[p].newCount]
    /\ redemption' = [redemption EXCEPT ![k] =
          [status |-> "pending", client |-> job[p].client, reward |-> r,
           amount |-> -job[p].amount, by |-> Nil]]
    /\ GoesOn(p)

(* What is redeemed stays redeemed, and accounted for by the same entries. *)
RedemptionsKept ==
    \A k \in Codes :
        /\ redemption'[k] = NoRedemption <=> redemption[k] = NoRedemption
        /\ redemption'[k].client = redemption[k].client
        /\ redemption'[k].reward = redemption[k].reward
        /\ redemption'[k].amount = redemption[k].amount

BurnsKept ==
    \A k \in Codes : /\ BurnsOf(k)' = BurnsOf(k)
                     /\ \A i \in BurnsOf(k) : ledger'[i] = ledger[i]

Keeps == UNCHANGED reward /\ RedemptionsKept /\ BurnsKept

LEMMA SameKeeps ==
    ASSUME UNCHANGED <<reward, redemption, ledger>>
    PROVE  Keeps
BY DEF Keeps, RedemptionsKept, BurnsKept, BurnsOf

LEMMA ConfirmKeeps ==
    ASSUME TypeInv, NEW p \in Procs, MarkConfirmed(p)
    PROVE  Keeps
<1>1. PICK l, w : l = job[p].code /\ w = job[p].collaborator
    OBVIOUS
<1>2. redemption \in [Codes -> Redemption \cup {NoRedemption}]
    BY DEF TypeInv, TypeOK
<1>3. SetConfirmedIfPending(l, w) /\ UNCHANGED <<reward, ledger>>
    BY <1>1 DEF MarkConfirmed
<1>4. ASSUME NEW k \in Codes, redemption'[k] # redemption[k]
      PROVE  /\ redemption[k] # NoRedemption /\ redemption'[k] # NoRedemption
             /\ redemption'[k].client = redemption[k].client
             /\ redemption'[k].reward = redemption[k].reward
             /\ redemption'[k].amount = redemption[k].amount
    <2>1. /\ redemption[k].status = "pending"
          /\ redemption'[k] = [redemption[k] EXCEPT !.status = "confirmed", !.by = w]
        BY <1>2, <1>3, <1>4 DEF SetConfirmedIfPending
    <2>2. redemption[k] # NoRedemption
        BY <2>1 DEF NoRedemption
    <2>3. redemption[k] \in Redemption
        BY <1>2, <2>2
    <2>4. /\ redemption'[k].status = "confirmed"
          /\ redemption'[k].client = redemption[k].client
          /\ redemption'[k].reward = redemption[k].reward
          /\ redemption'[k].amount = redemption[k].amount
        BY <2>1, <2>3 DEF Redemption
    <2>5. redemption'[k] # NoRedemption
        BY <2>4 DEF NoRedemption
    <2> QED BY <2>2, <2>4, <2>5
<1>5. RedemptionsKept
    BY <1>4 DEF RedemptionsKept
<1>6. BurnsKept
    BY <1>3 DEF BurnsKept, BurnsOf
<1> QED BY <1>3, <1>5, <1>6 DEF Keeps

(* The other entries are no burns. *)
LEMMA PostsKeep ==
    ASSUME TypeInv, NEW p \in Procs, NEW es, Posts(p, es), ~PostsBurn(p, es)
    PROVE  BurnsKept
<1>1. \A i \in DOMAIN es : es[i].type # "burn"
    <2>1. CASE PostsExpired(p, es)
        <3>1. JobFits(pc[p], job[p])
            BY DEF TypeInv, JobsOK
        <3> QED BY <2>1, <3>1 DEF PostsExpired, JobFits, ExpirationOf
    <2>2. CASE PostsEarn(p, es) \/ PostsAdjustment(p, es)
        <3>1. \/ es = <<Entry(p, "earn")>> \/ es = <<Entry(p, "adjustment")>>
            BY <2>2 DEF PostsEarn, PostsAdjustment
        <3>2. Entry(p, "earn").type # "burn" /\ Entry(p, "adjustment").type # "burn"
            BY DEF Entry
        <3> QED BY <3>1, <3>2
    <2> QED BY <2>1, <2>2 DEF Posts
<1>2. PICK n, m : n = Len(ledger) /\ m = Len(es)
    OBVIOUS
<1>3. /\ n \in Nat /\ m \in Nat
      /\ DOMAIN ledger = 1 .. n /\ DOMAIN es = 1 .. m /\ DOMAIN ledger' = 1 .. n + m
      /\ \A i \in DOMAIN ledger : ledger'[i] = ledger[i]
      /\ \A i \in DOMAIN es : ledger'[n + i] = es[i]
    BY <1>2, PostedEntries
<1>4. ASSUME NEW i \in DOMAIN ledger', i \notin DOMAIN ledger
      PROVE  ledger'[i].type # "burn"
    <2>1. i - n \in DOMAIN es /\ n + (i - n) = i
        BY <1>3, <1>4
    <2> QED BY <1>1, <1>3, <2>1
<1>5. DOMAIN ledger \subseteq DOMAIN ledger'
    BY <1>3
<1>6. ASSUME NEW k \in Codes PROVE BurnsOf(k)' = BurnsOf(k)
    BY <1>3, <1>4, <1>5 DEF BurnsOf
<1> QED BY <1>3, <1>6 DEF BurnsKept, BurnsOf

(* The steps, as the rewards and the redemptions see them. *)
LEMMA RollbackGoesOn ==
    ASSUME NEW p, Rollback(p)
    PROVE  GoesOn(p) /\ Keeps
BY SameKeeps DEF Rollback, Finish, GoesOn, Becomes, StockPCs, dbVars

LEMMA GotoGoesOn ==
    ASSUME NEW p, NEW s, NEW j, s \notin StockPCs, GotoWith(p, s, j)
    PROVE  GoesOn(p) /\ Keeps
BY SameKeeps DEF GotoWith, GoesOn, Becomes, dbVars

LEMMA AcceptGoesOn ==
    ASSUME NEW p \in Procs, Accept(p)
    PROVE  GoesOn(p) /\ Keeps
<1>1. UNCHANGED dbVars
    BY DEF Accept, AddCashback, CheckBalance, RequestRedemption, ConfirmRedemption,
           UpdateCashback
<1>2. \E s : s \notin StockPCs /\ \E j : Begin(p, s, j)
    BY DEF Accept, AddCashback, CheckBalance, RequestRedemption, ConfirmRedemption,
           UpdateCashback, StockPCs
<1> QED BY <1>1, <1>2, SameKeeps DEF Begin, GoesOn, Becomes, dbVars

LEMMA PostsGoesOn ==
    ASSUME TypeInv, NEW p \in Procs, NEW es, Posts(p, es), ~PostsBurn(p, es),
           UNCHANGED <<reward, redemption>>
    PROVE  GoesOn(p) /\ Keeps
<1>1. GoesOn(p)
    BY DEF Posts, Finish, GoesOn, Becomes, StockPCs
<1>2. BurnsKept
    BY PostsKeep
<1> QED BY <1>1, <1>2 DEF Keeps, RedemptionsKept

LEMMA PlainGoesOn ==
    ASSUME TypeInv, NEW p \in Procs,
           \/ SumWindow(p) \/ UpsertBalance(p) \/ SelectExpiring(p) \/ DeductExpired(p)
           \/ CheckCorrectable(p) \/ AdjustBalance(p)
    PROVE  GoesOn(p) /\ Keeps
<1>1. CASE SumWindow(p)
    <2>1. Rollback(p) \/ \E j : GotoWith(p, "upsertBalance", j)
        BY <1>1, SumWindowSteps
    <2> QED BY <2>1, RollbackGoesOn, GotoGoesOn DEF StockPCs
<1>2. CASE SelectExpiring(p)
    <2>1. Rollback(p) \/ \E j : GotoWith(p, "deductExpired", j)
        BY <1>2, SelectExpiringSteps
    <2> QED BY <2>1, RollbackGoesOn, GotoGoesOn DEF StockPCs
<1>3. CASE DeductExpired(p)
    <2>1. PICK s, j : s \in {"deductExpired", "commitExpired"} /\ GotoWith(p, s, j)
        BY <1>3, DeductExpiredSteps
    <2> QED BY <2>1, GotoGoesOn DEF StockPCs
<1>4. CASE UpsertBalance(p)
    <2>1. \E j : GotoWith(p, "insertEarn", j)
        BY <1>4 DEF UpsertBalance, LockBalance
    <2> QED BY <2>1, GotoGoesOn DEF StockPCs
<1>5. CASE AdjustBalance(p)
    <2>1. \E j : GotoWith(p, "insertAdjustment", j)
        BY <1>5 DEF AdjustBalance, LockBalance
    <2> QED BY <2>1, GotoGoesOn DEF StockPCs
<1>6. CASE CheckCorrectable(p)
    <2>1. Rollback(p) \/ \E j : GotoWith(p, "adjustBalance", j)
        BY <1>6 DEF CheckCorrectable
    <2> QED BY <2>1, RollbackGoesOn, GotoGoesOn DEF StockPCs
<1> QED BY <1>1, <1>2, <1>3, <1>4, <1>5, <1>6

LEMMA StockSteps ==
    ASSUME TypeInv, NEW p \in Procs, ReserveStock(p) \/ DeductBalance(p)
    PROVE  Keeps /\ (GoesOn(p) \/ Reserves(p) \/ Deducts(p))
<1>1. CASE Rollback(p)
    BY <1>1, RollbackGoesOn
<1>2. CASE ReserveStock(p) /\ ~Rollback(p)
    <2>1. /\ pc[p] = "reserveStock" /\ ~RewardLocked(job[p].reward) /\ InStock(job[p].reward)
          /\ GotoWith(p, "deductBalance",
                      [job[p] EXCEPT !.newCount = reward[job[p].reward].count + 1, !.day = today])
        BY <1>2 DEF ReserveStock
    <2>2. job[p].reward \in Rewards
        BY <2>1 DEF TypeInv, JobsOK, JobFits, BurnPCs
    <2>3. PICK n \in Nat : n = reward[job[p].reward].count + 1
        BY <2>2 DEF TypeInv, TypeOK, Reward
    <2>4. PICK d \in Nat : d = today
        BY DEF TypeInv, TypeOK
    <2>5. /\ Becomes(p, "deductBalance", [job[p] EXCEPT !.newCount = n, !.day = d])
          /\ UNCHANGED dbVars
        BY <2>1, <2>3, <2>4 DEF GotoWith, Becomes
    <2>6. Reserves(p)
        BY <2>1, <2>2, <2>3, <2>5 DEF Reserves
    <2> QED BY <2>5, <2>6, SameKeeps DEF dbVars
<1>3. CASE DeductBalance(p) /\ ~Rollback(p)
    <2>1. PICK n \in Nat : GotoWith(p, "insertRedemption", [job[p] EXCEPT !.newBalance = n])
        BY <1>3, DeductBalanceSteps
    <2>2. Deducts(p)
        BY <1>3, <2>1 DEF DeductBalance, GotoWith, Becomes, Deducts
    <2>3. UNCHANGED <<reward, redemption, ledger>>
        BY <2>1 DEF GotoWith, dbVars
    <2> QED BY <2>2, <2>3, SameKeeps
<1> QED BY <1>1, <1>2, <1>3

LEMMA RedeemSteps ==
    ASSUME TypeInv, NEW p \in Procs, InsertRedemption(p)
    PROVE  \/ GoesOn(p) /\ Keeps
           \/ \E k \in Codes, r \in Rewards : Redeems(p, k, r)
<1>1. pc[p] = "insertRedemption" /\ JobFits(pc[p], job[p])
    BY DEF InsertRedemption, TypeInv, JobsOK
<1>2. PICK k, r : k = job[p].code /\ r = job[p].reward
    OBVIOUS
<1>3. k \in Codes /\ r \in Rewards
    BY <1>1, <1>2 DEF JobFits, BurnPCs
<1>4. CASE Rollback(p)
    BY <1>4, RollbackGoesOn
<1>5. CASE ~Rollback(p)
    <2>1. /\ redemption[k] = NoRedemption
          /\ CommitEntries(p, <<Entry(p, "burn")>>)
          /\ reward' = [reward EXCEPT ![r].count = job[p].newCount]
          /\ redemption' = [redemption EXCEPT ![k] =
                [status |-> "pending", client |-> job[p].client, reward |-> r,
                 amount |-> -job[p].amount, by |-> Nil]]
          /\ Finish(p)
        BY <1>2, <1>5 DEF InsertRedemption, Rollback
    <2>2. \E es : PostsBurn(p, es) /\ Posts(p, es)
        BY <1>1, <2>1 DEF PostsBurn, Posts
    <2>3. HoldsReward(p, r)
        BY <1>1, <1>2 DEF HoldsReward
    <2>4. GoesOn(p)
        BY <2>1 DEF Finish, GoesOn, Becomes, StockPCs
    <2>5. Redeems(p, k, r)
        BY <1>2, <2>1, <2>2, <2>3, <2>4 DEF Redeems
    <2> QED BY <1>3, <2>5
<1> QED BY <1>4, <1>5

LEMMA StepRedeems ==
    ASSUME TypeInv, NEW p \in Procs, Step(p)
    PROVE  \/ Keeps /\ (GoesOn(p) \/ Reserves(p) \/ Deducts(p))
           \/ \E k \in Codes, r \in Rewards : Redeems(p, k, r)
<1>1. CASE MarkConfirmed(p)
    <2>1. GoesOn(p)
        BY <1>1 DEF MarkConfirmed, Finish, GoesOn, Becomes, StockPCs
    <2> QED BY <1>1, <2>1, ConfirmKeeps
<1>2. CASE InsertEarn(p)
    <2>1. ASSUME NEW es, PostsEarn(p, es), Posts(p, es), UNCHANGED <<reward, redemption>>
          PROVE  GoesOn(p) /\ Keeps
        <3>1. ~PostsBurn(p, es)
            BY <2>1 DEF PostsEarn, PostsBurn
        <3> QED BY <2>1, <3>1, PostsGoesOn
    <2> QED BY <1>2, <2>1, InsertEarnSteps, RollbackGoesOn
<1>3. CASE CommitExpired(p) \/ InsertAdjustment(p)
    <2>1. PICK es : Posts(p, es) /\ (PostsExpired(p, es) \/ PostsAdjustment(p, es))
        BY <1>3, CommitExpiredSteps, InsertAdjustmentSteps
    <2>2. ~PostsBurn(p, es) /\ UNCHANGED <<reward, redemption>>
        BY <1>3, <2>1 DEF PostsExpired, PostsAdjustment, PostsBurn, CommitExpired,
                          InsertAdjustment
    <2> QED BY <2>1, <2>2, PostsGoesOn
<1> QED BY <1>1, <1>2, <1>3, PlainGoesOn, StockSteps, RedeemSteps DEF Step

LEMMA NextRedeems ==
    ASSUME TypeInv, [Next]_vars
    PROVE  \/ Keeps /\ UNCHANGED <<pc, job>>
           \/ \E r \in Rewards : UpdateReward(r)
           \/ \E p \in Procs : Keeps /\ (GoesOn(p) \/ Reserves(p) \/ Deducts(p))
           \/ \E p \in Procs, k \in Codes, r \in Rewards : Redeems(p, k, r)
<1>1. CASE \/ UpdateProgram \/ \E h \in {1, 2, 24} : PassHours(h)
           \/ Quiescent \/ UNCHANGED vars
    <2>1. UNCHANGED <<reward, redemption, ledger, pc, job>>
        BY <1>1 DEF UpdateProgram, PassHours, Quiescent, vars, dbVars
    <2> QED BY <2>1, SameKeeps
<1>2. ASSUME NEW p \in Procs, Accept(p) \/ Abort(p)
      PROVE  Keeps /\ GoesOn(p)
    BY <1>2, AcceptGoesOn, RollbackGoesOn DEF Abort
<1> QED BY <1>1, <1>2, StepRedeems DEF Next

(* The row of a reward is held from the UPDATE to the end. *)
LEMMA BecomesOthers ==
    ASSUME TypeInv, NEW p \in Procs, NEW s, NEW j, Becomes(p, s, j)
    PROVE  /\ pc'[p] = s /\ job'[p] = j
           /\ \A q \in Procs \ {p} : pc'[q] = pc[q] /\ job'[q] = job[q]
BY MovedOthers DEF Becomes

LEMMA RewardsReleased ==
    ASSUME TypeInv, HeldRewards, NEW p \in Procs, GoesOn(p),
           \A r \in Rewards : reward'[r] = reward[r] \/ HoldsReward(p, r)
    PROVE  HeldRewards'
<1>1. PICK s, j : s \notin StockPCs /\ Becomes(p, s, j)
    BY DEF GoesOn
<1>2. /\ pc'[p] \notin StockPCs
      /\ \A q \in Procs \ {p} : pc'[q] = pc[q] /\ job'[q] = job[q]
    BY <1>1, BecomesOthers
<1>3. \A q \in Procs, r \in Rewards : HoldsReward(q, r)' => q # p /\ HoldsReward(q, r)
    BY <1>2 DEF HoldsReward, StockPCs
<1>4. ASSUME NEW q \in Procs, NEW r \in Rewards, HoldsReward(q, r)'
      PROVE  /\ \A o \in Procs \ {q} : ~HoldsReward(o, r)'
             /\ InStock(r)' /\ job'[q].newCount = reward'[r].count + 1
    <2>1. q # p /\ HoldsReward(q, r)
        BY <1>3, <1>4
    <2>2. /\ \A o \in Procs \ {q} : ~HoldsReward(o, r)
          /\ InStock(r) /\ job[q].newCount = reward[r].count + 1
        BY <2>1 DEF HeldRewards
    <2>3. reward'[r] = reward[r] /\ job'[q] = job[q]
        BY <1>2, <2>1, <2>2
    <2> QED BY <1>3, <2>2, <2>3 DEF InStock
<1> QED BY <1>4 DEF HeldRewards

LEMMA RewardsReserved ==
    ASSUME TypeInv, HeldRewards, NEW p \in Procs, Reserves(p), UNCHANGED reward
    PROVE  HeldRewards'
<1>1. PICK r \in Rewards : r = job[p].reward
    BY DEF Reserves
<1>2. PICK n \in Nat, d \in Nat :
        /\ ~RewardLocked(r) /\ InStock(r) /\ n = reward[r].count + 1
        /\ Becomes(p, "deductBalance", [job[p] EXCEPT !.newCount = n, !.day = d])
    BY <1>1 DEF Reserves
<1>3. PICK j : j = [job[p] EXCEPT !.newCount = n, !.day = d]
    OBVIOUS
<1>4. j.newCount = n /\ j.reward = r
    BY <1>1, <1>3 DEF TypeInv, TypeOK, Job
<1>5. /\ pc'[p] = "deductBalance" /\ job'[p] = j
      /\ \A q \in Procs \ {p} : pc'[q] = pc[q] /\ job'[q] = job[q]
    BY <1>2, <1>3, BecomesOthers
<1>6. \A q \in Procs \ {p} : \A o : HoldsReward(q, o)' <=> HoldsReward(q, o)
    BY <1>5 DEF HoldsReward
<1>7. \A o : HoldsReward(p, o)' => o = r
    BY <1>4, <1>5 DEF HoldsReward
<1>8. \A q \in Procs : ~HoldsReward(q, r)
    BY <1>2 DEF RewardLocked
<1>9. ASSUME NEW q \in Procs, NEW o \in Rewards, HoldsReward(q, o)'
      PROVE  /\ \A x \in Procs \ {q} : ~HoldsReward(x, o)'
             /\ InStock(o)' /\ job'[q].newCount = reward'[o].count + 1
    <2>1. CASE q = p
        <3>1. o = r
            BY <1>7, <1>9, <2>1
        <3>2. \A x \in Procs \ {q} : ~HoldsReward(x, o)'
            BY <1>6, <1>8, <2>1, <3>1
        <3> QED BY <1>2, <1>4, <1>5, <2>1, <3>1, <3>2 DEF InStock
    <2>2. CASE q # p
        <3>1. HoldsReward(q, o)
            BY <1>6, <1>9, <2>2
        <3>2. o # r
            BY <1>8, <3>1
        <3>3. /\ \A x \in Procs \ {q} : ~HoldsReward(x, o)
              /\ InStock(o) /\ job[q].newCount = reward[o].count + 1
            BY <3>1 DEF HeldRewards
        <3>4. \A x \in Procs \ {q} : ~HoldsReward(x, o)'
            BY <1>6, <1>7, <3>2, <3>3
        <3> QED BY <1>5, <2>2, <3>3, <3>4 DEF InStock
    <2> QED BY <2>1, <2>2
<1> QED BY <1>9 DEF HeldRewards

LEMMA RewardsDeducted ==
    ASSUME TypeInv, HeldRewards, NEW p \in Procs, Deducts(p), UNCHANGED reward
    PROVE  HeldRewards'
<1>1. PICK n \in Nat : Becomes(p, "insertRedemption", [job[p] EXCEPT !.newBalance = n])
    BY DEF Deducts
<1>2. PICK j : j = [job[p] EXCEPT !.newBalance = n]
    OBVIOUS
<1>3. j.newCount = job[p].newCount /\ j.reward = job[p].reward
    BY <1>2 DEF TypeInv, TypeOK, Job
<1>4. /\ pc'[p] = "insertRedemption" /\ job'[p] = j /\ pc[p] = "deductBalance"
      /\ \A q \in Procs \ {p} : pc'[q] = pc[q] /\ job'[q] = job[q]
    BY <1>1, <1>2, BecomesOthers DEF Deducts
<1>5. \A q \in Procs : /\ job'[q].newCount = job[q].newCount
                       /\ \A o : HoldsReward(q, o)' <=> HoldsReward(q, o)
    BY <1>3, <1>4 DEF HoldsReward
<1> QED BY <1>5 DEF HeldRewards, InStock

LEMMA RewardsUpdated ==
    ASSUME TypeInv, HeldRewards, NEW r \in Rewards, UpdateReward(r)
    PROVE  HeldRewards' /\ reward'[r].count = reward[r].count
<1>1. PICK cost \in Costs, stock \in Stocks :
        reward' = [reward EXCEPT ![r].cost = IF cost > 0 THEN cost ELSE @, ![r].stock = stock]
    BY DEF UpdateReward
<1>2. /\ reward'[r].count = reward[r].count
      /\ \A o \in Rewards \ {r} : reward'[o] = reward[o]
    BY <1>1 DEF TypeInv, TypeOK, Reward
<1>3. UNCHANGED <<pc, job>> /\ \A q \in Procs : ~HoldsReward(q, r)
    BY DEF UpdateReward, RewardLocked
<1>4. HeldRewards'
    BY <1>2, <1>3 DEF HeldRewards, HoldsReward, InStock
<1> QED BY <1>2, <1>4

LEMMA HeldRewardsStep ==
    ASSUME TypeInv, HeldRewards, [Next]_vars
    PROVE  HeldRewards'
<1>1. CASE Keeps /\ UNCHANGED <<pc, job>>
    BY <1>1 DEF Keeps, HeldRewards, HoldsReward, InStock
<1>2. ASSUME NEW p \in Procs, NEW k \in Codes, NEW r \in Rewards, Redeems(p, k, r)
      PROVE  HeldRewards'
    <2>1. \A o \in Rewards : reward'[o] = reward[o] \/ HoldsReward(p, o)
        BY <1>2 DEF Redeems, TypeInv, TypeOK
    <2> QED BY <1>2, <2>1, RewardsReleased DEF Redeems
<1> QED BY <1>1, <1>2, NextRedeems, RewardsReleased, RewardsReserved, RewardsDeducted,
           RewardsUpdated DEF Keeps

(* What a redemption adds. *)
StockInv ==
    \A r \in Rewards :
        /\ IsFiniteSet(RedemptionsOf(r))
        /\ reward[r].count = Cardinality(RedemptionsOf(r))
        /\ reward[r].stock # None => reward[r].count <= reward[r].stock

(* The one entry of a redemption. *)
Burnt(i, k) == /\ BurnsOf(k) = {i}
               /\ ledger[i].client = redemption[k].client
               /\ ledger[i].amount = -redemption[k].amount

BurnInv ==
    \A k \in Codes :
        /\ redemption[k] = NoRedemption => BurnsOf(k) = {}
        /\ redemption[k] # NoRedemption => \E i \in DOMAIN ledger : Burnt(i, k)

RedeemInv == HeldRewards /\ StockInv /\ BurnInv

LEMMA RedeemKeeps ==
    ASSUME StockInv, BurnInv, RedemptionsKept, BurnsKept,
           \A r \in Rewards :
               /\ reward'[r].count = reward[r].count
               /\ reward'[r].stock = reward[r].stock
                  \/ (reward'[r].stock # None => reward[r].count <= reward'[r].stock)
    PROVE  StockInv' /\ BurnInv'
<1>1. \A r \in Rewards : RedemptionsOf(r)' = RedemptionsOf(r)
    BY DEF RedemptionsKept, RedemptionsOf
<1>2. StockInv'
    BY <1>1 DEF StockInv
<1>3. ASSUME NEW k \in Codes, redemption'[k] # NoRedemption
      PROVE  (\E i \in DOMAIN ledger : Burnt(i, k))'
    <2>1. PICK i \in DOMAIN ledger : Burnt(i, k)
        BY <1>3 DEF BurnInv, RedemptionsKept
    <2>2. i \in BurnsOf(k) /\ BurnsOf(k)' = BurnsOf(k) /\ ledger'[i] = ledger[i]
        BY <2>1 DEF Burnt, BurnsKept
    <2>3. i \in DOMAIN ledger'
        BY <2>2 DEF BurnsOf
    <2> QED BY <2>1, <2>2, <2>3 DEF Burnt, RedemptionsKept
<1>4. \A k \in Codes : redemption'[k] = NoRedemption => BurnsOf(k)' = {}
    BY DEF BurnInv, RedemptionsKept, BurnsKept
<1>5. BurnInv'
    BY <1>3, <1>4 DEF BurnInv
<1> QED BY <1>2, <1>5

LEMMA RedeemRow ==
    ASSUME TypeInv, NEW p \in Procs, NEW k \in Codes, NEW r \in Rewards, Redeems(p, k, r)
    PROVE  /\ redemption'[k] # NoRedemption
           /\ redemption'[k].reward = r
           /\ redemption'[k].client = job[p].client
           /\ redemption'[k].amount = -job[p].amount
           /\ \A l \in Codes \ {k} : redemption'[l] = redemption[l]
<1>1. redemption \in [Codes -> Redemption \cup {NoRedemption}]
    BY DEF TypeInv, TypeOK
<1>2. PICK row : row = [status |-> "pending", client |-> job[p].client, reward |-> r,
                        amount |-> -job[p].amount, by |-> Nil]
    OBVIOUS
<1>3. redemption' = [redemption EXCEPT ![k] = row]
    BY <1>2 DEF Redeems
<1>4. redemption'[k] = row /\ \A l \in Codes \ {k} : redemption'[l] = redemption[l]
    BY <1>1, <1>3
<1>5. /\ row.status = "pending" /\ row.reward = r
      /\ row.client = job[p].client /\ row.amount = -job[p].amount
    BY <1>2
<1>6. row # NoRedemption
    BY <1>5 DEF NoRedemption
<1> QED BY <1>4, <1>5, <1>6

LEMMA RedeemStock ==
    ASSUME TypeInv, RedeemInv, NEW p \in Procs, NEW k \in Codes, NEW r \in Rewards,
           Redeems(p, k, r)
    PROVE  StockInv'
<1>1. InStock(r) /\ job[p].newCount = reward[r].count + 1
    BY DEF RedeemInv, HeldRewards, Redeems
<1>2. redemption[k] = NoRedemption
    BY DEF Redeems
<1>3. /\ redemption'[k] # NoRedemption /\ redemption'[k].reward = r
      /\ \A l \in Codes \ {k} : redemption'[l] = redemption[l]
    BY RedeemRow
<1>4. RedemptionsOf(r)' = RedemptionsOf(r) \cup {k} /\ k \notin RedemptionsOf(r)
    BY <1>2, <1>3 DEF RedemptionsOf
<1>5. \A o \in Rewards \ {r} : RedemptionsOf(o)' = RedemptionsOf(o)
    BY <1>2, <1>3 DEF RedemptionsOf
<1>6. IsFiniteSet(RedemptionsOf(r)) /\ reward[r].count = Cardinality(RedemptionsOf(r))
    BY DEF RedeemInv, StockInv
<1>7. /\ IsFiniteSet(RedemptionsOf(r)')
      /\ Cardinality(RedemptionsOf(r)') = reward[r].count + 1
    BY <1>4, <1>6, FS_AddElement
<1>8. reward \in [Rewards -> Reward]
    BY DEF TypeInv, TypeOK
<1>9. /\ reward'[r].count = reward[r].count + 1
      /\ reward'[r].stock = reward[r].stock
    BY <1>1, <1>8 DEF Redeems, Reward
<1>10. \A o \in Rewards \ {r} : reward'[o] = reward[o]
    BY <1>8 DEF Redeems
<1>11. reward[r].stock # None => reward[r].count + 1 <= reward[r].stock
    BY <1>1, <1>8 DEF InStock, Reward
<1>12. ASSUME NEW o \in Rewards
       PROVE  /\ IsFiniteSet(RedemptionsOf(o)')
              /\ reward'[o].count = Cardinality(RedemptionsOf(o)')
              /\ reward'[o].stock # None => reward'[o].count <= reward'[o].stock
    <2>1. CASE o = r
        BY <1>7, <1>9, <1>11, <2>1
    <2>2. CASE o # r
        BY <1>5, <1>10, <2>2 DEF RedeemInv, StockInv
    <2> QED BY <2>1, <2>2
<1> QED BY <1>12 DEF StockInv

LEMMA RedeemBurns ==
    ASSUME TypeInv, RedeemInv, NEW p \in Procs, NEW k \in Codes, NEW r \in Rewards,
           Redeems(p, k, r)
    PROVE  BurnInv'
<1>1. PICK es : PostsBurn(p, es) /\ Posts(p, es)
    BY DEF Redeems
<1>2. PICK e : e = Entry(p, "burn")
    OBVIOUS
<1>3. /\ e.type = "burn" /\ e.code = k
      /\ e.client = job[p].client /\ e.amount = job[p].amount
    BY <1>2 DEF Entry, Redeems
<1>4. PICK n : n = Len(ledger)
    OBVIOUS
<1>5. es = <<e>>
    BY <1>1, <1>2 DEF PostsBurn
<1>6. /\ n \in Nat /\ DOMAIN ledger = 1 .. n /\ DOMAIN ledger' = 1 .. n + 1
      /\ \A i \in DOMAIN ledger : ledger'[i] = ledger[i]
      /\ ledger'[n + 1] = e
    <2>1. /\ n \in Nat /\ DOMAIN ledger = 1 .. n /\ DOMAIN ledger' = 1 .. n + Len(es)
          /\ \A i \in DOMAIN ledger : ledger'[i] = ledger[i]
          /\ \A i \in DOMAIN es : ledger'[n + i] = es[i]
        BY <1>1, <1>4, PostedEntries
    <2>2. Len(es) = 1 /\ 1 \in DOMAIN es /\ es[1] = e
        BY <1>5
    <2> QED BY <2>1, <2>2
<1>7. PICK m : m = n + 1
    OBVIOUS
<1>8. /\ m \notin DOMAIN ledger /\ DOMAIN ledger' = DOMAIN ledger \cup {m}
      /\ ledger'[m] = e
    BY <1>6, <1>7
<1>9. /\ BurnsOf(k)' = BurnsOf(k) \cup {m}
      /\ \A l \in Codes \ {k} : BurnsOf(l)' = BurnsOf(l)
    BY <1>3, <1>6, <1>8 DEF BurnsOf
<1>10. BurnsOf(k) = {}
    BY DEF RedeemInv, BurnInv, Redeems
<1>11. redemption'[k].client = ledger'[m].client /\ ledger'[m].amount = -redemption'[k].amount
    <2>1. redemption'[k].client = job[p].client /\ redemption'[k].amount = -job[p].amount
        BY RedeemRow
    <2>2. PICK a \in Int : a = job[p].amount
        BY <1>1, PosterType DEF Job
    <2>3. a = -(-a)
        OBVIOUS
    <2> QED BY <1>3, <1>8, <2>1, <2>2, <2>3
<1>12. ASSUME NEW l \in Codes
       PROVE  /\ redemption'[l] = NoRedemption => BurnsOf(l)' = {}
              /\ redemption'[l] # NoRedemption => (\E i \in DOMAIN ledger : Burnt(i, l))'
    <2>1. CASE l = k
        <3>1. redemption'[l] # NoRedemption
            BY <2>1, RedeemRow
        <3>2. BurnsOf(l)' = {m}
            BY <1>9, <1>10, <2>1
        <3> QED BY <1>8, <1>11, <2>1, <3>1, <3>2 DEF Burnt
    <2>2. CASE l # k
        <3>1. redemption'[l] = redemption[l] /\ BurnsOf(l)' = BurnsOf(l)
            BY <1>9, <2>2, RedeemRow
        <3>2. CASE redemption[l] # NoRedemption
            <4>1. PICK i \in DOMAIN ledger : Burnt(i, l)
                BY <3>2 DEF RedeemInv, BurnInv
            <4> QED BY <1>6, <1>8, <3>1, <3>2, <4>1 DEF Burnt
        <3> QED BY <3>1, <3>2 DEF RedeemInv, BurnInv
    <2> QED BY <2>1, <2>2
<1> QED BY <1>12 DEF BurnInv

LEMMA RedeemUpdate ==
    ASSUME TypeInv, RedeemInv, NEW r \in Rewards, UpdateReward(r)
    PROVE  StockInv' /\ BurnInv'
<1>1. PICK cost \in Costs, stock \in Stocks :
        /\ stock # None => reward[r].count <= stock
        /\ reward' = [reward EXCEPT ![r].cost = IF cost > 0 THEN cost ELSE @, ![r].stock = stock]
    BY DEF UpdateReward
<1>2. /\ reward'[r].count = reward[r].count /\ reward'[r].stock = stock
      /\ \A o \in Rewards \ {r} : reward'[o] = reward[o]
    BY <1>1 DEF TypeInv, TypeOK, Reward
<1>3. RedemptionsKept /\ BurnsKept
    BY DEF UpdateReward, RedemptionsKept, BurnsKept, BurnsOf
<1> QED BY <1>1, <1>2, <1>3, RedeemKeeps DEF RedeemInv

LEMMA RedeemStep ==
    ASSUME TypeInv, RedeemInv, [Next]_vars
    PROVE  RedeemInv'
<1>1. HeldRewards'
    BY HeldRewardsStep DEF RedeemInv
<1>2. CASE Keeps
    BY <1>1, <1>2, RedeemKeeps DEF Keeps, RedeemInv
<1> QED BY <1>1, <1>2, NextRedeems, RedeemUpdate, RedeemStock, RedeemBurns DEF RedeemInv

LEMMA RedeemInit == Init => RedeemInv
<1> SUFFICES ASSUME Init PROVE RedeemInv
    OBVIOUS
<1>1. /\ \A r : RedemptionsOf(r) = {}
      /\ \A k : BurnsOf(k) = {}
      /\ \A k \in Codes : redemption[k] = NoRedemption
    BY DEF Init, RedemptionsOf, BurnsOf
<1>2. \A r \in Rewards : reward[r].count = 0 /\ reward[r].stock \in Nat \cup {None}
    BY CostsAndStocks DEF Init
<1>3. HeldRewards
    BY DEF Init, HeldRewards, HoldsReward
<1>4. StockInv
    BY <1>1, <1>2, FS_EmptySet DEF StockInv
<1>5. BurnInv
    BY <1>1 DEF BurnInv
<1> QED BY <1>3, <1>4, <1>5 DEF RedeemInv

(***************************************************************************)
(* BurnCashbackTx takes the unit, the money, the entry and the redemption  *)
(* together or not at all: whoever redeems at once, whatever fails, and    *)
(* whatever stock the admin sets, a reward's count is the number of its    *)
(* redemptions and stays within its stock, and each redemption has one     *)
(* entry, of its client and its amount.                                    *)
(***************************************************************************)
THEOREM RedemptionsCorrect == Spec => []RedemptionsAreAccounted
<1>1. RedeemInv => RedemptionsAreAccounted
    <2> SUFFICES ASSUME RedeemInv PROVE RedemptionsAreAccounted
        OBVIOUS
    <2>1. ASSUME NEW k \in Codes
          PROVE  /\ Cardinality(BurnsOf(k)) = IF redemption[k] = NoRedemption THEN 0 ELSE 1
                 /\ \A i \in BurnsOf(k) : /\ ledger[i].client = redemption[k].client
                                          /\ ledger[i].amount = -redemption[k].amount
        <3>1. CASE redemption[k] = NoRedemption
            BY <3>1, FS_EmptySet DEF RedeemInv, BurnInv
        <3>2. CASE redemption[k] # NoRedemption
            <4>1. PICK i : Burnt(i, k)
                BY <3>2 DEF RedeemInv, BurnInv
            <4> QED BY <3>2, <4>1, FS_Singleton DEF Burnt
        <3> QED BY <3>1, <3>2
    <2> QED BY <2>1 DEF RedeemInv, StockInv, RedemptionsAreAccounted
<1>2. TypeInv /\ RedeemInv /\ [Next]_vars => RedeemInv'
    BY RedeemStep
<1> QED BY <1>1, <1>2, RedeemInit, TypeInvariance, PTL DEF Spec
=============================================================================
