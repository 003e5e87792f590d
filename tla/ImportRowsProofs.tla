-------------------------- MODULE ImportRowsProofs --------------------------
(***************************************************************************)
(* What becomes of rows and of the rule that judges them, for any rules,   *)
(* rows, vendors, batches and runs.                                        *)
(***************************************************************************)
EXTENDS ImportRows, SequenceTheorems, FiniteSetTheorems, WellFoundedInduction, TLAPS

-----------------------------------------------------------------------------
(* The rule.  An update writes only the columns that differ from the row   *)
(* it has loaded, so it must be known that this copy is still the row.     *)

LoadedIsStored ==
  \A r \in RuleRequests : ruleReq[r].op = "update" => rule # NoRule /\ ruleReq[r].loaded = rule

RuleSafe == RuleTypeOK /\ RuleIsLatest /\ LoadedIsStored

RuleSteps ==
       {NoRequest} \cup [op : {"delete"}] \cup [op : {"create"}, content : Contents]
  \cup [op : {"update"}, content : Contents, loaded : Contents]

(* There is no rule in the beginning.                                      *)
LEMMA RuleBegins == RuleInit => RuleSafe
<1> SUFFICES ASSUME RuleInit PROVE RuleSafe
  OBVIOUS
<1>1. NoRequest \in RuleSteps /\ NoRequest.op = "none"
  BY DEF RuleSteps, NoRequest
<1>2. \A r \in RuleRequests : ruleReq[r] = NoRequest
  BY DEF RuleInit
<1>3. ruleReq \in [RuleRequests -> RuleSteps]
  BY <1>1 DEF RuleInit
<1>4. QED
  BY <1>1, <1>2, <1>3
  DEF RuleInit, RuleSafe, RuleTypeOK, RuleIsLatest, LoadedIsStored, RuleSteps

(* A request goes on to what takes no lock that another one holds.         *)
LEMMA RuleMoves ==
  ASSUME RuleSafe, NEW r \in RuleRequests, NEW step \in RuleSteps, RuleStep(r, step),
         UNCHANGED rule, inForce' \in BOOLEAN, inForce' => rule # NoRule, UNCHANGED latest,
         step.op \in {"update", "delete"} => RuleFree,
         step.op = "update" => rule # NoRule /\ step.loaded = rule
  PROVE  RuleSafe'
<1>1. ruleReq \in [RuleRequests -> RuleSteps] /\ ruleReq' = [ruleReq EXCEPT ![r] = step]
  BY DEF RuleSafe, RuleTypeOK, RuleSteps, RuleStep
<1>2. ruleReq' \in [RuleRequests -> RuleSteps]
  BY <1>1
<1>3. ASSUME NEW p \in RuleRequests, NEW q \in RuleRequests,
             ruleReq'[p].op \in {"update", "delete"}, ruleReq'[q].op \in {"update", "delete"}
      PROVE  p = q
  BY <1>1, <1>3 DEF RuleSafe, RuleTypeOK, RuleFree
<1>4. RuleTypeOK'
  BY <1>2, <1>3 DEF RuleSafe, RuleTypeOK, RuleSteps
<1>5. LoadedIsStored'
  BY <1>1 DEF RuleSafe, LoadedIsStored
<1>6. QED
  BY <1>4, <1>5 DEF RuleSafe, RuleIsLatest

(* Every step of the requests that write the rule.                         *)
LEMMA RuleStepSafe == RuleSafe /\ [RuleNext]_ruleVars => RuleSafe'
<1> SUFFICES ASSUME RuleSafe, [RuleNext]_ruleVars
             PROVE  RuleSafe'
  OBVIOUS
<1> USE MarketRulesAssumption
<1>1. /\ rule \in Contents \cup {NoRule} /\ inForce \in BOOLEAN /\ (inForce => rule # NoRule)
      /\ ruleReq \in [RuleRequests -> RuleSteps]
  BY DEF RuleSafe, RuleTypeOK, RuleSteps
<1>2. NoRequest \in RuleSteps /\ NoRequest.op = "none"
  BY DEF RuleSteps, NoRequest
<1>3. ASSUME NEW r \in RuleRequests, NEW c \in Contents, Load(r, c)
      PROVE  RuleSafe'
  <2>1. CASE rule = NoRule
    <3> DEFINE step == [op |-> "create", content |-> c]
    <3>1. step \in RuleSteps /\ step.op = "create"
      BY DEF RuleSteps
    <3>2. QED
      BY <1>1, <1>3, <2>1, <3>1, RuleMoves DEF Load
  <2>2. CASE rule # NoRule
    <3> DEFINE step == [op |-> "update", content |-> c, loaded |-> rule]
    <3>1. step \in RuleSteps /\ step.op = "update" /\ step.loaded = rule
      BY <1>1, <2>2 DEF RuleSteps
    <3>2. QED
      BY <1>1, <1>3, <2>2, <3>1, RuleMoves DEF Load
  <2>3. QED
    BY <2>1, <2>2
<1>4. ASSUME NEW r \in RuleRequests, LoadToDelete(r)
      PROVE  RuleSafe'
  <2> DEFINE step == [op |-> "delete"]
  <2>1. step \in RuleSteps /\ step.op = "delete"
    BY DEF RuleSteps
  <2>2. QED
    BY <1>1, <1>4, <2>1, RuleMoves DEF LoadToDelete
<1>5. ASSUME NEW r \in RuleRequests, DeleteRule(r) \/ RuleRollBack(r)
      PROVE  RuleSafe'
  <2>1. /\ RuleStep(r, NoRequest) /\ UNCHANGED <<rule, latest>>
        /\ inForce' \in BOOLEAN /\ (inForce' => rule # NoRule)
    <3>1. CASE DeleteRule(r)
      BY <3>1 DEF DeleteRule
    <3>2. CASE RuleRollBack(r)
      BY <1>1, <3>2 DEF RuleRollBack
    <3>3. QED
      BY <1>5, <3>1, <3>2
  <2>2. QED
    BY <1>2, <2>1, RuleMoves
<1>6. ASSUME NEW r \in RuleRequests, CreateRule(r)
      PROVE  RuleSafe'
  <2>1. CASE rule # NoRule
    BY <1>1, <1>2, <1>6, <2>1, RuleMoves DEF CreateRule
  <2>2. CASE rule = NoRule
    <3>1. ruleReq[r].content \in Contents
      BY <1>1, <1>6 DEF CreateRule, RuleSteps, NoRequest
    <3>2. /\ ruleReq' = [ruleReq EXCEPT ![r] = NoRequest]
          /\ rule' = ruleReq[r].content /\ latest' = rule' /\ inForce' = TRUE
      BY <1>6, <2>2 DEF CreateRule, RuleStep
    <3>3. ruleReq' \in [RuleRequests -> RuleSteps]
      BY <1>1, <1>2, <3>2
    <3>4. \A p, q \in RuleRequests :
            {ruleReq'[p].op, ruleReq'[q].op} \subseteq {"update", "delete"} => p = q
      BY <1>1, <1>2, <3>2 DEF RuleSafe, RuleTypeOK
    <3>5. LoadedIsStored'
      BY <1>1, <1>2, <2>2, <3>2 DEF RuleSafe, LoadedIsStored
    <3>6. QED
      BY <3>1, <3>2, <3>3, <3>4, <3>5 DEF RuleSafe, RuleTypeOK, RuleIsLatest, RuleSteps
  <2>3. QED
    BY <2>1, <2>2
<1>7. ASSUME NEW r \in RuleRequests, UpdateRule(r)
      PROVE  RuleSafe'
  <2> DEFINE c == ruleReq[r].content
  <2>1. c \in Contents /\ ruleReq[r].loaded = rule /\ rule # NoRule
    BY <1>1, <1>7 DEF UpdateRule, RuleSteps, NoRequest, RuleSafe, LoadedIsStored
  <2>2. rule' = [f \in Fields |-> IF c[f] = rule[f] THEN rule[f] ELSE c[f]]
    BY <1>7, <2>1 DEF UpdateRule
  <2>3. rule' = c
    BY <2>1, <2>2
  <2>4. /\ ruleReq' = [ruleReq EXCEPT ![r] = NoRequest]
        /\ latest' = c /\ inForce' = TRUE
    BY <1>7 DEF UpdateRule, RuleStep
  <2>5. ruleReq' \in [RuleRequests -> RuleSteps]
    BY <1>1, <1>2, <2>4
  <2>6. \A p, q \in RuleRequests :
          {ruleReq'[p].op, ruleReq'[q].op} \subseteq {"update", "delete"} => p = q
    BY <1>1, <1>2, <2>4 DEF RuleSafe, RuleTypeOK
  <2>7. \A q \in RuleRequests : ruleReq'[q].op # "update"
    BY <1>1, <1>2, <1>7, <2>4 DEF UpdateRule, RuleSafe, RuleTypeOK
  <2>8. QED
    BY <2>1, <2>3, <2>4, <2>5, <2>6, <2>7
    DEF RuleSafe, RuleTypeOK, RuleIsLatest, RuleSteps, LoadedIsStored
<1>8. CASE UNCHANGED ruleVars
  BY <1>8 DEF ruleVars, RuleSafe, RuleTypeOK, RuleIsLatest, LoadedIsStored
<1>9. QED
  BY <1>3, <1>4, <1>5, <1>6, <1>7, <1>8 DEF RuleNext

(* The rule writes of the requests, seen from the whole specification.     *)
LEMMA RuleInvariance == Spec => []RuleSafe
<1>1. Init => RuleSafe
  BY RuleBegins DEF Init
<1>2. ASSUME RowNext
      PROVE  UNCHANGED ruleVars
  BY <1>2 DEF RowNext, Begin, ReadRow, FlushBatch, Finish, FlushFails
<1>3. RuleSafe /\ [Next]_vars => RuleSafe'
  BY <1>2, RuleStepSafe DEF Next, vars
<1>4. QED
  BY <1>1, <1>3, PTL DEF Spec

(* The rule holds what one administrator entered, although an update       *)
(* writes only the columns that differ (upsert_market_rule).               *)
THEOREM RuleStaysLatest == Spec => []RuleIsLatest
<1>1. RuleSafe => RuleIsLatest
  BY DEF RuleSafe
<1>2. QED
  BY <1>1, RuleInvariance, PTL

-----------------------------------------------------------------------------
(* Sums over finite sets.  Induction over numbers and over finite sets is  *)
(* stated over a set P: the theorems of the library take an operator.      *)

(* What holds of 0 and of n + 1 with n holds of every number.              *)
LEMMA Numbers ==
  ASSUME NEW P, 0 \in P, \A n \in Nat : n \in P => n + 1 \in P
  PROVE  Nat \subseteq P
<1> SUFFICES ASSUME Nat \ P # {} PROVE FALSE
  OBVIOUS
<1>1. PICK m \in Nat \ P : \A i \in Nat \ P : <<i, m>> \notin OpToRel(<, Nat)
  BY NatLessThanWellFounded, WFMin
<1>2. \A i \in Nat \ P : ~(i < m)
  BY <1>1, Zenon DEF OpToRel
<1>3. m # 0 /\ m - 1 \in Nat /\ m - 1 < m /\ (m - 1) + 1 = m
  OBVIOUS
<1>4. m - 1 \in P
  BY <1>2, <1>3
<1>5. QED
  BY <1>3, <1>4

(* The element with which a sum over s is begun.                           *)
Pick(s) == CHOOSE x \in s : TRUE

(* g[s] is the sum of f over s, element after element.                     *)
Adds(f, g, s) == g[s] = IF s = {} THEN 0 ELSE f[Pick(s)] + g[s \ {Pick(s)}]

(* The sum, a table of it over the subsets of S, and the table that the    *)
(* definition of SumFunctionOnSet chooses.                                 *)
SumOf(f, S) == SumFunctionOnSet(f, S)
IsSum(f, g, S) == \A s \in SUBSET S : Adds(f, g, s)
Tabulates(f, g, S) ==
  g \in [SUBSET S -> Int] /\ IsSum(f, g, S) /\ \A s \in SUBSET S : SumOf(f, s) = g[s]
Numeric(f, S) == \A x \in S : f[x] \in Int
Iter(f, S) ==
  CHOOSE g : g = [s \in SUBSET S |-> IF s = {} THEN 0 ELSE f[Pick(s)] + g[s \ {Pick(s)}]]

(* The sum is read from the chosen table.                                  *)
LEMMA SumIsChosen ==
  ASSUME NEW f, NEW S
  PROVE  SumOf(f, S) = Iter(f, S)[S]
  BY DEF SumOf, SumFunctionOnSet, FoldFunctionOnSet, MapThenFoldSet, Pick, Iter

(* Every finite set has such a g on its subsets.                           *)
LEMMA SumExists ==
  ASSUME NEW S, IsFiniteSet(S), NEW f, Numeric(f, S)
  PROVE  \E g \in [SUBSET S -> Int] : IsSum(f, g, S)
<1> DEFINE Small(n) == {s \in SUBSET S : Cardinality(s) <= n}
           P == {n \in Nat : \E g \in [SUBSET S -> Int] : \A s \in Small(n) : Adds(f, g, s)}
<1>1. \A s \in SUBSET S : /\ IsFiniteSet(s) /\ Cardinality(s) \in Nat
                          /\ s = {} <=> Cardinality(s) = 0
  BY FS_Subset, FS_CardinalityType, FS_EmptySet
<1>2. \A s \in SUBSET S : s # {} => Pick(s) \in s
  BY DEF Pick
<1>3. \A s \in SUBSET S : s # {} => /\ s \ {Pick(s)} \in SUBSET S
                                    /\ Cardinality(s \ {Pick(s)}) = Cardinality(s) - 1
  BY <1>1, <1>2, FS_RemoveElement
<1>4. 0 \in P
  <2> DEFINE g == [s \in SUBSET S |-> 0]
  <2>1. g \in [SUBSET S -> Int]
    OBVIOUS
  <2>2. \A s \in Small(0) : s = {}
    BY <1>1
  <2>3. \A s \in Small(0) : Adds(f, g, s)
    BY <2>2 DEF Adds
  <2>4. QED
    BY <2>1, <2>3
<1>5. ASSUME NEW n \in Nat, n \in P PROVE n + 1 \in P
  <2>1. PICK g \in [SUBSET S -> Int] : \A s \in Small(n) : Adds(f, g, s)
    BY <1>5
  <2> DEFINE h == [s \in SUBSET S |-> IF s = {} THEN 0 ELSE f[Pick(s)] + g[s \ {Pick(s)}]]
  <2>2. h \in [SUBSET S -> Int]
    BY <1>2, <1>3 DEF Numeric
  <2>3. \A s \in Small(n) : h[s] = g[s]
    BY <2>1 DEF Adds
  <2>4. \A s \in Small(n + 1) : s # {} => s \ {Pick(s)} \in Small(n)
    BY <1>1, <1>3
  <2>5. ASSUME NEW s \in Small(n + 1) PROVE Adds(f, h, s)
    <3>1. h[s] = IF s = {} THEN 0 ELSE f[Pick(s)] + g[s \ {Pick(s)}]
      OBVIOUS
    <3>2. s # {} => h[s \ {Pick(s)}] = g[s \ {Pick(s)}]
      BY <2>3, <2>4
    <3> HIDE DEF h
    <3>3. QED
      BY <3>1, <3>2 DEF IsSum, Adds
  <2>6. QED
    <3> HIDE DEF h
    <3>1. QED
      BY <2>2, <2>5
<1>6. Cardinality(S) \in P
  <2> HIDE DEF P
  <2>1. QED
    BY <1>1, <1>4, <1>5, Numbers
<1>7. \A s \in SUBSET S : s \in Small(Cardinality(S))
  BY FS_Subset
<1>8. QED
  BY <1>6, <1>7 DEF IsSum

(* ... and no more than one.                                               *)
LEMMA SumIsUnique ==
  ASSUME NEW S, IsFiniteSet(S), NEW f, NEW g, NEW h,
         IsSum(f, g, S), IsSum(f, h, S)
  PROVE  \A s \in SUBSET S : g[s] = h[s]
<1> DEFINE P == {n \in Nat : \A s \in SUBSET S : Cardinality(s) = n => g[s] = h[s]}
<1>1. \A s \in SUBSET S : /\ IsFiniteSet(s) /\ Cardinality(s) \in Nat
                          /\ s = {} <=> Cardinality(s) = 0
  BY FS_Subset, FS_CardinalityType, FS_EmptySet
<1>2. \A s \in SUBSET S : s # {} => Pick(s) \in s
  BY DEF Pick
<1>3. \A s \in SUBSET S : s # {} => /\ s \ {Pick(s)} \in SUBSET S
                                    /\ Cardinality(s \ {Pick(s)}) = Cardinality(s) - 1
  BY <1>1, <1>2, FS_RemoveElement
<1>4. 0 \in P
  BY <1>1 DEF IsSum, Adds
<1>5. ASSUME NEW n \in Nat, n \in P PROVE n + 1 \in P
  <2>1. ASSUME NEW s \in SUBSET S, Cardinality(s) = n + 1 PROVE g[s] = h[s]
    <3>1. s # {}
      BY <1>1, <2>1
    <3>2. g[s \ {Pick(s)}] = h[s \ {Pick(s)}]
      BY <1>3, <1>5, <2>1, <3>1
    <3>3. QED
      BY <3>1, <3>2 DEF IsSum, Adds
  <2>2. QED
    BY <2>1
<1>6. Nat \subseteq P
  <2> HIDE DEF P
  <2>1. QED
    BY <1>4, <1>5, Numbers
<1>7. QED
  BY <1>1, <1>6

(* The sum over any subset is the value of that g.                         *)
LEMMA SumUnfolds ==
  ASSUME NEW S, IsFiniteSet(S), NEW f, Numeric(f, S)
  PROVE  \E g : Tabulates(f, g, S)
<1>1. PICK g \in [SUBSET S -> Int] : IsSum(f, g, S)
  BY SumExists
<1>2. ASSUME NEW T \in SUBSET S PROVE SumOf(f, T) = g[T]
  <2> DEFINE Unfolded(h) == [s \in SUBSET T |->
                               IF s = {} THEN 0 ELSE f[Pick(s)] + h[s \ {Pick(s)}]]
             k == [s \in SUBSET T |-> g[s]]
  <2>1. IsFiniteSet(T)
    BY FS_Subset
  <2>2. \A s \in SUBSET T : s # {} => s \ {Pick(s)} \in SUBSET T
    OBVIOUS
  <2>3. IsSum(f, g, T)
    BY <1>1 DEF IsSum
  <2>4. k = Unfolded(k)
    BY <2>2, <2>3 DEF IsSum, Adds
  <2>5. Iter(f, T) = Unfolded(Iter(f, T))
    BY <2>4 DEF Iter
  <2>6. IsSum(f, Iter(f, T), T)
    BY <2>5 DEF IsSum, Adds
  <2>7. Iter(f, T)[T] = g[T]
    BY <2>1, <2>3, <2>6, SumIsUnique
  <2>8. QED
    BY <2>7, SumIsChosen
<1>3. QED
  BY <1>1, <1>2 DEF Tabulates

(* A sum may be begun with any element.                                    *)
LEMMA SumSplits ==
  ASSUME NEW S, IsFiniteSet(S), NEW f, Numeric(f, S)
  PROVE  /\ SumOf(f, S) \in Int
         /\ SumOf(f, {}) = 0
         /\ \A x \in S : SumOf(f, S) = f[x] + SumOf(f, S \ {x})
<1>0. PICK g : Tabulates(f, g, S)
  BY SumUnfolds
<1>1. g \in [SUBSET S -> Int] /\ IsSum(f, g, S) /\ \A s \in SUBSET S : SumOf(f, s) = g[s]
  BY <1>0 DEF Tabulates
<1> DEFINE P == {n \in Nat : \A s \in SUBSET S : Cardinality(s) = n =>
                               \A x \in s : g[s] = f[x] + g[s \ {x}]}
<1>2. \A s \in SUBSET S : /\ IsFiniteSet(s) /\ Cardinality(s) \in Nat
                          /\ s = {} <=> Cardinality(s) = 0
  BY FS_Subset, FS_CardinalityType, FS_EmptySet
<1>3. \A s \in SUBSET S : \A x \in s : /\ s \ {x} \in SUBSET S
                                       /\ Cardinality(s \ {x}) = Cardinality(s) - 1
  BY <1>2, FS_RemoveElement
<1>4. 0 \in P
  BY <1>2
<1>5. ASSUME NEW n \in Nat, n \in P PROVE n + 1 \in P
  <2>1. ASSUME NEW s \in SUBSET S, Cardinality(s) = n + 1, NEW x \in s
        PROVE  g[s] = f[x] + g[s \ {x}]
    <3> DEFINE y == Pick(s)
    <3>1. y \in s
      BY DEF Pick
    <3>2. g[s] = f[y] + g[s \ {y}]
      BY <1>1 DEF IsSum, Adds
    <3>3. CASE x = y
      BY <3>2, <3>3
    <3>4. CASE x # y
      <4> HIDE DEF y
      <4>1. x \in s \ {y} /\ y \in s \ {x} /\ (s \ {y}) \ {x} = (s \ {x}) \ {y}
        BY <3>1, <3>4
      <4>2. Cardinality(s \ {x}) = n /\ Cardinality(s \ {y}) = n
        BY <1>3, <2>1, <3>1
      <4>3. g[s \ {y}] = f[x] + g[(s \ {y}) \ {x}] /\ g[s \ {x}] = f[y] + g[(s \ {x}) \ {y}]
        BY <1>3, <1>5, <3>1, <4>1, <4>2
      <4>4. f[x] \in Int /\ f[y] \in Int /\ g[(s \ {x}) \ {y}] \in Int
        BY <1>1, <1>3, <3>1, <4>1 DEF Numeric
      <4> HIDE DEF P
      <4>5. g[s \ {y}] = f[x] + g[(s \ {x}) \ {y}]
        BY <4>1, <4>3
      <4>6. g[s] = f[y] + (f[x] + g[(s \ {x}) \ {y}])
        BY <3>2, <4>5
      <4>7. f[x] + g[s \ {x}] = f[x] + (f[y] + g[(s \ {x}) \ {y}])
        BY <4>3
      <4>8. QED
        BY <4>4, <4>6, <4>7
    <3>5. QED
      BY <3>3, <3>4
  <2>2. QED
    BY <2>1
<1>6. Nat \subseteq P
  <2> HIDE DEF P
  <2>1. QED
    BY <1>4, <1>5, Numbers
<1>7. \A x \in S : g[S] = f[x] + g[S \ {x}]
  BY <1>2, <1>6
<1>8. g[{}] = 0 /\ g[S] \in Int
  BY <1>1 DEF IsSum, Adds
<1>9. QED
  BY <1>1, <1>7, <1>8

(* What holds of {}, and of T with one element more if of T, holds of S.   *)
LEMMA FiniteSubsets ==
  ASSUME NEW S, IsFiniteSet(S), NEW P, {} \in P,
         \A T \in SUBSET S : \A x \in S \ T : T \in P => T \cup {x} \in P
  PROVE  S \in P
<1> DEFINE Q == {n \in Nat : \A T \in SUBSET S : Cardinality(T) = n => T \in P}
<1>1. \A T \in SUBSET S : /\ IsFiniteSet(T) /\ Cardinality(T) \in Nat
                          /\ T = {} <=> Cardinality(T) = 0
  BY FS_Subset, FS_CardinalityType, FS_EmptySet
<1>2. 0 \in Q
  BY <1>1
<1>3. ASSUME NEW n \in Nat, n \in Q PROVE n + 1 \in Q
  <2>1. ASSUME NEW T \in SUBSET S, Cardinality(T) = n + 1 PROVE T \in P
    <3>1. PICK x \in T : TRUE
      BY <1>1, <2>1
    <3>2. T \ {x} \in SUBSET S /\ x \in S \ (T \ {x}) /\ (T \ {x}) \cup {x} = T
      BY <3>1
    <3>3. Cardinality(T \ {x}) = Cardinality(T) - 1
      BY <1>1, <3>1, FS_RemoveElement
    <3>4. T \ {x} \in P
      BY <1>3, <2>1, <3>2, <3>3
    <3>5. QED
      BY <3>2, <3>4
  <2>2. QED
    BY <2>1
<1>4. Nat \subseteq Q
  <2> HIDE DEF Q
  <2>1. QED
    BY <1>2, <1>3, Numbers
<1>5. QED
  BY <1>1, <1>4

(* A sum grows by the element that is added.                               *)
LEMMA SumGrows ==
  ASSUME NEW S, IsFiniteSet(S), NEW f, Numeric(f, S), NEW T \in SUBSET S
  PROVE  /\ SumOf(f, T) \in Int
         /\ SumOf(f, {}) = 0
         /\ \A x \in S \ T : SumOf(f, T \cup {x}) = f[x] + SumOf(f, T) /\ f[x] \in Int
<1>1. IsFiniteSet(T) /\ Numeric(f, T)
  BY FS_Subset DEF Numeric
<1>2. SumOf(f, T) \in Int /\ SumOf(f, {}) = 0
  BY <1>1, SumSplits
<1>3. ASSUME NEW x \in S \ T PROVE SumOf(f, T \cup {x}) = f[x] + SumOf(f, T)
  <2> DEFINE R == T \cup {x}
  <2>1. R \in SUBSET S /\ x \in R /\ R \ {x} = T
    OBVIOUS
  <2> HIDE DEF R
  <2>2. IsFiniteSet(R) /\ Numeric(f, R)
    BY <2>1, FS_Subset DEF Numeric
  <2>3. SumOf(f, R) = f[x] + SumOf(f, R \ {x})
    BY <2>1, <2>2, SumSplits
  <2>4. QED
    BY <2>1, <2>3 DEF R
<1>4. QED
  BY <1>2, <1>3 DEF Numeric

(* Of greater terms the sum is greater.                                    *)
LEMMA SumIsMonotone ==
  ASSUME NEW S, IsFiniteSet(S), NEW f, NEW g, Numeric(f, S), Numeric(g, S),
         \A x \in S : f[x] <= g[x]
  PROVE  SumOf(f, S) <= SumOf(g, S)
<1> DEFINE P == {T \in SUBSET S : SumOf(f, T) <= SumOf(g, T)}
<1>1. {} \in P
  BY SumGrows
<1>2. ASSUME NEW T \in SUBSET S, NEW x \in S \ T, T \in P PROVE T \cup {x} \in P
  <2>1. /\ SumOf(f, T) \in Int /\ f[x] \in Int
        /\ SumOf(f, T \cup {x}) = f[x] + SumOf(f, T)
    BY SumGrows
  <2>2. /\ SumOf(g, T) \in Int /\ g[x] \in Int
        /\ SumOf(g, T \cup {x}) = g[x] + SumOf(g, T)
    BY SumGrows
  <2>3. QED
    BY <1>2, <2>1, <2>2
<1>3. S \in P
  <2> HIDE DEF P
  <2>1. QED
    BY <1>1, <1>2, FiniteSubsets
<1>4. QED
  BY <1>3

(* The sum of sums.                                                        *)
LEMMA SumIsAdditive ==
  ASSUME NEW S, IsFiniteSet(S), NEW f, NEW g, NEW h,
         Numeric(f, S), Numeric(g, S), Numeric(h, S),
         \A x \in S : h[x] = f[x] + g[x]
  PROVE  SumOf(h, S) = SumOf(f, S) + SumOf(g, S)
<1> DEFINE P == {T \in SUBSET S : SumOf(h, T) = SumOf(f, T) + SumOf(g, T)}
<1>1. {} \in P
  BY SumGrows
<1>2. ASSUME NEW T \in SUBSET S, NEW x \in S \ T, T \in P PROVE T \cup {x} \in P
  <2>1. /\ SumOf(f, T) \in Int /\ f[x] \in Int
        /\ SumOf(f, T \cup {x}) = f[x] + SumOf(f, T)
    BY SumGrows
  <2>2. /\ SumOf(g, T) \in Int /\ g[x] \in Int
        /\ SumOf(g, T \cup {x}) = g[x] + SumOf(g, T)
    BY SumGrows
  <2>3. /\ SumOf(h, T) \in Int /\ h[x] \in Int
        /\ SumOf(h, T \cup {x}) = h[x] + SumOf(h, T)
    BY SumGrows
  <2>4. h[x] = f[x] + g[x] /\ SumOf(h, T) = SumOf(f, T) + SumOf(g, T)
    BY <1>2
  <2>5. SumOf(h, T \cup {x}) = SumOf(f, T \cup {x}) + SumOf(g, T \cup {x})
    BY <2>1, <2>2, <2>3, <2>4
  <2>6. QED
    BY <2>5
<1>3. S \in P
  <2> HIDE DEF P
  <2>1. QED
    BY <1>1, <1>2, FiniteSubsets
<1>4. QED
  BY <1>3

(* Terms that are zero may be left out.                                    *)
LEMMA SumIsPadded ==
  ASSUME NEW S, IsFiniteSet(S), NEW f, NEW g, NEW R \in SUBSET S,
         Numeric(f, R), Numeric(g, S),
         \A x \in S : g[x] = IF x \in R THEN f[x] ELSE 0
  PROVE  SumOf(f, R) = SumOf(g, S)
<1> DEFINE P == {T \in SUBSET S : SumOf(f, T \cap R) = SumOf(g, T)}
<1>1. {} \in P
  <2>1. {} \cap R = {} /\ IsFiniteSet(R)
    BY FS_Subset
  <2>2. QED
    BY <2>1, SumGrows
<1>2. ASSUME NEW T \in SUBSET S, NEW x \in S \ T, T \in P PROVE T \cup {x} \in P
  <2>1. /\ SumOf(g, T) \in Int /\ g[x] \in Int
        /\ SumOf(g, T \cup {x}) = g[x] + SumOf(g, T)
    BY SumGrows
  <2>2. CASE x \in R
    <3>1. /\ (T \cup {x}) \cap R = (T \cap R) \cup {x}
          /\ x \in R \ (T \cap R) /\ IsFiniteSet(R)
      BY <2>2, FS_Subset
    <3> DEFINE C == T \cap R
    <3>2. C \in SUBSET R /\ x \in R \ C
      BY <2>2
    <3>3. SumOf(f, C \cup {x}) = f[x] + SumOf(f, C)
      <4> HIDE DEF C
      <4>1. QED
        BY <3>1, <3>2, SumGrows
    <3>4. SumOf(f, C) = SumOf(g, T) /\ g[x] = f[x]
      BY <1>2, <2>2
    <3>5. SumOf(f, (T \cup {x}) \cap R) = SumOf(g, T \cup {x})
      BY <2>1, <3>1, <3>3, <3>4
    <3>6. QED
      BY <3>5
  <2>3. CASE x \notin R
    <3>1. (T \cup {x}) \cap R = T \cap R /\ g[x] = 0
      BY <2>3
    <3>2. SumOf(f, T \cap R) = SumOf(g, T)
      BY <1>2
    <3>3. SumOf(g, T \cup {x}) = SumOf(g, T)
      BY <2>1, <3>1
    <3>4. SumOf(f, (T \cup {x}) \cap R) = SumOf(f, T \cap R)
      BY <3>1
    <3>5. QED
      BY <3>2, <3>3, <3>4
  <2>4. QED
    BY <2>2, <2>3
<1>3. S \in P
  <2> HIDE DEF P
  <2>1. QED
    BY <1>1, <1>2, FiniteSubsets
<1>4. S \cap R = R
  OBVIOUS
<1>5. QED
  BY <1>3, <1>4

-----------------------------------------------------------------------------
(* What a deviation costs (calculate_deviation_cost of rules/guangdong.py  *)
(* and rules/gansu.py).                                                    *)

(* How many of the units 1 .. n lie above a and not above b.               *)
Share(a, b, n) == IF n <= a THEN 0 ELSE IF n < b THEN n - a ELSE b - a

(* The share of (a, b] is empty at first and grows by each unit in it.     *)
LEMMA ShareGrows ==
  ASSUME NEW a \in Nat, NEW b \in Nat, a <= b, NEW n \in Nat
  PROVE  /\ Share(a, b, n) \in Nat
         /\ Share(a, b, 0) = 0
         /\ a < n + 1 /\ n + 1 <= b => Share(a, b, n + 1) = Share(a, b, n) + 1
         /\ ~(a < n + 1 /\ n + 1 <= b) => Share(a, b, n + 1) = Share(a, b, n)
         /\ \A m \in Nat : m <= n => Share(a, b, m) <= Share(a, b, n)
  BY DEF Share

(* What the provers need to be told of products of variables.              *)
LEMMA Products ==
  ASSUME NEW a \in Nat, NEW b \in Nat, NEW c \in Nat
  PROVE  /\ a * c \in Nat
         /\ (a + 1) * c = a * c + c
         /\ 0 * c = 0
         /\ a <= b => a * c <= b * c
  OBVIOUS

(* What n units cost where i charges r[i] for those in a[i] + 1 .. b[i],   *)
(* and what unit k costs.                                                  *)
Charges(T, a, b, r, n) == [i \in T |-> Share(a[i], b[i], n) * r[i]]
Rates(T, a, b, r, k) == [i \in T |-> IF a[i] < k /\ k <= b[i] THEN r[i] ELSE 0]
Intervals(T, a, b, r) ==
  a \in [T -> Nat] /\ b \in [T -> Nat] /\ r \in [T -> Nat] /\ \A i \in T : a[i] <= b[i]
UnitCosts(T, a, b, r, n) == [k \in 1 .. n |-> SumOf(Rates(T, a, b, r, k), T)]

(* Steps filled unit by unit.                                              *)
LEMMA UnitsAddUp ==
  ASSUME NEW T, IsFiniteSet(T), NEW a, NEW b, NEW r, Intervals(T, a, b, r), NEW N \in Nat
  PROVE  SumOf(Charges(T, a, b, r, N), T) = SumOf(UnitCosts(T, a, b, r, N), 1 .. N)
<1> DEFINE cost(n) == [i \in T |-> Share(a[i], b[i], n) * r[i]]
           rate(k) == [i \in T |-> IF a[i] < k /\ k <= b[i] THEN r[i] ELSE 0]
           rates == [k \in 1 .. N |-> SumOf(rate(k), T)]
           P == {n \in Nat : n <= N => SumOf(cost(n), T) = SumOf(rates, 1 .. n)}
<1>0. a \in [T -> Nat] /\ b \in [T -> Nat] /\ r \in [T -> Nat] /\ \A i \in T : a[i] <= b[i]
  BY DEF Intervals
<1>1. \A n \in Nat : Numeric(cost(n), T)
  <2> SUFFICES ASSUME NEW n \in Nat, NEW i \in T PROVE Share(a[i], b[i], n) * r[i] \in Int
    BY DEF Numeric
  <2>1. Share(a[i], b[i], n) \in Nat
    BY <1>0, ShareGrows
  <2>2. QED
    BY <1>0, <2>1
<1>2. \A k \in Nat : Numeric(rate(k), T)
  BY <1>0 DEF Numeric
<1>3. IsFiniteSet(1 .. N) /\ Numeric(rates, 1 .. N)
  <2> HIDE DEF rate
  <2>1. \A k \in 1 .. N : SumOf(rate(k), T) \in Int
    BY <1>2, SumSplits
  <2>2. QED
    BY <2>1, FS_Interval DEF Numeric
<1>4. 0 \in P
  <2>1. \A i \in T : cost(0)[i] = cost(0)[i] + cost(0)[i]
    <3> SUFFICES ASSUME NEW i \in T PROVE Share(a[i], b[i], 0) * r[i] = 0
      OBVIOUS
    <3>1. Share(a[i], b[i], 0) = 0
      BY <1>0, ShareGrows
    <3>2. QED
      BY <1>0, <3>1, Products
  <2>2. SumOf(cost(0), T) = 0
    <3> DEFINE zero == cost(0)
               sum == SumOf(zero, T)
    <3> HIDE DEF cost
    <3>1. Numeric(zero, T) /\ \A i \in T : zero[i] = zero[i] + zero[i]
      BY <1>1, <2>1
    <3> HIDE DEF zero
    <3>2. sum = sum + sum
      BY <3>1, SumIsAdditive
    <3>3. sum \in Int
      BY <3>1, SumSplits
    <3> HIDE DEF sum
    <3>4. sum = 0
      BY <3>2, <3>3
    <3>5. QED
      BY <3>4 DEF sum, zero
  <2>3. SumOf(rates, 1 .. 0) = 0
    <3> HIDE DEF rates
    <3>1. 1 .. 0 = {}
      OBVIOUS
    <3>2. QED
      BY <1>3, <3>1, SumSplits
  <2>4. QED
    BY <2>2, <2>3
<1>5. ASSUME NEW n \in Nat, n \in P PROVE n + 1 \in P
  <2> SUFFICES ASSUME n + 1 <= N
               PROVE  SumOf(cost(n + 1), T) = SumOf(rates, 1 .. n + 1)
    OBVIOUS
  <2>1. \A i \in T : cost(n + 1)[i] = cost(n)[i] + rate(n + 1)[i]
    <3> SUFFICES ASSUME NEW i \in T
                 PROVE  Share(a[i], b[i], n + 1) * r[i] =
                          Share(a[i], b[i], n) * r[i]
                            + (IF a[i] < n + 1 /\ n + 1 <= b[i] THEN r[i] ELSE 0)
      OBVIOUS
    <3>1. /\ Share(a[i], b[i], n) \in Nat
          /\ a[i] < n + 1 /\ n + 1 <= b[i] =>
               Share(a[i], b[i], n + 1) = Share(a[i], b[i], n) + 1
          /\ ~(a[i] < n + 1 /\ n + 1 <= b[i]) =>
               Share(a[i], b[i], n + 1) = Share(a[i], b[i], n)
      <4> DEFINE x == a[i]
                 y == b[i]
      <4>1. x \in Nat /\ y \in Nat /\ x <= y
        BY <1>0
      <4> HIDE DEF x, y
      <4>2. /\ Share(x, y, n) \in Nat
            /\ x < n + 1 /\ n + 1 <= y => Share(x, y, n + 1) = Share(x, y, n) + 1
            /\ ~(x < n + 1 /\ n + 1 <= y) => Share(x, y, n + 1) = Share(x, y, n)
        BY <4>1 DEF Share
      <4>3. QED
        BY <4>2 DEF x, y
    <3>2. (Share(a[i], b[i], n) + 1) * r[i] = Share(a[i], b[i], n) * r[i] + r[i]
      BY <1>0, <3>1, Products
    <3>3. CASE a[i] < n + 1 /\ n + 1 <= b[i]
      BY <1>0, <3>1, <3>2, <3>3
    <3>4. CASE ~(a[i] < n + 1 /\ n + 1 <= b[i])
      <4>1. Share(a[i], b[i], n + 1) = Share(a[i], b[i], n)
        BY <3>1, <3>4
      <4>2. Share(a[i], b[i], n) * r[i] \in Nat
        BY <1>0, <3>1, Products
      <4>3. QED
        BY <1>0, <3>4, <4>1, <4>2
    <3>5. QED
      BY <3>3, <3>4
  <2>2. SumOf(cost(n + 1), T) = SumOf(cost(n), T) + SumOf(rate(n + 1), T)
    <3> HIDE DEF cost, rate
    <3>1. QED
      BY <1>1, <1>2, <2>1, SumIsAdditive
  <2> DEFINE below == 1 .. n
  <2>3. /\ 1 .. n + 1 = below \cup {n + 1}
        /\ below \in SUBSET (1 .. N) /\ n + 1 \in (1 .. N) \ below
    OBVIOUS
  <2>4. rates[n + 1] = SumOf(rate(n + 1), T)
    BY <2>3
  <2>5. SumOf(rates, below \cup {n + 1}) = rates[n + 1] + SumOf(rates, below)
    <3> HIDE DEF rates, below
    <3>1. QED
      BY <1>3, <2>3, SumGrows
  <2>6. SumOf(rates, below) \in Int /\ rates[n + 1] \in Int
    <3> HIDE DEF rates, below
    <3>1. QED
      BY <1>3, <2>3, SumGrows
  <2>7. SumOf(cost(n), T) = SumOf(rates, below)
    BY <1>5
  <2>8. QED
    <3> HIDE DEF cost, rate, rates, below
    <3>1. SumOf(cost(n + 1), T) = SumOf(rates, below) + rates[n + 1]
      BY <2>2, <2>4, <2>7
    <3>2. SumOf(rates, 1 .. n + 1) = rates[n + 1] + SumOf(rates, below)
      BY <2>3, <2>5
    <3>3. QED
      BY <2>6, <3>1, <3>2
<1>6. N \in P
  <2> HIDE DEF P
  <2>1. QED
    BY <1>4, <1>5, Numbers
<1>7. QED
  BY <1>6 DEF Charges, Rates, UnitCosts

(* A step is charged its share, at its rate.                               *)
Lower(p, i, forecast) == p.steps[i].lower * forecast
Upper(p, i, forecast) == p.steps[i].upper * forecast

(* A step begins below where it ends, whatever is forecast.                *)
LEMMA StepsAreOrdered ==
  ASSUME NEW p, Fits("stepped", p), NEW i \in DOMAIN p.steps, NEW forecast \in Nat
  PROVE  /\ p.steps[i] \in Step
         /\ p.steps[i].rate \in Nat /\ p.steps[i].lower \in Nat /\ p.steps[i].upper \in Nat
         /\ Lower(p, i, forecast) \in Nat /\ Upper(p, i, forecast) \in Nat
         /\ Lower(p, i, forecast) <= Upper(p, i, forecast)
<1>1. p.steps \in Seq(Step) /\ p.steps[i].lower < p.steps[i].upper
  BY DEF Fits
<1>2. p.steps[i] \in Step
  BY <1>1, ElementOfSeq, LenProperties
<1>3. p.steps[i].rate \in Nat /\ p.steps[i].lower \in Nat /\ p.steps[i].upper \in Nat
  BY <1>2, MarketRulesAssumption DEF Step
<1>4. /\ p.steps[i].lower * forecast \in Nat /\ p.steps[i].upper * forecast \in Nat
      /\ p.steps[i].lower * forecast <= p.steps[i].upper * forecast
  <2>1. p.steps[i].lower <= p.steps[i].upper
    BY <1>1, <1>3
  <2>2. QED
    BY <1>3, <2>1, Products
<1>5. QED
  BY <1>2, <1>3, <1>4 DEF Lower, Upper

(* StepCost charges a step that is reached for the units within it.        *)
LEMMA StepCostsShare ==
  ASSUME NEW p, Fits("stepped", p), NEW i \in DOMAIN p.steps,
         NEW forecast \in Nat, NEW deviation \in Nat,
         deviation * Unit > Lower(p, i, forecast)
  PROVE  StepCost(p.steps[i], deviation, forecast, 1) =
           Share(Lower(p, i, forecast), Upper(p, i, forecast), deviation * Unit)
             * p.steps[i].rate
<1> DEFINE x == Lower(p, i, forecast)
           y == Upper(p, i, forecast)
           d == deviation * Unit
           rate == p.steps[i].rate
<1>1. x \in Nat /\ y \in Nat /\ x <= y /\ d \in Nat /\ rate \in Nat /\ x < d
  BY StepsAreOrdered, MarketRulesAssumption, Products
<1>2. StepCost(p.steps[i], deviation, forecast, 1) =
        ((IF d < y THEN d ELSE y) - x) * 1 * rate
  BY DEF StepCost, Lower, Upper
<1> HIDE DEF x, y, d, rate
<1>3. ((IF d < y THEN d ELSE y) - x) * 1 = Share(x, y, d)
  BY <1>1 DEF Share
<1>4. StepCost(p.steps[i], deviation, forecast, 1) = Share(x, y, d) * rate
  BY <1>2, <1>3
<1>5. QED
  BY <1>4 DEF x, y, d, rate

(* The terms of a stepped cost, with zero for the steps not charged.       *)
Terms(p, deviation, forecast) ==
  [i \in DOMAIN p.steps |->
     IF i \in Charged(p.steps, deviation, forecast)
     THEN StepCost(p.steps[i], deviation, forecast, 1) ELSE 0]

(* SteppedCost is the sum of these terms over all the steps.               *)
LEMMA SteppedCostSums ==
  ASSUME NEW p, Fits("stepped", p), NEW forecast \in Nat, NEW deviation \in Nat,
         ~Exempt(p, deviation, forecast)
  PROVE  /\ IsFiniteSet(DOMAIN p.steps)
         /\ \A i \in DOMAIN p.steps : Terms(p, deviation, forecast)[i] \in Nat
         /\ SteppedCost(p, deviation, forecast, 1) =
              SumOf(Terms(p, deviation, forecast), DOMAIN p.steps)
<1> DEFINE T == DOMAIN p.steps
           C == Charged(p.steps, deviation, forecast)
           cost == [i \in C |-> StepCost(p.steps[i], deviation, forecast, 1)]
           terms == Terms(p, deviation, forecast)
<1>1. IsFiniteSet(T)
  <2>1. T = 1 .. Len(p.steps) /\ Len(p.steps) \in Nat
    BY LenProperties DEF Fits
  <2>2. IsFiniteSet(1 .. Len(p.steps))
    BY <2>1, FS_Interval
  <2>3. QED
    BY <2>1, <2>2
<1>2. C \in SUBSET T /\ \A i \in C : deviation * Unit > Lower(p, i, forecast)
  <2>1. \A i \in T : i \in 1 .. i
    BY LenProperties DEF Fits
  <2>2. QED
    BY <2>1 DEF Charged, Lower
<1>3. \A i \in C : cost[i] \in Nat
  <2> SUFFICES ASSUME NEW i \in C
               PROVE  StepCost(p.steps[i], deviation, forecast, 1) \in Nat
    OBVIOUS
  <2>1. Share(Lower(p, i, forecast), Upper(p, i, forecast), deviation * Unit) \in Nat
    BY <1>2, StepsAreOrdered, MarketRulesAssumption, Products, ShareGrows
  <2>2. QED
    BY <1>2, <2>1, StepsAreOrdered, StepCostsShare, Products
<1>4. \A i \in T : terms[i] = (IF i \in C THEN cost[i] ELSE 0) /\ terms[i] \in Nat
  BY <1>3 DEF Terms
<1>5. SteppedCost(p, deviation, forecast, 1) = SumOf(cost, C)
  BY DEF SteppedCost, SumFunction, SumOf
<1>6. SumOf(cost, C) = SumOf(terms, T)
  <2> HIDE DEF cost, terms, C
  <2>1. Numeric(cost, C) /\ Numeric(terms, T)
    BY <1>3, <1>4 DEF Numeric
  <2>2. \A i \in T : terms[i] = IF i \in C THEN cost[i] ELSE 0
    BY <1>4
  <2>3. QED
    BY <1>1, <1>2, <2>1, <2>2, SumIsPadded
<1>7. QED
  BY <1>1, <1>4, <1>5, <1>6

(* A larger deviation never costs less.                                    *)
LEMMA CostsGrow ==
  ASSUME NEW c \in Contents, c.deviation_formula_type # "bandwidth",
         NEW forecast \in Nat, NEW deviation \in Nat
  PROVE  Cost(c, deviation, forecast, 1) <= Cost(c, deviation + 1, forecast, 1)
<1> DEFINE p == c.deviation_formula_params
           d == deviation * Unit
           e == (deviation + 1) * Unit
<1>1. Fits(c.deviation_formula_type, p)
  BY MarketRulesAssumption
<1>2. d \in Nat /\ e \in Nat /\ d <= e /\ Unit \in Nat /\ Unit > 0
  BY MarketRulesAssumption, Products
<1>3. Exempt(p, deviation + 1, forecast) => Exempt(p, deviation, forecast)
  <2>1. p.exemption * forecast \in Nat
    BY <1>1, <1>2, Products DEF Fits
  <2>2. QED
    BY <1>2, <2>1 DEF Exempt
<1>4. CASE c.deviation_formula_type = "stepped"
  <2>1. Fits("stepped", p)
    BY <1>1, <1>4
  <2>2. /\ Cost(c, deviation, forecast, 1) = SteppedCost(p, deviation, forecast, 1)
        /\ Cost(c, deviation + 1, forecast, 1) = SteppedCost(p, deviation + 1, forecast, 1)
    BY <1>4 DEF Cost
  <2> DEFINE T == DOMAIN p.steps
             f == Terms(p, deviation, forecast)
             g == Terms(p, deviation + 1, forecast)
  <2> HIDE DEF p
  <2>3. CASE Exempt(p, deviation + 1, forecast)
    BY <1>3, <2>2, <2>3 DEF SteppedCost
  <2>4. CASE ~Exempt(p, deviation + 1, forecast)
    <3>1. /\ IsFiniteSet(T) /\ \A i \in T : g[i] \in Nat
          /\ SteppedCost(p, deviation + 1, forecast, 1) = SumOf(g, T)
      BY <2>1, <2>4, SteppedCostSums
    <3>2. CASE Exempt(p, deviation, forecast)
      <4> DEFINE zero == [i \in T |-> 0]
      <4>1. Numeric(zero, T) /\ Numeric(g, T) /\ \A i \in T : zero[i] <= g[i]
        BY <3>1 DEF Numeric
      <4>2. \A i \in T : zero[i] = zero[i] + zero[i]
        OBVIOUS
      <4> HIDE DEF zero, f, g, T
      <4>3. SumOf(zero, T) <= SumOf(g, T)
        BY <3>1, <4>1, SumIsMonotone
      <4>4. SumOf(zero, T) = SumOf(zero, T) + SumOf(zero, T) /\ SumOf(zero, T) \in Int
        BY <3>1, <4>1, <4>2, SumIsAdditive, SumSplits
      <4> DEFINE sum == SumOf(zero, T)
      <4>5. SumOf(zero, T) = 0
        <5>1. sum = sum + sum /\ sum \in Int
          BY <4>4
        <5> HIDE DEF sum
        <5>2. sum = 0
          BY <5>1
        <5>3. QED
          BY <5>2 DEF sum
      <4>6. SteppedCost(p, deviation, forecast, 1) = 0
        BY <3>2 DEF SteppedCost
      <4>7. QED
        BY <2>2, <3>1, <4>3, <4>5, <4>6
    <3>3. CASE ~Exempt(p, deviation, forecast)
      <4>1. /\ \A i \in T : f[i] \in Nat
            /\ SteppedCost(p, deviation, forecast, 1) = SumOf(f, T)
        BY <2>1, <3>3, SteppedCostSums
      <4>2. ASSUME NEW i \in T PROVE f[i] <= g[i]
        <5>1. CASE i \notin Charged(p.steps, deviation, forecast)
          <6>1. f[i] = 0
            BY <5>1 DEF Terms
          <6>2. QED
            BY <3>1, <6>1
        <5>2. CASE i \in Charged(p.steps, deviation, forecast)
          <6> DEFINE x == Lower(p, i, forecast)
                     y == Upper(p, i, forecast)
                     rate == p.steps[i].rate
          <6>1. d > x /\ i \in Charged(p.steps, deviation + 1, forecast)
            <7>1. i \in 1 .. i /\ \A j \in 1 .. i : j \in T
              BY <2>1, LenProperties DEF Fits
            <7>2. \A j \in 1 .. i : d > p.steps[j].lower * forecast
              BY <5>2 DEF Charged
            <7>3. \A j \in 1 .. i : p.steps[j].lower * forecast \in Nat
              BY <2>1, <7>1, StepsAreOrdered DEF Lower
            <7>4. \A j \in 1 .. i : e > p.steps[j].lower * forecast
              BY <1>2, <7>2, <7>3
            <7>5. QED
              BY <7>1, <7>2, <7>4 DEF Charged, Lower
          <6>2. x \in Nat /\ y \in Nat /\ x <= y /\ rate \in Nat
            BY <2>1, StepsAreOrdered
          <6>3. e > x
            BY <1>2, <6>1, <6>2
          <6>4. f[i] = Share(x, y, d) * rate
            BY <2>1, <5>2, <6>1, StepCostsShare DEF Terms
          <6>5. g[i] = Share(x, y, e) * rate
            BY <2>1, <6>1, <6>3, StepCostsShare DEF Terms
          <6> HIDE DEF x, y, d, e, rate, f, g
          <6>6. /\ Share(x, y, d) \in Nat /\ Share(x, y, e) \in Nat
                /\ Share(x, y, d) <= Share(x, y, e)
            BY <1>2, <6>2 DEF Share
          <6>7. QED
            BY <6>2, <6>4, <6>5, <6>6, Products
        <5>3. QED
          BY <5>1, <5>2
      <4> HIDE DEF f, g, T
      <4>3. Numeric(f, T) /\ Numeric(g, T)
        BY <3>1, <4>1 DEF Numeric
      <4>4. SumOf(f, T) <= SumOf(g, T)
        BY <3>1, <4>2, <4>3, SumIsMonotone
      <4>5. QED
        BY <2>2, <3>1, <4>1, <4>4
    <3>4. QED
      BY <3>2, <3>3
  <2>5. QED
    BY <2>3, <2>4
<1>5. CASE c.deviation_formula_type # "stepped"
  <2>1. p.rate \in Nat
    BY <1>1, <1>5 DEF Fits
  <2>2. /\ Cost(c, deviation, forecast, 1) = ProportionalCost(p, deviation, forecast, 1)
        /\ Cost(c, deviation + 1, forecast, 1) =
             ProportionalCost(p, deviation + 1, forecast, 1)
    BY <1>5 DEF Cost
  <2> HIDE DEF p
  <2>3. /\ Unit * deviation * 1 * p.rate \in Nat
        /\ Unit * (deviation + 1) * 1 * p.rate \in Nat
        /\ Unit * deviation * 1 * p.rate <= Unit * (deviation + 1) * 1 * p.rate
    <3>1. /\ Unit * deviation * 1 = d /\ Unit * (deviation + 1) * 1 = e
      BY <1>2
    <3> HIDE DEF d, e
    <3>2. QED
      BY <1>2, <2>1, <3>1, Products
  <2>4. QED
    BY <1>3, <2>2, <2>3 DEF ProportionalCost
<1>6. QED
  BY <1>4, <1>5

(* Where the steps are in order, every unit of the deviation costs the     *)
(* rates of the steps that contain it.                                     *)
LEMMA CostsOfUnits ==
  ASSUME NEW p, Fits("stepped", p), NEW forecast \in Nat, NEW deviation \in Nat,
         ~Exempt(p, deviation, forecast),
         InOrder(p.steps)
  PROVE  SteppedCost(p, deviation, forecast, 1) =
           SumFunction([k \in 1 .. deviation * Unit |-> RateOfUnit(p.steps, forecast, k)])
<1> DEFINE T == DOMAIN p.steps
           N == deviation * Unit
           a == [i \in T |-> Lower(p, i, forecast)]
           b == [i \in T |-> Upper(p, i, forecast)]
           r == [i \in T |-> p.steps[i].rate]
           holders(k) == {i \in T : /\ p.steps[i].lower * forecast < k
                                    /\ k <= p.steps[i].upper * forecast}
           rate(k) == [i \in holders(k) |-> p.steps[i].rate]
           cost == Charges(T, a, b, r, N)
           fill(k) == Rates(T, a, b, r, k)
<1>1. /\ N \in Nat /\ IsFiniteSet(T)
      /\ SteppedCost(p, deviation, forecast, 1) = SumOf(Terms(p, deviation, forecast), T)
  BY SteppedCostSums, MarketRulesAssumption, Products
<1>2. a \in [T -> Nat] /\ b \in [T -> Nat] /\ r \in [T -> Nat] /\ \A i \in T : a[i] <= b[i]
  BY StepsAreOrdered
<1>3. ASSUME NEW i \in T
      PROVE  Terms(p, deviation, forecast)[i] = Share(a[i], b[i], N) * r[i]
  <2>1. i \in 1 .. i /\ \A j \in 1 .. i : j \in T
    BY LenProperties DEF Fits
  <2>2. \A j \in 1 .. i : p.steps[j].lower * forecast <= p.steps[i].lower * forecast
    <3> SUFFICES ASSUME NEW j \in 1 .. i
                 PROVE  p.steps[j].lower * forecast <= p.steps[i].lower * forecast
      OBVIOUS
    <3>1. p.steps[j].lower \in Nat /\ p.steps[i].lower \in Nat
      BY <2>1, StepsAreOrdered
    <3>2. p.steps[j].lower <= p.steps[i].lower
      <4>1. i \in Int /\ j \in Int
        BY LenProperties DEF Fits
      <4>2. j < i \/ j = i
        BY <4>1
      <4>3. QED
        BY <2>1, <3>1, <4>2 DEF InOrder
    <3>3. QED
      BY <3>1, <3>2, Products
  <2>3. \A j \in 1 .. i : p.steps[j].lower * forecast \in Nat
    BY <2>1, StepsAreOrdered DEF Lower
  <2>4. i \in Charged(p.steps, deviation, forecast) <=> N > a[i]
    BY <1>1, <2>1, <2>2, <2>3 DEF Charged, Lower
  <2>5. CASE N > a[i]
    BY <2>4, <2>5, StepCostsShare DEF Terms
  <2>6. CASE ~(N > a[i])
    <3>1. Share(a[i], b[i], N) = 0
      BY <1>1, <1>2, <2>6 DEF Share
    <3>2. Terms(p, deviation, forecast)[i] = 0
      BY <2>4, <2>6 DEF Terms
    <3>3. QED
      BY <1>2, <3>1, <3>2, Products
  <2>7. QED
    BY <2>5, <2>6
<1>4. Terms(p, deviation, forecast) = cost
  BY <1>3 DEF Terms, Charges
<1>5. SumOf(cost, T) = SumOf(UnitCosts(T, a, b, r, N), 1 .. N)
  <2> HIDE DEF a, b, r, N, T
  <2>1. QED
    BY <1>1, <1>2, UnitsAddUp DEF Intervals
<1>6. ASSUME NEW k \in 1 .. N PROVE RateOfUnit(p.steps, forecast, k) = SumOf(fill(k), T)
  <2>1. RateOfUnit(p.steps, forecast, k) = SumOf(rate(k), holders(k))
    BY DEF RateOfUnit, SumFunction, SumOf
  <2> DEFINE f == rate(k)
             g == fill(k)
             R == holders(k)
  <2>2. R \in SUBSET T
    OBVIOUS
  <2>3. Numeric(f, R) /\ Numeric(g, T)
    BY <1>2 DEF Numeric, Rates
  <2>4. \A i \in T : g[i] = IF i \in R THEN f[i] ELSE 0
    BY DEF Lower, Upper, Rates
  <2>5. SumOf(f, R) = SumOf(g, T)
    <3> HIDE DEF f, g, R
    <3>1. QED
      BY <1>1, <2>2, <2>3, <2>4, SumIsPadded
  <2>6. QED
    BY <2>1, <2>5
<1> DEFINE sums == [k \in 1 .. N |-> RateOfUnit(p.steps, forecast, k)]
           fills == UnitCosts(T, a, b, r, N)
<1>7. sums = fills
  BY <1>6 DEF UnitCosts
<1>8. SumFunction(sums) = SumOf(sums, 1 .. N)
  BY DEF SumFunction, SumOf
<1>9. SumFunction(sums) = SteppedCost(p, deviation, forecast, 1)
  <2> HIDE DEF sums, fills, cost, T, N
  <2>1. QED
    BY <1>1, <1>4, <1>5, <1>7, <1>8 DEF fills
<1>10. QED
  BY <1>9

(* Costs add up for every rule, deviation and forecast: a larger deviation *)
(* never costs less, and of steps in order the loop of GuangdongRule       *)
(* charges each unit of the deviation at the rates of the steps that       *)
(* contain it (calculate_deviation_cost).                                  *)
THEOREM EveryCostAddsUp ==
  ASSUME NEW c \in Contents, c.deviation_formula_type # "bandwidth",
         NEW deviation \in Nat, NEW forecast \in Nat
  PROVE  AddsUp(c, deviation, forecast)
<1> DEFINE p == c.deviation_formula_params
<1>1. Fits(c.deviation_formula_type, p)
  BY MarketRulesAssumption
<1>2. Cost(c, deviation, forecast, 1) <= Cost(c, deviation + 1, forecast, 1)
  BY CostsGrow
<1>3. ASSUME c.deviation_formula_type = "stepped"
      PROVE  Cost(c, deviation, forecast, 1) = SteppedCost(p, deviation, forecast, 1)
  BY <1>3 DEF Cost
<1>4. Exempt(p, deviation, forecast) => SteppedCost(p, deviation, forecast, 1) = 0
  BY DEF SteppedCost
<1> HIDE DEF p
<1>5. QED
  BY <1>1, <1>2, <1>3, <1>4, CostsOfUnits DEF p, AddsUp

(* They add up for the rule that is stored, at all times.                  *)
THEOREM CostsStayAdditive == Spec => []CostsAddUp
<1>1. RuleSafe => rule \in Contents \cup {NoRule}
  BY DEF RuleSafe, RuleTypeOK
<1>2. rule \in Contents \cup {NoRule} => CostsAddUp
  BY EveryCostAddsUp DEF CostsAddUp
<1>3. QED
  BY <1>1, <1>2, RuleInvariance, PTL

-----------------------------------------------------------------------------
(* What a row passes.                                                      *)

FieldsOf(type) == {Checks[type][i] : i \in DOMAIN Checks[type]}
Row(type) == [FieldsOf(type) -> Cell]
AllPass(type, format, caps, cells) ==
  \A f \in FieldsOf(type) : Passes(format, caps, f, cells[f])

(* The import types and the fields that each one checks.                   *)
LEMMA TypesAndFields ==
  /\ ImportTypes = {"trading_data", "station_output", "storage_operation"}
  /\ FieldsOf("trading_data") = {"trading_date", "period", "clearing_price"}
  /\ FieldsOf("station_output") = {"trading_date", "period", "actual_output_kw"}
  /\ FieldsOf("storage_operation") =
       {"trading_date", "period", "soc", "charge_power_kw", "discharge_power_kw", "cycle_count"}
<1>1. ImportTypes = {"trading_data", "station_output", "storage_operation"}
  BY DEF ImportTypes, Checks
<1>2. DOMAIN Checks["trading_data"] = 1 .. 3 /\ DOMAIN Checks["station_output"] = 1 .. 3
  BY DEF Checks
<1>3. DOMAIN Checks["storage_operation"] = 1 .. 6
  BY DEF Checks
<1>4. FieldsOf("trading_data") = {"trading_date", "period", "clearing_price"}
  BY <1>2 DEF FieldsOf, Checks
<1>5. FieldsOf("station_output") = {"trading_date", "period", "actual_output_kw"}
  BY <1>2 DEF FieldsOf, Checks
<1>6. FieldsOf("storage_operation") =
       {"trading_date", "period", "soc", "charge_power_kw", "discharge_power_kw", "cycle_count"}
  BY <1>3 DEF FieldsOf, Checks
<1>7. QED
  BY <1>1, <1>4, <1>5, <1>6

(* A set of indices that is not empty has a least one, which Min names.    *)
LEMMA LeastIndex ==
  ASSUME NEW S \in SUBSET Nat, S # {}
  PROVE  Min(S) \in S /\ \A i \in S : Min(S) <= i
<1>1. PICK m \in S : \A i \in S : <<i, m>> \notin OpToRel(<, Nat)
  BY NatLessThanWellFounded, WFMin
<1>2. \A i \in S : ~(i < m)
  BY <1>1, Zenon DEF OpToRel
<1>3. \A i \in S : m <= i
  BY <1>2
<1>4. QED
  BY <1>3 DEF Min

(* A row is accepted exactly if each of its fields passes.                 *)
LEMMA AcceptedIfAllPass ==
  ASSUME NEW type \in ImportTypes, NEW format, NEW caps, NEW cells
  PROVE  Judge(type, format, caps, cells) = "accepted" <=> AllPass(type, format, caps, cells)
<1> DEFINE failing == {i \in DOMAIN Checks[type] :
                         ~Passes(format, caps, Checks[type][i], cells[Checks[type][i]])}
<1>1. Judge(type, format, caps, cells) =
        IF failing = {} THEN "accepted" ELSE Checks[type][Min(failing)]
  BY DEF Judge
<1>2. failing = {} <=> AllPass(type, format, caps, cells)
  BY DEF AllPass, FieldsOf
<1>3. DOMAIN Checks[type] \subseteq Nat
  BY TypesAndFields DEF Checks
<1>4. failing # {} => Checks[type][Min(failing)] \in FieldsOf(type)
  <2> SUFFICES ASSUME failing # {} PROVE Checks[type][Min(failing)] \in FieldsOf(type)
    OBVIOUS
  <2>1. failing \in SUBSET Nat
    BY <1>3
  <2>2. Min(failing) \in failing
    BY <2>1, LeastIndex
  <2>3. QED
    BY <2>2 DEF FieldsOf
<1>5. "accepted" \notin FieldsOf(type)
  BY TypesAndFields
<1>6. QED
  BY <1>1, <1>2, <1>4, <1>5

(* Writing a cell in percent and reading it back gives the cell.           *)
LEMMA UnitsCancel ==
  ASSUME NEW vendor \in Vendors, NEW row \in Row("storage_operation")
  PROVE  /\ Written(vendor, row) \in Row("storage_operation")
         /\ \A f \in FieldsOf("storage_operation") \ {"soc"} : Written(vendor, row)[f] = row[f]
         /\ Written(vendor, row)["soc"].is = row["soc"].is
         /\ TransformSoc(vendor, Written(vendor, row)["soc"].n) = row["soc"].n
         /\ NotNegative(Written(vendor, row)["soc"]) <=> NotNegative(row["soc"])
<1> DEFINE F == {"trading_date", "period", "soc",
                 "charge_power_kw", "discharge_power_kw", "cycle_count"}
<1>1. FieldsOf("storage_operation") = F
  BY TypesAndFields
<1>2. row \in [F -> Cell] /\ row["soc"].n \in Int /\ row["soc"] \in Cell
  BY <1>1 DEF Row, Cell
<1>3. CASE vendor \in Percent
  <2>1. Written(vendor, row) =
          [row EXCEPT !["soc"] = [row["soc"] EXCEPT !.n = 100 * row["soc"].n]]
    BY <1>3 DEF Written
  <2> DEFINE cell == [row["soc"] EXCEPT !.n = 100 * row["soc"].n]
  <2>2. cell \in Cell /\ cell.is = row["soc"].is /\ cell.n = 100 * row["soc"].n
    BY <1>2 DEF Cell
  <2>3. (100 * row["soc"].n) \div 100 = row["soc"].n
    BY <1>2
  <2>4. /\ Written(vendor, row) \in [F -> Cell]
        /\ \A f \in F \ {"soc"} : Written(vendor, row)[f] = row[f]
        /\ Written(vendor, row)["soc"] = cell
    BY <1>2, <2>1, <2>2
  <2>5. NotNegative(cell) <=> NotNegative(row["soc"])
    BY <1>2, <2>2 DEF NotNegative
  <2>6. QED
    BY <1>1, <1>3, <2>2, <2>3, <2>4, <2>5 DEF Row, TransformSoc
<1>4. CASE vendor \notin Percent
  BY <1>1, <1>2, <1>4 DEF Row, Written, TransformSoc
<1>5. QED
  BY <1>3, <1>4

(* A storage row is judged as its vendor measured it, whatever the format. *)
LEMMA FormatsAgree ==
  ASSUME NEW vendor \in Vendors, NEW row \in Row("storage_operation"), NEW caps
  PROVE  Judge("storage_operation", vendor, caps, Written(vendor, row))
           = Judge("storage_operation", "standard", NoCaps, row)
<1> DEFINE type == "storage_operation"
           passed(f) == Passes(vendor, caps, f, Written(vendor, row)[f])
           passes(f) == Passes("standard", NoCaps, f, row[f])
<1>1. FieldsOf(type) =
        {"trading_date", "period", "soc", "charge_power_kw", "discharge_power_kw", "cycle_count"}
  BY TypesAndFields
<1>2. ASSUME NEW f \in FieldsOf(type)
      PROVE  passed(f) <=> passes(f)
  <2>1. CASE f = "soc"
    BY <2>1, UnitsCancel DEF Passes, TransformSoc, Percent
  <2>2. CASE f # "soc"
    BY <1>1, <2>2, UnitsCancel DEF Passes
  <2>3. QED
    BY <2>1, <2>2
<1>3. \A i \in DOMAIN Checks[type] : Checks[type][i] \in FieldsOf(type)
  BY DEF FieldsOf
<1>4. {i \in DOMAIN Checks[type] : ~passed(Checks[type][i])}
        = {i \in DOMAIN Checks[type] : ~passes(Checks[type][i])}
  BY <1>2, <1>3
<1>5. QED
  BY <1>4 DEF Judge

(* What passes the checks of a row passes those of a correction, in the    *)
(* notation of corrections.                                                *)
LEMMA PassesAreCorrectable ==
  ASSUME NEW type \in ImportTypes, NEW vendor \in Vendors, NEW caps,
         type # "storage_operation" => vendor = "standard",
         NEW row \in Row(type), AllPass(type, vendor, caps, Written(vendor, row)),
         NEW f \in DOMAIN row
  PROVE  Correctable(f, Meant(row[f]))
<1>1. f \in FieldsOf(type)
  BY DEF Row
<1>2. Passes(vendor, caps, f, Written(vendor, row)[f])
  BY <1>1 DEF AllPass
<1>3. CASE type # "storage_operation"
  <2>1. Written(vendor, row) = row
    BY <1>3 DEF Written, Percent
  <2>2. f \in {"trading_date", "period", "clearing_price", "actual_output_kw"}
    BY <1>1, <1>3, TypesAndFields
  <2>3. QED
    BY <1>2, <2>1, <2>2 DEF Passes, Correctable, Meant, NotNegative, PeriodFits
<1>4. CASE type = "storage_operation"
  <2>1. f \in {"trading_date", "period", "soc",
                "charge_power_kw", "discharge_power_kw", "cycle_count"}
    BY <1>1, <1>4, TypesAndFields
  <2>2. CASE f = "soc"
    BY <1>2, <1>4, <2>2, UnitsCancel DEF Passes, Correctable, Meant, NotNegative
  <2>3. CASE f # "soc"
    <3>1. Written(vendor, row)[f] = row[f]
      BY <1>1, <1>4, <2>3, UnitsCancel
    <3>2. QED
      BY <1>2, <2>1, <2>3, <3>1 DEF Passes, Correctable, Meant, NotNegative, PeriodFits
  <2>4. QED
    BY <2>2, <2>3
<1>5. QED
  BY <1>3, <1>4

(* A row that is not accepted fails the check that its verdict names.      *)
LEMMA VerdictFails ==
  ASSUME NEW type \in ImportTypes, NEW format, NEW caps, NEW cells,
         Judge(type, format, caps, cells) # "accepted"
  PROVE  LET f == Judge(type, format, caps, cells)
         IN  f \in FieldsOf(type) /\ ~Passes(format, caps, f, cells[f])
<1> DEFINE failing == {i \in DOMAIN Checks[type] :
                         ~Passes(format, caps, Checks[type][i], cells[Checks[type][i]])}
<1>1. Judge(type, format, caps, cells) =
        IF failing = {} THEN "accepted" ELSE Checks[type][Min(failing)]
  BY DEF Judge
<1>2. failing # {} /\ failing \in SUBSET Nat
  BY <1>1, TypesAndFields DEF Checks
<1>3. Min(failing) \in failing
  BY <1>2, LeastIndex
<1>4. QED
  BY <1>1, <1>2, <1>3 DEF FieldsOf

(* A storage check or that of the period turns away what a correction with *)
(* the same cell does not let in.                                          *)
LEMMA RejectedAreRefused ==
  ASSUME NEW type \in ImportTypes, NEW vendor \in Vendors, NEW caps,
         type # "storage_operation" => vendor = "standard",
         NEW row \in Row(type), NEW f \in StrictFields,
         f = Judge(type, vendor, caps, Written(vendor, row))
  PROVE  ~Correctable(f, row[f])
<1>1. f # "accepted"
  BY DEF StrictFields
<1>2. f \in FieldsOf(type) /\ ~Passes(vendor, caps, f, Written(vendor, row)[f])
  BY <1>1, VerdictFails
<1>3. CASE type # "storage_operation"
  <2>1. Written(vendor, row) = row
    BY <1>3 DEF Written, Percent
  <2>2. f = "period"
    BY <1>2, <1>3, TypesAndFields DEF StrictFields
  <2>3. QED
    BY <1>2, <2>1, <2>2 DEF Passes, Correctable
<1>4. CASE type = "storage_operation"
  <2>1. CASE f = "soc"
    BY <1>2, <1>4, <2>1, UnitsCancel DEF Passes, Correctable
  <2>2. CASE f # "soc"
    <3>1. Written(vendor, row)[f] = row[f]
      BY <1>2, <1>4, <2>2, UnitsCancel
    <3>2. QED
      BY <1>2, <2>2, <3>1 DEF Passes, Correctable, StrictFields
  <2>3. QED
    BY <2>1, <2>2
<1>5. QED
  BY <1>3, <1>4

-----------------------------------------------------------------------------
(* The run.                                                                *)

CapsOf(c) ==
  IF c = NoRule THEN NoCaps ELSE [lower |-> c.price_cap_lower, upper |-> c.price_cap_upper]

SomeCaps == {CapsOf(c) : c \in Contents \cup {NoRule}}
Newest == [at : Int \X Int, soc : 0 .. Unit]
Batches == Seq(UNION {Row(t) : t \in ImportTypes})
Runs == [on : {TRUE}, type : ImportTypes, vendor : Vendors, format : Vendors,
         caps : SomeCaps,
         read : 0 .. MaxRows, accepted : Batches,
         anomalies : 0 .. BatchSize, newest : {NoSoc} \cup Newest, before : SUBSET (Int \X Int)]

RunShape == run = Idle \/ run \in Runs

(* A run reads files of its format only, and caps judge prices only.       *)
Opened == run.on =>
  /\ run.vendor = run.format
  /\ run.type # "storage_operation" => run.format = "standard"
  /\ run.type # "trading_data" => run.caps = NoCaps

(* Whatever waits to be inserted has passed every check.                   *)
AcceptedPass == run.on =>
  \A i \in DOMAIN run.accepted :
    /\ run.accepted[i] \in Row(run.type)
    /\ AllPass(run.type, run.format, run.caps, run.accepted[i])

(* Every row of the run was judged by the caps that the run has read.      *)
Judged == run.on =>
  \A v \in judged :
    /\ v.row \in Rows[run.type]
    /\ v.verdict = Judge(run.type, run.format, run.caps, Written(run.vendor, v.row))

(* Corrections hold a field to what the run has held it to.                *)
CorrectionsAgree ==
  \A v \in judged :
    /\ v.verdict = "accepted" => \A f \in DOMAIN v.row : Correctable(f, Meant(v.row[f]))
    /\ v.verdict \in StrictFields => ~Correctable(v.verdict, v.row[v.verdict])

BatchFits == run.on =>
  Len(run.accepted) <= BatchSize /\ Len(run.accepted) + run.anomalies <= run.read

FitColumns(table) ==
  \A k \in DOMAIN table :
    /\ k \in Int \X Int /\ k[2] \in 1 .. Periods
    /\ table[k] \in Int /\ table[k] <= Column

RecordsFit == DOMAIN records = ImportTypes /\ \A t \in ImportTypes : FitColumns(records[t])

IsFirst(batch, at, i) ==
  At(batch[i]) = at /\ \A j \in 1 .. i - 1 : At(batch[j]) # at

(* The newest SOC of a run is that of no earlier period than any it has    *)
(* brought, and it is stored for its period or the first in the batch that *)
(* will be, unless the period is not the run's own.                        *)
NewestIsLast(newest, batch, stored, before, format) ==
  IF newest = NoSoc THEN batch = <<>> /\ DOMAIN stored \subseteq before
  ELSE /\ \A k \in DOMAIN stored \ before : ~Later(k, newest.at)
       /\ \A i \in DOMAIN batch : ~Later(At(batch[i]), newest.at)
       /\ \/ newest.at \in before
          \/ newest.at \in DOMAIN stored /\ stored[newest.at] = newest.soc
          \/ /\ newest.at \notin DOMAIN stored
             /\ \E i \in DOMAIN batch :
                  /\ IsFirst(batch, newest.at, i)
                  /\ newest.soc = ValueOf("storage_operation", format, batch[i])

NewestStored == run.on =>
  IF run.type = "storage_operation"
  THEN NewestIsLast(run.newest, run.accepted, records["storage_operation"], run.before, run.format)
  ELSE run.newest = NoSoc

RowSafe ==
  /\ RuleSafe /\ RunShape /\ imports \in 0 .. MaxImports /\ soc \in (0 .. Unit) \cup {NoSoc}
  /\ Opened /\ AcceptedPass /\ Judged /\ CorrectionsAgree /\ BatchFits
  /\ RecordsFit /\ NewestStored

(* The mark for no value is no value.                                      *)
LEMMA SocsAreNoNoSoc == NoSoc \notin Newest
BY ImportRowsAssumption, MarketRulesAssumption DEF Newest

(* The key and the value of a row that passes fit their columns.           *)
LEMMA RowFits ==
  ASSUME NEW type \in ImportTypes, NEW format \in Vendors, NEW caps,
         NEW cells \in Row(type), AllPass(type, format, caps, cells)
  PROVE  /\ At(cells) \in Int \X Int /\ At(cells)[2] \in 1 .. Periods
         /\ ValueOf(type, format, cells) \in Int
         /\ ~Overflows(cells) => ValueOf(type, format, cells) <= Column
         /\ type = "storage_operation" => ValueOf(type, format, cells) \in 0 .. Unit
<1> USE ImportRowsAssumption, MarketRulesAssumption
<1>1. cells \in [FieldsOf(type) -> Cell]
  BY DEF Row
<1>2. \A f \in FieldsOf(type) : Passes(format, caps, f, cells[f])
  BY DEF AllPass
<1>3. {"trading_date", "period"} \subseteq FieldsOf(type)
  BY TypesAndFields
<1>4. cells["trading_date"] \in Cell /\ cells["period"] \in Cell /\ PeriodFits(cells["period"])
  BY <1>1, <1>2, <1>3 DEF Passes
<1>5. At(cells) \in Int \X Int /\ At(cells)[2] \in 1 .. Periods
  BY <1>4 DEF At, PeriodFits, Cell
<1>6. ASSUME NEW f \in FieldsOf(type), cells[f].is = "number", ~Overflows(cells)
      PROVE  cells[f].n <= Column
  BY <1>1, <1>6 DEF Overflows, Cell
<1>7. CASE type = "trading_data"
  <2>1. "clearing_price" \in FieldsOf(type)
    BY <1>7, TypesAndFields
  <2>2. cells["clearing_price"] \in Cell /\ cells["clearing_price"].is = "number"
    BY <1>1, <1>2, <2>1 DEF Passes
  <2>3. ValueOf(type, format, cells) = cells["clearing_price"].n
    BY <1>7 DEF ValueOf
  <2>4. QED
    BY <1>5, <1>6, <1>7, <2>1, <2>2, <2>3 DEF Cell
<1>8. CASE type = "station_output"
  <2>1. "actual_output_kw" \in FieldsOf(type)
    BY <1>8, TypesAndFields
  <2>2. cells["actual_output_kw"] \in Cell /\ cells["actual_output_kw"].is = "number"
    BY <1>1, <1>2, <2>1 DEF Passes, NotNegative
  <2>3. ValueOf(type, format, cells) = cells["actual_output_kw"].n
    BY <1>8 DEF ValueOf
  <2>4. QED
    BY <1>5, <1>6, <1>8, <2>1, <2>2, <2>3 DEF Cell
<1>9. CASE type = "storage_operation"
  <2>1. "soc" \in FieldsOf(type)
    BY <1>9, TypesAndFields
  <2>2. /\ cells["soc"] \in Cell /\ cells["soc"].is = "number" /\ cells["soc"].n >= 0
        /\ TransformSoc(format, cells["soc"].n) <= Unit
    BY <1>1, <1>2, <2>1 DEF Passes, NotNegative
  <2>3. ValueOf(type, format, cells) = TransformSoc(format, cells["soc"].n)
    BY <1>9 DEF ValueOf
  <2>4. TransformSoc(format, cells["soc"].n) \in 0 .. cells["soc"].n
    BY <2>2 DEF TransformSoc, Cell
  <2>5. QED
    BY <1>5, <1>6, <1>9, <2>1, <2>2, <2>3, <2>4 DEF Cell
<1>10. QED
  BY <1>7, <1>8, <1>9, TypesAndFields

(* There is no run in the beginning.                                       *)
LEMMA RowBegins == Init => RowSafe
<1> SUFFICES ASSUME Init PROVE RowSafe
  OBVIOUS
<1> USE ImportRowsAssumption, MarketRulesAssumption
<1>1. RuleSafe
  BY RuleBegins DEF Init
<1>2. run = Idle /\ ~run.on /\ judged = {}
  BY DEF Init, Idle
<1>3. RecordsFit
  BY DEF Init, RecordsFit, FitColumns
<1>4. imports \in 0 .. MaxImports /\ soc \in (0 .. Unit) \cup {NoSoc}
  BY DEF Init
<1>5. QED
  BY <1>1, <1>2, <1>3, <1>4
  DEF RowSafe, RunShape, Opened, AcceptedPass, Judged, CorrectionsAgree, BatchFits,
      NewestStored

(* A run that ends leaves nothing to know about it.                        *)
LEMMA RunEnds ==
  ASSUME RowSafe, run' = Idle, RuleSafe', imports' \in 0 .. MaxImports,
         soc' \in (0 .. Unit) \cup {NoSoc}, judged' \subseteq judged, RecordsFit'
  PROVE  RowSafe'
<1>1. ~run'.on
  BY DEF Idle
<1>2. CorrectionsAgree'
  BY DEF RowSafe, CorrectionsAgree
<1>3. QED
  BY <1>1, <1>2 DEF RowSafe, RunShape, Opened, AcceptedPass, Judged, BatchFits, NewestStored

(* The caps that a run reads are those of the rule, or none.               *)
LEMMA CapsAreSome ==
  ASSUME RuleSafe, NEW type
  PROVE  Caps(type) \in SomeCaps /\ (type # "trading_data" => Caps(type) = NoCaps)
<1>1. rule \in Contents \cup {NoRule} /\ (inForce => rule # NoRule)
  BY DEF RuleSafe, RuleTypeOK
<1>2. CapsOf(NoRule) = NoCaps /\ CapsOf(NoRule) \in SomeCaps
  BY DEF CapsOf, SomeCaps
<1>3. rule # NoRule => /\ CapsOf(rule) =
                            [lower |-> rule.price_cap_lower, upper |-> rule.price_cap_upper]
                       /\ CapsOf(rule) \in SomeCaps
  BY <1>1 DEF CapsOf, SomeCaps
<1>4. QED
  BY <1>1, <1>2, <1>3 DEF Caps

(* A run begins with the caps of the rule in force, if there are any.      *)
LEMMA BeginSafe ==
  ASSUME RowSafe, NEW type \in ImportTypes, NEW vendor \in Vendors, NEW format \in Vendors,
         Begin(type, vendor, format)
  PROVE  RowSafe'
<1> USE ImportRowsAssumption, MarketRulesAssumption
<1>1. /\ imports' \in 0 .. MaxImports /\ judged' = {}
      /\ UNCHANGED <<records, soc>> /\ UNCHANGED ruleVars
  BY DEF Begin, RowSafe
<1>2. RuleSafe'
  BY <1>1 DEF RowSafe, RuleSafe, RuleTypeOK, RuleIsLatest, LoadedIsStored, ruleVars
<1>3. RecordsFit'
  BY <1>1 DEF RowSafe, RecordsFit, FitColumns
<1>4. CASE run' = Idle
  BY <1>1, <1>2, <1>3, <1>4, RunEnds DEF RowSafe
<1>5. CASE run' # Idle
  <2>1. /\ vendor = format
        /\ run' = [on |-> TRUE, type |-> type, vendor |-> vendor, format |-> format,
                   caps |-> Caps(type), read |-> 0, accepted |-> <<>>, anomalies |-> 0,
                   newest |-> NoSoc, before |-> DOMAIN records[type]]
        /\ type # "storage_operation" => format = "standard"
    BY <1>5 DEF Begin, ColumnsFound
  <2>2. Caps(type) \in SomeCaps /\ (type # "trading_data" => Caps(type) = NoCaps)
    BY CapsAreSome DEF RowSafe
  <2>3. DOMAIN records[type] \subseteq Int \X Int
    BY DEF RowSafe, RecordsFit, FitColumns
  <2>4. <<>> \in Batches /\ Len(<<>>) = 0
    BY EmptySeq DEF Batches
  <2>5. run' \in Runs
    BY <2>1, <2>2, <2>3, <2>4 DEF Runs
  <2>6. Opened' /\ Judged' /\ CorrectionsAgree' /\ BatchFits'
    BY <1>1, <2>1, <2>2, <2>4 DEF Opened, Judged, CorrectionsAgree, BatchFits
  <2>7. AcceptedPass'
    BY <2>1 DEF AcceptedPass
  <2>8. NewestStored'
    BY <1>1, <2>1 DEF NewestStored, NewestIsLast
  <2>9. QED
    BY <1>1, <1>2, <1>3, <2>5, <2>6, <2>7, <2>8 DEF RowSafe, RunShape
<1>6. QED
  BY <1>4, <1>5

(* Later is a strict order of periods.                                     *)
LEMMA LaterIsTransitive ==
  ASSUME NEW a \in Int \X Int, NEW b \in Int \X Int, NEW c \in Int \X Int
  PROVE  /\ ~Later(a, a)
         /\ Later(a, b) /\ Later(b, c) => Later(a, c)
BY DEF Later

(* A row is judged, and accepted or recorded as an anomaly.                *)
LEMMA ReadRowSafe ==
  ASSUME RowSafe, run.on, NEW row \in Rows[run.type], ReadRow(row)
  PROVE  RowSafe'
<1> DEFINE cells == Written(run.vendor, row)
           verdict == Judge(run.type, run.format, run.caps, cells)
           type == run.type
           at == At(cells)
           first == type = "storage_operation" /\ (run.newest = NoSoc \/ Later(at, run.newest.at))
           newest == IF first THEN [at |-> at, soc |-> ValueOf(type, run.format, cells)]
                     ELSE run.newest
<1>0. MaxRows \in Nat /\ BatchSize \in Nat /\ Unit \in Nat
  BY ImportRowsAssumption, MarketRulesAssumption
<1>1. /\ run \in Runs /\ type \in ImportTypes /\ run.vendor \in Vendors /\ run.format = run.vendor
      /\ type # "storage_operation" => run.vendor = "standard"
  <2>1. run \in Runs
    BY DEF RowSafe, RunShape, Idle
  <2>2. QED
    BY <2>1 DEF RowSafe, Runs, Opened
<1>2. row \in Row(type)
  BY <1>1, ImportRowsAssumption DEF Row, FieldsOf
<1>3. cells \in Row(type)
  <2>1. CASE type = "storage_operation"
    BY <1>1, <1>2, <2>1, UnitsCancel
  <2>2. CASE type # "storage_operation"
    BY <1>1, <1>2, <2>2 DEF Written, Percent
  <2>3. QED
    BY <2>1, <2>2
<1>4. verdict = "accepted" <=> AllPass(type, run.format, run.caps, cells)
  BY <1>1, AcceptedIfAllPass
<1>5. /\ ~Full /\ run.read < MaxRows
      /\ judged' = judged \cup {[row |-> row, verdict |-> verdict]}
      /\ UNCHANGED <<imports, records, soc>> /\ UNCHANGED ruleVars
      /\ run' = IF verdict = "accepted"
                THEN [run EXCEPT !.read = run.read + 1,
                                 !.accepted = Append(run.accepted, cells),
                                 !.newest = newest]
                ELSE [run EXCEPT !.read = run.read + 1, !.anomalies = run.anomalies + 1]
  BY DEF ReadRow, RowCaps
<1> HIDE DEF cells, verdict, newest, at
<1>6. RuleSafe' /\ RecordsFit'
  BY <1>5
  DEF RowSafe, RuleSafe, RuleTypeOK, RuleIsLatest, LoadedIsStored, ruleVars, RecordsFit,
      FitColumns
<1>7. /\ run'.on /\ run'.type = type /\ run'.vendor = run.vendor /\ run'.format = run.format
      /\ run'.caps = run.caps /\ run'.before = run.before
  BY <1>1, <1>5 DEF Runs
<1>8. Opened'
  BY <1>7 DEF RowSafe, Opened
<1>9. Judged'
  BY <1>5, <1>7 DEF RowSafe, Judged, cells, verdict
<1>10. CorrectionsAgree'
  <2>1. verdict = "accepted" => \A f \in DOMAIN row : Correctable(f, Meant(row[f]))
    BY <1>1, <1>2, <1>4, PassesAreCorrectable DEF cells
  <2>2. verdict \in StrictFields => ~Correctable(verdict, row[verdict])
    BY <1>1, <1>2, RejectedAreRefused DEF cells, verdict
  <2>3. QED
    BY <1>5, <2>1, <2>2 DEF RowSafe, CorrectionsAgree
<1>11. /\ run.accepted \in Batches /\ Len(run.accepted) \in Nat
       /\ run.read \in 0 .. MaxRows - 1 /\ run.anomalies \in 0 .. BatchSize - 1
       /\ Len(run.accepted) < BatchSize
  <2>1. /\ run.accepted \in Batches /\ run.read \in 0 .. MaxRows
        /\ run.anomalies \in 0 .. BatchSize
    BY <1>1 DEF Runs
  <2>2. Len(run.accepted) \in Nat
    BY <2>1, LenProperties DEF Batches
  <2>3. QED
    BY <1>5, <1>0, <2>1, <2>2 DEF Full
<1>12. CASE verdict # "accepted"
  <2>1. run' \in Runs
    <3>1. run' = [run EXCEPT !.read = run.read + 1, !.anomalies = run.anomalies + 1]
      BY <1>5, <1>12
    <3>2. run.read + 1 \in 0 .. MaxRows /\ run.anomalies + 1 \in 0 .. BatchSize
      BY <1>0, <1>11
    <3>3. QED
      BY <1>1, <3>1, <3>2 DEF Runs
  <2>2. /\ run'.accepted = run.accepted /\ run'.newest = run.newest
        /\ run'.read = run.read + 1 /\ run'.anomalies = run.anomalies + 1
    BY <1>1, <1>5, <1>12 DEF Runs
  <2>3. AcceptedPass' /\ BatchFits'
    BY <1>7, <1>11, <2>2 DEF RowSafe, AcceptedPass, BatchFits
  <2>4. NewestStored'
    BY <1>5, <1>7, <2>2 DEF RowSafe, NewestStored
  <2>5. QED
    BY <1>5, <1>6, <1>8, <1>9, <1>10, <2>1, <2>3, <2>4 DEF RowSafe, RunShape
<1>13. CASE verdict = "accepted"
  <2>1. /\ at \in Int \X Int /\ at[2] \in 1 .. Periods
        /\ type = "storage_operation" => ValueOf(type, run.format, cells) \in 0 .. Unit
    BY <1>1, <1>3, <1>4, <1>13, RowFits DEF at
  <2>2. /\ run'.accepted = Append(run.accepted, cells) /\ run'.newest = newest
        /\ run'.read = run.read + 1 /\ run'.anomalies = run.anomalies
    BY <1>1, <1>5, <1>13 DEF Runs
  <2>3. cells \in UNION {Row(t) : t \in ImportTypes}
    BY <1>1, <1>3
  <2>4. /\ run'.accepted \in Batches
        /\ Len(run'.accepted) = Len(run.accepted) + 1
        /\ \A i \in 1 .. Len(run.accepted) : run'.accepted[i] = run.accepted[i]
        /\ run'.accepted[Len(run.accepted) + 1] = cells
    BY <1>11, <2>2, <2>3, AppendProperties DEF Batches
  <2>5. /\ DOMAIN run.accepted = 1 .. Len(run.accepted)
        /\ DOMAIN run'.accepted = 1 .. Len(run.accepted) + 1
    BY <1>11, <2>4, LenProperties DEF Batches
  <2>6. newest \in {NoSoc} \cup Newest
    <3>1. CASE first
      <4>1. [at |-> at, soc |-> ValueOf(type, run.format, cells)] \in Newest
        BY <2>1, <3>1 DEF Newest
      <4>2. QED
        BY <3>1, <4>1 DEF newest
    <3>2. CASE ~first
      BY <1>1, <3>2 DEF Runs, newest
    <3>3. QED
      BY <3>1, <3>2
  <2>7. run' \in Runs
    <3>1. run' = [run EXCEPT !.read = run.read + 1, !.accepted = run'.accepted,
                             !.newest = newest]
      BY <1>5, <1>13, <2>2
    <3>2. run.read + 1 \in 0 .. MaxRows
      BY <1>0, <1>11
    <3>3. QED
      BY <1>1, <2>4, <2>6, <3>1, <3>2 DEF Runs
  <2>8. AcceptedPass'
    BY <1>3, <1>4, <1>7, <1>13, <2>4, <2>5, SMTT(30) DEF RowSafe, AcceptedPass
  <2>9. BatchFits'
    <3>1. Len(run.accepted) + run.anomalies <= run.read
      BY DEF RowSafe, BatchFits
    <3>2. /\ Len(run'.accepted) <= BatchSize
          /\ Len(run'.accepted) + run'.anomalies <= run'.read
      BY <1>0, <1>11, <2>2, <2>4, <3>1
    <3>3. QED
      BY <3>2 DEF BatchFits
  <2>10. NewestStored'
    <3>1. CASE type # "storage_operation"
      BY <1>7, <2>2, <3>1 DEF RowSafe, NewestStored, newest
    <3>2. CASE type = "storage_operation"
      <4> DEFINE stored == records["storage_operation"]
      <4>1. NewestIsLast(run.newest, run.accepted, stored, run.before, run.format)
        BY <3>2 DEF RowSafe, NewestStored
      <4>2. /\ \A k \in DOMAIN stored : k \in Int \X Int
            /\ \A i \in 1 .. Len(run.accepted) : At(run.accepted[i]) \in Int \X Int
        BY <1>1, <2>5, <3>2, RowFits DEF RowSafe, RecordsFit, FitColumns, AcceptedPass
      <4>3. CASE first
        <5>1. newest.at = at /\ newest.soc = ValueOf(type, run.format, cells) /\ newest # NoSoc
          BY <2>1, <3>2, <4>3, SocsAreNoNoSoc DEF newest, Newest
        <5>2. \A k \in DOMAIN stored \ run.before : ~Later(k, at) /\ k # at
          BY <2>1, <4>1, <4>2, <4>3, <1>1, LaterIsTransitive DEF NewestIsLast, Runs, Newest
        <5>3. \A i \in 1 .. Len(run.accepted) :
                ~Later(At(run.accepted[i]), at) /\ At(run.accepted[i]) # at
          <6>1. CASE run.newest = NoSoc
            <7>1. run.accepted = <<>>
              BY <4>1, <6>1 DEF NewestIsLast
            <7>2. QED
              BY <7>1
          <6>2. CASE run.newest # NoSoc
            <7>1. \A i \in 1 .. Len(run.accepted) : ~Later(At(run.accepted[i]), run.newest.at)
              BY <2>5, <4>1, <6>2 DEF NewestIsLast
            <7>2. Later(at, run.newest.at) /\ run.newest.at \in Int \X Int
              BY <1>1, <4>3, <6>2 DEF Runs, Newest
            <7>3. QED
              BY <2>1, <4>2, <7>1, <7>2, LaterIsTransitive
          <6>3. QED
            BY <6>1, <6>2
        <5>4. IsFirst(run'.accepted, at, Len(run.accepted) + 1)
          BY <1>11, <2>4, <5>3 DEF IsFirst, at
        <5>5. \A i \in DOMAIN run'.accepted : ~Later(At(run'.accepted[i]), at)
          <6>1. ~Later(at, at)
            BY <2>1, LaterIsTransitive
          <6>2. QED
            BY <1>11, <2>4, <2>5, <5>3, <6>1 DEF at
        <5>6. NewestIsLast(newest, run'.accepted, stored, run.before, run.format)
          BY <1>11, <2>4, <2>5, <3>2, <5>1, <5>2, <5>4, <5>5 DEF NewestIsLast
        <5>7. QED
          BY <1>5, <1>7, <2>2, <3>2, <5>6 DEF NewestStored
      <4>4. CASE ~first
        <5>1. newest = run.newest /\ run.newest # NoSoc /\ ~Later(at, run.newest.at)
          BY <3>2, <4>4 DEF newest
        <5>2. \A i \in 1 .. Len(run.accepted) :
                IsFirst(run.accepted, run.newest.at, i) => IsFirst(run'.accepted, run.newest.at, i)
          BY <1>11, <2>4, SMTT(30) DEF IsFirst
        <5>3. \A i \in DOMAIN run'.accepted : ~Later(At(run'.accepted[i]), run.newest.at)
          BY <1>11, <2>4, <2>5, <4>1, <5>1 DEF NewestIsLast, at
        <5>4. NewestIsLast(newest, run'.accepted, stored, run.before, run.format)
          BY <1>11, <2>4, <2>5, <4>1, <5>1, <5>2, <5>3 DEF NewestIsLast
        <5>5. QED
          BY <1>5, <1>7, <2>2, <3>2, <5>4 DEF NewestStored
      <4>5. QED
        BY <4>3, <4>4
    <3>3. QED
      BY <3>1, <3>2
  <2>11. QED
    BY <1>5, <1>6, <1>8, <1>9, <1>10, <2>7, <2>8, <2>9, <2>10 DEF RowSafe, RunShape
<1>14. QED
  BY <1>12, <1>13

(* What a batch leaves in the records: nothing stored changes, everything  *)
(* fits its columns, and of the rows for one period the first one counts.  *)
LEMMA InsertedRows ==
  ASSUME RowSafe, run.on, Insertable
  PROVE  /\ DOMAIN Inserted =
              DOMAIN records[run.type] \cup {At(run.accepted[i]) : i \in DOMAIN run.accepted}
         /\ \A k \in DOMAIN records[run.type] : Inserted[k] = records[run.type][k]
         /\ FitColumns(Inserted)
         /\ \A i \in DOMAIN run.accepted : \A at :
              at \notin DOMAIN records[run.type] /\ IsFirst(run.accepted, at, i)
                => Inserted[at] = ValueOf(run.type, run.format, run.accepted[i])
<1> DEFINE batch == run.accepted
           old == records[run.type]
           keys == DOMAIN old \cup {At(batch[i]) : i \in DOMAIN batch}
           Of(k) == {i \in DOMAIN batch : At(batch[i]) = k}
           value(i) == ValueOf(run.type, run.format, batch[i])
<1>1. Inserted = [k \in keys |-> IF k \in DOMAIN old THEN old[k] ELSE value(Min(Of(k)))]
  BY DEF Inserted
<1>2. run \in Runs
  BY DEF RowSafe, RunShape, Idle
<1>3. run.type \in ImportTypes /\ run.format \in Vendors /\ batch \in Batches
  BY <1>2 DEF Runs
<1>4. DOMAIN batch = 1 .. Len(batch) /\ Len(batch) \in Nat
  BY <1>3, LenProperties DEF Batches
<1>5. ASSUME NEW i \in DOMAIN batch
      PROVE  /\ At(batch[i]) \in Int \X Int /\ At(batch[i])[2] \in 1 .. Periods
             /\ value(i) \in Int /\ value(i) <= Column
  <2>1. /\ batch[i] \in Row(run.type) /\ AllPass(run.type, run.format, run.caps, batch[i])
        /\ ~Overflows(batch[i])
    BY DEF RowSafe, AcceptedPass, Insertable
  <2>2. QED
    BY <1>3, <2>1, RowFits
<1>6. ASSUME NEW k \in keys \ DOMAIN old
      PROVE  Min(Of(k)) \in Of(k) /\ \A i \in Of(k) : Min(Of(k)) <= i
  <2>1. Of(k) \in SUBSET Nat /\ Of(k) # {}
    BY <1>4
  <2>2. QED
    BY <2>1, LeastIndex
<1>7. FitColumns(old)
  BY <1>3 DEF RowSafe, RecordsFit
<1>8. FitColumns(Inserted)
  <2> SUFFICES ASSUME NEW k \in keys
               PROVE  /\ k \in Int \X Int /\ k[2] \in 1 .. Periods
                      /\ Inserted[k] \in Int /\ Inserted[k] <= Column
    BY <1>1 DEF FitColumns
  <2>1. CASE k \in DOMAIN old
    BY <1>1, <1>7, <2>1 DEF FitColumns
  <2>2. CASE k \notin DOMAIN old
    <3>1. Min(Of(k)) \in DOMAIN batch /\ At(batch[Min(Of(k))]) = k
      BY <1>6, <2>2
    <3>2. Inserted[k] = value(Min(Of(k)))
      BY <1>1, <2>2
    <3>3. QED
      BY <1>5, <3>1, <3>2
  <2>3. QED
    BY <2>1, <2>2
<1>9. ASSUME NEW i \in DOMAIN batch, NEW at, at \notin DOMAIN old, IsFirst(batch, at, i)
      PROVE  Inserted[at] = value(i)
  <2>1. At(batch[i]) = at /\ at \in keys /\ i \in Of(at)
    BY <1>9 DEF IsFirst
  <2>2. Min(Of(at)) \in Of(at) /\ Min(Of(at)) <= i
    BY <1>6, <1>9, <2>1, ZenonT(40)
  <2>3. Min(Of(at)) = i
    <3>1. \A m \in Of(at) : m \in 1 .. Len(batch) /\ ~(m \in 1 .. i - 1)
      BY <1>4, <1>9 DEF IsFirst
    <3>2. i \in Int
      BY <1>4
    <3> HIDE DEF Of
    <3>3. QED
      BY <1>4, <2>2, <3>1, <3>2
  <2>4. QED
    BY <1>1, <1>9, <2>1, <2>3
<1>10. QED
  BY <1>1, <1>8, <1>9

(* What a batch does to the records of all types.                          *)
LEMMA BatchStored ==
  ASSUME RowSafe, run.on, Insertable, records' = [records EXCEPT ![run.type] = Inserted]
  PROVE  RecordsFit' /\ records'[run.type] = Inserted
<1>1. run.type \in ImportTypes /\ DOMAIN records = ImportTypes
  <2>1. run \in Runs
    BY DEF RowSafe, RunShape, Idle
  <2>2. QED
    BY <2>1 DEF RowSafe, RecordsFit, Runs
<1>2. DOMAIN records' = ImportTypes /\ records'[run.type] = Inserted
      /\ \A t \in ImportTypes \ {run.type} : records'[t] = records[t]
  BY <1>1
<1>3. FitColumns(Inserted)
  BY InsertedRows
<1>4. \A t \in ImportTypes : FitColumns(records'[t])
  BY <1>2, <1>3 DEF RowSafe, RecordsFit
<1>5. QED
  BY <1>2, <1>4 DEF RecordsFit, FitColumns

(* A batch is stored at once; what the store holds already stays.          *)
LEMMA FlushBatchSafe == RowSafe /\ FlushBatch => RowSafe'
<1> SUFFICES ASSUME RowSafe, FlushBatch PROVE RowSafe'
  OBVIOUS
<1>1. /\ run.on /\ Insertable /\ records' = [records EXCEPT ![run.type] = Inserted]
      /\ run' = [run EXCEPT !.accepted = <<>>, !.anomalies = 0]
      /\ UNCHANGED <<imports, soc, judged>> /\ UNCHANGED ruleVars
  BY DEF FlushBatch
<1>2. run \in Runs
  BY <1>1 DEF RowSafe, RunShape, Idle
<1>3. /\ <<>> \in Batches /\ Len(<<>>) = 0 /\ 0 \in 0 .. BatchSize
      /\ run.read \in Nat
  BY <1>2, EmptySeq, ImportRowsAssumption DEF Batches, Runs
<1>4. run' \in Runs
  BY <1>1, <1>2, <1>3 DEF Runs
<1>5. /\ run'.on /\ run'.type = run.type /\ run'.vendor = run.vendor /\ run'.format = run.format
      /\ run'.caps = run.caps /\ run'.before = run.before /\ run'.newest = run.newest
      /\ run'.read = run.read /\ run'.accepted = <<>> /\ run'.anomalies = 0
  BY <1>1, <1>2 DEF Runs
<1>6. RuleSafe'
  BY <1>1 DEF RowSafe, RuleSafe, RuleTypeOK, RuleIsLatest, LoadedIsStored, ruleVars
<1>7. RecordsFit' /\ records'[run.type] = Inserted
  BY <1>1, BatchStored
<1>8. Opened' /\ AcceptedPass' /\ Judged' /\ CorrectionsAgree' /\ BatchFits'
  BY <1>1, <1>3, <1>5
  DEF RowSafe, Opened, AcceptedPass, Judged, CorrectionsAgree, BatchFits
<1>9. NewestStored'
  <2>1. CASE run.type # "storage_operation"
    BY <1>1, <1>5, <2>1 DEF RowSafe, NewestStored
  <2>2. CASE run.type = "storage_operation"
    <3> DEFINE old == records["storage_operation"]
               batch == run.accepted
               new == records'["storage_operation"]
    <3>1. NewestIsLast(run.newest, batch, old, run.before, run.format)
      BY <1>1, <2>2 DEF RowSafe, NewestStored
    <3>2. /\ DOMAIN new = DOMAIN old \cup {At(batch[i]) : i \in DOMAIN batch}
          /\ \A k \in DOMAIN old : new[k] = old[k]
          /\ \A i \in DOMAIN batch : \A at :
               at \notin DOMAIN old /\ IsFirst(batch, at, i)
                 => new[at] = ValueOf("storage_operation", run.format, batch[i])
      BY <1>1, <1>7, <2>2, InsertedRows
    <3>3. NewestIsLast(run.newest, <<>>, new, run.before, run.format)
      <4>1. CASE run.newest = NoSoc
        BY <3>1, <3>2, <4>1 DEF NewestIsLast
      <4>2. CASE run.newest # NoSoc
        <5>1. \A k \in DOMAIN new \ run.before : ~Later(k, run.newest.at)
          BY <3>1, <3>2, <4>2 DEF NewestIsLast
        <5>2. \/ run.newest.at \in run.before
              \/ run.newest.at \in DOMAIN new /\ new[run.newest.at] = run.newest.soc
          BY <3>1, <3>2, <4>2 DEF NewestIsLast, IsFirst
        <5>3. QED
          BY <4>2, <5>1, <5>2 DEF NewestIsLast
      <4>3. QED
        BY <4>1, <4>2
    <3>4. QED
      BY <1>5, <2>2, <3>3 DEF NewestStored
  <2>3. QED
    BY <2>1, <2>2
<1>10. QED
  BY <1>1, <1>4, <1>6, <1>7, <1>8, <1>9 DEF RowSafe, RunShape

(* The newest state of charge of the run is recorded at its end.           *)
LEMMA FinishSafe == RowSafe /\ Finish => RowSafe'
<1> SUFFICES ASSUME RowSafe, Finish PROVE RowSafe'
  OBVIOUS
<1>1. /\ run.on /\ Insertable /\ records' = [records EXCEPT ![run.type] = Inserted]
      /\ soc' = IF run.newest = NoSoc THEN soc ELSE run.newest.soc
      /\ run' = Idle /\ UNCHANGED <<imports, judged>> /\ UNCHANGED ruleVars
  BY DEF Finish
<1>2. RuleSafe'
  BY <1>1 DEF RowSafe, RuleSafe, RuleTypeOK, RuleIsLatest, LoadedIsStored, ruleVars
<1>3. RecordsFit'
  BY <1>1, BatchStored
<1>4. soc' \in (0 .. Unit) \cup {NoSoc}
  <2>1. run \in Runs
    BY <1>1 DEF RowSafe, RunShape, Idle
  <2>2. run.newest \in {NoSoc} \cup Newest
    BY <2>1 DEF Runs
  <2>3. QED
    BY <1>1, <2>2 DEF RowSafe, Newest
<1>5. QED
  BY <1>1, <1>2, <1>3, <1>4, RunEnds DEF RowSafe

(* A run whose batch fails ends there, with nothing stored.                *)
LEMMA FlushFailsSafe == RowSafe /\ FlushFails => RowSafe'
<1> SUFFICES ASSUME RowSafe, FlushFails PROVE RowSafe'
  OBVIOUS
<1>1. run' = Idle /\ UNCHANGED <<imports, records, soc, judged>> /\ UNCHANGED ruleVars
  BY DEF FlushFails
<1>2. RuleSafe'
  BY <1>1 DEF RowSafe, RuleSafe, RuleTypeOK, RuleIsLatest, LoadedIsStored, ruleVars
<1>3. RecordsFit'
  BY <1>1 DEF RowSafe, RecordsFit, FitColumns
<1>4. QED
  BY <1>1, <1>2, <1>3, RunEnds DEF RowSafe

(* Nothing about a run depends on the rule but the caps it has read.       *)
LEMMA RunUnchanged ==
  ASSUME RowSafe, RuleSafe', UNCHANGED rowVars
  PROVE  RowSafe'
BY DEF rowVars, RowSafe, RunShape, Opened, AcceptedPass, Judged, CorrectionsAgree,
       BatchFits, RecordsFit, FitColumns, NewestStored

(* Every step preserves RowSafe: those of the rule leave the run as it is. *)
LEMMA RowInvariance == Spec => []RowSafe
<1>1. Init => RowSafe
  BY RowBegins
<1>2. ASSUME RowSafe, [Next]_vars
      PROVE  RowSafe'
  <2>1. CASE RowNext
    BY <1>2, <2>1, BeginSafe, ReadRowSafe, FlushBatchSafe, FinishSafe, FlushFailsSafe
    DEF RowNext
  <2>2. CASE RuleNext /\ UNCHANGED rowVars
    <3>1. RuleSafe'
      BY <1>2, <2>2, RuleStepSafe DEF RowSafe
    <3>2. QED
      BY <1>2, <2>2, <3>1, RunUnchanged
  <2>3. CASE UNCHANGED vars
    <3>1. RuleSafe'
      BY <1>2, <2>3, RuleStepSafe DEF RowSafe, vars
    <3>2. QED
      BY <1>2, <2>3, <3>1, RunUnchanged DEF vars
  <2>4. QED
    BY <1>2, <2>1, <2>2, <2>3 DEF Next
<1>3. QED
  BY <1>1, <1>2, PTL DEF Spec

-----------------------------------------------------------------------------
(* The theorems.                                                           *)

(* Every variable keeps its type: for any rows, vendors and batches, a run *)
(* holds no more than a batch and no column more than it can.              *)
THEOREM TypeCorrect == Spec => []TypeOK
<1>1. RowSafe => TypeOK
  <2> SUFFICES ASSUME RowSafe PROVE TypeOK
    OBVIOUS
  <2>1. ASSUME run.on
        PROVE  /\ run.type \in ImportTypes /\ run.read \in 0 .. MaxRows
               /\ Len(run.accepted) <= BatchSize /\ run.anomalies \in 0 .. BatchSize
               /\ Len(run.accepted) + run.anomalies <= run.read
    <3>1. run \in Runs
      BY <2>1 DEF RowSafe, RunShape, Idle
    <3>2. QED
      BY <2>1, <3>1 DEF RowSafe, BatchFits, Runs
  <2>2. QED
    BY <2>1 DEF RowSafe, RuleSafe, RecordsFit, FitColumns, TypeOK
<1>2. QED
  BY <1>1, RowInvariance, PTL

(* One rule judges a run of prices, whatever administrators do meanwhile:  *)
(* the run reads its caps once.                                            *)
THEOREM OneRuleAccounts == Spec => []OneRuleJudges
<1>1. ASSUME RowSafe, run.on, run.type = "trading_data"
      PROVE  \E c \in Contents \cup {NoRule} :
               \A v \in judged :
                 v.verdict = Judge("trading_data", "standard",
                   IF c = NoRule THEN NoCaps
                   ELSE [lower |-> c.price_cap_lower, upper |-> c.price_cap_upper], v.row)
  <2>1. run \in Runs
    BY <1>1 DEF RowSafe, RunShape, Idle
  <2>2. PICK c \in Contents \cup {NoRule} : run.caps = CapsOf(c)
    BY <2>1 DEF Runs, SomeCaps
  <2>3. run.format = "standard" /\ run.vendor = "standard"
    BY <1>1 DEF RowSafe, Opened
  <2>4. \A v \in judged : Written(run.vendor, v.row) = v.row
    BY <2>3 DEF Written, Percent
  <2>5. \A v \in judged : v.verdict = Judge("trading_data", "standard", CapsOf(c), v.row)
    BY <1>1, <2>2, <2>3, <2>4 DEF RowSafe, Judged
  <2>6. QED
    BY <2>5 DEF CapsOf
<1>2. RowSafe => OneRuleJudges
  BY <1>1 DEF OneRuleJudges
<1>3. QED
  BY <1>2, RowInvariance, PTL

(* What a vendor measured is judged alike in every format; a reviewer can  *)
(* enter the values that a row was accepted with, and not what a check of  *)
(* the period or of a storage field has turned away.                       *)
THEOREM ChecksStayInAgreement == Spec => []ChecksAgree
<1>1. ASSUME RowSafe, run.on, run.type = "storage_operation", NEW v \in judged
      PROVE  v.verdict = Judge(run.type, "standard", NoCaps, v.row)
  <2>1. run \in Runs /\ run.vendor \in Vendors /\ run.vendor = run.format
    <3>1. run \in Runs
      BY <1>1 DEF RowSafe, RunShape, Idle
    <3>2. QED
      BY <1>1, <3>1 DEF RowSafe, Opened, Runs
  <2>2. v.row \in Row("storage_operation")
    BY <1>1, TypesAndFields, ImportRowsAssumption DEF RowSafe, Judged, Row, FieldsOf
  <2>3. v.verdict = Judge("storage_operation", run.vendor, run.caps, Written(run.vendor, v.row))
    BY <1>1, <2>1 DEF RowSafe, Judged
  <2>4. QED
    BY <1>1, <2>1, <2>2, <2>3, FormatsAgree
<1>2. RowSafe => ChecksAgree
  BY <1>1 DEF ChecksAgree, RowSafe, CorrectionsAgree
<1>3. QED
  BY <1>2, RowInvariance, PTL

(* The state of charge that a run leaves is the one stored for the newest  *)
(* period of the run, if the run is the first to bring that period.        *)
THEOREM SocStaysRecorded == Spec => SocIsRecorded
<1> DEFINE Recorded ==
      soc' # soc => run.newest.at \in run.before
                    \/ soc' = records'["storage_operation"][run.newest.at]
<1>1. ASSUME RowSafe, Finish, soc' # soc
      PROVE  \/ run.newest.at \in run.before
             \/ soc' = records'["storage_operation"][run.newest.at]
  <2>1. /\ run.on /\ Insertable /\ run.newest # NoSoc /\ soc' = run.newest.soc
        /\ records' = [records EXCEPT ![run.type] = Inserted]
    BY <1>1 DEF Finish
  <2>2. run.type = "storage_operation"
    BY <1>1, <2>1 DEF RowSafe, NewestStored
  <2>3. NewestIsLast(run.newest, run.accepted, records["storage_operation"], run.before, run.format)
    BY <1>1, <2>1, <2>2 DEF RowSafe, NewestStored
  <2>4. records'["storage_operation"] = Inserted
    BY <1>1, <2>1, <2>2, BatchStored
  <2>5. CASE run.newest.at \in DOMAIN records["storage_operation"]
    BY <1>1, <2>1, <2>2, <2>3, <2>4, <2>5, InsertedRows DEF NewestIsLast
  <2>6. CASE run.newest.at \notin DOMAIN records["storage_operation"]
    BY <1>1, <2>1, <2>2, <2>3, <2>4, <2>6, InsertedRows DEF NewestIsLast
  <2>7. QED
    BY <2>5, <2>6
<1>2. ASSUME RowSafe, [Next]_vars
      PROVE  Recorded
  <2>1. CASE Finish
    BY <1>1, <1>2, <2>1
  <2>2. CASE ~Finish
    <3>1. UNCHANGED soc
      BY <1>2, <2>2 DEF Next, RowNext, Begin, ReadRow, FlushBatch, FlushFails, vars, rowVars
    <3>2. QED
      BY <3>1
  <2>3. QED
    BY <2>1, <2>2
<1>3. RowSafe /\ [Next]_vars => [Recorded]_vars
  BY <1>2
<1>4. QED
  BY <1>3, RowInvariance, PTL DEF Spec, SocIsRecorded
=============================================================================
