------------------------- MODULE CreditLedgerProofs -------------------------
(***************************************************************************)
(* What holds of CreditLedger for every finite set of operations and every *)
(* set of grants, workers and caps.  The steps of all processes change the *)
(* ledger in four ways (LedgerSteps); each theorem follows them one by one:*)
(* types and charges, the balance of every grant and the caps, which are   *)
(* sums over operations, and last the Wallet that a customer is promised,  *)
(* which the ledger implements step by step.                               *)
(***************************************************************************)
EXTENDS CreditLedger, FiniteSetTheorems, WellFoundedInduction, TLAPS

-----------------------------------------------------------------------------
(* Sums.  Total folds a function in whatever order CHOOSE takes its domain;  *)
(* over a finite domain there is such a fold, only one, and its order does   *)
(* not matter.                                                               *)

AnyOf(S) == CHOOSE x \in S : TRUE

Adder(f, D, it) ==
  it = [s \in SUBSET D |-> IF s = {} THEN 0 ELSE f[AnyOf(s)] + it[s \ {AnyOf(s)}]]

(* Of any sets of elements of a finite set, one contains no other. *)
LEMMA SmallestOne ==
  ASSUME NEW D, IsFiniteSet(D), NEW P, P \subseteq SUBSET D, P # {}
  PROVE  \E T \in P : \A U \in P : U \subseteq T => U = T
<1>1. \A T \in P : IsFiniteSet(T)
  BY FS_Subset
<1>2. P \subseteq FiniteSubsetsOf(D)
  BY <1>1 DEF FiniteSubsetsOf
<1>3. IsWellFoundedOn(StrictSubsetOrdering(D), FiniteSubsetsOf(D))
  BY FS_StrictSubsetOrderingWellFounded
<1>4. PICK T \in P : \A U \in P : ~ (<<U, T>> \in StrictSubsetOrdering(D))
  BY <1>2, <1>3, WFMin
<1> QED
  BY <1>4 DEF StrictSubsetOrdering

(* What a fold does to one set. *)
LEMMA AdderAt ==
  ASSUME NEW f, NEW D, NEW it, Adder(f, D, it), NEW s \in SUBSET D
  PROVE  /\ s = {} => it[s] = 0
         /\ s # {} => /\ AnyOf(s) \in s
                      /\ s \ {AnyOf(s)} \in SUBSET D
                      /\ it[s] = f[AnyOf(s)] + it[s \ {AnyOf(s)}]
<1>1. s # {} => AnyOf(s) \in s
  BY DEF AnyOf
<1> DEFINE step(r) == IF r = {} THEN 0 ELSE f[AnyOf(r)] + it[r \ {AnyOf(r)}]
<1>2. it = [r \in SUBSET D |-> step(r)]
  BY DEF Adder
<1>3. it[s] = step(s)
  <2> HIDE DEF step
  <2> QED BY <1>2
<1> QED
  BY <1>1, <1>3

(* Two folds of the same values agree on every set both are about. *)
LEMMA AddersAgree ==
  ASSUME NEW f, NEW D, IsFiniteSet(D), NEW T \in SUBSET D, NEW U \in SUBSET D,
         NEW it, NEW jt, Adder(f, T, it), Adder(f, U, jt),
         NEW r \in SUBSET (T \cap U)
  PROVE  it[r] = jt[r]
<1> DEFINE P == {s \in SUBSET (T \cap U) : it[s] # jt[s]}
<1>1. SUFFICES ASSUME P # {} PROVE FALSE
  BY <1>1
<1>2. P \subseteq SUBSET D
  OBVIOUS
<1>3. PICK s \in P : \A u \in P : u \subseteq s => u = s
  <2> HIDE DEF P
  <2> QED BY <1>1, <1>2, SmallestOne
<1>4. s \in SUBSET T /\ s \in SUBSET U /\ it[s] # jt[s]
  BY <1>3
<1>5. s # {}
  BY <1>4, AdderAt
<1>6. AnyOf(s) \in s /\ it[s] = f[AnyOf(s)] + it[s \ {AnyOf(s)}]
                     /\ jt[s] = f[AnyOf(s)] + jt[s \ {AnyOf(s)}]
  BY <1>4, <1>5, AdderAt
<1>7. it[s \ {AnyOf(s)}] = jt[s \ {AnyOf(s)}]
  BY <1>3, <1>4, <1>6
<1> QED
  BY <1>4, <1>6, <1>7

(* There is a fold. *)
LEMMA AdderExists ==
  ASSUME NEW D, IsFiniteSet(D), NEW f \in [D -> Nat]
  PROVE  \E it \in [SUBSET D -> Nat] : Adder(f, D, it)
<1> DEFINE Fits(T, it) == it \in [SUBSET T -> Nat] /\ Adder(f, T, it)
           P == {T \in SUBSET D : ~ \E it : Fits(T, it)}
<1>1. SUFFICES ASSUME P # {} PROVE FALSE
  <2>1. D \in SUBSET D
    OBVIOUS
  <2> QED BY <1>1, <2>1
<1>2. P \subseteq SUBSET D
  OBVIOUS
<1>3. PICK T \in P : \A U \in P : U \subseteq T => U = T
  <2> HIDE DEF P
  <2> QED BY <1>1, <1>2, SmallestOne
<1> DEFINE fold(s) == CHOOSE it : Fits(s, it)
           low(s) == fold(s)[s]
           step(s) == IF s = {} THEN 0 ELSE f[AnyOf(s)] + low(s \ {AnyOf(s)})
           g == [s \in SUBSET T |-> step(s)]
<1>4. ASSUME NEW s \in SUBSET T, s # T
      PROVE  Fits(s, fold(s))
  <2>1. s \in SUBSET D /\ s \notin P
    BY <1>2, <1>3, <1>4
  <2>2. \E it : Fits(s, it)
    BY <2>1
  <2> HIDE DEF Fits
  <2> QED BY <2>2
<1>5. ASSUME NEW s \in SUBSET T, s # {}
      PROVE  /\ AnyOf(s) \in s /\ f[AnyOf(s)] \in Nat
             /\ s \ {AnyOf(s)} \in SUBSET T /\ s \ {AnyOf(s)} # T
             /\ low(s \ {AnyOf(s)}) \in Nat
  <2>1. AnyOf(s) \in s
    BY <1>5 DEF AnyOf
  <2>2. s \ {AnyOf(s)} \in SUBSET T /\ s \ {AnyOf(s)} # T
    BY <2>1
  <2>3. Fits(s \ {AnyOf(s)}, fold(s \ {AnyOf(s)}))
    BY <1>4, <2>2
  <2>4. fold(s \ {AnyOf(s)}) \in [SUBSET (s \ {AnyOf(s)}) -> Nat]
    <3> HIDE DEF fold
    <3> QED BY <2>3
  <2>5. low(s \ {AnyOf(s)}) \in Nat
    <3> HIDE DEF fold
    <3> QED BY <2>4
  <2>6. AnyOf(s) \in D
    BY <1>2, <1>3, <2>1
  <2> HIDE DEF low
  <2> QED BY <2>1, <2>2, <2>5, <2>6
<1>6. ASSUME NEW s \in SUBSET T
      PROVE  step(s) \in Nat
  <2> HIDE DEF low
  <2>1. CASE s = {}
    BY <2>1
  <2>2. CASE s # {}
    <3>1. low(s \ {AnyOf(s)}) \in Nat /\ f[AnyOf(s)] \in Nat
      BY <1>5, <2>2
    <3> QED BY <2>2, <3>1
  <2> QED BY <2>1, <2>2
<1>7. g \in [SUBSET T -> Nat]
  <2> HIDE DEF step
  <2> QED BY <1>6
<1>8. ASSUME NEW r \in SUBSET T, r # T
      PROVE  g[r] = low(r)
  <2>1. Fits(r, fold(r))
    BY <1>4, <1>8
  <2>2. Adder(f, r, fold(r))
    <3> HIDE DEF fold
    <3> QED BY <2>1
  <2>3. g[r] = step(r)
    <3> HIDE DEF step
    <3> QED OBVIOUS
  <2>4. CASE r = {}
    <3>1. low(r) = 0
      <4>1. r \in SUBSET r
        OBVIOUS
      <4>2. fold(r)[r] = 0
        <5> HIDE DEF fold
        <5> QED BY <2>2, <2>4, <4>1, AdderAt
      <4> QED BY <4>2
    <3>2. step(r) = 0
      <4> HIDE DEF low
      <4> QED BY <2>4
    <3> QED BY ONLY <2>3, <3>1, <3>2
  <2>5. CASE r # {}
    <3> DEFINE q == r \ {AnyOf(r)}
    <3>1. AnyOf(r) \in r /\ q \in SUBSET T /\ q # T
      BY <1>5, <2>5
    <3>2. low(r) = f[AnyOf(r)] + fold(r)[q]
      <4>1. r \in SUBSET r
        OBVIOUS
      <4>2. fold(r)[r] = f[AnyOf(r)] + fold(r)[r \ {AnyOf(r)}]
        <5> HIDE DEF fold
        <5> QED BY ONLY <2>2, <2>5, <4>1, AdderAt
      <4> QED BY <4>2
    <3>3. Adder(f, q, fold(q))
      <4>1. Fits(q, fold(q))
        <5> HIDE DEF q
        <5> QED BY <1>4, <3>1
      <4> HIDE DEF fold, q
      <4> QED BY <4>1
    <3>4. fold(r)[q] = fold(q)[q]
      <4>1. r \in SUBSET D /\ q \in SUBSET D /\ q \in SUBSET (r \cap q)
        BY <1>2, <1>3, <3>1
      <4> HIDE DEF fold, q
      <4> QED BY <2>2, <3>3, <4>1, AddersAgree
    <3>5. step(r) = f[AnyOf(r)] + low(q)
      <4> HIDE DEF low
      <4> QED BY <2>5
    <3>6. low(q) = fold(q)[q]
      OBVIOUS
    <3> HIDE DEF low, q, fold, step, g
    <3> QED BY <2>3, <3>2, <3>4, <3>5, <3>6
  <2> QED BY <2>4, <2>5
<1>9. ASSUME NEW s \in SUBSET T
      PROVE  step(s) = IF s = {} THEN 0 ELSE f[AnyOf(s)] + g[s \ {AnyOf(s)}]
  <2>1. CASE s = {}
    <3> HIDE DEF low, g
    <3> QED BY <2>1
  <2>2. CASE s # {}
    <3>1. g[s \ {AnyOf(s)}] = low(s \ {AnyOf(s)})
      BY <1>5, <1>8, <2>2
    <3> HIDE DEF low, g
    <3> QED BY <2>2, <3>1
  <2> QED BY <2>1, <2>2
<1>10. Adder(f, T, g)
  <2> DEFINE again(s) == IF s = {} THEN 0 ELSE f[AnyOf(s)] + g[s \ {AnyOf(s)}]
  <2>1. \A s \in SUBSET T : step(s) = again(s)
    BY <1>9
  <2>2. g = [s \in SUBSET T |-> again(s)]
    <3>1. g = [s \in SUBSET T |-> step(s)]
      OBVIOUS
    <3> HIDE DEF step, again, g
    <3> QED BY <2>1, <3>1
  <2> HIDE DEF g
  <2> QED BY <2>2 DEF Adder
<1>11. Fits(T, g)
  <2> HIDE DEF g
  <2> QED BY <1>7, <1>10
<1> QED
  <2> HIDE DEF g, Fits
  <2> QED BY <1>3, <1>11

(* What a fold is worth, whatever its order. *)
Fold(f, D, it) ==
  /\ it \in [SUBSET D -> Nat]
  /\ \A s \in SUBSET D : s = {} => it[s] = 0
  /\ \A s \in SUBSET D : \A x \in s : it[s] = f[x] + it[s \ {x}]

(* The order of a fold does not matter: any element may come last. *)
LEMMA AddersFold ==
  ASSUME NEW D, IsFiniteSet(D), NEW f \in [D -> Nat],
         NEW it \in [SUBSET D -> Nat], Adder(f, D, it)
  PROVE  Fold(f, D, it)
<1> DEFINE P == {s \in SUBSET D : \E y \in s : it[s] # f[y] + it[s \ {y}]}
<1>0. ASSUME NEW s \in SUBSET D PROVE s = {} => it[s] = 0
  BY AdderAt
<1>1. SUFFICES ASSUME P # {} PROVE FALSE
  BY <1>0, <1>1 DEF Fold
<1>2. P \subseteq SUBSET D
  OBVIOUS
<1>3. PICK s \in P : \A u \in P : u \subseteq s => u = s
  <2> HIDE DEF P
  <2> QED BY <1>1, <1>2, SmallestOne
<1>4. PICK y \in s : it[s] # f[y] + it[s \ {y}]
  BY <1>3
<1> DEFINE x == AnyOf(s)
<1>5. s \in SUBSET D /\ x \in s /\ it[s] = f[x] + it[s \ {x}]
  BY <1>2, <1>3, <1>4, AdderAt
<1> HIDE DEF x
<1>6. x # y
  BY <1>4, <1>5
<1>7. it[s \ {x}] = f[y] + it[(s \ {x}) \ {y}]
  <2>1. s \ {x} \in SUBSET D /\ s \ {x} \subseteq s /\ s \ {x} # s /\ y \in s \ {x}
    BY <1>5, <1>6
  <2> QED BY <1>3, <2>1
<1>8. it[s \ {y}] = f[x] + it[(s \ {y}) \ {x}]
  <2>1. s \ {y} \in SUBSET D /\ s \ {y} \subseteq s /\ s \ {y} # s /\ x \in s \ {y}
    BY <1>5, <1>6
  <2> QED BY <1>3, <2>1
<1>9. (s \ {x}) \ {y} = (s \ {y}) \ {x}
  OBVIOUS
<1>10. f[x] \in Nat /\ f[y] \in Nat /\ it[(s \ {x}) \ {y}] \in Nat
  <2>1. x \in D /\ y \in D /\ (s \ {x}) \ {y} \in SUBSET D
    BY <1>5
  <2> QED BY <2>1
<1> DEFINE rest == it[(s \ {x}) \ {y}]
<1>11. it[s] = f[x] + (f[y] + rest) /\ f[y] + it[s \ {y}] = f[y] + (f[x] + rest)
  BY <1>5, <1>7, <1>8, <1>9
<1>12. f[x] + (f[y] + rest) = f[y] + (f[x] + rest)
  BY <1>10
<1> QED
  BY <1>4, <1>11, <1>12

LEMMA TotalFolds ==
  ASSUME NEW D, IsFiniteSet(D), NEW f \in [D -> Nat]
  PROVE  \E it : Fold(f, D, it) /\ Total(f) = it[D]
<1>1. PICK jt \in [SUBSET D -> Nat] : Adder(f, D, jt)
  BY AdderExists
<1> DEFINE it == CHOOSE kt : Adder(f, D, kt)
<1>2. Adder(f, D, it)
  BY <1>1
<1>3. D = DOMAIN f
  OBVIOUS
<1>4. Total(f) = SumFunctionOnSet(f, D)
  BY <1>3 DEF Total, SumFunction
<1>5. SumFunctionOnSet(f, D) = it[D]
  BY DEF SumFunctionOnSet, FoldFunctionOnSet, MapThenFoldSet, Adder, AnyOf
<1>6. it[D] = jt[D]
  <2>1. D \in SUBSET D /\ D \in SUBSET (D \cap D)
    OBVIOUS
  <2> HIDE DEF it
  <2> QED BY <1>1, <1>2, <2>1, AddersAgree
<1> HIDE DEF it
<1>7. Fold(f, D, jt)
  BY <1>1, AddersFold
<1> QED
  BY <1>4, <1>5, <1>6, <1>7

(* A sum of natural numbers is one. *)
LEMMA TotalTyped ==
  ASSUME NEW D, IsFiniteSet(D), NEW f \in [D -> Nat]
  PROVE  Total(f) \in Nat
<1>1. PICK it : Fold(f, D, it) /\ Total(f) = it[D]
  BY TotalFolds
<1>2. D \in SUBSET D /\ it \in [SUBSET D -> Nat]
  BY <1>1 DEF Fold
<1> QED BY <1>1, <1>2

(* Sums of functions that differ in one place differ by that. *)
LEMMA TotalChanges ==
  ASSUME NEW D, IsFiniteSet(D), NEW f \in [D -> Nat], NEW h \in [D -> Nat],
         NEW e \in D, \A x \in D \ {e} : f[x] = h[x]
  PROVE  Total(f) + h[e] = Total(h) + f[e]
<1>1. PICK it : Fold(f, D, it) /\ Total(f) = it[D]
  BY TotalFolds
<1>2. PICK jt : Fold(h, D, jt) /\ Total(h) = jt[D]
  BY TotalFolds
<1>3. it[D \ {e}] = jt[D \ {e}]
  <2> DEFINE P == {s \in SUBSET (D \ {e}) : it[s] # jt[s]}
  <2>1. SUFFICES ASSUME P # {} PROVE FALSE
    BY <2>1
  <2>2. P \subseteq SUBSET D
    OBVIOUS
  <2>3. PICK s : s \in P /\ \A u \in P : u \subseteq s => u = s
    <3> HIDE DEF P
    <3> QED BY <2>1, <2>2, SmallestOne
  <2>4. s \in SUBSET D /\ e \notin s /\ it[s] # jt[s]
    BY <2>3
  <2>5. s # {}
    BY <1>1, <1>2, <2>4 DEF Fold
  <2>6. PICK x : x \in s
    BY <2>5
  <2>7. it[s] = f[x] + it[s \ {x}]
    BY <1>1, <2>4, <2>6 DEF Fold
  <2>8. jt[s] = h[x] + jt[s \ {x}]
    BY <1>2, <2>4, <2>6 DEF Fold
  <2>9. it[s \ {x}] = jt[s \ {x}]
    BY <2>3, <2>4, <2>6
  <2>10. f[x] = h[x]
    BY <2>4, <2>6
  <2> QED
    BY <2>4, <2>7, <2>8, <2>9, <2>10
<1>4. D \in SUBSET D /\ D \ {e} \in SUBSET D
  OBVIOUS
<1>5. it[D] = f[e] + it[D \ {e}] /\ jt[D] = h[e] + jt[D \ {e}]
  BY <1>1, <1>2, <1>4 DEF Fold
<1>6. f[e] \in Nat /\ h[e] \in Nat /\ it[D \ {e}] \in Nat
  BY <1>1, <1>4 DEF Fold
<1> QED
  BY <1>1, <1>2, <1>3, <1>5, <1>6

(* A sum of sums. *)
LEMMA TotalAdds ==
  ASSUME NEW D, IsFiniteSet(D), NEW f \in [D -> Nat], NEW h \in [D -> Nat],
         NEW k \in [D -> Nat], \A x \in D : k[x] = f[x] + h[x]
  PROVE  Total(k) = Total(f) + Total(h)
<1>1. PICK it : Fold(f, D, it) /\ Total(f) = it[D]
  BY TotalFolds
<1>2. PICK jt : Fold(h, D, jt) /\ Total(h) = jt[D]
  BY TotalFolds
<1>3. PICK kt : Fold(k, D, kt) /\ Total(k) = kt[D]
  BY TotalFolds
<1> DEFINE P == {s \in SUBSET D : kt[s] # it[s] + jt[s]}
<1>4. SUFFICES ASSUME P # {} PROVE FALSE
  <2>1. D \in SUBSET D
    OBVIOUS
  <2> QED BY <1>1, <1>2, <1>3, <1>4, <2>1
<1>5. P \subseteq SUBSET D
  OBVIOUS
<1>6. PICK s : s \in P /\ \A u \in P : u \subseteq s => u = s
  <2> HIDE DEF P
  <2> QED BY <1>4, <1>5, SmallestOne
<1>7. s \in SUBSET D /\ kt[s] # it[s] + jt[s]
  BY <1>6
<1>8. s # {}
  <2>1. s = {} => it[s] = 0 /\ jt[s] = 0 /\ kt[s] = 0
    BY <1>1, <1>2, <1>3, <1>7 DEF Fold
  <2> QED BY <1>7, <2>1
<1>9. PICK x : x \in s
  BY <1>8
<1>10. it[s] = f[x] + it[s \ {x}]
  BY <1>1, <1>7, <1>9 DEF Fold
<1>11. jt[s] = h[x] + jt[s \ {x}]
  BY <1>2, <1>7, <1>9 DEF Fold
<1>12. kt[s] = k[x] + kt[s \ {x}]
  BY <1>3, <1>7, <1>9 DEF Fold
<1>13. kt[s \ {x}] = it[s \ {x}] + jt[s \ {x}]
  BY <1>6, <1>7, <1>9
<1>14. x \in D /\ s \ {x} \in SUBSET D
  BY <1>7, <1>9
<1>15. it[s \ {x}] \in Nat /\ jt[s \ {x}] \in Nat
  BY <1>1, <1>2, <1>14 DEF Fold
<1>16. f[x] \in Nat /\ h[x] \in Nat /\ k[x] = f[x] + h[x]
  BY <1>14
<1> QED
  BY <1>7, <1>10, <1>11, <1>12, <1>13, <1>15, <1>16

LEMMA TotalOfNothing ==
  ASSUME NEW D, IsFiniteSet(D), NEW f \in [D -> Nat], \A x \in D : f[x] = 0
  PROVE  Total(f) = 0
<1>1. \A x \in D : f[x] = f[x] + f[x]
  OBVIOUS
<1>2. Total(f) = Total(f) + Total(f)
  BY <1>1, TotalAdds
<1>3. Total(f) \in Nat
  BY TotalTyped
<1>4. \A n \in Nat : n = n + n => n = 0
  OBVIOUS
<1> QED BY <1>2, <1>3, <1>4

-----------------------------------------------------------------------------
(* What is taken and what is charged *)

(* A portion is a part of the balances it was taken from. *)
LEMMA PortionsSound ==
  ASSUME NEW b, NEW n \in Nat, NEW p \in Portions(b, n)
  PROVE  /\ p \in [Grants -> Nat]
         /\ \A g \in Grants : p[g] <= b[g]
  BY DEF Portions

(* A charge is a natural number within the disclosed maximum. *)
LEMMA ChargeWithin ==
  ASSUME NEW o \in Ops, NEW cost \in Nat
  PROVE  ChargeFor(o, cost) \in Nat /\ ChargeFor(o, cost) <= Maximum[o]
  BY OpsAssumption DEF ChargeFor

-----------------------------------------------------------------------------
(* The four ways *)

Books(o) ==
  /\ op[o].status = "none"
  /\ WithinCaps(o)
  /\ op' = [op EXCEPT ![o] = OpRow("reserved", op[o].charge)]
  /\ \E part \in Portions(Spendable, Maximum[o]) :
       /\ available' = [g \in Grants |-> available[g] - part[g]]
       /\ taken' = [taken EXCEPT ![o] = part]
  /\ UNCHANGED <<opened, spent>>

Closes(o, cost) ==
  /\ op[o].status \in Live
  /\ \E charged \in Portions(taken[o], ChargeFor(o, cost)) :
       /\ available' = Returned(o, charged)
       /\ spent' = [spent EXCEPT ![o] = charged]
       /\ op' = [op EXCEPT ![o] = OpRow("settled", ChargeFor(o, cost))]
  /\ UNCHANGED <<opened, taken>>

Advances ==
  /\ op' \in [Ops -> OpRows]
  /\ \A o \in Ops : \/ op'[o] = op[o]
                    \/ /\ op[o].status \in Live /\ op'[o].status \in Live
                       /\ op'[o].charge = op[o].charge
  /\ UNCHANGED <<available, opened, taken, spent>>

Funds(g) ==
  /\ g \notin opened
  /\ opened' = opened \cup {g}
  /\ available' = [available EXCEPT ![g] = Size[g]]
  /\ UNCHANGED opVars

LedgerStep ==
  \/ \E o \in Ops : Books(o)
  \/ \E o \in Ops, cost \in Nat : Closes(o, cost)
  \/ Advances
  \/ \E g \in Grants : Funds(g)

(* A task names an operation and a cost. *)
LEMMA TaskFields ==
  ASSUME TypeOK, NEW w \in Workers, worker[w] # Idle
  PROVE  /\ worker[w].op \in Ops
         /\ worker[w].cost \in Nat
  BY DEF TypeOK, Tasks

(* A row that moves between the statuses of a live operation. *)
LEMMA StatusMoves ==
  ASSUME TypeOK, NEW o \in Ops, NEW s \in Live, op[o].status \in Live, SetStatus(o, s),
         UNCHANGED <<available, opened, taken, spent>>
  PROVE  Advances
<1>1. op \in [Ops -> OpRows] /\ op[o].charge \in Nat
  BY DEF TypeOK, OpRows
<1>2. OpRow(s, op[o].charge) \in OpRows
  BY <1>1 DEF OpRow, OpRows, OpStatus, Live
<1>3. op' = [op EXCEPT ![o] = OpRow(s, op[o].charge)]
  BY DEF SetStatus
<1>4. op' \in [Ops -> OpRows]
  BY <1>1, <1>2, <1>3
<1>5. op'[o].status \in Live /\ op'[o].charge = op[o].charge
  BY <1>1, <1>3 DEF OpRow
<1>6. \A x \in Ops \ {o} : op'[x] = op[x]
  BY <1>1, <1>3
<1> QED
  BY <1>4, <1>5, <1>6 DEF Advances

(* SettleCredits closes the operation or changes nothing. *)
LEMMA SettlementCloses ==
  ASSUME TypeOK, NEW o \in Ops, NEW cost \in Nat, SettleCredits(o, cost)
  PROVE  Closes(o, cost) \/ Advances
<1>1. CASE SettlesNow(o)
  BY <1>1 DEF SettleCredits, SettlesNow, Closes, Live
<1>2. CASE ~SettlesNow(o)
  BY <1>2 DEF SettleCredits, Advances, TypeOK, opVars, grantVars
<1> QED
  BY <1>1, <1>2

(* A scan finds nothing but what is not finished. *)
LEMMA BatchIsLive ==
  ASSUME NEW batch \in Findable, NEW o \in batch
  PROVE  o \in Ops /\ op[o].status \in Live
BY DEF Findable, Unfinished

(* Whatever process makes a step, it changes the ledger in one of four ways. *)
LEMMA LedgerSteps ==
  ASSUME TypeOK, [Next]_vars
  PROVE  LedgerStep
<1>1. ASSUME UNCHANGED <<available, opened, opVars>>
      PROVE  LedgerStep
  BY <1>1 DEF LedgerStep, Advances, TypeOK, opVars
<1>2. ASSUME NEW w \in Workers, NEW o \in Ops, Reserve(w, o)
      PROVE  LedgerStep
  BY <1>2 DEF Reserve, SetStatus, Books, LedgerStep
<1>3. ASSUME NEW w \in Workers, MarkProviderRunning(w)
      PROVE  LedgerStep
  <2>1. CASE op[worker[w].op].status \in Live
    BY <1>3, <2>1, TaskFields, StatusMoves DEF MarkProviderRunning, LedgerStep, Live, grantVars
  <2>2. CASE op[worker[w].op].status \notin Live
    BY <1>3, <2>2, <1>1 DEF MarkProviderRunning, grantVars, opVars
  <2> QED
    BY <2>1, <2>2
<1>4. ASSUME NEW w \in Workers, ProviderFails(w)
      PROVE  LedgerStep
  <2>1. CASE op[worker[w].op].status \in Live
    BY <1>4, <2>1, TaskFields, StatusMoves DEF ProviderFails, LedgerStep, Live, grantVars
  <2>2. CASE op[worker[w].op].status \notin Live
    BY <1>4, <2>2, <1>1 DEF ProviderFails, grantVars, opVars
  <2> QED
    BY <2>1, <2>2
<1>5. ASSUME NEW w \in Workers, Settle(w)
      PROVE  LedgerStep
  BY <1>5, TaskFields, SettlementCloses DEF Settle, LedgerStep
<1>6. ASSUME NEW r \in Releasers, NEW o \in Ops, Release(r, o)
      PROVE  LedgerStep
  BY <1>6, SettlementCloses DEF Release, LedgerStep
<1>7. ASSUME NEW batch \in Findable, Scan(batch)
      PROVE  LedgerStep
  <2>1. op \in [Ops -> OpRows] /\ \A o \in Ops : op[o].charge \in Nat
    BY DEF TypeOK, OpRows
  <2>2. op' = [o \in Ops |-> IF o \in batch /\ op[o].status # "reserved"
                             THEN OpRow("reconciling", op[o].charge) ELSE op[o]]
    BY <1>7 DEF Scan
  <2>3. ASSUME NEW o \in Ops
        PROVE  OpRow("reconciling", op[o].charge) \in OpRows
    BY <2>1 DEF OpRow, OpRows, OpStatus
  <2>4. op' \in [Ops -> OpRows]
    BY <2>1, <2>2, <2>3
  <2>5. \A o \in batch : o \in Ops /\ op[o].status \in Live
    BY <1>7, BatchIsLive
  <2>6. ASSUME NEW o \in Ops, op'[o] # op[o]
        PROVE  op[o].status \in Live /\ op'[o].status \in Live /\ op'[o].charge = op[o].charge
    BY <2>1, <2>2, <2>5, <2>6 DEF OpRow, Live
  <2> QED
    BY <1>7, <2>4, <2>6 DEF Scan, LedgerStep, Advances, grantVars
<1>8. ASSUME NEW g \in Grants, OpenGrant(g)
      PROVE  LedgerStep
  BY <1>8 DEF OpenGrant, Funds, LedgerStep
<1>9. ASSUME NEW w \in Workers, NEW o \in Ops, ReserveAgain(w, o)
      PROVE  LedgerStep
  BY <1>9, <1>1 DEF ReserveAgain, grantVars
<1>10. ASSUME NEW w \in Workers, ProviderAnswers(w) \/ Crash(w)
       PROVE  LedgerStep
  BY <1>10, <1>1 DEF ProviderAnswers, Crash, grantVars
<1>11. ASSUME NEW c, ListCallReservations(c)
       PROVE  LedgerStep
  BY <1>11, <1>1 DEF ListCallReservations, grantVars
<1>12. ASSUME NEW r \in Releasers, LoseList(r)
       PROVE  LedgerStep
  BY <1>12, <1>1 DEF LoseList, grantVars
<1>13. ASSUME NEW g \in Grants, ExpireGrant(g)
       PROVE  LedgerStep
  BY <1>13, <1>1 DEF ExpireGrant
<1>14. ASSUME NEW s \in Subjects, NEW c \in Caps \cup {NoCap}, SetCap(s, c)
       PROVE  LedgerStep
  BY <1>14, <1>1 DEF SetCap, grantVars
<1>15. CASE UNCHANGED vars
  BY <1>15, <1>1 DEF vars, opVars
<1> QED
  BY <1>2, <1>3, <1>4, <1>5, <1>6, <1>7, <1>8, <1>9, <1>10, <1>11, <1>12, <1>13, <1>14, <1>15
     DEF Next, WorkerStep

-----------------------------------------------------------------------------
(* Types *)

LedgerTyped ==
  /\ available \in [Grants -> Nat]
  /\ op \in [Ops -> OpRows]
  /\ taken \in [Ops -> [Grants -> Nat]]
  /\ spent \in [Ops -> [Grants -> Nat]]

(* What an allocation holds covers what is charged to it, and an operation *)
(* without a row holds nothing.                                            *)
Allocated ==
  /\ ChargeCovered
  /\ \A o \in Ops : op[o].status = "none" => taken[o] = Nothing

(* The four ways keep the balances natural numbers: no grant is overdrawn. *)
LEMMA BalancesTyped ==
  ASSUME TypeOK, Allocated, LedgerStep
  PROVE  LedgerTyped'
<1>1. /\ available \in [Grants -> Nat] /\ op \in [Ops -> OpRows]
      /\ taken \in [Ops -> [Grants -> Nat]] /\ spent \in [Ops -> [Grants -> Nat]]
      /\ \A o \in Ops : Maximum[o] \in Nat /\ op[o].charge \in Nat
  BY OpsAssumption DEF TypeOK, OpRows
<1>2. ASSUME NEW o \in Ops, Books(o)
      PROVE  LedgerTyped'
  <2>1. PICK part \in Portions(Spendable, Maximum[o]) :
          /\ available' = [g \in Grants |-> available[g] - part[g]]
          /\ taken' = [taken EXCEPT ![o] = part]
    BY <1>2 DEF Books
  <2>2. part \in [Grants -> Nat] /\ \A g \in Grants : part[g] <= Spendable[g]
    BY <1>1, <2>1, PortionsSound
  <2>3. \A g \in Grants : part[g] <= available[g]
    BY <1>1, <2>2 DEF Spendable
  <2>4. available' \in [Grants -> Nat]
    BY <1>1, <2>1, <2>2, <2>3
  <2>5. OpRow("reserved", op[o].charge) \in OpRows
    BY <1>1 DEF OpRow, OpRows, OpStatus
  <2> QED
    BY <1>1, <1>2, <2>1, <2>2, <2>4, <2>5 DEF Books, LedgerTyped
<1>3. ASSUME NEW o \in Ops, NEW cost \in Nat, Closes(o, cost)
      PROVE  LedgerTyped'
  <2>1. PICK charged \in Portions(taken[o], ChargeFor(o, cost)) :
          /\ available' = Returned(o, charged)
          /\ spent' = [spent EXCEPT ![o] = charged]
          /\ op' = [op EXCEPT ![o] = OpRow("settled", ChargeFor(o, cost))]
    BY <1>3 DEF Closes
  <2>2. charged \in [Grants -> Nat] /\ \A g \in Grants : charged[g] <= taken[o][g]
    BY <1>1, <2>1, ChargeWithin, PortionsSound
  <2>3. available' \in [Grants -> Nat]
    BY <1>1, <2>1, <2>2 DEF Returned
  <2>4. OpRow("settled", ChargeFor(o, cost)) \in OpRows
    BY ChargeWithin DEF OpRow, OpRows, OpStatus
  <2> QED
    BY <1>1, <1>3, <2>1, <2>2, <2>3, <2>4 DEF Closes, LedgerTyped
<1>4. CASE Advances
  BY <1>1, <1>4 DEF Advances, LedgerTyped
<1>5. ASSUME NEW g \in Grants, Funds(g)
      PROVE  LedgerTyped'
  BY <1>1, <1>5, GrantsAssumption DEF Funds, opVars, LedgerTyped
<1> QED
  BY <1>2, <1>3, <1>4, <1>5 DEF LedgerStep

(* The four ways keep every charge covered. *)
LEMMA ChargesCovered ==
  ASSUME TypeOK, Allocated, LedgerStep
  PROVE  Allocated'
<1>1. /\ available \in [Grants -> Nat] /\ op \in [Ops -> OpRows]
      /\ taken \in [Ops -> [Grants -> Nat]] /\ spent \in [Ops -> [Grants -> Nat]]
      /\ \A o \in Ops : Maximum[o] \in Nat /\ op[o].charge \in Nat
  BY OpsAssumption DEF TypeOK, OpRows
<1>2. /\ \A o \in Ops : op[o].charge <= Maximum[o]
      /\ \A o \in Ops, g \in Grants : spent[o][g] <= taken[o][g]
      /\ \A o \in Ops : op[o].status = "none" => taken[o] = Nothing
  BY DEF Allocated, ChargeCovered
<1>3. ASSUME NEW o \in Ops, Books(o)
      PROVE  Allocated'
  <2>1. PICK part \in Portions(Spendable, Maximum[o]) : taken' = [taken EXCEPT ![o] = part]
    BY <1>3 DEF Books
  <2>2. part \in [Grants -> Nat]
    BY <1>1, <2>1, PortionsSound
  <2>3. \A g \in Grants : spent[o][g] <= part[g]
    BY <1>1, <1>2, <1>3, <2>2 DEF Books, Nothing
  <2>4. /\ op' = [op EXCEPT ![o] = OpRow("reserved", op[o].charge)]
        /\ spent' = spent
    BY <1>3 DEF Books
  <2>5. op'[o].status = "reserved" /\ op'[o].charge = op[o].charge
    BY <1>1, <2>4 DEF OpRow
  <2>6. \A x \in Ops \ {o} : op'[x] = op[x] /\ taken'[x] = taken[x]
    BY <1>1, <2>1, <2>4
  <2>7. taken'[o] = part
    BY <1>1, <2>1
  <2>8. ChargeCovered'
    BY <1>2, <2>3, <2>4, <2>5, <2>6, <2>7 DEF ChargeCovered
  <2>9. \A x \in Ops : op'[x].status = "none" => taken'[x] = Nothing
    BY <1>2, <2>5, <2>6
  <2> QED
    BY <2>8, <2>9 DEF Allocated, Nothing
<1>4. ASSUME NEW o \in Ops, NEW cost \in Nat, Closes(o, cost)
      PROVE  Allocated'
  <2>1. PICK charged \in Portions(taken[o], ChargeFor(o, cost)) :
          /\ spent' = [spent EXCEPT ![o] = charged]
          /\ op' = [op EXCEPT ![o] = OpRow("settled", ChargeFor(o, cost))]
    BY <1>4 DEF Closes
  <2>2. \A g \in Grants : charged[g] <= taken[o][g]
    BY <1>1, <2>1, ChargeWithin, PortionsSound
  <2>3. op'[o].status = "settled" /\ op'[o].charge <= Maximum[o]
    BY <1>1, <2>1, ChargeWithin DEF OpRow
  <2>4. \A x \in Ops \ {o} : op'[x] = op[x] /\ spent'[x] = spent[x]
    BY <1>1, <2>1
  <2>5. spent'[o] = charged /\ taken' = taken
    BY <1>1, <1>4, <2>1 DEF Closes
  <2>6. ChargeCovered'
    BY <1>2, <2>2, <2>3, <2>4, <2>5 DEF ChargeCovered
  <2>7. \A x \in Ops : op'[x].status = "none" => taken'[x] = Nothing
    BY <1>2, <2>3, <2>4, <2>5
  <2> QED
    BY <2>6, <2>7 DEF Allocated, Nothing
<1>5. CASE Advances
  <2>1. \A o \in Ops : op'[o].charge = op[o].charge
    BY <1>5 DEF Advances
  <2>2. \A o \in Ops : op'[o].status = "none" => op[o].status = "none"
    BY <1>5 DEF Advances, Live
  <2>3. taken' = taken /\ spent' = spent
    BY <1>5 DEF Advances
  <2> QED
    BY <1>2, <2>1, <2>2, <2>3 DEF Allocated, ChargeCovered, Nothing
<1>6. ASSUME NEW g \in Grants, Funds(g)
      PROVE  Allocated'
  BY <1>2, <1>6 DEF Funds, opVars, Allocated, ChargeCovered, Nothing
<1> QED
  BY <1>3, <1>4, <1>5, <1>6 DEF LedgerStep

OthersTyped ==
  /\ opened \in SUBSET Grants
  /\ expired \in SUBSET Grants
  /\ before \in [Ops -> SUBSET Ops]
  /\ cap \in [Subjects -> Nat \cup {NoCap}]
  /\ worker \in [Workers -> Tasks \cup {Idle}]
  /\ listed \in [Releasers -> SUBSET Ops]
  /\ faults \in 0 .. MaxFaults
  /\ edits \in 0 .. MaxEdits

(* A worker moves between tasks. *)
LEMMA TaskMoves ==
  ASSUME worker \in [Workers -> Tasks \cup {Idle}], NEW w \in Workers
  PROVE  /\ Goto(w, Idle) => worker' \in [Workers -> Tasks \cup {Idle}]
         /\ \A pc \in {"mark", "provider", "settle"}, o \in Ops, cost \in Nat :
              Goto(w, Task(pc, o, cost)) => worker' \in [Workers -> Tasks \cup {Idle}]
<1>1. \A pc \in {"mark", "provider", "settle"}, o \in Ops, cost \in Nat :
        Task(pc, o, cost) \in Tasks
  BY DEF Task, Tasks
<1> QED
  BY <1>1 DEF Goto

(* The steps of workers, of those who release and of owners keep the rest of *)
(* the variables in their types.                                             *)
LEMMA OthersStayTyped ==
  ASSUME TypeOK, [Next]_vars
  PROVE  OthersTyped'
<1>1. OthersTyped
  BY DEF TypeOK, OthersTyped
<1>2. /\ MaxFaults \in Nat /\ MaxEdits \in Nat /\ faults \in Nat /\ edits \in Nat
      /\ (faults > 0 => faults - 1 \in 0 .. MaxFaults)
      /\ (edits > 0 => edits - 1 \in 0 .. MaxEdits)
  BY <1>1, BoundsAssumption DEF OthersTyped
<1>3. ASSUME NEW w \in Workers, NEW o \in Ops, ReserveAgain(w, o) \/ Reserve(w, o)
      PROVE  OthersTyped'
  <2>1. worker' \in [Workers -> Tasks \cup {Idle}]
    BY <1>1, <1>3, TaskMoves DEF ReserveAgain, Reserve, OthersTyped
  <2> QED
    BY <1>1, <1>3, <2>1 DEF ReserveAgain, Reserve, OthersTyped, grantVars, boundVars
<1>4. ASSUME NEW w \in Workers, MarkProviderRunning(w)
      PROVE  OthersTyped'
  <2>1. worker' \in [Workers -> Tasks \cup {Idle}]
    BY <1>1, <1>4, TaskFields, TaskMoves DEF MarkProviderRunning, OthersTyped
  <2> QED
    BY <1>1, <1>4, <2>1 DEF MarkProviderRunning, OthersTyped, grantVars, boundVars
<1>5. ASSUME NEW w \in Workers, ProviderAnswers(w)
      PROVE  OthersTyped'
  <2>1. worker' \in [Workers -> Tasks \cup {Idle}]
    BY <1>1, <1>5, TaskFields, TaskMoves, CostsAssumption DEF ProviderAnswers, OthersTyped
  <2> QED
    BY <1>1, <1>5, <2>1 DEF ProviderAnswers, OthersTyped, grantVars, boundVars
<1>6. ASSUME NEW w \in Workers, ProviderFails(w) \/ Crash(w)
      PROVE  OthersTyped'
  <2>1. worker' \in [Workers -> Tasks \cup {Idle}]
    BY <1>1, <1>6, TaskMoves DEF ProviderFails, Crash, OthersTyped
  <2> QED
    BY <1>1, <1>2, <1>6, <2>1 DEF ProviderFails, Crash, OthersTyped, grantVars
<1>7. ASSUME NEW o \in Ops, NEW cost, SettleCredits(o, cost)
      PROVE  opened' = opened /\ expired' = expired
  BY <1>7 DEF SettleCredits, grantVars
<1>8. ASSUME NEW w \in Workers, Settle(w)
      PROVE  OthersTyped'
  <2>1. worker' \in [Workers -> Tasks \cup {Idle}]
    BY <1>1, <1>8, TaskMoves DEF Settle, OthersTyped
  <2> QED
    BY <1>1, <1>7, <1>8, <2>1, TaskFields DEF Settle, OthersTyped, boundVars
<1>9. ASSUME NEW c, ListCallReservations(c)
      PROVE  OthersTyped'
  BY <1>1, <1>9 DEF ListCallReservations, OthersTyped, grantVars, boundVars, Releasers
<1>10. ASSUME NEW batch \in Findable, Scan(batch)
       PROVE  OthersTyped'
  <2>1. batch \subseteq Ops
    BY BatchIsLive
  <2> QED
    BY <1>1, <1>10, <2>1 DEF Scan, Released, OthersTyped, grantVars, boundVars, Releasers
<1>11. ASSUME NEW r \in Releasers, NEW o \in Ops, Release(r, o)
       PROVE  OthersTyped'
  BY <1>1, <1>7, <1>11 DEF Release, OthersTyped, boundVars
<1>12. ASSUME NEW r \in Releasers, LoseList(r)
       PROVE  OthersTyped'
  BY <1>1, <1>2, <1>12 DEF LoseList, OthersTyped, grantVars
<1>13. ASSUME NEW g \in Grants, OpenGrant(g) \/ ExpireGrant(g)
       PROVE  OthersTyped'
  BY <1>1, <1>13 DEF OpenGrant, ExpireGrant, OthersTyped, boundVars
<1>14. ASSUME NEW s \in Subjects, NEW c \in Caps \cup {NoCap}, SetCap(s, c)
       PROVE  OthersTyped'
  BY <1>1, <1>2, <1>14, CapsAssumption DEF SetCap, OthersTyped, grantVars
<1>15. CASE UNCHANGED vars
  BY <1>1, <1>15 DEF vars, OthersTyped
<1> QED
  BY <1>3, <1>4, <1>5, <1>6, <1>8, <1>9, <1>10, <1>11, <1>12, <1>13, <1>14, <1>15
     DEF Next, WorkerStep

LedgerInv == TypeOK /\ Allocated

(* The inductive invariant: types and covered charges hold each other up. *)
THEOREM LedgerInvariant == Spec => []LedgerInv
<1>1. Init => LedgerInv
  <2>1. SUFFICES ASSUME Init PROVE LedgerInv
    OBVIOUS
  <2>2. Nothing \in [Grants -> Nat] /\ OpRow("none", 0) \in OpRows
    BY DEF Nothing, OpRow, OpRows, OpStatus
  <2>3. TypeOK
    BY <2>1, <2>2, BoundsAssumption DEF Init, TypeOK
  <2>4. Allocated
    BY <2>1, OpsAssumption DEF Init, Allocated, ChargeCovered, OpRow, Nothing
  <2> QED
    BY <2>3, <2>4 DEF LedgerInv
<1>2. LedgerInv /\ [Next]_vars => LedgerInv'
  <2>1. SUFFICES ASSUME LedgerInv, [Next]_vars PROVE LedgerInv'
    OBVIOUS
  <2>2. TypeOK /\ Allocated /\ LedgerStep
    BY <2>1, LedgerSteps DEF LedgerInv
  <2>3. LedgerTyped' /\ Allocated' /\ OthersTyped'
    BY <2>1, <2>2, BalancesTyped, ChargesCovered, OthersStayTyped
  <2> QED
    BY <2>3 DEF LedgerInv, TypeOK, LedgerTyped, OthersTyped
<1> QED
  BY <1>1, <1>2, PTL DEF Spec

(* Type correctness.  Balances are natural numbers, so no reservation of any *)
(* number of workers overdraws a grant (credit_operations.go:101, 134).      *)
THEOREM TypeCorrect == Spec => []TypeOK
  BY LedgerInvariant, PTL DEF LedgerInv

(* In every behaviour a customer pays for an operation at most the disclosed *)
(* maximum, and out of each grant at most what it had reserved there.        *)
THEOREM ChargesAreCovered == Spec => []ChargeCovered
  BY LedgerInvariant, PTL DEF LedgerInv, Allocated

-----------------------------------------------------------------------------
(* Steps *)

(* A settled operation is in none of the four ways. *)
THEOREM SettlementIsFinal == Spec => SettledIsFinal
<1>1. LedgerInv /\ [Next]_vars =>
        [\A o \in Ops : op[o].status = "settled" =>
           UNCHANGED <<op[o], taken[o], spent[o]>>]_vars
  <2>1. SUFFICES ASSUME LedgerInv, [Next]_vars, NEW o \in Ops, op[o].status = "settled"
                 PROVE  UNCHANGED <<op[o], taken[o], spent[o]>>
    OBVIOUS
  <2>2. LedgerStep
    BY <2>1, LedgerSteps DEF LedgerInv
  <2>3. ASSUME NEW x \in Ops, Books(x)
        PROVE  UNCHANGED <<op[o], taken[o], spent[o]>>
    <3>1. x # o
      BY <2>1, <2>3 DEF Books
    <3> QED
      BY <2>1, <2>3, <3>1 DEF Books, LedgerInv, TypeOK
  <2>4. ASSUME NEW x \in Ops, NEW cost \in Nat, Closes(x, cost)
        PROVE  UNCHANGED <<op[o], taken[o], spent[o]>>
    <3>1. x # o
      BY <2>1, <2>4 DEF Closes, Live
    <3> QED
      BY <2>1, <2>4, <3>1 DEF Closes, LedgerInv, TypeOK
  <2>5. CASE Advances
    BY <2>1, <2>5 DEF Advances, Live
  <2>6. ASSUME NEW g \in Grants, Funds(g)
        PROVE  UNCHANGED <<op[o], taken[o], spent[o]>>
    BY <2>6 DEF Funds, opVars
  <2> QED
    BY <2>2, <2>3, <2>4, <2>5, <2>6 DEF LedgerStep
<1> QED
  BY <1>1, LedgerInvariant, PTL DEF Spec, SettledIsFinal

(* A grant that was not opened has nothing to give or to get back. *)
Unopened ==
  \A g \in Grants \ opened : available[g] = 0 /\ \A o \in Ops : taken[o][g] = 0

(* No step takes from or gives back to a grant that is not open. *)
LEMMA UnopenedStays ==
  ASSUME LedgerInv, Unopened, LedgerStep
  PROVE  Unopened'
<1>1. /\ available \in [Grants -> Nat] /\ taken \in [Ops -> [Grants -> Nat]]
      /\ \A o \in Ops : Maximum[o] \in Nat
  BY OpsAssumption DEF LedgerInv, TypeOK
<1>2. ASSUME NEW o \in Ops, Books(o)
      PROVE  Unopened'
  <2>1. PICK part \in Portions(Spendable, Maximum[o]) :
          /\ available' = [g \in Grants |-> available[g] - part[g]]
          /\ taken' = [taken EXCEPT ![o] = part]
    BY <1>2 DEF Books
  <2>2. part \in [Grants -> Nat] /\ \A g \in Grants : part[g] <= Spendable[g]
    BY <1>1, <2>1, PortionsSound
  <2>3. \A g \in Grants \ opened : part[g] = 0
    BY <1>1, <2>2 DEF Spendable, Unopened
  <2> QED
    BY <1>1, <1>2, <2>1, <2>3 DEF Books, Unopened
<1>3. ASSUME NEW o \in Ops, NEW cost \in Nat, Closes(o, cost)
      PROVE  Unopened'
  <2>1. PICK charged \in Portions(taken[o], ChargeFor(o, cost)) :
          available' = Returned(o, charged)
    BY <1>3 DEF Closes
  <2>2. charged \in [Grants -> Nat] /\ \A g \in Grants : charged[g] <= taken[o][g]
    BY <1>1, <2>1, ChargeWithin, PortionsSound
  <2>3. \A g \in Grants \ opened : charged[g] = 0
    BY <1>1, <2>2 DEF Unopened
  <2> QED
    BY <1>1, <1>3, <2>1, <2>3 DEF Closes, Returned, Unopened
<1>4. CASE Advances
  BY <1>4 DEF Advances, Unopened
<1>5. ASSUME NEW g \in Grants, Funds(g)
      PROVE  Unopened'
  BY <1>1, <1>5 DEF Funds, opVars, Unopened
<1> QED
  BY <1>2, <1>3, <1>4, <1>5 DEF LedgerStep

(* The books of one step: nobody moves, or one operation takes from or gives *)
(* back to every grant exactly what it now holds more or less, or one grant  *)
(* gets exactly what it is opened with.                                      *)
Balanced ==
  \/ /\ UNCHANGED <<available, opened>>
     /\ \A o \in Ops, g \in Grants : Held(o, g)' = Held(o, g)
  \/ /\ UNCHANGED opened
     /\ \E o \in Ops : \A g \in Grants :
          /\ available'[g] + Held(o, g)' = available[g] + Held(o, g)
          /\ \A x \in Ops \ {o} : Held(x, g)' = Held(x, g)
  \/ \E g \in Grants \ opened :
       /\ opened' = opened \cup {g}
       /\ available' = [available EXCEPT ![g] = @ + Size[g]]
       /\ \A o \in Ops, h \in Grants : Held(o, h)' = Held(o, h)

(* Each of the four ways balances. *)
LEMMA StepsBalance ==
  ASSUME LedgerInv, Unopened, LedgerStep
  PROVE  Balanced
<1>1. /\ available \in [Grants -> Nat] /\ op \in [Ops -> OpRows]
      /\ taken \in [Ops -> [Grants -> Nat]] /\ spent \in [Ops -> [Grants -> Nat]]
      /\ \A o \in Ops : Maximum[o] \in Nat
      /\ \A o \in Ops : op[o].status = "none" => taken[o] = Nothing
  BY OpsAssumption DEF LedgerInv, TypeOK, Allocated
<1>2. ASSUME NEW o \in Ops, Books(o)
      PROVE  Balanced
  <2>1. PICK part \in Portions(Spendable, Maximum[o]) :
          /\ available' = [g \in Grants |-> available[g] - part[g]]
          /\ taken' = [taken EXCEPT ![o] = part]
    BY <1>2 DEF Books
  <2>2. part \in [Grants -> Nat] /\ \A g \in Grants : part[g] <= Spendable[g]
    BY <1>1, <2>1, PortionsSound
  <2>3. op' = [op EXCEPT ![o] = OpRow("reserved", op[o].charge)] /\ spent' = spent
    BY <1>2 DEF Books
  <2>4. op'[o].status = "reserved" /\ \A x \in Ops \ {o} : op'[x] = op[x] /\ taken'[x] = taken[x]
    BY <1>1, <2>1, <2>3 DEF OpRow
  <2>5. ASSUME NEW g \in Grants
        PROVE  /\ available'[g] + Held(o, g)' = available[g] + Held(o, g)
               /\ \A x \in Ops \ {o} : Held(x, g)' = Held(x, g)
    <3>1. Held(o, g) = 0 /\ Held(o, g)' = part[g]
      BY <1>1, <1>2, <2>1, <2>4 DEF Held, Books, Nothing
    <3>2. part[g] \in Nat /\ available[g] \in Nat /\ part[g] <= available[g]
      BY <1>1, <2>2 DEF Spendable
    <3>3. available'[g] = available[g] - part[g]
      BY <2>1
    <3>4. \A x \in Ops \ {o} : Held(x, g)' = Held(x, g)
      BY <2>3, <2>4 DEF Held
    <3> QED
      BY <3>1, <3>2, <3>3, <3>4
  <2> QED
    BY <1>2, <2>5 DEF Balanced, Books
<1>3. ASSUME NEW o \in Ops, NEW cost \in Nat, Closes(o, cost)
      PROVE  Balanced
  <2>1. PICK charged \in Portions(taken[o], ChargeFor(o, cost)) :
          /\ available' = Returned(o, charged)
          /\ spent' = [spent EXCEPT ![o] = charged]
          /\ op' = [op EXCEPT ![o] = OpRow("settled", ChargeFor(o, cost))]
    BY <1>3 DEF Closes
  <2>2. charged \in [Grants -> Nat] /\ \A g \in Grants : charged[g] <= taken[o][g]
    BY <1>1, <2>1, ChargeWithin, PortionsSound
  <2>3. taken' = taken /\ op[o].status # "settled"
    BY <1>3 DEF Closes, Live
  <2>4. op'[o].status = "settled" /\ \A x \in Ops \ {o} : op'[x] = op[x] /\ spent'[x] = spent[x]
    BY <1>1, <2>1 DEF OpRow
  <2>5. ASSUME NEW g \in Grants
        PROVE  /\ available'[g] + Held(o, g)' = available[g] + Held(o, g)
               /\ \A x \in Ops \ {o} : Held(x, g)' = Held(x, g)
    <3>1. Held(o, g) = taken[o][g] /\ Held(o, g)' = charged[g]
      BY <1>1, <2>1, <2>3, <2>4 DEF Held
    <3>2. charged[g] \in Nat /\ taken[o][g] \in Nat /\ charged[g] <= taken[o][g]
      BY <1>1, <2>2
    <3>3. available[g] \in Nat /\ available'[g] = available[g] + (taken[o][g] - charged[g])
      BY <1>1, <2>1 DEF Returned
    <3>4. \A x \in Ops \ {o} : Held(x, g)' = Held(x, g)
      BY <2>3, <2>4 DEF Held
    <3> QED
      BY <3>1, <3>2, <3>3, <3>4
  <2> QED
    BY <1>3, <2>5 DEF Balanced, Closes
<1>4. CASE Advances
  BY <1>4 DEF Advances, Live, Held, Balanced
<1>5. ASSUME NEW g \in Grants, Funds(g)
      PROVE  Balanced
  <2>1. available[g] = 0 /\ Size[g] \in Nat
    BY <1>5, GrantsAssumption DEF Unopened, Funds
  <2>2. available[g] + Size[g] = Size[g]
    BY <2>1
  <2>3. available' = [available EXCEPT ![g] = @ + Size[g]]
    BY <1>5, <2>2, Zenon DEF Funds
  <2>4. \A o \in Ops, h \in Grants : Held(o, h)' = Held(o, h)
    BY <1>5 DEF Funds, opVars, Held
  <2> QED
    BY <1>5, <2>3, <2>4 DEF Funds, Balanced
<1> QED
  BY <1>2, <1>3, <1>4, <1>5 DEF LedgerStep

(* A grant nobody opened is untouched in every behaviour. *)
LEMMA UnopenedUntouched == Spec => []Unopened
<1>1. Init => Unopened
  BY DEF Init, Unopened, Nothing
<1>2. LedgerInv /\ Unopened /\ [Next]_vars => Unopened'
  BY LedgerSteps, UnopenedStays DEF LedgerInv
<1> QED
  BY <1>1, <1>2, LedgerInvariant, PTL DEF Spec

(* Every transaction posts as much as it takes, grant by grant, whichever    *)
(* process runs it (credit_operations.go:134, 362): the inductive step of    *)
(* GrantsBalance, for any number of grants and operations.                   *)
THEOREM TransactionsBalance == Spec => [][Balanced]_vars
<1>1. LedgerInv /\ Unopened /\ [Next]_vars => [Balanced]_vars
  BY LedgerSteps, StepsBalance DEF LedgerInv
<1> QED
  BY <1>1, UnopenedUntouched, LedgerInvariant, PTL DEF Spec
-----------------------------------------------------------------------------
(* Sums over grants and operations *)

LEMMA HoldingsTyped ==
  ASSUME LedgerInv, NEW g \in Grants
  PROVE  [o \in Ops |-> Held(o, g)] \in [Ops -> Nat]
<1>1. \A o \in Ops : taken[o][g] \in Nat /\ spent[o][g] \in Nat
  BY DEF LedgerInv, TypeOK
<1> QED
  BY <1>1 DEF Held

(* The inductive step of GrantsBalance: a step that balances keeps the sums. *)
LEMMA BalancedKeeps ==
  ASSUME LedgerInv, LedgerInv', GrantsBalance, Balanced
  PROVE  GrantsBalance'
<1>1. SUFFICES ASSUME NEW g \in Grants
               PROVE  available'[g] + Total([o \in Ops |-> Held(o, g)'])
                        = IF g \in opened' THEN Size[g] ELSE 0
  BY DEF GrantsBalance
<1> DEFINE h == [o \in Ops |-> Held(o, g)]
           k == [o \in Ops |-> Held(o, g)']
<1>2. h \in [Ops -> Nat]
  BY HoldingsTyped
<1>3. k \in [Ops -> Nat]
  <2>1. \A o \in Ops : taken'[o][g] \in Nat /\ spent'[o][g] \in Nat
    BY DEF LedgerInv, TypeOK
  <2> QED
    BY <2>1 DEF Held
<1>4. available[g] \in Nat /\ available'[g] \in Nat /\ Size[g] \in Nat
  BY GrantsAssumption DEF LedgerInv, TypeOK
<1>5. available[g] + Total(h) = IF g \in opened THEN Size[g] ELSE 0
  BY DEF GrantsBalance
<1>6. Total(h) \in Nat /\ Total(k) \in Nat
  <2> HIDE DEF h, k
  <2> QED BY <1>2, <1>3, TotalTyped, OpsAssumption
<1>7. CASE /\ UNCHANGED <<available, opened>>
           /\ \A o \in Ops, x \in Grants : Held(o, x)' = Held(o, x)
  <2>1. h = k
    BY <1>7
  <2> QED
    BY <1>5, <1>7, <2>1
<1>8. ASSUME opened' = opened, NEW o \in Ops,
             available'[g] + Held(o, g)' = available[g] + Held(o, g),
             \A x \in Ops \ {o} : Held(x, g)' = Held(x, g)
      PROVE  available'[g] + Total(k) = IF g \in opened' THEN Size[g] ELSE 0
  <2>1. \A x \in Ops \ {o} : k[x] = h[x]
    BY <1>8
  <2>2. Total(k) + h[o] = Total(h) + k[o]
    <3> HIDE DEF h, k
    <3> QED BY <1>2, <1>3, <2>1, TotalChanges, OpsAssumption
  <2>3. available'[g] + k[o] = available[g] + h[o] /\ h[o] \in Nat /\ k[o] \in Nat
    BY <1>2, <1>3, <1>8
  <2> HIDE DEF h, k
  <2>4. available'[g] + Total(k) = available[g] + Total(h)
    BY ONLY <1>4, <1>6, <2>2, <2>3
  <2> QED
    BY <1>5, <1>8, <2>4
<1>9. ASSUME NEW new \in Grants \ opened, opened' = opened \cup {new},
             available' = [available EXCEPT ![new] = @ + Size[new]],
             \A o \in Ops, x \in Grants : Held(o, x)' = Held(o, x)
      PROVE  available'[g] + Total(k) = IF g \in opened' THEN Size[g] ELSE 0
  <2>1. h = k
    BY <1>9
  <2>2. CASE g = new
    <3>1. available'[g] = available[g] + Size[g]
      BY <1>9, <2>2 DEF LedgerInv, TypeOK
    <3>2. available[g] + Total(h) = 0 /\ g \in opened'
      BY <1>5, <1>9, <2>2
    <3> HIDE DEF h, k
    <3> QED BY <1>4, <1>6, <2>1, <3>1, <3>2
  <2>3. CASE g # new
    <3>1. available'[g] = available[g] /\ (g \in opened' <=> g \in opened)
      BY <1>9, <2>3 DEF LedgerInv, TypeOK
    <3> HIDE DEF h, k
    <3> QED BY <1>5, <2>1, <3>1
  <2> QED
    BY <2>2, <2>3
<1> QED
  BY <1>7, <1>8, <1>9 DEF Balanced

(* No credit is ever lost or made, for any number of grants, operations and  *)
(* processes: what was posted to a grant is available, held or spent         *)
(* (credit_operations.go:362-379).                                           *)
THEOREM NoCreditIsLost == Spec => []GrantsBalance
<1>1. Init => GrantsBalance
  <2>1. SUFFICES ASSUME Init, NEW g \in Grants
                 PROVE  available[g] + Total([o \in Ops |-> Held(o, g)])
                          = IF g \in opened THEN Size[g] ELSE 0
    BY DEF GrantsBalance
  <2> DEFINE h == [o \in Ops |-> Held(o, g)]
  <2>2. h \in [Ops -> Nat] /\ \A o \in Ops : h[o] = 0
    <3>1. \A o \in Ops : op[o].status = "none" /\ taken[o][g] = 0
      BY <2>1 DEF Init, Nothing, OpRow
    <3>2. \A o \in Ops : Held(o, g) = 0
      BY <3>1 DEF Held
    <3> QED
      BY <3>2
  <2>3. Total(h) = 0
    <3> HIDE DEF h
    <3> QED BY <2>2, TotalOfNothing, OpsAssumption
  <2>4. available[g] = 0 /\ g \notin opened
    BY <2>1 DEF Init, Nothing
  <2>5. available[g] + Total(h) = IF g \in opened THEN Size[g] ELSE 0
    <3> HIDE DEF h
    <3> QED BY <2>3, <2>4
  <2> QED
    BY <2>5
<1>2. LedgerInv /\ LedgerInv' /\ Unopened /\ GrantsBalance /\ [Next]_vars => GrantsBalance'
  BY LedgerSteps, StepsBalance, BalancedKeeps DEF LedgerInv
<1> QED
  BY <1>1, <1>2, LedgerInvariant, UnopenedUntouched, PTL DEF Spec

-----------------------------------------------------------------------------
(* Caps *)

(* What an operation counts towards the caps it is under. *)
Counted(o) ==
  IF op[o].status = "settled" THEN op[o].charge
  ELSE IF op[o].status \in Live THEN Maximum[o] ELSE 0

Subordinates(s) == {x \in Ops : s \in Under[x]}

LEMMA CommittedCounts ==
  ASSUME NEW s
  PROVE  Committed(s) = Total([o \in Subordinates(s) |-> Counted(o)])
<1>1. [o \in {x \in Ops : s \in Under[x]} |->
           CASE op[o].status = "settled" -> op[o].charge
             [] op[o].status \in Live    -> Maximum[o]
             [] OTHER                    -> 0]
        = [o \in Subordinates(s) |-> Counted(o)]
  BY DEF Subordinates, Counted, Live
<1> QED
  BY <1>1 DEF Committed

LEMMA CountedTyped ==
  ASSUME LedgerInv, NEW s
  PROVE  /\ IsFiniteSet(Subordinates(s))
         /\ [o \in Subordinates(s) |-> Counted(o)] \in [Subordinates(s) -> Nat]
<1>1. IsFiniteSet(Subordinates(s))
  BY OpsAssumption, FS_Subset DEF Subordinates
<1>2. \A o \in Subordinates(s) : op[o].charge \in Nat /\ Maximum[o] \in Nat
  BY OpsAssumption DEF LedgerInv, TypeOK, OpRows, Subordinates
<1> QED
  BY <1>1, <1>2 DEF Counted

(* How the four ways move what a subject has committed. *)
LEMMA CommittedMoves ==
  ASSUME LedgerInv, LedgerInv', LedgerStep, NEW s
  PROVE  /\ Committed(s) \in Nat /\ Committed(s)' \in Nat
         /\ \/ Committed(s)' <= Committed(s)
            \/ \E o \in Ops : /\ s \in Under[o] /\ WithinCaps(o)
                              /\ Committed(s)' = Committed(s) + Maximum[o]
<1> DEFINE D == Subordinates(s)
           f == [o \in D |-> Counted(o)]
           h == [o \in D |-> Counted(o)']
<1>1. IsFiniteSet(D) /\ f \in [D -> Nat]
  BY CountedTyped
<1>2. h \in [D -> Nat]
  <2>1. \A o \in D : op'[o].charge \in Nat /\ Maximum[o] \in Nat
    BY OpsAssumption DEF LedgerInv, TypeOK, OpRows, Subordinates
  <2> QED
    BY <2>1 DEF Counted
<1>3. Committed(s) = Total(f) /\ Committed(s)' = Total(h)
  <2>1. Committed(s) = Total(f)
    BY CommittedCounts
  <2>2. [o \in {x \in Ops : s \in Under[x]} |->
             CASE op'[o].status = "settled" -> op'[o].charge
               [] op'[o].status \in Live    -> Maximum[o]
               [] OTHER                     -> 0] = h
    BY DEF Subordinates, Counted, Live
  <2>3. Committed(s)' = Total(h)
    <3> HIDE DEF h
    <3> QED BY <2>2 DEF Committed
  <2> QED
    BY <2>1, <2>3
<1>4. Total(f) \in Nat /\ Total(h) \in Nat
  <2> HIDE DEF D, f, h
  <2> QED BY <1>1, <1>2, TotalTyped
<1>5. ASSUME f = h
      PROVE  Committed(s)' <= Committed(s)
  BY <1>3, <1>4, <1>5
<1>6. ASSUME NEW o \in Ops, \A x \in Ops \ {o} : op'[x] = op[x]
      PROVE  /\ o \notin D => f = h
             /\ o \in D => Total(f) + Counted(o)' = Total(h) + Counted(o)
  <2>1. \A x \in D \ {o} : f[x] = h[x]
    BY <1>6 DEF Counted, Subordinates
  <2>2. CASE o \notin D
    BY <2>1, <2>2
  <2>3. CASE o \in D
    <3>1. f[o] = Counted(o) /\ h[o] = Counted(o)'
      BY <2>3
    <3> HIDE DEF D, f, h
    <3>2. Total(f) + h[o] = Total(h) + f[o]
      BY <1>1, <1>2, <2>1, <2>3, TotalChanges
    <3> QED
      BY <2>3, <3>1, <3>2
  <2> QED
    BY <2>2, <2>3
<1>7. op \in [Ops -> OpRows] /\ \A o \in Ops : op[o].charge \in Nat /\ Maximum[o] \in Nat
  BY OpsAssumption DEF LedgerInv, TypeOK, OpRows
<1>8. ASSUME NEW o \in Ops, Books(o)
      PROVE  \/ Committed(s)' <= Committed(s)
             \/ /\ s \in Under[o] /\ WithinCaps(o)
                /\ Committed(s)' = Committed(s) + Maximum[o]
  <2>1. op' = [op EXCEPT ![o] = OpRow("reserved", op[o].charge)]
    BY <1>8 DEF Books
  <2>2. Counted(o) = 0 /\ Counted(o)' = Maximum[o]
    BY <1>7, <1>8, <2>1 DEF Books, Counted, OpRow, Live
  <2>3. \A x \in Ops \ {o} : op'[x] = op[x]
    BY <1>7, <2>1
  <2>4. CASE o \notin D
    BY <1>5, <1>6, <2>3, <2>4
  <2>5. CASE o \in D
    <3>1. Total(f) + Maximum[o] = Total(h) + 0
      <4> HIDE DEF D, f, h
      <4> QED BY <1>6, <2>2, <2>3, <2>5
    <3>2. s \in Under[o] /\ WithinCaps(o) /\ Maximum[o] \in Nat
      BY <1>7, <1>8, <2>5 DEF Books, Subordinates
    <3> HIDE DEF D, f, h
    <3> QED BY <1>3, <1>4, <3>1, <3>2
  <2> QED
    BY <2>4, <2>5
<1>9. ASSUME NEW o \in Ops, NEW cost \in Nat, Closes(o, cost)
      PROVE  Committed(s)' <= Committed(s)
  <2>1. op' = [op EXCEPT ![o] = OpRow("settled", ChargeFor(o, cost))]
    BY <1>9 DEF Closes
  <2>2. Counted(o) = Maximum[o] /\ Counted(o)' = ChargeFor(o, cost)
    BY <1>7, <1>9, <2>1 DEF Closes, Counted, OpRow, Live
  <2>3. \A x \in Ops \ {o} : op'[x] = op[x]
    BY <1>7, <2>1
  <2>4. CASE o \notin D
    BY <1>5, <1>6, <2>3, <2>4
  <2>5. CASE o \in D
    <3>1. Total(f) + ChargeFor(o, cost) = Total(h) + Maximum[o]
      <4> HIDE DEF D, f, h
      <4> QED BY <1>6, <2>2, <2>3, <2>5
    <3>2. ChargeFor(o, cost) \in Nat /\ ChargeFor(o, cost) <= Maximum[o] /\ Maximum[o] \in Nat
      BY <1>7, ChargeWithin
    <3> HIDE DEF D, f, h
    <3> QED BY <1>3, <1>4, <3>1, <3>2
  <2> QED
    BY <2>4, <2>5
<1>10. CASE Advances
  <2>1. \A o \in Ops : Counted(o)' = Counted(o)
    BY <1>10 DEF Advances, Counted, Live
  <2>2. f = h
    BY <2>1 DEF Subordinates
  <2> QED
    BY <1>3, <1>4, <1>5, <2>2
<1>11. ASSUME NEW g \in Grants, Funds(g)
       PROVE  Committed(s)' <= Committed(s)
  <2>1. f = h
    BY <1>11 DEF Funds, opVars, Counted
  <2> QED
    BY <1>5, <2>1
<1> QED
  BY <1>3, <1>4, <1>8, <1>9, <1>10, <1>11 DEF LedgerStep

(* A cap that its owner leaves alone is never exceeded by a step that        *)
(* commits more, whichever worker takes it and however many compete          *)
(* (credit_limits.go:45, 62).                                                *)
THEOREM CapsAreHard == Spec => CapIsHard
<1>1. LedgerInv /\ LedgerInv' /\ [Next]_vars =>
        [\A s \in Subjects :
           cap[s] # NoCap /\ cap'[s] = cap[s] /\ Committed(s)' > Committed(s)
             => Committed(s)' <= cap[s]]_vars
  <2>1. SUFFICES ASSUME LedgerInv, LedgerInv', [Next]_vars, NEW s \in Subjects,
                        cap[s] # NoCap, Committed(s)' > Committed(s)
                 PROVE  Committed(s)' <= cap[s]
    OBVIOUS
  <2>2. LedgerStep
    BY <2>1, LedgerSteps DEF LedgerInv
  <2>3. Committed(s) \in Nat /\ Committed(s)' \in Nat
    BY <2>1, <2>2, CommittedMoves
  <2>4. PICK o \in Ops : /\ s \in Under[o] /\ WithinCaps(o)
                         /\ Committed(s)' = Committed(s) + Maximum[o]
    BY <2>1, <2>2, <2>3, CommittedMoves
  <2>5. Committed(s) + Maximum[o] <= cap[s]
    BY <2>1, <2>4 DEF WithinCaps
  <2> QED
    BY <2>4, <2>5
<1> QED
  BY <1>1, LedgerInvariant, PTL DEF Spec, CapIsHard

-----------------------------------------------------------------------------
(* The wallet *)

Shown(o) ==
  CASE op[o].status = "none"    -> "new"
    [] op[o].status = "settled" -> "closed"
    [] OTHER                    -> "held"

(* An operation that has a row holds its maximum, from whichever grants, and *)
(* is charged when it is settled and not before.                             *)
Disclosed ==
  \A o \in Ops : /\ op[o].status # "none" => Total(taken[o]) = Maximum[o]
                 /\ op[o].status # "settled" => op[o].charge = 0

GrantsFinite == IsFiniteSet(Grants)

LEMMA GrantsAreFinite == GrantsFinite
  BY GrantsAssumption, FS_Interval DEF Grants, GrantsFinite

(* The four ways keep reservations at their maximum. *)
LEMMA DisclosedStays ==
  ASSUME LedgerInv, Disclosed, LedgerStep
  PROVE  Disclosed'
<1>1. /\ op \in [Ops -> OpRows] /\ taken \in [Ops -> [Grants -> Nat]]
      /\ \A o \in Ops : Maximum[o] \in Nat
  BY OpsAssumption DEF LedgerInv, TypeOK
<1>2. ASSUME NEW o \in Ops, Books(o)
      PROVE  Disclosed'
  <2>1. PICK part \in Portions(Spendable, Maximum[o]) : taken' = [taken EXCEPT ![o] = part]
    BY <1>2 DEF Books
  <2>2. Total(part) = Maximum[o]
    BY <2>1 DEF Portions
  <2>3. op' = [op EXCEPT ![o] = OpRow("reserved", op[o].charge)] /\ op[o].status = "none"
    BY <1>2 DEF Books
  <2>4. taken'[o] = part /\ op'[o].status = "reserved" /\ op'[o].charge = op[o].charge
    BY <1>1, <2>1, <2>3 DEF OpRow
  <2>5. \A x \in Ops \ {o} : taken'[x] = taken[x] /\ op'[x] = op[x]
    BY <1>1, <2>1, <2>3
  <2>6. op[o].charge = 0
    BY <2>3 DEF Disclosed
  <2> QED
    BY <2>2, <2>4, <2>5, <2>6 DEF Disclosed
<1>3. ASSUME NEW o \in Ops, NEW cost \in Nat, Closes(o, cost)
      PROVE  Disclosed'
  <2>1. op' = [op EXCEPT ![o] = OpRow("settled", ChargeFor(o, cost))] /\ taken' = taken
    BY <1>3 DEF Closes
  <2>2. op'[o].status = "settled" /\ op[o].status # "none"
    BY <1>1, <1>3, <2>1 DEF Closes, OpRow, Live
  <2>3. \A x \in Ops \ {o} : op'[x] = op[x]
    BY <1>1, <2>1
  <2> QED
    BY <2>1, <2>2, <2>3 DEF Disclosed
<1>4. CASE Advances
  <2>1. \A o \in Ops : /\ op'[o].charge = op[o].charge
                       /\ op'[o].status = "none" <=> op[o].status = "none"
                       /\ op'[o].status = "settled" <=> op[o].status = "settled"
    BY <1>4 DEF Advances, Live
  <2>2. taken' = taken
    BY <1>4 DEF Advances
  <2> QED
    BY <2>1, <2>2 DEF Disclosed
<1>5. ASSUME NEW g \in Grants, Funds(g)
      PROVE  Disclosed'
  BY <1>5 DEF Funds, opVars, Disclosed
<1> QED
  BY <1>2, <1>3, <1>4, <1>5 DEF LedgerStep

LEMMA ReservationsDisclosed == Spec => []Disclosed
<1>1. Init => Disclosed
  BY DEF Init, Disclosed, OpRow
<1>2. LedgerInv /\ Disclosed /\ [Next]_vars => Disclosed'
  BY LedgerSteps, DisclosedStays DEF LedgerInv
<1> QED
  BY <1>1, <1>2, LedgerInvariant, PTL DEF Spec

(* What the wallet shows is typed, and closing an operation is what it takes *)
(* to be charged for it.                                                     *)
LEMMA WalletTyped ==
  ASSUME LedgerInv
  PROVE  /\ Total(available) \in Nat
         /\ [o \in Ops |-> op[o].charge] \in [Ops -> Nat]
         /\ Total([o \in Ops |-> op[o].charge]) \in Nat
<1>1. available \in [Grants -> Nat] /\ [o \in Ops |-> op[o].charge] \in [Ops -> Nat]
  BY DEF LedgerInv, TypeOK, OpRows
<1>2. Total(available) \in Nat
  BY <1>1, GrantsAreFinite, TotalTyped DEF GrantsFinite
<1> DEFINE f == [o \in Ops |-> op[o].charge]
<1>3. Total(f) \in Nat
  <2>1. f \in [Ops -> Nat]
    BY <1>1
  <2> HIDE DEF f
  <2> QED BY <2>1, OpsAssumption, TotalTyped
<1> QED
  BY <1>1, <1>2, <1>3

(* A reservation is a hold of the wallet. *)
LEMMA BooksHold ==
  ASSUME LedgerInv, LedgerInv', Disclosed, NEW o \in Ops, Books(o)
  PROVE  Promise!Hold(o)
<1>1. /\ available \in [Grants -> Nat] /\ available' \in [Grants -> Nat]
      /\ op \in [Ops -> OpRows] /\ Maximum[o] \in Nat
  BY OpsAssumption DEF LedgerInv, TypeOK
<1>2. PICK part \in Portions(Spendable, Maximum[o]) :
        available' = [g \in Grants |-> available[g] - part[g]]
  BY DEF Books
<1>3. part \in [Grants -> Nat] /\ Total(part) = Maximum[o]
  BY <1>1, <1>2, PortionsSound DEF Portions
<1>4. \A g \in Grants : available[g] = available'[g] + part[g]
  <2>1. ASSUME NEW g \in Grants PROVE available[g] = available'[g] + part[g]
    <3>1. available[g] \in Nat /\ part[g] \in Nat /\ available'[g] = available[g] - part[g]
      BY <1>1, <1>2, <1>3
    <3> QED BY <3>1
  <2> QED BY <2>1
<1>5. Total(available) = Total(available') + Total(part)
  BY <1>1, <1>3, <1>4, GrantsAreFinite, TotalAdds DEF GrantsFinite
<1>6. Total(available') \in Nat
  BY <1>1, GrantsAreFinite, TotalTyped DEF GrantsFinite
<1>7. Maximum[o] <= Total(available) /\ Total(available') = Total(available) - Maximum[o]
  BY <1>1, <1>3, <1>5, <1>6
<1>8. /\ op' = [op EXCEPT ![o] = OpRow("reserved", op[o].charge)]
      /\ op[o].status = "none"
  BY DEF Books
<1>9. op'[o].status = "reserved" /\ op'[o].charge = op[o].charge
      /\ \A x \in Ops \ {o} : op'[x] = op[x]
  BY <1>1, <1>8 DEF OpRow
<1>10. [x \in Ops |-> op'[x].charge] = [x \in Ops |-> op[x].charge]
  BY <1>9
<1>11. Shown(o) = "new" /\ Shown(o)' = "held" /\ \A x \in Ops \ {o} : Shown(x)' = Shown(x)
  BY <1>8, <1>9 DEF Shown
<1> QED
  BY <1>7, <1>10, <1>11 DEF Promise!Hold, Shown

(* A settlement is a close of the wallet, at what is charged. *)
LEMMA ClosesClose ==
  ASSUME LedgerInv, LedgerInv', Disclosed, NEW o \in Ops, NEW cost \in Nat, Closes(o, cost)
  PROVE  \E charge \in 0 .. Maximum[o] : Promise!Close(o, charge)
<1> DEFINE charge == ChargeFor(o, cost)
           f == [x \in Ops |-> op[x].charge]
           h == [x \in Ops |-> op'[x].charge]
<1>1. /\ available \in [Grants -> Nat] /\ available' \in [Grants -> Nat]
      /\ taken \in [Ops -> [Grants -> Nat]] /\ op \in [Ops -> OpRows]
      /\ op' \in [Ops -> OpRows] /\ Maximum[o] \in Nat
  BY OpsAssumption DEF LedgerInv, TypeOK
<1>2. charge \in Nat /\ charge <= Maximum[o]
  BY ChargeWithin
<1>3. op' = [op EXCEPT ![o] = OpRow("settled", charge)] /\ op[o].status \in Live
  BY DEF Closes
<1> HIDE DEF charge
<1>4. /\ op'[o].status = "settled" /\ op'[o].charge = charge
      /\ \A x \in Ops \ {o} : op'[x] = op[x]
  BY <1>1, <1>3 DEF OpRow
<1>5. Total(taken[o]) = Maximum[o] /\ op[o].charge = 0
  BY <1>3 DEF Disclosed, Live
<1>6. Total(available') + charge = Total(available) + Maximum[o]
  <2>1. PICK charged \in Portions(taken[o], charge) : available' = Returned(o, charged)
    BY DEF Closes, charge
  <2>2. /\ charged \in [Grants -> Nat] /\ Total(charged) = charge
        /\ \A g \in Grants : charged[g] <= taken[o][g]
    BY <1>2, <2>1, PortionsSound DEF Portions
  <2> DEFINE both == [g \in Grants |-> available[g] + taken[o][g]]
  <2>3. both \in [Grants -> Nat] /\ taken[o] \in [Grants -> Nat]
    BY <1>1
  <2>4. \A g \in Grants : both[g] = available[g] + taken[o][g]
    OBVIOUS
  <2>5. \A g \in Grants : both[g] = available'[g] + charged[g]
    <3>1. ASSUME NEW g \in Grants
          PROVE  available[g] + taken[o][g] = available'[g] + charged[g]
      <4>1. /\ available[g] \in Nat /\ taken[o][g] \in Nat /\ charged[g] \in Nat
            /\ available'[g] = available[g] + (taken[o][g] - charged[g])
        BY <1>1, <2>1, <2>2 DEF Returned
      <4> QED BY <4>1
    <3> QED BY <3>1
  <2> HIDE DEF both
  <2>6. Total(both) = Total(available) + Total(taken[o])
    BY <1>1, <2>3, <2>4, GrantsAreFinite, TotalAdds DEF GrantsFinite
  <2>7. Total(both) = Total(available') + Total(charged)
    <3>1. available' \in [Grants -> Nat] /\ charged \in [Grants -> Nat] /\ IsFiniteSet(Grants)
      BY <1>1, <2>2, GrantsAreFinite DEF GrantsFinite
    <3> QED
      BY ONLY <2>3, <2>5, <3>1, TotalAdds
  <2> QED
    BY <1>5, <2>2, <2>6, <2>7
<1>7. Total(available) \in Nat /\ Total(available') \in Nat
  BY <1>1, GrantsAreFinite, TotalTyped DEF GrantsFinite
<1>8. Total(available') = Total(available) + (Maximum[o] - charge)
  <2> DEFINE a == Total(available)
             b == Total(available')
             m == Maximum[o]
  <2>1. a \in Nat /\ b \in Nat /\ m \in Nat /\ charge \in Nat /\ b + charge = a + m
    BY <1>1, <1>2, <1>6, <1>7
  <2>2. b = a + (m - charge)
    <3> HIDE DEF a, b, m
    <3> QED BY ONLY <2>1
  <2> QED
    BY <2>2
<1>9. f \in [Ops -> Nat] /\ h \in [Ops -> Nat]
  BY <1>1 DEF OpRows
<1>10. Total(h) = Total(f) + charge
  <2>1. h[o] = charge /\ f[o] = 0 /\ \A x \in Ops \ {o} : f[x] = h[x]
    BY <1>4, <1>5
  <2> HIDE DEF f, h
  <2>2. Total(f) \in Nat /\ Total(h) \in Nat
    BY <1>9, TotalTyped, OpsAssumption
  <2>3. Total(f) + h[o] = Total(h) + f[o]
    BY <1>9, <2>1, TotalChanges, OpsAssumption
  <2> QED
    BY ONLY <1>2, <2>1, <2>2, <2>3
<1>11. Shown(o) = "held" /\ Shown(o)' = "closed" /\ \A x \in Ops \ {o} : Shown(x)' = Shown(x)
  BY <1>3, <1>4 DEF Shown, Live
<1>12. charge \in 0 .. Maximum[o]
  BY <1>1, <1>2
<1>13. Promise!Close(o, charge)
  BY <1>8, <1>10, <1>11 DEF Promise!Close, Shown
<1> QED
  BY <1>12, <1>13

(* A grant that opens is a deposit. *)
LEMMA FundsDeposit ==
  ASSUME LedgerInv, LedgerInv', Unopened, NEW g \in Grants, Funds(g)
  PROVE  Promise!Deposit(Size[g])
<1>1. /\ available \in [Grants -> Nat] /\ available' \in [Grants -> Nat] /\ Size[g] \in Nat
  BY GrantsAssumption DEF LedgerInv, TypeOK
<1>2. available[g] = 0
  BY DEF Unopened, Funds
<1>3. available'[g] = Size[g] /\ \A x \in Grants \ {g} : available[x] = available'[x]
  BY <1>1 DEF Funds
<1>4. Total(available) \in Nat /\ Total(available') \in Nat
  BY <1>1, GrantsAreFinite, TotalTyped DEF GrantsFinite
<1>5. Total(available) + available'[g] = Total(available') + available[g]
  BY <1>1, <1>3, GrantsAreFinite, TotalChanges DEF GrantsFinite
<1>6. Total(available') = Total(available) + Size[g]
  BY <1>1, <1>2, <1>3, <1>4, <1>5
<1>7. op' = op
  BY DEF Funds, opVars
<1> QED
  BY <1>6, <1>7 DEF Promise!Deposit

(* A customer never sees that an operation reached the provider. *)
LEMMA AdvancesStutter ==
  ASSUME Advances
  PROVE  UNCHANGED Promise!walletVars
<1>1. available' = available
  BY DEF Advances
<1>2. \A o \in Ops : op'[o].charge = op[o].charge /\ Shown(o)' = Shown(o)
  BY DEF Advances, Live, Shown
<1>3. [o \in Ops |-> op'[o].charge] = [o \in Ops |-> op[o].charge]
  BY <1>2
<1> QED
  BY <1>1, <1>2, <1>3 DEF Promise!walletVars, Shown

(* The ledger implements the wallet: whatever the processes do, and in       *)
(* whatever order, an operation is held at most once, at no more than there  *)
(* is, closed at most once, at no more than it held, and the rest is free    *)
(* again (credit_operations.go:101-146, 320-379).                            *)
THEOREM LedgerIsAWallet == Spec => ImplementsWallet
<1>1. Init => Promise!Init
  <2>1. SUFFICES ASSUME Init PROVE Promise!Init
    OBVIOUS
  <2>2. available \in [Grants -> Nat] /\ \A g \in Grants : available[g] = 0
    BY <2>1 DEF Init, Nothing
  <2>3. Total(available) = 0
    BY <2>2, TotalOfNothing, GrantsAreFinite DEF GrantsFinite
  <2> DEFINE f == [o \in Ops |-> op[o].charge]
  <2>4. f \in [Ops -> Nat] /\ \A o \in Ops : f[o] = 0
    BY <2>1 DEF Init, OpRow
  <2>5. Total(f) = 0
    <3> HIDE DEF f
    <3> QED BY <2>4, TotalOfNothing, OpsAssumption
  <2>6. \A o \in Ops : op[o].status = "none"
    BY <2>1 DEF Init, OpRow
  <2> QED
    BY <2>3, <2>5, <2>6 DEF Promise!Init
<1>2. LedgerInv /\ LedgerInv' /\ Unopened /\ Disclosed /\ [Next]_vars
        => [Promise!Next]_(Promise!walletVars)
  <2>1. SUFFICES ASSUME LedgerInv, LedgerInv', Unopened, Disclosed, [Next]_vars
                 PROVE  [Promise!Next]_(Promise!walletVars)
    OBVIOUS
  <2>2. LedgerStep
    BY <2>1, LedgerSteps DEF LedgerInv
  <2>3. ASSUME NEW o \in Ops, Books(o)
        PROVE  Promise!Next
    BY <2>1, <2>3, BooksHold DEF Promise!Next
  <2>4. ASSUME NEW o \in Ops, NEW cost \in Nat, Closes(o, cost)
        PROVE  Promise!Next
    BY <2>1, <2>4, ClosesClose DEF Promise!Next
  <2>5. ASSUME NEW g \in Grants, Funds(g)
        PROVE  Promise!Next
    <3>1. Promise!Deposit(Size[g])
      BY <2>1, <2>5, FundsDeposit
    <3> QED
      BY <3>1 DEF Promise!Next
  <2> QED
    BY <2>2, <2>3, <2>4, <2>5, AdvancesStutter DEF LedgerStep
<1> QED
  BY <1>1, <1>2, LedgerInvariant, UnopenedUntouched, ReservationsDisclosed, PTL
     DEF Spec, ImplementsWallet, Promise!WalletSpec

=============================================================================
