-------------------------- MODULE FixHistoryProofs --------------------------
(***************************************************************************)
(* Proofs about FixHistory: what the estimate and every history entry hold *)
(* after any predict steps and corrections, for a history of any length.   *)
(***************************************************************************)
EXTENDS FixHistory, NatFacts

LEMMA Sizes ==
    /\ HistoryLen \in Nat /\ HistoryLen > 0
    /\ TickMod \in Nat /\ TickMod > 0
    /\ MaxSteps \in Nat /\ MaxFixes \in Nat
    /\ \A gap \in Gaps : gap \in Nat
    /\ \A age \in Ages : age \in Nat
    /\ \A tick \in StartTick : tick \in 0 .. TickMod - 1
BY HistoryAssumption

LEMMA MinIs ==
    ASSUME NEW T \in SUBSET Int, NEW x \in T, \A y \in T : x <= y
    PROVE  Min(T) = x
<1>1. Min(T) \in T /\ \A y \in T : Min(T) <= y
  BY DEF Min
<1>2. x <= Min(T) /\ Min(T) <= x
  BY <1>1
<1>3. Min(T) \in Int /\ x \in Int
  BY <1>1, Zenon
<1> QED
  BY <1>2, <1>3

LEMMA MaxIs ==
    ASSUME NEW T \in SUBSET Int, NEW x \in T, \A y \in T : y <= x
    PROVE  Max(T) = x
<1>1. Max(T) \in T /\ \A y \in T : y <= Max(T)
  BY DEF Max
<1>2. x <= Max(T) /\ Max(T) <= x
  BY <1>1
<1>3. Max(T) \in Int /\ x \in Int
  BY <1>1, Zenon
<1> QED
  BY <1>2, <1>3

LEMMA MaxExists ==
    ASSUME NEW T \in SUBSET Int, T # {}, NEW bound \in Int, \A x \in T : x <= bound
    PROVE  Max(T) \in T /\ \A y \in T : y <= Max(T)
<1>1. \E x \in T : \A y \in T : y <= x
  BY GreatestElement
<1> QED
  BY <1>1 DEF Max

LEMMA LesserIs ==
    ASSUME NEW m \in Int, NEW n \in Int
    PROVE  Min({m, n}) = IF m <= n THEN m ELSE n
<1>1. CASE m <= n
  BY <1>1, MinIs
<1>2. CASE ~(m <= n)
  <2>1. n \in {m, n} /\ \A y \in {m, n} : n <= y
    BY <1>2
  <2> QED
    BY <1>2, <2>1, MinIs
<1> QED
  BY <1>1, <1>2

LEMMA GreaterIs ==
    ASSUME NEW m \in Int, NEW n \in Int
    PROVE  Max({m, n}) = IF m <= n THEN n ELSE m
<1>1. CASE m <= n
  <2>1. n \in {m, n} /\ \A y \in {m, n} : y <= n
    BY <1>1
  <2> QED
    BY <1>1, <2>1, MaxIs
<1>2. CASE ~(m <= n)
  <2>1. m \in {m, n} /\ \A y \in {m, n} : y <= m
    BY <1>2
  <2> QED
    BY <1>2, <2>1, MaxIs
<1> QED
  BY <1>1, <1>2

-----------------------------------------------------------------------------
(* The step of a correction.                                               *)

Correction == [epoch : Int, accepted : BOOLEAN, after : Nat]

\* Corrections that belong to n steps.
FixesOf(fx, n) == fx \in Seq(Correction) /\ \A f \in 1 .. Len(fx) : fx[f].after \in 1 .. n

\* Due, of any corrections fx and times st of steps.
HeldBy(c) == Max({1, c.after - HistoryLen + 1}) .. c.after
BeforeFix(c, st) == {n \in HeldBy(c) : st[n] <= c.epoch}
DueOf(c, st) == IF BeforeFix(c, st) = {} THEN Min(HeldBy(c)) ELSE Max(BeforeFix(c, st))

LEMMA DueIsDueOf ==
    \A f : Due(f) = DueOf(fixes[f], steps)
BY Zenon DEF Due, DueOf, BeforeFix, HeldBy

LEMMA HeldIs ==
    ASSUME NEW c \in Correction, c.after >= 1
    PROVE  /\ HeldBy(c) = {n \in 1 .. c.after : c.after - n < HistoryLen}
           /\ Min(HeldBy(c)) = IF c.after <= HistoryLen THEN 1 ELSE c.after - HistoryLen + 1
           /\ HeldBy(c) \in SUBSET Int /\ c.after \in HeldBy(c)
           /\ Min(HeldBy(c)) \in HeldBy(c)
<1>1. c.after \in Nat
  BY DEF Correction
<1> DEFINE low == IF c.after <= HistoryLen THEN 1 ELSE c.after - HistoryLen + 1
<1>2. low \in Nat /\ low <= c.after
  BY <1>1, Sizes
<1>3. Max({1, c.after - HistoryLen + 1}) = low
  BY <1>1, GreaterIs, Sizes
<1>4. HeldBy(c) = low .. c.after
  BY <1>3, Zenon DEF HeldBy
<1>5. HeldBy(c) = {n \in 1 .. c.after : c.after - n < HistoryLen}
  <2>1. \A n \in low .. c.after : n \in 1 .. c.after /\ c.after - n < HistoryLen
    BY <1>1, Sizes
  <2>2. \A n \in 1 .. c.after : c.after - n < HistoryLen => n \in low .. c.after
    BY <1>1, Sizes
  <2> HIDE DEF low
  <2> QED
    BY <1>4, <2>1, <2>2
<1>6. HeldBy(c) \in SUBSET Int /\ c.after \in HeldBy(c) /\ low \in HeldBy(c)
      /\ \A n \in HeldBy(c) : low <= n
  <2> HIDE DEF low
  <2> QED
    BY <1>1, <1>2, <1>4
<1>7. Min(HeldBy(c)) = low
  BY <1>6, MinIs
<1> QED
  BY <1>5, <1>6, <1>7

LEMMA DueIs ==
    ASSUME NEW c \in Correction, c.after >= 1, NEW st
    PROVE  DueOf(c, st) \in HeldBy(c) /\ DueOf(c, st) \in 1 .. c.after
<1>1. HeldBy(c) = {n \in 1 .. c.after : c.after - n < HistoryLen} /\ c.after \in Nat
      /\ Min(HeldBy(c)) = IF c.after <= HistoryLen THEN 1 ELSE c.after - HistoryLen + 1
  BY HeldIs DEF Correction
<1>2. Min(HeldBy(c)) \in HeldBy(c)
  BY HeldIs
<1>3. BeforeFix(c, st) \in SUBSET Int /\ BeforeFix(c, st) \subseteq HeldBy(c)
      /\ \A n \in BeforeFix(c, st) : n <= c.after
  BY <1>1 DEF BeforeFix
<1>4. ASSUME BeforeFix(c, st) # {} PROVE Max(BeforeFix(c, st)) \in HeldBy(c)
  <2>1. c.after \in Int
    BY <1>1
  <2>2. Max(BeforeFix(c, st)) \in BeforeFix(c, st)
    BY <1>3, <1>4, <2>1, MaxExists
  <2> QED
    BY <1>3, <2>2
<1>5. DueOf(c, st) \in HeldBy(c)
  BY <1>2, <1>4 DEF DueOf
<1> QED
  BY <1>1, <1>5

\* Later steps do not change it.
LEMMA DueStays ==
    ASSUME NEW c \in Correction, c.after >= 1, NEW st \in Seq(Int), c.after <= Len(st),
           NEW t \in Int
    PROVE  DueOf(c, Append(st, t)) = DueOf(c, st)
<1>1. \A n \in HeldBy(c) : n \in 1 .. Len(st)
  BY HeldIs DEF Correction
<1>2. \A n \in 1 .. Len(st) : Append(st, t)[n] = st[n]
  OBVIOUS
<1>3. BeforeFix(c, Append(st, t)) = BeforeFix(c, st)
  BY <1>1, <1>2, Zenon DEF BeforeFix
<1> QED
  BY <1>3, Zenon DEF DueOf

\* Corrections fx that belong to the steps due, of n steps.
DueIn(fx, due, n) ==
    /\ fx \in Seq(Correction) /\ due \in Seq(1 .. n)
    /\ Len(due) = Len(fx)

\* The corrections that no later one took back.
Surviving(fx, due) ==
    {f \in 1 .. Len(fx) : fx[f].accepted /\ \A g \in f + 1 .. Len(fx) : due[g] >= due[f]}

\* A correction c of step d takes back those that belong to later steps.
TakesBack(n, fx, due, c, d) ==
    /\ Surviving(Append(fx, c), Append(due, d))
         = {f \in Surviving(fx, due) : due[f] <= d}
           \cup (IF c.accepted THEN {Len(fx) + 1} ELSE {})
    /\ \A f \in Surviving(fx, due) : f \in 1 .. Len(fx) /\ Append(due, d)[f] = due[f]
    /\ DueIn(Append(fx, c), Append(due, d), n)

LEMMA SurvivingAfter ==
    ASSUME NEW n \in Nat, NEW fx, NEW due, DueIn(fx, due, n), NEW c \in Correction, NEW d \in 1 .. n
    PROVE  TakesBack(n, fx, due, c, d)
<1> DEFINE gx == Append(fx, c)
           gd == Append(due, d)
           L == Len(fx)
<1>1. L \in Nat /\ Len(gx) = L + 1 /\ gx[L + 1] = c /\ \A f \in 1 .. L : gx[f] = fx[f]
  <2> HIDE DEF Correction
  <2> QED
    BY DEF DueIn
<1>2. gd[L + 1] = d /\ \A f \in 1 .. L : gd[f] = due[f] /\ due[f] \in Int
  BY DEF DueIn
<1>3. d \in Int
  OBVIOUS
<1>0. DueIn(gx, gd, n)
  <2>1. gd \in Seq(1 .. n) /\ Len(gd) = L + 1
    BY DEF DueIn
  <2>2. gx \in Seq(Correction)
    <3> HIDE DEF Correction
    <3> QED
      BY DEF DueIn
  <2> QED
    BY <1>1, <2>1, <2>2, Zenon DEF DueIn
<1> HIDE DEF gx, L, gd
<1>4. ASSUME NEW f \in 1 .. L
      PROVE  f \in Surviving(gx, gd) <=> f \in Surviving(fx, due) /\ due[f] <= d
  <2>1. f \in 1 .. L + 1 /\ L + 1 \in f + 1 .. L + 1
    BY <1>1
  <2>2. \A g \in f + 1 .. L + 1 : g = L + 1 \/ (g \in f + 1 .. L /\ g \in 1 .. L)
    BY <1>1
  <2>3. \A g \in f + 1 .. L : g \in f + 1 .. L + 1 /\ g \in 1 .. L
    BY <1>1
  <2>4. (\A g \in f + 1 .. L + 1 : gd[g] >= gd[f])
        <=> /\ \A g \in f + 1 .. L : due[g] >= due[f]
            /\ d >= due[f]
    BY <1>1, <1>2, <2>1, <2>2, <2>3, Zenon
  <2>5. d >= due[f] <=> due[f] <= d
    BY <1>2, <1>3
  <2> QED
    BY <1>1, <2>1, <2>4, <2>5, Zenon DEF Surviving, L
<1>5. L + 1 \in Surviving(gx, gd) <=> c.accepted
  <2>1. L + 1 \in 1 .. L + 1 /\ (L + 1) + 1 .. L + 1 = {}
    BY <1>1
  <2> QED
    BY <1>1, <2>1, Zenon DEF Surviving
<1>6. \A f \in Surviving(gx, gd) : f \in 1 .. L \/ f = L + 1
  BY <1>1 DEF Surviving
<1>7. \A f \in Surviving(fx, due) : f \in 1 .. L
  BY Zenon DEF Surviving, L
<1>8. Surviving(gx, gd) = {f \in Surviving(fx, due) : due[f] <= d}
                          \cup (IF c.accepted THEN {L + 1} ELSE {})
  BY <1>4, <1>5, <1>6, <1>7, Zenon
<1> QED
  BY <1>0, <1>2, <1>7, <1>8, Zenon DEF gx, L, gd, TakesBack

-----------------------------------------------------------------------------
(* Estimates.                                                              *)

LEMMA OpsAre ==
    /\ \A n : Step(n)[1] = "step" /\ Step(n)[2] = n
    /\ \A n : Fix(n)[1] = "fix" /\ Fix(n)[2] = n
    /\ \A n \in 0 .. MaxSteps : Step(n) \in Ops
    /\ \A n \in 1 .. MaxFixes : Fix(n) \in Ops
    /\ \A op \in Ops : op[1] \in {"step", "fix"} /\ op[2] \in Nat
    /\ \A op \in Ops : op[1] = "step" => op = Step(op[2])
    /\ \A op \in Ops : op[1] = "fix" => op = Fix(op[2])
BY Sizes DEF Step, Fix, Ops

\* Each fix stands after the step it belongs to and before the next one.
AtEpochIn(x, i, due) ==
    /\ x[i][2] \in 1 .. Len(due)
    /\ \E j \in 1 .. i - 1 :
         /\ x[j] = Step(due[x[i][2]])
         /\ \A k \in j + 1 .. i : x[k][1] = "fix"
AtEpoch(x, due) == \A i \in DOMAIN x : x[i][1] = "fix" => AtEpochIn(x, i, due)

Shape(x, n, due) == x \in Seq(Ops) /\ HoldsSteps(x, n) /\ AtEpoch(x, due)

LEMMA AppendIs ==
    ASSUME NEW S, NEW x \in Seq(S), NEW op \in S
    PROVE  /\ Append(x, op) \in Seq(S)
           /\ Len(x) \in Nat /\ DOMAIN x = 1 .. Len(x) /\ Len(Append(x, op)) = Len(x) + 1
           /\ DOMAIN Append(x, op) = 1 .. Len(x) + 1
           /\ Append(x, op)[Len(x) + 1] = op
           /\ \A i \in 1 .. Len(x) : Append(x, op)[i] = x[i]
OBVIOUS

LEMMA EmptyShape ==
    ASSUME NEW due
    PROVE  Shape(<<>>, 0, due) /\ FixesIn(<<>>) = {}
<1>1. <<>> \in Seq(Ops) /\ DOMAIN <<>> = {}
  OBVIOUS
<1>2. 1 .. 0 = {}
  OBVIOUS
<1>3. HoldsSteps(<<>>, 0)
  BY <1>1, <1>2, Zenon DEF HoldsSteps, StepsAt
<1> QED
  BY <1>1, <1>3, Zenon DEF Shape, AtEpoch, FixesIn

\* What was at its epoch stays there when more comes after it.
LEMMA EpochsStay ==
    ASSUME NEW x \in Seq(Ops), NEW due, AtEpoch(x, due), NEW op \in Ops,
           NEW i \in 1 .. Len(x), x[i][1] = "fix"
    PROVE  Append(x, op)[i] = x[i] /\ AtEpochIn(Append(x, op), i, due)
<1> DEFINE y == Append(x, op)
<1>1. Len(x) \in Nat /\ DOMAIN x = 1 .. Len(x) /\ \A j \in 1 .. Len(x) : y[j] = x[j]
  BY AppendIs
<1> HIDE DEF y
<1>2. y[i] = x[i]
  BY <1>1
<1>3. PICK j \in 1 .. i - 1 : x[j] = Step(due[x[i][2]])
                              /\ \A k \in j + 1 .. i : x[k][1] = "fix"
  BY <1>1, Zenon DEF AtEpoch, AtEpochIn
<1>4. x[i][2] \in 1 .. Len(due)
  BY <1>1, Zenon DEF AtEpoch, AtEpochIn
<1>5. j \in 1 .. Len(x) /\ \A k \in j + 1 .. i : k \in 1 .. Len(x)
  BY <1>1
<1> QED
  BY <1>1, <1>2, <1>3, <1>4, <1>5, Zenon DEF y, AtEpochIn

LEMMA SameImage ==
    ASSUME NEW A, NEW x, NEW y, \A i \in A : y[i] = x[i]
    PROVE  {y[i] : i \in A} = {x[i] : i \in A} /\ {y[i][2] : i \in A} = {x[i][2] : i \in A}
BY SMT

LEMMA ImageOfOneMore ==
    ASSUME NEW A, NEW b, NEW y
    PROVE  /\ {y[i] : i \in A \cup {b}} = {y[i] : i \in A} \cup {y[b]}
           /\ {y[i][2] : i \in A \cup {b}} = {y[i][2] : i \in A} \cup {y[b][2]}
BY SMT

LEMMA ShapeStep ==
    ASSUME NEW n \in Nat, n < MaxSteps, NEW x, NEW due, Shape(x, n, due)
    PROVE  /\ Shape(Append(x, Step(n + 1)), n + 1, due)
           /\ FixesIn(Append(x, Step(n + 1))) = FixesIn(x)
<1> DEFINE op == Step(n + 1)
           y == Append(x, op)
           L == Len(x)
<1>1. x \in Seq(Ops) /\ op \in Ops /\ op[1] = "step" /\ op[2] = n + 1
  <2>1. n + 1 \in 0 .. MaxSteps
    BY Sizes
  <2> QED
    BY <2>1, OpsAre, Zenon DEF Shape, op
<1> HIDE DEF op
<1>2. y \in Seq(Ops) /\ L \in Nat /\ DOMAIN x = 1 .. L /\ DOMAIN y = 1 .. L + 1
      /\ y[L + 1] = op /\ \A i \in 1 .. L : y[i] = x[i]
  BY <1>1, AppendIs
<1>3. AtEpoch(x, due)
  BY Zenon DEF Shape
<1>4. ASSUME NEW i \in 1 .. L, x[i][1] = "fix"
      PROVE  AtEpochIn(y, i, due)
  BY <1>1, <1>3, <1>4, EpochsStay
<1> HIDE DEF y, L
<1>5. \A i \in DOMAIN y : i \in 1 .. L \/ i = L + 1
  BY <1>2
<1>6. AtEpoch(y, due)
  BY <1>1, <1>2, <1>4, <1>5, Zenon DEF AtEpoch
<1>7. L + 1 \in 1 .. L + 1 /\ L + 1 \notin 1 .. L /\ \A i \in 1 .. L : i \in 1 .. L + 1
  BY <1>2
<1>8. StepsAt(y) = StepsAt(x) \cup {L + 1}
  BY <1>1, <1>2, <1>5, <1>7, Zenon DEF StepsAt
<1>9. FixesIn(y) = FixesIn(x)
  <2>1. {j \in DOMAIN y : y[j][1] = "fix"} = {j \in DOMAIN x : x[j][1] = "fix"}
    BY <1>1, <1>2, <1>5, <1>7, Zenon
  <2> QED
    BY <1>2, <2>1, Zenon DEF FixesIn
<1>10. HoldsSteps(x, n)
  BY Zenon DEF Shape
<1>11. {y[i] : i \in StepsAt(y)} = {Step(m) : m \in 1 .. n + 1}
  <2>1. {x[i] : i \in StepsAt(x)} = {Step(m) : m \in 1 .. n}
    BY <1>10, Zenon DEF HoldsSteps
  <2>2. {y[i] : i \in StepsAt(y)} = {x[i] : i \in StepsAt(x)} \cup {op}
    <3>1. \A i \in StepsAt(x) : y[i] = x[i]
      BY <1>2, Zenon DEF StepsAt
    <3>2. {y[i] : i \in StepsAt(x)} = {x[i] : i \in StepsAt(x)}
      BY <3>1, SameImage
    <3> QED
      <4>1. {y[i] : i \in StepsAt(x) \cup {L + 1}} = {y[i] : i \in StepsAt(x)} \cup {y[L + 1]}
        BY ImageOfOneMore
      <4> QED
        BY <1>2, <1>8, <3>2, <4>1, Zenon
  <2>3. \A m : m \in 1 .. n + 1 <=> m \in 1 .. n \/ m = n + 1
    OBVIOUS
  <2>4. {Step(m) : m \in 1 .. n + 1} = {Step(m) : m \in 1 .. n} \cup {op}
    BY <2>3, Zenon DEF op
  <2> QED
    BY <2>1, <2>2, <2>4, Zenon
<1>12. ASSUME NEW i \in StepsAt(y), NEW j \in StepsAt(y), i < j
       PROVE  y[i][2] < y[j][2]
  <2>1. i \in 1 .. L + 1 /\ j \in 1 .. L + 1
    BY <1>2, Zenon DEF StepsAt
  <2>2. i \in StepsAt(x) /\ i \in 1 .. L
    BY <1>2, <1>8, <1>12, <2>1
  <2>3. CASE j = L + 1
    <3>1. PICK m \in 1 .. n : x[i] = Step(m)
      BY <1>10, <2>2, Zenon DEF HoldsSteps
    <3>2. y[i][2] = m
      <4>1. y[i] = Step(m)
        BY <1>2, <2>2, <3>1
      <4> QED
        BY <4>1 DEF Step
    <3>3. y[j][2] = n + 1
      BY <1>1, <1>2, <2>3, Zenon
    <3> QED
      BY <3>2, <3>3
  <2>4. CASE j # L + 1
    <3>1. j \in StepsAt(x) /\ j \in 1 .. L
      BY <1>2, <1>8, <2>1, <2>4
    <3>2. x[i][2] < x[j][2]
      BY <1>10, <1>12, <2>2, <3>1, Zenon DEF HoldsSteps
    <3> QED
      BY <1>2, <2>2, <3>1, <3>2, Zenon
  <2> QED
    BY <2>3, <2>4
<1>13. HoldsSteps(y, n + 1)
  BY <1>11, <1>12, Zenon DEF HoldsSteps
<1> QED
  BY <1>2, <1>6, <1>9, <1>13, Zenon DEF Shape, y, op

\* The fix of step n comes after step n, and there is no step after that.
LEMMA ShapeFix ==
    ASSUME NEW n \in Nat, n > 0, NEW x, NEW due, Shape(x, n, due),
           NEW f \in 1 .. Len(due), f \in 1 .. MaxFixes, due[f] = n
    PROVE  /\ Shape(Append(x, Fix(f)), n, due)
           /\ FixesIn(Append(x, Fix(f))) = FixesIn(x) \cup {f}
<1> DEFINE op == Fix(f)
           y == Append(x, op)
           L == Len(x)
<1>1. x \in Seq(Ops) /\ op \in Ops /\ op[1] = "fix" /\ op[2] = f
  BY OpsAre, Zenon DEF Shape, op
<1> HIDE DEF op
<1>2. y \in Seq(Ops) /\ L \in Nat /\ DOMAIN x = 1 .. L /\ DOMAIN y = 1 .. L + 1
      /\ y[L + 1] = op /\ \A i \in 1 .. L : y[i] = x[i]
  BY <1>1, AppendIs
<1>3. AtEpoch(x, due) /\ HoldsSteps(x, n)
  BY Zenon DEF Shape
<1>4. ASSUME NEW i \in 1 .. L, x[i][1] = "fix"
      PROVE  AtEpochIn(y, i, due)
  BY <1>1, <1>3, <1>4, EpochsStay
<1>0. \A i \in 1 .. L : x[i] \in Ops
  BY <1>1, <1>2
<1> HIDE DEF y, L
<1>5. \A i \in DOMAIN y : i \in 1 .. L \/ i = L + 1
  BY <1>2
<1>6. \E j \in 1 .. (L + 1) - 1 : /\ y[j] = Step(n)
                                  /\ \A k \in j + 1 .. L + 1 : y[k][1] = "fix"
  <2>1. n \in 1 .. n
    OBVIOUS
  <2>2. PICK j \in StepsAt(x) : x[j] = Step(n)
    BY <1>3, <2>1, Zenon DEF HoldsSteps
  <2>3. j \in 1 .. L /\ j \in 1 .. (L + 1) - 1
    BY <1>2 DEF StepsAt
  <2>4. ASSUME NEW k \in j + 1 .. L + 1 PROVE y[k][1] = "fix"
    <3>1. CASE k = L + 1
      BY <1>1, <1>2, <3>1
    <3>2. CASE k # L + 1
      <4>1. k \in 1 .. L /\ j < k
        BY <1>2, <2>3, <3>2
      <4>2. k \notin StepsAt(x)
        <5> SUFFICES ASSUME k \in StepsAt(x) PROVE FALSE
          OBVIOUS
        <5>1. x[j][2] < x[k][2] /\ x[j][2] = n
          BY <1>3, <2>2, <4>1, OpsAre, Zenon DEF HoldsSteps
        <5>2. PICK m \in 1 .. n : x[k] = Step(m)
          BY <1>3, Zenon DEF HoldsSteps
        <5>3. x[k][2] = m
          BY <5>2, OpsAre, Zenon
        <5> QED
          BY <5>1, <5>3
      <4>3. x[k][1] \in {"step", "fix"} /\ x[k][1] # "step"
        BY <1>0, <1>2, <4>1, <4>2, OpsAre, Zenon DEF StepsAt
      <4> QED
        BY <1>2, <4>1, <4>3
    <3> QED
      BY <3>1, <3>2
  <2> QED
    BY <1>2, <2>2, <2>3, <2>4, Zenon
<1>7. AtEpoch(y, due)
  <2>1. y[L + 1][2] = f
    BY <1>1, <1>2, Zenon
  <2> QED
    BY <1>2, <1>4, <1>5, <1>6, <2>1, Zenon DEF AtEpoch, AtEpochIn
<1>8. L + 1 \in 1 .. L + 1 /\ L + 1 \notin 1 .. L /\ \A i \in 1 .. L : i \in 1 .. L + 1
  BY <1>2
<1>9. FixesIn(y) = FixesIn(x) \cup {f}
  <2>1. {j \in DOMAIN y : y[j][1] = "fix"} = {j \in DOMAIN x : x[j][1] = "fix"} \cup {L + 1}
    BY <1>1, <1>2, <1>5, <1>8, Zenon
  <2>2. \A j \in {j \in DOMAIN x : x[j][1] = "fix"} : y[j] = x[j]
    BY <1>2, Zenon
  <2>3. y[L + 1][2] = f
    BY <1>1, <1>2, Zenon
  <2> DEFINE A == {j \in DOMAIN x : x[j][1] = "fix"}
  <2>4. {y[i][2] : i \in A} = {x[i][2] : i \in A}
    BY <2>2, SameImage
  <2>5. {y[i][2] : i \in A \cup {L + 1}} = {y[i][2] : i \in A} \cup {f}
    BY <2>3, ImageOfOneMore
  <2> QED
    BY <2>1, <2>4, <2>5, Zenon DEF FixesIn
<1>10. StepsAt(y) = StepsAt(x) /\ \A i \in StepsAt(x) : y[i] = x[i]
  <2>1. op[1] # "step"
    BY <1>1
  <2> QED
    BY <1>2, <1>5, <1>8, <2>1, Zenon DEF StepsAt
<1>11. HoldsSteps(y, n)
  <2>1. {y[i] : i \in StepsAt(y)} = {x[i] : i \in StepsAt(x)}
    BY <1>10, SameImage
  <2>2. ASSUME NEW i \in StepsAt(x), NEW j \in StepsAt(x), i < j PROVE y[i][2] < y[j][2]
    <3>1. x[i][2] < x[j][2]
      BY <1>3, <2>2, Zenon DEF HoldsSteps
    <3> QED
      BY <1>10, <3>1, Zenon
  <2> QED
    BY <1>3, <1>10, <2>1, <2>2, Zenon DEF HoldsSteps
<1> QED
  BY <1>2, <1>7, <1>9, <1>11, Zenon DEF Shape, y, op

\* A later correction changes nothing for an estimate.
LEMMA ShapeStays ==
    ASSUME NEW n, NEW x, NEW S, NEW due \in Seq(S), NEW d \in S, Shape(x, n, due)
    PROVE  Shape(x, n, Append(due, d))
<1>1. \A f \in 1 .. Len(due) : Append(due, d)[f] = due[f] /\ f \in 1 .. Len(Append(due, d))
  OBVIOUS
<1>2. AtEpoch(x, Append(due, d))
  BY <1>1, Zenon DEF AtEpoch, AtEpochIn, Shape
<1> QED
  BY <1>2, Zenon DEF Shape

-----------------------------------------------------------------------------
(* The history.  Step n of L is held while fewer than HistoryLen came after *)
(* it, in the entry n % HistoryLen.                                        *)

Count(L) == IF L <= HistoryLen THEN L ELSE HistoryLen
Held(L) == {n \in 1 .. L : L - n < HistoryLen}

HistoryEntry == [tick : 0 .. TickMod - 1, step : Ops, x : Seq(Ops)]
Kf == [x : Seq(Ops), head : Int, count : Int, hist : [0 .. HistoryLen - 1 -> HistoryEntry]]

\* An estimate of n steps holds the corrections of these that still stand.
Estimate(x, n, fx, due) ==
    /\ Shape(x, n, due)
    /\ FixesIn(x) = {f \in Surviving(fx, due) : due[f] <= n}

History(k, L, fx, due) ==
    /\ DueIn(fx, due, L)
    /\ k \in Kf
    /\ k.head = L % HistoryLen /\ k.count = Count(L)
    /\ Estimate(k.x, L, fx, due)
    /\ \A n \in Held(L) : k.hist[n % HistoryLen].step = Step(n)
                          /\ Estimate(k.hist[n % HistoryLen].x, n, fx, due)

LEMMA CountIs ==
    ASSUME NEW L \in Nat
    PROVE  /\ Count(L) \in Nat /\ Count(L) <= L /\ Count(L) <= HistoryLen
           /\ Min({L, HistoryLen}) = Count(L)
           /\ Min({Count(L) + 1, HistoryLen}) = Count(L + 1)
           /\ Held(L) = L - Count(L) + 1 .. L
<1>1. Min({L, HistoryLen}) = Count(L)
  BY LesserIs, Sizes DEF Count
<1>2. Count(L) \in Nat /\ Count(L) <= L /\ Count(L) <= HistoryLen
  BY Sizes DEF Count
<1>3. Min({Count(L) + 1, HistoryLen}) = IF Count(L) + 1 <= HistoryLen THEN Count(L) + 1 ELSE HistoryLen
  BY <1>2, LesserIs, Sizes
<1>4. Min({Count(L) + 1, HistoryLen}) = Count(L + 1)
  BY <1>3, Sizes DEF Count
<1>5. Held(L) = L - Count(L) + 1 .. L
  <2>1. \A n \in 1 .. L : L - n < HistoryLen => n \in L - Count(L) + 1 .. L
    BY Sizes DEF Count
  <2>2. \A n \in L - Count(L) + 1 .. L : n \in 1 .. L /\ L - n < HistoryLen
    BY Sizes DEF Count
  <2> QED
    BY <2>1, <2>2 DEF Held
<1> QED
  BY <1>1, <1>2, <1>4, <1>5

LEMMA IndexNat ==
    ASSUME NEW L \in Nat, NEW k, k.head = L % HistoryLen, k.count = Count(L),
           NEW s \in 0 .. HistoryLen - 1
    PROVE  /\ L % HistoryLen \in 0 .. HistoryLen - 1
           /\ k.head + HistoryLen + 1 - k.count + s \in Nat
           /\ Index(k, s) = (k.head + HistoryLen + 1 - k.count + s) % HistoryLen
           /\ Index(k, s) \in 0 .. HistoryLen - 1
<1>0. Count(L) \in Nat /\ Count(L) <= L /\ Count(L) <= HistoryLen
  BY CountIs
<1>1. L % HistoryLen \in 0 .. HistoryLen - 1
  BY Sizes, SMTT(30)
<1>2. k.head + HistoryLen + 1 - k.count + s \in Nat
  BY <1>0, <1>1, Sizes
<1>3. Index(k, s) = (k.head + HistoryLen + 1 - k.count + s) % HistoryLen
  BY Zenon DEF Index
<1>4. \A z \in Nat : z % HistoryLen \in 0 .. HistoryLen - 1
  BY Sizes, SMTT(30)
<1> QED
  BY <1>1, <1>2, <1>3, <1>4

\* The slots, oldest first, are those of the held steps.
LEMMA IndexIs ==
    ASSUME NEW L \in Nat, NEW k, k.head = L % HistoryLen, k.count = Count(L),
           NEW s \in 0 .. Count(L) - 1
    PROVE  /\ s \in 0 .. HistoryLen - 1
           /\ L - Count(L) + 1 + s \in Held(L) /\ L - Count(L) + 1 + s \in 1 .. L
           /\ Index(k, s) = (L - Count(L) + 1 + s) % HistoryLen
<1> DEFINE n == L - Count(L) + 1 + s
           d == HistoryLen + 1 - Count(L) + s
           r == L % HistoryLen
<1>0. Count(L) \in Nat /\ Count(L) <= L /\ Count(L) <= HistoryLen
  BY CountIs
<1>1. s \in 0 .. HistoryLen - 1 /\ n \in 1 .. L /\ n \in Held(L) /\ n \in Nat
  <2>1. s \in 0 .. HistoryLen - 1 /\ n \in 1 .. L /\ n \in L - Count(L) + 1 .. L /\ n \in Nat
    BY <1>0, Sizes
  <2> QED
    BY <2>1, CountIs, Zenon
<1>2. d \in 0 .. HistoryLen /\ HistoryLen \in 0 .. HistoryLen
  BY <1>0, Sizes
<1>3. L + d = n + HistoryLen
  BY <1>0, Sizes
<1>4. r \in 0 .. HistoryLen - 1 /\ r \in Nat
  BY <1>1, IndexNat
<1>5. Index(k, s) = (r + d) % HistoryLen
  <2>1. k.head + HistoryLen + 1 - k.count + s = r + d
    BY <1>0, <1>4, Sizes
  <2> QED
    BY <1>1, <2>1, IndexNat
<1> HIDE DEF d, r, n
<1>6. (r + d) % HistoryLen = IF (r % HistoryLen) + d < HistoryLen THEN (r % HistoryLen) + d
                             ELSE (r % HistoryLen) + d - HistoryLen
  BY <1>2, <1>4, Sizes, RemainderLater
<1>7. r % HistoryLen = r
  BY <1>4, Sizes, ModOnce
<1>8. (L + d) % HistoryLen = IF r + d < HistoryLen THEN r + d ELSE r + d - HistoryLen
  BY <1>2, Sizes, RemainderLater DEF r
<1>9. (n + HistoryLen) % HistoryLen = n % HistoryLen
  <2>1. (n + HistoryLen) % HistoryLen = IF (n % HistoryLen) + HistoryLen < HistoryLen
                                        THEN (n % HistoryLen) + HistoryLen
                                        ELSE (n % HistoryLen) + HistoryLen - HistoryLen
    BY <1>1, <1>2, Sizes, RemainderLater
  <2>2. n % HistoryLen \in 0 .. HistoryLen - 1
    BY <1>1, Sizes, SMTT(30)
  <2> QED
    BY <2>1, <2>2, Sizes
<1> QED
  BY <1>1, <1>3, <1>5, <1>6, <1>7, <1>8, <1>9, Zenon DEF n

LEMMA IndexOnce ==
    ASSUME NEW L \in Nat, NEW k, k.head = L % HistoryLen, k.count = Count(L),
           NEW s \in 0 .. HistoryLen - 1, NEW u \in 0 .. HistoryLen - 1, Index(k, s) = Index(k, u)
    PROVE  s = u
<1> DEFINE A(v) == k.head + HistoryLen + 1 - k.count + v
<1>0. Count(L) \in Nat /\ Count(L) <= L /\ Count(L) <= HistoryLen
  BY CountIs
<1>1. /\ A(s) \in Nat /\ Index(k, s) = A(s) % HistoryLen
      /\ A(u) \in Nat /\ Index(k, u) = A(u) % HistoryLen
  BY IndexNat
<1>2. A(u) - A(s) = u - s
  <2>1. L % HistoryLen \in 0 .. HistoryLen - 1
    BY IndexNat
  <2> QED
    BY <1>0, <2>1, Sizes
<1> HIDE DEF A
<1>3. ~(s < u)
  <2> SUFFICES ASSUME s < u PROVE FALSE
    OBVIOUS
  <2>1. A(s) < A(u) /\ A(u) - A(s) < HistoryLen
    BY <1>1, <1>2, Sizes
  <2> QED
    BY <1>1, <2>1, Sizes, RemaindersDiffer
<1>4. ~(u < s)
  <2> SUFFICES ASSUME u < s PROVE FALSE
    OBVIOUS
  <2>1. A(u) < A(s) /\ A(s) - A(u) < HistoryLen
    BY <1>1, <1>2, Sizes
  <2> QED
    BY <1>1, <2>1, Sizes, RemaindersDiffer
<1> QED
  BY <1>3, <1>4

\* The predict step makes the newest entry; the others keep theirs.
LEMMA PredictKeeps ==
    ASSUME NEW L \in Nat, L < MaxSteps, NEW k, NEW fx, NEW due, History(k, L, fx, due),
           NEW tick \in 0 .. TickMod - 1
    PROVE  LET p == KfPredict(k, tick, Step(L + 1))
           IN /\ History(p, L + 1, fx, due)
              /\ p.hist[(L + 1) % HistoryLen].tick = tick
              /\ \A n \in Held(L + 1) : n # L + 1 =>
                   n \in Held(L) /\ p.hist[n % HistoryLen] = k.hist[n % HistoryLen]
<1> DEFINE p == KfPredict(k, tick, Step(L + 1))
           head == (k.head + 1) % HistoryLen
           y == Append(k.x, Step(L + 1))
           entry == [tick |-> tick, step |-> Step(L + 1), x |-> y]
<1>1. k \in Kf /\ k.head = L % HistoryLen /\ k.count = Count(L)
      /\ Estimate(k.x, L, fx, due) /\ DueIn(fx, due, L)
      /\ \A n \in Held(L) : k.hist[n % HistoryLen].step = Step(n)
                            /\ Estimate(k.hist[n % HistoryLen].x, n, fx, due)
  BY Zenon DEF History
<1>2. head = (L + 1) % HistoryLen /\ head \in 0 .. HistoryLen - 1
  <2> DEFINE r == L % HistoryLen
  <2>1. r \in 0 .. HistoryLen - 1 /\ r \in Nat /\ 1 \in 0 .. HistoryLen
    BY Sizes, SMTT(30)
  <2> HIDE DEF r
  <2>2. r % HistoryLen = r
    BY <2>1, Sizes, ModOnce
  <2>3. (r + 1) % HistoryLen = IF (r % HistoryLen) + 1 < HistoryLen THEN (r % HistoryLen) + 1
                               ELSE (r % HistoryLen) + 1 - HistoryLen
    BY <2>1, Sizes, RemainderLater
  <2>4. (L + 1) % HistoryLen = IF r + 1 < HistoryLen THEN r + 1 ELSE r + 1 - HistoryLen
    BY <2>1, Sizes, RemainderLater DEF r
  <2>5. head = (r + 1) % HistoryLen
    BY <1>1, Zenon DEF r
  <2>6. (L + 1) % HistoryLen \in 0 .. HistoryLen - 1
    BY <2>1, <2>4, Sizes
  <2> QED
    BY <2>2, <2>3, <2>4, <2>5, <2>6, Zenon
<1>3. Estimate(y, L + 1, fx, due)
  <2>1. Shape(y, L + 1, due) /\ FixesIn(y) = FixesIn(k.x)
    BY <1>1, ShapeStep, Zenon DEF Estimate
  <2>2. \A f \in Surviving(fx, due) : due[f] <= L /\ due[f] <= L + 1
    BY <1>1 DEF DueIn, Surviving
  <2>3. FixesIn(y) = {f \in Surviving(fx, due) : due[f] <= L + 1}
    BY <1>1, <2>1, <2>2, Zenon DEF Estimate
  <2> QED
    BY <2>1, <2>3, Zenon DEF Estimate
<1>4. y \in Seq(Ops) /\ Step(L + 1) \in Ops
  <2>1. L + 1 \in 0 .. MaxSteps
    BY Sizes
  <2> QED
    BY <1>3, <2>1, OpsAre, Zenon DEF Estimate, Shape
<1>5. entry \in HistoryEntry
  <2> HIDE DEF y
  <2>1. \A op \in Ops : [tick |-> tick, step |-> op, x |-> y] \in HistoryEntry
    <3> HIDE DEF Ops
    <3> QED
      BY <1>4 DEF HistoryEntry
  <2> QED
    BY <1>4, <2>1, Zenon
<1> HIDE DEF entry, y, head
<1>6. p = [x |-> y, head |-> head, count |-> CountAfter(k.count),
           hist |-> [k.hist EXCEPT ![head] = entry]]
  BY Zenon DEF p, KfPredict, entry, y, head
<1> HIDE DEF p
<1>7. p.x = y /\ p.head = head /\ p.count = CountAfter(k.count)
      /\ p.hist = [k.hist EXCEPT ![head] = entry]
  BY <1>6
<1>8. p.count = Count(L + 1) /\ p.count \in Int
  <2>1. L + 1 \in Nat
    OBVIOUS
  <2>2. p.count = Count(L + 1)
    BY <1>1, <1>7, CountIs, Zenon DEF CountAfter
  <2>3. Count(L + 1) \in Nat
    BY <2>1, CountIs
  <2> QED
    BY <2>2, <2>3
<1>9. k.hist \in [0 .. HistoryLen - 1 -> HistoryEntry]
  <2> HIDE DEF HistoryEntry, Ops
  <2> QED
    BY <1>1 DEF Kf
<1>10. p.hist \in [0 .. HistoryLen - 1 -> HistoryEntry]
       /\ p.hist[head] = entry
       /\ \A i \in 0 .. HistoryLen - 1 : i # head => p.hist[i] = k.hist[i]
  <2> HIDE DEF HistoryEntry
  <2> QED
    BY <1>2, <1>5, <1>7, <1>9
<1>11. p \in Kf
  <2>1. head \in Int
    BY <1>2
  <2> HIDE DEF HistoryEntry, Ops
  <2> QED
    BY <1>4, <1>6, <1>7, <1>8, <1>10, <2>1 DEF Kf
<1>12. ASSUME NEW n \in Held(L + 1), n # L + 1
       PROVE  n \in Held(L) /\ n % HistoryLen \in 0 .. HistoryLen - 1 /\ n % HistoryLen # head
  <2>1. n \in 1 .. L + 1 /\ (L + 1) - n < HistoryLen
    BY DEF Held
  <2>2. n \in Nat /\ n \in 1 .. L /\ L - n < HistoryLen /\ n < L + 1 /\ L + 1 \in Nat
    BY <1>12, <2>1, Sizes
  <2>3. n % HistoryLen # (L + 1) % HistoryLen
    BY <2>1, <2>2, Sizes, RemaindersDiffer
  <2>4. n % HistoryLen \in 0 .. HistoryLen - 1
    BY <2>2, Sizes, SMTT(30)
  <2> QED
    BY <1>2, <2>2, <2>3, <2>4 DEF Held
<1>13. \A n \in Held(L + 1) : n # L + 1 =>
         n \in Held(L) /\ p.hist[n % HistoryLen] = k.hist[n % HistoryLen]
  BY <1>10, <1>12, Zenon
<1>14. entry.tick = tick /\ entry.step = Step(L + 1) /\ entry.x = y
  BY DEF entry
<1>15. ASSUME NEW n \in Held(L + 1)
       PROVE  p.hist[n % HistoryLen].step = Step(n) /\ Estimate(p.hist[n % HistoryLen].x, n, fx, due)
  BY <1>1, <1>2, <1>3, <1>10, <1>13, <1>14, Zenon
<1>16. DueIn(fx, due, L + 1)
  <2>1. 1 .. L \subseteq 1 .. L + 1
    OBVIOUS
  <2>2. due \in Seq(1 .. L + 1)
    BY <1>1, <2>1 DEF DueIn
  <2> QED
    BY <1>1, <2>2, Zenon DEF DueIn
<1>17. History(p, L + 1, fx, due)
  BY <1>2, <1>3, <1>7, <1>8, <1>11, <1>15, <1>16, Zenon DEF History
<1>18. p.hist[(L + 1) % HistoryLen].tick = tick
  BY <1>2, <1>10, <1>14, Zenon
<1> QED
  BY <1>13, <1>17, <1>18, Zenon DEF p

-----------------------------------------------------------------------------
(* A correction and its replay.                                            *)

ReplayOf(f, a, b, x0, op) ==
    f = [s \in a .. b |-> IF s = a THEN x0 ELSE Append(f[s - 1], op[s])]

LEMMA ReplayExists ==
    ASSUME NEW a \in Int, NEW b \in Int, a <= b, NEW x0 \in Seq(Ops), NEW op \in [a .. b -> Ops]
    PROVE  \E f \in [a .. b -> Seq(Ops)] : ReplayOf(f, a, b, x0, op)
<1> DEFINE step == [z \in Seq(Ops) \X (a .. b) |-> Append(z[1], op[z[2]])]
<1> HIDE DEF Ops
<1>1. step \in [Seq(Ops) \X (a .. b) -> Seq(Ops)]
  <2>1. ASSUME NEW z \in Seq(Ops) \X (a .. b) PROVE Append(z[1], op[z[2]]) \in Seq(Ops)
    <3>1. z[1] \in Seq(Ops) /\ op[z[2]] \in Ops
      OBVIOUS
    <3> QED
      BY <3>1, AppendIs, Zenon
  <2> QED
    BY <2>1
<1>2. \A x \in Seq(Ops), s \in a .. b : step[<<x, s>>] = Append(x, op[s])
  OBVIOUS
<1> HIDE DEF step
<1>3. PICK f \in [a .. b -> Seq(Ops)] : IteratesOn(f, a, b, x0, step)
  BY <1>1, IntervalRecursion
<1>4. ASSUME NEW s \in a .. b
      PROVE  (IF s = a THEN x0 ELSE step[<<f[s - 1], s>>])
               = (IF s = a THEN x0 ELSE Append(f[s - 1], op[s]))
  <2>1. CASE s = a
    BY <2>1
  <2>2. CASE s # a
    <3>1. s - 1 \in a .. b
      BY <2>2
    <3>2. f[s - 1] \in Seq(Ops)
      BY <3>1
    <3> QED
      BY <1>2, <2>2, <3>2, Zenon
  <2> QED
    BY <2>1, <2>2
<1>5. ReplayOf(f, a, b, x0, op)
  BY <1>3, <1>4, Zenon DEF IteratesOn, ReplayOf
<1> QED
  BY <1>5

LEMMA TargetIs ==
    ASSUME NEW L \in Nat, L > 0, NEW k, k.count = Count(L), NEW tick
    PROVE  /\ TargetSlot(k, tick) \in 0 .. k.count - 1
           /\ Count(L) > 0
           /\ LET past == {s \in 0 .. k.count - 1 : AtOrBefore(k.hist[Index(k, s)].tick, tick)}
              IN /\ past = {} => TargetSlot(k, tick) = 0
                 /\ past # {} => TargetSlot(k, tick) \in past
                                 /\ \A s \in past : s <= TargetSlot(k, tick)
<1> DEFINE past == {s \in 0 .. k.count - 1 : AtOrBefore(k.hist[Index(k, s)].tick, tick)}
<1>1. k.count \in Nat /\ k.count > 0 /\ 0 \in 0 .. k.count - 1
  <2>1. Count(L) > 0 /\ Count(L) \in Nat
    BY Sizes DEF Count
  <2> QED
    BY <2>1
<1>2. past \in SUBSET Int /\ \A s \in past : s \in 0 .. k.count - 1 /\ s <= k.count
  BY <1>1
<1>3. TargetSlot(k, tick) = IF past = {} THEN 0 ELSE Max(past)
  BY Zenon DEF TargetSlot
<1> HIDE DEF past
<1>4. k.count \in Int
  BY <1>1
<1>5. past # {} => Max(past) \in past /\ \A s \in past : s <= Max(past)
  BY <1>2, <1>4, MaxExists
<1> QED
  BY <1>1, <1>2, <1>3, <1>5, Zenon DEF past

\* What correct_with_rewind does to a filter k: xs is what the replay computes.
Corrected(k, target, op, accepted, r, xs) ==
    /\ xs[target] = IF accepted THEN Append(k.hist[Index(k, target)].x, op)
                    ELSE k.hist[Index(k, target)].x
    /\ \A s \in target + 1 .. k.count - 1 :
         xs[s] = Append(xs[s - 1], k.hist[Index(k, s)].step)
    /\ r \in Kf /\ r.head = k.head /\ r.count = k.count
    /\ r.x = xs[k.count - 1]
    /\ \A i \in 0 .. HistoryLen - 1 :
         r.hist[i].tick = k.hist[i].tick /\ r.hist[i].step = k.hist[i].step
    /\ \A s \in 0 .. k.count - 1 :
         r.hist[Index(k, s)].x = IF s >= target THEN xs[s] ELSE k.hist[Index(k, s)].x

LEMMA CorrectIs ==
    ASSUME NEW L \in Nat, L > 0, NEW k \in Kf, k.head = L % HistoryLen, k.count = Count(L),
           NEW tick, NEW op \in Ops, NEW accepted
    PROVE  \E xs \in [TargetSlot(k, tick) .. k.count - 1 -> Seq(Ops)] :
             Corrected(k, TargetSlot(k, tick), op, accepted, KfCorrect(k, tick, op, accepted), xs)
<1> DEFINE target == TargetSlot(k, tick)
           r == KfCorrect(k, tick, op, accepted)
           E(s) == k.hist[Index(k, s)]
           b == k.count - 1
           x0 == IF accepted THEN Append(E(target).x, op) ELSE E(target).x
           IsReplay(f) == f = [s \in target .. b |->
                                 IF s = target THEN IF accepted THEN Append(E(s).x, op) ELSE E(s).x
                                               ELSE Append(f[s - 1], E(s).step)]
           xs == CHOOSE f : IsReplay(f)
           slotOf == [i \in 0 .. HistoryLen - 1 |->
                         CHOOSE s \in 0 .. HistoryLen - 1 : Index(k, s) = i]
           hist == [i \in 0 .. HistoryLen - 1 |->
                       IF slotOf[i] \in DOMAIN xs
                       THEN [k.hist[i] EXCEPT !.x = Replayed(k, xs, slotOf[i])]
                       ELSE k.hist[i]]
<1>1. /\ target \in 0 .. b /\ target \in Int /\ b \in Int /\ target <= b
      /\ \A s \in 0 .. b : s \in 0 .. HistoryLen - 1 /\ s \in Int
      /\ \A s \in target .. b : s \in 0 .. b
  <2>1. target \in 0 .. b /\ Count(L) \in Nat /\ Count(L) <= HistoryLen
    BY TargetIs, CountIs
  <2> QED
    BY <2>1, Sizes
<1>2. k.hist \in [0 .. HistoryLen - 1 -> HistoryEntry]
      /\ k = [x |-> k.x, head |-> k.head, count |-> k.count, hist |-> k.hist]
      /\ k.x \in Seq(Ops) /\ k.head \in Int /\ k.count \in Int
  <2> HIDE DEF HistoryEntry, Ops
  <2> QED
    BY DEF Kf
<1>3. \A i \in 0 .. HistoryLen - 1 :
        k.hist[i] \in HistoryEntry /\ k.hist[i].x \in Seq(Ops) /\ k.hist[i].step \in Ops
  <2> HIDE DEF Ops
  <2> QED
    BY <1>2 DEF HistoryEntry
<1>4. \A s \in 0 .. b : Index(k, s) \in 0 .. HistoryLen - 1
  BY <1>1, IndexNat
<1>5. \A s \in 0 .. b : E(s).x \in Seq(Ops) /\ E(s).step \in Ops
  BY <1>3, <1>4, Zenon
<1>6. x0 \in Seq(Ops)
  BY <1>1, <1>5, AppendIs, Zenon
<1>7. r = [k EXCEPT !.x = xs[b], !.hist = hist]
  BY Zenon DEF KfCorrect
<1> HIDE DEF r, target, b, E, slotOf
<1>8. \E f \in [target .. b -> Seq(Ops)] : IsReplay(f)
  <2> DEFINE ops == [s \in target .. b |-> E(s).step]
  <2>1. ops \in [target .. b -> Ops]
    <3> HIDE DEF Ops
    <3> QED
      BY <1>1, <1>5
  <2>2. \A s \in target .. b : ops[s] = E(s).step
    OBVIOUS
  <2> HIDE DEF ops, x0
  <2>3. PICK f \in [target .. b -> Seq(Ops)] : ReplayOf(f, target, b, x0, ops)
    BY <1>1, <1>6, <2>1, ReplayExists
  <2>4. ASSUME NEW s \in target .. b
        PROVE  (IF s = target THEN x0 ELSE Append(f[s - 1], ops[s]))
                 = (IF s = target THEN IF accepted THEN Append(E(s).x, op) ELSE E(s).x
                                  ELSE Append(f[s - 1], E(s).step))
    BY <2>2, Zenon DEF x0
  <2>5. IsReplay(f)
    BY <2>3, <2>4, Zenon DEF ReplayOf
  <2> QED
    BY <2>5
<1>9. IsReplay(xs)
  BY <1>8
<1> HIDE DEF xs
<1>10. /\ target \in target .. b /\ b \in target .. b
       /\ \A s \in target + 1 .. b : s \in target .. b /\ s # target /\ s - 1 \in target .. b
       /\ \A s \in target .. b : s = target \/ s \in target + 1 .. b
  BY <1>1
<1>11. DOMAIN xs = target .. b /\ xs[target] = x0
       /\ \A s \in target + 1 .. b : xs[s] = Append(xs[s - 1], E(s).step)
  BY <1>9, <1>10, Zenon
<1> HIDE DEF IsReplay, x0
<1>12. xs \in [target .. b -> Seq(Ops)]
  <2> DEFINE A == {s \in target .. b : xs[s] \in Seq(Ops)}
  <2>1. target \in A
    BY <1>6, <1>10, <1>11, Zenon
  <2>2. \A s \in target .. b - 1 : s + 1 \in target + 1 .. b /\ s + 1 \in target .. b
                                   /\ (s + 1) - 1 = s /\ s \in target .. b
    BY <1>1
  <2>3. ASSUME NEW s \in target .. b - 1, s \in A PROVE s + 1 \in A
    <3>1. E(s + 1).step \in Ops /\ xs[s] \in Seq(Ops)
      BY <1>1, <1>5, <2>2, <2>3, Zenon
    <3>2. xs[s + 1] = Append(xs[s], E(s + 1).step)
      BY <1>11, <2>2, Zenon
    <3>3. Append(xs[s], E(s + 1).step) \in Seq(Ops)
      BY <3>1, AppendIs
    <3> QED
      BY <2>2, <3>2, <3>3, Zenon
  <2> HIDE DEF A
  <2>4. target .. b \subseteq A
    BY <1>1, <2>1, <2>3, IntervalInduction
  <2>5. \A s \in target .. b : xs[s] \in Seq(Ops)
    BY <2>4 DEF A
  <2>6. xs = [s \in target .. b |-> xs[s]]
    BY <1>9, <1>11, Zenon DEF IsReplay
  <2> HIDE DEF Ops
  <2> QED
    BY <2>5, <2>6
<1>13. \A i \in 0 .. HistoryLen - 1 :
         /\ hist[i] \in HistoryEntry
         /\ hist[i].tick = k.hist[i].tick /\ hist[i].step = k.hist[i].step
         /\ hist[i].x = IF slotOf[i] \in target .. b THEN xs[slotOf[i]] ELSE k.hist[i].x
  <2> TAKE i \in 0 .. HistoryLen - 1
  <2> DEFINE e == k.hist[i]
             z == xs[slotOf[i]]
  <2>1. e \in HistoryEntry
    BY <1>3
  <2>2. hist[i] = IF slotOf[i] \in target .. b THEN [e EXCEPT !.x = z] ELSE e
    BY <1>11, Zenon DEF Replayed
  <2>3. slotOf[i] \in target .. b => z \in Seq(Ops)
    <3> HIDE DEF Ops
    <3> QED
      BY <1>12
  <2> HIDE DEF hist, e, z
  <2>4. ASSUME z \in Seq(Ops)
        PROVE  LET n == [e EXCEPT !.x = z]
               IN n \in HistoryEntry /\ n.tick = e.tick /\ n.step = e.step /\ n.x = z
    <3> HIDE DEF Ops
    <3> QED
      BY <2>1, <2>4 DEF HistoryEntry
  <2>5. CASE slotOf[i] \in target .. b
    <3>1. hist[i] = [e EXCEPT !.x = z] /\ z \in Seq(Ops)
      BY <2>2, <2>3, <2>5, Zenon
    <3> QED
      BY <2>4, <2>5, <3>1, Zenon DEF e, z
  <2>6. CASE slotOf[i] \notin target .. b
    <3>1. hist[i] = e
      BY <2>2, <2>6, Zenon
    <3> QED
      BY <2>1, <2>6, <3>1, Zenon DEF e
  <2> QED
    BY <2>5, <2>6
<1>14. ASSUME NEW s \in 0 .. b PROVE slotOf[Index(k, s)] = s
  <2>1. s \in 0 .. HistoryLen - 1 /\ Index(k, s) \in 0 .. HistoryLen - 1
    BY <1>1, <1>4
  <2>2. slotOf[Index(k, s)] \in 0 .. HistoryLen - 1
        /\ Index(k, slotOf[Index(k, s)]) = Index(k, s)
    BY <2>1 DEF slotOf
  <2> QED
    BY <1>1, <2>1, <2>2, IndexOnce
<1>15. \A s \in 0 .. b : s >= target <=> s \in target .. b
  BY <1>1
<1>16. \A s \in 0 .. b : hist[Index(k, s)].x = IF s >= target THEN xs[s] ELSE E(s).x
  BY <1>4, <1>13, <1>14, <1>15, Zenon DEF E
<1>17. hist \in [0 .. HistoryLen - 1 -> HistoryEntry]
  <2> HIDE DEF HistoryEntry
  <2>1. \A i \in 0 .. HistoryLen - 1 : hist[i] \in HistoryEntry
    BY <1>13
  <2>2. hist = [i \in 0 .. HistoryLen - 1 |-> hist[i]]
    BY Zenon
  <2> HIDE DEF hist
  <2> QED
    BY <2>1, <2>2
<1>18. xs[b] \in Seq(Ops)
  <2> HIDE DEF Ops
  <2> QED
    BY <1>10, <1>12
<1> HIDE DEF hist
<1>19. r = [x |-> xs[b], head |-> k.head, count |-> k.count, hist |-> hist]
  BY <1>2, <1>7
<1>20. r \in Kf /\ r.head = k.head /\ r.count = k.count /\ r.x = xs[b] /\ r.hist = hist
  <2> HIDE DEF HistoryEntry, Ops
  <2> QED
    BY <1>2, <1>17, <1>18, <1>19 DEF Kf
<1> QED
  BY <1>11, <1>12, <1>13, <1>16, <1>20, Zenon DEF r, target, b, E, x0, Corrected

\* A correction is applied to the step of its target slot, and to the estimates
\* of the steps from there on.
Applied(L, k, fx, due, tick, c, r) ==
    LET d == L - Count(L) + 1 + TargetSlot(k, tick)
    IN /\ d \in 1 .. L
       /\ History(r, L, Append(fx, c), Append(due, d))
       /\ \A i \in 0 .. HistoryLen - 1 : r.hist[i].tick = k.hist[i].tick

LEMMA CorrectKeeps ==
    ASSUME NEW L \in Nat, L > 0, L <= MaxSteps, NEW k, NEW fx, NEW due, History(k, L, fx, due),
           Len(fx) < MaxFixes, NEW tick, NEW c \in Correction
    PROVE  Applied(L, k, fx, due, tick, c,
                   KfCorrect(k, tick, Fix(Len(fx) + 1), c.accepted))
<1> DEFINE low == L - Count(L) + 1
           target == TargetSlot(k, tick)
           d == low + target
           f == Len(fx) + 1
           op == Fix(f)
           r == KfCorrect(k, tick, op, c.accepted)
           gx == Append(fx, c)
           gd == Append(due, d)
           b == k.count - 1
           E(s) == k.hist[Index(k, s)]
           stays == {g \in Surviving(fx, due) : due[g] <= d}
                    \cup (IF c.accepted THEN {f} ELSE {})
<1>1. k \in Kf /\ k.head = L % HistoryLen /\ k.count = Count(L)
      /\ Estimate(k.x, L, fx, due) /\ DueIn(fx, due, L)
      /\ \A n \in Held(L) : k.hist[n % HistoryLen].step = Step(n)
                            /\ Estimate(k.hist[n % HistoryLen].x, n, fx, due)
  BY Zenon DEF History
<1>2. f \in 1 .. MaxFixes /\ Len(due) = Len(fx) /\ Len(fx) \in Nat /\ due \in Seq(1 .. L)
  BY <1>1, Sizes DEF DueIn
<1>3. Count(L) \in Nat /\ Count(L) <= L /\ Count(L) > 0 /\ k.count = Count(L)
      /\ target \in 0 .. b /\ b = Count(L) - 1
  BY <1>1, CountIs, TargetIs
<1>4. \A s \in 0 .. b : low + s \in Held(L) /\ low + s \in 1 .. L
                        /\ Index(k, s) = (low + s) % HistoryLen
  BY <1>1, <1>3, IndexIs
<1>5. d \in 1 .. L /\ d \in Int /\ low + b = L /\ low \in Nat /\ low >= 1
  BY <1>3
<1>6. op \in Ops
  BY <1>2, OpsAre
<1> HIDE DEF low, target, b, E
<1>7. PICK xs \in [target .. b -> Seq(Ops)] :
        /\ xs[target] = IF c.accepted THEN Append(E(target).x, op) ELSE E(target).x
        /\ \A s \in target + 1 .. b : xs[s] = Append(xs[s - 1], E(s).step)
        /\ r \in Kf /\ r.head = k.head /\ r.count = k.count
        /\ r.x = xs[b]
        /\ \A i \in 0 .. HistoryLen - 1 :
             r.hist[i].tick = k.hist[i].tick /\ r.hist[i].step = k.hist[i].step
        /\ \A s \in 0 .. b : r.hist[Index(k, s)].x = IF s >= target THEN xs[s] ELSE E(s).x
  <2> HIDE DEF op
  <2>1. \E xs \in [target .. b -> Seq(Ops)] : Corrected(k, target, op, c.accepted, r, xs)
    BY <1>1, <1>6, CorrectIs, Zenon DEF r, target, b
  <2> HIDE DEF r
  <2> QED
    BY <2>1, Zenon DEF Corrected, b, E
<1>8. \A s \in 0 .. b : E(s).step = Step(low + s) /\ Estimate(E(s).x, low + s, fx, due)
  BY <1>1, <1>4, Zenon DEF E
<1>9. /\ Surviving(gx, gd) = stays
      /\ \A g \in Surviving(fx, due) : g \in 1 .. Len(fx) /\ gd[g] = due[g]
      /\ DueIn(gx, gd, L)
  <2> HIDE DEF d
  <2>1. d \in 1 .. L /\ DueIn(fx, due, L)
    BY <1>1, <1>5
  <2>2. TakesBack(L, fx, due, c, d)
    BY <2>1, SurvivingAfter, Zenon
  <2> QED
    BY <2>2, Zenon DEF TakesBack
<1>10. gd[f] = d /\ f \in 1 .. Len(gd) /\ \A g \in 1 .. Len(fx) : due[g] \in Int
  <2> HIDE DEF d
  <2> QED
    BY <1>2, <1>5
<1>11. \A g \in stays : gd[g] <= d
  <2>1. d <= d
    BY <1>5
  <2> QED
    BY <1>9, <1>10, <2>1, Zenon
<1>12. \A x, n : Shape(x, n, due) => Shape(x, n, gd)
  BY <1>2, <1>5, ShapeStays
<1> HIDE DEF gx, gd, d, op, f, r
<1>13. ASSUME NEW n \in d .. L, NEW x, Shape(x, n, gd), FixesIn(x) = stays
       PROVE  Estimate(x, n, gx, gd)
  <2>1. ASSUME NEW g \in stays PROVE gd[g] <= n
    <3>1. gd[g] \in Int
      BY <1>5, <1>9, <1>10, Zenon
    <3> QED
      BY <1>5, <1>11, <3>1
  <2>2. FixesIn(x) = {g \in Surviving(gx, gd) : gd[g] <= n}
    BY <1>9, <1>13, <2>1, Zenon
  <2> QED
    BY <1>13, <2>2, Zenon DEF Estimate
<1> HIDE DEF stays
<1>14. Shape(xs[target], d, gd) /\ FixesIn(xs[target]) = stays
  <2>1. Shape(E(target).x, d, gd)
        /\ FixesIn(E(target).x) = {g \in Surviving(fx, due) : due[g] <= d}
    BY <1>3, <1>8, <1>12, Zenon DEF Estimate, d
  <2>2. CASE c.accepted
    <3>1. xs[target] = Append(E(target).x, Fix(f))
      BY <1>7, <2>2, Zenon DEF op
    <3>2. d \in Nat /\ d > 0
      BY <1>5
    <3>3. Shape(Append(E(target).x, Fix(f)), d, gd)
          /\ FixesIn(Append(E(target).x, Fix(f))) = FixesIn(E(target).x) \cup {f}
      BY <1>2, <1>10, <2>1, <3>2, ShapeFix
    <3> QED
      BY <2>1, <2>2, <3>1, <3>3, Zenon DEF stays
  <2>3. CASE ~c.accepted
    <3>1. xs[target] = E(target).x
      BY <1>7, <2>3, Zenon
    <3>2. stays = {g \in Surviving(fx, due) : due[g] <= d}
      BY <2>3, Zenon DEF stays
    <3> QED
      BY <2>1, <3>1, <3>2, Zenon
  <2> QED
    BY <2>2, <2>3
<1>15. \A s \in target .. b : Shape(xs[s], low + s, gd) /\ FixesIn(xs[s]) = stays
  <2> DEFINE A == {s \in target .. b : Shape(xs[s], low + s, gd) /\ FixesIn(xs[s]) = stays}
  <2>1. target \in A
    <3>1. target \in target .. b
      BY <1>3
    <3> QED
      BY <1>14, <3>1, Zenon DEF d
  <2>2. ASSUME NEW s \in target .. b - 1, s \in A PROVE s + 1 \in A
    <3>1. s + 1 \in target + 1 .. b /\ s + 1 \in target .. b /\ s + 1 \in 0 .. b
          /\ (s + 1) - 1 = s /\ s \in 0 .. b /\ low + (s + 1) = (low + s) + 1
      BY <1>3, <1>5
    <3>2. low + s \in Nat /\ low + s < MaxSteps
      BY <1>3, <1>5, <3>1, Sizes
    <3>3. xs[s + 1] = Append(xs[s], Step((low + s) + 1))
      BY <1>7, <1>8, <3>1, Zenon
    <3>4. Shape(xs[s], low + s, gd) /\ FixesIn(xs[s]) = stays
      BY <2>2
    <3>5. Shape(xs[s + 1], (low + s) + 1, gd) /\ FixesIn(xs[s + 1]) = FixesIn(xs[s])
      BY <3>2, <3>3, <3>4, ShapeStep
    <3> QED
      BY <3>1, <3>4, <3>5, Zenon
  <2> HIDE DEF A
  <2>3. target \in Int /\ b \in Int
    BY <1>3
  <2>4. target .. b \subseteq A
    BY <2>1, <2>2, <2>3, IntervalInduction
  <2> QED
    BY <2>4 DEF A
<1>16. \A s \in target .. b : Estimate(xs[s], low + s, gx, gd)
  <2>1. \A s \in target .. b : low + s \in d .. L
    BY <1>3, <1>5 DEF d
  <2> QED
    BY <1>13, <1>15, <2>1, Zenon
<1>17. ASSUME NEW s \in 0 .. b, ~(s >= target)
       PROVE  Estimate(E(s).x, low + s, gx, gd)
  <2>1. low + s < d /\ low + s \in Int
    BY <1>3, <1>5, <1>17 DEF d
  <2>2. Shape(E(s).x, low + s, gd)
        /\ FixesIn(E(s).x) = {g \in Surviving(fx, due) : due[g] <= low + s}
    BY <1>8, <1>12, Zenon DEF Estimate
  <2>3. \A g \in Surviving(fx, due) : due[g] <= low + s => due[g] <= d
    BY <1>5, <1>9, <1>10, <2>1
  <2>4. ~(gd[f] <= low + s)
    BY <1>5, <1>10, <2>1
  <2>5. {g \in Surviving(fx, due) : due[g] <= low + s} = {g \in stays : gd[g] <= low + s}
    BY <1>9, <2>3, <2>4, Zenon DEF stays
  <2> QED
    BY <1>9, <2>2, <2>5, Zenon DEF Estimate
<1>18. ASSUME NEW n \in Held(L)
       PROVE  r.hist[n % HistoryLen].step = Step(n)
              /\ Estimate(r.hist[n % HistoryLen].x, n, gx, gd)
  <2> DEFINE s == n - low
  <2>1. s \in 0 .. b /\ low + s = n /\ (s >= target => s \in target .. b)
    <3>1. n \in low .. L
      BY CountIs, Zenon DEF low
    <3> QED
      BY <1>3, <1>5, <3>1
  <2> HIDE DEF s
  <2>2. Index(k, s) = n % HistoryLen
    BY <1>4, <2>1, Zenon
  <2>3. Index(k, s) \in 0 .. HistoryLen - 1
    <3>1. s \in 0 .. HistoryLen - 1
      BY <1>1, <1>3, <2>1, IndexIs
    <3> QED
      BY <1>1, <3>1, IndexNat
  <2>4. r.hist[Index(k, s)].step = Step(n)
    BY <1>7, <1>8, <2>1, <2>3, Zenon DEF E
  <2>5. Estimate(r.hist[Index(k, s)].x, n, gx, gd)
    BY <1>7, <1>16, <1>17, <2>1, Zenon
  <2> QED
    BY <2>2, <2>4, <2>5, Zenon
<1>19. Estimate(r.x, L, gx, gd)
  <2>1. b \in target .. b
    BY <1>3
  <2> QED
    BY <1>5, <1>7, <1>16, <2>1, Zenon
<1>20. History(r, L, gx, gd)
  BY <1>1, <1>7, <1>9, <1>18, <1>19, Zenon DEF History
<1> QED
  BY <1>5, <1>7, <1>20, Zenon DEF Applied, r, gx, gd, d, op, f, low, target

-----------------------------------------------------------------------------
(* The ticks of the history and the step of a correction.                  *)

\* The signed difference of two ticks tells which time is later, if they are
\* less than half the range apart.
LEMMA TickOrder ==
    ASSUME NEW b \in Nat, NEW t \in Nat, NEW e \in Nat,
           2 * (t - e) < TickMod, 2 * (e - t) <= TickMod
    PROVE  AtOrBefore((b + t) % TickMod, (b + e) % TickMod) <=> t <= e
<1> DEFINE q1 == (b + t) \div TickMod
           r1 == (b + t) % TickMod
           q2 == (b + e) \div TickMod
           r2 == (b + e) % TickMod
           d == (r1 - r2) % TickMod
<1>1. q1 \in Int /\ r1 \in 0 .. TickMod - 1 /\ b + t = TickMod * q1 + r1 /\ TickMod * q1 \in Int
  BY Sizes, SMTT(30)
<1>2. q2 \in Int /\ r2 \in 0 .. TickMod - 1 /\ b + e = TickMod * q2 + r2 /\ TickMod * q2 \in Int
  BY Sizes, SMTT(30)
<1> HIDE DEF q1, r1, q2, r2
<1>3. q2 - q1 \in Int /\ (q2 - q1) - 1 \in Int
      /\ TickMod * (q2 - q1) = TickMod * q2 - TickMod * q1
      /\ TickMod * ((q2 - q1) - 1) = TickMod * q2 - TickMod * q1 - TickMod
  BY <1>1, <1>2, Sizes, SMTT(30)
<1>4. CASE t <= e /\ t # e
  <2>1. (t - e) + TickMod \in 0 .. TickMod - 1
    BY <1>4, Sizes
  <2>2. r1 - r2 = TickMod * ((q2 - q1) - 1) + ((t - e) + TickMod)
    BY <1>1, <1>2, <1>3, Sizes
  <2>3. (TickMod * ((q2 - q1) - 1) + ((t - e) + TickMod)) % TickMod = (t - e) + TickMod
    BY <1>3, <2>1, Sizes, RemainderIs
  <2>4. d = (t - e) + TickMod
    BY <2>2, <2>3, Zenon
  <2>5. 2 * ((t - e) + TickMod) >= TickMod
    BY <1>4, Sizes
  <2> QED
    BY <1>4, <2>4, <2>5, Zenon DEF AtOrBefore, r1, r2
<1>5. CASE t >= e
  <2>1. t - e \in 0 .. TickMod - 1
    BY <1>5, Sizes
  <2>2. r1 - r2 = TickMod * (q2 - q1) + (t - e)
    BY <1>1, <1>2, <1>3, Sizes
  <2>3. (TickMod * (q2 - q1) + (t - e)) % TickMod = t - e
    BY <1>3, <2>1, Sizes, RemainderIs
  <2>4. d = t - e
    BY <2>2, <2>3, Zenon
  <2>5. ~(2 * (t - e) >= TickMod) /\ (t - e = 0 <=> t <= e)
    BY <1>5, Sizes
  <2> QED
    BY <2>4, <2>5, Zenon DEF AtOrBefore, r1, r2
<1> QED
  BY <1>4, <1>5

\* The last g ticks apart, and what a fix is late, fit twice into the tick.
InReach(g, a) ==
    /\ \A gap \in Gaps : gap <= g
    /\ \A age \in Ages : age <= a
    /\ 2 * (HistoryLen * g) <= TickMod /\ 2 * a < TickMod
HistoryInReach == \E g \in Nat, a \in Nat : InReach(g, a)

\* The steps st, the last at t, are not more than g apart.
Times(st, t, g) ==
    \A n \in 1 .. Len(st) : st[n] <= t /\ t - st[n] <= (Len(st) - n) * g
Timed(st, t) == \A g \in Nat : (\A gap \in Gaps : gap <= g) => Times(st, t, g)
Ticks(k, st, b) ==
    \A n \in Held(Len(st)) : k.hist[n % HistoryLen].tick = (b + st[n]) % TickMod

LEMMA Products ==
    ASSUME NEW g \in Nat, NEW m \in Nat, NEW n \in Nat, m <= n
    PROVE  m * g \in Nat /\ n * g \in Nat /\ m * g <= n * g /\ (m + 1) * g = m * g + g
<1>1. m * g \in Nat /\ n * g \in Nat /\ (n - m) * g \in Nat
  BY SMTT(30)
<1>2. n * g = m * g + (n - m) * g /\ (m + 1) * g = m * g + g
  BY SMTT(30)
<1> QED
  BY <1>1, <1>2

LEMMA TimesStep ==
    ASSUME NEW st \in Seq(Nat), NEW t \in Nat, Timed(st, t), NEW gap \in Gaps
    PROVE  Timed(Append(st, t + gap), t + gap)
<1> DEFINE L == Len(st)
           s2 == Append(st, t + gap)
<1>1. gap \in Nat
  BY Sizes
<1>2. L \in Nat /\ Len(s2) = L + 1 /\ s2[L + 1] = t + gap
      /\ \A n \in 1 .. L : s2[n] = st[n] /\ st[n] \in Nat
  BY <1>1
<1> SUFFICES ASSUME NEW g \in Nat, \A h \in Gaps : h <= g
             PROVE  Times(s2, t + gap, g)
  BY Zenon DEF Timed
<1>3. Times(st, t, g) /\ gap <= g
  BY Zenon DEF Timed
<1> HIDE DEF L, s2
<1>4. ASSUME NEW n \in 1 .. L + 1
      PROVE  s2[n] <= t + gap /\ (t + gap) - s2[n] <= ((L + 1) - n) * g
  <2>1. CASE n = L + 1
    <3>1. (L + 1) - n = 0 /\ 0 * g = 0
      BY <1>2, <2>1
    <3>2. s2[n] = t + gap
      BY <1>2, <2>1
    <3>3. t + gap \in Nat /\ (t + gap) - (t + gap) = 0 /\ t + gap <= t + gap /\ 0 <= 0
      BY <1>1
    <3> QED
      BY <3>1, <3>2, <3>3, Zenon
  <2>2. CASE n # L + 1
    <3>1. n \in 1 .. L /\ L - n \in Nat /\ (L + 1) - n = (L - n) + 1 /\ L - n <= L - n
      BY <1>2, <2>2
    <3>2. st[n] <= t /\ t - st[n] <= (L - n) * g /\ s2[n] = st[n] /\ st[n] \in Nat
      BY <1>2, <1>3, <3>1, Zenon DEF Times, L
    <3>3. ((L - n) + 1) * g = (L - n) * g + g /\ (L - n) * g \in Nat
      BY <3>1, Products
    <3>4. st[n] <= t + gap /\ (t + gap) - st[n] <= (L - n) * g + g
      BY <1>1, <1>3, <3>2, <3>3
    <3> QED
      BY <3>1, <3>2, <3>3, <3>4, Zenon
  <2> QED
    BY <2>1, <2>2
<1> QED
  <2>1. ASSUME NEW n \in 1 .. Len(s2)
        PROVE  s2[n] <= t + gap /\ (t + gap) - s2[n] <= (Len(s2) - n) * g
    <3>1. n \in 1 .. L + 1
      BY <1>2, Zenon
    <3>2. s2[n] <= t + gap /\ (t + gap) - s2[n] <= ((L + 1) - n) * g
      BY <1>4, <3>1
    <3> QED
      BY <1>2, <3>2, Zenon
  <2> QED
    BY <2>1, Zenon DEF Times

\* The target slot of a fix is that of the step it belongs to.
AtTarget(c, st, k, b, e) ==
    DueOf(c, st) = Len(st) - Count(Len(st)) + 1 + TargetSlot(k, (b + e) % TickMod)

LEMMA TargetIsDue ==
    ASSUME HistoryInReach,
           NEW st \in Seq(Nat), Len(st) > 0, NEW t \in Nat, Timed(st, t),
           NEW b \in Nat, NEW k, k.head = Len(st) % HistoryLen, k.count = Count(Len(st)),
           Ticks(k, st, b),
           NEW e \in Nat, e <= t, t - e \in Ages \cup {0},
           NEW c \in Correction, c.epoch = e, c.after = Len(st)
    PROVE  AtTarget(c, st, k, b, e)
<1> DEFINE L == Len(st)
           low == L - Count(L) + 1
           tick == (b + e) % TickMod
           target == TargetSlot(k, tick)
           past == {s \in 0 .. k.count - 1 : AtOrBefore(k.hist[Index(k, s)].tick, tick)}
           before == BeforeFix(c, st)
<1>1. PICK g \in Nat, a \in Nat : InReach(g, a)
  BY Zenon DEF HistoryInReach
<1>2. L \in Nat /\ L > 0 /\ \A n \in 1 .. L : st[n] \in Nat
  OBVIOUS
<1>3. Times(st, t, g) /\ t - e <= a /\ 2 * (HistoryLen * g) <= TickMod /\ 2 * a < TickMod
  <2>1. 0 <= a
    OBVIOUS
  <2> QED
    BY <1>1, <2>1, Zenon DEF InReach, Timed
<1>4. Count(L) \in Nat /\ Count(L) <= L /\ Count(L) > 0 /\ k.count = Count(L)
      /\ Held(L) = low .. L
  BY <1>2, CountIs, TargetIs
<1>5. ASSUME NEW n \in Held(L) PROVE AtOrBefore((b + st[n]) % TickMod, tick) <=> st[n] <= e
  <2>1. n \in 1 .. L /\ L - n \in Nat /\ L - n <= HistoryLen /\ st[n] \in Nat
    BY <1>2, Sizes DEF Held
  <2>2. st[n] <= t /\ t - st[n] <= (L - n) * g
    BY <1>3, <2>1, Zenon DEF Times
  <2>3. (L - n) * g <= HistoryLen * g /\ (L - n) * g \in Nat /\ HistoryLen * g \in Nat
    BY <2>1, Sizes, Products
  <2>4. 2 * (st[n] - e) < TickMod /\ 2 * (e - st[n]) <= TickMod
    <3> DEFINE p == (L - n) * g
               q == HistoryLen * g
               x == st[n]
    <3>1. x \in Nat /\ x <= t /\ t - x <= p /\ p <= q /\ p \in Nat /\ q \in Nat
      BY <2>1, <2>2, <2>3, Zenon
    <3>2. 2 * q <= TickMod /\ t - e <= a /\ 2 * a < TickMod /\ TickMod \in Nat
      BY <1>3, Sizes, Zenon
    <3> HIDE DEF p, q, x
    <3>3. 2 * (x - e) < TickMod /\ 2 * (e - x) <= TickMod
      BY <3>1, <3>2
    <3> QED
      BY <3>3, Zenon DEF x
  <2> QED
    BY <2>1, <2>4, TickOrder
<1>6. \A s \in 0 .. k.count - 1 : low + s \in Held(L) /\ s \in Int
                                  /\ Index(k, s) = (low + s) % HistoryLen
  BY <1>2, <1>4, IndexIs, SMTT(30)
<1>7. \A s \in 0 .. k.count - 1 : s \in past <=> st[low + s] <= e
  BY <1>5, <1>6, Zenon DEF Ticks, L
<1>8. HeldBy(c) = Held(L) /\ Min(HeldBy(c)) = low
  <2>1. /\ HeldBy(c) = {n \in 1 .. c.after : c.after - n < HistoryLen}
        /\ Min(HeldBy(c)) = IF c.after <= HistoryLen THEN 1 ELSE c.after - HistoryLen + 1
    BY <1>2, HeldIs
  <2>2. Min(HeldBy(c)) = low
    <3>1. low = IF L <= HistoryLen THEN 1 ELSE L - HistoryLen + 1
      BY <1>2, Sizes DEF Count
    <3> QED
      BY <2>1, <3>1, Zenon DEF L
  <2> QED
    BY <2>1, <2>2, Zenon DEF Held, L
<1>9. \A n \in Held(L) : n - low \in 0 .. k.count - 1 /\ low + (n - low) = n /\ n \in Int
  BY <1>2, <1>4
<1>10. before = {n \in Held(L) : st[n] <= e}
  BY <1>8, Zenon DEF BeforeFix
<1>11. /\ target \in 0 .. k.count - 1
       /\ past = {} => target = 0
       /\ past # {} => target \in past /\ \A s \in past : s <= target
  BY <1>2, <1>4, TargetIs, Zenon
<1>12. low \in Int
  BY <1>2, <1>4
<1> HIDE DEF past, before, low, target, tick
<1>13. CASE past = {}
  <2>1. before = {}
    BY <1>6, <1>7, <1>9, <1>10, <1>13, Zenon
  <2>2. DueOf(c, st) = low
    BY <1>8, <2>1, Zenon DEF DueOf, before
  <2>3. low + target = low
    BY <1>11, <1>12, <1>13
  <2> QED
    BY <2>2, <2>3, Zenon DEF AtTarget, low, target, tick, L
<1>14. CASE past # {}
  <2>1. low + target \in before
    BY <1>6, <1>7, <1>10, <1>11, <1>14, Zenon
  <2>2. ASSUME NEW n \in before PROVE n <= low + target
    <3>1. n - low \in past /\ n \in Int
      BY <1>7, <1>9, <1>10, Zenon
    <3>2. n - low <= target /\ target \in Int
      BY <1>11, <1>14, <3>1
    <3> QED
      BY <1>12, <3>1, <3>2
  <2>3. before \in SUBSET Int
    BY <1>9, <1>10
  <2>4. Max(before) = low + target
    BY <2>1, <2>2, <2>3, MaxIs
  <2>5. DueOf(c, st) = low + target
    BY <2>1, <2>4, Zenon DEF DueOf, before
  <2> QED
    BY <2>5, Zenon DEF AtTarget, low, target, tick, L
<1> QED
  BY <1>13, <1>14

-----------------------------------------------------------------------------
(* The loop.                                                               *)

\* The filter and its history s, after steps st from tick b on: each correction
\* is where it belongs, as long as the ticks reach.
Fixed(s, st, b) ==
    /\ FixesOf(s.fixes, Len(st)) /\ Len(s.fixes) <= MaxFixes
    /\ Ticks(s.kf, st, b)
    /\ \E due : /\ History(s.kf, Len(st), s.fixes, due)
                /\ HistoryInReach =>
                     \A f \in 1 .. Len(s.fixes) : due[f] = DueOf(s.fixes[f], st)

Filter == [kf |-> kf, fixes |-> fixes]

Inv ==
    /\ now \in Nat /\ start \in StartTick /\ origin \in BOOLEAN
    /\ steps \in Seq(Nat) /\ Len(steps) <= MaxSteps
    /\ Timed(steps, now)
    /\ Fixed(Filter, steps, start)

LEMMA InitialHistory ==
    /\ History(KfInit, 0, <<>>, <<>>)
    /\ \A b : Ticks(KfInit, <<>>, b)
    /\ \A t : Timed(<<>>, t)
    /\ FixesOf(<<>>, 0) /\ Len(<<>>) = 0
<1>1. Held(0) = {} /\ Len(<<>>) = 0 /\ 1 .. 0 = {} /\ Count(0) = 0 /\ 0 % HistoryLen = 0
      /\ <<>> \in Seq(Ops) /\ 0 \in 0 .. TickMod - 1 /\ 0 \in Int
  <2>1. 0 % HistoryLen = 0
    BY Sizes, ModOnce
  <2> QED
    BY <2>1, Sizes DEF Held, Count
<1>2. Step(0) \in Ops
  <2>1. 0 \in 0 .. MaxSteps
    BY Sizes
  <2> QED
    BY <2>1, OpsAre
<1>3. KfInit \in Kf /\ KfInit.x = <<>> /\ KfInit.head = 0 /\ KfInit.count = 0
  <2> DEFINE e == [tick |-> 0, step |-> Step(0), x |-> <<>>]
  <2>1. e \in HistoryEntry
    <3> HIDE DEF Ops, Step
    <3> QED
      BY <1>1, <1>2 DEF HistoryEntry
  <2>2. KfInit = [x |-> <<>>, head |-> 0, count |-> 0, hist |-> [i \in 0 .. HistoryLen - 1 |-> e]]
    BY Zenon DEF KfInit
  <2> HIDE DEF e, HistoryEntry, Ops
  <2> QED
    BY <1>1, <2>1, <2>2 DEF Kf
<1>4. DueIn(<<>>, <<>>, 0)
  BY DEF DueIn
<1>5. Estimate(<<>>, 0, <<>>, <<>>)
  <2>1. Surviving(<<>>, <<>>) = {}
    BY <1>1, Zenon DEF Surviving
  <2> QED
    BY <2>1, EmptyShape, Zenon DEF Estimate
<1>6. History(KfInit, 0, <<>>, <<>>)
  BY <1>1, <1>3, <1>4, <1>5, Zenon DEF History
<1>7. FixesOf(<<>>, 0)
  BY <1>1 DEF FixesOf
<1> QED
  BY <1>1, <1>6, <1>7, Zenon DEF Ticks, Timed, Times

\* The predict step of a turn.
LEMMA PredictFixed ==
    ASSUME NEW st \in Seq(Nat), Len(st) < MaxSteps, NEW b \in Nat, NEW s, Fixed(s, st, b),
           NEW t \in Nat
    PROVE  Fixed([kf |-> KfPredict(s.kf, (b + t) % TickMod, Step(Len(st) + 1)),
                  fixes |-> s.fixes], Append(st, t), b)
<1> DEFINE L == Len(st)
           s2 == Append(st, t)
           tick == (b + t) % TickMod
           p == KfPredict(s.kf, tick, Step(L + 1))
           fx == s.fixes
<1>1. L \in Nat /\ Len(s2) = L + 1 /\ s2[L + 1] = t /\ \A n \in 1 .. L : s2[n] = st[n]
  OBVIOUS
<1>2. tick \in 0 .. TickMod - 1
  <2>1. \A z \in Nat : z % TickMod \in 0 .. TickMod - 1
    BY Sizes, SMTT(30)
  <2>2. b + t \in Nat
    OBVIOUS
  <2> QED
    BY <2>1, <2>2
<1>3. FixesOf(fx, L) /\ Len(fx) <= MaxFixes /\ Ticks(s.kf, st, b)
  BY Zenon DEF Fixed
<1>4. PICK due : /\ History(s.kf, L, fx, due)
                 /\ HistoryInReach => \A f \in 1 .. Len(fx) : due[f] = DueOf(fx[f], st)
  BY Zenon DEF Fixed
<1> HIDE DEF L, s2, tick, fx
<1>5. /\ History(p, L + 1, fx, due)
      /\ p.hist[(L + 1) % HistoryLen].tick = tick
      /\ \A n \in Held(L + 1) : n # L + 1 =>
           n \in Held(L) /\ p.hist[n % HistoryLen] = s.kf.hist[n % HistoryLen]
  <2>1. L < MaxSteps
    BY DEF L
  <2> QED
    BY <1>1, <1>2, <1>4, <2>1, PredictKeeps
<1>6. FixesOf(fx, L + 1)
  <2>1. fx \in Seq(Correction) /\ \A f \in 1 .. Len(fx) : fx[f].after \in 1 .. L
    BY <1>3, Zenon DEF FixesOf
  <2>2. \A a \in 1 .. L : a \in 1 .. L + 1
    BY <1>1
  <2> QED
    BY <2>1, <2>2, Zenon DEF FixesOf
<1>7. ASSUME NEW f \in 1 .. Len(fx) PROVE DueOf(fx[f], s2) = DueOf(fx[f], st)
  <2>1. fx[f] \in Correction /\ fx[f].after >= 1 /\ fx[f].after <= Len(st)
    BY <1>1, <1>3 DEF FixesOf, L
  <2>2. st \in Seq(Int) /\ t \in Int
    OBVIOUS
  <2> QED
    BY <2>1, <2>2, DueStays DEF s2
<1> HIDE DEF p
<1>8. ASSUME NEW n \in Held(L + 1) PROVE p.hist[n % HistoryLen].tick = (b + s2[n]) % TickMod
  <2>1. CASE n = L + 1
    BY <1>1, <1>5, <2>1, Zenon DEF tick
  <2>2. CASE n # L + 1
    <3>1. n \in Held(L) /\ p.hist[n % HistoryLen] = s.kf.hist[n % HistoryLen]
      BY <1>5, <2>2
    <3>2. s.kf.hist[n % HistoryLen].tick = (b + st[n]) % TickMod
      BY <1>3, <3>1, Zenon DEF Ticks, L
    <3>3. n \in 1 .. L
      BY <3>1, Zenon DEF Held
    <3> QED
      BY <1>1, <3>1, <3>2, <3>3, Zenon
  <2> QED
    BY <2>1, <2>2
<1>9. Ticks(p, s2, b)
  BY <1>1, <1>8, Zenon DEF Ticks
<1> DEFINE r == [kf |-> p, fixes |-> fx]
<1>10. r.kf = p /\ r.fixes = fx
  OBVIOUS
<1> HIDE DEF r
<1>11. Fixed(r, s2, b)
  BY <1>1, <1>3, <1>4, <1>5, <1>6, <1>7, <1>9, <1>10, ZenonT(40) DEF Fixed
<1> QED
  BY <1>11, Zenon DEF r, s2, p, tick, fx, L

\* A correction of a turn, of now or of a fix that is late.
LEMMA CorrectFixed ==
    ASSUME NEW st \in Seq(Nat), Len(st) > 0, Len(st) <= MaxSteps, NEW b \in Nat,
           NEW t \in Nat, Timed(st, t), NEW s, Fixed(s, st, b), Len(s.fixes) < MaxFixes,
           NEW e \in Nat, e <= t, t - e \in Ages \cup {0}, NEW accepted \in BOOLEAN
    PROVE  Fixed([kf |-> KfCorrect(s.kf, (b + e) % TickMod, Fix(Len(s.fixes) + 1), accepted),
                  fixes |-> Append(s.fixes, [epoch |-> e, accepted |-> accepted,
                                             after |-> Len(st)])], st, b)
<1> DEFINE L == Len(st)
           k == s.kf
           fx == s.fixes
           tick == (b + e) % TickMod
           c == [epoch |-> e, accepted |-> accepted, after |-> L]
           d == L - Count(L) + 1 + TargetSlot(k, tick)
           r == KfCorrect(k, tick, Fix(Len(fx) + 1), c.accepted)
           gx == Append(fx, c)
<1>1. L \in Nat /\ L > 0 /\ L <= MaxSteps /\ L \in 1 .. L
  OBVIOUS
<1>2. FixesOf(fx, L) /\ Len(fx) < MaxFixes /\ Ticks(k, st, b)
  BY Zenon DEF Fixed
<1>3. PICK due : /\ History(k, L, fx, due)
                 /\ HistoryInReach => \A f \in 1 .. Len(fx) : due[f] = DueOf(fx[f], st)
  BY Zenon DEF Fixed
<1>4. c \in Correction /\ c.epoch = e /\ c.after = L /\ c.accepted = accepted
  BY <1>1 DEF Correction
<1> HIDE DEF L, k, fx, tick, c
<1>5. /\ d \in 1 .. L
      /\ History(r, L, gx, Append(due, d))
      /\ \A i \in 0 .. HistoryLen - 1 : r.hist[i].tick = k.hist[i].tick
  <2>1. Applied(L, k, fx, due, tick, c, KfCorrect(k, tick, Fix(Len(fx) + 1), c.accepted))
    BY <1>1, <1>2, <1>3, <1>4, CorrectKeeps
  <2> QED
    BY <2>1, Zenon DEF Applied
<1>6. Len(fx) \in Nat /\ Len(gx) = Len(fx) + 1 /\ gx[Len(fx) + 1] = c
      /\ gx \in Seq(Correction) /\ \A f \in 1 .. Len(fx) : gx[f] = fx[f]
  <2>1. fx \in Seq(Correction)
    BY <1>2, Zenon DEF FixesOf
  <2> QED
    BY <1>4, <2>1, AppendIs
<1>7. Len(due) = Len(fx) /\ due \in Seq(1 .. L)
  BY <1>3, Zenon DEF History, DueIn
<1>8. \A f \in 1 .. Len(gx) : f \in 1 .. Len(fx) \/ f = Len(fx) + 1
  BY <1>6
<1> HIDE DEF r, gx
<1>9. FixesOf(gx, L)
  <2>1. \A f \in 1 .. Len(gx) : gx[f].after \in 1 .. L
    BY <1>1, <1>2, <1>4, <1>6, <1>8, Zenon DEF FixesOf
  <2> QED
    BY <1>6, <2>1 DEF FixesOf
<1>10. Len(gx) <= MaxFixes
  BY <1>2, <1>6, Sizes
<1>11. Ticks(r, st, b)
  <2>1. ASSUME NEW n \in Held(L) PROVE n % HistoryLen \in 0 .. HistoryLen - 1
    <3>1. n \in Nat
      BY DEF Held
    <3> QED
      BY <3>1, Sizes, SMTT(30)
  <2> QED
    BY <1>2, <1>5, <2>1, Zenon DEF Ticks, L
<1>12. HistoryInReach => d = DueOf(c, st)
  <2>1. k.head = L % HistoryLen /\ k.count = Count(L)
    BY <1>3, Zenon DEF History
  <2> SUFFICES ASSUME HistoryInReach PROVE d = DueOf(c, st)
    OBVIOUS
  <2>2. DueOf(c, st) = L - Count(L) + 1 + TargetSlot(k, (b + e) % TickMod)
    <3>1. Len(st) > 0 /\ Ticks(k, st, b) /\ c \in Correction /\ c.epoch = e
          /\ c.after = Len(st) /\ k.head = Len(st) % HistoryLen /\ k.count = Count(Len(st))
      BY <1>1, <1>2, <1>4, <2>1, Zenon DEF L
    <3>2. AtTarget(c, st, k, b, e)
      BY <3>1, TargetIsDue
    <3> QED
      BY <3>2, Zenon DEF AtTarget, L
  <2> QED
    BY <2>2, Zenon DEF tick
<1> HIDE DEF d
<1>13. \A f \in 1 .. Len(due) : Append(due, d)[f] = due[f]
  BY <1>5, <1>7
<1>14. Append(due, d)[Len(fx) + 1] = d
  BY <1>5, <1>7
<1>15. HistoryInReach => \A f \in 1 .. Len(gx) : Append(due, d)[f] = DueOf(gx[f], st)
  BY <1>3, <1>6, <1>7, <1>8, <1>12, <1>13, <1>14, Zenon
<1> DEFINE z == [kf |-> r, fixes |-> gx]
<1>16. z.kf = r /\ z.fixes = gx
  OBVIOUS
<1> HIDE DEF z
<1>17. Fixed(z, st, b)
  BY <1>5, <1>9, <1>10, <1>11, <1>15, <1>16, Zenon DEF Fixed, L
<1>18. r = KfCorrect(k, tick, Fix(Len(fx) + 1), accepted)
  BY <1>4, Zenon DEF r
<1> QED
  BY <1>17, <1>18, Zenon DEF z, gx, c, k, tick, fx, L

LEMMA InvInit ==
    Init => Inv
<1> SUFFICES ASSUME Init PROVE Inv
  OBVIOUS
<1>1. now = 0 /\ start \in StartTick /\ origin = FALSE
      /\ kf = KfInit /\ steps = <<>> /\ fixes = <<>>
  BY Zenon DEF Init
<1>2. Filter.kf = KfInit /\ Filter.fixes = <<>>
  BY <1>1 DEF Filter
<1>3. 0 <= MaxFixes /\ 0 <= MaxSteps /\ <<>> \in Seq(Nat) /\ 0 \in Nat /\ 1 .. 0 = {}
  BY Sizes
<1>4. Fixed(Filter, <<>>, start)
  BY <1>2, <1>3, InitialHistory, Zenon DEF Fixed
<1> QED
  BY <1>1, <1>3, <1>4, InitialHistory, Zenon DEF Inv

\* A correction of the turn that ends at t, in the model's words.
LEMMA TurnCorrects ==
    ASSUME Inv, NEW s2 \in Seq(Nat), Len(s2) = Len(steps) + 1, Len(s2) <= MaxSteps,
           NEW t \in Nat, Timed(s2, t), NEW s, Fixed(s, s2, start), Len(s.fixes) < MaxFixes,
           NEW e \in Nat, e <= t, t - e \in Ages \cup {0}, NEW accepted \in BOOLEAN
    PROVE  /\ Fixed(Correct(s, e, accepted), s2, start)
           /\ Len(Correct(s, e, accepted).fixes) = Len(s.fixes) + 1
<1> DEFINE c == [epoch |-> e, accepted |-> accepted, after |-> Len(s2)]
<1>1. start \in Nat /\ Len(s2) > 0 /\ Len(steps) \in Nat
  <2>1. start \in 0 .. TickMod - 1 /\ Len(steps) \in Nat
    BY Sizes DEF Inv
  <2> QED
    BY <2>1
<1>2. Fixed([kf |-> KfCorrect(s.kf, (start + e) % TickMod, Fix(Len(s.fixes) + 1), accepted),
             fixes |-> Append(s.fixes, c)], s2, start)
  BY <1>1, CorrectFixed
<1>3. Correct(s, e, accepted)
        = [kf |-> KfCorrect(s.kf, (start + e) % TickMod, Fix(Len(s.fixes) + 1), accepted),
           fixes |-> Append(s.fixes, c)]
  BY Zenon DEF Correct, TickAt
<1>4. Correct(s, e, accepted).fixes = Append(s.fixes, c)
  BY <1>3
<1>5. c \in Correction
  <2>1. Len(s2) \in Nat
    OBVIOUS
  <2> QED
    BY <2>1 DEF Correction
<1>6. s.fixes \in Seq(Correction)
  BY Zenon DEF Fixed, FixesOf
<1> HIDE DEF c
<1>7. Len(Append(s.fixes, c)) = Len(s.fixes) + 1
  BY <1>5, <1>6, AppendIs
<1> QED
  BY <1>2, <1>3, <1>4, <1>7, Zenon

LEMMA InvStep ==
    ASSUME Inv, Sample
    PROVE  Inv'
<1> DEFINE predicted == [kf |-> KfPredict(kf, TickAt(now'), Step(Len(steps) + 1)),
                         fixes |-> fixes]
<1>1. Len(steps) < MaxSteps /\ steps' = Append(steps, now') /\ start' = start
      /\ origin' \in {origin, TRUE}
  BY Zenon DEF Sample
<1>2. PICK gap \in Gaps : now' = now + gap
  BY Zenon DEF Sample
<1>3. \E fixed \in GpsFixes(predicted) : \E result \in WheelSpeeds(fixed) :
        kf' = result.kf /\ fixes' = result.fixes
  BY Zenon DEF Sample
<1>4. now \in Nat /\ start \in StartTick /\ start \in Nat /\ gap \in Nat /\ steps \in Seq(Nat)
      /\ Timed(steps, now) /\ Fixed(Filter, steps, start) /\ origin \in BOOLEAN
  <2>1. \A b \in StartTick : b \in Nat
    BY Sizes
  <2> QED
    BY <2>1, Sizes, Zenon DEF Inv
<1>5. PICK t \in Nat : t = now'
  BY <1>2, <1>4
<1>6. t = now + gap
  BY <1>2, <1>5
<1>7. PICK s2 \in Seq(Nat) : s2 = steps' /\ s2 = Append(steps, t)
  BY <1>1, <1>4, <1>5, SMTT(30)
<1>8. Len(s2) = Len(steps) + 1 /\ Len(s2) <= MaxSteps
  <2>1. Len(s2) = Len(steps) + 1 /\ Len(steps) \in Nat
    BY <1>4, <1>7, AppendIs
  <2> QED
    BY <1>1, <2>1, Sizes
<1>9. Timed(s2, t)
  <2>1. Timed(Append(steps, now + gap), now + gap)
    BY <1>4, TimesStep
  <2> QED
    BY <1>6, <1>7, <2>1, Zenon
<1>10. Fixed(predicted, s2, start)
  <2>1. Filter.kf = kf /\ Filter.fixes = fixes
    BY DEF Filter
  <2>2. Fixed([kf |-> KfPredict(Filter.kf, (start + t) % TickMod, Step(Len(steps) + 1)),
               fixes |-> Filter.fixes], Append(steps, t), start)
    BY <1>1, <1>4, PredictFixed
  <2> QED
    BY <1>5, <1>7, <2>1, <2>2, Zenon DEF TickAt
<1> HIDE DEF predicted
<1>11. ASSUME NEW s, Fixed(s, s2, start), Len(s.fixes) < MaxFixes,
              NEW e \in Nat, e <= t, t - e \in Ages \cup {0}, NEW accepted \in BOOLEAN
       PROVE  /\ Fixed(Correct(s, e, accepted), s2, start)
              /\ Len(Correct(s, e, accepted).fixes) = Len(s.fixes) + 1
  BY <1>8, <1>9, <1>11, TurnCorrects
<1>12. ASSUME NEW fixed \in GpsFixes(predicted) PROVE Fixed(fixed, s2, start)
  <2> DEFINE late == {Correct(Correct(predicted, now' - age, pos), now' - age, vel) :
                        age \in {a \in Ages : a <= now'}, pos \in BOOLEAN, vel \in BOOLEAN}
             full == ~origin \/ Len(predicted.fixes) + 2 > MaxFixes
  <2>0. fixed \in IF full THEN {predicted} ELSE {predicted} \union late
    <3>1. fixed \in GpsFixes(predicted)
      BY <1>12
    <3> QED
      BY <3>1 DEF GpsFixes
  <2> HIDE DEF late, full
  <2>1. CASE fixed = predicted
    BY <1>10, <2>1, Zenon
  <2>2. CASE fixed # predicted
    <3>0. fixed \in late /\ ~full
      BY <2>0, <2>2
    <3>1. PICK age \in {a \in Ages : a <= now'}, pos \in BOOLEAN, vel \in BOOLEAN :
            fixed = Correct(Correct(predicted, now' - age, pos), now' - age, vel)
      <4> HIDE DEF Correct
      <4> QED
        BY <3>0, SMT DEF late
    <3>2. age \in Ages /\ age \in Nat /\ age <= t /\ now' - age = t - age
      BY <1>5, <3>1, Sizes
    <3>3. t - age \in Nat /\ t - age <= t /\ t - (t - age) = age /\ age \in Ages \cup {0}
      BY <3>2
    <3>4. PICK e \in Nat : e = now' - age /\ e <= t /\ t - e \in Ages \cup {0}
      BY <3>2, <3>3, Zenon
    <3>5. Len(predicted.fixes) < MaxFixes /\ Len(predicted.fixes) + 1 < MaxFixes
      <4>1. Len(predicted.fixes) \in Nat
        <5>1. predicted.fixes \in Seq(Correction)
          BY <1>10, Zenon DEF Fixed, FixesOf
        <5> QED
          BY <5>1
      <4> QED
        BY <3>0, <4>1, Sizes DEF full
    <3> DEFINE first == Correct(predicted, e, pos)
    <3>6. Fixed(first, s2, start) /\ Len(first.fixes) = Len(predicted.fixes) + 1
      BY <1>10, <1>11, <3>4, <3>5
    <3> HIDE DEF first
    <3>7. Fixed(Correct(first, e, vel), s2, start)
      BY <1>11, <3>4, <3>5, <3>6
    <3> QED
      BY <3>1, <3>4, <3>7, Zenon DEF first
  <2> QED
    BY <1>10, <2>1, <2>2, Zenon
<1>13. PICK fixed \in GpsFixes(predicted) : \E result \in WheelSpeeds(fixed) :
         kf' = result.kf /\ fixes' = result.fixes
  BY <1>3
<1>14. PICK result \in WheelSpeeds(fixed) : kf' = result.kf /\ fixes' = result.fixes
  BY <1>13
<1>15. Fixed(fixed, s2, start)
  BY <1>12
<1>16. Fixed(result, s2, start)
  <2>1. CASE Len(fixed.fixes) = MaxFixes
    BY <1>15, <2>1, Zenon DEF WheelSpeeds
  <2>2. CASE Len(fixed.fixes) # MaxFixes
    <3>1. Len(fixed.fixes) < MaxFixes
      <4>1. fixed.fixes \in Seq(Correction) /\ Len(fixed.fixes) <= MaxFixes
        BY <1>15, Zenon DEF Fixed, FixesOf
      <4>2. Len(fixed.fixes) \in Nat
        BY <4>1
      <4> QED
        BY <2>2, <4>1, <4>2, Sizes
    <3>2. t <= t /\ t - t \in Ages \cup {0} /\ TRUE \in BOOLEAN
      <4>1. t <= t /\ t - t = 0
        OBVIOUS
      <4> QED
        BY <4>1, Zenon
    <3>3. Fixed(Correct(fixed, t, TRUE), s2, start)
      BY <1>11, <1>15, <3>1, <3>2
    <3> QED
      BY <1>5, <1>15, <2>2, <3>3, Zenon DEF WheelSpeeds
  <2> QED
    BY <2>1, <2>2
<1>17. Filter'.kf = result.kf /\ Filter'.fixes = result.fixes
  BY <1>14 DEF Filter
<1>18. Fixed(Filter', s2, start)
  BY <1>16, <1>17, Zenon DEF Fixed
<1> QED
  BY <1>1, <1>4, <1>5, <1>7, <1>8, <1>9, <1>18, Zenon DEF Inv

\* The invariant of the filter: for some assignment of a step to every correction,
\* each entry of the ring holds the estimate of its own step, with the corrections
\* that survive up to it, for a ring and a history of any length.
THEOREM HistoryInvariant ==
    Spec => []Inv
<1>1. Inv /\ UNCHANGED vars => Inv'
  <2> SUFFICES ASSUME Inv, UNCHANGED vars PROVE Inv'
    OBVIOUS
  <2>1. now' = now /\ start' = start /\ origin' = origin /\ kf' = kf /\ steps' = steps
        /\ fixes' = fixes
    BY DEF vars
  <2>2. Filter' = Filter
    BY <2>1 DEF Filter
  <2> QED
    BY <2>1, <2>2, Zenon DEF Inv
<1>2. Inv /\ [Next]_vars => Inv'
  BY <1>1, InvStep DEF Next
<1> QED
  BY <1>2, InvInit, PTL DEF Spec

-----------------------------------------------------------------------------
(* What follows.                                                           *)

LEMMA InvHistory ==
    ASSUME Inv
    PROVE  /\ Len(steps) \in Nat /\ FixesOf(fixes, Len(steps))
           /\ \E due : /\ History(kf, Len(steps), fixes, due)
                       /\ HistoryInReach => \A f \in 1 .. Len(fixes) : due[f] = Due(f)
<1>1. Filter.kf = kf /\ Filter.fixes = fixes
  BY DEF Filter
<1>2. Fixed(Filter, steps, start) /\ steps \in Seq(Nat)
  BY Zenon DEF Inv
<1>3. Len(steps) \in Nat
  BY <1>2
<1> QED
  BY <1>1, <1>2, <1>3, DueIsDueOf, Zenon DEF Fixed

\* The variables keep their types: head and count stay inside the array, and
\* each estimate is made of steps and corrections there have been.
THEOREM TypeCorrect ==
    Spec => []TypeOK
<1>1. Inv => TypeOK
  <2> SUFFICES ASSUME Inv PROVE TypeOK
    OBVIOUS
  <2>1. PICK due : History(kf, Len(steps), fixes, due)
    BY InvHistory
  <2>2. Len(steps) \in Nat
    BY InvHistory
  <2>3. kf \in Kf /\ kf.head = Len(steps) % HistoryLen /\ kf.count = Count(Len(steps))
    BY <2>1, Zenon DEF History
  <2>4. kf.head \in 0 .. HistoryLen - 1
    BY <2>2, <2>3, Sizes, SMTT(30)
  <2>5. kf.count \in 0 .. HistoryLen
    <3>1. Count(Len(steps)) \in Nat /\ Count(Len(steps)) <= HistoryLen
      BY <2>2, CountIs
    <3> QED
      BY <2>3, <3>1, Sizes
  <2>6. kf.x \in Seq(Ops) /\ \A i \in 0 .. HistoryLen - 1 : kf.hist[i] \in HistoryEntry
    <3> HIDE DEF Ops, HistoryEntry
    <3> QED
      BY <2>3 DEF Kf
  <2>7. \A e \in HistoryEntry : e.tick \in 0 .. TickMod - 1 /\ e.x \in Seq(Ops)
    <3> HIDE DEF Ops
    <3> QED
      BY DEF HistoryEntry
  <2> QED
    BY <2>4, <2>5, <2>6, <2>7, Zenon DEF TypeOK, Inv
<1> QED
  BY <1>1, HistoryInvariant, PTL

\* Whatever corrections came, of any tick: the estimate and every entry of the
\* history hold each predict step up to their own once and in order.
THEOREM RewindsKeepSteps ==
    Spec => []StepsInOrder
<1>1. Inv => StepsInOrder
  <2> SUFFICES ASSUME Inv PROVE StepsInOrder
    OBVIOUS
  <2> DEFINE L == Len(steps)
  <2>1. PICK due : History(kf, L, fixes, due)
    BY InvHistory
  <2>2. L \in Nat
    BY InvHistory
  <2>3. kf.head = L % HistoryLen /\ kf.count = Count(L) /\ Shape(kf.x, L, due)
        /\ \A n \in Held(L) : Shape(kf.hist[n % HistoryLen].x, n, due)
    BY <2>1, Zenon DEF History, Estimate
  <2> HIDE DEF L
  <2>4. ASSUME NEW s \in 0 .. kf.count - 1
        PROVE  HoldsSteps(kf.hist[Index(kf, s)].x, L - kf.count + 1 + s)
    <3>1. L - Count(L) + 1 + s \in Held(L)
          /\ Index(kf, s) = (L - Count(L) + 1 + s) % HistoryLen
      BY <2>2, <2>3, IndexIs
    <3> QED
      BY <2>3, <3>1, Zenon DEF Shape
  <2> QED
    BY <2>3, <2>4, Zenon DEF StepsInOrder, Shape, L
<1> QED
  BY <1>1, HistoryInvariant, PTL

\* As long as the ticks reach over the history and over the age of a fix, every
\* correction stands between the step of its epoch and the next one, across the
\* wrap of the tick too.
THEOREM RewindsToItsEpoch ==
    ASSUME HistoryInReach
    PROVE  Spec => []FixAtItsEpoch
<1>1. Inv => FixAtItsEpoch
  <2> SUFFICES ASSUME Inv PROVE FixAtItsEpoch
    OBVIOUS
  <2>1. PICK due : /\ History(kf, Len(steps), fixes, due)
                   /\ \A f \in 1 .. Len(fixes) : due[f] = Due(f)
    BY InvHistory
  <2>2. AtEpoch(kf.x, due) /\ Len(due) = Len(fixes)
    BY <2>1, Zenon DEF History, Estimate, Shape, DueIn
  <2> QED
    BY <2>1, <2>2, Zenon DEF FixAtItsEpoch, AtEpoch, AtEpochIn
<1> QED
  BY <1>1, HistoryInvariant, PTL

\* As long as the ticks reach, the estimate holds the accepted corrections but
\* those that a later one of an older epoch took back, and no other.
THEOREM LateFixesDiscardLater ==
    ASSUME HistoryInReach
    PROVE  Spec => []OnlyOlderEpochsDiscard
<1>1. Inv => OnlyOlderEpochsDiscard
  <2> SUFFICES ASSUME Inv PROVE OnlyOlderEpochsDiscard
    OBVIOUS
  <2> DEFINE L == Len(steps)
  <2>1. PICK due : History(kf, L, fixes, due) /\ \A f \in 1 .. Len(fixes) : due[f] = Due(f)
    BY InvHistory
  <2>2. FixesIn(kf.x) = {f \in Surviving(fixes, due) : due[f] <= L}
        /\ due \in Seq(1 .. L) /\ Len(due) = Len(fixes) /\ fixes \in Seq(Correction)
    BY <2>1, Zenon DEF History, Estimate, DueIn
  <2>3. L \in Nat
    BY InvHistory
  <2> HIDE DEF L
  <2>4. \A f \in 1 .. Len(fixes) : due[f] <= L
    BY <2>2, <2>3
  <2>5. DOMAIN fixes = 1 .. Len(fixes)
        /\ \A f \in 1 .. Len(fixes) : \A g \in f + 1 .. Len(fixes) : g \in 1 .. Len(fixes)
    BY <2>2
  <2>6. FixesIn(kf.x) = Surviving(fixes, due)
    BY <2>2, <2>4, Zenon DEF Surviving
  <2>7. Surviving(fixes, due)
          = {f \in DOMAIN fixes : /\ fixes[f].accepted
                                  /\ \A g \in f + 1 .. Len(fixes) : Due(g) >= Due(f)}
    BY <2>1, <2>5, Zenon DEF Surviving
  <2> QED
    BY <2>6, <2>7, Zenon DEF OnlyOlderEpochsDiscard
<1> QED
  BY <1>1, HistoryInvariant, PTL
=============================================================================
