--------------------------- MODULE SertosStatsProofs ---------------------------
(***************************************************************************)
(* The run-time statistics, for any number of tasks and any width of the   *)
(* counter.  The first part is about sums over a finite set, whose         *)
(* recursive definition is unfolded by arguing about a smallest set for    *)
(* which a fact would fail.                                                *)
(***************************************************************************)
EXTENDS SertosStats, SertosDataProofs

-----------------------------------------------------------------------------
(* Sums.                                                                   *)

\* The element that a sum takes first, and the recursion of the sums of f over
\* the subsets of S.
Pick(s) == CHOOSE x \in s : TRUE

Sums(g, f, S) ==
    g = [s \in SUBSET S |-> IF s = {} THEN 0 ELSE f[Pick(s)] + g[s \ {Pick(s)}]]

SumsOf(f, S) == CHOOSE g : Sums(g, f, S)

LEMMA PickMember ==
  ASSUME NEW s, s # {}
  PROVE  Pick(s) \in s
BY DEF Pick

LEMMA SumIsSums ==
  ASSUME NEW f, NEW S
  PROVE  SumOver(f, S) = SumsOf(f, S)[S]
BY DEF SumOver, MapThenSumSet, MapThenFoldSet, SumsOf, Sums, Pick

\* The recursion determines the sums.
LEMMA SumsUnique ==
  ASSUME NEW f, NEW S, IsFiniteSet(S), NEW R \in SUBSET S,
         NEW g, Sums(g, f, S), NEW h, Sums(h, f, R)
  PROVE  \A s \in SUBSET R : g[s] = h[s]
<1> DEFINE B == {s \in SUBSET R : g[s] # h[s]}
<1> SUFFICES ASSUME B # {} PROVE FALSE
  OBVIOUS
<1>1. IsFiniteSet(R) /\ B \in SUBSET (SUBSET R)
  BY FS_Subset
<1>2. PICK s \in B : \A r \in B : r \subseteq s => r = s
  <2> HIDE DEF B
  <2> QED  BY <1>1, MinimalMember
<1>3. g[{}] = 0 /\ h[{}] = 0
  BY DEF Sums
<1>4. s # {} /\ Pick(s) \in s
  BY <1>3, PickMember
<1> DEFINE r == s \ {Pick(s)}
<1>5. r \in SUBSET R /\ r # s /\ r \subseteq s
  BY <1>4
<1>6. g[r] = h[r]
  BY <1>2, <1>5
<1>7. g[s] = f[Pick(s)] + g[r] /\ h[s] = f[Pick(s)] + h[r]
  BY <1>4 DEF Sums
<1>8. QED  BY <1>6, <1>7

\* Over a finite set the recursion has a solution.
LEMMA SumsExist ==
  ASSUME NEW f, NEW S, IsFiniteSet(S)
  PROVE  Sums(SumsOf(f, S), f, S)
<1> DEFINE B == {R \in SUBSET S : ~Sums(SumsOf(f, R), f, R)}
<1> SUFFICES ASSUME B # {} PROVE FALSE
  OBVIOUS
<1>1. PICK R \in B : \A r \in B : r \subseteq R => r = R
  <2>1. B \in SUBSET (SUBSET S)
    OBVIOUS
  <2> HIDE DEF B
  <2> QED  BY <2>1, MinimalMember
<1>2. \A r \in SUBSET R : r # R => Sums(SumsOf(f, r), f, r) /\ IsFiniteSet(r)
  BY <1>1, FS_Subset
<1> DEFINE V(s) == SumsOf(f, s)[s]
           g == [s \in SUBSET R |-> IF s = {} THEN 0 ELSE f[Pick(s)] + V(s \ {Pick(s)})]
<1>3. ASSUME NEW s \in SUBSET R, s # {}
      PROVE  g[s \ {Pick(s)}] = V(s \ {Pick(s)})
  <2> DEFINE r == s \ {Pick(s)}
             q == r \ {Pick(r)}
  <2>1. Pick(s) \in s /\ r \in SUBSET R /\ r # R
    BY <1>3, PickMember
  <2>2. Sums(SumsOf(f, r), f, r) /\ IsFiniteSet(r)
    BY <1>2, <2>1
  <2>3. CASE r = {}
    BY <2>1, <2>2, <2>3 DEF Sums
  <2>4. CASE r # {}
    <3>1. Pick(r) \in r /\ q \in SUBSET r /\ q \in SUBSET R /\ q # R
      BY <2>1, <2>4, PickMember
    <3>2. Sums(SumsOf(f, q), f, q)
      BY <1>2, <3>1
    <3>3. SumsOf(f, r)[q] = V(q)
      BY <2>2, <3>1, <3>2, SumsUnique
    <3>4. SumsOf(f, r)[r] = f[Pick(r)] + SumsOf(f, r)[q]
      BY <2>2, <2>4 DEF Sums
    <3>5. g[r] = f[Pick(r)] + V(q)
      BY <2>1, <2>4
    <3>6. QED  BY <3>3, <3>4, <3>5
  <2>5. QED  BY <2>3, <2>4
<1>4. Sums(g, f, R)
  <2> DEFINE e == [s \in SUBSET R |-> IF s = {} THEN 0 ELSE f[Pick(s)] + g[s \ {Pick(s)}]]
  <2>1. \A s \in SUBSET R : g[s] = e[s]
    <3> SUFFICES ASSUME NEW s \in SUBSET R PROVE g[s] = e[s]
      OBVIOUS
    <3>1. s # {} => g[s \ {Pick(s)}] = V(s \ {Pick(s)})
      BY <1>3
    <3> HIDE DEF V
    <3>2. g[s] = IF s = {} THEN 0 ELSE f[Pick(s)] + V(s \ {Pick(s)})
      OBVIOUS
    <3>3. e[s] = IF s = {} THEN 0 ELSE f[Pick(s)] + g[s \ {Pick(s)}]
      OBVIOUS
    <3> HIDE DEF g, e
    <3>4. QED  BY <3>1, <3>2, <3>3
  <2>2. g = e
    <3>1. g = [s \in SUBSET R |-> g[s]] /\ e = [s \in SUBSET R |-> e[s]]
      OBVIOUS
    <3> HIDE DEF g, e
    <3>2. QED  BY <2>1, <3>1
  <2>3. QED  BY <2>2 DEF Sums
<1>5. Sums(SumsOf(f, R), f, R)
  <2> HIDE DEF g
  <2> QED  BY <1>4 DEF SumsOf
<1>6. QED  BY <1>1, <1>5

\* One step of a sum.
LEMMA SumStep ==
  ASSUME NEW f, NEW S, IsFiniteSet(S)
  PROVE  SumOver(f, S) = IF S = {} THEN 0 ELSE f[Pick(S)] + SumOver(f, S \ {Pick(S)})
<1> DEFINE g == SumsOf(f, S)
           r == S \ {Pick(S)}
<1>1. Sums(g, f, S) /\ SumOver(f, S) = g[S]
  BY SumsExist, SumIsSums
<1>2. CASE S = {}
  BY <1>1, <1>2 DEF Sums
<1>3. CASE S # {}
  <2>1. r \in SUBSET S /\ IsFiniteSet(r)
    BY FS_Subset
  <2>2. Sums(SumsOf(f, r), f, r) /\ SumOver(f, r) = SumsOf(f, r)[r]
    BY <2>1, SumsExist, SumIsSums
  <2>3. g[r] = SumsOf(f, r)[r]
    BY <1>1, <2>1, <2>2, SumsUnique
  <2>4. g[S] = f[Pick(S)] + g[r]
    BY <1>1, <1>3 DEF Sums
  <2>5. QED  BY <1>1, <1>3, <2>2, <2>3, <2>4
<1>4. QED  BY <1>2, <1>3

\* A sum of natural numbers is one.
LEMMA SumNat ==
  ASSUME NEW S, IsFiniteSet(S), NEW f, \A x \in S : f[x] \in Nat
  PROVE  SumOver(f, S) \in Nat
<1> DEFINE B == {s \in SUBSET S : SumOver(f, s) \notin Nat}
<1> SUFFICES ASSUME B # {} PROVE FALSE
  OBVIOUS
<1>1. B \in SUBSET (SUBSET S)
  OBVIOUS
<1>2. PICK s \in B : \A r \in B : r \subseteq s => r = s
  <2> HIDE DEF B
  <2> QED  BY <1>1, MinimalMember
<1> DEFINE r == s \ {Pick(s)}
<1>3. SumOver(f, s) = IF s = {} THEN 0 ELSE f[Pick(s)] + SumOver(f, r)
  BY FS_Subset, SumStep
<1>4. CASE s = {}
  BY <1>3, <1>4
<1>5. CASE s # {}
  <2>1. Pick(s) \in s /\ r \in SUBSET S /\ r \subseteq s /\ r # s
    BY <1>5, PickMember
  <2>2. SumOver(f, r) \in Nat
    BY <1>2, <2>1
  <2>3. QED  BY <1>3, <1>5, <2>1, <2>2
<1>6. QED  BY <1>4, <1>5

\* Any element can be taken out of a sum.
LEMMA SumTake ==
  ASSUME NEW S, IsFiniteSet(S), NEW f, \A x \in S : f[x] \in Nat
  PROVE  \A x \in S : SumOver(f, S) = f[x] + SumOver(f, S \ {x})
<1> DEFINE B == {s \in SUBSET S : \E x \in s : SumOver(f, s) # f[x] + SumOver(f, s \ {x})}
<1> SUFFICES ASSUME B # {} PROVE FALSE
  OBVIOUS
<1>1. B \in SUBSET (SUBSET S)
  OBVIOUS
<1>2. PICK s \in B : \A r \in B : r \subseteq s => r = s
  <2> HIDE DEF B
  <2> QED  BY <1>1, MinimalMember
<1>3. PICK x \in s : SumOver(f, s) # f[x] + SumOver(f, s \ {x})
  OBVIOUS
<1> DEFINE p == Pick(s)
<1>4. p \in s
  BY <1>3, PickMember
<1>5. SumOver(f, s) = f[p] + SumOver(f, s \ {p})
  BY <1>3, FS_Subset, SumStep
<1>6. x # p
  BY <1>3, <1>5
<1>7. ASSUME NEW y \in s, NEW z \in s, y # z
      PROVE  SumOver(f, s \ {y}) = f[z] + SumOver(f, (s \ {y}) \ {z})
  <2>1. s \ {y} \in SUBSET S /\ s \ {y} \subseteq s /\ s \ {y} # s /\ z \in s \ {y}
    BY <1>7
  <2>2. s \ {y} \notin B
    BY <1>2, <2>1
  <2>3. QED  BY <2>1, <2>2
<1> DEFINE c == s \ {p, x}
<1>8. (s \ {p}) \ {x} = c /\ (s \ {x}) \ {p} = c /\ c \in SUBSET S
  OBVIOUS
<1>9. SumOver(f, s \ {p}) = f[x] + SumOver(f, c)
  BY <1>4, <1>6, <1>7, <1>8
<1>10. SumOver(f, s \ {x}) = f[p] + SumOver(f, c)
  BY <1>4, <1>6, <1>7, <1>8
<1>11. SumOver(f, c) \in Nat /\ f[p] \in Nat /\ f[x] \in Nat
  BY <1>4, <1>8, FS_Subset, SumNat
<1>12. SumOver(f, s) = f[x] + SumOver(f, s \ {x})
  <2> HIDE DEF p, c
  <2>1. f[p] + (f[x] + SumOver(f, c)) = f[x] + (f[p] + SumOver(f, c))
    BY <1>11
  <2>2. QED  BY <1>5, <1>9, <1>10, <2>1
<1>13. QED  BY <1>3, <1>12

\* Functions that agree have the same sum.
LEMMA SumAgree ==
  ASSUME NEW S, IsFiniteSet(S), NEW f, NEW g, \A x \in S : f[x] = g[x]
  PROVE  SumOver(f, S) = SumOver(g, S)
<1> DEFINE B == {s \in SUBSET S : SumOver(f, s) # SumOver(g, s)}
<1> SUFFICES ASSUME B # {} PROVE FALSE
  OBVIOUS
<1>1. B \in SUBSET (SUBSET S)
  OBVIOUS
<1>2. PICK s \in B : \A r \in B : r \subseteq s => r = s
  <2> HIDE DEF B
  <2> QED  BY <1>1, MinimalMember
<1> DEFINE r == s \ {Pick(s)}
<1>3. /\ SumOver(f, s) = IF s = {} THEN 0 ELSE f[Pick(s)] + SumOver(f, r)
      /\ SumOver(g, s) = IF s = {} THEN 0 ELSE g[Pick(s)] + SumOver(g, r)
  BY FS_Subset, SumStep
<1>4. s # {}
  BY <1>3
<1>5. Pick(s) \in s /\ r \in SUBSET S /\ r \subseteq s /\ r # s
  BY <1>4, PickMember
<1>6. SumOver(f, r) = SumOver(g, r)
  BY <1>2, <1>5
<1>7. QED  BY <1>3, <1>4, <1>5, <1>6

\* Changing a function in one place changes its sum by as much.
LEMMA SumChange ==
  ASSUME NEW S, IsFiniteSet(S), NEW f, NEW g, NEW x \in S,
         \A y \in S : f[y] \in Nat /\ g[y] \in Nat, \A y \in S : y # x => f[y] = g[y]
  PROVE  SumOver(g, S) - SumOver(f, S) = g[x] - f[x]
<1>1. SumOver(f, S) = f[x] + SumOver(f, S \ {x}) /\ SumOver(g, S) = g[x] + SumOver(g, S \ {x})
  BY SumTake
<1>2. SumOver(f, S \ {x}) = SumOver(g, S \ {x}) /\ SumOver(f, S \ {x}) \in Nat
  BY FS_Subset, SumAgree, SumNat
<1>3. f[x] \in Nat /\ g[x] \in Nat
  OBVIOUS
<1>4. QED  BY <1>1, <1>2, <1>3

\* What a set adds to a sum, where the function is zero on it, is nothing.
LEMMA SumZeros ==
  ASSUME NEW S, IsFiniteSet(S), NEW f, \A x \in S : f[x] \in Nat,
         NEW R \in SUBSET S, \A x \in S \ R : f[x] = 0
  PROVE  SumOver(f, S) = SumOver(f, R)
<1> DEFINE B == {s \in SUBSET S : R \subseteq s /\ SumOver(f, s) # SumOver(f, R)}
<1> SUFFICES ASSUME B # {} PROVE FALSE
  OBVIOUS
<1>1. B \in SUBSET (SUBSET S)
  OBVIOUS
<1>2. PICK s \in B : \A r \in B : r \subseteq s => r = s
  <2> HIDE DEF B
  <2> QED  BY <1>1, MinimalMember
<1>3. PICK x \in s : x \notin R
  OBVIOUS
<1>4. SumOver(f, s) = f[x] + SumOver(f, s \ {x})
  BY FS_Subset, SumTake
<1>5. SumOver(f, s \ {x}) \in Nat /\ f[x] = 0
  BY <1>3, FS_Subset, SumNat
<1>6. s \ {x} \notin B /\ s \ {x} \in SUBSET S /\ R \subseteq s \ {x}
  BY <1>2, <1>3
<1>7. QED  BY <1>4, <1>5, <1>6

\* What holds of every term, up to a factor on each side, holds of the sums.
LEMMA SumScaled ==
  ASSUME NEW S, IsFiniteSet(S), NEW f, NEW g, \A x \in S : f[x] \in Nat /\ g[x] \in Nat,
         NEW a \in Nat, NEW b \in Nat, \A x \in S : a * f[x] <= b * g[x]
  PROVE  a * SumOver(f, S) <= b * SumOver(g, S)
<1> DEFINE B == {s \in SUBSET S : ~(a * SumOver(f, s) <= b * SumOver(g, s))}
<1> SUFFICES ASSUME B # {} PROVE FALSE
  OBVIOUS
<1>1. B \in SUBSET (SUBSET S)
  OBVIOUS
<1>2. PICK s \in B : \A r \in B : r \subseteq s => r = s
  <2> HIDE DEF B
  <2> QED  BY <1>1, MinimalMember
<1> DEFINE p == Pick(s)
           r == s \ {p}
<1>3. /\ SumOver(f, s) = IF s = {} THEN 0 ELSE f[p] + SumOver(f, r)
      /\ SumOver(g, s) = IF s = {} THEN 0 ELSE g[p] + SumOver(g, r)
  BY FS_Subset, SumStep
<1>4. s # {}
  BY <1>3
<1>5. p \in s /\ r \in SUBSET S /\ r \subseteq s /\ r # s
  BY <1>4, PickMember
<1>6. a * SumOver(f, r) <= b * SumOver(g, r)
  BY <1>2, <1>5
<1>7. SumOver(f, r) \in Nat /\ SumOver(g, r) \in Nat /\ f[p] \in Nat /\ g[p] \in Nat
  BY <1>5, FS_Subset, SumNat
<1>8. a * f[p] <= b * g[p]
  BY <1>5
<1>9. \A i, j, m, n \in Nat : a * i <= b * j /\ a * m <= b * n => a * (i + m) <= b * (j + n)
  OBVIOUS
<1>10. a * (f[p] + SumOver(f, r)) <= b * (g[p] + SumOver(g, r))
  <2> HIDE DEF p, r
  <2> QED  BY <1>6, <1>7, <1>8, <1>9
<1>11. QED  BY <1>3, <1>4, <1>10

-----------------------------------------------------------------------------
(* The counter.                                                            *)

\* The difference of two readings, in the counter's arithmetic, is the time
\* between them if that is less than a lap.
LEMMA CounterDifference ==
  ASSUME NEW M \in Nat \ {0}, NEW x \in Nat, NEW d \in 0 .. M - 1
  PROVE  (((x + d) % M) - (x % M)) % M = d
<1> DEFINE q == x \div M
           r == x % M
<1>1. q \in Int /\ r \in 0 .. M - 1 /\ x = M * q + r /\ x % M = r
  OBVIOUS
<1> HIDE DEF q, r
<1>2. CASE r + d < M
  <2>1. x + d = M * q + (r + d) /\ r + d \in 0 .. M - 1
    BY <1>1, <1>2
  <2>2. (x + d) % M = r + d
    BY <1>1, <2>1, Remainder
  <2>3. d % M = d
    OBVIOUS
  <2>4. QED  BY <1>1, <2>2, <2>3
<1>3. CASE r + d >= M
  <2>1. x + d = M * (q + 1) + (r + d - M) /\ r + d - M \in 0 .. M - 1 /\ q + 1 \in Int
    BY <1>1, <1>3
  <2>2. (x + d) % M = r + d - M
    BY <2>1, Remainder
  <2>3. (M * (-1) + d) % M = d
    BY Remainder
  <2>4. ((x + d) % M) - (x % M) = M * (-1) + d
    BY <1>1, <2>2
  <2>5. QED  BY <2>3, <2>4
<1>4. QED  BY <1>1, <1>2, <1>3

-----------------------------------------------------------------------------
(* The invariant.                                                          *)

Call ==
    [op : {"none", "visited", "deleted"}]
    \cup [op : {"sampled"}, now : Nat, at : Nat, still : BOOLEAN]
    \cup [op : {"summed"}, sum : Nat, still : BOOLEAN]

\* StatsTypeOK, with the types of the calls and of the history.
ShapeInv ==
    /\ enabled \in BOOLEAN /\ excused \in BOOLEAN /\ raced \in BOOLEAN
    /\ registry \in SUBSET Task /\ Idle \in registry
    /\ current \in Task \cup {None}
    /\ total_switches \in Nat /\ clock \in 0 .. MaxClock
    /\ run_time_total \in [Task -> Nat] /\ truth \in [Task -> Nat]
    /\ run_time_last_entry \in [Task -> 0 .. CounterMod - 1]
    /\ switch_in_count \in [Task -> 0 .. MaxSwitches]
    /\ call \in [Task -> Call]
    /\ since \in Nat /\ last \in Nat /\ last <= clock
    /\ base \in [time : Nat, switches : Nat]

\* A reset keeps the reading of a moment that has passed.
SampleInv ==
    \A t \in Task : call[t].op = "sampled" =>
        call[t].at <= clock /\ call[t].now = call[t].at % CounterMod

\* The accounts are empty until the first switch, and those of a task that was
\* never registered always.
FreshInv ==
    /\ current = None => clock = 0 /\ base.time = 0
    /\ \A t \in Task : current = None \/ (t \notin registry /\ call[t].op = "none") =>
           t # current /\ run_time_total[t] = 0 /\ truth[t] = 0

Seen == current # None /\ enabled /\ ~excused

\* The accounts have the time from `since' to `last', and the entry of the
\* current task is the reading at `last', less than a lap ago.
ConserveInv ==
    Seen =>
        /\ SumOver(run_time_total, Task) - base.time = last - since
        /\ run_time_last_entry[current] = last % CounterMod
        /\ clock - last < CounterMod

\* Only the current task has run without being charged for it yet.
AttributeInv ==
    Seen /\ ~raced =>
        \A t \in registry \cup {current} :
            truth[t] = run_time_total[t] + (IF t = current THEN clock - last ELSE 0)

SwitchInv ==
    /\ base.switches <= SumOver(switch_in_count, Task)
    /\ SwitchesOnAccounts

\* A sum that no switch has followed is still the sum.
SummedInv ==
    \A t \in Task : call[t].op = "summed" /\ call[t].still =>
        call[t].sum = SumOver(run_time_total, registry)

StatsInv ==
    /\ ShapeInv
    /\ SampleInv
    /\ FreshInv
    /\ ConserveInv
    /\ AttributeInv
    /\ SwitchInv
    /\ SummedInv

-----------------------------------------------------------------------------
(* Every action keeps the invariant.                                       *)

LEMMA SumsOfAccounts ==
  ASSUME ShapeInv, NEW R \in SUBSET Task
  PROVE  /\ IsFiniteSet(R)
         /\ SumOver(run_time_total, R) \in Nat
         /\ SumOver(switch_in_count, R) \in Nat
<1>1. IsFiniteSet(R)
  BY StatsAssumption, FS_Subset
<1>2. \A t \in R : run_time_total[t] \in Nat /\ switch_in_count[t] \in Nat
  BY DEF ShapeInv
<1>3. QED  BY <1>1, <1>2, SumNat

\* What the due time of the current task comes to.
LEMMA DeltaIsDue ==
  ASSUME ShapeInv, ConserveInv, Seen
  PROVE  delta(current) = clock - last
<1> DEFINE d == clock - last
<1>1. last \in Nat /\ clock \in Nat /\ CounterMod \in Nat \ {0} /\ last <= clock
  BY StatsAssumption DEF ShapeInv
<1>2. d \in 0 .. CounterMod - 1 /\ clock = last + d
  BY <1>1 DEF ConserveInv
<1>3. run_time_last_entry[current] = last % CounterMod
  BY DEF ConserveInv
<1> HIDE DEF d
<1>4. ((clock % CounterMod) - (last % CounterMod)) % CounterMod = d
  BY <1>1, <1>2, CounterDifference
<1>5. QED  BY <1>3, <1>4 DEF delta, runtime_counter, d

\* Unsettled changes no more than `still', and that only to FALSE.
LEMMA UnsettledCalls ==
  ASSUME call \in [Task -> Call]
  PROVE  /\ Unsettled \in [Task -> Call]
         /\ \A t \in Task : Unsettled[t].op = call[t].op
         /\ \A t \in Task : call[t].op = "sampled" =>
                Unsettled[t].at = call[t].at /\ Unsettled[t].now = call[t].now
         /\ \A t \in Task : call[t].op = "summed" => ~Unsettled[t].still
<1>1. ASSUME NEW t \in Task
      PROVE  /\ Unsettled[t] \in Call /\ Unsettled[t].op = call[t].op
             /\ call[t].op = "sampled" => Unsettled[t].at = call[t].at /\ Unsettled[t].now = call[t].now
             /\ call[t].op = "summed" => ~Unsettled[t].still
  <2>1. CASE call[t].op \in {"none", "visited", "deleted"}
    BY <2>1 DEF Unsettled, Call
  <2>2. CASE call[t] \in [op : {"sampled"}, now : Nat, at : Nat, still : BOOLEAN]
    BY <2>2 DEF Unsettled, Call
  <2>3. CASE call[t] \in [op : {"summed"}, sum : Nat, still : BOOLEAN]
    BY <2>3 DEF Unsettled, Call
  <2>4. QED  BY <2>1, <2>2, <2>3 DEF Call
<1>2. DOMAIN Unsettled = Task /\ Unsettled = [t \in Task |-> Unsettled[t]]
  BY DEF Unsettled
<1>3. QED  BY <1>1, <1>2

LEMMA InitHolds ==
  ASSUME StatsInit
  PROVE  StatsInv
<1> USE DEF StatsInit
<1>1. ShapeInv
  <2>1. enabled \in BOOLEAN /\ excused \in BOOLEAN /\ raced \in BOOLEAN
    OBVIOUS
  <2>2. NoCall \in Call
    BY DEF NoCall, Call
  <2>3. QED  BY StatsAssumption, <2>1, <2>2 DEF ShapeInv
<1>2. SampleInv /\ SummedInv
  BY DEF SampleInv, SummedInv, NoCall
<1>3. FreshInv /\ ConserveInv /\ AttributeInv
  BY StatsAssumption DEF FreshInv, ConserveInv, AttributeInv, Seen
<1>4. SwitchInv
  <2>1. SumOver(switch_in_count, Task) \in Nat
    BY <1>1, SumsOfAccounts
  <2>2. QED  BY <2>1 DEF SwitchInv, SwitchesOnAccounts
<1>5. QED  BY <1>1, <1>2, <1>3, <1>4 DEF StatsInv

LEMMA RunKeeps ==
  ASSUME StatsInv, Run
  PROVE  StatsInv'
<1> USE DEF Run, accounts
<1>1. ShapeInv'
  BY StatsAssumption DEF StatsInv, ShapeInv
<1>2. SampleInv'
  BY DEF StatsInv, ShapeInv, SampleInv, Call
<1>3. FreshInv'
  BY DEF StatsInv, ShapeInv, FreshInv
<1>4. ConserveInv'
  <2>1. CounterMod \in Nat /\ clock' \in Nat /\ last \in Nat
    BY StatsAssumption DEF StatsInv, ShapeInv
  <2>2. Seen' => Seen /\ ~(clock' - last >= CounterMod)
    BY Zenon DEF Seen
  <2>3. ~(clock' - last >= CounterMod) => clock' - last < CounterMod
    BY <2>1
  <2>4. QED  BY <2>2, <2>3 DEF StatsInv, ConserveInv
<1>5. AttributeInv'
  BY DEF StatsInv, ShapeInv, AttributeInv, Seen
<1>6. SwitchInv' /\ SummedInv'
  BY DEF StatsInv, SwitchInv, SwitchesOnAccounts, SummedInv
<1>7. QED  BY <1>1, <1>2, <1>3, <1>4, <1>5, <1>6 DEF StatsInv

LEMMA SetEnabledKeeps ==
  ASSUME StatsInv, NEW t \in Task, NEW b \in BOOLEAN, SetEnabled(t, b)
  PROVE  StatsInv'
<1> USE DEF SetEnabled, accounts, history
<1>1. ShapeInv' /\ SampleInv' /\ FreshInv'
  BY DEF StatsInv, ShapeInv, SampleInv, FreshInv
<1>2. ConserveInv' /\ AttributeInv'
  BY DEF ConserveInv, AttributeInv, Seen
<1>3. SwitchInv' /\ SummedInv'
  BY DEF StatsInv, SwitchInv, SwitchesOnAccounts, SummedInv
<1>4. QED  BY <1>1, <1>2, <1>3 DEF StatsInv

\* A call that only changes what the caller is doing.
LEMMA CallKeeps ==
  ASSUME StatsInv, NEW t \in Task, NEW c \in Call, t = current, t \in registry,
         call[t].op # "visited", c.op # "visited",
         call' = [call EXCEPT ![t] = c],
         c.op = "sampled" => c.at <= clock /\ c.now = c.at % CounterMod,
         c.op = "summed" => c.sum = SumOver(run_time_total, registry),
         UNCHANGED <<enabled, total_switches, registry, current, accounts, clock, last, history,
                     excused, raced>>
  PROVE  StatsInv'
<1> USE DEF accounts, history
<1>1. ShapeInv'
  BY DEF StatsInv, ShapeInv
<1>2. SampleInv' /\ SummedInv'
  BY DEF StatsInv, ShapeInv, SampleInv, SummedInv
<1>3. FreshInv'
  BY DEF StatsInv, ShapeInv, FreshInv
<1>4. ConserveInv' /\ AttributeInv'
  BY DEF StatsInv, ConserveInv, AttributeInv, Seen
<1>5. SwitchInv'
  BY DEF StatsInv, ShapeInv, SwitchInv, SwitchesOnAccounts
<1>6. QED  BY <1>1, <1>2, <1>3, <1>4, <1>5 DEF StatsInv

LEMMA ResetSamplesKeeps ==
  ASSUME StatsInv, NEW t \in Task, ResetSamples(t)
  PROVE  StatsInv'
<1> DEFINE c == [op |-> "sampled", now |-> runtime_counter, at |-> clock, still |-> TRUE]
<1>1. clock \in Nat /\ runtime_counter \in Nat /\ runtime_counter = clock % CounterMod
  BY StatsAssumption DEF StatsInv, ShapeInv, runtime_counter
<1>2. c \in Call /\ c.op = "sampled" /\ c.at <= clock /\ c.now = c.at % CounterMod
  BY <1>1 DEF Call
<1>3. /\ t = current /\ t \in registry /\ call[t].op = "none" /\ call' = [call EXCEPT ![t] = c]
      /\ UNCHANGED <<enabled, total_switches, registry, current, accounts, clock, last, history,
                     excused, raced>>
  BY DEF ResetSamples, Calling
<1> HIDE DEF c
<1>4. QED  BY <1>1, <1>2, <1>3, CallKeeps

LEMMA GetSumsKeeps ==
  ASSUME StatsInv, NEW t \in Task, GetSums(t)
  PROVE  StatsInv'
<1> DEFINE c == [op |-> "summed", sum |-> sum_of_tasks, still |-> TRUE]
<1>1. sum_of_tasks \in Nat /\ sum_of_tasks = SumOver(run_time_total, registry)
  BY SumsOfAccounts DEF StatsInv, ShapeInv, sum_of_tasks
<1>2. c \in Call /\ c.op = "summed" /\ c.sum = sum_of_tasks
  BY <1>1 DEF Call
<1>3. /\ t = current /\ t \in registry /\ call[t].op = "none" /\ call' = [call EXCEPT ![t] = c]
      /\ UNCHANGED <<enabled, total_switches, registry, current, accounts, clock, last, history,
                     excused, raced>>
  BY DEF GetSums, Calling
<1> HIDE DEF c
<1>4. QED  BY <1>1, <1>2, <1>3, CallKeeps

LEMMA GetReadsKeeps ==
  ASSUME StatsInv, NEW t \in Task, GetReads(t)
  PROVE  StatsInv'
<1>1. NoCall \in Call /\ NoCall.op = "none"
  BY DEF NoCall, Call
<1>2. /\ t = current /\ t \in registry /\ call[t].op = "summed"
      /\ call' = [call EXCEPT ![t] = NoCall]
      /\ UNCHANGED <<enabled, total_switches, registry, current, accounts, clock, last, history,
                     excused, raced>>
  BY DEF GetReads, Calling
<1>3. QED  BY <1>1, <1>2, CallKeeps

LEMMA CreateKeeps ==
  ASSUME StatsInv, NEW t \in Task, NEW u \in Task, Create(t, u)
  PROVE  StatsInv'
<1> USE DEF Create, accounts, history
<1>1. run_time_total[u] = 0 /\ truth[u] = 0 /\ u # current /\ u \notin registry
  BY DEF StatsInv, FreshInv, NoCall
<1>2. ShapeInv' /\ SampleInv'
  BY DEF StatsInv, ShapeInv, SampleInv
<1>3. FreshInv'
  BY DEF StatsInv, FreshInv
<1>4. ConserveInv' /\ AttributeInv'
  BY <1>1 DEF StatsInv, ShapeInv, ConserveInv, AttributeInv, Seen
<1>5. SwitchInv'
  BY DEF StatsInv, SwitchInv, SwitchesOnAccounts
<1>6. SummedInv'
  <2>1. IsFiniteSet(registry') /\ registry \in SUBSET registry'
    BY <1>2, StatsAssumption, FS_Subset DEF ShapeInv
  <2>2. \A v \in registry' : run_time_total[v] \in Nat /\ (v \notin registry => run_time_total[v] = 0)
    BY <1>1, <1>2 DEF StatsInv, ShapeInv
  <2>3. SumOver(run_time_total, registry') = SumOver(run_time_total, registry)
    BY <2>1, <2>2, SumZeros
  <2>4. QED  BY <2>3 DEF StatsInv, SummedInv
<1>7. QED  BY <1>2, <1>3, <1>4, <1>5, <1>6 DEF StatsInv

LEMMA DeleteKeeps ==
  ASSUME StatsInv, NEW t \in Task, NEW u \in Task, Delete(t, u)
  PROVE  StatsInv'
<1> USE DEF accounts, history
<1>1. call \in [Task -> Call] /\ [op |-> "deleted"] \in Call
  BY DEF StatsInv, ShapeInv, Call
<1>2. /\ u \in registry /\ u # Idle /\ registry' = registry \ {u}
      /\ UNCHANGED <<enabled, total_switches, current, accounts, clock, last, history, excused,
                     raced>>
      /\ call' = [Unsettled EXCEPT ![u] =
                    IF Unsettled[u].op = "visited" THEN Unsettled[u] ELSE [op |-> "deleted"]]
  BY <1>1, UnsettledCalls DEF Delete
<1>3. /\ call' \in [Task -> Call]
      /\ \A v \in Task : v # u => call'[v] = Unsettled[v]
      /\ call'[u].op \in {"visited", "deleted"}
      /\ call'[u].op = "visited" <=> call[u].op = "visited"
  BY <1>1, <1>2, UnsettledCalls
<1>4. ShapeInv'
  BY <1>2, <1>3 DEF StatsInv, ShapeInv
<1>5. SampleInv' /\ SummedInv'
  BY <1>1, <1>2, <1>3, UnsettledCalls DEF StatsInv, SampleInv, SummedInv
<1>6. FreshInv'
  BY <1>1, <1>2, <1>3, UnsettledCalls DEF StatsInv, ShapeInv, FreshInv
<1>7. ConserveInv' /\ AttributeInv'
  BY <1>2 DEF StatsInv, ConserveInv, AttributeInv, Seen
<1>8. SwitchInv'
  BY <1>1, <1>2, <1>3, UnsettledCalls DEF StatsInv, SwitchInv, SwitchesOnAccounts
<1>9. QED  BY <1>4, <1>5, <1>6, <1>7, <1>8 DEF StatsInv

LEMMA ResetClearsKeeps ==
  ASSUME StatsInv, NEW t \in Task, ResetClears(t)
  PROVE  StatsInv'
<1> USE DEF ResetClears, Calling, accounts, history
<1>1. NoCall \in Call /\ NoCall.op = "none"
  BY DEF NoCall, Call
<1>2. ShapeInv'
  BY <1>1 DEF StatsInv, ShapeInv
<1>3. SampleInv' /\ SummedInv'
  BY <1>1 DEF StatsInv, ShapeInv, SampleInv, SummedInv
<1>4. FreshInv'
  BY <1>1 DEF StatsInv, ShapeInv, FreshInv
<1>5. ConserveInv' /\ AttributeInv'
  BY DEF StatsInv, ConserveInv, AttributeInv, Seen
<1>6. SwitchInv'
  <2>1. SumOver(switch_in_count, Task) \in Nat /\ base.switches \in Nat
    BY SumsOfAccounts DEF StatsInv, ShapeInv
  <2>2. base.switches <= SumOver(switch_in_count, Task)
    BY DEF StatsInv, SwitchInv
  <2>3. QED  BY <2>1, <2>2 DEF SwitchInv, SwitchesOnAccounts
<1>7. QED  BY <1>2, <1>3, <1>4, <1>5, <1>6 DEF StatsInv

LEMMA ResetVisitsKeeps ==
  ASSUME StatsInv, NEW t \in Task, ResetVisits(t)
  PROVE  StatsInv'
<1> DEFINE at == call[t].at
           now == call[t].now
<1>1. /\ t = current /\ t \in registry /\ call[t].op = "sampled"
      /\ run_time_total' = ZeroRegistered(run_time_total)
      /\ switch_in_count' = ZeroRegistered(switch_in_count)
      /\ run_time_last_entry' = reset_entry(t, now)
      /\ call' = [Unsettled EXCEPT ![t] = [op |-> "visited"]]
      /\ since' = at /\ last' = at
      /\ truth' = [ZeroRegistered(truth) EXCEPT ![t] = clock - at]
      /\ base' = [time |-> SumOver(run_time_total, Task \ registry),
                  switches |-> SumOver(switch_in_count, Task \ registry)]
      /\ excused' = (~enabled \/ clock - at >= CounterMod)
      /\ raced' = ~call[t].still
      /\ UNCHANGED <<enabled, total_switches, registry, current, clock>>
  BY DEF ResetVisits, Calling
<1>2. /\ call \in [Task -> Call] /\ [op |-> "visited"] \in Call
      /\ at \in Nat /\ now \in Nat /\ call[t].still \in BOOLEAN
  BY <1>1 DEF StatsInv, ShapeInv, Call
<1>3. clock \in Nat /\ at <= clock /\ now = at % CounterMod
  BY <1>1 DEF StatsInv, ShapeInv, SampleInv
<1>4. CounterMod \in Nat \ {0} /\ now \in 0 .. CounterMod - 1
  BY <1>2, <1>3, StatsAssumption
<1>5. /\ call' \in [Task -> Call] /\ call'[t].op = "visited"
      /\ \A v \in Task : v # t => call'[v] = Unsettled[v]
  BY <1>1, <1>2, UnsettledCalls
<1> HIDE DEF at, now
<1>6. ShapeInv'
  <2>1. excused' \in BOOLEAN /\ raced' \in BOOLEAN
    BY <1>1, <1>2
  <2>2. base' \in [time : Nat, switches : Nat]
    BY <1>1, SumsOfAccounts DEF StatsInv, ShapeInv
  <2>3. /\ run_time_total' \in [Task -> Nat] /\ truth' \in [Task -> Nat]
        /\ switch_in_count' \in [Task -> 0 .. MaxSwitches]
        /\ run_time_last_entry' \in [Task -> 0 .. CounterMod - 1]
    BY <1>1, <1>2, <1>3, <1>4, StatsAssumption
       DEF StatsInv, ShapeInv, ZeroRegistered, reset_entry
  <2>4. QED  BY <1>1, <1>2, <1>3, <1>5, <2>1, <2>2, <2>3 DEF StatsInv, ShapeInv
<1>7. /\ SumOver(run_time_total', Task) = base'.time
      /\ SumOver(switch_in_count', Task) = base'.switches
  <2> DEFINE R == Task \ registry
  <2>1. IsFiniteSet(Task) /\ IsFiniteSet(R) /\ R \in SUBSET Task
    BY StatsAssumption, FS_Subset
  <2>2. /\ \A v \in R : run_time_total'[v] = run_time_total[v]
        /\ \A v \in R : switch_in_count'[v] = switch_in_count[v]
        /\ \A v \in Task \ R : run_time_total'[v] = 0 /\ switch_in_count'[v] = 0
    BY <1>1 DEF ZeroRegistered
  <2>3. \A v \in Task : run_time_total'[v] \in Nat /\ switch_in_count'[v] \in Nat
    BY <1>6 DEF ShapeInv
  <2> HIDE DEF R
  <2>4. SumOver(run_time_total', Task) = SumOver(run_time_total', R)
    BY <2>1, <2>2, <2>3, SumZeros
  <2>5. SumOver(switch_in_count', Task) = SumOver(switch_in_count', R)
    BY <2>1, <2>2, <2>3, SumZeros
  <2>6. SumOver(run_time_total', R) = SumOver(run_time_total, R)
    BY <2>1, <2>2, SumAgree
  <2>7. SumOver(switch_in_count', R) = SumOver(switch_in_count, R)
    BY <2>1, <2>2, SumAgree
  <2>8. base'.time = SumOver(run_time_total, R) /\ base'.switches = SumOver(switch_in_count, R)
    BY <1>1 DEF R
  <2>9. QED  BY <2>4, <2>5, <2>6, <2>7, <2>8
<1>8. SampleInv' /\ SummedInv'
  BY <1>1, <1>2, <1>5, UnsettledCalls DEF StatsInv, SampleInv, SummedInv
<1>9. FreshInv'
  <2>1. current # None
    BY <1>1, StatsAssumption
  <2>2. ASSUME NEW v \in Task, v \notin registry, call'[v].op = "none"
        PROVE  v # current /\ run_time_total'[v] = 0 /\ truth'[v] = 0
    <3>1. v # t /\ call[v].op = "none"
      BY <1>1, <1>2, <1>5, <2>2, UnsettledCalls
    <3>2. run_time_total[v] = 0 /\ truth[v] = 0
      BY <2>2, <3>1 DEF StatsInv, FreshInv
    <3>3. QED  BY <1>1, <2>2, <3>1, <3>2 DEF ZeroRegistered, StatsInv, ShapeInv
  <2>3. QED  BY <1>1, <2>1, <2>2 DEF FreshInv
<1>10. ConserveInv'
  <2>1. base'.time \in Nat
    BY <1>6 DEF ShapeInv
  <2>2. SumOver(run_time_total', Task) - base'.time = last' - since'
    BY <1>1, <1>2, <1>7, <2>1
  <2>3. run_time_last_entry'[t] = last' % CounterMod
    BY <1>1, <1>3 DEF reset_entry
  <2>4. Seen' => ~(clock - at >= CounterMod)
    BY <1>1, Zenon DEF Seen
  <2>5. ~(clock - at >= CounterMod) => clock - at < CounterMod
    BY <1>2, <1>3, <1>4
  <2>6. QED  BY <1>1, <2>2, <2>3, <2>4, <2>5 DEF ConserveInv
<1>11. AttributeInv'
  <2>1. ASSUME NEW v \in registry
        PROVE  truth'[v] = run_time_total'[v] + (IF v = t THEN clock - at ELSE 0)
    BY <1>1, <1>2, <1>3 DEF StatsInv, ShapeInv, ZeroRegistered
  <2>2. QED  BY <1>1, <2>1 DEF AttributeInv
<1>12. SwitchInv'
  <2>1. base'.switches \in Nat
    BY <1>6 DEF ShapeInv
  <2>2. QED  BY <1>5, <1>7, <2>1 DEF SwitchInv, SwitchesOnAccounts
<1>13. QED  BY <1>6, <1>8, <1>9, <1>10, <1>11, <1>12 DEF StatsInv

\* The accounts after a switch that the statistics see.
LEMMA OnSwitchAccounts ==
  ASSUME StatsInv, NEW n \in registry, Switch(n), enabled
  PROVE  /\ \A t \in Task : run_time_total'[t] = run_time_total[t] +
                                IF t = current THEN delta(current) ELSE 0
         /\ switch_in_count' = [switch_in_count EXCEPT ![n] = @ + Switched(current, n)]
         /\ run_time_last_entry' = [run_time_last_entry EXCEPT ![n] = clock % CounterMod]
         /\ total_switches' = total_switches + Switched(current, n)
         /\ last' = clock
BY DEF Switch, on_switch, charged, runtime_counter, StatsInv, ShapeInv

LEMMA SwitchKeeps ==
  ASSUME StatsInv, NEW n \in Task, Switch(n)
  PROVE  StatsInv'
<1>1. /\ n \in registry /\ current' = n /\ call' = Unsettled
      /\ total_switches < MaxSwitches /\ switch_in_count[n] < MaxSwitches
      /\ since' = IF current = None THEN clock ELSE since
      /\ UNCHANGED <<enabled, registry, clock, truth, base, excused, raced>>
  BY DEF Switch
<1>2. ~enabled => UNCHANGED <<accounts, total_switches, last>>
  BY DEF Switch, on_switch
<1>3. call \in [Task -> Call] /\ n # None /\ CounterMod \in Nat \ {0}
      /\ MaxSwitches \in Nat /\ None \notin Task
  BY StatsAssumption DEF StatsInv, ShapeInv
<1>4. ShapeInv'
  <2>1. CASE ~enabled
    BY <1>1, <1>2, <1>3, <2>1, UnsettledCalls DEF StatsInv, ShapeInv, accounts
  <2>2. CASE enabled
    <3>1. Switched(current, n) \in {0, 1}
      BY DEF Switched
    <3>2. switch_in_count' \in [Task -> 0 .. MaxSwitches] /\ total_switches' \in Nat
      BY <1>1, <1>3, <2>2, <3>1, OnSwitchAccounts DEF StatsInv, ShapeInv
    <3>3. clock % CounterMod \in 0 .. CounterMod - 1
      BY <1>3 DEF StatsInv, ShapeInv
    <3>4. run_time_last_entry' \in [Task -> 0 .. CounterMod - 1]
      BY <1>1, <2>2, <3>3, OnSwitchAccounts DEF StatsInv, ShapeInv
    <3>5. current \in Task => delta(current) \in Nat
      BY <1>3 DEF StatsInv, ShapeInv, delta, runtime_counter
    <3>6. run_time_total' \in [Task -> Nat]
      <4>1. run_time_total' = [t \in Task |-> run_time_total'[t]]
        BY <2>2 DEF Switch, on_switch
      <4>2. \A t \in Task : run_time_total'[t] \in Nat
        BY <1>1, <2>2, <3>5, OnSwitchAccounts DEF StatsInv, ShapeInv
      <4>3. QED  BY <4>1, <4>2
    <3>7. last' \in Nat /\ last' <= clock
      BY <1>1, <2>2, OnSwitchAccounts DEF StatsInv, ShapeInv
    <3>8. since' \in Nat
      BY <1>1 DEF StatsInv, ShapeInv
    <3>9. call' \in [Task -> Call]
      BY <1>1, <1>3, UnsettledCalls
    <3>10. QED  BY <1>1, <3>2, <3>4, <3>6, <3>7, <3>8, <3>9 DEF StatsInv, ShapeInv
  <2>3. QED  BY <2>1, <2>2
<1>5. SampleInv'
  BY <1>1, <1>3, UnsettledCalls DEF StatsInv, SampleInv
<1>6. FreshInv'
  <2>1. ASSUME NEW t \in Task, t \notin registry, call'[t].op = "none"
        PROVE  t # n /\ run_time_total'[t] = 0 /\ truth'[t] = 0
    <3>1. call[t].op = "none"
      BY <1>1, <1>3, <2>1, UnsettledCalls
    <3>2. t # current /\ run_time_total[t] = 0 /\ truth[t] = 0
      BY <2>1, <3>1 DEF StatsInv, FreshInv
    <3>3. run_time_total'[t] = run_time_total[t]
      BY <1>1, <1>2, <3>2, OnSwitchAccounts DEF accounts, StatsInv, ShapeInv
    <3>4. QED  BY <1>1, <2>1, <3>2, <3>3
  <2>2. QED  BY <1>1, <1>3, <2>1 DEF FreshInv
<1>7. ASSUME Seen'
      PROVE  /\ enabled /\ ~excused /\ last' = clock
             /\ current # None => Seen /\ current \in Task /\ delta(current) = clock - last
             /\ current = None => clock = 0 /\ last = 0
  BY <1>1, <1>7, OnSwitchAccounts, DeltaIsDue DEF Seen, StatsInv, ShapeInv, FreshInv
<1>8. ConserveInv'
  <2> SUFFICES ASSUME Seen'
               PROVE  /\ SumOver(run_time_total', Task) - base.time = clock - since'
                      /\ run_time_last_entry'[n] = clock % CounterMod
                      /\ clock - clock < CounterMod
    BY <1>1, <1>7 DEF ConserveInv
  <2>1. run_time_last_entry'[n] = clock % CounterMod /\ clock - clock < CounterMod
    BY <1>1, <1>3, <1>7, OnSwitchAccounts DEF StatsInv, ShapeInv
  <2>2. /\ IsFiniteSet(Task) /\ SumOver(run_time_total, Task) \in Nat /\ SumOver(run_time_total', Task) \in Nat
        /\ \A t \in Task : run_time_total[t] \in Nat /\ run_time_total'[t] \in Nat
        /\ clock \in Nat /\ since \in Nat /\ last \in Nat /\ base.time \in Nat
    BY <1>4, StatsAssumption, SumNat DEF StatsInv, ShapeInv
  <2>3. CASE current = None
    <3>1. /\ \A t \in Task : run_time_total'[t] = run_time_total[t]
          /\ \A t \in Task : run_time_total[t] = 0
          /\ base.time = 0 /\ since' = clock
      BY <1>1, <1>3, <1>7, <2>2, <2>3, OnSwitchAccounts DEF StatsInv, FreshInv
    <3>2. SumOver(run_time_total', Task) = SumOver(run_time_total', {})
      BY <2>2, <3>1, SumZeros
    <3>3. SumOver(run_time_total', {}) = 0
      BY FS_EmptySet, SumStep
    <3>4. QED  BY <2>1, <2>2, <3>1, <3>2, <3>3
  <2>4. CASE current # None
    <3>1. /\ \A t \in Task : t # current => run_time_total[t] = run_time_total'[t]
          /\ run_time_total'[current] = run_time_total[current] + (clock - last)
          /\ since' = since /\ current \in Task
      BY <1>1, <1>7, <2>2, <2>4, OnSwitchAccounts
    <3>2. SumOver(run_time_total', Task) - SumOver(run_time_total, Task) =
              run_time_total'[current] - run_time_total[current]
      BY <2>2, <3>1, SumChange
    <3>3. SumOver(run_time_total, Task) - base.time = last - since
      BY <1>7, <2>4 DEF StatsInv, ConserveInv
    <3>4. run_time_total[current] \in Nat
      BY <2>2, <3>1
    <3>5. QED  BY <2>1, <2>2, <3>1, <3>2, <3>3, <3>4
  <2>5. QED  BY <2>3, <2>4
<1>9. AttributeInv'
  <2> SUFFICES ASSUME Seen', ~raced, NEW t \in registry
               PROVE  truth[t] = run_time_total'[t] + (IF t = n THEN clock - clock ELSE 0)
    BY <1>1, <1>7 DEF AttributeInv
  <2>1. run_time_total'[t] = run_time_total[t] + (IF t = current THEN delta(current) ELSE 0)
    BY <1>1, <1>7, OnSwitchAccounts DEF StatsInv, ShapeInv
  <2>2. /\ clock \in Nat /\ last \in Nat /\ run_time_total[t] \in Nat /\ truth[t] \in Nat
        /\ t \in Task
    BY DEF StatsInv, ShapeInv
  <2>3. CASE current = None
    <3>1. truth[t] = 0 /\ run_time_total[t] = 0 /\ t # current
      BY <1>3, <2>2, <2>3 DEF StatsInv, FreshInv
    <3>2. QED  BY <2>1, <2>2, <3>1
  <2>4. CASE current # None
    <3>1. truth[t] = run_time_total[t] + (IF t = current THEN clock - last ELSE 0)
      BY <1>7, <2>4 DEF StatsInv, AttributeInv
    <3>2. QED  BY <1>7, <2>1, <2>2, <2>4, <3>1
  <2>5. QED  BY <2>3, <2>4
<1>10. SwitchInv'
  <2>1. CASE ~enabled
    BY <1>1, <1>2, <1>3, <2>1, UnsettledCalls DEF StatsInv, SwitchInv, SwitchesOnAccounts, accounts
  <2>2. CASE enabled
    <3> DEFINE s == Switched(current, n)
    <3>1. s \in {0, 1} /\ total_switches' = total_switches + s
      BY <1>1, <2>2, OnSwitchAccounts DEF Switched
    <3>2. /\ IsFiniteSet(Task) /\ SumOver(switch_in_count, Task) \in Nat
          /\ SumOver(switch_in_count', Task) \in Nat /\ base.switches \in Nat /\ total_switches \in Nat
          /\ \A t \in Task : switch_in_count[t] \in Nat /\ switch_in_count'[t] \in Nat
      BY <1>3, <1>4, StatsAssumption, SumNat DEF StatsInv, ShapeInv
    <3>3. /\ \A t \in Task : t # n => switch_in_count[t] = switch_in_count'[t]
          /\ switch_in_count'[n] = switch_in_count[n] + s
      BY <1>1, <2>2, OnSwitchAccounts DEF StatsInv, ShapeInv
    <3> HIDE DEF s
    <3>4. SumOver(switch_in_count', Task) - SumOver(switch_in_count, Task) =
              switch_in_count'[n] - switch_in_count[n]
      BY <3>2, <3>3, SumChange
    <3>5. switch_in_count[n] \in Nat
      BY <3>2
    <3>6. SumOver(switch_in_count', Task) = SumOver(switch_in_count, Task) + s
      BY <3>1, <3>2, <3>3, <3>4, <3>5
    <3>7. \A t \in Task : call'[t].op = call[t].op
      BY <1>1, <1>3, UnsettledCalls
    <3>8. QED  BY <1>1, <3>1, <3>2, <3>6, <3>7 DEF StatsInv, SwitchInv, SwitchesOnAccounts
  <2>3. QED  BY <2>1, <2>2
<1>11. SummedInv'
  BY <1>1, <1>3, UnsettledCalls DEF SummedInv
<1>12. QED  BY <1>4, <1>5, <1>6, <1>8, <1>9, <1>10, <1>11 DEF StatsInv

LEMMA NextKeeps ==
  ASSUME StatsInv, [StatsNext]_vars
  PROVE  StatsInv'
<1>1. CASE UNCHANGED vars
  BY <1>1 DEF vars, accounts, history, StatsInv, ShapeInv, SampleInv, FreshInv, ConserveInv,
              AttributeInv, SwitchInv, SwitchesOnAccounts, SummedInv, Seen
<1>2. ASSUME NEW t \in Callers,
             \/ ResetSamples(t) \/ ResetVisits(t) \/ ResetClears(t)
             \/ GetSums(t) \/ GetReads(t)
             \/ \E b \in BOOLEAN : SetEnabled(t, b)
      PROVE  StatsInv'
  <2>1. t \in Task
    BY StatsAssumption
  <2>2. QED
    BY <1>2, <2>1, ResetSamplesKeeps, ResetVisitsKeeps, ResetClearsKeeps, GetSumsKeeps,
       GetReadsKeeps, SetEnabledKeeps
<1>3. QED  BY <1>1, <1>2, RunKeeps, SwitchKeeps, CreateKeeps, DeleteKeeps DEF StatsNext

\* The invariant of the statistics.
LEMMA StatsSafe == StatsSpec => []StatsInv
BY InitHolds, NextKeeps, PTL DEF StatsSpec

-----------------------------------------------------------------------------
\* The statistics keep their types: no account is ever negative, whatever the
\* counter does between two switches.
THEOREM StatsTypesOK == StatsSpec => []StatsTypeOK
<1>1. StatsInv => StatsTypeOK
  BY DEF StatsInv, ShapeInv, StatsTypeOK, Call
<1>2. QED  BY <1>1, StatsSafe, PTL

\* The accounts, less what was on those of deleted tasks when they were last
\* reset, and what is due to the current task, are the time since then.
THEOREM NoTimeLost == StatsSpec => []TimeConserved
<1>1. StatsInv => TimeConserved
  <2> SUFFICES ASSUME StatsInv, Seen
               PROVE  SumOver(run_time_total, Task) - base.time + delta(current) = clock - since
    BY DEF TimeConserved, Seen
  <2>1. delta(current) = clock - last
    BY DeltaIsDue DEF StatsInv
  <2>2. SumOver(run_time_total, Task) - base.time = last - since
    BY DEF StatsInv, ConserveInv
  <2>3. SumOver(run_time_total, Task) \in Nat /\ base.time \in Nat /\ last \in Nat /\ clock \in Nat
        /\ since \in Nat
    BY SumsOfAccounts DEF StatsInv, ShapeInv
  <2>4. QED  BY <2>1, <2>2, <2>3
<1>2. QED  BY <1>1, StatsSafe, PTL

\* Every registered task that is not current has been charged for exactly the
\* time it was current.
THEOREM ChargedRight == StatsSpec => []TimeAttributed
<1>1. StatsInv => TimeAttributed
  BY DEF StatsInv, ShapeInv, AttributeInv, Seen, TimeAttributed
<1>2. QED  BY <1>1, StatsSafe, PTL

\* A share of the whole N, rounded down, is in range.
LEMMA ShareBound ==
  ASSUME NEW N \in Nat, NEW p \in Nat, NEW m \in Nat \ {0}, p <= m
  PROVE  /\ (p * N) \div m \in 0 .. N
         /\ m * ((p * N) \div m) <= N * p
<1> DEFINE q == (p * N) \div m
           r == (p * N) % m
<1>1. p * N \in Nat
  OBVIOUS
<1>2. q \in Int /\ r \in 0 .. m - 1 /\ p * N = m * q + r
  BY <1>1
<1> HIDE DEF q, r
<1>3. m * q <= N * p
  BY <1>1, <1>2
<1>4. q >= 0
  <2> SUFFICES ASSUME q <= -1 PROVE FALSE
    BY <1>2
  <2>1. m * q <= m * (-1)
    BY <1>2
  <2>2. QED  BY <1>1, <1>2, <2>1
<1>5. q <= N
  <2> SUFFICES ASSUME q >= N + 1 PROVE FALSE
    BY <1>2
  <2>1. m * q >= m * (N + 1)
    BY <1>2
  <2>2. N * p <= N * m
    OBVIOUS
  <2>3. m * (N + 1) = N * m + m
    OBVIOUS
  <2>4. QED  BY <1>2, <1>3, <2>1, <2>2, <2>3
<1>6. QED  BY <1>2, <1>3, <1>4, <1>5 DEF q

\* The shares that the terms of a sum have of it come to no more than the
\* whole N.
LEMMA SharesBelow ==
  ASSUME NEW N \in Nat, NEW S, IsFiniteSet(S), NEW a, \A u \in S : a[u] \in Nat,
         NEW m, m = SumOver(a, S),
         NEW f, \A u \in S : f[u] = IF m = 0 THEN 0 ELSE (a[u] * N) \div m
  PROVE  /\ SumOver(f, S) <= N
         /\ \A u \in S : N - f[u] \in 0 .. N
<1>1. m \in Nat
  BY SumNat
<1>2. ASSUME NEW u \in S
      PROVE  a[u] <= m
  <2>1. m = a[u] + SumOver(a, S \ {u})
    BY SumTake
  <2>2. SumOver(a, S \ {u}) \in Nat
    BY FS_Subset, SumNat
  <2>3. QED  BY <1>1, <2>1, <2>2
<1>3. ASSUME NEW u \in S
      PROVE  f[u] \in 0 .. N /\ m * f[u] <= N * a[u]
  <2>1. CASE m = 0
    BY <2>1
  <2>2. CASE m # 0
    BY <1>1, <1>2, <2>2, ShareBound
  <2>3. QED  BY <2>1, <2>2
<1>4. \A u \in S : f[u] \in Nat
  BY <1>3
<1>5. SumOver(f, S) \in Nat
  BY <1>4, SumNat
<1>6. m * SumOver(f, S) <= N * m
  BY <1>1, <1>3, <1>4, SumScaled
<1>7. CASE m = 0
  <2>1. SumOver(f, S) = SumOver(f, {})
    BY <1>4, <1>7, SumZeros
  <2>2. SumOver(f, {}) = 0
    BY FS_EmptySet, SumStep
  <2>3. QED  BY <1>3, <2>1, <2>2
<1>8. CASE m # 0
  <2> DEFINE s == SumOver(f, S)
  <2>1. s <= N
    <3> SUFFICES ASSUME s >= N + 1 PROVE FALSE
      BY <1>5
    <3>1. s \in Nat /\ m \in Nat \ {0} /\ m * s <= N * m
      BY <1>1, <1>5, <1>6, <1>8
    <3> HIDE DEF s
    <3>2. m * s >= m * (N + 1)
      BY <3>1
    <3>3. m * (N + 1) = N * m + m
      BY <3>1
    <3>4. QED  BY <3>1, <3>2, <3>3
  <2>2. QED  BY <1>3, <2>1
<1>9. QED  BY <1>7, <1>8

\* What a query computes from a sum that no switch has followed is in range:
\* the shares of all tasks come to no more than the whole, and the load is
\* what the idle task leaves of it.
THEOREM SharesAddUp == StatsSpec => []SharesInRange
<1>1. StatsInv => SharesInRange
  <2> SUFFICES ASSUME StatsInv, NEW t \in Task, call[t].op = "summed", call[t].still
               PROVE  /\ SumOver([u \in Task |-> share(t, u)], registry) <= Whole
                      /\ cpu_load(t) \in 0 .. Whole
    BY DEF SharesInRange
  <2> DEFINE m == call[t].sum
             f == [u \in Task |-> share(t, u)]
  <2>1. /\ m = SumOver(run_time_total, registry) /\ IsFiniteSet(registry) /\ Idle \in registry
        /\ registry \in SUBSET Task
        /\ \A u \in registry : run_time_total[u] \in Nat
    BY SumsOfAccounts DEF StatsInv, ShapeInv, SummedInv
  <2>2. Whole \in Nat
    BY DEF Whole
  <2>3. ASSUME NEW u \in registry
        PROVE  f[u] = IF m = 0 THEN 0 ELSE (run_time_total[u] * Whole) \div m
    BY <2>1 DEF share, compute_percent_x100
  <2>4. f[Idle] = share(t, Idle)
    BY <2>1
  <2> HIDE DEF f, m
  <2>5. SumOver(f, registry) <= Whole /\ Whole - f[Idle] \in 0 .. Whole
    BY <2>1, <2>2, <2>3, SharesBelow
  <2>6. QED  BY <2>4, <2>5 DEF cpu_load, f
<1>2. QED  BY <1>1, StatsSafe, PTL

\* No switch is counted that is on no task's account.
THEOREM SwitchesAccounted == StatsSpec => []SwitchesOnAccounts
<1>1. StatsInv => SwitchesOnAccounts
  BY DEF StatsInv, SwitchInv
<1>2. QED  BY <1>1, StatsSafe, PTL

=============================================================================
