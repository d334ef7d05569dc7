-------------------------- MODULE SertosTimerProofs --------------------------
(***************************************************************************)
(* The proof that the software timers of SertosTimer are safe: the walk of *)
(* the tick handler, which holds pointers into the list of active timers   *)
(* while callbacks edit it, visits active timers only and ends, and timers *)
(* expire on time.                                                         *)
(***************************************************************************)
EXTENDS SertosTimer, SertosDataProofs

-----------------------------------------------------------------------------
(* The inductive invariant.                                                *)

\* The timers on list s from timer x to the end.
From(s, x) == {s[j] : j \in {n \in 1 .. Len(s) : \E i \in 1 .. n : s[i] = x}}

\* No misuse of a list yet: what the list holds.
ListInv ==
    /\ IsInjective(active_timers)
    /\ \A x \in Timer : Contains(active_timers, x) <=> is_active[x]
    /\ \A x \in Timer : is_active[x] => alive[x] \/ x \in raced

\* The pointers of the walk: curr is on the list until its callback runs, and
\* the successor saved across the callback is another timer on the list, as
\* long as no callback takes that one away.
PointersInv ==
    /\ stage # "idle" => curr \in Timer
    /\ ~severed =>
        /\ stage = "visit" => is_active[curr]
        /\ stage = "callback" /\ next # NoTimer => next # curr /\ is_active[next]

\* No callback disturbs the walk.
Regular == callbacks = "end" /\ ~severed

\* What is still to be counted down is the rest of the list, as long as no
\* callback moves a timer to the tail.
TodoInv ==
    Regular =>
        /\ stage = "idle" => todo = {}
        /\ stage = "visit" => todo = From(active_timers, curr)
        /\ stage = "callback" =>
            todo = IF next = NoTimer THEN {} ELSE From(active_timers, next)

\* The tick count and the countdown of x add up to the tick x is due at.
OnTime(x) ==
    due[x] = (now + remaining_ticks[x] - (IF x \in todo THEN 1 ELSE 0)) % TickMod

DueInv == Regular => \A x \in Timer : is_active[x] => OnTime(x)

\* An active timer has still to count.
CountInv == \A x \in Timer : is_active[x] => remaining_ticks[x] > 0

TimerCore == ListInv /\ PointersInv /\ TodoInv /\ DueInv /\ CountInv

TimerInv ==
    /\ TimerTypeOK
    /\ fault => severed \/ raced # {}
    /\ ~fault => TimerCore

-----------------------------------------------------------------------------
(* The rest of a list.                                                     *)

\* A timer belongs to its own rest.
LEMMA FromSelf ==
  ASSUME NEW s \in Seq(Timer), NEW x, Contains(s, x)
  PROVE  x \in From(s, x)
<1>1. PICK i \in 1 .. Len(s) : s[i] = x
  BY DEF Contains
<1>2. i \in {n \in 1 .. Len(s) : \E m \in 1 .. n : s[m] = x}
  BY <1>1
<1>3. QED  BY <1>1, <1>2 DEF From

\* The rest from the head is the whole list.
LEMMA FromHead ==
  ASSUME NEW s \in Seq(Timer), s # <<>>
  PROVE  From(s, Head(s)) = ToSet(s)
<1>1. Head(s) = s[1] /\ Len(s) \in Nat \ {0} /\ DOMAIN s = 1 .. Len(s)
  OBVIOUS
<1>2. {n \in 1 .. Len(s) : \E i \in 1 .. n : s[i] = Head(s)} = 1 .. Len(s)
  <2>1. \A n \in 1 .. Len(s) : 1 \in 1 .. n
    BY <1>1
  <2>2. QED  BY <2>1, <1>1
<1>3. QED  BY <1>1, <1>2 DEF From, ToSet

\* Without its first timer, the rest from x is the rest from its successor.
LEMMA FromNext ==
  ASSUME NEW s \in Seq(Timer), IsInjective(s), NEW i \in 1 .. Len(s)
  PROVE  From(s, s[i]) \ {s[i]} = IF i < Len(s) THEN From(s, s[i + 1]) ELSE {}
<1>1. \A m, n \in 1 .. Len(s) : s[m] = s[n] => m = n
  BY DEF IsInjective
<1>2. ASSUME NEW m \in 1 .. Len(s)
      PROVE  From(s, s[m]) = {s[j] : j \in m .. Len(s)}
  <2>1. {n \in 1 .. Len(s) : \E j \in 1 .. n : s[j] = s[m]} = m .. Len(s)
    <3>1. ASSUME NEW n \in 1 .. Len(s), NEW j \in 1 .. n, s[j] = s[m]
          PROVE  n \in m .. Len(s)
      BY <1>1, <3>1
    <3>2. ASSUME NEW n \in m .. Len(s)
          PROVE  n \in 1 .. Len(s) /\ \E j \in 1 .. n : s[j] = s[m]
      <4>1. m \in 1 .. n
        OBVIOUS
      <4>2. QED  BY <4>1
    <3>3. QED  BY <3>1, <3>2
  <2>2. QED  BY <2>1 DEF From
<1>3. From(s, s[i]) \ {s[i]} = {s[j] : j \in i + 1 .. Len(s)}
  <2>1. \A j \in i .. Len(s) : s[j] # s[i] <=> j \in i + 1 .. Len(s)
    BY <1>1
  <2>2. i + 1 .. Len(s) \subseteq i .. Len(s)
    OBVIOUS
  <2>3. From(s, s[i]) = {s[j] : j \in i .. Len(s)}
    BY <1>2
  <2>4. QED  BY <2>1, <2>2, <2>3
<1>4. CASE i < Len(s)
  <2>1. i + 1 \in 1 .. Len(s)
    BY <1>4
  <2>2. QED  BY <2>1, <1>2, <1>3, <1>4
<1>5. CASE ~(i < Len(s))
  <2>1. i + 1 .. Len(s) = {}
    BY <1>5
  <2>2. QED  BY <2>1, <1>3, <1>5
<1>6. QED  BY <1>4, <1>5

\* Taking another timer off the list takes it out of the rest.
LEMMA FromRemove ==
  ASSUME NEW s \in Seq(Timer), IsInjective(s), NEW x, NEW e, e # x
  PROVE  From(RemoveFirst(s, e), x) = From(s, x) \ {e}
<1>1. CASE ~Contains(s, e)
  <2>1. RemoveFirst(s, e) = s
    BY <1>1 DEF RemoveFirst, Contains
  <2>2. \A j \in 1 .. Len(s) : s[j] # e
    BY <1>1 DEF Contains
  <2>3. e \notin From(s, x)
    BY <2>2 DEF From
  <2>4. QED  BY <2>1, <2>3
<1>2. CASE Contains(s, e)
  <2>1. PICK i \in 1 .. Len(s) : s[i] = e /\ RemoveFirst(s, e) = RemoveAt(s, i)
    BY <1>2, RemoveFirstIndex
  <2> DEFINE r == RemoveFirst(s, e)
  <2>2. /\ r \in Seq(Timer) /\ Len(r) = Len(s) - 1 /\ Len(s) \in Nat
        /\ \A j \in 1 .. Len(s) - 1 : r[j] = IF j < i THEN s[j] ELSE s[j + 1]
    <3>1. Len(s) \in Nat
      OBVIOUS
    <3>2. QED  BY <3>1, <2>1, RemoveAtProperties
  <2> HIDE DEF r
  <2>3. \A m, n \in 1 .. Len(s) : s[m] = s[n] => m = n
    BY DEF IsInjective
  <2>4. ASSUME NEW u \in From(r, x)
        PROVE  u \in From(s, x) \ {e}
    <3>1. PICK n \in 1 .. Len(r) : u = r[n] /\ \E j \in 1 .. n : r[j] = x
      BY <2>4 DEF From
    <3>2. PICK j \in 1 .. n : r[j] = x
      BY <3>1
    <3> DEFINE up(p) == IF p < i THEN p ELSE p + 1
    <3>3. up(n) \in 1 .. Len(s) /\ up(j) \in 1 .. up(n) /\ up(n) # i
      BY <2>2, <3>1, <3>2
    <3>4. s[up(n)] = u /\ s[up(j)] = x
      BY <2>2, <3>1, <3>2
    <3>5. u # e
      BY <3>3, <3>4, <2>1, <2>3
    <3> HIDE DEF up
    <3>6. QED  BY <3>3, <3>4, <3>5 DEF From
  <2>5. ASSUME NEW u \in From(s, x), u # e
        PROVE  u \in From(r, x)
    <3>1. PICK n \in 1 .. Len(s) : u = s[n] /\ \E j \in 1 .. n : s[j] = x
      BY <2>5 DEF From
    <3>2. PICK j \in 1 .. n : s[j] = x
      BY <3>1
    <3>3. n # i /\ j # i
      BY <3>1, <3>2, <2>1, <2>5
    <3> DEFINE down(p) == IF p < i THEN p ELSE p - 1
    <3>4. down(n) \in 1 .. Len(r) /\ down(j) \in 1 .. down(n)
      BY <2>2, <3>1, <3>2, <3>3
    <3>5. r[down(n)] = u /\ r[down(j)] = x
      BY <2>2, <3>1, <3>2, <3>3
    <3> HIDE DEF down
    <3>6. QED  BY <3>4, <3>5 DEF From
  <2>6. QED  BY <2>4, <2>5 DEF r
<1>3. QED  BY <1>1, <1>2

\* A timer on the list has a position, and Successor reads the next one.
LEMMA SuccessorIndex ==
  ASSUME TimerTypeOK, IsInjective(active_timers), NEW x, Contains(active_timers, x)
  PROVE  \E i \in 1 .. Len(active_timers) :
            /\ active_timers[i] = x
            /\ Successor(x) =
                IF i < Len(active_timers) THEN active_timers[i + 1] ELSE NoTimer
<1> DEFINE s == active_timers
           I == {j \in 1 .. Len(s) : s[j] = x}
<1>1. s \in Seq(Timer)
  BY DEF TimerTypeOK
<1>2. I # {} /\ I \in SUBSET Nat
  BY <1>1 DEF Contains
<1>3. Min(I) \in I
  <2> HIDE DEF I
  <2> QED  BY <1>2, MinExists
<1>4. SelectInSeq(s, LAMBDA y : y = x) = Min(I)
  BY <1>2 DEF SelectInSeq
<1>5. Successor(x) = IF Min(I) \in 1 .. Len(s) - 1 THEN s[Min(I) + 1] ELSE NoTimer
  BY <1>4 DEF Successor
<1> HIDE DEF I
<1>6. Min(I) \in 1 .. Len(s) /\ s[Min(I)] = x
  BY <1>3 DEF I
<1>7. Len(s) \in Nat
  BY <1>1
<1>8. Min(I) \in 1 .. Len(s) - 1 <=> Min(I) < Len(s)
  BY <1>6, <1>7
<1>9. QED  BY <1>5, <1>6, <1>8

\* Off the list or on it, a successor is a timer or none.
LEMMA SuccessorType ==
  ASSUME TimerTypeOK, NEW x
  PROVE  Successor(x) \in Timer \cup {NoTimer}
<1> DEFINE i == SelectInSeq(active_timers, LAMBDA y : y = x)
<1>1. Successor(x) = IF i \in 1 .. Len(active_timers) - 1 THEN active_timers[i + 1] ELSE NoTimer
  BY DEF Successor
<1> HIDE DEF i
<1>2. active_timers \in Seq(Timer) /\ Len(active_timers) \in Nat
  BY DEF TimerTypeOK
<1>3. ASSUME i \in 1 .. Len(active_timers) - 1 PROVE active_timers[i + 1] \in Timer
  <2>1. i + 1 \in 1 .. Len(active_timers)
    BY <1>2, <1>3
  <2>2. QED  BY <1>2, <2>1
<1>4. QED  BY <1>1, <1>3

\* The successor of a timer on the list is another timer on it, and the rest
\* from there is what is left when the timer is done.
LEMMA SuccessorRest ==
  ASSUME TimerTypeOK, IsInjective(active_timers), NEW x, Contains(active_timers, x)
  PROVE  /\ Successor(x) \in Timer \cup {NoTimer}
         /\ Successor(x) # NoTimer =>
                Successor(x) # x /\ Contains(active_timers, Successor(x))
         /\ From(active_timers, x) \ {x} =
                IF Successor(x) = NoTimer THEN {} ELSE From(active_timers, Successor(x))
<1> DEFINE s == active_timers
<1>1. s \in Seq(Timer) /\ Len(s) \in Nat
  BY DEF TimerTypeOK
<1>2. PICK i \in 1 .. Len(s) :
            s[i] = x /\ Successor(x) = IF i < Len(s) THEN s[i + 1] ELSE NoTimer
  BY SuccessorIndex
<1>3. From(s, x) \ {x} = IF i < Len(s) THEN From(s, s[i + 1]) ELSE {}
  BY <1>1, <1>2, FromNext
<1>4. CASE i < Len(s)
  <2>1. i + 1 \in 1 .. Len(s)
    BY <1>1, <1>4
  <2>2. s[i + 1] \in Timer /\ s[i + 1] # NoTimer
    BY <1>1, <2>1, TimerAssumption
  <2>3. s[i + 1] # x
    BY <1>1, <1>2, <2>1 DEF IsInjective
  <2>4. Contains(s, s[i + 1])
    BY <2>1 DEF Contains
  <2>5. QED  BY <1>2, <1>3, <1>4, <2>2, <2>3, <2>4
<1>5. CASE ~(i < Len(s))
  BY <1>2, <1>3, <1>5
<1>6. QED  BY <1>4, <1>5

-----------------------------------------------------------------------------
(* The services keep the invariant.                                        *)

\* What every step starts from.
Live == TimerTypeOK /\ ~fault /\ TimerCore

LEMMA LiveInv ==
  ASSUME TimerTypeOK', fault' => (severed \/ raced # {})', ~fault' => TimerCore'
  PROVE  TimerInv'
BY DEF TimerInv

\* Starting a timer, outside a walk or from a callback that may start timers.
LEMMA StartKeeps ==
  ASSUME Live, NEW x \in Timer, NEW n \in 1 .. MaxPeriod, start(x, n),
         alive[x] \/ x \in raced', raced \subseteq raced', raced' \subseteq Timer,
         call' \in [Caller -> {NoCall} \cup [op : CallOp, timer : Timer]],
         period_ticks' \in [Timer -> 1 .. MaxPeriod],
         UNCHANGED <<callbacks, alive, walk_vars, severed, fault>>,
         stage = "idle" \/ (stage = "callback" /\ callbacks # "end")
  PROVE  TimerInv'
<1> DEFINE r == RemoveFirst(active_timers, x)
<1>1. TimerTypeOK /\ ListInv /\ ~fault
  BY DEF Live, TimerCore
<1>2. /\ r \in Seq(Timer) /\ IsInjective(r)
      /\ \A u : Contains(r, u) <=> (Contains(active_timers, u) /\ u # x)
  BY <1>1, RemoveType, RemoveElements DEF TimerTypeOK, ListInv
<1>3. active_timers' = Append(r, x)
  BY DEF start
<1> HIDE DEF r
<1>4. /\ active_timers' \in Seq(Timer) /\ IsInjective(active_timers')
      /\ \A u : Contains(active_timers', u) <=> (Contains(active_timers, u) \/ u = x)
  BY <1>2, <1>3, AppendElements
<1>5. due[x]' = (now + n) % TickMod /\ due[x]' \in 0 .. TickMod - 1
  BY <1>1, TimerAssumption DEF TimerTypeOK, start
<1>6. TimerTypeOK'
  <2>1. remaining_ticks' \in [Timer -> 0 .. MaxPeriod]
    BY <1>1, TimerAssumption DEF TimerTypeOK, start
  <2>2. due' \in [Timer -> 0 .. TickMod - 1]
    BY <1>1, <1>5 DEF TimerTypeOK, start
  <2>3. is_active' \in [Timer -> BOOLEAN] /\ todo' \in SUBSET Timer
    BY <1>1 DEF TimerTypeOK, start
  <2>4. QED  BY <1>1, <1>4, <2>1, <2>2, <2>3 DEF TimerTypeOK, walk_vars
<1>7. ListInv'
  BY <1>1, <1>4 DEF TimerTypeOK, ListInv, start
<1>8. PointersInv'
  BY <1>1 DEF TimerTypeOK, Live, TimerCore, PointersInv, start, walk_vars
<1>9. TodoInv'
  BY DEF Live, TimerCore, TodoInv, Regular, start, walk_vars
<1>10. DueInv'
  <2> SUFFICES ASSUME Regular, NEW y \in Timer, is_active'[y]
               PROVE  OnTime(y)'
    BY DEF DueInv, Regular, walk_vars
  <2>1. CASE y = x
    <3>1. remaining_ticks'[y] = n /\ y \notin todo' /\ now' = now
      BY <1>1, <2>1 DEF TimerTypeOK, start, walk_vars
    <3>2. now + n - 0 = now + n
      BY <1>1 DEF TimerTypeOK
    <3>3. QED  BY <1>5, <2>1, <3>1, <3>2 DEF OnTime
  <2>2. CASE y # x
    <3>1. /\ is_active[y] /\ due'[y] = due[y] /\ remaining_ticks'[y] = remaining_ticks[y]
          /\ y \in todo' <=> y \in todo
          /\ now' = now
      BY <1>1, <2>2 DEF TimerTypeOK, start, walk_vars
    <3>2. OnTime(y)
      BY <3>1 DEF Live, TimerCore, DueInv
    <3>3. QED  BY <3>1, <3>2 DEF OnTime
  <2>3. QED  BY <2>1, <2>2
<1>11. CountInv'
  <2> SUFFICES ASSUME NEW y \in Timer, is_active'[y] PROVE remaining_ticks'[y] > 0
    BY DEF CountInv
  <2>1. CASE y = x
    BY <1>1, <2>1 DEF TimerTypeOK, start
  <2>2. CASE y # x
    BY <1>1, <2>2 DEF TimerTypeOK, Live, TimerCore, CountInv, start
  <2>3. QED  BY <2>1, <2>2
<1>12. QED  BY <1>1, <1>6, <1>7, <1>8, <1>9, <1>10, <1>11, LiveInv DEF TimerCore

\* Stopping or deleting a timer, outside a walk or from a callback.
LEMMA StopKeeps ==
  ASSUME Live, NEW x \in Timer, stop(x),
         alive' = alive \/ alive' = [alive EXCEPT ![x] = FALSE],
         call' \in [Caller -> {NoCall} \cup [op : CallOp, timer : Timer]],
         UNCHANGED <<callbacks, period_ticks, walk_vars, raced, fault>>,
         \/ stage = "idle" /\ UNCHANGED severed
         \/ stage = "callback" /\ severed' = (severed \/ x = next)
  PROVE  TimerInv'
<1>1. TimerTypeOK /\ ListInv /\ ~fault
  BY DEF Live, TimerCore
<1>2. /\ active_timers' = RemoveFirst(active_timers, x)
      /\ active_timers' \in Seq(Timer) /\ IsInjective(active_timers')
      /\ \A u : Contains(active_timers', u) <=> (Contains(active_timers, u) /\ u # x)
  BY <1>1, RemoveType, RemoveElements DEF TimerTypeOK, ListInv, stop
<1>3. TimerTypeOK'
  <2>1. severed' \in BOOLEAN
    BY <1>1 DEF TimerTypeOK
  <2>2. QED  BY <1>1, <1>2, <2>1 DEF TimerTypeOK, stop, walk_vars
<1>4. ListInv'
  BY <1>1, <1>2 DEF TimerTypeOK, ListInv, stop
<1>5. PointersInv'
  <2>1. \A y \in Timer : y # x => is_active'[y] = is_active[y]
    BY <1>1 DEF TimerTypeOK, stop
  <2>2. next \in Timer \cup {NoTimer}
    BY <1>1 DEF TimerTypeOK
  <2>3. QED  BY <2>1, <2>2 DEF Live, TimerCore, PointersInv, walk_vars
<1>6. TodoInv'
  <2> SUFFICES ASSUME Regular'
               PROVE  /\ stage = "idle" => todo' = {}
                      /\ stage = "callback" =>
                            todo' = IF next = NoTimer THEN {} ELSE From(active_timers', next)
    BY DEF TodoInv, walk_vars
  <2>1. Regular
    <3>1. ~severed' => ~severed
      BY <1>1 DEF TimerTypeOK
    <3>2. QED  BY <3>1 DEF Regular
  <2>2. CASE stage = "idle"
    BY <2>1, <2>2 DEF Live, TimerCore, TodoInv, stop
  <2>3. CASE stage = "callback" /\ next = NoTimer
    BY <2>1, <2>3 DEF Live, TimerCore, TodoInv, stop
  <2>4. CASE stage = "callback" /\ next # NoTimer
    <3>1. x # next
      BY <2>4 DEF Regular
    <3>2. From(active_timers', next) = From(active_timers, next) \ {x}
      BY <1>1, <1>2, <3>1, FromRemove DEF TimerTypeOK, ListInv
    <3>3. QED  BY <2>1, <2>4, <3>2 DEF Live, TimerCore, TodoInv, stop
  <2>5. QED  BY <2>2, <2>3, <2>4
<1>7. DueInv'
  <2> SUFFICES ASSUME Regular', NEW y \in Timer, is_active'[y]
               PROVE  OnTime(y)'
    BY DEF DueInv
  <2>1. /\ y # x /\ is_active[y]
        /\ due' = due /\ remaining_ticks' = remaining_ticks /\ now' = now
        /\ y \in todo' <=> y \in todo
    BY <1>1 DEF TimerTypeOK, stop, walk_vars
  <2>2. OnTime(y)
    BY <2>1 DEF Live, TimerCore, DueInv, Regular
  <2>3. QED  BY <2>1, <2>2 DEF OnTime
<1>8. CountInv'
  BY <1>1 DEF TimerTypeOK, Live, TimerCore, CountInv, stop
<1>9. QED  BY <1>1, <1>3, <1>4, <1>5, <1>6, <1>7, <1>8, LiveInv DEF TimerCore

\* Whatever leaves the list, the walk and what is due alone, and revives or
\* changes the countdown of stopped timers only.
LEMMA AsideKeeps ==
  ASSUME Live,
         UNCHANGED <<callbacks, active_timers, walk_vars, due, todo, severed, fault, is_active>>,
         TimerTypeOK',
         \A y \in Timer : is_active[y] /\ (alive[y] \/ y \in raced) => alive'[y] \/ y \in raced',
         \A y \in Timer : is_active[y] => remaining_ticks'[y] = remaining_ticks[y]
  PROVE  TimerInv'
<1>1. ListInv'
  BY DEF Live, TimerCore, ListInv
<1>2. PointersInv' /\ TodoInv'
  BY DEF Live, TimerCore, PointersInv, TodoInv, Regular, walk_vars
<1>3. DueInv' /\ CountInv'
  BY DEF Live, TimerCore, DueInv, CountInv, OnTime, Regular, walk_vars
<1>4. QED  BY <1>1, <1>2, <1>3, LiveInv DEF TimerCore, Live

LEMMA CreateKeeps ==
  ASSUME Live, NEW x \in Timer, NEW n \in 1 .. MaxPeriod, Create(x, n),
         UNCHANGED callbacks
  PROVE  TimerInv'
<1>1. TimerTypeOK /\ ListInv /\ ~fault
  BY DEF Live, TimerCore
<1>2. TimerTypeOK'
  <2>1. /\ alive' \in [Timer -> BOOLEAN] /\ is_active' \in [Timer -> BOOLEAN]
        /\ period_ticks' \in [Timer -> 1 .. MaxPeriod]
    BY <1>1 DEF Create, TimerTypeOK
  <2>2. remaining_ticks' \in [Timer -> 0 .. MaxPeriod]
    <3>1. remaining_ticks \in [Timer -> 0 .. MaxPeriod] /\ n \in 0 .. MaxPeriod
      BY <1>1, TimerAssumption DEF TimerTypeOK
    <3>2. QED  BY <3>1 DEF Create
  <2>3. raced' \subseteq Timer /\ fault' \in BOOLEAN
    BY <1>1 DEF Create, TimerTypeOK
  <2>4. QED  BY <1>1, <2>1, <2>2, <2>3 DEF Create, TimerTypeOK, walk_vars
<1>3. CASE Contains(active_timers, x)
  <2>1. fault' /\ x \in raced'
    BY <1>1, <1>3 DEF Create, ListInv
  <2>2. QED  BY <1>2, <2>1, LiveInv
<1>4. CASE ~Contains(active_timers, x)
  <2>1. ~is_active[x] /\ raced' = raced \ {x} /\ fault' = fault
    BY <1>1, <1>4 DEF Create, ListInv
  <2>2. is_active' = is_active
    BY <1>1, <2>1 DEF Create, TimerTypeOK
  <2>3. /\ \A y \in Timer : y # x => alive'[y] = alive[y]
        /\ \A y \in Timer : is_active[y] => remaining_ticks'[y] = remaining_ticks[y]
    BY <1>1, <2>1 DEF Create, TimerTypeOK
  <2>4. QED  BY <1>2, <2>1, <2>2, <2>3, AsideKeeps DEF Create
<1>5. QED  BY <1>3, <1>4

\* The steps of a call outside its critical section.
LEMMA OutsideKeeps ==
  ASSUME Live, NEW x \in Timer, NEW c \in Caller, UNCHANGED callbacks,
         \/ \E op \in EntryOp : Enter(c, x, op)
         \/ \E n \in 1 .. MaxPeriod : ChangePeriod(c, x, n)
         \/ ChangeRestart(c, x)
  PROVE  TimerInv'
<1>1. TimerTypeOK
  BY DEF Live
<1>2. /\ call' \in [Caller -> {NoCall} \cup [op : CallOp, timer : Timer]]
      /\ period_ticks' \in [Timer -> 1 .. MaxPeriod]
      /\ UNCHANGED <<list_vars, alive, walk_vars, due, todo, raced, severed, fault>>
  <2>1. CASE \E op \in EntryOp : Enter(c, x, op)
    BY <1>1, <2>1 DEF TimerTypeOK, Enter, CallOp
  <2>2. CASE \E n \in 1 .. MaxPeriod : ChangePeriod(c, x, n)
    <3>1. PICK n \in 1 .. MaxPeriod : ChangePeriod(c, x, n)
      BY <2>2
    <3>2. [call[c] EXCEPT !.op = "reset"] = [op |-> "reset", timer |-> x]
      BY <3>1 DEF ChangePeriod
    <3>3. call' = [call EXCEPT ![c] = [op |-> "reset", timer |-> x]]
      BY <3>1, <3>2 DEF ChangePeriod
    <3>4. QED  BY <1>1, <3>1, <3>3 DEF TimerTypeOK, ChangePeriod, CallOp
  <2>3. CASE ChangeRestart(c, x)
    BY <1>1, <2>3 DEF TimerTypeOK, ChangeRestart, CallOp, EntryOp
  <2>4. QED  BY <2>1, <2>2, <2>3
<1>3. TimerTypeOK'
  BY <1>1, <1>2 DEF TimerTypeOK, list_vars, walk_vars
<1>4. QED  BY <1>2, <1>3, AsideKeeps DEF list_vars

\* The critical sections of tasks.
LEMMA CallsKeep ==
  ASSUME Live, NEW x \in Timer, NEW c \in Caller, UNCHANGED callbacks,
         StartTimer(c, x) \/ StopTimer(c, x) \/ DeleteTimer(c, x)
  PROVE  TimerInv'
<1>1. TimerTypeOK
  BY DEF Live
<1>2. stage = "idle" /\ call' \in [Caller -> {NoCall} \cup [op : CallOp, timer : Timer]]
  BY <1>1 DEF TimerTypeOK, StartTimer, StopTimer, DeleteTimer, AtCall, AtTask
<1>3. CASE StartTimer(c, x)
  <2>1. /\ start(x, period_ticks[x]) /\ raced' = IF alive[x] THEN raced ELSE raced \cup {x}
        /\ UNCHANGED <<alive, period_ticks, walk_vars, severed, fault>>
    BY <1>3 DEF StartTimer
  <2>2. period_ticks[x] \in 1 .. MaxPeriod /\ raced \subseteq Timer
        /\ period_ticks' \in [Timer -> 1 .. MaxPeriod]
    BY <1>1, <2>1 DEF TimerTypeOK
  <2>3. raced \subseteq raced' /\ raced' \subseteq Timer /\ (alive[x] \/ x \in raced')
    BY <2>1, <2>2
  <2>4. QED  BY <1>2, <2>1, <2>2, <2>3, StartKeeps
<1>4. CASE StopTimer(c, x)
  BY <1>2, <1>4, StopKeeps DEF StopTimer
<1>5. CASE DeleteTimer(c, x)
  BY <1>2, <1>5, StopKeeps DEF DeleteTimer, delete
<1>6. QED  BY <1>3, <1>4, <1>5

\* The calls of callbacks.
LEMMA CallbacksKeep ==
  ASSUME Live, NEW x \in Timer, UNCHANGED callbacks,
         \/ \E n \in 1 .. MaxPeriod : CallbackStart(x, n)
         \/ CallbackStop(x) \/ CallbackDelete(x)
  PROVE  TimerInv'
<1>1. TimerTypeOK
  BY DEF Live
<1>2. CASE \E n \in 1 .. MaxPeriod : CallbackStart(x, n)
  <2>1. PICK n \in 1 .. MaxPeriod : CallbackStart(x, n)
    BY <1>2
  <2>2. /\ stage = "callback" /\ alive[x] /\ "start" \in CallbackCalls(callbacks)
        /\ period_ticks' = [period_ticks EXCEPT ![x] = n] /\ start(x, n)
        /\ UNCHANGED <<alive, call, walk_vars, raced, severed, fault>>
    BY <2>1 DEF CallbackStart, InCallback
  <2>3. callbacks # "end"
    BY <2>2 DEF CallbackCalls
  <2>4. /\ period_ticks' \in [Timer -> 1 .. MaxPeriod] /\ raced' \subseteq Timer
        /\ call' \in [Caller -> {NoCall} \cup [op : CallOp, timer : Timer]]
    BY <1>1, <2>2 DEF TimerTypeOK
  <2>5. QED  BY <2>2, <2>3, <2>4, StartKeeps
<1>3. CASE CallbackStop(x)
  <2>1. call' \in [Caller -> {NoCall} \cup [op : CallOp, timer : Timer]]
    BY <1>1, <1>3 DEF TimerTypeOK, CallbackStop
  <2>2. QED  BY <1>3, <2>1, StopKeeps DEF CallbackStop, InCallback
<1>4. CASE CallbackDelete(x)
  <2>1. call' \in [Caller -> {NoCall} \cup [op : CallOp, timer : Timer]]
    BY <1>1, <1>4 DEF TimerTypeOK, CallbackDelete
  <2>2. QED  BY <1>4, <2>1, StopKeeps DEF CallbackDelete, InCallback, delete
<1>5. QED  BY <1>2, <1>3, <1>4

-----------------------------------------------------------------------------
(* The walk keeps the invariant.                                           *)

\* The tick is counted: every active timer is a tick nearer and still to be
\* counted down.
LEMMA TickBeginKeeps ==
  ASSUME Live, TickBegin, UNCHANGED callbacks
  PROVE  TimerInv'
<1>1. TimerTypeOK /\ ListInv /\ ~fault
  BY DEF Live, TimerCore
<1>2. TickMod \in Nat \ {0} /\ now \in 0 .. TickMod - 1
  BY <1>1, TimerAssumption DEF TimerTypeOK
<1>3. now' = (now + 1) % TickMod /\ now' \in 0 .. TickMod - 1
  BY <1>2 DEF TickBegin
<1>4. UNCHANGED <<active_timers, is_active, remaining_ticks, alive, due, raced, severed, fault>>
  BY DEF TickBegin, list_vars
<1>5. ListInv' /\ CountInv'
  BY <1>1, <1>4 DEF Live, TimerCore, CountInv, ListInv
<1>6. CASE active_timers = <<>>
  <2>1. \A y \in Timer : ~is_active'[y]
    BY <1>1, <1>4, <1>6, HeadElement DEF ListInv, TimerTypeOK
  <2>2. TimerTypeOK'
    BY <1>1, <1>3, <1>6 DEF TimerTypeOK, TickBegin, list_vars
  <2>3. PointersInv' /\ TodoInv' /\ DueInv'
    BY <1>4, <1>6, <2>1 DEF Live, TimerCore, TickBegin, PointersInv, TodoInv, DueInv, Regular
  <2>4. QED  BY <1>1, <1>4, <1>5, <2>2, <2>3, LiveInv DEF TimerCore
<1>7. CASE active_timers # <<>>
  <2> DEFINE h == Head(active_timers)
  <2>1. stage' = "visit" /\ curr' = h /\ todo' = ToSet(active_timers) /\ next' = next
    BY <1>7 DEF TickBegin
  <2>2. h \in Timer /\ Contains(active_timers, h)
    BY <1>1, <1>7, HeadElement DEF TimerTypeOK
  <2>3. From(active_timers, h) = ToSet(active_timers)
    BY <1>1, <1>7, FromHead DEF TimerTypeOK
  <2> HIDE DEF h
  <2>4. \A y : y \in ToSet(active_timers) <=> Contains(active_timers, y)
    BY <1>1 DEF TimerTypeOK, ToSet, Contains
  <2>5. ToSet(active_timers) \subseteq Timer
    BY <1>1, <2>4, HeadElement DEF TimerTypeOK
  <2>6. TimerTypeOK'
    BY <1>1, <1>3, <2>1, <2>2, <2>5 DEF TimerTypeOK, TickBegin, list_vars
  <2>7. PointersInv'
    BY <1>1, <1>4, <2>1, <2>2 DEF PointersInv, ListInv
  <2>8. TodoInv'
    BY <1>4, <2>1, <2>3 DEF TodoInv
  <2>9. DueInv'
    <3> SUFFICES ASSUME Regular, NEW y \in Timer, is_active'[y]
                 PROVE  OnTime(y)'
      BY <1>4 DEF DueInv, Regular
    <3>1. is_active[y] /\ y \in todo' /\ y \notin todo
      BY <1>1, <1>4, <2>1, <2>4 DEF Live, TimerCore, TodoInv, ListInv, TickBegin
    <3>2. remaining_ticks[y] \in 1 .. TickMod - 1
      BY <1>1, <3>1, TimerAssumption DEF TimerTypeOK, Live, TimerCore, CountInv
    <3>3. due[y] = (now + remaining_ticks[y]) % TickMod
      <4>1. due[y] = (now + remaining_ticks[y] - 0) % TickMod
        BY <3>1 DEF Live, TimerCore, DueInv, OnTime
      <4>2. now + remaining_ticks[y] - 0 = now + remaining_ticks[y]
        BY <1>2, <3>2
      <4>3. QED  BY <4>1, <4>2
    <3>4. due[y] = (now' + remaining_ticks[y] - 1) % TickMod
      BY <1>2, <1>3, <3>2, <3>3, TickThenCount
    <3>5. QED  BY <1>4, <3>1, <3>4 DEF OnTime
  <2>10. QED  BY <1>1, <1>4, <1>5, <2>6, <2>7, <2>8, <2>9, LiveInv DEF TimerCore
<1>8. QED  BY <1>6, <1>7

\* The countdown of the timer goes on, and the walk goes to its successor.
LEMMA VisitCountsKeeps ==
  ASSUME Live, VisitCounts, UNCHANGED callbacks
  PROVE  TimerInv'
<1>1. TimerTypeOK /\ ListInv /\ ~fault
  BY DEF Live, TimerCore
<1>2. curr \in Timer /\ (~severed => is_active[curr] /\ Contains(active_timers, curr))
  BY <1>1 DEF Live, TimerCore, PointersInv, VisitCounts, ListInv
<1> DEFINE succ == Successor(curr)
<1>3. /\ succ \in Timer \cup {NoTimer}
      /\ ~severed =>
            /\ succ # NoTimer => Contains(active_timers, succ)
            /\ From(active_timers, curr) \ {curr} =
                  IF succ = NoTimer THEN {} ELSE From(active_timers, succ)
  BY <1>1, <1>2, SuccessorType, SuccessorRest DEF ListInv
<1>4. /\ curr' = succ /\ next' = NoTimer
      /\ stage' = IF succ = NoTimer THEN "idle" ELSE "visit"
      /\ todo' = todo \ {curr}
      /\ remaining_ticks[curr] > 1
      /\ remaining_ticks' = [remaining_ticks EXCEPT ![curr] = @ - 1]
      /\ UNCHANGED <<active_timers, is_active, alive, now, due, raced, severed, fault>>
  BY DEF VisitCounts, Advance
<1> HIDE DEF succ
<1>5. remaining_ticks'[curr] = remaining_ticks[curr] - 1 /\ remaining_ticks[curr] \in Nat
  BY <1>1, <1>2, <1>4 DEF TimerTypeOK
<1>6. TimerTypeOK'
  <2>1. remaining_ticks \in [Timer -> 0 .. MaxPeriod] /\ MaxPeriod \in Nat
    BY <1>1, TimerAssumption DEF TimerTypeOK
  <2>2. remaining_ticks[curr] - 1 \in 0 .. MaxPeriod
    BY <1>2, <1>4, <2>1
  <2>3. remaining_ticks' \in [Timer -> 0 .. MaxPeriod]
    BY <1>4, <2>1, <2>2
  <2>4. QED  BY <1>1, <1>3, <1>4, <2>3 DEF TimerTypeOK, VisitCounts
<1>7. ListInv'
  BY <1>1, <1>4 DEF ListInv
<1>8. PointersInv'
  BY <1>1, <1>3, <1>4 DEF PointersInv, ListInv
<1>9. TodoInv'
  BY <1>3, <1>4 DEF Live, TimerCore, TodoInv, Regular, VisitCounts
<1>10. CountInv'
  <2> SUFFICES ASSUME NEW y \in Timer, is_active'[y] PROVE remaining_ticks'[y] > 0
    BY DEF CountInv
  <2>1. CASE y = curr
    BY <1>4, <1>5, <2>1
  <2>2. CASE y # curr
    BY <1>1, <1>4, <2>2 DEF TimerTypeOK, Live, TimerCore, CountInv
  <2>3. QED  BY <2>1, <2>2
<1>11. DueInv'
  <2> SUFFICES ASSUME Regular, NEW y \in Timer, is_active'[y]
               PROVE  OnTime(y)'
    BY <1>4 DEF DueInv, Regular
  <2>1. OnTime(y)
    BY <1>4 DEF Live, TimerCore, DueInv
  <2>2. CASE y = curr
    <3>1. y \in todo /\ y \notin todo'
      BY <1>1, <1>2, <1>4, <2>2, FromSelf
         DEF Live, TimerCore, TodoInv, Regular, TimerTypeOK, VisitCounts
    <3>2. now + remaining_ticks[y] - 1 = now' + remaining_ticks'[y] - 0
      BY <1>1, <1>4, <1>5, <2>2 DEF TimerTypeOK
    <3>3. QED  BY <1>4, <2>1, <3>1, <3>2 DEF OnTime
  <2>3. CASE y # curr
    <3>1. remaining_ticks'[y] = remaining_ticks[y] /\ (y \in todo' <=> y \in todo)
      BY <1>1, <1>4, <2>3 DEF TimerTypeOK
    <3>2. QED  BY <1>4, <2>1, <3>1 DEF OnTime
  <2>4. QED  BY <2>2, <2>3
<1>12. QED  BY <1>1, <1>4, <1>6, <1>7, <1>8, <1>9, <1>10, <1>11, LiveInv DEF TimerCore

\* The timer expires; the walk keeps its successor across the callback.
LEMMA VisitExpiresKeeps ==
  ASSUME Live, VisitExpires, UNCHANGED callbacks
  PROVE  TimerInv'
<1>1. TimerTypeOK /\ ListInv /\ ~fault
  BY DEF Live, TimerCore
<1>2. curr \in Timer /\ (~severed => is_active[curr] /\ Contains(active_timers, curr))
  BY <1>1 DEF Live, TimerCore, PointersInv, VisitExpires, ListInv
<1>3. /\ next' \in Timer \cup {NoTimer}
      /\ ~severed =>
            /\ next' # NoTimer => next' # curr /\ Contains(active_timers, next')
            /\ From(active_timers, curr) \ {curr} =
                  IF next' = NoTimer THEN {} ELSE From(active_timers, next')
  BY <1>1, <1>2, SuccessorType, SuccessorRest DEF ListInv, VisitExpires
<1>4. /\ stage' = "callback" /\ todo' = todo \ {curr}
      /\ UNCHANGED <<alive, period_ticks, call, curr, now, raced, severed>>
  BY DEF VisitExpires
<1>5. Regular =>
        todo' = IF next' = NoTimer THEN {} ELSE From(active_timers, next')
  BY <1>3, <1>4 DEF Live, TimerCore, TodoInv, Regular, VisitExpires
<1>6. CASE curr \in Periodic
  <2>1. /\ remaining_ticks' = [remaining_ticks EXCEPT ![curr] = period_ticks[curr]]
        /\ due' = [due EXCEPT ![curr] = (now + period_ticks[curr]) % TickMod]
        /\ UNCHANGED <<active_timers, is_active, fault>>
    BY <1>6 DEF VisitExpires
  <2>2. /\ period_ticks[curr] \in 1 .. MaxPeriod
        /\ (now + period_ticks[curr]) % TickMod \in 0 .. TickMod - 1
    BY <1>1, <1>2, TimerAssumption DEF TimerTypeOK
  <2>3. TimerTypeOK'
    <3>1. remaining_ticks' \in [Timer -> 0 .. MaxPeriod]
      <4>1. remaining_ticks \in [Timer -> 0 .. MaxPeriod]
        BY <1>1 DEF TimerTypeOK
      <4>2. period_ticks[curr] \in 0 .. MaxPeriod
        BY <2>2
      <4>3. QED  BY <2>1, <4>1, <4>2
    <3>2. due' \in [Timer -> 0 .. TickMod - 1]
      BY <1>1, <2>1, <2>2 DEF TimerTypeOK
    <3>3. QED  BY <1>1, <1>3, <1>4, <2>1, <3>1, <3>2 DEF TimerTypeOK
  <2>4. ListInv'
    BY <1>1, <1>4, <2>1 DEF ListInv
  <2>5. PointersInv'
    BY <1>1, <1>2, <1>3, <1>4, <2>1, TimerAssumption DEF PointersInv, ListInv
  <2>6. TodoInv'
    BY <1>4, <1>5, <2>1 DEF TodoInv, Regular
  <2>7. ASSUME NEW y \in Timer, is_active'[y]
        PROVE  remaining_ticks'[y] > 0 /\ (Regular => OnTime(y)')
    <3>1. CASE y = curr
      <4>1. /\ remaining_ticks'[y] = period_ticks[curr] /\ y \notin todo'
            /\ due'[y] = (now + period_ticks[curr]) % TickMod
        BY <1>1, <1>4, <2>1, <3>1 DEF TimerTypeOK
      <4>2. now + period_ticks[curr] - 0 = now + period_ticks[curr]
        BY <1>1, <2>2 DEF TimerTypeOK
      <4>3. OnTime(y)'
        BY <1>4, <4>1, <4>2 DEF OnTime
      <4>4. QED  BY <2>2, <4>1, <4>3
    <3>2. CASE y # curr
      <4>1. /\ remaining_ticks'[y] = remaining_ticks[y] /\ due'[y] = due[y]
            /\ is_active[y] /\ (y \in todo' <=> y \in todo)
        BY <1>1, <1>4, <2>1, <2>7, <3>2 DEF TimerTypeOK
      <4>2. remaining_ticks[y] > 0 /\ (Regular => OnTime(y))
        BY <4>1 DEF Live, TimerCore, CountInv, DueInv
      <4>3. QED  BY <1>4, <4>1, <4>2 DEF OnTime
    <3>3. QED  BY <3>1, <3>2
  <2>8. DueInv' /\ CountInv'
    BY <1>4, <2>7 DEF CountInv, DueInv, Regular
  <2>9. QED  BY <1>1, <2>1, <2>3, <2>4, <2>5, <2>6, <2>8, LiveInv DEF TimerCore
<1>7. CASE curr \notin Periodic
  <2>1. /\ remaining_ticks' = [remaining_ticks EXCEPT ![curr] = 0]
        /\ active_timers' = RemoveFirst(active_timers, curr)
        /\ is_active' = [is_active EXCEPT ![curr] = FALSE]
        /\ fault' = ~Contains(active_timers, curr) /\ due' = due
    BY <1>7 DEF VisitExpires
  <2>2. /\ active_timers' \in Seq(Timer) /\ IsInjective(active_timers')
        /\ \A u : Contains(active_timers', u) <=> (Contains(active_timers, u) /\ u # curr)
    BY <1>1, <2>1, RemoveType, RemoveElements DEF TimerTypeOK, ListInv
  <2>3. TimerTypeOK'
    <3>1. remaining_ticks' \in [Timer -> 0 .. MaxPeriod]
      <4>1. remaining_ticks \in [Timer -> 0 .. MaxPeriod]
        BY <1>1 DEF TimerTypeOK
      <4>2. 0 \in 0 .. MaxPeriod
        BY TimerAssumption
      <4>3. QED  BY <2>1, <4>1, <4>2
    <3>2. is_active' \in [Timer -> BOOLEAN] /\ fault' \in BOOLEAN
      BY <1>1, <2>1 DEF TimerTypeOK
    <3>3. QED  BY <1>1, <1>3, <1>4, <2>1, <2>2, <3>1, <3>2 DEF TimerTypeOK
  <2>4. ListInv'
    BY <1>1, <1>4, <2>1, <2>2 DEF ListInv, TimerTypeOK
  <2>5. PointersInv'
    <3>1. ~severed /\ next' # NoTimer => next' # curr /\ is_active'[next']
      BY <1>1, <1>3, <2>1 DEF ListInv, TimerTypeOK
    <3>2. QED  BY <1>2, <1>4, <3>1 DEF PointersInv
  <2>6. TodoInv'
    <3> SUFFICES ASSUME Regular
                 PROVE  todo' = IF next' = NoTimer THEN {} ELSE From(active_timers', next')
      BY <1>4 DEF TodoInv, Regular
    <3>1. CASE next' = NoTimer
      BY <1>5, <3>1
    <3>2. CASE next' # NoTimer
      <4>1. From(active_timers', next') = From(active_timers, next') \ {curr}
        BY <1>1, <1>3, <2>1, <3>2, FromRemove DEF TimerTypeOK, ListInv, Regular
      <4>2. todo' = todo' \ {curr}
        BY <1>4
      <4>3. QED  BY <1>5, <3>2, <4>1, <4>2
    <3>3. QED  BY <3>1, <3>2
  <2>7. ASSUME NEW y \in Timer, is_active'[y]
        PROVE  remaining_ticks'[y] > 0 /\ (Regular => OnTime(y)')
    <3>1. /\ remaining_ticks'[y] = remaining_ticks[y] /\ due'[y] = due[y]
          /\ is_active[y] /\ (y \in todo' <=> y \in todo)
      BY <1>1, <1>4, <2>1, <2>7 DEF TimerTypeOK
    <3>2. remaining_ticks[y] > 0 /\ (Regular => OnTime(y))
      BY <3>1 DEF Live, TimerCore, CountInv, DueInv
    <3>3. QED  BY <1>4, <3>1, <3>2 DEF OnTime
  <2>8. DueInv' /\ CountInv'
    BY <1>4, <2>7 DEF CountInv, DueInv, Regular
  <2>9. fault' => severed'
    BY <1>2, <1>4, <2>1
  <2>10. QED  BY <2>3, <2>4, <2>5, <2>6, <2>8, <2>9, LiveInv DEF TimerCore
<1>8. QED  BY <1>6, <1>7

\* The walk goes on where the callback left it.
LEMMA CallbackReturnKeeps ==
  ASSUME Live, CallbackReturn, UNCHANGED callbacks
  PROVE  TimerInv'
<1>1. TimerTypeOK /\ ListInv /\ ~fault
  BY DEF Live, TimerCore
<1>2. /\ next # NoTimer => next \in Timer
      /\ ~severed /\ next # NoTimer => is_active[next]
  BY <1>1 DEF Live, TimerCore, PointersInv, CallbackReturn, TimerTypeOK
<1>3. /\ curr' = next /\ next' = NoTimer
      /\ stage' = IF next = NoTimer THEN "idle" ELSE "visit"
      /\ UNCHANGED <<active_timers, is_active, remaining_ticks, alive, now, due, todo, raced,
                     severed>>
  BY DEF CallbackReturn, Advance, list_vars
<1>4. TimerTypeOK'
  BY <1>1, <1>3 DEF TimerTypeOK, CallbackReturn
<1>5. ListInv' /\ CountInv'
  BY <1>1, <1>3 DEF Live, TimerCore, ListInv, CountInv
<1>6. PointersInv'
  BY <1>2, <1>3 DEF PointersInv
<1>7. TodoInv'
  BY <1>3 DEF Live, TimerCore, TodoInv, Regular, CallbackReturn
<1>8. DueInv'
  BY <1>3 DEF Live, TimerCore, DueInv, OnTime, Regular
<1>9. fault' => severed'
  <2> SUFFICES ASSUME ~severed PROVE ~fault'
    BY <1>3
  <2>1. next # NoTimer => alive[next] \/ next \in raced
    BY <1>1, <1>2 DEF ListInv
  <2>2. QED  BY <2>1 DEF CallbackReturn
<1>10. QED  BY <1>4, <1>5, <1>6, <1>7, <1>8, <1>9, LiveInv DEF TimerCore

-----------------------------------------------------------------------------
(* The theorems.                                                           *)

LEMMA InitHolds ==
  ASSUME TimerInit
  PROVE  TimerInv
<1> USE DEF TimerInit
<1>1. TickMod \in Nat \ {0} /\ 0 \in 0 .. TickMod - 1 /\ 1 \in 1 .. MaxPeriod
      /\ 1 \in 0 .. MaxPeriod
  BY TimerAssumption
<1>2. TimerTypeOK
  <2>1. /\ period_ticks \in [Timer -> 1 .. MaxPeriod]
        /\ remaining_ticks \in [Timer -> 0 .. MaxPeriod]
        /\ due \in [Timer -> 0 .. TickMod - 1]
    BY <1>1
  <2>2. alive \in [Timer -> BOOLEAN] /\ is_active \in [Timer -> BOOLEAN]
    OBVIOUS
  <2>3. active_timers \in Seq(Timer)
    OBVIOUS
  <2>4. QED  BY <1>1, <2>1, <2>2, <2>3 DEF TimerTypeOK
<1>3. ListInv
  <2>1. IsInjective(active_timers)
    BY DEF IsInjective
  <2>2. \A x \in Timer : ~Contains(active_timers, x)
    BY DEF Contains
  <2>3. QED  BY <2>1, <2>2 DEF ListInv
<1>4. PointersInv /\ TodoInv /\ DueInv /\ CountInv
  BY DEF PointersInv, TodoInv, DueInv, CountInv
<1>5. QED  BY <1>2, <1>3, <1>4 DEF TimerInv, TimerCore

\* No step is taken after a misuse.
LEMMA StepLive ==
  ASSUME TimerInv, TimerNext
  PROVE  Live
<1>1. ~fault
  BY DEF TimerNext, TickStep, TickBegin, VisitCounts, VisitExpires, CallbackReturn, Create,
         CallbackStart, CallbackStop, CallbackDelete, InCallback, Enter, StartTimer, StopTimer,
         DeleteTimer, AtCall, ChangePeriod, ChangeRestart, AtTask
<1>2. QED  BY <1>1 DEF TimerInv, Live

LEMMA NextKeeps ==
  ASSUME TimerInv, [TimerNext]_tvars
  PROVE  TimerInv'
<1>1. CASE UNCHANGED tvars
  <2>1. TimerTypeOK' /\ ListInv' = ListInv /\ PointersInv' = PointersInv
    BY <1>1 DEF tvars, list_vars, walk_vars, TimerInv, TimerTypeOK, ListInv, PointersInv
  <2>2. TodoInv' = TodoInv /\ DueInv' = DueInv /\ CountInv' = CountInv
    BY <1>1 DEF tvars, list_vars, walk_vars, TodoInv, DueInv, CountInv, OnTime, Regular
  <2>3. UNCHANGED <<fault, severed, raced>>
    BY <1>1 DEF tvars
  <2>4. QED  BY <2>1, <2>2, <2>3 DEF TimerInv, TimerCore
<1>2. CASE TimerNext
  <2>1. UNCHANGED callbacks /\ Live
    BY <1>2, StepLive DEF TimerNext
  <2>2. CASE TickStep
    BY <2>1, <2>2, TickBeginKeeps, VisitCountsKeeps, VisitExpiresKeeps, CallbackReturnKeeps
       DEF TickStep
  <2>3. ASSUME NEW x \in Timer, NEW n \in 1 .. MaxPeriod, Create(x, n)
        PROVE  TimerInv'
    BY <2>1, <2>3, CreateKeeps
  <2>4. ASSUME NEW x \in Timer,
               \/ \E n \in 1 .. MaxPeriod : CallbackStart(x, n)
               \/ CallbackStop(x) \/ CallbackDelete(x)
        PROVE  TimerInv'
    BY <2>1, <2>4, CallbacksKeep
  <2>5. ASSUME NEW x \in Timer, NEW c \in Caller,
               \/ \E op \in EntryOp : Enter(c, x, op)
               \/ \E n \in 1 .. MaxPeriod : ChangePeriod(c, x, n)
               \/ ChangeRestart(c, x)
        PROVE  TimerInv'
    BY <2>1, <2>5, OutsideKeeps
  <2>6. ASSUME NEW x \in Timer, NEW c \in Caller,
               StartTimer(c, x) \/ StopTimer(c, x) \/ DeleteTimer(c, x)
        PROVE  TimerInv'
    BY <2>1, <2>6, CallsKeep
  <2>7. QED  BY <1>2, <2>2, <2>3, <2>4, <2>5, <2>6 DEF TimerNext
<1>3. QED  BY <1>1, <1>2

\* The invariant of the timers.
LEMMA TimerSafe == TimerSpec => []TimerInv
<1>1. TimerInit /\ [][TimerNext]_tvars => []TimerInv
  BY InitHolds, NextKeeps, PTL
<1>2. QED  BY <1>1, PTL DEF TimerSpec

\* The state of the timers keeps its types: whatever is started, changed and
\* deleted, periods and countdowns stay in the range the services accept.
THEOREM TimerTypesOK == TimerSpec => []TimerTypeOK
<1>1. TimerInv => TimerTypeOK
  BY DEF TimerInv
<1>2. QED  BY <1>1, TimerSafe, PTL

\* The list holds the active timers, each once, whatever tasks and callbacks
\* start, stop, reset and delete, in whatever order; a deleted timer is on it
\* only if a call that had passed its magic test before the deletion started it
\* afterwards; and the list is not misused unless that happened, or a callback
\* stopped or deleted the timer the walk had saved as its next one.
THEOREM TimersListed == TimerSpec => []TimerListed
<1>1. TimerInv => TimerListed
  BY DEF TimerInv, TimerCore, ListInv, TimerListed
<1>2. QED  BY <1>1, TimerSafe, PTL

\* The walk visits active timers only, as long as no callback stops or deletes
\* the timer the walk has saved as its next one; and none twice as long as
\* callbacks start no timer either.
THEOREM WalkSafe == TimerSpec => []WalkVisits
<1>1. TimerInv => WalkVisits
  <2> SUFFICES ASSUME TimerInv, stage = "visit", ~severed, ~fault
               PROVE  is_active[curr] /\ (callbacks = "end" => curr \in todo)
    BY DEF WalkVisits
  <2>1. TimerTypeOK /\ ListInv /\ PointersInv /\ TodoInv
    BY DEF TimerInv, TimerCore
  <2>2. curr \in Timer /\ is_active[curr] /\ Contains(active_timers, curr)
    BY <2>1 DEF PointersInv, ListInv
  <2>3. QED  BY <2>1, <2>2, FromSelf DEF TodoInv, Regular, TimerTypeOK
<1>2. QED  BY <1>1, TimerSafe, PTL

\* A timer expires period ticks after it was started, reset or last expired,
\* across the wrap-around of the tick counter, as long as callbacks start no
\* timer and do not end the one the walk comes to next: the tick count and the
\* countdown add up to the tick it is due at.
THEOREM TimersOnTime == TimerSpec => []TimerDeadline
<1>1. TimerInv => TimerDeadline
  BY DEF TimerInv, TimerCore, TodoInv, DueInv, OnTime, Regular, TimerDeadline
<1>2. QED  BY <1>1, TimerSafe, PTL
=============================================================================
