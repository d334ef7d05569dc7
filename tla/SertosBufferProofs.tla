------------------------- MODULE SertosBufferProofs -------------------------
(***************************************************************************)
(* Message queues and stream buffers, for every size, every number of      *)
(* tasks and every kind of data.  That the object is a bounded FIFO rests  *)
(* on the types of its variables alone.  That its waiters are woken, and   *)
(* that the scheduler below stays in order, rests on SchedInv and on what  *)
(* ties the call of a task to its wait list and its program counter.       *)
(***************************************************************************)
EXTENDS SertosBuffers, SertosSafetyProofs

-----------------------------------------------------------------------------
(* Sizes.                                                                  *)

\* The doubling of next_power_of_two, from n up.
Doubles(p, value, n) == p[n] = IF n < value THEN p[2 * n] ELSE n

\* There is a function that next_power_of_two may be read from: it is built
\* from the values above value downwards.
LEMMA DoublingExists ==
  ASSUME NEW value \in Nat \ {0}
  PROVE  \E p : p = [n \in Nat |-> IF n < value THEN p[2 * n] ELSE n]
<1> DEFINE P(b) == \E g \in [Nat -> Nat] : \A n \in Nat : n >= b => Doubles(g, value, n)
           S == {b \in 1 .. value : P(b)}
<1>1. P(value)
  <2> DEFINE id == [n \in Nat |-> n]
  <2>1. id \in [Nat -> Nat] /\ \A n \in Nat : n >= value => Doubles(id, value, n)
    BY DEF Doubles
  <2>2. QED  BY <2>1
<1>2. ASSUME NEW b \in Nat, b >= 1, P(b + 1) PROVE P(b)
  <2>1. PICK g \in [Nat -> Nat] : \A n \in Nat : n >= b + 1 => Doubles(g, value, n)
    BY <1>2
  <2> DEFINE h == [g EXCEPT ![b] = IF b < value THEN g[2 * b] ELSE b]
  <2>2. h \in [Nat -> Nat]
    OBVIOUS
  <2>3. ASSUME NEW n \in Nat, n >= b PROVE Doubles(h, value, n)
    <3>1. CASE n = b
      BY <1>2, <3>1 DEF Doubles
    <3>2. CASE n # b
      <4>1. h[n] = g[n] /\ h[2 * n] = g[2 * n] /\ n >= b + 1
        BY <1>2, <2>3, <3>2
      <4>2. QED  BY <2>1, <4>1 DEF Doubles
    <3>3. QED  BY <3>1, <3>2
  <2> HIDE DEF h
  <2>4. QED  BY <2>2, <2>3
<1>3. S \in SUBSET Nat /\ S # {}
  <2>1. value \in 1 .. value
    OBVIOUS
  <2> HIDE DEF P
  <2>2. QED  BY <1>1, <2>1
<1>4. Min(S) \in S /\ \A x \in S : Min(S) <= x
  BY <1>3, MinExists
<1>5. ASSUME NEW m \in S, \A x \in S : m <= x PROVE m = 1
  <2>1. m \in 1 .. value /\ P(m)
    BY <1>5
  <2>2. ASSUME m # 1 PROVE FALSE
    <3>1. m - 1 \in Nat /\ m - 1 >= 1 /\ m - 1 \in 1 .. value /\ (m - 1) + 1 = m
      BY <2>1, <2>2
    <3> HIDE DEF P
    <3>2. P(m - 1)
      BY <1>2, <2>1, <3>1
    <3>3. m <= m - 1
      BY <1>5, <3>1, <3>2
    <3>4. QED  BY <3>1, <3>3
  <2>3. QED  BY <2>2
<1>6. P(1)
  <2>1. 1 \in S
    BY <1>4, <1>5
  <2>2. QED  BY <2>1
<1>7. PICK g \in [Nat -> Nat] : \A n \in Nat : n >= 1 => Doubles(g, value, n)
  BY <1>6
<1>8. \A n \in Nat : Doubles(g, value, n)
  BY <1>7 DEF Doubles
<1>9. g = [n \in Nat |-> IF n < value THEN g[2 * n] ELSE n]
  BY <1>8 DEF Doubles
<1>10. QED  BY <1>9

\* The size is never below what was asked for.
LEMMA PowerLargeEnough ==
  ASSUME NEW value \in Nat \ {0}
  PROVE  next_power_of_two(value) \in Nat /\ next_power_of_two(value) >= value
<1> DEFINE p == CHOOSE p : p = [n \in Nat |-> IF n < value THEN p[2 * n] ELSE n]
<1>1. p = [n \in Nat |-> IF n < value THEN p[2 * n] ELSE n]
  BY DoublingExists
<1>2. next_power_of_two(value) = p[2]
  BY DEF next_power_of_two
<1> HIDE DEF p
<1>3. \A n \in Nat : p[n] = IF n < value THEN p[2 * n] ELSE n
  BY <1>1
<1> DEFINE Q(b) == \A n \in Nat : n >= b => p[n] \in Nat /\ p[n] >= value
           S == {b \in 1 .. value : Q(b)}
<1>4. Q(value)
  BY <1>3
<1>5. S \in SUBSET Nat /\ S # {}
  <2>1. value \in 1 .. value
    OBVIOUS
  <2> HIDE DEF Q
  <2>2. QED  BY <1>4, <2>1
<1>6. Min(S) \in S /\ \A x \in S : Min(S) <= x
  BY <1>5, MinExists
<1>7. ASSUME NEW m \in S, \A x \in S : m <= x PROVE m = 1
  <2>1. m \in 1 .. value /\ Q(m)
    BY <1>7
  <2>2. ASSUME m # 1 PROVE FALSE
    <3>1. m - 1 \in Nat /\ m - 1 \in 1 .. value /\ 2 * (m - 1) \in Nat /\ 2 * (m - 1) >= m
      BY <2>1, <2>2
    <3>2. p[m - 1] = p[2 * (m - 1)]
      BY <1>3, <2>1, <3>1
    <3>3. p[m - 1] \in Nat /\ p[m - 1] >= value
      BY <2>1, <3>1, <3>2
    <3>4. Q(m - 1)
      BY <2>1, <3>1, <3>3
    <3>5. m <= m - 1
      BY <1>7, <3>1, <3>4
    <3>6. QED  BY <3>1, <3>5
  <2>3. QED  BY <2>2
<1>8. Q(1)
  <2>1. 1 \in S
    BY <1>6, <1>7
  <2>2. QED  BY <2>1
<1>9. QED  BY <1>2, <1>8

\* A buffer holds what its creator asked for, so at least one item or byte.
LEMMA CapacityType ==
  /\ QueueCapacity \in Nat \ {0} /\ StreamCapacity \in Nat \ {0}
  /\ Capacity \in Nat \ {0}
<1>1. /\ ItemSize \in Nat \ {0} /\ MaxItems \in Nat \ {0} /\ BufferSize \in Nat \ {0}
  BY BufferAssumption
<1>2. StreamCapacity \in Nat \ {0}
  BY <1>1, PowerLargeEnough DEF StreamCapacity, ring_buffer_capacity
<1>3. QueueCapacity \in Nat \ {0}
  <2> DEFINE m == ItemSize * MaxItems
             x == next_power_of_two(m + 1) - 1
  <2>1. m \in Nat /\ m >= ItemSize
    BY <1>1
  <2> HIDE DEF m
  <2>2. x \in Nat /\ x >= ItemSize
    BY <1>1, <2>1, PowerLargeEnough
  <2>3. QueueCapacity = x \div ItemSize
    BY DEF QueueCapacity, ring_buffer_capacity, m
  <2> HIDE DEF x
  <2>4. x \div ItemSize \in Nat \ {0}
    BY <1>1, <2>2
  <2>5. QED  BY <2>3, <2>4
<1>4. QED  BY <1>2, <1>3 DEF Capacity

-----------------------------------------------------------------------------
(* The buffer is a bounded FIFO.                                           *)

\* A task is before the critical section of its call or past it, not both; and
\* a stream buffer has one writer and one reader.
CallTypes ==
    /\ entry \in [Task -> {NoCall} \cup SendCall \cup RecvCall \cup ControlCall]
    /\ call \in [Task -> {NoCall} \cup SendCall \cup RecvCall]
    /\ \A t \in Task : entry[t] = NoCall \/ call[t] = NoCall
    /\ kind = "stream" =>
           \A t \in Task : /\ entry[t].op # "peek"
                           /\ entry[t].op = "send" => t = Writer
                           /\ entry[t].op = "receive" => t = Reader

BufferTypes ==
    /\ kind \in Kinds
    /\ data \in Seq(Datum) /\ Len(data) <= Capacity
    /\ trigger \in 1 .. Capacity
    /\ alive \in BOOLEAN
    /\ CallTypes
    /\ answer \in [to : Task \cup {None}, bytes : Seq(Datum)]
    /\ excused \in BOOLEAN

\* The requests of the abstract buffer.
asked == [t \in Task |-> IF entry[t] # NoCall THEN entry[t] ELSE call[t]]
pending == {t \in Task : call[t] # NoCall}

\* What a step must be on the abstract buffer.
FifoStep == Abstract!FNext \/ UNCHANGED Abstract!fvars

LEMMA LengthsFacts ==
  /\ Lengths \in SUBSET (Nat \ {0}) /\ (kind = "queue" => Lengths = {1})
  /\ Lengths \subseteq {1} \cup StreamLengths
BY BufferAssumption DEF Lengths

\* The arguments of a call.
LEMMA CallFacts ==
  ASSUME NEW c \in SendCall \cup RecvCall
  PROVE  /\ c # NoCall /\ c.timeout \in 0 .. Forever /\ c.op \in {"send", "receive", "peek"}
         /\ c.op = "send" => /\ c.bytes \in Seq(Datum) /\ Len(c.bytes) \in Nat \ {0}
                             /\ kind = "queue" => Len(c.bytes) = 1
         /\ c.op # "send" => c.max \in Nat \ {0} /\ (kind = "queue" => c.max = 1)
         /\ c \in AnyCall
<1>1. CASE c \in SendCall
  <2>1. PICK n \in Lengths : c.bytes \in [1 .. n -> Datum]
    BY <1>1 DEF SendCall, Sends
  <2>2. n \in Nat \ {0} /\ (kind = "queue" => n = 1)
    BY LengthsFacts
  <2>3. c.bytes \in Seq(Datum) /\ Len(c.bytes) = n
    BY <2>1, <2>2
  <2>4. c.op = "send" /\ c.timeout \in 0 .. Forever
    BY <1>1 DEF SendCall, Sends
  <2>5. c \in AnyCall
    <3>1. UNION {[1 .. m -> Datum] : m \in Lengths}
            \subseteq UNION {[1 .. m -> Datum] : m \in {1} \cup StreamLengths}
      BY LengthsFacts
    <3>2. c \in Sends({1} \cup StreamLengths)
      BY <1>1, <3>1 DEF SendCall, Sends
    <3>3. QED  BY <3>2 DEF AnyCall
  <2>6. QED  BY <2>2, <2>3, <2>4, <2>5 DEF NoCall, Control
<1>2. CASE c \in RecvCall
  <2>1. c.op \in {"receive", "peek"} /\ c.timeout \in 0 .. Forever /\ c.max \in Lengths
    BY <1>2 DEF RecvCall, Receives
  <2>2. c.op # "send" /\ c # NoCall
    BY <2>1 DEF NoCall, Control
  <2>3. c.max \in Nat \ {0} /\ (kind = "queue" => c.max = 1)
    BY <2>1, LengthsFacts
  <2>4. c \in AnyCall
    BY <1>2, LengthsFacts DEF RecvCall, Receives, AnyCall
  <2>5. QED  BY <2>1, <2>2, <2>3, <2>4
<1>3. QED  BY <1>1, <1>2

LEMMA ControlFacts ==
  ASSUME NEW c \in ControlCall
  PROVE  /\ c.op \in {"reset", "set_trigger_level", "delete"} /\ c # NoCall
         /\ c \in AnyCall
BY DEF ControlCall, Control, NoCall, AnyCall

LEMMA CallsOfFacts ==
  ASSUME BufferTypes, NEW t \in Task, NEW c \in CallsOf(t)
  PROVE  /\ c # NoCall /\ asked[t] = c /\ c \in SendCall \cup RecvCall \cup ControlCall
         /\ c.op \in {"send", "receive", "peek"} => c \in SendCall \cup RecvCall
         /\ call[t] # NoCall => call[t] = c
         /\ entry[t] = c \/ call[t] = c
<1>1. /\ call[t] \in {NoCall} \cup SendCall \cup RecvCall
      /\ entry[t] \in {NoCall} \cup SendCall \cup RecvCall \cup ControlCall
      /\ entry[t] = NoCall \/ call[t] = NoCall
  BY DEF BufferTypes, CallTypes
<1>2. c # NoCall /\ (entry[t] = c \/ call[t] = c)
  BY DEF CallsOf
<1>3. c \in SendCall \cup RecvCall \cup ControlCall /\ (call[t] # NoCall => call[t] = c)
  BY <1>1, <1>2
<1>4. asked[t] = c
  BY <1>1, <1>2 DEF asked
<1>5. QED  BY <1>2, <1>3, <1>4, ControlFacts

\* What is sent goes to the end.
LEMMA PutFacts ==
  ASSUME NEW q \in Seq(Datum), NEW s \in Seq(Datum)
  PROVE  q \o s \in Seq(Datum) /\ Len(q \o s) = Len(q) + Len(s)
OBVIOUS

\* What is received comes from the front.
LEMMA TakeFacts ==
  ASSUME NEW q \in Seq(Datum), NEW n \in 0 .. Len(q)
  PROVE  /\ SubSeq(q, n + 1, Len(q)) \in Seq(Datum)
         /\ Len(SubSeq(q, n + 1, Len(q))) = Len(q) - n
         /\ SubSeq(q, 1, n) \in Seq(Datum) /\ Len(SubSeq(q, 1, n)) = n
<1>1. Len(q) \in Nat /\ n \in Nat /\ n <= Len(q)
  OBVIOUS
<1>2. QED  BY <1>1

LEMMA MinPair ==
  ASSUME NEW x \in Nat, NEW y \in Nat
  PROVE  /\ Min({x, y}) \in {x, y} /\ Min({x, y}) <= x /\ Min({x, y}) <= y
         /\ Min({x, y}) \in Nat /\ Min({x, y}) \in 0 .. x
         /\ x # 0 /\ y # 0 => Min({x, y}) >= 1
<1>1. Min({x, y}) \in {x, y} /\ Min({x, y}) <= x /\ Min({x, y}) <= y
  BY MinExists
<1>2. QED  BY <1>1

\* The abstract buffer's notion of a minimum.
LEMMA SameMin ==
  ASSUME NEW S
  PROVE  Abstract!Min(S) = Min(S)
BY DEF Min, Abstract!Min

\* The buffer's own part of what its types say.
LEMMA BufferFacts ==
  ASSUME BufferTypes
  PROVE  /\ data \in Seq(Datum) /\ Len(data) \in Nat /\ Capacity \in Nat \ {0}
         /\ free \in Nat /\ Len(data) + free = Capacity
         /\ data # <<>> => Len(data) >= 1
         /\ data = <<>> => Len(data) = 0
         /\ trigger \in 1 .. Capacity
<1>1. data \in Seq(Datum) /\ Len(data) <= Capacity /\ trigger \in 1 .. Capacity
  BY DEF BufferTypes
<1>2. Len(data) \in Nat /\ Capacity \in Nat \ {0}
  BY <1>1, CapacityType
<1>3. free \in Nat /\ Len(data) + free = Capacity
  BY <1>1, <1>2 DEF free
<1>4. data # <<>> => Len(data) >= 1
  BY <1>1
<1>5. QED  BY <1>1, <1>2, <1>3, <1>4

\* What the step may change is all that matters for the types.
LEMMA TypesKept ==
  ASSUME BufferTypes, kind' = kind, data' \in Seq(Datum), Len(data') <= Capacity,
         trigger' = trigger \/ (trigger' \in 1 .. StreamCapacity /\ kind = "stream"),
         alive' \in BOOLEAN, excused' \in BOOLEAN, CallTypes',
         answer' \in [to : Task \cup {None}, bytes : Seq(Datum)]
  PROVE  BufferTypes'
<1>1. Capacity' = Capacity
  BY DEF Capacity
<1>2. trigger' \in 1 .. Capacity
  BY CapacityType DEF BufferTypes, Capacity
<1>3. QED  BY <1>1, <1>2 DEF BufferTypes

\* The call of t is over: so is its request.
LEMMA EndRequest ==
  ASSUME BufferTypes, kind' = kind, NEW t \in Task, CallsOf(t) # {},
         entry' = [entry EXCEPT ![t] = NoCall], call' = [call EXCEPT ![t] = NoCall]
  PROVE  CallTypes' /\ Abstract!End(t)
<1>1. /\ SendCall' = SendCall /\ RecvCall' = RecvCall /\ Capacity' = Capacity
      /\ ControlCall' = ControlCall
  BY DEF SendCall, RecvCall, Lengths, Capacity, ControlCall
<1>2. CallTypes
  BY DEF BufferTypes
<1>3. /\ entry'[t] = NoCall /\ call'[t] = NoCall
      /\ \A u \in Task \ {t} : entry'[u] = entry[u] /\ call'[u] = call[u]
  BY <1>2 DEF CallTypes
<1>4. CallTypes'
  <2>1. /\ entry' \in [Task -> {NoCall} \cup SendCall \cup RecvCall \cup ControlCall]
        /\ call' \in [Task -> {NoCall} \cup SendCall \cup RecvCall]
    BY <1>2 DEF CallTypes
  <2>2. NoCall.op = "none"
    BY DEF NoCall, Control
  <2>3. QED  BY <1>1, <1>2, <1>3, <2>1, <2>2 DEF CallTypes
<1>5. asked' = [asked EXCEPT ![t] = NoCall] /\ pending' = pending \ {t}
  BY <1>3 DEF asked, pending
<1>6. asked[t] # NoCall
  BY CallsOfFacts
<1>7. QED  BY <1>1, <1>4, <1>5, <1>6 DEF Abstract!End, asked, pending

\* A send that takes effect, of a task or of an interrupt.
LEMMA PutServes ==
  ASSUME BufferTypes, NEW t \in Task \cup {None}, NEW c, c.op = "send", c.bytes \in Seq(Datum),
         NEW n, n = Min({Len(c.bytes), free}), data' = data \o SubSeq(c.bytes, 1, n),
         Answers(t, SubSeq(c.bytes, 1, n))
  PROVE  /\ Abstract!Serve(t, c) /\ n \in 0 .. Len(c.bytes)
         /\ data' \in Seq(Datum) /\ Len(data') = Len(data) + n /\ Len(data') <= Capacity
         /\ answer' \in [to : Task \cup {None}, bytes : Seq(Datum)]
<1>1. data \in Seq(Datum) /\ Len(data) \in Nat /\ free \in Nat /\ Len(data) + free = Capacity
  BY BufferFacts
<1>2. Len(c.bytes) \in Nat
  OBVIOUS
<1>3. n \in Nat /\ n <= free
  BY <1>1, <1>2, MinPair
<1>4. n \in 0 .. Len(c.bytes)
  BY <1>1, <1>2, MinPair
<1> DEFINE s == SubSeq(c.bytes, 1, n)
<1>5. s \in Seq(Datum) /\ Len(s) = n
  BY <1>2, <1>4, TakeFacts
<1>6. s = SubSeq(c.bytes, 1, Abstract!Min({Len(c.bytes), Capacity - Len(data)}))
  BY SameMin DEF free
<1>7. Abstract!Serve(t, c)
  BY <1>6 DEF Abstract!Serve, Abstract!Fitting, Answers
<1>8. data' = data \o s /\ answer' = [to |-> t, bytes |-> s]
  BY DEF Answers
<1> HIDE DEF s
<1>9. data' \in Seq(Datum) /\ Len(data') = Len(data) + n
  BY <1>1, <1>5, <1>8, PutFacts
<1>10. Len(data') <= Capacity
  BY <1>1, <1>3, <1>9
<1>11. answer' \in [to : Task \cup {None}, bytes : Seq(Datum)]
  BY <1>5, <1>8
<1>12. QED  BY <1>4, <1>7, <1>9, <1>10, <1>11

\* A receive that takes effect.
LEMMA TakeServes ==
  ASSUME BufferTypes, NEW t \in Task \cup {None}, NEW c, c.op = "receive", c.max \in Nat,
         NEW n, n = Min({c.max, Len(data)}), data' = SubSeq(data, n + 1, Len(data)),
         Answers(t, SubSeq(data, 1, n))
  PROVE  /\ Abstract!Serve(t, c) /\ n \in 0 .. Len(data)
         /\ data' \in Seq(Datum) /\ Len(data') = Len(data) - n /\ Len(data') <= Capacity
         /\ answer' \in [to : Task \cup {None}, bytes : Seq(Datum)]
<1>1. data \in Seq(Datum) /\ Len(data) \in Nat /\ Capacity \in Nat /\ free \in Nat
      /\ Len(data) + free = Capacity
  BY BufferFacts
<1>2. n \in 0 .. Len(data)
  BY <1>1, MinPair
<1>3. n = Abstract!Min({c.max, Len(data)})
  BY SameMin
<1>4. Abstract!Serve(t, c)
  BY <1>3 DEF Abstract!Serve, Abstract!Oldest, Answers
<1>5. data' \in Seq(Datum) /\ Len(data') = Len(data) - n /\ SubSeq(data, 1, n) \in Seq(Datum)
  BY <1>1, <1>2, TakeFacts
<1>6. Len(data') <= Capacity
  BY <1>1, <1>2, <1>5
<1>7. answer' \in [to : Task \cup {None}, bytes : Seq(Datum)]
  BY <1>5 DEF Answers
<1>8. QED  BY <1>2, <1>4, <1>5, <1>6, <1>7

\* The first item of a queue.
LEMMA FirstItem ==
  ASSUME BufferTypes, data # <<>>
  PROVE  /\ Min({1, Len(data)}) = 1 /\ <<Head(data)>> = SubSeq(data, 1, 1)
         /\ Tail(data) = SubSeq(data, 1 + 1, Len(data)) /\ Head(data) \in Datum
<1>1. data \in Seq(Datum) /\ Len(data) \in Nat /\ Len(data) >= 1
  BY BufferFacts
<1>2. Min({1, Len(data)}) \in {1, Len(data)} /\ Min({1, Len(data)}) <= 1
  BY <1>1, MinPair
<1>3. Min({1, Len(data)}) = 1
  BY <1>1, <1>2
<1>4. <<Head(data)>> = SubSeq(data, 1, 1)
  BY <1>1
<1>5. Tail(data) = SubSeq(data, 1 + 1, Len(data)) /\ Head(data) \in Datum
  BY <1>1
<1>6. QED  BY <1>3, <1>4, <1>5

\* The call of a task ends with an effect that serves it.
LEMMA ServeStep ==
  ASSUME BufferTypes, UNCHANGED <<kind, trigger, alive>>, excused' \in BOOLEAN,
         NEW t \in Task, NEW c \in CallsOf(t), Abstract!Serve(t, c),
         entry' = [entry EXCEPT ![t] = NoCall], call' = [call EXCEPT ![t] = NoCall],
         data' \in Seq(Datum), Len(data') <= Capacity,
         answer' \in [to : Task \cup {None}, bytes : Seq(Datum)]
  PROVE  BufferTypes' /\ FifoStep
<1>1. CallTypes' /\ Abstract!End(t)
  BY EndRequest
<1>2. BufferTypes'
  <2>1. alive' \in BOOLEAN
    BY DEF BufferTypes
  <2>2. QED  BY <1>1, <2>1, TypesKept
<1>3. Abstract!Answer(t)
  <2>1. asked[t] = c
    BY CallsOfFacts
  <2>2. QED  BY <1>1, <2>1 DEF Abstract!Answer, asked
<1>4. QED  BY <1>2, <1>3 DEF FifoStep, Abstract!FNext

\* The call of a task that waited fails.
LEMMA FailStep ==
  ASSUME BufferTypes, UNCHANGED <<kind, data, trigger, alive>>, excused' \in BOOLEAN,
         NEW t \in Task, call[t] # NoCall, Answers(t, <<>>),
         entry' = [entry EXCEPT ![t] = NoCall], call' = [call EXCEPT ![t] = NoCall]
  PROVE  BufferTypes' /\ FifoStep
<1>1. CallsOf(t) # {}
  BY DEF CallsOf
<1>2. CallTypes' /\ Abstract!End(t)
  BY <1>1, EndRequest
<1>3. BufferTypes'
  <2>1. /\ alive' \in BOOLEAN /\ data' \in Seq(Datum) /\ Len(data') <= Capacity
    BY DEF BufferTypes
  <2>2. answer' \in [to : Task \cup {None}, bytes : Seq(Datum)]
    BY DEF Answers
  <2>3. QED  BY <1>2, <2>1, <2>2, TypesKept
<1>4. Abstract!GiveUp(t)
  BY <1>2 DEF Abstract!GiveUp, Answers
<1>5. QED  BY <1>3, <1>4 DEF FifoStep, Abstract!FNext

\* A call that has to wait, or has waited already.
LEMMA WaitStep ==
  ASSUME BufferTypes, NEW t \in Task, NEW c \in CallsOf(t), c \in SendCall \cup RecvCall,
         c.op = "send" => Len(data) = Capacity, c.op # "send" => Len(data) < Capacity,
         kind = "stream" => c.op # "peek", GoToWait(t, c)
  PROVE  BufferTypes' /\ FifoStep
<1>1. /\ call' = [call EXCEPT ![t] = c] /\ entry' = [entry EXCEPT ![t] = NoCall]
      /\ UNCHANGED <<kind, data, trigger, alive, answer, excused>>
  BY DEF GoToWait, LeaveEntry
<1>2. CallTypes /\ Capacity' = Capacity /\ SendCall' = SendCall /\ RecvCall' = RecvCall
      /\ ControlCall' = ControlCall
  BY <1>1 DEF BufferTypes, Capacity, SendCall, RecvCall, Lengths, ControlCall
<1>3. /\ entry'[t] = NoCall /\ call'[t] = c
      /\ \A u \in Task \ {t} : entry'[u] = entry[u] /\ call'[u] = call[u]
  BY <1>1, <1>2 DEF CallTypes
<1>4. CallTypes'
  <2>1. /\ entry' \in [Task -> {NoCall} \cup SendCall \cup RecvCall \cup ControlCall]
        /\ call' \in [Task -> {NoCall} \cup SendCall \cup RecvCall]
    BY <1>1, <1>2 DEF CallTypes
  <2>2. NoCall.op = "none"
    BY DEF NoCall, Control
  <2>3. QED  BY <1>1, <1>2, <1>3, <2>1, <2>2 DEF CallTypes
<1>5. BufferTypes'
  <2>1. /\ alive' \in BOOLEAN /\ excused' \in BOOLEAN /\ data' \in Seq(Datum)
        /\ Len(data') <= Capacity /\ answer' \in [to : Task \cup {None}, bytes : Seq(Datum)]
    BY <1>1 DEF BufferTypes
  <2>2. QED  BY <1>1, <1>4, <2>1, TypesKept
<1>6. /\ c # NoCall /\ asked[t] = c /\ c.op \in {"send", "receive", "peek"}
  BY CallsOfFacts, CallFacts
<1>7. asked' = asked /\ pending' = pending \cup {t}
  <2>1. \A u \in Task : asked'[u] = asked[u]
    BY <1>3, <1>6 DEF asked
  <2>2. asked' = asked
    BY <2>1 DEF asked
  <2>3. QED  BY <1>3, <1>6, <2>2 DEF pending
<1>8. Abstract!Wait(t)
  BY <1>1, <1>2, <1>6, <1>7 DEF Abstract!Wait, asked, pending
<1>9. QED  BY <1>5, <1>8 DEF FifoStep, Abstract!FNext

\* An interrupt's call takes effect.
LEMMA IsrStep ==
  ASSUME BufferTypes, alive, UNCHANGED <<kind, trigger, alive, entry, call>>,
         excused' \in BOOLEAN, NEW c \in AnyCall, c.op \in {"send", "receive"},
         Abstract!Serve(None, c), data' \in Seq(Datum), Len(data') <= Capacity,
         answer' \in [to : Task \cup {None}, bytes : Seq(Datum)], data' # data
  PROVE  BufferTypes' /\ FifoStep
<1>1. CallTypes' /\ Capacity' = Capacity
  BY DEF BufferTypes, CallTypes, SendCall, RecvCall, ControlCall, Lengths, Capacity
<1>2. BufferTypes'
  <2>1. alive' \in BOOLEAN
    BY DEF BufferTypes
  <2>2. QED  BY <1>1, <2>1, TypesKept
<1>3. Abstract!Interrupt
  BY <1>1 DEF Abstract!Interrupt
<1>4. QED  BY <1>2, <1>3 DEF FifoStep, Abstract!FNext

\* A reset, a deletion or another trigger level.
LEMMA ManageStep ==
  ASSUME BufferTypes, UNCHANGED <<kind, call>>, excused' \in BOOLEAN, NEW t \in Task,
         NEW c \in ControlCall, entry[t] = c, entry' = [entry EXCEPT ![t] = NoCall],
         trigger' = trigger \/ (trigger' \in 1 .. StreamCapacity /\ kind = "stream"),
         data' = IF c.op = "reset" THEN <<>> ELSE data, Answers(t, <<>>),
         alive' = (alive /\ c.op # "delete")
  PROVE  BufferTypes' /\ FifoStep
<1>1. c.op \in {"reset", "set_trigger_level", "delete"} /\ c # NoCall
  BY ControlFacts
<1>2. c \in CallsOf(t)
  BY <1>1 DEF CallsOf
<1>3. call[t] = NoCall /\ call \in [Task -> {NoCall} \cup SendCall \cup RecvCall]
  BY <1>1 DEF BufferTypes, CallTypes
<1>4. call' = [call EXCEPT ![t] = NoCall]
  BY <1>3
<1>5. CallTypes' /\ Abstract!End(t)
  BY <1>2, <1>4, EndRequest
<1>6. BufferTypes'
  <2>1. data \in Seq(Datum) /\ Len(data) <= Capacity /\ <<>> \in Seq(Datum) /\ Len(<<>>) <= Capacity
    BY CapacityType DEF BufferTypes
  <2>2. data' \in Seq(Datum) /\ Len(data') <= Capacity
    BY <2>1
  <2>3. answer' \in [to : Task \cup {None}, bytes : Seq(Datum)]
    BY <2>1 DEF Answers
  <2>4. alive' \in BOOLEAN
    OBVIOUS
  <2>5. QED  BY <1>5, <2>2, <2>3, <2>4, TypesKept
<1>7. Abstract!Manage(t)
  <2>1. asked[t] = c
    BY <1>2, CallsOfFacts
  <2>2. QED  BY <1>1, <1>5, <2>1 DEF Abstract!Manage, Answers, asked
<1>8. QED  BY <1>6, <1>7 DEF FifoStep, Abstract!FNext

\* A call passes the magic test.
LEMMA EnterStep ==
  ASSUME BufferTypes, NEW t \in Task, NEW c \in SendCall \cup RecvCall \cup ControlCall,
         Enter(t, c),
         kind = "stream" => /\ c.op # "peek"
                            /\ c.op = "send" => t = Writer
                            /\ c.op = "receive" => t = Reader
  PROVE  BufferTypes' /\ FifoStep
<1>1. /\ CallsOf(t) = {} /\ alive /\ entry' = [entry EXCEPT ![t] = c]
      /\ UNCHANGED <<kind, data, trigger, alive, call, answer, excused>>
  BY DEF Enter
<1>2. CallTypes /\ Capacity' = Capacity /\ SendCall' = SendCall /\ RecvCall' = RecvCall
      /\ ControlCall' = ControlCall
  BY <1>1 DEF BufferTypes, Capacity, SendCall, RecvCall, Lengths, ControlCall
<1>3. entry[t] = NoCall /\ call[t] = NoCall
  BY <1>1 DEF CallsOf
<1>4. entry'[t] = c /\ \A u \in Task \ {t} : entry'[u] = entry[u]
  BY <1>1, <1>2 DEF CallTypes
<1>5. CallTypes'
  <2>1. entry' \in [Task -> {NoCall} \cup SendCall \cup RecvCall \cup ControlCall]
    BY <1>1, <1>2 DEF CallTypes
  <2>2. QED  BY <1>1, <1>2, <1>3, <1>4, <2>1 DEF CallTypes
<1>6. BufferTypes'
  <2>1. /\ alive' \in BOOLEAN /\ excused' \in BOOLEAN /\ data' \in Seq(Datum)
        /\ Len(data') <= Capacity /\ answer' \in [to : Task \cup {None}, bytes : Seq(Datum)]
    BY <1>1 DEF BufferTypes
  <2>2. QED  BY <1>1, <1>5, <2>1, TypesKept
<1>7. c \in AnyCall /\ c # NoCall
  BY CallFacts, ControlFacts
<1>8. asked' = [asked EXCEPT ![t] = c] /\ asked[t] = NoCall /\ asked'[t] = c /\ pending' = pending
  BY <1>1, <1>3, <1>4, <1>7 DEF asked, pending
<1>9. Abstract!Begin(t)
  BY <1>1, <1>2, <1>7, <1>8 DEF Abstract!Begin, asked, pending
<1>10. QED  BY <1>6, <1>9 DEF FifoStep, Abstract!FNext

\* The buffer is created again.
LEMMA RenewStep ==
  ASSUME BufferTypes, NEW t \in Task, CreateAgain(t),
         trigger' = trigger \/ (trigger' \in 1 .. StreamCapacity /\ kind = "stream")
  PROVE  BufferTypes' /\ FifoStep
<1>1. /\ ~alive /\ \A u \in Task : CallsOf(u) = {}
      /\ alive' = TRUE /\ data' = <<>> /\ UNCHANGED <<kind, entry, call, answer, excused>>
  BY DEF CreateAgain
<1>2. CallTypes' /\ Capacity' = Capacity
  BY <1>1 DEF BufferTypes, CallTypes, SendCall, RecvCall, ControlCall, Lengths, Capacity
<1>3. BufferTypes'
  <2>1. data' \in Seq(Datum) /\ Len(data') <= Capacity
    BY <1>1, CapacityType
  <2>2. excused' \in BOOLEAN /\ answer' \in [to : Task \cup {None}, bytes : Seq(Datum)]
    BY <1>1 DEF BufferTypes
  <2>3. QED  BY <1>1, <1>2, <2>1, <2>2, TypesKept
<1>4. asked = [u \in Task |-> NoCall]
  BY <1>1 DEF CallsOf, asked
<1>5. Abstract!Renew
  BY <1>1, <1>2, <1>4 DEF Abstract!Renew, asked, pending
<1>6. QED  BY <1>3, <1>5 DEF FifoStep, Abstract!FNext

\* The steps of the scheduler do not touch the buffer.
LEMMA StutterStep ==
  ASSUME BufferTypes, UNCHANGED buffer_vars
  PROVE  BufferTypes' /\ FifoStep
<1>1. UNCHANGED <<kind, data, trigger, alive, entry, call, answer, excused>>
  BY DEF buffer_vars
<1>2. Capacity' = Capacity /\ CallTypes'
  BY <1>1 DEF Capacity, BufferTypes, CallTypes, SendCall, RecvCall, ControlCall, Lengths
<1>3. QED  BY <1>1, <1>2 DEF BufferTypes, FifoStep, Abstract!fvars

LEMMA QueueTestFacts ==
  ASSUME BufferTypes, NEW t \in Task, NEW c \in CallsOf(t), NEW op \in {"send", "receive", "peek"},
         QueueTest(t, c, op)
  PROVE  kind = "queue" /\ c.op = op /\ c \in SendCall \cup RecvCall
BY CallsOfFacts DEF QueueTest

LEMMA StreamTestFacts ==
  ASSUME BufferTypes, NEW t \in Task, NEW c \in CallsOf(t), NEW op \in {"send", "receive"},
         NEW status, StreamTest(t, c, op, status)
  PROVE  kind = "stream" /\ c.op = op /\ c \in SendCall \cup RecvCall
BY CallsOfFacts DEF StreamTest

\* A send into a full buffer that may not wait: served with nothing.
LEMMA FullServes ==
  ASSUME BufferTypes, NEW t \in Task, NEW c, c.op = "send", c.bytes \in Seq(Datum), free = 0,
         data' = data, Answers(t, <<>>)
  PROVE  Abstract!Serve(t, c)
<1>1. Len(c.bytes) \in Nat /\ free \in Nat /\ data \in Seq(Datum)
  BY BufferFacts
<1>2. Min({Len(c.bytes), free}) = 0
  BY <1>1, MinPair
<1>3. SubSeq(c.bytes, 1, 0) = <<>> /\ data \o <<>> = data
  BY <1>1
<1>4. Abstract!Min({Len(c.bytes), Capacity - Len(data)}) = 0
  BY <1>2, SameMin DEF free
<1>5. Abstract!Fitting(c.bytes) = <<>>
  BY <1>3, <1>4 DEF Abstract!Fitting
<1>6. QED  BY <1>3, <1>5 DEF Abstract!Serve, Answers

\* So is a call of the queue that may not wait and finds no slot or no item.
LEMMA RefusedServes ==
  ASSUME BufferTypes, NEW t \in Task, NEW c \in CallsOf(t), QueueRefused(t, c), data' = data,
         Answers(t, <<>>)
  PROVE  Abstract!Serve(t, c)
<1>1. CASE QueueTest(t, c, "send") /\ free = 0
  <2>1. c.op = "send" /\ c.bytes \in Seq(Datum)
    BY <1>1, QueueTestFacts, CallFacts
  <2>2. QED  BY <1>1, <2>1, FullServes
<1>2. ASSUME NEW op \in {"receive", "peek"}, QueueTest(t, c, op), data = <<>>
      PROVE  Abstract!Serve(t, c)
  <2>1. c.op = op /\ c.max = 1
    BY <1>2, QueueTestFacts, CallFacts
  <2>2. Min({c.max, Len(data)}) = 0
    <3>1. Len(data) = 0 /\ Len(data) \in Nat
      BY <1>2, BufferFacts
    <3>2. QED  BY <2>1, <3>1, MinPair
  <2>3. Abstract!Min({c.max, Len(data)}) = 0 /\ Len(data) = 0
    BY <1>2, <2>2, SameMin, BufferFacts
  <2>4. SubSeq(data, 1, 0) = <<>> /\ SubSeq(data, 0 + 1, Len(data)) = data
    BY <1>2, <2>3
  <2>5. Abstract!Oldest(c.max) = <<>>
    BY <2>3, <2>4 DEF Abstract!Oldest
  <2>6. QED  BY <2>1, <2>3, <2>4, <2>5 DEF Abstract!Serve, Answers
<1>3. QED  BY <1>1, <1>2 DEF QueueRefused

\* The calls of a queue.
LEMMA QueueFifo ==
  ASSUME BufferTypes, NEW t \in Task, NEW c \in CallsOf(t),
         \/ QueueSend(t, c) \/ QueueSendWaits(t, c)
         \/ QueueReceive(t, c) \/ QueueReceiveWaits(t, c)
         \/ QueuePeek(t, c) \/ QueuePeekWaits(t, c)
         \/ QueueTimeout(t, c)
  PROVE  BufferTypes' /\ FifoStep
<1>1. CASE QueueSend(t, c)
  <2>1. /\ QueueTest(t, c, "send") /\ free > 0 /\ data' = data \o c.bytes
        /\ entry' = [entry EXCEPT ![t] = NoCall] /\ call' = [call EXCEPT ![t] = NoCall]
        /\ UNCHANGED <<kind, trigger, alive>> /\ excused' \in BOOLEAN /\ Answers(t, c.bytes)
    BY <1>1 DEF QueueSend, EndCall, LeaveEntry
  <2>2. kind = "queue" /\ c.op = "send" /\ c \in SendCall \cup RecvCall
    BY <2>1, QueueTestFacts
  <2>3. c.bytes \in Seq(Datum) /\ Len(c.bytes) = 1
    BY <2>2, CallFacts
  <2>4. SubSeq(c.bytes, 1, 1) = c.bytes
    BY <2>3
  <2>5. Min({Len(c.bytes), free}) = 1
    <3>1. free \in Nat
      BY BufferFacts
    <3>2. QED  BY <2>1, <2>3, <3>1, MinPair
  <2>6. data' = data \o SubSeq(c.bytes, 1, 1) /\ Answers(t, SubSeq(c.bytes, 1, 1))
    BY <2>1, <2>4, Zenon
  <2>7. /\ Abstract!Serve(t, c) /\ data' \in Seq(Datum) /\ Len(data') <= Capacity
        /\ answer' \in [to : Task \cup {None}, bytes : Seq(Datum)]
    BY <2>2, <2>3, <2>5, <2>6, PutServes
  <2>8. QED  BY <2>1, <2>7, ServeStep
<1>2. CASE QueueReceive(t, c)
  <2>1. /\ QueueTest(t, c, "receive") /\ data # <<>> /\ data' = Tail(data)
        /\ entry' = [entry EXCEPT ![t] = NoCall] /\ call' = [call EXCEPT ![t] = NoCall]
        /\ UNCHANGED <<kind, trigger, alive>> /\ excused' \in BOOLEAN
        /\ Answers(t, <<Head(data)>>)
    BY <1>2 DEF QueueReceive, EndCall, LeaveEntry
  <2>2. c.op = "receive" /\ c.max = 1
    BY <2>1, QueueTestFacts, CallFacts
  <2>3. /\ 1 = Min({c.max, Len(data)}) /\ data' = SubSeq(data, 1 + 1, Len(data))
        /\ Answers(t, SubSeq(data, 1, 1))
    BY <2>1, <2>2, FirstItem
  <2>4. /\ Abstract!Serve(t, c) /\ data' \in Seq(Datum) /\ Len(data') <= Capacity
        /\ answer' \in [to : Task \cup {None}, bytes : Seq(Datum)]
    BY <2>2, <2>3, TakeServes
  <2>5. QED  BY <2>1, <2>4, ServeStep
<1>3. CASE QueuePeek(t, c)
  <2>1. /\ QueueTest(t, c, "peek") /\ data # <<>>
        /\ entry' = [entry EXCEPT ![t] = NoCall] /\ call' = [call EXCEPT ![t] = NoCall]
        /\ UNCHANGED <<kind, data, trigger, alive>> /\ excused' \in BOOLEAN
        /\ Answers(t, <<Head(data)>>)
    BY <1>3 DEF QueuePeek, EndCall, LeaveEntry
  <2>2. c.op = "peek" /\ c.max = 1
    BY <2>1, QueueTestFacts, CallFacts
  <2>3. Abstract!Min({c.max, Len(data)}) = 1 /\ Answers(t, SubSeq(data, 1, 1))
    BY <2>1, <2>2, FirstItem, SameMin
  <2>4. Abstract!Serve(t, c)
    BY <2>1, <2>2, <2>3 DEF Abstract!Serve, Abstract!Oldest, Answers
  <2>5. /\ data' \in Seq(Datum) /\ Len(data') <= Capacity
        /\ answer' \in [to : Task \cup {None}, bytes : Seq(Datum)]
    <3>1. data \in Seq(Datum) /\ Len(data) <= Capacity /\ Head(data) \in Datum
      BY <2>1, FirstItem DEF BufferTypes
    <3>2. <<Head(data)>> \in Seq(Datum)
      BY <3>1
    <3>3. QED  BY <2>1, <3>1, <3>2 DEF Answers
  <2>6. QED  BY <2>1, <2>4, <2>5, ServeStep
<1>4. CASE QueueTimeout(t, c)
  <2>1. /\ (QueueRefused(t, c) \/ Waited(t, c)) /\ Answers(t, <<>>)
        /\ entry' = [entry EXCEPT ![t] = NoCall] /\ call' = [call EXCEPT ![t] = NoCall]
        /\ UNCHANGED <<kind, data, trigger, alive>> /\ excused' \in BOOLEAN
    BY <1>4 DEF QueueTimeout, EndCall, LeaveEntry
  <2>2. CASE call[t] # NoCall
    BY <2>1, <2>2, FailStep
  <2>3. CASE call[t] = NoCall
    <3>1. QueueRefused(t, c)
      BY <2>1, <2>3, CallsOfFacts DEF Waited
    <3>2. Abstract!Serve(t, c)
      BY <2>1, <3>1, RefusedServes
    <3>3. /\ data' \in Seq(Datum) /\ Len(data') <= Capacity
          /\ answer' \in [to : Task \cup {None}, bytes : Seq(Datum)]
      BY <2>1 DEF BufferTypes, Answers
    <3>4. QED  BY <2>1, <3>2, <3>3, ServeStep
  <2>4. QED  BY <2>2, <2>3
<1>5. CASE QueueSendWaits(t, c)
  <2>1. QueueTest(t, c, "send") /\ free = 0 /\ GoToWait(t, c)
    BY <1>5 DEF QueueSendWaits
  <2>2. kind = "queue" /\ c.op = "send" /\ c \in SendCall \cup RecvCall
    BY <2>1, QueueTestFacts
  <2>3. Len(data) = Capacity
    BY <2>1, BufferFacts
  <2>4. QED  BY <2>1, <2>2, <2>3, WaitStep
<1>6. CASE QueueReceiveWaits(t, c) \/ QueuePeekWaits(t, c)
  <2>1. PICK op \in {"receive", "peek"} : QueueTest(t, c, op) /\ data = <<>> /\ GoToWait(t, c)
    BY <1>6 DEF QueueReceiveWaits, QueuePeekWaits
  <2>2. kind = "queue" /\ c.op # "send" /\ c \in SendCall \cup RecvCall
    BY <2>1, QueueTestFacts
  <2>3. Len(data) < Capacity
    BY <2>1, BufferFacts
  <2>4. QED  BY <2>1, <2>2, <2>3, WaitStep
<1>7. QED  BY <1>1, <1>2, <1>3, <1>4, <1>5, <1>6

\* The calls of a stream buffer.
LEMMA StreamFifo ==
  ASSUME BufferTypes, NEW t \in Task, NEW c \in CallsOf(t),
         \/ StreamSend(t, c) \/ StreamSendWaits(t, c)
         \/ StreamReceive(t, c) \/ StreamReceiveWaits(t, c)
         \/ StreamFails(t, c)
  PROVE  BufferTypes' /\ FifoStep
<1>1. CASE StreamSend(t, c)
  <2> DEFINE n == Min({Len(c.bytes), free})
  <2>1. /\ StreamTest(t, c, "send", {"OK"}) /\ data' = data \o SubSeq(c.bytes, 1, n)
        /\ entry' = [entry EXCEPT ![t] = NoCall] /\ call' = [call EXCEPT ![t] = NoCall]
        /\ UNCHANGED <<kind, trigger, alive>>
        /\ excused' \in BOOLEAN /\ Answers(t, SubSeq(c.bytes, 1, n))
    BY <1>1 DEF StreamSend, EndCall, write_bytes, LeaveEntry
  <2>2. c.op = "send" /\ c.bytes \in Seq(Datum)
    BY <2>1, StreamTestFacts, CallFacts
  <2>3. n = Min({Len(c.bytes), free})
    OBVIOUS
  <2> HIDE DEF n
  <2>4. /\ Abstract!Serve(t, c) /\ data' \in Seq(Datum) /\ Len(data') <= Capacity
        /\ answer' \in [to : Task \cup {None}, bytes : Seq(Datum)]
    BY <2>1, <2>2, <2>3, PutServes
  <2>5. QED  BY <2>1, <2>4, ServeStep
<1>2. CASE StreamReceive(t, c)
  <2> DEFINE n == Min({c.max, Len(data)})
  <2>1. /\ StreamTest(t, c, "receive", {"OK", "TIMEOUT"})
        /\ data' = SubSeq(data, n + 1, Len(data)) /\ Answers(t, SubSeq(data, 1, n))
        /\ entry' = [entry EXCEPT ![t] = NoCall] /\ call' = [call EXCEPT ![t] = NoCall]
        /\ UNCHANGED <<kind, trigger, alive>> /\ excused' \in BOOLEAN
    BY <1>2 DEF StreamReceive, EndCall, read_bytes, LeaveEntry
  <2>2. c.op = "receive" /\ c.max \in Nat
    BY <2>1, StreamTestFacts, CallFacts
  <2>3. n = Min({c.max, Len(data)})
    OBVIOUS
  <2> HIDE DEF n
  <2>4. /\ Abstract!Serve(t, c) /\ data' \in Seq(Datum) /\ Len(data') <= Capacity
        /\ answer' \in [to : Task \cup {None}, bytes : Seq(Datum)]
    BY <2>1, <2>2, <2>3, TakeServes
  <2>5. QED  BY <2>1, <2>4, ServeStep
<1>3. CASE StreamFails(t, c)
  <2>1. /\ (Waited(t, c) \/ (StreamTest(t, c, "send", {"OK"}) /\ free = 0)) /\ Answers(t, <<>>)
        /\ entry' = [entry EXCEPT ![t] = NoCall] /\ call' = [call EXCEPT ![t] = NoCall]
        /\ UNCHANGED <<kind, data, trigger, alive, excused>>
    BY <1>3 DEF StreamFails, EndCall, LeaveEntry
  <2>2. excused' \in BOOLEAN
    BY <2>1 DEF BufferTypes
  <2>3. CASE call[t] # NoCall
    BY <2>1, <2>2, <2>3, FailStep
  <2>4. CASE call[t] = NoCall
    <3>1. StreamTest(t, c, "send", {"OK"}) /\ free = 0
      BY <2>1, <2>4, CallsOfFacts DEF Waited
    <3>2. c.op = "send" /\ c.bytes \in Seq(Datum)
      BY <3>1, StreamTestFacts, CallFacts
    <3>3. Abstract!Serve(t, c)
      BY <2>1, <3>1, <3>2, FullServes
    <3>4. /\ data' \in Seq(Datum) /\ Len(data') <= Capacity
          /\ answer' \in [to : Task \cup {None}, bytes : Seq(Datum)]
      BY <2>1 DEF BufferTypes, Answers
    <3>5. QED  BY <2>1, <2>2, <3>3, <3>4, ServeStep
  <2>5. QED  BY <2>3, <2>4
<1>4. CASE StreamSendWaits(t, c)
  <2>1. StreamTest(t, c, "send", {"OK"}) /\ free = 0 /\ GoToWait(t, c)
    BY <1>4 DEF StreamSendWaits
  <2>2. c.op = "send" /\ c \in SendCall \cup RecvCall
    BY <2>1, StreamTestFacts
  <2>3. Len(data) = Capacity
    BY <2>1, BufferFacts
  <2>4. QED  BY <2>1, <2>2, <2>3, WaitStep
<1>5. CASE StreamReceiveWaits(t, c)
  <2>1. StreamTest(t, c, "receive", {"OK"}) /\ Len(data) < trigger /\ GoToWait(t, c)
    BY <1>5 DEF StreamReceiveWaits
  <2>2. c.op = "receive" /\ c \in SendCall \cup RecvCall
    BY <2>1, StreamTestFacts
  <2>3. Len(data) < Capacity
    BY <2>1, BufferFacts
  <2>4. QED  BY <2>1, <2>2, <2>3, WaitStep
<1>6. QED  BY <1>1, <1>2, <1>3, <1>4, <1>5

\* What interrupts do to the buffer.
LEMMA IsrFifo ==
  ASSUME BufferTypes,
         \/ QueueReceiveFromIsr
         \/ \E d \in Datum : QueueSendFromIsr(d)
         \/ kind = "stream" /\ \E n \in Lengths : StreamReceiveFromIsr(n)
         \/ \E c \in SendCall : StreamSendFromIsr(c.bytes)
  PROVE  BufferTypes' /\ FifoStep
<1>1. alive /\ UNCHANGED <<kind, trigger, alive, entry, call>> /\ excused' \in BOOLEAN
  BY DEF QueueReceiveFromIsr, QueueSendFromIsr, StreamReceiveFromIsr, StreamSendFromIsr,
         NotifyFromIsr
<1>2. data \in Seq(Datum) /\ Len(data) \in Nat /\ free \in Nat /\ 0 \in 0 .. Forever
  BY BufferFacts, ConstantTypes
<1>3. ASSUME NEW m \in {1} \cup StreamLengths, m \in Nat \ {0}, data # <<>>,
             data' = SubSeq(data, Min({m, Len(data)}) + 1, Len(data)),
             Answers(None, SubSeq(data, 1, Min({m, Len(data)})))
      PROVE  BufferTypes' /\ FifoStep
  <2> DEFINE c == [op |-> "receive", bytes |-> <<>>, max |-> m, timeout |-> 0]
             n == Min({m, Len(data)})
  <2>1. c \in AnyCall /\ c.op = "receive" /\ c.max = m
    BY <1>2 DEF AnyCall, Receives
  <2>2. n = Min({c.max, Len(data)}) /\ n >= 1
    <3>1. Len(data) >= 1
      BY <1>3, BufferFacts
    <3>2. QED  BY <1>2, <1>3, <2>1, <3>1, MinPair
  <2>3. data' = SubSeq(data, n + 1, Len(data)) /\ Answers(None, SubSeq(data, 1, n))
    BY <1>3
  <2> HIDE DEF c, n
  <2>4. /\ Abstract!Serve(None, c) /\ data' \in Seq(Datum) /\ Len(data') <= Capacity
        /\ answer' \in [to : Task \cup {None}, bytes : Seq(Datum)]
        /\ Len(data') = Len(data) - n /\ n \in 0 .. Len(data)
    BY <1>3, <2>1, <2>2, <2>3, TakeServes
  <2>5. data' # data
    BY <1>2, <2>2, <2>4
  <2>6. QED  BY <1>1, <2>1, <2>4, <2>5, IsrStep
<1>4. ASSUME NEW c \in AnyCall, c.op = "send", c.bytes \in Seq(Datum), Len(c.bytes) # 0, free > 0,
             data' = data \o SubSeq(c.bytes, 1, Min({Len(c.bytes), free})),
             Answers(None, SubSeq(c.bytes, 1, Min({Len(c.bytes), free})))
      PROVE  BufferTypes' /\ FifoStep
  <2> DEFINE n == Min({Len(c.bytes), free})
  <2>1. n = Min({Len(c.bytes), free}) /\ n >= 1
    <3>1. Len(c.bytes) \in Nat /\ Len(c.bytes) # 0 /\ free # 0
      BY <1>2, <1>4
    <3>2. QED  BY <1>2, <3>1, MinPair
  <2>2. data' = data \o SubSeq(c.bytes, 1, n) /\ Answers(None, SubSeq(c.bytes, 1, n))
    BY <1>4
  <2> HIDE DEF n
  <2>3. /\ Abstract!Serve(None, c) /\ data' \in Seq(Datum) /\ Len(data') <= Capacity
        /\ answer' \in [to : Task \cup {None}, bytes : Seq(Datum)]
        /\ Len(data') = Len(data) + n /\ n \in 0 .. Len(c.bytes)
    BY <1>4, <2>1, <2>2, PutServes
  <2>4. data' # data
    BY <1>2, <2>1, <2>3
  <2>5. QED  BY <1>1, <1>4, <2>3, <2>4, IsrStep
<1>5. CASE QueueReceiveFromIsr
  <2>1. data # <<>> /\ data' = Tail(data) /\ Answers(None, <<Head(data)>>)
    BY <1>5 DEF QueueReceiveFromIsr
  <2>2. /\ Min({1, Len(data)}) = 1 /\ data' = SubSeq(data, 1 + 1, Len(data))
        /\ Answers(None, SubSeq(data, 1, 1))
    BY <2>1, FirstItem
  <2>3. QED  BY <1>3, <2>1, <2>2
<1>6. ASSUME NEW d \in Datum, QueueSendFromIsr(d) PROVE BufferTypes' /\ FifoStep
  <2> DEFINE c == [op |-> "send", bytes |-> <<d>>, max |-> 0, timeout |-> 0]
  <2>1. free > 0 /\ data' = Append(data, d) /\ Answers(None, <<d>>)
    BY <1>6 DEF QueueSendFromIsr
  <2>2. c \in AnyCall
    <3>1. <<d>> \in [1 .. 1 -> Datum]
      OBVIOUS
    <3>2. <<d>> \in UNION {[1 .. m -> Datum] : m \in {1} \cup StreamLengths}
      BY <3>1
    <3>3. QED  BY <1>2, <3>2 DEF AnyCall, Sends
  <2>3. c.op = "send" /\ c.bytes = <<d>>
    OBVIOUS
  <2> HIDE DEF c
  <2>4. c.bytes \in Seq(Datum) /\ Len(c.bytes) = 1 /\ SubSeq(c.bytes, 1, 1) = c.bytes
    <3>1. <<d>> \in Seq(Datum) /\ Len(<<d>>) = 1
      OBVIOUS
    <3>2. c.bytes \in Seq(Datum) /\ Len(c.bytes) = 1
      BY <2>3, <3>1
    <3>3. QED  BY <3>2
  <2>5. Min({Len(c.bytes), free}) = 1
    BY <1>2, <2>1, <2>4, MinPair
  <2>6. data' = data \o c.bytes /\ Answers(None, c.bytes)
    BY <1>2, <2>1, <2>3
  <2>7. /\ data' = data \o SubSeq(c.bytes, 1, Min({Len(c.bytes), free}))
        /\ Answers(None, SubSeq(c.bytes, 1, Min({Len(c.bytes), free})))
    BY <2>4, <2>5, <2>6
  <2>8. Len(c.bytes) # 0
    BY <2>4
  <2>9. QED  BY <1>4, <2>1, <2>2, <2>3, <2>4, <2>7, <2>8
<1>7. ASSUME NEW m \in Lengths, StreamReceiveFromIsr(m) PROVE BufferTypes' /\ FifoStep
  <2>1. /\ data # <<>> /\ data' = SubSeq(data, Min({m, Len(data)}) + 1, Len(data))
        /\ Answers(None, SubSeq(data, 1, Min({m, Len(data)})))
    BY <1>7 DEF StreamReceiveFromIsr, read_bytes
  <2>2. m \in {1} \cup StreamLengths /\ m \in Nat \ {0}
    BY LengthsFacts
  <2>3. QED  BY <1>3, <2>1, <2>2
<1>8. ASSUME NEW c \in SendCall, StreamSendFromIsr(c.bytes) PROVE BufferTypes' /\ FifoStep
  <2>1. /\ free > 0 /\ data' = data \o SubSeq(c.bytes, 1, Min({Len(c.bytes), free}))
        /\ Answers(None, SubSeq(c.bytes, 1, Min({Len(c.bytes), free})))
    BY <1>8 DEF StreamSendFromIsr, write_bytes
  <2>2. c.op = "send"
    BY DEF SendCall, Sends
  <2>3. c.bytes \in Seq(Datum) /\ Len(c.bytes) # 0 /\ c \in AnyCall
    BY <2>2, CallFacts
  <2>4. QED  BY <1>4, <2>1, <2>2, <2>3
<1>9. QED  BY <1>5, <1>6, <1>7, <1>8

\* The calls that do not wait.
LEMMA ManageFifo ==
  ASSUME BufferTypes, NEW t \in Task,
         \/ QueueReset(t) \/ QueueDelete(t) \/ QueueCreate(t)
         \/ StreamReset(t) \/ StreamDelete(t)
         \/ \E n \in 1 .. StreamCapacity : SetTriggerLevel(t, n) \/ StreamCreate(t, n)
  PROVE  BufferTypes' /\ FifoStep
<1>1. alive \in BOOLEAN /\ excused \in BOOLEAN
  BY DEF BufferTypes
<1>2. \A op \in {"reset", "set_trigger_level", "delete"} :
         Control(op) \in ControlCall /\ Control(op).op = op
  BY DEF ControlCall, Control
<1>3. CASE QueueReset(t) \/ StreamReset(t)
  <2> DEFINE c == Control("reset")
  <2>1. /\ UNCHANGED <<kind, call, trigger, alive>> /\ excused' \in BOOLEAN /\ data' = <<>>
        /\ entry[t] = c /\ entry' = [entry EXCEPT ![t] = NoCall] /\ Answers(t, <<>>)
    BY <1>3 DEF QueueReset, StreamReset, Calling, LeaveEntry, WakeLists
  <2>2. c \in ControlCall /\ c.op = "reset"
    BY <1>2
  <2> HIDE DEF c
  <2>3. alive' = (alive /\ c.op # "delete") /\ data' = IF c.op = "reset" THEN <<>> ELSE data
    BY <1>1, <2>1, <2>2
  <2>4. QED  BY <2>1, <2>2, <2>3, ManageStep
<1>4. CASE QueueDelete(t) \/ StreamDelete(t)
  <2> DEFINE c == Control("delete")
  <2>1. /\ UNCHANGED <<kind, call, trigger, data, excused>> /\ alive' = FALSE
        /\ entry[t] = c /\ entry' = [entry EXCEPT ![t] = NoCall] /\ Answers(t, <<>>)
    BY <1>4 DEF QueueDelete, StreamDelete, Delete, Calling, LeaveEntry, WakeLists
  <2>2. c \in ControlCall /\ c.op = "delete"
    BY <1>2
  <2> HIDE DEF c
  <2>3. alive' = (alive /\ c.op # "delete") /\ data' = IF c.op = "reset" THEN <<>> ELSE data
    BY <1>1, <2>1, <2>2
  <2>4. QED  BY <1>1, <2>1, <2>2, <2>3, ManageStep
<1>5. CASE QueueCreate(t)
  BY <1>5, RenewStep DEF QueueCreate
<1>6. ASSUME NEW n \in 1 .. StreamCapacity, StreamCreate(t, n) PROVE BufferTypes' /\ FifoStep
  BY <1>6, RenewStep DEF StreamCreate
<1>7. ASSUME NEW n \in 1 .. StreamCapacity, SetTriggerLevel(t, n) PROVE BufferTypes' /\ FifoStep
  <2> DEFINE c == Control("set_trigger_level")
  <2>1. /\ AtUser(t) /\ entry[t] = c /\ entry' = [entry EXCEPT ![t] = NoCall]
        /\ call' = [call EXCEPT ![t] = NoCall] /\ UNCHANGED <<kind, data, alive>>
        /\ excused' \in BOOLEAN /\ trigger' \in 1 .. StreamCapacity /\ kind = "stream"
        /\ Answers(t, <<>>)
    BY <1>7 DEF SetTriggerLevel, EndCall, Calling, LeaveEntry
  <2>2. c \in ControlCall /\ c.op = "set_trigger_level"
    BY <1>2
  <2> HIDE DEF c
  <2>3. alive' = (alive /\ c.op # "delete") /\ data' = IF c.op = "reset" THEN <<>> ELSE data
    BY <1>1, <2>1, <2>2
  <2>4. call' = call
    BY <2>1, <2>2, ControlFacts DEF BufferTypes, CallTypes
  <2>5. QED  BY <2>1, <2>2, <2>3, <2>4, ManageStep
<1>8. QED  BY <1>3, <1>4, <1>5, <1>6, <1>7

\* Every step keeps the types and is a step of the FIFO, or leaves it alone.
LEMMA BufferNextFifo ==
  ASSUME BufferTypes, [BufferNext]_all_vars
  PROVE  BufferTypes' /\ FifoStep
<1>1. CASE BufferStep \/ UNCHANGED all_vars
  <2>1. UNCHANGED buffer_vars
    BY <1>1 DEF BufferStep, Block, all_vars
  <2>2. QED  BY <2>1, StutterStep
<1>2. CASE kind = "queue" /\ QueueNext
  <2>1. ASSUME NEW t \in Task, NEW c \in SendCall \cup RecvCall \cup ControlCall, QueueEnter(t, c)
        PROVE  BufferTypes' /\ FifoStep
    BY <1>2, <2>1, EnterStep DEF QueueEnter
  <2>2. QED  BY <1>2, <2>1, QueueFifo, IsrFifo, ManageFifo DEF QueueNext
<1>3. CASE kind = "stream" /\ StreamNext
  <2>1. ASSUME NEW n \in Lengths, StreamReceiveFromIsr(n) PROVE BufferTypes' /\ FifoStep
    BY <2>1, IsrFifo DEF StreamReceiveFromIsr
  <2>2. ASSUME NEW t \in Task, NEW c \in SendCall \cup RecvCall \cup ControlCall, StreamEnter(t, c)
        PROVE  BufferTypes' /\ FifoStep
    BY <2>2, EnterStep DEF StreamEnter
  <2>3. QED  BY <1>3, <2>1, <2>2, StreamFifo, IsrFifo, ManageFifo DEF StreamNext
<1>4. QED  BY <1>1, <1>2, <1>3 DEF BufferNext

LEMMA BufferInitFifo == BufferInit => BufferTypes /\ Abstract!FInit
<1> SUFFICES ASSUME BufferInit PROVE BufferTypes /\ Abstract!FInit
  OBVIOUS
<1>1. /\ kind \in Kinds /\ data = <<>> /\ alive = TRUE /\ call = [t \in Task |-> NoCall]
      /\ entry = [t \in Task |-> NoCall] /\ answer = [to |-> None, bytes |-> <<>>]
      /\ excused = FALSE /\ trigger \in 1 .. (IF kind = "queue" THEN 1 ELSE StreamCapacity)
  BY DEF BufferInit
<1>2. trigger \in 1 .. Capacity /\ Capacity \in Nat
  BY <1>1, CapacityType DEF Capacity
<1>3. BufferTypes
  <2>1. data \in Seq(Datum) /\ Len(data) <= Capacity /\ <<>> \in Seq(Datum)
    BY <1>1, <1>2
  <2>2. CallTypes
    BY <1>1 DEF CallTypes, NoCall, Control
  <2>3. QED  BY <1>1, <1>2, <2>1, <2>2 DEF BufferTypes
<1>4. Abstract!FInit
  <2>1. asked = [t \in Task |-> NoCall] /\ pending = {}
    BY <1>1 DEF asked, pending
  <2>2. QED  BY <1>1, <1>2, <2>1 DEF Abstract!FInit, asked, pending
<1>5. QED  BY <1>3, <1>4

\* A queue or stream buffer of the kernel, with the scheduler, its lists, the
\* tick and the interrupts below it, implements a bounded FIFO: every call
\* takes effect once, after its magic test, and is answered with what it did;
\* whatever the sizes and the application, blocking with the scheduler locked
\* and deletion while calls are under way included.
THEOREM BuffersImplement == BufferSpec => BufferImplements
<1>1. BufferTypes /\ [BufferNext]_all_vars => BufferTypes'
  BY BufferNextFifo
<1>2. BufferTypes /\ [BufferNext]_all_vars => [Abstract!FNext]_(Abstract!fvars)
  BY BufferNextFifo DEF FifoStep
<1>3. QED
  BY <1>1, <1>2, BufferInitFifo, PTL DEF BufferSpec, BufferImplements, Abstract!FSpec

-----------------------------------------------------------------------------
(* The invariant behind the waits.                                         *)

\* Where the task of a blocking call is: between its test and its wait it is
\* runnable and, when it has the CPU, the scheduler is unlocked; inside
\* wait_list_block it is on the list of its call until something wakes it.  A
\* stream buffer has one writer and one reader.
CallOf(t) ==
    /\ call[t] = NoCall => ~InWait(t)
    /\ call[t] # NoCall => t # Idle /\ call[t].timeout # 0 /\ (pc[t] = "user" \/ InWait(t))
    /\ call[t] # NoCall /\ pc[t] = "user" =>
           k.state[t] \in Runnable /\ woken[t] = "no" /\ (t = current => lock_nesting = 0)
    /\ k.wait_list[t] # None => /\ call[t] # NoCall /\ WaitSide(call[t]) = k.wait_list[t]
                                /\ InWait(t) /\ woken[t] = "no"
    /\ InWait(t) /\ (woken[t] = "no" \/ k.state[t] = "BLOCKED") => k.wait_list[t] # None
    /\ call[t] # NoCall /\ kind = "stream" => t = IF call[t].op = "send" THEN Writer ELSE Reader

CallInv == \A t \in Task : CallOf(t)

\* What a task that waits on list w could get.
Wanted(w) == IF w = wait_recv THEN Receivable ELSE Sendable

Waits(w) == \E t \in Task : k.wait_list[t] = w

\* As long as tasks wait on w, what they could get is spoken for; and while a
\* task is about to join them there is nothing to get.
Spoken(w) ==
    /\ Waits(w) => Wanted(w) <= Cardinality(OnWay(w))
    /\ Overlooked(w) => Wanted(w) = 0

WakeInv == alive /\ ~excused => \A w \in WaitList : Spoken(w)

BufferInv == SchedInv /\ BufferTypes /\ CallInv

-----------------------------------------------------------------------------
(* What a step does to the call of a task.                                 *)

\* It leaves the call as it is, ends it, or ends its wait.
Quiet(t) ==
    /\ call'[t] = call[t]
    /\ Undisturbed(t) \/ (Outside(t) /\ call[t] = NoCall)

Finishes(t) ==
    /\ call'[t] = NoCall
    /\ ~InWait(t)'
    /\ k.wait_list[t] = None /\ k'.wait_list[t] = None

Rouses(t) ==
    /\ k.wait_list[t] # None /\ k'.wait_list[t] = None
    /\ k'.state[t] = "READY"
    /\ woken'[t] \in {"event", "timeout", "deleted"}
    /\ pc'[t] = pc[t] /\ call'[t] = call[t]

\* Nothing that was spoken for on w is lost, except by t, and nobody joins.
Mends(t, w) ==
    /\ Waits(w)' => Waits(w)
    /\ Overlooked(w)' => Overlooked(w)
    /\ OnWay(w) \ {t} \subseteq OnWay(w)'

LEMMA TaskEffect ==
  ASSUME BufferInv, kind' = kind, NEW t \in Task, Quiet(t) \/ Finishes(t) \/ Rouses(t)
  PROVE  /\ CallOf(t)'
         /\ \A w \in WaitList : /\ k'.wait_list[t] = w => k.wait_list[t] = w
                                /\ InGap(t, w)' => InGap(t, w)
                                /\ t \in OnWay(w) => t \in OnWay(w)' \/ Finishes(t)
<1>1. CallOf(t) /\ None \notin WaitList
  BY KernelAssumption DEF BufferInv, CallInv
<1>2. CASE Quiet(t) /\ Undisturbed(t)
  <2>1. CallOf(t)'
    BY <1>1, <1>2 DEF CallOf, Quiet, Undisturbed, SameBlock
  <2>2. QED  BY <1>2, <2>1 DEF Quiet, Undisturbed, SameBlock, InGap, OnWay
<1>3. CASE Quiet(t) /\ Outside(t) /\ call[t] = NoCall
  <2>1. CallOf(t)'
    BY <1>1, <1>3 DEF CallOf, Quiet, Outside
  <2>2. QED  BY <1>3, <2>1 DEF Quiet, Outside, InGap, OnWay
<1>4. CASE Finishes(t)
  <2>1. CallOf(t)'
    BY <1>4 DEF CallOf, Finishes
  <2>2. QED  BY <1>1, <1>4, <2>1 DEF Finishes, InGap, OnWay
<1>5. CASE Rouses(t)
  <2>1. CallOf(t)'
    BY <1>1, <1>5 DEF CallOf, Rouses, InWait
  <2>2. QED  BY <1>1, <1>5, <2>1 DEF CallOf, Rouses, InGap, OnWay, InWait
<1>6. QED  BY <1>2, <1>3, <1>4, <1>5 DEF Quiet

\* A step that ends at most the call of t; for t = None, the call of nobody.
LEMMA StepEffect ==
  ASSUME BufferInv, kind' = kind, NEW t, t \in Task => Finishes(t),
         \A x \in Task \ {t} : Quiet(x) \/ Rouses(x)
  PROVE  CallInv' /\ \A w \in WaitList : Mends(t, w)
<1>1. \A x \in Task : Quiet(x) \/ Finishes(x) \/ Rouses(x)
  OBVIOUS
<1>2. CallInv'
  BY <1>1, TaskEffect DEF CallInv
<1>3. ASSUME NEW w \in WaitList PROVE Mends(t, w)
  <2>1. Waits(w)' => Waits(w)
    BY <1>1, TaskEffect DEF Waits
  <2>2. Overlooked(w)' => Overlooked(w)
    BY <1>1, TaskEffect DEF Overlooked
  <2>3. ASSUME NEW x \in OnWay(w), x # t PROVE x \in OnWay(w)'
    <3>1. x \in Task /\ call[x] # NoCall /\ woken[x] = "event"
      BY <2>3 DEF OnWay
    <3>2. CASE Quiet(x)
      BY <2>3, <3>1, <3>2 DEF Quiet, Undisturbed, OnWay
    <3>3. CASE Rouses(x)
      BY <3>1, <3>3 DEF Rouses, BufferInv, CallInv, CallOf
    <3>4. QED  BY <2>3, <3>1, <3>2, <3>3
  <2>4. QED  BY <2>1, <2>2, <2>3 DEF Mends
<1>4. QED  BY <1>2, <1>3

\* The tasks on list w are those whose control block says so.
LEMMA WaitsList ==
  ASSUME SchedInv, NEW w \in WaitList
  PROVE  k.waiters[w] # <<>> <=> Waits(w)
<1>1. k \in Kernel /\ KernelConsistent(k) /\ k.waiters[w] \in Seq(Task) /\ w # None
  BY FieldTypes, KernelAssumption DEF SchedInv, TypeOK
<1>2. k.waiters[w] # <<>> => \E t \in Task : Contains(k.waiters[w], t)
  BY <1>1, HeadElement
<1>3. \A t \in Task : Contains(k.waiters[w], t) => k.waiters[w] # <<>>
  BY <1>1, HeadElement
<1>4. QED  BY <1>1, <1>2, <1>3 DEF Waits, KernelConsistent, WaitListsConsistent

-----------------------------------------------------------------------------
(* Counting the tasks on their way.                                        *)

LEMMA OnWayFinite ==
  ASSUME NEW w
  PROVE  /\ IsFiniteSet(OnWay(w)) /\ IsFiniteSet(OnWay(w)')
         /\ Cardinality(OnWay(w)) \in Nat /\ Cardinality(OnWay(w)') \in Nat
<1>1. OnWay(w) \subseteq Task /\ OnWay(w)' \subseteq Task /\ IsFiniteSet(Task)
  BY KernelAssumption DEF OnWay
<1>2. QED  BY <1>1, FS_Subset, FS_CardinalityType

LEMMA WantedType ==
  /\ BufferTypes => \A w : Wanted(w) \in Nat
  /\ BufferTypes' => (\A w : Wanted(w) \in Nat)'
<1>1. BufferTypes => \A w : Wanted(w) \in Nat
  BY BufferFacts DEF Wanted, Receivable, Sendable
<1>2. QED  BY <1>1, PTL

\* Nothing is to be had on w.
LEMMA SpokenNothing ==
  ASSUME NEW w, Wanted(w)' = 0
  PROVE  Spoken(w)'
BY OnWayFinite DEF Spoken

\* Nobody waits on w, nor is about to.
LEMMA SpokenNobody ==
  ASSUME NEW w, ~Waits(w)', ~Overlooked(w)'
  PROVE  Spoken(w)'
BY DEF Spoken

\* There is no more to be had than before, and t was not on its way, or there
\* is less.
LEMMA SpokenKept ==
  ASSUME BufferTypes, BufferTypes', NEW w, NEW t, Spoken(w), Mends(t, w),
         Wanted(w)' <= Wanted(w), t \notin OnWay(w) \/ Wanted(w)' + 1 <= Wanted(w)
  PROVE  Spoken(w)'
<1>1. Wanted(w) \in Nat /\ Wanted(w)' \in Nat
  BY WantedType
<1> DEFINE A == OnWay(w)
           B == OnWay(w)'
<1>2. /\ IsFiniteSet(A) /\ IsFiniteSet(B) /\ Cardinality(A) \in Nat /\ Cardinality(B) \in Nat
      /\ A \ {t} \subseteq B
  BY OnWayFinite DEF Mends
<1>3. /\ Waits(w) => Wanted(w) <= Cardinality(A)
      /\ Overlooked(w) => Wanted(w) = 0
      /\ Waits(w)' => Waits(w)
      /\ Overlooked(w)' => Overlooked(w)
      /\ t \notin A \/ Wanted(w)' + 1 <= Wanted(w)
  BY DEF Spoken, Mends
<1>4. Spoken(w)' <=> /\ Waits(w)' => Wanted(w)' <= Cardinality(B)
                     /\ Overlooked(w)' => Wanted(w)' = 0
  BY DEF Spoken
<1> HIDE DEF A, B
<1>5. CASE t \notin A
  <2>1. A \subseteq B
    BY <1>2, <1>5
  <2>2. Cardinality(A) <= Cardinality(B)
    BY <1>2, <2>1, FS_Subset
  <2>3. QED  BY <1>1, <1>2, <1>3, <1>4, <2>2
<1>6. CASE t \in A
  <2>1. IsFiniteSet(A \ {t}) /\ Cardinality(A \ {t}) = Cardinality(A) - 1
    BY <1>2, <1>6, FS_RemoveElement
  <2>2. Cardinality(A \ {t}) <= Cardinality(B)
    BY <1>2, <2>1, FS_Subset
  <2>3. QED  BY <1>1, <1>2, <1>3, <1>4, <1>6, <2>1, <2>2
<1>7. QED  BY <1>5, <1>6

\* There is one more to be had, and a waiter was woken for it.
LEMMA SpokenMore ==
  ASSUME BufferTypes, BufferTypes', NEW w, NEW t, Spoken(w), Mends(t, w), t \notin OnWay(w),
         ~Overlooked(w), Wanted(w)' <= Wanted(w) + 1,
         Waits(w) => \E u : u \notin OnWay(w) /\ u \in OnWay(w)'
  PROVE  Spoken(w)'
<1>1. Wanted(w) \in Nat /\ Wanted(w)' \in Nat
  BY WantedType
<1> DEFINE A == OnWay(w)
           B == OnWay(w)'
<1>2. /\ IsFiniteSet(A) /\ IsFiniteSet(B) /\ Cardinality(A) \in Nat /\ Cardinality(B) \in Nat
      /\ A \ {t} \subseteq B /\ t \notin A
  BY OnWayFinite DEF Mends
<1>3. /\ Waits(w) => Wanted(w) <= Cardinality(A)
      /\ Waits(w)' => Waits(w)
      /\ ~Overlooked(w)'
      /\ Waits(w) => \E u : u \notin A /\ u \in B
  BY DEF Spoken, Mends
<1>4. Spoken(w)' <=> /\ Waits(w)' => Wanted(w)' <= Cardinality(B)
                     /\ Overlooked(w)' => Wanted(w)' = 0
  BY DEF Spoken
<1> HIDE DEF A, B
<1>5. ASSUME NEW u, u \notin A, u \in B PROVE Cardinality(A) + 1 <= Cardinality(B)
  <2>1. IsFiniteSet(A \cup {u}) /\ Cardinality(A \cup {u}) = Cardinality(A) + 1
    BY <1>2, <1>5, FS_AddElement
  <2>2. A \cup {u} \subseteq B
    BY <1>2, <1>5
  <2>3. QED  BY <1>2, <2>1, <2>2, FS_Subset
<1>6. Waits(w) => Cardinality(A) + 1 <= Cardinality(B)
  BY <1>3, <1>5
<1>7. QED  BY <1>1, <1>2, <1>3, <1>4, <1>6

-----------------------------------------------------------------------------
(* What the parts of the services do.                                      *)

\* A waiter of v is woken when there is one.
Gains(v) == v # None /\ Waits(v) => \E u : u \notin OnWay(v) /\ u \in OnWay(v)'

\* A waiter that is woken by an event joins those on their way.
LEMMA RousedGains ==
  ASSUME BufferInv, NEW u \in Task, NEW w, k.wait_list[u] = w, Rouses(u), woken'[u] = "event"
  PROVE  u \notin OnWay(w) /\ u \in OnWay(w)'
<1>1. CallOf(u) /\ k.wait_list[u] # None
  BY DEF BufferInv, CallInv, Rouses
<1>2. QED  BY <1>1 DEF CallOf, OnWay, Rouses

LEMMA FirstWaiter ==
  ASSUME SchedInv, NEW v \in WaitList, k.waiters[v] # <<>>
  PROVE  highest_waiter(k, v) \in Task
<1>1. k.waiters[v] \in Seq(Task)
  BY FieldTypes DEF SchedInv, TypeOK
<1>2. QED  BY <1>1, HeadElement DEF highest_waiter

\* The end of a call, with or without a waiter to wake.
LEMMA EndCallEffect ==
  ASSUME Disciplined, BufferInv, kind' = kind, NEW t \in Task, Executing(t),
         pc[t] \in {"user", "wait_return"}, NEW v \in WaitList \cup {None}, EndCall(t, v)
  PROVE  SchedInv' /\ CallInv' /\ Gains(v) /\ \A w \in WaitList : Mends(t, w)
<1>1. /\ SchedInv /\ TypeOK /\ pc \in [Task -> TaskPc] /\ timeout \in [Task -> 0 .. Forever]
      /\ woken \in [Task -> {"no", "event", "timeout", "deleted"}]
      /\ deadline \in [Task -> 0 .. TickMod - 1]
      /\ call \in [Task -> {NoCall} \cup SendCall \cup RecvCall]
  BY DEF BufferInv, SchedInv, TypeOK, BufferTypes, CallTypes
<1>2. k.state[t] \in Runnable /\ k.wait_list[t] = None
  BY <1>1, ExecutingFacts, NoWaitList DEF Runnable
<1>3. /\ timeout' = [timeout EXCEPT ![t] = 0] /\ call' = [call EXCEPT ![t] = NoCall]
      /\ UNCHANGED <<current, is_running, lock_vars, pendsv, tick_vars>>
  BY DEF EndCall
<1>4. call'[t] = NoCall /\ \A x \in Task \ {t} : call'[x] = call[x]
  BY <1>1, <1>3
<1>5. timeout' \in [Task -> 0 .. Forever]
  BY <1>1, <1>3, ConstantTypes
<1>6. CASE v = None \/ (v # None /\ k.waiters[v] = <<>>)
  <2>1. (IF v = None THEN None ELSE highest_waiter(k, v)) = None
    BY <1>6 DEF highest_waiter
  <2>2. /\ k' = k /\ pc' = [pc EXCEPT ![t] = "user"]
        /\ woken' = [x \in Task |-> IF x = t THEN "no" ELSE woken[x]]
        /\ deadline' = deadline
    <3>1. /\ k' = k /\ pc' = [pc EXCEPT ![t] = "user"]
          /\ woken' = [x \in Task |-> IF x = None THEN "event" ELSE IF x = t THEN "no" ELSE woken[x]]
          /\ deadline' = [x \in Task |-> IF x = None THEN 0 ELSE deadline[x]]
      BY <2>1 DEF EndCall, Goto
    <3>2. QED  BY <1>1, <3>1, KernelAssumption
  <2>3. TypeOK'
    <3>1. woken' \in [Task -> {"no", "event", "timeout", "deleted"}] /\ pc' \in [Task -> TaskPc]
      BY <1>1, <2>2 DEF TaskPc
    <3>2. QED  BY <1>1, <1>3, <1>5, <2>2, <3>1 DEF TypeOK, lock_vars, tick_vars
  <2>4. SchedInv'
    BY <1>1, <1>3, <2>2, <2>3, BackToUser
  <2>5. Finishes(t)
    BY <1>1, <1>2, <1>4, <2>2 DEF Finishes, InWait
  <2>6. \A x \in Task \ {t} : Quiet(x)
    BY <1>1, <1>3, <1>4, <2>2 DEF Quiet, Undisturbed, SameBlock, InWait, lock_vars
  <2>7. CallInv' /\ \A w \in WaitList : Mends(t, w)
    BY <2>5, <2>6, StepEffect
  <2>8. Gains(v)
    BY <1>1, <1>6, WaitsList DEF Gains
  <2>9. QED  BY <2>4, <2>7, <2>8
<1>7. CASE v # None /\ k.waiters[v] # <<>>
  <2>1. v \in WaitList /\ highest_waiter(k, v) \in Task
    BY <1>1, <1>7, FirstWaiter
  <2> SUFFICES ASSUME NEW u \in Task, u = highest_waiter(k, v)
               PROVE  SchedInv' /\ CallInv' /\ Gains(v) /\ \A w \in WaitList : Mends(t, w)
    BY <2>1
  <2>2. u # None
    BY KernelAssumption
  <2>3. /\ k' = unblock_highest(k, v) /\ pc' = [pc EXCEPT ![t] = "reschedule"]
        /\ woken' = [x \in Task |-> IF x = u THEN "event" ELSE IF x = t THEN "no" ELSE woken[x]]
        /\ deadline' = [x \in Task |-> IF x = u THEN 0 ELSE deadline[x]]
    BY <1>7, <2>2 DEF EndCall, Goto
  <2>4. /\ k.state[u] = "BLOCKED" /\ k.wait_list[u] = v
        /\ k'.state[u] = "READY" /\ k'.wait_list[u] = None
        /\ \A x \in Task \ {u} : k'.state[x] = k.state[x] /\ k'.wait_list[x] = k.wait_list[x]
    BY <1>1, <1>7, <2>1, <2>3, WakeWaits
  <2>5. u # t
    BY <1>2, <2>4 DEF Runnable
  <2>6. TypeOK'
    <3>1. k' \in Kernel
      BY <1>1, <2>1, <2>3, UnblockHighestType DEF TypeOK
    <3>2. /\ woken' \in [Task -> {"no", "event", "timeout", "deleted"}]
          /\ deadline' \in [Task -> 0 .. TickMod - 1] /\ pc' \in [Task -> TaskPc]
      BY <1>1, <2>3, ConstantTypes DEF TaskPc
    <3>3. QED  BY <1>1, <1>3, <1>5, <3>1, <3>2 DEF TypeOK, lock_vars, tick_vars
  <2>7. SchedInv'
    <3>1. /\ k.state[u] \notin Runnable /\ MadeReady(k, k', u, k.priority[u])
          /\ k.priority[u] \in Priority /\ (TimeSlicing => k.priority[u] = Prio[u])
      BY <1>1, <1>7, <2>1, <2>3, SignalEffect
    <3>2. QED  BY <1>1, <1>3, <2>3, <2>6, <3>1, ReadyThenReschedule
  <2>8. Finishes(t)
    BY <1>1, <1>2, <1>4, <2>3, <2>4, <2>5 DEF Finishes, InWait
  <2>9. Rouses(u) /\ woken'[u] = "event"
    BY <1>1, <1>4, <2>1, <2>3, <2>4, <2>5, KernelAssumption DEF Rouses
  <2>10. \A x \in Task \ {t} : Quiet(x) \/ Rouses(x)
    <3>1. ASSUME NEW x \in Task \ {t, u} PROVE Quiet(x)
      <4>1. /\ k'.state[x] = k.state[x] /\ k'.wait_list[x] = k.wait_list[x]
            /\ woken'[x] = woken[x] /\ pc'[x] = pc[x] /\ call'[x] = call[x]
        BY <1>1, <1>4, <2>3, <2>4
      <4>2. QED  BY <1>3, <4>1 DEF Quiet, Undisturbed, SameBlock, InWait, lock_vars
    <3>2. QED  BY <2>9, <3>1
  <2>11. CallInv' /\ \A w \in WaitList : Mends(t, w)
    BY <2>8, <2>10, StepEffect
  <2>12. u \notin OnWay(v) /\ u \in OnWay(v)'
    BY <2>4, <2>9, RousedGains
  <2>13. Gains(v)
    BY <2>12 DEF Gains
  <2>14. QED  BY <2>7, <2>11, <2>13
<1>8. QED  BY <1>6, <1>7

\* A service for interrupts, with or without a waiter to wake.
LEMMA NotifyEffect ==
  ASSUME Disciplined, BufferInv, NEW op, NEW v \in WaitList \cup {None}, NotifyFromIsr(op, v)
  PROVE  SchedInv' /\ CallInv' /\ Gains(v) /\ \A w \in WaitList : Mends(None, w)
<1>1. /\ SchedInv /\ TypeOK /\ None \notin Task
      /\ woken \in [Task -> {"no", "event", "timeout", "deleted"}]
  BY KernelAssumption DEF BufferInv, SchedInv, TypeOK
<1>2. /\ is_running /\ isr \in {"none", "switch"}
      /\ UNCHANGED <<current, is_running, lock_nesting, tick_vars, pc, timeout, call, kind>>
  BY DEF NotifyFromIsr, Interruptible
<1>3. CASE v = None \/ (v # None /\ k.waiters[v] = <<>>)
  <2>1. (IF v = None THEN None ELSE highest_waiter(k, v)) = None
    BY <1>3 DEF highest_waiter
  <2>2. UNCHANGED <<k, woken, deadline, reschedule_pending, pendsv>>
    BY <2>1 DEF NotifyFromIsr, RecordEvent
  <2>3. UNCHANGED vars
    BY <1>2, <2>2 DEF vars, lock_vars, wait_vars
  <2>4. SchedInv' /\ \A t \in Task : Quiet(t)
    BY <1>1, <1>2, <2>3, IdleWaits DEF Quiet
  <2>5. CallInv' /\ \A w \in WaitList : Mends(None, w)
    BY <1>1, <1>2, <2>4, StepEffect
  <2>6. Gains(v)
    BY <1>1, <1>3, WaitsList DEF Gains
  <2>7. QED  BY <2>4, <2>5, <2>6
<1>4. CASE v # None /\ k.waiters[v] # <<>>
  <2>1. v \in WaitList /\ highest_waiter(k, v) \in Task
    BY <1>1, <1>4, FirstWaiter
  <2> SUFFICES ASSUME NEW u \in Task, u = highest_waiter(k, v)
               PROVE  SchedInv' /\ CallInv' /\ Gains(v) /\ \A w \in WaitList : Mends(None, w)
    BY <2>1
  <2>2. u # None
    BY <1>1
  <2>3. /\ k' = unblock_highest(k, v) /\ RecordEvent(u)
        /\ IF k.priority[u] > k.priority[current]
           THEN switch_context(unblock_highest(k, v))
           ELSE UNCHANGED <<reschedule_pending, pendsv>>
    BY <1>4, <2>2 DEF NotifyFromIsr
  <2>4. woken' = [woken EXCEPT ![u] = "event"]
    BY <2>2, <2>3 DEF RecordEvent
  <2>5. /\ k.state[u] = "BLOCKED" /\ k.wait_list[u] = v
        /\ k'.state[u] = "READY" /\ k'.wait_list[u] = None
        /\ \A x \in Task \ {u} : k'.state[x] = k.state[x] /\ k'.wait_list[x] = k.wait_list[x]
    BY <1>1, <1>4, <2>1, <2>3, WakeWaits
  <2>6. TypeOK'
    <3>1. /\ k' \in Kernel
          /\ woken' \in [Task -> {"no", "event", "timeout", "deleted"}]
          /\ deadline' \in [Task -> 0 .. TickMod - 1]
      BY <1>1, <2>1, <2>3, WakeType
    <3>2. reschedule_pending' \in BOOLEAN /\ pendsv' \in BOOLEAN
      BY <1>1, <2>3 DEF TypeOK, switch_context
    <3>3. QED  BY <1>1, <1>2, <3>1, <3>2 DEF TypeOK, tick_vars
  <2>7. SchedInv'
    BY <1>1, <1>2, <1>4, <2>1, <2>3, <2>6, IsrWakeSafe
  <2>8. Rouses(u) /\ woken'[u] = "event"
    BY <1>1, <1>2, <2>1, <2>4, <2>5, KernelAssumption DEF Rouses
  <2>9. \A x \in Task : Quiet(x) \/ Rouses(x)
    <3>1. ASSUME NEW x \in Task \ {u} PROVE Quiet(x)
      <4>1. /\ k'.state[x] = k.state[x] /\ k'.wait_list[x] = k.wait_list[x]
            /\ woken'[x] = woken[x] /\ pc'[x] = pc[x] /\ call'[x] = call[x]
        BY <1>1, <1>2, <2>4, <2>5
      <4>2. QED  BY <1>2, <4>1 DEF Quiet, Undisturbed, SameBlock, InWait
    <3>2. QED  BY <2>8, <3>1
  <2>10. CallInv' /\ \A w \in WaitList : Mends(None, w)
    BY <1>1, <1>2, <2>9, StepEffect
  <2>11. u \notin OnWay(v) /\ u \in OnWay(v)'
    BY <2>5, <2>8, RousedGains
  <2>12. Gains(v)
    BY <2>11 DEF Gains
  <2>13. QED  BY <2>7, <2>10, <2>12
<1>5. QED  BY <1>3, <1>4

\* The test of a call failed: its task is about to wait.
LEMMA GoToWaitEffect ==
  ASSUME Disciplined, BufferInv, NEW t \in Task, NEW c \in SendCall \cup RecvCall, t # Idle,
         Executing(t), pc[t] \in {"user", "wait_return"}, call[t] = NoCall \/ call[t] = c,
         kind = "stream" => t = IF c.op = "send" THEN Writer ELSE Reader, GoToWait(t, c)
  PROVE  SchedInv' /\ CallInv' /\ \A w \in WaitList \ {WaitSide(c)} : Mends(None, w)
<1>1. /\ SchedInv /\ TypeOK /\ pc \in [Task -> TaskPc] /\ timeout \in [Task -> 0 .. Forever]
      /\ woken \in [Task -> {"no", "event", "timeout", "deleted"}]
      /\ call \in [Task -> {NoCall} \cup SendCall \cup RecvCall]
  BY DEF BufferInv, SchedInv, TypeOK, BufferTypes, CallTypes
<1>2. k.state[t] \in Runnable /\ k.wait_list[t] = None /\ current = t
  BY <1>1, ExecutingFacts, NoWaitList DEF Runnable
<1>3. /\ call' = [call EXCEPT ![t] = c] /\ timeout' = [timeout EXCEPT ![t] = 0]
      /\ woken' = [woken EXCEPT ![t] = "no"] /\ pc' = [pc EXCEPT ![t] = "user"]
      /\ UNCHANGED <<k, current, is_running, lock_vars, pendsv, tick_vars, deadline, kind>>
      /\ lock_nesting = 0 /\ c.timeout > 0
  BY DEF GoToWait, Goto, MayBlock, Disciplined
<1>4. TypeOK'
  <2>1. /\ woken' \in [Task -> {"no", "event", "timeout", "deleted"}] /\ pc' \in [Task -> TaskPc]
        /\ timeout' \in [Task -> 0 .. Forever]
    BY <1>1, <1>3, ConstantTypes DEF TaskPc
  <2>2. QED  BY <1>1, <1>3, <2>1 DEF TypeOK, lock_vars, tick_vars
<1>5. SchedInv'
  BY <1>1, <1>3, <1>4, BackToUser
<1>6. c # NoCall /\ c.timeout # 0
  BY <1>3, CallFacts
<1>7. /\ call'[t] = c /\ woken'[t] = "no" /\ pc'[t] = "user"
      /\ \A x \in Task \ {t} : call'[x] = call[x] /\ woken'[x] = woken[x] /\ pc'[x] = pc[x]
  BY <1>1, <1>3
<1>8. CallOf(t)'
  BY <1>2, <1>3, <1>6, <1>7 DEF CallOf, InWait, lock_vars
<1>9. \A x \in Task \ {t} : Quiet(x)
  BY <1>3, <1>7 DEF Quiet, Undisturbed, SameBlock, InWait, lock_vars
<1>10. CallInv'
  BY <1>3, <1>8, <1>9, TaskEffect DEF CallInv
<1>11. ASSUME NEW w \in WaitList, w # WaitSide(c) PROVE Mends(None, w)
  <2>1. Waits(w)' => Waits(w)
    BY <1>3 DEF Waits
  <2>2. ~InGap(t, w)' /\ t \notin OnWay(w)
    BY <1>7, <1>11 DEF InGap, OnWay
  <2>3. Overlooked(w)' => Overlooked(w)
    BY <1>3, <1>9, <2>2, TaskEffect DEF Overlooked
  <2>4. ASSUME NEW x \in OnWay(w) PROVE x \in OnWay(w)'
    BY <1>7, <2>2, <2>4 DEF OnWay
  <2>5. QED  BY <2>1, <2>3, <2>4 DEF Mends
<1>12. QED  BY <1>5, <1>10, <1>11

\* The task blocks, on the list of its call.
LEMMA BlockEffect ==
  ASSUME Disciplined, BufferInv, NEW t \in Task, Block(t)
  PROVE  /\ SchedInv' /\ CallInv' /\ Overlooked(WaitSide(call[t]))
         /\ \A w \in WaitList \ {WaitSide(call[t])} : Mends(None, w)
<1> DEFINE v == WaitSide(call[t])
           n == call[t].timeout
<1>1. /\ Executing(t) /\ pc[t] = "user" /\ call[t] # NoCall /\ WaitListBlock(t, v, n)
      /\ UNCHANGED <<current, is_running, lock_vars, pendsv, tick_vars, call, kind>>
  BY DEF Block, buffer_vars
<1>2. SchedInv /\ CallOf(t) /\ call[t] \in SendCall \cup RecvCall
  BY <1>1 DEF BufferInv, CallInv, BufferTypes, CallTypes
<1>3. v \in WaitList /\ n \in 1 .. Forever
  <2>1. n \in 0 .. Forever /\ n # 0
    BY <1>1, <1>2, CallFacts DEF CallOf
  <2>2. QED  BY <2>1, BufferAssumption, KernelAssumption DEF WaitSide, Forever
<1>4. t # Idle /\ MayBlock
  BY <1>1, <1>2 DEF CallOf, MayBlock, Executing
<1>5. Overlooked(v)
  BY <1>1 DEF Overlooked, InGap
<1>6. /\ SchedInv' /\ k'.wait_list[t] = v /\ v # None /\ pc'[t] = "wait_switch"
      /\ woken'[t] = "no" /\ \A u \in Task \ {t} : Undisturbed(u)
  <2> HIDE DEF v, n
  <2>1. QED  BY <1>1, <1>2, <1>3, <1>4, BlockWaits
<1>7. CallOf(t)'
  BY <1>1, <1>2, <1>4, <1>6 DEF CallOf, InWait
<1>8. \A x \in Task \ {t} : Quiet(x)
  BY <1>1, <1>6 DEF Quiet
<1>9. CallInv'
  BY <1>1, <1>7, <1>8, TaskEffect DEF CallInv
<1>10. ASSUME NEW w \in WaitList, w # v PROVE Mends(None, w)
  <2>1. Waits(w)' => Waits(w)
    BY <1>1, <1>6, <1>8, <1>10, TaskEffect DEF Waits
  <2>2. ~InGap(t, w)' /\ t \notin OnWay(w)
    BY <1>1, <1>10 DEF InGap, OnWay
  <2>3. Overlooked(w)' => Overlooked(w)
    BY <1>1, <1>8, <2>2, TaskEffect DEF Overlooked
  <2>4. ASSUME NEW x \in OnWay(w) PROVE x \in OnWay(w)'
    <3>1. x \in Task \ {t} /\ woken[x] = "event" /\ call[x] # NoCall
      BY <2>2, <2>4 DEF OnWay
    <3>2. QED  BY <1>6, <1>1, <2>4, <3>1 DEF OnWay, Undisturbed
  <2>5. QED  BY <2>1, <2>3, <2>4 DEF Mends
<1>11. QED  BY <1>5, <1>6, <1>9, <1>10

\* The hardware, main and the tick handler, the rest of a service, and the
\* calls of tasks that are in no call of the buffer.
LEMMA SystemEffect ==
  ASSUME Disciplined, BufferInv, UNCHANGED <<kind, call>>,
         \/ SystemStep
         \/ \E t \in Task : KernelStep(t) \/ (call[t] = NoCall /\ CallStep(t))
         \/ UNCHANGED vars
  PROVE  SchedInv' /\ CallInv' /\ \A w \in WaitList : Mends(None, w)
<1>1. SchedInv /\ UNCHANGED <<call, kind>> /\ None \notin Task
  BY KernelAssumption DEF BufferInv
<1>2. CASE SystemStep \/ \E t \in Task : KernelStep(t)
  <2>1. /\ SchedInv'
        /\ \/ WaitsKept
           \/ \E t \in Task : Expires(t) /\ \A u \in Task \ {t} : Undisturbed(u)
    BY <1>1, <1>2, SystemWaits
  <2>2. CASE WaitsKept
    <3>1. ASSUME NEW t \in Task PROVE Quiet(t)
      <4>1. CallOf(t) /\ call'[t] = call[t]
        BY <1>1 DEF BufferInv, CallInv
      <4>2. pc[t] # "user" /\ ~InWait(t) => call[t] = NoCall
        BY <4>1 DEF CallOf
      <4>3. k.state[t] = "BLOCKED" /\ k.wait_list[t] = None => call[t] = NoCall
        BY <4>1 DEF CallOf, Runnable
      <4>4. QED  BY <2>2, <4>1, <4>2, <4>3 DEF WaitsKept, Quiet
    <3>2. QED  BY <1>1, <2>1, <3>1, StepEffect
  <2>3. ASSUME NEW t \in Task, Expires(t), \A u \in Task \ {t} : Undisturbed(u)
        PROVE  SchedInv' /\ CallInv' /\ \A w \in WaitList : Mends(None, w)
    <3>1. Rouses(t) /\ \A u \in Task \ {t} : Quiet(u)
      BY <1>1, <2>3 DEF Expires, Rouses, Quiet
    <3>2. \A x \in Task \ {None} : Quiet(x) \/ Rouses(x)
      BY <3>1
    <3>3. QED  BY <1>1, <2>1, <3>2, StepEffect
  <2>4. QED  BY <2>1, <2>2, <2>3
<1>3. ASSUME NEW t \in Task, call[t] = NoCall, CallStep(t)
      PROVE  SchedInv' /\ CallInv' /\ \A w \in WaitList : Mends(None, w)
  <2>1. SchedInv' /\ Outside(t) /\ \A u \in Task \ {t} : Undisturbed(u)
    BY <1>1, <1>3, CallWaits
  <2>2. \A x \in Task : Quiet(x)
    BY <1>1, <1>3, <2>1 DEF Quiet
  <2>3. QED  BY <1>1, <2>1, <2>2, StepEffect
<1>4. CASE UNCHANGED vars
  <2>1. SchedInv' /\ \A x \in Task : Quiet(x)
    BY <1>1, <1>4, IdleWaits DEF Quiet
  <2>2. QED  BY <1>1, <2>1, StepEffect
<1>5. QED  BY <1>2, <1>3, <1>4

\* The kernel after unblock_all on one list, or on both: the tasks on the lists
\* are ready, and nothing else has changed.
LEMMA UnblockLists ==
  ASSUME SchedInv, NEW W \in {{wait_send}, {wait_send, wait_recv}},
         NEW C, C = {u \in Task : k.wait_list[u] \in W},
         NEW r, r = IF wait_recv \in W
                    THEN unblock_all(unblock_all(k, wait_send), wait_recv)
                    ELSE unblock_all(k, wait_send)
  PROVE  /\ r \in Kernel /\ KernelConsistent(r) /\ r.fault = k.fault /\ r.priority = k.priority
         /\ \A u \in C : k.state[u] = "BLOCKED" /\ k.wait_list[u] # None
         /\ \A u \in Task : /\ r.state[u] = IF u \in C THEN "READY" ELSE k.state[u]
                            /\ r.wait_list[u] = IF u \in C THEN None ELSE k.wait_list[u]
         /\ \/ select_next_task(r) = select_next_task(k)
            \/ k.priority[select_next_task(r)] > k.priority[select_next_task(k)]
<1>1. /\ wait_send \in WaitList /\ wait_recv \in WaitList /\ wait_send # wait_recv
      /\ None \notin WaitList /\ W \subseteq WaitList
  BY BufferAssumption, KernelAssumption
<1>2. \A u \in C : k.state[u] = "BLOCKED" /\ k.wait_list[u] # None
  BY <1>1 DEF SchedInv, KernelConsistent, WaitListsConsistent
<1> DEFINE C1 == {u \in Task : Contains(k.waiters[wait_send], u)}
           r1 == unblock_all(k, wait_send)
<1>3. \A u \in Task : u \in C1 <=> k.wait_list[u] = wait_send
  BY <1>1 DEF SchedInv, KernelConsistent, WaitListsConsistent
<1>4. /\ r1 \in Kernel /\ KernelConsistent(r1) /\ r1.fault = k.fault /\ r1.priority = k.priority
      /\ \A u \in Task : /\ r1.state[u] = IF u \in C1 THEN "READY" ELSE k.state[u]
                         /\ r1.wait_list[u] = IF u \in C1 THEN None ELSE k.wait_list[u]
      /\ \/ select_next_task(r1) = select_next_task(k)
         \/ k.priority[select_next_task(r1)] > k.priority[select_next_task(k)]
  <2>1. C1 = {u \in Task : Contains(k.waiters[wait_send], u)} /\ r1 = unblock_all(k, wait_send)
    OBVIOUS
  <2> HIDE DEF C1, r1
  <2>2. QED  BY <1>1, <2>1, WakeAllWaits
<1>5. r = IF wait_recv \in W THEN unblock_all(r1, wait_recv) ELSE r1
  OBVIOUS
<1> HIDE DEF C1, r1
<1>6. CASE wait_recv \notin W
  <2>1. r = r1 /\ \A u \in Task : u \in C <=> u \in C1
    BY <1>1, <1>3, <1>5, <1>6
  <2>2. QED  BY <1>2, <1>4, <2>1
<1>7. CASE wait_recv \in W
  <2>1. r = unblock_all(r1, wait_recv) /\ W = {wait_send, wait_recv}
    BY <1>1, <1>5, <1>7
  <2>2. Idle \in Task /\ r1.state[Idle] \in Runnable
    BY <1>4, KernelAssumption DEF SchedInv, TasksInv, Runnable
  <2>3. /\ r \in Kernel /\ KernelConsistent(r) /\ r.fault = r1.fault /\ r.priority = r1.priority
        /\ \A u \in Task : IF Contains(r1.waiters[wait_recv], u)
                           THEN r.state[u] = "READY" /\ r.wait_list[u] = None
                           ELSE r.state[u] = r1.state[u] /\ r.wait_list[u] = r1.wait_list[u]
        /\ \/ select_next_task(r) = select_next_task(r1)
           \/ r1.priority[select_next_task(r)] > r1.priority[select_next_task(r1)]
    BY <1>1, <1>4, <2>1, <2>2, UnblockAllEffect
  <2>4. \A u \in Task : Contains(r1.waiters[wait_recv], u) <=> r1.wait_list[u] = wait_recv
    BY <1>1, <1>4 DEF KernelConsistent, WaitListsConsistent
  <2>5. \A u \in Task : /\ r.state[u] = IF u \in C THEN "READY" ELSE k.state[u]
                        /\ r.wait_list[u] = IF u \in C THEN None ELSE k.wait_list[u]
    BY <1>1, <1>3, <1>4, <2>1, <2>3, <2>4
  <2>6. \/ select_next_task(r) = select_next_task(k)
        \/ k.priority[select_next_task(r)] > k.priority[select_next_task(k)]
    <3>1. r.state[Idle] \in Runnable
      BY <2>2, <2>3 DEF Runnable
    <3>2. select_next_task(r) \in Task /\ select_next_task(r1) \in Task
      BY <1>4, <2>2, <2>3, <3>1, SelectHighest
    <3>3. /\ k.priority[select_next_task(r)] \in Nat /\ k.priority[select_next_task(r1)] \in Nat
          /\ k.priority[select_next_task(k)] \in Nat
      BY <3>2, SelectFacts
    <3>4. QED  BY <1>4, <2>3, <3>3
  <2>7. QED  BY <1>2, <1>4, <2>3, <2>5, <2>6
<1>8. QED  BY <1>6, <1>7

\* Every waiter of one list or of both is woken.
LEMMA WakeListsEffect ==
  ASSUME Disciplined, BufferInv, NEW t \in Task, AtUser(t), call[t] = NoCall,
         UNCHANGED <<call, kind>>, NEW W \in {{wait_send}, {wait_send, wait_recv}},
         NEW why \in {"event", "deleted"}, WakeLists(t, W, why)
  PROVE  SchedInv' /\ CallInv' /\ ~Waits(wait_send)' /\ \A w \in WaitList : Mends(None, w)
<1> DEFINE C == {u \in Task : k.wait_list[u] \in W}
<1>1. /\ SchedInv /\ TypeOK /\ k \in Kernel /\ KernelConsistent(k) /\ pc \in [Task -> TaskPc]
      /\ woken \in [Task -> {"no", "event", "timeout", "deleted"}]
      /\ deadline \in [Task -> 0 .. TickMod - 1]
      /\ None \notin WaitList /\ None \notin Task /\ W \subseteq WaitList
  BY KernelAssumption, BufferAssumption DEF BufferInv, SchedInv, TypeOK
<1>2. /\ k' = (IF wait_recv \in W THEN unblock_all(unblock_all(k, wait_send), wait_recv)
                                  ELSE unblock_all(k, wait_send))
      /\ pc' = [pc EXCEPT ![t] = "reschedule"] /\ Executing(t) /\ pc[t] = "user"
      /\ UNCHANGED <<current, is_running, lock_vars, pendsv, tick_vars, timeout>>
  BY DEF WakeLists, Goto, AtUser
<1>3. /\ k' \in Kernel /\ KernelConsistent(k') /\ k'.fault = k.fault /\ k'.priority = k.priority
      /\ \A u \in C : k.state[u] = "BLOCKED" /\ k.wait_list[u] # None
      /\ \A u \in Task : /\ k'.state[u] = IF u \in C THEN "READY" ELSE k.state[u]
                         /\ k'.wait_list[u] = IF u \in C THEN None ELSE k.wait_list[u]
      /\ \/ select_next_task(k') = select_next_task(k)
         \/ k.priority[select_next_task(k')] > k.priority[select_next_task(k)]
  <2>1. C = {u \in Task : k.wait_list[u] \in W}
    OBVIOUS
  <2> HIDE DEF C
  <2>2. QED  BY <1>1, <1>2, <2>1, UnblockLists
<1>4. \A u \in Task : u \in UNION {ToSet(k.waiters[w]) : w \in W} <=> u \in C
  <2>1. ASSUME NEW w \in W, NEW u \in Task PROVE u \in ToSet(k.waiters[w]) <=> k.wait_list[u] = w
    <3>1. w \in WaitList /\ k.waiters[w] \in Seq(Task)
      BY <1>1, FieldTypes
    <3>2. u \in ToSet(k.waiters[w]) <=> Contains(k.waiters[w], u)
      BY <3>1 DEF ToSet, Contains
    <3>3. QED  BY <1>1, <3>1, <3>2 DEF KernelConsistent, WaitListsConsistent
  <2>2. QED  BY <2>1
<1>5. /\ woken' = [u \in Task |-> IF u \in C THEN why ELSE woken[u]]
      /\ deadline' = [u \in Task |-> IF u \in C THEN 0 ELSE deadline[u]]
  BY <1>4 DEF WakeLists
<1>6. C \in SUBSET Task /\ \A u \in Task : k.wait_list[u] = wait_send => u \in C
  BY <1>1
<1> HIDE DEF C
<1>7. SchedInv'
  <2>1. TypeOK'
    <3>1. /\ woken' \in [Task -> {"no", "event", "timeout", "deleted"}]
          /\ deadline' \in [Task -> 0 .. TickMod - 1]
      BY <1>1, <1>5, ConstantTypes
    <3>2. QED  BY <1>1, <1>2, <1>3, <3>1 DEF TypeOK, TaskPc, lock_vars, tick_vars
  <2>2. QED  BY <1>1, <1>2, <1>3, <1>6, <2>1, WokenThenReschedule
<1>8. ~Waits(wait_send)'
  <2>1. \A u \in Task : k'.wait_list[u] # wait_send
    BY <1>1, <1>3, <1>6, BufferAssumption
  <2>2. QED  BY <2>1 DEF Waits
<1>9. pc'[t] = "reschedule" /\ t \notin C /\ \A u \in Task \ {t} : pc'[u] = pc[u]
  <2>1. k.state[t] \in Runnable
    BY <1>1, <1>2, ExecutingFacts
  <2>2. QED  BY <1>1, <1>2, <1>3, <2>1 DEF Runnable
<1>10. ASSUME NEW u \in Task, u \in C PROVE Rouses(u)
  BY <1>3, <1>5, <1>9, <1>10 DEF Rouses
<1>11. ASSUME NEW u \in Task, u \notin C PROVE Quiet(u)
  <2>1. woken'[u] = woken[u] /\ k'.state[u] = k.state[u] /\ k'.wait_list[u] = k.wait_list[u]
    BY <1>3, <1>5, <1>11
  <2>2. QED
    BY <1>2, <1>9, <2>1 DEF Quiet, Undisturbed, SameBlock, Outside, InWait, lock_vars
<1>12. CallInv' /\ \A w \in WaitList : Mends(None, w)
  BY <1>1, <1>10, <1>11, StepEffect
<1>13. QED  BY <1>7, <1>8, <1>12

-----------------------------------------------------------------------------
(* No wake-up is lost: what each operation leaves to be had, and for whom. *)

LEMMA Sides ==
  /\ wait_send \in WaitList /\ wait_recv \in WaitList /\ wait_send # wait_recv
  /\ WaitList = {wait_send, wait_recv}
  /\ None \notin WaitList /\ None \notin Task
BY BufferAssumption, KernelAssumption

LEMMA WakeSides ==
  ASSUME alive' /\ ~excused' => Spoken(wait_send)' /\ Spoken(wait_recv)'
  PROVE  WakeInv'
BY Sides DEF WakeInv

\* What is to be had from a queue, before and after a step.
LEMMA QueueWanted ==
  ASSUME BufferTypes, BufferTypes', kind = "queue", kind' = kind
  PROVE  /\ Wanted(wait_recv) = Len(data) /\ Wanted(wait_recv)' = Len(data')
         /\ Wanted(wait_send) = Capacity - Len(data)
         /\ Wanted(wait_send)' = Capacity - Len(data')
         /\ Len(data) \in Nat /\ Len(data') \in Nat /\ Capacity \in Nat
         /\ Len(data) <= Capacity /\ Len(data') <= Capacity
<1>1. Capacity' = Capacity
  BY DEF Capacity
<1>2. /\ Len(data) \in Nat /\ Len(data') \in Nat /\ Capacity \in Nat
      /\ Len(data) <= Capacity /\ Len(data') <= Capacity
  BY <1>1, CapacityType DEF BufferTypes
<1>3. QED  BY <1>1, <1>2, Sides DEF Wanted, Receivable, Sendable, free

\* What is to be had from a stream buffer.
LEMMA StreamWanted ==
  ASSUME BufferTypes, BufferTypes', kind = "stream", kind' = kind
  PROVE  /\ Wanted(wait_recv) = IF Len(data) >= trigger THEN 1 ELSE 0
         /\ Wanted(wait_recv)' = IF Len(data') >= trigger' THEN 1 ELSE 0
         /\ Wanted(wait_send) = IF Len(data) < Capacity THEN 1 ELSE 0
         /\ Wanted(wait_send)' = IF Len(data') < Capacity THEN 1 ELSE 0
         /\ Len(data) \in Nat /\ Len(data') \in Nat /\ Capacity \in Nat
         /\ Len(data) <= Capacity /\ Len(data') <= Capacity
         /\ trigger \in Nat \ {0} /\ trigger' \in Nat \ {0}
<1>1. Capacity' = Capacity
  BY DEF Capacity
<1>2. /\ Len(data) \in Nat /\ Len(data') \in Nat /\ Capacity \in Nat
      /\ Len(data) <= Capacity /\ Len(data') <= Capacity
      /\ trigger \in Nat \ {0} /\ trigger' \in Nat \ {0}
  BY <1>1, CapacityType DEF BufferTypes
<1>3. /\ Wanted(wait_recv) = IF Len(data) >= trigger THEN 1 ELSE 0
      /\ Wanted(wait_recv)' = IF Len(data') >= trigger' THEN 1 ELSE 0
  BY DEF Wanted, Receivable
<1>4. /\ Wanted(wait_send) = IF Capacity - Len(data) > 0 THEN 1 ELSE 0
      /\ Wanted(wait_send)' = IF Capacity - Len(data') > 0 THEN 1 ELSE 0
  BY <1>1, Sides DEF Wanted, Sendable, free
<1>5. QED  BY <1>2, <1>3, <1>4

\* The buffer is as before: so is what is to be had.
LEMMA SameWanted ==
  ASSUME UNCHANGED <<kind, data, trigger>>, NEW w
  PROVE  Wanted(w)' = Wanted(w)
BY DEF Wanted, Receivable, Sendable, free, Capacity

\* A stream buffer whose writer, or whose reader, is in no call has nobody
\* waiting on that side.
LEMMA StreamAlone ==
  ASSUME CallInv', kind' = "stream", NEW w \in WaitList,
         w = wait_send => call'[Writer] = NoCall, w = wait_recv => call'[Reader] = NoCall
  PROVE  Spoken(w)'
<1>1. ASSUME NEW x \in Task, call'[x] # NoCall PROVE WaitSide(call'[x]) # w
  <2>1. x = IF call'[x].op = "send" THEN Writer ELSE Reader
    BY <1>1 DEF CallInv, CallOf
  <2>2. QED  BY <1>1, <2>1, Sides DEF WaitSide
<1>2. ~Overlooked(w)'
  BY <1>1 DEF Overlooked, InGap
<1>3. ~Waits(w)'
  BY <1>1, Sides DEF Waits, CallInv, CallOf
<1>4. QED  BY <1>2, <1>3, SpokenNobody

\* Task t comes to a test of call c: the first one, or one after a wait.
Tests(t, c) ==
    \/ Calling(t, c) /\ c.op \in {"send", "receive", "peek"}
    \/ Waited(t, c)

\* Where a task is that tests the buffer.
LEMMA TestFacts ==
  ASSUME BufferInv, NEW t \in Task, NEW c \in CallsOf(t), Tests(t, c)
  PROVE  /\ Executing(t) /\ pc[t] \in {"user", "wait_return"} /\ t # Idle
         /\ c \in SendCall \cup RecvCall /\ (call[t] = NoCall \/ call[t] = c)
         /\ \A w \in WaitList : t \in OnWay(w) => w = WaitSide(c) /\ woken[t] = "event"
         /\ kind = "stream" => t = IF c.op = "send" THEN Writer ELSE Reader
<1>1. BufferTypes /\ CallOf(t) /\ CallTypes
  BY DEF BufferInv, CallInv, BufferTypes
<1>2. c # NoCall /\ (call[t] = NoCall \/ call[t] = c)
  BY <1>1, CallsOfFacts
<1>3. c \in SendCall \cup RecvCall
  <2>1. CASE Calling(t, c) /\ c.op \in {"send", "receive", "peek"}
    BY <1>1, <2>1, CallsOfFacts
  <2>2. CASE Waited(t, c)
    BY <1>1, <1>2, <2>2 DEF Waited, CallTypes
  <2>3. QED  BY <2>1, <2>2 DEF Tests
<1>4. Executing(t) /\ pc[t] \in {"user", "wait_return"} /\ t # Idle
  BY <1>1, <1>2 DEF Tests, Calling, AtUser, Waited, CallOf
<1>5. \A w \in WaitList : t \in OnWay(w) => w = WaitSide(c) /\ woken[t] = "event"
  BY <1>2 DEF OnWay
<1>6. ASSUME kind = "stream" PROVE t = IF c.op = "send" THEN Writer ELSE Reader
  <2>1. c.op \in {"send", "receive", "peek"} /\ (entry[t] = c \/ call[t] = c)
    BY <1>1, <1>3, CallFacts, CallsOfFacts
  <2>2. CASE entry[t] = c
    BY <1>1, <1>6, <2>1, <2>2 DEF CallTypes
  <2>3. CASE call[t] = c
    BY <1>1, <1>2, <1>6, <2>3 DEF CallOf
  <2>4. QED  BY <2>1, <2>2, <2>3
<1>7. QED  BY <1>2, <1>3, <1>4, <1>5, <1>6

\* The test of a call failed.
LEMMA WaitsWake ==
  ASSUME Disciplined, BufferInv, WakeInv, BufferTypes', NEW t \in Task, NEW c \in CallsOf(t),
         Tests(t, c), GoToWait(t, c), Wanted(WaitSide(c)) = 0
  PROVE  SchedInv' /\ CallInv' /\ WakeInv'
<1>1. SchedInv' /\ CallInv' /\ \A w \in WaitList \ {WaitSide(c)} : Mends(None, w)
  BY TestFacts, GoToWaitEffect
<1>2. UNCHANGED <<kind, data, trigger, alive, excused>>
  BY DEF GoToWait
<1>3. ASSUME alive', ~excused', NEW w \in WaitList PROVE Spoken(w)'
  <2>1. Spoken(w) /\ BufferTypes
    BY <1>2, <1>3 DEF WakeInv, BufferInv
  <2>2. Wanted(w)' = Wanted(w) /\ Wanted(w) \in Nat
    BY <1>2, <2>1, SameWanted, WantedType
  <2>3. CASE w = WaitSide(c)
    BY <2>2, <2>3, SpokenNothing
  <2>4. CASE w # WaitSide(c)
    <3>1. None \notin OnWay(w)
      BY Sides DEF OnWay
    <3>2. QED  BY <1>1, <2>1, <2>2, <2>4, <3>1, SpokenKept
  <2>5. QED  BY <2>3, <2>4
<1>4. QED  BY <1>1, <1>3, WakeSides, Sides

\* A sender put an item in, and woke a receiver for it.
LEMMA QueueSendWakes ==
  ASSUME Disciplined, BufferInv, WakeInv, BufferTypes', NEW t \in Task, NEW c \in CallsOf(t),
         QueueSend(t, c)
  PROVE  SchedInv' /\ CallInv' /\ WakeInv'
<1>1. /\ kind = "queue" /\ c.op = "send"
      /\ Tests(t, c)
      /\ data' = data \o c.bytes /\ EndCall(t, wait_recv)
      /\ excused' = (excused \/ Overlooked(wait_recv)) /\ UNCHANGED <<kind, trigger, alive>>
  BY DEF QueueSend, QueueTest, Tests
<1>2. /\ Executing(t) /\ pc[t] \in {"user", "wait_return"} /\ c \in SendCall \cup RecvCall
      /\ t \notin OnWay(wait_recv)
  BY <1>1, TestFacts, Sides DEF WaitSide
<1>3. SchedInv' /\ CallInv' /\ Gains(wait_recv) /\ \A w \in WaitList : Mends(t, w)
  BY <1>1, <1>2, EndCallEffect, Sides
<1>4. BufferTypes
  BY DEF BufferInv
<1>5. Len(data') = Len(data) + 1
  <2>1. c.bytes \in Seq(Datum) /\ Len(c.bytes) = 1 /\ data \in Seq(Datum)
    BY <1>1, <1>2, <1>4, CallFacts, BufferFacts
  <2>2. QED  BY <1>1, <2>1, PutFacts
<1>6. /\ Wanted(wait_recv)' <= Wanted(wait_recv) + 1
      /\ Wanted(wait_send)' <= Wanted(wait_send) /\ Wanted(wait_send)' + 1 <= Wanted(wait_send)
  BY <1>1, <1>4, <1>5, QueueWanted
<1>7. ASSUME alive', ~excused' PROVE Spoken(wait_send)' /\ Spoken(wait_recv)'
  <2>1. Spoken(wait_send) /\ Spoken(wait_recv) /\ ~Overlooked(wait_recv)
    BY <1>1, <1>7, Sides DEF WakeInv
  <2>2. Spoken(wait_send)'
    BY <1>3, <1>4, <1>6, <2>1, SpokenKept, Sides
  <2>3. Waits(wait_recv) => \E u : u \notin OnWay(wait_recv) /\ u \in OnWay(wait_recv)'
    BY <1>3, Sides DEF Gains
  <2>4. Spoken(wait_recv)'
    BY <1>2, <1>3, <1>4, <1>6, <2>1, <2>3, SpokenMore, Sides
  <2>5. QED  BY <2>2, <2>4
<1>8. QED  BY <1>3, <1>7, WakeSides

\* A receiver took an item out, and woke a sender for the slot.
LEMMA QueueReceiveWakes ==
  ASSUME Disciplined, BufferInv, WakeInv, BufferTypes', NEW t \in Task, NEW c \in CallsOf(t),
         QueueReceive(t, c)
  PROVE  SchedInv' /\ CallInv' /\ WakeInv'
<1>1. /\ kind = "queue" /\ c.op = "receive"
      /\ Tests(t, c)
      /\ data # <<>> /\ data' = Tail(data) /\ EndCall(t, wait_send)
      /\ excused' = (excused \/ Overlooked(wait_send)) /\ UNCHANGED <<kind, trigger, alive>>
  BY DEF QueueReceive, QueueTest, Tests
<1>2. Executing(t) /\ pc[t] \in {"user", "wait_return"} /\ t \notin OnWay(wait_send)
  BY <1>1, TestFacts, Sides DEF WaitSide
<1>3. SchedInv' /\ CallInv' /\ Gains(wait_send) /\ \A w \in WaitList : Mends(t, w)
  BY <1>1, <1>2, EndCallEffect, Sides
<1>4. BufferTypes
  BY DEF BufferInv
<1>5. Len(data') + 1 = Len(data)
  <2>1. data \in Seq(Datum)
    BY <1>4, BufferFacts
  <2>2. QED  BY <1>1, <2>1
<1>6. /\ Wanted(wait_send)' <= Wanted(wait_send) + 1
      /\ Wanted(wait_recv)' <= Wanted(wait_recv) /\ Wanted(wait_recv)' + 1 <= Wanted(wait_recv)
  BY <1>1, <1>4, <1>5, QueueWanted
<1>7. ASSUME alive', ~excused' PROVE Spoken(wait_send)' /\ Spoken(wait_recv)'
  <2>1. Spoken(wait_send) /\ Spoken(wait_recv) /\ ~Overlooked(wait_send)
    BY <1>1, <1>7, Sides DEF WakeInv
  <2>2. Spoken(wait_recv)'
    BY <1>3, <1>4, <1>6, <2>1, SpokenKept, Sides
  <2>3. Waits(wait_send) => \E u : u \notin OnWay(wait_send) /\ u \in OnWay(wait_send)'
    BY <1>3, Sides DEF Gains
  <2>4. Spoken(wait_send)'
    BY <1>2, <1>3, <1>4, <1>6, <2>1, <2>3, SpokenMore, Sides
  <2>5. QED  BY <2>2, <2>4
<1>8. QED  BY <1>3, <1>7, WakeSides

\* A peek, or a wait that timed out: nothing moves, and no wake-up was used up.
LEMMA QueueLeavesWakes ==
  ASSUME Disciplined, BufferInv, WakeInv, BufferTypes', NEW t \in Task, NEW c \in CallsOf(t),
         QueuePeek(t, c) \/ QueueTimeout(t, c)
  PROVE  SchedInv' /\ CallInv' /\ WakeInv'
<1>1. /\ Tests(t, c)
      /\ EndCall(t, None) /\ excused' = (excused \/ woken[t] = "event")
      /\ UNCHANGED <<kind, data, trigger, alive>>
  BY DEF QueuePeek, QueueTimeout, QueueRefused, QueueTest, Tests
<1>2. /\ Executing(t) /\ pc[t] \in {"user", "wait_return"}
      /\ \A w \in WaitList : t \in OnWay(w) => woken[t] = "event"
  BY <1>1, TestFacts
<1>3. SchedInv' /\ CallInv' /\ \A w \in WaitList : Mends(t, w)
  BY <1>1, <1>2, EndCallEffect
<1>4. ASSUME alive', ~excused', NEW w \in WaitList PROVE Spoken(w)'
  <2>1. Spoken(w) /\ BufferTypes /\ t \notin OnWay(w)
    BY <1>1, <1>2, <1>4 DEF WakeInv, BufferInv
  <2>2. Wanted(w)' = Wanted(w) /\ Wanted(w) \in Nat
    BY <1>1, <2>1, SameWanted, WantedType
  <2>3. QED  BY <1>3, <2>1, <2>2, SpokenKept
<1>5. QED  BY <1>3, <1>4, WakeSides, Sides

\* The test of a call of the queue failed.
LEMMA QueueWaitsWakes ==
  ASSUME Disciplined, BufferInv, WakeInv, BufferTypes', NEW t \in Task, NEW c \in CallsOf(t),
         QueueSendWaits(t, c) \/ QueueReceiveWaits(t, c) \/ QueuePeekWaits(t, c)
  PROVE  SchedInv' /\ CallInv' /\ WakeInv'
<1>1. BufferTypes
  BY DEF BufferInv
<1>2. kind = "queue" /\ GoToWait(t, c)
  BY DEF QueueSendWaits, QueueReceiveWaits, QueuePeekWaits, QueueTest
<1>3. Wanted(WaitSide(c)) = 0
  <2>1. Wanted(wait_recv) = Len(data) /\ Wanted(wait_send) = free
    BY <1>2, Sides DEF Wanted, Receivable, Sendable
  <2>2. \/ c.op = "send" /\ free = 0
        \/ c.op # "send" /\ data = <<>>
    BY DEF QueueSendWaits, QueueReceiveWaits, QueuePeekWaits, QueueTest
  <2>3. QED  BY <1>1, <2>1, <2>2, BufferFacts DEF WaitSide
<1>4. Tests(t, c)
  BY DEF QueueSendWaits, QueueReceiveWaits, QueuePeekWaits, QueueTest, Tests
<1>5. QED  BY <1>2, <1>3, <1>4, WaitsWake

\* What interrupts do to the queue.
LEMMA QueueIsrWakes ==
  ASSUME Disciplined, BufferInv, WakeInv, BufferTypes',
         QueueReceiveFromIsr \/ \E d \in Datum : QueueSendFromIsr(d)
  PROVE  SchedInv' /\ CallInv' /\ WakeInv'
<1>1. BufferTypes /\ data \in Seq(Datum) /\ \A w : None \notin OnWay(w)
  BY BufferFacts, Sides DEF BufferInv, OnWay
<1>2. CASE QueueReceiveFromIsr
  <2>1. /\ kind = "queue" /\ data # <<>> /\ data' = Tail(data)
        /\ NotifyFromIsr("receive_from_isr", wait_send)
    BY <1>2 DEF QueueReceiveFromIsr
  <2>2. excused' = (excused \/ Overlooked(wait_send)) /\ UNCHANGED <<kind, alive>>
    BY <2>1, Sides DEF NotifyFromIsr
  <2>3. SchedInv' /\ CallInv' /\ Gains(wait_send) /\ \A w \in WaitList : Mends(None, w)
    BY <2>1, NotifyEffect, Sides
  <2>4. Len(data') + 1 = Len(data)
    BY <1>1, <2>1
  <2>5. /\ Wanted(wait_send)' <= Wanted(wait_send) + 1 /\ Wanted(wait_recv)' <= Wanted(wait_recv)
    BY <1>1, <2>1, <2>2, <2>4, QueueWanted
  <2>6. ASSUME alive', ~excused' PROVE Spoken(wait_send)' /\ Spoken(wait_recv)'
    <3>1. Spoken(wait_send) /\ Spoken(wait_recv) /\ ~Overlooked(wait_send)
      BY <2>2, <2>6, Sides DEF WakeInv
    <3>2. Spoken(wait_recv)'
      BY <1>1, <2>3, <2>5, <3>1, SpokenKept, Sides
    <3>3. Waits(wait_send) => \E u : u \notin OnWay(wait_send) /\ u \in OnWay(wait_send)'
      BY <2>3, Sides DEF Gains
    <3>4. Spoken(wait_send)'
      BY <1>1, <2>3, <2>5, <3>1, <3>3, SpokenMore, Sides
    <3>5. QED  BY <3>2, <3>4
  <2>7. QED  BY <2>3, <2>6, WakeSides
<1>3. ASSUME NEW d \in Datum, QueueSendFromIsr(d) PROVE SchedInv' /\ CallInv' /\ WakeInv'
  <2>1. /\ kind = "queue" /\ data' = Append(data, d)
        /\ NotifyFromIsr("send_from_isr", wait_recv)
    BY <1>3 DEF QueueSendFromIsr
  <2>2. excused' = (excused \/ Overlooked(wait_recv)) /\ UNCHANGED <<kind, alive>>
    BY <2>1, Sides DEF NotifyFromIsr
  <2>3. SchedInv' /\ CallInv' /\ Gains(wait_recv) /\ \A w \in WaitList : Mends(None, w)
    BY <2>1, NotifyEffect, Sides
  <2>4. Len(data') = Len(data) + 1
    BY <1>1, <2>1
  <2>5. /\ Wanted(wait_recv)' <= Wanted(wait_recv) + 1 /\ Wanted(wait_send)' <= Wanted(wait_send)
    BY <1>1, <2>1, <2>2, <2>4, QueueWanted
  <2>6. ASSUME alive', ~excused' PROVE Spoken(wait_send)' /\ Spoken(wait_recv)'
    <3>1. Spoken(wait_send) /\ Spoken(wait_recv) /\ ~Overlooked(wait_recv)
      BY <2>2, <2>6, Sides DEF WakeInv
    <3>2. Spoken(wait_send)'
      BY <1>1, <2>3, <2>5, <3>1, SpokenKept, Sides
    <3>3. Waits(wait_recv) => \E u : u \notin OnWay(wait_recv) /\ u \in OnWay(wait_recv)'
      BY <2>3, Sides DEF Gains
    <3>4. Spoken(wait_recv)'
      BY <1>1, <2>3, <2>5, <3>1, <3>3, SpokenMore, Sides
    <3>5. QED  BY <3>2, <3>4
  <2>7. QED  BY <2>3, <2>6, WakeSides
<1>4. QED  BY <1>2, <1>3

\* The writer wrote: at the trigger level it woke the reader, and nobody else
\* waits to write.
LEMMA StreamSendWakes ==
  ASSUME Disciplined, BufferInv, WakeInv, BufferTypes', NEW t \in Task, NEW c \in CallsOf(t),
         StreamSend(t, c)
  PROVE  SchedInv' /\ CallInv' /\ WakeInv'
<1>1. /\ kind = "stream" /\ c.op = "send" /\ Tests(t, c)
      /\ EndCall(t, WriteNotifies) /\ UNCHANGED <<kind, trigger, alive>>
      /\ excused' = (excused \/ (WriteNotifies # None /\ Overlooked(wait_recv)))
  BY DEF StreamSend, StreamTest, Tests
<1>2. Executing(t) /\ pc[t] \in {"user", "wait_return"} /\ t \notin OnWay(wait_recv)
  BY <1>1, TestFacts, Sides DEF WaitSide
<1>3. PICK v \in WaitList \cup {None} : v = WriteNotifies /\ EndCall(t, v)
  BY <1>1, Sides DEF WriteNotifies
<1>4. SchedInv' /\ CallInv' /\ Gains(v) /\ \A w \in WaitList : Mends(t, w)
  BY <1>1, <1>2, <1>3, EndCallEffect
<1>5. BufferTypes /\ call'[Writer] = NoCall
  <2>1. t = Writer /\ call' = [call EXCEPT ![t] = NoCall]
    BY <1>1, <1>3, TestFacts DEF EndCall
  <2>2. QED  BY <2>1 DEF BufferInv, BufferTypes, CallTypes
<1>6. ASSUME alive', ~excused' PROVE Spoken(wait_send)' /\ Spoken(wait_recv)'
  <2>1. Spoken(wait_send)'
    BY <1>1, <1>4, <1>5, StreamAlone, Sides
  <2>2. CASE Len(data') >= trigger
    <3>1. v = wait_recv /\ ~Overlooked(wait_recv) /\ Spoken(wait_recv)
      BY <1>1, <1>3, <1>6, <2>2, Sides DEF WriteNotifies, WakeInv
    <3>2. Wanted(wait_recv)' <= Wanted(wait_recv) + 1
      BY <1>1, <1>5, StreamWanted
    <3>3. Waits(wait_recv) => \E u : u \notin OnWay(wait_recv) /\ u \in OnWay(wait_recv)'
      BY <1>4, <3>1, Sides DEF Gains
    <3>4. Spoken(wait_recv)'
      BY <1>2, <1>4, <1>5, <3>1, <3>2, <3>3, SpokenMore, Sides
    <3>5. QED  BY <2>1, <3>4
  <2>3. CASE ~(Len(data') >= trigger)
    <3>1. Wanted(wait_recv)' = 0
      BY <1>1, <1>5, <2>3, StreamWanted
    <3>2. QED  BY <2>1, <3>1, SpokenNothing
  <2>4. QED  BY <2>2, <2>3
<1>7. QED  BY <1>4, <1>6, WakeSides

\* The reader read: if anything, it woke the writer, and nobody else waits to
\* read.
LEMMA StreamReceiveWakes ==
  ASSUME Disciplined, BufferInv, WakeInv, BufferTypes', NEW t \in Task, NEW c \in CallsOf(t),
         StreamReceive(t, c)
  PROVE  SchedInv' /\ CallInv' /\ WakeInv'
<1>1. /\ kind = "stream" /\ c.op = "receive" /\ Tests(t, c)
      /\ EndCall(t, ReadNotifies) /\ UNCHANGED <<kind, trigger, alive>>
      /\ excused' = (excused \/ (ReadNotifies # None /\ Overlooked(wait_send)))
  BY DEF StreamReceive, StreamTest, Tests
<1>2. Executing(t) /\ pc[t] \in {"user", "wait_return"} /\ t \notin OnWay(wait_send)
  BY <1>1, TestFacts, Sides DEF WaitSide
<1>3. PICK v \in WaitList \cup {None} : v = ReadNotifies /\ EndCall(t, v)
  BY <1>1, Sides DEF ReadNotifies
<1>4. SchedInv' /\ CallInv' /\ Gains(v) /\ \A w \in WaitList : Mends(t, w)
  BY <1>1, <1>2, <1>3, EndCallEffect
<1>5. BufferTypes /\ call'[Reader] = NoCall
  <2>1. t = Reader /\ call' = [call EXCEPT ![t] = NoCall]
    BY <1>1, <1>3, TestFacts DEF EndCall
  <2>2. QED  BY <2>1 DEF BufferInv, BufferTypes, CallTypes
<1>6. ASSUME alive', ~excused' PROVE Spoken(wait_send)' /\ Spoken(wait_recv)'
  <2>1. Spoken(wait_recv)'
    BY <1>1, <1>4, <1>5, StreamAlone, Sides
  <2>2. Spoken(wait_send)
    BY <1>1, <1>6, Sides DEF WakeInv
  <2>3. CASE data' # data
    <3>1. v = wait_send /\ ~Overlooked(wait_send)
      BY <1>1, <1>3, <1>6, <2>3, Sides DEF ReadNotifies
    <3>2. Wanted(wait_send)' <= Wanted(wait_send) + 1
      BY <1>1, <1>5, StreamWanted
    <3>3. Waits(wait_send) => \E u : u \notin OnWay(wait_send) /\ u \in OnWay(wait_send)'
      BY <1>4, <3>1, Sides DEF Gains
    <3>4. Spoken(wait_send)'
      BY <1>2, <1>4, <1>5, <2>2, <3>1, <3>2, <3>3, SpokenMore, Sides
    <3>5. QED  BY <2>1, <3>4
  <2>4. CASE data' = data
    <3>1. Wanted(wait_send)' = Wanted(wait_send) /\ Wanted(wait_send) \in Nat
      BY <1>1, <1>5, <2>4, SameWanted, WantedType
    <3>2. Spoken(wait_send)'
      BY <1>2, <1>4, <1>5, <2>2, <3>1, SpokenKept, Sides
    <3>3. QED  BY <2>1, <3>2
  <2>5. QED  BY <2>3, <2>4
<1>7. QED  BY <1>4, <1>6, WakeSides

\* A call of a stream buffer that waited for nothing.
LEMMA StreamFailsWakes ==
  ASSUME Disciplined, BufferInv, WakeInv, BufferTypes', NEW t \in Task, NEW c \in CallsOf(t),
         StreamFails(t, c)
  PROVE  SchedInv' /\ CallInv' /\ WakeInv'
<1>1. /\ kind = "stream" /\ Tests(t, c) /\ EndCall(t, None)
      /\ alive => c.op = "send"
      /\ UNCHANGED <<kind, data, trigger, alive, excused>>
  BY DEF StreamFails, StreamTest, Tests
<1>2. /\ Executing(t) /\ pc[t] \in {"user", "wait_return"} /\ c \in SendCall \cup RecvCall
      /\ \A w \in WaitList : t \in OnWay(w) => w = WaitSide(c)
  BY <1>1, TestFacts
<1>3. SchedInv' /\ CallInv' /\ \A w \in WaitList : Mends(t, w)
  BY <1>1, <1>2, EndCallEffect
<1>4. BufferTypes /\ call'[t] = NoCall
  BY <1>1 DEF BufferInv, BufferTypes, CallTypes, EndCall
<1>5. ASSUME alive', ~excused' PROVE Spoken(wait_send)' /\ Spoken(wait_recv)'
  <2>1. Spoken(wait_recv) /\ c.op = "send" /\ t \notin OnWay(wait_recv)
    BY <1>1, <1>2, <1>5, Sides DEF WakeInv, WaitSide
  <2>2. t = Writer
    BY <1>1, <2>1, TestFacts
  <2>3. Spoken(wait_send)'
    BY <1>1, <1>3, <1>4, <2>2, StreamAlone, Sides
  <2>4. Wanted(wait_recv)' = Wanted(wait_recv) /\ Wanted(wait_recv) \in Nat
    BY <1>1, <1>4, SameWanted, WantedType
  <2>5. Spoken(wait_recv)'
    BY <1>3, <1>4, <2>1, <2>4, SpokenKept, Sides
  <2>6. QED  BY <2>3, <2>5
<1>6. QED  BY <1>3, <1>5, WakeSides

\* The test of a call of the stream buffer failed.
LEMMA StreamWaitsWakes ==
  ASSUME Disciplined, BufferInv, WakeInv, BufferTypes', NEW t \in Task, NEW c \in CallsOf(t),
         StreamSendWaits(t, c) \/ StreamReceiveWaits(t, c)
  PROVE  SchedInv' /\ CallInv' /\ WakeInv'
<1>1. BufferTypes
  BY DEF BufferInv
<1>2. /\ kind = "stream" /\ GoToWait(t, c)
      /\ Tests(t, c)
  BY DEF StreamSendWaits, StreamReceiveWaits, StreamTest, Tests
<1>3. Wanted(WaitSide(c)) = 0
  <2>1. /\ Wanted(wait_recv) = IF Len(data) >= trigger THEN 1 ELSE 0
        /\ Wanted(wait_send) = IF free > 0 THEN 1 ELSE 0
    BY <1>2, Sides DEF Wanted, Receivable, Sendable
  <2>2. \/ c.op = "send" /\ free = 0
        \/ c.op # "send" /\ Len(data) < trigger
    BY DEF StreamSendWaits, StreamReceiveWaits, StreamTest
  <2>3. QED  BY <1>1, <2>1, <2>2, BufferFacts DEF WaitSide
<1>4. QED  BY <1>2, <1>3, WaitsWake

\* A task that comes to a call without arguments waits for nothing.
LEMMA ControlWaits ==
  ASSUME BufferInv, NEW t \in Task, NEW op \in {"reset", "set_trigger_level", "delete"},
         Calling(t, Control(op))
  PROVE  AtUser(t) /\ call[t] = NoCall /\ \A w : t \notin OnWay(w)
<1>1. Control(op) # NoCall
  BY DEF Control, NoCall
<1>2. AtUser(t) /\ call[t] = NoCall
  BY <1>1 DEF Calling, BufferInv, BufferTypes, CallTypes
<1>3. QED  BY <1>2 DEF OnWay

\* The trigger level changes: at the new level the reader is woken.
LEMMA SetTriggerLevelWakes ==
  ASSUME Disciplined, BufferInv, WakeInv, BufferTypes', NEW t \in Task,
         NEW n \in 1 .. StreamCapacity, SetTriggerLevel(t, n)
  PROVE  SchedInv' /\ CallInv' /\ WakeInv'
<1>1. PICK v \in WaitList \cup {None} :
         /\ v = (IF Len(data) >= n THEN wait_recv ELSE None) /\ EndCall(t, v)
         /\ excused' = (excused \/ (v # None /\ Overlooked(v)))
  BY Sides DEF SetTriggerLevel
<1>2. /\ kind = "stream" /\ Calling(t, Control("set_trigger_level")) /\ trigger' = n
      /\ UNCHANGED <<kind, data, alive>>
  BY DEF SetTriggerLevel
<1>3. Executing(t) /\ pc[t] \in {"user", "wait_return"} /\ \A w : t \notin OnWay(w)
  BY <1>2, ControlWaits DEF AtUser
<1>4. SchedInv' /\ CallInv' /\ Gains(v) /\ \A w \in WaitList : Mends(t, w)
  BY <1>1, <1>2, <1>3, EndCallEffect
<1>5. BufferTypes
  BY DEF BufferInv
<1>6. ASSUME alive', ~excused' PROVE Spoken(wait_send)' /\ Spoken(wait_recv)'
  <2>1. Spoken(wait_send) /\ Spoken(wait_recv)
    BY <1>1, <1>2, <1>6, Sides DEF WakeInv
  <2>2. Wanted(wait_send)' <= Wanted(wait_send)
    BY <1>2, <1>5, StreamWanted
  <2>3. Spoken(wait_send)'
    BY <1>3, <1>4, <1>5, <2>1, <2>2, SpokenKept, Sides
  <2>4. CASE Len(data) >= n
    <3>1. v = wait_recv /\ ~Overlooked(wait_recv)
      BY <1>1, <1>6, <2>4, Sides
    <3>2. Wanted(wait_recv)' <= Wanted(wait_recv) + 1
      BY <1>2, <1>5, StreamWanted
    <3>3. Waits(wait_recv) => \E u : u \notin OnWay(wait_recv) /\ u \in OnWay(wait_recv)'
      BY <1>4, <3>1, Sides DEF Gains
    <3>4. Spoken(wait_recv)'
      BY <1>3, <1>4, <1>5, <2>1, <3>1, <3>2, <3>3, SpokenMore, Sides
    <3>5. QED  BY <2>3, <3>4
  <2>5. CASE ~(Len(data) >= n)
    <3>1. Wanted(wait_recv)' = 0
      BY <1>2, <1>5, <2>5, StreamWanted
    <3>2. QED  BY <2>3, <3>1, SpokenNothing
  <2>6. QED  BY <2>4, <2>5
<1>7. QED  BY <1>4, <1>6, WakeSides

\* What interrupts do to the stream buffer.
LEMMA StreamSendFromIsrWakes ==
  ASSUME Disciplined, BufferInv, WakeInv, BufferTypes', NEW c \in SendCall,
         StreamSendFromIsr(c.bytes)
  PROVE  SchedInv' /\ CallInv' /\ WakeInv'
<1>1. /\ BufferTypes /\ data \in Seq(Datum) /\ kind = "stream"
      /\ \A w : None \notin OnWay(w)
  BY BufferFacts, Sides DEF BufferInv, OnWay, StreamSendFromIsr, StreamReceiveFromIsr
<1>2. /\ data' = data \o SubSeq(c.bytes, 1, Min({Len(c.bytes), free}))
      /\ NotifyFromIsr("send_from_isr", WriteNotifies)
  BY DEF StreamSendFromIsr, write_bytes
<1>3. PICK v \in WaitList \cup {None} : v = WriteNotifies /\ NotifyFromIsr("send_from_isr", v)
  BY <1>2, Sides DEF WriteNotifies
<1>4. /\ excused' = (excused \/ (v # None /\ Overlooked(v))) /\ UNCHANGED <<kind, trigger, alive>>
  BY <1>3 DEF NotifyFromIsr
<1>5. SchedInv' /\ CallInv' /\ Gains(v) /\ \A w \in WaitList : Mends(None, w)
  BY <1>3, NotifyEffect
<1>6. Len(data') >= Len(data)
  <2> DEFINE n == Min({Len(c.bytes), free})
             s == SubSeq(c.bytes, 1, n)
  <2>1. c.op = "send" /\ c.bytes \in Seq(Datum) /\ Len(c.bytes) \in Nat
    BY CallFacts DEF SendCall, Sends
  <2>2. free \in Nat
    BY <1>1, BufferFacts
  <2>3. n \in 0 .. Len(c.bytes)
    BY <2>1, <2>2, MinPair
  <2>4. n \in Nat
    BY <2>1, <2>2, MinPair
  <2>5. data' = data \o s
    BY <1>2
  <2> HIDE DEF n
  <2>6. s \in Seq(Datum) /\ Len(s) = n
    BY <2>1, <2>3, TakeFacts
  <2> HIDE DEF s
  <2>7. Len(data \o s) = Len(data) + Len(s) /\ Len(data) \in Nat
    BY <1>1, <2>6
  <2>8. QED  BY <2>4, <2>5, <2>6, <2>7
<1>7. ASSUME alive', ~excused' PROVE Spoken(wait_send)' /\ Spoken(wait_recv)'
  <2>1. Spoken(wait_send) /\ Spoken(wait_recv)
    BY <1>4, <1>7, Sides DEF WakeInv
  <2>2. Wanted(wait_send)' <= Wanted(wait_send)
    BY <1>1, <1>4, <1>6, StreamWanted
  <2>3. Spoken(wait_send)'
    BY <1>1, <1>5, <2>1, <2>2, SpokenKept, Sides
  <2>4. CASE Len(data') >= trigger
    <3>1. v = wait_recv /\ ~Overlooked(wait_recv)
      BY <1>3, <1>4, <1>7, <2>4, Sides DEF WriteNotifies
    <3>2. Wanted(wait_recv)' <= Wanted(wait_recv) + 1
      BY <1>1, <1>4, StreamWanted
    <3>3. Waits(wait_recv) => \E u : u \notin OnWay(wait_recv) /\ u \in OnWay(wait_recv)'
      BY <1>5, <3>1, Sides DEF Gains
    <3>4. Spoken(wait_recv)'
      BY <1>1, <1>5, <2>1, <3>1, <3>2, <3>3, SpokenMore, Sides
    <3>5. QED  BY <2>3, <3>4
  <2>5. CASE ~(Len(data') >= trigger)
    <3>1. Wanted(wait_recv)' = 0
      BY <1>1, <1>4, <2>5, StreamWanted
    <3>2. QED  BY <2>3, <3>1, SpokenNothing
  <2>6. QED  BY <2>4, <2>5
<1>8. QED  BY <1>5, <1>7, WakeSides

LEMMA StreamReceiveFromIsrWakes ==
  ASSUME Disciplined, BufferInv, WakeInv, BufferTypes', NEW m \in Lengths,
         StreamReceiveFromIsr(m)
  PROVE  SchedInv' /\ CallInv' /\ WakeInv'
<1>1. /\ BufferTypes /\ data \in Seq(Datum) /\ kind = "stream"
      /\ \A w : None \notin OnWay(w)
  BY BufferFacts, Sides DEF BufferInv, OnWay, StreamSendFromIsr, StreamReceiveFromIsr
<1>2. /\ data' = SubSeq(data, Min({m, Len(data)}) + 1, Len(data))
      /\ NotifyFromIsr("receive_from_isr", ReadNotifies)
  BY DEF StreamReceiveFromIsr, read_bytes
<1>3. PICK v \in WaitList \cup {None} : v = ReadNotifies /\ NotifyFromIsr("receive_from_isr", v)
  BY <1>2, Sides DEF ReadNotifies
<1>4. /\ excused' = (excused \/ (v # None /\ Overlooked(v))) /\ UNCHANGED <<kind, trigger, alive>>
  BY <1>3 DEF NotifyFromIsr
<1>5. SchedInv' /\ CallInv' /\ Gains(v) /\ \A w \in WaitList : Mends(None, w)
  BY <1>3, NotifyEffect
<1>6. Len(data') <= Len(data)
  <2> DEFINE n == Min({m, Len(data)})
  <2>1. m \in Nat /\ Len(data) \in Nat
    BY <1>1, BufferAssumption DEF Lengths
  <2>2. n \in {m, Len(data)} /\ n <= Len(data)
    BY <2>1, MinPair
  <2>3. n \in 0 .. Len(data) /\ data' = SubSeq(data, n + 1, Len(data))
    BY <1>2, <2>1, <2>2
  <2> HIDE DEF n
  <2>4. Len(data') = Len(data) - n
    BY <1>1, <2>3, TakeFacts
  <2>5. QED  BY <2>1, <2>3, <2>4
<1>7. ASSUME alive', ~excused' PROVE Spoken(wait_send)' /\ Spoken(wait_recv)'
  <2>1. Spoken(wait_send) /\ Spoken(wait_recv)
    BY <1>4, <1>7, Sides DEF WakeInv
  <2>2. Wanted(wait_recv)' <= Wanted(wait_recv)
    BY <1>1, <1>4, <1>6, StreamWanted
  <2>3. Spoken(wait_recv)'
    BY <1>1, <1>5, <2>1, <2>2, SpokenKept, Sides
  <2>4. CASE data' # data
    <3>1. v = wait_send /\ ~Overlooked(wait_send)
      BY <1>3, <1>4, <1>7, <2>4, Sides DEF ReadNotifies
    <3>2. Wanted(wait_send)' <= Wanted(wait_send) + 1
      BY <1>1, <1>4, StreamWanted
    <3>3. Waits(wait_send) => \E u : u \notin OnWay(wait_send) /\ u \in OnWay(wait_send)'
      BY <1>5, <3>1, Sides DEF Gains
    <3>4. Spoken(wait_send)'
      BY <1>1, <1>5, <2>1, <3>1, <3>2, <3>3, SpokenMore, Sides
    <3>5. QED  BY <2>3, <3>4
  <2>5. CASE data' = data
    <3>1. Wanted(wait_send)' <= Wanted(wait_send)
      BY <1>1, <1>4, <2>5, StreamWanted
    <3>2. Spoken(wait_send)'
      BY <1>1, <1>5, <2>1, <3>1, SpokenKept, Sides
    <3>3. QED  BY <2>3, <3>2
  <2>6. QED  BY <2>4, <2>5
<1>8. QED  BY <1>5, <1>7, WakeSides

\* A reset leaves nothing to receive; whoever waits to send has been woken.
LEMMA ResetWakes ==
  ASSUME Disciplined, BufferInv, WakeInv, BufferTypes', NEW t \in Task,
         QueueReset(t) \/ StreamReset(t)
  PROVE  SchedInv' /\ CallInv' /\ WakeInv'
<1>1. /\ Calling(t, Control("reset")) /\ data' = <<>>
      /\ UNCHANGED <<kind, trigger, alive, call>>
  BY DEF QueueReset, StreamReset, WakeLists
<1>2. BufferTypes /\ SchedInv /\ AtUser(t) /\ call[t] = NoCall /\ None \notin Task
  BY <1>1, ControlWaits, Sides DEF BufferInv
<1>3. Spoken(wait_recv)'
  <2>1. Len(data') = 0
    BY <1>1
  <2>2. CASE kind = "queue"
    <3>1. Wanted(wait_recv)' = 0
      BY <1>1, <1>2, <2>1, <2>2, QueueWanted
    <3>2. QED  BY <3>1, SpokenNothing
  <2>3. CASE kind = "stream"
    <3>1. Wanted(wait_recv)' = 0
      BY <1>1, <1>2, <2>1, <2>3, StreamWanted
    <3>2. QED  BY <3>1, SpokenNothing
  <2>4. QED  BY <2>2, <2>3 DEF QueueReset, StreamReset
<1>4. CASE QueueReset(t)
  <2>1. /\ UNCHANGED vars
        /\ excused' = (excused \/ k.waiters[wait_send] # <<>> \/ Overlooked(wait_send))
    BY <1>4 DEF QueueReset
  <2>2. SchedInv' /\ \A x \in Task : Quiet(x)
    BY <1>1, <1>2, <2>1, IdleWaits DEF Quiet
  <2>3. CallInv' /\ \A w \in WaitList : Mends(None, w)
    BY <1>1, <1>2, <2>2, StepEffect
  <2>4. ASSUME ~excused' PROVE Spoken(wait_send)'
    <3>1. ~Waits(wait_send) /\ ~Overlooked(wait_send)
      BY <1>2, <2>1, <2>4, WaitsList, Sides
    <3>2. QED  BY <2>3, <3>1, SpokenNobody, Sides DEF Mends
  <2>5. QED  BY <1>3, <2>2, <2>3, <2>4, WakeSides
<1>5. CASE StreamReset(t)
  <2>1. WakeLists(t, {wait_send}, "event") /\ excused' = (excused \/ Overlooked(wait_send))
    BY <1>5 DEF StreamReset
  <2>2. SchedInv' /\ CallInv' /\ ~Waits(wait_send)' /\ \A w \in WaitList : Mends(None, w)
    BY <1>1, <1>2, <2>1, WakeListsEffect
  <2>3. ASSUME ~excused' PROVE Spoken(wait_send)'
    BY <2>1, <2>2, <2>3, SpokenNobody, Sides DEF Mends
  <2>4. QED  BY <1>3, <2>2, <2>3, WakeSides
<1>6. QED  BY <1>4, <1>5

\* The buffer goes, or comes again while nobody has to do with it.
LEMMA DeleteWakes ==
  ASSUME Disciplined, BufferInv, NEW t \in Task, Delete(t)
  PROVE  SchedInv' /\ CallInv' /\ WakeInv'
<1>1. /\ AtUser(t) /\ call[t] = NoCall /\ UNCHANGED <<call, kind>> /\ alive' = FALSE
      /\ WakeLists(t, {wait_send, wait_recv}, "deleted")
  BY ControlWaits DEF Delete, WakeLists
<1>2. SchedInv' /\ CallInv'
  BY <1>1, WakeListsEffect
<1>3. QED  BY <1>1, <1>2 DEF WakeInv

LEMMA CreateAgainWakes ==
  ASSUME Disciplined, BufferInv, NEW t \in Task, CreateAgain(t)
  PROVE  SchedInv' /\ CallInv' /\ WakeInv'
<1>1. UNCHANGED vars /\ kind' = kind /\ call' = call /\ \A u \in Task : call[u] = NoCall
  BY DEF CreateAgain, CallsOf
<1>2. SchedInv /\ None \notin Task
  BY Sides DEF BufferInv
<1>3. SchedInv' /\ \A x \in Task : Quiet(x)
  <2>1. SchedInv' /\ \A x \in Task : Undisturbed(x)
    BY <1>1, <1>2, IdleWaits
  <2>2. QED  BY <1>1, <2>1 DEF Quiet
<1>4. CallInv'
  BY <1>1, <1>2, <1>3, StepEffect
<1>5. \A w \in WaitList : ~Overlooked(w)' /\ ~Waits(w)'
  BY <1>1, <1>4, Sides DEF Overlooked, InGap, Waits, CallInv, CallOf
<1>6. QED  BY <1>3, <1>4, <1>5, SpokenNobody, WakeSides, Sides

\* A task joins its list: since its test there has been nothing to be had.
LEMMA BlockWakes ==
  ASSUME Disciplined, BufferInv, WakeInv, BufferTypes', NEW t \in Task, Block(t)
  PROVE  SchedInv' /\ CallInv' /\ WakeInv'
<1>1. /\ SchedInv' /\ CallInv' /\ Overlooked(WaitSide(call[t]))
      /\ \A w \in WaitList \ {WaitSide(call[t])} : Mends(None, w)
  BY BlockEffect
<1>2. UNCHANGED <<kind, data, trigger, alive, excused>>
  BY DEF Block, buffer_vars
<1>3. ASSUME alive', ~excused', NEW w \in WaitList PROVE Spoken(w)'
  <2>1. Spoken(w) /\ BufferTypes
    BY <1>2, <1>3 DEF WakeInv, BufferInv
  <2>2. Wanted(w)' = Wanted(w) /\ Wanted(w) \in Nat
    BY <1>2, <2>1, SameWanted, WantedType
  <2>3. CASE w = WaitSide(call[t])
    <3>1. Wanted(w) = 0
      BY <1>1, <2>1, <2>3 DEF Spoken
    <3>2. QED  BY <2>2, <3>1, SpokenNothing
  <2>4. CASE w # WaitSide(call[t])
    <3>1. None \notin OnWay(w)
      BY Sides DEF OnWay
    <3>2. QED  BY <1>1, <2>1, <2>2, <2>4, <3>1, SpokenKept
  <2>5. QED  BY <2>3, <2>4
<1>4. QED  BY <1>1, <1>3, WakeSides, Sides

\* The steps below the buffer.
LEMMA SystemWakes ==
  ASSUME Disciplined, BufferInv, WakeInv, BufferTypes',
         UNCHANGED <<kind, data, trigger, alive, call, excused>>,
         \/ SystemStep
         \/ \E t \in Task : KernelStep(t) \/ (call[t] = NoCall /\ CallStep(t))
         \/ UNCHANGED vars
  PROVE  SchedInv' /\ CallInv' /\ WakeInv'
<1>1. SchedInv' /\ CallInv' /\ \A w \in WaitList : Mends(None, w)
  BY SystemEffect
<1>2. UNCHANGED <<kind, data, trigger, alive, excused>>
  OBVIOUS
<1>3. ASSUME alive', ~excused', NEW w \in WaitList PROVE Spoken(w)'
  <2>1. Spoken(w) /\ BufferTypes /\ None \notin OnWay(w)
    BY <1>2, <1>3, Sides DEF WakeInv, BufferInv, OnWay
  <2>2. Wanted(w)' = Wanted(w) /\ Wanted(w) \in Nat
    BY <1>2, <2>1, SameWanted, WantedType
  <2>3. QED  BY <1>1, <2>1, <2>2, SpokenKept
<1>4. QED  BY <1>1, <1>3, WakeSides, Sides

-----------------------------------------------------------------------------
LEMMA BufferInitHolds == BufferInit => BufferInv /\ WakeInv
<1> SUFFICES ASSUME BufferInit PROVE BufferInv /\ WakeInv
  OBVIOUS
<1>1. SchedInv /\ BufferTypes
  BY InitSafe, BufferInitFifo DEF BufferInit
<1>2. /\ call = [t \in Task |-> NoCall] /\ pc = [t \in Task |-> "user"] /\ k = InitKernel
  BY DEF BufferInit, Init
<1>3. \A t \in Task : k.wait_list[t] = None
  <2>1. KernelConsistent(k) /\ \A t \in Task : k.state[t] # "BLOCKED"
    BY <1>2, InitKernelEffect
  <2>2. QED  BY <2>1 DEF KernelConsistent, WaitListsConsistent
<1>4. CallInv
  BY <1>2, <1>3 DEF CallInv, CallOf, InWait
<1>5. \A w \in WaitList : ~Waits(w) /\ ~Overlooked(w)
  BY <1>2, <1>3, Sides DEF Waits, Overlooked, InGap
<1>6. WakeInv
  BY <1>5 DEF WakeInv, Spoken
<1>7. QED  BY <1>1, <1>4, <1>6 DEF BufferInv

LEMMA BufferNextHolds ==
  ASSUME Disciplined, BufferInv, WakeInv, [BufferNext]_all_vars
  PROVE  BufferInv' /\ WakeInv'
<1>1. BufferTypes'
  BY BufferNextFifo DEF BufferInv
<1>2. CASE UNCHANGED all_vars
  <2>1. UNCHANGED vars /\ UNCHANGED <<kind, data, trigger, alive, call, excused>>
    BY <1>2 DEF all_vars, buffer_vars
  <2>2. QED  BY <1>1, <2>1, SystemWakes DEF BufferInv
<1>3. CASE BufferStep
  <2>1. ASSUME NEW t \in Task, Block(t) PROVE SchedInv' /\ CallInv' /\ WakeInv'
    BY <1>1, <2>1, BlockWakes
  <2>2. ASSUME UNCHANGED buffer_vars,
               \/ SystemStep
               \/ \E t \in Task : KernelStep(t) \/ (CallsOf(t) = {} /\ CallStep(t))
        PROVE  SchedInv' /\ CallInv' /\ WakeInv'
    <3>1. \A t \in Task : CallsOf(t) = {} => call[t] = NoCall
      BY DEF CallsOf
    <3>2. UNCHANGED <<kind, data, trigger, alive, call, excused>>
      BY <2>2 DEF buffer_vars
    <3>3. QED  BY <1>1, <2>2, <3>1, <3>2, SystemWakes
  <2>3. QED  BY <1>1, <1>3, <2>1, <2>2 DEF BufferStep, BufferInv
<1>4. ASSUME NEW t \in Task, NEW c, Enter(t, c) PROVE SchedInv' /\ CallInv' /\ WakeInv'
  <2>1. UNCHANGED vars /\ UNCHANGED <<kind, data, trigger, alive, call, excused>>
    BY <1>4 DEF Enter
  <2>2. QED  BY <1>1, <2>1, SystemWakes
<1>5. CASE QueueNext
  <2>1. SchedInv' /\ CallInv' /\ WakeInv'
    BY <1>1, <1>4, <1>5, QueueIsrWakes, ResetWakes, DeleteWakes, CreateAgainWakes,
       QueueSendWakes, QueueReceiveWakes, QueueLeavesWakes, QueueWaitsWakes
    DEF QueueNext, QueueEnter, QueueDelete, QueueCreate
  <2>2. QED  BY <1>1, <2>1 DEF BufferInv
<1>6. CASE StreamNext
  <2>1. SchedInv' /\ CallInv' /\ WakeInv'
    BY <1>1, <1>4, <1>6, StreamSendFromIsrWakes, StreamReceiveFromIsrWakes, ResetWakes,
       DeleteWakes, CreateAgainWakes, StreamSendWakes, StreamReceiveWakes, StreamFailsWakes,
       StreamWaitsWakes, SetTriggerLevelWakes
    DEF StreamNext, StreamEnter, StreamDelete, StreamCreate
  <2>2. QED  BY <1>1, <2>1 DEF BufferInv
<1>7. QED  BY <1>2, <1>3, <1>5, <1>6 DEF BufferNext

\* The invariant holds in every reachable state.
THEOREM BuffersSafe ==
  ASSUME Disciplined
  PROVE  BufferSpec => [](BufferInv /\ WakeInv)
<1>1. BufferInv /\ WakeInv /\ [BufferNext]_all_vars => (BufferInv /\ WakeInv)'
  BY BufferNextHolds
<1>2. QED  BY <1>1, BufferInitHolds, PTL DEF BufferSpec

\* The ring buffer never holds more than its capacity, a power of two less one
\* in items or in bytes, and the scheduler below keeps its types.
THEOREM BufferTypesOK ==
  ASSUME Disciplined
  PROVE  BufferSpec => []BufferTypeOK
<1>1. BufferInv => BufferTypeOK
  BY DEF BufferInv, SchedInv, BufferTypes, CallTypes, BufferTypeOK
<1>2. QED  BY <1>1, BuffersSafe, PTL

\* The wake-ups of sends, receives, resets and deletions leave the lists
\* consistent and the head of the highest ready queue in control of the CPU.
THEOREM BufferSchedulingSafe ==
  ASSUME Disciplined
  PROVE  BufferSpec => []BufferScheduling
<1>1. BufferInv => BufferScheduling
  <2> SUFFICES ASSUME BufferInv PROVE BufferScheduling
    OBVIOUS
  <2>1. NoFault /\ ListsConsistent
    BY DEF BufferInv, SchedInv, NoFault, ListsConsistent
  <2>2. ASSUME Quiescent
        PROVE  current = select_next_task(k) \/ (lock_nesting > 0 /\ reschedule_pending)
    <3>1. is_running /\ ~pendsv /\ isr = "none" /\ pc[current] \in {"user", "wait_return"}
      BY <2>2 DEF Quiescent
    <3>2. QED  BY <3>1 DEF BufferInv, SchedInv, SwitchInv
  <2>3. QED  BY <2>1, <2>2 DEF BufferScheduling, HighestPriorityRuns
<1>2. QED  BY <1>1, BuffersSafe, PTL

\* No wake-up of a sender or receiver is lost, but for the ways excused names:
\* while a task waits, what it could get is spoken for by tasks that were woken
\* and have yet to test the buffer again.
THEOREM NoWakeupLost ==
  ASSUME Disciplined
  PROVE  BufferSpec => []NoLostWakeup
<1>1. BufferInv /\ WakeInv => NoLostWakeup
  <2> SUFFICES ASSUME BufferInv, WakeInv, alive, ~excused
               PROVE  /\ k.waiters[wait_recv] # <<>> => Receivable <= Cardinality(OnWay(wait_recv))
                      /\ k.waiters[wait_send] # <<>> => Sendable <= Cardinality(OnWay(wait_send))
    BY DEF NoLostWakeup
  <2>1. Spoken(wait_recv) /\ Spoken(wait_send)
    BY Sides DEF WakeInv
  <2>2. /\ k.waiters[wait_recv] # <<>> <=> Waits(wait_recv)
        /\ k.waiters[wait_send] # <<>> <=> Waits(wait_send)
    BY WaitsList, Sides DEF BufferInv
  <2>3. QED  BY <2>1, <2>2, Sides DEF Spoken, Wanted
<1>2. QED  BY <1>1, BuffersSafe, PTL
=============================================================================
