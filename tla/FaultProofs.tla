---------------------------- MODULE FaultProofs ----------------------------
(* Proofs about the fault-injecting proxy: the devices a flood of alarms   *)
(* passes through, and the tool proxies with their routes. The lemmas      *)
(* about sequences are those of HostedProofs.                              *)
EXTENDS FaultQueues, RouteProxy, HostedProofs, FiniteSetTheorems

-----------------------------------------------------------------------------
(* The queues, the chain, the filter and the pads a flood of alarms        *)
(* passes through.                                                         *)

(* Two runs of numbers in order, one after the other: each is in order,    *)
(* and the first ends before the second begins.                            *)
LEMMA IncreasingSplit ==
    ASSUME NEW a \in Seq(Nat), NEW b \in Seq(Nat)
    PROVE  Increasing(a \o b) <=>
               /\ Increasing(a) /\ Increasing(b)
               /\ \A i \in DOMAIN a : \A j \in DOMAIN b : a[i] < b[j]
<1> DEFINE c == a \o b
           m == Len(a)
           n == Len(b)
<1>1. m \in Nat /\ n \in Nat /\ DOMAIN a = 1 .. m /\ DOMAIN b = 1 .. n BY LenProperties
<1>2. /\ DOMAIN c = 1 .. m + n
      /\ \A i \in 1 .. m + n : c[i] = IF i <= m THEN a[i] ELSE b[i - m]
    BY <1>1, ConcatProperties, LenProperties
<1> HIDE DEF c, m, n
<1>3. ASSUME Increasing(c)
      PROVE  /\ Increasing(a) /\ Increasing(b)
             /\ \A i \in DOMAIN a : \A j \in DOMAIN b : a[i] < b[j]
    <2>1. Increasing(a)
        <3>1. \A i \in 1 .. m : i \in 1 .. m + n /\ c[i] = a[i] BY <1>1, <1>2
        <3> QED BY <1>1, <1>2, <1>3, <3>1 DEF Increasing
    <2>2. \A j \in 1 .. n : j + m \in 1 .. m + n /\ c[j + m] = b[j] BY <1>1, <1>2
    <2>3. Increasing(b)
        <3> SUFFICES ASSUME NEW i \in 1 .. n, NEW j \in 1 .. n, i < j PROVE b[i] < b[j]
            BY <1>1 DEF Increasing
        <3>1. i + m < j + m BY <1>1
        <3> QED BY <1>2, <1>3, <2>2, <3>1 DEF Increasing
    <2>4. ASSUME NEW i \in 1 .. m, NEW j \in 1 .. n PROVE a[i] < b[j]
        <3>1. i < j + m /\ i \in 1 .. m + n /\ c[i] = a[i] BY <1>1, <1>2
        <3> QED BY <1>2, <1>3, <2>2, <3>1 DEF Increasing
    <2> QED BY <1>1, <2>1, <2>3, <2>4
<1>4. ASSUME Increasing(a), Increasing(b), \A i \in DOMAIN a : \A j \in DOMAIN b : a[i] < b[j]
      PROVE  Increasing(c)
    <2> SUFFICES ASSUME NEW i \in 1 .. m + n, NEW j \in 1 .. m + n, i < j PROVE c[i] < c[j]
        BY <1>2 DEF Increasing
    <2>1. CASE j <= m
        <3>1. i \in 1 .. m /\ j \in 1 .. m /\ c[i] = a[i] /\ c[j] = a[j] BY <1>1, <1>2, <2>1
        <3> QED BY <1>1, <1>4, <3>1 DEF Increasing
    <2>2. CASE i > m
        <3>1. /\ i - m \in 1 .. n /\ j - m \in 1 .. n /\ i - m < j - m
              /\ c[i] = b[i - m] /\ c[j] = b[j - m]
            BY SMTT(30), <1>1, <1>2, <2>2
        <3> QED BY <1>1, <1>4, <3>1 DEF Increasing
    <2>3. CASE i <= m /\ ~(j <= m)
        <3>1. i \in 1 .. m /\ j - m \in 1 .. n /\ c[i] = a[i] /\ c[j] = b[j - m]
            BY <1>1, <1>2, <2>3
        <3> QED BY <1>1, <1>4, <3>1
    <2> QED BY <1>1, <2>1, <2>2, <2>3
<1> QED BY <1>3, <1>4 DEF c

(* The shape of a FIFO: what is queued, what was served, and the           *)
(* counters.                                                               *)
Fifos == [policy : Policies, items : Seq(Nat), pushed : Nat, dropped : Nat,
          served : Seq(Nat), high : Nat]
(* What holds of a FIFO between any two calls. The items served and        *)
(* queued were all offered before, which is what keeps the next one the    *)
(* youngest.                                                               *)
FifoSound(q) ==
    /\ q \in Fifos
    /\ q.pushed = Len(q.served) + q.dropped + Len(q.items)
    /\ Increasing(q.served \o q.items)
    /\ \A i \in DOMAIN q.served : q.served[i] <= q.pushed
    /\ \A i \in DOMAIN q.items : q.items[i] <= q.pushed
    /\ Len(q.items) <= q.high /\ q.high <= Capacity

(* Push (fifo.go) keeps it, whether there is room, the newest is refused   *)
(* or the head is evicted.                                                 *)
LEMMA FifoPushed == ASSUME NEW q, FifoSound(q) PROVE FifoSound(Pushed(q))
<1> DEFINE id == q.pushed + 1
           room == Len(q.items) < Capacity
           items == IF room THEN Append(q.items, id)
                    ELSE IF q.policy = "DropOldest" THEN Append(Tail(q.items), id)
                    ELSE q.items
           dropped == IF room THEN q.dropped ELSE q.dropped + 1
           high == IF Len(items) > q.high THEN Len(items) ELSE q.high
           n == Len(q.items)
           w == Pushed(q)
<1>1. /\ q \in Fifos /\ q.items \in Seq(Nat) /\ q.served \in Seq(Nat)
      /\ q.pushed \in Nat /\ q.dropped \in Nat /\ q.high \in Nat /\ q.policy \in Policies
      /\ Capacity \in Nat \ {0} /\ n \in Nat /\ Len(q.served) \in Nat
    BY FaultQueuesAssumption, LenProperties DEF FifoSound, Fifos
<1>2. /\ n <= Capacity /\ id \in Nat
      /\ DOMAIN q.items = 1 .. n /\ DOMAIN q.served = 1 .. Len(q.served)
    BY <1>1, LenProperties DEF FifoSound
<1>3. /\ w = [q EXCEPT !.pushed = id, !.items = items, !.dropped = dropped, !.high = high]
    BY DEF Pushed
<1>4. /\ w.pushed = id /\ w.items = items /\ w.dropped = dropped /\ w.high = high
      /\ w.served = q.served /\ w.policy = q.policy
    BY <1>1, <1>3 DEF Fifos
<1>5. /\ Increasing(q.served) /\ Increasing(q.items)
      /\ \A i \in 1 .. Len(q.served) : \A j \in 1 .. n : q.served[i] < q.items[j]
      /\ \A i \in 1 .. Len(q.served) : q.served[i] \in Nat /\ q.served[i] < id /\ q.served[i] <= id
      /\ \A i \in 1 .. n : q.items[i] \in Nat /\ q.items[i] < id /\ q.items[i] <= id
    <2>1. Increasing(q.served \o q.items) BY DEF FifoSound
    <2>2. /\ Increasing(q.served) /\ Increasing(q.items)
          /\ \A i \in DOMAIN q.served : \A j \in DOMAIN q.items : q.served[i] < q.items[j]
        BY <1>1, <2>1, IncreasingSplit
    <2>3. \A i \in 1 .. Len(q.served) : q.served[i] \in Nat BY <1>1, ElementOfSeq
    <2>4. \A i \in 1 .. n : q.items[i] \in Nat BY <1>1, ElementOfSeq
    <2>5. \A i \in 1 .. Len(q.served) : q.served[i] <= q.pushed BY <1>2 DEF FifoSound
    <2>6. \A i \in 1 .. n : q.items[i] <= q.pushed BY <1>2 DEF FifoSound
    <2> HIDE DEF n
    <2>7. \A x \in Nat : x <= q.pushed => x < id /\ x <= id BY <1>1
    <2> QED BY <1>2, <2>2, <2>3, <2>4, <2>5, <2>6, <2>7
<1> HIDE DEF n, id
<1>6. /\ items \in Seq(Nat) /\ Len(items) \in Nat /\ Len(items) <= Capacity
      /\ Len(items) + dropped = n + q.dropped + 1 /\ dropped \in Nat
      /\ Increasing(items)
      /\ \A j \in DOMAIN items : items[j] \in Nat /\ items[j] <= id
      /\ \A i \in 1 .. Len(q.served) : \A j \in DOMAIN items : q.served[i] < items[j]
    <2>1. CASE room
        <3>1. items = Append(q.items, id) /\ dropped = q.dropped BY <2>1
        <3>a. n < Capacity BY <2>1 DEF n
        <3> HIDE DEF items, dropped, room
        <3>2. /\ items \in Seq(Nat) /\ Len(items) = n + 1 /\ items[n + 1] = id
              /\ \A i \in 1 .. n : items[i] = q.items[i]
            BY <1>1, <1>2, <3>1, AppendProperties DEF n
        <3>3. DOMAIN items = 1 .. n + 1 BY <3>2, LenProperties
        <3>4. \A j \in 1 .. n + 1 : j \in 1 .. n \/ j = n + 1 BY <1>1
        <3>5. Increasing(items)
            <4> SUFFICES ASSUME NEW i \in 1 .. n + 1, NEW j \in 1 .. n + 1, i < j
                         PROVE  items[i] < items[j]
                BY <3>3 DEF Increasing
            <4>1. i \in 1 .. n BY <1>1
            <4>2. CASE j \in 1 .. n BY <1>2, <1>5, <3>2, <4>1, <4>2 DEF Increasing
            <4>3. CASE j = n + 1 BY <1>5, <3>2, <4>1, <4>3
            <4> QED BY <3>4, <4>2, <4>3
        <3>6. \A j \in 1 .. n + 1 : items[j] \in Nat /\ items[j] <= id
            <4>1. id <= id BY <1>2
            <4> QED BY <1>2, <1>5, <3>2, <3>4, <4>1
        <3>7. \A i \in 1 .. Len(q.served) : \A j \in 1 .. n + 1 : q.served[i] < items[j]
            BY <1>5, <3>2, <3>4
        <3>8. Len(items) <= Capacity /\ Len(items) + dropped = n + q.dropped + 1
            <4> DEFINE d == q.dropped
            <4>1. d \in Nat /\ dropped = d /\ Len(items) = n + 1 BY <1>1, <3>1, <3>2
            <4> HIDE DEF d
            <4>2. n + 1 <= Capacity /\ (n + 1) + d = n + d + 1 BY <1>1, <3>a, <4>1
            <4> QED BY <4>1, <4>2 DEF d
        <3> QED BY <1>1, <3>1, <3>2, <3>3, <3>5, <3>6, <3>7, <3>8, LenProperties
    <2>2. CASE ~room /\ q.policy = "DropOldest"
        <3>1. items = Append(Tail(q.items), id) /\ dropped = q.dropped + 1 BY <2>2
        <3>a. n = Capacity BY <1>1, <1>2, <2>2 DEF n
        <3> DEFINE rest == Tail(q.items)
        <3>2. /\ rest \in Seq(Nat) /\ Len(rest) = n - 1
              /\ \A i \in 1 .. n - 1 : rest[i] = q.items[i + 1]
            BY <1>1, <3>a, HeadTailProperties, EmptySeq DEF n
        <3> HIDE DEF items, dropped, room, rest
        <3>3. /\ items \in Seq(Nat) /\ Len(items) = n /\ items[n] = id
              /\ \A i \in 1 .. n - 1 : items[i] = q.items[i + 1]
            <4>1. Len(rest) + 1 = n BY <1>1, <3>2
            <4> QED BY <1>1, <1>2, <3>1, <3>2, <4>1, AppendProperties DEF rest
        <3>4. DOMAIN items = 1 .. n BY <3>3, LenProperties
        <3>5. \A j \in 1 .. n : (j \in 1 .. n - 1 /\ j + 1 \in 1 .. n) \/ j = n BY <1>1
        <3>6. Increasing(items)
            <4> SUFFICES ASSUME NEW i \in 1 .. n, NEW j \in 1 .. n, i < j PROVE items[i] < items[j]
                BY <3>4 DEF Increasing
            <4>1. i \in 1 .. n - 1 /\ i + 1 \in 1 .. n BY <1>1
            <4>2. CASE j \in 1 .. n - 1 /\ j + 1 \in 1 .. n
                <5>1. i + 1 < j + 1 OBVIOUS
                <5> QED BY <1>2, <1>5, <3>3, <4>1, <4>2, <5>1 DEF Increasing
            <4>3. CASE j = n BY <1>5, <3>3, <4>1, <4>3
            <4> QED BY <3>5, <4>2, <4>3
        <3>7. \A j \in 1 .. n : items[j] \in Nat /\ items[j] <= id
            <4>1. id <= id BY <1>2
            <4> QED BY <1>2, <1>5, <3>3, <3>5, <4>1
        <3>8. \A i \in 1 .. Len(q.served) : \A j \in 1 .. n : q.served[i] < items[j]
            BY <1>5, <3>3, <3>5
        <3>9. Len(items) <= Capacity /\ Len(items) + dropped = n + q.dropped + 1
            <4> DEFINE d == q.dropped
            <4>1. d \in Nat /\ n \in Nat BY <1>1
            <4>2. n <= Capacity BY <3>a, <4>1
            <4> HIDE DEF d
            <4>3. n + (d + 1) = n + d + 1 BY <4>1
            <4> QED BY <3>1, <3>3, <4>1, <4>2, <4>3 DEF d
        <3>10. dropped \in Nat /\ Len(items) \in Nat BY <1>1, <3>1, <3>3
        <3> QED BY <3>3, <3>4, <3>6, <3>7, <3>8, <3>9, <3>10
    <2>3. CASE ~room /\ q.policy # "DropOldest"
        <3>1. items = q.items /\ dropped = q.dropped + 1 BY <2>3
        <3> HIDE DEF items, dropped, room
        <3>2. Len(items) = n BY <3>1 DEF n
        <3>3. \A j \in 1 .. n : items[j] \in Nat /\ items[j] <= id BY <1>2, <1>5, <3>1
        <3>4. /\ dropped \in Nat /\ Len(items) \in Nat /\ Len(items) <= Capacity
              /\ Len(items) + dropped = n + q.dropped + 1
            <4>1. n \in Nat /\ n <= Capacity /\ q.dropped \in Nat BY <1>1, <1>2
            <4>2. dropped = q.dropped + 1 BY <3>1
            <4> QED BY <3>2, <4>1, <4>2
        <3> QED BY <1>1, <1>2, <1>5, <3>1, <3>3, <3>4
    <2> QED BY <2>1, <2>2, <2>3
<1> HIDE DEF items, dropped
<1>7. high \in Nat /\ Len(items) <= high /\ high <= Capacity BY <1>1, <1>6 DEF FifoSound
<1> HIDE DEF high
<1>8. w \in Fifos BY <1>1, <1>2, <1>3, <1>6, <1>7 DEF Fifos
<1>9. w.pushed = Len(w.served) + w.dropped + Len(w.items)
    <2>1. q.pushed = Len(q.served) + q.dropped + n BY DEF FifoSound, n
    <2>2. id = Len(q.served) + (n + q.dropped + 1) BY <1>1, <2>1 DEF id
    <2>3. id = Len(q.served) + dropped + Len(items) BY <1>1, <1>6, <2>2
    <2> HIDE DEF w
    <2> QED BY <1>4, <2>3
<1>10. Increasing(w.served \o w.items) BY <1>1, <1>2, <1>4, <1>5, <1>6, IncreasingSplit
<1>11. /\ \A i \in DOMAIN w.served : w.served[i] <= w.pushed
       /\ \A i \in DOMAIN w.items : w.items[i] <= w.pushed
    BY <1>2, <1>4, <1>5, <1>6
<1> HIDE DEF w
<1> QED BY <1>4, <1>7, <1>8, <1>9, <1>10, <1>11 DEF FifoSound, w

(* Pop (fifo.go) hands over the head: nothing is reordered, nothing        *)
(* uncounted.                                                              *)
LEMMA FifoServed ==
    ASSUME NEW q, FifoSound(q), q.items # <<>>
    PROVE  FifoSound([q EXCEPT !.items = Tail(q.items), !.served = Append(q.served, Head(q.items))])
<1> DEFINE w == [q EXCEPT !.items = Tail(q.items), !.served = Append(q.served, Head(q.items))]
<1>1. /\ q \in Fifos /\ q.items \in Seq(Nat) /\ q.served \in Seq(Nat)
      /\ q.pushed \in Nat /\ q.dropped \in Nat /\ q.high \in Nat /\ q.policy \in Policies
    BY DEF FifoSound, Fifos
<1>2. /\ w.items = Tail(q.items) /\ w.served = Append(q.served, Head(q.items))
      /\ w.pushed = q.pushed /\ w.dropped = q.dropped /\ w.high = q.high /\ w.policy = q.policy
    BY <1>1 DEF Fifos
<1>3. /\ w.served \in Seq(Nat) /\ w.items \in Seq(Nat) /\ Len(w.items) < Len(q.items)
      /\ w.served \o w.items = q.served \o q.items
    <2> DEFINE a == q.served
               b == q.items
    <2>1. a \in Seq(Nat) /\ b \in Seq(Nat) /\ b # <<>> BY <1>1
    <2> HIDE DEF a, b
    <2>2. /\ Append(a, Head(b)) \in Seq(Nat) /\ Tail(b) \in Seq(Nat)
          /\ Len(Tail(b)) < Len(b) /\ Append(a, Head(b)) \o Tail(b) = a \o b
        BY <2>1, HandedOver
    <2> HIDE DEF w
    <2> QED BY <1>2, <2>2, Zenon DEF a, b
<1>4. /\ Len(q.items) \in Nat /\ Len(q.served) \in Nat /\ Capacity \in Nat
      /\ Len(w.items) = Len(q.items) - 1 /\ Len(w.served) = Len(q.served) + 1
    BY SMTT(30), <1>1, <1>2, FaultQueuesAssumption
<1>5. w \in Fifos BY <1>1, <1>3, <1>2 DEF Fifos
<1>6. \A i \in DOMAIN w.items : i + 1 \in DOMAIN q.items /\ w.items[i] = q.items[i + 1]
    BY <1>1, <1>2
<1>7. \A i \in DOMAIN w.served : (i \in DOMAIN q.served /\ w.served[i] = q.served[i])
          \/ (1 \in DOMAIN q.items /\ w.served[i] = q.items[1])
    BY SMTT(30), <1>1, <1>2
<1> HIDE DEF w
<1>8. w.pushed = Len(w.served) + w.dropped + Len(w.items)
    <2>1. q.pushed = Len(q.served) + q.dropped + Len(q.items) BY DEF FifoSound
    <2>2. q.dropped \in Nat /\ Len(q.items) \in Nat /\ Len(q.served) \in Nat BY <1>1, <1>4
    <2>3. Len(q.served) + 1 + q.dropped + (Len(q.items) - 1) = Len(q.served) + q.dropped + Len(q.items)
        BY <2>2
    <2> QED BY <1>2, <1>4, <2>1, <2>3, Zenon
<1>9. Len(w.items) <= w.high /\ w.high <= Capacity BY <1>1, <1>2, <1>4 DEF FifoSound
<1>10. Increasing(w.served \o w.items) BY <1>3 DEF FifoSound
<1>11. /\ \A i \in DOMAIN w.served : w.served[i] <= w.pushed
       /\ \A i \in DOMAIN w.items : w.items[i] <= w.pushed
    BY <1>2, <1>6, <1>7 DEF FifoSound
<1> QED BY <1>5, <1>8, <1>9, <1>10, <1>11 DEF FifoSound, w

(* What a classed queue holds.                                             *)
Items == [id : Nat, class : Classes]

(* Two runs of items, one after the other, with each class in order.       *)
LEMMA EachInOrderSplit ==
    ASSUME NEW a \in Seq(Items), NEW b \in Seq(Items)
    PROVE  EachInOrder(a \o b) <=>
               /\ EachInOrder(a) /\ EachInOrder(b)
               /\ \A i \in DOMAIN a : \A j \in DOMAIN b : a[i].class = b[j].class => a[i].id < b[j].id
<1> DEFINE c == a \o b
           m == Len(a)
           n == Len(b)
<1>1. m \in Nat /\ n \in Nat /\ DOMAIN a = 1 .. m /\ DOMAIN b = 1 .. n BY LenProperties
<1>2. /\ DOMAIN c = 1 .. m + n
      /\ \A i \in 1 .. m + n : c[i] = IF i <= m THEN a[i] ELSE b[i - m]
    BY <1>1, ConcatProperties, LenProperties
<1> HIDE DEF c, m, n
<1>3. ASSUME EachInOrder(c)
      PROVE  /\ EachInOrder(a) /\ EachInOrder(b)
             /\ \A i \in DOMAIN a : \A j \in DOMAIN b : a[i].class = b[j].class => a[i].id < b[j].id
    <2>1. EachInOrder(a)
        <3>1. \A i \in 1 .. m : i \in 1 .. m + n /\ c[i] = a[i] BY <1>1, <1>2
        <3> QED BY <1>1, <1>2, <1>3, <3>1 DEF EachInOrder
    <2>2. \A j \in 1 .. n : j + m \in 1 .. m + n /\ c[j + m] = b[j] BY <1>1, <1>2
    <2>3. EachInOrder(b)
        <3> SUFFICES ASSUME NEW i \in 1 .. n, NEW j \in 1 .. n, i < j, b[i].class = b[j].class
                     PROVE  b[i].id < b[j].id
            BY <1>1 DEF EachInOrder
        <3>1. i + m < j + m BY <1>1
        <3> QED BY <1>2, <1>3, <2>2, <3>1 DEF EachInOrder
    <2>4. ASSUME NEW i \in 1 .. m, NEW j \in 1 .. n, a[i].class = b[j].class
          PROVE  a[i].id < b[j].id
        <3>1. i < j + m /\ i \in 1 .. m + n /\ c[i] = a[i] BY <1>1, <1>2
        <3> QED BY <1>2, <1>3, <2>2, <2>4, <3>1 DEF EachInOrder
    <2> QED BY <1>1, <2>1, <2>3, <2>4
<1>4. ASSUME EachInOrder(a), EachInOrder(b),
             \A i \in DOMAIN a : \A j \in DOMAIN b : a[i].class = b[j].class => a[i].id < b[j].id
      PROVE  EachInOrder(c)
    <2> SUFFICES ASSUME NEW i \in 1 .. m + n, NEW j \in 1 .. m + n, i < j, c[i].class = c[j].class
                 PROVE  c[i].id < c[j].id
        BY <1>2 DEF EachInOrder
    <2>1. CASE j <= m
        <3>1. i \in 1 .. m /\ j \in 1 .. m /\ c[i] = a[i] /\ c[j] = a[j] BY <1>1, <1>2, <2>1
        <3> QED BY <1>1, <1>4, <3>1 DEF EachInOrder
    <2>2. CASE i > m
        <3>1. /\ i - m \in 1 .. n /\ j - m \in 1 .. n /\ i - m < j - m
              /\ c[i] = b[i - m] /\ c[j] = b[j - m]
            BY <1>1, <1>2, <2>2
        <3> QED BY <1>1, <1>4, <3>1 DEF EachInOrder
    <2>3. CASE i <= m /\ ~(j <= m)
        <3>1. i \in 1 .. m /\ j - m \in 1 .. n /\ c[i] = a[i] /\ c[j] = b[j - m]
            BY <1>1, <1>2, <2>3
        <3> QED BY <1>1, <1>4, <3>1
    <2> QED BY <1>1, <2>1, <2>2, <2>3
<1> QED BY <1>3, <1>4 DEF c

(* Removing an item from the middle, as an eviction and Pop of             *)
(* class_queue.go do, leaves the order of the others.                      *)
LEMMA RemovedInOrder ==
    ASSUME NEW s \in Seq(Items), EachInOrder(s), NEW i \in 1 .. Len(s)
    PROVE  EachInOrder(RemoveAt(s, i))
<1> DEFINE r == RemoveAt(s, i)
<1>1. Len(s) \in Nat /\ DOMAIN s = 1 .. Len(s) BY LenProperties
<1>2. /\ DOMAIN r = 1 .. Len(s) - 1
      /\ \A j \in 1 .. Len(s) - 1 : StoodAt(j, i) \in 1 .. Len(s) /\ r[j] = s[StoodAt(j, i)]
      /\ \A j, k \in 1 .. Len(s) - 1 : j < k => StoodAt(j, i) < StoodAt(k, i)
    BY RemovedEntries
<1> HIDE DEF r
<1>3. EachInOrder(r) BY <1>1, <1>2 DEF EachInOrder
<1> QED BY <1>3 DEF r

(* A new item, younger than all there are, goes last.                      *)
LEMMA AppendedInOrder ==
    ASSUME NEW s \in Seq(Items), EachInOrder(s), NEW it \in Items,
           \A i \in DOMAIN s : s[i].class = it.class => s[i].id < it.id
    PROVE  EachInOrder(Append(s, it))
<1>1. Len(s) \in Nat /\ DOMAIN s = 1 .. Len(s) BY LenProperties
<1>2. /\ DOMAIN Append(s, it) = 1 .. Len(s) + 1 /\ Append(s, it)[Len(s) + 1] = it
      /\ \A i \in 1 .. Len(s) : Append(s, it)[i] = s[i]
    BY <1>1, AppendProperties, LenProperties
<1> DEFINE r == Append(s, it)
           n == Len(s)
<1> HIDE DEF r, n
<1> SUFFICES ASSUME NEW i \in 1 .. n + 1, NEW j \in 1 .. n + 1, i < j, r[i].class = r[j].class
             PROVE  r[i].id < r[j].id
    BY <1>2 DEF EachInOrder, r, n
<1>3. n \in Nat /\ i \in 1 .. n BY <1>1 DEF n
<1>4. CASE j \in 1 .. n BY <1>1, <1>2, <1>3, <1>4 DEF EachInOrder, r, n
<1>5. CASE j = n + 1 BY <1>1, <1>2, <1>3, <1>5 DEF r, n
<1> QED BY <1>3, <1>4, <1>5

(* Pop (class_queue.go) serves the first item of the most critical class   *)
(* there is: no earlier one is of its class.                               *)
LEMMA BestIsFirst ==
    ASSUME NEW s \in Seq(Items), s # <<>>
    PROVE  /\ Best(s) \in 1 .. Len(s)
           /\ \A j \in 1 .. Len(s) : s[j].class = s[Best(s)].class => Best(s) <= j
<1> DEFINE D == 1 .. Len(s)
           R == {Rank[s[i].class] : i \in D}
           I == {i \in D : Rank[s[i].class] = Min(R)}
<1>1. Len(s) \in Nat \ {0} /\ DOMAIN s = D /\ \A i \in D : s[i] \in Items
    BY LenProperties, EmptySeq, ElementOfSeq
<1>2. \A i \in D : s[i].class \in Classes BY <1>1 DEF Items
<1>3. \A c, d \in Classes : Rank[c] \in Nat /\ (Rank[c] = Rank[d] => c = d) BY DEF Rank, Classes
<1>4. R \subseteq Nat /\ R # {}
    <2>1. 1 \in D BY <1>1
    <2> QED BY <1>2, <1>3, <2>1
<1>5. Min(R) \in R /\ \A y \in R : Min(R) =< y BY <1>4, LeastOfNats
<1>6. I # {} /\ I \subseteq Nat
    <2>1. I # {} BY <1>5
    <2>2. D \subseteq Nat BY <1>1
    <2>3. I \subseteq D OBVIOUS
    <2> HIDE DEF I, D
    <2> QED BY <2>1, <2>2, <2>3
<1>7. Min(I) \in I /\ \A y \in I : Min(I) =< y BY <1>6, LeastOfNats
<1> DEFINE b == Min(I)
           good(i) == \A j \in DOMAIN s : \/ Rank[s[i].class] < Rank[s[j].class]
                                          \/ s[i].class = s[j].class /\ i <= j
<1>8. b \in D /\ good(b)
    <2>1. b \in D /\ Rank[s[b].class] = Min(R) BY <1>7
    <2>2. ASSUME NEW j \in D
          PROVE  \/ Rank[s[b].class] < Rank[s[j].class]
                 \/ s[b].class = s[j].class /\ b <= j
        <3>1. Rank[s[j].class] \in R /\ Rank[s[j].class] \in Nat /\ Rank[s[b].class] \in Nat
              /\ Rank[s[b].class] =< Rank[s[j].class]
            <4>1. Rank[s[j].class] \in R OBVIOUS
            <4>2. Rank[s[j].class] \in Nat /\ Rank[s[b].class] \in Nat BY <1>2, <1>3, <2>1
            <4> HIDE DEF R, b
            <4> QED BY <1>5, <2>1, <4>1, <4>2, Zenon
        <3>2. CASE Rank[s[b].class] = Rank[s[j].class]
            <4>1. j \in I BY <2>1, <3>2
            <4>2. s[b].class = s[j].class BY <1>2, <1>3, <2>1, <3>2
            <4> QED BY <1>7, <4>1, <4>2
        <3>3. CASE Rank[s[b].class] # Rank[s[j].class]
            <4>1. \A x, y \in Nat : x =< y /\ x # y => x < y OBVIOUS
            <4> QED BY <3>1, <3>3, <4>1, Zenon
        <3> QED BY <3>2, <3>3
    <2> QED BY <1>1, <2>1, <2>2
<1> HIDE DEF b
<1>9. Best(s) \in DOMAIN s /\ good(Best(s))
    <2>1. \E i \in DOMAIN s : good(i) BY <1>1, <1>8
    <2> QED BY <2>1, Zenon DEF Best
<1>10. ASSUME NEW j \in D, s[j].class = s[Best(s)].class PROVE Best(s) <= j
    <2>1. Rank[s[j].class] \in Nat /\ Rank[s[j].class] = Rank[s[Best(s)].class] BY <1>2, <1>3, <1>10
    <2> QED BY <1>1, <1>9, <1>10, <2>1
<1> QED BY <1>1, <1>9, <1>10

(* The scan of Push from the back (class_queue.go) finds a bulk item if    *)
(* there is one.                                                           *)
LEMMA LastBulkIsBulk ==
    ASSUME NEW s \in Seq(Items), BulkAt(s) # {}
    PROVE  LastBulk(s) \in 1 .. Len(s)
<1> DEFINE n == Len(s)
           B == BulkAt(s)
           G == {n - i : i \in B}
<1>1. n \in Nat /\ DOMAIN s = 1 .. n BY LenProperties
<1>2. B \subseteq 1 .. n /\ B # {} BY <1>1 DEF BulkAt
<1> HIDE DEF n, B
<1>3. G \subseteq Nat /\ G # {}
    <2>1. \A i \in B : n - i \in Nat BY <1>1, <1>2
    <2> QED BY <1>2, <2>1, Zenon
<1>4. Min(G) \in G /\ \A y \in G : Min(G) =< y BY <1>3, LeastOfNats
<1>5. PICK m \in B : Min(G) = n - m BY <1>4
<1>6. \A j \in B : j <= m
    <2> SUFFICES ASSUME NEW j \in B PROVE j <= m OBVIOUS
    <2>1. n - m <= n - j BY <1>4, <1>5
    <2> QED BY <1>1, <1>2, <2>1
<1>7. LastBulk(s) \in B BY <1>6, Zenon DEF LastBulk, B
<1> QED BY <1>2, <1>7 DEF n

(* The shape of a classed queue: what is queued, what was served, and      *)
(* the counters.                                                           *)
ClassQueues == [protect : BOOLEAN, items : Seq(Items), pushed : Nat, evicted : Nat,
                dropped : [Classes -> Nat], out : Seq(Items)]
(* The items refused, over the three classes.                              *)
Lost(q) == q.dropped["critical"] + q.dropped["interactive"] + q.dropped["bulk"]
(* Every item offered was served, is queued, was evicted or was refused.   *)
Counted(q) == q.pushed = Len(q.out) + Len(q.items) + q.evicted + Lost(q)
(* What holds of a classed queue between any two calls.                    *)
ClassSound(q) ==
    /\ q \in ClassQueues
    /\ Counted(q)
    /\ EachInOrder(q.out \o q.items)
    /\ \A i \in DOMAIN q.out : q.out[i].id <= q.pushed
    /\ \A i \in DOMAIN q.items : q.items[i].id <= q.pushed
    /\ Len(q.items) <= Capacity

(* What follows of the parts of a sound queue.                             *)
LEMMA ClassParts ==
    ASSUME NEW q, ClassSound(q)
    PROVE  /\ q \in ClassQueues /\ q.items \in Seq(Items) /\ q.out \in Seq(Items)
           /\ q.pushed \in Nat /\ q.evicted \in Nat /\ q.dropped \in [Classes -> Nat]
           /\ Len(q.items) \in Nat /\ Len(q.out) \in Nat
           /\ DOMAIN q.items = 1 .. Len(q.items) /\ DOMAIN q.out = 1 .. Len(q.out)
           /\ EachInOrder(q.out) /\ EachInOrder(q.items)
           /\ \A i \in DOMAIN q.out : \A j \in DOMAIN q.items :
                 q.out[i].class = q.items[j].class => q.out[i].id < q.items[j].id
           /\ \A i \in DOMAIN q.items : q.items[i] \in Items
           /\ Capacity \in Nat \ {0}
<1>1. /\ q \in ClassQueues /\ q.items \in Seq(Items) /\ q.out \in Seq(Items)
      /\ q.pushed \in Nat /\ q.evicted \in Nat /\ q.dropped \in [Classes -> Nat]
    BY DEF ClassSound, ClassQueues
<1>2. /\ Len(q.items) \in Nat /\ Len(q.out) \in Nat
      /\ DOMAIN q.items = 1 .. Len(q.items) /\ DOMAIN q.out = 1 .. Len(q.out)
    BY <1>1, LenProperties
<1>3. EachInOrder(q.out \o q.items) BY DEF ClassSound
<1>4. /\ EachInOrder(q.out) /\ EachInOrder(q.items)
      /\ \A i \in DOMAIN q.out : \A j \in DOMAIN q.items :
            q.out[i].class = q.items[j].class => q.out[i].id < q.items[j].id
    BY <1>1, <1>3, EachInOrderSplit
<1>5. \A i \in DOMAIN q.items : q.items[i] \in Items BY <1>1, <1>2, ElementOfSeq
<1> QED BY <1>1, <1>2, <1>4, <1>5, FaultQueuesAssumption

(* An item offered to a queue that has, or has made, room: it goes last    *)
(* and is counted.                                                         *)
LEMMA ClassAppended ==
    ASSUME NEW q, ClassSound(q), NEW rest \in Seq(Items), NEW c \in Classes,
           EachInOrder(rest), Len(rest) < Capacity,
           \A j \in DOMAIN rest : \E k \in DOMAIN q.items : rest[j] = q.items[k],
           NEW w \in ClassQueues, w.items = Append(rest, [id |-> q.pushed + 1, class |-> c]),
           w.out = q.out, w.pushed = q.pushed + 1, Counted(w)
    PROVE  ClassSound(w)
<1> DEFINE it == [id |-> q.pushed + 1, class |-> c]
           items == Append(rest, it)
           n == Len(rest)
<1>1. /\ q.items \in Seq(Items) /\ q.out \in Seq(Items) /\ q.pushed \in Nat
      /\ DOMAIN q.items = 1 .. Len(q.items) /\ DOMAIN q.out = 1 .. Len(q.out)
      /\ EachInOrder(q.out)
      /\ \A i \in DOMAIN q.out : \A j \in DOMAIN q.items :
            q.out[i].class = q.items[j].class => q.out[i].id < q.items[j].id
      /\ \A i \in DOMAIN q.items : q.items[i] \in Items
      /\ Capacity \in Nat
    BY ClassParts
<1>2. it \in Items /\ it.id = q.pushed + 1 /\ it.class = c BY <1>1 DEF Items
<1>3. \A x \in Nat : x <= q.pushed => x < q.pushed + 1 /\ x <= q.pushed + 1 BY <1>1
<1>4. \A i \in DOMAIN q.out : q.out[i].id \in Nat /\ q.out[i].id <= q.pushed
    <2>1. \A i \in DOMAIN q.out : q.out[i] \in Items BY <1>1, ElementOfSeq
    <2> QED BY <2>1 DEF Items, ClassSound
<1>5. \A j \in DOMAIN rest : rest[j].id \in Nat /\ rest[j].id <= q.pushed
    BY <1>1 DEF Items, ClassSound
<1> HIDE DEF it
<1>6. n \in Nat /\ DOMAIN rest = 1 .. n BY LenProperties
<1>7. /\ items \in Seq(Items) /\ Len(items) = n + 1 /\ DOMAIN items = 1 .. n + 1
      /\ items[n + 1] = it /\ \A i \in 1 .. n : items[i] = rest[i]
    BY <1>2, <1>6, AppendProperties, LenProperties
<1>8. EachInOrder(items) BY <1>2, <1>3, <1>5, AppendedInOrder
<1> HIDE DEF items, n
<1>9. \A j \in 1 .. n + 1 : j \in 1 .. n \/ j = n + 1 BY <1>6
<1>10. \A j \in DOMAIN items : items[j].id <= q.pushed + 1
    <2>1. q.pushed + 1 <= q.pushed + 1 BY <1>1
    <2> QED BY <1>2, <1>3, <1>5, <1>6, <1>7, <1>9, <2>1
<1>11. ASSUME NEW i \in DOMAIN q.out, NEW j \in DOMAIN items, q.out[i].class = items[j].class
       PROVE  q.out[i].id < items[j].id
    <2>1. CASE j \in 1 .. n
        <3>1. items[j] = rest[j] /\ j \in DOMAIN rest BY <1>6, <1>7, <2>1
        <3>2. PICK k \in DOMAIN q.items : rest[j] = q.items[k] BY <3>1
        <3> QED BY <1>1, <1>11, <3>1, <3>2
    <2>2. CASE j = n + 1 BY <1>2, <1>3, <1>4, <1>7, <2>2
    <2> QED BY <1>7, <1>9, <2>1, <2>2
<1>12. EachInOrder(w.out \o w.items)
    <2>1. w.items = items BY DEF items, it
    <2> QED BY <1>1, <1>7, <1>8, <1>11, <2>1, EachInOrderSplit
<1>13. w.items = items BY DEF items, it
<1>14. Len(items) <= Capacity
    <2>1. n < Capacity BY DEF n
    <2> QED BY <1>1, <1>6, <1>7, <2>1
<1>15. \A i \in DOMAIN q.out : q.out[i].id <= q.pushed + 1 BY <1>3, <1>4
<1> QED BY <1>10, <1>12, <1>13, <1>14, <1>15 DEF ClassSound

(* Push (class_queue.go) keeps the queue sound: with room, by evicting a   *)
(* bulk item, or by refusing and counting the arrival.                     *)
LEMMA ClassPushedSound ==
    ASSUME NEW q, ClassSound(q), NEW c \in Classes
    PROVE  ClassSound(ClassPushed(q, c))
<1> DEFINE it == [id |-> q.pushed + 1, class |-> c]
           w == ClassPushed(q, c)
<1>1. /\ q \in ClassQueues /\ q.items \in Seq(Items) /\ q.out \in Seq(Items)
      /\ q.pushed \in Nat /\ q.evicted \in Nat /\ q.dropped \in [Classes -> Nat]
      /\ Len(q.items) \in Nat /\ Len(q.out) \in Nat
      /\ DOMAIN q.items = 1 .. Len(q.items) /\ DOMAIN q.out = 1 .. Len(q.out)
      /\ EachInOrder(q.items) /\ Capacity \in Nat \ {0} /\ Len(q.items) <= Capacity
    BY ClassParts DEF ClassSound
<1>2. it \in Items BY <1>1 DEF Items
<1>a. q.protect \in BOOLEAN BY DEF ClassSound, ClassQueues
<1>3. /\ q.dropped["critical"] \in Nat /\ q.dropped["interactive"] \in Nat /\ q.dropped["bulk"] \in Nat
      /\ q.dropped[c] \in Nat
    BY <1>1 DEF Classes
<1> DEFINE out == Len(q.out)
           have == Len(q.items)
           gone == q.evicted
           lost == Lost(q)
<1>4. /\ q.pushed = out + have + gone + lost
      /\ q.pushed \in Nat /\ out \in Nat /\ have \in Nat /\ gone \in Nat /\ lost \in Nat
    <2>1. lost \in Nat BY <1>3 DEF Lost
    <2> QED BY <1>1, <2>1, Zenon DEF ClassSound, Counted
<1> HIDE DEF out, have, gone, lost
<1>5. CASE Len(q.items) < Capacity
    <2>1. /\ w = [q EXCEPT !.pushed = q.pushed + 1, !.items = Append(q.items, it)]
        BY <1>1, <1>5 DEF ClassPushed, ClassQueues
    <2>2. Append(q.items, it) \in Seq(Items) /\ Len(Append(q.items, it)) = Len(q.items) + 1
        BY <1>1, <1>2, AppendProperties
    <2>3. /\ w \in ClassQueues /\ w.items = Append(q.items, it) /\ w.out = q.out
          /\ w.pushed = q.pushed + 1 /\ w.evicted = q.evicted /\ w.dropped = q.dropped
        <3> HIDE DEF w, it
        <3>0. q.pushed + 1 \in Nat BY <1>1
        <3>1. w \in ClassQueues BY <1>1, <1>a, <2>1, <2>2, <3>0, Zenon DEF ClassQueues
        <3> QED BY <1>1, <2>1, <3>1 DEF ClassQueues
    <2> HIDE DEF w
    <2>4. Counted(w)
        <3>1. q.pushed + 1 = out + (have + 1) + gone + lost BY <1>4
        <3> QED BY <2>2, <2>3, <3>1, Zenon DEF Counted, Lost, out, have, gone, lost
    <2>5. ClassSound(w) BY <1>1, <1>5, <2>3, <2>4, ClassAppended
    <2> QED BY <2>5 DEF w
<1>6. CASE ~(Len(q.items) < Capacity) /\ c = "critical" /\ q.protect /\ BulkAt(q.items) # {}
    <2> DEFINE rest == RemoveAt(q.items, LastBulk(q.items))
    <2>1. w = [q EXCEPT !.pushed = q.pushed + 1, !.items = Append(rest, it), !.evicted = q.evicted + 1]
        BY <1>1, <1>6 DEF ClassPushed, ClassQueues
    <2>2. LastBulk(q.items) \in 1 .. Len(q.items) BY <1>1, <1>6, LastBulkIsBulk
    <2>3. /\ rest \in Seq(Items) /\ Len(rest) = Len(q.items) - 1
          /\ \A j \in DOMAIN rest : \E k \in DOMAIN q.items : rest[j] = q.items[k]
        <3> DEFINE t == q.items
                   i == LastBulk(q.items)
        <3>2. t \in Seq(Items) /\ i \in 1 .. Len(t) /\ DOMAIN t = 1 .. Len(t) BY <1>1, <2>2
        <3> HIDE DEF t, i
        <3>3. /\ RemoveAt(t, i) \in Seq(Items) /\ Len(RemoveAt(t, i)) = Len(t) - 1
              /\ \A j \in DOMAIN RemoveAt(t, i) : \E k \in DOMAIN t : RemoveAt(t, i)[j] = t[k]
            <4>1. /\ RemoveAt(t, i) \in Seq(Items) /\ Len(RemoveAt(t, i)) = Len(t) - 1
                  /\ DOMAIN RemoveAt(t, i) = 1 .. Len(t) - 1
                  /\ \A j \in 1 .. Len(t) - 1 :
                        StoodAt(j, i) \in 1 .. Len(t) /\ RemoveAt(t, i)[j] = t[StoodAt(j, i)]
                BY <3>2, RemovedEntries
            <4> QED BY <3>2, <4>1, Zenon
        <3> QED BY <3>3 DEF t, i
    <2>4. EachInOrder(rest) BY <1>1, <2>2, RemovedInOrder
    <2> HIDE DEF rest
    <2>5. Append(rest, it) \in Seq(Items) /\ Len(Append(rest, it)) = Len(q.items)
        BY <1>1, <1>2, <2>3, AppendProperties
    <2>6. /\ w \in ClassQueues /\ w.items = Append(rest, it) /\ w.out = q.out
          /\ w.pushed = q.pushed + 1 /\ w.evicted = q.evicted + 1 /\ w.dropped = q.dropped
        <3> HIDE DEF w, it
        <3>1. q.evicted + 1 \in Nat /\ q.pushed + 1 \in Nat BY <1>1
        <3>2. w \in ClassQueues BY <1>1, <1>a, <2>1, <2>5, <3>1, Zenon DEF ClassQueues
        <3> QED BY <1>1, <2>1, <3>2 DEF ClassQueues
    <2> HIDE DEF w
    <2>7. Counted(w)
        <3>1. q.pushed + 1 = out + have + (gone + 1) + lost BY <1>4
        <3> QED BY <2>5, <2>6, <3>1, Zenon DEF Counted, Lost, out, have, gone, lost
    <2>8. Len(rest) < Capacity BY <1>1, <2>3
    <2>9. ClassSound(w) BY <2>3, <2>4, <2>6, <2>7, <2>8, ClassAppended
    <2> QED BY <2>9 DEF w
<1>7. CASE ~(Len(q.items) < Capacity) /\ ~(c = "critical" /\ q.protect /\ BulkAt(q.items) # {})
    <2>1. w = [q EXCEPT !.pushed = q.pushed + 1, !.dropped = [q.dropped EXCEPT ![c] = q.dropped[c] + 1]]
        BY <1>1, <1>7 DEF ClassPushed, ClassQueues
    <2>2. /\ w \in ClassQueues /\ w.items = q.items /\ w.out = q.out /\ w.pushed = q.pushed + 1
          /\ w.evicted = q.evicted /\ w.dropped = [q.dropped EXCEPT ![c] = q.dropped[c] + 1]
        <3> HIDE DEF w
        <3>0. q.pushed + 1 \in Nat /\ q.dropped[c] + 1 \in Nat BY SMTT(30), <1>1, <1>3
        <3>1. [q.dropped EXCEPT ![c] = q.dropped[c] + 1] \in [Classes -> Nat] BY <1>1, <3>0
        <3>2. w \in ClassQueues BY <1>1, <1>a, <2>1, <3>0, <3>1, Zenon DEF ClassQueues
        <3> QED BY <1>1, <2>1, <3>2 DEF ClassQueues
    <2> HIDE DEF w
    <2>3. Lost(w) = Lost(q) + 1
        <3>1. CASE c = "critical" BY <1>1, <1>3, <2>2, <3>1 DEF Classes, Lost
        <3>2. CASE c = "interactive" BY <1>1, <1>3, <2>2, <3>2 DEF Classes, Lost
        <3>3. CASE c = "bulk" BY <1>1, <1>3, <2>2, <3>3 DEF Classes, Lost
        <3> QED BY <3>1, <3>2, <3>3 DEF Classes
    <2>4. Counted(w)
        <3>1. q.pushed + 1 = out + have + gone + (lost + 1) BY <1>4
        <3> QED BY <2>2, <2>3, <3>1, Zenon DEF Counted, out, have, gone, lost
    <2>5. \A x \in Nat : x <= q.pushed => x <= q.pushed + 1 BY <1>1
    <2>6. /\ \A i \in DOMAIN q.out : q.out[i].id \in Nat /\ q.out[i].id <= q.pushed
          /\ \A i \in DOMAIN q.items : q.items[i].id \in Nat /\ q.items[i].id <= q.pushed
        <3>1. /\ \A i \in DOMAIN q.out : q.out[i] \in Items
              /\ \A i \in DOMAIN q.items : q.items[i] \in Items
            BY <1>1, ElementOfSeq
        <3> QED BY <3>1 DEF Items, ClassSound
    <2>7. ClassSound(w) BY <2>2, <2>4, <2>5, <2>6 DEF ClassSound
    <2> QED BY <2>7 DEF w
<1> QED BY <1>5, <1>6, <1>7

(* Pop (class_queue.go) takes from the middle and keeps the queue sound.   *)
LEMMA ClassServed ==
    ASSUME NEW q, ClassSound(q), q.items # <<>>
    PROVE  ClassSound([q EXCEPT !.items = RemoveAt(q.items, Best(q.items)),
                                !.out = Append(q.out, q.items[Best(q.items)])])
<1> DEFINE b == Best(q.items)
           rest == RemoveAt(q.items, b)
           it == q.items[b]
           out == Append(q.out, it)
           w == [q EXCEPT !.items = rest, !.out = out]
           n == Len(q.items)
<1>1. /\ q \in ClassQueues /\ q.items \in Seq(Items) /\ q.out \in Seq(Items)
      /\ q.pushed \in Nat /\ q.evicted \in Nat /\ q.dropped \in [Classes -> Nat]
      /\ n \in Nat /\ Len(q.out) \in Nat
      /\ DOMAIN q.items = 1 .. n /\ DOMAIN q.out = 1 .. Len(q.out)
      /\ EachInOrder(q.out) /\ EachInOrder(q.items)
      /\ \A i \in DOMAIN q.out : \A j \in DOMAIN q.items :
            q.out[i].class = q.items[j].class => q.out[i].id < q.items[j].id
      /\ \A i \in DOMAIN q.items : q.items[i] \in Items
      /\ Capacity \in Nat /\ n <= Capacity
    BY ClassParts DEF ClassSound
<1>2. b \in 1 .. n /\ \A j \in 1 .. n : q.items[j].class = it.class => b <= j
    BY <1>1, BestIsFirst
<1> HIDE DEF b
<1>3. /\ rest \in Seq(Items) /\ Len(rest) = n - 1 /\ DOMAIN rest = 1 .. n - 1
      /\ \A j \in 1 .. n - 1 :
            StoodAt(j, b) \in 1 .. n /\ StoodAt(j, b) # b /\ rest[j] = q.items[StoodAt(j, b)]
    BY <1>1, <1>2, RemovedEntries
<1>4. EachInOrder(rest) BY <1>1, <1>2, RemovedInOrder
<1>5. it \in Items BY <1>1, <1>2
<1>6. EachInOrder(out) BY <1>1, <1>2, <1>5, AppendedInOrder
<1>7. /\ out \in Seq(Items) /\ Len(out) = Len(q.out) + 1 /\ DOMAIN out = 1 .. Len(q.out) + 1
      /\ out[Len(q.out) + 1] = it /\ \A i \in 1 .. Len(q.out) : out[i] = q.out[i]
    BY <1>1, <1>5, AppendProperties, LenProperties
<1> HIDE DEF rest, out, n
<1>8. \A i \in 1 .. Len(q.out) + 1 : i \in 1 .. Len(q.out) \/ i = Len(q.out) + 1 BY <1>1
<1>9. ASSUME NEW i \in DOMAIN out, NEW j \in DOMAIN rest, out[i].class = rest[j].class
      PROVE  out[i].id < rest[j].id
    <2> DEFINE k == StoodAt(j, b)
    <2>1. k \in 1 .. n /\ k # b /\ rest[j] = q.items[k] BY <1>3
    <2> HIDE DEF k
    <2>2. CASE i \in 1 .. Len(q.out) BY <1>1, <1>7, <1>9, <2>1, <2>2
    <2>3. CASE i = Len(q.out) + 1
        <3>1. out[i] = it BY <1>7, <2>3
        <3>2. b <= k BY <1>2, <1>9, <2>1, <3>1
        <3>3. b < k BY <1>1, <1>2, <2>1, <3>2
        <3> QED BY <1>1, <1>2, <1>9, <2>1, <3>1, <3>3 DEF EachInOrder
    <2> QED BY <1>7, <1>8, <2>2, <2>3
<1>10. EachInOrder(out \o rest) BY <1>3, <1>4, <1>6, <1>7, <1>9, EachInOrderSplit
<1>11. /\ w \in ClassQueues /\ w.items = rest /\ w.out = out /\ w.pushed = q.pushed
       /\ w.evicted = q.evicted /\ w.dropped = q.dropped
    BY <1>1, <1>3, <1>7 DEF ClassQueues
<1> HIDE DEF w
<1>12. Counted(w)
    <2> DEFINE served == Len(q.out)
               gone == q.evicted
               lost == Lost(q)
    <2>1. q.pushed = served + n + gone + lost BY DEF ClassSound, Counted, n
    <2>2. served \in Nat /\ n \in Nat /\ gone \in Nat /\ lost \in Nat BY <1>1 DEF Lost, Classes
    <2>3. Lost(w) = lost BY <1>11 DEF Lost
    <2> HIDE DEF served, gone, lost
    <2>4. q.pushed = (served + 1) + (n - 1) + gone + lost BY <2>1, <2>2
    <2> QED BY <1>3, <1>7, <1>11, <2>3, <2>4, Zenon DEF Counted, served, gone
<1>13. \A i \in DOMAIN out : out[i].id <= q.pushed
    BY <1>1, <1>2, <1>7, <1>8 DEF ClassSound
<1>14. \A j \in DOMAIN rest : rest[j].id <= q.pushed BY <1>1, <1>3 DEF ClassSound
<1>15. Len(rest) <= Capacity BY <1>1, <1>3
<1>16. ClassSound(w) BY <1>10, <1>11, <1>12, <1>13, <1>14, <1>15 DEF ClassSound
<1> QED BY <1>16 DEF w, rest, out, b

(* An alarm a sender has prepared: the position of the chain it read,      *)
(* and how often the chain has moved since.                                *)
Prepared == [ref : Nat, kind : {"none", "plain", "isotoped"}, passed : Nat]
(* The shape of the rotation chain of an ingress.                          *)
Tumbles == [chain : Nat, accepted : Nat, refused : Nat, held : [Senders -> Prepared],
            last : [ok : BOOLEAN, kind : {"none", "plain", "isotoped"}, passed : Nat]]
(* An alarm that is prepared and not offered yet was overtaken as often    *)
(* as the chain has moved since it was read.                               *)
TumbleSound(u) ==
    /\ u \in Tumbles
    /\ \A s \in Senders : u.held[s].kind # "none" => u.held[s].ref + u.held[s].passed = u.chain
    /\ u.last.kind # "none" => u.last.ok = (u.last.passed <= Allowed(u.last.kind))
    /\ u.chain = u.accepted

(* A sender that reads Chain() holds the position of the chain, not        *)
(* overtaken yet.                                                          *)
LEMMA TumblePrepared ==
    ASSUME TumbleSound(tumble), NEW s \in Senders, NEW kind \in {"plain", "isotoped"},
           Prepare(s, kind)
    PROVE  TumbleSound(tumble')
<1> DEFINE a == [ref |-> tumble.chain, kind |-> kind, passed |-> 0]
<1>1. /\ tumble \in Tumbles /\ tumble.chain \in Nat /\ tumble.held \in [Senders -> Prepared]
    BY DEF TumbleSound, Tumbles
<1>2. a \in Prepared BY <1>1 DEF Prepared
<1>3. tumble' = [tumble EXCEPT !.held = [tumble.held EXCEPT ![s] = a]]
    BY <1>1 DEF Prepare, Tumbles
<1>4. [tumble.held EXCEPT ![s] = a] \in [Senders -> Prepared] BY <1>1, <1>2
<1>5. a.ref + a.passed = tumble.chain BY <1>1
<1> HIDE DEF a
<1>6. tumble' \in Tumbles BY <1>1, <1>3, <1>4, Zenon DEF Tumbles
<1>7. /\ tumble'.held = [tumble.held EXCEPT ![s] = a] /\ tumble'.chain = tumble.chain
      /\ tumble'.accepted = tumble.accepted /\ tumble'.last = tumble.last
    BY <1>1, <1>3 DEF Tumbles
<1>8. \A r \in Senders : tumble'.held[r].kind # "none" =>
          tumble'.held[r].ref + tumble'.held[r].passed = tumble'.chain
    BY <1>1, <1>5, <1>7 DEF TumbleSound
<1> QED BY <1>6, <1>7, <1>8 DEF TumbleSound

(* Offer (alarm_tumble.go) decides by the lag behind the chain, which is   *)
(* the number of alarms that overtook this one; an accepted alarm          *)
(* overtakes everyone who holds an older position.                         *)
LEMMA TumbleOffered ==
    ASSUME TumbleSound(tumble), NEW s \in Senders, Offer(s)
    PROVE  TumbleSound(tumble')
<1> DEFINE a == tumble.held[s]
           ok == Accepts(a.ref, a.kind)
           chain == IF ok THEN tumble.chain + 1 ELSE tumble.chain
           held == [r \in Senders |-> IF r = s THEN [a EXCEPT !.kind = "none"]
                        ELSE IF ok THEN [tumble.held[r] EXCEPT !.passed = tumble.held[r].passed + 1]
                        ELSE tumble.held[r]]
           verdict == [ok |-> ok, kind |-> a.kind, passed |-> a.passed]
           accepted == IF ok THEN tumble.accepted + 1 ELSE tumble.accepted
           refused == IF ok THEN tumble.refused ELSE 1
<1>1. /\ tumble \in Tumbles /\ tumble.chain \in Nat /\ tumble.held \in [Senders -> Prepared]
      /\ tumble.accepted \in Nat /\ tumble.refused \in Nat /\ tumble.chain = tumble.accepted
    BY DEF TumbleSound, Tumbles
<1>2. tumble' = [tumble EXCEPT !.chain = chain, !.accepted = accepted, !.refused = refused,
                               !.held = held, !.last = verdict]
    BY <1>1 DEF Offer
<1>3. a \in Prepared /\ a.ref \in Nat /\ a.passed \in Nat /\ a.kind \in {"none", "plain", "isotoped"}
    BY <1>1 DEF Prepared
<1>4. a.ref + a.passed = tumble.chain BY DEF Offer, TumbleSound
<1>5. ok = (a.passed <= Allowed(a.kind))
    <2>1. Allowed(a.kind) \in Nat BY FaultQueuesAssumption DEF Allowed
    <2>2. tumble.chain >= a.ref /\ tumble.chain - a.ref = a.passed BY <1>1, <1>3, <1>4
    <2> QED BY <2>1, <2>2 DEF Accepts
<1>6. ok \in BOOLEAN BY DEF Accepts
<1>7. verdict \in [ok : BOOLEAN, kind : {"none", "plain", "isotoped"}, passed : Nat]
      /\ verdict.ok = ok /\ verdict.kind = a.kind /\ verdict.passed = a.passed
    <2> HIDE DEF ok, a
    <2> QED BY <1>3, <1>6, Zenon
<1> HIDE DEF ok, verdict
<1>8. held \in [Senders -> Prepared]
    <2>1. [a EXCEPT !.kind = "none"] \in Prepared BY <1>3 DEF Prepared
    <2>2. \A r \in Senders : /\ tumble.held[r] \in Prepared
                             /\ [tumble.held[r] EXCEPT !.passed = tumble.held[r].passed + 1] \in Prepared
        BY <1>1 DEF Prepared
    <2> QED BY <2>1, <2>2
<1>9. chain \in Nat /\ accepted \in Nat /\ refused \in Nat /\ chain = accepted BY <1>1
<1>10. \A r \in Senders : held[r].kind # "none" => held[r].ref + held[r].passed = chain
    <2> SUFFICES ASSUME NEW r \in Senders, held[r].kind # "none"
                 PROVE  held[r].ref + held[r].passed = chain
        OBVIOUS
    <2>1. r # s BY <1>3 DEF Prepared
    <2>2. /\ tumble.held[r] \in Prepared
          /\ tumble.held[r].ref \in Nat /\ tumble.held[r].passed \in Nat
        BY <1>1 DEF Prepared
    <2>3. CASE ok
        <3>1. held[r] = [tumble.held[r] EXCEPT !.passed = tumble.held[r].passed + 1]
              /\ chain = tumble.chain + 1
            BY <2>1, <2>3
        <3>2. /\ held[r].kind = tumble.held[r].kind /\ held[r].ref = tumble.held[r].ref
              /\ held[r].passed = tumble.held[r].passed + 1
            BY <2>2, <3>1 DEF Prepared
        <3>3. tumble.held[r].ref + tumble.held[r].passed = tumble.chain BY <3>2 DEF TumbleSound
        <3> HIDE DEF held, chain
        <3> QED BY <1>1, <2>2, <3>1, <3>2, <3>3
    <2>4. CASE ~ok
        <3>1. held[r] = tumble.held[r] /\ chain = tumble.chain BY <2>1, <2>4
        <3> QED BY <3>1 DEF TumbleSound
    <2> QED BY <2>3, <2>4
<1> HIDE DEF held, chain, accepted, refused, a
<1>11. tumble' \in Tumbles BY <1>1, <1>2, <1>7, <1>8, <1>9, Zenon DEF Tumbles
<1>12. /\ tumble'.held = held /\ tumble'.chain = chain /\ tumble'.accepted = accepted
       /\ tumble'.last = verdict
    BY <1>1, <1>2 DEF Tumbles
<1>13. tumble'.last.ok = (tumble'.last.passed <= Allowed(tumble'.last.kind))
    BY <1>5, <1>7, <1>12, Zenon
<1> QED BY <1>9, <1>10, <1>11, <1>12, <1>13 DEF TumbleSound

(* The filter of an epoch: the probes of every member are set.             *)
FilterSound(f) ==
    /\ f = [bits |-> f.bits, added |-> f.added, h1 |-> f.h1, h2 |-> f.h2]
    /\ \A id \in f.added : Present(f, id)

(* Add (rotation_filter.go) sets bits and clears none, so no member is     *)
(* lost.                                                                   *)
LEMMA FilterAdded ==
    ASSUME FilterSound(filter), NEW id \in RotationIds, FilterAdd(id)
    PROVE  FilterSound(filter')
<1> DEFINE bits == filter.bits \cup ProbesOf(filter, id)
           added == filter.added \cup {id}
<1>1. filter = [bits |-> filter.bits, added |-> filter.added, h1 |-> filter.h1, h2 |-> filter.h2]
    BY DEF FilterSound
<1>2. filter' = [filter EXCEPT !.bits = bits, !.added = added] BY DEF FilterAdd
<1> HIDE DEF bits, added
<1>3. /\ filter'.bits = bits /\ filter'.added = added /\ filter'.h1 = filter.h1 /\ filter'.h2 = filter.h2
      /\ filter' = [bits |-> bits, added |-> added, h1 |-> filter.h1, h2 |-> filter.h2]
    BY <1>1, <1>2
<1>4. \A x : ProbesOf(filter', x) = ProbesOf(filter, x) BY <1>3 DEF ProbesOf
<1>5. \A x \in added : Present(filter', x)
    <2>1. \A x \in filter.added : ProbesOf(filter, x) \subseteq filter.bits
        BY DEF FilterSound, Present
    <2> QED BY <1>3, <1>4, <2>1 DEF Present, bits, added
<1> QED BY <1>3, <1>5 DEF FilterSound

(* The layers a request crosses.                                           *)
PadLayers == {"ingress", "backup", "context"}
(* A pad names its layer and its place.                                    *)
Pads == [layer : PadLayers, seq : Nat]
(* A stack of pads in the order of the layers.                             *)
InLayers(stack) == \A j \in DOMAIN stack : stack[j] = [layer |-> Layers[j], seq |-> j - 1]
(* The shape of a request on its way and of the queue of the committer.    *)
Flows == [stack : Seq(Pads), pending : Seq(Seq(Pads)), accepted : Nat, trusted : Nat, untrusted : Nat]
(* The stacks on the way and in the queue are in the order of the          *)
(* layers, and every accepted request is decided or pending.               *)
FlowSound(f) ==
    /\ f \in Flows
    /\ InLayers(f.stack)
    /\ \A i \in DOMAIN f.pending : InLayers(f.pending[i])
    /\ f.accepted = f.trusted + f.untrusted + Len(f.pending)

(* Push (pad_stack.go) adds the pad of the next layer.                     *)
LEMMA FlowPadded == ASSUME FlowSound(flow), PushPad PROVE FlowSound(flow')
<1> DEFINE n == Len(flow.stack)
           pad == [layer |-> Layers[n + 1], seq |-> n]
           stack == Append(flow.stack, pad)
<1>1. /\ flow \in Flows /\ flow.stack \in Seq(Pads) /\ n \in Nat /\ n < 3
      /\ DOMAIN flow.stack = 1 .. n /\ flow.pending \in Seq(Seq(Pads)) /\ flow.accepted \in Nat
      /\ flow.trusted \in Nat /\ flow.untrusted \in Nat
    BY LenProperties DEF FlowSound, Flows, PushPad, Layers
<1>2. flow' = [flow EXCEPT !.stack = stack] BY DEF PushPad
<1>3. pad \in Pads
    <2> HIDE DEF n
    <2>1. n + 1 \in {1, 2, 3} BY <1>1
    <2>2. Layers[1] \in PadLayers /\ Layers[2] \in PadLayers /\ Layers[3] \in PadLayers BY DEF Layers, PadLayers
    <2>3. Layers[n + 1] \in PadLayers
        <3> DEFINE k == n + 1
        <3>1. k \in {1, 2, 3} BY <2>1
        <3> HIDE DEF k
        <3>2. Layers[k] \in PadLayers BY <2>2, <3>1, Zenon
        <3> QED BY <3>2 DEF k
    <2> QED BY <1>1, <2>3 DEF Pads
<1>4. pad = [layer |-> Layers[n + 1], seq |-> (n + 1) - 1] BY <1>1
<1> HIDE DEF pad
<1>5. /\ stack \in Seq(Pads) /\ DOMAIN stack = 1 .. n + 1 /\ stack[n + 1] = pad
      /\ \A i \in 1 .. n : stack[i] = flow.stack[i]
    BY <1>1, <1>3, AppendProperties, LenProperties
<1> HIDE DEF stack, n
<1>6. InLayers(stack)
    <2>1. \A j \in 1 .. n + 1 : j \in 1 .. n \/ j = n + 1 BY <1>1
    <2> QED BY <1>1, <1>4, <1>5, <2>1 DEF FlowSound, InLayers
<1>7. flow' \in Flows BY <1>1, <1>2, <1>5 DEF Flows
<1>8. /\ flow'.stack = stack /\ flow'.pending = flow.pending /\ flow'.accepted = flow.accepted
      /\ flow'.trusted = flow.trusted /\ flow'.untrusted = flow.untrusted
    BY <1>1, <1>2 DEF Flows
<1> QED BY <1>6, <1>7, <1>8 DEF FlowSound

(* A truncated stack (Truncate, pad_stack.go) is the bottom of the         *)
(* stack.                                                                  *)
LEMMA FlowTruncated ==
    ASSUME NEW stack \in Seq(Pads), InLayers(stack), NEW n \in Nat
    PROVE  Truncate(stack, n) \in Seq(Pads) /\ InLayers(Truncate(stack, n))
<1> DEFINE k == IF n > Len(stack) THEN Len(stack) ELSE n
           t == SubSeq(stack, 1, k)
<1>1. Len(stack) \in Nat /\ DOMAIN stack = 1 .. Len(stack) /\ \A i \in 1 .. Len(stack) : stack[i] \in Pads
    BY LenProperties, ElementOfSeq
<1>2. k \in Nat /\ k <= Len(stack) BY <1>1
<1>3. Truncate(stack, n) = t BY DEF Truncate
<1> HIDE DEF k
<1>4. \A i \in 1 .. k : i \in 1 .. Len(stack) /\ stack[i] \in Pads BY <1>1, <1>2
<1>5. /\ t \in Seq(Pads) /\ Len(t) = k /\ \A i \in 1 .. k : t[i] = stack[i]
    BY <1>1, <1>2, <1>4
<1>6. DOMAIN t = 1 .. k BY <1>5, LenProperties
<1> HIDE DEF t
<1> QED BY <1>1, <1>3, <1>4, <1>5, <1>6 DEF InLayers

(* Accepting a request unseen (Enqueue, pad_stack.go) makes one more       *)
(* pending.                                                                *)
LEMMA FlowAccepted ==
    ASSUME FlowSound(flow), NEW n \in Nat, Enqueue(n) PROVE FlowSound(flow')
<1> DEFINE t == Truncate(flow.stack, n)
           pending == Append(flow.pending, t)
           m == Len(flow.pending)
<1>1. /\ flow \in Flows /\ flow.stack \in Seq(Pads) /\ m \in Nat
      /\ DOMAIN flow.pending = 1 .. m /\ flow.pending \in Seq(Seq(Pads)) /\ flow.accepted \in Nat
      /\ flow.trusted \in Nat /\ flow.untrusted \in Nat /\ InLayers(flow.stack)
      /\ flow.accepted = flow.trusted + flow.untrusted + m
    BY LenProperties DEF FlowSound, Flows
<1>2. flow' = [flow EXCEPT !.pending = pending, !.accepted = flow.accepted + 1, !.stack = <<>>]
    BY DEF Enqueue
<1>3. t \in Seq(Pads) /\ InLayers(t) BY <1>1, FlowTruncated
<1> HIDE DEF t
<1>4. /\ pending \in Seq(Seq(Pads)) /\ Len(pending) = m + 1 /\ DOMAIN pending = 1 .. m + 1
      /\ pending[m + 1] = t /\ \A i \in 1 .. m : pending[i] = flow.pending[i]
    BY <1>1, <1>3, AppendProperties, LenProperties
<1> HIDE DEF pending, m
<1>5. \A i \in DOMAIN pending : InLayers(pending[i])
    <2>1. \A j \in 1 .. m + 1 : j \in 1 .. m \/ j = m + 1 BY <1>1
    <2>2. \A i \in 1 .. m : InLayers(flow.pending[i]) BY <1>1 DEF FlowSound
    <2> QED BY <1>3, <1>4, <2>1, <2>2
<1>6. <<>> \in Seq(Pads) /\ InLayers(<<>>) BY DEF InLayers
<1>7. flow' \in Flows
    <2>1. flow.accepted + 1 \in Nat BY <1>1
    <2> QED BY <1>1, <1>2, <1>4, <1>6, <2>1 DEF Flows
<1>8. /\ flow'.stack = <<>> /\ flow'.pending = pending /\ flow'.accepted = flow.accepted + 1
      /\ flow'.trusted = flow.trusted /\ flow'.untrusted = flow.untrusted
    BY <1>1, <1>2 DEF Flows
<1>9. flow.accepted + 1 = flow.trusted + flow.untrusted + (m + 1) BY <1>1
<1> QED BY <1>4, <1>5, <1>6, <1>7, <1>8, <1>9 DEF FlowSound

(* Verify (pad_stack.go) decides all that is pending, each once: trusted   *)
(* or not.                                                                 *)
LEMMA FlowVerified ==
    ASSUME FlowSound(flow), NEW good, Verify(good) PROVE FlowSound(flow')
<1> DEFINE m == Len(flow.pending)
           g == Cardinality(good)
<1>1. /\ flow \in Flows /\ flow.stack \in Seq(Pads) /\ m \in Nat
      /\ DOMAIN flow.pending = 1 .. m /\ flow.pending \in Seq(Seq(Pads)) /\ flow.accepted \in Nat
      /\ flow.trusted \in Nat /\ flow.untrusted \in Nat /\ InLayers(flow.stack)
      /\ flow.accepted = flow.trusted + flow.untrusted + m
    BY LenProperties DEF FlowSound, Flows
<1>2. flow' = [flow EXCEPT !.trusted = flow.trusted + g, !.untrusted = flow.untrusted + m - g,
                           !.pending = <<>>]
    BY DEF Verify
<1>3. g \in Nat /\ g <= m
    <2>1. good \subseteq 1 .. m BY <1>1 DEF Verify
    <2>2. IsFiniteSet(1 .. m) /\ Cardinality(1 .. m) = m
        <3> HIDE DEF m
        <3>1. m \in Int /\ 1 \in Int BY <1>1
        <3>2. IsFiniteSet(1 .. m) /\ Cardinality(1 .. m) = IF 1 > m THEN 0 ELSE m - 1 + 1
            BY <3>1, FS_Interval, Zenon
        <3> QED BY <1>1, <3>2
    <2>3. IsFiniteSet(good) /\ Cardinality(good) <= Cardinality(1 .. m) BY <2>1, <2>2, FS_Subset
    <2>4. g \in Nat BY <2>3, FS_CardinalityType
    <2> QED BY <2>2, <2>3, <2>4
<1> HIDE DEF m, g
<1>4. <<>> \in Seq(Seq(Pads)) /\ DOMAIN <<>> = {} /\ Len(<<>>) = 0 OBVIOUS
<1>5. /\ flow.trusted + g \in Nat /\ flow.untrusted + m - g \in Nat
      /\ flow.accepted = (flow.trusted + g) + (flow.untrusted + m - g) + 0
    <2> DEFINE a == flow.accepted
               t == flow.trusted
               u == flow.untrusted
    <2>1. a \in Nat /\ t \in Nat /\ u \in Nat /\ a = t + u + m BY <1>1
    <2> HIDE DEF a, t, u
    <2>2. t + g \in Nat /\ u + m - g \in Nat /\ a = (t + g) + (u + m - g) + 0
        BY <1>1, <1>3, <2>1
    <2> QED BY <2>2 DEF a, t, u
<1>6. flow' \in Flows BY <1>1, <1>2, <1>4, <1>5 DEF Flows
<1>7. /\ flow'.stack = flow.stack /\ flow'.pending = <<>> /\ flow'.accepted = flow.accepted
      /\ flow'.trusted = flow.trusted + g /\ flow'.untrusted = flow.untrusted + m - g
    BY <1>1, <1>2 DEF Flows
<1>8. \A i \in DOMAIN flow'.pending : InLayers(flow'.pending[i]) BY <1>4, <1>7
<1> QED BY <1>1, <1>4, <1>5, <1>6, <1>7, <1>8 DEF FlowSound

(* The inductive invariant of the five devices.                            *)
QueuesInv ==
    /\ FifoSound(fifo)
    /\ ClassSound(classed)
    /\ TumbleSound(tumble)
    /\ FilterSound(filter)
    /\ FlowSound(flow)

(* Every device starts sound.                                              *)
LEMMA QueuesStart == QueuesInit => QueuesInv
<1> SUFFICES ASSUME QueuesInit PROVE QueuesInv OBVIOUS
<1>0. /\ \A S : <<>> \in Seq(S)
      /\ Len(<<>>) = 0 /\ DOMAIN <<>> = {} /\ <<>> \o <<>> = <<>> /\ Capacity \in Nat
    BY FaultQueuesAssumption
<1>1. FifoSound(fifo)
    <2>1. PICK policy \in Policies : fifo = NewFIFO(policy) BY DEF QueuesInit, Policies
    <2>2. fifo \in Fifos BY <1>0, <2>1 DEF NewFIFO, Fifos
    <2> QED BY <1>0, <2>1, <2>2 DEF NewFIFO, FifoSound, Increasing
<1>2. ClassSound(classed)
    <2>1. PICK protect \in BOOLEAN : classed = NewClassedFIFO(protect) BY DEF QueuesInit
    <2>2. classed \in ClassQueues
        <3>1. [c \in Classes |-> 0] \in [Classes -> Nat] /\ 0 \in Nat OBVIOUS
        <3> QED BY <1>0, <2>1, <3>1, Zenon DEF NewClassedFIFO, ClassQueues
    <2>3. Counted(classed)
        <3>1. /\ classed.pushed = 0 /\ classed.evicted = 0 /\ classed.out = <<>> /\ classed.items = <<>>
              /\ classed.dropped = [c \in Classes |-> 0]
            BY <2>1 DEF NewClassedFIFO
        <3> QED BY <1>0, <3>1 DEF Counted, Lost, Classes
    <2> QED BY <1>0, <2>1, <2>2, <2>3 DEF NewClassedFIFO, ClassSound, EachInOrder
<1>3. TumbleSound(tumble)
    <2> DEFINE none == [ref |-> 0, kind |-> "none", passed |-> 0]
               first == [ok |-> TRUE, kind |-> "none", passed |-> 0]
    <2>1. /\ tumble = [chain |-> 0, accepted |-> 0, refused |-> 0, held |-> [s \in Senders |-> none],
                       last |-> first]
        BY DEF QueuesInit, NewAlarmTumble
    <2>2. none \in Prepared /\ none.kind = "none" BY DEF Prepared
    <2>3. first \in [ok : BOOLEAN, kind : {"none", "plain", "isotoped"}, passed : Nat]
          /\ first.kind = "none"
        OBVIOUS
    <2> HIDE DEF none, first
    <2>4. tumble \in Tumbles BY <2>1, <2>2, <2>3 DEF Tumbles
    <2> QED BY <2>1, <2>2, <2>3, <2>4 DEF TumbleSound
<1>4. FilterSound(filter)
    <2>1. PICK h1, h2 : filter = NewFilter(h1, h2) BY DEF QueuesInit
    <2> QED BY <2>1 DEF NewFilter, FilterSound
<1>5. FlowSound(flow)
    <2>1. flow \in Flows BY <1>0 DEF QueuesInit, NewFlow, Flows
    <2> QED BY <1>0, <2>1 DEF QueuesInit, NewFlow, FlowSound, InLayers
<1> QED BY <1>1, <1>2, <1>3, <1>4, <1>5 DEF QueuesInv

(* A call to one device keeps it sound and leaves the others alone.        *)
LEMMA QueuesStep == QueuesInv /\ [QueuesNext]_queueVars => QueuesInv'
<1> SUFFICES ASSUME QueuesInv, [QueuesNext]_queueVars PROVE QueuesInv' OBVIOUS
<1>0. /\ FifoSound(fifo) /\ ClassSound(classed) /\ TumbleSound(tumble) /\ FilterSound(filter)
      /\ FlowSound(flow)
    BY DEF QueuesInv
<1> SUFFICES /\ FifoSound(fifo') /\ ClassSound(classed') /\ TumbleSound(tumble')
             /\ FilterSound(filter') /\ FlowSound(flow')
    BY Zenon DEF QueuesInv, FifoSound, ClassSound, TumbleSound, FilterSound, FlowSound,
        Counted, Lost, Present, ProbesOf
<1>1. CASE UNCHANGED queueVars BY <1>0, <1>1, Zenon DEF queueVars
<1>2. CASE FifoPush BY <1>0, <1>2, FifoPushed, Zenon DEF FifoPush
<1>3. CASE FifoPop
    <2>1. fifo' = [fifo EXCEPT !.items = Tail(fifo.items), !.served = Append(fifo.served, Head(fifo.items))]
        BY <1>3 DEF FifoPop
    <2> QED BY <1>0, <1>3, <2>1, FifoServed, Zenon DEF FifoPop
<1>4. CASE ClassPop
    <2>1. classed' = [classed EXCEPT !.items = RemoveAt(classed.items, Best(classed.items)),
                                     !.out = Append(classed.out, classed.items[Best(classed.items)])]
        BY <1>4 DEF ClassPop
    <2> QED BY <1>0, <1>4, <2>1, ClassServed, Zenon DEF ClassPop
<1>5. CASE PushPad BY <1>0, <1>5, FlowPadded, Zenon DEF PushPad
<1>6. ASSUME NEW c \in Classes, ClassPush(c)
      PROVE  /\ FifoSound(fifo') /\ ClassSound(classed') /\ TumbleSound(tumble')
             /\ FilterSound(filter') /\ FlowSound(flow')
    BY <1>0, <1>6, ClassPushedSound, Zenon DEF ClassPush
<1>7. ASSUME NEW s \in Senders, Offer(s)
      PROVE  /\ FifoSound(fifo') /\ ClassSound(classed') /\ TumbleSound(tumble')
             /\ FilterSound(filter') /\ FlowSound(flow')
    <2>1. TumbleSound(tumble') BY <1>0, <1>7, TumbleOffered, Zenon
    <2> QED BY <1>0, <1>7, <2>1, Zenon DEF Offer
<1>8. ASSUME NEW s \in Senders, NEW kind \in {"plain", "isotoped"}, Prepare(s, kind)
      PROVE  /\ FifoSound(fifo') /\ ClassSound(classed') /\ TumbleSound(tumble')
             /\ FilterSound(filter') /\ FlowSound(flow')
    <2>1. TumbleSound(tumble') BY <1>0, <1>8, TumblePrepared, Zenon
    <2> QED BY <1>0, <1>8, <2>1, Zenon DEF Prepare
<1>9. ASSUME NEW id \in RotationIds, FilterAdd(id)
      PROVE  /\ FifoSound(fifo') /\ ClassSound(classed') /\ TumbleSound(tumble')
             /\ FilterSound(filter') /\ FlowSound(flow')
    <2>1. FilterSound(filter') BY <1>0, <1>9, FilterAdded, Zenon
    <2> QED BY <1>0, <1>9, <2>1, Zenon DEF FilterAdd
<1>10. ASSUME NEW n \in 0 .. Len(Layers), Enqueue(n)
       PROVE  /\ FifoSound(fifo') /\ ClassSound(classed') /\ TumbleSound(tumble')
              /\ FilterSound(filter') /\ FlowSound(flow')
    <2>0. n \in Nat OBVIOUS
    <2>1. FlowSound(flow') BY <1>0, <1>10, <2>0, FlowAccepted, Zenon
    <2> QED BY <1>0, <1>10, <2>1, Zenon DEF Enqueue
<1>11. ASSUME NEW good, Verify(good)
       PROVE  /\ FifoSound(fifo') /\ ClassSound(classed') /\ TumbleSound(tumble')
              /\ FilterSound(filter') /\ FlowSound(flow')
    <2>1. FlowSound(flow') BY <1>0, <1>11, FlowVerified, Zenon
    <2> QED BY <1>0, <1>11, <2>1, Zenon DEF Verify
<1> QED BY <1>1, <1>2, <1>3, <1>4, <1>5, <1>6, <1>7, <1>8, <1>9, <1>10, <1>11, Zenon DEF QueuesNext

(* Sound devices are what the run checks.                                  *)
LEMMA QueuesFollow == QueuesInv => QueuesSound
<1> SUFFICES ASSUME QueuesInv PROVE QueuesSound OBVIOUS
<1>1. FifoKeepsCount BY DEF QueuesInv, FifoSound, FifoKeepsCount
<1>2. ClassOrder BY Zenon DEF QueuesInv, ClassSound, Counted, Lost, ClassOrder
<1>3. TumbleFair BY Zenon DEF QueuesInv, TumbleSound, TumbleFair
<1>4. FilterAdmits BY DEF QueuesInv, FilterSound, FilterAdmits
<1>5. PendingWellFormed BY DEF QueuesInv, FlowSound, InLayers, PendingWellFormed
<1> QED BY <1>1, <1>2, <1>3, <1>4, <1>5 DEF QueuesSound

(* For every capacity, number of senders, tolerance, size of the filter    *)
(* and hash: a queue at its limit loses no item uncounted and reorders     *)
(* none of a class, an alarm is accepted exactly if no more alarms         *)
(* overtook it than its kind tolerates, the filter denies no member, and   *)
(* every accepted request is pending or decided once (property             *)
(* QueuesSound; fifo.go, class_queue.go, alarm_tumble.go,                  *)
(* rotation_filter.go, pad_stack.go and verdict.go).                       *)
THEOREM QueuesAlwaysSound == QueuesSpec => []QueuesSound
BY QueuesStart, QueuesStep, QueuesFollow, PTL DEF QueuesSpec

(* A critical arrival is counted as dropped only if no bulk item was       *)
(* there to be evicted.                                                    *)
LEMMA CriticalStep ==
    ASSUME QueuesInv, [QueuesNext]_queueVars,
           classed'.dropped["critical"] > classed.dropped["critical"], classed.protect
    PROVE  BulkAt(classed.items) = {} /\ Len(classed.items) = Capacity
<1> DEFINE q == classed
<1>1. /\ q \in ClassQueues /\ q.dropped \in [Classes -> Nat] /\ Len(q.items) \in Nat
      /\ Capacity \in Nat /\ Len(q.items) <= Capacity /\ q.dropped["critical"] \in Nat
    BY ClassParts DEF QueuesInv, ClassSound, Classes
<1>2. classed'.dropped # classed.dropped BY <1>1
<1>3. PICK c \in Classes : classed' = ClassPushed(classed, c)
    <2>1. classed' # classed BY <1>2
    <2>2. ~ClassPop
        <3> SUFFICES ASSUME ClassPop PROVE FALSE OBVIOUS
        <3>1. classed'.dropped = classed.dropped BY <1>1 DEF ClassPop, ClassQueues
        <3> QED BY <1>2, <3>1
    <2> QED BY <2>1, <2>2 DEF QueuesNext, queueVars, FifoPush, FifoPop, PushPad, Offer, Prepare,
        FilterAdd, Enqueue, Verify, ClassPush
<1>4. CASE Len(q.items) < Capacity
    <2>1. classed'.dropped = classed.dropped BY <1>1, <1>3, <1>4 DEF ClassPushed, ClassQueues
    <2> QED BY <1>2, <2>1
<1>5. CASE ~(Len(q.items) < Capacity) /\ c = "critical" /\ BulkAt(q.items) # {}
    <2>1. classed'.dropped = classed.dropped BY <1>1, <1>3, <1>5 DEF ClassPushed, ClassQueues
    <2> QED BY <1>2, <2>1
<1>6. CASE ~(Len(q.items) < Capacity) /\ c # "critical"
    <2>1. classed'.dropped = [q.dropped EXCEPT ![c] = q.dropped[c] + 1]
        BY <1>1, <1>3, <1>6 DEF ClassPushed, ClassQueues
    <2>2. classed'.dropped["critical"] = q.dropped["critical"] BY <1>1, <1>6, <2>1 DEF Classes
    <2> QED BY <1>1, <2>2
<1>7. CASE ~(Len(q.items) < Capacity) /\ BulkAt(q.items) = {} BY <1>1, <1>7
<1> QED BY <1>4, <1>5, <1>6, <1>7

(* For every capacity: a queue with protection drops a critical alarm      *)
(* only when it is full and holds no bulk item, however its items are      *)
(* ordered (property CriticalProtected; Push of class_queue.go).           *)
THEOREM CriticalAlwaysProtected == QueuesSpec => CriticalProtected
<1>1. QueuesInv /\ [QueuesNext]_queueVars =>
          [classed'.dropped["critical"] > classed.dropped["critical"] /\ classed.protect
              => BulkAt(classed.items) = {} /\ Len(classed.items) = Capacity]_queueVars
    BY CriticalStep
<1> QED BY <1>1, QueuesStart, QueuesStep, PTL DEF QueuesSpec, CriticalProtected

-----------------------------------------------------------------------------
(* The tool proxies: rotations, the ledger of retired routes and what is   *)
(* adopted.                                                                *)

(* A nonempty set of numbers up to n has a greatest one: the newest        *)
(* entry retiredRoute finds.                                               *)
LEMMA GreatestOfNats ==
    ASSUME NEW n \in Nat, NEW S, S \subseteq 1 .. n, S # {}
    PROVE  Max(S) \in S
<1> DEFINE D == {n - x : x \in S}
<1>1. D \subseteq Nat /\ D # {}
    <2>1. \A x \in S : n - x \in Nat OBVIOUS
    <2> QED BY <2>1
<1> HIDE DEF D
<1>2. Min(D) \in D /\ \A y \in D : Min(D) =< y BY <1>1, LeastOfNats
<1>3. PICK x \in S : Min(D) = n - x BY <1>2 DEF D
<1>4. ASSUME NEW y \in S PROVE y =< x
    <2>1. n - y \in D BY DEF D
    <2>2. n - x =< n - y BY <1>2, <1>3, <2>1
    <2> QED BY <2>2
<1> QED BY <1>4 DEF Max

(* How many whole periods fit into a time: what EpochAt                    *)
(* (rotation_schedule.go) divides for.                                     *)
LEMMA QuotientBounds ==
    ASSUME NEW a \in Nat, NEW b \in Nat \ {0}
    PROVE  a \div b \in Nat /\ (a \div b) * b <= a /\ a < (a \div b) * b + b
OBVIOUS

(* No more whole periods fit into a time than the quotient.                *)
LEMMA QuotientGreatest ==
    ASSUME NEW a \in Nat, NEW b \in Nat \ {0}, NEW q \in Nat, q * b <= a
    PROVE  q <= a \div b
<1> DEFINE d == a \div b
<1>1. d \in Nat /\ a < d * b + b BY QuotientBounds
<1> HIDE DEF d
<1>2. SUFFICES ASSUME q >= d + 1 PROVE FALSE BY <1>1 DEF d
<1>3. q * b >= (d + 1) * b BY <1>1, <1>2
<1>4. (d + 1) * b = d * b + b BY <1>1
<1> QED BY <1>1, <1>3, <1>4

(* The loop of AdoptLedger over the incoming stamps is a function of its   *)
(* place in them.                                                          *)
LEMMA AdoptionDefined ==
    ASSUME NEW X, NEW own \in Seq(X), NEW incoming \in Seq(X)
    PROVE  \E f :
               /\ f = [i \in 0 .. Len(incoming) |->
                         IF i = 0 THEN own ELSE TakeOn(f[i - 1], incoming[i])]
               /\ Adopted(own, incoming) = f[Len(incoming)]
<1> DEFINE n == Len(incoming)
           Steps(g, k) == \A i \in 0 .. k : g[i] = IF i = 0 THEN own ELSE TakeOn(g[i - 1], incoming[i])
           Bad == {k \in 0 .. n : ~ \E g \in [0 .. k -> Seq(X)] : Steps(g, k)}
<1>1. n \in Nat /\ \A i \in 1 .. n : incoming[i] \in X BY LenProperties, ElementOfSeq
<1>2. \A s \in Seq(X), x \in X : TakeOn(s, x) \in Seq(X) BY AppendProperties DEF TakeOn
<1>3. Bad = {}
    <2> SUFFICES ASSUME Bad # {} PROVE FALSE OBVIOUS
    <2> DEFINE k == Min(Bad)
    <2>1. Bad \subseteq Nat BY <1>1
    <2> HIDE DEF Bad
    <2>2. k \in Bad /\ \A y \in Bad : k =< y BY <2>1, LeastOfNats
    <2> HIDE DEF k
    <2>3. k \in 0 .. n /\ ~ \E g \in [0 .. k -> Seq(X)] : Steps(g, k) BY <2>2 DEF Bad
    <2>4. CASE k = 0
        <3> DEFINE g == [i \in 0 .. 0 |-> own]
        <3>1. g \in [0 .. 0 -> Seq(X)] OBVIOUS
        <3>2. Steps(g, 0) OBVIOUS
        <3> QED BY <2>3, <2>4, <3>1, <3>2
    <2>5. CASE k # 0
        <3>1. k - 1 \in 0 .. n /\ k - 1 < k /\ k \in 1 .. n /\ k \in Nat BY <1>1, <2>3, <2>5
        <3>2. k - 1 \notin Bad BY <2>1, <2>2, <3>1
        <3>3. PICK g \in [0 .. k - 1 -> Seq(X)] : Steps(g, k - 1) BY <3>1, <3>2 DEF Bad
        <3> DEFINE h == [i \in 0 .. k |-> IF i = k THEN TakeOn(g[k - 1], incoming[k]) ELSE g[i]]
        <3>4. \A i \in 0 .. k : i # k => i \in 0 .. k - 1 BY <3>1
        <3>5. k - 1 \in 0 .. k - 1 BY <3>1
        <3>6. h \in [0 .. k -> Seq(X)] BY <1>1, <1>2, <3>1, <3>4, <3>5
        <3>7. ASSUME NEW i \in 0 .. k
              PROVE h[i] = IF i = 0 THEN own ELSE TakeOn(h[i - 1], incoming[i])
            <4>1. CASE i = k
                <5>1. h[i] = TakeOn(g[k - 1], incoming[k]) BY <4>1
                <5>2. h[k - 1] = g[k - 1] BY <3>1
                <5> QED BY <2>5, <4>1, <5>1, <5>2
            <4>2. CASE i # k
                <5>1. i \in 0 .. k - 1 /\ h[i] = g[i] BY <3>4, <4>2
                <5>2. i # 0 => i - 1 \in 0 .. k /\ i - 1 # k /\ h[i - 1] = g[i - 1] BY <3>1, <5>1
                <5> QED BY <3>3, <5>1, <5>2
            <4> QED BY <4>1, <4>2
        <3> HIDE DEF h
        <3> QED BY <2>3, <3>6, <3>7
    <2> QED BY <2>4, <2>5
<1>4. n \in 0 .. n BY <1>1
<1>5. PICK g \in [0 .. n -> Seq(X)] : Steps(g, n) BY <1>3, <1>4
<1>6. g = [i \in 0 .. n |-> IF i = 0 THEN own ELSE TakeOn(g[i - 1], incoming[i])] BY <1>5
<1> DEFINE f == CHOOSE f : f = [i \in 0 .. n |-> IF i = 0 THEN own ELSE TakeOn(f[i - 1], incoming[i])]
<1>7. f = [i \in 0 .. n |-> IF i = 0 THEN own ELSE TakeOn(f[i - 1], incoming[i])] BY <1>6
<1>8. Adopted(own, incoming) = f[n] BY DEF Adopted
<1> QED BY <1>7, <1>8

(* A route prefix: the proxy that holds the nonce, and the epoch.          *)
RoutePrefixes == [of : Proxies, epoch : Nat]
(* A stamp a proxy holds.                                                  *)
Held == [name : Skills, prefix : RoutePrefixes, epoch : Nat, burned : Nat \cup {Never}]
(* The stamps of other proxies are listed once each.                       *)
Foreign(p, stamps) ==
    \A i, j \in DOMAIN stamps : stamps[i].prefix.of # p /\ i # j
        => stamps[i].prefix # stamps[j].prefix

(* What the standby holds while it adopts: the stamps of others once       *)
(* each, and of its own none but those it had.                             *)
Adopting(p, own, a) ==
    /\ a \in Seq(Held) /\ Foreign(p, a)
    /\ \A i \in DOMAIN a : a[i].prefix.of = p => \E j \in DOMAIN own : a[i] = own[j]

(* One iteration of the loop of AdoptLedger (rotation_verify.go): a        *)
(* stamp of another proxy is taken on if its prefix is not listed yet.     *)
LEMMA TakenOn ==
    ASSUME NEW p, NEW own \in Seq(Held), NEW a, NEW s \in Held, Adopting(p, own, a), s.prefix.of # p
    PROVE  Adopting(p, own, TakeOn(a, s))
<1> USE DEF Adopting
<1>1. CASE s.prefix \in Stamps(a) BY <1>1 DEF TakeOn
<1>2. CASE s.prefix \notin Stamps(a)
    <2> DEFINE b == Append(a, s)
               n == Len(a)
    <2>1. TakeOn(a, s) = b BY <1>2 DEF TakeOn
    <2>2. n \in Nat /\ DOMAIN a = 1 .. n BY LenProperties
    <2>3. /\ b \in Seq(Held) /\ DOMAIN b = 1 .. n + 1 /\ b[n + 1] = s
          /\ \A i \in 1 .. n : b[i] = a[i]
        BY <2>2, AppendProperties, LenProperties
    <2> HIDE DEF b, n
    <2>4. \A i \in 1 .. n + 1 : i \in 1 .. n \/ i = n + 1 BY <2>2
    <2>5. \A i \in 1 .. n : a[i].prefix # s.prefix BY <1>2, <2>2 DEF Stamps
    <2>6. Foreign(p, b)
        <3> SUFFICES ASSUME NEW i \in 1 .. n + 1, NEW j \in 1 .. n + 1, i # j, b[i].prefix.of # p
                     PROVE  b[i].prefix # b[j].prefix
            BY <2>3 DEF Foreign
        <3>1. CASE i \in 1 .. n /\ j \in 1 .. n BY <2>2, <2>3, <3>1 DEF Foreign
        <3>2. CASE i = n + 1 /\ j \in 1 .. n BY <2>3, <2>5, <3>2
        <3>3. CASE j = n + 1 /\ i \in 1 .. n BY <2>3, <2>5, <3>3
        <3> QED BY <2>4, <3>1, <3>2, <3>3
    <2>7. ASSUME NEW i \in 1 .. n + 1, b[i].prefix.of = p PROVE \E j \in DOMAIN own : b[i] = own[j]
        <3>1. i \in 1 .. n BY <2>3, <2>4, <2>7
        <3> QED BY <2>2, <2>3, <2>7, <3>1
    <2> QED BY <2>1, <2>3, <2>6, <2>7
<1> QED BY <1>1, <1>2

(* So the loop as a whole, by the least place at which it could fail.      *)
LEMMA AdoptionSound ==
    ASSUME NEW p, NEW own \in Seq(Held), NEW incoming \in Seq(Held), Foreign(p, own),
           \A i \in DOMAIN incoming : incoming[i].prefix.of # p
    PROVE  Adopting(p, own, Adopted(own, incoming))
<1> DEFINE n == Len(incoming)
<1>1. PICK f : /\ f = [i \in 0 .. n |-> IF i = 0 THEN own ELSE TakeOn(f[i - 1], incoming[i])]
               /\ Adopted(own, incoming) = f[n]
    BY AdoptionDefined
<1>2. n \in Nat /\ \A i \in 1 .. n : incoming[i] \in Held /\ incoming[i].prefix.of # p
    BY LenProperties, ElementOfSeq
<1> DEFINE Bad == {k \in 0 .. n : ~Adopting(p, own, f[k])}
<1>3. Adopting(p, own, own) BY DEF Adopting
<1>4. Bad = {}
    <2> SUFFICES ASSUME Bad # {} PROVE FALSE OBVIOUS
    <2> DEFINE k == Min(Bad)
    <2>1. Bad \subseteq Nat BY <1>2
    <2>2. \A x : x \in Bad <=> x \in 0 .. n /\ ~Adopting(p, own, f[x]) OBVIOUS
    <2> HIDE DEF Bad
    <2>3. k \in Bad /\ \A y \in Bad : k =< y BY <2>1, LeastOfNats
    <2> HIDE DEF k
    <2>4. k \in 0 .. n /\ ~Adopting(p, own, f[k]) BY <2>2, <2>3
    <2>5. k # 0 BY <1>1, <1>3, <2>4
    <2>6. k \in 1 .. n /\ k - 1 \in 0 .. n /\ k - 1 < k /\ k \in Nat BY <1>2, <2>4, <2>5
    <2>7. k - 1 \notin Bad BY <2>1, <2>3, <2>6
    <2>8. Adopting(p, own, f[k - 1]) BY <2>2, <2>6, <2>7
    <2>9. f[k] = TakeOn(f[k - 1], incoming[k]) BY <1>1, <2>4, <2>5
    <2> QED BY <1>2, <2>4, <2>6, <2>8, <2>9, TakenOn
<1>5. Adopting(p, own, f[n])
    <2>1. n \in 0 .. n BY <1>2
    <2> QED BY <1>4, <2>1
<1> QED BY <1>1, <1>5

(* An entry of the ledger of retired routes.                               *)
Closures == [epoch : Nat, prefix : RoutePrefixes, at : Nat]
(* The shape of a proxy.                                                   *)
Routes == [scheduled : BOOLEAN, epoch : Nat, prefix : RoutePrefixes, base : Nat, origin : Nat,
           retired : Seq(Closures), skills : Seq(Held), last : Nat \cup {Never},
           hand : Nat \cup {Never}]
(* What history keeps of a prefix a proxy has left.                        *)
Leavings == [prefix : RoutePrefixes, at : Proxies, how : {"told", "due"}, left : Nat, due : Nat, rank : Nat]

(* When the epoch of a prefix was over: at the boundary that was due, or   *)
(* when an instruction ended it.                                           *)
ClosedBy(h) == IF h.how = "due" THEN h.due ELSE h.left
(* A time by which the epoch of a prefix was not over.                     *)
Excused(H, prefix, at) == \E h \in H : h.prefix = prefix /\ at <= ClosedBy(h)

(* The schedule of a proxy is based at the epoch it presents, and          *)
(* nothing it records lies ahead of the clock; what it has left lies       *)
(* before the epoch and is ranked.                                         *)
RouteShape(k, p, t, H) ==
    /\ t \in Routes /\ H \subseteq Leavings /\ IsFiniteSet(H)
    /\ t.prefix = PrefixAt(p, t.epoch) /\ t.base = t.epoch /\ t.origin <= k /\ t.hand <= k
    /\ \A h \in H : h.at = p /\ h.prefix.epoch < t.epoch /\ h.rank < Cardinality(H)
(* The ledger holds the newest of what was left, as many as fit, in        *)
(* order, each dated no later than its epoch was over.                     *)
LedgerKept(t, H) == LET r == t.retired
                       n == Cardinality(H)
                   IN
    /\ Len(r) = IF n < Window THEN n ELSE Window
    /\ \A i \in DOMAIN r : /\ r[i].epoch < t.epoch /\ r[i].at <= t.origin
                           /\ Excused(H, r[i].prefix, r[i].at)
    /\ \A i, j \in DOMAIN r : i < j => r[i].epoch < r[j].epoch /\ r[i].at <= r[j].at
    /\ \A h \in H : h.rank >= n - Len(r) => r[h.rank - (n - Len(r)) + 1].prefix = h.prefix
(* A stamp of the proxy's own that is not burned is of the prefix in       *)
(* force; a burned one was burned by hand, or no later than its epoch      *)
(* was over.                                                               *)
StampsKept(p, t, H) ==
    \A i \in DOMAIN t.skills : t.skills[i].prefix.of = p =>
        IF t.skills[i].burned = Never THEN t.skills[i].prefix = t.prefix
        ELSE \/ t.skills[i].burned <= t.hand
             \/ Excused(H, t.skills[i].prefix, t.skills[i].burned)
(* Rotations by the clock alone do not run ahead of it.                    *)
Unhurried(t, H) == (\A h \in H : h.how = "due") => t.epoch * Period <= t.origin
(* The books of one proxy, given what it has left.                         *)
ProxyInv(k, p, t, H) ==
    RouteShape(k, p, t, H) /\ LedgerKept(t, H) /\ StampsKept(p, t, H) /\ Unhurried(t, H)

(* Only the standby holds stamps of others.                                *)
OwnStamps == \A p \in Proxies \ {Standby} : \A i \in DOMAIN px[p].skills : px[p].skills[i].prefix.of = p
(* A ledger that was copied and not adopted yet holds no stamp of the      *)
(* standby.                                                                *)
LedgerMoving ==
    moving = NoLedger \/ /\ moving.skills \in Seq(Held)  /\ moving.last \in Nat \cup {Never}
                          /\ \A i \in DOMAIN moving.skills : moving.skills[i].prefix.of # Standby
(* The inductive invariant of the proxies.                                 *)
RouteInv ==
    /\ clock \in Nat /\ px \in [Proxies -> Routes] /\ past \subseteq Leavings
    /\ \A p \in Proxies : ProxyInv(clock, p, px[p], Presented(p))
    /\ OwnStamps /\ LedgerMoving /\ Foreign(Standby, px[Standby].skills)

(* The ledger cut to its newest entries, as rotateTo does.                 *)
Trimmed(ledger) == IF Len(ledger) > Window THEN SubSeq(ledger, Len(ledger) - Window + 1, Len(ledger))
                   ELSE ledger
(* A closure is never dated ahead of the clock.                            *)
ClosedAt(closing) == IF closing > clock THEN clock ELSE closing

(* rotateTo appends one entry to the ledger and drops the oldest when it   *)
(* is full.                                                                *)
LEMMA LedgerGrown ==
    ASSUME NEW r \in Seq(Closures), NEW e \in Closures, Len(r) <= Window
    PROVE  LET q == Trimmed(Append(r, e))
               d == IF Len(r) < Window THEN 0 ELSE 1
           IN  /\ q \in Seq(Closures) /\ Len(q) = Len(r) + 1 - d /\ DOMAIN q = 1 .. Len(r) + 1 - d
               /\ q[Len(r) + 1 - d] = e
               /\ \A i \in 1 .. Len(r) - d : q[i] = r[i + d]
<1> DEFINE n == Len(r)
           a == Append(r, e)
<1>1. n \in Nat /\ n <= Window /\ Window \in Nat /\ Window > 0 BY LenProperties, RouteAssumption
<1>2. /\ a \in Seq(Closures) /\ Len(a) = n + 1 /\ a[n + 1] = e /\ \A i \in 1 .. n : a[i] = r[i]
    BY <1>1, AppendProperties
<1>3. \A i \in 1 .. n + 1 : a[i] \in Closures BY <1>2, ElementOfSeq
<1> HIDE DEF n, a
<1>4. CASE n < Window
    <2>1. Trimmed(a) = a BY <1>1, <1>2, <1>4 DEF Trimmed
    <2>2. DOMAIN a = 1 .. n + 1 BY <1>2, LenProperties
    <2> QED BY <1>1, <1>2, <1>4, <2>1, <2>2 DEF n, a
<1>5. CASE n = Window
    <2> DEFINE q == SubSeq(a, 2, n + 1)
    <2>1. Trimmed(a) = q BY <1>1, <1>2, <1>5 DEF Trimmed
    <2>2. \A i \in 2 .. n + 1 : a[i] \in Closures BY <1>1, <1>3
    <2>3. q \in Seq(Closures) /\ Len(q) = n /\ \A i \in 1 .. n : q[i] = a[i + 1]
        BY <1>1, <1>2, <2>2
    <2>4. DOMAIN q = 1 .. n BY <2>3, LenProperties
    <2> HIDE DEF q
    <2>5. q[n] = e BY <1>1, <1>2, <1>5, <2>3
    <2>6. \A i \in 1 .. n - 1 : q[i] = r[i + 1]
        <3> SUFFICES ASSUME NEW i \in 1 .. n - 1 PROVE q[i] = r[i + 1] OBVIOUS
        <3>1. i \in 1 .. n /\ i + 1 \in 1 .. n BY <1>1
        <3> QED BY <1>2, <2>3, <3>1
    <2>7. n + 1 - 1 = n /\ ~(n < Window) BY <1>1, <1>5
    <2> QED BY <2>1, <2>3, <2>4, <2>5, <2>6, <2>7 DEF n, a
<1> QED BY <1>1, <1>4, <1>5

(* A rotation (rotateTo, tool_proxy.go), field by field.                   *)
LEMMA RotatedFields ==
    ASSUME NEW p \in Proxies, NEW t \in Routes, NEW target \in Nat, NEW closing \in Nat, clock \in Nat,
           Len(t.retired) <= Window
    PROVE  LET u == RotateTo(p, t, target, closing)
               e == [epoch |-> t.epoch, prefix |-> t.prefix, at |-> ClosedAt(closing)]
           IN  /\ u \in Routes /\ u.epoch = target /\ u.prefix = PrefixAt(p, target)
               /\ u.base = target /\ u.origin = clock /\ u.hand = t.hand
               /\ e \in Closures /\ u.retired = Trimmed(Append(t.retired, e))
               /\ u.skills = BurnSkillsAt(t.skills, ClosedAt(closing))
<1> DEFINE at == ClosedAt(closing)
           e == [epoch |-> t.epoch, prefix |-> t.prefix, at |-> at]
           s == EnsureSchedule(t)
           q == Trimmed(Append(t.retired, e))
           b == BurnSkillsAt(t.skills, at)
           u == RotateTo(p, t, target, closing)
<1>1. /\ t.epoch \in Nat /\ t.prefix \in RoutePrefixes /\ t.retired \in Seq(Closures)
      /\ t.skills \in Seq(Held) /\ t.hand \in Nat \cup {Never} /\ at \in Nat /\ PrefixAt(p, target) \in RoutePrefixes
    BY DEF Routes, ClosedAt, PrefixAt, RoutePrefixes
<1>2. /\ s \in Routes /\ s.epoch = t.epoch /\ s.prefix = t.prefix /\ s.retired = t.retired
      /\ s.skills = t.skills /\ s.hand = t.hand /\ s.scheduled
    <2>1. CASE t.scheduled BY <2>1 DEF EnsureSchedule
    <2>2. CASE ~t.scheduled
        <3>1. s = [t EXCEPT !.scheduled = TRUE, !.base = t.epoch, !.origin = clock]
            BY <2>2 DEF EnsureSchedule
        <3>2. TRUE \in BOOLEAN OBVIOUS
        <3> QED BY <1>1, <3>1, <3>2 DEF Routes
    <2> QED BY <2>1, <2>2
<1>3. e \in Closures BY <1>1 DEF Closures
<1> HIDE DEF at
<1>4. q \in Seq(Closures)
    <2> HIDE DEF e
    <2> QED BY <1>1, <1>3, LedgerGrown
<1>5. b \in Seq(Held)
    <2>1. DOMAIN t.skills = 1 .. Len(t.skills) /\ Len(t.skills) \in Nat BY <1>1, LenProperties
    <2>2. ASSUME NEW i \in DOMAIN t.skills
          PROVE  (IF t.skills[i].burned = Never THEN [t.skills[i] EXCEPT !.burned = at]
                  ELSE t.skills[i]) \in Held
        <3>1. t.skills[i] \in Held BY <1>1, <2>1, <2>2, ElementOfSeq
        <3> QED BY <1>1, <3>1 DEF Held
    <2>3. b \in [1 .. Len(t.skills) -> Held] BY <2>1, <2>2 DEF BurnSkillsAt
    <2> QED BY <2>1, <2>3, SeqDef
<1>6. u = [s EXCEPT !.skills = b, !.retired = q, !.epoch = target, !.prefix = PrefixAt(p, target),
                    !.last = clock, !.base = target, !.origin = clock]
    BY <1>2 DEF RotateTo, Trimmed, ClosedAt, at
<1> HIDE DEF q, b, s, u
<1>7. /\ u \in Routes /\ u.epoch = target /\ u.prefix = PrefixAt(p, target) /\ u.base = target
      /\ u.origin = clock /\ u.hand = s.hand /\ u.retired = q /\ u.skills = b
    BY <1>1, <1>2, <1>4, <1>5, <1>6 DEF Routes
<1> QED BY <1>2, <1>3, <1>7 DEF q, b, u, at

(* What history notes when a proxy leaves its prefix.                      *)
Leaving(p, t, how, rank) ==
    [prefix |-> t.prefix, at |-> p, how |-> how, left |-> clock,
     due |-> IF t.scheduled THEN t.origin + Period ELSE clock, rank |-> rank]

(* A rotation keeps the books of a proxy and adds one prefix to what it    *)
(* left. One on instruction may go to any later epoch; one by the clock    *)
(* must not go further than the time since the last one allows.            *)
LEMMA RotationKeeps ==
    ASSUME NEW p \in Proxies, NEW t, NEW H, ProxyInv(clock, p, t, H), clock \in Nat,
           NEW target \in Nat, target > t.epoch, NEW closing \in Nat, closing >= t.origin,
           NEW how \in {"told", "due"},
           how = "due" => /\ t.scheduled /\ closing <= t.origin + Period
                          /\ target * Period <= t.epoch * Period + (clock - t.origin)
    PROVE  ProxyInv(clock, p, RotateTo(p, t, target, closing),
                    H \cup {Leaving(p, t, how, Cardinality(H))})
<1> DEFINE u == RotateTo(p, t, target, closing)
           n == Cardinality(H)
           h0 == Leaving(p, t, how, n)
           G == H \cup {h0}
           at == ClosedAt(closing)
           e == [epoch |-> t.epoch, prefix |-> t.prefix, at |-> at]
           r == t.retired
           m == Len(r)
           d == IF m < Window THEN 0 ELSE 1
           q == u.retired
<1>1. /\ t \in Routes /\ H \subseteq Leavings /\ IsFiniteSet(H) /\ t.prefix = PrefixAt(p, t.epoch)
      /\ t.origin \in Nat /\ t.epoch \in Nat /\ t.origin <= clock /\ t.hand \in Nat \cup {Never} /\ t.hand <= clock
      /\ t.retired \in Seq(Closures) /\ t.skills \in Seq(Held) /\ t.prefix \in RoutePrefixes
      /\ \A h \in H : h.at = p /\ h.prefix.epoch < t.epoch /\ h.rank < n
    BY DEF ProxyInv, RouteShape, Routes
<1>2. Period \in Nat /\ Period > 0 /\ Window \in Nat /\ Window > 0 BY RouteAssumption
<1>3. n \in Nat BY <1>1, FS_CardinalityType
<1>4. /\ m = (IF n < Window THEN n ELSE Window) /\ m \in Nat /\ m <= Window /\ m <= n /\ DOMAIN r = 1 .. m
    <2>1. m = IF n < Window THEN n ELSE Window BY DEF ProxyInv, LedgerKept
    <2>2. DOMAIN r = 1 .. m BY <1>1, LenProperties
    <2> HIDE DEF m, n
    <2> QED BY <1>2, <1>3, <2>1, <2>2
<1>5. /\ u \in Routes /\ u.epoch = target /\ u.prefix = PrefixAt(p, target) /\ u.base = target
      /\ u.origin = clock /\ u.hand = t.hand /\ e \in Closures /\ q = Trimmed(Append(r, e))
      /\ u.skills = BurnSkillsAt(t.skills, at)
    BY <1>1, <1>4, RotatedFields
<1>6. /\ at \in Nat /\ at <= clock /\ at >= t.origin /\ (how = "due" => at <= t.origin + Period)
    <2> DEFINE o == t.origin
    <2>1. o \in Nat /\ o <= clock /\ closing >= o /\ (how = "due" => closing <= o + Period) BY <1>1
    <2> HIDE DEF o
    <2>2. at \in Nat /\ at <= clock /\ at >= o /\ (how = "due" => at <= o + Period)
        <3>1. CASE closing > clock BY <1>2, <2>1, <3>1 DEF ClosedAt
        <3>2. CASE ~(closing > clock) BY <1>2, <2>1, <3>2 DEF ClosedAt
        <3> QED BY <3>1, <3>2
    <2> QED BY <2>2 DEF o
<1> HIDE DEF at
<1>7. h0 \in Leavings /\ h0.prefix = t.prefix /\ h0.rank = n /\ h0.at = p /\ h0.how = how /\ at <= ClosedBy(h0)
    <2>1. (IF t.scheduled THEN t.origin + Period ELSE clock) \in Nat BY <1>1, <1>2
    <2>2. h0 \in Leavings BY <1>1, <1>3, <2>1 DEF Leaving, Leavings
    <2>3. /\ h0.prefix = t.prefix /\ h0.rank = n /\ h0.at = p /\ h0.how = how /\ h0.left = clock
          /\ h0.due = IF t.scheduled THEN t.origin + Period ELSE clock
        BY DEF Leaving
    <2> HIDE DEF h0
    <2> QED BY <1>6, <2>2, <2>3 DEF ClosedBy
<1>8. h0 \notin H BY <1>1, <1>7 DEF PrefixAt
<1>9. IsFiniteSet(G) /\ Cardinality(G) = n + 1 BY <1>1, <1>8, FS_AddElement
<1> HIDE DEF h0
<1>10. /\ q \in Seq(Closures) /\ Len(q) = m + 1 - d /\ DOMAIN q = 1 .. m + 1 - d /\ q[m + 1 - d] = e
       /\ \A i \in 1 .. m - d : q[i] = r[i + d]
    <2>1. r \in Seq(Closures) /\ e \in Closures /\ Len(r) <= Window BY <1>1, <1>4, <1>5
    <2>2. q = Trimmed(Append(r, e)) BY <1>5
    <2> HIDE DEF e, u, r, q
    <2>3. /\ Trimmed(Append(r, e)) \in Seq(Closures)
          /\ Len(Trimmed(Append(r, e))) = Len(r) + 1 - (IF Len(r) < Window THEN 0 ELSE 1)
          /\ DOMAIN Trimmed(Append(r, e)) = 1 .. Len(r) + 1 - (IF Len(r) < Window THEN 0 ELSE 1)
          /\ Trimmed(Append(r, e))[Len(r) + 1 - (IF Len(r) < Window THEN 0 ELSE 1)] = e
          /\ \A i \in 1 .. Len(r) - (IF Len(r) < Window THEN 0 ELSE 1) :
                Trimmed(Append(r, e))[i] = r[i + (IF Len(r) < Window THEN 0 ELSE 1)]
        BY <2>1, LedgerGrown, Zenon
    <2> QED BY <2>2, <2>3, Zenon
<1>11. d \in {0, 1} /\ (d = 0 <=> m < Window) /\ m + 1 - d \in Nat /\ d <= m
    <2> HIDE DEF m
    <2> QED BY <1>2, <1>4
<1>a. m \in Nat /\ d \in Nat /\ (d = 0 \/ d = 1) /\ d <= m
    <2> HIDE DEF m, d
    <2> QED BY <1>4, <1>11
<1>12. \A x, y : Excused(H, x, y) => Excused(G, x, y) BY DEF Excused
<1>13. Excused(G, t.prefix, at) BY <1>7 DEF Excused
<1>14. e.epoch = t.epoch /\ e.prefix = t.prefix /\ e.at = at OBVIOUS
<1> HIDE DEF u, n, q, r, m, d, e
<1>15. RouteShape(clock, p, u, G)
    <2>1. ASSUME NEW h \in G PROVE h.at = p /\ h.prefix.epoch < target /\ h.rank < n + 1
        <3>1. CASE h \in H
            <4>1. h \in Leavings BY <1>1, <3>1
            <4>2. h.rank \in Nat /\ h.prefix.epoch \in Nat BY <4>1 DEF Leavings, RoutePrefixes
            <4> QED BY <1>1, <1>3, <3>1, <4>2
        <3>2. CASE h = h0 BY <1>1, <1>3, <1>7, <3>2 DEF PrefixAt
        <3> QED BY <3>1, <3>2
    <2>2. G \subseteq Leavings BY <1>1, <1>7
    <2>3. clock <= clock OBVIOUS
    <2>4. u.hand <= clock BY <1>1, <1>5
    <2> HIDE DEF G
    <2> QED BY <1>5, <1>9, <2>1, <2>2, <2>3, <2>4 DEF RouteShape
<1>16. LedgerKept(u, G)
    <2>1. Len(q) = IF n + 1 < Window THEN n + 1 ELSE Window BY <1>2, <1>3, <1>4, <1>10, <1>11
    <2>2. \A i \in 1 .. m + 1 - d : (i \in 1 .. m - d /\ i + d \in 1 .. m) \/ i = m + 1 - d
        BY <1>a
    <2>3. \A i \in 1 .. m : /\ r[i].epoch < t.epoch /\ r[i].at <= t.origin
                            /\ Excused(H, r[i].prefix, r[i].at)
        BY <1>4 DEF ProxyInv, LedgerKept, r
    <2>4. \A i, j \in 1 .. m : i < j => r[i].epoch < r[j].epoch /\ r[i].at <= r[j].at
        BY <1>4 DEF ProxyInv, LedgerKept, r
    <2>5. \A i \in 1 .. m : r[i].epoch \in Nat /\ r[i].at \in Nat
        <3>1. \A i \in 1 .. m : r[i] \in Closures BY <1>1, ElementOfSeq DEF r, m
        <3> QED BY <3>1 DEF Closures
    <2>6. ASSUME NEW i \in 1 .. m + 1 - d
          PROVE  q[i].epoch < target /\ q[i].at <= clock /\ Excused(G, q[i].prefix, q[i].at)
        <3>1. CASE i \in 1 .. m - d /\ i + d \in 1 .. m
            <4>1. q[i] = r[i + d] BY <1>10, <3>1
            <4>2. r[i + d].epoch < t.epoch /\ r[i + d].at <= t.origin
                BY <2>3, <3>1
            <4>3. r[i + d].epoch < target /\ r[i + d].at <= clock BY <1>1, <2>5, <3>1, <4>2
            <4> QED BY <1>12, <2>3, <3>1, <4>1, <4>3
        <3>2. CASE i = m + 1 - d BY <1>1, <1>6, <1>10, <1>13, <1>14, <3>2
        <3> QED BY <2>2, <3>1, <3>2
    <2>7. ASSUME NEW i \in 1 .. m + 1 - d, NEW j \in 1 .. m + 1 - d, i < j
          PROVE  q[i].epoch < q[j].epoch /\ q[i].at <= q[j].at
        <3>1. i \in 1 .. m - d /\ i + d \in 1 .. m BY <1>a, <2>7
        <3>2. q[i] = r[i + d] BY <1>10, <3>1
        <3>3. CASE j \in 1 .. m - d /\ j + d \in 1 .. m
            <4>1. q[j] = r[j + d] /\ i + d < j + d BY <1>10, <1>11, <2>7, <3>3
            <4> QED BY <2>4, <3>1, <3>2, <3>3, <4>1
        <3>4. CASE j = m + 1 - d
            <4>1. q[j] = e BY <1>10, <3>4
            <4>2. r[i + d].epoch < t.epoch /\ r[i + d].at <= t.origin BY <2>3, <3>1
            <4>3. r[i + d].at <= at BY <1>1, <1>6, <2>5, <3>1, <4>2
            <4> QED BY <1>14, <3>2, <4>1, <4>2, <4>3
        <3> QED BY <2>2, <3>3, <3>4
    <2>8. ASSUME NEW h \in G, h.rank >= (n + 1) - Len(q)
          PROVE  q[h.rank - ((n + 1) - Len(q)) + 1].prefix = h.prefix
        <3>1. h.rank \in Nat BY <1>1, <1>7 DEF Leavings
        <3>2. CASE h \in H
            <4> DEFINE k == h.rank
            <4>1. k < n /\ k \in Nat BY <1>1, <3>1, <3>2
            <4>2. k >= n - m => r[k - (n - m) + 1].prefix = h.prefix
                BY <3>2 DEF ProxyInv, LedgerKept, r, m, n
            <4>a. k >= (n + 1) - Len(q) BY <2>8
            <4> HIDE DEF k
            <4> DEFINE l == Len(q)
                       x == k - ((n + 1) - l) + 1
            <4>3. l = m + 1 - d BY <1>10
            <4> HIDE DEF k, l
            <4>4. m <= n BY <1>4
            <4>5. /\ k >= n - m /\ x + d = k - (n - m) + 1 /\ x \in 1 .. m - d
                BY <1>3, <1>a, <4>1, <4>a, <4>3, <4>4 DEF l
            <4>6. q[x] = r[x + d] BY <1>10, <4>5
            <4> QED BY <4>2, <4>5, <4>6 DEF k, l
        <3>3. CASE h = h0
            <4>1. n - ((n + 1) - Len(q)) + 1 = m + 1 - d BY <1>3, <1>10, <1>11
            <4> QED BY <1>7, <1>10, <1>14, <3>3, <4>1
        <3> QED BY <3>2, <3>3
    <2> HIDE DEF G
    <2>9. q = u.retired BY DEF q
    <2>10. DOMAIN q = 1 .. m + 1 - d BY <1>10
    <2>11. Len(u.retired) = IF Cardinality(G) < Window THEN Cardinality(G) ELSE Window
        BY <1>9, <2>1, <2>9, Zenon
    <2>12. \A i \in DOMAIN u.retired : /\ u.retired[i].epoch < u.epoch /\ u.retired[i].at <= u.origin
                                      /\ Excused(G, u.retired[i].prefix, u.retired[i].at)
        BY <1>5, <2>6, <2>9, <2>10, Zenon
    <2>13. \A i, j \in DOMAIN u.retired : i < j =>
              u.retired[i].epoch < u.retired[j].epoch /\ u.retired[i].at <= u.retired[j].at
        BY <2>7, <2>9, <2>10, Zenon
    <2>14. \A h \in G : h.rank >= Cardinality(G) - Len(u.retired) =>
              u.retired[h.rank - (Cardinality(G) - Len(u.retired)) + 1].prefix = h.prefix
        <3> SUFFICES ASSUME NEW h \in G, h.rank >= Cardinality(G) - Len(u.retired)
                     PROVE  u.retired[h.rank - (Cardinality(G) - Len(u.retired)) + 1].prefix = h.prefix
            OBVIOUS
        <3>0. Cardinality(G) - Len(u.retired) = (n + 1) - Len(q)
            <4>1. Cardinality(G) = n + 1 BY <1>9
            <4>2. u.retired = q BY DEF q
            <4> QED BY <4>1, <4>2, Zenon
        <3>1. h.rank >= (n + 1) - Len(q) BY <3>0, Zenon
        <3>2. q[h.rank - ((n + 1) - Len(q)) + 1].prefix = h.prefix BY <2>8, <3>1
        <3> QED BY <2>9, <3>0, <3>2, Zenon
    <2> QED BY <2>11, <2>12, <2>13, <2>14, Zenon DEF LedgerKept
<1>17. StampsKept(p, u, G)
    <2> DEFINE b == BurnSkillsAt(t.skills, at)
    <2>1. DOMAIN b = DOMAIN t.skills BY DEF BurnSkillsAt
    <2>2. SUFFICES ASSUME NEW i \in DOMAIN t.skills, b[i].prefix.of = p
          PROVE  IF b[i].burned = Never THEN b[i].prefix = u.prefix
                 ELSE b[i].burned <= u.hand \/ Excused(G, b[i].prefix, b[i].burned)
        BY <1>5, <2>1 DEF StampsKept
    <2> DEFINE s == t.skills[i]
    <2>3. s \in Held BY <1>1, <2>2, ElementOfSeq, LenProperties
    <2>4. CASE s.burned = Never
        <3>1. b[i] = [s EXCEPT !.burned = at] BY <2>2, <2>4 DEF BurnSkillsAt
        <3>2. b[i].burned = at /\ b[i].prefix = s.prefix BY <2>3, <3>1 DEF Held
        <3>3. s.prefix = t.prefix BY <2>2, <2>4, <3>2 DEF ProxyInv, StampsKept
        <3>4. at # Never BY <1>6 DEF Never
        <3> QED BY <1>13, <3>2, <3>3, <3>4
    <2>5. CASE s.burned # Never
        <3>1. b[i] = s BY <2>2, <2>5 DEF BurnSkillsAt
        <3>2. s.burned <= t.hand \/ Excused(H, s.prefix, s.burned)
            BY <2>2, <2>5, <3>1 DEF ProxyInv, StampsKept
        <3> QED BY <1>5, <1>12, <2>5, <3>1, <3>2
    <2> QED BY <2>4, <2>5
<1>18. Unhurried(u, G)
    <2>1. SUFFICES ASSUME \A h \in G : h.how = "due" PROVE target * Period <= clock
        BY <1>5 DEF Unhurried
    <2>2. how = "due" /\ \A h \in H : h.how = "due" BY <1>7, <2>1
    <2>3. t.epoch * Period <= t.origin BY <2>2 DEF ProxyInv, Unhurried
    <2> DEFINE x == t.epoch * Period
               y == target * Period
    <2>4. x \in Nat /\ y \in Nat BY <1>1, <1>2
    <2>5. y <= x + (clock - t.origin) BY <2>2
    <2> HIDE DEF x, y
    <2>6. y <= clock BY <1>1, <2>3, <2>4, <2>5 DEF x
    <2> QED BY <2>6 DEF y
<1> QED BY <1>15, <1>16, <1>17, <1>18 DEF ProxyInv, u, h0, n

(* Burning (burnSkillsAt, tool_proxy.go) dates every stamp that has no     *)
(* date and changes nothing else.                                          *)
LEMMA BurnKeeps ==
    ASSUME NEW skills \in Seq(Held), NEW at \in Nat
    PROVE  LET b == BurnSkillsAt(skills, at)
           IN  /\ b \in Seq(Held) /\ DOMAIN b = DOMAIN skills
               /\ \A i \in DOMAIN skills :
                     /\ b[i].prefix = skills[i].prefix
                     /\ b[i].burned = IF skills[i].burned = Never THEN at ELSE skills[i].burned
                     /\ b[i].burned # Never
<1> DEFINE b == BurnSkillsAt(skills, at)
<1>1. DOMAIN skills = 1 .. Len(skills) /\ Len(skills) \in Nat BY LenProperties
<1>2. DOMAIN b = DOMAIN skills BY DEF BurnSkillsAt
<1>3. ASSUME NEW i \in DOMAIN skills
      PROVE  /\ b[i] \in Held /\ b[i].prefix = skills[i].prefix
             /\ b[i].burned = IF skills[i].burned = Never THEN at ELSE skills[i].burned
             /\ b[i].burned # Never
    <2>1. skills[i] \in Held BY <1>1, <1>3, ElementOfSeq
    <2>2. b[i] = IF skills[i].burned = Never THEN [skills[i] EXCEPT !.burned = at] ELSE skills[i]
        BY <1>3 DEF BurnSkillsAt
    <2> HIDE DEF b
    <2>3. at # Never BY DEF Never
    <2> QED BY <2>1, <2>2, <2>3 DEF Held
<1>4. b \in [1 .. Len(skills) -> Held] BY <1>1, <1>2, <1>3 DEF BurnSkillsAt
<1>5. b \in Seq(Held) BY <1>1, <1>4, SeqDef
<1> QED BY <1>2, <1>3, <1>5

(* Two lists of stamps with the same prefixes.                             *)
SamePrefixes(a, b) == DOMAIN b = DOMAIN a /\ \A i \in DOMAIN a : b[i].prefix = a[i].prefix

(* syncEpoch (tool_proxy.go) keeps the books: the epoch the schedule       *)
(* yields is due, and the closure is dated at the boundary.                *)
LEMMA SyncKeeps ==
    ASSUME NEW p \in Proxies, NEW t, NEW H, ProxyInv(clock, p, t, H), clock \in Nat
    PROVE  \/ SyncEpoch(p, t) = t
           \/ /\ SyncEpoch(p, t).prefix # t.prefix /\ SyncEpoch(p, t).hand = t.hand
              /\ SamePrefixes(t.skills, SyncEpoch(p, t).skills)
              /\ ProxyInv(clock, p, SyncEpoch(p, t), H \cup {Leaving(p, t, "due", Cardinality(H))})
<1>1. CASE ~(t.scheduled /\ EpochAt(t) > t.epoch) BY <1>1 DEF SyncEpoch
<1>2. CASE t.scheduled /\ EpochAt(t) > t.epoch
    <2>1. /\ t \in Routes /\ t.prefix = PrefixAt(p, t.epoch) /\ t.base = t.epoch /\ t.origin <= clock
          /\ t.origin \in Nat /\ t.epoch \in Nat /\ t.skills \in Seq(Held)
        BY DEF ProxyInv, RouteShape, Routes
    <2>2. Period \in Nat \ {0} /\ Window \in Nat /\ Window > 0 BY RouteAssumption
    <2>3. Len(t.retired) <= Window
        <3>1. Len(t.retired) = IF Cardinality(H) < Window THEN Cardinality(H) ELSE Window
            BY DEF ProxyInv, LedgerKept
        <3>2. Cardinality(H) \in Nat BY FS_CardinalityType DEF ProxyInv, RouteShape
        <3> QED BY <2>2, <3>1, <3>2
    <2> DEFINE o == t.origin
               g == t.epoch
               w == (clock - o) \div Period
               target == EpochAt(t)
               closing == EpochEnd(t)
               u == SyncEpoch(p, t)
    <2>4. o \in Nat /\ g \in Nat /\ o <= clock /\ clock - o \in Nat BY <2>1
    <2>5. target = g + w BY <1>2, <2>1 DEF EpochAt
    <2>6. closing = o + Period BY <2>1, <2>2 DEF EpochEnd
    <2>7. w \in Nat /\ w * Period <= clock - o
        <3> HIDE DEF o
        <3> QED BY <2>2, <2>4, QuotientBounds
    <2>8. u = RotateTo(p, t, target, closing) BY <1>2 DEF SyncEpoch
    <2>9. target > g BY <1>2
    <2> HIDE DEF o, g, w, target, closing, u
    <2>10. target \in Nat /\ closing \in Nat /\ closing >= o BY <2>2, <2>4, <2>5, <2>6, <2>7
    <2>11. target * Period <= g * Period + (clock - o)
        <3>1. target * Period = g * Period + w * Period BY <2>2, <2>4, <2>5, <2>7
        <3> DEFINE x == g * Period
                   y == w * Period
        <3>2. x \in Nat /\ y \in Nat BY <2>2, <2>4, <2>7
        <3> HIDE DEF x, y
        <3>3. x + y <= x + (clock - o) BY <2>4, <2>7, <3>2 DEF y
        <3> QED BY <3>1, <3>3 DEF x, y
    <2>12. closing <= o + Period BY <2>2, <2>4, <2>6
    <2>13. ProxyInv(clock, p, u, H \cup {Leaving(p, t, "due", Cardinality(H))})
        <3>1. target > t.epoch /\ closing >= t.origin /\ closing <= t.origin + Period
            BY <2>9, <2>10, <2>12 DEF o, g
        <3>2. target * Period <= t.epoch * Period + (clock - t.origin) BY <2>11 DEF o, g
        <3>3. "due" \in {"told", "due"} OBVIOUS
        <3> QED BY <1>2, <2>8, <2>10, <3>1, <3>2, <3>3, RotationKeeps
    <2>14. /\ u.prefix = PrefixAt(p, target) /\ u.hand = t.hand
           /\ u.skills = BurnSkillsAt(t.skills, ClosedAt(closing))
        <3>1. /\ RotateTo(p, t, target, closing).prefix = PrefixAt(p, target)
              /\ RotateTo(p, t, target, closing).hand = t.hand
              /\ RotateTo(p, t, target, closing).skills = BurnSkillsAt(t.skills, ClosedAt(closing))
            <4>1. ASSUME NEW a \in Nat, NEW b \in Nat
                  PROVE  /\ RotateTo(p, t, a, b).prefix = PrefixAt(p, a)
                         /\ RotateTo(p, t, a, b).hand = t.hand
                         /\ RotateTo(p, t, a, b).skills = BurnSkillsAt(t.skills, ClosedAt(b))
                <5> DEFINE v == RotateTo(p, t, a, b)
                           e == [epoch |-> t.epoch, prefix |-> t.prefix, at |-> ClosedAt(b)]
                <5>1. /\ v \in Routes /\ v.epoch = a /\ v.prefix = PrefixAt(p, a)
                      /\ v.base = a /\ v.origin = clock /\ v.hand = t.hand
                      /\ e \in Closures /\ v.retired = Trimmed(Append(t.retired, e))
                      /\ v.skills = BurnSkillsAt(t.skills, ClosedAt(b))
                    BY <2>1, <2>3, RotatedFields
                <5> QED BY <5>1
            <4> QED BY <2>10, <4>1
        <3> QED BY <2>8, <3>1, Zenon
    <2>15. u.prefix # t.prefix BY <2>1, <2>4, <2>9, <2>10, <2>14 DEF PrefixAt, g
    <2>16. ClosedAt(closing) \in Nat BY <2>10 DEF ClosedAt
    <2>17. SamePrefixes(t.skills, u.skills)
        <3> DEFINE a == ClosedAt(closing)
                   s == t.skills
        <3>1. u.skills = BurnSkillsAt(s, a) /\ s \in Seq(Held) /\ a \in Nat BY <2>1, <2>14, <2>16
        <3> HIDE DEF a, s
        <3>2. SamePrefixes(s, BurnSkillsAt(s, a)) BY <3>1, BurnKeeps, Zenon DEF SamePrefixes
        <3> QED BY <3>1, <3>2 DEF s
    <2> QED BY <2>13, <2>14, <2>15, <2>17 DEF u
<1> QED BY <1>1, <1>2

(* What history notes of a step of a proxy: nothing if its prefix stays,   *)
(* and else the prefix it leaves.                                          *)
LEMMA NotedHistory ==
    ASSUME NEW p, NEW before, NEW after, NEW how
    PROVE  /\ before.prefix = after.prefix => Note(p, before, after, how) = past
           /\ before.prefix # after.prefix =>
                 {h \in Note(p, before, after, how) : h.at = p}
                     = Presented(p) \cup {Leaving(p, before, how, Cardinality(Presented(p)))}
<1> DEFINE N == Note(p, before, after, how)
           l == Leaving(p, before, how, Cardinality(Presented(p)))
<1>1. before.prefix = after.prefix => N = past BY DEF Note
<1>2. before.prefix # after.prefix => N = past \cup {l} BY DEF Note, Leaving
<1>3. l.at = p BY DEF Leaving
<1> HIDE DEF l
<1> HIDE DEF N
<1>5. before.prefix # after.prefix => {h \in N : h.at = p} = Presented(p) \cup {l}
    BY <1>2, <1>3 DEF Presented
<1> QED BY <1>1, <1>2, <1>5 DEF N, l

(* The step of a proxy leaves the history of the others.                   *)
LEMMA OthersHistory ==
    ASSUME NEW p, NEW q, NEW before, NEW after, NEW how, q # p
    PROVE  {h \in Note(p, before, after, how) : h.at = q} = Presented(q)
<1> DEFINE l == Leaving(p, before, how, Cardinality(Presented(p)))
<1>1. Note(p, before, after, how) = past \/ Note(p, before, after, how) = past \cup {l}
    BY DEF Note, Leaving
<1>2. l.at = p BY DEF Leaving
<1> HIDE DEF l
<1> QED BY <1>1, <1>2 DEF Presented

(* The books of a proxy and the stamps it may hold.                        *)
Kept(p, t, H) ==
    /\ ProxyInv(clock, p, t, H)
    /\ p # Standby => \A i \in DOMAIN t.skills : t.skills[i].prefix.of = p
    /\ p = Standby => Foreign(p, t.skills)

(* What is said of the prefixes of the stamps survives when only their     *)
(* dates change.                                                           *)
LEMMA StampsTransfer ==
    ASSUME NEW p, NEW a, NEW b, SamePrefixes(a, b)
    PROVE  /\ Foreign(p, a) => Foreign(p, b)
           /\ (\A i \in DOMAIN a : a[i].prefix.of = p) => \A i \in DOMAIN b : b[i].prefix.of = p
BY DEF SamePrefixes, Foreign

(* The invariant, for one proxy.                                           *)
LEMMA KeptNow == ASSUME RouteInv, NEW p \in Proxies PROVE Kept(p, px[p], Presented(p))
<1>1. ProxyInv(clock, p, px[p], Presented(p)) BY DEF RouteInv
<1>2. p # Standby => \A i \in DOMAIN px[p].skills : px[p].skills[i].prefix.of = p
    BY DEF RouteInv, OwnStamps
<1>3. p = Standby => Foreign(p, px[p].skills) BY DEF RouteInv
<1> QED BY <1>1, <1>2, <1>3 DEF Kept

(* It also holds of the proxy as a reader would find it, after             *)
(* syncEpoch: every verdict is given there.                                *)
LEMMA KeptSynced ==
    ASSUME RouteInv, NEW p \in Proxies
    PROVE  /\ Kept(p, SyncEpoch(p, px[p]), Behind(p)) /\ SyncEpoch(p, px[p]).hand = px[p].hand
           /\ \A h \in Behind(p) : h \in Presented(p) \/ h.how = "due"
<1> DEFINE t == px[p]
           u == SyncEpoch(p, t)
           H == Presented(p)
           l == Leaving(p, t, "due", Cardinality(H))
           N == Note(p, t, u, "due")
<1>1. Kept(p, t, H) BY KeptNow
<1>2. clock \in Nat BY DEF RouteInv
<1>3. Behind(p) = {h \in N : h.at = p} BY DEF Behind
<1>4. l.how = "due" BY DEF Leaving
<1>5. /\ t.prefix = u.prefix => N = past
      /\ t.prefix # u.prefix => {h \in N : h.at = p} = H \cup {l}
    <2> HIDE DEF t, u
    <2> QED BY NotedHistory, Zenon
<1>6. \/ u = t
      \/ /\ u.prefix # t.prefix /\ u.hand = t.hand /\ SamePrefixes(t.skills, u.skills)
         /\ ProxyInv(clock, p, u, H \cup {l})
    <2>1. ProxyInv(clock, p, t, H) BY <1>1 DEF Kept
    <2> HIDE DEF t, H
    <2> QED BY <1>2, <2>1, SyncKeeps
<1> HIDE DEF t, u, l, N
<1>7. CASE u = t
    <2>1. Behind(p) = H BY <1>3, <1>5, <1>7 DEF Presented
    <2> QED BY <1>1, <1>7, <2>1 DEF t, u
<1>8. CASE /\ u.prefix # t.prefix /\ u.hand = t.hand /\ SamePrefixes(t.skills, u.skills)
           /\ ProxyInv(clock, p, u, H \cup {l})
    <2>1. Behind(p) = H \cup {l} BY <1>3, <1>5, <1>8
    <2>2. Kept(p, u, H \cup {l}) BY <1>1, <1>8, StampsTransfer DEF Kept
    <2> QED BY <1>4, <1>8, <2>1, <2>2 DEF t, u
<1> QED BY <1>6, <1>7, <1>8

(* A step of one proxy that keeps its books keeps the invariant.           *)
LEMMA ProxyMoved ==
    ASSUME RouteInv, NEW p \in Proxies, NEW t, NEW how, SetProxy(p, t, how), UNCHANGED <<clock, moving>>,
           Kept(p, t, {h \in Note(p, px[p], t, how) : h.at = p})
    PROVE  RouteInv'
<1> DEFINE N == Note(p, px[p], t, how)
           K == {h \in N : h.at = p}
<1>1. /\ clock \in Nat /\ px \in [Proxies -> Routes] /\ past \subseteq Leavings
      /\ \A q \in Proxies : ProxyInv(clock, q, px[q], Presented(q))
    BY DEF RouteInv
<1>2. px' = [px EXCEPT ![p] = t] /\ past' = N BY DEF SetProxy
<1>3. ProxyInv(clock, p, t, K) BY DEF Kept
<1>4. t \in Routes /\ K \subseteq Leavings BY <1>3 DEF ProxyInv, RouteShape
<1>5. \A q : q # p => {h \in N : h.at = q} = Presented(q)
    <2> DEFINE b == px[p]
    <2>1. N = Note(p, b, t, how) OBVIOUS
    <2> HIDE DEF b, N
    <2>2. ASSUME NEW q, q # p PROVE {h \in Note(p, b, t, how) : h.at = q} = Presented(q)
        BY <2>2, OthersHistory
    <2> QED BY <2>1, <2>2, Zenon
<1>6. N = past \/ N \subseteq past \cup K BY NotedHistory DEF Note
<1> HIDE DEF N, K
<1>7. N \subseteq Leavings BY <1>1, <1>4, <1>6
<1>8. px' \in [Proxies -> Routes] /\ px'[p] = t /\ \A q \in Proxies : q # p => px'[q] = px[q]
    BY <1>1, <1>2, <1>4
<1>9. Presented(p)' = K /\ \A q \in Proxies : q # p => Presented(q)' = Presented(q)
    BY <1>2, <1>5 DEF Presented, K
<1>10. ASSUME NEW q \in Proxies PROVE ProxyInv(clock', q, px'[q], Presented(q)')
    <2>1. CASE q = p BY <1>3, <1>8, <1>9, <2>1
    <2>2. CASE q # p BY <1>1, <1>8, <1>9, <2>2
    <2> QED BY <2>1, <2>2
<1>11. OwnStamps'
    <2> SUFFICES ASSUME NEW q \in Proxies \ {Standby}, NEW i \in DOMAIN px'[q].skills
                 PROVE  px'[q].skills[i].prefix.of = q
        BY DEF OwnStamps
    <2>1. CASE q = p BY <1>8, <2>1 DEF Kept
    <2>2. CASE q # p BY <1>8, <2>2 DEF RouteInv, OwnStamps
    <2> QED BY <2>1, <2>2
<1>12. Foreign(Standby, px'[Standby].skills)
    <2>1. CASE Standby = p BY <1>8, <2>1 DEF Kept
    <2>2. CASE Standby # p BY <1>8, <2>2, RouteAssumption DEF RouteInv
    <2> QED BY <2>1, <2>2
<1>13. LedgerMoving' BY DEF RouteInv, LedgerMoving
<1> QED BY <1>1, <1>2, <1>7, <1>8, <1>10, <1>11, <1>12, <1>13 DEF RouteInv

(* The invariant holds of new proxies, with a schedule or made by hand.    *)
LEMMA RouteStart == RouteInit => RouteInv
<1> SUFFICES ASSUME RouteInit PROVE RouteInv OBVIOUS
<1>1. PICK drawn \in SUBSET {Standby} : px = [p \in Proxies |-> NewToolProxy(p, p \notin drawn)]
    BY DEF RouteInit
<1>2. clock = 0 /\ past = {} /\ moving = NoLedger BY DEF RouteInit
<1>3. Window \in Nat /\ Window > 0 BY RouteAssumption
<1>4. Cardinality({}) = 0 /\ IsFiniteSet({}) BY FS_EmptySet
<1>5. \A p \in Proxies : Presented(p) = {} BY <1>2 DEF Presented
<1>6. ASSUME NEW p \in Proxies
      PROVE  px[p] \in Routes /\ ProxyInv(clock, p, px[p], {}) /\ px[p].skills = <<>>
    <2> DEFINE s == (p \notin drawn)
               t == px[p]
    <2>1. t = NewToolProxy(p, s) BY <1>1
    <2>2. /\ t = [scheduled |-> s, epoch |-> 0, prefix |-> PrefixAt(p, 0), base |-> 0, origin |-> 0,
                   retired |-> <<>>, skills |-> <<>>, last |-> Never, hand |-> Never]
          /\ s \in BOOLEAN
        BY <2>1 DEF NewToolProxy
    <2> HIDE DEF s, t
    <2>3. PrefixAt(p, 0) \in RoutePrefixes BY DEF PrefixAt, RoutePrefixes
    <2>4. <<>> \in Seq(Closures) /\ <<>> \in Seq(Held) OBVIOUS
    <2>5. /\ t.epoch = 0 /\ t.prefix = PrefixAt(p, 0) /\ t.base = 0 /\ t.origin = 0
          /\ t.retired = <<>> /\ t.skills = <<>> /\ t.hand = Never
        BY <2>2
    <2>6. t \in Routes BY <2>2, <2>3, <2>4 DEF Routes
    <2>7. RouteShape(clock, p, t, {}) BY <1>2, <1>4, <2>5, <2>6 DEF RouteShape, Never
    <2>8. LedgerKept(t, {}) BY <1>3, <1>4, <2>5 DEF LedgerKept
    <2>9. StampsKept(p, t, {}) BY <2>5 DEF StampsKept
    <2>10. Unhurried(t, {})
        <3>1. 0 * Period = 0 BY RouteAssumption
        <3> QED BY <2>5, <3>1 DEF Unhurried
    <2> QED BY <2>5, <2>6, <2>7, <2>8, <2>9, <2>10 DEF ProxyInv, t
<1>7. px \in [Proxies -> Routes] BY <1>1, <1>6
<1>8. OwnStamps BY <1>6 DEF OwnStamps
<1>9. Foreign(Standby, px[Standby].skills) BY <1>6, RouteAssumption DEF Foreign
<1>10. LedgerMoving BY <1>2 DEF LedgerMoving
<1>11. \A p \in Proxies : ProxyInv(clock, p, px[p], Presented(p)) BY <1>5, <1>6
<1>12. clock \in Nat /\ past \subseteq Leavings BY <1>2
<1> QED BY <1>7, <1>8, <1>9, <1>10, <1>11, <1>12 DEF RouteInv

(* IssueSkill (tool_proxy.go) lists one more stamp of the prefix in        *)
(* force.                                                                  *)
LEMMA KeptIssued ==
    ASSUME NEW p \in Proxies, NEW t, NEW H, Kept(p, t, H), NEW n \in Skills
    PROVE  LET u == [t EXCEPT !.skills = Append(@, [name |-> n, prefix |-> t.prefix,
                                                    epoch |-> t.epoch, burned |-> Never])]
           IN  Kept(p, u, H) /\ u.prefix = t.prefix
<1> DEFINE s == [name |-> n, prefix |-> t.prefix, epoch |-> t.epoch, burned |-> Never]
           b == Append(t.skills, s)
           u == [t EXCEPT !.skills = b]
           m == Len(t.skills)
<1>1. /\ t \in Routes /\ t.skills \in Seq(Held) /\ t.prefix \in RoutePrefixes /\ t.epoch \in Nat
      /\ t.prefix = PrefixAt(p, t.epoch) /\ RouteShape(clock, p, t, H) /\ LedgerKept(t, H)
      /\ StampsKept(p, t, H) /\ Unhurried(t, H)
    BY DEF Kept, ProxyInv, RouteShape, Routes
<1>2. s \in Held /\ s.prefix = t.prefix /\ s.burned = Never /\ s.prefix.of = p
    BY <1>1 DEF Held, PrefixAt
<1> HIDE DEF s
<1>3. m \in Nat /\ DOMAIN t.skills = 1 .. m BY <1>1, LenProperties
<1>4. /\ b \in Seq(Held) /\ DOMAIN b = 1 .. m + 1 /\ b[m + 1] = s
      /\ \A i \in 1 .. m : b[i] = t.skills[i]
    BY <1>1, <1>2, AppendProperties, LenProperties
<1> HIDE DEF b, m
<1>5. \A i \in 1 .. m + 1 : i \in 1 .. m \/ i = m + 1 BY <1>3
<1>6. /\ u \in Routes /\ u.epoch = t.epoch /\ u.prefix = t.prefix /\ u.base = t.base /\ u.origin = t.origin
      /\ u.retired = t.retired /\ u.hand = t.hand /\ u.skills = b
    BY <1>1, <1>4 DEF Routes
<1> HIDE DEF u
<1>7. RouteShape(clock, p, u, H) BY <1>1, <1>6 DEF RouteShape
<1>8. LedgerKept(u, H) BY <1>1, <1>6 DEF LedgerKept
<1>9. Unhurried(u, H) BY <1>1, <1>6 DEF Unhurried
<1>10. StampsKept(p, u, H)
    <2> SUFFICES ASSUME NEW i \in 1 .. m + 1, b[i].prefix.of = p
                 PROVE  IF b[i].burned = Never THEN b[i].prefix = t.prefix
                        ELSE b[i].burned <= t.hand \/ Excused(H, b[i].prefix, b[i].burned)
        BY <1>4, <1>6 DEF StampsKept
    <2>1. CASE i \in 1 .. m BY <1>1, <1>3, <1>4, <2>1 DEF StampsKept
    <2>2. CASE i = m + 1 BY <1>2, <1>4, <2>2
    <2> QED BY <1>5, <2>1, <2>2
<1>11. p # Standby => \A i \in 1 .. m + 1 : b[i].prefix.of = p
    <2> SUFFICES ASSUME p # Standby, NEW i \in 1 .. m + 1 PROVE b[i].prefix.of = p OBVIOUS
    <2>1. CASE i \in 1 .. m BY <1>3, <1>4, <2>1 DEF Kept
    <2>2. CASE i = m + 1 BY <1>2, <1>4, <2>2
    <2> QED BY <1>5, <2>1, <2>2
<1>12. p = Standby => Foreign(p, b)
    <2> SUFFICES ASSUME p = Standby, NEW i \in 1 .. m + 1, NEW j \in 1 .. m + 1, i # j, b[i].prefix.of # p
                 PROVE  b[i].prefix # b[j].prefix
        BY <1>4 DEF Foreign
    <2>1. i \in 1 .. m BY <1>2, <1>4, <1>5
    <2>2. CASE j \in 1 .. m BY <1>3, <1>4, <2>1, <2>2 DEF Kept, Foreign
    <2>3. CASE j = m + 1 BY <1>2, <1>4, <2>3
    <2> QED BY <1>5, <2>2, <2>3
<1>13. Kept(p, u, H) BY <1>4, <1>6, <1>7, <1>8, <1>9, <1>10, <1>11, <1>12 DEF Kept, ProxyInv
<1> QED BY <1>6, <1>13 DEF u, b, s

(* BurnSkills (tool_proxy.go) dates what is not burned with the clock,     *)
(* and the hand is remembered.                                             *)
LEMMA KeptBurned ==
    ASSUME NEW p \in Proxies, NEW t, NEW H, Kept(p, t, H), clock \in Nat
    PROVE  LET u == [t EXCEPT !.skills = BurnSkillsAt(@, clock), !.hand = clock]
           IN  Kept(p, u, H) /\ u.prefix = t.prefix
<1> DEFINE s == t.skills
           b == BurnSkillsAt(s, clock)
           u == [t EXCEPT !.skills = b, !.hand = clock]
<1>1. /\ t \in Routes /\ s \in Seq(Held) /\ t.hand <= clock /\ t.hand \in Nat \cup {Never}
      /\ RouteShape(clock, p, t, H) /\ LedgerKept(t, H) /\ StampsKept(p, t, H) /\ Unhurried(t, H)
    BY DEF Kept, ProxyInv, RouteShape, Routes
<1>2. /\ b \in Seq(Held) /\ DOMAIN b = DOMAIN s
      /\ \A i \in DOMAIN s : /\ b[i].prefix = s[i].prefix /\ b[i].burned # Never
                             /\ b[i].burned = IF s[i].burned = Never THEN clock ELSE s[i].burned
    <2>1. s \in Seq(Held) BY <1>1
    <2> HIDE DEF s
    <2> QED BY <2>1, BurnKeeps
<1> HIDE DEF b
<1>3. /\ u \in Routes /\ u.epoch = t.epoch /\ u.prefix = t.prefix /\ u.base = t.base /\ u.origin = t.origin
      /\ u.retired = t.retired /\ u.hand = clock /\ u.skills = b
    BY <1>1, <1>2 DEF Routes
<1> HIDE DEF u
<1>4. RouteShape(clock, p, u, H) BY <1>1, <1>3 DEF RouteShape
<1>5. LedgerKept(u, H) BY <1>1, <1>3 DEF LedgerKept
<1>6. Unhurried(u, H) BY <1>1, <1>3 DEF Unhurried
<1>7. StampsKept(p, u, H)
    <2> SUFFICES ASSUME NEW i \in DOMAIN s, b[i].prefix.of = p
                 PROVE  b[i].burned <= clock \/ Excused(H, b[i].prefix, b[i].burned)
        BY <1>2, <1>3 DEF StampsKept
    <2>1. CASE s[i].burned = Never BY <1>2, <2>1
    <2>2. CASE s[i].burned # Never
        <3>1. s[i].burned <= t.hand \/ Excused(H, s[i].prefix, s[i].burned)
            BY <1>1, <1>2, <2>2 DEF StampsKept
        <3>2. s[i].burned \in Nat
            <4>1. s[i] \in Held BY <1>1, ElementOfSeq, LenProperties
            <4> QED BY <2>2, <4>1 DEF Held
        <3>3. s[i].burned <= t.hand => s[i].burned <= clock BY <1>1, <3>2 DEF Never
        <3> QED BY <1>2, <2>2, <3>1, <3>3
    <2> QED BY <2>1, <2>2
<1>8. SamePrefixes(s, b) BY <1>2 DEF SamePrefixes
<1>9. Kept(p, u, H)
    <2>1. ProxyInv(clock, p, u, H) BY <1>4, <1>5, <1>6, <1>7 DEF ProxyInv
    <2> QED BY <1>3, <1>8, <2>1, StampsTransfer, ZenonT(60) DEF Kept
<1> QED BY <1>3, <1>9 DEF u, b

(* Time passing keeps the books.                                           *)
LEMMA LaterKeeps ==
    ASSUME NEW k \in Nat, NEW p, NEW t, NEW H, ProxyInv(k, p, t, H)
    PROVE  ProxyInv(k + 1, p, t, H)
<1>1. RouteShape(k, p, t, H) BY DEF ProxyInv
<1>2. t.origin \in Nat /\ t.hand \in Nat \cup {Never} BY <1>1 DEF RouteShape, Routes
<1>3. t.origin <= k + 1 /\ t.hand <= k + 1 BY <1>1, <1>2 DEF RouteShape, Never
<1>4. RouteShape(k + 1, p, t, H) BY <1>1, <1>3 DEF RouteShape
<1> QED BY <1>4 DEF ProxyInv

(* The clock moves on.                                                     *)
LEMMA TickStep == ASSUME RouteInv, Tick PROVE RouteInv'
<1>1. clock \in Nat /\ clock' = clock + 1 /\ px' = px /\ moving' = moving /\ past' = past
    BY DEF RouteInv, Tick
<1>2. ASSUME NEW p \in Proxies PROVE ProxyInv(clock', p, px'[p], Presented(p)')
    <2>1. ProxyInv(clock, p, px[p], Presented(p)) BY DEF RouteInv
    <2>2. Presented(p)' = Presented(p) BY <1>1 DEF Presented
    <2>3. ProxyInv(clock + 1, p, px[p], Presented(p)) BY <1>1, <2>1, LaterKeeps
    <2> QED BY <1>1, <2>2, <2>3
<1>3. OwnStamps' /\ LedgerMoving' BY <1>1 DEF RouteInv, OwnStamps, LedgerMoving
<1> QED BY <1>1, <1>2, <1>3 DEF RouteInv

(* A rotation on instruction (Rotate, tool_proxy.go).                      *)
LEMMA RotateStep == ASSUME RouteInv, NEW p \in Proxies, Rotate(p) PROVE RouteInv'
<1> DEFINE t == px[p]
           target == t.epoch + 1
           H == Presented(p)
           u == RotateTo(p, t, target, clock)
           l == Leaving(p, t, "told", Cardinality(H))
<1>1. Kept(p, t, H) BY KeptNow
<1>2. clock \in Nat /\ SetProxy(p, u, "told") /\ UNCHANGED <<clock, moving>> BY DEF RouteInv, Rotate
<1>3. /\ t \in Routes /\ t.prefix = PrefixAt(p, t.epoch) /\ t.origin <= clock /\ t.epoch \in Nat
      /\ t.skills \in Seq(Held) /\ ProxyInv(clock, p, t, H)
    BY <1>1 DEF Kept, ProxyInv, RouteShape, Routes
<1>4. Len(t.retired) <= Window
    <2>1. Len(t.retired) = IF Cardinality(H) < Window THEN Cardinality(H) ELSE Window
        BY <1>3 DEF ProxyInv, LedgerKept
    <2>2. Cardinality(H) \in Nat BY <1>3, FS_CardinalityType DEF ProxyInv, RouteShape
    <2>3. Window \in Nat BY RouteAssumption
    <2> HIDE DEF H, t
    <2> QED BY <2>1, <2>2, <2>3
<1>5. target \in Nat /\ target > t.epoch BY <1>3
<1> HIDE DEF t, target, H
<1>6. ProxyInv(clock, p, u, H \cup {l})
    <2>1. "told" \in {"told", "due"} /\ "told" # "due" /\ clock >= t.origin BY <1>2, <1>3
    <2>2. ASSUME NEW k \in Nat, k >= t.origin
          PROVE  ProxyInv(clock, p, RotateTo(p, t, target, k), H \cup {l})
        BY <1>2, <1>3, <1>5, <2>1, <2>2, RotationKeeps
    <2> QED BY <1>2, <2>1, <2>2
<1>7. u.prefix = PrefixAt(p, target) /\ u.skills = BurnSkillsAt(t.skills, ClosedAt(clock))
    <2> DEFINE e == [epoch |-> t.epoch, prefix |-> t.prefix, at |-> ClosedAt(clock)]
    <2>1. /\ u \in Routes /\ u.epoch = target /\ u.prefix = PrefixAt(p, target)
          /\ u.base = target /\ u.origin = clock /\ u.hand = t.hand
          /\ e \in Closures /\ u.retired = Trimmed(Append(t.retired, e))
          /\ u.skills = BurnSkillsAt(t.skills, ClosedAt(clock))
        BY <1>2, <1>3, <1>4, <1>5, RotatedFields
    <2> QED BY <2>1
<1>8. u.prefix # t.prefix BY <1>3, <1>5, <1>7 DEF PrefixAt
<1>9. SamePrefixes(t.skills, u.skills)
    <2> DEFINE a == ClosedAt(clock)
               s == t.skills
    <2>1. u.skills = BurnSkillsAt(s, a) /\ s \in Seq(Held) /\ a \in Nat
        BY <1>2, <1>3, <1>7 DEF ClosedAt
    <2> HIDE DEF a, s
    <2>2. SamePrefixes(s, BurnSkillsAt(s, a)) BY <2>1, BurnKeeps, Zenon DEF SamePrefixes
    <2> QED BY <2>1, <2>2 DEF s
<1> HIDE DEF u
<1>10. Kept(p, u, H \cup {l}) BY <1>1, <1>6, <1>9, StampsTransfer DEF Kept
<1>11. {h \in Note(p, t, u, "told") : h.at = p} = H \cup {l} BY <1>8, NotedHistory DEF H
<1>12. Kept(p, u, {h \in Note(p, px[p], u, "told") : h.at = p}) BY <1>10, <1>11 DEF t
<1> QED BY <1>2, <1>12, ProxyMoved

(* A skill is issued, after syncEpoch.                                     *)
LEMMA IssueStep ==
    ASSUME RouteInv, NEW p \in Proxies, NEW n \in Skills, IssueSkill(p, n) PROVE RouteInv'
<1> DEFINE t == SyncEpoch(p, px[p])
           u == [t EXCEPT !.skills = Append(@, [name |-> n, prefix |-> t.prefix,
                                                epoch |-> t.epoch, burned |-> Never])]
<1>1. Kept(p, t, Behind(p)) BY KeptSynced
<1>2. SetProxy(p, u, "due") /\ UNCHANGED <<clock, moving>> BY DEF IssueSkill
<1>3. Kept(p, u, Behind(p)) /\ u.prefix = t.prefix
    <2> HIDE DEF t
    <2> QED BY <1>1, KeptIssued
<1> HIDE DEF u
<1>4. Note(p, px[p], u, "due") = Note(p, px[p], t, "due") BY <1>3 DEF Note
<1>5. Behind(p) = {h \in Note(p, px[p], u, "due") : h.at = p} BY <1>4 DEF Behind
<1>6. Kept(p, u, {h \in Note(p, px[p], u, "due") : h.at = p}) BY <1>3, <1>5
<1> QED BY <1>2, <1>6, ProxyMoved

(* The skills are burned by hand.                                          *)
LEMMA BurnStep == ASSUME RouteInv, NEW p \in Proxies, BurnSkills(p) PROVE RouteInv'
<1> DEFINE t == px[p]
           u == [t EXCEPT !.skills = BurnSkillsAt(@, clock), !.hand = clock]
<1>1. Kept(p, t, Presented(p)) BY KeptNow
<1>2. SetProxy(p, u, "due") /\ UNCHANGED <<clock, moving>> BY DEF BurnSkills
<1>3. clock \in Nat BY DEF RouteInv
<1>4. Kept(p, u, Presented(p)) /\ u.prefix = t.prefix
    <2> HIDE DEF t
    <2> QED BY <1>1, <1>3, KeptBurned
<1> HIDE DEF u
<1>5. Note(p, px[p], u, "due") = past BY <1>4 DEF Note
<1>6. Presented(p) = {h \in Note(p, px[p], u, "due") : h.at = p} BY <1>5 DEF Presented
<1>7. Kept(p, u, {h \in Note(p, px[p], u, "due") : h.at = p}) BY <1>4, <1>6
<1> QED BY <1>2, <1>7, ProxyMoved

(* PrefixedToolName, Key and ValidateCall read through the clock.          *)
LEMMA ReadStep == ASSUME RouteInv, NEW p \in Proxies, ReadRoute(p) PROVE RouteInv'
<1> DEFINE u == SyncEpoch(p, px[p])
<1>1. Kept(p, u, {h \in Note(p, px[p], u, "due") : h.at = p}) BY KeptSynced DEF Behind
<1>2. SetProxy(p, u, "due") /\ UNCHANGED <<clock, moving>> BY DEF ReadRoute
<1> HIDE DEF u
<1> QED BY <1>1, <1>2, ProxyMoved

(* The first half of AdoptLedger (rotation_verify.go), under the lock of   *)
(* the other proxy.                                                        *)
LEMMA CopyStep == ASSUME RouteInv, NEW from \in Proxies \ {Standby}, CopyLedger(from) PROVE RouteInv'
<1>1. /\ moving' = [phase |-> "copied", skills |-> px[from].skills, last |-> px[from].last]
      /\ clock' = clock /\ px' = px /\ past' = past
    BY DEF CopyLedger
<1>2. px[from] \in Routes BY DEF RouteInv
<1>3. px[from].skills \in Seq(Held) /\ px[from].last \in Nat \cup {Never} BY <1>2 DEF Routes
<1>4. moving'.skills = px[from].skills /\ moving'.last = px[from].last BY <1>1
<1>5. \A i \in DOMAIN moving'.skills : moving'.skills[i].prefix.of # Standby
    BY <1>4 DEF RouteInv, OwnStamps
<1>6. LedgerMoving' BY <1>3, <1>4, <1>5 DEF LedgerMoving
<1>7. \A p \in Proxies : ProxyInv(clock', p, px'[p], Presented(p)')
    BY <1>1 DEF RouteInv, Presented
<1> QED BY <1>1, <1>6, <1>7 DEF RouteInv, OwnStamps

(* Its second half, under the lock of the standby, whatever either proxy   *)
(* did in between.                                                         *)
LEMMA AdoptStep == ASSUME RouteInv, AdoptLedger PROVE RouteInv'
<1> DEFINE t == px[Standby]
           a == Adopted(t.skills, moving.skills)
           l == IF moving.last > t.last THEN moving.last ELSE t.last
           u == [t EXCEPT !.skills = a, !.last = l]
           H == Presented(Standby)
<1>1. /\ px' = [px EXCEPT ![Standby] = u] /\ moving' = NoLedger /\ moving # NoLedger
      /\ clock' = clock /\ past' = past
    BY DEF AdoptLedger
<1>2. Standby \in Proxies BY RouteAssumption
<1>3. /\ moving.skills \in Seq(Held) /\ moving.last \in Nat \cup {Never}
      /\ \A i \in DOMAIN moving.skills : moving.skills[i].prefix.of # Standby
    BY <1>1 DEF RouteInv, LedgerMoving
<1>4. /\ t \in Routes /\ t.skills \in Seq(Held) /\ t.last \in Nat \cup {Never}
      /\ Foreign(Standby, t.skills) /\ ProxyInv(clock, Standby, t, H)
    BY <1>2 DEF RouteInv, Routes
<1>5. Adopting(Standby, t.skills, a)
    <2> DEFINE o == t.skills
               s == moving.skills
    <2>1. o \in Seq(Held) /\ s \in Seq(Held) /\ Foreign(Standby, o)
          /\ \A i \in DOMAIN s : s[i].prefix.of # Standby
        BY <1>3, <1>4
    <2> HIDE DEF o, s
    <2>2. Adopting(Standby, o, Adopted(o, s)) BY <2>1, AdoptionSound
    <2> QED BY <2>2 DEF o, s
<1> HIDE DEF a, t
<1>6. a \in Seq(Held) /\ Foreign(Standby, a) BY <1>5 DEF Adopting
<1>7. l \in Nat \cup {Never} BY <1>3, <1>4
<1> HIDE DEF l
<1>8. /\ u \in Routes /\ u.epoch = t.epoch /\ u.prefix = t.prefix /\ u.base = t.base
      /\ u.origin = t.origin /\ u.retired = t.retired /\ u.hand = t.hand /\ u.skills = a
    BY <1>4, <1>6, <1>7 DEF Routes
<1> HIDE DEF u
<1>9. ProxyInv(clock, Standby, u, H)
    <2>1. RouteShape(clock, Standby, u, H) BY <1>4, <1>8 DEF ProxyInv, RouteShape
    <2>2. LedgerKept(u, H) BY <1>4, <1>8 DEF ProxyInv, LedgerKept
    <2>3. Unhurried(u, H) BY <1>4, <1>8 DEF ProxyInv, Unhurried
    <2>4. StampsKept(Standby, u, H)
        <3> SUFFICES ASSUME NEW i \in DOMAIN a, a[i].prefix.of = Standby
                     PROVE  IF a[i].burned = Never THEN a[i].prefix = t.prefix
                            ELSE a[i].burned <= t.hand \/ Excused(H, a[i].prefix, a[i].burned)
            BY <1>8 DEF StampsKept
        <3>1. PICK j \in DOMAIN t.skills : a[i] = t.skills[j] BY <1>5 DEF Adopting
        <3> QED BY <1>4, <3>1 DEF ProxyInv, StampsKept
    <2> QED BY <2>1, <2>2, <2>3, <2>4 DEF ProxyInv
<1>10. /\ px' \in [Proxies -> Routes] /\ px'[Standby] = u
       /\ \A q \in Proxies : q # Standby => px'[q] = px[q]
    BY <1>1, <1>2, <1>8 DEF RouteInv
<1>11. ASSUME NEW q \in Proxies PROVE ProxyInv(clock', q, px'[q], Presented(q)')
    <2>1. Presented(q)' = Presented(q) BY <1>1 DEF Presented
    <2>2. CASE q = Standby BY <1>1, <1>9, <1>10, <2>1, <2>2
    <2>3. CASE q # Standby BY <1>1, <1>10, <2>1, <2>3 DEF RouteInv
    <2> QED BY <2>2, <2>3
<1>12. OwnStamps' BY <1>10 DEF RouteInv, OwnStamps
<1>13. Foreign(Standby, px'[Standby].skills) BY <1>6, <1>8, <1>10
<1>14. LedgerMoving' BY <1>1 DEF LedgerMoving
<1>15. clock' \in Nat /\ past' \subseteq Leavings BY <1>1 DEF RouteInv
<1> QED BY <1>10, <1>11, <1>12, <1>13, <1>14, <1>15 DEF RouteInv

(* Every step keeps the invariant.                                         *)
LEMMA RouteStep == RouteInv /\ [RouteNext]_routeVars => RouteInv'
<1> SUFFICES ASSUME RouteInv, [RouteNext]_routeVars PROVE RouteInv' OBVIOUS
<1>1. CASE UNCHANGED routeVars
    <2>1. clock' = clock /\ px' = px /\ moving' = moving /\ past' = past BY <1>1 DEF routeVars
    <2>2. \A p \in Proxies : ProxyInv(clock', p, px'[p], Presented(p)')
        BY <2>1 DEF RouteInv, Presented
    <2> QED BY <2>1, <2>2 DEF RouteInv, OwnStamps, LedgerMoving
<1>2. CASE Tick BY <1>2, TickStep
<1>3. CASE AdoptLedger BY <1>3, AdoptStep
<1>4. CASE \E p \in Proxies : Rotate(p) \/ BurnSkills(p) \/ ReadRoute(p)
    BY <1>4, RotateStep, BurnStep, ReadStep
<1>5. CASE \E p \in Proxies, n \in Skills : IssueSkill(p, n) BY <1>5, IssueStep
<1>6. CASE \E from \in Proxies \ {Standby} : CopyLedger(from) BY <1>6, CopyStep
<1> QED BY <1>1, <1>2, <1>3, <1>4, <1>5, <1>6 DEF RouteNext

(* The ledger is in order.                                                 *)
LEMMA LedgerFollows == RouteInv => LedgerOrdered
<1> SUFFICES ASSUME RouteInv, NEW p \in Proxies
             PROVE  LET r == px[p].retired IN
                    /\ Len(r) <= Window
                    /\ \A i \in DOMAIN r : r[i].epoch < px[p].epoch /\ r[i].at <= clock
                    /\ \A i, j \in DOMAIN r : i < j => r[i].epoch < r[j].epoch /\ r[i].at <= r[j].at
    BY DEF LedgerOrdered
<1> DEFINE t == px[p]
           H == Presented(p)
           r == t.retired
<1>1. ProxyInv(clock, p, t, H) /\ clock \in Nat BY DEF RouteInv
<1> HIDE DEF t, H
<1>2. /\ t \in Routes /\ t.origin <= clock /\ t.origin \in Nat /\ r \in Seq(Closures)
      /\ Cardinality(H) \in Nat
    BY <1>1, FS_CardinalityType DEF ProxyInv, RouteShape, Routes
<1>3. Len(r) = IF Cardinality(H) < Window THEN Cardinality(H) ELSE Window
    BY <1>1 DEF ProxyInv, LedgerKept
<1>4. Len(r) <= Window
    <2> HIDE DEF r
    <2> QED BY <1>2, <1>3, RouteAssumption
<1>5. ASSUME NEW i \in DOMAIN r PROVE r[i].epoch < t.epoch /\ r[i].at <= clock
    <2>1. r[i].epoch < t.epoch /\ r[i].at <= t.origin BY <1>1 DEF ProxyInv, LedgerKept
    <2>2. r[i].at \in Nat
        <3>1. r[i] \in Closures BY <1>2, ElementOfSeq, LenProperties
        <3> QED BY <3>1 DEF Closures
    <2> QED BY <1>1, <1>2, <2>1, <2>2
<1>6. \A i, j \in DOMAIN r : i < j => r[i].epoch < r[j].epoch /\ r[i].at <= r[j].at
    BY <1>1 DEF ProxyInv, LedgerKept
<1> QED BY <1>4, <1>5, <1>6 DEF t

(* ValidateCall (tool_proxy.go) accepts an own prefix by the first stamp   *)
(* that carries it or by the newest ledger entry, and both are dated by    *)
(* when its epoch was over.                                                *)
LEMMA GraceFollows == RouteInv => AcceptedInGrace
<1> SUFFICES ASSUME RouteInv, NEW p \in Proxies, NEW c \in PrefixedCalls,
                    c.prefix.of = p, Verdict(p, c) = "ok", c.prefix # SyncEpoch(p, px[p]).prefix
             PROVE  \/ px[p].hand # Never /\ clock <= px[p].hand + MaxGrace
                    \/ \E h \in Behind(p) :
                          /\ h.prefix = c.prefix
                          /\ clock <= (IF h.how = "due" THEN h.due ELSE h.left) + MaxGrace
    BY DEF AcceptedInGrace
<1> DEFINE u == SyncEpoch(p, px[p])
           H == Behind(p)
<1>1. ProxyInv(clock, p, u, H) /\ u.hand = px[p].hand /\ clock \in Nat
    BY KeptSynced DEF Kept, RouteInv
<1>2. Reason(p, u, c) = "ok" /\ c.prefix # u.prefix BY DEF Verdict
<1>3. Prefixed(c) BY DEF PrefixedCalls, Prefixed
<1> HIDE DEF u, H
<1>4. /\ u \in Routes /\ u.hand \in Nat \cup {Never} /\ u.skills \in Seq(Held)
      /\ u.retired \in Seq(Closures) /\ H \subseteq Leavings /\ StampsKept(p, u, H) /\ LedgerKept(u, H)
    BY <1>1 DEF ProxyInv, RouteShape, Routes
<1>5. MaxGrace \in Nat /\ EffectiveGrace(MaxGrace) = MaxGrace BY RouteAssumption DEF EffectiveGrace
<1>6. ASSUME NEW at \in Nat, WithinGrace(at), Excused(H, c.prefix, at)
      PROVE  \E h \in H : /\ h.prefix = c.prefix
                          /\ clock <= (IF h.how = "due" THEN h.due ELSE h.left) + MaxGrace
    <2>1. PICK h \in H : h.prefix = c.prefix /\ at <= ClosedBy(h) BY <1>6 DEF Excused
    <2>2. ClosedBy(h) \in Nat
        <3>1. h \in Leavings BY <1>4
        <3> QED BY <3>1 DEF Leavings, ClosedBy
    <2>3. clock - at <= MaxGrace BY <1>5, <1>6 DEF WithinGrace
    <2>4. clock <= ClosedBy(h) + MaxGrace
        <3> DEFINE x == ClosedBy(h)
        <3> HIDE DEF x
        <3>1. x \in Nat /\ at <= x BY <2>1, <2>2 DEF x
        <3>2. clock <= x + MaxGrace BY <1>1, <1>5, <2>3, <3>1
        <3> QED BY <3>2 DEF x
    <2> QED BY <2>1, <2>4 DEF ClosedBy
<1>7. CASE Attributed(u, c)
    <2> DEFINE C == Candidates(u, c)
               s == u.skills[Min(C)]
    <2>1. StampVerdict(s, c) = "ok" BY <1>2, <1>3, <1>7 DEF Reason, Attribute
    <2>2. DOMAIN u.skills = 1 .. Len(u.skills) BY <1>4, LenProperties
    <2>3. C \subseteq Nat /\ C # {} BY <1>7, <2>2 DEF Candidates, Attributed
    <2>4. Min(C) \in C BY <2>3, LeastOfNats
    <2>5. Min(C) \in DOMAIN u.skills /\ s.prefix = c.prefix BY <2>4 DEF Candidates
    <2>6. s \in Held BY <1>4, <2>2, <2>5, ElementOfSeq
    <2>7. s.burned # Never /\ WithinGrace(s.burned) BY <2>1 DEF StampVerdict
    <2>8. s.burned \in Nat BY <2>6, <2>7 DEF Held
    <2>9. s.burned <= u.hand \/ Excused(H, s.prefix, s.burned)
        BY <1>4, <2>5, <2>7 DEF StampsKept
    <2> HIDE DEF s
    <2>10. CASE s.burned <= u.hand
        <3> DEFINE b == s.burned
                   d == u.hand
        <3>1. b \in Nat /\ b <= d /\ d \in Nat \cup {Never} /\ clock - b <= MaxGrace
            BY <1>4, <1>5, <2>7, <2>8, <2>10 DEF WithinGrace
        <3> HIDE DEF b, d
        <3>2. d # Never /\ clock <= d + MaxGrace BY <1>1, <1>5, <3>1 DEF Never
        <3> QED BY <1>1, <3>2 DEF d
    <2>11. CASE Excused(H, s.prefix, s.burned) BY <1>6, <2>5, <2>7, <2>8, <2>11 DEF H
    <2> QED BY <2>9, <2>10, <2>11
<1>8. CASE ~Attributed(u, c)
    <2> DEFINE R == RetiredRoutes(u, c)
               e == u.retired[Max(R)]
               m == Len(u.retired)
    <2>1. R # {} /\ WithinGrace(e.at)
        BY <1>2, <1>3, <1>8 DEF Reason, RetiredRoute
    <2>2. m \in Nat /\ DOMAIN u.retired = 1 .. m BY <1>4, LenProperties
    <2>3. R \subseteq 1 .. m BY <2>2 DEF RetiredRoutes
    <2> HIDE DEF m
    <2>4. Max(R) \in R BY <2>1, <2>2, <2>3, GreatestOfNats
    <2>5. Max(R) \in DOMAIN u.retired /\ e.prefix = c.prefix BY <2>4 DEF RetiredRoutes
    <2>6. e \in Closures BY <1>4, <2>5, ElementOfSeq, LenProperties
    <2>7. e.at \in Nat BY <2>6 DEF Closures
    <2>8. Excused(H, e.prefix, e.at) BY <1>4, <2>5 DEF LedgerKept
    <2> HIDE DEF e
    <2> QED BY <1>6, <2>1, <2>5, <2>7, <2>8 DEF H
<1> QED BY <1>7, <1>8

(* retiredRoute finds each of the last Window prefixes in the ledger.      *)
LEMMA GuessFollows == RouteInv => StaleIsNotAGuess
<1> SUFFICES ASSUME RouteInv, NEW p \in Proxies, NEW c \in PrefixedCalls, NEW h \in Behind(p),
                    h.prefix = c.prefix, h.rank >= Cardinality(Behind(p)) - Window
             PROVE  Verdict(p, c) # "fuzz"
    BY DEF StaleIsNotAGuess
<1> DEFINE u == SyncEpoch(p, px[p])
           H == Behind(p)
           r == u.retired
           n == Cardinality(H)
           m == Len(r)
           k == h.rank
           x == k - (n - m) + 1
<1>1. ProxyInv(clock, p, u, H) BY KeptSynced DEF Kept
<1>2. Prefixed(c) BY DEF PrefixedCalls, Prefixed
<1> HIDE DEF u, H
<1>3. /\ u \in Routes /\ H \subseteq Leavings /\ IsFiniteSet(H) /\ h \in H /\ k < n
    BY <1>1 DEF ProxyInv, RouteShape, H
<1>4. n \in Nat BY <1>3, FS_CardinalityType
<1>5. k \in Nat BY <1>3 DEF Leavings
<1>6. m = (IF n < Window THEN n ELSE Window) /\ (k >= n - m => r[x].prefix = h.prefix)
    BY <1>1, <1>3 DEF ProxyInv, LedgerKept
<1>7. k >= n - Window BY DEF H
<1>8. r \in Seq(Closures) BY <1>3 DEF Routes
<1>9. DOMAIN r = 1 .. m BY <1>8, LenProperties
<1> HIDE DEF r, n, m, k
<1>10. Window \in Nat BY RouteAssumption
<1>11. m \in Nat /\ k >= n - m /\ x \in 1 .. m BY <1>3, <1>4, <1>5, <1>6, <1>7, <1>10
<1>12. x \in RetiredRoutes(u, c) BY <1>6, <1>9, <1>11 DEF RetiredRoutes, r
<1>13. Reason(p, u, c) # "fuzz" BY <1>2, <1>12 DEF Reason, StampVerdict
<1> QED BY <1>13 DEF Verdict, u

(* A proxy nobody told to rotate has not left more epochs than periods     *)
(* have passed.                                                            *)
LEMMA AheadFollows == RouteInv => NeverAhead
<1> SUFFICES ASSUME RouteInv, NEW p \in Proxies, Untold(p)
             PROVE  SyncEpoch(p, px[p]).epoch <= clock \div Period
    BY DEF NeverAhead
<1> DEFINE u == SyncEpoch(p, px[p])
           H == Behind(p)
           g == u.epoch
           o == u.origin
<1>1. ProxyInv(clock, p, u, H) /\ clock \in Nat BY KeptSynced DEF Kept, RouteInv
<1>2. \A h \in H : h.how = "due" BY KeptSynced DEF Untold
<1> HIDE DEF u, H
<1>3. g \in Nat /\ o \in Nat /\ o <= clock /\ g * Period <= o
    BY <1>1, <1>2 DEF ProxyInv, RouteShape, Routes, Unhurried
<1> HIDE DEF g, o
<1>4. Period \in Nat \ {0} BY RouteAssumption
<1>5. g * Period <= clock
    <2> DEFINE y == g * Period
    <2>1. y \in Nat /\ y <= o BY <1>3, <1>4
    <2> HIDE DEF y
    <2>2. y <= clock BY <1>1, <1>3, <2>1
    <2> QED BY <2>2 DEF y
<1>6. g <= clock \div Period BY <1>1, <1>3, <1>4, <1>5, QuotientGreatest
<1> QED BY <1>6 DEF g, u

(* The stamps taken on are listed once.                                    *)
LEMMA OnceFollows == RouteInv => AdoptedOnce
<1> SUFFICES ASSUME RouteInv, NEW p \in Proxies, NEW i \in DOMAIN px[p].skills,
                    NEW j \in DOMAIN px[p].skills, px[p].skills[i].prefix.of # p, i # j
             PROVE  px[p].skills[i].prefix # px[p].skills[j].prefix
    BY DEF AdoptedOnce
<1>1. p = Standby BY DEF RouteInv, OwnStamps
<1> QED BY <1>1 DEF RouteInv, Foreign

(* For any number of proxies and skills, any period, grace and window      *)
(* and any number of rotations: rotations by the clock and on              *)
(* instruction, burns, adoptions and calls in any order keep the ledger    *)
(* in order, accept a left prefix only within the grace after its epoch    *)
(* was over, never book one of the last Window prefixes as a guess,        *)
(* never run ahead of the clock uninstructed, and list an adopted stamp    *)
(* once (property RouteSound; tool_proxy.go, rotation_schedule.go,         *)
(* rotation_verify.go).                                                    *)
THEOREM RouteAlwaysSound == RouteSpec => []RouteSound
<1>1. RouteInv => RouteSound
    BY LedgerFollows, GraceFollows, GuessFollows, AheadFollows, OnceFollows DEF RouteSound
<1> QED BY RouteStart, RouteStep, <1>1, PTL DEF RouteSpec
=============================================================================
