---------------------------- MODULE HostedProofs ----------------------------
(* Proofs about the hosted server: the subscribers of a fan-out, the       *)
(* channels they drain and the ring of recent events. The inductive        *)
(* invariant relates the list of subscribers, the copies of it that the    *)
(* fan-outs under way still have before them and what every stream was     *)
(* handed.                                                                 *)
EXTENDS HostedServer, SequenceTheorems, WellFoundedInduction, TLAPS

(* A nonempty set of numbers has a least one: what Min of the community    *)
(* module is, for the first place RemoveFirst finds.                       *)
LEMMA LeastOfNats ==
    ASSUME NEW S, S \subseteq Nat, S # {}
    PROVE  Min(S) \in S /\ \A y \in S : Min(S) =< y
<1>1. \E x \in S : \A y \in S : ~(<<y, x>> \in OpToRel(<, Nat))
    <2>1. IsWellFoundedOn(OpToRel(<, Nat), Nat) BY NatLessThanWellFounded
    <2> HIDE DEF OpToRel
    <2> QED BY <2>1, WFMin, Zenon
<1>2. PICK x \in S : \A y \in S : ~(<<y, x>> \in OpToRel(<, Nat)) BY <1>1
<1>3. ASSUME NEW y \in S PROVE x =< y
    <2>1. x \in Nat /\ y \in Nat OBVIOUS
    <2>2. ~(y < x) BY <1>2, <1>3, <2>1 DEF OpToRel
    <2> QED BY <2>1, <2>2
<1> QED BY <1>3 DEF Min

(* Where the j-th of the entries that remain stood before the i-th was     *)
(* removed.                                                                *)
StoodAt(j, i) == IF j <= i - 1 THEN j ELSE j + 1

(* RemoveAt, entry by entry: it keeps the others, in their order.          *)
LEMMA RemovedEntries ==
    ASSUME NEW S, NEW seq \in Seq(S), NEW i \in 1 .. Len(seq)
    PROVE  /\ RemoveAt(seq, i) \in Seq(S) /\ Len(RemoveAt(seq, i)) = Len(seq) - 1
           /\ DOMAIN RemoveAt(seq, i) = 1 .. Len(seq) - 1
           /\ \A j \in 1 .. Len(seq) - 1 :
                 /\ StoodAt(j, i) \in 1 .. Len(seq) /\ StoodAt(j, i) # i
                 /\ RemoveAt(seq, i)[j] = seq[StoodAt(j, i)]
           /\ \A j, k \in 1 .. Len(seq) - 1 : j < k => StoodAt(j, i) < StoodAt(k, i)
<1> DEFINE a == SubSeq(seq, 1, i - 1)
           b == SubSeq(seq, i + 1, Len(seq))
           r == a \o b
<1>0. Len(seq) \in Nat /\ DOMAIN seq = 1 .. Len(seq) /\ \A k \in 1 .. Len(seq) : seq[k] \in S
    BY LenProperties, ElementOfSeq
<1>1. a \in Seq(S) /\ Len(a) = i - 1 /\ \A j \in 1 .. i - 1 : a[j] = seq[j]
    <2>1. \A k \in 1 .. i - 1 : seq[k] \in S BY <1>0
    <2> QED BY <1>0, <2>1, SubSeqProperties
<1>2. b \in Seq(S) /\ Len(b) = Len(seq) - i /\ \A j \in 1 .. Len(seq) - i : b[j] = seq[i + j]
    <2>0. \A k \in i + 1 .. Len(seq) : seq[k] \in S BY <1>0
    <2>a. Len(seq) \in Nat BY <1>0
    <2>1. b \in Seq(S) /\ Len(b) = Len(seq) - i BY <2>a, <2>0
    <2>2. \A j \in 1 .. Len(seq) - i : b[j] = seq[i + j] BY <1>0
    <2> QED BY <2>1, <2>2
<1> HIDE DEF a, b
<1>3. /\ r \in Seq(S) /\ Len(r) = Len(seq) - 1
      /\ \A j \in 1 .. Len(seq) - 1 : r[j] = IF j <= i - 1 THEN a[j] ELSE b[j - (i - 1)]
    <2>1. /\ r \in Seq(S) /\ Len(r) = Len(a) + Len(b)
          /\ \A j \in 1 .. Len(a) + Len(b) : r[j] = IF j <= Len(a) THEN a[j] ELSE b[j - Len(a)]
        BY <1>1, <1>2, ConcatProperties
    <2>2. Len(a) + Len(b) = Len(seq) - 1 BY <1>0, <1>1, <1>2
    <2> QED BY <1>1, <2>1, <2>2
<1> HIDE DEF r
<1>4. DOMAIN r = 1 .. Len(seq) - 1 BY <1>3, LenProperties
<1>5. \A j \in 1 .. Len(seq) - 1 :
          StoodAt(j, i) \in 1 .. Len(seq) /\ StoodAt(j, i) # i /\ r[j] = seq[StoodAt(j, i)]
    <2> SUFFICES ASSUME NEW j \in 1 .. Len(seq) - 1
                 PROVE  /\ StoodAt(j, i) \in 1 .. Len(seq) /\ StoodAt(j, i) # i
                        /\ r[j] = seq[StoodAt(j, i)]
        OBVIOUS
    <2>1. CASE j <= i - 1 BY <1>0, <1>1, <1>3, <2>1 DEF StoodAt
    <2>2. CASE ~(j <= i - 1)
        <3>1. /\ StoodAt(j, i) = j + 1 /\ j + 1 \in 1 .. Len(seq) /\ j + 1 # i
              /\ j - (i - 1) \in 1 .. Len(seq) - i /\ i + (j - (i - 1)) = j + 1
            BY <1>0, <2>2 DEF StoodAt
        <3>2. r[j] = b[j - (i - 1)] BY <1>3, <2>2
        <3> QED BY <1>2, <3>1, <3>2
    <2> QED BY <2>1, <2>2
<1>6. \A j, k \in 1 .. Len(seq) - 1 : j < k => StoodAt(j, i) < StoodAt(k, i)
    BY <1>0 DEF StoodAt
<1>7. RemoveAt(seq, i) = r BY DEF RemoveAt, r, a, b
<1> QED BY <1>3, <1>4, <1>5, <1>6, <1>7

(* Removing one entry of a list without repetitions, as the defer of       *)
(* handleCallerSSE splices a channel out of callerSubs (server.go          *)
(* 942-948): every other entry stays, once, and the removed one is gone.   *)
LEMMA RemovedAt ==
    ASSUME NEW S, NEW seq \in Seq(S), IsInjective(seq), NEW i \in 1 .. Len(seq)
    PROVE  /\ RemoveAt(seq, i) \in Seq(S)
           /\ IsInjective(RemoveAt(seq, i))
           /\ \A j \in DOMAIN RemoveAt(seq, i) :
                 RemoveAt(seq, i)[j] # seq[i] /\ \E k \in DOMAIN seq : RemoveAt(seq, i)[j] = seq[k]
<1> DEFINE r == RemoveAt(seq, i)
<1>1. Len(seq) \in Nat /\ DOMAIN seq = 1 .. Len(seq) BY LenProperties
<1>2. /\ r \in Seq(S) /\ DOMAIN r = 1 .. Len(seq) - 1
      /\ \A j \in 1 .. Len(seq) - 1 :
            StoodAt(j, i) \in 1 .. Len(seq) /\ StoodAt(j, i) # i /\ r[j] = seq[StoodAt(j, i)]
      /\ \A j, k \in 1 .. Len(seq) - 1 : j < k => StoodAt(j, i) < StoodAt(k, i)
    BY RemovedEntries
<1> HIDE DEF r
<1>3. \A j, k \in 1 .. Len(seq) - 1 : StoodAt(j, i) = StoodAt(k, i) => j = k BY <1>1, <1>2
<1>4. IsInjective(r) BY SMTT(30), <1>1, <1>2, <1>3 DEF IsInjective
<1>5. \A j \in DOMAIN r : r[j] # seq[i] /\ \E k \in DOMAIN seq : r[j] = seq[k]
    BY <1>1, <1>2 DEF IsInjective
<1> QED BY <1>2, <1>4, <1>5 DEF r

(* So the defer of handleCallerSSE leaves a list without repetitions       *)
(* that no longer names the leaving stream, whether it was there or not.   *)
LEMMA RemovedFirst ==
    ASSUME NEW S, NEW seq \in Seq(S), IsInjective(seq), NEW e
    PROVE  /\ RemoveFirst(seq, e) \in Seq(S)
           /\ IsInjective(RemoveFirst(seq, e))
           /\ \A j \in DOMAIN RemoveFirst(seq, e) :
                 RemoveFirst(seq, e)[j] # e /\ \E k \in DOMAIN seq : RemoveFirst(seq, e)[j] = seq[k]
<1>0. Len(seq) \in Nat /\ DOMAIN seq = 1 .. Len(seq) BY LenProperties
<1>1. CASE \E i \in 1 .. Len(seq) : seq[i] = e
    <2>1. \E i \in 1 .. Len(seq) : seq[i] = e /\ RemoveFirst(seq, e) = RemoveAt(seq, i)
        <3> DEFINE I == {i \in 1 .. Len(seq) : seq[i] = e}
        <3>1. I # {} /\ I \subseteq Nat BY <1>0, <1>1
        <3>2. Min(I) \in I BY <3>1, LeastOfNats
        <3>3. RemoveFirst(seq, e) = RemoveAt(seq, Min(I)) BY <1>1, <3>1 DEF RemoveFirst, SelectInSeq
        <3> HIDE DEF I
        <3>4. Min(I) \in 1 .. Len(seq) /\ seq[Min(I)] = e BY <3>2 DEF I
        <3> QED BY <3>3, <3>4
    <2> QED BY <2>1, RemovedAt
<1>2. CASE ~\E i \in 1 .. Len(seq) : seq[i] = e
    <2>1. RemoveFirst(seq, e) = seq BY <1>2 DEF RemoveFirst
    <2> QED BY <1>0, <1>2, <2>1
<1> QED BY <1>1, <1>2

(* One more entry, not yet there: handleCallerSSE adds a channel of its    *)
(* own to the list, and a send adds a message to a buffer that had not     *)
(* held it.                                                                *)
LEMMA AppendedOnce ==
    ASSUME NEW S, NEW seq \in Seq(S), IsInjective(seq), NEW e \in S,
           \A i \in DOMAIN seq : seq[i] # e
    PROVE  IsInjective(Append(seq, e))
<1>1. Len(seq) \in Nat /\ DOMAIN seq = 1 .. Len(seq) BY LenProperties
<1>2. /\ DOMAIN Append(seq, e) = 1 .. Len(seq) + 1
      /\ \A i \in 1 .. Len(seq) : Append(seq, e)[i] = seq[i]
      /\ Append(seq, e)[Len(seq) + 1] = e
    BY <1>1, AppendProperties, LenProperties
<1> QED BY <1>1, <1>2 DEF IsInjective

(* A fan-out goes on to the rest of its copy of the list, in which the     *)
(* subscriber it has served does not occur again.                          *)
LEMMA TailOnce ==
    ASSUME NEW S, NEW seq \in Seq(S), IsInjective(seq), seq # <<>>
    PROVE  /\ Tail(seq) \in Seq(S) /\ IsInjective(Tail(seq)) /\ Head(seq) = seq[1]
           /\ 1 \in DOMAIN seq
           /\ \A i \in DOMAIN Tail(seq) :
                 i + 1 \in DOMAIN seq /\ Tail(seq)[i] = seq[i + 1] /\ Tail(seq)[i] # seq[1]
<1>1. Len(seq) \in Nat \ {0} /\ DOMAIN seq = 1 .. Len(seq) BY LenProperties, EmptySeq
<1>2. /\ Tail(seq) \in Seq(S) /\ Len(Tail(seq)) = Len(seq) - 1
      /\ \A i \in 1 .. Len(Tail(seq)) : Tail(seq)[i] = seq[i + 1]
    BY HeadTailProperties
<1>3. DOMAIN Tail(seq) = 1 .. Len(seq) - 1 BY <1>2, LenProperties
<1>4. Head(seq) = seq[1] OBVIOUS
<1>5. \A i \in DOMAIN Tail(seq) : i + 1 \in DOMAIN seq /\ Tail(seq)[i] = seq[i + 1]
    BY <1>1, <1>2, <1>3
<1>6. \A i \in DOMAIN Tail(seq) : Tail(seq)[i] # seq[1]
    BY <1>1, <1>3, <1>5 DEF IsInjective
<1>7. IsInjective(Tail(seq))
    BY <1>1, <1>3, <1>5 DEF IsInjective
<1> QED BY <1>1, <1>2, <1>4, <1>5, <1>6, <1>7

(* Handing over the first of the buffer to the stream reorders nothing:    *)
(* what was handed over and what is buffered, together, stay the same.     *)
LEMMA HandedOver ==
    ASSUME NEW S, NEW got \in Seq(S), NEW buffer \in Seq(S), buffer # <<>>
    PROVE  /\ Append(got, Head(buffer)) \in Seq(S) /\ Tail(buffer) \in Seq(S)
           /\ Len(Tail(buffer)) < Len(buffer)
           /\ Append(got, Head(buffer)) \o Tail(buffer) = got \o buffer
<1> DEFINE g == Append(got, Head(buffer))
           b == Tail(buffer)
<1>1. Len(got) \in Nat /\ Len(buffer) \in Nat \ {0} BY LenProperties, EmptySeq
<1>2. /\ Head(buffer) \in S /\ Head(buffer) = buffer[1]
      /\ b \in Seq(S) /\ Len(b) = Len(buffer) - 1
      /\ \A i \in 1 .. Len(buffer) - 1 : b[i] = buffer[i + 1]
    BY <1>1
<1>3. /\ g \in Seq(S) /\ Len(g) = Len(got) + 1
      /\ \A i \in 1 .. Len(got) : g[i] = got[i]
      /\ g[Len(got) + 1] = buffer[1]
    BY <1>1, <1>2, AppendProperties
<1> HIDE DEF g, b
<1>4. /\ g \o b \in Seq(S) /\ Len(g \o b) = Len(got) + Len(buffer)
      /\ \A i \in 1 .. Len(got) + Len(buffer) : (g \o b)[i] =
             IF i <= Len(got) + 1 THEN g[i] ELSE b[i - (Len(got) + 1)]
    <2>1. /\ g \o b \in Seq(S) /\ Len(g \o b) = Len(g) + Len(b)
          /\ \A i \in 1 .. Len(g) + Len(b) : (g \o b)[i] = IF i <= Len(g) THEN g[i] ELSE b[i - Len(g)]
        BY <1>2, <1>3, ConcatProperties
    <2>2. Len(g) + Len(b) = Len(got) + Len(buffer) BY <1>1, <1>2, <1>3
    <2> QED BY <1>3, <2>1, <2>2
<1>5. /\ got \o buffer \in Seq(S) /\ Len(got \o buffer) = Len(got) + Len(buffer)
      /\ \A i \in 1 .. Len(got) + Len(buffer) : (got \o buffer)[i] =
             IF i <= Len(got) THEN got[i] ELSE buffer[i - Len(got)]
    BY <1>1, ConcatProperties
<1>6. ASSUME NEW i \in 1 .. Len(got) + Len(buffer) PROVE (g \o b)[i] = (got \o buffer)[i]
    <2>1. CASE i <= Len(got) BY <1>1, <1>3, <1>4, <1>5, <2>1
    <2>2. CASE i = Len(got) + 1 BY <1>1, <1>3, <1>4, <1>5, <2>2
    <2>3. CASE i > Len(got) + 1
        <3>1. i - (Len(got) + 1) \in 1 .. Len(buffer) - 1 BY <1>1, <2>3
        <3>2. (g \o b)[i] = buffer[i - (Len(got) + 1) + 1] BY <1>1, <1>2, <1>4, <2>3, <3>1
        <3> QED BY <1>1, <1>5, <2>3, <3>2
    <2>4. i <= Len(got) \/ i = Len(got) + 1 \/ i > Len(got) + 1 BY <1>1
    <2> QED BY <2>1, <2>2, <2>3, <2>4, Zenon
<1>7. g \o b = got \o buffer BY <1>1, <1>4, <1>5, <1>6, SeqEqual
<1> QED BY <1>1, <1>2, <1>3, <1>7 DEF g, b

(* A message sent into a channel comes after everything handed over and    *)
(* everything buffered.                                                    *)
LEMMA SentLast ==
    ASSUME NEW S, NEW got \in Seq(S), NEW buffer \in Seq(S), NEW m \in S
    PROVE  /\ Append(buffer, m) \in Seq(S) /\ Len(Append(buffer, m)) = Len(buffer) + 1
           /\ got \o buffer \in Seq(S)
           /\ got \o Append(buffer, m) = Append(got \o buffer, m)
<1>1. Append(buffer, m) = buffer \o <<m>> /\ <<m>> \in Seq(S) BY AppendIsConcat
<1>2. got \o buffer \in Seq(S) BY ConcatProperties
<1>3. Append(got \o buffer, m) = (got \o buffer) \o <<m>> BY <1>2, AppendIsConcat
<1>4. (got \o buffer) \o <<m>> = got \o (buffer \o <<m>>) BY <1>1, ConcatAssociative
<1> QED BY <1>1, <1>2, <1>3, <1>4, AppendProperties

(* The last k of a sequence, entry by entry.                               *)
LEMMA LastEntries ==
    ASSUME NEW S, NEW t \in Seq(S), NEW k \in 0 .. Len(t)
    PROVE  /\ SubSeq(t, Len(t) - k + 1, Len(t)) \in Seq(S)
           /\ Len(SubSeq(t, Len(t) - k + 1, Len(t))) = k
           /\ \A i \in 1 .. k : SubSeq(t, Len(t) - k + 1, Len(t))[i] = t[Len(t) - k + i]
<1> DEFINE n == Len(t)
           s == SubSeq(t, n - k + 1, n)
<1>1. n \in Nat /\ k \in Nat /\ k <= n /\ \A i \in 1 .. n : t[i] \in S BY LenProperties, ElementOfSeq
<1> HIDE DEF n
<1>2. n - k + 1 \in Int /\ n \in Int /\ \A i \in n - k + 1 .. n : t[i] \in S BY <1>1
<1>3. /\ s \in Seq(S) /\ Len(s) = IF n - k + 1 <= n THEN n - (n - k + 1) + 1 ELSE 0
      /\ \A i \in 1 .. n - (n - k + 1) + 1 : s[i] = t[(n - k + 1) + i - 1]
    BY <1>2, SubSeqProperties
<1> HIDE DEF s
<1>4. Len(s) = k BY <1>1, <1>3
<1>5. ASSUME NEW i \in 1 .. k PROVE s[i] = t[n - k + i]
    <2>1. i \in 1 .. n - (n - k + 1) + 1 /\ (n - k + 1) + i - 1 = n - k + i BY <1>1
    <2> QED BY <1>3, <2>1
<1> QED BY <1>3, <1>4, <1>5 DEF s, n

(* The last of a sequence are a suffix of it.                              *)
LEMMA LastAreSuffix ==
    ASSUME NEW S, NEW t \in Seq(S), NEW k \in 0 .. Len(t)
    PROVE  IsSuffix(SubSeq(t, Len(t) - k + 1, Len(t)), t)
<1> DEFINE n == Len(t)
           s == SubSeq(t, n - k + 1, n)
<1>1. n \in Nat /\ k \in Nat /\ k <= n /\ \A i \in 1 .. n : t[i] \in S BY LenProperties, ElementOfSeq
<1>2. s \in Seq(S) /\ Len(s) = k /\ \A i \in 1 .. k : s[i] = t[n - k + i] BY LastEntries
<1> DEFINE a == Reverse(s)
           b == Reverse(t)
<1>4. a = [i \in 1 .. k |-> s[(k - i) + 1]] /\ b = [i \in 1 .. n |-> t[(n - i) + 1]]
    BY <1>2 DEF Reverse
<1> HIDE DEF n, s
<1>5. a \in Seq(S) /\ Len(a) = k /\ b \in Seq(S) /\ Len(b) = n
    <2>1. \A i \in 1 .. k : s[(k - i) + 1] \in S BY <1>1, <1>2
    <2>2. \A i \in 1 .. n : t[(n - i) + 1] \in S BY <1>1
    <2> QED BY <1>1, <1>4, <2>1, <2>2
<1>6. \A i \in 1 .. k : a[i] = b[i]
    <2> SUFFICES ASSUME NEW i \in 1 .. k PROVE a[i] = b[i] OBVIOUS
    <2>1. (k - i) + 1 \in 1 .. k /\ n - k + ((k - i) + 1) = (n - i) + 1 /\ i \in 1 .. n BY <1>1
    <2>2. a[i] = s[(k - i) + 1] /\ b[i] = t[(n - i) + 1] BY <1>4, <2>1
    <2> HIDE DEF a, b
    <2> QED BY <1>2, <2>1, <2>2
<1> HIDE DEF a, b
<1>7. /\ SubSeq(a, 1, k) \in Seq(S) /\ Len(SubSeq(a, 1, k)) = k
      /\ \A i \in 1 .. k : SubSeq(a, 1, k)[i] = a[i]
    BY <1>1, <1>5
<1>8. /\ SubSeq(b, 1, k) \in Seq(S) /\ Len(SubSeq(b, 1, k)) = k
      /\ \A i \in 1 .. k : SubSeq(b, 1, k)[i] = b[i]
    BY <1>1, <1>5
<1>9. SubSeq(a, 1, k) = SubSeq(b, 1, k) BY <1>6, <1>7, <1>8, SeqEqual
<1> QED BY <1>1, <1>5, <1>9 DEF IsSuffix, IsPrefix, a, b, s, n

(* The last of a suffix are the last of the sequence.                      *)
LEMMA LastOfLast ==
    ASSUME NEW S, NEW t \in Seq(S), NEW r \in 0 .. Len(t), NEW k \in 0 .. r,
           NEW last \in Seq(S), Len(last) = r, \A i \in 1 .. r : last[i] = t[Len(t) - r + i]
    PROVE  SubSeq(last, r - k + 1, r) = SubSeq(t, Len(t) - k + 1, Len(t))
<1> DEFINE n == Len(t)
           a == SubSeq(last, r - k + 1, r)
           b == SubSeq(t, n - k + 1, n)
<1>1. n \in Nat /\ k \in Nat /\ r \in Nat /\ k <= r /\ r <= n BY LenProperties
<1>2. a \in Seq(S) /\ Len(a) = k /\ \A i \in 1 .. k : a[i] = last[r - k + i] BY LastEntries
<1>3. b \in Seq(S) /\ Len(b) = k /\ \A i \in 1 .. k : b[i] = t[n - k + i]
    <2>1. k \in 0 .. Len(t) BY <1>1
    <2> QED BY <2>1, LastEntries
<1> HIDE DEF a, b
<1>4. ASSUME NEW i \in 1 .. k PROVE a[i] = b[i]
    <2> HIDE DEF n
    <2>1. r - k + i \in 1 .. r /\ n - r + (r - k + i) = n - k + i BY <1>1
    <2>2. last[r - k + i] = t[n - r + (r - k + i)] BY <2>1 DEF n
    <2> QED BY <1>2, <1>3, <2>1, <2>2
<1>5. a = b BY <1>2, <1>3, <1>4, SeqEqual
<1> QED BY <1>5 DEF a, b

-----------------------------------------------------------------------------
(* What the hosted server keeps, and the inductive invariant.              *)

(* What the server tells of itself: a call answered, a session ended.      *)
HostedEvents == [kind : {"caller"}, of : Nat] \cup [kind : {"session"}, of : Sessions]
StreamStates == [step : {"new", "open", "leaving", "closed"}, buffer : Seq(Nat), got : Seq(Nat)]
FanOuts == [msg : Nat, left : Seq(Streams \cup {"end"})]

(* The shape of the server: a list of streams, a channel for each, the     *)
(* fan-outs under way and the events kept and told.                        *)
HostedTypeOK ==
    /\ subs \in Seq(Streams)
    /\ stream \in [Streams -> StreamStates]
    /\ posted \in Nat
    /\ fan \in [Posters -> FanOuts]
    /\ ring \in Seq(HostedEvents) /\ told \in Seq(HostedEvents)

(* The list names every subscriber once, and only open channels.           *)
LineOpen ==
    /\ IsInjective(subs)
    /\ \A i \in DOMAIN subs : stream[subs[i]].step = "open"

(* The fan-outs under way are for messages of their own, and each has an   *)
(* open channel before it at most once.                                    *)
FansApart ==
    \A q \in Posters :
        /\ fan[q].msg <= posted
        /\ fan[q] # NoFan => fan[q].msg > 0
        /\ \A r \in Posters : fan[r].msg = fan[q].msg /\ fan[q].msg > 0 => r = q
        /\ IsInjective(fan[q].left)
        /\ \A i \in DOMAIN fan[q].left :
              fan[q].left[i] # "end" => stream[fan[q].left[i]].step = "open"

(* What a subscriber was handed, and will be: no message twice, and none   *)
(* that a fan-out has still to send it.                                    *)
Handed(s) == stream[s].got \o stream[s].buffer
HandedOnce ==
    \A s \in Streams :
        /\ IsInjective(Handed(s))
        /\ Len(stream[s].buffer) <= ChannelSize
        /\ \A j \in DOMAIN Handed(s) : Handed(s)[j] <= posted
        /\ \A q \in Posters : (\E i \in DOMAIN fan[q].left : fan[q].left[i] = s) =>
              \A j \in DOMAIN Handed(s) : Handed(s)[j] # fan[q].msg

(* The events kept are the newest of those told, as many as fit.           *)
RingNewest ==
    /\ ring = SubSeq(told, Len(told) - Len(ring) + 1, Len(told))
    /\ Len(ring) = IF Len(told) < MaxEvents THEN Len(told) ELSE MaxEvents

(* The inductive invariant.                                                *)
HostedInv == HostedTypeOK /\ LineOpen /\ FansApart /\ HandedOnce /\ RingNewest

(* The invariant holds of a server that NewServer has just built.          *)
LEMMA HostedStart == HostedInit => HostedInv
<1> SUFFICES ASSUME HostedInit PROVE HostedInv OBVIOUS
<1>0. <<>> \in Seq(Nat) /\ \A T : <<>> \in Seq(T) OBVIOUS
<1>1. HostedTypeOK
    <2>1. NewStream \in StreamStates BY DEF NewStream, StreamStates
    <2>2. NoFan \in FanOuts BY DEF NoFan, FanOuts
    <2> QED BY <2>1, <2>2 DEF HostedInit, HostedTypeOK
<1>2. LineOpen BY DEF HostedInit, LineOpen, IsInjective
<1>3. FansApart BY DEF HostedInit, FansApart, NoFan, IsInjective
<1>4. HandedOnce
    <2>1. \A s \in Streams : stream[s].got = <<>> /\ stream[s].buffer = <<>>
        BY DEF HostedInit, NewStream
    <2>2. \A s \in Streams : Handed(s) = <<>> BY <2>1 DEF Handed
    <2>3. DOMAIN <<>> = {} /\ Len(<<>>) = 0 OBVIOUS
    <2> QED BY <2>1, <2>2, <2>3, HostedAssumption DEF HandedOnce, IsInjective
<1>5. RingNewest
    <2>1. ring = <<>> /\ told = <<>> /\ Len(<<>>) = 0 BY DEF HostedInit
    <2> QED BY <2>1, HostedAssumption DEF RingNewest
<1> QED BY <1>1, <1>2, <1>3, <1>4, <1>5 DEF HostedInv

(* appendEvent (server.go) keeps the ring the newest of what was told,     *)
(* also when it is full and drops its oldest.                              *)
LEMMA RingKept ==
    ASSUME HostedTypeOK, RingNewest, NEW ev \in HostedEvents, AppendEvent(ev)
    PROVE  ring' \in Seq(HostedEvents) /\ told' \in Seq(HostedEvents) /\ RingNewest'
<1> DEFINE E == HostedEvents
           n == Len(told)
           r == Len(ring)
           m == n + 1
           p == Len(ring')
<1>1. /\ n \in Nat /\ r \in Nat /\ ring \in Seq(E) /\ told \in Seq(E) /\ MaxEvents \in Nat \ {0}
      /\ r <= n /\ r <= MaxEvents /\ (n < MaxEvents => r = n) /\ (n >= MaxEvents => r = MaxEvents)
    BY HostedAssumption DEF HostedTypeOK, RingNewest
<1>2. \A i \in 1 .. r : ring[i] = told[n - r + i]
    <2>1. ring = SubSeq(told, n - r + 1, n) BY DEF RingNewest
    <2> SUFFICES ASSUME NEW i \in 1 .. r PROVE ring[i] = told[n - r + i] OBVIOUS
    <2>2. n - r + 1 \in Int /\ n \in Int /\ \A k \in n - r + 1 .. n : told[k] \in E BY <1>1
    <2>3. i \in 1 .. n - (n - r + 1) + 1 BY <1>1
    <2>4. SubSeq(told, n - r + 1, n)[i] = told[(n - r + 1) + i - 1] BY <2>2, <2>3, SubSeqProperties
    <2> HIDE DEF n, r
    <2> QED BY <1>1, <2>1, <2>4
<1>3. /\ told' = Append(told, ev) /\ told' \in Seq(E) /\ Len(told') = n + 1
      /\ told'[n + 1] = ev /\ \A i \in 1 .. n : told'[i] = told[i]
    BY <1>1, AppendProperties DEF AppendEvent
<1>4. /\ ring' \in Seq(E) /\ Len(ring') = IF r < MaxEvents THEN r + 1 ELSE r
      /\ \A i \in 1 .. p : ring'[i] = told'[m - p + i]
    <2>1. CASE r < MaxEvents
        <3>1. ring' = Append(ring, ev) BY <2>1 DEF AppendEvent, Appended
        <3>2. /\ ring' \in Seq(E) /\ Len(ring') = r + 1
              /\ ring'[r + 1] = ev /\ \A i \in 1 .. r : ring'[i] = ring[i]
            BY <1>1, <3>1, AppendProperties
        <3>a. p = r + 1 /\ m = n + 1 BY <3>2
        <3> HIDE DEF n, r, m, p
        <3>3. ASSUME NEW i \in 1 .. p PROVE ring'[i] = told'[m - p + i]
            <4>1. CASE i = p
                <5>1. m - p + i = n + 1 BY <1>1, <3>a, <4>1
                <5> QED BY <1>3, <3>2, <3>a, <4>1, <5>1
            <4>2. CASE i # p
                <5>1. i \in 1 .. r /\ m - p + i = n - r + i /\ n - r + i \in 1 .. n BY <1>1, <3>a, <4>2
                <5> QED BY <1>2, <1>3, <3>2, <5>1
            <4> QED BY <4>1, <4>2
        <3> QED BY <2>1, <3>2, <3>3
    <2>2. CASE ~(r < MaxEvents)
        <3>1. ring' = Append(Tail(ring), ev) BY <2>2 DEF AppendEvent, Appended
        <3>2. ring # <<>> BY <1>1, <2>2
        <3> DEFINE rest == Tail(ring)
        <3>3. /\ rest \in Seq(E) /\ Len(rest) = r - 1
              /\ \A i \in 1 .. r - 1 : rest[i] = ring[i + 1]
            BY <1>1, <3>2, HeadTailProperties
        <3>a. ring' = Append(rest, ev) BY <3>1
        <3> HIDE DEF n, r, rest
        <3>4. /\ ring' \in Seq(E) /\ Len(ring') = r
              /\ ring'[r] = ev /\ \A i \in 1 .. r - 1 : ring'[i] = rest[i]
            <4>1. Len(rest) + 1 = r BY <1>1, <3>3
            <4> QED BY <3>a, <3>3, <4>1, AppendProperties
        <3>b. p = r /\ m = n + 1 BY <3>4 DEF p, m
        <3> HIDE DEF m, p
        <3>5. ASSUME NEW i \in 1 .. p PROVE ring'[i] = told'[m - p + i]
            <4>1. CASE i = p
                <5>1. m - p + i = n + 1 BY <1>1, <3>b, <4>1
                <5> QED BY <1>3, <3>4, <3>b, <4>1, <5>1
            <4>2. CASE i # p
                <5>1. /\ i \in 1 .. r - 1 /\ i + 1 \in 1 .. r
                      /\ m - p + i = n - r + (i + 1) /\ n - r + (i + 1) \in 1 .. n
                    BY <1>1, <3>b, <4>2
                <5>2. ring'[i] = ring[i + 1] BY <3>3, <3>4, <5>1
                <5>3. ring[i + 1] = told[n - r + (i + 1)] BY <1>2, <5>1
                <5>4. told'[n - r + (i + 1)] = told[n - r + (i + 1)] BY <1>3, <5>1
                <5> QED BY <5>1, <5>2, <5>3, <5>4
            <4> QED BY <4>1, <4>2
        <3> QED BY <2>2, <3>4, <3>5
    <2> QED BY <2>1, <2>2
<1>5. m \in Nat /\ p \in Nat /\ p <= m /\ p >= 1 /\ Len(told') = m
      /\ p = (IF m < MaxEvents THEN m ELSE MaxEvents)
    <2> HIDE DEF n, r
    <2> QED BY <1>1, <1>3, <1>4
<1>6. ring' = SubSeq(told', m - p + 1, m)
    <2> HIDE DEF m, p
    <2>1. m - p + 1 \in Int /\ m \in Int /\ \A k \in m - p + 1 .. m : told'[k] \in E
        BY <1>3, <1>5
    <2>2. /\ SubSeq(told', m - p + 1, m) \in Seq(E) /\ Len(SubSeq(told', m - p + 1, m)) = p
        <3>1. /\ SubSeq(told', m - p + 1, m) \in Seq(E)
              /\ Len(SubSeq(told', m - p + 1, m)) = IF m - p + 1 <= m THEN m - (m - p + 1) + 1 ELSE 0
            BY <2>1, SubSeqProperties
        <3> QED BY <1>5, <3>1
    <2>3. ASSUME NEW i \in 1 .. p PROVE SubSeq(told', m - p + 1, m)[i] = ring'[i]
        <3>1. i \in 1 .. m - (m - p + 1) + 1 BY <1>5
        <3>2. SubSeq(told', m - p + 1, m)[i] = told'[(m - p + 1) + i - 1] BY <2>1, <3>1, SubSeqProperties
        <3>3. ring'[i] = told'[m - p + i] BY <1>4
        <3>4. (m - p + 1) + i - 1 = m - p + i BY <1>5
        <3> QED BY <3>2, <3>3, <3>4
    <2>4. Len(ring') = p BY DEF p
    <2> QED BY <1>4, <2>2, <2>3, <2>4, SeqEqual
<1> QED BY <1>3, <1>4, <1>5, <1>6 DEF RingNewest

(* Every step of a stream, a poster or the server keeps the invariant:     *)
(* several fan-outs run at once under the read lock of callerMu, a         *)
(* stream leaves the list under the write lock and closes its channel      *)
(* after it.                                                               *)
LEMMA HostedStep == HostedInv /\ [HostedNext]_hostedVars => HostedInv'
<1> SUFFICES ASSUME HostedInv, [HostedNext]_hostedVars PROVE HostedInv' OBVIOUS
<1>0. HostedTypeOK /\ LineOpen /\ FansApart /\ HandedOnce /\ RingNewest BY DEF HostedInv
<1>a. ChannelSize \in Nat \ {0} /\ "end" \notin Streams BY HostedAssumption
<1>1. CASE UNCHANGED hostedVars
    BY <1>0, <1>1 DEF hostedVars, HostedInv, HostedTypeOK, LineOpen, FansApart, HandedOnce, Handed,
        RingNewest
<1>2. ASSUME UNCHANGED <<lineVars, eventVars>> PROVE HostedInv'
    BY <1>0, <1>2 DEF lineVars, eventVars, HostedInv, HostedTypeOK, LineOpen, FansApart, HandedOnce,
        Handed, RingNewest
<1>3. ASSUME NEW sid \in Sessions, CreateSession(sid) PROVE HostedInv'
    <2>1. UNCHANGED <<subs, stream, posted, fan>> BY <1>3 DEF CreateSession, lineVars
    <2>2. /\ [kind |-> "session", of |-> sid] \in HostedEvents
          /\ AppendEvent([kind |-> "session", of |-> sid])
        BY <1>3 DEF CreateSession, HostedEvents
    <2>3. ring' \in Seq(HostedEvents) /\ told' \in Seq(HostedEvents) /\ RingNewest'
        BY <1>0, <2>2, RingKept
    <2>4. HostedTypeOK' /\ LineOpen' /\ FansApart' /\ HandedOnce'
        BY <1>0, <2>1, <2>3 DEF HostedTypeOK, LineOpen, FansApart, HandedOnce, Handed
    <2> QED BY <2>3, <2>4 DEF HostedInv
<1>4. ASSUME NEW s \in Streams, Subscribe(s) PROVE HostedInv'
    <2>0. UNCHANGED <<posted, fan, ring, told>> BY <1>4 DEF Subscribe, eventVars
    <2>1. /\ subs' = Append(subs, s) /\ stream[s].step = "new"
          /\ stream' = [stream EXCEPT ![s].step = "open"]
          /\ \A q \in Posters : fan[q] = NoFan
        BY <1>4 DEF Subscribe, LineFree
    <2>2. /\ stream' \in [Streams -> StreamStates]
          /\ \A t \in Streams : /\ stream'[t].got = stream[t].got
                                /\ stream'[t].buffer = stream[t].buffer
                                /\ stream'[t].step = IF t = s THEN "open" ELSE stream[t].step
        BY <1>0, <2>1 DEF HostedTypeOK, StreamStates
    <2>3. /\ subs \in Seq(Streams) /\ Len(subs) \in Nat /\ DOMAIN subs = 1 .. Len(subs)
          /\ \A i \in DOMAIN subs : subs[i] \in Streams /\ subs[i] # s
        <3>1. subs \in Seq(Streams) BY <1>0 DEF HostedTypeOK
        <3>2. Len(subs) \in Nat /\ DOMAIN subs = 1 .. Len(subs) BY <3>1, LenProperties
        <3>3. \A i \in DOMAIN subs : subs[i] \in Streams BY <3>1, <3>2, ElementOfSeq
        <3>4. \A i \in DOMAIN subs : subs[i] # s BY <1>0, <2>1 DEF LineOpen
        <3> QED BY <3>1, <3>2, <3>3, <3>4
    <2>4. IsInjective(subs') BY <1>0, <2>1, <2>3, AppendedOnce DEF LineOpen
    <2>5. /\ subs' \in Seq(Streams) /\ DOMAIN subs' = 1 .. Len(subs) + 1
          /\ \A i \in DOMAIN subs' : subs'[i] = s \/ (i \in DOMAIN subs /\ subs'[i] = subs[i])
        <3>1. /\ subs' \in Seq(Streams) /\ Len(subs') = Len(subs) + 1
              /\ \A i \in 1 .. Len(subs) : subs'[i] = subs[i]
              /\ subs'[Len(subs) + 1] = s
            BY <2>1, <2>3, AppendProperties
        <3>2. DOMAIN subs' = 1 .. Len(subs) + 1 BY <3>1, LenProperties
        <3> QED BY <2>3, <3>1, <3>2
    <2>6. HostedTypeOK' BY <1>0, <2>0, <2>2, <2>5 DEF HostedTypeOK
    <2>7. LineOpen' BY <1>0, <2>2, <2>3, <2>4, <2>5 DEF LineOpen
    <2>8. FansApart'
        <3>1. \A q \in Posters : DOMAIN fan[q].left = {} BY <2>1 DEF NoFan
        <3> QED BY <1>0, <2>0, <3>1 DEF FansApart
    <2>9. HandedOnce'
        <3>1. \A t \in Streams : Handed(t)' = Handed(t) BY <2>2 DEF Handed
        <3> QED BY <1>0, <2>0, <2>2, <3>1 DEF HandedOnce
    <2>10. RingNewest' BY <1>0, <2>0 DEF RingNewest
    <2> QED BY <2>6, <2>7, <2>8, <2>9, <2>10 DEF HostedInv
<1>5. ASSUME NEW s \in Streams, Receive(s) PROVE HostedInv'
    <2> DEFINE got == stream[s].got
               buffer == stream[s].buffer
    <2>0. UNCHANGED <<subs, posted, fan, ring, told>> BY <1>5 DEF Receive, eventVars
    <2>1. got \in Seq(Nat) /\ buffer \in Seq(Nat) /\ buffer # <<>> /\ stream[s] \in StreamStates
        BY <1>0, <1>5 DEF Receive, HostedTypeOK, StreamStates
    <2>2. /\ Append(got, Head(buffer)) \in Seq(Nat) /\ Tail(buffer) \in Seq(Nat)
          /\ Len(Tail(buffer)) < Len(buffer)
          /\ Append(got, Head(buffer)) \o Tail(buffer) = got \o buffer
        BY <2>1, HandedOver
    <2> DEFINE g == Append(got, Head(buffer))
               b == Tail(buffer)
    <2>3. stream' = [stream EXCEPT ![s].got = g, ![s].buffer = b] BY <1>5 DEF Receive
    <2>a. g \in Seq(Nat) /\ b \in Seq(Nat) BY <2>2
    <2> HIDE DEF g, b
    <2>4. stream' \in [Streams -> StreamStates]
        BY <1>0, <2>a, <2>3 DEF HostedTypeOK, StreamStates
    <2>5. /\ stream'[s].got = g /\ stream'[s].buffer = b
          /\ \A t \in Streams : stream'[t].step = stream[t].step
          /\ \A t \in Streams : t # s => stream'[t] = stream[t]
        BY <1>0, <2>3 DEF HostedTypeOK, StreamStates
    <2>6. \A t \in Streams : Handed(t)' = Handed(t)
        <3>1. Handed(s)' = Handed(s) BY <2>2, <2>5 DEF Handed, g, b
        <3>2. \A t \in Streams : t # s => Handed(t)' = Handed(t) BY <2>5 DEF Handed
        <3> QED BY <3>1, <3>2
    <2>7. \A t \in Streams : Len(stream'[t].buffer) <= ChannelSize
        <3>1. \A t \in Streams : Len(stream[t].buffer) <= ChannelSize BY <1>0 DEF HandedOnce
        <3>2. Len(b) \in Nat /\ Len(buffer) \in Nat BY <2>1, <2>a, LenProperties
        <3>3. Len(b) <= ChannelSize BY <1>a, <2>2, <3>1, <3>2 DEF b
        <3> QED BY <2>5, <3>1, <3>3
    <2>8. HostedTypeOK' BY <1>0, <2>0, <2>4 DEF HostedTypeOK
    <2>9. LineOpen'
        <3>1. \A i \in DOMAIN subs : subs[i] \in Streams BY <1>0, LenProperties, ElementOfSeq DEF HostedTypeOK
        <3> QED BY <1>0, <2>0, <2>5, <3>1 DEF LineOpen
    <2>10. FansApart'
        <3>1. \A q \in Posters : \A i \in DOMAIN fan[q].left :
                  fan[q].left[i] # "end" => fan[q].left[i] \in Streams
            BY <1>0 DEF HostedTypeOK, FanOuts
        <3> QED BY <1>0, <2>0, <2>5, <3>1 DEF FansApart
    <2>11. HandedOnce' BY <1>0, <2>0, <2>6, <2>7 DEF HandedOnce
    <2>12. RingNewest' BY <1>0, <2>0 DEF RingNewest
    <2> QED BY <2>8, <2>9, <2>10, <2>11, <2>12 DEF HostedInv
<1>6. ASSUME NEW s \in Streams, Unsubscribe(s) PROVE HostedInv'
    <2>0. UNCHANGED <<posted, fan, ring, told>> BY <1>6 DEF Unsubscribe, eventVars
    <2>1. /\ subs' = RemoveFirst(subs, s)
          /\ stream' = [stream EXCEPT ![s].step = "leaving"]
          /\ \A q \in Posters : fan[q] = NoFan
        BY <1>6 DEF Unsubscribe, LineFree
    <2>2. /\ stream' \in [Streams -> StreamStates]
          /\ \A t \in Streams : /\ stream'[t].got = stream[t].got
                                /\ stream'[t].buffer = stream[t].buffer
                                /\ t # s => stream'[t].step = stream[t].step
        BY <1>0, <2>1 DEF HostedTypeOK, StreamStates
    <2>3. subs \in Seq(Streams) /\ IsInjective(subs) BY <1>0 DEF HostedTypeOK, LineOpen
    <2>4. \A i \in DOMAIN subs : subs[i] \in Streams BY <2>3, LenProperties, ElementOfSeq
    <2>5. /\ subs' \in Seq(Streams) /\ IsInjective(subs')
          /\ \A j \in DOMAIN subs' : subs'[j] # s /\ \E k \in DOMAIN subs : subs'[j] = subs[k]
        BY <2>1, <2>3, RemovedFirst
    <2>6. HostedTypeOK' BY <1>0, <2>0, <2>2, <2>5 DEF HostedTypeOK
    <2>7. LineOpen' BY <1>0, <2>2, <2>4, <2>5 DEF LineOpen
    <2>8. FansApart'
        <3>1. \A q \in Posters : DOMAIN fan[q].left = {} BY <2>1 DEF NoFan
        <3> QED BY <1>0, <2>0, <3>1 DEF FansApart
    <2>9. HandedOnce'
        <3>1. \A t \in Streams : Handed(t)' = Handed(t) BY <2>2 DEF Handed
        <3> QED BY <1>0, <2>0, <2>2, <3>1 DEF HandedOnce
    <2>10. RingNewest' BY <1>0, <2>0 DEF RingNewest
    <2> QED BY <2>6, <2>7, <2>8, <2>9, <2>10 DEF HostedInv
<1>7. ASSUME NEW s \in Streams, CloseChannel(s) PROVE HostedInv'
    <2>0. UNCHANGED <<subs, posted, fan, ring, told>> BY <1>7 DEF CloseChannel, eventVars
    <2>1. stream[s].step = "leaving" /\ stream' = [stream EXCEPT ![s].step = "closed"]
        BY <1>7 DEF CloseChannel
    <2>2. /\ stream' \in [Streams -> StreamStates]
          /\ \A t \in Streams : /\ stream'[t].got = stream[t].got
                                /\ stream'[t].buffer = stream[t].buffer
                                /\ stream[t].step = "open" => stream'[t].step = "open"
        BY <1>0, <2>1 DEF HostedTypeOK, StreamStates
    <2>3. HostedTypeOK' BY <1>0, <2>0, <2>2 DEF HostedTypeOK
    <2>4. LineOpen'
        <3>1. \A i \in DOMAIN subs : subs[i] \in Streams BY <1>0, LenProperties, ElementOfSeq DEF HostedTypeOK
        <3> QED BY <1>0, <2>0, <2>2, <3>1 DEF LineOpen
    <2>5. FansApart'
        <3>1. \A q \in Posters : \A i \in DOMAIN fan[q].left :
                  fan[q].left[i] # "end" => fan[q].left[i] \in Streams
            BY <1>0 DEF HostedTypeOK, FanOuts
        <3> QED BY <1>0, <2>0, <2>2, <3>1 DEF FansApart
    <2>6. HandedOnce'
        <3>1. \A t \in Streams : Handed(t)' = Handed(t) BY <2>2 DEF Handed
        <3> QED BY <1>0, <2>0, <2>2, <3>1 DEF HandedOnce
    <2>7. RingNewest' BY <1>0, <2>0 DEF RingNewest
    <2> QED BY <2>3, <2>4, <2>5, <2>6, <2>7 DEF HostedInv
<1>8. ASSUME NEW q \in Posters, Post(q) PROVE HostedInv'
    <2> DEFINE left == Append(subs, "end")
               S == Streams \cup {"end"}
    <2>0. UNCHANGED <<subs, stream, ring, told>> BY <1>8 DEF Post, eventVars
    <2>1. /\ posted \in Nat /\ posted' = posted + 1
          /\ fan' = [fan EXCEPT ![q] = [msg |-> posted + 1, left |-> left]]
        BY <1>0, <1>8 DEF Post, HostedTypeOK
    <2>2. /\ subs \in Seq(S) /\ Len(subs) \in Nat /\ DOMAIN subs = 1 .. Len(subs)
          /\ \A i \in DOMAIN subs : subs[i] \in Streams /\ subs[i] # "end"
        <3>1. subs \in Seq(Streams) BY <1>0 DEF HostedTypeOK
        <3>2. Len(subs) \in Nat /\ DOMAIN subs = 1 .. Len(subs) BY <3>1, LenProperties
        <3>3. \A i \in DOMAIN subs : subs[i] \in Streams BY <3>1, <3>2, ElementOfSeq
        <3>4. subs \in Seq(S) BY <3>1, SeqMonotonic
        <3> QED BY <1>a, <3>2, <3>3, <3>4
    <2>3. IsInjective(left) BY <1>0, <2>2, AppendedOnce DEF LineOpen
    <2>4. /\ left \in Seq(S) /\ DOMAIN left = 1 .. Len(subs) + 1
          /\ \A i \in DOMAIN left : left[i] = "end" \/ (i \in DOMAIN subs /\ left[i] = subs[i])
        <3>1. /\ left \in Seq(S) /\ Len(left) = Len(subs) + 1
              /\ \A i \in 1 .. Len(subs) : left[i] = subs[i]
              /\ left[Len(subs) + 1] = "end"
            BY <2>2, AppendProperties
        <3> HIDE DEF left
        <3>2. DOMAIN left = 1 .. Len(subs) + 1 BY <3>1, LenProperties
        <3> QED BY <2>2, <3>1, <3>2
    <2> HIDE DEF left
    <2>5. /\ fan'[q].msg = posted + 1 /\ fan'[q].left = left
          /\ \A r \in Posters : r # q => fan'[r] = fan[r]
        BY <1>0, <2>1 DEF HostedTypeOK
    <2>6. HostedTypeOK'
        <3>1. [msg |-> posted + 1, left |-> left] \in FanOuts BY <2>1, <2>4 DEF FanOuts
        <3> QED BY <1>0, <2>0, <2>1, <3>1 DEF HostedTypeOK
    <2>7. LineOpen' BY <1>0, <2>0 DEF LineOpen
    <2>8. \A r \in Posters : fan[r].msg \in Nat /\ fan[r].msg <= posted
        BY <1>0 DEF HostedTypeOK, FanOuts, FansApart
    <2>9. FansApart'
        <3> SUFFICES ASSUME NEW r \in Posters
                     PROVE  /\ fan'[r].msg <= posted'
                            /\ fan'[r] # NoFan => fan'[r].msg > 0
                            /\ \A u \in Posters : fan'[u].msg = fan'[r].msg /\ fan'[r].msg > 0 => u = r
                            /\ IsInjective(fan'[r].left)
                            /\ \A i \in DOMAIN fan'[r].left :
                                  fan'[r].left[i] # "end" => stream'[fan'[r].left[i]].step = "open"
            BY DEF FansApart
        <3>1. fan'[r].msg <= posted' BY <2>1, <2>5, <2>8
        <3>2. fan'[r] # NoFan => fan'[r].msg > 0 BY <1>0, <2>1, <2>5 DEF FansApart
        <3>3. \A u \in Posters : fan'[u].msg = fan'[r].msg /\ fan'[r].msg > 0 => u = r
            BY <1>0, <2>1, <2>5, <2>8 DEF FansApart
        <3>4. IsInjective(fan'[r].left) BY <1>0, <2>3, <2>5 DEF FansApart
        <3>5. \A i \in DOMAIN left : left[i] # "end" => stream[left[i]].step = "open"
            BY <1>0, <2>4 DEF LineOpen
        <3>6. \A i \in DOMAIN fan'[r].left :
                  fan'[r].left[i] # "end" => stream'[fan'[r].left[i]].step = "open"
            BY <1>0, <2>0, <2>5, <3>5 DEF FansApart
        <3> QED BY <3>1, <3>2, <3>3, <3>4, <3>6
    <2>10. HandedOnce'
        <3>0. \A t \in Streams : Handed(t)' = Handed(t) /\ stream'[t] = stream[t] BY <2>0 DEF Handed
        <3> SUFFICES ASSUME NEW t \in Streams
                     PROVE  /\ IsInjective(Handed(t)) /\ Len(stream[t].buffer) <= ChannelSize
                            /\ \A j \in DOMAIN Handed(t) : Handed(t)[j] <= posted'
                            /\ \A r \in Posters : (\E i \in DOMAIN fan'[r].left : fan'[r].left[i] = t) =>
                                  \A j \in DOMAIN Handed(t) : Handed(t)[j] # fan'[r].msg
            BY <3>0 DEF HandedOnce
        <3>1. /\ IsInjective(Handed(t)) /\ Len(stream[t].buffer) <= ChannelSize
              /\ \A j \in DOMAIN Handed(t) : Handed(t)[j] <= posted
            BY <1>0 DEF HandedOnce
        <3>2. \A j \in DOMAIN Handed(t) : Handed(t)[j] \in Nat
            <4>1. stream[t].got \in Seq(Nat) /\ stream[t].buffer \in Seq(Nat)
                BY <1>0 DEF HostedTypeOK, StreamStates
            <4>2. Handed(t) \in Seq(Nat) BY <4>1, ConcatProperties DEF Handed
            <4> QED BY <4>2, LenProperties, ElementOfSeq
        <3>3. \A j \in DOMAIN Handed(t) : Handed(t)[j] <= posted' /\ Handed(t)[j] # posted + 1
            BY <2>1, <3>1, <3>2
        <3>4. \A r \in Posters : (\E i \in DOMAIN fan'[r].left : fan'[r].left[i] = t) =>
                  \A j \in DOMAIN Handed(t) : Handed(t)[j] # fan'[r].msg
            BY <1>0, <2>5, <3>3 DEF HandedOnce
        <3> QED BY <3>1, <3>3, <3>4
    <2>11. RingNewest' BY <1>0, <2>0 DEF RingNewest
    <2> QED BY <2>6, <2>7, <2>9, <2>10, <2>11 DEF HostedInv
<1>9. ASSUME NEW q \in Posters, Send(q) PROVE HostedInv'
    <2> DEFINE left == fan[q].left
               m == fan[q].msg
               S == Streams \cup {"end"}
    <2> PICK s : s = Head(left) OBVIOUS
    <2> DEFINE buffer == IF Len(stream[s].buffer) < ChannelSize THEN Append(stream[s].buffer, m)
                         ELSE stream[s].buffer
    <2>0. UNCHANGED <<subs, posted, ring, told>> BY <1>9 DEF Send, eventVars
    <2>1. /\ fan[q] \in FanOuts /\ left \in Seq(S) /\ left # <<>> /\ s # "end" /\ m \in Nat
          /\ IsInjective(left) /\ m > 0 /\ m <= posted
        BY <1>0, <1>9 DEF Send, HostedTypeOK, FanOuts, FansApart, NoFan
    <2>2. /\ Tail(left) \in Seq(S) /\ IsInjective(Tail(left)) /\ s = left[1] /\ 1 \in DOMAIN left
          /\ \A i \in DOMAIN Tail(left) :
                i + 1 \in DOMAIN left /\ Tail(left)[i] = left[i + 1] /\ Tail(left)[i] # s
        BY <2>1, TailOnce
    <2>3. s \in Streams /\ stream[s].step = "open"
        <3>1. s \in S BY <2>1, HeadTailProperties
        <3> QED BY <1>0, <2>1, <2>2, <3>1 DEF FansApart
    <2>4. /\ stream' = [stream EXCEPT ![s].buffer = buffer]
          /\ fan' = [fan EXCEPT ![q].left = Tail(left)]
        BY <1>9 DEF Send
    <2>5. /\ stream[s].got \in Seq(Nat) /\ stream[s].buffer \in Seq(Nat)
          /\ Len(stream[s].buffer) \in Nat /\ Len(stream[s].buffer) <= ChannelSize
        BY <1>0, <2>3, LenProperties DEF HostedTypeOK, StreamStates, HandedOnce
    <2>6. /\ Append(stream[s].buffer, m) \in Seq(Nat)
          /\ Len(Append(stream[s].buffer, m)) = Len(stream[s].buffer) + 1
          /\ Handed(s) \in Seq(Nat)
          /\ stream[s].got \o Append(stream[s].buffer, m) = Append(Handed(s), m)
        <3> DEFINE g == stream[s].got
                   b == stream[s].buffer
        <3>1. Handed(s) = g \o b BY DEF Handed
        <3>2. g \in Seq(Nat) /\ b \in Seq(Nat) /\ m \in Nat BY <2>1, <2>5
        <3> HIDE DEF g, b, m
        <3>3. /\ Append(b, m) \in Seq(Nat) /\ Len(Append(b, m)) = Len(b) + 1
              /\ g \o b \in Seq(Nat) /\ g \o Append(b, m) = Append(g \o b, m)
            BY <3>2, SentLast
        <3> QED BY <3>1, <3>3 DEF g, b
    <2>7. /\ buffer \in Seq(Nat) /\ Len(buffer) <= ChannelSize
          /\ stream[s].got \o buffer \in {Handed(s), Append(Handed(s), m)}
        <3>1. CASE Len(stream[s].buffer) < ChannelSize
            <4>1. buffer = Append(stream[s].buffer, m) BY <3>1
            <4>2. Len(stream[s].buffer) + 1 <= ChannelSize BY <1>a, <2>5, <3>1
            <4> HIDE DEF buffer
            <4> QED BY <2>6, <4>1, <4>2
        <3>2. CASE ~(Len(stream[s].buffer) < ChannelSize) BY <1>a, <2>5, <3>2 DEF Handed
        <3> QED BY <3>1, <3>2
    <2> HIDE DEF buffer
    <2>8. /\ stream' \in [Streams -> StreamStates]
          /\ stream'[s].buffer = buffer /\ stream'[s].got = stream[s].got
          /\ \A t \in Streams : stream'[t].step = stream[t].step
          /\ \A t \in Streams : t # s => stream'[t] = stream[t]
        BY <1>0, <2>3, <2>4, <2>7 DEF HostedTypeOK, StreamStates
    <2>9. /\ fan' \in [Posters -> FanOuts]
          /\ fan'[q].left = Tail(left) /\ fan'[q].msg = m
          /\ \A r \in Posters : r # q => fan'[r] = fan[r]
        BY <1>0, <2>2, <2>4 DEF HostedTypeOK, FanOuts
    <2>10. HostedTypeOK' BY <1>0, <2>0, <2>8, <2>9 DEF HostedTypeOK
    <2>11. LineOpen'
        <3>1. \A i \in DOMAIN subs : subs[i] \in Streams BY <1>0, LenProperties, ElementOfSeq DEF HostedTypeOK
        <3> QED BY <1>0, <2>0, <2>8, <3>1 DEF LineOpen
    <2>12. FansApart'
        <3> SUFFICES ASSUME NEW r \in Posters
                     PROVE  /\ fan'[r].msg <= posted'
                            /\ fan'[r] # NoFan => fan'[r].msg > 0
                            /\ \A u \in Posters : fan'[u].msg = fan'[r].msg /\ fan'[r].msg > 0 => u = r
                            /\ IsInjective(fan'[r].left)
                            /\ \A i \in DOMAIN fan'[r].left :
                                  fan'[r].left[i] # "end" => stream'[fan'[r].left[i]].step = "open"
            BY DEF FansApart
        <3>1. \A u \in Posters : fan'[u].msg = fan[u].msg BY <2>9
        <3>2. fan'[r].msg <= posted' BY <1>0, <2>0, <3>1 DEF FansApart
        <3>3. fan'[r] # NoFan => fan'[r].msg > 0
            BY <1>0, <2>1, <2>9 DEF FansApart
        <3>4. \A u \in Posters : fan'[u].msg = fan'[r].msg /\ fan'[r].msg > 0 => u = r
            BY <1>0, <3>1 DEF FansApart
        <3>5. IsInjective(fan'[r].left) BY <1>0, <2>2, <2>9 DEF FansApart
        <3>6. \A i \in DOMAIN fan'[r].left : \E k \in DOMAIN fan[r].left : fan'[r].left[i] = fan[r].left[k]
            <4>1. CASE r = q
                <5>1. fan'[r].left = Tail(left) /\ fan[r].left = left BY <2>9, <4>1
                <5> HIDE DEF left
                <5>2. \A i \in DOMAIN Tail(left) : \E k \in DOMAIN left : Tail(left)[i] = left[k]
                    BY <2>2, Zenon
                <5>3. ASSUME NEW i \in DOMAIN fan'[r].left
                      PROVE  \E k \in DOMAIN fan[r].left : fan'[r].left[i] = fan[r].left[k]
                    <6>1. i \in DOMAIN Tail(left) BY <5>1
                    <6>2. PICK k \in DOMAIN left : Tail(left)[i] = left[k] BY <5>2, <6>1
                    <6>3. fan'[r].left[i] = Tail(left)[i] /\ fan[r].left[k] = left[k] BY <5>1
                    <6>4. k \in DOMAIN fan[r].left BY <5>1, <6>2
                    <6> QED BY <6>2, <6>3, <6>4
                <5> QED BY <5>3
            <4>2. CASE r # q BY <2>9, <4>2
            <4> QED BY <4>1, <4>2
        <3>7. \A k \in DOMAIN fan[r].left : fan[r].left[k] # "end" =>
                  fan[r].left[k] \in Streams /\ stream[fan[r].left[k]].step = "open"
            BY <1>0 DEF HostedTypeOK, FanOuts, FansApart
        <3>8. \A i \in DOMAIN fan'[r].left :
                  fan'[r].left[i] # "end" => stream'[fan'[r].left[i]].step = "open"
            BY <2>8, <3>6, <3>7
        <3> QED BY <3>2, <3>3, <3>4, <3>5, <3>8
    <2>13. HandedOnce'
        <3>a. \A j \in DOMAIN Handed(s) : Handed(s)[j] # m
            BY <1>0, <2>2, <2>3 DEF HandedOnce
        <3>b. Len(Handed(s)) \in Nat /\ DOMAIN Handed(s) = 1 .. Len(Handed(s))
            BY <2>6, LenProperties
        <3>c. IsInjective(Append(Handed(s), m))
            BY <1>0, <2>1, <2>3, <2>6, <3>a, AppendedOnce DEF HandedOnce
        <3>d. \A j \in DOMAIN Append(Handed(s), m) : Append(Handed(s), m)[j] = m
                  \/ (j \in DOMAIN Handed(s) /\ Append(Handed(s), m)[j] = Handed(s)[j])
            <4> DEFINE h == Handed(s)
            <4>0. h \in Seq(Nat) /\ m \in Nat BY <2>1, <2>6
            <4> HIDE DEF h, m
            <4>1. Len(Append(h, m)) = Len(h) + 1 /\ Append(h, m)[Len(h) + 1] = m
                  /\ \A i \in 1 .. Len(h) : Append(h, m)[i] = h[i]
                BY <4>0, AppendProperties
            <4>2. DOMAIN Append(h, m) = 1 .. Len(h) + 1 BY <4>0
            <4>3. \A j \in DOMAIN Append(h, m) : Append(h, m)[j] = m
                      \/ (j \in 1 .. Len(h) /\ Append(h, m)[j] = h[j])
                <5>1. Len(h) \in Nat BY <3>b DEF h
                <5> QED BY <4>1, <4>2, <5>1
            <4> QED BY <3>b, <4>3 DEF h
        <3>e. /\ IsInjective(Handed(s)')
              /\ \A j \in DOMAIN Handed(s)' : Handed(s)'[j] = m
                     \/ (j \in DOMAIN Handed(s) /\ Handed(s)'[j] = Handed(s)[j])
            <4>1. Handed(s)' \in {Handed(s), Append(Handed(s), m)}
                BY <2>7, <2>8 DEF Handed
            <4>2. IsInjective(Handed(s)) BY <1>0, <2>3 DEF HandedOnce
            <4> HIDE DEF m
            <4> QED BY <3>c, <3>d, <4>1, <4>2
        <3>f. \A t \in Streams : t # s => Handed(t)' = Handed(t) BY <2>8 DEF Handed
        <3> SUFFICES ASSUME NEW t \in Streams
                     PROVE  /\ IsInjective(Handed(t)') /\ Len(stream'[t].buffer) <= ChannelSize
                            /\ \A j \in DOMAIN Handed(t)' : Handed(t)'[j] <= posted'
                            /\ \A r \in Posters : (\E i \in DOMAIN fan'[r].left : fan'[r].left[i] = t) =>
                                  \A j \in DOMAIN Handed(t)' : Handed(t)'[j] # fan'[r].msg
            BY DEF HandedOnce
        <3>1. CASE t # s
            <4>1. \A r \in Posters : (\E i \in DOMAIN fan'[r].left : fan'[r].left[i] = t) =>
                      \E k \in DOMAIN fan[r].left : fan[r].left[k] = t
                <5>1. \A i \in DOMAIN fan'[q].left : \E k \in DOMAIN fan[q].left :
                          fan'[q].left[i] = fan[q].left[k]
                    BY <2>2, <2>9
                <5>2. \A r \in Posters : r = q \/ fan'[r].left = fan[r].left BY <2>9
                <5> QED BY <5>1, <5>2
            <4>2. \A r \in Posters : fan'[r].msg = fan[r].msg BY <2>9
            <4>3. Handed(t)' = Handed(t) /\ stream'[t] = stream[t] BY <2>8, <3>1, <3>f
            <4> QED BY <1>0, <2>0, <4>1, <4>2, <4>3 DEF HandedOnce
        <3>2. CASE t = s
            <4>1. \A j \in DOMAIN Handed(s) : Handed(s)[j] <= posted
                BY <1>0, <2>3 DEF HandedOnce
            <4>2. \A j \in DOMAIN Handed(s)' : Handed(s)'[j] <= posted'
                BY <2>0, <2>1, <3>e, <4>1
            <4>3. ASSUME NEW r \in Posters, NEW i \in DOMAIN fan'[r].left, fan'[r].left[i] = s,
                         NEW j \in DOMAIN Handed(s)'
                  PROVE  Handed(s)'[j] # fan'[r].msg
                <5>1. r # q BY <2>2, <2>9, <4>3
                <5>2. fan'[r] = fan[r] BY <2>9, <5>1
                <5>3. fan[r].msg # m BY <1>0, <2>1, <5>1 DEF FansApart
                <5>4. \A k \in DOMAIN Handed(s) : Handed(s)[k] # fan[r].msg
                    BY <1>0, <2>3, <4>3, <5>2 DEF HandedOnce
                <5> QED BY <3>e, <5>2, <5>3, <5>4
            <4> QED BY <2>7, <2>8, <3>2, <3>e, <4>2, <4>3
        <3> QED BY <3>1, <3>2
    <2>14. RingNewest' BY <1>0, <2>0 DEF RingNewest
    <2> QED BY <2>10, <2>11, <2>12, <2>13, <2>14 DEF HostedInv
<1>10. ASSUME NEW q \in Posters, PostEnd(q) PROVE HostedInv'
    <2>0. UNCHANGED <<subs, stream, posted>> /\ fan' = [fan EXCEPT ![q] = NoFan]
        BY <1>10 DEF PostEnd
    <2>1. /\ [kind |-> "caller", of |-> fan[q].msg] \in HostedEvents
          /\ AppendEvent([kind |-> "caller", of |-> fan[q].msg])
        BY <1>0, <1>10 DEF PostEnd, HostedEvents, HostedTypeOK, FanOuts
    <2>2. ring' \in Seq(HostedEvents) /\ told' \in Seq(HostedEvents) /\ RingNewest'
        BY <1>0, <2>1, RingKept
    <2>3. /\ NoFan \in FanOuts /\ NoFan.msg = 0 /\ DOMAIN NoFan.left = {}
        BY DEF NoFan, FanOuts
    <2>4. fan'[q] = NoFan /\ \A r \in Posters : r # q => fan'[r] = fan[r]
        BY <1>0, <2>0 DEF HostedTypeOK
    <2>5. HostedTypeOK' BY <1>0, <2>0, <2>2, <2>3 DEF HostedTypeOK
    <2>6. LineOpen' BY <1>0, <2>0 DEF LineOpen
    <2>7. FansApart'
        <3>1. posted \in Nat BY <1>0 DEF HostedTypeOK
        <3>2. IsInjective(NoFan.left) BY <2>3 DEF IsInjective
        <3> QED BY <1>0, <2>0, <2>3, <2>4, <3>1, <3>2 DEF FansApart
    <2>8. HandedOnce'
        <3>1. \A t \in Streams : Handed(t)' = Handed(t) BY <2>0 DEF Handed
        <3> QED BY <1>0, <2>0, <2>3, <2>4, <3>1 DEF HandedOnce
    <2> QED BY <2>2, <2>5, <2>6, <2>7, <2>8 DEF HostedInv
<1> QED BY <1>1, <1>2, <1>3, <1>4, <1>5, <1>6, <1>7, <1>8, <1>9, <1>10
    DEF HostedNext, Start, Shutdown, EndSession

(* The invariant gives what the run checks: no send on a closed channel,   *)
(* no message delivered twice, and recentEvents returns a suffix of what   *)
(* was told, whatever number is asked for.                                 *)
LEMMA FanOutFollows == HostedInv => FanOutSafe
<1> SUFFICES ASSUME HostedInv PROVE FanOutSafe OBVIOUS
<1>0. HostedTypeOK /\ FansApart /\ HandedOnce /\ RingNewest BY DEF HostedInv
<1>1. NoSendOnClosed BY <1>0 DEF FansApart, NoSendOnClosed
<1>2. DeliveredOnce BY <1>0 DEF HandedOnce, Handed, DeliveredOnce
<1>3. RingIsRecent
    <2> DEFINE r == Len(ring)
    <2>1. /\ ring \in Seq(HostedEvents) /\ told \in Seq(HostedEvents)
          /\ r \in 0 .. Len(told)
        BY <1>0, HostedAssumption, LenProperties DEF HostedTypeOK, RingNewest
    <2>2. ring = SubSeq(told, Len(told) - r + 1, Len(told)) BY <1>0 DEF RingNewest
    <2>3. \A i \in 1 .. r : ring[i] = told[Len(told) - r + i] BY <2>1, <2>2, LastEntries
    <2>4. ASSUME NEW n \in 0 .. MaxEvents + 1 PROVE IsSuffix(RecentEvents(n), told)
        <3> DEFINE k == IF n = 0 \/ n > r THEN r ELSE n
        <3>1. k \in 0 .. r BY <2>1, <2>4, HostedAssumption
        <3>2. RecentEvents(n) = SubSeq(ring, r - k + 1, r) BY DEF RecentEvents
        <3> HIDE DEF k
        <3>3. SubSeq(ring, r - k + 1, r) = SubSeq(told, Len(told) - k + 1, Len(told))
            BY <2>1, <2>3, <3>1, LastOfLast
        <3>4. k \in 0 .. Len(told) BY <2>1, <3>1, LenProperties
        <3> QED BY <2>1, <3>2, <3>3, <3>4, LastAreSuffix
    <2> QED BY <1>0, <2>4 DEF RingNewest, RingIsRecent
<1> QED BY <1>1, <1>2, <1>3 DEF FanOutSafe

(* For any numbers of streams, posters and sessions and any sizes of the   *)
(* channels and the ring: the fan-out of the hosted server never sends     *)
(* on a channel that its stream has closed, hands no message to a          *)
(* subscriber twice, and the events it shows are the most recent ones      *)
(* (property FanOutSafe; handleCallerSSE, handleCallerPost, appendEvent    *)
(* and recentEvents).                                                      *)
THEOREM FanOutAlwaysSafe == HostedSpec => []FanOutSafe
BY HostedStart, HostedStep, FanOutFollows, PTL DEF HostedSpec
=============================================================================
