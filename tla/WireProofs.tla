----------------------------- MODULE WireProofs ------------------------------
(***************************************************************************)
(* The wire layer, for every report size, MTU, chunk size and payload that *)
(* fits:                                                                   *)
(*   - the CTAPHID, BLE and NFC framings: an assembler fed with what       *)
(*     Fragment makes of a payload is done with the last packet, and holds *)
(*     that payload;                                                       *)
(*   - the packet sessions over NFC, BLE and the injected USB backend: any *)
(*     number of callers, and every Exchange returns its own answer;       *)
(*   - the reader of a CTAPHID response: it returns the first answer on    *)
(*     its channel, past keepalives and other channels' packets.           *)
(***************************************************************************)
EXTENDS HidMessage, PacketSession, Integers, TLAPS

\* Zenon proves the leaves, except for those that cite SMT.
USE Zenon

------------------------------------------------------------------------------
(* Sequences. *)

\* Sequences with the same elements are equal.
LEMMA SameSeq ==
  ASSUME NEW S, NEW s \in Seq(S), NEW t \in Seq(S),
         Len(s) = Len(t), \A i \in 1..Len(s) : s[i] = t[i]
  PROVE  s = t
BY SMT

\* A sequence over a set is one over every larger set.
LEMMA WiderSeq ==
  ASSUME NEW S, NEW T, NEW s \in Seq(S), S \subseteq T
  PROVE  s \in Seq(T)
BY SMT

\* The empty sequence, and every other one.
LEMMA EmptyIsSeq ==
  ASSUME NEW S
  PROVE /\ << >> \in Seq(S) /\ Len(<< >>) = 0
        /\ \A s \in Seq(S) : s # << >> => Len(s) \in Nat \ {0}
BY SMT

\* The elements of a concatenation.
LEMMA Concatenation ==
  ASSUME NEW S, NEW s \in Seq(S), NEW t \in Seq(S)
  PROVE  /\ s \o t \in Seq(S)
         /\ Len(s \o t) = Len(s) + Len(t)
         /\ \A i \in 1..(Len(s) + Len(t)) :
              (s \o t)[i] = IF i <= Len(s) THEN s[i] ELSE t[i - Len(s)]
BY SMT

\* The elements behind the first one.
LEMMA HeadAndTail ==
  ASSUME NEW S, NEW s \in Seq(S), s # << >>
  PROVE  /\ Head(s) \in S /\ Tail(s) \in Seq(S)
         /\ Len(Tail(s)) = Len(s) - 1
         /\ \A i \in 1..Len(Tail(s)) : Tail(s)[i] = s[i + 1]
BY SMT

\* Two adjacent parts of a sequence make one.
LEMMA Adjacent ==
  ASSUME NEW S, NEW s \in Seq(S), NEW m \in 1..(Len(s) + 1),
         NEW k \in (m - 1)..Len(s), NEW n \in k..Len(s)
  PROVE  SubSeq(s, m, k) \o SubSeq(s, k + 1, n) = SubSeq(s, m, n)
<1> DEFINE a == SubSeq(s, m, k)
           b == SubSeq(s, k + 1, n)
           d == SubSeq(s, m, n)
<1>1. a \in Seq(S) /\ Len(a) = k - m + 1 /\ \A i \in 1..(k - m + 1) : a[i] = s[m + i - 1]
  BY SMT
<1>2. b \in Seq(S) /\ Len(b) = n - k /\ \A i \in 1..(n - k) : b[i] = s[k + i]
  BY SMT
<1>3. d \in Seq(S) /\ Len(d) = n - m + 1 /\ \A i \in 1..(n - m + 1) : d[i] = s[m + i - 1]
  BY SMT
<1> HIDE DEF a, b, d
<1>4. /\ a \o b \in Seq(S) /\ Len(a \o b) = Len(a) + Len(b)
      /\ \A i \in 1..(Len(a) + Len(b)) : (a \o b)[i] = IF i <= Len(a) THEN a[i] ELSE b[i - Len(a)]
  BY <1>1, <1>2, Concatenation
<1>5. Len(a \o b) = Len(d)
  BY <1>1, <1>2, <1>3, <1>4, SMT
<1>6. ASSUME NEW i \in 1..Len(a \o b) PROVE (a \o b)[i] = d[i]
  <2>1. Len(a) = k - m + 1 /\ Len(b) = n - k /\ i \in 1..(Len(a) + Len(b))
    BY <1>1, <1>2, <1>4
  <2>2. (a \o b)[i] = IF i <= Len(a) THEN a[i] ELSE b[i - Len(a)]
    BY <1>4, <2>1
  <2>3. i \in 1..(n - m + 1)
    BY <2>1, SMT
  <2>4. d[i] = s[m + i - 1]
    BY <1>3, <2>3
  <2>5. CASE i <= Len(a)
    <3>1. i \in 1..(k - m + 1)
      BY <2>1, <2>5, SMT
    <3> QED
      BY <1>1, <2>2, <2>4, <2>5, <3>1
  <2>6. CASE ~(i <= Len(a))
    <3> DEFINE j == i - Len(a)
    <3>1. j \in 1..(n - k) /\ k + j = m + i - 1
      BY <2>1, <2>6, SMT
    <3>2. (a \o b)[i] = b[j]
      BY <2>2, <2>6
    <3> HIDE DEF j
    <3>3. b[j] = s[k + j]
      BY <1>2, <3>1
    <3> QED
      BY <2>4, <3>1, <3>2, <3>3
  <2> QED
    BY <2>5, <2>6
<1>7. a \o b = d
  BY <1>3, <1>4, <1>5, <1>6, SameSeq
<1> QED
  BY <1>7 DEF a, b, d

------------------------------------------------------------------------------
(* The CTAPHID framing: Fragment and the assembler are inverse. *)

\* How much of a payload of n bytes the first k packets carry.
Reached(n, k) == AtMost(n, FirstSize + (k - 1) * NextSize)

\* An assembler that has accepted packets.
HidAccepted(ch, c, done, total, nextSeq, buffer) ==
  [channel |-> ch, command |-> c, started |-> TRUE, done |-> done, failed |-> FALSE,
   total |-> total, nextSeq |-> nextSeq, buffer |-> buffer]

HidStarted(ch, c, total, buffer, done) ==
  [NewAssembler(ch, c) EXCEPT !.started = TRUE, !.total = total, !.buffer = buffer, !.done = done]

HidGrown(a, nextSeq, buffer, done) ==
  [a EXCEPT !.nextSeq = nextSeq, !.buffer = buffer, !.done = done]

\* An assembler that has been given the first k packets.
HidHeld(ch, c, payload, k) ==
  IF k = 0 THEN NewAssembler(ch, c)
  ELSE HidAccepted(ch, c, Reached(Len(payload), k) >= Len(payload), Len(payload),
                   (k - 1) % Byte, SubSeq(payload, 1, Reached(Len(payload), k)))

\* The sizes of the reports' payloads: both are positive, and a continuation holds two
\* bytes more.
LEMMA HidSizes == FirstSize \in Nat \ {0} /\ NextSize \in Nat \ {0} /\ NextSize = FirstSize + 2
                  /\ reportSize - 4 = FirstSize + 3
BY WireAssumption, SMT DEF FirstSize, NextSize

\* A multiple, and the next one.
LEMMA Times ==
  ASSUME NEW i \in Nat, NEW x \in Nat
  PROVE  i * x \in Nat /\ (i + 1) * x = i * x + x
BY SMT

\* Multiples grow.
LEMMA TimesGrows ==
  ASSUME NEW i \in Nat, NEW j \in Nat, i <= j, NEW x \in Nat
  PROVE  i * x <= j * x
BY SMT

\* Division with remainder.
LEMMA DivMod ==
  ASSUME NEW m \in Nat, NEW x \in Nat \ {0}
  PROVE  m = x * (m \div x) + (m % x) /\ m % x \in 0..(x - 1) /\ m \div x \in Nat
BY SMT

\* The chunks of x that n needs.
LEMMA Chunks ==
  ASSUME NEW n \in Nat \ {0}, NEW x \in Nat \ {0}, NEW q, q = (n + x - 1) \div x
  PROVE  q \in Nat \ {0} /\ q * x >= n /\ (q - 1) * x < n
<1>1. q * x >= n /\ q * x < n + x /\ q \in Nat
  BY SMT
<1>2. q # 0
  BY <1>1, SMT
<1>3. q - 1 \in Nat /\ q * x = (q - 1) * x + x
  BY <1>1, <1>2, Times, SMT
<1>4. (q - 1) * x \in Nat /\ q * x \in Nat
  BY <1>1, <1>3, SMT
<1> QED
  BY <1>1, <1>2, <1>3, <1>4, SMT

\* Fragment sends as many continuation packets as the payload needs: together with the
\* first one they reach its end, and each of them begins before it.
LEMMA HidCount ==
  ASSUME NEW n \in Nat
  PROVE  /\ Continuations(n) \in Nat
         /\ FirstSize + Continuations(n) * NextSize >= n
         /\ \A k \in 1..Continuations(n) : FirstSize + (k - 1) * NextSize < n
<1> DEFINE C == Continuations(n)
<1>1. CASE n <= FirstSize
  BY <1>1, HidSizes, SMT DEF Continuations
<1>2. CASE n > FirstSize
  <2> DEFINE m == n - FirstSize
  <2>1. m \in Nat \ {0} /\ C = (m + NextSize - 1) \div NextSize
    BY <1>2, HidSizes, SMT DEF Continuations
  <2> HIDE DEF m, C
  <2>2. C \in Nat \ {0} /\ C * NextSize >= m /\ (C - 1) * NextSize < m
    BY <2>1, HidSizes, Chunks
  <2>3. ASSUME NEW k \in 1..C PROVE (k - 1) * NextSize < m
    <3>1. k - 1 \in Nat /\ C - 1 \in Nat /\ k - 1 <= C - 1 /\ NextSize \in Nat
      BY <2>2, HidSizes, SMT
    <3>2. (k - 1) * NextSize <= (C - 1) * NextSize
      BY <3>1, TimesGrows
    <3>3. (k - 1) * NextSize \in Nat /\ (C - 1) * NextSize \in Nat
      BY <3>1, SMT
    <3> QED
      BY <2>1, <2>2, <3>2, <3>3, SMT
  <2>4. FirstSize + C * NextSize >= n
    <3>1. C * NextSize \in Nat
      BY <2>2, HidSizes, SMT
    <3> QED
      BY <2>2, <3>1, HidSizes, SMT DEF m
  <2>5. ASSUME NEW k \in 1..C PROVE FirstSize + (k - 1) * NextSize < n
    <3>1. (k - 1) * NextSize \in Nat
      BY <2>2, HidSizes, SMT
    <3> QED
      BY <2>3, <3>1, HidSizes, SMT DEF m
  <2> QED
    BY <2>2, <2>4, <2>5 DEF C
<1> QED
  BY <1>1, <1>2, HidSizes, SMT

\* The packets of a payload.
LEMMA HidPackets ==
  ASSUME NEW ch, NEW c, NEW S, NEW p \in Seq(S)
  PROVE  /\ Len(Fragment(ch, c, p)) = 1 + Continuations(Len(p))
         /\ Fragment(ch, c, p)[1] = Initial(ch, c, p)
         /\ \A j \in 1..Continuations(Len(p)) :
              Fragment(ch, c, p)[j + 1] = Continuation(ch, p, j - 1)
<1>1. Continuations(Len(p)) \in Nat
  BY HidCount, SMT
<1> QED
  BY <1>1, SMT DEF Fragment

\* Padding keeps the bytes.
LEMMA Padded ==
  ASSUME NEW T, Nat \subseteq T, NEW s \in Seq(T), Len(s) <= reportSize - 4
  PROVE  /\ Pad(s) \in Seq(T) /\ Len(Pad(s)) = reportSize - 4
         /\ \A i \in 1..Len(s) : Pad(s)[i] = s[i]
<1>1. reportSize - 4 - Len(s) \in Nat
  BY WireAssumption, SMT
<1>2. /\ Zeros(reportSize - 4 - Len(s)) \in Seq(T)
      /\ Len(Zeros(reportSize - 4 - Len(s))) = reportSize - 4 - Len(s)
  BY <1>1, SMT DEF Zeros
<1>3. Pad(s) \in Seq(T)
  BY <1>2, Concatenation DEF Pad
<1>4. Len(Pad(s)) = reportSize - 4
  BY <1>1, <1>2, WireAssumption, SMT DEF Pad
<1>5. \A i \in 1..Len(s) : Pad(s)[i] = s[i]
  BY <1>2, SMT DEF Pad
<1> QED
  BY <1>3, <1>4, <1>5

\* The first n elements of a sequence.
LEMMA Prefix ==
  ASSUME NEW S, NEW s \in Seq(S), NEW n \in 0..Len(s)
  PROVE  /\ SubSeq(s, 1, n) \in Seq(S) /\ Len(SubSeq(s, 1, n)) = n
         /\ \A i \in 1..n : SubSeq(s, 1, n)[i] = s[i]
<1>1. SubSeq(s, 1, n) \in Seq(S)
  BY SMT
<1>2. Len(SubSeq(s, 1, n)) = n
  BY SMT
<1>3. \A i \in 1..n : SubSeq(s, 1, n)[i] = s[i]
  BY SMT
<1> QED
  BY <1>1, <1>2, <1>3

\* Part of a sequence.
LEMMA Part ==
  ASSUME NEW S, NEW s \in Seq(S), NEW m \in 1..(Len(s) + 1), NEW n \in (m - 1)..Len(s)
  PROVE  /\ SubSeq(s, m, n) \in Seq(S) /\ Len(SubSeq(s, m, n)) = n - m + 1
         /\ \A i \in 1..(n - m + 1) : SubSeq(s, m, n)[i] = s[m + i - 1]
<1>1. SubSeq(s, m, n) \in Seq(S)
  BY SMT
<1>2. Len(SubSeq(s, m, n)) = n - m + 1
  BY SMT
<1>3. \A i \in 1..(n - m + 1) : SubSeq(s, m, n)[i] = s[m + i - 1]
  BY SMT
<1> QED
  BY <1>1, <1>2, <1>3

\* What is put behind a header leaves it alone.
LEMMA HeaderKept ==
  ASSUME NEW T, NEW h \in Seq(T), NEW d \in Seq(T)
  PROVE  \A i \in 1..Len(h) : (h \o d)[i] = h[i]
BY SMT

\* The data of a packet is read back from behind its header h.
LEMMA DataBack ==
  ASSUME NEW T, Nat \subseteq T, NEW h \in Seq(T), NEW d \in Seq(T), Len(h) \in {1, 3},
         NEW left \in Nat, Len(d) = AtMost(left, reportSize - 4 - Len(h))
  PROVE  Data(Pad(h \o d), Len(h) + 1, left) = d
<1> DEFINE s == h \o d
           b == Pad(s)
<1>1. /\ s \in Seq(T) /\ Len(s) = Len(h) + Len(d)
      /\ \A i \in 1..Len(d) : s[Len(h) + i] = d[i]
  BY SMT
<1>2. Len(s) <= reportSize - 4 /\ Len(d) \in Nat
  BY <1>1, WireAssumption, SMT DEF AtMost
<1>3. b \in Seq(T) /\ Len(b) = reportSize - 4 /\ \A i \in 1..Len(s) : b[i] = s[i]
  BY <1>1, <1>2, Padded
<1> HIDE DEF s, b
<1>4. Data(b, Len(h) + 1, left) = SubSeq(b, Len(h) + 1, Len(h) + Len(d))
  BY <1>2, WireAssumption, SMTT(30) DEF Data
<1>5. Len(h) + 1 \in 1..(Len(b) + 1) /\ Len(h) + Len(d) \in ((Len(h) + 1) - 1)..Len(b)
  BY <1>1, <1>2, <1>3, WireAssumption, SMT
<1>6. /\ SubSeq(b, Len(h) + 1, Len(h) + Len(d)) \in Seq(T)
      /\ Len(SubSeq(b, Len(h) + 1, Len(h) + Len(d))) = Len(d)
      /\ \A i \in 1..Len(d) : SubSeq(b, Len(h) + 1, Len(h) + Len(d))[i] = d[i]
  <2> DEFINE m == Len(h) + 1
             n == Len(h) + Len(d)
             t == SubSeq(b, m, n)
  <2>1. n - m + 1 = Len(d) /\ m \in 1..(Len(b) + 1) /\ n \in (m - 1)..Len(b)
    BY <1>2, <1>5, SMT
  <2>2. ASSUME NEW i \in 1..Len(d) PROVE b[m + i - 1] = d[i]
    <3>1. m + i - 1 = Len(h) + i /\ Len(h) + i \in 1..Len(s)
      BY <1>1, <1>2, SMT
    <3>2. b[Len(h) + i] = s[Len(h) + i]
      BY <1>3, <3>1
    <3> QED
      BY <1>1, <3>1, <3>2
  <2> HIDE DEF m, n
  <2>3. t \in Seq(T) /\ Len(t) = n - m + 1 /\ \A i \in 1..(n - m + 1) : t[i] = b[m + i - 1]
    BY <1>3, <2>1, Part, SMT
  <2> HIDE DEF t
  <2>4. t \in Seq(T) /\ Len(t) = Len(d) /\ \A i \in 1..Len(d) : t[i] = d[i]
    BY <2>1, <2>2, <2>3
  <2> QED
    BY <2>4 DEF t, m, n
<1>7. SubSeq(b, Len(h) + 1, Len(h) + Len(d)) = d
  BY <1>6, SameSeq
<1> QED
  BY <1>4, <1>7 DEF b, s

\* The sequence number wraps.
LEMMA Wraps == ASSUME NEW k \in Nat, NEW b \in Nat \ {0} PROVE ((k % b) + 1) % b = (k + 1) % b
<1> DEFINE q == k \div b
           r == k % b
<1>1. k = b * q + r /\ r \in 0..(b - 1) /\ q \in Nat
  BY DivMod
<1> HIDE DEF q, r
<1>2. (b * q + (r + 1)) % b = (r + 1) % b
  BY <1>1, SMT
<1> QED
  BY <1>1, <1>2, SMT DEF r

\* The length field says the length.
LEMMA LengthField ==
  ASSUME NEW n \in Nat, Encodable(n)
  PROVE  (((n \div Byte) % Byte) * Byte) + (n % Byte) = n
<1>1. Byte \in Nat \ {0}
  BY WireAssumption, SMT
<1> DEFINE q == n \div Byte
           r == n % Byte
<1>2. n = Byte * q + r /\ r \in 0..(Byte - 1) /\ q \in Nat
  BY <1>1, DivMod
<1> HIDE DEF q, r
<1>3. q < Byte
  BY <1>1, <1>2, SMT DEF Encodable
<1>4. q % Byte = q
  BY <1>1, <1>2, <1>3, SMT
<1>5. q * Byte + r = n
  BY <1>1, <1>2, SMT
<1>6. (q % Byte) * Byte + r = n
  BY <1>4, <1>5
<1> QED
  BY <1>6 DEF q, r

\* An assembler is its fields.
LEMMA AssemblerIs ==
  ASSUME NEW ch, NEW c, NEW s, NEW d, NEW f, NEW t, NEW q, NEW b, NEW r,
         r \in [channel : {ch}, command : {c}, started : {s}, done : {d}, failed : {f},
                total : {t}, nextSeq : {q}, buffer : {b}]
  PROVE  r = [channel |-> ch, command |-> c, started |-> s, done |-> d, failed |-> f,
              total |-> t, nextSeq |-> q, buffer |-> b]
OBVIOUS

\* The assembler after an initialization packet.
LEMMA AssemblerStarted ==
  ASSUME NEW ch, NEW c, NEW t, NEW b, NEW d
  PROVE  HidStarted(ch, c, t, b, d) = HidAccepted(ch, c, d, t, 0, b)
<1> DEFINE yes == TRUE
           no == FALSE
           r == [[channel |-> ch, command |-> c, started |-> no, done |-> no, failed |-> no,
                  total |-> 0, nextSeq |-> 0, buffer |-> <<>>]
                 EXCEPT !.started = yes, !.total = t, !.buffer = b, !.done = d]
<1>1. [NewAssembler(ch, c) EXCEPT !.started = TRUE, !.total = t, !.buffer = b, !.done = d] = r
  BY DEF NewAssembler
<1> HIDE DEF yes, no
<1>2. r \in [channel : {ch}, command : {c}, started : {yes}, done : {d}, failed : {no},
             total : {t}, nextSeq : {0}, buffer : {b}]
  OBVIOUS
<1> HIDE DEF r
<1>3. r = [channel |-> ch, command |-> c, started |-> yes, done |-> d, failed |-> no,
           total |-> t, nextSeq |-> 0, buffer |-> b]
  BY <1>2, AssemblerIs
<1> QED
  BY <1>1, <1>3 DEF yes, no, HidAccepted, HidStarted, HidGrown

\* The assembler after a continuation packet.
LEMMA AssemblerGrown ==
  ASSUME NEW ch, NEW c, NEW t, NEW q, NEW b, NEW e, NEW q2, NEW b2, NEW d2, NEW a,
         a = HidAccepted(ch, c, e, t, q, b)
  PROVE  HidGrown(a, q2, b2, d2) = HidAccepted(ch, c, d2, t, q2, b2)
<1> DEFINE yes == TRUE
           no == FALSE
           r == [[channel |-> ch, command |-> c, started |-> yes, done |-> e, failed |-> no,
                  total |-> t, nextSeq |-> q, buffer |-> b]
                 EXCEPT !.nextSeq = q2, !.buffer = b2, !.done = d2]
<1>1. [a EXCEPT !.nextSeq = q2, !.buffer = b2, !.done = d2] = r
  BY DEF HidAccepted
<1> HIDE DEF yes, no
<1>2. r \in [channel : {ch}, command : {c}, started : {yes}, done : {d2}, failed : {no},
             total : {t}, nextSeq : {q2}, buffer : {b2}]
  OBVIOUS
<1> HIDE DEF r
<1>3. r = [channel |-> ch, command |-> c, started |-> yes, done |-> d2, failed |-> no,
           total |-> t, nextSeq |-> q2, buffer |-> b2]
  BY <1>2, AssemblerIs
<1> QED
  BY <1>1, <1>3 DEF yes, no, HidAccepted, HidStarted, HidGrown

\* A first packet starts the assembler of its command.
LEMMA HidAddFirst ==
  ASSUME NEW S, NEW p \in Seq(S), NEW ch, NEW c, Encodable(Len(p))
  PROVE  /\ Add(NewAssembler(ch, c), Initial(ch, c, p)) = HidHeld(ch, c, p, 1)
         /\ Initial(ch, c, p).channel = ch /\ Initial(ch, c, p).body[1] = c
<1> DEFINE T == S \cup Nat \cup {c}
           n == Len(p)
           h == <<c, (n \div Byte) % Byte, n % Byte>>
           d == SubSeq(p, 1, AtMost(n, FirstSize))
           b == Pad(h \o d)
           z == Reached(n, 1) >= n
<1>1. n \in Nat /\ Nat \subseteq T /\ p \in Seq(T)
  BY WiderSeq, SMT
<1>2. (n \div Byte) % Byte \in Nat /\ n % Byte \in Nat
  BY <1>1, WireAssumption, SMT
<1>3. h \in Seq(T) /\ Len(h) = 3
  BY <1>2, SMT
<1>4. AtMost(n, FirstSize) \in 0..n /\ AtMost(n, FirstSize) = AtMost(n, reportSize - 4 - Len(h))
  BY <1>1, <1>3, HidSizes, WireAssumption, SMT DEF AtMost, FirstSize
<1>5. d \in Seq(T) /\ Len(d) = AtMost(n, FirstSize)
  BY <1>1, <1>4, Prefix
<1>6. Data(b, 4, n) = d
  <2> HIDE DEF h, d, T
  <2>1. Data(b, Len(h) + 1, n) = d
    BY <1>1, <1>3, <1>4, <1>5, DataBack
  <2> QED
    BY <1>3, <2>1, SMT
<1>7. Len(b) = reportSize - 4 /\ b[1] = h[1] /\ b[2] = h[2] /\ b[3] = h[3]
  <2> HIDE DEF h, d, T
  <2>1. h \o d \in Seq(T) /\ Len(h \o d) = 3 + Len(d) /\ Len(d) \in Nat
        /\ \A i \in 1..Len(h) : (h \o d)[i] = h[i]
    <3>1. Len(d) \in Nat
      BY <1>5, SMT
    <3>2. h \o d \in Seq(T) /\ Len(h \o d) = Len(h) + Len(d)
      BY <1>3, <1>5, Concatenation
    <3>3. \A i \in 1..Len(h) : (h \o d)[i] = h[i]
      BY <1>3, <1>5, HeaderKept
    <3> QED
      BY <1>3, <3>1, <3>2, <3>3
  <2>2. Len(h \o d) <= reportSize - 4
    BY <1>3, <1>4, <1>5, <2>1, WireAssumption, SMT DEF AtMost
  <2>3. Len(b) = reportSize - 4 /\ \A i \in 1..Len(h \o d) : b[i] = (h \o d)[i]
    BY <1>1, <2>1, <2>2, Padded
  <2>4. /\ 1 \in 1..Len(h \o d) /\ 2 \in 1..Len(h \o d) /\ 3 \in 1..Len(h \o d)
        /\ 1 \in 1..Len(h) /\ 2 \in 1..Len(h) /\ 3 \in 1..Len(h)
    BY <1>3, <2>1, SMT
  <2> QED
    BY <2>1, <2>3, <2>4, SMT
<1>8. b[2] * Byte + b[3] = n /\ b[1] = c
  <2> DEFINE u == (n \div Byte) % Byte
             v == n % Byte
  <2>1. b[2] = u /\ b[3] = v /\ b[1] = c
    BY <1>7
  <2>2. u * Byte + v = n
    BY <1>1, LengthField, WireAssumption
  <2> HIDE DEF b, u, v, n
  <2> QED
    BY <2>1, <2>2
<1>9. Reached(n, 1) = AtMost(n, FirstSize)
  BY HidSizes, SMT DEF Reached
<1>10. Initial(ch, c, p) = [channel |-> ch, body |-> b]
  BY DEF Initial
<1> HIDE DEF b, h, T
<1>11. Add(NewAssembler(ch, c), Initial(ch, c, p)) = AddInitial(NewAssembler(ch, c), b)
  BY <1>7, <1>10, SMT DEF Add, NewAssembler
<1>12. AddInitial(NewAssembler(ch, c), b)
         = HidStarted(ch, c, n, d, Complete(Len(d), n))
  <2>1. NewAssembler(ch, c).command = c
    BY DEF NewAssembler
  <2> QED
    BY <1>6, <1>8, <2>1 DEF AddInitial, HidStarted
<1>13. Complete(Len(d), n) = z
  BY <1>5, <1>9 DEF Complete, z
<1>14. d = SubSeq(p, 1, Reached(n, 1)) /\ (1 - 1) % Byte = 0 /\ 1 # 0
  <2>1. (1 - 1) % Byte = 0
    BY WireAssumption, SMT
  <2>2. d = SubSeq(p, 1, Reached(n, 1))
    BY <1>9
  <2>3. 1 # 0
    BY SMT
  <2> QED
    BY <2>1, <2>2, <2>3
<1> HIDE DEF d
<1>15. HidHeld(ch, c, p, 1) = HidAccepted(ch, c, z, n, 0, d)
  BY <1>14 DEF HidHeld, z
<1> HIDE DEF z
<1>16. HidStarted(ch, c, n, d, z) = HidAccepted(ch, c, z, n, 0, d)
  BY AssemblerStarted
<1>17. Add(NewAssembler(ch, c), Initial(ch, c, p)) = HidHeld(ch, c, p, 1)
  BY <1>11, <1>12, <1>13, <1>15, <1>16
<1> QED
  BY <1>8, <1>10, <1>17, SMT

\* The packet with index k takes the assembler on.
HidTakesNext(ch, c, p, k) ==
  /\ Add(HidHeld(ch, c, p, k), Continuation(ch, p, k - 1)) = HidHeld(ch, c, p, k + 1)
  /\ Continuation(ch, p, k - 1).channel = ch

\* A further packet takes the assembler on.
LEMMA HidAddNext ==
  ASSUME NEW S, NEW p \in Seq(S), NEW ch, NEW c, NEW k \in 1..Continuations(Len(p))
  PROVE  /\ HidTakesNext(ch, c, p, k)
         /\ HidHeld(ch, c, p, k).done = FALSE
<1> DEFINE T == S \cup Nat
           n == Len(p)
           x == (k - 1) * NextSize
           from == FirstSize + x
           to == AtMost(n, from + NextSize)
           h == <<(k - 1) % Byte>>
           d == SubSeq(p, from + 1, to)
           b == Pad(h \o d)
           a == HidHeld(ch, c, p, k)
           z == to >= n
<1>1. n \in Nat /\ Nat \subseteq T /\ p \in Seq(T) /\ Continuations(n) \in Nat
  <2>1. n \in Nat /\ Nat \subseteq T
    BY SMT
  <2>2. p \in Seq(T)
    BY WiderSeq
  <2> QED
    BY <2>1, <2>2, HidCount
<1>2. x \in Nat /\ k * NextSize = x + NextSize
  <2>1. k - 1 \in Nat /\ NextSize \in Nat /\ (k - 1) + 1 = k
    BY <1>1, HidSizes, SMT
  <2> QED
    BY <2>1, Times
<1>3. from \in Nat /\ from < n
  BY <1>1, <1>2, HidSizes, HidCount, SMT
<1>a. /\ Reached(n, k) = from /\ (from >= n) = FALSE /\ Reached(n, k + 1) = to
  <2>1. Reached(n, k) = from
    BY <1>1, <1>3, SMT DEF Reached, AtMost
  <2>2. (k + 1) - 1 = k /\ FirstSize + k * NextSize = from + NextSize
    BY <1>1, <1>2, HidSizes, SMT
  <2>3. Reached(n, k + 1) = to
    BY <2>2 DEF Reached
  <2> QED
    BY <1>1, <1>3, <2>1, <2>3, SMT
<1> HIDE DEF x
<1>4. (k - 1) % Byte \in Nat /\ k - 1 \in Nat
  BY <1>1, WireAssumption, SMT
<1>5. h \in Seq(T) /\ Len(h) = 1
  BY <1>4, SMT
<1>6. /\ to \in Nat /\ from + 1 \in 1..(n + 1) /\ to \in ((from + 1) - 1)..n
      /\ to - from = AtMost(n - from, reportSize - 4 - Len(h)) /\ n - from \in Nat /\ to >= from
  <2>1. reportSize - 4 - Len(h) = NextSize /\ NextSize \in Nat
    BY <1>5, HidSizes, SMT
  <2> HIDE DEF from, h, n
  <2> QED
    BY <1>1, <1>3, <2>1, SMT DEF AtMost
<1> HIDE DEF from, to, T
<1>7. d \in Seq(T) /\ Len(d) = to - from
  <2>1. d \in Seq(T) /\ Len(d) = to - (from + 1) + 1
    BY <1>1, <1>6, Part
  <2> QED
    BY <1>3, <1>6, <2>1, SMT
<1>8. Data(b, 2, n - from) = d
  <2> HIDE DEF h, d
  <2>1. Data(b, Len(h) + 1, n - from) = d
    BY <1>1, <1>5, <1>6, <1>7, DataBack
  <2> QED
    BY <1>5, <2>1, SMT
<1>9. Len(b) = reportSize - 4 /\ b[1] = h[1]
  <2> HIDE DEF h, d
  <2>1. h \o d \in Seq(T) /\ Len(h \o d) = 1 + Len(d) /\ Len(d) \in Nat
        /\ (h \o d)[1] = h[1]
    <3>1. Len(d) \in Nat
      BY <1>7, SMT
    <3>2. h \o d \in Seq(T) /\ Len(h \o d) = Len(h) + Len(d)
      BY <1>5, <1>7, Concatenation
    <3>3. \A i \in 1..Len(h) : (h \o d)[i] = h[i]
      BY <1>5, <1>7, HeaderKept
    <3> QED
      BY <1>5, <3>1, <3>2, <3>3, SMT
  <2>2. Len(h \o d) <= reportSize - 4
    BY <1>5, <1>6, <1>7, <2>1, WireAssumption, SMTT(30) DEF AtMost
  <2>3. Len(b) = reportSize - 4 /\ \A i \in 1..Len(h \o d) : b[i] = (h \o d)[i]
    BY <1>1, <2>1, <2>2, Padded
  <2> QED
    BY <2>1, <2>3, SMT
<1>10. b[1] = (k - 1) % Byte
  BY <1>9
<1>11. Continuation(ch, p, k - 1) = [channel |-> ch, body |-> b]
  BY DEF Continuation, from, to, x
<1> HIDE DEF b, h
<1>12. a = HidAccepted(ch, c, FALSE, n, (k - 1) % Byte, SubSeq(p, 1, from))
  <2>1. k # 0
    BY <1>1, SMT
  <2> QED
    BY <1>a, <2>1 DEF HidHeld
<1> HIDE DEF a
<1>13. Len(SubSeq(p, 1, from)) = from
  BY <1>1, <1>3, Prefix, SMT
<1>14. SubSeq(p, 1, from) \o d = SubSeq(p, 1, to)
  <2>1. 1 \in 1..(Len(p) + 1) /\ from \in (1 - 1)..Len(p) /\ to \in from..Len(p)
    BY <1>1, <1>3, <1>6, SMT
  <2> QED
    BY <2>1, Adjacent
<1>15. Len(SubSeq(p, 1, to)) = to
  BY <1>1, <1>6, Prefix, SMT
<1>16. Add(a, Continuation(ch, p, k - 1)) = AddContinuation(a, b)
  BY <1>9, <1>11, <1>12, SMT DEF Add, HidAccepted
<1>17. AddContinuation(a, b)
         = HidGrown(a, (((k - 1) % Byte) + 1) % Byte, SubSeq(p, 1, to), Complete(to, n))
  <2>1. InSequence(a, b)
    BY <1>10, <1>12 DEF InSequence, HidAccepted
  <2>2. a.buffer \o Data(b, 2, a.total - Len(a.buffer)) = SubSeq(p, 1, to)
    BY <1>8, <1>12, <1>13, <1>14 DEF HidAccepted
  <2>3. a.total = n /\ a.nextSeq = (k - 1) % Byte
    BY <1>12 DEF HidAccepted
  <2> QED
    BY <1>15, <2>1, <2>2, <2>3 DEF AddContinuation, HidGrown
<1>18. (((k - 1) % Byte) + 1) % Byte = ((k + 1) - 1) % Byte
  <2>1. Byte \in Nat \ {0} /\ (k - 1) + 1 = (k + 1) - 1
    BY WireAssumption, SMT
  <2> QED
    BY <1>4, <2>1, Wraps
<1>19. HidHeld(ch, c, p, k + 1) = HidAccepted(ch, c, z, n, ((k + 1) - 1) % Byte, SubSeq(p, 1, to))
  <2>1. k + 1 # 0
    BY <1>1, SMT
  <2> QED
    BY <1>a, <2>1 DEF HidHeld, z
<1> HIDE DEF z
<1>20. HidGrown(a, ((k + 1) - 1) % Byte, SubSeq(p, 1, to), z)
         = HidAccepted(ch, c, z, n, ((k + 1) - 1) % Byte, SubSeq(p, 1, to))
  <2> DEFINE no == FALSE
  <2>1. a = HidAccepted(ch, c, no, n, (k - 1) % Byte, SubSeq(p, 1, from))
    BY <1>12
  <2> HIDE DEF no
  <2> QED
    BY <2>1, AssemblerGrown, SMT
<1>21. Add(a, Continuation(ch, p, k - 1)) = HidHeld(ch, c, p, k + 1)
  <2>1. Complete(to, n) = z
    BY DEF Complete, z
  <2> QED
    BY <1>16, <1>17, <1>18, <1>19, <1>20, <2>1
<1>22. HidTakesNext(ch, c, p, k)
  BY <1>11, <1>21, SMT DEF a, HidTakesNext
<1> QED
  BY <1>12, <1>22, SMT DEF a, HidAccepted

\* What is left of a sequence after k elements.
Rest(s, k) == SubSeq(s, k + 1, Len(s))

\* A queue that holds the rest of a sequence: its head is the next element, and taking
\* it leaves the rest after one more.
LEMMA RestTaken ==
  ASSUME NEW T, NEW s \in Seq(T), NEW k \in Nat, k < Len(s)
  PROVE  /\ Rest(s, k) # <<>> /\ Head(Rest(s, k)) = s[k + 1]
         /\ Tail(Rest(s, k)) = Rest(s, k + 1)
<1> DEFINE r == Rest(s, k)
           t == Rest(s, k + 1)
<1>1. Len(s) \in Nat /\ k + 1 \in 1..(Len(s) + 1) /\ Len(s) \in ((k + 1) - 1)..Len(s)
      /\ (k + 1) + 1 \in 1..(Len(s) + 1) /\ Len(s) \in (((k + 1) + 1) - 1)..Len(s)
  BY SMT
<1>2. /\ r \in Seq(T) /\ Len(r) = Len(s) - (k + 1) + 1
      /\ \A i \in 1..(Len(s) - (k + 1) + 1) : r[i] = s[(k + 1) + i - 1]
  BY <1>1, Part DEF Rest
<1>3. /\ t \in Seq(T) /\ Len(t) = Len(s) - ((k + 1) + 1) + 1
      /\ \A i \in 1..(Len(s) - ((k + 1) + 1) + 1) : t[i] = s[((k + 1) + 1) + i - 1]
  BY <1>1, Part DEF Rest
<1> HIDE DEF r, t
<1>4. Len(r) = Len(s) - k /\ Len(t) = Len(s) - k - 1 /\ Len(r) > 0
  BY <1>1, <1>2, <1>3, SMT
<1>5. r # <<>>
  BY <1>4, SMT
<1>6. Head(r) = r[1] /\ r[1] = s[k + 1]
  BY <1>1, <1>2, <1>4, <1>5, SMT
<1>7. /\ Tail(r) \in Seq(T) /\ Len(Tail(r)) = Len(r) - 1
      /\ \A i \in 1..(Len(r) - 1) : Tail(r)[i] = r[i + 1]
  BY <1>2, <1>5, HeadAndTail
<1>8. ASSUME NEW i \in 1..Len(t) PROVE Tail(r)[i] = t[i]
  <2>1. i \in 1..(Len(r) - 1) /\ i + 1 \in 1..(Len(s) - (k + 1) + 1)
        /\ i \in 1..(Len(s) - ((k + 1) + 1) + 1) /\ (k + 1) + (i + 1) - 1 = ((k + 1) + 1) + i - 1
    BY <1>1, <1>4, SMT
  <2> QED
    BY <2>1, <1>2, <1>3, <1>7
<1>9. Tail(r) = t
  BY <1>3, <1>4, <1>7, <1>8, SameSeq
<1> QED
  BY <1>5, <1>6, <1>9 DEF r, t

\* Nothing taken, and everything taken.
LEMMA RestEnds ==
  ASSUME NEW T, NEW s \in Seq(T)
  PROVE  Rest(s, 0) = s /\ Rest(s, Len(s)) = <<>>
<1>1. Rest(s, Len(s)) = <<>>
  BY SMT DEF Rest
<1>2. 0 + 1 \in 1..(Len(s) + 1) /\ Len(s) \in ((0 + 1) - 1)..Len(s)
  BY SMT
<1>3. /\ Rest(s, 0) \in Seq(T) /\ Len(Rest(s, 0)) = Len(s) - (0 + 1) + 1
      /\ \A i \in 1..(Len(s) - (0 + 1) + 1) : Rest(s, 0)[i] = s[(0 + 1) + i - 1]
  BY <1>2, Part DEF Rest
<1>4. Rest(s, 0) = s
  BY <1>3, SameSeq, SMT
<1> QED
  BY <1>1, <1>4

\* The packets of a payload, as a set.
HidPacketsOf(ch, c, p) ==
  {Initial(ch, c, p)} \cup {Continuation(ch, p, i - 1) : i \in 1..Continuations(Len(p))}

\* Fragment produces a sequence of them.
LEMMA HidFragmentTyped ==
  ASSUME NEW ch, NEW c, NEW S, NEW p \in Seq(S)
  PROVE  Fragment(ch, c, p) \in Seq(HidPacketsOf(ch, c, p))
<1> DEFINE T == HidPacketsOf(ch, c, p)
           C == Continuations(Len(p))
           f == [i \in 1..C |-> Continuation(ch, p, i - 1)]
<1>1. C \in Nat
  BY HidCount, SMT
<1>2. \A i \in 1..C : Continuation(ch, p, i - 1) \in T
  BY DEF HidPacketsOf
<1>3. Initial(ch, c, p) \in T
  BY DEF HidPacketsOf
<1> HIDE DEF T, C
<1>4. f \in Seq(T)
  BY <1>1, <1>2, SMT
<1>5. <<Initial(ch, c, p)>> \in Seq(T)
  BY <1>3, SMT
<1>6. <<Initial(ch, c, p)>> \o f \in Seq(T)
  BY <1>4, <1>5, Concatenation
<1> QED
  BY <1>6 DEF Fragment, T, C

\* Adding the packets of a payload one after the other reproduces it: after k of them the
\* Assembler holds what k packets carry, it has not failed, and it is done with the last
\* one and not before.
LEMMA HidStep ==
  ASSUME NEW S, NEW p \in Seq(S), NEW ch, NEW c, Encodable(Len(p)),
         NEW k \in Nat, k < Len(Fragment(ch, c, p))
  PROVE  /\ Fragment(ch, c, p)[k + 1].channel = ch
         /\ Add(HidHeld(ch, c, p, k), Fragment(ch, c, p)[k + 1]) = HidHeld(ch, c, p, k + 1)
<1>1. Len(Fragment(ch, c, p)) = 1 + Continuations(Len(p)) /\ Continuations(Len(p)) \in Nat
      /\ Fragment(ch, c, p)[1] = Initial(ch, c, p)
      /\ \A j \in 1..Continuations(Len(p)) :
           Fragment(ch, c, p)[j + 1] = Continuation(ch, p, j - 1)
  BY HidPackets, HidCount, SMT
<1>2. CASE k = 0
  <2>1. /\ Fragment(ch, c, p)[k + 1] = Initial(ch, c, p)
        /\ HidHeld(ch, c, p, k + 1) = HidHeld(ch, c, p, 1)
    BY <1>1, <1>2, SMT
  <2>2. HidHeld(ch, c, p, k) = NewAssembler(ch, c)
    BY <1>2 DEF HidHeld
  <2>3. /\ Add(NewAssembler(ch, c), Initial(ch, c, p)) = HidHeld(ch, c, p, 1)
        /\ Initial(ch, c, p).channel = ch
    BY HidAddFirst, SMT
  <2> QED
    BY <2>1, <2>2, <2>3
<1>3. CASE k # 0
  <2>1. k \in 1..Continuations(Len(p))
    BY <1>1, <1>3, SMT
  <2>2. Fragment(ch, c, p)[k + 1] = Continuation(ch, p, k - 1)
    BY <1>1, <2>1
  <2>3. HidTakesNext(ch, c, p, k)
    BY <2>1, HidAddNext
  <2> QED
    BY <2>2, <2>3 DEF HidTakesNext
<1> QED
  BY <1>2, <1>3

\* What the Assembler shows after k packets of a payload.
HidShows(ch, c, p, k) ==
  /\ HidHeld(ch, c, p, k).failed = FALSE
  /\ k < Len(Fragment(ch, c, p)) => HidHeld(ch, c, p, k).done = FALSE
  /\ k = Len(Fragment(ch, c, p)) =>
       HidHeld(ch, c, p, k).done = TRUE /\ HidHeld(ch, c, p, k).buffer = p

\* See HidStep.
LEMMA HidHolds ==
  ASSUME NEW S, NEW p \in Seq(S), NEW ch, NEW c,
         NEW k \in Nat, k <= Len(Fragment(ch, c, p))
  PROVE  HidShows(ch, c, p, k)
<1> DEFINE C == Continuations(Len(p))
<1>1. Len(Fragment(ch, c, p)) = 1 + C /\ C \in Nat /\ Len(p) \in Nat
  BY HidPackets, HidCount, SMT
<1>2. HidHeld(ch, c, p, k).failed = FALSE
  BY DEF HidHeld, NewAssembler, HidAccepted
<1>3. ASSUME k < Len(Fragment(ch, c, p)) PROVE HidHeld(ch, c, p, k).done = FALSE
  <2>1. CASE k = 0
    BY <2>1 DEF HidHeld, NewAssembler
  <2>2. CASE k # 0
    <3>1. k \in 1..C
      BY <1>1, <1>3, <2>2, SMT
    <3> QED
      BY <3>1, HidAddNext
  <2> QED
    BY <2>1, <2>2
<1>4. ASSUME k = Len(Fragment(ch, c, p))
      PROVE  HidHeld(ch, c, p, k).done = TRUE /\ HidHeld(ch, c, p, k).buffer = p
  <2>1. k = 1 + C /\ k # 0 /\ k - 1 = C
    BY <1>1, <1>4, SMT
  <2>2. Reached(Len(p), k) = Len(p)
    <3>1. FirstSize + C * NextSize >= Len(p)
      BY <1>1, HidCount
    <3>2. C * NextSize \in Nat
      BY <1>1, HidSizes, SMT
    <3> DEFINE x == C * NextSize
    <3>3. Reached(Len(p), k) = AtMost(Len(p), FirstSize + x)
      BY <2>1 DEF Reached
    <3> HIDE DEF x
    <3>4. x \in Nat /\ FirstSize + x >= Len(p)
      BY <3>1, <3>2 DEF x
    <3> QED
      BY <1>1, <3>3, <3>4, HidSizes, SMT DEF AtMost
  <2>3. SubSeq(p, 1, Len(p)) = p
    <3>1. /\ SubSeq(p, 1, Len(p)) \in Seq(S) /\ Len(SubSeq(p, 1, Len(p))) = Len(p)
          /\ \A i \in 1..Len(p) : SubSeq(p, 1, Len(p))[i] = p[i]
      BY <1>1, Prefix, SMT
    <3> QED
      BY <3>1, SameSeq
  <2>4. (Reached(Len(p), k) >= Len(p)) = TRUE
    BY <1>1, <2>2, SMT
  <2>5. HidHeld(ch, c, p, k) = HidAccepted(ch, c, TRUE, Len(p), (k - 1) % Byte, p)
    BY <2>1, <2>2, <2>3, <2>4 DEF HidHeld
  <2> QED
    BY <2>5, SMT DEF HidAccepted
<1> QED
  BY <1>2, <1>3, <1>4 DEF HidShows

------------------------------------------------------------------------------
(* The BLE framing. *)

\* How much of a payload of n bytes the first k fragments carry.
BleReached(n, k) == bleMin(n, (mtu - 2) + (k - 1) * mtu)

\* The number of fragments behind the first one.
BleMore(n) == bleFragmentsAfter(n - bleMin(n, mtu - 2))

BleStarted(total, buffer, done) ==
  [started |-> TRUE, total |-> total, buffer |-> buffer, done |-> done, failed |-> FALSE]

BleGrown(a, total, buffer, done) ==
  [a EXCEPT !.started = TRUE, !.total = total, !.buffer = buffer, !.done = done]

\* An assembler that has been given the first k fragments.
BleHeld(p, k) ==
  IF k = 0 THEN bleAssembler
  ELSE BleStarted(Len(p), SubSeq(p, 1, BleReached(Len(p), k)), BleReached(Len(p), k) >= Len(p))

\* The fragments cover the payload, and each of them carries some of it.
LEMMA BleCount ==
  ASSUME NEW n \in Nat
  PROVE  /\ BleMore(n) \in Nat
         /\ (mtu - 2) + BleMore(n) * mtu >= n
         /\ \A k \in 1..BleMore(n) : (mtu - 2) + (k - 1) * mtu < n
<1> DEFINE C == BleMore(n)
<1>1. CASE n <= mtu - 2
  <2>1. n - bleMin(n, mtu - 2) = 0
    BY <1>1, BleAssumption, SMT DEF bleMin
  <2>2. (0 + mtu - 1) \div mtu = 0
    BY BleAssumption, SMT
  <2>3. C = 0
    BY <2>1, <2>2 DEF BleMore, bleFragmentsAfter
  <2> QED
    BY <1>1, <2>3, BleAssumption, SMT
<1>2. CASE n > mtu - 2
  <2> DEFINE m == n - (mtu - 2)
  <2>1. m \in Nat \ {0} /\ C = (m + mtu - 1) \div mtu
    BY <1>2, BleAssumption, SMT DEF BleMore, bleFragmentsAfter, bleMin
  <2>a. n = m + (mtu - 2) /\ mtu \in Nat \ {0}
    BY BleAssumption, SMT
  <2> HIDE DEF m, C
  <2>2. C \in Nat \ {0} /\ C * mtu >= m /\ (C - 1) * mtu < m
    BY <2>1, <2>a, Chunks
  <2>3. ASSUME NEW k \in 1..C PROVE (mtu - 2) + (k - 1) * mtu < n
    <3>1. k - 1 \in Nat /\ C - 1 \in Nat /\ k - 1 <= C - 1 /\ mtu \in Nat
      BY <2>2, <2>a, SMT
    <3>2. (k - 1) * mtu <= (C - 1) * mtu
      BY <3>1, TimesGrows
    <3>3. (k - 1) * mtu \in Nat /\ (C - 1) * mtu \in Nat
      BY <3>1, SMT
    <3> QED
      BY <2>1, <2>2, <2>a, <3>2, <3>3, SMT
  <2>4. C * mtu \in Nat
    BY <2>2, <2>a, SMT
  <2>5. (mtu - 2) + C * mtu >= n
    BY <2>1, <2>2, <2>a, <2>4, SMT
  <2> QED
    BY <2>2, <2>3, <2>5 DEF C
<1> QED
  BY <1>1, <1>2, BleAssumption, SMT

\* The first fragment.
BleFirst(p) == [total |-> Len(p), bytes |-> bleLength \o SubSeq(p, 1, bleMin(Len(p), mtu - 2))]

\* The k-th fragment behind it.
BleNext(p, k) ==
  [total |-> maxTotal,
   bytes |-> SubSeq(p, bleMin(Len(p), mtu - 2) + (k - 1) * mtu + 1,
                    bleMin(Len(p), bleMin(Len(p), mtu - 2) + k * mtu))]

\* The fragments of a payload, as a set.
BleFragmentsOf(p) == {BleFirst(p)} \cup {BleNext(p, k) : k \in 1..BleMore(Len(p))}

\* Fragment one by one.
LEMMA BlePackets ==
  ASSUME NEW S, NEW p \in Seq(S)
  PROVE  /\ bleFragment(p) \in Seq(BleFragmentsOf(p))
         /\ Len(bleFragment(p)) = 1 + BleMore(Len(p))
         /\ bleFragment(p)[1] = BleFirst(p)
         /\ \A k \in 1..BleMore(Len(p)) : bleFragment(p)[k + 1] = BleNext(p, k)
<1> DEFINE C == BleMore(Len(p))
           T == BleFragmentsOf(p)
           f == [k \in 1..C |-> BleNext(p, k)]
<1>1. C \in Nat
  BY BleCount, SMT
<1>2. bleFragment(p) = <<BleFirst(p)>> \o f
  BY DEF bleFragment, BleMore, BleFirst, BleNext
<1>3. BleFirst(p) \in T /\ \A k \in 1..C : BleNext(p, k) \in T
  BY DEF BleFragmentsOf
<1> HIDE DEF C, T
<1>4. f \in Seq(T) /\ Len(f) = C /\ \A k \in 1..C : f[k] = BleNext(p, k)
  BY <1>1, <1>3, SMT
<1>5. <<BleFirst(p)>> \in Seq(T) /\ Len(<<BleFirst(p)>>) = 1 /\ <<BleFirst(p)>>[1] = BleFirst(p)
  BY <1>3, SMT
<1> DEFINE g == <<BleFirst(p)>>
<1> HIDE DEF f, g
<1>6. /\ g \o f \in Seq(T) /\ Len(g \o f) = Len(g) + Len(f)
      /\ \A i \in 1..(Len(g) + Len(f)) :
           (g \o f)[i] = IF i <= Len(g) THEN g[i] ELSE f[i - Len(g)]
  BY <1>4, <1>5, Concatenation DEF g
<1>7. (g \o f)[1] = BleFirst(p)
  BY <1>1, <1>4, <1>5, <1>6, SMT DEF g
<1>8. ASSUME NEW k \in 1..C PROVE (g \o f)[k + 1] = BleNext(p, k)
  BY <1>1, <1>4, <1>5, <1>6, SMT DEF g
<1> QED
  BY <1>1, <1>2, <1>4, <1>5, <1>6, <1>7, <1>8 DEF C, T, g

\* An assembler is its fields.
LEMMA BleAssemblerIs ==
  ASSUME NEW s, NEW t, NEW b, NEW d, NEW f, NEW r,
         r \in [started : {s}, total : {t}, buffer : {b}, done : {d}, failed : {f}]
  PROVE  r = [started |-> s, total |-> t, buffer |-> b, done |-> d, failed |-> f]
OBVIOUS

\* Add changes four fields, whatever they were.
LEMMA BleGrownIs ==
  ASSUME NEW s, NEW t, NEW b, NEW e, NEW t2, NEW b2, NEW d2, NEW a,
         a = [started |-> s, total |-> t, buffer |-> b, done |-> e, failed |-> FALSE]
  PROVE  BleGrown(a, t2, b2, d2) = BleStarted(t2, b2, d2)
<1> DEFINE yes == TRUE
           no == FALSE
           r == [[started |-> s, total |-> t, buffer |-> b, done |-> e, failed |-> no]
                 EXCEPT !.started = yes, !.total = t2, !.buffer = b2, !.done = d2]
<1>1. BleGrown(a, t2, b2, d2) = r
  BY DEF BleGrown
<1> HIDE DEF yes, no
<1>2. r \in [started : {yes}, total : {t2}, buffer : {b2}, done : {d2}, failed : {no}]
  OBVIOUS
<1> HIDE DEF r
<1>3. r = [started |-> yes, total |-> t2, buffer |-> b2, done |-> d2, failed |-> no]
  BY <1>2, BleAssemblerIs
<1> QED
  BY <1>1, <1>3 DEF yes, no, BleStarted

\* The whole of a sequence.
LEMMA Whole ==
  ASSUME NEW S, NEW s \in Seq(S)
  PROVE  SubSeq(s, 1, Len(s)) = s
<1>1. /\ SubSeq(s, 1, Len(s)) \in Seq(S) /\ Len(SubSeq(s, 1, Len(s))) = Len(s)
      /\ \A i \in 1..Len(s) : SubSeq(s, 1, Len(s))[i] = s[i]
  BY Prefix, SMT
<1> QED
  BY <1>1, SameSeq

\* The length goes before the data, and comes off again.
LEMMA BleHead ==
  ASSUME NEW S, NEW d \in Seq(S)
  PROVE  /\ Len(bleLength \o d) = 2 + Len(d)
         /\ SubSeq(bleLength \o d, 3, Len(bleLength \o d)) = d
<1> DEFINE T == S \cup {<<0>>, <<1>>}
           h == bleLength
           w == h \o d
<1>1. h \in Seq(T) /\ Len(h) = 2
  <2> DEFINE x == <<0>>
             y == <<1>>
  <2>1. bleLength = <<x, y>> /\ x \in T /\ y \in T
    BY DEF bleLength
  <2> HIDE DEF x, y, T
  <2> QED
    BY <2>1, SMT
<1> HIDE DEF h, T
<1>2. d \in Seq(T)
  BY WiderSeq DEF T
<1>3. /\ w \in Seq(T) /\ Len(w) = Len(h) + Len(d)
      /\ \A i \in 1..(Len(h) + Len(d)) : w[i] = IF i <= Len(h) THEN h[i] ELSE d[i - Len(h)]
  BY <1>1, <1>2, Concatenation
<1>4. Len(d) \in Nat
  BY SMT
<1> HIDE DEF w
<1>5. Len(w) = 2 + Len(d) /\ Len(w) \in Nat
  BY <1>1, <1>3, <1>4, SMT
<1>6. /\ 3 \in 1..(Len(w) + 1) /\ Len(w) \in (3 - 1)..Len(w) /\ Len(w) - 3 + 1 = Len(d)
  BY <1>4, <1>5, SMT
<1> DEFINE e == SubSeq(w, 3, Len(w))
<1>7. e \in Seq(T) /\ Len(e) = Len(w) - 3 + 1 /\ \A i \in 1..(Len(w) - 3 + 1) : e[i] = w[3 + i - 1]
  BY <1>3, <1>6, Part
<1>8. ASSUME NEW i \in 1..Len(d) PROVE e[i] = d[i]
  <2>1. /\ i + 2 \in 1..(Len(h) + Len(d)) /\ ~(i + 2 <= Len(h)) /\ (i + 2) - Len(h) = i
        /\ 3 + i - 1 = i + 2
    BY <1>1, <1>4, SMT
  <2>2. w[i + 2] = d[i]
    BY <1>3, <2>1
  <2>3. e[i] = w[3 + i - 1]
    BY <1>6, <1>7
  <2> QED
    BY <2>1, <2>2, <2>3
<1> HIDE DEF e
<1>9. e = d
  BY <1>2, <1>6, <1>7, <1>8, SameSeq
<1> QED
  BY <1>5, <1>9 DEF w, h, e

\* The first fragment starts the assembler.
LEMMA BleAddFirst ==
  ASSUME NEW S, NEW p \in Seq(S)
  PROVE  bleAdd(bleAssembler, BleFirst(p)) = BleHeld(p, 1)
<1> DEFINE n == Len(p)
           r == bleMin(n, mtu - 2)
           d == SubSeq(p, 1, r)
           z == r >= n
<1>1. n \in Nat /\ r \in 0..n
  BY BleAssumption, SMT DEF bleMin
<1>2. d \in Seq(S) /\ Len(d) = r
  BY <1>1, Prefix
<1>3. BleReached(n, 1) = r
  BY BleAssumption, SMT DEF BleReached
<1>4. bleMin(n - Len(<<>>), Len(d)) = Len(d)
  BY <1>1, <1>2, SMT DEF bleMin
<1>5. SubSeq(d, 1, Len(d)) = d
  BY <1>2, Whole
<1>6. <<>> \o d = d
  BY <1>2, SMT
<1> DEFINE no == FALSE
           a == [started |-> no, total |-> 0, buffer |-> <<>>, done |-> no, failed |-> FALSE]
<1>7. bleAssembler = a
  BY DEF bleAssembler
<1>8. /\ bleAssembler.done = FALSE /\ bleAssembler.started = FALSE
      /\ bleAssembler.buffer = <<>> /\ BleFirst(p).total = n
      /\ BleFirst(p).bytes = bleLength \o d
  BY DEF bleAssembler, BleFirst
<1>9. bleAdd(bleAssembler, BleFirst(p)) = BleGrown(bleAssembler, n, d, z)
  <2> DEFINE w == bleLength \o d
  <2>0. Len(w) = 2 + Len(d) /\ SubSeq(w, 3, Len(w)) = d
    BY <1>2, BleHead
  <2> HIDE DEF d, n, w
  <2>1. <<>> \o SubSeq(d, 1, bleMin(n - Len(<<>>), Len(d))) = d
    BY <1>4, <1>5, <1>6
  <2>2. ~(Len(w) > mtu) /\ ~(Len(w) < 2)
    <3>1. r <= mtu - 2
      BY <1>1, BleAssumption, SMT DEF bleMin
    <3> HIDE DEF r
    <3> QED
      BY <1>1, <1>2, <2>0, <3>1, BleAssumption, SMT
  <2>3. BleFirst(p).bytes = w
    BY <1>8 DEF w
  <2>4. ~bleMisfit(bleAssembler, BleFirst(p))
    BY <2>2, <2>3 DEF bleMisfit
  <2> QED
    BY <1>2, <1>8, <2>0, <2>1, <2>3, <2>4 DEF bleAdd, BleGrown
<1> HIDE DEF no, z
<1>10. BleGrown(bleAssembler, n, d, z) = BleStarted(n, d, z)
  BY <1>7, BleGrownIs, SMT
<1>11. BleHeld(p, 1) = BleStarted(n, d, z)
  <2>1. 1 # 0
    BY SMT
  <2> QED
    BY <1>3, <2>1 DEF BleHeld, z
<1> QED
  BY <1>9, <1>10, <1>11

\* What the assembler does with the k-th fragment behind the first one.
BleTakesNext(p, k) == bleAdd(BleHeld(p, k), BleNext(p, k)) = BleHeld(p, k + 1)

\* A further fragment takes the assembler on.
LEMMA BleAddNext ==
  ASSUME NEW S, NEW p \in Seq(S), NEW k \in 1..BleMore(Len(p))
  PROVE  BleTakesNext(p, k) /\ BleHeld(p, k).done = FALSE
<1> DEFINE n == Len(p)
           x == (k - 1) * mtu
           from == (mtu - 2) + x
           to == bleMin(n, from + mtu)
           d == SubSeq(p, from + 1, to)
           b == SubSeq(p, 1, from)
           z == to >= n
<1>1. n \in Nat /\ k \in Nat \ {0} /\ BleMore(n) \in Nat
  <2>1. n \in Nat
    BY SMT
  <2>2. BleMore(n) \in Nat
    BY <2>1, BleCount
  <2> QED
    BY <2>1, <2>2, SMT
<1>2. x \in Nat /\ k * mtu = x + mtu
  <2>1. k - 1 \in Nat /\ (k - 1) + 1 = k /\ mtu \in Nat
    BY <1>1, BleAssumption, SMT
  <2> QED
    BY <2>1, Times
<1>3. from < n
  BY <1>1, BleCount
<1> HIDE DEF x
<1>4. from \in Nat /\ mtu - 2 < n
  BY <1>1, <1>2, <1>3, BleAssumption, SMT
<1>5. bleMin(n, mtu - 2) = mtu - 2 /\ (mtu - 2) + k * mtu = from + mtu
  BY <1>1, <1>2, <1>4, BleAssumption, SMT DEF bleMin
<1>6. BleNext(p, k) = [total |-> maxTotal, bytes |-> d]
  BY <1>5 DEF BleNext, x
<1>7. to \in from..n /\ to \in Nat
  BY <1>1, <1>3, <1>4, BleAssumption, SMT DEF bleMin
<1>8. BleReached(n, k) = from
  <2>1. bleMin(n, from) = from
    BY <1>1, <1>3, <1>4, SMT DEF bleMin
  <2> QED
    BY <2>1 DEF BleReached, x
<1>9. BleReached(n, k + 1) = to
  <2>1. (k + 1) - 1 = k
    BY <1>1, SMT
  <2> QED
    BY <1>5, <2>1 DEF BleReached
<1> HIDE DEF from, to
<1>10. d \in Seq(S) /\ Len(d) = to - from
  <2>1. /\ from + 1 \in 1..(Len(p) + 1) /\ to \in ((from + 1) - 1)..Len(p)
        /\ to - (from + 1) + 1 = to - from
    BY <1>1, <1>3, <1>4, <1>7, SMT
  <2>2. d \in Seq(S) /\ Len(d) = to - (from + 1) + 1
    BY <2>1, Part
  <2> QED
    BY <2>1, <2>2
<1>11. b \in Seq(S) /\ Len(b) = from
  BY <1>1, <1>3, <1>4, Prefix, SMT
<1>12. b \o d = SubSeq(p, 1, to)
  <2>1. 1 \in 1..(Len(p) + 1) /\ from \in (1 - 1)..Len(p) /\ to \in from..Len(p)
    BY <1>1, <1>3, <1>4, <1>7, SMT
  <2> QED
    BY <2>1, Adjacent
<1>13. Len(SubSeq(p, 1, to)) = to
  BY <1>1, <1>7, Prefix, SMT
<1>14. bleMin(n - Len(b), Len(d)) = Len(d)
  BY <1>1, <1>4, <1>7, <1>10, <1>11, SMT DEF bleMin
<1>15. SubSeq(d, 1, Len(d)) = d
  BY <1>10, Whole
<1>16. (from >= n) = FALSE
  BY <1>1, <1>3, <1>4, SMT
<1>17. BleHeld(p, k) = BleStarted(n, b, FALSE)
  BY <1>1, <1>8, <1>16 DEF BleHeld
<1>18. BleHeld(p, k + 1) = BleStarted(n, SubSeq(p, 1, to), z)
  <2>1. k + 1 # 0
    BY <1>1, SMT
  <2> QED
    BY <2>1, <1>9 DEF BleHeld, z
<1> HIDE DEF b, d
<1>19. b \o SubSeq(d, 1, bleMin(n - Len(b), Len(d))) = SubSeq(p, 1, to)
  BY <1>12, <1>14, <1>15
<1>20. bleAdd(BleHeld(p, k), BleNext(p, k)) = BleGrown(BleHeld(p, k), n, SubSeq(p, 1, to), z)
  <2>1. /\ BleHeld(p, k).done = FALSE /\ BleHeld(p, k).started = TRUE
        /\ BleHeld(p, k).total = n /\ BleHeld(p, k).buffer = b /\ BleNext(p, k).bytes = d
    BY <1>6, <1>17, SMT DEF BleStarted
  <2>2. ~(Len(d) > mtu)
    <3>1. to <= from + mtu
      BY <1>1, <1>4, BleAssumption, SMT DEF bleMin, to
    <3> QED
      BY <1>4, <1>7, <1>10, <3>1, BleAssumption, SMT
  <2>3. ~bleMisfit(BleHeld(p, k), BleNext(p, k))
    BY <2>1, <2>2 DEF bleMisfit
  <2> QED
    BY <1>13, <1>19, <2>1, <2>3 DEF bleAdd, BleGrown
<1> HIDE DEF z
<1>21. BleGrown(BleHeld(p, k), n, SubSeq(p, 1, to), z) = BleStarted(n, SubSeq(p, 1, to), z)
  <2> DEFINE yes == TRUE
             no == FALSE
  <2>1. BleHeld(p, k) = [started |-> yes, total |-> n, buffer |-> b, done |-> no, failed |-> FALSE]
    BY <1>17 DEF BleStarted
  <2> HIDE DEF yes, no
  <2> QED
    BY <2>1, BleGrownIs, SMT
<1>22. BleTakesNext(p, k)
  BY <1>18, <1>20, <1>21 DEF BleTakesNext
<1> QED
  BY <1>17, <1>22, SMT DEF BleStarted

\* What the assembler shows after k fragments of a payload.
BleShows(p, k) ==
  /\ BleHeld(p, k).failed = FALSE
  /\ k < Len(bleFragment(p)) => BleHeld(p, k).done = FALSE
  /\ k = Len(bleFragment(p)) => BleHeld(p, k).done = TRUE /\ BleHeld(p, k).buffer = p

\* Adding the fragments of a payload one after the other reproduces it, and the assembler
\* is done with the last one and not before.
LEMMA BleStep ==
  ASSUME NEW S, NEW p \in Seq(S), NEW k \in Nat, k < Len(bleFragment(p))
  PROVE  bleAdd(BleHeld(p, k), bleFragment(p)[k + 1]) = BleHeld(p, k + 1)
<1>1. /\ Len(bleFragment(p)) = 1 + BleMore(Len(p)) /\ BleMore(Len(p)) \in Nat
      /\ bleFragment(p)[1] = BleFirst(p)
      /\ \A j \in 1..BleMore(Len(p)) : bleFragment(p)[j + 1] = BleNext(p, j)
  BY BlePackets, BleCount, SMT
<1>2. CASE k = 0
  <2>1. BleHeld(p, k) = bleAssembler
    BY <1>2 DEF BleHeld
  <2>2. bleFragment(p)[k + 1] = BleFirst(p) /\ BleHeld(p, k + 1) = BleHeld(p, 1)
    BY <1>1, <1>2, SMT
  <2>3. bleAdd(bleAssembler, BleFirst(p)) = BleHeld(p, 1)
    BY BleAddFirst
  <2> QED
    BY <2>1, <2>2, <2>3
<1>3. CASE k # 0
  <2>1. k \in 1..BleMore(Len(p))
    BY <1>1, <1>3, SMT
  <2>2. bleFragment(p)[k + 1] = BleNext(p, k)
    BY <1>1, <2>1
  <2>3. BleTakesNext(p, k)
    BY <2>1, BleAddNext
  <2> QED
    BY <2>2, <2>3 DEF BleTakesNext
<1> QED
  BY <1>2, <1>3

\* See BleStep.
LEMMA BleHolds ==
  ASSUME NEW S, NEW p \in Seq(S), NEW k \in Nat, k <= Len(bleFragment(p))
  PROVE  BleShows(p, k)
<1> DEFINE C == BleMore(Len(p))
<1>1. Len(bleFragment(p)) = 1 + C /\ C \in Nat /\ Len(p) \in Nat
  BY BlePackets, BleCount, SMT
<1>2. BleHeld(p, k).failed = FALSE
  BY DEF BleHeld, bleAssembler, BleStarted
<1>3. ASSUME k < Len(bleFragment(p)) PROVE BleHeld(p, k).done = FALSE
  <2>1. CASE k = 0
    BY <2>1 DEF BleHeld, bleAssembler
  <2>2. CASE k # 0
    <3>1. k \in 1..C
      BY <1>1, <1>3, <2>2, SMT
    <3> QED
      BY <3>1, BleAddNext
  <2> QED
    BY <2>1, <2>2
<1>4. ASSUME k = Len(bleFragment(p)) PROVE BleHeld(p, k).done = TRUE /\ BleHeld(p, k).buffer = p
  <2>1. k # 0 /\ k - 1 = C
    BY <1>1, <1>4, SMT
  <2>2. BleReached(Len(p), k) = Len(p)
    <3> DEFINE x == C * mtu
    <3>1. x \in Nat /\ (mtu - 2) + x >= Len(p)
      <4>1. x \in Nat
        BY <1>1, BleAssumption, SMT
      <4>2. (mtu - 2) + BleMore(Len(p)) * mtu >= Len(p)
        BY <1>1, BleCount
      <4> QED
        BY <4>1, <4>2
    <3>2. BleReached(Len(p), k) = bleMin(Len(p), (mtu - 2) + x)
      BY <2>1 DEF BleReached
    <3> HIDE DEF x
    <3> QED
      BY <1>1, <3>1, <3>2, BleAssumption, SMT DEF bleMin
  <2>3. SubSeq(p, 1, Len(p)) = p
    BY Whole
  <2>4. (BleReached(Len(p), k) >= Len(p)) = TRUE
    BY <1>1, <2>2, SMT
  <2>5. BleHeld(p, k) = BleStarted(Len(p), p, TRUE)
    BY <2>1, <2>2, <2>3, <2>4 DEF BleHeld
  <2> QED
    BY <2>5, SMT DEF BleStarted
<1> QED
  BY <1>2, <1>3, <1>4 DEF BleShows

------------------------------------------------------------------------------
(* The NFC framing: chained commands, and the pieces of a response. *)

\* The chunks of x that n bytes are cut into, one at least.
ChunksOf(n, x) == IF n = 0 THEN 1 ELSE (n + x - 1) \div x

\* They cover the bytes, and all but the last are full.
LEMMA ChunkCount ==
  ASSUME NEW n \in Nat, NEW x \in Nat \ {0}
  PROVE  /\ ChunksOf(n, x) \in Nat \ {0}
         /\ ChunksOf(n, x) * x >= n
         /\ (ChunksOf(n, x) - 1) * x <= n
         /\ \A k \in Nat : k < ChunksOf(n, x) => k * x <= n
         /\ \A k \in Nat : 0 < k /\ k < ChunksOf(n, x) => k * x < n
<1> DEFINE C == ChunksOf(n, x)
<1>1. CASE n = 0
  <2>1. C = 1
    BY <1>1 DEF ChunksOf
  <2> HIDE DEF C
  <2> QED
    BY <1>1, <2>1, SMT DEF C
<1>2. CASE n # 0
  <2>1. C = (n + x - 1) \div x
    BY <1>2 DEF ChunksOf
  <2> HIDE DEF C
  <2>2. C \in Nat \ {0} /\ C * x >= n /\ (C - 1) * x < n
    BY <1>2, <2>1, Chunks
  <2>3. ASSUME NEW k \in Nat, k < C PROVE k * x < n
    <3>1. k <= C - 1 /\ C - 1 \in Nat /\ x \in Nat
      BY <2>2, <2>3, SMT
    <3>2. k * x <= (C - 1) * x
      BY <3>1, TimesGrows
    <3>3. k * x \in Nat /\ (C - 1) * x \in Nat
      BY <3>1, SMT
    <3> QED
      BY <2>2, <3>2, <3>3, SMT
  <2>4. \A k \in Nat : k < C => k * x \in Nat
    BY SMT
  <2>5. (C - 1) * x <= n
    <3>1. C - 1 \in Nat
      BY <2>2, SMT
    <3>2. (C - 1) * x \in Nat
      BY <3>1, SMT
    <3> QED
      BY <2>2, <3>2, SMT
  <2>6. ASSUME NEW k \in Nat, k < C PROVE k * x <= n
    <3>1. k * x \in Nat /\ k * x < n
      BY <2>3, <2>6, SMT
    <3> QED
      BY <3>1, SMT
  <2> QED
    BY <2>2, <2>3, <2>5, <2>6 DEF C
<1> QED
  BY <1>1, <1>2

\* A prefix and what follows it make a longer prefix.
LEMMA Joined ==
  ASSUME NEW S, NEW p \in Seq(S), NEW y \in Nat, NEW m \in Nat, y <= m, m <= Len(p)
  PROVE  SubSeq(p, 1, y) \o SubSeq(p, y + 1, m) = SubSeq(p, 1, m)
<1>1. 1 \in 1..(Len(p) + 1) /\ y \in (1 - 1)..Len(p) /\ m \in y..Len(p)
  BY SMT
<1> QED
  BY <1>1, Adjacent

\* What a card has collected after k packets of a command.
NfcCollected(p, k) == SubSeq(p, 1, k * maxChunkSize)

\* The k-th packet of a command.
NfcPacket(p, k) ==
  [ins |-> "command", chained |-> k * maxChunkSize < Len(p),
   data |-> SubSeq(p, (k - 1) * maxChunkSize + 1,
                   IF k * maxChunkSize < Len(p) THEN k * maxChunkSize ELSE Len(p))]

\* The packets of a command, as a set.
NfcPacketsOf(p) == {NfcPacket(p, k) : k \in 1..nfcChunks(Len(p))}

\* Fragment one by one.
LEMMA NfcPackets ==
  ASSUME NEW S, NEW p \in Seq(S)
  PROVE  /\ nfcFragment(p) \in Seq(NfcPacketsOf(p))
         /\ Len(nfcFragment(p)) = nfcChunks(Len(p))
         /\ nfcChunks(Len(p)) = ChunksOf(Len(p), maxChunkSize)
         /\ nfcChunks(Len(p)) \in Nat \ {0}
         /\ \A k \in 1..nfcChunks(Len(p)) : nfcFragment(p)[k] = NfcPacket(p, k)
<1> DEFINE N == nfcChunks(Len(p))
           T == NfcPacketsOf(p)
<1>1. N = ChunksOf(Len(p), maxChunkSize)
  BY DEF nfcChunks, ChunksOf
<1>2. N \in Nat \ {0}
  BY <1>1, ChunkCount, NfcAssumption, SMT
<1>3. nfcFragment(p) = [k \in 1..N |-> NfcPacket(p, k)]
  BY DEF nfcFragment, NfcPacket
<1>4. \A k \in 1..N : NfcPacket(p, k) \in T
  BY DEF NfcPacketsOf
<1> HIDE DEF N, T
<1>5. nfcFragment(p) \in Seq(T) /\ Len(nfcFragment(p)) = N
      /\ \A k \in 1..N : nfcFragment(p)[k] = NfcPacket(p, k)
  BY <1>2, <1>3, <1>4, SMT
<1> QED
  BY <1>1, <1>2, <1>5 DEF N, T

\* What the packet with index k, counted from 0, brings a card that has the ones before it.
NfcBrings(p, k) ==
  /\ nfcFragment(p)[k + 1].ins = "command"
  /\ k + 1 < Len(nfcFragment(p)) =>
       /\ nfcFragment(p)[k + 1].chained = TRUE
       /\ NfcCollected(p, k) \o nfcFragment(p)[k + 1].data = NfcCollected(p, k + 1)
  /\ k + 1 = Len(nfcFragment(p)) =>
       /\ nfcFragment(p)[k + 1].chained = FALSE
       /\ NfcCollected(p, k) \o nfcFragment(p)[k + 1].data = p

\* The chain bit is on all packets but the last, and the data add up to the command.
LEMMA NfcCommand ==
  ASSUME NEW S, NEW p \in Seq(S), NEW k \in Nat, k < Len(nfcFragment(p))
  PROVE  NfcBrings(p, k)
<1> DEFINE n == Len(p)
           M == maxChunkSize
           N == nfcChunks(n)
           y == k * M
           m == (k + 1) * M
           q == nfcFragment(p)[k + 1]
<1>1. /\ N \in Nat \ {0} /\ Len(nfcFragment(p)) = N /\ n \in Nat
      /\ N = ChunksOf(n, M) /\ M \in Nat \ {0}
      /\ \A j \in 1..N : nfcFragment(p)[j] = NfcPacket(p, j)
  BY NfcPackets, NfcAssumption, SMTT(30)
<1>2. y \in Nat /\ m \in Nat /\ y <= m
  <2>1. m = y + M
    BY <1>1, Times
  <2>2. y \in Nat
    BY <1>1, SMT
  <2> QED
    BY <1>1, <2>1, <2>2, SMT
<1>3. /\ N * M >= n
      /\ (\A j \in Nat : j < N => j * M <= n)
      /\ \A j \in Nat : 0 < j /\ j < N => j * M < n
  BY <1>1, ChunkCount
<1>4. y <= n
  BY <1>1, <1>3
<1>5. k + 1 \in 1..N /\ (k + 1) - 1 = k
  BY <1>1, SMT
<1>6. q = NfcPacket(p, k + 1)
  BY <1>1, <1>5
<1>7. q = [ins |-> "command", chained |-> m < n,
           data |-> SubSeq(p, y + 1, IF m < n THEN m ELSE n)]
  BY <1>5, <1>6 DEF NfcPacket
<1>8. k + 1 < N => m < n
  BY <1>3, <1>5, SMT
<1>9. k + 1 = N => ~(m < n)
  BY <1>1, <1>2, <1>3, SMT
<1>10. NfcCollected(p, k) = SubSeq(p, 1, y) /\ NfcCollected(p, k + 1) = SubSeq(p, 1, m)
  BY DEF NfcCollected
<1> HIDE DEF y, m, q, n, N
<1>11. CASE m < n
  <2>1. q.ins = "command" /\ q.chained = TRUE /\ q.data = SubSeq(p, y + 1, m)
    BY <1>7, <1>11
  <2>2. SubSeq(p, 1, y) \o SubSeq(p, y + 1, m) = SubSeq(p, 1, m)
    BY <1>1, <1>2, <1>11, Joined, SMT DEF n
  <2> QED
    BY <1>1, <1>9, <1>10, <1>11, <2>1, <2>2 DEF NfcBrings, q
<1>12. CASE ~(m < n)
  <2>1. q.ins = "command" /\ q.chained = FALSE /\ q.data = SubSeq(p, y + 1, n)
    <3>1. (m < n) = FALSE
      BY <1>12, SMT
    <3>2. q = [ins |-> "command", chained |-> FALSE, data |-> SubSeq(p, y + 1, n)]
      BY <1>7, <3>1
    <3> QED
      BY <3>2
  <2>2. SubSeq(p, 1, y) \o SubSeq(p, y + 1, n) = SubSeq(p, 1, n)
    <3>1. n \in Nat /\ n <= Len(p)
      BY <1>1, SMT DEF n
    <3> QED
      BY <1>2, <1>4, <3>1, Joined
  <2>3. SubSeq(p, 1, n) = p
    BY Whole DEF n
  <2> QED
    BY <1>1, <1>8, <1>10, <1>12, <2>1, <2>2, <2>3 DEF NfcBrings, q
<1> QED
  BY <1>11, <1>12

\* The number of pieces of a response, and the k-th of them.
PieceCount(r) == ChunksOf(Len(r), pieceSize)
Piece(r, k) ==
  [data |-> SubSeq(r, (k - 1) * pieceSize + 1, IF k = PieceCount(r) THEN Len(r) ELSE k * pieceSize),
   sw |-> IF k = PieceCount(r) THEN "9000" ELSE "61xx"]

\* The pieces of a response, as a set.
PiecesOf(r) == {Piece(r, k) : k \in 1..PieceCount(r)}

\* Pieces one by one.
LEMMA PiecesAre ==
  ASSUME NEW S, NEW r \in Seq(S)
  PROVE  /\ Pieces(r) \in Seq(PiecesOf(r))
         /\ Len(Pieces(r)) = PieceCount(r) /\ PieceCount(r) \in Nat \ {0}
         /\ \A k \in 1..PieceCount(r) : Pieces(r)[k] = Piece(r, k)
<1> DEFINE N == PieceCount(r)
           T == PiecesOf(r)
<1>1. N \in Nat \ {0}
  BY ChunkCount, SessionAssumption, SMT DEF PieceCount
<1>2. (r = <<>>) <=> (Len(r) = 0)
  BY EmptyIsSeq
<1>3. N = IF r = <<>> THEN 1 ELSE (Len(r) + pieceSize - 1) \div pieceSize
  BY <1>2 DEF PieceCount, ChunksOf
<1>4. Pieces(r) = [k \in 1..N |-> Piece(r, k)]
  BY <1>3 DEF Pieces, Piece
<1>5. \A k \in 1..N : Piece(r, k) \in T
  BY DEF PiecesOf
<1> HIDE DEF N, T
<1>6. Pieces(r) \in Seq(T) /\ Len(Pieces(r)) = N /\ \A k \in 1..N : Pieces(r)[k] = Piece(r, k)
  BY <1>1, <1>4, <1>5, SMT
<1> QED
  BY <1>1, <1>6 DEF N, T

NfcRecord(buffer, done, fails) == [buffer |-> buffer, done |-> done, failed |-> fails]
NfcAccepted(buffer, done) == NfcRecord(buffer, done, FALSE)

NfcGrown(a, buffer, done, fails) == [a EXCEPT !.buffer = buffer, !.done = done, !.failed = fails]

\* The assembler of a response after k of its pieces.
NfcHeld(r, k) ==
  IF k = 0 THEN nfcAssembler
  ELSE NfcAccepted(IF k = PieceCount(r) THEN r ELSE SubSeq(r, 1, k * pieceSize), k = PieceCount(r))

\* An assembler is its fields.
LEMMA NfcAssemblerIs ==
  ASSUME NEW b, NEW d, NEW f, NEW r, r \in [buffer : {b}, done : {d}, failed : {f}]
  PROVE  r = [buffer |-> b, done |-> d, failed |-> f]
OBVIOUS

\* Add sets all of them.
LEMMA NfcGrownIs ==
  ASSUME NEW b, NEW d, NEW f, NEW a, a = NfcRecord(b, d, f),
         NEW b2, NEW d2, NEW f2
  PROVE  NfcGrown(a, b2, d2, f2) = NfcRecord(b2, d2, f2)
<1> DEFINE r == [[buffer |-> b, done |-> d, failed |-> f]
                 EXCEPT !.buffer = b2, !.done = d2, !.failed = f2]
<1>1. NfcGrown(a, b2, d2, f2) = r
  BY DEF NfcGrown, NfcRecord
<1>2. r \in [buffer : {b2}, done : {d2}, failed : {f2}]
  OBVIOUS
<1> HIDE DEF r
<1> QED
  BY <1>1, <1>2, NfcAssemblerIs DEF NfcRecord

\* What the assembler holds after k pieces, without the cases.
LEMMA NfcHeldIs ==
  ASSUME NEW S, NEW r \in Seq(S), NEW k \in Nat, k < PieceCount(r)
  PROVE  NfcHeld(r, k) = NfcRecord(SubSeq(r, 1, k * pieceSize), FALSE, FALSE)
<1>1. CASE k = 0
  <2>1. SubSeq(r, 1, 0) = <<>>
    BY SMT
  <2>2. k * pieceSize = 0
    BY <1>1, SessionAssumption, SMT
  <2>3. nfcAssembler = NfcRecord(SubSeq(r, 1, k * pieceSize), FALSE, FALSE)
    BY <2>1, <2>2 DEF nfcAssembler, NfcRecord
  <2> QED
    BY <1>1, <2>3 DEF NfcHeld
<1>2. CASE k # 0
  <2>1. k # PieceCount(r)
    BY PiecesAre, SMT
  <2>2. (k = PieceCount(r)) = FALSE
    BY <2>1
  <2> QED
    BY <1>2, <2>1, <2>2 DEF NfcHeld, NfcAccepted
<1> QED
  BY <1>1, <1>2

\* What the assembler does with the piece of index k, counted from 0.
NfcTakes(r, k) == nfcAdd(NfcHeld(r, k), Pieces(r)[k + 1]) = NfcHeld(r, k + 1)

\* Adding the pieces one after the other reproduces the response.
LEMMA NfcStep ==
  ASSUME NEW S, NEW r \in Seq(S), NEW k \in Nat, k < Len(Pieces(r))
  PROVE  NfcTakes(r, k)
<1> DEFINE n == Len(r)
           N == PieceCount(r)
           y == k * pieceSize
           m == IF k + 1 = N THEN n ELSE (k + 1) * pieceSize
           q == Pieces(r)[k + 1]
           a == NfcHeld(r, k)
           d == (k + 1 = N)
<1>1. /\ N \in Nat \ {0} /\ Len(Pieces(r)) = N /\ n \in Nat /\ pieceSize \in Nat \ {0}
      /\ \A j \in 1..N : Pieces(r)[j] = Piece(r, j)
  BY PiecesAre, SessionAssumption, SMT
<1>2. y \in Nat /\ (k + 1) * pieceSize = y + pieceSize
  BY <1>1, Times
<1>3. /\ (\A j \in Nat : j < N => j * pieceSize <= n)
  BY <1>1, ChunkCount DEF PieceCount
<1>4. y <= n /\ (k + 1 # N => (k + 1) * pieceSize <= n)
  BY <1>1, <1>3, SMT
<1>5. k + 1 \in 1..N /\ (k + 1) - 1 = k
  BY <1>1, SMT
<1>6. q = Piece(r, k + 1)
  BY <1>1, <1>5
<1> DEFINE w == IF k + 1 = N THEN "9000" ELSE "61xx"
<1>a. q = [data |-> SubSeq(r, y + 1, m), sw |-> w]
  BY <1>5, <1>6 DEF Piece
<1>b. w = IF k + 1 = N THEN "9000" ELSE "61xx"
  OBVIOUS
<1>7. q.data = SubSeq(r, y + 1, m) /\ q.sw = w
  <2> HIDE DEF w, q, y, m
  <2> QED
    BY <1>a
<1>8. a = NfcRecord(SubSeq(r, 1, y), FALSE, FALSE)
  BY <1>1, NfcHeldIs
<1>9. a.buffer = SubSeq(r, 1, y)
  <2> HIDE DEF a, y
  <2> QED
    BY <1>8 DEF NfcRecord
<1>10. m \in Nat /\ y <= m /\ m <= n
  BY <1>1, <1>2, <1>4, SMT
<1>11. (q.sw = "9000") = d
  BY <1>7
<1>12. (q.sw \notin {"9000", "61xx"}) = FALSE
  BY <1>7
<1>13. k + 1 # 0
  BY <1>1, SMT
<1>14. NfcHeld(r, k + 1) =
         NfcAccepted(IF k + 1 = N THEN r ELSE SubSeq(r, 1, (k + 1) * pieceSize), d)
  BY <1>13 DEF NfcHeld
<1>15. SubSeq(r, 1, n) = r
  BY Whole
<1>16. NfcHeld(r, k + 1) = NfcAccepted(SubSeq(r, 1, m), d)
  BY <1>14, <1>15
<1> HIDE DEF y, m, q, a, n
<1>17. a.buffer \o q.data = SubSeq(r, 1, m)
  <2>1. SubSeq(r, 1, y) \o SubSeq(r, y + 1, m) = SubSeq(r, 1, m)
    BY <1>2, <1>10, Joined DEF n
  <2> QED
    BY <1>7, <1>9, <2>1
<1>18. nfcAdd(a, q) = NfcGrown(a, SubSeq(r, 1, m), d, FALSE)
  BY <1>11, <1>12, <1>17 DEF nfcAdd, NfcGrown
<1> HIDE DEF d
<1>19. NfcGrown(a, SubSeq(r, 1, m), d, FALSE) = NfcAccepted(SubSeq(r, 1, m), d)
  <2> DEFINE no == FALSE
  <2>1. a = NfcRecord(SubSeq(r, 1, y), no, no)
    BY <1>8
  <2> HIDE DEF no
  <2>2. NfcGrown(a, SubSeq(r, 1, m), d, no) = NfcRecord(SubSeq(r, 1, m), d, no)
    BY <2>1, NfcGrownIs, SMT
  <2> QED
    BY <2>2 DEF no, NfcAccepted
<1> QED
  BY <1>16, <1>18, <1>19 DEF NfcTakes, a, q

\* What the assembler shows after k pieces.
NfcShows(r, k) ==
  /\ NfcHeld(r, k).failed = FALSE
  /\ k < Len(Pieces(r)) => NfcHeld(r, k).done = FALSE
  /\ k = Len(Pieces(r)) => NfcHeld(r, k).done = TRUE /\ NfcHeld(r, k).buffer = r

\* See NfcStep.
LEMMA NfcHolds ==
  ASSUME NEW S, NEW r \in Seq(S), NEW k \in Nat, k <= Len(Pieces(r))
  PROVE  NfcShows(r, k)
<1>1. Len(Pieces(r)) = PieceCount(r) /\ PieceCount(r) \in Nat \ {0}
  BY PiecesAre
<1>2. CASE k < PieceCount(r)
  <2>1. NfcHeld(r, k) = NfcRecord(SubSeq(r, 1, k * pieceSize), FALSE, FALSE)
    BY <1>2, NfcHeldIs
  <2> QED
    BY <1>1, <1>2, <2>1, SMT DEF NfcShows, NfcRecord
<1>3. CASE k = PieceCount(r)
  <2>1. (k = PieceCount(r)) = TRUE /\ k # 0
    BY <1>1, <1>3
  <2>2. NfcHeld(r, k) = NfcRecord(r, TRUE, FALSE)
    BY <1>3, <2>1 DEF NfcHeld, NfcAccepted
  <2> QED
    BY <1>1, <1>3, <2>2, SMT DEF NfcShows, NfcRecord
<1> QED
  BY <1>1, <1>2, <1>3, SMT

------------------------------------------------------------------------------
(* The packet sessions: a codec of any kind. *)

\* The fields of an Exchange.
ExchangeFields == {"pc", "request", "packets", "assembler", "ok", "answer"}

\* The packets that carry a response of a device of kind kd.
OutOf(kd, p) == IF kd = "nfc" THEN Pieces(p)
                ELSE IF kd = "ble" THEN bleFragment(p) ELSE Fragment(channel, cmd, p)

\* The packets that carry a request.
InOf(kd, p) == IF kd = "nfc" THEN nfcFragment(p) ELSE OutOf(kd, p)

\* The assembler of a response after k packets.
AsmOf(kd, p, k) == IF kd = "nfc" THEN NfcHeld(p, k)
                   ELSE IF kd = "ble" THEN BleHeld(p, k) ELSE HidHeld(channel, cmd, p, k)

AddOf(kd, a, q) == IF kd = "nfc" THEN nfcAdd(a, q)
                   ELSE IF kd = "ble" THEN bleAdd(a, q) ELSE Add(a, q)

FitsOf(kd, p) == IF kd = "nfc" THEN TRUE
                 ELSE IF kd = "ble" THEN blePayloadFits(p) ELSE Fits(p)

\* What the device has collected after k packets of a request.
CollectedOf(kd, p, k) ==
  IF kd = "nfc" THEN NfcCollected(p, k) ELSE IF k = 0 THEN <<>> ELSE <<AsmOf(kd, p, k)>>

\* No exchange is under way: the device has nothing of one, but a card may still offer the
\* rest of an answer.
AtRest == device.inbound = <<>> /\ (kind # "nfc" => device.outbound = <<>>)

\* Caller c has sent the first k packets of its request.
Sending(c, k) ==
  /\ k < Len(InOf(kind, exchange[c].request))
  /\ exchange[c].packets = Rest(InOf(kind, exchange[c].request), k)
  /\ exchange[c].assembler = AsmOf(kind, <<>>, 0)
  /\ device.inbound = CollectedOf(kind, exchange[c].request, k)
  /\ kind # "nfc" => device.outbound = <<>>

\* Caller c has read the first k packets of the response r to its request.
Receiving(c, r, k) ==
  /\ FitsOf(kind, r)
  /\ k < Len(OutOf(kind, r))
  /\ exchange[c].packets = <<>>
  /\ exchange[c].assembler = AsmOf(kind, r, k)
  /\ device.inbound = <<>>
  /\ device.outbound = Rest(OutOf(kind, r), k)

\* The Exchange of one caller.
CallerSound(c) ==
  /\ DOMAIN exchange[c] = ExchangeFields
  /\ exchange[c].pc \in {"idle", "lock", "send", "receive", "done"}
  /\ exchange[c].request \in Seq(Callers \X Nat)
  /\ (exchange[c].pc \in {"send", "receive"}) <=> (mu = c)
  /\ exchange[c].pc \in {"send", "receive"} => FitsOf(kind, exchange[c].request)
  /\ \/ exchange[c].ok = FALSE
     \/ /\ exchange[c].ok = TRUE /\ exchange[c].pc = "done"
        /\ \E n \in Lengths : exchange[c].answer = Response(exchange[c].request, n)
  /\ exchange[c].pc = "send" => \E k \in 0..Len(InOf(kind, exchange[c].request)) : Sending(c, k)
  /\ exchange[c].pc = "receive" =>
       \E n \in Lengths : \E k \in 0..Len(OutOf(kind, Response(exchange[c].request, n))) :
         Receiving(c, Response(exchange[c].request, n), k)

\* The requests that were made.
Requests == {exchange[c].request : c \in {d \in Callers : exchange[d].pc # "idle"}}

SessionSound ==
  /\ kind \in {"nfc", "ble", "usb"}
  /\ DOMAIN exchange = Callers
  /\ DOMAIN device = {"inbound", "outbound"}
  /\ mu \in Callers \cup {Nobody}
  /\ mu = Nobody => AtRest
  /\ \A c \in Callers : CallerSound(c)
  /\ executed \subseteq Requests

PacketSessionInv == (spoiled = FALSE \/ spoiled = TRUE) /\ (spoiled = FALSE => SessionSound)

\* The operators of the session are those of its kind.
LEMMA CodecIs ==
  ASSUME kind \in {"nfc", "ble", "usb"}, NEW p, NEW a, NEW q
  PROVE  /\ codecFragment(p) = InOf(kind, p)
         /\ codecAssembler = AsmOf(kind, <<>>, 0)
         /\ codecAdd(a, q) = AddOf(kind, a, q)
<1>1. CASE kind = "nfc"
  BY <1>1 DEF codecFragment, codecAssembler, codecAdd, InOf, OutOf, AsmOf, AddOf, NfcHeld
<1>2. CASE kind = "ble"
  BY <1>2 DEF codecFragment, codecAssembler, codecAdd, InOf, OutOf, AsmOf, AddOf, BleHeld
<1>3. CASE kind = "usb"
  BY <1>3 DEF codecFragment, codecAssembler, codecAdd, InOf, OutOf, AsmOf, AddOf, HidHeld
<1> QED
  BY <1>1, <1>2, <1>3

\* See CodecIs.
LEMMA CodecFits ==
  ASSUME kind \in {"nfc", "ble", "usb"}, NEW p
  PROVE  payloadFits(p) <=> FitsOf(kind, p)
BY DEF payloadFits, FitsOf

\* An assembler starts the same for every payload.
LEMMA AsmStarts ==
  ASSUME NEW kd, NEW p
  PROVE  AsmOf(kd, p, 0) = AsmOf(kd, <<>>, 0)
BY DEF AsmOf, NfcHeld, BleHeld, HidHeld

\* The packets of a response or a request, as a set.
OutSet(kd, p) == IF kd = "nfc" THEN PiecesOf(p)
                 ELSE IF kd = "ble" THEN BleFragmentsOf(p) ELSE HidPacketsOf(channel, cmd, p)
InSet(kd, p) == IF kd = "nfc" THEN NfcPacketsOf(p) ELSE OutSet(kd, p)

\* Every payload is at least one packet.
LEMMA OutTyped ==
  ASSUME NEW kd, NEW S, NEW p \in Seq(S)
  PROVE  OutOf(kd, p) \in Seq(OutSet(kd, p)) /\ Len(OutOf(kd, p)) \in Nat \ {0}
<1>1. CASE kd = "nfc"
  <2>1. Pieces(p) \in Seq(PiecesOf(p)) /\ Len(Pieces(p)) \in Nat \ {0}
    BY PiecesAre
  <2> QED
    BY <1>1, <2>1 DEF OutOf, OutSet
<1>2. CASE kd = "ble"
  <2>1. bleFragment(p) \in Seq(BleFragmentsOf(p)) /\ Len(bleFragment(p)) = 1 + BleMore(Len(p))
    BY BlePackets
  <2>2. BleMore(Len(p)) \in Nat
    BY BleCount, SMT
  <2> QED
    BY <1>2, <2>1, <2>2, SMT DEF OutOf, OutSet
<1>3. CASE kd # "nfc" /\ kd # "ble"
  <2>1. Fragment(channel, cmd, p) \in Seq(HidPacketsOf(channel, cmd, p))
    BY HidFragmentTyped
  <2>2. Len(Fragment(channel, cmd, p)) = 1 + Continuations(Len(p))
    BY HidPackets
  <2>3. Continuations(Len(p)) \in Nat
    BY HidCount, SMT
  <2> QED
    BY <1>3, <2>1, <2>2, <2>3, SMT DEF OutOf, OutSet
<1> QED
  BY <1>1, <1>2, <1>3

\* See OutTyped.
LEMMA InTyped ==
  ASSUME NEW kd, NEW S, NEW p \in Seq(S)
  PROVE  InOf(kd, p) \in Seq(InSet(kd, p)) /\ Len(InOf(kd, p)) \in Nat \ {0}
<1>1. CASE kd = "nfc"
  <2>1. nfcFragment(p) \in Seq(NfcPacketsOf(p)) /\ Len(nfcFragment(p)) \in Nat \ {0}
    BY NfcPackets
  <2> QED
    BY <1>1, <2>1 DEF InOf, InSet
<1>2. CASE kd # "nfc"
  BY <1>2, OutTyped DEF InOf, InSet
<1> QED
  BY <1>1, <1>2

\* What the assembler does with the packet of index k, counted from 0.
OutTakes(kd, p, k) == AddOf(kd, AsmOf(kd, p, k), OutOf(kd, p)[k + 1]) = AsmOf(kd, p, k + 1)

\* What it shows after k packets.
OutShows(kd, p, k) ==
  /\ AsmOf(kd, p, k).failed = FALSE
  /\ k < Len(OutOf(kd, p)) => AsmOf(kd, p, k).done = FALSE
  /\ k = Len(OutOf(kd, p)) => AsmOf(kd, p, k).done = TRUE /\ AsmOf(kd, p, k).buffer = p

\* Every codec reproduces the payload from its packets, and is done with the last of them.
LEMMA OutStep ==
  ASSUME NEW kd, NEW S, NEW p \in Seq(S), FitsOf(kd, p), NEW k \in Nat, k < Len(OutOf(kd, p))
  PROVE  OutTakes(kd, p, k)
<1>1. CASE kd = "nfc"
  <2>1. k < Len(Pieces(p))
    BY <1>1 DEF OutOf
  <2>2. NfcTakes(p, k)
    BY <2>1, NfcStep
  <2> QED
    BY <1>1, <2>2 DEF NfcTakes, OutTakes, AddOf, AsmOf, OutOf
<1>2. CASE kd = "ble"
  <2>1. k < Len(bleFragment(p))
    BY <1>2 DEF OutOf
  <2>2. bleAdd(BleHeld(p, k), bleFragment(p)[k + 1]) = BleHeld(p, k + 1)
    BY <2>1, BleStep
  <2> QED
    BY <1>2, <2>2 DEF OutTakes, AddOf, AsmOf, OutOf
<1>3. CASE kd # "nfc" /\ kd # "ble"
  <2>1. k < Len(Fragment(channel, cmd, p)) /\ Encodable(Len(p))
    BY <1>3 DEF OutOf, FitsOf, Fits
  <2>2. Add(HidHeld(channel, cmd, p, k), Fragment(channel, cmd, p)[k + 1])
          = HidHeld(channel, cmd, p, k + 1)
    BY <2>1, HidStep, SMT
  <2> QED
    BY <1>3, <2>2 DEF OutTakes, AddOf, AsmOf, OutOf
<1> QED
  BY <1>1, <1>2, <1>3

\* See OutStep.
LEMMA OutHolds ==
  ASSUME NEW kd, NEW S, NEW p \in Seq(S), NEW k \in Nat, k <= Len(OutOf(kd, p))
  PROVE  OutShows(kd, p, k)
<1>1. CASE kd = "nfc"
  <2>1. k <= Len(Pieces(p))
    BY <1>1 DEF OutOf
  <2>2. NfcShows(p, k)
    BY <2>1, NfcHolds
  <2> QED
    BY <1>1, <2>2 DEF NfcShows, OutShows, AsmOf, OutOf
<1>2. CASE kd = "ble"
  <2>1. k <= Len(bleFragment(p))
    BY <1>2 DEF OutOf
  <2>2. BleShows(p, k)
    BY <2>1, BleHolds
  <2> QED
    BY <1>2, <2>2 DEF BleShows, OutShows, AsmOf, OutOf
<1>3. CASE kd # "nfc" /\ kd # "ble"
  <2>1. k <= Len(Fragment(channel, cmd, p))
    BY <1>3 DEF OutOf
  <2>2. HidShows(channel, cmd, p, k)
    BY <2>1, HidHolds
  <2> QED
    BY <1>3, <2>2 DEF HidShows, OutShows, AsmOf, OutOf
<1> QED
  BY <1>1, <1>2, <1>3

\* Requests and responses are sequences of their lengths.
LEMMA PayloadsTyped ==
  ASSUME NEW c \in Callers, NEW n \in Lengths, NEW q
  PROVE  /\ Request(c, n) \in Seq(Callers \X Nat)
         /\ Response(q, n) \in Seq({q} \X Nat) /\ Len(Response(q, n)) = n
<1>1. n \in Nat
  BY SessionAssumption
<1>2. Request(c, n) \in Seq(Callers \X Nat)
  BY <1>1, SMT DEF Request
<1>3. Response(q, n) \in Seq({q} \X Nat)
  BY <1>1, SMT DEF Response
<1>4. Len(Response(q, n)) = n
  BY <1>1, SMT DEF Response
<1> QED
  BY <1>2, <1>3, <1>4

\* Whether a payload fits is a matter of its length.
LEMMA FitsByLength ==
  ASSUME NEW kd, NEW n \in Lengths, NEW q, FitsOf(kd, Response(<<>>, n))
  PROVE  FitsOf(kd, Response(q, n))
<1>1. n \in Nat
  BY SessionAssumption
<1>2. Len(Response(q, n)) = n /\ Len(Response(<<>>, n)) = n
  BY <1>1, SMT DEF Response
<1> QED
  BY <1>2 DEF FitsOf, blePayloadFits, Fits

------------------------------------------------------------------------------
(* The packet sessions: the steps. *)

\* The Exchange of a caller that takes no step is as sound as before: the caller does not
\* hold the mutex, or the device did not change either.
LEMMA OthersKept ==
  ASSUME NEW d \in Callers, CallerSound(d), exchange'[d] = exchange[d], kind' = kind,
         (mu # d /\ mu' # d) \/ (mu' = mu /\ device' = device)
  PROVE  CallerSound(d)'
<1>1. CASE mu # d /\ mu' # d
  BY <1>1 DEF CallerSound
<1>2. CASE mu' = mu /\ device' = device
  BY <1>2 DEF CallerSound, Sending, Receiving
<1> QED
  BY <1>1, <1>2

\* One caller takes a step.
LEMMA OneMoves ==
  ASSUME SessionSound, NEW c \in Callers, NEW e, exchange' = [exchange EXCEPT ![c] = e],
         kind' = kind, mu' \in Callers \cup {Nobody}, DOMAIN device' = {"inbound", "outbound"},
         mu' = Nobody => AtRest',
         \A d \in Callers \ {c} : (mu # d /\ mu' # d) \/ (mu' = mu /\ device' = device),
         CallerSound(c)', e.pc # "idle",
         exchange[c].pc = "idle" \/ exchange[c].request = e.request,
         executed' \subseteq Requests \cup {e.request}
  PROVE  SessionSound'
<1>1. DOMAIN exchange = Callers /\ \A d \in Callers : CallerSound(d)
  BY DEF SessionSound
<1>2. /\ DOMAIN exchange' = Callers /\ exchange'[c] = e
      /\ \A d \in Callers : d # c => exchange'[d] = exchange[d]
  BY <1>1
<1>3. \A d \in Callers : CallerSound(d)'
  <2> SUFFICES ASSUME NEW d \in Callers PROVE CallerSound(d)'
    OBVIOUS
  <2>1. CASE d = c
    BY <2>1
  <2>2. CASE d # c
    <3>1. exchange'[d] = exchange[d] /\ CallerSound(d)
      BY <1>1, <1>2, <2>2
    <3>2. (mu # d /\ mu' # d) \/ (mu' = mu /\ device' = device)
      BY <2>2
    <3> QED
      BY <3>1, <3>2, OthersKept
  <2> QED
    BY <2>1, <2>2
<1>4. Requests \cup {e.request} \subseteq Requests'
  <2>1. e.request \in Requests'
    BY <1>2 DEF Requests
  <2>2. ASSUME NEW d \in Callers, exchange[d].pc # "idle" PROVE exchange[d].request \in Requests'
    <3>1. CASE d = c
      BY <2>1, <2>2, <3>1
    <3>2. CASE d # c
      BY <1>2, <2>2, <3>2 DEF Requests
    <3> QED
      BY <3>1, <3>2
  <2> QED
    BY <2>1, <2>2 DEF Requests
<1>5. executed' \subseteq Requests'
  BY <1>4
<1> QED
  BY <1>2, <1>3, <1>5 DEF SessionSound

\* The mutex and the callers.
LEMMA HolderIs ==
  ASSUME SessionSound, NEW c \in Callers
  PROVE  /\ (exchange[c].pc \in {"send", "receive"}) <=> (mu = c)
         /\ DOMAIN exchange[c] = ExchangeFields /\ exchange[c].request \in Seq(Callers \X Nat)
         /\ exchange[c].pc # "done" => exchange[c].ok = FALSE
         /\ c # Nobody
BY SessionAssumption DEF SessionSound, CallerSound

\* Exchange returns.
LEMMA Leaves ==
  ASSUME SessionSound, NEW c \in Callers, mu = c \/ mu = Nobody, exchange[c].pc # "idle",
         NEW e, DOMAIN e = ExchangeFields, e.request = exchange[c].request,
         NEW ok, NEW answer, Leave(c, e, ok, answer),
         ok = FALSE \/ (ok = TRUE /\ \E n \in Lengths : answer = Response(e.request, n)),
         kind' = kind, DOMAIN device' = {"inbound", "outbound"}, AtRest',
         executed' \subseteq Requests \cup {e.request}
  PROVE  SessionSound'
<1> DEFINE f == [e EXCEPT !.pc = "done", !.ok = ok, !.answer = answer]
<1>1. mu' = Nobody /\ exchange' = [exchange EXCEPT ![c] = f]
  BY DEF Leave
<1>2. /\ DOMAIN f = ExchangeFields /\ f.pc = "done" /\ f.request = e.request
      /\ f.answer = answer
  BY DEF ExchangeFields
<1>3. f.ok = ok
  BY DEF ExchangeFields
<1> HIDE DEF f
<1>4. exchange'[c] = f
  BY <1>1 DEF SessionSound
<1>5. /\ e.request \in Seq(Callers \X Nat) /\ c # Nobody
  BY HolderIs
<1>6. CallerSound(c)'
  <2>1. mu' # c
    BY <1>1, <1>5
  <2>2. \/ exchange'[c].ok = FALSE
        \/ /\ exchange'[c].ok = TRUE /\ exchange'[c].pc = "done"
           /\ \E n \in Lengths : exchange'[c].answer = Response(exchange'[c].request, n)
    BY <1>2, <1>3, <1>4
  <2> QED
    BY <1>2, <1>4, <1>5, <2>1, <2>2 DEF CallerSound, Response
<1>7. \A d \in Callers \ {c} : mu # d /\ mu' # d
  BY <1>1, SessionAssumption
<1>8. /\ f.pc # "idle" /\ exchange[c].request = f.request
      /\ executed' \subseteq Requests \cup {f.request}
  BY <1>2
<1>9. mu' \in Callers \cup {Nobody}
  BY <1>1
<1> QED
  BY <1>1, <1>6, <1>7, <1>8, <1>9, OneMoves

\* A packet of the response to its own request reaches the caller.
LEMMA Receives ==
  ASSUME SessionSound, NEW c \in Callers, mu = c,
         NEW e, DOMAIN e = ExchangeFields, e.request = exchange[c].request, e.ok = FALSE,
         e.packets = <<>>,
         NEW n \in Lengths, NEW r, r = Response(e.request, n), FitsOf(kind, r),
         NEW k \in Nat, k < Len(OutOf(kind, r)), e.assembler = AsmOf(kind, r, k),
         Receive(c, e, OutOf(kind, r)[k + 1]),
         kind' = kind, DOMAIN device' = {"inbound", "outbound"}, device'.inbound = <<>>,
         device'.outbound = Rest(OutOf(kind, r), k + 1),
         executed' \subseteq Requests \cup {e.request}
  PROVE  SessionSound'
<1> DEFINE N == Len(OutOf(kind, r))
           a == AsmOf(kind, r, k + 1)
           f == [e EXCEPT !.assembler = a, !.pc = "receive"]
<1>1. kind \in {"nfc", "ble", "usb"} /\ exchange[c].pc # "idle" /\ FitsOf(kind, exchange[c].request)
      /\ exchange[c].request \in Seq(Callers \X Nat)
  <2>1. kind \in {"nfc", "ble", "usb"} /\ CallerSound(c)
    BY DEF SessionSound
  <2>2. exchange[c].pc \in {"send", "receive"}
    BY <2>1 DEF CallerSound
  <2> QED
    BY <2>1, <2>2 DEF CallerSound
<1>2. r \in Seq({e.request} \X Nat)
  <2> DEFINE q == e.request
  <2>1. r = Response(q, n)
    OBVIOUS
  <2> HIDE DEF q
  <2>2. r \in Seq({q} \X Nat)
    BY <2>1, PayloadsTyped
  <2> QED
    BY <2>2 DEF q
<1>3. OutOf(kind, r) \in Seq(OutSet(kind, r)) /\ N \in Nat \ {0}
  BY <1>2, OutTyped
<1>4. codecAdd(e.assembler, OutOf(kind, r)[k + 1]) = a
  <2>1. OutTakes(kind, r, k)
    BY <1>2, OutStep
  <2>2. codecAdd(e.assembler, OutOf(kind, r)[k + 1])
          = AddOf(kind, e.assembler, OutOf(kind, r)[k + 1])
    BY <1>1, CodecIs
  <2> QED
    BY <2>1, <2>2 DEF OutTakes
<1>5. k + 1 \in Nat /\ k + 1 <= N
  BY <1>3, SMT
<1>6. OutShows(kind, r, k + 1)
  BY <1>2, <1>5, OutHolds
<1>7. /\ a.failed = FALSE
      /\ k + 1 < N => a.done = FALSE
      /\ k + 1 = N => a.done = TRUE /\ a.buffer = r
  BY <1>6 DEF OutShows
<1> HIDE DEF a
<1>8. /\ DOMAIN f = ExchangeFields /\ f.pc = "receive" /\ f.request = e.request
      /\ f.assembler = a /\ f.packets = <<>> /\ f.ok = FALSE
  BY DEF ExchangeFields
<1>9. \/ a.done = TRUE /\ Leave(c, f, TRUE, a.buffer)
      \/ a.done = FALSE /\ exchange' = [exchange EXCEPT ![c] = f] /\ mu' = mu
  <2>1. a.done = TRUE \/ a.done = FALSE
    BY <1>3, <1>5, <1>7, SMT
  <2>2. CASE a.done = TRUE
    BY <1>4, <1>7, <2>2 DEF Receive
  <2>3. CASE a.done = FALSE
    BY <1>4, <1>7, <2>3 DEF Receive
  <2> QED
    BY <2>1, <2>2, <2>3
<1> HIDE DEF f
<1>10. CASE k + 1 = N
  <2>1. Leave(c, f, TRUE, r)
    BY <1>7, <1>9, <1>10
  <2>2. Rest(OutOf(kind, r), N) = <<>>
    BY <1>3, RestEnds
  <2>3. AtRest'
    BY <1>10, <2>2 DEF AtRest
  <2>4. \E l \in Lengths : r = Response(f.request, l)
    BY <1>8
  <2>5. f.request = exchange[c].request /\ executed' \subseteq Requests \cup {f.request}
    BY <1>8
  <2> QED
    BY <1>1, <1>8, <2>1, <2>3, <2>4, <2>5, Leaves
<1>11. CASE k + 1 < N
  <2>1. exchange' = [exchange EXCEPT ![c] = f] /\ mu' = mu
    BY <1>7, <1>9, <1>11
  <2>2. exchange'[c] = f
    BY <2>1 DEF SessionSound
  <2>3. Receiving(c, r, k + 1)'
    BY <1>8, <1>11, <2>2 DEF Receiving, a
  <2>4. CallerSound(c)'
    <3>1. /\ exchange'[c].request = e.request /\ exchange'[c].pc = "receive"
          /\ DOMAIN exchange'[c] = ExchangeFields /\ exchange'[c].ok = FALSE
      BY <1>8, <2>2
    <3>2. r = Response(exchange'[c].request, n) /\ k + 1 \in 0..Len(OutOf(kind', r))
      BY <1>3, <1>5, <3>1, SMT
    <3>3. \E l \in Lengths : \E j \in 0..Len(OutOf(kind', Response(exchange'[c].request, l))) :
            Receiving(c, Response(exchange[c].request, l), j)'
      BY <2>3, <3>2, ZenonT(40) DEF Receiving, Response
    <3>4. exchange'[c].request \in Seq(Callers \X Nat) /\ FitsOf(kind', exchange'[c].request)
          /\ mu' = c
      BY <1>1, <2>1, <3>1
    <3> QED
      BY <3>1, <3>3, <3>4 DEF CallerSound, Response
  <2>5. \A d \in Callers \ {c} : mu # d /\ mu' # d
    BY <2>1
  <2>6. /\ f.pc # "idle" /\ exchange[c].request = f.request
        /\ executed' \subseteq Requests \cup {f.request}
    BY <1>8
  <2>7. mu' \in Callers \cup {Nobody} /\ (mu' = Nobody => AtRest')
    BY <2>1, SessionAssumption
  <2> QED
    BY <2>1, <2>4, <2>5, <2>6, <2>7, OneMoves
<1> QED
  BY <1>3, <1>5, <1>10, <1>11, SMT

\* A call begins: it waits for the mutex, and its request counts as made.
LEMMA EnterSound ==
  ASSUME SessionSound, NEW c \in Callers, NEW n \in Lengths, Enter(c, n)
  PROVE  SessionSound'
<1> DEFINE f == [exchange[c] EXCEPT !.pc = "lock", !.request = Request(c, n)]
<1>1. /\ exchange[c].pc = "idle" /\ exchange' = [exchange EXCEPT ![c] = f]
      /\ UNCHANGED <<kind, mu, device, executed>>
  BY DEF Enter
<1>2. DOMAIN exchange[c] = ExchangeFields /\ exchange[c].ok = FALSE /\ mu # c
  BY <1>1, HolderIs
<1>3. /\ DOMAIN f = ExchangeFields /\ f.pc = "lock" /\ f.request = Request(c, n) /\ f.ok = FALSE
  BY <1>2 DEF ExchangeFields
<1> HIDE DEF f
<1>4. exchange'[c] = f
  BY <1>1 DEF SessionSound
<1>5. CallerSound(c)'
  <2>1. Request(c, n) \in Seq(Callers \X Nat)
    BY PayloadsTyped
  <2>2. mu' # c
    BY <1>1, <1>2
  <2> QED
    BY <1>3, <1>4, <2>1, <2>2 DEF CallerSound
<1>6. mu' \in Callers \cup {Nobody} /\ DOMAIN device' = {"inbound", "outbound"}
      /\ (mu' = Nobody => AtRest') /\ executed' \subseteq Requests \cup {f.request}
  BY <1>1 DEF SessionSound, AtRest
<1>7. f.pc # "idle"
  BY <1>3
<1>8. \A d \in Callers \ {c} : (mu # d /\ mu' # d) \/ (mu' = mu /\ device' = device)
  BY <1>1
<1>9. kind' = kind
  BY <1>1
<1> QED
  BY <1>1, <1>5, <1>6, <1>7, <1>8, <1>9, OneMoves

\* A caller gets the mutex: it fragments its request, or refuses one that does not fit.
LEMMA LockSound ==
  ASSUME SessionSound, NEW c \in Callers, Lock(c)
  PROVE  SessionSound'
<1>1. /\ exchange[c].pc = "lock" /\ mu = Nobody /\ UNCHANGED <<kind, device, executed>>
  BY DEF Lock
<1>2. /\ kind \in {"nfc", "ble", "usb"} /\ AtRest /\ DOMAIN device = {"inbound", "outbound"}
      /\ executed \subseteq Requests
  BY <1>1 DEF SessionSound
<1>3. /\ DOMAIN exchange[c] = ExchangeFields /\ exchange[c].ok = FALSE
      /\ exchange[c].request \in Seq(Callers \X Nat) /\ c # Nobody
  BY <1>1, HolderIs
<1> DEFINE p == exchange[c].request
           f == [exchange[c] EXCEPT !.pc = "send", !.assembler = codecAssembler,
                                    !.packets = codecFragment(exchange[c].request)]
<1>4. CASE ~payloadFits(p)
  <2>1. Leave(c, exchange[c], FALSE, <<>>)
    BY <1>4 DEF Lock
  <2>2. AtRest' /\ DOMAIN device' = {"inbound", "outbound"} /\ kind' = kind
        /\ executed' \subseteq Requests \cup {exchange[c].request} /\ exchange[c].pc # "idle"
    BY <1>1, <1>2 DEF AtRest
  <2> QED
    BY <1>1, <1>3, <2>1, <2>2, Leaves
<1>5. CASE payloadFits(p)
  <2>1. mu' = c /\ exchange' = [exchange EXCEPT ![c] = f]
    BY <1>5 DEF Lock
  <2>2. codecAssembler = AsmOf(kind, <<>>, 0) /\ codecFragment(p) = InOf(kind, p)
    BY <1>2, CodecIs
  <2>3. FitsOf(kind, p)
    BY <1>2, <1>5, CodecFits
  <2>4. InOf(kind, p) \in Seq(InSet(kind, p)) /\ Len(InOf(kind, p)) \in Nat \ {0}
    BY <1>3, InTyped
  <2>5. Rest(InOf(kind, p), 0) = InOf(kind, p)
    BY <2>4, RestEnds
  <2>6. CollectedOf(kind, p, 0) = <<>>
    <3>1. 0 * maxChunkSize = 0
      BY NfcAssumption, SMT
    <3>2. SubSeq(p, 1, 0) = <<>>
      BY <1>3, SMT
    <3> QED
      BY <3>1, <3>2 DEF CollectedOf, NfcCollected
  <2>7. /\ DOMAIN f = ExchangeFields /\ f.pc = "send" /\ f.request = p /\ f.ok = FALSE
        /\ f.assembler = AsmOf(kind, <<>>, 0) /\ f.packets = Rest(InOf(kind, p), 0)
    BY <1>3, <2>2, <2>5 DEF ExchangeFields
  <2>8. exchange'[c] = f
    BY <2>1 DEF SessionSound
  <2> HIDE DEF f
  <2>9. device' = device /\ kind' = kind /\ executed' = executed
    BY <1>1
  <2>10. Sending(c, 0)'
    <3>1. device'.inbound = CollectedOf(kind, p, 0) /\ (kind # "nfc" => device'.outbound = <<>>)
      BY <1>2, <2>6, <2>9 DEF AtRest
    <3>2. 0 < Len(InOf(kind, p))
      BY <2>4, SMT
    <3> QED
      BY <2>7, <2>8, <2>9, <3>1, <3>2 DEF Sending
  <2>11. CallerSound(c)'
    <3>1. /\ exchange'[c].request = p /\ exchange'[c].pc = "send"
          /\ DOMAIN exchange'[c] = ExchangeFields /\ exchange'[c].ok = FALSE
      BY <2>7, <2>8
    <3>2. 0 \in 0..Len(InOf(kind', exchange'[c].request))
      BY <2>4, <2>9, <3>1, SMT
    <3>3. \E k \in 0..Len(InOf(kind', exchange'[c].request)) : Sending(c, k)'
      BY <2>10, <3>2
    <3> QED
      BY <1>3, <2>1, <2>3, <2>9, <3>1, <3>3 DEF CallerSound
  <2>12. /\ f.pc # "idle" /\ exchange[c].request = f.request
         /\ executed' \subseteq Requests \cup {f.request}
    BY <1>2, <2>7, <2>9
  <2>13. /\ mu' \in Callers \cup {Nobody} /\ (mu' = Nobody => AtRest')
         /\ DOMAIN device' = {"inbound", "outbound"}
    BY <1>2, <1>3, <2>1, <2>9
  <2>14. \A d \in Callers \ {c} : mu # d /\ mu' # d
    BY <1>1, <2>1, SessionAssumption
  <2> QED
    BY <2>1, <2>9, <2>11, <2>12, <2>13, <2>14, OneMoves
<1> QED
  BY <1>4, <1>5

\* A caller whose context is cancelled while it waits leaves the session alone.
LEMMA LockCancelledSound ==
  ASSUME SessionSound, NEW c \in Callers, LockCancelled(c)
  PROVE  SessionSound'
<1> DEFINE f == [exchange[c] EXCEPT !.pc = "done"]
<1>1. /\ exchange[c].pc = "lock" /\ exchange' = [exchange EXCEPT ![c].pc = "done"]
      /\ UNCHANGED <<kind, mu, device, executed>>
  BY DEF LockCancelled
<1>2. /\ DOMAIN exchange[c] = ExchangeFields /\ exchange[c].ok = FALSE /\ mu # c
      /\ exchange[c].request \in Seq(Callers \X Nat)
  BY <1>1, HolderIs
<1>3. exchange' = [exchange EXCEPT ![c] = f]
  BY <1>1
<1>4. /\ DOMAIN f = ExchangeFields /\ f.pc = "done"
      /\ f.request = exchange[c].request /\ f.ok = FALSE
  BY <1>2 DEF ExchangeFields
<1> HIDE DEF f
<1>5. exchange'[c] = f
  BY <1>3 DEF SessionSound
<1>6. CallerSound(c)'
  BY <1>1, <1>2, <1>4, <1>5 DEF CallerSound
<1>7. mu' \in Callers \cup {Nobody} /\ DOMAIN device' = {"inbound", "outbound"}
      /\ (mu' = Nobody => AtRest') /\ executed' \subseteq Requests \cup {f.request}
  BY <1>1 DEF SessionSound, AtRest
<1>8. f.pc # "idle" /\ exchange[c].request = f.request /\ kind' = kind
  BY <1>1, <1>4
<1>9. \A d \in Callers \ {c} : (mu # d /\ mu' # d) \/ (mu' = mu /\ device' = device)
  BY <1>1
<1> QED
  BY <1>3, <1>6, <1>7, <1>8, <1>9, OneMoves

\* What holds of the caller that has the mutex.
LEMMA HolderSound ==
  ASSUME SessionSound, NEW c \in Callers, exchange[c].pc \in {"send", "receive"}
  PROVE  /\ mu = c /\ DOMAIN exchange[c] = ExchangeFields /\ exchange[c].ok = FALSE
         /\ exchange[c].request \in Seq(Callers \X Nat) /\ FitsOf(kind, exchange[c].request)
         /\ kind \in {"nfc", "ble", "usb"} /\ DOMAIN device = {"inbound", "outbound"}
         /\ executed \subseteq Requests
<1>1. /\ kind \in {"nfc", "ble", "usb"} /\ DOMAIN device = {"inbound", "outbound"}
      /\ executed \subseteq Requests /\ CallerSound(c)
  BY DEF SessionSound
<1>2. exchange[c].ok = FALSE
  BY HolderIs
<1> QED
  BY <1>1, <1>2 DEF CallerSound

\* What a caller that reads an answer has of it.
LEMMA ReceivingIs ==
  ASSUME SessionSound, NEW c \in Callers, exchange[c].pc = "receive"
  PROVE  \E n \in Lengths : \E k \in Nat : Receiving(c, Response(exchange[c].request, n), k)
<1> DEFINE R(n) == Response(exchange[c].request, n)
<1>1. CallerSound(c)
  BY DEF SessionSound
<1>2. PICK n \in Lengths : \E k \in 0..Len(OutOf(kind, R(n))) : Receiving(c, R(n), k)
  BY <1>1 DEF CallerSound
<1>3. PICK k \in 0..Len(OutOf(kind, R(n))) : Receiving(c, R(n), k)
  BY <1>2
<1>4. k \in Nat
  BY <1>3, SMT
<1> QED
  BY <1>3, <1>4

\* The holder reads the next packet of its answer.
LEMMA ReadPacketSound ==
  ASSUME SessionSound, NEW c \in Callers, ReadPacket(c)
  PROVE  SessionSound'
<1> DEFINE e == exchange[c]
<1>1. /\ kind # "nfc" /\ e.pc = "receive" /\ device.outbound # <<>>
      /\ Receive(c, e, Head(device.outbound))
      /\ device' = [device EXCEPT !.outbound = Tail(@)]
      /\ UNCHANGED <<kind, executed>>
  BY DEF ReadPacket
<1>2. /\ mu = c /\ DOMAIN e = ExchangeFields /\ e.ok = FALSE
      /\ DOMAIN device = {"inbound", "outbound"} /\ executed \subseteq Requests
  BY <1>1, HolderSound
<1>3. PICK n \in Lengths : \E k \in Nat : Receiving(c, Response(e.request, n), k)
  BY <1>1, ReceivingIs
<1>4. PICK k \in Nat : Receiving(c, Response(e.request, n), k)
  BY <1>3
<1> DEFINE r == Response(e.request, n)
           s == OutOf(kind, r)
<1>5. /\ FitsOf(kind, r) /\ k < Len(s) /\ e.packets = <<>> /\ e.assembler = AsmOf(kind, r, k)
      /\ device.inbound = <<>> /\ device.outbound = Rest(s, k)
  BY <1>4 DEF Receiving
<1>6. r \in Seq({e.request} \X Nat)
  <2> DEFINE q == e.request
  <2> HIDE DEF q
  <2>1. Response(q, n) \in Seq({q} \X Nat)
    BY PayloadsTyped
  <2> QED
    BY <2>1 DEF q
<1> HIDE DEF r
<1>7. s \in Seq(OutSet(kind, r)) /\ Len(s) \in Nat
  BY <1>6, OutTyped
<1>8. Head(Rest(s, k)) = s[k + 1] /\ Tail(Rest(s, k)) = Rest(s, k + 1)
  BY <1>5, <1>7, RestTaken
<1>9. /\ DOMAIN device' = {"inbound", "outbound"} /\ device'.inbound = <<>>
      /\ device'.outbound = Rest(s, k + 1)
  BY <1>1, <1>2, <1>5, <1>8
<1>10. Receive(c, e, s[k + 1])
  BY <1>1, <1>5, <1>8
<1>11. executed' \subseteq Requests \cup {e.request} /\ kind' = kind
  BY <1>1, <1>2
<1>12. r = Response(e.request, n)
  BY DEF r
<1> HIDE DEF e, s
<1> QED
  BY <1>2, <1>5, <1>9, <1>10, <1>11, <1>12, Receives DEF e, s

\* Exchange fails half way: only a card that has the whole command is left at rest.
LEMMA PacketFailsSound ==
  ASSUME SessionSound, NEW c \in Callers, PacketFails(c), spoiled' = FALSE
  PROVE  SessionSound'
<1> DEFINE e == exchange[c]
<1>1. /\ e.pc \in {"send", "receive"} /\ Leave(c, e, FALSE, <<>>)
      /\ UNCHANGED <<kind, device, executed>>
      /\ spoiled' = (spoiled \/ kind # "nfc" \/ e.pc = "send")
  BY DEF PacketFails
<1>2. kind = "nfc" /\ e.pc = "receive"
  BY <1>1
<1>3. /\ mu = c /\ DOMAIN e = ExchangeFields /\ DOMAIN device = {"inbound", "outbound"}
      /\ executed \subseteq Requests
  BY <1>1, HolderSound
<1>4. PICK n \in Lengths : \E k \in Nat : Receiving(c, Response(e.request, n), k)
  BY <1>2, ReceivingIs
<1>5. device.inbound = <<>>
  BY <1>4 DEF Receiving
<1>6. AtRest' /\ DOMAIN device' = {"inbound", "outbound"} /\ kind' = kind
      /\ executed' \subseteq Requests \cup {e.request} /\ e.pc # "idle"
  BY <1>1, <1>2, <1>3, <1>5 DEF AtRest
<1> QED
  BY <1>1, <1>3, <1>6, Leaves

\* The invariant holds when the session is opened.
LEMMA SessionInitSound == SessionInit => PacketSessionInv
<1> SUFFICES ASSUME SessionInit PROVE PacketSessionInv
  OBVIOUS
<1>1. /\ DOMAIN NoExchange = ExchangeFields /\ NoExchange.pc = "idle"
      /\ NoExchange.request = <<>> /\ NoExchange.ok = FALSE
  BY DEF NoExchange, ExchangeFields
<1>2. /\ kind \in {"nfc", "ble", "usb"} /\ mu = Nobody /\ DOMAIN exchange = Callers
      /\ (\A c \in Callers : exchange[c] = NoExchange)
      /\ DOMAIN device = {"inbound", "outbound"} /\ device.inbound = <<>>
      /\ device.outbound = <<>> /\ executed = {} /\ spoiled = FALSE
  BY DEF SessionInit
<1>3. ASSUME NEW c \in Callers PROVE CallerSound(c)
  <2>1. <<>> \in Seq(Callers \X Nat) /\ mu # c
    BY <1>2, SessionAssumption, SMT
  <2> QED
    BY <1>1, <1>2, <2>1 DEF CallerSound
<1> QED
  BY <1>2, <1>3 DEF PacketSessionInv, SessionSound, AtRest

\* The holder of the mutex moves on and keeps it, and its Exchange is still sound.
LEMMA HolderMoves ==
  ASSUME SessionSound, NEW c \in Callers, exchange[c].pc \in {"send", "receive"},
         NEW e, exchange' = [exchange EXCEPT ![c] = e], mu' = mu, kind' = kind,
         DOMAIN device' = {"inbound", "outbound"}, executed' \subseteq Requests \cup {e.request},
         e.request = exchange[c].request, e.pc # "idle", CallerSound(c)'
  PROVE  SessionSound'
<1>1. mu = c
  BY HolderSound
<1>2. \A d \in Callers \ {c} : mu # d /\ mu' # d
  BY <1>1
<1>3. mu' \in Callers \cup {Nobody} /\ (mu' = Nobody => AtRest')
  BY <1>1, SessionAssumption
<1> QED
  BY <1>2, <1>3, OneMoves

\* The next packet of the request is out, and it is not the last one.
LEMMA Sends ==
  ASSUME SessionSound, NEW c \in Callers, exchange[c].pc = "send",
         NEW e, exchange' = [exchange EXCEPT ![c] = e], mu' = mu, kind' = kind,
         DOMAIN device' = {"inbound", "outbound"}, executed' \subseteq Requests \cup {e.request},
         DOMAIN e = ExchangeFields, e.request = exchange[c].request, e.pc = "send", e.ok = FALSE,
         NEW k \in Nat, k < Len(InOf(kind, e.request)), e.packets = Rest(InOf(kind, e.request), k),
         e.assembler = AsmOf(kind, <<>>, 0),
         device'.inbound = CollectedOf(kind, e.request, k),
         kind # "nfc" => device'.outbound = <<>>
  PROVE  SessionSound'
<1>1. /\ mu = c /\ e.request \in Seq(Callers \X Nat) /\ FitsOf(kind, e.request)
  BY HolderSound
<1>2. exchange'[c] = e
  BY DEF SessionSound
<1>3. Sending(c, k)'
  BY <1>2 DEF Sending
<1>4. k \in 0..Len(InOf(kind', exchange'[c].request))
  <2>1. Len(InOf(kind, e.request)) \in Nat
    BY <1>1, InTyped
  <2> QED
    BY <1>2, <2>1, SMT
<1>5. \E j \in 0..Len(InOf(kind', exchange'[c].request)) : Sending(c, j)'
  BY <1>3, <1>4
<1>6. CallerSound(c)'
  BY <1>1, <1>2, <1>5 DEF CallerSound
<1> QED
  BY <1>6, HolderMoves

\* The request is out, and the response is there to be read.
LEMMA Answers ==
  ASSUME SessionSound, NEW c \in Callers, exchange[c].pc = "send",
         NEW e, exchange' = [exchange EXCEPT ![c] = e], mu' = mu, kind' = kind,
         DOMAIN device' = {"inbound", "outbound"}, executed' \subseteq Requests \cup {e.request},
         DOMAIN e = ExchangeFields, e.request = exchange[c].request, e.pc = "receive", e.ok = FALSE,
         e.packets = <<>>, e.assembler = AsmOf(kind, <<>>, 0),
         NEW n \in Lengths, NEW r, r = Response(e.request, n), FitsOf(kind, r),
         device'.inbound = <<>>, device'.outbound = OutOf(kind, r)
  PROVE  SessionSound'
<1>1. /\ mu = c /\ e.request \in Seq(Callers \X Nat) /\ FitsOf(kind, e.request)
  BY HolderSound
<1>2. exchange'[c] = e
  BY DEF SessionSound
<1>3. r \in Seq({e.request} \X Nat)
  <2> DEFINE q == e.request
  <2>1. r = Response(q, n)
    OBVIOUS
  <2> HIDE DEF q
  <2>2. r \in Seq({q} \X Nat)
    BY <2>1, PayloadsTyped, SMT
  <2> QED
    BY <2>2 DEF q
<1>4. OutOf(kind, r) \in Seq(OutSet(kind, r)) /\ Len(OutOf(kind, r)) \in Nat \ {0}
  BY <1>3, OutTyped
<1>5. Rest(OutOf(kind, r), 0) = OutOf(kind, r)
  BY <1>4, RestEnds
<1>6. AsmOf(kind, r, 0) = AsmOf(kind, <<>>, 0)
  BY AsmStarts
<1>7. Receiving(c, r, 0)'
  <2>1. 0 < Len(OutOf(kind, r))
    BY <1>4, SMT
  <2> QED
    BY <1>2, <1>5, <1>6, <2>1 DEF Receiving
<1>8. CallerSound(c)'
  <2>1. r = Response(exchange'[c].request, n) /\ 0 \in 0..Len(OutOf(kind', r))
    BY <1>2, <1>4, SMT
  <2>2. \E l \in Lengths : \E j \in 0..Len(OutOf(kind', Response(exchange'[c].request, l))) :
          Receiving(c, Response(exchange[c].request, l), j)'
    BY <1>7, <2>1, ZenonT(40) DEF Receiving, Response
  <2> QED
    BY <1>1, <1>2, <2>2 DEF CallerSound, Response
<1>9. e.pc # "idle"
  OBVIOUS
<1> QED
  BY <1>8, <1>9, HolderMoves

\* What a caller that writes its request has of it.
LEMMA SendingIs ==
  ASSUME SessionSound, NEW c \in Callers, exchange[c].pc = "send"
  PROVE  \E k \in Nat : Sending(c, k)
<1>1. CallerSound(c)
  BY DEF SessionSound
<1>2. PICK k \in 0..Len(InOf(kind, exchange[c].request)) : Sending(c, k)
  BY <1>1 DEF CallerSound
<1>3. k \in Nat
  BY <1>2, SMT
<1> QED
  BY <1>2, <1>3

\* The holder writes a packet of its request: the device assembles it, and executes the
\* request with the last packet.
LEMMA WritePacketSound ==
  ASSUME SessionSound, NEW c \in Callers, NEW n \in Lengths, WritePacket(c, n)
  PROVE  SessionSound'
<1> DEFINE e == exchange[c]
           p == e.request
           s == OutOf(kind, p)
           after == PeerAfter(Head(e.packets), n)
           f == [e EXCEPT !.packets = Tail(e.packets),
                          !.pc = IF Len(e.packets) = 1 THEN "receive" ELSE "send"]
           r == Response(p, n)
<1>1. /\ kind # "nfc" /\ e.pc = "send" /\ payloadFits(Response(<<>>, n))
      /\ device' = after.device /\ executed' = executed \cup after.ran
      /\ exchange' = [exchange EXCEPT ![c] = f]
      /\ UNCHANGED <<kind, mu>>
  <2>1. kind # "nfc" /\ e.pc = "send" /\ payloadFits(Response(<<>>, n)) /\ UNCHANGED <<kind, mu>>
    BY DEF WritePacket
  <2>2. device' = after.device /\ executed' = executed \cup after.ran
    BY DEF WritePacket
  <2>3. exchange' = [exchange EXCEPT ![c] = f]
    BY DEF WritePacket
  <2> QED
    BY <2>1, <2>2, <2>3
<1>2. /\ mu = c /\ DOMAIN e = ExchangeFields /\ e.ok = FALSE
      /\ p \in Seq(Callers \X Nat) /\ FitsOf(kind, p) /\ kind \in {"nfc", "ble", "usb"}
      /\ DOMAIN device = {"inbound", "outbound"} /\ executed \subseteq Requests
  BY <1>1, HolderSound
<1>3. PICK k \in Nat : Sending(c, k)
  BY <1>1, SendingIs
<1>4. InOf(kind, p) = s
  BY <1>1 DEF InOf
<1>5. /\ k < Len(s) /\ e.packets = Rest(s, k) /\ e.assembler = AsmOf(kind, <<>>, 0)
      /\ device.inbound = CollectedOf(kind, p, k) /\ device.outbound = <<>>
  BY <1>1, <1>3, <1>4 DEF Sending
<1>6. s \in Seq(OutSet(kind, p)) /\ Len(s) \in Nat \ {0}
  BY <1>2, OutTyped
<1>7. /\ e.packets # <<>> /\ Head(e.packets) = s[k + 1] /\ Tail(e.packets) = Rest(s, k + 1)
  BY <1>5, <1>6, RestTaken, ZenonT(40)
<1>8. Len(e.packets) = Len(s) - k
  <2>1. k + 1 \in 1..(Len(s) + 1) /\ Len(s) \in ((k + 1) - 1)..Len(s)
        /\ Len(s) - (k + 1) + 1 = Len(s) - k
    BY <1>5, <1>6, SMTT(30)
  <2>2. Len(SubSeq(s, k + 1, Len(s))) = Len(s) - (k + 1) + 1
    BY <1>6, <2>1, Part, SMTT(30)
  <2> QED
    BY <1>5, <2>1, <2>2 DEF Rest
<1>9. (IF device.inbound = <<>> THEN codecAssembler ELSE device.inbound[1]) = AsmOf(kind, p, k)
  <2>1. codecAssembler = AsmOf(kind, <<>>, 0) /\ AsmOf(kind, p, 0) = AsmOf(kind, <<>>, 0)
    BY <1>2, CodecIs, AsmStarts
  <2>2. CASE k = 0
    <3>1. device.inbound = <<>>
      BY <1>1, <1>5, <2>2, ZenonT(40) DEF CollectedOf
    <3> QED
      BY <2>1, <2>2, <3>1
  <2>3. CASE k # 0
    <3>1. device.inbound = <<AsmOf(kind, p, k)>>
      BY <1>1, <1>5, <2>3 DEF CollectedOf
    <3> QED
      BY <3>1, SMT
  <2> QED
    BY <2>2, <2>3
<1> DEFINE b == AsmOf(kind, p, k + 1)
<1>10. codecAdd(AsmOf(kind, p, k), s[k + 1]) = b
  <2>1. OutTakes(kind, p, k)
    BY <1>2, <1>5, OutStep
  <2>2. codecAdd(AsmOf(kind, p, k), s[k + 1]) = AddOf(kind, AsmOf(kind, p, k), s[k + 1])
    BY <1>2, CodecIs
  <2> QED
    BY <2>1, <2>2 DEF OutTakes
<1>11. k + 1 \in Nat /\ k + 1 <= Len(s)
  BY <1>5, <1>6, SMT
<1>12. /\ b.failed = FALSE
       /\ k + 1 < Len(s) => b.done = FALSE
       /\ k + 1 = Len(s) => b.done = TRUE /\ b.buffer = p
  <2>1. OutShows(kind, p, k + 1)
    BY <1>2, <1>11, OutHolds
  <2> QED
    BY <2>1 DEF OutShows
<1>13. after = IF b.failed THEN [ran |-> {}, device |-> [device EXCEPT !.inbound = <<>>]]
               ELSE IF b.done
               THEN [ran |-> {b.buffer},
                     device |-> [inbound |-> <<>>,
                                 outbound |-> device.outbound
                                              \o codecFragment(Response(b.buffer, n))]]
               ELSE [ran |-> {}, device |-> [device EXCEPT !.inbound = <<b>>]]
  BY <1>7, <1>9, <1>10 DEF PeerAfter
<1>14. /\ DOMAIN f = ExchangeFields /\ f.request = p /\ f.ok = FALSE
       /\ f.assembler = AsmOf(kind, <<>>, 0) /\ f.packets = Rest(s, k + 1)
       /\ f.pc = IF Len(e.packets) = 1 THEN "receive" ELSE "send"
  BY <1>2, <1>5, <1>7 DEF ExchangeFields
<1> HIDE DEF f, after, b
<1>15. CASE k + 1 < Len(s)
  <2>1. after = [ran |-> {}, device |-> [device EXCEPT !.inbound = <<b>>]]
    BY <1>12, <1>13, <1>15
  <2>2. device' = [device EXCEPT !.inbound = <<b>>] /\ executed' = executed
    BY <1>1, <2>1
  <2>3. /\ DOMAIN device' = {"inbound", "outbound"} /\ device'.inbound = <<b>>
        /\ device'.outbound = <<>>
    BY <1>2, <1>5, <2>2
  <2>4. CollectedOf(kind, p, k + 1) = <<b>>
    BY <1>1, <1>11, SMTT(30) DEF CollectedOf, b
  <2>5. f.pc = "send"
    BY <1>6, <1>8, <1>14, <1>15, SMT
  <2>6. executed' \subseteq Requests \cup {f.request} /\ kind' = kind /\ mu' = mu
    BY <1>1, <1>2, <2>2
  <2>7. /\ device'.inbound = CollectedOf(kind, f.request, k + 1)
        /\ (kind # "nfc" => device'.outbound = <<>>)
        /\ k + 1 < Len(InOf(kind, f.request)) /\ f.packets = Rest(InOf(kind, f.request), k + 1)
        /\ f.request = exchange[c].request /\ k + 1 \in Nat
    BY <1>4, <1>11, <1>14, <1>15, <2>3, <2>4
  <2> QED
    BY <1>1, <1>14, <2>3, <2>5, <2>6, <2>7, Sends
<1>16. CASE k + 1 = Len(s)
  <2>1. codecFragment(Response(p, n)) = InOf(kind, Response(p, n))
    BY <1>2, CodecIs
  <2>2. InOf(kind, r) = OutOf(kind, r)
    BY <1>1 DEF InOf
  <2>3. after = [ran |-> {p}, device |-> [inbound |-> <<>>, outbound |-> <<>> \o OutOf(kind, r)]]
    BY <1>5, <1>12, <1>13, <1>16, <2>1, <2>2
  <2>4. <<>> \o OutOf(kind, r) = OutOf(kind, r)
    <3>1. r \in Seq({p} \X Nat)
      <4> HIDE DEF p
      <4> QED
        BY PayloadsTyped
    <3>2. OutOf(kind, r) \in Seq(OutSet(kind, r))
      BY <3>1, OutTyped
    <3> QED
      BY <3>2, SMT
  <2>5. device' = [inbound |-> <<>>, outbound |-> OutOf(kind, r)] /\ executed' = executed \cup {p}
    BY <1>1, <2>3, <2>4
  <2>6. f.packets = <<>>
    BY <1>6, <1>14, <1>16, RestEnds
  <2>7. f.pc = "receive"
    BY <1>6, <1>8, <1>14, <1>16, SMT
  <2>8. FitsOf(kind, r)
    <3>1. FitsOf(kind, Response(<<>>, n))
      BY <1>1, <1>2, CodecFits
    <3> HIDE DEF p
    <3> QED
      BY <3>1, FitsByLength
  <2>9. /\ DOMAIN device' = {"inbound", "outbound"} /\ device'.inbound = <<>>
        /\ device'.outbound = OutOf(kind, r)
    BY <2>5
  <2>10. executed' \subseteq Requests \cup {f.request} /\ kind' = kind /\ mu' = mu
    BY <1>1, <1>2, <1>14, <2>5
  <2>11. f.request = exchange[c].request /\ r = Response(f.request, n)
    BY <1>14
  <2> HIDE DEF r
  <2> QED
    BY <1>1, <1>14, <2>6, <2>7, <2>8, <2>9, <2>10, <2>11, Answers
<1> QED
  BY <1>6, <1>11, <1>15, <1>16, SMT

\* What Transceive does with what the card did.
Transceives(c, after, rest) ==
  /\ kind = "nfc" /\ exchange[c].pc \in {"send", "receive"} /\ kind' = kind
  /\ device' = after.device /\ executed' = executed \cup after.ran
  /\ rest.packets = <<>> => Receive(c, rest, after.reply)
  /\ rest.packets # <<>> /\ ValidateInterimResponse(after.reply) =>
       exchange' = [exchange EXCEPT ![c] = rest] /\ mu' = mu

\* The steps of Transceive, without the cases of the card.
LEMMA TransceiveIs ==
  ASSUME NEW c \in Callers, NEW n \in Lengths, NEW refuses, Transceive(c, n, refuses),
         NEW packet, packet = IF exchange[c].pc = "send" THEN Head(exchange[c].packets)
                              ELSE GetResponsePacket,
         NEW after, after = CardAfter(packet, n, refuses),
         NEW rest, rest = IF exchange[c].pc = "send"
                          THEN [exchange[c] EXCEPT !.packets = Tail(exchange[c].packets)]
                          ELSE exchange[c]
  PROVE  Transceives(c, after, rest)
<1>1. /\ kind = "nfc" /\ exchange[c].pc \in {"send", "receive"} /\ kind' = kind
      /\ device' = after.device /\ executed' = executed \cup after.ran
  BY DEF Transceive
<1>2. IF rest.packets # <<>>
      THEN IF ValidateInterimResponse(after.reply)
           THEN exchange' = [exchange EXCEPT ![c] = rest] /\ mu' = mu
           ELSE Leave(c, rest, FALSE, <<>>)
      ELSE Receive(c, rest, after.reply)
  BY DEF Transceive
<1> QED
  BY <1>1, <1>2 DEF Transceives

\* A card refuses to go on with its answer: Exchange fails, and the next command makes the
\* card drop the rest.
LEMMA RefusedSound ==
  ASSUME SessionSound, NEW c \in Callers, NEW n \in Lengths, Transceive(c, n, TRUE),
         spoiled' = FALSE
  PROVE  SessionSound'
<1> DEFINE e == exchange[c]
           no == [data |-> <<>>, sw |-> "error"]
           after == CardAfter(GetResponsePacket, n, TRUE)
<1>1. e.pc = "receive" /\ kind = "nfc"
  BY DEF Transceive
<1>2. after = [reply |-> no, ran |-> {}, device |-> device]
  BY DEF CardAfter
<1>3. PICK m \in Lengths : \E k \in Nat : Receiving(c, Response(e.request, m), k)
  BY <1>1, ReceivingIs
<1>4. PICK k \in Nat : Receiving(c, Response(e.request, m), k)
  BY <1>3
<1> DEFINE r == Response(e.request, m)
<1>5. /\ e.packets = <<>> /\ e.assembler = NfcHeld(r, k) /\ device.inbound = <<>>
  BY <1>1, <1>4 DEF Receiving, AsmOf
<1> HIDE DEF after
<1>6. /\ device' = after.device /\ executed' = executed \cup after.ran /\ kind' = kind
      /\ Receive(c, e, after.reply)
  <2>1. GetResponsePacket = IF exchange[c].pc = "send" THEN Head(exchange[c].packets)
                            ELSE GetResponsePacket
    BY <1>1
  <2>2. e = IF exchange[c].pc = "send"
            THEN [exchange[c] EXCEPT !.packets = Tail(exchange[c].packets)]
            ELSE exchange[c]
    BY <1>1
  <2> DEFINE y == TRUE
  <2>3. Transceive(c, n, y) /\ after = CardAfter(GetResponsePacket, n, y)
    BY DEF after
  <2> HIDE DEF y, e
  <2>4. Transceives(c, after, e)
    BY <2>1, <2>2, <2>3, TransceiveIs
  <2> QED
    BY <1>5, <2>4 DEF Transceives, e
<1>7. after.device = device /\ after.ran = {} /\ after.reply = no
  BY <1>2
<1> DEFINE a == nfcAdd(e.assembler, no)
           f == [e EXCEPT !.assembler = a, !.pc = "receive"]
<1>8. codecAdd(e.assembler, no) = a
  BY <1>1 DEF codecAdd
<1>9. a.failed = TRUE
  <2>1. DOMAIN e.assembler = {"buffer", "done", "failed"}
    BY <1>5 DEF NfcHeld, nfcAssembler, NfcAccepted, NfcRecord
  <2>2. no.sw \notin {"9000", "61xx"}
    OBVIOUS
  <2>3. (no.sw \notin {"9000", "61xx"}) = TRUE
    BY <2>2
  <2>4. a.failed = (no.sw \notin {"9000", "61xx"})
    BY <2>1 DEF nfcAdd
  <2> QED
    BY <2>3, <2>4
<1> HIDE DEF a, no
<1>10. Leave(c, f, FALSE, <<>>)
  BY <1>6, <1>7, <1>8, <1>9 DEF Receive
<1>11. /\ mu = c /\ DOMAIN e = ExchangeFields /\ DOMAIN device = {"inbound", "outbound"}
       /\ executed \subseteq Requests
  BY <1>1, HolderSound
<1>12. DOMAIN f = ExchangeFields /\ f.request = e.request
  BY <1>11 DEF ExchangeFields
<1> HIDE DEF f
<1>13. AtRest' /\ DOMAIN device' = {"inbound", "outbound"} /\ kind' = kind
       /\ executed' \subseteq Requests \cup {f.request} /\ e.pc # "idle"
  BY <1>1, <1>5, <1>6, <1>7, <1>11, <1>12 DEF AtRest
<1> QED
  BY <1>10, <1>11, <1>12, <1>13, Leaves

\* GET RESPONSE brings the next piece.
LEMMA GetResponseSound ==
  ASSUME SessionSound, NEW c \in Callers, NEW n \in Lengths, Transceive(c, n, FALSE),
         exchange[c].pc = "receive"
  PROVE  SessionSound'
<1> DEFINE e == exchange[c]
           after == CardAfter(GetResponsePacket, n, FALSE)
<1>1. kind = "nfc"
  BY DEF Transceive
<1>2. /\ mu = c /\ DOMAIN e = ExchangeFields /\ e.ok = FALSE
      /\ DOMAIN device = {"inbound", "outbound"} /\ executed \subseteq Requests
  BY HolderSound
<1>3. PICK m \in Lengths : \E k \in Nat : Receiving(c, Response(e.request, m), k)
  BY ReceivingIs
<1>4. PICK k \in Nat : Receiving(c, Response(e.request, m), k)
  BY <1>3
<1> DEFINE r == Response(e.request, m)
           s == OutOf(kind, r)
<1>5. /\ FitsOf(kind, r) /\ k < Len(s) /\ e.packets = <<>> /\ e.assembler = AsmOf(kind, r, k)
      /\ device.inbound = <<>> /\ device.outbound = Rest(s, k)
  BY <1>4 DEF Receiving
<1>6. r \in Seq({e.request} \X Nat)
  <2> DEFINE q == e.request
  <2> HIDE DEF q
  <2>1. Response(q, m) \in Seq({q} \X Nat)
    BY PayloadsTyped
  <2> QED
    BY <2>1 DEF q
<1>12. r = Response(e.request, m)
  OBVIOUS
<1> HIDE DEF r
<1>7. s \in Seq(OutSet(kind, r)) /\ Len(s) \in Nat
  BY <1>6, OutTyped
<1>8. Rest(s, k) # <<>> /\ Head(Rest(s, k)) = s[k + 1] /\ Tail(Rest(s, k)) = Rest(s, k + 1)
  BY <1>5, <1>7, RestTaken
<1>9. after = [reply |-> Head(device.outbound), ran |-> {},
               device |-> [device EXCEPT !.outbound = Tail(device.outbound)]]
  BY <1>5, <1>8 DEF CardAfter, GetResponsePacket
<1> HIDE DEF after
<1>10. /\ device' = after.device /\ executed' = executed \cup after.ran /\ kind' = kind
       /\ Receive(c, e, after.reply)
  <2>1. GetResponsePacket = IF exchange[c].pc = "send" THEN Head(exchange[c].packets)
                            ELSE GetResponsePacket
    OBVIOUS
  <2>2. e = IF exchange[c].pc = "send"
            THEN [exchange[c] EXCEPT !.packets = Tail(exchange[c].packets)]
            ELSE exchange[c]
    OBVIOUS
  <2> DEFINE y == FALSE
  <2>3. Transceive(c, n, y) /\ after = CardAfter(GetResponsePacket, n, y)
    BY DEF after
  <2> HIDE DEF y, e
  <2>4. Transceives(c, after, e)
    BY <2>1, <2>2, <2>3, TransceiveIs
  <2> QED
    BY <1>5, <2>4 DEF Transceives, e
<1>11. /\ Receive(c, e, s[k + 1]) /\ executed' \subseteq Requests \cup {e.request}
       /\ DOMAIN device' = {"inbound", "outbound"} /\ device'.inbound = <<>>
       /\ device'.outbound = Rest(s, k + 1)
  BY <1>2, <1>5, <1>8, <1>9, <1>10
<1> HIDE DEF e, s
<1> QED
  BY <1>2, <1>5, <1>10, <1>11, <1>12, Receives DEF e, s

\* A packet of a command reaches the card, which executes the last one.
LEMMA CommandSound ==
  ASSUME SessionSound, NEW c \in Callers, NEW n \in Lengths, Transceive(c, n, FALSE),
         exchange[c].pc = "send"
  PROVE  SessionSound'
<1> DEFINE e == exchange[c]
           p == e.request
           s == nfcFragment(p)
           r == Response(p, n)
           f == [e EXCEPT !.packets = Tail(e.packets)]
<1>1. kind = "nfc"
  BY DEF Transceive
<1>2. /\ mu = c /\ DOMAIN e = ExchangeFields /\ e.ok = FALSE /\ p \in Seq(Callers \X Nat)
      /\ DOMAIN device = {"inbound", "outbound"} /\ executed \subseteq Requests
  BY HolderSound
<1>3. PICK k \in Nat : Sending(c, k)
  BY SendingIs
<1>4. InOf(kind, p) = s
  BY <1>1 DEF InOf
<1>5. /\ k < Len(s) /\ e.packets = Rest(s, k) /\ e.assembler = AsmOf(kind, <<>>, 0)
      /\ device.inbound = NfcCollected(p, k)
  BY <1>1, <1>3, <1>4 DEF Sending, CollectedOf
<1>6. s \in Seq(NfcPacketsOf(p)) /\ Len(s) \in Nat \ {0}
  BY <1>2, NfcPackets
<1>7. /\ e.packets # <<>> /\ Head(e.packets) = s[k + 1] /\ Tail(e.packets) = Rest(s, k + 1)
  BY <1>5, <1>6, RestTaken
<1>8. NfcBrings(p, k)
  BY <1>2, <1>5, NfcCommand
<1> DEFINE q == s[k + 1]
           after == CardAfter(q, n, FALSE)
<1>9. q.ins = "command"
  BY <1>8 DEF NfcBrings
<1>10. /\ DOMAIN f = ExchangeFields /\ f.pc = "send" /\ f.request = p /\ f.ok = FALSE
       /\ f.assembler = AsmOf(kind, <<>>, 0) /\ f.packets = Rest(s, k + 1)
  BY <1>2, <1>5, <1>7 DEF ExchangeFields
<1>11. Transceives(c, after, f)
  <2>1. q = IF exchange[c].pc = "send" THEN Head(exchange[c].packets) ELSE GetResponsePacket
    BY <1>7
  <2>2. f = IF exchange[c].pc = "send"
            THEN [exchange[c] EXCEPT !.packets = Tail(exchange[c].packets)]
            ELSE exchange[c]
    OBVIOUS
  <2> DEFINE y == FALSE
  <2>3. Transceive(c, n, y) /\ after = CardAfter(q, n, y)
    OBVIOUS
  <2> HIDE DEF y, f, q, after
  <2> QED
    BY <2>1, <2>2, <2>3, TransceiveIs
<1>12. k + 1 \in Nat /\ k + 1 <= Len(s)
  BY <1>5, <1>6, SMT
<1>13. CASE k + 1 < Len(s)
  <2>1. q.chained = TRUE /\ NfcCollected(p, k) \o q.data = NfcCollected(p, k + 1)
    BY <1>8, <1>13 DEF NfcBrings
  <2> HIDE DEF q, p
  <2>2. after = [reply |-> [data |-> <<>>, sw |-> "9000"], ran |-> {},
                 device |-> [inbound |-> NfcCollected(p, k + 1), outbound |-> <<>>]]
    BY <1>5, <1>9, <2>1 DEF CardAfter
  <2> HIDE DEF after, f
  <2>3. ValidateInterimResponse(after.reply)
    BY <2>2 DEF ValidateInterimResponse
  <2>4. f.packets # <<>>
    BY <1>6, <1>10, <1>12, <1>13, RestTaken
  <2>5. exchange' = [exchange EXCEPT ![c] = f] /\ mu' = mu /\ kind' = kind
    BY <1>11, <2>3, <2>4 DEF Transceives
  <2>6. /\ device' = [inbound |-> NfcCollected(p, k + 1), outbound |-> <<>>] /\ executed' = executed
    BY <1>11, <2>2 DEF Transceives
  <2>7. /\ DOMAIN device' = {"inbound", "outbound"}
        /\ device'.inbound = CollectedOf(kind, f.request, k + 1)
        /\ (kind # "nfc" => device'.outbound = <<>>)
    BY <1>1, <1>10, <2>6 DEF CollectedOf
  <2>8. /\ executed' \subseteq Requests \cup {f.request} /\ f.request = exchange[c].request
        /\ k + 1 < Len(InOf(kind, f.request)) /\ f.packets = Rest(InOf(kind, f.request), k + 1)
    BY <1>2, <1>4, <1>10, <1>13, <2>6 DEF p
  <2> QED
    BY <1>10, <1>12, <2>5, <2>7, <2>8, Sends
<1>14. CASE k + 1 = Len(s)
  <2>1. q.chained = FALSE /\ NfcCollected(p, k) \o q.data = p
    BY <1>8, <1>14 DEF NfcBrings
  <2>2. after = [reply |-> Head(Pieces(r)), ran |-> {p},
                 device |-> [inbound |-> <<>>, outbound |-> Tail(Pieces(r))]]
    <3> DEFINE z == p
    <3>1. device.inbound \o q.data = z
      BY <1>5, <2>1
    <3> HIDE DEF q
    <3>2. after = [reply |-> Head(Pieces(Response(device.inbound \o q.data, n))),
                   ran |-> {device.inbound \o q.data},
                   device |-> [inbound |-> <<>>,
                               outbound |-> Tail(Pieces(Response(device.inbound \o q.data, n)))]]
      BY <1>9, <2>1 DEF CardAfter
    <3> HIDE DEF after, z
    <3>3. after = [reply |-> Head(Pieces(Response(z, n))), ran |-> {z},
                   device |-> [inbound |-> <<>>, outbound |-> Tail(Pieces(Response(z, n)))]]
      BY <3>1, <3>2
    <3> QED
      BY <3>3 DEF z
  <2>3. r \in Seq({p} \X Nat)
    <3> HIDE DEF p
    <3> QED
      BY PayloadsTyped
  <2>4. FitsOf(kind, r) /\ OutOf(kind, r) = Pieces(r)
    BY <1>1 DEF FitsOf, OutOf
  <2>5. r = Response(f.request, n)
    BY <1>10
  <2> HIDE DEF r, after, f, p
  <2>6. Pieces(r) \in Seq(PiecesOf(r)) /\ Len(Pieces(r)) \in Nat \ {0}
    BY <2>3, PiecesAre
  <2>7. Rest(Pieces(r), 0) = Pieces(r)
    BY <2>6, RestEnds
  <2>8. Head(Pieces(r)) = Pieces(r)[0 + 1] /\ Tail(Pieces(r)) = Rest(Pieces(r), 0 + 1)
    <3>1. 0 \in Nat /\ 0 < Len(Pieces(r))
      BY <2>6, SMT
    <3> QED
      BY <2>6, <2>7, <3>1, RestTaken
  <2>9. f.packets = <<>>
    BY <1>6, <1>10, <1>14, RestEnds
  <2>10. Receive(c, f, OutOf(kind, r)[0 + 1])
    BY <1>11, <2>2, <2>4, <2>8, <2>9 DEF Transceives
  <2>11. device' = [inbound |-> <<>>, outbound |-> Tail(Pieces(r))] /\ executed' = executed \cup {p}
         /\ kind' = kind
    BY <1>11, <2>2 DEF Transceives
  <2>12. /\ DOMAIN device' = {"inbound", "outbound"} /\ device'.inbound = <<>>
         /\ device'.outbound = Rest(OutOf(kind, r), 0 + 1)
    BY <2>4, <2>8, <2>11
  <2>13. executed' \subseteq Requests \cup {f.request} /\ f.request = exchange[c].request
    BY <1>2, <1>10, <2>11 DEF p
  <2>14. f.assembler = AsmOf(kind, r, 0)
    BY <1>10, AsmStarts
  <2>15. 0 \in Nat /\ 0 < Len(OutOf(kind, r))
    BY <2>4, <2>6, SMT
  <2> QED
    BY <1>2, <1>10, <2>4, <2>5, <2>9, <2>10, <2>11, <2>12, <2>13, <2>14, <2>15, Receives
<1> QED
  BY <1>6, <1>12, <1>13, <1>14, SMT

\* What no caller does.
LEMMA NobodyMoves ==
  ASSUME SessionSound, UNCHANGED <<kind, mu, exchange, device, executed>>
  PROVE  SessionSound'
<1>1. ASSUME NEW c \in Callers PROVE CallerSound(c)'
  <2>1. CallerSound(c)
    BY DEF SessionSound
  <2> QED
    BY <2>1, OthersKept
<1> QED
  BY <1>1 DEF SessionSound, AtRest, Requests

\* PacketSessionInv is inductive: once an exchange has spoiled the session nothing more is
\* claimed, and until then every step keeps it sound.
LEMMA PacketSessionStep == PacketSessionInv /\ [SessionNext]_sessionVars => PacketSessionInv'
<1> SUFFICES ASSUME PacketSessionInv, [SessionNext]_sessionVars PROVE PacketSessionInv'
  OBVIOUS
<1>1. spoiled' = FALSE \/ spoiled' = TRUE
  <2>1. spoiled = FALSE \/ spoiled = TRUE
    BY DEF PacketSessionInv
  <2>2. ASSUME NEW c \in Callers, NEW n \in Lengths, NEW refuses \in BOOLEAN,
               Transceive(c, n, refuses)
        PROVE  spoiled' = FALSE \/ spoiled' = TRUE
    <3>1. spoiled' = (spoiled \/ (refuses /\ exchange[c].pc = "send"))
      BY <2>2 DEF Transceive
    <3>2. spoiled' \in BOOLEAN
      BY <3>1
    <3> QED
      BY <3>2
  <2>3. ASSUME NEW c \in Callers, PacketFails(c) PROVE spoiled' = FALSE \/ spoiled' = TRUE
    <3>1. spoiled' = (spoiled \/ kind # "nfc" \/ exchange[c].pc = "send")
      BY <2>3 DEF PacketFails
    <3>2. spoiled' \in BOOLEAN
      BY <3>1
    <3> QED
      BY <3>2
  <2>4. (\E c \in Callers, n \in Lengths : Enter(c, n) \/ WritePacket(c, n)) => spoiled' = spoiled
    BY DEF Enter, WritePacket
  <2>5. (\E c \in Callers : Lock(c) \/ LockCancelled(c) \/ ReadPacket(c)) => spoiled' = spoiled
    BY DEF Lock, LockCancelled, ReadPacket
  <2>6. (CloseSession \/ SessionDone \/ UNCHANGED sessionVars) => spoiled' = spoiled
    BY DEF CloseSession, SessionDone, sessionVars
  <2> QED
    BY <2>1, <2>2, <2>3, <2>4, <2>5, <2>6 DEF SessionNext
<1>2. ASSUME spoiled' = FALSE PROVE SessionSound'
  <2>1. spoiled = FALSE
    <3>1. CASE spoiled = FALSE
      BY <3>1
    <3>2. CASE spoiled = TRUE
      <4>1. spoiled' = TRUE
        BY <3>2, ZenonT(40)
           DEF SessionNext, sessionVars, Enter, WritePacket, Transceive, Lock, LockCancelled,
               ReadPacket, PacketFails, CloseSession, SessionDone
      <4> QED
        BY <1>2, <4>1
    <3> QED
      BY <3>1, <3>2 DEF PacketSessionInv
  <2>2. SessionSound
    BY <2>1 DEF PacketSessionInv
  <2>3. ASSUME NEW c \in Callers, NEW n \in Lengths, Enter(c, n) PROVE SessionSound'
    BY <2>2, <2>3, EnterSound
  <2>4. ASSUME NEW c \in Callers, NEW n \in Lengths, WritePacket(c, n) PROVE SessionSound'
    BY <2>2, <2>4, WritePacketSound
  <2>5. ASSUME NEW c \in Callers, NEW n \in Lengths, NEW refuses \in BOOLEAN,
               Transceive(c, n, refuses)
        PROVE  SessionSound'
    <3>1. CASE refuses = TRUE
      BY <1>2, <2>2, <2>5, <3>1, RefusedSound
    <3>2. CASE refuses = FALSE
      <4>1. Transceive(c, n, FALSE)
        BY <2>5, <3>2
      <4>2. exchange[c].pc \in {"send", "receive"}
        BY <4>1 DEF Transceive
      <4> QED
        BY <2>2, <4>1, <4>2, GetResponseSound, CommandSound
    <3> QED
      BY <3>1, <3>2
  <2>6. ASSUME NEW c \in Callers, Lock(c) PROVE SessionSound'
    BY <2>2, <2>6, LockSound
  <2>7. ASSUME NEW c \in Callers, LockCancelled(c) PROVE SessionSound'
    BY <2>2, <2>7, LockCancelledSound
  <2>8. ASSUME NEW c \in Callers, ReadPacket(c) PROVE SessionSound'
    BY <2>2, <2>8, ReadPacketSound
  <2>9. ASSUME NEW c \in Callers, PacketFails(c) PROVE SessionSound'
    BY <1>2, <2>2, <2>9, PacketFailsSound
  <2>10. CASE CloseSession \/ SessionDone \/ UNCHANGED sessionVars
    BY <2>2, <2>10, NobodyMoves DEF CloseSession, SessionDone, sessionVars
  <2> QED
    BY <2>3, <2>4, <2>5, <2>6, <2>7, <2>8, <2>9, <2>10 DEF SessionNext
<1> QED
  BY <1>1, <1>2 DEF PacketSessionInv

\* However many callers interleave their exchanges and Close, and for every chunk size, MTU
\* and report size, an Exchange over NFC, BLE or the injected USB backend returns the whole
\* response to its own request, and the device executes only requests that were made, until
\* an exchange fails half way.
THEOREM SessionAnswersAreOwn == SessionSpec => []AnswerIsOwn
<1>1. PacketSessionInv => AnswerIsOwn
  <2> SUFFICES ASSUME PacketSessionInv, ~spoiled PROVE
        /\ executed \subseteq {exchange[c].request : c \in Callers}
        /\ \A c \in Callers : exchange[c].pc = "done" /\ exchange[c].ok =>
             \E n \in Lengths : exchange[c].answer = Response(exchange[c].request, n)
    BY DEF AnswerIsOwn
  <2>1. SessionSound
    BY DEF PacketSessionInv
  <2>2. executed \subseteq {exchange[c].request : c \in Callers}
    BY <2>1 DEF SessionSound, Requests
  <2>3. ASSUME NEW c \in Callers, exchange[c].ok
        PROVE  \E n \in Lengths : exchange[c].answer = Response(exchange[c].request, n)
    <3>1. CallerSound(c)
      BY <2>1 DEF SessionSound
    <3>2. exchange[c].ok # FALSE
      BY <2>3
    <3> QED
      BY <3>1, <3>2 DEF CallerSound
  <2> QED
    BY <2>2, <2>3
<1> QED
  BY <1>1, SessionInitSound, PacketSessionStep, PTL DEF SessionSpec

------------------------------------------------------------------------------
(* The reader of one CTAPHID response. *)

\* What a message of a command is read as.
ReadAs(c) == IF c = hidCommandKeepalive THEN "discard"
             ELSE IF c = hidCommandError THEN "error" ELSE "body"

\* The first i messages are keepalives.
OnlyKeepalives(i) == \A j \in 1..i : messages[j].command = hidCommandKeepalive

\* The reader is within message m: k of its packets are taken, and the assembler holds them.
Within(m, k) ==
  /\ k < Len(Send(Own, m))
  /\ own = Rest(Send(Own, m), k)
  /\ assembler = HidHeld(Own, m.command, m.payload, k)
  /\ mode = ReadAs(m.command)

\* A message that the authenticator can send.
MessageSet == [command : Commands, payload : Payloads \cup {<<>>}]

MessageInv ==
  /\ messages \in Scripts
  /\ sent \in 0..Len(messages)
  /\ \E m \in MessageSet : \E k \in 0..Len(Send(Other, m)) : other = Rest(Send(Other, m), k)
  /\ mode \in {"first", "discard", "error", "body", "done"}
  /\ mode = "first" =>
       \/ own = <<>> /\ OnlyKeepalives(sent)
       \/ sent > 0 /\ own = Send(Own, messages[sent]) /\ OnlyKeepalives(sent - 1)
  /\ mode \in {"discard", "error", "body"} =>
       /\ sent > 0 /\ OnlyKeepalives(sent - 1)
       /\ \E k \in 1..Len(Send(Own, messages[sent])) : Within(messages[sent], k)
  /\ ReadsItsAnswer

\* What a script is: messages, of which the last but one is the first that is no keepalive.
LEMMA ScriptShape ==
  ASSUME NEW s \in Scripts
  PROVE  /\ Len(s) \in Nat /\ Len(s) >= 2
         /\ \A i \in 1..Len(s) : s[i] \in MessageSet
         /\ \A i \in 1..(Len(s) - 2) : s[i].command = hidCommandKeepalive
         /\ s[Len(s) - 1].command # hidCommandKeepalive
<1>1. PICK n \in 0..MaxKeepalives, k \in Payloads, c \in Commands \ {hidCommandKeepalive},
           p \in Payloads :
        s = [i \in 1..(n + 2) |->
               IF i <= n THEN [command |-> hidCommandKeepalive, payload |-> k]
               ELSE IF i = n + 1 THEN [command |-> c, payload |-> p]
               ELSE [command |-> command, payload |-> <<>>]]
  BY SMT DEF Scripts
<1>2. n \in Nat /\ n + 2 \in Nat
  BY MessageAssumption, SMT
<1>3. Len(s) = n + 2
  BY <1>1, <1>2, SMT
<1>4. \A i \in 1..(n + 2) : s[i] \in MessageSet
  BY <1>1, <1>2 DEF MessageSet, Commands
<1>5. \A i \in 1..n : s[i].command = hidCommandKeepalive
  BY <1>1, <1>2, SMT
<1>6. s[n + 1].command = c
  BY <1>1, <1>2, SMT
<1>7. Len(s) - 2 = n /\ Len(s) - 1 = n + 1
  BY <1>2, <1>3, SMT
<1> QED
  BY <1>2, <1>3, <1>4, <1>5, <1>6, <1>7, SMTT(30)

\* Every message can be fragmented.
LEMMA MessageSends ==
  ASSUME NEW m \in MessageSet, NEW ch
  PROVE  /\ m.payload \in Seq(Nat) /\ Encodable(Len(m.payload)) /\ m.command \in Commands
         /\ Send(ch, m) = Fragment(ch, m.command, m.payload)
         /\ Send(ch, m) \in Seq(HidPacketsOf(ch, m.command, m.payload))
         /\ Len(Send(ch, m)) \in Nat \ {0}
<1>1. m.payload \in Payloads \cup {<<>>} /\ m.command \in Commands
  BY DEF MessageSet
<1>2. m.payload \in Seq(Nat)
  <2>1. CASE m.payload \in Payloads
    BY <2>1, MessageAssumption
  <2>2. CASE m.payload = <<>>
    BY <2>2, SMT
  <2> QED
    BY <1>1, <2>1, <2>2
<1>3. Encodable(Len(m.payload))
  <2>1. CASE m.payload \in Payloads
    BY <2>1, MessageAssumption DEF Fits
  <2>2. CASE m.payload = <<>>
    <3>1. Len(m.payload) = 0 /\ Byte * Byte > 0
      BY <2>2, WireAssumption, SMT
    <3> QED
      BY <3>1 DEF Encodable
  <2> QED
    BY <1>1, <2>1, <2>2
<1>4. Send(ch, m) = Fragment(ch, m.command, m.payload)
  BY DEF Send
<1>5. Send(ch, m) \in Seq(HidPacketsOf(ch, m.command, m.payload))
  BY <1>2, <1>4, HidFragmentTyped
<1>6. Len(Send(ch, m)) = 1 + Continuations(Len(m.payload))
  BY <1>2, <1>4, HidPackets, SMT
<1>7. Continuations(Len(m.payload)) \in Nat
  <2>1. Len(m.payload) \in Nat
    BY <1>2, SMT
  <2> QED
    BY <2>1, HidCount
<1> QED
  BY <1>1, <1>2, <1>3, <1>4, <1>5, <1>6, <1>7, SMT

\* A message that is no keepalive, after keepalives only, is the answer and the last but
\* one of the script.
LEMMA TheAnswer ==
  ASSUME messages \in Scripts, NEW i \in 1..Len(messages), OnlyKeepalives(i - 1),
         messages[i].command # hidCommandKeepalive
  PROVE  Answer = messages[i] /\ i = Len(messages) - 1
<1> DEFINE P(j) == /\ messages[j].command # hidCommandKeepalive
                   /\ \A l \in 1..(j - 1) : messages[l].command = hidCommandKeepalive
<1>1. Len(messages) \in Nat /\ Len(messages) >= 2
      /\ (\A j \in 1..(Len(messages) - 2) : messages[j].command = hidCommandKeepalive)
      /\ messages[Len(messages) - 1].command # hidCommandKeepalive
  BY ScriptShape
<1>2. P(i)
  BY DEF OnlyKeepalives
<1>3. ASSUME NEW j \in 1..Len(messages), P(j) PROVE j = i
  BY <1>2, <1>3, <1>1, SMT
<1>4. (CHOOSE j \in 1..Len(messages) : P(j)) = i
  <2> HIDE DEF P
  <2> QED
    BY <1>2, <1>3
<1>5. Answer = messages[i]
  BY <1>4 DEF Answer
<1>6. i = Len(messages) - 1
  BY <1>1, <1>2, SMT
<1> QED
  BY <1>5, <1>6

\* A packet of the current message is added to an assembler that holds the ones before it.
LEMMA PacketRead ==
  ASSUME MessageInv, mode # "done", sent > 0, OnlyKeepalives(sent - 1),
         NEW m, m = messages[sent], NEW k \in Nat, k < Len(Send(Own, m)),
         own' = Rest(Send(Own, m), k + 1), UNCHANGED <<messages, sent, other>>,
         Assemble(HidHeld(Own, m.command, m.payload, k), Send(Own, m)[k + 1], ReadAs(m.command))
  PROVE  MessageInv'
<1> DEFINE N == Len(Send(Own, m))
           b == HidHeld(Own, m.command, m.payload, k + 1)
<1>1. messages \in Scripts /\ sent \in 0..Len(messages)
  BY DEF MessageInv
<1>2. Len(messages) \in Nat /\ sent \in 1..Len(messages) /\ m \in MessageSet
  <2>1. Len(messages) \in Nat /\ \A i \in 1..Len(messages) : messages[i] \in MessageSet
    BY <1>1, ScriptShape
  <2>2. sent \in 1..Len(messages)
    BY <1>1, <2>1, SMT
  <2> QED
    BY <2>1, <2>2
<1>3. /\ m.payload \in Seq(Nat) /\ Encodable(Len(m.payload)) /\ m.command \in Commands
      /\ Send(Own, m) = Fragment(Own, m.command, m.payload)
      /\ Send(Own, m) \in Seq(HidPacketsOf(Own, m.command, m.payload)) /\ N \in Nat \ {0}
  BY <1>2, MessageSends
<1>4. Add(HidHeld(Own, m.command, m.payload, k), Send(Own, m)[k + 1]) = b
  BY <1>3, HidStep, SMT
<1>5. k + 1 \in Nat /\ k + 1 <= N
  BY <1>3, SMT
<1>6. /\ b.failed = FALSE
      /\ k + 1 < N => b.done = FALSE
      /\ k + 1 = N => b.done = TRUE /\ b.buffer = m.payload
  <2>1. k + 1 <= Len(Fragment(Own, m.command, m.payload))
    BY <1>3, <1>5
  <2>2. HidShows(Own, m.command, m.payload, k + 1)
    BY <1>3, <1>5, <2>1, HidHolds
  <2> QED
    BY <1>3, <2>2 DEF HidShows
<1> HIDE DEF b, N
<1>7. /\ assembler' = b
      /\ \/ b.done = TRUE /\ MessageRead(ReadAs(m.command), b.buffer)
         \/ b.done = FALSE /\ mode' = ReadAs(m.command) /\ UNCHANGED result
  <2> DEFINE a == HidHeld(Own, m.command, m.payload, k)
             q == Send(Own, m)[k + 1]
             reading == ReadAs(m.command)
  <2>1. Assemble(a, q, reading) /\ Add(a, q) = b
    BY <1>4
  <2> HIDE DEF a, q, reading
  <2>2. /\ assembler' = b
        /\ \/ b.failed /\ Return("fault", <<>>)
           \/ ~b.failed /\ b.done /\ MessageRead(reading, b.buffer)
           \/ ~b.failed /\ ~b.done /\ mode' = reading /\ UNCHANGED result
    BY <2>1 DEF Assemble
  <2>3. b.failed = FALSE /\ (b.done = TRUE \/ b.done = FALSE)
    <3>1. N \in Nat /\ k \in Nat
      BY <1>3
    <3>2. k + 1 < N \/ k + 1 = N
      BY <1>5, <3>1, SMT
    <3> QED
      BY <1>6, <3>2
  <2> QED
    BY <2>2, <2>3 DEF reading
<1>8. /\ messages' \in Scripts /\ sent' \in 0..Len(messages')
      /\ \E q \in MessageSet : \E l \in 0..Len(Send(Other, q)) : other' = Rest(Send(Other, q), l)
  BY DEF MessageInv
<1>9. messages' = messages /\ sent' = sent
  OBVIOUS
<1>10. ReadAs(m.command) \in {"discard", "error", "body"}
  BY DEF ReadAs
<1>11. CASE k + 1 < N
  <2>1. mode' = ReadAs(m.command)
    BY <1>6, <1>7, <1>11
  <2>2. Within(messages[sent], k + 1)'
    <3>1. messages'[sent'] = m
      BY <1>9
    <3> QED
      BY <1>7, <1>11, <2>1, <3>1 DEF N, b, Within, Send
  <2>3. k + 1 \in 1..Len(Send(Own, messages'[sent']))
    BY <1>3, <1>5, <1>9, SMT DEF N
  <2>4. sent' > 0 /\ OnlyKeepalives(sent - 1)'
    BY <1>9 DEF OnlyKeepalives
  <2>5. ReadsItsAnswer'
    BY <1>10, <2>1 DEF ReadsItsAnswer
  <2>6. \E l \in 1..Len(Send(Own, messages'[sent'])) : Within(messages[sent], l)'
    BY <2>2, <2>3
  <2> QED
    BY <1>8, <1>10, <2>1, <2>4, <2>5, <2>6 DEF MessageInv, Send
<1>12. CASE k + 1 = N
  <2>1. MessageRead(ReadAs(m.command), m.payload)
    BY <1>6, <1>7, <1>12
  <2>2. own' = <<>>
    <3>1. Rest(Send(Own, m), Len(Send(Own, m))) = <<>>
      BY <1>3, RestEnds
    <3> QED
      BY <1>12, <3>1 DEF N
  <2>3. CASE m.command = hidCommandKeepalive
    <3>1. mode' = "first"
      BY <2>1, <2>3 DEF MessageRead, Discarded, ReadAs
    <3>2. OnlyKeepalives(sent)'
      <4>1. ASSUME NEW j \in 1..sent PROVE messages[j].command = hidCommandKeepalive
        <5>1. j = sent \/ j \in 1..(sent - 1)
          BY <1>2, SMT
        <5> QED
          BY <5>1, <2>3 DEF OnlyKeepalives
      <4> QED
        BY <1>9, <4>1 DEF OnlyKeepalives
    <3>3. ReadsItsAnswer'
      BY <3>1 DEF ReadsItsAnswer
    <3> QED
      BY <1>8, <2>2, <3>1, <3>2, <3>3 DEF MessageInv
  <2>4. CASE m.command # hidCommandKeepalive
    <3>1. Answer = m /\ sent = Len(messages) - 1
      BY <1>1, <1>2, <2>4, TheAnswer
    <3>2. mode' = "done" /\ result' = Expected
      <4>1. CASE m.command = command
        <5>1. ReadAs(m.command) = "body"
          BY <4>1, MessageAssumption DEF ReadAs
        <5>2. Answered(m.payload)
          BY <2>1, <5>1 DEF MessageRead
        <5> QED
          BY <3>1, <4>1, <5>2 DEF Answered, Return, Expected
      <4>2. CASE m.command # command
        <5>1. ReadAs(m.command) = "error" /\ m.command = hidCommandError
          BY <1>3, <2>4, <4>2 DEF ReadAs, Commands
        <5>2. DeviceError(m.payload)
          BY <2>1, <5>1 DEF MessageRead
        <5> QED
          BY <3>1, <4>2, <5>2 DEF DeviceError, Return, Expected
      <4> QED
        BY <4>1, <4>2
    <3>3. Expected' = Expected
      BY <1>9 DEF Expected, Answer
    <3>4. ReadsItsAnswer'
      BY <1>9, <2>2, <3>1, <3>2, <3>3 DEF ReadsItsAnswer
    <3> QED
      BY <1>8, <3>2, <3>4 DEF MessageInv
  <2> QED
    BY <2>3, <2>4
<1> QED
  BY <1>3, <1>5, <1>11, <1>12, SMT

\* A packet of the other channel leaves the reader alone.
LEMMA OtherIgnored ==
  ASSUME MessageInv, TakeOther
  PROVE  MessageInv'
<1>1. PICK m \in MessageSet : \E k \in 0..Len(Send(Other, m)) : other = Rest(Send(Other, m), k)
  BY DEF MessageInv
<1>2. PICK k \in 0..Len(Send(Other, m)) : other = Rest(Send(Other, m), k)
  BY <1>1
<1> DEFINE s == Send(Other, m)
<1>3. /\ m.payload \in Seq(Nat) /\ Encodable(Len(m.payload))
      /\ s = Fragment(Other, m.command, m.payload)
      /\ s \in Seq(HidPacketsOf(Other, m.command, m.payload)) /\ Len(s) \in Nat \ {0}
  BY MessageSends
<1>4. k \in Nat /\ k < Len(s)
  <2>1. Rest(s, Len(s)) = <<>>
    BY <1>3, RestEnds
  <2> QED
    BY <1>2, <1>3, <2>1, SMT DEF TakeOther
<1>5. Head(other) = s[k + 1] /\ Tail(other) = Rest(s, k + 1)
  BY <1>2, <1>3, <1>4, RestTaken
<1>6. s[k + 1].channel = Other
  BY <1>3, <1>4, HidStep, SMT
<1>7. UNCHANGED <<mode, assembler, result>> /\ other' = Rest(s, k + 1)
  BY <1>5, <1>6, MessageAssumption DEF TakeOther, Take, ForChannel
<1>8. k + 1 \in 0..Len(s)
  BY <1>3, <1>4, SMT
<1>9. messages' = messages /\ sent' = sent /\ own' = own
  BY DEF TakeOther
<1>10. \E q \in MessageSet : \E l \in 0..Len(Send(Other, q)) : other' = Rest(Send(Other, q), l)
  BY <1>7, <1>8
<1> QED
  BY <1>7, <1>9, <1>10
     DEF MessageInv, OnlyKeepalives, ReadsItsAnswer, Expected, Answer, Within, Send

\* A packet of the own channel is the next one of the current message.
LEMMA OwnRead ==
  ASSUME MessageInv, TakeOwn
  PROVE  MessageInv'
<1> DEFINE m == messages[sent]
           s == Send(Own, m)
<1>0. mode # "done" /\ own # <<>> /\ Take(Head(own)) /\ own' = Tail(own)
      /\ UNCHANGED <<messages, sent, other>>
  BY DEF TakeOwn
<1>1. sent > 0 /\ OnlyKeepalives(sent - 1)
  BY <1>0 DEF MessageInv
<1>2. m \in MessageSet
  <2>1. Len(messages) \in Nat /\ \A i \in 1..Len(messages) : messages[i] \in MessageSet
    BY ScriptShape DEF MessageInv
  <2>2. sent \in 1..Len(messages)
    BY <1>1, <2>1, SMT DEF MessageInv
  <2> QED
    BY <2>1, <2>2
<1>3. /\ m.payload \in Seq(Nat) /\ Encodable(Len(m.payload)) /\ m.command \in Commands
      /\ s = Fragment(Own, m.command, m.payload)
      /\ s \in Seq(HidPacketsOf(Own, m.command, m.payload)) /\ Len(s) \in Nat \ {0}
  BY <1>2, MessageSends
<1>4. CASE mode = "first"
  <2>1. own = s
    BY <1>0, <1>4 DEF MessageInv
  <2>2. own = Rest(s, 0) /\ 0 < Len(s)
    BY <1>3, <2>1, RestEnds, SMT
  <2>3. Head(own) = s[0 + 1] /\ Tail(own) = Rest(s, 0 + 1)
    BY <1>3, <2>2, RestTaken
  <2>4. s[1] = Initial(Own, m.command, m.payload)
    BY <1>3, HidPackets, SMT
  <2>5. s[1].channel = Own /\ s[1].body[1] = m.command
    <3> DEFINE c == m.command
               p == m.payload
    <3>1. p \in Seq(Nat) /\ Encodable(Len(p))
      BY <1>3
    <3>2. s[1] = Initial(Own, c, p)
      BY <2>4
    <3> HIDE DEF c, p
    <3>3. Initial(Own, c, p).channel = Own /\ Initial(Own, c, p).body[1] = c
      BY <3>1, HidAddFirst, SMT
    <3>4. s[1].channel = Own /\ s[1].body[1] = c
      BY <3>2, <3>3
    <3> QED
      BY <3>4 DEF c
  <2>6. First(s[1])
    <3> DEFINE q == s[1]
    <3>1. q = Head(own) /\ q.channel = Own
      BY <2>3, <2>5, SMT
    <3> HIDE DEF q
    <3>2. Take(q)
      BY <1>0, <3>1
    <3>3. First(q)
      BY <1>4, <3>1, <3>2 DEF Take, ForChannel
    <3> QED
      BY <3>3 DEF q
  <2>7. Assemble(NewAssembler(Own, m.command), s[1], ReadAs(m.command))
    BY <1>3, <2>5, <2>6, MessageAssumption DEF First, ReadAs, Commands
  <2>8. HidHeld(Own, m.command, m.payload, 0) = NewAssembler(Own, m.command)
    BY DEF HidHeld
  <2>9. Assemble(HidHeld(Own, m.command, m.payload, 0), s[0 + 1], ReadAs(m.command))
    BY <2>7, <2>8, SMT
  <2>10. own' = Rest(s, 0 + 1)
    BY <1>0, <2>3
  <2> HIDE DEF m
  <2>11. 0 \in Nat /\ m = messages[sent]
    BY DEF m
  <2> QED
    BY <1>0, <1>1, <2>2, <2>9, <2>10, <2>11, PacketRead
<1>5. CASE mode # "first"
  <2>1. mode \in {"discard", "error", "body"}
    BY <1>0, <1>5 DEF MessageInv
  <2>2. PICK k \in 1..Len(s) : Within(m, k)
    BY <2>1 DEF MessageInv
  <2>3. k \in Nat /\ k < Len(s) /\ own = Rest(s, k)
    BY <1>3, <2>2, SMT DEF Within
  <2>4. Head(own) = s[k + 1] /\ Tail(own) = Rest(s, k + 1)
    BY <1>3, <2>3, RestTaken
  <2>5. s[k + 1].channel = Own
    BY <1>3, <2>3, HidStep, SMT
  <2>6. Assemble(assembler, s[k + 1], mode)
    BY <1>0, <1>5, <2>4, <2>5 DEF Take, ForChannel
  <2>7. Assemble(HidHeld(Own, m.command, m.payload, k), s[k + 1], ReadAs(m.command))
    BY <2>2, <2>6 DEF Within
  <2>8. own' = Rest(s, k + 1)
    BY <1>0, <2>4
  <2> HIDE DEF m
  <2>9. m = messages[sent]
    BY DEF m
  <2> QED
    BY <1>0, <1>1, <2>3, <2>7, <2>8, <2>9, PacketRead
<1> QED
  BY <1>4, <1>5

\* The authenticator begins its next message: the reader is between two messages, or it
\* is done and the last one is left in the queue.
LEMMA MessageBegins ==
  ASSUME MessageInv, SendNext
  PROVE  MessageInv'
<1>1. /\ own = <<>> /\ sent < Len(messages) /\ sent' = sent + 1
      /\ own' = Send(Own, messages[sent'])
      /\ UNCHANGED <<messages, other, mode, assembler, result>>
  BY DEF SendNext
<1>2. Len(messages) \in Nat /\ sent \in Nat /\ sent' \in 1..Len(messages) /\ sent' - 1 = sent
  <2>1. Len(messages) \in Nat
    BY ScriptShape DEF MessageInv
  <2> QED
    BY <1>1, <2>1, SMT DEF MessageInv
<1>3. mode \notin {"discard", "error", "body"}
  <2> SUFFICES ASSUME mode \in {"discard", "error", "body"} PROVE FALSE
    OBVIOUS
  <2> DEFINE m == messages[sent]
  <2>1. PICK k \in 1..Len(Send(Own, m)) : Within(m, k)
    BY DEF MessageInv
  <2>2. m \in MessageSet
    <3>1. \A i \in 1..Len(messages) : messages[i] \in MessageSet
      BY ScriptShape DEF MessageInv
    <3>2. sent \in 1..Len(messages)
      BY <1>2, SMT DEF MessageInv
    <3> QED
      BY <3>1, <3>2
  <2>3. /\ Send(Own, m) \in Seq(HidPacketsOf(Own, m.command, m.payload))
        /\ Len(Send(Own, m)) \in Nat \ {0}
    BY <2>2, MessageSends
  <2>4. k \in Nat /\ k < Len(Send(Own, m)) /\ own = Rest(Send(Own, m), k)
    BY <2>1, <2>3, SMT DEF Within
  <2> QED
    BY <1>1, <2>3, <2>4, RestTaken
<1>4. mode' = "first" => OnlyKeepalives(sent - 1)'
  <2>1. CASE mode = "first"
    <3>1. OnlyKeepalives(sent)
      <4>1. CASE own = <<>> /\ OnlyKeepalives(sent)
        BY <4>1
      <4>2. CASE sent > 0 /\ own = Send(Own, messages[sent])
        <5> DEFINE m == messages[sent]
        <5>1. m \in MessageSet
          <6>1. \A i \in 1..Len(messages) : messages[i] \in MessageSet
            BY ScriptShape DEF MessageInv
          <6>2. sent \in 1..Len(messages)
            BY <1>2, <4>2, SMT DEF MessageInv
          <6> QED
            BY <6>1, <6>2
        <5>2. Len(Send(Own, m)) \in Nat \ {0}
          BY <5>1, MessageSends
        <5> QED
          BY <1>1, <4>2, <5>2, SMT
      <4> QED
        BY <2>1, <4>1, <4>2 DEF MessageInv
    <3> QED
      BY <1>1, <1>2, <3>1 DEF OnlyKeepalives
  <2> QED
    BY <1>1, <2>1
<1>5. Expected' = Expected
  BY <1>1 DEF Expected, Answer
<1>6. ReadsItsAnswer'
  <2> SUFFICES ASSUME mode = "done", result.kind # "ctx"
               PROVE  /\ result = Expected
                      /\ sent' = Len(messages') /\ own' = Send(Own, messages'[sent'])
    BY <1>1, <1>5 DEF ReadsItsAnswer, Send
  <2>1. ReadsItsAnswer
    BY DEF MessageInv
  <2> QED
    BY <1>1, <1>2, <2>1, SMT DEF ReadsItsAnswer
<1>7. mode' = mode /\ messages' = messages /\ other' = other
  BY <1>1
<1>8. /\ messages' \in Scripts /\ sent' \in 0..Len(messages')
      /\ \E q \in MessageSet : \E l \in 0..Len(Send(Other, q)) : other' = Rest(Send(Other, q), l)
  BY <1>2, <1>7, SMT DEF MessageInv
<1>9. sent' > 0
  BY <1>2, SMT
<1>10. own' = Send(Own, messages'[sent'])
  BY <1>1
<1> QED
  BY <1>3, <1>4, <1>6, <1>7, <1>8, <1>9, <1>10 DEF MessageInv, Send

\* MessageInv holds before the first packet.
LEMMA MessageInitInv == Init => MessageInv
<1> SUFFICES ASSUME Init PROVE MessageInv
  OBVIOUS
<1>1. PICK c \in Commands, p \in Payloads : other = Send(Other, [command |-> c, payload |-> p])
  BY DEF Init
<1> DEFINE m == [command |-> c, payload |-> p]
<1>2. m \in MessageSet
  BY DEF MessageSet
<1>3. /\ Send(Other, m) \in Seq(HidPacketsOf(Other, m.command, m.payload))
      /\ Len(Send(Other, m)) \in Nat
  BY <1>2, MessageSends
<1>4. other = Rest(Send(Other, m), 0)
  BY <1>1, <1>3, RestEnds
<1>5. 0 \in 0..Len(Send(Other, m))
  BY <1>3, SMT
<1>6. \E q \in MessageSet : \E l \in 0..Len(Send(Other, q)) : other = Rest(Send(Other, q), l)
  <2> HIDE DEF m
  <2> QED
    BY <1>2, <1>4, <1>5
<1>7. messages \in Scripts /\ sent = 0 /\ own = <<>> /\ mode = "first"
  BY DEF Init
<1>8. sent \in 0..Len(messages)
  BY <1>7, ScriptShape, SMT
<1> QED
  BY <1>6, <1>7, <1>8, SMT DEF MessageInv, OnlyKeepalives, ReadsItsAnswer

\* MessageInv is inductive.
LEMMA MessageStep == MessageInv /\ [Next]_vars => MessageInv'
<1> SUFFICES ASSUME MessageInv, [Next]_vars PROVE MessageInv'
  OBVIOUS
<1>1. CASE SendNext
  BY <1>1, MessageBegins
<1>2. CASE TakeOwn
  BY <1>2, OwnRead
<1>3. CASE TakeOther
  BY <1>3, OtherIgnored
<1>4. CASE Cancel
  BY <1>4 DEF Cancel, Return, MessageInv, ReadsItsAnswer
<1>5. CASE UNCHANGED vars
  BY <1>5
  DEF vars, MessageInv, OnlyKeepalives, ReadsItsAnswer, Expected, Answer, Within, Send
<1> QED
  BY <1>1, <1>2, <1>3, <1>4, <1>5 DEF Next, Finished

\* readHIDMessage returns the first message on its channel that is no keepalive, whole, and
\* takes no packet behind it, for every report size, every payload that fits and whatever
\* traffic of another channel comes between its packets.
THEOREM ReaderReadsItsAnswer == Spec => []ReadsItsAnswer
<1>1. MessageInv => ReadsItsAnswer
  BY DEF MessageInv
<1> QED
  BY <1>1, MessageInitInv, MessageStep, PTL DEF Spec
=============================================================================
