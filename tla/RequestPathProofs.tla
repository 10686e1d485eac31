------------------------- MODULE RequestPathProofs -------------------------
(***************************************************************************)
(* Proofs about RequestPath, for any requests, names, payloads, part sizes *)
(* and numbers of sendings: what is received is what was sent, what is     *)
(* called is what was registered, what stops the service, and where the    *)
(* reply goes.                                                             *)
(*                                                                         *)
(* process_message joins parts with FlattenSeq, a recursive function.  The *)
(* facts about it are proved by induction in the form of the least element *)
(* of a set of counterexamples, which the provers can instantiate.         *)
(***************************************************************************)
EXTENDS RequestPath, TLAPS, WellFoundedInduction, SequenceTheorems

Below == {ss \in Nat \X Nat : ss[1] < ss[2]}

(* A nonempty set of natural numbers has a least element.                  *)
LEMMA LeastElement ==
    ASSUME NEW T, T \subseteq Nat, T # {}
    PROVE  \E n \in T : \A m \in T : n <= m
<1>1. IsWellFoundedOn(Below, Nat)
  BY NatLessThanWellFounded DEF OpToRel, Below
<1>2. PICK n \in T : \A m \in T : ~ (<<m, n>> \in Below)
  BY <1>1, WFMin
<1>3. \A m, k \in Nat : m < k => <<m, k>> \in Below
  BY DEF Below
<1>4. ASSUME NEW m \in T PROVE n <= m
  <2>1. m \in Nat /\ n \in Nat
    OBVIOUS
  <2>2. ~(m < n)
    BY <1>2, <1>3, <2>1
  <2>3. QED
    BY <2>1, <2>2
<1>5. QED
  BY <1>4

---------------------------------------------------------------------------
(* FlattenSeq.                                                             *)
Flattens(f, seqs, n) ==
    f = [i \in 1 .. n |-> IF i = 1 THEN seqs[i] ELSE f[i - 1] \o seqs[i]]

(* The recursion of FlattenSeq defines a function.                         *)
LEMMA FlattenFunction ==
    ASSUME NEW seqs, NEW n \in Nat, n > 0
    PROVE  \E f : Flattens(f, seqs, n)
<1> DEFINE T == {k \in 1 .. n : ~ \E f : Flattens(f, seqs, k)}
<1>1. SUFFICES ASSUME T # {} PROVE FALSE
  OBVIOUS
<1>2. PICK k \in T : \A m \in T : k <= m
  <2>1. T \subseteq Nat
    OBVIOUS
  <2> HIDE DEF T
  <2>2. QED
    BY <1>1, <2>1, LeastElement
<1>3. k \in 1 .. n /\ ~ \E f : Flattens(f, seqs, k)
  BY <1>2
<1>4. k # 1
  <2>1. Flattens([i \in 1 .. 1 |-> seqs[i]], seqs, 1)
    BY DEF Flattens
  <2>2. QED
    BY <1>3, <2>1
<1>5. k - 1 \in 1 .. n /\ k - 1 \notin T
  BY <1>2, <1>3, <1>4
<1>6. PICK f : Flattens(f, seqs, k - 1)
  BY <1>5
<1> DEFINE g == [i \in 1 .. k |-> IF i < k THEN f[i] ELSE f[k - 1] \o seqs[k]]
<1>7. ASSUME NEW i \in 1 .. k
      PROVE  g[i] = IF i = 1 THEN seqs[i] ELSE g[i - 1] \o seqs[i]
  <2>1. f = [j \in 1 .. k - 1 |-> IF j = 1 THEN seqs[j] ELSE f[j - 1] \o seqs[j]]
    BY <1>6 DEF Flattens
  <2>2. CASE i = k
    <3>1. k \in 1 .. k /\ k - 1 \in 1 .. k /\ k - 1 < k /\ ~(k < k)
      BY <1>3, <1>4
    <3>2. g[k] = f[k - 1] \o seqs[k] /\ g[k - 1] = f[k - 1]
      BY <3>1
    <3>3. QED
      BY <1>4, <2>2, <3>2
  <2>3. CASE i < k
    <3>1. i \in 1 .. k - 1 /\ g[i] = f[i]
      BY <1>3, <2>3
    <3>2. i # 1 => g[i - 1] = f[i - 1]
      BY <1>3, <2>3
    <3>3. f[i] = IF i = 1 THEN seqs[i] ELSE f[i - 1] \o seqs[i]
      BY <2>1, <3>1
    <3>4. QED
      BY <3>1, <3>2, <3>3
  <2>4. QED
    BY <1>3, <2>2, <2>3
<1>8. Flattens(g, seqs, k)
  BY <1>7 DEF Flattens
<1>9. QED
  BY <1>3, <1>8

LEMMA FlattenValue ==
    ASSUME NEW seqs, Len(seqs) \in Nat, Len(seqs) # 0
    PROVE  \E f : Flattens(f, seqs, Len(seqs)) /\ FlattenSeq(seqs) = f[Len(seqs)]
<1>1. \E f : Flattens(f, seqs, Len(seqs))
  BY FlattenFunction
<1>2. QED
  BY <1>1, Zenon DEF Flattens, FlattenSeq

(* Flattened sequences have the elements of their members, and are not     *)
(* empty if one member is not.                                             *)
LEMMA FlattenType ==
    ASSUME NEW S, NEW seqs \in Seq(Seq(S))
    PROVE  /\ FlattenSeq(seqs) \in Seq(S)
           /\ (\E i \in 1 .. Len(seqs) : seqs[i] # <<>>) => FlattenSeq(seqs) # <<>>
<1>1. CASE Len(seqs) = 0
  BY <1>1 DEF FlattenSeq
<1>2. CASE Len(seqs) # 0
  <2>1. PICK f : Flattens(f, seqs, Len(seqs)) /\ FlattenSeq(seqs) = f[Len(seqs)]
    BY <1>2, FlattenValue
  <2> DEFINE Good(k) == /\ f[k] \in Seq(S)
                        /\ (\E i \in 1 .. k : seqs[i] # <<>>) => f[k] # <<>>
  <2> DEFINE T == {k \in 1 .. Len(seqs) : ~Good(k)}
  <2>2. SUFFICES ASSUME T # {} PROVE FALSE
    <3>1. Len(seqs) \in 1 .. Len(seqs)
      BY <1>2
    <3>2. T = {} => Good(Len(seqs))
      BY <3>1
    <3>3. QED
      BY <2>1, <3>2
  <2>3. PICK k \in T : \A m \in T : k <= m
    <3>1. T \subseteq Nat
      OBVIOUS
    <3> HIDE DEF T
    <3>2. QED
      BY <2>2, <3>1, LeastElement
  <2>4. k \in 1 .. Len(seqs) /\ ~Good(k) /\ seqs[k] \in Seq(S)
    BY <2>3
  <2>5. CASE k = 1
    BY <2>1, <2>4, <2>5 DEF Flattens
  <2>6. CASE k # 1
    <3>1. k - 1 \in 1 .. Len(seqs) /\ Good(k - 1)
      BY <2>3, <2>4, <2>6
    <3>2. f[k] = f[k - 1] \o seqs[k]
      BY <2>1, <2>4, <2>6 DEF Flattens
    <3>3. f[k] \in Seq(S) /\ Len(f[k]) = Len(f[k - 1]) + Len(seqs[k])
      BY <2>4, <3>1, <3>2
    <3>4. (\E i \in 1 .. k : seqs[i] # <<>>) => f[k] # <<>>
      BY <2>4, <3>1, <3>2, <3>3
    <3>5. QED
      BY <2>4, <3>3, <3>4
  <2>7. QED
    BY <2>5, <2>6
<1>3. QED
  BY <1>1, <1>2

---------------------------------------------------------------------------
(* Splitting and joining.                                                  *)
Chars(p) == {p} \X Nat
Texts(p) == Seq(Chars(p)) \ {<<>>}
Total(p) == (BodyLength[p] + MaxSize - 1) \div MaxSize

(* c is one of the parts that m is split into.                             *)
IsPart(c, m) ==
    /\ c.correlation_id = m.correlation_id /\ c.reply_to = m.reply_to
    /\ c.header = Header(m)
    /\ c.body \in Texts(m.payload)
    /\ \E i \in 1 .. Total(m.payload) :
         /\ c.message_id = <<m.message_id, i - 1, Total(m.payload)>>
         /\ c.body = encode_message_body(m.payload, MaxSize)[i]

LEMMA Numbers ==
    /\ MaxSize \in Nat \ {0}
    /\ MaxSends \in Nat /\ MaxChanges \in Nat /\ MaxCopies \in Nat
    /\ MaxFaults \in Nat
<1>1. MaxSize \in Nat \ {0}
  BY RequestPathAssumption, Zenon DEF RequestPathAssumption
<1>2. MaxSends \in Nat
  BY RequestPathAssumption, Zenon DEF RequestPathAssumption
<1>3. MaxChanges \in Nat /\ MaxCopies \in Nat /\ MaxFaults \in Nat
  BY RequestPathAssumption, Zenon DEF RequestPathAssumption
<1>4. QED
  BY <1>1, <1>2, <1>3

LEMMA Division ==
    ASSUME NEW L \in Nat, NEW max \in Nat, max > 0,
           NEW n, n = (L + max - 1) \div max
    PROVE  n \in Nat /\ n * max <= L + max - 1 /\ L <= n * max
OBVIOUS

LEMMA EncodedText ==
    ASSUME NEW p \in Payloads
    PROVE  /\ BodyLength[p] \in Nat
           /\ Encoded(p) \in Seq(Chars(p)) /\ Len(Encoded(p)) = BodyLength[p]
           /\ \A i \in 1 .. BodyLength[p] : Encoded(p)[i] = <<p, i>>
BY MessageAssumption DEF MessageAssumption, Encoded, Chars

(* Every part of a text but the last is full, and none is empty.           *)
LEMMA PartBounds ==
    ASSUME NEW L \in Nat, NEW max \in Nat, max > 0, NEW n \in Nat,
           n * max <= L + max - 1, L <= n * max,
           NEW i \in 1 .. n,
           NEW last, last = IF i = n THEN L ELSE i * max
    PROVE  /\ (i - 1) * max \in Nat /\ last \in Nat
           /\ (i - 1) * max + 1 <= last /\ last <= L
<1>1. (i - 1) * max = i * max - max /\ i * max \in Nat /\ n * max \in Nat
  OBVIOUS
<1>2. (i - 1) * max >= 0
  OBVIOUS
<1>3. CASE i = n
  BY <1>1, <1>2, <1>3
<1>4. CASE i < n
  <2>1. i * max <= (n - 1) * max
    BY <1>4
  <2>2. (n - 1) * max = n * max - max
    OBVIOUS
  <2>3. QED
    BY <1>1, <1>2, <1>4, <2>1, <2>2
<1>5. QED
  BY <1>3, <1>4

LEMMA Bodies ==
    ASSUME NEW p \in Payloads
    PROVE  /\ Total(p) \in Nat
           /\ DOMAIN encode_message_body(p, MaxSize) = 1 .. Total(p)
           /\ Len(encode_message_body(p, MaxSize)) = Total(p)
           /\ \A i \in 1 .. Total(p) : encode_message_body(p, MaxSize)[i] \in Texts(p)
<1> DEFINE L == BodyLength[p]
           n == Total(p)
           last(i) == IF i = n THEN L ELSE i * MaxSize
<1>1. MaxSize \in Nat /\ MaxSize > 0
  <2>1. MaxSize \in Nat \ {0}
    BY RequestPathAssumption, Zenon DEF RequestPathAssumption
  <2>2. QED
    BY <2>1
<1>2. /\ L \in Nat /\ Encoded(p) \in Seq(Chars(p)) /\ Len(Encoded(p)) = L
  BY EncodedText
<1>3. n \in Nat /\ n * MaxSize <= L + MaxSize - 1 /\ L <= n * MaxSize
  BY <1>1, <1>2, Division DEF Total
<1>4. encode_message_body(p, MaxSize) =
        [i \in 1 .. n |-> SubSeq(Encoded(p), (i - 1) * MaxSize + 1, last(i))]
  BY <1>2 DEF encode_message_body, Total
<1>5. ASSUME NEW i \in 1 .. n
      PROVE  SubSeq(Encoded(p), (i - 1) * MaxSize + 1, last(i)) \in Texts(p)
  <2>1. /\ (i - 1) * MaxSize \in Nat /\ last(i) \in Nat
        /\ (i - 1) * MaxSize + 1 <= last(i) /\ last(i) <= L
    BY <1>1, <1>2, <1>3, PartBounds
  <2> HIDE DEF last
  <2>2. PICK a \in Nat : a = (i - 1) * MaxSize + 1
    BY <2>1
  <2>3. a \in 1 .. L /\ last(i) \in 1 .. L /\ a <= last(i)
    BY <1>2, <2>1, <2>2
  <2>4. /\ SubSeq(Encoded(p), a, last(i)) \in Seq(Chars(p))
        /\ Len(SubSeq(Encoded(p), a, last(i))) = last(i) - a + 1
    BY <1>2, <2>3, SubSeqProperties
  <2>5. SubSeq(Encoded(p), a, last(i)) # <<>>
    <3>1. Len(SubSeq(Encoded(p), a, last(i))) > 0
      BY <2>3, <2>4
    <3>2. \A s : s = <<>> => ~(Len(s) > 0)
      OBVIOUS
    <3>3. QED
      BY <3>1, <3>2, Zenon
  <2>6. QED
    BY <2>2, <2>4, <2>5 DEF Texts
<1>6. QED
  BY <1>3, <1>4, <1>5

LEMMA PartsOf ==
    ASSUME NEW m, m.payload \in Payloads,
           NEW parts, parts = create_amqp_messages(m, MaxSize)
    PROVE  /\ Total(m.payload) \in Nat
           /\ DOMAIN parts = 1 .. Total(m.payload)
           /\ Len(parts) = Total(m.payload)
           /\ \A i \in 1 .. Total(m.payload) : IsPart(parts[i], m)
<1>1. /\ Total(m.payload) \in Nat
      /\ Len(encode_message_body(m.payload, MaxSize)) = Total(m.payload)
      /\ \A i \in 1 .. Total(m.payload) :
           encode_message_body(m.payload, MaxSize)[i] \in Texts(m.payload)
  BY Bodies
<1>2. parts = [i \in 1 .. Total(m.payload) |->
        [message_id |-> <<m.message_id, i - 1, Total(m.payload)>>,
         correlation_id |-> m.correlation_id, reply_to |-> m.reply_to,
         header |-> Header(m),
         body |-> encode_message_body(m.payload, MaxSize)[i]]]
  BY <1>1 DEF create_amqp_messages
<1>3. QED
  BY <1>1, <1>2 DEF IsPart

(* The parts of a text, joined in their order, are the text.               *)
LEMMA PartsJoin ==
    ASSUME NEW p \in Payloads, Total(p) > 0
    PROVE  FlattenSeq(encode_message_body(p, MaxSize)) = Encoded(p)
<1> DEFINE L == BodyLength[p]
           n == Total(p)
           bodies == encode_message_body(p, MaxSize)
           last(i) == IF i = n THEN L ELSE i * MaxSize
<1>1. MaxSize \in Nat /\ MaxSize > 0
  BY Numbers
<1>2. /\ L \in Nat /\ Encoded(p) \in Seq(Chars(p)) /\ Len(Encoded(p)) = L
  BY EncodedText
<1>3. n \in Nat /\ n * MaxSize <= L + MaxSize - 1 /\ L <= n * MaxSize
  BY <1>1, <1>2, Division DEF Total
<1>4. bodies =
        [i \in 1 .. n |-> SubSeq(Encoded(p), (i - 1) * MaxSize + 1, last(i))]
  BY <1>2 DEF encode_message_body, Total
<1>5. \A i \in 1 .. n : /\ (i - 1) * MaxSize \in Nat /\ last(i) \in Nat
                         /\ (i - 1) * MaxSize + 1 <= last(i) /\ last(i) <= L
  BY <1>1, <1>2, <1>3, PartBounds
<1>6. Len(bodies) = n
  BY Bodies
<1>7. PICK f : Flattens(f, bodies, n) /\ FlattenSeq(bodies) = f[n]
  <2> HIDE DEF n, bodies
  <2>1. Len(bodies) \in Nat /\ Len(bodies) # 0
    BY <1>3, <1>6 DEF n
  <2>2. QED
    BY <1>6, <2>1, FlattenValue
<1> DEFINE T == {k \in 1 .. n : f[k] # SubSeq(Encoded(p), 1, last(k))}
<1>8. T = {}
  <2>1. SUFFICES ASSUME T # {} PROVE FALSE
    OBVIOUS
  <2>2. PICK k \in T : \A m \in T : k <= m
    <3>1. T \subseteq Nat
      OBVIOUS
    <3> HIDE DEF T
    <3>2. QED
      BY <2>1, <3>1, LeastElement
  <2>3. k \in 1 .. n /\ f[k] # SubSeq(Encoded(p), 1, last(k))
    BY <2>2
  <2>4. bodies[k] = SubSeq(Encoded(p), (k - 1) * MaxSize + 1, last(k))
    BY <1>4, <2>3
  <2>5. f[k] = IF k = 1 THEN bodies[k] ELSE f[k - 1] \o bodies[k]
    <3> HIDE DEF bodies, n
    <3>1. QED
      BY <1>7, <2>3 DEF Flattens
  <2>6. CASE k = 1
    <3>1. (k - 1) * MaxSize + 1 = 1
      BY <1>1, <2>6
    <3>2. QED
      BY <2>3, <2>4, <2>5, <2>6, <3>1
  <2>7. CASE k # 1
    <3>1. k - 1 \in 1 .. n /\ k - 1 \notin T /\ k - 1 # n
      <4> HIDE DEF T, n
      <4>1. k \in 1 .. n /\ n \in Nat
        BY <1>3, <2>3
      <4>2. k - 1 \in 1 .. n /\ k - 1 # n /\ ~(k <= k - 1)
        BY <2>7, <4>1
      <4>3. QED
        BY <2>2, <4>2
    <3>2. f[k - 1] = SubSeq(Encoded(p), 1, last(k - 1)) /\ last(k - 1) = (k - 1) * MaxSize
      BY <3>1
    <3> HIDE DEF T, bodies, last, n, L
    <3>3. PICK a \in Nat, b \in Nat :
            a = (k - 1) * MaxSize /\ b = last(k) /\ a + 1 <= b /\ b <= L
      BY <1>5, <2>3
    <3>4. a \in 0 .. L /\ b \in a .. L /\ 1 \in 1 .. L + 1
      BY <1>2, <3>3
    <3>5. SubSeq(Encoded(p), 1, a) \o SubSeq(Encoded(p), a + 1, b)
            = SubSeq(Encoded(p), 1, b)
      BY <1>2, <3>4, ConcatAdjacentSubSeq
    <3>6. QED
      BY <2>3, <2>4, <2>5, <2>7, <3>2, <3>3, <3>5
  <2>8. QED
    BY <2>6, <2>7
<1>9. f[n] = SubSeq(Encoded(p), 1, L)
  <2>1. n \in 1 .. n /\ last(n) = L
    BY <1>3
  <2>2. QED
    BY <1>8, <2>1
<1>10. SubSeq(Encoded(p), 1, L) = Encoded(p)
  <2> HIDE DEF L
  <2>1. QED
    BY <1>2
<1>11. QED
  BY <1>7, <1>9, <1>10

(* The first part there is one of the parts collected.                     *)
LEMMA FirstPart ==
    ASSUME NEW n \in Nat, NEW P,
           NEW slots \in [1 .. n -> {Missing} \cup {<<c>> : c \in P}],
           \E i \in 1 .. n : slots[i] # Missing
    PROVE  FlattenSeq(slots)[1] \in P
<1>1. slots \in Seq(Seq(P)) /\ Len(slots) = n
  <2>1. \A i \in 1 .. n : slots[i] \in Seq(P)
    <3>1. Missing \in Seq(P) /\ \A c \in P : <<c>> \in Seq(P)
      BY DEF Missing
    <3>2. ASSUME NEW i \in 1 .. n
          PROVE  slots[i] = Missing \/ \E c \in P : slots[i] = <<c>>
      OBVIOUS
    <3>3. QED
      BY <3>1, <3>2
  <2>2. DOMAIN slots = 1 .. n /\ slots \in [1 .. n -> Seq(P)]
    BY <2>1
  <2>3. QED
    BY <2>2
<1>2. FlattenSeq(slots) \in Seq(P) /\ FlattenSeq(slots) # <<>>
  BY <1>1, FlattenType DEF Missing
<1>3. QED
  BY <1>2

(* A text that is decoded has the payload that its parts come from.        *)
LEMMA DecodedPayload ==
    ASSUME NEW n \in Nat, n > 0, NEW P, NEW p \in Payloads,
           \A c \in P : c.body \in Texts(p),
           NEW slots \in [1 .. n -> {Missing} \cup {<<c>> : c \in P}],
           NEW fill
    PROVE  Decodable(slots, Filled(slots, fill))
             => Decoded(slots, Filled(slots, fill)) = p
<1> DEFINE text == Filled(slots, fill)
           bodies == [i \in 1 .. n |-> slots[i][1].body]
<1>0. SUFFICES ASSUME Decodable(slots, text) PROVE Decoded(slots, text) = p
  OBVIOUS
<1>1. \A i \in 1 .. n : slots[i] # Missing
  BY <1>0 DEF Decodable, IsComplete
<1>2. \A i \in 1 .. n : \E c \in P : slots[i] = <<c>>
  BY <1>1
<1>3. text = FlattenSeq(bodies)
  BY <1>1 DEF Filled
<1>4. \A i \in 1 .. n : bodies[i] \in Seq(Chars(p)) /\ bodies[i] # <<>>
  BY <1>2 DEF Texts
<1>5. bodies \in Seq(Seq(Chars(p))) /\ Len(bodies) = n
  BY <1>4
<1>6. text \in Seq(Chars(p)) /\ text # <<>>
  <2>1. \E i \in 1 .. Len(bodies) : bodies[i] # <<>>
    BY <1>4, <1>5
  <2> HIDE DEF bodies, text
  <2>2. QED
    BY <1>3, <1>5, <2>1, FlattenType
<1>7. ASSUME NEW q \in Payloads, text = Encoded(q)
      PROVE  q = p
  <2> HIDE DEF text
  <2>1. text[1] \in Chars(p) /\ Len(text) >= 1
    BY <1>6
  <2>2. Encoded(q)[1] = <<q, 1>>
    BY <1>7, <2>1, EncodedText
  <2>3. QED
    BY <1>7, <2>1, <2>2 DEF Chars
<1>8. QED
  BY <1>0, <1>7 DEF Decodable, Decoded

---------------------------------------------------------------------------
(* The invariant.                                                          *)
Elements(s) == {s[i] : i \in 1 .. Len(s)}
IsSequence(s) == s \in Seq(Elements(s))

(* The request as the client sends it for the t-th time, with message ID   *)
(* id: nothing else changes.                                               *)
Sending(id, t) ==
    [message_type |-> "request", routing_key |-> request.routing_key,
     correlation_id |-> request.correlation_id, message_id |-> id,
     reply_to |-> t, specifier |-> request.specifier, timestamp |-> t,
     message_operation |-> request.message_operation,
     lockout_key |-> request.lockout_key, lockout_key_valid |-> TRUE,
     return_code |-> dl_success, payload |-> request.payload, is_valid |-> TRUE]

RequestOK ==
    /\ request = Sending(request.message_id, Len(sent))
    /\ request.message_id \in 0 .. Len(sent)
    /\ request.payload \in Payloads /\ request.lockout_key # ""
    /\ request.specifier \in Seq(STRING) /\ request.specifier # EmptyString
    /\ request.routing_key \in Seq(STRING)

SentOK ==
    /\ IsSequence(sent)
    /\ Len(sent) <= MaxSends
    /\ \A t \in 1 .. Len(sent) : /\ sent[t].message_id \in 1 .. t
                                 /\ sent[t] = Sending(sent[t].message_id, t)
    /\ sent # <<>> => /\ request = sent[Len(sent)]
                      /\ Routed(request.routing_key)
    /\ whole \subseteq 1 .. Len(sent)

(* Everything on the way and in the packs is part of a sending.            *)
Came(c) == \E t \in 1 .. Len(sent) : IsPart(c, sent[t])

Collected(slots, id) ==
    /\ slots = [i \in 1 .. Total(request.payload) |-> slots[i]]
    /\ \A i \in 1 .. Total(request.payload) :
         slots[i] # Missing => /\ slots[i] = <<slots[i][1]>>
                               /\ Came(slots[i][1])
                               /\ slots[i][1].message_id[1] = id
                               /\ slots[i][1].message_id[2] = i - 1
    /\ \E i \in 1 .. Total(request.payload) : slots[i] # Missing

PartsOK ==
    /\ \A c \in wire : Came(c)
    /\ pack = [i \in Ids |-> pack[i]]
    /\ \A i \in Ids : pack[i] # <<>> => Collected(pack[i], i)

(* m is what has arrived of the t-th sending.                              *)
Received(m, t) ==
    /\ m = [message_type |-> "request", routing_key |-> request.routing_key,
            correlation_id |-> request.correlation_id,
            message_id |-> sent[t].message_id, reply_to |-> t,
            specifier |-> request.specifier, timestamp |-> t,
            message_operation |-> request.message_operation,
            lockout_key |-> uuid_from_string(request.lockout_key).key,
            lockout_key_valid |-> uuid_from_string(request.lockout_key).valid,
            return_code |-> dl_success, payload |-> m.payload,
            is_valid |-> m.is_valid]
    /\ m.is_valid \in BOOLEAN
    /\ m.is_valid => m.payload = request.payload

QueueOK ==
    /\ IsSequence(queue)
    /\ queue # <<>> => Total(request.payload) > 0
    /\ \A i \in 1 .. Len(queue) : \E t \in 1 .. Len(sent) : Received(queue[i], t)

CallsOK == IsSequence(called) /\ IsSequence(unsent)

(* Sending a reply to the t-th sending failed.                             *)
Failed(t) == \E i \in 1 .. Len(unsent) : unsent[i].routing_key = <<t>>

(* What a whole sending of its own message ID has become.                  *)
Pending ==
    /\ service = "running" /\ Len(sent) \in whole
    /\ \A t \in 1 .. Len(sent) - 1 : sent[t].message_id # request.message_id
    => \/ \E c \in wire : c.reply_to = Len(sent)
       \/ pack[request.message_id] # <<>>
       \/ \E i \in 1 .. Len(queue) : queue[i].reply_to = Len(sent)
       \/ \E r \in replies : /\ r.routing_key = <<Len(sent)>>
                             /\ r.correlation_id = request.correlation_id
       \/ Failed(Len(sent))

Inv ==
    /\ TypeOK
    /\ RequestOK
    /\ SentOK
    /\ PartsOK
    /\ QueueOK
    /\ CallsOK
    /\ Pending

---------------------------------------------------------------------------
(* Sequences.                                                              *)
LEMMA AppendSequence ==
    ASSUME NEW s, NEW x, IsSequence(s)
    PROVE  /\ IsSequence(Append(s, x))
           /\ Len(s) \in Nat /\ Len(Append(s, x)) = Len(s) + 1
           /\ \A i \in 1 .. Len(s) : Append(s, x)[i] = s[i]
           /\ Append(s, x)[Len(s) + 1] = x
           /\ Append(s, x) # s
<1> DEFINE S == Elements(s) \cup {x}
<1>1. s \in Seq(S)
  BY SeqMonotonic DEF IsSequence
<1> HIDE DEF S
<1>2. x \in S
  BY DEF S
<1>3. /\ Append(s, x) \in Seq(S)
      /\ Len(s) \in Nat /\ Len(Append(s, x)) = Len(s) + 1
      /\ \A i \in 1 .. Len(s) : Append(s, x)[i] = s[i]
      /\ Append(s, x)[Len(s) + 1] = x
  BY <1>1, <1>2
<1>4. Append(s, x) \in Seq(Elements(Append(s, x)))
  BY <1>3, IsASeq DEF Elements
<1>5. Append(s, x) # s
  BY <1>3
<1>6. QED
  BY <1>3, <1>4, <1>5 DEF IsSequence

LEMMA TailSequence ==
    ASSUME NEW s, IsSequence(s), s # <<>>
    PROVE  /\ IsSequence(Tail(s))
           /\ Len(s) \in Nat /\ Len(s) >= 1 /\ Len(Tail(s)) = Len(s) - 1
           /\ Head(s) = s[1]
           /\ \A i \in 1 .. Len(s) - 1 : Tail(s)[i] = s[i + 1]
<1>1. /\ Tail(s) \in Seq(Elements(s))
      /\ Len(s) \in Nat /\ Len(s) >= 1 /\ Len(Tail(s)) = Len(s) - 1
      /\ Head(s) = s[1]
      /\ \A i \in 1 .. Len(s) - 1 : Tail(s)[i] = s[i + 1]
  BY DEF IsSequence
<1>2. Tail(s) \in Seq(Elements(Tail(s)))
  <2> DEFINE u == Tail(s)
  <2> HIDE DEF u
  <2>1. Len(u) \in Nat /\ u = [i \in 1 .. Len(u) |-> u[i]]
    <3>1. u \in Seq(Elements(s))
      BY <1>1 DEF u
    <3>2. QED
      BY <3>1
  <2>2. \A i \in 1 .. Len(u) : u[i] \in Elements(u)
    BY DEF Elements
  <2>3. u \in Seq(Elements(u))
    BY <2>1, <2>2
  <2>4. QED
    BY <2>3 DEF u
<1>3. QED
  BY <1>1, <1>2 DEF IsSequence

---------------------------------------------------------------------------
(* Sending, collecting and joining.                                        *)
(* A part of a sending.                                                    *)
LEMMA PartFields ==
    ASSUME RequestOK, SentOK, NEW t \in 1 .. Len(sent), NEW c, IsPart(c, sent[t])
    PROVE  /\ t \in Ids /\ sent[t].message_id \in Ids
           /\ sent[t] = Sending(sent[t].message_id, t)
           /\ c.correlation_id = request.correlation_id /\ c.reply_to = t
           /\ c.header = Header(sent[t])
           /\ c.body \in Texts(request.payload)
           /\ c.message_id[1] = sent[t].message_id
           /\ c.message_id[2] + 1 \in 1 .. Total(request.payload)
           /\ c.body = encode_message_body(request.payload, MaxSize)[c.message_id[2] + 1]
           /\ c.message_id[2] \in Nat /\ c.message_id[2] < c.message_id[3]
           /\ c.message_id[3] = Total(request.payload) /\ Len(c.message_id) = 3
<1>1. /\ Len(sent) \in Nat /\ Len(sent) <= MaxSends
      /\ sent[t].message_id \in 1 .. t
      /\ sent[t] = Sending(sent[t].message_id, t)
  BY DEF SentOK, IsSequence
<1>2. t \in Ids /\ sent[t].message_id \in Ids
  BY <1>1, Numbers DEF Ids
<1>3. /\ sent[t].payload = request.payload /\ sent[t].reply_to = t
      /\ sent[t].correlation_id = request.correlation_id
  BY <1>1 DEF Sending
<1>4. Total(request.payload) \in Nat
  BY Bodies DEF RequestOK
<1>5. PICK i \in 1 .. Total(request.payload) :
        /\ c.message_id = <<sent[t].message_id, i - 1, Total(request.payload)>>
        /\ c.body = encode_message_body(request.payload, MaxSize)[i]
  BY <1>3 DEF IsPart
<1>6. /\ c.message_id[1] = sent[t].message_id
      /\ c.message_id[2] = i - 1 /\ i = c.message_id[2] + 1
      /\ c.message_id[3] = Total(request.payload) /\ Len(c.message_id) = 3
  BY <1>5
<1>7. QED
  BY <1>1, <1>2, <1>3, <1>4, <1>5, <1>6 DEF IsPart

(* What is joined is what has arrived of one sending.                      *)
LEMMA Joined ==
    ASSUME RequestOK, SentOK, NEW id, NEW slots, Collected(slots, id),
           NEW m, m = process_message(slots, request.routing_key)
    PROVE  \E t \in 1 .. Len(sent) : Received(m, t) /\ sent[t].message_id = id
<1> DEFINE n == Total(request.payload)
           P == {c \in {slots[i][1] : i \in 1 .. n} : Came(c) /\ c.message_id[1] = id}
           first == FlattenSeq(slots)[1]
           text == Filled(slots, Len(first.body))
<1>1. n \in Nat /\ request.payload \in Payloads
  BY Bodies DEF RequestOK
<1>2. slots \in [1 .. n -> {Missing} \cup {<<c>> : c \in P}]
  <2>1. ASSUME NEW i \in 1 .. n
        PROVE  slots[i] \in {Missing} \cup {<<c>> : c \in P}
    BY DEF Collected
  <2>2. QED
    BY <2>1 DEF Collected
<1>3. n > 0 /\ \E i \in 1 .. n : slots[i] # Missing
  BY <1>1 DEF Collected
<1>4. first \in P
  <2> HIDE DEF n, P
  <2>1. QED
    BY <1>1, <1>2, <1>3, FirstPart
<1>5. PICK t \in 1 .. Len(sent) : IsPart(first, sent[t])
  BY <1>4 DEF Came
<1>6. first.message_id[1] = id
  BY <1>4
<1>7. m.is_valid => m.payload = request.payload
  <2>1. \A c \in P : c.body \in Texts(request.payload)
    BY PartFields DEF Came
  <2>2. /\ m.payload = Decoded(slots, text)
        /\ m.is_valid = Decodable(slots, text)
    BY DEF process_message, Readable
  <2> HIDE DEF n, P, first
  <2>3. Decodable(slots, text) => Decoded(slots, text) = request.payload
    <3>1. PICK fill : fill = Len(first.body)
      OBVIOUS
    <3>2. ASSUME Decodable(slots, Filled(slots, fill))
          PROVE  Decoded(slots, Filled(slots, fill)) = request.payload
      <4>1. PICK q \in Payloads : q = request.payload
        BY <1>1
      <4>2. PICK k \in Nat : k = n
        BY <1>1
      <4>3. PICK Q : Q = P
        OBVIOUS
      <4>4. \A c \in Q : c.body \in Texts(q)
        BY <2>1, <4>1, <4>3
      <4>5. slots \in [1 .. k -> {Missing} \cup {<<c>> : c \in Q}]
        BY <1>2, <4>2, <4>3
      <4>6. k > 0
        BY <1>3, <4>2
      <4> HIDE DEF text
      <4>7. Decodable(slots, Filled(slots, fill))
              => Decoded(slots, Filled(slots, fill)) = q
        BY ONLY <4>4, <4>5, <4>6, DecodedPayload
      <4>8. QED
        BY <3>2, <4>1, <4>7
    <3>3. QED
      BY <3>1, <3>2
  <2>4. QED
    BY <2>2, <2>3
<1> HIDE DEF first
<1>8. /\ first.correlation_id = request.correlation_id /\ first.reply_to = t
      /\ first.header = Header(sent[t])
      /\ first.message_id[1] = sent[t].message_id
      /\ sent[t] = Sending(sent[t].message_id, t)
  BY <1>5, PartFields
<1>9. parse(to_string(request.specifier)) = request.specifier
  BY DEF RequestOK, parse, to_string, EmptyString
<1>10. first.header =
         [message_type |-> "request", specifier |-> to_string(request.specifier),
          timestamp |-> t, message_operation |-> request.message_operation,
          lockout_key |-> request.lockout_key, return_code |-> dl_success]
  BY <1>8 DEF Header, Sending
<1>11. Received(m, t)
  <2>1. m.is_valid \in BOOLEAN
    BY DEF process_message, Readable, Decodable
  <2>2. QED
    BY <1>7, <1>8, <1>9, <1>10, <2>1 DEF Received, process_message,
      parse_message_id, first
<1>12. QED
  BY <1>6, <1>8, <1>11

(* All the parts there are make a text that can be decoded.                *)
LEMMA CompleteIsValid ==
    ASSUME RequestOK, SentOK, NEW id, NEW slots, Collected(slots, id),
           IsComplete(slots),
           NEW m, m = process_message(slots, request.routing_key)
    PROVE  m.is_valid
<1>1. PICK p \in Payloads : p = request.payload
  BY DEF RequestOK
<1>2. PICK n \in Nat : n = Total(p)
  BY <1>1, Bodies
<1>3. n > 0 /\ slots = [i \in 1 .. n |-> slots[i]]
  BY <1>1, <1>2 DEF Collected
<1>4. ASSUME NEW i \in 1 .. n
      PROVE  slots[i] # Missing /\ slots[i][1].body = encode_message_body(p, MaxSize)[i]
  <2>1. slots[i] # Missing
    BY <1>3 DEF IsComplete
  <2>2. PICK c : c = slots[i][1] /\ Came(c) /\ c.message_id[2] = i - 1
    BY <1>1, <1>2, <2>1 DEF Collected
  <2>3. c.body = encode_message_body(p, MaxSize)[c.message_id[2] + 1]
    BY <1>1, <2>2, PartFields DEF Came
  <2>4. c.message_id[2] + 1 = i
    BY <2>2
  <2>5. QED
    BY <2>1, <2>2, <2>3, <2>4
<1>5. PICK fill : fill = Len(FlattenSeq(slots)[1].body)
  OBVIOUS
<1>6. [i \in DOMAIN slots |-> IF slots[i] = Missing THEN [j \in 1 .. fill |-> Hash]
                              ELSE slots[i][1].body]
        = encode_message_body(p, MaxSize)
  <2>1. PICK bodies : bodies = encode_message_body(p, MaxSize)
    OBVIOUS
  <2>2. bodies = [i \in 1 .. n |-> bodies[i]]
    BY <1>2, <2>1, Bodies DEF encode_message_body
  <2>3. QED
    BY <1>3, <1>4, <2>1, <2>2
<1>7. Filled(slots, fill) = Encoded(p)
  BY <1>2, <1>3, <1>6, PartsJoin DEF Filled
<1>8. m.is_valid = Decodable(slots, Filled(slots, fill))
  BY <1>5 DEF process_message, Readable
<1>9. QED
  BY <1>7, <1>8 DEF Decodable

(* A part that arrives belongs in its pack.                                *)
LEMMA StoreCollects ==
    ASSUME Inv, NEW c \in wire, NEW id, id = parse_message_id(c.message_id).uuid
    PROVE  id \in Ids /\ id = c.message_id[1] /\ Collected(Store(c), id)
<1> DEFINE n == Total(request.payload)
           k == c.message_id[2] + 1
           old == IF pack[id] # <<>> THEN pack[id] ELSE [i \in 1 .. n |-> Missing]
<1>1. PICK t \in 1 .. Len(sent) : IsPart(c, sent[t])
  BY DEF Inv, PartsOK, Came
<1>2. /\ id = c.message_id[1] /\ id \in Ids
      /\ k \in 1 .. n /\ c.message_id[3] = n /\ Len(c.message_id) = 3
      /\ c.message_id[2] = k - 1
  BY <1>1, PartFields DEF Inv, parse_message_id
<1>3. Store(c) = IF old[k] # Missing THEN old ELSE [old EXCEPT ![k] = <<c>>]
  BY <1>2 DEF Store, parse_message_id
<1>4. /\ old = [i \in 1 .. n |-> old[i]]
      /\ \A i \in 1 .. n : old[i] # Missing => /\ old[i] = <<old[i][1]>>
                                               /\ Came(old[i][1])
                                               /\ old[i][1].message_id[1] = id
                                               /\ old[i][1].message_id[2] = i - 1
  <2>1. CASE pack[id] # <<>>
    <3>1. Collected(pack[id], id)
      BY <1>2, <2>1 DEF Inv, PartsOK
    <3>2. QED
      BY <2>1, <3>1 DEF Collected
  <2>2. CASE pack[id] = <<>>
    BY <2>2
  <2>3. QED
    BY <2>1, <2>2
<1>5. Came(c) /\ <<c>>[1] = c /\ <<c>> # Missing
  BY <1>1 DEF Came, Missing
<1> HIDE DEF old, n, k
<1>6. CASE old[k] # Missing
  BY <1>2, <1>3, <1>4, <1>6 DEF Collected, n
<1>7. CASE old[k] = Missing
  <2>1. Store(c) = [i \in 1 .. n |-> IF i = k THEN <<c>> ELSE old[i]]
    BY <1>2, <1>3, <1>4, <1>7
  <2>2. \A i \in 1 .. n : Store(c)[i] = IF i = k THEN <<c>> ELSE old[i]
    BY <2>1
  <2>3. QED
    BY <1>2, <1>4, <1>5, <2>1, <2>2 DEF Collected, n
<1>8. QED
  BY <1>2, <1>6, <1>7

(* Joining appends what has arrived of a sending with that message ID.     *)
LEMMA JoinStep ==
    ASSUME Inv, NEW id, NEW slots, Collected(slots, id), Join(slots),
           UNCHANGED <<request, sent>>
    PROVE  /\ QueueOK'
           /\ Len(queue) \in Nat /\ Len(queue') = Len(queue) + 1
           /\ \A i \in 1 .. Len(queue) : queue'[i] = queue[i]
           /\ \E t \in 1 .. Len(sent) : /\ queue'[Len(queue')].reply_to = t
                                        /\ sent[t].message_id = id
           /\ queue'[Len(queue')].message_id = id
           /\ IsComplete(slots) => queue'[Len(queue')].is_valid
<1>1. PICK m : m = process_message(slots, request.routing_key)
  OBVIOUS
<1>2. queue' = Append(queue, m)
  BY <1>1 DEF Join
<1>3. PICK t \in 1 .. Len(sent) : Received(m, t) /\ sent[t].message_id = id
  BY <1>1, Joined DEF Inv
<1>4. /\ IsSequence(queue') /\ Len(queue) \in Nat /\ Len(queue') = Len(queue) + 1
      /\ \A i \in 1 .. Len(queue) : queue'[i] = queue[i]
      /\ queue'[Len(queue) + 1] = m
  BY <1>2, AppendSequence DEF Inv, QueueOK
<1>5. m.reply_to = t /\ m.message_id = id /\ (IsComplete(slots) => m.is_valid)
  <2>1. IsComplete(slots) => m.is_valid
    BY <1>1, CompleteIsValid DEF Inv
  <2>2. QED
    BY <1>3, <2>1 DEF Received
<1>6. Total(request.payload) > 0
  <2>1. PICK n \in Nat : n = Total(request.payload)
    BY Bodies DEF Inv, RequestOK
  <2>2. \E i \in 1 .. n : slots[i] # Missing
    BY <2>1 DEF Collected
  <2>3. QED
    BY <2>1, <2>2
<1>7. \A x, u : Received(x, u)' <=> Received(x, u)
  BY DEF Received
<1>8. \A i \in 1 .. Len(queue') : \E u \in 1 .. Len(sent) : Received(queue'[i], u)
  BY <1>3, <1>4 DEF Inv, QueueOK
<1>9. QueueOK'
  BY <1>4, <1>6, <1>7, <1>8 DEF QueueOK
<1>10. QED
  BY <1>3, <1>4, <1>5, <1>9

---------------------------------------------------------------------------
(* The steps.                                                              *)
LEMMA SameRequest ==
    ASSUME UNCHANGED <<request, sent>>
    PROVE  /\ \A c : Came(c)' <=> Came(c)
           /\ \A slots, i : Collected(slots, i)' <=> Collected(slots, i)
           /\ \A m, t : Received(m, t)' <=> Received(m, t)
           /\ RequestOK => RequestOK'
<1>1. \A c : Came(c)' <=> Came(c)
  BY DEF Came
<1>2. \A slots, i : Collected(slots, i)' <=> Collected(slots, i)
  BY <1>1 DEF Collected
<1>3. \A m, t : Received(m, t)' <=> Received(m, t)
  BY DEF Received
<1>4. RequestOK => RequestOK'
  BY DEF RequestOK, Sending
<1>5. QED
  BY <1>1, <1>2, <1>3, <1>4

LEMMA SetHandlerKeeps ==
    ASSUME Inv, NEW o \in Operations, NEW w \in Tokens,
           NEW h \in Handlers \cup {NoHandler}, SetHandler(o, w, h)
    PROVE  Inv'
<1>1. UNCHANGED <<name, request, sent, whole, wire, pack, queue, called, replies,
                  unsent, service, copies>>
  BY DEF SetHandler, clientVars, receiverVars, outVars
<1>2. TypeOK'
  <2>1. handlers' \in [Operations -> [Tokens -> Handlers \cup {NoHandler}]]
    BY DEF Inv, TypeOK, SetHandler
  <2>2. changes' \in 0 .. MaxChanges
    BY Numbers DEF Inv, TypeOK, SetHandler
  <2>3. QED
    BY <1>1, <2>1, <2>2 DEF Inv, TypeOK
<1>3. RequestOK'
  BY <1>1, SameRequest DEF Inv
<1>4. SentOK'
  BY <1>1 DEF Inv, SentOK, Sending, Routed, Bound
<1>5. (PartsOK /\ QueueOK)'
  BY <1>1, SameRequest DEF Inv, PartsOK, QueueOK
<1>6. (CallsOK /\ Pending)'
  BY <1>1 DEF Inv, CallsOK, Pending, Failed
<1>7. QED
  BY <1>2, <1>3, <1>4, <1>5, <1>6 DEF Inv

(* A part arrives or a pack is given up: the pack of id becomes slots, or  *)
(* slots are joined.                                                       *)
LEMMA CollectStep ==
    ASSUME Inv, NEW id \in Ids, NEW slots, Collected(slots, id),
           UNCHANGED <<name, request, sent, whole, handlers, called, replies,
                       unsent, service, changes>>,
           copies' \in 0 .. MaxCopies,
           wire' \subseteq wire,
           \A c \in wire : c \notin wire' => c.message_id[1] = id,
           \/ Join(slots) /\ pack' = [pack EXCEPT ![id] = <<>>]
           \/ UNCHANGED queue /\ pack' = [pack EXCEPT ![id] = slots]
    PROVE  Inv'
<1>1. /\ pack' = [i \in Ids |-> pack'[i]]
      /\ \A i \in Ids : i # id => pack'[i] = pack[i]
      /\ pack'[id] = <<>> \/ pack'[id] = slots
  BY DEF Inv, PartsOK
<1>2. slots # <<>>
  BY DEF Collected
<1>3. PartsOK'
  <2>1. \A i \in Ids : pack'[i] # <<>> => Collected(pack'[i], i)
    BY <1>1 DEF Inv, PartsOK
  <2>2. QED
    BY <1>1, <2>1, SameRequest DEF Inv, PartsOK
<1>4. QueueOK' /\ Len(queue) \in Nat /\ Len(queue) <= Len(queue')
      /\ \A i \in 1 .. Len(queue) : queue'[i] = queue[i]
  <2>1. CASE Join(slots)
    BY <2>1, JoinStep
  <2>2. CASE UNCHANGED queue
    BY <2>2, SameRequest DEF Inv, QueueOK, IsSequence
  <2>3. QED
    BY <2>1, <2>2
<1>5. TypeOK'
  BY <1>1 DEF Inv, TypeOK
<1>6. RequestOK'
  BY SameRequest DEF Inv
<1>7. SentOK'
  BY DEF Inv, SentOK, Sending, Routed, Bound
<1>8. CallsOK'
  BY DEF Inv, CallsOK
<1>9. Pending'
  <2>1. SUFFICES ASSUME service = "running", Len(sent) \in whole,
                        \A t \in 1 .. Len(sent) - 1 :
                          sent[t].message_id # request.message_id
                 PROVE  \/ \E c \in wire' : c.reply_to = Len(sent)
                        \/ pack'[request.message_id] # <<>>
                        \/ \E i \in 1 .. Len(queue') : queue'[i].reply_to = Len(sent)
                        \/ \E r \in replies : /\ r.routing_key = <<Len(sent)>>
                                              /\ r.correlation_id = request.correlation_id
                        \/ Failed(Len(sent))
    BY DEF Pending, Failed
  <2>2. /\ Len(sent) \in Nat /\ Len(sent) \in 1 .. Len(sent)
        /\ request = sent[Len(sent)] /\ request.message_id \in Ids
    <3>1. Len(sent) \in Nat /\ Len(sent) \in 1 .. Len(sent) /\ Len(sent) <= MaxSends
      BY <2>1 DEF Inv, SentOK, IsSequence
    <3>2. sent # <<>>
      BY <3>1
    <3>3. QED
      BY <3>1, <3>2, Numbers DEF Inv, SentOK, Ids
  <2>3. id = request.message_id => \/ pack'[id] # <<>>
          \/ \E i \in 1 .. Len(queue') : queue'[i].reply_to = Len(sent)
    <3>1. CASE Join(slots)
      <4>1. PICK t \in 1 .. Len(sent) : /\ queue'[Len(queue')].reply_to = t
                                        /\ sent[t].message_id = id
        BY <3>1, JoinStep
      <4>2. Len(queue') \in 1 .. Len(queue')
        BY <3>1, JoinStep
      <4>3. QED
        BY <2>1, <2>2, <4>1, <4>2
    <3>2. CASE pack' = [pack EXCEPT ![id] = slots]
      BY <1>2, <3>2 DEF Inv, PartsOK
    <3>3. QED
      BY <3>1, <3>2
  <2>4. CASE \E c \in wire : c.reply_to = Len(sent)
    <3>1. PICK c \in wire : c.reply_to = Len(sent)
      BY <2>4
    <3>2. PICK t \in 1 .. Len(sent) : IsPart(c, sent[t])
      BY DEF Inv, PartsOK, Came
    <3>3. c.reply_to = t /\ c.message_id[1] = sent[t].message_id
      BY <3>2, PartFields DEF Inv
    <3>4. c.message_id[1] = request.message_id
      BY <2>2, <3>1, <3>3
    <3>5. QED
      BY <2>3, <3>1, <3>4
  <2>5. CASE pack[request.message_id] # <<>>
    BY <1>1, <2>2, <2>3, <2>5
  <2>6. CASE \E i \in 1 .. Len(queue) : queue[i].reply_to = Len(sent)
    BY <1>4, <2>6
  <2>7. QED
    BY <2>1, <2>4, <2>5, <2>6 DEF Inv, Pending
<1>10. QED
  BY <1>3, <1>4, <1>5, <1>6, <1>7, <1>8, <1>9 DEF Inv

LEMMA ArriveKeeps ==
    ASSUME Inv, NEW c \in wire, Arrive(c)
    PROVE  Inv'
<1>1. PICK id : id = parse_message_id(c.message_id).uuid
  OBVIOUS
<1>2. PICK slots : slots = Store(c)
  OBVIOUS
<1>3. id \in Ids /\ id = c.message_id[1] /\ Collected(slots, id)
  BY <1>1, <1>2, StoreCollects
<1>4. UNCHANGED <<name, request, sent, whole, handlers, called, replies,
                  unsent, service, changes>>
  BY DEF Arrive, clientVars, outVars
<1>5. \/ Join(slots) /\ pack' = [pack EXCEPT ![id] = <<>>]
      \/ UNCHANGED queue /\ pack' = [pack EXCEPT ![id] = slots]
  BY <1>1, <1>2 DEF Arrive
<1>6. /\ copies' \in 0 .. MaxCopies
      /\ wire' = wire \/ wire' = wire \ {c}
  BY Numbers DEF Arrive, Inv, TypeOK
<1>7. wire' \subseteq wire /\ \A x \in wire : x \notin wire' => x.message_id[1] = id
  BY <1>3, <1>6
<1>8. QED
  BY <1>3, <1>4, <1>5, <1>6, <1>7, CollectStep

LEMMA TimeOutKeeps ==
    ASSUME Inv, NEW id \in Ids, TimeOut(id)
    PROVE  Inv'
<1>1. Collected(pack[id], id)
  BY DEF Inv, PartsOK, TimeOut
<1>2. UNCHANGED <<name, request, sent, whole, wire, handlers, called, replies,
                  unsent, service, changes, copies>>
  BY DEF TimeOut, clientVars, outVars
<1>3. copies' \in 0 .. MaxCopies
  BY <1>2 DEF Inv, TypeOK
<1>4. Join(pack[id]) /\ pack' = [pack EXCEPT ![id] = <<>>]
  BY DEF TimeOut
<1>5. QED
  BY <1>1, <1>2, <1>3, <1>4, CollectStep

(* Sending again: what was sent before is still what has been collected.   *)
LEMMA SendKeeps ==
    ASSUME Inv, NEW reset \in BOOLEAN, NEW n \in 0 .. BodyLength[request.payload],
           Send(reset, n)
    PROVE  Inv'
<1> DEFINE try == Len(sent) + 1
           id == IF reset \/ request.message_id = 0 THEN try ELSE request.message_id
<1>1. PICK message : message = [request EXCEPT !.message_id = id, !.reply_to = try,
                                               !.timestamp = try]
  OBVIOUS
<1>2. PICK parts : parts = create_amqp_messages(message, MaxSize)
  OBVIOUS
<1>3. /\ try <= MaxSends /\ Routed(request.routing_key) /\ n <= Len(parts)
      /\ request' = message /\ sent' = Append(sent, message)
      /\ whole' = IF parts # <<>> /\ n = Len(parts) THEN whole \cup {try} ELSE whole
      /\ wire' = wire \cup {parts[i] : i \in 1 .. n}
  BY <1>1, <1>2 DEF Send
<1>4. UNCHANGED <<name, pack, queue, handlers, called, replies, unsent, service, changes,
                  copies>>
  BY DEF Send, receiverVars, outVars
<1>5. Len(sent) \in Nat /\ try \in Nat /\ try \in Ids
  BY <1>3, Numbers DEF Inv, SentOK, IsSequence, Ids
<1>6. id \in 1 .. try
  <2>1. request.message_id \in 0 .. Len(sent)
    BY DEF Inv, RequestOK
  <2>2. QED
    BY <1>5, <2>1
<1> HIDE DEF id
<1>7. message = Sending(id, try)
  <2>1. PICK i, t : request = Sending(i, t)
    BY DEF Inv, RequestOK
  <2>2. message = [Sending(i, t) EXCEPT !.message_id = id, !.reply_to = try,
                                        !.timestamp = try]
    BY <1>1, <2>1
  <2>3. QED
    BY <2>1, <2>2 DEF Sending
<1>8. /\ IsSequence(sent') /\ Len(sent') = try /\ sent'[try] = message
      /\ \A t \in 1 .. Len(sent) : sent'[t] = sent[t]
  BY <1>3, AppendSequence DEF Inv, SentOK
<1>9. /\ request'.message_type = "request"
      /\ request'.message_id = id /\ request'.payload = request.payload
      /\ request'.routing_key = request.routing_key
      /\ request'.correlation_id = request.correlation_id
      /\ request'.specifier = request.specifier
      /\ request'.message_operation = request.message_operation
      /\ request'.lockout_key = request.lockout_key
  BY <1>3, <1>7 DEF Sending
<1>10. \A t : t \in 1 .. Len(sent) => t \in 1 .. Len(sent')
  BY <1>5, <1>8
<1>11. try \in 1 .. Len(sent')
  BY <1>5, <1>8
<1>12. \A c : Came(c) => Came(c)'
  BY <1>8, <1>10 DEF Came
<1>13. \A slots, i : Collected(slots, i) => Collected(slots, i)'
  BY <1>9, <1>12 DEF Collected
<1>14. ASSUME NEW m, NEW t \in 1 .. Len(sent), Received(m, t)
       PROVE  Received(m, t)'
  <2>1. sent'[t] = sent[t]
    BY <1>8
  <2>2. QED
    BY <1>9, <1>14, <2>1 DEF Received
<1>15. /\ Total(request.payload) \in Nat /\ Len(parts) = Total(request.payload)
       /\ DOMAIN parts = 1 .. Total(request.payload)
       /\ \A i \in 1 .. Total(request.payload) : IsPart(parts[i], message)
  <2>1. message.payload = request.payload /\ request.payload \in Payloads
    BY <1>7 DEF Sending, Inv, RequestOK
  <2>2. QED
    BY <1>2, <2>1, PartsOf
<1>16. \A i \in 1 .. n : Came(parts[i])'
  <2>1. \A i \in 1 .. n : IsPart(parts[i], sent'[try])
    BY <1>3, <1>5, <1>8, <1>15
  <2>2. QED
    BY <1>11, <2>1 DEF Came
<1>17. RequestOK'
  <2>1. (request = Sending(request.message_id, Len(sent)))'
    BY <1>3, <1>7, <1>8, <1>9 DEF Sending
  <2>2. request'.message_id \in 0 .. Len(sent')
    BY <1>5, <1>6, <1>8, <1>9
  <2>3. QED
    BY <1>9, <2>1, <2>2 DEF Inv, RequestOK
<1>18. SentOK'
  <2>1. ASSUME NEW t \in 1 .. Len(sent')
        PROVE  /\ sent'[t].message_id \in 1 .. t
               /\ (sent[t] = Sending(sent[t].message_id, t))'
    <3>1. CASE t = try
      <4>1. sent'[t].message_id = id /\ sent'[t] = Sending(id, t)
        BY <1>7, <1>8, <3>1 DEF Sending
      <4>2. QED
        BY <1>6, <1>9, <3>1, <4>1 DEF Sending
    <3>2. CASE t \in 1 .. Len(sent)
      <4>1. /\ sent'[t] = sent[t] /\ sent[t].message_id \in 1 .. t
            /\ sent[t] = Sending(sent[t].message_id, t)
        BY <1>8, <3>2 DEF Inv, SentOK
      <4>2. QED
        BY <1>9, <4>1 DEF Sending
    <3>3. QED
      BY <1>5, <1>8, <3>1, <3>2
  <2>2. request' = sent'[Len(sent')] /\ Routed(request.routing_key)'
    BY <1>3, <1>4, <1>8, <1>9 DEF Routed, Bound
  <2>3. whole' \subseteq 1 .. Len(sent')
    <3>1. whole \subseteq 1 .. Len(sent)
      BY DEF Inv, SentOK
    <3>2. whole' = whole \/ whole' = whole \cup {try}
      BY <1>3
    <3>3. QED
      BY <1>10, <1>11, <3>1, <3>2
  <2>4. Len(sent') <= MaxSends
    BY <1>3, <1>8
  <2>5. QED
    BY <1>8, <2>1, <2>2, <2>3, <2>4 DEF SentOK
<1>19. PartsOK'
  <2>1. \A c \in wire' : Came(c)'
    BY <1>3, <1>12, <1>16 DEF Inv, PartsOK
  <2>2. QED
    BY <1>4, <1>13, <2>1 DEF Inv, PartsOK
<1>20. QueueOK'
  <2>1. ASSUME NEW i \in 1 .. Len(queue)
        PROVE  \E t \in 1 .. Len(sent') : Received(queue[i], t)'
    <3>1. PICK t \in 1 .. Len(sent) : Received(queue[i], t)
      BY DEF Inv, QueueOK
    <3>2. PICK m : m = queue[i]
      OBVIOUS
    <3>3. Received(m, t)'
      BY <1>14, <3>1, <3>2
    <3>4. QED
      BY <1>4, <1>10, <3>2, <3>3
  <2>2. QED
    BY <1>4, <1>9, <2>1 DEF Inv, QueueOK
<1>21. TypeOK'
  <2>1. Len(sent') \in 0 .. MaxSends /\ whole' \subseteq Ids
    BY <1>3, <1>5, <1>8, Numbers DEF Inv, TypeOK
  <2>2. request'.message_id \in 0 .. MaxSends /\ request'.reply_to = Len(sent')
    BY <1>3, <1>5, <1>6, <1>7, <1>8, <1>9, Numbers DEF Sending
  <2>3. ASSUME NEW c \in wire'
        PROVE  c.message_id[2] < c.message_id[3]
    <3>1. CASE c \in wire
      BY <3>1 DEF Inv, TypeOK
    <3>2. CASE \E i \in 1 .. n : c = parts[i]
      <4>1. IsPart(c, message)
        BY <1>3, <1>15, <3>2
      <4>2. PICK i \in 1 .. Total(message.payload) :
              c.message_id = <<message.message_id, i - 1, Total(message.payload)>>
        BY <4>1 DEF IsPart
      <4>3. message.payload = request.payload
        BY <1>7 DEF Sending
      <4>4. QED
        BY <1>15, <4>2, <4>3
    <3>3. QED
      BY <1>3, <3>1, <3>2
  <2>4. QED
    BY <1>4, <2>1, <2>2, <2>3 DEF Inv, TypeOK
<1>22. CallsOK'
  BY <1>4, <1>9 DEF Inv, CallsOK
<1>23. Pending'
  <2>1. SUFFICES ASSUME Len(sent') \in whole'
                 PROVE  \E c \in wire' : c.reply_to = Len(sent')
    BY DEF Pending
  <2>2. parts # <<>> /\ n = Len(parts)
    <3>1. try \notin whole
      BY <1>5 DEF Inv, SentOK
    <3>2. QED
      BY <1>3, <1>8, <2>1, <3>1
  <2>3. PICK k \in Nat : k = Total(request.payload)
    BY <1>15
  <2>4. k > 0
    <3>1. parts = [i \in 1 .. k |-> parts[i]]
      BY <1>2, <1>15, <2>3 DEF create_amqp_messages
    <3>2. QED
      BY <2>2, <2>3, <3>1
  <2>5. parts[1] \in wire' /\ IsPart(parts[1], message)
    BY <1>3, <1>15, <2>2, <2>3, <2>4
  <2>6. parts[1].reply_to = try
    BY <1>7, <2>5 DEF IsPart, Sending
  <2>7. QED
    BY <1>8, <2>5, <2>6
<1>24. QED
  BY <1>17, <1>18, <1>19, <1>20, <1>21, <1>22, <1>23 DEF Inv

---------------------------------------------------------------------------
(* Handling.  r is a reply to the t-th sending.                            *)
Replies(r, t) ==
    /\ r.message_type = "reply"
    /\ r.routing_key = <<t>> /\ r.correlation_id = request.correlation_id

Replied(t) ==
    /\ \E x : Replies(x, t) /\ replies' = replies \cup {x}
    /\ UNCHANGED unsent

NotReplied(t) ==
    /\ \E x : Replies(x, t) /\ replies' \in {replies, replies \cup {x}}
    /\ Len(unsent) < MaxFaults
    /\ \E r : Replies(r, t) /\ unsent' = Append(unsent, r)

(* What reply makes of m, also without the first word of its specifier.    *)
LEMMA ReplyRecord ==
    ASSUME NEW m, NEW t, Received(m, t), NEW code, NEW payload,
           NEW n, n = m \/ n = WithoutFirst(m),
           NEW r, r = reply(n, code, payload)
    PROVE  Replies(r, t) /\ r.payload = payload /\ r.return_code = code
<1>1. PICK s, k, v, p, b, i :
        m = [message_type |-> "request", routing_key |-> request.routing_key,
             correlation_id |-> request.correlation_id, message_id |-> i,
             reply_to |-> t, specifier |-> s, timestamp |-> t,
             message_operation |-> request.message_operation,
             lockout_key |-> k, lockout_key_valid |-> v,
             return_code |-> dl_success, payload |-> p, is_valid |-> b]
  BY Zenon DEF Received
<1>2. PICK u :
        n = [message_type |-> "request", routing_key |-> request.routing_key,
             correlation_id |-> request.correlation_id, message_id |-> i,
             reply_to |-> t, specifier |-> u, timestamp |-> t,
             message_operation |-> request.message_operation,
             lockout_key |-> k, lockout_key_valid |-> v,
             return_code |-> dl_success, payload |-> p, is_valid |-> b]
  BY <1>1 DEF WithoutFirst
<1>3. r = [message_type |-> "reply", routing_key |-> <<t>>,
           correlation_id |-> request.correlation_id, message_id |-> 0,
           reply_to |-> 0, specifier |-> <<>>, timestamp |-> t,
           message_operation |-> "none", lockout_key |-> "nil",
           lockout_key_valid |-> TRUE, return_code |-> code,
           payload |-> payload, is_valid |-> TRUE]
  BY <1>2 DEF reply, ReplyKey
<1>4. QED
  BY <1>3 DEF Replies

(* A reply reaches the client with its type, key and correlation ID.       *)
LEMMA ReplyJoined ==
    ASSUME NEW r, NEW t, Replies(r, t), r.payload \in Payloads, Total(r.payload) > 0,
           NEW parts, parts = create_amqp_messages(r, MaxSize),
           NEW x, x = process_message([i \in DOMAIN parts |-> <<parts[i]>>], r.routing_key)
    PROVE  Replies(x, t)
<1>1. PICK n \in Nat : n = Total(r.payload)
  BY PartsOf
<1>2. n > 0 /\ DOMAIN parts = 1 .. n /\ \A i \in 1 .. n : IsPart(parts[i], r)
  BY <1>1, PartsOf
<1> DEFINE P == {parts[i] : i \in 1 .. n}
           slots == [i \in 1 .. n |-> <<parts[i]>>]
           first == FlattenSeq(slots)[1]
<1>3. first \in P
  <2>1. slots \in [1 .. n -> {Missing} \cup {<<c>> : c \in P}]
    OBVIOUS
  <2>2. \E i \in 1 .. n : slots[i] # Missing
    BY <1>2 DEF Missing
  <2> HIDE DEF P, slots
  <2>3. QED
    BY <2>1, <2>2, FirstPart
<1>4. IsPart(first, r)
  BY <1>2, <1>3
<1>5. x = process_message(slots, r.routing_key)
  BY <1>2
<1> HIDE DEF slots
<1>6. /\ x.message_type = first.header.message_type
      /\ x.routing_key = r.routing_key
      /\ x.correlation_id = first.correlation_id
  BY <1>5 DEF process_message
<1>7. first.header.message_type = r.message_type /\ first.correlation_id = r.correlation_id
  BY <1>4 DEF IsPart, Header
<1>8. QED
  BY <1>6, <1>7 DEF Replies

LEMMA ReplyAtClient ==
    ASSUME Inv, queue # <<>>, NEW m, NEW t, Received(m, t), NEW code,
           m.is_valid \/ code = dl_service_error_decoding_fail,
           NEW n, n = m \/ n = WithoutFirst(m),
           NEW r, r = reply(n, code, m.payload)
    PROVE  Replies(r, t) /\ Replies(AtClient(r), t)
<1>1. Replies(r, t) /\ r.payload = m.payload /\ r.return_code = code
  BY ReplyRecord
<1>2. CASE code = dl_service_error_decoding_fail
  BY <1>1, <1>2 DEF AtClient
<1>3. CASE code # dl_service_error_decoding_fail
  <2>1. r.payload \in Payloads /\ Total(r.payload) > 0
    BY <1>1, <1>3 DEF Received, Inv, RequestOK, QueueOK
  <2>2. PICK parts : parts = create_amqp_messages(r, MaxSize)
    OBVIOUS
  <2>3. PICK x : x = process_message([i \in DOMAIN parts |-> <<parts[i]>>], r.routing_key)
    OBVIOUS
  <2>4. Replies(x, t)
    BY <1>1, <2>1, <2>2, <2>3, ReplyJoined
  <2>5. AtClient(r) = x
    BY <1>1, <1>3, <2>2, <2>3 DEF AtClient
  <2>6. QED
    BY <1>1, <2>4, <2>5
<1>4. QED
  BY <1>2, <1>3

LEMMA ReplyTried ==
    ASSUME NEW r, NEW t, Replies(r, t), Replies(AtClient(r), t)
    PROVE  /\ Sent(r) => Replied(t)
           /\ NotSent(r) => NotReplied(t)
BY DEF Sent, NotSent, Replied, NotReplied

LEMMA ReceivedFields ==
    ASSUME NEW m, NEW t, Received(m, t)
    PROVE  /\ m.routing_key = request.routing_key /\ m.reply_to = t
           /\ m.message_operation = request.message_operation
           /\ m.specifier = request.specifier
           /\ m.is_valid \in BOOLEAN /\ m.lockout_key_valid \in BOOLEAN
           /\ m.is_valid => m.payload = request.payload
           /\ m.lockout_key_valid => request.lockout_key # "malformed"
<1>1. m.is_valid \in BOOLEAN /\ (m.is_valid => m.payload = request.payload)
  BY DEF Received
<1>2. PICK u : u = uuid_from_string(request.lockout_key)
  OBVIOUS
<1>3. u.valid \in BOOLEAN /\ (u.valid => request.lockout_key # "malformed")
  BY <1>2 DEF uuid_from_string
<1>4. PICK p, b :
        m = [message_type |-> "request", routing_key |-> request.routing_key,
             correlation_id |-> request.correlation_id,
             message_id |-> sent[t].message_id, reply_to |-> t,
             specifier |-> request.specifier, timestamp |-> t,
             message_operation |-> request.message_operation,
             lockout_key |-> u.key, lockout_key_valid |-> u.valid,
             return_code |-> dl_success, payload |-> p, is_valid |-> b]
  BY <1>2, Zenon DEF Received
<1>5. /\ m.routing_key = request.routing_key /\ m.reply_to = t
      /\ m.message_operation = request.message_operation
      /\ m.specifier = request.specifier /\ m.lockout_key_valid = u.valid
  BY <1>4
<1>6. QED
  BY <1>1, <1>3, <1>5

(* c is a call of the handler registered for the request.                  *)
CallOK(c) ==
    /\ request.specifier # <<>>
    /\ c.handler = handlers[request.message_operation][Head(request.specifier)]
    /\ c.request.specifier = Tail(request.specifier)
    /\ c.request.payload = request.payload
    /\ request.lockout_key # "malformed"

(* What handling what has arrived of the t-th sending comes to, by the     *)
(* service itself or a child: a reply, or one that is not sent, perhaps    *)
(* after a call, or the end of the service.                                *)
Outcome(t, is_hub) ==
    \/ /\ Replied(t) \/ NotReplied(t)
       /\ UNCHANGED <<called, service>>
    \/ /\ NotReplied(t) /\ is_hub
       /\ service' = "stopped" /\ UNCHANGED called
    \/ /\ Replied(t) \/ NotReplied(t)
       /\ \E c : called' = Append(called, c) /\ CallOK(c)
       /\ service' \in {service, "stopped"}
    \/ /\ service' = "crashed" /\ UNCHANGED <<called, replies, unsent>>
       /\ request.specifier = <<>>
    \/ /\ service' = "stopped" /\ UNCHANGED <<called, replies, unsent>>
       /\ <<FirstToken(request.routing_key)>> \notin Own \cup Children
       /\ \E x \in Bound : Len(x) > 1 /\ IsPrefix(x, request.routing_key)

LEMMA AnswerOutcome ==
    ASSUME Inv, queue # <<>>, NEW m, NEW t, Received(m, t), NEW code,
           m.is_valid \/ code = dl_service_error_decoding_fail,
           NEW is_hub, Answer(m, code, is_hub)
    PROVE  Outcome(t, is_hub)
<1>1. PICK r : r = reply(m, code, m.payload)
  OBVIOUS
<1>2. Replies(r, t) /\ Replies(AtClient(r), t)
  BY <1>1, ReplyAtClient
<1>3. Reply(r, is_hub) /\ UNCHANGED called
  BY <1>1 DEF Answer
<1>4. QED
  BY <1>2, <1>3, ReplyTried DEF Reply, Outcome

LEMMA HubOutcome ==
    ASSUME Inv, queue # <<>>, NEW m, NEW t, Received(m, t), m.is_valid,
           m.lockout_key_valid, hub_do_request(m, m.message_operation)
    PROVE  Outcome(t, TRUE)
<1>1. /\ m.message_operation = request.message_operation
      /\ m.specifier = request.specifier /\ m.payload = request.payload
      /\ request.lockout_key # "malformed"
  BY ReceivedFields
<1>2. CASE m.specifier = <<>>
  <2>1. CASE Answer(m, dl_service_error_bad_payload, TRUE)
    BY <2>1, AnswerOutcome
  <2>2. CASE ~Answer(m, dl_service_error_bad_payload, TRUE)
    BY <1>1, <1>2, <2>2 DEF hub_do_request, Outcome
  <2>3. QED
    BY <2>1, <2>2
<1>3. CASE m.specifier # <<>>
  <2> DEFINE word == Head(m.specifier)
             h == IF word \in Tokens THEN handlers[m.message_operation][word]
                  ELSE NoHandler
  <2>1. PICK rest : rest = WithoutFirst(m)
    OBVIOUS
  <2>2. PICK c : c = [handler |-> h, operation |-> m.message_operation,
                      request |-> rest]
    OBVIOUS
  <2>3. CASE h = NoHandler
    <3>1. Answer(m, dl_service_error_bad_payload, TRUE)
      BY <1>3, <2>3 DEF hub_do_request
    <3>2. QED
      BY <3>1, AnswerOutcome
  <2>4. CASE h # NoHandler
    <3>1. /\ called' = Append(called, c)
          /\ \/ \E code \in {dl_success, dl_service_error_bad_payload} :
                  Reply(reply(rest, code, m.payload), TRUE)
             \/ LET r == reply(rest, dl_unhandled_exception, m.payload) IN
                (Sent(r) \/ NotSent(r)) /\ service' = "stopped"
      BY <1>3, <2>1, <2>2, <2>4 DEF hub_do_request
    <3>2. PICK code, r : /\ r = reply(rest, code, m.payload)
                         /\ Sent(r) \/ NotSent(r)
                         /\ service' \in {service, "stopped"}
      BY <3>1 DEF Reply
    <3>8. Replies(r, t) /\ Replies(AtClient(r), t)
      BY <2>1, <3>2, ReplyAtClient
    <3>3. (Replied(t) \/ NotReplied(t)) /\ service' \in {service, "stopped"}
      BY <3>2, <3>8, ReplyTried
    <3>4. rest.specifier = Tail(m.specifier) /\ rest.payload = m.payload
      <4>1. PICK s : m = [message_type |-> "request", routing_key |-> request.routing_key,
             correlation_id |-> request.correlation_id,
             message_id |-> sent[t].message_id, reply_to |-> t, specifier |-> s,
             timestamp |-> t, message_operation |-> request.message_operation,
             lockout_key |-> uuid_from_string(request.lockout_key).key,
             lockout_key_valid |-> uuid_from_string(request.lockout_key).valid,
             return_code |-> dl_success, payload |-> m.payload, is_valid |-> m.is_valid]
        BY Zenon DEF Received
      <4>2. QED
        BY <2>1, <4>1 DEF WithoutFirst
    <3>5. h = handlers[m.message_operation][word]
      BY <2>4
    <3>6. CallOK(c)
      BY <1>1, <1>3, <2>2, <3>4, <3>5 DEF CallOK
    <3>7. QED
      BY <3>1, <3>3, <3>6 DEF Outcome
  <2>5. QED
    BY <2>3, <2>4
<1>4. QED
  BY <1>2, <1>3

LEMMA EndpointOutcome ==
    ASSUME Inv, queue # <<>>, NEW m, NEW t, Received(m, t), NEW is_hub \in BOOLEAN,
           endpoint_on_request_message(m, is_hub)
    PROVE  Outcome(t, is_hub)
<1>1. m.is_valid \in BOOLEAN /\ m.lockout_key_valid \in BOOLEAN
  BY ReceivedFields
<1>2. CASE ~m.is_valid
  BY <1>2, AnswerOutcome DEF endpoint_on_request_message
<1>3. CASE m.is_valid /\ ~m.lockout_key_valid
  BY <1>3, AnswerOutcome DEF endpoint_on_request_message
<1>4. CASE m.is_valid /\ m.lockout_key_valid
  <2>1. \/ is_hub /\ hub_do_request(m, m.message_operation)
        \/ \E code : Answer(m, code, is_hub)
    BY <1>4 DEF endpoint_on_request_message
  <2>2. QED
    BY <1>4, <2>1, HubOutcome, AnswerOutcome
<1>5. QED
  BY <1>1, <1>2, <1>3, <1>4

(* A key that is routed here is dispatched, unless it is that of a name of *)
(* several words.                                                          *)
LEMMA RoutedDispatched ==
    ASSUME name \in Names, NEW key \in Seq(STRING), Routed(key),
           <<FirstToken(key)>> \notin Own, <<FirstToken(key)>> \notin Children
    PROVE  \E x \in Bound : Len(x) > 1 /\ IsPrefix(x, key)
<1>1. PICK x \in Bound : IsPrefix(x, key)
  BY DEF Routed
<1>2. x = <<Broadcast>> \/ (x \in Seq(STRING) /\ x # <<>>)
  <2>1. \A y \in Names \cup Children : y \in Seq(STRING) /\ y # <<>>
    BY RequestPathAssumption, Zenon DEF RequestPathAssumption
  <2>2. QED
    BY <2>1 DEF Bound
<1>3. CASE x = <<Broadcast>>
  <2>1. key[1] = Broadcast /\ 1 \in DOMAIN key
    BY <1>1, <1>3 DEF IsPrefix
  <2>2. QED
    BY <2>1 DEF FirstToken, Own
<1>4. CASE x \in Seq(STRING) /\ x # <<>>
  <2>1. Len(x) \in Nat /\ Len(x) >= 1 /\ DOMAIN x = 1 .. Len(x)
    BY <1>4
  <2>2. 1 \in DOMAIN x /\ 1 \in DOMAIN key /\ x[1] = key[1]
    BY <1>1, <2>1 DEF IsPrefix
  <2>3. Head(key) = x[1]
    BY <2>2
  <2>4. Len(x) # 1
    <3>1. SUFFICES ASSUME Len(x) = 1 PROVE FALSE
      OBVIOUS
    <3>2. x = <<x[1]>>
      BY <1>4, <3>1
    <3>3. x \in Own \cup Children
      BY DEF Bound, Own
    <3>4. QED
      BY <2>3, <3>2, <3>3 DEF FirstToken
  <2>5. QED
    BY <1>1, <2>1, <2>4
<1>5. QED
  BY <1>2, <1>3, <1>4

LEMMA HandleOutcome ==
    ASSUME Inv, Handle
    PROVE  \E t \in 1 .. Len(sent), is_hub \in BOOLEAN :
             /\ Received(queue[1], t) /\ Outcome(t, is_hub)
             /\ is_hub => <<FirstToken(request.routing_key)>> \in Own
<1>1. /\ queue # <<>> /\ IsSequence(queue) /\ Head(queue) = queue[1]
      /\ Len(queue) \in Nat /\ Len(queue) >= 1
  BY TailSequence DEF Inv, QueueOK, Handle
<1>2. PICK m : m = queue[1]
  OBVIOUS
<1>3. PICK t \in 1 .. Len(sent) : Received(m, t)
  BY <1>1, <1>2 DEF Inv, QueueOK
<1>4. m.routing_key = request.routing_key
  BY <1>3 DEF Received
<1> DEFINE first == <<FirstToken(m.routing_key)>>
<1>5. IF first \in Own THEN endpoint_on_request_message(m, TRUE)
      ELSE IF first \in Children THEN endpoint_on_request_message(m, FALSE)
      ELSE service' = "stopped" /\ UNCHANGED <<called, replies, unsent>>
  BY <1>1, <1>2 DEF Handle
<1>6. CASE first \in Own \/ first \in Children
  <2>1. \E h \in BOOLEAN : endpoint_on_request_message(m, h) /\ (h => first \in Own)
    BY <1>5, <1>6
  <2>2. QED
    BY <1>1, <1>2, <1>3, <1>4, <2>1, EndpointOutcome
<1>7. CASE first \notin Own /\ first \notin Children
  <2>1. Routed(request.routing_key) /\ request.routing_key \in Seq(STRING)
    <3>1. sent # <<>>
      BY <1>3
    <3>2. QED
      BY <3>1 DEF Inv, SentOK, RequestOK
  <2>2. name \in Names
    BY DEF Inv, TypeOK
  <2>3. \E x \in Bound : Len(x) > 1 /\ IsPrefix(x, request.routing_key)
    BY <1>4, <1>7, <2>1, <2>2, RoutedDispatched
  <2>4. QED
    BY <1>2, <1>3, <1>4, <1>5, <1>7, <2>3 DEF Outcome
<1>8. QED
  BY <1>6, <1>7

LEMMA HandleKeeps ==
    ASSUME Inv, Handle
    PROVE  Inv'
<1>1. PICK t \in 1 .. Len(sent), is_hub \in BOOLEAN :
        Received(queue[1], t) /\ Outcome(t, is_hub)
  BY HandleOutcome
<1>2. /\ service = "running" /\ queue # <<>> /\ queue' = Tail(queue)
      /\ UNCHANGED <<name, request, sent, whole, wire, pack, handlers, changes, copies>>
  BY DEF Handle, clientVars
<1>3. /\ IsSequence(queue')
      /\ Len(queue) \in Nat /\ Len(queue) >= 1 /\ Len(queue') = Len(queue) - 1
      /\ \A i \in 1 .. Len(queue) - 1 : queue'[i] = queue[i + 1]
  BY <1>2, TailSequence DEF Inv, QueueOK
<1>4. /\ service' \in {"running", "stopped", "crashed"}
      /\ service' = "running" => Replied(t) \/ NotReplied(t)
      /\ UNCHANGED <<replies, unsent>> \/ Replied(t) \/ NotReplied(t)
  BY <1>1, <1>2 DEF Outcome
<1>5. replies \subseteq replies' /\ \A r \in replies' : r.message_type = "reply"
  BY <1>4 DEF Inv, TypeOK, Replied, NotReplied, Replies
<1>12. /\ IsSequence(unsent') /\ Len(unsent') \in 0 .. MaxFaults
       /\ NotReplied(t) => \E i \in 1 .. Len(unsent') : unsent'[i].routing_key = <<t>>
       /\ Len(unsent) \in Nat /\ Len(unsent) <= Len(unsent')
       /\ \A i \in 1 .. Len(unsent) : unsent'[i] = unsent[i]
  <2>1. /\ IsSequence(unsent) /\ Len(unsent) \in 0 .. MaxFaults /\ MaxFaults \in Nat
    BY Numbers DEF Inv, CallsOK, TypeOK
  <2>2. CASE NotReplied(t)
    <3>1. PICK r : Replies(r, t) /\ unsent' = Append(unsent, r) /\ Len(unsent) < MaxFaults
      BY <2>2 DEF NotReplied
    <3>2. /\ IsSequence(unsent') /\ Len(unsent) \in Nat /\ Len(unsent') = Len(unsent) + 1
          /\ \A i \in 1 .. Len(unsent) : unsent'[i] = unsent[i]
          /\ unsent'[Len(unsent) + 1] = r
      BY <2>1, <3>1, AppendSequence
    <3>3. Len(unsent') \in 1 .. Len(unsent') /\ unsent'[Len(unsent')].routing_key = <<t>>
      BY <3>1, <3>2 DEF Replies
    <3>4. QED
      BY <2>1, <3>1, <3>2, <3>3
  <2>3. CASE UNCHANGED unsent
    <3>1. NotReplied(t) => FALSE
      BY <2>1, <2>3, AppendSequence DEF NotReplied
    <3>2. QED
      BY <2>1, <2>3, <3>1
  <2>4. QED
    BY <1>4, <2>2, <2>3 DEF Replied
<1>6. TypeOK'
  BY <1>2, <1>4, <1>5, <1>12 DEF Inv, TypeOK
<1>7. RequestOK' /\ SentOK' /\ PartsOK'
  <2>1. RequestOK'
    BY <1>2, SameRequest DEF Inv
  <2>2. SentOK'
    BY <1>2 DEF Inv, SentOK, Sending, Routed, Bound
  <2>3. PartsOK'
    BY <1>2, SameRequest DEF Inv, PartsOK
  <2>4. QED
    BY <2>1, <2>2, <2>3
<1>8. QueueOK'
  <2>1. ASSUME NEW i \in 1 .. Len(queue')
        PROVE  \E u \in 1 .. Len(sent) : Received(queue'[i], u)
    <3>1. i \in 1 .. Len(queue) - 1 /\ i + 1 \in 1 .. Len(queue)
      BY <1>3
    <3>2. \E u \in 1 .. Len(sent) : Received(queue[i + 1], u)
      BY <3>1 DEF Inv, QueueOK
    <3>3. QED
      BY <1>3, <3>1, <3>2
  <2>2. Total(request.payload) > 0
    BY <1>2 DEF Inv, QueueOK
  <2>3. \A m, u : Received(m, u)' <=> Received(m, u)
    BY <1>2 DEF Received
  <2>4. QED
    BY <1>2, <1>3, <2>1, <2>2, <2>3 DEF QueueOK
<1>9. CallsOK'
  <2>1. \/ called' = called
        \/ \E c : called' = Append(called, c)
    BY <1>1 DEF Outcome
  <2>2. QED
    BY <1>12, <2>1, AppendSequence DEF Inv, CallsOK
<1>10. Pending'
  <2>1. SUFFICES ASSUME service' = "running", Len(sent) \in whole,
                        \A u \in 1 .. Len(sent) - 1 :
                          sent[u].message_id # request.message_id
                 PROVE  \/ \E c \in wire : c.reply_to = Len(sent)
                        \/ pack[request.message_id] # <<>>
                        \/ \E i \in 1 .. Len(queue') : queue'[i].reply_to = Len(sent)
                        \/ \E r \in replies' : /\ r.routing_key = <<Len(sent)>>
                                               /\ r.correlation_id = request.correlation_id
                        \/ Failed(Len(sent))'
    BY <1>2 DEF Pending, Failed
  <2>2. ASSUME NEW i \in 1 .. Len(queue), queue[i].reply_to = Len(sent)
        PROVE  \/ \E j \in 1 .. Len(queue') : queue'[j].reply_to = Len(sent)
               \/ \E r \in replies' : /\ r.routing_key = <<Len(sent)>>
                                      /\ r.correlation_id = request.correlation_id
               \/ Failed(Len(sent))'
    <3>1. CASE i = 1
      <4>1. t = Len(sent)
        BY <1>1, <2>2, <3>1, ReceivedFields
      <4>2. QED
        BY <1>2, <1>4, <1>12, <2>1, <4>1 DEF Replied, Replies, Failed
    <3>2. CASE i # 1
      <4>1. i - 1 \in 1 .. Len(queue') /\ i - 1 \in 1 .. Len(queue) - 1 /\ (i - 1) + 1 = i
        BY <1>3, <3>2
      <4>2. queue'[i - 1] = queue[i]
        BY <1>3, <4>1
      <4>3. QED
        BY <2>2, <4>1, <4>2
    <3>3. QED
      BY <3>1, <3>2
  <2>4. Failed(Len(sent)) => Failed(Len(sent))'
    BY <1>2, <1>12 DEF Failed
  <2>3. QED
    BY <1>2, <1>5, <2>1, <2>2, <2>4 DEF Inv, Pending
<1>11. QED
  BY <1>6, <1>7, <1>8, <1>9, <1>10 DEF Inv

---------------------------------------------------------------------------
(* The invariant holds.                                                    *)
LEMMA InitInv == Init => Inv
<1>1. SUFFICES ASSUME Init PROVE Inv
  OBVIOUS
<1>2. /\ name \in Names /\ request \in Requests /\ sent = <<>> /\ whole = {}
      /\ wire = {} /\ pack = [i \in Ids |-> <<>>] /\ queue = <<>>
      /\ handlers = [o \in Operations |-> [w \in Tokens |-> NoHandler]]
      /\ called = <<>> /\ replies = {} /\ unsent = <<>> /\ service = "running"
      /\ changes = MaxChanges /\ copies = MaxCopies
  BY <1>1 DEF Init
<1>3. \A r \in Requests :
         /\ r.payload \in Payloads /\ r.lockout_key # ""
         /\ r.specifier \in Seq(STRING) /\ r.routing_key \in Seq(STRING)
         /\ r = NewRequest(r.payload, r.message_operation, r.routing_key,
                           to_string(r.specifier), r.lockout_key,
                           r.correlation_id)
  BY RequestPathAssumption, Zenon DEF RequestPathAssumption
<1>4. PICK p, o, k, s, l, c :
        /\ request = NewRequest(p, o, k, to_string(s), l, c)
        /\ p \in Payloads /\ l # ""
        /\ s \in Seq(STRING) /\ k \in Seq(STRING) /\ s = request.specifier
        /\ o = request.message_operation /\ k = request.routing_key
        /\ p = request.payload /\ l = request.lockout_key
        /\ c = request.correlation_id
  BY <1>2, <1>3
<1>5. request = [message_type |-> "request", routing_key |-> k,
        correlation_id |-> c, message_id |-> 0, reply_to |-> 0,
        specifier |-> s, timestamp |-> 0, message_operation |-> o,
        lockout_key |-> l, lockout_key_valid |-> TRUE, return_code |-> dl_success,
        payload |-> p, is_valid |-> TRUE]
  <2>1. request = [message_type |-> "request", routing_key |-> k,
          correlation_id |-> c, message_id |-> 0, reply_to |-> 0,
          specifier |-> parse(to_string(s)), timestamp |-> 0,
          message_operation |-> o, lockout_key |-> l, lockout_key_valid |-> TRUE,
          return_code |-> dl_success, payload |-> p, is_valid |-> TRUE]
    BY <1>4, Zenon DEF NewRequest
  <2>2. request.specifier = parse(to_string(s))
    BY <2>1
  <2>3. QED
    BY <1>4, <2>1, <2>2
<1>6. s # EmptyString
  <2>1. parse(to_string(s)) = s
    <3>1. PICK q : q = parse(to_string(s))
      OBVIOUS
    <3>2. NewRequest(p, o, k, to_string(s), l, c).specifier = q
      BY <3>1 DEF NewRequest
    <3>3. QED
      BY <1>4, <3>1, <3>2
  <2>2. EmptyString # <<>>
    BY DEF EmptyString
  <2>3. QED
    BY <2>1, <2>2 DEF parse, to_string
<1>7. Len(sent) = 0 /\ Len(queue) = 0
  BY <1>2
<1>8. request.message_id = 0 /\ request.reply_to = 0
  BY <1>5
<1>9. TypeOK
  BY <1>2, <1>7, <1>8, Numbers DEF TypeOK
<1>10. RequestOK
  <2>1. request = Sending(0, 0)
    BY <1>4, <1>5 DEF Sending
  <2>2. Len(sent) \in Nat /\ request.message_id \in 0 .. Len(sent)
    BY <1>7, <1>8
  <2>3. /\ request.payload \in Payloads /\ request.lockout_key # ""
        /\ request.specifier \in Seq(STRING) /\ request.specifier # EmptyString
        /\ request.routing_key \in Seq(STRING)
    BY <1>4, <1>6
  <2>4. QED
    BY <1>7, <1>8, <2>1, <2>2, <2>3 DEF RequestOK
<1>11. SentOK /\ QueueOK /\ CallsOK
  <2>1. IsSequence(<<>>)
    BY DEF IsSequence, Elements
  <2>2. QED
    BY <1>2, <1>7, <2>1, Numbers DEF SentOK, QueueOK, CallsOK
<1>12. PartsOK /\ Pending
  BY <1>2 DEF PartsOK, Pending
<1>13. QED
  BY <1>9, <1>10, <1>11, <1>12 DEF Inv

LEMMA StutterInv == Inv /\ UNCHANGED vars => Inv'
<1>1. SUFFICES ASSUME Inv, UNCHANGED vars PROVE Inv'
  OBVIOUS
<1>2. UNCHANGED <<name, request, sent, whole, wire, pack, queue, handlers, called,
                  replies, unsent, service, changes, copies>>
  BY <1>1 DEF vars, clientVars, receiverVars, outVars
<1>3. TypeOK' /\ RequestOK'
  BY <1>1, <1>2, SameRequest DEF Inv, TypeOK
<1>4. SentOK'
  BY <1>1, <1>2 DEF Inv, SentOK, Sending, Routed, Bound
<1>5. PartsOK' /\ QueueOK'
  BY <1>1, <1>2, SameRequest DEF Inv, PartsOK, QueueOK
<1>6. CallsOK' /\ Pending'
  BY <1>1, <1>2 DEF Inv, CallsOK, Pending, Failed
<1>7. QED
  BY <1>3, <1>4, <1>5, <1>6 DEF Inv

LEMMA NextInv == Inv /\ [Next]_vars => Inv'
<1>1. SUFFICES ASSUME Inv, [Next]_vars PROVE Inv'
  OBVIOUS
<1>2. CASE \E o \in Operations, w \in Tokens, h \in Handlers : register_handler(o, w, h)
  BY <1>1, <1>2, SetHandlerKeeps DEF register_handler
<1>3. CASE \E o \in Operations, w \in Tokens : remove_handler(o, w)
  BY <1>1, <1>3, SetHandlerKeeps DEF remove_handler
<1>4. CASE \E reset \in BOOLEAN, n \in 0 .. BodyLength[request.payload] : Send(reset, n)
  BY <1>1, <1>4, SendKeeps
<1>5. CASE \E part \in wire : Arrive(part)
  BY <1>1, <1>5, ArriveKeeps
<1>6. CASE \E id \in Ids : TimeOut(id)
  BY <1>1, <1>6, TimeOutKeeps
<1>7. CASE Handle
  BY <1>1, <1>7, HandleKeeps
<1>8. CASE UNCHANGED vars
  BY <1>1, <1>8, StutterInv
<1>9. QED
  BY <1>1, <1>2, <1>3, <1>4, <1>5, <1>6, <1>7, <1>8 DEF Next

LEMMA InvAlways == Spec => []Inv
BY InitInv, NextInv, PTL DEF Spec

(* The variables have their types; in particular every part on its way has *)
(* a chunk number below the number of chunks, and the registry a handler   *)
(* or none for every word.                                                 *)
THEOREM TypeCorrect == Spec => []TypeOK
<1>1. Inv => TypeOK
  BY DEF Inv
<1>2. QED
  BY <1>1, InvAlways, PTL

LEMMA ComparedAlike ==
    ASSUME NEW type, NEW key, NEW corr, NEW to, NEW spec, NEW time, NEW op,
           NEW lock, NEW valid, NEW code, NEW payload,
           NEW i, NEW j, NEW b, NEW c, NEW m, NEW n,
           m = [message_type |-> type, routing_key |-> key, correlation_id |-> corr,
                message_id |-> i, reply_to |-> to, specifier |-> spec,
                timestamp |-> time, message_operation |-> op, lockout_key |-> lock,
                lockout_key_valid |-> valid, return_code |-> code,
                payload |-> payload, is_valid |-> b],
           n = [message_type |-> type, routing_key |-> key, correlation_id |-> corr,
                message_id |-> j, reply_to |-> to, specifier |-> spec,
                timestamp |-> time, message_operation |-> op, lockout_key |-> lock,
                lockout_key_valid |-> valid, return_code |-> code,
                payload |-> payload, is_valid |-> c]
    PROVE  Same(m, n)
<1>1. ASSUME NEW x, NEW y, NEW z,
             x = [message_type |-> type, routing_key |-> key, correlation_id |-> corr,
                  message_id |-> y, reply_to |-> to, specifier |-> spec,
                  timestamp |-> time, message_operation |-> op, lockout_key |-> lock,
                  lockout_key_valid |-> valid, return_code |-> code,
                  payload |-> payload, is_valid |-> z]
      PROVE  Compared(x) =
                 [message_type |-> type, routing_key |-> key, correlation_id |-> corr,
                  message_id |-> 0, reply_to |-> to, specifier |-> spec,
                  timestamp |-> time, message_operation |-> op, lockout_key |-> lock,
                  lockout_key_valid |-> valid, return_code |-> code,
                  payload |-> payload, is_valid |-> TRUE]
  <2>1. PICK u : u = [x EXCEPT !.message_id = 0]
    OBVIOUS
  <2>2. u = [message_type |-> type, routing_key |-> key, correlation_id |-> corr,
             message_id |-> 0, reply_to |-> to, specifier |-> spec,
             timestamp |-> time, message_operation |-> op, lockout_key |-> lock,
             lockout_key_valid |-> valid, return_code |-> code,
             payload |-> payload, is_valid |-> z]
    BY <1>1, <2>1
  <2>3. PICK w : w = [u EXCEPT !.is_valid = TRUE]
    OBVIOUS
  <2>4. w = [message_type |-> type, routing_key |-> key, correlation_id |-> corr,
             message_id |-> 0, reply_to |-> to, specifier |-> spec,
             timestamp |-> time, message_operation |-> op, lockout_key |-> lock,
             lockout_key_valid |-> valid, return_code |-> code,
             payload |-> payload, is_valid |-> TRUE]
    BY <2>2, <2>3
  <2>5. Compared(x) = [u EXCEPT !.is_valid = TRUE]
    BY <2>1 DEF Compared
  <2>6. QED
    BY <2>3, <2>4, <2>5
<1>2. QED
  BY <1>1 DEF Same

(* A valid message with a valid key is one that the client sent, whatever  *)
(* parts of whatever sendings it was joined from (message.cc, receiver.cc). *)
THEOREM ReceivedIsSent == Spec => []ReceivedAsSent
<1>1. Inv => ReceivedAsSent
  <2>1. SUFFICES ASSUME Inv, NEW i \in 1 .. Len(queue),
                        queue[i].is_valid, queue[i].lockout_key_valid
                 PROVE  \E t \in 1 .. Len(sent) : Same(queue[i], sent[t])
    BY DEF ReceivedAsSent
  <2>2. PICK t \in 1 .. Len(sent) : Received(queue[i], t)
    BY <2>1 DEF Inv, QueueOK
  <2>3. PICK n : sent[t] = Sending(n, t)
    BY <2>1 DEF Inv, SentOK
  <2>4. uuid_from_string(request.lockout_key).key = request.lockout_key
    BY <2>1, <2>2, ReceivedFields DEF Inv, RequestOK, uuid_from_string
  <2>5. queue[i].payload = request.payload
    BY <2>1, <2>2, ReceivedFields
  <2>6. PICK k, b :
          queue[i] =
            [message_type |-> "request", routing_key |-> request.routing_key,
             correlation_id |-> request.correlation_id, message_id |-> k,
             reply_to |-> t, specifier |-> request.specifier, timestamp |-> t,
             message_operation |-> request.message_operation,
             lockout_key |-> request.lockout_key,
             lockout_key_valid |-> TRUE, return_code |-> dl_success,
             payload |-> request.payload, is_valid |-> b]
    <3>1. queue[i] =
            [message_type |-> "request", routing_key |-> request.routing_key,
             correlation_id |-> request.correlation_id,
             message_id |-> sent[t].message_id,
             reply_to |-> t, specifier |-> request.specifier, timestamp |-> t,
             message_operation |-> request.message_operation,
             lockout_key |-> uuid_from_string(request.lockout_key).key,
             lockout_key_valid |-> uuid_from_string(request.lockout_key).valid,
             return_code |-> dl_success, payload |-> queue[i].payload,
             is_valid |-> queue[i].is_valid]
      BY <2>2, Zenon DEF Received
    <3>2. queue[i].lockout_key_valid = uuid_from_string(request.lockout_key).valid
      BY <3>1
    <3>3. uuid_from_string(request.lockout_key).valid = TRUE
      BY <2>1, <3>2 DEF uuid_from_string
    <3>4. QED
      BY <2>4, <2>5, <3>1, <3>3
  <2>7. Same(queue[i], sent[t])
    <3>1. sent[t] =
            [message_type |-> "request", routing_key |-> request.routing_key,
             correlation_id |-> request.correlation_id, message_id |-> n,
             reply_to |-> t, specifier |-> request.specifier, timestamp |-> t,
             message_operation |-> request.message_operation,
             lockout_key |-> request.lockout_key,
             lockout_key_valid |-> TRUE, return_code |-> dl_success,
             payload |-> request.payload, is_valid |-> TRUE]
      BY <2>3 DEF Sending
    <3>2. QED
      BY <2>6, <3>1, ComparedAlike
  <2>8. QED
    BY <2>7
<1>2. QED
  BY <1>1, InvAlways, PTL

(* Split and joined again, a message is what it was: it comes out invalid  *)
(* only when it was given up with a part missing (message.cc).             *)
THEOREM InvalidOnlyWhenGivenUp == Spec => InvalidIsGivenUp
<1> DEFINE Up == Len(queue') > Len(queue) /\ ~Last(queue').is_valid =>
         /\ UNCHANGED <<wire, copies>>
         /\ ~IsComplete(pack[Last(queue').message_id])
<1>1. Inv /\ [Next]_vars => [Up]_vars
  <2>1. SUFFICES ASSUME Inv, Next, Len(queue') > Len(queue), ~Last(queue').is_valid
                 PROVE  /\ UNCHANGED <<wire, copies>>
                        /\ ~IsComplete(pack[Last(queue').message_id])
    BY DEF Last
  <2>2. ~(Len(queue) > Len(queue))
    BY DEF Inv, QueueOK, IsSequence
  <2>3. CASE Handle
    <3>1. Len(queue') = Len(queue) - 1 /\ Len(queue) \in Nat
      BY <2>1, <2>3, TailSequence DEF Inv, QueueOK, Handle
    <3>2. QED
      BY <2>1, <3>1
  <2>4. ASSUME NEW c \in wire, Arrive(c) PROVE FALSE
    <3>1. PICK slots : slots = Store(c)
      OBVIOUS
    <3>2. PICK id : id = parse_message_id(c.message_id).uuid
      OBVIOUS
    <3>3. Collected(slots, id) /\ UNCHANGED <<request, sent>>
      BY <2>1, <2>4, <3>1, <3>2, StoreCollects DEF Arrive, clientVars
    <3>4. Join(slots) /\ IsComplete(slots)
      BY <2>1, <2>2, <2>4, <3>1 DEF Arrive, IsComplete
    <3>5. QED
      BY <2>1, <3>3, <3>4, JoinStep DEF Last
  <2>5. ASSUME NEW id \in Ids, TimeOut(id)
        PROVE  UNCHANGED <<wire, copies>> /\ ~IsComplete(pack[Last(queue').message_id])
    <3>1. Collected(pack[id], id) /\ Join(pack[id])
      BY <2>1, <2>5 DEF Inv, PartsOK, TimeOut
    <3>2. UNCHANGED <<request, sent, wire, copies>>
      BY <2>5 DEF TimeOut, clientVars
    <3>3. Last(queue').message_id = id /\ (IsComplete(pack[id]) => Last(queue').is_valid)
      BY <2>1, <3>1, <3>2, JoinStep DEF Last
    <3>4. QED
      BY <2>1, <3>2, <3>3
  <2>6. QED
    BY <2>1, <2>2, <2>3, <2>4, <2>5 DEF Next, register_handler, remove_handler,
      SetHandler, Send, receiverVars
<1>2. QED
  BY <1>1, InvAlways, PTL DEF Spec, InvalidIsGivenUp

(* What ends the thread of a service, or crashes it (service.cc, hub.cc).  *)
THEOREM DispatchStopsOnlyOnCause == Spec => DispatchStopCause
<1> DEFINE Stop == service' # service =>
         LET for == <<FirstToken(request.routing_key)>> IN
         /\ service = "running" /\ queue # <<>>
         /\ service' = "stopped" =>
              \/ called' # called
              \/ unsent' # unsent /\ for \in {name, <<Broadcast>>}
              \/ /\ for \notin {name, <<Broadcast>>} \cup Children
                 /\ \E x \in Bound : Len(x) > 1 /\ IsPrefix(x, request.routing_key)
         /\ service' = "crashed" => request.specifier = <<>>
<1>1. Inv /\ [Next]_vars => [Stop]_vars
  <2>1. SUFFICES ASSUME Inv, Next, service' # service PROVE Stop
    OBVIOUS
  <2>2. Handle
    BY <2>1 DEF Next, register_handler, remove_handler, SetHandler, Send, Arrive,
      TimeOut, outVars
  <2>3. service = "running" /\ queue # <<>>
    BY <2>2 DEF Handle
  <2>4. PICK t \in 1 .. Len(sent), is_hub \in BOOLEAN :
          Outcome(t, is_hub) /\ (is_hub => <<FirstToken(request.routing_key)>> \in Own)
    BY <2>1, <2>2, HandleOutcome
  <2>5. NotReplied(t) => unsent' # unsent
    BY <2>1, AppendSequence DEF NotReplied, Inv, CallsOK
  <2>6. \A c : called' = Append(called, c) => called' # called
    BY <2>1, AppendSequence DEF Inv, CallsOK
  <2>7. QED
    BY <2>1, <2>3, <2>4, <2>5, <2>6 DEF Outcome, Own
<1>2. QED
  BY <1>1, InvAlways, PTL DEF Spec, DispatchStopCause

(* The last whole sending with a message ID of its own is answered to its  *)
(* own queue once nothing is on its way, unless the sending of a reply to  *)
(* that queue failed (service.cc, message.cc).                             *)
THEOREM ReplyArrives == Spec => []ReplyFindsClient
<1>1. Inv => ReplyFindsClient
  <2>1. SUFFICES ASSUME Inv, wire = {}, queue = <<>>, \A id \in Ids : pack[id] = <<>>,
                        service = "running", Len(sent) \in whole,
                        \A t \in 1 .. Len(sent) - 1 :
                          sent[t].message_id # request.message_id,
                        ~Failed(Len(sent))
                 PROVE  \E r \in replies : /\ r.routing_key = <<Len(sent)>>
                                           /\ r.correlation_id = request.correlation_id
    BY DEF ReplyFindsClient, Failed
  <2>2. Len(sent) \in Nat /\ Len(sent) \in 1 .. Len(sent) /\ Len(sent) <= MaxSends
    BY <2>1 DEF Inv, SentOK, IsSequence
  <2>3. sent # <<>>
    BY <2>2
  <2>4. request.message_id \in Ids
    BY <2>1, <2>2, <2>3, Numbers DEF Inv, SentOK, Ids
  <2>5. Len(queue) = 0
    BY <2>1
  <2>6. QED
    BY <2>1, <2>4, <2>5 DEF Inv, Pending
<1>2. QED
  BY <1>1, InvAlways, PTL

(* A handler that is called is the one registered last (hub.cc).           *)
THEOREM CalledIsRegistered == Spec => HandlerIsRegistered
<1> DEFINE Call == called' # called =>
         LET c == Last(called') IN
         /\ request.specifier = <<Head(request.specifier)>> \o c.request.specifier
         /\ c.handler = handlers[request.message_operation][Head(request.specifier)]
         /\ c.request.payload = request.payload
         /\ request.lockout_key # "malformed"
<1>1. Inv /\ [Next]_vars => [Call]_vars
  <2>1. SUFFICES ASSUME Inv, Next, called' # called PROVE Call
    OBVIOUS
  <2>2. Handle
    BY <2>1 DEF Next, register_handler, remove_handler, SetHandler, Send, Arrive,
      TimeOut, outVars
  <2>3. PICK t, is_hub : Outcome(t, is_hub)
    BY <2>1, <2>2, HandleOutcome
  <2>4. PICK c : called' = Append(called, c) /\ CallOK(c)
    BY <2>1, <2>3 DEF Outcome
  <2>5. Last(called') = c
    BY <2>1, <2>4, AppendSequence DEF Inv, CallsOK, Last
  <2>6. request.specifier = <<Head(request.specifier)>> \o Tail(request.specifier)
    <3>1. PICK s \in Seq(STRING) : s = request.specifier /\ s # <<>>
      BY <2>1, <2>4 DEF Inv, RequestOK, CallOK
    <3>2. s = <<Head(s)>> \o Tail(s)
      <4>1. /\ Len(s) \in Nat /\ Len(s) >= 1 /\ Head(s) = s[1]
            /\ Tail(s) \in Seq(STRING) /\ Len(Tail(s)) = Len(s) - 1
            /\ \A i \in 1 .. Len(s) - 1 : Tail(s)[i] = s[i + 1]
        <5>1. Len(s) \in Nat /\ Len(s) >= 1 /\ Head(s) = s[1]
          BY <3>1
        <5>2. QED
          BY <3>1, <5>1, HeadTailProperties
      <4>2. PICK u : u = Tail(s)
        OBVIOUS
      <4>3. PICK v : v = <<Head(s)>> \o u
        OBVIOUS
      <4>4. /\ v \in Seq(STRING) /\ Len(v) = Len(s) /\ v[1] = s[1]
            /\ \A i \in 2 .. Len(s) : v[i] = u[i - 1]
        <5>1. <<Head(s)>> \in Seq(STRING) /\ Len(<<Head(s)>>) = 1
          BY <3>1, <4>1
        <5>2. PICK w \in Seq(STRING) : w = <<Head(s)>>
          BY <5>1
        <5>3. Len(w) = 1 /\ w[1] = s[1] /\ v = w \o u /\ u \in Seq(STRING)
          BY <4>1, <4>2, <4>3, <5>2
        <5>4. PICK L \in Nat : L = Len(s) /\ Len(u) = L - 1
          BY <4>1, <4>2
        <5>5. /\ w \o u \in Seq(STRING) /\ Len(w \o u) = Len(w) + Len(u)
              /\ \A i \in 1 .. Len(w) + Len(u) :
                   (w \o u)[i] = IF i <= Len(w) THEN w[i] ELSE u[i - Len(w)]
          BY <5>3, ConcatProperties, Zenon
        <5>6. QED
          BY <4>1, <5>3, <5>4, <5>5
      <4>5. \A i \in 1 .. Len(s) : v[i] = s[i]
        BY <4>1, <4>2, <4>4
      <4>6. QED
        BY <3>1, <4>2, <4>3, <4>4, <4>5, SeqEqual
    <3>3. QED
      BY <3>1, <3>2
  <2>7. QED
    BY <2>4, <2>5, <2>6 DEF CallOK
<1>2. QED
  BY <1>1, InvAlways, PTL DEF Spec, HandlerIsRegistered

=============================================================================
