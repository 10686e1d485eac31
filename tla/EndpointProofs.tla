--------------------------- MODULE EndpointProofs ---------------------------
(***************************************************************************)
(* Proofs about Endpoint: the lockout excludes, for any clients, keys,     *)
(* kinds of request and numbers of them. The invariant is TypeOK together  *)
(* with Accounted; each action has a lemma that it preserves both.         *)
(***************************************************************************)
EXTENDS Endpoint, TLAPS

\* The initial state.
LEMMA InitAccounted == Init => TypeOK /\ Accounted
<1> SUFFICES ASSUME Init PROVE TypeOK /\ Accounted
  OBVIOUS
<1> USE DEF Init
<1>1. TypeOK
  BY DEF TypeOK, NoReply, Keys
<1>2. IdsOK
  BY DEF IdsOK, NoReply
<1>3. KeysOK /\ UnlocksOK /\ LocksOK
  BY DEF KeysOK, UnlocksOK, LocksOK, Reliable
<1> QED BY <1>1, <1>2, <1>3 DEF Accounted

-----------------------------------------------------------------------------
(* The clients. *)

\* A request carries a key that its sender has, and a lock request never one that
\* was generated before.
LEMMA SentKey ==
  ASSUME NEW c \in Clients, NEW kind \in Kinds, NEW key \in KeysFor(c, kind)
  PROVE  key \in {Nil, SuppliedKey[c]} \cup
                 (IF kind.op = "cmd" /\ kind.instruction = "lock" THEN {} ELSE known[c])
BY DEF KeysFor, Is

\* Sending a request.
LEMMA SendInv ==
  ASSUME TypeOK, Accounted, NEW c \in Clients, NEW kind \in Kinds,
         NEW key \in KeysFor(c, kind), Send(c, kind, key)
  PROVE  TypeOK' /\ Accounted'
<1> USE KindsAssumption DEF KindRecord
<1>1. PICK q : q = [id |-> sent + 1, from |-> c, key |-> key, op |-> kind.op,
                    instruction |-> kind.instruction, force |-> kind.force,
                    flaw |-> kind.flaw, reply_to |-> kind.reply_to]
  OBVIOUS
<1>2. /\ q.id = sent + 1
      /\ q.from = c
      /\ q.key = key
      /\ Is(q, "cmd", "lock") = (kind.op = "cmd" /\ kind.instruction = "lock")
      /\ Is(q, "cmd", "unlock") = Is(kind, "cmd", "unlock")
      /\ kind.reply_to \in BOOLEAN
  BY <1>1 DEF Is
<1>3. key \in {Nil, SuppliedKey[c]} \cup
              (IF Is(q, "cmd", "lock") THEN {} ELSE known[c])
  BY <1>2, SentKey
<1>4. key \in Keys
  BY <1>3 DEF TypeOK, Keys
<1>5. q \in RequestRecord
  BY <1>1, <1>4 DEF RequestRecord, TypeOK
<1>6. /\ sent' = sent + 1
      /\ inbox' = inbox \cup {q}
      /\ awaited[c] = NoReply
      /\ awaited' = IF kind.reply_to
                    THEN [awaited EXCEPT ![c] = [id |-> sent + 1, unlock |-> Is(q, "cmd", "unlock")]]
                    ELSE awaited
      /\ held' = IF Is(q, "cmd", "unlock") THEN [held EXCEPT ![c] = Nil] ELSE held
      /\ hasty' = IF Is(q, "cmd", "unlock") /\ ~kind.reply_to THEN hasty \cup {c} ELSE hasty
      /\ UNCHANGED <<endpointVars, known, replies, forced>>
  BY <1>1, <1>2 DEF Send
<1> HIDE KindsAssumption DEF KindRecord
<1>7. TypeOK'
  BY <1>2, <1>5, <1>6 DEF TypeOK, endpointVars, Keys, Is
<1>8. IdsOK'
  BY <1>2, <1>6 DEF TypeOK, Accounted, IdsOK, NoReply, RequestRecord
<1>9. KeysOK'
  <2>1. \A d \in Clients : held'[d] \in {Nil, held[d]}
    BY <1>6 DEF TypeOK
  <2>2. \A r \in inbox' :
          r.key \in {Nil, SuppliedKey[r.from]} \cup
                    (IF Is(r, "cmd", "lock") THEN {} ELSE known[r.from])
    BY <1>2, <1>3, <1>6 DEF Accounted, KeysOK
  <2>3. \A p \in replies : \A d \in Clients :
          p.id = awaited'[d].id => p.id = awaited[d].id
    BY <1>6 DEF TypeOK, Accounted, IdsOK
  <2> QED BY <1>6, <2>1, <2>2, <2>3 DEF Accounted, KeysOK, endpointVars
<1>10. UnlocksOK'
  <2>1. \A d \in Clients : held'[d] \in {Nil, held[d]}
    BY <1>6 DEF TypeOK
  <2>2. ASSUME NEW r \in inbox', Is(r, "cmd", "unlock"), r.key \in GeneratedKeys
        PROVE  /\ \A d \in Clients : held'[d] /= r.key
               /\ \A p \in replies : p.key /= r.key
    <3>1. CASE r \in inbox
      BY <2>1, <2>2, <3>1, EndpointAssumption DEF Accounted, UnlocksOK
    <3>2. CASE r = q
      <4>1. key \in known[c]
        BY <1>2, <1>3, <2>2, <3>2, EndpointAssumption
      <4>2. held'[c] = Nil
        BY <1>6, <2>2, <3>2 DEF TypeOK
      <4>3. \A d \in Clients \ {c} : held[d] /= key
        BY <1>2, <2>2, <3>2, <4>1, EndpointAssumption DEF Accounted, KeysOK
      <4>4. \A p \in replies : p.key /= key
        BY <1>2, <2>2, <3>2, <4>1 DEF Accounted, KeysOK
      <4> QED BY <1>2, <2>1, <2>2, <3>2, <4>2, <4>3, <4>4, EndpointAssumption
    <3> QED BY <1>6, <2>2, <3>1, <3>2
  <2>3. ASSUME NEW r \in inbox', Is(r, "cmd", "unlock"), r.key = SuppliedKey[r.from]
        PROVE  \/ r.from \in hasty'
               \/ awaited'[r.from].id = r.id /\ awaited'[r.from].unlock /\ held'[r.from] = Nil
    <3>1. CASE r \in inbox
      <4>1. r.id /= 0 /\ r.from \in Clients
        BY <3>1 DEF Accounted, IdsOK, TypeOK, RequestRecord
      <4>2. r.from = c => r.from \in hasty
        <5>1. \/ r.from \in hasty
              \/ awaited[r.from].id = r.id
          BY <2>3, <3>1 DEF Accounted, UnlocksOK
        <5>2. awaited[c].id = 0
          BY <1>6 DEF NoReply
        <5> QED BY <4>1, <5>1, <5>2
      <4>3. r.from /= c => awaited'[r.from] = awaited[r.from] /\ held'[r.from] = held[r.from]
        BY <1>6, <4>1 DEF TypeOK
      <4> QED BY <1>6, <2>3, <3>1, <4>2, <4>3 DEF Accounted, UnlocksOK
    <3>2. CASE r = q
      BY <1>2, <1>6, <2>3, <3>2 DEF TypeOK
    <3> QED BY <1>6, <2>3, <3>1, <3>2
  <2> QED BY <1>6, <2>2, <2>3 DEF UnlocksOK, Is
<1>11. LocksOK'
  <2>1. \A d \in Clients : held'[d] \in {Nil, held[d]}
    BY <1>6 DEF TypeOK
  <2>2. \A p \in replies : \A d \in Clients :
          p.id = awaited'[d].id => p.id = awaited[d].id
    BY <1>6 DEF TypeOK, Accounted, IdsOK
  <2>3. hasty \subseteq hasty'
    BY <1>6
  <2> QED BY <1>6, <2>1, <2>2, <2>3 DEF Accounted, LocksOK, Reliable, endpointVars
<1> QED BY <1>7, <1>8, <1>9, <1>10, <1>11 DEF Accounted

\* Receiving the reply that is waited for.
LEMMA ReceiveInv ==
  ASSUME TypeOK, Accounted, NEW c \in Clients, Receive(c)
  PROVE  TypeOK' /\ Accounted'
<1>1. PICK p \in replies :
        /\ p.id = awaited[c].id
        /\ replies' = replies \ {p}
        /\ held' = IF p.key /= Nil THEN [held EXCEPT ![c] = p.key] ELSE held
        /\ known' = [known EXCEPT ![c] = @ \cup ({p.key} \cap GeneratedKeys)]
  BY DEF Receive
<1>2. /\ awaited' = [awaited EXCEPT ![c] = NoReply]
      /\ UNCHANGED <<endpointVars, sent, hasty, inbox, forced>>
  BY DEF Receive
<1>3. p.key \in {Nil, SuppliedKey[c]} \cup GeneratedKeys /\ p.key \in Keys /\ p.id /= 0
  BY <1>1 DEF TypeOK, Accounted, KeysOK, IdsOK
<1>4. /\ \A d \in Clients \ {c} :
            awaited'[d] = awaited[d] /\ held'[d] = held[d] /\ known'[d] = known[d]
      /\ awaited'[c] = NoReply
      /\ held'[c] = IF p.key /= Nil THEN p.key ELSE held[c]
      /\ known'[c] = known[c] \cup ({p.key} \cap GeneratedKeys)
  BY <1>1, <1>2 DEF TypeOK
<1>5. TypeOK'
  BY <1>1, <1>2, <1>3 DEF TypeOK, endpointVars, NoReply
<1>6. IdsOK'
  BY <1>1, <1>2, <1>4 DEF TypeOK, Accounted, IdsOK, NoReply
<1>7. KeysOK'
  <2>1. \A d \in Clients : known'[d] \subseteq generated
    BY <1>1, <1>4 DEF Accounted, KeysOK
  <2>2. \A d, e \in Clients : known'[d] \cap known'[e] /= {} => d = e
    BY <1>1, <1>4 DEF Accounted, KeysOK
  <2>3. \A d \in Clients : held'[d] \in {Nil, SuppliedKey[d]} \cup known'[d]
    BY <1>3, <1>4 DEF Accounted, KeysOK
  <2>4. \A d \in Clients : known[d] \subseteq known'[d]
    BY <1>4
  <2>5. \A r \in inbox :
          r.key \in {Nil, SuppliedKey[r.from]} \cup
                    (IF Is(r, "cmd", "lock") THEN {} ELSE known'[r.from])
    BY <2>4 DEF Accounted, KeysOK, TypeOK, RequestRecord
  <2>6. ASSUME NEW q \in replies', q.key \in GeneratedKeys
        PROVE  /\ q.key \in generated
               /\ \A d \in Clients : q.key \notin known'[d]
               /\ \A s \in replies' : s.key = q.key => s = q
    BY <1>1, <1>4, <2>6 DEF Accounted, KeysOK
  <2>7. ASSUME NEW q \in replies', NEW d \in Clients, q.id = awaited'[d].id
        PROVE  q.key \in {Nil, SuppliedKey[d]} \cup GeneratedKeys
    <3>1. d /= c
      BY <1>1, <1>4, <2>7 DEF Accounted, IdsOK, NoReply
    <3> QED BY <1>1, <1>4, <2>7, <3>1 DEF Accounted, KeysOK
  <2> QED BY <1>2, <2>1, <2>2, <2>3, <2>5, <2>6, <2>7 DEF KeysOK, endpointVars, Is
<1>8. UnlocksOK'
  <2>1. ASSUME NEW r \in inbox, Is(r, "cmd", "unlock"), r.key \in GeneratedKeys
        PROVE  /\ \A d \in Clients : held'[d] /= r.key
               /\ \A q \in replies' : q.key /= r.key
    <3>1. /\ \A d \in Clients : held[d] /= r.key
          /\ \A q \in replies : q.key /= r.key
      BY <2>1 DEF Accounted, UnlocksOK
    <3> QED BY <1>1, <1>4, <3>1
  <2>2. ASSUME NEW r \in inbox, Is(r, "cmd", "unlock"), r.key = SuppliedKey[r.from]
        PROVE  \/ r.from \in hasty
               \/ awaited'[r.from].id = r.id /\ awaited'[r.from].unlock /\ held'[r.from] = Nil
    <3>1. r.from \in Clients
      BY DEF TypeOK, RequestRecord
    <3>2. awaited[c].id /= r.id
      BY <1>1 DEF Accounted, IdsOK
    <3> QED BY <1>4, <2>2, <3>1, <3>2 DEF Accounted, UnlocksOK
  <2> QED BY <1>2, <2>1, <2>2 DEF UnlocksOK, Is
<1>9. LocksOK'
  <2>1. ASSUME NEW d \in Clients, NEW q \in replies', q.id = awaited'[d].id, Reliable(d, q.key)
        PROVE  lockout_key = q.key /\ lockout_tag = d
    <3>1. d /= c
      BY <1>1, <1>4, <2>1 DEF Accounted, IdsOK, NoReply
    <3> QED BY <1>1, <1>4, <2>1, <3>1 DEF Accounted, LocksOK
  <2>2. ASSUME NEW d \in Clients, Reliable(d, held'[d])
        PROVE  lockout_key = held'[d] /\ lockout_tag = d
    BY <1>1, <1>4, <2>2 DEF Accounted, LocksOK
  <2> QED BY <1>2, <2>1, <2>2 DEF LocksOK, Reliable, endpointVars
<1> QED BY <1>5, <1>6, <1>7, <1>8, <1>9 DEF Accounted

\* Giving up on the reply.
LEMMA GiveUpInv ==
  ASSUME TypeOK, Accounted, NEW c \in Clients, GiveUp(c)
  PROVE  TypeOK' /\ Accounted'
<1>1. /\ awaited' = [awaited EXCEPT ![c] = NoReply]
      /\ replies' \subseteq replies
      /\ hasty' = IF awaited[c].unlock THEN hasty \cup {c} ELSE hasty
      /\ UNCHANGED <<endpointVars, sent, held, known, inbox, forced>>
  BY DEF GiveUp
<1>2. /\ \A d \in Clients \ {c} : awaited'[d] = awaited[d]
      /\ awaited'[c] = NoReply
      /\ hasty \subseteq hasty'
  BY <1>1 DEF TypeOK
<1>3. \A q \in replies' : \A d \in Clients : q.id = awaited'[d].id => q.id = awaited[d].id
  BY <1>1, <1>2 DEF Accounted, IdsOK, NoReply
<1>4. TypeOK'
  BY <1>1 DEF TypeOK, endpointVars, NoReply
<1>5. IdsOK'
  BY <1>1, <1>2 DEF TypeOK, Accounted, IdsOK, NoReply
<1>6. KeysOK'
  BY <1>1, <1>3 DEF Accounted, KeysOK, endpointVars, Is
<1>7. UnlocksOK'
  <2>1. ASSUME NEW r \in inbox, Is(r, "cmd", "unlock"), r.key = SuppliedKey[r.from]
        PROVE  \/ r.from \in hasty'
               \/ awaited'[r.from].id = r.id /\ awaited'[r.from].unlock /\ held[r.from] = Nil
    <3>1. r.from \in Clients
      BY DEF TypeOK, RequestRecord
    <3>2. CASE r.from = c
      BY <1>1, <1>2, <2>1, <3>1, <3>2 DEF Accounted, UnlocksOK
    <3>3. CASE r.from /= c
      BY <1>1, <1>2, <2>1, <3>1, <3>3 DEF Accounted, UnlocksOK
    <3> QED BY <3>2, <3>3
  <2> QED BY <1>1, <2>1 DEF Accounted, UnlocksOK, Is
<1>8. LocksOK'
  BY <1>1, <1>2, <1>3 DEF Accounted, LocksOK, Reliable, endpointVars
<1> QED BY <1>4, <1>5, <1>6, <1>7, <1>8 DEF Accounted

-----------------------------------------------------------------------------
(* The endpoint. *)

\* What every answer to a request does to the queue and the replies.
Answered(r, code, key) ==
  /\ inbox' = inbox \ {r}
  /\ \/ replies' = replies
     \/ /\ awaited[r.from].id = r.id
        /\ replies' = replies \cup {[id |-> r.id, code |-> code, key |-> key]}
  /\ UNCHANGED <<sent, awaited, held, known, hasty>>
  /\ executor' \in {"running", "stopped"}

LEMMA ReplyAnswers ==
  ASSUME TypeOK, NEW r, NEW code, NEW key, NEW rethrown, Reply(r, code, key, rethrown)
  PROVE  Answered(r, code, key)
BY DEF TypeOK, Reply, Answered, clientVars

\* Only the request's sender, if it still waits, gets a new reply.
LEMMA AnsweredReplies ==
  ASSUME NEW r, NEW code, NEW key, Answered(r, code, key)
  PROVE  \A q \in replies' :
           q \in replies \/ (q.key = key /\ q.id = r.id /\ awaited[r.from].id = r.id)
<1>1. ASSUME NEW q \in replies', q \notin replies
      PROVE  q.key = key /\ q.id = r.id /\ awaited[r.from].id = r.id
  <2>1. q = [id |-> r.id, code |-> code, key |-> key] /\ awaited[r.from].id = r.id
    BY <1>1 DEF Answered
  <2>2. q.key = key
    BY <2>1
  <2>3. q.id = r.id
    BY <2>1
  <2> QED BY <2>1, <2>2, <2>3
<1> QED BY <1>1

\* An answer carries no key, the sender's own, or one that was never seen before.
LEMMA AnswerInv ==
  ASSUME TypeOK, Accounted, NEW r \in inbox, NEW code, NEW key,
         key \in {Nil, SuppliedKey[r.from]} \cup (GeneratedKeys \ generated),
         Answered(r, code, key),
         generated' = generated \cup ({key} \cap GeneratedKeys)
  PROVE  IdsOK' /\ KeysOK' /\ UnlocksOK'
<1>1. r.from \in Clients /\ SuppliedKey[r.from] \notin GeneratedKeys
  BY EndpointAssumption DEF TypeOK, RequestRecord
<1>2. PICK a : a = [id |-> r.id, code |-> code, key |-> key]
  OBVIOUS
<1>3. a.id = r.id /\ a.key = key
  BY <1>2
<1>4. /\ replies' \subseteq replies \cup {a}
      /\ a \in replies' => awaited[r.from].id = r.id \/ a \in replies
  BY <1>2 DEF Answered
<1>5. inbox' = inbox \ {r} /\ UNCHANGED <<sent, awaited, held, known, hasty>>
  BY DEF Answered
<1>6. a \notin replies
  BY <1>3 DEF Accounted, IdsOK
<1>7. IdsOK'
  BY <1>3, <1>4, <1>5 DEF Accounted, IdsOK
<1>8. KeysOK'
  <2>1. \A d \in Clients : known[d] \subseteq generated'
    BY DEF Accounted, KeysOK
  <2>2. ASSUME NEW q \in replies', q.key \in GeneratedKeys
        PROVE  /\ q.key \in generated'
               /\ \A d \in Clients : q.key \notin known[d]
               /\ \A s \in replies' : s.key = q.key => s = q
    <3>1. key \in GeneratedKeys =>
            /\ \A d \in Clients : key \notin known[d]
            /\ \A s \in replies : s.key /= key
      BY <1>1, EndpointAssumption DEF Accounted, KeysOK
    <3> QED BY <1>3, <1>4, <2>2, <3>1 DEF Accounted, KeysOK
  <2>3. ASSUME NEW q \in replies', NEW d \in Clients, q.id = awaited[d].id
        PROVE  q.key \in {Nil, SuppliedKey[d]} \cup GeneratedKeys
    <3>1. CASE q \in replies
      BY <2>3, <3>1 DEF Accounted, KeysOK
    <3>2. CASE q = a
      <4>1. d = r.from
        BY <1>1, <1>3, <1>4, <1>6, <2>3, <3>2 DEF Accounted, IdsOK
      <4> QED BY <1>3, <3>2, <4>1
    <3> QED BY <1>4, <3>1, <3>2
  <2> QED BY <1>5, <2>1, <2>2, <2>3 DEF Accounted, KeysOK, Is
<1>9. UnlocksOK'
  <2>1. ASSUME NEW s \in inbox, Is(s, "cmd", "unlock"), s.key \in GeneratedKeys
        PROVE  s.key /= key
    <3>1. s.from \in Clients /\ SuppliedKey[s.from] \notin GeneratedKeys /\ Nil \notin GeneratedKeys
      BY EndpointAssumption DEF TypeOK, RequestRecord
    <3>2. s.key \in generated
      BY <2>1, <3>1 DEF Accounted, KeysOK, Is
    <3> QED BY <1>1, <2>1, <3>1, <3>2
  <2> QED BY <1>3, <1>4, <1>5, <2>1 DEF Accounted, UnlocksOK, Is
<1> QED BY <1>7, <1>8, <1>9

\* An answer without a key, the lock being left alone.
LEMMA NoKeyInv ==
  ASSUME TypeOK, Accounted, NEW r \in inbox, NEW code \in Codes, Answered(r, code, Nil),
         performed' \in {performed, r},
         UNCHANGED <<lockout_key, lockout_tag, generated, forced>>
  PROVE  TypeOK' /\ Accounted'
<1>1. Nil \notin GeneratedKeys
  BY EndpointAssumption
<1>2. r \in RequestRecord /\ r.id \in Nat
  BY DEF TypeOK, RequestRecord
<1>3. TypeOK'
  BY <1>2 DEF TypeOK, Answered, Keys
<1>4. IdsOK' /\ KeysOK' /\ UnlocksOK'
  BY <1>1, AnswerInv
<1>5. \A q \in replies' : q \in replies \/ q.key = Nil
  BY DEF Answered
<1>6. LocksOK'
  BY <1>5 DEF Accounted, LocksOK, Reliable, Answered
<1> QED BY <1>3, <1>4, <1>6 DEF Accounted

\* No client relies on a lock while the endpoint is not locked.
LEMMA Unlocked ==
  ASSUME Accounted, ~is_locked, NEW c \in Clients
  PROVE  /\ ~Reliable(c, held[c])
         /\ \A p \in replies : p.id = awaited[c].id => ~Reliable(c, p.key)
BY DEF Accounted, LocksOK, is_locked, Reliable

\* Locking.
LEMMA LockInv ==
  ASSUME TypeOK, Accounted, NEW r \in inbox, Lock(r)
  PROVE  TypeOK' /\ Accounted'
<1>1. CASE is_locked
  <2>1. Answered(r, "resource_error", Nil)
    BY <1>1, ReplyAnswers DEF Lock
  <2> QED BY <1>1, <2>1, NoKeyInv DEF Lock, Codes
<1>2. CASE ~is_locked
  <2>1. PICK key \in IF r.key = Nil THEN GeneratedKeys \ generated ELSE {r.key} :
          /\ lockout_key' = key
          /\ lockout_tag' = r.from
          /\ generated' = generated \cup ({key} \cap GeneratedKeys)
          /\ Reply(r, "success", key, FALSE)
          /\ UNCHANGED <<performed, forced>>
    BY <1>2 DEF Lock, Tag
  <2>2. Answered(r, "success", key)
    BY <2>1, ReplyAnswers
  <2>3. key \in {Nil, SuppliedKey[r.from]} \cup (GeneratedKeys \ generated)
    BY <2>1 DEF Accounted, KeysOK, Lock
  <2>4. r.from \in Clients /\ r.id \in Nat
    BY DEF TypeOK, RequestRecord
  <2>5. TypeOK'
    BY <2>1, <2>2, <2>3, <2>4 DEF TypeOK, Answered, Keys, Codes
  <2>6. IdsOK' /\ KeysOK' /\ UnlocksOK'
    BY <2>1, <2>2, <2>3, AnswerInv
  <2>7. \A q \in replies' : q \in replies \/ (q.key = key /\ q.id = r.id /\ awaited[r.from].id = r.id)
    BY <2>2, AnsweredReplies
  <2>8. r.id /= 0
    BY DEF Accounted, IdsOK
  <2>9. ASSUME NEW d \in Clients
        PROVE  /\ ~Reliable(d, held[d])
               /\ \A q \in replies' : q.id = awaited[d].id /\ Reliable(d, q.key) =>
                    key = q.key /\ r.from = d
    BY <1>2, <2>4, <2>7, <2>8, Unlocked DEF Accounted, IdsOK
  <2>10. LocksOK'
    BY <2>1, <2>2, <2>9 DEF LocksOK, Reliable, Answered
  <2> QED BY <2>5, <2>6, <2>10 DEF Accounted
<1> QED BY <1>1, <1>2

\* No client relies on a lock with the key that an unlock request in the queue has,
\* however late that request is.
LEMMA UnlockKeyIsNotRelied ==
  ASSUME TypeOK, Accounted, NEW r \in inbox, Is(r, "cmd", "unlock"), NEW c \in Clients
  PROVE  /\ ~Reliable(c, held[c]) \/ held[c] /= r.key
         /\ \A p \in replies :
              p.id = awaited[c].id /\ Reliable(c, p.key) => p.key /= r.key
<1>1. r.from \in Clients
  BY DEF TypeOK, RequestRecord
<1>2. r.key \in {Nil, SuppliedKey[r.from]} \cup GeneratedKeys
  BY <1>1 DEF TypeOK, Accounted, KeysOK
<1>3. CASE r.key \in GeneratedKeys
  BY <1>3 DEF Accounted, UnlocksOK
<1>4. CASE r.key = Nil
  BY <1>4 DEF Reliable
<1>5. CASE r.key = SuppliedKey[r.from]
  <2>1. r.key \notin GeneratedKeys \cup {Nil}
    BY <1>1, <1>5, EndpointAssumption
  <2>2. c /= r.from => SuppliedKey[c] /= r.key
    BY <1>1, <1>5, EndpointAssumption
  <2>3. \/ c /= r.from
        \/ c \in hasty
        \/ awaited[c].id = r.id /\ held[c] = Nil
    <3>1. \/ r.from \in hasty
          \/ awaited[r.from].id = r.id /\ held[r.from] = Nil
      BY <1>5 DEF Accounted, UnlocksOK
    <3> QED BY <3>1
  <2>4. ~Reliable(c, held[c]) \/ held[c] /= r.key
    <3>1. known[c] \subseteq GeneratedKeys
      BY DEF TypeOK
    <3> QED BY <2>1, <2>2, <2>3, <3>1 DEF Accounted, KeysOK, Reliable
  <2>5. ASSUME NEW p \in replies, p.id = awaited[c].id, Reliable(c, p.key)
        PROVE  p.key /= r.key
    <3>1. p.id /= r.id
      BY DEF Accounted, IdsOK
    <3>2. p.key \in {Nil, SuppliedKey[c]} \cup GeneratedKeys
      BY <2>5 DEF Accounted, KeysOK
    <3> QED BY <2>1, <2>2, <2>3, <2>5, <3>1, <3>2 DEF Reliable
  <2> QED BY <2>4, <2>5
<1> QED BY <1>2, <1>3, <1>4, <1>5

\* Unlocking.
LEMMA UnlockInv ==
  ASSUME TypeOK, Accounted, NEW r \in inbox, Unlock(r)
  PROVE  TypeOK' /\ Accounted'
<1>1. CASE ~(is_locked /\ MayUnlock(r))
  <2>1. PICK code \in Codes : Answered(r, code, Nil)
    BY <1>1, ReplyAnswers DEF Unlock, Codes
  <2> QED BY <1>1, <2>1, NoKeyInv DEF Unlock
<1>2. CASE is_locked /\ MayUnlock(r)
  <2>1. /\ lockout_key' = Nil
        /\ lockout_tag' = NoClient
        /\ forced' = IF r.force THEN forced \cup {lockout_key} ELSE forced
        /\ UNCHANGED <<performed, generated>>
        /\ r.force \/ r.key = lockout_key
        /\ Is(r, "cmd", "unlock")
    BY <1>2 DEF Unlock, MayUnlock
  <2>2. Answered(r, "success", Nil)
    BY <1>2, ReplyAnswers DEF Unlock
  <2>3. r.id \in Nat
    BY DEF TypeOK, RequestRecord
  <2>4. TypeOK'
    BY <2>1, <2>2, <2>3 DEF TypeOK, Answered, Keys, Codes
  <2>5. Nil \notin GeneratedKeys
    BY EndpointAssumption
  <2>6. IdsOK' /\ KeysOK' /\ UnlocksOK'
    BY <2>1, <2>2, <2>5, AnswerInv
  <2>7. forced \subseteq forced' /\ (lockout_key \in forced' \/ r.key = lockout_key)
    BY <2>1
  <2>8. \A q \in replies' : q \in replies \/ q.key = Nil
    BY <2>2 DEF Answered
  <2>9. UNCHANGED <<awaited, held, hasty>>
    BY <2>2 DEF Answered
  <2>10. ASSUME NEW c \in Clients
         PROVE  /\ ~Reliable(c, held[c])'
                /\ \A q \in replies' : q.id = awaited[c].id => ~Reliable(c, q.key)'
    <3>1. ~Reliable(c, held[c])'
      BY <2>1, <2>7, <2>9, UnlockKeyIsNotRelied DEF Accounted, LocksOK, Reliable
    <3>2. ASSUME NEW q \in replies', q.id = awaited[c].id
          PROVE  ~Reliable(c, q.key)'
      BY <2>1, <2>7, <2>8, <2>9, <3>2, UnlockKeyIsNotRelied DEF Accounted, LocksOK, Reliable
    <3> QED BY <3>1, <3>2
  <2>11. LocksOK'
    BY <2>9, <2>10 DEF LocksOK
  <2> QED BY <2>4, <2>6, <2>11 DEF Accounted
<1> QED BY <1>1, <1>2

\* The other answers leave the lock alone.
LEMMA OtherInv ==
  ASSUME TypeOK, Accounted, NEW r \in inbox,
         Reject(r) \/ Refuse(r) \/ Deny(r) \/ Inform(r) \/ Perform(r)
  PROVE  TypeOK' /\ Accounted'
<1>1. CASE Reject(r)
  <2>1. Answered(r, "refused", Nil)
    BY <1>1 DEF Reject, Answered, clientVars
  <2> QED BY <1>1, <2>1, NoKeyInv DEF Reject, Codes
<1>2. CASE Refuse(r)
  BY <1>2, ReplyAnswers, NoKeyInv DEF Refuse, Codes
<1>3. CASE Deny(r)
  BY <1>3, ReplyAnswers, NoKeyInv DEF Deny, Codes
<1>4. CASE Inform(r)
  BY <1>4, ReplyAnswers, NoKeyInv DEF Inform, Codes
<1>5. CASE Perform(r)
  <2>1. PICK code \in Codes : Answered(r, code, Nil)
    BY <1>5, ReplyAnswers DEF Perform, Codes
  <2> QED BY <1>5, <2>1, NoKeyInv DEF Perform
<1> QED BY <1>1, <1>2, <1>3, <1>4, <1>5

\* Every step preserves the invariant.
LEMMA NextInv == TypeOK /\ Accounted /\ [Next]_vars => TypeOK' /\ Accounted'
<1> SUFFICES ASSUME TypeOK, Accounted, [Next]_vars PROVE TypeOK' /\ Accounted'
  OBVIOUS
<1>1. ASSUME NEW c \in Clients, NEW kind \in Kinds, NEW key \in KeysFor(c, kind), Send(c, kind, key)
      PROVE  TypeOK' /\ Accounted'
  BY <1>1, SendInv
<1>2. ASSUME NEW c \in Clients, Receive(c) \/ GiveUp(c)
      PROVE  TypeOK' /\ Accounted'
  BY <1>2, ReceiveInv, GiveUpInv
<1>3. ASSUME NEW r \in inbox, Handle(r)
      PROVE  TypeOK' /\ Accounted'
  BY <1>3, LockInv, UnlockInv, OtherInv DEF Handle
<1>4. CASE UNCHANGED vars
  <2>1. UNCHANGED <<lockout_key, lockout_tag, executor, performed, generated>>
    BY <1>4 DEF vars, endpointVars
  <2>2. UNCHANGED <<sent, awaited, held, known, hasty, inbox, replies, forced>>
    BY <1>4 DEF vars, clientVars
  <2>3. TypeOK'
    BY <2>1, <2>2 DEF TypeOK
  <2>4. IdsOK' /\ KeysOK'
    BY <2>1, <2>2 DEF Accounted, IdsOK, KeysOK, Is
  <2>5. UnlocksOK' /\ LocksOK'
    BY <2>1, <2>2 DEF Accounted, UnlocksOK, LocksOK, Reliable, Is
  <2> QED BY <2>3, <2>4, <2>5 DEF Accounted
<1> QED BY <1>1, <1>2, <1>3, <1>4 DEF Next

\* Every reachable state of endpoint.cc and its clients is well typed.
THEOREM EndpointTypeCorrect == Spec => []TypeOK
<1>1. Spec => [](TypeOK /\ Accounted)
  BY InitAccounted, NextInv, PTL DEF Spec
<1> QED BY <1>1, PTL

\* What clients believe of their locks is what f_lockout_key and f_lockout_tag say,
\* whatever requests and replies cross, are late or are lost.
THEOREM LockAccounting == Spec => []Accounted
<1>1. Spec => [](TypeOK /\ Accounted)
  BY InitAccounted, NextInv, PTL DEF Spec
<1> QED BY <1>1, PTL

\* handle_lock_request and handle_unlock_request never let two clients rely on the
\* lockout at the same time.
THEOREM LockoutExcludes == Spec => []MutualExclusion
<1>1. Accounted => MutualExclusion
  BY DEF Accounted, LocksOK, MutualExclusion, Trusts
<1> QED BY <1>1, LockAccounting, PTL

\* While a client relies on the lockout, __do_set_request and __do_cmd_request pass
\* nothing on that does not carry its key.
THEOREM LockoutProtects == Spec => OnlyHolderChanges
<1>1. ASSUME Accounted, [Next]_vars
      PROVE  [\A c \in Clients : Trusts(c) =>
                \/ performed' = performed
                \/ performed'.op = "get"
                \/ performed'.instruction = "set_condition"
                \/ performed'.key = held[c]]_vars
  <2> SUFFICES ASSUME Next, NEW c \in Clients, Trusts(c), performed' /= performed
               PROVE  \/ performed'.op = "get"
                      \/ performed'.instruction = "set_condition"
                      \/ performed'.key = held[c]
    BY <1>1
  <2>1. PICK r \in inbox : Perform(r)
    BY DEF Next, Handle, Send, Receive, GiveUp, Reject, Refuse, Deny, Lock, Unlock, Inform,
           endpointVars
  <2>2. lockout_key = held[c] /\ is_locked
    BY <1>1 DEF Accounted, LocksOK, Trusts, Reliable, is_locked
  <2>3. r.op = "get" \/ r.instruction = "set_condition" \/ NeedsKey(r)
    BY <2>1 DEF Perform, NeedsKey
  <2>4. NeedsKey(r) => r.key = held[c]
    BY <2>1, <2>2 DEF Perform, Permitted, authenticate
  <2> QED BY <2>1, <2>3, <2>4 DEF Perform
<1> QED BY <1>1, LockAccounting, PTL DEF Spec, OnlyHolderChanges

\* What on_request_message refuses, denies or answers with an error never stops the
\* thread: only a derived class, a message that is no request, or a reply that a
\* service cannot send does.
THEOREM RefusalsDoNotStop == Spec => StopCause
<1>1. ASSUME [Next]_vars
      PROVE  [executor' /= executor =>
                \E r \in inbox \ inbox' : \/ r = performed'
                                          \/ r.op = "alert"
                                          \/ IsService /\ r.reply_to]_vars
  <2> SUFFICES ASSUME Next, executor' /= executor
               PROVE  \E r \in inbox \ inbox' : \/ r = performed'
                                                \/ r.op = "alert"
                                                \/ IsService /\ r.reply_to
    BY <1>1
  <2>1. PICK r \in inbox : Handle(r)
    BY DEF Next, Send, Receive, GiveUp, endpointVars
  <2>2. \A code, key : Reply(r, code, key, FALSE) =>
          r \notin inbox' /\ IsService /\ r.reply_to
    BY DEF Reply
  <2>3. \A code, key, rethrown : Reply(r, code, key, rethrown) => r \notin inbox'
    BY DEF Reply
  <2>4. CASE Reject(r)
    BY <2>4 DEF Reject
  <2>5. CASE Refuse(r) \/ Deny(r) \/ Lock(r) \/ Unlock(r) \/ Inform(r)
    BY <2>2, <2>5 DEF Refuse, Deny, Lock, Unlock, Inform
  <2>6. CASE Perform(r)
    BY <2>3, <2>6 DEF Perform
  <2> QED BY <2>1, <2>4, <2>5, <2>6 DEF Handle
<1> QED BY <1>1, PTL DEF Spec, StopCause
=============================================================================
