------------------------------ MODULE Endpoint ------------------------------
(***************************************************************************)
(* A dripline endpoint and its lockout (src/library/endpoint.cc): requests *)
(* arrive from several clients, are checked, authenticated, handled and    *)
(* answered by endpoint::on_request_message.                               *)
(*                                                                         *)
(* One thread, concurrent_receiver::execute, handles the requests of an    *)
(* endpoint, so one action handles one request from the call of            *)
(* submit_message to its return. What interleaves is the clients: their    *)
(* requests arrive in any order, clients give up waiting, and requests and *)
(* replies that are never taken are lost.                                  *)
(***************************************************************************)
EXTENDS Naturals, FiniteSets

CONSTANTS
  Clients,
  SuppliedKey,   \* the lockout key that each client may choose for itself
  GeneratedKeys, \* what generate_random_uuid may return
  Nil,           \* the nil UUID: no key, or no lock
  Kinds,         \* the kinds of request that clients send
  MaxRequests,   \* bound: requests sent
  IsService,     \* the endpoint is the service itself, not a child of one
  NoClient, NoRequest

\* Supplied keys are distinct, and nobody chooses a key that was generated.
ASSUME EndpointAssumption ==
  /\ NoClient \notin Clients
  /\ Nil \notin GeneratedKeys
  /\ \A c \in Clients : SuppliedKey[c] \notin GeneratedKeys \cup {Nil}
  /\ \A c, d \in Clients : SuppliedKey[c] = SuppliedKey[d] => c = d
  /\ MaxRequests \in Nat
  /\ IsService \in BOOLEAN

Keys == {Nil} \cup GeneratedKeys \cup {SuppliedKey[c] : c \in Clients}

\* What a request asks: its operation, the first word of its specifier, the
\* "force" value of its payload, whether it has a reply-to, and what is wrong
\* with it: it was incomplete or did not parse ("invalid"), or its lockout key
\* did not ("bad_key"). An alert is no request, but may be sent all the same.
KindRecord == [op : {"get", "set", "cmd", "unknown", "alert"},
               instruction : {"lock", "unlock", "ping", "set_condition",
                              "set-condition", "is-locked", "other"},
               force : BOOLEAN, flaw : {"none", "invalid", "bad_key"},
               reply_to : BOOLEAN]

ASSUME KindsAssumption == Kinds \subseteq KindRecord

VARIABLES
  lockout_key, lockout_tag,  \* f_lockout_key; f_lockout_tag: who locked
  executor,    \* the thread that handles requests: "running" or "stopped"
  performed,   \* the request last given to do_get_request, do_set_request,
               \* do_cmd_request or an overridden set-condition handler
  generated,   \* keys that generate_random_uuid has returned
  sent,        \* number of requests sent
  inbox,       \* requests on their way or in the endpoint's queue
  replies,     \* replies on their way
  awaited,     \* the reply each client waits for; id 0 when it waits for none
  held,        \* the key of the lock that each client believes it holds
  known,       \* the generated keys that each client has learnt
  hasty,       \* clients that sent an unlock and did not wait for its reply
  forced       \* keys of locks that were removed by force

endpointVars == <<lockout_key, lockout_tag, executor, performed, generated>>
clientVars   == <<sent, awaited, held, known, hasty>>
vars == <<endpointVars, clientVars, inbox, replies, forced>>

NoReply == [id |-> 0, unlock |-> FALSE]

Init ==
  /\ lockout_key = Nil
  /\ lockout_tag = NoClient
  /\ executor = "running"
  /\ performed = NoRequest
  /\ generated = {}
  /\ sent = 0
  /\ inbox = {}
  /\ replies = {}
  /\ awaited = [c \in Clients |-> NoReply]
  /\ held = [c \in Clients |-> Nil]
  /\ known = [c \in Clients |-> {}]
  /\ hasty = {}
  /\ forced = {}

is_locked == lockout_key /= Nil

authenticate(key) == is_locked => key = lockout_key

-----------------------------------------------------------------------------
(* The clients. *)

Is(r, op, instruction) == r.op = op /\ r.instruction = instruction

\* The key in a request: none, or one the client has. In a lock request it is
\* the key the client wants, which is none that was generated before. Requests
\* whose key is not looked at are sent without one, and a lock without a key is
\* asked for while there is another key to generate (a bound).
KeysFor(c, kind) ==
  CASE kind.flaw /= "none" \/ kind.force \/ kind.op \notin {"set", "cmd"} -> {Nil}
    [] Is(kind, "cmd", "lock") ->
         {SuppliedKey[c]} \cup (IF generated = GeneratedKeys THEN {} ELSE {Nil})
    [] OTHER -> {Nil, SuppliedKey[c]} \cup known[c]

\* A client that waits for nothing sends a request to the endpoint's queue, which
\* is there while the service runs; one that sends an unlock no
\* longer believes that it holds a lock.
Send(c, kind, key) ==
  LET unlock == Is(kind, "cmd", "unlock")
  IN  /\ executor = "running"
      /\ awaited[c] = NoReply
      /\ sent < MaxRequests
      /\ sent' = sent + 1
      /\ inbox' = inbox \cup {[id |-> sent', from |-> c, key |-> key, op |-> kind.op,
                               instruction |-> kind.instruction, force |-> kind.force,
                               flaw |-> kind.flaw, reply_to |-> kind.reply_to]}
      /\ awaited' = IF kind.reply_to
                    THEN [awaited EXCEPT ![c] = [id |-> sent', unlock |-> unlock]]
                    ELSE awaited
      /\ held' = IF unlock THEN [held EXCEPT ![c] = Nil] ELSE held
      /\ hasty' = IF unlock /\ ~kind.reply_to THEN hasty \cup {c} ELSE hasty
      /\ UNCHANGED <<endpointVars, known, replies, forced>>

\* The reply arrives. Only the reply to a successful lock carries a key.
Receive(c) ==
  /\ \E p \in replies :
       /\ p.id = awaited[c].id
       /\ replies' = replies \ {p}
       /\ held' = IF p.key /= Nil THEN [held EXCEPT ![c] = p.key] ELSE held
       /\ known' = [known EXCEPT ![c] = @ \cup ({p.key} \cap GeneratedKeys)]
  /\ awaited' = [awaited EXCEPT ![c] = NoReply]
  /\ UNCHANGED <<endpointVars, sent, hasty, inbox, forced>>

\* The client stops waiting and deletes its reply queue. The request may still
\* arrive, and the reply is lost.
GiveUp(c) ==
  /\ awaited[c] /= NoReply
  /\ awaited' = [awaited EXCEPT ![c] = NoReply]
  /\ replies' = {p \in replies : p.id /= awaited[c].id}
  /\ hasty' = IF awaited[c].unlock THEN hasty \cup {c} ELSE hasty
  /\ UNCHANGED <<endpointVars, sent, held, known, inbox, forced>>

-----------------------------------------------------------------------------
(* The endpoint: on_request_message and what it calls. *)

\* The reply to r is sent, or its sending fails and that is logged, or throws:
\* out of a service's send_reply, but not out of a child's. An exception that
\* reaches execute() stops the thread and, through cancel_all, the service.
Reply(r, code, key, rethrown) ==
  /\ inbox' = inbox \ {r}
  /\ \/ /\ r.reply_to
        /\ replies' = IF awaited[r.from].id = r.id
                      THEN replies \cup {[id |-> r.id, code |-> code, key |-> key]}
                      ELSE replies
        /\ executor' = IF rethrown THEN "stopped" ELSE executor
     \/ /\ executor' = IF rethrown THEN "stopped" ELSE executor
        /\ UNCHANGED replies
     \/ /\ IsService
        /\ r.reply_to
        /\ executor' = "stopped"
        /\ UNCHANGED replies
  /\ UNCHANGED clientVars

\* on_alert_message and on_reply_message of the base class throw.
Reject(r) ==
  /\ r.op = "alert"
  /\ inbox' = inbox \ {r}
  /\ executor' = "stopped"
  /\ UNCHANGED <<lockout_key, lockout_tag, performed, generated, clientVars, replies, forced>>

\* Mutant: a thrown reply is thrown on after it was sent.
RefuseAndRethrow(r) ==
  /\ r.op /= "alert"
  /\ r.flaw /= "none" \/ r.op = "unknown"
  /\ Reply(r, "refused", Nil, TRUE)
  /\ UNCHANGED <<lockout_key, lockout_tag, performed, generated, forced>>

\* A request that is not valid, whose key is not, or whose operation is not
\* known is answered with an error.
Refuse(r) ==
  /\ r.op /= "alert"
  /\ r.flaw /= "none" \/ r.op = "unknown"
  /\ Reply(r, "refused", Nil, FALSE)
  /\ UNCHANGED <<lockout_key, lockout_tag, performed, generated, forced>>

Accepted(r) == r.flaw = "none" /\ r.op \in {"get", "set", "cmd"}

\* Mutant: only the known instructions need the key.
OnlyLockNeedsKey(r) == Is(r, "cmd", "lock")

\* The requests that a lockout concerns.
NeedsKey(r) ==
  \/ r.op = "set"
  \/ r.op = "cmd" /\ r.instruction \notin {"unlock", "ping", "set_condition"}

Permitted(r) == Accepted(r) /\ (NeedsKey(r) => authenticate(r.key))

Deny(r) ==
  /\ Accepted(r)
  /\ ~Permitted(r)
  /\ Reply(r, "access_denied", Nil, FALSE)
  /\ UNCHANGED <<lockout_key, lockout_tag, performed, generated, forced>>

\* Mutant: the tag is the request instead of its sender.
TagOfRequest(r) == r.id

\* get_sender_info()
Tag(r) == r.from

\* handle_lock_request, enable_lockout. Random UUIDs do not repeat.
Lock(r) ==
  /\ Permitted(r)
  /\ Is(r, "cmd", "lock")
  /\ IF is_locked
     THEN /\ Reply(r, "resource_error", Nil, FALSE)
          /\ UNCHANGED <<lockout_key, lockout_tag, generated>>
     ELSE \E key \in IF r.key = Nil THEN GeneratedKeys \ generated ELSE {r.key} :
            /\ lockout_key' = key
            /\ lockout_tag' = Tag(r)
            /\ generated' = generated \cup ({key} \cap GeneratedKeys)
            /\ Reply(r, "success", key, FALSE)
  /\ UNCHANGED <<performed, forced>>

\* Mutant: whoever holds a key may unlock.
AnyKeyUnlocks(r) == r.force \/ r.key /= Nil

MayUnlock(r) == r.force \/ r.key = lockout_key

\* handle_unlock_request, disable_lockout
Unlock(r) ==
  /\ Permitted(r)
  /\ Is(r, "cmd", "unlock")
  /\ IF is_locked /\ MayUnlock(r)
     THEN /\ lockout_key' = Nil
          /\ lockout_tag' = NoClient
          /\ forced' = IF r.force THEN forced \cup {lockout_key} ELSE forced
          /\ Reply(r, "success", Nil, FALSE)
     ELSE /\ Reply(r, IF is_locked THEN "resource_error" ELSE "no_action_taken", Nil, FALSE)
          /\ UNCHANGED <<lockout_key, lockout_tag, forced>>
  /\ UNCHANGED <<performed, generated>>

\* handle_ping_request, handle_is_locked_request, and the set-condition handler
\* of the base class
Inform(r) ==
  /\ Permitted(r)
  /\ Is(r, "cmd", "ping") \/ Is(r, "get", "is-locked") \/ Is(r, "cmd", "set_condition")
  /\ Reply(r, "success", Nil, FALSE)
  /\ UNCHANGED <<lockout_key, lockout_tag, performed, generated, forced>>

\* What __do_get_request, __do_set_request and __do_cmd_request leave to a
\* derived class, which may override the set-condition handler too. It returns
\* a reply, throws one, or fails with another exception, which is answered and
\* thrown on.
Perform(r) ==
  /\ Permitted(r)
  /\ \/ r.op = "set"
     \/ r.op = "get" /\ r.instruction /= "is-locked"
     \/ r.op = "cmd" /\ r.instruction \notin {"lock", "unlock", "ping"}
  /\ performed' = r
  /\ \/ Reply(r, "success", Nil, FALSE)
     \/ Reply(r, "thrown_reply", Nil, FALSE)
     \/ Reply(r, "unhandled_exception", Nil, TRUE)
  /\ UNCHANGED <<lockout_key, lockout_tag, generated, forced>>

Handle(r) ==
  /\ executor = "running"
  /\ Reject(r) \/ Refuse(r) \/ Deny(r) \/ Lock(r) \/ Unlock(r) \/ Inform(r) \/ Perform(r)

Next ==
  \/ \E c \in Clients :
       \/ \E kind \in Kinds : \E key \in KeysFor(c, kind) : Send(c, kind, key)
       \/ Receive(c)
       \/ GiveUp(c)
  \/ \E r \in inbox : Handle(r)

Spec == Init /\ [][Next]_vars

-----------------------------------------------------------------------------
(* Properties. *)

RequestRecord == [id : Nat, from : Clients, key : Keys, op : {"get", "set", "cmd", "unknown", "alert"},
                  instruction : {"lock", "unlock", "ping", "set_condition",
                                 "set-condition", "is-locked", "other"},
                  force : BOOLEAN, flaw : {"none", "invalid", "bad_key"},
                  reply_to : BOOLEAN]
Codes == {"success", "resource_error", "no_action_taken", "access_denied", "refused",
          "thrown_reply", "unhandled_exception"}

\* The variables have the types of the members and messages they stand for.
TypeOK ==
  /\ lockout_key \in Keys
  /\ lockout_tag \in Clients \cup {NoClient}
  /\ executor \in {"running", "stopped"}
  /\ performed \in RequestRecord \cup {NoRequest}
  /\ generated \subseteq GeneratedKeys
  /\ sent \in Nat
  /\ inbox \subseteq RequestRecord
  /\ replies \subseteq [id : Nat, code : Codes, key : Keys]
  /\ awaited \in [Clients -> [id : Nat, unlock : BOOLEAN]]
  /\ held \in [Clients -> Keys]
  /\ known \in [Clients -> SUBSET GeneratedKeys]
  /\ hasty \subseteq Clients
  /\ forced \subseteq Keys

\* A client may rely on a lock it was granted, unless somebody removed a lock
\* with that key by force, or the key is the client's own and an unlock that it
\* did not wait for may still arrive.
Reliable(c, key) ==
  /\ key /= Nil
  /\ key \notin forced
  /\ key \in GeneratedKeys \/ c \notin hasty

Trusts(c) == Reliable(c, held[c])

\* The conjuncts of Accounted, from which the lock properties follow.

\* Request identities: unique, and a request is answered when it is out of the queue.
IdsOK ==
  /\ \A r \in inbox : r.id \in 1 .. sent
  /\ \A r, s \in inbox : r.id = s.id => r = s
  /\ \A p \in replies : p.id \in 1 .. sent /\ \A r \in inbox : r.id /= p.id
  /\ \A c \in Clients : awaited[c].id \in 0 .. sent
  /\ \A c, d \in Clients : awaited[c].id = awaited[d].id => c = d \/ awaited[c].id = 0

\* A generated key is known to one client at most, or on its way to it.
KeysOK ==
  /\ \A c \in Clients : known[c] \subseteq generated
  /\ \A c, d \in Clients : known[c] \cap known[d] /= {} => c = d
  /\ \A c \in Clients : held[c] \in {Nil, SuppliedKey[c]} \cup known[c]
  /\ \A r \in inbox :
       r.key \in {Nil, SuppliedKey[r.from]} \cup (IF Is(r, "cmd", "lock") THEN {} ELSE known[r.from])
  /\ \A p \in replies :
       /\ p.key \in GeneratedKeys =>
            /\ p.key \in generated
            /\ \A c \in Clients : p.key \notin known[c]
            /\ \A q \in replies : q.key = p.key => q = p
       /\ \A c \in Clients : p.id = awaited[c].id =>
            p.key \in {Nil, SuppliedKey[c]} \cup GeneratedKeys

\* Who has asked to unlock with a key relies on no lock with that key.
UnlocksOK ==
  \A r \in inbox : Is(r, "cmd", "unlock") =>
    /\ r.key \in GeneratedKeys =>
         /\ \A c \in Clients : held[c] /= r.key
         /\ \A p \in replies : p.key /= r.key
    /\ r.key = SuppliedKey[r.from] =>
         \/ r.from \in hasty
         \/ awaited[r.from].id = r.id /\ awaited[r.from].unlock /\ held[r.from] = Nil

\* The lock that a client relies on, or is about to hear of, is the endpoint's.
LocksOK ==
  \A c \in Clients :
    /\ Reliable(c, held[c]) => lockout_key = held[c] /\ lockout_tag = c
    /\ \A p \in replies : p.id = awaited[c].id /\ Reliable(c, p.key) =>
         lockout_key = p.key /\ lockout_tag = c

\* Every key, request and reply in flight is accounted for, so that what a client
\* believes of its lock is what the endpoint keeps, however late it hears of it.
Accounted == IdsOK /\ KeysOK /\ UnlocksOK /\ LocksOK

\* Two clients never both rely on holding the lock: a lock request that crosses
\* another, a reply that comes late, or an unlock that was given up and arrives
\* after the endpoint was locked again, takes no lock away unnoticed.
MutualExclusion == \A c, d \in Clients : Trusts(c) /\ Trusts(d) => c = d

\* While a client relies on its lock, a derived class is given set and cmd
\* requests with that key only, set_condition excepted.
OnlyHolderChanges ==
  [][\A c \in Clients : Trusts(c) =>
       \/ performed' = performed
       \/ performed'.op = "get"
       \/ performed'.instruction = "set_condition"
       \/ performed'.key = held[c]]_vars

\* A request stops the thread, and with it the service, only when a derived class
\* fails, the message is not a request, or a service cannot send its reply: no
\* refusal and no lockout does.
StopCause ==
  [][executor' /= executor =>
       \E r \in inbox \ inbox' : \/ r = performed'
                                 \/ r.op = "alert"
                                 \/ IsService /\ r.reply_to]_vars
=============================================================================
