---------------------------- MODULE RequestPath ----------------------------
(***************************************************************************)
(* The way of a request: a client splits and sends it (again, when it is   *)
(* not sent whole or not answered), the broker routes it by the keys the   *)
(* service has bound, its parts are collected and joined, the service      *)
(* dispatches it by its routing key (library/service.cc) to a child or to  *)
(* itself, a hub whose handlers are registered by operation and specifier  *)
(* (library/hub.cc), and the reply goes to the queue the client made for   *)
(* the sending.                                                            *)
(*                                                                         *)
(* The threads of the receiver are left to module Receiver: here a part    *)
(* is collected, and a message handled, at once.  The lockout is left to   *)
(* module Endpoint: nobody holds it here.                                  *)
(***************************************************************************)
EXTENDS Message

CONSTANTS Names,       \* f_name, a string of words: the services to look at
          Broadcast,   \* f_broadcast_key, a word
          Children,    \* names of synchronous children
          MaxSize,     \* f_max_payload_size
          Requests,    \* requests of the client
          Tokens,      \* specifier words that handlers are registered for
          Handlers,    \* handler functions
          MaxSends, MaxChanges, MaxCopies,   \* bounds
          MaxFaults                          \* bound: replies not sent

Operations == {"get", "set", "cmd"}

(* The words that every endpoint handles itself.                           *)
BuiltIn == [get |-> {"is-locked"}, set |-> {},
            cmd |-> {"lock", "unlock", "ping", "set_condition"}]

ASSUME RequestPathAssumption ==
    /\ \A x \in Names \cup Children : x \in Seq(STRING) /\ x # <<>>
    /\ \A r \in Requests :
         /\ r.payload \in Payloads /\ r.lockout_key # ""
         /\ r.specifier \in Seq(STRING) /\ r.routing_key \in Seq(STRING)
         /\ r = NewRequest(r.payload, r.message_operation, r.routing_key,
                           to_string(r.specifier), r.lockout_key,
                           r.correlation_id)
    /\ MaxSize \in Nat \ {0}
    /\ MaxSends \in Nat /\ MaxChanges \in Nat /\ MaxCopies \in Nat
    /\ MaxFaults \in Nat

VARIABLES name,       \* the service's name
          request,    \* the request object of the client
          sent,       \* the request as it was at each sending
          whole,      \* sendings of which all parts were published
          wire,       \* parts on their way
          pack,       \* parts collected, by message ID
          queue,      \* joined messages that wait to be handled
          handlers,   \* f_get_handlers, f_set_handlers, f_cmd_handlers
          called,     \* the handler calls: handler and request
          replies,    \* replies that the broker has whole
          unsent,     \* replies that send_reply failed to send
          service,    \* "running", "stopped" by an exception, "crashed"
          changes, copies

clientVars == <<request, sent, whole>>
receiverVars == <<pack, queue>>
outVars == <<called, replies, unsent, service>>
vars == <<name, clientVars, wire, receiverVars, handlers, outVars, changes, copies>>

NoHandler == "none"
Ids == 1 .. MaxSends

TypeOK ==
    /\ name \in Names
    /\ Len(sent) \in 0 .. MaxSends /\ whole \subseteq Ids
    /\ request.message_id \in 0 .. MaxSends /\ request.reply_to = Len(sent)
    /\ \A c \in wire : c.message_id[2] < c.message_id[3]
    /\ DOMAIN pack = Ids
    /\ handlers \in [Operations -> [Tokens -> Handlers \cup {NoHandler}]]
    /\ \A r \in replies : r.message_type = "reply"
    /\ Len(unsent) \in 0 .. MaxFaults
    /\ service \in {"running", "stopped", "crashed"}
    /\ changes \in 0 .. MaxChanges /\ copies \in 0 .. MaxCopies

Init ==
    /\ name \in Names
    /\ request \in Requests /\ sent = <<>> /\ whole = {}
    /\ wire = {} /\ pack = [i \in Ids |-> <<>>] /\ queue = <<>>
    /\ handlers = [o \in Operations |-> [w \in Tokens |-> NoHandler]]
    /\ called = <<>> /\ replies = {} /\ unsent = <<>> /\ service = "running"
    /\ changes = MaxChanges /\ copies = MaxCopies

---------------------------------------------------------------------------
(* The registry of a hub; the last registration counts.                    *)
SetHandler(o, w, h) ==
    /\ service = "running" /\ changes > 0
    /\ handlers[o][w] # h
    /\ handlers' = [handlers EXCEPT ![o][w] = h]
    /\ changes' = changes - 1
    /\ UNCHANGED <<name, clientVars, wire, receiverVars, outVars, copies>>

register_handler(o, w, h) == h # NoHandler /\ SetHandler(o, w, h)
remove_handler(o, w) == SetHandler(o, w, NoHandler)

---------------------------------------------------------------------------
(* A binding "x.#" matches the keys that begin with the words of x.        *)
Bound == {name, <<Broadcast>>} \cup Children
Routed(key) == \E x \in Bound : IsPrefix(x, key)

(* The client sends its request, with a new reply-to queue and a new       *)
(* timestamp; the message ID is set once, unless the client resets it as   *)
(* the heartbeater does.  The first n parts get published: all, or fewer   *)
(* when publishing one of them fails.                                      *)
Send(reset, n) ==
    LET try == Len(sent) + 1
        id == IF reset \/ request.message_id = 0 THEN try ELSE request.message_id
        message == [request EXCEPT !.message_id = id, !.reply_to = try,
                                   !.timestamp = try]
        parts == create_amqp_messages(message, MaxSize) IN
    /\ try <= MaxSends
    /\ Routed(request.routing_key)
    /\ n <= Len(parts)
    /\ request' = message
    /\ sent' = Append(sent, message)
    /\ whole' = IF parts # <<>> /\ n = Len(parts) THEN whole \cup {try} ELSE whole
    /\ wire' = wire \cup {parts[i] : i \in 1 .. n}
    /\ UNCHANGED <<name, receiverVars, handlers, outVars, changes, copies>>

---------------------------------------------------------------------------
(* The receiver: a part is stored unless its place is taken.               *)
Store(part) ==
    LET id == parse_message_id(part.message_id)
        old == IF pack[id.uuid] # <<>> THEN pack[id.uuid]
               ELSE [i \in 1 .. id.total |-> Missing] IN
    IF old[id.chunk + 1] # Missing THEN old ELSE [old EXCEPT ![id.chunk + 1] = <<part>>]

Join(slots) ==
    queue' = Append(queue, process_message(slots, request.routing_key))

Arrive(part) ==
    LET id == parse_message_id(part.message_id).uuid
        slots == Store(part) IN
    /\ service = "running"
    /\ \/ wire' = wire \ {part} /\ UNCHANGED copies
       \/ copies > 0 /\ copies' = copies - 1 /\ UNCHANGED wire
    /\ IF \A i \in DOMAIN slots : slots[i] # Missing
       THEN Join(slots) /\ pack' = [pack EXCEPT ![id] = <<>>]
       ELSE UNCHANGED queue /\ pack' = [pack EXCEPT ![id] = slots]
    /\ UNCHANGED <<name, clientVars, handlers, outVars, changes>>

TimeOut(id) ==
    /\ service = "running" /\ pack[id] # <<>>
    /\ Join(pack[id])
    /\ pack' = [pack EXCEPT ![id] = <<>>]
    /\ UNCHANGED <<name, clientVars, wire, handlers, outVars, changes, copies>>

---------------------------------------------------------------------------
(* A reply as the client gets it, from its parts; one to a message that    *)
(* could not be decoded has the text of that, and is taken as a whole.     *)
AtClient(r) ==
    LET parts == create_amqp_messages(r, MaxSize) IN
    IF r.return_code = dl_service_error_decoding_fail THEN r
    ELSE process_message([i \in DOMAIN parts |-> <<parts[i]>>], r.routing_key)

(* core::send of a reply.  It may fail before the first part, after some,  *)
(* or, for all it can tell, after the last.                                *)
Sent(r) == replies' = replies \cup {AtClient(r)} /\ UNCHANGED unsent

NotSent(r) ==
    /\ Len(unsent) < MaxFaults
    /\ unsent' = Append(unsent, r)
    /\ replies' \in {replies, replies \cup {AtClient(r)}}

(* send_reply.  The failure is logged, or thrown: a child catches what is  *)
(* thrown, the service does not, and its receiving thread ends.            *)
Reply(r, is_hub) ==
    \/ Sent(r) /\ UNCHANGED service
    \/ NotSent(r) /\ UNCHANGED service
    \/ NotSent(r) /\ is_hub /\ service' = "stopped"

Answer(m, code, is_hub) ==
    Reply(reply(m, code, m.payload), is_hub) /\ UNCHANGED called

\* Mutant: the first word is left in the specifier.
WholeSpecifier(m) == m

WithoutFirst(m) == [m EXCEPT !.specifier = Tail(@)]

(* hub::do_get_request and its siblings.  Without a first word the front   *)
(* of an empty queue is used, which may read as a word nobody registered.  *)
(* A handler's std::out_of_range passes for a missing handler.             *)
hub_do_request(m, o) ==
    IF m.specifier = <<>>
    THEN \/ Answer(m, dl_service_error_bad_payload, TRUE)
         \/ service' = "crashed" /\ UNCHANGED <<called, replies, unsent>>
    ELSE LET word == Head(m.specifier)
             h == IF word \in Tokens THEN handlers[o][word] ELSE NoHandler
             rest == WithoutFirst(m) IN
         IF h = NoHandler THEN Answer(m, dl_service_error_bad_payload, TRUE)
         ELSE /\ called' = Append(called, [handler |-> h, operation |-> o,
                                           request |-> rest])
              /\ \/ \E code \in {dl_success, dl_service_error_bad_payload} :
                      Reply(reply(rest, code, m.payload), TRUE)
                 \/ LET r == reply(rest, dl_unhandled_exception, m.payload) IN
                    (Sent(r) \/ NotSent(r)) /\ service' = "stopped"

(* endpoint::on_request_message, with the requests it handles itself.      *)
endpoint_on_request_message(m, is_hub) ==
    IF ~m.is_valid THEN Answer(m, dl_service_error_decoding_fail, is_hub)
    ELSE IF ~m.lockout_key_valid THEN Answer(m, dl_service_error_invalid_key, is_hub)
    ELSE IF m.message_operation \notin Operations
      THEN Answer(m, dl_service_error_invalid_method, is_hub)
    ELSE IF m.specifier # <<>> /\ Head(m.specifier) \in BuiltIn[m.message_operation]
      THEN Answer(m, dl_success, is_hub)
    ELSE IF is_hub THEN hub_do_request(m, m.message_operation)
    ELSE Answer(m, dl_service_error_invalid_method, FALSE)

\* Mutant: broadcasts are forgotten.
NameOnly == {name}

Own == {name, <<Broadcast>>}

(* service::on_request_message: the first word decides.  A child handles   *)
(* what every endpoint does.  A reply-to is always there.                  *)
Handle ==
    /\ service = "running" /\ queue # <<>>
    /\ queue' = Tail(queue)
    /\ LET m == Head(queue)
           first == <<FirstToken(m.routing_key)>> IN
         IF first \in Own THEN endpoint_on_request_message(m, TRUE)
         ELSE IF first \in Children THEN endpoint_on_request_message(m, FALSE)
         ELSE service' = "stopped" /\ UNCHANGED <<called, replies, unsent>>
    /\ UNCHANGED <<name, clientVars, wire, pack, handlers, changes, copies>>

Next ==
    \/ \E o \in Operations, w \in Tokens, h \in Handlers : register_handler(o, w, h)
    \/ \E o \in Operations, w \in Tokens : remove_handler(o, w)
    \/ \E reset \in BOOLEAN, n \in 0 .. BodyLength[request.payload] : Send(reset, n)
    \/ \E part \in wire : Arrive(part)
    \/ \E id \in Ids : TimeOut(id)
    \/ Handle

Spec == Init /\ [][Next]_vars

---------------------------------------------------------------------------
(* PROPERTIES *)

(* A message that the service takes for valid, with a valid lockout key,   *)
(* is one that was sent, in all that operator== compares, though its parts *)
(* may come from two sendings, in any order, twice, or after the first of  *)
(* them was given up as too late.                                          *)
ReceivedAsSent ==
    \A i \in 1 .. Len(queue) :
      queue[i].is_valid /\ queue[i].lockout_key_valid
        => \E t \in 1 .. Len(sent) : Same(queue[i], sent[t])

(* A message is found invalid only when it was given up as too late with a *)
(* part missing: all the parts of a message, in whatever order and from    *)
(* whatever sendings they came, are joined to a text that can be decoded.  *)
InvalidIsGivenUp ==
    [][Len(queue') > Len(queue) /\ ~Last(queue').is_valid =>
         /\ UNCHANGED <<wire, copies>>
         /\ ~IsComplete(pack[Last(queue').message_id])]_vars

(* A handler is called only for a request that has arrived whole and has a *)
(* valid key: the one registered last for the operation and the first word *)
(* of the specifier that the client wrote, with the rest of it.            *)
HandlerIsRegistered ==
    [][called' # called =>
         LET c == Last(called') IN
         /\ request.specifier = <<Head(request.specifier)>> \o c.request.specifier
         /\ c.handler = handlers[request.message_operation][Head(request.specifier)]
         /\ c.request.payload = request.payload
         /\ request.lockout_key # "malformed"]_vars

(* No request that the broker routes to the service ends its thread, but   *)
(* one whose handler throws, one for itself whose reply cannot be sent, or *)
(* one addressed to a name with a dot in it, which is bound as a whole and *)
(* looked up by its first word.  Only one without a specifier can crash it.*)
DispatchStopCause ==
    [][service' # service =>
         LET for == <<FirstToken(request.routing_key)>> IN
         /\ service = "running" /\ queue # <<>>
         /\ service' = "stopped" =>
              \/ called' # called
              \/ unsent' # unsent /\ for \in {name, <<Broadcast>>}
              \/ /\ for \notin {name, <<Broadcast>>} \cup Children
                 /\ \E x \in Bound : Len(x) > 1 /\ IsPrefix(x, request.routing_key)
         /\ service' = "crashed" => request.specifier = <<>>]_vars

(* When nothing is on its way any more, the last sending, if it was whole, *)
(* has a reply in its own reply-to queue, with the request's correlation   *)
(* ID, unless sending a reply to that queue failed, or an earlier sending  *)
(* had the same message ID: then parts of the two are joined and the       *)
(* earlier queue may get it.                                               *)
ReplyFindsClient ==
    /\ wire = {} /\ queue = <<>> /\ \A id \in Ids : pack[id] = <<>>
    /\ service = "running" /\ Len(sent) \in whole
    => \/ \E r \in replies : /\ r.routing_key = <<Len(sent)>>
                            /\ r.correlation_id = request.correlation_id
       \/ \E i \in 1 .. Len(unsent) : unsent[i].routing_key = <<Len(sent)>>
       \/ \E t \in 1 .. Len(sent) - 1 : sent[t].message_id = request.message_id

===========================================================================
