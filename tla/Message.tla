------------------------------ MODULE Message ------------------------------
(***************************************************************************)
(* Dripline messages and the AMQP messages they are split into             *)
(* (library/message.cc), specifiers and routing keys                       *)
(* (library/specifier.cc), and UUIDs (library/uuid.cc), as operators.      *)
(*                                                                         *)
(* A string in which separators matter is the sequence of the words        *)
(* between them: <<"a", "b">> is "a.b" and <<"">> the empty string.  The   *)
(* JSON text of payload p is a sequence of BodyLength[p] characters that   *)
(* occur in no other text.                                                 *)
(***************************************************************************)
EXTENDS Naturals, Sequences, SequencesExt, ReturnCodes

CONSTANTS Payloads,      \* what can be sent
          BodyLength     \* length of the encoded payload

ASSUME MessageAssumption == BodyLength \in [Payloads -> Nat]

---------------------------------------------------------------------------
(* specifier and routing_key: queues of words.                             *)
EmptyString == <<"">>

parse(string) == IF string = EmptyString THEN <<>> ELSE string

to_string(specifier) == IF specifier = <<>> THEN EmptyString ELSE specifier

FirstToken(string) == Head(string)

(* uuid_from_string with a flag, and string_from_uuid.                     *)
uuid_from_string(string) ==
    [key |-> IF string \in {"", "malformed"} THEN "nil" ELSE string,
     valid |-> string # "malformed"]

---------------------------------------------------------------------------
\* Mutant: the number of parts is rounded down.
FullParts(p, max) ==
    [i \in 1 .. BodyLength[p] \div max |->
       SubSeq([j \in 1 .. BodyLength[p] |-> <<p, j>>], (i - 1) * max + 1, i * max)]

(* encode_message_body: the text in parts of at most max characters.       *)
Encoded(p) == [i \in 1 .. BodyLength[p] |-> <<p, i>>]

encode_message_body(p, max) ==
    LET text == Encoded(p)
        n == (Len(text) + max - 1) \div max
        last(i) == IF i = n THEN Len(text) ELSE i * max IN
    [i \in 1 .. n |-> SubSeq(text, (i - 1) * max + 1, last(i))]

(* The header table; a request and a reply add their own fields.           *)
Header(m) ==
    [message_type |-> m.message_type, specifier |-> to_string(m.specifier),
     timestamp |-> m.timestamp, message_operation |-> m.message_operation,
     lockout_key |-> m.lockout_key, return_code |-> m.return_code]

create_amqp_messages(m, max) ==
    LET parts == encode_message_body(m.payload, max) IN
    [i \in 1 .. Len(parts) |->
       [message_id |-> <<m.message_id, i - 1, Len(parts)>>,
        correlation_id |-> m.correlation_id, reply_to |-> m.reply_to,
        header |-> Header(m), body |-> parts[i]]]

(* The words between separators: the first, the second and the last.       *)
parse_message_id(id) == [uuid |-> id[1], chunk |-> id[2], total |-> id[Len(id)]]

---------------------------------------------------------------------------
(* process_message.  A slot is a sequence of at most one part; a part that *)
(* is missing is filled with as many hashes as the first one there has     *)
(* characters.                                                             *)
Missing == <<>>
Hash == <<>>
IsComplete(slots) == \A i \in DOMAIN slots : slots[i] # Missing

Filled(slots, fill) ==
    FlattenSeq([i \in DOMAIN slots |->
                  IF slots[i] = Missing THEN [j \in 1 .. fill |-> Hash]
                  ELSE slots[i][1].body])

(* The text of all the parts is decoded without an error.                  *)
Decodable(slots, text) ==
    IsComplete(slots) /\ \E p \in Payloads : text = Encoded(p)

(* Text that cannot be decoded is kept, as an invalid payload.             *)
Decoded(slots, text) ==
    IF Decodable(slots, text) THEN CHOOSE p \in Payloads : text = Encoded(p)
    ELSE [invalid |-> text]

\* Mutant: a text that cannot be decoded is taken for a payload.
AnyText(slots, text) == TRUE

Readable(slots, text) == Decodable(slots, text)

process_message(slots, routing_key) ==
    LET first == FlattenSeq(slots)[1]
        text == Filled(slots, Len(first.body))
        key == uuid_from_string(first.header.lockout_key) IN
    [message_type |-> first.header.message_type, routing_key |-> routing_key,
     correlation_id |-> first.correlation_id,
     message_id |-> parse_message_id(first.message_id).uuid,
     reply_to |-> first.reply_to, specifier |-> parse(first.header.specifier),
     timestamp |-> first.header.timestamp,
     message_operation |-> first.header.message_operation,
     lockout_key |-> key.key, lockout_key_valid |-> key.valid,
     return_code |-> first.header.return_code,
     payload |-> Decoded(slots, text), is_valid |-> Readable(slots, text)]

---------------------------------------------------------------------------
(* msg_request::create, and msg_request::reply with msg_reply::create.     *)
NewRequest(payload, operation, routing_key, specifier, key, correlation_id) ==
    [message_type |-> "request", routing_key |-> routing_key,
     correlation_id |-> correlation_id, message_id |-> 0, reply_to |-> 0,
     specifier |-> parse(specifier), timestamp |-> 0,
     message_operation |-> operation, lockout_key |-> key,
     lockout_key_valid |-> TRUE, return_code |-> dl_success,
     payload |-> payload, is_valid |-> TRUE]

\* Mutant: reply-to and correlation ID are confused.
CorrelationKey(request) == <<request.correlation_id>>

ReplyKey(request) == <<request.reply_to>>

reply(request, code, payload) ==
    [request EXCEPT !.message_type = "reply", !.routing_key = ReplyKey(request),
                    !.message_id = 0, !.reply_to = 0, !.specifier = <<>>,
                    !.message_operation = "none", !.lockout_key = "nil",
                    !.lockout_key_valid = TRUE, !.return_code = code,
                    !.payload = payload, !.is_valid = TRUE]

(* operator== of messages compares neither the message ID nor is_valid.    *)
Compared(m) == [m EXCEPT !.message_id = 0, !.is_valid = TRUE]
Same(m, n) == Compared(m) = Compared(n)

===========================================================================
