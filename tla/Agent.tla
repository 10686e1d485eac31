------------------------------- MODULE Agent -------------------------------
(***************************************************************************)
(* One execution of the agent (library/agent.cc): it sends a request, a    *)
(* reply or an alert in chunks (core::do_send), waits for the reply to a   *)
(* request (receiver::wait_for_reply) and ends with a return code.         *)
(*                                                                         *)
(* The services that get the request, the broker, the user and the clock   *)
(* are the environment.  A request may be a broadcast, so that several     *)
(* services answer it, each with one reply of ReplyChunks chunks.  Times   *)
(* are in units of which Modulus replaces the 2^32 values of an unsigned   *)
(* number of milliseconds.                                                 *)
(***************************************************************************)
EXTENDS Integers, FiniteSets, ReturnCodes

CONSTANTS Services,       \* those the request may reach
          Jobs,           \* what the agent may be asked to do
          ReplyChunks,    \* chunks of a reply
          ListenTimeout,  \* f_reply_listen_timeout_ms
          Modulus,        \* values of an unsigned integer
          MaxFaults,      \* bound: failures of the broker and of senders
          MaxCopies       \* bound: chunks that arrive again

(* badConfig: the constructor of core throws, as it does for return codes  *)
(* that it cannot read or add; bad: create_request returns a null pointer; *)
(* chunks: the number that create_amqp_messages gives, 0 when it catches   *)
(* an error; save: whether the payload of the reply is to be written, and  *)
(* can be.                                                                 *)
JobType == [kind : {"request", "reply", "alert"}, badConfig : BOOLEAN,
            badKey : BOOLEAN, bad : BOOLEAN, dryRun : BOOLEAN, offline : BOOLEAN,
            timeout : Nat, chunks : Nat, save : {"no", "possible", "impossible"}]

ASSUME AgentAssumption ==
    /\ IsFiniteSet(Services)
    /\ Jobs \subseteq JobType
    /\ ReplyChunks \in Nat \ {0}
    /\ ListenTimeout \in Nat \ {0}
    /\ Modulus \in Nat \ {0}
    /\ MaxFaults \in Nat /\ MaxCopies \in Nat

VARIABLES job,        \* the configuration of this execution
          main,       \* where the agent is
          channel,    \* "none", "open", "broken"
          published,  \* chunks of its message that the broker has
          answer,     \* what each service has answered
          inbox,      \* chunks in the reply-to queue, by sender and index
          pack,       \* f_incoming_messages: the chunks stored
          received,   \* f_chunks_received of each pack
          reply,      \* t_reply: its sender and the chunks it was made of
          status,     \* t_post_listen_status
          canceled,   \* the receiver is canceled
          elapsed,    \* time since wait_for_reply was called
          slice,      \* time left of one call of listen_for_message
          return,     \* f_return
          faults, copies

sendVars == <<channel, published>>
replyVars == <<answer, inbox>>
waitVars == <<pack, received, reply, status>>
clockVars == <<elapsed, slice>>
vars == <<job, main, sendVars, replyVars, waitVars, canceled, clockVars, return,
          faults, copies>>

Indices == 1 .. ReplyChunks
NoReply == [from |-> {}, chunks |-> {}]

(* Seconds to milliseconds in an unsigned, passed as an int.               *)
Timeout ==
    LET ms == job.timeout % Modulus IN
    IF 2 * ms >= Modulus THEN ms - Modulus ELSE ms

ChunkTimeout ==
    IF Timeout > 0 /\ Timeout < ListenTimeout THEN Timeout ELSE ListenTimeout

Waiting == {"wait", "listening", "after", "report"}

TypeOK ==
    /\ job \in Jobs
    /\ main \in {"execute", "create", "open", "exchange", "queue", "convert",
                 "publish", "done", "escaped"} \cup Waiting
    /\ channel \in {"none", "open", "broken"}
    /\ published \in 0 .. job.chunks
    /\ answer \in [Services -> {"none", "success", "failure", "alien", "broken",
                               "misnamed"}]
    /\ inbox \subseteq Services \X Indices
    /\ pack \in [Services -> SUBSET Indices]
    /\ received \in [Services -> 0 .. ReplyChunks]
    /\ reply \in [from : {{}} \cup {{s} : s \in Services}, chunks : SUBSET Indices]
    /\ status \in {"unknown", "timeout", "soft_error", "hard_error",
                   "message_received"}
    /\ canceled \in BOOLEAN
    /\ elapsed \in Nat /\ elapsed <= Modulus
    /\ slice \in 0 .. ListenTimeout
    /\ return \in Nat
    /\ faults \in 0 .. MaxFaults /\ copies \in 0 .. MaxCopies

Init ==
    /\ job \in Jobs
    /\ main = "execute" /\ channel = "none" /\ published = 0
    /\ answer = [s \in Services |-> "none"]
    /\ inbox = {}
    /\ pack = [s \in Services |-> {}] /\ received = [s \in Services |-> 0]
    /\ reply = NoReply /\ status = "unknown"
    /\ canceled = FALSE /\ elapsed = 0 /\ slice = 0
    /\ return = dl_client_error
    /\ faults = MaxFaults /\ copies = MaxCopies

---------------------------------------------------------------------------
Goto(m) == main' = m /\ UNCHANGED return
Exit(code) == main' = "done" /\ return' = code
Fault == faults > 0 /\ faults' = faults - 1

\* Mutant: the exception of the UUID generator is not caught.
KeyThrows == Goto("escaped")

KeyIsRefused == Exit(dl_client_error)

(* sub_agent::execute                                                      *)
Execute ==
    /\ main = "execute"
    /\ IF job.badConfig THEN Goto("escaped")
       ELSE IF job.badKey THEN KeyIsRefused
       ELSE Goto("create")
    /\ UNCHANGED <<job, sendVars, replyVars, waitVars, canceled, clockVars,
                   faults, copies>>

(* core::send of the message that was made: a dry run prints it; when      *)
(* offline the message is thrown as a pointer to its own type, which no    *)
(* handler matches.                                                        *)
SendOff ==
    /\ IF job.dryRun THEN Exit(dl_warning_dry_run)
       ELSE Goto(IF job.offline THEN "escaped" ELSE "open")
    /\ UNCHANGED <<job, sendVars, replyVars, waitVars, canceled, clockVars,
                   faults, copies>>

CreateRequest ==
    /\ main = "create" /\ job.kind = "request" /\ ~job.bad
    /\ SendOff

(* The payload of a null request is logged before the pointer is tested,   *)
(* which a build without debug output leaves out.                          *)
CreateNothing ==
    /\ main = "create" /\ job.kind = "request" /\ job.bad
    /\ Exit(dl_client_error_invalid_request) \/ Goto("escaped")
    /\ UNCHANGED <<job, sendVars, replyVars, waitVars, canceled, clockVars,
                   faults, copies>>

CreateReply ==
    /\ main = "create" /\ job.kind = "reply"
    /\ SendOff

CreateAlert ==
    /\ main = "create" /\ job.kind = "alert"
    /\ SendOff

---------------------------------------------------------------------------
(* core::do_send                                                           *)
Open ==
    /\ main = "open"
    /\ \/ channel' = "open" /\ Goto("exchange") /\ UNCHANGED faults
       \/ Fault /\ Exit(dl_amqp_error_broker_connection) /\ UNCHANGED channel
    /\ UNCHANGED <<job, published, replyVars, waitVars, canceled, clockVars,
                   copies>>

Exchange ==
    /\ main = "exchange"
    /\ \/ Goto(IF job.kind = "request" THEN "queue" ELSE "convert")
          /\ UNCHANGED faults
       \/ Fault /\ Exit(dl_client_error_unable_to_send)
    /\ UNCHANGED <<job, sendVars, replyVars, waitVars, canceled, clockVars,
                   copies>>

(* The reply-to queue; these calls are outside the try block.              *)
ReplyQueue ==
    /\ main = "queue"
    /\ \/ Goto("convert") /\ UNCHANGED faults
       \/ Fault /\ Goto("escaped")
    /\ UNCHANGED <<job, sendVars, replyVars, waitVars, canceled, clockVars,
                   copies>>

Convert ==
    /\ main = "convert"
    /\ IF job.chunks = 0 THEN Exit(dl_client_error_unable_to_send)
       ELSE Goto("publish")
    /\ UNCHANGED <<job, sendVars, replyVars, waitVars, canceled, clockVars,
                   faults, copies>>

(* f_successful_send is set after the last chunk.                          *)
Publish ==
    /\ main = "publish"
    /\ published' = published + 1
    /\ IF published + 1 < job.chunks THEN UNCHANGED <<main, return>>
       ELSE IF job.kind = "request" THEN Goto("wait") ELSE Exit(dl_success)
    /\ UNCHANGED <<job, channel, replyVars, waitVars, canceled, clockVars,
                   faults, copies>>

\* Mutant: f_successful_send is set before the chunks are published.
FlagSetFirst == {dl_success}

SendErrors == {dl_amqp_error_broker_connection, dl_client_error_unable_to_send}

(* The connection is closed, the library fails or the message is returned; *)
(* the broker may have taken the chunk all the same.                       *)
PublishFails ==
    /\ main = "publish"
    /\ Fault
    /\ published' \in {published, published + 1}
    /\ \E code \in SendErrors : Exit(code)
    /\ UNCHANGED <<job, channel, replyVars, waitVars, canceled, clockVars,
                   copies>>

---------------------------------------------------------------------------
\* Mutant: the deadline is not looked at.
UntilCanceled == canceled

LoopIsOver == canceled \/ (Timeout # 0 /\ elapsed >= Timeout)

(* receiver::wait_for_reply: the condition of the loop.                    *)
LoopCheck ==
    /\ main = "wait"
    /\ IF LoopIsOver
       THEN Goto("after") /\ UNCHANGED slice
       ELSE Goto("listening") /\ slice' = ChunkTimeout
    /\ UNCHANGED <<job, sendVars, replyVars, waitVars, canceled, elapsed,
                   faults, copies>>

(* process_received_reply.  A conversion that throws leaves the pack.      *)
Process(s) ==
    /\ Goto("report")
    /\ reply' = IF answer[s] \in {"success", "failure"}
                THEN [from |-> {s}, chunks |-> pack'[s]] ELSE reply

\* Mutant: a duplicate is counted.
AnyChunk(s, i) == TRUE

IsNew(s, i) == i \notin pack[s]

(* parse_message_id of something that is no message ID: without separators *)
(* it throws a dripline_error, which ends the wait; what std::stoul throws *)
(* for parts that are no numbers is caught nowhere.                        *)
ParseFails ==
    /\ \/ status' = "soft_error" /\ Goto("report")
       \/ status' = "message_received" /\ Goto("escaped")
    /\ UNCHANGED <<pack, received, reply>>

(* A chunk arrives: a new one, one that the pack has already, or something *)
(* without a proper message ID.                                            *)
ListenMessage ==
    /\ main = "listening" /\ channel = "open"
    /\ \E c \in inbox :
         LET s == c[1]
             fresh == IsNew(s, c[2])
             all == received[s] + 1 = ReplyChunks IN
         /\ inbox' = inbox \ {c}
         /\ IF canceled
            THEN /\ status' = "message_received" /\ Goto("report")
                 /\ UNCHANGED <<pack, received, reply>>
            ELSE IF answer[s] = "misnamed" THEN ParseFails
            ELSE /\ status' = "message_received"
                 /\ pack' = [pack EXCEPT ![s] = @ \cup {c[2]}]
                 /\ received' = [received EXCEPT ![s] = @ + (IF fresh THEN 1 ELSE 0)]
                 /\ IF fresh /\ all THEN Process(s)
                    ELSE Goto("wait") /\ UNCHANGED reply
    /\ UNCHANGED <<job, sendVars, answer, canceled, clockVars, faults, copies>>

\* Mutant: one call without a chunk ends the wait.
AtOnce == "report"

NextCall == IF canceled THEN "report" ELSE "wait"

ListenNothing ==
    /\ main = "listening"
    /\ \/ slice = 0 /\ status' = "timeout"
       \/ channel = "open" /\ status' = "soft_error"
    /\ Goto(NextCall)
    /\ UNCHANGED <<job, sendVars, replyVars, pack, received, reply, canceled,
                   clockVars, faults, copies>>

ListenFails ==
    /\ main = "listening" /\ channel = "broken"
    /\ status' = "hard_error"
    /\ Goto("report")
    /\ UNCHANGED <<job, sendVars, replyVars, pack, received, reply, canceled,
                   clockVars, faults, copies>>

(* The clock and the cancellation are read a second time after the loop.   *)
AfterLoop ==
    /\ main = "after"
    /\ Goto("report")
    /\ status' = IF ~canceled /\ elapsed > Timeout THEN "timeout" ELSE status
    /\ UNCHANGED <<job, sendVars, replyVars, pack, received, reply, canceled,
                   clockVars, faults, copies>>

---------------------------------------------------------------------------
(* The rest of sub_agent_request::create_and_send_message.                 *)
CodeOf(s) == IF answer[s] = "success" THEN dl_success ELSE dl_service_error

Report ==
    /\ main = "report"
    /\ Exit(IF canceled THEN dl_success
            ELSE IF reply # NoReply
              THEN IF job.save = "impossible" THEN dl_client_error_handling_reply
                   ELSE CodeOf(CHOOSE s \in Services : reply.from = {s})
            ELSE IF status = "timeout" THEN dl_client_error_timeout
            ELSE dl_client_error)
    /\ UNCHANGED <<job, sendVars, replyVars, waitVars, canceled, clockVars,
                   faults, copies>>

---------------------------------------------------------------------------
(* The environment.  A service that has got at least a part of the request *)
(* answers (only with an error if it has not got it all), or something     *)
(* else is sent to the reply-to queue: another kind of message, one that   *)
(* cannot be converted, or one with an ID that cannot be parsed; a sender  *)
(* may fail half-way.                                                      *)
Answer(s) ==
    /\ job.kind = "request" /\ published > 0 /\ answer[s] = "none"
    /\ main # "done"
    /\ \E a \in {"success", "failure", "alien", "broken", "misnamed"},
         part \in SUBSET Indices :
         /\ a = "success" => published = job.chunks
         /\ IF part = Indices /\ a \in {"success", "failure"} THEN UNCHANGED faults
            ELSE Fault
         /\ answer' = [answer EXCEPT ![s] = a]
         /\ inbox' = inbox \cup ({s} \X part)
    /\ UNCHANGED <<job, main, sendVars, waitVars, canceled, clockVars, return,
                   copies>>

ArrivesAgain ==
    /\ main \in Waiting /\ copies > 0
    /\ copies' = copies - 1
    /\ \E s \in Services, i \in Indices : i \in pack[s] /\ inbox' = inbox \cup {<<s, i>>}
    /\ UNCHANGED <<job, main, sendVars, answer, waitVars, canceled, clockVars,
                   return, faults>>

LoseConnection ==
    /\ main \in Waiting /\ channel = "open"
    /\ Fault
    /\ channel' = "broken"
    /\ UNCHANGED <<job, main, published, replyVars, waitVars, canceled,
                   clockVars, return, copies>>

Interrupt ==
    /\ main \in Waiting /\ ~canceled
    /\ canceled' = TRUE
    /\ UNCHANGED <<job, main, sendVars, replyVars, waitVars, clockVars, return,
                   faults, copies>>

(* Beyond the deadline elapsed does not matter, nor without one.           *)
Tick ==
    /\ main \in Waiting
    /\ slice > 0 \/ (Timeout > 0 /\ elapsed <= Timeout)
    /\ slice' = IF slice > 0 THEN slice - 1 ELSE 0
    /\ elapsed' = IF Timeout > 0 /\ elapsed <= Timeout THEN elapsed + 1 ELSE elapsed
    /\ UNCHANGED <<job, main, sendVars, replyVars, waitVars, canceled, return,
                   faults, copies>>

AgentStep ==
    \/ Execute \/ CreateRequest \/ CreateNothing \/ CreateReply \/ CreateAlert
    \/ Open \/ Exchange \/ ReplyQueue \/ Convert
    \/ Publish \/ PublishFails \/ LoopCheck \/ ListenMessage \/ ListenNothing
    \/ ListenFails \/ AfterLoop \/ Report

Next ==
    \/ AgentStep
    \/ \E s \in Services : Answer(s)
    \/ ArrivesAgain \/ LoseConnection \/ Interrupt \/ Tick

Spec == Init /\ [][Next]_vars

(* The agent's thread is scheduled and time passes.                        *)
FairSpec == Spec /\ WF_vars(AgentStep) /\ WF_vars(Tick)

---------------------------------------------------------------------------
(* PROPERTIES *)

(* The reply that is reported consists of all the chunks of one reply,     *)
(* each once, whatever arrives in what order, in part or twice.            *)
ReplyIsWhole ==
    reply # NoReply =>
      /\ reply.chunks = Indices
      /\ \E s \in Services : reply.from = {s} /\ answer[s] \in {"success", "failure"}

(* The agent's exit status is that of success only after a dry run, or for *)
(* a message that the broker has whole and, if it is a request, that a     *)
(* service has answered with success, or the user stopped waiting for.  So *)
(* a message of which only some chunks, or none because its body is empty, *)
(* were published is always reported as not sent.                          *)
SuccessCause ==
    main = "done" /\ Class(return) = Class(dl_success) =>
      \/ job.dryRun /\ published = 0
      \/ /\ job.chunks > 0 /\ published = job.chunks
         /\ job.kind = "request" => \/ canceled
                                    \/ \E s \in Services : answer[s] = "success"
                                                           /\ reply.from = {s}

(* After a request was sent, a timeout is reported only when the time given *)
(* has passed without a complete reply among the chunks consumed, or when  *)
(* that time is not an int of milliseconds (agent.cc:84): then at once.    *)
(* The generic error is reported only when the connection was lost,        *)
(* something else than a reply came, or the second look at the clock found *)
(* the deadline reached to the tick, when the last call did not time out   *)
(* (it had a soft error or a chunk, or there was none).                    *)
FailureCause ==
    /\ main = "done" /\ return = dl_client_error_timeout =>
         /\ elapsed >= job.timeout \/ 2 * job.timeout >= Modulus
         /\ \A s \in Services : pack[s] # Indices
    /\ main = "done" /\ return = dl_client_error /\ published > 0 =>
         \/ channel = "broken"
         \/ \E s \in Services : answer[s] \in {"alien", "broken", "misnamed"}
         \/ elapsed >= Timeout /\ status # "timeout"

(* An exception leaves the agent either before any part of the message was *)
(* published, for a configuration that core refuses, a request that is     *)
(* null, offline, or when the reply-to queue cannot be set up; or when the *)
(* message was published in whole and, before a reply was complete and     *)
(* with the wait not canceled, something with an ID that cannot be parsed  *)
(* came to the reply-to queue.                                             *)
EscapeCause ==
    main = "escaped" =>
      \/ /\ published = 0
         /\ \/ job.badConfig \/ job.bad \/ job.offline
            \/ channel = "open" /\ faults < MaxFaults
      \/ /\ published = job.chunks /\ reply = NoReply /\ ~canceled
         /\ \E s \in Services : answer[s] = "misnamed"

(* What the handlers say: "Operating in offline mode; message not sent".   *)
OfflineIsReported == main = "escaped" => ~job.offline

(* With a timeout the agent ends, canceled or not; without one it ends     *)
(* when it is canceled.                                                    *)
WaitEnds ==
    main \in Waiting /\ (Timeout # 0 \/ canceled) ~> main \in {"done", "escaped"}

===========================================================================
