---------------------------- MODULE AgentProofs ----------------------------
(***************************************************************************)
(* Proofs about module Agent, for any services, jobs, numbers of chunks,   *)
(* times and faults.  Inv relates where the agent is to what was           *)
(* published, what its packs hold, and why the wait for the reply ended.   *)
(***************************************************************************)
EXTENDS Agent, FiniteSetTheorems, TLAPS

BeforeSend == {"execute", "create", "open", "exchange", "queue", "convert"}

(* The counter of a pack is the number of its distinct chunks; what is in  *)
(* a pack or in the reply-to queue was sent by a service.                  *)
PacksOK ==
    /\ \A s \in Services : received[s] = Cardinality(pack[s])
    /\ \A c \in inbox : answer[c[1]] # "none"
    /\ \A s \in Services : pack[s] # {} => answer[s] # "none"

(* What was published when a stage begins.                                 *)
StageOK ==
    /\ main \in BeforeSend => published = 0
    /\ main \in {"exchange", "queue", "convert"} => channel = "open"
    /\ main = "publish" => published < job.chunks
    /\ main \in Waiting => /\ job.kind = "request"
                           /\ job.chunks > 0 /\ published = job.chunks

(* A complete pack ends the wait, and only that gives a reply.             *)
CompleteOK ==
    /\ \A s \in Services :
         pack[s] = Indices => main \in {"report", "done"} /\ status = "message_received"
    /\ reply # NoReply => main \in {"report", "done"}

DeadlineReached == Timeout # 0 /\ elapsed >= Timeout

NothingComplete == reply = NoReply /\ \A s \in Services : pack[s] # Indices

(* Why the wait has ended, unless the user canceled it.                    *)
ReasonOK ==
    /\ main = "after" /\ ~canceled => DeadlineReached
    /\ main = "report" /\ ~canceled =>
         \/ status = "hard_error" /\ channel = "broken"
         \/ status = "message_received" /\ reply # NoReply
         \/ /\ status \in {"message_received", "soft_error"}
            /\ \E s \in Services : answer[s] \in {"alien", "broken", "misnamed"}
         \/ DeadlineReached

Inv ==
    /\ TypeOK /\ PacksOK /\ StageOK /\ CompleteOK /\ ReasonOK
    /\ ReplyIsWhole /\ SuccessCause /\ FailureCause /\ EscapeCause

---------------------------------------------------------------------------
(* Facts about the constants, the times and the codes.                     *)
LEMMA Constants ==
    /\ IsFiniteSet(Services) /\ Jobs \subseteq JobType
    /\ ReplyChunks \in Nat /\ ReplyChunks > 0
    /\ ListenTimeout \in Nat /\ ListenTimeout > 0
    /\ Modulus \in Nat /\ Modulus > 0
    /\ MaxFaults \in Nat /\ MaxCopies \in Nat
BY AgentAssumption DEF AgentAssumption

LEMMA JobFields ==
    ASSUME TypeOK
    PROVE  /\ job \in JobType /\ job.timeout \in Nat /\ job.chunks \in Nat
           /\ job.kind \in {"request", "reply", "alert"}
           /\ job.dryRun \in BOOLEAN /\ job.offline \in BOOLEAN
           /\ job.bad \in BOOLEAN /\ job.badKey \in BOOLEAN /\ job.badConfig \in BOOLEAN
BY Constants DEF TypeOK, JobType

LEMMA TimeoutRange ==
    ASSUME TypeOK
    PROVE  /\ Timeout \in Int /\ Timeout < Modulus
           /\ 2 * job.timeout < Modulus => Timeout = job.timeout
           /\ ChunkTimeout \in 0 .. ListenTimeout
<1>1. job.timeout \in Nat
  BY JobFields
<1>2. job.timeout % Modulus \in 0 .. (Modulus - 1)
  BY <1>1, Constants
<1>3. 2 * job.timeout < Modulus => job.timeout % Modulus = job.timeout
  BY <1>1, Constants
<1>4. Timeout \in Int /\ Timeout < Modulus
      /\ (2 * job.timeout < Modulus => Timeout = job.timeout)
  BY <1>1, <1>2, <1>3, Constants DEF Timeout
<1>5. QED
  BY <1>4, Constants DEF ChunkTimeout

LEMMA TimeFixed ==
    ASSUME job' = job
    PROVE  Timeout' = Timeout /\ ChunkTimeout' = ChunkTimeout
BY DEF Timeout, ChunkTimeout

LEMMA Codes ==
    /\ Class(dl_success) = 0 /\ Class(dl_warning_dry_run) = 0
    /\ Class(dl_amqp_error_broker_connection) # 0 /\ Class(dl_service_error) # 0
    /\ Class(dl_client_error) # 0 /\ Class(dl_client_error_invalid_request) # 0
    /\ Class(dl_client_error_handling_reply) # 0
    /\ Class(dl_client_error_unable_to_send) # 0
    /\ Class(dl_client_error_timeout) # 0
BY DEF Class, dl_success, dl_warning_dry_run, dl_amqp_error_broker_connection,
   dl_service_error, dl_client_error, dl_client_error_invalid_request,
   dl_client_error_handling_reply, dl_client_error_unable_to_send,
   dl_client_error_timeout

(* Codes that are neither of the two that FailureCause is about.           *)
LEMMA OtherCodes ==
    /\ dl_client_error # dl_client_error_timeout
    /\ \A c \in {dl_success, dl_warning_dry_run, dl_amqp_error_broker_connection,
                 dl_service_error, dl_client_error_invalid_request,
                 dl_client_error_handling_reply, dl_client_error_unable_to_send} :
         c # dl_client_error /\ c # dl_client_error_timeout
BY DEF dl_success, dl_warning_dry_run, dl_amqp_error_broker_connection,
   dl_service_error, dl_client_error, dl_client_error_invalid_request,
   dl_client_error_handling_reply, dl_client_error_unable_to_send,
   dl_client_error_timeout

LEMMA CodesAreNat ==
    \A c \in {dl_success, dl_warning_dry_run, dl_amqp_error_broker_connection,
              dl_service_error, dl_client_error, dl_client_error_invalid_request,
              dl_client_error_handling_reply, dl_client_error_unable_to_send,
              dl_client_error_timeout} : c \in Nat
BY DEF dl_success, dl_warning_dry_run, dl_amqp_error_broker_connection,
   dl_service_error, dl_client_error, dl_client_error_invalid_request,
   dl_client_error_handling_reply, dl_client_error_unable_to_send,
   dl_client_error_timeout

LEMMA IndicesFinite ==
    IsFiniteSet(Indices) /\ Cardinality(Indices) = ReplyChunks /\ Indices # {}
<1>1. IsFiniteSet(1 .. ReplyChunks) /\ Cardinality(1 .. ReplyChunks) = ReplyChunks
  BY FS_Interval, Constants
<1>2. 1 \in 1 .. ReplyChunks
  BY Constants
<1>3. QED
  BY <1>1, <1>2 DEF Indices

---------------------------------------------------------------------------
LEMMA InitInv == Init => Inv
<1> SUFFICES ASSUME Init PROVE Inv
  OBVIOUS
<1> USE DEF Init
<1>1. TypeOK
  <2>1. return \in Nat /\ elapsed \in Nat /\ elapsed <= Modulus
        /\ slice \in 0 .. ListenTimeout
    BY CodesAreNat, Constants
  <2>2. published \in 0 .. job.chunks
    BY Constants DEF JobType
  <2>3. received \in [Services -> 0 .. ReplyChunks] /\ faults \in 0 .. MaxFaults
        /\ copies \in 0 .. MaxCopies
    BY Constants
  <2>4. QED
    BY <2>1, <2>2, <2>3 DEF TypeOK, NoReply
<1>2. PacksOK
  BY FS_EmptySet DEF PacksOK
<1>3. StageOK /\ ReasonOK
  BY DEF StageOK, ReasonOK, Waiting
<1>4. CompleteOK
  BY IndicesFinite DEF CompleteOK
<1>5. ReplyIsWhole /\ SuccessCause /\ FailureCause /\ EscapeCause
  BY DEF ReplyIsWhole, SuccessCause, FailureCause, EscapeCause
<1>6. QED
  BY <1>1, <1>2, <1>3, <1>4, <1>5 DEF Inv

---------------------------------------------------------------------------
(* Before the first chunk is published: nothing was, and a failure says so.*)
Prelude ==
    \/ Execute \/ CreateRequest \/ CreateNothing \/ CreateReply \/ CreateAlert
    \/ Open \/ Exchange \/ ReplyQueue \/ Convert

SendFailures == {dl_client_error_invalid_request, dl_amqp_error_broker_connection,
                 dl_client_error_unable_to_send}

LEMMA PreludeFrame ==
    ASSUME Prelude
    PROVE  UNCHANGED <<job, published, answer, inbox, pack, received, reply, status,
                       canceled, elapsed, slice, copies>>
<1>1. CASE Execute \/ CreateRequest \/ CreateNothing
  BY <1>1 DEF Execute, CreateRequest, CreateNothing, SendOff, sendVars, replyVars,
     waitVars, clockVars
<1>2. CASE CreateReply \/ CreateAlert \/ Open
  BY <1>2 DEF CreateReply, CreateAlert, Open, SendOff, sendVars, replyVars,
     waitVars, clockVars
<1>3. CASE Exchange \/ ReplyQueue \/ Convert
  BY <1>3 DEF Exchange, ReplyQueue, Convert, sendVars, replyVars, waitVars, clockVars
<1>4. QED
  BY <1>1, <1>2, <1>3 DEF Prelude

LEMMA PreludeEffect ==
    ASSUME TypeOK, StageOK, Prelude
    PROVE  /\ main \in BeforeSend
           /\ channel' \in {"none", "open", "broken"} /\ faults' \in 0 .. MaxFaults
           /\ \/ /\ main' \in BeforeSend /\ return' = return
                 /\ main' \in {"exchange", "queue", "convert"} => channel' = "open"
              \/ main' = "publish" /\ job.chunks # 0 /\ return' = return
              \/ main' = "done" /\ return' \in SendFailures \cup {dl_client_error}
              \/ main' = "done" /\ return' = dl_warning_dry_run /\ job.dryRun
              \/ /\ main' = "escaped" /\ return' = return
                 /\ \/ job.badConfig \/ job.offline \/ job.bad
                    \/ channel' = "open" /\ faults' < MaxFaults
<1> USE DEF BeforeSend, SendFailures, Goto, Exit
<1>1. CASE Execute
  BY <1>1 DEF Execute, KeyIsRefused, TypeOK, sendVars
<1>2. CASE CreateRequest \/ CreateReply \/ CreateAlert
  BY <1>2 DEF CreateRequest, CreateReply, CreateAlert, SendOff, TypeOK, sendVars
<1>3. CASE CreateNothing
  BY <1>3 DEF CreateNothing, TypeOK, sendVars
<1>4. CASE Open
  BY <1>4, Constants DEF Open, Fault, TypeOK
<1>5. CASE Exchange
  BY <1>5, Constants DEF Exchange, Fault, TypeOK, StageOK, sendVars
<1>6. CASE ReplyQueue
  BY <1>6, Constants DEF ReplyQueue, Fault, TypeOK, StageOK, sendVars
<1>7. CASE Convert
  BY <1>7 DEF Convert, TypeOK, StageOK, sendVars
<1>8. QED
  BY <1>1, <1>2, <1>3, <1>4, <1>5, <1>6, <1>7 DEF Prelude

LEMMA PreludeInv == ASSUME Inv, Prelude PROVE Inv'
<1>1. TypeOK /\ StageOK /\ job.chunks \in Nat
  BY JobFields DEF Inv
<1>2. UNCHANGED <<job, published, answer, inbox, pack, received, reply, status,
                  canceled, elapsed, slice, copies>>
  BY PreludeFrame
<1>3. published = 0 /\ NothingComplete
  BY <1>1, PreludeEffect DEF StageOK, Inv, CompleteOK, BeforeSend, NothingComplete
<1>4. /\ main' \in BeforeSend \cup {"publish", "done", "escaped"}
      /\ main' \in {"exchange", "queue", "convert"} => channel' = "open"
      /\ main' = "publish" => job.chunks # 0
      /\ main' = "escaped" => job.badConfig \/ job.offline \/ job.bad
                              \/ (channel' = "open" /\ faults' < MaxFaults)
      /\ main' = "done" => \/ return' \in SendFailures \cup {dl_client_error}
                           \/ return' = dl_warning_dry_run /\ job.dryRun
      /\ return' \in Nat
  BY <1>1, PreludeEffect, CodesAreNat DEF BeforeSend, SendFailures, TypeOK
<1>5. TypeOK'
  BY <1>1, <1>2, <1>4, PreludeEffect DEF TypeOK, BeforeSend, Indices
<1>6. PacksOK' /\ ReplyIsWhole'
  BY <1>2 DEF Inv, PacksOK, ReplyIsWhole, Indices
<1>7. StageOK' /\ CompleteOK' /\ ReasonOK'
  BY <1>1, <1>2, <1>3, <1>4 DEF StageOK, CompleteOK, NothingComplete, ReasonOK,
     BeforeSend, Waiting, Indices
<1>8. SuccessCause' /\ EscapeCause'
  BY <1>2, <1>3, <1>4, Codes DEF SuccessCause, EscapeCause, SendFailures
<1>9. FailureCause'
  BY <1>2, <1>3, <1>4, OtherCodes DEF FailureCause, SendFailures
<1>10. QED
  BY <1>5, <1>6, <1>7, <1>8, <1>9 DEF Inv

(* Publishing: success only after the last chunk.                          *)
LEMMA PublishInv == ASSUME Inv, Publish \/ PublishFails PROVE Inv'
<1>1. /\ TypeOK /\ job.chunks \in Nat /\ job.kind \in {"request", "reply", "alert"}
      /\ published < job.chunks /\ main = "publish" /\ NothingComplete
  BY JobFields DEF Inv, StageOK, CompleteOK, NothingComplete, Publish, PublishFails
<1>0. job.chunks > 0
  BY <1>1 DEF TypeOK
<1>2. UNCHANGED <<job, channel, answer, inbox, pack, received, reply, status,
                  canceled, elapsed, slice, copies>>
  BY DEF Publish, PublishFails, replyVars, waitVars, clockVars
<1>3. published' \in 0 .. job.chunks /\ faults' \in 0 .. MaxFaults
  BY <1>1, Constants DEF Publish, PublishFails, Fault, TypeOK
<1>4. \/ main' = "publish" /\ published' < job.chunks /\ return' = return
      \/ /\ main' = "wait" /\ published' = job.chunks /\ job.kind = "request"
         /\ return' = return
      \/ /\ main' = "done" /\ published' = job.chunks /\ job.kind # "request"
         /\ return' = dl_success
      \/ main' = "done" /\ return' \in SendFailures
  BY <1>1 DEF Publish, PublishFails, Goto, Exit, SendErrors, SendFailures, TypeOK
<1>5. TypeOK'
  BY <1>1, <1>2, <1>3, <1>4, CodesAreNat DEF TypeOK, SendFailures, Waiting, Indices
<1>6. PacksOK' /\ ReplyIsWhole'
  BY <1>2 DEF Inv, PacksOK, ReplyIsWhole, Indices
<1>7. StageOK' /\ CompleteOK' /\ ReasonOK'
  BY <1>0, <1>1, <1>2, <1>3, <1>4 DEF StageOK, CompleteOK, NothingComplete, ReasonOK,
     BeforeSend, Waiting, Indices
<1>8. SuccessCause' /\ EscapeCause'
  BY <1>0, <1>1, <1>2, <1>4, Codes DEF SuccessCause, EscapeCause, SendFailures
<1>9. FailureCause'
  BY <1>2, <1>4, OtherCodes DEF FailureCause, SendFailures
<1>10. QED
  BY <1>5, <1>6, <1>7, <1>8, <1>9 DEF Inv

(* The loop of wait_for_reply, but for the arrival of a chunk.             *)
LEMMA LoopInv ==
    ASSUME Inv, LoopCheck \/ ListenNothing \/ ListenFails \/ AfterLoop
    PROVE  Inv'
<1>1. /\ TypeOK /\ main \in {"wait", "listening", "after"} /\ NothingComplete
      /\ job.kind = "request" /\ job.chunks > 0 /\ published = job.chunks
  BY DEF Inv, StageOK, CompleteOK, NothingComplete, Waiting, LoopCheck, ListenNothing,
     ListenFails, AfterLoop
<1>2. UNCHANGED <<job, channel, published, answer, inbox, pack, received, reply,
                  canceled, elapsed, return, faults, copies>>
  BY DEF LoopCheck, ListenNothing, ListenFails, AfterLoop, Goto, sendVars, replyVars,
     waitVars, clockVars
<1>3. slice' \in 0 .. ListenTimeout
  BY <1>1, TimeoutRange DEF LoopCheck, ListenNothing, ListenFails, AfterLoop, clockVars,
     TypeOK
<1>4. /\ main' \in Waiting
      /\ status' \in {"unknown", "timeout", "soft_error", "hard_error",
                      "message_received"}
  BY <1>1 DEF LoopCheck, ListenNothing, ListenFails, AfterLoop, NextCall, Goto, Waiting,
     waitVars, TypeOK
<1>5. ReasonOK'
  <2>1. Timeout' = Timeout /\ elapsed' = elapsed /\ canceled' = canceled
    BY <1>2, TimeFixed
  <2>2. main' = "after" /\ ~canceled => DeadlineReached
    BY <1>1 DEF LoopCheck, ListenNothing, ListenFails, AfterLoop, NextCall, LoopIsOver,
       Goto, DeadlineReached
  <2>3. main' = "report" /\ ~canceled
          => (status' = "hard_error" /\ channel = "broken") \/ DeadlineReached
    BY <1>1 DEF LoopCheck, ListenNothing, ListenFails, AfterLoop, NextCall, Goto, Inv,
       ReasonOK
  <2>4. QED
    BY <1>2, <2>1, <2>2, <2>3 DEF ReasonOK, DeadlineReached
<1>6. TypeOK'
  BY <1>1, <1>2, <1>3, <1>4 DEF TypeOK, Waiting, Indices
<1>7. PacksOK' /\ ReplyIsWhole'
  BY <1>2 DEF Inv, PacksOK, ReplyIsWhole, Indices
<1>8. StageOK' /\ CompleteOK'
  BY <1>1, <1>2, <1>4 DEF StageOK, CompleteOK, NothingComplete, BeforeSend, Waiting,
     Indices
<1>9. SuccessCause' /\ EscapeCause' /\ FailureCause'
  BY <1>4 DEF SuccessCause, EscapeCause, FailureCause, Waiting
<1>10. QED
  BY <1>5, <1>6, <1>7, <1>8, <1>9 DEF Inv

(* A chunk arrives.  Only a new one is counted, so that the count reaches  *)
(* ReplyChunks exactly when the pack has all the chunks.                   *)
LEMMA ChunkInv == ASSUME Inv, ListenMessage PROVE Inv'
<1>1. /\ TypeOK /\ main = "listening" /\ NothingComplete
      /\ job.kind = "request" /\ job.chunks > 0 /\ published = job.chunks
  BY DEF Inv, StageOK, CompleteOK, NothingComplete, Waiting, ListenMessage
<1>2. /\ UNCHANGED <<job, channel, published, answer, canceled, elapsed, slice, faults,
                     copies, return>>
      /\ status' \in {"message_received", "soft_error"} /\ inbox' \subseteq inbox
  BY DEF ListenMessage, ParseFails, Goto, Process, sendVars, clockVars
<1>3. CASE /\ UNCHANGED <<pack, received, reply>>
           /\ main' \in {"wait", "report", "escaped"}
           /\ main' = "report" => \/ canceled
                                 \/ \E s \in Services : answer[s] = "misnamed"
           /\ main' = "escaped" => /\ ~canceled
                                   /\ \E s \in Services : answer[s] = "misnamed"
  <2>1. TypeOK'
    BY <1>1, <1>2, <1>3 DEF TypeOK, Waiting, Indices
  <2>2. PacksOK' /\ ReplyIsWhole'
    BY <1>2, <1>3 DEF Inv, PacksOK, ReplyIsWhole, Indices
  <2>3. StageOK' /\ CompleteOK' /\ ReasonOK'
    BY <1>1, <1>2, <1>3 DEF StageOK, CompleteOK, NothingComplete, ReasonOK, BeforeSend,
       Waiting, Indices
  <2>4. SuccessCause' /\ EscapeCause' /\ FailureCause'
    BY <1>1, <1>2, <1>3 DEF SuccessCause, EscapeCause, FailureCause, NothingComplete
  <2>5. QED
    BY <2>1, <2>2, <2>3, <2>4 DEF Inv
<1>4. ASSUME NEW s \in Services, NEW i \in Indices, <<s, i>> \in inbox, i \notin pack[s],
             answer[s] # "misnamed", status' = "message_received",
             pack' = [pack EXCEPT ![s] = @ \cup {i}],
             received' = [received EXCEPT ![s] = @ + 1],
             IF received[s] + 1 = ReplyChunks THEN Process(s)
             ELSE Goto("wait") /\ UNCHANGED reply
      PROVE  Inv'
  <2>1. /\ pack' \in [Services -> SUBSET Indices] /\ pack'[s] = pack[s] \cup {i}
        /\ \A r \in Services \ {s} : pack'[r] = pack[r] /\ received'[r] = received[r]
        /\ received'[s] = received[s] + 1 /\ received[s] \in Nat
    BY <1>1, <1>4 DEF TypeOK
  <2>2. /\ IsFiniteSet(pack[s]) /\ received[s] = Cardinality(pack[s])
        /\ pack[s] \in SUBSET Indices
    BY <1>1, IndicesFinite, FS_Subset DEF TypeOK, Inv, PacksOK
  <2>3. Cardinality(pack'[s]) = received[s] + 1
    <3>1. Cardinality(pack[s] \cup {i}) = Cardinality(pack[s]) + 1
      BY <1>4, <2>2, FS_AddElement
    <3>2. QED
      BY <2>1, <2>2, <3>1
  <2>4. /\ Cardinality(pack'[s]) <= ReplyChunks
        /\ received[s] + 1 = ReplyChunks <=> pack'[s] = Indices
    BY <2>1, <2>3, IndicesFinite, FS_Subset
  <2>5. received' \in [Services -> 0 .. ReplyChunks]
    <3>1. received[s] + 1 \in 0 .. ReplyChunks
      BY <2>1, <2>3, <2>4, Constants
    <3>2. QED
      BY <1>1, <1>4, <3>1 DEF TypeOK
  <2>6. answer[s] \in {"success", "failure", "alien", "broken"}
    BY <1>1, <1>4 DEF Inv, PacksOK, TypeOK
  <2>7. CASE received[s] + 1 # ReplyChunks
    <3>1. main' = "wait" /\ reply' = reply /\ pack'[s] # Indices
      BY <1>4, <2>4, <2>7 DEF Goto
    <3>2. TypeOK'
      BY <1>1, <1>2, <2>1, <2>5, <3>1 DEF TypeOK, Waiting, Indices
    <3>3. PacksOK' /\ ReplyIsWhole'
      BY <1>2, <2>1, <2>3, <2>6, <3>1 DEF Inv, PacksOK, ReplyIsWhole, Indices
    <3>4. StageOK' /\ CompleteOK' /\ ReasonOK'
      BY <1>1, <1>2, <2>1, <3>1 DEF StageOK, CompleteOK, NothingComplete, ReasonOK,
         BeforeSend, Waiting, Indices
    <3>5. SuccessCause' /\ EscapeCause' /\ FailureCause'
      BY <3>1 DEF SuccessCause, EscapeCause, FailureCause
    <3>6. QED
      BY <3>2, <3>3, <3>4, <3>5 DEF Inv
  <2>8. CASE received[s] + 1 = ReplyChunks
    <3>1. /\ main' = "report" /\ pack'[s] = Indices
          /\ \/ /\ answer[s] \in {"success", "failure"}
                /\ reply' = [from |-> {s}, chunks |-> Indices]
             \/ answer[s] \in {"alien", "broken"} /\ reply' = reply
      BY <1>4, <2>4, <2>6, <2>8 DEF Process, Goto
    <3>2. reply' # NoReply \/ \E r \in Services : answer[r] \in {"alien", "broken", "misnamed"}
      BY <3>1 DEF NoReply
    <3>3. TypeOK'
      <4>1. reply' \in [from : {{}} \cup {{r} : r \in Services}, chunks : SUBSET Indices]
        BY <1>1, <3>1 DEF TypeOK
      <4>2. QED
        BY <1>1, <1>2, <2>1, <2>5, <3>1, <4>1 DEF TypeOK, Waiting, Indices
    <3>4. PacksOK'
      BY <1>2, <2>1, <2>3, <2>6 DEF Inv, PacksOK
    <3>5. ReplyIsWhole'
      BY <1>2, <3>1 DEF Inv, ReplyIsWhole, Indices
    <3>6. StageOK' /\ CompleteOK' /\ ReasonOK'
      BY <1>1, <1>2, <1>4, <3>1, <3>2 DEF StageOK, CompleteOK, ReasonOK, NoReply, BeforeSend,
         Waiting, Indices
    <3>7. SuccessCause' /\ EscapeCause' /\ FailureCause'
      BY <3>1 DEF SuccessCause, EscapeCause, FailureCause
    <3>8. QED
      BY <3>3, <3>4, <3>5, <3>6, <3>7 DEF Inv
  <2>9. QED
    BY <2>7, <2>8
<1>5. PICK c \in inbox :
        LET s == c[1]
            fresh == IsNew(s, c[2])
            all == received[s] + 1 = ReplyChunks IN
        /\ inbox' = inbox \ {c}
        /\ IF canceled
           THEN Goto("report") /\ UNCHANGED <<pack, received, reply>>
           ELSE IF answer[s] = "misnamed" THEN ParseFails
           ELSE /\ status' = "message_received"
                /\ pack' = [pack EXCEPT ![s] = @ \cup {c[2]}]
                /\ received' = [received EXCEPT ![s] = @ + (IF fresh THEN 1 ELSE 0)]
                /\ IF fresh /\ all THEN Process(s) ELSE Goto("wait") /\ UNCHANGED reply
  BY DEF ListenMessage
<1>6. PICK s \in Services, i \in Indices : c = <<s, i>>
  BY <1>1 DEF TypeOK
<1>7. CASE canceled
  BY <1>3, <1>5, <1>7 DEF Goto
<1>11. CASE ~canceled /\ answer[s] = "misnamed"
  BY <1>3, <1>5, <1>6, <1>11 DEF ParseFails, Goto
<1>8. CASE ~canceled /\ answer[s] # "misnamed" /\ i \in pack[s]
  <2>1. /\ pack' = [pack EXCEPT ![s] = @ \cup {i}]
        /\ received' = [received EXCEPT ![s] = @ + 0]
        /\ main' = "wait" /\ reply' = reply
    BY <1>5, <1>6, <1>8 DEF IsNew, Goto
  <2>2. pack[s] \cup {i} = pack[s] /\ received[s] + 0 = received[s]
    BY <1>1, <1>8 DEF TypeOK
  <2>3. pack' = pack /\ received' = received
    BY <1>1, <2>1, <2>2 DEF TypeOK
  <2>4. QED
    BY <1>3, <2>1, <2>3
<1>9. CASE ~canceled /\ answer[s] # "misnamed" /\ i \notin pack[s]
  <2>1. /\ pack' = [pack EXCEPT ![s] = @ \cup {i}]
        /\ received' = [received EXCEPT ![s] = @ + 1] /\ status' = "message_received"
        /\ IF received[s] + 1 = ReplyChunks THEN Process(s)
           ELSE Goto("wait") /\ UNCHANGED reply
    BY <1>5, <1>6, <1>9 DEF IsNew
  <2>2. QED
    BY <1>4, <1>6, <1>9, <2>1
<1>10. QED
  BY <1>7, <1>8, <1>9, <1>11

(* The return code of a request.                                           *)
LEMMA ReportInv == ASSUME Inv, Report PROVE Inv'
<1>1. /\ TypeOK /\ main = "report" /\ main' = "done"
      /\ job.kind = "request" /\ job.chunks > 0 /\ published = job.chunks
  BY DEF Inv, StageOK, Waiting, Report, Exit
<1>2. UNCHANGED <<job, channel, published, answer, inbox, pack, received, reply,
                  status, canceled, elapsed, slice, faults, copies>>
  BY DEF Report, sendVars, replyVars, waitVars, clockVars
<1>3. \/ canceled /\ return' = dl_success
      \/ /\ reply # NoReply
         /\ \/ return' \in {dl_client_error_handling_reply, dl_service_error}
            \/ /\ return' = dl_success
               /\ \E s \in Services : answer[s] = "success" /\ reply.from = {s}
      \/ /\ ~canceled /\ reply = NoReply /\ status = "timeout"
         /\ return' = dl_client_error_timeout
      \/ /\ ~canceled /\ reply = NoReply /\ status # "timeout"
         /\ return' = dl_client_error
  <2>1. CASE canceled
    BY <2>1 DEF Report, Exit
  <2>2. CASE ~canceled /\ reply = NoReply
    BY <2>2 DEF Report, Exit
  <2>3. CASE ~canceled /\ reply # NoReply
    <3>1. PICK s \in Services : reply.from = {s}
      BY <2>3 DEF Inv, ReplyIsWhole
    <3>2. (CHOOSE r \in Services : reply.from = {r}) = s
      BY <3>1
    <3>3. return' \in {dl_client_error_handling_reply, CodeOf(s)}
      BY <2>3, <3>2 DEF Report, Exit
    <3>4. CodeOf(s) = dl_service_error \/ (CodeOf(s) = dl_success /\ answer[s] = "success")
      BY DEF CodeOf
    <3>5. QED
      BY <2>3, <3>1, <3>3, <3>4
  <2>4. QED
    BY <2>1, <2>2, <2>3
<1>4. return' \in Nat
  BY <1>3, CodesAreNat
<1>5. TypeOK'
  BY <1>1, <1>2, <1>4 DEF TypeOK, Indices
<1>6. PacksOK' /\ ReplyIsWhole'
  BY <1>2 DEF Inv, PacksOK, ReplyIsWhole, Indices
<1>7. StageOK' /\ CompleteOK' /\ ReasonOK' /\ EscapeCause'
  BY <1>1, <1>2 DEF Inv, StageOK, CompleteOK, ReasonOK, EscapeCause, BeforeSend,
     Waiting, Indices
<1>8. SuccessCause'
  BY <1>1, <1>2, <1>3, Codes DEF SuccessCause
<1>9. FailureCause'
  <2>1. CASE return' = dl_client_error_timeout
    <3>1. ~canceled /\ reply = NoReply /\ status = "timeout"
      BY <1>3, <2>1, OtherCodes
    <3>2. NothingComplete /\ DeadlineReached
      BY <1>1, <3>1 DEF Inv, CompleteOK, ReasonOK, NothingComplete
    <3>3. elapsed >= job.timeout \/ 2 * job.timeout >= Modulus
      <4>1. 2 * job.timeout < Modulus => elapsed >= job.timeout
        BY <1>1, <3>2, TimeoutRange DEF DeadlineReached
      <4>2. QED
        BY <1>1, <4>1, JobFields, Constants
    <3>4. QED
      BY <1>2, <2>1, <3>2, <3>3, OtherCodes DEF FailureCause, NothingComplete, Indices
  <2>2. CASE return' = dl_client_error
    <3>1. ~canceled /\ reply = NoReply /\ status # "timeout"
      BY <1>3, <2>2, OtherCodes
    <3>2. \/ channel = "broken"
          \/ \E s \in Services : answer[s] \in {"alien", "broken", "misnamed"}
          \/ elapsed >= Timeout /\ status # "timeout"
      BY <1>1, <3>1 DEF Inv, ReasonOK, DeadlineReached
    <3>3. Timeout' = Timeout
      BY <1>2, TimeFixed
    <3>4. QED
      BY <1>2, <2>2, <3>2, <3>3, OtherCodes DEF FailureCause
  <2>3. CASE return' \notin {dl_client_error_timeout, dl_client_error}
    BY <2>3 DEF FailureCause
  <2>4. QED
    BY <2>1, <2>2, <2>3
<1>10. QED
  BY <1>5, <1>6, <1>7, <1>8, <1>9 DEF Inv

---------------------------------------------------------------------------
(* The environment, which never takes a step after the agent is done.      *)
LEMMA AnswerInv == ASSUME Inv, NEW s \in Services, Answer(s) PROVE Inv'
<1>1. TypeOK /\ published > 0 /\ answer[s] = "none" /\ main # "done"
  BY DEF Inv, Answer
<1>2. UNCHANGED <<job, main, channel, published, pack, received, reply, status,
                  canceled, elapsed, slice, return, copies>>
  BY DEF Answer, sendVars, waitVars, clockVars
<1>3. PICK a \in {"success", "failure", "alien", "broken", "misnamed"},
         part \in SUBSET Indices :
        /\ answer' = [answer EXCEPT ![s] = a]
        /\ inbox' = inbox \cup ({s} \X part)
        /\ faults' = faults \/ (faults > 0 /\ faults' = faults - 1)
  BY DEF Answer, Fault
<1>4. /\ answer'[s] = a /\ \A r \in Services \ {s} : answer'[r] = answer[r]
      /\ faults' \in 0 .. MaxFaults
  BY <1>1, <1>3, Constants DEF TypeOK
<1>5. TypeOK'
  <2>1. inbox' \subseteq Services \X Indices
    BY <1>1, <1>3 DEF TypeOK
  <2>2. answer' \in [Services -> {"none", "success", "failure", "alien", "broken",
                               "misnamed"}]
    BY <1>1, <1>3 DEF TypeOK
  <2>3. QED
    BY <1>1, <1>2, <1>4, <2>1, <2>2 DEF TypeOK, Waiting, Indices
<1>6. PacksOK'
  <2>1. \A c \in inbox' : answer'[c[1]] # "none"
    <3> SUFFICES ASSUME NEW c \in inbox' PROVE answer'[c[1]] # "none"
      OBVIOUS
    <3>1. CASE c \in inbox
      BY <1>1, <1>4, <3>1 DEF Inv, PacksOK, TypeOK
    <3>2. CASE c \in {s} \X part
      BY <1>4, <3>2
    <3>3. QED
      BY <1>3, <3>1, <3>2
  <2>2. QED
    BY <1>2, <1>3, <1>4, <2>1 DEF Inv, PacksOK
<1>7. ReplyIsWhole'
  BY <1>1, <1>2, <1>4 DEF Inv, ReplyIsWhole, Indices
<1>8. StageOK' /\ CompleteOK'
  BY <1>2 DEF Inv, StageOK, CompleteOK, Indices
<1>9. ReasonOK'
  <2>1. Timeout' = Timeout
    BY <1>2, TimeFixed
  <2>2. (\E r \in Services : answer[r] \in {"alien", "broken", "misnamed"})
          => \E r \in Services : answer'[r] \in {"alien", "broken", "misnamed"}
    BY <1>1, <1>4
  <2>3. QED
    BY <1>2, <2>1, <2>2 DEF Inv, ReasonOK, DeadlineReached
<1>10. SuccessCause' /\ FailureCause'
  BY <1>1, <1>2 DEF Inv, SuccessCause, FailureCause
<1>12. EscapeCause'
  BY <1>1, <1>2, <1>3, <1>4 DEF Inv, EscapeCause
<1>11. QED
  BY <1>5, <1>6, <1>7, <1>8, <1>9, <1>10, <1>12 DEF Inv

LEMMA EnvironmentInv ==
    ASSUME Inv, ArrivesAgain \/ LoseConnection \/ Interrupt \/ Tick
    PROVE  Inv'
<1>1. TypeOK /\ main \in Waiting /\ main' = main
  BY DEF Inv, ArrivesAgain, LoseConnection, Interrupt, Tick
<1>2. UNCHANGED <<job, published, answer, pack, received, reply, status, return>>
  BY DEF ArrivesAgain, LoseConnection, Interrupt, Tick, sendVars, replyVars, waitVars
<1>3. /\ channel' = channel \/ (channel' = "broken" /\ channel = "open")
      /\ canceled' = canceled \/ canceled' = TRUE
  BY DEF ArrivesAgain, LoseConnection, Interrupt, Tick, sendVars
<1>4. faults' \in 0 .. MaxFaults /\ copies' \in 0 .. MaxCopies
  BY <1>1, Constants DEF ArrivesAgain, LoseConnection, Interrupt, Tick, Fault, TypeOK
<1>5. slice' \in 0 .. ListenTimeout
  BY <1>1, Constants DEF ArrivesAgain, LoseConnection, Interrupt, Tick, TypeOK, clockVars
<1>6. elapsed' \in Nat /\ elapsed' <= Modulus /\ elapsed' >= elapsed
  BY <1>1, TimeoutRange, Constants DEF ArrivesAgain, LoseConnection, Interrupt, Tick,
     TypeOK, clockVars
<1>7. inbox' \subseteq Services \X Indices /\ \A c \in inbox' : answer[c[1]] # "none"
  <2>1. CASE ArrivesAgain
    <3>1. PICK s \in Services, i \in Indices :
            i \in pack[s] /\ inbox' = inbox \cup {<<s, i>>}
      BY <2>1 DEF ArrivesAgain
    <3>2. answer[s] # "none"
      BY <3>1 DEF Inv, PacksOK
    <3>3. QED
      BY <1>1, <3>1, <3>2 DEF TypeOK, Inv, PacksOK
  <2>2. CASE LoseConnection \/ Interrupt \/ Tick
    BY <1>1, <2>2 DEF LoseConnection, Interrupt, Tick, replyVars, TypeOK, Inv, PacksOK
  <2>3. QED
    BY <2>1, <2>2
<1>8. TypeOK'
  BY <1>1, <1>2, <1>3, <1>4, <1>5, <1>6, <1>7 DEF TypeOK, Waiting, Indices
<1>9. PacksOK' /\ ReplyIsWhole'
  BY <1>2, <1>7 DEF Inv, PacksOK, ReplyIsWhole, Indices
<1>10. StageOK' /\ CompleteOK'
  BY <1>1, <1>2 DEF Inv, StageOK, CompleteOK, BeforeSend, Waiting, Indices
<1>11. ReasonOK'
  <2>1. Timeout' = Timeout /\ Timeout \in Int /\ elapsed \in Nat
    BY <1>1, <1>2, TimeFixed, TimeoutRange DEF TypeOK
  <2>2. DeadlineReached => DeadlineReached'
    BY <1>6, <2>1 DEF DeadlineReached
  <2>3. ~canceled' => ~canceled
    BY <1>1, <1>3 DEF TypeOK
  <2>4. QED
    BY <1>1, <1>2, <1>3, <2>2, <2>3 DEF Inv, ReasonOK
<1>12. SuccessCause' /\ FailureCause' /\ EscapeCause'
  BY <1>1 DEF SuccessCause, FailureCause, EscapeCause, Waiting
<1>13. QED
  BY <1>8, <1>9, <1>10, <1>11, <1>12 DEF Inv

LEMMA StutterInv == ASSUME Inv, UNCHANGED vars PROVE Inv'
<1> USE DEF vars, sendVars, replyVars, waitVars, clockVars
<1>1. Timeout' = Timeout
  BY TimeFixed
<1>2. TypeOK' /\ PacksOK' /\ StageOK' /\ CompleteOK'
  BY DEF Inv, TypeOK, PacksOK, StageOK, CompleteOK, Indices
<1>3. ReasonOK' /\ ReplyIsWhole' /\ SuccessCause' /\ FailureCause' /\ EscapeCause'
  BY <1>1 DEF Inv, ReasonOK, DeadlineReached, ReplyIsWhole, SuccessCause, FailureCause,
     EscapeCause, Indices
<1>4. QED
  BY <1>2, <1>3 DEF Inv

LEMMA NextInv == Inv /\ [Next]_vars => Inv'
BY PreludeInv, PublishInv, LoopInv, ChunkInv, ReportInv, AnswerInv, EnvironmentInv,
   StutterInv DEF Next, AgentStep, Prelude

LEMMA Invariance == Spec => []Inv
BY InitInv, NextInv, PTL DEF Spec

---------------------------------------------------------------------------
(* Every reachable state of the agent and its environment is well typed.   *)
THEOREM AgentTypeCorrect == Spec => []TypeOK
<1>1. Inv => TypeOK
  BY DEF Inv
<1>2. QED
  BY <1>1, Invariance, PTL

(* wait_for_reply and process_received_reply report a reply made of all    *)
(* the chunks of one sender's reply, for any number of either.             *)
THEOREM RepliesAreWhole == Spec => []ReplyIsWhole
<1>1. Inv => ReplyIsWhole
  BY DEF Inv
<1>2. QED
  BY <1>1, Invariance, PTL

(* The exit status of the agent (agent.cc) is that of success only if the  *)
(* message was sent in whole and a request answered with success, the user *)
(* stopped waiting, or nothing was to be sent.                             *)
THEOREM SuccessIsDeserved == Spec => []SuccessCause
<1>1. Inv => SuccessCause
  BY DEF Inv
<1>2. QED
  BY <1>1, Invariance, PTL

(* A time-out or the generic error is reported after a request was sent    *)
(* only for the causes that FailureCause lists.                            *)
THEOREM FailureHasCause == Spec => []FailureCause
<1>1. Inv => FailureCause
  BY DEF Inv
<1>2. QED
  BY <1>1, Invariance, PTL

(* An exception leaves the agent without any part of the message sent, for *)
(* the causes that EscapeCause lists, or after the whole was sent, for a   *)
(* chunk in the reply-to queue whose message ID is none.                   *)
THEOREM EscapesHaveCause == Spec => []EscapeCause
<1>1. Inv => EscapeCause
  BY DEF Inv
<1>2. QED
  BY <1>1, Invariance, PTL

===========================================================================
