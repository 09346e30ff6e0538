---------------------------- MODULE PayloadManager ----------------------------
(***************************************************************************)
(* The payload_manager node: it checks every payload request against what  *)
(* is allowed, shortens those that take too long, and forwards them to the *)
(* payloads.  It keeps no state.  Its manager state goes to a topic that   *)
(* nobody subscribes to.                                                   *)
(***************************************************************************)
EXTENDS Integers, Topics

CONSTANTS
  AllowedPayloadTypes, AllowedPayloadCommands,
  MaxDuration   \* the max_duration_sec parameter

ASSUME PayloadAssumption == MaxDuration \in Nat

PayloadInbox == Channel("payload/command_request", "payload_manager")

PayloadOutbox(commands, events) ==
  [t \in {"payload/command", "safety/events"} |->
     IF t = "payload/command" THEN commands ELSE events]

\* The id that the mission manager gives the command of a payload step: step
\* names are unique, so the id stands for the step's contents.
PayloadCommandId(msg) == <<"payload", msg.payload_type, msg.command_type, msg.run>>

PayloadEvent(rule, msg, blocked) ==
  [rule |-> rule, command_id |-> PayloadCommandId(msg), operator_id |-> msg.operator_id,
   command_blocked |-> blocked, run |-> msg.run]

BlockPayloadType(msg, q) ==
  /\ msg.payload_type \notin AllowedPayloadTypes
  /\ queue' = Deliver(q, PayloadOutbox(<< >>, <<PayloadEvent("unknown_payload_type", msg, TRUE)>>))

BlockPayloadCommand(msg, q) ==
  /\ msg.payload_type \in AllowedPayloadTypes
  /\ msg.command_type \notin AllowedPayloadCommands
  /\ queue' = Deliver(q, PayloadOutbox(<< >>, <<PayloadEvent("unknown_payload_command", msg, TRUE)>>))

\* Seeded fault: a request that had to be shortened is not forwarded.
ForwardPayloadInTime(msg, q) ==
  /\ msg.payload_type \in AllowedPayloadTypes
  /\ msg.command_type \in AllowedPayloadCommands
  /\ queue' = IF msg.duration_sec > MaxDuration
              THEN Deliver(q, PayloadOutbox(<< >>, <<PayloadEvent("payload_duration_limit", msg, FALSE)>>))
              ELSE Deliver(q, PayloadOutbox(<<msg>>, << >>))

ForwardPayload(msg, q) ==
  /\ msg.payload_type \in AllowedPayloadTypes
  /\ msg.command_type \in AllowedPayloadCommands
  /\ queue' = IF msg.duration_sec > MaxDuration
              THEN Deliver(q, PayloadOutbox(<<[msg EXCEPT !.duration_sec = MaxDuration]>>,
                                            <<PayloadEvent("payload_duration_limit", msg, FALSE)>>))
              ELSE Deliver(q, PayloadOutbox(<<msg>>, << >>))

\* handle_payload_request
PayloadStep ==
  /\ queue[PayloadInbox] # << >>
  /\ LET msg == Head(queue[PayloadInbox])
         q == Taken(PayloadInbox)
     IN  BlockPayloadType(msg, q) \/ BlockPayloadCommand(msg, q) \/ ForwardPayload(msg, q)
=============================================================================
