---------------------------- MODULE CommandGateway ----------------------------
(***************************************************************************)
(* Mission commands on their way from operators to mission/command: the    *)
(* backend checks the operator policy, records its decision in the audit   *)
(* table and forwards the command to the mission API bridge, which         *)
(* publishes it.  Both servers handle each request in a thread of its own, *)
(* so requests interleave; the policy file may be rewritten, the database  *)
(* may fail, either process may die, and the backend stops waiting for the *)
(* bridge after five seconds.                                              *)
(***************************************************************************)
EXTENDS Integers, Sequences

CONSTANTS
  Requests,    \* the HTTP requests that operators send
  Operators,
  Commands,    \* what a request may ask for
  Policies,    \* contents of the policy file: operator -> permitted commands
  AuditFails,  \* whether the database may refuse an audit event
  BackendDies  \* whether the backend's process may die

\* MISSION_COMMANDS, the same set in the backend and in the bridge.
MissionCommands == {"start", "pause", "resume", "cancel", "reset"}

ASSUME GatewayAssumption ==
  /\ Policies \subseteq [Operators -> SUBSET Commands]
  /\ Policies # {}
  /\ AuditFails \in BOOLEAN /\ BackendDies \in BOOLEAN

VARIABLES
  policy,      \* the policy file
  call,        \* call[r]: who asks for what, or NoCall
  stage,       \* stage[r]: how far the backend's thread has come
  status,      \* status[r]: the HTTP status the operator sees, 0 before, and
               \* NoAnswer when the connection broke
  bridge,      \* bridge[r]: how far the bridge's thread has come
  bridge_up,
  audit,       \* the rows of backend_audit_events, in the order of insertion
  published,   \* the requests whose commands went to mission/command, in order
  earlier      \* history: the requests answered before r was sent

gateway == <<policy, call, stage, status, bridge, bridge_up, audit, published, earlier>>

NoCall == [operator_id |-> "none", command_type |-> "none"]
NoAnswer == -1

Init ==
  /\ policy \in Policies
  /\ call = [r \in Requests |-> NoCall]
  /\ stage = [r \in Requests |-> "idle"]
  /\ status = [r \in Requests |-> 0]
  /\ bridge = [r \in Requests |-> "idle"]
  /\ bridge_up = TRUE
  /\ audit = << >>
  /\ published = << >>
  /\ earlier = [r \in Requests |-> {}]

At(r, s) == stage[r] = s
Goto(r, s) == stage' = [stage EXCEPT ![r] = s]
Answer(r, code) == Goto(r, "answered") /\ status' = [status EXCEPT ![r] = code]
Answered == {r \in Requests : stage[r] = "answered"}

\* An operator sends a command, perhaps once more after a failure.
Send(r, op, cmd) ==
  /\ At(r, "idle")
  /\ call' = [call EXCEPT ![r] = [operator_id |-> op, command_type |-> cmd]]
  /\ Goto(r, "received")
  /\ earlier' = [earlier EXCEPT ![r] = Answered]
  /\ UNCHANGED <<policy, status, bridge, bridge_up, audit, published>>

\* An unsupported command is turned away unrecorded.
Unsupported(r) ==
  /\ At(r, "received")
  /\ call[r].command_type \notin MissionCommands
  /\ Answer(r, 400)
  /\ UNCHANGED <<policy, call, bridge, bridge_up, audit, published, earlier>>

Permits(p, c) == c.command_type \in p[c.operator_id]

\* is_mission_command_allowed, on the policy file as it is now.
Authorize(r) ==
  /\ At(r, "received")
  /\ call[r].command_type \in MissionCommands
  /\ Goto(r, IF Permits(policy, call[r]) THEN "allowed" ELSE "denied")
  /\ UNCHANGED <<policy, call, status, bridge, bridge_up, audit, published, earlier>>

AuditRow(r, decision) ==
  [request |-> r, operator_id |-> call[r].operator_id,
   command_type |-> call[r].command_type, decision |-> decision]

\* Seeded fault: denials are not recorded.
DenyUnrecorded(r) ==
  /\ At(r, "denied")
  /\ Answer(r, 403)
  /\ UNCHANGED <<policy, call, bridge, bridge_up, audit, published, earlier>>

\* A denial is recorded, and then it is the answer.
Deny(r) ==
  /\ At(r, "denied")
  /\ audit' = Append(audit, AuditRow(r, "denied"))
  /\ Answer(r, 403)
  /\ UNCHANGED <<policy, call, bridge, bridge_up, published, earlier>>

\* Seeded faults: a permitted command is forwarded without an audit event, and
\* its event replaces those of the same operator.
AllowUnrecorded(r) ==
  /\ At(r, "allowed")
  /\ Goto(r, "sending")
  /\ UNCHANGED <<policy, call, status, bridge, bridge_up, audit, published, earlier>>

\* A permission is recorded before the command is forwarded.
Allow(r) ==
  /\ At(r, "allowed")
  /\ audit' = Append(audit, AuditRow(r, "allowed"))
  /\ Goto(r, "sending")
  /\ UNCHANGED <<policy, call, status, bridge, bridge_up, published, earlier>>

\* record_event raises: the answer is an internal error.
AuditFailure(r) ==
  /\ AuditFails
  /\ At(r, "allowed") \/ At(r, "denied")
  /\ Answer(r, 500)
  /\ UNCHANGED <<policy, call, bridge, bridge_up, audit, published, earlier>>

\* request_bridge_json: the request reaches the bridge, or the connection is
\* refused, or connecting takes too long.
Forward(r) ==
  /\ At(r, "sending")
  /\ bridge_up
  /\ bridge' = [bridge EXCEPT ![r] = "arrived"]
  /\ Goto(r, "waiting")
  /\ UNCHANGED <<policy, call, status, bridge_up, audit, published, earlier>>

ConnectError(r) ==
  /\ At(r, "sending")
  /\ ~bridge_up
  /\ Answer(r, 503)
  /\ UNCHANGED <<policy, call, bridge, bridge_up, audit, published, earlier>>

\* Seeded fault: only connecting has a timeout.
TimeoutConnecting(r) ==
  /\ At(r, "sending")
  /\ Answer(r, 504)
  /\ UNCHANGED <<policy, call, bridge, bridge_up, audit, published, earlier>>

\* Five seconds have passed; the bridge goes on with what it has received.
Timeout(r) ==
  /\ At(r, "sending") \/ At(r, "waiting")
  /\ Answer(r, 504)
  /\ UNCHANGED <<policy, call, bridge, bridge_up, audit, published, earlier>>

\* The bridge's thread: command_mission publishes and then answers.
Publish(r) ==
  /\ bridge_up
  /\ bridge[r] = "arrived"
  /\ published' = Append(published, r)
  /\ bridge' = [bridge EXCEPT ![r] = "published"]
  /\ UNCHANGED <<policy, call, stage, status, bridge_up, audit, earlier>>

\* The publisher raises, because the node is being shut down around its server.
PublishError(r) ==
  /\ bridge_up
  /\ bridge[r] = "arrived"
  /\ bridge' = [bridge EXCEPT ![r] = "failed"]
  /\ UNCHANGED <<policy, call, stage, status, bridge_up, audit, published, earlier>>

BadGateway(r) ==
  /\ bridge_up
  /\ At(r, "waiting")
  /\ bridge[r] = "failed"
  /\ Answer(r, 502)
  /\ UNCHANGED <<policy, call, bridge, bridge_up, audit, published, earlier>>

\* Seeded fault: the answer is given before the command is published.
AcceptEarly(r) ==
  /\ bridge_up
  /\ At(r, "waiting")
  /\ bridge[r] \in {"arrived", "published"}
  /\ Answer(r, 200)
  /\ UNCHANGED <<policy, call, bridge, bridge_up, audit, published, earlier>>

Accept(r) ==
  /\ bridge_up
  /\ At(r, "waiting")
  /\ bridge[r] = "published"
  /\ Answer(r, 200)
  /\ UNCHANGED <<policy, call, bridge, bridge_up, audit, published, earlier>>

\* The connection to the bridge breaks while the backend waits: neither a
\* ConnectError nor a timeout, so no handler catches it.
ReadError(r) ==
  /\ At(r, "waiting")
  /\ bridge[r] = "lost"
  /\ Answer(r, 500)
  /\ UNCHANGED <<policy, call, bridge, bridge_up, audit, published, earlier>>

\* What the bridge's threads had not finished is lost with its process.
BridgeDown ==
  /\ bridge_up
  /\ bridge_up' = FALSE
  /\ bridge' = [r \in Requests |-> IF bridge[r] = "idle" THEN "idle" ELSE "lost"]
  /\ UNCHANGED <<policy, call, stage, status, audit, published, earlier>>

BridgeUp ==
  /\ ~bridge_up
  /\ bridge_up' = TRUE
  /\ UNCHANGED <<policy, call, stage, status, bridge, audit, published, earlier>>

\* The requests the backend was handling get no answer; what it sent arrives.
BackendCrash ==
  /\ BackendDies
  /\ \E r \in Requests : stage[r] \notin {"idle", "answered"}
  /\ stage' = [r \in Requests |-> IF stage[r] = "idle" THEN "idle" ELSE "answered"]
  /\ status' = [r \in Requests |->
                  IF stage[r] \in {"idle", "answered"} THEN status[r] ELSE NoAnswer]
  /\ UNCHANGED <<policy, call, bridge, bridge_up, audit, published, earlier>>

ChangePolicy ==
  /\ policy' \in Policies
  /\ UNCHANGED <<call, stage, status, bridge, bridge_up, audit, published, earlier>>

\* What the thread of a request in the backend does, and in the bridge.
Backend(r) ==
  \/ Unsupported(r) \/ Authorize(r) \/ Deny(r) \/ Allow(r) \/ AuditFailure(r)
  \/ Forward(r) \/ ConnectError(r) \/ Timeout(r) \/ Accept(r)
  \/ BadGateway(r) \/ ReadError(r)

Next ==
  \/ \E r \in Requests, op \in Operators, cmd \in Commands : Send(r, op, cmd)
  \/ \E r \in Requests : Backend(r) \/ Publish(r) \/ PublishError(r)
  \/ BridgeDown \/ BridgeUp \/ BackendCrash \/ ChangePolicy

Safety == Init /\ [][Next]_gateway

\* A thread of the backend that can go on does; while it waits, its timeout
\* runs.  Nothing is owed by the bridge, the operators or the administrator.
Spec == Safety /\ \A r \in Requests : WF_gateway(Backend(r))

-----------------------------------------------------------------------------
(* Properties.                                                             *)

Codes == {0, NoAnswer, 200, 400, 403, 500, 502, 503, 504}
Stages == {"idle", "received", "allowed", "denied", "sending", "waiting", "answered"}

TypeOK ==
  /\ policy \in Policies
  /\ stage \in [Requests -> Stages]
  /\ status \in [Requests -> Codes]
  /\ bridge \in [Requests -> {"idle", "arrived", "published", "failed", "lost"}]
  /\ bridge_up \in BOOLEAN
  /\ audit \in Seq([request : Requests, operator_id : Operators,
                    command_type : MissionCommands, decision : {"allowed", "denied"}])
  /\ published \in Seq(Requests)

Rows(r) == {i \in 1..Len(audit) : audit[i].request = r}
Publications(r) == {i \in 1..Len(published) : published[i] = r}

\* There is one row for r, and it records this decision.
RecordedOnce(r, decision) ==
  \E i \in Rows(r) : Rows(r) = {i} /\ audit[i] = AuditRow(r, decision)

PublishedOnce(r) == \E i \in Publications(r) : Publications(r) = {i}

\* No command reaches the mission without a row of the audit table that
\* permits just this operator just this command, whatever fails or changes.
PublishedWasAllowed ==
  \A i \in 1..Len(published) :
    \E j \in Rows(published[i]) : audit[j] = AuditRow(published[i], "allowed")

\* The status tells the operator what became of the command: 200 that it was
\* published, once; a refusal, 502 for a bridge that failed and 503 for one that
\* is down, that it was not and will not be, so that sending it again cannot
\* repeat it.
StatusTellsEffect ==
  \A r \in Requests :
    /\ Publications(r) = {} \/ PublishedOnce(r)
    /\ status[r] = 200 => PublishedOnce(r)
    /\ status[r] \in {400, 403, 502, 503} => Publications(r) = {} /\ bridge[r] # "arrived"

\* Whoever got a decision is in the audit table once, with that decision.
DecisionRecorded ==
  \A r \in Requests :
    /\ status[r] = 403 => RecordedOnce(r, "denied")
    /\ status[r] \in {200, 502, 503, 504} => RecordedOnce(r, "allowed")

\* Commands whose operators waited for one another are published in order.
AcceptedInOrder ==
  \A r, s \in Requests :
    r \in earlier[s] /\ status[r] = 200 =>
      \A i \in Publications(r), j \in Publications(s) : i < j

\* Rows of the audit table are never changed or removed.
AuditAppendOnly ==
  [][/\ Len(audit') >= Len(audit)
     /\ \A i \in 1..Len(audit) : audit'[i] = audit[i]]_gateway

\* Every operator gets an answer, though the bridge may hang.
EveryRequestAnswered ==
  \A r \in Requests : stage[r] = "received" ~> stage[r] = "answered"
=============================================================================
