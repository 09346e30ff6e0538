------------------------- MODULE CommandGatewayProofs -------------------------
(* What the command gateway keeps for every number of requests, whatever   *)
(* fails and however their threads interleave.                             *)
EXTENDS CommandGateway, SequenceTheorems, TLAPS

-----------------------------------------------------------------------------
(* The inductive invariant.  Where the backend's thread of a request is     *)
(* decides what the audit table and the bridge may know of the request.     *)

AuditRows == [request : Requests, operator_id : Operators,
              command_type : MissionCommands, decision : {"allowed", "denied"}]

CallOK ==
  /\ call \in [Requests -> [operator_id : Operators \cup {"none"},
                            command_type : Commands \cup {"none"}]]
  /\ \A r \in Requests :
       /\ stage[r] # "idle" => call[r].operator_id \in Operators
       /\ stage[r] \in {"allowed", "denied"} => call[r].command_type \in MissionCommands

\* Before its decision is recorded, nobody but its thread knows a request.
Undecided(r) ==
  stage[r] \in {"idle", "received", "allowed", "denied"} =>
    Rows(r) = {} /\ bridge[r] = "idle"

\* What the bridge has heard of was recorded as allowed before.
Permitted(r) ==
  /\ stage[r] \in {"sending", "waiting"} => RecordedOnce(r, "allowed")
  /\ bridge[r] # "idle" => RecordedOnce(r, "allowed")
  /\ stage[r] = "sending" => bridge[r] = "idle"

\* The bridge publishes once, between a request's arrival and its answer.
PublishedByBridge(r) ==
  /\ bridge[r] \in {"idle", "arrived", "failed"} => Publications(r) = {}
  /\ bridge[r] = "published" => PublishedOnce(r)
  /\ Publications(r) = {} \/ PublishedOnce(r)

\* What each status implies, the refusals with what they exclude for good.
StatusOK(r) ==
  /\ stage[r] # "answered" => status[r] = 0
  /\ status[r] = 200 => PublishedOnce(r) /\ bridge[r] \in {"published", "lost"}
  /\ status[r] \in {400, 403, 503} => bridge[r] = "idle"
  /\ status[r] = 502 => Publications(r) = {} /\ bridge[r] \in {"failed", "lost"}
  /\ status[r] = 403 => RecordedOnce(r, "denied")
  /\ status[r] \in {200, 502, 503, 504} => RecordedOnce(r, "allowed")

RequestOK(r) == Undecided(r) /\ Permitted(r) /\ PublishedByBridge(r) /\ StatusOK(r)

GatewayInv == TypeOK /\ CallOK /\ \A r \in Requests : RequestOK(r)

\* A request is sent after those answered before it, and published after them.
OrderInv ==
  /\ earlier \in [Requests -> SUBSET Requests]
  /\ \A s \in Requests : \A r \in earlier[s] : stage[r] = "answered"
  /\ AcceptedInOrder

-----------------------------------------------------------------------------
(* What a step that leaves the table or the topic alone preserves.          *)

\* Steps that record nothing change nothing of what is recorded.
LEMMA AuditKept ==
  ASSUME UNCHANGED <<call, audit>>, NEW q \in Requests
  PROVE  /\ Rows(q)' = Rows(q)
         /\ RecordedOnce(q, "allowed")' <=> RecordedOnce(q, "allowed")
         /\ RecordedOnce(q, "denied")' <=> RecordedOnce(q, "denied")
BY DEF Rows, RecordedOnce, AuditRow

\* Steps that publish nothing change nothing of what is published.
LEMMA PublishedKept ==
  ASSUME UNCHANGED published, NEW q \in Requests
  PROVE  /\ Publications(q)' = Publications(q)
         /\ PublishedOnce(q)' <=> PublishedOnce(q)
BY DEF Publications, PublishedOnce

\* A decision is appended: its request is now recorded once, and what is
\* recorded of the others stays.
LEMMA DecisionAppended ==
  ASSUME audit \in Seq(AuditRows), UNCHANGED call,
         NEW r \in Requests, NEW d \in {"allowed", "denied"},
         AuditRow(r, d) \in AuditRows, Rows(r) = {},
         audit' = Append(audit, AuditRow(r, d))
  PROVE  /\ audit' \in Seq(AuditRows)
         /\ RecordedOnce(r, d)'
         /\ \A q \in Requests \ {r} :
              /\ Rows(q)' = Rows(q)
              /\ RecordedOnce(q, "allowed")' <=> RecordedOnce(q, "allowed")
              /\ RecordedOnce(q, "denied")' <=> RecordedOnce(q, "denied")
<1> DEFINE n == Len(audit) + 1
<1>1. /\ audit' \in Seq(AuditRows)
      /\ Len(audit') = n
      /\ \A i \in 1..Len(audit) : audit'[i] = audit[i]
      /\ audit'[n] = AuditRow(r, d)
  BY AppendProperties
<1>2. Len(audit) \in Nat /\ n \in 1..n /\ 1..n = 1..Len(audit) \cup {n}
  BY LenProperties
<1>3. audit'[n].request = r
  BY <1>1 DEF AuditRow
<1>4. Rows(r)' = {n}
  BY <1>1, <1>2, <1>3 DEF Rows
<1>5. RecordedOnce(r, d)'
  BY <1>1, <1>4 DEF RecordedOnce, AuditRow
<1>6. ASSUME NEW q \in Requests \ {r}
      PROVE  /\ Rows(q)' = Rows(q)
             /\ \A i \in Rows(q) : audit'[i] = audit[i]
  BY <1>1, <1>2, <1>3 DEF Rows
<1>7. ASSUME NEW q \in Requests \ {r}, NEW e
      PROVE  RecordedOnce(q, e)' <=> RecordedOnce(q, e)
  BY <1>6 DEF RecordedOnce, AuditRow
<1> QED
  BY <1>1, <1>5, <1>6, <1>7

\* A command is published: its request is now published once, the newest.
LEMMA CommandPublished ==
  ASSUME published \in Seq(Requests), NEW r \in Requests, Publications(r) = {},
         published' = Append(published, r)
  PROVE  /\ published' \in Seq(Requests)
         /\ PublishedOnce(r)'
         /\ \A i \in Publications(r)' : i = Len(published) + 1
         /\ \A q \in Requests \ {r} :
              /\ Publications(q)' = Publications(q)
              /\ PublishedOnce(q)' <=> PublishedOnce(q)
<1> DEFINE n == Len(published) + 1
<1>1. /\ published' \in Seq(Requests)
      /\ Len(published') = n
      /\ \A i \in 1..Len(published) : published'[i] = published[i]
      /\ published'[n] = r
  BY AppendProperties
<1>2. Len(published) \in Nat /\ n \in 1..n /\ 1..n = 1..Len(published) \cup {n}
  BY LenProperties
<1>3. Publications(r)' = {n}
  BY <1>1, <1>2 DEF Publications
<1>4. ASSUME NEW q \in Requests \ {r}
      PROVE  Publications(q)' = Publications(q)
  BY <1>1, <1>2 DEF Publications
<1> QED
  BY <1>1, <1>3, <1>4 DEF PublishedOnce

\* A request that a step does not touch stays as consistent as it was.
LEMMA RequestKept ==
  ASSUME NEW q \in Requests, RequestOK(q),
         stage'[q] = stage[q], status'[q] = status[q], bridge'[q] = bridge[q],
         Rows(q)' = Rows(q),
         RecordedOnce(q, "allowed")' <=> RecordedOnce(q, "allowed"),
         RecordedOnce(q, "denied")' <=> RecordedOnce(q, "denied"),
         Publications(q)' = Publications(q),
         PublishedOnce(q)' <=> PublishedOnce(q)
  PROVE  RequestOK(q)'
BY DEF RequestOK, Undecided, Permitted, PublishedByBridge, StatusOK

-----------------------------------------------------------------------------
(* Every step keeps the inductive invariant.                               *)

\* What a thread does to its own request leaves the others as they were.
LEMMA OthersKept ==
  ASSUME GatewayInv, UNCHANGED <<call, audit, published>>, NEW r \in Requests,
         \A q \in Requests \ {r} :
           stage'[q] = stage[q] /\ status'[q] = status[q] /\ bridge'[q] = bridge[q]
  PROVE  \A q \in Requests \ {r} : RequestOK(q)'
<1> SUFFICES ASSUME NEW q \in Requests \ {r}
             PROVE  RequestOK(q)'
  OBVIOUS
<1>1. RequestOK(q)
  BY DEF GatewayInv
<1> QED
  BY <1>1, RequestKept, AuditKept, PublishedKept

\* The backend's answers: each is given where what it says is known.
LEMMA AnswerStep ==
  ASSUME GatewayInv, NEW r \in Requests,
         \/ Unsupported(r) \/ AuditFailure(r) \/ ConnectError(r) \/ Timeout(r)
         \/ Accept(r) \/ BadGateway(r) \/ ReadError(r)
  PROVE  GatewayInv'
<1> USE DEF Answer, Goto, At
<1>1. PICK code \in Codes : Answer(r, code)
  BY DEF Unsupported, AuditFailure, ConnectError, Timeout, Accept, BadGateway,
         ReadError, Codes
<1>2. UNCHANGED <<policy, call, bridge, bridge_up, audit, published, earlier>>
  BY DEF Unsupported, AuditFailure, ConnectError, Timeout, Accept, BadGateway, ReadError
<1>3. TypeOK'
  BY <1>1, <1>2 DEF GatewayInv, TypeOK, Stages
<1>4. stage'[r] = "answered" /\ status'[r] = code /\ bridge'[r] = bridge[r]
  BY <1>1, <1>2 DEF GatewayInv, TypeOK
<1>5. stage[r] # "idle"
  BY DEF Unsupported, AuditFailure, ConnectError, Timeout, Accept, BadGateway, ReadError
<1>6. CallOK'
  BY <1>1, <1>2, <1>5 DEF GatewayInv, CallOK, TypeOK
<1>7. \A q \in Requests \ {r} : RequestOK(q)'
  BY <1>1, <1>2, OthersKept DEF GatewayInv, TypeOK
<1>8. RequestOK(r) /\ status[r] = 0
  BY DEF GatewayInv, RequestOK, StatusOK, Unsupported, AuditFailure, ConnectError,
         Timeout, Accept, BadGateway, ReadError
<1>9. /\ RecordedOnce(r, "allowed")' <=> RecordedOnce(r, "allowed")
      /\ RecordedOnce(r, "denied")' <=> RecordedOnce(r, "denied")
      /\ Publications(r)' = Publications(r)
      /\ PublishedOnce(r)' <=> PublishedOnce(r)
  BY <1>2, AuditKept, PublishedKept
<1>10. /\ status'[r] = 200 => bridge[r] = "published"
       /\ status'[r] \in {400, 503} => bridge[r] = "idle"
       /\ status'[r] = 502 => bridge[r] = "failed"
       /\ status'[r] # 403
       /\ status'[r] \in {200, 502, 503, 504} => stage[r] \in {"sending", "waiting"}
  <2>1. CASE Unsupported(r)
    BY <2>1, <1>8 DEF Unsupported, RequestOK, Undecided, GatewayInv, TypeOK
  <2>2. CASE AuditFailure(r)
    BY <2>2 DEF AuditFailure, GatewayInv, TypeOK
  <2>3. CASE ConnectError(r)
    BY <2>3, <1>8 DEF ConnectError, RequestOK, Permitted, GatewayInv, TypeOK
  <2>4. CASE Timeout(r)
    BY <2>4 DEF Timeout, GatewayInv, TypeOK
  <2>5. CASE Accept(r)
    BY <2>5 DEF Accept, GatewayInv, TypeOK
  <2>6. CASE BadGateway(r)
    BY <2>6 DEF BadGateway, GatewayInv, TypeOK
  <2>7. CASE ReadError(r)
    BY <2>7 DEF ReadError, GatewayInv, TypeOK
  <2> QED
    BY <2>1, <2>2, <2>3, <2>4, <2>5, <2>6, <2>7
<1>11. Undecided(r)' /\ Permitted(r)' /\ PublishedByBridge(r)'
  BY <1>4, <1>8, <1>9 DEF RequestOK, Undecided, Permitted, PublishedByBridge
<1>12. StatusOK(r)'
  BY <1>4, <1>8, <1>9, <1>10 DEF RequestOK, Permitted, PublishedByBridge, StatusOK
<1> QED
  BY <1>3, <1>6, <1>7, <1>11, <1>12 DEF GatewayInv, RequestOK

\* Decisions are recorded by the thread of their request alone.
LEMMA DecisionStep ==
  ASSUME GatewayInv, NEW r \in Requests, Allow(r) \/ Deny(r)
  PROVE  GatewayInv'
<1> USE DEF Answer, Goto, At
<1>1. PICK d \in {"allowed", "denied"} :
        /\ audit' = Append(audit, AuditRow(r, d))
        /\ stage[r] = d
  BY DEF Allow, Deny
<1>2. UNCHANGED <<policy, call, bridge, bridge_up, published, earlier>>
  BY DEF Allow, Deny
<1>3. /\ d = "allowed" => stage'[r] = "sending" /\ status'[r] = status[r]
      /\ d = "denied" => stage'[r] = "answered" /\ status'[r] = 403
      /\ stage' \in [Requests -> Stages] /\ status' \in [Requests -> Codes]
      /\ \A q \in Requests \ {r} : stage'[q] = stage[q] /\ status'[q] = status[q]
  BY <1>1 DEF Allow, Deny, GatewayInv, TypeOK, Stages, Codes
<1>4. RequestOK(r) /\ Rows(r) = {} /\ bridge[r] = "idle" /\ status[r] = 0
  BY <1>1 DEF GatewayInv, RequestOK, Undecided, StatusOK
<1>5. AuditRow(r, d) \in AuditRows
  BY <1>1 DEF AuditRow, AuditRows, GatewayInv, CallOK
<1>6. audit \in Seq(AuditRows)
  BY DEF GatewayInv, TypeOK, AuditRows
<1>7. /\ audit' \in Seq(AuditRows)
      /\ RecordedOnce(r, d)'
      /\ \A q \in Requests \ {r} :
           /\ Rows(q)' = Rows(q)
           /\ RecordedOnce(q, "allowed")' <=> RecordedOnce(q, "allowed")
           /\ RecordedOnce(q, "denied")' <=> RecordedOnce(q, "denied")
  BY <1>1, <1>2, <1>4, <1>5, <1>6, DecisionAppended
<1>8. TypeOK'
  BY <1>2, <1>3, <1>7 DEF GatewayInv, TypeOK, AuditRows
<1>9. CallOK'
  BY <1>1, <1>2, <1>3 DEF GatewayInv, CallOK, TypeOK
<1>10. ASSUME NEW q \in Requests \ {r} PROVE RequestOK(q)'
  <2>1. RequestOK(q) /\ bridge'[q] = bridge[q]
    BY <1>2 DEF GatewayInv
  <2> QED
    BY <2>1, <1>2, <1>3, <1>7, RequestKept, PublishedKept
<1>11. /\ Publications(r)' = Publications(r)
       /\ PublishedOnce(r)' <=> PublishedOnce(r)
       /\ Publications(r) = {} /\ bridge'[r] = "idle"
  BY <1>2, <1>4, PublishedKept DEF RequestOK, PublishedByBridge
<1>12. RequestOK(r)'
  BY <1>1, <1>3, <1>4, <1>7, <1>11
     DEF RequestOK, Undecided, Permitted, PublishedByBridge, StatusOK
<1> QED
  BY <1>8, <1>9, <1>10, <1>12 DEF GatewayInv

\* A request comes in, is decided on, or goes on to the bridge.
LEMMA ProgressStep ==
  ASSUME GatewayInv, NEW r \in Requests,
         \/ \E op \in Operators, cmd \in Commands : Send(r, op, cmd)
         \/ Authorize(r) \/ Forward(r)
  PROVE  GatewayInv'
<1> USE DEF Goto, At
<1>1. CASE \E op \in Operators, cmd \in Commands : Send(r, op, cmd)
  <2>1. PICK op \in Operators, cmd \in Commands : Send(r, op, cmd)
    BY <1>1
  <2>2. /\ stage[r] = "idle" /\ stage'[r] = "received"
        /\ UNCHANGED <<policy, status, bridge, bridge_up, audit, published>>
        /\ call'[r] = [operator_id |-> op, command_type |-> cmd]
        /\ \A q \in Requests \ {r} : stage'[q] = stage[q] /\ call'[q] = call[q]
    BY <2>1 DEF Send, GatewayInv, TypeOK, CallOK
  <2>3. TypeOK'
    BY <2>1, <2>2 DEF Send, GatewayInv, TypeOK, Stages
  <2>4. CallOK'
    BY <2>1, <2>2 DEF Send, GatewayInv, TypeOK, CallOK
  <2>5. RequestOK(r) /\ Rows(r) = {} /\ bridge[r] = "idle" /\ status[r] = 0
    BY <2>2 DEF GatewayInv, RequestOK, Undecided, StatusOK
  <2>6. ASSUME NEW q \in Requests \ {r} PROVE RequestOK(q)'
    <3>1. /\ Rows(q)' = Rows(q)
          /\ RecordedOnce(q, "allowed")' <=> RecordedOnce(q, "allowed")
          /\ RecordedOnce(q, "denied")' <=> RecordedOnce(q, "denied")
      BY <2>2 DEF Rows, RecordedOnce, AuditRow
    <3>2. RequestOK(q)
      BY DEF GatewayInv
    <3> QED
      BY <3>1, <3>2, <2>2, RequestKept, PublishedKept
  <2>7. Rows(r)' = Rows(r) /\ Publications(r)' = Publications(r) /\ Publications(r) = {}
    BY <2>2, <2>5, PublishedKept DEF Rows, RequestOK, PublishedByBridge
  <2>8. RequestOK(r)'
    BY <2>2, <2>5, <2>7 DEF RequestOK, Undecided, Permitted, PublishedByBridge, StatusOK
  <2> QED
    BY <2>3, <2>4, <2>6, <2>8 DEF GatewayInv
<1>2. CASE Authorize(r)
  <2>1. /\ stage[r] = "received" /\ stage'[r] \in {"allowed", "denied"}
        /\ call[r].command_type \in MissionCommands
        /\ stage' \in [Requests -> Stages]
        /\ UNCHANGED <<policy, call, status, bridge, bridge_up, audit, published>>
        /\ \A q \in Requests \ {r} : stage'[q] = stage[q]
    BY <1>2 DEF Authorize, GatewayInv, TypeOK, Stages
  <2>2. TypeOK'
    BY <2>1 DEF GatewayInv, TypeOK
  <2>3. CallOK'
    BY <2>1 DEF GatewayInv, CallOK
  <2>4. \A q \in Requests \ {r} : RequestOK(q)'
    BY <2>1, OthersKept
  <2>5. RequestOK(r)'
    <3>1. RequestOK(r) /\ Rows(r)' = Rows(r) /\ Publications(r)' = Publications(r)
          /\ (PublishedOnce(r)' <=> PublishedOnce(r))
      BY <2>1, AuditKept, PublishedKept DEF GatewayInv
    <3> QED
      BY <2>1, <3>1 DEF RequestOK, Undecided, Permitted, PublishedByBridge, StatusOK
  <2> QED
    BY <2>2, <2>3, <2>4, <2>5 DEF GatewayInv
<1>3. CASE Forward(r)
  <2>1. /\ stage[r] = "sending" /\ stage'[r] = "waiting" /\ bridge'[r] = "arrived"
        /\ stage' \in [Requests -> Stages]
        /\ bridge' \in [Requests -> {"idle", "arrived", "published", "failed", "lost"}]
        /\ UNCHANGED <<policy, call, status, bridge_up, audit, published>>
        /\ \A q \in Requests \ {r} : stage'[q] = stage[q] /\ bridge'[q] = bridge[q]
    BY <1>3 DEF Forward, GatewayInv, TypeOK, Stages
  <2>2. TypeOK'
    BY <2>1 DEF GatewayInv, TypeOK
  <2>3. CallOK'
    BY <2>1 DEF GatewayInv, CallOK
  <2>4. \A q \in Requests \ {r} : RequestOK(q)'
    BY <2>1, OthersKept
  <2>5. RequestOK(r)'
    <3>1. /\ RequestOK(r)
          /\ RecordedOnce(r, "allowed")' <=> RecordedOnce(r, "allowed")
          /\ Publications(r)' = Publications(r)
          /\ PublishedOnce(r)' <=> PublishedOnce(r)
      BY <2>1, AuditKept, PublishedKept DEF GatewayInv
    <3> QED
      BY <2>1, <3>1 DEF RequestOK, Undecided, Permitted, PublishedByBridge, StatusOK
  <2> QED
    BY <2>2, <2>3, <2>4, <2>5 DEF GatewayInv
<1> QED
  BY <1>1, <1>2, <1>3

\* The bridge publishes what has arrived, or fails to.
LEMMA BridgeStep ==
  ASSUME GatewayInv, NEW r \in Requests, Publish(r) \/ PublishError(r)
  PROVE  GatewayInv'
<1>1. /\ bridge[r] = "arrived"
      /\ UNCHANGED <<policy, call, stage, status, bridge_up, audit>>
      /\ bridge' \in [Requests -> {"idle", "arrived", "published", "failed", "lost"}]
      /\ \A q \in Requests \ {r} : bridge'[q] = bridge[q]
  BY DEF Publish, PublishError, GatewayInv, TypeOK
<1>2. /\ RequestOK(r) /\ Publications(r) = {}
      /\ published \in Seq(Requests)
  BY <1>1 DEF GatewayInv, RequestOK, PublishedByBridge, TypeOK
<1>3. ASSUME NEW q \in Requests
      PROVE  /\ Rows(q)' = Rows(q)
             /\ RecordedOnce(q, "allowed")' <=> RecordedOnce(q, "allowed")
             /\ RecordedOnce(q, "denied")' <=> RecordedOnce(q, "denied")
  BY <1>1, AuditKept
<1>4. CallOK'
  BY <1>1 DEF GatewayInv, CallOK
<1>5. CASE Publish(r)
  <2>1. /\ published' \in Seq(Requests)
        /\ PublishedOnce(r)'
        /\ \A q \in Requests \ {r} :
             /\ Publications(q)' = Publications(q)
             /\ PublishedOnce(q)' <=> PublishedOnce(q)
    BY <1>2, <1>5, CommandPublished DEF Publish
  <2>2. TypeOK'
    BY <1>1, <2>1 DEF GatewayInv, TypeOK
  <2>3. ASSUME NEW q \in Requests \ {r} PROVE RequestOK(q)'
    BY <1>1, <1>3, <2>1, RequestKept DEF GatewayInv
  <2>4. bridge'[r] = "published"
    BY <1>5 DEF Publish, GatewayInv, TypeOK
  <2>5. RequestOK(r)'
    BY <1>1, <1>2, <1>3, <2>1, <2>4
       DEF RequestOK, Undecided, Permitted, PublishedByBridge, StatusOK
  <2> QED
    BY <1>4, <2>2, <2>3, <2>5 DEF GatewayInv
<1>6. CASE PublishError(r)
  <2>1. bridge'[r] = "failed" /\ published' = published
    BY <1>6 DEF PublishError, GatewayInv, TypeOK
  <2>2. TypeOK'
    BY <1>1, <2>1 DEF GatewayInv, TypeOK
  <2>3. ASSUME NEW q \in Requests
        PROVE  /\ Publications(q)' = Publications(q)
               /\ PublishedOnce(q)' <=> PublishedOnce(q)
    BY <2>1, PublishedKept
  <2>4. ASSUME NEW q \in Requests \ {r} PROVE RequestOK(q)'
    BY <1>1, <1>3, <2>3, RequestKept DEF GatewayInv
  <2>5. RequestOK(r)'
    BY <1>1, <1>2, <1>3, <2>1, <2>3
       DEF RequestOK, Undecided, Permitted, PublishedByBridge, StatusOK
  <2> QED
    BY <1>4, <2>2, <2>4, <2>5 DEF GatewayInv
<1> QED
  BY <1>5, <1>6

\* A process dies or comes back, or the policy file is rewritten: what threads
\* had not finished stays unfinished.
LEMMA EnvironmentStep ==
  ASSUME GatewayInv, BridgeDown \/ BridgeUp \/ BackendCrash \/ ChangePolicy
  PROVE  GatewayInv'
<1>1. UNCHANGED <<call, audit, published>>
  BY DEF BridgeDown, BridgeUp, BackendCrash, ChangePolicy
<1>2. ASSUME NEW q \in Requests
      PROVE  /\ RequestOK(q)
             /\ Rows(q)' = Rows(q)
             /\ RecordedOnce(q, "allowed")' <=> RecordedOnce(q, "allowed")
             /\ RecordedOnce(q, "denied")' <=> RecordedOnce(q, "denied")
             /\ Publications(q)' = Publications(q)
             /\ PublishedOnce(q)' <=> PublishedOnce(q)
  BY <1>1, AuditKept, PublishedKept DEF GatewayInv
<1>3. CASE BridgeDown
  <2>1. TypeOK' /\ CallOK'
    BY <1>3 DEF BridgeDown, GatewayInv, TypeOK, CallOK
  <2>2. ASSUME NEW q \in Requests PROVE RequestOK(q)'
    <3>1. /\ bridge'[q] = IF bridge[q] = "idle" THEN "idle" ELSE "lost"
          /\ stage'[q] = stage[q] /\ status'[q] = status[q]
      BY <1>3 DEF BridgeDown
    <3> QED
      BY <1>2, <3>1 DEF RequestOK, Undecided, Permitted, PublishedByBridge, StatusOK
  <2> QED
    BY <2>1, <2>2 DEF GatewayInv
<1>4. CASE BackendCrash
  <2>1. TypeOK' /\ CallOK'
    BY <1>4 DEF BackendCrash, GatewayInv, TypeOK, CallOK, Stages, Codes
  <2>2. ASSUME NEW q \in Requests PROVE RequestOK(q)'
    <3>1. /\ bridge'[q] = bridge[q]
          /\ stage'[q] = IF stage[q] = "idle" THEN "idle" ELSE "answered"
          /\ status'[q] = IF stage[q] \in {"idle", "answered"} THEN status[q] ELSE NoAnswer
      BY <1>4 DEF BackendCrash
    <3> QED
      BY <1>2, <3>1
         DEF RequestOK, Undecided, Permitted, PublishedByBridge, StatusOK, NoAnswer
  <2> QED
    BY <2>1, <2>2 DEF GatewayInv
<1>5. CASE BridgeUp \/ ChangePolicy
  <2>1. UNCHANGED <<stage, status, bridge>>
    BY <1>5 DEF BridgeUp, ChangePolicy
  <2>2. TypeOK' /\ CallOK'
    BY <1>5 DEF BridgeUp, ChangePolicy, GatewayInv, TypeOK, CallOK
  <2>3. ASSUME NEW q \in Requests PROVE RequestOK(q)'
    BY <1>2, <2>1, RequestKept
  <2> QED
    BY <2>2, <2>3 DEF GatewayInv
<1> QED
  BY <1>3, <1>4, <1>5

\* A step that changes nothing.
LEMMA IdleStep ==
  ASSUME GatewayInv, UNCHANGED gateway
  PROVE  GatewayInv'
<1>1. TypeOK' /\ CallOK'
  BY DEF GatewayInv, TypeOK, CallOK, gateway
<1>2. ASSUME NEW q \in Requests PROVE RequestOK(q)'
  <2>1. RequestOK(q) /\ UNCHANGED <<call, audit, published, stage, status, bridge>>
    BY DEF GatewayInv, gateway
  <2> QED
    BY <2>1, RequestKept, AuditKept, PublishedKept
<1> QED
  BY <1>1, <1>2 DEF GatewayInv

LEMMA GatewayInitially ==
  ASSUME GatewayAssumption, Init
  PROVE  GatewayInv
<1>1. TypeOK /\ CallOK
  BY DEF GatewayAssumption, Init, TypeOK, CallOK, NoCall, Stages, Codes
<1>2. ASSUME NEW q \in Requests PROVE RequestOK(q)
  BY DEF Init, RequestOK, Undecided, Permitted, PublishedByBridge, StatusOK, Rows,
         Publications
<1> QED
  BY <1>1, <1>2 DEF GatewayInv

\* The inductive invariant holds in every reachable state.
THEOREM GatewayConsistent == Safety => []GatewayInv
<1>1. Init => GatewayInv
  BY GatewayAssumption, GatewayInitially
<1>2. GatewayInv /\ [Next]_gateway => GatewayInv'
  <2> SUFFICES ASSUME GatewayInv, [Next]_gateway
               PROVE  GatewayInv'
    OBVIOUS
  <2>1. CASE \E r \in Requests, op \in Operators, cmd \in Commands : Send(r, op, cmd)
    BY <2>1, ProgressStep
  <2>2. CASE \E r \in Requests : Backend(r)
    BY <2>2, ProgressStep, DecisionStep, AnswerStep DEF Backend
  <2>3. CASE \E r \in Requests : Publish(r) \/ PublishError(r)
    BY <2>3, BridgeStep
  <2>4. CASE BridgeDown \/ BridgeUp \/ BackendCrash \/ ChangePolicy
    BY <2>4, EnvironmentStep
  <2>5. CASE UNCHANGED gateway
    BY <2>5, IdleStep
  <2> QED
    BY <2>1, <2>2, <2>3, <2>4, <2>5 DEF Next
<1> QED
  BY <1>1, <1>2, PTL DEF Safety

-----------------------------------------------------------------------------
(* The properties.                                                         *)

\* The variables keep their types: the audit table holds decisions on the five
\* mission commands only, for every number of requests.
THEOREM GatewayTypeCorrect == Safety => []TypeOK
<1>1. GatewayInv => TypeOK
  BY DEF GatewayInv
<1> QED
  BY <1>1, GatewayConsistent, PTL

\* Whatever mission/command carries was permitted to just this operator, and
\* the permission is in the audit table.
THEOREM PublishedCommandsWereAllowed == Safety => []PublishedWasAllowed
<1>1. GatewayInv => PublishedWasAllowed
  <2> SUFFICES ASSUME GatewayInv, NEW i \in 1..Len(published)
               PROVE  \E j \in Rows(published[i]) : audit[j] = AuditRow(published[i], "allowed")
    BY DEF PublishedWasAllowed
  <2>1. published[i] \in Requests
    BY ElementOfSeq DEF GatewayInv, TypeOK
  <2>2. RequestOK(published[i])
    BY <2>1 DEF GatewayInv
  <2>3. Publications(published[i]) # {}
    BY DEF Publications
  <2>4. RecordedOnce(published[i], "allowed")
    BY <2>2, <2>3 DEF RequestOK, PublishedByBridge, Permitted
  <2> QED
    BY <2>4 DEF RecordedOnce
<1> QED
  BY <1>1, GatewayConsistent, PTL

\* The status an operator sees tells what became of the command: a 200 that it
\* was published once, a refusal that it will never be.
THEOREM StatusesTellEffects == Safety => []StatusTellsEffect
<1>1. ASSUME NEW r \in Requests, RequestOK(r)
      PROVE  /\ Publications(r) = {} \/ PublishedOnce(r)
             /\ status[r] = 200 => PublishedOnce(r)
             /\ status[r] \in {400, 403, 502, 503} =>
                  Publications(r) = {} /\ bridge[r] # "arrived"
  BY <1>1 DEF RequestOK, PublishedByBridge, StatusOK
<1>2. GatewayInv => StatusTellsEffect
  BY <1>1 DEF GatewayInv, StatusTellsEffect
<1> QED
  BY <1>2, GatewayConsistent, PTL

\* Every answered decision is in the audit table, once.
THEOREM DecisionsRecorded == Safety => []DecisionRecorded
<1>1. ASSUME NEW r \in Requests, RequestOK(r)
      PROVE  /\ status[r] = 403 => RecordedOnce(r, "denied")
             /\ status[r] \in {200, 502, 503, 504} => RecordedOnce(r, "allowed")
  BY <1>1 DEF RequestOK, StatusOK
<1>2. GatewayInv => DecisionRecorded
  BY <1>1 DEF GatewayInv, DecisionRecorded
<1> QED
  BY <1>2, GatewayConsistent, PTL

\* Rows of the audit table are never changed or removed, by any step.
THEOREM AuditOnlyGrows == Safety => AuditAppendOnly
<1> DEFINE Grows == /\ Len(audit') >= Len(audit)
                    /\ \A i \in 1..Len(audit) : audit'[i] = audit[i]
<1>1. ASSUME GatewayInv, NEW r \in Requests, Allow(r) \/ Deny(r)
      PROVE  Grows
  <2>1. PICK d \in {"allowed", "denied"} :
          audit' = Append(audit, AuditRow(r, d)) /\ stage[r] = d
    BY <1>1 DEF Allow, Deny, At
  <2>2. AuditRow(r, d) \in AuditRows /\ audit \in Seq(AuditRows)
    BY <1>1, <2>1 DEF GatewayInv, TypeOK, CallOK, AuditRow, AuditRows
  <2> QED
    BY <2>1, <2>2, AppendProperties, LenProperties
<1>2. ASSUME GatewayInv, UNCHANGED audit
      PROVE  Grows
  <2>1. Len(audit) \in Nat
    BY <1>2, LenProperties DEF GatewayInv, TypeOK
  <2> QED
    BY <1>2, <2>1
<1>3. ASSUME Next
      PROVE  UNCHANGED audit \/ \E r \in Requests : Allow(r) \/ Deny(r)
  BY <1>3 DEF Next, Backend, Send, Unsupported, Authorize, AuditFailure, Forward,
         ConnectError, Timeout, Accept, BadGateway, ReadError, Publish, PublishError,
         BridgeDown, BridgeUp, BackendCrash, ChangePolicy
<1>4. GatewayInv /\ [Next]_gateway => [Grows]_gateway
  BY <1>1, <1>2, <1>3
<1> QED
  BY <1>4, GatewayConsistent, PTL DEF Safety, AuditAppendOnly

\* Commands whose operators waited for one another go to the mission in their
\* order: a request that was sent after a 200 is published after it.
THEOREM PublishedInOrder == Safety => []AcceptedInOrder
<1>1. Init => OrderInv
  BY DEF Init, OrderInv, AcceptedInOrder
<1>2. GatewayInv /\ OrderInv /\ [Next]_gateway => OrderInv'
  <2> SUFFICES ASSUME GatewayInv, OrderInv, [Next]_gateway
               PROVE  OrderInv'
    OBVIOUS
  <2>1. ASSUME NEW r \in Requests, stage[r] = "answered"
        PROVE  stage'[r] = "answered" /\ status'[r] = status[r]
    BY <2>1 DEF Next, Backend, Send, Unsupported, Authorize, Deny, Allow, AuditFailure,
           Forward, ConnectError, Timeout, Accept, BadGateway, ReadError, Publish,
           PublishError, BridgeDown, BridgeUp, BackendCrash, ChangePolicy, gateway,
           GatewayInv, TypeOK, Answer, Goto, At
  <2>2. CASE \E s \in Requests, op \in Operators, cmd \in Commands : Send(s, op, cmd)
    <3>1. PICK s \in Requests, op \in Operators, cmd \in Commands : Send(s, op, cmd)
      BY <2>2
    <3>2. /\ stage[s] = "idle" /\ published' = published /\ status' = status
          /\ earlier' = [earlier EXCEPT ![s] = Answered]
      BY <3>1 DEF Send, At
    <3>3. earlier' \in [Requests -> SUBSET Requests]
      BY <3>2 DEF OrderInv, Answered
    <3>4. ASSUME NEW q \in Requests, NEW r \in earlier'[q]
          PROVE  stage'[r] = "answered"
      BY <3>2, <3>4, <2>1 DEF OrderInv, Answered
    <3>5. ASSUME NEW q \in Requests PROVE Publications(q)' = Publications(q)
      BY <3>2, PublishedKept
    <3>6. Publications(s) = {}
      BY <3>2 DEF GatewayInv, RequestOK, Undecided, PublishedByBridge
    <3>7. AcceptedInOrder'
      BY <3>2, <3>5, <3>6 DEF OrderInv, AcceptedInOrder
    <3> QED
      BY <3>3, <3>4, <3>7 DEF OrderInv
  <2>3. CASE \E s \in Requests : Publish(s)
    <3>1. PICK s \in Requests : Publish(s)
      BY <2>3
    <3>2. /\ bridge[s] = "arrived" /\ published' = Append(published, s)
          /\ UNCHANGED <<stage, status, earlier>>
      BY <3>1 DEF Publish
    <3>3. Publications(s) = {} /\ status[s] # 200 /\ published \in Seq(Requests)
      BY <3>2 DEF GatewayInv, TypeOK, RequestOK, PublishedByBridge, StatusOK
    <3>4. /\ \A i \in Publications(s)' : i = Len(published) + 1
          /\ \A q \in Requests \ {s} : Publications(q)' = Publications(q)
      BY <3>2, <3>3, CommandPublished
    <3>5. \A q \in Requests : \A i \in Publications(q) : i \in Int /\ i < Len(published) + 1
      BY <3>3, LenProperties DEF Publications
    <3>6. AcceptedInOrder'
      BY <3>2, <3>3, <3>4, <3>5 DEF OrderInv, AcceptedInOrder
    <3> QED
      BY <3>2, <3>6 DEF OrderInv
  <2>4. CASE UNCHANGED <<published, earlier>>
    <3>1. ASSUME NEW q \in Requests PROVE Publications(q)' = Publications(q)
      BY <2>4, PublishedKept
    <3>2. ASSUME NEW s \in Requests, NEW r \in earlier[s]
          PROVE  r \in Requests /\ stage'[r] = "answered" /\ status'[r] = status[r]
      BY <3>2, <2>1 DEF OrderInv
    <3>3. AcceptedInOrder'
      BY <2>4, <3>1, <3>2 DEF OrderInv, AcceptedInOrder
    <3> QED
      BY <2>4, <3>2, <3>3 DEF OrderInv
  <2>5. \/ \E s \in Requests, op \in Operators, cmd \in Commands : Send(s, op, cmd)
        \/ \E s \in Requests : Publish(s)
        \/ UNCHANGED <<published, earlier>>
    BY DEF Next, Backend, Unsupported, Authorize, Deny, Allow, AuditFailure,
           Forward, ConnectError, Timeout, Accept, BadGateway, ReadError,
           PublishError, BridgeDown, BridgeUp, BackendCrash, ChangePolicy, gateway
  <2> QED
    BY <2>2, <2>3, <2>4, <2>5
<1>3. OrderInv => AcceptedInOrder
  BY DEF OrderInv
<1> QED
  BY <1>1, <1>2, <1>3, GatewayConsistent, PTL DEF Safety
=============================================================================
