---------------------------- MODULE CollectorProofs ----------------------------
(***************************************************************************)
(* Proofs about the safety properties of Collector, for any number of      *)
(* clients and any scripts.                                                *)
(*                                                                         *)
(* Replies carry no request number, so everything rests on a client having *)
(* at most one request outstanding: it is on its way to the collector,     *)
(* being served, or answered, and only while the client waits for it.      *)
(***************************************************************************)
EXTENDS Collector, ObservatoryProofs, SequenceTheorems

(***************************************************************************)
(* The inductive invariant.                                                *)
(***************************************************************************)

\* What the collector may answer.
Reply ==
  [ type : {"Ack"}, request : Nat,
    text : {"registered", "epoch", "accepted", "REJECT", "ok"} ]
  \cup [ type : {"Status"}, request : Nat, epoch : Nat, generation : Nat ]

CTypeOK ==
  /\ TypeOK
  /\ script \in [Client -> Seq(Frame)]
  /\ client_pc \in [Client -> {"start", "send", "await", "closed"}]
  /\ next \in [Client -> Nat \ {0}]
  /\ inbound \in [Client -> Seq(Nat)]
  /\ outbound \in [Client -> Seq(Reply)]
  /\ replies \in [Client -> Seq(Reply)]
  /\ asked \in [Client -> [SourceId -> Nat]]
  /\ backlog \in Seq(Client)
  /\ thread \in [Client -> {"none", "check", "recv", "serve", "status", "reply", "exited"}]
  /\ current \in [Client -> Nat]
  /\ answer \in [Client -> Reply \cup {Nil}]

\* The connection works at both ends, as far as the collector goes.
Live(c) == Up /\ thread[c] # "exited"

\* The thread of a connection has a request in hand.
Busy(c) == thread[c] \in {"serve", "status", "reply"}

\* At most one request of a client is outstanding, and it is the one at which
\* the client is.
OneOutstanding(c) ==
  /\ Len(outbound[c]) <= 1
  /\ Len(outbound[c]) = 1 =>
       outbound[c][1].request = next[c] /\ client_pc[c] \in {"await", "closed"}
  /\ Live(c) =>
       /\ Len(inbound[c]) <= 1
       /\ Len(inbound[c]) = 1 =>
            /\ inbound[c][1] = next[c] /\ next[c] <= Len(script[c])
            /\ client_pc[c] \in {"await", "closed"}
            /\ ~Busy(c) /\ Len(outbound[c]) = 0
       /\ Busy(c) =>
            /\ current[c] = next[c] /\ next[c] <= Len(script[c])
            /\ client_pc[c] \in {"await", "closed"}
            /\ Len(outbound[c]) = 0

\* The reply a thread is building is for the request it has in hand.
AnswerMatches(c) ==
  Live(c) =>
    /\ thread[c] \in {"status", "reply"} =>
         answer[c] \in Reply /\ answer[c].request = current[c]
    /\ thread[c] = "status" =>
         answer[c].type = "Status" /\ Request(c).payload \in SourceId

Elements(seq) == { seq[k] : k \in 1..Len(seq) }

\* The reply a thread is about to send.
Built(c) == IF thread[c] = "reply" THEN {answer[c]} ELSE {}

\* The record of a request is held by the engine.
InEngine(f) ==
  \/ f.type = "Observation" /\
       \E i \in 1..Len(obs) : obs[i].observation_id = f.payload.observation_id
  \/ f.type = "Decision" /\ \E i \in 1..Len(dec) : dec[i] = f.payload
  \/ f.type = "Outcome" /\
       \E k \in DecisionId :
         k = f.payload.decision_id /\ outcomes[k] # Nil /\ outcomes[k] = f.payload

Backed(c, r) == r.type = "Ack" /\ r.text = "accepted" => InEngine(script[c][r.request])

\* What a client was told, or will be.
Said(c) == Elements(replies[c]) \cup Elements(outbound[c]) \cup Built(c)

\* An acknowledgement speaks of evidence that the engine holds.
Acked(c) == \A r \in Said(c) : Backed(c, r)

Recent(c, r) ==
  r.type = "Status" =>
    LET s == script[c][r.request].payload
    IN s \in SourceId /\ asked[c][s] <= r.generation /\ r.generation <= src_gen[s]

\* The replies on their way to a client.
Coming(c) == Elements(outbound[c]) \cup (IF Live(c) THEN Built(c) ELSE {})

\* A generation on its way to a client is recent.
Fresh(c) ==
  /\ \A r \in Coming(c) : Recent(c, r)
  /\ \A s \in SourceId : asked[c][s] <= src_gen[s]

ClientInv(c) == OneOutstanding(c) /\ AnswerMatches(c) /\ Acked(c) /\ Fresh(c)

\* A connection is accepted once.
BacklogOnce ==
  /\ \A i \in 1..Len(backlog) :
       thread[backlog[i]] = "none" /\ client_pc[backlog[i]] # "start"
  /\ \A i, j \in 1..Len(backlog) : i < j => backlog[i] # backlog[j]
  /\ \A c \in Client : client_pc[c] = "start" => thread[c] = "none"

\* After the joins nobody changes the engine any more.
JoinedFirst ==
  /\ main \in {"persist", "return", "done"} => Joined
  /\ main \in {"return", "done"} => trace = EngineTrace

CInv == CTypeOK /\ (\A c \in Client : ClientInv(c)) /\ BacklogOnce /\ JoinedFirst

(***************************************************************************)
(* The collector changes the engine only by the engine's own operations.   *)
(***************************************************************************)

\* What a payload is, by the type of its frame.
LEMMA FramePayload ==
  ASSUME NEW f \in Frame
  PROVE /\ f.type = "RegisterSource" => f.payload \in Descriptors \cup {Undecodable}
        /\ f.type = "CoordinatorEpoch" => f.payload \in Epochs \cup {Undecodable}
        /\ f.type = "Observation" => f.payload \in Observations \cup {Undecodable}
        /\ f.type = "Decision" => f.payload \in Decisions \cup {Undecodable}
        /\ f.type = "Outcome" => f.payload \in Outcomes \cup {Undecodable}
        /\ f.type = "Status" => f.payload \in SourceId \cup {Undecodable}
<1>1. CASE f \in UNION { FramesOf(t, {Nil}) : t \in Unhandled }
  <2>1. PICK t \in Unhandled : f \in FramesOf(t, {Nil})
    BY <1>1
  <2>2. f.type \in Unhandled
    BY <2>1 DEF FramesOf
  <2> QED BY <2>2 DEF Unhandled
<1>2. CASE f \notin UNION { FramesOf(t, {Nil}) : t \in Unhandled }
  BY <1>2 DEF Frame, FramesOf
<1> QED BY <1>1, <1>2

LEMMA ServedByEngine ==
  ASSUME NEW f \in Frame, ~Throws(f), Apply(f)
  PROVE [Next]_vars
<1>1. f.type \in Unhandled => UNCHANGED vars
  BY DEF Apply, Unhandled
<1>2. f.type \notin Unhandled => f.payload # Undecodable \/ f.type = "Shutdown"
  BY DEF Throws
<1>3. CASE f.type = "RegisterSource" /\ register_source(f.payload)
  BY <1>2, <1>3, FramePayload DEF Next, Unhandled
<1>4. CASE f.type = "CoordinatorEpoch" /\ set_coordinator_epoch(f.payload)
  BY <1>2, <1>4, FramePayload DEF Next, Unhandled
<1>5. CASE f.type = "Observation" /\ ingest(f.payload)
  BY <1>2, <1>5, FramePayload DEF Next, Unhandled
<1>6. CASE f.type = "Decision" /\ ingest_decision(f.payload)
  BY <1>2, <1>6, FramePayload DEF Next, Unhandled
<1>7. CASE f.type = "Outcome" /\ ingest_outcome(f.payload)
  BY <1>2, <1>7, FramePayload DEF Next, Unhandled
<1>8. CASE f.type \in Unhandled /\ UNCHANGED vars
  BY <1>8
<1> QED BY <1>3, <1>4, <1>5, <1>6, <1>7, <1>8 DEF Apply

\* A thread with a request in hand has a frame of its client's script.
LEMMA RequestIsFrame ==
  ASSUME CTypeOK, NEW c \in Client, OneOutstanding(c), Live(c), Busy(c)
  PROVE current[c] \in 1..Len(script[c]) /\ Request(c) \in Frame
<1>1. current[c] = next[c] /\ next[c] <= Len(script[c])
  BY DEF OneOutstanding
<1>2. script[c] \in Seq(Frame) /\ next[c] \in Nat \ {0}
  BY DEF CTypeOK
<1>3. current[c] \in 1..Len(script[c])
  BY <1>1, <1>2
<1> HIDE DEF Frame
<1>4. script[c][current[c]] \in Frame
  BY <1>2, <1>3
<1> QED BY <1>3, <1>4 DEF Request

\* Only a thread that serves a request changes the engine.
LEMMA EngineStep ==
  ASSUME CInv, [CNext]_cvars
  PROVE [Next]_vars
<1>1. CASE UNCHANGED cvars
  BY <1>1 DEF cvars
<1>2. CASE MainStep
  BY <1>2 DEF MainStep, MainCheck, MainPoll, MainAccept, MainJoin, MainPersist, MainReturn,
              MainOnly
<1>3. ASSUME NEW c \in Client, ClientStep(c) \/ Stop(c)
      PROVE UNCHANGED vars
  BY <1>3 DEF ClientStep, Connect, SendFrame, ReadReply, Finish, Stop, Close
<1>4. ASSUME NEW c \in Client, ThreadStep(c)
      PROVE [Next]_vars
  <2>1. CASE ServeRequest(c)
    <3>1. Live(c) /\ Busy(c) /\ OneOutstanding(c)
      BY <2>1 DEF ServeRequest, Live, Busy, CInv, ClientInv
    <3>2. Request(c) \in Frame
      BY <3>1, RequestIsFrame DEF CInv
    <3> QED BY <2>1, <3>2, ServedByEngine DEF ServeRequest
  <2>2. CASE ~ServeRequest(c)
    BY <1>4, <2>2 DEF ThreadStep, CheckRunning, RecvFrame, RecvClosed, ServeStatusEpoch,
         ServeStatusGeneration, ServeShutdown, Terminate, SendReply, ThreadOnly
  <2> QED BY <2>1, <2>2
<1> QED BY <1>1, <1>2, <1>3, <1>4 DEF CNext

LEMMA EngineTyped ==
  ASSUME CInv, [CNext]_cvars
  PROVE TypeOK'
BY EngineStep, NextTypeOK DEF CInv, CTypeOK

(***************************************************************************)
(* Types.                                                                  *)
(***************************************************************************)

\* A client's step.
LEMMA ClientTyped ==
  ASSUME CInv, [CNext]_cvars, NEW c \in Client, ClientStep(c) \/ Stop(c)
  PROVE CTypeOK'
<1> USE DEF CInv, CTypeOK, GoTo
<1> HIDE DEF Frame, Reply, TypeOK
<1>0. TypeOK'
  BY EngineTyped
<1>1. CASE Connect(c)
  <2>1. backlog' \in Seq(Client) /\ client_pc' \in [Client -> {"start", "send", "await", "closed"}]
    <3>1. CASE Up
      <4>1. backlog' = Append(backlog, c) /\ client_pc' = [client_pc EXCEPT ![c] = "send"]
        BY <1>1, <3>1 DEF Connect
      <4> QED BY <4>1
    <3>2. CASE ~Up
      BY <1>1, <3>2 DEF Connect
    <3> QED BY <3>1, <3>2
  <2> QED BY <1>0, <1>1, <2>1 DEF Connect, threadVars
<1>2. CASE SendFrame(c)
  <2>1. src_gen \in [SourceId -> Nat]
    BY DEF TypeOK
  <2>2. asked' \in [Client -> [SourceId -> Nat]]
    BY <1>2, <2>1 DEF SendFrame
  <2>3. inbound' \in [Client -> Seq(Nat)]
    BY <1>2 DEF SendFrame
  <2> QED BY <1>0, <1>2, <2>2, <2>3 DEF SendFrame, threadVars
<1>3. CASE ReadReply(c)
  <2>1. replies' \in [Client -> Seq(Reply)] /\ outbound' \in [Client -> Seq(Reply)]
    <3>1. outbound[c] \in Seq(Reply) /\ replies[c] \in Seq(Reply) /\ <<>> \in Seq(Reply)
      OBVIOUS
    <3>2. CASE outbound[c] # <<>> /\ replies' = [replies EXCEPT ![c] = Append(@, Head(outbound[c]))]
                /\ outbound' = [outbound EXCEPT ![c] = Tail(@)]
      <4>1. Tail(outbound[c]) \in Seq(Reply) /\ Append(replies[c], Head(outbound[c])) \in Seq(Reply)
        BY <3>1, <3>2
      <4> QED BY <3>2, <4>1
    <3>3. CASE outbound' = [outbound EXCEPT ![c] = <<>>] /\ replies' = replies
      BY <3>1, <3>3
    <3> QED BY <1>3, <3>2, <3>3 DEF ReadReply
  <2>2. next' \in [Client -> Nat \ {0}]
    BY <1>3 DEF ReadReply
  <2> QED BY <1>0, <1>3, <2>1, <2>2 DEF ReadReply, threadVars
<1>4. CASE Close(c)
  BY <1>0, <1>4 DEF Close, threadVars
<1> QED BY <1>1, <1>2, <1>3, <1>4 DEF ClientStep, Stop, Finish

\* The reply to a request.
LEMMA AckIsReply ==
  ASSUME NEW f, NEW n \in Nat
  PROVE [type |-> "Ack", request |-> n, text |-> Verdict(f)] \in Reply
<1>1. Verdict(f) \in {"registered", "epoch", "accepted", "REJECT", "ok"}
  BY DEF Verdict
<1> QED BY <1>1 DEF Reply

LEMMA StatusIsReply ==
  ASSUME NEW e \in Nat, NEW g \in Nat, NEW n \in Nat
  PROVE [type |-> "Status", request |-> n, epoch |-> e, generation |-> g] \in Reply
BY DEF Reply

LEMMA StatusCompleted ==
  ASSUME NEW r \in Reply, r.type = "Status", NEW g \in Nat
  PROVE /\ [r EXCEPT !.generation = g] \in Reply
        /\ [r EXCEPT !.generation = g].type = "Status"
        /\ [r EXCEPT !.generation = g].request = r.request
        /\ [r EXCEPT !.generation = g].generation = g
BY DEF Reply

LEMMA ExitTyped ==
  ASSUME CTypeOK, NEW c \in Client, Exit(c)
  PROVE /\ thread' \in [Client -> {"none", "check", "recv", "serve", "status", "reply", "exited"}]
        /\ inbound' \in [Client -> Seq(Nat)]
        /\ current' \in [Client -> Nat]
<1>1. /\ thread \in [Client -> {"none", "check", "recv", "serve", "status", "reply", "exited"}]
      /\ inbound \in [Client -> Seq(Nat)]
      /\ current \in [Client -> Nat]
  BY DEF CTypeOK
<1> QED BY <1>1 DEF Exit, ThreadTo

\* A thread's step.
LEMMA ThreadTyped ==
  ASSUME CInv, [CNext]_cvars, NEW c \in Client, ThreadStep(c)
  PROVE CTypeOK'
<1> USE DEF CInv, CTypeOK, ThreadTo, ThreadOnly, clientVars
<1> HIDE DEF Frame, Reply, TypeOK
<1>0. TypeOK'
  BY EngineTyped
<1>1. CASE CheckRunning(c)
  <2>1. CASE running
    BY <1>0, <1>1, <2>1 DEF CheckRunning
  <2>2. CASE ~running
    BY <1>0, <1>1, <2>2, ExitTyped DEF CheckRunning
  <2> QED BY <2>1, <2>2
<1>2. CASE RecvFrame(c)
  <2>1. Head(inbound[c]) \in Nat /\ Tail(inbound[c]) \in Seq(Nat)
    BY <1>2 DEF RecvFrame
  <2>2. CASE Exit(c)
    BY <1>0, <1>2, <2>2, ExitTyped DEF RecvFrame
  <2>3. CASE ~Exit(c)
    <3>1. /\ thread' = [thread EXCEPT ![c] = "serve"]
          /\ inbound' = [inbound EXCEPT ![c] = Tail(@)]
          /\ current' = [current EXCEPT ![c] = Head(inbound[c])]
      BY <1>2, <2>3 DEF RecvFrame
    <3>2. /\ UNCHANGED <<script, lingering, client_pc, next, replies, asked>>
          /\ UNCHANGED <<outbound, backlog, running, main, trace, answer>>
      BY <1>2 DEF RecvFrame
    <3>3. thread' \in [Client -> {"none", "check", "recv", "serve", "status", "reply", "exited"}]
      BY <3>1
    <3>4. inbound' \in [Client -> Seq(Nat)] /\ current' \in [Client -> Nat]
      BY <3>1, <2>1
    <3> QED
      BY <1>0, <3>2, <3>3, <3>4
  <2> QED BY <2>2, <2>3
<1>3. CASE RecvClosed(c)
  BY <1>0, <1>3 DEF RecvClosed, Exit
<1>4. CASE ServeRequest(c)
  <2>1. [type |-> "Ack", request |-> current[c], text |-> Verdict(Request(c))] \in Reply
    BY AckIsReply
  <2> QED BY <1>0, <1>4, <2>1 DEF ServeRequest
<1>5. CASE ServeStatusEpoch(c)
  <2>1. coordinator \in Nat
    BY DEF TypeOK
  <2>2. [type |-> "Status", request |-> current[c], epoch |-> coordinator, generation |-> 0]
           \in Reply
    BY <2>1, StatusIsReply
  <2> QED BY <1>0, <1>5, <2>2 DEF ServeStatusEpoch
<1>6. CASE ServeStatusGeneration(c)
  <2>1. Live(c) /\ AnswerMatches(c)
    BY <1>6 DEF ServeStatusGeneration, Live, ClientInv
  <2>2. answer[c] \in Reply /\ answer[c].type = "Status" /\ Request(c).payload \in SourceId
    BY <1>6, <2>1 DEF AnswerMatches, ServeStatusGeneration
  <2>3. StatusGeneration(Request(c).payload) \in Nat
    BY <2>2 DEF StatusGeneration, TypeOK
  <2>4. [answer[c] EXCEPT !.generation = StatusGeneration(Request(c).payload)] \in Reply
    BY <2>2, <2>3, StatusCompleted
  <2>5. answer' \in [Client -> Reply \cup {Nil}]
    BY <1>6, <2>4 DEF ServeStatusGeneration
  <2> QED BY <1>0, <1>6, <2>5 DEF ServeStatusGeneration
<1>7. CASE ServeShutdown(c)
  BY <1>0, <1>7 DEF ServeShutdown, Exit
<1>8. CASE Terminate(c)
  BY <1>0, <1>8 DEF Terminate, threadVars
<1>9. CASE SendReply(c)
  <2>1. Live(c) /\ AnswerMatches(c)
    BY <1>9 DEF SendReply, Live, ClientInv
  <2>2. answer[c] \in Reply
    BY <1>9, <2>1 DEF AnswerMatches, SendReply
  <2>3. outbound' \in [Client -> Seq(Reply)]
    BY <1>9, <2>2 DEF SendReply, AfterReply
  <2> QED BY <1>0, <1>9, <2>3 DEF SendReply, AfterReply
<1> QED BY <1>1, <1>2, <1>3, <1>4, <1>5, <1>6, <1>7, <1>8, <1>9 DEF ThreadStep

\* A step of the main thread.
LEMMA MainTyped ==
  ASSUME CInv, [CNext]_cvars, MainStep
  PROVE CTypeOK'
<1> USE DEF CInv, CTypeOK, ThreadTo, MainOnly, clientVars
<1> HIDE DEF Frame, Reply, TypeOK
<1>0. TypeOK'
  BY EngineTyped
<1>1. CASE MainAccept
  <2>1. Head(backlog) \in Client /\ Tail(backlog) \in Seq(Client)
    BY <1>1 DEF MainAccept
  <2> QED BY <1>0, <1>1, <2>1 DEF MainAccept
<1>2. CASE ~MainAccept
  BY <1>0, <1>2 DEF MainStep, MainCheck, MainPoll, MainJoin, MainPersist, MainReturn
<1> QED BY <1>1, <1>2

LEMMA CTyped ==
  ASSUME CInv, [CNext]_cvars
  PROVE CTypeOK'
<1>1. CASE UNCHANGED cvars
  <2> HIDE DEF Frame, Reply, TypeOK
  <2>1. TypeOK'
    BY EngineTyped
  <2> QED BY <1>1, <2>1 DEF cvars, CInv, CTypeOK
<1> QED BY <1>1, ClientTyped, ThreadTyped, MainTyped DEF CNext

(***************************************************************************)
(* What a step leaves alone.                                               *)
(***************************************************************************)

LEMMA ElementsAppend ==
  ASSUME NEW S, NEW seq \in Seq(S), NEW e \in S
  PROVE Elements(Append(seq, e)) = Elements(seq) \cup {e}
<1>1. Len(Append(seq, e)) = Len(seq) + 1 /\ Len(seq) \in Nat
  OBVIOUS
<1>2. Append(seq, e)[Len(seq) + 1] = e /\ \A k \in 1..Len(seq) : Append(seq, e)[k] = seq[k]
  OBVIOUS
<1>3. 1..Len(Append(seq, e)) = (1..Len(seq)) \cup {Len(seq) + 1}
  BY <1>1
<1> QED BY <1>1, <1>2, <1>3 DEF Elements

LEMMA ElementsTail ==
  ASSUME NEW S, NEW seq \in Seq(S), seq # <<>>
  PROVE Elements(Tail(seq)) \subseteq Elements(seq) /\ Head(seq) \in Elements(seq)
<1>1. Len(seq) \in Nat \ {0} /\ Len(Tail(seq)) = Len(seq) - 1 /\ Head(seq) = seq[1]
  OBVIOUS
<1>2. \A k \in 1..Len(Tail(seq)) : Tail(seq)[k] = seq[k + 1] /\ k + 1 \in 1..Len(seq)
  BY <1>1
<1> QED BY <1>1, <1>2 DEF Elements

LEMMA NoneLeft ==
  ASSUME NEW S, NEW seq \in Seq(S), Len(seq) <= 1, Len(seq) # 1
  PROVE Len(seq) = 0 /\ seq = <<>>
<1>1. Len(seq) \in Nat
  OBVIOUS
<1>2. \A n \in Nat : n <= 1 /\ n # 1 => n = 0
  OBVIOUS
<1>3. Len(seq) = 0
  BY <1>1, <1>2
<1> QED BY <1>3

LEMMA OnlyOne ==
  ASSUME NEW S, NEW seq \in Seq(S), Len(seq) = 1
  PROVE Tail(seq) = <<>> /\ Head(seq) = seq[1]
<1>1. seq # <<>> /\ Head(seq) = seq[1]
  OBVIOUS
<1>2. Tail(seq) \in Seq(S) /\ Len(Tail(seq)) = 0
  BY <1>1
<1>3. \A t \in Seq(S) : Len(t) = 0 => t = <<>>
  OBVIOUS
<1> QED BY <1>1, <1>2, <1>3

LEMMA ElementsEmpty == Elements(<<>>) = {}
BY DEF Elements

\* No step changes a script, or brings an ended process back.
LEMMA ScriptFixed ==
  ASSUME [CNext]_cvars
  PROVE script' = script /\ (Up' => Up)
<1>1. CASE UNCHANGED cvars
  BY <1>1 DEF cvars, Up
<1>2. CASE MainStep
  BY <1>2 DEF MainStep, MainCheck, MainPoll, MainAccept, MainJoin, MainPersist, MainReturn,
              MainOnly, MainTo, clientVars, Up
<1>3. ASSUME NEW c \in Client, ClientStep(c) \/ Stop(c)
      PROVE script' = script /\ (Up' => Up)
  BY <1>3 DEF ClientStep, Connect, SendFrame, ReadReply, Finish, Stop, Close, Up
<1>4. ASSUME NEW c \in Client, ThreadStep(c)
      PROVE script' = script /\ (Up' => Up)
  BY <1>4 DEF ThreadStep, CheckRunning, RecvFrame, RecvClosed, ServeRequest, ServeStatusEpoch,
         ServeStatusGeneration, ServeShutdown, Terminate, SendReply, ThreadOnly, clientVars, Up
<1> QED BY <1>1, <1>2, <1>3, <1>4 DEF CNext

\* Evidence that the engine holds stays in it.
LEMMA InEngineStays ==
  ASSUME TypeOK, AppendOnlyStep, NEW f, InEngine(f)
  PROVE InEngine(f)'
<1>0. Len(obs) \in Nat /\ Len(dec) \in Nat
  BY DEF TypeOK
<1>1. CASE f.type = "Observation" /\
           \E i \in 1..Len(obs) : obs[i].observation_id = f.payload.observation_id
  <2>1. PICK i \in 1..Len(obs) : obs[i].observation_id = f.payload.observation_id
    BY <1>1
  <2>2. Len(obs') >= Len(obs) /\ obs'[i] = obs[i]
    BY <2>1 DEF AppendOnlyStep
  <2>3. i \in 1..Len(obs')
    <3> HIDE DEF AppendOnlyStep
    <3> QED BY <1>0, <2>1, <2>2
  <2> QED BY <1>1, <2>1, <2>2, <2>3 DEF InEngine
<1>2. CASE f.type = "Decision" /\ \E i \in 1..Len(dec) : dec[i] = f.payload
  <2>1. PICK i \in 1..Len(dec) : dec[i] = f.payload
    BY <1>2
  <2>2. Len(dec') >= Len(dec) /\ dec'[i] = dec[i]
    BY <2>1 DEF AppendOnlyStep
  <2>3. i \in 1..Len(dec')
    BY <1>0, <2>1, <2>2
  <2> QED BY <1>2, <2>1, <2>2, <2>3 DEF InEngine
<1>3. CASE f.type = "Outcome" /\
           \E k \in DecisionId :
             k = f.payload.decision_id /\ outcomes[k] # Nil /\ outcomes[k] = f.payload
  BY <1>3 DEF InEngine, AppendOnlyStep
<1> QED BY <1>1, <1>2, <1>3 DEF InEngine

LEMMA BackedStays ==
  ASSUME CInv, [CNext]_cvars, NEW c, NEW r, Backed(c, r)
  PROVE Backed(c, r)'
<1>1. PICK f : f = script[c][r.request]
  OBVIOUS
<1>2. script'[c][r.request] = f
  BY <1>1, ScriptFixed
<1>3. InEngine(f) => InEngine(f)'
  BY InEngineStays, EngineStep, NextAppendOnly DEF CInv, CTypeOK
<1>4. r.type = "Ack" /\ r.text = "accepted" => InEngine(f)
  BY <1>1 DEF Backed
<1> QED BY <1>2, <1>3, <1>4 DEF Backed

\* Acknowledgements are backed when the new ones are.
LEMMA AckedStep ==
  ASSUME CInv, [CNext]_cvars, NEW c \in Client,
         \A r \in Said(c)' : r \in Said(c) \/ Backed(c, r)'
  PROVE Acked(c)'
<1>1. \A r \in Said(c) : Backed(c, r)
  BY DEF CInv, ClientInv, Acked
<1>2. ASSUME NEW r \in Said(c)' PROVE Backed(c, r)'
  BY <1>1, <1>2, BackedStays
<1> QED BY <1>2 DEF Acked

\* The generations of the sources only grow.
LEMMA GenerationsGrow ==
  ASSUME CInv, [CNext]_cvars
  PROVE \A s \in SourceId : src_gen[s] \in Nat /\ src_gen'[s] \in Nat /\ src_gen[s] <= src_gen'[s]
<1>1. AuthorityStep /\ TypeOK /\ TypeOK'
  BY EngineStep, EngineTyped, NextAuthorityStep DEF CInv, CTypeOK
<1>2. src_gen \in [SourceId -> Nat] /\ src_gen' \in [SourceId -> Nat]
  BY <1>1 DEF TypeOK
<1> QED BY <1>1, <1>2 DEF AuthorityStep

\* A reply for a request with a recent generation keeps it.
LEMMA RecentStays ==
  ASSUME CInv, [CNext]_cvars, NEW c \in Client, asked'[c] = asked[c],
         NEW r \in Reply, Recent(c, r)
  PROVE Recent(c, r)'
<1>1. PICK s : s = script[c][r.request].payload
  OBVIOUS
<1>2. script'[c][r.request].payload = s
  BY <1>1, ScriptFixed
<1>3. r.type = "Status" => s \in SourceId /\ asked[c][s] <= r.generation /\ r.generation <= src_gen[s]
  BY <1>1 DEF Recent
<1>4. r.type = "Status" => r.generation \in Nat
  BY DEF Reply
<1>5. r.type = "Status" => r.generation <= src_gen'[s]
  BY <1>3, <1>4, GenerationsGrow
<1> QED BY <1>2, <1>3, <1>5 DEF Recent

\* Replies on their way are recent when the new ones are.
LEMMA FreshStep ==
  ASSUME CInv, [CNext]_cvars, NEW c \in Client, asked'[c] = asked[c],
         \A r \in Coming(c)' : r \in Reply /\ (r \in Coming(c) \/ Recent(c, r)')
  PROVE Fresh(c)'
<1>1. Fresh(c)
  BY DEF CInv, ClientInv
<1>2. ASSUME NEW r \in Coming(c)' PROVE Recent(c, r)'
  BY <1>1, <1>2, RecentStays DEF Fresh
<1>3. ASSUME NEW s \in SourceId PROVE asked'[c][s] <= src_gen'[s]
  <2>1. asked[c][s] \in Nat /\ asked[c][s] <= src_gen[s]
    BY <1>1 DEF Fresh, CInv, CTypeOK
  <2> QED BY <2>1, GenerationsGrow
<1> QED BY <1>2, <1>3 DEF Fresh

\* Everything about the connection of c is as it was.
Untouched(c) ==
  /\ client_pc'[c] = client_pc[c] /\ next'[c] = next[c]
  /\ inbound'[c] = inbound[c] /\ outbound'[c] = outbound[c]
  /\ replies'[c] = replies[c] /\ asked'[c] = asked[c]
  /\ thread'[c] = thread[c] /\ current'[c] = current[c] /\ answer'[c] = answer[c]

\* The replies on their way are replies.
LEMMA ComingTyped ==
  ASSUME CTypeOK, NEW c \in Client, AnswerMatches(c)
  PROVE \A r \in Coming(c) : r \in Reply
<1> HIDE DEF Reply
<1>1. outbound[c] \in Seq(Reply)
  BY DEF CTypeOK
<1>2. \A k \in 1..Len(outbound[c]) : outbound[c][k] \in Reply
  BY <1>1
<1>3. \A r \in Elements(outbound[c]) : r \in Reply
  BY <1>2 DEF Elements
<1>4. Live(c) => \A r \in Built(c) : r \in Reply
  BY DEF Built, AnswerMatches
<1> QED BY <1>3, <1>4 DEF Coming

\* Without a change of its replies what a client was told stays so.
LEMMA SameReplies ==
  ASSUME CInv, [CNext]_cvars, NEW c \in Client, Live(c)' => Live(c),
         outbound'[c] = outbound[c], replies'[c] = replies[c], asked'[c] = asked[c],
         Built(c)' \subseteq Built(c)
  PROVE Acked(c)' /\ Fresh(c)'
<1>0. ClientInv(c) /\ CTypeOK
  BY DEF CInv
<1>1. Elements(outbound[c])' = Elements(outbound[c]) /\ Elements(replies[c])' = Elements(replies[c])
  BY DEF Elements
<1>2. Acked(c)'
  <2>1. \A r \in Said(c)' : r \in Said(c)
    BY <1>1 DEF Said
  <2> QED BY <2>1, AckedStep
<1>3. Fresh(c)'
  <2>1. \A r \in Coming(c)' : r \in Coming(c)
    BY <1>1 DEF Coming
  <2>2. \A r \in Coming(c) : r \in Reply
    BY <1>0, ComingTyped DEF ClientInv
  <2> QED BY <2>1, <2>2, FreshStep
<1> QED BY <1>2, <1>3

\* The steps of others leave what is so of a client.
LEMMA UntouchedKeeps ==
  ASSUME CInv, [CNext]_cvars, NEW c \in Client, Untouched(c)
  PROVE ClientInv(c)'
<1>0. ClientInv(c) /\ CTypeOK
  BY DEF CInv
<1>1. script' = script /\ (Live(c)' => Live(c))
  BY ScriptFixed DEF Live, Untouched
<1>2. OneOutstanding(c)'
  BY <1>0, <1>1 DEF ClientInv, OneOutstanding, Untouched, Busy
<1>3. AnswerMatches(c)'
  BY <1>0, <1>1 DEF ClientInv, AnswerMatches, Untouched, Request
<1>4. Built(c)' = Built(c)
  BY DEF Built, Untouched
<1>5. Acked(c)' /\ Fresh(c)'
  BY <1>1, <1>4, SameReplies DEF Untouched
<1> QED BY <1>2, <1>3, <1>5 DEF ClientInv

\* A step of one connection leaves the others alone.
LEMMA OthersUntouched ==
  ASSUME CTypeOK, NEW c \in Client, NEW d \in Client, d # c,
         ClientStep(c) \/ Stop(c) \/ ThreadStep(c)
  PROVE Untouched(d)
<1>0. /\ client_pc \in [Client -> {"start", "send", "await", "closed"}]
      /\ next \in [Client -> Nat \ {0}]
      /\ inbound \in [Client -> Seq(Nat)]
      /\ outbound \in [Client -> Seq(Reply)]
      /\ replies \in [Client -> Seq(Reply)]
      /\ asked \in [Client -> [SourceId -> Nat]]
      /\ thread \in [Client -> {"none", "check", "recv", "serve", "status", "reply", "exited"}]
      /\ current \in [Client -> Nat]
      /\ answer \in [Client -> Reply \cup {Nil}]
  BY DEF CTypeOK
<1> HIDE DEF Reply
<1>1. CASE Connect(c)
  BY <1>0, <1>1 DEF Connect, Untouched, GoTo, threadVars
<1>2. CASE SendFrame(c)
  BY <1>0, <1>2 DEF SendFrame, Untouched, GoTo, threadVars
<1>3. CASE ReadReply(c)
  BY <1>0, <1>3 DEF ReadReply, Untouched, GoTo, threadVars
<1>4. CASE Close(c)
  BY <1>0, <1>4 DEF Close, Untouched, GoTo, threadVars
<1>5. CASE CheckRunning(c) \/ RecvFrame(c) \/ RecvClosed(c)
  <2>1. UNCHANGED <<client_pc, next, replies, asked, outbound, answer>>
    BY <1>5 DEF CheckRunning, RecvFrame, RecvClosed, ThreadOnly, clientVars
  <2>2. inbound'[d] = inbound[d] /\ current'[d] = current[d] /\ thread'[d] = thread[d]
    BY <1>0, <1>5 DEF CheckRunning, RecvFrame, RecvClosed, Exit, ThreadTo
  <2> QED BY <2>1, <2>2 DEF Untouched
<1>6. CASE ServeRequest(c) \/ ServeStatusEpoch(c) \/ ServeStatusGeneration(c)
  <2>1. UNCHANGED <<client_pc, next, replies, asked, outbound, inbound, current>>
    BY <1>6 DEF ServeRequest, ServeStatusEpoch, ServeStatusGeneration, ThreadOnly, clientVars
  <2>2. answer'[d] = answer[d] /\ thread'[d] = thread[d]
    BY <1>0, <1>6 DEF ServeRequest, ServeStatusEpoch, ServeStatusGeneration, ThreadTo
  <2> QED BY <2>1, <2>2 DEF Untouched
<1>7. CASE ServeShutdown(c)
  BY <1>0, <1>7 DEF ServeShutdown, Exit, Untouched, ThreadTo, clientVars
<1>8. CASE Terminate(c)
  BY <1>0, <1>8 DEF Terminate, Untouched, clientVars, threadVars
<1>9. CASE SendReply(c)
  BY <1>0, <1>9 DEF SendReply, AfterReply, Untouched, ThreadTo, clientVars
<1> QED BY <1>1, <1>2, <1>3, <1>4, <1>5, <1>6, <1>7, <1>8, <1>9
        DEF ClientStep, Stop, Finish, ThreadStep

(***************************************************************************)
(* The steps of a client.                                                  *)
(***************************************************************************)

LEMMA ConnectKeeps ==
  ASSUME CInv, [CNext]_cvars, NEW c \in Client, Connect(c)
  PROVE ClientInv(c)'
<1>0. ClientInv(c) /\ CTypeOK /\ client_pc \in [Client -> {"start", "send", "await", "closed"}]
  BY DEF CInv, CTypeOK
<1>1. UNCHANGED <<script, next, inbound, outbound, replies, asked, thread, current, answer>>
  BY DEF Connect, threadVars
<1>2. Live(c)' => Live(c)
  BY <1>1, ScriptFixed DEF Live
<1>3. client_pc[c] = "start" /\ client_pc'[c] \in {"send", "closed"}
  BY <1>0 DEF Connect, GoTo
<1>4. OneOutstanding(c)'
  BY <1>0, <1>1, <1>2, <1>3 DEF ClientInv, OneOutstanding, Busy
<1>5. AnswerMatches(c)'
  BY <1>0, <1>1, <1>2 DEF ClientInv, AnswerMatches, Request
<1>6. Acked(c)' /\ Fresh(c)'
  <2>1. Built(c)' = Built(c)
    BY <1>1 DEF Built
  <2> QED BY <1>1, <1>2, <2>1, SameReplies
<1> QED BY <1>4, <1>5, <1>6 DEF ClientInv

LEMMA CloseKeeps ==
  ASSUME CInv, [CNext]_cvars, NEW c \in Client, Close(c)
  PROVE ClientInv(c)'
<1>0. ClientInv(c) /\ CTypeOK /\ client_pc \in [Client -> {"start", "send", "await", "closed"}]
  BY DEF CInv, CTypeOK
<1>1. UNCHANGED <<script, next, inbound, outbound, replies, asked, thread, current, answer>>
  BY DEF Close, threadVars
<1>2. Live(c)' => Live(c)
  BY <1>1, ScriptFixed DEF Live
<1>3. client_pc'[c] = "closed"
  BY <1>0 DEF Close, GoTo
<1>4. OneOutstanding(c)'
  BY <1>0, <1>1, <1>2, <1>3 DEF ClientInv, OneOutstanding, Busy
<1>5. AnswerMatches(c)'
  BY <1>0, <1>1, <1>2 DEF ClientInv, AnswerMatches, Request
<1>6. Acked(c)' /\ Fresh(c)'
  <2>1. Built(c)' = Built(c)
    BY <1>1 DEF Built
  <2> QED BY <1>1, <1>2, <2>1, SameReplies
<1> QED BY <1>4, <1>5, <1>6 DEF ClientInv

\* The client has no request outstanding when it sends the next.
LEMMA SendKeeps ==
  ASSUME CInv, [CNext]_cvars, NEW c \in Client, SendFrame(c)
  PROVE ClientInv(c)'
<1>0. /\ ClientInv(c) /\ CTypeOK
      /\ client_pc \in [Client -> {"start", "send", "await", "closed"}]
      /\ inbound \in [Client -> Seq(Nat)] /\ next \in [Client -> Nat \ {0}]
      /\ outbound[c] \in Seq(Reply)
  BY DEF CInv, CTypeOK
<1> HIDE DEF Reply
<1>1. UNCHANGED <<script, next, outbound, replies, thread, current, answer>>
  BY DEF SendFrame, threadVars
<1>2. Live(c)' => Live(c)
  BY <1>1, ScriptFixed DEF Live
<1>3. client_pc[c] = "send" /\ client_pc'[c] = "await" /\ next[c] <= Len(script[c])
  BY <1>0 DEF SendFrame, GoTo
<1>4. Len(outbound[c]) = 0 /\ outbound[c] = <<>>
  <2>1. Len(outbound[c]) <= 1 /\ Len(outbound[c]) # 1
    BY <1>0, <1>3 DEF ClientInv, OneOutstanding
  <2> QED BY <1>0, <2>1, NoneLeft
<1>5. Live(c) => Len(inbound[c]) = 0 /\ inbound[c] = <<>> /\ ~Busy(c)
  <2>1. inbound[c] \in Seq(Nat) /\ Len(inbound[c]) \in Nat
    BY <1>0
  <2>2. Live(c) => Len(inbound[c]) <= 1 /\ Len(inbound[c]) # 1 /\ ~Busy(c)
    BY <1>0, <1>3 DEF ClientInv, OneOutstanding
  <2> QED BY <2>1, <2>2, NoneLeft
<1>6. Live(c) => Len(inbound'[c]) = 1 /\ inbound'[c][1] = next[c]
  <2>1. Live(c) => inbound' = [inbound EXCEPT ![c] = Append(@, next[c])]
    BY DEF SendFrame, Gone, Live
  <2>2. Live(c) => inbound'[c] = <<next[c]>>
    BY <1>0, <1>5, <2>1
  <2> QED BY <2>2
<1>7. OneOutstanding(c)'
  <2>1. Len(outbound'[c]) = 0 /\ Len(outbound'[c]) <= 1
    BY <1>1, <1>4
  <2>2. Live(c)' => /\ Len(inbound'[c]) <= 1 /\ Len(inbound'[c]) = 1
                    /\ inbound'[c][1] = next'[c] /\ ~Busy(c)'
    <3>1. ~Busy(c) <=> ~Busy(c)'
      BY <1>1 DEF Busy
    <3>2. \A n \in Nat : n = 1 => n <= 1
      OBVIOUS
    <3>3. Live(c)' => Len(inbound'[c]) <= 1
      BY <1>2, <1>6, <3>2
    <3> QED BY <1>1, <1>2, <1>5, <1>6, <3>1, <3>3
  <2>3. next'[c] <= Len(script'[c])
    BY <1>1, <1>3
  <2> QED BY <1>3, <2>1, <2>2, <2>3 DEF OneOutstanding
<1>8. AnswerMatches(c)'
  BY <1>0, <1>1, <1>2 DEF ClientInv, AnswerMatches, Request
<1>9. Acked(c)'
  <2>1. Said(c)' = Said(c)
    BY <1>1 DEF Said, Built, Elements
  <2> QED BY <2>1, AckedStep
<1>10. Fresh(c)'
  <2>1. Elements(outbound[c])' = {}
    BY <1>1, <1>4, ElementsEmpty
  <2>2. Live(c) => Built(c)' = {}
    BY <1>1, <1>5 DEF Built, Busy
  <2>3. Coming(c)' = {}
    BY <1>2, <2>1, <2>2 DEF Coming
  <2>4. asked \in [Client -> [SourceId -> Nat]] /\ src_gen \in [SourceId -> Nat] /\ src_gen' = src_gen
    BY DEF SendFrame, CInv, CTypeOK, TypeOK, vars
  <2>5. asked'[c] \in {asked[c], src_gen}
    BY <2>4 DEF SendFrame
  <2>6. \A s \in SourceId : asked[c][s] <= src_gen[s]
    BY <1>0 DEF ClientInv, Fresh
  <2>7. \A s \in SourceId : asked'[c][s] <= src_gen'[s]
    BY <2>4, <2>5, <2>6
  <2> QED BY <2>3, <2>7 DEF Fresh
<1> QED BY <1>7, <1>8, <1>9, <1>10 DEF ClientInv

\* After the reply nothing is outstanding.
LEMMA ReadKeeps ==
  ASSUME CInv, [CNext]_cvars, NEW c \in Client, ReadReply(c)
  PROVE ClientInv(c)'
<1>0. /\ ClientInv(c) /\ CTypeOK
      /\ client_pc \in [Client -> {"start", "send", "await", "closed"}]
      /\ inbound \in [Client -> Seq(Nat)] /\ next \in [Client -> Nat \ {0}]
      /\ outbound \in [Client -> Seq(Reply)] /\ replies \in [Client -> Seq(Reply)]
  BY DEF CInv, CTypeOK
<1> HIDE DEF Reply
<1>1. UNCHANGED <<script, inbound, asked, thread, current, answer>>
  BY DEF ReadReply, threadVars
<1>2. Live(c)' => Live(c)
  BY <1>1, ScriptFixed DEF Live
<1>3. client_pc[c] = "await" /\ client_pc'[c] = "send"
  BY <1>0 DEF ReadReply, GoTo
<1>4. /\ outbound'[c] = <<>>
      /\ outbound[c] # <<>> \/ Gone(c)
      /\ \/ replies'[c] = replies[c]
         \/ outbound[c] # <<>> /\ replies'[c] = Append(replies[c], Head(outbound[c]))
  <2>1. CASE /\ outbound[c] # <<>>
             /\ replies' = [replies EXCEPT ![c] = Append(@, Head(outbound[c]))]
             /\ outbound' = [outbound EXCEPT ![c] = Tail(@)]
    <3>1. outbound[c] \in Seq(Reply) /\ Len(outbound[c]) <= 1
      BY <1>0 DEF ClientInv, OneOutstanding
    <3>2. Tail(outbound[c]) = <<>>
      BY <2>1, <3>1
    <3> QED BY <1>0, <2>1, <3>2
  <2>2. CASE Gone(c) /\ outbound' = [outbound EXCEPT ![c] = <<>>] /\ replies' = replies
    BY <1>0, <2>2
  <2> QED BY <2>1, <2>2 DEF ReadReply
<1>5. Live(c) => Len(inbound[c]) = 0 /\ ~Busy(c)
  <2>1. Live(c) => outbound[c] # <<>>
    BY <1>4 DEF Gone, Live
  <2>2. outbound[c] \in Seq(Reply) /\ inbound[c] \in Seq(Nat)
    BY <1>0
  <2>3. Live(c) => Len(outbound[c]) # 0
    BY <2>1, <2>2
  <2>4. Live(c) => Len(inbound[c]) <= 1 /\ Len(inbound[c]) # 1 /\ ~Busy(c)
    BY <1>0, <2>3 DEF ClientInv, OneOutstanding
  <2> QED BY <2>2, <2>4, NoneLeft
<1>6. OneOutstanding(c)'
  <2>1. Len(outbound'[c]) = 0 /\ (Live(c)' => Len(inbound'[c]) = 0 /\ ~Busy(c)')
    BY <1>1, <1>2, <1>4, <1>5 DEF Busy
  <2> QED BY <2>1 DEF OneOutstanding
<1>7. AnswerMatches(c)'
  BY <1>0, <1>1, <1>2 DEF ClientInv, AnswerMatches, Request
<1>8. Acked(c)'
  <2>1. Elements(outbound[c])' = {} /\ Built(c)' = Built(c)
    BY <1>1, <1>4, ElementsEmpty DEF Built
  <2>2. Elements(replies[c])' \subseteq Elements(replies[c]) \cup Elements(outbound[c])
    <3>1. CASE replies'[c] = replies[c]
      BY <3>1 DEF Elements
    <3>2. CASE outbound[c] # <<>> /\ replies'[c] = Append(replies[c], Head(outbound[c]))
      <4>1. replies[c] \in Seq(Reply) /\ outbound[c] \in Seq(Reply) /\ Head(outbound[c]) \in Reply
        BY <1>0, <3>2
      <4>2. Elements(replies'[c]) = Elements(replies[c]) \cup {Head(outbound[c])}
        BY <3>2, <4>1, ElementsAppend
      <4>3. Head(outbound[c]) \in Elements(outbound[c])
        BY <3>2, <4>1, ElementsTail
      <4> QED BY <4>2, <4>3
    <3> QED BY <1>4, <3>1, <3>2
  <2>3. \A r \in Said(c)' : r \in Said(c)
    BY <2>1, <2>2 DEF Said
  <2> QED BY <2>3, AckedStep
<1>9. Fresh(c)'
  <2>1. Elements(outbound[c])' = {} /\ Built(c)' = Built(c)
    BY <1>1, <1>4, ElementsEmpty DEF Built
  <2>2. \A r \in Coming(c)' : r \in Coming(c)
    BY <1>2, <2>1 DEF Coming
  <2>3. \A r \in Coming(c) : r \in Reply
    BY <1>0, ComingTyped DEF ClientInv
  <2> QED BY <1>1, <2>2, <2>3, FreshStep
<1> QED BY <1>6, <1>7, <1>8, <1>9 DEF ClientInv

(***************************************************************************)
(* The steps of a connection thread.                                       *)
(***************************************************************************)

\* A thread that ends leaves its client nothing but the reply already sent.
LEMMA ExitKeeps ==
  ASSUME CInv, [CNext]_cvars, NEW c \in Client, Exit(c),
         UNCHANGED <<client_pc, next, outbound, replies, asked, answer>>
  PROVE ClientInv(c)'
<1>0. ClientInv(c) /\ CTypeOK
  BY DEF CInv
<1>1. thread'[c] = "exited"
  BY DEF Exit, ThreadTo, CInv, CTypeOK
<1>2. ~Live(c)' /\ Built(c)' = {}
  BY <1>1 DEF Live, Built
<1>3. OneOutstanding(c)'
  BY <1>0, <1>2 DEF ClientInv, OneOutstanding
<1>4. AnswerMatches(c)'
  BY <1>2 DEF AnswerMatches
<1>5. Acked(c)' /\ Fresh(c)'
  BY <1>2, SameReplies
<1> QED BY <1>3, <1>4, <1>5 DEF ClientInv

LEMMA CheckKeeps ==
  ASSUME CInv, [CNext]_cvars, NEW c \in Client, CheckRunning(c)
  PROVE ClientInv(c)'
<1>0. ClientInv(c) /\ CTypeOK
  BY DEF CInv
<1>1. UNCHANGED <<script, client_pc, next, outbound, replies, asked, answer, main>>
  BY DEF CheckRunning, ThreadOnly, clientVars
<1>2. CASE Exit(c)
  BY <1>1, <1>2, ExitKeeps
<1>3. CASE ThreadTo(c, "recv") /\ UNCHANGED <<inbound, current>>
  <2>1. thread[c] = "check" /\ thread'[c] = "recv"
    BY <1>3 DEF CheckRunning, ThreadTo, CInv, CTypeOK
  <2>2. Live(c) /\ ~Busy(c)' /\ Built(c)' = {}
    BY <2>1 DEF Live, Busy, Built, CheckRunning
  <2>3. OneOutstanding(c)'
    BY <1>0, <1>1, <1>3, <2>2 DEF ClientInv, OneOutstanding
  <2>4. AnswerMatches(c)'
    BY <2>1 DEF AnswerMatches
  <2>5. Acked(c)' /\ Fresh(c)'
    BY <1>1, <2>2, SameReplies
  <2> QED BY <2>3, <2>4, <2>5 DEF ClientInv
<1> QED BY <1>2, <1>3 DEF CheckRunning

LEMMA RecvKeeps ==
  ASSUME CInv, [CNext]_cvars, NEW c \in Client, RecvFrame(c) \/ RecvClosed(c)
  PROVE ClientInv(c)'
<1>0. ClientInv(c) /\ CTypeOK
  BY DEF CInv
<1>1. UNCHANGED <<script, client_pc, next, outbound, replies, asked, answer, main>>
  BY DEF RecvFrame, RecvClosed, ThreadOnly, clientVars
<1>2. CASE Exit(c)
  BY <1>1, <1>2, ExitKeeps
<1>3. CASE /\ RecvFrame(c) /\ ThreadTo(c, "serve")
           /\ inbound' = [inbound EXCEPT ![c] = Tail(@)]
           /\ current' = [current EXCEPT ![c] = Head(inbound[c])]
  <2>1. thread[c] = "recv" /\ thread'[c] = "serve" /\ Up /\ inbound[c] # <<>>
    BY <1>3 DEF RecvFrame, ThreadTo, CInv, CTypeOK
  <2>2. Live(c) /\ Busy(c)' /\ Built(c)' = {}
    BY <2>1 DEF Live, Busy, Built
  <2>3. inbound[c] \in Seq(Nat) /\ Len(inbound[c]) <= 1
    BY <1>0, <2>2 DEF CTypeOK, ClientInv, OneOutstanding
  <2>4. Len(inbound[c]) = 1
    <3>1. Len(inbound[c]) \in Nat /\ Len(inbound[c]) # 0
      BY <2>1, <2>3
    <3>2. \A n \in Nat : n <= 1 /\ n # 0 => n = 1
      OBVIOUS
    <3> QED BY <2>3, <3>1, <3>2
  <2>5. /\ inbound[c][1] = next[c] /\ next[c] <= Len(script[c])
        /\ client_pc[c] \in {"await", "closed"} /\ Len(outbound[c]) = 0
    BY <1>0, <2>2, <2>4 DEF ClientInv, OneOutstanding
  <2>6. inbound'[c] = <<>> /\ current'[c] = next[c]
    <3>1. inbound'[c] = Tail(inbound[c]) /\ current'[c] = Head(inbound[c])
      BY <1>3 DEF CInv, CTypeOK
    <3>2. Tail(inbound[c]) = <<>> /\ Head(inbound[c]) = inbound[c][1]
      BY <2>3, <2>4, OnlyOne
    <3> QED BY <2>5, <3>1, <3>2
  <2>7. OneOutstanding(c)'
    <3>1. Len(inbound'[c]) = 0 /\ Len(outbound'[c]) = 0
      BY <1>1, <2>5, <2>6
    <3>2. current'[c] = next'[c] /\ next'[c] <= Len(script'[c]) /\ client_pc'[c] \in {"await", "closed"}
      BY <1>1, <2>5, <2>6
    <3> QED BY <3>1, <3>2 DEF OneOutstanding
  <2>8. AnswerMatches(c)'
    BY <2>1 DEF AnswerMatches
  <2>9. Acked(c)' /\ Fresh(c)'
    BY <1>1, <2>2, SameReplies
  <2> QED BY <2>7, <2>8, <2>9 DEF ClientInv
<1> QED BY <1>2, <1>3 DEF RecvFrame, RecvClosed

\* A request answered with "accepted" is held by the engine.
LEMMA AcceptedIsHeld ==
  ASSUME TypeOK, NEW f \in Frame, ~Throws(f), Apply(f), Verdict(f) = "accepted"
  PROVE InEngine(f)'
<1>1. f.type \in {"Observation", "Decision", "Outcome"}
  BY DEF Verdict
<1>2. f.payload # Undecodable
  BY <1>1 DEF Throws, Unhandled
<1>3. CASE f.type = "Observation"
  <2>1. f.payload \in Observations /\ ~RefusedEarly(f.payload) /\ ~RefusedLate(f.payload)
    BY <1>2, <1>3, FramePayload DEF Verdict
  <2>2. IngestAdmitted(f.payload)
    BY <1>3, <2>1 DEF Apply, ingest, IngestRefusedEarly, IngestRefusedLate, Unhandled
  <2>3. Len(obs') = Len(obs) + 1 /\ obs'[Len(obs) + 1].observation_id = f.payload.observation_id
    BY <2>1, <2>2, AppendedEntry
  <2>4. Len(obs) \in Nat
    BY DEF TypeOK
  <2>5. Len(obs) + 1 \in 1..Len(obs')
    BY <2>3, <2>4
  <2> QED BY <1>3, <2>3, <2>5 DEF InEngine
<1>4. CASE f.type = "Decision"
  <2>1. f.payload \in Decisions /\ ~RefusedDecision(f.payload)
    BY <1>2, <1>4, FramePayload DEF Verdict
  <2>2. DecisionAdmitted(f.payload)
    BY <1>4, <2>1 DEF Apply, ingest_decision, DecisionRefused, Unhandled
  <2>3. dec' = Append(dec, f.payload) /\ dec \in Seq(AdmittedDecision)
    BY <2>1, <2>2, AdmittedDecisionPasses
  <2>4. Len(dec) + 1 \in 1..Len(dec') /\ dec'[Len(dec) + 1] = f.payload
    <3> HIDE DEF AdmittedDecision
    <3> QED BY <2>3
  <2> QED BY <1>4, <2>4 DEF InEngine
<1>5. CASE f.type = "Outcome"
  <2>1. f.payload \in Outcomes /\ ~RefusedOutcome(f.payload)
    BY <1>2, <1>5, FramePayload DEF Verdict
  <2>2. OutcomeAdmitted(f.payload)
    BY <1>5, <2>1 DEF Apply, ingest_outcome, OutcomeRefused, Unhandled
  <2>3. f.payload.decision_id \in DecisionId /\ f.payload # Nil
    BY <2>1, <2>2, AdmittedOutcomePasses
  <2>4. outcomes'[f.payload.decision_id] = f.payload
    BY <2>2, <2>3 DEF OutcomeAdmitted, TypeOK
  <2> QED BY <1>5, <2>3, <2>4 DEF InEngine
<1> QED BY <1>1, <1>3, <1>4, <1>5

LEMMA ServeKeeps ==
  ASSUME CInv, [CNext]_cvars, NEW c \in Client, ServeRequest(c)
  PROVE ClientInv(c)'
<1>0. ClientInv(c) /\ CTypeOK /\ TypeOK
  BY DEF CInv, CTypeOK
<1>1. UNCHANGED <<script, client_pc, next, inbound, outbound, replies, asked, current, main>>
  BY DEF ServeRequest, clientVars
<1>2. thread[c] = "serve" /\ thread'[c] = "reply" /\ Up
  BY DEF ServeRequest, ThreadTo, CInv, CTypeOK
<1>3. Live(c) /\ Busy(c) /\ Busy(c)'
  BY <1>2 DEF Live, Busy
<1>4. PICK f \in Frame : f = Request(c)
  BY <1>0, <1>3, RequestIsFrame DEF ClientInv
<1>5. PICK r \in Reply : r = [type |-> "Ack", request |-> current[c], text |-> Verdict(f)]
  BY <1>0, AckIsReply DEF CTypeOK
<1>6. answer'[c] = r /\ r.type = "Ack" /\ r.request = current[c] /\ r.text = Verdict(f)
  BY <1>4, <1>5 DEF ServeRequest, CInv, CTypeOK
<1>7. OneOutstanding(c)'
  BY <1>0, <1>1, <1>3 DEF ClientInv, OneOutstanding
<1>8. AnswerMatches(c)'
  BY <1>1, <1>2, <1>6 DEF AnswerMatches
<1>9. Built(c)' = {r}
  BY <1>2, <1>6 DEF Built
<1>10. Acked(c)'
  <2>1. r.text = "accepted" => InEngine(f)'
    BY <1>0, <1>4, <1>6, AcceptedIsHeld DEF ServeRequest
  <2>2. script'[c][r.request] = f
    BY <1>1, <1>4, <1>6 DEF Request
  <2>3. Backed(c, r)'
    BY <2>1, <2>2 DEF Backed
  <2>4. \A q \in Said(c)' : q \in Said(c) \/ q = r
    BY <1>1, <1>9 DEF Said, Elements
  <2> QED BY <2>3, <2>4, AckedStep
<1>11. Fresh(c)'
  <2>1. Recent(c, r)'
    BY <1>6 DEF Recent
  <2>2. \A q \in Coming(c)' : q \in Coming(c) \/ q = r
    BY <1>1, <1>9 DEF Coming, Elements
  <2>3. \A q \in Coming(c) : q \in Reply
    BY <1>0, ComingTyped DEF ClientInv
  <2>4. \A q \in Coming(c)' : q \in Reply /\ (q \in Coming(c) \/ Recent(c, q)')
    BY <2>1, <2>2, <2>3
  <2> QED BY <1>1, <2>4, FreshStep
<1> QED BY <1>7, <1>8, <1>10, <1>11 DEF ClientInv

LEMMA StatusEpochKeeps ==
  ASSUME CInv, [CNext]_cvars, NEW c \in Client, ServeStatusEpoch(c)
  PROVE ClientInv(c)'
<1>0. ClientInv(c) /\ CTypeOK /\ coordinator \in Nat /\ current[c] \in Nat
  BY DEF CInv, CTypeOK, TypeOK
<1>1. UNCHANGED <<script, client_pc, next, inbound, outbound, replies, asked, current, main>>
  BY DEF ServeStatusEpoch, ThreadOnly, clientVars
<1>2. thread[c] = "serve" /\ thread'[c] = "status" /\ Up
  BY DEF ServeStatusEpoch, ThreadTo, CInv, CTypeOK
<1>3. Live(c) /\ Busy(c) /\ Busy(c)' /\ Built(c)' = {}
  BY <1>2 DEF Live, Busy, Built
<1>4. Request(c) \in Frame
  BY <1>0, <1>3, RequestIsFrame DEF ClientInv
<1>5. Request(c).payload \in SourceId
  BY <1>4, FramePayload DEF ServeStatusEpoch, Throws, Unhandled
<1>6. PICK r \in Reply : r = [type |-> "Status", request |-> current[c], epoch |-> coordinator,
                              generation |-> 0]
  BY <1>0, StatusIsReply
<1>7. answer'[c] = r /\ r.type = "Status" /\ r.request = current[c]
  BY <1>6 DEF ServeStatusEpoch, CInv, CTypeOK
<1>8. OneOutstanding(c)'
  BY <1>0, <1>1, <1>3 DEF ClientInv, OneOutstanding
<1>9. AnswerMatches(c)'
  BY <1>1, <1>5, <1>7 DEF AnswerMatches, Request
<1>10. Acked(c)' /\ Fresh(c)'
  <2>1. Live(c)' => Live(c)
    BY <1>3
  <2> QED BY <1>1, <1>3, <2>1, SameReplies
<1> QED BY <1>8, <1>9, <1>10 DEF ClientInv

\* The generation read now is the current one, and no older than when the
\* request was sent.
LEMMA StatusGenerationKeeps ==
  ASSUME CInv, [CNext]_cvars, NEW c \in Client, ServeStatusGeneration(c)
  PROVE ClientInv(c)'
<1>0. ClientInv(c) /\ CTypeOK /\ src_gen \in [SourceId -> Nat]
  BY DEF CInv, CTypeOK, TypeOK
<1>1. /\ UNCHANGED <<script, client_pc, next, inbound, outbound, replies, asked, current, main>>
      /\ src_gen' = src_gen
  BY DEF ServeStatusGeneration, ThreadOnly, clientVars, vars
<1>2. thread[c] = "status" /\ thread'[c] = "reply" /\ Up
  BY DEF ServeStatusGeneration, ThreadTo, CInv, CTypeOK
<1>3. Live(c) /\ Busy(c) /\ Busy(c)'
  BY <1>2 DEF Live, Busy
<1>4. /\ answer[c] \in Reply /\ answer[c].type = "Status" /\ answer[c].request = current[c]
      /\ Request(c).payload \in SourceId
  BY <1>0, <1>2, <1>3 DEF ClientInv, AnswerMatches
<1>5. PICK s \in SourceId : s = Request(c).payload
  BY <1>4
<1>6. src_gen[s] \in Nat
  BY <1>0
<1>7. PICK r \in Reply : r = [answer[c] EXCEPT !.generation = src_gen[s]]
  BY <1>4, <1>6, StatusCompleted
<1>8. r.type = "Status" /\ r.request = current[c] /\ r.generation = src_gen[s]
  BY <1>4, <1>6, <1>7, StatusCompleted
<1>9. answer'[c] = r
  BY <1>5, <1>7 DEF ServeStatusGeneration, StatusGeneration, CInv, CTypeOK
<1>10. Built(c)' = {r}
  BY <1>2, <1>9 DEF Built
<1>11. OneOutstanding(c)'
  BY <1>0, <1>1, <1>3 DEF ClientInv, OneOutstanding
<1>12. AnswerMatches(c)'
  BY <1>1, <1>2, <1>8, <1>9 DEF AnswerMatches
<1>13. Acked(c)'
  <2>1. Backed(c, r)'
    BY <1>8 DEF Backed
  <2>2. \A q \in Said(c)' : q \in Said(c) \/ q = r
    BY <1>1, <1>10 DEF Said, Elements
  <2> QED BY <2>1, <2>2, AckedStep
<1>14. Fresh(c)'
  <2>1. Recent(c, r)'
    <3>1. script'[c][r.request].payload = s
      BY <1>1, <1>5, <1>8 DEF Request
    <3>2. asked'[c][s] <= src_gen'[s]
      BY <1>0, <1>1 DEF ClientInv, Fresh
    <3>3. r.generation <= src_gen'[s]
      BY <1>1, <1>6, <1>8
    <3> QED BY <1>1, <1>8, <3>1, <3>2, <3>3 DEF Recent
  <2>2. \A q \in Coming(c)' : q \in Coming(c) \/ q = r
    BY <1>1, <1>10 DEF Coming, Elements
  <2>3. \A q \in Coming(c) : q \in Reply
    BY <1>0, ComingTyped DEF ClientInv
  <2>4. \A q \in Coming(c)' : q \in Reply /\ (q \in Coming(c) \/ Recent(c, q)')
    BY <2>1, <2>2, <2>3
  <2> QED BY <1>1, <2>4, FreshStep
<1> QED BY <1>11, <1>12, <1>13, <1>14 DEF ClientInv

\* The reply is sent for the request the client is at, after nothing else.
LEMMA ReplyKeeps ==
  ASSUME CInv, [CNext]_cvars, NEW c \in Client, SendReply(c)
  PROVE ClientInv(c)'
<1>0. ClientInv(c) /\ CTypeOK /\ outbound \in [Client -> Seq(Reply)] /\ inbound[c] \in Seq(Nat)
  BY DEF CInv, CTypeOK
<1> HIDE DEF Reply
<1>1. UNCHANGED <<script, client_pc, next, inbound, replies, asked, current, main>>
  BY DEF SendReply, clientVars
<1>2. thread[c] = "reply" /\ thread'[c] = "check" /\ Up
  BY DEF SendReply, AfterReply, ThreadTo, CInv, CTypeOK
<1>3. Live(c) /\ Busy(c) /\ ~Busy(c)' /\ Built(c)' = {} /\ Built(c) = {answer[c]}
  BY <1>2 DEF Live, Busy, Built
<1>4. PICK r \in Reply : r = answer[c]
  BY <1>0, <1>2, <1>3 DEF ClientInv, AnswerMatches
<1>5. /\ r.request = next[c] /\ Len(outbound[c]) = 0
      /\ client_pc[c] \in {"await", "closed"}
  BY <1>0, <1>2, <1>3, <1>4 DEF ClientInv, AnswerMatches, OneOutstanding
<1>6. Len(inbound[c]) = 0
  <2>1. Len(inbound[c]) <= 1 /\ Len(inbound[c]) # 1
    BY <1>0, <1>3 DEF ClientInv, OneOutstanding
  <2> QED BY <1>0, <2>1, NoneLeft
<1>7. outbound'[c] = <<r>>
  <2>1. outbound[c] \in Seq(Reply) /\ outbound'[c] = Append(outbound[c], r)
    BY <1>0, <1>4 DEF SendReply, AfterReply
  <2>2. outbound[c] = <<>>
    BY <1>5, <2>1
  <2> QED BY <2>1, <2>2
<1>8. OneOutstanding(c)'
  <2>1. Len(outbound'[c]) = 1 /\ Len(outbound'[c]) <= 1 /\ outbound'[c][1] = r
    BY <1>7
  <2>2. Len(inbound'[c]) = 0
    BY <1>1, <1>6
  <2> QED BY <1>1, <1>3, <1>5, <2>1, <2>2 DEF OneOutstanding
<1>9. AnswerMatches(c)'
  BY <1>2 DEF AnswerMatches
<1>10. Elements(outbound[c])' = {r}
  <2>1. 1..Len(<<r>>) = {1} /\ <<r>>[1] = r
    OBVIOUS
  <2> QED BY <1>7, <2>1 DEF Elements
<1>11. Acked(c)'
  <2>1. \A q \in Said(c)' : q \in Said(c)
    BY <1>1, <1>3, <1>4, <1>10 DEF Said, Elements
  <2> QED BY <2>1, AckedStep
<1>12. Fresh(c)'
  <2>1. \A q \in Coming(c)' : q \in Coming(c) /\ q \in Reply
    BY <1>3, <1>4, <1>10 DEF Coming
  <2> QED BY <1>1, <2>1, FreshStep
<1> QED BY <1>8, <1>9, <1>11, <1>12 DEF ClientInv

\* Every step of a connection keeps what is so of every client.
LEMMA ConnectionKeeps ==
  ASSUME CInv, [CNext]_cvars, NEW c \in Client, ClientStep(c) \/ Stop(c) \/ ThreadStep(c)
  PROVE \A d \in Client : ClientInv(d)'
<1>1. ASSUME NEW d \in Client, d # c PROVE ClientInv(d)'
  BY <1>1, OthersUntouched, UntouchedKeeps DEF CInv
<1>2. CASE ServeShutdown(c)
  BY <1>1, <1>2, ExitKeeps DEF ServeShutdown, clientVars
<1>3. CASE Terminate(c)
  <2>1. Untouched(c)
    BY <1>3 DEF Terminate, Untouched, clientVars, threadVars
  <2> QED BY <1>1, <2>1, UntouchedKeeps
<1>4. CASE ~ServeShutdown(c) /\ ~Terminate(c)
  BY <1>1, <1>4, ConnectKeeps, SendKeeps, ReadKeeps, CloseKeeps, CheckKeeps, RecvKeeps,
     ServeKeeps, StatusEpochKeeps, StatusGenerationKeeps, ReplyKeeps
     DEF ClientStep, Finish, Stop, ThreadStep
<1> QED BY <1>2, <1>3, <1>4

(***************************************************************************)
(* The main thread, and the whole.                                         *)
(***************************************************************************)

\* Accepting a connection starts a thread that has nothing in hand.
LEMMA AcceptKeeps ==
  ASSUME CInv, [CNext]_cvars, MainAccept
  PROVE \A d \in Client : ClientInv(d)'
<1>0. CTypeOK /\ thread \in [Client -> {"none", "check", "recv", "serve", "status", "reply", "exited"}]
  BY DEF CInv, CTypeOK
<1>1. /\ UNCHANGED <<script, client_pc, next, inbound, outbound, replies, asked, current, answer>>
      /\ thread' = [thread EXCEPT ![Head(backlog)] = "check"]
  BY DEF MainAccept, MainOnly, ThreadTo, clientVars
<1>2. backlog \in Seq(Client) /\ backlog # <<>>
  BY DEF MainAccept, CInv, CTypeOK
<1>3. PICK c \in Client : c = Head(backlog)
  BY <1>2
<1>4. thread[c] = "none"
  <2>1. 1 \in 1..Len(backlog) /\ c = backlog[1]
    BY <1>2, <1>3
  <2> QED BY <2>1 DEF CInv, BacklogOnce
<1>5. thread'[c] = "check"
  BY <1>0, <1>1, <1>3
<1>6. ASSUME NEW d \in Client, d # c PROVE ClientInv(d)'
  <2>1. Untouched(d)
    BY <1>0, <1>1, <1>3, <1>6 DEF Untouched
  <2> QED BY <2>1, UntouchedKeeps
<1>7. ClientInv(c)'
  <2>0. ClientInv(c)
    BY DEF CInv
  <2>1. ~Busy(c)' /\ Built(c)' = {} /\ (Live(c)' => Live(c))
    BY <1>4, <1>5, ScriptFixed DEF Busy, Built, Live
  <2>2. OneOutstanding(c)'
    BY <1>1, <2>0, <2>1 DEF ClientInv, OneOutstanding
  <2>3. AnswerMatches(c)'
    BY <1>5 DEF AnswerMatches
  <2>4. Acked(c)' /\ Fresh(c)'
    BY <1>1, <2>1, SameReplies
  <2> QED BY <2>2, <2>3, <2>4 DEF ClientInv
<1> QED BY <1>6, <1>7

LEMMA ClientsKept ==
  ASSUME CInv, [CNext]_cvars
  PROVE \A c \in Client : ClientInv(c)'
<1>1. CASE UNCHANGED cvars
  BY <1>1, UntouchedKeeps DEF cvars, Untouched
<1>2. CASE MainAccept
  BY <1>2, AcceptKeeps
<1>3. CASE MainStep /\ ~MainAccept
  <2>1. ASSUME NEW c \in Client PROVE Untouched(c)
    BY <1>3 DEF MainStep, MainCheck, MainPoll, MainJoin, MainPersist, MainReturn,
                MainOnly, clientVars, Untouched
  <2> QED BY <2>1, UntouchedKeeps
<1> QED BY <1>1, <1>2, <1>3, ConnectionKeeps DEF CNext

\* A thread's step is that of a started thread, and leaves it started.
LEMMA ThreadStarted ==
  ASSUME CTypeOK, NEW c \in Client, ThreadStep(c)
  PROVE /\ Up /\ thread[c] \in {"check", "recv", "serve", "status", "reply"}
        /\ thread'[c] # "none" /\ client_pc' = client_pc /\ backlog' = backlog
        /\ main' \in {main, "terminated"} /\ trace' = trace
<1>0. thread \in [Client -> {"none", "check", "recv", "serve", "status", "reply", "exited"}]
  BY DEF CTypeOK
<1> QED
  BY <1>0 DEF ThreadStep, CheckRunning, RecvFrame, RecvClosed, ServeRequest, ServeStatusEpoch,
     ServeStatusGeneration, ServeShutdown, Terminate, SendReply, AfterReply, ThreadOnly,
     ThreadTo, Exit, clientVars, threadVars

LEMMA ClientStays ==
  ASSUME CTypeOK, NEW c \in Client, ClientStep(c) \/ Stop(c)
  PROVE /\ UNCHANGED <<vars, thread, main, trace>>
        /\ client_pc'[c] # "start"
        /\ backlog' = backlog \/ (client_pc[c] = "start" /\ backlog' = Append(backlog, c))
<1>0. client_pc \in [Client -> {"start", "send", "await", "closed"}]
  BY DEF CTypeOK
<1> QED
  BY <1>0 DEF ClientStep, Connect, SendFrame, ReadReply, Finish, Stop, Close, GoTo, threadVars

LEMMA BacklogKept ==
  ASSUME CInv, [CNext]_cvars
  PROVE BacklogOnce'
<1>0. /\ CTypeOK /\ BacklogOnce /\ backlog \in Seq(Client) /\ Len(backlog) \in Nat
      /\ \A i \in 1..Len(backlog) : backlog[i] \in Client
  BY DEF CInv, CTypeOK
<1>1. CASE UNCHANGED <<backlog, thread, client_pc>>
  BY <1>0, <1>1 DEF BacklogOnce
<1>2. ASSUME NEW c \in Client, ThreadStep(c) PROVE BacklogOnce'
  <2>1. \A d \in Client : d # c => thread'[d] = thread[d]
    BY <1>0, <1>2, OthersUntouched DEF Untouched
  <2>2. thread[c] # "none" /\ client_pc' = client_pc /\ backlog' = backlog
    BY <1>0, <1>2, ThreadStarted
  <2>3. \A i \in 1..Len(backlog) : thread'[backlog[i]] = "none"
    BY <1>0, <2>1, <2>2 DEF BacklogOnce
  <2> QED BY <1>0, <2>1, <2>2, <2>3 DEF BacklogOnce
<1>3. ASSUME NEW c \in Client, ClientStep(c) \/ Stop(c) PROVE BacklogOnce'
  <2>1. \A d \in Client : d # c => client_pc'[d] = client_pc[d]
    BY <1>0, <1>3, OthersUntouched DEF Untouched
  <2>2. /\ thread' = thread /\ client_pc'[c] # "start"
        /\ backlog' = backlog \/ (client_pc[c] = "start" /\ backlog' = Append(backlog, c))
    BY <1>0, <1>3, ClientStays
  <2>3. CASE backlog' = backlog
    BY <1>0, <2>1, <2>2, <2>3 DEF BacklogOnce
  <2>4. CASE client_pc[c] = "start" /\ backlog' = Append(backlog, c)
    <3>1. /\ Len(backlog') = Len(backlog) + 1 /\ backlog'[Len(backlog) + 1] = c
          /\ \A i \in 1..Len(backlog) : backlog'[i] = backlog[i]
      BY <1>0, <2>4
    <3>2. thread[c] = "none" /\ \A i \in 1..Len(backlog) : backlog[i] # c
      BY <1>0, <2>4 DEF BacklogOnce
    <3>3. \A i \in 1..Len(backlog') : i \in 1..Len(backlog) \/ i = Len(backlog) + 1
      BY <1>0, <3>1
    <3>4. \A i \in 1..Len(backlog') :
            thread'[backlog'[i]] = "none" /\ client_pc'[backlog'[i]] # "start"
      BY <1>0, <2>1, <2>2, <3>1, <3>2, <3>3 DEF BacklogOnce
    <3>5. \A i, j \in 1..Len(backlog') : i < j => backlog'[i] # backlog'[j]
      <4>1. ASSUME NEW i \in 1..Len(backlog'), NEW j \in 1..Len(backlog'), i < j
            PROVE backlog'[i] # backlog'[j]
        <5>1. i \in 1..Len(backlog)
          BY <1>0, <3>1, <4>1
        <5> QED BY <1>0, <3>1, <3>2, <3>3, <4>1, <5>1 DEF BacklogOnce
      <4> QED BY <4>1
    <3>6. \A d \in Client : client_pc'[d] = "start" => thread'[d] = "none"
      BY <1>0, <2>1, <2>2 DEF BacklogOnce
    <3> QED BY <3>4, <3>5, <3>6 DEF BacklogOnce
  <2> QED BY <2>2, <2>3, <2>4
<1>4. CASE MainAccept
  <2>1. /\ backlog # <<>> /\ backlog' = Tail(backlog) /\ client_pc' = client_pc
        /\ thread' = [thread EXCEPT ![Head(backlog)] = "check"]
    BY <1>4 DEF MainAccept, MainOnly, ThreadTo, clientVars
  <2>2. /\ Len(backlog') = Len(backlog) - 1 /\ Head(backlog) = backlog[1] /\ 1 \in 1..Len(backlog)
        /\ \A i \in 1..Len(backlog') : backlog'[i] = backlog[i + 1] /\ i + 1 \in 1..Len(backlog)
    BY <1>0, <2>1
  <2>3. thread \in [Client -> {"none", "check", "recv", "serve", "status", "reply", "exited"}]
    BY <1>0 DEF CTypeOK
  <2>4. \A d \in Client : d # backlog[1] => thread'[d] = thread[d]
    BY <2>1, <2>2, <2>3
  <2>5. \A i \in 1..Len(backlog') : 1 < i + 1 /\ backlog'[i] # backlog[1]
    BY <1>0, <2>2 DEF BacklogOnce
  <2>6. \A i \in 1..Len(backlog') :
          thread'[backlog'[i]] = "none" /\ client_pc'[backlog'[i]] # "start"
    BY <1>0, <2>1, <2>2, <2>4, <2>5 DEF BacklogOnce
  <2>7. \A i, j \in 1..Len(backlog') : i < j => backlog'[i] # backlog'[j]
    <3>1. ASSUME NEW i \in 1..Len(backlog'), NEW j \in 1..Len(backlog'), i < j
          PROVE backlog'[i] # backlog'[j]
      <4>1. i + 1 < j + 1
        BY <3>1
      <4> QED BY <1>0, <2>2, <4>1 DEF BacklogOnce
    <3> QED BY <3>1
  <2>8. \A d \in Client : client_pc'[d] = "start" => thread'[d] = "none"
    BY <1>0, <2>1, <2>2, <2>4 DEF BacklogOnce
  <2> QED BY <2>6, <2>7, <2>8 DEF BacklogOnce
<1>5. CASE MainStep /\ ~MainAccept
  BY <1>1, <1>5 DEF MainStep, MainCheck, MainPoll, MainJoin, MainPersist, MainReturn,
                MainOnly, clientVars
<1>6. CASE UNCHANGED cvars
  BY <1>1, <1>6 DEF cvars
<1> QED BY <1>2, <1>3, <1>4, <1>5, <1>6 DEF CNext

LEMMA JoinedKept ==
  ASSUME CInv, [CNext]_cvars
  PROVE JoinedFirst'
<1>0. CTypeOK /\ JoinedFirst
  BY DEF CInv
<1>1. CASE UNCHANGED <<vars, thread, main, trace>>
  BY <1>0, <1>1 DEF JoinedFirst, Joined, EngineTrace, vars
<1>2. ASSUME NEW c \in Client, ThreadStep(c) PROVE JoinedFirst'
  <2>1. ~Joined /\ main' \in {main, "terminated"}
    BY <1>0, <1>2, ThreadStarted DEF Joined
  <2> QED BY <1>0, <2>1 DEF JoinedFirst
<1>3. ASSUME NEW c \in Client, ClientStep(c) \/ Stop(c) PROVE JoinedFirst'
  BY <1>0, <1>1, <1>3, ClientStays
<1>4. CASE MainStep
  BY <1>0, <1>4 DEF MainStep, MainCheck, MainPoll, MainAccept, MainJoin, MainPersist, MainReturn,
         MainTo, MainOnly, JoinedFirst, Joined, EngineTrace, vars
<1>5. CASE UNCHANGED cvars
  BY <1>1, <1>5 DEF cvars
<1> QED BY <1>2, <1>3, <1>4, <1>5 DEF CNext

LEMMA InitCInv == CInit => CInv
<1> SUFFICES ASSUME CInit PROVE CInv
  OBVIOUS
<1>0. TypeOK /\ src_gen = [s \in SourceId |-> 0]
  BY InitTypeOK DEF CInit, Init
<1>1. script \in [Client -> Seq(Frame)]
  BY ScenariosAssumption DEF CInit
<1>2. CTypeOK
  <2> HIDE DEF Frame, Reply, TypeOK
  <2> QED BY <1>0, <1>1 DEF CInit, CTypeOK
<1>3. ASSUME NEW c \in Client PROVE ClientInv(c)
  <2>1. /\ Len(outbound[c]) = 0 /\ Len(inbound[c]) = 0 /\ thread[c] = "none"
        /\ outbound[c] = <<>> /\ replies[c] = <<>>
        /\ asked[c] = [s \in SourceId |-> 0]
    BY DEF CInit
  <2>2. Said(c) = {} /\ Coming(c) = {}
    BY <2>1, ElementsEmpty DEF Said, Coming, Built
  <2>3. Acked(c) /\ Fresh(c)
    BY <1>0, <2>1, <2>2 DEF Acked, Fresh
  <2>4. OneOutstanding(c) /\ AnswerMatches(c)
    BY <2>1 DEF OneOutstanding, AnswerMatches, Busy
  <2> QED BY <2>3, <2>4 DEF ClientInv
<1>4. BacklogOnce /\ JoinedFirst
  BY DEF CInit, BacklogOnce, JoinedFirst
<1> QED BY <1>2, <1>3, <1>4 DEF CInv

LEMMA CInvariant == CSpec => []CInv
<1>1. CInv /\ [CNext]_cvars => CInv'
  BY CTyped, ClientsKept, BacklogKept, JoinedKept DEF CInv
<1> QED BY InitCInv, <1>1, PTL DEF CSpec

(***************************************************************************)
(* The theorems.                                                           *)
(***************************************************************************)

\* A client of po serve that reads a reply reads the one for the request it
\* waits for, although replies carry no request number: however the
\* connection threads interleave, clients are stopped and the process ends,
\* serve_handle_conn answers a request at most once and before the next.
THEOREM RepliesAreMatched == CSpec => []RepliesMatch
<1>1. CInv => RepliesMatch
  <2> SUFFICES ASSUME CInv, NEW c \in Client, client_pc[c] = "await", outbound[c] # <<>>
               PROVE Head(outbound[c]).request = next[c]
    BY DEF RepliesMatch
  <2> HIDE DEF Reply
  <2>1. outbound[c] \in Seq(Reply) /\ Len(outbound[c]) <= 1 /\ OneOutstanding(c)
    BY DEF CInv, CTypeOK, ClientInv, OneOutstanding
  <2>2. Len(outbound[c]) \in Nat /\ Len(outbound[c]) # 0 /\ Head(outbound[c]) = outbound[c][1]
    BY <2>1
  <2>3. \A n \in Nat : n <= 1 /\ n # 0 => n = 1
    OBVIOUS
  <2>4. Len(outbound[c]) = 1
    BY <2>1, <2>2, <2>3
  <2> QED BY <2>1, <2>2, <2>4 DEF OneOutstanding
<1> QED BY <1>1, CInvariant, PTL

\* Evidence of which a client was told "accepted" is in the trace once the
\* process has ended by itself: cmd_serve joins every connection thread
\* before it persists, and the engine never drops what it admitted.
THEOREM AckedIsInTrace == CSpec => []AckedIsDurable
<1>1. CInv => AckedIsDurable
  <2> SUFFICES ASSUME CInv, main = "done", NEW c \in Client, NEW k \in 1..Len(replies[c]),
                      replies[c][k].type = "Ack", replies[c][k].text = "accepted"
               PROVE Durable(script[c][replies[c][k].request])
    BY DEF AckedIsDurable
  <2>1. PICK r : r = replies[c][k]
    OBVIOUS
  <2>2. r \in Said(c) /\ r.type = "Ack" /\ r.text = "accepted"
    BY <2>1 DEF Said, Elements
  <2>3. PICK f : f = script[c][r.request]
    OBVIOUS
  <2>4. InEngine(f)
    BY <2>2, <2>3 DEF CInv, ClientInv, Acked, Backed
  <2>5. trace = EngineTrace
    BY DEF CInv, JoinedFirst
  <2>6. trace.obs = obs /\ trace.dec = dec /\ trace.outcomes = outcomes
    BY <2>5 DEF EngineTrace
  <2>7. trace # Absent
    <3>1. /\ obs \in Seq(AdmittedObservation) /\ dec \in Seq(AdmittedDecision)
          /\ outcomes \in [DecisionId -> PlacementOutcome \cup {Nil}]
      BY DEF CInv, CTypeOK, TypeOK
    <3> HIDE DEF AdmittedObservation, AdmittedDecision, PlacementOutcome
    <3>2. EngineTrace \in Trace
      BY <3>1 DEF EngineTrace, Trace
    <3> QED BY <2>5, <3>2, AbsentAssumption
  <2>8. Durable(f)
    BY <2>4, <2>6, <2>7 DEF Durable, InEngine
  <2> QED BY <2>1, <2>3, <2>8
<1> QED BY <1>1, CInvariant, PTL

\* The generation of a Status reply of serve_handle_conn lies between the one
\* in force when the client sent the request and the one in force now, though
\* the lock is released between the two reads that make the reply.
THEOREM StatusIsRecent == CSpec => []StatusIsFresh
<1>1. CInv => StatusIsFresh
  <2> SUFFICES ASSUME CInv, NEW c \in Client, NEW k \in 1..Len(outbound[c]),
                      outbound[c][k].type = "Status"
               PROVE LET r == outbound[c][k]
                         s == script[c][r.request].payload
                     IN asked[c][s] <= r.generation /\ r.generation <= src_gen[s]
    BY DEF StatusIsFresh
  <2>1. PICK r : r = outbound[c][k]
    OBVIOUS
  <2>2. r \in Coming(c)
    BY <2>1 DEF Coming, Elements
  <2>3. Recent(c, r)
    BY <2>2 DEF CInv, ClientInv, Fresh
  <2> QED BY <2>1, <2>3 DEF Recent
<1> QED BY <1>1, CInvariant, PTL
================================================================================
