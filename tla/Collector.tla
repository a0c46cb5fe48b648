------------------------------- MODULE Collector -------------------------------
(***************************************************************************)
(* The collector process (po serve) and the processes connected to it: the *)
(* accept loop and the connection threads of cli/po.cpp over the framed    *)
(* TCP protocol of src/protocol.cpp, around one shared Observatory.        *)
(*                                                                         *)
(* Each connection has its own thread.  A thread looks at the running flag *)
(* only between two frames; inside recv it waits as long as the peer keeps *)
(* the connection open.  A request is served by one engine operation and   *)
(* answered afterwards, outside the engine's lock, so requests of          *)
(* different clients interleave at every step below.                       *)
(*                                                                         *)
(* A frame in transit is the number of the request in the script of its    *)
(* client.  A frame of which only a part arrives (recv_frame reads header, *)
(* payload and checksum apart) has no effect but that the thread waits for *)
(* the rest, so a peer that stops in the middle of a frame is one that     *)
(* stops before it.  Replies carry no request number in the code: the      *)
(* field request of a reply only records which request it was made for.    *)
(***************************************************************************)
EXTENDS Observatory

CONSTANTS
  Client,       \* processes that connect to the collector
  Scenarios,    \* what they may do: the frames each sends, one after the other,
                \* and who keeps the connection open after the last
  Killable,     \* clients that may be stopped at any point
  Undecodable,  \* a payload read_* cannot decode
  Absent        \* the trace file does not exist

VARIABLES
  script,       \* the frames each client sends, one after the other
  lingering,    \* the clients that do not close after their script
  client_pc,    \* where each client is
  next,         \* number of the request each client is at
  inbound,      \* requests on their way to, or buffered at, the collector
  outbound,     \* replies on their way to each client
  replies,      \* history: the replies each client has read
  asked,        \* history: src_gen when the client last sent a Status request
  backlog,      \* connections not accepted yet, in order
  thread,       \* where the thread of each connection is
  current,      \* number of the request the thread is serving
  answer,       \* the reply it is building
  running,      \* the flag shared by all threads
  main,         \* where the main thread is
  trace         \* the log in the trace file

clientVars == <<script, lingering, client_pc, next, replies, asked>>
threadVars == <<thread, current, answer>>
cvars == <<vars, script, lingering, client_pc, next, inbound, outbound,
           replies, asked, backlog, thread, current, answer, running, main, trace>>

\* Types recv_frame lets through and serve_handle_conn answers with "ok".
Unhandled == {"Hello", "Ack", "Ping", "Probe", "Confirm"}

\* The frames of a type: what read_* finds in the payload, if anything, and in
\* wire what recv_frame finds in the frame, which a bad magic, version, type,
\* length or checksum makes "refused".
FramesOf(type, payloads) ==
  [ type : {type}, payload : payloads \cup {Undecodable}, wire : {"ok", "refused"} ]

Frame ==
  FramesOf("RegisterSource", Descriptors)
  \cup FramesOf("CoordinatorEpoch", Epochs)
  \cup FramesOf("Observation", Observations)
  \cup FramesOf("Decision", Decisions)
  \cup FramesOf("Outcome", Outcomes)
  \cup FramesOf("Status", SourceId)
  \cup FramesOf("Shutdown", {Nil})
  \cup UNION { FramesOf(t, {Nil}) : t \in Unhandled }

ASSUME ScenariosAssumption ==
  \A sc \in Scenarios :
    /\ sc.lingering \subseteq Client \ Killable
    /\ sc.script \in [Client -> Seq(Frame)]

\* What a trace may hold.
Trace ==
  [ obs : Seq(AdmittedObservation), dec : Seq(AdmittedDecision),
    outcomes : [DecisionId -> PlacementOutcome \cup {Nil}] ]

ASSUME AbsentAssumption == Absent \notin Trace

\* The trace that persist would write now.
EngineTrace == [obs |-> obs, dec |-> dec, outcomes |-> outcomes]

\* cmd_serve up to its loop: an engine without earlier evidence, --epoch set.
CInit ==
  /\ Init
  /\ \E sc \in Scenarios : script = sc.script /\ lingering = sc.lingering
  /\ client_pc = [c \in Client |-> "start"]
  /\ next = [c \in Client |-> 1]
  /\ inbound = [c \in Client |-> <<>>]
  /\ outbound = [c \in Client |-> <<>>]
  /\ replies = [c \in Client |-> <<>>]
  /\ asked = [c \in Client |-> [s \in SourceId |-> 0]]
  /\ backlog = <<>>
  /\ thread = [c \in Client |-> "none"]
  /\ current = [c \in Client |-> 0]
  /\ answer = [c \in Client |-> Nil]
  /\ running = TRUE
  /\ main = "loop"
  /\ trace = Absent

Up == main \notin {"done", "terminated"}

\* The collector's end of the connection is closed.
Gone(c) == thread[c] = "exited" \/ ~Up

\* The peer's end is closed.
PeerClosed(c) == client_pc[c] = "closed"

(***************************************************************************)
(* The clients: connect, then send a frame and wait for one reply, for     *)
(* every frame of the script, and close.  Failures to send or to receive   *)
(* are not looked at.                                                      *)
(***************************************************************************)

GoTo(c, pc) == client_pc' = [client_pc EXCEPT ![c] = pc]

Connect(c) ==
  /\ client_pc[c] = "start"
  /\ IF Up
       THEN backlog' = Append(backlog, c) /\ GoTo(c, "send")
       ELSE UNCHANGED backlog /\ GoTo(c, "closed")
  /\ UNCHANGED <<vars, script, lingering, next, inbound, outbound, replies, asked,
                 threadVars, running, main, trace>>

\* send_frame; what is sent to a closed connection is lost.
SendFrame(c) ==
  /\ client_pc[c] = "send"
  /\ next[c] <= Len(script[c])
  /\ inbound' = IF Gone(c) THEN inbound ELSE [inbound EXCEPT ![c] = Append(@, next[c])]
  /\ asked' = IF script[c][next[c]].type = "Status"
                THEN [asked EXCEPT ![c] = src_gen] ELSE asked
  /\ GoTo(c, "await")
  /\ UNCHANGED <<vars, script, lingering, next, outbound, replies, backlog, threadVars,
                 running, main, trace>>

\* recv_frame at the client: the next reply, or nothing once the collector
\* has closed (a close may also discard replies that were not read yet).
ReadReply(c) ==
  /\ client_pc[c] = "await"
  /\ \/ /\ outbound[c] # <<>>
        /\ replies' = [replies EXCEPT ![c] = Append(@, Head(outbound[c]))]
        /\ outbound' = [outbound EXCEPT ![c] = Tail(@)]
     \/ /\ Gone(c)
        /\ outbound' = [outbound EXCEPT ![c] = <<>>]
        /\ UNCHANGED replies
  /\ next' = [next EXCEPT ![c] = @ + 1]
  /\ GoTo(c, "send")
  /\ UNCHANGED <<vars, script, lingering, inbound, asked, backlog, threadVars, running,
                 main, trace>>

Close(c) ==
  /\ GoTo(c, "closed")
  /\ UNCHANGED <<vars, script, lingering, next, inbound, outbound, replies, asked, backlog,
                 threadVars, running, main, trace>>

Finish(c) ==
  /\ client_pc[c] = "send"
  /\ next[c] > Len(script[c])
  /\ c \notin lingering
  /\ Close(c)

\* A client process may be stopped at any point, in the middle of a frame too.
Stop(c) ==
  /\ c \in Killable
  /\ client_pc[c] \in {"send", "await"}
  /\ Close(c)

(***************************************************************************)
(* The connection threads: serve_handle_conn.                              *)
(***************************************************************************)

ThreadTo(c, pc) == thread' = [thread EXCEPT ![c] = pc]

\* The rest of the process during a step of the thread that only reads.
ThreadOnly == UNCHANGED <<vars, clientVars, outbound, backlog, running, main, trace>>

\* The thread closes its socket; unread requests are discarded.
Exit(c) ==
  /\ ThreadTo(c, "exited")
  /\ inbound' = [inbound EXCEPT ![c] = <<>>]
  /\ current' = [current EXCEPT ![c] = 0]

\* while (running.load() && ...)
CheckRunning(c) ==
  /\ Up
  /\ thread[c] = "check"
  /\ IF running THEN ThreadTo(c, "recv") /\ UNCHANGED <<inbound, current>> ELSE Exit(c)
  /\ ThreadOnly
  /\ UNCHANGED answer

\* recv_frame; a refused frame ends the loop.
RecvFrame(c) ==
  /\ Up
  /\ thread[c] = "recv"
  /\ inbound[c] # <<>>
  /\ IF script[c][Head(inbound[c])].wire = "ok"
       THEN /\ ThreadTo(c, "serve")
            /\ inbound' = [inbound EXCEPT ![c] = Tail(@)]
            /\ current' = [current EXCEPT ![c] = Head(inbound[c])]
       ELSE Exit(c)
  /\ ThreadOnly
  /\ UNCHANGED answer

\* recv_exact returns false: the peer has closed before a whole frame.
RecvClosed(c) ==
  /\ Up
  /\ thread[c] = "recv"
  /\ inbound[c] = <<>> /\ PeerClosed(c)
  /\ Exit(c)
  /\ ThreadOnly
  /\ UNCHANGED answer

Request(c) == script[c][current[c]]

\* The text of the acknowledgement, from what the engine says.
Verdict(f) ==
  CASE f.type = "RegisterSource" -> "registered"
    [] f.type = "CoordinatorEpoch" -> "epoch"
    [] f.type = "Observation" ->
         IF RefusedEarly(f.payload) \/ RefusedLate(f.payload) THEN "REJECT" ELSE "accepted"
    [] f.type = "Decision" -> IF RefusedDecision(f.payload) THEN "REJECT" ELSE "accepted"
    [] f.type = "Outcome" -> IF RefusedOutcome(f.payload) THEN "REJECT" ELSE "accepted"
    [] OTHER -> "ok"

\* The engine operation a request asks for.
Apply(f) ==
  \/ f.type = "RegisterSource" /\ register_source(f.payload)
  \/ f.type = "CoordinatorEpoch" /\ set_coordinator_epoch(f.payload)
  \/ f.type = "Observation" /\ ingest(f.payload)
  \/ f.type = "Decision" /\ ingest_decision(f.payload)
  \/ f.type = "Outcome" /\ ingest_outcome(f.payload)
  \/ f.type \in Unhandled /\ UNCHANGED vars

\* read_* or r.u64() throws on the payload, whose bytes an unhandled message
\* and Shutdown do not look at.
Throws(f) == f.payload = Undecodable /\ f.type \notin Unhandled \cup {"Shutdown"}

ServeRequest(c) ==
  /\ Up
  /\ thread[c] = "serve"
  /\ ~Throws(Request(c))
  /\ Apply(Request(c))
  /\ answer' = [answer EXCEPT ![c] =
       [type |-> "Ack", request |-> current[c], text |-> Verdict(Request(c))]]
  /\ ThreadTo(c, "reply")
  /\ UNCHANGED <<clientVars, inbound, outbound, backlog, current, running, main, trace>>

\* Status: the epoch is read under the engine's lock ...
ServeStatusEpoch(c) ==
  /\ Up
  /\ thread[c] = "serve"
  /\ Request(c).type = "Status" /\ ~Throws(Request(c))
  /\ answer' = [answer EXCEPT ![c] = [type |-> "Status", request |-> current[c],
                                      epoch |-> coordinator, generation |-> 0]]
  /\ ThreadTo(c, "status")
  /\ ThreadOnly
  /\ UNCHANGED <<inbound, current>>

\* Mutant: the generation of the descriptor registered last.
StatusGenerationRegistered(s) == IF sources[s] = Nil THEN 0 ELSE sources[s]

\* current_source_generation
StatusGeneration(s) == src_gen[s]

\* ... and the generation under another acquisition of it.
ServeStatusGeneration(c) ==
  /\ Up
  /\ thread[c] = "status"
  /\ answer' = [answer EXCEPT ![c].generation = StatusGeneration(Request(c).payload)]
  /\ ThreadTo(c, "reply")
  /\ ThreadOnly
  /\ UNCHANGED <<inbound, current>>

\* Shutdown is not answered.
ServeShutdown(c) ==
  /\ Up
  /\ thread[c] = "serve"
  /\ Request(c).type = "Shutdown"
  /\ running' = FALSE
  /\ Exit(c)
  /\ UNCHANGED <<vars, clientVars, outbound, backlog, answer, main, trace>>

\* The exception leaves the thread function: std::terminate ends the process.
Terminate(c) ==
  /\ Up
  /\ thread[c] = "serve"
  /\ Throws(Request(c))
  /\ main' = "terminated"
  /\ UNCHANGED <<vars, clientVars, inbound, outbound, backlog, threadVars, running, trace>>

\* Mutant: a refused request is not answered.
AfterReplyUnlessRefused(c) ==
  /\ ThreadTo(c, "check")
  /\ outbound' = IF answer[c].type = "Ack" /\ answer[c].text = "REJECT" THEN outbound
                 ELSE [outbound EXCEPT ![c] = Append(@, answer[c])]

\* Mutant: the loop is not continued after a Status reply, so that an
\* acknowledgement follows it.
AfterReplyTwice(c) ==
  /\ outbound' = [outbound EXCEPT ![c] = Append(@, answer[c]) \o
       (IF answer[c].type = "Status"
          THEN << [type |-> "Ack", request |-> current[c], text |-> "ok"] >> ELSE <<>>)]
  /\ ThreadTo(c, "check")

\* send_frame; whether the peer still reads it is not looked at.
AfterReply(c) ==
  /\ outbound' = [outbound EXCEPT ![c] = Append(@, answer[c])]
  /\ ThreadTo(c, "check")

SendReply(c) ==
  /\ Up
  /\ thread[c] = "reply"
  /\ AfterReply(c)
  /\ answer' = [answer EXCEPT ![c] = Nil]
  /\ UNCHANGED <<vars, clientVars, inbound, backlog, current, running, main, trace>>

(***************************************************************************)
(* The main thread: the loop of cmd_serve, the joins, and persist.         *)
(***************************************************************************)

MainTo(pc) == main' = pc
MainOnly == UNCHANGED <<vars, clientVars, inbound, outbound, current, answer, running>>

\* while (running.load())
MainCheck ==
  /\ main = "loop"
  /\ MainTo(IF running THEN "wait" ELSE "join")
  /\ MainOnly
  /\ UNCHANGED <<backlog, thread, trace>>

\* Mutant: the main thread waits in accept instead of polling.
PollTimesOutNever == FALSE

\* wait_accept(50) returns false when nobody asks for a connection.
PollTimesOut == backlog = <<>>

MainPoll ==
  /\ main = "wait"
  /\ PollTimesOut
  /\ MainTo("loop")
  /\ MainOnly
  /\ UNCHANGED <<backlog, thread, trace>>

\* accept, and a thread for the connection; running may be false by now.
MainAccept ==
  /\ main = "wait"
  /\ backlog # <<>>
  /\ backlog' = Tail(backlog)
  /\ ThreadTo(Head(backlog), "check")
  /\ MainTo("loop")
  /\ MainOnly
  /\ UNCHANGED trace

\* Mutant: the trace is written while connection threads still run.
JoinedNotWaiting == TRUE

Joined == \A c \in Client : thread[c] \in {"none", "exited"}

\* th.join() of every thread
MainJoin ==
  /\ main = "join"
  /\ Joined
  /\ MainTo("persist")
  /\ MainOnly
  /\ UNCHANGED <<backlog, thread, trace>>

MainPersist ==
  /\ main = "persist"
  /\ trace' = EngineTrace
  /\ MainTo("return")
  /\ MainOnly
  /\ UNCHANGED <<backlog, thread>>

\* The process ends; the listening socket closes with it, and with that the
\* connections that were never accepted.
MainReturn ==
  /\ main = "return"
  /\ MainTo("done")
  /\ MainOnly
  /\ UNCHANGED <<backlog, thread, trace>>

ClientStep(c) ==
  Connect(c) \/ SendFrame(c) \/ ReadReply(c) \/ Finish(c)

ThreadStep(c) ==
  \/ CheckRunning(c) \/ RecvFrame(c) \/ RecvClosed(c)
  \/ ServeRequest(c) \/ ServeStatusEpoch(c) \/ ServeStatusGeneration(c)
  \/ ServeShutdown(c) \/ Terminate(c) \/ SendReply(c)

MainStep == MainCheck \/ MainPoll \/ MainAccept \/ MainJoin \/ MainPersist \/ MainReturn

CNext ==
  \/ \E c \in Client : ClientStep(c) \/ Stop(c) \/ ThreadStep(c)
  \/ MainStep

\* Every thread is scheduled, and TCP delivers between open connections.
\* A client goes on with its script; nothing makes it stop.
Fairness ==
  /\ WF_cvars(MainStep)
  /\ \A c \in Client : WF_cvars(ThreadStep(c)) /\ WF_cvars(ClientStep(c))

CSpec == CInit /\ [][CNext]_cvars /\ Fairness

(***************************************************************************)
(* Properties.                                                             *)
(***************************************************************************)

\* The record of a request is in the trace file.
Durable(f) ==
  /\ trace # Absent
  /\ \/ f.type = "Observation" /\
          \E i \in 1..Len(trace.obs) :
            trace.obs[i].observation_id = f.payload.observation_id
     \/ f.type = "Decision" /\
          \E i \in 1..Len(trace.dec) : trace.dec[i] = f.payload
     \/ f.type = "Outcome" /\ trace.outcomes[f.payload.decision_id] = f.payload

\* No acknowledged evidence is lost by a shutdown: once the process has
\* ended by itself, whatever any client was told "accepted" for is in the
\* trace, also when the request came in while the shutdown was under way.
AckedIsDurable ==
  main = "done" =>
    \A c \in Client : \A k \in 1..Len(replies[c]) :
      LET r == replies[c][k]
      IN r.type = "Ack" /\ r.text = "accepted" => Durable(script[c][r.request])

\* A client that reads a frame reads the answer to the request it waits for.
\* Replies carry no request number, so this rests on one reply per request.
RepliesMatch ==
  \A c \in Client :
    client_pc[c] = "await" /\ outbound[c] # <<>> =>
      Head(outbound[c]).request = next[c]

\* The generation in a Status reply is no older than the one in force when
\* the request was sent and no newer than the one in force now, although it
\* is read under a lock of its own after the epoch.
StatusIsFresh ==
  \A c \in Client : \A k \in 1..Len(outbound[c]) :
    LET r == outbound[c][k]
        s == script[c][r.request].payload
    IN r.type = "Status" => asked[c][s] <= r.generation /\ r.generation <= src_gen[s]

\* A peer that stays connected without closing.
HeldOpen == \E c \in lingering : thread[c] # "none" /\ ~PeerClosed(c)

\* A shutdown request leads to a persisted trace, unless the process is
\* terminated by an undecodable payload or a peer never closes its
\* connection: a join then waits for it.
ShutdownPersists ==
  ~running ~> (main \in {"done", "terminated"} \/ HeldOpen)

\* No client waits forever for a reply: it gets one, or the connection is
\* closed; also a client that is never accepted because of a shutdown, unless
\* that shutdown waits for another peer.
NobodyWaitsForever ==
  \A c \in Client :
    client_pc[c] = "await" ~> (client_pc[c] # "await" \/ (thread[c] = "none" /\ HeldOpen))
================================================================================
