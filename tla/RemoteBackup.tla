---------------------------- MODULE RemoteBackup ----------------------------
(***************************************************************************)
(* The remote log backup: backup::Start, run by the threads that log, and  *)
(* TcpServer with its accept loop and one detached thread per connection.  *)
(*                                                                         *)
(* A connection is the attempt of a client that made it: how much of the   *)
(* payload the client handed over, whether it closed its end, how much the *)
(* server has read, and what the server does with it.  The payload has     *)
(* Parts parts; with a shared token the first one is the token line.  A    *)
(* send either hands over a part or fails and hands over nothing.  Closing *)
(* the socket ends the stream after what was handed over, also when the    *)
(* attempt failed: the server cannot tell.                                 *)
(*                                                                         *)
(* An operator named ...Mutant is a faulty variant of the one below it; it *)
(* is no part of the specification and only shows that a property can fail.*)
(***************************************************************************)
EXTENDS Naturals, Sequences, FiniteSets

CONSTANTS
  Clients,         \* threads that call backup::Start
  Parts,           \* parts of a payload
  Retries,         \* backup_retries
  MaxConnections,  \* max_connections_
  Token,           \* the server expects a token
  TokenAgrees,     \* and it is the clients' token
  MaxCalls,        \* bound: calls of Start
  MaxFaults        \* bound: calls that fail or time out

ASSUME BackupAssumption ==
  /\ Parts \in Nat \ {0} /\ Retries \in Nat \ {0}
  /\ MaxConnections \in Nat \ {0}
  /\ Token \in BOOLEAN /\ TokenAgrees \in BOOLEAN
  /\ MaxCalls \in Nat /\ MaxFaults \in Nat

VARIABLES
  cpc,      \* where each client is in Start
  msg,      \* the message it sends
  attempt,  \* the loop variable of Start
  current,  \* its connection
  conns,    \* all connections so far
  active,   \* active_connections_
  stored,   \* what the callback was given: connection and parts of each
  outcome,  \* what Start returned for each message
  calls,
  faults

client == <<cpc, msg, attempt, current, outcome, calls>>
vars   == <<cpc, msg, attempt, current, conns, active, stored, outcome, calls,
            faults>>

Messages == 1 .. MaxCalls
ConnIds  == 1 .. Len(conns)

Init ==
  /\ cpc = [c \in Clients |-> "idle"]
  /\ msg = [c \in Clients |-> 0]
  /\ attempt = [c \in Clients |-> 0]
  /\ current = [c \in Clients |-> 0]
  /\ conns = <<>>
  /\ active = 0
  /\ stored = <<>>
  /\ outcome = [m \in Messages |-> "none"]
  /\ calls = 0 /\ faults = 0

Fault == faults < MaxFaults /\ faults' = faults + 1
NoFault == UNCHANGED faults

-----------------------------------------------------------------------------
(* backup::Start *)

NewConn(m, end) ==
  [msg |-> m, sent |-> 0, client |-> end, got |-> 0, server |-> "queued"]

\* Backup is enabled and its address is valid; otherwise Start returns at once.
StartCall(c) ==
  /\ cpc[c] = "idle" /\ calls < MaxCalls
  /\ calls' = calls + 1
  /\ msg' = [msg EXCEPT ![c] = calls + 1]
  /\ cpc' = [cpc EXCEPT ![c] = "connect"]
  /\ UNCHANGED <<attempt, current, conns, active, stored, outcome, faults>>

\* The locals of Start are gone.
Return(c, result) ==
  /\ outcome' = [outcome EXCEPT ![msg[c]] = result]
  /\ cpc' = [cpc EXCEPT ![c] = "idle"]
  /\ msg' = [msg EXCEPT ![c] = 0]
  /\ attempt' = [attempt EXCEPT ![c] = 0]
  /\ current' = [current EXCEPT ![c] = 0]

\* The next turn of the loop.
Retry(c) ==
  /\ attempt' = [attempt EXCEPT ![c] = @ + 1]
  /\ cpc' = [cpc EXCEPT ![c] = "connect"]
  /\ current' = [current EXCEPT ![c] = 0]
  /\ UNCHANGED <<msg, outcome>>

MayTry(c) == attempt[c] < Retries

Connect(c) ==
  /\ cpc[c] = "connect" /\ MayTry(c)
  /\ conns' = Append(conns, NewConn(msg[c], "open"))
  /\ current' = [current EXCEPT ![c] = Len(conns) + 1]
  /\ cpc' = [cpc EXCEPT ![c] = "send"]
  /\ UNCHANGED <<msg, attempt, outcome, calls, active, stored, faults>>

\* ConnectWithTimeout fails.  When it gives up on a slow handshake, the server
\* may still get to see the connection, closed and without data.
ConnectFail(c) ==
  /\ cpc[c] = "connect" /\ MayTry(c)
  /\ Fault
  /\ conns' \in {conns, Append(conns, NewConn(msg[c], "failed"))}
  /\ Retry(c)
  /\ UNCHANGED <<calls, active, stored>>

\* socket or setsockopt fails: Start does not try again.
SocketFail(c) ==
  /\ cpc[c] = "connect" /\ MayTry(c)
  /\ Fault
  /\ Return(c, "false")
  /\ UNCHANGED <<calls, conns, active, stored>>

GiveUp(c) ==
  /\ cpc[c] = "connect" /\ ~MayTry(c)
  /\ Return(c, "false")
  /\ UNCHANGED <<calls, conns, active, stored, faults>>

Send(c) ==
  /\ cpc[c] = "send"
  /\ conns[current[c]].sent < Parts
  /\ conns' = [conns EXCEPT ![current[c]].sent = @ + 1]
  /\ UNCHANGED <<client, active, stored, faults>>

\* The send times out, or the server has closed the connection.  The client
\* closes its end and goes on with the loop.
SendFail(c) ==
  /\ cpc[c] = "send"
  /\ conns[current[c]].sent < Parts
  /\ \/ Fault
     \/ conns[current[c]].server \in {"hungup", "closed"} /\ NoFault
  /\ conns' = [conns EXCEPT ![current[c]].client = "failed"]
  /\ Retry(c)
  /\ UNCHANGED <<calls, active, stored>>

\* Start looks at the connection once more and repeats the attempt.
SentAllMutant(c) ==
  /\ cpc[c] = "send"
  /\ conns[current[c]].sent = Parts
  /\ conns' = [conns EXCEPT ![current[c]].client = "closed"]
  /\ \/ NoFault /\ Return(c, "true")
     \/ Fault /\ Retry(c)
  /\ UNCHANGED <<calls, active, stored>>

\* The half-sent record counts as sent.
HalfSentMutant(c) ==
  /\ cpc[c] = "send"
  /\ conns[current[c]].sent > 0
  /\ conns' = [conns EXCEPT ![current[c]].client = "closed"]
  /\ Return(c, "true")
  /\ UNCHANGED <<calls, active, stored, faults>>

\* shutdown and close after the last part.
SentAll(c) ==
  /\ cpc[c] = "send"
  /\ conns[current[c]].sent = Parts
  /\ conns' = [conns EXCEPT ![current[c]].client = "closed"]
  /\ Return(c, "true")
  /\ UNCHANGED <<calls, active, stored, faults>>

-----------------------------------------------------------------------------
(* TcpServer::Run: only this thread raises active_connections_, so what a    *)
(* handler gives back between fetch_add and the test changes nothing that    *)
(* this thread looks at, and one turn of the loop is one step.               *)

\* Too many connections, or the address or the thread cannot be made: the
\* increment is taken back and the socket closed.
Refuse(k) ==
  /\ conns[k].server = "queued"
  /\ \/ active >= MaxConnections /\ NoFault
     \/ active < MaxConnections /\ Fault
  /\ conns' = [conns EXCEPT ![k].server = "closed"]
  /\ UNCHANGED <<client, active, stored>>

Detach(k) ==
  /\ conns[k].server = "queued"
  /\ active < MaxConnections
  /\ active' = active + 1
  /\ conns' = [conns EXCEPT ![k].server = "reading"]
  /\ UNCHANGED <<client, stored, faults>>

-----------------------------------------------------------------------------
(* HandleConnection *)

Receive(k) ==
  /\ conns[k].server = "reading"
  /\ conns[k].got < conns[k].sent
  /\ conns' = [conns EXCEPT ![k].got = @ + 1]
  /\ UNCHANGED <<client, active, stored, faults>>

\* recv fails or times out, or the message grows too long: nothing is stored.
ReceiveFail(k) ==
  /\ conns[k].server = "reading"
  /\ Fault
  /\ conns' = [conns EXCEPT ![k].server = "leaving"]
  /\ UNCHANGED <<client, active, stored>>

\* The message is read to the end of the stream and has passed the token test.
Passes(k) ==
  IF Token THEN TokenAgrees /\ conns[k].got > 1 ELSE conns[k].got > 0

AtEnd(k) ==
  /\ conns[k].server = "reading"
  /\ conns[k].got = conns[k].sent
  /\ conns[k].client # "open"

\* The callback gets the record; what the writer makes of it is BackupFile.
Callback(k) ==
  /\ AtEnd(k) /\ Passes(k)
  /\ stored' = Append(stored, [conn |-> k, parts |-> conns[k].got])
  /\ conns' = [conns EXCEPT ![k].server = "leaving"]
  /\ UNCHANGED <<client, active, faults>>

\* Nothing to store: no data, or not the token.
Skip(k) ==
  /\ AtEnd(k) /\ ~Passes(k)
  /\ conns' = [conns EXCEPT ![k].server = "leaving"]
  /\ UNCHANGED <<client, active, stored, faults>>

\* ~ConnectionGuard: the socket is closed, and only then is the slot free.
HangUp(k) ==
  /\ conns[k].server = "leaving"
  /\ conns' = [conns EXCEPT ![k].server = "hungup"]
  /\ UNCHANGED <<client, active, stored, faults>>

LeaveMutant(k) ==
  /\ conns[k].server = "hungup"
  /\ conns' = [conns EXCEPT ![k].server = "closed"]
  /\ active' = IF conns[k].got = 0 THEN active ELSE active - 1
  /\ UNCHANGED <<client, stored, faults>>

Leave(k) ==
  /\ conns[k].server = "hungup"
  /\ conns' = [conns EXCEPT ![k].server = "closed"]
  /\ active' = active - 1
  /\ UNCHANGED <<client, stored, faults>>

-----------------------------------------------------------------------------
ClientStep(c) ==
  \/ Connect(c) \/ ConnectFail(c) \/ SocketFail(c) \/ GiveUp(c)
  \/ Send(c) \/ SendFail(c) \/ SentAll(c)

LoopStep == \E k \in ConnIds : Refuse(k) \/ Detach(k)

Handle(k) ==
  \/ Receive(k) \/ ReceiveFail(k) \/ Callback(k) \/ Skip(k)
  \/ HangUp(k) \/ Leave(k)

Next ==
  \/ \E c \in Clients : StartCall(c) \/ ClientStep(c)
  \/ LoopStep
  \/ \E k \in ConnIds : Handle(k)

MaxConns == MaxCalls * Retries

\* Every thread inside Start, Run or HandleConnection is scheduled; nothing
\* makes the program call Start.
Fairness ==
  /\ \A c \in Clients : WF_vars(ClientStep(c))
  /\ WF_vars(LoopStep)
  /\ \A k \in 1 .. MaxConns : WF_vars(k \in ConnIds /\ Handle(k))

SafetySpec == Init /\ [][Next]_vars
Spec == SafetySpec /\ Fairness
-----------------------------------------------------------------------------
(* Properties *)

\* Every variable has its type.
TypeOK ==
  /\ cpc \in [Clients -> {"idle", "connect", "send"}]
  /\ msg \in [Clients -> 0 .. MaxCalls]
  /\ attempt \in [Clients -> 0 .. Retries]
  /\ current \in [Clients -> 0 .. Len(conns)]
  /\ conns \in Seq([msg : Messages, sent : 0 .. Parts,
                    client : {"open", "closed", "failed"}, got : 0 .. Parts,
                    server : {"queued", "reading", "leaving", "hungup",
                              "closed"}])
  /\ active \in Nat
  /\ stored \in Seq([conn : ConnIds, parts : 1 .. Parts])
  /\ outcome \in [Messages -> {"none", "true", "false"}]
  /\ calls \in 0 .. MaxCalls /\ faults \in 0 .. MaxFaults

Handled == {k \in ConnIds : conns[k].server \in {"reading", "leaving", "hungup"}}

\* Between two turns of the accept loop active_connections_ counts exactly the
\* connections that have a thread, on every path of the loop and of the
\* handlers; so the limit neither leaks nor is exceeded.
CountExact ==
  /\ active = Cardinality(Handled)
  /\ Cardinality(Handled) <= MaxConnections

StoredWhole(m) ==
  {i \in DOMAIN stored : stored[i].parts = Parts /\ conns[stored[i].conn].msg = m}

\* However often Start retries, the server stores at most one whole copy of a
\* message, and none of a message for which Start returned false: the failures
\* counter never counts a message that arrived.
WholeAtMostOnce ==
  \A m \in Messages :
    /\ Cardinality(StoredWhole(m)) <= 1
    /\ outcome[m] = "false" => StoredWhole(m) = {}

\* A record that was cut short is stored only from an attempt that the client
\* knows to have failed, so it is followed by another attempt or by a failure
\* report: Start never returns true for a truncated record.
TruncatedOnlyIfFailed ==
  \A i \in DOMAIN stored :
    stored[i].parts < Parts => conns[stored[i].conn].client = "failed"

\* What the attempts of one call of Start leave on the server: one whole record at
\* the most, and truncated ones only from attempts that failed.
StoredRecords == WholeAtMostOnce /\ TruncatedOnlyIfFailed

\* Every Start returns, whatever the server does.
StartReturns == \A c \in Clients : cpc[c] # "idle" ~> cpc[c] = "idle"

\* The server closed the connection that carried all of m without reading it.
Refused(m) ==
  \E k \in ConnIds : /\ conns[k].msg = m /\ conns[k].client = "closed"
                     /\ conns[k].server = "closed" /\ conns[k].got = 0

\* A message for which Start returned true reaches the callback whole, unless
\* a call failed or the server was full.  The exceptions are needed: Start
\* returns true once the kernel has the payload, and the server that refuses
\* or gives up a connection tells nobody.
Delivered ==
  \A m \in Messages :
    outcome[m] = "true" ~> StoredWhole(m) # {} \/ Refused(m) \/ faults > 0

\* A call of Start comes to an end on its side and, if it reports success, on
\* the server's side.
SendsComplete == StartReturns /\ Delivered
=============================================================================
