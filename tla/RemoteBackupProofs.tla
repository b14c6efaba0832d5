-------------------------- MODULE RemoteBackupProofs --------------------------
(***************************************************************************)
(* Proofs about RemoteBackup, for any number of clients, messages, retries *)
(* and connections and any number of failures: active_connections_ is      *)
(* exact, a message is stored whole at most once and never when Start      *)
(* reported a failure, and a record is cut short only by an attempt that   *)
(* the client knows to have failed.                                        *)
(***************************************************************************)
EXTENDS RemoteBackup, FiniteSetTheorems, SequenceTheorems, TLAPS

-----------------------------------------------------------------------------
(* The inductive invariant.                                                *)

\* A connection the client closed in good order carries the whole payload, and
\* one it gave up does not.
ConnsOK ==
  \A k \in ConnIds :
    /\ conns[k].msg <= calls
    /\ conns[k].got <= conns[k].sent
    /\ conns[k].client = "closed" => conns[k].sent = Parts
    /\ conns[k].client = "failed" => conns[k].sent < Parts

\* The open connections are the current ones of the clients that send.
OwnOK ==
  /\ \A c \in Clients : cpc[c] = "send" =>
       /\ current[c] \in ConnIds
       /\ conns[current[c]].client = "open"
       /\ conns[current[c]].msg = msg[c]
  /\ \A k \in ConnIds : conns[k].client = "open" =>
       \E c \in Clients : cpc[c] = "send" /\ current[c] = k

\* The clients inside Start have messages of their own, without an outcome yet.
CallsOK ==
  /\ \A c \in Clients : cpc[c] # "idle" =>
       msg[c] \in 1 .. calls /\ outcome[msg[c]] = "none"
  /\ \A c, d \in Clients :
       cpc[c] # "idle" /\ cpc[d] # "idle" /\ msg[c] = msg[d] => c = d
  /\ \A m \in Messages : m > calls => outcome[m] = "none"

\* Start has returned true for the message of a closed connection, and a
\* message has one connection at most that is open or was closed.
ClosedOK ==
  /\ \A k \in ConnIds : conns[k].client = "closed" => outcome[conns[k].msg] = "true"
  /\ \A j, k \in ConnIds :
       /\ conns[j].msg = conns[k].msg
       /\ conns[j].client # "failed" /\ conns[k].client # "failed"
       => j = k

Past == {"leaving", "hungup", "closed"}

\* What is stored is all that was sent over a connection that carries no more,
\* and it is stored once.
StoredOK ==
  /\ \A i \in DOMAIN stored :
       LET k == stored[i].conn
       IN  /\ conns[k].client # "open"
           /\ conns[k].server \in Past
           /\ stored[i].parts = conns[k].sent
  /\ \A i, j \in DOMAIN stored : stored[i].conn = stored[j].conn => i = j

\* A client that sends has not used its attempts up.
TriesOK ==
  \A c \in Clients : cpc[c] = "send" => attempt[c] < Retries

IndInv ==
  /\ TypeOK
  /\ ConnsOK
  /\ OwnOK
  /\ CallsOK
  /\ ClosedOK
  /\ StoredOK
  /\ CountExact

-----------------------------------------------------------------------------
(* Lemmas on connections.                                                  *)

Conn == [msg : Messages, sent : 0 .. Parts,
         client : {"open", "closed", "failed"}, got : 0 .. Parts,
         server : {"queued", "reading", "leaving", "hungup", "closed"}]

\* Connection k becomes v, the others stay as they are.
ConnSet(k, v) ==
  /\ conns' \in Seq(Conn)
  /\ Len(conns') = Len(conns)
  /\ ConnIds' = ConnIds
  /\ \A j \in ConnIds : conns'[j] = IF j = k THEN v ELSE conns[j]

\* There is one connection more, v.
ConnAdd(v) ==
  /\ conns' \in Seq(Conn)
  /\ Len(conns') = Len(conns) + 1
  /\ ConnIds \subseteq ConnIds'
  /\ Len(conns) + 1 \in ConnIds'
  /\ \A j \in ConnIds' : j \in ConnIds \/ j = Len(conns) + 1
  /\ \A j \in ConnIds : conns'[j] = conns[j] /\ j # Len(conns) + 1
  /\ conns'[Len(conns) + 1] = v

\* Connections are records, and the fields of a record are what they are.
LEMMA ConnTyped ==
  ASSUME TypeOK
  PROVE  /\ conns \in Seq(Conn)
         /\ Len(conns) \in Nat
         /\ \A k \in ConnIds :
              /\ conns[k] \in Conn
              /\ conns[k].msg \in Messages /\ conns[k].msg \in Nat
              /\ conns[k].sent \in Nat /\ conns[k].got \in Nat
              /\ conns[k].sent <= Parts /\ conns[k].got <= Parts
<1>1. conns \in Seq(Conn)
  BY DEF TypeOK, Conn
<1>2. \A k \in ConnIds : conns[k] \in Conn
  BY <1>1 DEF ConnIds
<1>3. ASSUME NEW r \in Conn
      PROVE  /\ r.msg \in Messages /\ r.msg \in Nat /\ r.sent \in Nat /\ r.got \in Nat
             /\ r.sent <= Parts /\ r.got <= Parts
  BY BackupAssumption DEF Conn, Messages
<1> QED
  BY <1>1, <1>2, <1>3, LenProperties

\* Changing one connection.
LEMMA SetConn ==
  ASSUME TypeOK, NEW k \in ConnIds, NEW v \in Conn, conns' = [conns EXCEPT ![k] = v]
  PROVE  ConnSet(k, v)
<1>1. conns \in Seq(Conn) /\ k \in 1 .. Len(conns)
  BY ConnTyped DEF ConnIds
<1>2. PICK g : g = [conns EXCEPT ![k] = v]
  OBVIOUS
<1>3. /\ g \in Seq(Conn) /\ Len(g) = Len(conns)
      /\ \A j \in 1 .. Len(conns) : g[j] = IF j = k THEN v ELSE conns[j]
  BY <1>1, <1>2, ExceptSeq
<1>4. g = conns'
  BY <1>2
<1> QED
  BY <1>3, <1>4 DEF ConnSet, ConnIds

\* Adding one connection.
LEMMA AddConn ==
  ASSUME TypeOK, NEW v \in Conn, conns' = Append(conns, v)
  PROVE  ConnAdd(v)
<1>1. conns \in Seq(Conn) /\ Len(conns) \in Nat
  BY ConnTyped
<1>2. /\ conns' \in Seq(Conn) /\ Len(conns') = Len(conns) + 1
      /\ conns'[Len(conns) + 1] = v
      /\ \A j \in 1 .. Len(conns) : conns'[j] = conns[j]
  BY <1>1, AppendProperties
<1> QED
  BY <1>1, <1>2 DEF ConnAdd, ConnIds

\* The connections that have a thread are finitely many.
LEMMA HandledFinite ==
  ASSUME TypeOK
  PROVE  IsFiniteSet(Handled) /\ Cardinality(Handled) \in Nat
<1>1. IsFiniteSet(ConnIds)
  BY ConnTyped, FS_Interval DEF ConnIds
<1>2. Handled \in SUBSET ConnIds
  BY DEF Handled
<1>3. IsFiniteSet(Handled)
  BY <1>1, <1>2, FS_Subset
<1> QED
  BY <1>3, FS_CardinalityType

\* A member of a sequence.
LEMMA SeqMember ==
  ASSUME NEW S, NEW q \in Seq(S), NEW i \in DOMAIN q
  PROVE  q[i] \in S
OBVIOUS

\* A set in which any two members are equal has one member at most.
LEMMA AtMostOne ==
  ASSUME NEW S, \A x, y \in S : x = y
  PROVE  Cardinality(S) <= 1
<1>1. CASE S = {}
  BY <1>1, FS_EmptySet
<1>2. CASE S # {}
  <2>1. PICK x : S = {x}
    BY <1>2
  <2> QED
    BY <2>1, FS_Singleton
<1> QED
  BY <1>1, <1>2

-----------------------------------------------------------------------------
(* Which part of the invariant a step leaves alone.                        *)

\* Steps of the server change neither what the clients did with a connection
\* nor where they are.
LEMMA ServerFrame ==
  ASSUME IndInv, UNCHANGED client, ConnIds' = ConnIds,
         \A j \in ConnIds :
           /\ conns'[j].msg = conns[j].msg
           /\ conns'[j].sent = conns[j].sent
           /\ conns'[j].client = conns[j].client
           /\ conns'[j].got <= conns'[j].sent
  PROVE  ConnsOK' /\ OwnOK' /\ CallsOK' /\ ClosedOK'
<1>1. /\ cpc' = cpc /\ msg' = msg /\ current' = current
      /\ outcome' = outcome /\ calls' = calls
  BY DEF client
<1>2. ConnsOK'
  BY <1>1 DEF IndInv, ConnsOK
<1>3. OwnOK'
  BY <1>1 DEF IndInv, OwnOK
<1>4. CallsOK'
  BY <1>1 DEF IndInv, CallsOK
<1>5. ClosedOK'
  BY <1>1 DEF IndInv, ClosedOK
<1> QED
  BY <1>2, <1>3, <1>4, <1>5

\* What is stored stays so while the connections it came over do.
LEMMA StoredFrame ==
  ASSUME IndInv, stored' = stored,
         \A j \in ConnIds : conns[j].client # "open" =>
           /\ conns'[j].client = conns[j].client
           /\ conns'[j].sent = conns[j].sent
           /\ conns[j].server \in Past => conns'[j].server \in Past
  PROVE  StoredOK'
<1>1. \A i \in DOMAIN stored : stored[i].conn \in ConnIds
  <2>1. stored \in Seq([conn : ConnIds, parts : 1 .. Parts])
    BY DEF IndInv, TypeOK
  <2>2. \A i \in DOMAIN stored : stored[i] \in [conn : ConnIds, parts : 1 .. Parts]
    BY <2>1, SeqMember
  <2> QED
    BY <2>2
<1> QED
  BY <1>1 DEF IndInv, StoredOK

\* The count stays exact while no connection gets or loses its thread.
LEMMA CountFrame ==
  ASSUME IndInv, active' = active,
         ConnIds \subseteq ConnIds',
         \A j \in ConnIds : \/ conns'[j].server = conns[j].server
                            \/ /\ conns'[j].server \in {"reading", "leaving", "hungup"}
                               /\ conns[j].server \in {"reading", "leaving", "hungup"}
                            \/ /\ conns'[j].server \in {"queued", "closed"}
                               /\ conns[j].server \in {"queued", "closed"},
         \A j \in ConnIds' \ ConnIds : conns'[j].server = "queued"
  PROVE  CountExact'
<1>1. Handled' = Handled
  BY DEF Handled
<1> QED
  BY <1>1 DEF IndInv, CountExact

\* The types that no step of the server changes.
LEMMA ServerTypes ==
  ASSUME TypeOK, UNCHANGED client, conns' \in Seq(Conn), Len(conns') = Len(conns),
         active' \in Nat, faults' \in 0 .. MaxFaults,
         stored' \in Seq([conn : ConnIds, parts : 1 .. Parts])
  PROVE  TypeOK'
<1>1. /\ cpc' = cpc /\ msg' = msg /\ attempt' = attempt /\ current' = current
      /\ outcome' = outcome /\ calls' = calls /\ ConnIds' = ConnIds
  BY DEF client, ConnIds
<1> QED
  BY <1>1 DEF TypeOK, Conn

\* A failure that is counted, or none.
LEMMA FaultTypes ==
  ASSUME TypeOK
  PROVE  /\ Fault => faults' \in 0 .. MaxFaults
         /\ NoFault => faults' \in 0 .. MaxFaults
BY BackupAssumption DEF TypeOK, Fault, NoFault

-----------------------------------------------------------------------------
(* The server.                                                             *)

\* A step of the server that moves a connection on and neither stores anything
\* nor gives it a thread or takes it away keeps the invariant.
LEMMA MoveOn ==
  ASSUME IndInv, UNCHANGED <<client, active, stored>>,
         faults' \in 0 .. MaxFaults,
         NEW k \in ConnIds, NEW v \in Conn, conns' = [conns EXCEPT ![k] = v],
         v.msg = conns[k].msg, v.sent = conns[k].sent, v.client = conns[k].client,
         v.got <= v.sent,
         \/ v.server = conns[k].server
         \/ /\ v.server \in {"leaving", "hungup"}
            /\ conns[k].server \in {"reading", "leaving", "hungup"}
         \/ /\ v.server = "closed"
            /\ conns[k].server = "queued"
  PROVE  IndInv'
<1>0. TypeOK /\ ConnsOK
  BY DEF IndInv
<1>1. ConnSet(k, v)
  BY <1>0, SetConn
<1>2. conns' \in Seq(Conn) /\ Len(conns') = Len(conns) /\ ConnIds' = ConnIds
      /\ \A j \in ConnIds : conns'[j] = IF j = k THEN v ELSE conns[j]
  BY <1>1 DEF ConnSet
<1>3. TypeOK'
  <2>1. active \in Nat /\ stored \in Seq([conn : ConnIds, parts : 1 .. Parts])
    BY <1>0 DEF TypeOK
  <2> QED
    BY <1>0, <1>2, <2>1, ServerTypes
<1>4. ConnsOK' /\ OwnOK' /\ CallsOK' /\ ClosedOK'
  <2>1. \A j \in ConnIds :
           /\ conns'[j].msg = conns[j].msg
           /\ conns'[j].sent = conns[j].sent
           /\ conns'[j].client = conns[j].client
           /\ conns'[j].got <= conns'[j].sent
    BY <1>0, <1>2 DEF ConnsOK
  <2> QED
    BY <1>2, <2>1, ServerFrame
<1>5. StoredOK'
  <2>1. \A j \in ConnIds :
           /\ conns'[j].client = conns[j].client
           /\ conns'[j].sent = conns[j].sent
           /\ conns[j].server \in Past => conns'[j].server \in Past
    BY <1>2 DEF Past
  <2> QED
    BY <2>1, StoredFrame
<1>6. CountExact'
  <2>1. \A j \in ConnIds : \/ conns'[j].server = conns[j].server
                            \/ /\ conns'[j].server \in {"reading", "leaving", "hungup"}
                               /\ conns[j].server \in {"reading", "leaving", "hungup"}
                            \/ /\ conns'[j].server \in {"queued", "closed"}
                               /\ conns[j].server \in {"queued", "closed"}
    BY <1>2
  <2> QED
    BY <1>2, <2>1, CountFrame
<1> QED
  BY <1>3, <1>4, <1>5, <1>6 DEF IndInv

\* Every step of the server keeps the invariant.
LEMMA ServerStep ==
  ASSUME IndInv, NEW k \in ConnIds, Refuse(k) \/ Detach(k) \/ Handle(k)
  PROVE  IndInv'
<1>0. TypeOK /\ ConnsOK /\ CountExact
  BY DEF IndInv
<1>1. /\ conns[k] \in Conn /\ conns[k].got \in Nat /\ conns[k].sent \in Nat
      /\ conns[k].got <= conns[k].sent /\ conns[k].sent <= Parts
      /\ Parts \in Nat
  BY <1>0, ConnTyped, BackupAssumption DEF ConnsOK
<1> DEFINE At(v) == [conns[k] EXCEPT !.server = v]
<1>2. ASSUME NEW v \in {"queued", "reading", "leaving", "hungup", "closed"}
      PROVE  /\ At(v) \in Conn
             /\ At(v).msg = conns[k].msg /\ At(v).sent = conns[k].sent
             /\ At(v).client = conns[k].client /\ At(v).got = conns[k].got
             /\ At(v).server = v
  BY <1>1, <1>2 DEF Conn
<1>3. faults \in 0 .. MaxFaults
  BY <1>0 DEF TypeOK
<1> HIDE DEF At
<1>4. ASSUME NEW v \in {"leaving", "hungup", "closed"},
             conns' = [conns EXCEPT ![k] = At(v)],
             UNCHANGED <<client, active, stored>>, faults' \in 0 .. MaxFaults,
             IF v = "closed" THEN conns[k].server = "queued"
             ELSE conns[k].server \in {"reading", "leaving", "hungup"}
      PROVE  IndInv'
  BY <1>1, <1>2, <1>4, MoveOn
<1>5. CASE Refuse(k)
  <2>1. conns' = [conns EXCEPT ![k] = At("closed")]
    BY <1>5 DEF Refuse, At
  <2> QED
    BY <1>0, <1>4, <1>5, <2>1, FaultTypes DEF Refuse
<1>6. CASE Receive(k)
  <2> DEFINE v == [conns[k] EXCEPT !.got = conns[k].got + 1]
  <2>1. conns' = [conns EXCEPT ![k] = v]
    BY <1>6 DEF Receive
  <2>2. conns[k].got + 1 \in 0 .. Parts /\ conns[k].got + 1 <= conns[k].sent
    BY <1>1, <1>6 DEF Receive
  <2>3. /\ v \in Conn /\ v.msg = conns[k].msg /\ v.sent = conns[k].sent
        /\ v.client = conns[k].client /\ v.got <= v.sent /\ v.server = conns[k].server
    BY <1>1, <2>2 DEF Conn
  <2> HIDE DEF v
  <2> QED
    BY <1>3, <1>6, <2>1, <2>3, MoveOn DEF Receive
<1>7. CASE ReceiveFail(k)
  <2>1. conns' = [conns EXCEPT ![k] = At("leaving")]
    BY <1>7 DEF ReceiveFail, At
  <2> QED
    BY <1>0, <1>4, <1>7, <2>1, FaultTypes DEF ReceiveFail
<1>8. CASE Skip(k)
  <2>1. conns' = [conns EXCEPT ![k] = At("leaving")]
    BY <1>8 DEF Skip, At
  <2> QED
    BY <1>3, <1>4, <1>8, <2>1 DEF Skip, AtEnd
<1>9. CASE HangUp(k)
  <2>1. conns' = [conns EXCEPT ![k] = At("hungup")]
    BY <1>9 DEF HangUp, At
  <2> QED
    BY <1>3, <1>4, <1>9, <2>1 DEF HangUp
\* The three steps that give a connection a thread, take it away, or store.
<1>10. ASSUME NEW v \in {"reading", "leaving", "closed"},
              conns' = [conns EXCEPT ![k] = At(v)]
       PROVE  /\ conns' \in Seq(Conn) /\ Len(conns') = Len(conns) /\ ConnIds' = ConnIds
              /\ \A j \in ConnIds : conns'[j] = IF j = k THEN At(v) ELSE conns[j]
  BY <1>0, <1>2, <1>10, SetConn DEF ConnSet
<1>11. ASSUME NEW v \in {"reading", "leaving", "closed"},
              conns' = [conns EXCEPT ![k] = At(v)], UNCHANGED client
       PROVE  ConnsOK' /\ OwnOK' /\ CallsOK' /\ ClosedOK'
  <2>1. \A j \in ConnIds :
           /\ conns'[j].msg = conns[j].msg
           /\ conns'[j].sent = conns[j].sent
           /\ conns'[j].client = conns[j].client
           /\ conns'[j].got <= conns'[j].sent
    BY <1>0, <1>1, <1>2, <1>10, <1>11 DEF ConnsOK
  <2> QED
    BY <1>10, <1>11, <2>1, ServerFrame
<1>12. CASE Detach(k)
  <2>1. conns' = [conns EXCEPT ![k] = At("reading")]
    BY <1>12 DEF Detach, At
  <2>2. /\ active' = active + 1 /\ active < MaxConnections /\ active \in Nat
        /\ UNCHANGED client /\ stored' = stored /\ faults' = faults
        /\ conns[k].server = "queued"
    BY <1>0, <1>12 DEF Detach, TypeOK
  <2>3. TypeOK'
    <3>1. /\ stored' \in Seq([conn : ConnIds, parts : 1 .. Parts])
          /\ active' \in Nat /\ faults' \in 0 .. MaxFaults
      BY <1>0, <1>3, <2>2 DEF TypeOK
    <3> QED
      BY <1>0, <1>10, <2>1, <2>2, <3>1, ServerTypes
  <2>4. ConnsOK' /\ OwnOK' /\ CallsOK' /\ ClosedOK'
    BY <1>11, <2>1, <2>2
  <2>5. StoredOK'
    <3>1. \A j \in ConnIds :
             /\ conns'[j].client = conns[j].client
             /\ conns'[j].sent = conns[j].sent
             /\ conns[j].server \in Past => conns'[j].server \in Past
      BY <1>2, <1>10, <2>1, <2>2 DEF Past
    <3> QED
      BY <2>2, <3>1, StoredFrame
  <2>6. Handled' = Handled \cup {k} /\ k \notin Handled
    BY <1>2, <1>10, <2>1, <2>2 DEF Handled
  <2>7. CountExact'
    <3>1. Cardinality(Handled \cup {k}) = Cardinality(Handled) + 1
      BY <1>0, <2>6, HandledFinite, FS_AddElement
    <3>2. active = Cardinality(Handled) /\ MaxConnections \in Nat
      BY <1>0, BackupAssumption DEF CountExact
    <3> QED
      BY <2>2, <2>6, <3>1, <3>2 DEF CountExact
  <2> QED
    BY <2>3, <2>4, <2>5, <2>7 DEF IndInv
<1>13. CASE Leave(k)
  <2>1. conns' = [conns EXCEPT ![k] = At("closed")]
    BY <1>13 DEF Leave, At
  <2>2. /\ active' = active - 1
        /\ UNCHANGED client /\ stored' = stored /\ faults' = faults
        /\ conns[k].server = "hungup"
    BY <1>13 DEF Leave
  <2>3. Handled' = Handled \ {k} /\ k \in Handled
    BY <1>2, <1>10, <2>1, <2>2 DEF Handled
  <2>4. /\ Cardinality(Handled \ {k}) = Cardinality(Handled) - 1
        /\ IsFiniteSet(Handled \ {k})
    BY <1>0, <2>3, HandledFinite, FS_RemoveElement
  <2>5. /\ active = Cardinality(Handled) /\ Cardinality(Handled) <= MaxConnections
        /\ Cardinality(Handled) \in Nat /\ MaxConnections \in Nat
    BY <1>0, HandledFinite, BackupAssumption DEF CountExact
  <2>6. CountExact' /\ active' \in Nat
    <3>1. Cardinality(Handled \ {k}) \in Nat
      BY <2>4, FS_CardinalityType
    <3> QED
      BY <2>2, <2>3, <2>4, <2>5, <3>1 DEF CountExact
  <2>7. TypeOK'
    BY <1>0, <1>3, <1>10, <2>1, <2>2, <2>6, ServerTypes DEF TypeOK
  <2>8. ConnsOK' /\ OwnOK' /\ CallsOK' /\ ClosedOK'
    BY <1>11, <2>1, <2>2
  <2>9. StoredOK'
    <3>1. \A j \in ConnIds :
             /\ conns'[j].client = conns[j].client
             /\ conns'[j].sent = conns[j].sent
             /\ conns[j].server \in Past => conns'[j].server \in Past
      BY <1>2, <1>10, <2>1, <2>2 DEF Past
    <3> QED
      BY <2>2, <3>1, StoredFrame
  <2> QED
    BY <2>6, <2>7, <2>8, <2>9 DEF IndInv
<1>14. CASE Callback(k)
  <2>1. conns' = [conns EXCEPT ![k] = At("leaving")]
    BY <1>14 DEF Callback, At
  <2> DEFINE e == [conn |-> k, parts |-> conns[k].got]
             Rec == [conn : ConnIds, parts : 1 .. Parts]
  <2>2. /\ stored' = Append(stored, e) /\ UNCHANGED client /\ active' = active
        /\ faults' = faults
        /\ conns[k].server = "reading" /\ conns[k].got = conns[k].sent
        /\ conns[k].client # "open" /\ Passes(k)
    BY <1>14 DEF Callback, AtEnd
  <2>3. conns[k].got \in 1 .. Parts
    BY <1>1, <2>2 DEF Passes
  <2>4. e \in Rec /\ stored \in Seq(Rec) /\ active \in Nat
    BY <1>0, <2>3 DEF TypeOK
  <2>5. /\ stored' \in Seq(Rec) /\ Len(stored) \in Nat
        /\ DOMAIN stored = 1 .. Len(stored)
        /\ DOMAIN stored' = 1 .. (Len(stored) + 1)
        /\ stored'[Len(stored) + 1] = e
        /\ \A i \in 1 .. Len(stored) : stored'[i] = stored[i]
    <3> HIDE DEF e, Rec
    <3>1. DOMAIN stored' = 1 .. Len(stored') /\ Len(stored') = Len(stored) + 1
      BY <2>2, <2>4, AppendProperties, LenProperties
    <3> QED
      BY <2>2, <2>4, <3>1, AppendProperties, LenProperties
  <2>6. TypeOK'
    BY <1>0, <1>3, <1>10, <2>1, <2>2, <2>4, <2>5, ServerTypes
  <2>7. ConnsOK' /\ OwnOK' /\ CallsOK' /\ ClosedOK'
    BY <1>11, <2>1, <2>2
  <2>8. CountExact'
    <3>1. \A j \in ConnIds : \/ conns'[j].server = conns[j].server
                            \/ /\ conns'[j].server \in {"reading", "leaving", "hungup"}
                               /\ conns[j].server \in {"reading", "leaving", "hungup"}
      BY <1>2, <1>10, <2>1, <2>2
    <3> QED
      BY <1>10, <2>1, <2>2, <3>1, CountFrame
  <2>9. \A i \in 1 .. Len(stored) :
          /\ stored[i].conn \in ConnIds /\ stored[i].conn # k
          /\ conns[stored[i].conn].client # "open"
          /\ conns[stored[i].conn].server \in Past
          /\ stored[i].parts = conns[stored[i].conn].sent
    <3> SUFFICES ASSUME NEW i \in 1 .. Len(stored)
                 PROVE  /\ stored[i].conn \in ConnIds /\ stored[i].conn # k
                        /\ conns[stored[i].conn].client # "open"
                        /\ conns[stored[i].conn].server \in Past
                        /\ stored[i].parts = conns[stored[i].conn].sent
      OBVIOUS
    <3>1. i \in DOMAIN stored
      BY <2>5
    <3>2. stored[i] \in Rec
      <4> HIDE DEF Rec
      <4> QED
        BY <2>4, <3>1, SeqMember
    <3>3. /\ conns[stored[i].conn].client # "open"
          /\ conns[stored[i].conn].server \in Past
          /\ stored[i].parts = conns[stored[i].conn].sent
      BY <3>1 DEF IndInv, StoredOK
    <3> QED
      BY <2>2, <3>2, <3>3 DEF Past
  <2>10. \A j \in ConnIds : /\ conns'[j].client = conns[j].client
                            /\ conns'[j].sent = conns[j].sent
                            /\ conns'[j].server =
                                 IF j = k THEN "leaving" ELSE conns[j].server
    BY <1>2, <1>10, <2>1
  <2>11. ASSUME NEW i \in DOMAIN stored'
         PROVE  /\ conns'[stored'[i].conn].client # "open"
                /\ conns'[stored'[i].conn].server \in Past
                /\ stored'[i].parts = conns'[stored'[i].conn].sent
    <3>1. CASE i = Len(stored) + 1
      <4>1. stored'[i].conn = k /\ stored'[i].parts = conns[k].got
        BY <2>5, <3>1
      <4> QED
        BY <2>2, <2>10, <4>1 DEF Past
    <3>2. CASE i # Len(stored) + 1
      <4>1. i \in 1 .. Len(stored)
        BY <2>5, <3>2
      <4> QED
        BY <2>5, <2>9, <2>10, <4>1
    <3> QED
      BY <3>1, <3>2
  <2>12. ASSUME NEW i \in DOMAIN stored', NEW j \in DOMAIN stored',
                stored'[i].conn = stored'[j].conn
         PROVE  i = j
    <3>0. \A n \in DOMAIN stored' : n \in 1 .. Len(stored) \/ n = Len(stored) + 1
      BY <2>5
    <3>1. stored'[Len(stored) + 1].conn = k
      BY <2>5
    <3>2. \A n \in 1 .. Len(stored) : stored'[n] = stored[n] /\ stored[n].conn # k
      BY <2>5, <2>9
    <3>3. \A m, n \in 1 .. Len(stored) : stored[m].conn = stored[n].conn => m = n
      BY <2>5 DEF IndInv, StoredOK
    <3> QED
      BY <2>12, <3>0, <3>1, <3>2, <3>3
  <2>13. StoredOK'
    BY <2>11, <2>12 DEF StoredOK
  <2> QED
    BY <2>6, <2>7, <2>8, <2>13 DEF IndInv
<1> QED
  BY <1>5, <1>6, <1>7, <1>8, <1>9, <1>12, <1>13, <1>14 DEF Handle

-----------------------------------------------------------------------------
(* The clients.                                                            *)

\* The types after a step of client c.
LEMMA ClientTypes ==
  ASSUME TypeOK, UNCHANGED <<active, stored>>, faults' \in 0 .. MaxFaults,
         cpc' \in [Clients -> {"idle", "connect", "send"}],
         msg' \in [Clients -> 0 .. MaxCalls],
         attempt' \in [Clients -> 0 .. Retries],
         current' \in [Clients -> 0 .. Len(conns')],
         outcome' \in [Messages -> {"none", "true", "false"}],
         calls' \in 0 .. MaxCalls,
         conns' \in Seq(Conn), ConnIds \subseteq ConnIds'
  PROVE  TypeOK'
<1> DEFINE Rec(S) == [conn : S, parts : 1 .. Parts]
<1>1. stored \in Seq(Rec(ConnIds)) /\ Rec(ConnIds) \subseteq Rec(ConnIds')
  BY DEF TypeOK
<1>2. stored' \in Seq(Rec(ConnIds'))
  <2> HIDE DEF Rec
  <2> QED
    BY <1>1, SeqMonotonic
<1>3. active' \in Nat
  BY DEF TypeOK
<1> QED
  BY <1>2, <1>3 DEF TypeOK, Conn

\* What the types say about client c.
LEMMA ClientTyped ==
  ASSUME IndInv, NEW c \in Clients
  PROVE  /\ calls \in Nat /\ Retries \in Nat /\ MaxCalls \in Nat /\ Parts \in Nat
         /\ Parts > 0 /\ attempt[c] \in Nat
         /\ cpc[c] # "idle" => msg[c] \in Messages /\ msg[c] <= calls
                               /\ outcome[msg[c]] = "none"
<1>1. /\ calls \in Nat /\ Retries \in Nat /\ MaxCalls \in Nat /\ Parts \in Nat
      /\ Parts > 0 /\ calls <= MaxCalls
  BY BackupAssumption DEF IndInv, TypeOK
<1>2. attempt[c] \in Nat
  BY BackupAssumption DEF IndInv, TypeOK
<1>3. cpc[c] # "idle" => msg[c] \in 1 .. calls /\ outcome[msg[c]] = "none"
  BY DEF IndInv, CallsOK
<1> QED
  BY <1>1, <1>2, <1>3 DEF Messages

\* A step that leaves the connections alone keeps what is stored and the count.
LEMMA ConnsFrame ==
  ASSUME IndInv, UNCHANGED <<conns, active, stored>>
  PROVE  StoredOK' /\ CountExact' /\ conns' \in Seq(Conn) /\ ConnIds' = ConnIds
<1>1. conns \in Seq(Conn)
  BY ConnTyped DEF IndInv
<1>2. ConnIds' = ConnIds /\ Handled' = Handled
  BY DEF ConnIds, Handled
<1> QED
  BY <1>1, <1>2 DEF IndInv, StoredOK, CountExact

\* A call of Start begins.
LEMMA StartStep ==
  ASSUME IndInv, NEW c \in Clients, StartCall(c)
  PROVE  IndInv'
<1>0. /\ TypeOK /\ cpc[c] = "idle" /\ calls < MaxCalls /\ calls' = calls + 1
      /\ UNCHANGED <<attempt, current, conns, active, stored, outcome, faults>>
  BY DEF IndInv, StartCall
<1>a. calls \in Nat /\ MaxCalls \in Nat
  BY ClientTyped
<1>1. \A d \in Clients : /\ cpc'[d] = IF d = c THEN "connect" ELSE cpc[d]
                         /\ msg'[d] = IF d = c THEN calls + 1 ELSE msg[d]
  BY <1>0 DEF StartCall, TypeOK
<1>2. StoredOK' /\ CountExact' /\ conns' \in Seq(Conn) /\ ConnIds' = ConnIds
  BY <1>0, ConnsFrame
<1>3. TypeOK'
  <2>1. cpc' \in [Clients -> {"idle", "connect", "send"}]
    BY <1>0 DEF StartCall, TypeOK
  <2>2. msg' \in [Clients -> 0 .. MaxCalls] /\ calls' \in 0 .. MaxCalls
    BY <1>0, <1>a DEF StartCall, TypeOK
  <2>3. /\ attempt' \in [Clients -> 0 .. Retries]
        /\ current' \in [Clients -> 0 .. Len(conns')]
        /\ outcome' \in [Messages -> {"none", "true", "false"}]
        /\ faults' \in 0 .. MaxFaults
    BY <1>0 DEF TypeOK
  <2> QED
    BY <1>0, <1>2, <2>1, <2>2, <2>3, ClientTypes
<1>4. ConnsOK'
  <2>1. \A k \in ConnIds : conns[k].msg \in Nat /\ conns[k].msg <= calls
    BY <1>0, ConnTyped DEF IndInv, ConnsOK
  <2>2. \A k \in ConnIds : conns[k].msg <= calls + 1
    BY <1>a, <2>1
  <2> QED
    BY <1>0, <1>2, <2>2 DEF IndInv, ConnsOK
<1>5. OwnOK'
  BY <1>0, <1>1, <1>2 DEF IndInv, OwnOK
<1>6. CallsOK'
  <2>1. \A d \in Clients : cpc'[d] # "idle" /\ d # c =>
          cpc[d] # "idle" /\ msg'[d] = msg[d] /\ msg[d] \in 1 .. calls
          /\ outcome[msg[d]] = "none"
    BY <1>1 DEF IndInv, CallsOK
  <2>2. calls + 1 \in Messages /\ outcome[calls + 1] = "none" /\ calls + 1 \in 1 .. calls'
        /\ calls + 1 \notin 1 .. calls
    BY <1>0, <1>a DEF IndInv, CallsOK, Messages
  <2>3. \A d \in Clients : cpc'[d] # "idle" =>
          msg'[d] \in 1 .. calls' /\ outcome'[msg'[d]] = "none"
    BY <1>0, <1>1, <1>a, <2>1, <2>2
  <2>4. \A d, e \in Clients :
          cpc'[d] # "idle" /\ cpc'[e] # "idle" /\ msg'[d] = msg'[e] => d = e
    BY <1>1, <2>1, <2>2 DEF IndInv, CallsOK
  <2>5. \A m \in Messages : m > calls' => outcome'[m] = "none"
    BY <1>0, <1>a DEF IndInv, CallsOK, Messages
  <2> QED
    BY <2>3, <2>4, <2>5 DEF CallsOK
<1>7. ClosedOK'
  BY <1>0, <1>2 DEF IndInv, ClosedOK
<1> QED
  BY <1>2, <1>3, <1>4, <1>5, <1>6, <1>7 DEF IndInv

\* What Retry does, client by client.
LEMMA RetryShape ==
  ASSUME IndInv, NEW c \in Clients, Retry(c), MayTry(c)
  PROVE  /\ cpc' \in [Clients -> {"idle", "connect", "send"}]
         /\ attempt' \in [Clients -> 0 .. Retries]
         /\ msg' = msg /\ outcome' = outcome
         /\ \A d \in Clients : /\ cpc'[d] = IF d = c THEN "connect" ELSE cpc[d]
                               /\ current'[d] = IF d = c THEN 0 ELSE current[d]
         /\ \A n \in Nat : Len(conns) <= n => current' \in [Clients -> 0 .. n]
<1>0. attempt[c] \in Nat /\ Retries \in Nat
  BY ClientTyped
<1>1. attempt' \in [Clients -> 0 .. Retries]
  BY <1>0 DEF Retry, MayTry, IndInv, TypeOK
<1>2. Len(conns) \in Nat
  BY ConnTyped DEF IndInv
<1>3. \A n \in Nat : Len(conns) <= n => current' \in [Clients -> 0 .. n]
  BY <1>2 DEF Retry, IndInv, TypeOK
<1> QED
  BY <1>1, <1>3 DEF Retry, IndInv, TypeOK

\* What Return does, client by client.
LEMMA ReturnShape ==
  ASSUME IndInv, NEW c \in Clients, cpc[c] # "idle", NEW result \in {"true", "false"},
         Return(c, result)
  PROVE  /\ cpc' \in [Clients -> {"idle", "connect", "send"}]
         /\ attempt' \in [Clients -> 0 .. Retries]
         /\ msg' \in [Clients -> 0 .. MaxCalls]
         /\ current' \in [Clients -> 0 .. Len(conns)]
         /\ outcome' \in [Messages -> {"none", "true", "false"}]
         /\ \A d \in Clients : /\ cpc'[d] = IF d = c THEN "idle" ELSE cpc[d]
                               /\ d # c => current'[d] = current[d] /\ msg'[d] = msg[d]
         /\ \A m \in Messages : outcome'[m] = IF m = msg[c] THEN result ELSE outcome[m]
<1>0. Retries \in Nat /\ MaxCalls \in Nat /\ Len(conns) \in Nat
  BY ClientTyped, ConnTyped DEF IndInv
<1>1. attempt' \in [Clients -> 0 .. Retries] /\ msg' \in [Clients -> 0 .. MaxCalls]
      /\ current' \in [Clients -> 0 .. Len(conns)]
  BY <1>0 DEF Return, IndInv, TypeOK
<1>2. outcome' \in [Messages -> {"none", "true", "false"}]
  BY DEF Return, IndInv, TypeOK
<1> QED
  BY <1>1, <1>2 DEF Return, IndInv, TypeOK

\* Returning keeps what is known about the calls.
LEMMA ReturnCalls ==
  ASSUME IndInv, NEW c \in Clients, cpc[c] # "idle", NEW result \in {"true", "false"},
         Return(c, result), calls' = calls
  PROVE  CallsOK'
<1>1. /\ \A d \in Clients : /\ cpc'[d] = IF d = c THEN "idle" ELSE cpc[d]
                            /\ d # c => current'[d] = current[d] /\ msg'[d] = msg[d]
      /\ \A m \in Messages : outcome'[m] = IF m = msg[c] THEN result ELSE outcome[m]
  BY ReturnShape
<1>2. \A d \in Clients : cpc[d] # "idle" =>
        msg[d] \in Messages /\ msg[d] \in 1 .. calls /\ outcome[msg[d]] = "none"
        /\ (msg[d] = msg[c] => d = c)
  BY ClientTyped DEF IndInv, CallsOK
<1>3. \A d \in Clients : cpc'[d] # "idle" =>
        msg'[d] \in 1 .. calls /\ outcome'[msg'[d]] = "none"
  BY <1>1, <1>2
<1>4. \A d, e \in Clients :
        cpc'[d] # "idle" /\ cpc'[e] # "idle" /\ msg'[d] = msg'[e] => d = e
  BY <1>1 DEF IndInv, CallsOK
<1>5. \A m \in Messages : m > calls => outcome'[m] = "none"
  <2> SUFFICES ASSUME NEW m \in Messages, m > calls PROVE outcome'[m] = "none"
    OBVIOUS
  <2>0. msg[c] \in Messages /\ msg[c] <= calls /\ calls \in Nat
    BY ClientTyped
  <2>1. m # msg[c]
    BY <2>0 DEF Messages
  <2> QED
    BY <1>1, <2>1 DEF IndInv, CallsOK
<1> QED
  BY <1>3, <1>4, <1>5 DEF CallsOK

\* A call of Start that gives up without a connection.
LEMMA GiveUpStep ==
  ASSUME IndInv, NEW c \in Clients, SocketFail(c) \/ GiveUp(c)
  PROVE  IndInv'
<1>0. /\ TypeOK /\ cpc[c] = "connect" /\ Return(c, "false") /\ calls' = calls
      /\ UNCHANGED <<conns, active, stored>> /\ faults' \in 0 .. MaxFaults
  BY FaultTypes DEF IndInv, SocketFail, GiveUp, TypeOK
<1>1. StoredOK' /\ CountExact' /\ conns' \in Seq(Conn) /\ ConnIds' = ConnIds
  BY <1>0, ConnsFrame
<1>2. /\ cpc' \in [Clients -> {"idle", "connect", "send"}]
      /\ attempt' \in [Clients -> 0 .. Retries]
      /\ msg' \in [Clients -> 0 .. MaxCalls]
      /\ current' \in [Clients -> 0 .. Len(conns)]
      /\ outcome' \in [Messages -> {"none", "true", "false"}]
      /\ \A d \in Clients : /\ cpc'[d] = IF d = c THEN "idle" ELSE cpc[d]
                            /\ d # c => current'[d] = current[d] /\ msg'[d] = msg[d]
      /\ \A m \in Messages : outcome'[m] = IF m = msg[c] THEN "false" ELSE outcome[m]
  BY <1>0, ReturnShape
<1>3. TypeOK'
  <2>1. calls' \in 0 .. MaxCalls
    BY <1>0 DEF TypeOK
  <2> QED
    BY <1>0, <1>1, <1>2, <2>1, ClientTypes
<1>4. ConnsOK'
  BY <1>0, <1>1 DEF IndInv, ConnsOK
<1>5. OwnOK'
  <2>1. \A d \in Clients : cpc'[d] = "send" =>
          cpc[d] = "send" /\ current'[d] = current[d] /\ msg'[d] = msg[d]
    BY <1>2
  <2>2. \A d \in Clients : cpc[d] = "send" => cpc'[d] = "send" /\ current'[d] = current[d]
    BY <1>0, <1>2
  <2> QED
    BY <1>0, <1>1, <2>1, <2>2 DEF IndInv, OwnOK
<1>6. CallsOK'
  BY <1>0, ReturnCalls
<1>7. ClosedOK'
  <2>1. outcome[msg[c]] = "none"
    BY <1>0, ClientTyped
  <2>2. \A k \in ConnIds : conns[k].client = "closed" =>
          conns[k].msg \in Messages /\ outcome[conns[k].msg] = "true"
    BY <1>0, ConnTyped DEF IndInv, ClosedOK
  <2>3. \A k \in ConnIds : conns[k].client = "closed" => outcome'[conns[k].msg] = "true"
    BY <1>2, <2>1, <2>2
  <2> QED
    BY <1>0, <1>1, <2>3 DEF IndInv, ClosedOK
<1> QED
  BY <1>1, <1>3, <1>4, <1>5, <1>6, <1>7 DEF IndInv

\* A new connection of client c, open or given up at once, keeps the parts of
\* the invariant that are not about the clients.
LEMMA AddFrame ==
  ASSUME IndInv, NEW c \in Clients, cpc[c] = "connect", NEW end \in {"open", "failed"},
         conns' = Append(conns, NewConn(msg[c], end)),
         UNCHANGED <<active, stored, calls, outcome>>
  PROVE  /\ ConnAdd(NewConn(msg[c], end))
         /\ NewConn(msg[c], end).client = end
         /\ NewConn(msg[c], end).msg = msg[c]
         /\ ConnsOK' /\ ClosedOK' /\ StoredOK' /\ CountExact'
<1> DEFINE v == NewConn(msg[c], end)
           n == Len(conns) + 1
<1>0. TypeOK /\ ConnsOK /\ Parts \in Nat /\ Parts > 0 /\ calls \in Nat
      /\ msg[c] \in Messages /\ msg[c] <= calls /\ outcome[msg[c]] = "none"
  BY ClientTyped DEF IndInv
<1>1. /\ v \in Conn /\ v.msg = msg[c] /\ v.sent = 0 /\ v.client = end
      /\ v.got = 0 /\ v.server = "queued"
  BY <1>0 DEF NewConn, Conn
<1> HIDE DEF v
<1>2. ConnAdd(v)
  BY <1>0, <1>1, AddConn DEF v
<1>3. /\ conns' \in Seq(Conn)
      /\ ConnIds \subseteq ConnIds'
      /\ \A j \in ConnIds' : j \in ConnIds \/ j = n
      /\ \A j \in ConnIds : conns'[j] = conns[j] /\ j # n
      /\ conns'[n] = v
  BY <1>2 DEF ConnAdd
<1> HIDE DEF n
<1>4. ConnsOK'
  <2> SUFFICES ASSUME NEW k \in ConnIds'
               PROVE  /\ conns'[k].msg <= calls
                      /\ conns'[k].got <= conns'[k].sent
                      /\ conns'[k].client = "closed" => conns'[k].sent = Parts
                      /\ conns'[k].client = "failed" => conns'[k].sent < Parts
    BY DEF ConnsOK
  <2>1. CASE k \in ConnIds
    BY <1>0, <1>3, <2>1 DEF ConnsOK
  <2>2. CASE k = n
    <3>1. conns'[k] = v
      BY <1>3, <2>2
    <3>2. 0 <= 0 /\ 0 < Parts
      BY <1>0
    <3> QED
      BY <1>0, <1>1, <3>1, <3>2
  <2> QED
    BY <1>3, <2>1, <2>2
<1>5. ClosedOK'
  <2>1. \A k \in ConnIds' : conns'[k].client = "closed" =>
          k \in ConnIds /\ conns'[k] = conns[k]
    BY <1>1, <1>3
  <2>2. \A k \in ConnIds : conns[k].client # "failed" => conns[k].msg # msg[c]
    <3> SUFFICES ASSUME NEW k \in ConnIds, conns[k].client # "failed", conns[k].msg = msg[c]
                 PROVE  FALSE
      OBVIOUS
    <3>1. CASE conns[k].client = "closed"
      BY <1>0, <3>1 DEF IndInv, ClosedOK
    <3>2. CASE conns[k].client = "open"
      <4>1. PICK d \in Clients : cpc[d] = "send" /\ current[d] = k
        BY <3>2 DEF IndInv, OwnOK
      <4>2. msg[d] = msg[c] /\ d # c
        BY <4>1 DEF IndInv, OwnOK
      <4> QED
        BY <4>1, <4>2 DEF IndInv, CallsOK
    <3>3. conns[k] \in Conn
      BY <1>0, ConnTyped
    <3> QED
      BY <3>1, <3>2, <3>3 DEF Conn
  <2>3. \A j, k \in ConnIds' :
          /\ conns'[j].msg = conns'[k].msg
          /\ conns'[j].client # "failed" /\ conns'[k].client # "failed"
          => j = k
    <3> SUFFICES ASSUME NEW j \in ConnIds', NEW k \in ConnIds',
                        conns'[j].msg = conns'[k].msg,
                        conns'[j].client # "failed", conns'[k].client # "failed"
                 PROVE  j = k
      OBVIOUS
    <3>1. CASE j \in ConnIds /\ k \in ConnIds
      BY <1>3, <3>1 DEF IndInv, ClosedOK
    <3>2. CASE j = n /\ k \in ConnIds
      BY <1>1, <1>3, <2>2, <3>2
    <3>3. CASE j \in ConnIds /\ k = n
      BY <1>1, <1>3, <2>2, <3>3
    <3> QED
      BY <1>3, <3>1, <3>2, <3>3
  <2> QED
    BY <2>1, <2>3 DEF IndInv, ClosedOK
<1>6. StoredOK'
  BY <1>3, StoredFrame
<1>7. CountExact'
  BY <1>1, <1>3, CountFrame
<1> QED
  BY <1>1, <1>2, <1>4, <1>5, <1>6, <1>7 DEF v

\* A connection is made.
LEMMA ConnectStep ==
  ASSUME IndInv, NEW c \in Clients, Connect(c)
  PROVE  IndInv'
<1> DEFINE v == NewConn(msg[c], "open")
           n == Len(conns) + 1
<1>0. /\ TypeOK /\ cpc[c] = "connect" /\ conns' = Append(conns, v)
      /\ UNCHANGED <<msg, attempt, outcome, calls, active, stored, faults>>
  BY DEF IndInv, Connect
<1>1. /\ ConnAdd(v) /\ v.client = "open" /\ v.msg = msg[c]
      /\ ConnsOK' /\ ClosedOK' /\ StoredOK' /\ CountExact'
  BY <1>0, AddFrame
<1> HIDE DEF v
<1>2. /\ conns' \in Seq(Conn) /\ Len(conns') = n /\ Len(conns) \in Nat
      /\ ConnIds \subseteq ConnIds' /\ n \in ConnIds'
      /\ \A j \in ConnIds' : j \in ConnIds \/ j = n
      /\ \A j \in ConnIds : conns'[j] = conns[j] /\ j # n
      /\ conns'[n] = v
  BY <1>0, <1>1, ConnTyped DEF ConnAdd
<1>3. \A d \in Clients : /\ cpc'[d] = IF d = c THEN "send" ELSE cpc[d]
                         /\ current'[d] = IF d = c THEN n ELSE current[d]
  BY <1>0 DEF Connect, TypeOK
<1>4. TypeOK'
  <2>1. current' \in [Clients -> 0 .. n]
    BY <1>0, <1>2 DEF Connect, TypeOK
  <2>2. cpc' \in [Clients -> {"idle", "connect", "send"}]
    BY <1>0 DEF Connect, TypeOK
  <2>3. /\ attempt' \in [Clients -> 0 .. Retries] /\ msg' \in [Clients -> 0 .. MaxCalls]
        /\ outcome' \in [Messages -> {"none", "true", "false"}]
        /\ calls' \in 0 .. MaxCalls /\ faults' \in 0 .. MaxFaults
    BY <1>0 DEF TypeOK
  <2> QED
    BY <1>0, <1>2, <2>1, <2>2, <2>3, ClientTypes
<1> HIDE DEF n
<1>5. OwnOK'
  <2>1. \A d \in Clients : cpc'[d] = "send" =>
          /\ current'[d] \in ConnIds'
          /\ conns'[current'[d]].client = "open"
          /\ conns'[current'[d]].msg = msg'[d]
    <3> SUFFICES ASSUME NEW d \in Clients, cpc'[d] = "send"
                 PROVE  /\ current'[d] \in ConnIds'
                        /\ conns'[current'[d]].client = "open"
                        /\ conns'[current'[d]].msg = msg'[d]
      OBVIOUS
    <3>1. CASE d = c
      BY <1>0, <1>1, <1>2, <1>3, <3>1
    <3>2. CASE d # c
      <4>1. cpc[d] = "send" /\ current'[d] = current[d] /\ msg'[d] = msg[d]
        BY <1>0, <1>3, <3>2
      <4>2. /\ current[d] \in ConnIds /\ conns[current[d]].client = "open"
            /\ conns[current[d]].msg = msg[d]
        BY <4>1 DEF IndInv, OwnOK
      <4> QED
        BY <1>2, <4>1, <4>2
    <3> QED
      BY <3>1, <3>2
  <2>2. \A k \in ConnIds' : conns'[k].client = "open" =>
          \E d \in Clients : cpc'[d] = "send" /\ current'[d] = k
    <3> SUFFICES ASSUME NEW k \in ConnIds', conns'[k].client = "open"
                 PROVE  \E d \in Clients : cpc'[d] = "send" /\ current'[d] = k
      OBVIOUS
    <3>1. CASE k = n
      BY <1>3, <3>1
    <3>2. CASE k \in ConnIds
      <4>1. PICK d \in Clients : cpc[d] = "send" /\ current[d] = k
        BY <1>2, <3>2 DEF IndInv, OwnOK
      <4> QED
        BY <1>0, <1>3, <4>1
    <3> QED
      BY <1>2, <3>1, <3>2
  <2> QED
    BY <2>1, <2>2 DEF OwnOK
<1>6. CallsOK'
  BY <1>0, <1>3 DEF IndInv, CallsOK
<1> QED
  BY <1>1, <1>4, <1>5, <1>6 DEF IndInv

\* A connection cannot be made.
LEMMA ConnectFailStep ==
  ASSUME IndInv, NEW c \in Clients, ConnectFail(c)
  PROVE  IndInv'
<1> DEFINE v == NewConn(msg[c], "failed")
<1>0. /\ TypeOK /\ cpc[c] = "connect" /\ MayTry(c) /\ Retry(c)
      /\ conns' = conns \/ conns' = Append(conns, v)
      /\ UNCHANGED <<calls, active, stored>> /\ faults' \in 0 .. MaxFaults
  BY FaultTypes DEF IndInv, ConnectFail
<1>1. /\ cpc' \in [Clients -> {"idle", "connect", "send"}]
      /\ attempt' \in [Clients -> 0 .. Retries]
      /\ msg' = msg /\ outcome' = outcome
      /\ \A d \in Clients : /\ cpc'[d] = IF d = c THEN "connect" ELSE cpc[d]
                            /\ current'[d] = IF d = c THEN 0 ELSE current[d]
  BY <1>0, RetryShape
<1>2. \A m \in Nat : Len(conns) <= m => current' \in [Clients -> 0 .. m]
  BY <1>0, RetryShape
<1>3. /\ ConnsOK' /\ ClosedOK' /\ StoredOK' /\ CountExact'
      /\ conns' \in Seq(Conn) /\ Len(conns') \in Nat /\ Len(conns) <= Len(conns')
      /\ ConnIds \subseteq ConnIds'
      /\ \A j \in ConnIds : conns'[j] = conns[j]
      /\ \A j \in ConnIds' : j \in ConnIds \/ conns'[j].client = "failed"
  <2>1. CASE conns' = conns
    <3>1. StoredOK' /\ CountExact' /\ conns' \in Seq(Conn) /\ ConnIds' = ConnIds
      BY <1>0, <2>1, ConnsFrame
    <3>2. ConnsOK' /\ ClosedOK'
      BY <1>0, <1>1, <2>1, <3>1 DEF IndInv, ConnsOK, ClosedOK
    <3> QED
      BY <1>0, <2>1, <3>1, <3>2, ConnTyped
  <2>2. CASE conns' = Append(conns, v)
    <3>1. /\ ConnAdd(v) /\ v.client = "failed"
          /\ ConnsOK' /\ ClosedOK' /\ StoredOK' /\ CountExact'
      BY <1>0, <1>1, <2>2, AddFrame
    <3> HIDE DEF v
    <3>2. Len(conns) \in Nat
      BY <1>0, ConnTyped
    <3> QED
      BY <3>1, <3>2 DEF ConnAdd
  <2> QED
    BY <1>0, <2>1, <2>2
<1>4. TypeOK'
  <2>1. current' \in [Clients -> 0 .. Len(conns')]
    BY <1>2, <1>3
  <2>2. /\ msg' \in [Clients -> 0 .. MaxCalls]
        /\ outcome' \in [Messages -> {"none", "true", "false"}]
        /\ calls' \in 0 .. MaxCalls
    BY <1>0, <1>1 DEF TypeOK
  <2> QED
    BY <1>0, <1>1, <1>3, <2>1, <2>2, ClientTypes
<1>5. OwnOK'
  <2>1. \A d \in Clients : cpc'[d] = "send" => d # c /\ cpc[d] = "send"
    BY <1>1
  <2>2. \A k \in ConnIds' : conns'[k].client = "open" =>
          k \in ConnIds /\ conns[k].client = "open"
    BY <1>3
  <2>3. \A d \in Clients : cpc[d] = "send" => cpc'[d] = "send" /\ current'[d] = current[d]
    BY <1>0, <1>1
  <2> QED
    BY <1>1, <1>3, <2>1, <2>2, <2>3 DEF IndInv, OwnOK
<1>6. CallsOK'
  BY <1>0, <1>1 DEF IndInv, CallsOK
<1> QED
  BY <1>3, <1>4, <1>5, <1>6 DEF IndInv

\* A part of the payload is handed over.
LEMMA SendStep ==
  ASSUME IndInv, NEW c \in Clients, Send(c)
  PROVE  IndInv'
<1> DEFINE k == current[c]
           v == [conns[k] EXCEPT !.sent = conns[k].sent + 1]
<1>0. /\ TypeOK /\ ConnsOK /\ cpc[c] = "send" /\ conns[k].sent < Parts
      /\ conns' = [conns EXCEPT ![k] = v]
      /\ UNCHANGED <<client, active, stored, faults>>
  BY DEF IndInv, Send
<1>1. k \in ConnIds /\ conns[k].client = "open"
  BY <1>0 DEF IndInv, OwnOK
<1>2. /\ conns[k] \in Conn /\ conns[k].sent \in Nat /\ conns[k].got \in Nat
      /\ conns[k].got <= conns[k].sent /\ Parts \in Nat
  BY <1>0, <1>1, ConnTyped, BackupAssumption DEF ConnsOK
<1>3. conns[k].sent + 1 \in 0 .. Parts /\ conns[k].got <= conns[k].sent + 1
  BY <1>0, <1>2
<1>4. /\ v \in Conn /\ v.msg = conns[k].msg /\ v.client = "open" /\ v.got <= v.sent
      /\ v.server = conns[k].server
  BY <1>1, <1>2, <1>3 DEF Conn
<1> HIDE DEF v, k
<1>5. /\ conns' \in Seq(Conn) /\ Len(conns') = Len(conns) /\ ConnIds' = ConnIds
      /\ \A j \in ConnIds : conns'[j] = IF j = k THEN v ELSE conns[j]
  BY <1>0, <1>1, <1>4, SetConn DEF ConnSet
<1>6. TypeOK'
  <2>1. /\ active' \in Nat /\ faults' \in 0 .. MaxFaults
        /\ stored' \in Seq([conn : ConnIds, parts : 1 .. Parts])
    BY <1>0 DEF TypeOK
  <2> QED
    BY <1>0, <1>5, <2>1, ServerTypes
<1>7. /\ cpc' = cpc /\ msg' = msg /\ current' = current
      /\ outcome' = outcome /\ calls' = calls
  BY <1>0 DEF client
<1>8. \A j \in ConnIds : /\ conns'[j].msg = conns[j].msg
                         /\ conns'[j].client = conns[j].client
                         /\ conns'[j].server = conns[j].server
                         /\ conns'[j].got <= conns'[j].sent
                         /\ j # k => conns'[j] = conns[j]
  BY <1>0, <1>1, <1>4, <1>5 DEF ConnsOK
<1>9. ConnsOK'
  <2> SUFFICES ASSUME NEW j \in ConnIds
               PROVE  /\ conns'[j].msg <= calls
                      /\ conns'[j].got <= conns'[j].sent
                      /\ conns'[j].client = "closed" => conns'[j].sent = Parts
                      /\ conns'[j].client = "failed" => conns'[j].sent < Parts
    BY <1>5, <1>7 DEF ConnsOK
  <2>1. CASE j = k
    BY <1>0, <1>1, <1>8, <2>1 DEF ConnsOK
  <2>2. CASE j # k
    BY <1>0, <1>8, <2>2 DEF ConnsOK
  <2> QED
    BY <2>1, <2>2
<1>10. OwnOK' /\ CallsOK' /\ ClosedOK'
  BY <1>5, <1>7, <1>8 DEF IndInv, OwnOK, CallsOK, ClosedOK
<1>11. StoredOK'
  <2>1. \A j \in ConnIds : conns[j].client # "open" => conns'[j] = conns[j]
    BY <1>1, <1>8
  <2> QED
    BY <1>0, <2>1, StoredFrame
<1>12. CountExact'
  BY <1>0, <1>5, <1>8, CountFrame
<1> QED
  BY <1>6, <1>9, <1>10, <1>11, <1>12 DEF IndInv

\* The end that client c makes of its connection, good or bad, keeps the parts
\* of the invariant that are about the connections.
LEMMA EndFrame ==
  ASSUME IndInv, NEW c \in Clients, cpc[c] = "send", NEW end \in {"closed", "failed"},
         IF end = "closed" THEN conns[current[c]].sent = Parts
         ELSE conns[current[c]].sent < Parts,
         conns' = [conns EXCEPT ![current[c]].client = end],
         UNCHANGED <<active, stored, calls>>
  PROVE  /\ current[c] \in ConnIds /\ conns[current[c]].msg = msg[c]
         /\ conns' \in Seq(Conn) /\ Len(conns') = Len(conns) /\ ConnIds' = ConnIds
         /\ \A j \in ConnIds : /\ conns'[j].msg = conns[j].msg
                               /\ j # current[c] => conns'[j] = conns[j]
         /\ conns[current[c]].client = "open" /\ conns'[current[c]].client = end
         /\ ConnsOK' /\ StoredOK' /\ CountExact'
<1> DEFINE k == current[c]
           v == [conns[k] EXCEPT !.client = end]
<1>0. TypeOK /\ ConnsOK /\ conns' = [conns EXCEPT ![k] = v]
  BY DEF IndInv
<1>1. k \in ConnIds /\ conns[k].client = "open" /\ conns[k].msg = msg[c]
  BY DEF IndInv, OwnOK
<1>2. conns[k] \in Conn
  BY <1>0, <1>1, ConnTyped
<1>4. /\ v \in Conn /\ v.msg = conns[k].msg /\ v.client = end /\ v.got = conns[k].got
      /\ v.sent = conns[k].sent /\ v.server = conns[k].server
  BY <1>2 DEF Conn
<1> HIDE DEF v
<1>5. /\ conns' \in Seq(Conn) /\ Len(conns') = Len(conns) /\ ConnIds' = ConnIds
      /\ \A j \in ConnIds : conns'[j] = IF j = k THEN v ELSE conns[j]
  BY <1>0, <1>1, <1>4, SetConn DEF ConnSet
<1>6. ConnsOK'
  <2> SUFFICES ASSUME NEW j \in ConnIds
               PROVE  /\ conns'[j].msg <= calls
                      /\ conns'[j].got <= conns'[j].sent
                      /\ conns'[j].client = "closed" => conns'[j].sent = Parts
                      /\ conns'[j].client = "failed" => conns'[j].sent < Parts
    BY <1>5 DEF ConnsOK
  <2>1. CASE j = k
    <3>1. conns'[j] = v
      BY <1>5, <2>1
    <3>2. conns[k].msg <= calls /\ conns[k].got <= conns[k].sent
      BY <1>0, <1>1 DEF ConnsOK
    <3> QED
      BY <1>4, <3>1, <3>2
  <2>2. CASE j # k
    BY <1>0, <1>5, <2>2 DEF ConnsOK
  <2> QED
    BY <2>1, <2>2
<1>7. StoredOK'
  <2>1. \A j \in ConnIds : conns[j].client # "open" => conns'[j] = conns[j]
    BY <1>1, <1>5
  <2> QED
    BY <2>1, StoredFrame
<1>8. CountExact'
  BY <1>4, <1>5, CountFrame
<1> QED
  BY <1>1, <1>4, <1>5, <1>6, <1>7, <1>8

\* Two clients that send do so over different connections.
LEMMA OwnDistinct ==
  ASSUME IndInv, NEW c \in Clients, NEW d \in Clients, c # d,
         cpc[c] = "send", cpc[d] = "send"
  PROVE  current[c] # current[d]
BY DEF IndInv, OwnOK, CallsOK

\* A send fails.
LEMMA SendFailStep ==
  ASSUME IndInv, TriesOK, NEW c \in Clients, SendFail(c)
  PROVE  IndInv'
<1> DEFINE k == current[c]
<1>0. /\ TypeOK /\ cpc[c] = "send" /\ conns[k].sent < Parts /\ Retry(c)
      /\ conns' = [conns EXCEPT ![k].client = "failed"]
      /\ UNCHANGED <<calls, active, stored>> /\ faults' \in 0 .. MaxFaults
  BY FaultTypes DEF IndInv, SendFail
<1>a. MayTry(c)
  BY <1>0 DEF TriesOK, MayTry
<1>1. /\ cpc' \in [Clients -> {"idle", "connect", "send"}]
      /\ attempt' \in [Clients -> 0 .. Retries]
      /\ msg' = msg /\ outcome' = outcome
      /\ \A d \in Clients : /\ cpc'[d] = IF d = c THEN "connect" ELSE cpc[d]
                            /\ current'[d] = IF d = c THEN 0 ELSE current[d]
  BY <1>0, <1>a, RetryShape
<1>2. \A m \in Nat : Len(conns) <= m => current' \in [Clients -> 0 .. m]
  BY <1>0, <1>a, RetryShape
<1>3. /\ k \in ConnIds /\ conns[k].msg = msg[c]
      /\ conns' \in Seq(Conn) /\ Len(conns') = Len(conns) /\ ConnIds' = ConnIds
      /\ \A j \in ConnIds : /\ conns'[j].msg = conns[j].msg
                            /\ j # k => conns'[j] = conns[j]
      /\ conns[k].client = "open" /\ conns'[k].client = "failed"
      /\ ConnsOK' /\ StoredOK' /\ CountExact'
  BY <1>0, EndFrame
<1>4. TypeOK'
  <2>1. Len(conns') \in Nat /\ Len(conns) <= Len(conns')
    BY <1>0, <1>3, ConnTyped
  <2>2. current' \in [Clients -> 0 .. Len(conns')]
    BY <1>2, <2>1
  <2>3. /\ msg' \in [Clients -> 0 .. MaxCalls]
        /\ outcome' \in [Messages -> {"none", "true", "false"}]
        /\ calls' \in 0 .. MaxCalls
    BY <1>0, <1>1 DEF TypeOK
  <2> QED
    BY <1>0, <1>1, <1>3, <2>2, <2>3, ClientTypes
<1>5. OwnOK'
  <2>1. ASSUME NEW d \in Clients, cpc'[d] = "send"
        PROVE  /\ current'[d] \in ConnIds'
               /\ conns'[current'[d]].client = "open"
               /\ conns'[current'[d]].msg = msg'[d]
    <3>1. d # c /\ cpc[d] = "send" /\ current'[d] = current[d]
      BY <1>1, <2>1
    <3>2. current[d] # k
      BY <1>0, <3>1, OwnDistinct
    <3>3. /\ current[d] \in ConnIds /\ conns[current[d]].client = "open"
          /\ conns[current[d]].msg = msg[d]
      BY <3>1 DEF IndInv, OwnOK
    <3> QED
      BY <1>1, <1>3, <3>1, <3>2, <3>3
  <2>2. ASSUME NEW j \in ConnIds', conns'[j].client = "open"
        PROVE  \E d \in Clients : cpc'[d] = "send" /\ current'[d] = j
    <3>1. j \in ConnIds /\ j # k /\ conns[j].client = "open"
      BY <1>3, <2>2
    <3>2. PICK d \in Clients : cpc[d] = "send" /\ current[d] = j
      BY <3>1 DEF IndInv, OwnOK
    <3>3. d # c
      BY <3>1, <3>2
    <3> QED
      BY <1>1, <3>2, <3>3
  <2> QED
    BY <2>1, <2>2 DEF OwnOK
<1>6. CallsOK'
  BY <1>0, <1>1 DEF IndInv, CallsOK
<1>7. ClosedOK'
  <2>1. ASSUME NEW j \in ConnIds, conns'[j].client # "failed"
        PROVE  j # k /\ conns'[j] = conns[j]
    BY <1>3, <2>1
  <2>2. ASSUME NEW j \in ConnIds, conns'[j].client = "closed"
        PROVE  outcome'[conns'[j].msg] = "true"
    <3>1. conns'[j] = conns[j]
      BY <2>1, <2>2
    <3>2. outcome[conns[j].msg] = "true"
      BY <2>2, <3>1 DEF IndInv, ClosedOK
    <3> QED
      BY <1>1, <3>1, <3>2
  <2>3. ASSUME NEW i \in ConnIds, NEW j \in ConnIds, conns'[i].msg = conns'[j].msg,
               conns'[i].client # "failed", conns'[j].client # "failed"
        PROVE  i = j
    <3>1. conns'[i] = conns[i] /\ conns'[j] = conns[j]
      BY <2>1, <2>3
    <3> QED
      BY <2>3, <3>1 DEF IndInv, ClosedOK
  <2> QED
    BY <1>3, <2>2, <2>3 DEF ClosedOK
<1> QED
  BY <1>3, <1>4, <1>5, <1>6, <1>7 DEF IndInv

\* All parts are sent and Start returns true.
LEMMA SentAllStep ==
  ASSUME IndInv, NEW c \in Clients, SentAll(c)
  PROVE  IndInv'
<1> DEFINE k == current[c]
<1>0. /\ TypeOK /\ cpc[c] = "send" /\ conns[k].sent = Parts /\ Return(c, "true")
      /\ conns' = [conns EXCEPT ![k].client = "closed"]
      /\ UNCHANGED <<calls, active, stored, faults>>
  BY DEF IndInv, SentAll
<1>2. /\ cpc' \in [Clients -> {"idle", "connect", "send"}]
      /\ attempt' \in [Clients -> 0 .. Retries]
      /\ msg' \in [Clients -> 0 .. MaxCalls]
      /\ current' \in [Clients -> 0 .. Len(conns)]
      /\ outcome' \in [Messages -> {"none", "true", "false"}]
      /\ \A d \in Clients : /\ cpc'[d] = IF d = c THEN "idle" ELSE cpc[d]
                            /\ d # c => current'[d] = current[d] /\ msg'[d] = msg[d]
      /\ \A m \in Messages : outcome'[m] = IF m = msg[c] THEN "true" ELSE outcome[m]
  BY <1>0, ReturnShape
<1>3. /\ k \in ConnIds /\ conns[k].msg = msg[c]
      /\ conns' \in Seq(Conn) /\ Len(conns') = Len(conns) /\ ConnIds' = ConnIds
      /\ \A j \in ConnIds : /\ conns'[j].msg = conns[j].msg
                            /\ j # k => conns'[j] = conns[j]
      /\ conns[k].client = "open" /\ conns'[k].client = "closed"
      /\ ConnsOK' /\ StoredOK' /\ CountExact'
  BY <1>0, EndFrame
<1>4. TypeOK'
  <2>1. calls' \in 0 .. MaxCalls /\ faults' \in 0 .. MaxFaults
    BY <1>0 DEF TypeOK
  <2> QED
    BY <1>0, <1>2, <1>3, <2>1, ClientTypes
<1>5. OwnOK'
  <2>1. ASSUME NEW d \in Clients, cpc'[d] = "send"
        PROVE  /\ current'[d] \in ConnIds'
               /\ conns'[current'[d]].client = "open"
               /\ conns'[current'[d]].msg = msg'[d]
    <3>1. d # c /\ cpc[d] = "send" /\ current'[d] = current[d] /\ msg'[d] = msg[d]
      BY <1>2, <2>1
    <3>2. current[d] # k
      BY <1>0, <3>1, OwnDistinct
    <3>3. /\ current[d] \in ConnIds /\ conns[current[d]].client = "open"
          /\ conns[current[d]].msg = msg[d]
      BY <3>1 DEF IndInv, OwnOK
    <3> QED
      BY <1>3, <3>1, <3>2, <3>3
  <2>2. ASSUME NEW j \in ConnIds', conns'[j].client = "open"
        PROVE  \E d \in Clients : cpc'[d] = "send" /\ current'[d] = j
    <3>1. j \in ConnIds /\ j # k /\ conns[j].client = "open"
      BY <1>3, <2>2
    <3>2. PICK d \in Clients : cpc[d] = "send" /\ current[d] = j
      BY <3>1 DEF IndInv, OwnOK
    <3>3. d # c
      BY <3>1, <3>2
    <3> QED
      BY <1>2, <3>2, <3>3
  <2> QED
    BY <2>1, <2>2 DEF OwnOK
<1>6. CallsOK'
  BY <1>0, ReturnCalls
<1>7. ClosedOK'
  <2>1. ASSUME NEW j \in ConnIds, conns'[j].client = "closed"
        PROVE  outcome'[conns'[j].msg] = "true"
    <3>1. conns[j].msg \in Messages /\ conns'[j].msg = conns[j].msg
      BY <1>0, <1>3, ConnTyped
    <3>2. CASE j = k
      BY <1>2, <1>3, <3>1, <3>2
    <3>3. CASE j # k
      <4>1. outcome[conns[j].msg] = "true"
        BY <1>3, <2>1, <3>3 DEF IndInv, ClosedOK
      <4> QED
        BY <1>2, <3>1, <4>1
    <3> QED
      BY <3>2, <3>3
  <2>2. \A j \in ConnIds : conns'[j].client # "failed" => conns[j].client # "failed"
    BY <1>3
  <2> QED
    BY <1>3, <2>1, <2>2 DEF IndInv, ClosedOK
<1> QED
  BY <1>3, <1>4, <1>5, <1>6, <1>7 DEF IndInv

-----------------------------------------------------------------------------
(* The invariant holds.                                                    *)

\* The initial states satisfy the invariant.
LEMMA IndInit == Init => IndInv /\ TriesOK
<1> SUFFICES ASSUME Init PROVE IndInv /\ TriesOK
  OBVIOUS
<1> USE BackupAssumption
<1>1. ConnIds = {} /\ Len(conns) = 0 /\ DOMAIN stored = {}
  BY DEF Init, ConnIds
<1>2. \A c \in Clients : cpc[c] = "idle"
  BY DEF Init
<1>3. TypeOK
  <2>1. conns \in Seq(Conn) /\ stored \in Seq([conn : ConnIds, parts : 1 .. Parts])
    BY DEF Init
  <2>2. current \in [Clients -> 0 .. Len(conns)]
    BY <1>1 DEF Init
  <2> QED
    BY <2>1, <2>2 DEF Init, TypeOK, Conn
<1>4. ConnsOK /\ OwnOK /\ ClosedOK /\ StoredOK /\ TriesOK
  BY <1>1, <1>2 DEF ConnsOK, OwnOK, ClosedOK, StoredOK, TriesOK
<1>5. CallsOK
  BY <1>2 DEF CallsOK, Init
<1>6. CountExact
  <2>1. Handled = {}
    BY <1>1 DEF Handled
  <2> QED
    BY <2>1, FS_EmptySet DEF CountExact, Init
<1> QED
  BY <1>3, <1>4, <1>5, <1>6 DEF IndInv

\* No step lets a client send without an attempt left.
LEMMA TriesStep ==
  ASSUME IndInv, TriesOK, Next
  PROVE  TriesOK'
<1>0. TypeOK
  BY DEF IndInv
<1>1. ASSUME UNCHANGED <<cpc, attempt>> PROVE TriesOK'
  BY <1>1 DEF TriesOK
<1>2. ASSUME NEW c \in Clients,
             \A d \in Clients \ {c} : cpc'[d] = cpc[d] /\ attempt'[d] = attempt[d],
             cpc'[c] = "send" => MayTry(c) /\ attempt'[c] = attempt[c]
      PROVE  TriesOK'
  BY <1>2 DEF TriesOK, MayTry
<1>3. ASSUME NEW c \in Clients, StartCall(c) \/ ClientStep(c) PROVE TriesOK'
  <2>1. CASE StartCall(c)
    BY <1>0, <1>2, <2>1 DEF StartCall, TypeOK
  <2>2. CASE Connect(c)
    BY <1>0, <1>2, <2>2 DEF Connect, TypeOK
  <2>3. CASE ConnectFail(c) \/ SendFail(c)
    BY <1>0, <1>2, <2>3 DEF ConnectFail, SendFail, Retry, TypeOK
  <2>4. CASE SocketFail(c) \/ GiveUp(c) \/ SentAll(c)
    BY <1>0, <1>2, <2>4 DEF SocketFail, GiveUp, SentAll, Return, TypeOK
  <2>5. CASE Send(c)
    BY <1>1, <2>5 DEF Send, client
  <2> QED
    BY <1>3, <2>1, <2>2, <2>3, <2>4, <2>5 DEF ClientStep
<1>4. ASSUME NEW k \in ConnIds, Refuse(k) \/ Detach(k) \/ Handle(k) PROVE TriesOK'
  BY <1>1, <1>4 DEF Refuse, Detach, Handle, Receive, ReceiveFail, Callback, Skip,
                    HangUp, Leave, client
<1> QED
  BY <1>3, <1>4 DEF Next, LoopStep

\* Every step keeps the invariant.
LEMMA IndStep == IndInv /\ TriesOK /\ [Next]_vars => (IndInv /\ TriesOK)'
<1> SUFFICES ASSUME IndInv, TriesOK, [Next]_vars PROVE IndInv' /\ TriesOK'
  OBVIOUS
<1>1. CASE UNCHANGED vars
  BY <1>1 DEF vars, IndInv, TriesOK, TypeOK, ConnIds, ConnsOK, OwnOK, CallsOK,
              ClosedOK, StoredOK, CountExact, Handled
<1>2. CASE Next
  <2>1. TriesOK'
    BY <1>2, TriesStep
  <2>2. ASSUME NEW c \in Clients, StartCall(c) \/ ClientStep(c) PROVE IndInv'
    BY <2>2, StartStep, ConnectStep, ConnectFailStep, GiveUpStep, SendStep,
       SendFailStep, SentAllStep DEF ClientStep
  <2>3. ASSUME NEW k \in ConnIds, Refuse(k) \/ Detach(k) \/ Handle(k) PROVE IndInv'
    BY <2>3, ServerStep
  <2> QED
    BY <1>2, <2>1, <2>2, <2>3 DEF Next, LoopStep
<1> QED
  BY <1>1, <1>2

-----------------------------------------------------------------------------
(* Theorems.                                                               *)

\* The inductive invariant holds in every reachable state.
THEOREM Invariance == SafetySpec => [](IndInv /\ TriesOK)
<1> QED
  BY IndInit, IndStep, PTL DEF SafetySpec

\* Every variable keeps its type.
THEOREM TypeCorrect == SafetySpec => []TypeOK
<1>1. IndInv => TypeOK
  BY DEF IndInv
<1> QED
  BY <1>1, Invariance, PTL

\* active_connections_ counts exactly the connections that have a thread, and
\* never more than max_connections_, on every path of Run and HandleConnection.
THEOREM CountCorrect == SafetySpec => []CountExact
<1>1. IndInv => CountExact
  BY DEF IndInv
<1> QED
  BY <1>1, Invariance, PTL

\* A record that is stored cut short comes from an attempt that Start saw fail.
THEOREM TruncatedCorrect == SafetySpec => []TruncatedOnlyIfFailed
<1>1. IndInv => TruncatedOnlyIfFailed
  <2> SUFFICES ASSUME IndInv, NEW i \in DOMAIN stored, stored[i].parts < Parts
               PROVE  conns[stored[i].conn].client = "failed"
    BY DEF TruncatedOnlyIfFailed
  <2> DEFINE k == stored[i].conn
  <2>0. TypeOK /\ Parts \in Nat
    BY BackupAssumption DEF IndInv
  <2>1. k \in ConnIds
    <3> DEFINE Rec == [conn : ConnIds, parts : 1 .. Parts]
    <3>1. stored \in Seq(Rec)
      BY <2>0 DEF TypeOK
    <3>2. stored[i] \in Rec
      <4> HIDE DEF Rec
      <4> QED
        BY <3>1, SeqMember
    <3> QED
      BY <3>2
  <2>2. conns[k].client # "open" /\ stored[i].parts = conns[k].sent
    BY DEF IndInv, StoredOK
  <2>3. conns[k] \in Conn /\ conns[k].sent \in Nat
    BY <2>0, <2>1, ConnTyped
  <2>4. conns[k].client # "closed"
    BY <2>0, <2>1, <2>2, <2>3 DEF IndInv, ConnsOK
  <2> QED
    BY <2>2, <2>3, <2>4 DEF Conn
<1> QED
  BY <1>1, Invariance, PTL

\* However often Start retries, a message is stored whole at most once, and not
\* at all when Start returned false.
THEOREM WholeCorrect == SafetySpec => []WholeAtMostOnce
<1>1. IndInv => WholeAtMostOnce
  <2> SUFFICES ASSUME IndInv, NEW m \in Messages
               PROVE  /\ Cardinality(StoredWhole(m)) <= 1
                      /\ outcome[m] = "false" => StoredWhole(m) = {}
    BY DEF WholeAtMostOnce
  <2>0. TypeOK /\ Parts \in Nat
    BY BackupAssumption DEF IndInv
  <2>1. ASSUME NEW i \in StoredWhole(m)
        PROVE  /\ i \in DOMAIN stored /\ stored[i].conn \in ConnIds
               /\ conns[stored[i].conn].msg = m
               /\ conns[stored[i].conn].client = "closed"
    <3> DEFINE k == stored[i].conn
               Rec == [conn : ConnIds, parts : 1 .. Parts]
    <3>1. i \in DOMAIN stored /\ stored[i].parts = Parts /\ conns[k].msg = m
      BY <2>1 DEF StoredWhole
    <3>2. stored \in Seq(Rec)
      BY <2>0 DEF TypeOK
    <3>3. stored[i] \in Rec
      <4> HIDE DEF Rec
      <4> QED
        BY <3>1, <3>2, SeqMember
    <3>4. k \in ConnIds
      BY <3>3
    <3>5. conns[k].client # "open" /\ conns[k].sent = Parts
      BY <3>1 DEF IndInv, StoredOK
    <3>6. conns[k].client # "failed"
      BY <2>0, <3>4, <3>5 DEF IndInv, ConnsOK
    <3>7. conns[k] \in Conn
      BY <2>0, <3>4, ConnTyped
    <3> QED
      BY <3>1, <3>4, <3>5, <3>6, <3>7 DEF Conn
  <2>2. \A i, j \in StoredWhole(m) : i = j
    <3> SUFFICES ASSUME NEW i \in StoredWhole(m), NEW j \in StoredWhole(m) PROVE i = j
      OBVIOUS
    <3>1. stored[i].conn = stored[j].conn
      BY <2>1 DEF IndInv, ClosedOK
    <3> QED
      BY <2>1, <3>1 DEF IndInv, StoredOK
  <2>3. Cardinality(StoredWhole(m)) <= 1
    BY <2>2, AtMostOne
  <2>4. ASSUME NEW i \in StoredWhole(m) PROVE outcome[m] = "true"
    BY <2>1 DEF IndInv, ClosedOK
  <2> QED
    BY <2>3, <2>4
<1> QED
  BY <1>1, Invariance, PTL

\* Whatever fails, the attempts of one call of Start leave one whole record at the
\* most, and truncated ones only if they failed.
THEOREM RecordsCorrect == SafetySpec => []StoredRecords
<1>1. WholeAtMostOnce /\ TruncatedOnlyIfFailed => StoredRecords
  BY DEF StoredRecords
<1> QED
  BY <1>1, WholeCorrect, TruncatedCorrect, PTL

=============================================================================
