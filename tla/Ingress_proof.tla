---------------------------- MODULE Ingress_proof ----------------------------
(***************************************************************************)
(* The way of an event from the host to the engine, for any number of      *)
(* events, deliveries, bridges, faults and restarts: one job of each, no   *)
(* entry acknowledged that was not taken, and no "queued" for a job that   *)
(* is not on the stream.                                                   *)
(***************************************************************************)
EXTENDS Ingress, SequenceTheorems, FiniteSetTheorems, TLAPS

-----------------------------------------------------------------------------
(* The edge's types and its connection. *)

(* A request past the window is in it, and one at most is on the wire. *)
Requests ==
  /\ \A k \in Keys : request[k] # "none" => k \in seen
  /\ \A j, k \in Keys : request[j] = "sent" /\ request[k] = "sent" => j = k

(* A request that waits is owed a reply; when no other is owed, it is its   *)
(* own, still to come or already there.                                    *)
Owed ==
  \A k \in Keys : request[k] = "sent" =>
    /\ wire # <<>> \/ replies # <<>>
    /\ Len(wire) + Len(replies) = 1 =>
         \/ wire # <<>> /\ Head(wire) = k
         \/ replies # <<>> /\ (Head(replies) = "id" => OnStream(k))

EdgeInv == EdgeTypeOK /\ Requests /\ Owed

(* A restart leaves of the wire a first part, at the end of the stream. *)
LEMMA RestartTypes ==
  ASSUME EdgeTypeOK, RestartEdge
  PROVE  stream' \in Seq(Keys) /\ Len(stream) <= Len(stream')
         /\ \A i \in 1..Len(stream) : stream'[i] = stream[i]
  <1>1. PICK n \in 0..Len(wire) : stream' = stream \o SubSeq(wire, 1, n)
    BY DEF RestartEdge
  <1>2. SubSeq(wire, 1, n) \in Seq(Keys)
    BY <1>1, SubSeqProperties, ElementOfSeq DEF EdgeTypeOK
  <1> QED
    BY <1>1, <1>2, ConcatProperties, LenProperties DEF EdgeTypeOK

(* Every step of the edge keeps its types. *)
LEMMA EdgeTypes ==
  ASSUME EdgeAssumption, EdgeTypeOK, EdgeNext PROVE EdgeTypeOK'
  <1> USE DEF EdgeTypeOK, connection
  <1>1. CASE Execute
    <2>1. Head(wire) \in Keys /\ Tail(wire) \in Seq(Keys)
      BY <1>1, HeadTailProperties DEF Execute
    <2>2. Append(stream, Head(wire)) \in Seq(Keys)
      BY <2>1, AppendProperties
    <2>3. Append(replies, "id") \in Seq({"id", "error"}) /\ Append(replies, "error") \in Seq({"id", "error"})
      BY AppendProperties
    <2>4. edgeFaults' \in 0..MaxEdgeFaults
      <3>1. edgeFaults' = edgeFaults \/ (edgeFaults < MaxEdgeFaults /\ edgeFaults' = edgeFaults + 1)
        BY <1>1 DEF Execute, Spend
      <3> QED
        BY <3>1 DEF EdgeAssumption
    <2> QED
      BY <1>1, <2>1, <2>2, <2>3, <2>4 DEF Execute
  <1>2. ASSUME NEW k \in Keys, Write(k) PROVE EdgeTypeOK'
    BY <1>2, AppendProperties DEF Write
  <1>3. ASSUME NEW k \in Keys, ReadReply(k) PROVE EdgeTypeOK'
    BY <1>3, HeadTailProperties DEF ReadReply, Respond
  <1>4. ASSUME NEW k \in Keys, Deliver(k) PROVE EdgeTypeOK'
    <2>1. deliveries' \in [Keys -> 0..MaxDeliveries]
      BY <1>4 DEF Deliver, EdgeAssumption
    <2>2. request' \in [Keys -> {"none", "enqueue", "sent"}]
          /\ answer' \in [Keys -> {"none", "queued", "duplicate", "error"}]
      BY <1>4 DEF Deliver
    <2> QED
      BY <1>4, <2>1, <2>2 DEF Deliver
  <1>5. ASSUME NEW k \in Keys, WriteFails(k) PROVE EdgeTypeOK'
    <2>1. edgeFaults' \in 0..MaxEdgeFaults
      BY <1>5 DEF WriteFails, Spend, EdgeAssumption
    <2> QED
      BY <1>5, <2>1 DEF WriteFails, Respond
  <1>6. ASSUME NEW k \in Keys, ReplyIsLate(k) PROVE EdgeTypeOK'
    BY <1>6 DEF ReplyIsLate, Respond, Spend, EdgeAssumption
  <1>7. CASE RestartEdge
    <2>1. <<>> \in Seq(Keys) /\ <<>> \in Seq({"id", "error"})
      BY EmptySeq
    <2>2. restarts' \in 0..MaxRestarts
      BY <1>7 DEF RestartEdge, EdgeAssumption
    <2>3. stream' \in Seq(Keys)
      BY <1>7, RestartTypes
    <2> QED
      BY <1>7, <2>1, <2>2, <2>3 DEF RestartEdge
  <1> QED
    BY <1>1, <1>2, <1>3, <1>4, <1>5, <1>6, <1>7 DEF EdgeNext, EdgeServes

(* The stream only grows, at its end. *)
LEMMA StreamGrows ==
  ASSUME EdgeTypeOK, EdgeNext
  PROVE  Len(stream) <= Len(stream') /\ \A i \in 1..Len(stream) : stream'[i] = stream[i]
  <1>1. CASE RestartEdge
    BY <1>1, RestartTypes
  <1>2. CASE Execute
    <2>1. Head(wire) \in Keys
      BY <1>2, HeadTailProperties DEF Execute, EdgeTypeOK
    <2>2. stream' = stream \/ stream' = Append(stream, Head(wire))
      BY <1>2 DEF Execute
    <2>3. stream \in Seq(Keys)
      BY DEF EdgeTypeOK
    <2> QED
      BY <2>1, <2>2, <2>3, AppendProperties, LenProperties
  <1>3. CASE \E k \in Keys : Write(k) \/ ReadReply(k) \/ Deliver(k) \/ WriteFails(k) \/ ReplyIsLate(k)
    <2>1. stream' = stream
      BY <1>3 DEF Write, ReadReply, Deliver, WriteFails, ReplyIsLate, connection
    <2> QED
      BY <2>1, LenProperties DEF EdgeTypeOK
  <1> QED
    BY <1>1, <1>2, <1>3 DEF EdgeNext, EdgeServes

(* Every step of the edge keeps its connection in order. *)
LEMMA EdgeNextInv == ASSUME EdgeAssumption, EdgeInv, EdgeNext PROVE EdgeInv'
  <1> USE DEF EdgeInv
  <1>1. EdgeTypeOK'
    BY EdgeTypes
  <1>2. Requests'
    <2>1. CASE Execute \/ RestartEdge
      BY <2>1 DEF Requests, Execute, RestartEdge
    <2>2. ASSUME NEW j \in Keys, Write(j) PROVE Requests'
      BY <2>2 DEF Requests, Write, MutexFree, EdgeTypeOK
    <2>3. ASSUME NEW j \in Keys, Deliver(j) PROVE Requests'
      BY <2>3 DEF Requests, Deliver, EdgeTypeOK
    <2>4. ASSUME NEW j \in Keys, ReadReply(j) \/ WriteFails(j) \/ ReplyIsLate(j) PROVE Requests'
      BY <2>4 DEF Requests, ReadReply, WriteFails, ReplyIsLate, Respond, EdgeTypeOK
    <2> QED
      BY <2>1, <2>2, <2>3, <2>4 DEF EdgeNext, EdgeServes
  <1>3. Owed'
    <2>1. CASE Execute
      <3> DEFINE w == Head(wire)
      <3>1. /\ w \in Keys /\ Tail(wire) \in Seq(Keys) /\ Len(Tail(wire)) = Len(wire) - 1
            /\ Len(wire) \in Nat /\ Len(replies) \in Nat /\ Len(wire) > 0
        BY <2>1, HeadTailProperties, LenProperties, EmptySeq DEF Execute, EdgeTypeOK
      <3>2. SUFFICES ASSUME NEW k \in Keys, request[k] = "sent"
                     PROVE  /\ replies' # <<>>
                            /\ Len(wire') + Len(replies') = 1 => (Head(replies') = "id" => OnStream(k)')
        BY <2>1 DEF Execute, Owed
      <3>3. /\ replies' # <<>> /\ Len(replies') = Len(replies) + 1
            /\ replies = <<>> => Head(replies') \in {"id", "error"} /\ (Head(replies') = "id" => stream' = Append(stream, w))
        BY <2>1, AppendProperties, HeadTailAppend DEF Execute, EdgeTypeOK
      <3>4. ASSUME Len(wire') + Len(replies') = 1, Head(replies') = "id" PROVE OnStream(k)'
        <4>1. replies = <<>> /\ Len(wire) + Len(replies) = 1
          BY <2>1, <3>1, <3>3, <3>4, EmptySeq DEF Execute, EdgeTypeOK
        <4>2. w = k
          BY <3>2, <4>1 DEF Owed
        <4>3. stream' = Append(stream, k)
          BY <3>3, <3>4, <4>1, <4>2
        <4> QED
          <5>1. Len(stream) + 1 \in 1..Len(stream') /\ stream'[Len(stream) + 1] = k
            BY <4>3, AppendProperties, LenProperties DEF EdgeTypeOK
          <5> QED
            BY <5>1 DEF OnStream
      <3> QED
        BY <3>3, <3>4
    <2>2. ASSUME NEW j \in Keys, Write(j) PROVE Owed'
      <3>1. /\ wire' # <<>> /\ Len(wire') = Len(wire) + 1 /\ (wire = <<>> => Head(wire') = j)
            /\ Len(wire) \in Nat /\ Len(replies) \in Nat /\ (wire # <<>> => Len(wire) > 0)
        <4>1. wire' = Append(wire, j) /\ wire \in Seq(Keys) /\ replies \in Seq({"id", "error"})
          BY <2>2 DEF Write, EdgeTypeOK
        <4> HIDE DEF EdgeInv
        <4> QED
          BY <4>1, AppendProperties, HeadTailAppend, LenProperties, EmptySeq
      <3>2. \A k \in Keys : request'[k] = "sent" => k = j
        BY <2>2 DEF Write, MutexFree, EdgeTypeOK
      <3> QED
        BY <2>2, <3>1, <3>2 DEF Write, Owed
    <2>3. ASSUME NEW j \in Keys, ReadReply(j) \/ ReplyIsLate(j) PROVE Owed'
      <3>1. \A k \in Keys : request'[k] # "sent"
        BY <2>3 DEF ReadReply, ReplyIsLate, Respond, Requests, EdgeTypeOK
      <3> QED
        BY <3>1 DEF Owed
    <2>4. ASSUME NEW j \in Keys, Deliver(j) \/ WriteFails(j) PROVE Owed'
      <3>1. /\ wire' = wire /\ replies' = replies /\ stream' = stream
            /\ \A k \in Keys : request'[k] = "sent" => request[k] = "sent"
        BY <2>4 DEF Deliver, WriteFails, Respond, connection, EdgeTypeOK
      <3> QED
        BY <3>1 DEF Owed, OnStream
    <2>5. CASE RestartEdge
      BY <2>5 DEF RestartEdge, Owed
    <2> QED
      BY <2>1, <2>2, <2>3, <2>4, <2>5 DEF EdgeNext, EdgeServes
  <1> QED
    BY <1>1, <1>2, <1>3

(* The host is told "queued" by the reader of a reply only. *)
LEMMA EdgeQueues ==
  ASSUME EdgeInv, EdgeNext
  PROVE  \A k \in Keys : InStep /\ request[k] = "sent" /\ answer'[k] = "queued"
           => request'[k] = "sent" \/ OnStream(k)
  <1> USE DEF EdgeInv
  <1>1. SUFFICES ASSUME NEW k \in Keys, InStep, request[k] = "sent", answer'[k] = "queued",
                        request'[k] # "sent"
                 PROVE  OnStream(k)
    OBVIOUS
  <1>2. ReadReply(k) /\ Head(replies) = "id"
    BY <1>1 DEF EdgeNext, EdgeServes, Execute, Write, ReadReply, Deliver, WriteFails, ReplyIsLate,
       RestartEdge, Respond, Requests, EdgeTypeOK
  <1>3. {j \in Keys : request[j] = "sent"} = {k}
    BY <1>1 DEF Requests
  <1>4. Len(wire) + Len(replies) = 1
    BY <1>1, <1>3, FS_Singleton DEF InStep
  <1>5. replies # <<>> /\ Len(replies) \in Nat \ {0} /\ Len(wire) \in Nat
    BY <1>2, EmptySeq, LenProperties DEF ReadReply, EdgeTypeOK
  <1>6. wire = <<>>
    BY <1>4, <1>5, EmptySeq DEF EdgeTypeOK
  <1> QED
    BY <1>1, <1>2, <1>4, <1>5, <1>6 DEF Owed

-----------------------------------------------------------------------------
(* The bridges' types, and what they hold. *)

(* Where a bridge is, and what it holds. *)
Places ==
  bridge \in [Bridges -> [at : {"connecting", "submit", "ack"}, batch : Seq(Nat), open : BOOLEAN]]

(* Nobody has read before the group was made. *)
Grouped == ~grouped => delivered = 0 /\ \A b \in Bridges : bridge[b].at = "connecting"

(* A bridge that acknowledges has an entry that was taken, or cannot be. *)
AtAck ==
  \A b \in Bridges : bridge[b].at = "ack" =>
    /\ bridge[b].batch # <<>>
    /\ Head(bridge[b].batch) \in taken \/ stream[Head(bridge[b].batch)] \in Poison

BridgeInv == EdgeInv /\ TypeOK /\ Places /\ Grouped /\ AtAck /\ AckedIsTaken

(* The first entry of a batch, and the others. *)
LEMMA Batches ==
  ASSUME TypeOK, Places, NEW b \in Bridges
  PROVE  /\ bridge[b].at \in {"connecting", "submit", "ack"} /\ bridge[b].batch \in Seq(Nat)
         /\ bridge[b].open \in BOOLEAN /\ Len(bridge[b].batch) \in Nat
         /\ bridge[b].batch # <<>> =>
              /\ Head(bridge[b].batch) \in 1..delivered /\ Tail(bridge[b].batch) \in Seq(Nat)
              /\ Head(bridge[b].batch) = bridge[b].batch[1]
              /\ Len(bridge[b].batch) > 0
              /\ Len(Tail(bridge[b].batch)) = Len(bridge[b].batch) - 1
              /\ \A i \in 1..Len(Tail(bridge[b].batch)) :
                   /\ Tail(bridge[b].batch)[i] = bridge[b].batch[i + 1]
                   /\ Tail(bridge[b].batch)[i] \in 1..delivered
  <1> DEFINE s == bridge[b].batch
  <1>1. bridge[b] \in [at : {"connecting", "submit", "ack"}, batch : Seq(Nat), open : BOOLEAN]
    BY DEF Places
  <1>2. s \in Seq(Nat) /\ Len(s) \in Nat
    BY <1>1, LenProperties
  <1>3. \A i \in 1..Len(s) : s[i] \in 1..delivered
    BY DEF TypeOK
  <1>4. ASSUME s # <<>>
        PROVE  /\ Len(s) > 0 /\ Tail(s) \in Seq(Nat) /\ Len(Tail(s)) = Len(s) - 1 /\ Head(s) = s[1]
               /\ \A i \in 1..Len(Tail(s)) : Tail(s)[i] = s[i + 1]
    <2> HIDE DEF s
    <2> QED
      BY <1>2, <1>4, HeadTailProperties, EmptySeq
  <1> QED
    BY <1>1, <1>2, <1>3, <1>4

(* What a read gets. *)
LEMMA BatchRead ==
  ASSUME NEW d \in Nat, NEW n \in Nat
  PROVE  /\ [i \in 1..n |-> d + i] \in Seq(Nat) /\ Len([i \in 1..n |-> d + i]) = n
         /\ n > 0 => [i \in 1..n |-> d + i] # <<>>
  BY SeqDef

(* Every step of a bridge leaves the group there once it was made. *)
LEMMA NextGrouped ==
  ASSUME Places, Grouped, BridgeNext PROVE Grouped'
  <1> USE DEF Places, Grouped, Connecting, Pumping, Becomes
  <1>1. ASSUME NEW b \in Bridges, Connect(b) PROVE Grouped'
    BY <1>1 DEF Connect
  <1>2. ASSUME NEW b \in Bridges,
               Read(b) \/ Submit(b) \/ SubmitThrows(b) \/ Ack(b) \/ AckThrows(b) \/ ConnectionCloses(b)
        PROVE  Grouped'
    BY <1>2 DEF Read, Submit, SubmitThrows, Ack, AckThrows, ConnectionCloses
  <1>3. ASSUME NEW b \in Bridges, CrashBridge(b) PROVE Grouped'
    BY <1>3 DEF CrashBridge
  <1> QED
    BY <1>1, <1>2, <1>3 DEF BridgeNext, Pump, EndJob, RetireJob

(* Every step of a bridge leaves it where one can be, with entries of the stream. *)
LEMMA BridgeTypes ==
  ASSUME IngressAssumption, TypeOK, Places, Grouped, AtAck, BridgeNext, UNCHANGED edgeVars
  PROVE  TypeOK' /\ Places'
  <1> DEFINE PlaceOK(q, d) == /\ q \in [at : {"connecting", "submit", "ack"}, batch : Seq(Nat), open : BOOLEAN]
                              /\ \A i \in 1..Len(q.batch) : q.batch[i] \in 1..d
             Counts == /\ grouped' \in BOOLEAN /\ delivered' \in 0..Len(stream) /\ delivered <= delivered'
                       /\ pending' \subseteq 1..delivered' /\ taken' \subseteq 1..delivered'
             Engine == /\ jobs' \in [Keys -> {"none", "made", "failed"}] /\ started' \in [Keys -> Nat]
                       /\ bridgeFaults' \in 0..MaxBridgeFaults
  <1>1. EdgeTypeOK' /\ stream' = stream /\ Len(stream) \in Nat
    BY LenProperties DEF TypeOK, EdgeTypeOK, edgeVars
  <1>2. \A q, d, e : PlaceOK(q, d) /\ d \in Nat /\ e \in Nat /\ d <= e => PlaceOK(q, e)
    OBVIOUS
  <1>3. \A b \in Bridges : PlaceOK(bridge[b], delivered)
    BY DEF Places, TypeOK
  <1>4. \A d : PlaceOK(Connecting, d) /\ PlaceOK(Pumping(<<>>, TRUE), d)
    BY EmptySeq DEF Connecting, Pumping
  <1>5. \A b \in Bridges, open \in BOOLEAN :
          bridge[b].batch # <<>> => /\ PlaceOK(Pumping(Tail(bridge[b].batch), open), delivered)
                                    /\ PlaceOK([bridge[b] EXCEPT !.at = "ack"], delivered)
                                    /\ PlaceOK([bridge[b] EXCEPT !.open = FALSE], delivered)
    BY Batches, <1>3 DEF Pumping
  <1>6. ASSUME NEW b \in Bridges, NEW q, bridge' = [bridge EXCEPT ![b] = q], PlaceOK(q, delivered'),
               Counts, Engine
        PROVE  TypeOK' /\ Places'
    <2>1. \A c \in Bridges : PlaceOK(bridge'[c], delivered')
      BY <1>2, <1>3, <1>6 DEF Places, TypeOK
    <2>2. bridge' \in [Bridges -> [at : {"connecting", "submit", "ack"}, batch : Seq(Nat), open : BOOLEAN]]
      BY <1>6, <2>1 DEF Places
    <2> QED
      BY <1>1, <1>6, <2>1, <2>2 DEF TypeOK, Places
  <1>7. ASSUME NEW b \in Bridges, Connect(b) PROVE TypeOK' /\ Places'
    <2>1. Counts /\ Engine
      BY <1>1, <1>7 DEF Connect, TypeOK, Grouped
    <2>2. bridge' = [bridge EXCEPT ![b] = Pumping(<<>>, TRUE)]
      BY <1>7 DEF Connect, Becomes
    <2> QED
      BY <1>4, <1>6, <2>1, <2>2
  <1>8. ASSUME NEW b \in Bridges, Read(b) PROVE TypeOK' /\ Places'
    <2> DEFINE n == IF Len(stream) - delivered < Batch THEN Len(stream) - delivered ELSE Batch
               batch == [i \in 1..n |-> delivered + i]
    <2>1. n \in Nat /\ n > 0 /\ delivered + n <= Len(stream) /\ delivered \in Nat
      BY <1>1, <1>8 DEF Read, TypeOK, IngressAssumption
    <2>2. delivered' = delivered + n /\ pending' = pending \cup (delivered + 1)..(delivered + n)
      BY <1>8 DEF Read
    <2>3. Counts /\ Engine
      <3>1. /\ grouped' = grouped /\ taken' = taken /\ jobs' = jobs /\ started' = started
            /\ bridgeFaults' = bridgeFaults \/ (bridgeFaults < MaxBridgeFaults /\ bridgeFaults' = bridgeFaults + 1)
        BY <1>8 DEF Read, Fault
      <3>2. bridgeFaults' \in 0..MaxBridgeFaults
        BY <3>1 DEF TypeOK, IngressAssumption
      <3>3. pending' \subseteq 1..delivered' /\ taken' \subseteq 1..delivered' /\ delivered' \in 0..Len(stream)
            /\ delivered <= delivered'
        <4>1. pending \subseteq 1..delivered /\ taken \subseteq 1..delivered
          BY DEF TypeOK
        <4> HIDE DEF n
        <4> QED
          BY <1>1, <2>1, <2>2, <3>1, <4>1
      <3>4. Engine
        BY <3>1, <3>2 DEF TypeOK
      <3> QED
        BY <3>1, <3>3, <3>4, Zenon DEF TypeOK
    <2>4. PlaceOK(Pumping(batch, TRUE), delivered')
      BY <2>1, <2>2, BatchRead DEF Pumping
    <2>5. PlaceOK(Connecting, delivered')
      BY EmptySeq DEF Connecting
    <2>6. bridge' = [bridge EXCEPT ![b] = Pumping(batch, TRUE)] \/ bridge' = [bridge EXCEPT ![b] = Connecting]
      BY <1>8 DEF Read, Becomes
    <2> QED
      BY <1>6, <2>3, <2>4, <2>5, <2>6
  <1>9. ASSUME NEW b \in Bridges, Submit(b) \/ SubmitThrows(b) PROVE TypeOK' /\ Places'
    <2>1. /\ bridge[b].batch # <<>> /\ Head(bridge[b].batch) \in 1..delivered
          /\ stream[Head(bridge[b].batch)] \in Keys
      <3>1. bridge[b].batch # <<>> /\ Head(bridge[b].batch) \in 1..delivered
        BY <1>9, Batches DEF Submit, SubmitThrows
      <3>2. Head(bridge[b].batch) \in 1..Len(stream) /\ stream \in Seq(Keys)
        <4>1. stream \in Seq(Keys) /\ delivered \in 0..Len(stream) /\ Len(stream) \in Nat
          BY <1>1, LenProperties DEF TypeOK, EdgeTypeOK
        <4> QED
          BY <3>1, <4>1
      <3> QED
        BY <3>1, <3>2, ElementOfSeq
    <2>2. Engine
      <3>1. (jobs' = jobs /\ started' = started) \/ Add(stream[Head(bridge[b].batch)])
        BY <1>9 DEF Submit, SubmitThrows
      <3>2. jobs' \in [Keys -> {"none", "made", "failed"}] /\ started' \in [Keys -> Nat]
        <4> DEFINE k == stream[Head(bridge[b].batch)]
        <4>1. k \in Keys
          BY <2>1
        <4>2. jobs \in [Keys -> {"none", "made", "failed"}] /\ started \in [Keys -> Nat]
          BY DEF TypeOK
        <4>3. (jobs' = jobs /\ started' = started)
              \/ (jobs' = [jobs EXCEPT ![k] = "made"] /\ started' = [started EXCEPT ![k] = started[k] + 1])
          BY <3>1 DEF Add
        <4> HIDE DEF k
        <4> QED
          BY <4>1, <4>2, <4>3
      <3>3. bridgeFaults' = bridgeFaults \/ (bridgeFaults < MaxBridgeFaults /\ bridgeFaults' = bridgeFaults + 1)
        BY <1>9 DEF Submit, SubmitThrows, Fault
      <3>4. bridgeFaults' \in 0..MaxBridgeFaults
        BY <3>3 DEF TypeOK, IngressAssumption
      <3> QED
        BY <3>2, <3>4
    <2>3. Counts
      BY <1>9, <1>1, <2>1 DEF Submit, SubmitThrows, TypeOK, Places
    <2>4. \/ bridge' = [bridge EXCEPT ![b] = [bridge[b] EXCEPT !.at = "ack"]]
          \/ bridge' = [bridge EXCEPT ![b] = Pumping(Tail(bridge[b].batch), bridge[b].open)]
      BY <1>9 DEF Submit, SubmitThrows, Becomes
    <2>5. delivered' = delivered /\ bridge[b].open \in BOOLEAN
      BY <1>9, Batches DEF Submit, SubmitThrows
    <2> QED
      BY <1>5, <1>6, <2>1, <2>2, <2>3, <2>4, <2>5
  <1>10. ASSUME NEW b \in Bridges, Ack(b) \/ AckThrows(b) \/ ConnectionCloses(b) \/ CrashBridge(b)
         PROVE  TypeOK' /\ Places'
    <2>1. Engine
      BY <1>10 DEF Ack, AckThrows, ConnectionCloses, CrashBridge, Fault, TypeOK, IngressAssumption
    <2>2. Counts
      <3>1. /\ grouped' = grouped /\ delivered' = delivered /\ taken' = taken
            /\ pending' = pending \/ pending' = pending \ {Head(bridge[b].batch)}
        BY <1>10 DEF Ack, AckThrows, ConnectionCloses, CrashBridge
      <3>2. delivered' \in 0..Len(stream) /\ delivered <= delivered'
        BY <1>1, <3>1 DEF TypeOK
      <3> QED
        BY <3>1, <3>2, Zenon DEF TypeOK
    <2>3. delivered' = delivered /\ bridge[b].open \in BOOLEAN
      BY <1>10, Batches DEF Ack, AckThrows, ConnectionCloses, CrashBridge
    <2>4. \/ bridge' = [bridge EXCEPT ![b] = Connecting]
          \/ /\ bridge[b].batch # <<>>
             /\ \/ bridge' = [bridge EXCEPT ![b] = [bridge[b] EXCEPT !.open = FALSE]]
                \/ \E open \in BOOLEAN : bridge' = [bridge EXCEPT ![b] = Pumping(Tail(bridge[b].batch), open)]
      BY <1>10, <2>3 DEF Ack, AckThrows, ConnectionCloses, CrashBridge, Becomes, AtAck
    <2> QED
      BY <1>4, <1>5, <1>6, <2>1, <2>2, <2>3, <2>4
  <1>11. ASSUME NEW k \in Keys, EndJob(k) \/ RetireJob(k) PROVE TypeOK' /\ Places'
    <2>1. jobs' \in [Keys -> {"none", "made", "failed"}]
      BY <1>11 DEF EndJob, RetireJob, TypeOK
    <2> QED
      BY <1>1, <1>11, <2>1 DEF EndJob, RetireJob, TypeOK, Places
  <1> QED
    BY <1>7, <1>8, <1>9, <1>10, <1>11 DEF BridgeNext, Pump

(* Every step keeps what the bridges hold and what they have acknowledged. *)
LEMMA NextBridgeInv ==
  ASSUME IngressAssumption, EdgeAssumption, BridgeInv, [Next]_vars PROVE BridgeInv'
  <1> USE DEF BridgeInv
  <1>1. CASE EdgeNext /\ UNCHANGED bridgeVars
    <2>1. EdgeInv'
      BY <1>1, EdgeNextInv
    <2>2. Len(stream) <= Len(stream') /\ (\A i \in 1..Len(stream) : stream'[i] = stream[i])
          /\ Len(stream) \in Nat /\ Len(stream') \in Nat
      BY <1>1, <2>1, StreamGrows, LenProperties DEF EdgeInv, EdgeTypeOK
    <2>3. TypeOK' /\ Places' /\ Grouped'
      BY <1>1, <2>1, <2>2 DEF bridgeVars, TypeOK, Places, Grouped, EdgeInv
    <2>4. \A i \in 1..delivered : stream'[i] = stream[i]
      BY <2>2 DEF TypeOK
    <2>5. AtAck'
      BY <1>1, <2>4, Batches DEF AtAck, bridgeVars
    <2>6. AckedIsTaken'
      BY <1>1, <2>4 DEF AckedIsTaken, bridgeVars
    <2> QED
      BY <2>1, <2>3, <2>5, <2>6
  <1>2. CASE BridgeNext /\ UNCHANGED edgeVars
    <2>1. TypeOK' /\ Places' /\ Grouped'
      BY <1>2, BridgeTypes, NextGrouped
    <2>2. stream' = stream /\ EdgeInv'
      BY <1>2 DEF edgeVars, EdgeInv, EdgeTypeOK, Requests, Owed, OnStream
    <2>3. ASSUME NEW b \in Bridges, Pump(b) \/ SubmitThrows(b) \/ AckThrows(b) \/ ConnectionCloses(b)
                                    \/ CrashBridge(b)
          PROVE  /\ \A c \in Bridges \ {b} : bridge'[c] = bridge[c]
                 /\ taken \subseteq taken'
                 /\ bridge'[b].at = "ack" =>
                      /\ bridge'[b].batch = bridge[b].batch /\ bridge[b].batch # <<>>
                      /\ Head(bridge[b].batch) \in taken' \/ stream[Head(bridge[b].batch)] \in Poison
      <3> USE DEF Becomes, Connecting, Pumping
      <3>1. CASE Connect(b) \/ Read(b) \/ CrashBridge(b)
        BY <3>1 DEF Connect, Read, CrashBridge, Places
      <3>2. CASE Submit(b)
        BY <3>2 DEF Submit, Places
      <3>3. CASE SubmitThrows(b) \/ Ack(b) \/ AckThrows(b)
        BY <3>3 DEF SubmitThrows, Ack, AckThrows, Places
      <3>4. CASE ConnectionCloses(b)
        BY <3>4 DEF ConnectionCloses, Places
      <3> QED
        BY <2>3, <3>1, <3>2, <3>3, <3>4 DEF Pump
    <2>4. CASE \E k \in Keys : EndJob(k) \/ RetireJob(k)
      BY <2>1, <2>2, <2>4 DEF EndJob, RetireJob, AtAck, AckedIsTaken
    <2>5. ASSUME NEW b \in Bridges, Pump(b) \/ SubmitThrows(b) \/ AckThrows(b) \/ ConnectionCloses(b)
                                    \/ CrashBridge(b)
          PROVE  AtAck' /\ AckedIsTaken'
      <3>1. AtAck'
        BY <2>2, <2>3, <2>5 DEF AtAck
      <3>2. \A i \in 1..delivered' :
              i \in pending' \/ (i \in 1..delivered /\ i \in pending /\ bridge[b].at = "ack" /\ i = Head(bridge[b].batch))
              \/ (i \in 1..delivered /\ i \notin pending)
        <4>1. CASE Connect(b)
          BY <4>1 DEF Connect, Places, TypeOK
        <4>2. CASE Read(b)
          <5>1. \E n \in Nat : delivered' = delivered + n
                               /\ pending' = pending \cup (delivered + 1)..(delivered + n)
            <6>1. Len(stream) \in Nat
              BY LenProperties DEF TypeOK, EdgeTypeOK
            <6>2. Len(stream) - delivered \in Nat
              BY <6>1 DEF TypeOK
            <6> QED
              BY <4>2, <6>2 DEF Read, IngressAssumption
          <5> QED
            BY <5>1 DEF TypeOK
        <4>3. CASE Submit(b) \/ SubmitThrows(b) \/ ConnectionCloses(b) \/ CrashBridge(b)
          BY <4>3 DEF Submit, SubmitThrows, ConnectionCloses, CrashBridge
        <4>4. CASE Ack(b) \/ AckThrows(b)
          BY <4>4 DEF Ack, AckThrows
        <4> QED
          BY <2>5, <4>1, <4>2, <4>3, <4>4 DEF Pump
      <3>3. AckedIsTaken'
        BY <2>2, <2>3, <2>5, <3>2 DEF AckedIsTaken, AtAck
      <3> QED
        BY <3>1, <3>3
    <2> QED
      BY <1>2, <2>1, <2>2, <2>4, <2>5 DEF BridgeNext
  <1>3. CASE UNCHANGED vars
    <2>1. UNCHANGED edgeVars /\ UNCHANGED bridgeVars
      BY <1>3 DEF vars
    <2>2. EdgeTypeOK'
      BY <2>1 DEF edgeVars, EdgeInv, EdgeTypeOK
    <2>3. Requests' /\ Owed'
      BY <2>1 DEF edgeVars, EdgeInv, Requests, Owed, OnStream
    <2>4. TypeOK' /\ Places' /\ Grouped'
      BY <2>1, <2>2 DEF edgeVars, bridgeVars, TypeOK, Places, Grouped
    <2>5. AtAck' /\ AckedIsTaken'
      BY <2>1 DEF edgeVars, bridgeVars, AtAck, AckedIsTaken
    <2> QED
      BY <2>2, <2>3, <2>4, <2>5 DEF EdgeInv
  <1> QED
    BY <1>1, <1>2, <1>3 DEF Next

-----------------------------------------------------------------------------
(* How often a key is in a sequence. *)

Occurs(s, k) == {i \in 1..Len(s) : s[i] = k}
Count(s, k) == Cardinality(Occurs(s, k))

(* The places are finitely many. *)
LEMMA OccursFinite ==
  ASSUME NEW S, NEW s \in Seq(S), NEW k
  PROVE  IsFiniteSet(Occurs(s, k)) /\ Count(s, k) \in Nat
  <1>1. IsFiniteSet(1..Len(s))
    BY FS_Interval, LenProperties
  <1> QED
    BY <1>1, FS_Subset, FS_CardinalityType DEF Occurs, Count

(* A sequence that goes on longer has the key no less often. *)
LEMMA CountPrefix ==
  ASSUME NEW S, NEW s \in Seq(S), NEW t \in Seq(S), NEW k,
         Len(s) <= Len(t), \A i \in 1..Len(s) : t[i] = s[i]
  PROVE  Count(s, k) <= Count(t, k)
  <1>1. Occurs(s, k) \subseteq Occurs(t, k)
    BY LenProperties DEF Occurs
  <1> QED
    BY <1>1, OccursFinite, FS_Subset DEF Count

(* One more element is one more of its key. *)
LEMMA CountAppend ==
  ASSUME NEW S, NEW s \in Seq(S), NEW e \in S, NEW k
  PROVE  Count(Append(s, e), k) = Count(s, k) + IF e = k THEN 1 ELSE 0
  <1>1. Occurs(Append(s, e), k) = IF e = k THEN Occurs(s, k) \cup {Len(s) + 1} ELSE Occurs(s, k)
    BY AppendProperties, LenProperties DEF Occurs
  <1>2. Len(s) + 1 \notin Occurs(s, k)
    BY LenProperties DEF Occurs
  <1>3. IsFiniteSet(Occurs(s, k)) /\ Cardinality(Occurs(s, k)) \in Nat
    BY OccursFinite DEF Count
  <1>4. Cardinality(Occurs(s, k) \cup {Len(s) + 1}) = Cardinality(Occurs(s, k)) + 1
    BY <1>2, <1>3, FS_AddElement
  <1> QED
    BY <1>1, <1>3, <1>4 DEF Count

(* One element less is never one more of a key. *)
LEMMA CountDrop ==
  ASSUME NEW S, NEW s \in Seq(S), NEW t \in Seq(S), NEW k, NEW m \in Nat,
         Len(t) = Len(s) - 1,
         \A i \in 1..Len(t) : t[i] = IF i <= m THEN s[i] ELSE s[i + 1]
  PROVE  Count(t, k) <= Count(s, k)
  <1> DEFINE f == [i \in Occurs(t, k) |-> IF i <= m THEN i ELSE i + 1]
  <1>1. f \in Injection(Occurs(t, k), Occurs(s, k))
    <2>1. Len(s) \in Nat /\ Len(t) \in Nat
      BY LenProperties
    <2>2. \A i \in Occurs(t, k) : i \in 1..Len(t) /\ t[i] = k /\ i \in Nat
      BY <2>1 DEF Occurs
    <2>3. ASSUME NEW i \in Occurs(t, k) PROVE f[i] \in Occurs(s, k)
      <3>1. t[i] = IF i <= m THEN s[i] ELSE s[i + 1]
        BY <2>2
      <3>2. i \in 1..Len(s) /\ i + 1 \in 1..Len(s)
        BY <2>1, <2>2
      <3> QED
        BY <2>2, <3>1, <3>2 DEF Occurs
    <2>4. ASSUME NEW i \in Occurs(t, k), NEW j \in Occurs(t, k), f[i] = f[j] PROVE i = j
      BY <2>2, <2>4
    <2> QED
      BY <2>3, <2>4 DEF Injection, IsInjective
  <1> QED
    BY <1>1, OccursFinite, FS_Injection DEF Count

(* Two sequences, one after the other. *)
LEMMA Joined ==
  ASSUME NEW S, NEW s \in Seq(S), NEW t \in Seq(S)
  PROVE  /\ s \o t \in Seq(S) /\ Len(s) \in Nat /\ Len(t) \in Nat /\ Len(s \o t) = Len(s) + Len(t)
         /\ \A i \in 1..Len(s \o t) : (s \o t)[i] = IF i <= Len(s) THEN s[i] ELSE t[i - Len(s)]
  BY ConcatProperties, LenProperties

(* A key is on the stream or the wire, or about to be, once for each window *)
(* it was in.                                                              *)
Window ==
  \A k \in Keys :
    Count(stream \o wire, k) + (IF request[k] = "enqueue" THEN 1 ELSE 0)
      <= restarts + IF k \in seen THEN 1 ELSE 0

(* Every step of the edge keeps a key to one job a window. *)
LEMMA NextWindow ==
  ASSUME EdgeInv, Window, EdgeNext PROVE Window'
  <1> DEFINE s == stream \o wire
  <1>1. /\ EdgeTypeOK /\ stream \in Seq(Keys) /\ wire \in Seq(Keys) /\ Len(stream) \in Nat /\ Len(wire) \in Nat
        /\ s \in Seq(Keys) /\ Len(s) = Len(stream) + Len(wire)
        /\ \A i \in 1..Len(s) : s[i] = IF i <= Len(stream) THEN stream[i] ELSE wire[i - Len(stream)]
    BY ConcatProperties, LenProperties DEF EdgeInv, EdgeTypeOK
  <1>2. \A k \in Keys : Count(s, k) \in Nat /\ restarts \in Nat
    <2>1. restarts \in Nat
      BY <1>1 DEF EdgeTypeOK
    <2> HIDE DEF s
    <2> QED
      BY <1>1, <2>1, OccursFinite
  <1>3. CASE Execute
    <2>1. /\ Head(wire) \in Keys /\ Head(wire) = wire[1] /\ Tail(wire) \in Seq(Keys)
          /\ Len(Tail(wire)) = Len(wire) - 1 /\ Len(wire) > 0
          /\ \A i \in 1..Len(Tail(wire)) : Tail(wire)[i] = wire[i + 1]
      BY <1>1, <1>3, HeadTailProperties, EmptySeq DEF Execute
    <2>2. /\ request' = request /\ seen' = seen /\ restarts' = restarts /\ wire' = Tail(wire)
          /\ stream' = stream \/ stream' = Append(stream, Head(wire))
      BY <1>3 DEF Execute
    <2>3. ASSUME NEW k \in Keys PROVE Count(stream' \o wire', k) <= Count(s, k)
      <3>1. CASE stream' = stream
        <4> DEFINE t == stream \o Tail(wire)
        <4>1. /\ t \in Seq(Keys) /\ Len(t) = Len(s) - 1
              /\ \A i \in 1..Len(t) : t[i] = IF i <= Len(stream) THEN stream[i] ELSE Tail(wire)[i - Len(stream)]
          BY <1>1, <2>1, ConcatProperties
        <4>2. \A i \in 1..Len(t) : t[i] = IF i <= Len(stream) THEN s[i] ELSE s[i + 1]
          <5> HIDE DEF s, t
          <5>1. ASSUME NEW i \in 1..Len(t), i > Len(stream) PROVE t[i] = s[i + 1]
            <6>1. i - Len(stream) \in 1..Len(Tail(wire)) /\ t[i] = Tail(wire)[i - Len(stream)]
              BY <1>1, <2>1, <4>1, <5>1
            <6>2. t[i] = wire[i - Len(stream) + 1]
              BY <2>1, <6>1
            <6>3. s[i + 1] = wire[i + 1 - Len(stream)]
              BY <1>1, <2>1, <4>1, <5>1
            <6> QED
              BY <1>1, <5>1, <6>2, <6>3
          <5>2. ASSUME NEW i \in 1..Len(t), i <= Len(stream) PROVE t[i] = s[i]
            <6>1. i \in 1..Len(s)
              BY <1>1, <4>1, <5>2
            <6> QED
              BY <1>1, <4>1, <5>2, <6>1
          <5> QED
            BY <1>1, <4>1, <5>1, <5>2
        <4> HIDE DEF s, t
        <4>3. Count(t, k) <= Count(s, k)
          BY <1>1, <4>1, <4>2, CountDrop
        <4> QED
          BY <2>2, <3>1, <4>3 DEF t
      <3>2. CASE stream' = Append(stream, Head(wire))
        <4> DEFINE a == Append(stream, Head(wire))
                   t == a \o Tail(wire)
        <4>1. /\ a \in Seq(Keys) /\ Len(a) = Len(stream) + 1 /\ a[Len(stream) + 1] = wire[1]
              /\ \A i \in 1..Len(stream) : a[i] = stream[i]
          BY <1>1, <2>1, AppendProperties
        <4> HIDE DEF a
        <4>2. /\ t \in Seq(Keys) /\ Len(t) = Len(s)
              /\ \A i \in 1..Len(t) : t[i] = IF i <= Len(a) THEN a[i] ELSE Tail(wire)[i - Len(a)]
          <5>1. a \in Seq(Keys) /\ Tail(wire) \in Seq(Keys)
            BY <2>1, <4>1
          <5>2. /\ t \in Seq(Keys) /\ Len(t) = Len(a) + Len(Tail(wire))
                /\ \A i \in 1..Len(t) : t[i] = IF i <= Len(a) THEN a[i] ELSE Tail(wire)[i - Len(a)]
            BY <5>1, Joined
          <5> HIDE DEF t, s
          <5> QED
            BY <1>1, <2>1, <4>1, <5>2
        <4>3. ASSUME NEW i \in 1..Len(t) PROVE s[i] = t[i]
          <5> HIDE DEF s, t
          <5>0. /\ i \in 1..Len(s) /\ Len(stream) \in Nat /\ Len(a) = Len(stream) + 1
                /\ t[i] = IF i <= Len(a) THEN a[i] ELSE Tail(wire)[i - Len(a)]
                /\ s[i] = IF i <= Len(stream) THEN stream[i] ELSE wire[i - Len(stream)]
            BY <1>1, <4>1, <4>2
          <5>1. CASE i <= Len(stream)
            <6>1. a[i] = stream[i]
              BY <4>1, <5>0, <5>1
            <6> QED
              BY <5>0, <5>1, <6>1
          <5>2. CASE i = Len(stream) + 1
            <6>1. a[i] = wire[1] /\ i - Len(stream) = 1
              BY <4>1, <5>0, <5>2
            <6> QED
              BY <5>0, <5>2, <6>1
          <5>3. CASE i > Len(stream) + 1
            <6>1. i - Len(a) \in 1..Len(Tail(wire)) /\ t[i] = Tail(wire)[i - Len(a)]
              BY <1>1, <2>1, <4>1, <4>2, <5>3
            <6>2. t[i] = wire[i - Len(a) + 1] /\ i - Len(a) + 1 = i - Len(stream)
              BY <1>1, <2>1, <4>1, <6>1
            <6>3. ~(i <= Len(stream)) /\ s[i] = wire[i - Len(stream)]
              BY <5>0, <5>3
            <6> QED
              BY <6>1, <6>2, <6>3
          <5> QED
            BY <1>1, <5>1, <5>2, <5>3
        <4> HIDE DEF s, t
        <4>4. Count(t, k) <= Count(s, k)
          <5>1. s \in Seq(Keys) /\ t \in Seq(Keys) /\ Len(t) <= Len(s)
            BY <1>1, <4>2
          <5> QED
            BY <4>3, <5>1, CountPrefix
        <4> QED
          BY <2>2, <3>2, <4>4 DEF t, a
      <3> QED
        BY <2>2, <3>1, <3>2
    <2>4. \A k \in Keys : Count(stream' \o wire', k) \in Nat
      <3>1. Append(stream, Head(wire)) \in Seq(Keys)
        BY <1>1, <2>1, AppendProperties
      <3>2. stream' \in Seq(Keys)
        BY <1>1, <2>2, <3>1
      <3> QED
        BY <2>1, <2>2, <3>2, OccursFinite, ConcatProperties
    <2> QED
      BY <1>2, <2>2, <2>3, <2>4 DEF Window
  <1>4. ASSUME NEW j \in Keys, Write(j) PROVE Window'
    <2> DEFINE t == stream \o Append(wire, j)
    <2>1. /\ Append(wire, j) \in Seq(Keys) /\ Append(s, j) \in Seq(Keys)
          /\ Len(Append(wire, j)) = Len(wire) + 1 /\ Len(Append(s, j)) = Len(s) + 1
          /\ Append(wire, j)[Len(wire) + 1] = j /\ Append(s, j)[Len(s) + 1] = j
          /\ \A i \in 1..Len(wire) : Append(wire, j)[i] = wire[i]
          /\ \A i \in 1..Len(s) : Append(s, j)[i] = s[i]
      BY <1>1, AppendProperties
    <2>2. /\ t \in Seq(Keys) /\ Len(t) = Len(s) + 1
          /\ \A i \in 1..Len(t) : t[i] = IF i <= Len(stream) THEN stream[i] ELSE Append(wire, j)[i - Len(stream)]
      <3> DEFINE w == Append(wire, j)
      <3>1. stream \in Seq(Keys) /\ w \in Seq(Keys)
        BY <1>1, <2>1
      <3> HIDE DEF w
      <3>2. /\ stream \o w \in Seq(Keys) /\ Len(stream \o w) = Len(stream) + Len(w)
            /\ \A i \in 1..Len(stream \o w) :
                 (stream \o w)[i] = IF i <= Len(stream) THEN stream[i] ELSE w[i - Len(stream)]
        BY <3>1, Joined
      <3>3. Len(w) = Len(wire) + 1 /\ t = stream \o w
        BY <2>1 DEF w
      <3> HIDE DEF t, s
      <3> QED
        BY <1>1, <3>2, <3>3 DEF w
    <2>3. ASSUME NEW i \in 1..Len(t) PROVE Append(s, j)[i] = t[i]
      <3> HIDE DEF s, t
      <3>1. CASE i <= Len(stream)
        BY <1>1, <2>1, <2>2, <3>1
      <3>2. CASE i > Len(stream) /\ i <= Len(s)
        <4>1. i - Len(stream) \in 1..Len(wire) /\ i - Len(stream) \in Int
          BY <1>1, <2>2, <3>2
        <4> QED
          BY <1>1, <2>1, <2>2, <3>2, <4>1
      <3>3. CASE i = Len(s) + 1
        BY <1>1, <2>1, <2>2, <3>3
      <3> QED
        BY <1>1, <2>2, <3>1, <3>2, <3>3
    <2>4. ASSUME NEW k \in Keys PROVE Count(t, k) \in Nat /\ Count(t, k) <= Count(s, k) + IF j = k THEN 1 ELSE 0
      <3> HIDE DEF s, t
      <3>1. Count(t, k) <= Count(Append(s, j), k) /\ Count(t, k) \in Nat
        <4>1. Append(s, j) \in Seq(Keys) /\ t \in Seq(Keys) /\ Len(t) <= Len(Append(s, j))
          BY <1>1, <2>1, <2>2
        <4> QED
          BY <2>3, <4>1, CountPrefix, OccursFinite
      <3> QED
        BY <1>1, <3>1, CountAppend
    <2>5. /\ stream' = stream /\ wire' = Append(wire, j) /\ seen' = seen /\ restarts' = restarts
          /\ request[j] = "enqueue" /\ request'[j] = "sent" /\ \A k \in Keys \ {j} : request'[k] = request[k]
      BY <1>1, <1>4 DEF Write, EdgeTypeOK
    <2>6. ASSUME NEW k \in Keys
          PROVE  Count(t, k) + (IF request'[k] = "enqueue" THEN 1 ELSE 0) <= restarts + IF k \in seen THEN 1 ELSE 0
      <3>1. Count(s, k) + (IF request[k] = "enqueue" THEN 1 ELSE 0) <= restarts + IF k \in seen THEN 1 ELSE 0
        BY DEF Window
      <3>2. /\ Count(s, k) \in Nat /\ Count(t, k) \in Nat
            /\ Count(t, k) <= Count(s, k) + IF j = k THEN 1 ELSE 0
        BY <1>2, <2>4
      <3>3. /\ j = k => request[k] = "enqueue" /\ request'[k] # "enqueue"
            /\ j # k => request'[k] = request[k]
        BY <2>5
      <3> HIDE DEF s, t
      <3> QED
        BY <1>2, <3>1, <3>2, <3>3
    <2> QED
      BY <2>5, <2>6 DEF Window
  <1>5. ASSUME NEW j \in Keys, ReadReply(j) \/ WriteFails(j) \/ ReplyIsLate(j) PROVE Window'
    <2>1. /\ stream' = stream /\ wire' = wire /\ seen' = seen /\ restarts' = restarts
          /\ \A k \in Keys : request'[k] = "enqueue" => request[k] = "enqueue"
      BY <1>1, <1>5 DEF ReadReply, WriteFails, ReplyIsLate, Respond, connection, EdgeTypeOK
    <2> QED
      BY <1>2, <2>1 DEF Window
  <1>6. ASSUME NEW j \in Keys, Deliver(j) PROVE Window'
    <2>1. /\ stream' = stream /\ wire' = wire /\ seen' = seen \cup {j} /\ restarts' = restarts
          /\ \A k \in Keys : request'[k] = "enqueue" => request[k] = "enqueue" \/ (k = j /\ j \notin seen)
      BY <1>1, <1>6 DEF Deliver, connection, EdgeTypeOK
    <2>2. ASSUME NEW k \in Keys
          PROVE  Count(s, k) + (IF request'[k] = "enqueue" THEN 1 ELSE 0)
                   <= restarts + IF k \in seen' THEN 1 ELSE 0
      <3>1. Count(s, k) + (IF request[k] = "enqueue" THEN 1 ELSE 0) <= restarts + IF k \in seen THEN 1 ELSE 0
        BY DEF Window
      <3> HIDE DEF s
      <3> QED
        BY <1>2, <2>1, <3>1
    <2> QED
      BY <2>1, <2>2 DEF Window
  <1>7. CASE RestartEdge
    <2>1. PICK n \in 0..Len(wire) : stream' = stream \o SubSeq(wire, 1, n)
      BY <1>7 DEF RestartEdge
    <2> DEFINE w == SubSeq(wire, 1, n)
               t == stream \o w
    <2>2. w \in Seq(Keys) /\ Len(w) = n /\ \A i \in 1..n : w[i] = wire[i]
      BY <1>1, SubSeqProperties, ElementOfSeq
    <2> HIDE DEF w
    <2>3. /\ t \in Seq(Keys) /\ Len(t) = Len(stream) + n /\ t \o <<>> = t
          /\ \A i \in 1..Len(t) : t[i] = IF i <= Len(stream) THEN stream[i] ELSE w[i - Len(stream)]
      <3>1. stream \in Seq(Keys) /\ w \in Seq(Keys)
        BY <1>1, <2>2
      <3>2. /\ t \in Seq(Keys) /\ Len(t) = Len(stream) + Len(w)
            /\ \A i \in 1..Len(t) : t[i] = IF i <= Len(stream) THEN stream[i] ELSE w[i - Len(stream)]
        BY <3>1, Joined
      <3> HIDE DEF t
      <3>3. t \o <<>> = t
        BY <3>2, ConcatEmptySeq
      <3> QED
        BY <2>2, <3>2, <3>3
    <2>4. ASSUME NEW i \in 1..Len(t) PROVE s[i] = t[i]
      <3> HIDE DEF s, t
      <3>1. CASE i <= Len(stream)
        <4>1. i \in 1..Len(s)
          BY <1>1, <2>3, <3>1
        <4> QED
          BY <1>1, <2>3, <3>1, <4>1
      <3>2. CASE i > Len(stream)
        <4>1. i - Len(stream) \in 1..n /\ i \in 1..Len(s)
          BY <1>1, <2>3, <3>2
        <4>2. s[i] = wire[i - Len(stream)] /\ t[i] = w[i - Len(stream)]
          BY <1>1, <2>3, <3>2, <4>1
        <4> QED
          BY <2>2, <4>1, <4>2
      <3> QED
        BY <1>1, <2>3, <3>1, <3>2
    <2>5. ASSUME NEW k \in Keys PROVE Count(t, k) <= Count(s, k) /\ Count(t, k) \in Nat
      <3> HIDE DEF s, t
      <3>1. Count(t, k) \in Nat
        BY <2>3, OccursFinite
      <3>2. Len(t) <= Len(s)
        BY <1>1, <2>3
      <3>3. Count(t, k) <= Count(s, k)
        BY <1>1, <2>3, <2>4, <3>2, CountPrefix
      <3> QED
        BY <3>1, <3>3
    <2>6. stream' \o wire' = t /\ seen' = {} /\ restarts' = restarts + 1 /\ \A k \in Keys : request'[k] = "none"
      BY <1>7, <2>1, <2>3 DEF RestartEdge, w
    <2>7. ASSUME NEW k \in Keys PROVE Count(t, k) <= restarts + 1
      <3>1. Count(s, k) + (IF request[k] = "enqueue" THEN 1 ELSE 0) <= restarts + IF k \in seen THEN 1 ELSE 0
        BY DEF Window
      <3> HIDE DEF s, t
      <3> QED
        BY <1>2, <2>5, <3>1
    <2> HIDE DEF t
    <2> QED
      BY <1>2, <2>5, <2>6, <2>7 DEF Window
  <1> QED
    BY <1>3, <1>4, <1>5, <1>6, <1>7 DEF EdgeNext, EdgeServes

-----------------------------------------------------------------------------
(* An entry is submitted once. *)

(* The entries a bridge has read and not submitted, and those nobody will submit again. *)
Waits(b) == {bridge[b].batch[p] : p \in {q \in 1..Len(bridge[b].batch) : q # 1 \/ bridge[b].at = "submit"}}
Tried == {i \in 1..delivered : \A b \in Bridges : i \notin Waits(b)}

(* No entry is held twice. *)
Distinct ==
  \A b, c \in Bridges : \A p \in 1..Len(bridge[b].batch), q \in 1..Len(bridge[c].batch) :
    bridge[b].batch[p] = bridge[c].batch[q] => b = c /\ p = q

(* A job is made of an entry that is tried, once. *)
Started == \A k \in Keys : started[k] <= Cardinality({i \in Tried : stream[i] = k})

IngressInv == BridgeInv /\ Window /\ Distinct /\ Started

(* What a step of a bridge does to its batch. *)
LEMMA BatchSteps ==
  ASSUME IngressAssumption, BridgeInv, NEW b \in Bridges, stream' = stream,
         Pump(b) \/ SubmitThrows(b) \/ AckThrows(b) \/ ConnectionCloses(b) \/ CrashBridge(b)
  PROVE  /\ \A c \in Bridges \ {b} : bridge'[c] = bridge[c]
         /\ \/ bridge'[b].batch = <<>> /\ started' = started
            \/ /\ \A p \in 1..Len(bridge'[b].batch) : bridge'[b].batch[p] = delivered + p
               /\ started' = started
            \/ bridge'[b] = [bridge[b] EXCEPT !.open = FALSE] /\ started' = started
            \/ /\ bridge[b].at = "submit" /\ bridge[b].batch # <<>>
               /\ bridge'[b] = [bridge[b] EXCEPT !.at = "ack"]
               /\ started' = started \/ started' = [started EXCEPT ![stream[Head(bridge[b].batch)]] = @ + 1]
            \/ /\ bridge[b].batch # <<>>
               /\ bridge'[b].batch = Tail(bridge[b].batch) /\ bridge'[b].at = "submit"
               /\ \/ started' = started
                  \/ /\ bridge[b].at = "submit"
                     /\ started' = [started EXCEPT ![stream[Head(bridge[b].batch)]] = @ + 1]
  <1> USE DEF BridgeInv, Places, Becomes, Connecting, Pumping
  <1>1. CASE Connect(b) \/ CrashBridge(b)
    BY <1>1 DEF Connect, CrashBridge
  <1>2. CASE Read(b)
    <2> DEFINE n == IF Len(stream) - delivered < Batch THEN Len(stream) - delivered ELSE Batch
               batch == [i \in 1..n |-> delivered + i]
    <2>1. n \in Nat /\ delivered \in Nat
      <3>1. Len(stream) - delivered \in Int
        BY LenProperties DEF TypeOK, EdgeTypeOK
      <3> QED
        BY <1>2, <3>1, LenProperties DEF Read, TypeOK, EdgeTypeOK, IngressAssumption
    <2>2. \A p \in 1..Len(batch) : batch[p] = delivered + p
      <3> HIDE DEF n
      <3> QED
        BY <2>1, BatchRead
    <2>3. bridge'[b].batch = batch \/ bridge'[b].batch = <<>>
      <3>1. bridge' = [bridge EXCEPT ![b] = Pumping(batch, TRUE)] \/ bridge' = [bridge EXCEPT ![b] = Connecting]
        BY <1>2 DEF Read
      <3> HIDE DEF batch
      <3> QED
        BY <3>1
    <2>4. started' = started /\ \E q : bridge' = [bridge EXCEPT ![b] = q]
      BY <1>2, Zenon DEF Read
    <2> HIDE DEF batch
    <2>5. \A c \in Bridges \ {b} : bridge'[c] = bridge[c]
      BY <2>4
    <2> QED
      BY <2>2, <2>3, <2>4, <2>5
  <1>3. CASE Submit(b)
    BY <1>3 DEF Submit, Add
  <1>4. CASE SubmitThrows(b)
    BY <1>4 DEF SubmitThrows, Add
  <1>5. CASE Ack(b) \/ AckThrows(b)
    <2>1. bridge[b].batch # <<>>
      BY <1>5 DEF Ack, AckThrows, AtAck
    <2>2. CASE bridge' = [bridge EXCEPT ![b] = Connecting] /\ started' = started
      BY <2>2
    <2>3. CASE /\ \E open : bridge' = [bridge EXCEPT ![b] = Pumping(Tail(bridge[b].batch), open)]
               /\ started' = started
      BY <2>1, <2>3
    <2> QED
      BY <1>5, <2>2, <2>3 DEF Ack, AckThrows
  <1>6. CASE ConnectionCloses(b)
    BY <1>6 DEF ConnectionCloses
  <1> QED
    BY <1>1, <1>2, <1>3, <1>4, <1>5, <1>6 DEF Pump

(* A step of a bridge keeps the batches apart, and gives no entry back to wait. *)
LEMMA BatchesApart ==
  ASSUME IngressAssumption, BridgeInv, BridgeInv', Distinct, NEW b \in Bridges, stream' = stream,
         delivered <= delivered',
         Pump(b) \/ SubmitThrows(b) \/ AckThrows(b) \/ ConnectionCloses(b) \/ CrashBridge(b)
  PROVE  Distinct' /\ Tried \subseteq Tried'
  <1> DEFINE s == bridge[b].batch
             t == bridge'[b].batch
  <1>1. /\ \A c \in Bridges \ {b} : bridge'[c] = bridge[c]
        /\ delivered \in Nat /\ delivered' \in Nat
        /\ \A c \in Bridges : /\ Len(bridge[c].batch) \in Nat /\ Len(bridge'[c].batch) \in Nat
                              /\ \A q \in 1..Len(bridge[c].batch) : bridge[c].batch[q] \in 1..delivered
    <2>1. stream \in Seq(Keys) /\ stream' \in Seq(Keys)
      BY DEF BridgeInv, TypeOK, EdgeTypeOK
    <2>2. \A c \in Bridges : bridge[c].batch \in Seq(Nat) /\ bridge'[c].batch \in Seq(Nat)
      BY DEF BridgeInv, Places
    <2>3. delivered \in 0..Len(stream) /\ delivered' \in 0..Len(stream')
      BY DEF BridgeInv, TypeOK
    <2>4. delivered \in Nat /\ delivered' \in Nat
      BY <2>1, <2>3, LenProperties
    <2>5. \A c \in Bridges : Len(bridge[c].batch) \in Nat /\ Len(bridge'[c].batch) \in Nat
      BY <2>2, LenProperties
    <2>6. \A c \in Bridges : \A q \in 1..Len(bridge[c].batch) : bridge[c].batch[q] \in 1..delivered
      BY DEF BridgeInv, TypeOK
    <2>7. \A c \in Bridges \ {b} : bridge'[c] = bridge[c]
      BY BatchSteps
    <2> QED
      BY <2>4, <2>5, <2>6, <2>7
  <1>2. \/ \A p \in 1..Len(t) : t[p] = delivered + p
        \/ \E e \in {0, 1} : /\ Len(t) = Len(s) - e /\ \A p \in 1..Len(t) : t[p] = s[p + e]
                             /\ bridge'[b].at = "submit" => e = 1 \/ bridge[b].at = "submit"
    <2>1. s \in Seq(Nat) /\ t \in Seq(Nat) /\ bridge[b].at \in {"connecting", "submit", "ack"}
          /\ bridge[b] = [at |-> bridge[b].at, batch |-> s, open |-> bridge[b].open]
      BY DEF BridgeInv, Places
    <2>2. CASE t = <<>>
      BY <2>2, EmptySeq
    <2>3. CASE bridge'[b] = [bridge[b] EXCEPT !.open = FALSE]
      <3>1. t = s /\ bridge'[b].at = bridge[b].at
        BY <2>1, <2>3
      <3> QED
        BY <1>1, <3>1
    <2>4. CASE bridge[b].at = "submit" /\ bridge'[b] = [bridge[b] EXCEPT !.at = "ack"]
      <3>1. t = s /\ bridge'[b].at = "ack"
        BY <2>1, <2>4
      <3> QED
        BY <1>1, <3>1
    <2>5. CASE s # <<>> /\ t = Tail(s)
      <3> HIDE DEF s, t
      <3>1. Len(t) = Len(s) - 1 /\ \A p \in 1..Len(t) : t[p] = s[p + 1]
        BY <2>1, <2>5, HeadTailProperties
      <3> QED
        BY <3>1
    <2> QED
      BY BatchSteps, <2>2, <2>3, <2>4, <2>5
  <1>3. Distinct'
    <2>1. ASSUME NEW p \in 1..Len(t), NEW q \in 1..Len(t), t[p] = t[q] PROVE p = q
      <3>1. CASE \A r \in 1..Len(t) : t[r] = delivered + r
        BY <1>1, <2>1, <3>1
      <3>2. ASSUME NEW e \in {0, 1}, Len(t) = Len(s) - e, \A r \in 1..Len(t) : t[r] = s[r + e]
            PROVE  p = q
        <4>1. p + e \in 1..Len(s) /\ q + e \in 1..Len(s) /\ s[p + e] = s[q + e]
          <5>1. Len(s) \in Nat /\ Len(t) \in Nat
            BY <1>1
          <5> HIDE DEF s, t
          <5>2. t[p] = s[p + e] /\ t[q] = s[q + e]
            BY <3>2
          <5>3. p + e \in 1..Len(s) /\ q + e \in 1..Len(s)
            BY <3>2, <5>1
          <5> QED
            BY <2>1, <5>2, <5>3
        <4>2. p + e = q + e
          BY <4>1 DEF Distinct
        <4> QED
          BY <1>1, <4>2
      <3> QED
        BY <1>2, <3>1, <3>2
    <2>2. ASSUME NEW c \in Bridges \ {b}, NEW p \in 1..Len(t), NEW q \in 1..Len(bridge[c].batch)
          PROVE  t[p] # bridge[c].batch[q]
      <3>1. CASE \A r \in 1..Len(t) : t[r] = delivered + r
        <4>1. bridge[c].batch[q] \in 1..delivered /\ p \in Nat \ {0} /\ t[p] = delivered + p
          BY <1>1, <2>2, <3>1
        <4> QED
          BY <1>1, <4>1
      <3>2. ASSUME NEW e \in {0, 1}, Len(t) = Len(s) - e, \A r \in 1..Len(t) : t[r] = s[r + e]
            PROVE  t[p] # bridge[c].batch[q]
        <4>1. p + e \in 1..Len(s) /\ t[p] = s[p + e]
          <5>1. Len(s) \in Nat /\ Len(t) \in Nat
            BY <1>1
          <5> HIDE DEF s, t
          <5> QED
            BY <2>2, <3>2, <5>1
        <4>2. \A r \in 1..Len(s) : s[r] # bridge[c].batch[q]
          BY <2>2 DEF Distinct
        <4> QED
          BY <4>1, <4>2
      <3> QED
        BY <1>2, <3>1, <3>2
    <2>3. SUFFICES ASSUME NEW c \in Bridges, NEW d \in Bridges,
                          NEW p \in 1..Len(bridge'[c].batch), NEW q \in 1..Len(bridge'[d].batch),
                          bridge'[c].batch[p] = bridge'[d].batch[q]
                   PROVE  c = d /\ p = q
      BY DEF Distinct
    <2>4. CASE c # b /\ d # b
      <3>1. bridge'[c] = bridge[c] /\ bridge'[d] = bridge[d]
        BY <1>1, <2>4
      <3> QED
        BY <2>3, <3>1 DEF Distinct
    <2>5. CASE c = b /\ d = b
      BY <2>1, <2>3, <2>5
    <2>6. CASE c = b /\ d # b
      BY <1>1, <2>2, <2>3, <2>6
    <2>7. CASE c # b /\ d = b
      BY <1>1, <2>2, <2>3, <2>7
    <2> QED
      BY <2>4, <2>5, <2>6, <2>7
  <1>4. ASSUME NEW i \in 1..delivered, i \in Waits(b)' PROVE i \in Waits(b)
    <2>1. PICK p \in 1..Len(t) : t[p] = i /\ (p # 1 \/ bridge'[b].at = "submit")
      BY <1>4 DEF Waits
    <2>2. PICK e \in {0, 1} : /\ Len(t) = Len(s) - e /\ t[p] = s[p + e]
                              /\ bridge'[b].at = "submit" => e = 1 \/ bridge[b].at = "submit"
      <3>1. CASE \A r \in 1..Len(t) : t[r] = delivered + r
        <4>1. t[p] = delivered + p /\ delivered \in Nat /\ p \in Nat \ {0}
          BY <1>1, <3>1
        <4> QED
          BY <2>1, <4>1
      <3> QED
        BY <1>2, <3>1
    <2>3. p + e \in 1..Len(s) /\ (p + e # 1 \/ bridge[b].at = "submit")
      <3>1. Len(s) \in Nat /\ Len(t) \in Nat
        BY <1>1
      <3> HIDE DEF s, t
      <3>2. p + e \in 1..Len(s) /\ p \in Nat /\ p # 0
        BY <2>2, <3>1
      <3>3. CASE e = 0
        BY <2>1, <2>2, <3>2, <3>3
      <3>4. CASE e = 1
        BY <3>2, <3>4
      <3> QED
        BY <3>2, <3>3, <3>4
    <2> QED
      BY <2>1, <2>2, <2>3 DEF Waits
  <1>5. ASSUME NEW i \in 1..delivered, NEW d \in Bridges, i \in Waits(d)' PROVE i \in Waits(d)
    <2>1. CASE d = b
      BY <1>4, <1>5, <2>1
    <2>2. CASE d # b
      <3>1. bridge'[d] = bridge[d]
        BY <1>1, <2>2
      <3> QED
        BY <1>5, <3>1 DEF Waits
    <2> QED
      BY <2>1, <2>2
  <1>6. 1..delivered \subseteq 1..delivered'
    BY <1>1
  <1>7. Tried \subseteq Tried'
    BY <1>5, <1>6 DEF Tried
  <1> QED
    BY <1>3, <1>7

(* An entry that is submitted was not tried, and now is. *)
LEMMA SubmittedOnce ==
  ASSUME IngressAssumption, BridgeInv, BridgeInv', Distinct, NEW b \in Bridges, stream' = stream,
         delivered <= delivered',
         bridge[b].at = "submit", bridge[b].batch # <<>>,
         \A c \in Bridges \ {b} : bridge'[c] = bridge[c],
         \/ bridge'[b] = [bridge[b] EXCEPT !.at = "ack"]
         \/ bridge'[b].batch = Tail(bridge[b].batch) /\ bridge'[b].at = "submit"
  PROVE  Head(bridge[b].batch) \in Tried' \ Tried
  <1> DEFINE s == bridge[b].batch
             h == Head(s)
  <1>1. /\ h \in 1..delivered /\ h = s[1] /\ s \in Seq(Nat) /\ Len(s) \in Nat /\ Len(s) > 0 /\ Len(Tail(s)) = Len(s) - 1
        /\ \A i \in 1..Len(Tail(s)) : Tail(s)[i] = s[i + 1]
    BY Batches DEF BridgeInv
  <1>2. h \in Waits(b)
    <2>1. 1 \in {q \in 1..Len(s) : q # 1 \/ bridge[b].at = "submit"}
      BY <1>1
    <2> QED
      BY <1>1, <2>1 DEF Waits
  <1>3. \A c \in Bridges : \A p \in 1..Len(bridge[c].batch) : bridge[c].batch[p] = h => c = b /\ p = 1
    <2>1. 1 \in 1..Len(s) /\ s[1] = h
      BY <1>1
    <2>2. ASSUME NEW c \in Bridges, NEW p \in 1..Len(bridge[c].batch), bridge[c].batch[p] = h
          PROVE  c = b /\ p = 1
      <3>1. bridge[c].batch[p] = bridge[b].batch[1]
        BY <2>1, <2>2
      <3> QED
        BY <2>1, <3>1 DEF Distinct
    <2> QED
      BY <2>2
  <1>4. ASSUME NEW c \in Bridges \ {b} PROVE h \notin Waits(c)'
    BY <1>3, <1>4 DEF Waits
  <1>5. h \notin Waits(b)'
    <2>1. CASE bridge'[b] = [bridge[b] EXCEPT !.at = "ack"]
      <3>1. bridge'[b].batch = s /\ bridge'[b].at = "ack"
        BY <2>1 DEF BridgeInv, Places
      <3> QED
        BY <1>3, <3>1 DEF Waits
    <2>2. CASE bridge'[b].batch = Tail(s)
      <3>1. ASSUME NEW p \in 1..Len(Tail(s)) PROVE Tail(s)[p] # h
        <4>1. p + 1 \in 1..Len(s) /\ p + 1 # 1 /\ Tail(s)[p] = s[p + 1]
          <5>1. Len(s) \in Nat /\ Len(Tail(s)) = Len(s) - 1 /\ Tail(s)[p] = s[p + 1]
            BY <1>1
          <5> HIDE DEF s
          <5> QED
            BY <5>1
        <4> QED
          BY <1>3, <4>1
      <3> QED
        BY <2>2, <3>1 DEF Waits
    <2> QED
      BY <2>1, <2>2
  <1>6. h \in 1..delivered'
    <2>1. stream' \in Seq(Keys) /\ delivered' \in 0..Len(stream') /\ stream \in Seq(Keys) /\ delivered \in 0..Len(stream)
      BY DEF BridgeInv, TypeOK, EdgeTypeOK
    <2> QED
      BY <1>1, <2>1, LenProperties
  <1> QED
    BY <1>2, <1>4, <1>5, <1>6 DEF Tried

(* What is tried grows, and with it what may have been started. *)
LEMMA NextStarted ==
  ASSUME IngressAssumption, EdgeAssumption, IngressInv, BridgeInv', [Next]_vars
  PROVE  Distinct' /\ Started'
  <1> DEFINE Marked(k) == {i \in Tried : stream[i] = k}
  <1>1. /\ delivered \in 0..Len(stream) /\ delivered' \in 0..Len(stream')
        /\ Len(stream) \in Nat /\ Len(stream') \in Nat /\ Tried \subseteq 1..delivered /\ Tried' \subseteq 1..delivered'
        /\ started \in [Keys -> Nat] /\ started' \in [Keys -> Nat] /\ stream \in Seq(Keys)
    <2>1. stream \in Seq(Keys) /\ stream' \in Seq(Keys)
      BY DEF IngressInv, BridgeInv, TypeOK, EdgeTypeOK
    <2>2. /\ delivered \in 0..Len(stream) /\ delivered' \in 0..Len(stream')
          /\ started \in [Keys -> Nat] /\ started' \in [Keys -> Nat]
      BY DEF IngressInv, BridgeInv, TypeOK
    <2> QED
      BY <2>1, <2>2, LenProperties DEF Tried
  <1>2. \A k \in Keys : /\ IsFiniteSet(Marked(k)) /\ Cardinality(Marked(k)) \in Nat
                        /\ IsFiniteSet(Marked(k)') /\ Cardinality(Marked(k)') \in Nat
    <2>1. IsFiniteSet(1..delivered) /\ IsFiniteSet(1..delivered')
      BY <1>1, FS_Interval
    <2>2. \A k \in Keys : Marked(k) \subseteq 1..delivered /\ Marked(k)' \subseteq 1..delivered'
      BY <1>1
    <2> QED
      BY <2>1, <2>2, FS_Subset, FS_CardinalityType
  <1>3. ASSUME Tried \subseteq Tried', \A i \in 1..delivered : stream'[i] = stream[i], started' = started
        PROVE  Started'
    <2>1. ASSUME NEW k \in Keys PROVE Cardinality(Marked(k)) <= Cardinality(Marked(k)')
      <3>1. Marked(k) \subseteq Marked(k)'
        BY <1>1, <1>3
      <3> QED
        BY <1>2, <3>1, FS_Subset
    <2> QED
      <3>1. ASSUME NEW k \in Keys PROVE started'[k] <= Cardinality(Marked(k)')
        <4>1. started[k] <= Cardinality(Marked(k)) /\ started[k] \in Nat
          BY <1>1 DEF IngressInv, Started
        <4> HIDE DEF Marked
        <4> QED
          BY <1>2, <1>3, <2>1, <4>1
      <3> QED
        BY <3>1 DEF Started
  <1>4. ASSUME Tried \subseteq Tried', stream' = stream, NEW h \in Tried' \ Tried,
               started' = [started EXCEPT ![stream[h]] = @ + 1]
        PROVE  Started'
    <2>1. ASSUME NEW k \in Keys
          PROVE  Cardinality(Marked(k)) + (IF stream[h] = k THEN 1 ELSE 0) <= Cardinality(Marked(k)')
      <3>1. CASE stream[h] = k
        <4>1. Marked(k) \cup {h} \subseteq Marked(k)' /\ h \notin Marked(k)
          BY <1>4, <3>1
        <4>2. Cardinality(Marked(k) \cup {h}) = Cardinality(Marked(k)) + 1
          BY <1>2, <4>1, FS_AddElement
        <4>3. Cardinality(Marked(k) \cup {h}) <= Cardinality(Marked(k)')
          BY <1>2, <4>1, FS_Subset
        <4> QED
          BY <1>2, <3>1, <4>2, <4>3
      <3>2. CASE stream[h] # k
        <4>1. Marked(k) \subseteq Marked(k)'
          BY <1>4
        <4> QED
          BY <1>2, <3>2, <4>1, FS_Subset
      <3> QED
        BY <3>1, <3>2
    <2>2. ASSUME NEW k \in Keys PROVE started'[k] <= Cardinality(Marked(k)')
      <3>1. started[k] <= Cardinality(Marked(k))
        BY DEF IngressInv, Started
      <3>2. started'[k] = started[k] + IF stream[h] = k THEN 1 ELSE 0
        BY <1>1, <1>4
      <3> HIDE DEF Marked
      <3> QED
        BY <1>1, <1>2, <2>1, <3>1, <3>2
    <2> QED
      BY <2>2 DEF Started
  <1>5. CASE UNCHANGED bridgeVars /\ (EdgeNext \/ UNCHANGED edgeVars)
    <2>1. \A i \in 1..delivered : stream'[i] = stream[i]
      <3>1. Len(stream) <= Len(stream') /\ \A i \in 1..Len(stream) : stream'[i] = stream[i]
        BY <1>1, <1>5, StreamGrows DEF IngressInv, BridgeInv, EdgeInv, edgeVars
      <3> QED
        BY <1>1, <3>1
    <2>2. Tried' = Tried /\ started' = started /\ Distinct'
      BY <1>5 DEF bridgeVars, Tried, Waits, Distinct, IngressInv
    <2> QED
      BY <1>3, <2>1, <2>2
  <1>6. CASE BridgeNext /\ UNCHANGED edgeVars
    <2>1. stream' = stream
      BY <1>6 DEF edgeVars
    <2>2. CASE \E k \in Keys : EndJob(k) \/ RetireJob(k)
      <3>1. Tried' = Tried /\ started' = started /\ Distinct'
        BY <2>2 DEF EndJob, RetireJob, Tried, Waits, Distinct, IngressInv
      <3> QED
        BY <1>3, <2>1, <3>1
    <2>3. ASSUME NEW b \in Bridges, Pump(b) \/ SubmitThrows(b) \/ AckThrows(b) \/ ConnectionCloses(b)
                                    \/ CrashBridge(b)
          PROVE  Distinct' /\ Started'
      <3>1. delivered <= delivered'
        <4>1. CASE Connect(b)
          BY <1>1, <4>1 DEF Connect, IngressInv, BridgeInv, Grouped
        <4>2. CASE Read(b)
          BY <1>1, <4>2 DEF Read, IngressAssumption
        <4>3. CASE delivered' = delivered
          BY <1>1, <4>3
        <4> QED
          BY <2>3, <4>1, <4>2, <4>3 DEF Pump, Submit, Ack, SubmitThrows, AckThrows, ConnectionCloses, CrashBridge
      <3>2. Distinct' /\ Tried \subseteq Tried'
        BY <2>1, <2>3, <3>1, BatchesApart DEF IngressInv
      <3>3. CASE started' = started
        BY <1>3, <2>1, <3>2, <3>3
      <3>4. ASSUME started' # started PROVE Started'
        <4>1. /\ bridge[b].at = "submit" /\ bridge[b].batch # <<>>
              /\ started' = [started EXCEPT ![stream[Head(bridge[b].batch)]] = @ + 1]
              /\ \A c \in Bridges \ {b} : bridge'[c] = bridge[c]
              /\ \/ bridge'[b] = [bridge[b] EXCEPT !.at = "ack"]
                 \/ bridge'[b].batch = Tail(bridge[b].batch) /\ bridge'[b].at = "submit"
          BY <2>1, <2>3, <3>4, BatchSteps, Zenon DEF IngressInv
        <4>2. Head(bridge[b].batch) \in Tried' \ Tried
          BY <2>1, <3>1, <4>1, SubmittedOnce DEF IngressInv
        <4> QED
          BY <1>4, <2>1, <3>2, <4>1, <4>2
      <3> QED
        BY <3>2, <3>3, <3>4
    <2> QED
      BY <1>6, <2>2, <2>3 DEF BridgeNext
  <1> QED
    BY <1>5, <1>6 DEF Next, vars

-----------------------------------------------------------------------------
(* Nothing was delivered yet. *)
LEMMA InitIngressInv ==
  ASSUME EdgeAssumption, IngressAssumption, Init PROVE IngressInv
  <1> USE DEF Init, EdgeInit
  <1>1. <<>> \in Seq(Keys) /\ <<>> \in Seq({"id", "error"}) /\ <<>> \in Seq(Nat) /\ Len(<<>>) = 0
    BY EmptySeq
  <1>2. EdgeTypeOK
    <2>1. deliveries \in [Keys -> 0..MaxDeliveries] /\ edgeFaults \in 0..MaxEdgeFaults /\ restarts \in 0..MaxRestarts
      BY DEF EdgeAssumption
    <2>2. /\ seen \subseteq Keys /\ request \in [Keys -> {"none", "enqueue", "sent"}]
          /\ answer \in [Keys -> {"none", "queued", "duplicate", "error"}]
      OBVIOUS
    <2>3. wire \in Seq(Keys) /\ replies \in Seq({"id", "error"}) /\ broken \in BOOLEAN /\ stream \in Seq(Keys)
      BY <1>1
    <2> QED
      BY <2>1, <2>2, <2>3 DEF EdgeTypeOK
  <1>3. Requests /\ Owed
    BY DEF Requests, Owed
  <1>4. \A b \in Bridges : bridge[b] = Connecting
    OBVIOUS
  <1>5. Places /\ Grouped /\ AtAck /\ Distinct
    BY <1>1, <1>4 DEF Places, Grouped, AtAck, Distinct, Connecting
  <1>6. TypeOK
    <2>1. bridgeFaults \in 0..MaxBridgeFaults
      BY DEF IngressAssumption
    <2> QED
      <3>1. grouped \in BOOLEAN /\ delivered \in 0..Len(stream)
        <4>1. grouped = FALSE /\ delivered = 0 /\ stream = <<>>
          OBVIOUS
        <4>2. delivered \in 0..Len(stream)
          BY <1>1, <4>1
        <4> QED
          BY <4>1, <4>2, Zenon
      <3>2. pending \subseteq 1..delivered /\ taken \subseteq 1..delivered
        OBVIOUS
      <3>3. \A b \in Bridges : /\ bridge[b].at \in {"connecting", "submit", "ack"} /\ bridge[b].open \in BOOLEAN
                                /\ \A i \in 1..Len(bridge[b].batch) : bridge[b].batch[i] \in 1..delivered
        <4>1. Connecting.at = "connecting" /\ Connecting.batch = <<>> /\ Connecting.open = FALSE
          BY DEF Connecting
        <4>2. \A b \in Bridges : bridge[b].at = "connecting" /\ bridge[b].batch = <<>> /\ bridge[b].open = FALSE
          BY <1>4, <4>1
        <4>3. 1..Len(<<>>) = {}
          BY <1>1
        <4> QED
          BY <4>2, <4>3, Zenon
      <3>4. jobs \in [Keys -> {"none", "made", "failed"}] /\ started \in [Keys -> Nat]
        OBVIOUS
      <3> QED
        BY <1>2, <2>1, <3>1, <3>2, <3>3, <3>4 DEF TypeOK
  <1>7. AckedIsTaken
    BY DEF AckedIsTaken
  <1>8. Window
    <2>1. \A k \in Keys : Count(stream \o wire, k) = 0
      <3>1. stream \o wire = <<>>
        BY <1>1, ConcatEmptySeq
      <3>2. \A k \in Keys : Occurs(<<>>, k) = {}
        BY DEF Occurs
      <3> QED
        BY <3>1, <3>2, FS_EmptySet DEF Count
    <2> QED
      BY <2>1 DEF Window
  <1>9. Started
    <2>1. Tried = {}
      BY DEF Tried
    <2> QED
      BY <2>1, FS_EmptySet DEF Started
  <1> QED
    BY <1>2, <1>3, <1>5, <1>6, <1>7, <1>8, <1>9 DEF IngressInv, BridgeInv, EdgeInv

(* Every step keeps the invariant. *)
LEMMA NextIngressInv ==
  ASSUME EdgeAssumption, IngressAssumption, IngressInv, [Next]_vars PROVE IngressInv'
  <1>1. BridgeInv'
    BY NextBridgeInv DEF IngressInv
  <1>2. Window'
    <2>1. CASE EdgeNext
      BY <2>1, NextWindow DEF IngressInv, BridgeInv
    <2>2. CASE UNCHANGED edgeVars
      BY <2>2 DEF edgeVars, Window, IngressInv
    <2> QED
      BY <2>1, <2>2 DEF Next, vars
  <1> QED
    BY <1>1, <1>2, NextStarted DEF IngressInv

(* The invariant holds in every reachable state. *)
LEMMA IngressInvariant ==
  ASSUME EdgeAssumption, IngressAssumption PROVE Spec => []IngressInv
  <1>1. Init => IngressInv
    BY InitIngressInv
  <1>2. IngressInv /\ [Next]_vars => IngressInv'
    BY NextIngressInv
  <1> QED
    BY <1>1, <1>2, PTL DEF Spec

(***************************************************************************)
(* dedupe.go's promise: the engine makes no more jobs of an event than the *)
(* edge had windows, however often it is delivered and whatever is lost.   *)
(***************************************************************************)
THEOREM OneJob == ASSUME EdgeAssumption, IngressAssumption PROVE Spec => []OneJobPerEvent
  <1>1. IngressInv => OneJobPerEvent
    <2> SUFFICES ASSUME IngressInv, NEW k \in Keys PROVE started[k] <= 1 + restarts
      BY DEF OneJobPerEvent
    <2>1. /\ stream \in Seq(Keys) /\ wire \in Seq(Keys) /\ restarts \in Nat /\ started[k] \in Nat
          /\ delivered \in 0..Len(stream)
      BY DEF IngressInv, BridgeInv, TypeOK, EdgeTypeOK
    <2>2. {i \in Tried : stream[i] = k} \subseteq Occurs(stream \o wire, k)
      BY <2>1, Joined DEF Tried, Occurs
    <2>3. IsFiniteSet(Occurs(stream \o wire, k)) /\ Count(stream \o wire, k) \in Nat
      BY <2>1, Joined, OccursFinite
    <2>4. /\ Cardinality({i \in Tried : stream[i] = k}) <= Count(stream \o wire, k)
          /\ Cardinality({i \in Tried : stream[i] = k}) \in Nat
      BY <2>2, <2>3, FS_Subset, FS_CardinalityType DEF Count
    <2>5. Count(stream \o wire, k) <= restarts + 1
      BY <2>1, <2>3 DEF IngressInv, Window
    <2>6. started[k] <= Cardinality({i \in Tried : stream[i] = k})
      BY DEF IngressInv, Started
    <2> QED
      BY <2>1, <2>3, <2>4, <2>5, <2>6
  <1> QED
    BY <1>1, IngressInvariant, PTL

(***************************************************************************)
(* bridge.ts's promise: no entry leaves the pending list that the engine   *)
(* has not taken, poison apart, whichever submits and acknowledgements     *)
(* throw and whichever bridges die.                                        *)
(***************************************************************************)
THEOREM NoneLost == ASSUME EdgeAssumption, IngressAssumption PROVE Spec => []AckedIsTaken
  <1>1. IngressInv => AckedIsTaken
    BY DEF IngressInv, BridgeInv
  <1> QED
    BY <1>1, IngressInvariant, PTL

(***************************************************************************)
(* queue.go's promise: on a connection in step the host is told "queued"   *)
(* of a job on the stream only.                                            *)
(***************************************************************************)
THEOREM QueuedIsThere == ASSUME EdgeAssumption, IngressAssumption PROVE Spec => QueuedIsOnStream
  <1> DEFINE A == \A k \in Keys : InStep /\ request[k] = "sent" /\ answer'[k] = "queued"
                    => request'[k] = "sent" \/ OnStream(k)
  <1>1. IngressInv /\ [Next]_vars => [A]_edgeVars
    <2> SUFFICES ASSUME IngressInv, [Next]_vars, edgeVars' # edgeVars PROVE A
      OBVIOUS
    <2>1. EdgeNext
      BY DEF Next, vars
    <2> QED
      BY <2>1, EdgeQueues DEF IngressInv, BridgeInv
  <1> HIDE DEF A
  <1>2. Spec => [][A]_edgeVars
    BY <1>1, IngressInvariant, PTL DEF Spec
  <1> QED
    BY <1>2, Zenon DEF A, QueuedIsOnStream
=============================================================================
