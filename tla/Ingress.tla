------------------------------ MODULE Ingress -------------------------------
(***************************************************************************)
(* From the host's webhook to the workflow engine's job: the edge, which   *)
(* keeps a deduplication window and appends jobs to the stream over one    *)
(* Redis connection (services/edge: webhook/handler.go, dedupe,            *)
(* queue/redis_stream.go, resp), the stream's consumer group, the bridges  *)
(* that drain it (services/orchestrator: bridge/bridge.ts,                 *)
(* bridge/redisSource.ts and the connect loop of main.ts), and the BullMQ  *)
(* queue (workflow/bullmq.ts).                                             *)
(*                                                                         *)
(* A delivery is named by its idempotency key.  The hosts deliver an event *)
(* at least once, and again when the answer is an error or an operator     *)
(* asks for it.  All of it happens within one deduplication window         *)
(* (DedupeTTL, a day).                                                     *)
(*                                                                         *)
(* An entry is its position in the stream.  Every orchestrator runs one    *)
(* bridge; they share one group, and by default one consumer name.         *)
(***************************************************************************)
EXTENDS Naturals, Sequences, FiniteSets

CONSTANTS
  Keys,           \* idempotency keys of the events
  MaxDeliveries,  \* bound: how often the host delivers each
  MaxEdgeFaults,  \* bound: late replies, failed writes, rejected commands
  MaxRestarts     \* bound: restarts of the edge

ASSUME EdgeAssumption ==
  MaxDeliveries \in Nat /\ MaxEdgeFaults \in Nat /\ MaxRestarts \in Nat

CONSTANTS
  Poison,          \* keys of jobs this orchestrator cannot parse
  Bridges,
  Batch,           \* COUNT of a read: 16 in the code
  MaxBridgeFaults  \* bound: crashes, lost answers, failed submits

ASSUME IngressAssumption ==
  Poison \subseteq Keys /\ Batch \in Nat \ {0} /\ MaxBridgeFaults \in Nat

VARIABLES
  deliveries,  \* how often each event was delivered
  seen,        \* the keys MemoryStore holds
  request,     \* where the request of each key is that got past the window
  answer,      \* what the host was last told about each key
  wire,        \* commands written that Redis has not executed, in order
  replies,     \* replies the client has not read, in order
  broken,      \* a write failed: bufio.Writer returns its error for good
  stream,      \* the keys of the stream's entries, in order
  edgeFaults, restarts

VARIABLES
  grouped,    \* whether the consumer group exists
  delivered,  \* the group's last delivered entry
  pending,    \* entries delivered and not acknowledged
  bridge,     \* where each bridge is, and its batch
  jobs,       \* the engine's job of each id: none, at work or waiting, failed
  taken,      \* history: entries whose submit returned
  started,    \* history: how many jobs the engine made of each key
  bridgeFaults

-----------------------------------------------------------------------------
(***************************************************************************)
(* The edge.                                                               *)
(***************************************************************************)
edgeVars == <<deliveries, seen, request, answer, wire, replies, broken, stream,
              edgeFaults, restarts>>
connection == <<wire, replies, broken>>

EdgeInit ==
  /\ deliveries = [k \in Keys |-> 0]
  /\ seen = {}
  /\ request = [k \in Keys |-> "none"]
  /\ answer = [k \in Keys |-> "none"]
  /\ wire = <<>> /\ replies = <<>> /\ broken = FALSE
  /\ stream = <<>>
  /\ edgeFaults = 0 /\ restarts = 0

Spend == edgeFaults < MaxEdgeFaults /\ edgeFaults' = edgeFaults + 1

Respond(k, a) ==
  /\ request' = [request EXCEPT ![k] = "none"]
  /\ answer' = [answer EXCEPT ![k] = a]

(***************************************************************************)
(* The handler checks and records the key in one step (SeenBefore), before *)
(* it enqueues; whatever is in the window is answered as a duplicate.      *)
(***************************************************************************)
Deliver(k) ==
  /\ deliveries[k] < MaxDeliveries
  /\ deliveries' = [deliveries EXCEPT ![k] = @ + 1]
  /\ seen' = seen \cup {k}
  /\ IF k \in seen
       THEN answer' = [answer EXCEPT ![k] = "duplicate"] /\ UNCHANGED request
       ELSE request' = [request EXCEPT ![k] = "enqueue"] /\ UNCHANGED answer
  /\ UNCHANGED <<connection, stream, edgeFaults, restarts>>

(***************************************************************************)
(* Enqueue holds the producer's mutex for one round trip of Do.  The       *)
(* deadline is the request's, and the wait for the mutex may use it up:    *)
(* then the write fails, as it does on a lost connection, and with it      *)
(* every later one.                                                        *)
(***************************************************************************)
MutexFree == \A k \in Keys : request[k] # "sent"

\* Mutant: two round trips at once.
WriteUnlocked(k) ==
  /\ request[k] = "enqueue" /\ ~broken
  /\ wire' = Append(wire, k)
  /\ request' = [request EXCEPT ![k] = "sent"]
  /\ UNCHANGED <<deliveries, seen, answer, replies, broken, stream, edgeFaults, restarts>>

Write(k) ==
  /\ request[k] = "enqueue" /\ MutexFree /\ ~broken
  /\ wire' = Append(wire, k)
  /\ request' = [request EXCEPT ![k] = "sent"]
  /\ UNCHANGED <<deliveries, seen, answer, replies, broken, stream, edgeFaults, restarts>>

WriteFails(k) ==
  /\ request[k] = "enqueue" /\ MutexFree
  /\ broken' = TRUE
  /\ IF broken THEN UNCHANGED edgeFaults ELSE Spend
  /\ Respond(k, "error")
  /\ UNCHANGED <<deliveries, seen, wire, replies, stream, restarts>>

(***************************************************************************)
(* Redis executes the commands in order; it may refuse one (out of memory, *)
(* a read-only replica).                                                   *)
(***************************************************************************)
Execute ==
  /\ wire # <<>>
  /\ wire' = Tail(wire)
  /\ \/ stream' = Append(stream, Head(wire)) /\ replies' = Append(replies, "id")
        /\ UNCHANGED edgeFaults
     \/ Spend /\ replies' = Append(replies, "error") /\ UNCHANGED stream
  /\ UNCHANGED <<deliveries, seen, request, answer, broken, restarts>>

(***************************************************************************)
(* The client takes the first reply there is for its own.  One that comes  *)
(* after its deadline stays on the connection, and the next round trip     *)
(* reads it.                                                               *)
(***************************************************************************)
ReadReply(k) ==
  /\ request[k] = "sent" /\ replies # <<>>
  /\ replies' = Tail(replies)
  /\ Respond(k, IF Head(replies) = "id" THEN "queued" ELSE "error")
  /\ UNCHANGED <<deliveries, seen, wire, broken, stream, edgeFaults, restarts>>

\* Mutant: a request that failed leaves the window, so that its retry passes.
ReplyIsLateAndForgotten(k) ==
  /\ request[k] = "sent" /\ Spend
  /\ Respond(k, "error")
  /\ seen' = seen \ {k}
  /\ UNCHANGED <<deliveries, connection, stream, restarts>>

ReplyIsLate(k) ==
  /\ request[k] = "sent" /\ Spend
  /\ Respond(k, "error")
  /\ UNCHANGED <<deliveries, seen, connection, stream, restarts>>

(***************************************************************************)
(* A new process has an empty window and dials anew.  Requests in flight   *)
(* are cut off; Redis may still execute what was written.                  *)
(***************************************************************************)
RestartEdge ==
  /\ restarts < MaxRestarts /\ restarts' = restarts + 1
  /\ seen' = {}
  /\ request' = [k \in Keys |-> "none"]
  /\ answer' = [k \in Keys |-> IF request[k] = "none" THEN answer[k] ELSE "error"]
  /\ wire' = <<>> /\ replies' = <<>> /\ broken' = FALSE
  /\ \E n \in 0..Len(wire) : stream' = stream \o SubSeq(wire, 1, n)
  /\ UNCHANGED <<deliveries, edgeFaults>>

EdgeServes == Execute \/ \E k \in Keys : Write(k) \/ ReadReply(k)

EdgeNext ==
  \/ EdgeServes
  \/ \E k \in Keys : Deliver(k) \/ WriteFails(k) \/ ReplyIsLate(k)
  \/ RestartEdge

-----------------------------------------------------------------------------
(***************************************************************************)
(* The stream and its bridges.                                             *)
(***************************************************************************)
bridgeVars == <<grouped, delivered, pending, bridge, jobs, taken, started, bridgeFaults>>
vars == <<edgeVars, bridgeVars>>

Connecting == [at |-> "connecting", batch |-> <<>>, open |-> FALSE]
Pumping(batch, open) == [at |-> "submit", batch |-> batch, open |-> open]

Init ==
  /\ EdgeInit
  /\ grouped = FALSE /\ delivered = 0 /\ pending = {}
  /\ bridge = [b \in Bridges |-> Connecting]
  /\ jobs = [k \in Keys |-> "none"]
  /\ taken = {} /\ started = [k \in Keys |-> 0]
  /\ bridgeFaults = 0

Fault == bridgeFaults < MaxBridgeFaults /\ bridgeFaults' = bridgeFaults + 1

Becomes(b, place) == bridge' = [bridge EXCEPT ![b] = place]

(***************************************************************************)
(* RedisStreamSource.create: the first to connect makes the group, at the  *)
(* start of the stream.                                                    *)
(***************************************************************************)

Connect(b) ==
  /\ bridge[b].at = "connecting"
  /\ grouped' = TRUE
  /\ delivered' = IF grouped THEN delivered ELSE 0
  /\ Becomes(b, Pumping(<<>>, TRUE))
  /\ UNCHANGED <<pending, jobs, taken, started, bridgeFaults>>

(***************************************************************************)
(* pumpOnce reads with ">": entries the group has delivered to nobody.  If *)
(* the connection is lost meanwhile, they are delivered and nobody has     *)
(* them.                                                                   *)
(***************************************************************************)
Read(b) ==
  LET n == IF Len(stream) - delivered < Batch THEN Len(stream) - delivered ELSE Batch
  IN /\ bridge[b] = Pumping(<<>>, TRUE) /\ n > 0
     /\ delivered' = delivered + n
     /\ pending' = pending \cup (delivered + 1)..(delivered + n)
     /\ \/ Becomes(b, Pumping([i \in 1..n |-> delivered + i], TRUE)) /\ UNCHANGED bridgeFaults
        \/ Fault /\ Becomes(b, Connecting)
     /\ UNCHANGED <<grouped, jobs, taken, started>>

(***************************************************************************)
(* Submit and acknowledge, entry after entry.  The engine ignores a job    *)
(* whose id it has, one that failed and is kept included.  A poison entry  *)
(* is acknowledged and never submitted; an entry whose submit throws is    *)
(* left pending.                                                           *)
(***************************************************************************)
Add(k) ==
  IF jobs[k] = "none"
    THEN jobs' = [jobs EXCEPT ![k] = "made"] /\ started' = [started EXCEPT ![k] = @ + 1]
    ELSE UNCHANGED <<jobs, started>>

\* Mutant: parsing throws out of the loop.
SubmitOrThrow(b) ==
  LET i == Head(bridge[b].batch)
  IN /\ bridge[b].at = "submit" /\ bridge[b].batch # <<>>
     /\ IF stream[i] \in Poison THEN Becomes(b, Connecting) /\ UNCHANGED <<jobs, started, taken>>
        ELSE /\ Add(stream[i]) /\ taken' = taken \cup {i}
             /\ bridge' = [bridge EXCEPT ![b].at = "ack"]
     /\ UNCHANGED <<grouped, delivered, pending, bridgeFaults>>

Submit(b) ==
  LET i == Head(bridge[b].batch)
  IN /\ bridge[b].at = "submit" /\ bridge[b].batch # <<>>
     /\ IF stream[i] \in Poison THEN UNCHANGED <<jobs, started, taken>>
        ELSE Add(stream[i]) /\ taken' = taken \cup {i}
     /\ bridge' = [bridge EXCEPT ![b].at = "ack"]
     /\ UNCHANGED <<grouped, delivered, pending, bridgeFaults>>

\* Mutant: the entry is acknowledged in a "finally".
SubmitThrowsAndAcks(b) ==
  LET i == Head(bridge[b].batch)
  IN /\ bridge[b].at = "submit" /\ bridge[b].batch # <<>> /\ stream[i] \notin Poison
     /\ Fault
     /\ Add(stream[i]) \/ UNCHANGED <<jobs, started>>
     /\ bridge' = [bridge EXCEPT ![b].at = "ack"]
     /\ UNCHANGED <<grouped, delivered, pending, taken>>

SubmitThrows(b) ==
  LET i == Head(bridge[b].batch)
  IN /\ bridge[b].at = "submit" /\ bridge[b].batch # <<>> /\ stream[i] \notin Poison
     /\ Fault
     /\ Add(stream[i]) \/ UNCHANGED <<jobs, started>>
     /\ Becomes(b, Pumping(Tail(bridge[b].batch), bridge[b].open))
     /\ UNCHANGED <<grouped, delivered, pending, taken>>

Ack(b) ==
  LET i == Head(bridge[b].batch)
  IN /\ bridge[b].at = "ack" /\ bridge[b].open
     /\ pending' = pending \ {i}
     /\ Becomes(b, Pumping(Tail(bridge[b].batch), bridge[b].open))
     /\ UNCHANGED <<grouped, delivered, jobs, taken, started, bridgeFaults>>

(***************************************************************************)
(* The acknowledgement throws, served or not.  For a submitted entry that  *)
(* is caught; for poison it ends the pump, and the bridge connects anew    *)
(* without the rest of its batch.                                          *)
(***************************************************************************)
AckThrows(b) ==
  LET i == Head(bridge[b].batch)
  IN /\ bridge[b].at = "ack" /\ bridge[b].open /\ Fault
     /\ pending' \in {pending, pending \ {i}}
     /\ IF stream[i] \in Poison THEN Becomes(b, Connecting)
        ELSE \E open \in BOOLEAN : Becomes(b, Pumping(Tail(bridge[b].batch), open))
     /\ UNCHANGED <<grouped, delivered, jobs, taken, started>>

(***************************************************************************)
(* The connection closes while no command waits for a reply.  Only the     *)
(* commands that wait are told: the next one is written to a closed socket *)
(* and its promise never settles, so neither Ack nor Read is enabled.      *)
(***************************************************************************)
ConnectionCloses(b) ==
  /\ bridge[b].at = "submit" /\ bridge[b].batch # <<>> /\ bridge[b].open /\ Fault
  /\ bridge' = [bridge EXCEPT ![b].open = FALSE]
  /\ UNCHANGED <<grouped, delivered, pending, jobs, taken, started>>

(* An orchestrator dies; the queue's jobs are in Redis and outlive it. *)
CrashBridge(b) ==
  /\ bridge[b] # Connecting /\ Fault
  /\ Becomes(b, Connecting)
  /\ UNCHANGED <<grouped, delivered, pending, jobs, taken, started>>

(***************************************************************************)
(* The engine: a job that succeeds is removed, one whose attempts are used *)
(* up is kept until a hundred later ones have failed.                      *)
(***************************************************************************)
EndJob(k) ==
  /\ jobs[k] = "made"
  /\ \E end \in {"none", "failed"} : jobs' = [jobs EXCEPT ![k] = end]
  /\ UNCHANGED <<grouped, delivered, pending, bridge, taken, started, bridgeFaults>>

RetireJob(k) ==
  /\ jobs[k] = "failed"
  /\ jobs' = [jobs EXCEPT ![k] = "none"]
  /\ UNCHANGED <<grouped, delivered, pending, bridge, taken, started, bridgeFaults>>

Pump(b) == Connect(b) \/ Read(b) \/ Submit(b) \/ Ack(b)

BridgeNext ==
  \/ \E b \in Bridges : Pump(b) \/ SubmitThrows(b) \/ AckThrows(b) \/ ConnectionCloses(b)
                        \/ CrashBridge(b)
  \/ \E k \in Keys : EndJob(k) \/ RetireJob(k)

Next ==
  \/ EdgeNext /\ UNCHANGED bridgeVars
  \/ BridgeNext /\ UNCHANGED edgeVars

(***************************************************************************)
(* The edge, Redis and the bridges' loops go on; nobody owes a delivery, a *)
(* restart or a fault.                                                     *)
(***************************************************************************)
Fairness ==
  /\ WF_vars(EdgeServes /\ UNCHANGED bridgeVars)
  /\ \A b \in Bridges : WF_vars(Pump(b) /\ UNCHANGED edgeVars)

Spec == Init /\ [][Next]_vars

FairSpec == Spec /\ Fairness

-----------------------------------------------------------------------------
OnStream(k) == \E i \in 1..Len(stream) : stream[i] = k
OnWire(k) == \E i \in 1..Len(wire) : wire[i] = k

EdgeTypeOK ==
  /\ deliveries \in [Keys -> 0..MaxDeliveries]
  /\ seen \subseteq Keys
  /\ request \in [Keys -> {"none", "enqueue", "sent"}]
  /\ answer \in [Keys -> {"none", "queued", "duplicate", "error"}]
  /\ wire \in Seq(Keys) /\ replies \in Seq({"id", "error"}) /\ broken \in BOOLEAN
  /\ stream \in Seq(Keys)
  /\ edgeFaults \in 0..MaxEdgeFaults /\ restarts \in 0..MaxRestarts

(***************************************************************************)
(* The replies owed on the connection are those of the requests that wait  *)
(* for one: no round trip has timed out on it.                             *)
(***************************************************************************)
InStep == Len(wire) + Len(replies) = Cardinality({k \in Keys : request[k] = "sent"})

(***************************************************************************)
(* queue.go: Enqueue "must return an error rather than silently dropping". *)
(* On a connection in step, the host is told "queued" only of a job that   *)
(* is on the stream, whatever Redis refuses and however requests           *)
(* interleave.                                                             *)
(***************************************************************************)
QueuedIsOnStream ==
  [][\A k \in Keys : InStep /\ request[k] = "sent" /\ answer'[k] = "queued"
       => request'[k] = "sent" \/ OnStream(k)]_edgeVars

(***************************************************************************)
(* queue.go: "the edge ACKs GitHub only after a successful enqueue, so a   *)
(* failure here surfaces as a 5xx and GitHub retries (no lost jobs)".      *)
(* What the host was told is accepted is on the stream or on its way.      *)
(***************************************************************************)
NoLostJobs ==
  \A k \in Keys : answer[k] \in {"queued", "duplicate"} /\ request[k] = "none" =>
    OnStream(k) \/ OnWire(k)

Entries == 1..Len(stream)

(* Every variable has its type, and a bridge holds only pending entries. *)
TypeOK ==
  /\ EdgeTypeOK
  /\ grouped \in BOOLEAN /\ delivered \in 0..Len(stream)
  /\ pending \subseteq 1..delivered /\ taken \subseteq 1..delivered
  /\ \A b \in Bridges :
       /\ bridge[b].at \in {"connecting", "submit", "ack"} /\ bridge[b].open \in BOOLEAN
       /\ \A i \in 1..Len(bridge[b].batch) : bridge[b].batch[i] \in 1..delivered
  /\ jobs \in [Keys -> {"none", "made", "failed"}]
  /\ started \in [Keys -> Nat]
  /\ bridgeFaults \in 0..MaxBridgeFaults

(***************************************************************************)
(* dedupe.go: "redelivered webhooks don't trigger duplicate reviews".      *)
(* However often an event is delivered, and whichever replies, submits and *)
(* acknowledgements are lost, the engine makes one job of it, and one more *)
(* for every restart of the edge, which empties the window.                *)
(***************************************************************************)
OneJobPerEvent == \A k \in Keys : started[k] <= 1 + restarts

(***************************************************************************)
(* bridge.ts: "a job whose submit throws is left UNACKED".  An entry that  *)
(* has left the pending list was taken by the engine, or is poison.        *)
(***************************************************************************)
AckedIsTaken ==
  \A i \in 1..delivered : i \in pending \/ i \in taken \/ stream[i] \in Poison

(***************************************************************************)
(* Every entry of the stream is taken in the end, one that was there       *)
(* before the first orchestrator too, and poison wedges nothing: unless a  *)
(* bridge has met a fault.                                                 *)
(***************************************************************************)
EveryEntryIsTaken ==
  \A k \in Keys \ Poison :
    OnStream(k) ~> (bridgeFaults > 0 \/ \E i \in taken : stream[i] = k)
=============================================================================
