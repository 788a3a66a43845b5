------------------------------ MODULE ModelKey -------------------------------
(***************************************************************************)
(* The key one workspace's model calls are made with: its owner changes it *)
(* on the control plane, the gateway of a running orchestrator keeps what  *)
(* it read for a while:                                                    *)
(*                                                                         *)
(*   src/packages/gateway/src/gateway.ts, config.ts                        *)
(*   src/services/orchestrator/src/byok/resolver.ts                        *)
(*                                                                         *)
(* A read takes the control plane's answer and brings it later, with other *)
(* reads and the owner's changes in between.  A key stands for the whole   *)
(* configuration of provider, model and key.                               *)
(***************************************************************************)
EXTENDS Integers, FiniteSets

CONSTANTS
  Keys,        \* the keys the owner enters
  Fallback,    \* the deployment's own key, or NoKey
  NoKey,
  LlmTtl,      \* ticks the gateway keeps a key             (resolverTtlMs)
  MaxAsked,    \* bound: reads under way at once
  MaxTravel,   \* bound: ticks an answer is under way
  MaxTime,     \* bound: ticks
  MaxChanges,  \* bound: changes of the key
  MaxFaults    \* bound: requests the control plane fails

\* What the constants are.
ModelKeyAssumption ==
  /\ LlmTtl \in Nat \ {0} /\ {MaxAsked, MaxTravel, MaxTime, MaxChanges, MaxFaults} \subseteq Nat
  /\ NoKey \notin Keys /\ Fallback \notin Keys

VARIABLES
  now,       \* ticks
  key,       \* the key on the control plane
  hadKey,    \* history: when each key was last the workspace's
  resolved,  \* the gateway's cache: a key and when it expires
  asked,     \* reads under way
  used,      \* the last model call
  faultAt,   \* history: when a read last failed
  faults, changes

vars == <<now, key, hadKey, resolved, asked, used, faultAt, faults, changes>>

Never == 0 - LlmTtl - MaxTravel
NoCall == [key |-> NoKey, at |-> 0]

Init ==
  /\ now = 0 /\ key \in Keys \cup {NoKey}
  /\ hadKey = [k \in Keys \cup {NoKey} |-> IF k = key THEN 0 ELSE Never]
  /\ resolved = [key |-> NoKey, exp |-> 0] /\ asked = {}
  /\ used = NoCall /\ faultAt = Never /\ faults = 0 /\ changes = 0

(* The owner saves a key, or removes it. *)
SetKey(k) ==
  /\ changes < MaxChanges /\ k # key
  /\ key' = k
  /\ hadKey' = [hadKey EXCEPT ![key] = now, ![k] = now]
  /\ changes' = changes + 1
  /\ UNCHANGED <<now, resolved, asked, used, faultAt, faults>>

Tick ==
  /\ now < MaxTime /\ now' = now + 1
  /\ \A q \in asked : now - q.at < MaxTravel
  /\ hadKey' = [hadKey EXCEPT ![key] = now + 1]
  /\ UNCHANGED <<key, resolved, asked, used, faultAt, faults, changes>>

Live == resolved.exp > now

\* resolveConfig finds nothing live and asks: the control plane answers with the
\* key it has now, or fails, which reads like a workspace without a key.
Ask ==
  /\ ~Live /\ Cardinality(asked) < MaxAsked
  /\ \/ /\ asked' = asked \cup {[key |-> key, at |-> now]}
        /\ UNCHANGED <<faultAt, faults>>
     \/ /\ faults < MaxFaults /\ faults' = faults + 1
        /\ faultAt' = now
        /\ asked' = asked \cup {[key |-> NoKey, at |-> now]}
  /\ UNCHANGED <<now, key, hadKey, resolved, used, changes>>

\* resolveOrgConfig: the deployment's key where the workspace has none.
Config(k) == IF k = NoKey THEN Fallback ELSE k

\* The answer arrives: it is kept for LlmTtl from now on and the call is made,
\* unless there is no key at all.
Answer(q) ==
  /\ q \in asked /\ asked' = asked \ {q}
  /\ IF Config(q.key) = NoKey
       THEN UNCHANGED <<resolved, used>>
       ELSE /\ resolved' = [key |-> Config(q.key), exp |-> now + LlmTtl]
            /\ used' = [key |-> Config(q.key), at |-> now]
  /\ UNCHANGED <<now, key, hadKey, faultAt, faults, changes>>

\* The change of Complete that keeps an entry alive by using it.
CompleteRenews ==
  /\ Live
  /\ used' = [key |-> resolved.key, at |-> now]
  /\ resolved' = [resolved EXCEPT !.exp = now + LlmTtl]
  /\ UNCHANGED <<now, key, hadKey, asked, faultAt, faults, changes>>

\* complete() with a live entry.
Complete ==
  /\ Live
  /\ used' = [key |-> resolved.key, at |-> now]
  /\ UNCHANGED <<now, key, hadKey, resolved, asked, faultAt, faults, changes>>

Next ==
  \/ Tick \/ Ask \/ Complete
  \/ \E k \in Keys \cup {NoKey} : SetKey(k)
  \/ \E q \in asked : Answer(q)

Spec == Init /\ [][Next]_vars

-----------------------------------------------------------------------------
\* Every variable has its type.
TypeOK ==
  /\ now \in 0..MaxTime /\ faults \in 0..MaxFaults /\ changes \in 0..MaxChanges
  /\ {key, resolved.key, used.key} \cup {q.key : q \in asked} \subseteq Keys \cup {Fallback, NoKey}

\* "Site key changes still propagate within the TTL": a model call is made with
\* a key that its workspace had within the cache's time and that of the answer
\* that brought it, and with the deployment's own only if the workspace had
\* none, or its key could not be read, that recently.
KeyIsRecent ==
  used # NoCall =>
    LET since == used.at - LlmTtl - MaxTravel
    IN IF used.key # Fallback THEN hadKey[used.key] > since
       ELSE hadKey[NoKey] > since \/ faultAt > since
=============================================================================
