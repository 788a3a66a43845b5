----------------------------- MODULE HostTokens ------------------------------
(***************************************************************************)
(* The token a code host's client sends with each request.  A client has   *)
(* one of two providers, whose keys are installations or workspaces:       *)
(*                                                                         *)
(*   "app"     src/services/orchestrator/src/github/appAuth.ts: minted for *)
(*             an installation, kept until it nearly expires, without bound *)
(*   "pasted"  src/services/orchestrator/src/gitlab/tokens.ts: what the    *)
(*             workspace's owner pasted on the control plane, kept a while *)
(*                                                                         *)
(* Several requests ask at once, and their answers travel, with changes of *)
(* the pasted tokens in between.  A client whose app is misconfigured, or  *)
(* that has no installation, sends nothing and is left out.                *)
(***************************************************************************)
EXTENDS Integers, Sequences

CONSTANTS
  Keys,        \* installations, or workspaces
  Requests,    \* calls of the client that may be under way at once
  Pasted,      \* tokens an owner pastes
  NoSecret,
  Lifetime,    \* ticks a minted token is good for          (an hour)
  Margin,      \* ticks it is renewed before its end        (a minute)
  Assumed,     \* ticks it is kept when its end is unreadable  (50 minutes)
  PastedTtl,   \* ticks a pasted token is kept              (cacheMs)
  MaxCached,   \* workspaces whose token is kept            (MAX_CACHED_ORGS)
  Timeout,     \* ticks an answer is waited for             (timeoutMs; for a mint, fetch's own)
  MaxTime,     \* bound: ticks
  MaxChanges,  \* bound: changes of pasted tokens
  MaxFaults    \* bound: requests that fail

\* What the constants are: a fresh token outlives its way to the client by the
\* margin, and an unreadable end is guessed on the safe side.
HostTokensAssumption ==
  /\ Lifetime \in Nat /\ Margin \in Nat /\ Assumed \in Nat /\ PastedTtl \in Nat \ {0}
  /\ Timeout \in Nat /\ MaxCached \in Nat \ {0}
  /\ Margin + Timeout < Lifetime /\ Assumed + Timeout + Margin <= Lifetime
  /\ NoSecret \notin Pasted

VARIABLES
  now,       \* ticks
  provider,  \* the client's provider
  saved,     \* on the control plane: workspace -> its pasted token
  hadToken,  \* history: workspace -> token -> when it last had it
  cache,     \* the provider's tokens, oldest entry first
  asked,     \* request -> the answer under way to it; requests share a mint's
  sent,      \* the token a request of this tick was last sent with
  changes, faults

vars == <<now, provider, saved, hadToken, cache, asked, sent, changes, faults>>
owners == <<saved, hadToken, changes>>

Tokens == Pasted \cup {NoSecret}
Never == 0 - PastedTtl - Timeout
Idle == [of |-> NoSecret, token |-> NoSecret, until |-> 0, at |-> 0]
Unsent == [of |-> NoSecret, token |-> NoSecret, until |-> 0]

Init ==
  /\ now = 0 /\ provider \in {"app", "pasted"}
  /\ saved \in [Keys -> Tokens]
  /\ hadToken = [k \in Keys |-> [t \in Tokens |-> IF saved[k] = t THEN 0 ELSE Never]]
  /\ cache = <<>> /\ asked = [r \in Requests |-> Idle] /\ sent = Unsent
  /\ changes = 0 /\ faults = 0

-----------------------------------------------------------------------------
(* setPlatformToken, clearPlatformToken *)
Written(k, t) == [saved EXCEPT ![k] = t]

\* The owner, on the dashboard.
SetToken(k, t) ==
  /\ changes < MaxChanges /\ changes' = changes + 1
  /\ saved' = Written(k, t)
  /\ hadToken' = [hadToken EXCEPT ![k][t] = now]
  /\ UNCHANGED <<now, provider, cache, asked, sent, faults>>

\* Redeployed under another CAVIX_SECRET_KEY: no stored token can be read.
ChangeSecret ==
  /\ changes < MaxChanges /\ changes' = changes + 1
  /\ saved' = [k \in Keys |-> NoSecret]
  /\ UNCHANGED <<now, provider, hadToken, cache, asked, sent, faults>>

\* No answer is waited for beyond Timeout.
Tick ==
  /\ now < MaxTime /\ now' = now + 1
  /\ \A r \in Requests : asked[r] # Idle => now - asked[r].at < Timeout
  /\ hadToken' = [k \in Keys |-> [hadToken[k] EXCEPT ![saved[k]] = now + 1]]
  /\ sent' = Unsent
  /\ UNCHANGED <<provider, saved, cache, asked, changes, faults>>

-----------------------------------------------------------------------------
Live(k) == {i \in DOMAIN cache : cache[i].of = k /\ cache[i].expires > now}
Pending(k) == {r \in Requests : asked[r] # Idle /\ asked[r].of = k}
SentWith(a) == [of |-> a.of, token |-> a.token, until |-> a.until]

\* token(): the kept one.
Hit(r, k) ==
  /\ asked[r] = Idle
  /\ \E i \in Live(k) : sent' = SentWith(cache[i])
  /\ UNCHANGED <<now, provider, owners, cache, asked, faults>>

\* token(): a mint under way is shared.
Join(r, k) ==
  /\ asked[r] = Idle /\ Live(k) = {} /\ provider = "app"
  /\ \E q \in Pending(k) : asked' = [asked EXCEPT ![r] = asked[q]]
  /\ UNCHANGED <<now, provider, owners, cache, sent, faults>>

\* GET .../<platform>-token: what the control plane answers with.
ReadNow(k) == saved[k]

\* mint(), or the question to the control plane: what it says now arrives later.
Ask(r, k) ==
  /\ asked[r] = Idle /\ Live(k) = {}
  /\ provider = "app" => Pending(k) = {}
  /\ asked' = [asked EXCEPT ![r] =
       [of |-> k, token |-> IF provider = "app" THEN NoSecret ELSE ReadNow(k),
        until |-> now + Lifetime, at |-> now]]
  /\ UNCHANGED <<now, provider, owners, cache, sent, faults>>

\* Those the answer to r is for.
Sharing(r) == IF provider = "app" THEN Pending(asked[r].of) ELSE {r}
Answered(r) == [q \in Requests |-> IF q \in Sharing(r) THEN Idle ELSE asked[q]]

\* cache.set: an entry is renewed in place; of the pasted ones a new workspace's
\* pushes out the oldest.
Stored(entry) ==
  LET full == provider = "pasted" /\ Len(cache) >= MaxCached
  IN IF \E i \in DOMAIN cache : cache[i].of = entry.of
       THEN [i \in DOMAIN cache |-> IF cache[i].of = entry.of THEN entry ELSE cache[i]]
       ELSE Append(IF full THEN Tail(cache) ELSE cache, entry)

\* When an answer's token stops being used; expires_at may be unreadable.
Expiries(a) ==
  IF provider = "app" THEN {a.until - Margin, now + Assumed} ELSE {now + PastedTtl}

\* Nothing saved is no token: the call throws rather than go unauthenticated.
Denied(r) == provider = "pasted" /\ asked[r].token = NoSecret

Arrives(r) ==
  LET a == asked[r] IN
  /\ a # Idle /\ ~Denied(r)
  /\ \E e \in Expiries(a) :
       cache' = Stored([of |-> a.of, token |-> a.token, until |-> a.until, expires |-> e])
  /\ sent' = SentWith(a) /\ asked' = Answered(r)
  /\ UNCHANGED <<now, provider, owners, faults>>

\* Denied, refused or late: every waiting call throws, nothing is kept.
Fails(r) ==
  /\ asked[r] # Idle
  /\ IF Denied(r) THEN UNCHANGED faults ELSE faults < MaxFaults /\ faults' = faults + 1
  /\ asked' = Answered(r)
  /\ UNCHANGED <<now, provider, owners, cache, sent>>

Next ==
  \/ Tick \/ ChangeSecret
  \/ \E k \in Keys, t \in Tokens : SetToken(k, t)
  \/ \E r \in Requests :
       \/ \E k \in Keys : Hit(r, k) \/ Join(r, k) \/ Ask(r, k)
       \/ Arrives(r) \/ Fails(r)

Spec == Init /\ [][Next]_vars

-----------------------------------------------------------------------------
\* "Renew a minute early so a token never expires mid-review", also when its end
\* is unreadable; and a pasted token was the workspace's own within the cache's
\* time and that of the answer, whichever answers crossed.
TokenIsGood ==
  sent # Unsent =>
    IF provider = "app" THEN now + Margin < sent.until
    ELSE sent.token \in Pasted /\ hadToken[sent.of][sent.token] > now - PastedTtl - Timeout
=============================================================================
