---------------------------- MODULE GitHubSession ----------------------------
(***************************************************************************)
(* One user's GitHub credential in the control plane, and the round trips  *)
(* that bring it.  Every GitHub page first asks for a live token; an       *)
(* expired one is renewed with a refresh token that GitHub accepts once.   *)
(* Requests of one dashboard overlap: the token is read, GitHub is asked,  *)
(* and the answer is written whatever happened to the token meanwhile.     *)
(* Any failure of a renewal forgets the token, GitHub's word or not.       *)
(***************************************************************************)
EXTENDS Integers, FiniteSets

CONSTANTS
  Requests,   \* requests that may be under way together
  States,     \* round trips started in the browser ...
  SignIns,    \* ... those that only sign in, the others install as well
  Ttl,        \* OAUTH_STATE_TTL_MS, in ticks
  MaxGens, MaxNow  \* bounds: token pairs GitHub issues, and ticks

\* What the constants are.
GitHubSessionAssumption == SignIns \subseteq States /\ Ttl \in Nat /\ MaxGens \in Nat /\ MaxNow \in Nat

VARIABLES
  hour,     \* ticks
  issued,   \* token pairs issued so far: the newest is the one GitHub renews
  granted,  \* the authorization stands, no token was revoked
  expired,  \* access tokens up to this one have aged out
  token,    \* the stored pair, 0 when there is none
  renews,   \* pairs come with a refresh token and GitHub is configured
  req,      \* the requests: see Request
  trip,     \* oauthStates: round trip -> when it was started, or NoTrip
  cookie,   \* the state the browser's cookie names
  ended,    \* history: how often a round trip was completed
  raced,    \* history: requests that another's new pair overtook, or was awaited beside
  failed,   \* history: requests whose renewal had no answer GitHub meant
  crossed   \* history: a sign-in came back while a renewal was under way

vars == <<hour, issued, granted, expired, token, renews, req, trip, cookie, ended, raced,
  failed, crossed>>

NoTrip == -1
NoToken == 0
Request == [pc : {"idle", "asking", "renewing", "using", "leaving"},
            read : 0..MaxGens, answer : 0..MaxGens]
Ready == [pc |-> "idle", read |-> NoToken, answer |-> NoToken]

Init ==
  /\ hour = 0 /\ issued = 0 /\ granted = FALSE /\ expired = 0 /\ token = NoToken
  /\ renews \in BOOLEAN /\ req = [q \in Requests |-> Ready] /\ raced = {} /\ failed = {}
  /\ trip = [s \in States |-> NoTrip] /\ cookie = NoTrip
  /\ ended = [s \in States |-> 0] /\ crossed = FALSE

sessionVars == <<issued, granted, expired, token, renews, req, raced, failed, crossed>>
tripVars == <<trip, cookie, ended>>

(***************************************************************************)
(* Round trips: start and connect mint a state, sweep the old ones and set *)
(* the cookie; the way back takes the state, once, and compares the two.   *)
(* An installation's way back insists on the record it took; a sign-in's   *)
(* goes on without it (no code verifier then: GitHub may still refuse).    *)
(***************************************************************************)
Begin(s) ==
  /\ trip[s] = NoTrip /\ ended[s] = 0
  /\ trip' = [t \in States |-> IF t = s THEN hour
                               ELSE IF trip[t] < hour - Ttl THEN NoTrip ELSE trip[t]]
  /\ cookie' = s
  /\ UNCHANGED <<hour, sessionVars, ended>>

Taken(s) == trip[s] # NoTrip /\ hour - trip[s] <= Ttl
Valid(s) == cookie = s /\ (s \in SignIns \/ Taken(s))

(* The cookie of an installation is cleared, a sign-in leaves its own. *)
CookieAfter(s) == IF s \in SignIns THEN cookie ELSE NoTrip

(* exchangeCode gives a new pair, and the authorization stands again. *)
SignedIn(s) ==
  /\ Valid(s) /\ issued < MaxGens /\ issued' = issued + 1
  /\ token' = issued' /\ granted' = TRUE
  /\ ended' = [ended EXCEPT ![s] = @ + 1]
  /\ raced' = raced \cup {q \in Requests : req[q].pc # "idle"}
  /\ crossed' = (crossed \/ \E q \in Requests : req[q].pc \in {"asking", "renewing"})

(* A browser comes back, perhaps again; the state is spent whatever follows: *)
(* the exchange may fail, and an installation may bring no code.             *)
Return(s) ==
  /\ trip[s] # NoTrip \/ cookie = s
  /\ trip' = [trip EXCEPT ![s] = NoTrip]
  /\ cookie' = CookieAfter(s)
  /\ SignedIn(s) \/ UNCHANGED <<issued, token, granted, ended, raced, crossed>>
  /\ UNCHANGED <<hour, expired, renews, req, failed>>

(***************************************************************************)
(* liveGitHubToken                                                         *)
(***************************************************************************)
Spent == token <= expired

Load(q, leaving) ==
  /\ req[q].pc = "idle" /\ token # NoToken /\ (Spent => renews)
  /\ req' = [req EXCEPT ![q] =
       [pc |-> IF Spent THEN "asking" ELSE IF leaving THEN "leaving" ELSE "using",
        read |-> token, answer |-> token]]
  /\ raced' = IF \E o \in Requests : req[o].pc = "renewing" THEN raced \cup {q} ELSE raced \ {q}
  /\ failed' = failed \ {q}
  /\ UNCHANGED <<hour, issued, granted, expired, token, renews, crossed, tripVars>>

(* Expired, and nothing to renew it with: only the user can fix that. *)
LoadSpent(q) ==
  /\ req[q].pc = "idle" /\ token # NoToken /\ Spent /\ ~renews
  /\ token' = NoToken
  /\ UNCHANGED <<hour, issued, granted, expired, renews, req, raced, failed, crossed, tripVars>>

(* GitHub rotates the refresh token: only the newest is worth anything. *)
Renewable(q) == granted /\ req[q].read = issued /\ issued < MaxGens
Answer(q, pair) == req' = [req EXCEPT ![q].pc = "renewing", ![q].answer = pair]
Issue(q) ==
  /\ Renewable(q) /\ issued' = issued + 1
  /\ raced' = raced \cup {o \in Requests \ {q} : req[o].pc # "idle"}

Renew(q) ==
  /\ req[q].pc = "asking"
  /\ \/ Issue(q) /\ Answer(q, issued') /\ UNCHANGED failed
     \/ /\ ~granted \/ req[q].read # issued
        /\ Answer(q, NoToken) /\ UNCHANGED <<issued, raced, failed>>
     \* refreshTokens throws: no answer, or not one of GitHub's
     \/ /\ Issue(q) \/ UNCHANGED <<issued, raced>>
        /\ Answer(q, NoToken) /\ failed' = failed \cup {q}
  /\ UNCHANGED <<hour, granted, expired, token, renews, crossed, tripVars>>

(* The fresh pair is stored; refused or failed, what is stored is forgotten. *)
Renewed(q) ==
  /\ req[q].pc = "renewing"
  /\ token' = req[q].answer
  /\ req' = [req EXCEPT ![q].pc = IF req[q].answer = NoToken THEN "idle" ELSE "using"]
  /\ UNCHANGED <<hour, issued, granted, expired, renews, raced, failed, crossed, tripVars>>

(* A page uses the token: a rejected credential is forgotten (sendGitHubError). *)
\* Mutant: any failure of GitHub's forgets the token.
RejectedAlways(q) == TRUE

Rejected(q) == ~granted \/ req[q].answer <= expired

Use(q) ==
  /\ req[q].pc = "using"
  /\ token' = IF Rejected(q) THEN NoToken ELSE token
  /\ req' = [req EXCEPT ![q] = Ready]
  /\ UNCHANGED <<hour, issued, granted, expired, renews, raced, failed, crossed, tripVars>>

(* POST disconnect: the grant is revoked, failing that the token is dropped anyway. *)
Leave(q) ==
  /\ req[q].pc = "leaving"
  /\ granted' \in {FALSE, granted}
  /\ token' = NoToken
  /\ req' = [req EXCEPT ![q] = Ready]
  /\ UNCHANGED <<hour, issued, expired, renews, raced, failed, crossed, tripVars>>

Pass ==
  /\ hour < MaxNow /\ hour' = hour + 1
  /\ UNCHANGED <<sessionVars, tripVars>>

Expire ==
  /\ expired < issued /\ expired' = issued
  /\ UNCHANGED <<hour, issued, granted, token, renews, req, raced, failed, crossed, tripVars>>

Next ==
  \/ \E s \in States : Begin(s) \/ Return(s)
  \/ \E q \in Requests : \/ \E leaving \in BOOLEAN : Load(q, leaving)
                         \/ LoadSpent(q) \/ Renew(q) \/ Renewed(q) \/ Use(q) \/ Leave(q)
  \/ Pass \/ Expire

Spec == Init /\ [][Next]_vars

-----------------------------------------------------------------------------
(* Every variable has its type. *)
TypeOK ==
  /\ hour \in 0..MaxNow /\ issued \in 0..MaxGens /\ expired \in 0..issued
  /\ granted \in BOOLEAN /\ token \in 0..issued /\ raced \subseteq Requests
  /\ renews \in BOOLEAN /\ crossed \in BOOLEAN /\ failed \subseteq Requests
  /\ req \in [Requests -> Request] /\ trip \in [States -> NoTrip..MaxNow]
  /\ cookie \in States \cup {NoTrip} /\ ended \in [States -> Nat]

(***************************************************************************)
(* "They stay signed in for as long as the refresh token lives": while the *)
(* authorization stands, the stored credential is lost only to a user who  *)
(* disconnects, when it expired and cannot be renewed, when a page used it *)
(* and it aged out under its hands, or by a renewal: one that failed, one  *)
(* beside which another renewed or brought a pair, or one a sign-in        *)
(* overtook.                                                               *)
(***************************************************************************)
LostBy(q) ==
  /\ req[q].pc # "idle" /\ req'[q].pc = "idle"
  /\ req[q].pc = "renewing" => q \in raced \cup failed \/ crossed
  /\ req[q].pc = "using" => req[q].answer <= expired

LostOnlyByOverlap ==
  [][granted /\ issued < MaxGens /\ token # NoToken /\ token' = NoToken =>
       (Spent /\ ~renews) \/ \E q \in Requests : LostBy(q)]_vars

(***************************************************************************)
(* What is stored when nothing is under way is nothing or the newest pair, *)
(* so the next renewal will be accepted: two renewals that overlap, or one *)
(* whose answer was lost, cost the sign-in at worst, they never leave a    *)
(* spent refresh token behind that looks good.  A sign-in that overtakes a *)
(* renewal is the exception: the renewal's late answer, pair or refusal,   *)
(* replaces what it stored.                                                *)
(***************************************************************************)
StoredIsNewest ==
  ~crossed /\ (\A q \in Requests : req[q].pc = "idle") => token \in {NoToken, issued}

(* An installation that was started is completed at most once, however     *)
(* often the browser comes back with it (a sign-in's way back does not     *)
(* insist on the record: nothing here but GitHub stops a second one).      *)
TripEndsOnce == \A s \in States \ SignIns : ended[s] <= 1

(***************************************************************************)
(* The three together: what a page load, a renewal or a sign-in leaves     *)
(* behind is the newest credential or none, lost only to an overlap or a   *)
(* renewal that failed or cannot be, and no installation happens twice.    *)
(***************************************************************************)
CredentialIsKept == LostOnlyByOverlap /\ [][StoredIsNewest' /\ TripEndsOnce']_vars
=============================================================================
