---------------------------- MODULE Authorization ----------------------------
(***************************************************************************)
(* The OAuth tokens of a MyBuildings configuration (broker getAPI, abb     *)
(* Authorize, conf PersistAuthorization and InvalidateAuthorization).      *)
(* Every request to ABB is preceded by getAPI: it authorizes with the      *)
(* goroutine's copy of the configuration, then writes the token it got to  *)
(* the row or, on an error, clears the row. The collector, the             *)
(* subscription and the output listener do this concurrently, each with a  *)
(* copy of its own.                                                        *)
(*                                                                         *)
(* A token is known by its client, by whether it has more than two hours   *)
(* left (fresh), and by whether ABB still accepts it for a refresh         *)
(* (current). Data and status subscription authorize alike: "listen"       *)
(* stands for either.                                                      *)
(***************************************************************************)
EXTENDS Naturals

CONSTANTS
  Clients,      \* OAuth clients (clientID and clientSecret) a user may enter
  Posted,       \* the client of the configuration as it was posted
  NoToken,      \* the token columns are NULL
  NoCopy,       \* an idle goroutine has no copy of the configuration
  MaxEdits,     \* bound: PUTs of the configuration
  MaxFailures   \* bound: requests ABB, the network or the database fails

ASSUME ConstantsAssumption ==
  /\ Posted \in Clients
  /\ MaxEdits \in Nat
  /\ MaxFailures \in Nat

VARIABLES
  row,       \* the configuration's row: client and token
  rotates,   \* does ABB revoke a refresh token when it is used
  phase,     \* of each goroutine
  copy,      \* of each goroutine: its copy of the configuration
  result,    \* of each goroutine: the token ABB has issued, until it is persisted
  second,    \* is the collector past GetLocations, in GetSystems
  known,     \* has a collection succeeded: are there assets with outputs
  logins,    \* how often the user has logged in, counted up to two
  edits, failures   \* counters of the bounded environment

vars == <<row, rotates, phase, copy, result, second, known, logins, edits, failures>>
counters == <<edits, failures>>

Goroutines == {"collector", "listen", "output"}
Phases == {"idle", "authorize", "rejected", "granted", "request"}
Issued == [client : Clients, fresh : BOOLEAN, current : BOOLEAN]
Tokens == Issued \union {NoToken}
Rows == [client : Clients, token : Tokens]

ASSUME NoTokenAssumption == NoToken \notin Issued
ASSUME NoCopyAssumption == NoCopy \notin Rows

\* Every variable keeps its type; a goroutine holds a copy while it is at work.
TypeOK ==
  /\ row \in Rows
  /\ rotates \in BOOLEAN
  /\ phase \in [Goroutines -> Phases]
  /\ copy \in [Goroutines -> Rows \union {NoCopy}]
  /\ \A g \in Goroutines : copy[g] = NoCopy <=> phase[g] = "idle"
  /\ result \in [Goroutines -> Tokens]
  /\ second \in BOOLEAN
  /\ known \in BOOLEAN
  /\ logins \in 0..2
  /\ edits \in 0..MaxEdits
  /\ failures \in 0..MaxFailures

\* A configuration has been posted and the user has not logged in yet.
Init ==
  /\ row = [client |-> Posted, token |-> NoToken]
  /\ rotates \in BOOLEAN
  /\ phase = [g \in Goroutines |-> "idle"]
  /\ copy = [g \in Goroutines |-> NoCopy]
  /\ result = [g \in Goroutines |-> NoToken]
  /\ second = FALSE
  /\ known = FALSE
  /\ logins = 0
  /\ edits = 0
  /\ failures = 0

Move(g, from, to) ==
  /\ phase[g] = from
  /\ phase' = [phase EXCEPT ![g] = to]

\* The handler of goroutine g returns: its locals are gone.
Return(g) ==
  /\ phase' = [phase EXCEPT ![g] = "idle"]
  /\ copy' = [copy EXCEPT ![g] = NoCopy]
  /\ result' = [result EXCEPT ![g] = NoToken]
  /\ second' = IF g = "collector" THEN FALSE ELSE second

Fails ==
  /\ failures < MaxFailures
  /\ failures' = failures + 1
  /\ UNCHANGED edits

-----------------------------------------------------------------------------
(* ABB, time and the user *)

\* What becomes of a token at ABB, every copy of it sees.
InRow(r, F(_)) == [client |-> r.client, token |-> F(r.token)]
InCopies(F(_)) ==
  [g \in Goroutines |-> IF copy[g] = NoCopy THEN NoCopy ELSE InRow(copy[g], F)]

Stale(t) == IF t = NoToken THEN NoToken ELSE [t EXCEPT !.fresh = FALSE]

\* The last two hours of every token begin.
Age ==
  /\ row' = InRow(row, Stale)
  /\ copy' = InCopies(Stale)
  /\ result' = [g \in Goroutines |-> Stale(result[g])]
  /\ UNCHANGED <<rotates, phase, second, known, logins, counters>>

\* ABB issues a token to goroutine g. With rotation the ones it had issued to the
\* same client can no longer be refreshed.
Issue(g) ==
  LET c == copy[g].client
      Retired(t) == IF t # NoToken /\ rotates /\ t.client = c
                      THEN [t EXCEPT !.current = FALSE] ELSE t
  IN /\ row' = InRow(row, Retired)
     /\ copy' = InCopies(Retired)
     /\ result' = [h \in Goroutines |->
                     IF h = g THEN [client |-> c, fresh |-> TRUE, current |-> TRUE]
                              ELSE Retired(result[h])]

Accepts(g) == copy[g].token.client = copy[g].client /\ copy[g].token.current

\* PUT of other credentials, the token columns not given.
PutClient(c) ==
  /\ edits < MaxEdits
  /\ edits' = edits + 1
  /\ row' = [client |-> c, token |-> NoToken]
  /\ UNCHANGED <<rotates, phase, copy, result, second, known, logins, failures>>

-----------------------------------------------------------------------------
(* getAPI *)

\* The collector reads the row in collectData, the listener in setAsset.
Read(g) ==
  /\ g = "collector" \/ (g = "output" /\ known)
  /\ Move(g, "idle", "authorize")
  /\ copy' = [copy EXCEPT ![g] = row]
  /\ UNCHANGED <<row, rotates, result, second, known, logins, counters>>

HasFresh(g) == IF copy[g].token = NoToken THEN FALSE ELSE copy[g].token.fresh

MutPersistAuthorizationCopyOnly(g, token) ==
  /\ copy' = [copy EXCEPT ![g].token = token]
  /\ phase' = [phase EXCEPT ![g] = "request"]
  /\ UNCHANGED row

MutPersistAuthorizationRowOnly(g, token) ==
  /\ row' = [row EXCEPT !.token = token]
  /\ phase' = [phase EXCEPT ![g] = "request"]
  /\ UNCHANGED copy

\* The token is written to the copy and, by id, to the row, whatever it holds.
PersistAuthorization(g, token) ==
  /\ copy' = [copy EXCEPT ![g].token = token]
  /\ row' = [row EXCEPT !.token = token]
  /\ phase' = [phase EXCEPT ![g] = "request"]

\* AuthorizeOAuth reuses a fresh token without a request, and it is persisted.
Reuse(g) ==
  /\ phase[g] = "authorize"
  /\ HasFresh(g)
  /\ PersistAuthorization(g, copy[g].token)
  /\ UNCHANGED <<rotates, result, second, known, logins, counters>>

\* A token that ABB has issued is persisted.
Persist(g) ==
  /\ phase[g] = "granted"
  /\ PersistAuthorization(g, result[g])
  /\ result' = [result EXCEPT ![g] = NoToken]
  /\ UNCHANGED <<rotates, second, known, logins, counters>>

\* A token with less than two hours left is refreshed.
Refresh(g) ==
  /\ phase[g] = "authorize"
  /\ copy[g].token # NoToken
  /\ ~ HasFresh(g)
  /\ IF Accepts(g)
       THEN Move(g, "authorize", "granted") /\ Issue(g)
       ELSE Move(g, "authorize", "rejected") /\ UNCHANGED <<row, copy, result>>
  /\ UNCHANGED <<rotates, second, known, logins, counters>>

\* Without a token the user is asked to log in, and pollForCode waits for it.
Login(g) ==
  /\ Move(g, "authorize", "granted")
  /\ copy[g].token = NoToken
  /\ Issue(g)
  /\ logins' = IF logins = 2 THEN 2 ELSE logins + 1
  /\ UNCHANGED <<rotates, second, known, counters>>

\* pollForCode gives up after two minutes.
LoginTimeout(g) ==
  /\ Move(g, "authorize", "rejected")
  /\ copy[g].token = NoToken
  /\ UNCHANGED <<row, rotates, copy, result, second, known, logins, counters>>

\* A request of Authorize fails for another reason.
AuthorizeFails(g) ==
  /\ Move(g, "authorize", "rejected")
  /\ ~ HasFresh(g)
  /\ Fails
  /\ UNCHANGED <<row, rotates, copy, result, second, known, logins>>

MutInvalidateAuthorizationDeletes(g) ==
  /\ phase[g] = "rejected"
  /\ row' = NoToken
  /\ Return(g)
  /\ UNCHANGED <<rotates, known, logins, counters>>

MutInvalidateAuthorizationKeeps(g) ==
  /\ phase[g] = "rejected"
  /\ Return(g)
  /\ UNCHANGED <<row, rotates, known, logins, counters>>

\* Authorize, or ABB's answer "UNAUTHENTICATED" to a request, has failed: the row
\* is cleared, whatever token it holds by now.
InvalidateAuthorization(g) ==
  /\ phase[g] = "rejected"
  /\ row' = [row EXCEPT !.token = NoToken]
  /\ Return(g)
  /\ UNCHANGED <<rotates, known, logins, counters>>

-----------------------------------------------------------------------------
(* The requests *)

\* GetLocations has its answer: GetSystems calls getAPI with the same copy.
GetSystems ==
  /\ Move("collector", "request", "authorize")
  /\ ~ second
  /\ second' = TRUE
  /\ UNCHANGED <<row, rotates, copy, result, known, logins, counters>>

\* The collection succeeds. A subscription is started with a copy of the copy,
\* unless one runs.
CollectSucceeds ==
  LET starts == IF phase["listen"] = "idle" THEN {"listen"} ELSE {} IN
  /\ phase["collector"] = "request"
  /\ second
  /\ second' = FALSE
  /\ known' = TRUE
  /\ phase' = [g \in Goroutines |-> IF g = "collector" THEN "idle"
                                    ELSE IF g \in starts THEN "authorize" ELSE phase[g]]
  /\ copy' = [g \in Goroutines |-> IF g = "collector" THEN NoCopy
                                   ELSE IF g \in starts THEN copy["collector"] ELSE copy[g]]
  /\ UNCHANGED <<row, rotates, result, logins, counters>>

\* The subscription ends, or the datapoint is written.
RequestEnds(g) ==
  /\ g # "collector"
  /\ phase[g] = "request"
  /\ Return(g)
  /\ UNCHANGED <<row, rotates, known, logins, counters>>

\* The collector and the subscription look for an authentication error in the
\* answer.
Unauthenticated(g) ==
  /\ g # "output"
  /\ Fails
  /\ Move(g, "request", "rejected")
  /\ UNCHANGED <<row, rotates, copy, result, second, known, logins>>

\* Another error, or an error of the listener or of the database, is only returned.
RequestFails(g) ==
  /\ phase[g] \in {"granted", "request"}
  /\ Fails
  /\ Return(g)
  /\ UNCHANGED <<row, rotates, known, logins>>

\* The process dies and is started again: a token that is not yet in the row is lost.
Restart ==
  /\ Fails
  /\ phase' = [g \in Goroutines |-> "idle"]
  /\ copy' = [g \in Goroutines |-> NoCopy]
  /\ result' = [g \in Goroutines |-> NoToken]
  /\ second' = FALSE
  /\ UNCHANGED <<row, rotates, known, logins>>

-----------------------------------------------------------------------------

GetAPI(g) ==
  \/ Reuse(g)
  \/ Refresh(g)
  \/ LoginTimeout(g)
  \/ InvalidateAuthorization(g)
  \/ Persist(g)

Advance(g) ==
  \/ GetAPI(g)
  \/ RequestEnds(g)
  \/ g = "collector" /\ (Read(g) \/ GetSystems \/ CollectSucceeds)

Next ==
  \/ Age
  \/ \E c \in Clients : PutClient(c)
  \/ GetSystems
  \/ CollectSucceeds
  \/ Restart
  \/ \E g \in Goroutines :
       \/ Read(g)
       \/ GetAPI(g)
       \/ Login(g)
       \/ AuthorizeFails(g)
       \/ RequestEnds(g)
       \/ Unauthenticated(g)
       \/ RequestFails(g)

Spec == Init /\ [][Next]_vars

\* Goroutines go on, the collector comes again, time passes for the tokens, and a
\* user whom the collector asks again and again to log in does it.
FairSpec ==
  /\ Spec
  /\ WF_vars(Age)
  /\ \A g \in Goroutines : WF_vars(Advance(g))
  /\ SF_vars(Login("collector"))

-----------------------------------------------------------------------------

\* Why the next property holds: a goroutine that has been
\* granted a token has it, and one that makes a request has it in its copy.
HoldsToken(g) ==
  /\ phase[g] = "granted" => result[g] # NoToken
  /\ phase[g] = "request" => copy[g].token # NoToken

\* A subscription never starts to listen without a token: ListenGraphQL...
\* dereferences it (abb/api.go:167, 174).
ListenHasToken == phase["listen"] # "idle" => copy["listen"].token # NoToken

\* The user logs in "ONCE with your webbrowser" (cloud_auth.go:128) as long as ABB
\* does not rotate refresh tokens, no request fails and nobody edits the
\* configuration, whichever goroutines refresh and persist at the same time.
LoginOnceUndisturbed == ~ rotates /\ failures = 0 /\ edits = 0 => logins <= 1

\* Is goroutine g at a request with a token of the client the user entered last?
Authorized(g) ==
  /\ phase[g] = "request"
  /\ copy[g].token # NoToken
  /\ copy[g].token.client = row.client

\* Whatever edits, failures, refresh races and writes of stale copies there were,
\* the collector comes to be authorized again and again as the client the user
\* entered last; if ABB rotates refresh tokens, the collector may keep losing the
\* race for a refresh, but then to a goroutine that is authorized.
AuthorizedAgain ==
  []<>(Authorized("collector") \/ (rotates /\ \E g \in Goroutines : Authorized(g)))
=============================================================================
