------------------------- MODULE AuthorizationProofs -------------------------
(***************************************************************************)
(* Theorems about Authorization, for every set of clients and every value  *)
(* of the bounds.                                                          *)
(***************************************************************************)
EXTENDS Authorization, TLAPS

\* A token keeps its type, and stays a token, whatever becomes of it.
LEMMA StaleToken ==
  ASSUME NEW t \in Tokens
  PROVE  /\ Stale(t) \in Tokens
         /\ Stale(t) = NoToken <=> t = NoToken
BY NoTokenAssumption DEF Stale, Tokens, Issued

\* Every variable keeps its type, and a goroutine has a copy of the configuration
\* exactly while it is at work.
THEOREM TypeCorrect == Spec => []TypeOK
<1>1. Init => TypeOK
  <2> SUFFICES ASSUME Init PROVE TypeOK
    OBVIOUS
  <2>1. row \in Rows
    BY ConstantsAssumption DEF Init, Rows, Tokens
  <2>2. /\ phase \in [Goroutines -> Phases]
        /\ copy \in [Goroutines -> Rows \union {NoCopy}]
        /\ result \in [Goroutines -> Tokens]
        /\ \A g \in Goroutines : copy[g] = NoCopy <=> phase[g] = "idle"
    BY DEF Init, Phases, Tokens
  <2>3. logins \in 0..2 /\ edits \in 0..MaxEdits /\ failures \in 0..MaxFailures
    BY ConstantsAssumption DEF Init
  <2>4. rotates \in BOOLEAN /\ second \in BOOLEAN /\ known \in BOOLEAN
    BY DEF Init
  <2> QED
    BY <2>1, <2>2, <2>3, <2>4 DEF TypeOK
<1>2. TypeOK /\ [Next]_vars => TypeOK'
  <2> SUFFICES ASSUME TypeOK, [Next]_vars PROVE TypeOK'
    OBVIOUS
  <2> USE ConstantsAssumption, NoCopyAssumption DEF TypeOK, Phases, counters
  <2>0. Fails => edits' \in 0..MaxEdits /\ failures' \in 0..MaxFailures
    BY DEF Fails
  <2>1. CASE Age
    <3>1. InRow(row, Stale) \in Rows
      BY StaleToken DEF InRow, Rows
    <3>2. ASSUME NEW g \in Goroutines, copy[g] # NoCopy
          PROVE  InRow(copy[g], Stale) \in Rows
      BY <3>2, StaleToken DEF InRow, Rows
    <3>3. copy' \in [Goroutines -> Rows \union {NoCopy}]
      BY <2>1, <3>2 DEF Age, InCopies
    <3>4. \A g \in Goroutines : copy'[g] = NoCopy <=> phase'[g] = "idle"
      BY <2>1, <3>2 DEF Age, InCopies
    <3>5. result' \in [Goroutines -> Tokens]
      BY <2>1, StaleToken DEF Age
    <3> QED
      BY <2>1, <3>1, <3>3, <3>4, <3>5 DEF Age
  <2>2. ASSUME NEW c \in Clients, PutClient(c) PROVE TypeOK'
    BY <2>2 DEF PutClient, Rows, Tokens
  <2>3. CASE GetSystems
    BY <2>3 DEF GetSystems, Move, Goroutines
  <2>4. CASE CollectSucceeds
    BY <2>4 DEF CollectSucceeds, Goroutines
  <2>5. CASE Restart
    <3>1. /\ phase' \in [Goroutines -> Phases]
          /\ copy' \in [Goroutines -> Rows \union {NoCopy}]
          /\ result' \in [Goroutines -> Tokens]
          /\ \A g \in Goroutines : copy'[g] = NoCopy <=> phase'[g] = "idle"
      BY <2>5 DEF Restart, Tokens
    <3> QED
      BY <2>0, <2>5, <3>1 DEF Restart
  <2>6. ASSUME NEW g \in Goroutines, Read(g) PROVE TypeOK'
    BY <2>6 DEF Read, Move
  <2>7. ASSUME NEW g \in Goroutines, Issue(g), phase[g] = "authorize",
               phase' = [phase EXCEPT ![g] = "granted"],
               UNCHANGED <<rotates, second, known, counters>>, logins' \in 0..2
        PROVE  TypeOK'
    <3> DEFINE R(t) == IF t # NoToken /\ rotates /\ t.client = copy[g].client
                         THEN [t EXCEPT !.current = FALSE] ELSE t
    <3>1. \A t \in Tokens : R(t) \in Tokens
      BY DEF Tokens, Issued
    <3>2. row' = InRow(row, R) /\ copy' = InCopies(R)
          /\ result' = [h \in Goroutines |->
                IF h = g THEN [client |-> copy[g].client, fresh |-> TRUE, current |-> TRUE]
                         ELSE R(result[h])]
      BY <2>7 DEF Issue
    <3> HIDE DEF R
    <3>3. \A r \in Rows : InRow(r, R) \in Rows
      BY <3>1 DEF InRow, Rows
    <3>4. copy' \in [Goroutines -> Rows \union {NoCopy}]
      BY <3>2, <3>3 DEF InCopies
    <3>5. \A h \in Goroutines : copy'[h] = NoCopy <=> phase'[h] = "idle"
      BY <2>7, <3>2, <3>3 DEF InCopies
    <3>6. copy[g].client \in Clients
      BY <2>7 DEF Rows
    <3>7. result' \in [Goroutines -> Tokens]
      BY <3>1, <3>2, <3>6 DEF Tokens, Issued
    <3> QED
      BY <2>7, <3>2, <3>3, <3>4, <3>5, <3>7
  <2>8. ASSUME NEW g \in Goroutines, GetAPI(g) PROVE TypeOK'
    <3>1. ASSUME NEW t \in Tokens, PersistAuthorization(g, t), phase[g] # "idle"
          PROVE  /\ row' \in Rows
                 /\ copy' \in [Goroutines -> Rows \union {NoCopy}]
                 /\ phase' \in [Goroutines -> Phases]
                 /\ \A h \in Goroutines : copy'[h] = NoCopy <=> phase'[h] = "idle"
      <4>1. [copy[g] EXCEPT !.token = t] \in Rows
        BY <3>1 DEF Rows
      <4> QED
        BY <3>1, <4>1 DEF PersistAuthorization, Rows
    <3>2. CASE Reuse(g)
      <4>1. copy[g].token \in Tokens /\ phase[g] # "idle"
        BY <3>2 DEF Reuse, Rows
      <4> QED
        BY <3>1, <3>2, <4>1 DEF Reuse
    <3>3. CASE Persist(g)
      <4>1. result[g] \in Tokens /\ phase[g] # "idle"
        BY <3>3 DEF Persist
      <4> QED
        BY <3>1, <3>3, <4>1 DEF Persist, Tokens
    <3>4. CASE Refresh(g)
      BY <2>7, <3>4 DEF Refresh, Move
    <3>5. CASE LoginTimeout(g)
      BY <3>5 DEF LoginTimeout, Move
    <3>6. CASE InvalidateAuthorization(g)
      BY <3>6 DEF InvalidateAuthorization, Return, Rows, Tokens
    <3> QED
      BY <2>8, <3>2, <3>3, <3>4, <3>5, <3>6 DEF GetAPI
  <2>9. ASSUME NEW g \in Goroutines, Login(g) PROVE TypeOK'
    <3>1. logins' \in 0..2
      BY <2>9 DEF Login
    <3> QED
      BY <2>7, <2>9, <3>1 DEF Login, Move
  <2>10. ASSUME NEW g \in Goroutines, AuthorizeFails(g) \/ Unauthenticated(g) PROVE TypeOK'
    BY <2>10 DEF AuthorizeFails, Unauthenticated, Move, Fails
  <2>11. ASSUME NEW g \in Goroutines, RequestEnds(g) PROVE TypeOK'
    BY <2>11 DEF RequestEnds, Return, Tokens
  <2>12. ASSUME NEW g \in Goroutines, RequestFails(g) PROVE TypeOK'
    <3>1. /\ phase' \in [Goroutines -> Phases]
          /\ copy' \in [Goroutines -> Rows \union {NoCopy}]
          /\ result' \in [Goroutines -> Tokens]
          /\ \A h \in Goroutines : copy'[h] = NoCopy <=> phase'[h] = "idle"
          /\ second' \in BOOLEAN
      BY <2>12 DEF RequestFails, Return, Tokens
    <3> QED
      BY <2>0, <2>12, <3>1 DEF RequestFails
  <2>13. CASE UNCHANGED vars
    BY <2>13 DEF vars
  <2> QED
    BY <2>1, <2>2, <2>3, <2>4, <2>5, <2>6, <2>8, <2>9, <2>10, <2>11, <2>12, <2>13 DEF Next
<1> QED
  BY <1>1, <1>2, PTL DEF Spec

\* A goroutine that works with a token holds one: ABB issues or returns it before
\* it is persisted, and it is persisted to the copy as well as to the row before
\* the request that needs it.
THEOREM TokenHeld == Spec => [](\A g \in Goroutines : HoldsToken(g))
<1> DEFINE Held == \A g \in Goroutines : HoldsToken(g)
<1>1. Init => Held
  BY DEF Init, HoldsToken
<1>2. TypeOK /\ Held /\ [Next]_vars => Held'
  <2> SUFFICES ASSUME TypeOK, Held, [Next]_vars PROVE Held'
    OBVIOUS
  <2> USE DEF TypeOK, HoldsToken
  <2>1. CASE Age
    <3>1. \A g \in Goroutines : copy[g] # NoCopy => copy[g].token \in Tokens
      BY DEF Rows
    <3> QED
      BY <2>1, <3>1, StaleToken DEF Age, InCopies, InRow
  <2>2. ASSUME NEW c \in Clients, PutClient(c) PROVE Held'
    BY <2>2 DEF PutClient
  <2>3. CASE GetSystems
    BY <2>3 DEF GetSystems, Move, Goroutines
  <2>4. CASE CollectSucceeds
    BY <2>4 DEF CollectSucceeds, Goroutines
  <2>5. CASE Restart
    BY <2>5 DEF Restart
  <2>6. ASSUME NEW g \in Goroutines, Read(g) PROVE Held'
    BY <2>6 DEF Read, Move
  <2>7. ASSUME NEW g \in Goroutines, Issue(g), phase[g] = "authorize",
               phase' = [phase EXCEPT ![g] = "granted"]
        PROVE  Held'
    <3> DEFINE R(t) == IF t # NoToken /\ rotates /\ t.client = copy[g].client
                         THEN [t EXCEPT !.current = FALSE] ELSE t
    <3>1. \A t \in Tokens : R(t) = NoToken <=> t = NoToken
      BY NoTokenAssumption DEF Tokens, Issued
    <3>2. /\ copy' = InCopies(R)
          /\ result' = [h \in Goroutines |->
                IF h = g THEN [client |-> copy[g].client, fresh |-> TRUE, current |-> TRUE]
                         ELSE R(result[h])]
      BY <2>7 DEF Issue
    <3> HIDE DEF R
    <3>3. \A h \in Goroutines : copy[h] # NoCopy => copy[h].token \in Tokens
      BY DEF Rows
    <3>4. copy[g].client \in Clients
      BY <2>7 DEF Rows
    <3>5. result'[g] # NoToken
      <4>1. [client |-> copy[g].client, fresh |-> TRUE, current |-> TRUE] \in Issued
        BY <3>4 DEF Issued
      <4>2. result'[g] = [client |-> copy[g].client, fresh |-> TRUE, current |-> TRUE]
        BY <3>2
      <4> QED
        BY <4>1, <4>2, NoTokenAssumption
    <3>6. ASSUME NEW h \in Goroutines, h # g PROVE HoldsToken(h)'
      BY <2>7, <3>1, <3>2, <3>3, <3>6 DEF InCopies, InRow, Phases
    <3> QED
      BY <2>7, <3>5, <3>6
  <2>8. ASSUME NEW g \in Goroutines, GetAPI(g) PROVE Held'
    <3>1. ASSUME NEW t \in Tokens, t # NoToken, PersistAuthorization(g, t),
                 phase[g] # "idle", \A h \in Goroutines \ {g} : result'[h] = result[h]
          PROVE  Held'
      BY <3>1 DEF PersistAuthorization, Rows
    <3>2. CASE Reuse(g)
      <4>1. copy[g].token \in Tokens /\ copy[g].token # NoToken /\ phase[g] # "idle"
        BY <3>2 DEF Reuse, HasFresh, Rows
      <4> QED
        BY <3>1, <3>2, <4>1 DEF Reuse
    <3>3. CASE Persist(g)
      BY <3>1, <3>3 DEF Persist
    <3>4. CASE Refresh(g)
      BY <2>7, <3>4 DEF Refresh, Move
    <3>5. CASE LoginTimeout(g)
      BY <3>5 DEF LoginTimeout, Move
    <3>6. CASE InvalidateAuthorization(g)
      BY <3>6 DEF InvalidateAuthorization, Return
    <3> QED
      BY <2>8, <3>2, <3>3, <3>4, <3>5, <3>6 DEF GetAPI
  <2>9. ASSUME NEW g \in Goroutines, Login(g) PROVE Held'
    BY <2>7, <2>9 DEF Login, Move
  <2>10. ASSUME NEW g \in Goroutines, AuthorizeFails(g) \/ Unauthenticated(g) PROVE Held'
    BY <2>10 DEF AuthorizeFails, Unauthenticated, Move
  <2>11. ASSUME NEW g \in Goroutines, RequestEnds(g) \/ RequestFails(g) PROVE Held'
    BY <2>11 DEF RequestEnds, RequestFails, Return
  <2>12. CASE UNCHANGED vars
    BY <2>12 DEF vars
  <2> QED
    BY <2>1, <2>2, <2>3, <2>4, <2>5, <2>6, <2>8, <2>9, <2>10, <2>11, <2>12 DEF Next
<1> QED
  BY <1>1, <1>2, TypeCorrect, PTL DEF Spec

\* A subscription never starts to listen without a token, whatever failed, was
\* edited, refreshed or invalidated before: the collector hands it a copy that the
\* last request of the collection was authorized with.
THEOREM ListenerHasToken == Spec => []ListenHasToken
<1>1. Init => ListenHasToken
  BY DEF Init, ListenHasToken, Goroutines
<1>2. ASSUME TypeOK, \A g \in Goroutines : HoldsToken(g), ListenHasToken, [Next]_vars
      PROVE  ListenHasToken'
  <2> USE <1>2 DEF TypeOK, ListenHasToken
  <2>0. "listen" \in Goroutines /\ "collector" \in Goroutines
    BY DEF Goroutines
  <2>1. CASE Age
    <3>1. copy["listen"] # NoCopy => copy["listen"].token \in Tokens
      BY <2>0 DEF Rows
    <3> QED
      BY <2>0, <2>1, <3>1, StaleToken DEF Age, InCopies, InRow
  <2>2. ASSUME NEW c \in Clients, PutClient(c) PROVE ListenHasToken'
    BY <2>2 DEF PutClient
  <2>3. CASE GetSystems
    BY <2>0, <2>3 DEF GetSystems, Move
  <2>4. CASE CollectSucceeds
    <3>1. copy["collector"].token # NoToken
      BY <2>0, <2>4 DEF CollectSucceeds, HoldsToken
    <3> QED
      BY <2>0, <2>4, <3>1 DEF CollectSucceeds
  <2>5. CASE Restart
    BY <2>0, <2>5 DEF Restart
  <2>6. ASSUME NEW g \in Goroutines, Read(g) PROVE ListenHasToken'
    BY <2>0, <2>6 DEF Read, Move
  <2>7. ASSUME NEW g \in Goroutines, Issue(g), phase[g] # "idle",
               phase' = [phase EXCEPT ![g] = "granted"]
        PROVE  ListenHasToken'
    <3> DEFINE R(t) == IF t # NoToken /\ rotates /\ t.client = copy[g].client
                         THEN [t EXCEPT !.current = FALSE] ELSE t
    <3>1. \A t \in Tokens : R(t) = NoToken <=> t = NoToken
      BY NoTokenAssumption DEF Tokens, Issued
    <3>2. copy' = InCopies(R)
      BY <2>7 DEF Issue
    <3> HIDE DEF R
    <3>3. copy["listen"] # NoCopy => copy["listen"].token \in Tokens
      BY <2>0 DEF Rows
    <3> QED
      BY <2>0, <2>7, <3>1, <3>2, <3>3 DEF InCopies, InRow
  <2>8. ASSUME NEW g \in Goroutines, GetAPI(g) PROVE ListenHasToken'
    <3>1. CASE Reuse(g)
      BY <2>0, <3>1 DEF Reuse, HasFresh, PersistAuthorization, Rows
    <3>2. CASE Persist(g)
      BY <2>0, <3>2 DEF Persist, HoldsToken, PersistAuthorization, Rows
    <3>3. CASE Refresh(g)
      BY <2>0, <2>7, <3>3 DEF Refresh, Move
    <3>4. CASE LoginTimeout(g)
      BY <2>0, <3>4 DEF LoginTimeout, Move
    <3>5. CASE InvalidateAuthorization(g)
      BY <2>0, <3>5 DEF InvalidateAuthorization, Return
    <3> QED
      BY <2>8, <3>1, <3>2, <3>3, <3>4, <3>5 DEF GetAPI
  <2>9. ASSUME NEW g \in Goroutines, Login(g) PROVE ListenHasToken'
    BY <2>7, <2>9 DEF Login, Move
  <2>10. ASSUME NEW g \in Goroutines, AuthorizeFails(g) \/ Unauthenticated(g)
         PROVE  ListenHasToken'
    BY <2>0, <2>10 DEF AuthorizeFails, Unauthenticated, Move
  <2>11. ASSUME NEW g \in Goroutines, RequestEnds(g) \/ RequestFails(g)
         PROVE  ListenHasToken'
    BY <2>0, <2>11 DEF RequestEnds, RequestFails, Return
  <2>12. CASE UNCHANGED vars
    BY <2>12 DEF vars
  <2> QED
    BY <2>1, <2>2, <2>3, <2>4, <2>5, <2>6, <2>8, <2>9, <2>10, <2>11, <2>12 DEF Next
<1> QED
  BY <1>1, <1>2, TypeCorrect, TokenHeld, PTL DEF Spec
-----------------------------------------------------------------------------
(* One login. Undisturbed, every token there is belongs to the posted client and *)
(* is accepted for a refresh, so no goroutine is ever rejected once the first    *)
(* token is in the row; before that only the collector is at work.              *)

Undisturbed == ~ rotates /\ failures = 0 /\ edits = 0

Accepted(t) == t # NoToken => t.client = Posted /\ t.current

TokensAccepted ==
  /\ row.client = Posted
  /\ Accepted(row.token)
  /\ \A g \in Goroutines : /\ Accepted(result[g])
                           /\ copy[g] # NoCopy => /\ copy[g].client = Posted
                                                  /\ Accepted(copy[g].token)

\* Before the first token is in the row ...
BeforeToken ==
  /\ ~ known
  /\ \A g \in Goroutines : /\ phase[g] # "request"
                           /\ copy[g] # NoCopy => g = "collector" /\ copy[g].token = NoToken
  /\ logins = IF phase["collector"] = "granted" THEN 1 ELSE 0

\* ... and from then on.
WithToken ==
  /\ logins <= 1
  /\ \A g \in Goroutines : /\ phase[g] # "rejected"
                           /\ copy[g] # NoCopy => copy[g].token # NoToken

OnceInv == Undisturbed =>
  /\ TokensAccepted
  /\ IF row.token = NoToken THEN BeforeToken ELSE WithToken

\* Without rotation only the goroutine that asked for a token gets something new.
LEMMA IssueUnrotated ==
  ASSUME TypeOK, ~ rotates, NEW g \in Goroutines, phase[g] = "authorize", Issue(g)
  PROVE  /\ row' = row
         /\ copy' = copy
         /\ result' = [result EXCEPT ![g] =
                         [client |-> copy[g].client, fresh |-> TRUE, current |-> TRUE]]
<1> USE DEF TypeOK
<1> DEFINE R(t) == IF t # NoToken /\ rotates /\ t.client = copy[g].client
                     THEN [t EXCEPT !.current = FALSE] ELSE t
<1>1. \A t : R(t) = t
  OBVIOUS
<1>2. row' = InRow(row, R) /\ copy' = InCopies(R)
      /\ result' = [h \in Goroutines |->
            IF h = g THEN [client |-> copy[g].client, fresh |-> TRUE, current |-> TRUE]
                     ELSE R(result[h])]
  BY DEF Issue
<1> HIDE DEF R
<1>3. \A r \in Rows : InRow(r, R) = r
  BY <1>1 DEF InRow, Rows
<1>4. copy' = copy
  <2>1. ASSUME NEW h \in Goroutines
        PROVE  (IF copy[h] = NoCopy THEN NoCopy ELSE InRow(copy[h], R)) = copy[h]
    BY <1>3
  <2> QED
    BY <1>2, <2>1 DEF InCopies
<1> QED
  BY <1>1, <1>2, <1>3, <1>4

\* An aged token is a token of the same client, accepted as before.
LEMMA StaleAccepted ==
  ASSUME NEW t \in Tokens, Accepted(t)
  PROVE  Accepted(Stale(t))
BY NoTokenAssumption DEF Stale, Tokens, Issued, Accepted

\* No step brings in a token of another client or one that is not accepted.
LEMMA AcceptedStep ==
  ASSUME TypeOK, Undisturbed, Undisturbed', TokensAccepted, [Next]_vars
  PROVE  TokensAccepted'
<1> USE DEF TypeOK
<1>0. failures \in Nat /\ edits \in Nat /\ ~ rotates /\ failures' = 0 /\ edits' = 0
      /\ failures = 0 /\ edits = 0
  BY ConstantsAssumption DEF Undisturbed
<1>a. Accepted(NoToken)
  BY DEF Accepted
<1>1. CASE Age
  <2>1. row'.client = row.client /\ row'.token = Stale(row.token)
    BY <1>1 DEF Age, InRow
  <2>2. Accepted(row'.token) /\ row'.client = Posted
    BY <2>1, StaleAccepted DEF TokensAccepted, Rows
  <2>3. ASSUME NEW g \in Goroutines
        PROVE  /\ Accepted(result'[g])
               /\ copy'[g] # NoCopy => /\ copy'[g].client = Posted
                                       /\ Accepted(copy'[g].token)
    <3>1. Accepted(result'[g])
      BY <1>1, StaleAccepted DEF Age, TokensAccepted
    <3>2. ASSUME copy[g] # NoCopy
          PROVE  /\ copy'[g].client = copy[g].client
                 /\ copy'[g].token = Stale(copy[g].token)
                 /\ copy[g].token \in Tokens
      BY <1>1, <3>2 DEF Age, InCopies, InRow, Rows
    <3>3. copy[g] = NoCopy => copy'[g] = NoCopy
      BY <1>1 DEF Age, InCopies
    <3> QED
      BY <3>1, <3>2, <3>3, StaleAccepted DEF TokensAccepted
  <2> QED
    BY <2>2, <2>3 DEF TokensAccepted
<1>2. ASSUME NEW c \in Clients, PutClient(c) PROVE TokensAccepted'
  BY <1>0, <1>2 DEF PutClient
<1>3. CASE GetSystems
  BY <1>3 DEF GetSystems, TokensAccepted
<1>4. CASE CollectSucceeds
  <2>1. copy["collector"] # NoCopy /\ "collector" \in Goroutines
    BY <1>4 DEF CollectSucceeds, Goroutines
  <2> QED
    BY <1>4, <2>1 DEF CollectSucceeds, TokensAccepted
<1>5. ASSUME NEW g \in Goroutines, Read(g) PROVE TokensAccepted'
  BY <1>5 DEF Read, TokensAccepted, Move
<1>6. ASSUME NEW g \in Goroutines, Issue(g), phase[g] = "authorize" PROVE TokensAccepted'
  <2>1. /\ row' = row /\ copy' = copy
        /\ result' = [result EXCEPT ![g] =
                        [client |-> copy[g].client, fresh |-> TRUE, current |-> TRUE]]
    BY <1>0, <1>6, IssueUnrotated
  <2>2. copy[g].client = Posted
    BY <1>6 DEF TokensAccepted
  <2>3. Accepted(result'[g])
    BY <2>1, <2>2 DEF Accepted
  <2> QED
    BY <2>1, <2>3 DEF TokensAccepted
<1>7. ASSUME NEW g \in Goroutines, NEW t \in Tokens, Accepted(t), PersistAuthorization(g, t),
             phase[g] # "idle", \A h \in Goroutines : Accepted(result'[h])
      PROVE  TokensAccepted'
  <2>1. row'.client = Posted /\ row'.token = t
    BY <1>7 DEF PersistAuthorization, TokensAccepted, Rows
  <2>2. copy'[g].client = Posted /\ copy'[g].token = t
    BY <1>7 DEF PersistAuthorization, TokensAccepted, Rows
  <2>3. \A h \in Goroutines \ {g} : copy'[h] = copy[h]
    BY <1>7 DEF PersistAuthorization
  <2> QED
    BY <1>7, <2>1, <2>2, <2>3 DEF TokensAccepted
<1>8. ASSUME NEW g \in Goroutines, GetAPI(g) PROVE TokensAccepted'
  <2>1. CASE Reuse(g)
    <3>1. copy[g] # NoCopy /\ copy[g].token \in Tokens
      BY <2>1 DEF Reuse, Rows
    <3> QED
      BY <1>7, <2>1, <3>1 DEF Reuse, TokensAccepted
  <2>2. CASE Refresh(g)
    BY <1>6, <2>2 DEF Refresh, TokensAccepted, Move
  <2>3. CASE LoginTimeout(g)
    BY <2>3 DEF LoginTimeout, TokensAccepted
  <2>4. CASE InvalidateAuthorization(g)
    <3>1. row'.client = row.client /\ row'.token = NoToken
      BY <2>4 DEF InvalidateAuthorization, Rows
    <3> QED
      BY <1>a, <2>4, <3>1 DEF InvalidateAuthorization, Return, TokensAccepted
  <2>5. CASE Persist(g)
    <3>1. Accepted(result[g]) /\ \A h \in Goroutines : Accepted(result'[h])
      BY <1>a, <2>5 DEF Persist, TokensAccepted
    <3> QED
      BY <1>7, <2>5, <3>1 DEF Persist
  <2> QED
    BY <1>8, <2>1, <2>2, <2>3, <2>4, <2>5 DEF GetAPI
<1>9. ASSUME NEW g \in Goroutines, Login(g) PROVE TokensAccepted'
  BY <1>6, <1>9 DEF Login, Move
<1>10. ASSUME NEW g \in Goroutines, RequestEnds(g) PROVE TokensAccepted'
  BY <1>a, <1>10 DEF RequestEnds, Return, TokensAccepted
<1>11. ASSUME Fails PROVE FALSE
  BY <1>0, <1>11 DEF Fails
<1>12. CASE UNCHANGED vars
  BY <1>12 DEF vars, TokensAccepted
<1> QED
  BY <1>1, <1>2, <1>3, <1>4, <1>5, <1>8, <1>9, <1>10, <1>11, <1>12
  DEF Next, AuthorizeFails, Unauthenticated, RequestFails, Restart

\* Until the first token is in the row only the collector is at work, and it asks the
\* user once; afterwards nobody asks, and nobody clears the row.
LEMMA OnceStep ==
  ASSUME TypeOK, \A g \in Goroutines : HoldsToken(g), Undisturbed, Undisturbed',
         TokensAccepted, IF row.token = NoToken THEN BeforeToken ELSE WithToken, [Next]_vars
  PROVE  (IF row.token = NoToken THEN BeforeToken ELSE WithToken)'
<1> USE DEF TypeOK
<1>0. failures \in Nat /\ edits \in Nat /\ ~ rotates /\ failures' = 0 /\ edits' = 0
      /\ failures = 0 /\ edits = 0
  BY ConstantsAssumption DEF Undisturbed
<1>a. {"collector", "listen", "output"} = Goroutines
  BY DEF Goroutines
<1>b. ASSUME Fails PROVE FALSE
  BY <1>0, <1>b DEF Fails
<1>c. ASSUME NEW c \in Clients, PutClient(c) PROVE FALSE
  BY <1>0, <1>c DEF PutClient
<1>1. CASE row.token = NoToken
  <2>0. BeforeToken
    BY <1>1
  <2> USE <2>0 DEF BeforeToken
  <2>1. CASE Age
    <3>1. row'.token = NoToken
      BY <1>1, <2>1 DEF Age, InRow, Stale
    <3>2. BeforeToken'
      BY <2>1, <1>a DEF Age, InCopies, InRow, Stale
    <3> QED
      BY <3>1, <3>2
  <2>2. CASE GetSystems \/ CollectSucceeds
    BY <1>a, <2>2 DEF GetSystems, CollectSucceeds, Move
  <2>3. ASSUME NEW g \in Goroutines, Read(g) PROVE row'.token = NoToken /\ BeforeToken'
    <3>1. g = "collector"
      BY <2>3 DEF Read
    <3> QED
      BY <1>1, <1>a, <2>3, <3>1 DEF Read, Move
  <2>4. ASSUME NEW g \in Goroutines, phase[g] # "idle"
        PROVE  g = "collector" /\ copy[g].token = NoToken /\ ~ HasFresh(g)
    BY <2>4 DEF HasFresh
  <2>5. ASSUME NEW g \in Goroutines, Persist(g) PROVE row'.token # NoToken /\ WithToken'
    <3>1. g = "collector" /\ result[g] # NoToken
      BY <2>4, <2>5 DEF Persist, HoldsToken
    <3>2. row'.token = result[g]
      BY <2>5 DEF Persist, PersistAuthorization, Rows
    <3>3. copy'[g].token = result[g] /\ \A h \in Goroutines \ {g} : copy'[h] = copy[h]
      BY <2>5, <2>4 DEF Persist, PersistAuthorization, Rows
    <3>4. /\ phase'[g] = "request"
          /\ \A h \in Goroutines \ {g} : phase'[h] = phase[h] /\ copy[h] = NoCopy
      BY <2>5, <3>1 DEF Persist, PersistAuthorization
    <3>5. logins' = 1
      BY <2>5, <3>1 DEF Persist
    <3> QED
      BY <3>1, <3>2, <3>3, <3>4, <3>5 DEF WithToken
  <2>6. ASSUME NEW g \in Goroutines, GetAPI(g), ~ Persist(g)
        PROVE  row'.token = NoToken /\ BeforeToken'
    <3>1. CASE LoginTimeout(g)
      BY <1>1, <1>a, <2>4, <3>1 DEF LoginTimeout, Move
    <3>2. CASE InvalidateAuthorization(g)
      <4>1. g = "collector"
        BY <2>4, <3>2 DEF InvalidateAuthorization
      <4>2. row'.token = NoToken
        BY <3>2 DEF InvalidateAuthorization, Rows
      <4> QED
        BY <1>a, <3>2, <4>1, <4>2 DEF InvalidateAuthorization, Return
    <3>3. ~ Reuse(g) /\ ~ Refresh(g)
      BY <2>4 DEF Reuse, Refresh
    <3> QED
      BY <2>6, <3>1, <3>2, <3>3 DEF GetAPI
  <2>7. ASSUME NEW g \in Goroutines, Login(g) PROVE row'.token = NoToken /\ BeforeToken'
    <3>1. g = "collector" /\ phase[g] = "authorize" /\ phase' = [phase EXCEPT ![g] = "granted"]
          /\ known' = known
      BY <2>4, <2>7 DEF Login, Move
    <3>2. row' = row /\ copy' = copy
      BY <1>0, <2>7, <3>1, IssueUnrotated DEF Login
    <3>3. logins' = 1
      BY <2>7, <3>1 DEF Login
    <3> QED
      BY <1>1, <1>a, <3>1, <3>2, <3>3
  <2>8. ASSUME NEW g \in Goroutines, RequestEnds(g) PROVE FALSE
    BY <2>8 DEF RequestEnds
  <2>9. CASE UNCHANGED vars
    BY <1>1, <2>9 DEF vars
  <2> QED
    BY <1>b, <1>c, <2>1, <2>2, <2>3, <2>5, <2>6, <2>7, <2>8, <2>9
    DEF Next, AuthorizeFails, Unauthenticated, RequestFails, Restart
<1>2. CASE row.token # NoToken
  <2>0. WithToken
    BY <1>2
  <2> USE <2>0 DEF WithToken
  <2>1. CASE Age
    <3>1. row'.token # NoToken
      BY <1>2, <2>1, StaleToken DEF Age, InRow, Rows
    <3>2. \A g \in Goroutines : copy[g] # NoCopy => copy[g].token \in Tokens
      BY DEF Rows
    <3>3. WithToken'
      BY <2>1, <3>2, StaleToken DEF Age, InCopies, InRow
    <3> QED
      BY <3>1, <3>3
  <2>2. CASE GetSystems
    BY <1>2, <2>2 DEF GetSystems, Move
  <2>3. CASE CollectSucceeds
    <3>1. copy["collector"] # NoCopy /\ "collector" \in Goroutines
      BY <1>a, <2>3 DEF CollectSucceeds
    <3> QED
      BY <1>2, <2>3, <3>1 DEF CollectSucceeds
  <2>4. ASSUME NEW g \in Goroutines, Read(g) PROVE row'.token # NoToken /\ WithToken'
    BY <1>2, <2>4 DEF Read, Move
  <2>5. ASSUME NEW g \in Goroutines, NEW t \in Tokens, t # NoToken,
               PersistAuthorization(g, t), phase[g] # "idle", logins' = logins
        PROVE  row'.token # NoToken /\ WithToken'
    <3>1. row'.token = t /\ copy'[g].token = t
      BY <2>5 DEF PersistAuthorization, Rows
    <3> QED
      BY <2>5, <3>1 DEF PersistAuthorization
  <2>6. ASSUME NEW g \in Goroutines, GetAPI(g) PROVE row'.token # NoToken /\ WithToken'
    <3>1. CASE Reuse(g)
      <4>1. copy[g].token \in Tokens /\ copy[g].token # NoToken /\ phase[g] # "idle"
        BY <3>1 DEF Reuse, Rows
      <4> QED
        BY <2>5, <3>1, <4>1 DEF Reuse
    <3>2. CASE Persist(g)
      <4>1. result[g] # NoToken /\ result[g] \in Tokens
        BY <3>2 DEF Persist, HoldsToken
      <4> QED
        BY <2>5, <3>2, <4>1 DEF Persist
    <3>3. CASE Refresh(g)
      <4>1. copy[g] # NoCopy /\ phase[g] = "authorize"
        BY <3>3 DEF Refresh
      <4>2. Accepts(g)
        BY <3>3, <4>1 DEF TokensAccepted, Accepted, Accepts, Refresh
      <4>3. Issue(g) /\ phase' = [phase EXCEPT ![g] = "granted"] /\ logins' = logins
        BY <3>3, <4>2 DEF Refresh, Move
      <4>4. row' = row /\ copy' = copy
        BY <1>0, <4>1, <4>3, IssueUnrotated
      <4> QED
        BY <1>2, <4>3, <4>4
    <3>4. ~ LoginTimeout(g) /\ ~ InvalidateAuthorization(g)
      BY DEF LoginTimeout, InvalidateAuthorization, Move
    <3> QED
      BY <2>6, <3>1, <3>2, <3>3, <3>4 DEF GetAPI
  <2>7. ASSUME NEW g \in Goroutines, Login(g) PROVE FALSE
    BY <2>7 DEF Login, Move
  <2>8. ASSUME NEW g \in Goroutines, RequestEnds(g) PROVE row'.token # NoToken /\ WithToken'
    BY <1>2, <2>8 DEF RequestEnds, Return
  <2>9. CASE UNCHANGED vars
    BY <1>2, <2>9 DEF vars
  <2> QED
    BY <1>b, <1>c, <2>1, <2>2, <2>3, <2>4, <2>6, <2>7, <2>8, <2>9
    DEF Next, AuthorizeFails, Unauthenticated, RequestFails, Restart
<1> QED
  BY <1>1, <1>2

\* The user logs in once (cloud_auth.go:128) while ABB does not rotate its tokens,
\* nothing fails and nobody edits the configuration: goroutines that refresh, persist
\* and read the row in any order neither lose the token nor get rejected.
THEOREM LoginOnce == Spec => []LoginOnceUndisturbed
<1>1. Init => OnceInv
  <2> SUFFICES ASSUME Init PROVE OnceInv
    OBVIOUS
  <2>1. TokensAccepted
    BY DEF Init, TokensAccepted, Accepted
  <2>2. row.token = NoToken /\ BeforeToken
    BY DEF Init, BeforeToken, Goroutines
  <2> QED
    BY <2>1, <2>2 DEF OnceInv
<1>2. TypeOK /\ (\A g \in Goroutines : HoldsToken(g)) /\ OnceInv /\ [Next]_vars => OnceInv'
  <2> SUFFICES ASSUME TypeOK, \A g \in Goroutines : HoldsToken(g), OnceInv, [Next]_vars,
                      Undisturbed'
               PROVE  /\ TokensAccepted'
                      /\ (IF row.token = NoToken THEN BeforeToken ELSE WithToken)'
    BY DEF OnceInv
  <2>1. Undisturbed
    <3>1. rotates' = rotates
      BY DEF Next, vars, Age, PutClient, GetSystems, CollectSucceeds, Restart, Read,
         GetAPI, Reuse, Refresh, LoginTimeout, InvalidateAuthorization, Persist, Login,
         AuthorizeFails, RequestEnds, Unauthenticated, RequestFails
    <3>2. \/ failures' = failures /\ edits' = edits
          \/ failures' = failures + 1 /\ edits' = edits
          \/ failures' = failures /\ edits' = edits + 1
      BY DEF Next, vars, Age, PutClient, GetSystems, CollectSucceeds, Restart, Read,
         GetAPI, Reuse, Refresh, LoginTimeout, InvalidateAuthorization, Persist, Login,
         AuthorizeFails, RequestEnds, Unauthenticated, RequestFails, Fails, counters
    <3>3. failures \in Nat /\ edits \in Nat
      BY ConstantsAssumption DEF TypeOK
    <3> QED
      BY <3>1, <3>2, <3>3 DEF Undisturbed
  <2> QED
    BY <2>1, AcceptedStep, OnceStep DEF OnceInv
<1>3. OnceInv => LoginOnceUndisturbed
  <2>1. BeforeToken => logins <= 1
    BY DEF BeforeToken
  <2> QED
    BY <2>1 DEF OnceInv, LoginOnceUndisturbed, Undisturbed, WithToken
<1> QED
  BY <1>1, <1>2, <1>3, TypeCorrect, TokenHeld, PTL DEF Spec
=============================================================================
