------------------------- MODULE ConfigStoreProofs -------------------------
(* Theorems about ConfigStore. The types of the table rest on a bound of its     *)
(* sequence: a POST that is answered 500 moves it past one id that users chose,   *)
(* every other request moves it once.                                         *)
EXTENDS ConfigStore, TLAPS

Top == MaxId + MaxPosts + MaxEdits

Locals ==
  /\ wanted \in Bodies \union {NULL}
  /\ copy \in {NoCopy} \union [id : 1..Top, row : Rows]
  /\ posts \in 0..MaxPosts
  /\ edits \in 0..MaxEdits
  /\ wanted # NULL => posts > 0

RowsComplete == \A id \in DOMAIN table : table[id] \in Rows

SequenceInv ==
  /\ sequence \in Nat
  /\ sequence + (IF wanted = NULL THEN 0 ELSE 1) <= MaxId + posts + edits
  /\ \A id \in DOMAIN table : id \in Nat \ {0} /\ (id <= MaxId \/ id <= sequence)

StoreInv == Locals /\ RowsComplete /\ SequenceInv

-----------------------------------------------------------------------------

\* The row an INSERT makes of a body is complete.
LEMMA ExcludedComplete ==
  ASSUME NEW d, d.type \in Types \union {"none"}, d.enable \in BOOLEAN \union {NULL},
         d.active \in BOOLEAN \union {NULL}, d.refresh \in Nat, d.token \in Tokens \union {NULL}
  PROVE  Excluded(d) \in Rows
<1>1. (IF d.enable = NULL THEN FALSE ELSE d.enable) \in BOOLEAN
  BY Zenon
<1>2. (IF d.active = NULL THEN FALSE ELSE d.active) \in BOOLEAN
  BY Zenon
<1>3. (IF d.refresh = 0 THEN 60 ELSE d.refresh) \in Nat \ {0}
  OBVIOUS
<1> QED
  BY <1>1, <1>2, <1>3 DEF Excluded, Rows

\* What becomes of a body, with its own id or that of the path.
LEMMA BodyConverted ==
  ASSUME NEW b \in BodyTypes, NEW id \in 0..MaxId
  PROVE  /\ Excluded(dbConfigFromApiConfig(b)) \in Rows
         /\ dbConfigFromApiConfig(b).id \in 0..MaxId
         /\ Excluded([dbConfigFromApiConfig(b) EXCEPT !.id = id]) \in Rows
         /\ [dbConfigFromApiConfig(b) EXCEPT !.id = id].id = id
<1> DEFINE d == dbConfigFromApiConfig(b)
           e == [d EXCEPT !.id = id]
<1>1. /\ d.type \in Types \union {"none"} /\ d.enable \in BOOLEAN \union {NULL}
      /\ d.active \in BOOLEAN \union {NULL} /\ d.refresh \in Nat
      /\ d.token \in Tokens \union {NULL} /\ d.id \in 0..MaxId
  BY DEF dbConfigFromApiConfig, BodyTypes
<1>2. /\ e.type = d.type /\ e.enable = d.enable /\ e.active = d.active
      /\ e.refresh = d.refresh /\ e.token = d.token /\ e.id = id
  BY DEF dbConfigFromApiConfig, BodyTypes
<1> HIDE DEF d, e
<1>3. Excluded(d) \in Rows
  BY <1>1, ExcludedComplete
<1>4. Excluded(e) \in Rows
  BY <1>1, <1>2, ExcludedComplete
<1> QED
  BY <1>1, <1>2, <1>3, <1>4 DEF d, e

\* An update of a flag or a token leaves every row complete and adds none.
LEMMA UpdateComplete ==
  ASSUME RowsComplete, NEW id, NEW column, NEW value,
         UpdateAll(id, column, value),
         \/ column = "active" /\ value \in BOOLEAN
         \/ column = "token" /\ value \in Tokens \union {NULL}
  PROVE  RowsComplete' /\ DOMAIN table' = DOMAIN table
<1>1. ASSUME NEW i \in DOMAIN table PROVE [table[i] EXCEPT ![column] = value] \in Rows
  <2>1. table[i] \in Rows
    BY DEF RowsComplete
  <2>2. CASE column = "active" /\ value \in BOOLEAN
    BY <2>1, <2>2 DEF Rows
  <2>3. CASE column = "token" /\ value \in Tokens \union {NULL}
    BY <2>1, <2>3 DEF Rows
  <2> QED
    BY <2>2, <2>3
<1> QED
  BY <1>1 DEF UpdateAll, RowsComplete

-----------------------------------------------------------------------------

LEMMA InitStore == Init => StoreInv
<1> USE ConstantsAssumption
<1> SUFFICES ASSUME Init PROVE StoreInv
  OBVIOUS
<1>1. Locals
  BY DEF Init, Locals, NoCopy
<1>2. table = << >> /\ sequence = 0 /\ wanted = NULL /\ posts = 0 /\ edits = 0
  BY DEF Init
<1>3. RowsComplete /\ SequenceInv
  BY <1>2 DEF RowsComplete, SequenceInv
<1> QED
  BY <1>1, <1>3 DEF StoreInv

LEMMA PostKeeps == StoreInv /\ PostConfiguration => StoreInv'
<1> USE ConstantsAssumption
<1> SUFFICES ASSUME StoreInv, PostConfiguration PROVE StoreInv'
  OBVIOUS
<1> DEFINE d == dbConfigFromApiConfig(wanted)
<1>1. /\ wanted # NULL /\ wanted \in Bodies /\ posts > 0
      /\ Nextval(d)
      /\ table' = IF InsertedId(d) \in DOMAIN table THEN table
                  ELSE Store(table, InsertedId(d), Excluded(d))
      /\ wanted' = IF d.id = 0 /\ InsertedId(d) \in DOMAIN table THEN wanted ELSE NULL
      /\ UNCHANGED <<copy, posts, edits>>
  BY DEF PostConfiguration, Insert, StoreInv, Locals
<1>2. wanted \in BodyTypes
  BY <1>1
<1>3. Excluded(d) \in Rows /\ d.id \in 0..MaxId
  <2>1. 0 \in 0..MaxId
    OBVIOUS
  <2> QED
    BY <1>2, <2>1, BodyConverted
<1> HIDE DEF d
<1>4. Locals'
  BY <1>1 DEF StoreInv, Locals
<1>5. RowsComplete'
  <2>1. CASE InsertedId(d) \in DOMAIN table
    BY <1>1, <2>1 DEF StoreInv, RowsComplete
  <2>2. CASE InsertedId(d) \notin DOMAIN table
    <3>1. table' = Store(table, InsertedId(d), Excluded(d))
      BY <1>1, <2>2
    <3> QED
      BY <3>1, <1>3 DEF Store, StoreInv, RowsComplete
  <2> QED
    BY <2>1, <2>2
<1>6. SequenceInv'
  <2> USE DEF StoreInv, SequenceInv, Nextval, InsertedId, Locals
  <2>1. CASE d.id = 0 /\ InsertedId(d) \in DOMAIN table
    BY <1>1, <2>1
  <2>2. CASE d.id = 0 /\ InsertedId(d) \notin DOMAIN table
    <3>1. DOMAIN table' = DOMAIN table \union {sequence + 1}
      BY <1>1, <2>2 DEF Store
    <3>2. wanted' = NULL /\ sequence' = sequence + 1 /\ UNCHANGED <<posts, edits>>
      BY <1>1, <2>2
    <3> QED
      BY <1>1, <3>1, <3>2
  <2>3. CASE d.id # 0
    <3>1. DOMAIN table' \subseteq DOMAIN table \union {d.id}
      BY <1>1, <2>3 DEF Store
    <3>2. wanted' = NULL /\ sequence' = sequence /\ UNCHANGED <<posts, edits>>
      BY <1>1, <2>3
    <3> QED
      BY <1>1, <1>3, <2>3, <3>1, <3>2
  <2> QED
    BY <2>1, <2>2, <2>3
<1> QED
  BY <1>4, <1>5, <1>6 DEF StoreInv

LEMMA PutKeeps ==
  ASSUME StoreInv, NEW id \in 0..MaxId, NEW b \in Bodies, PutConfigurationById(id, b)
  PROVE  StoreInv'
<1> USE ConstantsAssumption
<1> DEFINE d == [dbConfigFromApiConfig(b) EXCEPT !.id = id]
<1>1. /\ edits < MaxEdits /\ edits' = edits + 1
      /\ Nextval(d)
      /\ table' = Store(table, InsertedId(d), Excluded(d))
      /\ UNCHANGED <<wanted, copy, posts>>
  BY DEF PutConfigurationById, Upserted
<1>2. Excluded(d) \in Rows /\ d.id = id
  BY BodyConverted
<1> HIDE DEF d
<1>3. Locals'
  BY <1>1 DEF StoreInv, Locals
<1>4. RowsComplete'
  BY <1>1, <1>2 DEF Store, StoreInv, RowsComplete
<1>5. SequenceInv'
  <2>1. DOMAIN table' = DOMAIN table \union {InsertedId(d)}
    BY <1>1 DEF Store
  <2> USE DEF StoreInv, SequenceInv, Nextval, InsertedId, Locals
  <2>2. CASE id = 0
    BY <1>1, <1>2, <2>1, <2>2
  <2>3. CASE id # 0
    BY <1>1, <1>2, <2>1, <2>3
  <2> QED
    BY <2>2, <2>3
<1> QED
  BY <1>3, <1>4, <1>5 DEF StoreInv

\* The app's writes.
AppStep ==
  \/ SetConfigActiveState
  \/ \E t \in Tokens : PersistAuthorization(t)
  \/ InvalidateAuthorization

LEMMA AppKeeps == StoreInv /\ AppStep => StoreInv' /\ DOMAIN table' = DOMAIN table
<1> USE ConstantsAssumption
<1> SUFFICES ASSUME StoreInv, AppStep PROVE StoreInv' /\ DOMAIN table' = DOMAIN table
  OBVIOUS
<1>1. UNCHANGED <<sequence, wanted, posts, edits>>
  BY DEF AppStep, SetConfigActiveState, PersistAuthorization, InvalidateAuthorization, users
<1>2. copy \in [id : 1..Top, row : Rows]
  BY DEF AppStep, SetConfigActiveState, PersistAuthorization, InvalidateAuthorization,
         StoreInv, Locals
<1>3. /\ RowsComplete' /\ DOMAIN table' = DOMAIN table
      /\ copy' \in [id : 1..Top, row : Rows]
  <2>1. CASE SetConfigActiveState
    <3>1. copy.row.enable \in BOOLEAN
      BY <1>2 DEF Rows
    <3>2. copy' \in [id : 1..Top, row : Rows]
      BY <1>2, <2>1, <3>1 DEF SetConfigActiveState, Rows
    <3> QED
      BY <2>1, <3>1, <3>2, UpdateComplete DEF SetConfigActiveState, StoreInv
  <2>2. ASSUME NEW t \in Tokens, PersistAuthorization(t)
        PROVE  /\ RowsComplete' /\ DOMAIN table' = DOMAIN table
               /\ copy' \in [id : 1..Top, row : Rows]
    <3>1. copy' \in [id : 1..Top, row : Rows]
      BY <1>2, <2>2 DEF PersistAuthorization, Rows
    <3> QED
      BY <2>2, <3>1, UpdateComplete DEF PersistAuthorization, StoreInv
  <2>3. CASE InvalidateAuthorization
    BY <1>2, <2>3, UpdateComplete DEF InvalidateAuthorization, StoreInv
  <2> QED
    BY <2>1, <2>2, <2>3 DEF AppStep
<1>4. Locals'
  BY <1>1, <1>3 DEF StoreInv, Locals
<1>5. SequenceInv'
  BY <1>1, <1>3 DEF StoreInv, SequenceInv
<1> QED
  BY <1>3, <1>4, <1>5 DEF StoreInv

LEMMA StoreStep == StoreInv /\ [Next]_vars => StoreInv'
<1> USE ConstantsAssumption
<1> SUFFICES ASSUME StoreInv, [Next]_vars PROVE StoreInv'
  OBVIOUS
<1>1. ASSUME NEW b \in Bodies, Want(b) PROVE StoreInv'
  <2>1. /\ wanted = NULL /\ wanted' = b /\ posts < MaxPosts /\ posts' = posts + 1
        /\ UNCHANGED <<table, sequence, copy, edits>>
    BY <1>1 DEF Want
  <2>2. Locals'
    BY <2>1 DEF StoreInv, Locals
  <2>3. SequenceInv'
    BY <2>1 DEF StoreInv, SequenceInv, Locals
  <2> QED
    BY <2>1, <2>2, <2>3 DEF StoreInv, RowsComplete
<1>2. CASE PostConfiguration
  BY <1>2, PostKeeps
<1>3. ASSUME NEW id \in 0..MaxId, NEW b \in Bodies, PutConfigurationById(id, b) PROVE StoreInv'
  BY <1>3, PutKeeps
<1>4. ASSUME NEW id \in DOMAIN table, DeleteConfigurationById(id) PROVE StoreInv'
  <2>1. /\ edits < MaxEdits /\ edits' = edits + 1
        /\ table' = [i \in DOMAIN table \ {id} |-> table[i]]
        /\ UNCHANGED <<sequence, wanted, copy, posts>>
    BY <1>4 DEF DeleteConfigurationById
  <2>2. Locals'
    BY <2>1 DEF StoreInv, Locals
  <2>3. RowsComplete'
    BY <2>1 DEF StoreInv, RowsComplete
  <2>4. SequenceInv'
    BY <2>1 DEF StoreInv, SequenceInv, Locals
  <2> QED
    BY <2>2, <2>3, <2>4 DEF StoreInv
<1>5. ASSUME NEW id \in DOMAIN table, GetConfigs(id) PROVE StoreInv'
  <2>1. /\ copy' = [id |-> id, row |-> table[id]]
        /\ UNCHANGED <<table, sequence, wanted, posts, edits>>
    BY <1>5 DEF GetConfigs, users
  <2>2. table[id] \in Rows /\ id \in 1..Top
    BY DEF StoreInv, RowsComplete, SequenceInv, Locals, Top
  <2>3. Locals'
    BY <2>1, <2>2 DEF StoreInv, Locals
  <2> QED
    BY <2>1, <2>3 DEF StoreInv, RowsComplete, SequenceInv
<1>6. CASE AppStep
  BY <1>6, AppKeeps
<1>7. CASE UNCHANGED vars
  BY <1>7 DEF vars, StoreInv, Locals, RowsComplete, SequenceInv
<1> QED
  BY <1>1, <1>2, <1>3, <1>4, <1>5, <1>6, <1>7 DEF Next, AppStep

LEMMA StoreInvariant == Spec => []StoreInv
BY InitStore, StoreStep, PTL DEF Spec

\* Rows are complete and the sequence stays close to the number of requests
\* (conf.go:44-66), whatever the bodies, the ids and the bounds.
THEOREM TypeCorrect == Spec => []TypeOK
<1> USE ConstantsAssumption
<1>1. StoreInv => TypeOK
  <2> SUFFICES ASSUME StoreInv PROVE TypeOK
    OBVIOUS
  <2>1. posts <= MaxPosts /\ edits <= MaxEdits /\ posts \in Nat /\ edits \in Nat
    BY DEF StoreInv, Locals
  <2>2. sequence \in 0..Top /\ DOMAIN table \subseteq 1..Top
    BY <2>1 DEF StoreInv, SequenceInv, Top
  <2> QED
    BY <2>2 DEF StoreInv, Locals, RowsComplete, TypeOK, Top
<1> QED
  BY <1>1, StoreInvariant, PTL
-----------------------------------------------------------------------------
(* What users asked for *)

\* The columns a request decides, in its row.
Decided(request, row) ==
  /\ row.type = IF request.type \in Types THEN request.type ELSE "none"
  /\ request.enable # NULL => row.enable = request.enable
  /\ row.refresh = IF request.refresh = 0 THEN 60 ELSE request.refresh

RequestInv ==
  /\ DOMAIN asked = DOMAIN table
  /\ \A id \in DOMAIN table : Decided(asked[id], table[id])

LEMMA BodyDecides ==
  ASSUME NEW b \in BodyTypes, NEW id \in 0..MaxId
  PROVE  /\ Decided(b, Excluded(dbConfigFromApiConfig(b)))
         /\ Decided(b, Excluded([dbConfigFromApiConfig(b) EXCEPT !.id = id]))
<1> DEFINE d == dbConfigFromApiConfig(b)
           e == [d EXCEPT !.id = id]
<1>1. /\ d.type = IF b.type \in Types THEN b.type ELSE "none"
      /\ d.enable = b.enable /\ d.refresh = b.refresh
  BY DEF dbConfigFromApiConfig, BodyTypes
<1>2. e.type = d.type /\ e.enable = d.enable /\ e.refresh = d.refresh
  BY DEF dbConfigFromApiConfig, BodyTypes
<1> HIDE DEF d, e
<1>3. \A f : Excluded(f).type = f.type
             /\ Excluded(f).enable = (IF f.enable = NULL THEN FALSE ELSE f.enable)
             /\ Excluded(f).refresh = IF f.refresh = 0 THEN 60 ELSE f.refresh
  BY DEF Excluded
<1>4. Decided(b, Excluded(d))
  <2>1. b.enable # NULL => Excluded(d).enable = b.enable
    BY <1>1, <1>3, Zenon
  <2> QED
    BY <1>1, <1>3, <2>1 DEF Decided
<1>5. Decided(b, Excluded(e))
  <2>1. b.enable # NULL => Excluded(e).enable = b.enable
    BY <1>1, <1>2, <1>3, Zenon
  <2> QED
    BY <1>1, <1>2, <1>3, <2>1 DEF Decided
<1> QED
  BY <1>4, <1>5 DEF d, e

\* Storing a row together with the request that asked for it.
LEMMA StoreDecided ==
  ASSUME RequestInv, NEW id, NEW request, NEW row, Decided(request, row),
         table' = Store(table, id, row), asked' = Store(asked, id, request)
  PROVE  RequestInv'
<1>1. DOMAIN asked' = DOMAIN table'
  BY DEF RequestInv, Store
<1>2. ASSUME NEW i \in DOMAIN table' PROVE Decided(asked'[i], table'[i])
  <2>1. CASE i = id
    BY <2>1 DEF Store, RequestInv
  <2>2. CASE i # id
    <3>1. i \in DOMAIN table /\ table'[i] = table[i] /\ asked'[i] = asked[i]
      BY <1>2, <2>2 DEF Store, RequestInv
    <3> QED
      BY <3>1 DEF RequestInv
  <2> QED
    BY <2>1, <2>2
<1> QED
  BY <1>1, <1>2 DEF RequestInv

\* The columns the app writes are none that a request decides.
LEMMA UpdateDecided ==
  ASSUME RowsComplete, RequestInv, NEW id, NEW column \in {"active", "token"}, NEW value,
         UpdateAll(id, column, value), asked' = asked
  PROVE  RequestInv'
<1>1. ASSUME NEW i \in DOMAIN table
      PROVE  /\ table'[i].type = table[i].type
             /\ table'[i].enable = table[i].enable
             /\ table'[i].refresh = table[i].refresh
  <2>1. table[i] \in Rows
    BY DEF RowsComplete
  <2>2. table'[i] = IF i = id THEN [table[i] EXCEPT ![column] = value] ELSE table[i]
    BY DEF UpdateAll
  <2> QED
    BY <2>1, <2>2 DEF Rows
<1>2. DOMAIN table' = DOMAIN table
  BY DEF UpdateAll
<1>3. ASSUME NEW i \in DOMAIN table PROVE Decided(asked[i], table'[i])
  <2>1. Decided(asked[i], table[i])
    BY DEF RequestInv
  <2> QED
    BY <1>1, <2>1, Zenon DEF Decided
<1> QED
  BY <1>2, <1>3 DEF RequestInv

LEMMA RequestStep == StoreInv /\ RequestInv /\ [Next]_vars => RequestInv'
<1> USE ConstantsAssumption
<1> SUFFICES ASSUME StoreInv, RequestInv, [Next]_vars PROVE RequestInv'
  OBVIOUS
<1>1. CASE UNCHANGED <<table, asked>>
  BY <1>1 DEF RequestInv
<1>2. CASE PostConfiguration
  <2> DEFINE d == dbConfigFromApiConfig(wanted)
  <2>1. wanted \in BodyTypes
    BY <1>2 DEF PostConfiguration, StoreInv, Locals
  <2>2. 0 \in 0..MaxId
    OBVIOUS
  <2>3. Decided(wanted, Excluded(d))
    BY <2>1, <2>2, BodyDecides
  <2>4. CASE InsertedId(d) \in DOMAIN table
    BY <1>2, <2>4, <1>1 DEF PostConfiguration, Insert
  <2>5. CASE InsertedId(d) \notin DOMAIN table
    <3>1. /\ table' = Store(table, InsertedId(d), Excluded(d))
          /\ asked' = Store(asked, InsertedId(d), wanted)
      BY <1>2, <2>5 DEF PostConfiguration, Insert
    <3> QED
      BY <2>3, <3>1, StoreDecided
  <2> QED
    BY <2>4, <2>5
<1>3. ASSUME NEW id \in 0..MaxId, NEW b \in Bodies, PutConfigurationById(id, b)
      PROVE  RequestInv'
  <2> DEFINE d == [dbConfigFromApiConfig(b) EXCEPT !.id = id]
  <2>1. Decided(b, Excluded(d))
    BY BodyDecides
  <2>2. /\ table' = Store(table, InsertedId(d), Excluded(d))
        /\ asked' = Store(asked, InsertedId(d), b)
    BY <1>3 DEF PutConfigurationById, Upserted
  <2> QED
    BY <2>1, <2>2, StoreDecided
<1>4. ASSUME NEW id \in DOMAIN table, DeleteConfigurationById(id) PROVE RequestInv'
  BY <1>4 DEF DeleteConfigurationById, RequestInv
<1>5. CASE SetConfigActiveState
  BY <1>5, UpdateDecided DEF SetConfigActiveState, StoreInv, users
<1>6. ASSUME NEW t \in Tokens, PersistAuthorization(t) PROVE RequestInv'
  BY <1>6, UpdateDecided DEF PersistAuthorization, StoreInv, users
<1>7. CASE InvalidateAuthorization
  BY <1>7, UpdateDecided DEF InvalidateAuthorization, StoreInv, users
<1>8. ASSUME NEW b \in Bodies, Want(b) PROVE RequestInv'
  BY <1>8, <1>1 DEF Want
<1>9. ASSUME NEW id \in DOMAIN table, GetConfigs(id) PROVE RequestInv'
  BY <1>9, <1>1 DEF GetConfigs, users
<1>10. CASE UNCHANGED vars
  BY <1>10, <1>1 DEF vars
<1> QED
  BY <1>2, <1>3, <1>4, <1>5, <1>6, <1>7, <1>8, <1>9, <1>10 DEF Next

\* The type, the interval and, unless it was left out, the flag in a row are those of
\* the request that stored it last (conf.go:44-66), whatever the app's goroutines
\* write in between.
THEOREM RequestsDecide == Spec => []RowAsRequested
<1>1. Init => RequestInv
  BY DEF Init, RequestInv
<1>2. RequestInv => RowAsRequested
  BY DEF RequestInv, RowAsRequested, Decided
<1> QED
  BY <1>1, <1>2, StoreInvariant, RequestStep, PTL DEF Spec

\* The app adds and removes no row and writes no row but that of the copy it holds
\* (conf.go:232-282), however old the copy is.
THEOREM AppConfined == Spec => AppWritesItsRow
<1> DEFINE Confined == /\ DOMAIN table' = DOMAIN table
                       /\ \A id \in DOMAIN table : table'[id] # table[id] => id = copy.id
<1>1. ASSUME StoreInv, [Next]_vars, users' = users PROVE Confined
  <2>1. posts' = posts /\ edits' = edits /\ wanted' = wanted /\ asked' = asked
    BY <1>1 DEF users
  <2>2. CASE UNCHANGED table
    BY <2>2
  <2>3. ASSUME NEW column, NEW value, UpdateAll(copy.id, column, value) PROVE Confined
    BY <2>3 DEF UpdateAll
  <2>4. CASE PostConfiguration
    <3> DEFINE d == dbConfigFromApiConfig(wanted)
    <3>1. CASE InsertedId(d) \in DOMAIN table
      BY <2>2, <2>4, <3>1 DEF PostConfiguration, Insert
    <3>2. CASE InsertedId(d) \notin DOMAIN table
      BY <2>1, <2>4, <3>2 DEF PostConfiguration
    <3> QED
      BY <3>1, <3>2
  <2>5. ASSUME NEW id \in 0..MaxId, NEW b \in Bodies, PutConfigurationById(id, b)
        PROVE  Confined
    <3>1. edits' = edits + 1 /\ edits \in Nat
      BY <1>1, <2>5 DEF PutConfigurationById, StoreInv, Locals
    <3> QED
      BY <2>1, <3>1
  <2>6. ASSUME NEW id \in DOMAIN table, DeleteConfigurationById(id) PROVE Confined
    BY <1>1, <2>1, <2>6 DEF DeleteConfigurationById, StoreInv, Locals
  <2>7. ASSUME NEW b \in Bodies, Want(b) PROVE Confined
    BY <2>2, <2>7 DEF Want
  <2>8. ASSUME NEW id \in DOMAIN table, GetConfigs(id) PROVE Confined
    BY <2>2, <2>8 DEF GetConfigs
  <2>9. CASE SetConfigActiveState
    BY <2>3, <2>9 DEF SetConfigActiveState
  <2>10. ASSUME NEW t \in Tokens, PersistAuthorization(t) PROVE Confined
    BY <2>3, <2>10 DEF PersistAuthorization
  <2>11. CASE InvalidateAuthorization
    BY <2>3, <2>11 DEF InvalidateAuthorization
  <2>12. CASE UNCHANGED vars
    BY <2>2, <2>12 DEF vars
  <2> QED
    BY <1>1, <2>4, <2>5, <2>6, <2>7, <2>8, <2>9, <2>10, <2>11, <2>12 DEF Next
<1>2. StoreInv /\ [Next]_vars => [users' = users => Confined]_vars
  BY <1>1
<1> QED
  BY <1>2, StoreInvariant, PTL DEF Spec, AppWritesItsRow
=============================================================================
