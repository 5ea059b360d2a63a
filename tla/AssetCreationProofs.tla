------------------------- MODULE AssetCreationProofs -------------------------
(***************************************************************************)
(* Theorems about AssetCreation, for any number of configurations, assets,   *)
(* failures and deletions.                                                  *)
(***************************************************************************)
EXTENDS AssetCreation, TLAPS

\* The id an upsert in Eliona returns is one of Ids.
LEMMA UpsertedIdInIds ==
  ASSUME TypeOK, NEW a \in Assets
  PROVE  UpsertedId(a) \in Ids /\ UpsertedId(a) \in 1..(deletes + 1)
<1>1. deletes \in 0..MaxDeletes /\ MaxDeletes \in Nat
  BY ConstantsAssumption DEF TypeOK
<1>2. latest[a] \in IF a \in eliona THEN 1..(deletes + 1) ELSE 0..deletes
  BY DEF TypeOK
<1> QED
  BY <1>1, <1>2 DEF UpsertedId, Ids

\* What the upsert in the app does to the asset table, row by row.
LEMMA RecordedRow ==
  ASSUME TypeOK, NEW c \in Configs, UpsertInApp(c)
  PROVE  /\ owner' \in [Assets -> [Ids -> Configs \union {NoConfig}]]
         /\ \A a \in Assets, n \in Ids :
              owner'[a][n] = IF a = current[c] /\ n = id[c] THEN c ELSE owner[a][n]
<1>1. owner' = [owner EXCEPT ![current[c]][id[c]] = c]
  BY DEF UpsertInApp
<1>2. owner \in [Assets -> [Ids -> Configs \union {NoConfig}]]
  BY DEF TypeOK
<1>3. owner' = [a \in Assets |->
        IF a = current[c] THEN [owner[a] EXCEPT ![id[c]] = c] ELSE owner[a]]
  BY <1>1, <1>2
<1>4. ASSUME NEW a \in Assets
      PROVE  /\ [owner[a] EXCEPT ![id[c]] = c] \in [Ids -> Configs \union {NoConfig}]
             /\ \A n \in Ids : [owner[a] EXCEPT ![id[c]] = c][n]
                                = IF n = id[c] THEN c ELSE owner[a][n]
  <2>1. owner[a] \in [Ids -> Configs \union {NoConfig}]
    BY <1>2
  <2> QED
    BY <2>1
<1> QED
  BY <1>2, <1>3, <1>4

\* What the insertion of a datapoint does to the datapoint table, row by row.
LEMMA InsertedPoint ==
  ASSUME TypeOK, NEW c \in Configs, NEW d \in Datapoints, InsertDatapoint(c, d)
  PROVE  /\ points' \in [Channels -> [Ids -> [Datapoints -> Nat]]]
         /\ \A a \in Channels, n \in Ids, x \in Datapoints :
              points'[a][n][x] = IF a = current[c] /\ n = id[c] /\ x = d
                                   THEN points[a][n][x] + 1 ELSE points[a][n][x]
<1>1. points' = [points EXCEPT ![current[c]][id[c]][d] = @ + 1]
  BY DEF InsertDatapoint
<1>2. points \in [Channels -> [Ids -> [Datapoints -> Nat]]]
  BY DEF TypeOK
<1> DEFINE Row(a, n) == [points[a][n] EXCEPT ![d] = points[a][n][d] + 1]
           Rows(a) == [n \in Ids |-> IF n = id[c] THEN Row(a, n) ELSE points[a][n]]
<1>3. ASSUME NEW a \in Channels, NEW n \in Ids
      PROVE  /\ points[a][n] \in [Datapoints -> Nat]
             /\ Row(a, n) \in [Datapoints -> Nat]
             /\ \A x \in Datapoints : Row(a, n)[x]
                  = IF x = d THEN points[a][n][x] + 1 ELSE points[a][n][x]
  <2>1. points[a] \in [Ids -> [Datapoints -> Nat]]
    BY <1>2
  <2>2. points[a][n] \in [Datapoints -> Nat]
    BY <2>1
  <2>3. \A x \in Datapoints : points[a][n][x] \in Nat
    BY <2>2
  <2> QED
    BY <2>2, <2>3
<1>4. points' = [a \in Channels |-> IF a = current[c] THEN Rows(a) ELSE points[a]]
  <2>1. points' = [a \in Channels |->
          IF a = current[c]
            THEN [points[a] EXCEPT ![id[c]] = [points[a][id[c]] EXCEPT ![d] = @ + 1]]
            ELSE points[a]]
    BY <1>1, <1>2
  <2>2. ASSUME NEW a \in Channels
        PROVE  [points[a] EXCEPT ![id[c]] = [points[a][id[c]] EXCEPT ![d] = @ + 1]] = Rows(a)
    <3>1. points[a] \in [Ids -> [Datapoints -> Nat]]
      BY <1>2
    <3> QED
      BY <3>1
  <2> HIDE DEF Rows
  <2> QED
    BY <2>1, <2>2
<1>5. ASSUME NEW a \in Channels
      PROVE  Rows(a) \in [Ids -> [Datapoints -> Nat]]
  <2> HIDE DEF Row
  <2> QED
    BY <1>3
<1>6. points' \in [Channels -> [Ids -> [Datapoints -> Nat]]]
  <2> HIDE DEF Rows
  <2> QED
    BY <1>2, <1>4, <1>5
<1>7. ASSUME NEW a \in Channels, NEW n \in Ids
      PROVE  points'[a][n] = IF a = current[c] /\ n = id[c] THEN Row(a, n) ELSE points[a][n]
  <2> HIDE DEF Row
  <2> QED
    BY <1>4
<1> HIDE DEF Row, Rows
<1> QED
  BY <1>3, <1>6, <1>7

\* Every table and every local of a pass keeps its type, through aborted passes too.
THEOREM TypeCorrect == Spec => []TypeOK
<1> USE ConstantsAssumption
<1>1. Init => TypeOK
  <2> SUFFICES ASSUME Init PROVE TypeOK
    OBVIOUS
  <2>1. /\ owner \in [Assets -> [Ids -> Configs \union {NoConfig}]]
        /\ points \in [Channels -> [Ids -> [Datapoints -> Nat]]]
    BY DEF Init
  <2>2. /\ eliona \subseteq Assets /\ announced \in [Assets -> Nat]
        /\ latest \in [Assets -> Nat] /\ deletes \in 0..MaxDeletes
        /\ \A a \in Assets :
             latest[a] \in IF a \in eliona THEN 1..(deletes + 1) ELSE 0..deletes
    BY DEF Init
  <2>3. phase \in [Configs -> Phases] /\ current \in [Configs -> Assets]
    BY DEF Init, Phases
  <2>4. /\ todo \in [Configs -> SUBSET Assets]
        /\ id \in [Configs -> Ids \union {0}]
        /\ existed \in [Configs -> BOOLEAN]
        /\ left \in [Configs -> SUBSET Datapoints]
        /\ fresh \in [Configs -> SUBSET Assets]
        /\ failures \in 0..MaxFailures
    BY DEF Init
  <2> QED
    BY <2>1, <2>2, <2>3, <2>4 DEF TypeOK
<1>2. TypeOK /\ [Next]_vars => TypeOK'
  <2> SUFFICES ASSUME TypeOK, [Next]_vars PROVE TypeOK'
    OBVIOUS
  <2>1. ASSUME NEW c \in Configs, PassStep(c) PROVE TypeOK'
    <3> USE DEF Move, TypeOK, Phases, tables, pass
    <3>1. CASE BeginPass(c)
      BY <3>1 DEF BeginPass
    <3>2. ASSUME NEW a \in Assets, GetAssetId(c, a) PROVE TypeOK'
      <4>1. id' \in [Configs -> Ids \union {0}]
        BY <3>2 DEF GetAssetId
      <4>2. phase' \in [Configs -> Phases] /\ existed' \in [Configs -> BOOLEAN]
        BY <3>2 DEF GetAssetId
      <4>3. current' \in [Configs -> Assets] /\ todo' \in [Configs -> SUBSET Assets]
        BY <3>2 DEF GetAssetId
      <4> QED
        BY <3>2, <4>1, <4>2, <4>3 DEF GetAssetId
    <3>3. CASE ExistAsset(c)
      <4>1. phase' \in [Configs -> Phases]
        BY <3>3 DEF ExistAsset
      <4> QED
        BY <3>3, <4>1 DEF ExistAsset
    <3>4. CASE UpsertInEliona(c)
      <4> DEFINE a == current[c]
      <4>1. /\ phase' = [phase EXCEPT ![c] = "record"]
            /\ eliona' = eliona \union {a}
            /\ latest' = [latest EXCEPT ![a] = UpsertedId(a)]
            /\ id' = [id EXCEPT ![c] = UpsertedId(a)]
            /\ UNCHANGED <<owner, points, announced, todo, current, existed, left, fresh,
                           failures, deletes>>
        BY <3>4 DEF UpsertInEliona
      <4>2. a \in Assets
        OBVIOUS
      <4>3. UpsertedId(a) \in Ids /\ UpsertedId(a) \in 1..(deletes + 1)
        BY <4>2, UpsertedIdInIds
      <4>4. latest' \in [Assets -> Nat] /\ id' \in [Configs -> Ids \union {0}]
        BY <4>1, <4>3
      <4>5. ASSUME NEW b \in Assets
            PROVE  latest'[b] \in IF b \in eliona' THEN 1..(deletes' + 1) ELSE 0..deletes'
        BY <4>1, <4>3
      <4>6. phase' \in [Configs -> Phases] /\ eliona' \subseteq Assets
        BY <4>1
      <4> QED
        BY <4>1, <4>4, <4>5, <4>6
    <3>5. CASE UpsertInApp(c)
      <4>1. owner' \in [Assets -> [Ids -> Configs \union {NoConfig}]]
        BY <3>5, RecordedRow
      <4>2. fresh' \in [Configs -> SUBSET Assets]
        <5>1. fresh' = fresh \/ fresh' = [fresh EXCEPT ![c] = @ \union {current[c]}]
          BY <3>5, Zenon DEF UpsertInApp, Account
        <5>2. fresh \in [Configs -> SUBSET Assets] /\ current[c] \in Assets
          OBVIOUS
        <5> HIDE DEF TypeOK
        <5> QED
          BY <5>1, <5>2
      <4>3. left' \in [Configs -> SUBSET Datapoints] /\ phase' \in [Configs -> Phases]
        <5>1. \/ left' = left /\ phase' = [phase EXCEPT ![c] = "walk"]
              \/ /\ left' = [left EXCEPT ![c] = Datapoints]
                 /\ phase' = [phase EXCEPT ![c] = "store"]
          BY <3>5, Zenon DEF UpsertInApp, Account
        <5>2. left \in [Configs -> SUBSET Datapoints] /\ phase \in [Configs -> Phases]
          OBVIOUS
        <5> HIDE DEF TypeOK
        <5> QED
          BY <5>1, <5>2
      <4> QED
        BY <3>5, <4>1, <4>2, <4>3 DEF UpsertInApp
    <3>6. ASSUME NEW d \in Datapoints, InsertDatapoint(c, d) PROVE TypeOK'
      <4>1. points' \in [Channels -> [Ids -> [Datapoints -> Nat]]]
        BY <3>6, InsertedPoint
      <4>2. phase' \in [Configs -> Phases]
        BY <3>6 DEF InsertDatapoint
      <4>3. left' \in [Configs -> SUBSET Datapoints]
        BY <3>6 DEF InsertDatapoint
      <4>4. UNCHANGED <<owner, eliona, latest, announced, todo, current, id, existed, fresh,
                        failures, deletes>>
        BY <3>6 DEF InsertDatapoint
      <4> QED
        BY <4>1, <4>2, <4>3, <4>4
    <3>7. CASE EndPass(c)
      <4>1. announced' \in [Assets -> Nat]
        BY <3>7 DEF EndPass, NotifyUser
      <4>2. phase' \in [Configs -> Phases] /\ fresh' \in [Configs -> SUBSET Assets]
        BY <3>7 DEF EndPass
      <4>3. UNCHANGED <<owner, points, eliona, latest, todo, current, id, existed, left,
                        failures, deletes>>
        BY <3>7 DEF EndPass
      <4> QED
        BY <4>1, <4>2, <4>3
    <3> QED
      BY <2>1, <3>1, <3>2, <3>3, <3>4, <3>5, <3>6, <3>7 DEF PassStep
  <2>2. ASSUME NEW c \in Configs, Abort(c) PROVE TypeOK'
    <3> USE DEF TypeOK, Phases, tables
    <3>1. failures' \in 0..MaxFailures
      BY <2>2 DEF Abort
    <3>2. /\ phase' \in [Configs -> Phases]
          /\ fresh' \in [Configs -> SUBSET Assets]
          /\ left' \in [Configs -> SUBSET Datapoints]
          /\ todo' \in [Configs -> SUBSET Assets]
      BY <2>2 DEF Abort
    <3>3. UNCHANGED <<owner, points, eliona, latest, announced, current, id, existed, deletes>>
      BY <2>2 DEF Abort
    <3> QED
      BY <3>1, <3>2, <3>3
  <2>3. ASSUME NEW a \in Assets, DeleteInEliona(a) PROVE TypeOK'
    <3> USE DEF TypeOK, pass
    <3>1. deletes' \in 0..MaxDeletes /\ deletes' = deletes + 1 /\ deletes \in Nat
      BY <2>3 DEF DeleteInEliona
    <3>2. eliona' \subseteq Assets /\ eliona' = eliona \ {a} /\ a \in eliona
      BY <2>3 DEF DeleteInEliona
    <3>3. UNCHANGED <<owner, points, latest, announced, phase, todo, current, id, existed,
                      left, fresh, failures>>
      BY <2>3 DEF DeleteInEliona
    <3>4. ASSUME NEW b \in Assets
          PROVE  latest'[b] \in IF b \in eliona' THEN 1..(deletes' + 1) ELSE 0..deletes'
      BY <3>1, <3>2, <3>3
    <3> QED
      BY <3>1, <3>2, <3>3, <3>4
  <2>4. CASE UNCHANGED vars
    BY <2>4 DEF vars, tables, pass, TypeOK
  <2> QED
    BY <2>1, <2>2, <2>3, <2>4 DEF Next
<1> QED
  BY <1>1, <1>2, PTL DEF Spec

-----------------------------------------------------------------------------
(* The accounts of two configurations may share locations only: another asset   *)
(* they share would be taken over, announced and stored by each in turn.         *)

Separate == \A c, d \in Configs : c # d => Sees[c] \intersect Sees[d] \subseteq Locations

\* What a pass knows: it works on what its account reports; an asset it is about to
\* create, other than a location, is in nobody's row; the id it is about to record
\* comes from Eliona; what it will announce is recorded and not announced; what it has
\* left to insert is not stored, for any id.
PassInv(c) ==
  /\ todo[c] \subseteq Sees[c]
  /\ phase[c] \notin {"idle", "walk"} => current[c] \in Sees[c]
  /\ phase[c] \in {"check", "create", "record"} /\ ~ existed[c] /\ current[c] \in Counted
       => ~ Known(current[c])
  /\ phase[c] \in {"record", "store"} => id[c] \in Ids
  /\ fresh[c] \subseteq Counted \intersect Sees[c]
  /\ \A a \in fresh[c] : Known(a) /\ announced[a] = 0
  /\ phase[c] # "store" => left[c] = {}
  /\ phase[c] = "store" =>
       /\ current[c] \in Channels
       /\ Known(current[c])
       /\ \A d \in left[c], n \in Ids : points[current[c]][n][d] = 0

\* A row names a configuration that reports the asset; without a row nothing is
\* stored or announced.
AssetInv(a) ==
  /\ \A n \in Ids : owner[a][n] # NoConfig => a \in Sees[owner[a][n]]
  /\ ~ Known(a) => /\ announced[a] = 0
                   /\ a \in Channels => \A d \in Datapoints, n \in Ids : points[a][n][d] = 0

CreationInv ==
  /\ \A c \in Configs : PassInv(c)
  /\ \A a \in Assets : AssetInv(a)
  /\ StoredOnce

\* Every step keeps the invariant.
LEMMA CreationStep ==
  ASSUME Separate, TypeOK, CreationInv, [Next]_vars
  PROVE  CreationInv'
<1> USE ConstantsAssumption DEF tables, pass
<1>0. ASSUME NEW c \in Configs, NEW e \in Configs, c # e, NEW a \in Sees[c], a \in Sees[e]
      PROVE  a \notin Counted
  BY <1>0 DEF Separate, Counted
<1>t. /\ owner \in [Assets -> [Ids -> Configs \union {NoConfig}]]
      /\ points \in [Channels -> [Ids -> [Datapoints -> Nat]]]
      /\ announced \in [Assets -> Nat]
      /\ phase \in [Configs -> Phases]
      /\ todo \in [Configs -> SUBSET Assets]
      /\ current \in [Configs -> Assets]
      /\ id \in [Configs -> Ids \union {0}]
      /\ existed \in [Configs -> BOOLEAN]
      /\ left \in [Configs -> SUBSET Datapoints]
      /\ fresh \in [Configs -> SUBSET Assets]
  BY DEF TypeOK
<1>1. ASSUME NEW c \in Configs,
             BeginPass(c) \/ (\E a \in Assets : GetAssetId(c, a)) \/ ExistAsset(c)
               \/ UpsertInEliona(c) \/ Abort(c)
      PROVE  CreationInv'
  <2> USE DEF Move
  <2>1. UNCHANGED <<owner, points, announced>>
    BY <1>1 DEF BeginPass, GetAssetId, ExistAsset, UpsertInEliona, Abort
  <2>k. \A a : Known(a)' = Known(a)
    BY <2>1 DEF Known
  <2>2. ASSUME NEW e \in Configs, e # c PROVE PassInv(e)'
    <3>1. PassInv(e)
      BY DEF CreationInv
    <3>2. /\ phase'[e] = phase[e] /\ todo'[e] = todo[e] /\ current'[e] = current[e]
          /\ existed'[e] = existed[e] /\ fresh'[e] = fresh[e] /\ left'[e] = left[e]
          /\ id'[e] = id[e]
      BY <1>1, <1>t, <2>2 DEF BeginPass, GetAssetId, ExistAsset, UpsertInEliona, Abort
    <3> QED
      BY <2>1, <2>k, <3>1, <3>2 DEF PassInv
  <2>3. PassInv(c)'
    <3>0. PassInv(c)
      BY DEF CreationInv
    <3>1. CASE BeginPass(c)
      BY <1>t, <2>1, <2>k, <3>0, <3>1 DEF BeginPass, PassInv
    <3>2. ASSUME NEW a \in Assets, GetAssetId(c, a) PROVE PassInv(c)'
      <4> DEFINE mine == {n \in Ids : owner[a][n] = c}
      <4>1. a \in Sees[c]
        BY <3>0, <3>2 DEF GetAssetId, IsNext, PassInv
      <4>2. mine = {} /\ a \in Counted => ~ Known(a)
        <5> SUFFICES ASSUME mine = {}, a \in Counted, NEW n \in Ids, owner[a][n] # NoConfig
                     PROVE  FALSE
          BY DEF Known
        <5>1. owner[a][n] \in Configs /\ owner[a][n] # c
          BY <1>t
        <5>2. a \in Sees[owner[a][n]]
          BY DEF CreationInv, AssetInv
        <5> QED
          BY <1>0, <4>1, <5>1, <5>2
      <4>3. /\ phase[c] = "walk" /\ phase'[c] \in {"check", "create"}
            /\ todo'[c] \subseteq todo[c] /\ current'[c] = a /\ existed'[c] = (mine # {})
            /\ fresh'[c] = fresh[c] /\ left'[c] = left[c]
        BY <1>t, <3>2 DEF GetAssetId
      <4> HIDE DEF mine
      <4> QED
        BY <2>1, <2>k, <3>0, <4>1, <4>2, <4>3 DEF PassInv
    <3>3. CASE ExistAsset(c)
      <4>1. /\ phase[c] = "check" /\ phase'[c] \in {"create", "walk"}
            /\ UNCHANGED <<todo, current, id, existed, left, fresh>>
        BY <1>t, <3>3 DEF ExistAsset
      <4> QED
        BY <2>1, <2>k, <3>0, <4>1 DEF PassInv
    <3>4. CASE UpsertInEliona(c)
      <4>1. UpsertedId(current[c]) \in Ids
        BY <1>t, UpsertedIdInIds
      <4>2. /\ phase[c] = "create" /\ phase'[c] = "record" /\ id'[c] = UpsertedId(current[c])
            /\ UNCHANGED <<todo, current, existed, left, fresh>>
        BY <1>t, <3>4 DEF UpsertInEliona
      <4> QED
        BY <2>1, <2>k, <3>0, <4>1, <4>2 DEF PassInv
    <3>5. CASE Abort(c)
      BY <1>t, <2>1, <2>k, <3>0, <3>5 DEF Abort, PassInv
    <3> QED
      BY <1>1, <3>1, <3>2, <3>3, <3>4, <3>5
  <2> QED
    BY <2>1, <2>2, <2>3, <2>k DEF CreationInv, AssetInv, StoredOnce
<1>2. ASSUME NEW c \in Configs, UpsertInApp(c) PROVE CreationInv'
  <2> DEFINE a == current[c]
             created == ~ existed[c]
  <2>0. PassInv(c)
    BY DEF CreationInv
  <2>1. /\ phase[c] = "record"
        /\ UNCHANGED <<points, eliona, announced, todo, current, id, existed>>
    BY <1>2 DEF UpsertInApp, Account, Move
  <2>2. a \in Assets /\ a \in Sees[c] /\ id[c] \in Ids
    BY <1>t, <2>0, <2>1 DEF PassInv
  <2>3. /\ \A b \in Assets \ {a}, n \in Ids : owner'[b][n] = owner[b][n]
        /\ \A n \in Ids \ {id[c]} : owner'[a][n] = owner[a][n]
        /\ owner'[a][id[c]] = c /\ c # NoConfig
    BY <1>2, <2>2, RecordedRow
  <2>k. /\ Known(a)'
        /\ \A b \in Assets \ {a} : Known(b)' = Known(b)
    <3>1. Known(a)'
      BY <2>1, <2>2, <2>3 DEF Known
    <3>2. ASSUME NEW b \in Assets, b # a PROVE Known(b)' = Known(b)
      <4>1. \A n \in Ids : owner'[b][n] = owner[b][n]
        BY <2>3, <3>2
      <4> QED
        BY <4>1 DEF Known
    <3> QED
      BY <3>1, <3>2
  <2>4. \/ fresh' = fresh
        \/ created /\ a \in Counted /\ fresh' = [fresh EXCEPT ![c] = @ \union {a}]
    BY <1>2, Zenon DEF UpsertInApp, Account
  <2>5. \/ left' = left /\ phase' = [phase EXCEPT ![c] = "walk"]
        \/ /\ created /\ a \in Channels
           /\ left' = [left EXCEPT ![c] = Datapoints]
           /\ phase' = [phase EXCEPT ![c] = "store"]
    BY <1>2, Zenon DEF UpsertInApp, Account, Move
  <2>6. created /\ a \in Counted =>
          /\ announced[a] = 0
          /\ a \in Channels => \A d \in Datapoints, n \in Ids : points[a][n][d] = 0
    BY <2>0, <2>1, <2>2 DEF PassInv, CreationInv, AssetInv
  <2>7. ASSUME NEW b \in Assets PROVE AssetInv(b)'
    <3>1. AssetInv(b)
      BY DEF CreationInv
    <3>2. CASE b = a
      BY <2>1, <2>2, <2>3, <2>k, <3>1, <3>2 DEF AssetInv
    <3>3. CASE b # a
      BY <2>1, <2>3, <2>k, <3>1, <3>3 DEF AssetInv
    <3> QED
      BY <3>2, <3>3
  <2>8. ASSUME NEW e \in Configs, e # c PROVE PassInv(e)'
    <3>0. PassInv(e)
      BY DEF CreationInv
    <3>1. phase'[e] = phase[e] /\ fresh'[e] = fresh[e] /\ left'[e] = left[e]
      BY <1>t, <2>4, <2>5, <2>8
    <3>2. \A b \in Assets : Known(b) => Known(b)'
      BY <2>1, <2>k
    <3>3. phase[e] \in {"check", "create", "record"} /\ current[e] \in Counted => current[e] # a
      BY <1>0, <2>2, <2>8, <3>0 DEF PassInv
    <3>4. current[e] \in Assets /\ fresh[e] \subseteq Assets
      BY <1>t
    <3> QED
      BY <2>1, <2>k, <3>0, <3>1, <3>2, <3>3, <3>4 DEF PassInv
  <2>9. PassInv(c)'
    <3>1. phase'[c] \in {"walk", "store"}
      BY <1>t, <2>5
    <3>2. todo'[c] = todo[c] /\ todo[c] \subseteq Sees[c] /\ current'[c] = a /\ id'[c] = id[c]
      BY <2>0, <2>1 DEF PassInv
    <3>3. /\ fresh'[c] \subseteq Counted \intersect Sees[c]
          /\ \A b \in fresh'[c] : Known(b)' /\ announced'[b] = 0
      <4>1. \/ fresh'[c] = fresh[c]
            \/ created /\ a \in Counted /\ fresh'[c] = fresh[c] \union {a}
        BY <1>t, <2>4
      <4>2. \A b \in fresh[c] : b \in Assets /\ Known(b) /\ announced[b] = 0
        BY <1>t, <2>0 DEF PassInv
      <4>3. \A b \in fresh[c] : Known(b)'
        BY <2>1, <2>k, <4>2
      <4> QED
        BY <2>0, <2>1, <2>2, <2>k, <2>6, <4>1, <4>2, <4>3 DEF PassInv
    <3>4. phase'[c] # "store" => left'[c] = {}
      BY <1>t, <2>0, <2>1, <2>5 DEF PassInv
    <3>5. phase'[c] = "store" =>
            /\ a \in Channels /\ Known(a)'
            /\ \A d \in left'[c], n \in Ids : points'[a][n][d] = 0
      <4> SUFFICES ASSUME phase'[c] = "store"
                   PROVE  /\ a \in Channels /\ Known(a)'
                          /\ \A d \in left'[c], n \in Ids : points'[a][n][d] = 0
        OBVIOUS
      <4>1. created /\ a \in Channels /\ left'[c] = Datapoints
        BY <1>t, <2>5
      <4>2. a \in Counted
        BY <2>2, <4>1 DEF Counted
      <4> QED
        BY <2>1, <2>k, <2>6, <4>1, <4>2
    <3> QED
      BY <2>2, <3>1, <3>2, <3>3, <3>4, <3>5 DEF PassInv
  <2>10. StoredOnce'
    BY <2>1 DEF CreationInv, StoredOnce
  <2> QED
    BY <2>7, <2>8, <2>9, <2>10 DEF CreationInv
<1>3. ASSUME NEW c \in Configs, NEW d \in Datapoints, InsertDatapoint(c, d)
      PROVE  CreationInv'
  <2> DEFINE a == current[c]
  <2>0. PassInv(c)
    BY DEF CreationInv
  <2>1. /\ d \in left[c] /\ phase[c] = "store"
        /\ left' = [left EXCEPT ![c] = @ \ {d}]
        /\ phase' = [phase EXCEPT ![c] = IF left[c] = {d} THEN "walk" ELSE "store"]
        /\ UNCHANGED <<owner, eliona, announced, todo, current, id, existed, fresh>>
    BY <1>3 DEF InsertDatapoint, Move
  <2>2. /\ a \in Channels /\ Known(a) /\ id[c] \in Ids
        /\ \A n \in Ids : points[a][n][d] = 0
        /\ a \in Sees[c] /\ a \in Counted
    BY <2>0, <2>1 DEF PassInv, Counted
  <2>k. \A b : Known(b)' = Known(b)
    BY <2>1 DEF Known
  <2>5. /\ \A b \in Channels \ {a}, n \in Ids, x \in Datapoints :
             points'[b][n][x] = points[b][n][x]
        /\ \A n \in Ids, x \in Datapoints \ {d} : points'[a][n][x] = points[a][n][x]
        /\ \A n \in Ids \ {id[c]} : points'[a][n][d] = 0
        /\ points'[a][id[c]][d] = 1
    <3>1. \A b \in Channels, n \in Ids, x \in Datapoints :
            points'[b][n][x] = IF b = a /\ n = id[c] /\ x = d
                                 THEN points[b][n][x] + 1 ELSE points[b][n][x]
      BY <1>3, InsertedPoint
    <3>2. points'[a][id[c]][d] = points[a][id[c]][d] + 1 /\ points[a][id[c]][d] = 0
      BY <2>2, <3>1
    <3>3. \A n \in Ids \ {id[c]} : points'[a][n][d] = points[a][n][d]
      BY <2>2, <3>1
    <3> QED
      BY <2>2, <3>1, <3>2, <3>3
  <2>6. ASSUME NEW b \in Assets PROVE AssetInv(b)'
    <3>1. AssetInv(b)
      BY DEF CreationInv
    <3>2. CASE b = a
      BY <2>1, <2>2, <2>k, <3>1, <3>2 DEF AssetInv
    <3>3. CASE b # a
      BY <2>1, <2>5, <2>k, <3>1, <3>3 DEF AssetInv
    <3> QED
      BY <3>2, <3>3
  <2>7. StoredOnce'
    <3> SUFFICES ASSUME NEW b \in Channels, NEW x \in Datapoints, NEW n \in Ids,
                        points'[b][n][x] # 0
                 PROVE  points'[b][n][x] = 1 /\ \A m \in Ids \ {n} : points'[b][m][x] = 0
      BY DEF StoredOnce
    <3>1. points[b][n][x] # 0 =>
            points[b][n][x] = 1 /\ \A m \in Ids \ {n} : points[b][m][x] = 0
      BY DEF CreationInv, StoredOnce
    <3>2. CASE b = a /\ x = d
      BY <2>2, <2>5, <3>2
    <3>3. CASE b = a /\ x # d
      BY <2>5, <3>1, <3>3
    <3>4. CASE b # a
      BY <2>5, <3>1, <3>4
    <3> QED
      BY <3>2, <3>3, <3>4
  <2>8. ASSUME NEW e \in Configs, e # c PROVE PassInv(e)'
    <3>0. PassInv(e)
      BY DEF CreationInv
    <3>1. phase'[e] = phase[e] /\ left'[e] = left[e] /\ left[e] \subseteq Datapoints
      BY <1>t, <2>1, <2>8
    <3>2. phase[e] = "store" => current[e] # a
      BY <1>0, <2>2, <2>8, <3>0 DEF PassInv
    <3> QED
      BY <2>1, <2>5, <2>k, <3>0, <3>1, <3>2 DEF PassInv
  <2>9. PassInv(c)'
    <3>1. left'[c] = left[c] \ {d} /\ left[c] \subseteq Datapoints
      BY <1>t, <2>1
    <3>2. phase'[c] = (IF left[c] = {d} THEN "walk" ELSE "store")
      BY <1>t, <2>1
    <3>3. \A x \in left'[c], n \in Ids : points'[a][n][x] = 0
      BY <2>0, <2>1, <2>5, <3>1 DEF PassInv
    <3> QED
      BY <2>0, <2>1, <2>2, <2>k, <3>1, <3>2, <3>3 DEF PassInv
  <2> QED
    BY <2>6, <2>7, <2>8, <2>9 DEF CreationInv
<1>4. ASSUME NEW c \in Configs, EndPass(c) PROVE CreationInv'
  <2>0. PassInv(c)
    BY DEF CreationInv
  <2>1. /\ phase[c] = "walk" /\ phase' = [phase EXCEPT ![c] = "idle"]
        /\ fresh' = [fresh EXCEPT ![c] = {}]
        /\ announced' = [a \in Assets |-> announced[a] + (IF a \in fresh[c] THEN 1 ELSE 0)]
        /\ UNCHANGED <<owner, points, eliona, todo, current, id, existed, left>>
    BY <1>4 DEF EndPass, NotifyUser, Move
  <2>2. \A a \in Assets \ fresh[c] : announced'[a] = announced[a]
    BY <1>t, <2>1
  <2>k. \A b : Known(b)' = Known(b)
    BY <2>1 DEF Known
  <2>3. ASSUME NEW a \in Assets PROVE AssetInv(a)'
    <3>1. AssetInv(a)
      BY DEF CreationInv
    <3>2. ~ Known(a) => a \notin fresh[c]
      BY <2>0 DEF PassInv
    <3> QED
      BY <2>1, <2>2, <2>k, <3>1, <3>2 DEF AssetInv
  <2>4. ASSUME NEW e \in Configs, e # c PROVE PassInv(e)'
    <3>0. PassInv(e)
      BY DEF CreationInv
    <3>1. phase'[e] = phase[e] /\ fresh'[e] = fresh[e]
      BY <1>t, <2>1, <2>4
    <3>2. \A a \in fresh[e] : a \in Assets /\ a \notin fresh[c]
      BY <1>t, <1>0, <2>0, <2>4, <3>0 DEF PassInv
    <3>3. \A a \in fresh[e] : announced'[a] = announced[a]
      BY <2>2, <3>2
    <3> QED
      BY <2>1, <2>k, <3>0, <3>1, <3>3 DEF PassInv
  <2>5. PassInv(c)'
    <3>1. phase'[c] = "idle" /\ fresh'[c] = {} /\ left'[c] = {} /\ todo'[c] \subseteq Sees[c]
      BY <1>t, <2>0, <2>1 DEF PassInv
    <3> QED
      BY <3>1 DEF PassInv
  <2> QED
    BY <2>1, <2>3, <2>4, <2>5 DEF CreationInv, StoredOnce
<1>5. ASSUME NEW a \in Assets, DeleteInEliona(a) PROVE CreationInv'
  BY <1>5 DEF DeleteInEliona, CreationInv, PassInv, AssetInv, StoredOnce, Known
<1>6. CASE UNCHANGED vars
  BY <1>6 DEF vars, CreationInv, PassInv, AssetInv, StoredOnce, Known
<1> QED
  BY <1>1, <1>2, <1>3, <1>4, <1>5, <1>6 DEF Next, PassStep

\* It holds in every state of every behaviour.
LEMMA CreationInvariant ==
  ASSUME Separate
  PROVE  Spec => []CreationInv
<1>1. Init => CreationInv
  <2> SUFFICES ASSUME Init PROVE CreationInv
    OBVIOUS
  <2> USE ConstantsAssumption DEF Init
  <2>1. ASSUME NEW c \in Configs PROVE PassInv(c)
    BY DEF PassInv
  <2>2. ASSUME NEW a \in Assets PROVE AssetInv(a)
    BY DEF AssetInv, Known
  <2>3. StoredOnce
    BY DEF StoredOnce
  <2> QED
    BY <2>1, <2>2, <2>3 DEF CreationInv
<1>2. TypeOK /\ CreationInv /\ [Next]_vars => CreationInv'
  BY CreationStep
<1> QED
  BY <1>1, <1>2, TypeCorrect, PTL DEF Spec

\* No retry, crash or concurrent configuration makes a second row of a datapoint
\* (assets.go:155-172).
THEOREM StoredAtMostOnce ==
  ASSUME Separate
  PROVE  Spec => []StoredOnce
<1>1. CreationInv => StoredOnce
  BY DEF CreationInv
<1> QED
  BY <1>1, CreationInvariant, PTL

\* Adding an element undoes its removal, if it was removed.
LEMMA AddedBack ==
  ASSUME NEW S, NEW T, NEW x, S \union {x} = T
  PROVE  S \in {T, T \ {x}}
<1>1. CASE x \in S
  <2>1. S = T
    BY <1>1
  <2> QED
    BY <2>1
<1>2. CASE x \notin S
  <2>1. S = T \ {x}
    BY <1>2
  <2> QED
    BY <2>1
<1> QED
  BY <1>1, <1>2

\* The asset creation implements Catalogue: an asset is recorded after it was created,
\* never dropped, and announced once at most and only when it is recorded, through
\* any failures, crashes, deletions and interleavings of configurations.
THEOREM ImplementsCatalogue ==
  ASSUME Separate
  PROVE  Spec => Catalogued
<1> USE ConstantsAssumption
<1> DEFINE pending == {current[c] : c \in {d \in Configs : phase[d] = "record"}}
           known == {a \in Assets : Known(a)}
           abstract == <<eliona, pending, known, announced>>
<1>1. Init => CatalogueSpec!Init
  BY DEF Init, CatalogueSpec!Init, Known
<1>2. TypeOK /\ CreationInv /\ [Next]_vars => [CatalogueSpec!Next]_abstract
  <2> SUFFICES ASSUME TypeOK, CreationInv, [Next]_vars, abstract' # abstract
               PROVE  CatalogueSpec!Next
    BY DEF abstract
  <2> USE DEF tables, pass
  <2>t. /\ phase \in [Configs -> Phases]
        /\ current \in [Configs -> Assets]
        /\ fresh \in [Configs -> SUBSET Assets]
    BY DEF TypeOK
  <2>k. UNCHANGED owner => known' = known
    BY DEF Known
  \* Only the phase "record" of a pass matters to what is pending.
  <2>1. ASSUME NEW c \in Configs,
               BeginPass(c) \/ (\E a \in Assets : GetAssetId(c, a)) \/ ExistAsset(c)
                 \/ (\E d \in Datapoints : InsertDatapoint(c, d))
        PROVE  FALSE
    <3>1. phase[c] # "record" /\ phase'[c] # "record"
      BY <2>t, <2>1 DEF BeginPass, GetAssetId, ExistAsset, InsertDatapoint, Move
    <3>2. \A e \in Configs \ {c} : phase'[e] = phase[e] /\ current'[e] = current[e]
      BY <2>t, <2>1 DEF BeginPass, GetAssetId, ExistAsset, InsertDatapoint, Move
    <3>3. pending' = pending
      BY <3>1, <3>2
    <3>4. UNCHANGED <<eliona, owner, announced>>
      BY <2>1 DEF BeginPass, GetAssetId, ExistAsset, InsertDatapoint
    <3> HIDE DEF pending, known
    <3> QED
      BY <2>k, <3>3, <3>4
  <2>2. ASSUME NEW c \in Configs, NEW a \in Assets, a = current[c], UpsertInEliona(c)
        PROVE  CatalogueSpec!Next
    <3>1. /\ phase' = [phase EXCEPT ![c] = "record"] /\ phase[c] = "create"
          /\ eliona' = eliona \union {a}
          /\ UNCHANGED <<owner, announced, current>>
      BY <2>2 DEF UpsertInEliona, Move
    <3>2. pending' = pending \union {a}
      BY <2>t, <2>2, <3>1
    <3> HIDE DEF pending, known
    <3>3. eliona' = eliona \union {a} /\ known' = known /\ announced' = announced
      BY <2>k, <3>1
    <3>4. CatalogueSpec!Create(a)
      BY <3>2, <3>3 DEF CatalogueSpec!Create, pending, known
    <3> QED
      BY <3>4 DEF CatalogueSpec!Next
  <2>3. ASSUME NEW c \in Configs, NEW a \in Assets, a = current[c], UpsertInApp(c)
        PROVE  CatalogueSpec!Next
    <3>1. /\ phase[c] = "record"
          /\ UNCHANGED <<eliona, announced, current>>
      BY <2>3 DEF UpsertInApp, Account, Move
    <3>2. phase'[c] # "record" /\ \A e \in Configs \ {c} : phase'[e] = phase[e]
      <4>1. \/ phase' = [phase EXCEPT ![c] = "walk"]
            \/ phase' = [phase EXCEPT ![c] = "store"]
        BY <2>3, Zenon DEF UpsertInApp, Account, Move
      <4> QED
        BY <2>t, <4>1
    <3>3. pending' \in {pending, pending \ {a}}
      <4>1. pending' = {current[e] : e \in {x \in Configs \ {c} : phase[x] = "record"}}
        BY <3>1, <3>2
      <4>2. pending' \union {a} = pending
        BY <2>3, <3>1, <4>1
      <4> QED
        BY <4>2, AddedBack
    <3>4. known' = known \union {a}
      <4>1. id[c] \in Ids /\ c # NoConfig
        BY <3>1, ConstantsAssumption DEF CreationInv, PassInv
      <4>2. Known(a)' /\ \A b \in Assets \ {a} : Known(b)' = Known(b)
        BY <2>3, <4>1, RecordedRow DEF Known
      <4> QED
        BY <4>2
    <3>5. a \in pending
      BY <2>3, <3>1
    <3> HIDE DEF pending, known
    <3>6. CatalogueSpec!Record(a)
      BY <3>1, <3>3, <3>4, <3>5 DEF CatalogueSpec!Record, pending, known
    <3> QED
      BY <3>6 DEF CatalogueSpec!Next
  <2>4. ASSUME NEW c \in Configs, EndPass(c) PROVE CatalogueSpec!Next
    <3>1. /\ phase[c] = "walk" /\ phase' = [phase EXCEPT ![c] = "idle"]
          /\ announced' = [a \in Assets |-> announced[a] + (IF a \in fresh[c] THEN 1 ELSE 0)]
          /\ UNCHANGED <<owner, eliona, current>>
      BY <2>4 DEF EndPass, NotifyUser, Move
    <3>2. pending' = pending /\ known' = known
      BY <2>t, <2>k, <3>1
    <3>3. fresh[c] \subseteq known \intersect Counted /\ \A a \in fresh[c] : announced[a] = 0
      BY <2>t DEF CreationInv, PassInv
    <3> HIDE DEF pending, known
    <3>4. CatalogueSpec!Tell(fresh[c])
      BY <3>1, <3>2, <3>3 DEF CatalogueSpec!Tell, pending, known
    <3>5. fresh[c] \in SUBSET Assets
      BY <2>t
    <3> QED
      BY <3>4, <3>5 DEF CatalogueSpec!Next
  <2>5. ASSUME NEW c \in Configs, NEW a \in Assets, a = current[c], Abort(c)
        PROVE  CatalogueSpec!Next
    <3>1. /\ phase' = [phase EXCEPT ![c] = "idle"]
          /\ UNCHANGED <<owner, eliona, announced, current>>
      BY <2>5 DEF Abort
    <3>2. pending' \in {pending, pending \ {a}} /\ known' = known
      <4>1. pending' = {current[e] : e \in {x \in Configs \ {c} : phase[x] = "record"}}
        BY <2>t, <3>1
      <4>2. pending = pending' \/ pending = pending' \union {a}
        BY <2>5, <3>1, <4>1
      <4>3. known' = known
        BY <2>k, <3>1
      <4> QED
        BY <4>2, <4>3, AddedBack
    <3> HIDE DEF pending, known
    <3>3. CatalogueSpec!Forget(a)
      BY <3>1, <3>2 DEF CatalogueSpec!Forget, pending, known
    <3> QED
      BY <3>3 DEF CatalogueSpec!Next
  <2>6. ASSUME NEW a \in Assets, DeleteInEliona(a) PROVE CatalogueSpec!Next
    <3>1. known' = known
      BY <2>k, <2>6 DEF DeleteInEliona
    <3>2. pending' = pending /\ eliona' = eliona \ {a} /\ UNCHANGED announced
      BY <2>6 DEF DeleteInEliona
    <3> HIDE DEF pending, known
    <3>3. CatalogueSpec!Delete(a)
      BY <3>1, <3>2 DEF CatalogueSpec!Delete, pending, known
    <3> QED
      BY <3>3 DEF CatalogueSpec!Next
  <2>7. CASE UNCHANGED vars
    BY <2>k, <2>7 DEF vars
  <2>8. \A c \in Configs : current[c] \in Assets
    BY <2>t
  <2> QED
    BY <2>1, <2>2, <2>3, <2>4, <2>5, <2>6, <2>7, <2>8 DEF Next, PassStep
<1> QED
  BY <1>1, <1>2, TypeCorrect, CreationInvariant, PTL
  DEF Spec, Catalogued, CatalogueSpec!Spec, CatalogueSpec!catalogue

-----------------------------------------------------------------------------
(* Deletions hold without any assumption on the accounts. *)

SeesInv == \A c \in Configs :
  /\ todo[c] \subseteq Sees[c]
  /\ phase[c] \notin {"idle", "walk"} => current[c] \in Sees[c]

\* A pass comes only to assets its account reports.
LEMMA SeesInvariant == Spec => []SeesInv
<1>1. Init => SeesInv
  BY DEF Init, SeesInv
<1>2. TypeOK /\ SeesInv /\ [Next]_vars => SeesInv'
  <2> SUFFICES ASSUME TypeOK, SeesInv, [Next]_vars PROVE SeesInv'
    OBVIOUS
  <2> USE ConstantsAssumption DEF TypeOK, SeesInv, tables, pass
  <2>1. ASSUME NEW c \in Configs, PassStep(c) PROVE SeesInv'
    <3> USE DEF Move
    <3>1. CASE BeginPass(c)
      BY <3>1 DEF BeginPass
    <3>2. ASSUME NEW a \in Assets, GetAssetId(c, a) PROVE SeesInv'
      BY <3>2 DEF GetAssetId, IsNext
    <3>3. CASE ExistAsset(c) \/ UpsertInEliona(c)
      <4>1. /\ phase[c] \in {"check", "create"} /\ UNCHANGED <<todo, current>>
            /\ \A e \in Configs \ {c} : phase'[e] = phase[e]
        BY <3>3 DEF ExistAsset, UpsertInEliona
      <4> HIDE DEF TypeOK
      <4> QED
        BY <4>1
    <3>4. CASE UpsertInApp(c)
      <4>1. /\ \/ phase' = [phase EXCEPT ![c] = "walk"]
               \/ phase' = [phase EXCEPT ![c] = "store"]
            /\ phase[c] = "record"
        BY <3>4, Zenon DEF UpsertInApp, Account
      <4>2. UNCHANGED <<todo, current>>
        BY <3>4 DEF UpsertInApp
      <4> QED
        BY <4>1, <4>2
    <3>5. ASSUME NEW d \in Datapoints, InsertDatapoint(c, d) PROVE SeesInv'
      BY <3>5 DEF InsertDatapoint
    <3>6. CASE EndPass(c)
      BY <3>6 DEF EndPass
    <3> QED
      BY <2>1, <3>1, <3>2, <3>3, <3>4, <3>5, <3>6 DEF PassStep
  <2>2. ASSUME NEW c \in Configs, Abort(c) PROVE SeesInv'
    BY <2>2 DEF Abort
  <2>3. ASSUME NEW a \in Assets, DeleteInEliona(a) PROVE SeesInv'
    BY <2>3 DEF DeleteInEliona
  <2>4. CASE UNCHANGED vars
    BY <2>4 DEF vars
  <2> QED
    BY <2>1, <2>2, <2>3, <2>4 DEF Next
<1> QED
  BY <1>1, <1>2, TypeCorrect, PTL DEF Spec

\* Once every configuration that reports a deleted asset has a row of it and none is
\* between ExistAsset and the end of an upsert of it, no later pass brings it back
\* (assets.go:251-265), whatever the accounts share. Where an upsert is under way it
\* does come back.
THEOREM DeletedForGood == Spec => DeletedStaysDeleted
<1> DEFINE Stays == \A a \in Assets : Deleted(a) => Deleted(a)'
<1>1. TypeOK /\ SeesInv /\ [Next]_vars => [Stays]_vars
  <2> SUFFICES ASSUME TypeOK, SeesInv, Next, NEW a \in Assets, Deleted(a)
               PROVE  Deleted(a)'
    BY DEF Stays
  <2> USE DEF tables, pass
  <2>t. /\ phase \in [Configs -> Phases]
        /\ current \in [Configs -> Assets]
        /\ deletes \in 0..MaxDeletes
    BY DEF TypeOK
  <2> DEFINE Reported == \A c \in Configs : a \in Sees[c] => \E n \in Ids : owner[a][n] = c
             Busy(c) == phase[c] \in {"create", "record"} /\ current[c] = a
  <2>0. a \notin eliona /\ Reported /\ \A c \in Configs : ~ Busy(c)
    BY DEF Deleted
  <2>1. SUFFICES a \notin eliona' /\ Reported' /\ \A c \in Configs : ~ Busy(c)'
    BY DEF Deleted
  <2>2. ASSUME NEW e \in Configs,
               BeginPass(e) \/ ExistAsset(e) \/ (\E d \in Datapoints : InsertDatapoint(e, d))
                 \/ EndPass(e) \/ Abort(e)
        PROVE  a \notin eliona' /\ Reported' /\ \A c \in Configs : ~ Busy(c)'
    <3>1. UNCHANGED <<owner, eliona, current>>
      BY <2>2 DEF BeginPass, ExistAsset, InsertDatapoint, EndPass, Abort
    <3>2. \A c \in Configs \ {e} : phase'[c] = phase[c]
      BY <2>t, <2>2 DEF BeginPass, ExistAsset, InsertDatapoint, EndPass, Abort, Move
    <3>3. current[e] = a => phase'[e] \notin {"create", "record"}
      BY <2>t, <2>0, <2>2 DEF BeginPass, ExistAsset, InsertDatapoint, EndPass, Abort, Move
    <3> QED
      BY <2>0, <3>1, <3>2, <3>3
  <2>3. ASSUME NEW e \in Configs, NEW b \in Assets, GetAssetId(e, b)
        PROVE  a \notin eliona' /\ Reported' /\ \A c \in Configs : ~ Busy(c)'
    <3>1. b \in Sees[e] /\ UNCHANGED <<owner, eliona>>
      BY <2>3 DEF GetAssetId, IsNext, SeesInv
    <3>2. b = a => phase'[e] = "check"
      BY <2>t, <2>0, <2>3, <3>1 DEF GetAssetId, Move
    <3>3. /\ current'[e] = b
          /\ \A c \in Configs \ {e} : phase'[c] = phase[c] /\ current'[c] = current[c]
      BY <2>t, <2>3 DEF GetAssetId, Move
    <3> QED
      BY <2>0, <3>1, <3>2, <3>3
  <2>4. ASSUME NEW e \in Configs, UpsertInEliona(e)
        PROVE  a \notin eliona' /\ Reported' /\ \A c \in Configs : ~ Busy(c)'
    <3>1. /\ phase[e] = "create" /\ phase' = [phase EXCEPT ![e] = "record"]
          /\ eliona' = eliona \union {current[e]} /\ UNCHANGED <<owner, current>>
      BY <2>4 DEF UpsertInEliona, Move
    <3>2. current[e] # a
      BY <2>0, <3>1
    <3> QED
      BY <2>t, <2>0, <3>1, <3>2
  <2>5. ASSUME NEW e \in Configs, UpsertInApp(e)
        PROVE  a \notin eliona' /\ Reported' /\ \A c \in Configs : ~ Busy(c)'
    <3>1. phase[e] = "record" /\ UNCHANGED <<eliona, current>>
      BY <2>5 DEF UpsertInApp, Account, Move
    <3>2. current[e] # a
      BY <2>0, <3>1
    <3>3. \A n \in Ids : owner'[a][n] = owner[a][n]
      BY <2>5, <3>2, RecordedRow
    <3>4. \/ phase' = [phase EXCEPT ![e] = "walk"]
          \/ phase' = [phase EXCEPT ![e] = "store"]
      BY <2>5, Zenon DEF UpsertInApp, Account, Move
    <3> QED
      BY <2>t, <2>0, <3>1, <3>2, <3>3, <3>4
  <2>6. ASSUME NEW b \in Assets, DeleteInEliona(b)
        PROVE  a \notin eliona' /\ Reported' /\ \A c \in Configs : ~ Busy(c)'
    BY <2>0, <2>6 DEF DeleteInEliona
  <2> HIDE DEF Reported, Busy
  <2> QED
    BY <2>2, <2>3, <2>4, <2>5, <2>6 DEF Next, PassStep
<1> QED
  BY <1>1, TypeCorrect, SeesInvariant, PTL DEF Spec, DeletedStaysDeleted
=============================================================================
