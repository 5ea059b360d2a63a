----------------------------- MODULE ConfigStore -----------------------------
(***************************************************************************)
(* The configuration table under the app's REST API and the app's own      *)
(* writes (apiservices ConfigurationApiService, conf, appdb Configuration, *)
(* init.sql). A column stands for every column that behaves like it: enable*)
(* and active for the nullable flags with a default, refresh for the       *)
(* integers that are omitted when zero, token for the columns without a    *)
(* default.                                                                *)
(***************************************************************************)
EXTENDS Naturals

CONSTANTS
  NULL,          \* a field that is not in the request, an empty column
  Types,         \* the connection types
  Tokens,        \* values of the token columns
  Bodies,        \* request bodies
  MaxId,         \* bound: the largest id users put into paths and bodies
  MaxPosts,      \* bound: configurations users POST
  MaxEdits       \* bound: PUTs and DELETEs

VARIABLES
  table,      \* the rows by id
  sequence,   \* the last id the table's sequence has handed out
  wanted,     \* the body a user POSTs, until it is stored or given up
  copy,       \* a copy of a row that a goroutine of the app works with
  asked,      \* what was asked for in the request that last stored each row
  posts, edits   \* counters of the bounded users

vars == <<table, sequence, wanted, copy, asked, posts, edits>>
users == <<wanted, asked, posts, edits>>

BodyTypes == [id : 0..MaxId, type : Types \union {"other"}, enable : BOOLEAN \union {NULL},
              active : BOOLEAN \union {NULL}, refresh : Nat, token : Tokens \union {NULL}]
Rows == [type : Types \union {"none"}, enable : BOOLEAN, active : BOOLEAN,
         refresh : Nat \ {0}, token : Tokens \union {NULL}]

ASSUME ConstantsAssumption ==
  /\ Bodies \subseteq BodyTypes
  /\ MaxId \in Nat
  /\ MaxPosts \in Nat
  /\ MaxEdits \in Nat

NoCopy == [id |-> 0]

\* Ids are positive and rows complete: enable and active are never NULL, or
\* collectData, which dereferences enable (app.go:75), would panic. The sequence
\* stays close to the number of requests, whatever ids the users choose.
TypeOK ==
  /\ DOMAIN table \subseteq 1..(MaxId + MaxPosts + MaxEdits)
  /\ \A id \in DOMAIN table : table[id] \in Rows
  /\ sequence \in 0..(MaxId + MaxPosts + MaxEdits)
  /\ wanted \in Bodies \union {NULL}
  /\ copy \in {NoCopy} \union [id : 1..(MaxId + MaxPosts + MaxEdits), row : Rows]
  /\ posts \in 0..MaxPosts
  /\ edits \in 0..MaxEdits

Init ==
  /\ table = << >>
  /\ sequence = 0
  /\ wanted = NULL
  /\ copy = NoCopy
  /\ asked = << >>
  /\ posts = 0
  /\ edits = 0

-----------------------------------------------------------------------------
(* Rows *)

\* The flags of a row for the type of a body; every other field is copied.
dbConfigFromApiConfig(b) ==
  [b EXCEPT !.type = IF @ \in Types THEN @ ELSE "none"]

MutExcludedNull(d) ==
  [type |-> d.type, enable |-> d.enable, active |-> d.active,
   refresh |-> IF d.refresh = 0 THEN 60 ELSE d.refresh,
   token |-> d.token]

\* A column with a default is left out of the INSERT when its field is zero, and
\* EXCLUDED holds what the INSERT would have stored.
Excluded(d) ==
  [type |-> d.type,
   enable |-> IF d.enable = NULL THEN FALSE ELSE d.enable,
   active |-> IF d.active = NULL THEN FALSE ELSE d.active,
   refresh |-> IF d.refresh = 0 THEN 60 ELSE d.refresh,
   token |-> d.token]

\* The id of the row an INSERT makes: nextval when the field is zero.
InsertedId(d) == IF d.id = 0 THEN sequence + 1 ELSE d.id

Nextval(d) == sequence' = IF d.id = 0 THEN sequence + 1 ELSE sequence

\* The row of an id, set or added.
Store(rows, id, row) ==
  [i \in DOMAIN rows \union {id} |-> IF i = id THEN row ELSE rows[i]]

MutInsertKeepsSequence(d) ==
  IF InsertedId(d) \in DOMAIN table
    THEN UNCHANGED <<table, sequence>>
    ELSE table' = Store(table, InsertedId(d), Excluded(d)) /\ Nextval(d)

\* appdb Insert: an id that is taken is an error, the sequence moves all the same.
Insert(d) ==
  /\ Nextval(d)
  /\ table' = IF InsertedId(d) \in DOMAIN table THEN table
              ELSE Store(table, InsertedId(d), Excluded(d))

MutUpsertedKeepsOmitted(rows, id, d) ==
  Store(rows, id, [Excluded(d) EXCEPT !.refresh =
    IF d.refresh = 0 /\ id \in DOMAIN rows THEN rows[id].refresh ELSE @])

\* appdb Upsert on conflict of the id: every other column is set to EXCLUDED.
Upserted(rows, id, d) == Store(rows, id, Excluded(d))

MutUpdateAllInserts(id, column, value) ==
  table' = Store(table, id, [(IF id \in DOMAIN table THEN table[id] ELSE copy.row)
                               EXCEPT ![column] = value])

\* UPDATE ... SET column WHERE id = ...: nothing when the row is gone.
UpdateAll(id, column, value) ==
  table' = [i \in DOMAIN table |->
              IF i = id THEN [table[i] EXCEPT ![column] = value] ELSE table[i]]

-----------------------------------------------------------------------------
(* Requests *)

\* A user wants a configuration.
Want(b) ==
  /\ posts < MaxPosts
  /\ posts' = posts + 1
  /\ wanted = NULL
  /\ wanted' = b
  /\ UNCHANGED <<table, sequence, copy, asked, edits>>

\* POST is answered 201, or 500 and the user POSTs again, unless it was the id in
\* the body that is taken.
PostConfiguration ==
  LET d == dbConfigFromApiConfig(wanted) IN
  /\ wanted # NULL
  /\ Insert(d)
  /\ wanted' = IF d.id = 0 /\ InsertedId(d) \in DOMAIN table THEN wanted ELSE NULL
  /\ asked' = IF InsertedId(d) \in DOMAIN table THEN asked
              ELSE Store(asked, InsertedId(d), wanted)
  /\ UNCHANGED <<copy, posts, edits>>

\* PUT overwrites or inserts. Id 0 counts as no id: the row is the sequence's next.
PutConfigurationById(id, b) ==
  LET d == [dbConfigFromApiConfig(b) EXCEPT !.id = id] IN
  /\ edits < MaxEdits
  /\ edits' = edits + 1
  /\ Nextval(d)
  /\ table' = Upserted(table, InsertedId(d), d)
  /\ asked' = Store(asked, InsertedId(d), b)
  /\ UNCHANGED <<wanted, copy, posts>>

\* DELETE, answered 204.
DeleteConfigurationById(id) ==
  /\ edits < MaxEdits
  /\ edits' = edits + 1
  /\ id \in DOMAIN table
  /\ table' = [i \in DOMAIN table \ {id} |-> table[i]]
  /\ asked' = [i \in DOMAIN table \ {id} |-> asked[i]]
  /\ UNCHANGED <<sequence, wanted, copy, posts>>

-----------------------------------------------------------------------------
(* The app *)

\* A goroutine takes a configuration from GetConfigs.
GetConfigs(id) ==
  /\ copy' = [id |-> id, row |-> table[id]]
  /\ UNCHANGED <<table, sequence, users>>

\* collectData: active follows enable, both as they were in the copy, whose active
\* is not looked at again.
SetConfigActiveState ==
  /\ copy # NoCopy
  /\ copy.row.active # copy.row.enable
  /\ UpdateAll(copy.id, "active", copy.row.enable)
  /\ copy' = [copy EXCEPT !.row.active = copy.row.enable]
  /\ UNCHANGED <<sequence, users>>

\* getAPI, for an enabled configuration that logs in with OAuth.
PersistAuthorization(t) ==
  /\ copy # NoCopy
  /\ copy.row.enable
  /\ copy.row.type = "MyBuildings"
  /\ UpdateAll(copy.id, "token", t)
  /\ copy' = [copy EXCEPT !.row.token = t]
  /\ UNCHANGED <<sequence, users>>

\* A request was not authorized.
InvalidateAuthorization ==
  /\ copy # NoCopy
  /\ copy.row.enable
  /\ copy.row.type # "none"
  /\ UpdateAll(copy.id, "token", NULL)
  /\ UNCHANGED <<sequence, copy, users>>

-----------------------------------------------------------------------------

Next ==
  \/ \E b \in Bodies : Want(b)
  \/ PostConfiguration
  \/ \E id \in 0..MaxId, b \in Bodies : PutConfigurationById(id, b)
  \/ \E id \in DOMAIN table : DeleteConfigurationById(id)
  \/ \E id \in DOMAIN table : GetConfigs(id)
  \/ SetConfigActiveState
  \/ \E t \in Tokens : PersistAuthorization(t)
  \/ InvalidateAuthorization

Spec == Init /\ [][Next]_vars

\* A user whose POST is answered 500 repeats it.
FairSpec == Spec /\ WF_vars(PostConfiguration)

-----------------------------------------------------------------------------

\* What the users decide is in the row as the request asked for it that stored it
\* last: a PUT that leaves the interval out resets it instead of keeping what an
\* earlier request said (conf.go:61), a POST that meets a taken id changes nothing,
\* and the app's goroutines, whose copies may be older than the last PUT, write back
\* nothing of it (conf.go:232-282). Of an omitted flag it says nothing:
\* openapi.yaml:283 documents true, and init.sql:44 makes it false.
RowAsRequested ==
  /\ DOMAIN asked = DOMAIN table
  /\ \A id \in DOMAIN table :
       LET request == asked[id] IN
       /\ table[id].type = IF request.type \in Types THEN request.type ELSE "none"
       /\ request.enable # NULL => table[id].enable = request.enable
       /\ table[id].refresh = IF request.refresh = 0 THEN 60 ELSE request.refresh

\* Only a user's request adds or removes a row: a goroutine that goes on with the
\* copy of a configuration deleted meanwhile does not bring it back, nor does its
\* write reach another configuration (conf.go:232-282).
AppWritesItsRow ==
  [][users' = users =>
       /\ DOMAIN table' = DOMAIN table
       /\ \A id \in DOMAIN table : table'[id] # table[id] => id = copy.id]_vars

\* A POST without an id that is repeated after an error is stored at last, although
\* users may have taken the sequence's next ids with PUT.
EventuallyStored == wanted # NULL ~> wanted = NULL
=============================================================================
