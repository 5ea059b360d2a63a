------------------------------- MODULE Tables -------------------------------
(***************************************************************************)
(* The app's tables and the queries on them (src/conf/conf.go, src/conf/      *)
(* init.sql, the generated src/appdb). A database is a record of four sets of *)
(* rows; a query is an operator that returns the rows it can return, a        *)
(* command one that returns the new database. A command that the constraints  *)
(* of init.sql refuse is not enabled: its guard is in the operator that ends   *)
(* in "Allowed". Row ids are left out: a row is identified by its columns.     *)
(***************************************************************************)
EXTENDS Naturals, FiniteSets

EmptyTables == [configuration |-> {}, asset |-> {}, datapoint |-> {},
                datapoint_attribute |-> {}]

-----------------------------------------------------------------------------
(* The relations between the tables *)

\* Asset().OneG of a datapoint
AssetOf(db, d) == {a \in db.asset : a.asset_id = d.asset_id}

\* DatapointAttributes().AllG of a datapoint
AttributesOf(db, d) == {l \in db.datapoint_attribute : l.datapoint = d}

\* Configuration().OneG of an asset
ConfigurationOf(db, a) == db.configuration \intersect {a.configuration_id}

-----------------------------------------------------------------------------
(* configuration *)

InsertConfiguration(db, c) == [db EXCEPT !.configuration = @ \union {c}]

MutDeleteConfigurationKeeps(db, c) ==
  [db EXCEPT !.configuration = @ \ {c}]

\* ON DELETE CASCADE: its assets, their datapoints and the links of those go too.
DeleteConfiguration(db, c) ==
  LET assets == {a \in db.asset : a.configuration_id = c}
      ids == {a.asset_id : a \in assets}
  IN [configuration |-> db.configuration \ {c},
      asset |-> db.asset \ assets,
      datapoint |-> {d \in db.datapoint : d.asset_id \notin ids},
      datapoint_attribute |->
        {l \in db.datapoint_attribute : l.datapoint.asset_id \notin ids}]

-----------------------------------------------------------------------------
(* asset *)

\* INSERT ... ON CONFLICT (asset_id) DO UPDATE: the one row of an Eliona asset.
Upsert(rows, row) == {a \in rows : a.asset_id # row.asset_id} \union {row}

UpsertAllowed(db, c) == c \in db.configuration

UpsertAsset(db, c, project, gai, type, id) ==
  [db EXCEPT !.asset = Upsert(@,
     [configuration_id |-> c, project_id |-> project, global_asset_id |-> gai,
      asset_type_name |-> type, asset_id |-> id])]

\* The ids it can return; none stands for nil.
GetAssetId(db, c, project, gai) ==
  {a.asset_id : a \in {b \in db.asset :
     /\ b.configuration_id = c
     /\ b.project_id = project
     /\ b.global_asset_id = gai}}

-----------------------------------------------------------------------------
(* datapoint and datapoint_attribute *)

InsertAllowed(db, id) == \E a \in db.asset : a.asset_id = id

\* A caller inserts its rows one by one; the tables do not tell the order.
Insert(db, rows) == [db EXCEPT !.datapoint = @ \union rows]

\* gai stands for the device and channel ids of the row; the nullable column
\* last_written_value is the set of its value, empty for null.
Row(id, gai, datapoint, function, is_input) ==
  [asset_id |-> id, channel |-> gai, datapoint |-> datapoint, function |-> function,
   is_input |-> is_input, last_written_value |-> {}]

InsertInputs(db, id, gai, inputs) ==
  Insert(db, {Row(id, gai, i.datapoint, i.function, TRUE) : i \in inputs})

OutputRow(id, gai, o) == Row(id, gai, o.datapoint, o.function, FALSE)

InsertOutputs(db, id, gai, outputs) == Insert(db, {OutputRow(id, gai, o) : o \in outputs})

InsertLinks(db, rows) == [db EXCEPT !.datapoint_attribute = @ \union rows]

LinkDatapointsToAttributes(db, id, gai, outputs) ==
  InsertLinks(db, {[datapoint |-> OutputRow(id, gai, o), subtype |-> o.subtype,
                    attribute_name |-> o.attribute] : o \in outputs})

\* OneG takes any of the rows, and fails when there is none.
FetchInput(db, id, function) ==
  {d \in db.datapoint : d.is_input /\ d.asset_id = id /\ d.function = function}

FetchAllDatapoints(db) == db.datapoint

\* Neither the configuration nor the project is asked for: with several projects
\* the row of any of them.
FindOutputDatapoint(db, gai, datapoint) ==
  {d \in db.datapoint : ~ d.is_input /\ d.channel = gai /\ d.datapoint = datapoint}

\* UPDATE of a row that is gone changes nothing.
Update(db, d, value) ==
  IF d \in db.datapoint
    THEN [db EXCEPT !.datapoint = (@ \ {d}) \union {[d EXCEPT !.last_written_value = {value}]}]
    ELSE db

UpdateDatapoint(db, d, value) == Update(db, d, value)

\* The configurations of the assets of a datapoint.
GetConfigForDatapoint(db, d) ==
  UNION {ConfigurationOf(db, a) : a \in AssetOf(db, d)}
=============================================================================
