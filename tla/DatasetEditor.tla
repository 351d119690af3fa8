---------------------------- MODULE DatasetEditor ----------------------------
(***************************************************************************)
(* One dataset, one browser session that edits it, and everybody else.     *)
(*                                                                         *)
(* The server keeps the row of the dataset and the schema of the tables.   *)
(* The session keeps caches (the list of datasets, the columns of a table, *)
(* the preview) and the keys of the perimeter page.  Every click reruns    *)
(* the page: an action is what the click does followed by the rendering,   *)
(* which ends in the autosave and in the preview.  Streamlit forgets the   *)
(* keys of widgets that a page does not show (selected columns, logic) and *)
(* keeps the keys the code sets itself (rows, items, sort, snapshot).      *)
(***************************************************************************)
EXTENDS DatasetPerimeter

CONSTANTS Tables, Schema,       \* tables and their columns: Tables -> SUBSET Columns
          ApiPerimeters,        \* perimeters other clients send
          TypedColumns,         \* selections of columns
          TypedConditions,      \* conditions typed into a dialog
          TypedGroups,          \* contents of the dialog of a group
          TypedRows,            \* contents of the table of parameters
          TypedSorts,           \* sort conditions typed into a dialog
          MaxClicks, MaxOthers, MaxFailures

\* The selections and tables of a page are lists, a condition has its four parts.
ASSUME TypedAssumption ==
  /\ \A columns \in TypedColumns : IsList(columns)
  /\ \A rows \in TypedRows : IsList(rows)
  /\ \A c \in TypedConditions : DOMAIN c = {"field", "operator", "mode", "arg"}
  /\ \A conditions \in TypedGroups :
       /\ IsList(conditions)
       /\ \A c \in ToSet(conditions) : DOMAIN c = {"field", "operator", "mode", "arg"}

VARIABLES schema, row,                          \* the server
          listing, known, preview, visible,     \* caches of the session, preview toggle
          page, draft, snapshot, dialog,        \* perimeter page
          clicks, others, failures

serverVars == <<schema, row>>
pageVars == <<page, draft, snapshot, dialog>>
cacheVars == <<listing, known, preview, visible>>
datasetVars == <<serverVars, cacheVars, pageVars, clicks, others, failures>>

NoRow == [state |-> "none", table |-> Null, perimeter |-> Null, version |-> 0]
NoKeys == [columns |-> Null, parameters |-> Null, logic |-> Null, items |-> Null, sort |-> Null]
NoOverrides == [p \in {} |-> Null]

DatasetInit ==
  /\ schema = Schema
  /\ row \in {[state |-> "stored", table |-> t, perimeter |-> Normalize(p), version |-> 0] :
                t \in Tables, p \in {q \in ApiPerimeters : Normalize(q) # Invalid}} \cup {NoRow}
  /\ listing = row                              \* the first page loads the list
  /\ known = [t \in Tables |-> Null]
  /\ preview = Null /\ visible = FALSE
  /\ page = "list"
  /\ draft = [t \in Tables |-> NoKeys]
  /\ snapshot = [t \in Tables |-> Null]
  /\ dialog = Null
  /\ clicks = 0 /\ others = 0 /\ failures = 0

Losses == {"none", "put", "reload", "preview"}
Click(lost) ==
  /\ clicks < MaxClicks /\ clicks' = clicks + 1
  /\ lost # "none" => failures < MaxFailures
  /\ failures' = failures + (IF lost = "none" THEN 0 ELSE 1)
  /\ UNCHANGED <<schema, others>>

------------------------------------------------------------------------------
(* The dataset API and the caches.                                          *)

\* Mutant: the perimeter is written although it was refused.
WritesUnchecked(table, payload) ==
  [row EXCEPT !.table = table, !.version = @ + 1,
              !.perimeter = IF payload = Null THEN @ ELSE payload]
Written(table, normal) ==
  IF normal = Invalid THEN Invalid
  ELSE [row EXCEPT !.table = table, !.version = @ + 1,
                   !.perimeter = IF normal = Null THEN @ ELSE normal]
\* update_database_data_source_api; update_entity does not write None.
Updated(table, payload) ==
  IF row.state # "stored" THEN Invalid ELSE Written(table, Normalize(payload))

\* A list that cannot be loaded is empty.
Reloaded(new, lost) == IF lost = "reload" THEN NoRow ELSE new
\* ok: the request and the statement went through; a statement the database
\* refuses is one of the failures ("preview").
Fetch(r, lost) ==
  [version |-> r.version,
   ok |-> lost # "preview" /\ r.state = "stored"
            /\ ReachesDatabase(r.perimeter, schema[r.table], NoOverrides)]
\* A cached preview is shown, whatever it shows.
Previewed(cached, r, lost) == IF cached = Null THEN Fetch(r, lost) ELSE cached

------------------------------------------------------------------------------
(* The page of the datasets.                                                *)

RenderList(new, cached, shown, lost) ==
  /\ row' = new
  /\ visible' = shown
  /\ preview' = IF shown /\ listing'.state = "stored" THEN Previewed(cached, new, lost) ELSE cached
  /\ UNCHANGED known

AddDataset(t, lost) ==
  /\ page = "list" /\ row.state = "none" /\ Click(lost) /\ lost # "put"
  /\ schema[t] # {}
  /\ \E new \in {[NoRow EXCEPT !.state = "stored", !.table = t]} :
       listing' = Reloaded(new, lost) /\ RenderList(new, Null, visible, lost)
  /\ UNCHANGED pageVars

\* The dialog sends no perimeter: the old one stays, for the new table too.
EditDataset(t, lost) ==
  /\ page = "list" /\ listing.state = "stored" /\ Click(lost) /\ schema[t] # {}
  /\ \E new \in {Updated(t, Null)} :
       IF new = Invalid \/ lost = "put"
       THEN UNCHANGED listing /\ RenderList(row, preview, visible, lost)
       ELSE listing' = Reloaded(new, lost) /\ RenderList(new, Null, visible, lost)
  /\ UNCHANGED pageVars

DeleteDataset(lost) ==
  /\ page = "list" /\ listing.state = "stored" /\ Click(lost)
  /\ IF row.state # "stored" \/ lost = "put"
     THEN UNCHANGED listing /\ RenderList(row, preview, visible, lost)
     ELSE /\ listing' = NoRow
          /\ RenderList([row EXCEPT !.state = "deleted"], Null, FALSE, lost)
  /\ UNCHANGED pageVars

TogglePreview(lost) ==
  /\ page = "list" /\ listing.state = "stored" /\ Click(lost)
  /\ lost \notin {"put", "reload"}
  /\ UNCHANGED listing
  /\ RenderList(row, preview, ~visible, lost)
  /\ UNCHANGED pageVars

------------------------------------------------------------------------------
(* The perimeter page.                                                      *)

table == listing.table
Available == IF known[table] = Null THEN schema[table] ELSE known[table]
OrElse(key, default) == IF key = Null THEN default ELSE key

\* The keys after the tabs were rendered; Invalid where a tab fails.
Filled(keys) ==
  [columns |-> OrElse(keys.columns, DefaultColumns(listing.perimeter, Available)),
   parameters |-> EditorRows(OrElse(keys.parameters, DefaultRows(listing.perimeter))),
   logic |-> OrElse(keys.logic, Stored(listing.perimeter).logic),
   items |-> EditorItems(OrElse(keys.items, DefaultItems(listing.perimeter))),
   sort |-> EditorSort(OrElse(keys.sort, DefaultSort(listing.perimeter)))]

\* Mutant: the list of datasets is not loaded again.
KeepsListing(payload, new, cached, lost) ==
  /\ snapshot' = [snapshot EXCEPT ![table] = <<payload>>]
  /\ row' = IF snapshot[table] \in {Null, <<payload>>} \/ new = Invalid \/ lost = "put"
            THEN row ELSE new
  /\ preview' = Fetch(row', lost)
  /\ UNCHANGED listing
\* _autosave_perimeter: the first rendering takes the snapshot, later ones save
\* what differs from it.
Autosave(payload, new, cached, lost) ==
  IF snapshot[table] \in {Null, <<payload>>} \/ new = Invalid \/ lost = "put"
  THEN /\ UNCHANGED <<row, listing>>
       /\ snapshot' = IF snapshot[table] = Null
                      THEN [snapshot EXCEPT ![table] = <<payload>>] ELSE snapshot
       /\ preview' = Previewed(cached, row, lost)
  ELSE /\ row' = new /\ listing' = Reloaded(new, lost)
       /\ snapshot' = [snapshot EXCEPT ![table] = <<payload>>]
       /\ preview' = Fetch(new, lost)
\* A tab that fails ends the page: keys behind it keep their values.
Broken(keys, f) ==
  IF f.parameters = Invalid THEN [keys EXCEPT !.columns = f.columns]
  ELSE [f EXCEPT !.items = keys.items, !.sort = keys.sort]
Render(keys, cached, lost) ==
  \E f \in {Filled(keys)} : \E payload \in {BuildPayload(f)} :
    /\ known' = [known EXCEPT ![table] = Available]
    /\ UNCHANGED visible
    /\ IF payload = Invalid
       THEN /\ draft' = [draft EXCEPT ![table] = Broken(keys, f)]
            /\ UNCHANGED <<row, listing, preview, snapshot>>
       ELSE /\ draft' = [draft EXCEPT ![table] = f]
            /\ \E new \in {Updated(table, payload)} : Autosave(payload, new, cached, lost)

\* A table without columns (or gone) ends the page before its tabs.
OpenPerimeter(lost) ==
  /\ page = "list" /\ listing.state = "stored" /\ Click(lost)
  /\ page' = "perimeter" /\ UNCHANGED dialog
  /\ IF Available = {}
     THEN /\ known' = [known EXCEPT ![table] = {}]
          /\ UNCHANGED <<row, listing, preview, visible, draft, snapshot>>
     ELSE Render(draft[table], preview, lost)

\* Back: the keys of the widgets are forgotten.
Back(lost) ==
  /\ page = "perimeter" /\ page' = "list" /\ Click(lost) /\ lost \notin {"put", "reload"}
  /\ draft' = [t \in Tables |-> [draft[t] EXCEPT !.columns = Null, !.logic = Null]]
  /\ UNCHANGED <<listing, snapshot, dialog>>
  /\ RenderList(row, preview, visible, lost)

Editing(lost) ==
  /\ Click(lost) /\ page = "perimeter" /\ listing.state = "stored" /\ Available # {}
  /\ UNCHANGED page
\* The tabs of filters and sort are there: nothing before them failed.
Unbroken == draft[table].items # Null /\ BuildPayload(draft[table]) # Invalid

SetColumns(columns, lost) ==
  /\ Editing(lost) /\ ToSet(columns) \subseteq Available /\ UNCHANGED dialog
  /\ Render([draft[table] EXCEPT !.columns = columns], preview, lost)
SetParameters(rows, lost) ==
  /\ Editing(lost) /\ draft[table].parameters # Null /\ UNCHANGED dialog
  /\ Render([draft[table] EXCEPT !.parameters = rows], preview, lost)
SetLogic(logic, lost) ==
  /\ Editing(lost) /\ Unbroken /\ UNCHANGED dialog
  /\ Render([draft[table] EXCEPT !.logic = logic], preview, lost)

\* What the dialogs accept.
ParameterNames == {draft[table].parameters[i].name : i \in DOMAIN draft[table].parameters}
Accepted(c) ==
  /\ c.field \in Available
  /\ c.mode = "parameter" => c.arg \in ParameterNames
  /\ c.mode = "literal" => c.arg # "blank"
  /\ EditorCondition(c) \notin {Null, Invalid}
WithItems(items) == [draft[table] EXCEPT !.items = items]

AddCondition(c, lost) ==
  /\ Editing(lost) /\ Unbroken /\ Accepted(c) /\ UNCHANGED dialog
  /\ Render(WithItems(Append(draft[table].items, Single(EditorCondition(c)))), preview, lost)
AddGroup(logic, conditions, lost) ==
  /\ Editing(lost) /\ Unbroken /\ UNCHANGED dialog
  /\ EditorConditions(conditions) \notin {Invalid, <<>>}
  /\ Render(WithItems(Append(draft[table].items, Group(logic, EditorConditions(conditions)))),
            preview, lost)
DeleteItem(i, lost) ==
  /\ Editing(lost) /\ Unbroken /\ i \in DOMAIN draft[table].items /\ UNCHANGED dialog
  /\ Render(WithItems(RemoveAt(draft[table].items, i)), preview, lost)
DeleteGroupCondition(i, j, lost) ==
  /\ Editing(lost) /\ Unbroken /\ i \in DOMAIN draft[table].items /\ UNCHANGED dialog
  /\ \E item \in {draft[table].items[i]} :
       /\ item.kind = "group" /\ j \in DOMAIN item.conditions
       /\ Render(WithItems(
            IF Len(item.conditions) = 1 THEN RemoveAt(draft[table].items, i)
            ELSE [draft[table].items EXCEPT ![i].conditions = RemoveAt(@, j)]), preview, lost)

\* The edit dialog remembers indices (at = 0: the item itself).  Closed with
\* its cross it is only hidden, and comes back with the next rendering.
OpenEdit(i, j, lost) ==
  /\ Editing(lost) /\ Unbroken /\ i \in DOMAIN draft[table].items
  /\ IF draft[table].items[i].kind = "group" THEN j \in DOMAIN draft[table].items[i].conditions
     ELSE j = 0
  /\ dialog' = [item |-> i, at |-> j]
  /\ Render(draft[table], preview, lost)
CancelEdit(lost) ==
  /\ Editing(lost) /\ dialog # Null /\ dialog' = Null
  /\ Render(draft[table], preview, lost)
WithCondition(items, d, c) ==
  IF d.item \notin DOMAIN items THEN items
  ELSE IF d.at = 0 THEN [items EXCEPT ![d.item] = Single(c)]
  ELSE IF items[d.item].kind # "group" \/ d.at \notin DOMAIN items[d.item].conditions THEN items
  ELSE [items EXCEPT ![d.item].conditions[d.at] = c]
SaveEdit(c, lost) ==
  /\ Editing(lost) /\ Unbroken /\ dialog # Null /\ Accepted(c) /\ dialog' = Null
  /\ Render(WithItems(WithCondition(draft[table].items, dialog, EditorCondition(c))), preview, lost)

\* A field that is sorted by already changes its direction.
WithSort(sort, s, same) ==
  IF same = {} THEN Append(sort, s) ELSE [sort EXCEPT ![Min(same)] = s]
SaveSort(s, lost) ==
  /\ Editing(lost) /\ Unbroken /\ s.field \in Available /\ UNCHANGED dialog
  /\ Render([draft[table] EXCEPT !.sort =
               WithSort(@, s, {i \in DOMAIN @ : draft[table].sort[i].field = s.field})],
            preview, lost)
RemoveSort(i, lost) ==
  /\ Editing(lost) /\ Unbroken /\ i \in DOMAIN draft[table].sort /\ UNCHANGED dialog
  /\ Render([draft[table] EXCEPT !.sort = RemoveAt(@, i)], preview, lost)

RefreshPreview(lost) ==
  /\ Editing(lost) /\ Unbroken /\ UNCHANGED dialog
  /\ Render(draft[table], Null, lost)

------------------------------------------------------------------------------
(* Everybody else.                                                          *)

Other == /\ others < MaxOthers /\ others' = others + 1
         /\ UNCHANGED <<cacheVars, pageVars, clicks, failures>>
OtherUpdate(p) ==
  /\ Other /\ UNCHANGED schema
  /\ \E new \in {Updated(row.table, p)} : new # Invalid /\ row' = new
OtherDelete ==
  /\ Other /\ UNCHANGED schema
  /\ row.state = "stored" /\ row' = [row EXCEPT !.state = "deleted"]
DropColumn(t, c) ==
  /\ Other /\ UNCHANGED row
  /\ c \in schema[t] /\ schema' = [schema EXCEPT ![t] = @ \ {c}]

Columns == UNION {Schema[t] : t \in Tables}

DatasetClick(lost) ==
  \/ \E t \in Tables : AddDataset(t, lost) \/ EditDataset(t, lost)
  \/ DeleteDataset(lost) \/ TogglePreview(lost) \/ OpenPerimeter(lost) \/ Back(lost)
  \/ \E columns \in TypedColumns : SetColumns(columns, lost)
  \/ \E rows \in TypedRows : SetParameters(rows, lost)
  \/ \E logic \in Logics : SetLogic(logic, lost)
  \/ \E c \in TypedConditions : AddCondition(c, lost) \/ SaveEdit(c, lost)
  \/ \E conditions \in TypedGroups : AddGroup("OR", conditions, lost)
  \/ \E i \in 1..2 : DeleteItem(i, lost) \/ RemoveSort(i, lost)
  \/ \E i \in 1..2, j \in 0..2 : DeleteGroupCondition(i, j, lost) \/ OpenEdit(i, j, lost)
  \/ CancelEdit(lost) \/ RefreshPreview(lost)
  \/ \E s \in TypedSorts : SaveSort(s, lost)

DatasetNext ==
  \/ \E lost \in Losses : DatasetClick(lost)
  \/ \E p \in ApiPerimeters : OtherUpdate(p)
  \/ OtherDelete
  \/ \E t \in Tables, c \in Columns : DropColumn(t, c)

DatasetSpec == DatasetInit /\ [][DatasetNext]_datasetVars

------------------------------------------------------------------------------
(* What update_database_data_source_api stores can be stored again:         *)
(* normalising a stored perimeter changes nothing and refuses nothing, so   *)
(* the runtime, which normalises what it reads, sees what was saved.        *)
StoredIsNormal == row.state = "stored" => Normalize(row.perimeter) = row.perimeter

Missing(p) ==
  ~ (ToSet(p.columns) \cup {c.field : c \in Conditions(p)} \cup {s.field : s \in ToSet(p.sort)}
       \subseteq schema[row.table])
MistypedBuiltIn(p) ==
  \E q \in ToSet(p.parameters) : q.binding # Null /\ q.type \in {"integer", "number", "boolean"}
Incomparable(p) ==
  \E c \in Conditions(p) :
    /\ c.operator \in ComparingOperators
    /\ \/ c.arg \in {Null, "bool"}
       \/ c.mode = "parameter"
            /\ \E q \in ToSet(p.parameters) : q.name = c.arg /\ q.default = Null /\ q.binding = Null
(* The program finds a statement for every stored perimeter: one that does  *)
(* not get as far names a column that the table no longer has, or meets one *)
(* of the cases the validation lets through.  These are a built-in default  *)
(* for a type that is no date, and a comparison (order or part of a text)   *)
(* with null, a truth value or a parameter that has no value.  What the     *)
(* database makes of the statement is another question.                     *)
AcceptedCompiles ==
  row.state = "stored" /\ row.perimeter # Null /\ schema[row.table] # {} =>
    \/ ReachesDatabase(row.perimeter, schema[row.table], NoOverrides)
    \/ Missing(row.perimeter) \/ MistypedBuiltIn(row.perimeter) \/ Incomparable(row.perimeter)

FreshPayload == BuildPayload(Filled(NoKeys))
\* Texts the editor reads as a value of another type, or that break its page.
ReadAsJson == {"quoted", "trueText", "oneText", "manyText"}
Showable(p) ==
  /\ ToSet(p.columns) \subseteq Available
  /\ \A c \in Conditions(p) :
       c.mode = "literal" => c.arg \in Values \ (ReadAsJson \cup {"digits", "many"})
  /\ \A q \in ToSet(p.parameters) : q.default \notin ReadAsJson
(* When its list is up to date, a session shows what is stored.  A preview  *)
(* in the cache is of the stored version, whoever saved and however often.  *)
(* A page opened without any state shows the stored perimeter: had it to be *)
(* saved, the server would store the same.  Values the editor cannot show   *)
(* (texts that read as JSON, lists of several values, null) and columns     *)
(* that are gone are excepted.                                              *)
OpeningShowsStored ==
  listing.state = "stored" /\ listing = row =>
    /\ preview # Null => preview.version = row.version
    /\ row.perimeter # Null /\ Showable(row.perimeter)
         => Stored(Normalize(FreshPayload)) = row.perimeter

(* While one session edits, for one table and without failures, what its    *)
(* page shows is what the page would show if it were opened anew: every     *)
(* edit was saved, except a draft the server refuses and an emptied         *)
(* perimeter.                                                               *)
PageIsSaved ==
  /\ page = "perimeter" /\ listing.state = "stored" /\ Available # {}
  /\ others = 0 /\ failures = 0
  /\ \A t \in Tables \ {table} : snapshot[t] = Null
  /\ snapshot[table] # Null /\ Unbroken
  => \E p \in {BuildPayload(draft[table])} :
       p = Null \/ Normalize(p) \in {Invalid, Normalize(FreshPayload)}

(* "Save ... saves the perimeter": a save the editor takes for done has     *)
(* stored what the page shows.  update_entity skips None, so an emptied     *)
(* perimeter is not stored.                                                 *)
SaveStores ==
  [][\A t \in Tables :
       snapshot[t] # Null /\ snapshot'[t] # snapshot[t]
         => row'.perimeter = Normalize(snapshot'[t][1])]_datasetVars
==============================================================================
