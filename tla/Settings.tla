------------------------------ MODULE Settings ------------------------------
(***************************************************************************)
(* One runtime setting as the processes of the system see it:              *)
(* api/settings_service.py. The database has the value; every process      *)
(* keeps a cache of all rows with a time to live, and most readers keep a  *)
(* copy of what that cache said. Requests of the admin API change the row  *)
(* and then the cache of their own process. Absent stands for "no row":    *)
(* readers fall back to the environment or to a default. A value that      *)
(* cannot be coerced to the type of the setting makes every refresh fail;  *)
(* an update refuses it only if the type is known to the process.          *)
(***************************************************************************)
EXTENDS Naturals

CONSTANTS Values, Absent,
          Misfits,        \* values that cannot be coerced to the type of the setting
          Processes,      \* each with a SettingsService of its own
          Editors,        \* those that serve the admin API
          Edits,          \* requests that run at the same time
          MaxEdits,       \* bound: requests that begin
          MaxReadFailures \* bound: refreshes that fail

ASSUME SettingsAssumption ==
  /\ Absent \notin Values /\ Misfits \subseteq Values /\ Editors \subseteq Processes
  /\ MaxEdits \in Nat /\ MaxReadFailures \in Nat

VARIABLES stored,       \* the row's value
          service,      \* of each process: the cached value, whether its type is cached too,
                        \* and whether the cache was loaded and is in time
          refresh,      \* of each process: the refresh under _refresh_lock and what it read
          copy,         \* of each process: a reader's copy of the value and whether it is in time
          edit,         \* of each request: its step, process and value
          edits, readFailures

settingsVars == <<stored, service, refresh, copy, edit, edits, readFailures>>

Rows == Values \cup {Absent}
NoRefresh == [step |-> "none", row |-> Absent]
NoEdit(p) == [step |-> "idle", on |-> p, value |-> Absent]

SettingsInit ==
  /\ stored \in Rows \ Misfits
  /\ service = [p \in Processes |-> [value |-> Absent, typed |-> FALSE, loaded |-> FALSE, inTime |-> FALSE]]
  /\ refresh = [p \in Processes |-> NoRefresh]
  /\ copy = [p \in Processes |-> [value |-> Absent, inTime |-> FALSE]]
  /\ edit \in {[e \in Edits |-> NoEdit(p)] : p \in Editors}
  /\ edits \in 0 .. MaxEdits /\ readFailures \in 0 .. MaxReadFailures

IsCacheValid(p) == service[p].loaded /\ service[p].inTime
CacheOnly == UNCHANGED <<stored, edit, edits>>

-----------------------------------------------------------------------------
(* Readers. *)

CacheExpires(p) ==
  /\ service[p].inTime /\ service' = [service EXCEPT ![p].inTime = FALSE]
  /\ CacheOnly /\ UNCHANGED <<refresh, copy, readFailures>>

\* A reader finds that the cache is not valid, takes the lock and asks the database.
RefreshIfNeeded(p) ==
  /\ ~IsCacheValid(p) /\ refresh[p] = NoRefresh
  /\ refresh' = [refresh EXCEPT ![p] = [step |-> "read", row |-> stored]]
  /\ CacheOnly /\ UNCHANGED <<service, copy, readFailures>>

\* Mutant: the rows are added to what is cached.
AddRows(p) ==
  /\ refresh[p].step = "read" /\ refresh[p].row \notin Misfits
  /\ service' = [service EXCEPT ![p] =
       [value |-> IF refresh[p].row = Absent THEN @.value ELSE refresh[p].row,
        typed |-> TRUE, loaded |-> TRUE, inTime |-> TRUE]]
  /\ refresh' = [refresh EXCEPT ![p] = NoRefresh]
  /\ CacheOnly /\ UNCHANGED <<copy, readFailures>>

\* What was read replaces the cache and counts as new, whatever was written to the
\* cache, or invalidated, since it was read.
ReplaceCache(p) ==
  /\ refresh[p].step = "read" /\ refresh[p].row \notin Misfits
  /\ service' = [service EXCEPT ![p] = [value |-> refresh[p].row, typed |-> refresh[p].row # Absent,
                                       loaded |-> TRUE, inTime |-> TRUE]]
  /\ refresh' = [refresh EXCEPT ![p] = NoRefresh]
  /\ CacheOnly /\ UNCHANGED <<copy, readFailures>>

\* The old cache stays in use, and stays out of time, or is emptied if it was
\* invalidated; get answers from it all the same.
KeepsOld(p) ==
  /\ service' = [service EXCEPT ![p].value = IF service[p].loaded THEN @ ELSE Absent,
                               ![p].typed = service[p].loaded /\ @]
  /\ refresh' = [refresh EXCEPT ![p] = NoRefresh]
  /\ copy' = [copy EXCEPT ![p] = IF @.inTime THEN @ ELSE [value |-> service'[p].value, inTime |-> TRUE]]
  /\ CacheOnly

\* The database does not answer.
RefreshFails(p) ==
  /\ refresh[p].step = "read" /\ readFailures < MaxReadFailures /\ readFailures' = readFailures + 1
  /\ KeepsOld(p)

\* The coercion raises, as often as the row is read.
RefreshRefuses(p) ==
  refresh[p].step = "read" /\ refresh[p].row \in Misfits /\ KeepsOld(p) /\ UNCHANGED readFailures

CopyExpires(p) ==
  /\ copy[p].inTime /\ copy' = [copy EXCEPT ![p].inTime = FALSE]
  /\ CacheOnly /\ UNCHANGED <<service, refresh, readFailures>>

\* The copy of a valid cache is kept for as long again.
TakeCopy(p) ==
  /\ ~copy[p].inTime /\ IsCacheValid(p)
  /\ copy' = [copy EXCEPT ![p] = [value |-> service[p].value, inTime |-> TRUE]]
  /\ CacheOnly /\ UNCHANGED <<service, refresh, readFailures>>

-----------------------------------------------------------------------------
(* Requests: get_single, then the row, then the cache. *)

Goes(e, step) == edit' = [edit EXCEPT ![e].step = step]
RowOnly == UNCHANGED <<service, refresh, copy, readFailures>>

Begins(e, p, step, v) ==
  /\ edit[e].step = "idle" /\ edits < MaxEdits /\ edits' = edits + 1
  /\ edit' = [edit EXCEPT ![e] = [step |-> step, on |-> p, value |-> v]]
  /\ RowOnly /\ UNCHANGED stored

\* update_setting, with a key that is known, creates the row it does not find. An import
\* with overwrite does the same. The value of a row that is there is checked if this
\* process has its type.
BeginUpdate(e, p) ==
  \/ stored = Absent /\ \E v \in Values \ Misfits : Begins(e, p, "create", v)
  \/ stored # Absent /\ \E v \in Values : (v \in Misfits => ~service[p].typed) /\ Begins(e, p, "set", v)
\* create_setting, seed_settings_from_env and an import without overwrite.
BeginCreate(e, p) == stored = Absent /\ \E v \in Values \ Misfits : Begins(e, p, "create", v)
BeginDelete(e, p) == stored # Absent /\ Begins(e, p, "delete", Absent)

\* The UPDATE. When the row is gone by now the caller may be told so; a driver that does
\* not count rows lets the value into the cache.
SetRow(e) ==
  /\ edit[e].step = "set"
  /\ \/ stored # Absent /\ stored' = edit[e].value /\ Goes(e, "cache")
     \/ stored = Absent /\ stored' = stored /\ (Goes(e, "idle") \/ Goes(e, "cache"))
  /\ RowOnly /\ UNCHANGED edits

\* The key is unique: the second insert fails.
CreateRow(e) ==
  /\ edit[e].step = "create"
  /\ IF stored = Absent THEN stored' = edit[e].value /\ Goes(e, "new")
                        ELSE stored' = stored /\ Goes(e, "idle")
  /\ RowOnly /\ UNCHANGED edits

DeleteSettingRow(e) ==
  /\ edit[e].step = "delete" /\ stored' = Absent /\ Goes(e, "cache")
  /\ RowOnly /\ UNCHANGED edits

\* The value, or its absence, goes into the cache of the process that served the request;
\* the type only with a row that was made or deleted.
WriteCache(e) ==
  /\ edit[e].step \in {"cache", "new"}
  /\ service' = [service EXCEPT ![edit[e].on].value = edit[e].value,
       ![edit[e].on].typed = edit[e].step = "new" \/ (edit[e].value # Absent /\ @)]
  /\ Goes(e, "idle")
  /\ UNCHANGED <<stored, refresh, copy, edits, readFailures>>

InvalidateCache(p) ==
  /\ p \in Editors /\ edits < MaxEdits /\ edits' = edits + 1
  /\ service' = [service EXCEPT ![p].loaded = FALSE, ![p].inTime = FALSE]
  /\ UNCHANGED <<stored, refresh, copy, edit, readFailures>>

-----------------------------------------------------------------------------
Reading(p) == RefreshIfNeeded(p) \/ ReplaceCache(p) \/ RefreshRefuses(p)
Editing(e) == SetRow(e) \/ CreateRow(e) \/ DeleteSettingRow(e) \/ WriteCache(e)
SettingsNext ==
  \/ \E p \in Processes : \/ CacheExpires(p) \/ Reading(p) \/ RefreshFails(p)
                          \/ CopyExpires(p) \/ TakeCopy(p) \/ InvalidateCache(p)
  \/ \E e \in Edits, p \in Editors : BeginUpdate(e, p) \/ BeginCreate(e, p) \/ BeginDelete(e, p)
  \/ \E e \in Edits : Editing(e)

\* Time passes, every process goes on reading, and requests that began go on.
SettingsFairness ==
  /\ \A p \in Processes :
       /\ WF_settingsVars(CacheExpires(p)) /\ WF_settingsVars(Reading(p))
       /\ WF_settingsVars(CopyExpires(p)) /\ SF_settingsVars(TakeCopy(p))
  /\ \A e \in Edits : WF_settingsVars(Editing(e))
SettingsSpec == SettingsInit /\ [][SettingsNext]_settingsVars /\ SettingsFairness

-----------------------------------------------------------------------------
SettingsTypeOK ==
  /\ stored \in Rows
  /\ service \in [Processes -> [value : Rows, typed : BOOLEAN, loaded : BOOLEAN, inTime : BOOLEAN]]
  /\ refresh \in [Processes -> [step : {"none", "read"}, row : Rows]]
  /\ copy \in [Processes -> [value : Rows, inTime : BOOLEAN]]
  /\ edit \in [Edits -> [step : {"idle", "set", "create", "delete", "cache", "new"}, on : Editors, value : Rows]]
  /\ edits \in 0 .. MaxEdits /\ readFailures \in 0 .. MaxReadFailures

\* Once the edits stop, every process comes to see the stored value, in its cache and
\* in the copies of its readers, and keeps to it: whatever refresh was under way when
\* the row was written, in whichever order two requests wrote the row and the cache, and
\* also after a value that made refreshes fail, if it does not stay.
SettingsSpread ==
  <>[](stored \notin Misfits =>
         \A p \in Processes : service[p].value = stored /\ copy[p].value = stored)
=============================================================================
