---------------------------- MODULE CustomFields ----------------------------
(***************************************************************************)
(* The values of one video's custom fields (api/admin.py): requests that   *)
(* set or clear all of them in one transaction, at the same time, while a  *)
(* field may be deleted with its values. A bulk request has a transaction  *)
(* for each video, so that one video is enough.                            *)
(*                                                                         *)
(* PostgreSQL's part is external: a statement reads what is committed, a   *)
(* row that is written stays locked until the transaction ends, a second   *)
(* writer of it waits, and of writers that wait for each other one is      *)
(* aborted.                                                                *)
(***************************************************************************)
EXTENDS Naturals, FiniteSets, SequencesExt

CONSTANTS Fields,        \* of this video's category
          FieldRequests,
          BulkRequests,  \* those of the bulk endpoint, which tries a transaction again
          FieldTries     \* max_retries of the bulk endpoint

ASSUME CustomFieldsAssumption ==
  /\ IsFiniteSet(Fields) /\ BulkRequests \subseteq FieldRequests /\ FieldTries \in Nat \ {0}
  /\ FieldRequests \cap {"unset", "before", "unlocked"} = {}  \* what stands for no request

VARIABLES fieldDefs,  \* the fields that are defined
          fieldValue, \* of each field, the request that wrote it, or Before, or Unset
          rowLock,    \* of each field's row, the transaction that wrote it and is under way
          setter,     \* of each request: its step, its fields in order, how far it got, what it saw
          clears      \* the requests whose values are null

fieldVars == <<fieldDefs, fieldValue, rowLock, setter, clears>>

Unset == "unset"
Before == "before"
Unlocked == "unlocked"
Orders == SetToSeqs(Fields)

FieldInit ==
  /\ fieldDefs = Fields
  /\ \E v \in {Unset, Before} : fieldValue = [f \in Fields |-> v]
  /\ rowLock = [f \in Fields |-> Unlocked]
  /\ \E o \in Orders : setter = [q \in FieldRequests |->
       [step |-> "idle", order |-> o, at |-> 1, saw |-> FALSE, tries |-> 1]]
  /\ clears = {}

Field(q) == setter[q].order[setter[q].at]
Locked(f, q) == rowLock[f] \notin {Unlocked, q}
Lock(f, q) == rowLock' = [rowLock EXCEPT ![f] = q]
Release(q) == rowLock' = [f \in Fields |-> IF rowLock[f] = q THEN Unlocked ELSE rowLock[f]]
Steps(q, step) == setter' = [setter EXCEPT ![q].step = step]
Finished(q) == setter[q].step \in {"done", "failed"}

\* The next field, or the end of the transaction.
Onward(q) ==
  setter' = [setter EXCEPT ![q].at = IF @ = Len(setter[q].order) THEN @ ELSE @ + 1,
                           ![q].step = IF setter[q].at = Len(setter[q].order) THEN "commit" ELSE "look"]

-----------------------------------------------------------------------------
\* The fields are validated before the transaction. A request sets all or clears all;
\* its fields come in the order of its body.
BeginRequest(q) ==
  /\ setter[q].step = "idle" /\ fieldDefs = Fields
  /\ \E o \in Orders : setter' = [setter EXCEPT ![q].order = o, ![q].step = "look"]
  /\ clears' \in {clears, clears \cup {q}}
  /\ UNCHANGED <<fieldDefs, fieldValue, rowLock>>

\* The SELECT, which waits for nobody. A null value is deleted without one.
LookForValue(q) ==
  /\ setter[q].step = "look"
  /\ setter' = [setter EXCEPT ![q].step = "write", ![q].saw = q \in clears \/ fieldValue[Field(q)] # Unset]
  /\ UNCHANGED <<fieldDefs, fieldValue, rowLock, clears>>

\* UPDATE or DELETE: they wait for whoever wrote the row, and do nothing when it is gone.
WriteValue(q) ==
  /\ setter[q].step = "write" /\ setter[q].saw
  /\ IF fieldValue[Field(q)] = Unset THEN rowLock' = rowLock
     ELSE ~Locked(Field(q), q) /\ Lock(Field(q), q)
  /\ Onward(q) /\ UNCHANGED <<fieldDefs, fieldValue, clears>>

\* INSERT: it waits for another INSERT of the key.
InsertValue(q) ==
  /\ setter[q].step = "write" /\ ~setter[q].saw
  /\ fieldValue[Field(q)] = Unset /\ Field(q) \in fieldDefs
  /\ ~Locked(Field(q), q) /\ Lock(Field(q), q)
  /\ Onward(q) /\ UNCHANGED <<fieldDefs, fieldValue, clears>>

\* Mutant: every statement commits by itself.
CommitEach(q) ==
  /\ setter[q].step \in {"look", "commit"}
  /\ fieldValue' = [f \in Fields |-> IF rowLock[f] # q THEN fieldValue[f]
                                     ELSE IF q \in clears THEN Unset ELSE q]
  /\ Release(q) /\ Steps(q, IF setter[q].step = "commit" THEN "done" ELSE "look")
  /\ UNCHANGED <<fieldDefs, clears>>

Commit(q) ==
  /\ setter[q].step = "commit"
  /\ fieldValue' = [f \in Fields |-> IF rowLock[f] # q THEN fieldValue[f]
                                     ELSE IF q \in clears THEN Unset ELSE q]
  /\ Release(q) /\ Steps(q, "done")
  /\ UNCHANGED <<fieldDefs, clears>>

\* The key exists by now, or the field does not: neither endpoint tries that again.
InsertRefused(q) ==
  /\ setter[q].step = "write" /\ ~setter[q].saw
  /\ fieldValue[Field(q)] # Unset \/ Field(q) \notin fieldDefs
  /\ ~Locked(Field(q), q) /\ Release(q) /\ Steps(q, "failed")
  /\ UNCHANGED <<fieldDefs, fieldValue, clears>>

\* Any other error: the transaction is rolled back.
RequestFails(q) ==
  /\ setter[q].step \in {"look", "write", "commit"}
  /\ Release(q) /\ Steps(q, "failed")
  /\ UNCHANGED <<fieldDefs, fieldValue, clears>>

WaitsFor(q, r) ==
  /\ setter[q].step = "write" /\ rowLock[Field(q)] = r /\ r # q
  /\ setter[q].saw => fieldValue[Field(q)] # Unset

\* Mutant: the transaction is tried for as long as it takes.
TryAgainAlways(q) ==
  /\ \E r \in FieldRequests : WaitsFor(q, r) /\ WaitsFor(r, q)
  /\ Release(q) /\ setter' = [setter EXCEPT ![q].step = "look", ![q].at = 1]
  /\ UNCHANGED <<fieldDefs, fieldValue, clears>>

\* A deadlock: the bulk endpoint begins its transaction again, a number of times.
AbortDeadlock(q) ==
  /\ \E r \in FieldRequests : WaitsFor(q, r) /\ WaitsFor(r, q)
  /\ Release(q)
  /\ IF q \in BulkRequests /\ setter[q].tries < FieldTries
     THEN setter' = [setter EXCEPT ![q].step = "look", ![q].at = 1, ![q].tries = @ + 1]
     ELSE Steps(q, "failed")
  /\ UNCHANGED <<fieldDefs, fieldValue, clears>>

\* delete_custom_field; the values go with it. It waits for those that write them.
DeleteField(f) ==
  /\ f \in fieldDefs /\ rowLock[f] = Unlocked
  /\ fieldDefs' = fieldDefs \ {f}
  /\ fieldValue' = [fieldValue EXCEPT ![f] = Unset]
  /\ UNCHANGED <<rowLock, setter, clears>>

-----------------------------------------------------------------------------
Setting(q) == LookForValue(q) \/ WriteValue(q) \/ InsertValue(q) \/ InsertRefused(q) \/ Commit(q)
FieldNext ==
  \/ \E q \in FieldRequests : BeginRequest(q) \/ Setting(q) \/ RequestFails(q) \/ AbortDeadlock(q)
  \/ \E f \in Fields : DeleteField(f)

\* A request that began goes on, and the database finds every deadlock.
FieldFairness ==
  \A q \in FieldRequests : WF_fieldVars(Setting(q)) /\ WF_fieldVars(AbortDeadlock(q))
FieldSpec == FieldInit /\ [][FieldNext]_fieldVars /\ FieldFairness

-----------------------------------------------------------------------------
FieldTypeOK ==
  /\ fieldDefs \subseteq Fields
  /\ fieldValue \in [Fields -> FieldRequests \cup {Unset, Before}]
  /\ rowLock \in [Fields -> FieldRequests \cup {Unlocked}]
  /\ setter \in [FieldRequests -> [step : {"idle", "look", "write", "commit", "done", "failed"},
                                   order : Orders, at : 1 .. Cardinality(Fields), saw : BOOLEAN,
                                   tries : 1 .. FieldTries]]
  /\ clears \subseteq FieldRequests

\* Unless some request clears values, the values of the fields that are still defined
\* were written by one request, whole: whatever the others did at the same time, in
\* whichever order they wrote, and however they ended. (With a request that clears they
\* may be mixed: an UPDATE of a row that was deleted meanwhile changes nothing.)
ValuesAreWhole ==
  clears = {} => \A f, g \in fieldDefs : fieldValue[f] = fieldValue[g]

\* No request stays under way for ever, though two of them write the same rows in
\* opposite order.
FieldRequestsEnd ==
  <>[](\A q \in FieldRequests : setter[q].step = "idle" \/ Finished(q))
=============================================================================
