----------------------------- MODULE Attention -----------------------------
(***************************************************************************)
(* The queue of registrations that need attention (attention.service.ts):  *)
(* a refresh reads the registrations, stores an item for every issue it    *)
(* finds and resolves the items whose issue is gone, while registrations   *)
(* change and staff work on the items.                                     *)
(*                                                                         *)
(* A registration is a record of what classify looks at.                   *)
(***************************************************************************)
EXTENDS Integers, FiniteSets

CONSTANTS
  Students,   \* the registrations
  ReadLimit,  \* how many of them one refresh reads (50000)
  Conditions, \* the states a registration may be in
  Refreshers  \* requests and jobs that refresh

ASSUME AttentionAssumption == ReadLimit \in Nat

VARIABLES
  regs,     \* the registrations
  items,    \* the attention items, by registration and issue
  refresh,  \* per refresher: where it is and what it has read
  undisturbed \* a refresher has been alone since it began

attnVars == <<regs, items, refresh, undisturbed>>

Issues ==
  {"API_NOT_FOUND", "INVALID_TESTCODE", "WORKSPACE_MAPPING_MISSING", "AUTH_FAILED",
   "REPEATED_API_ERROR", "SYNC_FAILED_MAX_RETRIES", "STALE_STATUS",
   "NO_RESULTS_AFTER_COMPLETION", "STATUS_CONFLICT", "MISSING_STUDENT_MAPPING"}

\* classify: the issues of a registration.
Holds(issue, reg) ==
  CASE issue = "API_NOT_FOUND"             -> reg.error = "NOT_FOUND"
    [] issue = "INVALID_TESTCODE"          -> reg.error = "INVALID_TESTCODE" \/ reg.shortCode
    [] issue = "WORKSPACE_MAPPING_MISSING" -> ~ reg.mapped \/ reg.error = "WORKSPACE_MISMATCH"
    [] issue = "AUTH_FAILED"               ->
         reg.error \in {"UNAUTHORIZED", "AUTH_FAILED", "TOKEN_EXPIRED"}
    [] issue = "REPEATED_API_ERROR"        -> reg.sync = "ERROR" /\ reg.retries >= 2
    [] issue = "SYNC_FAILED_MAX_RETRIES"   -> reg.sync = "MANUAL_REVIEW"
    [] issue = "STALE_STATUS"              -> reg.status \in {"IN_PROGRESS", "NOT_STARTED"} /\ reg.old
    [] issue = "NO_RESULTS_AFTER_COMPLETION" -> reg.status = "COMPLETED" /\ reg.results = 0
    [] issue = "STATUS_CONFLICT"           ->
         reg.absent /\ reg.status \in {"IN_PROGRESS", "COMPLETED"}
    [] issue = "MISSING_STUDENT_MAPPING"   -> ~ reg.linked

Keys == Students \X Issues

Detected(rs) == {k \in Keys : Holds(k[2], rs[k[1]])}

Absent == [status |-> "NONE", by |-> "nobody"]
Open   == [status |-> "OPEN", by |-> "nobody"]

Unsettled(k) == items[k].status \in {"OPEN", "ACKNOWLEDGED"}

Waiting == [step |-> "idle", detected |-> {}, todo |-> {}, stale |-> {}]

AttentionTypeOK ==
  /\ regs \in [Students -> Conditions]
  /\ items \in [Keys -> [status : {"NONE", "OPEN", "ACKNOWLEDGED", "RESOLVED"},
                         by : {"nobody", "SYSTEM", "staff"}]]
  /\ \A f \in Refreshers :
       /\ refresh[f].step \in {"idle", "store", "resolve", "done"}
       /\ refresh[f].detected \cup refresh[f].todo \cup refresh[f].stale \subseteq Keys
  /\ undisturbed \in [Refreshers -> BOOLEAN]

AttentionStart(rs) ==
  /\ regs = rs
  /\ items = [k \in Keys |-> Absent]
  /\ refresh = [f \in Refreshers |-> Waiting]
  /\ undisturbed = [f \in Refreshers |-> FALSE]

AttentionInit == \E rs \in [Students -> Conditions] : AttentionStart(rs)

\* Everybody but f is disturbed.
DisturbOthers(f) == undisturbed' = [g \in Refreshers |-> g = f /\ undisturbed[g]]

-----------------------------------------------------------------------------

\* What one query returns: it asks for no order and stops at the limit.
Pages == IF Cardinality(Students) <= ReadLimit THEN {Students}
         ELSE {page \in SUBSET Students : Cardinality(page) = ReadLimit}

\* The registrations are read in one query and classified one by one.
ReadRegistrations(f) ==
  /\ refresh[f].step \in {"idle", "done"}
  /\ \E page \in Pages :
       LET detected == {k \in Detected(regs) : k[1] \in page}
       IN  refresh' = [refresh EXCEPT ![f] = [Waiting EXCEPT !.step = "store",
                                                !.detected = detected, !.todo = detected]]
  /\ undisturbed' = [g \in Refreshers |-> g = f]
  /\ UNCHANGED <<regs, items>>

\* Mutant: the update half of the upsert opens the item.
UpsertedOpen(item) == Open

\* The update half leaves the status alone (status: undefined).
Upserted(item) == IF item = Absent THEN Open ELSE item

StoreItem(f) ==
  /\ refresh[f].step = "store"
  /\ \E k \in refresh[f].todo :
       /\ items' = [items EXCEPT ![k] = Upserted(@)]
       /\ refresh' = [refresh EXCEPT ![f].todo = @ \ {k}]
  /\ DisturbOthers(f)
  /\ UNCHANGED regs

\* Mutant: an item is kept as long as its registration has any issue.
StaleByStudent(f) == {k \in Keys : Unsettled(k) /\ ~ \E d \in refresh[f].detected : d[1] = k[1]}

Stale(f) == {k \in Keys : Unsettled(k)} \ refresh[f].detected

ReadItems(f) ==
  /\ refresh[f].step = "store" /\ refresh[f].todo = {}
  /\ refresh' = [refresh EXCEPT ![f].step = "resolve", ![f].stale = Stale(f)]
  /\ UNCHANGED <<regs, items, undisturbed>>

\* By id, whatever has become of the item since.
ResolveStale(f) ==
  /\ refresh[f].step = "resolve"
  /\ items' = [k \in Keys |-> IF k \in refresh[f].stale
                              THEN [status |-> "RESOLVED", by |-> "SYSTEM"] ELSE items[k]]
  /\ refresh' = [refresh EXCEPT ![f] = [Waiting EXCEPT !.step = "done"]]
  /\ DisturbOthers(f)
  /\ UNCHANGED regs

\* Any of its statements may fail, two inserts of one item among them.
RefreshFails(f) ==
  /\ refresh[f].step \in {"store", "resolve"}
  /\ refresh' = [refresh EXCEPT ![f] = Waiting]
  /\ UNCHANGED <<regs, items, undisturbed>>

\* Syncs, imports and operators change the registrations.
RegistrationChanges ==
  /\ \E s \in Students, c \in Conditions : c # regs[s] /\ regs' = [regs EXCEPT ![s] = c]
  /\ undisturbed' = [g \in Refreshers |-> FALSE]
  /\ UNCHANGED <<items, refresh>>

\* Staff may set any status; resolvedBy stays when an item is reopened.
SetItemStatus ==
  /\ \E k \in Keys, to \in {"OPEN", "ACKNOWLEDGED", "RESOLVED"} :
       /\ items[k] # Absent
       /\ items' = [items EXCEPT ![k] = [status |-> to,
                                           by |-> IF to = "RESOLVED" THEN "staff" ELSE @.by]]
  /\ undisturbed' = [g \in Refreshers |-> FALSE]
  /\ UNCHANGED <<regs, refresh>>

AttentionNext ==
  \/ \E f \in Refreshers :
       ReadRegistrations(f) \/ StoreItem(f) \/ ReadItems(f) \/ ResolveStale(f)
       \/ RefreshFails(f)
  \/ RegistrationChanges \/ SetItemStatus

AttentionSpec == AttentionInit /\ [][AttentionNext]_attnVars

-----------------------------------------------------------------------------

\* f has refreshed, and nothing else came between.
Refreshed(f) == refresh[f].step = "done" /\ undisturbed[f]

\* After a refresh that nothing else came between no item waits for staff whose issue is
\* gone, though another issue of the same registration may remain; and every issue of a
\* registration has its item, as long as one query reads all registrations.  (Beyond the
\* limit it does not: see "What the code does not keep to".)
RefreshCatchesUp ==
  \A f \in Refreshers :
    Refreshed(f) =>
      /\ \A k \in Keys : Unsettled(k) => k \in Detected(regs)
      /\ Cardinality(Students) <= ReadLimit => \A k \in Detected(regs) : items[k] # Absent

\* A refresh never takes an item back from staff: acknowledged items do not become
\* open again and what staff resolved stays resolved.
StaffWorkIsKept ==
  [][ \A k \in Keys :
        (\E f \in Refreshers : refresh'[f] # refresh[f]) =>
          /\ items[k].status = "ACKNOWLEDGED" => items'[k].status \in {"ACKNOWLEDGED", "RESOLVED"}
          /\ items[k] = [status |-> "RESOLVED", by |-> "staff"]
               => items'[k].status = "RESOLVED" ]_attnVars

\* "reopen a SYSTEM-resolved item if the issue recurs" (attention.service.ts): after a
\* refresh that nothing else came between no live issue has an item that the system
\* resolved.  The code does not do so: the update leaves the status alone.
RecurringIsReopened ==
  \A f \in Refreshers :
    Refreshed(f) =>
      \A k \in Detected(regs) : items[k] # [status |-> "RESOLVED", by |-> "SYSTEM"]
=============================================================================
