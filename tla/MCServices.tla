----------------------------- MODULE MCServices -----------------------------
(* Instance for TLC of the components around the queue.  They share no       *)
(* state: a behaviour follows one of them ("focus"), the others rest.        *)
EXTENDS ExamTime, Pacing, RateLimits, WorkerRegistry, Alerts, LiveWall, Dashboard,
        MCAttention, SavedViews, Import, ManualCheck, TokenRefresh

VARIABLE focus

-----------------------------------------------------------------------------
(* ExamTime: two days round each change of the clocks, every half hour and   *)
(* a quarter past.                                                           *)

HalfHours == {30 * i : i \in 0 .. 95} \cup {60 * i + 15 : i \in 20 .. 36}

Chicago == {[before |-> -360, after |-> -300, change |-> 1440 + 480],
            [before |-> -300, after |-> -360, change |-> 1440 + 420]}
Berlin  == {[before |-> 60, after |-> 120, change |-> 1440 + 60]}
Dubai   == {[before |-> 240, after |-> 240, change |-> 0]}
Sources == Chicago \cup Berlin \cup Dubai

\* A school day; an evening up to the last minute under 11 hours; a window past midnight.
ExamWindows == {[open |-> 450, close |-> 930], [open |-> 600, close |-> 1259],
                [open |-> 1320, close |-> 360]}

(* Pacing: a bucket that the minute limits, and one that tokens and spacing do. *)
Buckets == {[rate |-> 8, rpm |-> 2, delay |-> 0, burst |-> 3],
            [rate |-> 2, rpm |-> 3, delay |-> 1, burst |-> 1]}

(* RateLimits: MODE_TUNING, in steps that keep the rates few.                 *)
Normal == [ceil |-> 200, increase |-> 60]
Fast   == [ceil |-> 600, increase |-> 600]

(* TokenRefresh: two calls of one process; crashes, failed releases and lost *)
(* acknowledgements leave locks behind for it to meet.                       *)
OneProcess == [c \in Calls |-> CHOOSE p \in Processes : TRUE]

(* Dashboard: rows that differ in what the tiles treat apart.                *)
Sitting == [school |-> "s1", grade |-> "g1", subject |-> "Math", status |-> "COMPLETED",
            sync |-> "COMPLETED", deleted |-> FALSE, hour |-> 9, today |-> TRUE,
            scores |-> {10, 22}, emiratesId |-> "e1", external |-> "x1"]
SampleRows ==
  { Sitting,
    [Sitting EXCEPT !.school = Null, !.status = "NOT_STARTED", !.emiratesId = ""],
    [Sitting EXCEPT !.grade = Null, !.subject = "Parent Questionnaire", !.sync = "ERROR",
                    !.emiratesId = Null, !.external = "x2"],
    [Sitting EXCEPT !.school = "s2", !.hour = 22, !.scores = {}, !.today = FALSE,
                    !.emiratesId = "e2", !.external = "x3"],
    [Sitting EXCEPT !.deleted = TRUE],
    [Sitting EXCEPT !.hour = None, !.sync = "MANUAL_REVIEW", !.status = "IN_PROGRESS",
                    !.emiratesId = ""] }
Everything == [scoped |-> FALSE, schools |-> {}, school |-> Any, grade |-> Any, subjects |-> {},
               statuses |-> {}, apiError |-> FALSE, fromHour |-> None, toHour |-> None,
               scoreMin |-> None, scoreMax |-> None]
SampleQueries ==
  { Everything,
    [Everything EXCEPT !.scoped = TRUE],
    [Everything EXCEPT !.scoped = TRUE, !.schools = {"s1"}, !.apiError = TRUE],
    [Everything EXCEPT !.fromHour = 21, !.toHour = 9],
    [Everything EXCEPT !.subjects = {"Math"}, !.scoreMin = 20, !.scoreMax = 25],
    [Everything EXCEPT !.toHour = 99, !.statuses = {"COMPLETED"}, !.school = "s1"] }

(* Import: three files about two students; code and subject in two spellings. *)
Dashed == [spelled |-> "a-1", normal |-> "A1", long |-> TRUE]
Plain  == [spelled |-> "A1", normal |-> "A1", long |-> TRUE]
Upper   == [spelled |-> "SU", normal |-> "su"]
Lower   == [spelled |-> "su", normal |-> "su"]
FileRow == [student |-> "st1", subject |-> Lower, code |-> Dashed, exam |-> "e1",
            attendance |-> Nothing, name |-> "n", dates |-> TRUE]
SampleFiles ==
  { <<FileRow>>,
    <<[FileRow EXCEPT !.code = Plain, !.attendance = "present", !.exam = "e2"]>>,
    <<[FileRow EXCEPT !.attendance = "absent", !.name = Nothing],
      [FileRow EXCEPT !.subject = Upper, !.code = Plain],
      [FileRow EXCEPT !.student = "st2"]>> }
SampleRoutings ==
  { [active |-> [w1 |-> TRUE, w2 |-> on], subjectCode |-> [w1 |-> "e1", w2 |-> "e9"],
     alias |-> [e1 |-> to, e2 |-> Nothing]] : on \in BOOLEAN, to \in {Nothing, "w2"} }

(* ManualCheck: records with and without workspace.                          *)
SampleRecords ==
  {NoRecord} \cup
  { [found |-> TRUE, workspace |-> w, subject |-> "m1", status |-> "COMPLETED",
     attendance |-> "absent"] : w \in {Unmapped, "v1"} }
SubjectMap == [m1 |-> "v2", none |-> Unmapped]

-----------------------------------------------------------------------------

servicesVars == <<focus, timeVars, paceVars, limitVars, registryVars, alertVars, wallVars,
                  dashVars, attnVars, viewVars, importVars, checkVars, tokenVars>>

Foci == {"time", "pacing", "limits", "registry", "alerts", "wall", "dashboard", "attention",
         "views", "import", "check", "token"}

\* A component that rests is in one of its initial states.
ServicesInit ==
  /\ focus \in Foci
  /\ IF focus = "time" THEN TimeInit
     ELSE sitting = (CHOOSE s \in Sittings : TRUE) /\ resolved = Unread
  /\ IF focus = "pacing" THEN PacingInit
     ELSE PacingStart("workspace", FALSE, CHOOSE c \in RateConfigs : TRUE)
  /\ LimitsInit /\ RegistryInit /\ WallInit /\ ViewInit /\ TokenInit
  /\ IF focus = "alerts" THEN AlertsInit ELSE AlertsStart({})
  /\ IF focus = "dashboard" THEN DashInit
     ELSE DashStart([i \in Ids |-> CHOOSE r \in Rows : TRUE], CHOOSE q \in Queries : TRUE)
  /\ IF focus = "attention" THEN AttentionInit
     ELSE AttentionStart([s \in Students |-> CHOOSE c \in Conditions : TRUE])
  /\ IF focus = "import" THEN ImportInit ELSE ImportStart(CHOOSE rt \in Routings : TRUE)
  /\ IF focus = "check" THEN CheckInit ELSE CheckStart(NoRecord, Servers, Unmapped)

Late  == <<dashVars, attnVars, viewVars, importVars, checkVars, tokenVars>>
Early == <<timeVars, paceVars, limitVars, registryVars, alertVars, wallVars>>

Follow(component, step) == focus = component /\ step /\ UNCHANGED focus

Times(step)     == Follow("time", step)
                   /\ UNCHANGED <<paceVars, limitVars, registryVars, alertVars, wallVars, Late>>
Paces(step)     == Follow("pacing", step)
                   /\ UNCHANGED <<timeVars, limitVars, registryVars, alertVars, wallVars, Late>>
Limiting(step)  == Follow("limits", step)
                   /\ UNCHANGED <<timeVars, paceVars, registryVars, alertVars, wallVars, Late>>
Registers(step) == Follow("registry", step)
                   /\ UNCHANGED <<timeVars, paceVars, limitVars, alertVars, wallVars, Late>>
Warns(step)     == Follow("alerts", step)
                   /\ UNCHANGED <<timeVars, paceVars, limitVars, registryVars, wallVars, Late>>
Shows(step)     == Follow("wall", step)
                   /\ UNCHANGED <<timeVars, paceVars, limitVars, registryVars, alertVars, Late>>
Counts(step)    == Follow("dashboard", step)
                   /\ UNCHANGED <<Early, attnVars, viewVars, importVars, checkVars, tokenVars>>
Attends(step)   == Follow("attention", step)
                   /\ UNCHANGED <<Early, dashVars, viewVars, importVars, checkVars, tokenVars>>
Saves(step)     == Follow("views", step)
                   /\ UNCHANGED <<Early, dashVars, attnVars, importVars, checkVars, tokenVars>>
Imports(step)   == Follow("import", step)
                   /\ UNCHANGED <<Early, dashVars, attnVars, viewVars, checkVars, tokenVars>>
Checks(step)    == Follow("check", step)
                   /\ UNCHANGED <<Early, dashVars, attnVars, viewVars, importVars, tokenVars>>
Calling(step)   == Follow("token", step)
                   /\ UNCHANGED <<Early, dashVars, attnVars, viewVars, importVars, checkVars>>

ServicesNext ==
  \/ Times(TimeNext) \/ Paces(PacingNext) \/ Limiting(LimitsNext) \/ Registers(RegistryNext)
  \/ Warns(AlertsNext) \/ Shows(WallNext) \/ Counts(DashNext) \/ Attends(AttentionNext)
  \/ Saves(ViewNext) \/ Imports(ImportNext) \/ Checks(CheckNext) \/ Calling(TokenNext)

\* The fairness of each component (LimitsFairness and the like) while it is followed.
ServicesFairness ==
  /\ \A t \in Tuners :
       WF_limitVars(focus = "limits" /\ (TuneRead(t) \/ TuneMode(t) \/ TuneWrite(t)))
  /\ WF_limitVars(focus = "limits" /\ SeedRow)
  /\ \A w \in Workers :
       /\ WF_registryVars(focus = "registry" /\ SendHeartbeat(w))
       /\ WF_registryVars(focus = "registry" /\ LandHeartbeat(w))
  /\ WF_registryVars(focus = "registry" /\ BeginSweep)
  /\ WF_registryVars(focus = "registry" /\ Classify)
  /\ WF_registryVars(focus = "registry" /\ Purge)
  /\ WF_registryVars(focus = "registry" /\ TickRegistry)
  /\ \A d \in Detectors : WF_alertVars(focus = "alerts" /\ CycleStep(d))
  /\ WF_wallVars(focus = "wall" /\ \E k \in Ticks : TimerTick(k))
  /\ \A k \in Ticks : WF_wallVars(focus = "wall" /\ EndTick(k))
  /\ WF_wallVars(focus = "wall" /\ TimePasses)
  /\ \A c \in Calls : WF_tokenVars(focus = "token" /\ Proceeds(c))
  /\ \A p \in Processes :
       /\ WF_tokenVars(focus = "token" /\ RefreshSwitch(p))
       /\ WF_tokenVars(focus = "token" /\ Connected(p))
  /\ WF_tokenVars(focus = "token" /\ Lapse /\ lock = Orphan)
  /\ WF_tokenVars(focus = "token" /\ Reap)

ServicesSpec == ServicesInit /\ [][ServicesNext]_servicesVars /\ ServicesFairness
=============================================================================
