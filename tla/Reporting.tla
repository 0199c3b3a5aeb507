----------------------------- MODULE Reporting ------------------------------
(***************************************************************************)
(* Spatially-variable reports (-extra_file), snapshots (-save_file) and     *)
(* backups of IceModel, over a chain of runs: a run may be killed at any    *)
(* point, or end early after SIGTERM, and the next one resumes from the     *)
(* last state that was saved, appending to the same report file.            *)
(*                                                                          *)
(* Time is in ticks; the code compares times with a tolerance of 1 second,  *)
(* Tol ticks.  A report is the pair of its time bounds; the upper bound is  *)
(* the time of the record.  The adaptive time step is any step within the   *)
(* limit of extras_max_timestep() and the end of the run.                   *)
(***************************************************************************)
EXTENDS ReportTimes

CONSTANTS Start,      \* time of the model state the first run starts from
          MaxRuns,    \* bound on the number of runs
          Plans,      \* what may be asked of a chain of runs:
                      \* requests: -extra_times, snaps: -save_times;
                      \* ranged: both are given as ranges a:dt:b, not as lists;
                      \* force: extras_force_output_times;
                      \* appending: runs that find the report file use
                      \* -extra_append; crashes: runs may be killed;
                      \* ends: the ends of runs, which bound the clock
          Tol,        \* one second
          Slack       \* overshoot of -timestep_hit_multiples

PlanType == [requests : Seq(Nat), snaps : Seq(Nat), ranged : BOOLEAN,
             force : BOOLEAN, appending : BOOLEAN, crashes : BOOLEAN,
             ends : SUBSET Nat]

ASSUME ReportingAssumption ==
  /\ Start \in Nat /\ MaxRuns \in Nat
  /\ \A p \in Plans : p \in PlanType /\ Increasing(p.requests) /\ Increasing(p.snaps)
  /\ Tol \in Nat \ {0} /\ Slack \in 0..Tol - 1

VARIABLES plan,       \* the options of the chain of runs
          phase,      \* where the program is, see TypeOK
          start,      \* Time::start()
          end,        \* Time::end()
          now,        \* Time::current()
          times,      \* extra_times
          nextExtra,  \* next_extra + 1
          lastExtra,  \* last_extra
          appending,  \* -extra_append is set
          ready,      \* extra_file_is_ready
          nextSnap,   \* current_snapshot + 1
          file,       \* the records of the report file; <<>>: no such file
          saved,      \* time of the latest snapshot, backup or output file
          runs        \* number of runs started

extraVars == <<times, nextExtra, lastExtra, appending, ready, file>>
runVars   == <<start, end, runs>>
vars == <<plan, phase, now, saved, nextSnap, extraVars, runVars>>

Requests  == plan.requests
SnapTimes == plan.snaps

-----------------------------------------------------------------------------
(* init_extras(): when appending, times before the last record are dropped, *)
(* but for the last of them, the left end of the next reporting interval.   *)
Skipped(s, lastRecord) ==
  LET stop == {n \in 0..Len(s) - 1 : n + 1 < Len(s) => s[n + 2] >= lastRecord}
      n    == CHOOSE m \in stop : \A k \in stop : m =< k
  IN  SubSeq(s, n + 1, Len(s))

(* write_extras(): a requested time is due once it has passed or is less    *)
(* than a second away.                                                      *)
DueLate(r, t) == r < t                   \* mutant: strict, without tolerance

Due(r, t) == r =< t \/ Distance(r, t) < Tol

(* The index of the first time in s that is not consumed, from next on.     *)
AdvanceExtra(s, next, t) ==
  LET left == {i \in next..Len(s) + 1 : i =< Len(s) => ~Due(s[i], t)}
  IN  CHOOSE i \in left : \A j \in left : i =< j

(* write_snapshot() has no tolerance.                                       *)
AdvanceSnapStrict(s, next, t) ==         \* mutant: a time reached exactly waits
  LET left == {i \in next..Len(s) + 1 : i =< Len(s) => s[i] >= t}
  IN  CHOOSE i \in left : \A j \in left : i =< j

AdvanceSnap(s, next, t) ==
  LET left == {i \in next..Len(s) + 1 : i =< Len(s) => s[i] > t}
  IN  CHOOSE i \in left : \A j \in left : i =< j

(* The bounds of the record written at time t.                              *)
RecordFromStart(t) == [lo |-> start, hi |-> t]   \* mutant: last_extra unused

Record(t) == [lo |-> lastExtra, hi |-> t]

-----------------------------------------------------------------------------
Init ==
  /\ plan \in Plans
  /\ phase = "idle"
  /\ start = Start /\ end = Start /\ now = Start
  /\ times = <<>> /\ nextExtra = 1 /\ lastExtra = 0
  /\ appending = FALSE /\ ready = FALSE
  /\ nextSnap = 1
  /\ file = <<>>
  /\ saved = Start
  /\ runs = 0

(* init_extras() and init_snapshots(), then the write_extras() with which   *)
(* run() begins: the first requested time, if due, is the left end of the   *)
(* first reporting interval.                                                *)
StartRun(newEnd) ==
  LET append  == plan.appending /\ file # <<>>
      parsed  == ParseTimes(Requests, saved, newEnd, plan.ranged)
      wanted  == IF append THEN Skipped(parsed, file[Len(file)].hi) ELSE parsed
      next    == AdvanceExtra(wanted, 1, saved)
  IN
  /\ phase \in {"idle", "failed"} /\ runs < MaxRuns
  /\ saved < newEnd
  /\ parsed # <<>>
  /\ phase' = "running"
  /\ start' = saved /\ now' = saved /\ end' = newEnd
  /\ times' = wanted
  /\ nextExtra' = next
  /\ lastExtra' = IF next > 1 THEN saved ELSE 0
  /\ appending' = append
  /\ ready' = FALSE
  /\ nextSnap' = 1
  /\ runs' = runs + 1
  /\ UNCHANGED <<plan, file, saved>>

(* init_extras() opens the file of -extra_append for reading; that fails    *)
(* when there is no such file, and the run ends.                            *)
RefuseToAppend ==
  /\ phase = "idle" /\ runs < MaxRuns
  /\ plan.appending /\ file = <<>>
  /\ phase' = "failed"
  /\ UNCHANGED <<plan, now, saved, nextSnap, extraVars, runVars>>

(* step()                                                                   *)
Step(t) ==
  LET limit == ReportLimit(times, now, Tol)
  IN
  /\ phase = "running"
  /\ now < end
  /\ now < t /\ t =< end + Slack
  /\ plan.force /\ limit > 0 => t =< now + limit + Slack
  /\ now' = t
  /\ phase' = "snapshot"
  /\ UNCHANGED <<plan, saved, nextSnap, extraVars, runVars>>

WriteSnapshot ==
  LET wanted == ParseTimes(SnapTimes, start, end, plan.ranged)
      next   == AdvanceSnap(wanted, nextSnap, now)
  IN
  /\ phase = "snapshot"
  /\ phase' = "extras"
  /\ nextSnap' = next
  /\ saved' = IF next > nextSnap THEN now ELSE saved
  /\ UNCHANGED <<plan, now, extraVars, runVars>>

(* Nothing is due, or a time before the beginning of the run: the check of  *)
(* write_extras() that is meant for resumed runs.                           *)
NoExtras ==
  LET next == AdvanceExtra(times, nextExtra, now)
  IN
  /\ phase = "extras"
  /\ next > nextExtra => nextExtra > 1 /\ times[nextExtra] < start
  /\ phase' = "backup"
  /\ nextExtra' = next
  /\ UNCHANGED <<plan, now, saved, nextSnap, times, lastExtra, appending, ready,
                 file, runVars>>

(* The first requested time is the left end of the first interval.          *)
FirstExtra ==
  LET next == AdvanceExtra(times, nextExtra, now)
  IN
  /\ phase = "extras"
  /\ nextExtra = 1 /\ next > 1
  /\ phase' = "backup"
  /\ nextExtra' = next
  /\ lastExtra' = now
  /\ UNCHANGED <<plan, now, saved, nextSnap, times, appending, ready, file, runVars>>

(* A record; the first of a run moves an existing file aside unless         *)
(* -extra_append is set.                                                    *)
WriteExtras ==
  LET next == AdvanceExtra(times, nextExtra, now)
  IN
  /\ phase = "extras"
  /\ nextExtra > 1 /\ next > nextExtra
  /\ times[nextExtra] >= start
  /\ phase' = "backup"
  /\ nextExtra' = next
  /\ lastExtra' = now
  /\ ready' = TRUE
  /\ file' = IF ready \/ appending THEN Append(file, Record(now))
                                   ELSE <<Record(now)>>
  /\ UNCHANGED <<plan, now, saved, nextSnap, times, appending, runVars>>

(* write_backup(), when the wall clock asks for one, then the tests of      *)
(* endOfTimeStepHook() (SIGTERM) and of the loop.                           *)
WriteBackup(due, signal) ==
  /\ phase = "backup"
  /\ saved' = IF due THEN now ELSE saved
  /\ phase' = IF signal \/ now >= end THEN "ending" ELSE "running"
  /\ UNCHANGED <<plan, now, nextSnap, extraVars, runVars>>

(* writeFiles() after the loop; the program ends.                           *)
WriteOutput ==
  /\ phase = "ending"
  /\ saved' = now
  /\ phase' = "idle"
  /\ UNCHANGED <<plan, now, nextSnap, extraVars, runVars>>

Kill ==
  /\ plan.crashes
  /\ phase \notin {"idle", "failed"}
  /\ phase' = "idle"
  /\ UNCHANGED <<plan, now, saved, nextSnap, extraVars, runVars>>

Clock == LET ends == plan.ends \cup {Start}
             last == CHOOSE e \in ends : \A f \in ends : f =< e
         IN  Start..last + Slack

Next ==
  \/ \E e \in plan.ends : StartRun(e)
  \/ RefuseToAppend
  \/ \E t \in Clock : Step(t)
  \/ WriteSnapshot
  \/ NoExtras
  \/ FirstExtra
  \/ WriteExtras
  \/ \E due, signal \in BOOLEAN : WriteBackup(due, signal)
  \/ WriteOutput
  \/ Kill

Spec == Init /\ [][Next]_vars

-----------------------------------------------------------------------------
TypeOK ==
  /\ plan \in Plans
  /\ phase \in {"idle", "running", "snapshot", "extras", "backup", "ending",
                "failed"}
  /\ {start, end, now, saved, lastExtra, runs} \subseteq Nat
  /\ times \in Seq(Nat)
  /\ nextExtra \in 1..Len(times) + 1
  /\ nextSnap \in 1..Len(SnapTimes) + 1
  /\ {appending, ready} \subseteq BOOLEAN
  /\ file \in Seq([lo : Nat, hi : Nat])

(* The work of the last step is written.                                    *)
Written == phase \in {"running", "ending"}

(* The first requested time is the left end of the first report and gets    *)
(* none, and neither do the times that are consumed together with it or     *)
(* with the start of the first run.  A step may pass a requested time by up *)
(* to Slack; two runs that pass the same one by different amounts may take  *)
(* a time in between for consumed, unless it is further away.               *)
Reportable(i) ==
  /\ i > 1
  /\ Start + Tol =< Requests[i]
  /\ Requests[1] + Slack + Tol =< Requests[i]
  /\ Slack =< 1 \/ Requests[i - 1] + Slack + Tol =< Requests[i]

(* Every reportable time a run has passed has a report less than a second   *)
(* away, whatever was killed and resumed in between: the tolerance of       *)
(* write_extras() and the jump of reporting_max_timestep() over short steps *)
(* agree with each other.                                                   *)
Recorded(i) == \E k \in 1..Len(file) : Distance(file[k].hi, Requests[i]) < Tol

RequestsRecorded ==
  Written =>
    \A i \in 1..Len(Requests) :
       Reportable(i) /\ Requests[i] =< now => Recorded(i)

(* That is so for lists of times the steps are forced to, in files that are *)
(* appended to, without snapshots (ranges are cut to the run, and a kill    *)
(* after a snapshot loses a report).                                        *)
ListedTimesRecorded ==
  plan.force /\ plan.appending /\ ~plan.ranged /\ SnapTimes = <<>> => RequestsRecorded

(* A report that the steps are forced to covers the time of one reporting   *)
(* interval only: no requested time is well inside its bounds.              *)
OneInterval ==
  plan.force => \A k \in 1..Len(file), i \in 1..Len(Requests) :
     ~(file[k].lo + Tol =< Requests[i] /\ Requests[i] + Tol =< file[k].hi)

(* The reports of a file are in order and no two cover the same time, over  *)
(* all the runs that append to it when none is killed.                      *)
IntervalsDisjoint ==
  ~plan.crashes =>
    \A k \in 1..Len(file) :
       /\ file[k].lo < file[k].hi
       /\ k > 1 => file[k - 1].hi =< file[k].lo

(* write_extras(): the reports a chain of runs leaves in a file are in      *)
(* order, do not overlap and cover one interval each, and the counters of   *)
(* requested times and snapshots stay within their lists.                   *)
ReportsConsistent == TypeOK /\ OneInterval /\ IntervalsDisjoint

(* A run that is killed loses no more than the work since the last snapshot *)
(* time it passed.                                                          *)
SnapshotsBoundLoss ==
  phase \notin {"idle", "failed", "snapshot"} =>
    \A i \in 1..Len(SnapTimes) :
       start < SnapTimes[i] /\ SnapTimes[i] =< now /\ SnapTimes[i] =< end =>
          saved >= SnapTimes[i]

(* What the comment in write_extras() promises of a restart: no report is   *)
(* written for a time that has one already.                                 *)
NoExtraRecord ==
  \A i, j \in 1..Len(file) : i < j => file[i].hi # file[j].hi

(* What the manual promises of -extra_append: no effect if the file does    *)
(* not exist yet.                                                           *)
AppendNeedsNoFile == phase # "failed"
=============================================================================
