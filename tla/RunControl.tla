------------------------------ MODULE RunControl ------------------------------
(***************************************************************************)
(* A run that is interrupted: by the signals TERM, USR1 and USR2, which     *)
(* every processor gets on its own and reads at the end of a time step, and *)
(* by a kill at any moment, after which the user starts the program again   *)
(* from a file that is complete.  A step, the writing of a file and the     *)
(* flush of the time series are collective: no processor completes one      *)
(* until all of them have come to it.                                       *)
(***************************************************************************)
EXTENDS Naturals, FiniteSets

CONSTANTS Ranks, Root,   \* the processors; Root is processor 0
          Length,        \* number of time steps of a complete run
          MaxSignals,    \* bound: number of signals sent
          MaxRuns        \* bound: number of runs

ASSUME RunAssumption ==
  /\ Root \in Ranks
  /\ Length \in Nat \ {0}
  /\ MaxSignals \in Nat
  /\ MaxRuns \in Nat \ {0}

Signals == {"TERM", "USR1", "USR2"}
Files == {"backup", "output"}

(* What a file may hold: nothing, because it does not exist; the beginning  *)
(* of a file that is being written; or the complete state at a time.        *)
Missing == [state |-> "missing", time |-> 0]
Partial == [state |-> "partial", time |-> 0]
Saved(t) == [state |-> "complete", time |-> t]
Contents == {Missing, Partial} \cup {Saved(t) : t \in 0..Length}

Places == {"step", "clock", "backup", "hook", "usr1", "dump", "usr2", "flush",
           "save", "ended", "dead"}

VARIABLES
  time,      \* the model time, the same on all processors
  pc,        \* where a processor is
  signal,    \* pism_signal, of each processor
  flying,    \* signals sent to a processor and not yet delivered
  writing,   \* progress of the file being written
  file,      \* each file, and the copy ~ it was moved to
  sent, runs,
  asked,     \* history: the last signal a processor got and when, until served
  uneven,    \* history: a signal reached some processors before they read
             \* pism_signal and others after
  lastBackup, cuts   \* history: time of the last complete backup, and how
                     \* many backups were cut short since

vars == <<time, pc, signal, flying, writing, file, sent, runs, asked, uneven,
          lastBackup, cuts>>
program == <<time, pc, writing>>
disk == <<file, lastBackup, cuts>>
mail == <<signal, flying, asked>>

None == [name |-> "none", at |-> 0]
Everywhere(x) == [r \in Ranks |-> x]

Init ==
  /\ time = 0
  /\ pc = Everywhere("step")
  /\ signal = Everywhere("none")
  /\ flying = Everywhere({})
  /\ writing = "idle"
  /\ file = [f \in Files |-> [main |-> Missing, aside |-> Missing]]
  /\ sent = 0
  /\ runs = 1
  /\ asked = Everywhere(None)
  /\ uneven = FALSE
  /\ lastBackup = 0
  /\ cuts = 0

-----------------------------------------------------------------------------
(* Signals.                                                                 *)
Alive == \E r \in Ranks : pc[r] \notin {"ended", "dead"}

(* The processors are at the same place of the program.                     *)
Abreast == \A r, s \in Ranks : pc[r] = pc[s]

(* Somebody sends a signal to all processors; one that was sent before and  *)
(* is not yet delivered is merged with it.                                  *)
Send(s) ==
  /\ Alive
  /\ sent < MaxSignals
  /\ sent' = sent + 1
  /\ flying' = [r \in Ranks |-> flying[r] \cup {s}]
  /\ uneven' = (uneven \/ \E r \in Ranks : flying[r] # {})
  /\ UNCHANGED <<program, disk, signal, asked, runs>>

(* pism_signal_handler() runs on one processor and forgets what was there.  *)
Handler(r, s) ==
  /\ pc[r] \notin {"ended", "dead"}
  /\ s \in flying[r]
  /\ flying' = [flying EXCEPT ![r] = @ \ {s}]
  /\ signal' = [signal EXCEPT ![r] = s]
  /\ asked' = [asked EXCEPT ![r] = [name |-> s, at |-> time]]
  /\ uneven' = (uneven \/ ~Abreast)
  /\ UNCHANGED <<program, disk, sent, runs>>

(* A processor reads pism_signal while another one has a signal to come.    *)
Reading == uneven' = (uneven \/ \E r \in Ranks : flying[r] # {})

Goto(r, place) == pc' = [pc EXCEPT ![r] = place]

(* run(): the test of the loop.                                             *)
NextStep == IF time < Length THEN "step" ELSE "save"

(* endOfTimeStepHook() reads pism_signal three times.  TERM ends the loop   *)
(* and stays in pism_signal.                                                *)
HookTERM(r) ==
  /\ pc[r] = "hook"
  /\ IF signal[r] = "TERM"
       THEN Goto(r, "save") /\ asked' = [asked EXCEPT ![r] = None]
       ELSE Goto(r, "usr1") /\ UNCHANGED asked
  /\ Reading
  /\ UNCHANGED <<time, writing, disk, signal, flying, sent, runs>>

(* A test for s at a place: if it is the signal then it is reset.           *)
Test(r, place, s, handle, next) ==
  /\ pc[r] = place
  /\ IF signal[r] = s
       THEN /\ signal' = [signal EXCEPT ![r] = "none"]
            /\ asked' = [asked EXCEPT ![r] = None]
            /\ Goto(r, handle)
       ELSE Goto(r, next) /\ UNCHANGED <<signal, asked>>
  /\ Reading
  /\ UNCHANGED <<time, writing, disk, flying, sent, runs>>

HookUSR1(r) == Test(r, "usr1", "USR1", "dump", "usr2")
HookUSR2(r) == Test(r, "usr2", "USR2", "flush", NextStep)

Hook(r) == HookTERM(r) \/ HookUSR1(r) \/ HookUSR2(r)

-----------------------------------------------------------------------------
(* Collective operations.                                                   *)
All(place) == \A r \in Ranks : pc[r] = place

Step ==
  /\ All("step")
  /\ time' = time + 1
  /\ pc' = Everywhere("clock")
  /\ UNCHANGED <<writing, disk, mail, sent, runs, uneven>>

OwnBackupDue(clock, r) == clock[r]   \* mutant: wall_clock_hours() without the Bcast

(* wall_clock_hours() is the time of processor 0, and so all agree about    *)
(* whether a backup is due.                                                 *)
BackupDue(clock, r) == clock[Root]

WriteBackup ==
  /\ All("clock")
  /\ \E clock \in [Ranks -> BOOLEAN] :
       pc' = [r \in Ranks |-> IF BackupDue(clock, r) THEN "backup" ELSE "hook"]
  /\ UNCHANGED <<time, writing, disk, mail, sent, runs, uneven>>

ResetAfterDump ==                    \* mutant: pism_signal = 0 after dumpToFile()
  /\ All("dump")
  /\ pc' = Everywhere("usr2")
  /\ signal' = Everywhere("none")
  /\ UNCHANGED <<time, writing, disk, flying, asked, sent, runs, uneven>>

(* The intermediate file of USR1, which is not one of the files below, and  *)
(* the flush of the time series.                                            *)
Dump ==
  /\ All("dump")
  /\ pc' = Everywhere("usr2")
  /\ UNCHANGED <<time, writing, disk, mail, sent, runs, uneven>>

Flush ==
  /\ All("flush")
  /\ pc' = Everywhere(NextStep)
  /\ UNCHANGED <<time, writing, disk, mail, sent, runs, uneven>>

(* The file that is written at a place of the program.                      *)
Target == [backup |-> "backup", save |-> "output"]

MoveDropped(f) == UNCHANGED file     \* mutant: the file is not moved aside

(* PISM_READWRITE_MOVE: if there is a file it replaces the older copy.      *)
MoveIfExists(f) ==
  file' = IF file[f].main = Missing THEN file
          ELSE [file EXCEPT ![f] = [main |-> Missing, aside |-> @.main]]

Move(place) ==
  /\ All(place) /\ writing = "idle"
  /\ MoveIfExists(Target[place])
  /\ writing' = "moved"
  /\ UNCHANGED <<time, pc, lastBackup, cuts, mail, sent, runs, uneven>>

Create(place) ==
  /\ All(place) /\ writing = "moved"
  /\ file' = [file EXCEPT ![Target[place]].main = Partial]
  /\ writing' = "created"
  /\ UNCHANGED <<time, pc, lastBackup, cuts, mail, sent, runs, uneven>>

(* All variables are in the file and it is closed.                          *)
Complete(place) ==
  /\ All(place) /\ writing = "created"
  /\ file' = [file EXCEPT ![Target[place]].main = Saved(time)]
  /\ writing' = "idle"
  /\ UNCHANGED <<time, mail, sent, runs, uneven>>

CloseBackup ==
  /\ Complete("backup")
  /\ pc' = Everywhere("hook")
  /\ lastBackup' = time
  /\ cuts' = 0

NoOutput ==                          \* mutant: the exit does not write the file
  /\ All("save") /\ writing = "idle"
  /\ pc' = Everywhere("ended")
  /\ UNCHANGED <<time, writing, disk, mail, sent, runs, uneven>>

(* pismr.cc: after run() comes writeFiles(), and the program ends.          *)
CloseOutput ==
  /\ Complete("save")
  /\ pc' = Everywhere("ended")
  /\ UNCHANGED <<lastBackup, cuts>>

Writing == \E place \in DOMAIN Target : Move(place) \/ Create(place)

-----------------------------------------------------------------------------
(* All processors are killed and what they had in memory is gone.           *)
Kill ==
  /\ Alive
  /\ pc' = Everywhere("dead")
  /\ time' = 0
  /\ signal' = Everywhere("none")
  /\ flying' = Everywhere({})
  /\ asked' = Everywhere(None)
  /\ uneven' = FALSE
  /\ writing' = "idle"
  /\ cuts' = IF writing # "idle" /\ All("backup") THEN cuts + 1 ELSE cuts
  /\ UNCHANGED <<file, lastBackup, sent, runs>>

Copies == {file[f].main : f \in Files} \cup {file[f].aside : f \in Files}

(* The same command again, which continues from a complete file, or from    *)
(* the beginning if the user prefers that or has nothing else.              *)
Restart ==
  /\ All("dead")
  /\ runs < MaxRuns
  /\ runs' = runs + 1
  /\ \E c \in {k \in Copies : k.state = "complete"} \cup {Saved(0)} :
       /\ time' = c.time
       /\ pc' = Everywhere(IF c.time < Length THEN "step" ELSE "save")
  /\ UNCHANGED <<writing, disk, mail, sent, uneven>>

Progress ==
  \/ \E r \in Ranks : Hook(r)
  \/ Step \/ WriteBackup \/ Dump \/ Flush \/ Writing \/ CloseBackup \/ CloseOutput

Next ==
  \/ Progress
  \/ \E s \in Signals : Send(s)
  \/ \E r \in Ranks, s \in Signals : Handler(r, s)
  \/ Kill \/ Restart

Spec == Init /\ [][Next]_vars /\ WF_vars(Progress)

-----------------------------------------------------------------------------
(* Every variable has its type.                                             *)
TypeOK ==
  /\ time \in 0..Length
  /\ pc \in [Ranks -> Places]
  /\ signal \in [Ranks -> Signals \cup {"none"}]
  /\ flying \in [Ranks -> SUBSET Signals]
  /\ writing \in {"idle", "moved", "created"}
  /\ file \in [Files -> [main : Contents, aside : Contents]]
  /\ sent \in 0..MaxSignals
  /\ runs \in 1..MaxRuns
  /\ asked \in [Ranks -> [name : Signals \cup {"none"}, at : 0..Length]]
  /\ uneven \in BOOLEAN
  /\ lastBackup \in 0..Length
  /\ cuts \in Nat

(* endOfTimeStepHook(): a signal a processor got is served at the end of    *)
(* the next step at the latest, unless another one replaced it; a TERM that *)
(* arrives while the file of USR1 is written is not lost with the reset.    *)
Served == \A r \in Ranks : asked[r].name # "none" => time <= asked[r].at + 1

(* What a processor waits for without the others: collective operations.    *)
Waits(r) == pc[r] \in {"step", "clock", "backup", "dump", "flush", "save"}

(* Although pism_signal is read on each processor and nothing is            *)
(* communicated, the processors take the same way through a step, as long   *)
(* as every signal reaches all of them between two readings, one signal at  *)
(* a time.                                                                  *)
Together ==
  ~uneven => \A r, s \in Ranks : Waits(r) /\ Waits(s) => pc[r] = pc[s]

(* write_backup(): the last complete backup survives in the file or in its  *)
(* copy ~ while the next one is written, and a kill in the middle of that   *)
(* leaves it to the restarted run; but that run moves what is left of the   *)
(* file over the copy, so that a second kill in a backup may lose it.       *)
BackupSurvives ==
  lastBackup > 0 /\ (cuts = 0 \/ (cuts = 1 /\ All("dead"))) =>
    Saved(lastBackup) \in {file["backup"].main, file["backup"].aside}

(* A run that is neither killed nor sent signals unevenly ends, at its end  *)
(* or after TERM, and saves the state it reached under the name of -o.      *)
Ends ==
  <>[](~uneven /\ ~All("dead")) =>
    <>(All("ended") /\ file["output"].main = Saved(time))
=============================================================================
