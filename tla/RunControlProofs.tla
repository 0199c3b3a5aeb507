-------------------------- MODULE RunControlProofs --------------------------
(***************************************************************************)
(* For every number of processors, steps, signals and runs: signals are     *)
(* served in time, the processors stay together although they read their    *)
(* own pism_signal, and a complete backup survives.  At the end, for every  *)
(* number of processors and every sequence of sections: a failure is heard  *)
(* by everybody, and nobody is left behind.                                 *)
(***************************************************************************)
EXTENDS RunControl, ParallelSection, TLAPS

(* A step begins before the end.                                            *)
InLoop == \A r \in Ranks : pc[r] = "step" => time < Length

(* A signal that is not yet served is in pism_signal, and if it came in an  *)
(* earlier step then the processor is on its way to the test for it.        *)
Prompt ==
  \A r \in Ranks : asked[r].name # "none" =>
    /\ signal[r] = asked[r].name
    /\ pc[r] # "dead"
    /\ asked[r].at <= time /\ time <= asked[r].at + 1
    /\ \/ asked[r].at = time
       \/ pc[r] \in {"clock", "backup", "hook"}
       \/ pc[r] = "usr1" /\ asked[r].name # "TERM"
       \/ pc[r] = "usr2" /\ asked[r].name = "USR2"

(* A file is written by all processors.                                     *)
WritersMeet == writing # "idle" => All("backup") \/ All("save")

InBackup == writing # "idle" /\ All("backup")

(* Where the last complete backup is.                                       *)
BackupInPlace ==
  lastBackup > 0 =>
    /\ cuts = 0 /\ ~InBackup => file["backup"].main = Saved(lastBackup)
    /\ cuts = 0 /\ InBackup => file["backup"].aside = Saved(lastBackup)
    /\ cuts = 1 /\ ~InBackup =>
         Saved(lastBackup) \in {file["backup"].main, file["backup"].aside}

-----------------------------------------------------------------------------
(* What endOfTimeStepHook() makes of a place p and a signal x when a step   *)
(* ends at n: the place and signal q, y lie ahead.                          *)
AheadOfUSR2(n, x, q, y) ==
  IF x = "USR2" THEN q = "flush" /\ y = "none" ELSE q = n /\ y = x

AheadOfUSR1(n, x, q, y) ==
  IF x = "USR1" THEN q = "dump" /\ y = "none"
  ELSE (q = "usr2" /\ y = x) \/ AheadOfUSR2(n, x, q, y)

AheadOfTERM(n, x, q, y) ==
  IF x = "TERM" THEN q = "save" /\ y = x
  ELSE (q = "usr1" /\ y = x) \/ AheadOfUSR1(n, x, q, y)

Ahead(n, p, x, q, y) ==
  \/ p = q /\ x = y
  \/ p = "hook" /\ AheadOfTERM(n, x, q, y)
  \/ p = "usr1" /\ AheadOfUSR1(n, x, q, y)
  \/ p = "usr2" /\ AheadOfUSR2(n, x, q, y)

(* One of two processors will come, or has come, where the other one is.    *)
Follows(r, s) ==
  \/ Ahead(NextStep, pc[r], signal[r], pc[s], signal[s])
  \/ Ahead(NextStep, pc[s], signal[s], pc[r], signal[r])

(* While signals reach the processors evenly: two processors that wait for  *)
(* the same signals follow each other; when one of them has got its signal  *)
(* and the other one has not, then they are at the same place.              *)
Even ==
  ~uneven => \A r, s \in Ranks :
    /\ flying[r] = {} \/ \E x \in Signals : flying[r] = {x}
    /\ flying[r] = {} /\ flying[s] = {} => Follows(r, s)
    /\ flying[r] # {} /\ flying[s] # {} => flying[r] = flying[s] /\ Follows(r, s)
    /\ flying[r] = {} /\ flying[s] # {} => pc[r] = pc[s] /\ flying[s] = {signal[r]}

IInv == TypeOK /\ InLoop /\ Prompt /\ WritersMeet /\ BackupInPlace /\ Even

-----------------------------------------------------------------------------
LEMMA InitIInv == Init => IInv
<1> SUFFICES ASSUME Init PROVE IInv
  OBVIOUS
<1> USE RunAssumption DEF Init
<1>1. TypeOK
  <2>1. Missing \in Contents /\ file \in [Files -> [main : Contents, aside : Contents]]
    BY DEF Contents
  <2>2. asked \in [Ranks -> [name : Signals \cup {"none"}, at : 0..Length]]
    BY DEF Everywhere, None
  <2>3. signal \in [Ranks -> Signals \cup {"none"}] /\ flying \in [Ranks -> SUBSET Signals]
    BY DEF Everywhere
  <2>4. pc \in [Ranks -> Places]
    BY DEF Everywhere, Places
  <2>5. time \in 0..Length /\ runs \in 1..MaxRuns /\ sent \in 0..MaxSignals
    OBVIOUS
  <2> QED
    BY <2>1, <2>2, <2>3, <2>4, <2>5 DEF TypeOK
<1>2. InLoop
  BY DEF InLoop, Everywhere
<1>3. Prompt
  BY DEF Prompt, Everywhere, None
<1>4. WritersMeet
  BY DEF WritersMeet
<1>5. BackupInPlace
  BY DEF BackupInPlace
<1>6. Even
  BY DEF Even, Follows, Ahead, Everywhere
<1> QED
  BY <1>1, <1>2, <1>3, <1>4, <1>5, <1>6 DEF IInv

-----------------------------------------------------------------------------
(* Types.                                                                   *)
LEMMA NextStepPlace == NextStep \in {"step", "save"} /\ (NextStep = "step" => time < Length)
BY DEF NextStep

LEMMA TypeKept ==
  ASSUME IInv, Next
  PROVE  TypeOK'
<1> USE RunAssumption DEF IInv
<1>1. ASSUME NEW s \in Signals, Send(s) PROVE TypeOK'
  BY <1>1 DEF Send, TypeOK, program, disk, Signals
<1>2. ASSUME NEW r \in Ranks, NEW s \in Signals, Handler(r, s) PROVE TypeOK'
  BY <1>2 DEF Handler, TypeOK, program, disk
<1>3. ASSUME NEW r \in Ranks, Hook(r) PROVE TypeOK'
  <2>1. NextStep \in Places
    BY NextStepPlace DEF Places
  <2>0. None \in [name : Signals \cup {"none"}, at : 0..Length]
    BY DEF None
  <2>2. CASE HookTERM(r)
    <3>1. pc' \in [Ranks -> Places] /\ uneven' \in BOOLEAN
      BY <2>2 DEF HookTERM, Goto, Reading, TypeOK, Places
    <3>2. asked' \in [Ranks -> [name : Signals \cup {"none"}, at : 0..Length]]
      BY <2>0, <2>2 DEF HookTERM, TypeOK
    <3> QED
      BY <2>2, <3>1, <3>2 DEF HookTERM, disk, TypeOK
  <2>3. ASSUME NEW place, NEW s, NEW handle \in Places, NEW next \in Places,
               Test(r, place, s, handle, next)
        PROVE  TypeOK'
    <3>1. pc' \in [Ranks -> Places] /\ uneven' \in BOOLEAN
      BY <2>3 DEF Test, Goto, Reading, TypeOK
    <3>2. asked' \in [Ranks -> [name : Signals \cup {"none"}, at : 0..Length]]
      BY <2>0, <2>3 DEF Test, TypeOK
    <3>3. signal' \in [Ranks -> Signals \cup {"none"}]
      BY <2>3 DEF Test, TypeOK
    <3> QED
      BY <2>3, <3>1, <3>2, <3>3 DEF Test, disk, TypeOK
  <2>4. {"dump", "usr2", "flush"} \subseteq Places
    BY DEF Places
  <2> QED
    BY <1>3, <2>1, <2>2, <2>3, <2>4 DEF Hook, HookUSR1, HookUSR2
<1>4. CASE Step
  <2>1. time + 1 \in 0..Length
    BY <1>4 DEF Step, All, InLoop, TypeOK
  <2> QED
    BY <1>4, <2>1 DEF Step, Everywhere, disk, mail, TypeOK, Places
<1>5. CASE WriteBackup
  BY <1>5 DEF WriteBackup, disk, mail, TypeOK, Places
<1>6. CASE Dump
  BY <1>6 DEF Dump, Everywhere, disk, mail, TypeOK, Places
<1>7. CASE Flush
  BY <1>7, NextStepPlace DEF Flush, Everywhere, disk, mail, TypeOK, Places
<1>8. CASE Writing
  <2> USE DEF mail, TypeOK, Files, Contents
  <2>0. \A place \in DOMAIN Target : Target[place] \in Files
    BY DEF Target
  <2>1. ASSUME NEW place \in DOMAIN Target, Move(place) PROVE TypeOK'
    <3>1. file' \in [Files -> [main : Contents, aside : Contents]]
      BY <2>0, <2>1 DEF Move, MoveIfExists
    <3> QED
      BY <2>1, <3>1 DEF Move
  <2>2. ASSUME NEW place \in DOMAIN Target, Create(place) PROVE TypeOK'
    <3>1. file' \in [Files -> [main : Contents, aside : Contents]]
      BY <2>0, <2>2 DEF Create
    <3> QED
      BY <2>2, <3>1 DEF Create
  <2> QED
    BY <1>8, <2>1, <2>2 DEF Writing
<1>9. ASSUME NEW place \in DOMAIN Target, Complete(place)
      PROVE  file' \in [Files -> [main : Contents, aside : Contents]]
  BY <1>9 DEF Complete, Target, Files, Contents, TypeOK
<1>10. CASE CloseBackup
  BY <1>9, <1>10 DEF CloseBackup, Complete, Target, Everywhere, mail, TypeOK, Places
<1>11. CASE CloseOutput
  BY <1>9, <1>11 DEF CloseOutput, Complete, Target, Everywhere, mail, TypeOK, Places
<1>12. CASE Kill
  <2>1. asked' \in [Ranks -> [name : Signals \cup {"none"}, at : 0..Length]]
    BY <1>12 DEF Kill, Everywhere, None
  <2>2. /\ signal' \in [Ranks -> Signals \cup {"none"}]
        /\ flying' \in [Ranks -> SUBSET Signals]
    BY <1>12 DEF Kill, Everywhere
  <2>3. pc' \in [Ranks -> Places] /\ time' \in 0..Length
    BY <1>12 DEF Kill, Everywhere, Places
  <2>4. cuts' \in Nat
    BY <1>12 DEF Kill, TypeOK
  <2> QED
    BY <1>12, <2>1, <2>2, <2>3, <2>4 DEF Kill, TypeOK
<1>13. CASE Restart
  <2>1. PICK c \in Copies \cup {Saved(0)} :
          /\ c.state = "complete" \/ c = Saved(0)
          /\ time' = c.time
          /\ pc' = Everywhere(IF c.time < Length THEN "step" ELSE "save")
    BY <1>13 DEF Restart
  <2>2. c.time \in 0..Length
    BY <2>1 DEF Copies, Contents, Saved, Missing, Partial, Files, TypeOK
  <2> QED
    BY <1>13, <2>1, <2>2 DEF Restart, Everywhere, disk, mail, TypeOK, Places
<1> QED
  BY <1>1, <1>2, <1>3, <1>4, <1>5, <1>6, <1>7, <1>8, <1>10, <1>11, <1>12, <1>13
     DEF Next, Progress

-----------------------------------------------------------------------------
(* Time steps.                                                              *)
LEMMA InLoopKept ==
  ASSUME IInv, Next
  PROVE  InLoop'
<1> USE RunAssumption DEF IInv
<1>1. ASSUME UNCHANGED <<time, pc>> PROVE InLoop'
  BY <1>1 DEF InLoop
<1>2. ASSUME NEW r \in Ranks, Hook(r) PROVE InLoop'
  <2> SUFFICES ASSUME NEW s \in Ranks, pc'[s] = "step" PROVE time' < Length
    BY DEF InLoop
  <2>1. CASE s = r
    BY <1>2, <2>1, NextStepPlace
       DEF Hook, HookTERM, HookUSR1, HookUSR2, Test, Goto, TypeOK
  <2>2. CASE s # r
    BY <1>2, <2>2 DEF Hook, HookTERM, HookUSR1, HookUSR2, Test, Goto, TypeOK, InLoop
  <2> QED
    BY <2>1, <2>2
<1>3. CASE Step \/ WriteBackup \/ Dump \/ CloseBackup \/ CloseOutput \/ Kill
  BY <1>3 DEF Step, WriteBackup, Dump, CloseBackup, CloseOutput, Kill, Everywhere, InLoop
<1>4. CASE Flush
  BY <1>4, NextStepPlace DEF Flush, Everywhere, InLoop
<1>5. CASE Restart
  BY <1>5 DEF Restart, Everywhere, InLoop
<1>6. ASSUME (\E s \in Signals : Send(s)) \/ (\E r \in Ranks, s \in Signals : Handler(r, s))
             \/ Writing
      PROVE  UNCHANGED <<time, pc>>
  BY <1>6 DEF Send, Handler, Writing, Move, Create, program
<1> QED
  BY <1>1, <1>2, <1>3, <1>4, <1>5, <1>6 DEF Next, Progress

-----------------------------------------------------------------------------
(* Signals are served in time.                                              *)
LEMMA PromptKept ==
  ASSUME IInv, Next
  PROVE  Prompt'
<1> USE RunAssumption DEF IInv
<1>1. ASSUME UNCHANGED <<time, pc, signal, asked>> PROVE Prompt'
  BY <1>1 DEF Prompt
<1>2. ASSUME NEW r \in Ranks, NEW x \in Signals, Handler(r, x) PROVE Prompt'
  <2> SUFFICES ASSUME NEW s \in Ranks PROVE Prompt!(s)'
    BY DEF Prompt
  <2>1. CASE s = r
    BY <1>2, <2>1 DEF Handler, program, TypeOK
  <2>2. CASE s # r
    BY <1>2, <2>2 DEF Handler, program, TypeOK, Prompt
  <2> QED
    BY <2>1, <2>2
<1>3. ASSUME NEW r \in Ranks, Hook(r) PROVE Prompt'
  <2> SUFFICES ASSUME NEW s \in Ranks PROVE Prompt!(s)'
    BY DEF Prompt
  <2>1. CASE s # r
    BY <1>3, <2>1 DEF Hook, HookTERM, HookUSR1, HookUSR2, Test, Goto, TypeOK, Prompt
  <2> SUFFICES ASSUME s = r PROVE Prompt!(s)'
    BY <2>1
  <2>2. CASE HookTERM(r)
    BY <2>2 DEF HookTERM, Goto, None, TypeOK, Prompt
  <2>3. CASE HookUSR1(r)
    BY <2>3 DEF HookUSR1, Test, Goto, None, Signals, TypeOK, Prompt
  <2>4. CASE HookUSR2(r)
    BY <2>4, NextStepPlace DEF HookUSR2, Test, Goto, None, Signals, TypeOK, Prompt
  <2> QED
    BY <1>3, <2>2, <2>3, <2>4 DEF Hook
<1>4. CASE Step
  <2>1. \A s \in Ranks : asked[s].name # "none" => asked[s].at = time
    BY <1>4 DEF Step, All, Prompt
  <2> QED
    BY <1>4, <2>1 DEF Step, mail, Everywhere, Prompt, TypeOK
<1>5. CASE WriteBackup
  BY <1>5 DEF WriteBackup, mail, Prompt
<1>6. CASE Dump \/ CloseBackup \/ CloseOutput
  BY <1>6 DEF Dump, CloseBackup, CloseOutput, Complete, All, mail, Everywhere, Prompt
<1>7. CASE Flush
  BY <1>7, NextStepPlace DEF Flush, All, mail, Everywhere, Prompt
<1>8. CASE Kill
  BY <1>8 DEF Kill, Everywhere, None, Prompt
<1>9. CASE Restart
  BY <1>9 DEF Restart, All, mail, Prompt
<1>10. ASSUME (\E s \in Signals : Send(s)) \/ Writing
       PROVE  UNCHANGED <<time, pc, signal, asked>>
  BY <1>10 DEF Send, Writing, Move, Create, program, mail
<1> QED
  BY <1>1, <1>2, <1>3, <1>4, <1>5, <1>6, <1>7, <1>8, <1>9, <1>10 DEF Next, Progress

-----------------------------------------------------------------------------
(* Files.                                                                   *)
LEMMA NotWriting ==
  ASSUME IInv, NEW r \in Ranks, pc[r] \notin {"backup", "save"}
  PROVE  writing = "idle"
BY DEF IInv, WritersMeet, All

(* What happens elsewhere than at the places where files are written.       *)
LEMMA ElsewhereIdle ==
  ASSUME IInv,
         \/ \E r \in Ranks : Hook(r)
         \/ Step \/ WriteBackup \/ Dump \/ Flush \/ Restart
  PROVE  writing = "idle" /\ UNCHANGED <<writing, disk>>
<1>1. \E r \in Ranks : pc[r] \notin {"backup", "save"}
  BY RunAssumption DEF Hook, HookTERM, HookUSR1, HookUSR2, Test, Step, WriteBackup,
     Dump, Flush, Restart, All
<1>2. UNCHANGED <<writing, disk>>
  BY DEF Hook, HookTERM, HookUSR1, HookUSR2, Test, Step, WriteBackup, Dump, Flush,
     Restart
<1> QED
  BY <1>1, <1>2, NotWriting

LEMMA WritersMeetKept ==
  ASSUME IInv, Next
  PROVE  WritersMeet'
<1> USE RunAssumption DEF IInv
<1>1. CASE \E s \in Signals : Send(s)
  BY <1>1 DEF Send, program, WritersMeet, All
<1>2. CASE \E r \in Ranks, s \in Signals : Handler(r, s)
  BY <1>2 DEF Handler, program, WritersMeet, All
<1>3. CASE Writing
  BY <1>3 DEF Writing, Move, Create, Target, WritersMeet, All
<1>4. CASE CloseBackup \/ CloseOutput \/ Kill
  BY <1>4 DEF CloseBackup, CloseOutput, Complete, Kill, WritersMeet
<1>5. CASE (\E r \in Ranks : Hook(r)) \/ Step \/ WriteBackup \/ Dump \/ Flush \/ Restart
  BY <1>5, ElsewhereIdle DEF WritersMeet
<1> QED
  BY <1>1, <1>2, <1>3, <1>4, <1>5 DEF Next, Progress

LEMMA BackupInPlaceKept ==
  ASSUME IInv, Next
  PROVE  BackupInPlace'
<1> USE RunAssumption DEF IInv
<1>1. CASE \E s \in Signals : Send(s)
  BY <1>1 DEF Send, program, disk, BackupInPlace, InBackup, All
<1>2. CASE \E r \in Ranks, s \in Signals : Handler(r, s)
  BY <1>2 DEF Handler, program, disk, BackupInPlace, InBackup, All
<1>3. CASE (\E r \in Ranks : Hook(r)) \/ Step \/ WriteBackup \/ Dump \/ Flush \/ Restart
  BY <1>3, ElsewhereIdle DEF disk, BackupInPlace, InBackup
<1>4. CASE Move("backup")
  <2>1. Missing # Saved(lastBackup)
    BY DEF Missing, Saved
  <2>2. ~InBackup /\ InBackup'
    BY <1>4 DEF Move, InBackup, All
  <2>3. cuts = 0 /\ lastBackup > 0 => file'["backup"].aside = Saved(lastBackup)
    BY <1>4, <2>1, <2>2
       DEF Move, MoveIfExists, Target, Files, BackupInPlace, TypeOK
  <2> QED
    BY <1>4, <2>2, <2>3 DEF Move, BackupInPlace
<1>5. CASE Create("backup")
  <2>1. InBackup /\ InBackup'
    BY <1>5 DEF Create, InBackup, All
  <2>2. file'["backup"].aside = file["backup"].aside
    BY <1>5 DEF Create, Target, Files, TypeOK
  <2> QED
    BY <1>5, <2>1, <2>2 DEF Create, BackupInPlace
<1>6. CASE Move("save") \/ Create("save") \/ CloseOutput
  <2>1. ~InBackup /\ ~InBackup'
    BY <1>6 DEF Move, Create, CloseOutput, Complete, InBackup, All
  <2>2. file'["backup"] = file["backup"]
    BY <1>6 DEF Move, MoveIfExists, Create, CloseOutput, Complete, Target, Files, TypeOK
  <2>3. UNCHANGED <<lastBackup, cuts>>
    BY <1>6 DEF Move, Create, CloseOutput
  <2> QED
    BY <2>1, <2>2, <2>3 DEF BackupInPlace
<1>7. CASE CloseBackup
  <2>1. file'["backup"].main = Saved(time)
    BY <1>7 DEF CloseBackup, Complete, Target, Files, TypeOK
  <2> QED
    BY <1>7, <2>1 DEF CloseBackup, Complete, BackupInPlace, InBackup
<1>8. CASE Kill
  <2>1. ~InBackup'
    BY <1>8 DEF Kill, InBackup
  <2>2. cuts' = (IF InBackup THEN cuts + 1 ELSE cuts)
    BY <1>8 DEF Kill, InBackup
  <2>3. UNCHANGED <<file, lastBackup>>
    BY <1>8 DEF Kill
  <2> QED
    BY <2>1, <2>2, <2>3 DEF BackupInPlace, TypeOK
<1> QED
  BY <1>1, <1>2, <1>3, <1>4, <1>5, <1>6, <1>7, <1>8 DEF Next, Progress, Writing, Target

-----------------------------------------------------------------------------
(* The processors stay together.  First about places and signals alone:     *)
(* what a test makes of a place and a signal, and that a processor that     *)
(* passes a test still leads or follows the other one.                      *)
Passes(n, p, x, p2, x2) ==
  \/ p = "hook" /\ IF x = "TERM" THEN p2 = "save" /\ x2 = x ELSE p2 = "usr1" /\ x2 = x
  \/ p = "usr1" /\ IF x = "USR1" THEN p2 = "dump" /\ x2 = "none" ELSE p2 = "usr2" /\ x2 = x
  \/ p = "usr2" /\ IF x = "USR2" THEN p2 = "flush" /\ x2 = "none" ELSE p2 = n /\ x2 = x

LEMMA PassingFollows ==
  ASSUME NEW n \in {"step", "save"}, NEW p, NEW x, NEW p2, NEW x2, NEW q, NEW y,
         Passes(n, p, x, p2, x2),
         Ahead(n, p, x, q, y) \/ Ahead(n, q, y, p, x)
  PROVE  Ahead(n, p2, x2, q, y) \/ Ahead(n, q, y, p2, x2)
<1> USE DEF Ahead, AheadOfTERM, AheadOfUSR1, AheadOfUSR2, Passes
<1>1. CASE p = "hook"
  BY <1>1
<1>2. CASE p = "usr1"
  BY <1>2
<1>3. CASE p = "usr2"
  BY <1>3
<1> QED
  BY <1>1, <1>2, <1>3

LEMMA SameFollows ==
  ASSUME NEW n, NEW p, NEW x
  PROVE  Ahead(n, p, x, p, x)
BY DEF Ahead

(* Processors that wait at the same place and follow each other have the    *)
(* same signal.                                                             *)
LEMMA WaitingAgree ==
  ASSUME NEW n, NEW p, p \notin {"hook", "usr1", "usr2"}, NEW x, NEW y,
         Ahead(n, p, x, p, y) \/ Ahead(n, p, y, p, x)
  PROVE  x = y
BY DEF Ahead

(* An action that all do together.                                          *)
LEMMA EvenTogether ==
  ASSUME IInv, NEW from, from \notin {"hook", "usr1", "usr2"}, All(from),
         NEW to, pc' = Everywhere(to), UNCHANGED <<signal, flying, uneven>>
  PROVE  Even'
<1> SUFFICES ASSUME ~uneven, NEW r \in Ranks, NEW s \in Ranks
             PROVE  Even!2!(r, s)'
  BY DEF Even
<1>1. Even!2!(r, s)
  BY DEF IInv, Even
<1>2. pc[r] = from /\ pc[s] = from /\ pc'[r] = to /\ pc'[s] = to
  BY DEF All, Everywhere
<1>3. ASSUME Follows(r, s) PROVE Follows(r, s)'
  <2>1. signal[r] = signal[s]
    BY <1>2, <1>3, WaitingAgree DEF Follows
  <2> QED
    BY <1>2, <2>1, SameFollows DEF Follows
<1> QED
  BY <1>1, <1>2, <1>3

LEMMA EvenHandler ==
  ASSUME IInv, NEW q \in Ranks, NEW x \in Signals, Handler(q, x)
  PROVE  Even'
<1> SUFFICES ASSUME ~uneven', NEW r \in Ranks, NEW s \in Ranks
             PROVE  Even!2!(r, s)'
  BY DEF Even
<1>0. ~uneven /\ Abreast
  BY DEF Handler
<1>1. \A t \in Ranks : flying[t] = {} \/ \E y \in Signals : flying[t] = {y}
  BY <1>0 DEF IInv, Even
<1>2. flying[q] = {x}
  BY <1>1 DEF Handler
<1>3. ASSUME NEW t \in Ranks
      PROVE  IF t = q \/ flying[t] = {}
               THEN flying'[t] = {} /\ signal'[t] = x
               ELSE flying'[t] = {x} /\ signal'[t] = signal[t]
  <2>1. CASE t = q
    BY <1>2, <2>1 DEF Handler, IInv, TypeOK
  <2>2. CASE t # q
    <3>1. flying'[t] = flying[t] /\ signal'[t] = signal[t]
      BY <2>2 DEF Handler, IInv, TypeOK
    <3>2. flying[t] # {} => flying[t] = {x}
      BY <1>0, <1>2 DEF IInv, Even
    <3>3. flying[t] = {} => signal[t] = x
      BY <1>0, <1>2 DEF IInv, Even
    <3> QED
      BY <2>2, <3>1, <3>2, <3>3
  <2> QED
    BY <2>1, <2>2
<1>4. UNCHANGED pc /\ pc[r] = pc[s] /\ NextStep' = NextStep
  BY <1>0 DEF Handler, program, Abreast, NextStep
<1>5. flying'[r] = {} /\ flying'[s] = {} => Follows(r, s)'
  BY <1>3, <1>4, SameFollows DEF Follows
<1>6. flying'[r] # {} /\ flying'[s] # {} => flying'[r] = flying'[s] /\ Follows(r, s)'
  <2> HAVE flying'[r] # {} /\ flying'[s] # {}
  <2>1. flying'[r] = {x} /\ flying'[s] = {x}
    BY <1>3
  <2>2. r # q /\ s # q /\ flying[r] # {} /\ flying[s] # {}
    BY <1>3
  <2>3. Follows(r, s)
    BY <1>0, <2>2 DEF IInv, Even
  <2>4. signal'[r] = signal[r] /\ signal'[s] = signal[s]
    BY <1>3, <2>2
  <2> QED
    BY <1>4, <2>1, <2>3, <2>4 DEF Follows
<1>7. flying'[r] = {} /\ flying'[s] # {} => pc'[r] = pc'[s] /\ flying'[s] = {signal'[r]}
  BY <1>3, <1>4
<1>8. flying'[r] = {} \/ \E y \in Signals : flying'[r] = {y}
  BY <1>3
<1> QED
  BY <1>5, <1>6, <1>7, <1>8

LEMMA EvenHook ==
  ASSUME IInv, NEW q \in Ranks, Hook(q)
  PROVE  Even'
<1> SUFFICES ASSUME ~uneven', NEW r \in Ranks, NEW s \in Ranks
             PROVE  Even!2!(r, s)'
  BY DEF Even
<1>1. /\ ~uneven
      /\ \A t \in Ranks : flying[t] = {}
      /\ UNCHANGED <<time, flying>>
  BY DEF Hook, HookTERM, HookUSR1, HookUSR2, Test, Reading
<1>2. Follows(r, s) /\ NextStep' = NextStep
  BY <1>1 DEF IInv, Even, NextStep
<1>3. ASSUME NEW t \in Ranks, t # q PROVE pc'[t] = pc[t] /\ signal'[t] = signal[t]
  BY <1>3 DEF Hook, HookTERM, HookUSR1, HookUSR2, Test, Goto, IInv, TypeOK
<1>4. Passes(NextStep, pc[q], signal[q], pc'[q], signal'[q])
  <2> USE DEF IInv, TypeOK, Goto, Passes
  <2>1. CASE HookTERM(q)
    BY <2>1 DEF HookTERM
  <2>2. CASE HookUSR1(q)
    BY <2>2 DEF HookUSR1, Test
  <2>3. CASE HookUSR2(q)
    BY <2>3 DEF HookUSR2, Test
  <2> QED
    BY <2>1, <2>2, <2>3 DEF Hook
<1>5. Follows(r, s)'
  <2>1. CASE r = s
    BY <1>2, <2>1, SameFollows DEF Follows
  <2>2. CASE r # q /\ s # q
    BY <1>2, <1>3, <2>2 DEF Follows
  <2>3. CASE r = q /\ s # q
    BY <1>2, <1>3, <1>4, <2>3, PassingFollows, NextStepPlace DEF Follows
  <2>4. CASE s = q /\ r # q
    BY <1>2, <1>3, <1>4, <2>4, PassingFollows, NextStepPlace DEF Follows
  <2> QED
    BY <2>1, <2>2, <2>3, <2>4
<1> QED
  BY <1>1, <1>5

LEMMA EvenKept ==
  ASSUME IInv, Next
  PROVE  Even'
<1> USE RunAssumption
<1>1. ASSUME NEW x \in Signals, Send(x) PROVE Even'
  <2> SUFFICES ASSUME ~uneven', NEW r \in Ranks, NEW s \in Ranks
               PROVE  Even!2!(r, s)'
    BY DEF Even
  <2>1. ~uneven /\ flying[r] = {} /\ flying[s] = {}
    BY <1>1 DEF Send
  <2>2. flying'[r] = {x} /\ flying'[s] = {x}
    BY <1>1, <2>1 DEF Send
  <2>3. Follows(r, s) /\ UNCHANGED <<pc, signal, NextStep>>
    BY <1>1, <2>1 DEF Send, program, IInv, Even, NextStep
  <2>4. Follows(r, s)'
    BY <2>3 DEF Follows
  <2> QED
    BY <2>2, <2>4
<1>2. CASE Step \/ Dump \/ Flush \/ CloseBackup \/ CloseOutput
  <2>1. CASE Step
    BY <2>1, EvenTogether DEF Step, mail
  <2>2. CASE Dump
    BY <2>2, EvenTogether DEF Dump, mail
  <2>3. CASE Flush
    BY <2>3, EvenTogether DEF Flush, mail
  <2>4. CASE CloseBackup
    BY <2>4, EvenTogether DEF CloseBackup, Complete, mail
  <2>5. CASE CloseOutput
    BY <2>5, EvenTogether DEF CloseOutput, Complete, mail
  <2> QED
    BY <1>2, <2>1, <2>2, <2>3, <2>4, <2>5
<1>3. CASE WriteBackup
  <2>1. PICK clock \in [Ranks -> BOOLEAN] :
          pc' = Everywhere(IF clock[Root] THEN "backup" ELSE "hook")
    BY <1>3 DEF WriteBackup, BackupDue, Everywhere
  <2> QED
    BY <1>3, <2>1, EvenTogether DEF WriteBackup, mail
<1>4. CASE Writing
  <2>1. UNCHANGED <<pc, signal, flying, uneven, NextStep>>
    BY <1>4 DEF Writing, Move, Create, mail, NextStep
  <2> QED
    BY <2>1 DEF IInv, Even, Follows
<1>5. CASE Kill
  <2> SUFFICES ASSUME NEW r \in Ranks, NEW s \in Ranks PROVE Even!2!(r, s)'
    BY DEF Even
  <2>1. flying'[r] = {} /\ flying'[s] = {} /\ pc'[r] = pc'[s] /\ signal'[r] = signal'[s]
    BY <1>5 DEF Kill, Everywhere
  <2> QED
    BY <2>1, SameFollows DEF Follows
<1>6. CASE Restart
  <2>1. PICK to : pc' = Everywhere(to)
    BY <1>6 DEF Restart
  <2> QED
    BY <1>6, <2>1, EvenTogether DEF Restart, mail
<1> QED
  BY <1>1, <1>2, <1>3, <1>4, <1>5, <1>6, EvenHandler, EvenHook DEF Next, Progress

-----------------------------------------------------------------------------
LEMMA StutterKeeps ==
  ASSUME IInv, UNCHANGED vars
  PROVE  IInv'
<1>1. TypeOK' /\ InLoop' /\ Prompt'
  BY DEF IInv, vars, TypeOK, InLoop, Prompt
<1>2. WritersMeet' /\ BackupInPlace'
  BY DEF IInv, vars, WritersMeet, BackupInPlace, InBackup, All
<1>3. Even'
  <2>1. NextStep' = NextStep
    BY DEF vars, NextStep
  <2> QED
    BY <2>1 DEF IInv, vars, Even, Follows
<1> QED
  BY <1>1, <1>2, <1>3 DEF IInv

LEMMA AlwaysIInv == Spec => []IInv
<1>1. ASSUME IInv, [Next]_vars PROVE IInv'
  <2>1. CASE Next
    BY <1>1, <2>1, TypeKept, InLoopKept, PromptKept, WritersMeetKept,
       BackupInPlaceKept, EvenKept DEF IInv
  <2> QED
    BY <1>1, <2>1, StutterKeeps
<1> QED
  BY <1>1, InitIInv, PTL DEF Spec

(* Every variable has its type, and so no step goes beyond the end, nor     *)
(* does a file hold the state of a time outside the run.                    *)
THEOREM TypeCorrect == Spec => []TypeOK
<1>1. IInv => TypeOK
  BY DEF IInv
<1> QED
  BY <1>1, AlwaysIInv, PTL

(* endOfTimeStepHook(): no signal waits for longer than the end of the next *)
(* step, unless another one replaced it.                                    *)
THEOREM SignalsServed == Spec => []Served
<1>1. IInv => Served
  BY DEF IInv, Prompt, Served
<1> QED
  BY <1>1, AlwaysIInv, PTL

(* Signals that come evenly never send the processors different ways, so    *)
(* that they never wait for each other in different collective operations.  *)
THEOREM StayTogether == Spec => []Together
<1>1. ASSUME IInv PROVE Together
  <2> SUFFICES ASSUME ~uneven, NEW r \in Ranks, NEW s \in Ranks, Waits(r), Waits(s)
               PROVE  pc[r] = pc[s]
    BY DEF Together
  <2>1. (pc[r] = pc[s]) \/ Follows(r, s)
    BY <1>1 DEF IInv, Even
  <2> QED
    BY <2>1 DEF Follows, Ahead, Waits
<1> QED
  BY <1>1, AlwaysIInv, PTL

(* write_backup(): a complete backup survives the writing of the next one   *)
(* and one kill in the middle of it.                                        *)
THEOREM BackupKept == Spec => []BackupSurvives
<1>1. ASSUME IInv PROVE BackupSurvives
  <2>1. All("dead") => ~InBackup
    BY RunAssumption DEF All, InBackup
  <2> QED
    BY <1>1, <2>1 DEF IInv, BackupInPlace, BackupSurvives
<1> QED
  BY <1>1, AlwaysIInv, PTL

-----------------------------------------------------------------------------
(* Errors across processors (ParallelSection).  A processor that came out   *)
(* of the sections.                                                         *)
Stopped == {"caught", "finalize", "ended"}

(* A processor contributes to a section exactly once, on its way to check().*)
Contribution ==
  \A k \in 1..Last, r \in Processors :
    vote[k][r] # "none" <=> k < section[r] \/ (k = section[r] /\ stage[r] # "work")

(* A section that somebody left for the next one succeeded everywhere.      *)
Passed ==
  \A k \in 1..Last, r, s \in Processors : k < section[r] => vote[k][s] = "ok"

(* Why a processor may be out of the sections.                              *)
WhyStopped ==
  \A r \in Processors : stage[r] \in Stopped =>
    /\ \A s \in Processors : vote[section[r]][s] # "none"
    /\ section[r] = Last \/ \E s \in Processors : vote[section[r]][s] = "failed"
    /\ stage[r] = "caught" => section[r] \in Guarded

(* Processors that leave a guarded section do so by way of the dump.        *)
DumpedTogether ==
  \A r \in Processors :
    stage[r] \in {"finalize", "ended"} /\ Thrown(r) /\ section[r] \in Guarded =>
      \A s \in Processors : stage[s] \in {"finalize", "ended"}

SectionInv == SectionTypeOK /\ Contribution /\ Passed /\ WhyStopped /\ DumpedTogether

-----------------------------------------------------------------------------
LEMMA InitSectionInv == SectionInit => SectionInv
<1> SUFFICES ASSUME SectionInit PROVE SectionInv
  OBVIOUS
<1> USE SectionAssumption
<1>1. SectionTypeOK
  BY SMT DEF SectionInit, SectionTypeOK
<1>2. Contribution
  <2>1. \A k \in 1..Last : vote[k] = [r \in Processors |-> "none"]
    BY DEF SectionInit
  <2>2. \A k \in 1..Last, r \in Processors : vote[k][r] = "none"
    BY <2>1
  <2>3. \A r \in Processors : section[r] = 1 /\ stage[r] = "work"
    BY DEF SectionInit
  <2>4. ASSUME NEW k \in 1..Last, NEW r \in Processors
        PROVE  ~(k < section[r]) /\ stage[r] = "work" /\ vote[k][r] = "none"
    BY <2>2, <2>3
  <2> QED
    BY <2>4 DEF Contribution
<1>3. Passed
  BY SMT DEF SectionInit, Passed
<1>4. WhyStopped
  BY DEF SectionInit, WhyStopped, Stopped
<1>5. DumpedTogether
  BY DEF SectionInit, DumpedTogether
<1> QED
  BY <1>1, <1>2, <1>3, <1>4, <1>5 DEF SectionInv

(* Once a processor threw, all are in its section and have voted.           *)
LEMMA ThrownAtOnce ==
  ASSUME SectionInv, NEW r \in Processors, NEW s \in Processors, Thrown(r)
  PROVE  section[s] = section[r] /\ stage[s] # "work"
<1> DEFINE k == section[r]
<1>1. k \in 1..Last /\ section[s] \in 1..Last
  BY SectionAssumption DEF SectionInv, SectionTypeOK
<1>2. vote[k][s] # "none"
  BY DEF SectionInv, WhyStopped, Thrown, Stopped
<1>3. k < section[s] \/ (k = section[s] /\ stage[s] # "work")
  BY <1>1, <1>2 DEF SectionInv, Contribution
<1>4. ~(k < section[s])
  BY <1>1 DEF SectionInv, Passed, Thrown
<1> QED
  BY <1>3, <1>4

-----------------------------------------------------------------------------
LEMMA WorkKeeps ==
  ASSUME SectionInv, NEW p \in Processors, Work(p)
  PROVE  SectionInv'
<1> DEFINE k == section[p]
<1> USE SectionAssumption
<1>0. SectionTypeOK /\ Contribution /\ Passed /\ WhyStopped /\ DumpedTogether
  BY DEF SectionInv
<1>1. PICK v \in {"ok", "failed"} : vote' = [vote EXCEPT ![k][p] = v]
  BY DEF Work
<1>2. /\ stage[p] = "work" /\ stage' = [stage EXCEPT ![p] = "check"] /\ section' = section
      /\ k \in 1..Last
  BY <1>0 DEF Work, SectionTypeOK
<1>3. \A j \in 1..Last, s \in Processors :
        vote'[j][s] = IF j = k /\ s = p THEN v ELSE vote[j][s]
  BY <1>0, <1>1, <1>2 DEF SectionTypeOK
<1>4. vote[k][p] = "none"
  BY <1>0, <1>2 DEF Contribution, SectionTypeOK
<1>5. \A s \in Processors : stage'[s] = IF s = p THEN "check" ELSE stage[s]
  BY <1>0, <1>2 DEF SectionTypeOK
<1>6. SectionTypeOK'
  BY <1>0, <1>1, <1>2 DEF SectionTypeOK
<1>7. Contribution'
  BY <1>0, <1>2, <1>3, <1>5 DEF Contribution, SectionTypeOK
<1>8. Passed'
  <2> SUFFICES ASSUME NEW j \in 1..Last, NEW r \in Processors, NEW s \in Processors,
                      j < section[r]
               PROVE  vote'[j][s] = "ok"
    BY <1>2 DEF Passed
  <2>1. vote[j][s] = "ok"
    BY <1>0 DEF Passed
  <2> QED
    BY <2>1, <1>3, <1>4
<1>9. WhyStopped'
  <2> SUFFICES ASSUME NEW r \in Processors, stage[r] \in Stopped, r # p
               PROVE  /\ \A s \in Processors : vote'[section[r]][s] # "none"
                      /\ \/ section[r] = Last
                         \/ \E s \in Processors : vote'[section[r]][s] = "failed"
                      /\ stage[r] = "caught" => section[r] \in Guarded
    BY <1>2, <1>5 DEF WhyStopped, Stopped
  <2>1. section[r] \in 1..Last
    BY <1>0 DEF SectionTypeOK
  <2>2. section[r] # k
    BY <1>0, <1>4 DEF WhyStopped
  <2> QED
    BY <1>0, <1>3, <2>1, <2>2 DEF WhyStopped
<1>10. DumpedTogether'
  <2> SUFFICES ASSUME NEW r \in Processors, stage'[r] \in {"finalize", "ended"}, Thrown(r)',
                      section[r] \in Guarded
               PROVE  \A s \in Processors : stage'[s] \in {"finalize", "ended"}
    BY <1>2 DEF DumpedTogether
  <2>1. r # p /\ stage[r] \in {"finalize", "ended"}
    BY <1>5
  <2>2. section[r] \in 1..Last
    BY <1>0 DEF SectionTypeOK
  <2>3. section[r] # k
    BY <1>0, <1>4, <2>1 DEF WhyStopped, Stopped
  <2>4. Thrown(r)
    BY <1>2, <1>3, <2>1, <2>2, <2>3 DEF Thrown
  <2>5. stage[p] # "work"
    BY <2>4, ThrownAtOnce
  <2> QED
    BY <1>2, <2>5
<1> QED
  BY <1>6, <1>7, <1>8, <1>9, <1>10 DEF SectionInv

LEMMA CheckKeeps ==
  ASSUME SectionInv, NEW p \in Processors, Check(p)
  PROVE  SectionInv'
<1> DEFINE k == section[p]
<1> USE SectionAssumption
<1>0. SectionTypeOK /\ Contribution /\ Passed /\ WhyStopped /\ DumpedTogether
  BY DEF SectionInv
<1>1. /\ stage[p] = "check" /\ vote' = vote /\ k \in 1..Last
      /\ \A s \in Processors : vote[k][s] # "none"
  BY <1>0 DEF Check, EverybodyVoted, SectionTypeOK
<1>2. CASE ~Success(p, k)
  <2>1. stage' = [stage EXCEPT ![p] = AfterThrow(k)] /\ section' = section
    BY <1>2 DEF Check
  <2>2. AfterThrow(k) \in {"caught", "finalize"}
    BY DEF AfterThrow
  <2>3. \A s \in Processors : stage'[s] = IF s = p THEN AfterThrow(k) ELSE stage[s]
    BY <1>0, <2>1 DEF SectionTypeOK
  <2>4. PICK f \in Processors : vote[k][f] = "failed"
    BY <1>0, <1>1, <1>2 DEF Success, SectionTypeOK
  <2>5. SectionTypeOK'
    BY <1>0, <1>1, <2>1, <2>2 DEF SectionTypeOK
  <2>6. Contribution'
    BY <1>0, <1>1, <2>1, <2>2, <2>3 DEF Contribution
  <2>7. Passed'
    BY <1>0, <1>1, <2>1 DEF Passed
  <2>8. WhyStopped'
    <3> SUFFICES ASSUME NEW r \in Processors, stage'[r] \in Stopped
                 PROVE  /\ \A s \in Processors : vote[section[r]][s] # "none"
                        /\ \/ section[r] = Last
                           \/ \E s \in Processors : vote[section[r]][s] = "failed"
                        /\ stage'[r] = "caught" => section[r] \in Guarded
      BY <1>1, <2>1 DEF WhyStopped
    <3>1. CASE r = p
      BY <3>1, <1>1, <2>3, <2>4 DEF AfterThrow
    <3>2. CASE r # p
      BY <3>2, <1>0, <2>3 DEF WhyStopped
    <3> QED
      BY <3>1, <3>2
  <2>9. DumpedTogether'
    <3> SUFFICES ASSUME NEW r \in Processors, stage'[r] \in {"finalize", "ended"},
                        Thrown(r)', section[r] \in Guarded
                 PROVE  \A s \in Processors : stage'[s] \in {"finalize", "ended"}
      BY <2>1 DEF DumpedTogether
    <3>1. r # p
      <4> SUFFICES ASSUME r = p PROVE FALSE
        OBVIOUS
      <4> QED
        BY <2>3 DEF AfterThrow
    <3>2. stage[r] \in {"finalize", "ended"} /\ Thrown(r)
      BY <3>1, <1>1, <2>1, <2>3 DEF Thrown
    <3> QED
      BY <3>2, <1>0, <1>1 DEF DumpedTogether
  <2> QED
    BY <2>5, <2>6, <2>7, <2>8, <2>9 DEF SectionInv
<1>3. CASE Success(p, k) /\ k = Last
  <2>1. stage' = [stage EXCEPT ![p] = "finalize"] /\ section' = section
    BY <1>3 DEF Check, IsLast
  <2>3. \A s \in Processors : stage'[s] = IF s = p THEN "finalize" ELSE stage[s]
    BY <1>0, <2>1 DEF SectionTypeOK
  <2>5. SectionTypeOK'
    BY <1>0, <1>1, <2>1 DEF SectionTypeOK
  <2>6. Contribution'
    BY <1>0, <1>1, <2>1, <2>3 DEF Contribution
  <2>7. Passed'
    BY <1>0, <1>1, <2>1 DEF Passed
  <2>8. WhyStopped'
    BY <1>0, <1>1, <1>3, <2>1, <2>3 DEF WhyStopped, Stopped
  <2>9. DumpedTogether'
    <3> SUFFICES ASSUME NEW r \in Processors, stage'[r] \in {"finalize", "ended"},
                        Thrown(r)', section[r] \in Guarded
                 PROVE  \A s \in Processors : stage'[s] \in {"finalize", "ended"}
      BY <2>1 DEF DumpedTogether
    <3>1. r # p
      BY <1>1, <1>3, <2>1 DEF Thrown, Success
    <3>2. stage[r] \in {"finalize", "ended"} /\ Thrown(r)
      BY <3>1, <1>1, <2>1, <2>3 DEF Thrown
    <3> QED
      BY <3>2, <1>0, <1>1 DEF DumpedTogether
  <2> QED
    BY <2>5, <2>6, <2>7, <2>8, <2>9 DEF SectionInv
<1>4. CASE Success(p, k) /\ k # Last
  <2>1. stage' = [stage EXCEPT ![p] = "work"] /\ section' = [section EXCEPT ![p] = k + 1]
    BY <1>4 DEF Check, IsLast
  <2>2. \A s \in Processors : stage'[s] = IF s = p THEN "work" ELSE stage[s]
    BY <1>0, <2>1 DEF SectionTypeOK
  <2>3. \A s \in Processors : section'[s] = IF s = p THEN k + 1 ELSE section[s]
    BY <1>0, <2>1 DEF SectionTypeOK
  <2>4. k + 1 \in 1..Last
    BY <1>1, <1>4
  <2>5. SectionTypeOK'
    BY <1>0, <1>1, <2>1, <2>4 DEF SectionTypeOK
  <2>6. Contribution'
    BY <1>0, <1>1, <2>2, <2>3, <2>4 DEF Contribution, SectionTypeOK
  <2>7. Passed'
    BY <1>0, <1>1, <1>4, <2>3 DEF Passed, Success, SectionTypeOK
  <2>8. WhyStopped'
    BY <1>0, <1>1, <2>2, <2>3 DEF WhyStopped, Stopped
  <2>9. DumpedTogether'
    <3> SUFFICES ASSUME NEW r \in Processors, stage'[r] \in {"finalize", "ended"},
                        Thrown(r)', section'[r] \in Guarded
                 PROVE  \A s \in Processors : stage'[s] \in {"finalize", "ended"}
      BY DEF DumpedTogether
    <3>1. r # p /\ section'[r] = section[r]
      BY <2>2, <2>3
    <3>2. stage[r] \in {"finalize", "ended"} /\ Thrown(r)
      BY <3>1, <1>1, <2>2 DEF Thrown
    <3> QED
      BY <3>1, <3>2, <1>0, <1>1 DEF DumpedTogether
  <2> QED
    BY <2>5, <2>6, <2>7, <2>8, <2>9 DEF SectionInv
<1> QED
  BY <1>2, <1>3, <1>4

LEMMA DumpKeeps ==
  ASSUME SectionInv, DumpToFile
  PROVE  SectionInv'
<1> USE DEF DumpToFile, SectionInv
<1>1. \A r \in Processors : stage[r] = "caught" /\ stage'[r] = "finalize"
  OBVIOUS
<1>2. SectionTypeOK'
  BY DEF SectionTypeOK
<1>3. Contribution'
  BY <1>1 DEF Contribution
<1>4. Passed'
  BY DEF Passed
<1>5. WhyStopped'
  BY <1>1 DEF WhyStopped, Stopped
<1>6. DumpedTogether'
  BY <1>1 DEF DumpedTogether
<1> QED
  BY <1>2, <1>3, <1>4, <1>5, <1>6

LEMMA FinalizeKeeps ==
  ASSUME SectionInv, Finalize
  PROVE  SectionInv'
<1> USE DEF Finalize, SectionInv
<1>1. \A r \in Processors : stage[r] = "finalize" /\ stage'[r] = "ended"
  OBVIOUS
<1>2. SectionTypeOK'
  BY DEF SectionTypeOK
<1>3. Contribution'
  BY <1>1 DEF Contribution
<1>4. Passed'
  BY DEF Passed
<1>5. WhyStopped'
  BY <1>1 DEF WhyStopped, Stopped
<1>6. DumpedTogether'
  BY <1>1 DEF DumpedTogether
<1> QED
  BY <1>2, <1>3, <1>4, <1>5, <1>6

LEMMA SectionStutterKeeps ==
  ASSUME SectionInv, UNCHANGED sectionVars
  PROVE  SectionInv'
BY DEF sectionVars, SectionInv, SectionTypeOK, Contribution, Passed, WhyStopped,
       DumpedTogether, Thrown

LEMMA SectionNextKeeps == SectionInv /\ [SectionNext]_sectionVars => SectionInv'
<1> SUFFICES ASSUME SectionInv, [SectionNext]_sectionVars PROVE SectionInv'
  OBVIOUS
<1>1. ASSUME NEW p \in Processors, Work(p) PROVE SectionInv'
  BY <1>1, WorkKeeps
<1>2. ASSUME NEW p \in Processors, Check(p) PROVE SectionInv'
  BY <1>2, CheckKeeps
<1>3. CASE DumpToFile
  BY <1>3, DumpKeeps
<1>4. CASE Finalize
  BY <1>4, FinalizeKeeps
<1>5. CASE UNCHANGED sectionVars
  BY <1>5, SectionStutterKeeps
<1> QED
  BY <1>1, <1>2, <1>3, <1>4, <1>5 DEF SectionNext

LEMMA SectionInvHolds == SectionSpec => []SectionInv
<1>1. SectionInit => SectionInv
  BY InitSectionInv
<1>2. SectionInv /\ [SectionNext]_sectionVars => SectionInv'
  BY SectionNextKeeps
<1> QED
  BY <1>1, <1>2, PTL DEF SectionSpec

-----------------------------------------------------------------------------
(* Sections, places and votes stay within their types.                      *)
THEOREM SectionTypeCorrect == SectionSpec => []SectionTypeOK
<1>1. SectionInv => SectionTypeOK
  BY DEF SectionInv
<1> QED
  BY <1>1, SectionInvHolds, PTL

(* A failure on one processor is heard by all of them.                      *)
THEOREM FailureHeardEverywhere == SectionSpec => []FailureHeard
<1>1. ASSUME SectionInv PROVE FailureHeard
  <2> SUFFICES ASSUME NEW k \in 1..Last, NEW r \in Processors, NEW s \in Processors,
                      vote[k][r] = "failed", ~(section[s] =< k)
               PROVE  FALSE
    BY DEF FailureHeard
  <2>1. k < section[s]
    BY <1>1 DEF SectionInv, SectionTypeOK
  <2> QED
    BY <1>1, <2>1 DEF SectionInv, Passed
<1> QED
  BY <1>1, SectionInvHolds, PTL

(* No processor is left behind in a collective call.                        *)
THEOREM AllThrowTogether == SectionSpec => []ThrowTogether
<1>1. ASSUME SectionInv PROVE ThrowTogether
  <2> SUFFICES ASSUME NEW r \in Processors, NEW s \in Processors, Thrown(r)
               PROVE  /\ section[s] = section[r]
                      /\ stage[s] # "work"
                      /\ Thrown(s) => (stage[s] = "caught" <=> stage[r] = "caught")
    BY DEF ThrowTogether
  <2>1. section[s] = section[r] /\ stage[s] # "work"
    BY <1>1, ThrownAtOnce
  <2>2. ASSUME NEW x \in Processors, NEW y \in Processors, Thrown(x), Thrown(y),
                 stage[x] = "caught"
        PROVE  stage[y] = "caught"
    <3>1. section[x] \in Guarded
      BY <1>1, <2>2 DEF SectionInv, WhyStopped, Stopped
    <3>2. section[y] = section[x]
      BY <1>1, <2>2, ThrownAtOnce
    <3>3. stage[y] \in {"finalize", "ended"} => stage[x] \in {"finalize", "ended"}
      BY <1>1, <2>2, <3>1, <3>2 DEF SectionInv, DumpedTogether
    <3> QED
      BY <2>2, <3>3 DEF Thrown
  <2> QED
    BY <2>1, <2>2
<1> QED
  BY <1>1, SectionInvHolds, PTL

(* Nobody gets further ahead than the section the others are about to leave.*)
THEOREM NobodyIsOvertaken == SectionSpec => []NobodyOvertaken
<1>1. ASSUME SectionInv PROVE NobodyOvertaken
  <2> SUFFICES ASSUME NEW r \in Processors, NEW s \in Processors, section[r] > section[s]
               PROVE  section[r] = section[s] + 1 /\ stage[s] = "check"
    BY DEF NobodyOvertaken
  <2>1. section[r] \in 1..Last /\ section[s] \in 1..Last
    BY <1>1 DEF SectionInv, SectionTypeOK
  <2> DEFINE k == section[r] - 1
  <2>2. k \in 1..Last /\ k < section[r] /\ section[s] =< k
    BY <2>1, SectionAssumption
  <2>3. vote[k][s] = "ok"
    BY <1>1, <2>2 DEF SectionInv, Passed
  <2>4. k = section[s] /\ stage[s] # "work"
    BY <1>1, <2>1, <2>2, <2>3, SectionAssumption DEF SectionInv, Contribution
  <2>5. section[s] # Last
    BY <2>1, <2>2, <2>4, SectionAssumption
  <2>6. \A x \in Processors : vote[k][x] = "ok"
    BY <1>1, <2>2 DEF SectionInv, Passed
  <2>7. stage[s] \notin Stopped
    BY <1>1, <2>4, <2>5, <2>6 DEF SectionInv, WhyStopped
  <2>8. stage[s] = "check"
    BY <1>1, <2>4, <2>7 DEF SectionInv, SectionTypeOK, Stopped
  <2> QED
    BY <2>1, <2>4, <2>8
<1> QED
  BY <1>1, SectionInvHolds, PTL

(* The processors agree about every section.                                *)
THEOREM ProcessorsAlwaysAgree == SectionSpec => []ProcessorsAgree
<1>1. SectionTypeOK /\ FailureHeard /\ ThrowTogether /\ NobodyOvertaken => ProcessorsAgree
  BY DEF ProcessorsAgree
<1> QED
  BY <1>1, SectionTypeCorrect, FailureHeardEverywhere, AllThrowTogether,
     NobodyIsOvertaken, PTL
=============================================================================
