----------------------------- MODULE NetCDF3File -----------------------------
(***************************************************************************)
(* Input and output through class PIO with the "netcdf3" backend.  All      *)
(* processors make every call; processor 0 alone calls the NetCDF library   *)
(* and tells the others what came of it, and gathers or scatters the data.  *)
(* A call is the sequence of its stages: library calls of processor 0,      *)
(* collective operations, messages, and changes of what a processor         *)
(* remembers about the file.  Processors go through the stages at their own *)
(* pace, past those that are for processor 0 or for the others only.        *)
(*                                                                          *)
(* A failed library call is reported to all processors by some operations;  *)
(* others check() it on processor 0 before they report it, and the error    *)
(* is thrown there alone.  MPI does not define what happens when that       *)
(* processor goes on to other collective operations than the rest: the      *)
(* model stops at such a throw ("alone").                                   *)
(***************************************************************************)
EXTENDS Naturals, Sequences

CONSTANTS Size,        \* number of processors
          Sessions,    \* what is done with files, one after another: see below
          MaxFaults    \* bound on failures of the library

(* What IceModel does with files: a state is written or read, a file of     *)
(* spatial time series or of snapshots is begun or continued.               *)
SessionNames == {"dump", "first extra", "later extra", "first snapshot",
                 "later snapshot", "read"}

ASSUME FileAssumption ==
  Size \in Nat \ {0} /\ MaxFaults \in Nat /\ Sessions \subseteq Seq(SessionNames)

Ranks == 0..Size - 1

VARIABLES todo,     \* the stages ahead of a processor
          state,    \* of a processor: "running", "unwinding", "failed", "done"
          stat,     \* the last status it knows
          answer,   \* what it was told last
          starts,   \* records it is about to write, by the variable's name
          define,   \* NCFile::m_define_mode
          named,    \* NCFile::m_filename is set: a file is open
          delayed,  \* PIO::Impl::delayed_writes
          slots,    \* collective operations that some have entered and not all left
          inside,   \* a processor is in one
          puts,     \* arrays it has sent or gathered
          chan,     \* arrays on their way to processor 0
          back,     \* the last array processor 0 took; replies to the others
          dataset,  \* of the library: open, define, vars, len (of time)
          written,  \* chunks of arrays in the file
          faults, alone

filesVars == <<todo, state, stat, answer, starts, define, named, delayed, slots,
               inside, puts, chan, back, dataset, written, faults, alone>>

rankState == <<state, answer, starts, define, named, delayed>>
network   == <<slots, inside, puts, chan, back>>
library   == <<dataset, written, faults, alone>>

-----------------------------------------------------------------------------
(* Stages.  Processor 0 calls the library: it keeps the status, or checks   *)
(* it at once, or takes a failure for the answer 0.                         *)
Call(f, v)    == <<"call", f, v>>
Checked(f, v) == <<"checked", f, v>>
Ask(f, v, n)  == <<"ask", f, v, n>>
Barrier    == <<"all", "barrier">>
Total      == <<"all", "sum">>         \* MPI_Allreduce of the status
Bcast(x)   == <<"bcast", x>>           \* "answer" or "text"
Share      == <<"bcast", "stat">>
Verify     == <<"verify">>             \* check(stat) of all, in class NCFile
Sets(x)    == <<"sets", x>>

(* What MPI can tell apart: status and answers are single integers.         *)
Signature(stage) ==
  IF stage[1] = "bcast" /\ stage[2] # "text" THEN <<"bcast", "int">> ELSE stage

(* "if (m_rank == 0) ... else ...": what is for others is passed over.      *)
RootOnly   == {"call", "checked", "ask", "receive", "reply"}
OthersOnly == {"send", "await"}

(* The operations of NC3File with the checks of NCFile around them.         *)
MoveIfExists == <<Call("move", "file"), Total, Verify>>

(* nc_open(), nc_create() or nc_close().                                    *)
Try(f) == <<Call(f, "file"), Barrier, Bcast("answer"), Share, Verify>>

Open == Try("open") \o <<Sets("opened")>>

Create == Try("create") \o <<Sets("created")>>

CloseUnshared ==                 \* mutant: the status stays on processor 0
  <<Call("close", "file"), Barrier, Bcast("answer"), Verify, Sets("closed")>>

Close == Try("close") \o <<Sets("closed")>>

SetFill ==
  <<Checked("fill", "file"), Barrier, Bcast("answer"), Share, Verify>>

GetFormat == <<Checked("format", "file"), Barrier, Bcast("answer")>>

EnddefImpl ==
  <<Checked("enddef", "file"), Barrier, Share, Verify, Sets("data")>>

RedefImpl == <<Call("redef", "file"), Barrier, Share, Verify, Sets("define")>>

DefDim == <<Checked("def", "dim"), Barrier, Share, Verify>>

DefVar(v) ==
  <<Checked("inq", "dim"), Checked("def", v), Barrier, Share, Verify>>

InqDimid(v) == <<Ask("exists", v, 0), Barrier, Bcast("answer")>>

InqDimlen ==
  <<Checked("inq", "dim"), Checked("length", "file"), Barrier,
    Bcast("answer"), Share, Verify>>

InqVarid(v) == <<Ask("exists", v, 0), Barrier, Bcast("answer")>>

InqNvars == <<Checked("inq", "file"), Barrier, Bcast("answer")>>

InqVarname ==
  <<Checked("inq", "file"), Barrier, Share, Bcast("text"), Verify>>

InqVardimid(v) ==
  <<Checked("inq", v), Checked("inq", v), Bcast("answer"),
    Checked("inq", v), Barrier,
    Checked("inq", v), Barrier, Bcast("text")>>

(* The text of an attribute of v of this length (0: there is none).         *)
ReadText(v) == <<Call("text", v), Share, <<"textifread">>>>

GetAttText(v, length) ==
  <<Checked("inq", v), Ask("attlen", v, length), Bcast("answer"),
    <<"if", ReadText(v)>>>>

PutAtt(v) ==
  <<<<"redef">>, Checked("inq", v), Checked("att", v), Barrier,
    Share, Verify>>

(* put_var_double() and get_var_double(): processor 0 takes the requests in *)
(* the order of the processors, two or three stages for each.               *)
Gather(v, s) ==
  [k \in 1..2 * Size |->
     LET q == (k - 1) \div 2
     IN  IF k % 2 = 1 THEN <<"receive", q>> ELSE <<"checked", "put", v, s, q>>]

PutVar(v, s) ==
  <<<<"all", "reduce">>, Checked("inq", v)>> \o Gather(v, s)
  \o <<<<"send">>, Verify, <<"count">>>>

Serve(v, size) ==
  [k \in 1..3 * size |->
     LET q == (k - 1) \div 3
     IN  CASE k % 3 = 1 -> <<"receive", q>>
           [] k % 3 = 2 -> Checked("get", v)
           [] k % 3 = 0 -> <<"reply", q>>]

GetVarButLast(v) ==              \* mutant: r < com_size - 1
  <<<<"all", "reduce">>, Checked("inq", v)>> \o Serve(v, Size - 1)
  \o <<<<"send">>, <<"await">>, Verify, <<"count">>>>

GetVar(v) ==
  <<<<"all", "reduce">>, Checked("inq", v)>> \o Serve(v, Size)
  \o <<<<"send">>, <<"await">>, Verify, <<"count">>>>

-----------------------------------------------------------------------------
(* The operations of PIO and of io_helpers, from those of NCFile.           *)
Redef  == <<<<"redef">>>>        \* in define mode already: nothing
Enddef == <<<<"enddef">>, <<"flush">>>>

CreateFile == MoveIfExists \o Create \o SetFill      \* PISM_READWRITE_MOVE

OpenFile == Open \o SetFill                          \* PISM_READWRITE

CloseUnflushed == Close          \* mutant: delayed writes are forgotten

CloseFile == <<<<"flush">>>> \o Close

DetectMode == Try("open") \o GetFormat \o Try("close")

OpenToRead == DetectMode \o Open                     \* PISM_READONLY

WriteAttributes(v) == Redef \o PutAtt(v)

DefineDimension(v) == Redef \o DefDim \o DefVar(v) \o WriteAttributes(v)

InqDimlenIfThere == InqDimid("time") \o <<<<"if", InqDimlen>>>>

DefineTime ==
  InqVarid("time") \o <<<<"unless", DefineDimension("time")>>>>

AppendAtLast ==                  \* mutant: the last record is overwritten
  InqDimlenIfThere \o <<<<"let", "start", 1>>, <<"delay", "time", "start">>>>

(* append_time(): the record after the last one, later.                     *)
AppendTime ==
  InqDimlenIfThere \o <<<<"let", "start", 0>>, <<"delay", "time", "start">>>>

DefineDimensions ==
  InqDimid("x")
  \o <<<<"unless", DefineDimension("x") \o <<<<"delay", "x", "zero">>>>>>>>

DefineSpatialAlways(v) ==        \* mutant: no inq_var() before def_var()
  DefineDimensions \o Redef \o DefVar(v) \o WriteAttributes(v)

DefineSpatialVariable(v) ==
  InqVarid(v)
  \o <<<<"unless",
         DefineDimensions \o Redef \o DefVar(v) \o WriteAttributes(v)>>>>

(* inq_dimtype() for the time dimension, of which the start of a record is  *)
(* a number.                                                                *)
InqDimtype ==
  InqVarid("time") \o GetAttText("time", 1) \o GetAttText("time", 0)
  \o GetAttText("time", 1)

ComputeStartAndCount(v) == InqVardimid(v) \o InqDimtype

UseMappedIO(v) == InqVardimid(v) \o InqDimtype

(* put_vec(): the delayed writes first, then the last record.               *)
PutVec(v) ==
  Enddef \o InqDimlenIfThere
  \o <<<<"let", "last", 1>>>> \o ComputeStartAndCount(v)
  \o <<<<"enddef">>, <<"write", v, "last">>>>

(* inq_var(): among the variables, by their standard names, then by name.   *)
InqVar(v) ==
  InqNvars \o InqVarname \o GetAttText("time", 0) \o InqVarname
  \o GetAttText(v, 1) \o <<<<"unless", InqVarid(v)>>>>

WriteSpatialVariable(v) ==
  InqVar(v) \o PutVec(v)

WriteMetadata ==
  InqVarid("mapping")
  \o <<<<"unless", Redef \o DefVar("mapping")>>>> \o WriteAttributes("mapping")

(* define_time_bounds() and define_timeseries() ask again for the variable  *)
(* that their callers did not find; the time dimension is there, from       *)
(* define_time().                                                           *)
DefineTimeBounds ==
  InqVarid("bounds") \o Redef \o InqDimid("time")
  \o InqDimid("nv") \o <<<<"unless", DefDim>>>>
  \o Redef \o DefVar("bounds") \o WriteAttributes("bounds")

WriteTimeBounds ==
  InqVarid("bounds") \o <<<<"unless", DefineTimeBounds>>>>
  \o Enddef \o <<<<"enddef">>, <<"write", "bounds", "record">>>>

DefineTimeseries ==
  InqVarid("stamp") \o InqDimid("time") \o InqVarid("stamp")
  \o Redef \o DefVar("stamp") \o WriteAttributes("stamp")

WriteTimeseries ==
  InqVarid("stamp") \o <<<<"unless", DefineTimeseries>>, <<"delay", "stamp", "record">>>>

-----------------------------------------------------------------------------
(* What IceModel does with files.  dumpToFile(), write_backup():            *)
Dump ==
  CreateFile \o WriteMetadata \o DefineTime \o AppendTime
  \o DefineSpatialVariable("thk") \o WriteSpatialVariable("thk") \o CloseFile

(* write_extras(): the bounds and the time stamp go to the record that      *)
(* append_time() is about to add.                                           *)
ExtraRecord ==
  InqDimlenIfThere \o <<<<"let", "record", 0>>>> \o AppendTime
  \o WriteTimeBounds \o WriteTimeseries
  \o DefineSpatialVariable("thk") \o WriteSpatialVariable("thk") \o CloseFile

FirstExtras ==
  CreateFile \o DefineTime \o WriteAttributes("time") \o WriteMetadata
  \o ExtraRecord

LaterExtras == OpenFile \o ExtraRecord

(* write_snapshot(): the time stamp goes to the last record.                *)
SnapshotRecord ==
  AppendTime \o DefineSpatialVariable("thk") \o WriteSpatialVariable("thk")
  \o InqDimlenIfThere \o <<<<"let", "record", 1>>>> \o WriteTimeseries \o CloseFile

FirstSnapshot == CreateFile \o DefineTime \o WriteMetadata \o SnapshotRecord

LaterSnapshot == OpenFile \o SnapshotRecord

(* A field is read: get_vec().                                              *)
ReadField ==
  OpenToRead \o InqVar("thk") \o ComputeStartAndCount("thk") \o UseMappedIO("thk")
  \o <<<<"enddef">>, <<"fetch", "thk">>>> \o CloseFile

Session(name) ==
  CASE name = "dump"           -> Dump
    [] name = "first extra"    -> FirstExtras
    [] name = "later extra"    -> LaterExtras
    [] name = "first snapshot" -> FirstSnapshot
    [] name = "later snapshot" -> LaterSnapshot
    [] name = "read"           -> ReadField

FilesInit ==
  /\ \E names \in Sessions :
       todo = [r \in Ranks |-> [i \in 1..Len(names) |-> <<"session", names[i]>>]]
  /\ state = [r \in Ranks |-> "running"]
  /\ stat = [r \in Ranks |-> 0]
  /\ answer = [r \in Ranks |-> 0]
  /\ starts = [r \in Ranks |->
                [x \in {"start", "last", "record", "zero"} |-> 0]]
  /\ define = [r \in Ranks |-> FALSE]
  /\ named = [r \in Ranks |-> FALSE]
  /\ delayed = [r \in Ranks |-> <<>>]
  /\ slots = <<>>
  /\ inside = [r \in Ranks |-> FALSE]
  /\ puts = [r \in Ranks |-> 0]
  /\ chan = [r \in Ranks |-> <<>>]
  /\ back = [r \in Ranks |-> 0]
  /\ dataset = [open |-> FALSE, define |-> FALSE, vars |-> {}, len |-> 0]
  /\ written = {}
  /\ faults = 0
  /\ alone = FALSE

-----------------------------------------------------------------------------
(* A processor that is about to do stage k, and one that has done it.       *)
At(r, k) ==
  /\ state[r] \in {"running", "unwinding"}
  /\ todo[r] # <<>>
  /\ Head(todo[r])[1] = k
  /\ ~inside[r]
  /\ ~alone

Continue(r, more) == todo' = [todo EXCEPT ![r] = more \o Tail(@)]

(* ~NC3File() closes a file that is still open, on processor 0.             *)
Destroyed(r) == IF r = 0 THEN [dataset EXCEPT !.open = FALSE] ELSE dataset

(* An exception: the destructor of PIO closes the file, and does not throw; *)
(* what is left to close is left to ~NC3File().                             *)
Throw(r) ==
  /\ stat' = [stat EXCEPT ![r] = 0]
  /\ IF state[r] = "running" /\ named[r]
       THEN /\ todo' = [todo EXCEPT ![r] = CloseFile]
            /\ state' = [state EXCEPT ![r] = "unwinding"]
            /\ UNCHANGED dataset
       ELSE /\ todo' = [todo EXCEPT ![r] = <<>>]
            /\ state' = [state EXCEPT ![r] = "failed"]
            /\ dataset' = Destroyed(r)

(* What the library needs, and how the file changes when a call succeeds.   *)
Acceptable(c) ==
  CASE c[2] \in {"move", "open", "create"}      -> TRUE
    [] c[2] \in {"close", "fill", "exists", "format"} -> dataset.open
    [] c[2] \in {"redef", "put", "get"}         -> dataset.open /\ ~dataset.define
    [] c[2] = "enddef"                          -> dataset.open /\ dataset.define
    [] c[2] = "def"   -> dataset.open /\ dataset.define /\ c[3] \notin dataset.vars
    [] c[2] = "att"                             -> dataset.open /\ dataset.define
    [] OTHER          -> dataset.open /\ (c[3] \in {"file", "dim"} \union dataset.vars)

Effect(c) ==
  CASE c[2] = "open"   -> [dataset EXCEPT !.open = TRUE, !.define = FALSE]
    [] c[2] = "create" -> [open |-> TRUE, define |-> TRUE, vars |-> {}, len |-> 0]
    [] c[2] = "close"  -> [dataset EXCEPT !.open = FALSE]
    [] c[2] = "redef"  -> [dataset EXCEPT !.define = TRUE]
    [] c[2] = "enddef" -> [dataset EXCEPT !.define = FALSE]
    [] c[2] = "def"    -> [dataset EXCEPT !.vars = @ \union ({c[3]} \ {"dim"})]
    [] c[2] = "put" /\ c[3] # "x" ->
         [dataset EXCEPT !.len = IF c[4] + 1 > @ THEN c[4] + 1 ELSE @]
    [] OTHER           -> dataset

Answer(c) ==
  CASE c[2] = "exists" -> IF c[3] \in dataset.vars THEN 1 ELSE 0
    [] c[2] = "length" -> dataset.len
    [] c[2] = "attlen" -> c[4]
    [] OTHER           -> answer[0]

(* The array that is put: of the last processor that sent one, or its own.  *)
Chunk(c) == [var |-> c[3], at |-> c[4], from |-> c[5],
             sent |-> IF c[5] = 0 THEN puts[0] ELSE back[0], put |-> puts[0]]

(* A call succeeds or fails.                                                *)
Succeeds(c) ==
  /\ dataset' = Effect(c)
  /\ answer' = [answer EXCEPT ![0] = Answer(c)]
  /\ written' = IF c[2] = "put" THEN written \union {Chunk(c)} ELSE written
  /\ UNCHANGED faults

Fails(c) ==
  /\ IF Acceptable(c) THEN faults < MaxFaults ELSE TRUE
  /\ faults' = IF Acceptable(c) THEN faults + 1 ELSE faults
  /\ dataset' = IF c[2] = "close" THEN Effect(c) ELSE dataset
  /\ UNCHANGED <<answer, written>>

LibraryCall ==
  /\ At(0, "call")
  /\ LET c == Head(todo[0])
     IN  \/ Acceptable(c) /\ Succeeds(c) /\ stat' = [stat EXCEPT ![0] = 0]
         \/ Fails(c) /\ stat' = [stat EXCEPT ![0] = 1]
  /\ Continue(0, <<>>)
  /\ UNCHANGED <<state, starts, define, named, delayed, network, alone>>

(* A call and check(stat), on processor 0: the status is 0, as before the   *)
(* call ("int stat = 0"), or it is thrown.                                  *)
CheckedCall ==
  /\ At(0, "checked")
  /\ LET c == Head(todo[0])
     IN  \/ Acceptable(c) /\ Succeeds(c) /\ UNCHANGED alone
         \/ Fails(c) /\ alone' = TRUE
  /\ Continue(0, <<>>)
  /\ UNCHANGED <<stat, state, starts, define, named, delayed, network>>

(* nc_inq_dimid(), nc_inq_varid() and nc_inq_attlen() look a name up in the *)
(* header, which is in memory: of an open file they fail if there is no     *)
(* such name, and this is the answer 0.                                     *)
LookUp ==
  /\ At(0, "ask")
  /\ LET c == Head(todo[0])
     IN  answer' = [answer EXCEPT ![0] = IF Acceptable(c) THEN Answer(c) ELSE 0]
  /\ Continue(0, <<>>)
  /\ UNCHANGED <<stat, state, starts, define, named, delayed, network, library>>

(* A processor passes what is for others.                                   *)
Skip(r) ==
  /\ \E k \in IF r = 0 THEN OthersOnly ELSE RootOnly : At(r, k)
  /\ Continue(r, <<>>)
  /\ UNCHANGED <<stat, rankState, network, library>>

(* check() in class NCFile, on every processor.                             *)
CheckEverywhere(r) ==
  /\ At(r, "verify")
  /\ IF stat[r] # 0
       THEN Throw(r)
       ELSE Continue(r, <<>>) /\ UNCHANGED <<stat, state, dataset>>
  /\ UNCHANGED <<answer, starts, define, named, delayed, network, written, faults, alone>>

(* A collective operation begins: a processor contributes to it.  What      *)
(* processors enter as their n-th operation is one operation.               *)
Enter(r) ==
  LET stage == Head(todo[r])
      slot(n) == IF n =< Len(slots) THEN slots[n]
                 ELSE [calls |-> {}, entered |-> {}, left |-> {}, stat |-> 0, answer |-> 0]
      new == CHOOSE n \in 1..Len(slots) + 1 :
               /\ r \notin slot(n).entered
               /\ \A m \in 1..n - 1 : r \in slots[m].entered
      joined == [calls   |-> slot(new).calls \union {Signature(stage)},
                 entered |-> slot(new).entered \union {r},
                 left    |-> slot(new).left,
                 stat    |-> IF stat[r] # 0 /\ (r = 0 \/ stage = Total) THEN 1
                             ELSE slot(new).stat,
                 answer  |-> IF r = 0 THEN answer[r] ELSE slot(new).answer]
  IN  /\ At(r, "all") \/ At(r, "bcast")
      /\ slots' = IF new > Len(slots) THEN Append(slots, joined)
                  ELSE [slots EXCEPT ![new] = joined]
      /\ inside' = [inside EXCEPT ![r] = TRUE]
      /\ UNCHANGED <<todo, stat, rankState, puts, chan, back, library>>

(* It ends when those that the processor needs have entered it: the root of *)
(* a broadcast needs nobody, the root of a reduction everybody.             *)
Needed(r, stage) ==
  IF stage[1] = "bcast" THEN {0}
  ELSE IF stage[2] = "reduce" /\ r # 0 THEN {}
  ELSE Ranks

Leave(r) ==
  LET stage == Head(todo[r])
      n == CHOOSE m \in 1..Len(slots) : r \in slots[m].entered \ slots[m].left
      after == [slots EXCEPT ![n].left = @ \union {r}]
  IN  /\ inside[r] /\ ~alone
      /\ Needed(r, stage) \subseteq slots[n].entered
      /\ slots[n].calls = {Signature(stage)}
      /\ stat' = [stat EXCEPT ![r] =
                    IF stage \in {Share, Total} THEN slots[n].stat ELSE @]
      /\ answer' = [answer EXCEPT ![r] =
                      IF stage = Bcast("answer") THEN slots[n].answer ELSE @]
      /\ slots' = IF Head(after).left = Ranks THEN Tail(after) ELSE after
      /\ inside' = [inside EXCEPT ![r] = FALSE]
      /\ Continue(r, <<>>)
      /\ UNCHANGED <<state, starts, define, named, delayed, puts, chan, back, library>>

RememberOnRoot(r) ==             \* mutant: the others never leave data mode
  /\ At(r, "sets")
  /\ LET x == Head(todo[r])[2]
     IN  /\ define' = [define EXCEPT ![r] = \/ x = "created"
                                            \/ r = 0 /\ x = "define"
                                            \/ (x = "closed" /\ @)]
         /\ named' = [named EXCEPT ![r] = x # "closed"]
  /\ Continue(r, <<>>)
  /\ UNCHANGED <<stat, state, answer, starts, delayed, network, library>>

(* What NCFile remembers of the file once a call has succeeded.             *)
Remember(r) ==
  /\ At(r, "sets")
  /\ LET x == Head(todo[r])[2]
     IN  /\ define' = [define EXCEPT ![r] = x \in {"created", "define"}
                                            \/ (x = "closed" /\ @)]
         /\ named' = [named EXCEPT ![r] = x # "closed"]
  /\ Continue(r, <<>>)
  /\ UNCHANGED <<stat, state, answer, starts, delayed, network, library>>

(* NCFile::redef() and enddef(): a call only if the mode changes.           *)
ChangeMode(r) ==
  /\ At(r, "redef") \/ At(r, "enddef")
  /\ Continue(r, CASE Head(todo[r])[1] = "redef" /\ ~define[r] -> RedefImpl
                   [] Head(todo[r])[1] = "enddef" /\ define[r] -> EnddefImpl
                   [] OTHER -> <<>>)
  /\ UNCHANGED <<stat, rankState, network, library>>

(* if (exists) ..., if (not exists) ..., and the text of an attribute.      *)
Branch(r) ==
  \/ /\ At(r, "if")
     /\ Continue(r, IF answer[r] # 0 THEN Head(todo[r])[2] ELSE <<>>)
     /\ UNCHANGED <<stat, rankState, network, library>>
  \/ /\ At(r, "unless")
     /\ Continue(r, IF answer[r] = 0 THEN Head(todo[r])[2] ELSE <<>>)
     /\ UNCHANGED <<stat, rankState, network, library>>
  \/ /\ At(r, "textifread")
     /\ Continue(r, IF stat[r] = 0 THEN <<Bcast("text")>> ELSE <<>>)
     /\ stat' = [stat EXCEPT ![r] = 0]
     /\ UNCHANGED <<rankState, network, library>>

(* A record number is computed from the length of the time dimension.       *)
Compute(r) ==
  /\ At(r, "let")
  /\ LET x == Head(todo[r])[2]
         n == Head(todo[r])[3]
     IN  starts' = [starts EXCEPT ![r][x] = IF answer[r] < n THEN 0 ELSE answer[r] - n]
  /\ Continue(r, <<>>)
  /\ UNCHANGED <<stat, state, answer, define, named, delayed, network, library>>

(* put_1d_var().                                                            *)
Delay(r) ==
  /\ At(r, "delay")
  /\ LET op == <<Head(todo[r])[2], starts[r][Head(todo[r])[3]]>>
     IN  delayed' = [delayed EXCEPT ![r] = Append(@, op)]
  /\ Continue(r, <<>>)
  /\ UNCHANGED <<stat, state, answer, starts, define, named, network, library>>

(* execute_ops().                                                           *)
Execute(r) ==
  \/ /\ At(r, "flush")
     /\ Continue(r,
          IF delayed[r] = <<>> THEN <<>>
          ELSE LET op == Head(delayed[r])
               IN  <<<<"enddef">>>> \o PutVar(op[1], op[2])
                   \o <<<<"pop">>, <<"flush">>>>)
     /\ UNCHANGED <<stat, rankState, network, library>>
  \/ /\ At(r, "pop")
     /\ delayed' = [delayed EXCEPT ![r] = Tail(@)]
     /\ Continue(r, <<>>)
     /\ UNCHANGED <<stat, state, answer, starts, define, named, network, library>>

(* put_vara_double(), get_vara_double().                                    *)
Transfer(r) ==
  /\ At(r, "write") \/ At(r, "fetch")
  /\ LET op == Head(todo[r])
     IN  Continue(r, IF op[1] = "fetch" THEN GetVar(op[2])
                     ELSE PutVar(op[2], starts[r][op[3]]))
  /\ UNCHANGED <<stat, rankState, network, library>>

(* Messages: a request (with the array, when it is put) to processor 0, and *)
(* its answer (when it is got).                                             *)
Send(r) ==
  /\ r # 0 /\ At(r, "send")
  /\ chan' = [chan EXCEPT ![r] = Append(@, puts[r])]
  /\ Continue(r, <<>>)
  /\ UNCHANGED <<stat, rankState, slots, inside, puts, back, library>>

Receive ==
  /\ At(0, "receive")
  /\ LET q == Head(todo[0])[2]
     IN  \/ q = 0 /\ UNCHANGED <<chan, back>>
         \/ /\ q # 0 /\ chan[q] # <<>>
            /\ back' = [back EXCEPT ![0] = Head(chan[q])]
            /\ chan' = [chan EXCEPT ![q] = Tail(@)]
  /\ Continue(0, <<>>)
  /\ UNCHANGED <<stat, rankState, slots, inside, puts, library>>

Reply ==
  /\ At(0, "reply")
  /\ LET q == Head(todo[0])[2]
     IN  back' = IF q = 0 THEN back ELSE [back EXCEPT ![q] = @ + 1]
  /\ Continue(0, <<>>)
  /\ UNCHANGED <<stat, rankState, slots, inside, puts, chan, library>>

Await(r) ==
  /\ r # 0 /\ At(r, "await")
  /\ back[r] > 0
  /\ back' = [back EXCEPT ![r] = @ - 1]
  /\ Continue(r, <<>>)
  /\ UNCHANGED <<stat, rankState, slots, inside, puts, chan, library>>

Count(r) ==
  /\ At(r, "count")
  /\ puts' = [puts EXCEPT ![r] = @ + 1]
  /\ Continue(r, <<>>)
  /\ UNCHANGED <<stat, rankState, slots, inside, chan, back, library>>

(* The next of the functions of IceModel that use files.                    *)
StartSession(r) ==
  /\ At(r, "session")
  /\ Continue(r, Session(Head(todo[r])[2]))
  /\ UNCHANGED <<stat, rankState, network, library>>

(* The end of the program, or of the destructor.                            *)
Finish(r) ==
  /\ state[r] \in {"running", "unwinding"} /\ todo[r] = <<>> /\ ~alone
  /\ state' = [state EXCEPT ![r] = IF @ = "running" THEN "done" ELSE "failed"]
  /\ dataset' = IF state[r] = "unwinding" THEN Destroyed(r) ELSE dataset
  /\ UNCHANGED <<todo, stat, answer, starts, define, named, delayed, network,
                 written, faults, alone>>

RankStep(r) ==
  \/ CheckEverywhere(r) \/ Enter(r) \/ Leave(r) \/ Remember(r)
  \/ ChangeMode(r) \/ Branch(r) \/ Compute(r) \/ Delay(r) \/ Execute(r)
  \/ Transfer(r) \/ Skip(r) \/ Send(r) \/ Await(r) \/ Count(r)
  \/ StartSession(r) \/ Finish(r)

RootStep == LibraryCall \/ CheckedCall \/ LookUp \/ Receive \/ Reply

FilesNext == RootStep \/ \E r \in Ranks : RankStep(r)

FilesSpec ==
  /\ FilesInit /\ [][FilesNext]_filesVars
  /\ WF_filesVars(RootStep) /\ \A r \in Ranks : WF_filesVars(RankStep(r))

-----------------------------------------------------------------------------
Ended == \A r \in Ranks : state[r] \in {"failed", "done"}

(* The n-th collective operation of one processor is the n-th of every      *)
(* other, whatever fails and whichever way the files are used: the messages *)
(* of two operations are never mixed up.                                    *)
InStep == ~alone => \A n \in 1..Len(slots) : \E c \in slots[n].calls : slots[n].calls = {c}

(* The library refuses nothing that the code asks of it: definitions come   *)
(* in define mode, data in data mode, variables are defined once and before *)
(* they are used (m_define_mode, redef() and enddef() calls, inq_var()      *)
(* before every definition).                                                *)
NeverMisused == alone => faults > 0

(* A failure that is reported to all processors stops all of them: none     *)
(* gets to the end of what another has given up.                            *)
OutcomeAgreed ==
  ~alone => \A r, q \in Ranks :
              state[r] \in {"unwinding", "failed"} => state[q] # "done"

(* The records of the file that hold variable v.                            *)
Records(v) == {w.at : w \in {x \in written : x.var = v}}

(* The times of records are delayed writes, fields are not, and still a     *)
(* field is never in a record whose time has not been written.              *)
FieldsHaveTimes == Records("thk") \subseteq Records("time")

(* Once the file is closed, a record has its time, its field and, in files  *)
(* that have them, its bounds and time stamp.                               *)
RecordsAligned ==
  (\A r \in Ranks : state[r] = "done") =>
    /\ Records("time") = Records("thk")
    /\ Records("bounds") # {} => Records("bounds") = Records("time")
    /\ Records("stamp") # {} => Records("stamp") = Records("time")

(* Every array in the file is complete: its part of every processor is      *)
(* there, and was sent for this array and no other.                         *)
ArraysComplete ==
  /\ \A w \in written : w.sent = w.put
  /\ \A w \in written : w.put < puts[0] =>
       \A q \in Ranks : \E x \in written : x.put = w.put /\ x.from = q

(* io_helpers.cc: at any moment the fields in a file have the times of      *)
(* their records and arrays come in complete; a closed file has all of it.  *)
RecordsComplete == FieldsHaveTimes /\ RecordsAligned /\ ArraysComplete

(* Nothing stays open or delayed: a file is closed when the function that   *)
(* opened it is left, by an exception too (PIO::~PIO(), ~NC3File()).        *)
FilesClosed ==
  Ended /\ ~alone => ~dataset.open /\ \A r \in Ranks : delayed[r] = <<>>

(* All processors get to the end, unless processor 0 threw alone.           *)
FilesEnd == <>(Ended \/ alone)
=============================================================================
