---------------------------- MODULE SimulationRun ----------------------------
(***************************************************************************)
(* The time loop of MeltPoolApplication::run() over the jobs of one        *)
(* simulation: heat-up control of the step size, laser clock, the clock of *)
(* the flow solver, written results, restart data in simulation time, a    *)
(* solver that fails, a job that is killed, and the next job that loads    *)
(* the newest restart data.  The fields are abstracted to "hotter than the *)
(* heat-up temperature or not"; saving is one step (RestartRing models the *)
(* files).                                                                 *)
(***************************************************************************)
EXTENDS TimeIterator, Sequences

CONSTANTS
  HeatUpDt,         (* "mp heat up: time step size", 0: no heat-up control  *)
  Factor,           (* "max change factor time step size"                   *)
  WriteFrequency,   (* "output: write frequency"                            *)
  WriteTimeStep,    (* "output: write time step size"; OutputData::post()   *)
                    (* lets one of the two rules, here both may be in force *)
  SaveTimeStep,     (* "restart: write time step size", simulation time     *)
  MaxJobs,          (* bound on the jobs of one simulation                  *)
  NoFile,           (* no file of this name                                 *)
  CutFile,          (* a file whose writing has begun and not ended         *)
  NoSnapshot

ASSUME RunAssumption ==
  /\ HeatUpDt \in Nat
  /\ {Factor, WriteFrequency} \subseteq Nat \ {0}
  /\ {WriteTimeStep, SaveTimeStep} \subseteq Nat
  (* OutputData::post() and RestartData::check_input_parameters()           *)
  /\ WriteTimeStep >= TimeStepSize
  /\ SaveTimeStep >= TimeStepSize
  /\ MaxJobs \in Nat \ {0}
  /\ {NoFile, CutFile} \cap Nat = {}
  /\ NoFile # CutFile

Steps == 0 .. MaxNSteps
Records == Seq([t : Times, n : Steps])

(* Restart data is written at the end of a step.                           *)
Saved == [ti : [n : 1 .. MaxNSteps, t : Times, oldT : Times, oldDt : Nat],
          list : Records, lastOut : Times, hot : BOOLEAN]

ASSUME SnapshotAssumption == NoSnapshot \notin Saved

VARIABLES
  ti,        (* *time_iterator                                              *)
  hot,       (* T_max > max_temperature                                     *)
  heated,    (* heat_up_finished, local to run()                            *)
  laser,     (* LaserOperation::current_time; its position follows it       *)
  adaflo,    (* NavierStokes::time_stepping: step number, time, time        *)
             (* before, and the sizes of its last step and the one before   *)
  list,      (* vector_times_and_names of rank 0: <<[t, n], ...>>           *)
  others,    (* vector_times_and_names of the other ranks                   *)
  lastOut,   (* time_at_last_output                                         *)
  lastSaved, (* RestartMonitor::last_written_time                           *)
  vtu,       (* output directory: step number -> time of the data in the    *)
             (* step's file                                                 *)
  pvd,       (* output directory: the records of the .pvd file              *)
  snap,      (* the newest restart data                                     *)
  pc,        (* where run() is                                              *)
  back,      (* where run() goes on after the output under way              *)
  jobs,      (* jobs started so far                                         *)
  since,     (* history: step from which this output directory is written   *)
  torn       (* history: steps whose output has been begun since the .pvd   *)
             (* file was last written to its end                            *)

vars == <<ti, hot, heated, laser, adaflo, list, others, lastOut, lastSaved, vtu,
          pvd, snap, pc, back, jobs, since, torn>>
output == <<list, others, lastOut, vtu, pvd, since, torn>>

-----------------------------------------------------------------------------
(* adaflo's clock, as the wrapper uses it: restart(), and next() after     *)
(* set_time_step(step).                                                    *)
AdafloStart ==
  [n |-> 0, now |-> StartTime, previous |-> StartTime, step |-> 0, old |-> 0]

AdafloNext(a, step) ==
  [n |-> a.n + 1, now |-> a.now + step, previous |-> a.now, step |-> step, old |-> a.step]

(* Steps of size 0 up to step n.                                           *)
EmptySteps(a, n) ==
  [n |-> n, now |-> a.now, previous |-> a.now, step |-> 0, old |-> 0]

(* Mutated: the empty steps are counted up to n - 1.                       *)
SynchronizeOneTooFar(a, it) ==
  LET restarted == it.n <= a.n \/ a.previous = it.oldT
      a0   == IF restarted THEN AdafloStart ELSE a
      a1   == IF it.n - a0.n > 2 THEN EmptySteps(a0, it.n - 1) ELSE a0
      a2   == IF it.n - a0.n > 1 THEN AdafloNext(a1, it.oldT - a1.now) ELSE a1
  IN AdafloNext(a2, it.t - a2.now)

(* Mutated: one step to the current time, none to the old one.             *)
SynchronizeInOneStep(a, it) ==
  LET restarted == it.n <= a.n \/ a.previous = it.oldT
      a0   == IF restarted THEN AdafloStart ELSE a
      a1   == IF it.n - a0.n > 1 THEN EmptySteps(a0, it.n - 1) ELSE a0
  IN AdafloNext(a1, it.t - a1.now)

(* synchronize_time_stepping(): empty steps up to n - 2, one to the old    *)
(* time and one to the current time.                                       *)
Synchronize(a, it) ==
  LET restarted == it.n <= a.n \/ a.previous = it.oldT
      a0   == IF restarted THEN AdafloStart ELSE a
      a1   == IF it.n - a0.n > 2 THEN EmptySteps(a0, it.n - 2) ELSE a0
      a2   == IF it.n - a0.n > 1 THEN AdafloNext(a1, it.oldT - a1.now) ELSE a1
  IN AdafloNext(a2, it.t - a2.now)

-----------------------------------------------------------------------------
(* initialize(): a new process, before run() has loaded anything.          *)
InitialTimeIterator ==
  IF HeatUpDt > 0 THEN SetCurrentTimeIncrement(Reset, HeatUpDt, 1) ELSE Reset

Init ==
  /\ ti = InitialTimeIterator
  /\ hot = FALSE
  /\ heated = FALSE
  /\ laser = StartTime
  /\ adaflo = AdafloStart
  /\ list = <<>> /\ others = <<>>
  /\ lastOut = StartTime
  /\ lastSaved = StartTime
  /\ vtu = [n \in Steps |-> NoFile]
  /\ pvd = <<>>
  /\ snap = NoSnapshot
  /\ pc = "output initial"
  /\ back = "loop"
  /\ jobs = 1
  /\ since = 0
  /\ torn = {}

-----------------------------------------------------------------------------
(* is_output_timestep()                                                    *)
IsOutputTimestep ==
  \/ ti.n = 0
  \/ ti.t - lastOut >= WriteTimeStep
  \/ ti.n % WriteFrequency = 0

(* The file of this step is appended unless the last record has its time   *)
(* or its name.                                                            *)
Recorded(l) ==
  IF l # <<>> /\ (l[Len(l)].t = ti.t \/ l[Len(l)].n = ti.n)
    THEN l
    ELSE Append(l, [t |-> ti.t, n |-> ti.n])

(* Mutated: records of files in another directory stay.                    *)
CleanNothing(l, dir) == l

(* clean_pvd(): records without a file in the output directory go (of the  *)
(* first k records kept[k] stays: SelectSeq() in a form that is proved     *)
(* about).                                                                 *)
CleanPvd(l, dir) ==
  LET kept[k \in 0 .. Len(l)] ==
        IF k = 0 THEN <<>>
        ELSE IF dir[l[k].n] # NoFile THEN Append(kept[k - 1], l[k]) ELSE kept[k - 1]
  IN kept[Len(l)]

(* process(): when the output is due, the step's file is opened and run()  *)
(* goes on at next when all is written.                                    *)
Process(force, next) ==
  \/ /\ IsOutputTimestep \/ force
     /\ vtu' = [vtu EXCEPT ![ti.n] = CutFile]
     /\ torn' = torn \cup {ti.n}
     /\ pc' = "vtu"
     /\ back' = next
     /\ UNCHANGED <<list, others, lastOut, pvd, since>>
  \/ /\ ~(IsOutputTimestep \/ force)
     /\ pc' = next
     /\ UNCHANGED <<output, back>>

(* The results of the initial or of the loaded state.                      *)
OutputInitial ==
  /\ pc = "output initial"
  /\ Process(FALSE, "loop")
  /\ heated' = FALSE
  /\ UNCHANGED <<ti, hot, laser, adaflo, lastSaved, snap, jobs>>

(* write_paraview_files(), the fields of all ranks.                        *)
WriteVtu ==
  /\ pc = "vtu"
  /\ vtu' = [vtu EXCEPT ![ti.n] = ti.t]
  /\ pc' = "pvd"
  /\ UNCHANGED <<ti, hot, heated, laser, adaflo, list, others, lastOut, lastSaved, pvd,
                 snap, back, jobs, since, torn>>

(* Every rank records the step.  Rank 0 cleans its records, opens the .pvd *)
(* file, which empties it, and has written a part of it.                   *)
WritePvd ==
  /\ pc = "pvd"
  /\ list' = CleanPvd(Recorded(list), vtu)
  /\ others' = Recorded(others)
  /\ \E k \in 0 .. Len(list') : pvd' = SubSeq(list', 1, k)
  /\ pc' = "close"
  /\ UNCHANGED <<ti, hot, heated, laser, adaflo, lastOut, lastSaved, vtu, snap, back,
                 jobs, since, torn>>

(* The .pvd file is complete; the end of process().                        *)
ClosePvd ==
  /\ pc = "close"
  /\ pvd' = list
  /\ torn' = {}
  /\ lastOut' = ti.t
  /\ pc' = back
  /\ UNCHANGED <<ti, hot, heated, laser, adaflo, list, others, lastSaved, vtu, snap, back,
                 jobs, since>>

-----------------------------------------------------------------------------
(* heat_up_modify_time_step()                                              *)
HeatUpControls == HeatUpDt > 0 /\ ~heated /\ hot

HeatUpModified ==
  IF HeatUpControls THEN SetCurrentTimeIncrement(ti, TimeStepSize, Factor) ELSE ti

(* The head of the loop up to the solvers: step size, laser, flow clock.   *)
Advance ==
  /\ pc = "loop"
  /\ ~IsFinished(ti)
  /\ heated' = (heated \/ (HeatUpControls /\ HeatUpModified.dt = TimeStepSize))
  /\ ti' = ComputeNextTimeIncrement(HeatUpModified)
  /\ laser' = laser + ti'.dt
  /\ adaflo' = AdafloNext(adaflo, ti'.dt)
  /\ pc' = "solve"
  /\ UNCHANGED <<hot, output, lastSaved, snap, back, jobs>>

(* The coupled solvers converge; the new temperature is not predicted.     *)
Solve ==
  /\ pc = "solve"
  /\ hot' \in BOOLEAN
  /\ pc' = "output"
  /\ UNCHANGED <<ti, heated, laser, adaflo, output, lastSaved, snap, back, jobs>>

(* One of them throws: finalize() forces the output of the failed step and *)
(* the exception ends the job.                                             *)
SolveFails ==
  /\ pc = "solve"
  /\ Process(TRUE, "down")
  /\ UNCHANGED <<ti, hot, heated, laser, adaflo, lastSaved, snap, jobs>>

Output ==
  /\ pc = "output"
  /\ Process(FALSE, "save")
  /\ UNCHANGED <<ti, hot, heated, laser, adaflo, lastSaved, snap, jobs>>

(* What save() archives and what the loaded vectors determine; all ranks   *)
(* write the same archive, with the records of any of them.                *)
Snapshots ==
  {[ti |-> Archived(ti), list |-> l, lastOut |-> lastOut, hot |-> hot] : l \in {list, others}}

(* Mutated: do_save() remembers every time it was asked at.                *)
SaveForgetful ==
  /\ pc = "save"
  /\ lastSaved' = ti.t
  /\ IF ti.t - lastSaved >= SaveTimeStep THEN snap' \in Snapshots ELSE UNCHANGED snap
  /\ pc' = "loop"
  /\ UNCHANGED <<ti, hot, heated, laser, adaflo, output, back, jobs>>

(* do_save() in simulation time, and save().                               *)
Save ==
  /\ pc = "save"
  /\ IF ti.t - lastSaved >= SaveTimeStep
       THEN lastSaved' = ti.t /\ snap' \in Snapshots
       ELSE UNCHANGED <<lastSaved, snap>>
  /\ pc' = "loop"
  /\ UNCHANGED <<ti, hot, heated, laser, adaflo, output, back, jobs>>

Finish ==
  /\ pc = "loop"
  /\ IsFinished(ti)
  /\ pc' = "done"
  /\ UNCHANGED <<ti, hot, heated, laser, adaflo, output, lastSaved, snap, back, jobs>>

-----------------------------------------------------------------------------
Crash ==
  /\ pc \notin {"down", "done"}
  /\ pc' = "down"
  /\ UNCHANGED <<ti, hot, heated, laser, adaflo, output, lastSaved, snap, back, jobs>>

(* Another job, in the same output directory or in a new, empty one.       *)
Directory(first) ==
  \/ UNCHANGED <<vtu, pvd, since, torn>>
  \/ vtu' = [n \in Steps |-> NoFile] /\ pvd' = <<>> /\ since' = first /\ torn' = {}

NewProcess ==
  /\ pc = "down"
  /\ jobs < MaxJobs
  /\ jobs' = jobs + 1
  /\ heated' = FALSE
  /\ laser' = StartTime
  /\ lastSaved' = StartTime
  /\ pc' = "output initial"
  /\ back' = "loop"

(* "load" = -1, as long as there is nothing to load.                       *)
RestartFresh ==
  /\ NewProcess
  /\ snap = NoSnapshot
  /\ ti' = InitialTimeIterator
  /\ hot' = FALSE
  /\ adaflo' = AdafloStart
  /\ list' = <<>> /\ others' = list'
  /\ lastOut' = StartTime
  /\ Directory(0)
  /\ UNCHANGED snap

(* Mutated: the output records are not archived.                           *)
RestartLoadNoRecords ==
  /\ NewProcess
  /\ snap # NoSnapshot
  /\ ti' = LoadArchived(InitialTimeIterator, snap.ti)
  /\ hot' = snap.hot
  /\ adaflo' = Synchronize(AdafloStart, ti')
  /\ list' = <<>> /\ others' = list'
  /\ lastOut' = snap.lastOut
  /\ Directory(snap.ti.n)
  /\ UNCHANGED snap

(* initialize() and load(): the archive, the vectors, and then adaflo's    *)
(* clock; the restart clock was read before.                               *)
RestartLoad ==
  /\ NewProcess
  /\ snap # NoSnapshot
  /\ ti' = LoadArchived(InitialTimeIterator, snap.ti)
  /\ hot' = snap.hot
  /\ adaflo' = Synchronize(AdafloStart, ti')
  /\ list' = snap.list /\ others' = list'
  /\ lastOut' = snap.lastOut
  /\ Directory(snap.ti.n)
  /\ UNCHANGED snap

JobStep ==
  \/ OutputInitial \/ WriteVtu \/ WritePvd \/ ClosePvd
  \/ Advance \/ Solve \/ Output \/ Save \/ Finish

Next ==
  \/ OutputInitial
  \/ WriteVtu
  \/ WritePvd
  \/ ClosePvd
  \/ Advance
  \/ Solve
  \/ SolveFails
  \/ Output
  \/ Save
  \/ Finish
  \/ Crash
  \/ RestartFresh
  \/ RestartLoad

Spec == Init /\ [][Next]_vars

(* A process that is not killed keeps running; nobody has to submit the    *)
(* next job.                                                               *)
FairSpec == Spec /\ WF_vars(JobStep)

-----------------------------------------------------------------------------
(* Types; the step number counts up to max_n_steps and time stays within   *)
(* start and end time, whatever increments were asked for.                 *)
TypeOK ==
  /\ ti \in TimeIterators
  /\ hot \in BOOLEAN /\ heated \in BOOLEAN
  /\ laser \in Nat
  /\ adaflo \in [n : Nat, now : Nat, previous : Nat, step : Int, old : Int]
  /\ list \in Records /\ others \in Records /\ pvd \in Records
  /\ lastOut \in Times /\ lastSaved \in Times
  /\ vtu \in [Steps -> Times \cup {NoFile, CutFile}]
  /\ snap \in Saved \cup {NoSnapshot}
  /\ pc \in {"output initial", "vtu", "pvd", "close", "loop", "solve", "output", "save",
             "done", "down"}
  /\ back \in {"loop", "save", "down"}
  /\ jobs \in 1 .. MaxJobs
  /\ since \in Steps
  /\ torn \subseteq Steps

(* Every record of the .pvd file names a file of this directory that holds *)
(* the data of the recorded time, but for the steps whose output was begun *)
(* after the file was last written: a job killed there leaves the new data *)
(* of a step, or a part of it, under an old record.  From the next output  *)
(* that is completed on all records are true again, also after steps were  *)
(* computed again with other sizes over the files of killed jobs, after a  *)
(* move to another directory, and whichever rank archived its records,     *)
(* cleaned or not (postprocessor.cpp, write_paraview_files(), clean_pvd()).*)
(* The records are in strict order of time and step in any case.           *)
PvdTellsTheTruth ==
  /\ \A i \in 1 .. Len(pvd) : pvd[i].n \notin torn => vtu[pvd[i].n] = pvd[i].t
  /\ \A i \in 1 .. Len(pvd) - 1 : pvd[i].n < pvd[i + 1].n /\ pvd[i].t < pvd[i + 1].t

(* l has every step since the directory is in use that the write frequency *)
(* asks for, and a last record that is less than one write time step old.  *)
Covers(l) ==
  /\ \A n \in since .. ti.n : n % WriteFrequency = 0 => \E i \in 1 .. Len(l) : l[i].n = n
  /\ l # <<>> => ti.t - l[Len(l)].t < WriteTimeStep

(* No output is lost by a restart: whenever a step is about to begin, the  *)
(* records lack no output that was due, and nor does the .pvd file, unless *)
(* a killed job left its writing unfinished and no output has been due     *)
(* since (is_output_timestep(), serialize() of the post-processor).        *)
NoOutputLost ==
  pc = "loop" => list # <<>> /\ Covers(list) /\ (torn = {} => Covers(pvd))

(* The state a killed job falls back to is less than one save interval     *)
(* old when a step begins (do_save(); the restart clock is not archived).  *)
LossBounded ==
  pc = "loop" =>
    ti.t - (IF snap = NoSnapshot THEN StartTime ELSE snap.ti.t) < SaveTimeStep

(* adaflo and MeltPoolDG agree on step number, time, old time and step     *)
(* size whenever the flow is solved, also after restarts: four of the five *)
(* comparisons of time_stepping_synchronized(), which                      *)
(* AdafloWrapper::init_time_advance() asserts.  The fifth, old_step_size() *)
(* against old_time_increment, depends on adaflo's own class, which is not *)
(* in this repository, and is not stated.                                  *)
AdafloAligned ==
  pc = "solve" =>
    /\ adaflo.n = ti.n
    /\ adaflo.now = ti.t
    /\ adaflo.previous = ti.oldT
    /\ adaflo.step = ti.dt

(* What a step of a BDF scheme needs of the one before: the step that      *)
(* adaflo took last, before it begins one, has the size of the run's own   *)
(* last step, also in the first step after a restart, where                *)
(* synchronize_time_stepping() has to take it again.                       *)
AdafloKeepsOldStep ==
  [][pc = "loop" /\ pc' = "solve" => adaflo'.old = ti.t - ti.oldT]_vars

(* A job that is not killed reaches the end time, with the steps the       *)
(* parameters allow (heat-up control never shrinks the step to nothing).   *)
JobReachesEnd ==
  [](pc # "down" => <>(pc = "down" \/ (pc = "done" /\ ti.t = EndTime)))

(* The laser is where the end of the current step puts it                  *)
(* (laser_operation.hpp: "Compute the time-dependent laser intensity ...   *)
(* from the user-provided parameters").                                    *)
LaserOnTime == pc = "solve" => laser = ti.t
=============================================================================
