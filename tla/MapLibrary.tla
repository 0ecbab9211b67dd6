----------------------------- MODULE MapLibrary -----------------------------
(* One entry of the saved-map library (src/scripts/maps_lib.py, maps.sh)    *)
(* and the console's "Save & finish" (src/webui/session.py).  A save is a   *)
(* process that may die between any two of its steps; the stack of nodes it *)
(* saves from comes up and goes down under it.  A file is what it holds: a  *)
(* version of the map, whole, partly written, or a git-lfs pointer.         *)
(*                                                                          *)
(* Idealised (README): one save, removal or git-lfs pull of an entry at a   *)
(* time, and a stop that does not time out.                                 *)
EXTENDS Naturals

CONSTANTS
  Robots, Primary,  \* the robots of the entry, and the one whose database is loaded
  MaxVersion,       \* bound: versions of the map and its databases
  MaxRuns,          \* bound: runs
  MaxEvents         \* bound: saves by hand, kills, full disks, and files lost

ASSUME LibraryAssumption == Primary \in Robots /\ MaxVersion \in Nat \ {0}
                            /\ MaxRuns \in Nat \ {0} /\ MaxEvents \in Nat

VARIABLES
  run,     \* the stack: n-th run, its nodes, what it does and which database it has open
  live,    \* ~/.ros/sortbots_<rid>.db, the working databases (0: none)
  latest,  \* versions made so far
  man,     \* map.json
  grid,    \* grid.pgm and grid.yaml (0: none)
  file,    \* map.db and map_<rid>.db
  staged,  \* their .tmp
  vac,     \* and .tmp.vac
  saver,   \* maps.sh save, where it is
  fin,     \* session["finish"] and its thread
  events

worldVars == <<run, live, latest>>
libVars == <<man, grid, file, staged, vac>>
vars == <<worldVars, libVars, saver, fin, events>>

Versions == 0..MaxVersion
File == [is : {"none", "pointer", "part", "whole"}, ver : Versions]
Nothing == [is |-> "none", ver |-> 0]
Part(v) == [is |-> "part", ver |-> v]
Whole(v) == [is |-> "whole", ver |-> v]

\* dbs[rid]: its state, and its sha256 as the version it was taken of.
Entry == [st : {"none", "complete", "missing", "pointer"}, ver : Versions]
NoEntry == [st |-> "none", ver |-> 0]
Manifest == [there : BOOLEAN, grid : Versions, dbs : [Robots -> Entry]]
NoMap == [there |-> FALSE, grid |-> 0, dbs |-> [r \in Robots |-> NoEntry]]

Copying == {"fill", "vacuum", "vacuumed", "publish", "entry"}
Saving == {"init", "look", "grid", "addgrid", "backup", "copy"} \union Copying
Savers == [pc : {"idle"} \union Saving, rid : Robots, by : {"hand", "finish", "nobody"},
           running : BOOLEAN, src : Versions, man : Manifest]
Idle == [pc |-> "idle", rid |-> Primary, by |-> "nobody", running |-> FALSE, src |-> 0,
         man |-> NoMap]
Steps == {"none", "grid", "stopping", "stopped", "pose graph", "done", "failed"}
Finishing == {"grid", "stopping", "stopped", "pose graph"}
Ended(step) == [step |-> step, rc |-> "none", run |-> 0, since |-> 0, waypoints |-> FALSE]
Runs == [n : 0..MaxRuns, nodes : {"up", "odometry", "down"}, mode : {"mapping", "localize"},
         open : {"working", "loaded"}]

TypeOK == /\ run \in Runs /\ live \in [Robots -> Versions] /\ latest \in Versions
          /\ man \in Manifest /\ grid \in Versions
          /\ file \in [Robots -> File] /\ staged \in [Robots -> File] /\ vac \in [Robots -> File]
          /\ saver \in Savers
          /\ fin \in [step : Steps, rc : {"none", "ok", "failed"}, run : 0..MaxRuns, since : Versions,
                      waypoints : BOOLEAN]
          /\ events \in 0..MaxEvents

\* No entry yet, or one that was saved in an earlier session.
Init == /\ run = [n |-> 0, nodes |-> "down", mode |-> "mapping", open |-> "working"]
        /\ \E v \in {0, 1} :
             LET db == IF v = 0 THEN Nothing ELSE Whole(v)
                 st == IF v = 0 THEN "none" ELSE "complete" IN
             /\ live = [r \in Robots |-> v] /\ latest = v /\ grid = v
             /\ file = [r \in Robots |-> db]
             /\ man = [there |-> v = 1, grid |-> v,
                       dbs |-> [r \in Robots |-> [st |-> st, ver |-> v]]]
        /\ staged = [r \in Robots |-> Nothing] /\ vac = [r \in Robots |-> Nothing]
        /\ saver = Idle
        /\ fin = Ended("none")
        /\ events = 0

Event == events < MaxEvents /\ events' = events + 1

-----------------------------------------------------------------------------
(* The manifest against the disk.                                           *)

\* Only an entry that says "complete" is looked at again.
Reconciled(e, f) ==
  IF e.st # "complete" THEN e
  ELSE [e EXCEPT !.st = IF f.is = "none" THEN "missing"
                        ELSE IF f.is = "pointer" THEN "pointer" ELSE "complete"]
ReadManifest == [man EXCEPT !.dbs = [r \in Robots |-> Reconciled(man.dbs[r], file[r])]]
\* Mutant: a save starts the entry anew.
InitAnew == [NoMap EXCEPT !.there = TRUE]
LoadOrInit == [ReadManifest EXCEPT !.there = TRUE]

States(m) == {m.dbs[r].st : r \in Robots} \ {"none"}
Rollup(m) == IF States(m) = {} THEN "pending"
             ELSE IF "missing" \in States(m) THEN "missing"
             ELSE IF "pointer" \in States(m) THEN "pointer" ELSE "complete"

-----------------------------------------------------------------------------
(* maps.sh save.                                                            *)

Goes(pc) == saver' = [saver EXCEPT !.pc = pc]

\* The exit status reaches the finish that started the save, if it still waits.
Exits(rc) == /\ saver' = Idle
             /\ fin' = IF saver.by = "finish" THEN [fin EXCEPT !.rc = rc] ELSE fin

SaveBy(who, r) == saver' = [Idle EXCEPT !.pc = "init", !.rid = r, !.by = who]

\* maps_lib.py init.
InitEntry == /\ saver.pc = "init"
             /\ man' = LoadOrInit /\ Goes("look")
             /\ UNCHANGED <<worldVars, grid, file, staged, vac, fin, events>>

\* Mutant: a complete entry is not copied again.
LookSkips == /\ saver.pc = "look"
             /\ IF run.nodes # "down" THEN Goes("grid") /\ UNCHANGED fin
                ELSE IF Rollup(ReadManifest) = "complete" THEN Exits("ok")
                ELSE \/ (grid # 0 \/ saver.by = "hand") /\ Goes("copy") /\ UNCHANGED fin
                     \/ grid = 0 /\ Exits("failed")
             /\ UNCHANGED <<worldVars, libVars, events>>
\* stack_running also counts rgbd_odometry, which a stop may leave behind.  Only a
\* person passes --force.
Look == /\ saver.pc = "look"
        /\ IF run.nodes # "down" THEN Goes("grid") /\ UNCHANGED fin
           ELSE \/ (grid # 0 \/ saver.by = "hand") /\ Goes("copy") /\ UNCHANGED fin
                \/ grid = 0 /\ Exits("failed")
        /\ UNCHANGED <<worldVars, libVars, events>>

\* map_saver_cli on /map, which only the whole stack publishes.
SaveGrid == /\ saver.pc = "grid"
            /\ \/ run.nodes = "up" /\ grid' = latest /\ Goes("addgrid") /\ UNCHANGED fin
               \/ Exits("failed") /\ UNCHANGED grid
            /\ UNCHANGED <<worldVars, man, file, staged, vac, events>>

\* maps_lib.py add-grid; with --no-live-db that is all.
AddGrid == /\ saver.pc = "addgrid"
           /\ man' = [LoadOrInit EXCEPT !.grid = grid]
           /\ \/ Goes("backup") /\ UNCHANGED fin
              \/ saver.by = "hand" /\ Exits("ok")
           /\ UNCHANGED <<worldVars, grid, file, staged, vac, events>>

\* The backup service closes the database RTAB-Map has open and copies it beside
\* itself; save_db_live waits for the copy of the working one.  Without it the pose
\* graph stays as it was, and that is no failure (|| true).
Backup == /\ saver.pc = "backup"
          /\ \/ /\ run.nodes = "up" /\ run.open = "working" /\ live[saver.rid] # 0
                /\ saver' = [saver EXCEPT !.pc = "copy", !.running = TRUE, !.src = live[saver.rid]]
                /\ UNCHANGED fin
             \/ Exits("ok")
          /\ UNCHANGED <<worldVars, libVars, events>>

\* maps_lib.py add-db: the manifest is read, leftovers are removed, and the copy goes
\* to a name of its own.
Source == IF saver.running THEN saver.src ELSE live[saver.rid]
\* Mutant: the copy goes straight to its final name.
CopyInPlace ==
  LET r == saver.rid IN
  /\ saver.pc = "copy"
  /\ IF Source = 0 THEN Exits("failed") /\ UNCHANGED <<file, staged, vac>>
     ELSE /\ saver' = [saver EXCEPT !.pc = "fill", !.src = Source, !.man = LoadOrInit]
          /\ file' = [file EXCEPT ![r] = Part(Source)]
          /\ UNCHANGED <<staged, vac, fin>>
  /\ UNCHANGED <<worldVars, man, grid, events>>
CopyDb ==
  LET r == saver.rid IN
  /\ saver.pc = "copy"
  /\ IF Source = 0 THEN Exits("failed") /\ UNCHANGED <<staged, vac>>
     ELSE /\ saver' = [saver EXCEPT !.pc = "fill", !.src = Source, !.man = LoadOrInit]
          /\ staged' = [staged EXCEPT ![r] = Part(Source)]
          /\ vac' = [vac EXCEPT ![r] = Nothing]
          /\ UNCHANGED fin
  /\ UNCHANGED <<worldVars, man, grid, file, events>>

Fill == /\ saver.pc = "fill"
        /\ staged' = [staged EXCEPT ![saver.rid] = Whole(saver.src)]
        /\ \E pc \in {"vacuum", "publish"} : Goes(pc)
        /\ UNCHANGED <<worldVars, man, grid, file, vac, fin, events>>

Vacuum == LET r == saver.rid IN
          /\ \/ /\ saver.pc = "vacuum" /\ Goes("vacuumed")
                /\ vac' = [vac EXCEPT ![r] = Part(saver.src)] /\ UNCHANGED staged
             \/ /\ saver.pc = "vacuumed" /\ Goes("publish")
                /\ staged' = [staged EXCEPT ![r] = Whole(saver.src)]
                /\ vac' = [vac EXCEPT ![r] = Nothing]
          /\ UNCHANGED <<worldVars, man, grid, file, fin, events>>

\* Mutant: the manifest is written before the file gets its name.
PublishLast == LET r == saver.rid IN
               /\ saver.pc = "publish" /\ Goes("entry")
               /\ man' = [saver.man EXCEPT !.dbs[r] = [st |-> "complete", ver |-> saver.src]]
               /\ UNCHANGED <<worldVars, grid, file, staged, vac, fin, events>>
\* os.replace(staged, dst).
Publish == LET r == saver.rid IN
           /\ saver.pc = "publish" /\ Goes("entry")
           /\ file' = [file EXCEPT ![r] = staged[r]]
           /\ staged' = [staged EXCEPT ![r] = Nothing]
           /\ UNCHANGED <<worldVars, man, grid, vac, fin, events>>

\* The sha256 of what was published, and the manifest as the commit point.
WriteEntry ==
  LET r == saver.rid IN
  /\ saver.pc = "entry" /\ Exits("ok")
  /\ man' = [saver.man EXCEPT !.dbs[r] = [st |-> "complete", ver |-> saver.src]]
  /\ UNCHANGED <<worldVars, grid, file, staged, vac, events>>

\* A full disk: copy_db tidies up, and the save fails if the stack is down.
CopyFails == LET r == saver.rid IN
             /\ saver.pc \in Copying /\ Event
             /\ staged' = [staged EXCEPT ![r] = Nothing] /\ vac' = [vac EXCEPT ![r] = Nothing]
             /\ Exits(IF saver.running THEN "ok" ELSE "failed")
             /\ UNCHANGED <<worldVars, man, grid, file>>

\* The whole save dies where it is.
Killed == /\ saver.pc # "idle" /\ Event /\ Exits("failed")
          /\ UNCHANGED <<worldVars, libVars>>

\* After 300 s the console kills maps.sh, not the copy that maps.sh waits for.
TimesOut == /\ saver.pc \in Copying /\ saver.by = "finish"
            /\ saver' = [saver EXCEPT !.by = "nobody"] /\ fin' = [fin EXCEPT !.rc = "failed"]
            /\ UNCHANGED <<worldVars, libVars, events>>

SaverStep == \/ InitEntry \/ Look \/ SaveGrid \/ AddGrid \/ Backup
             \/ CopyDb \/ Fill \/ Vacuum \/ Publish \/ WriteEntry

-----------------------------------------------------------------------------
(* Save & finish.                                                           *)

\* A localize run has not changed its map: only its waypoints are saved.
Finish == LET waypoints == run.mode = "localize" IN
          /\ run.nodes = "up" /\ fin.step \notin Finishing /\ saver.pc = "idle"
          /\ fin' = [step |-> IF waypoints THEN "stopping" ELSE "grid", rc |-> "none",
                     run |-> run.n, since |-> latest, waypoints |-> waypoints]
          /\ IF waypoints THEN UNCHANGED saver ELSE SaveBy("finish", Primary)
          /\ UNCHANGED <<worldVars, libVars, events>>

\* Mutant: the run is stopped whatever became of its grid.
AfterAnyGrid == /\ fin.step = "grid" /\ fin.rc # "none"
                /\ fin' = [fin EXCEPT !.step = "stopping"]
                /\ UNCHANGED <<worldVars, libVars, saver, events>>
AfterGrid == /\ fin.step = "grid" /\ fin.rc # "none"
             /\ fin' = IF fin.rc = "ok" THEN [fin EXCEPT !.step = "stopping"] ELSE Ended("failed")
             /\ UNCHANGED <<worldVars, libVars, saver, events>>

\* `run_demo.sh stop`, which may leave rgbd_odometry running.
Stopped == \E nodes \in {"down", "odometry"} : run' = [run EXCEPT !.nodes = nodes]
StopRun == /\ fin.step = "stopping"
           /\ IF run.nodes = "down" THEN UNCHANGED run ELSE Stopped
           /\ fin' = IF fin.waypoints THEN Ended("done")
                     ELSE [fin EXCEPT !.step = "stopped", !.rc = "none"]
           /\ UNCHANGED <<live, latest, libVars, saver, events>>

SaveGraph == /\ fin.step = "stopped" /\ saver.pc = "idle"
             /\ fin' = [fin EXCEPT !.step = "pose graph"]
             /\ SaveBy("finish", Primary)
             /\ UNCHANGED <<worldVars, libVars, events>>

AfterGraph == /\ fin.step = "pose graph" /\ fin.rc # "none"
              /\ fin' = Ended(IF fin.rc = "ok" /\ Rollup(ReadManifest) = "complete"
                              THEN "done" ELSE "failed")
              /\ UNCHANGED <<worldVars, libVars, saver, events>>

FinishStep == AfterGrid \/ StopRun \/ SaveGraph \/ AfterGraph

-----------------------------------------------------------------------------
(* Runs, and what else happens to the entry.                                *)

\* A run maps from empty, goes on with its database, or takes a copy of the entry's.
Start ==
  /\ run.nodes # "up" /\ run.n < MaxRuns
  /\ \E mode \in {"mapping", "localize"} :
       run' = [n |-> run.n + 1, nodes |-> "up", mode |-> mode, open |-> "working"]
  /\ \/ latest < MaxVersion /\ live' = [r \in Robots |-> latest + 1] /\ latest' = latest + 1 /\ run'.mode = "mapping"
     \/ live[Primary] # 0 /\ run'.mode = "mapping" /\ UNCHANGED <<live, latest>>
     \/ /\ file[Primary].is = "whole"
        /\ live' = [live EXCEPT ![Primary] = file[Primary].ver] /\ UNCHANGED latest
  /\ UNCHANGED <<libVars, saver, fin, events>>

Explore == /\ run.nodes = "up" /\ run.mode = "mapping" /\ latest < MaxVersion
           /\ latest' = latest + 1
           /\ \E r \in Robots : live' = IF r = Primary /\ run.open = "loaded" THEN live
                                        ELSE [live EXCEPT ![r] = latest + 1]
           /\ UNCHANGED <<run, libVars, saver, fin, events>>

\* The dashboard's Load: RTAB-Map goes on with sortbots_<rid>_loaded.db.
Load == /\ run.nodes = "up" /\ file[Primary].is = "whole"
        /\ run' = [run EXCEPT !.open = "loaded"]
        /\ UNCHANGED <<live, latest, libVars, saver, fin, events>>

\* A stop from elsewhere, or the end of what an earlier stop left.
Down == /\ run.nodes # "down"
        /\ Stopped
        /\ UNCHANGED <<live, latest, libVars, saver, fin, events>>

SaveByHand == /\ saver.pc = "idle" /\ Event
              /\ \E r \in Robots : SaveBy("hand", r)
              /\ UNCHANGED <<worldVars, libVars, fin>>

\* A database is deleted by hand or replaced by its git-lfs pointer, or fetched.
Replaced(r, f) == /\ file' = [file EXCEPT ![r] = f]
                  /\ UNCHANGED <<worldVars, man, grid, staged, vac, saver, fin>>
Unfetch == \E r \in Robots : /\ file[r].is = "whole" /\ Event
                             /\ \E f \in {Nothing, [file[r] EXCEPT !.is = "pointer"]} :
                                  Replaced(r, f)
Fetch == \E r \in Robots : /\ file[r].is = "pointer" /\ saver.pc = "idle"
                           /\ Replaced(r, Whole(file[r].ver)) /\ UNCHANGED events

\* maps.sh rm: the directory goes.
Remove == /\ man.there /\ saver.pc = "idle" /\ fin.step \notin Finishing
          /\ man' = NoMap /\ grid' = 0
          /\ file' = [r \in Robots |-> Nothing] /\ staged' = [r \in Robots |-> Nothing]
          /\ vac' = [r \in Robots |-> Nothing]
          /\ UNCHANGED <<worldVars, saver, fin, events>>

Next == \/ SaverStep \/ CopyFails \/ Killed \/ TimesOut
        \/ Finish \/ FinishStep
        \/ Start \/ Explore \/ Load \/ Down
        \/ SaveByHand \/ Unfetch \/ Fetch \/ Remove

Spec == Init /\ [][Next]_vars

-----------------------------------------------------------------------------
(* Properties.                                                              *)

\* What the manifest calls complete is whole, whatever dies and whenever; and what it
\* newly claims is on disk already: "a reader must never see a manifest that claims a
\* DB the copy hadn't finished writing" (write_manifest).
ClaimsHold ==
  [][\A r \in Robots : man'.dbs[r].st = "complete" =>
       /\ file'[r].is # "part"
       /\ man'.dbs[r] # man.dbs[r] /\ file'[r].is = "whole" => file[r] = Whole(man'.dbs[r].ver)]_vars

\* A database that can be loaded can be loaded until its file is taken away: neither
\* another save nor one that dies half-way costs the entry what it had.
CanLoad(r) == ReadManifest.dbs[r].st = "complete" /\ file[r].is = "whole"
NothingLost == [][\A r \in Robots : CanLoad(r) /\ file'[r].is = "whole" => CanLoad(r)']_vars

\* "Save & finish" stops a living run only once the manifest has a grid of this run
\* that was captured since the button was pressed.
StopAfterGrid ==
  [][fin.step = "grid" /\ fin'.step = "stopping" /\ run.nodes = "up" /\ run.n = fin.run
       => man.grid >= fin.since]_vars

\* "done" means that the entry holds what the run ended with, unless somebody
\* started the next run meanwhile, or had loaded another database into it.
FinishKeepsRun ==
  [][fin.step = "pose graph" /\ fin'.step = "done" /\ run.n = fin.run
     /\ run.open = "working"
       => man.dbs[Primary] = [st |-> "complete", ver |-> live[Primary]] /\ CanLoad(Primary)]_vars
=============================================================================
