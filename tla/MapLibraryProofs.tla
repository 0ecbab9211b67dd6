-------------------------- MODULE MapLibraryProofs --------------------------
(***************************************************************************)
(* Theorems of the map library, for any robots, any number of versions,    *)
(* runs, kills and lost files: what the manifest claims is there, nothing  *)
(* is lost, and "Save & finish" keeps the run it stops.                     *)
(***************************************************************************)
EXTENDS MapLibrary, TLAPS

-----------------------------------------------------------------------------
(* Types.                                                                   *)

Fins == [step : Steps, rc : {"none", "ok", "failed"}, run : 0..MaxRuns, since : Versions,
         waypoints : BOOLEAN]

\* Files of the three kinds are files; entries of a manifest are entries.
LEMMA Constructors ==
  /\ Nothing \in File /\ NoMap \in Manifest /\ Idle \in Savers
  /\ \A v \in Versions : Part(v) \in File /\ Whole(v) \in File
  /\ \A s \in Steps : Ended(s) \in Fins
<1>1. 0 \in Versions /\ 0 \in 0..MaxRuns /\ Primary \in Robots
  BY LibraryAssumption DEF Versions
<1>2. /\ Nothing \in File /\ \A v \in Versions : Part(v) \in File /\ Whole(v) \in File
  BY <1>1 DEF Nothing, File, Part, Whole
<1>3. NoEntry \in Entry
  BY <1>1 DEF NoEntry, Entry
<1>4. NoMap \in Manifest
  BY <1>1, <1>3 DEF NoMap, Manifest
<1>5. Idle \in Savers
  BY <1>1, <1>4 DEF Idle, Savers
<1>6. \A s \in Steps : Ended(s) \in Fins
  BY <1>1 DEF Ended, Fins
<1> QED
  BY <1>2, <1>4, <1>5, <1>6

\* What is read back is a manifest that differs from the one on disk only in the
\* states of entries, and only downwards.
LEMMA Reads ==
  ASSUME man \in Manifest, file \in [Robots -> File]
  PROVE  /\ ReadManifest \in Manifest /\ LoadOrInit \in Manifest
         /\ LoadOrInit.grid = man.grid /\ LoadOrInit.dbs = ReadManifest.dbs
         /\ \A r \in Robots : /\ ReadManifest.dbs[r] = Reconciled(man.dbs[r], file[r])
                              /\ ReadManifest.dbs[r].ver = man.dbs[r].ver
                              /\ ReadManifest.dbs[r].st = "none" <=> man.dbs[r].st = "none"
                              /\ ReadManifest.dbs[r].st = "complete"
                                   => ReadManifest.dbs[r] = man.dbs[r]
                              /\ man.dbs[r].st = "complete" /\ file[r].is \in {"whole", "part"}
                                   => ReadManifest.dbs[r] = man.dbs[r]
<1>1. \A r \in Robots : man.dbs[r] \in Entry /\ file[r] \in File
  BY DEF Manifest
<1>2. \A e \in Entry, f \in File :
        /\ Reconciled(e, f) \in Entry /\ Reconciled(e, f).ver = e.ver
        /\ Reconciled(e, f).st = "none" <=> e.st = "none"
        /\ Reconciled(e, f).st = "complete" => Reconciled(e, f) = e
        /\ e.st = "complete" /\ f.is \in {"whole", "part"} => Reconciled(e, f) = e
  BY DEF Reconciled, Entry, File
<1>3. /\ ReadManifest \in Manifest /\ ReadManifest.grid = man.grid
      /\ ReadManifest.dbs = [r \in Robots |-> Reconciled(man.dbs[r], file[r])]
  BY <1>1, <1>2 DEF ReadManifest, Manifest
<1>4. /\ LoadOrInit \in Manifest /\ LoadOrInit.grid = man.grid
      /\ LoadOrInit.dbs = ReadManifest.dbs
  BY <1>3 DEF LoadOrInit, Manifest
<1> HIDE DEF ReadManifest, LoadOrInit
<1> QED
  BY <1>1, <1>2, <1>3, <1>4

\* Every state is well typed.
LEMMA TypeInit == Init => TypeOK
<1> SUFFICES ASSUME Init PROVE TypeOK
  OBVIOUS
<1>1. /\ 0 \in Versions /\ 1 \in Versions /\ 0 \in 0..MaxRuns /\ 0 \in 0..MaxEvents
  BY LibraryAssumption DEF Versions
<1>2. PICK v \in {0, 1} :
        LET db == IF v = 0 THEN Nothing ELSE Whole(v)
            st == IF v = 0 THEN "none" ELSE "complete" IN
        /\ live = [r \in Robots |-> v] /\ latest = v /\ grid = v
        /\ file = [r \in Robots |-> db]
        /\ man = [there |-> v = 1, grid |-> v,
                  dbs |-> [r \in Robots |-> [st |-> st, ver |-> v]]]
  BY DEF Init
<1>3. v \in Versions
  BY <1>1
<1>4. run \in Runs /\ live \in [Robots -> Versions] /\ latest \in Versions /\ grid \in Versions
  BY <1>1, <1>2, <1>3 DEF Init, Runs
<1>5. /\ file \in [Robots -> File] /\ staged \in [Robots -> File] /\ vac \in [Robots -> File]
  BY <1>2, <1>3, Constructors DEF Init
<1>6. man \in Manifest
  <2>1. (v = 1) \in BOOLEAN
    OBVIOUS
  <2>2. [r \in Robots |-> [st |-> IF v = 0 THEN "none" ELSE "complete", ver |-> v]]
          \in [Robots -> Entry]
    BY <1>3 DEF Entry
  <2> QED
    BY <1>2, <1>3, <2>1, <2>2 DEF Manifest
<1>7. saver \in Savers /\ fin = Ended("none") /\ "none" \in Steps /\ events \in 0..MaxEvents
  BY <1>1, Constructors DEF Init, Steps
<1> QED
  BY <1>4, <1>5, <1>6, <1>7, Constructors DEF TypeOK, Fins

\* Every step keeps the types.
LEMMA TypeStep == TypeOK /\ [Next]_vars => TypeOK'
<1> SUFFICES ASSUME TypeOK, [Next]_vars PROVE TypeOK'
  OBVIOUS
<1> USE LibraryAssumption
<1>0. /\ run \in Runs /\ live \in [Robots -> Versions] /\ latest \in Versions
      /\ man \in Manifest /\ grid \in Versions
      /\ file \in [Robots -> File] /\ staged \in [Robots -> File] /\ vac \in [Robots -> File]
      /\ saver \in Savers /\ fin \in Fins /\ events \in 0..MaxEvents
  BY DEF TypeOK, Fins
<1>R. ReadManifest \in Manifest /\ LoadOrInit \in Manifest
  BY <1>0, Reads
<1>E. Event => events' \in 0..MaxEvents
  BY <1>0 DEF Event
<1>X. \A rc \in {"ok", "failed"} : Exits(rc) => saver' \in Savers /\ fin' \in Fins
  BY <1>0, Constructors DEF Exits, Fins
<1>G. \A pc \in Saving : Goes(pc) => saver' \in Savers
  BY <1>0 DEF Goes, Savers
<1>S. \A who \in {"hand", "finish"}, r \in Robots : SaveBy(who, r) => saver' \in Savers
  BY Constructors DEF SaveBy, Savers, Saving
<1>D. \A s \in Steps : Ended(s) \in Fins
  BY Constructors
<1>Q. SUFFICES /\ run' \in Runs /\ live' \in [Robots -> Versions] /\ latest' \in Versions
               /\ man' \in Manifest /\ grid' \in Versions
               /\ file' \in [Robots -> File] /\ staged' \in [Robots -> File]
               /\ vac' \in [Robots -> File]
               /\ saver' \in Savers /\ fin' \in Fins /\ events' \in 0..MaxEvents
  BY DEF TypeOK, Fins
<1>1. CASE InitEntry
  BY <1>0, <1>R, <1>G, <1>1 DEF InitEntry, worldVars, Saving
<1>2. CASE Look
  BY <1>0, <1>X, <1>G, <1>2 DEF Look, worldVars, libVars, Saving
<1>3. CASE SaveGrid
  BY <1>0, <1>X, <1>G, <1>3 DEF SaveGrid, worldVars, Saving
<1>4. CASE AddGrid
  <2>1. man' \in Manifest
    BY <1>0, <1>R, <1>4 DEF AddGrid, Manifest
  <2> QED
    BY <1>0, <1>X, <1>G, <1>4, <2>1 DEF AddGrid, worldVars, Saving
<1>5. CASE Backup
  <2>1. saver' \in Savers /\ fin' \in Fins
    BY <1>0, <1>X, <1>5 DEF Backup, Savers, Saving
  <2> QED
    BY <1>0, <1>5, <2>1 DEF Backup, worldVars, libVars
<1>6. CASE CopyDb
  <2>1. Source \in Versions /\ saver.rid \in Robots
    BY <1>0 DEF Source, Savers
  <2>2. saver' \in Savers /\ fin' \in Fins
    <3>1. CASE Source = 0
      BY <1>0, <1>X, <1>6, <3>1 DEF CopyDb
    <3>2. CASE Source # 0
      BY <1>0, <1>R, <1>6, <2>1, <3>2 DEF CopyDb, Savers, Saving, Copying
    <3> QED
      BY <3>1, <3>2
  <2>3. staged' \in [Robots -> File] /\ vac' \in [Robots -> File]
    BY <1>0, <1>6, <2>1, Constructors DEF CopyDb
  <2> QED
    BY <1>0, <1>6, <2>2, <2>3 DEF CopyDb, worldVars
<1>7. CASE Fill
  <2>1. saver.src \in Versions
    BY <1>0 DEF Savers
  <2> QED
    BY <1>0, <1>G, <1>7, <2>1, Constructors DEF Fill, worldVars, Saving, Copying
<1>8. CASE Vacuum
  <2>1. saver.src \in Versions
    BY <1>0 DEF Savers
  <2>2. saver' \in Savers
    BY <1>G, <1>8 DEF Vacuum, Saving, Copying
  <2>3. staged' \in [Robots -> File] /\ vac' \in [Robots -> File]
    BY <1>0, <1>8, <2>1, Constructors DEF Vacuum
  <2> QED
    BY <1>0, <1>8, <2>2, <2>3 DEF Vacuum, worldVars
<1>9. CASE Publish
  <2>1. file' \in [Robots -> File] /\ staged' \in [Robots -> File]
    BY <1>0, <1>9, Constructors DEF Publish, Savers
  <2> QED
    BY <1>0, <1>G, <1>9, <2>1 DEF Publish, worldVars, Saving, Copying
<1>10. CASE WriteEntry
  <2>1. saver.man \in Manifest /\ saver.src \in Versions /\ saver.rid \in Robots
    BY <1>0 DEF Savers
  <2>2. [st |-> "complete", ver |-> saver.src] \in Entry
    BY <2>1 DEF Entry
  <2>3. man' \in Manifest
    BY <1>10, <2>1, <2>2 DEF WriteEntry, Manifest
  <2> QED
    BY <1>0, <1>X, <1>10, <2>3 DEF WriteEntry, worldVars
<1>11. CASE CopyFails
  <2>1. staged' \in [Robots -> File] /\ vac' \in [Robots -> File]
    BY <1>0, <1>11, Constructors DEF CopyFails
  <2> QED
    BY <1>0, <1>E, <1>X, <1>11, <2>1 DEF CopyFails, worldVars
<1>12. CASE Killed
  BY <1>0, <1>E, <1>X, <1>12 DEF Killed, worldVars, libVars
<1>13. CASE TimesOut
  BY <1>0, <1>13 DEF TimesOut, worldVars, libVars, Savers, Fins
<1>14. CASE Finish
  <2>1. (run.mode = "localize") \in BOOLEAN
    OBVIOUS
  <2>2. run.n \in 0..MaxRuns
    BY <1>0 DEF Runs
  <2>3. fin' \in Fins
    BY <1>0, <1>14, <2>1, <2>2 DEF Finish, Fins, Steps
  <2>4. saver' \in Savers
    BY <1>0, <1>S, <1>14 DEF Finish
  <2> QED
    BY <1>0, <1>14, <2>3, <2>4 DEF Finish, worldVars, libVars
<1>15. CASE AfterGrid
  BY <1>0, <1>D, <1>15 DEF AfterGrid, worldVars, libVars, Fins, Steps
<1>16. CASE StopRun
  <2>1. run' \in Runs
    BY <1>0, <1>16 DEF StopRun, Stopped, Runs
  <2>2. fin' \in Fins
    BY <1>0, <1>D, <1>16 DEF StopRun, Fins, Steps
  <2> QED
    BY <1>0, <1>16, <2>1, <2>2 DEF StopRun, libVars
<1>17. CASE SaveGraph
  BY <1>0, <1>S, <1>17 DEF SaveGraph, worldVars, libVars, Fins, Steps
<1>18. CASE AfterGraph
  BY <1>0, <1>D, <1>18 DEF AfterGraph, worldVars, libVars, Steps
<1>19. CASE Start
  <2>1. run' \in Runs
    BY <1>0, <1>19 DEF Start, Runs
  <2>2. latest' \in Versions
    BY <1>0, <1>19 DEF Start, Versions
  <2>3. live' \in [Robots -> Versions]
    <3>1. latest < MaxVersion => latest + 1 \in Versions
      BY <1>0 DEF Versions
    <3>2. file[Primary].ver \in Versions
      BY <1>0 DEF File
    <3> QED
      BY <1>0, <1>19, <3>1, <3>2 DEF Start
  <2> QED
    BY <1>0, <1>19, <2>1, <2>2, <2>3 DEF Start, libVars
<1>20. CASE Explore
  <2>1. latest + 1 \in Versions
    BY <1>0, <1>20 DEF Explore, Versions
  <2>2. live' \in [Robots -> Versions]
    BY <1>0, <1>20, <2>1 DEF Explore
  <2> QED
    BY <1>0, <1>20, <2>1, <2>2 DEF Explore, libVars
<1>21. CASE Load
  BY <1>0, <1>21 DEF Load, libVars, Runs
<1>22. CASE Down
  BY <1>0, <1>22 DEF Down, Stopped, libVars, Runs
<1>23. CASE SaveByHand
  BY <1>0, <1>E, <1>S, <1>23 DEF SaveByHand, worldVars, libVars
<1>24. CASE Unfetch
  <2>1. PICK r \in Robots : /\ file[r].is = "whole" /\ Event
                            /\ \E f \in {Nothing, [file[r] EXCEPT !.is = "pointer"]} : Replaced(r, f)
    BY <1>24 DEF Unfetch
  <2>2. Nothing \in File /\ [file[r] EXCEPT !.is = "pointer"] \in File
    BY <1>0, Constructors DEF File
  <2> QED
    BY <1>0, <1>E, <2>1, <2>2 DEF Replaced, worldVars
<1>25. CASE Fetch
  <2>1. PICK r \in Robots : Replaced(r, Whole(file[r].ver)) /\ UNCHANGED events
    BY <1>25 DEF Fetch
  <2>2. Whole(file[r].ver) \in File
    <3>1. file[r].ver \in Versions
      BY <1>0 DEF File
    <3> QED
      BY <3>1, Constructors
  <2> QED
    BY <1>0, <2>1, <2>2 DEF Replaced, worldVars
<1>26. CASE Remove
  BY <1>0, <1>26, Constructors DEF Remove, worldVars, Versions
<1>27. CASE UNCHANGED vars
  BY <1>0, <1>27 DEF vars, worldVars, libVars
<1> QED
  BY <1>1, <1>2, <1>3, <1>4, <1>5, <1>6, <1>7, <1>8, <1>9, <1>10, <1>11, <1>12, <1>13, <1>14,
     <1>15, <1>16, <1>17, <1>18, <1>19, <1>20, <1>21, <1>22, <1>23, <1>24, <1>25, <1>26, <1>27
     DEF Next, SaverStep, FinishStep

-----------------------------------------------------------------------------
(* The library.                                                             *)

\* No file under its final name is partly written.
FileInv == \A r \in Robots : file[r].is # "part"

\* What is about to be published is whole, and what was published is still it, unless
\* somebody took the file away.
StageInv == saver.pc = "publish" => staged[saver.rid] = Whole(saver.src)
EntryInv == saver.pc = "entry" => file[saver.rid].is # "whole"
                                  \/ file[saver.rid] = Whole(saver.src)

\* The manifest a copy holds claims nothing that the one on disk does not, and for the
\* other robots everything that can still be loaded.
LocalInv ==
  saver.pc \in Copying =>
    \A r \in Robots \ {saver.rid} :
      /\ saver.man.dbs[r].st = "complete" => saver.man.dbs[r] = man.dbs[r]
      /\ man.dbs[r].st = "complete" /\ file[r].is = "whole" => saver.man.dbs[r] = man.dbs[r]

LibInv == FileInv /\ StageInv /\ EntryInv /\ LocalInv

LEMMA LibInit == Init => LibInv
<1> SUFFICES ASSUME Init PROVE LibInv
  OBVIOUS
<1>1. saver.pc = "idle"
  BY DEF Init, Idle
<1>2. FileInv
  <2>1. PICK v \in {0, 1} : file = [r \in Robots |-> IF v = 0 THEN Nothing ELSE Whole(v)]
    BY DEF Init
  <2> QED
    BY <2>1 DEF FileInv, Nothing, Whole
<1> QED
  BY <1>1, <1>2 DEF LibInv, StageInv, EntryInv, LocalInv, Copying

\* Every step of the library, the finish and the world keeps it.
LEMMA LibStep == TypeOK /\ LibInv /\ [Next]_vars => LibInv'
<1> SUFFICES ASSUME TypeOK, LibInv, [Next]_vars PROVE LibInv'
  OBVIOUS
<1>0. /\ man \in Manifest /\ file \in [Robots -> File] /\ staged \in [Robots -> File]
      /\ saver \in Savers /\ saver.rid \in Robots
  BY DEF TypeOK, Savers
<1>A. ASSUME FileInv', saver'.pc \notin Copying PROVE LibInv'
  BY <1>A DEF LibInv, StageInv, EntryInv, LocalInv, Copying
<1>B. ASSUME file' = file PROVE FileInv'
  BY <1>B DEF LibInv, FileInv
<1>C. ASSUME UNCHANGED <<man, file, staged, saver>> PROVE LibInv'
  BY <1>C DEF LibInv, FileInv, StageInv, EntryInv, LocalInv
<1>D. \A rc : Exits(rc) => saver'.pc \notin Copying
  BY DEF Exits, Idle, Copying
<1>E. \A pc \in {"look", "grid", "addgrid", "backup", "copy"} : Goes(pc) => saver'.pc \notin Copying
  BY <1>0 DEF Goes, Savers, Copying
<1>F. \A who, r : SaveBy(who, r) => saver'.pc \notin Copying
  BY DEF SaveBy, Idle, Copying
<1>1. CASE InitEntry \/ Look \/ SaveGrid \/ AddGrid \/ WriteEntry \/ Killed
  <2>1. file' = file /\ saver'.pc \notin Copying
    BY <1>D, <1>E, <1>1
       DEF InitEntry, Look, SaveGrid, AddGrid, WriteEntry, Killed, libVars
  <2> QED
    BY <1>A, <1>B, <2>1
<1>2. CASE Backup
  <2>1. file' = file /\ saver'.pc \notin Copying
    BY <1>0, <1>D, <1>2 DEF Backup, libVars, Savers, Copying
  <2> QED
    BY <1>A, <1>B, <2>1
<1>3. CASE CopyFails
  <2>1. file' = file /\ saver'.pc \notin Copying
    BY <1>D, <1>3 DEF CopyFails
  <2> QED
    BY <1>A, <1>B, <2>1
<1>4. CASE Finish \/ SaveGraph \/ SaveByHand
  <2>1. CASE UNCHANGED saver /\ Finish
    BY <1>C, <2>1 DEF Finish, libVars
  <2>2. CASE ~(UNCHANGED saver /\ Finish)
    <3>1. file' = file /\ saver'.pc \notin Copying
      BY <1>4, <1>F, <2>2 DEF Finish, SaveGraph, SaveByHand, libVars
    <3> QED
      BY <1>A, <1>B, <3>1
  <2> QED
    BY <2>1, <2>2
<1>5. CASE CopyDb
  <2>1. file' = file /\ man' = man
    BY <1>5 DEF CopyDb
  <2>2. CASE Source = 0
    <3>1. saver'.pc \notin Copying
      BY <1>5, <1>D, <2>2 DEF CopyDb
    <3> QED
      BY <1>A, <1>B, <2>1, <3>1
  <2>3. CASE Source # 0
    <3>1. saver'.pc = "fill" /\ saver'.rid = saver.rid /\ saver'.man = LoadOrInit
      BY <1>0, <1>5, <2>3 DEF CopyDb, Savers
    <3>2. LocalInv'
      <4>1. \A r \in Robots :
              /\ LoadOrInit.dbs[r].st = "complete" => LoadOrInit.dbs[r] = man.dbs[r]
              /\ man.dbs[r].st = "complete" /\ file[r].is = "whole" => LoadOrInit.dbs[r] = man.dbs[r]
        BY <1>0, Reads
      <4> HIDE DEF LoadOrInit
      <4> QED
        BY <2>1, <3>1, <4>1 DEF LocalInv
    <3> QED
      BY <1>B, <2>1, <3>1, <3>2 DEF LibInv, StageInv, EntryInv
  <2> QED
    BY <2>2, <2>3
<1>6. CASE Fill
  <2>1. /\ file' = file /\ man' = man /\ saver'.rid = saver.rid /\ saver'.src = saver.src
        /\ saver'.man = saver.man /\ saver'.pc \in {"vacuum", "publish"} /\ saver.pc = "fill"
        /\ staged'[saver.rid] = Whole(saver.src)
    BY <1>0, <1>6 DEF Fill, Goes, Savers
  <2> QED
    BY <1>B, <2>1 DEF LibInv, StageInv, EntryInv, LocalInv, Copying
<1>7. CASE Vacuum
  <2>1. /\ file' = file /\ man' = man /\ saver'.rid = saver.rid /\ saver'.src = saver.src
        /\ saver'.man = saver.man /\ saver.pc \in {"vacuum", "vacuumed"}
        /\ \/ saver'.pc = "vacuumed"
           \/ saver'.pc = "publish" /\ staged'[saver.rid] = Whole(saver.src)
    BY <1>0, <1>7 DEF Vacuum, Goes, Savers
  <2> QED
    BY <1>B, <2>1 DEF LibInv, StageInv, EntryInv, LocalInv, Copying
<1>8. CASE Publish
  <2>1. /\ man' = man /\ saver'.rid = saver.rid /\ saver'.src = saver.src
        /\ saver'.man = saver.man /\ saver.pc = "publish" /\ saver'.pc = "entry"
        /\ file' = [file EXCEPT ![saver.rid] = staged[saver.rid]]
    BY <1>0, <1>8 DEF Publish, Goes, Savers
  <2>2. file'[saver.rid] = Whole(saver.src) /\ \A r \in Robots \ {saver.rid} : file'[r] = file[r]
    BY <1>0, <2>1 DEF LibInv, StageInv
  <2>3. FileInv'
    BY <2>2 DEF LibInv, FileInv, Whole
  <2>4. LocalInv'
    BY <2>1, <2>2 DEF LibInv, LocalInv, Copying
  <2> QED
    BY <2>1, <2>2, <2>3, <2>4 DEF LibInv, StageInv, EntryInv
<1>9. CASE TimesOut
  <2>1. /\ man' = man /\ file' = file /\ staged' = staged /\ saver'.pc = saver.pc
        /\ saver'.rid = saver.rid /\ saver'.src = saver.src /\ saver'.man = saver.man
    BY <1>0, <1>9 DEF TimesOut, libVars, Savers
  <2> QED
    BY <1>B, <2>1 DEF LibInv, StageInv, EntryInv, LocalInv
<1>10. CASE Unfetch
  <2>0. PICK r \in Robots : \E f \in {Nothing, [file[r] EXCEPT !.is = "pointer"]} : Replaced(r, f)
    BY <1>10 DEF Unfetch
  <2>1. PICK f \in {Nothing, [file[r] EXCEPT !.is = "pointer"]} : Replaced(r, f)
    BY <2>0
  <2>2. f.is \in {"none", "pointer"}
    BY <1>0 DEF Nothing, File
  <2>3. /\ man' = man /\ staged' = staged /\ saver' = saver
        /\ file'[r].is \in {"none", "pointer"} /\ \A q \in Robots \ {r} : file'[q] = file[q]
    BY <1>0, <2>1, <2>2 DEF Replaced
  <2>4. FileInv' /\ StageInv'
    BY <2>3 DEF LibInv, FileInv, StageInv
  <2>5. EntryInv'
    BY <1>0, <2>3 DEF LibInv, EntryInv
  <2>6. LocalInv'
    BY <1>0, <2>3 DEF LibInv, LocalInv
  <2> QED
    BY <2>4, <2>5, <2>6 DEF LibInv
<1>11. CASE Fetch
  <2>1. saver'.pc \notin Copying
    BY <1>11 DEF Fetch, Replaced, Copying
  <2>2. FileInv'
    BY <1>0, <1>11 DEF Fetch, Replaced, LibInv, FileInv, Whole
  <2> QED
    BY <1>A, <2>1, <2>2
<1>12. CASE Remove
  <2>1. saver'.pc \notin Copying
    BY <1>12 DEF Remove, Copying
  <2>2. FileInv'
    BY <1>12 DEF Remove, FileInv, Nothing
  <2> QED
    BY <1>A, <2>1, <2>2
<1>13. CASE AfterGrid \/ StopRun \/ AfterGraph
  BY <1>13, <1>C DEF AfterGrid, StopRun, AfterGraph, libVars
<1>14. CASE Start \/ Explore \/ Load \/ Down \/ UNCHANGED vars
  BY <1>14, <1>C DEF Start, Explore, Load, Down, libVars, vars
<1> QED
  BY <1>1, <1>2, <1>3, <1>4, <1>5, <1>6, <1>7, <1>8, <1>9, <1>10, <1>11, <1>12, <1>13, <1>14
     DEF Next, SaverStep, FinishStep

\* The types and what the library keeps, of every state that is reached.
LEMMA Reached == Spec => [](TypeOK /\ LibInv)
<1>1. Init => TypeOK /\ LibInv
  BY TypeInit, LibInit
<1>2. TypeOK /\ LibInv /\ [Next]_vars => TypeOK' /\ LibInv'
  BY TypeStep, LibStep
<1> QED
  BY <1>1, <1>2, PTL DEF Spec

\* Every variable keeps its type, whatever dies, is lost or is stopped.
THEOREM TypeCorrect == Spec => []TypeOK
BY Reached, PTL

-----------------------------------------------------------------------------
(* What the manifest claims.                                                *)

\* Only four steps write the manifest, and what they newly call complete is on disk.
LEMMA NewClaims ==
  ASSUME TypeOK, LibInv, [Next]_vars, NEW r \in Robots,
         man'.dbs[r].st = "complete", man'.dbs[r] # man.dbs[r], file'[r].is = "whole"
  PROVE  file[r] = Whole(man'.dbs[r].ver)
<1>0. /\ man \in Manifest /\ file \in [Robots -> File] /\ saver \in Savers
      /\ saver.rid \in Robots /\ saver.man \in Manifest
  BY DEF TypeOK, Savers
<1>1. CASE man' = man
  BY <1>1
<1>2. CASE InitEntry
  BY <1>0, <1>2, Reads DEF InitEntry
<1>3. CASE AddGrid
  <2>1. man'.dbs = LoadOrInit.dbs
    BY <1>0, <1>3, Reads DEF AddGrid, Manifest
  <2> QED
    BY <1>0, <2>1, Reads
<1>4. CASE WriteEntry
  <2>1. /\ saver.pc = "entry" /\ file' = file
        /\ man' = [saver.man EXCEPT !.dbs[saver.rid] = [st |-> "complete", ver |-> saver.src]]
    BY <1>4 DEF WriteEntry
  <2>2. CASE r = saver.rid
    <3>1. man'.dbs[r] = [st |-> "complete", ver |-> saver.src]
      BY <1>0, <2>1, <2>2 DEF Manifest
    <3> QED
      BY <2>1, <2>2, <3>1 DEF LibInv, EntryInv
  <2>3. CASE r # saver.rid
    <3>1. man'.dbs[r] = saver.man.dbs[r]
      BY <1>0, <2>1, <2>3 DEF Manifest
    <3> QED
      BY <2>1, <2>3, <3>1 DEF LibInv, LocalInv, Copying
  <2> QED
    BY <2>2, <2>3
<1>5. CASE Remove
  BY <1>5 DEF Remove, NoMap, NoEntry
<1>6. man' = man \/ InitEntry \/ AddGrid \/ WriteEntry \/ Remove
  BY DEF Next, SaverStep, FinishStep, Look, SaveGrid, Backup, CopyDb, Fill, Vacuum, Publish,
         CopyFails, Killed, TimesOut, Finish, AfterGrid, StopRun, SaveGraph, AfterGraph, Start,
         Explore, Load, Down, SaveByHand, Unfetch, Fetch, Replaced, libVars, vars
<1> QED
  BY <1>1, <1>2, <1>3, <1>4, <1>5, <1>6

\* A reader of the manifest never meets a claim that is not on disk: what is called
\* complete is not partly written, and a new claim names the database that is already
\* there under its final name.
THEOREM ClaimsAlwaysHold == Spec => ClaimsHold
<1> DEFINE Step == \A r \in Robots : man'.dbs[r].st = "complete" =>
                     /\ file'[r].is # "part"
                     /\ man'.dbs[r] # man.dbs[r] /\ file'[r].is = "whole"
                          => file[r] = Whole(man'.dbs[r].ver)
<1>1. TypeOK /\ LibInv /\ [Next]_vars => [Step]_vars
  <2>1. ASSUME TypeOK, LibInv, [Next]_vars PROVE Step
    <3>1. FileInv'
      BY <2>1, LibStep DEF LibInv
    <3> SUFFICES ASSUME NEW r \in Robots, man'.dbs[r].st = "complete"
                 PROVE  /\ file'[r].is # "part"
                        /\ man'.dbs[r] # man.dbs[r] /\ file'[r].is = "whole"
                             => file[r] = Whole(man'.dbs[r].ver)
      OBVIOUS
    <3> QED
      BY <2>1, <3>1, NewClaims DEF FileInv
  <2> HIDE DEF Step
  <2> QED
    BY <2>1
<1>2. [][Step]_vars => ClaimsHold
  BY PTL DEF ClaimsHold
<1> QED
  BY <1>1, <1>2, Reached, PTL DEF Spec

\* Loading needs the manifest's word and the file.
LEMMA Loadable ==
  ASSUME TypeOK, NEW r \in Robots
  PROVE  CanLoad(r) <=> man.dbs[r].st = "complete" /\ file[r].is = "whole"
<1>1. man \in Manifest /\ file \in [Robots -> File]
  BY DEF TypeOK
<1> QED
  BY <1>1, Reads DEF CanLoad

\* A save that goes well and one that dies anywhere leave the entry's databases
\* loadable: neither costs what was there before.
THEOREM NothingIsLost == Spec => NothingLost
<1> DEFINE Step == \A r \in Robots : CanLoad(r) /\ file'[r].is = "whole" => CanLoad(r)'
<1>1. TypeOK /\ LibInv /\ [Next]_vars => [Step]_vars
  <2>1. ASSUME TypeOK, LibInv, [Next]_vars, NEW r \in Robots, CanLoad(r), file'[r].is = "whole"
        PROVE  CanLoad(r)'
    <3>0. /\ man \in Manifest /\ file \in [Robots -> File] /\ saver \in Savers
          /\ saver.rid \in Robots /\ saver.man \in Manifest
      BY <2>1 DEF TypeOK, Savers
    <3>1. man.dbs[r].st = "complete" /\ file[r].is = "whole"
      BY <2>1, Loadable
    <3>2. man'.dbs[r].st = "complete"
      <4>1. CASE man' = man
        BY <3>1, <4>1
      <4>2. CASE InitEntry
        BY <3>0, <3>1, <4>2, Reads DEF InitEntry
      <4>3. CASE AddGrid
        <5>1. man'.dbs = LoadOrInit.dbs
          BY <3>0, <4>3, Reads DEF AddGrid, Manifest
        <5> QED
          BY <3>0, <3>1, <5>1, Reads
      <4>4. CASE WriteEntry
        <5>1. /\ saver.pc = "entry"
              /\ man' = [saver.man EXCEPT !.dbs[saver.rid] =
                                            [st |-> "complete", ver |-> saver.src]]
          BY <4>4 DEF WriteEntry
        <5>2. CASE r = saver.rid
          BY <3>0, <5>1, <5>2 DEF Manifest
        <5>3. CASE r # saver.rid
          <6>1. man'.dbs[r] = saver.man.dbs[r]
            BY <3>0, <5>1, <5>3 DEF Manifest
          <6> QED
            BY <2>1, <3>1, <5>1, <5>3, <6>1 DEF LibInv, LocalInv, Copying
        <5> QED
          BY <5>2, <5>3
      <4>5. CASE Remove
        BY <2>1, <4>5 DEF Remove, Nothing
      <4>6. man' = man \/ InitEntry \/ AddGrid \/ WriteEntry \/ Remove
        BY <2>1 DEF Next, SaverStep, FinishStep, Look, SaveGrid, Backup, CopyDb, Fill, Vacuum,
                    Publish, CopyFails, Killed, TimesOut, Finish, AfterGrid, StopRun, SaveGraph,
                    AfterGraph, Start, Explore, Load, Down, SaveByHand, Unfetch, Fetch,
                    Replaced, libVars, vars
      <4> QED
        BY <4>1, <4>2, <4>3, <4>4, <4>5, <4>6
    <3>3. TypeOK'
      BY <2>1, TypeStep
    <3>4. man' \in Manifest /\ file' \in [Robots -> File]
      BY <3>3 DEF TypeOK
    <3>5. (CanLoad(r) <=> man.dbs[r].st = "complete" /\ file[r].is = "whole")'
      BY <3>3, Loadable, PTL
    <3> QED
      BY <2>1, <3>2, <3>5
  <2>2. ASSUME TypeOK, LibInv, [Next]_vars PROVE Step
    BY <2>1, <2>2
  <2> HIDE DEF Step
  <2> QED
    BY <2>2
<1>2. [][Step]_vars => NothingLost
  BY PTL DEF NothingLost
<1> QED
  BY <1>1, <1>2, Reached, PTL DEF Spec

-----------------------------------------------------------------------------
(* Save & finish.                                                           *)

\* A save that a finish waits for is the finish's current one, of the primary's database.
WaitInv == saver.by = "finish" => /\ fin.step \in {"grid", "pose graph"} /\ fin.rc = "none"
                                  /\ saver.rid = Primary
SinceInv == fin.step \in Finishing => fin.run <= run.n /\ fin.since <= latest

\* While a finish is under way every grid that reaches the manifest was captured since
\* the button was pressed, also by a save that somebody else started.
CaptureInv == /\ fin.step \in Finishing /\ saver.pc = "addgrid" => grid >= fin.since
              /\ saver.pc \in Copying => saver.man.grid = man.grid
GridInv == fin.step = "grid" /\ run.n = fin.run /\ run.nodes = "up" =>
             /\ fin.rc = "ok" => man.grid >= fin.since
             /\ saver.by = "finish" /\ saver.pc \in {"backup", "copy"} \union Copying
                  => man.grid >= fin.since

\* Once the finish has stopped its run, no save is live and every one copies what the
\* run left; and after a good one no manifest says anything else.
RunEntry(m) == /\ m.dbs[Primary].st # "none"
               /\ m.dbs[Primary].st = "complete" => m.dbs[Primary].ver = live[Primary]
StoppedInv == fin.step \in {"stopped", "pose graph"} /\ run.n = fin.run => run.nodes # "up"
GraphInv == fin.step = "pose graph" /\ run.n = fin.run =>
              /\ saver.pc \notin {"addgrid", "backup"} /\ ~saver.running
              /\ saver.pc \in Copying => saver.src = live[saver.rid]
              /\ fin.rc = "ok" => RunEntry(man) /\ (saver.pc \in Copying => RunEntry(saver.man))
ResetInv == fin.step = "stopped" => fin.rc = "none"

FinInv == /\ WaitInv /\ SinceInv /\ CaptureInv /\ GridInv
          /\ StoppedInv /\ GraphInv /\ ResetInv

LEMMA FinInit == Init => FinInv
<1> SUFFICES ASSUME Init PROVE FinInv
  OBVIOUS
<1>1. /\ saver.pc = "idle" /\ saver.by = "nobody" /\ fin.step = "none"
  BY DEF Init, Idle, Ended
<1> QED
  BY <1>1 DEF FinInv, WaitInv, SinceInv, CaptureInv, GridInv, StoppedInv, GraphInv, ResetInv,
              Finishing, Copying

\* The steps of a save.
LEMMA FinSaver == TypeOK /\ FinInv /\ SaverStep => FinInv'
<1> SUFFICES ASSUME TypeOK, FinInv, SaverStep PROVE FinInv'
  OBVIOUS
<1> DEFINE Kept == UNCHANGED <<run, live, latest>>
           Still(rc) == /\ saver'.pc = "idle" /\ saver'.by = "nobody" /\ ~saver'.running
                        /\ fin'.step = fin.step /\ fin'.run = fin.run /\ fin'.since = fin.since
                        /\ fin'.rc = IF saver.by = "finish" THEN rc ELSE fin.rc
           Moves(pc) == /\ saver'.pc = pc /\ saver'.by = saver.by /\ saver'.rid = saver.rid
                        /\ saver'.running = saver.running /\ saver'.src = saver.src
                        /\ saver'.man = saver.man
<1>0. /\ man \in Manifest /\ file \in [Robots -> File] /\ saver \in Savers /\ fin \in Fins
      /\ Primary \in Robots /\ saver.rid \in Robots /\ saver.man \in Manifest
  BY LibraryAssumption DEF TypeOK, Savers, Fins
<1>N. /\ latest \in Nat /\ grid \in Nat /\ man.grid \in Nat /\ fin.since \in Nat
  BY LibraryAssumption DEF TypeOK, Manifest, Versions
<1>X. \A rc : Exits(rc) => Still(rc)
  BY <1>0 DEF Exits, Idle, Fins
<1>G. \A pc : Goes(pc) => Moves(pc)
  BY <1>0 DEF Goes, Savers
<1>M. /\ LoadOrInit.grid = man.grid
      /\ LoadOrInit.dbs[Primary].st = "none" <=> man.dbs[Primary].st = "none"
      /\ LoadOrInit.dbs[Primary].st = "complete" => LoadOrInit.dbs[Primary] = man.dbs[Primary]
  BY <1>0, Reads
<1>R. ASSUME Kept, man'.dbs[Primary] = LoadOrInit.dbs[Primary], RunEntry(man)
      PROVE  RunEntry(man)'
  BY <1>R, <1>M DEF RunEntry
<1> HIDE DEF Still, Moves, LoadOrInit
<1>1. CASE InitEntry
  <2>1. /\ Kept /\ grid' = grid /\ fin' = fin /\ saver.pc = "init" /\ Moves("look")
        /\ man'.grid = man.grid /\ man'.dbs[Primary] = LoadOrInit.dbs[Primary]
    BY <1>1, <1>G, <1>M DEF InitEntry, worldVars
  <2> QED
    BY <1>R, <2>1 DEF Moves, FinInv, WaitInv, SinceInv, CaptureInv, GridInv, StoppedInv, GraphInv,
                      ResetInv, Copying
<1>2. CASE Look
  <2>1. /\ Kept /\ grid' = grid /\ man' = man /\ saver.pc = "look"
    BY <1>2 DEF Look, worldVars, libVars
  <2>2. \/ Moves("grid") /\ fin' = fin
        \/ Moves("copy") /\ fin' = fin /\ run.nodes = "down"
        \/ Still("failed")
    BY <1>2, <1>G, <1>X DEF Look
  <2>3. RunEntry(man)' <=> RunEntry(man)
    BY <2>1 DEF RunEntry
  <2>4. CASE Still("failed")
    BY <2>1, <2>3, <2>4 DEF Still, FinInv, WaitInv, SinceInv, CaptureInv, GridInv, StoppedInv,
                            GraphInv, ResetInv, Copying
  <2>5. CASE ~Still("failed")
    BY <2>1, <2>2, <2>3, <2>5 DEF Moves, FinInv, WaitInv, SinceInv, CaptureInv, GridInv,
                                  StoppedInv, GraphInv, ResetInv, Copying
  <2> QED
    BY <2>4, <2>5
<1>3. CASE SaveGrid
  <2>1. /\ Kept /\ man' = man /\ saver.pc = "grid"
    BY <1>3 DEF SaveGrid, worldVars
  <2>2. \/ Moves("addgrid") /\ fin' = fin /\ grid' = latest /\ run.nodes = "up"
        \/ Still("failed") /\ grid' = grid
    BY <1>3, <1>G, <1>X DEF SaveGrid
  <2>3. RunEntry(man)' <=> RunEntry(man)
    BY <2>1 DEF RunEntry
  <2>4. CASE Still("failed") /\ grid' = grid
    BY <2>1, <2>3, <2>4 DEF Still, FinInv, WaitInv, SinceInv, CaptureInv, GridInv, StoppedInv,
                            GraphInv, ResetInv, Copying
  <2>5. CASE Moves("addgrid") /\ fin' = fin /\ grid' = latest /\ run.nodes = "up"
    BY <1>N, <2>1, <2>3, <2>5
       DEF Moves, FinInv, WaitInv, SinceInv, CaptureInv, GridInv, StoppedInv, GraphInv, ResetInv,
           Copying, Finishing
  <2> QED
    BY <2>2, <2>4, <2>5
<1>4. CASE AddGrid
  <2>1. /\ Kept /\ grid' = grid /\ saver.pc = "addgrid"
        /\ man'.grid = grid /\ man'.dbs[Primary] = LoadOrInit.dbs[Primary]
    <3>1. man' = [LoadOrInit EXCEPT !.grid = grid]
      BY <1>4 DEF AddGrid
    <3>2. LoadOrInit \in Manifest
      BY <1>0, Reads
    <3>3. man'.grid = grid /\ man'.dbs = LoadOrInit.dbs
      BY <3>1, <3>2 DEF Manifest
    <3> QED
      BY <1>4, <3>3 DEF AddGrid, worldVars
  <2>2. \/ Moves("backup") /\ fin' = fin
        \/ Still("ok") /\ saver.by = "hand"
    BY <1>4, <1>G, <1>X DEF AddGrid
  <2>3. CASE Still("ok") /\ saver.by = "hand"
    BY <2>1, <2>3 DEF Still, FinInv, WaitInv, SinceInv, CaptureInv, GridInv, StoppedInv,
                            GraphInv, ResetInv, Copying, Finishing
  <2>4. CASE Moves("backup") /\ fin' = fin
    BY <2>1, <2>4 DEF Moves, FinInv, WaitInv, SinceInv, CaptureInv, GridInv, StoppedInv, GraphInv,
                      ResetInv, Copying, Finishing
  <2> QED
    BY <2>2, <2>3, <2>4
<1>5. CASE Backup
  <2>1. /\ Kept /\ grid' = grid /\ man' = man /\ saver.pc = "backup"
    BY <1>5 DEF Backup, worldVars, libVars
  <2>2. \/ /\ saver'.pc = "copy" /\ saver'.by = saver.by /\ saver'.rid = saver.rid
           /\ fin' = fin
        \/ Still("ok")
    BY <1>0, <1>5, <1>X DEF Backup, Savers
  <2>3. CASE Still("ok")
    BY <2>1, <2>3 DEF Still, FinInv, WaitInv, SinceInv, CaptureInv, GridInv, StoppedInv, GraphInv,
                      ResetInv, Copying
  <2>4. CASE ~Still("ok")
    BY <2>1, <2>2, <2>4 DEF FinInv, WaitInv, SinceInv, CaptureInv, GridInv, StoppedInv, GraphInv,
                            ResetInv, Copying
  <2> QED
    BY <2>3, <2>4
<1>6. CASE CopyDb
  <2>1. /\ Kept /\ grid' = grid /\ man' = man /\ saver.pc = "copy"
    BY <1>6 DEF CopyDb, worldVars
  <2>2. \/ /\ saver'.pc = "fill" /\ saver'.by = saver.by /\ saver'.rid = saver.rid
           /\ saver'.running = saver.running /\ saver'.src = Source
           /\ saver'.man = LoadOrInit /\ fin' = fin
        \/ Still("failed")
    BY <1>0, <1>6, <1>X DEF CopyDb, Savers
  <2>3. RunEntry(man)' <=> RunEntry(man)
    BY <2>1 DEF RunEntry
  <2>4. CASE Still("failed")
    BY <2>1, <2>3, <2>4 DEF Still, FinInv, WaitInv, SinceInv, CaptureInv, GridInv, StoppedInv,
                            GraphInv, ResetInv, Copying
  <2>5. CASE ~Still("failed")
    <3>1. RunEntry(man) => RunEntry(saver.man)'
      BY <1>M, <2>1, <2>2, <2>5 DEF RunEntry
    <3>2. ~saver.running => saver'.src = live[saver.rid]
      BY <2>2, <2>5 DEF Source
    <3> QED
      BY <1>M, <2>1, <2>2, <2>3, <2>5, <3>1, <3>2
         DEF FinInv, WaitInv, SinceInv, CaptureInv, GridInv, StoppedInv, GraphInv, ResetInv, Copying
  <2> QED
    BY <2>4, <2>5
<1>7. CASE Fill \/ Vacuum \/ Publish
  <2>1. /\ Kept /\ grid' = grid /\ man' = man /\ fin' = fin /\ saver.pc \in Copying
    BY <1>7 DEF Fill, Vacuum, Publish, worldVars, Copying
  <2>3. PICK pc \in Copying : Goes(pc)
    BY <1>7 DEF Fill, Vacuum, Publish, Copying
  <2>4. Moves(pc)
    BY <1>G, <2>3
  <2>2. /\ RunEntry(man)' <=> RunEntry(man)
        /\ RunEntry(saver.man)' <=> RunEntry(saver.man)
    BY <2>1, <2>4 DEF RunEntry, Moves
  <2> QED
    BY <2>1, <2>2, <2>4 DEF Moves, FinInv, WaitInv, SinceInv, CaptureInv, GridInv, StoppedInv, GraphInv,
                      ResetInv, Copying
<1>8. CASE WriteEntry
  <2>1. /\ Kept /\ grid' = grid /\ saver.pc = "entry" /\ Still("ok")
        /\ man' = [saver.man EXCEPT !.dbs[saver.rid] = [st |-> "complete", ver |-> saver.src]]
    BY <1>8, <1>X DEF WriteEntry, worldVars
  <2>2. man'.grid = saver.man.grid
    BY <1>0, <2>1 DEF Manifest
  <2>3. man'.dbs[Primary] = IF saver.rid = Primary THEN [st |-> "complete", ver |-> saver.src]
                            ELSE saver.man.dbs[Primary]
    BY <1>0, <2>1 DEF Manifest
  <2>4. /\ saver.rid = Primary /\ saver.src = live[Primary] => RunEntry(man)'
        /\ saver.rid # Primary /\ RunEntry(saver.man) => RunEntry(man)'
    BY <2>1, <2>3 DEF RunEntry
  <2> QED
    BY <2>1, <2>2, <2>4 DEF Still, FinInv, WaitInv, SinceInv, CaptureInv, GridInv, StoppedInv,
                            GraphInv, ResetInv, Copying
<1> QED
  BY <1>1, <1>2, <1>3, <1>4, <1>5, <1>6, <1>7, <1>8 DEF SaverStep

\* What may happen to a save and to the run it saves from.
LEMMA FinWorld ==
  TypeOK /\ FinInv /\ (CopyFails \/ Killed \/ TimesOut \/ SaveByHand \/ Start \/ Explore \/ Load
                       \/ Down \/ Unfetch \/ Fetch \/ Remove \/ UNCHANGED vars) => FinInv'
<1> SUFFICES ASSUME TypeOK, FinInv,
                    CopyFails \/ Killed \/ TimesOut \/ SaveByHand \/ Start \/ Explore \/ Load
                      \/ Down \/ Unfetch \/ Fetch \/ Remove \/ UNCHANGED vars
             PROVE  FinInv'
  OBVIOUS
<1> DEFINE Kept == UNCHANGED <<run, live, latest, man, grid>>
<1>0. /\ saver \in Savers /\ fin \in Fins /\ run \in Runs /\ live \in [Robots -> Versions]
  BY DEF TypeOK, Fins
<1>N. /\ latest \in Nat /\ grid \in Nat /\ fin.since \in Nat /\ run.n \in Nat /\ fin.run \in Nat
  BY LibraryAssumption DEF TypeOK, Versions, Runs
<1>1. CASE CopyFails \/ Killed
  <2>1. Kept
    BY <1>1 DEF CopyFails, Killed, worldVars, libVars
  <2>2. PICK rc : Exits(rc) /\ (rc = "ok" => saver.running /\ saver.pc \in Copying)
    BY <1>1 DEF CopyFails, Killed
  <2>3. /\ saver'.pc = "idle" /\ saver'.by = "nobody" /\ ~saver'.running
        /\ fin'.step = fin.step /\ fin'.run = fin.run /\ fin'.since = fin.since
        /\ fin'.rc = IF saver.by = "finish" THEN rc ELSE fin.rc
    BY <1>0, <2>2 DEF Exits, Idle, Fins
  <2>4. RunEntry(man)' <=> RunEntry(man)
    BY <2>1 DEF RunEntry
  <2> QED
    BY <2>1, <2>2, <2>3, <2>4 DEF FinInv, WaitInv, SinceInv, CaptureInv, GridInv, StoppedInv,
                                  GraphInv, ResetInv, Copying
<1>2. CASE TimesOut
  <2>1. /\ Kept /\ saver.pc \in Copying /\ saver'.pc = saver.pc /\ saver'.by = "nobody"
        /\ saver'.rid = saver.rid /\ saver'.running = saver.running /\ saver'.src = saver.src
        /\ saver'.man = saver.man /\ saver.by = "finish"
        /\ fin'.step = fin.step /\ fin'.run = fin.run /\ fin'.since = fin.since
        /\ fin'.rc = "failed"
    BY <1>0, <1>2 DEF TimesOut, worldVars, libVars, Savers, Fins
  <2> QED
    BY <2>1 DEF FinInv, WaitInv, SinceInv, CaptureInv, GridInv, StoppedInv, GraphInv, ResetInv,
                Copying
<1>3. CASE SaveByHand
  <2>1. /\ Kept /\ fin' = fin /\ saver'.pc = "init" /\ saver'.by = "hand" /\ ~saver'.running
    BY <1>3 DEF SaveByHand, SaveBy, Idle, worldVars, libVars
  <2>2. RunEntry(man)' <=> RunEntry(man)
    BY <2>1 DEF RunEntry
  <2> QED
    BY <2>1, <2>2 DEF FinInv, WaitInv, SinceInv, CaptureInv, GridInv, StoppedInv, GraphInv,
                      ResetInv, Copying
<1>4. CASE Start
  <2>1. /\ UNCHANGED <<man, grid, saver, fin>> /\ run'.n = run.n + 1 /\ latest' >= latest
        /\ latest' \in Nat
    BY <1>N, <1>4 DEF Start, libVars
  <2>2. fin.step \in Finishing => fin.run < run'.n /\ fin.since <= latest'
    BY <1>N, <2>1 DEF FinInv, SinceInv
  <2>3. WaitInv' /\ CaptureInv' /\ ResetInv'
    BY <2>1 DEF FinInv, WaitInv, CaptureInv, ResetInv
  <2>4. fin.step \in Finishing => fin'.run # run'.n
    BY <1>N, <2>1, <2>2
  <2>5. SinceInv'
    BY <1>N, <2>1, <2>2 DEF SinceInv
  <2>6. GridInv' /\ StoppedInv' /\ GraphInv'
    BY <2>1, <2>4 DEF GridInv, StoppedInv, GraphInv, Finishing
  <2> QED
    BY <2>3, <2>5, <2>6 DEF FinInv
<1>5. CASE Explore
  <2>1. /\ UNCHANGED <<run, man, grid, saver, fin>> /\ run.nodes = "up" /\ latest' >= latest
        /\ latest' \in Nat
    BY <1>N, <1>5 DEF Explore, libVars
  <2>2. SinceInv'
    BY <1>N, <2>1 DEF FinInv, SinceInv
  <2>3. WaitInv' /\ CaptureInv' /\ ResetInv' /\ GridInv' /\ StoppedInv'
    BY <2>1 DEF FinInv, WaitInv, CaptureInv, ResetInv, GridInv, StoppedInv
  <2>4. GraphInv'
    BY <2>1 DEF FinInv, StoppedInv, GraphInv
  <2> QED
    BY <2>2, <2>3, <2>4 DEF FinInv
<1>6. CASE Load \/ Down
  <2>1. /\ UNCHANGED <<live, latest, man, grid, saver, fin>> /\ run'.n = run.n
        /\ run'.nodes = "up" => run.nodes = "up"
    BY <1>0, <1>6 DEF Load, Down, Stopped, libVars, Runs
  <2>2. /\ RunEntry(man)' <=> RunEntry(man)
        /\ RunEntry(saver.man)' <=> RunEntry(saver.man)
    BY <2>1 DEF RunEntry
  <2> QED
    BY <2>1, <2>2 DEF FinInv, WaitInv, SinceInv, CaptureInv, GridInv, StoppedInv, GraphInv,
                      ResetInv
<1>7. CASE Unfetch \/ Fetch \/ UNCHANGED vars
  <2>1. Kept /\ UNCHANGED <<saver, fin>>
    BY <1>7 DEF Unfetch, Fetch, Replaced, worldVars, libVars, vars
  <2>2. /\ RunEntry(man)' <=> RunEntry(man)
        /\ RunEntry(saver.man)' <=> RunEntry(saver.man)
    BY <2>1 DEF RunEntry
  <2> QED
    BY <2>1, <2>2 DEF FinInv, WaitInv, SinceInv, CaptureInv, GridInv, StoppedInv, GraphInv,
                      ResetInv
<1>8. CASE Remove
  <2>1. /\ UNCHANGED <<run, live, latest, saver, fin>> /\ saver.pc = "idle"
        /\ fin.step \notin Finishing
    BY <1>8 DEF Remove, worldVars
  <2> QED
    BY <2>1 DEF FinInv, WaitInv, SinceInv, CaptureInv, GridInv, StoppedInv, GraphInv, ResetInv,
                Finishing, Copying
<1> QED
  BY <1>1, <1>2, <1>3, <1>4, <1>5, <1>6, <1>7, <1>8

\* The steps of the finish itself.
LEMMA FinFinish == TypeOK /\ FinInv /\ (Finish \/ FinishStep) => FinInv'
<1> SUFFICES ASSUME TypeOK, FinInv, Finish \/ FinishStep PROVE FinInv'
  OBVIOUS
<1>0. /\ saver \in Savers /\ fin \in Fins /\ run \in Runs
      /\ latest \in Nat /\ run.n \in Nat
  BY LibraryAssumption DEF TypeOK, Fins, Versions, Runs
<1>1. CASE Finish
  <2>1. /\ UNCHANGED <<run, live, latest, man, grid>> /\ fin.step \notin Finishing
        /\ saver.pc = "idle" /\ fin'.rc = "none" /\ fin'.run = run.n /\ fin'.since = latest
        /\ fin'.step \in {"stopping", "grid"}
        /\ \/ saver' = saver
           \/ /\ saver'.pc = "init" /\ saver'.by = "finish" /\ saver'.rid = Primary
              /\ fin'.step = "grid"
    <3>1. \/ saver' = saver
          \/ /\ saver'.pc = "init" /\ saver'.by = "finish" /\ saver'.rid = Primary
             /\ fin'.step = "grid"
      BY <1>1 DEF Finish, SaveBy, Idle
    <3> QED
      BY <1>1, <3>1 DEF Finish, worldVars, libVars
  <2>2. SinceInv'
    BY <1>0, <2>1 DEF SinceInv
  <2>3. WaitInv' /\ GridInv'
    BY <2>1 DEF FinInv, WaitInv, GridInv, Copying, Finishing
  <2>4. CaptureInv' /\ StoppedInv' /\ GraphInv' /\ ResetInv'
    BY <2>1 DEF FinInv, CaptureInv, StoppedInv, GraphInv, ResetInv, Copying
  <2> QED
    BY <2>2, <2>3, <2>4 DEF FinInv
<1>2. CASE AfterGrid
  <2>1. /\ UNCHANGED <<run, live, latest, man, grid, saver>> /\ fin.step = "grid" /\ fin.rc # "none"
        /\ \/ fin'.step = "stopping" /\ fin'.run = fin.run /\ fin'.since = fin.since
           \/ fin'.step = "failed"
    BY <1>0, <1>2 DEF AfterGrid, Ended, worldVars, libVars, Fins
  <2> QED
    BY <2>1 DEF FinInv, WaitInv, SinceInv, CaptureInv, GridInv, StoppedInv, GraphInv, ResetInv,
                Finishing
<1>3. CASE StopRun
  <2>1. /\ UNCHANGED <<live, latest, man, grid, saver>> /\ fin.step = "stopping"
        /\ run'.n = run.n /\ run'.nodes # "up"
        /\ \/ fin'.step = "stopped" /\ fin'.rc = "none" /\ fin'.run = fin.run
              /\ fin'.since = fin.since
           \/ fin'.step = "done"
    BY <1>0, <1>3 DEF StopRun, Stopped, Ended, libVars, Fins, Runs
  <2> QED
    BY <2>1 DEF FinInv, WaitInv, SinceInv, CaptureInv, GridInv, StoppedInv, GraphInv, ResetInv,
                Finishing
<1>4. CASE SaveGraph
  <2>1. /\ UNCHANGED <<run, live, latest, man, grid>> /\ fin.step = "stopped"
        /\ fin'.step = "pose graph" /\ fin'.rc = fin.rc /\ fin'.run = fin.run
        /\ fin'.since = fin.since
        /\ saver'.pc = "init" /\ saver'.by = "finish" /\ saver'.rid = Primary /\ ~saver'.running
    BY <1>0, <1>4 DEF SaveGraph, SaveBy, Idle, worldVars, libVars, Fins
  <2> QED
    BY <2>1 DEF FinInv, WaitInv, SinceInv, CaptureInv, GridInv, StoppedInv, GraphInv, ResetInv,
                Finishing, Copying
<1>5. CASE AfterGraph
  <2>1. /\ UNCHANGED <<run, live, latest, man, grid, saver>> /\ fin.step = "pose graph"
        /\ fin.rc # "none" /\ fin'.step \in {"done", "failed"}
    BY <1>5 DEF AfterGraph, Ended, worldVars, libVars
  <2> QED
    BY <2>1 DEF FinInv, WaitInv, SinceInv, CaptureInv, GridInv, StoppedInv, GraphInv, ResetInv,
                Finishing
<1> QED
  BY <1>1, <1>2, <1>3, <1>4, <1>5 DEF FinishStep

\* All of it, of every state that is reached.
LEMMA FinReached == Spec => [](TypeOK /\ LibInv /\ FinInv)
<1>1. Init => TypeOK /\ LibInv /\ FinInv
  BY TypeInit, LibInit, FinInit
<1>2. TypeOK /\ LibInv /\ FinInv /\ [Next]_vars => TypeOK' /\ LibInv' /\ FinInv'
  <2>1. [Next]_vars => SaverStep \/ Finish \/ FinishStep
                       \/ (CopyFails \/ Killed \/ TimesOut \/ SaveByHand \/ Start \/ Explore
                           \/ Load \/ Down \/ Unfetch \/ Fetch \/ Remove \/ UNCHANGED vars)
    BY DEF Next
  <2> QED
    BY <2>1, TypeStep, LibStep, FinSaver, FinWorld, FinFinish
<1> QED
  BY <1>1, <1>2, PTL DEF Spec

\* "Save & finish" never stops a run whose map it has not captured: what the manifest
\* has when the stop begins is a grid of this run no older than the button.
THEOREM StopsAfterGrid == Spec => StopAfterGrid
<1> DEFINE Step == fin.step = "grid" /\ fin'.step = "stopping" /\ run.nodes = "up"
                   /\ run.n = fin.run => man.grid >= fin.since
<1>1. TypeOK /\ LibInv /\ FinInv /\ [Next]_vars => [Step]_vars
  <2>1. ASSUME TypeOK, LibInv, FinInv, [Next]_vars, fin.step = "grid", fin'.step = "stopping",
               run.nodes = "up", run.n = fin.run
        PROVE  man.grid >= fin.since
    <3>0. fin \in Fins /\ saver \in Savers
      BY <2>1 DEF TypeOK, Fins
    <3>1. AfterGrid
      <4>1. (\E rc : Exits(rc)) => fin'.step = "grid"
        BY <2>1, <3>0 DEF Exits, Fins
      <4>2. TimesOut => fin'.step = "grid"
        BY <2>1, <3>0 DEF TimesOut, Fins
      <4>3. SaverStep \/ CopyFails \/ Killed => fin' = fin \/ \E rc : Exits(rc)
        BY DEF SaverStep, InitEntry, Look, SaveGrid, AddGrid, Backup, CopyDb, Fill, Vacuum,
               Publish, WriteEntry, CopyFails, Killed
      <4>4. ~Finish
        BY <2>1 DEF Finish, Finishing
      <4>5. ~StopRun /\ ~SaveGraph /\ ~AfterGraph
        BY <2>1 DEF StopRun, SaveGraph, AfterGraph
      <4>6. Start \/ Explore \/ Load \/ Down \/ SaveByHand \/ Unfetch \/ Fetch \/ Remove
              \/ UNCHANGED vars => fin' = fin
        BY DEF Start, Explore, Load, Down, SaveByHand, Unfetch, Fetch, Remove, Replaced, vars
      <4> QED
        BY <2>1, <4>1, <4>2, <4>3, <4>4, <4>5, <4>6 DEF Next, FinishStep
    <3>2. fin.rc = "ok"
      BY <2>1, <3>1 DEF AfterGrid, Ended
    <3> QED
      BY <2>1, <3>2 DEF FinInv, GridInv
  <2> QED
    BY <2>1
<1>2. [][Step]_vars => StopAfterGrid
  BY PTL DEF StopAfterGrid
<1> QED
  BY <1>1, <1>2, FinReached, PTL DEF Spec

\* When the manifest as it is read back has nothing but complete databases, and has
\* heard of the primary's, that one can be loaded.
LEMMA AllComplete ==
  ASSUME TypeOK, LibInv, Rollup(ReadManifest) = "complete", man.dbs[Primary].st # "none"
  PROVE  man.dbs[Primary].st = "complete" /\ CanLoad(Primary)
<1>0. /\ man \in Manifest /\ file \in [Robots -> File] /\ Primary \in Robots
      /\ man.dbs[Primary] \in Entry /\ file[Primary] \in File
  BY LibraryAssumption DEF TypeOK, Manifest
<1>1. ReadManifest \in Manifest /\ ReadManifest.dbs[Primary].st # "none"
  BY <1>0, Reads
<1> HIDE DEF ReadManifest
<1>2. ReadManifest.dbs[Primary].st \in States(ReadManifest)
  BY <1>0, <1>1 DEF States
<1>3. ReadManifest.dbs[Primary].st \in {"complete", "missing", "pointer"}
  BY <1>0, <1>1 DEF Manifest, Entry
<1>4. ReadManifest.dbs[Primary].st = "complete"
  BY <1>2, <1>3 DEF Rollup
<1>5. Reconciled(man.dbs[Primary], file[Primary]).st = "complete"
  BY <1>0, <1>4, Reads
<1>6. man.dbs[Primary].st = "complete" /\ file[Primary].is \in {"part", "whole"}
  BY <1>0, <1>5 DEF Reconciled, Entry, File
<1>7. file[Primary].is = "whole"
  BY <1>0, <1>6 DEF LibInv, FileInv
<1> QED
  BY <1>0, <1>6, <1>7, Loadable

\* "done" is said only of a run whose database is in the entry, whole and loadable.
THEOREM FinishKeepsTheRun == Spec => FinishKeepsRun
<1> DEFINE Step == fin.step = "pose graph" /\ fin'.step = "done" /\ run.n = fin.run
                   /\ run.open = "working"
                     => /\ man.dbs[Primary] = [st |-> "complete", ver |-> live[Primary]]
                        /\ CanLoad(Primary)
<1>1. TypeOK /\ LibInv /\ FinInv /\ [Next]_vars => [Step]_vars
  <2>1. ASSUME TypeOK, LibInv, FinInv, [Next]_vars, fin.step = "pose graph", fin'.step = "done",
               run.n = fin.run
        PROVE  /\ man.dbs[Primary] = [st |-> "complete", ver |-> live[Primary]]
               /\ CanLoad(Primary)
    <3>0. /\ fin \in Fins /\ saver \in Savers /\ man \in Manifest /\ Primary \in Robots
          /\ man.dbs[Primary] \in Entry
      BY <2>1, LibraryAssumption DEF TypeOK, Fins, Manifest
    <3>1. AfterGraph
      <4>1. (\E rc : Exits(rc)) => fin'.step = "pose graph"
        BY <2>1, <3>0 DEF Exits, Fins
      <4>2. TimesOut => fin'.step = "pose graph"
        BY <2>1, <3>0 DEF TimesOut, Fins
      <4>3. SaverStep \/ CopyFails \/ Killed => fin' = fin \/ \E rc : Exits(rc)
        BY DEF SaverStep, InitEntry, Look, SaveGrid, AddGrid, Backup, CopyDb, Fill, Vacuum,
               Publish, WriteEntry, CopyFails, Killed
      <4>4. ~Finish
        BY <2>1 DEF Finish, Finishing
      <4>5. ~StopRun /\ ~SaveGraph /\ ~AfterGrid
        BY <2>1 DEF StopRun, SaveGraph, AfterGrid
      <4>6. Start \/ Explore \/ Load \/ Down \/ SaveByHand \/ Unfetch \/ Fetch \/ Remove
              \/ UNCHANGED vars => fin' = fin
        BY DEF Start, Explore, Load, Down, SaveByHand, Unfetch, Fetch, Remove, Replaced, vars
      <4> QED
        BY <2>1, <4>1, <4>2, <4>3, <4>4, <4>5, <4>6 DEF Next, FinishStep
    <3>2. fin.rc = "ok" /\ Rollup(ReadManifest) = "complete"
      BY <2>1, <3>1 DEF AfterGraph, Ended
    <3>3. RunEntry(man)
      BY <2>1, <3>2 DEF FinInv, GraphInv
    <3>4. man.dbs[Primary].st = "complete" /\ CanLoad(Primary)
      BY <2>1, <3>2, <3>3, AllComplete DEF RunEntry
    <3>5. man.dbs[Primary].ver = live[Primary]
      BY <3>3, <3>4 DEF RunEntry
    <3> QED
      BY <3>0, <3>4, <3>5 DEF Entry
  <2> QED
    BY <2>1
<1>2. [][Step]_vars => FinishKeepsRun
  BY PTL DEF FinishKeepsRun
<1> QED
  BY <1>1, <1>2, FinReached, PTL DEF Spec
=============================================================================
