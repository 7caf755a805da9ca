----------------------- MODULE MigrationControlProofs -----------------------
(***************************************************************************)
(* Proofs about MigrationControl, for any sets of cancels and reauths,     *)
(* posted at any moment, any number of crashes and any failures of the     *)
(* steps.                                                                  *)
(***************************************************************************)
EXTENDS MigrationControl, TLAPS

-----------------------------------------------------------------------------
(* The program of a run.                                                   *)

Length == 16
Ops == {"phase", "preflight", "check", "do", "save"}

\* Each operation has an argument of its kind, a checkpoint follows its step,
\* and no operation sets NeedsReauth.
MainFits(i) ==
  /\ Main[i].op \in Ops
  /\ Main[i].op = "phase" => Main[i].arg \in Phases \ {"NeedsReauth"}
  /\ Main[i].op = "preflight" => Main[i].arg = "Failed"
  /\ Main[i].op = "check" => Main[i].arg \in {"finally", "cancelled"}
  /\ Main[i].op \in {"do", "save"} => Main[i].arg \in Steps

\* The program is what the invariant takes it to be.
LEMMA MainFacts ==
  /\ Len(Main) = Length
  /\ \A i \in 1..Length : MainFits(i)
  /\ Main[1].op # "save"
  /\ \A i \in 1..(Length - 1) :
       Main[i + 1].op = "save" => Main[i].op = "do" /\ Main[i].arg = Main[i + 1].arg
<1>1. Len(Main) = Length /\ Main[1].op # "save"
  BY DEF Main, Length
<1>2. \A i \in 1..Length : MainFits(i)
  <2> SUFFICES ASSUME NEW i \in 1..Length PROVE MainFits(i)
    OBVIOUS
  <2>1. i \in {1, 2, 3, 4, 5, 6, 7, 8, 9, 10, 11, 12, 13, 14, 15, 16}
    BY DEF Length
  <2> QED
    BY <2>1 DEF Main, MainFits, Ops, Phases, Steps
<1>3. \A i \in 1..(Length - 1) :
        Main[i + 1].op = "save" => Main[i].op = "do" /\ Main[i].arg = Main[i + 1].arg
  <2> SUFFICES ASSUME NEW i \in 1..15
               PROVE  Main[i + 1].op = "save"
                        => Main[i].op = "do" /\ Main[i].arg = Main[i + 1].arg
    BY DEF Length
  <2>1. i \in {1, 2, 3, 4, 5, 6, 7, 8, 9, 10, 11, 12, 13, 14, 15}
    OBVIOUS
  <2> QED
    BY <2>1 DEF Main
<1> QED
  BY <1>1, <1>2, <1>3

-----------------------------------------------------------------------------
(* Typing.                                                                 *)

Places == {"idle", "queued", "main", "cancelled", "undo", "report",
           "finally", "clear", "over"}

\* Only a run that is about to write the resource holds what it read.
Reading(r) ==
  run[r].seen # None
    => \/ run[r].at = "report"
       \/ run[r].at = "main" /\ Op(r).op \in {"phase", "save"}

\* A run starts when its request has been answered.
Fresh(r) == req[r].at # "done" => run[r].at = "idle"

TypeInv == TypeOK /\ \A r \in Runs : Reading(r) /\ Fresh(r)

\* The initial state is well-typed.
LEMMA InitType == Init => TypeInv
<1> SUFFICES ASSUME Init PROVE TypeInv
  OBVIOUS
<1>1. Idle \in RunState
  BY MainFacts DEF Idle, RunState, Phases, Length
<1>2. [at |-> "new", seen |-> None] \in ReqState
  BY DEF ReqState
<1>3. cr \in Status
  BY DEF Init, Status, Phases
<1>4. run \in [Runs -> RunState] /\ req \in [Requests -> ReqState]
  BY <1>1, <1>2 DEF Init
<1>5. crashes \in 0..MaxCrashes
  BY ControlAssumption DEF Init
<1>6. \A r \in Runs : Reading(r) /\ Fresh(r)
  BY DEF Init, Reading, Fresh, Idle
<1> QED
  BY <1>3, <1>4, <1>5, <1>6 DEF Init, TypeInv, TypeOK

\* A status read, and one written back, is a status.
LEMMA StatusType ==
  ASSUME NEW s \in Status \cup {None}
  PROVE  /\ \A p \in Phases : [s EXCEPT !.phase = p] \in Status
         /\ s \in Status => \A x \in Steps : [s EXCEPT !.steps = @ \cup {x}] \in Status
         /\ s \in Status => s # None
BY DEF Status, None, Phases

\* Each way in which a run moves keeps the runs' types.
LEMMA MoveType ==
  ASSUME TypeOK, NEW r \in Runs
  PROVE  /\ \A at \in Places : Move(r, at) => run' \in [Runs -> RunState]
         /\ \A p \in Phases : LastPhase(r, p) => run' \in [Runs -> RunState]
         /\ \A s \in Status : Hold(r, s) => run' \in [Runs -> RunState]
         /\ Advance(r) => run' \in [Runs -> RunState]
<1>0. run \in [Runs -> RunState]
  BY DEF TypeOK
<1> DEFINE Ips == 1..Len(Main)
<1>a. RunState = [at : Places, ip : Ips, goal : Phases, seen : Status \cup {None}]
  BY DEF RunState, Places
<1>b. "report" \in Places /\ "finally" \in Places /\ "main" \in Places
  BY DEF Places
<1>1. ASSUME NEW at \in Places, Move(r, at) PROVE run' \in [Runs -> RunState]
  <2> HIDE DEF Ips
  <2> QED BY <1>0, <1>a, <1>1 DEF Move
<1>2. ASSUME NEW p \in Phases, LastPhase(r, p) PROVE run' \in [Runs -> RunState]
  <2> HIDE DEF Ips
  <2> QED BY <1>0, <1>a, <1>b, <1>2 DEF LastPhase
<1>3. ASSUME NEW s \in Status, Hold(r, s) PROVE run' \in [Runs -> RunState]
  <2> HIDE DEF Ips
  <2> QED BY <1>0, <1>a, <1>3 DEF Hold
<1>4. ASSUME Advance(r) PROVE run' \in [Runs -> RunState]
  <2>1. /\ run[r].ip \in Ips
        /\ (IF run[r].ip = Len(Main) THEN run[r].ip ELSE run[r].ip + 1) \in Ips
    BY <1>0, <1>a, MainFacts DEF Length
  <2> HIDE DEF Ips
  <2> QED BY <1>0, <1>a, <1>b, <1>4, <2>1 DEF Advance
<1> QED
  BY <1>1, <1>2, <1>3, <1>4

\* A step of a run keeps the types.
LEMMA RunType == ASSUME TypeInv, NEW r \in Runs, RunStep(r) PROVE TypeOK'
<1>1. /\ TypeOK /\ cr \in Status /\ run[r] \in RunState
      /\ run[r].ip \in 1..Length /\ run[r].seen \in Status \cup {None}
      /\ run[r].goal \in Phases
  BY MainFacts DEF TypeInv, TypeOK, RunState
<1>2. MainFits(run[r].ip) /\ Op(r) = Main[run[r].ip]
  BY <1>1, MainFacts DEF Op
<1>3. {"main", "over", "finally", "cancelled", "undo", "clear"} \subseteq Places
  BY DEF Places
<1>4. {"Failed", "RolledBack", "NeedsAttention", "NeedsReauth"} \subseteq Phases
  BY DEF Phases
<1>5. CASE Assemble(r) \/ ReadStatus(r) \/ Preflight(r) \/ Check(r)
  <2>1. run' \in [Runs -> RunState]
    BY <1>1, <1>2, <1>3, <1>4, <1>5, MoveType
       DEF Assemble, ReadStatus, Preflight, Check, MainFits
  <2> QED
    BY <1>1, <1>5, <2>1 DEF Assemble, ReadStatus, Preflight, Check, TypeOK, ghosts
<1>6. CASE WriteStatus(r)
  <2>1. run[r].seen \in Status /\ Op(r).op \in {"phase", "save"}
    BY <1>1, <1>6 DEF WriteStatus, TypeInv, Reading, At
  <2>2. cr' \in Status /\ saved' \in SUBSET Steps
    BY <1>1, <1>2, <1>6, <2>1, StatusType DEF WriteStatus, MainFits, TypeOK
  <2>3. run' \in [Runs -> RunState]
    BY <1>1, <1>6, MoveType DEF WriteStatus
  <2> QED
    BY <1>1, <1>6, <2>2, <2>3 DEF WriteStatus, TypeOK
<1>7. CASE Do(r)
  <2>1. did' \in SUBSET Steps
    BY <1>1, <1>2, <1>7 DEF Do, MainFits, TypeOK
  <2>2. run' \in [Runs -> RunState]
    BY <1>1, <1>3, <1>4, <1>7, MoveType DEF Do
  <2> QED
    BY <1>1, <1>7, <2>1, <2>2 DEF Do, TypeOK
<1>8. CASE UndoCancelled(r) \/ Undo(r) \/ Finally(r) \/ ClearToken(r)
  <2>1. run' \in [Runs -> RunState]
    BY <1>1, <1>3, <1>4, <1>8, MoveType DEF UndoCancelled, Undo, Finally, ClearToken
  <2> QED
    BY <1>1, <1>8, <2>1 DEF UndoCancelled, Undo, Finally, ClearToken, TypeOK, ghosts
<1>9. CASE Report(r)
  <2>1. cr' \in Status
    BY <1>1, <1>9, StatusType DEF Report
  <2>2. run' \in [Runs -> RunState]
    BY <1>1, <1>9 DEF Report, TypeOK, RunState
  <2> QED
    BY <1>1, <1>9, <2>1, <2>2 DEF Report, TypeOK, ghosts
<1> QED
  BY <1>5, <1>6, <1>7, <1>8, <1>9 DEF RunStep

\* So does a step of a request, and a crash.
LEMMA RequestType == ASSUME TypeOK, NEW q \in Requests, RequestStep(q) PROVE TypeOK'
<1>1. /\ cr \in Status /\ req[q] \in ReqState /\ req \in [Requests -> ReqState]
      /\ req[q].seen \in Status \cup {None}
  BY DEF TypeOK, ReqState
<1>2. CASE StoreToken(q)
  BY <1>1, <1>2 DEF StoreToken, Reach, TypeOK, ReqState, ghosts
<1>3. CASE Schedule(q)
  <2>1. run' \in [Runs -> RunState]
    <3>1. CASE q \in Runs
      BY <1>3, <3>1, MoveType DEF Schedule, Places
    <3>2. CASE q \notin Runs
      BY <1>3, <3>2 DEF Schedule, Move, TypeOK
    <3> QED
      BY <3>1, <3>2
  <2> QED
    BY <1>1, <1>3, <2>1 DEF Schedule, Reach, TypeOK, ReqState, ghosts
<1>4. CASE ReadForRequest(q)
  BY <1>1, <1>4 DEF ReadForRequest, TypeOK, ReqState, ghosts
<1>5. CASE WriteForRequest(q)
  <2>1. cr' \in Status
    <3>1. \E p \in Phases : cr' = [req[q].seen EXCEPT !.phase = p]
      BY <1>5 DEF WriteForRequest, Phases
    <3> QED
      BY <1>1, <3>1, StatusType
  <2> QED
    <3>1. req' \in [Requests -> ReqState]
      BY <1>1, <1>5 DEF WriteForRequest, ReqState
    <3>2. timely' \in BOOLEAN
      BY <1>5 DEF WriteForRequest, TypeOK
    <3> QED
      BY <1>1, <1>5, <2>1, <3>1, <3>2 DEF WriteForRequest, TypeOK
<1> QED
  BY <1>2, <1>3, <1>4, <1>5 DEF RequestStep

\* A crash keeps the types.
LEMMA CrashType == ASSUME TypeOK, Crash PROVE TypeOK'
<1>1. \A r \in Runs : [run[r] EXCEPT !.at = "over", !.seen = None] \in RunState
  BY DEF TypeOK, RunState
<1>2. [at |-> "done", seen |-> None] \in ReqState
  BY DEF ReqState
<1>3. run' \in [Runs -> RunState] /\ req' \in [Requests -> ReqState]
  BY <1>1, <1>2 DEF Crash, TypeOK
<1>4. crashes' \in 0..MaxCrashes
  <2>1. crashes \in 0..MaxCrashes /\ crashes < MaxCrashes /\ crashes' = crashes + 1
    BY DEF Crash, TypeOK
  <2> QED
    BY <2>1, ControlAssumption
<1> QED
  BY <1>3, <1>4 DEF Crash, TypeOK, ghosts

-----------------------------------------------------------------------------
(* What the moves of a run and of a request change.                        *)

\* A run that moves keeps its place in the program, its goal and what it read.
LEMMA MoveEffect ==
  ASSUME TypeOK, NEW r \in Runs, NEW at, Move(r, at)
  PROVE  /\ run'[r].at = at /\ run'[r].ip = run[r].ip /\ run'[r].goal = run[r].goal
         /\ run'[r].seen = run[r].seen
         /\ \A s \in Runs \ {r} : run'[s] = run[s]
BY DEF Move, TypeOK, RunState

\* One that is to set a last phase gets a goal.
LEMMA LastPhaseEffect ==
  ASSUME TypeOK, NEW r \in Runs, NEW p, LastPhase(r, p)
  PROVE  /\ run'[r].at = "report" /\ run'[r].ip = run[r].ip /\ run'[r].goal = p
         /\ run'[r].seen = run[r].seen
         /\ \A s \in Runs \ {r} : run'[s] = run[s]
BY DEF LastPhase, TypeOK, RunState

\* One that reads the resource holds what it read.
LEMMA HoldEffect ==
  ASSUME TypeOK, NEW r \in Runs, NEW s, Hold(r, s)
  PROVE  /\ run'[r].at = run[r].at /\ run'[r].ip = run[r].ip
         /\ run'[r].goal = run[r].goal /\ run'[r].seen = s
         /\ \A t \in Runs \ {r} : run'[t] = run[t]
BY DEF Hold, TypeOK, RunState

\* One that goes on lets go of what it read; the operation it goes to, if it
\* writes a checkpoint, writes that of the operation it leaves.
LEMMA AdvanceEffect ==
  ASSUME TypeOK, NEW r \in Runs, Advance(r)
  PROVE  /\ run'[r].at \in {"main", "finally"} /\ run'[r].goal = run[r].goal
         /\ run'[r].seen = None
         /\ Op(r)'.op = "save"
              => \/ Op(r) = Op(r)'
                 \/ Op(r).op = "do" /\ Op(r).arg = Op(r)'.arg
         /\ \A s \in Runs \ {r} : run'[s] = run[s]
<1>1. run \in [Runs -> RunState] /\ run[r].ip \in 1..Length
  BY MainFacts DEF TypeOK, RunState
<1>2. /\ run'[r].at \in {"main", "finally"} /\ run'[r].goal = run[r].goal
      /\ run'[r].seen = None
      /\ run'[r].ip = IF run[r].ip = Len(Main) THEN run[r].ip ELSE run[r].ip + 1
      /\ \A s \in Runs \ {r} : run'[s] = run[s]
  BY <1>1 DEF Advance, RunState
<1>3. CASE run[r].ip = Len(Main)
  BY <1>2, <1>3 DEF Op
<1>4. CASE run[r].ip # Len(Main)
  <2>1. run[r].ip \in 1..(Length - 1) /\ run'[r].ip = run[r].ip + 1
    BY <1>1, <1>2, <1>4, MainFacts DEF Length
  <2> QED
    BY <1>2, <2>1, MainFacts DEF Op
<1> QED
  BY <1>3, <1>4

\* A request that moves on, holding what it holds.
LEMMA ReachEffect ==
  ASSUME TypeOK, NEW q \in Requests, NEW at, Reach(q, at)
  PROVE  /\ req'[q].at = at /\ req'[q].seen = req[q].seen
         /\ \A p \in Requests \ {q} : req'[p] = req[p]
BY DEF Reach, TypeOK, ReqState

\* A crash ends the runs that have begun and the requests being handled.
LEMMA CrashEffect ==
  ASSUME TypeInv, Crash
  PROVE  /\ \A r \in Runs :
              /\ run'[r].at = IF run[r].at = "idle" THEN "idle" ELSE "over"
              /\ run'[r].ip = run[r].ip /\ run'[r].goal = run[r].goal
              /\ run'[r].seen = None
         /\ \A q \in Requests :
              IF q \in Cancels \cup Reauths /\ req[q].at = "new"
              THEN req'[q] = req[q] ELSE req'[q].at = "done"
<1>1. ASSUME NEW r \in Runs
      PROVE  /\ run'[r].at = IF run[r].at = "idle" THEN "idle" ELSE "over"
             /\ run'[r].ip = run[r].ip /\ run'[r].goal = run[r].goal
             /\ run'[r].seen = None
  <2>1. run[r] \in RunState /\ Reading(r)
    BY DEF TypeInv, TypeOK
  <2>2. CASE run[r].at = "idle"
    BY <2>1, <2>2 DEF Crash, Reading
  <2>3. CASE run[r].at # "idle"
    <3>1. run'[r] = [run[r] EXCEPT !.at = "over", !.seen = None]
      BY <2>3 DEF Crash
    <3> QED
      BY <2>1, <2>3, <3>1 DEF RunState
  <2> QED
    BY <2>2, <2>3
<1>2. ASSUME NEW q \in Requests
      PROVE  IF q \in Cancels \cup Reauths /\ req[q].at = "new"
             THEN req'[q] = req[q] ELSE req'[q].at = "done"
  BY DEF Crash
<1> QED
  BY <1>1, <1>2

-----------------------------------------------------------------------------
(* The types hold.                                                         *)

\* A step of a run leaves the other runs alone, and holds a status only where
\* the run is about to write it.
LEMMA RunReading ==
  ASSUME TypeInv, NEW r \in Runs, RunStep(r)
  PROVE  Reading(r)' /\ \A s \in Runs \ {r} : run'[s] = run[s]
<1>1. TypeOK /\ Reading(r)
  BY DEF TypeInv
<1> DEFINE Others == \A s \in Runs \ {r} : run'[s] = run[s]
<1>2. ASSUME NEW at, Move(r, at),
             run[r].at = "main" => Op(r).op \notin {"phase", "save"},
             run[r].at # "report"
      PROVE  Reading(r)' /\ Others
  BY <1>1, <1>2, MoveEffect DEF Reading, Op
<1>3. ASSUME NEW p, LastPhase(r, p) PROVE Reading(r)' /\ Others
  BY <1>1, <1>3, LastPhaseEffect DEF Reading, Op
<1>4. ASSUME Advance(r) PROVE Reading(r)' /\ Others
  BY <1>1, <1>4, AdvanceEffect DEF Reading
<1>5. CASE Assemble(r) \/ Finally(r) \/ ClearToken(r)
  BY <1>2, <1>5 DEF Assemble, Finally, ClearToken, At
<1>6. CASE ReadStatus(r)
  <2>1. Hold(r, cr)
    BY <1>6 DEF ReadStatus
  <2> QED
    BY <1>1, <1>6, <2>1, HoldEffect DEF ReadStatus, Reading, Op, At
<1>7. CASE WriteStatus(r)
  BY <1>4, <1>7 DEF WriteStatus
<1>8. CASE Preflight(r)
  BY <1>3, <1>4, <1>8 DEF Preflight
<1>9. CASE Check(r)
  BY <1>2, <1>4, <1>9 DEF Check, At
<1>10. CASE Do(r)
  BY <1>2, <1>3, <1>4, <1>10 DEF Do, At
<1>11. CASE UndoCancelled(r) \/ Undo(r)
  BY <1>2, <1>3, <1>11 DEF UndoCancelled, Undo, At
<1>12. CASE Report(r)
  BY <1>1, <1>12 DEF Report, Reading, TypeOK, RunState
<1> QED
  BY <1>5, <1>6, <1>7, <1>8, <1>9, <1>10, <1>11, <1>12 DEF RunStep

\* A step of a request leaves the runs alone, or schedules the run of its own,
\* which had not begun; the other requests stay where they are.
LEMMA RequestReading ==
  ASSUME TypeInv, NEW q \in Requests, RequestStep(q)
  PROVE  /\ \A p \in Requests \ {q} : req'[p] = req[p]
         /\ req[q].at # "done"
         /\ \A r \in Runs : ~(Schedule(q) /\ r = q) => run'[r] = run[r]
         /\ Schedule(q) /\ q \in Runs
              => /\ run'[q].at = "queued" /\ run'[q].ip = run[q].ip
                 /\ run'[q].goal = run[q].goal /\ run'[q].seen = None
                 /\ run[q].at = "idle" /\ req'[q].at = "done"
<1>1. TypeOK /\ req \in [Requests -> ReqState]
  BY DEF TypeInv, TypeOK
<1>2. CASE StoreToken(q) \/ ReadForRequest(q) \/ WriteForRequest(q)
  <2>1. run' = run /\ req[q].at # "schedule" /\ req[q].at # "done"
    BY <1>2 DEF StoreToken, ReadForRequest, WriteForRequest
  <2>2. ~Schedule(q)
    BY <2>1 DEF Schedule
  <2>3. \A p \in Requests \ {q} : req'[p] = req[p]
    BY <1>1, <1>2 DEF StoreToken, Reach, ReadForRequest, WriteForRequest
  <2> QED
    BY <2>1, <2>2, <2>3
<1>3. CASE Schedule(q) /\ q \in Runs
  <2>1. run[q].at = "idle" /\ run[q].seen = None
    BY <1>3 DEF TypeInv, Fresh, Reading, Schedule
  <2>2. Move(q, "queued") /\ Reach(q, "done") /\ req[q].at = "schedule"
    BY <1>3 DEF Schedule
  <2> QED
    BY <1>1, <1>3, <2>1, <2>2, MoveEffect, ReachEffect
<1>4. CASE Schedule(q) /\ q \notin Runs
  <2>1. run' = run
    BY <1>1, <1>4 DEF Schedule, Move, TypeOK
  <2> QED
    BY <1>1, <1>4, <2>1, ReachEffect DEF Schedule
<1> QED
  BY <1>2, <1>3, <1>4 DEF RequestStep

\* The types are an inductive invariant together with Reading and Fresh.
LEMMA TypeStep == TypeInv /\ [Next]_vars => TypeInv'
<1> SUFFICES ASSUME TypeInv, [Next]_vars PROVE TypeInv'
  OBVIOUS
<1>1. ASSUME NEW r \in Runs, RunStep(r) PROVE TypeInv'
  <2>1. TypeOK'
    BY <1>1, RunType
  <2>2. Reading(r)' /\ \A s \in Runs \ {r} : run'[s] = run[s]
    BY <1>1, RunReading
  <2>3. \A s \in Runs \ {r} : Reading(s)'
    BY <2>2 DEF TypeInv, Reading, Op
  <2>4. run[r].at # "idle" /\ req' = req
    BY <1>1 DEF RunStep, Assemble, ReadStatus, WriteStatus, Preflight, Check,
                Do, UndoCancelled, Undo, Report, Finally, ClearToken, At
  <2>5. \A s \in Runs : Fresh(s)'
    BY <2>2, <2>4 DEF TypeInv, Fresh
  <2> QED
    BY <2>1, <2>2, <2>3, <2>5 DEF TypeInv
<1>2. ASSUME NEW q \in Requests, RequestStep(q) PROVE TypeInv'
  <2>1. TypeOK'
    BY <1>2, RequestType DEF TypeInv
  <2>2. ASSUME NEW r \in Runs PROVE Reading(r)' /\ Fresh(r)'
    <3>1. r \in Requests
      BY DEF Runs, Requests
    <3>2. CASE Schedule(q) /\ r = q
      BY <1>2, <3>2, RequestReading DEF Reading, Fresh
    <3>3. CASE ~(Schedule(q) /\ r = q)
      <4>1. /\ run'[r] = run[r] /\ (r # q => req'[r] = req[r])
            /\ req[q].at # "done"
        BY <1>2, <3>1, <3>3, RequestReading
      <4>2. Reading(r)'
        BY <4>1 DEF TypeInv, Reading, Op
      <4>3. Fresh(r)'
        BY <4>1 DEF TypeInv, Fresh
      <4> QED
        BY <4>2, <4>3
    <3> QED
      BY <3>2, <3>3
  <2> QED
    BY <2>1, <2>2 DEF TypeInv
<1>3. CASE Crash
  <2>1. TypeOK'
    BY <1>3, CrashType DEF TypeInv
  <2>2. ASSUME NEW r \in Runs PROVE Reading(r)' /\ Fresh(r)'
    <3>1. r \in Requests
      BY DEF Runs, Requests
    <3>2. run'[r].seen = None /\ (run'[r].at = "idle" <=> run[r].at = "idle")
      BY <1>3, CrashEffect
    <3>3. req'[r] = req[r] \/ req'[r].at = "done"
      BY <1>3, <3>1, CrashEffect
    <3> QED
      BY <3>2, <3>3 DEF TypeInv, Reading, Fresh
  <2> QED
    BY <2>1, <2>2 DEF TypeInv
<1>4. CASE UNCHANGED vars
  BY <1>4 DEF vars, ghosts, TypeInv, TypeOK, Reading, Fresh, Op
<1> QED
  BY <1>1, <1>2, <1>3, <1>4 DEF Next

\* Every variable keeps its type, in particular whoever writes the resource
\* writes a status (store/migrations.py:32-58), whatever clients post, however
\* many runs they start and wherever the POD crashes.
THEOREM ControlTypeCorrect == Spec => []TypeOK
<1>1. TypeInv => TypeOK
  BY DEF TypeInv
<1> QED
  BY InitType, TypeStep, <1>1, PTL DEF Spec

-----------------------------------------------------------------------------
(* The inductive invariant.  WrittenInv holds whatever clients post; the   *)
(* rest, Apart, until a reauth comes that no run waited for.               *)
(* That one run drives says nothing of who else                            *)
(* may start one: a run that waits for its thread, or a request that has   *)
(* stored its token, is as good as a driver, and NeedsReauth, which invites *)
(* a reauth, must mean that there is neither.  A status once read can be   *)
(* written much later, so what is held must not say NeedsReauth, or lack a *)
(* checkpoint, either.                                                     *)

Working(r) == run[r].at \in {"queued", "main", "cancelled", "undo", "report"}
Posting(q) == req[q].at \in {"stored", "write", "schedule"}

OneWriter ==
  /\ \A r, s \in Runs : Working(r) /\ Working(s) => r = s
  /\ \A p, q \in Runs : Posting(p) /\ Posting(q) => p = q
  /\ \A q, r \in Runs : Posting(q) => ~Working(r)
  /\ cr.phase = "NeedsReauth"
       => \A r \in Runs : ~Working(r) /\ req[r].at # "schedule"
  /\ \A r \in Runs : run[r].seen.phase # "NeedsReauth"
  /\ req[Launch].at \in {"new", "schedule", "done"}
  /\ req[Launch].at = "new"
       => /\ cr.phase \in {"Pending", "Cancelled"}
          /\ \A r \in Runs : run[r].at = "idle" /\ req[r].at = "new"
  /\ \A c \in Cancels : req[c].at \in {"new", "write", "done"}

NoCancelYet == \A c \in Cancels : req[c].at = "new"

\* What the resource has, and what anybody holds of it, was written after its
\* step was carried out.
WrittenInv ==
  /\ saved \subseteq did
  /\ \A r \in Runs : Op(r).op = "save" => Op(r).arg \in did
  /\ cr.steps \subseteq saved
  /\ \A r \in Runs : run[r].seen.steps \subseteq saved
  /\ \A q \in Requests : req[q].seen.steps \subseteq saved

SavedExact ==
  NoCancelYet
    => /\ cr.steps = saved
       /\ \A r \in Runs : run[r].seen # None => run[r].seen.steps = saved
       /\ \A q \in Reauths : req[q].at = "write" => req[q].seen.steps = saved

TokenExact ==
  /\ \A q \in Reauths : req[q].at # "new" => token # "launch"
  /\ \A q \in Reauths : run[q].at # "idle" => req[q].at # "new"
  /\ cr.phase = "NeedsReauth"
       => run[Launch].goal = "NeedsReauth" \/ \E q \in Reauths : req[q].at # "new"
  /\ run[Launch].at \in {"idle", "queued"} => run[Launch].ip = 1
  /\ TokenGoesWithRun

Apart == OneWriter /\ SavedExact /\ TokenExact

CInv == TypeInv /\ WrittenInv /\ (~crossed => Apart)

\* Launch is not a reauth, and every run has a request.
LEMMA LaunchFacts ==
  /\ Launch \in Runs /\ Launch \in Requests
  /\ Launch \notin Reauths /\ Launch \notin Cancels
  /\ Runs \subseteq Requests /\ Reauths \subseteq Runs /\ Cancels \cap Runs = {}
  /\ \A r \in Runs : r = Launch \/ r \in Reauths
BY ControlAssumption DEF Launch, Runs, Requests

\* The invariant holds at the start.
LEMMA InitInv == Init => CInv
<1> SUFFICES ASSUME Init PROVE CInv
  OBVIOUS
<1>1. OneWriter
  BY LaunchFacts DEF Init, OneWriter, Working, Posting, Idle, None, Runs, Requests
<1>2. SavedExact
  BY MainFacts, LaunchFacts DEF Init, SavedExact, Idle, None, Op
<1>3. TokenExact
  BY LaunchFacts DEF Init, TokenExact, TokenGoesWithRun, Idle
<1>4. WrittenInv
  BY MainFacts, LaunchFacts DEF Init, WrittenInv, Idle, None, Op
<1> QED
  BY <1>1, <1>2, <1>3, <1>4, InitType DEF CInv, Apart

-----------------------------------------------------------------------------
(* What the steps of a run do to what the invariant speaks of.             *)

\* Changing the phase, or adding a step, changes nothing else.
LEMMA StatusEffect ==
  ASSUME NEW s \in Status
  PROVE  /\ \A p : [s EXCEPT !.phase = p].phase = p
                   /\ [s EXCEPT !.phase = p].steps = s.steps
         /\ \A x : [s EXCEPT !.steps = @ \cup {x}].phase = s.phase
                   /\ [s EXCEPT !.steps = @ \cup {x}].steps = s.steps \cup {x}
BY DEF Status

\* A run that writes the resource writes what it read with a phase, which is
\* NeedsReauth only if it ends there, or with the checkpoint it is at.
LEMMA RunWrites ==
  ASSUME TypeInv, NEW r \in Runs, RunStep(r)
  PROVE  \/ cr' = cr /\ saved' = saved
         \/ /\ Working(r) /\ run[r].seen # None /\ saved' = saved
            /\ cr'.steps = run[r].seen.steps
            /\ \/ cr'.phase # "NeedsReauth"
               \/ ~Working(r)' /\ run'[r].goal = "NeedsReauth"
         \/ /\ Working(r) /\ run[r].seen # None /\ Op(r).op = "save"
            /\ cr'.phase = run[r].seen.phase
            /\ cr'.steps = run[r].seen.steps \cup {Op(r).arg}
            /\ saved' = saved \cup {Op(r).arg}
<1>1. /\ TypeOK /\ run[r].ip \in 1..Length /\ run[r].seen \in Status \cup {None}
      /\ run \in [Runs -> RunState]
  BY MainFacts DEF TypeInv, TypeOK, RunState
<1>2. MainFits(run[r].ip) /\ Op(r) = Main[run[r].ip]
  BY <1>1, MainFacts DEF Op
<1>3. CASE WriteStatus(r)
  <2>1. Working(r) /\ run[r].seen # None /\ run[r].seen \in Status
    BY <1>1, <1>3 DEF WriteStatus, At, Working
  <2>2. CASE Op(r).op = "phase"
    <3>1. cr' = [run[r].seen EXCEPT !.phase = Op(r).arg] /\ saved' = saved
      BY <1>3, <2>2 DEF WriteStatus
    <3>2. Op(r).arg # "NeedsReauth"
      BY <1>2, <2>2 DEF MainFits
    <3> QED
      BY <2>1, <3>1, <3>2, StatusEffect
  <2>3. CASE Op(r).op # "phase"
    <3>1. Op(r).op = "save"
      BY <1>3, <2>1, <2>3 DEF WriteStatus, TypeInv, Reading, At
    <3>2. /\ cr' = [run[r].seen EXCEPT !.steps = @ \cup {Op(r).arg}]
          /\ saved' = saved \cup {Op(r).arg}
      BY <1>3, <2>3 DEF WriteStatus
    <3> QED
      BY <2>1, <3>1, <3>2, StatusEffect
  <2> QED
    BY <2>2, <2>3
<1>4. CASE Report(r)
  <2>1. /\ Working(r) /\ run[r].seen # None /\ run[r].seen \in Status
        /\ cr' = [run[r].seen EXCEPT !.phase = run[r].goal] /\ saved' = saved
    BY <1>1, <1>4 DEF Report, At, Working, ghosts
  <2>2. run'[r].at = "finally" /\ run'[r].goal = run[r].goal
    BY <1>1, <1>4 DEF Report, RunState
  <2> QED
    BY <2>1, <2>2, StatusEffect DEF Working
<1>5. CASE Assemble(r) \/ ReadStatus(r) \/ Preflight(r) \/ Check(r) \/ Do(r)
           \/ UndoCancelled(r) \/ Undo(r) \/ Finally(r) \/ ClearToken(r)
  BY <1>5 DEF Assemble, ReadStatus, Preflight, Check, Do, UndoCancelled, Undo,
              Finally, ClearToken, ghosts
<1> QED
  BY <1>3, <1>4, <1>5 DEF RunStep

\* A step of a run starts no run; only one that works gets a goal or reads the
\* resource; only one that has looked at the phase, or has no clients, ends.
LEMMA RunMoves ==
  ASSUME TypeInv, NEW r \in Runs, RunStep(r)
  PROVE  /\ req' = req /\ crashes' = crashes /\ token' \in {token, "none"}
         /\ run[r].at \notin {"idle", "over"}
         /\ run'[r].at \notin {"idle", "queued"}
         /\ Working(r)' => Working(r)
         /\ Working(r) \/ run'[r].goal = run[r].goal
         /\ run'[r].seen \in {run[r].seen, None} \/ (Working(r) /\ run'[r].seen = cr)
         /\ run'[r].at = "over"
              => \/ token' = "none"
                 \/ cr.phase = "NeedsReauth" /\ token' = token
                 \/ run[r].at = "queued" /\ run'[r].ip = run[r].ip
<1>1. TypeOK /\ run \in [Runs -> RunState]
  BY DEF TypeInv, TypeOK
<1>2. CASE Assemble(r)
  BY <1>1, <1>2, MoveEffect DEF Assemble, At, Working
<1>3. CASE ReadStatus(r)
  BY <1>1, <1>3, HoldEffect DEF ReadStatus, At, Working
<1>4. CASE WriteStatus(r)
  BY <1>1, <1>4, AdvanceEffect DEF WriteStatus, At, Working
<1>5. CASE Preflight(r)
  BY <1>1, <1>5, AdvanceEffect, LastPhaseEffect DEF Preflight, At, Working
<1>6. CASE Check(r)
  <2>1. Advance(r) \/ \E at \in {"finally", "cancelled"} : Move(r, at)
    <3>1. Op(r).arg \in {"finally", "cancelled"} \/ Advance(r)
      BY <1>1, <1>6, MainFacts DEF Check, Op, MainFits, RunState
    <3> QED
      BY <1>6, <3>1 DEF Check
  <2> QED
    BY <1>1, <1>6, <2>1, AdvanceEffect, MoveEffect DEF Check, At, Working
<1>7. CASE Do(r)
  BY <1>1, <1>7, AdvanceEffect, MoveEffect, LastPhaseEffect DEF Do, At, Working
<1>8. CASE UndoCancelled(r) \/ Undo(r)
  BY <1>1, <1>8, MoveEffect, LastPhaseEffect DEF UndoCancelled, Undo, At, Working
<1>9. CASE Report(r)
  BY <1>1, <1>9 DEF Report, At, Working, RunState
<1>10. CASE Finally(r)
  BY <1>1, <1>10, MoveEffect DEF Finally, At, Working
<1>11. CASE ClearToken(r)
  BY <1>1, <1>11, MoveEffect DEF ClearToken, At, Working
<1> QED
  BY <1>2, <1>3, <1>4, <1>5, <1>6, <1>7, <1>8, <1>9, <1>10, <1>11 DEF RunStep

-----------------------------------------------------------------------------
(* The steps of a run keep the invariant.                                  *)

\* A run that writes is the only one that works, and the phase it leaves is
\* NeedsReauth only when it is past its work.
LEMMA RunOneWriter ==
  ASSUME TypeInv, Apart, NEW r \in Runs, RunStep(r)
  PROVE  OneWriter'
<1>1. TypeInv /\ OneWriter
  BY DEF Apart
<1>2. /\ req' = req /\ run[r].at # "idle" /\ (Working(r)' => Working(r))
      /\ run'[r].seen \in {run[r].seen, None} \/ (Working(r) /\ run'[r].seen = cr)
      /\ \A s \in Runs \ {r} : run'[s] = run[s]
  BY <1>1, RunMoves, RunReading
<1>3. \A s \in Runs : Working(s)' => Working(s)
  BY <1>2 DEF Working
<1>4. \A p \in Runs : Posting(p)' <=> Posting(p)
  BY <1>2 DEF Posting
<1>5. req[Launch].at # "new"
  BY <1>1, <1>2 DEF OneWriter
<1>6. cr'.phase = "NeedsReauth"
        => \A s \in Runs : ~Working(s)' /\ req[s].at # "schedule"
  <2> SUFFICES ASSUME cr'.phase = "NeedsReauth"
               PROVE  \A s \in Runs : ~Working(s)' /\ req[s].at # "schedule"
    OBVIOUS
  <2>1. CASE cr' = cr
    BY <1>1, <1>3, <2>1 DEF OneWriter
  <2>2. CASE Working(r) /\ ~Working(r)'
    <3>1. \A s \in Runs \ {r} : ~Working(s)
      BY <1>1, <2>2 DEF OneWriter
    <3>2. \A s \in Runs : ~Posting(s)
      BY <1>1, <2>2 DEF OneWriter
    <3> QED
      BY <1>3, <2>2, <3>1, <3>2 DEF Posting
  <2>3. CASE cr'.phase = run[r].seen.phase
    BY <1>1, <2>3 DEF OneWriter
  <2> QED
    BY <1>1, <2>1, <2>2, <2>3, RunWrites
<1>7. run'[r].seen.phase # "NeedsReauth"
  <2>1. None.phase # "NeedsReauth" /\ (Working(r) => cr.phase # "NeedsReauth")
    BY <1>1 DEF None, OneWriter
  <2> QED
    BY <1>1, <1>2, <2>1 DEF OneWriter
<1>8. \A s \in Runs : run'[s].seen.phase # "NeedsReauth"
  BY <1>1, <1>2, <1>7 DEF OneWriter
<1> QED
  BY <1>1, <1>2, <1>3, <1>4, <1>5, <1>6, <1>8 DEF OneWriter

\* A run comes to a checkpoint by carrying out its step.
LEMMA RunProgram ==
  ASSUME TypeInv, NEW r \in Runs, RunStep(r)
  PROVE  /\ did \subseteq did'
         /\ Op(r)'.op = "save" => Op(r)' = Op(r) \/ Op(r)'.arg \in did'
<1>1. TypeOK
  BY DEF TypeInv
<1>2. CASE Assemble(r) \/ ReadStatus(r) \/ UndoCancelled(r) \/ Undo(r)
           \/ Report(r) \/ Finally(r) \/ ClearToken(r)
  <2>1. did' = did
    BY <1>2 DEF Assemble, ReadStatus, UndoCancelled, Undo, Report, Finally,
                ClearToken, ghosts
  <2>2. run'[r].ip = run[r].ip
    <3>1. CASE Assemble(r) \/ Finally(r) \/ ClearToken(r)
      BY <1>1, <3>1, MoveEffect DEF Assemble, Finally, ClearToken
    <3>2. CASE UndoCancelled(r) \/ Undo(r)
      BY <1>1, <3>2, MoveEffect, LastPhaseEffect DEF UndoCancelled, Undo
    <3>3. CASE ReadStatus(r)
      BY <1>1, <3>3, HoldEffect DEF ReadStatus
    <3>4. CASE Report(r)
      BY <1>1, <3>4 DEF Report, TypeOK, RunState
    <3> QED
      BY <1>2, <3>1, <3>2, <3>3, <3>4
  <2> QED
    BY <2>1, <2>2 DEF Op
<1>3. CASE WriteStatus(r) \/ Preflight(r) \/ Check(r)
  <2>1. did' = did
    BY <1>3 DEF WriteStatus, Preflight, Check, ghosts
  <2>2. Op(r).op # "do"
    BY <1>3 DEF WriteStatus, Preflight, Check, TypeInv, Reading, At
  <2>3. CASE Advance(r)
    BY <1>1, <2>1, <2>2, <2>3, AdvanceEffect
  <2>4. CASE ~Advance(r)
    <3>1. run'[r].ip = run[r].ip
      BY <1>1, <1>3, <2>4, MoveEffect, LastPhaseEffect
         DEF WriteStatus, Preflight, Check
    <3> QED
      BY <2>1, <3>1 DEF Op
  <2> QED
    BY <2>3, <2>4
<1>4. CASE Do(r)
  <2>1. CASE did' = did \cup {Op(r).arg} /\ Advance(r)
    BY <1>1, <2>1, AdvanceEffect
  <2>2. CASE did' = did /\ (Move(r, "undo") \/ LastPhase(r, "NeedsReauth"))
    <3>1. run'[r].ip = run[r].ip
      BY <1>1, <2>2, MoveEffect, LastPhaseEffect
    <3> QED
      BY <2>2, <3>1 DEF Op
  <2> QED
    BY <1>4, <2>1, <2>2 DEF Do
<1> QED
  BY <1>2, <1>3, <1>4 DEF RunStep

\* What a run writes was written before, or is the checkpoint of a step it did.
LEMMA RunWritten ==
  ASSUME TypeInv, WrittenInv, NEW r \in Runs, RunStep(r)
  PROVE  WrittenInv'
<1>1. TypeOK
  BY DEF TypeInv
<1>2. /\ req' = req
      /\ run'[r].seen \in {run[r].seen, None, cr}
      /\ \A s \in Runs \ {r} : run'[s] = run[s]
  BY RunMoves, RunReading
<1>3. saved \subseteq saved' /\ cr'.steps \subseteq saved'
  BY RunWrites DEF WrittenInv
<1>4. did \subseteq did' /\ saved' \subseteq did'
  <2>1. did \subseteq did' /\ saved \subseteq did
    BY RunProgram DEF WrittenInv
  <2>2. Op(r).op = "save" => Op(r).arg \in did
    BY DEF WrittenInv
  <2> QED
    BY <2>1, <2>2, RunWrites
<1>5. ASSUME NEW s \in Runs, Op(s)'.op = "save" PROVE Op(s)'.arg \in did'
  <2>1. CASE s = r
    BY <1>4, <1>5, <2>1, RunProgram DEF WrittenInv
  <2>2. CASE s # r
    <3>1. Op(s)' = Op(s)
      BY <1>2, <2>2 DEF Op
    <3> QED
      BY <1>4, <1>5, <3>1 DEF WrittenInv
  <2> QED
    BY <2>1, <2>2
<1>6. \A s \in Runs : run'[s].seen.steps \subseteq saved'
  BY <1>2, <1>3 DEF WrittenInv, None
<1>7. \A q \in Requests : req'[q].seen.steps \subseteq saved'
  BY <1>2, <1>3 DEF WrittenInv
<1> QED
  BY <1>3, <1>4, <1>5, <1>6, <1>7 DEF WrittenInv

\* No checkpoint is lost: nobody else holds a status while a run works.
LEMMA RunSavedExact ==
  ASSUME TypeInv, Apart, NEW r \in Runs, RunStep(r)
  PROVE  SavedExact'
<1>1. TypeInv /\ TypeOK /\ OneWriter /\ SavedExact
  BY DEF Apart, TypeInv
<1>2. /\ req' = req
      /\ run'[r].seen \in {run[r].seen, None} \/ (Working(r) /\ run'[r].seen = cr)
      /\ \A s \in Runs \ {r} : run'[s] = run[s]
  BY <1>1, RunMoves, RunReading
<1>3. ASSUME NoCancelYet'
      PROVE  /\ cr'.steps = saved'
             /\ \A s \in Runs : run'[s].seen # None => run'[s].seen.steps = saved'
             /\ \A q \in Reauths : req'[q].at = "write" => req'[q].seen.steps = saved'
  <2>1. NoCancelYet
    BY <1>2, <1>3 DEF NoCancelYet
  <2>2. /\ cr.steps = saved
        /\ \A s \in Runs : run[s].seen # None => run[s].seen.steps = saved
        /\ \A q \in Reauths : req[q].at = "write" => req[q].seen.steps = saved
    BY <1>1, <2>1 DEF SavedExact
  <2>3. CASE saved' = saved
    <3>1. cr'.steps = saved
      BY <1>1, <2>2, <2>3, RunWrites
    <3> QED
      BY <1>2, <2>2, <2>3, <3>1
  <2>4. CASE saved' # saved
    <3>1. /\ Working(r) /\ run[r].seen # None /\ cr'.steps = saved'
          /\ WriteStatus(r)
      <4>1. /\ Working(r) /\ run[r].seen # None
            /\ cr'.steps = run[r].seen.steps \cup {Op(r).arg}
            /\ saved' = saved \cup {Op(r).arg}
        BY <1>1, <2>4, RunWrites
      <4>2. WriteStatus(r)
        BY <2>4 DEF RunStep, Assemble, ReadStatus, Preflight, Check, Do,
                    UndoCancelled, Undo, Report, Finally, ClearToken, ghosts
      <4> QED
        BY <2>2, <4>1, <4>2
    <3>2. run'[r].seen = None
      BY <1>1, <3>1, AdvanceEffect DEF WriteStatus
    <3>3. \A s \in Runs \ {r} : run'[s].seen = None
      BY <1>1, <1>2, <3>1 DEF OneWriter, Working, TypeInv, Reading
    <3>4. \A q \in Reauths : req'[q].at # "write"
      BY <1>1, <1>2, <3>1, LaunchFacts DEF OneWriter, Posting
    <3> QED
      BY <3>1, <3>2, <3>3, <3>4
  <2> QED
    BY <2>3, <2>4
<1> QED
  BY <1>3 DEF SavedExact

\* The launch's token goes when its run ends, unless NeedsReauth was seen,
\* and then a run has asked for a token or the token is a later one.
LEMMA RunTokenExact ==
  ASSUME TypeInv, Apart, NEW r \in Runs, RunStep(r)
  PROVE  TokenExact'
<1>1. TypeInv /\ OneWriter /\ TokenExact
  BY DEF Apart
<1>2. /\ req' = req /\ crashes' = crashes /\ token' \in {token, "none"}
      /\ run[r].at \notin {"idle", "over"}
      /\ run'[r].at \notin {"idle", "queued"}
      /\ Working(r) \/ run'[r].goal = run[r].goal
      /\ \A s \in Runs \ {r} : run'[s] = run[s]
  BY <1>1, RunMoves, RunReading
<1>3. /\ \A q \in Reauths : req'[q].at # "new" => token' # "launch"
      /\ \A q \in Reauths : run'[q].at # "idle" => req'[q].at # "new"
  BY <1>1, <1>2, LaunchFacts DEF TokenExact
<1>4. run'[Launch].at \in {"idle", "queued"} => run'[Launch].ip = 1
  BY <1>1, <1>2, LaunchFacts DEF TokenExact
<1>5. ASSUME cr'.phase = "NeedsReauth"
      PROVE  run'[Launch].goal = "NeedsReauth" \/ \E q \in Reauths : req'[q].at # "new"
  <2>1. CASE cr' = cr
    <3>1. ~Working(r)
      BY <1>1, <1>5, <2>1 DEF OneWriter
    <3> QED
      BY <1>1, <1>2, <1>5, <2>1, <3>1, LaunchFacts DEF TokenExact
  <2>2. CASE run'[r].goal = "NeedsReauth"
    BY <1>1, <1>2, <2>2, LaunchFacts DEF TokenExact
  <2>3. CASE cr'.phase = run[r].seen.phase
    BY <1>1, <1>5, <2>3 DEF OneWriter
  <2> QED
    BY <1>1, <1>5, <2>1, <2>2, <2>3, RunWrites
<1>6. TokenGoesWithRun'
  <2> SUFFICES ASSUME run'[Launch].at = "over", run'[Launch].ip > 1,
                      run'[Launch].goal # "NeedsReauth", crashes' = 0
               PROVE  token' # "launch"
    BY DEF TokenGoesWithRun
  <2>1. CASE r # Launch
    BY <1>1, <1>2, <2>1, LaunchFacts DEF TokenExact, TokenGoesWithRun
  <2>2. CASE r = Launch /\ cr.phase = "NeedsReauth" /\ token' = token
    <3>1. ~Working(r)
      BY <1>1, <2>2 DEF OneWriter
    <3> QED
      BY <1>1, <1>2, <2>2, <3>1 DEF TokenExact
  <2>3. CASE r = Launch /\ run[r].at = "queued" /\ run'[r].ip = run[r].ip
    BY <1>1, <2>3 DEF TokenExact
  <2> QED
    BY <1>1, <2>1, <2>2, <2>3, RunMoves
<1> QED
  BY <1>3, <1>4, <1>5, <1>6 DEF TokenExact

-----------------------------------------------------------------------------
(* The steps of a request keep the invariant.                              *)

\* What a request writes it has read.
LEMMA RequestWritten ==
  ASSUME TypeInv, WrittenInv, NEW q \in Requests, RequestStep(q)
  PROVE  WrittenInv'
<1>1. TypeOK /\ req[q] \in ReqState /\ req \in [Requests -> ReqState]
      /\ req[q].seen \in Status \cup {None}
  BY DEF TypeInv, TypeOK, ReqState
<1>2. /\ \A p \in Requests \ {q} : req'[p] = req[p]
      /\ \A r \in Runs : ~(Schedule(q) /\ r = q) => run'[r] = run[r]
      /\ Schedule(q) /\ q \in Runs => run'[q].ip = run[q].ip /\ run'[q].seen = None
  BY RequestReading
<1>3. saved' = saved /\ did' = did
  BY DEF RequestStep, StoreToken, Schedule, ReadForRequest, WriteForRequest, ghosts
<1>4. cr'.steps \subseteq saved
  <2>1. CASE WriteForRequest(q)
    <3>1. \E p : cr' = [req[q].seen EXCEPT !.phase = p]
      BY <2>1 DEF WriteForRequest
    <3>2. cr'.steps = req[q].seen.steps
      BY <1>1, <3>1 DEF Status, None
    <3> QED
      BY <3>2 DEF WrittenInv
  <2>2. CASE ~WriteForRequest(q)
    BY <2>2 DEF RequestStep, StoreToken, Schedule, ReadForRequest, WrittenInv
  <2> QED
    BY <2>1, <2>2
<1>5. req'[q].seen \in {req[q].seen, None, cr}
  BY <1>1 DEF RequestStep, StoreToken, Schedule, ReadForRequest, WriteForRequest, Reach,
              ReqState
<1>6. \A p \in Requests : req'[p].seen.steps \subseteq saved
  BY <1>2, <1>5 DEF WrittenInv, None
<1>7. \A r \in Runs : Op(r)' = Op(r) /\ run'[r].seen.steps \subseteq saved
  BY <1>2 DEF Op, WrittenInv, None
<1> QED
  BY <1>3, <1>4, <1>6, <1>7 DEF WrittenInv

\* What each step of a request does; a cancel never comes to schedule a run.
LEMMA RequestMoves ==
  ASSUME TypeInv, Apart, NEW q \in Requests, RequestStep(q)
  PROVE  \/ /\ StoreToken(q) /\ q \in Runs /\ req[q].at = "new"
            /\ req'[q].at = IF q = Launch THEN "schedule" ELSE "stored"
            /\ token' = IF q = Launch THEN "launch" ELSE "reauth"
            /\ cr' = cr /\ run' = run
         \/ /\ Schedule(q) /\ q \in Runs /\ req[q].at = "schedule"
            /\ req'[q].at = "done" /\ token' = token /\ cr' = cr
         \/ /\ ReadForRequest(q) /\ req'[q].at = "write" /\ req'[q].seen = cr
            /\ req[q].at = (IF q \in Cancels THEN "new" ELSE "stored")
            /\ q # Launch /\ token' = token /\ cr' = cr /\ run' = run
         \/ /\ WriteForRequest(q) /\ req[q].at = "write" /\ q # Launch
            /\ req'[q].at = IF q \in Cancels THEN "done" ELSE "schedule"
            /\ cr'.phase = IF q \in Cancels THEN "Cancelled" ELSE "Pending"
            /\ q \notin Cancels => cr'.steps = req[q].seen.steps
            /\ token' = token /\ run' = run
<1>1. TypeOK /\ OneWriter /\ req[q] \in ReqState /\ req[q].seen \in Status \cup {None}
  BY DEF Apart, TypeInv, TypeOK, ReqState
<1>2. q \in Cancels \/ q \in Runs
  BY DEF Requests, Runs
<1>3. CASE StoreToken(q)
  BY <1>1, <1>2, <1>3, ReachEffect DEF StoreToken
<1>4. CASE Schedule(q)
  <2>1. q \in Runs
    BY <1>1, <1>2, <1>4 DEF Schedule, OneWriter
  <2> QED
    BY <1>1, <1>4, <2>1, ReachEffect DEF Schedule
<1>5. CASE ReadForRequest(q)
  <2>1. q # Launch
    BY <1>1, <1>5, LaunchFacts DEF ReadForRequest, OneWriter
  <2> QED
    BY <1>1, <1>5, <2>1 DEF ReadForRequest, TypeOK, ReqState
<1>6. CASE WriteForRequest(q)
  <2>1. q # Launch
    BY <1>1, <1>6 DEF WriteForRequest, OneWriter
  <2>2. req'[q].at = IF q \in Cancels THEN "done" ELSE "schedule"
    BY <1>1, <1>6 DEF WriteForRequest, TypeOK, ReqState
  <2>3. /\ cr'.phase = IF q \in Cancels THEN "Cancelled" ELSE "Pending"
        /\ cr'.steps = req[q].seen.steps
    <3>1. \E p : /\ cr' = [req[q].seen EXCEPT !.phase = p]
                 /\ p = IF q \in Cancels THEN "Cancelled" ELSE "Pending"
      BY <1>6 DEF WriteForRequest
    <3>2. CASE req[q].seen = None
      BY <3>1, <3>2 DEF None
    <3>3. CASE req[q].seen \in Status
      BY <3>1, <3>3, StatusEffect
    <3> QED
      BY <1>1, <3>2, <3>3
  <2> QED
    BY <1>6, <2>1, <2>2, <2>3 DEF WriteForRequest
<1> QED
  BY <1>3, <1>4, <1>5, <1>6 DEF RequestStep

\* A reauth is posted when nobody works and no other is handled, so the run it
\* starts is alone.
LEMMA RequestOneWriter ==
  ASSUME TypeInv, Apart, ~crossed', NEW q \in Requests, RequestStep(q)
  PROVE  OneWriter'
<1>1. TypeInv /\ OneWriter
  BY DEF Apart
<1>2. /\ \A p \in Requests \ {q} : req'[p] = req[p]
      /\ \A r \in Runs : ~(Schedule(q) /\ r = q) => run'[r] = run[r]
  BY <1>1, RequestReading
<1>3. CASE q \in Cancels
  <2>1. /\ run' = run /\ req'[q].at \in {"write", "done"}
        /\ cr' = cr \/ cr'.phase = "Cancelled"
    BY <1>3, RequestMoves, LaunchFacts
  <2>2. \A r \in Runs : req'[r] = req[r]
    BY <1>2, <1>3, LaunchFacts
  <2>3. \A c \in Cancels : req'[c].at \in {"new", "write", "done"}
    BY <1>1, <1>2, <2>1 DEF OneWriter, Requests
  <2> QED
    BY <1>1, <2>1, <2>2, <2>3, LaunchFacts DEF OneWriter, Working, Posting
<1>4. CASE q \in Runs
  <2>1. \A c \in Cancels : req'[c] = req[c]
    BY <1>2, <1>4, LaunchFacts DEF Requests
  <2>2. \A p \in Runs \ {q} : req'[p] = req[p]
    BY <1>2, LaunchFacts
  <2>3. CASE StoreToken(q)
    <3>1. /\ req[q].at = "new" /\ cr' = cr /\ run' = run
          /\ req'[q].at = IF q = Launch THEN "schedule" ELSE "stored"
      BY <1>4, <2>3, RequestMoves DEF StoreToken, Schedule, ReadForRequest, WriteForRequest
    <3>2. CASE q = Launch
      <4>1. \A r \in Runs : run[r].at = "idle" /\ req[r].at = "new"
        BY <1>1, <3>1, <3>2 DEF OneWriter
      <4>2. cr.phase # "NeedsReauth"
        BY <1>1, <3>1, <3>2 DEF OneWriter
      <4> QED
        BY <1>1, <2>1, <2>2, <3>1, <3>2, <4>1, <4>2, LaunchFacts
           DEF OneWriter, Working, Posting
    <3>3. CASE q # Launch
      <4>1. q \in Reauths
        BY <1>4, <3>3, LaunchFacts
      <4>2. cr.phase = "NeedsReauth" /\ \A p \in Reauths : req[p].at \in {"new", "done"}
        BY <2>3, <4>1 DEF StoreToken, Awaited
      <4>3. \A r \in Runs : ~Working(r) /\ ~Posting(r)
        BY <1>1, <4>2, LaunchFacts DEF OneWriter, Posting
      <4>4. req[Launch].at # "new" /\ req'[Launch] = req[Launch]
        BY <1>1, <2>2, <3>3, <4>2, LaunchFacts DEF OneWriter
      <4>5. \A p \in Runs : Posting(p)' => p = q
        BY <2>2, <4>3 DEF Posting
      <4>6. \A r \in Runs : ~Working(r)'
        BY <3>1, <4>3 DEF Working
      <4>7. \A r \in Runs : req'[r].at # "schedule"
        BY <2>2, <3>1, <3>3, <4>3 DEF Posting
      <4> QED
        BY <1>1, <2>1, <3>1, <4>4, <4>5, <4>6, <4>7 DEF OneWriter
    <3> QED
      BY <3>2, <3>3
  <2>4. CASE Schedule(q)
    <3>1. /\ req[q].at = "schedule" /\ req'[q].at = "done" /\ cr' = cr
          /\ run'[q].at = "queued" /\ run'[q].seen = None
      BY <1>1, <1>4, <2>4, RequestMoves, RequestReading
         DEF StoreToken, Schedule, ReadForRequest, WriteForRequest
    <3>2. (\A r \in Runs : ~Working(r)) /\ cr.phase # "NeedsReauth"
      BY <1>1, <1>4, <3>1 DEF OneWriter, Posting
    <3>3. \A p \in Runs : Posting(p) => p = q
      BY <1>1, <1>4, <3>1 DEF OneWriter, Posting
    <3>4. \A r \in Runs : Working(r)' => r = q
      BY <1>2, <3>2 DEF Working
    <3>5. \A p \in Runs : ~Posting(p)'
      BY <2>2, <3>1, <3>3 DEF Posting
    <3>6. \A r \in Runs : run'[r].seen.phase # "NeedsReauth"
      BY <1>1, <1>2, <3>1 DEF OneWriter, None
    <3>7. req[Launch].at # "new" /\ req'[Launch].at \in {"schedule", "done"}
      BY <1>1, <1>4, <2>2, <3>1, LaunchFacts DEF OneWriter
    <3> QED
      BY <1>1, <2>1, <3>1, <3>2, <3>4, <3>5, <3>6, <3>7 DEF OneWriter
  <2>5. CASE ReadForRequest(q) \/ WriteForRequest(q)
    <3>1. /\ Posting(q) /\ req'[q].at \in {"write", "schedule"} /\ run' = run
          /\ q # Launch /\ q \in Reauths
          /\ \/ cr' = cr /\ req'[q].at # "schedule"
             \/ cr'.phase = "Pending"
      BY <1>4, <2>5, RequestMoves, LaunchFacts
         DEF StoreToken, Schedule, ReadForRequest, WriteForRequest, Posting
    <3>2. req[Launch].at # "new" /\ req'[Launch] = req[Launch]
      BY <1>1, <1>4, <2>2, <3>1, LaunchFacts DEF OneWriter, Posting
    <3>3. \A p \in Runs : Posting(p)' => Posting(p)
      BY <2>2, <3>1 DEF Posting
    <3>4. \A r \in Runs : Working(r)' <=> Working(r)
      BY <3>1 DEF Working
    <3>5. cr'.phase = "NeedsReauth"
            => \A r \in Runs : ~Working(r)' /\ req'[r].at # "schedule"
      BY <1>1, <2>2, <3>1, <3>4 DEF OneWriter
    <3> QED
      BY <1>1, <2>1, <3>1, <3>2, <3>3, <3>4, <3>5 DEF OneWriter
  <2> QED
    BY <2>3, <2>4, <2>5 DEF RequestStep
<1> QED
  BY <1>3, <1>4 DEF Requests, Runs

\* The status a reauth writes back lacks no checkpoint: no run works meanwhile.
LEMMA RequestSavedExact ==
  ASSUME TypeInv, Apart, NEW q \in Requests, RequestStep(q)
  PROVE  SavedExact'
<1>1. TypeInv /\ OneWriter /\ SavedExact
  BY DEF Apart
<1>2. /\ \A p \in Requests \ {q} : req'[p] = req[p]
      /\ \A r \in Runs : ~(Schedule(q) /\ r = q) => run'[r] = run[r]
      /\ Schedule(q) /\ q \in Runs => run'[q].ip = run[q].ip /\ run'[q].seen = None
  BY <1>1, RequestReading
<1>3. saved' = saved /\ did' = did
  BY DEF RequestStep, StoreToken, Schedule, ReadForRequest, WriteForRequest, ghosts
<1>4. \A r \in Runs : /\ Op(r)' = Op(r)
                      /\ run'[r].seen # None => run'[r].seen = run[r].seen
  BY <1>2 DEF Op
<1>5. ASSUME NoCancelYet'
      PROVE  /\ cr'.steps = saved
             /\ \A r \in Runs : run'[r].seen # None => run'[r].seen.steps = saved
             /\ \A p \in Reauths : req'[p].at = "write" => req'[p].seen.steps = saved
  <2>1. NoCancelYet /\ q \notin Cancels
    <3>1. q \notin Cancels
      BY <1>5, RequestMoves, LaunchFacts DEF NoCancelYet
    <3> QED
      BY <1>2, <1>5, <3>1 DEF NoCancelYet, Requests
  <2>2. /\ cr.steps = saved
        /\ \A p \in Reauths : req[p].at = "write" => req[p].seen.steps = saved
    BY <1>1, <2>1 DEF SavedExact
  <2>3. q \in Runs
    BY <2>1 DEF Requests, Runs
  <2>4. cr'.steps = saved
    BY <2>1, <2>2, <2>3, RequestMoves, LaunchFacts
  <2>5. ASSUME NEW p \in Reauths, req'[p].at = "write" PROVE req'[p].seen.steps = saved
    <3>1. CASE p = q
      BY <2>1, <2>2, <2>5, <3>1, RequestMoves
    <3>2. CASE p # q
      BY <1>2, <2>2, <2>5, <3>2, LaunchFacts
    <3> QED
      BY <3>1, <3>2
  <2>6. \A r \in Runs : run'[r].seen # None => run'[r].seen.steps = saved
    BY <1>1, <1>4, <2>1 DEF SavedExact
  <2> QED
    BY <2>4, <2>5, <2>6
<1> QED
  BY <1>1, <1>3, <1>4, <1>5 DEF SavedExact

\* A reauth replaces the launch's token, and the launch stores its own but once.
LEMMA RequestTokenExact ==
  ASSUME TypeInv, Apart, ~crossed', NEW q \in Requests, RequestStep(q)
  PROVE  TokenExact'
<1>1. TypeInv /\ OneWriter /\ TokenExact
  BY DEF Apart
<1>2. /\ \A p \in Requests \ {q} : req'[p] = req[p]
      /\ \A r \in Runs : ~(Schedule(q) /\ r = q) => run'[r] = run[r]
      /\ Schedule(q) /\ q \in Runs
           => /\ run'[q].at = "queued" /\ run'[q].ip = run[q].ip
              /\ run'[q].goal = run[q].goal /\ run[q].at = "idle"
  BY <1>1, RequestReading
<1>3. crashes' = crashes /\ req'[q].at # "new"
  BY RequestMoves
     DEF RequestStep, StoreToken, Schedule, ReadForRequest, WriteForRequest
<1>4. \A p \in Reauths : p \in Requests /\ p \in Runs /\ p # Launch
  BY LaunchFacts
<1>5. \A p \in Reauths : req[p].at # "new" => req'[p].at # "new"
  BY <1>2, <1>3, <1>4
<1>6. \A r \in Runs : run'[r].goal = run[r].goal
  BY <1>2
<1>7. cr'.phase = "NeedsReauth" => cr.phase = "NeedsReauth"
  BY RequestMoves
<1>8. CASE StoreToken(q) /\ q = Launch
  <2>1. req[q].at = "new" /\ run' = run
    BY <1>8 DEF StoreToken
  <2>2. \A r \in Runs : run[r].at = "idle" /\ req[r].at = "new"
    BY <1>1, <1>8, <2>1 DEF OneWriter
  <2>3. \A p \in Reauths : req'[p].at = "new" /\ run'[p].at = "idle"
    BY <1>2, <1>4, <1>8, <2>1, <2>2
  <2> QED
    BY <1>1, <1>5, <1>6, <1>7, <2>1, <2>2, <2>3, LaunchFacts
       DEF TokenExact, TokenGoesWithRun
<1>9. CASE StoreToken(q) /\ q # Launch
  <2>1. token' = "reauth" /\ run' = run
    BY <1>9 DEF StoreToken
  <2> QED
    BY <1>1, <1>5, <1>6, <1>7, <2>1 DEF TokenExact, TokenGoesWithRun
<1>10. CASE ~StoreToken(q)
  <2>1. token' = token /\ crossed' = crossed
    BY <1>10 DEF RequestStep, Schedule, ReadForRequest, WriteForRequest, ghosts
  <2>2. q \in Reauths => req[q].at # "new"
    BY <1>10, RequestMoves, LaunchFacts
  <2>3. \A p \in Reauths : req'[p].at # "new" <=> req[p].at # "new"
    BY <1>2, <1>3, <1>4, <2>2
  <2>4. \A p \in Reauths : run'[p].at # "idle" => req'[p].at # "new"
    BY <1>1, <1>2, <1>4, <2>2, <2>3 DEF TokenExact
  <2>5. run'[Launch].at \in {"idle", "queued"} => run'[Launch].ip = 1
    BY <1>1, <1>2, LaunchFacts DEF TokenExact
  <2>6. TokenGoesWithRun'
    BY <1>1, <1>2, <1>3, <1>6, <2>1, LaunchFacts DEF TokenExact, TokenGoesWithRun
  <2> QED
    BY <1>1, <1>6, <1>7, <2>1, <2>3, <2>4, <2>5, <2>6, LaunchFacts DEF TokenExact
<1> QED
  BY <1>8, <1>9, <1>10

-----------------------------------------------------------------------------
(* A crash keeps the invariant, and so do all steps.                       *)

\* A crash leaves nobody working or posting and nothing held.
LEMMA CrashInv ==
  ASSUME TypeInv, WrittenInv, Crash
  PROVE  WrittenInv' /\ (Apart => Apart')
<1>2. /\ \A r \in Runs :
           /\ run'[r].at = IF run[r].at = "idle" THEN "idle" ELSE "over"
           /\ run'[r].ip = run[r].ip /\ run'[r].goal = run[r].goal
           /\ run'[r].seen = None
      /\ \A q \in Requests :
           IF q \in Cancels \cup Reauths /\ req[q].at = "new"
           THEN req'[q] = req[q] ELSE req'[q].at = "done"
  BY CrashEffect
<1>3. cr' = cr /\ token' = token /\ did' = did /\ saved' = saved
  BY DEF Crash, ghosts
<1>4. crashes' # 0
  <2>1. crashes \in 0..MaxCrashes /\ crashes < MaxCrashes /\ crashes' = crashes + 1
    BY DEF Crash, TypeInv, TypeOK
  <2> QED
    BY <2>1, ControlAssumption
<1>5. /\ req'[Launch].at = "done"
      /\ \A q \in Requests : req'[q].at \in {"new", "done"}
      /\ \A q \in Cancels \cup Reauths : req'[q].at = "new" <=> req[q].at = "new"
  BY <1>2, LaunchFacts DEF Requests
<1>6. /\ \A r \in Runs : ~Working(r)' /\ ~Posting(r)'
      /\ \A r \in Runs : req'[r].at # "schedule"
  BY <1>2, <1>5, LaunchFacts DEF Working, Posting
<1>7. WrittenInv'
  <2>1. \A r \in Runs : Op(r)' = Op(r)
    BY <1>2 DEF Op
  <2>2. \A q \in Requests : req'[q].seen \in {req[q].seen, None}
    BY DEF Crash, TypeInv, TypeOK
  <2> QED
    BY <1>2, <1>3, <2>1, <2>2 DEF WrittenInv, None
<1>8. ASSUME Apart PROVE Apart'
  <2>1. OneWriter /\ SavedExact /\ TokenExact
    BY <1>8 DEF Apart
  <2>2. OneWriter'
    BY <1>2, <1>5, <1>6, <2>1, LaunchFacts DEF OneWriter, None, Requests
  <2>3. SavedExact'
    <3>1. NoCancelYet' => NoCancelYet
      BY <1>5 DEF NoCancelYet
    <3>2. \A q \in Reauths : req'[q].at # "write"
      BY <1>5, LaunchFacts
    <3> QED
      BY <1>2, <1>3, <2>1, <3>1, <3>2 DEF SavedExact
  <2>4. TokenExact'
    BY <1>2, <1>3, <1>4, <1>5, <2>1, LaunchFacts DEF TokenExact, TokenGoesWithRun
  <2> QED
    BY <2>2, <2>3, <2>4 DEF Apart
<1> QED
  BY <1>7, <1>8

\* Every step keeps the invariant; what was crossed stays so.
LEMMA CInvStep == CInv /\ [Next]_vars => CInv'
<1> SUFFICES ASSUME CInv, [Next]_vars PROVE CInv'
  OBVIOUS
<1>1. TypeInv' /\ TypeInv /\ WrittenInv
  BY TypeStep DEF CInv
<1>2. ASSUME NEW r \in Runs, RunStep(r) PROVE CInv'
  <2>1. crossed' = crossed
    BY <1>2 DEF RunStep, Assemble, ReadStatus, WriteStatus, Preflight, Check, Do,
                UndoCancelled, Undo, Report, Finally, ClearToken, ghosts
  <2> QED
    BY <1>1, <1>2, <2>1, RunWritten, RunOneWriter, RunSavedExact, RunTokenExact
       DEF CInv, Apart
<1>3. ASSUME NEW q \in Requests, RequestStep(q) PROVE CInv'
  <2>1. crossed => crossed'
    BY <1>3 DEF RequestStep, StoreToken, Schedule, ReadForRequest, WriteForRequest, ghosts
  <2> QED
    BY <1>1, <1>3, <2>1, RequestWritten, RequestOneWriter, RequestSavedExact,
       RequestTokenExact DEF CInv, Apart
<1>4. CASE Crash
  <2>1. crossed' = crossed
    BY <1>4 DEF Crash, ghosts
  <2> QED
    BY <1>1, <1>4, <2>1, CrashInv DEF CInv
<1>5. CASE UNCHANGED vars
  BY <1>1, <1>5 DEF vars, ghosts, CInv, Apart, WrittenInv, OneWriter, SavedExact,
     TokenExact, TokenGoesWithRun, NoCancelYet, Working, Posting, Op
<1> QED
  BY <1>2, <1>3, <1>4, <1>5 DEF Next

\* The invariant holds of every behaviour, whatever clients post and when.
THEOREM ControlInvariant == Spec => []CInv
<1>1. CInv /\ [Next]_vars => CInv'
  BY CInvStep
<1> QED
  BY InitInv, <1>1, PTL DEF Spec

\* With any number of cancels, reauths, failures and crashes, two runs drive the
\* migration at once only after a reauth that was posted when the phase was not
\* NeedsReauth or another was being handled (api/migrations.py:83-90).
THEOREM OneDriverHolds == Spec => []OneDriver
<1>1. CInv => OneDriver
  BY DEF CInv, Apart, OneWriter, OneDriver, Driving, Working
<1> QED
  BY ControlInvariant, <1>1, PTL

\* The resource never has a checkpoint that was not written, or whose step was not
\* done, whoever writes it; it has them all until a cancel comes or a reauth that no
\* run waited for (migrations.py:48-58).
THEOREM CheckpointsExactHolds == Spec => []CheckpointsExact
<1>1. CInv => CheckpointsExact
  BY DEF CInv, Apart, WrittenInv, SavedExact, CheckpointsExact, NoCancelYet
<1> QED
  BY ControlInvariant, <1>1, PTL

\* A run that ends without asking for a token takes the launch's token along
\* (runner.py:62-66), whenever it is cancelled and whatever fails, unless a reauth
\* that it did not wait for comes.
THEOREM TokenGoesWithRunHolds == Spec => []TokenGoesWithRun
<1>1. CInv => TokenGoesWithRun
  BY DEF CInv, Apart, TokenExact, TokenGoesWithRun
<1> QED
  BY ControlInvariant, <1>1, PTL

-----------------------------------------------------------------------------
(* A run only goes on, whatever the clients do.                            *)

\* The parts of a run, each with its rank.
LEMMA RankFacts ==
  /\ Rank["idle"] = 1 /\ Rank["queued"] = 2 /\ Rank["main"] = 3
  /\ Rank["cancelled"] = 4 /\ Rank["undo"] = 5 /\ Rank["report"] = 6
  /\ Rank["finally"] = 7 /\ Rank["clear"] = 8 /\ Rank["over"] = 9
BY DEF Rank

\* The moves of a run take it on: to a later part, to a last phase, to the next
\* operation or out of the try block, from having read nothing to having read.
LEMMA MovesGoOn ==
  ASSUME TypeInv, NEW r \in Runs
  PROVE  /\ \A at \in Places :
              Move(r, at) /\ Rank[run[r].at] < Rank[at] => FurtherOn(r)
         /\ \A p : LastPhase(r, p) /\ Rank[run[r].at] < 6 => FurtherOn(r)
         /\ At(r, "main") /\ Advance(r) => FurtherOn(r)
         /\ run[r].seen = None /\ Hold(r, cr) => FurtherOn(r)
<1>1. /\ TypeOK /\ run \in [Runs -> RunState] /\ run[r].ip \in 1..Length
      /\ cr # None
  BY MainFacts, StatusType DEF TypeInv, TypeOK, RunState
<1>2. ASSUME NEW at \in Places, Move(r, at), Rank[run[r].at] < Rank[at]
      PROVE  FurtherOn(r)
  BY <1>1, <1>2, MoveEffect DEF FurtherOn
<1>3. ASSUME NEW p, LastPhase(r, p), Rank[run[r].at] < 6 PROVE FurtherOn(r)
  BY <1>1, <1>3, LastPhaseEffect, RankFacts DEF FurtherOn
<1>4. ASSUME At(r, "main"), Advance(r) PROVE FurtherOn(r)
  <2>1. /\ run'[r].at = IF run[r].ip = Len(Main) THEN "finally" ELSE "main"
        /\ run'[r].ip = IF run[r].ip = Len(Main) THEN run[r].ip ELSE run[r].ip + 1
    BY <1>1, <1>4 DEF Advance, RunState
  <2>2. CASE run[r].ip = Len(Main)
    BY <1>4, <2>1, <2>2, RankFacts DEF FurtherOn, At
  <2>3. CASE run[r].ip # Len(Main)
    BY <1>1, <1>4, <2>1, <2>3 DEF FurtherOn, At, Length
  <2> QED
    BY <2>2, <2>3
<1>5. ASSUME run[r].seen = None, Hold(r, cr) PROVE FurtherOn(r)
  BY <1>1, <1>5, HoldEffect DEF FurtherOn
<1> QED
  BY <1>2, <1>3, <1>4, <1>5

\* A step of a run takes it on.
LEMMA RunGoesOn == ASSUME TypeInv, NEW r \in Runs, RunStep(r) PROVE FurtherOn(r)
<1>1. TypeOK /\ run[r] \in RunState
  BY DEF TypeInv, TypeOK
<1>2. {"main", "over", "finally", "cancelled", "undo", "clear"} \subseteq Places
  BY DEF Places
<1>3. CASE Assemble(r)
  BY <1>2, <1>3, MovesGoOn, RankFacts DEF Assemble, At
<1>4. CASE ReadStatus(r)
  BY <1>4, MovesGoOn DEF ReadStatus
<1>5. CASE WriteStatus(r)
  BY <1>5, MovesGoOn DEF WriteStatus
<1>6. CASE Preflight(r)
  BY <1>6, MovesGoOn, RankFacts DEF Preflight, At
<1>7. CASE Check(r)
  <2>1. Op(r).arg \in {"finally", "cancelled"}
    <3>1. run[r].ip \in 1..Length
      BY <1>1, MainFacts DEF RunState
    <3> QED
      BY <1>7, <3>1, MainFacts DEF Check, Op, MainFits
  <2> QED
    BY <1>2, <1>7, <2>1, MovesGoOn, RankFacts DEF Check, At
<1>8. CASE Do(r)
  BY <1>2, <1>8, MovesGoOn, RankFacts DEF Do, At
<1>9. CASE UndoCancelled(r) \/ Undo(r)
  BY <1>2, <1>9, MovesGoOn, RankFacts DEF UndoCancelled, Undo, At
<1>10. CASE Report(r)
  <2>1. run[r].at = "report" /\ run'[r].at = "finally"
    BY <1>1, <1>10 DEF Report, At, TypeOK, RunState
  <2> QED
    BY <2>1, RankFacts DEF FurtherOn
<1>11. CASE Finally(r) \/ ClearToken(r)
  BY <1>2, <1>11, MovesGoOn, RankFacts DEF Finally, ClearToken, At
<1> QED
  BY <1>3, <1>4, <1>5, <1>6, <1>7, <1>8, <1>9, <1>10, <1>11 DEF RunStep

\* A crash ends a run that has begun and leaves one that has ended as it is.
LEMMA CrashGoesOn ==
  ASSUME TypeInv, Crash, NEW r \in Runs
  PROVE  run'[r] = run[r] \/ FurtherOn(r)
<1>1. run[r] \in RunState /\ Reading(r)
  BY DEF TypeInv, TypeOK
<1>2. CASE run[r].at = "idle"
  BY <1>2 DEF Crash
<1>3. CASE run[r].at = "over"
  <2>1. run[r].seen = None
    BY <1>1, <1>3 DEF Reading
  <2>2. run'[r] = [run[r] EXCEPT !.at = "over", !.seen = None]
    BY <1>3 DEF Crash
  <2> QED
    BY <1>1, <1>3, <2>1, <2>2 DEF RunState
<1>4. CASE run[r].at \notin {"idle", "over"}
  <2>1. run'[r].at = "over"
    BY <1>4, CrashEffect
  <2>2. Rank[run[r].at] < 9
    BY <1>1, <1>4, RankFacts DEF RunState
  <2> QED
    BY <2>1, <2>2, RankFacts DEF FurtherOn
<1> QED
  BY <1>2, <1>3, <1>4

\* For any clients, cancels, reauths, failures and crashes: no step takes a run
\* back, so none does an operation twice, comes to life again after its end or
\* has more than so many steps (runner.py:22-66, api/migrations.py:91).
THEOREM RunsGoOnHolds == Spec => RunsGoOn
<1> DEFINE GoesOn == \A r \in Runs : run'[r] # run[r] => FurtherOn(r)
<1>1. TypeInv /\ [Next]_vars => [GoesOn]_vars
  <2> SUFFICES ASSUME TypeInv, Next PROVE GoesOn
    OBVIOUS
  <2>1. ASSUME NEW r \in Runs, RunStep(r) PROVE GoesOn
    BY <2>1, RunReading, RunGoesOn
  <2>2. ASSUME NEW q \in Requests, RequestStep(q) PROVE GoesOn
    <3> SUFFICES ASSUME NEW r \in Runs, run'[r] # run[r] PROVE FurtherOn(r)
      OBVIOUS
    <3>1. Schedule(q) /\ q \in Runs /\ r = q
      BY <2>2, RequestReading
    <3>2. run[r].at = "idle" /\ run'[r].at = "queued"
      BY <2>2, <3>1, RequestReading
    <3> QED
      BY <3>2, RankFacts DEF FurtherOn
  <2>3. CASE Crash
    BY <2>3, CrashGoesOn
  <2> QED
    BY <2>1, <2>2, <2>3 DEF Next
<1>2. TypeInv /\ [Next]_vars => TypeInv'
  BY TypeStep
<1> QED
  BY InitType, <1>1, <1>2, PTL DEF Spec, RunsGoOn

=============================================================================
