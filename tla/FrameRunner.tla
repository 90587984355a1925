----------------------------- MODULE FrameRunner -----------------------------
(***************************************************************************)
(* How a frame of the emulator is run (netplay-rollback.js).  The browser    *)
(* no longer drives the core: enterManualMode intercepts                     *)
(* requestAnimationFrame, keeps the core's main-loop runner, and each tick   *)
(* calls it once.  A runner the core has since replaced does nothing; the    *)
(* step notices, captures a new one and tries once more, and when nothing    *)
(* ran the engine must not count the frame.  A replay runs several frames a  *)
(* tick with the picture and the sound off.  An exception in the tick leads  *)
(* to a recovery, the third in a row to lockstep without the engine; a core  *)
(* that aborts ends the match.                                              *)
(*                                                                         *)
(* The core is a frame number and the frames of a replay still to run.  ran  *)
(* counts the frames it has really emulated, counted those the engine (or,   *)
(* in lockstep, the tick) has moved past.                                   *)
(***************************************************************************)
EXTENDS Integers

CONSTANTS
  Burst,      (* _adaptiveReplayBurst(): frames of a replay in one tick      *)
  MaxFrame,   (* bound: frames                                            *)
  MaxRewinds, (* bound: rollbacks                                         *)
  MaxTrouble  (* bound: lost runners, exceptions                           *)

VARIABLES
  manual,  (* _manualMode                                                  *)
  runner,  (* _pendingRunner: none, the core's present one, a replaced one   *)
  core,    (* the emulator and the rollback engine                          *)
  main,    (* the tick loop                                                *)
  ghost    (* what really happened                                         *)

runnerVars == <<manual, runner, core, main, ghost>>

Runners == {"none", "good", "stale"}
Core == [frame : 0..MaxFrame, depth : 0..MaxFrame, rewinds : 0..MaxRewinds]

(* hidden: the picture and the sound are off.  logged: _rbReplayLogged.      *)
Main == [frame : 0..MaxFrame, ticking : BOOLEAN, engine : BOOLEAN, logged : BOOLEAN,
         hidden : BOOLEAN, throws : 0..3, thrownAt : -1..MaxFrame, fatal : BOOLEAN]

Ghost == [ran : Nat, counted : Nat, torn : BOOLEAN, ended : Nat, trouble : 0..MaxTrouble]

RunnerTypeOK ==
  manual \in BOOLEAN /\ runner \in Runners /\ core \in Core /\ main \in Main /\ ghost \in Ghost

Init ==
  /\ manual = FALSE
  /\ runner = "none"
  /\ core = [frame |-> 0, depth |-> 0, rewinds |-> 0]
  /\ main = [frame |-> 0, ticking |-> FALSE, engine |-> TRUE, logged |-> FALSE,
             hidden |-> FALSE, throws |-> 0, thrownAt |-> -1, fatal |-> FALSE]
  /\ ghost = [ran |-> 0, counted |-> 0, torn |-> FALSE, ended |-> 0, trouble |-> 0]

(* A tick is a path through s, the whole state, and whether the last step    *)
(* ran, which the code returns up.                                          *)
Now == [runner |-> runner, core |-> core, main |-> main, ghost |-> ghost]
Becomes(s) == /\ runner' = s.runner
              /\ core' = s.core
              /\ main' = s.main
              /\ ghost' = s.ghost

Trouble(s) == s.ghost.trouble < MaxTrouble
Troubled(s) == [s EXCEPT !.ghost.trouble = @ + 1]

-----------------------------------------------------------------------------
(* The runner                                                               *)

(* recaptureManualRunner: pause and resume make the core schedule a new      *)
(* runner, which the interceptor keeps; an exception leaves none.            *)
Recaptured(s) ==
  {[s EXCEPT !.runner = "good"]} \cup
  (IF Trouble(s) THEN {[Troubled(s) EXCEPT !.runner = "none"]} ELSE {})

(* The interceptor keeps the main-loop runner only: a callback of the page   *)
(* goes to the browser.                                                     *)
Intercept(s, isRunner) == IF isRunner THEN [s EXCEPT !.runner = "good"] ELSE s

EnterManualMode ==
  /\ ~manual
  /\ manual' = TRUE
  /\ Becomes(Intercept(Now, TRUE))

PageSchedulesAFrame ==
  /\ manual /\ Trouble(Now)
  /\ Becomes(Intercept(Troubled(Now), FALSE))
  /\ UNCHANGED manual

(* A load of a state, growing memory or the engine's own start replace the   *)
(* runner behind the tick's back.                                          *)
CoreReplacesRunner ==
  /\ manual /\ runner = "good" /\ Trouble(Now)
  /\ Becomes([Troubled(Now) EXCEPT !.runner = "stale"])
  /\ UNCHANGED manual

(* loadStateAtStartBoundary and loadKnSyncStateAtStartBoundary: the runner   *)
(* is captured anew; a load that throws leaves the old one.                 *)
LoadAtStart ==
  /\ manual /\ ~main.ticking /\ ~main.fatal /\ Trouble(Now)
  /\ \E s \in Recaptured(Troubled(Now)) \cup {[Troubled(Now) EXCEPT !.runner = "stale"]} : Becomes(s)
  /\ UNCHANGED manual

(* _clearEjsPauseFlag, of a page that comes back: only in a running match,   *)
(* and a new runner only where there is none.                              *)
Unpause ==
  /\ manual /\ main.ticking /\ runner = "none"
  /\ \E s \in Recaptured(Now) : Becomes(s)
  /\ UNCHANGED manual

(* _runCapturedRunner: a replaced runner does nothing and schedules nothing; *)
(* a good one emulates a frame and schedules its successor, unless the core  *)
(* paused in the frame.                                                     *)
RunCaptured(s) ==
  IF s.runner = "good"
  THEN {[s EXCEPT !.runner = r, !.ghost.ran = @ + 1] : r \in {"good", "none"}}
  ELSE {[s EXCEPT !.runner = "none"]}

(* variant: a run that scheduled no successor was stale *)
Rescheduled(before, after) == after.runner # "none"

(* KNShared.classifyRunnerStep: a run that scheduled nothing and left the    *)
(* cycle counter alone was stale.                                          *)
Emulated(before, after) == after.runner # "none" \/ after.ghost.ran # before.ghost.ran

(* stepOneFrame: with no runner, one is captured first; after a stale one,   *)
(* one more try.  A result is the state and whether a frame ran.             *)
SecondTry(s) ==
  IF s.runner = "none" THEN {<<s, FALSE>>}
  ELSE {<<t, Emulated(s, t)>> : t \in RunCaptured(s)}

StepOneFrame(s) ==
  UNION {IF r.runner = "none" THEN {<<r, FALSE>>}
         ELSE UNION {IF Emulated(r, t) THEN {<<t, TRUE>>}
                     ELSE UNION {SecondTry(u) : u \in Recaptured(t)}
                     : t \in RunCaptured(r)}
         : r \in IF s.runner = "none" THEN Recaptured(s) ELSE {s}}

-----------------------------------------------------------------------------
(* Failures in the core                                                      *)

(* _handleCoreFatal, from the core's onAbort and again from the exception    *)
(* that follows: the match stops, and the page hears of it once.             *)
CoreFatal(s) ==
  IF s.main.fatal THEN s
  ELSE [s EXCEPT !.main.fatal = TRUE, !.main.ticking = FALSE, !.ghost.ended = @ + 1]

(* _runStepOneFrame: an exception is caught here; the core aborted, or the    *)
(* frame stopped somewhere in it and a new runner is captured.               *)
StepThrows(s) ==
  {<<CoreFatal(CoreFatal(s)), FALSE>>} \cup
  {<<[t EXCEPT !.ghost.torn = TRUE], FALSE>> : t \in Recaptured([s EXCEPT !.runner = "none"])}

RunStep(s) == StepOneFrame(s) \cup (IF Trouble(s) THEN StepThrows(Troubled(s)) ELSE {})

-----------------------------------------------------------------------------
(* A replay                                                                 *)

(* _setReplayFullHeadless, _setReplayRdpSkip, _setReplayAudioOutputSkip      *)
Hide(s, on) == [s EXCEPT !.main.hidden = on]

(* _finishCReplay *)
FinishReplay(s) == [Hide(s, FALSE) EXCEPT !.main.logged = FALSE]

(* _kn_post_tick and the frame number read after it *)
PostTick(s) ==
  LET d == IF s.core.depth = 0 THEN 0 ELSE s.core.depth - 1 IN
  [s EXCEPT !.core.frame = @ + 1, !.core.depth = d,
            !.main.frame = s.core.frame + 1, !.ghost.counted = @ + 1]

(* kn_pre_tick may restore an earlier state, which replaces the runner, and  *)
(* _refreshRunnerAfterRollbackRestore captures it anew.                      *)
Restored(s, to) ==
  [s EXCEPT !.core = [frame |-> to, depth |-> s.core.frame + s.core.depth - to,
                      rewinds |-> @.rewinds + 1],
            !.runner = "good"]

PreTick(s) ==
  {s} \cup
  (IF s.core.rewinds < MaxRewinds
   THEN {Restored(s, to) : to \in 0..s.core.frame - 1} ELSE {})

(* _runCReplayFrame: a frame that did not run is not counted.  Between two   *)
(* frames _prepareCReplayFrame asks the engine again.                        *)
ReplayFrame(s) ==
  LET from == [s EXCEPT !.main.frame = s.core.frame] IN
  {IF r[2] THEN <<PostTick(r[1]), TRUE>> ELSE r : r \in RunStep(from)}

(* The frames after those of the results, where a replay goes on.             *)
NextFrames(results) ==
  UNION {UNION {ReplayFrame(t) : t \in PreTick(r[1])} :
           r \in {q \in results : q[2] /\ q[1].core.depth > 0}}

(* How the k-th frame of a burst may end.                                    *)
BurstFrames(s) ==
  LET frame[k \in 1..Burst] == IF k = 1 THEN ReplayFrame(s) ELSE NextFrames(frame[k - 1])
  IN frame

(* The time of a burst is over after any frame.                              *)
ReplayBurst(s) == {r[1] : r \in UNION {BurstFrames(s)[k] : k \in 1..Burst}}

Replay(s) ==
  LET begun == IF s.main.logged THEN s
               ELSE [Hide(s, TRUE) EXCEPT !.main.logged = TRUE] IN
  {IF t.core.depth = 0 THEN FinishReplay(t) ELSE t : t \in ReplayBurst(begun)}

-----------------------------------------------------------------------------
(* The tick                                                                 *)

(* A frame outside a replay.                                                *)
NormalFrame(s) ==
  LET seen == IF s.main.logged THEN FinishReplay(s) ELSE s IN
  {IF r[2] THEN PostTick(r[1]) ELSE r[1] : r \in RunStep(seen)}

(* The handler around the engine's part of the tick: the replay is dropped,  *)
(* the frame number read again; the third exception at one frame ends the    *)
(* engine for this match.                                                  *)
Recovered(s) ==
  LET n == IF s.main.thrownAt = s.main.frame /\ s.main.frame > 0 THEN s.main.throws + 1 ELSE 1 IN
  [s EXCEPT !.core.depth = 0, !.main.frame = s.core.frame,
            !.main.thrownAt = s.main.frame, !.main.throws = n,
            !.main.engine = @ /\ n < 3]

Room(s) == s.core.frame + s.core.depth < MaxFrame /\ s.main.frame < MaxFrame

EngineTick ==
  /\ main.ticking /\ main.engine /\ Room(Now)
  /\ \E p \in PreTick(Now) :
       LET q == [p EXCEPT !.main.frame = p.core.frame] IN
       \E t \in IF q.core.depth > 0 THEN Replay(q) ELSE NormalFrame(q) : Becomes(t)
  /\ UNCHANGED manual

(* kn_pre_tick traps, perhaps with the replay state half set.                *)
PreTickThrows ==
  /\ main.ticking /\ main.engine /\ Trouble(Now)
  /\ \E p \in PreTick(Now) : Becomes(Recovered(Troubled(p)))
  /\ UNCHANGED manual

(* kn_post_tick, or what precedes it, throws after the frame has run.        *)
PostTickThrows ==
  /\ main.ticking /\ main.engine /\ Trouble(Now) /\ core.depth = 0 /\ Room(Now)
  /\ \E r \in StepOneFrame(Now) :
       r[2] /\ Becomes(Recovered([Troubled(r[1]) EXCEPT !.ghost.torn = TRUE]))
  /\ UNCHANGED manual

(* Lockstep without the engine.                                              *)
LockstepTick ==
  /\ main.ticking /\ ~main.engine /\ Room(Now)
  /\ \E r \in RunStep(Now) :
       Becomes(IF r[2] THEN [r[1] EXCEPT !.main.frame = @ + 1, !.ghost.counted = @ + 1] ELSE r[1])
  /\ UNCHANGED manual

Start ==
  /\ manual /\ ~main.ticking /\ ~main.fatal
  /\ Becomes([Now EXCEPT !.main.ticking = TRUE])
  /\ UNCHANGED manual

Next ==
  \/ EnterManualMode \/ PageSchedulesAFrame \/ CoreReplacesRunner \/ LoadAtStart \/ Unpause
  \/ EngineTick \/ PreTickThrows \/ PostTickThrows \/ LockstepTick \/ Start

Spec == Init /\ [][Next]_runnerVars

-----------------------------------------------------------------------------
(* Properties                                                               *)

(* However the runner is lost, every frame the engine moves past has been    *)
(* emulated, and once: an exception in the middle of a frame aside, which    *)
(* has it run again.                                                        *)
EveryFrameRanOnce == ~ghost.torn => ghost.ran = ghost.counted

(* Between ticks the tick's frame number is the engine's: after a failed     *)
(* step, after a rollback and after an exception as well.                    *)
FrameNumbersAgree == main.engine => main.frame = core.frame

(* A page is told once that its core is gone, and no tick follows.           *)
FatalIsFinal == ghost.ended <= 1 /\ (main.fatal => ~main.ticking)

(* A picture is off only during a replay that will turn it on again.         *)
HiddenWhileLogged == main.hidden => main.logged

RunnerSound == EveryFrameRanOnce /\ FrameNumbersAgree /\ FatalIsFinal /\ HiddenWhileLogged

(* Broken by the code: three exceptions at one frame during a replay leave   *)
(* the match in lockstep with the picture and the sound off, for only the    *)
(* engine's part of the tick turns them on again.                           *)
LockstepIsVisible == main.ticking /\ ~main.engine => ~main.hidden

=============================================================================
