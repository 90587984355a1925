----------------------------- MODULE WorkerCoproc -----------------------------
(***************************************************************************)
(* The shadow worker as a coprocessor for replays (?workerCoproc=1, in       *)
(* netplay-rollback.js and rollback-shadow-worker.js): when the engine has   *)
(* to rewind, the main thread sends the corrected inputs to the worker,      *)
(* which replays them in its own core and answers with the state entering    *)
(* the frame the main core had reached.  Main meanwhile replays as well      *)
(* (parallel), waits (waiting), or goes on predicting and rewinds only when  *)
(* the answer is there (deferred).  An answer may be late, refused, lost or  *)
(* for a rollback that a newer one has overtaken.                            *)
(*                                                                         *)
(* One remote player; input delay is left out, so that frame f runs with the *)
(* remote input of frame f, or a prediction when it is not known.  A state   *)
(* is the set of the frames in it that ran with a wrong input.  The worker   *)
(* computes from the state main's ring has for the first frame and from what *)
(* is known when it is sent.                                                *)
(***************************************************************************)
EXTENDS Naturals, FiniteSets

CONSTANTS
  Modes,       (* which of parallel, waiting and deferred to look at         *)
  RejectLimit, (* RB_WORKER_COPROC_REJECT_LIMIT                             *)
  MaxFrame,    (* bound: frames                                            *)
  MaxSeq       (* bound: dispatches                                        *)

Frames == 0..MaxFrame
None == MaxFrame + 1   (* no frame: no rollback pending, no replay           *)

VARIABLES
  mode,     (* the option chosen                                            *)
  differs,  (* the frames whose remote input is not what is predicted       *)
  known,    (* the frames whose remote input has arrived                    *)
  engine,   (* the rollback engine of the main core                         *)
  ring,     (* the state it saved entering each frame                       *)
  main,     (* the tick loop's view                                         *)
  pend,     (* _workerCoprocPending                                         *)
  answers   (* what the worker has computed and main has not received       *)

coprocVars == <<mode, differs, known, engine, ring, main, pend, answers>>

Engine == [frame : Frames, bad : SUBSET Frames, pending : 0..None,
           start : Frames, target : 0..None, deferred : BOOLEAN]

(* logged: _rbReplayLogged.  epoch: _workerCoprocEpoch.  rewinds: how often  *)
(* the engine has rewound; hi: the highest frame main has been at.          *)
Main == [js : Frames, logged : BOOLEAN, epoch : Nat,
         seq : 0..MaxSeq, rejects : 0..RejectLimit, aborted : BOOLEAN,
         rewinds : Nat, hi : Frames]

Dispatch == [seq : 0..MaxSeq, how : {"none", "parallel", "waiting", "deferred"},
             start : Frames, target : Frames, epoch : Nat, rewinds : Nat]

NoDispatch == [seq |-> 0, how |-> "none", start |-> 0, target |-> 0, epoch |-> 0, rewinds |-> 0]

CoprocTypeOK ==
  /\ mode \in Modes /\ differs \subseteq Frames /\ known \subseteq Frames
  /\ engine \in Engine /\ ring \in [Frames -> SUBSET Frames]
  /\ main \in Main /\ pend \in Dispatch
  /\ \A a \in answers : a.seq \in 1..MaxSeq /\ a.ok \in BOOLEAN /\ a.bad \subseteq Frames

Init ==
  /\ mode \in Modes
  /\ differs \in SUBSET (Frames \ {MaxFrame})
  /\ known = {}
  /\ engine = [frame |-> 0, bad |-> {}, pending |-> None, start |-> 0, target |-> None,
               deferred |-> FALSE]
  /\ ring = [f \in Frames |-> {}]
  /\ main = [js |-> 0, logged |-> FALSE, epoch |-> 0, seq |-> 0, rejects |-> 0,
             aborted |-> FALSE, rewinds |-> 0, hi |-> 0]
  /\ pend = NoDispatch
  /\ answers = {}

Replaying(e) == e.target # None
Idle == pend.how = "none"
AtMost(a, b) == IF a < b THEN a ELSE b

(* The wrong frames a run of a..b-1 adds, with the inputs known by now.     *)
Wrong(a, b) == (a..(b - 1)) \cap (differs \ known)

-----------------------------------------------------------------------------
(* The engine (kn_rollback.c), as far as the coprocessor meets it            *)

(* kn_feed_input: an input that contradicts what frame f ran with           *)
RemoteInput ==
  \E f \in Frames \ known :
    /\ f < MaxFrame
    /\ f <= main.hi
    /\ known' = known \cup {f}
    /\ engine' = IF f < engine.frame /\ f \in engine.bad
                 THEN [engine EXCEPT !.pending = AtMost(@, f)]
                 ELSE engine
    /\ UNCHANGED <<mode, differs, ring, main, pend, answers>>

(* kn_pre_tick rewinds: not while deferred, and during a replay only to a   *)
(* frame before its first.                                                 *)
Rewinds(e) ==
  /\ e.pending # None
  /\ e.pending < e.frame
  /\ IF Replaying(e) THEN e.pending < e.start ELSE ~e.deferred

PreTick(e) ==
  IF ~Rewinds(e) THEN e
  ELSE [e EXCEPT !.frame = e.pending, !.bad = ring[e.pending], !.pending = None,
                 !.start = e.pending, !.target = e.frame]

(* A frame, and kn_post_tick: pre_tick has saved the state entering it.     *)
RunTo(e, to) ==
  [e EXCEPT !.frame = to, !.bad = @ \cup Wrong(e.frame, to),
            !.target = IF to >= e.target THEN None ELSE @]

Saved(e, to) ==
  [f \in Frames |-> IF f \in e.frame..(to - 1) THEN e.bad \cup Wrong(e.frame, f) ELSE ring[f]]

(* kn_apply_split_state_partial_with_aux                                    *)
Applied(e, frame, bad) ==
  [e EXCEPT !.frame = frame, !.bad = bad, !.pending = None, !.target = None]

-----------------------------------------------------------------------------
(* The tick                                                                 *)

(* The worker restores the first frame and runs the others with the inputs  *)
(* it was sent; it refuses when its ring has not got the first any more, or *)
(* when the state it ends with cannot be had.                              *)
WorkerReplay(start, target) == ring[start] \cup Wrong(start, target)

Answers(seq, start, target) ==
  {[seq |-> seq, ok |-> TRUE, bad |-> WorkerReplay(start, target)],
   [seq |-> seq, ok |-> FALSE, bad |-> {}]}

Sends(seq, start, target) ==
  \E a \in Answers(seq, start, target) : answers' = answers \cup {a}

MaySend(e) == Idle /\ ~main.aborted /\ main.seq < MaxSeq

(* Deferred: the misprediction that is to be put off, unless one is already *)
(* at the worker.                                                          *)
Defers(e) == mode = "deferred" /\ e.pending < e.frame /\ MaySend(e)

(* A newer rollback than the one at the worker: it runs here and now.       *)
Cascade ==
  /\ pend.how = "deferred"
  /\ engine.pending < engine.frame /\ engine.pending # pend.start

AfterCascade ==
  IF Cascade
  THEN <<[engine EXCEPT !.deferred = FALSE], [main EXCEPT !.epoch = @ + 1]>>
  ELSE <<engine, main>>

(* The epoch a deferred dispatch carries: advanced first.                   *)
DeferredEpoch(m) == m.epoch + 1

(* A normal frame; a replay that ended is closed (_finishCReplay).          *)
NormalFrame(e, m) ==
  LET e2 == RunTo(e, e.frame + 1) IN
  /\ e.frame < MaxFrame
  /\ engine' = e2
  /\ ring' = Saved(e, e.frame + 1)
  /\ main' = [m EXCEPT !.js = e2.frame, !.logged = FALSE,
                       !.hi = IF e2.frame > @ THEN e2.frame ELSE @]

(* One burst of replay frames, up to the end or not.                        *)
Burst(e, m) ==
  \E to \in (e.frame + 1)..e.target :
    LET e2 == RunTo(e, to) IN
    /\ engine' = e2
    /\ ring' = Saved(e, to)
    /\ main' = [m EXCEPT !.js = to, !.logged = Replaying(e2)]

(* The first tick of a replay advances the epoch; a replay that preempts    *)
(* another goes on as the same.                                            *)
Entered(e, m, rewound) ==
  [m EXCEPT !.js = e.frame, !.logged = TRUE,
            !.epoch = IF m.logged THEN @ ELSE @ + 1,
            !.rewinds = IF rewound THEN @ + 1 ELSE @]

TickDeferring ==
  LET e == AfterCascade[1]
      m == AfterCascade[2]
      s == m.seq + 1 IN
  /\ Defers(e)
  /\ Sends(s, e.pending, main.js)
  /\ pend' = [seq |-> s, how |-> "deferred", start |-> e.pending, target |-> main.js,
              epoch |-> DeferredEpoch(m), rewinds |-> m.rewinds]
  /\ NormalFrame([e EXCEPT !.deferred = TRUE], [m EXCEPT !.epoch = @ + 1, !.seq = s])
  /\ UNCHANGED <<mode, differs, known>>

(* The gate of the tick while an answer is waited for.                      *)
Gated == pend.how = "waiting"

TickNormal ==
  LET e == PreTick(AfterCascade[1]) IN
  /\ ~Gated /\ ~Defers(AfterCascade[1])
  /\ ~Replaying(e)
  /\ NormalFrame(e, AfterCascade[2])
  /\ UNCHANGED <<mode, differs, known, pend, answers>>

(* A replay by main alone, or while the worker has an older dispatch; or    *)
(* the message could not be posted.                                        *)
TickReplay ==
  LET e == PreTick(AfterCascade[1]) IN
  /\ ~Gated /\ ~Defers(AfterCascade[1])
  /\ Replaying(e)
  /\ Burst(e, Entered(e, AfterCascade[2], Rewinds(AfterCascade[1])))
  /\ UNCHANGED <<mode, differs, known, pend, answers>>

(* A replay handed to the worker: its target is where main was before the   *)
(* tick, its depth what is left of the replay, which is less than what the  *)
(* target asks for once the replay is under way.  In parallel, main replays *)
(* as well; else it forgets the replay and waits.                          *)
TickDispatch ==
  LET e == PreTick(AfterCascade[1])
      m == [Entered(e, AfterCascade[2], Rewinds(AfterCascade[1])) EXCEPT !.seq = @ + 1]
      how == IF mode = "waiting" THEN "waiting" ELSE "parallel"
      depth == e.target - e.frame IN
  /\ ~Gated /\ ~Defers(AfterCascade[1])
  /\ Replaying(e) /\ MaySend(e)
  /\ Sends(m.seq, IF depth > main.js THEN main.js ELSE main.js - depth, main.js)
  /\ pend' = [seq |-> m.seq, how |-> how, start |-> e.frame, target |-> main.js,
              epoch |-> m.epoch, rewinds |-> m.rewinds]
  /\ IF how = "parallel" THEN Burst(e, m)
     ELSE /\ engine' = [e EXCEPT !.pending = None, !.target = None]
          /\ main' = m
          /\ UNCHANGED ring
  /\ UNCHANGED <<mode, differs, known>>

-----------------------------------------------------------------------------
(* Answers, refusals, timeouts                                              *)

Abort(m) == [m EXCEPT !.aborted = TRUE]

(* A refusal of the worker, or of the engine unless deferred: after          *)
(* RejectLimit in a row the coprocessor is given up.  The deferred flag      *)
(* stays as it is.                                                          *)
Rejected(m) ==
  LET n == m.rejects + 1 IN
  [m EXCEPT !.rejects = n, !.aborted = @ \/ n >= RejectLimit, !.js = engine.frame]

(* The engine takes the worker's state and, unless deferred, main runs the  *)
(* frame it is for.  Deferred, it may refuse too, and nobody counts that.    *)
Accept(a) ==
  LET e == Applied(engine, pend.target, a.bad) IN
  IF pend.how = "deferred"
  THEN /\ \/ /\ engine' = [e EXCEPT !.deferred = FALSE]
             /\ main' = [main EXCEPT !.js = pend.target]
          \/ /\ engine' = [engine EXCEPT !.deferred = FALSE]
             /\ main' = [main EXCEPT !.js = engine.frame]
       /\ UNCHANGED ring
  ELSE \/ NormalFrame(e, [main EXCEPT !.rejects = 0])
       \/ /\ engine' = e
          /\ main' = [main EXCEPT !.rejects = 0, !.js = pend.target]
          /\ UNCHANGED ring

(* An answer that a newer rollback or main's own replay made useless.       *)
Discards ==
  CASE pend.how = "deferred" -> pend.epoch # main.epoch
    [] pend.how = "parallel" -> pend.epoch # main.epoch \/ engine.frame >= pend.target
    [] OTHER -> FALSE

(* rollback-replay-result.  Anything but the answer waited for is ignored.  *)
Answer(a) ==
  /\ answers' = answers \ {a}
  /\ IF a.seq # pend.seq \/ Idle
     THEN UNCHANGED <<engine, ring, main, pend>>
     ELSE /\ pend' = NoDispatch
          /\ CASE a.ok /\ Discards ->
                    /\ engine' = [engine EXCEPT !.deferred = @ /\ pend.how # "deferred"]
                    /\ UNCHANGED <<ring, main>>
               [] a.ok /\ ~Discards -> Accept(a)
               [] OTHER -> /\ main' = Rejected(main)
                           /\ UNCHANGED <<engine, ring>>
  /\ UNCHANGED <<mode, differs, known>>

AnswerArrives == \E a \in answers : Answer(a)

(* The answer is there, but there is no memory for it, or it is incomplete. *)
AnswerUnusable ==
  /\ \E a \in answers : a.seq = pend.seq /\ a.ok /\ answers' = answers \ {a}
  /\ ~Idle /\ ~Discards
  /\ main' = [Abort(main) EXCEPT !.js = engine.frame]
  /\ engine' = [engine EXCEPT !.deferred = @ /\ pend.how # "deferred"]
  /\ pend' = NoDispatch
  /\ UNCHANGED <<mode, differs, known, ring>>

(* variant: giving up leaves the dispatch pending *)
AbortKeepsPending == pend

(* What _workerCoprocAbort leaves of it.                                    *)
AbortedDispatch == NoDispatch

(* 200 ms without an answer                                                 *)
Timeout ==
  /\ ~Idle
  /\ main' = [Abort(main) EXCEPT !.js = IF pend.how = "deferred" THEN @ ELSE engine.frame]
  /\ engine' = [engine EXCEPT !.deferred = @ /\ pend.how # "deferred"]
  /\ pend' = AbortedDispatch
  /\ UNCHANGED <<mode, differs, known, ring, answers>>

(* 500 ms without a frame while an answer is out, or a tick that threw      *)
Hang ==
  /\ ~Idle
  /\ main' = [Abort(main) EXCEPT !.js = engine.frame]
  /\ pend' = AbortedDispatch
  /\ UNCHANGED <<mode, differs, known, engine, ring, answers>>

Tick == TickDeferring \/ TickNormal \/ TickReplay \/ TickDispatch
Next == RemoteInput \/ Tick \/ AnswerArrives \/ AnswerUnusable \/ Timeout \/ Hang

Spec == Init /\ [][Next]_coprocVars

-----------------------------------------------------------------------------
(* Properties                                                               *)

(* Frame numbers are kept twice, by the engine and in _frameNum, and an     *)
(* answer moves both back or forward: between two ticks they agree, and no  *)
(* answer takes main past a frame it has reached itself, whose input the    *)
(* local player has not given yet.                                         *)
FramesAgree == main.js = engine.frame /\ engine.frame <= main.hi

(* Once the coprocessor is given up nothing is waited for, so that the tick *)
(* loop is not held by a gate nobody opens.                                *)
GivenUpIsOver == main.aborted => Idle

(* An answer never moves main backwards while it replays, and a replay or   *)
(* an answer never hands the core a state for another frame: what an answer *)
(* is taken for is the rollback dispatched last.                           *)
OnlyTheLastAnswerCounts == ~Idle => pend.seq = main.seq

CoprocSound == FramesAgree /\ GivenUpIsOver /\ OnlyTheLastAnswerCounts

(* Broken by the code: the epoch is meant to be "incremented every time a   *)
(* NEW rollback enters the replay branch", but a misprediction that         *)
(* preempts a running replay finds _rbReplayLogged set and leaves it; the   *)
(* answer to the older rollback is then taken.                             *)
OvertakenAnswersAreDropped ==
  [][(\E a \in answers : a.seq = pend.seq /\ Answer(a) /\ a.ok)
       => \/ engine'.frame = engine.frame /\ engine'.bad = engine.bad
          \/ pend.rewinds = main.rewinds]_coprocVars

(* Broken by the code: an input that contradicts a frame the worker has     *)
(* replayed with a prediction is forgotten when its answer is taken.        *)
MistakesAreCorrected ==
  \A f \in engine.bad \cap known : engine.pending <= f \/ engine.start <= f

(* Broken by the code: a refusal or a hang leaves the engine deferred.      *)
DeferralEndsWithItsAnswer == engine.deferred => pend.how = "deferred"
=============================================================================
