---------------------------- MODULE PagePartsProofs ----------------------------
(***************************************************************************)
(* The parts of the page, for every value of their constants.              *)
(*                                                                         *)
(* PageParts keeps the variables of every part in v1, v2, ...; each        *)
(* section gives them the names they have in their module again.           *)
(***************************************************************************)
EXTENDS PageParts, FiniteSets, Sequences, WellFoundedInduction, TLAPS

(***************************************************************************)
(* WorkerCoproc: the coprocessor for replays.                              *)
(***************************************************************************)

mode    == v1
differs == v2
known   == v3
engine  == v4
ring    == v5
tick    == v6   (* main *)
pend    == v7
answers == v8
USE DEF mode, differs, known, engine, ring, tick, pend, answers

(* A replay ends ahead of where it is and no further than main has been;    *)
(* neither does the frame a dispatch is to be answered for lie further.     *)
(* Until the limit of refusals the coprocessor is in use.                   *)
CoprocInv ==
  /\ Coproc!CoprocTypeOK /\ Coproc!CoprocSound
  /\ Coproc!Replaying(engine) => engine.frame < engine.target /\ engine.target <= tick.hi
  /\ ~Coproc!Idle => pend.target <= tick.hi
  /\ tick.aborted \/ tick.rejects < RejectLimit

LEMMA CoprocInit == Coproc!Init => CoprocInv
<1> SUFFICES ASSUME Coproc!Init PROVE CoprocInv
  OBVIOUS
<1> USE CoprocAssumption
<1>1. Coproc!CoprocTypeOK
  BY DEF Coproc!Init, Coproc!CoprocTypeOK, Coproc!Engine, Coproc!Main, Coproc!Dispatch,
         Coproc!NoDispatch, Coproc!Frames, Coproc!None
<1>2. Coproc!CoprocSound
  BY DEF Coproc!Init, Coproc!CoprocSound, Coproc!FramesAgree, Coproc!GivenUpIsOver,
         Coproc!OnlyTheLastAnswerCounts, Coproc!Idle, Coproc!NoDispatch
<1> QED
  BY <1>1, <1>2 DEF CoprocInv, Coproc!Init, Coproc!Replaying, Coproc!Idle, Coproc!NoDispatch,
                    Coproc!None

(* An engine at a frame main has been at, or in a replay that leads to one.  *)
Placed(e, hi) ==
  /\ e \in Coproc!Engine /\ e.frame <= hi
  /\ Coproc!Replaying(e) => e.frame < e.target /\ e.target <= hi

(* What a frame or a burst makes of the engine, from main's record m.        *)
Advanced(m) ==
  /\ ring' \in [Coproc!Frames -> SUBSET Coproc!Frames]
  /\ tick' \in Coproc!Main /\ tick'.js = engine'.frame /\ Placed(engine', tick'.hi)
  /\ m.hi <= tick'.hi /\ tick'.seq = m.seq /\ tick'.aborted = m.aborted
  /\ tick'.rejects = m.rejects

LEMMA RingTyped ==
  ASSUME NEW e \in Coproc!Engine, ring \in [Coproc!Frames -> SUBSET Coproc!Frames],
         NEW to \in Coproc!Frames
  PROVE  /\ Coproc!Wrong(e.frame, to) \subseteq Coproc!Frames
         /\ Coproc!Saved(e, to) \in [Coproc!Frames -> SUBSET Coproc!Frames]
BY CoprocAssumption DEF Coproc!Saved, Coproc!Wrong, Coproc!Engine, Coproc!Frames

LEMMA RunToKeeps ==
  ASSUME NEW e \in Coproc!Engine, NEW to \in Coproc!Frames, NEW hi \in Coproc!Frames,
         Placed(e, hi), e.frame < to, to <= hi
  PROVE  LET e2 == Coproc!RunTo(e, to) IN Placed(e2, hi) /\ e2.frame = to
<1> DEFINE e2 == Coproc!RunTo(e, to)
<1>1. Coproc!Wrong(e.frame, to) \subseteq Coproc!Frames
  BY CoprocAssumption DEF Coproc!Wrong, Coproc!Engine, Coproc!Frames
<1>2. e.target \in 0..Coproc!None /\ Coproc!None \in 0..Coproc!None /\ to \in Nat /\ hi \in Nat
      /\ Coproc!None \in Nat
  BY CoprocAssumption DEF Coproc!Engine, Coproc!Frames, Coproc!None
<1>3. /\ e2.frame = to /\ e2.target = IF to >= e.target THEN Coproc!None ELSE e.target
      /\ e2 \in Coproc!Engine
  BY <1>1, <1>2 DEF Coproc!RunTo, Coproc!Engine
<1> HIDE DEF e2
<1>4. Coproc!Replaying(e2) => e2.frame < e2.target /\ e2.target <= hi
  BY <1>2, <1>3 DEF Placed, Coproc!Replaying
<1> QED
  BY <1>3, <1>4 DEF Placed, e2

LEMMA NormalFrameKeeps ==
  ASSUME ring \in [Coproc!Frames -> SUBSET Coproc!Frames],
         NEW e, NEW m \in Coproc!Main, Placed(e, m.hi), Coproc!NormalFrame(e, m)
  PROVE  Advanced(m)
<1> DEFINE to == e.frame + 1
           top == IF to > m.hi THEN to ELSE m.hi
<1>0. /\ e \in Coproc!Engine /\ e.frame \in Int /\ e.target \in Int
      /\ to \in Coproc!Frames /\ m.hi \in Coproc!Frames
  BY CoprocAssumption, SMTT(30) DEF Placed, Coproc!NormalFrame, Coproc!Engine, Coproc!Frames, Coproc!Main, Coproc!None
<1>1. /\ e \in Coproc!Engine /\ to \in Coproc!Frames /\ m.hi \in Coproc!Frames
      /\ top \in Coproc!Frames /\ to <= top /\ m.hi <= top /\ Placed(e, top) /\ e.frame < to
  BY <1>0 DEF Placed, Coproc!Frames
<1>2. Placed(Coproc!RunTo(e, to), top) /\ Coproc!RunTo(e, to).frame = to
  BY <1>1, RunToKeeps
<1>3. /\ engine' = Coproc!RunTo(e, to) /\ ring' = Coproc!Saved(e, to)
      /\ tick' = [m EXCEPT !.js = to, !.logged = FALSE, !.hi = top]
  BY <1>2 DEF Coproc!NormalFrame
<1>4. /\ tick' \in Coproc!Main /\ tick'.js = to /\ tick'.hi = top /\ tick'.seq = m.seq
      /\ tick'.aborted = m.aborted /\ tick'.rejects = m.rejects
  BY <1>1, <1>3 DEF Coproc!Main
<1> QED
  BY <1>1, <1>2, <1>3, <1>4, RingTyped DEF Advanced

LEMMA BurstKeeps ==
  ASSUME ring \in [Coproc!Frames -> SUBSET Coproc!Frames],
         NEW e, NEW m \in Coproc!Main, Placed(e, m.hi), Coproc!Replaying(e), Coproc!Burst(e, m)
  PROVE  Advanced(m)
<1>0. /\ m.hi \in 0..CoprocFrames /\ e.frame \in 0..CoprocFrames /\ e.target <= m.hi
      /\ e \in Coproc!Engine /\ e.target \in Nat
  BY CoprocAssumption DEF Placed, Coproc!Main, Coproc!Engine, Coproc!Frames, Coproc!None
<1>1. PICK to \in (e.frame + 1)..e.target :
        /\ engine' = Coproc!RunTo(e, to) /\ ring' = Coproc!Saved(e, to)
        /\ tick' = [m EXCEPT !.js = to, !.logged = Coproc!Replaying(Coproc!RunTo(e, to))]
  BY DEF Coproc!Burst
<1>2. /\ e \in Coproc!Engine /\ to \in Coproc!Frames /\ m.hi \in Coproc!Frames
      /\ to <= m.hi /\ e.frame < to
  BY <1>0, CoprocAssumption DEF Coproc!Frames
<1>3. Placed(Coproc!RunTo(e, to), m.hi) /\ Coproc!RunTo(e, to).frame = to
  BY <1>2, RunToKeeps
<1>4. /\ tick' \in Coproc!Main /\ tick'.js = to /\ tick'.hi = m.hi /\ tick'.seq = m.seq
      /\ tick'.aborted = m.aborted /\ tick'.rejects = m.rejects
  BY <1>1, <1>2 DEF Coproc!Main, Coproc!Replaying
<1>5. ring' \in [Coproc!Frames -> SUBSET Coproc!Frames]
  BY <1>1, <1>2, RingTyped
<1>6. m.hi <= tick'.hi
  BY <1>0, <1>4
<1> QED
  BY <1>1, <1>3, <1>4, <1>5, <1>6 DEF Advanced


LEMMA CascadeKeeps ==
  ASSUME CoprocInv
  PROVE  LET e == Coproc!AfterCascade[1]
             m == Coproc!AfterCascade[2]
         IN /\ Placed(e, m.hi) /\ m \in Coproc!Main
            /\ e.frame = engine.frame /\ e.target = engine.target
            /\ m.hi = tick.hi /\ m.seq = tick.seq /\ m.aborted = tick.aborted
            /\ m.rejects = tick.rejects
<1>1. /\ engine \in Coproc!Engine /\ tick \in Coproc!Main /\ Placed(engine, tick.hi)
  BY DEF CoprocInv, Coproc!CoprocTypeOK, Coproc!CoprocSound, Coproc!FramesAgree, Placed
<1>2. Placed([engine EXCEPT !.deferred = FALSE], tick.hi)
  BY <1>1 DEF Placed, Coproc!Engine, Coproc!Replaying
<1>3. [tick EXCEPT !.epoch = @ + 1] \in Coproc!Main
  BY <1>1 DEF Coproc!Main
<1> QED
  BY <1>1, <1>2, <1>3 DEF Coproc!AfterCascade, Coproc!Main, Coproc!Engine

(* A rewind goes to a state of the ring, and replays up to the present.      *)
LEMMA PreTickKeeps ==
  ASSUME ring \in [Coproc!Frames -> SUBSET Coproc!Frames],
         NEW e, NEW hi \in Coproc!Frames, Placed(e, hi)
  PROVE  Placed(Coproc!PreTick(e), hi)
<1>1. e \in Coproc!Engine /\ e.frame \in Coproc!Frames /\ e.pending \in 0..Coproc!None
  BY DEF Placed, Coproc!Engine
<1>2. CASE ~Coproc!Rewinds(e)
  BY <1>2 DEF Coproc!PreTick
<1>3. CASE Coproc!Rewinds(e)
  <2>1. e.pending \in Coproc!Frames /\ e.pending < e.frame /\ e.frame \in 0..Coproc!None
        /\ e.frame # Coproc!None /\ e.frame <= hi
    BY <1>1, <1>3, CoprocAssumption DEF Coproc!Rewinds, Coproc!Frames, Coproc!None, Placed
  <2>2. ring[e.pending] \subseteq Coproc!Frames /\ Coproc!None \in 0..Coproc!None
    BY <2>1, CoprocAssumption DEF Coproc!None, Coproc!Frames
  <2> DEFINE f == [e EXCEPT !.frame = e.pending, !.bad = ring[e.pending], !.pending = Coproc!None,
                            !.start = e.pending, !.target = e.frame]
  <2>3. f \in Coproc!Engine /\ f.frame = e.pending /\ f.target = e.frame
    BY <1>1, <2>1, <2>2 DEF Coproc!Engine
  <2>4. Coproc!PreTick(e) = f
    BY <1>3 DEF Coproc!PreTick
  <2> HIDE DEF f
  <2> QED
    BY <1>1, <2>1, <2>3, <2>4, CoprocAssumption DEF Placed, Coproc!Frames
<1> QED
  BY <1>2, <1>3

(* What a tick leaves of main's record before it runs frames.                *)
LEMMA EnteredKeeps ==
  ASSUME NEW e \in Coproc!Engine, NEW m \in Coproc!Main, NEW rewound \in BOOLEAN
  PROVE  LET n == Coproc!Entered(e, m, rewound)
         IN /\ n \in Coproc!Main /\ n.js = e.frame /\ n.hi = m.hi /\ n.seq = m.seq
            /\ n.aborted = m.aborted /\ n.rejects = m.rejects
<1> DEFINE epoch == IF m.logged THEN m.epoch ELSE m.epoch + 1
           rewinds == IF rewound THEN m.rewinds + 1 ELSE m.rewinds
           n == [m EXCEPT !.js = e.frame, !.logged = TRUE, !.epoch = epoch, !.rewinds = rewinds]
<1>1. epoch \in Nat /\ rewinds \in Nat /\ e.frame \in Coproc!Frames
  BY DEF Coproc!Main, Coproc!Engine
<1>2. Coproc!Entered(e, m, rewound) = n
  BY DEF Coproc!Entered
<1> HIDE DEF epoch, rewinds
<1>3. /\ n \in Coproc!Main /\ n.js = e.frame /\ n.hi = m.hi /\ n.seq = m.seq
      /\ n.aborted = m.aborted /\ n.rejects = m.rejects
  BY <1>1 DEF Coproc!Main
<1> QED
  BY <1>2, <1>3

(* An answer is for states of the ring.                                      *)
LEMMA SendsTyped ==
  ASSUME CoprocInv, NEW s \in 1..Dispatches, NEW start \in Coproc!Frames,
         NEW target \in Coproc!Frames, Coproc!Sends(s, start, target)
  PROVE  \A a \in answers' : a.seq \in 1..Dispatches /\ a.ok \in BOOLEAN /\ a.bad \subseteq Coproc!Frames
<1>1. /\ ring[start] \subseteq Coproc!Frames /\ Coproc!Wrong(start, target) \subseteq Coproc!Frames
  BY CoprocAssumption DEF CoprocInv, Coproc!CoprocTypeOK, Coproc!Wrong, Coproc!Frames
<1>2. \A a \in answers : a.seq \in 1..Dispatches /\ a.ok \in BOOLEAN /\ a.bad \subseteq Coproc!Frames
  BY DEF CoprocInv, Coproc!CoprocTypeOK
<1>3. \A a \in Coproc!Answers(s, start, target) :
        a.seq = s /\ a.ok \in BOOLEAN /\ a.bad \subseteq Coproc!Frames
  <2> DEFINE bad == Coproc!WorkerReplay(start, target)
  <2>1. bad \subseteq Coproc!Frames
    BY <1>1 DEF Coproc!WorkerReplay
  <2> HIDE DEF bad
  <2>2. Coproc!Answers(s, start, target) =
          {[seq |-> s, ok |-> TRUE, bad |-> bad], [seq |-> s, ok |-> FALSE, bad |-> {}]}
    BY DEF Coproc!Answers, bad
  <2>3. ASSUME NEW a, a = [seq |-> s, ok |-> TRUE, bad |-> bad] \/ a = [seq |-> s, ok |-> FALSE, bad |-> {}]
        PROVE  a.seq = s /\ a.ok \in BOOLEAN /\ a.bad \subseteq Coproc!Frames
    <3>1. a.seq = s /\ (a.ok = TRUE \/ a.ok = FALSE) /\ (a.bad = bad \/ a.bad = {})
      BY <2>3
    <3> QED
      BY <2>1, <3>1
  <2> QED
    BY <2>2, <2>3
<1> QED
  BY <1>2, <1>3 DEF Coproc!Sends


(* The steps.                                                               *)
LEMMA RemoteInputKeeps == CoprocInv /\ Coproc!RemoteInput => CoprocInv'
<1> SUFFICES ASSUME CoprocInv, Coproc!RemoteInput PROVE CoprocInv'
  OBVIOUS
<1>1. /\ known' \subseteq Coproc!Frames /\ engine' \in Coproc!Engine
      /\ engine'.frame = engine.frame /\ engine'.target = engine.target
      /\ UNCHANGED <<mode, differs, ring, tick, pend, answers>>
  <2>1. PICK f \in Coproc!Frames \ known :
          /\ known' = known \cup {f}
          /\ engine' = [engine EXCEPT !.pending = Coproc!AtMost(engine.pending, f)] \/ engine' = engine
    BY DEF Coproc!RemoteInput
  <2>2. engine \in Coproc!Engine /\ known \subseteq Coproc!Frames
    BY DEF CoprocInv, Coproc!CoprocTypeOK
  <2>3. Coproc!AtMost(engine.pending, f) \in 0..Coproc!None
    BY <2>2, CoprocAssumption DEF Coproc!Engine, Coproc!AtMost, Coproc!Frames, Coproc!None
  <2> QED
    BY <2>1, <2>2, <2>3 DEF Coproc!RemoteInput, Coproc!Engine
<1>2. Coproc!CoprocTypeOK'
  BY <1>1 DEF CoprocInv, Coproc!CoprocTypeOK
<1> QED
  BY <1>1, <1>2 DEF CoprocInv, Coproc!CoprocSound, Coproc!FramesAgree, Coproc!GivenUpIsOver,
                    Coproc!OnlyTheLastAnswerCounts, Coproc!Idle, Coproc!Replaying

(* A tick that sends nothing, from main's record m.                          *)
LEMMA TickKeeps ==
  ASSUME CoprocInv, NEW m, m.hi = tick.hi, m.seq = tick.seq, m.aborted = tick.aborted,
         m.rejects = tick.rejects, Advanced(m),
         UNCHANGED <<mode, differs, known, pend, answers>>
  PROVE  CoprocInv'
<1>1. engine' \in Coproc!Engine /\ tick' \in Coproc!Main
  BY DEF Advanced, Placed
<1>2. Coproc!CoprocTypeOK'
  BY <1>1 DEF CoprocInv, Coproc!CoprocTypeOK, Advanced
<1>3. /\ tick.hi \in Nat /\ tick'.hi \in Nat
  BY <1>1, CoprocAssumption DEF CoprocInv, Coproc!CoprocTypeOK, Coproc!Main, Coproc!Frames
<1>4. ~Coproc!Idle => pend.target \in Nat
  BY CoprocAssumption DEF CoprocInv, Coproc!CoprocTypeOK, Coproc!Dispatch, Coproc!Frames
<1>5. Coproc!CoprocSound'
  BY DEF CoprocInv, Coproc!CoprocSound, Coproc!FramesAgree, Coproc!GivenUpIsOver,
         Coproc!OnlyTheLastAnswerCounts, Coproc!Idle, Advanced, Placed
<1> QED
  BY <1>2, <1>3, <1>4, <1>5 DEF CoprocInv, Coproc!Idle, Coproc!Replaying, Advanced, Placed

LEMMA TickNormalKeeps == CoprocInv /\ Coproc!TickNormal => CoprocInv'
<1> SUFFICES ASSUME CoprocInv, Coproc!TickNormal PROVE CoprocInv'
  OBVIOUS
<1> DEFINE m == Coproc!AfterCascade[2]
           e == Coproc!PreTick(Coproc!AfterCascade[1])
<1>1. /\ Placed(Coproc!AfterCascade[1], m.hi) /\ m \in Coproc!Main
      /\ m.hi = tick.hi /\ m.seq = tick.seq /\ m.aborted = tick.aborted /\ m.rejects = tick.rejects
  BY CascadeKeeps
<1>2. /\ ring \in [Coproc!Frames -> SUBSET Coproc!Frames] /\ m.hi \in Coproc!Frames
  BY <1>1 DEF CoprocInv, Coproc!CoprocTypeOK, Coproc!Main
<1>3. Placed(e, m.hi)
  BY <1>1, <1>2, PreTickKeeps
<1>4. Coproc!NormalFrame(e, m) /\ UNCHANGED <<mode, differs, known, pend, answers>>
  BY DEF Coproc!TickNormal
<1> HIDE DEF e, m
<1>5. Advanced(m)
  BY <1>1, <1>2, <1>3, <1>4, NormalFrameKeeps
<1> QED
  BY <1>1, <1>4, <1>5, TickKeeps

LEMMA TickReplayKeeps == CoprocInv /\ Coproc!TickReplay => CoprocInv'
<1> SUFFICES ASSUME CoprocInv, Coproc!TickReplay PROVE CoprocInv'
  OBVIOUS
<1> DEFINE c == Coproc!AfterCascade[2]
           e == Coproc!PreTick(Coproc!AfterCascade[1])
           rewound == Coproc!Rewinds(Coproc!AfterCascade[1])
           m == Coproc!Entered(e, c, rewound)
<1>1. /\ Placed(Coproc!AfterCascade[1], c.hi) /\ c \in Coproc!Main
      /\ c.hi = tick.hi /\ c.seq = tick.seq /\ c.aborted = tick.aborted /\ c.rejects = tick.rejects
  BY CascadeKeeps
<1>2. /\ ring \in [Coproc!Frames -> SUBSET Coproc!Frames] /\ c.hi \in Coproc!Frames
  BY <1>1 DEF CoprocInv, Coproc!CoprocTypeOK, Coproc!Main
<1>3. Placed(e, c.hi)
  BY <1>1, <1>2, PreTickKeeps
<1>4. /\ Coproc!Burst(e, m) /\ Coproc!Replaying(e)
      /\ UNCHANGED <<mode, differs, known, pend, answers>>
  BY DEF Coproc!TickReplay
<1>5. rewound \in BOOLEAN
  BY DEF Coproc!Rewinds
<1> HIDE DEF e, c, rewound
<1>6. /\ m \in Coproc!Main /\ m.hi = tick.hi /\ m.seq = tick.seq /\ m.aborted = tick.aborted
      /\ m.rejects = tick.rejects /\ Placed(e, m.hi)
  BY <1>1, <1>3, <1>5, EnteredKeeps DEF Placed
<1> HIDE DEF m
<1>7. Advanced(m)
  BY <1>2, <1>4, <1>6, BurstKeeps
<1> QED
  BY <1>4, <1>6, <1>7, TickKeeps


(* A dispatch out after a tick is the last one.                              *)
LEMMA DispatchKeeps ==
  ASSUME CoprocInv, NEW m, m.seq \in 1..Dispatches, m.aborted = FALSE, m.rejects = tick.rejects,
         m.hi = tick.hi, tick.aborted = FALSE,
         Advanced(m), pend' \in Coproc!Dispatch, pend'.seq = m.seq, pend'.target = tick.js,
         \A a \in answers' : a.seq \in 1..Dispatches /\ a.ok \in BOOLEAN /\ a.bad \subseteq Coproc!Frames,
         UNCHANGED <<mode, differs, known>>
  PROVE  CoprocInv'
<1>1. engine' \in Coproc!Engine /\ tick' \in Coproc!Main
  BY DEF Advanced, Placed
<1>2. Coproc!CoprocTypeOK'
  BY <1>1 DEF CoprocInv, Coproc!CoprocTypeOK, Advanced
<1>3. /\ tick.hi \in Nat /\ tick'.hi \in Nat /\ tick.js \in Nat /\ tick.js <= tick.hi
  BY <1>1, CoprocAssumption, SMTT(30) DEF CoprocInv, Coproc!CoprocTypeOK, Coproc!Main, Coproc!Frames,
                                          Coproc!CoprocSound, Coproc!FramesAgree
<1>4. Coproc!CoprocSound'
  BY DEF Coproc!CoprocSound, Coproc!FramesAgree, Coproc!GivenUpIsOver,
         Coproc!OnlyTheLastAnswerCounts, Advanced, Placed
<1>5. tick'.rejects < RejectLimit
  BY DEF CoprocInv, Advanced
<1> QED
  BY <1>2, <1>3, <1>4, <1>5 DEF CoprocInv, Coproc!Replaying, Advanced, Placed

LEMMA TickDeferringKeeps == CoprocInv /\ Coproc!TickDeferring => CoprocInv'
<1> SUFFICES ASSUME CoprocInv, Coproc!TickDeferring PROVE CoprocInv'
  OBVIOUS
<1> DEFINE e == Coproc!AfterCascade[1]
           c == Coproc!AfterCascade[2]
           s == c.seq + 1
           d == [e EXCEPT !.deferred = TRUE]
           m == [c EXCEPT !.epoch = c.epoch + 1, !.seq = s]
<1>1. /\ Placed(e, c.hi) /\ c \in Coproc!Main
      /\ c.hi = tick.hi /\ c.seq = tick.seq /\ c.aborted = tick.aborted /\ c.rejects = tick.rejects
      /\ e.frame = engine.frame
  BY CascadeKeeps
<1>2. /\ Coproc!Defers(e) /\ Coproc!Sends(s, e.pending, tick.js)
      /\ pend' = [seq |-> s, how |-> "deferred", start |-> e.pending, target |-> tick.js,
                  epoch |-> c.epoch + 1, rewinds |-> c.rewinds]
      /\ Coproc!NormalFrame(d, m) /\ UNCHANGED <<mode, differs, known>>
  BY DEF Coproc!TickDeferring, Coproc!DeferredEpoch
<1> HIDE DEF e, c
<1>3. /\ ring \in [Coproc!Frames -> SUBSET Coproc!Frames] /\ tick \in Coproc!Main
  BY DEF CoprocInv, Coproc!CoprocTypeOK
<1>4. /\ tick.aborted = FALSE /\ tick.seq < Dispatches /\ e.pending < e.frame
  BY <1>2, <1>3 DEF Coproc!Defers, Coproc!MaySend, Coproc!Main
<1>5. /\ s \in 1..Dispatches /\ e.pending \in Coproc!Frames /\ tick.js \in Coproc!Frames
  <2>1. /\ c.seq \in 0..Dispatches /\ c.seq < Dispatches /\ tick.js \in Coproc!Frames
    BY <1>1, <1>3, <1>4 DEF Coproc!Main
  <2>2. e.pending \in 0..Coproc!None /\ e.frame \in 0..CoprocFrames
    BY <1>1 DEF Placed, Coproc!Engine, Coproc!Frames
  <2> QED
    BY <2>1, <2>2, <1>4, CoprocAssumption DEF Coproc!Frames, Coproc!None
<1>6. /\ m \in Coproc!Main /\ m.hi = tick.hi /\ m.seq = s /\ m.aborted = FALSE
      /\ m.rejects = tick.rejects
  <2>1. s \in 0..Dispatches /\ c.epoch + 1 \in Nat
    BY <1>1, <1>5 DEF Coproc!Main
  <2> HIDE DEF s
  <2> QED
    BY <1>1, <1>4, <2>1 DEF Coproc!Main
<1>7. Placed(d, m.hi)
  BY <1>1, <1>6 DEF Placed, Coproc!Engine, Coproc!Replaying
<1>8. pend' \in Coproc!Dispatch /\ pend'.seq = s /\ pend'.target = tick.js
  BY <1>1, <1>2, <1>5 DEF Coproc!Dispatch, Coproc!Main
<1>9. \A a \in answers' : a.seq \in 1..Dispatches /\ a.ok \in BOOLEAN /\ a.bad \subseteq Coproc!Frames
  BY <1>2, <1>5, SendsTyped
<1> HIDE DEF d, m, s
<1>10. Advanced(m)
  BY <1>2, <1>3, <1>6, <1>7, NormalFrameKeeps
<1> QED
  BY <1>2, <1>4, <1>5, <1>6, <1>8, <1>9, <1>10, DispatchKeeps

LEMMA TickDispatchKeeps == CoprocInv /\ Coproc!TickDispatch => CoprocInv'
<1> SUFFICES ASSUME CoprocInv, Coproc!TickDispatch PROVE CoprocInv'
  OBVIOUS
<1> DEFINE c == Coproc!AfterCascade[2]
           e == Coproc!PreTick(Coproc!AfterCascade[1])
           rewound == Coproc!Rewinds(Coproc!AfterCascade[1])
           n == Coproc!Entered(e, c, rewound)
           m == [n EXCEPT !.seq = n.seq + 1]
           how == IF mode = "waiting" THEN "waiting" ELSE "parallel"
           depth == e.target - e.frame
           start == IF depth > tick.js THEN tick.js ELSE tick.js - depth
<1>1. /\ Placed(Coproc!AfterCascade[1], c.hi) /\ c \in Coproc!Main
      /\ c.hi = tick.hi /\ c.seq = tick.seq /\ c.aborted = tick.aborted /\ c.rejects = tick.rejects
  BY CascadeKeeps
<1>2. /\ ring \in [Coproc!Frames -> SUBSET Coproc!Frames] /\ c.hi \in Coproc!Frames
      /\ tick \in Coproc!Main
  BY <1>1 DEF CoprocInv, Coproc!CoprocTypeOK, Coproc!Main
<1>3. Placed(e, c.hi)
  BY <1>1, <1>2, PreTickKeeps
<1>4. /\ Coproc!Replaying(e) /\ Coproc!MaySend(e) /\ Coproc!Sends(m.seq, start, tick.js)
      /\ pend' = [seq |-> m.seq, how |-> how, start |-> e.frame, target |-> tick.js,
                  epoch |-> m.epoch, rewinds |-> m.rewinds]
      /\ \/ Coproc!Burst(e, m)
         \/ /\ engine' = [e EXCEPT !.pending = Coproc!None, !.target = Coproc!None]
            /\ tick' = m /\ ring' = ring
      /\ UNCHANGED <<mode, differs, known>>
  BY DEF Coproc!TickDispatch
<1>5. rewound \in BOOLEAN
  BY DEF Coproc!Rewinds
<1> HIDE DEF e, c, rewound
<1>6. /\ n \in Coproc!Main /\ n.hi = tick.hi /\ n.seq = tick.seq /\ n.aborted = tick.aborted
      /\ n.rejects = tick.rejects /\ n.js = e.frame /\ Placed(e, n.hi) /\ e \in Coproc!Engine
  BY <1>1, <1>3, <1>5, EnteredKeeps DEF Placed
<1> HIDE DEF n
<1>7. tick.aborted = FALSE /\ tick.seq + 1 \in 1..Dispatches
  BY <1>2, <1>4, CoprocAssumption DEF Coproc!MaySend, Coproc!Main
<1>8. /\ m \in Coproc!Main /\ m.hi = tick.hi /\ m.seq \in 1..Dispatches /\ m.aborted = FALSE
      /\ m.rejects = tick.rejects /\ m.js = e.frame /\ Placed(e, m.hi)
  BY <1>6, <1>7 DEF Coproc!Main
<1>9. /\ tick.js \in Coproc!Frames /\ e.frame \in Coproc!Frames
      /\ start \in Coproc!Frames
  <2>1. /\ tick.js \in 0..CoprocFrames /\ e.frame \in 0..CoprocFrames /\ e.target \in Nat
        /\ e.frame < e.target
    BY <1>2, <1>4, <1>6, CoprocAssumption DEF Coproc!Main, Coproc!Engine, Coproc!Frames, Coproc!None, Placed
  <2> QED
    BY <2>1, CoprocAssumption DEF Coproc!Frames
<1> HIDE DEF start, depth
<1>10. pend' \in Coproc!Dispatch /\ pend'.seq = m.seq /\ pend'.target = tick.js
  BY <1>4, <1>8, <1>9 DEF Coproc!Dispatch, Coproc!Main
<1>11. \A a \in answers' : a.seq \in 1..Dispatches /\ a.ok \in BOOLEAN /\ a.bad \subseteq Coproc!Frames
  BY <1>4, <1>8, <1>9, SendsTyped
<1> HIDE DEF m, how
<1>12. Advanced(m)
  <2>1. CASE Coproc!Burst(e, m)
    BY <2>1, <1>2, <1>4, <1>8, BurstKeeps
  <2>2. CASE /\ engine' = [e EXCEPT !.pending = Coproc!None, !.target = Coproc!None]
             /\ tick' = m /\ ring' = ring
    <3>1. Coproc!None \in 0..Coproc!None /\ m.hi \in Nat
      BY <1>8, CoprocAssumption DEF Coproc!None, Coproc!Main, Coproc!Frames
    <3>2. engine' \in Coproc!Engine /\ engine'.frame = e.frame /\ engine'.target = Coproc!None
      BY <2>2, <1>6, <3>1 DEF Coproc!Engine
    <3> QED
      BY <2>2, <3>1, <3>2, <1>2, <1>8 DEF Advanced, Placed, Coproc!Replaying
  <2> QED
    BY <1>4, <2>1, <2>2
<1> QED
  BY <1>4, <1>7, <1>8, <1>10, <1>11, <1>12, DispatchKeeps


(* The end of a dispatch.                                                    *)
LEMMA EndKeeps ==
  ASSUME CoprocInv, pend' = Coproc!NoDispatch, answers' \subseteq answers,
         engine' \in Coproc!Engine, ring' \in [Coproc!Frames -> SUBSET Coproc!Frames],
         tick' \in Coproc!Main, tick'.js = engine'.frame, Placed(engine', tick'.hi),
         tick'.aborted \/ tick'.rejects < RejectLimit,
         UNCHANGED <<mode, differs, known>>
  PROVE  CoprocInv'
<1>1. Coproc!NoDispatch \in Coproc!Dispatch /\ Coproc!NoDispatch.how = "none"
  BY CoprocAssumption DEF Coproc!NoDispatch, Coproc!Dispatch, Coproc!Frames
<1>2. Coproc!CoprocTypeOK'
  BY <1>1 DEF CoprocInv, Coproc!CoprocTypeOK
<1> QED
  BY <1>1, <1>2 DEF CoprocInv, Coproc!CoprocSound, Coproc!FramesAgree, Coproc!GivenUpIsOver,
                    Coproc!OnlyTheLastAnswerCounts, Coproc!Idle, Placed

(* Whatever an answer says, the engine stays where main has been.            *)
LEMMA AcceptKeeps ==
  ASSUME CoprocInv, NEW a \in answers, ~Coproc!Idle, Coproc!Accept(a), answers' \subseteq answers,
         pend' = Coproc!NoDispatch, UNCHANGED <<mode, differs, known>>
  PROVE  CoprocInv'
<1> DEFINE e == Coproc!Applied(engine, pend.target, a.bad)
<1>1. /\ tick \in Coproc!Main /\ engine \in Coproc!Engine /\ pend \in Coproc!Dispatch
      /\ ring \in [Coproc!Frames -> SUBSET Coproc!Frames] /\ a.bad \subseteq Coproc!Frames
      /\ pend.target <= tick.hi /\ tick.aborted = FALSE /\ tick.rejects < RejectLimit
  BY DEF CoprocInv, Coproc!CoprocTypeOK, Coproc!CoprocSound, Coproc!GivenUpIsOver, Coproc!Main
<1>2. /\ e \in Coproc!Engine /\ e.frame = pend.target /\ e.target = Coproc!None
      /\ pend.target \in Coproc!Frames
  <2>1. Coproc!None \in 0..Coproc!None
    BY CoprocAssumption DEF Coproc!None
  <2> QED
    BY <1>1, <2>1 DEF Coproc!Applied, Coproc!Engine, Coproc!Dispatch
<1> HIDE DEF e
<1>3. 0 \in 0..RejectLimit /\ 0 < RejectLimit
  BY CoprocAssumption
<1>4. CASE /\ engine' = [e EXCEPT !.deferred = FALSE] /\ ring' = ring
           /\ tick' = [tick EXCEPT !.js = pend.target]
  <2>1. /\ engine' \in Coproc!Engine /\ engine'.frame = pend.target /\ engine'.target = Coproc!None
        /\ tick' \in Coproc!Main /\ tick'.js = pend.target /\ tick'.hi = tick.hi
        /\ tick'.rejects = tick.rejects
    BY <1>1, <1>2, <1>4 DEF Coproc!Engine, Coproc!Main
  <2>2. Placed(engine', tick'.hi)
    BY <1>1, <2>1 DEF Placed, Coproc!Replaying
  <2> QED
    BY <1>1, <1>4, <2>1, <2>2, EndKeeps
<1>5. CASE Coproc!NormalFrame(e, [tick EXCEPT !.rejects = 0])
  <2> DEFINE m == [tick EXCEPT !.rejects = 0]
  <2>1. m \in Coproc!Main /\ m.hi = tick.hi /\ m.rejects = 0
    BY <1>1, <1>3 DEF Coproc!Main
  <2>2. Placed(e, m.hi)
    BY <1>1, <1>2, <2>1 DEF Placed, Coproc!Replaying
  <2> HIDE DEF m
  <2>3. Advanced(m)
    BY <1>1, <1>5, <2>1, <2>2, NormalFrameKeeps DEF m
  <2> QED
    BY <1>3, <2>1, <2>3, EndKeeps DEF Advanced, Placed
<1>6. CASE /\ engine' = e /\ ring' = ring
           /\ tick' = [tick EXCEPT !.rejects = 0, !.js = pend.target]
  <2>1. /\ tick' \in Coproc!Main /\ tick'.js = pend.target /\ tick'.hi = tick.hi
        /\ tick'.rejects = 0
    BY <1>1, <1>2, <1>3, <1>6 DEF Coproc!Main
  <2>2. Placed(engine', tick'.hi)
    BY <1>1, <1>2, <1>6, <2>1 DEF Placed, Coproc!Replaying
  <2> QED
    BY <1>1, <1>2, <1>3, <1>6, <2>1, <2>2, EndKeeps
<1>7. CASE /\ engine' = [engine EXCEPT !.deferred = FALSE] /\ ring' = ring
           /\ tick' = [tick EXCEPT !.js = engine.frame]
  <2>1. /\ engine \in Coproc!Engine /\ Placed(engine, tick.hi)
    BY DEF CoprocInv, Coproc!CoprocTypeOK, Coproc!CoprocSound, Coproc!FramesAgree, Placed
  <2>2. /\ engine' \in Coproc!Engine /\ engine'.frame = engine.frame
        /\ engine'.target = engine.target
        /\ tick' \in Coproc!Main /\ tick'.js = engine.frame /\ tick'.hi = tick.hi
        /\ tick'.rejects = tick.rejects
    BY <1>1, <1>7, <2>1 DEF Coproc!Engine, Coproc!Main
  <2> QED
    BY <1>1, <1>7, <2>1, <2>2, EndKeeps DEF Placed, Coproc!Replaying
<1> QED
  BY <1>4, <1>5, <1>6, <1>7 DEF Coproc!Accept, e

LEMMA AnswerKeeps == CoprocInv /\ Coproc!AnswerArrives => CoprocInv'
<1> SUFFICES ASSUME CoprocInv, NEW a \in answers, Coproc!Answer(a) PROVE CoprocInv'
  BY DEF Coproc!AnswerArrives
<1>1. /\ tick \in Coproc!Main /\ engine \in Coproc!Engine /\ Placed(engine, tick.hi)
      /\ ring \in [Coproc!Frames -> SUBSET Coproc!Frames] /\ tick.js = engine.frame
      /\ tick.aborted \/ tick.rejects < RejectLimit
  BY DEF CoprocInv, Coproc!CoprocTypeOK, Coproc!CoprocSound, Coproc!FramesAgree, Placed
<1>2. answers' \subseteq answers /\ UNCHANGED <<mode, differs, known>>
  BY DEF Coproc!Answer
<1>3. CASE UNCHANGED <<engine, ring, tick, pend>>
  BY <1>2, <1>3 DEF CoprocInv, Coproc!CoprocTypeOK, Coproc!CoprocSound, Coproc!FramesAgree,
                    Coproc!GivenUpIsOver, Coproc!OnlyTheLastAnswerCounts, Coproc!Idle, Coproc!Replaying
<1>4. CASE ~Coproc!Idle /\ pend' = Coproc!NoDispatch
  <2>1. CASE /\ engine' = [engine EXCEPT !.deferred = engine.deferred /\ pend.how # "deferred"]
             /\ UNCHANGED <<ring, tick>>
    <3>1. engine' \in Coproc!Engine /\ engine'.frame = engine.frame /\ engine'.target = engine.target
      BY <1>1, <2>1 DEF Coproc!Engine
    <3> QED
      BY <1>1, <1>2, <1>4, <2>1, <3>1, EndKeeps DEF Placed, Coproc!Replaying
  <2>2. CASE Coproc!Accept(a)
    BY <1>2, <1>4, <2>2, AcceptKeeps
  <2>3. CASE tick' = Coproc!Rejected(tick) /\ UNCHANGED <<engine, ring>>
    <3>1. tick.aborted = FALSE /\ tick.rejects \in Nat /\ tick.rejects < RejectLimit
      BY <1>1, <1>4 DEF CoprocInv, Coproc!CoprocSound, Coproc!GivenUpIsOver, Coproc!Main
    <3>2. /\ tick' \in Coproc!Main /\ tick'.js = engine.frame /\ tick'.hi = tick.hi
          /\ tick'.aborted \/ tick'.rejects < RejectLimit
      <4>1. tick.rejects + 1 \in 0..RejectLimit /\ engine.frame \in Coproc!Frames
            /\ (~(tick.rejects + 1 >= RejectLimit) => tick.rejects + 1 < RejectLimit)
        BY <1>1, <3>1, CoprocAssumption DEF Coproc!Engine
      <4> DEFINE n == tick.rejects + 1
      <4>2. tick' = [tick EXCEPT !.rejects = n, !.aborted = tick.aborted \/ n >= RejectLimit,
                                 !.js = engine.frame]
        BY <2>3 DEF Coproc!Rejected
      <4> HIDE DEF n
      <4> QED
        BY <1>1, <4>1, <4>2 DEF Coproc!Main, n
    <3> QED
      BY <1>1, <1>2, <1>4, <2>3, <3>2, EndKeeps
  <2> QED
    BY <1>3, <1>4, <2>1, <2>2, <2>3 DEF Coproc!Answer
<1> QED
  BY <1>3, <1>4 DEF Coproc!Answer


(* Whoever gives the coprocessor up ends the dispatch with it.               *)
LEMMA GivenUpKeeps ==
  ASSUME CoprocInv, ~Coproc!Idle, pend' = Coproc!NoDispatch, answers' \subseteq answers,
         NEW deferred \in BOOLEAN, engine' = [engine EXCEPT !.deferred = deferred],
         NEW js, js = engine.frame, tick' = [Coproc!Abort(tick) EXCEPT !.js = js],
         UNCHANGED <<mode, differs, known, ring>>
  PROVE  CoprocInv'
<1>1. /\ tick \in Coproc!Main /\ engine \in Coproc!Engine /\ Placed(engine, tick.hi)
      /\ ring \in [Coproc!Frames -> SUBSET Coproc!Frames]
  BY DEF CoprocInv, Coproc!CoprocTypeOK, Coproc!CoprocSound, Coproc!FramesAgree, Placed
<1>2. engine' \in Coproc!Engine /\ engine'.frame = engine.frame /\ engine'.target = engine.target
  BY <1>1 DEF Coproc!Engine
<1>3. /\ tick' \in Coproc!Main /\ tick'.js = engine.frame /\ tick'.hi = tick.hi /\ tick'.aborted = TRUE
  BY <1>1 DEF Coproc!Main, Coproc!Abort, Coproc!Engine
<1> QED
  BY <1>1, <1>2, <1>3, EndKeeps DEF Placed, Coproc!Replaying

LEMMA CoprocStep == CoprocInv /\ [Coproc!Next]_Coproc!coprocVars => CoprocInv'
<1> SUFFICES ASSUME CoprocInv, [Coproc!Next]_Coproc!coprocVars PROVE CoprocInv'
  OBVIOUS
<1>1. /\ tick \in Coproc!Main /\ engine \in Coproc!Engine /\ tick.js = engine.frame
      /\ (engine.deferred /\ pend.how # "deferred") \in BOOLEAN
  BY DEF CoprocInv, Coproc!CoprocTypeOK, Coproc!CoprocSound, Coproc!FramesAgree, Coproc!Engine
<1>2. CASE Coproc!Tick
  BY <1>2, TickDeferringKeeps, TickNormalKeeps, TickReplayKeeps, TickDispatchKeeps DEF Coproc!Tick
<1>3. CASE Coproc!AnswerUnusable
  BY <1>1, <1>3, GivenUpKeeps DEF Coproc!AnswerUnusable
<1>4. CASE Coproc!Timeout
  BY <1>1, <1>4, GivenUpKeeps DEF Coproc!Timeout, Coproc!AbortedDispatch, Coproc!Abort, Coproc!Main
<1>5. CASE Coproc!Hang
  BY <1>1, <1>5, GivenUpKeeps DEF Coproc!Hang, Coproc!AbortedDispatch, Coproc!Engine
<1>6. CASE UNCHANGED Coproc!coprocVars
  BY <1>6 DEF Coproc!coprocVars, CoprocInv, Coproc!CoprocTypeOK, Coproc!CoprocSound, Coproc!FramesAgree,
              Coproc!GivenUpIsOver, Coproc!OnlyTheLastAnswerCounts, Coproc!Idle, Coproc!Replaying
<1> QED
  BY <1>2, <1>3, <1>4, <1>5, <1>6, RemoteInputKeeps, AnswerKeeps DEF Coproc!Next


CoprocPart == part = "coproc" => CoprocInv

LEMMA CoprocPartInit == PageInit => CoprocPart
BY CoprocInit DEF PageInit, CoprocPart

LEMMA CoprocPartStep == CoprocPart /\ [PageNext]_pageVars => CoprocPart'
<1> SUFFICES ASSUME CoprocPart, [PageNext]_pageVars, part' = "coproc" PROVE CoprocInv'
  BY DEF CoprocPart
<1>1. part = "coproc"
  BY DEF PageNext, pageVars, Keep8, Keep7, Keep6, Keep5, Keep4
<1>2. Coproc!Next \/ UNCHANGED Coproc!coprocVars
  BY <1>1 DEF PageNext, pageVars, Coproc!coprocVars
<1> QED
  BY <1>1, <1>2, CoprocStep DEF CoprocPart

(* Whatever the worker answers, and however late, refused or lost it is: the *)
(* tick and the engine are at the same frame, which main has been at, a       *)
(* coprocessor that was given up holds nothing up, and only the answer to the *)
(* rollback dispatched last is ever taken.                                  *)
THEOREM CoprocStaysSound == PageSpec => []CoprocSound
<1>1. CoprocPart => CoprocSound
  BY DEF CoprocPart, CoprocInv, CoprocSound
<1> QED
  BY <1>1, CoprocPartInit, CoprocPartStep, PTL DEF PageSpec

HIDE DEF mode, differs, known, engine, ring, tick, pend, answers


(***************************************************************************)
(* LocalInput: keys, fingers and gamepads.                                 *)
(***************************************************************************)

keyboard == v1
touch    == v2
pad      == v3
world    == v4
sample   == v5
USE DEF keyboard, touch, pad, world, sample

MaybeModel == Models \cup {"none"}

KeyboardSet == [down : SUBSET Keys, held : SUBSET Keys, recent : SUBSET Keys]
TouchSet ==
  [overlay : BOOLEAN, on : [Fingers -> SUBSET Buttons], stick : Fingers \cup {"none"},
   state : SUBSET (Buttons \cup {"stick"}), down : SUBSET Fingers, deaf : SUBSET Fingers]
PadSet ==
  [detected : [Pads -> MaybeModel], profile : [Pads -> MaybeModel \cup {"custom"}],
   prev : [Pads -> MaybeModel], centre : [Pads -> MaybeModel],
   assigned : [Slots -> Pads \cup {0}], slot : Slots]
WorldSet ==
  [plugged : [Pads -> MaybeModel], focus : BOOLEAN, custom : SUBSET Models, remap : BOOLEAN,
   moves : 0..MaxMoves]
SampleSet == [keys : SUBSET Keys, down : SUBSET Keys, taps : SUBSET Keys, since : SUBSET Keys]

InputTyped ==
  /\ keyboard \in KeyboardSet /\ touch \in TouchSet /\ pad \in PadSet /\ world \in WorldSet
  /\ sample \in SampleSet

(* A finger is on buttons while it is down, is not that of the stick and can *)
(* still be heard.                                                          *)
FingersInv ==
  /\ touch.deaf \subseteq touch.down /\ touch.stick \notin touch.deaf
  /\ touch.stick \in touch.down \cup {"none"}
  /\ \A f \in Fingers : f \notin touch.down \/ f \in touch.deaf \/ f = touch.stick => touch.on[f] = {}

(* A tap waits among the keys just pressed; the loss of the focus forgets it. *)
TapsInv ==
  /\ sample.since \subseteq keyboard.recent
  /\ ~world.focus => sample.since = {}

InputInv == InputTyped /\ FingersInv /\ TapsInv /\ Input!InputSound


(* The types of the module follow.                                          *)
LEMMA InputTypes == InputTyped => Input!InputTypeOK
<1> SUFFICES ASSUME InputTyped PROVE Input!InputTypeOK
  OBVIOUS
<1>1. keyboard \in [down : SUBSET Keys, held : SUBSET Keys, recent : SUBSET Keys]
  BY DEF InputTyped, KeyboardSet
<1>2. /\ touch.state \subseteq Input!Places /\ touch.down \subseteq Fingers
      /\ touch.stick \in Fingers \cup {Input!Nothing} /\ touch.on \in [Fingers -> SUBSET Buttons]
  BY DEF InputTyped, TouchSet, Input!Places, Input!Nothing
<1>3. /\ \A i \in Pads : {pad.detected[i], pad.prev[i], pad.centre[i], world.plugged[i]}
                           \subseteq Models \cup {Input!Nothing}
  BY DEF InputTyped, PadSet, WorldSet, MaybeModel, Input!Nothing
<1>4. /\ pad.assigned \in [Slots -> Pads \cup {0}] /\ pad.slot \in Slots
      /\ world.custom \subseteq Models /\ world.moves \in 0..MaxMoves
  BY DEF InputTyped, PadSet, WorldSet
<1> QED
  BY <1>1, <1>2, <1>3, <1>4 DEF Input!InputTypeOK


LEMMA InputInit == Input!Init => InputInv
<1> SUFFICES ASSUME Input!Init PROVE InputInv
  OBVIOUS
<1> USE InputAssumption
<1>1. /\ keyboard \in KeyboardSet /\ touch \in TouchSet /\ sample \in SampleSet
  BY DEF Input!Init, KeyboardSet, TouchSet, SampleSet, Input!Nothing
<1>2. pad \in PadSet
  BY DEF Input!Init, PadSet, MaybeModel, Input!Nothing
<1>3. world \in WorldSet
  BY DEF Input!Init, WorldSet, MaybeModel, Input!Nothing
<1>4. FingersInv /\ TapsInv
  BY DEF Input!Init, FingersInv, TapsInv, Input!Nothing
<1>5. Input!NoStuckKey /\ Input!NoStuckButton /\ Input!TapsArePlayed
  BY DEF Input!Init, Input!NoStuckKey, Input!NoStuckButton, Input!TapsArePlayed
<1>6. Input!PadsAreTheirOwn
  BY DEF Input!Init, Input!PadsAreTheirOwn, Input!Profile, Input!Nothing
<1> QED
  BY <1>1, <1>2, <1>3, <1>4, <1>5, <1>6 DEF InputInv, InputTyped, Input!InputSound

(* A step of the player's is counted.                                       *)
LEMMA MovedTyped ==
  ASSUME InputTyped, Input!Moves
  PROVE  /\ Input!Moved \in WorldSet /\ Input!Moved.plugged = world.plugged
         /\ Input!Moved.focus = world.focus /\ Input!Moved.custom = world.custom
BY InputAssumption DEF InputTyped, Input!Moves, Input!Moved, WorldSet

(* Keys.                                                                    *)
LEMMA KeysKeep ==
  ASSUME InputInv, keyboard' \in KeyboardSet, sample' \in SampleSet, world' \in WorldSet,
         world'.focus = world.focus \/ world'.focus, world'.custom = world.custom,
         UNCHANGED <<touch, pad>>,
         Input!NoStuckKey', TapsInv', Input!TapsArePlayed'
  PROVE  InputInv'
BY DEF InputInv, InputTyped, FingersInv, Input!InputSound, Input!NoStuckButton, Input!PadsAreTheirOwn

LEMMA KeyDownKeeps == InputInv /\ Input!KeyDown => InputInv'
<1> SUFFICES ASSUME InputInv, Input!KeyDown PROVE InputInv'
  OBVIOUS
<1>1. PICK k \in Keys \ keyboard.down :
        /\ keyboard' = Input!Pressed(k) /\ sample' = [sample EXCEPT !.since = sample.since \cup {k}]
        /\ world' = Input!Moved /\ world.focus /\ UNCHANGED <<touch, pad>>
  BY DEF Input!KeyDown
<1>2. /\ keyboard \in KeyboardSet /\ sample \in SampleSet
  BY DEF InputInv, InputTyped
<1>3. /\ keyboard' \in KeyboardSet /\ keyboard'.down = keyboard.down \cup {k}
      /\ keyboard'.held = keyboard.held \cup {k} /\ keyboard'.recent = keyboard.recent \cup {k}
  BY <1>1, <1>2 DEF Input!Pressed, KeyboardSet
<1>4. /\ sample' \in SampleSet /\ sample'.since = sample.since \cup {k} /\ sample'.taps = sample.taps
      /\ sample'.keys = sample.keys
  BY <1>1, <1>2 DEF SampleSet
<1>5. world' \in WorldSet /\ world'.focus = world.focus /\ world'.custom = world.custom
  BY <1>1, MovedTyped DEF InputInv, Input!KeyDown
<1>6. Input!NoStuckKey' /\ TapsInv' /\ Input!TapsArePlayed'
  BY <1>1, <1>3, <1>4, <1>5 DEF InputInv, Input!InputSound, Input!NoStuckKey, TapsInv, Input!TapsArePlayed
<1> QED
  BY <1>1, <1>3, <1>4, <1>5, <1>6, KeysKeep

LEMMA KeyUpKeeps == InputInv /\ Input!KeyUp => InputInv'
<1> SUFFICES ASSUME InputInv, NEW k \in keyboard.down, keyboard' = Input!Released(k),
                    UNCHANGED <<touch, pad, world, sample>>
             PROVE  InputInv'
  BY DEF Input!KeyUp
<1>1. /\ keyboard \in KeyboardSet /\ sample \in SampleSet /\ world \in WorldSet
  BY DEF InputInv, InputTyped
<1>2. /\ keyboard' \in KeyboardSet /\ keyboard'.down = keyboard.down \ {k}
      /\ keyboard'.held = (IF world.focus THEN keyboard.held \ {k} ELSE keyboard.held)
      /\ keyboard'.recent = keyboard.recent
  BY <1>1 DEF Input!Released, KeyboardSet
<1>3. Input!NoStuckKey' /\ TapsInv' /\ Input!TapsArePlayed'
  BY <1>2 DEF InputInv, Input!InputSound, Input!NoStuckKey, TapsInv, Input!TapsArePlayed
<1> QED
  BY <1>1, <1>2, <1>3, KeysKeep

LEMMA KeyRepeatsKeeps == InputInv /\ Input!KeyRepeats => InputInv'
<1> SUFFICES ASSUME InputInv, NEW k \in keyboard.down \ keyboard.held, keyboard' = Input!Pressed(k),
                    UNCHANGED <<touch, pad, world, sample>>
             PROVE  InputInv'
  BY DEF Input!KeyRepeats
<1>1. /\ keyboard \in KeyboardSet /\ sample \in SampleSet /\ world \in WorldSet
  BY DEF InputInv, InputTyped
<1>2. /\ keyboard' \in KeyboardSet /\ keyboard'.down = keyboard.down \cup {k}
      /\ keyboard'.held = keyboard.held \cup {k} /\ keyboard'.recent = keyboard.recent \cup {k}
  BY <1>1 DEF Input!Pressed, KeyboardSet
<1>3. Input!NoStuckKey' /\ TapsInv' /\ Input!TapsArePlayed'
  BY <1>2 DEF InputInv, Input!InputSound, Input!NoStuckKey, TapsInv, Input!TapsArePlayed
<1> QED
  BY <1>1, <1>2, <1>3, KeysKeep

LEMMA ReadKeeps == InputInv /\ Input!Read => InputInv'
<1> SUFFICES ASSUME InputInv, Input!Read PROVE InputInv'
  OBVIOUS
<1>1. /\ keyboard \in KeyboardSet /\ sample \in SampleSet /\ world \in WorldSet
      /\ UNCHANGED <<touch, pad, world>>
  BY DEF InputInv, InputTyped, Input!Read
<1>2. /\ sample' = [keys |-> IF world.focus THEN keyboard.held \cup keyboard.recent ELSE {},
                    down |-> keyboard.down, taps |-> sample.since, since |-> {}]
      /\ keyboard' = [keyboard EXCEPT !.recent = {}, !.held = IF world.focus THEN keyboard.held ELSE {}]
  BY DEF Input!Read
<1>3. sample' \in SampleSet
  BY <1>1, <1>2 DEF KeyboardSet, SampleSet
<1>4. /\ keyboard' \in KeyboardSet /\ keyboard'.down = keyboard.down
      /\ keyboard'.held = (IF world.focus THEN keyboard.held ELSE {})
  BY <1>1, <1>2 DEF KeyboardSet
<1>5. Input!NoStuckKey' /\ TapsInv' /\ Input!TapsArePlayed'
  BY <1>1, <1>2, <1>4 DEF InputInv, Input!InputSound, Input!NoStuckKey, TapsInv, Input!TapsArePlayed
<1> QED
  BY <1>1, <1>3, <1>4, <1>5, KeysKeep

LEMMA SuppressedKeeps == InputInv /\ Input!Suppressed => InputInv'
<1> SUFFICES ASSUME InputInv, Input!Suppressed PROVE InputInv'
  OBVIOUS
<1>1. /\ keyboard \in KeyboardSet /\ sample \in SampleSet /\ world \in WorldSet
      /\ UNCHANGED <<keyboard, touch, pad, world>> /\ sample' = [sample EXCEPT !.since = {}]
  BY DEF InputInv, InputTyped, Input!Suppressed
<1>2. sample' \in SampleSet /\ sample'.since = {} /\ sample'.taps = sample.taps /\ sample'.keys = sample.keys
  BY <1>1 DEF SampleSet
<1>3. Input!NoStuckKey' /\ TapsInv' /\ Input!TapsArePlayed'
  BY <1>1, <1>2 DEF InputInv, Input!InputSound, Input!NoStuckKey, TapsInv, Input!TapsArePlayed
<1> QED
  BY <1>1, <1>2, <1>3, KeysKeep


(* The window loses the focus, and has it again.                             *)
LEMMA FocusKeeps == InputInv /\ (Input!Blur \/ Input!FocusReturns) => InputInv'
<1> SUFFICES ASSUME InputInv, Input!Blur \/ Input!FocusReturns PROVE InputInv'
  OBVIOUS
<1>1. /\ keyboard \in KeyboardSet /\ sample \in SampleSet /\ world \in WorldSet /\ touch \in TouchSet
      /\ pad \in PadSet
  BY DEF InputInv, InputTyped
<1>2. /\ touch' = [touch EXCEPT !.state = {}] /\ UNCHANGED pad
      /\ \/ /\ keyboard' = [keyboard EXCEPT !.held = {}, !.recent = {}]
            /\ world' = [Input!Moved EXCEPT !.focus = FALSE] /\ sample' = [sample EXCEPT !.since = {}]
         \/ /\ keyboard' = [keyboard EXCEPT !.held = {}]
            /\ world' = [Input!Moved EXCEPT !.focus = TRUE] /\ sample' = sample
  BY DEF Input!Blur, Input!FocusReturns
<1>3. /\ Input!Moved \in WorldSet /\ Input!Moved.custom = world.custom
  BY MovedTyped DEF InputInv, Input!Blur, Input!FocusReturns
<1> DEFINE w == Input!Moved
<1>4. /\ w \in WorldSet /\ w.custom = world.custom
      /\ world' = [w EXCEPT !.focus = FALSE] \/ world' = [w EXCEPT !.focus = TRUE]
  BY <1>2, <1>3
<1> HIDE DEF w
<1>5. world' \in WorldSet /\ world'.custom = world.custom
  BY <1>4 DEF WorldSet
<1>6. /\ touch' \in TouchSet /\ touch'.state = {} /\ touch'.on = touch.on /\ touch'.stick = touch.stick
      /\ touch'.down = touch.down /\ touch'.deaf = touch.deaf
  BY <1>1, <1>2 DEF TouchSet
<1>7. /\ keyboard' \in KeyboardSet /\ keyboard'.held = {} /\ sample' \in SampleSet
      /\ sample'.taps = sample.taps /\ sample'.keys = sample.keys
  BY <1>1, <1>2 DEF KeyboardSet, SampleSet
<1>8. TapsInv'
  <2>1. CASE /\ keyboard' = [keyboard EXCEPT !.held = {}, !.recent = {}] /\ sample' = [sample EXCEPT !.since = {}]
    BY <2>1, <1>1 DEF TapsInv, KeyboardSet, SampleSet
  <2>2. CASE /\ keyboard' = [keyboard EXCEPT !.held = {}] /\ sample' = sample
             /\ world' = [w EXCEPT !.focus = TRUE]
    BY <2>2, <1>1, <1>4 DEF TapsInv, KeyboardSet, WorldSet, InputInv
  <2> QED
    BY <1>2, <2>1, <2>2 DEF w
<1> QED
  BY <1>1, <1>2, <1>5, <1>6, <1>7, <1>8
     DEF InputInv, InputTyped, FingersInv, Input!InputSound, Input!NoStuckButton, Input!PadsAreTheirOwn,
         Input!NoStuckKey, Input!TapsArePlayed

(* Fingers.                                                                 *)
LEMMA FingersKeep ==
  ASSUME InputInv, touch' \in TouchSet, world' \in WorldSet, world'.focus = world.focus,
         world'.custom = world.custom, UNCHANGED <<keyboard, pad, sample>>,
         FingersInv', Input!NoStuckButton'
  PROVE  InputInv'
BY DEF InputInv, InputTyped, TapsInv, Input!InputSound, Input!NoStuckKey, Input!TapsArePlayed,
       Input!PadsAreTheirOwn

LEMMA OverlayKeeps == InputInv /\ (Input!OverlayShows \/ Input!OverlayGoes) => InputInv'
<1> SUFFICES ASSUME InputInv, Input!OverlayShows \/ Input!OverlayGoes PROVE InputInv'
  OBVIOUS
<1>1. touch \in TouchSet /\ world \in WorldSet /\ UNCHANGED <<keyboard, pad, world, sample>>
  BY DEF InputInv, InputTyped, Input!OverlayShows, Input!OverlayGoes
<1>2. CASE touch' = [touch EXCEPT !.overlay = TRUE]
  <2>1. /\ touch' \in TouchSet /\ touch'.state = touch.state /\ touch'.on = touch.on
        /\ touch'.stick = touch.stick /\ touch'.down = touch.down /\ touch'.deaf = touch.deaf
    BY <1>1, <1>2 DEF TouchSet
  <2>2. FingersInv' /\ Input!NoStuckButton'
    BY <2>1 DEF InputInv, FingersInv, Input!InputSound, Input!NoStuckButton
  <2> QED
    BY <1>1, <2>1, <2>2, FingersKeep
<1>3. CASE touch' = [touch EXCEPT !.overlay = FALSE, !.state = {}, !.stick = "none",
                                  !.on = [f \in Fingers |-> {}], !.deaf = touch.down]
  <2>0. [f \in Fingers |-> {}] \in [Fingers -> SUBSET Buttons]
    OBVIOUS
  <2>1. /\ touch' \in TouchSet /\ touch'.state = {} /\ touch'.on = [f \in Fingers |-> {}]
        /\ touch'.stick = "none" /\ touch'.down = touch.down /\ touch'.deaf = touch.down
    BY <1>1, <1>3, <2>0 DEF TouchSet
  <2>2. touch.down \subseteq Fingers /\ "none" \notin touch.down
    BY <1>1, InputAssumption DEF TouchSet
  <2>3. FingersInv' /\ Input!NoStuckButton'
    BY <2>1, <2>2 DEF FingersInv, Input!NoStuckButton
  <2> QED
    BY <1>1, <2>1, <2>3, FingersKeep
<1> QED
  BY <1>2, <1>3 DEF Input!OverlayShows, Input!OverlayGoes, Input!Nothing

LEMMA FingerDownKeeps == InputInv /\ Input!FingerDown => InputInv'
<1> SUFFICES ASSUME InputInv, Input!FingerDown PROVE InputInv'
  OBVIOUS
<1>1. touch \in TouchSet /\ FingersInv /\ Input!NoStuckButton
  BY DEF InputInv, InputTyped, Input!InputSound
<1>2. /\ world' \in WorldSet /\ world'.focus = world.focus /\ world'.custom = world.custom
      /\ UNCHANGED <<keyboard, pad, sample>>
  BY MovedTyped DEF InputInv, Input!FingerDown
<1>3. PICK f \in Fingers \ touch.down :
        \/ touch' = [touch EXCEPT !.down = touch.down \cup {f}, !.stick = f,
                                  !.state = touch.state \cup {"stick"},
                                  !.deaf = touch.deaf \cup ({touch.stick} \ {"none"})]
        \/ \E b \in {{}} \cup {{c} : c \in Buttons} :
             touch' = [touch EXCEPT !.down = touch.down \cup {f}, !.on[f] = b, !.state = touch.state \cup b]
  BY DEF Input!FingerDown, Input!Nothing
<1>4. CASE touch' = [touch EXCEPT !.down = touch.down \cup {f}, !.stick = f,
                                  !.state = touch.state \cup {"stick"},
                                  !.deaf = touch.deaf \cup ({touch.stick} \ {"none"})]
  <2>1. touch.deaf \cup ({touch.stick} \ {"none"}) \subseteq touch.down
    BY <1>1 DEF FingersInv
  <2>2. /\ touch' \in TouchSet /\ touch'.state = touch.state \cup {"stick"} /\ touch'.on = touch.on
        /\ touch'.stick = f /\ touch'.down = touch.down \cup {f}
        /\ touch'.deaf = touch.deaf \cup ({touch.stick} \ {"none"})
    BY <1>1, <1>4, <2>1 DEF TouchSet
  <2>3. FingersInv'
    BY <1>1, <2>1, <2>2 DEF FingersInv
  <2>4. Input!NoStuckButton'
    BY <1>1, <2>2 DEF Input!NoStuckButton
  <2> QED
    BY <1>2, <2>2, <2>3, <2>4, FingersKeep
<1>5. ASSUME NEW b \in SUBSET Buttons,
             touch' = [touch EXCEPT !.down = touch.down \cup {f}, !.on[f] = b, !.state = touch.state \cup b]
      PROVE  InputInv'
  <2>1. touch.on[f] = {} /\ touch.on \in [Fingers -> SUBSET Buttons] /\ f \notin touch.deaf
        /\ f # touch.stick
    BY <1>1, InputAssumption DEF FingersInv, TouchSet
  <2>2. /\ touch' \in TouchSet /\ touch'.state = touch.state \cup b
        /\ touch'.on = [touch.on EXCEPT ![f] = b]
        /\ touch'.stick = touch.stick /\ touch'.down = touch.down \cup {f} /\ touch'.deaf = touch.deaf
    BY <1>1, <1>5, <2>1 DEF TouchSet
  <2>3. FingersInv'
    BY <1>1, <2>1, <2>2 DEF FingersInv
  <2>4. Input!NoStuckButton'
    BY <1>1, <2>1, <2>2, InputAssumption DEF Input!NoStuckButton
  <2> QED
    BY <1>2, <2>2, <2>3, <2>4, FingersKeep
<1>6. ASSUME NEW b \in {{}} \cup {{c} : c \in Buttons} PROVE b \in SUBSET Buttons
  OBVIOUS
<1>7. CASE \E b \in {{}} \cup {{c} : c \in Buttons} :
             touch' = [touch EXCEPT !.down = touch.down \cup {f}, !.on[f] = b, !.state = touch.state \cup b]
  <2>1. PICK b \in {{}} \cup {{c} : c \in Buttons} :
             touch' = [touch EXCEPT !.down = touch.down \cup {f}, !.on[f] = b, !.state = touch.state \cup b]
    BY <1>7
  <2> QED
    BY <2>1, <1>5, <1>6
<1> QED
  BY <1>3, <1>4, <1>7

LEMMA FingerMovesKeeps == InputInv /\ Input!FingerMoves => InputInv'
<1> SUFFICES ASSUME InputInv, Input!FingerMoves PROVE InputInv'
  OBVIOUS
<1>1. touch \in TouchSet /\ FingersInv /\ Input!NoStuckButton
  BY DEF InputInv, InputTyped, Input!InputSound
<1>2. /\ world' \in WorldSet /\ world'.focus = world.focus /\ world'.custom = world.custom
      /\ UNCHANGED <<keyboard, pad, sample>>
  BY MovedTyped DEF InputInv, Input!FingerMoves
<1>3. PICK f \in touch.down \ touch.deaf :
        \/ /\ f = touch.stick
           /\ \/ touch' = [touch EXCEPT !.state = touch.state \cup {"stick"}]
              \/ touch' = [touch EXCEPT !.state = touch.state \ {"stick"}]
        \/ /\ f # touch.stick
           /\ \E next \in SUBSET Buttons :
                touch' = [touch EXCEPT !.on[f] = next,
                            !.state = (touch.state \ (touch.on[f] \ next)) \cup (next \ touch.on[f])]
  BY DEF Input!FingerMoves
<1>4. CASE /\ f = touch.stick
           /\ \/ touch' = [touch EXCEPT !.state = touch.state \cup {"stick"}]
              \/ touch' = [touch EXCEPT !.state = touch.state \ {"stick"}]
  <2>1. /\ touch' \in TouchSet /\ touch'.on = touch.on /\ touch'.stick = touch.stick
        /\ touch'.down = touch.down /\ touch'.deaf = touch.deaf
        /\ touch'.state \ {"stick"} = touch.state \ {"stick"}
    BY <1>1, <1>4 DEF TouchSet
  <2>2. FingersInv' /\ Input!NoStuckButton'
    BY <1>1, <1>4, <2>1 DEF FingersInv, Input!NoStuckButton
  <2> QED
    BY <1>2, <2>1, <2>2, FingersKeep
<1>5. ASSUME f # touch.stick, NEW next \in SUBSET Buttons,
             touch' = [touch EXCEPT !.on[f] = next,
                         !.state = (touch.state \ (touch.on[f] \ next)) \cup (next \ touch.on[f])]
      PROVE  InputInv'
  <2>1. f \in Fingers /\ touch.on \in [Fingers -> SUBSET Buttons] /\ touch.on[f] \subseteq Buttons
    BY <1>1 DEF TouchSet
  <2>2. /\ touch' \in TouchSet /\ touch'.on = [touch.on EXCEPT ![f] = next]
        /\ touch'.state = (touch.state \ (touch.on[f] \ next)) \cup (next \ touch.on[f])
        /\ touch'.stick = touch.stick /\ touch'.down = touch.down /\ touch'.deaf = touch.deaf
    BY <1>1, <1>5, <2>1 DEF TouchSet
  <2>3. FingersInv'
    BY <1>1, <1>5, <2>1, <2>2 DEF FingersInv
  <2>4. Input!NoStuckButton'
    BY <1>1, <2>1, <2>2, InputAssumption DEF Input!NoStuckButton
  <2> QED
    BY <1>2, <2>2, <2>3, <2>4, FingersKeep
<1> QED
  BY <1>3, <1>4, <1>5

LEMMA FingerUpKeeps == InputInv /\ Input!FingerUp => InputInv'
<1> SUFFICES ASSUME InputInv, Input!FingerUp PROVE InputInv'
  OBVIOUS
<1>1. touch \in TouchSet /\ FingersInv /\ Input!NoStuckButton /\ world \in WorldSet
      /\ UNCHANGED <<keyboard, pad, world, sample>>
  BY DEF InputInv, InputTyped, Input!InputSound, Input!FingerUp
<1>2. PICK f \in touch.down :
        touch' = IF f \in touch.deaf THEN [touch EXCEPT !.down = touch.down \ {f}, !.deaf = touch.deaf \ {f}]
                 ELSE Input!Lifted(f)
  BY DEF Input!FingerUp
<1>3. CASE f \in touch.deaf
  <2>1. /\ touch' \in TouchSet /\ touch'.on = touch.on /\ touch'.stick = touch.stick
        /\ touch'.down = touch.down \ {f} /\ touch'.deaf = touch.deaf \ {f} /\ touch'.state = touch.state
    BY <1>1, <1>2, <1>3 DEF TouchSet
  <2>2. f \in Fingers /\ touch.on[f] = {} /\ f # touch.stick
    BY <1>1, <1>3 DEF TouchSet, FingersInv
  <2>3. FingersInv' /\ Input!NoStuckButton'
    BY <1>1, <1>3, <2>1, <2>2 DEF FingersInv, Input!NoStuckButton
  <2> QED
    BY <1>1, <2>1, <2>3, FingersKeep
<1>4. CASE f \notin touch.deaf
  <2> DEFINE off == IF touch.stick = f THEN {"stick"} ELSE touch.on[f]
             stick == IF touch.stick = f THEN "none" ELSE touch.stick
  <2>1. f \in Fingers /\ touch.on \in [Fingers -> SUBSET Buttons] /\ stick \in Fingers \cup {"none"}
    BY <1>1 DEF TouchSet
  <2>2. touch' = [touch EXCEPT !.down = touch.down \ {f}, !.on[f] = {}, !.stick = stick,
                               !.state = touch.state \ off]
    BY <1>2, <1>4 DEF Input!Lifted, Input!Nothing
  <2>3. /\ touch' \in TouchSet /\ touch'.on = [touch.on EXCEPT ![f] = {}] /\ touch'.stick = stick
        /\ touch'.down = touch.down \ {f} /\ touch'.deaf = touch.deaf /\ touch'.state = touch.state \ off
    <3> HIDE DEF off, stick
    <3> QED
      BY <1>1, <2>1, <2>2 DEF TouchSet
  <2>4. FingersInv'
    <3>1. /\ touch.deaf \subseteq Fingers /\ touch.down \subseteq Fingers /\ touch.deaf \subseteq touch.down
          /\ "none" \notin Fingers /\ touch.stick \notin touch.deaf
          /\ touch.stick \in touch.down \cup {"none"}
      BY <1>1, InputAssumption DEF TouchSet, FingersInv
    <3>2. touch'.deaf \subseteq touch'.down /\ touch'.stick \notin touch'.deaf
      BY <1>4, <2>3, <3>1
    <3>3. touch'.stick \in touch'.down \cup {"none"}
      BY <2>3, <3>1
    <3>4. ASSUME NEW g \in Fingers, g \notin touch'.down \/ g \in touch'.deaf \/ g = touch'.stick
          PROVE  touch'.on[g] = {}
      <4>1. CASE g = f
        BY <2>1, <2>3, <4>1
      <4>2. CASE g # f
        <5>1. g \notin touch.down \/ g \in touch.deaf \/ g = touch.stick
          BY <2>3, <3>1, <3>4, <4>2
        <5>2. touch.on[g] = {}
          BY <1>1, <5>1 DEF FingersInv
        <5> QED
          BY <2>1, <2>3, <4>2, <5>2
      <4> QED
        BY <4>1, <4>2
    <3> QED
      BY <3>2, <3>3, <3>4 DEF FingersInv
  <2>5. Input!NoStuckButton'
    BY <1>1, <2>1, <2>3, InputAssumption DEF Input!NoStuckButton, FingersInv
  <2> QED
    BY <1>1, <2>3, <2>4, <2>5, FingersKeep
<1> QED
  BY <1>3, <1>4


(* Gamepads.  What PadsAreTheirOwn says of the variables of the manager.     *)
PadsOwn(p, custom) ==
  /\ \A i \in Pads : /\ p.profile[i] = Input!Profile(p.detected[i], custom)
                     /\ p.centre[i] \in {"none", p.detected[i]}
  /\ \A s \in Slots : p.assigned[s] # 0 => p.detected[p.assigned[s]] # "none"

LEMMA ProfileTyped ==
  ASSUME NEW id \in MaybeModel, NEW custom PROVE Input!Profile(id, custom) \in MaybeModel \cup {"custom"}
BY DEF Input!Profile, MaybeModel, Input!Nothing

LEMMA LeastPad ==
  ASSUME NEW S \in SUBSET Pads, S # {} PROVE (CHOOSE i \in S : \A k \in S : i <= k) \in S
<1> DEFINE R == OpToRel(<, Nat)
<1>1. IsWellFoundedOn(R, Nat) /\ S \subseteq Nat
  BY NatLessThanWellFounded, InputAssumption
<1>2. \A x, y \in Nat : x < y => <<x, y>> \in R
  BY DEF OpToRel
<1> HIDE DEF R
<1>3. PICK i \in S : \A k \in S : ~ (<<k, i>> \in R)
  BY <1>1, WFMin
<1>4. \A k \in S : ~ (k < i)
  BY <1>1, <1>2, <1>3
<1>5. \A k \in S : i <= k
  BY <1>1, <1>4
<1> QED
  BY <1>5

(* A poll leaves nothing to a gamepad that belonged to another.              *)
LEMMA PolledKeeps ==
  ASSUME InputTyped, NEW p \in PadSet, PadsOwn(p, world.custom)
  PROVE  Input!Polled(p) \in PadSet /\ PadsOwn(Input!Polled(p), world.custom)
<1> DEFINE now == world.plugged
           gone == {i \in Pads : now[i] = "none" /\ p.detected[i] # "none"}
           fresh == {i \in Pads : now[i] # "none" /\ (p.detected[i] = "none" \/ p.prev[i] # now[i])}
           left == [s \in Slots |-> IF p.assigned[s] \in gone THEN 0 ELSE p.assigned[s]]
           first == IF fresh = {} THEN 0 ELSE CHOOSE i \in fresh : \A k \in fresh : i <= k
           detected == [i \in Pads |-> IF i \in gone \cup fresh THEN now[i] ELSE p.detected[i]]
           profile == [i \in Pads |-> IF i \in gone \cup fresh THEN Input!Profile(now[i], world.custom)
                                                               ELSE p.profile[i]]
           centre == [i \in Pads |-> IF i \in gone \cup fresh THEN "none" ELSE p.centre[i]]
           assigned == [left EXCEPT ![p.slot] = IF left[p.slot] = 0 THEN first ELSE left[p.slot]]
           q == [p EXCEPT !.detected = detected, !.profile = profile, !.centre = centre, !.prev = now,
                          !.assigned = assigned]
<1>1. Input!Polled(p) = q
  BY DEF Input!Polled, Input!Nothing
<1>2. /\ p.detected \in [Pads -> MaybeModel] /\ p.profile \in [Pads -> MaybeModel \cup {"custom"}]
      /\ p.centre \in [Pads -> MaybeModel] /\ p.assigned \in [Slots -> Pads \cup {0}] /\ p.slot \in Slots
      /\ now \in [Pads -> MaybeModel]
  BY DEF PadSet, InputTyped, WorldSet
<1>3. first \in fresh \cup {0} /\ fresh \subseteq Pads /\ gone \subseteq Pads
  BY LeastPad
<1>4. detected \in [Pads -> MaybeModel] /\ centre \in [Pads -> MaybeModel]
  BY <1>2 DEF MaybeModel
<1>5. profile \in [Pads -> MaybeModel \cup {"custom"}]
  BY <1>2, ProfileTyped
<1>6. left \in [Slots -> Pads \cup {0}]
  BY <1>2
<1>7. assigned \in [Slots -> Pads \cup {0}]
  <2> HIDE DEF left, first, fresh, gone
  <2> QED
    BY <1>2, <1>3, <1>6
<1>8. \A i \in Pads : profile[i] = Input!Profile(detected[i], world.custom)
  BY DEF PadsOwn
<1>9. \A i \in Pads : centre[i] \in {"none", detected[i]}
  BY DEF PadsOwn
<1>10. ASSUME NEW s \in Slots, assigned[s] # 0 PROVE detected[assigned[s]] # "none"
  <2>1. assigned[s] \in fresh \/ (assigned[s] = p.assigned[s] /\ p.assigned[s] \notin gone)
    <3>1. assigned[s] = left[s] \/ assigned[s] = first
      <4> HIDE DEF left, first
      <4> QED
        BY <1>6
    <3> QED
      BY <1>3, <1>10, <3>1
  <2>2. CASE assigned[s] \in fresh
    BY <1>3, <2>2
  <2>3. CASE assigned[s] = p.assigned[s] /\ p.assigned[s] \notin gone
    <3>1. p.assigned[s] \in Pads /\ p.detected[p.assigned[s]] # "none"
      BY <1>2, <1>10, <2>3 DEF PadsOwn
    <3>2. now[p.assigned[s]] # "none"
      BY <2>3, <3>1
    <3>3. detected[p.assigned[s]] # "none"
      BY <3>1, <3>2
    <3> QED
      BY <2>3, <3>3
  <2> QED
    BY <2>1, <2>2, <2>3
<1> HIDE DEF detected, profile, centre, assigned, now
<1>11. /\ q \in PadSet /\ q.detected = detected /\ q.profile = profile /\ q.centre = centre
       /\ q.assigned = assigned
  BY <1>2, <1>4, <1>5, <1>7 DEF PadSet
<1> HIDE DEF q
<1>12. PadsOwn(q, world.custom)
  BY <1>8, <1>9, <1>10, <1>11 DEF PadsOwn
<1> QED
  BY <1>1, <1>11, <1>12

(* The rest position that is learnt is that of the gamepad that is there.     *)
LEMMA CentredKeeps ==
  ASSUME NEW p \in PadSet, NEW custom, PadsOwn(p, custom)
  PROVE  Input!Centred(p) \in PadSet /\ PadsOwn(Input!Centred(p), custom)
<1> DEFINE centre == [i \in Pads |-> IF p.centre[i] = "none" THEN p.detected[i] ELSE p.centre[i]]
           q == [p EXCEPT !.centre = centre]
<1>1. Input!Centred(p) = q
  BY DEF Input!Centred, Input!Nothing
<1>2. centre \in [Pads -> MaybeModel] /\ \A i \in Pads : centre[i] \in {"none", p.detected[i]}
  BY DEF PadSet, PadsOwn
<1> HIDE DEF centre
<1>3. q \in PadSet /\ q.centre = centre /\ q.detected = p.detected /\ q.profile = p.profile
      /\ q.assigned = p.assigned
  BY <1>2 DEF PadSet
<1> HIDE DEF q
<1>4. PadsOwn(q, custom)
  BY <1>2, <1>3 DEF PadsOwn
<1> QED
  BY <1>1, <1>3, <1>4

LEMMA PadsKeep ==
  ASSUME InputInv, pad' \in PadSet, world' \in WorldSet, world'.focus = world.focus,
         PadsOwn(pad', world'.custom), UNCHANGED <<keyboard, touch, sample>>
  PROVE  InputInv'
<1>1. Input!PadsAreTheirOwn'
  BY DEF PadsOwn, Input!PadsAreTheirOwn, Input!Profile, Input!Nothing
<1> QED
  BY <1>1 DEF InputInv, InputTyped, TapsInv, FingersInv, Input!InputSound, Input!NoStuckKey,
              Input!TapsArePlayed, Input!NoStuckButton

LEMMA PadsNow == InputInv => PadsOwn(pad, world.custom) /\ pad \in PadSet /\ world \in WorldSet /\ InputTyped
BY DEF InputInv, InputTyped, Input!InputSound, Input!PadsAreTheirOwn, PadsOwn, Input!Nothing

LEMMA PollKeeps == InputInv /\ (Input!Poll \/ Input!SlotGiven) => InputInv'
<1> SUFFICES ASSUME InputInv, Input!Poll \/ Input!SlotGiven PROVE InputInv'
  OBVIOUS
<1>1. PadsOwn(pad, world.custom) /\ pad \in PadSet /\ world \in WorldSet /\ InputTyped
  BY PadsNow
<1>2. UNCHANGED <<keyboard, touch, world, sample>>
  BY DEF Input!Poll, Input!SlotGiven
<1>3. CASE Input!Poll
  <2>1. pad' = Input!Polled(pad) \/ pad' = Input!Centred(Input!Polled(pad))
    BY <1>3 DEF Input!Poll
  <2>2. pad' \in PadSet /\ PadsOwn(pad', world.custom)
    BY <1>1, <2>1, PolledKeeps, CentredKeeps
  <2> QED
    BY <1>1, <1>2, <2>2, PadsKeep
<1>4. CASE Input!SlotGiven
  <2>1. PICK s \in Slots : pad' = Input!Polled([pad EXCEPT !.slot = s])
    BY <1>4 DEF Input!SlotGiven
  <2> DEFINE p == [pad EXCEPT !.slot = s]
  <2>2. p \in PadSet /\ p.detected = pad.detected /\ p.profile = pad.profile /\ p.centre = pad.centre
        /\ p.assigned = pad.assigned
    BY <1>1 DEF PadSet
  <2>3. pad' = Input!Polled(p)
    BY <2>1
  <2> HIDE DEF p
  <2>4. PadsOwn(p, world.custom)
    BY <1>1, <2>2 DEF PadsOwn
  <2>5. pad' \in PadSet /\ PadsOwn(pad', world.custom)
    BY <1>1, <2>2, <2>3, <2>4, PolledKeeps
  <2> QED
    BY <1>1, <1>2, <2>5, PadsKeep
<1> QED
  BY <1>3, <1>4

LEMMA PlugKeeps == InputInv /\ Input!Plug => InputInv'
<1> SUFFICES ASSUME InputInv, Input!Plug PROVE InputInv'
  OBVIOUS
<1>1. PadsOwn(pad, world.custom) /\ pad \in PadSet /\ world \in WorldSet /\ InputTyped
  BY PadsNow
<1> DEFINE w == Input!Moved
<1>2. w \in WorldSet /\ w.focus = world.focus /\ w.custom = world.custom
  BY <1>1, MovedTyped DEF Input!Plug
<1>3. PICK i \in Pads, id \in MaybeModel : world' = [w EXCEPT !.plugged[i] = id]
  BY DEF Input!Plug, MaybeModel, Input!Nothing
<1> HIDE DEF w
<1>4. world' \in WorldSet /\ world'.focus = w.focus /\ world'.custom = w.custom
  BY <1>2, <1>3 DEF WorldSet
<1> QED
  BY <1>1, <1>2, <1>4, PadsKeep DEF Input!Plug

(* A slot is given a gamepad that is there.                                  *)
LEMMA ReassignKeeps == InputInv /\ Input!Reassign => InputInv'
<1> SUFFICES ASSUME InputInv, Input!Reassign PROVE InputInv'
  OBVIOUS
<1>1. PadsOwn(pad, world.custom) /\ pad \in PadSet /\ world \in WorldSet /\ InputTyped
  BY PadsNow
<1>2. PICK i \in Pads : pad.detected[i] # "none" /\ pad' = [pad EXCEPT !.assigned[pad.slot] = i]
  BY DEF Input!Reassign, Input!Nothing
<1>3. /\ pad.assigned \in [Slots -> Pads \cup {0}] /\ pad.slot \in Slots
  BY <1>1 DEF PadSet
<1>4. /\ pad' \in PadSet /\ pad'.detected = pad.detected /\ pad'.profile = pad.profile
      /\ pad'.centre = pad.centre /\ pad'.assigned = [pad.assigned EXCEPT ![pad.slot] = i]
  BY <1>1, <1>2, <1>3 DEF PadSet
<1>5. world' \in WorldSet /\ world'.focus = world.focus /\ world'.custom = world.custom
      /\ UNCHANGED <<keyboard, touch, sample>>
  BY <1>1, MovedTyped DEF Input!Reassign
<1>6. PadsOwn(pad', world'.custom)
  BY <1>1, <1>2, <1>3, <1>4, <1>5 DEF PadsOwn
<1> QED
  BY <1>4, <1>5, <1>6, PadsKeep

(* A profile that is stored or cleared is at once that of every gamepad of    *)
(* the model.                                                               *)
LEMMA ProfileChangesKeeps == InputInv /\ Input!ProfileChanges => InputInv'
<1> SUFFICES ASSUME InputInv, Input!ProfileChanges PROVE InputInv'
  OBVIOUS
<1>1. PadsOwn(pad, world.custom) /\ pad \in PadSet /\ world \in WorldSet /\ InputTyped
  BY PadsNow
<1> DEFINE w == Input!Moved
           Custom(id) == IF id \in world.custom THEN world.custom \ {id} ELSE world.custom \cup {id}
           Profiles(id) == [k \in Pads |-> IF pad.detected[k] = id THEN Input!Profile(id, Custom(id))
                                           ELSE pad.profile[k]]
<1>2. w \in WorldSet /\ w.focus = world.focus /\ w.custom = world.custom
  BY <1>1, MovedTyped DEF Input!ProfileChanges
<1>3. PICK id \in MaybeModel : /\ id # "none" /\ world' = [w EXCEPT !.custom = Custom(id)]
                               /\ pad' = [pad EXCEPT !.profile = Profiles(id)]
  <2>1. \A i \in Pads : pad.detected[i] \in MaybeModel
    BY <1>1 DEF PadSet
  <2> QED
    BY <2>1 DEF Input!ProfileChanges, Input!Nothing
<1>4. Custom(id) \subseteq Models
  BY <1>1, <1>3 DEF MaybeModel, WorldSet
<1>5. Profiles(id) \in [Pads -> MaybeModel \cup {"custom"}]
  BY <1>1, ProfileTyped DEF PadSet
<1>6. \A k \in Pads : Profiles(id)[k] = Input!Profile(pad.detected[k], Custom(id))
  <2>1. \A k \in Pads : pad.profile[k] = Input!Profile(pad.detected[k], world.custom)
    BY <1>1 DEF PadsOwn
  <2> QED
    BY <2>1 DEF Input!Profile
<1> DEFINE custom == Custom(id)
           profiles == Profiles(id)
<1>7. world' = [w EXCEPT !.custom = custom] /\ pad' = [pad EXCEPT !.profile = profiles]
  BY <1>3
<1>8. /\ custom \subseteq Models /\ profiles \in [Pads -> MaybeModel \cup {"custom"}]
      /\ \A k \in Pads : profiles[k] = Input!Profile(pad.detected[k], custom)
  BY <1>4, <1>5, <1>6
<1> HIDE DEF w, custom, profiles
<1>9. world' \in WorldSet /\ world'.focus = w.focus /\ world'.custom = custom
  BY <1>2, <1>7, <1>8 DEF WorldSet
<1>10. /\ pad' \in PadSet /\ pad'.detected = pad.detected /\ pad'.profile = profiles
       /\ pad'.centre = pad.centre /\ pad'.assigned = pad.assigned
  BY <1>1, <1>7, <1>8 DEF PadSet
<1>11. PadsOwn(pad', world'.custom)
  BY <1>1, <1>8, <1>9, <1>10 DEF PadsOwn
<1> QED
  BY <1>2, <1>9, <1>10, <1>11, PadsKeep DEF Input!ProfileChanges

LEMMA RemapKeeps == InputInv /\ Input!Remap => InputInv'
<1> SUFFICES ASSUME InputInv, Input!Remap PROVE InputInv'
  OBVIOUS
<1>1. PadsOwn(pad, world.custom) /\ pad \in PadSet /\ world \in WorldSet /\ InputTyped
  BY PadsNow
<1> DEFINE w == Input!Moved
<1>2. w \in WorldSet /\ w.focus = world.focus /\ w.custom = world.custom
  BY <1>1, MovedTyped DEF Input!Remap
<1>3. world' = [w EXCEPT !.remap = ~w.remap]
  BY DEF Input!Remap
<1> HIDE DEF w
<1>4. world' \in WorldSet /\ world'.focus = w.focus /\ world'.custom = w.custom
  BY <1>2, <1>3 DEF WorldSet
<1> QED
  BY <1>1, <1>2, <1>4, PadsKeep DEF Input!Remap

LEMMA InputStep == InputInv /\ [Input!Next]_Input!inputVars => InputInv'
<1> SUFFICES ASSUME InputInv, [Input!Next]_Input!inputVars PROVE InputInv'
  OBVIOUS
<1>1. CASE UNCHANGED Input!inputVars
  BY <1>1 DEF Input!inputVars, InputInv, InputTyped, FingersInv, TapsInv, Input!InputSound,
              Input!NoStuckKey, Input!NoStuckButton, Input!PadsAreTheirOwn, Input!TapsArePlayed
<1> QED
  BY <1>1, KeyDownKeeps, KeyUpKeeps, KeyRepeatsKeeps, FocusKeeps, OverlayKeeps, FingerDownKeeps,
     FingerMovesKeeps, FingerUpKeeps, PollKeeps, PlugKeeps, ReassignKeeps, ProfileChangesKeeps,
     RemapKeeps, ReadKeeps, SuppressedKeeps DEF Input!Next

InputPart == part = "input" => InputInv

LEMMA InputPartInit == PageInit => InputPart
BY InputInit DEF PageInit, InputPart

LEMMA InputPartStep == InputPart /\ [PageNext]_pageVars => InputPart'
<1> SUFFICES ASSUME InputPart, [PageNext]_pageVars, part' = "input" PROVE InputInv'
  BY DEF InputPart
<1>1. part = "input"
  BY DEF PageNext, pageVars, Keep8, Keep7, Keep6, Keep5, Keep4
<1>2. Input!Next \/ UNCHANGED Input!inputVars
  BY <1>1 DEF PageNext, pageVars, Input!inputVars
<1> QED
  BY <1>1, <1>2, InputStep DEF InputPart

(* Whatever the player presses, slides over, plugs in and pulls out, and      *)
(* whenever the window loses the focus: nothing stays pressed that no finger  *)
(* holds, no tap is lost that is not suppressed, and every gamepad is read    *)
(* with its own profile and rest position.                                  *)
THEOREM InputStaysSound == PageSpec => []InputSound
<1>1. InputPart => InputSound
  BY InputTypes DEF InputPart, InputInv, InputSound
<1> QED
  BY <1>1, InputPartInit, InputPartStep, PTL DEF PageSpec

HIDE DEF keyboard, touch, pad, world, sample


(***************************************************************************)
(* RomAndEmulator: the ROM of the page and its emulator.                   *)
(***************************************************************************)

guest  == v1
rom    == v2
loads  == v3
emu    == v4
match  == v5
hazard == v6
USE DEF guest, rom, loads, emu, match, hazard

MatchSet  == [running : BOOLEAN, rom : Rom!Ids, boot : BOOLEAN, starts : 0..RomStarts]
HazardSet == [loading : BOOLEAN, booting : BOOLEAN]

RomTyped ==
  /\ guest \in BOOLEAN /\ rom \in Rom!Rom /\ emu \in Rom!Emu
  /\ loads \subseteq {"hash", "library"} \X RomIds
  /\ match \in MatchSet /\ hazard \in HazardSet

(* While loads come one at a time and boots end with their match: what is     *)
(* loading, and what the page, its emulator and the match know of the ROM.    *)
OneLoad(l, m) ==
  /\ \A x, y \in l : x = y
  /\ m.running => l = {}
BlobIsHashed(r, l) ==
  /\ \A i \in RomIds : <<"hash", i>> \in l => r.blob \in {i, 0}
  /\ (\A i \in RomIds : <<"hash", i>> \notin l) /\ r.blob # 0 => r.hash = r.blob
RomOfTheMatch(r, m) == m.running => m.rom # 0 /\ r.blob = m.rom /\ r.hash = m.rom
OneBoot(e, m) ==
  /\ e.waiting + e.loaders <= 1
  /\ e.waiting + e.loaders > 0 => m.running /\ e.at = "none"
EmulatorKnown(e, m) ==
  /\ m.running /\ e.at = "awake" => e.rom = m.rom
  /\ e.at = "asleep" => e.rom = e.label
  /\ ~m.running => e.at # "awake"
  /\ e.twins = 0

Orderly(h) == ~h.loading /\ ~h.booting

(* The URL is that of the ROM, and who sleeps sleeps with the hash of the page. *)
RomAlways(r, e) ==
  /\ r.gameUrl = r.blob
  /\ e.at = "asleep" => e.label = r.hash

RomInv ==
  /\ RomTyped /\ RomAlways(rom, emu)
  /\ Orderly(hazard) => /\ OneLoad(loads, match) /\ BlobIsHashed(rom, loads)
                        /\ RomOfTheMatch(rom, match) /\ OneBoot(emu, match)
                        /\ EmulatorKnown(emu, match)

LEMMA RomInit == Rom!Init => RomInv
<1> SUFFICES ASSUME Rom!Init PROVE RomInv
  OBVIOUS
<1>1. rom \in Rom!Rom /\ emu \in Rom!Emu
  BY RomAssumption DEF Rom!Init, Rom!Rom, Rom!Emu, Rom!Ids, Rom!None
<1>2. match \in MatchSet /\ hazard \in HazardSet /\ guest \in BOOLEAN /\ loads = {}
  BY RomAssumption DEF Rom!Init, MatchSet, HazardSet, Rom!Ids, Rom!None
<1> QED
  BY <1>1, <1>2 DEF Rom!Init, RomInv, RomTyped, RomAlways, OneLoad, BlobIsHashed, RomOfTheMatch,
                    OneBoot, EmulatorKnown, Rom!None

(* What the records of the three operators on the emulator are.             *)
LEMMA DestroyedEmu ==
  ASSUME NEW e \in Rom!Emu
  PROVE  /\ Rom!Destroyed(e) \in Rom!Emu /\ Rom!Destroyed(e).at = "none"
         /\ Rom!Destroyed(e).waiting = e.waiting /\ Rom!Destroyed(e).loaders = e.loaders
         /\ Rom!Destroyed(e).twins = e.twins
BY DEF Rom!Destroyed, Rom!Emu, Rom!Ids, Rom!None

LEMMA DiscardedEmu ==
  ASSUME NEW e \in Rom!Emu, NEW next, NEW d, d = Rom!Discarded(e, next)
  PROVE  /\ d \in Rom!Emu /\ d.waiting = e.waiting /\ d.loaders = e.loaders /\ d.twins = e.twins
         /\ d = e \/ d.at = "none"
         /\ d.at = "asleep" => next # 0 /\ d.label = next
BY DestroyedEmu DEF Rom!Discarded, Rom!None

LEMMA ClearedRom ==
  ASSUME NEW r \in Rom!Rom
  PROVE  /\ Rom!Cleared(r) \in Rom!Rom /\ Rom!Cleared(r).blob = 0 /\ Rom!Cleared(r).hash = 0
         /\ Rom!Cleared(r).gameUrl = 0 /\ Rom!Cleared(r).stored = r.stored
BY DEF Rom!Cleared, Rom!Rom, Rom!Ids, Rom!None

LEMMA IdsAreNat == Rom!Ids \subseteq Nat /\ RomIds \subseteq Rom!Ids /\ 0 \in Rom!Ids /\ 0 \notin RomIds
BY RomAssumption DEF Rom!Ids, Rom!None

(* Waking or booting, when nothing else boots: afterwards one emulator is or  *)
(* will be that of the ROM.                                                 *)
LEMMA EnsureRom ==
  ASSUME NEW r \in Rom!Rom, NEW e \in Rom!Emu, RomAlways(r, e), NEW n, n = Rom!Ensure(r, e)
  PROVE  /\ n[1] = r /\ n[2] \in Rom!Emu /\ n[2].twins = e.twins /\ RomAlways(r, n[2])
         /\ \/ n[2] = e /\ e.at # "asleep"
            \/ n[2].at = "awake" /\ e.at = "asleep" /\ e.label = r.hash /\ n[2].rom = e.rom
               /\ n[2].waiting = e.waiting /\ n[2].loaders = e.loaders
            \/ n[2].at = "none" /\ n[2].waiting \in {e.waiting, e.waiting + 1} /\ n[2].loaders = e.loaders
<1> DEFINE d == Rom!Destroyed(e)
<1>1. /\ d \in Rom!Emu /\ d.at = "none" /\ d.waiting = e.waiting /\ d.loaders = e.loaders
      /\ d.twins = e.twins
  BY DestroyedEmu
<1> HIDE DEF d
<1>2. CASE e.at = "asleep"
  <2> DEFINE w == [e EXCEPT !.at = "awake", !.label = 0]
  <2>1. w \in Rom!Emu /\ w.at = "awake" /\ w.twins = e.twins /\ w.rom = e.rom /\ w.waiting = e.waiting
        /\ w.loaders = e.loaders
    BY IdsAreNat DEF Rom!Emu
  <2>2. n = <<r, w>>
    BY <1>2 DEF Rom!Ensure, RomAlways, Rom!None
  <2> HIDE DEF w
  <2> QED
    BY <1>2, <2>1, <2>2 DEF RomAlways
<1>3. CASE e.at # "asleep"
  <2>1. n = Rom!Boot(r, e)
    BY <1>3 DEF Rom!Ensure
  <2>2. CASE n = <<r, e>>
    BY <1>3, <2>2
  <2>3. CASE n # <<r, e>>
    <3>1. /\ n = <<[r EXCEPT !.gameUrl = r.blob], [e EXCEPT !.waiting = e.waiting + 1]>>
          /\ e.at = "none"
      BY <1>3, <2>1, <2>3 DEF Rom!Boot
    <3>2. [r EXCEPT !.gameUrl = r.blob] = r
      BY DEF RomAlways, Rom!Rom
    <3> DEFINE w == [e EXCEPT !.waiting = e.waiting + 1]
    <3>3. w \in Rom!Emu /\ w.at = e.at /\ w.twins = e.twins /\ w.waiting = e.waiting + 1
          /\ w.loaders = e.loaders
      BY DEF Rom!Emu
    <3>4. n = <<r, w>>
      BY <3>1, <3>2
    <3> HIDE DEF w
    <3> QED
      BY <1>3, <3>1, <3>3, <3>4 DEF RomAlways
  <2> QED
    BY <2>2, <2>3
<1> QED
  BY <1>2, <1>3

(* Steps of the emulator.                                                   *)
LEMMA CoreReadyKeeps == RomInv /\ Rom!CoreReady => RomInv'
<1> SUFFICES ASSUME RomInv, Rom!CoreReady PROVE RomInv'
  OBVIOUS
<1>1. /\ emu \in Rom!Emu /\ UNCHANGED <<guest, rom, loads, match, hazard>> /\ emu.waiting > 0
      /\ emu' = [emu EXCEPT !.waiting = emu.waiting - 1, !.loaders = emu.loaders + 1, !.flight = TRUE]
  BY DEF RomInv, RomTyped, Rom!CoreReady
<1> DEFINE fewer == emu.waiting - 1
           more == emu.loaders + 1
<1>11. fewer \in Nat /\ more \in Nat /\ fewer + more = emu.waiting + emu.loaders
  <2>1. emu.waiting \in Nat /\ emu.loaders \in Nat
    BY <1>1 DEF Rom!Emu
  <2> QED
    BY <1>1, <2>1
<1>12. emu' = [emu EXCEPT !.waiting = fewer, !.loaders = more, !.flight = TRUE]
  BY <1>1
<1> HIDE DEF fewer, more
<1>2. /\ emu' \in Rom!Emu /\ emu'.at = emu.at /\ emu'.rom = emu.rom /\ emu'.label = emu.label
      /\ emu'.twins = emu.twins /\ emu'.waiting + emu'.loaders = emu.waiting + emu.loaders
  BY <1>1, <1>11, <1>12 DEF Rom!Emu
<1> QED
  BY <1>1, <1>2 DEF RomInv, RomTyped, RomAlways, OneLoad, BlobIsHashed, RomOfTheMatch, OneBoot,
                    EmulatorKnown, Orderly

LEMMA LoaderRunsKeeps == RomInv /\ Rom!LoaderRuns => RomInv'
<1> SUFFICES ASSUME RomInv, Rom!LoaderRuns PROVE RomInv'
  OBVIOUS
<1> DEFINE url == rom.gameUrl # 0
           at == IF url THEN "awake" ELSE emu.at
           its == IF url THEN rom.gameUrl ELSE emu.rom
           twins == IF emu.at = "awake" /\ url THEN emu.twins + 1 ELSE emu.twins
<1>1. /\ emu \in Rom!Emu /\ rom \in Rom!Rom /\ UNCHANGED <<guest, rom, loads, match, hazard>>
      /\ emu.loaders > 0
      /\ emu' = [emu EXCEPT !.loaders = emu.loaders - 1, !.flight = FALSE, !.at = at, !.rom = its,
                            !.twins = twins]
  BY DEF RomInv, RomTyped, Rom!LoaderRuns, Rom!None
<1>2. at \in {"none", "awake", "asleep"} /\ its \in Rom!Ids /\ twins \in Nat
  BY <1>1 DEF Rom!Emu, Rom!Rom
<1>3. /\ emu' \in Rom!Emu /\ emu'.at = at /\ emu'.rom = its /\ emu'.label = emu.label
      /\ emu'.twins = twins /\ emu'.waiting = emu.waiting /\ emu'.loaders = emu.loaders - 1
  <2> DEFINE fewer == emu.loaders - 1
  <2>1. fewer \in Nat
    <3>1. emu.loaders \in Nat
      BY <1>1 DEF Rom!Emu
    <3> QED
      BY <1>1, <3>1
  <2>2. emu' = [emu EXCEPT !.loaders = fewer, !.flight = FALSE, !.at = at, !.rom = its, !.twins = twins]
    BY <1>1
  <2> HIDE DEF at, its, twins, fewer
  <2>3. /\ emu' \in Rom!Emu /\ emu'.at = at /\ emu'.rom = its /\ emu'.label = emu.label
        /\ emu'.twins = twins /\ emu'.waiting = emu.waiting /\ emu'.loaders = fewer
    BY <1>1, <1>2, <2>1, <2>2 DEF Rom!Emu
  <2> QED
    BY <2>3 DEF fewer
<1>4. /\ emu.waiting \in Nat /\ emu.loaders \in Nat
  BY <1>1 DEF Rom!Emu
<1>5. RomAlways(rom, emu')
  BY <1>3 DEF RomInv, RomAlways
<1>6. Orderly(hazard) => OneBoot(emu', match) /\ EmulatorKnown(emu', match)
  BY <1>1, <1>3, <1>4 DEF RomInv, RomAlways, RomOfTheMatch, OneBoot, EmulatorKnown
<1> QED
  BY <1>1, <1>3, <1>5, <1>6 DEF RomInv, RomTyped

LEMMA RecoverKeeps == RomInv /\ Rom!Recover => RomInv'
<1> SUFFICES ASSUME RomInv, Rom!Recover PROVE RomInv'
  OBVIOUS
<1>1. /\ emu \in Rom!Emu /\ match \in MatchSet /\ UNCHANGED <<guest, rom, loads, hazard>>
      /\ match.running /\ emu.at = "awake" /\ emu' = Rom!Destroyed(emu)
      /\ match' = [match EXCEPT !.boot = TRUE]
  BY DEF RomInv, RomTyped, Rom!Recover
<1>2. match' \in MatchSet /\ match'.running = match.running /\ match'.rom = match.rom
  BY <1>1 DEF MatchSet
<1>3. /\ emu' \in Rom!Emu /\ emu'.at = "none" /\ emu'.waiting = emu.waiting /\ emu'.loaders = emu.loaders
      /\ emu'.twins = emu.twins
  BY <1>1, DestroyedEmu
<1> QED
  BY <1>1, <1>2, <1>3 DEF RomInv, RomTyped, RomAlways, OneLoad, BlobIsHashed, RomOfTheMatch, OneBoot,
                          EmulatorKnown, Orderly


(* Steps of the ROM that leave the match alone.  A step that begins a load   *)
(* notes it when another is under way.                                      *)
LEMMA RomKeeps ==
  ASSUME RomInv, rom' \in Rom!Rom, emu' \in Rom!Emu, loads' \subseteq {"hash", "library"} \X RomIds,
         hazard' \in HazardSet, UNCHANGED <<guest, match>>, RomAlways(rom', emu'),
         emu' = emu \/ emu'.at = "none", emu'.twins = emu.twins, emu'.waiting = emu.waiting,
         emu'.loaders = emu.loaders,
         Orderly(hazard') => /\ Orderly(hazard) /\ OneLoad(loads', match) /\ BlobIsHashed(rom', loads')
                             /\ RomOfTheMatch(rom', match)
  PROVE  RomInv'
BY DEF RomInv, RomTyped, OneBoot, EmulatorKnown

LEMMA DropKeeps == ASSUME RomInv, NEW i \in RomIds, Rom!Drop(i) PROVE RomInv'
<1>1. /\ rom \in Rom!Rom /\ hazard \in HazardSet /\ match \in MatchSet /\ emu \in Rom!Emu
      /\ loads \subseteq {"hash", "library"} \X RomIds /\ RomAlways(rom, emu)
  BY DEF RomInv, RomTyped
<1>2. /\ ~match.running /\ loads' = loads \cup {<<"hash", i>>} /\ UNCHANGED <<guest, emu, match>>
      /\ rom' = [rom EXCEPT !.blob = i, !.gameUrl = i, !.stored = rom.stored \cup {i}]
      /\ hazard' = [hazard EXCEPT !.loading = hazard.loading \/ loads # {}]
  BY DEF Rom!Drop, Rom!InLobby
<1>3. /\ rom' \in Rom!Rom /\ rom'.blob = i /\ rom'.gameUrl = i /\ rom'.hash = rom.hash
  BY <1>1, <1>2, IdsAreNat DEF Rom!Rom
<1>4. hazard' \in HazardSet /\ (Orderly(hazard') => Orderly(hazard) /\ loads = {})
  <2>1. hazard.loading \in BOOLEAN /\ (loads # {}) \in BOOLEAN
    BY <1>1 DEF HazardSet
  <2> QED
    BY <1>1, <1>2, <2>1 DEF HazardSet, Orderly
<1>5. RomAlways(rom', emu')
  BY <1>1, <1>2, <1>3 DEF RomAlways
<1>6. ASSUME Orderly(hazard')
      PROVE  /\ Orderly(hazard) /\ OneLoad(loads', match) /\ BlobIsHashed(rom', loads')
             /\ RomOfTheMatch(rom', match)
  BY <1>2, <1>3, <1>4, <1>6 DEF OneLoad, BlobIsHashed, RomOfTheMatch
<1> QED
  BY <1>1, <1>2, <1>3, <1>4, <1>5, <1>6, RomKeeps

LEMMA HashFailsKeeps == ASSUME RomInv, NEW i \in RomIds, Rom!HashFails(i) PROVE RomInv'
<1>1. /\ hazard \in HazardSet /\ loads' \subseteq loads /\ hazard' = [hazard EXCEPT !.loading = TRUE]
      /\ UNCHANGED <<guest, rom, emu, match>>
  BY DEF RomInv, RomTyped, Rom!HashFails
<1>2. hazard' \in HazardSet /\ ~Orderly(hazard')
  BY <1>1 DEF HazardSet, Orderly
<1> QED
  BY <1>1, <1>2, RomKeeps DEF RomInv, RomTyped

LEMMA UseFromLibraryKeeps == ASSUME RomInv, NEW i \in RomIds, Rom!UseFromLibrary(i) PROVE RomInv'
<1>1. /\ hazard \in HazardSet /\ loads' = loads \cup {<<"library", i>>} /\ ~match.running
      /\ hazard' = [hazard EXCEPT !.loading = hazard.loading \/ loads # {}]
      /\ UNCHANGED <<guest, rom, emu, match>>
  BY DEF RomInv, RomTyped, Rom!UseFromLibrary, Rom!InLobby
<1>2. hazard' \in HazardSet /\ (Orderly(hazard') => Orderly(hazard) /\ loads = {})
  <2>1. hazard.loading \in BOOLEAN /\ (loads # {}) \in BOOLEAN
    BY <1>1 DEF HazardSet
  <2> QED
    BY <1>1, <2>1 DEF HazardSet, Orderly
<1>3. ASSUME Orderly(hazard')
      PROVE  OneLoad(loads', match) /\ BlobIsHashed(rom', loads') /\ RomOfTheMatch(rom', match)
  <2>1. Orderly(hazard) /\ loads = {}
    BY <1>2, <1>3
  <2> QED
    BY <1>1, <2>1 DEF RomInv, OneLoad, BlobIsHashed, RomOfTheMatch
<1> QED
  BY <1>1, <1>2, <1>3, RomKeeps DEF RomInv, RomTyped

(* A hash or a ROM that is there was the only load.                          *)
LEMMA LoadEnds ==
  ASSUME RomInv, Orderly(hazard), NEW x \in loads
  PROVE  loads \ {x} = {} /\ ~match.running
BY DEF RomInv, OneLoad

LEMMA HashKnownKeeps == ASSUME RomInv, NEW i \in RomIds, Rom!HashKnown(i) PROVE RomInv'
<1>1. /\ rom \in Rom!Rom /\ emu \in Rom!Emu /\ match \in MatchSet /\ hazard \in HazardSet
      /\ loads \subseteq {"hash", "library"} \X RomIds /\ RomAlways(rom, emu)
  BY DEF RomInv, RomTyped
<1> DEFINE new == [rom EXCEPT !.hash = i]
           e == Rom!Discarded(emu, i)
           off == Rom!Discarded(e, 0)
           told == [new EXCEPT !.told = i]
           cleared == Rom!Cleared(new)
<1>2. /\ <<"hash", i>> \in loads /\ loads' = loads \ {<<"hash", i>>} /\ UNCHANGED <<guest, match, hazard>>
      /\ \/ rom' = cleared /\ emu' = off
         \/ rom' = told /\ emu' = e
  BY DEF Rom!HashKnown, Rom!None
<1>3. /\ new \in Rom!Rom /\ new.hash = i /\ new.blob = rom.blob /\ new.gameUrl = rom.gameUrl
      /\ new.stored = rom.stored
  BY <1>1, IdsAreNat DEF Rom!Rom
<1>4. /\ e \in Rom!Emu /\ e.twins = emu.twins /\ e.waiting = emu.waiting /\ e.loaders = emu.loaders
      /\ e = emu \/ e.at = "none"
      /\ e.at = "asleep" => e.label = i
  BY <1>1, DiscardedEmu
<1> HIDE DEF new, e
<1>5. /\ off \in Rom!Emu /\ off.twins = emu.twins /\ off.waiting = emu.waiting
      /\ off.loaders = emu.loaders /\ (off = emu \/ off.at = "none")
      /\ off.at # "asleep"
  BY <1>4, DiscardedEmu
<1>6. /\ told \in Rom!Rom /\ told.hash = i /\ told.blob = rom.blob /\ told.gameUrl = rom.gameUrl
  BY <1>3, IdsAreNat DEF Rom!Rom
<1>7. /\ cleared \in Rom!Rom /\ cleared.hash = 0 /\ cleared.blob = 0 /\ cleared.gameUrl = 0
  BY <1>3, ClearedRom
<1> HIDE DEF off, told, cleared
<1>8. /\ rom' \in Rom!Rom /\ emu' \in Rom!Emu /\ RomAlways(rom', emu')
      /\ emu' = emu \/ emu'.at = "none"
      /\ emu'.twins = emu.twins /\ emu'.waiting = emu.waiting /\ emu'.loaders = emu.loaders
      /\ rom'.blob \in {0, rom.blob} /\ (rom'.blob # 0 => rom'.hash = i)
  <2>1. CASE rom' = cleared /\ emu' = off
    BY <1>1, <2>1, <1>5, <1>7 DEF RomAlways
  <2>2. CASE rom' = told /\ emu' = e
    BY <1>1, <2>2, <1>4, <1>6 DEF RomAlways
  <2> QED
    BY <1>2, <2>1, <2>2
<1>9. ASSUME Orderly(hazard)
      PROVE  OneLoad(loads', match) /\ BlobIsHashed(rom', loads') /\ RomOfTheMatch(rom', match)
  <2>1. loads' = {} /\ ~match.running
    BY <1>2, <1>9, LoadEnds
  <2>2. rom.blob \in {i, 0}
    BY <1>2, <1>9 DEF RomInv, BlobIsHashed
  <2> QED
    BY <1>8, <2>1, <2>2 DEF OneLoad, BlobIsHashed, RomOfTheMatch
<1> QED
  BY <1>1, <1>2, <1>8, <1>9, RomKeeps

LEMMA LibraryAnswersKeeps == ASSUME RomInv, NEW i \in RomIds, Rom!LibraryAnswers(i) PROVE RomInv'
<1>1. /\ rom \in Rom!Rom /\ emu \in Rom!Emu /\ match \in MatchSet /\ hazard \in HazardSet
      /\ loads \subseteq {"hash", "library"} \X RomIds /\ RomAlways(rom, emu)
  BY DEF RomInv, RomTyped
<1> DEFINE new == [rom EXCEPT !.blob = i, !.hash = i, !.gameUrl = i]
           e == Rom!Discarded(emu, i)
<1>2. /\ <<"library", i>> \in loads /\ loads' = loads \ {<<"library", i>>}
      /\ UNCHANGED <<guest, match, hazard>>
      /\ \/ UNCHANGED <<rom, emu>>
         \/ /\ rom' = [new EXCEPT !.told = 0] \/ rom' = [new EXCEPT !.told = i]
            /\ emu' = e
  BY DEF Rom!LibraryAnswers, Rom!None
<1>3. /\ new \in Rom!Rom /\ new.hash = i /\ new.blob = i /\ new.gameUrl = i
  BY <1>1, IdsAreNat DEF Rom!Rom
<1>4. /\ e \in Rom!Emu /\ e.twins = emu.twins /\ e.waiting = emu.waiting /\ e.loaders = emu.loaders
      /\ e = emu \/ e.at = "none"
      /\ e.at = "asleep" => e.label = i
  BY <1>1, DiscardedEmu
<1> HIDE DEF new, e
<1>5. CASE UNCHANGED <<rom, emu>>
  <2>1. ASSUME Orderly(hazard)
        PROVE  OneLoad(loads', match) /\ BlobIsHashed(rom', loads') /\ RomOfTheMatch(rom', match)
    <3>1. loads' = {} /\ ~match.running
      BY <1>2, <2>1, LoadEnds
    <3>2. \A j \in RomIds : <<"hash", j>> \notin loads
      BY <1>2, <2>1 DEF RomInv, OneLoad
    <3> QED
      BY <1>2, <1>5, <2>1, <3>1, <3>2 DEF RomInv, OneLoad, BlobIsHashed, RomOfTheMatch
  <2> QED
    BY <1>1, <1>2, <1>5, <2>1, RomKeeps
<1>6. CASE (rom' = [new EXCEPT !.told = 0] \/ rom' = [new EXCEPT !.told = i]) /\ emu' = e
  <2>1. rom' \in Rom!Rom /\ rom'.hash = i /\ rom'.blob = i /\ rom'.gameUrl = i
    BY <1>3, <1>6, IdsAreNat DEF Rom!Rom
  <2>2. RomAlways(rom', emu')
    BY <1>4, <1>6, <2>1 DEF RomAlways
  <2>3. ASSUME Orderly(hazard)
        PROVE  OneLoad(loads', match) /\ BlobIsHashed(rom', loads') /\ RomOfTheMatch(rom', match)
    BY <1>2, <2>1, <2>3, LoadEnds DEF OneLoad, BlobIsHashed, RomOfTheMatch
  <2> QED
    BY <1>1, <1>2, <1>4, <1>6, <2>1, <2>2, <2>3, RomKeeps
<1> QED
  BY <1>2, <1>5, <1>6

LEMMA DeleteKeeps == ASSUME RomInv, NEW i \in RomIds, Rom!Delete(i) PROVE RomInv'
<1>1. /\ rom \in Rom!Rom /\ emu \in Rom!Emu /\ match \in MatchSet /\ hazard \in HazardSet
      /\ loads \subseteq {"hash", "library"} \X RomIds /\ RomAlways(rom, emu)
  BY DEF RomInv, RomTyped
<1> DEFINE base == IF rom.hash = i THEN Rom!Cleared(rom) ELSE rom
           e == Rom!Discarded(emu, 0)
<1>2. /\ ~match.running /\ UNCHANGED <<guest, loads, match, hazard>>
      /\ rom' = [base EXCEPT !.stored = base.stored \ {i}]
      /\ emu' = IF rom.hash = i THEN e ELSE emu
  BY DEF Rom!Delete, Rom!InLobby, Rom!None
<1>3. /\ base \in Rom!Rom /\ base.blob \in {0, rom.blob} /\ base.gameUrl = base.blob
      /\ rom.hash # i => base = rom
      /\ base.blob # 0 => base = rom
      /\ base = rom \/ base.blob = 0
  BY <1>1, ClearedRom DEF RomAlways
<1>4. /\ e \in Rom!Emu /\ e.twins = emu.twins /\ e.waiting = emu.waiting /\ e.loaders = emu.loaders
      /\ e = emu \/ e.at = "none"
      /\ e.at # "asleep"
  BY <1>1, DiscardedEmu
<1> HIDE DEF base, e
<1>5. /\ rom' \in Rom!Rom /\ rom'.blob = base.blob /\ rom'.hash = base.hash
      /\ rom'.gameUrl = base.gameUrl
  BY <1>2, <1>3 DEF Rom!Rom
<1>6. RomAlways(rom', emu')
  BY <1>1, <1>2, <1>3, <1>4, <1>5 DEF RomAlways
<1>7. ASSUME Orderly(hazard)
      PROVE  OneLoad(loads', match) /\ BlobIsHashed(rom', loads') /\ RomOfTheMatch(rom', match)
  BY <1>2, <1>3, <1>5, <1>7 DEF RomInv, OneLoad, BlobIsHashed, RomOfTheMatch
<1> QED
  BY <1>1, <1>2, <1>4, <1>5, <1>6, <1>7, RomKeeps

LEMMA HostAnnouncesKeeps == ASSUME RomInv, NEW i \in RomIds, Rom!HostAnnounces(i) PROVE RomInv'
<1>1. /\ rom \in Rom!Rom /\ emu \in Rom!Emu /\ match \in MatchSet /\ hazard \in HazardSet
      /\ loads \subseteq {"hash", "library"} \X RomIds /\ RomAlways(rom, emu)
  BY DEF RomInv, RomTyped
<1> DEFINE new == [rom EXCEPT !.host = i]
           cleared == Rom!Cleared(new)
           e == Rom!Discarded(emu, 0)
<1>2. /\ ~match.running /\ UNCHANGED <<guest, match>>
      /\ \/ /\ rom' = cleared /\ emu' = e /\ loads' = loads \cup {<<"library", i>>}
            /\ hazard' = [hazard EXCEPT !.loading = hazard.loading \/ loads # {}]
         \/ /\ rom' = [new EXCEPT !.told = rom.hash] \/ rom' = new
            /\ UNCHANGED <<emu, loads, hazard>>
  BY DEF Rom!HostAnnounces, Rom!InLobby, Rom!None
<1>3. /\ new \in Rom!Rom /\ new.hash = rom.hash /\ new.blob = rom.blob /\ new.gameUrl = rom.gameUrl
      /\ rom.hash \in Rom!Ids
  BY <1>1, IdsAreNat DEF Rom!Rom
<1>4. /\ e \in Rom!Emu /\ e.twins = emu.twins /\ e.waiting = emu.waiting /\ e.loaders = emu.loaders
      /\ e = emu \/ e.at = "none"
      /\ e.at # "asleep"
  BY <1>1, DiscardedEmu
<1> HIDE DEF new, e
<1>5. cleared \in Rom!Rom /\ cleared.blob = 0 /\ cleared.gameUrl = 0 /\ cleared.hash = 0
  BY <1>3, ClearedRom
<1> HIDE DEF cleared
<1>6. CASE /\ rom' = cleared /\ emu' = e /\ loads' = loads \cup {<<"library", i>>}
           /\ hazard' = [hazard EXCEPT !.loading = hazard.loading \/ loads # {}]
  <2>1. hazard' \in HazardSet /\ (Orderly(hazard') => Orderly(hazard) /\ loads = {})
    <3>1. hazard.loading \in BOOLEAN /\ (loads # {}) \in BOOLEAN
      BY <1>1 DEF HazardSet
    <3> QED
      BY <1>1, <1>6, <3>1 DEF HazardSet, Orderly
  <2>2. RomAlways(rom', emu')
    BY <1>4, <1>5, <1>6 DEF RomAlways
  <2>3. ASSUME Orderly(hazard')
        PROVE  OneLoad(loads', match) /\ BlobIsHashed(rom', loads') /\ RomOfTheMatch(rom', match)
    BY <1>2, <1>5, <1>6, <2>1, <2>3 DEF OneLoad, BlobIsHashed, RomOfTheMatch
  <2> QED
    BY <1>1, <1>2, <1>4, <1>5, <1>6, <2>1, <2>2, <2>3, RomKeeps
<1>7. CASE /\ rom' = [new EXCEPT !.told = rom.hash] \/ rom' = new
           /\ UNCHANGED <<emu, loads, hazard>>
  <2>1. rom' \in Rom!Rom /\ rom'.hash = rom.hash /\ rom'.blob = rom.blob /\ rom'.gameUrl = rom.gameUrl
    BY <1>3, <1>7 DEF Rom!Rom
  <2>2. RomAlways(rom', emu')
    BY <1>1, <1>7, <2>1 DEF RomAlways
  <2>3. ASSUME Orderly(hazard)
        PROVE  OneLoad(loads', match) /\ BlobIsHashed(rom', loads') /\ RomOfTheMatch(rom', match)
    BY <1>2, <1>7, <2>1, <2>3 DEF RomInv, OneLoad, BlobIsHashed, RomOfTheMatch
  <2> QED
    BY <1>1, <1>2, <1>7, <2>1, <2>2, <2>3, RomKeeps
<1> QED
  BY <1>2, <1>6, <1>7

LEMMA HostClearsKeeps == RomInv /\ Rom!HostClears => RomInv'
<1> SUFFICES ASSUME RomInv, Rom!HostClears PROVE RomInv'
  OBVIOUS
<1>1. /\ rom \in Rom!Rom /\ emu \in Rom!Emu /\ match \in MatchSet /\ hazard \in HazardSet
      /\ loads \subseteq {"hash", "library"} \X RomIds /\ RomAlways(rom, emu)
  BY DEF RomInv, RomTyped
<1>2. /\ rom' = [rom EXCEPT !.host = 0, !.told = 0]
      /\ UNCHANGED <<guest, loads, emu, match, hazard>>
  BY DEF Rom!HostClears, Rom!None
<1>3. /\ rom' \in Rom!Rom /\ rom'.hash = rom.hash /\ rom'.blob = rom.blob
      /\ rom'.gameUrl = rom.gameUrl
  BY <1>1, <1>2, IdsAreNat DEF Rom!Rom
<1>4. RomAlways(rom', emu')
  BY <1>1, <1>2, <1>3 DEF RomAlways
<1>5. ASSUME Orderly(hazard)
      PROVE  OneLoad(loads', match) /\ BlobIsHashed(rom', loads') /\ RomOfTheMatch(rom', match)
  BY <1>2, <1>3, <1>5 DEF RomInv, OneLoad, BlobIsHashed, RomOfTheMatch
<1> QED
  BY <1>1, <1>2, <1>3, <1>4, <1>5, RomKeeps

LEMMA TransferEndsKeeps == ASSUME RomInv, NEW i \in RomIds, Rom!TransferEnds(i) PROVE RomInv'
<1>1. /\ rom \in Rom!Rom /\ emu \in Rom!Emu /\ match \in MatchSet /\ hazard \in HazardSet
      /\ loads \subseteq {"hash", "library"} \X RomIds /\ RomAlways(rom, emu)
  BY DEF RomInv, RomTyped
<1> DEFINE e == Rom!Discarded(emu, i)
<1>2. /\ ~match.running /\ UNCHANGED <<guest, loads, match>> /\ emu' = e
      /\ rom' = [rom EXCEPT !.blob = i, !.hash = i, !.gameUrl = i, !.told = i,
                            !.stored = rom.stored \cup {i}]
      /\ hazard' = [hazard EXCEPT !.loading = hazard.loading \/ loads # {}]
  BY DEF Rom!TransferEnds, Rom!InLobby
<1>3. rom' \in Rom!Rom /\ rom'.hash = i /\ rom'.blob = i /\ rom'.gameUrl = i
  BY <1>1, <1>2, IdsAreNat DEF Rom!Rom
<1>4. /\ e \in Rom!Emu /\ e.twins = emu.twins /\ e.waiting = emu.waiting /\ e.loaders = emu.loaders
      /\ e = emu \/ e.at = "none"
      /\ e.at = "asleep" => e.label = i
  BY <1>1, DiscardedEmu
<1> HIDE DEF e
<1>5. hazard' \in HazardSet /\ (Orderly(hazard') => Orderly(hazard) /\ loads = {})
  <2>1. hazard.loading \in BOOLEAN /\ (loads # {}) \in BOOLEAN
    BY <1>1 DEF HazardSet
  <2> QED
    BY <1>1, <1>2, <2>1 DEF HazardSet, Orderly
<1>6. RomAlways(rom', emu')
  BY <1>2, <1>3, <1>4 DEF RomAlways
<1>7. ASSUME Orderly(hazard')
      PROVE  /\ Orderly(hazard) /\ OneLoad(loads', match) /\ BlobIsHashed(rom', loads')
             /\ RomOfTheMatch(rom', match)
  BY <1>2, <1>3, <1>5, <1>7 DEF OneLoad, BlobIsHashed, RomOfTheMatch
<1> QED
  BY <1>1, <1>2, <1>3, <1>4, <1>5, <1>6, <1>7, RomKeeps

(* A step at a bad moment is remembered.                                    *)
LEMMA HazardGrows ==
  ASSUME hazard \in HazardSet, NEW a \in BOOLEAN, NEW b \in BOOLEAN,
         hazard' = [loading |-> hazard.loading \/ a, booting |-> hazard.booting \/ b]
  PROVE  /\ hazard' \in HazardSet
         /\ Orderly(hazard') => Orderly(hazard) /\ ~a /\ ~b
<1>1. hazard.loading \in BOOLEAN /\ hazard.booting \in BOOLEAN
  BY DEF HazardSet
<1>2. (hazard.loading \/ a) \in BOOLEAN /\ (hazard.booting \/ b) \in BOOLEAN
  OBVIOUS
<1>3. hazard' \in HazardSet
  BY <1>2 DEF HazardSet
<1>4. hazard'.loading = (hazard.loading \/ a) /\ hazard'.booting = (hazard.booting \/ b)
  OBVIOUS
<1>5. Orderly(hazard') => Orderly(hazard) /\ ~a /\ ~b
  BY <1>1, <1>4 DEF Orderly
<1> QED
  BY <1>3, <1>5

(* Matches.                                                                 *)
LEMMA GameStartsKeeps == RomInv /\ Rom!GameStarts => RomInv'
<1> SUFFICES ASSUME RomInv, Rom!GameStarts PROVE RomInv'
  OBVIOUS
<1>1. /\ rom \in Rom!Rom /\ emu \in Rom!Emu /\ match \in MatchSet /\ hazard \in HazardSet
      /\ guest \in BOOLEAN /\ RomAlways(rom, emu)
  BY DEF RomInv, RomTyped
<1> DEFINE n == Rom!Ensure(rom, emu)
<1>2. /\ ~match.running /\ match.starts < RomStarts /\ rom.blob # 0 /\ rom.told # 0
      /\ match' = [running |-> TRUE, rom |-> rom.told, boot |-> guest, starts |-> match.starts + 1]
      /\ hazard' = [loading |-> hazard.loading \/ loads # {}, booting |-> hazard.booting \/ Rom!Booting]
      /\ (rom' = rom /\ emu' = emu) \/ (rom' = n[1] /\ emu' = n[2])
      /\ UNCHANGED <<guest, loads>>
  BY DEF Rom!GameStarts, Rom!InLobby, Rom!None
<1>3. /\ n[1] = rom /\ n[2] \in Rom!Emu /\ n[2].twins = emu.twins /\ RomAlways(rom, n[2])
      /\ \/ n[2] = emu /\ emu.at # "asleep"
         \/ n[2].at = "awake" /\ emu.at = "asleep" /\ emu.label = rom.hash /\ n[2].rom = emu.rom
            /\ n[2].waiting = emu.waiting /\ n[2].loaders = emu.loaders
         \/ n[2].at = "none" /\ n[2].waiting \in {emu.waiting, emu.waiting + 1}
            /\ n[2].loaders = emu.loaders
  BY <1>1, EnsureRom
<1> HIDE DEF n
<1>4. /\ match' \in MatchSet /\ match'.running /\ match'.rom = rom.told
  BY <1>1, <1>2, RomAssumption DEF MatchSet, Rom!Rom
<1>5. /\ hazard' \in HazardSet
      /\ Orderly(hazard') => Orderly(hazard) /\ loads = {} /\ emu.waiting + emu.loaders = 0
  <2>1. hazard.loading \in BOOLEAN /\ hazard.booting \in BOOLEAN /\ (loads # {}) \in BOOLEAN
        /\ Rom!Booting \in BOOLEAN
    BY <1>1 DEF HazardSet, Rom!Booting
  <2>2. emu.waiting \in Nat /\ emu.loaders \in Nat
    BY <1>1 DEF Rom!Emu
  <2> DEFINE busy == loads # {}
             booting == Rom!Booting
  <2>3. hazard' = [loading |-> hazard.loading \/ busy, booting |-> hazard.booting \/ booting]
        /\ busy \in BOOLEAN /\ booting \in BOOLEAN
    BY <1>2, <2>1
  <2> HIDE DEF busy, booting
  <2>4. hazard' \in HazardSet /\ (Orderly(hazard') => Orderly(hazard) /\ ~busy /\ ~booting)
    BY <1>1, <2>3, HazardGrows
  <2>5. ~booting => emu.waiting + emu.loaders = 0
    BY <2>2 DEF booting, Rom!Booting
  <2> QED
    BY <2>4, <2>5 DEF busy
<1>6. rom' = rom /\ emu' \in Rom!Emu /\ RomAlways(rom', emu')
  BY <1>1, <1>2, <1>3
<1>7. ASSUME Orderly(hazard')
      PROVE  /\ OneLoad(loads', match') /\ BlobIsHashed(rom', loads') /\ RomOfTheMatch(rom', match')
             /\ OneBoot(emu', match') /\ EmulatorKnown(emu', match')
  <2>1. Orderly(hazard) /\ loads = {} /\ emu.waiting + emu.loaders = 0 /\ rom.hash = rom.blob
    BY <1>2, <1>5, <1>7 DEF RomInv, BlobIsHashed
  <2>2. rom.told = rom.hash
    BY <1>2, <2>1 DEF Rom!GameStarts, Rom!Mismatch, Rom!None
  <2>3. emu.waiting \in Nat /\ emu.loaders \in Nat
    BY <1>1 DEF Rom!Emu
  <2>4. OneBoot(emu', match')
    BY <1>2, <1>3, <1>4, <2>1, <2>3 DEF OneBoot, RomInv, EmulatorKnown
  <2>5. EmulatorKnown(emu', match')
    BY <1>2, <1>3, <1>4, <2>1, <2>2 DEF RomInv, EmulatorKnown
  <2> QED
    BY <1>2, <1>4, <1>6, <2>1, <2>2, <2>4, <2>5 DEF OneLoad, BlobIsHashed, RomOfTheMatch
<1> QED
  BY <1>1, <1>2, <1>4, <1>5, <1>6, <1>7 DEF RomInv, RomTyped

LEMMA EngineBootsKeeps == RomInv /\ Rom!EngineBoots => RomInv'
<1> SUFFICES ASSUME RomInv, Rom!EngineBoots PROVE RomInv'
  OBVIOUS
<1>1. /\ rom \in Rom!Rom /\ emu \in Rom!Emu /\ match \in MatchSet /\ hazard \in HazardSet
      /\ guest \in BOOLEAN /\ RomAlways(rom, emu)
  BY DEF RomInv, RomTyped
<1> DEFINE n == Rom!Ensure(rom, emu)
<1>2. /\ match.running /\ match' = [match EXCEPT !.boot = FALSE]
      /\ hazard' = [hazard EXCEPT !.booting = hazard.booting \/ Rom!Booting]
      /\ rom' = n[1] /\ emu' = n[2] /\ UNCHANGED <<guest, loads>>
  BY DEF Rom!EngineBoots
<1>3. /\ n[1] = rom /\ n[2] \in Rom!Emu /\ n[2].twins = emu.twins /\ RomAlways(rom, n[2])
      /\ \/ n[2] = emu /\ emu.at # "asleep"
         \/ n[2].at = "awake" /\ emu.at = "asleep" /\ emu.label = rom.hash /\ n[2].rom = emu.rom
            /\ n[2].waiting = emu.waiting /\ n[2].loaders = emu.loaders
         \/ n[2].at = "none" /\ n[2].waiting \in {emu.waiting, emu.waiting + 1}
            /\ n[2].loaders = emu.loaders
  BY <1>1, EnsureRom
<1> HIDE DEF n
<1>4. match' \in MatchSet /\ match'.running /\ match'.rom = match.rom
  BY <1>1, <1>2 DEF MatchSet
<1>5. /\ hazard' \in HazardSet
      /\ Orderly(hazard') => Orderly(hazard) /\ emu.waiting + emu.loaders = 0
  <2>1. hazard.booting \in BOOLEAN /\ Rom!Booting \in BOOLEAN
    BY <1>1 DEF HazardSet, Rom!Booting
  <2>2. emu.waiting \in Nat /\ emu.loaders \in Nat
    BY <1>1 DEF Rom!Emu
  <2> DEFINE booting == Rom!Booting
  <2>3. hazard' = [loading |-> hazard.loading \/ FALSE, booting |-> hazard.booting \/ booting]
        /\ booting \in BOOLEAN
    <3>1. hazard.loading \in BOOLEAN
      BY <1>1 DEF HazardSet
    <3>2. hazard' = [loading |-> hazard.loading, booting |-> hazard.booting \/ booting]
      BY <1>1, <1>2 DEF HazardSet
    <3> QED
      BY <2>1, <3>1, <3>2
  <2> HIDE DEF booting
  <2>4. hazard' \in HazardSet /\ (Orderly(hazard') => Orderly(hazard) /\ ~booting)
    BY <1>1, <2>3, HazardGrows
  <2>5. ~booting => emu.waiting + emu.loaders = 0
    BY <2>2 DEF booting, Rom!Booting
  <2> QED
    BY <2>4, <2>5
<1>6. ASSUME Orderly(hazard')
      PROVE  /\ OneLoad(loads', match') /\ BlobIsHashed(rom', loads') /\ RomOfTheMatch(rom', match')
             /\ OneBoot(emu', match') /\ EmulatorKnown(emu', match')
  <2>1. Orderly(hazard) /\ emu.waiting + emu.loaders = 0
    BY <1>5, <1>6
  <2>2. emu.waiting \in Nat /\ emu.loaders \in Nat
    BY <1>1 DEF Rom!Emu
  <2>3. OneBoot(emu', match')
    BY <1>2, <1>3, <1>4, <2>1, <2>2 DEF OneBoot
  <2>4. EmulatorKnown(emu', match')
    BY <1>2, <1>3, <1>4, <2>1 DEF RomInv, EmulatorKnown, RomOfTheMatch
  <2> QED
    BY <1>2, <1>3, <1>4, <2>1, <2>3, <2>4 DEF RomInv, OneLoad, BlobIsHashed, RomOfTheMatch
<1> QED
  BY <1>1, <1>2, <1>3, <1>4, <1>5, <1>6 DEF RomInv, RomTyped

LEMMA GameEndsKeeps == RomInv /\ Rom!GameEnds => RomInv'
<1> SUFFICES ASSUME RomInv, Rom!GameEnds PROVE RomInv'
  OBVIOUS
<1>1. /\ rom \in Rom!Rom /\ emu \in Rom!Emu /\ match \in MatchSet /\ hazard \in HazardSet
      /\ RomAlways(rom, emu)
  BY DEF RomInv, RomTyped
<1>2. /\ match.running /\ match' = [match EXCEPT !.running = FALSE, !.rom = 0, !.boot = FALSE]
      /\ emu' = (IF emu.at = "none" THEN emu ELSE [emu EXCEPT !.at = "asleep", !.label = rom.hash])
      /\ hazard' = [loading |-> hazard.loading \/ loads # {}, booting |-> hazard.booting \/ Rom!Booting]
      /\ UNCHANGED <<guest, rom, loads>>
  BY DEF Rom!GameEnds, Rom!None
<1>3. match' \in MatchSet /\ ~match'.running
  BY <1>1, <1>2, IdsAreNat DEF MatchSet
<1>4. /\ emu' \in Rom!Emu /\ emu'.twins = emu.twins /\ emu'.rom = emu.rom
      /\ emu'.waiting = emu.waiting /\ emu'.loaders = emu.loaders
      /\ \/ emu'.at = "none" /\ emu.at = "none"
         \/ emu'.at = "asleep" /\ emu'.label = rom.hash /\ emu.at # "none"
  <2>1. rom.hash \in Rom!Ids
    BY <1>1 DEF Rom!Rom
  <2>2. CASE emu.at = "none"
    BY <1>1, <1>2, <2>2
  <2>3. CASE emu.at # "none"
    BY <1>1, <1>2, <2>1, <2>3 DEF Rom!Emu
  <2> QED
    BY <2>2, <2>3
<1>5. /\ hazard' \in HazardSet
      /\ Orderly(hazard') => Orderly(hazard) /\ loads = {} /\ emu.waiting + emu.loaders = 0
  <2>1. hazard.loading \in BOOLEAN /\ hazard.booting \in BOOLEAN /\ (loads # {}) \in BOOLEAN
        /\ Rom!Booting \in BOOLEAN
    BY <1>1 DEF HazardSet, Rom!Booting
  <2>2. emu.waiting \in Nat /\ emu.loaders \in Nat
    BY <1>1 DEF Rom!Emu
  <2> DEFINE busy == loads # {}
             booting == Rom!Booting
  <2>3. hazard' = [loading |-> hazard.loading \/ busy, booting |-> hazard.booting \/ booting]
        /\ busy \in BOOLEAN /\ booting \in BOOLEAN
    BY <1>2, <2>1
  <2> HIDE DEF busy, booting
  <2>4. hazard' \in HazardSet /\ (Orderly(hazard') => Orderly(hazard) /\ ~busy /\ ~booting)
    BY <1>1, <2>3, HazardGrows
  <2>5. ~booting => emu.waiting + emu.loaders = 0
    BY <2>2 DEF booting, Rom!Booting
  <2> QED
    BY <2>4, <2>5 DEF busy
<1>6. ASSUME Orderly(hazard')
      PROVE  /\ OneLoad(loads', match') /\ BlobIsHashed(rom', loads') /\ RomOfTheMatch(rom', match')
             /\ OneBoot(emu', match') /\ EmulatorKnown(emu', match')
  <2>1. Orderly(hazard) /\ loads = {} /\ emu.waiting + emu.loaders = 0
    BY <1>5, <1>6
  <2>2. emu.at # "none" => emu.rom = rom.hash
    <3>1. emu.at \in {"none", "awake", "asleep"}
      BY <1>1 DEF Rom!Emu
    <3> QED
      BY <1>1, <1>2, <2>1, <3>1 DEF RomInv, EmulatorKnown, RomOfTheMatch, RomAlways
  <2>3. OneBoot(emu', match')
    BY <1>4, <2>1 DEF OneBoot
  <2>4. EmulatorKnown(emu', match')
    BY <1>3, <1>4, <2>1, <2>2 DEF RomInv, EmulatorKnown
  <2> QED
    BY <1>2, <1>3, <2>1, <2>3, <2>4 DEF RomInv, OneLoad, BlobIsHashed, RomOfTheMatch
<1>7. RomAlways(rom', emu')
  BY <1>1, <1>2, <1>4 DEF RomAlways
<1> QED
  BY <1>1, <1>2, <1>3, <1>4, <1>5, <1>6, <1>7 DEF RomInv, RomTyped

LEMMA RomStep == RomInv /\ [Rom!Next]_Rom!romVars => RomInv'
<1> SUFFICES ASSUME RomInv, [Rom!Next]_Rom!romVars PROVE RomInv'
  OBVIOUS
<1>1. CASE UNCHANGED Rom!romVars
  BY <1>1 DEF Rom!romVars, RomInv, RomTyped
<1> QED
  BY <1>1, CoreReadyKeeps, LoaderRunsKeeps, RecoverKeeps, GameStartsKeeps, EngineBootsKeeps, GameEndsKeeps,
     DropKeeps, HashKnownKeeps, HashFailsKeeps, DeleteKeeps, UseFromLibraryKeeps, LibraryAnswersKeeps,
     HostAnnouncesKeeps, HostClearsKeeps, TransferEndsKeeps DEF Rom!Next

RomPart == part = "rom" => RomInv

LEMMA RomPartInit == PageInit => RomPart
BY RomInit DEF PageInit, RomPart

LEMMA RomPartStep == RomPart /\ [PageNext]_pageVars => RomPart'
<1> SUFFICES ASSUME RomPart, [PageNext]_pageVars, part' = "rom" PROVE RomInv'
  BY DEF RomPart
<1>1. part = "rom"
  BY DEF PageNext, pageVars, Keep8, Keep7, Keep6, Keep5, Keep4
<1>2. Rom!Next \/ UNCHANGED Rom!romVars
  BY <1>1 DEF PageNext, pageVars, Rom!romVars
<1> QED
  BY <1>1, <1>2, RomStep DEF RomPart

(* While loads come one at a time and every boot ends with its match:        *)
(* whatever ROM is dropped, taken from the library, deleted or announced, and *)
(* however often the emulator sleeps, wakes or is replaced, what runs in a    *)
(* match is the ROM of the match, in one emulator, and nothing in the lobby.  *)
THEOREM TheRomRuns == PageSpec => []EmulatorRunsTheRom
<1>1. RomInv => Rom!RomTypeOK /\ Rom!EmulatorRunsTheRom
  BY DEF RomInv, RomTyped, MatchSet, HazardSet, Rom!RomTypeOK, Rom!EmulatorRunsTheRom, Rom!InLobby,
         Orderly, EmulatorKnown
<1>2. RomPart => EmulatorRunsTheRom
  BY <1>1 DEF RomPart, EmulatorRunsTheRom
<1> QED
  BY <1>2, RomPartInit, RomPartStep, PTL DEF PageSpec

HIDE DEF guest, rom, loads, emu, match, hazard


(***************************************************************************)
(* MatchAudio: the contexts of a match.                                    *)
(***************************************************************************)

made    == v1
page    == v2
audio   == v3
due     == v4
stage   == v5
trouble == v6
USE DEF made, page, audio, due, stage, trouble

CtxSet == [kind : {"match", "emulator"}, state : {"suspended", "running", "closed"}, ticks : BOOLEAN]
PageSet == [preloaded : 0..MaxCtx, dest : 0..MaxCtx, osc : 0..MaxCtx, hijack : 0..MaxCtx]
AudioSet ==
  [ctx : 0..MaxCtx, node : 0..MaxCtx, worklet : BOOLEAN, element : BOOLEAN, ready : BOOLEAN,
   listening : BOOLEAN, toast : {"none", "blocked", "interrupted"}, zombie : BOOLEAN, tries : 0..Attempts]
DueSet == [ctx : 0..MaxCtx, by : {"module", "ensure", "suspend", "recovery", "tap"}]
StageSet == [is : {"none", "boot", "running"}, tapped : BOOLEAN, built : BOOLEAN]

Contexts(m) == \E k \in 0..MaxCtx : m \in [1..k -> CtxSet]

(* An open context of a match.                                              *)
OfMatch(m, c) == c \in DOMAIN m /\ m[c].kind = "match" /\ m[c].state # "closed"

(* The match's context and the one made in advance are two open ones of       *)
(* matches, and there is no third.                                          *)
TwoContexts(m, p, a) ==
  /\ p.preloaded # 0 => OfMatch(m, p.preloaded) /\ p.preloaded # a.ctx
  /\ a.ctx # 0 => OfMatch(m, a.ctx)
  /\ p.hijack # 0 => p.hijack \in DOMAIN m
  /\ \A c \in DOMAIN m : OfMatch(m, c) => c = a.ctx \/ c = p.preloaded

NodeInv(a) ==
  /\ a.ready => a.node = a.ctx /\ a.ctx # 0
  /\ a.listening => a.ctx # 0

(* Before a match starts it has no context.  The constructor is replaced by    *)
(* the tap of a boot, after which there is a context made in advance.         *)
StageInv(s, p, a) ==
  /\ s.is # "running" => a.ctx = 0 /\ ~a.ready /\ ~a.listening
  /\ s.is = "none" => ~s.tapped
  /\ ~s.tapped => p.hijack = 0
  /\ s.is = "boot" /\ s.tapped => p.preloaded # 0

AudioInv ==
  /\ Contexts(made) /\ page \in PageSet /\ audio \in AudioSet /\ due \subseteq DueSet
  /\ stage \in StageSet /\ trouble \in 0..AudioTrouble
  /\ \A d \in due : d.ctx # 0 => d.ctx \in DOMAIN made
  /\ TwoContexts(made, page, audio) /\ NodeInv(audio) /\ StageInv(stage, page, audio)

LEMMA AudioInit == Audio!Init => AudioInv
<1> SUFFICES ASSUME Audio!Init PROVE AudioInv
  OBVIOUS
<1>0. 0 \in 0..MaxCtx /\ 0 \in 0..AudioTrouble /\ 0 \in 0..Attempts
  BY AudioAssumption
<1>1. /\ page \in PageSet /\ audio \in AudioSet /\ stage \in StageSet /\ trouble \in 0..AudioTrouble
      /\ due = {}
  <2>1. page \in PageSet
    BY <1>0 DEF Audio!Init, Audio!NoPage, PageSet
  <2>2. audio \in AudioSet
    BY <1>0 DEF Audio!Init, Audio!Silent, AudioSet
  <2>3. stage \in StageSet /\ trouble \in 0..AudioTrouble /\ due = {}
    BY <1>0 DEF Audio!Init, Audio!NoMatch, StageSet
  <2> QED
    BY <2>1, <2>2, <2>3
<1>2. made \in [1..0 -> CtxSet] /\ 0 \in 0..MaxCtx /\ DOMAIN made = {}
  BY AudioAssumption DEF Audio!Init
<1>3. Contexts(made)
  BY <1>2 DEF Contexts
<1> QED
  BY <1>1, <1>2, <1>3 DEF AudioInv, TwoContexts, NodeInv, StageInv, Audio!Init, Audio!NoPage, Audio!Silent,
                          Audio!NoMatch

(* The types of the module, and its properties.                             *)
LEMMA ContextsCounted ==
  ASSUME NEW m, Contexts(m)
  PROVE  \E k \in 0..MaxCtx : DOMAIN m = 1..k /\ m \in [1..k -> CtxSet]
BY DEF Contexts

LEMMA AudioTypes == AudioInv => Audio!AudioTypeOK /\ Audio!AudioSound
<1> SUFFICES ASSUME AudioInv PROVE Audio!AudioTypeOK /\ Audio!AudioSound
  OBVIOUS
<1>1. /\ \E k \in 0..MaxCtx : DOMAIN made = 1..k
      /\ made \in [DOMAIN made -> CtxSet]
  BY ContextsCounted DEF AudioInv
<1>3. Audio!AudioTypeOK
  <2>1. \A c \in DOMAIN made : made[c] \in CtxSet
    BY <1>1
  <2>2. page \in PageSet /\ audio \in AudioSet /\ trouble \in 0..AudioTrouble
    BY DEF AudioInv
  <2>3. /\ page \in [preloaded : 0..MaxCtx, dest : 0..MaxCtx, osc : 0..MaxCtx, hijack : 0..MaxCtx]
        /\ \A c \in DOMAIN made :
             made[c] \in [kind : {"match", "emulator"}, state : {"suspended", "running", "closed"}, ticks : BOOLEAN]
    BY <2>1, <2>2 DEF PageSet, CtxSet
  <2>4. audio \in [ctx : 0..MaxCtx, node : 0..MaxCtx, worklet : BOOLEAN, element : BOOLEAN, ready : BOOLEAN,
                   listening : BOOLEAN, toast : {"none", "blocked", "interrupted"}, zombie : BOOLEAN, tries : 0..Attempts]
    BY <2>2 DEF AudioSet
  <2> QED
    BY <1>1, <2>2, <2>3, <2>4 DEF Audio!AudioTypeOK
<1>4. Audio!OwnContext /\ Audio!NodeIsLive /\ Audio!NothingLeaks /\ Audio!NobodyListensAfterwards
  BY DEF AudioInv, TwoContexts, OfMatch, NodeInv, Audio!OwnContext, Audio!NodeIsLive, Audio!NothingLeaks,
         Audio!NobodyListensAfterwards, Audio!Open
<1> QED
  BY <1>3, <1>4 DEF Audio!AudioSound

LEMMA NoContextZero == \A m : Contexts(m) => 0 \notin DOMAIN m
BY AudioAssumption DEF Contexts

(* The context n[3] is new in n[1].                                          *)
NewContext(m, kind, n) ==
  /\ n[3] \in 1..MaxCtx /\ n[3] \notin DOMAIN m
  /\ Contexts(n[1]) /\ DOMAIN n[1] = DOMAIN m \cup {n[3]}
  /\ \A k \in DOMAIN m : n[1][k] = m[k]
  /\ n[1][n[3]].kind = kind /\ n[1][n[3]].state # "closed"

(* A call of the constructor: the emulator's context, once, or a new one.     *)
LEMMA ConstructedIs ==
  ASSUME NEW m, Contexts(m), NEW p \in PageSet, NEW kind \in {"match", "emulator"},
         NEW n \in Audio!Constructed(m, p, kind)
  PROVE  \/ /\ p.hijack # 0 /\ n[1] = m /\ n[3] = p.hijack
            /\ n[2] = [p EXCEPT !.hijack = 0]
         \/ p.hijack = 0 /\ n[2] = p /\ NewContext(m, kind, n)
<1>1. CASE p.hijack # 0
  BY <1>1 DEF Audio!Constructed
<1>2. CASE p.hijack = 0
  <2> DEFINE Ctx(s) == [kind |-> kind, state |-> s, ticks |-> TRUE]
  <2>1. PICK size \in 0..MaxCtx : DOMAIN m = 1..size /\ m \in [1..size -> CtxSet]
    BY ContextsCounted
  <2>2. PICK c \in 1..MaxCtx, s \in {"running", "suspended"} :
          DOMAIN m = 1..(c - 1) /\ n = <<Audio!With(m, c, Ctx(s)), p, c>>
    BY <1>2 DEF Audio!Constructed, Audio!Ids
  <2> DEFINE ctx == Ctx(s)
             grown == Audio!With(m, c, ctx)
  <2>4. ctx \in CtxSet /\ ctx.kind = kind /\ ctx.state # "closed"
    BY DEF CtxSet
  <2>5. c \notin DOMAIN m /\ DOMAIN m \cup {c} = 1..c /\ c \in 0..MaxCtx
    BY <2>2, AudioAssumption
  <2>6. /\ grown \in [1..c -> CtxSet] /\ grown[c] = ctx
        /\ \A k \in DOMAIN m : grown[k] = m[k]
    <3> HIDE DEF ctx
    <3> QED
      BY <2>1, <2>4, <2>5 DEF Audio!With
  <2>7. n[1] = grown /\ n[2] = p /\ n[3] = c
    BY <2>2
  <2> HIDE DEF ctx, grown
  <2>8. Contexts(grown)
    BY <2>5, <2>6 DEF Contexts
  <2> QED
    BY <1>2, <2>2, <2>4, <2>5, <2>6, <2>7, <2>8 DEF NewContext
<1> QED
  BY <1>1, <1>2

(* The one made in advance, when there is none and the constructor is the     *)
(* browser's.                                                               *)
LEMMA PreloadedIs ==
  ASSUME NEW m, Contexts(m), NEW p \in PageSet, NEW a \in AudioSet, TwoContexts(m, p, a),
         p.preloaded = 0, p.hijack = 0, NEW n \in Audio!Preloaded(m, p)
  PROVE  /\ Contexts(n[1]) /\ n[2] \in PageSet /\ TwoContexts(n[1], n[2], a)
         /\ n[2].preloaded # 0 /\ n[2].hijack = 0 /\ DOMAIN m \subseteq DOMAIN n[1]
<1>1. PICK c \in Audio!Constructed(m, p, "match") :
        n = <<c[1], [c[2] EXCEPT !.preloaded = c[3], !.dest = c[3], !.osc = c[3]]>>
  BY DEF Audio!Preloaded
<1>2. c[2] = p /\ NewContext(m, "match", c)
  BY <1>1, ConstructedIs
<1> DEFINE k == c[3]
           q == [p EXCEPT !.preloaded = k, !.dest = k, !.osc = k]
<1>3. n[1] = c[1] /\ n[2] = q
  BY <1>1, <1>2
<1>4. k \in 0..MaxCtx /\ k # 0
  BY <1>2, AudioAssumption DEF NewContext
<1>5. q \in PageSet /\ q.preloaded = k /\ q.hijack = 0
  <2> HIDE DEF k
  <2> QED
    BY <1>4 DEF PageSet
<1> HIDE DEF q
<1>6. TwoContexts(c[1], q, a)
  BY <1>2, <1>4, <1>5, NoContextZero DEF TwoContexts, OfMatch, NewContext
<1> QED
  BY <1>2, <1>3, <1>4, <1>5, <1>6 DEF NewContext

(* Steps before the match.                                                  *)
LEMMA PreloadKeeps == AudioInv /\ Audio!Preload => AudioInv'
<1> SUFFICES ASSUME AudioInv, Audio!Preload PROVE AudioInv'
  OBVIOUS
<1>1. PICK n \in Audio!Preloaded(made, page) : made' = n[1] /\ page' = n[2]
  BY DEF Audio!Preload
<1>2. page.preloaded = 0 /\ page.hijack = 0
  BY DEF AudioInv, TwoContexts, OfMatch, StageInv, Audio!Preload, Audio!Open
<1>3. /\ Contexts(n[1]) /\ n[2] \in PageSet /\ TwoContexts(n[1], n[2], audio)
      /\ n[2].preloaded # 0 /\ n[2].hijack = 0 /\ DOMAIN made \subseteq DOMAIN n[1]
  BY <1>2, PreloadedIs DEF AudioInv
<1> QED
  BY <1>1, <1>3 DEF AudioInv, Audio!Preload, StageInv

LEMMA BootKeeps == AudioInv /\ Audio!Boot => AudioInv'
<1> SUFFICES ASSUME AudioInv, Audio!Boot PROVE AudioInv'
  OBVIOUS
<1>1. PICK woken \in BOOLEAN : stage' = [is |-> "boot", tapped |-> FALSE, built |-> woken]
  BY DEF Audio!Boot
<1> QED
  BY <1>1 DEF AudioInv, Audio!Boot, StageSet, StageInv

LEMMA EmulatorsContext ==
  ASSUME AudioInv, page.hijack = 0, NEW e \in Audio!Constructed(made, page, "emulator")
  PROVE  e[2] = page /\ NewContext(made, "emulator", e)
BY ConstructedIs DEF AudioInv

LEMMA MatchsContext ==
  ASSUME AudioInv, page.hijack = 0, NEW e \in Audio!Constructed(made, page, "match")
  PROVE  e[2] = page /\ NewContext(made, "match", e)
BY ConstructedIs DEF AudioInv

LEMMA PromptTapKeeps == AudioInv /\ Audio!PromptTap => AudioInv'
<1> SUFFICES ASSUME AudioInv, Audio!PromptTap PROVE AudioInv'
  OBVIOUS
<1>1. PICK e \in Audio!Constructed(made, page, "emulator") :
        \E n \in IF e[2].preloaded # 0 THEN {<<e[1], e[2]>>} ELSE Audio!Preloaded(e[1], e[2]) :
          made' = n[1] /\ page' = [n[2] EXCEPT !.hijack = e[3]]
  BY DEF Audio!PromptTap
<1>2. PICK n \in IF e[2].preloaded # 0 THEN {<<e[1], e[2]>>} ELSE Audio!Preloaded(e[1], e[2]) :
        made' = n[1] /\ page' = [n[2] EXCEPT !.hijack = e[3]]
  BY <1>1
<1>3. /\ stage \in StageSet /\ stage.is = "boot" /\ ~stage.tapped /\ page.hijack = 0
      /\ stage' = [stage EXCEPT !.tapped = TRUE] /\ UNCHANGED <<audio, due, trouble>>
  BY DEF AudioInv, StageInv, Audio!PromptTap
<1>40. e[2] = page /\ NewContext(made, "emulator", e)
  BY <1>1, <1>3, EmulatorsContext
<1>4. /\ e[2] = page /\ e[3] \in 1..MaxCtx /\ e[3] \notin DOMAIN made
      /\ Contexts(e[1]) /\ DOMAIN e[1] = DOMAIN made \cup {e[3]}
      /\ \A k \in DOMAIN made : e[1][k] = made[k]
      /\ e[1][e[3]].kind = "emulator"
  BY <1>40 DEF NewContext
<1>5. TwoContexts(e[1], page, audio)
  BY <1>4 DEF AudioInv, TwoContexts, OfMatch
<1>6. /\ Contexts(n[1]) /\ n[2] \in PageSet /\ TwoContexts(n[1], n[2], audio)
      /\ n[2].preloaded # 0 /\ DOMAIN e[1] \subseteq DOMAIN n[1]
  <2>1. CASE page.preloaded # 0
    BY <1>2, <1>4, <1>5, <2>1 DEF AudioInv
  <2>2. CASE page.preloaded = 0
    BY <1>2, <1>3, <1>4, <1>5, <2>2, PreloadedIs DEF AudioInv
  <2> QED
    BY <2>1, <2>2
<1>7. /\ page' \in PageSet /\ page'.hijack = e[3] /\ page'.preloaded = n[2].preloaded
  BY <1>2, <1>4, <1>6, AudioAssumption DEF PageSet
<1>8. stage' \in StageSet /\ stage'.is = "boot" /\ stage'.tapped
  BY <1>3 DEF StageSet
<1>9. TwoContexts(made', page', audio)
  BY <1>2, <1>4, <1>6, <1>7 DEF TwoContexts
<1> QED
  BY <1>2, <1>3, <1>4, <1>6, <1>7, <1>8, <1>9 DEF AudioInv, StageInv

LEMMA EmulatorBuiltKeeps == AudioInv /\ Audio!EmulatorBuilt => AudioInv'
<1> SUFFICES ASSUME AudioInv, Audio!EmulatorBuilt PROVE AudioInv'
  OBVIOUS
<1>1. PICK n \in Audio!Constructed(made, page, "emulator") : made' = n[1] /\ page' = n[2]
  BY DEF Audio!EmulatorBuilt
<1>2. /\ stage \in StageSet /\ stage.is = "boot" /\ stage.tapped /\ page \in PageSet
      /\ stage' = [stage EXCEPT !.built = TRUE] /\ UNCHANGED <<audio, due, trouble>>
  BY DEF AudioInv, Audio!EmulatorBuilt
<1>3. stage' \in StageSet /\ stage'.is = "boot" /\ stage'.tapped
  BY <1>2 DEF StageSet
<1>4. /\ Contexts(made') /\ page' \in PageSet /\ TwoContexts(made', page', audio)
      /\ page'.preloaded = page.preloaded /\ DOMAIN made \subseteq DOMAIN made'
  <2>1. CASE page.hijack # 0
    <3>1. made' = made /\ page' = [page EXCEPT !.hijack = 0]
      BY <1>1, <2>1, ConstructedIs DEF AudioInv
    <3>2. page' \in PageSet /\ page'.hijack = 0 /\ page'.preloaded = page.preloaded
      BY <1>2, <3>1, AudioAssumption DEF PageSet
    <3> QED
      BY <3>1, <3>2 DEF AudioInv, TwoContexts
  <2>2. CASE page.hijack = 0
    <3>0. n[2] = page /\ NewContext(made, "emulator", n)
      BY <1>1, <2>2, ConstructedIs DEF AudioInv
    <3>1. /\ page' = page /\ n[3] \notin DOMAIN made
          /\ Contexts(made') /\ DOMAIN made' = DOMAIN made \cup {n[3]}
          /\ \A k \in DOMAIN made : made'[k] = made[k]
          /\ made'[n[3]].kind = "emulator"
      BY <1>1, <3>0 DEF NewContext
    <3>2. TwoContexts(made', page, audio)
      BY <3>1 DEF AudioInv, TwoContexts, OfMatch
    <3> QED
      BY <1>2, <3>1, <3>2
  <2> QED
    BY <2>1, <2>2
<1> QED
  BY <1>2, <1>3, <1>4 DEF AudioInv, StageInv


(* Steps that leave the context of the match and the one made in advance what  *)
(* they are.                                                                *)
SameContexts(m, n) ==
  /\ Contexts(n) /\ DOMAIN n = DOMAIN m
  /\ \A c \in DOMAIN m : OfMatch(n, c) <=> OfMatch(m, c)

LEMMA AudioKeeps ==
  ASSUME AudioInv, SameContexts(made, made'), UNCHANGED stage, trouble' \in 0..AudioTrouble,
         page' \in PageSet, page'.preloaded = page.preloaded, page'.hijack = page.hijack,
         audio' \in AudioSet, audio'.ctx = audio.ctx, NodeInv(audio'),
         due' \subseteq DueSet, \A d \in due' : d \in due \/ d.ctx = audio.ctx \/ \E b \in due : b.ctx = d.ctx
  PROVE  AudioInv'
<1>1. TwoContexts(made', page', audio')
  BY DEF AudioInv, TwoContexts, SameContexts, OfMatch
<1>2. StageInv(stage', page', audio')
  BY DEF AudioInv, StageInv, NodeInv
<1>3. \A d \in due' : d.ctx # 0 => d.ctx \in DOMAIN made'
  BY DEF AudioInv, TwoContexts, SameContexts, OfMatch
<1> QED
  BY <1>1, <1>2, <1>3 DEF AudioInv, SameContexts

LEMMA SameIsSame == AudioInv => SameContexts(made, made)
BY DEF AudioInv, SameContexts

LEMMA OneContextChanges ==
  ASSUME NEW m, Contexts(m), NEW c \in DOMAIN m, m[c].state # "closed",
         NEW x \in CtxSet, x.kind = m[c].kind, x.state # "closed"
  PROVE  SameContexts(m, [m EXCEPT ![c] = x])
<1>1. PICK k \in 0..MaxCtx : m \in [1..k -> CtxSet]
  BY DEF Contexts
<1>2. [m EXCEPT ![c] = x] \in [1..k -> CtxSet]
  BY <1>1
<1> DEFINE n == [m EXCEPT ![c] = x]
<1>3. \A i \in DOMAIN m : n[i] = IF i = c THEN x ELSE m[i]
  BY <1>1
<1>4. n \in [1..k -> CtxSet] /\ DOMAIN n = DOMAIN m
  BY <1>1, <1>2
<1> HIDE DEF n
<1>5. SameContexts(m, n)
  BY <1>1, <1>3, <1>4 DEF SameContexts, Contexts, OfMatch
<1> QED
  BY <1>5 DEF n

(* ensureRunning and the end of init leave the context alone.                *)
Asks(ask, a) == \A d \in ask : d \in DueSet /\ d.ctx = a.ctx

LEMMA ArmedIs ==
  ASSUME NEW m, NEW a \in AudioSet, NodeInv(a)
  PROVE  /\ Audio!Armed(m, a) \in AudioSet /\ Audio!Armed(m, a).ctx = a.ctx
         /\ Audio!Armed(m, a).ready = a.ready /\ NodeInv(Audio!Armed(m, a))
<1> DEFINE on == Audio!Open(m, a.ctx) /\ ~Audio!Runs(m, a.ctx)
           b == [a EXCEPT !.listening = on]
<1>1. on \in BOOLEAN /\ (on => a.ctx # 0)
  BY DEF Audio!Open, Audio!Runs
<1>2. Audio!Armed(m, a) = b
  BY DEF Audio!Armed
<1> HIDE DEF on
<1>3. b \in AudioSet /\ b.ctx = a.ctx /\ b.ready = a.ready /\ b.node = a.node /\ b.listening = on
  BY <1>1 DEF AudioSet
<1> HIDE DEF b
<1> QED
  BY <1>1, <1>2, <1>3 DEF NodeInv

LEMMA EnsureIs ==
  ASSUME NEW m, NEW a \in AudioSet, NodeInv(a), NEW e, e = Audio!EnsureRunning(m, a)
  PROVE  e.a \in AudioSet /\ e.a.ctx = a.ctx /\ e.a.ready = a.ready /\ NodeInv(e.a) /\ Asks(e.ask, a)
<1>1. CASE ~Audio!Open(m, a.ctx)
  BY <1>1 DEF Audio!EnsureRunning, Asks
<1>2. CASE Audio!Open(m, a.ctx) /\ Audio!Runs(m, a.ctx)
  <2> DEFINE b == [a EXCEPT !.listening = FALSE]
             c == [b EXCEPT !.toast = "none"]
  <2>1. b \in AudioSet /\ b.ctx = a.ctx /\ b.ready = a.ready /\ b.node = a.node /\ b.listening = FALSE
    BY DEF AudioSet
  <2>2. e = [a |-> c, ask |-> {}]
    BY <1>2 DEF Audio!EnsureRunning, Audio!Deaf
  <2> HIDE DEF b
  <2>3. c \in AudioSet /\ c.ctx = a.ctx /\ c.ready = a.ready /\ c.node = a.node /\ c.listening = FALSE
    BY <2>1 DEF AudioSet
  <2> HIDE DEF c
  <2> QED
    BY <2>2, <2>3 DEF NodeInv, Asks
<1>3. CASE Audio!Open(m, a.ctx) /\ ~Audio!Runs(m, a.ctx)
  <2>1. e = [a |-> Audio!Armed(m, a), ask |-> {[ctx |-> a.ctx, by |-> "ensure"]}]
    BY <1>3 DEF Audio!EnsureRunning
  <2>2. [ctx |-> a.ctx, by |-> "ensure"] \in DueSet
    BY DEF AudioSet, DueSet
  <2> QED
    BY <2>1, <2>2, ArmedIs DEF Asks
<1> QED
  BY <1>1, <1>2, <1>3

LEMMA FinishedIs ==
  ASSUME NEW m, NEW a \in AudioSet, NodeInv(a), NEW p \in PageSet, NEW worklet \in BOOLEAN,
         NEW f, f = Audio!Finished(a, m, p, worklet)
  PROVE  /\ f.a \in AudioSet /\ f.a.ctx = a.ctx /\ NodeInv(f.a) /\ Asks(f.ask, a)
         /\ f.p \in PageSet /\ f.p.preloaded = p.preloaded /\ f.p.hijack = p.hijack
<1>1. CASE a.ctx = 0
  <2> DEFINE b == [a EXCEPT !.ready = FALSE]
  <2>1. b \in AudioSet /\ b.ctx = a.ctx /\ b.ready = FALSE /\ b.listening = a.listening
    BY DEF AudioSet
  <2>2. f = [a |-> b, p |-> p, ask |-> {}]
    BY <1>1 DEF Audio!Finished
  <2> HIDE DEF b
  <2> QED
    BY <2>1, <2>2 DEF NodeInv, Asks
<1>2. CASE a.ctx # 0
  <2> DEFINE own == ~worklet /\ p.dest = a.ctx
             b == [a EXCEPT !.node = a.ctx, !.worklet = worklet, !.ready = TRUE, !.element = own]
             e == IF Audio!Runs(m, a.ctx) THEN [a |-> b, ask |-> {}] ELSE Audio!EnsureRunning(m, b)
             q == [p EXCEPT !.osc = 0]
  <2>1. own \in BOOLEAN
    OBVIOUS
  <2>2. f = [a |-> e.a, p |-> q, ask |-> e.ask]
    BY <1>2 DEF Audio!Finished
  <2>3. q \in PageSet /\ q.preloaded = p.preloaded /\ q.hijack = p.hijack
    BY AudioAssumption DEF PageSet
  <2> HIDE DEF own
  <2>4. /\ b \in AudioSet /\ b.ctx = a.ctx /\ b.ready = TRUE /\ b.listening = a.listening
        /\ b.node = a.ctx
    BY <2>1 DEF AudioSet
  <2> HIDE DEF b, q
  <2>5. NodeInv(b)
    BY <1>2, <2>4 DEF NodeInv
  <2>6. e.a \in AudioSet /\ e.a.ctx = a.ctx /\ NodeInv(e.a) /\ Asks(e.ask, a)
    <3>1. CASE Audio!Runs(m, a.ctx)
      BY <2>4, <2>5, <3>1 DEF Asks
    <3>2. CASE ~Audio!Runs(m, a.ctx)
      BY <2>4, <2>5, <3>2, EnsureIs DEF Asks
    <3> QED
      BY <3>1, <3>2
  <2> HIDE DEF e
  <2> QED
    BY <2>2, <2>3, <2>6
<1> QED
  BY <1>1, <1>2

(* The context the match takes when it starts.                               *)
LEMMA TakenIs ==
  ASSUME AudioInv, stage.is = "boot", NEW t \in Audio!Taken(made, page, audio)
  PROVE  /\ Contexts(t[1]) /\ t[2] \in PageSet /\ t[3] \in AudioSet /\ NodeInv(t[3])
         /\ TwoContexts(t[1], t[2], t[3]) /\ t[3].ctx # 0 /\ (t[2].hijack = page.hijack)
         /\ DOMAIN made \subseteq DOMAIN t[1]
<1>1. /\ audio.ctx = 0 /\ ~audio.ready /\ ~audio.listening /\ page \in PageSet /\ audio \in AudioSet
      /\ Contexts(made) /\ TwoContexts(made, page, audio)
      /\ page.preloaded = 0 => page.hijack = 0
  BY DEF AudioInv, StageInv
<1>2. CASE page.preloaded # 0
  <2> DEFINE c == page.preloaded
             q == [page EXCEPT !.preloaded = 0]
             b == [audio EXCEPT !.ctx = c]
  <2>1. t = <<made, q, b>>
    BY <1>1, <1>2 DEF Audio!Taken, Audio!Open, TwoContexts, OfMatch
  <2>2. c \in 0..MaxCtx
    BY <1>1 DEF PageSet
  <2>3. q \in PageSet /\ q.preloaded = 0 /\ q.hijack = page.hijack
    BY <1>1, AudioAssumption DEF PageSet
  <2> HIDE DEF c
  <2>4. b \in AudioSet /\ b.ctx = c /\ b.ready = audio.ready /\ b.listening = audio.listening
    BY <1>1, <2>2 DEF AudioSet
  <2> HIDE DEF b, q
  <2>5. TwoContexts(made, q, b)
    BY <1>1, <1>2, <2>3, <2>4, NoContextZero DEF TwoContexts, OfMatch, c
  <2> QED
    BY <1>1, <1>2, <2>1, <2>3, <2>4, <2>5 DEF NodeInv, c
<1>3. CASE page.preloaded = 0
  <2>1. PICK n \in Audio!Constructed(made, page, "match") : t = <<n[1], n[2], [audio EXCEPT !.ctx = n[3]]>>
    BY <1>1, <1>3 DEF Audio!Taken, Audio!Open
  <2>2. n[2] = page /\ NewContext(made, "match", n)
    BY <1>1, <1>3, <2>1, MatchsContext
  <2> DEFINE c == n[3]
             b == [audio EXCEPT !.ctx = c]
  <2>3. c \in 0..MaxCtx /\ c # 0
    BY <2>2, AudioAssumption DEF NewContext
  <2>4. t = <<n[1], page, b>>
    BY <2>1, <2>2
  <2> HIDE DEF c
  <2>5. b \in AudioSet /\ b.ctx = c /\ b.ready = audio.ready /\ b.listening = audio.listening
    BY <1>1, <2>3 DEF AudioSet
  <2> HIDE DEF b
  <2>6. TwoContexts(n[1], page, b)
    BY <1>1, <1>3, <2>2, <2>3, <2>5, NoContextZero DEF TwoContexts, OfMatch, NewContext, c
  <2> QED
    BY <1>1, <2>2, <2>3, <2>4, <2>5, <2>6 DEF NodeInv, NewContext
<1> QED
  BY <1>2, <1>3

LEMMA StartKeeps == AudioInv /\ Audio!Start => AudioInv'
<1> SUFFICES ASSUME AudioInv, Audio!Start PROVE AudioInv'
  OBVIOUS
<1>1. PICK t \in Audio!Taken(made, page, audio) :
        /\ made' = t[1]
        /\ IF HasWorklet
           THEN page' = t[2] /\ audio' = t[3] /\ due' = due \cup {[ctx |-> t[3].ctx, by |-> "module"]}
           ELSE LET f == Audio!Finished(t[3], t[1], t[2], FALSE) IN
                page' = f.p /\ audio' = f.a /\ due' = due \cup f.ask
  BY DEF Audio!Start
<1>2. /\ stage \in StageSet /\ stage.is = "boot" /\ stage' = [stage EXCEPT !.is = "running"]
      /\ UNCHANGED trouble
  BY DEF AudioInv, Audio!Start
<1>3. stage' \in StageSet /\ stage'.is = "running" /\ stage'.tapped = stage.tapped
  BY <1>2 DEF StageSet
<1>4. t \in Audio!Taken(made, page, audio)
  BY <1>1
<1>5. /\ Contexts(t[1]) /\ t[2] \in PageSet /\ t[3] \in AudioSet /\ NodeInv(t[3])
      /\ TwoContexts(t[1], t[2], t[3]) /\ t[3].ctx # 0 /\ t[2].hijack = page.hijack
      /\ DOMAIN made \subseteq DOMAIN t[1]
  BY <1>2, <1>4, TakenIs
<1> DEFINE b == t[3]
<1>6. b.ctx \in DOMAIN t[1] /\ b.ctx \in 0..MaxCtx
  BY <1>5 DEF TwoContexts, OfMatch, AudioSet
<1>7. /\ page' \in PageSet /\ page'.preloaded = t[2].preloaded /\ page'.hijack = page.hijack
      /\ audio' \in AudioSet /\ NodeInv(audio') /\ audio'.ctx = b.ctx
      /\ \A d \in due' : d \in due \/ (d \in DueSet /\ d.ctx = b.ctx)
  <2>1. CASE HasWorklet
    <3>1. page' = t[2] /\ audio' = b /\ due' = due \cup {[ctx |-> b.ctx, by |-> "module"]}
      BY <1>1, <2>1
    <3>2. [ctx |-> b.ctx, by |-> "module"] \in DueSet
      BY <1>6 DEF DueSet
    <3> QED
      BY <1>5, <3>1, <3>2
  <2>2. CASE ~HasWorklet
    <3> DEFINE m == t[1]
               p == t[2]
               w == FALSE
               f == Audio!Finished(b, m, p, w)
    <3>1. page' = f.p /\ audio' = f.a /\ due' = due \cup f.ask
      BY <1>1, <2>2
    <3>2. b \in AudioSet /\ NodeInv(b) /\ p \in PageSet /\ w \in BOOLEAN
      BY <1>5
    <3> HIDE DEF b, m, p, w
    <3>3. /\ f.a \in AudioSet /\ f.a.ctx = b.ctx /\ NodeInv(f.a) /\ Asks(f.ask, b)
          /\ f.p \in PageSet /\ f.p.preloaded = p.preloaded /\ f.p.hijack = p.hijack
      BY <3>2, FinishedIs
    <3> HIDE DEF f
    <3> QED
      BY <1>5, <3>1, <3>3 DEF Asks, b, p
  <2> QED
    BY <2>1, <2>2
<1>8. TwoContexts(made', page', audio')
  BY <1>1, <1>5, <1>7 DEF TwoContexts
<1>9. \A d \in due' : d \in DueSet /\ (d.ctx # 0 => d.ctx \in DOMAIN made')
  BY <1>1, <1>5, <1>6, <1>7 DEF AudioInv
<1>10. StageInv(stage', page', audio')
  BY <1>3, <1>7 DEF StageInv, AudioInv
<1> QED
  BY <1>1, <1>2, <1>3, <1>5, <1>7, <1>8, <1>9, <1>10 DEF AudioInv

LEMMA ModuleSettlesKeeps == AudioInv /\ Audio!ModuleSettles => AudioInv'
<1> SUFFICES ASSUME AudioInv, Audio!ModuleSettles PROVE AudioInv'
  OBVIOUS
<1>1. PICK d \in due, ok \in BOOLEAN :
        LET f == Audio!Finished(audio, made, page, ok) IN
        page' = f.p /\ audio' = f.a /\ due' = (due \ {d}) \cup f.ask
  BY DEF Audio!ModuleSettles
<1>2. UNCHANGED <<made, stage, trouble>>
  BY DEF Audio!ModuleSettles
<1> DEFINE f == Audio!Finished(audio, made, page, ok)
<1>3. page' = f.p /\ audio' = f.a /\ due' = (due \ {d}) \cup f.ask
  BY <1>1
<1>4. ok \in BOOLEAN /\ audio \in AudioSet /\ NodeInv(audio) /\ page \in PageSet
  BY <1>1 DEF AudioInv
<1>5. /\ f.a \in AudioSet /\ f.a.ctx = audio.ctx /\ NodeInv(f.a) /\ Asks(f.ask, audio)
      /\ f.p \in PageSet /\ f.p.preloaded = page.preloaded /\ f.p.hijack = page.hijack
  BY <1>4, FinishedIs
<1> HIDE DEF f
<1>6. due' \subseteq DueSet /\ \A b \in due' : b \in due \/ b.ctx = audio.ctx
  BY <1>3, <1>5 DEF AudioInv, Asks
<1>7. SameContexts(made, made') /\ trouble' \in 0..AudioTrouble
  BY <1>2, SameIsSame DEF AudioInv
<1> QED
  BY <1>2, <1>3, <1>5, <1>6, <1>7, AudioKeeps

(* Steps that change only the variables of kn-audio.js and what it waits for.  *)
LEMMA OnlyAudioKeeps ==
  ASSUME AudioInv, UNCHANGED <<made, page, stage, trouble>>, audio' \in AudioSet, audio'.ctx = audio.ctx,
         NodeInv(audio'), \A d \in due' : d \in due \/ (d \in DueSet /\ d.ctx = audio.ctx)
  PROVE  AudioInv'
<1>1. due' \subseteq DueSet /\ page' \in PageSet /\ trouble' \in 0..AudioTrouble
  BY DEF AudioInv
<1>2. SameContexts(made, made')
  BY SameIsSame
<1> QED
  BY <1>1, <1>2, AudioKeeps

LEMMA ToastKeeps ==
  ASSUME NEW a \in AudioSet, NodeInv(a), NEW x \in {"none", "blocked", "interrupted"}
  PROVE  /\ [a EXCEPT !.toast = x] \in AudioSet /\ [a EXCEPT !.toast = x].ctx = a.ctx
         /\ NodeInv([a EXCEPT !.toast = x])
<1> DEFINE b == [a EXCEPT !.toast = x]
<1>1. b \in AudioSet /\ b.ctx = a.ctx /\ b.ready = a.ready /\ b.node = a.node /\ b.listening = a.listening
  BY DEF AudioSet
<1> HIDE DEF b
<1>2. NodeInv(b)
  BY <1>1 DEF NodeInv
<1> QED
  BY <1>1, <1>2 DEF b

LEMMA ToldIs ==
  ASSUME NEW a \in AudioSet, NodeInv(a)
  PROVE  Audio!Told(a) \in AudioSet /\ Audio!Told(a).ctx = a.ctx /\ NodeInv(Audio!Told(a))
<1> DEFINE x == IF a.toast = "none" THEN "blocked" ELSE a.toast
<1>1. x \in {"none", "blocked", "interrupted"}
  BY DEF AudioSet
<1> DEFINE b == [a EXCEPT !.toast = x]
<1>2. Audio!Told(a) = b
  BY DEF Audio!Told
<1> HIDE DEF x
<1>3. b \in AudioSet /\ b.ctx = a.ctx /\ NodeInv(b)
  BY <1>1, ToastKeeps
<1> HIDE DEF b
<1> QED
  BY <1>2, <1>3

LEMMA AskingKeeps ==
  ASSUME AudioInv, UNCHANGED <<made, page, stage, trouble>>, NEW e, e = Audio!EnsureRunning(made, audio),
         audio' = Audio!Told(e.a), due' = due \cup e.ask
  PROVE  AudioInv'
<1>1. e.a \in AudioSet /\ e.a.ctx = audio.ctx /\ NodeInv(e.a) /\ Asks(e.ask, audio)
  BY EnsureIs DEF AudioInv
<1>2. audio' \in AudioSet /\ audio'.ctx = audio.ctx /\ NodeInv(audio')
  BY <1>1, ToldIs
<1> QED
  BY <1>1, <1>2, OnlyAudioKeeps DEF Asks

LEMMA FeedBlockedKeeps == AudioInv /\ Audio!FeedBlocked => AudioInv'
BY AskingKeeps DEF Audio!FeedBlocked

LEMMA VisibleKeeps == AudioInv /\ Audio!Visible => AudioInv'
BY AskingKeeps DEF Audio!Visible

LEMMA RecoveryIs ==
  ASSUME NEW m, NEW a \in AudioSet, NodeInv(a)
  PROVE  /\ Audio!Recovery(m, a) \in AudioSet /\ Audio!Recovery(m, a).ctx = a.ctx
         /\ NodeInv(Audio!Recovery(m, a))
<1> DEFINE n == IF a.tries < Attempts THEN a.tries + 1 ELSE a.tries
           b == [a EXCEPT !.zombie = TRUE, !.tries = n]
<1>1. n \in 0..Attempts
  BY AudioAssumption DEF AudioSet
<1>2. Audio!Recovery(m, a) =
        IF b.tries = Attempts /\ b.toast = "none" THEN Audio!Armed(m, [b EXCEPT !.toast = "interrupted"]) ELSE b
  BY DEF Audio!Recovery
<1> HIDE DEF n
<1>3. b \in AudioSet /\ b.ctx = a.ctx /\ b.ready = a.ready /\ b.node = a.node /\ b.listening = a.listening
  BY <1>1 DEF AudioSet
<1> HIDE DEF b
<1>4. NodeInv(b)
  BY <1>3 DEF NodeInv
<1> DEFINE c == [b EXCEPT !.toast = "interrupted"]
<1>5. c \in AudioSet /\ c.ctx = b.ctx /\ NodeInv(c)
  BY <1>3, <1>4, ToastKeeps
<1> HIDE DEF c
<1>6. Audio!Armed(m, c) \in AudioSet /\ Audio!Armed(m, c).ctx = c.ctx /\ NodeInv(Audio!Armed(m, c))
  BY <1>5, ArmedIs
<1> QED
  BY <1>2, <1>3, <1>4, <1>5, <1>6 DEF c

LEMMA FeedStalledKeeps == AudioInv /\ Audio!FeedStalled => AudioInv'
<1> SUFFICES ASSUME AudioInv, Audio!FeedStalled PROVE AudioInv'
  OBVIOUS
<1>1. /\ UNCHANGED <<made, page, stage, trouble>> /\ audio' = Audio!Recovery(made, audio)
      /\ due' = due \cup {[ctx |-> audio.ctx, by |-> "suspend"]}
  BY DEF Audio!FeedStalled
<1>2. audio' \in AudioSet /\ audio'.ctx = audio.ctx /\ NodeInv(audio')
  BY <1>1, RecoveryIs DEF AudioInv
<1>3. [ctx |-> audio.ctx, by |-> "suspend"] \in DueSet
  BY DEF AudioInv, AudioSet, DueSet
<1> QED
  BY <1>1, <1>2, <1>3, OnlyAudioKeeps

LEMMA FeedHeardKeeps == AudioInv /\ Audio!FeedHeard => AudioInv'
<1> SUFFICES ASSUME AudioInv, Audio!FeedHeard PROVE AudioInv'
  OBVIOUS
<1>1. UNCHANGED <<made, page, due, stage, trouble>>
      /\ audio' = [audio EXCEPT !.zombie = FALSE, !.tries = 0, !.toast = "none"]
  BY DEF Audio!FeedHeard
<1>2. audio \in AudioSet /\ NodeInv(audio)
  BY DEF AudioInv
<1> DEFINE b == [audio EXCEPT !.zombie = FALSE, !.tries = 0]
           c == [b EXCEPT !.toast = "none"]
<1>3. 0 \in 0..Attempts
  BY AudioAssumption
<1>4. /\ b \in AudioSet /\ b.ctx = audio.ctx /\ b.ready = audio.ready
      /\ b.node = audio.node /\ b.listening = audio.listening
  BY <1>2, <1>3 DEF AudioSet
<1>5. audio' = c
  BY <1>1
<1> HIDE DEF b
<1>6. NodeInv(b)
  BY <1>2, <1>4 DEF NodeInv
<1>7. c \in AudioSet /\ c.ctx = b.ctx /\ NodeInv(c)
  BY <1>4, <1>6, ToastKeeps
<1> HIDE DEF c
<1> QED
  BY <1>1, <1>4, <1>5, <1>7, OnlyAudioKeeps

LEMMA DeafIs ==
  ASSUME NEW a \in AudioSet, NodeInv(a)
  PROVE  Audio!Deaf(a) \in AudioSet /\ Audio!Deaf(a).ctx = a.ctx /\ NodeInv(Audio!Deaf(a))
<1> DEFINE b == [a EXCEPT !.listening = FALSE]
<1>1. b \in AudioSet /\ b.ctx = a.ctx /\ b.ready = a.ready /\ b.node = a.node /\ b.listening = FALSE
  BY DEF AudioSet
<1>2. Audio!Deaf(a) = b
  BY DEF Audio!Deaf
<1> HIDE DEF b
<1> QED
  BY <1>1, <1>2 DEF NodeInv

LEMMA TapKeeps == AudioInv /\ Audio!Tap => AudioInv'
<1> SUFFICES ASSUME AudioInv, Audio!Tap PROVE AudioInv'
  OBVIOUS
<1>1. /\ UNCHANGED <<made, page, stage, trouble>>
      /\ \/ audio' = Audio!Deaf(audio) /\ UNCHANGED due
         \/ due' = due \cup {[ctx |-> audio.ctx, by |-> "tap"]} /\ UNCHANGED audio
  BY DEF Audio!Tap
<1>2. audio \in AudioSet /\ NodeInv(audio)
  BY DEF AudioInv
<1>3. audio' \in AudioSet /\ audio'.ctx = audio.ctx /\ NodeInv(audio')
  BY <1>1, <1>2, DeafIs
<1>4. [ctx |-> audio.ctx, by |-> "tap"] \in DueSet
  BY <1>2 DEF AudioSet, DueSet
<1> QED
  BY <1>1, <1>3, <1>4, OnlyAudioKeeps

(* Steps of one context: suspended, resumed, its clock stopped.               *)
LEMMA ContextKeeps ==
  ASSUME AudioInv, NEW c \in DOMAIN made, made[c].state # "closed",
         NEW x \in CtxSet, x.kind = made[c].kind, x.state # "closed",
         made' = [made EXCEPT ![c] = x], UNCHANGED <<page, stage>>, trouble' \in 0..AudioTrouble,
         audio' \in AudioSet, audio'.ctx = audio.ctx, NodeInv(audio'),
         due' \subseteq DueSet, \A d \in due' : \E b \in due : b.ctx = d.ctx
  PROVE  AudioInv'
<1>1. SameContexts(made, made')
  BY OneContextChanges DEF AudioInv
<1>2. page' \in PageSet /\ page'.preloaded = page.preloaded /\ page'.hijack = page.hijack
  BY DEF AudioInv
<1> QED
  BY <1>1, <1>2, AudioKeeps

LEMMA ContextTyped ==
  ASSUME AudioInv, NEW c \in DOMAIN made
  PROVE  made[c] \in CtxSet
BY ContextsCounted DEF AudioInv

LEMMA SuspendSettlesKeeps == AudioInv /\ Audio!SuspendSettles => AudioInv'
<1> SUFFICES ASSUME AudioInv, Audio!SuspendSettles PROVE AudioInv'
  OBVIOUS
<1>1. PICK d \in due :
        /\ due' = (due \ {d}) \cup (IF Audio!Open(made, d.ctx) THEN {[ctx |-> d.ctx, by |-> "recovery"]} ELSE {})
        /\ made' = IF Audio!Open(made, d.ctx) THEN [made EXCEPT ![d.ctx].state = "suspended"] ELSE made
  BY DEF Audio!SuspendSettles
<1>2. UNCHANGED <<page, audio, stage, trouble>>
  BY DEF Audio!SuspendSettles
<1>3. audio \in AudioSet /\ NodeInv(audio) /\ trouble \in 0..AudioTrouble /\ due \subseteq DueSet /\ d \in due
  BY <1>1 DEF AudioInv
<1>4. CASE ~Audio!Open(made, d.ctx)
  <2>1. UNCHANGED <<made, page, stage, trouble>> /\ due' \subseteq due
    BY <1>1, <1>2, <1>4
  <2> QED
    BY <1>2, <1>3, <2>1, OnlyAudioKeeps
<1>5. CASE Audio!Open(made, d.ctx)
  <2> DEFINE c == d.ctx
             x == [made[c] EXCEPT !.state = "suspended"]
             q == [ctx |-> c, by |-> "recovery"]
  <2>1. c \in DOMAIN made /\ made[c].state # "closed"
    BY <1>3, <1>5 DEF AudioInv, Audio!Open
  <2>2. made' = [made EXCEPT ![c] = x] /\ due' = (due \ {d}) \cup {q}
    BY <1>1, <1>5
  <2>3. c \in 0..MaxCtx
    BY <1>3 DEF DueSet
  <2> HIDE DEF c
  <2>4. x \in CtxSet /\ x.kind = made[c].kind /\ x.state # "closed"
    BY <2>1, ContextTyped DEF CtxSet
  <2>5. q \in DueSet /\ q.ctx = c
    BY <2>3 DEF DueSet
  <2> HIDE DEF x, q
  <2>6. due' \subseteq DueSet /\ \A e \in due' : \E b \in due : b.ctx = e.ctx
    BY <1>3, <2>2, <2>5 DEF c
  <2> QED
    BY <1>2, <1>3, <2>1, <2>2, <2>4, <2>6, ContextKeeps
<1> QED
  BY <1>4, <1>5

LEMMA ResumedIs ==
  ASSUME NEW m, NEW a \in AudioSet, NodeInv(a), NEW by
  PROVE  Audio!Resumed(m, a, by) \in AudioSet /\ Audio!Resumed(m, a, by).ctx = a.ctx
         /\ NodeInv(Audio!Resumed(m, a, by))
<1> DEFINE b == Audio!Deaf(a)
           c == [b EXCEPT !.toast = "none"]
<1>1. b \in AudioSet /\ b.ctx = a.ctx /\ NodeInv(b)
  BY DeafIs
<1>2. Audio!Resumed(m, a, by) = IF by \in {"ensure", "tap"} /\ Audio!Runs(m, a.ctx) THEN c ELSE a
  BY DEF Audio!Resumed
<1> HIDE DEF b
<1>3. c \in AudioSet /\ c.ctx = b.ctx /\ NodeInv(c)
  BY <1>1, ToastKeeps
<1> HIDE DEF c
<1> QED
  BY <1>1, <1>2, <1>3

LEMMA ResumeSettlesKeeps == AudioInv /\ Audio!ResumeSettles => AudioInv'
<1> SUFFICES ASSUME AudioInv, Audio!ResumeSettles PROVE AudioInv'
  OBVIOUS
<1>1. PICK d \in due, runs \in BOOLEAN, ticks \in BOOLEAN :
        /\ due' = due \ {d}
        /\ made' = IF runs /\ Audio!Open(made, d.ctx)
                   THEN [made EXCEPT ![d.ctx].state = "running", ![d.ctx].ticks = ticks] ELSE made
        /\ audio' = IF runs THEN Audio!Resumed(made', audio, d.by) ELSE audio
  BY DEF Audio!ResumeSettles
<1>2. UNCHANGED <<page, stage, trouble>>
  BY DEF Audio!ResumeSettles
<1>3. audio \in AudioSet /\ NodeInv(audio) /\ trouble \in 0..AudioTrouble /\ due \subseteq DueSet /\ d \in due
  BY <1>1 DEF AudioInv
<1>4. audio' \in AudioSet /\ audio'.ctx = audio.ctx /\ NodeInv(audio')
  <2>1. CASE runs
    BY <1>1, <1>3, <2>1, ResumedIs
  <2>2. CASE ~runs
    BY <1>1, <1>3, <2>2
  <2> QED
    BY <2>1, <2>2
<1>5. due' \subseteq due /\ due' \subseteq DueSet
  BY <1>1, <1>3
<1>6. CASE ~(runs /\ Audio!Open(made, d.ctx))
  <2>1. UNCHANGED <<made, page, stage, trouble>>
    BY <1>1, <1>2, <1>6
  <2> QED
    BY <1>4, <1>5, <2>1, OnlyAudioKeeps
<1>7. CASE runs /\ Audio!Open(made, d.ctx)
  <2> DEFINE c == d.ctx
             x == [made[c] EXCEPT !.state = "running", !.ticks = ticks]
  <2>1. c \in DOMAIN made /\ made[c].state # "closed"
    BY <1>3, <1>7 DEF AudioInv, Audio!Open
  <2>2. made' = [made EXCEPT ![c] = x]
    BY <1>1, <1>7, <2>1, ContextsCounted DEF AudioInv
  <2>3. ticks \in BOOLEAN
    BY <1>1
  <2> HIDE DEF c
  <2>4. x \in CtxSet /\ x.kind = made[c].kind /\ x.state # "closed"
    BY <2>1, <2>3, ContextTyped DEF CtxSet
  <2> HIDE DEF x
  <2> QED
    BY <1>2, <1>3, <1>4, <1>5, <2>1, <2>2, <2>4, ContextKeeps
<1> QED
  BY <1>6, <1>7

LEMMA InterruptedKeeps == AudioInv /\ Audio!Interrupted => AudioInv'
<1> SUFFICES ASSUME AudioInv, Audio!Interrupted PROVE AudioInv'
  OBVIOUS
<1>1. PICK c \in {audio.ctx, page.preloaded} :
        /\ Audio!Runs(made, c)
        /\ \/ made' = [made EXCEPT ![c].state = "suspended"]
           \/ made' = [made EXCEPT ![c].ticks = FALSE]
  BY DEF Audio!Interrupted
<1>2. UNCHANGED <<page, audio, due, stage>> /\ trouble' \in 0..AudioTrouble
  BY AudioAssumption DEF Audio!Interrupted, AudioInv
<1>3. c \in DOMAIN made /\ made[c].state = "running"
  BY <1>1 DEF AudioInv, TwoContexts, OfMatch, Audio!Runs
<1>4. audio \in AudioSet /\ NodeInv(audio) /\ due \subseteq DueSet /\ made[c] \in CtxSet
  BY <1>3, ContextTyped DEF AudioInv
<1>5. CASE made' = [made EXCEPT ![c].state = "suspended"]
  <2> DEFINE x == [made[c] EXCEPT !.state = "suspended"]
  <2>1. made' = [made EXCEPT ![c] = x]
    BY <1>5
  <2>2. x \in CtxSet /\ x.kind = made[c].kind /\ x.state # "closed"
    BY <1>4 DEF CtxSet
  <2> HIDE DEF x
  <2> QED
    BY <1>2, <1>3, <1>4, <2>1, <2>2, ContextKeeps
<1>6. CASE made' = [made EXCEPT ![c].ticks = FALSE]
  <2> DEFINE x == [made[c] EXCEPT !.ticks = FALSE]
  <2>1. made' = [made EXCEPT ![c] = x]
    BY <1>6
  <2>2. x \in CtxSet /\ x.kind = made[c].kind /\ x.state = made[c].state
    BY <1>4 DEF CtxSet
  <2> HIDE DEF x
  <2> QED
    BY <1>2, <1>3, <1>4, <2>1, <2>2, ContextKeeps
<1> QED
  BY <1>1, <1>5, <1>6

(* The end closes the context of the match, and leaves the one made in advance. *)
LEMMA CleanedIs ==
  ASSUME AudioInv, NEW m, m = Audio!Cleaned(made, audio)
  PROVE  /\ Contexts(m) /\ DOMAIN m = DOMAIN made
         /\ \A c \in DOMAIN made : OfMatch(m, c) <=> OfMatch(made, c) /\ c # audio.ctx
<1>1. PICK k \in 0..MaxCtx : made \in [1..k -> CtxSet]
  BY DEF AudioInv, Contexts
<1>2. CASE audio.ctx = 0
  BY <1>1, <1>2, NoContextZero DEF Audio!Cleaned, AudioInv
<1>3. CASE audio.ctx # 0
  <2> DEFINE c == audio.ctx
             x == [made[c] EXCEPT !.state = "closed"]
  <2>1. c \in DOMAIN made
    BY <1>3 DEF AudioInv, TwoContexts, OfMatch
  <2>2. m = [made EXCEPT ![c] = x]
    BY <1>3 DEF Audio!Cleaned
  <2> HIDE DEF c
  <2>3. x \in CtxSet /\ x.state = "closed"
    BY <2>1, ContextTyped DEF CtxSet
  <2> HIDE DEF x
  <2>4. m \in [1..k -> CtxSet] /\ DOMAIN m = DOMAIN made
    BY <1>1, <2>2, <2>3
  <2>5. \A i \in DOMAIN made : m[i] = IF i = c THEN x ELSE made[i]
    BY <1>1, <2>2
  <2>6. Contexts(m)
    BY <1>1, <2>4 DEF Contexts
  <2>7. \A i \in DOMAIN made : OfMatch(m, i) <=> OfMatch(made, i) /\ i # c
    BY <2>3, <2>4, <2>5 DEF OfMatch
  <2> QED
    BY <2>4, <2>6, <2>7 DEF c
<1> QED
  BY <1>2, <1>3

LEMMA StopKeeps == AudioInv /\ Audio!Stop => AudioInv'
<1> SUFFICES ASSUME AudioInv, Audio!Stop PROVE AudioInv'
  OBVIOUS
<1>1. /\ made' = Audio!Cleaned(made, audio) /\ audio' = Audio!Silent /\ page' = Audio!Restored(page)
      /\ due' \subseteq due /\ stage' = Audio!NoMatch /\ trouble' = trouble
  BY DEF Audio!Stop
<1>2. /\ Contexts(made') /\ DOMAIN made' = DOMAIN made
      /\ \A c \in DOMAIN made : OfMatch(made', c) <=> OfMatch(made, c) /\ c # audio.ctx
  BY <1>1, CleanedIs
<1>3. 0 \in 0..MaxCtx /\ 0 \in 0..Attempts
  BY AudioAssumption
<1>4. audio' \in AudioSet /\ audio'.ctx = 0 /\ ~audio'.ready /\ ~audio'.listening /\ NodeInv(audio')
  BY <1>1, <1>3 DEF Audio!Silent, AudioSet, NodeInv
<1>5. page \in PageSet
  BY DEF AudioInv
<1>6. page' \in PageSet /\ page'.preloaded = page.preloaded /\ page'.hijack = 0
  BY <1>1, <1>3, <1>5 DEF Audio!Restored, PageSet
<1>7. stage' \in StageSet /\ stage'.is = "none" /\ ~stage'.tapped
  BY <1>1 DEF Audio!NoMatch, StageSet
<1>8. TwoContexts(made', page', audio')
  <2>1. \A c \in DOMAIN made' : OfMatch(made', c) => c = page'.preloaded
    BY <1>2, <1>6 DEF AudioInv, TwoContexts
  <2>2. page.preloaded # 0 => page.preloaded \in DOMAIN made /\ OfMatch(made, page.preloaded)
                              /\ page.preloaded # audio.ctx
    BY DEF AudioInv, TwoContexts, OfMatch
  <2>3. page'.preloaded # 0 => OfMatch(made', page'.preloaded) /\ page'.preloaded # audio'.ctx
    BY <1>2, <1>4, <1>6, <2>2
  <2> QED
    BY <1>4, <1>6, <2>1, <2>3 DEF TwoContexts
<1>9. StageInv(stage', page', audio')
  BY <1>4, <1>6, <1>7 DEF StageInv
<1> QED
  BY <1>1, <1>2, <1>4, <1>6, <1>7, <1>8, <1>9 DEF AudioInv

LEMMA AudioStep == AudioInv /\ [Audio!Next]_Audio!audioVars => AudioInv'
<1> SUFFICES ASSUME AudioInv, [Audio!Next]_Audio!audioVars PROVE AudioInv'
  OBVIOUS
<1>1. CASE UNCHANGED Audio!audioVars
  BY <1>1 DEF Audio!audioVars, AudioInv
<1> QED
  BY <1>1, PreloadKeeps, BootKeeps, PromptTapKeeps, EmulatorBuiltKeeps, StartKeeps, ModuleSettlesKeeps,
     FeedBlockedKeeps, FeedStalledKeeps, FeedHeardKeeps, SuspendSettlesKeeps, ResumeSettlesKeeps, TapKeeps,
     VisibleKeeps, InterruptedKeeps, StopKeeps DEF Audio!Next

AudioPart == part = "audio" => AudioInv

LEMMA AudioPartInit == PageInit => AudioPart
BY AudioInit DEF PageInit, AudioPart

LEMMA AudioPartStep == AudioPart /\ [PageNext]_pageVars => AudioPart'
<1> SUFFICES ASSUME AudioPart, [PageNext]_pageVars, part' = "audio" PROVE AudioInv'
  BY DEF AudioPart
<1>1. part = "audio"
  BY DEF PageNext, pageVars, Keep8, Keep7, Keep6, Keep5, Keep4
<1>2. Audio!Next \/ UNCHANGED Audio!audioVars
  BY <1>1 DEF PageNext, pageVars, Audio!audioVars
<1> QED
  BY <1>1, <1>2, AudioStep DEF AudioPart

(* However the taps, the boots, the module that loads, the stops and the       *)
(* browser's suspensions interleave: a match plays through a context of its    *)
(* own that is open, no third one stays open, and nobody listens for a tap     *)
(* once it is gone.                                                         *)
THEOREM AudioStaysSound == PageSpec => []AudioSound
<1>1. AudioPart => AudioSound
  BY AudioTypes DEF AudioPart, AudioSound
<1> QED
  BY <1>1, AudioPartInit, AudioPartStep, PTL DEF PageSpec

HIDE DEF made, page, audio, due, stage, trouble


(***************************************************************************)
(* FrameRunner: running one frame of the core.                             *)
(***************************************************************************)

manual == v1
runner == v2
core   == v3
loop   == v4   (* main *)
ghost  == v5
USE DEF manual, runner, core, loop, ghost

RunnerState == [runner : Runner!Runners, core : Runner!Core, main : Runner!Main, ghost : Runner!Ghost]

(* The match ends at most once, and with it the tick.                         *)
OneEnd(s) == s.ghost.ended = (IF s.main.fatal THEN 1 ELSE 0) /\ (s.main.fatal => ~s.main.ticking)

(* From s to t the core has run n frames, unless one was torn, and neither    *)
(* the engine nor the tick has moved.                                       *)
Ran(s, t, n) ==
  /\ t \in RunnerState /\ t.core = s.core
  /\ t.main.frame = s.main.frame /\ t.main.engine = s.main.engine /\ t.main.logged = s.main.logged
  /\ t.main.hidden = s.main.hidden /\ t.main.throws = s.main.throws
  /\ t.ghost.counted = s.ghost.counted
  /\ ~t.ghost.torn => ~s.ghost.torn /\ t.ghost.ran = s.ghost.ran + n
  /\ OneEnd(s) => OneEnd(t)

(* A result of a step says whether a frame ran.                              *)
Says(s, r) == IF r[2] THEN Ran(s, r[1], 1) ELSE Ran(s, r[1], 0)

LEMMA RanTwice ==
  ASSUME NEW s \in RunnerState, NEW t, NEW u, NEW n \in {0, 1}, Ran(s, t, 0), Ran(t, u, n)
  PROVE  Ran(s, u, n)
BY DEF Ran, RunnerState, Runner!Ghost

LEMMA TroubledIs ==
  ASSUME NEW s \in RunnerState, Runner!Trouble(s)
  PROVE  Ran(s, Runner!Troubled(s), 0) /\ Runner!Troubled(s).runner = s.runner
<1> DEFINE n == s.ghost.trouble + 1
           g == [s.ghost EXCEPT !.trouble = n]
           t == [s EXCEPT !.ghost = g]
<1>1. n \in 0..RunnerTrouble
  BY RunnerAssumption DEF Runner!Trouble, RunnerState, Runner!Ghost
<1>2. Runner!Troubled(s) = t
  BY DEF Runner!Troubled
<1> HIDE DEF n
<1>3. /\ g \in Runner!Ghost /\ g.ran = s.ghost.ran /\ g.counted = s.ghost.counted
      /\ g.torn = s.ghost.torn /\ g.ended = s.ghost.ended
  BY <1>1 DEF RunnerState, Runner!Ghost
<1> HIDE DEF g
<1>4. t \in RunnerState /\ t.runner = s.runner /\ t.core = s.core /\ t.main = s.main /\ t.ghost = g
  BY <1>3 DEF RunnerState
<1>5. s.ghost.ran \in Nat
  BY DEF RunnerState, Runner!Ghost
<1> HIDE DEF t
<1>6. Ran(s, t, 0)
  BY <1>3, <1>4, <1>5 DEF Ran, OneEnd
<1> QED
  BY <1>2, <1>4, <1>6

LEMMA WithRunner ==
  ASSUME NEW s \in RunnerState, NEW r \in Runner!Runners
  PROVE  Ran(s, [s EXCEPT !.runner = r], 0) /\ [s EXCEPT !.runner = r].runner = r
<1> DEFINE t == [s EXCEPT !.runner = r]
<1>1. t \in RunnerState /\ t.runner = r /\ t.core = s.core /\ t.main = s.main /\ t.ghost = s.ghost
  BY DEF RunnerState
<1>2. s.ghost.ran \in Nat
  BY DEF RunnerState, Runner!Ghost
<1> HIDE DEF t
<1>3. Ran(s, t, 0)
  BY <1>1, <1>2 DEF Ran, OneEnd
<1> QED
  BY <1>1, <1>3 DEF t

LEMMA RecapturedIs ==
  ASSUME NEW s \in RunnerState, NEW t \in Runner!Recaptured(s)
  PROVE  Ran(s, t, 0)
<1> USE DEF Runner!Runners
<1>1. CASE t = [s EXCEPT !.runner = "good"]
  BY <1>1, WithRunner
<1>2. CASE Runner!Trouble(s) /\ t = [Runner!Troubled(s) EXCEPT !.runner = "none"]
  <2> DEFINE u == Runner!Troubled(s)
  <2>1. Ran(s, u, 0)
    BY <1>2, TroubledIs
  <2> HIDE DEF u
  <2>2. u \in RunnerState
    BY <2>1 DEF Ran
  <2>3. t = [u EXCEPT !.runner = "none"]
    BY <1>2 DEF u
  <2>4. Ran(u, t, 0)
    BY <2>2, <2>3, WithRunner
  <2> QED
    BY <2>1, <2>4, RanTwice
<1> QED
  BY <1>1, <1>2 DEF Runner!Recaptured

(* The runner that is called: it runs a frame, or it was a stale one.          *)
LEMMA RunCapturedIs ==
  ASSUME NEW s \in RunnerState, NEW t \in Runner!RunCaptured(s)
  PROVE  IF Runner!Emulated(s, t) THEN Ran(s, t, 1) ELSE Ran(s, t, 0)
<1>0. s.ghost.ran \in Nat /\ s.ghost \in Runner!Ghost
  BY DEF RunnerState, Runner!Ghost
<1>1. CASE s.runner = "good"
  <2>1. PICK r \in {"good", "none"} : t = [s EXCEPT !.runner = r, !.ghost.ran = s.ghost.ran + 1]
    BY <1>1 DEF Runner!RunCaptured
  <2> DEFINE n == s.ghost.ran + 1
             g == [s.ghost EXCEPT !.ran = n]
  <2>2. n \in Nat /\ n = s.ghost.ran + 1 /\ n # s.ghost.ran
    BY <1>0
  <2>3. t = [s EXCEPT !.runner = r, !.ghost = g]
    BY <2>1
  <2> HIDE DEF n
  <2>4. /\ g \in Runner!Ghost /\ g.ran = n /\ g.counted = s.ghost.counted
        /\ g.torn = s.ghost.torn /\ g.ended = s.ghost.ended
    BY <1>0, <2>2 DEF Runner!Ghost
  <2> HIDE DEF g
  <2>5. r \in Runner!Runners
    BY DEF Runner!Runners
  <2>6. t \in RunnerState /\ t.core = s.core /\ t.main = s.main /\ t.ghost = g
    BY <2>3, <2>4, <2>5 DEF RunnerState
  <2>7. Ran(s, t, 1)
    BY <2>2, <2>4, <2>6 DEF Ran, OneEnd
  <2>8. Runner!Emulated(s, t)
    BY <2>2, <2>4, <2>6 DEF Runner!Emulated
  <2> QED
    BY <2>7, <2>8
<1>2. CASE s.runner # "good"
  <2>1. t = [s EXCEPT !.runner = "none"]
    BY <1>2 DEF Runner!RunCaptured
  <2>2. Ran(s, t, 0) /\ t.runner = "none"
    BY <2>1, WithRunner DEF Runner!Runners
  <2>3. t.ghost = s.ghost
    BY <2>1 DEF RunnerState
  <2>4. ~Runner!Emulated(s, t)
    BY <2>2, <2>3 DEF Runner!Emulated
  <2> QED
    BY <2>2, <2>4
<1> QED
  BY <1>1, <1>2

LEMMA SecondTryIs ==
  ASSUME NEW s \in RunnerState, NEW r \in Runner!SecondTry(s)
  PROVE  Says(s, r)
<1>1. CASE s.runner = "none"
  <2>1. r = <<s, FALSE>>
    BY <1>1 DEF Runner!SecondTry
  <2>2. Ran(s, s, 0)
    BY DEF Ran, RunnerState, Runner!Ghost
  <2> QED
    BY <2>1, <2>2 DEF Says
<1>2. CASE s.runner # "none"
  <2>1. PICK t \in Runner!RunCaptured(s) : r = <<t, Runner!Emulated(s, t)>>
    BY <1>2 DEF Runner!SecondTry
  <2>2. IF Runner!Emulated(s, t) THEN Ran(s, t, 1) ELSE Ran(s, t, 0)
    BY <2>1, RunCapturedIs
  <2> QED
    BY <2>1, <2>2 DEF Says
<1> QED
  BY <1>1, <1>2

LEMMA SaysTwice ==
  ASSUME NEW s \in RunnerState, NEW t, NEW r, Ran(s, t, 0), Says(t, r)
  PROVE  Says(s, r)
BY RanTwice DEF Says

LEMMA StepOneFrameIs ==
  ASSUME NEW s \in RunnerState, NEW r \in Runner!StepOneFrame(s)
  PROVE  Says(s, r)
<1>1. PICK u \in IF s.runner = "none" THEN Runner!Recaptured(s) ELSE {s} :
        r \in IF u.runner = "none" THEN {<<u, FALSE>>}
              ELSE UNION {IF Runner!Emulated(u, t) THEN {<<t, TRUE>>}
                          ELSE UNION {Runner!SecondTry(w) : w \in Runner!Recaptured(t)}
                          : t \in Runner!RunCaptured(u)}
  BY DEF Runner!StepOneFrame
<1>2. Ran(s, u, 0)
  <2>1. Ran(s, s, 0)
    BY DEF Ran, RunnerState, Runner!Ghost
  <2> QED
    BY <1>1, <2>1, RecapturedIs
<1>3. u \in RunnerState
  BY <1>2 DEF Ran
<1>4. CASE u.runner = "none"
  <2>1. r = <<u, FALSE>>
    BY <1>1, <1>4
  <2> QED
    BY <1>2, <2>1 DEF Says
<1>5. CASE u.runner # "none"
  <2>1. PICK t \in Runner!RunCaptured(u) :
          r \in IF Runner!Emulated(u, t) THEN {<<t, TRUE>>}
                ELSE UNION {Runner!SecondTry(w) : w \in Runner!Recaptured(t)}
    BY <1>1, <1>5
  <2>2. IF Runner!Emulated(u, t) THEN Ran(u, t, 1) ELSE Ran(u, t, 0)
    BY <1>3, <2>1, RunCapturedIs
  <2>3. CASE Runner!Emulated(u, t)
    <3>1. r = <<t, TRUE>> /\ Ran(u, t, 1)
      BY <2>1, <2>2, <2>3
    <3>2. Ran(s, t, 1)
      BY <1>2, <3>1, RanTwice
    <3> QED
      BY <3>1, <3>2 DEF Says
  <2>4. CASE ~Runner!Emulated(u, t)
    <3>1. PICK w \in Runner!Recaptured(t) : r \in Runner!SecondTry(w)
      BY <2>1, <2>4
    <3>2. Ran(u, t, 0)
      BY <2>2, <2>4
    <3>3. t \in RunnerState
      BY <3>2 DEF Ran
    <3>4. Ran(t, w, 0)
      BY <3>1, <3>3, RecapturedIs
    <3>5. w \in RunnerState
      BY <3>4 DEF Ran
    <3>6. Says(w, r)
      BY <3>1, <3>5, SecondTryIs
    <3>7. Ran(s, t, 0)
      BY <1>2, <3>2, RanTwice
    <3>8. Ran(s, w, 0)
      BY <3>4, <3>7, RanTwice
    <3> QED
      BY <3>6, <3>8, SaysTwice
  <2> QED
    BY <2>3, <2>4
<1> QED
  BY <1>4, <1>5

(* The match ends once, however often the core aborts.                        *)
LEMMA CoreFatalIs ==
  ASSUME NEW s \in RunnerState
  PROVE  Ran(s, Runner!CoreFatal(s), 0)
<1>0. s.ghost.ran \in Nat /\ s.ghost \in Runner!Ghost /\ s.main \in Runner!Main /\ s.main.fatal \in BOOLEAN
  BY DEF RunnerState, Runner!Ghost, Runner!Main
<1>1. CASE s.main.fatal
  <2>1. Runner!CoreFatal(s) = s
    BY <1>1 DEF Runner!CoreFatal
  <2> QED
    BY <1>0, <2>1 DEF Ran
<1>2. CASE ~s.main.fatal
  <2> DEFINE n == s.ghost.ended + 1
             g == [s.ghost EXCEPT !.ended = n]
             m == [s.main EXCEPT !.fatal = TRUE, !.ticking = FALSE]
             t == [s EXCEPT !.main = m, !.ghost = g]
  <2>1. n \in Nat /\ (OneEnd(s) => n = 1)
    BY <1>0, <1>2 DEF Runner!Ghost, OneEnd
  <2>2. Runner!CoreFatal(s) = t
    BY <1>2 DEF Runner!CoreFatal
  <2> HIDE DEF n
  <2>3. /\ g \in Runner!Ghost /\ g.ran = s.ghost.ran /\ g.counted = s.ghost.counted
        /\ g.torn = s.ghost.torn /\ g.ended = n
    BY <1>0, <2>1 DEF Runner!Ghost
  <2>4. /\ m \in Runner!Main /\ m.fatal = TRUE /\ m.ticking = FALSE /\ m.frame = s.main.frame
        /\ m.engine = s.main.engine /\ m.logged = s.main.logged /\ m.hidden = s.main.hidden
        /\ m.throws = s.main.throws
    BY <1>0 DEF Runner!Main
  <2> HIDE DEF g, m
  <2>5. t \in RunnerState /\ t.core = s.core /\ t.main = m /\ t.ghost = g
    BY <2>3, <2>4 DEF RunnerState
  <2> HIDE DEF t
  <2>6. Ran(s, t, 0)
    BY <1>0, <2>1, <2>3, <2>4, <2>5 DEF Ran, OneEnd
  <2> QED
    BY <2>2, <2>6
<1> QED
  BY <1>1, <1>2

LEMMA TornIs ==
  ASSUME NEW s \in RunnerState
  PROVE  /\ Ran(s, [s EXCEPT !.ghost.torn = TRUE], 0) /\ Ran(s, [s EXCEPT !.ghost.torn = TRUE], 1)
<1>0. s.ghost \in Runner!Ghost
  BY DEF RunnerState
<1> DEFINE g == [s.ghost EXCEPT !.torn = TRUE]
           t == [s EXCEPT !.ghost = g]
<1>1. t = [s EXCEPT !.ghost.torn = TRUE]
  OBVIOUS
<1>2. g \in Runner!Ghost /\ g.counted = s.ghost.counted /\ g.torn = TRUE /\ g.ended = s.ghost.ended
  BY <1>0 DEF Runner!Ghost
<1> HIDE DEF g
<1>3. t \in RunnerState /\ t.core = s.core /\ t.main = s.main /\ t.ghost = g
  BY <1>2 DEF RunnerState
<1> HIDE DEF t
<1>4. Ran(s, t, 0) /\ Ran(s, t, 1)
  BY <1>2, <1>3 DEF Ran, OneEnd
<1> QED
  BY <1>1, <1>4

LEMMA StepThrowsIs ==
  ASSUME NEW s \in RunnerState, NEW r \in Runner!StepThrows(s)
  PROVE  Says(s, r)
<1>1. CASE r = <<Runner!CoreFatal(Runner!CoreFatal(s)), FALSE>>
  <2> DEFINE t == Runner!CoreFatal(s)
             u == Runner!CoreFatal(t)
  <2>1. Ran(s, t, 0)
    BY CoreFatalIs
  <2> HIDE DEF t
  <2>2. t \in RunnerState
    BY <2>1 DEF Ran
  <2>3. Ran(t, u, 0)
    BY <2>2, CoreFatalIs
  <2>4. r = <<u, FALSE>>
    BY <1>1 DEF t
  <2> HIDE DEF u
  <2>5. Ran(s, u, 0)
    BY <2>1, <2>3, RanTwice
  <2> QED
    BY <2>4, <2>5 DEF Says
<1>2. CASE r \in {<<[t EXCEPT !.ghost.torn = TRUE], FALSE>> : t \in Runner!Recaptured([s EXCEPT !.runner = "none"])}
  <2> DEFINE w == [s EXCEPT !.runner = "none"]
  <2>1. PICK t \in Runner!Recaptured(w) : r = <<[t EXCEPT !.ghost.torn = TRUE], FALSE>>
    BY <1>2
  <2>2. Ran(s, w, 0)
    BY WithRunner DEF Runner!Runners
  <2> HIDE DEF w
  <2>3. w \in RunnerState
    BY <2>2 DEF Ran
  <2>4. Ran(w, t, 0)
    BY <2>1, <2>3, RecapturedIs
  <2>5. t \in RunnerState /\ Ran(s, t, 0)
    BY <2>2, <2>4, RanTwice DEF Ran
  <2> DEFINE u == [t EXCEPT !.ghost.torn = TRUE]
  <2>6. Ran(t, u, 0)
    BY <2>5, TornIs
  <2>7. r = <<u, FALSE>>
    BY <2>1
  <2> HIDE DEF u
  <2>8. Ran(s, u, 0)
    BY <2>5, <2>6, RanTwice
  <2> QED
    BY <2>7, <2>8 DEF Says
<1> QED
  BY <1>1, <1>2 DEF Runner!StepThrows

LEMMA RunStepIs ==
  ASSUME NEW s \in RunnerState, NEW r \in Runner!RunStep(s)
  PROVE  Says(s, r)
<1>1. CASE r \in Runner!StepOneFrame(s)
  BY <1>1, StepOneFrameIs
<1>2. CASE Runner!Trouble(s) /\ r \in Runner!StepThrows(Runner!Troubled(s))
  <2> DEFINE t == Runner!Troubled(s)
  <2>1. Ran(s, t, 0)
    BY <1>2, TroubledIs
  <2> HIDE DEF t
  <2>2. t \in RunnerState
    BY <2>1 DEF Ran
  <2>3. Says(t, r)
    BY <1>2, <2>2, StepThrowsIs DEF t
  <2> QED
    BY <2>1, <2>3, SaysTwice
<1> QED
  BY <1>1, <1>2 DEF Runner!RunStep

(* Induction over the naturals, for a set.                                   *)
LEMMA AllNaturals ==
  ASSUME NEW S \in SUBSET Nat, 0 \in S, \A n \in S : n + 1 \in S
  PROVE  S = Nat
<1> DEFINE R == OpToRel(<, Nat)
           T == Nat \ S
<1>1. IsWellFoundedOn(R, Nat) /\ T \subseteq Nat
  BY NatLessThanWellFounded
<1>2. \A x, y \in Nat : x < y => <<x, y>> \in R
  BY DEF OpToRel
<1>3. SUFFICES ASSUME T # {} PROVE FALSE
  OBVIOUS
<1> HIDE DEF R
<1>4. PICK i \in T : \A k \in T : ~ (<<k, i>> \in R)
  BY <1>1, <1>3, WFMin
<1>5. \A k \in T : ~ (k < i)
  BY <1>1, <1>2, <1>4
<1>6. i # 0 /\ i - 1 \in Nat /\ i - 1 \notin T
  BY <1>5
<1>7. i - 1 \in S
  BY <1>6
<1>8. (i - 1) + 1 \in S
  BY <1>7
<1> QED
  BY <1>6, <1>8

(* The frames of a burst are what their definition says: a function that is    *)
(* defined by recursion exists.                                             *)
NextOf(s, f, k) == IF k = 1 THEN Runner!ReplayFrame(s) ELSE Runner!NextFrames(f[k - 1])

LEMMA BurstExists ==
  ASSUME NEW s, NEW n \in Nat
  PROVE  \E f : f = [k \in 1..n |-> NextOf(s, f, k)]
<1> DEFINE P(m) == \E f : f = [k \in 1..m |-> NextOf(s, f, k)]
           S == {m \in Nat : P(m)}
<1>1. 0 \in S
  <2> DEFINE f == [k \in 1..0 |-> 0]
  <2>1. f = [k \in 1..0 |-> NextOf(s, f, k)]
    OBVIOUS
  <2> HIDE DEF f
  <2> QED
    BY <2>1
<1>2. ASSUME NEW m \in S PROVE m + 1 \in S
  <2>1. PICK f : f = [k \in 1..m |-> NextOf(s, f, k)]
    BY <1>2
  <2> DEFINE g == [k \in 1..(m + 1) |-> NextOf(s, f, k)]
  <2>2. \A k \in 1..m : g[k] = f[k]
    BY <2>1
  <2>3. \A k \in 1..(m + 1) : NextOf(s, f, k) = NextOf(s, g, k)
    <3> SUFFICES ASSUME NEW k \in 1..(m + 1), k # 1 PROVE f[k - 1] = g[k - 1]
      BY DEF NextOf
    <3>1. k - 1 \in 1..m
      OBVIOUS
    <3> HIDE DEF g
    <3> QED
      BY <2>2, <3>1
  <2>4. g = [k \in 1..(m + 1) |-> NextOf(s, g, k)]
    <3> DEFINE h == [k \in 1..(m + 1) |-> NextOf(s, g, k)]
    <3>1. \A k \in 1..(m + 1) : g[k] = NextOf(s, g, k)
      <4>1. \A k \in 1..(m + 1) : g[k] = NextOf(s, f, k)
        OBVIOUS
      <4> HIDE DEF g
      <4> QED
        BY <2>3, <4>1
    <3>2. g = [k \in 1..(m + 1) |-> g[k]]
      OBVIOUS
    <3> HIDE DEF g
    <3> QED
      BY <3>1, <3>2
  <2> HIDE DEF g
  <2> QED
    BY <2>4
<1>3. S \in SUBSET Nat
  OBVIOUS
<1> HIDE DEF S
<1>4. S = Nat
  BY <1>1, <1>2, <1>3, AllNaturals
<1> QED
  BY <1>4 DEF S

LEMMA BurstIs ==
  ASSUME NEW s, NEW b, b = Runner!BurstFrames(s)
  PROVE  b = [k \in 1..BurstSize |-> NextOf(s, b, k)]
<1>1. b = CHOOSE f : f = [k \in 1..BurstSize |-> NextOf(s, f, k)]
  BY DEF Runner!BurstFrames, NextOf
<1>2. \E f : f = [k \in 1..BurstSize |-> NextOf(s, f, k)]
  BY BurstExists, RunnerAssumption
<1> QED
  BY <1>1, <1>2

(* Between the steps of a tick.                                              *)
Mid(s) ==
  /\ s \in RunnerState /\ s.core.frame + s.core.depth <= RunnerFrames
  /\ ~s.ghost.torn => s.ghost.ran = s.ghost.counted
  /\ OneEnd(s)
  /\ s.main.hidden => s.main.logged
  /\ s.main.engine => s.main.throws < 3

(* Between ticks; at the third exception the engine is given up.              *)
Settled(s) == Mid(s) /\ (s.main.engine => s.main.frame = s.core.frame)

AllSettled(results) == \A r \in results : Settled(r[1])

RunnerInv == manual \in BOOLEAN /\ Settled(Runner!Now)

LEMMA RunnerNow ==
  /\ Runner!Now.runner = runner /\ Runner!Now.core = core /\ Runner!Now.main = loop /\ Runner!Now.ghost = ghost
BY DEF Runner!Now

LEMMA RunnerTypes == RunnerInv => Runner!RunnerTypeOK /\ Runner!RunnerSound
BY RunnerNow DEF RunnerInv, Settled, Mid, OneEnd, RunnerState, Runner!RunnerTypeOK, Runner!RunnerSound,
   Runner!EveryFrameRanOnce, Runner!FrameNumbersAgree, Runner!FatalIsFinal, Runner!HiddenWhileLogged

LEMMA RunnerBecomes ==
  ASSUME NEW s, Runner!Becomes(s), manual' \in BOOLEAN, Settled(s)
  PROVE  RunnerInv'
<1>1. runner' = s.runner /\ core' = s.core /\ loop' = s.main /\ ghost' = s.ghost
  BY DEF Runner!Becomes
<1> DEFINE t == [runner |-> s.runner, core |-> s.core, main |-> s.main, ghost |-> s.ghost]
<1>2. s = t
  BY DEF Settled, Mid, RunnerState
<1>3. Runner!Now' = t
  BY <1>1 DEF Runner!Now
<1> QED
  BY <1>2, <1>3 DEF RunnerInv

LEMMA RunnerInit == Runner!Init => RunnerInv
<1> SUFFICES ASSUME Runner!Init PROVE RunnerInv
  OBVIOUS
<1>0. 0 \in 0..RunnerFrames /\ 0 \in 0..RunnerRewinds /\ 0 \in 0..RunnerTrouble /\ -1 \in (-1)..RunnerFrames
  BY RunnerAssumption
<1>1. runner \in Runner!Runners /\ manual \in BOOLEAN
  BY DEF Runner!Init, Runner!Runners
<1>2. core \in Runner!Core /\ core.frame = 0 /\ core.depth = 0
  BY <1>0 DEF Runner!Init, Runner!Core
<1>3. /\ loop \in Runner!Main /\ ~loop.fatal /\ ~loop.hidden /\ loop.frame = 0 /\ loop.throws = 0
  BY <1>0 DEF Runner!Init, Runner!Main
<1>4. ghost \in Runner!Ghost /\ ghost.ran = 0 /\ ghost.counted = 0 /\ ghost.ended = 0
  BY <1>0 DEF Runner!Init, Runner!Ghost
<1>5. Runner!Now \in RunnerState
  BY <1>1, <1>2, <1>3, <1>4 DEF Runner!Now, RunnerState
<1> QED
  BY <1>1, <1>2, <1>3, <1>4, <1>5, RunnerNow, RunnerAssumption DEF RunnerInv, Settled, Mid, OneEnd

LEMMA RanKeeps ==
  ASSUME NEW s, NEW t, Ran(s, t, 0)
  PROVE  (Mid(s) => Mid(t)) /\ (Settled(s) => Settled(t))
<1>1. ASSUME Mid(s) PROVE Mid(t)
  BY <1>1 DEF Ran, Mid, RunnerState, Runner!Ghost
<1>2. ASSUME Settled(s) PROVE Settled(t)
  BY <1>1, <1>2 DEF Settled, Ran
<1> QED
  BY <1>1, <1>2

(* Steps of the engine.                                                     *)
LEMMA FrameRead ==
  ASSUME NEW s, Mid(s)
  PROVE  /\ Settled([s EXCEPT !.main.frame = s.core.frame])
         /\ [s EXCEPT !.main.frame = s.core.frame].core = s.core
<1> DEFINE f == s.core.frame
           m == [s.main EXCEPT !.frame = f]
           t == [s EXCEPT !.main = m]
<1>0. s \in RunnerState /\ s.main \in Runner!Main /\ f \in 0..RunnerFrames
  BY DEF Mid, RunnerState, Runner!Core
<1>1. t = [s EXCEPT !.main.frame = s.core.frame]
  OBVIOUS
<1>9. f = s.core.frame
  OBVIOUS
<1> HIDE DEF f
<1>2. /\ m \in Runner!Main /\ m.frame = f /\ m.engine = s.main.engine /\ m.logged = s.main.logged
      /\ m.hidden = s.main.hidden /\ m.throws = s.main.throws /\ m.fatal = s.main.fatal
      /\ m.ticking = s.main.ticking
  BY <1>0 DEF Runner!Main
<1> HIDE DEF m
<1>3. t \in RunnerState /\ t.core = s.core /\ t.main = m /\ t.ghost = s.ghost
  BY <1>0, <1>2 DEF RunnerState
<1> HIDE DEF t
<1>4. Settled(t)
  BY <1>2, <1>3, <1>9 DEF Settled, Mid, OneEnd
<1> QED
  BY <1>1, <1>3, <1>4

(* A frame that ran is counted.                                              *)
LEMMA PostTickIs ==
  ASSUME NEW s, Settled(s), s.core.depth > 0 \/ s.core.frame < RunnerFrames, NEW t, Ran(s, t, 1)
  PROVE  Settled(Runner!PostTick(t))
<1> DEFINE d == IF t.core.depth = 0 THEN 0 ELSE t.core.depth - 1
           f == t.core.frame + 1
           n == t.ghost.counted + 1
           c == [t.core EXCEPT !.frame = f, !.depth = d]
           m == [t.main EXCEPT !.frame = f]
           g == [t.ghost EXCEPT !.counted = n]
           u == [t EXCEPT !.core = c, !.main = m, !.ghost = g]
<1>1. t \in RunnerState /\ t.core \in Runner!Core /\ t.main \in Runner!Main /\ t.ghost \in Runner!Ghost
  BY DEF Ran, RunnerState
<1>2. Runner!PostTick(t) = u
  BY <1>1 DEF Runner!PostTick
<1>3. /\ t.core.frame \in 0..RunnerFrames /\ t.core.depth \in 0..RunnerFrames
      /\ t.core.frame + t.core.depth <= RunnerFrames
      /\ t.core.depth > 0 \/ t.core.frame < RunnerFrames
  BY <1>1 DEF Ran, Settled, Mid, Runner!Core
<1>4. f \in 0..RunnerFrames /\ d \in 0..RunnerFrames /\ f + d <= RunnerFrames
  BY <1>3, RunnerAssumption
<1>5. n \in Nat /\ n = t.ghost.counted + 1
  BY <1>1 DEF Runner!Ghost
<1> HIDE DEF d, f, n
<1>6. c \in Runner!Core /\ c.frame = f /\ c.depth = d
  BY <1>1, <1>4 DEF Runner!Core
<1>7. /\ m \in Runner!Main /\ m.frame = f /\ m.engine = t.main.engine /\ m.logged = t.main.logged
      /\ m.hidden = t.main.hidden /\ m.throws = t.main.throws /\ m.fatal = t.main.fatal
      /\ m.ticking = t.main.ticking
  BY <1>1, <1>4 DEF Runner!Main
<1>8. /\ g \in Runner!Ghost /\ g.counted = n /\ g.ran = t.ghost.ran /\ g.torn = t.ghost.torn
      /\ g.ended = t.ghost.ended
  BY <1>1, <1>5 DEF Runner!Ghost
<1> HIDE DEF c, m, g
<1>9. u \in RunnerState /\ u.core = c /\ u.main = m /\ u.ghost = g
  BY <1>1, <1>6, <1>7, <1>8 DEF RunnerState
<1> HIDE DEF u
<1>10. Settled(u)
  BY <1>4, <1>5, <1>6, <1>7, <1>8, <1>9 DEF Settled, Mid, Ran, OneEnd
<1> QED
  BY <1>2, <1>10

LEMMA PreTickIs ==
  ASSUME NEW s, Mid(s), NEW t \in Runner!PreTick(s)
  PROVE  /\ Mid(t) /\ t.core.frame + t.core.depth = s.core.frame + s.core.depth
         /\ t.main = s.main /\ (t = s \/ t.core.depth > 0)
<1>0. s \in RunnerState /\ s.core \in Runner!Core /\ s.core.frame \in 0..RunnerFrames
      /\ s.core.depth \in 0..RunnerFrames /\ s.core.rewinds \in 0..RunnerRewinds
      /\ s.core.frame + s.core.depth <= RunnerFrames
  BY DEF Mid, RunnerState, Runner!Core
<1>1. CASE t = s
  BY <1>0, <1>1
<1>2. CASE s.core.rewinds < RunnerRewinds /\ \E to \in 0..(s.core.frame - 1) : t = Runner!Restored(s, to)
  <2>1. PICK to \in 0..(s.core.frame - 1) : t = Runner!Restored(s, to)
    BY <1>2
  <2> DEFINE d == s.core.frame + s.core.depth - to
             n == s.core.rewinds + 1
             c == [frame |-> to, depth |-> d, rewinds |-> n]
  <2>2. to \in 0..RunnerFrames /\ d \in 0..RunnerFrames /\ n \in 0..RunnerRewinds
        /\ to + d = s.core.frame + s.core.depth /\ d > 0
    BY <1>0, <1>2, RunnerAssumption
  <2>3. t = [s EXCEPT !.core = c, !.runner = "good"]
    BY <2>1 DEF Runner!Restored
  <2> HIDE DEF d, n
  <2>4. c \in Runner!Core /\ c.frame = to /\ c.depth = d
    BY <2>2 DEF Runner!Core
  <2> HIDE DEF c
  <2>5. t \in RunnerState /\ t.core = c /\ t.main = s.main /\ t.ghost = s.ghost
    BY <1>0, <2>3, <2>4 DEF RunnerState, Runner!Runners
  <2>6. Mid(t)
    BY <1>0, <2>2, <2>4, <2>5 DEF Mid, OneEnd
  <2> QED
    BY <2>2, <2>4, <2>5, <2>6
<1> QED
  BY <1>1, <1>2 DEF Runner!PreTick

(* A frame of a replay, and a burst of them.                                  *)
LEMMA ReplayFrameIs ==
  ASSUME NEW s, Mid(s), s.core.depth > 0
  PROVE  AllSettled(Runner!ReplayFrame(s))
<1> DEFINE from == [s EXCEPT !.main.frame = s.core.frame]
<1>1. Settled(from) /\ from.core = s.core
  BY FrameRead
<1>2. SUFFICES ASSUME NEW q \in Runner!ReplayFrame(s) PROVE Settled(q[1])
  BY DEF AllSettled
<1>3. PICK r \in Runner!RunStep(from) : q = IF r[2] THEN <<Runner!PostTick(r[1]), TRUE>> ELSE r
  BY DEF Runner!ReplayFrame
<1> HIDE DEF from
<1>4. Says(from, r)
  BY <1>1, <1>3, RunStepIs DEF Settled, Mid
<1>5. CASE r[2]
  <2>1. Ran(from, r[1], 1)
    BY <1>4, <1>5 DEF Says
  <2>2. Settled(Runner!PostTick(r[1]))
    BY <1>1, <2>1, PostTickIs
  <2> QED
    BY <1>3, <1>5, <2>2
<1>6. CASE ~r[2]
  <2>1. Ran(from, r[1], 0)
    BY <1>4, <1>6 DEF Says
  <2> QED
    BY <1>1, <1>3, <1>6, <2>1, RanKeeps
<1> QED
  BY <1>5, <1>6

LEMMA NextFramesAre ==
  ASSUME NEW results, AllSettled(results)
  PROVE  AllSettled(Runner!NextFrames(results))
<1>1. SUFFICES ASSUME NEW q \in Runner!NextFrames(results) PROVE Settled(q[1])
  BY DEF AllSettled
<1>2. PICK r \in results : r[1].core.depth > 0 /\ \E t \in Runner!PreTick(r[1]) : q \in Runner!ReplayFrame(t)
  BY DEF Runner!NextFrames
<1>3. PICK t \in Runner!PreTick(r[1]) : q \in Runner!ReplayFrame(t)
  BY <1>2
<1> DEFINE s == r[1]
<1>4. Mid(s) /\ s.core.depth > 0
  BY <1>2 DEF AllSettled, Settled
<1> HIDE DEF s
<1>5. t \in Runner!PreTick(s)
  BY <1>3 DEF s
<1>6. Mid(t) /\ t.core.depth > 0
  BY <1>4, <1>5, PreTickIs
<1>7. AllSettled(Runner!ReplayFrame(t))
  BY <1>6, ReplayFrameIs
<1> QED
  BY <1>3, <1>7 DEF AllSettled

LEMMA BurstSettles ==
  ASSUME NEW s, Mid(s), s.core.depth > 0
  PROVE  \A t \in Runner!ReplayBurst(s) : Settled(t)
<1> DEFINE b == Runner!BurstFrames(s)
           P(k) == k \in 1..BurstSize => AllSettled(b[k])
           S == {k \in Nat : P(k)}
<1>1. b = [k \in 1..BurstSize |-> NextOf(s, b, k)]
  BY BurstIs
<1> HIDE DEF b
<1>2. 0 \in S
  OBVIOUS
<1>3. ASSUME NEW k \in S PROVE k + 1 \in S
  <2>1. SUFFICES ASSUME k + 1 \in 1..BurstSize PROVE AllSettled(b[k + 1])
    OBVIOUS
  <2>2. b[k + 1] = NextOf(s, b, k + 1)
    BY <1>1, <2>1
  <2>3. CASE k = 0
    BY <2>2, <2>3, ReplayFrameIs DEF NextOf
  <2>4. CASE k # 0
    <3>1. k \in 1..BurstSize /\ AllSettled(b[k])
      BY <2>1, <2>4, RunnerAssumption
    <3>2. (k + 1) - 1 = k /\ k + 1 # 1
      BY <2>4
    <3>3. b[k + 1] = Runner!NextFrames(b[k])
      BY <2>2, <3>2 DEF NextOf
    <3> QED
      BY <3>1, <3>3, NextFramesAre
  <2> QED
    BY <2>3, <2>4
<1>4. S \in SUBSET Nat
  OBVIOUS
<1> HIDE DEF S
<1>5. S = Nat
  BY <1>2, <1>3, <1>4, AllNaturals
<1>6. \A k \in 1..BurstSize : AllSettled(b[k])
  BY <1>5, RunnerAssumption DEF S
<1>7. SUFFICES ASSUME NEW t \in Runner!ReplayBurst(s) PROVE Settled(t)
  OBVIOUS
<1>8. PICK k \in 1..BurstSize : \E r \in b[k] : t = r[1]
  BY DEF Runner!ReplayBurst, b
<1> QED
  BY <1>6, <1>8 DEF AllSettled

(* The picture and the sound, and the mark of a replay.                       *)
LEMMA MarkedIs ==
  ASSUME NEW s, Settled(s), NEW hidden \in BOOLEAN, NEW logged \in BOOLEAN, hidden => logged,
         NEW t, t = [s EXCEPT !.main.hidden = hidden, !.main.logged = logged]
  PROVE  Settled(t) /\ t.core = s.core
<1> DEFINE m == [s.main EXCEPT !.hidden = hidden, !.logged = logged]
<1>0. s \in RunnerState /\ s.main \in Runner!Main
  BY DEF Settled, Mid, RunnerState
<1>1. t = [s EXCEPT !.main = m]
  BY <1>0 DEF RunnerState
<1>2. /\ m \in Runner!Main /\ m.frame = s.main.frame /\ m.engine = s.main.engine /\ m.logged = logged
      /\ m.hidden = hidden /\ m.throws = s.main.throws /\ m.fatal = s.main.fatal
      /\ m.ticking = s.main.ticking
  BY <1>0 DEF Runner!Main
<1> HIDE DEF m
<1>3. t \in RunnerState /\ t.core = s.core /\ t.main = m /\ t.ghost = s.ghost
  BY <1>0, <1>1, <1>2 DEF RunnerState
<1> QED
  BY <1>2, <1>3 DEF Settled, Mid, OneEnd

LEMMA FinishReplayIs ==
  ASSUME NEW s, Settled(s)
  PROVE  Settled(Runner!FinishReplay(s)) /\ Runner!FinishReplay(s).core = s.core
<1> DEFINE off == FALSE
           t == [s EXCEPT !.main.hidden = off, !.main.logged = off]
<1>1. Runner!FinishReplay(s) = t
  BY DEF Runner!FinishReplay, Runner!Hide
<1>2. off \in BOOLEAN /\ (off => off)
  OBVIOUS
<1> HIDE DEF off
<1>3. Settled(t) /\ t.core = s.core
  BY <1>2, MarkedIs
<1> QED
  BY <1>1, <1>3

LEMMA ReplaySettles ==
  ASSUME NEW s, Settled(s), s.core.depth > 0, NEW u \in Runner!Replay(s)
  PROVE  Settled(u)
<1> DEFINE on == TRUE
           t == [s EXCEPT !.main.hidden = on, !.main.logged = on]
           begun == IF s.main.logged THEN s ELSE t
<1>1. PICK w \in Runner!ReplayBurst(begun) : u = IF w.core.depth = 0 THEN Runner!FinishReplay(w) ELSE w
  BY DEF Runner!Replay, Runner!Hide
<1>2. on \in BOOLEAN /\ (on => on)
  OBVIOUS
<1> HIDE DEF on
<1>3. Settled(t) /\ t.core = s.core
  BY <1>2, MarkedIs, ZenonT(30)
<1>4. Mid(begun) /\ begun.core.depth > 0
  BY <1>3 DEF Settled
<1> HIDE DEF begun
<1>5. Settled(w)
  BY <1>1, <1>4, BurstSettles
<1> QED
  BY <1>1, <1>5, FinishReplayIs

LEMMA NormalFrameSettles ==
  ASSUME NEW s, Settled(s), s.core.frame < RunnerFrames, NEW u \in Runner!NormalFrame(s)
  PROVE  Settled(u)
<1> DEFINE seen == IF s.main.logged THEN Runner!FinishReplay(s) ELSE s
<1>1. PICK r \in Runner!RunStep(seen) : u = IF r[2] THEN Runner!PostTick(r[1]) ELSE r[1]
  BY DEF Runner!NormalFrame
<1>2. Settled(seen) /\ seen.core = s.core
  BY FinishReplayIs
<1> HIDE DEF seen
<1>3. Says(seen, r)
  BY <1>1, <1>2, RunStepIs DEF Settled, Mid
<1>4. CASE r[2]
  <2>1. Ran(seen, r[1], 1)
    BY <1>3, <1>4 DEF Says
  <2>2. Settled(Runner!PostTick(r[1]))
    BY <1>2, <2>1, PostTickIs
  <2> QED
    BY <1>1, <1>4, <2>2
<1>5. CASE ~r[2]
  <2>1. Ran(seen, r[1], 0)
    BY <1>3, <1>5 DEF Says
  <2> QED
    BY <1>1, <1>2, <1>5, <2>1, RanKeeps
<1> QED
  BY <1>4, <1>5

(* The recovery from an exception ends the replay where it is.                 *)
LEMMA RecoveredSettles ==
  ASSUME NEW s, Mid(s), s.main.engine
  PROVE  Settled(Runner!Recovered(s))
<1> DEFINE n == IF s.main.thrownAt = s.main.frame /\ s.main.frame > 0 THEN s.main.throws + 1 ELSE 1
           f == s.core.frame
           at == s.main.frame
           on == s.main.engine /\ n < 3
           c == [s.core EXCEPT !.depth = 0]
           m == [s.main EXCEPT !.frame = f, !.thrownAt = at, !.throws = n, !.engine = on]
           t == [s EXCEPT !.core = c, !.main = m]
<1>0. /\ s \in RunnerState /\ s.main \in Runner!Main /\ s.core \in Runner!Core
      /\ f \in 0..RunnerFrames /\ at \in 0..RunnerFrames /\ s.main.throws \in 0..3 /\ s.main.throws < 3
      /\ s.core.depth \in 0..RunnerFrames /\ s.core.frame = f
  BY DEF Mid, RunnerState, Runner!Core, Runner!Main
<1>1. Runner!Recovered(s) = t
  BY <1>0 DEF Runner!Recovered, RunnerState, Runner!Core, Runner!Main
<1>2. n \in 0..3 /\ on \in BOOLEAN /\ (on => n < 3) /\ at \in (-1)..RunnerFrames
  BY <1>0
<1> HIDE DEF n, f, at, on
<1>3. c \in Runner!Core /\ c.frame = f /\ c.depth = 0
  BY <1>0, RunnerAssumption DEF Runner!Core
<1>4. /\ m \in Runner!Main /\ m.frame = f /\ m.engine = on /\ m.logged = s.main.logged
      /\ m.hidden = s.main.hidden /\ m.throws = n /\ m.fatal = s.main.fatal /\ m.ticking = s.main.ticking
  BY <1>0, <1>2 DEF Runner!Main
<1> HIDE DEF c, m
<1>5. t \in RunnerState /\ t.core = c /\ t.main = m /\ t.ghost = s.ghost
  BY <1>0, <1>3, <1>4 DEF RunnerState
<1> HIDE DEF t
<1>6. Settled(t)
  BY <1>0, <1>2, <1>3, <1>4, <1>5 DEF Settled, Mid, OneEnd
<1> QED
  BY <1>1, <1>6

(* The steps of the runner.                                                  *)
LEMMA RunnerMoves ==
  ASSUME RunnerInv, NEW s, Ran(Runner!Now, s, 0), Runner!Becomes(s), manual' \in BOOLEAN
  PROVE  RunnerInv'
<1>1. Settled(s)
  BY RanKeeps DEF RunnerInv
<1> QED
  BY <1>1, RunnerBecomes

LEMMA RunnerLost ==
  ASSUME RunnerInv, Runner!Trouble(Runner!Now), NEW r \in Runner!Runners,
         NEW s, s = [Runner!Troubled(Runner!Now) EXCEPT !.runner = r]
  PROVE  Ran(Runner!Now, s, 0)
<1> DEFINE now == Runner!Now
           t == Runner!Troubled(now)
<1>1. now \in RunnerState
  BY DEF RunnerInv, Settled, Mid
<1> HIDE DEF now
<1>2. Ran(now, t, 0)
  BY <1>1, TroubledIs DEF now
<1> HIDE DEF t
<1>3. s = [t EXCEPT !.runner = r] /\ t \in RunnerState
  BY <1>2 DEF Ran, t, now
<1>4. Ran(t, s, 0)
  BY <1>3, WithRunner
<1>5. Ran(now, s, 0)
  BY <1>1, <1>2, <1>4, RanTwice
<1> QED
  BY <1>5 DEF now

LEMMA EnterKeeps == RunnerInv /\ Runner!EnterManualMode => RunnerInv'
<1> SUFFICES ASSUME RunnerInv, Runner!EnterManualMode PROVE RunnerInv'
  OBVIOUS
<1> DEFINE now == Runner!Now
           s == [now EXCEPT !.runner = "good"]
<1>1. Runner!Becomes(s) /\ manual' \in BOOLEAN
  BY DEF Runner!EnterManualMode, Runner!Intercept
<1>2. now \in RunnerState
  BY DEF RunnerInv, Settled, Mid
<1> HIDE DEF now
<1>3. Ran(now, s, 0)
  BY <1>2, WithRunner DEF Runner!Runners
<1> HIDE DEF s
<1> QED
  BY <1>1, <1>3, RunnerMoves DEF now

LEMMA PageFrameKeeps == RunnerInv /\ Runner!PageSchedulesAFrame => RunnerInv'
<1> SUFFICES ASSUME RunnerInv, Runner!PageSchedulesAFrame PROVE RunnerInv'
  OBVIOUS
<1> DEFINE now == Runner!Now
           s == Runner!Troubled(now)
<1>1. Runner!Becomes(s) /\ manual' \in BOOLEAN /\ Runner!Trouble(now)
  BY DEF Runner!PageSchedulesAFrame, Runner!Intercept, RunnerInv
<1>2. now \in RunnerState
  BY DEF RunnerInv, Settled, Mid
<1> HIDE DEF now
<1>3. Ran(now, s, 0)
  BY <1>1, <1>2, TroubledIs
<1> HIDE DEF s
<1> QED
  BY <1>1, <1>3, RunnerMoves DEF now

LEMMA ReplacedKeeps == RunnerInv /\ Runner!CoreReplacesRunner => RunnerInv'
<1> SUFFICES ASSUME RunnerInv, Runner!CoreReplacesRunner PROVE RunnerInv'
  OBVIOUS
<1> DEFINE s == [Runner!Troubled(Runner!Now) EXCEPT !.runner = "stale"]
<1>1. Runner!Becomes(s) /\ manual' \in BOOLEAN /\ Runner!Trouble(Runner!Now)
  BY DEF Runner!CoreReplacesRunner, RunnerInv
<1>2. Ran(Runner!Now, s, 0)
  BY <1>1, RunnerLost DEF Runner!Runners
<1> HIDE DEF s
<1> QED
  BY <1>1, <1>2, RunnerMoves

LEMMA LoadKeeps == RunnerInv /\ Runner!LoadAtStart => RunnerInv'
<1> SUFFICES ASSUME RunnerInv, Runner!LoadAtStart PROVE RunnerInv'
  OBVIOUS
<1> DEFINE now == Runner!Now
           t == Runner!Troubled(now)
<1>1. /\ manual' \in BOOLEAN /\ Runner!Trouble(Runner!Now)
      /\ \E s \in Runner!Recaptured(t) \cup {[t EXCEPT !.runner = "stale"]} : Runner!Becomes(s)
  BY DEF Runner!LoadAtStart, RunnerInv
<1>2. now \in RunnerState
  BY DEF RunnerInv, Settled, Mid
<1>3. PICK s \in Runner!Recaptured(t) \cup {[t EXCEPT !.runner = "stale"]} : Runner!Becomes(s)
  BY <1>1
<1>4. Ran(now, s, 0)
  <2>1. CASE s = [t EXCEPT !.runner = "stale"]
    BY <1>1, <2>1, RunnerLost DEF Runner!Runners
  <2>2. CASE s \in Runner!Recaptured(t)
    <3> HIDE DEF now
    <3>1. Ran(now, t, 0)
      BY <1>1, <1>2, TroubledIs DEF now
    <3> HIDE DEF t
    <3>2. Ran(t, s, 0)
      BY <2>2, <3>1, RecapturedIs DEF Ran
    <3> QED
      BY <1>2, <3>1, <3>2, RanTwice
  <2> QED
    BY <1>3, <2>1, <2>2
<1> QED
  BY <1>1, <1>3, <1>4, RunnerMoves

LEMMA UnpauseKeeps == RunnerInv /\ Runner!Unpause => RunnerInv'
<1> SUFFICES ASSUME RunnerInv, Runner!Unpause PROVE RunnerInv'
  OBVIOUS
<1> DEFINE now == Runner!Now
<1>1. PICK s \in Runner!Recaptured(now) : Runner!Becomes(s)
  BY DEF Runner!Unpause
<1>2. manual' \in BOOLEAN /\ now \in RunnerState
  BY DEF Runner!Unpause, RunnerInv, Settled, Mid
<1> HIDE DEF now
<1>3. Ran(now, s, 0)
  BY <1>1, <1>2, RecapturedIs
<1> QED
  BY <1>1, <1>2, <1>3, RunnerMoves DEF now

LEMMA RunnerStarts == RunnerInv /\ Runner!Start => RunnerInv'
<1> SUFFICES ASSUME RunnerInv, Runner!Start PROVE RunnerInv'
  OBVIOUS
<1> DEFINE now == Runner!Now
           m == [now.main EXCEPT !.ticking = TRUE]
           s == [now EXCEPT !.main = m]
<1>1. Settled(now) /\ now \in RunnerState /\ now.main \in Runner!Main /\ manual' \in BOOLEAN
  BY DEF RunnerInv, Settled, Mid, RunnerState, Runner!Start
<1>2. Runner!Becomes(s) /\ ~now.main.fatal
  BY RunnerNow DEF Runner!Start
<1> HIDE DEF now
<1>3. /\ m \in Runner!Main /\ m.frame = now.main.frame /\ m.engine = now.main.engine
      /\ m.logged = now.main.logged /\ m.hidden = now.main.hidden /\ m.throws = now.main.throws
      /\ m.fatal = now.main.fatal
  BY <1>1 DEF Runner!Main
<1> HIDE DEF m
<1>4. s \in RunnerState /\ s.core = now.core /\ s.main = m /\ s.ghost = now.ghost
  BY <1>1, <1>3 DEF RunnerState
<1> HIDE DEF s
<1>5. Settled(s)
  BY <1>1, <1>2, <1>3, <1>4 DEF Settled, Mid, OneEnd
<1> QED
  BY <1>1, <1>2, <1>5, RunnerBecomes

(* The ticks.                                                               *)
LEMMA EngineTickKeeps == RunnerInv /\ Runner!EngineTick => RunnerInv'
<1> SUFFICES ASSUME RunnerInv, Runner!EngineTick PROVE RunnerInv'
  OBVIOUS
<1> DEFINE now == Runner!Now
<1>1. PICK p \in Runner!PreTick(now) :
        LET q == [p EXCEPT !.main.frame = p.core.frame] IN
        \E t \in IF q.core.depth > 0 THEN Runner!Replay(q) ELSE Runner!NormalFrame(q) : Runner!Becomes(t)
  BY DEF Runner!EngineTick
<1>2. /\ Mid(now) /\ manual' \in BOOLEAN /\ now.core.frame + now.core.depth < RunnerFrames
  BY DEF RunnerInv, Settled, Runner!EngineTick, Runner!Room
<1> HIDE DEF now
<1>3. Mid(p) /\ p.core.frame + p.core.depth < RunnerFrames
  BY <1>1, <1>2, PreTickIs
<1> DEFINE q == [p EXCEPT !.main.frame = p.core.frame]
<1>4. Settled(q) /\ q.core = p.core
  BY <1>3, FrameRead
<1>5. PICK t \in IF q.core.depth > 0 THEN Runner!Replay(q) ELSE Runner!NormalFrame(q) : Runner!Becomes(t)
  BY <1>1
<1> HIDE DEF q
<1>6. q.core.frame \in Nat /\ q.core.depth \in Nat /\ q.core.frame + q.core.depth < RunnerFrames
  BY <1>3, <1>4, RunnerAssumption DEF Settled, Mid, RunnerState, Runner!Core
<1>7. Settled(t)
  <2>1. CASE q.core.depth > 0
    BY <1>4, <1>5, <2>1, ReplaySettles
  <2>2. CASE ~(q.core.depth > 0)
    <3>1. q.core.frame < RunnerFrames
      BY <1>6, <2>2, RunnerAssumption
    <3>2. t \in Runner!NormalFrame(q)
      BY <1>5, <2>2
    <3> QED
      BY <1>4, <3>1, <3>2, NormalFrameSettles
  <2> QED
    BY <2>1, <2>2
<1> QED
  BY <1>2, <1>5, <1>7, RunnerBecomes

LEMMA PreTickThrowsKeeps == RunnerInv /\ Runner!PreTickThrows => RunnerInv'
<1> SUFFICES ASSUME RunnerInv, Runner!PreTickThrows PROVE RunnerInv'
  OBVIOUS
<1> DEFINE now == Runner!Now
<1>1. PICK p \in Runner!PreTick(now) : Runner!Becomes(Runner!Recovered(Runner!Troubled(p)))
  BY DEF Runner!PreTickThrows
<1>2. Mid(now) /\ manual' \in BOOLEAN /\ Runner!Trouble(now) /\ now.main.engine
  BY RunnerNow DEF RunnerInv, Settled, Runner!PreTickThrows
<1> HIDE DEF now
<1>3. Mid(p) /\ p.main = now.main
  BY <1>1, <1>2, PreTickIs
<1>4. Runner!Trouble(p)
  <2>1. CASE p = now
    BY <1>2, <2>1
  <2>2. CASE \E to \in 0..(now.core.frame - 1) : p = Runner!Restored(now, to)
    <3>1. PICK to \in 0..(now.core.frame - 1) : p = Runner!Restored(now, to)
      BY <2>2
    <3>2. p.ghost = now.ghost
      BY <1>2, <3>1 DEF Runner!Restored, Mid, RunnerState
    <3> QED
      BY <1>2, <3>2 DEF Runner!Trouble
  <2> QED
    BY <1>1, <2>1, <2>2 DEF Runner!PreTick
<1> DEFINE t == Runner!Troubled(p)
<1>5. p \in RunnerState
  BY <1>3 DEF Mid
<1>6. Ran(p, t, 0)
  BY <1>4, <1>5, TroubledIs
<1> HIDE DEF t
<1>7. Mid(t) /\ t.main.engine
  BY <1>2, <1>3, <1>6, RanKeeps DEF Ran
<1>8. Settled(Runner!Recovered(t))
  BY <1>7, RecoveredSettles
<1> QED
  BY <1>1, <1>2, <1>8, RunnerBecomes DEF t

(* A frame that ran met no trouble on the way to it.                          *)
LEMMA RecapturedCalm ==
  ASSUME NEW s \in RunnerState, NEW t \in Runner!Recaptured(s), t.runner # "none"
  PROVE  t.ghost.trouble = s.ghost.trouble
<1>1. CASE t = [s EXCEPT !.runner = "good"]
  BY <1>1 DEF RunnerState
<1>2. CASE Runner!Trouble(s) /\ t = [Runner!Troubled(s) EXCEPT !.runner = "none"]
  <2> DEFINE u == Runner!Troubled(s)
  <2>1. u \in RunnerState
    BY <1>2, TroubledIs DEF Ran
  <2>2. t = [u EXCEPT !.runner = "none"]
    BY <1>2
  <2> HIDE DEF u
  <2>3. t.runner = "none"
    BY <2>1, <2>2 DEF RunnerState
  <2> QED
    BY <2>3
<1> QED
  BY <1>1, <1>2 DEF Runner!Recaptured

LEMMA RunCapturedCalm ==
  ASSUME NEW s \in RunnerState, NEW t \in Runner!RunCaptured(s)
  PROVE  t.ghost.trouble = s.ghost.trouble
<1>0. s.ghost \in Runner!Ghost
  BY DEF RunnerState
<1>1. CASE s.runner = "good"
  <2>1. PICK r \in {"good", "none"} : t = [s EXCEPT !.runner = r, !.ghost.ran = s.ghost.ran + 1]
    BY <1>1 DEF Runner!RunCaptured
  <2> DEFINE g == [s.ghost EXCEPT !.ran = s.ghost.ran + 1]
  <2>2. t = [s EXCEPT !.runner = r, !.ghost = g]
    BY <2>1
  <2>3. g.trouble = s.ghost.trouble
    BY <1>0 DEF Runner!Ghost
  <2> HIDE DEF g
  <2>4. t.ghost = g
    BY <2>2 DEF RunnerState
  <2> QED
    BY <2>3, <2>4
<1>2. CASE s.runner # "good"
  <2>1. t = [s EXCEPT !.runner = "none"]
    BY <1>2 DEF Runner!RunCaptured
  <2> QED
    BY <2>1 DEF RunnerState
<1> QED
  BY <1>1, <1>2

LEMMA StepOneFrameCalm ==
  ASSUME NEW s \in RunnerState, NEW r \in Runner!StepOneFrame(s), r[2]
  PROVE  r[1].ghost.trouble = s.ghost.trouble
<1>1. PICK u \in IF s.runner = "none" THEN Runner!Recaptured(s) ELSE {s} :
        r \in IF u.runner = "none" THEN {<<u, FALSE>>}
              ELSE UNION {IF Runner!Emulated(u, t) THEN {<<t, TRUE>>}
                          ELSE UNION {Runner!SecondTry(w) : w \in Runner!Recaptured(t)}
                          : t \in Runner!RunCaptured(u)}
  BY DEF Runner!StepOneFrame
<1>2. u.runner # "none"
  <2> SUFFICES ASSUME u.runner = "none" PROVE FALSE
    OBVIOUS
  <2>1. r = <<u, FALSE>>
    BY <1>1
  <2> QED
    BY <2>1
<1>3. u \in RunnerState
  BY <1>1, RecapturedIs DEF Ran
<1>4. u.ghost.trouble = s.ghost.trouble
  BY <1>1, <1>2, RecapturedCalm
<1>5. PICK t \in Runner!RunCaptured(u) :
        r \in IF Runner!Emulated(u, t) THEN {<<t, TRUE>>}
              ELSE UNION {Runner!SecondTry(w) : w \in Runner!Recaptured(t)}
  BY <1>1, <1>2
<1>6. t \in RunnerState /\ t.ghost.trouble = s.ghost.trouble
  BY <1>3, <1>4, <1>5, RunCapturedIs, RunCapturedCalm DEF Ran
<1>7. CASE Runner!Emulated(u, t)
  <2>1. r = <<t, TRUE>>
    BY <1>5, <1>7
  <2> QED
    BY <1>6, <2>1
<1>8. CASE ~Runner!Emulated(u, t)
  <2>1. PICK w \in Runner!Recaptured(t) : r \in Runner!SecondTry(w)
    BY <1>5, <1>8
  <2>2. w.runner # "none"
    <3> SUFFICES ASSUME w.runner = "none" PROVE FALSE
      OBVIOUS
    <3>1. r = <<w, FALSE>>
      BY <2>1 DEF Runner!SecondTry
    <3> QED
      BY <3>1
  <2>3. w \in RunnerState /\ w.ghost.trouble = s.ghost.trouble
    BY <1>6, <2>1, <2>2, RecapturedIs, RecapturedCalm DEF Ran
  <2>4. PICK x \in Runner!RunCaptured(w) : r = <<x, Runner!Emulated(w, x)>>
    BY <2>1, <2>2 DEF Runner!SecondTry
  <2>5. r[1] = x
    BY <2>4
  <2>6. x.ghost.trouble = w.ghost.trouble
    BY <2>3, <2>4, RunCapturedCalm
  <2> QED
    BY <2>3, <2>5, <2>6
<1> QED
  BY <1>7, <1>8

LEMMA PostTickThrowsKeeps == RunnerInv /\ Runner!PostTickThrows => RunnerInv'
<1> SUFFICES ASSUME RunnerInv, Runner!PostTickThrows PROVE RunnerInv'
  OBVIOUS
<1> DEFINE now == Runner!Now
<1>1. PICK r \in Runner!StepOneFrame(now) :
        r[2] /\ Runner!Becomes(Runner!Recovered([Runner!Troubled(r[1]) EXCEPT !.ghost.torn = TRUE]))
  BY DEF Runner!PostTickThrows
<1>2. Mid(now) /\ now \in RunnerState /\ manual' \in BOOLEAN /\ now.main.engine
  BY RunnerNow DEF RunnerInv, Settled, Mid, Runner!PostTickThrows
<1> HIDE DEF now
<1> DEFINE t == r[1]
<1>3. Ran(now, t, 1)
  BY <1>1, <1>2, StepOneFrameIs DEF Says
<1> HIDE DEF t
<1>4. t \in RunnerState
  BY <1>3 DEF Ran
<1>5. Runner!Trouble(t)
  <2>1. Runner!Trouble(now)
    BY DEF Runner!PostTickThrows, now
  <2>2. t.ghost.trouble = now.ghost.trouble
    BY <1>1, <1>2, StepOneFrameCalm DEF t
  <2> QED
    BY <2>1, <2>2 DEF Runner!Trouble
<1> DEFINE u == Runner!Troubled(t)
           w == [u EXCEPT !.ghost.torn = TRUE]
<1>6. Ran(t, u, 0)
  BY <1>4, <1>5, TroubledIs
<1>7. Runner!Becomes(Runner!Recovered(w))
  BY <1>1 DEF t
<1> HIDE DEF u
<1>8. Ran(u, w, 0) /\ u \in RunnerState
  BY <1>6, TornIs DEF Ran
<1>9. w.ghost.torn
  BY <1>8 DEF RunnerState, Runner!Ghost
<1> HIDE DEF w
<1>10. Mid(w) /\ w.main.engine
  BY <1>2, <1>3, <1>6, <1>8, <1>9 DEF Mid, Ran, OneEnd
<1>11. Settled(Runner!Recovered(w))
  BY <1>10, RecoveredSettles
<1> QED
  BY <1>2, <1>7, <1>11, RunnerBecomes

LEMMA LockstepKeeps == RunnerInv /\ Runner!LockstepTick => RunnerInv'
<1> SUFFICES ASSUME RunnerInv, Runner!LockstepTick PROVE RunnerInv'
  OBVIOUS
<1> DEFINE now == Runner!Now
<1>1. PICK r \in Runner!RunStep(now) :
        Runner!Becomes(IF r[2] THEN [r[1] EXCEPT !.main.frame = @ + 1, !.ghost.counted = @ + 1] ELSE r[1])
  BY DEF Runner!LockstepTick
<1>2. /\ Settled(now) /\ now \in RunnerState /\ manual' \in BOOLEAN /\ ~now.main.engine
      /\ now.main.frame < RunnerFrames
  BY RunnerNow DEF RunnerInv, Settled, Mid, Runner!LockstepTick, Runner!Room
<1> HIDE DEF now
<1>3. Says(now, r)
  BY <1>1, <1>2, RunStepIs
<1>4. CASE r[2]
  <2> DEFINE t == r[1]
             f == t.main.frame + 1
             n == t.ghost.counted + 1
             m == [t.main EXCEPT !.frame = f]
             g == [t.ghost EXCEPT !.counted = n]
             u == [t EXCEPT !.main = m, !.ghost = g]
  <2>1. Ran(now, t, 1)
    BY <1>3, <1>4 DEF Says
  <2> HIDE DEF t
  <2>2. t \in RunnerState /\ t.main \in Runner!Main /\ t.ghost \in Runner!Ghost
    BY <2>1 DEF Ran, RunnerState
  <2>3. Runner!Becomes(u)
    BY <1>1, <1>4 DEF t
  <2>4. f \in 0..RunnerFrames /\ n \in Nat /\ n = t.ghost.counted + 1
    BY <1>2, <2>1, <2>2, RunnerAssumption DEF Ran, Runner!Main, Runner!Ghost
  <2> HIDE DEF f, n
  <2>5. /\ m \in Runner!Main /\ m.engine = t.main.engine /\ m.logged = t.main.logged
        /\ m.hidden = t.main.hidden /\ m.throws = t.main.throws /\ m.fatal = t.main.fatal
        /\ m.ticking = t.main.ticking
    BY <2>2, <2>4 DEF Runner!Main
  <2>6. /\ g \in Runner!Ghost /\ g.counted = n /\ g.ran = t.ghost.ran /\ g.torn = t.ghost.torn
        /\ g.ended = t.ghost.ended
    BY <2>2, <2>4 DEF Runner!Ghost
  <2> HIDE DEF m, g
  <2>7. u \in RunnerState /\ u.core = t.core /\ u.main = m /\ u.ghost = g
    BY <2>2, <2>5, <2>6 DEF RunnerState
  <2> HIDE DEF u
  <2>8. Settled(u)
    BY <1>2, <2>1, <2>4, <2>5, <2>6, <2>7 DEF Settled, Mid, Ran, OneEnd
  <2> QED
    BY <1>2, <2>3, <2>8, RunnerBecomes
<1>5. CASE ~r[2]
  <2>1. Ran(now, r[1], 0)
    BY <1>3, <1>5 DEF Says
  <2>2. Settled(r[1])
    BY <1>2, <2>1, RanKeeps
  <2> QED
    BY <1>1, <1>2, <1>5, <2>2, RunnerBecomes
<1> QED
  BY <1>4, <1>5

LEMMA RunnerStep == RunnerInv /\ [Runner!Next]_Runner!runnerVars => RunnerInv'
<1> SUFFICES ASSUME RunnerInv, [Runner!Next]_Runner!runnerVars PROVE RunnerInv'
  OBVIOUS
<1>1. CASE UNCHANGED Runner!runnerVars
  <2>1. UNCHANGED <<manual, runner, core, loop, ghost>>
    BY <1>1 DEF Runner!runnerVars
  <2>2. Runner!Now' = Runner!Now
    BY <2>1 DEF Runner!Now
  <2> QED
    BY <2>1, <2>2 DEF RunnerInv
<1> QED
  BY <1>1, EnterKeeps, PageFrameKeeps, ReplacedKeeps, LoadKeeps, UnpauseKeeps, EngineTickKeeps,
     PreTickThrowsKeeps, PostTickThrowsKeeps, LockstepKeeps, RunnerStarts DEF Runner!Next

RunnerPart == part = "runner" => RunnerInv

LEMMA RunnerPartInit == PageInit => RunnerPart
BY RunnerInit DEF PageInit, RunnerPart

LEMMA RunnerPartStep == RunnerPart /\ [PageNext]_pageVars => RunnerPart'
<1> SUFFICES ASSUME RunnerPart, [PageNext]_pageVars, part' = "runner" PROVE RunnerInv'
  BY DEF RunnerPart
<1>1. part = "runner"
  BY DEF PageNext, pageVars, Keep8, Keep7, Keep6, Keep5, Keep4
<1>2. Runner!Next \/ UNCHANGED Runner!runnerVars
  BY <1>1 DEF PageNext, pageVars, Runner!runnerVars
<1> QED
  BY <1>1, <1>2, RunnerStep DEF RunnerPart

(* However the runner is lost and replaced, and whatever throws where: a        *)
(* frame is counted exactly when the core ran it, the tick and the engine       *)
(* agree on the frame between ticks, a page is told once that its core is       *)
(* gone, and a picture that is off belongs to a replay.                        *)
THEOREM RunnerStaysSound == PageSpec => []RunnerSound
<1>1. RunnerPart => RunnerSound
  BY RunnerTypes DEF RunnerPart, RunnerSound
<1> QED
  BY <1>1, RunnerPartInit, RunnerPartStep, PTL DEF PageSpec

HIDE DEF manual, runner, core, loop, ghost

(***************************************************************************)
(* ShadowOverlay: the shadow emulator as a picture.  The count of the steps *)
(* among the queue's messages is shown to exist, to grow by one with a step *)
(* that is posted and to shrink by one with a step that is answered.        *)
(***************************************************************************)

shadow    == v1
overlay   == v2
resync    == v3
replaying == v4
USE DEF shadow, overlay, resync, replaying

(* The steps that are counted, by recursion over the messages.                *)
StepsOf(q, f, i) == IF i = 0 THEN 0 ELSE f[i - 1] + (IF q[i].kind \in Overlay!Steps THEN 1 ELSE 0)
Counts(q, f) == f = [i \in 0..Len(q) |-> StepsOf(q, f, i)]
Messages == Seq([kind : Overlay!Kinds, seq : 0..ShadowPosts])

LEMMA CountExists ==
  ASSUME NEW q, NEW n \in Nat
  PROVE  \E f : f = [i \in 0..n |-> StepsOf(q, f, i)]
<1> DEFINE P(m) == \E f : f = [i \in 0..m |-> StepsOf(q, f, i)]
           S == {m \in Nat : P(m)}
<1>1. 0 \in S
  <2> DEFINE f == [i \in 0..0 |-> 0]
  <2>1. f = [i \in 0..0 |-> StepsOf(q, f, i)]
    BY DEF StepsOf
  <2> HIDE DEF f
  <2> QED
    BY <2>1
<1>2. ASSUME NEW m \in S PROVE m + 1 \in S
  <2>1. PICK f : f = [i \in 0..m |-> StepsOf(q, f, i)]
    BY <1>2
  <2> DEFINE g == [i \in 0..(m + 1) |-> StepsOf(q, f, i)]
  <2>2. \A i \in 0..m : g[i] = f[i]
    BY <2>1
  <2>3. \A i \in 0..(m + 1) : g[i] = StepsOf(q, f, i)
    OBVIOUS
  <2>4. g = [i \in 0..(m + 1) |-> g[i]]
    OBVIOUS
  <2> HIDE DEF g
  <2>5. \A i \in 0..(m + 1) : StepsOf(q, f, i) = StepsOf(q, g, i)
    <3> SUFFICES ASSUME NEW i \in 0..(m + 1), i # 0 PROVE f[i - 1] = g[i - 1]
      BY DEF StepsOf
    <3>1. i - 1 \in 0..m
      OBVIOUS
    <3> QED
      BY <2>2, <3>1
  <2>6. g = [i \in 0..(m + 1) |-> StepsOf(q, g, i)]
    BY <2>3, <2>4, <2>5
  <2> QED
    BY <2>6
<1>3. S \in SUBSET Nat
  OBVIOUS
<1> HIDE DEF S
<1>4. S = Nat
  BY <1>1, <1>2, <1>3, AllNaturals
<1> QED
  BY <1>4 DEF S

LEMMA CountIs ==
  ASSUME NEW q \in Messages
  PROVE  \E f : Counts(q, f) /\ Overlay!Unanswered(q) = f[Len(q)]
<1> DEFINE F == CHOOSE f : f = [i \in 0..Len(q) |-> StepsOf(q, f, i)]
<1>1. \E f : f = [i \in 0..Len(q) |-> StepsOf(q, f, i)]
  <2> DEFINE n == Len(q)
  <2>1. n \in Nat
    BY DEF Messages
  <2> HIDE DEF n
  <2>2. \E f : f = [i \in 0..n |-> StepsOf(q, f, i)]
    BY <2>1, CountExists
  <2> QED
    BY <2>2 DEF n
<1>2. F = [i \in 0..Len(q) |-> StepsOf(q, F, i)]
  BY <1>1
<1>3. Overlay!Unanswered(q) = F[Len(q)]
  BY DEF Overlay!Unanswered, StepsOf
<1> HIDE DEF F
<1> QED
  BY <1>2, <1>3 DEF Counts

LEMMA CountStep ==
  ASSUME NEW q, NEW f, Counts(q, f), NEW i \in 0..Len(q)
  PROVE  f[i] = IF i = 0 THEN 0 ELSE f[i - 1] + (IF q[i].kind \in Overlay!Steps THEN 1 ELSE 0)
BY DEF Counts, StepsOf

(* The count is a natural number, and two counts of the beginnings of two      *)
(* sequences agree where the sequences do.                                   *)
LEMMA CountTyped ==
  ASSUME NEW q \in Messages, NEW f, Counts(q, f)
  PROVE  \A i \in 0..Len(q) : f[i] \in Nat
<1> DEFINE P(i) == i \in 0..Len(q) => f[i] \in Nat
           S == {i \in Nat : P(i)}
<1>0. Len(q) \in Nat
  BY DEF Messages
<1>1. 0 \in S
  BY <1>0, CountStep
<1>2. ASSUME NEW i \in S PROVE i + 1 \in S
  <2>1. SUFFICES ASSUME i + 1 \in 0..Len(q) PROVE f[i + 1] \in Nat
    OBVIOUS
  <2>2. i \in 0..Len(q) /\ f[i] \in Nat /\ (i + 1) - 1 = i /\ i + 1 # 0
    BY <1>0, <1>2, <2>1
  <2>3. f[i + 1] = f[i] + (IF q[i + 1].kind \in Overlay!Steps THEN 1 ELSE 0)
    BY <2>1, <2>2, CountStep
  <2> QED
    BY <2>2, <2>3
<1>3. S \in SUBSET Nat
  OBVIOUS
<1> HIDE DEF S
<1>4. S = Nat
  BY <1>1, <1>2, <1>3, AllNaturals
<1> QED
  BY <1>0, <1>4 DEF S

(* q runs from the message after position d of p on.                          *)
LEMMA CountShifted ==
  ASSUME NEW p \in Messages, NEW q \in Messages, NEW f, NEW g, Counts(p, f), Counts(q, g),
         NEW d \in Nat, NEW n \in Nat, n <= Len(q), d + n <= Len(p), \A i \in 1..n : q[i] = p[d + i]
  PROVE  f[d + n] = f[d] + g[n]
<1> DEFINE P(i) == i <= n => f[d + i] = f[d] + g[i]
           S == {i \in Nat : P(i)}
<1>0. Len(p) \in Nat /\ Len(q) \in Nat /\ (\A i \in 0..Len(p) : f[i] \in Nat) /\ \A i \in 0..Len(q) : g[i] \in Nat
  <2>1. Len(p) \in Nat /\ Len(q) \in Nat
    BY DEF Messages
  <2> QED
    BY <2>1, CountTyped
<1>1. 0 \in S
  <2>1. g[0] = 0 /\ f[d] \in Nat
    BY <1>0, CountStep
  <2> QED
    BY <2>1
<1>2. ASSUME NEW i \in S PROVE i + 1 \in S
  <2>1. SUFFICES ASSUME i + 1 <= n PROVE f[d + (i + 1)] = f[d] + g[i + 1]
    OBVIOUS
  <2>2. /\ f[d + i] = f[d] + g[i] /\ i + 1 \in 0..Len(q) /\ d + (i + 1) \in 0..Len(p) /\ i + 1 # 0
        /\ d + (i + 1) # 0 /\ (d + (i + 1)) - 1 = d + i /\ (i + 1) - 1 = i /\ i + 1 \in 1..n
        /\ i \in 0..Len(q) /\ d \in 0..Len(p)
    BY <1>0, <1>2, <2>1
  <2>3. g[i + 1] = g[i] + (IF q[i + 1].kind \in Overlay!Steps THEN 1 ELSE 0)
    BY <2>2, CountStep
  <2>4. f[d + (i + 1)] = f[d + i] + (IF p[d + (i + 1)].kind \in Overlay!Steps THEN 1 ELSE 0)
    <3> DEFINE k == d + (i + 1)
    <3>1. k \in 0..Len(p) /\ k # 0 /\ k - 1 = d + i
      BY <2>2
    <3> HIDE DEF k
    <3>2. f[k] = f[k - 1] + (IF p[k].kind \in Overlay!Steps THEN 1 ELSE 0)
      BY <3>1, CountStep
    <3> QED
      BY <3>1, <3>2 DEF k
  <2>5. q[i + 1] = p[d + (i + 1)]
    BY <2>2
  <2>6. g[i] \in Nat /\ f[d] \in Nat
    BY <1>0, <2>2
  <2> QED
    BY <2>2, <2>3, <2>4, <2>5, <2>6
<1>3. S \in SUBSET Nat
  OBVIOUS
<1> HIDE DEF S
<1>4. S = Nat
  BY <1>1, <1>2, <1>3, AllNaturals
<1> QED
  BY <1>4 DEF S

LEMMA UnansweredEmpty == Overlay!Unanswered(<<>>) = 0
<1>1. <<>> \in Messages
  BY DEF Messages
<1>2. PICK f : Counts(<<>>, f) /\ Overlay!Unanswered(<<>>) = f[Len(<<>>)]
  BY <1>1, CountIs
<1>3. Len(<<>>) = 0
  OBVIOUS
<1>4. f[0] = 0
  BY <1>2, <1>3, CountStep
<1> QED
  BY <1>2, <1>3, <1>4

LEMMA UnansweredAppend ==
  ASSUME NEW q \in Messages, NEW m \in [kind : Overlay!Kinds, seq : 0..ShadowPosts]
  PROVE  /\ Overlay!Unanswered(q) \in Nat
         /\ Overlay!Unanswered(Append(q, m)) =
              Overlay!Unanswered(q) + (IF m.kind \in Overlay!Steps THEN 1 ELSE 0)
<1> DEFINE p == Append(q, m)
           n == Len(q)
<1>1. p \in Messages /\ n \in Nat /\ Len(p) = n + 1 /\ p[n + 1] = m /\ \A i \in 1..n : p[i] = q[i]
  BY DEF Messages
<1> HIDE DEF p
<1>2. PICK f : Counts(q, f) /\ Overlay!Unanswered(q) = f[n]
  BY CountIs
<1>3. PICK g : Counts(p, g) /\ Overlay!Unanswered(p) = g[Len(p)]
  BY <1>1, CountIs
<1>4. f[n] \in Nat /\ g[n] \in Nat /\ g[0] = 0
  BY <1>1, <1>2, <1>3, CountTyped, CountStep
<1> HIDE DEF n
<1>5. g[n] = g[0] + f[n]
  <2> DEFINE d == 0
  <2>1. /\ d \in Nat /\ n <= Len(q) /\ d + n <= Len(p) /\ d = 0 /\ d + n = n
        /\ \A i \in 1..n : q[i] = p[d + i]
    BY <1>1 DEF n
  <2> HIDE DEF d
  <2>2. g[d + n] = g[d] + f[n]
    BY <1>1, <1>2, <1>3, <2>1, CountShifted
  <2> QED
    BY <2>1, <2>2
<1>6. g[n + 1] = g[n] + (IF m.kind \in Overlay!Steps THEN 1 ELSE 0)
  <2>1. n + 1 \in 0..Len(p) /\ n + 1 # 0 /\ (n + 1) - 1 = n
    BY <1>1
  <2> QED
    BY <1>1, <1>3, <2>1, CountStep
<1> QED
  BY <1>1, <1>2, <1>3, <1>4, <1>5, <1>6 DEF p

LEMMA UnansweredTail ==
  ASSUME NEW q \in Messages, q # <<>>
  PROVE  /\ Tail(q) \in Messages /\ Overlay!Unanswered(Tail(q)) \in Nat
         /\ Overlay!Unanswered(q) =
              Overlay!Unanswered(Tail(q)) + (IF Head(q).kind \in Overlay!Steps THEN 1 ELSE 0)
<1> DEFINE t == Tail(q)
           n == Len(t)
<1>1. /\ t \in Messages /\ n \in Nat /\ Len(q) = n + 1 /\ Head(q) = q[1]
      /\ \A i \in 1..n : t[i] = q[1 + i]
  BY DEF Messages
<1> HIDE DEF t
<1>2. PICK f : Counts(q, f) /\ Overlay!Unanswered(q) = f[Len(q)]
  BY CountIs
<1>3. PICK g : Counts(t, g) /\ Overlay!Unanswered(t) = g[n]
  BY <1>1, CountIs
<1> HIDE DEF n
<1>4. f[1 + n] = f[1] + g[n]
  <2> DEFINE d == 1
  <2>1. d \in Nat /\ n <= Len(t) /\ d + n <= Len(q) /\ \A i \in 1..n : t[i] = q[d + i]
    BY <1>1 DEF n
  <2> HIDE DEF d
  <2>2. f[d + n] = f[d] + g[n]
    BY <1>1, <1>2, <1>3, <2>1, CountShifted, SMTT(30)
  <2> QED
    BY <2>2 DEF d
<1>5. f[0] = 0 /\ g[n] \in Nat
  BY <1>1, <1>2, <1>3, CountStep, CountTyped DEF n
<1>6. f[1] = f[0] + (IF q[1].kind \in Overlay!Steps THEN 1 ELSE 0)
  <2>1. 1 \in 0..Len(q) /\ 1 # 0 /\ 1 - 1 = 0
    BY <1>1
  <2> QED
    BY <1>2, <2>1, CountStep
<1> QED
  BY <1>1, <1>2, <1>3, <1>4, <1>5, <1>6 DEF t

ShadowSet ==
  [worker : {"off", "booting", "ready", "failed"}, queue : Messages, inFlight : Nat,
   seq : 0..ShadowPosts, starts : 0..ShadowStarts]
OverlaySet ==
  [visible : BOOLEAN, liveHidden : BOOLEAN, frozen : BOOLEAN, hide : {"none", "hold", "fade"},
   prewarm : 0..ShadowPosts, paint : {"none", "black", "good"}, raf : BOOLEAN, rafInFlight : BOOLEAN]
ResyncSet == [owed : BOOLEAN, timer : BOOLEAN]

(* Before the worker is ready its only message is the first; then no other of   *)
(* that kind follows, whose answer would set the count to 0.                   *)
WorkerOk(sh) ==
  /\ sh \in ShadowSet
  /\ sh.worker \in {"off", "failed"} => sh.queue = <<>>
  /\ sh.worker = "booting" => Len(sh.queue) = 1 /\ sh.queue[1].kind = "init"
  /\ sh.worker = "ready" => /\ sh.inFlight = Overlay!Unanswered(sh.queue)
                            /\ \A i \in 1..Len(sh.queue) : sh.queue[i].kind # "init"

CoverOk(worker, ov, rs) ==
  /\ ov \in OverlaySet /\ rs \in ResyncSet
  /\ ov.liveHidden => ov.visible
  /\ (ov.visible \/ ov.prewarm # 0 \/ ov.raf) => worker = "ready"
  /\ rs.owed => ov.visible

ShadowOk(s) ==
  /\ s = [sh |-> s.sh, ov |-> s.ov, rs |-> s.rs]
  /\ WorkerOk(s.sh) /\ CoverOk(s.sh.worker, s.ov, s.rs)

ShadowInv == ShadowOk(Overlay!Now) /\ replaying \in BOOLEAN

LEMMA OverlayNow ==
  /\ Overlay!Now.sh = shadow /\ Overlay!Now.ov = overlay /\ Overlay!Now.rs = resync
BY DEF Overlay!Now

LEMMA ShadowTypes == ShadowInv => Overlay!ShadowTypeOK /\ Overlay!ShadowSound
<1> SUFFICES ASSUME ShadowInv PROVE Overlay!ShadowTypeOK /\ Overlay!ShadowSound
  OBVIOUS
<1>1. /\ shadow \in ShadowSet /\ overlay \in OverlaySet /\ resync \in ResyncSet /\ replaying \in BOOLEAN
      /\ WorkerOk(shadow) /\ CoverOk(shadow.worker, overlay, resync)
  BY OverlayNow DEF ShadowInv, ShadowOk, WorkerOk, CoverOk
<1>2. Overlay!ShadowTypeOK
  BY <1>1 DEF Overlay!ShadowTypeOK, Overlay!State, ShadowSet, OverlaySet, ResyncSet, Messages
<1>3. Overlay!InFlightIsExact /\ Overlay!DeadWorkerUncovers /\ Overlay!OwedResyncHasItsHide
  BY <1>1, OverlayNow DEF WorkerOk, CoverOk, Overlay!InFlightIsExact, Overlay!DeadWorkerUncovers,
     Overlay!OwedResyncHasItsHide, Overlay!Ready
<1> QED
  BY <1>2, <1>3 DEF Overlay!ShadowSound

LEMMA ShadowBecomes ==
  ASSUME NEW s, Overlay!Becomes(s), replaying' \in BOOLEAN, ShadowOk(s)
  PROVE  ShadowInv'
<1>1. shadow' = s.sh /\ overlay' = s.ov /\ resync' = s.rs
  BY DEF Overlay!Becomes
<1>2. Overlay!Now' = [sh |-> s.sh, ov |-> s.ov, rs |-> s.rs]
  BY <1>1 DEF Overlay!Now
<1>3. Overlay!Now' = s
  BY <1>2 DEF ShadowOk
<1> QED
  BY <1>3 DEF ShadowInv

LEMMA ShadowInit == Overlay!Init => ShadowInv
<1> SUFFICES ASSUME Overlay!Init PROVE ShadowInv
  OBVIOUS
<1>0. 0 \in 0..ShadowPosts /\ 0 \in 0..ShadowStarts /\ <<>> \in Messages
  BY OverlayAssumption DEF Messages
<1>1. WorkerOk(shadow) /\ shadow.worker = "off"
  BY <1>0 DEF Overlay!Init, WorkerOk, ShadowSet
<1>2. CoverOk(shadow.worker, overlay, resync) /\ replaying \in BOOLEAN
  BY <1>0 DEF Overlay!Init, Overlay!Unshown, CoverOk, OverlaySet, ResyncSet
<1> QED
  BY <1>1, <1>2, OverlayNow DEF ShadowInv, ShadowOk, Overlay!Now

(* One of the three records changes.                                         *)
LEMMA WithOverlay ==
  ASSUME NEW s, ShadowOk(s), NEW o \in OverlaySet, o.liveHidden => o.visible,
         (o.visible \/ o.prewarm # 0 \/ o.raf) => Overlay!Ready(s), s.rs.owed => o.visible,
         NEW t, t = [s EXCEPT !.ov = o]
  PROVE  ShadowOk(t) /\ t.sh = s.sh /\ t.rs = s.rs /\ t.ov = o
<1>1. t = [sh |-> s.sh, ov |-> o, rs |-> s.rs]
  BY DEF ShadowOk
<1> QED
  BY <1>1 DEF ShadowOk, CoverOk, Overlay!Ready

LEMMA WithResync ==
  ASSUME NEW s, ShadowOk(s), NEW r \in ResyncSet, r.owed => s.ov.visible,
         NEW t, t = [s EXCEPT !.rs = r]
  PROVE  ShadowOk(t) /\ t.sh = s.sh /\ t.rs = r /\ t.ov = s.ov
<1>1. t = [sh |-> s.sh, ov |-> s.ov, rs |-> r]
  BY DEF ShadowOk
<1> QED
  BY <1>1 DEF ShadowOk, CoverOk

LEMMA WithShadow ==
  ASSUME NEW s, ShadowOk(s), NEW h, WorkerOk(h), h.worker = s.sh.worker,
         NEW t, t = [s EXCEPT !.sh = h]
  PROVE  ShadowOk(t) /\ t.sh = h /\ t.rs = s.rs /\ t.ov = s.ov
<1>1. t = [sh |-> h, ov |-> s.ov, rs |-> s.rs]
  BY DEF ShadowOk
<1> QED
  BY <1>1 DEF ShadowOk

(* Messages to a worker that is ready.                                        *)
LEMMA PostedIs ==
  ASSUME NEW h, WorkerOk(h), h.worker = "ready", h.seq < ShadowPosts, NEW kind \in Overlay!Kinds \ {"init"},
         NEW n \in {0, 1}, n = (IF kind \in Overlay!Steps THEN 1 ELSE 0),
         NEW k, k = [h EXCEPT !.seq = h.seq + 1, !.inFlight = h.inFlight + n,
                              !.queue = Append(h.queue, [kind |-> kind, seq |-> h.seq + 1])]
  PROVE  WorkerOk(k) /\ k.worker = "ready"
<1> DEFINE seq == h.seq + 1
           m == [kind |-> kind, seq |-> seq]
           q == Append(h.queue, m)
           f == h.inFlight + n
<1>0. h \in ShadowSet /\ h.queue \in Messages /\ h.inFlight \in Nat
  BY DEF WorkerOk, ShadowSet
<1>1. seq \in 0..ShadowPosts
  BY <1>0, OverlayAssumption DEF ShadowSet
<1>2. k = [h EXCEPT !.seq = seq, !.inFlight = f, !.queue = q]
  OBVIOUS
<1> HIDE DEF seq
<1>3. m \in [kind : Overlay!Kinds, seq : 0..ShadowPosts] /\ m.kind = kind
  BY <1>1
<1> HIDE DEF m
<1>4. /\ q \in Messages /\ Len(q) = Len(h.queue) + 1 /\ q[Len(h.queue) + 1] = m
      /\ Len(h.queue) \in Nat /\ \A i \in 1..Len(h.queue) : q[i] = h.queue[i]
  BY <1>0, <1>3 DEF Messages
<1>5. Overlay!Unanswered(q) = Overlay!Unanswered(h.queue) + n
  BY <1>0, <1>3, UnansweredAppend
<1>6. f \in Nat /\ f = Overlay!Unanswered(q)
  BY <1>0, <1>5 DEF WorkerOk
<1> HIDE DEF q, f
<1>7. /\ k \in ShadowSet /\ k.worker = "ready" /\ k.queue = q /\ k.inFlight = f
  BY <1>0, <1>1, <1>2, <1>4, <1>6 DEF ShadowSet
<1>8. \A i \in 1..Len(q) : q[i].kind # "init"
  <2> SUFFICES ASSUME NEW i \in 1..Len(q) PROVE q[i].kind # "init"
    OBVIOUS
  <2>1. CASE i = Len(h.queue) + 1
    BY <1>3, <1>4, <2>1
  <2>2. CASE i # Len(h.queue) + 1
    <3>1. i \in 1..Len(h.queue)
      BY <1>4, <2>2
    <3> QED
      BY <1>4, <3>1 DEF WorkerOk
  <2> QED
    BY <2>1, <2>2
<1> QED
  BY <1>6, <1>7, <1>8 DEF WorkerOk

LEMMA PostIs ==
  ASSUME NEW s, ShadowOk(s), Overlay!Ready(s), Overlay!CanPost(s), NEW kind \in {"resync", "resync-split"}
  PROVE  /\ ShadowOk(Overlay!Post(s, kind)) /\ Overlay!Ready(Overlay!Post(s, kind))
         /\ Overlay!Post(s, kind).ov = s.ov /\ Overlay!Post(s, kind).rs = s.rs
<1> DEFINE h == s.sh
           n == 0
           k == [h EXCEPT !.seq = h.seq + 1, !.inFlight = h.inFlight + n,
                          !.queue = Append(h.queue, [kind |-> kind, seq |-> h.seq + 1])]
           t == [s EXCEPT !.sh = k]
<1>1. /\ WorkerOk(h) /\ h.worker = "ready" /\ h.seq < ShadowPosts /\ kind \in Overlay!Kinds \ {"init"}
      /\ n \in {0, 1} /\ n = (IF kind \in Overlay!Steps THEN 1 ELSE 0)
  BY DEF ShadowOk, Overlay!Ready, Overlay!CanPost, Overlay!Kinds, Overlay!Steps
<1>2. h \in ShadowSet /\ h.inFlight + n = h.inFlight
  BY <1>1 DEF WorkerOk, ShadowSet
<1>3. [h EXCEPT !.seq = h.seq + 1, !.queue = Append(h.queue, [kind |-> kind, seq |-> h.seq + 1])] = k
  BY <1>2 DEF ShadowSet
<1>4. Overlay!Post(s, kind) = t
  BY <1>3 DEF Overlay!Post
<1> HIDE DEF h, n
<1>5. WorkerOk(k) /\ k.worker = "ready"
  BY <1>1, PostedIs
<1> HIDE DEF k
<1>6. ShadowOk(t) /\ t.sh = k /\ t.rs = s.rs /\ t.ov = s.ov
  BY <1>1, <1>5, WithShadow DEF h
<1> QED
  BY <1>4, <1>5, <1>6 DEF Overlay!Ready

LEMMA PostStepIs ==
  ASSUME NEW s, ShadowOk(s), NEW force \in BOOLEAN, Overlay!Posts(s, force), NEW kind \in Overlay!Steps,
         NEW t, t = Overlay!PostStep(s, kind)
  PROVE  ShadowOk(t) /\ Overlay!Ready(t) /\ t.ov = s.ov /\ t.rs = s.rs
<1> DEFINE h == s.sh
           n == 1
           k == [h EXCEPT !.seq = h.seq + 1, !.inFlight = h.inFlight + n,
                          !.queue = Append(h.queue, [kind |-> kind, seq |-> h.seq + 1])]
           u == [s EXCEPT !.sh = k]
<1>1. /\ WorkerOk(h) /\ h.worker = "ready" /\ h.seq < ShadowPosts /\ kind \in Overlay!Kinds \ {"init"}
      /\ n \in {0, 1} /\ n = (IF kind \in Overlay!Steps THEN 1 ELSE 0)
  BY DEF ShadowOk, Overlay!Ready, Overlay!CanPost, Overlay!Kinds, Overlay!Steps, Overlay!Posts
<1>2. h \in ShadowSet /\ s = [sh |-> s.sh, ov |-> s.ov, rs |-> s.rs]
  BY <1>1 DEF WorkerOk, ShadowOk
<1>3. t = u
  BY <1>2 DEF Overlay!PostStep, Overlay!Post, ShadowSet
<1> HIDE DEF h, n
<1>5. WorkerOk(k) /\ k.worker = "ready"
  BY <1>1, PostedIs
<1> HIDE DEF k
<1>6. ShadowOk(u) /\ u.sh = k /\ u.rs = s.rs /\ u.ov = s.ov
  BY <1>1, <1>5, WithShadow DEF h
<1> QED
  BY <1>3, <1>5, <1>6 DEF Overlay!Ready

LEMMA SendStateIs ==
  ASSUME NEW s, ShadowOk(s), NEW t \in Overlay!SendState(s)
  PROVE  ShadowOk(t) /\ t.ov = s.ov /\ t.rs = s.rs
BY PostIs DEF Overlay!SendState

LEMMA ScheduleResyncIs ==
  ASSUME NEW s, ShadowOk(s), NEW t \in Overlay!ScheduleResync(s)
  PROVE  ShadowOk(t)
<1>1. CASE t = s
  BY <1>1
<1>2. CASE t = [s EXCEPT !.rs.owed = TRUE] /\ s.ov.visible
  <2> DEFINE r == [s.rs EXCEPT !.owed = TRUE]
  <2>1. r \in ResyncSet
    BY DEF ShadowOk, CoverOk, ResyncSet
  <2>2. t = [s EXCEPT !.rs = r]
    BY <1>2
  <2> HIDE DEF r
  <2> QED
    BY <1>2, <2>1, <2>2, WithResync, ZenonT(30)
<1>3. CASE t = [s EXCEPT !.rs.timer = TRUE]
  <2> DEFINE r == [s.rs EXCEPT !.timer = TRUE]
  <2>1. r \in ResyncSet /\ (r.owed => s.ov.visible)
    BY DEF ShadowOk, CoverOk, ResyncSet
  <2>2. t = [s EXCEPT !.rs = r]
    BY <1>3
  <2> HIDE DEF r
  <2> QED
    BY <2>1, <2>2, WithResync
<1>4. CASE t \in Overlay!SendState(s)
  BY <1>4, SendStateIs
<1> QED
  BY <1>1, <1>2, <1>3, <1>4 DEF Overlay!ScheduleResync, Overlay!Covering

(* Hiding, stopping, starting.                                               *)
LEMMA UncoveredIs ==
  ASSUME NEW o \in OverlaySet, NEW u, u = Overlay!Uncovered(o)
  PROVE  u \in OverlaySet /\ ~u.visible /\ ~u.liveHidden /\ u.prewarm = 0 /\ ~u.raf
<1>1. 0 \in 0..ShadowPosts
  BY OverlayAssumption
<1>2. u = [o EXCEPT !.visible = FALSE, !.liveHidden = FALSE, !.hide = "none", !.prewarm = 0,
                    !.raf = FALSE, !.rafInFlight = FALSE]
  BY DEF Overlay!Uncovered
<1> QED
  BY <1>1, <1>2 DEF OverlaySet

LEMMA DoHideIs ==
  ASSUME NEW s, ShadowOk(s), NEW t \in Overlay!DoHide(s)
  PROVE  ShadowOk(t)
<1> DEFINE u == Overlay!Uncovered(s.ov)
           r == [s.rs EXCEPT !.owed = FALSE]
           v == [s EXCEPT !.rs = r]
           w == [v EXCEPT !.ov = u]
<1>1. s.ov \in OverlaySet /\ s.rs \in ResyncSet /\ s = [sh |-> s.sh, ov |-> s.ov, rs |-> s.rs]
  BY DEF ShadowOk, CoverOk
<1>2. IF s.rs.owed THEN t \in Overlay!ScheduleResync(w) ELSE t = [s EXCEPT !.ov = u]
  BY <1>1 DEF Overlay!DoHide
<1>3. u \in OverlaySet /\ ~u.visible /\ ~u.liveHidden /\ u.prewarm = 0 /\ ~u.raf
  BY <1>1, UncoveredIs
<1>4. r \in ResyncSet /\ ~r.owed
  BY <1>1 DEF ResyncSet
<1> HIDE DEF u, r
<1>5. ShadowOk(v) /\ v.rs = r
  BY <1>4, WithResync
<1> HIDE DEF v
<1>6. ShadowOk(w)
  BY <1>3, <1>4, <1>5, WithOverlay
<1> HIDE DEF w
<1>7. CASE s.rs.owed
  BY <1>2, <1>6, <1>7, ScheduleResyncIs
<1>8. CASE ~s.rs.owed
  BY <1>2, <1>3, <1>8, WithOverlay
<1> QED
  BY <1>7, <1>8

LEMMA HideSet ==
  ASSUME NEW s, ShadowOk(s), NEW x \in {"hold", "fade"}
  PROVE  ShadowOk([s EXCEPT !.ov.hide = x])
<1> DEFINE o == [s.ov EXCEPT !.hide = x]
           t == [s EXCEPT !.ov = o]
<1>1. s.ov \in OverlaySet
  BY DEF ShadowOk, CoverOk
<1>2. o \in OverlaySet /\ o.visible = s.ov.visible /\ o.liveHidden = s.ov.liveHidden
      /\ o.prewarm = s.ov.prewarm /\ o.raf = s.ov.raf
  BY <1>1 DEF OverlaySet
<1>3. t = [s EXCEPT !.ov.hide = x]
  OBVIOUS
<1> HIDE DEF o
<1>4. ShadowOk(t)
  BY <1>2, WithOverlay DEF ShadowOk, CoverOk, Overlay!Ready
<1> QED
  BY <1>3, <1>4

LEMMA FrozenSet ==
  ASSUME NEW s, ShadowOk(s), NEW x \in BOOLEAN, NEW t, t = [s EXCEPT !.ov.frozen = x]
  PROVE  ShadowOk(t) /\ t.sh = s.sh
<1> DEFINE o == [s.ov EXCEPT !.frozen = x]
           u == [s EXCEPT !.ov = o]
<1>1. s.ov \in OverlaySet
  BY DEF ShadowOk, CoverOk
<1>2. o \in OverlaySet /\ o.visible = s.ov.visible /\ o.liveHidden = s.ov.liveHidden
      /\ o.prewarm = s.ov.prewarm /\ o.raf = s.ov.raf
  BY <1>1 DEF OverlaySet
<1>3. t = u
  OBVIOUS
<1> HIDE DEF o
<1>4. ShadowOk(u) /\ u.sh = s.sh
  BY <1>2, WithOverlay DEF ShadowOk, CoverOk, Overlay!Ready
<1> QED
  BY <1>3, <1>4

LEMMA HideIs ==
  ASSUME NEW s, ShadowOk(s), NEW t \in Overlay!Hide(s)
  PROVE  ShadowOk(t)
<1> DEFINE u == [s EXCEPT !.ov.frozen = FALSE]
<1>1. ShadowOk(u)
  BY FrozenSet
<1>2. t = u \/ t \in {[u EXCEPT !.ov.hide = "hold"], [u EXCEPT !.ov.hide = "fade"]} \/ t \in Overlay!DoHide(u)
  BY DEF Overlay!Hide
<1> HIDE DEF u
<1> QED
  BY <1>1, <1>2, HideSet, DoHideIs

LEMMA StopIs ==
  ASSUME NEW s, ShadowOk(s), NEW worker \in {"off", "failed"}
  PROVE  ShadowOk(Overlay!Stop(s, worker))
<1> DEFINE u == Overlay!Uncovered(s.ov)
           o == [u EXCEPT !.paint = "none"]
           h == [s.sh EXCEPT !.worker = worker, !.queue = <<>>, !.inFlight = 0]
           r == [owed |-> FALSE, timer |-> FALSE]
           t == [sh |-> h, ov |-> o, rs |-> r]
<1>1. s = [sh |-> s.sh, ov |-> s.ov, rs |-> s.rs] /\ s.ov \in OverlaySet /\ s.sh \in ShadowSet
  BY DEF ShadowOk, CoverOk, WorkerOk
<1> DEFINE a == [s EXCEPT !.sh = h]
           b == [a EXCEPT !.ov = o]
           c == [b EXCEPT !.rs = r]
<1>2. Overlay!Stop(s, worker) = c
  BY <1>1 DEF Overlay!Stop, Overlay!Uncovered, ShadowSet, OverlaySet
<1>3. u \in OverlaySet /\ ~u.visible /\ ~u.liveHidden /\ u.prewarm = 0 /\ ~u.raf
  BY <1>1, UncoveredIs
<1> HIDE DEF u
<1>4. o \in OverlaySet /\ ~o.visible /\ ~o.liveHidden /\ o.prewarm = 0 /\ ~o.raf
  BY <1>3 DEF OverlaySet
<1>10. <<>> \in Messages
  BY DEF Messages
<1>5. h \in ShadowSet /\ h.worker = worker /\ h.queue = <<>>
  BY <1>1, <1>10 DEF ShadowSet
<1>6. r \in ResyncSet /\ ~r.owed
  BY DEF ResyncSet
<1> HIDE DEF o, h, r
<1>9. c = t
  <2>1. a = [sh |-> h, ov |-> s.ov, rs |-> s.rs]
    BY <1>1
  <2> HIDE DEF a
  <2>2. b = [sh |-> h, ov |-> o, rs |-> s.rs]
    BY <2>1
  <2> HIDE DEF b
  <2> QED
    BY <2>2
<1>7. WorkerOk(h) /\ CoverOk(h.worker, o, r)
  BY <1>4, <1>5, <1>6 DEF WorkerOk, CoverOk
<1>8. ShadowOk(t)
  BY <1>7 DEF ShadowOk
<1> QED
  BY <1>2, <1>9, <1>8

LEMMA MaybeStartIs ==
  ASSUME NEW s, ShadowOk(s), NEW t \in Overlay!MaybeStart(s)
  PROVE  ShadowOk(t)
<1>1. CASE t = s
  BY <1>1
<1>2. CASE t = Overlay!Stop(s, "failed")
  BY <1>2, StopIs
<1>3. CASE /\ s.sh.worker = "off" /\ s.sh.starts # ShadowStarts /\ Overlay!CanPost(s)
           /\ t = [Overlay!Post(s, "init") EXCEPT !.sh.worker = "booting", !.sh.starts = @ + 1]
  <2> DEFINE seq == s.sh.seq + 1
             n == s.sh.starts + 1
             m == [kind |-> "init", seq |-> seq]
             q == <<m>>
             h == [s.sh EXCEPT !.seq = seq, !.queue = q, !.worker = "booting", !.starts = n]
             u == [sh |-> h, ov |-> s.ov, rs |-> s.rs]
  <2>1. /\ s = [sh |-> s.sh, ov |-> s.ov, rs |-> s.rs] /\ s.sh \in ShadowSet /\ s.sh.queue = <<>>
        /\ CoverOk("off", s.ov, s.rs)
    BY <1>3 DEF ShadowOk, WorkerOk
  <2>2. seq \in 0..ShadowPosts /\ n \in 0..ShadowStarts
    BY <1>3, <2>1, OverlayAssumption DEF ShadowSet, Overlay!CanPost
  <2>3. Append(s.sh.queue, m) = q
    BY <2>1
  <2>4. t = u
    BY <1>3, <2>1, <2>3 DEF Overlay!Post, ShadowSet
  <2> HIDE DEF seq, n
  <2>5. m \in [kind : Overlay!Kinds, seq : 0..ShadowPosts] /\ m.kind = "init"
    BY <2>2 DEF Overlay!Kinds
  <2> HIDE DEF m
  <2>6. q \in Messages /\ Len(q) = 1 /\ q[1] = m
    BY <2>5 DEF Messages
  <2> HIDE DEF q
  <2>7. h \in ShadowSet /\ h.worker = "booting" /\ h.queue = q
    BY <2>1, <2>2, <2>6 DEF ShadowSet
  <2> HIDE DEF h
  <2>8. WorkerOk(h) /\ CoverOk(h.worker, s.ov, s.rs)
    BY <2>1, <2>5, <2>6, <2>7 DEF WorkerOk, CoverOk
  <2>9. ShadowOk(u)
    BY <2>8 DEF ShadowOk
  <2> QED
    BY <2>4, <2>9
<1> QED
  BY <1>1, <1>2, <1>3 DEF Overlay!MaybeStart

(* Showing.                                                                 *)
LEMMA RevealIs ==
  ASSUME NEW s, ShadowOk(s), Overlay!Ready(s)
  PROVE  ShadowOk(Overlay!Reveal(s))
<1> DEFINE o == [s.ov EXCEPT !.visible = TRUE, !.liveHidden = TRUE, !.frozen = TRUE, !.hide = "none", !.raf = TRUE]
           t == [s EXCEPT !.ov = o]
<1>1. s.ov \in OverlaySet /\ s = [sh |-> s.sh, ov |-> s.ov, rs |-> s.rs]
  BY DEF ShadowOk, CoverOk
<1>2. o \in OverlaySet /\ o.visible
  BY <1>1 DEF OverlaySet
<1>3. Overlay!Reveal(s) = t
  BY <1>1 DEF Overlay!Reveal, OverlaySet
<1> HIDE DEF o
<1>4. ShadowOk(t)
  BY <1>2, WithOverlay
<1> QED
  BY <1>3, <1>4

LEMMA PrewarmSet ==
  ASSUME NEW s, ShadowOk(s), NEW x \in 0..ShadowPosts, x # 0 => Overlay!Ready(s),
         NEW t, t = [s EXCEPT !.ov.prewarm = x]
  PROVE  ShadowOk(t) /\ t.sh = s.sh
<1> DEFINE o == [s.ov EXCEPT !.prewarm = x]
           u == [s EXCEPT !.ov = o]
<1>1. s.ov \in OverlaySet
  BY DEF ShadowOk, CoverOk
<1>2. o \in OverlaySet /\ o.visible = s.ov.visible /\ o.liveHidden = s.ov.liveHidden
      /\ o.prewarm = x /\ o.raf = s.ov.raf
  BY <1>1 DEF OverlaySet
<1>3. t = u
  OBVIOUS
<1> HIDE DEF o
<1>4. ShadowOk(u) /\ u.sh = s.sh
  BY <1>2, WithOverlay DEF ShadowOk, CoverOk, Overlay!Ready
<1> QED
  BY <1>3, <1>4

LEMMA RequestPrewarmIs ==
  ASSUME NEW s, ShadowOk(s)
  PROVE  ShadowOk(Overlay!RequestPrewarm(s))
<1> DEFINE t == [s EXCEPT !.ov.prewarm = 0]
           p == Overlay!PostStep(t, "prewarm")
           n == t.sh.seq + 1
<1>1. ShadowOk(t)
  BY PrewarmSet, OverlayAssumption
<1>2. Overlay!RequestPrewarm(s) = IF Overlay!Posts(t, TRUE) THEN [p EXCEPT !.ov.prewarm = n] ELSE t
  BY DEF Overlay!RequestPrewarm
<1> HIDE DEF t
<1>3. CASE Overlay!Posts(t, TRUE)
  <2>1. ShadowOk(p) /\ Overlay!Ready(p)
    <3> DEFINE on == TRUE
    <3>1. on \in BOOLEAN /\ Overlay!Posts(t, on) /\ "prewarm" \in Overlay!Steps
      BY <1>3 DEF Overlay!Steps
    <3> HIDE DEF on
    <3> QED
      BY <1>1, <3>1, PostStepIs
  <2>2. n \in 0..ShadowPosts
    BY <1>1, <1>3, OverlayAssumption DEF Overlay!Posts, Overlay!CanPost, ShadowOk, WorkerOk, ShadowSet
  <2> HIDE DEF p, n
  <2>3. ShadowOk([p EXCEPT !.ov.prewarm = n])
    BY <2>1, <2>2, PrewarmSet
  <2> QED
    BY <1>2, <1>3, <2>3
<1>4. CASE ~Overlay!Posts(t, TRUE)
  BY <1>1, <1>2, <1>4
<1> QED
  BY <1>3, <1>4

LEMMA ShowFreezeIs ==
  ASSUME NEW s, ShadowOk(s), NEW t \in Overlay!ShowFreeze(s)
  PROVE  ShadowOk(t)
<1>1. ASSUME NEW u \in Overlay!ShowOverlay(s) PROVE ShadowOk(u)
  BY <1>1, MaybeStartIs, RequestPrewarmIs, RevealIs DEF Overlay!ShowOverlay
<1>2. CASE t = s
  BY <1>2
<1>3. CASE \E u \in Overlay!ShowOverlay(s) : t = u \/ t = [u EXCEPT !.ov.frozen = TRUE]
  <2>1. PICK u \in Overlay!ShowOverlay(s) : t = u \/ t = [u EXCEPT !.ov.frozen = TRUE]
    BY <1>3
  <2>2. ShadowOk(u)
    BY <1>1, <2>1
  <2> DEFINE on == TRUE
  <2>3. on \in BOOLEAN /\ (t = u \/ t = [u EXCEPT !.ov.frozen = on])
    BY <2>1
  <2> HIDE DEF on
  <2> QED
    BY <2>2, <2>3, FrozenSet
<1> QED
  BY <1>2, <1>3 DEF Overlay!ShowFreeze

(* The tick.                                                                 *)
LEMMA NormalTickKeeps == ShadowInv /\ Overlay!NormalTick => ShadowInv'
<1> SUFFICES ASSUME ShadowInv, Overlay!NormalTick PROVE ShadowInv'
  OBVIOUS
<1> DEFINE now == Overlay!Now
           off == FALSE
<1>1. PICK s \in Overlay!MaybeStart(now) :
        Overlay!Becomes(IF ~s.ov.visible /\ Overlay!Posts(s, off) THEN Overlay!PostStep(s, "normal") ELSE s)
  BY DEF Overlay!NormalTick
<1>2. ShadowOk(now) /\ replaying' \in BOOLEAN /\ off \in BOOLEAN /\ "normal" \in Overlay!Steps
  BY DEF ShadowInv, Overlay!NormalTick, Overlay!Steps
<1> HIDE DEF now, off
<1>3. ShadowOk(s)
  BY <1>2, MaybeStartIs
<1>4. CASE ~s.ov.visible /\ Overlay!Posts(s, off)
  <2> DEFINE t == Overlay!PostStep(s, "normal")
  <2>1. Overlay!Becomes(t)
    BY <1>1, <1>4
  <2>2. ShadowOk(t)
    BY <1>2, <1>3, <1>4, PostStepIs
  <2> QED
    BY <1>2, <2>1, <2>2, ShadowBecomes
<1>5. CASE ~(~s.ov.visible /\ Overlay!Posts(s, off))
  <2>1. Overlay!Becomes(s)
    BY <1>1, <1>5
  <2> QED
    BY <1>2, <1>3, <2>1, ShadowBecomes
<1> QED
  BY <1>4, <1>5

LEMMA BeginReplayKeeps == ShadowInv /\ Overlay!BeginReplay => ShadowInv'
<1> SUFFICES ASSUME ShadowInv, Overlay!BeginReplay PROVE ShadowInv'
  OBVIOUS
<1>1. PICK s \in Overlay!ShowFreeze(Overlay!Now) : Overlay!Becomes(s)
  BY DEF Overlay!BeginReplay
<1> QED
  BY <1>1, ShowFreezeIs, ShadowBecomes DEF ShadowInv, Overlay!BeginReplay

LEMMA FinishReplayKeeps == ShadowInv /\ Overlay!FinishReplay => ShadowInv'
<1> SUFFICES ASSUME ShadowInv, Overlay!FinishReplay PROVE ShadowInv'
  OBVIOUS
<1>1. PICK s \in Overlay!Hide(Overlay!Now) : \E t \in Overlay!ScheduleResync(s) : Overlay!Becomes(t)
  BY DEF Overlay!FinishReplay
<1>2. ShadowOk(s)
  BY HideIs DEF ShadowInv
<1> QED
  BY <1>1, <1>2, ScheduleResyncIs, ShadowBecomes DEF Overlay!FinishReplay

LEMMA SyncAppliedKeeps == ShadowInv /\ Overlay!SyncApplied => ShadowInv'
<1> SUFFICES ASSUME ShadowInv, Overlay!SyncApplied PROVE ShadowInv'
  OBVIOUS
<1>1. PICK s \in Overlay!ScheduleResync(Overlay!Now) : Overlay!Becomes(s)
  BY DEF Overlay!SyncApplied
<1> QED
  BY <1>1, ScheduleResyncIs, ShadowBecomes DEF ShadowInv, Overlay!SyncApplied

LEMMA DestroyKeeps == ShadowInv /\ Overlay!Destroy => ShadowInv'
<1> SUFFICES ASSUME ShadowInv, Overlay!Destroy PROVE ShadowInv'
  OBVIOUS
<1> DEFINE now == Overlay!Now
           u == [now EXCEPT !.ov.frozen = FALSE]
<1>1. Overlay!Becomes(Overlay!Stop(u, "off")) /\ replaying' \in BOOLEAN
  BY DEF Overlay!Destroy
<1>2. ShadowOk(now)
  BY DEF ShadowInv
<1> HIDE DEF now
<1>3. ShadowOk(u)
  BY <1>2, FrozenSet
<1> HIDE DEF u
<1>4. ShadowOk(Overlay!Stop(u, "off"))
  BY <1>3, StopIs
<1> QED
  BY <1>1, <1>4, ShadowBecomes

(* Timers and callbacks.                                                     *)
LEMMA ShadowTimers ==
  ShadowInv /\ (Overlay!HoldOver \/ Overlay!FadeOver \/ Overlay!PrewarmTooLate \/ Overlay!BootTimeout
                \/ Overlay!WorkerFails) => ShadowInv'
<1> SUFFICES ASSUME ShadowInv PROVE
      (Overlay!HoldOver \/ Overlay!FadeOver \/ Overlay!PrewarmTooLate \/ Overlay!BootTimeout
       \/ Overlay!WorkerFails) => ShadowInv'
  OBVIOUS
<1> DEFINE now == Overlay!Now
<1>1. ShadowOk(now) /\ replaying \in BOOLEAN
  BY DEF ShadowInv
<1>2. ASSUME Overlay!HoldOver PROVE ShadowInv'
  <2>1. PICK s \in {[now EXCEPT !.ov.hide = "fade"]} \cup Overlay!DoHide(now) : Overlay!Becomes(s)
    BY <1>2 DEF Overlay!HoldOver
  <2>2. replaying' \in BOOLEAN
    BY <1>1, <1>2 DEF Overlay!HoldOver
  <2> HIDE DEF now
  <2>3. ShadowOk(s)
    BY <1>1, HideSet, DoHideIs
  <2> QED
    BY <2>1, <2>2, <2>3, ShadowBecomes
<1>3. ASSUME Overlay!FadeOver PROVE ShadowInv'
  BY <1>1, <1>3, DoHideIs, ShadowBecomes DEF Overlay!FadeOver
<1>4. ASSUME Overlay!PrewarmTooLate PROVE ShadowInv'
  <2> DEFINE t == [now EXCEPT !.ov.prewarm = 0]
  <2>1. Overlay!Becomes(t) /\ replaying' \in BOOLEAN
    BY <1>1, <1>4 DEF Overlay!PrewarmTooLate
  <2> HIDE DEF now
  <2>2. ShadowOk(t)
    BY <1>1, PrewarmSet, OverlayAssumption
  <2> QED
    BY <2>1, <2>2, ShadowBecomes
<1>5. ASSUME Overlay!BootTimeout PROVE ShadowInv'
  BY <1>1, <1>5, StopIs, ShadowBecomes DEF Overlay!BootTimeout
<1>6. ASSUME Overlay!WorkerFails PROVE ShadowInv'
  BY <1>1, <1>6, StopIs, ShadowBecomes DEF Overlay!WorkerFails
<1> QED
  BY <1>2, <1>3, <1>4, <1>5, <1>6

LEMMA RafTickKeeps == ShadowInv /\ Overlay!RafTick => ShadowInv'
<1> SUFFICES ASSUME ShadowInv, Overlay!RafTick PROVE ShadowInv'
  OBVIOUS
<1> DEFINE now == Overlay!Now
           on == TRUE
           s == Overlay!PostStep(now, "raf")
           o == [s.ov EXCEPT !.rafInFlight = TRUE]
           t == [s EXCEPT !.ov = o]
<1>1. /\ ShadowOk(now) /\ Overlay!Posts(now, on) /\ on \in BOOLEAN /\ "raf" \in Overlay!Steps
      /\ replaying' \in BOOLEAN
  BY DEF Overlay!RafTick, ShadowInv, Overlay!Steps
<1>2. Overlay!Becomes([s EXCEPT !.ov.rafInFlight = TRUE])
  BY DEF Overlay!RafTick
<1> HIDE DEF now, on
<1>3. ShadowOk(s) /\ Overlay!Ready(s)
  BY <1>1, PostStepIs
<1> HIDE DEF s
<1>4. t = [s EXCEPT !.ov.rafInFlight = TRUE]
  OBVIOUS
<1>5. s.ov \in OverlaySet
  BY <1>3 DEF ShadowOk, CoverOk
<1>6. o \in OverlaySet /\ o.visible = s.ov.visible /\ o.liveHidden = s.ov.liveHidden
  BY <1>5 DEF OverlaySet
<1> HIDE DEF o
<1>7. ShadowOk(t)
  BY <1>3, <1>6, WithOverlay DEF ShadowOk, CoverOk
<1> QED
  BY <1>1, <1>2, <1>4, <1>7, ShadowBecomes

LEMMA ResyncDelayKeeps == ShadowInv /\ Overlay!ResyncDelayOver => ShadowInv'
<1> SUFFICES ASSUME ShadowInv, Overlay!ResyncDelayOver PROVE ShadowInv'
  OBVIOUS
<1> DEFINE now == Overlay!Now
           r == [now.rs EXCEPT !.timer = FALSE]
           u == [now EXCEPT !.rs = r]
<1>1. PICK s \in Overlay!SendState([now EXCEPT !.rs.timer = FALSE]) : Overlay!Becomes(s)
  BY DEF Overlay!ResyncDelayOver
<1>2. ShadowOk(now) /\ replaying' \in BOOLEAN
  BY DEF ShadowInv, Overlay!ResyncDelayOver
<1> HIDE DEF now
<1>3. u = [now EXCEPT !.rs.timer = FALSE]
  OBVIOUS
<1>4. r \in ResyncSet /\ (r.owed => now.ov.visible)
  BY <1>2 DEF ShadowOk, CoverOk, ResyncSet
<1> HIDE DEF r
<1>5. ShadowOk(u)
  BY <1>2, <1>4, WithResync
<1>6. s \in Overlay!SendState(u)
  BY <1>3
<1> HIDE DEF u
<1>7. ShadowOk(s)
  BY <1>5, <1>6, SendStateIs
<1> QED
  BY <1>1, <1>2, <1>7, ShadowBecomes

(* The worker's answers.  The oldest message leaves the queue: if it was a step, *)
(* one step less is unanswered.                                              *)
LEMMA TailQueue ==
  ASSUME NEW q \in Messages, q # <<>>
  PROVE  /\ Head(q) \in [kind : Overlay!Kinds, seq : 0..ShadowPosts] /\ Head(q) = q[1] /\ 1 \in 1..Len(q)
         /\ Tail(q) \in Messages /\ Len(Tail(q)) = Len(q) - 1 /\ Len(q) \in Nat
         /\ \A i \in 1..Len(Tail(q)) : i + 1 \in 1..Len(q) /\ Tail(q)[i] = q[i + 1]
<1> DEFINE M == [kind : Overlay!Kinds, seq : 0..ShadowPosts]
<1>1. q \in Seq(M)
  BY DEF Messages
<1>2. Seq(M) = Messages
  BY DEF Messages
<1> HIDE DEF M
<1>3. Len(q) \in Nat /\ Len(q) # 0
  BY <1>1
<1>4. q[1] \in M /\ Head(q) = q[1]
  BY <1>1, <1>3
<1>5. Tail(q) \in Seq(M) /\ Len(Tail(q)) = Len(q) - 1
  BY <1>1
<1>6. ASSUME NEW i \in 1..Len(Tail(q)) PROVE i + 1 \in 1..Len(q) /\ Tail(q)[i] = q[i + 1]
  BY <1>1, <1>3, <1>5
<1> QED
  <2>1. 1 \in 1..Len(q)
    BY <1>3
  <2> QED
    BY <2>1, <1>2, <1>3, <1>4, <1>5, <1>6 DEF M

LEMMA NoneLeft ==
  ASSUME NEW q \in Messages, Len(q) = 0
  PROVE  q = <<>>
BY DEF Messages

LEMMA BootedKeeps ==
  ASSUME ShadowInv, shadow.queue # <<>>, Head(shadow.queue).kind = "init",
         replaying' \in BOOLEAN,
         Overlay!Becomes(Overlay!Booted([Overlay!Now EXCEPT !.sh.queue = Tail(shadow.queue)]))
  PROVE  ShadowInv'
<1> DEFINE q == shadow.queue
           e == Tail(q)
           h == [shadow EXCEPT !.queue = e, !.worker = "ready", !.inFlight = 0]
           o == [overlay EXCEPT !.paint = "none"]
           t == [sh |-> h, ov |-> o, rs |-> resync]
<1>1. /\ shadow \in ShadowSet /\ WorkerOk(shadow) /\ CoverOk(shadow.worker, overlay, resync)
      /\ overlay \in OverlaySet /\ q \in Messages
  BY OverlayNow DEF ShadowInv, ShadowOk, WorkerOk, CoverOk, ShadowSet
<1>2. shadow.worker = "booting"
  <2>1. Head(q) = q[1] /\ 1 \in 1..Len(q)
    BY <1>1, TailQueue
  <2> QED
    BY <1>1, <2>1 DEF WorkerOk, ShadowSet
<1>3. e = <<>>
  <2>1. Len(q) = 1
    BY <1>1, <1>2 DEF WorkerOk
  <2>2. q # <<>>
    OBVIOUS
  <2> HIDE DEF q
  <2>3. e \in Messages /\ Len(e) = 0
    BY <1>1, <2>1, <2>2, TailQueue
  <2> QED
    BY <2>3, NoneLeft
<1>4. Overlay!Becomes(t)
  BY <1>1 DEF Overlay!Booted, Overlay!Now, Overlay!Becomes, ShadowSet, OverlaySet
<1>5. <<>> \in Messages
  BY DEF Messages
<1>10. e \in Messages
  BY <1>3, <1>5
<1> HIDE DEF q, e
<1>6. h \in ShadowSet /\ h.worker = "ready" /\ h.queue = <<>> /\ h.inFlight = 0
  BY <1>1, <1>3, <1>10 DEF ShadowSet
<1>7. o \in OverlaySet /\ CoverOk(h.worker, o, resync)
  BY <1>1, <1>6, <1>2 DEF CoverOk, OverlaySet
<1> HIDE DEF h, o
<1>8. WorkerOk(h)
  <2>1. Len(h.queue) = 0 /\ Overlay!Unanswered(h.queue) = 0
    BY <1>6, UnansweredEmpty
  <2> QED
    BY <1>6, <2>1 DEF WorkerOk
<1>9. ShadowOk(t)
  BY <1>7, <1>8 DEF ShadowOk
<1> QED
  BY <1>4, <1>9, ShadowBecomes

(* What is left of a running worker's queue.                                  *)
LEMMA AnsweredIs ==
  ASSUME ShadowInv, shadow.worker = "ready", shadow.queue # <<>>,
         NEW n \in {0, 1}, n = (IF Head(shadow.queue).kind \in Overlay!Steps THEN 1 ELSE 0),
         NEW h, h = [shadow EXCEPT !.queue = Tail(shadow.queue), !.inFlight = shadow.inFlight - n]
  PROVE  WorkerOk(h) /\ h.worker = "ready"
<1> DEFINE q == shadow.queue
           e == Tail(q)
           f == shadow.inFlight - n
<1>1. /\ shadow \in ShadowSet /\ WorkerOk(shadow) /\ q \in Messages /\ shadow.inFlight \in Nat
  BY OverlayNow DEF ShadowInv, ShadowOk, WorkerOk, ShadowSet
<1>2. /\ e \in Messages /\ \A i \in 1..Len(e) : i + 1 \in 1..Len(q) /\ e[i] = q[i + 1]
  BY <1>1, TailQueue
<1>3. Overlay!Unanswered(e) = Overlay!Unanswered(q) - n /\ f = Overlay!Unanswered(e) /\ f \in Nat
  BY <1>1, UnansweredTail DEF WorkerOk
<1>4. \A i \in 1..Len(e) : e[i].kind # "init"
  BY <1>1, <1>2 DEF WorkerOk
<1>5. h = [shadow EXCEPT !.queue = e, !.inFlight = f]
  OBVIOUS
<1> HIDE DEF q, e, f
<1>6. h \in ShadowSet /\ h.queue = e /\ h.inFlight = f /\ h.worker = "ready"
  BY <1>1, <1>2, <1>3, <1>5 DEF ShadowSet
<1> QED
  BY <1>3, <1>4, <1>6 DEF WorkerOk

LEMMA SteppedKeeps ==
  ASSUME ShadowInv, shadow.worker = "ready", shadow.queue # <<>>,
         Head(shadow.queue).kind \in Overlay!Steps, replaying' \in BOOLEAN,
         NEW painted \in Overlay!Painted,
         NEW v \in Overlay!Stepped([Overlay!Now EXCEPT !.sh.queue = Tail(shadow.queue)],
                                   Head(shadow.queue), painted),
         Overlay!Becomes(v)
  PROVE  ShadowInv'
<1> DEFINE m == Head(shadow.queue)
           n == 1
           h == [shadow EXCEPT !.queue = Tail(shadow.queue), !.inFlight = shadow.inFlight - n]
           paint == IF painted = "none" THEN overlay.paint ELSE painted
           sent == overlay.rafInFlight /\ m.kind # "raf"
           o == [overlay EXCEPT !.rafInFlight = sent, !.paint = paint]
           t == [sh |-> h, ov |-> o, rs |-> resync]
           u == [t EXCEPT !.ov.prewarm = 0]
<1>1. /\ shadow \in ShadowSet /\ CoverOk(shadow.worker, overlay, resync)
      /\ overlay \in OverlaySet /\ ShadowOk(Overlay!Now)
  BY OverlayNow DEF ShadowInv, ShadowOk, WorkerOk, CoverOk
<1>2. WorkerOk(h) /\ h.worker = "ready"
  <2>1. n \in {0, 1} /\ n = (IF m.kind \in Overlay!Steps THEN 1 ELSE 0)
    OBVIOUS
  <2> HIDE DEF n
  <2> QED
    BY <2>1, AnsweredIs
<1>3. \/ v = t
      \/ v = u
      \/ v = Overlay!Reveal(u)
  <2> DEFINE s == [Overlay!Now EXCEPT !.sh.queue = Tail(shadow.queue)]
             k == [shadow EXCEPT !.queue = Tail(shadow.queue)]
             raf == s.ov.rafInFlight /\ m.kind # "raf"
             pic == IF painted = "none" THEN s.ov.paint ELSE painted
             a == [s EXCEPT !.sh.inFlight = s.sh.inFlight - 1]
             b == [a EXCEPT !.ov.rafInFlight = raf]
             w == [b EXCEPT !.ov.paint = pic]
             ifu == [w EXCEPT !.ov.prewarm = 0]
  <2>1. v = w \/ v = ifu \/ v = Overlay!Reveal(ifu)
    BY DEF Overlay!Stepped
  <2>2. s = [sh |-> k, ov |-> overlay, rs |-> resync]
    BY DEF Overlay!Now
  <2>3. k.inFlight = shadow.inFlight /\ h = [k EXCEPT !.inFlight = k.inFlight - 1]
    BY <1>1 DEF ShadowSet
  <2> HIDE DEF s
  <2>6. raf = sent /\ pic = paint /\ s.ov = overlay /\ s.sh = k
    BY <2>2
  <2> HIDE DEF k, h, raf, sent, pic, paint
  <2>4. w = [sh |-> [k EXCEPT !.inFlight = k.inFlight - 1], ov |-> o, rs |-> resync]
    <3> DEFINE l == [k EXCEPT !.inFlight = k.inFlight - 1]
               p == [overlay EXCEPT !.rafInFlight = raf]
    <3>1. a = [sh |-> l, ov |-> overlay, rs |-> resync]
      BY <2>2, <2>6
    <3> HIDE DEF a, l
    <3>2. b = [sh |-> l, ov |-> p, rs |-> resync]
      BY <3>1
    <3>3. o = [p EXCEPT !.paint = pic]
      BY <1>1, <2>6 DEF OverlaySet
    <3> HIDE DEF b, p, o
    <3>4. w = [sh |-> l, ov |-> o, rs |-> resync]
      BY <3>2, <3>3
    <3> QED
      BY <3>4 DEF l
  <2>5. w = t
    BY <2>3, <2>4
  <2> HIDE DEF w, t
  <2> QED
    BY <2>1, <2>5
<1>4. paint \in {"none", "black", "good"} /\ sent \in BOOLEAN
  BY <1>1 DEF Overlay!Painted, Overlay!Sampled, Overlay!PostedFrame, OverlaySet
<1> HIDE DEF h, paint, sent, m
<1>5. o \in OverlaySet /\ CoverOk(h.worker, o, resync)
  BY <1>1, <1>2, <1>4 DEF CoverOk, OverlaySet
<1> HIDE DEF o
<1>6. ShadowOk(t) /\ Overlay!Ready(t)
  BY <1>2, <1>5 DEF ShadowOk, Overlay!Ready
<1> HIDE DEF t
<1>7. ShadowOk(u) /\ Overlay!Ready(u)
  BY <1>6, PrewarmSet, OverlayAssumption DEF Overlay!Ready
<1> HIDE DEF u
<1>8. ShadowOk(v)
  BY <1>3, <1>6, <1>7, RevealIs
<1> QED
  BY <1>8, ShadowBecomes

LEMMA ResyncedKeeps ==
  ASSUME ShadowInv, shadow.worker = "ready", shadow.queue # <<>>,
         Head(shadow.queue).kind \notin Overlay!Steps, replaying' \in BOOLEAN,
         NEW v \in Overlay!Resynced([Overlay!Now EXCEPT !.sh.queue = Tail(shadow.queue)], Head(shadow.queue)),
         Overlay!Becomes(v)
  PROVE  ShadowInv'
<1> DEFINE m == Head(shadow.queue)
           n == 0
           h == [shadow EXCEPT !.queue = Tail(shadow.queue), !.inFlight = shadow.inFlight - n]
           t == [sh |-> h, ov |-> overlay, rs |-> resync]
           o == [overlay EXCEPT !.paint = "none"]
           u == [t EXCEPT !.ov = o]
           p == Overlay!Post(t, "resync")
<1>1. /\ shadow \in ShadowSet /\ CoverOk(shadow.worker, overlay, resync)
      /\ overlay \in OverlaySet /\ ShadowOk(Overlay!Now)
  BY OverlayNow DEF ShadowInv, ShadowOk, WorkerOk, CoverOk
<1>2. WorkerOk(h) /\ h.worker = "ready"
  <2>1. n \in {0, 1} /\ n = (IF m.kind \in Overlay!Steps THEN 1 ELSE 0)
    OBVIOUS
  <2> HIDE DEF n
  <2> QED
    BY <2>1, AnsweredIs
<1>3. v = t \/ v = u \/ (Overlay!CanPost(t) /\ v = p)
  <2>1. [Overlay!Now EXCEPT !.sh.queue = Tail(shadow.queue)] = t
    <3>1. shadow.inFlight - 0 = shadow.inFlight
      BY <1>1 DEF ShadowSet
    <3>2. h = [shadow EXCEPT !.queue = Tail(shadow.queue)]
      BY <1>1, <3>1 DEF ShadowSet
    <3> QED
      BY <3>2 DEF Overlay!Now
  <2> QED
    BY <2>1 DEF Overlay!Resynced
<1> HIDE DEF h, m
<1>4. ShadowOk(t) /\ Overlay!Ready(t) /\ t.ov = overlay /\ t.rs = resync
  BY <1>1, <1>2 DEF ShadowOk, Overlay!Ready
<1> HIDE DEF t
<1>5. o \in OverlaySet /\ CoverOk("ready", o, resync)
  BY <1>1, <1>2 DEF CoverOk, OverlaySet
<1> HIDE DEF o
<1>6. ShadowOk(u)
  BY <1>4, <1>5, WithOverlay DEF CoverOk
<1>7. CASE Overlay!CanPost(t) /\ v = p
  <2>1. ShadowOk(p)
    BY <1>4, <1>7, PostIs
  <2> QED
    BY <1>7, <2>1, ShadowBecomes
<1> HIDE DEF u, p
<1> QED
  BY <1>3, <1>4, <1>6, <1>7, ShadowBecomes

LEMMA ShadowAnswerKeeps == ShadowInv /\ Overlay!Answer => ShadowInv'
<1> SUFFICES ASSUME ShadowInv, Overlay!Answer PROVE ShadowInv'
  OBVIOUS
<1> DEFINE m == Head(shadow.queue)
           s == [Overlay!Now EXCEPT !.sh.queue = Tail(shadow.queue)]
<1>1. shadow.queue # <<>> /\ replaying' \in BOOLEAN
  BY DEF Overlay!Answer, ShadowInv
<1>2. WorkerOk(shadow) /\ shadow.queue \in Messages /\ shadow.worker \in {"booting", "ready"}
  BY <1>1, OverlayNow DEF ShadowInv, ShadowOk, WorkerOk, ShadowSet
<1>3. m = shadow.queue[1] /\ 1 \in 1..Len(shadow.queue)
  BY <1>1, <1>2, TailQueue
<1>4. m.kind = "init" <=> shadow.worker = "booting"
  BY <1>2, <1>3 DEF WorkerOk
<1>5. s = [Overlay!Now EXCEPT !.sh.queue = Tail(@)]
  BY OverlayNow
<1>6. CASE m.kind = "init"
  <2>1. Overlay!Becomes(Overlay!Booted(s))
    <3> HIDE DEF s
    <3>1. m.kind \notin Overlay!Steps
      BY <1>6 DEF Overlay!Steps
    <3> QED
      BY <1>5, <1>6, <3>1 DEF Overlay!Answer
  <2> QED
    BY <1>1, <1>6, <2>1, BootedKeeps
<1>7. CASE m.kind \in Overlay!Steps
  <2>1. m.kind # "init"
    BY <1>7 DEF Overlay!Steps
  <2>2. PICK painted \in Overlay!Painted : \E v \in Overlay!Stepped(s, m, painted) : Overlay!Becomes(v)
    BY <1>5, <1>7, <2>1 DEF Overlay!Answer
  <2> QED
    BY <1>1, <1>2, <1>4, <1>7, <2>1, <2>2, SteppedKeeps
<1>8. CASE m.kind # "init" /\ m.kind \notin Overlay!Steps
  <2>1. PICK v \in Overlay!Resynced(s, m) : Overlay!Becomes(v)
    BY <1>5, <1>8 DEF Overlay!Answer
  <2> QED
    BY <1>1, <1>2, <1>4, <1>8, <2>1, ResyncedKeeps
<1> QED
  BY <1>6, <1>7, <1>8

LEMMA ShadowStep == ShadowInv /\ [Overlay!Next]_Overlay!shadowVars => ShadowInv'
<1> SUFFICES ASSUME ShadowInv, [Overlay!Next]_Overlay!shadowVars PROVE ShadowInv'
  OBVIOUS
<1>1. CASE UNCHANGED Overlay!shadowVars
  <2>1. UNCHANGED <<shadow, overlay, resync, replaying>>
    BY <1>1 DEF Overlay!shadowVars
  <2>2. Overlay!Now' = Overlay!Now
    BY <2>1 DEF Overlay!Now
  <2> QED
    BY <2>1, <2>2 DEF ShadowInv
<1> QED
  BY <1>1, NormalTickKeeps, BeginReplayKeeps, FinishReplayKeeps, SyncAppliedKeeps, DestroyKeeps,
     ShadowTimers, RafTickKeeps, ResyncDelayKeeps, ShadowAnswerKeeps DEF Overlay!Next

ShadowPart == part = "shadow" => ShadowInv

LEMMA ShadowPartInit == PageInit => ShadowPart
BY ShadowInit DEF PageInit, ShadowPart

LEMMA ShadowPartStep == ShadowPart /\ [PageNext]_pageVars => ShadowPart'
<1> SUFFICES ASSUME ShadowPart, [PageNext]_pageVars, part' = "shadow" PROVE ShadowInv'
  BY DEF ShadowPart
<1>1. part = "shadow"
  BY DEF PageNext, pageVars, Keep8, Keep7, Keep6, Keep5, Keep4
<1>2. Overlay!Next \/ UNCHANGED Overlay!shadowVars
  BY <1>1 DEF PageNext, pageVars, Overlay!shadowVars
<1> QED
  BY <1>1, <1>2, ShadowStep DEF ShadowPart

(* Whatever the worker answers and whenever it fails: its unanswered steps are *)
(* counted exactly, the live canvas is hidden only under an overlay that a       *)
(* worker paints, and a resync put off for the overlay waits for no other hide. *)
THEOREM ShadowStaysSound == PageSpec => []ShadowSound
<1>1. ShadowPart => ShadowSound
  BY ShadowTypes DEF ShadowPart, ShadowSound
<1> QED
  BY <1>1, ShadowPartInit, ShadowPartStep, PTL DEF PageSpec


HIDE DEF shadow, overlay, resync, replaying

(***************************************************************************)
(* SessionLog: a page's log.  A number that is out says of two things what   *)
(* is true of the ring it was taken from: how many lines that ring has had,   *)
(* and that the ones before the number are stored, as far as the ring still  *)
(* holds them.  For the order in a match's log every match has one ring, as  *)
(* long as nobody reloads.                                                  *)
(***************************************************************************)

client    == v1
roomMatch == v2
rows      == v3
appends   == v4
sock      == v5
http      == v6
past      == v7
USE DEF client, roomMatch, rows, appends, sock, http, past

LineSets == SUBSET (Nat \X Nat)

(* A flush, wherever it is; an answer to one; what is stored of a match.        *)
FlushSet == [id : Nat, epoch : Nat \ {0}, since : Nat, from : Nat, to : 0..LogLines, via : {"socket", "http", "gone"},
             match : Logs!Matches]
AckSet == FlushSet \X (0..LogLines)
ChunkSet == [epoch : Nat, from : Nat, to : Nat, at : Nat]
RowSet == [epoch : Nat, last : 0..LogLines, size : Nat, chunks : SUBSET ChunkSet]
ClientSet == [epoch : Nat \ {0}, next : 0..LogLines, acked : Nat, match : 0..LogMatches,
              cached : 0..LogMatches, running : BOOLEAN, leaked : BOOLEAN, critical : BOOLEAN,
              fails : Nat, timers : SUBSET FlushSet]
PastSet == [flushes : 0..LogFlushes, trouble : 0..LogTrouble, matches : 0..LogMatches, reloads : BOOLEAN,
            last : Seq(FlushSet), left : LineSets, gone : LineSets]

LogTypes ==
  /\ client \in ClientSet
  /\ rows \in [Logs!Matches -> RowSet]
  /\ appends \in [Logs!Matches -> Seq(FlushSet)]
  /\ sock \in [on : BOOLEAN, up : Seq(FlushSet), down : Seq(AckSet)]
  /\ http \in [up : SUBSET FlushSet, down : SUBSET AckSet]
  /\ past \in PastSet

RangeOf(q) == {q[i] : i \in 1..Len(q)}

(* A flush is out: on its way, waiting to be stored, or waited for.            *)
Out(p) ==
  \/ p \in RangeOf(sock.up) \/ p \in http.up \/ p \in client.timers
  \/ \E k \in Logs!Matches : p \in RangeOf(appends[k])
Answered(a) == a \in RangeOf(sock.down) \/ a \in http.down
Same(p, q) == p.epoch = q.epoch /\ p.since = q.since /\ p.to = q.to /\ p.match = q.match

(* The lines that are stored, or were until the budget was used up, or were left  *)
(* out of a flush that was stored.                                          *)
Accounted == Logs!Stored \cup past.gone \cup past.left

(* What numbers of lines are about: the page's ring, and what became of lines.   *)
World == [epoch |-> client.epoch, next |-> client.next, stored |-> Accounted]
Worlds == [epoch : Nat, next : Nat, stored : SUBSET (Nat \X Nat)]

(* Of the lines before x, the ones the ring still holds are accounted for.       *)
Covered(w, x) == \A n \in Nat : n < x /\ n < w.next /\ n >= Logs!Minus(w.next, Ring) => <<w.epoch, n>> \in w.stored

(* x and y count lines the ring of epoch e has had, and y is covered.          *)
Fine(w, e, x, y) ==
  e <= w.epoch /\ (e = w.epoch => x <= w.next /\ y <= w.next /\ Covered(w, y))

AllFine ==
  /\ Fine(World, client.epoch, client.acked, client.acked)
  /\ \A p \in FlushSet : Out(p) => Fine(World, p.epoch, p.to, p.since)
  /\ \A a \in AckSet : Answered(a) => Fine(World, a[1].epoch, a[2], a[2])
  /\ \A k \in Logs!Matches : Fine(World, rows[k].epoch, rows[k].last, rows[k].last)

(* A page is in one match at a time, the room's newest or an older one, and at   *)
(* most two flushes are about to be stored.                                  *)
Tied ==
  /\ roomMatch \in {0, past.matches} /\ client.match <= past.matches
  /\ client.cached # 0 => client.cached = client.match
  /\ client.running => client.match # 0
  /\ \A k \in Logs!Matches : /\ Len(appends[k]) <= 2
                             /\ \A i \in 1..Len(appends[k]) : appends[k][i].match = k

(* Of a match's chunks, none is larger than a chunk may be, and the newest lines  *)
(* are in them.                                                             *)
Sized(c, size) == c.from < c.to /\ c.to <= c.from + ChunkMax /\ c.at + (c.to - c.from) <= size
HoldsThe(x, chunks) == \E c \in chunks : c.at <= x /\ x < c.at + (c.to - c.from)
NewestHeld(r) == \A x \in Nat : x < r.size /\ x >= Logs!Minus(r.size, Cap - ChunkMax) => HoldsThe(x, r.chunks)
Full(r) == (\A c \in r.chunks : Sized(c, r.size)) /\ NewestHeld(r)
AllFull == \A k \in Logs!Matches : Full(rows[k])

(* As long as nobody reloads, every match has one ring, home[match], or none yet, *)
(* whose lines are stored in order.                                          *)
InOrder(c, d) == c # d => IF c.at < d.at THEN c.to <= d.from ELSE d.to <= c.from
Ordered(r) ==
  /\ \A c \in r.chunks : c.epoch = r.epoch /\ c.to <= r.last
  /\ \A c, d \in r.chunks : InOrder(c, d)

AtHome(home) ==
  /\ home \in [Logs!Matches -> Nat]
  /\ \A p \in FlushSet : Out(p) => p.epoch = home[p.match]
  /\ \A k \in Logs!Matches :
       /\ rows[k].epoch \in {0, home[k]} /\ (rows[k].epoch = 0 => rows[k].last = 0) /\ Ordered(rows[k])
       /\ k > past.matches => home[k] = 0
  /\ client.match # 0 => home[client.match] = client.epoch
  /\ roomMatch # 0 /\ home[roomMatch] # 0 => client.match = roomMatch

HomesInv == past.reloads \/ \E home : AtHome(home)

LogInv == LogTypes /\ Tied /\ AllFine /\ AllFull /\ HomesInv

(* Numbers and sequences.                                                    *)
LEMMA LogBounds == LogLines \in Nat /\ LogMatches \in Nat /\ LogFlushes \in Nat /\ LogTrouble \in Nat
BY LogAssumption

LEMMA MinusIs ==
  ASSUME NEW a \in Nat, NEW b \in Nat
  PROVE  /\ Logs!Minus(a, b) \in Nat /\ Logs!Minus(a, b) <= a
         /\ Logs!Minus(a, b) = (IF a > b THEN a - b ELSE 0)
         /\ \A c \in Nat : a <= c => Logs!Minus(a, b) <= Logs!Minus(c, b)
BY DEF Logs!Minus

LEMMA MinusBelow ==
  ASSUME NEW a \in Nat, NEW b \in Nat
  PROVE  Logs!Minus(a, b) \in Nat /\ Logs!Minus(a, b) <= a
BY DEF Logs!Minus

LEMMA RangeAppend ==
  ASSUME NEW S, NEW q \in Seq(S), NEW e \in S
  PROVE  Append(q, e) \in Seq(S) /\ RangeOf(Append(q, e)) = RangeOf(q) \cup {e}
<1> DEFINE p == Append(q, e)
<1>1. /\ p \in Seq(S) /\ Len(p) = Len(q) + 1 /\ Len(q) \in Nat /\ p[Len(q) + 1] = e
      /\ \A i \in 1..Len(q) : p[i] = q[i]
  OBVIOUS
<1> HIDE DEF p
<1>2. ASSUME NEW x PROVE x \in RangeOf(p) <=> x \in RangeOf(q) \cup {e}
  <2>1. x \in RangeOf(p) <=> \E i \in 1..(Len(q) + 1) : x = p[i]
    BY <1>1 DEF RangeOf
  <2>2. x \in RangeOf(q) <=> \E i \in 1..Len(q) : x = p[i]
    BY <1>1 DEF RangeOf
  <2>3. \A i : i \in 1..(Len(q) + 1) <=> i \in 1..Len(q) \/ i = Len(q) + 1
    BY <1>1
  <2> QED
    BY <1>1, <2>1, <2>2, <2>3
<1> QED
  BY <1>1, <1>2 DEF p

LEMMA RangeTail ==
  ASSUME NEW S, NEW q \in Seq(S), q # <<>>
  PROVE  /\ Tail(q) \in Seq(S) /\ RangeOf(Tail(q)) \subseteq RangeOf(q)
         /\ Head(q) \in RangeOf(q) /\ Head(q) \in S /\ Len(Tail(q)) = Len(q) - 1 /\ Len(q) \in Nat
<1> DEFINE t == Tail(q)
<1>1. /\ t \in Seq(S) /\ Len(t) = Len(q) - 1 /\ Len(q) \in Nat /\ Len(q) # 0
      /\ \A i \in 1..Len(t) : t[i] = q[i + 1] /\ i + 1 \in 1..Len(q)
  OBVIOUS
<1>2. Head(q) = q[1] /\ 1 \in 1..Len(q) /\ q[1] \in S
  BY <1>1
<1> HIDE DEF t
<1>3. RangeOf(t) \subseteq RangeOf(q)
  BY <1>1 DEF RangeOf
<1>4. Head(q) \in RangeOf(q)
  BY <1>2 DEF RangeOf
<1> QED
  BY <1>1, <1>2, <1>3, <1>4 DEF t

LEMMA RangeEmpty == RangeOf(<<>>) = {}
BY DEF RangeOf

LEMMA RangeTyped ==
  ASSUME NEW S, NEW q \in Seq(S), NEW e \in RangeOf(q)
  PROVE  e \in S
BY DEF RangeOf

LEMMA LinesOfIs ==
  ASSUME NEW chunks, chunks \subseteq ChunkSet
  PROVE  /\ Logs!LinesOf(chunks) \subseteq Nat \X Nat
         /\ \A c \in chunks : \A n \in Nat : c.from <= n /\ n < c.to => <<c.epoch, n>> \in Logs!LinesOf(chunks)
<1>1. ASSUME NEW c \in chunks PROVE c.epoch \in Nat /\ c.from \in Nat /\ c.to \in Nat
  BY DEF ChunkSet
<1>2. \A x : x \in Logs!LinesOf(chunks) <=> \E c \in chunks : \E n \in c.from..(c.to - 1) : x = <<c.epoch, n>>
  BY DEF Logs!LinesOf
<1>3. ASSUME NEW x \in Logs!LinesOf(chunks) PROVE x \in Nat \X Nat
  BY <1>1, <1>2
<1>4. ASSUME NEW c \in chunks, NEW n \in Nat, c.from <= n, n < c.to PROVE <<c.epoch, n>> \in Logs!LinesOf(chunks)
  <2>1. n \in c.from..(c.to - 1)
    BY <1>1, <1>4
  <2> QED
    BY <1>2, <2>1
<1> QED
  BY <1>3, <1>4

StoredOk == /\ Logs!Stored \subseteq Nat \X Nat
            /\ \A k \in Logs!Matches : Logs!LinesOf(rows[k].chunks) \subseteq Logs!Stored
            /\ \A x \in Logs!Stored : \E k \in Logs!Matches : x \in Logs!LinesOf(rows[k].chunks)

LEMMA StoredNamed == LogTypes => StoredOk
<1> SUFFICES ASSUME LogTypes PROVE StoredOk
  OBVIOUS
<1>1. \A k \in Logs!Matches : rows[k].chunks \subseteq ChunkSet
  BY DEF LogTypes, RowSet
<1>2. \A k \in Logs!Matches : Logs!LinesOf(rows[k].chunks) \subseteq Nat \X Nat
  BY <1>1, LinesOfIs
<1>3. \A x : x \in Logs!Stored <=> \E k \in Logs!Matches : x \in Logs!LinesOf(rows[k].chunks)
  BY DEF Logs!Stored
<1> QED
  BY <1>2, <1>3 DEF StoredOk

WorldOk == World \in Worlds

LEMMA WorldTyped == LogTypes => WorldOk
<1> SUFFICES ASSUME LogTypes PROVE WorldOk
  OBVIOUS
<1>1. Accounted \subseteq Nat \X Nat
  BY StoredNamed DEF StoredOk, Accounted, LogTypes, PastSet, LineSets
<1>2. client.epoch \in Nat /\ client.next \in Nat
  BY LogAssumption DEF LogTypes, ClientSet
<1> QED
  BY <1>1, <1>2 DEF World, Worlds, WorldOk

(* Later, what was fine still is: a ring that is not the page's any more has     *)
(* nothing to keep.                                                         *)
Later(w, v) ==
  \/ v.epoch > w.epoch
  \/ v.epoch = w.epoch /\ w.next <= v.next /\ w.stored \subseteq v.stored

LEMMA LaterIsFine ==
  ASSUME NEW w \in Worlds, NEW v \in Worlds, Later(w, v), NEW e \in Nat, NEW x \in Nat, NEW y \in Nat,
         Fine(w, e, x, y)
  PROVE  Fine(v, e, x, y)
<1>1. CASE v.epoch > w.epoch
  BY <1>1 DEF Worlds, Fine
<1>2. CASE v.epoch = w.epoch /\ w.next <= v.next /\ w.stored \subseteq v.stored
  <2>1. ASSUME e = w.epoch, NEW n \in Nat, n < y, n < v.next, n >= Logs!Minus(v.next, Ring)
        PROVE  <<v.epoch, n>> \in v.stored
    <3>1. n >= Logs!Minus(w.next, Ring) /\ Covered(w, y) /\ y <= w.next
      <4>1. Logs!Minus(w.next, Ring) <= Logs!Minus(v.next, Ring) /\ Logs!Minus(w.next, Ring) \in Nat
            /\ Logs!Minus(v.next, Ring) \in Nat
        BY <1>2, MinusIs, LogAssumption DEF Worlds
      <4> QED
        BY <2>1, <4>1 DEF Fine
    <3>2. n < w.next
      BY <2>1, <3>1 DEF Worlds
    <3>3. <<w.epoch, n>> \in w.stored
      BY <2>1, <3>1, <3>2 DEF Covered
    <3> QED
      BY <1>2, <3>3
  <2> QED
    BY <1>2, <2>1 DEF Fine, Covered, Worlds
<1> QED
  BY <1>1, <1>2 DEF Later

LEMMA LogSoundIs == LogInv => Logs!LogTypeOK /\ Logs!LogSound
<1> SUFFICES ASSUME LogInv PROVE Logs!LogTypeOK /\ Logs!LogSound
  OBVIOUS
<1>1. LogTypes /\ Tied /\ AllFine /\ AllFull /\ HomesInv
  BY DEF LogInv
<1>2. client.acked <= client.next /\ Covered(World, client.acked)
  BY <1>1 DEF AllFine, Fine, World, LogTypes, ClientSet
<1>3. Logs!LogTypeOK
  <2>1. /\ client.next \in 0..LogLines /\ client.match \in 0..LogMatches /\ client.cached \in 0..LogMatches
        /\ client.acked \in Nat /\ client.next \in Nat
    BY <1>1, LogAssumption DEF LogTypes, ClientSet
  <2>2. client.acked \in 0..client.next
    BY <1>2, <2>1
  <2>3. /\ past.matches \in 0..LogMatches /\ past.flushes \in 0..LogFlushes
        /\ past.trouble \in 0..LogTrouble /\ sock.on \in BOOLEAN
    BY <1>1 DEF LogTypes, PastSet
  <2>4. roomMatch \in 0..LogMatches
    BY <1>1, <2>3, LogAssumption DEF Tied
  <2>5. \A k \in Logs!Matches : Len(appends[k]) <= 2 /\ rows[k].last \in 0..LogLines
    BY <1>1 DEF LogTypes, Tied, RowSet
  <2> QED
    BY <2>1, <2>2, <2>3, <2>4, <2>5 DEF Logs!LogTypeOK
<1>4. Logs!AckedIsStored
  <2> SUFFICES ASSUME NEW n \in Logs!Minus(client.next, Ring)..(client.next - 1), n < client.acked
               PROVE  <<client.epoch, n>> \in Accounted
    BY DEF Logs!AckedIsStored, Accounted
  <2>1. client.next \in Nat /\ Logs!Minus(client.next, Ring) \in Nat
    BY <1>1, MinusIs, LogAssumption DEF LogTypes, ClientSet
  <2>2. n \in Nat /\ n < client.next /\ n >= Logs!Minus(client.next, Ring)
    BY <2>1
  <2> QED
    BY <1>2, <2>2 DEF Covered, World
<1>5. Logs!StoredOnce
  <2> SUFFICES ASSUME ~past.reloads, NEW k \in Logs!Matches, NEW c \in rows[k].chunks, NEW d \in rows[k].chunks, c # d
               PROVE  c.epoch = d.epoch /\ IF c.at < d.at THEN c.to <= d.from ELSE d.to <= c.from
    BY DEF Logs!StoredOnce
  <2>1. Ordered(rows[k])
    BY <1>1 DEF HomesInv, AtHome
  <2> QED
    BY <2>1 DEF Ordered, InOrder
<1>6. Logs!NewestStay
  <2> SUFFICES ASSUME NEW k \in Logs!Matches, NEW x \in Logs!Minus(rows[k].size, Cap - ChunkMax)..(rows[k].size - 1)
               PROVE  HoldsThe(x, rows[k].chunks)
    BY DEF Logs!NewestStay, HoldsThe
  <2> DEFINE low == Logs!Minus(rows[k].size, Cap - ChunkMax)
             s == rows[k].size
  <2>1. s \in Nat /\ Cap - ChunkMax \in Nat
    BY <1>1, LogAssumption DEF LogTypes, RowSet
  <2>2. low \in Nat
    BY <2>1, MinusBelow
  <2>3. x \in Nat /\ x < s /\ x >= low
    <3>1. x \in low..(s - 1)
      OBVIOUS
    <3> HIDE DEF low, s
    <3> QED
      BY <2>1, <2>2, <3>1
  <2> QED
    BY <1>1, <2>3 DEF AllFull, Full, NewestHeld
<1> QED
  BY <1>3, <1>4, <1>5, <1>6 DEF Logs!LogSound

LEMMA LogInit == Logs!Init => LogInv
<1> SUFFICES ASSUME Logs!Init PROVE LogInv
  OBVIOUS
<1> DEFINE home == [k \in Logs!Matches |-> 0]
<1>0. <<>> \in Seq(FlushSet) /\ <<>> \in Seq(AckSet) /\ Len(<<>>) = 0
  OBVIOUS
<1>1. LogTypes
  <2>1. client \in ClientSet
    BY LogAssumption DEF Logs!Init, Logs!Fresh, ClientSet
  <2>2. past \in PastSet
    BY <1>0, LogAssumption DEF Logs!Init, PastSet, LineSets
  <2>3. rows \in [Logs!Matches -> RowSet]
    BY <1>0, LogAssumption DEF Logs!Init, RowSet
  <2> QED
    BY <1>0, <2>1, <2>2, <2>3 DEF LogTypes, Logs!Init
<1>2. Tied
  BY <1>0 DEF Logs!Init, Logs!Fresh, Tied
<1>3. (\A p : ~Out(p)) /\ (\A a : ~Answered(a))
  BY RangeEmpty DEF Logs!Init, Logs!Fresh, Out, Answered
<1>4. AllFine
  <2>1. \A n : Covered(World, n) \/ n # 0
    BY DEF Covered
  <2>2. client.epoch = 1 /\ client.next = 0 /\ client.acked = 0 /\ World.epoch = 1 /\ World.next = 0
    BY DEF Logs!Init, Logs!Fresh, World
  <2>3. \A k \in Logs!Matches : rows[k].epoch = 0 /\ rows[k].last = 0
    BY DEF Logs!Init
  <2> QED
    BY <1>3, <2>1, <2>2, <2>3 DEF AllFine, Fine
<1>6. \A k \in Logs!Matches : rows[k].epoch = 0 /\ rows[k].last = 0 /\ rows[k].size = 0 /\ rows[k].chunks = {}
  BY DEF Logs!Init
<1>7. AllFull
  BY <1>6 DEF AllFull, Full, NewestHeld
<1>5. AtHome(home)
  <2>2. \A k \in Logs!Matches : Ordered(rows[k])
    BY <1>6 DEF Ordered
  <2> QED
    BY <1>3, <1>6, <2>2 DEF AtHome, Logs!Init, Logs!Fresh
<1> HIDE DEF home
<1> QED
  BY <1>1, <1>2, <1>4, <1>5, <1>7 DEF LogInv, HomesInv

(***************************************************************************)
(* What a step does to what is out.  Either it carries it on, or it is a     *)
(* flush the page c has built: of its match and ring, from the lines that   *)
(* are acknowledged or gone on.                                             *)
(***************************************************************************)

Carried(p) == \E q \in FlushSet : Out(q) /\ Same(p, q)

LEMMA FineStays ==
  ASSUME LogTypes, LogTypes', AllFine, Later(World, World'),
         Fine(World', client'.epoch, client'.acked, client'.acked),
         \A p \in FlushSet : Out(p)' => Carried(p) \/ Fine(World', p.epoch, p.to, p.since),
         \A a \in AckSet : Answered(a)' => Answered(a) \/ Fine(World', a[1].epoch, a[2], a[2]),
         \A k \in Logs!Matches : \/ rows'[k] = rows[k]
                                 \/ Fine(World', rows'[k].epoch, rows'[k].last, rows'[k].last)
  PROVE  AllFine'
<1>1. World \in Worlds /\ World' \in Worlds
  <2>1. LogTypes' => WorldOk'
    BY WorldTyped, PTL
  <2> QED
    BY <2>1, WorldTyped DEF WorldOk
<1> DEFINE w == World
           v == World'
<1>2. Later(w, v) /\ w \in Worlds /\ v \in Worlds
  BY <1>1
<1>3. ASSUME NEW p \in FlushSet, Out(p)' PROVE Fine(v, p.epoch, p.to, p.since)
  <2>1. CASE Carried(p)
    <3>1. PICK q \in FlushSet : Out(q) /\ Same(p, q)
      BY <2>1 DEF Carried
    <3>2. Fine(w, q.epoch, q.to, q.since) /\ q.epoch \in Nat /\ q.to \in Nat /\ q.since \in Nat
      BY <3>1 DEF AllFine, FlushSet
    <3> HIDE DEF w, v
    <3>3. Fine(v, q.epoch, q.to, q.since)
      BY <1>2, <3>2, LaterIsFine
    <3> QED
      BY <3>1, <3>3 DEF Same
  <2> QED
    BY <1>3, <2>1
<1>4. ASSUME NEW a \in AckSet, Answered(a)' PROVE Fine(v, a[1].epoch, a[2], a[2])
  <2>1. CASE Answered(a)
    <3> DEFINE e == a[1].epoch
               x == a[2]
    <3>1. Fine(w, e, x, x) /\ e \in Nat /\ x \in Nat
      BY <2>1, LogAssumption DEF AllFine, AckSet, FlushSet
    <3> HIDE DEF w, v, e, x
    <3>2. Fine(v, e, x, x)
      BY <1>2, <3>1, LaterIsFine
    <3> QED
      BY <3>2 DEF e, x
  <2> QED
    BY <1>4, <2>1
<1>5. ASSUME NEW k \in Logs!Matches PROVE Fine(v, rows'[k].epoch, rows'[k].last, rows'[k].last)
  <2>1. CASE rows'[k] = rows[k]
    <3> DEFINE e == rows[k].epoch
               x == rows[k].last
    <3>1. Fine(w, e, x, x) /\ e \in Nat /\ x \in Nat
      BY LogAssumption DEF AllFine, LogTypes, RowSet
    <3> HIDE DEF w, v, e, x
    <3>2. Fine(v, e, x, x)
      BY <1>2, <3>1, LaterIsFine
    <3> QED
      BY <2>1, <3>2 DEF e, x
  <2> QED
    BY <2>1
<1> QED
  BY <1>3, <1>4, <1>5 DEF AllFine

LEMMA HomesStay ==
  ASSUME LogTypes, LogTypes', HomesInv, UNCHANGED <<roomMatch, rows>>, past'.reloads = past.reloads,
         past'.matches = past.matches, client'.match = client.match, client'.epoch = client.epoch,
         \A p \in FlushSet : Out(p)' =>
           Carried(p) \/ (p.epoch = client.epoch /\ p.match = client.match /\ client.match # 0)
  PROVE  HomesInv'
<1>1. CASE past.reloads
  BY <1>1 DEF HomesInv
<1>2. CASE \E home : AtHome(home)
  <2>1. PICK home : AtHome(home)
    BY <1>2
  <2>2. ASSUME NEW p \in FlushSet, Out(p)' PROVE p.epoch = home[p.match]
    BY <2>1, <2>2 DEF AtHome, Carried, Same
  <2>3. AtHome(home)'
    BY <2>1, <2>2 DEF AtHome
  <2> QED
    BY <2>3 DEF HomesInv
<1> QED
  BY <1>1, <1>2 DEF HomesInv

(***************************************************************************)
(* The page.  c is the page as it sends: the same, but for its next line     *)
(* and its timers.                                                          *)
(***************************************************************************)

Alike(c) == /\ c \in ClientSet /\ c.epoch = client.epoch /\ c.match = client.match /\ c.cached = client.cached
            /\ c.acked = client.acked /\ client.next <= c.next /\ (c.running => client.running)

LEMMA PayloadIs ==
  ASSUME LogInv, NEW c, Alike(c), past.flushes < LogFlushes, NEW via \in {"socket", "http"},
         NEW p, p = Logs!Payload(c, via), p.match # 0
  PROVE  /\ p \in FlushSet /\ p.epoch = client.epoch /\ p.match = client.match
         /\ p.to <= c.next /\ p.since <= c.next
         /\ \A n \in Nat : n < p.since /\ n >= Logs!Minus(c.next, Ring) => n < client.acked
<1> DEFINE from == Logs!Higher(c.acked, Logs!Minus(c.next, Ring))
           to == Logs!Lower(from + FlushMax, c.next)
           ofMatch == IF c.cached # 0 THEN c.cached ELSE c.match
           id == past.flushes + 1
<1>1. c \in ClientSet /\ c.acked \in Nat /\ c.next \in Nat /\ c.epoch \in Nat \ {0} /\ client.acked <= client.next
  BY LogAssumption DEF Alike, ClientSet, LogInv, LogTypes, AllFine, Fine, World
<1>2. /\ from \in Nat /\ from <= c.next
      /\ \A n \in Nat : n < from /\ n >= Logs!Minus(c.next, Ring) => n < c.acked
  <2> DEFINE m == Logs!Minus(c.next, Ring)
  <2>4. client.next \in Nat /\ client.next <= c.next /\ c.acked = client.acked
    BY LogAssumption DEF Alike, LogInv, LogTypes, ClientSet
  <2>5. c.acked <= c.next
    BY <1>1, <2>4
  <2>6. m \in Nat /\ m <= c.next
    BY <1>1, MinusBelow, LogAssumption
  <2>1. m \in Nat /\ m <= c.next /\ c.acked <= c.next
    BY <2>5, <2>6
  <2> HIDE DEF m
  <2>2. Logs!Higher(c.acked, m) \in Nat /\ Logs!Higher(c.acked, m) = IF c.acked < m THEN m ELSE c.acked
    BY <1>1, <2>1 DEF Logs!Higher
  <2> QED
    BY <1>1, <2>1, <2>2 DEF m
<1>3. to \in Nat /\ to <= c.next
  <2> HIDE DEF from
  <2> QED
    BY <1>1, <1>2, LogAssumption DEF Logs!Lower
<1>4. p = [id |-> id, epoch |-> c.epoch, since |-> from, from |-> from, to |-> to, via |-> via, match |-> ofMatch]
  BY DEF Logs!Payload, Logs!EntriesAfter
<1>5. id \in Nat
  BY LogAssumption DEF LogInv, LogTypes, PastSet
<1> HIDE DEF from, to, id
<1>6. p.match = ofMatch /\ p.since = from /\ p.to = to /\ p.epoch = c.epoch
  BY <1>4
<1>7. ofMatch = client.match /\ ofMatch \in Logs!Matches
  BY <1>6, LogAssumption DEF Alike, LogInv, Tied, LogTypes, ClientSet, Logs!Matches
<1> HIDE DEF ofMatch
<1>9. to \in 0..LogLines
  BY <1>1, <1>3, LogAssumption DEF ClientSet
<1>8. p \in FlushSet
  BY <1>1, <1>2, <1>9, <1>4, <1>5, <1>7 DEF FlushSet
<1> QED
  BY <1>2, <1>3, <1>6, <1>7, <1>8 DEF Alike

(* A flush that was built is fine, and so is one with the newest of its lines.  *)
LEMMA BuiltIsFine ==
  ASSUME LogInv, LogTypes', client'.epoch = client.epoch, client.next <= client'.next,
         Accounted \subseteq Accounted',
         NEW p \in FlushSet, p.epoch = client.epoch, p.to <= client'.next, p.since <= client'.next,
         \A n \in Nat : n < p.since /\ n >= Logs!Minus(client'.next, Ring) => n < client.acked
  PROVE  Fine(World', p.epoch, p.to, p.since)
<1>1. Covered(World', p.since)
  <2> SUFFICES ASSUME NEW n \in Nat, n < p.since, n < client'.next, n >= Logs!Minus(client'.next, Ring)
               PROVE  <<client'.epoch, n>> \in Accounted'
    BY DEF Covered, World
  <2>1. n < client.acked
    OBVIOUS
  <2>2. client.acked <= client.next /\ Covered(World, client.acked)
    BY DEF LogInv, AllFine, Fine, World
  <2>3. /\ client.next \in Nat /\ client'.next \in Nat /\ client.acked \in Nat
    BY LogAssumption DEF LogInv, LogTypes, ClientSet
  <2>4. n >= Logs!Minus(client.next, Ring) /\ n < client.next
    <3>1. /\ Logs!Minus(client.next, Ring) <= Logs!Minus(client'.next, Ring)
          /\ Logs!Minus(client.next, Ring) \in Nat /\ Logs!Minus(client'.next, Ring) \in Nat
      BY <2>3, MinusIs, LogAssumption
    <3> QED
      BY <2>1, <2>2, <2>3, <3>1
  <2>5. <<client.epoch, n>> \in Accounted
    BY <2>1, <2>2, <2>4 DEF Covered, World
  <2> QED
    BY <2>5
<1>2. World'.epoch = client.epoch /\ World'.next = client'.next
  BY DEF World
<1>3. p.epoch \in Nat
  BY DEF FlushSet
<1> QED
  BY <1>1, <1>2, <1>3 DEF Fine

(* Steps within a ring.  New flushes are of this ring, and what is stored the    *)
(* same.                                                                    *)
LEMMA PageSteps ==
  ASSUME LogInv, LogTypes', UNCHANGED <<roomMatch, rows>>,
         appends' = appends
         \/ \A k \in Logs!Matches : /\ Len(appends'[k]) <= 2
                                   /\ \A i \in 1..Len(appends'[k]) : appends'[k][i].match = k,
         client'.epoch = client.epoch, client'.match = client.match, client.next <= client'.next,
         client'.cached \in {client.cached, client.match}, client'.running => client.running \/ client.match # 0,
         client'.acked <= client.acked
         \/ Fine(World', client'.epoch, client'.acked, client'.acked),
         past'.left = past.left, past'.gone = past.gone, past'.reloads = past.reloads,
         past'.matches = past.matches,
         \A p \in FlushSet : Out(p)' =>
           Carried(p) \/ /\ p.epoch = client.epoch /\ p.match = client.match /\ client.match # 0
                         /\ p.to <= client'.next /\ p.since <= client'.next
                         /\ \A n \in Nat : n < p.since /\ n >= Logs!Minus(client'.next, Ring) => n < client.acked,
         \A a \in AckSet : Answered(a)' => Answered(a) \/ Fine(World', a[1].epoch, a[2], a[2])
  PROVE  LogInv'
<1>1. LogTypes /\ Tied /\ AllFine /\ AllFull /\ HomesInv
  BY DEF LogInv
<1>2. Tied'
  BY <1>1 DEF Tied
<1>3. HomesInv'
  BY <1>1, HomesStay
<1>4. Accounted' = Accounted
  BY DEF Logs!Stored, Accounted
<1>5. Later(World, World')
  BY <1>4 DEF Later, World
<1>6. ASSUME NEW p \in FlushSet, Out(p)' PROVE Carried(p) \/ Fine(World', p.epoch, p.to, p.since)
  BY <1>4, <1>6, BuiltIsFine
<1>7. Fine(World', client'.epoch, client'.acked, client'.acked)
  <2>1. CASE client'.acked <= client.acked
    <3> DEFINE w == World
               v == World'
               e == client.epoch
               x == client.acked
    <3>1. World \in Worlds /\ World' \in Worlds
      <4>1. LogTypes' => WorldOk'
        BY WorldTyped, PTL
      <4> QED
        BY <4>1, <1>1, WorldTyped DEF WorldOk
    <3>2. w \in Worlds /\ v \in Worlds /\ Later(w, v) /\ e \in Nat /\ x \in Nat /\ Fine(w, e, x, x)
      BY <1>1, <1>5, <3>1 DEF LogTypes, ClientSet, AllFine
    <3> HIDE DEF w, v, e, x
    <3>3. Fine(v, e, x, x)
      BY <3>2, LaterIsFine
    <3>4. client'.acked \in Nat /\ v.next \in Nat
      BY <3>2 DEF LogTypes, ClientSet, Worlds
    <3>5. Fine(v, e, client'.acked, client'.acked)
      BY <2>1, <3>2, <3>3, <3>4 DEF Fine, Covered, x
    <3> QED
      BY <3>5 DEF v, e
  <2> QED
    BY <2>1
<1>8. AllFine'
  BY <1>1, <1>5, <1>6, <1>7, FineStays
<1>9. AllFull'
  BY <1>1 DEF AllFull
<1> QED
  BY <1>2, <1>3, <1>8, <1>9 DEF LogInv

LEMMA UpIs ==
  ASSUME LogTypes, NEW p \in FlushSet, sock' = [sock EXCEPT !.up = Append(sock.up, p)]
  PROVE  /\ sock' \in [on : BOOLEAN, up : Seq(FlushSet), down : Seq(AckSet)]
         /\ sock'.up = Append(sock.up, p) /\ sock'.down = sock.down
         /\ RangeOf(sock'.up) = RangeOf(sock.up) \cup {p}
<1> DEFINE u == Append(sock.up, p)
<1>1. u \in Seq(FlushSet) /\ RangeOf(u) = RangeOf(sock.up) \cup {p}
  BY RangeAppend DEF LogTypes
<1>2. sock' = [sock EXCEPT !.up = u]
  OBVIOUS
<1> HIDE DEF u
<1>3. sock' \in [on : BOOLEAN, up : Seq(FlushSet), down : Seq(AckSet)] /\ sock'.up = u /\ sock'.down = sock.down
  BY <1>1, <1>2 DEF LogTypes
<1> QED
  BY <1>1, <1>3 DEF u

LEMMA FlushKeeps ==
  ASSUME LogInv, NEW c, Alike(c), c.timers = client.timers, Logs!FlushAs(c),
         UNCHANGED <<roomMatch, rows, appends>>
  PROVE  LogInv'
<1> DEFINE via == IF sock.on THEN "socket" ELSE "http"
           p == Logs!Payload(c, via)
<1>0. LogTypes /\ via \in {"socket", "http"} /\ c \in ClientSet
  BY DEF LogInv, Alike
<1>1. \/ p.match = 0 /\ client' = c /\ UNCHANGED <<sock, http, past>>
      \/ /\ p.match # 0 /\ past.flushes < LogFlushes /\ past' = [past EXCEPT !.flushes = past.flushes + 1]
         /\ \/ /\ client' = [c EXCEPT !.timers = c.timers \cup {p}]
               /\ sock' = [sock EXCEPT !.up = Append(sock.up, p)] /\ UNCHANGED http
            \/ client' = c /\ http' = [http EXCEPT !.up = http.up \cup {p}] /\ UNCHANGED sock
  <2>1. [past EXCEPT !.flushes = past.flushes + 1, !.last = past.last] = [past EXCEPT !.flushes = past.flushes + 1]
    BY <1>0 DEF LogTypes, PastSet
  <2> QED
    BY <2>1 DEF Logs!FlushAs, Logs!FlushThen
<1>2. CASE p.match = 0 /\ client' = c /\ UNCHANGED <<sock, http, past>>
  <2>1. LogTypes'
    BY <1>0, <1>2 DEF LogTypes
  <2>2. \A q : Out(q)' => Out(q)
    BY <1>2 DEF Out
  <2>3. \A q \in FlushSet : Out(q)' => Carried(q)
    BY <2>2 DEF Carried, Same
  <2>4. \A a : Answered(a)' => Answered(a)
    BY <1>2 DEF Answered
  <2>5. client.acked \in Nat
    BY <1>0 DEF LogTypes, ClientSet
  <2> QED
    BY <1>2, <2>1, <2>3, <2>4, <2>5, PageSteps DEF Alike
<1>3. CASE /\ p.match # 0 /\ past.flushes < LogFlushes /\ past' = [past EXCEPT !.flushes = past.flushes + 1]
           /\ \/ /\ client' = [c EXCEPT !.timers = c.timers \cup {p}]
                 /\ sock' = [sock EXCEPT !.up = Append(sock.up, p)] /\ UNCHANGED http
              \/ client' = c /\ http' = [http EXCEPT !.up = http.up \cup {p}] /\ UNCHANGED sock
  <2>1. /\ p \in FlushSet /\ p.epoch = client.epoch /\ p.match = client.match
        /\ p.to <= c.next /\ p.since <= c.next
        /\ \A n \in Nat : n < p.since /\ n >= Logs!Minus(c.next, Ring) => n < client.acked
    <3> DEFINE r == p
    <3>1. r = Logs!Payload(c, via) /\ r.match # 0 /\ past.flushes < LogFlushes
      BY <1>3
    <3> HIDE DEF r, via
    <3>2. /\ r \in FlushSet /\ r.epoch = client.epoch /\ r.match = client.match
          /\ r.to <= c.next /\ r.since <= c.next
          /\ \A n \in Nat : n < r.since /\ n >= Logs!Minus(c.next, Ring) => n < client.acked
      BY <1>0, <3>1, PayloadIs
    <3> QED
      BY <3>2 DEF r
  <2> HIDE DEF p
  <2>2. /\ past' \in PastSet /\ past'.reloads = past.reloads /\ past'.matches = past.matches
        /\ past'.left = past.left /\ past'.gone = past.gone
    <3> DEFINE n == past.flushes + 1
    <3>1. n \in 0..LogFlushes /\ past' = [past EXCEPT !.flushes = n] /\ past \in PastSet
      BY <1>0, <1>3, LogBounds DEF LogTypes, PastSet
    <3> HIDE DEF n
    <3> QED
      BY <3>1 DEF PastSet
  <2>3. /\ client' \in ClientSet /\ client'.epoch = client.epoch /\ client'.match = client.match
        /\ client'.cached = client.cached /\ client'.acked = client.acked /\ client'.next = c.next
        /\ client'.timers \subseteq client.timers \cup {p} /\ client.acked \in Nat
        /\ (client'.running => client.running)
    <3> DEFINE T == c.timers \cup {p}
    <3>1. T \in SUBSET FlushSet /\ (client' = [c EXCEPT !.timers = T] \/ client' = c)
      BY <1>0, <1>3, <2>1 DEF ClientSet
    <3>2. T = client.timers \cup {p} /\ client.acked \in Nat
      BY <1>0 DEF LogTypes, ClientSet
    <3> HIDE DEF T
    <3>3. /\ client' \in ClientSet /\ client'.epoch = c.epoch /\ client'.match = c.match
          /\ client'.cached = c.cached /\ client'.acked = c.acked /\ client'.next = c.next
          /\ client'.running = c.running
          /\ client'.timers = T \/ client'.timers = c.timers
      BY <1>0, <3>1 DEF ClientSet
    <3> QED
      BY <3>2, <3>3 DEF Alike
  <2>4. /\ sock' \in [on : BOOLEAN, up : Seq(FlushSet), down : Seq(AckSet)] /\ sock'.down = sock.down
        /\ RangeOf(sock'.up) \subseteq RangeOf(sock.up) \cup {p}
    <3>1. CASE sock' = [sock EXCEPT !.up = Append(sock.up, p)]
      BY <1>0, <2>1, <3>1, UpIs
    <3>2. CASE UNCHANGED sock
      BY <1>0, <3>2 DEF LogTypes
    <3> QED
      BY <1>3, <3>1, <3>2
  <2>5. /\ http' \in [up : SUBSET FlushSet, down : SUBSET AckSet] /\ http'.down = http.down
        /\ http'.up \subseteq http.up \cup {p}
    BY <1>0, <1>3, <2>1 DEF LogTypes
  <2>6. LogTypes'
    BY <1>0, <2>2, <2>3, <2>4, <2>5 DEF LogTypes
  <2>7. \A q : Out(q)' => Out(q) \/ q = p
    BY <2>3, <2>4, <2>5 DEF Out
  <2>8. \A q \in FlushSet : Out(q)' => Carried(q) \/ q = p
    BY <2>7 DEF Carried, Same
  <2>9. \A a : Answered(a)' => Answered(a)
    BY <2>4, <2>5 DEF Answered
  <2>10. client.match # 0 /\ client.next <= client'.next
    BY <1>3, <2>1, <2>3 DEF Alike
  <2> QED
    BY <2>1, <2>2, <2>3, <2>6, <2>8, <2>9, <2>10, PageSteps
<1> QED
  BY <1>1, <1>2, <1>3

LEMMA LinesKeep ==
  ASSUME LogInv, Logs!Log \/ Logs!LogCritical \/ Logs!Flush
  PROVE  LogInv'
<1> DEFINE c == [client EXCEPT !.next = client.next + 1]
           d == [client EXCEPT !.critical = FALSE]
           e == [c EXCEPT !.critical = TRUE]
<1>1. LogTypes /\ client \in ClientSet /\ client.acked \in Nat
  BY DEF LogInv, LogTypes, ClientSet
<1>7. client.next \in Nat /\ client.next <= client.next
  BY <1>1, LogAssumption DEF ClientSet
<1>2. /\ Alike(d) /\ d.timers = client.timers
  <2>1. /\ d \in ClientSet /\ d.epoch = client.epoch /\ d.match = client.match /\ d.cached = client.cached
        /\ d.acked = client.acked /\ d.next = client.next /\ d.timers = client.timers
        /\ d.running = client.running
    BY <1>1 DEF ClientSet
  <2> HIDE DEF d
  <2> QED
    BY <2>1, <1>7 DEF Alike
<1>3. ASSUME client.next < LogLines
      PROVE  Alike(c) /\ c.timers = client.timers /\ Alike(e) /\ e.timers = client.timers
  <2> DEFINE n == client.next + 1
  <2>1. n \in 0..LogLines /\ client.next <= n /\ c = [client EXCEPT !.next = n]
    BY <1>3, <1>7, LogAssumption
  <2> HIDE DEF n
  <2>2. /\ c \in ClientSet /\ c.epoch = client.epoch /\ c.match = client.match /\ c.cached = client.cached
        /\ c.acked = client.acked /\ c.next = n /\ c.timers = client.timers
        /\ c.running = client.running
    BY <1>1, <2>1 DEF ClientSet
  <2> HIDE DEF c
  <2>3. /\ e \in ClientSet /\ e.epoch = c.epoch /\ e.match = c.match /\ e.cached = c.cached
        /\ e.acked = c.acked /\ e.next = c.next /\ e.timers = c.timers
        /\ e.running = c.running
    BY <2>2 DEF ClientSet
  <2> HIDE DEF e
  <2> QED
    BY <2>1, <2>2, <2>3 DEF Alike
<1>4. \/ /\ client.next < LogLines /\ client' \in {c, e}
         /\ UNCHANGED <<roomMatch, rows, appends, sock, http, past>>
      \/ client.next < LogLines /\ Logs!FlushAs(c) /\ UNCHANGED <<roomMatch, rows, appends>>
      \/ Logs!FlushAs(d) /\ UNCHANGED <<roomMatch, rows, appends>>
  BY DEF Logs!Log, Logs!LogCritical, Logs!Flush
<1> HIDE DEF c, d, e
<1>5. CASE /\ client.next < LogLines /\ client' \in {c, e}
           /\ UNCHANGED <<roomMatch, rows, appends, sock, http, past>>
  <2>1. Alike(client') /\ client'.timers = client.timers
    BY <1>3, <1>5
  <2>2. LogTypes'
    BY <1>1, <1>5, <2>1 DEF LogTypes, Alike
  <2>3. \A q : Out(q)' => Out(q)
    BY <1>5, <2>1 DEF Out
  <2>4. \A q \in FlushSet : Out(q)' => Carried(q)
    BY <2>3 DEF Carried, Same
  <2>5. \A a : Answered(a)' => Answered(a)
    BY <1>5 DEF Answered
  <2> QED
    BY <1>1, <1>5, <2>1, <2>2, <2>4, <2>5, PageSteps DEF Alike
<1> QED
  BY <1>2, <1>3, <1>4, <1>5, FlushKeeps

(* A hidden page may leave the oldest out.                                    *)
LEMMA HiddenKeeps == LogInv /\ Logs!Hidden => LogInv'
<1> SUFFICES ASSUME LogInv, Logs!Hidden PROVE LogInv'
  OBVIOUS
<1> DEFINE via == "http"
           p == Logs!Payload(client, via)
           q == Logs!NewestThatFit(p)
           n == past.flushes + 1
<1>1. /\ LogTypes /\ client \in ClientSet /\ past.flushes < LogFlushes /\ via \in {"socket", "http"}
      /\ client.acked \in Nat /\ client.next \in Nat /\ client.running
  BY LogAssumption DEF LogInv, LogTypes, ClientSet, Logs!Hidden
<1>2. /\ http' = [http EXCEPT !.up = http.up \cup {q}] /\ past' = [past EXCEPT !.flushes = n]
      /\ UNCHANGED <<client, roomMatch, rows, appends, sock>>
  BY DEF Logs!Hidden
<1>3. Alike(client)
  BY <1>1 DEF Alike
<1>4. n \in 0..LogFlushes /\ past \in PastSet
  BY <1>1, LogAssumption DEF LogTypes, PastSet
<1>5. p.match # 0
  <2>1. client.match # 0 /\ p.match = IF client.cached # 0 THEN client.cached ELSE client.match
    BY <1>1 DEF LogInv, Tied, Logs!Payload
  <2> QED
    BY <2>1
<1>6. /\ p \in FlushSet /\ p.epoch = client.epoch /\ p.match = client.match
      /\ p.to <= client.next /\ p.since <= client.next
      /\ \A i \in Nat : i < p.since /\ i >= Logs!Minus(client.next, Ring) => i < client.acked
  <2> DEFINE r == p
  <2>1. r = Logs!Payload(client, via) /\ r.match # 0
    BY <1>5
  <2> HIDE DEF r, via
  <2>2. /\ r \in FlushSet /\ r.epoch = client.epoch /\ r.match = client.match
        /\ r.to <= client.next /\ r.since <= client.next
        /\ \A i \in Nat : i < r.since /\ i >= Logs!Minus(client.next, Ring) => i < client.acked
    BY <1>1, <1>3, <2>1, PayloadIs
  <2> QED
    BY <2>2 DEF r
<1> HIDE DEF p, n
<1>7. /\ q \in FlushSet /\ q.epoch = p.epoch /\ q.match = p.match /\ q.to = p.to /\ q.since = p.since
  <2> DEFINE from == Logs!Higher(p.from, Logs!Minus(p.to, HiddenMax))
  <2>1. p.to \in Nat /\ p.from \in Nat
    BY <1>6 DEF FlushSet
  <2>2. Logs!Minus(p.to, HiddenMax) \in Nat /\ Logs!Minus(p.to, HiddenMax) <= p.to
    BY <2>1, MinusBelow, LogAssumption
  <2>3. from \in Nat
    BY <1>1, <1>6, <2>1, <2>2 DEF Logs!Higher
  <2>4. q = [p EXCEPT !.from = from]
    BY DEF Logs!NewestThatFit
  <2> HIDE DEF from, q
  <2> QED
    BY <1>6, <2>3, <2>4 DEF FlushSet
<1>8. /\ past' \in PastSet /\ past'.reloads = past.reloads /\ past'.matches = past.matches
      /\ past'.left = past.left /\ past'.gone = past.gone
  BY <1>2, <1>4 DEF PastSet
<1> HIDE DEF q
<1>11. http' \in [up : SUBSET FlushSet, down : SUBSET AckSet] /\ http'.up = http.up \cup {q} /\ http'.down = http.down
  BY <1>1, <1>2, <1>7 DEF LogTypes
<1>12. LogTypes'
  BY <1>1, <1>2, <1>8, <1>11 DEF LogTypes
<1>13. \A r : Out(r)' => Out(r) \/ r = q
  BY <1>2, <1>11 DEF Out
<1>14. \A r \in FlushSet : Out(r)' => Carried(r) \/ r = q
  BY <1>13 DEF Carried, Same
<1>15. \A a : Answered(a)' => Answered(a)
  BY <1>2, <1>11 DEF Answered
<1>16. client.match # 0
  BY <1>5, <1>6
<1> QED
  BY <1>1, <1>2, <1>6, <1>7, <1>8, <1>12, <1>14, <1>15, <1>16, PageSteps

(* Answers.                                                                  *)
LEMMA AckIs ==
  ASSUME LogInv, LogTypes', NEW a \in AckSet, Answered(a),
         NEW c \in ClientSet, c.epoch = client.epoch, c.match = client.match, c.next = client.next,
         c.cached = client.cached, c.running = client.running, c.acked = client.acked,
         c.timers \subseteq client.timers,
         client' = Logs!Ack(c, a[1], a[2]), UNCHANGED <<roomMatch, rows, appends, past>>,
         RangeOf(sock'.up) \subseteq RangeOf(sock.up), RangeOf(sock'.down) \subseteq RangeOf(sock.down),
         http'.up \subseteq http.up, http'.down \subseteq http.down
  PROVE  LogInv'
<1> DEFINE x == a[2]
           d == [c EXCEPT !.acked = x]
<1>1. client' = d \/ client' = c
  BY DEF Logs!Ack
<1>2. x \in Nat /\ a[1].epoch \in Nat /\ client.acked \in Nat
  BY LogAssumption DEF AckSet, FlushSet, LogInv, LogTypes, ClientSet
<1>3. client' = d => a[1].epoch = c.epoch \/ client' = c
  BY DEF Logs!Ack
<1>4. /\ client'.epoch = client.epoch /\ client'.match = client.match /\ client'.next = client.next
      /\ client'.cached = client.cached /\ client'.running = client.running
      /\ client'.timers \subseteq client.timers
      /\ client'.acked = client.acked \/ (client'.acked = x /\ a[1].epoch = client.epoch)
  <2> HIDE DEF x
  <2> QED
    BY <1>1, <1>2, <1>3 DEF ClientSet
<1>5. Accounted' = Accounted
  BY DEF Logs!Stored, Accounted
<1>6. World' = World
  BY <1>4, <1>5 DEF World
<1>7. client'.acked <= client.acked \/ Fine(World', client'.epoch, client'.acked, client'.acked)
  <2>1. Fine(World, a[1].epoch, x, x)
    BY DEF LogInv, AllFine
  <2> HIDE DEF x
  <2> QED
    BY <1>2, <1>4, <1>6, <2>1
<1>8. \A p : Out(p)' => Out(p)
  BY <1>4 DEF Out
<1>9. \A p \in FlushSet : Out(p)' => Carried(p)
  BY <1>8 DEF Carried, Same
<1>10. \A b : Answered(b)' => Answered(b)
  BY DEF Answered
<1>11. client.next \in Nat
  BY LogAssumption DEF LogInv, LogTypes, ClientSet
<1> HIDE DEF x, d
<1> QED
  BY <1>4, <1>7, <1>9, <1>10, <1>11, PageSteps

LEMMA AnswersKeep ==
  ASSUME LogInv, Logs!SocketAck \/ \E a \in http.down : Logs!HttpAck(a)
  PROVE  LogInv'
<1>0. LogTypes /\ client \in ClientSet
  BY DEF LogInv, LogTypes
<1>9. ASSUME NEW c \in ClientSet, NEW p \in FlushSet, NEW x \in 0..LogLines PROVE Logs!Ack(c, p, x) \in ClientSet
  BY LogAssumption DEF Logs!Ack, ClientSet
<1>1. CASE Logs!SocketAck
  <2> DEFINE a == Head(sock.down)
             b == a[1]
             T == client.timers \ {b}
             c == [client EXCEPT !.fails = 0, !.timers = T]
             e == Tail(sock.down)
  <2>1. /\ client' = Logs!Ack(c, a[1], a[2]) /\ sock' = [sock EXCEPT !.down = e] /\ sock.down # <<>>
        /\ UNCHANGED <<roomMatch, rows, appends, http, past>>
    BY <1>1 DEF Logs!SocketAck
  <2>2. a \in AckSet /\ a \in RangeOf(sock.down) /\ e \in Seq(AckSet) /\ RangeOf(e) \subseteq RangeOf(sock.down)
    BY <1>0, <2>1, RangeTail DEF LogTypes
  <2> HIDE DEF a, e
  <2>3. Answered(a) /\ a[1] \in FlushSet /\ a[2] \in 0..LogLines
    BY <2>2 DEF Answered, AckSet
  <2>4. T \subseteq client.timers /\ T \in SUBSET FlushSet
    BY <1>0 DEF ClientSet
  <2> HIDE DEF T
  <2>5. /\ c \in ClientSet /\ c.epoch = client.epoch /\ c.match = client.match /\ c.next = client.next
        /\ c.cached = client.cached /\ c.running = client.running /\ c.acked = client.acked
        /\ c.timers \subseteq client.timers
    BY <1>0, <2>4 DEF ClientSet
  <2> HIDE DEF c
  <2>6. client' \in ClientSet
    BY <1>9, <2>1, <2>3, <2>5
  <2>7. sock' \in [on : BOOLEAN, up : Seq(FlushSet), down : Seq(AckSet)] /\ sock'.up = sock.up /\ sock'.down = e
    BY <1>0, <2>1, <2>2 DEF LogTypes
  <2>8. LogTypes'
    BY <1>0, <2>1, <2>6, <2>7 DEF LogTypes
  <2> QED
    BY <2>1, <2>2, <2>3, <2>5, <2>7, <2>8, AckIs
<1>2. CASE \E a \in http.down : Logs!HttpAck(a)
  <2>1. PICK a \in http.down : Logs!HttpAck(a)
    BY <1>2
  <2> DEFINE D == http.down \ {a}
  <2>2. /\ client' = Logs!Ack(client, a[1], a[2]) /\ http' = [http EXCEPT !.down = D]
        /\ UNCHANGED <<roomMatch, rows, appends, sock, past>>
    BY <2>1 DEF Logs!HttpAck
  <2>3. a \in AckSet /\ a[1] \in FlushSet /\ a[2] \in 0..LogLines /\ Answered(a)
    BY <1>0, <2>1 DEF LogTypes, AckSet, Answered
  <2>4. D \subseteq http.down /\ D \in SUBSET AckSet
    BY <1>0 DEF LogTypes
  <2> HIDE DEF D
  <2>5. http' \in [up : SUBSET FlushSet, down : SUBSET AckSet] /\ http'.up = http.up /\ http'.down = D
    BY <1>0, <2>2, <2>4 DEF LogTypes
  <2>6. client' \in ClientSet
    BY <1>0, <1>9, <2>2, <2>3
  <2>7. LogTypes'
    BY <1>0, <2>2, <2>5, <2>6 DEF LogTypes
  <2> QED
    BY <1>0, <2>2, <2>3, <2>4, <2>5, <2>7, AckIs
<1> QED
  BY <1>1, <1>2

(* Once more over HTTP: the same lines.                                       *)
LEMMA TimeoutKeeps ==
  ASSUME LogInv, NEW p \in client.timers, Logs!AckTimesOut(p)
  PROVE  LogInv'
<1> DEFINE again == [p EXCEPT !.via = "http"]
           T == client.timers \ {p}
           n == Logs!Lower(client.fails + 1, 2)
           U == http.up \cup {again}
<1>1. /\ LogTypes /\ client \in ClientSet /\ p \in FlushSet /\ client.acked \in Nat /\ client.next \in Nat
      /\ Out(p)
  BY LogAssumption DEF LogInv, LogTypes, ClientSet, Out
<1>2. /\ client' = [client EXCEPT !.timers = T, !.fails = n]
      /\ http' = [http EXCEPT !.up = U] \/ http' = http
      /\ UNCHANGED <<roomMatch, rows, appends, sock, past>>
  BY DEF Logs!AckTimesOut
<1>3. again \in FlushSet /\ Same(again, p)
  BY <1>1 DEF FlushSet, Same
<1> HIDE DEF again
<1>4. U \in SUBSET FlushSet /\ T \in SUBSET FlushSet /\ T \subseteq client.timers /\ n \in Nat
  BY <1>1, <1>3 DEF LogTypes, ClientSet, Logs!Lower
<1>5. U = http.up \cup {again}
  OBVIOUS
<1> HIDE DEF T, n, U
<1>6. /\ client' \in ClientSet /\ client'.epoch = client.epoch /\ client'.match = client.match
      /\ client'.next = client.next /\ client'.cached = client.cached /\ client'.running = client.running
      /\ client'.acked = client.acked /\ client'.timers = T
  BY <1>1, <1>2, <1>4 DEF ClientSet
<1>7. /\ http' \in [up : SUBSET FlushSet, down : SUBSET AckSet] /\ http'.up \subseteq http.up \cup {again}
      /\ http'.down = http.down
  BY <1>1, <1>2, <1>4, <1>5 DEF LogTypes
<1>8. LogTypes'
  BY <1>1, <1>2, <1>6, <1>7 DEF LogTypes
<1>9. \A q : Out(q)' => Out(q) \/ q = again
  BY <1>2, <1>4, <1>6, <1>7 DEF Out
<1>10. Carried(again)
  BY <1>1, <1>3 DEF Carried
<1>11. \A q \in FlushSet : Out(q)' => Carried(q)
  BY <1>9, <1>10 DEF Carried, Same
<1>12. \A a : Answered(a)' => Answered(a)
  BY <1>2, <1>7 DEF Answered
<1> QED
  BY <1>1, <1>2, <1>6, <1>8, <1>11, <1>12, PageSteps

LEMMA RunsKeeps == LogInv /\ Logs!Runs => LogInv'
<1> SUFFICES ASSUME LogInv, Logs!Runs PROVE LogInv'
  OBVIOUS
<1> DEFINE m == client.match
<1>1. LogTypes /\ client \in ClientSet /\ client.acked \in Nat /\ client.next \in Nat /\ m \in 0..LogMatches /\ m # 0
  BY LogAssumption DEF LogInv, LogTypes, ClientSet, Logs!Runs
<1>2. /\ client' = [client EXCEPT !.running = TRUE, !.leaked = TRUE, !.cached = m, !.acked = 0, !.fails = 0]
      /\ UNCHANGED <<roomMatch, rows, appends, sock, http, past>>
  BY DEF Logs!Runs
<1> HIDE DEF m
<1>3. /\ client' \in ClientSet /\ client'.epoch = client.epoch /\ client'.match = client.match
      /\ client'.next = client.next /\ client'.cached = m /\ client'.acked = 0
      /\ client'.timers = client.timers
  BY <1>1, <1>2 DEF ClientSet
<1>4. LogTypes'
  BY <1>1, <1>2, <1>3 DEF LogTypes
<1>5. \A q : Out(q)' => Out(q)
  BY <1>2, <1>3 DEF Out
<1>6. \A q \in FlushSet : Out(q)' => Carried(q)
  BY <1>5 DEF Carried, Same
<1>7. \A a : Answered(a)' => Answered(a)
  BY <1>2 DEF Answered
<1>8. client.match # 0 /\ client'.cached = client.match /\ client'.acked <= client.acked
  BY <1>1, <1>3 DEF m
<1> QED
  BY <1>1, <1>2, <1>3, <1>4, <1>6, <1>7, <1>8, PageSteps

(* The socket.  A flush that waits to be stored is stored, whoever hears of it.   *)
LEMMA GoneTyped ==
  ASSUME LogTypes, Tied, NEW via \in {"socket", "http"},
         NEW f, f = [k \in Logs!Matches |-> [i \in DOMAIN appends[k] |->
                       IF via = "http" \/ appends[k][i].via = "socket"
                       THEN [appends[k][i] EXCEPT !.via = "gone"] ELSE appends[k][i]]]
  PROVE  /\ f \in [Logs!Matches -> Seq(FlushSet)]
         /\ \A k \in Logs!Matches :
              /\ Len(f[k]) = Len(appends[k])
              /\ \A i \in 1..Len(f[k]) : f[k][i] \in FlushSet /\ Same(f[k][i], appends[k][i])
<1>1. ASSUME NEW k \in Logs!Matches
      PROVE  /\ f[k] \in Seq(FlushSet) /\ Len(f[k]) = Len(appends[k])
             /\ \A i \in 1..Len(f[k]) : f[k][i] \in FlushSet /\ Same(f[k][i], appends[k][i])
  <2> DEFINE q == appends[k]
             r == f[k]
  <2>1. q \in Seq(FlushSet) /\ DOMAIN q = 1..Len(q) /\ Len(q) \in Nat
    BY DEF LogTypes
  <2>2. r = [i \in 1..Len(q) |-> IF via = "http" \/ q[i].via = "socket"
                                 THEN [q[i] EXCEPT !.via = "gone"] ELSE q[i]]
    BY <2>1
  <2> HIDE DEF q, r
  <2>3. \A i \in 1..Len(q) : q[i] \in FlushSet
    BY <2>1
  <2>4. \A x \in FlushSet : [x EXCEPT !.via = "gone"] \in FlushSet /\ Same([x EXCEPT !.via = "gone"], x)
                            /\ Same(x, x)
    BY DEF FlushSet, Same
  <2>5. \A i \in 1..Len(q) : r[i] \in FlushSet /\ Same(r[i], q[i])
    BY <2>2, <2>3, <2>4
  <2>6. r \in [1..Len(q) -> FlushSet]
    BY <2>2, <2>5
  <2>7. r \in Seq(FlushSet) /\ Len(r) = Len(q)
    BY <2>1, <2>6
  <2> QED
    BY <2>5, <2>7 DEF q, r
<1>2. f \in [Logs!Matches -> Seq(FlushSet)]
  BY <1>1
<1> QED
  BY <1>1, <1>2

LEMMA GoneCarries ==
  ASSUME LogTypes, NEW k \in Logs!Matches, NEW r, Len(r) = Len(appends[k]), NEW p \in RangeOf(r),
         \A i \in 1..Len(r) : Same(r[i], appends[k][i])
  PROVE  Carried(p)
<1>1. PICK i \in 1..Len(r) : p = r[i]
  BY DEF RangeOf
<1>2. appends[k][i] \in FlushSet /\ appends[k][i] \in RangeOf(appends[k])
  BY DEF LogTypes, RangeOf
<1> QED
  BY <1>1, <1>2 DEF Carried, Out

LEMMA DropsKeeps == LogInv /\ Logs!SocketDrops => LogInv'
<1> SUFFICES ASSUME LogInv, Logs!SocketDrops PROVE LogInv'
  OBVIOUS
<1> DEFINE n == past.trouble + 1
           via == "socket"
           f == [k \in Logs!Matches |-> [i \in DOMAIN appends[k] |->
                       IF via = "http" \/ appends[k][i].via = "socket"
                       THEN [appends[k][i] EXCEPT !.via = "gone"] ELSE appends[k][i]]]
<1>1. LogTypes /\ Tied /\ client \in ClientSet /\ client.acked \in Nat /\ client.next \in Nat /\ past \in PastSet
  BY LogAssumption DEF LogInv, LogTypes, ClientSet
<1>2. n \in 0..LogTrouble
  BY <1>1, LogAssumption DEF Logs!SocketDrops, Logs!Trouble, PastSet
<1>3. /\ sock' = [on |-> FALSE, up |-> <<>>, down |-> <<>>] /\ past' = [past EXCEPT !.trouble = n]
      /\ appends' = f /\ UNCHANGED <<client, roomMatch, rows, http>>
  BY DEF Logs!SocketDrops, Logs!Troubled
<1>4. via \in {"socket", "http"}
  OBVIOUS
<1> HIDE DEF via
<1>5. /\ f \in [Logs!Matches -> Seq(FlushSet)]
      /\ \A k \in Logs!Matches :
              /\ Len(f[k]) = Len(appends[k])
              /\ \A i \in 1..Len(f[k]) : f[k][i] \in FlushSet /\ Same(f[k][i], appends[k][i])
  BY <1>1, <1>4, GoneTyped
<1> HIDE DEF f, n
<1>6. /\ past' \in PastSet /\ past'.reloads = past.reloads /\ past'.matches = past.matches
      /\ past'.left = past.left /\ past'.gone = past.gone
  BY <1>1, <1>2, <1>3 DEF PastSet
<1>7. /\ sock' \in [on : BOOLEAN, up : Seq(FlushSet), down : Seq(AckSet)]
      /\ RangeOf(sock'.up) = {} /\ RangeOf(sock'.down) = {}
  BY <1>3, RangeEmpty
<1>8. LogTypes'
  BY <1>1, <1>3, <1>5, <1>6, <1>7 DEF LogTypes
<1>9. \A k \in Logs!Matches : /\ Len(appends'[k]) <= 2
                              /\ \A i \in 1..Len(appends'[k]) : appends'[k][i].match = k
  BY <1>1, <1>3, <1>5 DEF Tied, Same
<1>10. ASSUME NEW p \in FlushSet, Out(p)' PROVE Carried(p)
  <2>1. CASE p \in http.up \/ p \in client.timers
    BY <2>1 DEF Carried, Same, Out
  <2>2. CASE \E k \in Logs!Matches : p \in RangeOf(f[k])
    <3>1. PICK k \in Logs!Matches : p \in RangeOf(f[k])
      BY <2>2
    <3> DEFINE r == f[k]
    <3>2. Len(r) = Len(appends[k]) /\ p \in RangeOf(r) /\ \A i \in 1..Len(r) : Same(r[i], appends[k][i])
      BY <1>5, <3>1
    <3> HIDE DEF r
    <3> QED
      BY <1>1, <3>2, GoneCarries
  <2> QED
    BY <1>3, <1>7, <1>10, <2>1, <2>2 DEF Out
<1>11. \A a : Answered(a)' => Answered(a)
  BY <1>3, <1>7 DEF Answered
<1> QED
  BY <1>1, <1>3, <1>6, <1>8, <1>9, <1>10, <1>11, PageSteps

LEMMA ReturnsKeeps == LogInv /\ Logs!SocketReturns => LogInv'
<1> SUFFICES ASSUME LogInv, Logs!SocketReturns PROVE LogInv'
  OBVIOUS
<1>1. LogTypes /\ client \in ClientSet /\ client.acked \in Nat /\ client.next \in Nat
  BY LogAssumption DEF LogInv, LogTypes, ClientSet
<1>2. sock' = [sock EXCEPT !.on = TRUE] /\ UNCHANGED <<client, roomMatch, rows, appends, http, past>>
  BY DEF Logs!SocketReturns
<1>3. /\ sock' \in [on : BOOLEAN, up : Seq(FlushSet), down : Seq(AckSet)] /\ sock'.up = sock.up
      /\ sock'.down = sock.down
  BY <1>1, <1>2 DEF LogTypes
<1>4. LogTypes'
  BY <1>1, <1>2, <1>3 DEF LogTypes
<1>5. \A q : Out(q)' => Out(q)
  BY <1>2, <1>3 DEF Out
<1>6. \A q \in FlushSet : Out(q)' => Carried(q)
  BY <1>5 DEF Carried, Same
<1>7. \A a : Answered(a)' => Answered(a)
  BY <1>2, <1>3 DEF Answered
<1> QED
  BY <1>1, <1>2, <1>4, <1>6, <1>7, PageSteps

(* The server's side of a flush: it waits for its turn or is turned away, and the *)
(* page hears, if at all, that nothing more is stored.                        *)
LEMMA WaitsIs ==
  ASSUME LogTypes, Tied, NEW p \in FlushSet, Len(appends[p.match]) < 2,
         appends' = [appends EXCEPT ![p.match] = Append(appends[p.match], p)]
  PROVE  /\ appends' \in [Logs!Matches -> Seq(FlushSet)]
         /\ \A k \in Logs!Matches : /\ Len(appends'[k]) <= 2
                                    /\ \A i \in 1..Len(appends'[k]) : appends'[k][i].match = k
                                    /\ RangeOf(appends'[k]) \subseteq RangeOf(appends[k]) \cup {p}
<1> DEFINE m == p.match
           q == appends[m]
           r == Append(q, p)
<1>1. m \in Logs!Matches /\ q \in Seq(FlushSet) /\ appends \in [Logs!Matches -> Seq(FlushSet)]
  BY DEF LogTypes, FlushSet
<1>2. r \in Seq(FlushSet) /\ RangeOf(r) = RangeOf(q) \cup {p}
  BY <1>1, RangeAppend
<1>3. Len(r) = Len(q) + 1 /\ Len(q) \in Nat /\ Len(q) < 2 /\ r[Len(q) + 1] = p
      /\ \A i \in 1..Len(q) : r[i] = q[i]
  BY <1>1
<1>4. \A i \in 1..Len(q) : q[i].match = m
  BY <1>1 DEF Tied
<1>5. p.match = m
  OBVIOUS
<1>6. appends' = [appends EXCEPT ![m] = r]
  OBVIOUS
<1>7. q = appends[m]
  OBVIOUS
<1> HIDE DEF m, q, r
<1>8. \A i \in 1..Len(r) : i \in 1..Len(q) \/ i = Len(q) + 1
  BY <1>3
<1>9. \A i \in 1..Len(r) : r[i].match = m
  BY <1>3, <1>4, <1>5, <1>8
<1>10. Len(r) <= 2
  BY <1>3
<1>11. \A k \in Logs!Matches : appends'[k] = (IF k = m THEN r ELSE appends[k])
  BY <1>1, <1>6
<1>12. appends' \in [Logs!Matches -> Seq(FlushSet)]
  BY <1>1, <1>2, <1>6
<1>13. ASSUME NEW k \in Logs!Matches
       PROVE  /\ Len(appends'[k]) <= 2
              /\ \A i \in 1..Len(appends'[k]) : appends'[k][i].match = k
              /\ RangeOf(appends'[k]) \subseteq RangeOf(appends[k]) \cup {p}
  <2>1. CASE k = m
    BY <1>2, <1>7, <1>9, <1>10, <1>11, <2>1
  <2>2. CASE k # m
    BY <1>11, <2>2 DEF Tied
  <2> QED
    BY <2>1, <2>2
<1> QED
  BY <1>12, <1>13

LEMMA TakeKeeps ==
  ASSUME LogInv, NEW p \in FlushSet, Out(p),
         \/ UNCHANGED appends
         \/ /\ appends' \in [Logs!Matches -> Seq(FlushSet)]
            /\ \A k \in Logs!Matches : /\ Len(appends'[k]) <= 2
                                       /\ \A i \in 1..Len(appends'[k]) : appends'[k][i].match = k
                                       /\ RangeOf(appends'[k]) \subseteq RangeOf(appends[k]) \cup {p},
         sock' \in [on : BOOLEAN, up : Seq(FlushSet), down : Seq(AckSet)],
         http' \in [up : SUBSET FlushSet, down : SUBSET AckSet],
         RangeOf(sock'.up) \subseteq RangeOf(sock.up), http'.up \subseteq http.up, http'.down = http.down,
         RangeOf(sock'.down) \subseteq RangeOf(sock.down) \cup {<<p, 0>>},
         UNCHANGED past \/ (Logs!Trouble /\ past' = Logs!Troubled), UNCHANGED <<client, roomMatch, rows>>
  PROVE  LogInv'
<1>1. LogTypes /\ client.acked \in Nat /\ client.next \in Nat /\ client.epoch \in Nat
  BY LogBounds DEF LogInv, LogTypes, ClientSet
<1>2. /\ past' \in PastSet /\ past'.reloads = past.reloads /\ past'.matches = past.matches
      /\ past'.left = past.left /\ past'.gone = past.gone
  <2>1. CASE UNCHANGED past
    BY <1>1, <2>1 DEF LogTypes
  <2>2. CASE Logs!Trouble /\ past' = Logs!Troubled
    <3> DEFINE n == past.trouble + 1
    <3>3. past.trouble < LogTrouble
      BY <2>2 DEF Logs!Trouble
    <3>4. past.trouble \in 0..LogTrouble
      BY <1>1 DEF LogTypes, PastSet
    <3>1. n \in 0..LogTrouble
      BY <3>3, <3>4, LogAssumption
    <3>2. past' = [past EXCEPT !.trouble = n]
      BY <2>2 DEF Logs!Troubled
    <3> HIDE DEF n
    <3> QED
      BY <1>1, <3>1, <3>2 DEF LogTypes, PastSet
  <2> QED
    BY <2>1, <2>2
<1>3. LogTypes'
  BY <1>1, <1>2 DEF LogTypes
<1>4. \A q : Out(q)' => Out(q) \/ q = p
  <2> SUFFICES ASSUME NEW q, Out(q)', ~Out(q) PROVE q = p
    OBVIOUS
  <2>1. q \notin RangeOf(sock.up) /\ q \notin http.up /\ q \notin client.timers
    BY DEF Out
  <2>2. \A k \in Logs!Matches : q \notin RangeOf(appends[k])
    BY DEF Out
  <2>3. q \notin RangeOf(sock'.up) /\ q \notin http'.up /\ q \notin client'.timers
    BY <2>1
  <2>4. PICK k \in Logs!Matches : q \in RangeOf(appends'[k])
    <3>1. \/ q \in RangeOf(sock'.up) \/ q \in http'.up \/ q \in client'.timers
          \/ \E k \in Logs!Matches : q \in RangeOf(appends'[k])
      BY ZenonT(30) DEF Out
    <3> QED
      BY <2>3, <3>1
  <2>5. ~UNCHANGED appends
    BY <2>2, <2>4
  <2>6. RangeOf(appends'[k]) \subseteq RangeOf(appends[k]) \cup {p}
    BY <2>5
  <2> QED
    BY <2>2, <2>4, <2>6
<1>5. \A q \in FlushSet : Out(q)' => Carried(q)
  BY <1>4 DEF Carried, Same
<1>6. ASSUME NEW a \in AckSet, Answered(a)' PROVE Answered(a) \/ Fine(World', a[1].epoch, a[2], a[2])
  <2>1. Answered(a) \/ a = <<p, 0>>
    BY <1>6 DEF Answered
  <2>2. CASE a = <<p, 0>>
    <3>1. p.epoch <= client.epoch
      BY DEF LogInv, AllFine, Fine, World
    <3>2. World'.epoch = client.epoch /\ World'.next = client.next
      BY DEF World
    <3>3. Covered(World', 0)
      BY DEF Covered
    <3>4. Fine(World', p.epoch, 0, 0)
      BY <1>1, <3>1, <3>2, <3>3 DEF Fine
    <3> QED
      BY <2>2, <3>4
  <2> QED
    BY <2>1, <2>2
<1>7. appends' = appends
         \/ \A k \in Logs!Matches : /\ Len(appends'[k]) <= 2
                                   /\ \A i \in 1..Len(appends'[k]) : appends'[k][i].match = k
  OBVIOUS
<1> QED
  BY <1>1, <1>2, <1>3, <1>5, <1>6, <1>7, PageSteps

LEMMA TakesKeep ==
  ASSUME LogInv, Logs!SocketTakes \/ \E p \in http.up : Logs!HttpTakes(p)
  PROVE  LogInv'
<1>1. LogTypes /\ Tied
  BY DEF LogInv
<1>2. CASE Logs!SocketTakes
  <2> DEFINE p == Head(sock.up)
             u == Tail(sock.up)
             rest == [sock EXCEPT !.up = u]
             d == Append(sock.down, <<p, 0>>)
             refused == [rest EXCEPT !.down = d]
  <2>1. sock.up # <<>> /\ sock.up \in Seq(FlushSet) /\ sock.down \in Seq(AckSet)
    BY <1>1, <1>2 DEF Logs!SocketTakes, LogTypes
  <2>2. p \in FlushSet /\ p \in RangeOf(sock.up) /\ u \in Seq(FlushSet) /\ RangeOf(u) \subseteq RangeOf(sock.up)
    BY <2>1, RangeTail
  <2>3. rest.down = sock.down
    BY <1>1 DEF LogTypes
  <2>4. /\ \/ UNCHANGED appends
           \/ /\ Len(appends[p.match]) < 2
              /\ appends' = [appends EXCEPT ![p.match] = Append(appends[p.match], p)]
        /\ sock' = rest \/ sock' = refused
        /\ UNCHANGED past \/ (Logs!Trouble /\ past' = Logs!Troubled)
        /\ UNCHANGED <<client, roomMatch, rows, http>>
    <3>1. ~Logs!Busy(p.match) => Len(appends[p.match]) < 2
      <4>1. p.match \in Logs!Matches
        BY <2>2 DEF FlushSet
      <4> HIDE DEF p
      <4>2. Len(appends[p.match]) \in Nat
        BY <1>1, <4>1 DEF LogTypes
      <4> QED
        BY <4>2 DEF Logs!Busy
    <3> QED
      BY <1>2, <2>3, <3>1 DEF Logs!SocketTakes
  <2> HIDE DEF p, u
  <2>5. <<p, 0>> \in AckSet
    BY <2>2, LogAssumption DEF AckSet
  <2>6. d \in Seq(AckSet) /\ RangeOf(d) = RangeOf(sock.down) \cup {<<p, 0>>}
    BY <2>1, <2>5, RangeAppend
  <2> HIDE DEF d
  <2>7. rest \in [on : BOOLEAN, up : Seq(FlushSet), down : Seq(AckSet)] /\ rest.up = u /\ rest.down = sock.down
    BY <1>1, <2>2 DEF LogTypes
  <2> HIDE DEF rest
  <2>8. refused \in [on : BOOLEAN, up : Seq(FlushSet), down : Seq(AckSet)] /\ refused.up = u /\ refused.down = d
    BY <2>6, <2>7
  <2> HIDE DEF refused
  <2>9. \/ UNCHANGED appends
        \/ /\ appends' \in [Logs!Matches -> Seq(FlushSet)]
           /\ \A k \in Logs!Matches : /\ Len(appends'[k]) <= 2
                                      /\ \A i \in 1..Len(appends'[k]) : appends'[k][i].match = k
                                      /\ RangeOf(appends'[k]) \subseteq RangeOf(appends[k]) \cup {p}
    <3>1. CASE /\ Len(appends[p.match]) < 2
               /\ appends' = [appends EXCEPT ![p.match] = Append(appends[p.match], p)]
      BY <1>1, <2>2, <3>1, WaitsIs
    <3> QED
      BY <2>4, <3>1
  <2>10. /\ sock' \in [on : BOOLEAN, up : Seq(FlushSet), down : Seq(AckSet)]
         /\ RangeOf(sock'.up) \subseteq RangeOf(sock.up)
         /\ RangeOf(sock'.down) \subseteq RangeOf(sock.down) \cup {<<p, 0>>}
    BY <2>2, <2>4, <2>6, <2>7, <2>8
  <2>11. http' \in [up : SUBSET FlushSet, down : SUBSET AckSet] /\ http' = http
    BY <1>1, <2>4 DEF LogTypes
  <2>12. Out(p)
    BY <2>2 DEF Out
  <2>13. UNCHANGED <<client, roomMatch, rows>>
    BY <2>4
  <2> QED
    BY <2>2, <2>4, <2>9, <2>10, <2>11, <2>12, <2>13, TakeKeeps
<1>3. CASE \E p \in http.up : Logs!HttpTakes(p)
  <2>1. PICK p \in http.up : Logs!HttpTakes(p)
    BY <1>3
  <2> DEFINE U == http.up \ {p}
  <2>2. p \in FlushSet /\ Out(p) /\ p.match \in Logs!Matches
    BY <1>1, <2>1 DEF LogTypes, Out, FlushSet
  <2>3. U \in SUBSET FlushSet /\ U \subseteq http.up
    BY <1>1 DEF LogTypes
  <2>4. /\ \/ UNCHANGED appends
           \/ /\ Len(appends[p.match]) < 2
              /\ appends' = [appends EXCEPT ![p.match] = Append(appends[p.match], p)]
        /\ http' = [http EXCEPT !.up = U]
        /\ UNCHANGED past \/ (Logs!Trouble /\ past' = Logs!Troubled)
        /\ UNCHANGED <<client, roomMatch, rows, sock>>
    <3>1. ~Logs!Busy(p.match) => Len(appends[p.match]) < 2
      <4>1. Len(appends[p.match]) \in Nat
        BY <1>1, <2>2 DEF LogTypes
      <4> QED
        BY <4>1 DEF Logs!Busy
    <3> QED
      BY <2>1, <3>1 DEF Logs!HttpTakes
  <2> HIDE DEF U
  <2>5. \/ UNCHANGED appends
        \/ /\ appends' \in [Logs!Matches -> Seq(FlushSet)]
           /\ \A k \in Logs!Matches : /\ Len(appends'[k]) <= 2
                                      /\ \A i \in 1..Len(appends'[k]) : appends'[k][i].match = k
                                      /\ RangeOf(appends'[k]) \subseteq RangeOf(appends[k]) \cup {p}
    <3>1. CASE /\ Len(appends[p.match]) < 2
               /\ appends' = [appends EXCEPT ![p.match] = Append(appends[p.match], p)]
      BY <1>1, <2>2, <3>1, WaitsIs
    <3> QED
      BY <2>4, <3>1
  <2>6. http' \in [up : SUBSET FlushSet, down : SUBSET AckSet] /\ http'.up = U /\ http'.down = http.down
    BY <1>1, <2>3, <2>4 DEF LogTypes
  <2>7. /\ sock' \in [on : BOOLEAN, up : Seq(FlushSet), down : Seq(AckSet)]
        /\ RangeOf(sock'.up) \subseteq RangeOf(sock.up)
        /\ RangeOf(sock'.down) \subseteq RangeOf(sock.down) \cup {<<p, 0>>}
        /\ http'.up \subseteq http.up
    BY <1>1, <2>3, <2>4, <2>6 DEF LogTypes
  <2>8. UNCHANGED <<client, roomMatch, rows>>
    BY <2>4
  <2> QED
    BY <2>2, <2>4, <2>5, <2>6, <2>7, <2>8, TakeKeeps
<1> QED
  BY <1>2, <1>3

(* A match begins and ends.  What is under way and stored is the same, so that    *)
(* only the match's ring is at stake.                                        *)
LEMMA StillFine ==
  ASSUME LogInv, UNCHANGED <<rows, appends, sock, http>>, client'.timers = client.timers,
         client'.epoch = client.epoch, client'.next = client.next, client'.acked = client.acked,
         past'.left = past.left, past'.gone = past.gone
  PROVE  AllFine' /\ (\A p : Out(p)' <=> Out(p))
<1>1. World' = World
  BY DEF World, Accounted, Logs!Stored
<1>2. (\A p : Out(p)' <=> Out(p)) /\ (\A a : Answered(a)' <=> Answered(a))
  BY DEF Out, Answered
<1>3. AllFine
  BY DEF LogInv
<1> QED
  BY <1>1, <1>2, <1>3 DEF AllFine

LEMMA RoomKeeps ==
  ASSUME LogInv, Logs!RoomStarts \/ Logs!RoomEnds
  PROVE  LogInv'
<1> DEFINE n == past.matches + 1
<1>1. LogTypes /\ Tied /\ HomesInv
  BY DEF LogInv
<1>2. /\ \/ n \in 0..LogMatches /\ past' = [past EXCEPT !.matches = n] /\ roomMatch' = n
         \/ past' = past /\ roomMatch' = 0
      /\ UNCHANGED <<client, rows, appends, sock, http>>
  BY <1>1, LogBounds DEF Logs!RoomStarts, Logs!RoomEnds, LogTypes, PastSet
<1>3. n = past.matches + 1 /\ past.matches \in Nat
  BY <1>1, LogAssumption DEF LogTypes, PastSet
<1>4. n \in 0..LogMatches => n \in Logs!Matches /\ n \in Nat
  BY <1>3, LogAssumption DEF Logs!Matches
<1> HIDE DEF n
<1>5. /\ past' \in PastSet /\ past'.left = past.left /\ past'.gone = past.gone /\ past'.reloads = past.reloads
      /\ \/ past'.matches = n /\ n \in Logs!Matches /\ roomMatch' = n
         \/ past'.matches = past.matches /\ roomMatch' = 0
  BY <1>1, <1>2, <1>4 DEF LogTypes, PastSet
<1>6. LogTypes'
  BY <1>1, <1>2, <1>5 DEF LogTypes
<1>7. AllFine' /\ (\A p : Out(p)' <=> Out(p))
  BY <1>2, <1>5, StillFine
<1>8. client.match \in Nat
  BY <1>1, LogAssumption DEF LogTypes, ClientSet
<1>9. Tied'
  BY <1>1, <1>2, <1>3, <1>5, <1>8 DEF Tied
<1>10. ASSUME NEW home, AtHome(home), ~past.reloads PROVE AtHome(home)'
  <2>1. roomMatch' # 0 => home[roomMatch'] = 0
    BY <1>3, <1>5, <1>10 DEF AtHome, Logs!Matches
  <2>2. \A k \in Logs!Matches : k > past'.matches => k > past.matches
    BY <1>3, <1>4, <1>5 DEF Logs!Matches
  <2> QED
    BY <1>2, <1>7, <1>10, <2>1, <2>2 DEF AtHome
<1>11. HomesInv'
  BY <1>1, <1>5, <1>10 DEF HomesInv
<1>12. AllFull'
  BY <1>2 DEF LogInv, AllFull
<1> QED
  BY <1>6, <1>7, <1>9, <1>11, <1>12 DEF LogInv

LEMMA BeginsKeeps == LogInv /\ Logs!Begins => LogInv'
<1> SUFFICES ASSUME LogInv, Logs!Begins PROVE LogInv'
  OBVIOUS
<1>1. LogTypes /\ Tied /\ HomesInv
  BY DEF LogInv
<1>2. /\ roomMatch # 0 /\ client.match = 0 /\ client' = [client EXCEPT !.match = roomMatch]
      /\ UNCHANGED <<roomMatch, rows, appends, sock, http, past>>
  BY DEF Logs!Begins
<1>3. past.matches \in 0..LogMatches /\ roomMatch = past.matches /\ roomMatch \in Logs!Matches
      /\ past.matches \in Nat
  BY <1>1, <1>2, LogAssumption DEF LogTypes, PastSet, Tied, Logs!Matches
<1>4. /\ client' \in ClientSet /\ client'.match = roomMatch /\ client'.epoch = client.epoch
      /\ client'.next = client.next /\ client'.acked = client.acked /\ client'.timers = client.timers
      /\ client'.cached = client.cached /\ client'.running = client.running
  BY <1>1, <1>2, <1>3 DEF LogTypes, ClientSet
<1>5. LogTypes'
  BY <1>1, <1>2, <1>4 DEF LogTypes
<1>6. AllFine' /\ (\A p : Out(p)' <=> Out(p))
  BY <1>2, <1>4, StillFine
<1>7. client.cached = 0
  BY <1>1, <1>2 DEF Tied
<1>8. Tied'
  BY <1>1, <1>2, <1>3, <1>4, <1>7 DEF Tied
<1>9. ASSUME NEW home, AtHome(home) PROVE \E h : AtHome(h)'
  <2>6. PICK h : h = [home EXCEPT ![roomMatch] = client.epoch]
    OBVIOUS
  <2>1. home[roomMatch] = 0 /\ home \in [Logs!Matches -> Nat] /\ client.epoch \in Nat
    BY <1>1, <1>2, <1>9 DEF AtHome, LogTypes, ClientSet
  <2>2. /\ h \in [Logs!Matches -> Nat] /\ h[roomMatch] = client.epoch
        /\ \A k \in Logs!Matches : k # roomMatch => h[k] = home[k]
    BY <1>3, <2>1, <2>6
  <2>3. ASSUME NEW p \in FlushSet, Out(p)' PROVE p.epoch = h[p.match]
    <3>1. p.epoch = home[p.match] /\ p.epoch # 0 /\ p.match \in Logs!Matches
      BY <1>6, <1>9, <2>3 DEF AtHome, FlushSet
    <3> QED
      BY <2>1, <2>2, <3>1
  <2>4. ASSUME NEW k \in Logs!Matches
        PROVE  /\ rows[k].epoch \in {0, h[k]} /\ (rows[k].epoch = 0 => rows[k].last = 0) /\ Ordered(rows[k])
               /\ k > past.matches => h[k] = 0
    BY <1>3, <1>9, <2>1, <2>2 DEF AtHome
  <2>5. AtHome(h)'
    BY <1>2, <1>3, <1>4, <2>2, <2>3, <2>4 DEF AtHome
  <2> QED
    BY <2>5
<1>10. HomesInv'
  BY <1>1, <1>2, <1>9 DEF HomesInv
<1>11. AllFull'
  BY <1>2 DEF LogInv, AllFull
<1> QED
  BY <1>5, <1>6, <1>8, <1>10, <1>11 DEF LogInv

(* The end of the page's ring.  The match it was of is over, or another page of   *)
(* the player comes.                                                        *)
LEMMA RingEnds ==
  ASSUME LogInv, LogTypes', UNCHANGED <<roomMatch, rows>>,
         \A k \in Logs!Matches : /\ Len(appends'[k]) <= 2
                                 /\ \A i \in 1..Len(appends'[k]) : appends'[k][i].match = k,
         client'.epoch = client.epoch + 1, client'.next = 0, client'.acked = 0, client'.match = 0,
         client'.cached = 0, ~client'.running, past'.matches = past.matches,
         past'.reloads \/ roomMatch # client.match, past.reloads => past'.reloads,
         \A p \in FlushSet : Out(p)' =>
           Carried(p) \/ (p.epoch = client.epoch /\ p.match = client.match /\ client.match # 0),
         \A a \in AckSet : Answered(a)' => Answered(a)
  PROVE  LogInv'
<1>1. LogTypes /\ Tied /\ AllFine /\ AllFull /\ HomesInv /\ client.epoch \in Nat
  BY DEF LogInv, LogTypes, ClientSet
<1>2. World'.epoch = client.epoch + 1 /\ World'.next = 0 /\ World.epoch = client.epoch
  BY DEF World
<1>3. Later(World, World')
  BY <1>1, <1>2 DEF Later
<1>4. Covered(World', 0)
  BY DEF Covered
<1>5. Fine(World', client'.epoch, client'.acked, client'.acked)
  BY <1>1, <1>2, <1>4 DEF Fine
<1>6. \A p \in FlushSet : Out(p)' => Carried(p) \/ Fine(World', p.epoch, p.to, p.since)
  <2>1. ASSUME NEW p \in FlushSet, p.epoch = client.epoch PROVE Fine(World', p.epoch, p.to, p.since)
    BY <1>1, <1>2, <2>1 DEF Fine
  <2> QED
    BY <2>1
<1>7. AllFine'
  BY <1>1, <1>3, <1>5, <1>6, FineStays
<1>8. past.matches \in Nat
  BY <1>1, LogAssumption DEF LogTypes, PastSet
<1>9. Tied'
  BY <1>1, <1>8 DEF Tied
<1>10. ASSUME NEW home, AtHome(home), ~past'.reloads PROVE AtHome(home)'
  <2>1. \A p \in FlushSet : Out(p)' => p.epoch = home[p.match]
    BY <1>10 DEF AtHome, Carried, Same
  <2>2. ~(roomMatch # 0 /\ home[roomMatch] # 0)
    BY <1>10 DEF AtHome
  <2> QED
    BY <1>10, <2>1, <2>2 DEF AtHome
<1>11. HomesInv'
  BY <1>1, <1>10 DEF HomesInv
<1>12. AllFull'
  BY DEF LogInv, AllFull
<1> QED
  BY <1>7, <1>9, <1>11, <1>12 DEF LogInv

LEMMA StopsKeeps == LogInv /\ Logs!Stops => LogInv'
<1> SUFFICES ASSUME LogInv, Logs!Stops PROVE LogInv'
  OBVIOUS
<1> DEFINE via == IF sock.on THEN "socket" ELSE "http"
           p == Logs!Payload(client, via)
           n == past.flushes + 1
           T == client.timers \cup {p}
           c == [client EXCEPT !.timers = T]
<1>1. /\ LogTypes /\ Tied /\ client \in ClientSet /\ client.epoch \in Nat /\ past \in PastSet
      /\ via \in {"socket", "http"} /\ client.match # 0 /\ roomMatch # client.match
  BY DEF LogInv, LogTypes, ClientSet, Logs!Stops
<1>2. p.match # 0
  BY <1>1 DEF Logs!Payload, Tied
<1>3. Logs!FlushThen(client, TRUE) /\ UNCHANGED <<roomMatch, rows, appends>>
  BY DEF Logs!Stops
<1>4. /\ past.flushes < LogFlushes /\ past' = [past EXCEPT !.flushes = n, !.last = <<p>>]
      /\ \/ /\ client' = Logs!Stopped(c)
            /\ sock' = [sock EXCEPT !.up = Append(sock.up, p)] /\ UNCHANGED http
         \/ /\ client' = Logs!Stopped(client)
            /\ http' = [http EXCEPT !.up = http.up \cup {p}] /\ UNCHANGED sock
  BY <1>2, <1>3 DEF Logs!FlushThen
<1>5. p \in FlushSet /\ p.epoch = client.epoch /\ p.match = client.match
  <2> DEFINE r == p
  <2>1. client.next \in Nat /\ client.next <= client.next
    BY <1>1, LogAssumption DEF ClientSet
  <2>2. Alike(client)
    BY <1>1, <2>1 DEF Alike
  <2>3. r = Logs!Payload(client, via) /\ r.match # 0
    BY <1>2
  <2> HIDE DEF r, via
  <2>4. r \in FlushSet /\ r.epoch = client.epoch /\ r.match = client.match
    BY <1>1, <1>4, <2>2, <2>3, PayloadIs
  <2> QED
    BY <2>4 DEF r
<1>6. n \in 0..LogFlushes
  BY <1>1, <1>4, LogAssumption DEF PastSet
<1>7. T \in SUBSET FlushSet /\ client.timers \subseteq T
  BY <1>1, <1>5 DEF ClientSet
<1>8. T = client.timers \cup {p}
  OBVIOUS
<1> HIDE DEF p, n, T
<1>9. /\ past' \in PastSet /\ past'.reloads = past.reloads /\ past'.matches = past.matches
      /\ past'.left = past.left /\ past'.gone = past.gone
  <2> DEFINE s == <<p>>
  <2>1. s \in Seq(FlushSet)
    BY <1>5
  <2>2. past' = [past EXCEPT !.flushes = n, !.last = s]
    BY <1>4
  <2> HIDE DEF s
  <2> QED
    BY <1>1, <1>6, <2>1, <2>2 DEF PastSet
<1>10. c \in ClientSet /\ c.timers = T /\ c.epoch = client.epoch
  BY <1>1, <1>7 DEF ClientSet
<1> HIDE DEF c
<1>11. ASSUME NEW d \in ClientSet, d.epoch = client.epoch, d.timers \subseteq T, client' = Logs!Stopped(d)
       PROVE  /\ client' \in ClientSet /\ client'.epoch = client.epoch + 1 /\ client'.next = 0
              /\ client'.acked = 0 /\ client'.match = 0 /\ client'.cached = 0 /\ ~client'.running
              /\ client'.timers \subseteq T
  <2> DEFINE e == d.epoch + 1
             t == d.timers
             l == d.leaked
  <2>1. e \in Nat \ {0} /\ t \in SUBSET FlushSet /\ l \in BOOLEAN /\ 0 \in 0..LogLines /\ 0 \in 0..LogMatches
        /\ 0 \in Nat
    BY LogAssumption DEF ClientSet
  <2>2. client' = [epoch |-> e, next |-> 0, acked |-> 0, match |-> 0, cached |-> 0,
                   running |-> FALSE, leaked |-> l, critical |-> FALSE, fails |-> 0, timers |-> t]
    BY <1>11 DEF Logs!Stopped, Logs!Fresh
  <2>3. e = client.epoch + 1 /\ t \subseteq T
    BY <1>11
  <2> HIDE DEF e, t, l
  <2> QED
    BY <2>1, <2>2, <2>3 DEF ClientSet
<1>12. /\ client' \in ClientSet /\ client'.epoch = client.epoch + 1 /\ client'.next = 0
       /\ client'.acked = 0 /\ client'.match = 0 /\ client'.cached = 0 /\ ~client'.running
       /\ client'.timers \subseteq T
  <2>1. CASE client' = Logs!Stopped(c)
    BY <1>10, <1>11, <2>1
  <2>2. CASE client' = Logs!Stopped(client)
    BY <1>1, <1>7, <1>11, <2>2
  <2> QED
    BY <1>4, <2>1, <2>2
<1>13. /\ sock' \in [on : BOOLEAN, up : Seq(FlushSet), down : Seq(AckSet)] /\ sock'.down = sock.down
       /\ RangeOf(sock'.up) \subseteq RangeOf(sock.up) \cup {p}
  <2>1. CASE sock' = [sock EXCEPT !.up = Append(sock.up, p)]
    BY <1>1, <1>5, <2>1, UpIs
  <2>2. CASE UNCHANGED sock
    BY <1>1, <2>2 DEF LogTypes
  <2> QED
    BY <1>4, <2>1, <2>2
<1>14. /\ http' \in [up : SUBSET FlushSet, down : SUBSET AckSet] /\ http'.down = http.down
       /\ http'.up \subseteq http.up \cup {p}
  BY <1>1, <1>4, <1>5 DEF LogTypes
<1>15. LogTypes'
  BY <1>1, <1>3, <1>9, <1>12, <1>13, <1>14 DEF LogTypes
<1>16. \A q : Out(q)' => Out(q) \/ q = p
  BY <1>3, <1>8, <1>12, <1>13, <1>14 DEF Out
<1>17. \A q \in FlushSet : Out(q)' => Carried(q) \/ q = p
  BY <1>16 DEF Carried, Same
<1>18. \A a : Answered(a)' => Answered(a)
  BY <1>13, <1>14 DEF Answered
<1>19. \A k \in Logs!Matches : /\ Len(appends'[k]) <= 2
                               /\ \A i \in 1..Len(appends'[k]) : appends'[k][i].match = k
  BY <1>1, <1>3 DEF Tied
<1> QED
  BY <1>1, <1>3, <1>5, <1>9, <1>12, <1>15, <1>17, <1>18, <1>19, RingEnds

LEMMA ReloadKeeps == LogInv /\ Logs!Reload => LogInv'
<1> SUFFICES ASSUME LogInv, Logs!Reload PROVE LogInv'
  OBVIOUS
<1> DEFINE n == past.trouble + 1
           via == "http"
           f == [k \in Logs!Matches |-> [i \in DOMAIN appends[k] |->
                       IF via = "http" \/ appends[k][i].via = "socket"
                       THEN [appends[k][i] EXCEPT !.via = "gone"] ELSE appends[k][i]]]
           t == [past EXCEPT !.trouble = n]
           e == client.epoch + 1
<1>1. LogTypes /\ Tied /\ client \in ClientSet /\ client.epoch \in Nat /\ past \in PastSet
  BY DEF LogInv, LogTypes, ClientSet
<1>2. n \in 0..LogTrouble
  BY <1>1, LogAssumption DEF Logs!Reload, Logs!Trouble, PastSet
<1>3. /\ client' = Logs!Fresh(e) /\ sock' = [sock EXCEPT !.up = <<>>, !.down = <<>>]
      /\ http' = [http EXCEPT !.down = {}]
      /\ past' = [t EXCEPT !.reloads = TRUE] /\ UNCHANGED <<roomMatch, rows>>
  BY DEF Logs!Reload, Logs!Troubled
<1>4. appends' = f
  BY DEF Logs!Reload
<1>5. via \in {"socket", "http"}
  OBVIOUS
<1> HIDE DEF via
<1>6. /\ f \in [Logs!Matches -> Seq(FlushSet)]
      /\ \A k \in Logs!Matches :
              /\ Len(f[k]) = Len(appends[k])
              /\ \A i \in 1..Len(f[k]) : f[k][i] \in FlushSet /\ Same(f[k][i], appends[k][i])
  BY <1>1, <1>5, GoneTyped
<1> HIDE DEF f, n
<1>7. t \in PastSet /\ t.matches = past.matches
  BY <1>1, <1>2 DEF PastSet
<1> HIDE DEF t
<1>8. past' \in PastSet /\ past'.reloads /\ past'.matches = past.matches
  BY <1>3, <1>7 DEF PastSet
<1>9. e \in Nat \ {0} /\ e = client.epoch + 1
  BY <1>1
<1> HIDE DEF e
<1>10. /\ client' \in ClientSet /\ client'.epoch = e /\ client'.next = 0
       /\ client'.acked = 0 /\ client'.match = 0 /\ client'.cached = 0 /\ ~client'.running
       /\ client'.timers = {}
  <2>1. 0 \in 0..LogLines /\ 0 \in 0..LogMatches /\ 0 \in Nat
    BY LogAssumption
  <2> QED
    BY <1>3, <1>9, <2>1 DEF Logs!Fresh, ClientSet
<1>11. /\ sock' \in [on : BOOLEAN, up : Seq(FlushSet), down : Seq(AckSet)]
       /\ RangeOf(sock'.up) = {} /\ RangeOf(sock'.down) = {}
  <2>1. <<>> \in Seq(FlushSet) /\ <<>> \in Seq(AckSet)
    OBVIOUS
  <2>2. sock'.up = <<>> /\ sock'.down = <<>> /\ sock' \in [on : BOOLEAN, up : Seq(FlushSet), down : Seq(AckSet)]
    BY <1>1, <1>3, <2>1 DEF LogTypes
  <2> QED
    BY <2>2, RangeEmpty
<1>12. http' \in [up : SUBSET FlushSet, down : SUBSET AckSet] /\ http'.up = http.up /\ http'.down = {}
  BY <1>1, <1>3 DEF LogTypes
<1>13. LogTypes'
  BY <1>1, <1>3, <1>4, <1>6, <1>8, <1>10, <1>11, <1>12 DEF LogTypes
<1>14. \A k \in Logs!Matches : /\ Len(appends'[k]) <= 2
                               /\ \A i \in 1..Len(appends'[k]) : appends'[k][i].match = k
  BY <1>1, <1>4, <1>6 DEF Tied, Same
<1>15. ASSUME NEW p \in FlushSet, Out(p)' PROVE Carried(p)
  <2>1. CASE p \in http.up
    BY <2>1 DEF Carried, Same, Out
  <2>2. CASE \E k \in Logs!Matches : p \in RangeOf(f[k])
    <3>1. PICK k \in Logs!Matches : p \in RangeOf(f[k])
      BY <2>2
    <3> DEFINE r == f[k]
    <3>2. Len(r) = Len(appends[k]) /\ p \in RangeOf(r) /\ \A i \in 1..Len(r) : Same(r[i], appends[k][i])
      BY <1>6, <3>1
    <3> HIDE DEF r
    <3> QED
      BY <1>1, <3>2, GoneCarries
  <2> QED
    BY <1>4, <1>10, <1>11, <1>12, <1>15, <2>1, <2>2 DEF Out
<1>16. \A a : Answered(a)' => Answered(a)
  BY <1>11, <1>12 DEF Answered
<1> QED
  BY <1>3, <1>8, <1>9, <1>10, <1>13, <1>14, <1>15, <1>16, RingEnds

(* Chunks.  Where one begins is a multiple of their size away from the first.     *)
LEMMA ModIs ==
  ASSUME NEW d \in Nat, NEW m \in Nat \ {0}
  PROVE  d % m \in 0..(m - 1) /\ d % m <= d /\ (d - (d % m)) % m = 0
<1>1. d % m \in 0..(m - 1) /\ d = (m * (d \div m)) + (d % m) /\ d \div m \in Nat
  OBVIOUS
<1>2. d % m <= d /\ d - (d % m) = m * (d \div m)
  BY <1>1
<1>3. \A q \in Nat : (m * q) % m = 0
  OBVIOUS
<1> QED
  BY <1>1, <1>2, <1>3

LEMMA ModApart ==
  ASSUME NEW d \in Nat, NEW e \in Nat, NEW m \in Nat \ {0}, d % m = 0, e % m = 0, d < e
  PROVE  d + m <= e
<1>1. d = m * (d \div m) /\ e = m * (e \div m) /\ d \div m \in Nat /\ e \div m \in Nat
  OBVIOUS
<1>2. ASSUME NEW a \in Nat, NEW b \in Nat, m * a < m * b PROVE m * a + m <= m * b
  <2>1. a + 1 <= b
    BY <1>2
  <2>2. m * (a + 1) <= m * b
    BY <2>1
  <2> QED
    BY <2>2
<1>3. PICK a \in Nat, b \in Nat : d = m * a /\ e = m * b
  BY <1>1
<1> QED
  BY <1>2, <1>3

LEMMA ChunksAre ==
  ASSUME NEW p \in FlushSet, NEW from \in Nat, NEW size \in Nat, NEW new, new = Logs!Chunks(p, from, size)
  PROVE  /\ new \subseteq ChunkSet
         /\ \A c \in new : /\ c.epoch = p.epoch /\ from <= c.from /\ c.from < c.to /\ c.to <= p.to
                           /\ c.to <= c.from + ChunkMax /\ c.at = size + (c.from - from)
         /\ \A c, d \in new : c # d => c.to <= d.from \/ d.to <= c.from
         /\ \A n \in Nat : from <= n /\ n < p.to => \E c \in new : c.from <= n /\ n < c.to
<1> DEFINE Starts == {m \in from..(p.to - 1) : (m - from) % ChunkMax = 0}
           At(n) == [epoch |-> p.epoch, from |-> n, to |-> Logs!Lower(n + ChunkMax, p.to), at |-> size + (n - from)]
<1>1. /\ p.epoch \in Nat /\ p.to \in Nat /\ ChunkMax \in Nat \ {0}
      /\ new = {At(n) : n \in Starts}
  BY LogAssumption DEF FlushSet, Logs!Chunks
<1>2. ASSUME NEW n \in Starts
      PROVE  /\ n \in Nat /\ from <= n /\ n < p.to /\ (n - from) % ChunkMax = 0 /\ n - from \in Nat
             /\ Logs!Lower(n + ChunkMax, p.to) \in Nat /\ n < Logs!Lower(n + ChunkMax, p.to)
             /\ Logs!Lower(n + ChunkMax, p.to) <= p.to /\ Logs!Lower(n + ChunkMax, p.to) <= n + ChunkMax
             /\ (Logs!Lower(n + ChunkMax, p.to) = p.to \/ Logs!Lower(n + ChunkMax, p.to) = n + ChunkMax)
  <2>1. n \in Nat /\ from <= n /\ n < p.to /\ (n - from) % ChunkMax = 0 /\ n - from \in Nat
    BY <1>1
  <2> HIDE DEF Starts
  <2> QED
    BY <1>1, <2>1 DEF Logs!Lower
<1>3. ASSUME NEW n \in Nat, from <= n, n < p.to, (n - from) % ChunkMax = 0 PROVE n \in Starts
  BY <1>1, <1>3
<1> HIDE DEF Starts
<1>4. ASSUME NEW c \in new
      PROVE  /\ c \in ChunkSet /\ c.from \in Starts /\ c = At(c.from) /\ c.epoch = p.epoch
             /\ c.to = Logs!Lower(c.from + ChunkMax, p.to) /\ c.at = size + (c.from - from)
  <2>1. PICK n \in Starts : c = At(n)
    BY <1>1
  <2> DEFINE to == Logs!Lower(n + ChunkMax, p.to)
             at == size + (n - from)
  <2>2. to \in Nat /\ n \in Nat /\ at \in Nat
    BY <1>2
  <2>3. c = [epoch |-> p.epoch, from |-> n, to |-> to, at |-> at]
    BY <2>1
  <2>4. c.from = n
    BY <2>1
  <2> HIDE DEF to, at
  <2>5. c \in ChunkSet /\ c.epoch = p.epoch /\ c.to = to /\ c.at = at
    BY <1>1, <2>2, <2>3 DEF ChunkSet
  <2> QED
    BY <2>1, <2>4, <2>5 DEF to, at
<1>5. ASSUME NEW c \in new, NEW d \in new, c.from < d.from PROVE c.to <= d.from
  <2> DEFINE x == c.from - from
             y == d.from - from
  <2>1. /\ c.from \in Nat /\ d.from \in Nat /\ x \in Nat /\ y \in Nat /\ x < y
        /\ x % ChunkMax = 0 /\ y % ChunkMax = 0 /\ c.to <= c.from + ChunkMax /\ c.to \in Nat
    BY <1>2, <1>4, <1>5
  <2>2. x = c.from - from /\ y = d.from - from
    OBVIOUS
  <2> HIDE DEF x, y
  <2>3. x + ChunkMax <= y
    BY <1>1, <2>1, ModApart
  <2> QED
    BY <1>1, <2>1, <2>2, <2>3
<1>6. ASSUME NEW c \in new, NEW d \in new, c # d PROVE c.to <= d.from \/ d.to <= c.from
  <2>1. c.from # d.from /\ c.from \in Nat /\ d.from \in Nat
    <3>1. c = At(c.from) /\ d = At(d.from) /\ c.from \in Nat /\ d.from \in Nat
      BY <1>2, <1>4
    <3> HIDE DEF At
    <3> QED
      BY <1>6, <3>1
  <2>2. c.from < d.from \/ d.from < c.from
    BY <2>1
  <2> QED
    BY <1>5, <2>2
<1>7. ASSUME NEW n \in Nat, from <= n, n < p.to PROVE \E c \in new : c.from <= n /\ n < c.to
  <2> DEFINE z == n - from
             s == n - (z % ChunkMax)
  <2>1. z \in Nat
    BY <1>7
  <2>2. z = n - from
    OBVIOUS
  <2> HIDE DEF z
  <2>3. z % ChunkMax \in 0..(ChunkMax - 1) /\ z % ChunkMax <= z /\ (z - (z % ChunkMax)) % ChunkMax = 0
    BY <1>1, <2>1, ModIs
  <2>4. s \in Nat /\ from <= s /\ s <= n /\ n < s + ChunkMax /\ s - from = z - (z % ChunkMax)
    BY <1>1, <1>7, <2>1, <2>2, <2>3
  <2> HIDE DEF s
  <2>5. s \in Starts
    BY <1>1, <1>3, <1>7, <2>3, <2>4
  <2>6. At(s) \in new /\ At(s).from = s /\ At(s).to = Logs!Lower(s + ChunkMax, p.to)
    BY <1>1, <2>5
  <2>7. n < Logs!Lower(s + ChunkMax, p.to)
    BY <1>2, <1>7, <2>4, <2>5
  <2> QED
    BY <2>4, <2>6, <2>7
<1> QED
  BY <1>1, <1>2, <1>4, <1>6, <1>7

(* What a flush adds: its lines from the stored ones on.  The flush here is one   *)
(* that has been cut to what the server keeps of it.                          *)
LEMMA AppendedIs ==
  ASSUME NEW r \in RowSet, NEW p \in FlushSet, NEW row, row = Logs!Appended(r, p),
         NEW last, last = (IF p.epoch = r.epoch THEN r.last ELSE 0), Full(r)
  PROVE  /\ row \in RowSet /\ row.epoch = p.epoch /\ last \in 0..LogLines
         /\ row.last = Logs!Higher(last, IF p.to > p.from THEN p.to ELSE 0)
         /\ r.chunks \subseteq row.chunks
         /\ \A n \in Nat : n >= p.from /\ n >= last /\ n < p.to => <<p.epoch, n>> \in Logs!LinesOf(row.chunks)
         /\ Full(row)
         /\ (r.epoch \in {0, p.epoch} /\ (r.epoch = 0 => r.last = 0) /\ Ordered(r)) => Ordered(row)
<1> DEFINE e == p.epoch
           to == p.to
           from == Logs!Higher(p.from, last)
           new == Logs!Chunks(p, from, r.size)
           old == r.chunks
           added == Logs!Minus(p.to, from)
           size == r.size + added
           top == Logs!Higher(last, IF p.to > p.from THEN p.to ELSE 0)
<1>1. /\ e \in Nat \ {0} /\ to \in 0..LogLines /\ to \in Nat /\ p.from \in Nat /\ last \in 0..LogLines /\ last \in Nat
      /\ old \subseteq ChunkSet /\ r.size \in Nat /\ Cap - ChunkMax \in Nat /\ ChunkMax \in Nat \ {0}
  BY LogAssumption DEF FlushSet, RowSet
<1>2. from \in Nat /\ from >= last /\ from >= p.from /\ (from = last \/ from = p.from)
  BY <1>1 DEF Logs!Higher
<1>3. top \in 0..LogLines /\ top >= last /\ (to > p.from => top >= to)
  BY <1>1, LogAssumption DEF Logs!Higher
<1>4. row = [epoch |-> e, last |-> top, size |-> size, chunks |-> old \cup new]
  BY DEF Logs!Appended
<1> HIDE DEF from
<1>5. added \in Nat /\ added = (IF to > from THEN to - from ELSE 0)
  BY <1>1, <1>2, MinusIs
<1>6. size \in Nat /\ size = r.size + added
  BY <1>1, <1>5
<1>7. /\ new \subseteq ChunkSet
      /\ \A c \in new : /\ c.epoch = e /\ from <= c.from /\ c.from < c.to /\ c.to <= to
                        /\ c.to <= c.from + ChunkMax /\ c.at = r.size + (c.from - from)
      /\ \A c, d \in new : c # d => c.to <= d.from \/ d.to <= c.from
      /\ \A n \in Nat : from <= n /\ n < to => \E c \in new : c.from <= n /\ n < c.to
  BY <1>1, <1>2, ChunksAre
<1> HIDE DEF e, to, new, old, top, added, size
<1>8. row \in RowSet /\ row.epoch = e /\ row.last = top /\ row.size = size /\ row.chunks = old \cup new
  BY <1>1, <1>3, <1>4, <1>6, <1>7 DEF RowSet
<1>9. \A c \in old \cup new : c.epoch \in Nat /\ c.from \in Nat /\ c.to \in Nat /\ c.at \in Nat
  BY <1>1, <1>7 DEF ChunkSet
<1>10. ASSUME NEW n \in Nat, n >= p.from, n >= last, n < to PROVE <<e, n>> \in Logs!LinesOf(row.chunks)
  <2>1. PICK c \in new : c.from <= n /\ n < c.to
    BY <1>2, <1>7, <1>10
  <2>2. c.epoch = e /\ c \in row.chunks /\ row.chunks \subseteq ChunkSet
    BY <1>1, <1>7, <1>8
  <2> QED
    BY <2>1, <2>2, LinesOfIs
<1>11. /\ \A c \in old : Sized(c, r.size)
       /\ \A x \in Nat : x < r.size /\ x >= Logs!Minus(r.size, Cap - ChunkMax) => HoldsThe(x, old)
  BY DEF Full, NewestHeld, old
<1>12. ASSUME NEW c \in old \cup new PROVE Sized(c, size)
  <2>1. CASE c \in old
    BY <1>1, <1>5, <1>6, <1>9, <1>11, <2>1 DEF Sized
  <2>2. CASE c \in new
    <3>1. /\ from <= c.from /\ c.from < c.to /\ c.to <= to /\ c.to <= c.from + ChunkMax
          /\ c.at = r.size + (c.from - from) /\ c.from \in Nat /\ c.to \in Nat
      BY <1>7, <1>9, <2>2
    <3>2. c.at + (c.to - c.from) <= size
      BY <1>1, <1>2, <1>5, <1>6, <3>1
    <3> QED
      BY <3>1, <3>2 DEF Sized
  <2> QED
    BY <2>1, <2>2
<1>13. ASSUME NEW x \in Nat, x < size, x >= Logs!Minus(size, Cap - ChunkMax) PROVE HoldsThe(x, old \cup new)
  <2>1. CASE x < r.size
    <3> DEFINE room == Cap - ChunkMax
               was == r.size
    <3>3. room \in Nat /\ was \in Nat /\ size \in Nat /\ was <= size
      BY <1>1, <1>5, <1>6
    <3> HIDE DEF room, was
    <3>4. /\ Logs!Minus(was, room) <= Logs!Minus(size, room)
          /\ Logs!Minus(was, room) \in Nat /\ Logs!Minus(size, room) \in Nat
      BY <3>3, MinusIs
    <3>1. /\ Logs!Minus(r.size, Cap - ChunkMax) <= Logs!Minus(size, Cap - ChunkMax)
          /\ Logs!Minus(r.size, Cap - ChunkMax) \in Nat /\ Logs!Minus(size, Cap - ChunkMax) \in Nat
      BY <3>4 DEF room, was
    <3>2. x >= Logs!Minus(r.size, Cap - ChunkMax)
      BY <1>13, <3>1
    <3> QED
      BY <1>11, <2>1, <3>2 DEF HoldsThe
  <2>2. CASE x >= r.size
    <3> DEFINE n == from + (x - r.size)
    <3>1. n \in Nat /\ from <= n /\ n < to
      BY <1>1, <1>2, <1>5, <1>6, <1>13, <2>2
    <3>2. x = r.size + (n - from)
      BY <1>1, <1>2, <2>2
    <3> HIDE DEF n
    <3>3. PICK c \in new : c.from <= n /\ n < c.to
      BY <1>7, <3>1
    <3>4. /\ c.at = r.size + (c.from - from) /\ from <= c.from /\ c.from \in Nat /\ c.to \in Nat
      BY <1>7, <1>9
    <3>5. c.at <= x /\ x < c.at + (c.to - c.from)
      BY <1>1, <1>2, <3>1, <3>2, <3>3, <3>4
    <3> QED
      BY <3>5 DEF HoldsThe
  <2> QED
    BY <1>1, <2>1, <2>2
<1>14. Full(row)
  BY <1>8, <1>12, <1>13 DEF Full, NewestHeld
<1>15. ASSUME r.epoch \in {0, e}, r.epoch = 0 => r.last = 0, Ordered(r)
       PROVE  Ordered(row)
  <2>1. \A c \in old : c.epoch = r.epoch /\ c.to <= r.last /\ c.from < c.to /\ c.at < r.size
    BY <1>1, <1>9, <1>11, <1>15 DEF Ordered, Sized, old
  <2>2. \A c \in old : c.epoch = e /\ c.to <= last
    <3>1. CASE r.epoch = e
      BY <2>1, <3>1 DEF e
    <3>2. CASE r.epoch = 0
      BY <1>9, <1>15, <2>1, <3>2
    <3> QED
      BY <1>15, <3>1, <3>2
  <2>3. \A c \in old \cup new : c.epoch = e /\ c.to <= top
    <3>1. \A c \in old : c.to <= top
      BY <1>1, <1>3, <1>9, <2>2
    <3>2. \A c \in new : c.to <= top
      BY <1>1, <1>2, <1>3, <1>7, <1>9
    <3> QED
      BY <1>7, <2>2, <3>1, <3>2
  <2>4. ASSUME NEW c \in old, NEW d \in new PROVE c.at < d.at /\ c.to <= d.from
    <3>1. d.at = r.size + (d.from - from) /\ from <= d.from /\ d.from \in Nat /\ c.at \in Nat /\ c.to \in Nat
      BY <1>7, <1>9
    <3> QED
      BY <1>1, <1>2, <2>1, <2>2, <3>1
  <2>5. ASSUME NEW c \in new, NEW d \in new PROVE InOrder(c, d)
    <3>1. /\ c.at = r.size + (c.from - from) /\ from <= c.from /\ c.from \in Nat /\ c.from < c.to /\ c.to \in Nat
          /\ d.at = r.size + (d.from - from) /\ from <= d.from /\ d.from \in Nat /\ d.from < d.to /\ d.to \in Nat
      BY <1>7, <1>9
    <3>2. c # d => c.to <= d.from \/ d.to <= c.from
      BY <1>7
    <3> QED
      BY <1>1, <1>2, <3>1, <3>2 DEF InOrder
  <2>6. ASSUME NEW c \in old \cup new, NEW d \in old \cup new PROVE InOrder(c, d)
    <3>1. CASE c \in old /\ d \in old
      BY <1>15, <3>1 DEF Ordered, old
    <3>2. CASE c \in old /\ d \in new
      BY <2>4, <3>2 DEF InOrder
    <3>3. CASE c \in new /\ d \in old
      <4>1. d.at < c.at /\ d.to <= c.from /\ d.at \in Nat /\ c.at \in Nat
        BY <1>9, <2>4, <3>3
      <4>2. ~(c.at < d.at)
        BY <4>1
      <4> QED
        BY <4>1, <4>2 DEF InOrder
    <3> QED
      BY <2>5, <3>1, <3>2, <3>3
  <2> QED
    BY <1>8, <2>3, <2>6 DEF Ordered
<1> QED
  BY <1>1, <1>8, <1>10, <1>14, <1>15 DEF e, to, top, old

(* What the budget leaves: the chunks of the newest lines.                     *)
LEMMA CappedIs ==
  ASSUME NEW r \in RowSet, Full(r), NEW row, row = Logs!Capped(r)
  PROVE  /\ row \in RowSet /\ row.epoch = r.epoch /\ row.last = r.last /\ row.chunks \subseteq r.chunks
         /\ Full(row) /\ (Ordered(r) => Ordered(row))
<1> DEFINE some == {c \in r.chunks : r.size - c.at <= Cap}
           s == r.size
           room == Cap - ChunkMax
<1>1. /\ s \in Nat /\ room \in Nat /\ ChunkMax \in Nat \ {0} /\ Cap \in Nat /\ r.chunks \subseteq ChunkSet
      /\ Cap = room + ChunkMax
  BY LogAssumption DEF RowSet
<1>2. some \subseteq r.chunks /\ \A c \in r.chunks : s - c.at <= Cap => c \in some
  OBVIOUS
<1>3. row = [r EXCEPT !.chunks = some]
  BY DEF Logs!Capped
<1> HIDE DEF some
<1>4. row \in RowSet /\ row.epoch = r.epoch /\ row.last = r.last /\ row.size = s /\ row.chunks = some
  BY <1>1, <1>2, <1>3 DEF RowSet
<1> HIDE DEF s
<1>5. ASSUME NEW x \in Nat, x < s, x >= Logs!Minus(s, room) PROVE HoldsThe(x, some)
  <2>1. PICK c \in r.chunks : c.at <= x /\ x < c.at + (c.to - c.from)
    BY <1>5 DEF Full, NewestHeld, HoldsThe, s
  <2>2. c.at \in Nat /\ c.from \in Nat /\ c.to \in Nat /\ c.to <= c.from + ChunkMax
    BY <1>1 DEF ChunkSet, Full, Sized
  <2>3. x + room >= s
    <3>1. Logs!Minus(s, room) = (IF s > room THEN s - room ELSE 0)
      BY <1>1, MinusIs
    <3> HIDE DEF room
    <3> QED
      BY <1>1, <1>5, <3>1
  <2> HIDE DEF room
  <2>4. s - c.at <= Cap
    BY <1>1, <2>1, <2>2, <2>3
  <2>5. c \in some
    BY <1>2, <2>4
  <2> QED
    BY <2>1, <2>5 DEF HoldsThe
<1>6. Full(row)
  BY <1>2, <1>4, <1>5 DEF Full, NewestHeld, s, room
<1>7. Ordered(r) => Ordered(row)
  BY <1>2, <1>4 DEF Ordered
<1> QED
  BY <1>2, <1>4, <1>6, <1>7

LEMMA KeptIs ==
  ASSUME NEW p \in FlushSet, NEW q, q = Logs!Taken(p)
  PROVE  q \in FlushSet /\ q.epoch = p.epoch /\ q.to = p.to /\ q.since = p.since
<1> DEFINE from == Logs!Higher(p.from, Logs!Minus(p.to, TakeMax))
<1>1. p.to \in Nat /\ p.from \in Nat
  BY LogAssumption DEF FlushSet
<1>2. Logs!Minus(p.to, TakeMax) \in Nat
  BY <1>1, MinusBelow, LogAssumption
<1>3. from \in Nat
  BY <1>1, <1>2 DEF Logs!Higher
<1>4. q = [p EXCEPT !.from = from]
  BY DEF Logs!Taken
<1> HIDE DEF from
<1> QED
  BY <1>3, <1>4 DEF FlushSet

(* A stored flush leaves its match's row fine.  What it left out is known, and    *)
(* so is what the budget deletes.                                           *)
LEMMA RowIsFine ==
  ASSUME LogInv, NEW k \in Logs!Matches, NEW p \in FlushSet, Out(p), p.match = k,
         NEW q, q = Logs!Taken(p), NEW all, all = Logs!Appended(rows[k], q), UNCHANGED client,
         Logs!LinesOf(all.chunks) \subseteq Accounted', Logs!LeftOut(p) \subseteq Accounted',
         Accounted \subseteq Accounted'
  PROVE  Fine(World', all.epoch, all.last, all.last)
<1> DEFINE r == rows[k]
           x == IF q.to > q.from THEN q.to ELSE 0
<1>0. PICK last : last = IF q.epoch = r.epoch THEN r.last ELSE 0
  OBVIOUS
<1>1. r \in RowSet /\ Fine(World, r.epoch, r.last, r.last) /\ Fine(World, p.epoch, p.to, p.since) /\ Full(r)
  BY DEF LogInv, LogTypes, AllFine, AllFull
<1>2. all = Logs!Appended(r, q)
  OBVIOUS
<1>13. q \in FlushSet /\ q.epoch = p.epoch /\ q.to = p.to
  BY KeptIs
<1> HIDE DEF r
<1>3. /\ all.epoch = q.epoch /\ last \in 0..LogLines /\ all.last = Logs!Higher(last, x)
      /\ \A n \in Nat : n >= q.from /\ n >= last /\ n < q.to => <<q.epoch, n>> \in Logs!LinesOf(all.chunks)
  BY <1>0, <1>1, <1>2, <1>13, AppendedIs
<1>4. /\ p.to \in Nat /\ p.since \in Nat /\ q.from \in Nat /\ p.epoch \in Nat /\ r.last \in Nat /\ r.epoch \in Nat
      /\ last \in Nat /\ client.next \in Nat /\ client.epoch \in Nat
  BY <1>1, <1>3, <1>13, LogAssumption DEF FlushSet, RowSet, LogInv, LogTypes, ClientSet
<1>5. x \in Nat /\ (x = 0 \/ x = p.to)
  BY <1>4, <1>13
<1> HIDE DEF x
<1>6. all.last \in Nat /\ (all.last = last \/ all.last = x)
  BY <1>3, <1>4, <1>5 DEF Logs!Higher
<1>8. /\ World.epoch = client.epoch /\ World.next = client.next /\ World.stored = Accounted
      /\ World'.epoch = client.epoch /\ World'.next = client.next /\ World'.stored = Accounted'
  BY DEF World
<1>9. p.epoch <= client.epoch
  BY <1>1, <1>8 DEF Fine
<1>10. ASSUME p.epoch = client.epoch PROVE all.last <= client.next
  <2>1. p.to <= client.next
    BY <1>1, <1>8, <1>10 DEF Fine
  <2>2. last <= client.next
    BY <1>0, <1>1, <1>4, <1>8, <1>10, <1>13 DEF Fine
  <2> QED
    BY <1>4, <1>5, <1>6, <2>1, <2>2
<1>11. ASSUME p.epoch = client.epoch, NEW n \in Nat, n < all.last, n < client.next,
              n >= Logs!Minus(client.next, Ring)
       PROVE  <<client.epoch, n>> \in Accounted'
  <2>1. CASE n < last
    <3>1. r.epoch = client.epoch /\ last = r.last
      BY <1>0, <1>4, <1>11, <1>13, <2>1
    <3>2. Covered(World, r.last)
      BY <1>1, <1>8, <1>11, <3>1 DEF Fine
    <3>3. <<client.epoch, n>> \in Accounted
      BY <1>8, <1>11, <2>1, <3>1, <3>2 DEF Covered
    <3> QED
      BY <3>3
  <2>2. CASE n >= last
    <3>1. n < p.to
      BY <1>4, <1>5, <1>6, <1>11, <2>2
    <3>2. CASE n < p.since
      <4>1. Covered(World, p.since)
        BY <1>1, <1>8, <1>11 DEF Fine
      <4>2. <<client.epoch, n>> \in Accounted
        BY <1>8, <1>11, <3>2, <4>1 DEF Covered
      <4> QED
        BY <4>2
    <3>3. CASE n >= p.since /\ n < q.from
      <4>1. n \in p.since..(q.from - 1)
        BY <1>4, <3>3
      <4>2. <<p.epoch, n>> \in Logs!LeftOut(p)
        BY <4>1 DEF Logs!LeftOut
      <4> QED
        BY <1>11, <4>2
    <3>4. CASE n >= q.from
      BY <1>3, <1>11, <1>13, <2>2, <3>1, <3>4
    <3> QED
      BY <1>4, <3>2, <3>3, <3>4
  <2> QED
    BY <1>4, <2>1, <2>2
<1>12. p.epoch = client.epoch => Covered(World', all.last)
  BY <1>8, <1>11 DEF Covered
<1> QED
  BY <1>3, <1>8, <1>9, <1>10, <1>12, <1>13 DEF Fine

LEMMA StoreKeeps ==
  ASSUME LogInv, NEW k \in Logs!Matches, Logs!Store(k)
  PROVE  LogInv'
<1> DEFINE q == appends[k]
           p == Head(q)
           t == Tail(q)
           r == rows[k]
           taken == Logs!Taken(p)
           all == Logs!Appended(r, taken)
           row == Logs!Capped(all)
           left == past.left \cup Logs!LeftOut(p)
           gone == past.gone \cup (Logs!LinesOf(all.chunks) \ Logs!LinesOf(row.chunks))
           a == <<p, row.last>>
           d == Append(sock.down, a)
           D == http.down \cup {a}
           n == past.trouble + 1
<1>1. /\ LogTypes /\ Tied /\ AllFine /\ AllFull /\ HomesInv /\ client.acked \in Nat /\ client.next \in Nat
  BY LogAssumption DEF LogInv, LogTypes, ClientSet
<1>2. q # <<>> /\ q \in Seq(FlushSet) /\ r \in RowSet /\ Full(r)
  BY <1>1 DEF Logs!Store, LogTypes, AllFull
<1>3. p \in FlushSet /\ p \in RangeOf(q) /\ t \in Seq(FlushSet) /\ RangeOf(t) \subseteq RangeOf(q)
      /\ Len(t) = Len(q) - 1 /\ Len(q) \in Nat
  BY <1>2, RangeTail
<1>4. appends' = [appends EXCEPT ![k] = t] /\ UNCHANGED <<client, roomMatch>>
  BY DEF Logs!Store
<1>5. \/ /\ rows' = [rows EXCEPT ![k] = row]
         /\ sock' = [sock EXCEPT !.down = d] \/ UNCHANGED sock
         /\ http' = [http EXCEPT !.down = D] \/ UNCHANGED http
         /\ past' = [past EXCEPT !.left = left, !.gone = gone]
      \/ past.trouble < LogTrouble /\ past' = [past EXCEPT !.trouble = n] /\ UNCHANGED <<rows, sock, http>>
  BY DEF Logs!Store, Logs!Trouble, Logs!Troubled
<1>6. p.match = k /\ \A i \in 1..Len(t) : t[i].match = k
  <2>1. Len(q) # 0
    BY <1>2
  <2>2. 1 \in 1..Len(q) /\ p = q[1] /\ \A i \in 1..Len(t) : t[i] = q[i + 1] /\ i + 1 \in 1..Len(q)
    BY <1>2, <2>1
  <2> HIDE DEF p, t
  <2> QED
    BY <1>1, <2>2 DEF Tied
<1>7. Out(p)
  BY <1>3 DEF Out
<1>8. /\ all \in RowSet /\ all.epoch = p.epoch /\ r.chunks \subseteq all.chunks /\ Full(all)
      /\ (r.epoch \in {0, p.epoch} /\ (r.epoch = 0 => r.last = 0) /\ Ordered(r)) => Ordered(all)
      /\ taken \in FlushSet
  <2>1. PICK f : f = Logs!Taken(p)
    OBVIOUS
  <2> HIDE DEF p
  <2>2. f \in FlushSet /\ f.epoch = p.epoch
    BY <1>3, <2>1, KeptIs
  <2>3. PICK last : last = IF f.epoch = r.epoch THEN r.last ELSE 0
    OBVIOUS
  <2>4. PICK s : s = Logs!Appended(r, f)
    OBVIOUS
  <2> HIDE DEF r
  <2>5. /\ s \in RowSet /\ s.epoch = f.epoch /\ r.chunks \subseteq s.chunks /\ Full(s)
        /\ (r.epoch \in {0, f.epoch} /\ (r.epoch = 0 => r.last = 0) /\ Ordered(r)) => Ordered(s)
    BY <1>2, <2>2, <2>3, <2>4, AppendedIs
  <2> QED
    BY <2>1, <2>2, <2>4, <2>5
<1>13. /\ row \in RowSet /\ row.epoch = all.epoch /\ row.last = all.last /\ row.chunks \subseteq all.chunks
       /\ Full(row) /\ (Ordered(all) => Ordered(row))
  <2> HIDE DEF all
  <2> QED
    BY <1>8, CappedIs
<1>14. /\ Logs!LinesOf(all.chunks) \subseteq Nat \X Nat
       /\ Logs!LinesOf(r.chunks) \subseteq Logs!LinesOf(all.chunks)
  <2> DEFINE A == all.chunks
             B == r.chunks
  <2>1. A \subseteq ChunkSet /\ B \subseteq A
    BY <1>8 DEF RowSet
  <2> HIDE DEF A, B
  <2>2. Logs!LinesOf(A) \subseteq Nat \X Nat /\ Logs!LinesOf(B) \subseteq Logs!LinesOf(A)
    BY <2>1, LinesOfIs DEF Logs!LinesOf
  <2> QED
    BY <2>2 DEF A, B
<1>15. Logs!LeftOut(p) \subseteq Nat \X Nat
  <2>1. p.epoch \in Nat /\ p.since \in Nat /\ taken.from \in Nat
    BY <1>3, <1>8 DEF FlushSet
  <2> HIDE DEF p
  <2> QED
    BY <2>1 DEF Logs!LeftOut
<1>9. /\ appends' \in [Logs!Matches -> Seq(FlushSet)]
      /\ \A j \in Logs!Matches : appends'[j] = (IF j = k THEN t ELSE appends[j])
  <2> HIDE DEF t
  <2> QED
    BY <1>1, <1>3, <1>4 DEF LogTypes
<1>10. ASSUME NEW j \in Logs!Matches
       PROVE  /\ Len(appends'[j]) <= 2
              /\ \A i \in 1..Len(appends'[j]) : appends'[j][i].match = j
              /\ RangeOf(appends'[j]) \subseteq RangeOf(appends[j])
  <2>1. CASE j = k
    <3>1. Len(q) <= 2
      BY <1>1 DEF Tied
    <3>2. Len(t) <= 2
      <4>1. PICK x, y : x = Len(t) /\ y = Len(q)
        OBVIOUS
      <4> HIDE DEF t, q
      <4> QED
        BY <1>3, <3>1, <4>1
    <3> QED
      BY <1>3, <1>6, <1>9, <2>1, <3>2
  <2>2. CASE j # k
    BY <1>1, <1>9, <2>2 DEF Tied
  <2> QED
    BY <2>1, <2>2
<1>11. CASE past.trouble < LogTrouble /\ past' = [past EXCEPT !.trouble = n] /\ UNCHANGED <<rows, sock, http>>
  <2>1. past \in PastSet /\ past.trouble \in 0..LogTrouble
    BY <1>1 DEF LogTypes, PastSet
  <2>2. n \in 0..LogTrouble
    BY <1>11, <2>1, LogAssumption
  <2> HIDE DEF n
  <2>3. /\ past' \in PastSet /\ past'.reloads = past.reloads /\ past'.matches = past.matches
        /\ past'.left = past.left /\ past'.gone = past.gone
    BY <1>11, <2>1, <2>2 DEF PastSet
  <2>4. LogTypes'
    BY <1>1, <1>4, <1>9, <1>11, <2>3 DEF LogTypes
  <2>5. \A x : Out(x)' => Out(x)
    BY <1>4, <1>10, <1>11 DEF Out
  <2>6. \A x \in FlushSet : Out(x)' => Carried(x)
    BY <2>5 DEF Carried, Same
  <2>7. \A x : Answered(x)' => Answered(x)
    BY <1>11 DEF Answered
  <2>8. UNCHANGED <<roomMatch, rows, client>>
    BY <1>4, <1>11
  <2>9. \A j \in Logs!Matches : Len(appends'[j]) <= 2 /\ \A i \in 1..Len(appends'[j]) : appends'[j][i].match = j
    BY <1>10
  <2> HIDE DEF q, p, t, r, taken, all, row, left, gone, a, d, D
  <2> QED
    BY <1>1, <2>3, <2>4, <2>6, <2>7, <2>8, <2>9, PageSteps
<1>12. CASE /\ rows' = [rows EXCEPT ![k] = row]
            /\ sock' = [sock EXCEPT !.down = d] \/ UNCHANGED sock
            /\ http' = [http EXCEPT !.down = D] \/ UNCHANGED http
            /\ past' = [past EXCEPT !.left = left, !.gone = gone]
  <2>1. row.last \in 0..LogLines
    BY <1>13 DEF RowSet
  <2>26. past.left \subseteq left /\ past.gone \subseteq gone /\ Logs!LeftOut(p) \subseteq left
         /\ Logs!LinesOf(all.chunks) \subseteq gone \cup Logs!LinesOf(row.chunks)
    OBVIOUS
  <2>27. past \in PastSet /\ left \in LineSets /\ gone \in LineSets
    BY <1>1, <1>14, <1>15 DEF LogTypes, PastSet, LineSets
  <2> HIDE DEF left, gone
  <2>28. /\ past' \in PastSet /\ past'.reloads = past.reloads /\ past'.matches = past.matches
         /\ past'.left = left /\ past'.gone = gone
    BY <1>12, <2>27 DEF PastSet
  <2>14. /\ taken = Logs!Taken(p) /\ all = Logs!Appended(rows[k], taken) /\ p = Head(appends[k])
         /\ r = rows[k] /\ q = appends[k]
    OBVIOUS
  <2> HIDE DEF p, t, row, all, taken, r, q
  <2>2. a \in AckSet /\ a[1] = p /\ a[2] = row.last
    BY <1>3, <2>1 DEF AckSet
  <2> HIDE DEF a
  <2>3. d \in Seq(AckSet) /\ RangeOf(d) = RangeOf(sock.down) \cup {a}
    BY <1>1, <2>2, RangeAppend DEF LogTypes
  <2> HIDE DEF d
  <2>4. /\ sock' \in [on : BOOLEAN, up : Seq(FlushSet), down : Seq(AckSet)] /\ sock'.up = sock.up
        /\ RangeOf(sock'.down) \subseteq RangeOf(sock.down) \cup {a}
    BY <1>1, <1>12, <2>3 DEF LogTypes
  <2>5. /\ http' \in [up : SUBSET FlushSet, down : SUBSET AckSet] /\ http'.up = http.up
        /\ http'.down \subseteq http.down \cup {a}
    BY <1>1, <1>12, <2>2 DEF LogTypes
  <2>6. /\ rows' \in [Logs!Matches -> RowSet] /\ rows'[k] = row
        /\ \A j \in Logs!Matches : j # k => rows'[j] = rows[j]
    BY <1>1, <1>12, <1>13 DEF LogTypes
  <2>7. LogTypes'
    BY <1>1, <1>4, <1>9, <2>4, <2>5, <2>6, <2>28 DEF LogTypes
  <2>8. StoredOk /\ StoredOk'
    <3>1. LogTypes' => StoredOk'
      BY StoredNamed, PTL
    <3> QED
      BY <1>1, <2>7, <3>1, StoredNamed
  <2>10. /\ row.epoch = p.epoch
         /\ (r.epoch \in {0, p.epoch} /\ (r.epoch = 0 => r.last = 0) /\ Ordered(r)) => Ordered(row)
    BY <1>8, <1>13
  <2>11. Accounted \subseteq Accounted' /\ Logs!LinesOf(all.chunks) \subseteq Accounted'
         /\ Logs!LeftOut(p) \subseteq Accounted'
    <3>1. \A j \in Logs!Matches : Logs!LinesOf(rows'[j].chunks) \subseteq Logs!Stored'
      BY <2>8 DEF StoredOk
    <3>2. Logs!LinesOf(all.chunks) \subseteq Accounted' /\ Logs!LeftOut(p) \subseteq Accounted'
      BY <2>6, <2>26, <2>28, <3>1 DEF Accounted
    <3>3. ASSUME NEW z \in Logs!Stored PROVE z \in Accounted'
      <4>1. PICK j \in Logs!Matches : z \in Logs!LinesOf(rows[j].chunks)
        BY <2>8 DEF StoredOk
      <4>2. CASE j = k
        BY <1>14, <2>14, <3>2, <4>1, <4>2
      <4>3. CASE j # k
        BY <2>6, <3>1, <4>1, <4>3 DEF Accounted
      <4> QED
        BY <4>2, <4>3
    <3>4. past.gone \subseteq Accounted' /\ past.left \subseteq Accounted'
      BY <2>26, <2>28 DEF Accounted
    <3> QED
      BY <3>2, <3>3, <3>4 DEF Accounted
  <2>12. Fine(World', row.epoch, row.last, row.last)
    <3>1. UNCHANGED client
      BY <1>4
    <3>2. Fine(World', all.epoch, all.last, all.last)
      BY <1>3, <1>6, <1>7, <2>11, <2>14, <3>1, RowIsFine
    <3> QED
      BY <1>13, <3>2
  <2>13. World'.epoch = World.epoch /\ World'.next = World.next /\ World.stored \subseteq World'.stored
    BY <1>4, <2>11 DEF World
  <2>15. Later(World, World')
    <3>1. World.next \in Nat
      BY <1>1 DEF World
    <3> QED
      BY <2>13, <3>1 DEF Later
  <2>16. \A x : Out(x)' => Out(x)
    BY <1>4, <1>10, <2>4, <2>5 DEF Out
  <2>17. \A x \in FlushSet : Out(x)' => Carried(x)
    BY <2>16 DEF Carried, Same
  <2>18. \A x \in AckSet : Answered(x)' => Answered(x) \/ Fine(World', x[1].epoch, x[2], x[2])
    BY <2>2, <2>4, <2>5, <2>10, <2>12 DEF Answered
  <2>19. Fine(World', client'.epoch, client'.acked, client'.acked)
    <3> DEFINE w == World
               v == World'
               e == client.epoch
               x == client.acked
    <3>1. World \in Worlds /\ World' \in Worlds
      <4>1. LogTypes' => WorldOk'
        BY WorldTyped, PTL
      <4> QED
        BY <2>7, <4>1, <1>1, WorldTyped DEF WorldOk
    <3>2. w \in Worlds /\ v \in Worlds /\ Later(w, v) /\ e \in Nat /\ x \in Nat /\ Fine(w, e, x, x)
      BY <1>1, <2>15, <3>1 DEF LogTypes, ClientSet, AllFine
    <3> HIDE DEF w, v, e, x
    <3>3. Fine(v, e, x, x)
      BY <3>2, LaterIsFine
    <3> QED
      BY <1>4, <3>3 DEF v, e, x
  <2>20. \A j \in Logs!Matches : \/ rows'[j] = rows[j]
                                 \/ Fine(World', rows'[j].epoch, rows'[j].last, rows'[j].last)
    BY <2>6, <2>12
  <2>21. AllFine'
    BY <1>1, <2>7, <2>15, <2>17, <2>18, <2>19, <2>20, FineStays
  <2>22. Tied'
    BY <1>1, <1>4, <1>10, <2>28 DEF Tied
  <2>29. AllFull'
    BY <1>1, <1>13, <2>6 DEF AllFull
  <2>23. ASSUME NEW home, AtHome(home) PROVE AtHome(home)'
    <3>1. p.epoch = home[k] /\ p.epoch # 0
      BY <1>3, <1>6, <1>7, <2>23 DEF AtHome, FlushSet
    <3>2. r.epoch \in {0, p.epoch} /\ (r.epoch = 0 => r.last = 0) /\ Ordered(r)
      BY <2>14, <2>23, <3>1 DEF AtHome
    <3>3. row.epoch \in {0, home[k]} /\ (row.epoch = 0 => row.last = 0) /\ Ordered(row)
      BY <2>10, <3>1, <3>2
    <3>4. ASSUME NEW j \in Logs!Matches
          PROVE  rows'[j].epoch \in {0, home[j]} /\ (rows'[j].epoch = 0 => rows'[j].last = 0) /\ Ordered(rows'[j])
      <4>1. CASE j = k
        BY <2>6, <3>3, <4>1
      <4>2. CASE j # k
        BY <2>6, <2>23, <4>2 DEF AtHome
      <4> QED
        BY <4>1, <4>2
    <3>5. home \in [Logs!Matches -> Nat] /\ \A j \in Logs!Matches : j > past'.matches => home[j] = 0
      BY <2>23, <2>28 DEF AtHome
    <3>6. /\ client'.match # 0 => home[client'.match] = client'.epoch
          /\ roomMatch' # 0 /\ home[roomMatch'] # 0 => client'.match = roomMatch'
      BY <1>4, <2>23 DEF AtHome
    <3>7. \A x \in FlushSet : Out(x)' => x.epoch = home[x.match]
      BY <2>16, <2>23 DEF AtHome
    <3> QED
      BY <3>4, <3>5, <3>6, <3>7 DEF AtHome
  <2>24. HomesInv'
    BY <1>1, <2>23, <2>28 DEF HomesInv
  <2> QED
    BY <2>7, <2>21, <2>22, <2>24, <2>29 DEF LogInv
<1> HIDE DEF q, p, t, r, taken, all, row, left, gone, a, d, D, n
<1> QED
  BY <1>5, <1>11, <1>12

LEMMA LogStep == LogInv /\ Logs!Next => LogInv'
<1> SUFFICES ASSUME LogInv, Logs!Next PROVE LogInv'
  OBVIOUS
<1> USE DEF Logs!Next
<1>1. CASE Logs!Log \/ Logs!LogCritical \/ Logs!Flush
  BY <1>1, LinesKeep
<1>2. CASE Logs!Hidden
  BY <1>2, HiddenKeeps
<1>3. CASE Logs!SocketAck \/ \E a \in http.down : Logs!HttpAck(a)
  BY <1>3, AnswersKeep
<1>4. CASE \E p \in client.timers : Logs!AckTimesOut(p)
  BY <1>4, TimeoutKeeps
<1>5. CASE Logs!Begins \/ Logs!Runs \/ Logs!Stops \/ Logs!Reload
  BY <1>5, BeginsKeeps, RunsKeeps, StopsKeeps, ReloadKeeps
<1>6. CASE Logs!SocketDrops \/ Logs!SocketReturns
  BY <1>6, DropsKeeps, ReturnsKeeps
<1>7. CASE Logs!RoomStarts \/ Logs!RoomEnds
  BY <1>7, RoomKeeps
<1>8. CASE Logs!SocketTakes \/ \E p \in http.up : Logs!HttpTakes(p)
  BY <1>8, TakesKeep
<1>9. CASE \E k \in Logs!Matches : Logs!Store(k)
  BY <1>9, StoreKeeps
<1> QED
  BY <1>1, <1>2, <1>3, <1>4, <1>5, <1>6, <1>7, <1>8, <1>9

LogPart == part = "log" => LogInv

LEMMA LogPartInit == PageInit => LogPart
BY LogInit DEF PageInit, LogPart

LEMMA LogPartStep == LogPart /\ [PageNext]_pageVars => LogPart'
<1> SUFFICES ASSUME LogPart, [PageNext]_pageVars, part' = "log" PROVE LogInv'
  BY DEF LogPart
<1>1. part = "log"
  BY DEF PageNext, pageVars, Keep8, Keep7, Keep6, Keep5, Keep4
<1>2. LogInv
  BY <1>1 DEF LogPart
<1>3. CASE Logs!Next
  BY <1>2, <1>3, LogStep
<1>4. CASE UNCHANGED Logs!logVars
  <2>1. UNCHANGED <<client, roomMatch, rows, appends, sock, http, past>>
    BY <1>4 DEF Logs!logVars
  <2>2. Tied' /\ LogTypes'
    BY <1>2, <2>1 DEF LogInv, Tied, LogTypes
  <2>3. (\A p : Out(p)' <=> Out(p)) /\ AllFine'
    BY <1>2, <2>1, StillFine
  <2>4. HomesInv' /\ AllFull'
    BY <1>2, <2>1, <2>3 DEF LogInv, HomesInv, AtHome, AllFull
  <2> QED
    BY <2>2, <2>3, <2>4 DEF LogInv
<1> QED
  BY <1>1, <1>3, <1>4 DEF PageNext, pageVars, Logs!logVars

(* Whatever is refused, answered late, sent twice or two ways: a line the page   *)
(* counts as acknowledged and still holds was stored, or was left out of a flush *)
(* larger than a hidden page may send or the server keeps; the lines of a match  *)
(* are stored once and in order unless another page of the same player came      *)
(* into it; and its budget deletes none of the newest lines, as many as fit      *)
(* beside one chunk.                                                        *)
THEOREM LogStaysSound == PageSpec => []LogSound
<1>1. LogPart => LogSound
  BY LogSoundIs DEF LogPart, LogSound
<1> QED
  BY <1>1, LogPartInit, LogPartStep, PTL DEF PageSpec

=============================================================================
