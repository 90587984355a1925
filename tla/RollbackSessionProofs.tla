------------------------ MODULE RollbackSessionProofs ------------------------
(***************************************************************************)
(* The session's promises, for every value of its constants: no correction  *)
(* is ever given up, no rewind is deeper than the error, and a frame whose  *)
(* inputs have all arrived ran with exactly those inputs.                  *)
(*                                                                         *)
(* The argument is the stall's.  An input still missing is at most          *)
(* VisibleCap frames older than the newest input frame applied, so the      *)
(* frame that guessed it is still in the ring of saved states and its guess *)
(* in the ring of inputs, and no packet can be so late, or so early, that   *)
(* it takes the place of an input that is needed.                          *)
(***************************************************************************)
EXTENDS RollbackSession, RollbackEngineProofs

(* What the proofs assume of the session: no peer is given up, every peer's *)
(* first input was fed, and the sizes leave room for one another.  The code:*)
(* VisibleCap is 7, MaxFrames at least 12 and at most 30, a delay of at     *)
(* most 20, 60 frames of future margin, 256 places.                        *)
OrdinarySession ==
  /\ TrueRollback /\ MayPhantom = {} /\ Remote # {} /\ Backfilled = Remote
  /\ VisibleCap <= InitDelay + 10 /\ VisibleCap <= MaxFrames
  /\ 2 * InitDelay + FutureMargin + MaxFrames + 1 < InputRing

LEMMA Sizes ==
  /\ InitDelay \in Nat \ {0} /\ VisibleCap \in Nat /\ MaxFrames \in Nat \ {0}
  /\ FutureMargin \in Nat /\ InputRing \in Nat \ {0} /\ MaxFrame \in Nat
BY DelayAssumption, CapAssumption, RingAssumption, WindowAssumption

(***************************************************************************)
(* The invariant; top is the newest frame begun.                           *)
(***************************************************************************)

(* The delay is the one the engine was started with, in every frame.        *)
SameDelay ==
  /\ delay_frames = InitDelay
  /\ \A i \in Idx : applied_tag[i].frame >= 0 =>
       applied_tag[i].tag = applied_tag[i].frame - InitDelay

AllLive == phantom = {} /\ trusted = Remote

NewestIsNewest ==
  /\ newest \in [Remote -> 0..MaxFrame]
  /\ \A s \in Remote : /\ HasInput(s, newest[s])
                       /\ \A t \in 0..MaxFrame : HasInput(s, t) => t <= newest[s]

(* The stall: no frame begins while an input is missing that would be too   *)
(* old to correct afterwards.                                              *)
StallHolds(top) ==
  \A s \in Remote, t \in 0..MaxFrame :
    ~HasInput(s, t) => top < t + InitDelay + VisibleCap

NotTooEarly(top) ==
  \A s \in Remote, t \in 0..MaxFrame :
    HasInput(s, t) => t <= top + 1 + InitDelay + FutureMargin

(* An input received that a frame can still apply has its place.            *)
InPlace(top) ==
  \A s \in Remote, t \in 0..MaxFrame :
    HasInput(s, t) /\ t >= top - MaxFrames - InitDelay
      => inputs[s][t % InputRing].frame = t

(* A guess that is open is one for an input still missing.                  *)
OpenIsMissing(top) ==
  \A s \in Remote, i \in Idx : predicted[s][i].on =>
    /\ predicted[s][i].frame \in 0..MaxFrame /\ predicted[s][i].frame <= top
    /\ predicted[s][i].frame % InputRing = i
    /\ ~HasInput(s, predicted[s][i].frame)

SavedWithin(r, top) == \A i \in 0..MaxFrames : r[i].frame <= top + 1

(* What every frame of the timeline ran with, however old it is.            *)
RanZero(f)     == f < InitDelay => emu[f+1] = [s \in Slots |-> Zero]
RanLocal(f)    == f >= InitDelay => emu[f+1][Local] = LocalInput[f - InitDelay]
RanReceived(f) ==
  f >= InitDelay => \A s \in Remote :
    HasInput(s, f - InitDelay) => Covered(f) \/ emu[f+1][s] = real[s][f - InitDelay]
RanSettled ==
  \A f \in Nat : f < frame => RanZero(f) /\ RanLocal(f) /\ RanReceived(f)

(* The frame a rewind goes back to ran with a wrong input.                  *)
WrongAt(p) ==
  p >= InitDelay /\ \E s \in Remote : HasInput(s, p - InitDelay)
                                      /\ emu[p+1][s] # real[s][p - InitDelay]
RewindHasCause == pending_rollback >= 0 => WrongAt(pending_rollback)

SessionInv(top) ==
  /\ SameDelay /\ AllLive /\ NewestIsNewest
  /\ StallHolds(top) /\ NotTooEarly(top) /\ InPlace(top) /\ OpenIsMissing(top)
  /\ SavedWithin(ring, top) /\ ~failed /\ RanSettled /\ RewindHasCause

(***************************************************************************)
(* One frame.                                                              *)
(***************************************************************************)

(* Two input frames closer than the ring is long have places of their own.  *)
LEMMA NearDistinct ==
  ASSUME NEW t \in Int, NEW u \in Int, t # u, t - u < InputRing, u - t < InputRing
  PROVE  t % InputRing # u % InputRing
<1>1. InputRing \in Nat \ {0}
  BY Sizes
<1>2. CASE t < u
  BY <1>1, <1>2, ModDistinct
<1>3. CASE u < t
  BY <1>1, <1>3, ModDistinct
<1> QED
  BY <1>2, <1>3

(* A slot that guesses the input of a frame within reach has none.          *)
LEMMA GuessesAreMissing ==
  ASSUME OrdinarySession, TypeOK, NEW top \in Int, SessionInv(top), NEW a \in Int,
         a <= top, a <= MaxFrame, a >= top - MaxFrames - InitDelay
  PROVE  GuessesMissing(Guessed(a), a) /\ GuessesMissing(Reguessed(a), a)
<1>1. \A t \in Int : t % InputRing \in Idx
  BY InputIndex
<1>2. ASSUME NEW s \in Remote, a >= 0, inputs[s][a % InputRing].frame # a
      PROVE  real[s][a] = NoInput
  BY <1>2, Sizes DEF SessionInv, InPlace, HasInput
<1>3. ASSUME NEW s \in Remote, a >= 0, predicted[s][a % InputRing].on
      PROVE  real[s][a] = NoInput
  <2>1. PICK t : t = predicted[s][a % InputRing].frame
    OBVIOUS
  <2>2. /\ t \in 0..MaxFrame /\ t <= top /\ t % InputRing = a % InputRing
        /\ ~HasInput(s, t)
    BY <1>1, <1>3, <2>1 DEF SessionInv, OpenIsMissing
  <2>3. top < t + InitDelay + VisibleCap
    BY <2>2 DEF SessionInv, StallHolds
  <2>4. t - a < InputRing /\ a - t < InputRing
    BY <2>2, <2>3, Sizes DEF OrdinarySession
  <2>5. t = a
    BY <2>2, <2>4, NearDistinct
  <2> QED
    BY <2>2, <2>5 DEF HasInput
<1> QED
  BY <1>2, <1>3 DEF GuessesMissing, Guessed, Reguessed

(* What is assumed of the frame that runs: it is within reach, applies the  *)
(* input of its delay, and guesses only what is missing.                   *)
SessionFrame(f, a, S, ins, top, new) ==
  /\ RunsFrame(f, a, S, ins) /\ a = f - InitDelay /\ f < MaxFrame
  /\ RemoteOf(ins) /\ GuessesMissing(S, a) /\ StaysCovered(f)
  /\ f >= top - MaxFrames /\ top <= new /\ new <= top + 1 /\ f <= new
  /\ \/ pending_rollback' < 0
     \/ pending_rollback' = pending_rollback /\ pending_rollback < f
  /\ UNCHANGED <<real, trusted, newest, phantom>>

LEMMA FrameDelay ==
  ASSUME TypeOK, SameDelay, NEW f \in Nat, NEW a \in Int, NEW S, NEW ins, NEW top, NEW new,
         SessionFrame(f, a, S, ins, top, new)
  PROVE  SameDelay'
<1>1. /\ applied_tag' = [applied_tag EXCEPT ![f % InputRing] = [frame |-> f, tag |-> a]]
      /\ a = f - InitDelay /\ delay_frames' = delay_frames
  BY DEF SessionFrame, RunsFrame, RecordTag
<1>2. \A i \in Idx : applied_tag'[i] = applied_tag[i]
                     \/ (applied_tag'[i].frame = f /\ applied_tag'[i].tag = a)
  BY <1>1 DEF TypeOK
<1> QED
  BY <1>1, <1>2 DEF SameDelay

LEMMA FrameGuesses ==
  ASSUME OrdinarySession, TypeOK, NEW top \in Int, SessionInv(top), NEW f \in Nat,
         NEW a \in Int, NEW S, NEW ins, NEW new \in Int,
         SessionFrame(f, a, S, ins, top, new)
  PROVE  InPlace(new)' /\ OpenIsMissing(new)'
<1>1. /\ S \subseteq Remote /\ StoreGuess(S, a, ins) /\ real' = real /\ RemoteOf(ins)
      /\ a = f - InitDelay /\ f >= top - MaxFrames /\ f <= new /\ f < MaxFrame
      /\ top <= new /\ new <= top + 1 /\ GuessesMissing(S, a) /\ a % InputRing \in Idx
      /\ trusted = Remote
  BY InputIndex DEF SessionFrame, RunsFrame, SessionInv, AllLive
<1>2. ASSUME NEW s \in Remote
      PROVE  /\ s \notin S => inputs'[s] = inputs[s] /\ predicted'[s] = predicted[s]
             /\ s \in S => Checked(s, a)' /\ a >= 0 /\ ~HasInput(s, a)
             /\ \A i \in Idx : i # a % InputRing =>
                  inputs'[s][i] = inputs[s][i] /\ predicted'[s][i] = predicted[s][i]
  <2>1. ins[s] = inputs[s]
    BY <1>1 DEF RemoteOf
  <2>2. s \in S => a >= 0 /\ ~HasInput(s, a)
    BY <1>1 DEF GuessesMissing, HasInput
  <2>3. TypeOK /\ a \in Int /\ S \subseteq Remote /\ StoreGuess(S, a, ins)
    BY <1>1
  <2>4. /\ s \in S => FreshGuess(s, a)'
        /\ s \notin S => SlotKept(s)
        /\ OtherCellsKept(s, a)
    BY <2>1, <2>3, GuessedCells
  <2> QED
    BY <2>2, <2>4 DEF FreshGuess, SlotKept, OtherCellsKept
<1>3. InPlace(new)'
  <2> SUFFICES ASSUME NEW s \in Remote, NEW t \in 0..MaxFrame, HasInput(s, t),
                      t >= new - MaxFrames - InitDelay
               PROVE  inputs'[s][t % InputRing].frame = t
    BY <1>1 DEF InPlace, HasInput
  <2>1. t % InputRing \in Idx /\ t >= top - MaxFrames - InitDelay
    BY <1>1, InputIndex, Sizes
  <2>2. inputs[s][t % InputRing].frame = t
    BY <2>1 DEF SessionInv, InPlace
  <2>3. CASE s \in S
    <3>1. a \in 0..MaxFrame /\ a # t /\ ~HasInput(s, a)
      BY <1>1, <1>2, <2>3, Sizes
    <3>2. top < a + InitDelay + VisibleCap
      BY <3>1 DEF SessionInv, StallHolds
    <3>3. t <= top + 1 + InitDelay + FutureMargin
      BY DEF SessionInv, NotTooEarly
    <3>4. t - a < InputRing /\ a - t < InputRing
      BY <1>1, <2>1, <3>2, <3>3, Sizes DEF OrdinarySession
    <3>5. t % InputRing # a % InputRing
      BY <3>1, <3>4, NearDistinct
    <3> QED
      BY <1>2, <2>1, <2>2, <3>5
  <2>4. CASE s \notin S
    BY <1>2, <2>2, <2>4
  <2> QED
    BY <2>3, <2>4
<1>4. OpenIsMissing(new)'
  <2> SUFFICES ASSUME NEW s \in Remote, NEW i \in Idx, predicted'[s][i].on
               PROVE  /\ predicted'[s][i].frame \in 0..MaxFrame
                      /\ predicted'[s][i].frame <= new
                      /\ predicted'[s][i].frame % InputRing = i
                      /\ ~HasInput(s, predicted'[s][i].frame)
    BY <1>1 DEF OpenIsMissing, HasInput
  <2>1. CASE s \in S /\ i = a % InputRing
    <3>1. predicted'[s][i].frame = a
      BY <1>2, <2>1 DEF Checked
    <3>2. a \in 0..MaxFrame /\ a <= new /\ ~HasInput(s, a)
      BY <1>1, <1>2, <2>1, Sizes
    <3> QED
      BY <2>1, <3>1, <3>2
  <2>2. CASE s \notin S \/ i # a % InputRing
    <3>1. predicted'[s][i] = predicted[s][i]
      BY <1>2, <2>2
    <3>2. PICK t : t = predicted[s][i].frame
      OBVIOUS
    <3>3. t \in 0..MaxFrame /\ t <= top /\ t % InputRing = i /\ ~HasInput(s, t)
      BY <3>1, <3>2 DEF SessionInv, OpenIsMissing
    <3>4. t <= new
      BY <1>1, <3>3
    <3> QED
      BY <3>1, <3>2, <3>3, <3>4
  <2> QED
    BY <2>1, <2>2
<1> QED
  BY <1>3, <1>4

LEMMA RingNowWithin ==
  ASSUME IInv, NEW top \in Int, HasBegun(top), SavedWithin(ring, top)
  PROVE  SavedWithin(RingNow, top) /\ RingNow \in RingType
<1>1. ring \in RingType /\ frame \in Nat /\ frame <= top + 1 /\ RingNow \in RingType
  BY RingNowFacts DEF IInv, TypeOK, RingType, HasBegun
<1>2. SavedWithin(SaveAt(ring, frame), top)
  <2>1. \A i \in 0..MaxFrames : \/ SaveAt(ring, frame)[i] = ring[i]
                                \/ SaveAt(ring, frame)[i].frame = frame
    BY <1>1 DEF SaveAt, RingType
  <2> QED
    BY <1>1, <2>1 DEF SavedWithin
<1> QED
  BY <1>1, <1>2 DEF RingNow

LEMMA FrameSaves ==
  ASSUME IInv, NEW top \in Int, HasBegun(top), SavedWithin(ring, top), NEW f \in Nat,
         NEW a \in Int, NEW S, NEW ins, NEW new \in Int,
         SessionFrame(f, a, S, ins, top, new)
  PROVE  SavedWithin(ring', new)
<1>1. /\ ring' = [RingNow EXCEPT ![f % RingSize] = [frame |-> f, state |-> SubSeq(emu, 1, f)]]
      /\ f <= new /\ top <= new
  BY DEF SessionFrame, RunsFrame
<1>2. SavedWithin(RingNow, top) /\ RingNow \in RingType
  BY RingNowWithin
<1>3. \A i \in 0..MaxFrames : /\ ring'[i] = RingNow[i] \/ ring'[i].frame = f
                              /\ RingNow[i].frame \in Int
  BY <1>1, <1>2 DEF RingType
<1> QED
  BY <1>1, <1>2, <1>3 DEF SavedWithin

(* The frames that ran before keep their inputs; the frame that runs now    *)
(* takes the inputs that have arrived.                                     *)
LEMMA FrameSettles ==
  ASSUME OrdinarySession, IInv, TypeOK', NEW top \in Int, SessionInv(top), NEW f \in Nat,
         NEW a \in Int, NEW S, NEW ins, NEW new \in Int,
         SessionFrame(f, a, S, ins, top, new), TagInv(new)', RanExpected(new)',
         OpenIsMissing(new)'
  PROVE  RanSettled' /\ RewindHasCause'
<1>1. /\ RunsFrame(f, a, S, ins) /\ StaysCovered(f) /\ real' = real /\ a = f - InitDelay
      /\ f < MaxFrame /\ f >= top - MaxFrames /\ new <= top + 1 /\ f <= new
      /\ \/ pending_rollback' < 0
         \/ pending_rollback' = pending_rollback /\ pending_rollback < f
      /\ trusted' = Remote
  BY DEF SessionFrame, SessionInv, AllLive
<1>2. /\ \A g \in 0..f-1 : emu'[g+1] = emu[g+1]
      /\ frame' \in {f, f+1}
      /\ frame' = f + 1 => emu'[f+1] = Applied(inputs', a)
  BY <1>1, PastKept
<1>3. f <= frame /\ frame \in Nat /\ pending_rollback \in Int /\ pending_rollback' \in Int
  BY <1>1 DEF RunsFrame, IInv, TypeOK
<1>4. \A g \in Nat : g < f => RanZero(g) /\ RanLocal(g) /\ RanReceived(g)
  BY <1>3 DEF SessionInv, RanSettled
<1>5. ASSUME NEW g \in Nat, g < f PROVE RanZero(g)' /\ RanLocal(g)' /\ RanReceived(g)'
  <2>1. /\ emu'[g+1] = emu[g+1] /\ RanZero(g) /\ RanLocal(g) /\ RanReceived(g)
        /\ Covered(g) => Covered(g)'
    BY <1>1, <1>2, <1>4, <1>5 DEF StaysCovered
  <2> QED
    BY <1>1, <2>1 DEF RanZero, RanLocal, RanReceived, HasInput
<1>6. Tagged(f)' /\ TagOf(f)' = a
  BY <1>1, RecordedTags DEF RunsFrame, IInv
<1>7. ASSUME frame' = f + 1 PROVE RanZero(f)' /\ RanLocal(f)' /\ RanReceived(f)'
  <2>1. emu'[f+1] = Applied(inputs', a) /\ f \in 0..frame'-1
    BY <1>2, <1>7
  <2>2. RanZero(f)'
    <3>1. f < InitDelay => a < 0
      BY <1>1, Sizes
    <3>2. a < 0 => Applied(inputs', a) = [s \in Slots |-> Zero]
      BY DEF Applied, InputAt
    <3> QED
      BY <2>1, <3>1, <3>2 DEF RanZero
  <2>3. RanLocal(f)'
    <3>1. f >= InitDelay => a >= 0
      BY <1>1, Sizes
    <3> QED
      BY <1>1, <1>6, <2>1, <3>1 DEF RanLocal, TagInv, LocalAsSent
  <2>4. RanReceived(f)'
    <3> SUFFICES ASSUME a >= 0, NEW s \in Remote, HasInput(s, a)
                 PROVE  Covered(f)' \/ emu'[f+1][s] = real[s][a]
      BY <1>1, Sizes DEF RanReceived, HasInput
    <3>1. Held(a, new)
      BY <1>1, Sizes DEF Held, OrdinarySession
    <3>2. Covered(f)' \/ emu'[f+1][s] = Expected(s, a)'
      BY <1>1, <1>6, <2>1, <3>1 DEF RanExpected
    <3>3. ~Checked(s, a)'
      <4>1. a % InputRing \in Idx
        BY InputIndex
      <4> QED
        BY <1>1, <4>1 DEF OpenIsMissing, Checked, HasInput
    <3> QED
      BY <1>1, <3>2, <3>3 DEF Expected
  <2> QED
    BY <2>2, <2>3, <2>4
<1>8. RanSettled'
  <2>n. PICK n \in Nat : n = frame'
    BY DEF TypeOK
  <2> SUFFICES ASSUME NEW g \in Nat, g < n PROVE RanZero(g)' /\ RanLocal(g)' /\ RanReceived(g)'
    BY <2>n DEF RanSettled
  <2>1. n = f \/ n = f + 1
    BY <1>2, <2>n
  <2>2. CASE g < f
    BY <1>5, <2>2
  <2>3. CASE ~(g < f)
    <3>1. g = f /\ n = f + 1
      BY <2>1, <2>3
    <3> QED
      BY <1>7, <2>n, <3>1
  <2> QED
    BY <2>2, <2>3
<1>9. RewindHasCause'
  <2>1. CASE pending_rollback' < 0
    BY <1>3, <2>1 DEF RewindHasCause
  <2>2. CASE pending_rollback' = pending_rollback /\ pending_rollback < f
    <3> SUFFICES ASSUME NEW p \in Nat, p = pending_rollback PROVE WrongAt(p)'
      BY <1>3, <2>2 DEF RewindHasCause
    <3>1. p \in 0..f-1
      BY <2>2
    <3>2. WrongAt(p)
      BY DEF SessionInv, RewindHasCause
    <3>3. emu'[p+1] = emu[p+1]
      BY <1>2, <3>1
    <3> QED
      BY <1>1, <3>2, <3>3 DEF WrongAt, HasInput
  <2> QED
    BY <1>1, <2>1, <2>2
<1> QED
  BY <1>8, <1>9

LEMMA FrameSession ==
  ASSUME OrdinarySession, IInv, TypeOK', NEW top \in Int, TagInv(top), SessionInv(top),
         NEW f \in Nat, NEW a \in Int, NEW S, NEW ins, NEW new \in Int,
         SessionFrame(f, a, S, ins, top, new), TagInv(new)', GuessInv(new)',
         StallHolds(new), failed' = failed
  PROVE  SessionInv(new)'
<1>1. /\ real' = real /\ trusted' = trusted /\ newest' = newest /\ phantom' = phantom
      /\ top <= new
  BY DEF SessionFrame
<1>2. AllLive' /\ NewestIsNewest' /\ StallHolds(new)' /\ ~failed'
  BY <1>1 DEF SessionInv, AllLive, NewestIsNewest, StallHolds, HasInput
<1>3. NotTooEarly(new)'
  BY <1>1, Sizes DEF SessionInv, NotTooEarly, HasInput
<1>4. SameDelay'
  BY FrameDelay DEF SessionInv, IInv
<1>5. InPlace(new)' /\ OpenIsMissing(new)'
  BY FrameGuesses DEF IInv
<1>6. SavedWithin(ring', new)
  BY FrameSaves DEF SessionInv, TagInv
<1>7. RanExpected(new)'
  BY <1>2 DEF GuessInv
<1>8. RanSettled' /\ RewindHasCause'
  BY <1>5, <1>7, FrameSettles
<1> QED
  BY <1>2, <1>3, <1>4, <1>5, <1>6, <1>8 DEF SessionInv

(* A frame that begins leaves every missing input young enough to correct.  *)
LEMMA StallKeeps ==
  ASSUME OrdinarySession, NEW top \in Int, TagInv(top), SessionInv(top), NEW f \in Nat,
         f = frame, f < MaxFrame, \A s \in Remote : ~Stalls(s)
  PROVE  StallHolds(NewTop(top, f))
<1>1. f <= top + 1 /\ delay_frames = InitDelay /\ Live = Remote /\ TrueRollback
  BY DEF TagInv, HasBegun, SessionInv, SameDelay, AllLive, Live, OrdinarySession
<1> SUFFICES ASSUME NEW s \in Remote, NEW t \in 0..MaxFrame, ~HasInput(s, t)
             PROVE  NewTop(top, f) < t + InitDelay + VisibleCap
  BY DEF StallHolds
<1>2. top < t + InitDelay + VisibleCap
  BY DEF SessionInv, StallHolds
<1>3. ASSUME f > top, f >= t + InitDelay + VisibleCap PROVE FALSE
  <2>1. f = t + InitDelay + VisibleCap
    BY <1>1, <1>2, <1>3, Sizes
  <2>2. ApplyFrame = t + VisibleCap /\ WindowEdge = t
    BY <1>1, <2>1, Sizes DEF ApplyFrame, WindowEdge
  <2>3. PICK n \in 0..MaxFrame : n = newest[s] /\ HasInput(s, n)
    BY DEF SessionInv, NewestIsNewest
  <2>4. CASE n > t
    <3>1. GapAtEdge(s)
      BY <1>1, <2>2, <2>3, <2>4 DEF GapAtEdge
    <3> QED
      BY <1>1, <2>2, <3>1, Sizes DEF Stalls
  <2>5. CASE n < t
    <3>1. t + VisibleCap \in 0..MaxFrame /\ t + VisibleCap > n
      BY <2>1, <2>5, Sizes
    <3>2. ~HasInput(s, t + VisibleCap)
      BY <2>3, <3>1 DEF SessionInv, NewestIsNewest
    <3>3. f - n >= InitDelay + VisibleCap + 1
      BY <2>1, <2>5, Sizes
    <3>4. StallThreshold = InitDelay + VisibleCap + 1
      BY <1>1 DEF StallThreshold
    <3>5. Behind(s)
      BY <2>2, <2>3, <3>2, <3>3, <3>4 DEF Behind
    <3> QED
      BY <1>1, <2>2, <3>5, Sizes DEF Stalls
  <2>6. n # t
    BY <2>3
  <2> QED
    BY <2>4, <2>5, <2>6
<1> QED
  BY <1>2, <1>3, Sizes DEF NewTop

LEMMA NormalSession ==
  ASSUME OrdinarySession, IInv, NEW top \in Int, TagInv(top), GuessInv(top),
         SessionInv(top), NEW x, NEW stepped \in BOOLEAN, TickNormal(x, stepped),
         \A s \in Remote : ~Stalls(s), UNCHANGED <<newest, phantom>>,
         NEW f \in Nat, f = frame
  PROVE  (TagInv(NewTop(top, f)) /\ GuessInv(NewTop(top, f)) /\ SessionInv(NewTop(top, f)))'
<1>1. PICK a \in Int : a = f - InitDelay
  BY Sizes
<1>2. delay_frames = InitDelay /\ TypeOK /\ pending_rollback' \in Int
  <2>1. TypeOK'
    BY NormalType DEF IInv
  <2> QED
    BY <2>1 DEF SessionInv, SameDelay, IInv, TypeOK
<1>3. /\ RunsFrame(f, a, Guessed(a), StoreLocal) /\ f < MaxFrame
      /\ pending_rollback < 0 /\ pending_rollback' < 0 /\ failed' = failed
  BY <1>1, <1>2, NormalRuns
<1>4. f >= top - MaxFrames /\ f <= top + 1
  BY DEF TagInv, HasBegun
<1>5. GuessesMissing(Guessed(a), a)
  BY <1>1, <1>2, <1>3, <1>4, GuessesAreMissing, Sizes
<1>6. RemoteOf(StoreLocal)
  BY <1>2, SlotAssumption DEF RemoteOf, StoreLocal, TypeOK, Slots
<1>7. StaysCovered(f)
  <2>1. pending_rollback \in Int
    BY <1>2 DEF TypeOK
  <2> QED
    BY <1>3, <2>1 DEF StaysCovered, Covered
<1>8. PICK new \in Int : new = NewTop(top, f) /\ top <= new /\ f <= new /\ new <= top + 1
  BY <1>4 DEF NewTop
<1>9. SessionFrame(f, a, Guessed(a), StoreLocal, top, new)
  BY <1>1, <1>3, <1>4, <1>5, <1>6, <1>7, <1>8 DEF SessionFrame, RunsFrame
<1>10. TagInv(new)' /\ GuessInv(new)'
  BY <1>8, NormalTags, NormalGuess
<1>11. StallHolds(new)
  BY <1>3, <1>8, StallKeeps
<1>12. TypeOK'
  BY NormalType DEF IInv
<1>13. SessionInv(new)'
  BY <1>3, <1>9, <1>10, <1>11, <1>12, FrameSession
<1> QED
  BY <1>8, <1>10, <1>13

LEMMA ReplaySession ==
  ASSUME OrdinarySession, IInv, NEW top \in Int, TagInv(top), GuessInv(top),
         SessionInv(top), NEW x, NEW stepped \in BOOLEAN, TickReplay(x, stepped),
         UNCHANGED <<newest, phantom>>
  PROVE  (TagInv(top) /\ GuessInv(top) /\ SessionInv(top))'
<1>1. /\ ReplayedFrame \in 0..top /\ ReplayedFrame >= top - MaxFrames
      /\ Tagged(ReplayedFrame) /\ ReplayTag(ReplayedFrame) = TagOf(ReplayedFrame)
  BY ReplayedTag
<1>2. PICK f \in Nat : f = ReplayedFrame /\ f <= top /\ f >= top - MaxFrames
  BY <1>1
<1>3. /\ TypeOK /\ top < MaxFrame /\ TrueRollback /\ pending_rollback \in Int
      /\ f % InputRing \in Idx
  <2>1. f % InputRing \in Idx
    BY InputIndex
  <2> QED
    BY <2>1 DEF IInv, TypeOK, TagInv, HasBegun, OrdinarySession
<1>4. PICK a \in Int : a = f - InitDelay
  BY Sizes
<1>5. TagOf(f) = a
  BY <1>1, <1>2, <1>3, <1>4 DEF SessionInv, SameDelay, Tagged, TagOf
<1>6. /\ RunsFrame(f, a, Reguessed(a), inputs) /\ failed' = failed
      /\ \/ pending_rollback = f /\ pending_rollback' = -1
         \/ f = frame /\ pending_rollback' = pending_rollback
  BY <1>1, <1>2, <1>5, ReplayRuns
<1>7. \/ pending_rollback' < 0
      \/ pending_rollback' = pending_rollback /\ pending_rollback < f
  <2>1. CASE pending_rollback = f /\ pending_rollback' = -1
    BY <2>1
  <2>2. CASE f = frame /\ pending_rollback' = pending_rollback
    <3>1. pending_rollback >= 0 => pending_rollback < frame
      BY <1>3, Sizes DEF IInv, PendingRestorable, TypeOK
    <3> QED
      BY <1>3, <2>2, <3>1
  <2> QED
    BY <1>6, <2>1, <2>2
<1>8. StaysCovered(f)
  <2> SUFFICES ASSUME NEW g \in 0..f-1, Covered(g) PROVE Covered(g)'
    BY DEF StaysCovered
  <2>1. pending_rollback' = pending_rollback
    BY <1>3, <1>6 DEF Covered
  <2> QED
    BY <2>1 DEF Covered
<1>9. GuessesMissing(Reguessed(a), a)
  BY <1>2, <1>3, <1>4, GuessesAreMissing, Sizes
<1>10. RemoteOf(inputs)
  BY DEF RemoteOf
<1>11. f < MaxFrame /\ top <= top /\ top <= top + 1
  BY <1>2, <1>3, Sizes
<1>12. SessionFrame(f, a, Reguessed(a), inputs, top, top)
  BY <1>2, <1>4, <1>6, <1>7, <1>8, <1>9, <1>10, <1>11 DEF SessionFrame, RunsFrame
<1>13. TagInv(top)' /\ GuessInv(top)'
  BY <1>3, ReplayTags, ReplayGuess
<1>14. TypeOK'
  BY ReplayType DEF IInv
<1>15. SessionInv(top)'
  BY <1>6, <1>12, <1>13, <1>14, FrameSession DEF SessionInv
<1> QED
  BY <1>13, <1>15

(* A tick that only keeps the ring of saved states fresh.                   *)
LEMMA PacedSession ==
  ASSUME OrdinarySession, IInv, NEW top \in Int, TagInv(top), GuessInv(top),
         SessionInv(top), NEW x, TickPaced(x), UNCHANGED <<newest, phantom>>
  PROVE  (TagInv(top) /\ GuessInv(top) /\ SessionInv(top))'
<1>1. /\ UNCHANGED <<frame, delay_frames, inputVars, applied_tag, pending_rollback,
                     replay_remaining, failed, emu, real, trusted>>
      /\ ring' = SaveAt(RingNow, frame) \/ ring' = RingNow
  BY DEF TickPaced, MaintainRing, replayVars, ghostVars
<1>2. TagInv(top)'
  BY PacedTags
<1>3. PICK d \in Int : d = delay_frames
  BY DEF IInv, TypeOK
<1>4. GuessInv(top)'
  BY <1>1, <1>3, QuietGuess
<1>5. SavedWithin(ring', top)
  <2>1. SavedWithin(RingNow, top) /\ RingNow \in RingType /\ frame \in Nat /\ frame <= top + 1
    BY RingNowWithin DEF TagInv, SessionInv, HasBegun, IInv, TypeOK
  <2>2. \A i \in 0..MaxFrames : \/ SaveAt(RingNow, frame)[i] = RingNow[i]
                                \/ SaveAt(RingNow, frame)[i].frame = frame
    BY <2>1 DEF SaveAt, RingType
  <2> QED
    BY <1>1, <2>1, <2>2 DEF SavedWithin
<1>6. SameDelay' /\ AllLive' /\ NewestIsNewest' /\ StallHolds(top)' /\ NotTooEarly(top)'
      /\ InPlace(top)' /\ OpenIsMissing(top)' /\ ~failed'
  BY <1>1 DEF SessionInv, SameDelay, AllLive, NewestIsNewest, StallHolds, NotTooEarly,
     InPlace, OpenIsMissing, HasInput, inputVars
<1>7. RanSettled' /\ RewindHasCause'
  BY <1>1 DEF SessionInv, RanSettled, RewindHasCause, RanZero, RanLocal, RanReceived,
     WrongAt, HasInput, Covered
<1> QED
  BY <1>2, <1>4, <1>5, <1>6, <1>7 DEF SessionInv

(***************************************************************************)
(* One input.                                                              *)
(***************************************************************************)

(* A missing input that was guessed can be corrected: the frame that used   *)
(* it first is saved, and no deeper than the window.                       *)
LEMMA RewindAccepted ==
  ASSUME OrdinarySession, IInv, NEW top \in Int, TagInv(top), SessionInv(top),
         NEW s \in Remote, NEW f \in 0..MaxFrame, ~HasInput(s, f), NEW g \in Suspect(f)
  PROVE  RollbackTarget(f) = f + InitDelay /\ Rewinds(f)
<1>1. PICK p \in Nat : p = RollbackTarget(f) /\ p \in Suspect(f)
  BY TargetLeast DEF Suspect
<1>2. /\ TypeOK /\ frame \in Nat /\ frame <= top + 1 /\ delay_frames = InitDelay
      /\ ring \in RingType /\ RingIndexed /\ p <= top /\ p < frame /\ p >= f
  <2>1. TypeOK /\ RingIndexed /\ frame \in Nat /\ ring \in RingType
    BY DEF IInv, TypeOK, RingType
  <2>2. p < frame /\ p >= f
    BY <1>1, <2>1 DEF Suspect
  <2>3. frame <= top + 1 /\ delay_frames = InitDelay
    BY DEF TagInv, HasBegun, SessionInv, SameDelay
  <2> QED
    BY <2>1, <2>2, <2>3
<1>3. top < f + InitDelay + VisibleCap
  BY DEF SessionInv, StallHolds
<1>4. ASSUME NEW h \in Nat, h >= f, h <= top PROVE Tagged(h) /\ TagOf(h) = h - InitDelay
  <2>1. Held(h, top)
    BY <1>3, <1>4, Sizes DEF Held, OrdinarySession
  <2>2. Tagged(h)
    BY <1>4, <2>1 DEF TagInv, TagsOf
  <2>3. h % InputRing \in Idx
    BY InputIndex
  <2> QED
    BY <2>2, <2>3 DEF SessionInv, SameDelay, Tagged, TagOf
<1>5. p >= f + InitDelay
  <2>1. TagOf(p) >= f
    BY <1>1, <1>2, <1>4 DEF Suspect, Tagged, TagOf
  <2> QED
    BY <1>2, <1>4, <2>1, Sizes
<1>6. p = f + InitDelay
  <2>1. PICK h \in Nat : h = f + InitDelay
    BY Sizes
  <2>2. h <= top /\ h >= f /\ h < frame /\ TagOf(h) >= f
    <3>1. h <= top /\ h >= f /\ h < frame
      BY <1>2, <1>5, <2>1, Sizes
    <3>2. TagOf(h) = h - InitDelay
      BY <1>4, <3>1
    <3> QED
      BY <2>1, <3>1, <3>2, Sizes
  <2>3. h \in Suspect(f)
    BY <1>2, <2>2 DEF Suspect, TagOf
  <2>4. RollbackTarget(f) \in 0..h
    BY <2>3, TargetLeast
  <2> QED
    BY <1>1, <1>5, <2>1, <2>4
<1>7. frame - p <= VisibleMax /\ frame - p <= MaxFrames
  BY <1>2, <1>3, <1>6, Sizes DEF VisibleMax, OrdinarySession
<1>8. RingHas(ring, p)
  <2>1. PICK q \in Int : q = ring[p % RingSize].frame
    <3>1. p % RingSize \in 0..MaxFrames
      BY RingIndex
    <3>2. ring[p % RingSize] \in [frame : Int, state : Seq(Vector)]
      BY <1>2, <3>1 DEF RingType
    <3> QED
      BY <3>2
  <2>2. p % RingSize \in 0..MaxFrames
    BY RingIndex
  <2>3. q >= p
    BY <1>2, <2>1 DEF TagInv, Saved
  <2>4. q <= top + 1
    BY <2>1, <2>2 DEF SessionInv, SavedWithin
  <2>5. q % RingSize = p % RingSize
    BY <1>2, <2>1, <2>2, <2>3 DEF RingIndexed
  <2>6. RingSize \in Nat \ {0} /\ q - p < RingSize
    BY <1>3, <1>6, <2>4, Sizes DEF RingSize, OrdinarySession
  <2>7. ASSUME p < q PROVE FALSE
    <3>1. p \in Int /\ q \in Int
      OBVIOUS
    <3>2. p % RingSize # q % RingSize
      BY <2>6, <2>7, <3>1, ModDistinct
    <3> QED
      BY <2>5, <3>2
  <2> QED
    BY <2>1, <2>3, <2>7 DEF RingHas
<1> QED
  BY <1>1, <1>6, <1>7, <1>8, Sizes DEF Rewinds

LEMMA ReceiveAccepted ==
  ASSUME OrdinarySession, IInv, NEW top \in Int, TagInv(top), GuessInv(top),
         SessionInv(top), NEW s \in Remote, NEW f \in 0..MaxFrame, NEW v \in RealInputs,
         ~HasInput(s, f), FeedInput(s, f, v)
  PROVE  ~failed' /\ RewindHasCause'
<1>1. /\ UNCHANGED <<frame, emu, delay_frames>> /\ CheckPrediction(s, f, v)
      /\ TypeOK /\ frame \in Nat /\ pending_rollback \in Int
  BY DEF FeedInput, IInv, TypeOK
<1>2. /\ real'[s][f] = v
      /\ \A r \in Remote, t \in 0..MaxFrame : r # s \/ t # f => real'[r][t] = real[r][t]
  BY <1>1, FeedExpected
<1>3. ASSUME NEW r \in Remote, NEW t \in 0..MaxFrame, HasInput(r, t)
      PROVE  HasInput(r, t)' /\ real'[r][t] = real[r][t]
  BY <1>2, <1>3 DEF HasInput
<1>4. RollbackTarget(f) # -1 => RollbackTarget(f) = f + InitDelay /\ Rewinds(f)
  <2>1. ASSUME RollbackTarget(f) # -1 PROVE \E g : g \in Suspect(f)
    BY <2>1 DEF RollbackTarget
  <2> QED
    BY <2>1, RewindAccepted
<1>5. ~failed'
  BY <1>1, <1>4 DEF CheckPrediction, SessionInv
<1>6. ASSUME NEW p \in Nat, p < frame, WrongAt(p) PROVE WrongAt(p)'
  <2>1. PICK r \in Remote : /\ p >= InitDelay /\ HasInput(r, p - InitDelay)
                            /\ emu[p+1][r] # real[r][p - InitDelay]
    BY <1>6 DEF WrongAt
  <2>2. p - InitDelay \in 0..MaxFrame
    <3>1. frame <= top + 1 /\ top < MaxFrame
      BY DEF TagInv, HasBegun
    <3> QED
      BY <1>1, <1>6, <2>1, <3>1, Sizes
  <2> QED
    BY <1>1, <1>3, <2>1, <2>2 DEF WrongAt
<1>7. pending_rollback >= 0 => pending_rollback < frame
  BY <1>1, Sizes DEF IInv, PendingRestorable
<1>8. CASE pending_rollback' = pending_rollback
  BY <1>1, <1>5, <1>6, <1>7, <1>8 DEF RewindHasCause, SessionInv
<1>9. CASE pending_rollback' # pending_rollback
  <2>1. PICK p \in Nat : p = f + InitDelay
    BY Sizes
  <2>2. /\ RollbackTarget(f) = p /\ pending_rollback' = p /\ Mispredicts(s, f, v)
        /\ pending_rollback < 0 \/ p < pending_rollback
    BY <1>1, <1>4, <1>9, <2>1 DEF CheckPrediction, Earliest
  <2>3. p < frame /\ ~Covered(p)
    <3>1. RollbackTarget(f) \in 0..frame-1
      BY <1>1, <2>2, TargetType
    <3> QED
      BY <1>1, <2>2, <3>1 DEF Covered
  <2>4. Tagged(p) /\ TagOf(p) = f /\ Held(f, top)
    <3>1. top < f + InitDelay + VisibleCap /\ p <= top
      BY <1>1, <2>3 DEF SessionInv, StallHolds, TagInv, HasBegun
    <3>2. Held(f, top) /\ Held(p, top)
      BY <2>1, <3>1, Sizes DEF Held, OrdinarySession
    <3>3. Tagged(p)
      BY <3>1, <3>2 DEF TagInv, TagsOf
    <3>4. p % InputRing \in Idx
      BY InputIndex
    <3> QED
      BY <2>1, <3>2, <3>3, <3>4, Sizes DEF SessionInv, SameDelay, Tagged, TagOf
  <2>5. emu[p+1][s] = Expected(s, f)
    <3>1. RanExpected(top) /\ s \in trusted
      BY DEF GuessInv, SessionInv, AllLive
    <3>2. p \in 0..frame-1
      BY <1>1, <2>3
    <3> QED
      BY <2>3, <2>4, <3>1, <3>2 DEF RanExpected
  <2>6. emu[p+1][s] # v
    BY <2>2, <2>5 DEF Mispredicts, Expected
  <2>7. p >= InitDelay /\ p - InitDelay = f
    BY <2>1, Sizes
  <2>8. HasInput(s, f)'
    BY <1>2, InputAssumption DEF HasInput
  <2>9. WrongAt(p)'
    BY <1>1, <1>2, <2>6, <2>7, <2>8 DEF WrongAt
  <2> QED
    BY <1>5, <2>2, <2>9 DEF RewindHasCause
<1> QED
  BY <1>8, <1>9

(* The places of the input ring after a missing input arrived.              *)
LEMMA ReceivePlaces ==
  ASSUME OrdinarySession, TypeOK, NEW top \in Int, HasBegun(top), SessionInv(top),
         NEW s0 \in Remote, NEW f0 \in 0..MaxFrame, NEW v \in RealInputs,
         ~HasInput(s0, f0), FeedInput(s0, f0, v)
  PROVE  NotTooEarly(top)' /\ InPlace(top)' /\ OpenIsMissing(top)'
<1>1. /\ real'[s0][f0] = v /\ ~Checked(s0, f0)'
      /\ inputs'[s0][f0 % InputRing].frame = f0
  BY FeedExpected
<1>2. \A r \in Remote, t \in 0..MaxFrame : r # s0 \/ t # f0 => real'[r][t] = real[r][t]
  BY FeedExpected
<1>3. \A r \in Remote, i \in Idx : r # s0 \/ i # f0 % InputRing => inputs'[r][i] = inputs[r][i]
  BY FeedExpected
<1>4. f0 <= top + 1 + InitDelay + FutureMargin
  <2>1. frame <= top + 1 /\ delay_frames = InitDelay /\ frame \in Nat
        /\ f0 <= frame + delay_frames + FutureMargin
    BY DEF HasBegun, SessionInv, SameDelay, FeedInput, TypeOK
  <2> QED
    BY <2>1, Sizes
<1>5. top < f0 + InitDelay + VisibleCap
  BY DEF SessionInv, StallHolds
<1>6. NotTooEarly(top)'
  <2> SUFFICES ASSUME NEW r \in Remote, NEW t \in 0..MaxFrame, HasInput(r, t)'
               PROVE  t <= top + 1 + InitDelay + FutureMargin
    BY DEF NotTooEarly
  <2>1. t = f0 \/ HasInput(r, t)
    BY <1>2 DEF HasInput
  <2> QED
    BY <1>4, <2>1 DEF SessionInv, NotTooEarly
<1>7. InPlace(top)'
  <2> SUFFICES ASSUME NEW r \in Remote, NEW t \in 0..MaxFrame, HasInput(r, t)',
                      t >= top - MaxFrames - InitDelay
               PROVE  inputs'[r][t % InputRing].frame = t
    BY DEF InPlace
  <2>1. CASE r = s0 /\ t = f0
    BY <1>1, <2>1
  <2>2. CASE r # s0 \/ t # f0
    <3>1. HasInput(r, t) /\ t % InputRing \in Idx
      BY <1>2, <2>2, InputIndex DEF HasInput
    <3>2. inputs[r][t % InputRing].frame = t
      BY <3>1 DEF SessionInv, InPlace
    <3>3. t <= top + 1 + InitDelay + FutureMargin
      BY <3>1 DEF SessionInv, NotTooEarly
    <3>4. t - f0 < InputRing /\ f0 - t < InputRing
      BY <1>4, <1>5, <3>3, Sizes DEF OrdinarySession
    <3>5. r # s0 \/ t % InputRing # f0 % InputRing
      BY <2>2, <3>4, NearDistinct
    <3> QED
      BY <1>3, <3>1, <3>2, <3>5
  <2> QED
    BY <2>1, <2>2
<1>8. OpenIsMissing(top)'
  <2> SUFFICES ASSUME NEW s \in Remote, NEW i \in Idx, predicted'[s][i].on
               PROVE  /\ predicted'[s][i].frame \in 0..MaxFrame
                      /\ predicted'[s][i].frame <= top
                      /\ predicted'[s][i].frame % InputRing = i
                      /\ real'[s][predicted'[s][i].frame] = NoInput
    BY DEF OpenIsMissing, HasInput
  <2>1. predicted[s][i].on /\ predicted'[s][i].frame = predicted[s][i].frame
    <3>1. predicted' = IF Checked(s0, f0)
                       THEN [predicted EXCEPT ![s0][f0 % InputRing].on = FALSE]
                       ELSE predicted
      BY DEF FeedInput, CheckPrediction
    <3>2. predicted \in [Slots -> [Idx -> [on : BOOLEAN, frame : Int, in : Input]]]
          /\ s \in Slots
      BY DEF TypeOK, Slots
    <3> QED
      BY <3>1, <3>2
  <2>2. PICK t : t = predicted[s][i].frame
    OBVIOUS
  <2>3. t \in 0..MaxFrame /\ t <= top /\ t % InputRing = i /\ ~HasInput(s, t)
    BY <2>1, <2>2 DEF SessionInv, OpenIsMissing
  <2>4. s # s0 \/ t # f0
    <3>1. s = s0 /\ t = f0 => Checked(s0, f0)'
      BY <2>1, <2>2, <2>3 DEF Checked
    <3> QED
      BY <1>1, <3>1
  <2>5. real'[s][t] = real[s][t]
    BY <1>2, <2>3, <2>4
  <2>6. ~HasInput(s, t)'
    BY <2>3, <2>5 DEF HasInput
  <2> QED
    BY <2>1, <2>2, <2>3, <2>6 DEF HasInput
<1> QED
  BY <1>6, <1>7, <1>8

LEMMA ReceiveSettles ==
  ASSUME OrdinarySession, IInv, NEW top \in Int, TagInv(top), SessionInv(top),
         NEW s0 \in Remote, NEW f0 \in 0..MaxFrame, NEW v \in RealInputs,
         ~HasInput(s0, f0), FeedInput(s0, f0, v), RanExpected(top)'
  PROVE  RanSettled'
<1>1. /\ UNCHANGED <<frame, emu, applied_tag, trusted>> /\ TypeOK /\ frame \in Nat
      /\ frame <= top + 1 /\ trusted = Remote /\ top < MaxFrame
  BY DEF FeedInput, IInv, TypeOK, SessionInv, AllLive, TagInv, HasBegun
<1>2. /\ real'[s0][f0] = v /\ Expected(s0, f0)' = v
  BY <1>1, FeedExpected
<1>3. \A r \in Remote, t \in 0..MaxFrame : r # s0 \/ t # f0 => real'[r][t] = real[r][t]
  BY <1>1, FeedExpected
<1>4. \A g \in Nat : Covered(g) => Covered(g)'
  BY <1>1, FeedCovers
<1>5. top < f0 + InitDelay + VisibleCap
  BY DEF SessionInv, StallHolds
<1> SUFFICES ASSUME NEW g \in Nat, g < frame PROVE RanZero(g)' /\ RanLocal(g)' /\ RanReceived(g)'
  BY <1>1 DEF RanSettled
<1>6. RanZero(g) /\ RanLocal(g) /\ RanReceived(g)
  BY DEF SessionInv, RanSettled
<1>7. RanZero(g)' /\ RanLocal(g)'
  BY <1>1, <1>6 DEF RanZero, RanLocal
<1>8. RanReceived(g)'
  <2>1. PICK t \in Int : t = g - InitDelay
    BY Sizes
  <2> SUFFICES ASSUME t >= 0, NEW s \in Remote, HasInput(s, t)'
               PROVE  Covered(g)' \/ emu[g+1][s] = real'[s][t]
    BY <1>1, <2>1, Sizes DEF RanReceived
  <2>2. t \in 0..MaxFrame /\ g <= top /\ g >= InitDelay
    BY <1>1, <2>1, Sizes
  <2>3. CASE s # s0 \/ t # f0
    <3>1. HasInput(s, t) /\ real'[s][t] = real[s][t]
      BY <1>3, <2>2, <2>3 DEF HasInput
    <3>2. Covered(g) \/ emu[g+1][s] = real[s][t]
      BY <1>6, <2>1, <2>2, <3>1 DEF RanReceived
    <3> QED
      BY <1>4, <3>1, <3>2
  <2>4. CASE s = s0 /\ t = f0
    <3>1. Held(t, top) /\ Held(g, top)
      BY <1>5, <2>1, <2>4, Sizes DEF Held, OrdinarySession
    <3>2. Tagged(g)
      BY <2>2, <3>1 DEF TagInv, TagsOf
    <3>3. g % InputRing \in Idx
      BY InputIndex
    <3>4. Tagged(g)' /\ TagOf(g)' = t
      BY <1>1, <2>1, <3>2, <3>3 DEF SessionInv, SameDelay, Tagged, TagOf
    <3>5. g \in 0..frame-1
      BY <1>1
    <3>6. Covered(g)' \/ emu[g+1][s] = Expected(s, t)'
      BY <1>1, <3>1, <3>4, <3>5 DEF RanExpected
    <3> QED
      BY <1>2, <2>4, <3>6
  <2> QED
    BY <2>3, <2>4
<1> QED
  BY <1>7, <1>8

LEMMA ReceiveSession ==
  ASSUME OrdinarySession, IInv, NEW top \in Int, TagInv(top), GuessInv(top),
         SessionInv(top), NEW s \in Remote, NEW f \in 0..MaxFrame, NEW v \in RealInputs,
         Receive(s, f, v)
  PROVE  (TagInv(top) /\ GuessInv(top) /\ SessionInv(top))'
<1>1. /\ FeedInput(s, f, v) /\ ~HasInput(s, f)
      /\ newest' = [newest EXCEPT ![s] = IF f > @ THEN f ELSE @]
      /\ phantom' = IF f > newest[s] THEN phantom \ {s} ELSE phantom
      /\ UNCHANGED <<delay_frames, applied_tag, ring, trusted>>
  BY DEF Receive, FeedInput, ringVars
<1>2. TagInv(top)' /\ GuessInv(top)'
  BY <1>1, FeedTags, FeedGuess
<1>3. ~failed' /\ RewindHasCause'
  BY <1>1, ReceiveAccepted
<1>4. RanExpected(top)'
  BY <1>2, <1>3 DEF GuessInv
<1>5. RanSettled'
  BY <1>1, <1>4, ReceiveSettles
<1>6. NotTooEarly(top)' /\ InPlace(top)' /\ OpenIsMissing(top)'
  BY <1>1, ReceivePlaces DEF IInv, TagInv
<1>7. SameDelay' /\ AllLive' /\ SavedWithin(ring', top)
  BY <1>1 DEF SessionInv, SameDelay, AllLive, SavedWithin
<1>8. \A r \in Remote, t \in 0..MaxFrame : /\ HasInput(r, t) => HasInput(r, t)'
                                           /\ HasInput(s, f)'
                                           /\ HasInput(r, t)' => HasInput(r, t) \/ (r = s /\ t = f)
  <2>1. TypeOK
    BY DEF IInv
  <2>2. real'[s][f] = v
    BY <1>1, <2>1, FeedExpected
  <2>3. \A r \in Remote, t \in 0..MaxFrame : r # s \/ t # f => real'[r][t] = real[r][t]
    BY <1>1, <2>1, FeedExpected
  <2> QED
    BY <2>2, <2>3, InputAssumption DEF HasInput
<1>9. StallHolds(top)'
  BY <1>8 DEF SessionInv, StallHolds
<1>10. NewestIsNewest'
  <2>1. newest \in [Remote -> 0..MaxFrame]
    BY DEF SessionInv, NewestIsNewest
  <2>2. newest' \in [Remote -> 0..MaxFrame]
    BY <1>1, <2>1
  <2> SUFFICES ASSUME NEW r \in Remote
               PROVE  /\ real'[r][newest'[r]] # NoInput
                      /\ \A t \in 0..MaxFrame : HasInput(r, t)' => t <= newest'[r]
    BY <2>2 DEF NewestIsNewest, HasInput
  <2>3. PICK n \in 0..MaxFrame : n = newest[r] /\ HasInput(r, n)
                                 /\ \A t \in 0..MaxFrame : HasInput(r, t) => t <= n
    BY <2>1 DEF SessionInv, NewestIsNewest
  <2>4. PICK m \in 0..MaxFrame : m = newest'[r]
    BY <2>2
  <2>5. m = IF r = s /\ f > n THEN f ELSE n
    BY <1>1, <2>1, <2>3, <2>4
  <2>6. HasInput(r, m)' /\ \A t \in 0..MaxFrame : HasInput(r, t)' => t <= m
    BY <1>8, <2>3, <2>5
  <2> QED
    BY <2>4, <2>6 DEF HasInput
<1> QED
  BY <1>2, <1>3, <1>5, <1>6, <1>7, <1>9, <1>10 DEF SessionInv

(***************************************************************************)
(* The session.                                                            *)
(***************************************************************************)

SessionInvariant ==
  IInv /\ SessionTypeOK /\ \E top \in Int : TagInv(top) /\ GuessInv(top) /\ SessionInv(top)

LEMMA InitSession ==
  ASSUME OrdinarySession, SessionInit
  PROVE  SessionInvariant
<1>1. Init /\ Remote = Backfilled /\ TrueRollback
  BY DEF SessionInit, OrdinarySession
<1>2. IInv /\ TagInv(-1) /\ GuessInv(-1)
  BY <1>1, InitInv, InitTags, InitGuess
<1>3. /\ frame = 0 /\ delay_frames = InitDelay /\ trusted = Backfilled /\ failed = FALSE
      /\ inputs = [s \in Slots |-> [i \in Idx |->
           IF s \in Backfilled /\ i = 0 THEN [frame |-> 0, in |-> real[s][0]] ELSE Absent]]
      /\ predicted = [s \in Slots |-> [i \in Idx |-> NoGuess]]
      /\ applied_tag = [i \in Idx |-> [frame |-> -1, tag |-> 0]]
      /\ ring = [i \in 0..MaxFrames |-> [frame |-> -1, state |-> <<>>]]
      /\ pending_rollback = -1
  BY <1>1 DEF Init
<1>4. /\ newest = [s \in Remote |-> 0] /\ phantom = {} /\ adv = 0 /\ throttled = FALSE
  BY <1>1 DEF SessionInit
<1>5. \A s \in Remote, t \in 0..MaxFrame : HasInput(s, t) <=> t = 0
  <2>1. PICK first \in [Backfilled -> RealInputs] :
          real = [s \in Remote |-> [f \in 0..MaxFrame |->
                    IF s \in Backfilled /\ f = 0 THEN first[s] ELSE NoInput]]
    BY <1>1 DEF Init
  <2>2. \A s \in Remote : first[s] # NoInput
    BY <1>1, <2>1, InputAssumption
  <2> QED
    BY <1>1, <2>1, <2>2 DEF HasInput
<1>6. 0 \in 0..MaxFrame /\ 0 % InputRing = 0 /\ 0 \in Idx
  BY Sizes DEF Idx
<1>7. SameDelay /\ AllLive /\ ~failed /\ RewindHasCause /\ RanSettled
  BY <1>1, <1>3, <1>4 DEF SameDelay, AllLive, RewindHasCause, RanSettled
<1>8. NewestIsNewest
  BY <1>4, <1>5, <1>6 DEF NewestIsNewest
<1>9. StallHolds(-1) /\ NotTooEarly(-1)
  BY <1>5, Sizes DEF StallHolds, NotTooEarly
<1>10. InPlace(-1)
  <2>1. \A s \in Remote : inputs[s][0].frame = 0
    BY <1>1, <1>3, <1>6 DEF Slots
  <2> QED
    BY <1>5, <1>6, <2>1 DEF InPlace
<1>11. OpenIsMissing(-1)
  <2>1. \A s \in Remote, i \in Idx : predicted[s][i].on = FALSE
    BY <1>3 DEF Slots, NoGuess
  <2> QED
    BY <2>1 DEF OpenIsMissing
<1>12. SavedWithin(ring, -1)
  BY <1>3 DEF SavedWithin
<1>13. SessionInv(-1)
  BY <1>7, <1>8, <1>9, <1>10, <1>11, <1>12 DEF SessionInv
<1>14. SessionTypeOK
  <2>1. TypeOK
    BY <1>2 DEF IInv
  <2>2. newest \in [Remote -> -1..MaxFrame]
    BY <1>4, Sizes
  <2>3. phantom \subseteq Remote /\ adv \in Int
    BY <1>4
  <2>4. throttled \in BOOLEAN
    BY <1>4, Zenon
  <2> QED
    BY <2>1, <2>2, <2>3, <2>4, Zenon DEF SessionTypeOK
<1> QED
  BY <1>2, <1>13, <1>14 DEF SessionInvariant

(* The advantage is measured over the slowest live peer.                    *)
LEMMA AdvType ==
  ASSUME SessionTypeOK
  PROVE  AdvNow \in Int
<1>1. adv \in Int /\ frame \in Int
  BY DEF SessionTypeOK, TypeOK
<1>2. ASSUME Live # {} PROVE Slowest \in Int
  <2>1. \A s \in Live : newest[s] \in -1..MaxFrame
    BY DEF SessionTypeOK, Live
  <2> DEFINE N == {newest[s] + 1 : s \in Live}
  <2>2. N \subseteq Nat /\ N # {}
    BY <1>2, <2>1, Sizes
  <2>3. PICK m \in N : \A n \in N : m <= n
    BY <2>2, LeastNat
  <2>4. PICK r \in Live : m = newest[r] + 1
    BY <2>3
  <2>5. ASSUME NEW s \in Live PROVE newest[r] <= newest[s]
    <3>1. newest[s] \in Int /\ newest[r] \in Int
      BY <2>1, <2>4, Sizes
    <3>2. newest[s] + 1 \in N
      OBVIOUS
    <3>3. m <= newest[s] + 1
      BY <2>3, <3>2
    <3> QED
      BY <2>4, <3>1, <3>3
  <2>6. \E n \in {newest[s] : s \in Live} : \A s \in Live : n <= newest[s]
    BY <2>5
  <2>7. Slowest \in {newest[s] : s \in Live}
    BY <2>6 DEF Slowest
  <2> QED
    BY <2>1, <2>7, Sizes
<1> QED
  BY <1>1, <1>2 DEF AdvNow

LEMMA NextSession ==
  ASSUME OrdinarySession
  PROVE  SessionInvariant /\ [SessionNext]_sessionVars => SessionInvariant'
<1> SUFFICES ASSUME SessionInvariant, [SessionNext]_sessionVars PROVE SessionInvariant'
  OBVIOUS
<1>1. PICK top \in Int : TagInv(top) /\ GuessInv(top) /\ SessionInv(top)
  BY DEF SessionInvariant
<1>2. IInv /\ SessionTypeOK /\ Live = Remote /\ Remote # {} /\ MayPhantom = {}
  BY <1>1 DEF SessionInvariant, SessionInv, AllLive, Live, OrdinarySession
<1>3. AdvNow \in Int
  BY <1>2, AdvType
<1> DEFINE Holds == IInv' /\ SessionTypeOK'
                    /\ \E n \in Int : (TagInv(n) /\ GuessInv(n) /\ SessionInv(n))'
<1>4. ASSUME NEW stepped \in BOOLEAN, RunFrame(stepped) PROVE Holds
  <2>1. PICK x : x = AdvNow + AdvBias
    OBVIOUS
  <2>2. /\ replay_remaining > 0 \/ \A s \in Remote : ~Stalls(s)
        /\ adv' = AdvNow /\ UNCHANGED <<newest, phantom>> /\ throttled' \in BOOLEAN
        /\ TickReplay(x, stepped) \/ TickNormal(x, stepped) \/ TickPaced(x)
    BY <1>2, <1>4, <2>1 DEF RunFrame
  <2>3. CASE TickReplay(x, stepped)
    <3>1. IInv'
      BY <1>2, <2>3, ReplayInv
    <3>2. (TagInv(top) /\ GuessInv(top) /\ SessionInv(top))'
      BY <1>1, <1>2, <2>2, <2>3, ReplaySession
    <3> QED
      BY <1>2, <1>3, <2>2, <3>1, <3>2 DEF SessionTypeOK, IInv
  <2>4. CASE TickNormal(x, stepped)
    <3>1. IInv'
      BY <1>2, <2>4, NormalInv
    <3>2. replay_remaining = 0
      BY <1>2, <2>4, NormalRuns
    <3>3. \A s \in Remote : ~Stalls(s)
      BY <2>2, <3>2
    <3>4. PICK f \in Nat : f = frame
      BY <1>2 DEF IInv, TypeOK
    <3>5. (TagInv(NewTop(top, f)) /\ GuessInv(NewTop(top, f)) /\ SessionInv(NewTop(top, f)))'
      BY <1>1, <1>2, <2>2, <2>4, <3>3, <3>4, NormalSession
    <3>6. NewTop(top, f) \in Int
      BY DEF NewTop
    <3> QED
      BY <1>2, <1>3, <2>2, <3>1, <3>5, <3>6 DEF SessionTypeOK, IInv
  <2>5. CASE TickPaced(x)
    <3>1. IInv'
      BY <1>2, <2>5, PacedInv
    <3>2. (TagInv(top) /\ GuessInv(top) /\ SessionInv(top))'
      BY <1>1, <1>2, <2>2, <2>5, PacedSession
    <3> QED
      BY <1>2, <1>3, <2>2, <3>1, <3>2 DEF SessionTypeOK, IInv
  <2> QED
    BY <2>2, <2>3, <2>4, <2>5
<1>5. ASSUME NEW s \in Remote, NEW f \in 0..MaxFrame, NEW v \in RealInputs, Receive(s, f, v)
      PROVE  Holds
  <2>1. IInv'
    BY <1>2, <1>5, FeedInv DEF Receive
  <2>2. (TagInv(top) /\ GuessInv(top) /\ SessionInv(top))'
    BY <1>1, <1>2, <1>5, ReceiveSession
  <2>3. adv' = adv /\ throttled' = throttled
    BY <1>5 DEF Receive
  <2>4. SessionTypeOK'
    <3>1. newest' \in [Remote -> -1..MaxFrame] /\ phantom' = {}
      BY <2>2, Sizes DEF SessionInv, NewestIsNewest, AllLive
    <3> QED
      BY <1>2, <2>1, <2>3, <3>1 DEF SessionTypeOK, IInv
  <2> QED
    BY <2>1, <2>2, <2>4
<1>6. ASSUME NEW s \in Remote, BecomesPhantom(s) PROVE Holds
  BY <1>2, <1>6 DEF BecomesPhantom
<1>7. ASSUME UNCHANGED sessionVars PROVE Holds
  <2>1. UNCHANGED vars /\ UNCHANGED <<newest, phantom, adv, throttled>>
    BY <1>7 DEF sessionVars, peerVars
  <2>2. IInv'
    BY <1>2, <2>1, NextInv
  <2>3. UNCHANGED <<frame, delay_frames, inputs, predicted, last_known, prev_known,
                    slot_active, applied_tag, ring, pending_rollback,
                    replay_remaining, failed, emu, real, trusted>>
    BY <2>1 DEF vars, inputVars, ringVars, replayVars, ghostVars
  <2>4. TagInv(top)'
    BY <1>1, <2>3, QuietTags DEF TagInv
  <2>5. PICK d \in Int : d = delay_frames
    BY <1>2 DEF IInv, TypeOK
  <2>6. GuessInv(top)'
    BY <1>1, <1>2, <2>3, <2>5, QuietGuess DEF inputVars
  <2>7. SessionInv(top)'
    BY <1>1, <2>1, <2>3 DEF SessionInv, SameDelay, AllLive, NewestIsNewest, StallHolds,
       NotTooEarly, InPlace, OpenIsMissing, HasInput, RanSettled, RewindHasCause, RanZero,
       RanLocal, RanReceived, WrongAt, Covered
  <2>8. SessionTypeOK'
    BY <1>2, <2>1, <2>2 DEF SessionTypeOK, IInv
  <2> QED
    BY <2>2, <2>4, <2>6, <2>7, <2>8
<1>8. Holds
  BY <1>4, <1>5, <1>6, <1>7 DEF SessionNext, StallTimeout, PacingTimeout, PeerDead
<1> QED
  BY <1>8 DEF SessionInvariant

(* The inductive invariant of the session: one delay, what is buffered, fed *)
(* and guessed, and the stall that keeps the guessed frames in the window.  *)
THEOREM SessionInvariance ==
  ASSUME OrdinarySession
  PROVE  SessionSpec => []SessionInvariant
<1>1. SessionInit => SessionInvariant
  BY InitSession
<1> QED
  BY <1>1, NextSession, PTL DEF SessionSpec

(* "Stall before any unconfirmed input can get that old": whatever the      *)
(* network loses or reorders and however replays, preemptions and ticks     *)
(* interleave, no misprediction is given up; and a rewind never goes back   *)
(* further than to a frame that did run with a wrong input.                *)
THEOREM RewindsRight ==
  ASSUME OrdinarySession
  PROVE  SessionSpec => []RewindsAreRight
<1>1. SessionInvariant => RewindsAreRight
  <2> SUFFICES ASSUME SessionInvariant PROVE RewindsAreRight
    OBVIOUS
  <2>1. PICK top \in Int : TagInv(top) /\ GuessInv(top) /\ SessionInv(top)
    BY DEF SessionInvariant
  <2>2. NothingGivenUp /\ SessionTypeOK
    BY <2>1 DEF SessionInvariant, SessionInv, NothingGivenUp
  <2>3. RewindIsNeeded
    <3> SUFFICES ASSUME pending_rollback >= 0
                 PROVE  \E s \in Remote : ~RanReal(s, pending_rollback)
      BY DEF RewindIsNeeded
    <3>1. pending_rollback \in Int /\ frame \in Nat /\ IInv
      BY DEF SessionInvariant, IInv, TypeOK
    <3>2. PICK p \in Nat : p = pending_rollback
      BY <3>1
    <3>3. PICK s \in Remote : /\ p >= InitDelay /\ HasInput(s, p - InitDelay)
                              /\ emu[p+1][s] # real[s][p - InitDelay]
      BY <2>1, <3>2 DEF SessionInv, RewindHasCause, WrongAt
    <3>4. p < frame /\ RingHas(ring, p)
      BY <3>1, <3>2, Sizes DEF IInv, PendingRestorable
    <3>5. p <= top /\ frame <= top + 1 /\ top >= -1
      BY <2>1, <3>1, <3>4 DEF TagInv, HasBegun
    <3>6. p >= top - MaxFrames
      <4>1. ring \in RingType
        BY <3>1 DEF IInv, TypeOK, RingType
      <4> QED
        BY <2>1, <3>4, <3>5, <4>1, SavedIsRecent DEF TagInv
    <3>7. Held(p, top)
      BY <3>6, Sizes DEF Held, OrdinarySession
    <3>8. Tagged(p)
      BY <2>1, <3>5, <3>7 DEF TagInv, TagsOf
    <3>9. p % InputRing \in Idx
      BY InputIndex
    <3>10. TagOf(p) = p - InitDelay
      BY <2>1, <3>8, <3>9 DEF SessionInv, SameDelay, Tagged, TagOf
    <3>11. ~RanReal(s, p)
      BY <3>3, <3>10, Sizes DEF RanReal, HasInput
    <3> QED
      BY <3>2, <3>11
  <2> QED
    BY <2>2, <2>3 DEF RewindsAreRight
<1> QED
  BY <1>1, SessionInvariance, PTL

(* The peers stay together, for as long as the match lasts: once the inputs *)
(* of a frame have arrived and no rewind to it is due, the frame ran with   *)
(* exactly the inputs its players produced.                                *)
THEOREM ConfirmedAgree ==
  ASSUME OrdinarySession
  PROVE  SessionSpec => []ConfirmedFramesAgree
<1>1. SessionInvariant => ConfirmedFramesAgree
  <2> SUFFICES ASSUME SessionInvariant, NEW f \in 0..frame-1,
                      \A s \in Remote : f >= delay_frames => HasInput(s, f - delay_frames),
                      ~Covered(f)
               PROVE  emu[f+1] = Agreed(f)
    BY DEF ConfirmedFramesAgree, Covered
  <2>1. PICK top \in Int : TagInv(top) /\ GuessInv(top) /\ SessionInv(top)
    BY DEF SessionInvariant
  <2>2. /\ delay_frames = InitDelay /\ frame \in Nat /\ emu \in Seq(Vector)
        /\ Len(emu) = frame
    BY <2>1 DEF SessionInv, SameDelay, SessionInvariant, IInv, TypeOK, LengthIsFrame
  <2>3. RanZero(f) /\ RanLocal(f) /\ RanReceived(f)
    <3>1. f \in Nat /\ f < frame
      BY <2>2
    <3> QED
      BY <2>1, <3>1 DEF SessionInv, RanSettled
  <2>4. CASE f < InitDelay
    BY <2>2, <2>3, <2>4 DEF RanZero, Agreed
  <2>5. CASE f >= InitDelay
    <3>1. emu[f+1] \in Vector
      <4>1. f+1 \in 1..Len(emu)
        BY <2>2
      <4> QED
        BY <2>2, <4>1
    <3>2. \A s \in Slots : emu[f+1][s] = IF s = Local THEN LocalInput[f - InitDelay]
                                         ELSE real[s][f - InitDelay]
      BY <2>2, <2>3, <2>5 DEF RanLocal, RanReceived, Slots
    <3>3. Agreed(f) = [s \in Slots |-> IF s = Local THEN LocalInput[f - InitDelay]
                                       ELSE real[s][f - InitDelay]]
      <4>1. ~(f < InitDelay)
        BY <2>5, Sizes
      <4> QED
        BY <2>2, <4>1 DEF Agreed
    <3> QED
      BY <3>1, <3>2, <3>3 DEF Vector
  <2> QED
    BY <2>4, <2>5, Sizes
<1> QED
  BY <1>1, SessionInvariance, PTL

=============================================================================
