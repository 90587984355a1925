------------------------ MODULE RollbackResyncProofs ------------------------
(***************************************************************************)
(* Proofs about RollbackResync, for every value of its constants.  A load  *)
(* puts another timeline's state over the emulator, so the ring no longer  *)
(* holds states of the current timeline and IInv of RollbackEngine does    *)
(* not survive it.  What does survive is Core: every state is as long as   *)
(* the frame it is filed under, whichever timeline it is of.               *)
(***************************************************************************)
EXTENDS RollbackResync, RollbackEngineProofs

Core == /\ TypeOK /\ LengthIsFrame /\ RingIndexed /\ RingLengths
        /\ EndpointAfterReplay /\ ReplayDepthHonest /\ ReplayBounded
        /\ PendingRestorable

(* Every saved state of ring r is of the frame it is filed under. *)
Fits(r) == \A i \in 0..MaxFrames : r[i].frame >= 0 => Len(r[i].state) = r[i].frame

(* The part of the guest that its engine's tick and its inputs do not touch. *)
SyncTypeOK ==
  /\ target \in Int /\ awaiting \in BOOLEAN
  /\ pendingState \in [frame : Int, state : Seq(Vector), held : BOOLEAN]
  /\ lastApplied \in Int /\ loaded \in Seq(Vector)
  /\ requests \in 0..MaxRequests /\ arrivals \in 0..MaxArrivals

(* The inductive invariant, CountersAgree /\ EngineSound in other words. *)
ResyncInv == Core /\ SyncTypeOK /\ StateFits /\ jsFrame = frame

(***************************************************************************)
(* The ring.                                                               *)
(***************************************************************************)

(* Saving a state of length f under frame f. *)
LEMMA SaveFits ==
  ASSUME NEW r \in RingType, NEW f \in Nat, NEW e \in Seq(Vector), Len(e) = f,
         Indexed(r), Fits(r)
  PROVE  LET saved == [r EXCEPT ![f % RingSize] = [frame |-> f, state |-> e]]
         IN Indexed(saved) /\ Fits(saved)
<1> DEFINE saved == [r EXCEPT ![f % RingSize] = [frame |-> f, state |-> e]]
<1>1. f % RingSize \in 0..MaxFrames
  BY RingIndex
<1>2. /\ saved[f % RingSize] = [frame |-> f, state |-> e]
      /\ \A i \in 0..MaxFrames : i # f % RingSize => saved[i] = r[i]
  BY <1>1 DEF RingType
<1> HIDE DEF saved
<1>3. Indexed(saved) /\ Fits(saved)
  BY <1>1, <1>2 DEF Indexed, Fits
<1> QED
  BY <1>3 DEF saved

(* The ring after the deferred save of a replay's endpoint. *)
LEMMA RingNowFits ==
  ASSUME Core
  PROVE  /\ RingNow \in RingType /\ Indexed(RingNow) /\ Fits(RingNow)
         /\ \A g \in Nat : g < frame /\ frame - g <= MaxFrames /\ RingHas(ring, g)
              => RingHas(RingNow, g)
<1>1. ring \in RingType /\ frame \in Nat /\ emu \in Seq(Vector) /\ Len(emu) = frame
      /\ Indexed(ring) /\ Fits(ring)
  BY DEF Core, TypeOK, RingType, LengthIsFrame, RingIndexed, RingLengths, Indexed, Fits
<1>2. RingNow \in RingType
  BY RingNowType DEF Core
<1>3. CASE SavesEndpoint
  <2>1. RingNow = [ring EXCEPT ![frame % RingSize] = [frame |-> frame, state |-> emu]]
    BY <1>3 DEF RingNow, SaveAt
  <2>2. Indexed(RingNow) /\ Fits(RingNow)
    BY <1>1, <2>1, SaveFits
  <2>3. \A g \in Nat : g < frame /\ frame - g <= MaxFrames /\ RingHas(ring, g)
              => RingHas(RingNow, g)
    BY <1>1, <2>1, SaveKeepsFrame
  <2> QED
    BY <1>2, <2>2, <2>3
<1>4. CASE ~SavesEndpoint
  BY <1>1, <1>4 DEF RingNow
<1> QED
  BY <1>3, <1>4

(***************************************************************************)
(* The engine's own actions, one lemma each.                               *)
(***************************************************************************)

LEMMA PacedCore ==
  ASSUME Core, NEW adv \in FrameAdvantages, TickPaced(adv)
  PROVE  Core'
<1> DEFINE saved == [RingNow EXCEPT ![frame % RingSize] =
                       [frame |-> frame, state |-> emu]]
<1>1. TypeOK'
  BY PacedType DEF Core
<1>2. /\ UNCHANGED <<frame, emu, pending_rollback, replay_remaining, replay_depth,
                     replay_start>>
      /\ pending_rollback < 0 /\ replay_remaining = 0
      /\ frame \in Nat /\ emu \in Seq(Vector) /\ Len(emu) = frame
  BY DEF TickPaced, Paces, replayVars, Core, TypeOK, LengthIsFrame
<1>3. ~endpoint_save_pending'
  BY Zenon DEF TickPaced
<1>4. ring' = RingNow \/ ring' = saved
  BY DEF TickPaced, MaintainRing, SaveAt
<1>5. Indexed(saved) /\ Fits(saved)
  BY <1>2, RingNowFits, SaveFits
<1> HIDE DEF saved
<1>6. LengthIsFrame' /\ RingIndexed' /\ RingLengths'
  BY <1>2, <1>4, <1>5, RingNowFits
  DEF LengthIsFrame, RingIndexed, RingLengths, Indexed, Fits
<1>7. EndpointAfterReplay' /\ ReplayBounded' /\ PendingRestorable'
  <2>1. pending_rollback' \in Int /\ pending_rollback' < 0 /\ replay_remaining' = 0
    BY <1>1, <1>2 DEF TypeOK
  <2> QED
    BY <1>3, <2>1 DEF EndpointAfterReplay, ReplayBounded, PendingRestorable
<1>8. ReplayDepthHonest'
  BY <1>2 DEF Core, ReplayDepthHonest
<1> QED
  BY <1>1, <1>6, <1>7, <1>8 DEF Core

LEMMA NormalCore ==
  ASSUME Core, NEW adv \in FrameAdvantages, NEW stepped \in BOOLEAN,
         TickNormal(adv, stepped)
  PROVE  Core'
<1> DEFINE a     == frame - delay_frames
           saved == [RingNow EXCEPT ![frame % RingSize] =
                       [frame |-> frame, state |-> emu]]
<1>1. TypeOK'
  BY NormalType DEF Core
<1>2. /\ frame \in Nat /\ emu \in Seq(Vector) /\ Len(emu) = frame
      /\ pending_rollback \in Int /\ RingNow \in RingType
      /\ Indexed(RingNow) /\ Fits(RingNow)
  BY RingNowFits DEF Core, TypeOK, LengthIsFrame
(* An accepted rollback is always restored: this tick found none. *)
<1>3. pending_rollback < 0 /\ replay_remaining = 0
  <2>1. SUFFICES ASSUME pending_rollback >= 0, StartsRollback PROVE FALSE
    BY <1>2 DEF TickNormal, StartsRollback
  <2>2. frame - pending_rollback \in 1..MaxFrames /\ RingHas(ring, pending_rollback)
    BY <2>1 DEF Core, PendingRestorable
  <2>3. RingHas(RingNow, pending_rollback)
    BY <1>2, <2>1, <2>2, RingNowFits, RingAssumption
  <2> QED
    BY <2>1, <2>2, <2>3 DEF TickNormal, Restores
<1>4. /\ pending_rollback' < 0 /\ replay_remaining' = 0 /\ replay_depth' = 0
  BY <1>3 DEF TickNormal
<1>5. ~endpoint_save_pending'
  BY <1>3 DEF TickNormal, EndpointWaits, SavesEndpoint
<1>6. /\ EndpointAfterReplay' /\ ReplayDepthHonest' /\ ReplayBounded'
      /\ PendingRestorable'
  <2>1. pending_rollback' \in Int
    BY <1>1 DEF TypeOK
  <2> QED
    BY <1>4, <1>5, <2>1
    DEF EndpointAfterReplay, ReplayDepthHonest, ReplayBounded, PendingRestorable
<1>7. RingIndexed' /\ RingLengths'
  <2>1. ring' = saved \/ ring' = RingNow
    BY DEF TickNormal, SaveAt
  <2>2. Indexed(saved) /\ Fits(saved)
    BY <1>2, SaveFits
  <2> HIDE DEF saved
  <2> QED
    BY <1>2, <2>1, <2>2 DEF RingIndexed, RingLengths, Indexed, Fits
<1>8. LengthIsFrame'
  <2>1. CASE stepped
    <3>1. Applied(inputs', a) \in Vector
      <4>1. inputs' \in InputsType /\ a \in Int
        BY <1>1, <1>2 DEF TypeOK, InputsType, Core
      <4> QED
        BY <4>1, AppliedType
    <3>2. emu' = Append(emu, Applied(inputs', a)) /\ frame' = frame + 1
      BY <2>1 DEF TickNormal, Step
    <3> QED
      BY <1>2, <3>1, <3>2, AppendProperties DEF LengthIsFrame
  <2>2. CASE ~stepped
    BY <1>2, <2>2 DEF TickNormal, LengthIsFrame
  <2> QED
    BY <2>1, <2>2
<1> QED
  BY <1>1, <1>6, <1>7, <1>8 DEF Core

LEMMA ReplayCore ==
  ASSUME Core, NEW adv \in FrameAdvantages, NEW stepped \in BOOLEAN,
         TickReplay(adv, stepped)
  PROVE  Core'
<1> DEFINE f         == IF Restores THEN pending_rollback ELSE frame
           state     == IF Restores THEN RingNow[f % RingSize].state ELSE emu
           remaining == IF Restores THEN frame - pending_rollback ELSE replay_remaining
           depth     == IF Restores THEN remaining ELSE replay_depth
           start     == IF Restores THEN f ELSE replay_start
           a         == ReplayTag(f)
           saved     == [RingNow EXCEPT ![f % RingSize] = [frame |-> f, state |-> state]]
<1>1. TypeOK' /\ TypeOK
  BY ReplayType DEF Core
<1>2. /\ frame \in Nat /\ emu \in Seq(Vector) /\ Len(emu) = frame
      /\ pending_rollback \in Int /\ RingNow \in RingType
      /\ replay_remaining \in Nat /\ replay_depth \in Nat /\ replay_start \in Nat
      /\ Indexed(RingNow) /\ Fits(RingNow)
  BY RingNowFits DEF Core, TypeOK, LengthIsFrame
<1>3. Restores => /\ pending_rollback \in 0..frame-1
                  /\ frame - pending_rollback \in 1..MaxFrames
                  /\ RingHas(RingNow, pending_rollback)
  BY <1>2, RingAssumption DEF Restores, StartsRollback
<1>4. ~Restores => replay_remaining > 0 /\ ~StartsRollback
  BY DEF TickReplay
(* The state that is replayed from is of the frame it is replayed at. *)
<1>5. f \in Nat /\ state \in Seq(Vector) /\ Len(state) = f
  <2>1. CASE Restores
    <3>1. f \in Nat /\ RingNow[f % RingSize].frame = f
      BY <1>2, <1>3, <2>1 DEF RingHas
    <3>2. f % RingSize \in 0..MaxFrames
      BY <3>1, RingIndex
    <3>3. RingNow[f % RingSize].state \in Seq(Vector)
      BY <1>2, <3>2 DEF RingType
    <3> QED
      BY <1>2, <2>1, <3>1, <3>2, <3>3 DEF Fits
  <2>2. CASE ~Restores
    BY <1>2, <2>2
  <2> QED
    BY <2>1, <2>2
<1>6. remaining \in 1..MaxFrames /\ f + remaining - start <= MaxFrames
      /\ start <= f /\ start \in Nat /\ depth > 0 /\ depth \in Nat
  <2>1. CASE Restores
    BY <1>2, <1>3, <2>1, RingAssumption
  <2>2. CASE ~Restores
    BY <1>1, <1>2, <1>4, <2>2, RingAssumption
    DEF Core, ReplayBounded, ReplayDepthHonest
  <2> QED
    BY <2>1, <2>2
<1>7. /\ ring' = saved /\ replay_start' = start
      /\ stepped => /\ Step(state, f, a) /\ replay_remaining' = remaining - 1
                    /\ replay_depth' = DepthAfter(remaining, depth)
      /\ ~stepped => /\ emu' = state /\ frame' = f /\ replay_remaining' = remaining
                     /\ replay_depth' = depth
  BY DEF TickReplay
(* A pending rollback that stays pending lies in the replayed frames. *)
<1>8. ASSUME pending_rollback' >= 0
      PROVE  /\ pending_rollback' = pending_rollback /\ ~Restores
             /\ replay_start <= pending_rollback /\ pending_rollback < frame
             /\ RingHas(RingNow, pending_rollback)
  <2>1. ~Restores /\ pending_rollback' = pending_rollback
    BY <1>8 DEF TickReplay
  <2>2. replay_start <= pending_rollback
    BY <1>2, <1>4, <1>8, <2>1 DEF StartsRollback
  <2>3. frame - pending_rollback \in 1..MaxFrames /\ RingHas(ring, pending_rollback)
    BY <1>8, <2>1 DEF Core, PendingRestorable
  <2>4. pending_rollback \in Nat /\ pending_rollback < frame
        /\ frame - pending_rollback <= MaxFrames
    BY <1>2, <1>8, <2>1, <2>3, RingAssumption
  <2> QED
    BY <2>1, <2>2, <2>3, <2>4, RingNowFits
<1>9. endpoint_save_pending' <=> (stepped /\ remaining = 1)
  <2>1. ~EndpointWaits
    BY DEF EndpointWaits, SavesEndpoint, Core, EndpointAfterReplay
  <2> QED
    BY <2>1 DEF TickReplay
<1> HIDE DEF f, state, remaining, depth, start, a
<1>10. RingIndexed' /\ RingLengths'
  <2>1. Indexed(saved) /\ Fits(saved)
    BY <1>2, <1>5, SaveFits
  <2> QED
    BY <1>7, <2>1 DEF RingIndexed, RingLengths, Indexed, Fits
<1>11. (stepped => frame' = f + 1) /\ LengthIsFrame'
  <2>1. CASE stepped
    <3>1. Applied(inputs', a) \in Vector
      <4>1. inputs' \in InputsType /\ a \in Int
        BY <1>1, <1>5, ReplayTagType, SMTT(30) DEF TypeOK, InputsType, a
      <4> QED
        BY <4>1, AppliedType
    <3>2. emu' = Append(state, Applied(inputs', a)) /\ frame' = f + 1
      BY <1>7, <2>1 DEF Step
    <3> QED
      BY <1>5, <3>1, <3>2, AppendProperties DEF LengthIsFrame
  <2>2. CASE ~stepped
    BY <1>5, <1>7, <2>2 DEF LengthIsFrame
  <2> QED
    BY <2>1, <2>2
<1> HIDE DEF saved
<1>12. EndpointAfterReplay'
  BY <1>6, <1>7, <1>9 DEF EndpointAfterReplay
<1>13. ReplayDepthHonest' /\ ReplayBounded'
  <2>1. CASE stepped
    BY <1>5, <1>6, <1>7, <1>11, <2>1
    DEF ReplayDepthHonest, ReplayBounded, DepthAfter
  <2>2. CASE ~stepped
    BY <1>5, <1>6, <1>7, <2>2 DEF ReplayDepthHonest, ReplayBounded
  <2> QED
    BY <2>1, <2>2
<1>14. PendingRestorable'
  <2> SUFFICES ASSUME pending_rollback' >= 0
               PROVE  frame' - pending_rollback' \in 1..MaxFrames
                      /\ RingHas(ring', pending_rollback')
    BY DEF PendingRestorable
  <2>1. /\ pending_rollback' = pending_rollback /\ f = frame
        /\ replay_start <= pending_rollback /\ pending_rollback < frame
        /\ RingHas(RingNow, pending_rollback) /\ start = replay_start
    BY <1>8 DEF f, start
  <2>2. frame' = frame + 1 \/ frame' = frame
    BY <1>7, <1>11, <2>1
  <2>3. pending_rollback \in Nat /\ frame - pending_rollback <= MaxFrames - 1
    BY <1>2, <1>6, <2>1, RingAssumption
  <2>4. RingHas(saved, pending_rollback)
    <3>1. f \in Nat /\ pending_rollback < f /\ f - pending_rollback <= MaxFrames
      BY <1>2, <2>1, <2>3, RingAssumption
    <3> QED
      BY <1>2, <2>1, <2>3, <3>1, SaveKeepsFrame DEF saved
  <2>5. frame' - pending_rollback \in 1..MaxFrames
    <3>1. /\ frame \in Int /\ pending_rollback \in Int /\ MaxFrames \in Int
          /\ frame - pending_rollback <= MaxFrames - 1 /\ pending_rollback < frame
      BY <1>2, <2>1, <2>3, RingAssumption
    <3> QED
      BY <2>2, <3>1
  <2> QED
    BY <1>7, <2>1, <2>4, <2>5
<1> QED
  BY <1>1, <1>10, <1>11, <1>12, <1>13, <1>14 DEF Core

LEMMA FeedCore ==
  ASSUME Core, NEW s \in Remote, NEW f \in 0..MaxFrame, NEW v \in RealInputs,
         FeedInput(s, f, v)
  PROVE  Core'
<1>1. TypeOK' /\ UNCHANGED <<frame, ringVars, replayVars, emu>>
  BY FeedType DEF Core, FeedInput
<1>2. PendingRestorable'
  <2>1. UNCHANGED <<frame, ring>> /\ PendingRestorable /\ frame \in Nat
        /\ pending_rollback \in Int /\ f \in Int
    BY <1>1, WindowAssumption DEF ringVars, Core, TypeOK
  <2>2. CASE pending_rollback' = pending_rollback
    BY <2>1, <2>2 DEF PendingRestorable
  <2>3. CASE Rewinds(f) /\ pending_rollback' = RollbackTarget(f)
    <3>1. RollbackTarget(f) \in 0..frame-1
      BY <2>1, <2>3, TargetType DEF Rewinds, Core
    <3>2. frame - RollbackTarget(f) <= MaxFrames /\ RingHas(ring, RollbackTarget(f))
      BY <2>3 DEF Rewinds
    <3> QED
      BY <2>1, <2>3, <3>1, <3>2, RingAssumption DEF PendingRestorable, RingHas
  <2> QED
    BY <2>2, <2>3 DEF FeedInput, CheckPrediction, Earliest
<1> QED
  BY <1>1, <1>2
  DEF Core, LengthIsFrame, RingIndexed, RingLengths, EndpointAfterReplay,
      ReplayDepthHonest, ReplayBounded, ringVars, replayVars

LEMMA CoreUnchanged ==
  ASSUME Core, UNCHANGED vars
  PROVE  Core'
BY DEF Core, TypeOK, LengthIsFrame, RingIndexed, RingLengths, EndpointAfterReplay,
       ReplayDepthHonest, ReplayBounded, PendingRestorable, RingHas,
       vars, inputVars, ringVars, replayVars, ghostVars

LEMMA TickCore ==
  ASSUME Core, Tick
  PROVE  Core'
<1>1. ASSUME NEW adv \in FrameAdvantages, TickPaced(adv) PROVE Core'
  BY <1>1, PacedCore
<1>2. ASSUME NEW adv \in FrameAdvantages, NEW stepped \in BOOLEAN,
             TickReplay(adv, stepped)
      PROVE  Core'
  BY <1>2, ReplayCore
<1>3. ASSUME NEW adv \in FrameAdvantages, NEW stepped \in BOOLEAN,
             TickNormal(adv, stepped)
      PROVE  Core'
  BY <1>3, NormalCore
<1> QED
  BY <1>1, <1>2, <1>3 DEF Tick

(***************************************************************************)
(* The guest's sync section.                                               *)
(***************************************************************************)

(* The host's state of frame n is a history of n vectors. *)
LEMMA HostHistoryType ==
  ASSUME TypeOK, NEW own \in [0..MaxFrame -> RealInputs], NEW n \in 1..MaxFrame,
         \A s \in Remote \ {Host}, f \in Consumed(n) : real[s][f] # NoInput
  PROVE  HostHistory(own, n) \in Seq(Vector) /\ Len(HostHistory(own, n)) = n
<1>1. /\ n \in Nat /\ MaxFrame \in Nat /\ delay_frames \in Nat \ {0}
      /\ real \in [Remote -> [0..MaxFrame -> Input \cup {NoInput}]]
  BY WindowAssumption DEF TypeOK
<1>2. ASSUME NEW i \in 1..n PROVE HostVector(own, i-1) \in Vector
  <2> DEFINE f == i - 1
  <2>1. f \in Nat /\ f <= n - 1
    BY <1>1
  <2>2. CASE f = 0
    BY <2>2, ResyncAssumption DEF HostVector
  <2>3. CASE f # 0
    <3>1. ASSUME NEW s \in Slots, f >= delay_frames
          PROVE  (IF s = Local THEN LocalInput[f - delay_frames]
                  ELSE IF s = Host THEN own[f - delay_frames]
                  ELSE real[s][f - delay_frames]) \in Input
      <4>1. f - delay_frames \in 0..MaxFrame /\ f - delay_frames <= n - 1 - delay_frames
        BY <1>1, <2>1, <3>1
      <4>2. f - delay_frames \in Consumed(n)
        BY <4>1 DEF Consumed
      <4>3. CASE s = Local
        BY <4>1, <4>3, LocalAssumption
      <4>4. CASE s # Local /\ s = Host
        BY <4>1, <4>4, InputAssumption
      <4>5. CASE s # Local /\ s # Host
        <5>1. s \in Remote \ {Host}
          BY <4>5 DEF Slots
        <5>2. real[s][f - delay_frames] \in Input \cup {NoInput}
          BY <1>1, <4>1, <5>1
        <5> QED
          BY <4>2, <4>5, <5>1, <5>2
      <4> QED
        BY <4>3, <4>4, <4>5
    <3>2. ASSUME NEW s \in Slots
          PROVE  (IF f < delay_frames THEN Zero
                  ELSE IF s = Local THEN LocalInput[f - delay_frames]
                  ELSE IF s = Host THEN own[f - delay_frames]
                  ELSE real[s][f - delay_frames]) \in Input
      BY <1>1, <2>1, <3>1, ZeroType
    <3> QED
      BY <2>3, <3>2 DEF HostVector, Vector
  <2> QED
    BY <2>2, <2>3
<1>3. HostHistory(own, n) \in [1..n -> Vector]
  BY <1>2 DEF HostHistory
<1> QED
  BY <1>1, <1>3, SeqDef, LenProperties

LEMMA ArrivesInv ==
  ASSUME ResyncInv, NEW n \in 1..MaxFrame, StateArrives(n)
  PROVE  ResyncInv'
<1>1. Core /\ SyncTypeOK /\ StateFits /\ jsFrame = frame /\ TypeOK
  BY DEF ResyncInv, Core
<1>2. PICK own \in [0..MaxFrame -> RealInputs] :
        /\ real' = [real EXCEPT ![Host] =
                      [f \in 0..MaxFrame |-> IF f \in Consumed(n) THEN own[f] ELSE @[f]]]
        /\ pendingState' = [frame |-> n, state |-> HostHistory(own, n), held |-> FALSE]
  BY DEF StateArrives
<1>3. HostHistory(own, n) \in Seq(Vector) /\ Len(HostHistory(own, n)) = n
  BY <1>1, HostHistoryType DEF StateArrives
<1>4. real' \in [Remote -> [0..MaxFrame -> Input \cup {NoInput}]]
  <2>1. Host \in Remote /\ \A f \in 0..MaxFrame : own[f] \in Input
    BY ResyncAssumption, InputAssumption
  <2>2. real[Host] \in [0..MaxFrame -> Input \cup {NoInput}]
    BY <1>1, <2>1 DEF TypeOK
  <2> QED
    BY <1>1, <1>2, <2>1, <2>2 DEF TypeOK
<1>5. Core'
  <2>1. TypeOK'
    BY <1>1, <1>4 DEF StateArrives, TypeOK, inputVars, ringVars, replayVars
  <2> QED
    BY <1>1, <2>1
    DEF StateArrives, Core, LengthIsFrame, RingIndexed, RingLengths,
        EndpointAfterReplay, ReplayDepthHonest, ReplayBounded, PendingRestorable,
        RingHas, ringVars, replayVars
<1>6. SyncTypeOK' /\ StateFits' /\ (jsFrame = frame)'
  <2>1. arrivals' \in 0..MaxArrivals
    BY <1>1, ResyncAssumption DEF StateArrives, SyncTypeOK
  <2>2. n \in Int
    OBVIOUS
  <2> QED
    BY <1>1, <1>2, <1>3, <2>1, <2>2 DEF StateArrives, SyncTypeOK, StateFits, HasState
<1> QED
  BY <1>5, <1>6 DEF ResyncInv

(* The load puts the emulator, rb.frame and _frameNum at the state's frame: *)
(* no replay is under way then, so kn_set_frame is never refused.           *)
LEMMA ApplyInv ==
  ASSUME ResyncInv, ApplySync
  PROVE  ResyncInv'
<1>1. Core /\ SyncTypeOK /\ StateFits /\ jsFrame = frame /\ TypeOK
  BY DEF ResyncInv, Core
<1>2. /\ HasState /\ replay_depth = 0 /\ replay_remaining = 0
      /\ pending_rollback \in Int /\ ~ (pending_rollback >= 0)
  BY <1>1 DEF ApplySync, Loads, ReplayBlocksApply, Core, ReplayDepthHonest, TypeOK
<1>3. /\ pendingState.state \in Seq(Vector) /\ pendingState.frame \in Nat
      /\ Len(pendingState.state) = pendingState.frame
  BY <1>1, <1>2 DEF SyncTypeOK, StateFits, HasState
<1>4. /\ emu' = pendingState.state /\ frame' = pendingState.frame
      /\ jsFrame' = pendingState.frame
  BY <1>1, <1>2 DEF ApplySync, CounterSet
<1>5. /\ pendingState' = NoState /\ target' = -1 /\ awaiting' = FALSE
      /\ lastApplied' = pendingState.frame /\ loaded' = pendingState.state
      /\ UNCHANGED <<delay_frames, inputVars, applied_tag, ringVars, pending_rollback,
                     replayVars, failed, ghostVars, requests, arrivals>>
  BY DEF ApplySync
<1>6. TypeOK'
  BY <1>1, <1>3, <1>4, <1>5 DEF TypeOK, inputVars, ringVars, replayVars, ghostVars
<1>7. Core'
  BY <1>1, <1>2, <1>3, <1>4, <1>5, <1>6
  DEF Core, LengthIsFrame, RingIndexed, RingLengths, EndpointAfterReplay,
      ReplayDepthHonest, ReplayBounded, PendingRestorable, ringVars, replayVars
<1>8. SyncTypeOK' /\ StateFits'
  <2>1. NoState \in [frame : Int, state : Seq(Vector), held : BOOLEAN]
    BY EmptySeq DEF NoState
  <2>2. ~ (NoState.frame >= 0)
    BY DEF NoState
  <2>3. target' \in Int /\ awaiting' \in BOOLEAN
    <3>1. -1 \in Int /\ FALSE \in BOOLEAN
      OBVIOUS
    <3> QED
      BY <1>5, <3>1, Zenon
  <2> QED
    BY <1>1, <1>3, <1>5, <2>1, <2>2, <2>3 DEF SyncTypeOK, StateFits, HasState
<1> QED
  BY <1>4, <1>7, <1>8 DEF ResyncInv

(* kn_clear_replay_state: no rollback is pending and no replay runs after. *)
LEMMA DropReplayInv ==
  ASSUME ResyncInv, DropReplay
  PROVE  ResyncInv'
<1>1. Core /\ SyncTypeOK /\ StateFits /\ jsFrame = frame /\ TypeOK
  BY DEF ResyncInv, Core
<1>2. /\ pending_rollback' = -1 /\ replay_remaining' = 0 /\ replay_depth' = 0
      /\ UNCHANGED <<frame, delay_frames, inputVars, applied_tag, ringVars,
                     replay_start, failed, emu, ghostVars, syncVars>>
  BY DEF DropReplay, DepthWhenDropped
<1>3. TypeOK'
  <2>1. pending_rollback' \in Int /\ replay_remaining' \in Nat /\ replay_depth' \in Nat
    BY <1>2
  <2> QED
    BY <1>1, <1>2, <2>1 DEF TypeOK, inputVars, ringVars, ghostVars
<1>4. Core'
  BY <1>1, <1>2, <1>3
  DEF Core, LengthIsFrame, RingIndexed, RingLengths, EndpointAfterReplay,
      ReplayDepthHonest, ReplayBounded, PendingRestorable, ringVars
<1>5. SyncTypeOK' /\ StateFits' /\ (jsFrame = frame)'
  BY <1>1, <1>2 DEF SyncTypeOK, StateFits, HasState, syncVars
<1> QED
  BY <1>4, <1>5 DEF ResyncInv

LEMMA HoldInv ==
  ASSUME ResyncInv, HoldState
  PROVE  ResyncInv'
<1>1. Core /\ SyncTypeOK /\ StateFits /\ jsFrame = frame
  BY DEF ResyncInv
<1>2. /\ pendingState' = [pendingState EXCEPT !.held = TRUE]
      /\ target' = pendingState.frame
      /\ UNCHANGED <<vars, jsFrame, lastApplied, loaded, requests, arrivals>>
  BY DEF HoldState
<1>3. awaiting' \in BOOLEAN
  BY <1>1 DEF HoldState, SyncTypeOK
<1>4. Core'
  BY <1>1, <1>2, CoreUnchanged
<1>5. pendingState' = [frame |-> pendingState.frame, state |-> pendingState.state,
                       held |-> TRUE]
  BY <1>1, <1>2 DEF SyncTypeOK
<1>6. SyncTypeOK' /\ StateFits'
  BY <1>1, <1>2, <1>3, <1>5 DEF SyncTypeOK, StateFits, HasState
<1>7. (jsFrame = frame)'
  BY <1>1, <1>2 DEF vars
<1> QED
  BY <1>4, <1>6, <1>7 DEF ResyncInv

(* The actions that only change what the guest waits for. *)
LEMMA WaitingInv ==
  ASSUME ResyncInv, RequestSync \/ AwaitState \/ DropTarget
  PROVE  ResyncInv'
<1>1. Core /\ SyncTypeOK /\ StateFits /\ jsFrame = frame /\ frame \in Nat
  BY DEF ResyncInv, Core, TypeOK
<1>2. UNCHANGED <<vars, jsFrame, pendingState, lastApplied, loaded, arrivals>>
  BY DEF RequestSync, AwaitState, DropTarget
<1>3. target' \in Int
  BY <1>1, ResyncAssumption DEF RequestSync, AwaitState, DropTarget, SyncTypeOK
<1>4. awaiting' \in BOOLEAN
  BY <1>1, Zenon DEF RequestSync, AwaitState, DropTarget, SyncTypeOK
<1>5. requests' \in 0..MaxRequests
  BY <1>1, ResyncAssumption DEF RequestSync, AwaitState, DropTarget, SyncTypeOK
<1>6. Core' /\ (jsFrame = frame)'
  BY <1>1, <1>2, CoreUnchanged DEF vars
<1>7. SyncTypeOK' /\ StateFits'
  BY <1>1, <1>2, <1>3, <1>4, <1>5 DEF SyncTypeOK, StateFits, HasState
<1> QED
  BY <1>6, <1>7 DEF ResyncInv

(***************************************************************************)
(* The invariant holds, and what follows from it.                          *)
(***************************************************************************)

LEMMA ResyncInitInv == ResyncInit => ResyncInv
<1> SUFFICES ASSUME ResyncInit PROVE ResyncInv
  OBVIOUS
<1>1. IInv
  BY InitInv DEF ResyncInit
<1>2. Core
  <2>1. ring = [i \in 0..MaxFrames |-> [frame |-> -1, state |-> <<>>]]
    BY DEF ResyncInit, Init
  <2> QED
    BY <1>1, <2>1 DEF IInv, Core, RingLengths
<1>3. /\ jsFrame = 0 /\ frame = 0 /\ target = -1 /\ pendingState = NoState
      /\ awaiting = FALSE /\ lastApplied = -1 /\ loaded = <<>>
      /\ requests = 0 /\ arrivals = 0
  BY DEF ResyncInit, Init
<1>4. NoState \in [frame : Int, state : Seq(Vector), held : BOOLEAN]
      /\ NoState.frame = -1
  BY EmptySeq DEF NoState
<1>5. awaiting \in BOOLEAN
  BY <1>3, Zenon
<1>6. /\ target \in Int /\ lastApplied \in Int
      /\ requests \in 0..MaxRequests /\ arrivals \in 0..MaxArrivals
  BY <1>3, ResyncAssumption
<1>7. SyncTypeOK /\ StateFits
  BY <1>3, <1>4, <1>5, <1>6, EmptySeq DEF SyncTypeOK, StateFits, HasState
<1> QED
  BY <1>2, <1>3, <1>7 DEF ResyncInv

LEMMA ResyncNextInv == ResyncInv /\ [ResyncNext]_resyncVars => ResyncInv'
<1> SUFFICES ASSUME ResyncInv, [ResyncNext]_resyncVars PROVE ResyncInv'
  OBVIOUS
<1>1. Core /\ SyncTypeOK /\ StateFits /\ jsFrame = frame
  BY DEF ResyncInv
<1>2. CASE EngineTick
  <2>1. Core' /\ (jsFrame = frame)'
    BY <1>1, <1>2, TickCore DEF EngineTick
  <2>2. SyncTypeOK' /\ StateFits'
    BY <1>1, <1>2 DEF EngineTick, SyncTypeOK, StateFits, HasState
  <2> QED
    BY <2>1, <2>2 DEF ResyncInv
<1>3. CASE FeedRemote
  <2>1. Core'
    BY <1>1, <1>3, FeedCore DEF FeedRemote, Feed
  <2>2. UNCHANGED syncVars /\ UNCHANGED frame
    BY <1>3 DEF FeedRemote, Feed, FeedInput
  <2>3. SyncTypeOK' /\ StateFits' /\ (jsFrame = frame)'
    BY <1>1, <2>2 DEF SyncTypeOK, StateFits, HasState, syncVars
  <2> QED
    BY <2>1, <2>3 DEF ResyncInv
<1>4. CASE UNCHANGED resyncVars
  <2>1. Core' /\ UNCHANGED syncVars /\ UNCHANGED frame
    BY <1>1, <1>4, CoreUnchanged DEF resyncVars, vars
  <2>2. SyncTypeOK' /\ StateFits' /\ (jsFrame = frame)'
    BY <1>1, <2>1 DEF SyncTypeOK, StateFits, HasState, syncVars
  <2> QED
    BY <2>1, <2>2 DEF ResyncInv
<1>5. ASSUME NEW n \in 1..MaxFrame, StateArrives(n) PROVE ResyncInv'
  BY <1>5, ArrivesInv
<1> QED
  BY <1>2, <1>3, <1>4, <1>5, ApplyInv, DropReplayInv, HoldInv, WaitingInv
  DEF ResyncNext, SyncSection

(* The inductive invariant of the engine and the page under loads of a      *)
(* host state, replays dropped for one, and resets.                        *)
THEOREM ResyncInvariance == ResyncSpec => []ResyncInv
  BY ResyncInitInv, ResyncNextInv, PTL DEF ResyncSpec

(* The emulator, rb.frame and _frameNum are at the same frame whatever      *)
(* replay, rollback, deadline or newer state a load meets: inputs are never *)
(* applied to a frame other than the one the emulator is at.               *)
THEOREM CountersStayTogether == ResyncSpec => []CountersAgree
<1>1. ResyncInv => CountersAgree
  BY DEF ResyncInv, Core, LengthIsFrame, CountersAgree
<1> QED
  BY <1>1, ResyncInvariance, PTL

(* The engine stays usable across loads and dropped replays: its depth says *)
(* whether a replay runs, an accepted rollback finds its state, and every   *)
(* state in the ring is of the frame it is filed under.                    *)
THEOREM EngineStaysSound == ResyncSpec => []EngineSound
<1>1. ResyncInv => EngineSound
  BY DEF ResyncInv, Core, SyncTypeOK, EngineSound, ResyncTypeOK, TypeOK
<1> QED
  BY <1>1, ResyncInvariance, PTL

=============================================================================
