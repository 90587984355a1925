------------------------ MODULE RollbackEngineProofs ------------------------
(***************************************************************************)
(* Proofs about RollbackEngine, for every value of its constants: its      *)
(* variables keep their types, its rollbacks can be carried out, its ring  *)
(* holds states of the current timeline, and the emulator it drives        *)
(* implements Timeline; then, which inputs its frames run on: tags are      *)
(* kept, no guess is forgotten, no wrong frame goes unnoticed.              *)
(***************************************************************************)
EXTENDS RollbackEngine, TLAPS, WellFoundedInduction, SequenceTheorems

(***************************************************************************)
(* Arithmetic.                                                             *)
(***************************************************************************)

(* A set of naturals has a least element. *)
LEMMA LeastNat ==
  ASSUME NEW S, S \subseteq Nat, S # {}
  PROVE  \E f \in S : \A g \in S : f <= g
<1> DEFINE R == OpToRel(<, Nat)
<1>1. IsWellFoundedOn(R, Nat)
  BY NatLessThanWellFounded
<1>2. \A x, y \in Nat : x < y => <<x, y>> \in R
  BY DEF OpToRel
<1> HIDE DEF R
<1>3. PICK f \in S : \A g \in S : ~ (<<g, f>> \in R)
  BY <1>1, WFMin
<1>4. \A g \in S : ~ (g < f)
  BY <1>2, <1>3
<1>5. \A g \in S : f <= g
  BY <1>4
<1> QED
  BY <1>5

(* The index of a frame in a ring of n slots. *)
LEMMA ModRange ==
  ASSUME NEW n \in Nat \ {0}, NEW a \in Int
  PROVE  a % n \in 0..n-1
  OBVIOUS

(* Two frames less than n apart have slots of their own. *)
LEMMA ModDistinct ==
  ASSUME NEW n \in Nat \ {0}, NEW a \in Int, NEW b \in Int, a < b, b - a < n
  PROVE  a % n # b % n
<1>1. \A m \in Int : /\ m \div n \in Int /\ m % n \in 0..n-1
                     /\ m = n * (m \div n) + (m % n)
  OBVIOUS
<1>2. \A k \in Int : k >= 1 => n * k >= n
  OBVIOUS
<1>3. \A k \in Int : k <= 0 => n * k <= 0
  OBVIOUS
<1> SUFFICES ASSUME a % n = b % n PROVE FALSE
  OBVIOUS
<1> DEFINE p == a \div n
           q == b \div n
<1>4. p \in Int /\ q \in Int /\ a = n * p + (a % n) /\ b = n * q + (b % n)
      /\ a % n \in Int
  BY <1>1
<1> HIDE DEF p, q
<1>5. b - a = n * q - n * p
  BY <1>4
<1>6. n * (q - p) = n * q - n * p
  BY <1>4
<1>7. q - p >= 1 \/ q - p <= 0
  BY <1>4
<1> QED
  BY <1>2, <1>3, <1>4, <1>5, <1>6, <1>7

(***************************************************************************)
(* The types of what the operators return.                                 *)
(***************************************************************************)

InputsType    == [Slots -> [Idx -> Known]]
PredictedType == [Slots -> [Idx -> [on : BOOLEAN, frame : Int, in : Input]]]
RingType      == [0..MaxFrames -> [frame : Int, state : Seq(Vector)]]

LEMMA InputIndex ==
  ASSUME NEW f \in Int
  PROVE  f % InputRing \in Idx
  BY ModRange, RingAssumption DEF Idx

LEMMA RingIndex ==
  ASSUME NEW f \in Int
  PROVE  f % RingSize \in 0..MaxFrames
  BY ModRange, RingAssumption DEF RingSize

LEMMA ZeroType == Zero \in Input
  BY InputAssumption DEF Zero, Input

LEMMA ClampType ==
  ASSUME NEW v \in Int
  PROVE  Clamp(v) \in -StickMax..StickMax
  BY InputAssumption DEF Clamp

LEMMA PredictType ==
  ASSUME TypeOK, NEW s \in Slots
  PROVE  PredictInput(s) \in Input
<1>1. last_known[s].in \in Input /\ prev_known[s].in \in Input
  BY DEF TypeOK, Known
<1>2. last_known[s].in.b \in Buttons
      /\ 2 * last_known[s].in.x - prev_known[s].in.x \in Int
  BY <1>1, InputAssumption DEF Input
<1> QED
  BY <1>2, ClampType DEF PredictInput, Input

LEMMA AppliedType ==
  ASSUME NEW ins \in InputsType, NEW f \in Int
  PROVE  Applied(ins, f) \in Vector
<1>1. SUFFICES ASSUME NEW s \in Slots PROVE InputAt(ins, s, f) \in Input
  BY DEF Applied, Vector
<1>2. ins[s][f % InputRing] \in Known
  BY InputIndex DEF InputsType
<1> QED
  BY <1>2, ZeroType DEF InputAt, Known

(* rb_rollback_target returns -1 or the least suspect frame. *)
LEMMA TargetType ==
  ASSUME TypeOK, NEW t \in Int, RollbackTarget(t) # -1
  PROVE  RollbackTarget(t) \in 0..frame-1
<1>1. Suspect(t) # {} /\ Suspect(t) \subseteq 0..frame-1
  BY DEF Suspect, RollbackTarget
<1>2. Suspect(t) \subseteq Nat
  BY <1>1
<1>3. \E f \in Suspect(t) : \A g \in Suspect(t) : f <= g
  BY <1>1, <1>2, LeastNat
<1> QED
  BY <1>1, <1>3 DEF RollbackTarget

LEMMA SaveAtType ==
  ASSUME TypeOK, NEW r \in RingType, NEW f \in Int
  PROVE  SaveAt(r, f) \in RingType
  BY RingIndex DEF SaveAt, RingType, TypeOK

LEMMA RingNowType ==
  ASSUME TypeOK
  PROVE  RingNow \in RingType /\ LastSaveNow \in Int
<1>1. ring \in RingType /\ frame \in Int /\ last_save_frame \in Int
  BY DEF TypeOK, RingType
<1> QED
  BY <1>1, SaveAtType DEF RingNow, LastSaveNow

LEMMA StoreGuessType ==
  ASSUME TypeOK, NEW S \in SUBSET Remote, NEW a \in Int, NEW ins \in InputsType,
         StoreGuess(S, a, ins)
  PROVE  /\ inputs' \in InputsType /\ predicted' \in PredictedType
         /\ UNCHANGED <<last_known, prev_known, slot_active>>
<1>1. \A s \in S : s \in Slots /\ PredictInput(s) \in Input
  BY PredictType DEF Slots
<1>2. a % InputRing \in Idx
  BY InputIndex
<1>3. inputs' \in InputsType
  BY <1>1, <1>2 DEF StoreGuess, InputsType, Known
<1>4. predicted' \in PredictedType
  BY <1>1, <1>2 DEF StoreGuess, PredictedType, TypeOK
<1> QED
  BY <1>3, <1>4 DEF StoreGuess

LEMMA RecordTagType ==
  ASSUME TypeOK, NEW f \in Int, NEW a \in Int, RecordTag(f, a)
  PROVE  applied_tag' \in [Idx -> [frame : Int, tag : Int]]
<1>1. f % InputRing \in Idx
  BY InputIndex
<1> QED
  BY <1>1 DEF RecordTag, TypeOK

LEMMA ReplayTagType ==
  ASSUME TypeOK, NEW f \in Int
  PROVE  ReplayTag(f) \in Int
<1>1. f % InputRing \in Idx /\ delay_frames \in Int
  BY InputIndex DEF TypeOK
<1> QED
  BY <1>1 DEF ReplayTag, TypeOK

LEMMA StepType ==
  ASSUME NEW state \in Seq(Vector), NEW f \in Nat, NEW a \in Int,
         inputs' \in InputsType, Step(state, f, a)
  PROVE  emu' \in Seq(Vector) /\ frame' \in Nat
<1>1. Applied(inputs', a) \in Vector
  BY AppliedType
<1> QED
  BY <1>1, AppendProperties DEF Step

(***************************************************************************)
(* Type correctness, one lemma per action.                                 *)
(***************************************************************************)

LEMMA InitType == Init => TypeOK
<1> SUFFICES ASSUME Init PROVE TypeOK
  OBVIOUS
<1> USE SlotAssumption, InputAssumption, DelayAssumption, RingAssumption,
        WindowAssumption
<1>1. PICK first \in [Backfilled -> RealInputs] :
        real = [s \in Remote |-> [f \in 0..MaxFrame |->
                  IF s \in Backfilled /\ f = 0 THEN first[s] ELSE NoInput]]
  BY DEF Init
<1>2. real \in [Remote -> [0..MaxFrame -> Input \cup {NoInput}]]
  BY <1>1
<1>3. \A s \in Backfilled : real[s][0] \in Input
  <2> TAKE s \in Backfilled
  <2>1. s \in Remote /\ 0 \in 0..MaxFrame
    OBVIOUS
  <2>2. real[s][0] = first[s]
    BY <1>1, <2>1
  <2> QED
    BY <1>1, <2>2
<1>4. \A s \in Backfilled : [frame |-> 0, in |-> real[s][0]] \in Known
  BY <1>3 DEF Known
<1>5. Absent \in Known /\ Zeroed \in Known
  BY ZeroType DEF Absent, Zeroed, Known
<1>6. inputs \in [Slots -> [Idx -> Known]]
  BY <1>4, <1>5 DEF Init
<1>7. last_known \in [Slots -> Known] /\ prev_known \in [Slots -> Known]
  BY <1>4, <1>5 DEF Init
<1>8. predicted \in [Slots -> [Idx -> [on : BOOLEAN, frame : Int, in : Input]]]
  <2>1. NoGuess \in [on : BOOLEAN, frame : Int, in : Input]
    BY ZeroType DEF NoGuess
  <2>2. predicted = [s \in Slots |-> [i \in Idx |-> NoGuess]]
    BY DEF Init
  <2> QED
    BY <2>1, <2>2
<1>9. <<>> \in Seq(Vector)
  BY EmptySeq
<1>10. ring \in [0..MaxFrames -> [frame : Int, state : Seq(Vector)]]
  <2>1. ring = [i \in 0..MaxFrames |-> [frame |-> -1, state |-> <<>>]]
    BY DEF Init
  <2> QED
    BY <1>9, <2>1
<1>11. slot_active \in [Slots -> BOOLEAN]
  <2>1. \A s \in Slots : (s \in Backfilled) \in BOOLEAN
    OBVIOUS
  <2>2. slot_active = [s \in Slots |-> s \in Backfilled]
    BY DEF Init
  <2> QED
    BY <2>1, <2>2, Zenon
<1>12. applied_tag \in [Idx -> [frame : Int, tag : Int]]
  <2>1. applied_tag = [i \in Idx |-> [frame |-> -1, tag |-> 0]]
    BY DEF Init
  <2> QED
    BY <2>1
<1>13. frame \in Nat /\ delay_frames \in Nat \ {0} /\ emu \in Seq(Vector)
  BY <1>9 DEF Init
<1>14. /\ last_save_frame \in Int /\ pending_rollback \in Int
       /\ replay_remaining \in Nat /\ replay_depth \in Nat /\ replay_start \in Nat
  <2>1. /\ last_save_frame = -1 /\ pending_rollback = -1
        /\ replay_remaining = 0 /\ replay_depth = 0 /\ replay_start = 0
    BY DEF Init
  <2> QED
    BY <2>1
<1>15. /\ endpoint_save_pending \in BOOLEAN /\ failed \in BOOLEAN
       /\ trusted \subseteq Remote
  BY Zenon DEF Init
<1> QED
  BY <1>2, <1>6, <1>7, <1>8, <1>10, <1>11, <1>12, <1>13, <1>14, <1>15 DEF TypeOK

LEMMA FeedType ==
  ASSUME TypeOK, NEW s \in Remote, NEW f \in 0..MaxFrame, NEW v \in RealInputs,
         FeedInput(s, f, v)
  PROVE  TypeOK'
<1>1. s \in Slots /\ v \in Input /\ f \in Int /\ f % InputRing \in Idx
  BY InputIndex, InputAssumption, WindowAssumption DEF Slots
<1>2. real' \in [Remote -> [0..MaxFrame -> Input \cup {NoInput}]]
  BY <1>1 DEF FeedInput, TypeOK
<1>3. [frame |-> f, in |-> v] \in Known
  BY <1>1 DEF Known
<1>4. inputs' \in [Slots -> [Idx -> Known]] /\ slot_active' \in [Slots -> BOOLEAN]
  BY <1>1, <1>3 DEF FeedInput, StoreReal, TypeOK
<1>5. prev_known' \in [Slots -> Known] /\ last_known' \in [Slots -> Known]
  BY <1>1, <1>3 DEF FeedInput, StoreReal, TypeOK
<1>6. predicted' \in [Slots -> [Idx -> [on : BOOLEAN, frame : Int, in : Input]]]
  <2>1. predicted[s][f % InputRing] \in [on : BOOLEAN, frame : Int, in : Input]
    BY <1>1 DEF TypeOK
  <2> QED
    BY <1>1, <2>1 DEF FeedInput, CheckPrediction, TypeOK
<1>7. pending_rollback' \in Int
  <2>1. RollbackTarget(f) # -1 => RollbackTarget(f) \in Int
    BY <1>1, TargetType DEF TypeOK
  <2> QED
    BY <2>1 DEF FeedInput, CheckPrediction, Earliest, TypeOK
<1>8. failed' \in BOOLEAN
  BY DEF FeedInput, CheckPrediction, TypeOK
<1> QED
  BY <1>2, <1>4, <1>5, <1>6, <1>7, <1>8
  DEF FeedInput, TypeOK, ringVars, replayVars

LEMMA PacedType ==
  ASSUME TypeOK, NEW adv, TickPaced(adv)
  PROVE  TypeOK'
<1>1. ring' \in RingType /\ last_save_frame' \in Int
  <2>1. frame \in Int
    BY DEF TypeOK
  <2> QED
    BY <2>1, RingNowType, SaveAtType DEF TickPaced, MaintainRing
<1> QED
  BY <1>1 DEF TickPaced, TypeOK, RingType, inputVars, replayVars, ghostVars

LEMMA NormalType ==
  ASSUME TypeOK, NEW adv, NEW stepped \in BOOLEAN,
         TickNormal(adv, stepped)
  PROVE  TypeOK'
<1> DEFINE a == frame - delay_frames
<1>1. a \in Int /\ frame \in Int /\ frame \in 0..MaxFrame
  BY WindowAssumption DEF TypeOK, TickNormal
<1>2. LocalInput[frame] \in Input /\ Local \in Slots /\ frame % InputRing \in Idx
  BY <1>1, LocalAssumption, InputIndex DEF Slots
<1>3. StoreLocal \in InputsType
  <2>1. [frame |-> frame, in |-> LocalInput[frame]] \in Known
    BY <1>1, <1>2 DEF Known
  <2> QED
    BY <1>2, <2>1 DEF StoreLocal, InputsType, TypeOK
<1>4. Guessed(a) \in SUBSET Remote /\ StoreGuess(Guessed(a), a, StoreLocal)
  BY DEF Guessed, TickNormal
<1>5. inputs' \in InputsType /\ predicted' \in PredictedType
      /\ UNCHANGED <<last_known, prev_known, slot_active>>
  BY <1>1, <1>3, <1>4, StoreGuessType
<1>6. applied_tag' \in [Idx -> [frame : Int, tag : Int]]
  BY <1>1, RecordTagType DEF TickNormal
<1>7. ring' \in RingType /\ last_save_frame' \in Int
  BY <1>1, RingNowType, SaveAtType DEF TickNormal
<1>8. emu' \in Seq(Vector) /\ frame' \in Nat
  BY <1>1, <1>5, StepType DEF TickNormal, TypeOK
<1>9. pending_rollback' \in Int /\ failed' \in BOOLEAN /\ replay_remaining' \in Nat
      /\ replay_depth' \in Nat /\ endpoint_save_pending' \in BOOLEAN
  BY DEF TickNormal, TypeOK, EndpointWaits, StartsRollback
<1> QED
  BY <1>5, <1>6, <1>7, <1>8, <1>9
  DEF TickNormal, TypeOK, InputsType, PredictedType, RingType, ghostVars

LEMMA ReplayType ==
  ASSUME TypeOK, NEW adv, NEW stepped \in BOOLEAN,
         TickReplay(adv, stepped)
  PROVE  TypeOK'
<1> DEFINE f         == IF Restores THEN pending_rollback ELSE frame
           state     == IF Restores THEN RingNow[f % RingSize].state ELSE emu
           remaining == IF Restores THEN frame - pending_rollback ELSE replay_remaining
           depth     == IF Restores THEN remaining ELSE replay_depth
           a         == ReplayTag(f)
<1>1. f \in Nat /\ state \in Seq(Vector)
  <2>1. f \in Nat /\ emu \in Seq(Vector)
    BY DEF TypeOK, Restores, StartsRollback
  <2>2. f % RingSize \in 0..MaxFrames
    BY <2>1, RingIndex
  <2>3. RingNow[f % RingSize].state \in Seq(Vector)
    BY <2>2, RingNowType DEF RingType
  <2> QED
    BY <2>1, <2>3
<1>2. remaining \in Nat \ {0} /\ depth \in Nat
  BY RingAssumption DEF TypeOK, Restores, TickReplay
<1>3. a \in Int
  BY <1>1, ReplayTagType
<1>4. Reguessed(a) \in SUBSET Remote /\ StoreGuess(Reguessed(a), a, inputs)
  BY DEF Reguessed, TickReplay
<1>5. inputs' \in InputsType /\ predicted' \in PredictedType
      /\ UNCHANGED <<last_known, prev_known, slot_active>>
  <2>1. inputs \in InputsType
    BY DEF TypeOK, InputsType
  <2> QED
    BY <1>3, <1>4, <2>1, StoreGuessType
<1>6. applied_tag' \in [Idx -> [frame : Int, tag : Int]]
  <2>1. RecordTag(f, a)
    BY DEF TickReplay
  <2> QED
    BY <1>1, <1>3, <2>1, RecordTagType
<1>7. ring' \in RingType /\ last_save_frame' \in Int
  <2>1. ring' = [RingNow EXCEPT ![f % RingSize] = [frame |-> f, state |-> state]]
        /\ last_save_frame' = LastSaveNow
    BY DEF TickReplay
  <2>2. [frame |-> f, state |-> state] \in [frame : Int, state : Seq(Vector)]
    BY <1>1
  <2> HIDE DEF f, state
  <2> QED
    BY <2>1, <2>2, RingNowType DEF RingType
<1>8. emu' \in Seq(Vector) /\ frame' \in Nat
  <2>1. stepped => Step(state, f, a)
    BY DEF TickReplay
  <2>2. ~stepped => emu' = state /\ frame' = f
    BY DEF TickReplay
  <2> HIDE DEF f, state, a
  <2> QED
    BY <1>1, <1>3, <1>5, <2>1, <2>2, StepType
<1>9. replay_remaining' \in Nat /\ replay_depth' \in Nat
  <2>1. stepped => replay_remaining' = remaining - 1
                   /\ replay_depth' = DepthAfter(remaining, depth)
    BY DEF TickReplay
  <2>2. ~stepped => replay_remaining' = remaining /\ replay_depth' = depth
    BY DEF TickReplay
  <2> HIDE DEF remaining, depth
  <2> QED
    BY <1>2, <2>1, <2>2 DEF DepthAfter
<1>10. endpoint_save_pending' \in BOOLEAN
  BY DEF TickReplay, EndpointWaits, TypeOK
<1>11. pending_rollback' \in Int /\ replay_start' \in Nat
  BY DEF TickReplay, TypeOK, Restores, StartsRollback
<1>12. UNCHANGED <<delay_frames, failed, real, trusted>>
  BY DEF TickReplay, ghostVars
<1> HIDE DEF f, state, remaining, depth, a
<1> QED
  BY <1>5, <1>6, <1>7, <1>8, <1>9, <1>10, <1>11, <1>12
  DEF TypeOK, InputsType, PredictedType, RingType

LEMMA SetDelayType ==
  ASSUME TypeOK, NEW d \in Delays, SetDelay(d)
  PROVE  TypeOK'
  BY DelayAssumption
  DEF SetDelay, TypeOK, inputVars, ringVars, replayVars, ghostVars

LEMMA SlotResetType ==
  ASSUME TypeOK, NEW s \in ResetSlots, SlotReset(s)
  PROVE  TypeOK'
<1>1. s \in Slots
  BY SlotAssumption DEF Slots
<1>2. Zeroed \in Known /\ NoGuess \in [on : BOOLEAN, frame : Int, in : Input]
  BY ZeroType DEF Zeroed, Known, NoGuess
<1>3. inputs' \in [Slots -> [Idx -> Known]]
  <2>1. \A i \in Idx : [inputs[s][i] EXCEPT !.frame = -1] \in Known
    <3> TAKE i \in Idx
    <3>1. inputs[s][i] \in Known
      BY <1>1 DEF TypeOK
    <3>2. \A r \in Known, n \in Int : [r EXCEPT !.frame = n] \in Known
      BY DEF Known
    <3> QED
      BY <3>1, <3>2
  <2>2. inputs' = [inputs EXCEPT ![s] = [i \in Idx |-> [inputs[s][i] EXCEPT !.frame = -1]]]
    BY <1>1 DEF SlotReset, TypeOK
  <2> QED
    BY <1>1, <2>1, <2>2 DEF TypeOK
<1>4. predicted' \in [Slots -> [Idx -> [on : BOOLEAN, frame : Int, in : Input]]]
  BY <1>1, <1>2 DEF SlotReset, TypeOK
<1>5. last_known' \in [Slots -> Known] /\ prev_known' \in [Slots -> Known]
  BY <1>1, <1>2 DEF SlotReset, TypeOK
<1>6. slot_active' \in [Slots -> BOOLEAN]
  BY <1>1 DEF SlotReset, TypeOK
<1>7. trusted' \subseteq Remote
  BY DEF SlotReset, TypeOK
<1> QED
  BY <1>3, <1>4, <1>5, <1>6, <1>7 DEF SlotReset, TypeOK, ringVars, replayVars

LEMMA NextType == TypeOK /\ [Next]_vars => TypeOK'
<1> SUFFICES ASSUME TypeOK, [Next]_vars PROVE TypeOK'
  OBVIOUS
<1>1. ASSUME NEW adv \in FrameAdvantages, TickPaced(adv) PROVE TypeOK'
  BY <1>1, PacedType
<1>2. ASSUME NEW adv \in FrameAdvantages, NEW stepped \in BOOLEAN,
             TickReplay(adv, stepped)
      PROVE  TypeOK'
  BY <1>2, ReplayType
<1>3. ASSUME NEW adv \in FrameAdvantages, NEW stepped \in BOOLEAN,
             TickNormal(adv, stepped)
      PROVE  TypeOK'
  BY <1>3, NormalType
<1>4. CASE Feed
  BY <1>4, FeedType DEF Feed
<1>5. ASSUME NEW d \in Delays, SetDelay(d) PROVE TypeOK'
  BY <1>5, SetDelayType
<1>6. ASSUME NEW s \in ResetSlots, SlotReset(s) PROVE TypeOK'
  BY <1>6, SlotResetType
<1>7. CASE UNCHANGED vars
  BY <1>7 DEF vars, inputVars, ringVars, replayVars, ghostVars, TypeOK
<1> QED
  BY <1>1, <1>2, <1>3, <1>4, <1>5, <1>6, <1>7 DEF Next, Tick

(* The engine's variables keep their types: no prediction leaves the stick *)
(* range, no ring index leaves its ring, no replay counter goes negative.  *)
THEOREM TypeCorrect == Spec => []TypeOK
  BY InitType, NextType, PTL DEF Spec

(***************************************************************************)
(* The ring and the timeline.                                              *)
(***************************************************************************)

LEMMA PrefixOfPrefix ==
  ASSUME NEW e \in Seq(Vector), NEW k \in 0..Len(e), NEW g \in 0..k
  PROVE  /\ SubSeq(e, 1, k) \in Seq(Vector) /\ Len(SubSeq(e, 1, k)) = k
         /\ SubSeq(SubSeq(e, 1, k), 1, g) = SubSeq(e, 1, g)
<1>1. SubSeq(e, 1, k) \in Seq(Vector) /\ Len(SubSeq(e, 1, k)) = k
      /\ \A i \in 1..k : SubSeq(e, 1, k)[i] = e[i]
  BY SubSeqProperties
<1>2. SubSeq(e, 1, g) \in Seq(Vector) /\ Len(SubSeq(e, 1, g)) = g
      /\ \A i \in 1..g : SubSeq(e, 1, g)[i] = e[i]
  BY SubSeqProperties
<1> DEFINE p == SubSeq(e, 1, k)
<1>3. SubSeq(p, 1, g) \in Seq(Vector) /\ Len(SubSeq(p, 1, g)) = g
      /\ \A i \in 1..g : SubSeq(p, 1, g)[i] = p[i]
  BY <1>1, SubSeqProperties
<1>4. SubSeq(p, 1, g) = SubSeq(e, 1, g)
  BY <1>1, <1>2, <1>3, SeqEqual
<1> QED
  BY <1>1, <1>4

LEMMA PrefixOfAppend ==
  ASSUME NEW e \in Seq(Vector), NEW v \in Vector, NEW g \in 0..Len(e)
  PROVE  SubSeq(Append(e, v), 1, g) = SubSeq(e, 1, g)
<1> DEFINE p == Append(e, v)
<1>1. p \in Seq(Vector) /\ Len(p) = Len(e) + 1 /\ \A i \in 1..Len(e) : p[i] = e[i]
  BY AppendProperties
<1>2. SubSeq(e, 1, g) \in Seq(Vector) /\ Len(SubSeq(e, 1, g)) = g
      /\ \A i \in 1..g : SubSeq(e, 1, g)[i] = e[i]
  BY SubSeqProperties
<1> HIDE DEF p
<1>3. SubSeq(p, 1, g) \in Seq(Vector) /\ Len(SubSeq(p, 1, g)) = g
      /\ \A i \in 1..g : SubSeq(p, 1, g)[i] = p[i]
  BY <1>1, SubSeqProperties
<1>4. SubSeq(p, 1, g) = SubSeq(e, 1, g)
  BY <1>1, <1>2, <1>3, SeqEqual
<1> QED
  BY <1>4 DEF p

LEMMA WholePrefix ==
  ASSUME NEW e \in Seq(Vector)
  PROVE  SubSeq(e, 1, Len(e)) = e
<1>1. SubSeq(e, 1, Len(e)) \in Seq(Vector) /\ Len(SubSeq(e, 1, Len(e))) = Len(e)
      /\ \A i \in 1..Len(e) : SubSeq(e, 1, Len(e))[i] = e[i]
  BY SubSeqProperties
<1> QED
  BY <1>1, SeqEqual

(* Ring r has each frame at its own slot, and below frame n states of e. *)
Indexed(r)      == \A i \in 0..MaxFrames : r[i].frame >= 0 => r[i].frame % RingSize = i
Timely(r, e, n) == \A i \in 0..MaxFrames :
                     r[i].frame \in 0..n-1 => r[i].state = SubSeq(e, 1, r[i].frame)

(* Saving the state e of frame f, then running the frame. *)
LEMMA SaveOnTimeline ==
  ASSUME NEW r \in RingType, NEW e \in Seq(Vector), NEW f \in Nat,
         Len(e) = f, Indexed(r), Timely(r, e, f), NEW v \in Vector
  PROVE  LET saved == [r EXCEPT ![f % RingSize] = [frame |-> f, state |-> e]]
         IN /\ Indexed(saved) /\ Timely(saved, e, f)
            /\ Timely(saved, Append(e, v), f + 1)
<1> DEFINE saved == [r EXCEPT ![f % RingSize] = [frame |-> f, state |-> e]]
<1>1. f % RingSize \in 0..MaxFrames
  BY RingIndex
<1>2. /\ saved[f % RingSize] = [frame |-> f, state |-> e]
      /\ \A i \in 0..MaxFrames : i # f % RingSize => saved[i] = r[i]
      /\ \A i \in 0..MaxFrames : r[i].frame \in Int
  BY <1>1 DEF RingType
<1> HIDE DEF saved
<1>3. Indexed(saved)
  BY <1>1, <1>2 DEF Indexed
<1>4. \A i \in 0..MaxFrames : saved[i].frame = f => i = f % RingSize
  BY <1>2, <1>3 DEF Indexed
<1>5. Timely(saved, e, f)
  BY <1>1, <1>2 DEF Timely
<1>6. Timely(saved, Append(e, v), f + 1)
  <2> SUFFICES ASSUME NEW i \in 0..MaxFrames, saved[i].frame \in 0..f
               PROVE  saved[i].state = SubSeq(Append(e, v), 1, saved[i].frame)
    BY DEF Timely
  <2>1. SubSeq(Append(e, v), 1, saved[i].frame) = SubSeq(e, 1, saved[i].frame)
    BY PrefixOfAppend
  <2>2. CASE saved[i].frame = f
    BY <1>2, <1>4, <2>1, <2>2, WholePrefix
  <2>3. CASE saved[i].frame \in 0..f-1
    BY <1>5, <2>1, <2>3 DEF Timely
  <2> QED
    BY <2>2, <2>3
<1> QED
  BY <1>3, <1>5, <1>6 DEF saved

(* Saves leave a frame of the last MaxFrames frames where it is. *)
LEMMA SaveKeepsFrame ==
  ASSUME NEW r \in RingType, NEW f \in Nat, NEW g \in Nat, NEW x,
         g < f, f - g <= MaxFrames, RingHas(r, g)
  PROVE  RingHas([r EXCEPT ![f % RingSize] = x], g)
<1>1. g % RingSize # f % RingSize
  <2>1. RingSize \in Nat \ {0} /\ f - g < RingSize /\ f \in Int /\ g \in Int
    BY RingAssumption DEF RingSize
  <2> QED
    BY <2>1, ModDistinct
<1>2. g % RingSize \in 0..MaxFrames
  BY RingIndex
<1> QED
  BY <1>1, <1>2 DEF RingHas, RingType

(* The ring after the deferred save of a replay's endpoint. *)
LEMMA RingNowFacts ==
  ASSUME IInv
  PROVE  /\ RingNow \in RingType /\ Indexed(RingNow) /\ Timely(RingNow, emu, frame)
         /\ \A g \in Nat : g < frame /\ frame - g <= MaxFrames /\ RingHas(ring, g)
              => RingHas(RingNow, g)
         /\ SavesEndpoint => RingNow[frame % RingSize] = [frame |-> frame, state |-> emu]
<1>1. ring \in RingType /\ frame \in Nat /\ emu \in Seq(Vector) /\ Len(emu) = frame
      /\ Indexed(ring) /\ Timely(ring, emu, frame)
  BY DEF IInv, TypeOK, RingType, LengthIsFrame, RingIndexed, RingOnTimeline,
         Indexed, Timely
<1>2. RingNow \in RingType
  BY RingNowType DEF IInv
<1>3. CASE SavesEndpoint
  <2>1. RingNow = [ring EXCEPT ![frame % RingSize] = [frame |-> frame, state |-> emu]]
    BY <1>3 DEF RingNow, SaveAt
  <2>2. Zero \in Input /\ [s \in Slots |-> Zero] \in Vector
    BY ZeroType DEF Vector
  <2>3. Indexed(RingNow) /\ Timely(RingNow, emu, frame)
    BY <1>1, <2>1, <2>2, SaveOnTimeline
  <2>4. \A g \in Nat : g < frame /\ frame - g <= MaxFrames /\ RingHas(ring, g)
              => RingHas(RingNow, g)
    BY <1>1, <2>1, SaveKeepsFrame
  <2>5. RingNow[frame % RingSize] = [frame |-> frame, state |-> emu]
    BY <1>1, <2>1, RingIndex DEF RingType
  <2> QED
    BY <1>2, <2>3, <2>4, <2>5
<1>4. CASE ~SavesEndpoint
  BY <1>1, <1>4 DEF RingNow
<1> QED
  BY <1>3, <1>4

(***************************************************************************)
(* The inductive invariant, one lemma per action.                          *)
(***************************************************************************)

LEMMA InitInv == Init => IInv
<1> SUFFICES ASSUME Init PROVE IInv
  OBVIOUS
<1>1. TypeOK
  BY InitType
<1>2. /\ frame = 0 /\ emu = <<>> /\ pending_rollback = -1 /\ last_save_frame = -1
      /\ replay_remaining = 0 /\ replay_depth = 0
      /\ ring = [i \in 0..MaxFrames |-> [frame |-> -1, state |-> <<>>]]
  BY DEF Init
<1>3. ~endpoint_save_pending
  BY Zenon DEF Init
<1>4. \A i \in 0..MaxFrames : ring[i].frame = -1
  BY <1>2
<1> QED
  BY <1>1, <1>2, <1>3, <1>4
  DEF IInv, LengthIsFrame, RingIndexed, RingOnTimeline, SavedIsCurrent,
      EndpointAfterReplay, ReplayDepthHonest, ReplayBounded, PendingRestorable

(* An action that leaves the ring, the emulator and the replay alone. *)
LEMMA QuietInv ==
  ASSUME IInv, TypeOK', PendingRestorable',
         UNCHANGED <<frame, ringVars, replayVars, emu>>
  PROVE  IInv'
  BY DEF IInv, LengthIsFrame, RingIndexed, RingOnTimeline, SavedIsCurrent,
         EndpointAfterReplay, ReplayDepthHonest, ReplayBounded, ringVars, replayVars

LEMMA FeedInv ==
  ASSUME IInv, NEW s \in Remote, NEW f \in 0..MaxFrame, NEW v \in RealInputs,
         FeedInput(s, f, v)
  PROVE  IInv'
<1>1. TypeOK' /\ UNCHANGED <<frame, ringVars, replayVars, emu>>
  BY FeedType DEF IInv, FeedInput
<1>2. PendingRestorable'
  <2>1. UNCHANGED <<frame, ring>> /\ PendingRestorable /\ frame \in Nat
        /\ pending_rollback \in Int /\ f \in Int
    BY <1>1, WindowAssumption DEF ringVars, IInv, TypeOK
  <2>2. CASE pending_rollback' = pending_rollback
    BY <2>1, <2>2 DEF PendingRestorable
  <2>3. CASE Rewinds(f) /\ pending_rollback' = RollbackTarget(f)
    <3>1. RollbackTarget(f) \in 0..frame-1
      BY <2>1, <2>3, TargetType DEF Rewinds, IInv
    <3>2. frame - RollbackTarget(f) <= MaxFrames /\ RingHas(ring, RollbackTarget(f))
      BY <2>3 DEF Rewinds
    <3> QED
      BY <2>1, <2>3, <3>1, <3>2, RingAssumption DEF PendingRestorable, RingHas
  <2> QED
    BY <2>2, <2>3 DEF FeedInput, CheckPrediction, Earliest
<1> QED
  BY <1>1, <1>2, QuietInv

LEMMA SetDelayInv ==
  ASSUME IInv, NEW d \in Delays, SetDelay(d)
  PROVE  IInv'
<1>1. TypeOK' /\ UNCHANGED <<frame, ringVars, replayVars, emu, pending_rollback>>
  BY SetDelayType DEF IInv, SetDelay
<1>2. PendingRestorable'
  BY <1>1 DEF IInv, PendingRestorable, RingHas, ringVars
<1> QED
  BY <1>1, <1>2, QuietInv

LEMMA SlotResetInv ==
  ASSUME IInv, NEW s \in ResetSlots, SlotReset(s)
  PROVE  IInv'
<1>1. TypeOK' /\ UNCHANGED <<frame, ringVars, replayVars, emu, pending_rollback>>
  BY SlotResetType DEF IInv, SlotReset
<1>2. PendingRestorable'
  BY <1>1 DEF IInv, PendingRestorable, RingHas, ringVars
<1> QED
  BY <1>1, <1>2, QuietInv

LEMMA PacedInv ==
  ASSUME IInv, NEW adv, TickPaced(adv)
  PROVE  IInv'
<1> DEFINE saved == [RingNow EXCEPT ![frame % RingSize] =
                       [frame |-> frame, state |-> emu]]
<1>1. TypeOK'
  BY PacedType DEF IInv
<1>2. /\ UNCHANGED <<frame, emu, pending_rollback, replay_remaining, replay_depth,
                     replay_start>>
      /\ pending_rollback < 0 /\ replay_remaining = 0
      /\ frame \in Nat /\ emu \in Seq(Vector) /\ Len(emu) = frame
  BY DEF TickPaced, Paces, replayVars, IInv, TypeOK, LengthIsFrame
<1>3. ~endpoint_save_pending'
  BY Zenon DEF TickPaced
<1>4. \/ ring' = RingNow /\ last_save_frame' = LastSaveNow
      \/ ring' = saved /\ last_save_frame' = frame
  BY DEF TickPaced, MaintainRing, SaveAt
<1>5. Indexed(saved) /\ Timely(saved, emu, frame)
  <2>1. [s \in Slots |-> Zero] \in Vector
    BY ZeroType DEF Vector
  <2> QED
    BY <1>2, <2>1, RingNowFacts, SaveOnTimeline
<1>6. saved[frame % RingSize] = [frame |-> frame, state |-> emu]
  BY <1>2, RingNowFacts, RingIndex DEF RingType
<1> HIDE DEF saved
<1>7. Indexed(ring') /\ Timely(ring', emu, frame)
  BY <1>4, <1>5, RingNowFacts
<1>8. SavedIsCurrent'
  <2>1. CASE ring' = saved
    BY <1>2, <1>6, <2>1 DEF SavedIsCurrent
  <2>2. CASE ring' = RingNow /\ last_save_frame' = LastSaveNow /\ SavesEndpoint
    BY <1>2, <2>2, RingNowFacts DEF SavedIsCurrent
  <2>3. CASE ring' = RingNow /\ last_save_frame' = LastSaveNow /\ ~SavesEndpoint
    <3>1. UNCHANGED <<ring, last_save_frame>> /\ ~endpoint_save_pending
      BY <1>2, <2>3 DEF RingNow, LastSaveNow, SavesEndpoint
    <3> QED
      BY <1>2, <3>1 DEF SavedIsCurrent, IInv
  <2> QED
    BY <1>4, <2>1, <2>2, <2>3
<1>9. LengthIsFrame' /\ RingIndexed' /\ RingOnTimeline'
  BY <1>2, <1>7 DEF LengthIsFrame, RingIndexed, RingOnTimeline, Indexed, Timely
<1>10. EndpointAfterReplay' /\ ReplayBounded' /\ PendingRestorable'
  <2>1. pending_rollback' \in Int /\ pending_rollback' < 0 /\ replay_remaining' = 0
    BY <1>1, <1>2 DEF TypeOK
  <2> QED
    BY <1>3, <2>1 DEF EndpointAfterReplay, ReplayBounded, PendingRestorable
<1>11. ReplayDepthHonest'
  BY <1>2 DEF IInv, ReplayDepthHonest
<1> QED
  BY <1>1, <1>8, <1>9, <1>10, <1>11 DEF IInv

(* A frame that runs forward: no rollback is pending then, and its state is *)
(* saved, by this tick or by an earlier one.                               *)
LEMMA NormalFacts ==
  ASSUME IInv, NEW adv, NEW stepped \in BOOLEAN, TickNormal(adv, stepped)
  PROVE  /\ pending_rollback < 0 /\ replay_remaining = 0
         /\ pending_rollback' < 0 /\ replay_remaining' = 0 /\ replay_depth' = 0
         /\ last_save_frame' = frame /\ ~endpoint_save_pending' /\ failed' = failed
         /\ ring' = [RingNow EXCEPT ![frame % RingSize] =
                       [frame |-> frame, state |-> emu]]
<1>1. /\ frame \in Nat /\ emu \in Seq(Vector) /\ Len(emu) = frame
      /\ pending_rollback \in Int /\ RingNow \in RingType /\ failed \in BOOLEAN
  BY RingNowFacts DEF IInv, TypeOK, LengthIsFrame
<1>2. pending_rollback < 0 /\ replay_remaining = 0
  <2>1. SUFFICES ASSUME pending_rollback >= 0, StartsRollback PROVE FALSE
    BY <1>1 DEF TickNormal, StartsRollback
  <2>2. frame - pending_rollback \in 1..MaxFrames /\ RingHas(ring, pending_rollback)
    BY <2>1 DEF IInv, PendingRestorable
  <2>3. RingHas(RingNow, pending_rollback)
    BY <1>1, <2>1, <2>2, RingNowFacts, RingAssumption
  <2> QED
    BY <2>1, <2>2, <2>3 DEF TickNormal, Restores
<1>3. ~StartsRollback
  BY <1>1, <1>2 DEF StartsRollback
<1>4. /\ pending_rollback' < 0 /\ replay_remaining' = 0 /\ replay_depth' = 0
      /\ last_save_frame' = frame
  BY <1>2, <1>3 DEF TickNormal
<1>5. failed' = failed
  BY <1>1, <1>3, Zenon DEF TickNormal
<1>6. ~endpoint_save_pending'
  BY <1>2 DEF TickNormal, EndpointWaits, SavesEndpoint
<1>7. CASE LastSaveNow # frame
  BY <1>2, <1>4, <1>5, <1>6, <1>7 DEF TickNormal, SaveAt
<1>8. CASE LastSaveNow = frame
  <2>1. RingNow[frame % RingSize] = [frame |-> frame, state |-> emu]
    <3>1. CASE SavesEndpoint
      BY <3>1, RingNowFacts
    <3>2. CASE ~SavesEndpoint
      BY <1>2, <1>8, <3>2
      DEF SavesEndpoint, RingNow, LastSaveNow, IInv, SavedIsCurrent
    <3> QED
      BY <3>1, <3>2
  <2>2. ring' = RingNow
    BY <1>8 DEF TickNormal
  <2>3. ring' = [RingNow EXCEPT ![frame % RingSize] = [frame |-> frame, state |-> emu]]
    BY <1>1, <2>1, <2>2, RingIndex DEF RingType
  <2> QED
    BY <1>2, <1>4, <1>5, <1>6, <2>3
<1> QED
  BY <1>7, <1>8

LEMMA NormalInv ==
  ASSUME IInv, NEW adv, NEW stepped \in BOOLEAN,
         TickNormal(adv, stepped)
  PROVE  /\ IInv'
         /\ \/ emu' = emu
            \/ \E v \in Vector : emu' = Append(emu, v)
<1> DEFINE a     == frame - delay_frames
           saved == [RingNow EXCEPT ![frame % RingSize] =
                       [frame |-> frame, state |-> emu]]
<1>1. TypeOK'
  BY NormalType DEF IInv
<1>2. /\ frame \in Nat /\ emu \in Seq(Vector) /\ Len(emu) = frame
      /\ pending_rollback \in Int /\ RingNow \in RingType
      /\ Indexed(RingNow) /\ Timely(RingNow, emu, frame)
  BY RingNowFacts DEF IInv, TypeOK, LengthIsFrame
<1>3. /\ pending_rollback' < 0 /\ replay_remaining' = 0 /\ replay_depth' = 0
      /\ last_save_frame' = frame /\ ~endpoint_save_pending' /\ ring' = saved
  BY NormalFacts
<1>4. /\ EndpointAfterReplay' /\ ReplayDepthHonest' /\ ReplayBounded'
      /\ PendingRestorable'
  <2>1. pending_rollback' \in Int
    BY <1>1 DEF TypeOK
  <2> QED
    BY <1>3, <2>1
    DEF EndpointAfterReplay, ReplayDepthHonest, ReplayBounded, PendingRestorable
<1>7. saved[frame % RingSize] = [frame |-> frame, state |-> emu]
  BY <1>2, RingIndex DEF RingType
<1>8. \A v \in Vector : Indexed(saved) /\ Timely(saved, emu, frame)
                         /\ Timely(saved, Append(emu, v), frame + 1)
  BY <1>2, SaveOnTimeline
<1> HIDE DEF saved
<1>9. CASE stepped
  <2>1. PICK v \in Vector : emu' = Append(emu, v) /\ frame' = frame + 1
    <3>1. Applied(inputs', a) \in Vector
      <4>1. inputs' \in InputsType /\ a \in Int
        BY <1>1, <1>2 DEF TypeOK, InputsType, IInv
      <4> QED
        BY <4>1, AppliedType
    <3> QED
      BY <1>9, <3>1 DEF TickNormal, Step
  <2>2. Len(emu') = frame'
    BY <1>2, <2>1, AppendProperties
  <2>3. Indexed(ring') /\ Timely(ring', emu', frame')
    BY <1>3, <1>8, <2>1
  <2>4. SavedIsCurrent'
    BY <1>2, <1>3, <2>1 DEF SavedIsCurrent
  <2>5. LengthIsFrame' /\ RingIndexed' /\ RingOnTimeline'
    BY <2>2, <2>3 DEF LengthIsFrame, RingIndexed, RingOnTimeline, Indexed, Timely
  <2> QED
    BY <1>1, <1>4, <2>1, <2>4, <2>5 DEF IInv
<1>10. CASE ~stepped
  <2>1. UNCHANGED <<emu, frame>>
    BY <1>10 DEF TickNormal
  <2>2. [s \in Slots |-> Zero] \in Vector
    BY ZeroType DEF Vector
  <2>3. Indexed(ring') /\ Timely(ring', emu', frame')
    BY <1>3, <1>8, <2>1, <2>2
  <2>4. SavedIsCurrent'
    BY <1>3, <1>7, <2>1 DEF SavedIsCurrent
  <2>5. LengthIsFrame' /\ RingIndexed' /\ RingOnTimeline'
    BY <1>2, <2>1, <2>3 DEF LengthIsFrame, RingIndexed, RingOnTimeline, Indexed, Timely
  <2> QED
    BY <1>1, <1>4, <2>1, <2>4, <2>5 DEF IInv
<1> QED
  BY <1>9, <1>10

LEMMA ReplayInv ==
  ASSUME IInv, NEW adv, NEW stepped \in BOOLEAN,
         TickReplay(adv, stepped)
  PROVE  /\ IInv'
         /\ \E k \in 0..Len(emu) :
              \/ emu' = SubSeq(emu, 1, k)
              \/ \E v \in Vector : emu' = Append(SubSeq(emu, 1, k), v)
<1> DEFINE f         == IF Restores THEN pending_rollback ELSE frame
           state     == IF Restores THEN RingNow[f % RingSize].state ELSE emu
           remaining == IF Restores THEN frame - pending_rollback ELSE replay_remaining
           depth     == IF Restores THEN remaining ELSE replay_depth
           start     == IF Restores THEN f ELSE replay_start
           a         == ReplayTag(f)
           saved     == [RingNow EXCEPT ![f % RingSize] = [frame |-> f, state |-> state]]
<1>1. TypeOK' /\ TypeOK
  BY ReplayType DEF IInv
<1>2. /\ frame \in Nat /\ emu \in Seq(Vector) /\ Len(emu) = frame
      /\ pending_rollback \in Int /\ RingNow \in RingType
      /\ replay_remaining \in Nat /\ replay_depth \in Nat /\ replay_start \in Nat
      /\ Indexed(RingNow) /\ Timely(RingNow, emu, frame)
  BY RingNowFacts DEF IInv, TypeOK, LengthIsFrame
<1>3. Restores => /\ pending_rollback \in 0..frame-1
                  /\ frame - pending_rollback \in 1..MaxFrames
                  /\ RingHas(RingNow, pending_rollback)
  BY <1>2, RingAssumption DEF Restores, StartsRollback
<1>4. ~Restores => replay_remaining > 0 /\ ~StartsRollback
  BY DEF TickReplay
(* The replayed frame and the state it starts from. *)
<1>5. f \in 0..frame /\ state = SubSeq(emu, 1, f) /\ state \in Seq(Vector)
      /\ Len(state) = f
  <2>1. CASE Restores
    <3>1. f \in 0..frame-1 /\ RingNow[f % RingSize].frame = f
      BY <1>3, <2>1 DEF RingHas
    <3>2. f % RingSize \in 0..MaxFrames
      BY <1>2, <3>1, RingIndex
    <3>3. state = SubSeq(emu, 1, f)
      BY <1>2, <2>1, <3>1, <3>2 DEF Timely
    <3> HIDE DEF state, f
    <3> QED
      BY <1>2, <3>1, <3>3, PrefixOfPrefix
  <2>2. CASE ~Restores
    BY <1>2, <2>2, WholePrefix
  <2> QED
    BY <2>1, <2>2
<1>6. remaining \in 1..MaxFrames /\ f + remaining - start <= MaxFrames
      /\ start <= f /\ start \in Nat /\ depth > 0 /\ depth \in Nat
  <2>1. CASE Restores
    BY <1>2, <1>3, <2>1, RingAssumption
  <2>2. CASE ~Restores
    BY <1>1, <1>2, <1>4, <2>2, RingAssumption
    DEF IInv, ReplayBounded, ReplayDepthHonest
  <2> QED
    BY <2>1, <2>2
<1>7. /\ ring' = saved /\ replay_start' = start
      /\ stepped => /\ Step(state, f, a) /\ replay_remaining' = remaining - 1
                    /\ replay_depth' = DepthAfter(remaining, depth)
      /\ ~stepped => /\ emu' = state /\ frame' = f /\ replay_remaining' = remaining
                     /\ replay_depth' = depth
  BY DEF TickReplay
(* A pending rollback that stays pending lies in the replayed frames. *)
<1>8. pending_rollback' >= 0 =>
        /\ pending_rollback' = pending_rollback /\ ~Restores
        /\ replay_start <= pending_rollback /\ pending_rollback < frame
        /\ RingHas(RingNow, pending_rollback)
  <2> SUFFICES ASSUME pending_rollback' >= 0 PROVE
        /\ pending_rollback' = pending_rollback /\ ~Restores
        /\ replay_start <= pending_rollback /\ pending_rollback < frame
        /\ RingHas(RingNow, pending_rollback)
    OBVIOUS
  <2>1. ~Restores /\ pending_rollback' = pending_rollback
    BY DEF TickReplay
  <2>2. replay_start <= pending_rollback
    BY <1>2, <1>4, <2>1 DEF StartsRollback
  <2>3. frame - pending_rollback \in 1..MaxFrames /\ RingHas(ring, pending_rollback)
    BY <2>1 DEF IInv, PendingRestorable
  <2>4. pending_rollback \in Nat /\ pending_rollback < frame
        /\ frame - pending_rollback <= MaxFrames
    BY <1>2, <2>1, <2>3, RingAssumption
  <2> QED
    BY <2>1, <2>2, <2>3, <2>4, RingNowFacts
<1>9. endpoint_save_pending' <=> (stepped /\ remaining = 1)
  <2>1. ~EndpointWaits
    BY DEF EndpointWaits, SavesEndpoint, IInv, EndpointAfterReplay
  <2> QED
    BY <2>1 DEF TickReplay
<1> HIDE DEF f, state, remaining, depth, start, a
<1>10. Indexed(saved) /\ Timely(saved, state, f)
       /\ \A v \in Vector : Timely(saved, Append(state, v), f + 1)
  <2>1. Timely(RingNow, state, f)
    BY <1>2, <1>5, PrefixOfPrefix DEF Timely, RingType
  <2>2. [s \in Slots |-> Zero] \in Vector
    BY ZeroType DEF Vector
  <2>3. f \in Nat
    BY <1>2, <1>5
  <2>4. ASSUME NEW v \in Vector
        PROVE  Indexed(saved) /\ Timely(saved, state, f)
               /\ Timely(saved, Append(state, v), f + 1)
    BY <1>2, <1>5, <2>1, <2>3, SaveOnTimeline
  <2> HIDE DEF saved
  <2> QED
    BY <2>2, <2>4
<1>11. saved \in RingType
  BY <1>1, <1>7 DEF TypeOK, RingType
<1> HIDE DEF saved
<1>12. PICK v \in Vector : stepped => emu' = Append(state, v) /\ frame' = f + 1
  <2>1. Applied(inputs', a) \in Vector
    <3>1. inputs' \in InputsType /\ a \in Int
      BY <1>1, <1>5, ReplayTagType, SMTT(30) DEF TypeOK, InputsType, a
    <3> QED
      BY <3>1, AppliedType
  <2> QED
    BY <1>7, <2>1 DEF Step
<1>13. LengthIsFrame' /\ RingIndexed' /\ RingOnTimeline'
  <2>1. CASE stepped
    <3>1. Len(emu') = frame'
      BY <1>5, <1>12, <2>1, AppendProperties
    <3>2. Timely(ring', emu', frame')
      BY <1>7, <1>10, <1>12, <2>1
    <3> QED
      BY <1>7, <1>10, <3>1, <3>2
      DEF LengthIsFrame, RingIndexed, RingOnTimeline, Indexed, Timely
  <2>2. CASE ~stepped
    BY <1>5, <1>7, <1>10, <2>2
    DEF LengthIsFrame, RingIndexed, RingOnTimeline, Indexed, Timely
  <2> QED
    BY <2>1, <2>2
<1>14. SavedIsCurrent' /\ EndpointAfterReplay'
  <2>1. replay_remaining' = 0 <=> (stepped /\ remaining = 1)
    BY <1>6, <1>7
  <2> QED
    BY <1>9, <2>1 DEF SavedIsCurrent, EndpointAfterReplay
<1>15. ReplayDepthHonest' /\ ReplayBounded'
  <2>1. CASE stepped
    BY <1>5, <1>6, <1>7, <1>12, <2>1
    DEF ReplayDepthHonest, ReplayBounded, DepthAfter
  <2>2. CASE ~stepped
    BY <1>5, <1>6, <1>7, <2>2 DEF ReplayDepthHonest, ReplayBounded
  <2> QED
    BY <2>1, <2>2
<1>16. PendingRestorable'
  <2> SUFFICES ASSUME pending_rollback' >= 0
               PROVE  frame' - pending_rollback' \in 1..MaxFrames
                      /\ RingHas(ring', pending_rollback')
    BY DEF PendingRestorable
  <2>1. /\ pending_rollback' = pending_rollback /\ f = frame
        /\ replay_start <= pending_rollback /\ pending_rollback < frame
        /\ RingHas(RingNow, pending_rollback) /\ start = replay_start
    BY <1>8 DEF f, start
  <2>2. frame' = frame + 1 \/ frame' = frame
    BY <1>7, <1>12, <2>1
  <2>3. pending_rollback \in Nat /\ frame - pending_rollback <= MaxFrames - 1
    BY <1>2, <1>6, <2>1, RingAssumption
  <2>4. RingHas(saved, pending_rollback)
    <3>1. f \in Nat /\ pending_rollback < f /\ f - pending_rollback <= MaxFrames
      BY <1>2, <2>1, <2>3, RingAssumption
    <3> QED
      BY <1>2, <2>1, <2>3, <3>1, SaveKeepsFrame DEF saved
  <2>5. frame' - pending_rollback \in 1..MaxFrames
    <3>1. /\ frame \in Int /\ pending_rollback \in Int /\ MaxFrames \in Int
          /\ frame - pending_rollback <= MaxFrames - 1 /\ pending_rollback < frame
      BY <1>2, <2>1, <2>3, RingAssumption
    <3> QED
      BY <2>2, <3>1
  <2> QED
    BY <1>7, <2>1, <2>4, <2>5
<1>17. f \in 0..Len(emu) /\ (emu' = state \/ emu' = Append(state, v))
       /\ state = SubSeq(emu, 1, f)
  BY <1>2, <1>5, <1>7, <1>12
<1>18. IInv'
  BY <1>1, <1>13, <1>14, <1>15, <1>16 DEF IInv
<1> QED
  BY <1>12, <1>17, <1>18

(***************************************************************************)
(* The invariant holds, and what follows from it.                          *)
(***************************************************************************)

LEMMA NextInv == IInv /\ [Next]_vars => IInv'
<1> SUFFICES ASSUME IInv, [Next]_vars PROVE IInv'
  OBVIOUS
<1>1. ASSUME NEW adv \in FrameAdvantages, TickPaced(adv) PROVE IInv'
  BY <1>1, PacedInv
<1>2. ASSUME NEW adv \in FrameAdvantages, NEW stepped \in BOOLEAN,
             TickReplay(adv, stepped)
      PROVE  IInv'
  BY <1>2, ReplayInv
<1>3. ASSUME NEW adv \in FrameAdvantages, NEW stepped \in BOOLEAN,
             TickNormal(adv, stepped)
      PROVE  IInv'
  BY <1>3, NormalInv
<1>4. CASE Feed
  BY <1>4, FeedInv DEF Feed
<1>5. ASSUME NEW d \in Delays, SetDelay(d) PROVE IInv'
  BY <1>5, SetDelayInv
<1>6. ASSUME NEW s \in ResetSlots, SlotReset(s) PROVE IInv'
  BY <1>6, SlotResetInv
<1>7. CASE UNCHANGED vars
  <2>1. TypeOK'
    BY <1>7, NextType DEF IInv
  <2>2. UNCHANGED <<frame, ringVars, replayVars, emu, pending_rollback>>
    BY <1>7 DEF vars
  <2>3. PendingRestorable'
    BY <2>2 DEF IInv, PendingRestorable, RingHas, ringVars
  <2> QED
    BY <2>1, <2>2, <2>3, QuietInv
<1> QED
  BY <1>1, <1>2, <1>3, <1>4, <1>5, <1>6, <1>7 DEF Next, Tick

THEOREM Invariance == Spec => []IInv
  BY InitInv, NextInv, PTL DEF Spec

(* R5: kn_pre_tick returns the replay code whenever replay_depth is set;   *)
(* the R5-DIAG and RB-INVARIANT-FIXUP repairs are never needed.            *)
THEOREM DepthHonest == Spec => []ReplayDepthHonest
<1>1. IInv => ReplayDepthHonest
  BY DEF IInv
<1> QED
  BY <1>1, Invariance, PTL

(* An accepted rollback finds its state: RESTORE-FAILED is unreachable.    *)
THEOREM RollbackRestorable == Spec => []PendingRestorable
<1>1. IInv => PendingRestorable
  BY DEF IInv
<1> QED
  BY <1>1, Invariance, PTL

(* The ring never holds a state of an abandoned timeline.                  *)
THEOREM RingTimely == Spec => []RingOnTimeline
<1>1. IInv => RingOnTimeline
  BY DEF IInv
<1> QED
  BY <1>1, Invariance, PTL

(* The emulator implements Timeline: each step of the engine runs a frame  *)
(* from a state of the emulator's own past, or goes back to one, or leaves *)
(* the emulator alone.                                                     *)
LEMMA StepOnHistory ==
  ASSUME IInv, [Next]_vars
  PROVE  [History!Next]_emu
<1>1. emu \in Seq(Vector) /\ Len(emu) \in Nat
  BY LenProperties DEF IInv, TypeOK
<1>2. SubSeq(emu, 1, Len(emu)) = emu /\ Len(emu) \in 0..Len(emu)
  BY <1>1, WholePrefix
<1>3. ASSUME NEW adv \in FrameAdvantages, NEW stepped \in BOOLEAN,
             TickReplay(adv, stepped)
      PROVE  [History!Next]_emu
  BY <1>3, ReplayInv
  DEF History!Next, History!Rewind, History!Run, History!Past
<1>4. ASSUME NEW adv \in FrameAdvantages, NEW stepped \in BOOLEAN,
             TickNormal(adv, stepped)
      PROVE  [History!Next]_emu
  <2>1. emu' = emu \/ \E v \in Vector : emu' = Append(emu, v)
    BY <1>4, NormalInv
  <2>2. emu \in History!Past
    BY <1>2 DEF History!Past
  <2> QED
    BY <2>1, <2>2 DEF History!Next, History!Run
<1>5. ASSUME NEW adv \in FrameAdvantages, TickPaced(adv) PROVE emu' = emu
  BY <1>5 DEF TickPaced
<1>6. CASE Feed
  BY <1>6 DEF Feed, FeedInput
<1>7. ASSUME NEW d \in Delays, SetDelay(d) PROVE emu' = emu
  BY <1>7 DEF SetDelay
<1>8. ASSUME NEW s \in ResetSlots, SlotReset(s) PROVE emu' = emu
  BY <1>8 DEF SlotReset
<1>9. CASE UNCHANGED vars
  BY <1>9 DEF vars
<1> QED
  BY <1>3, <1>4, <1>5, <1>6, <1>7, <1>8, <1>9 DEF Next, Tick

THEOREM ImplementsTimeline == Spec => StaysOnHistory
<1>1. Init => History!Init
  BY DEF Init, History!Init
<1>2. IInv /\ [Next]_vars => [History!Next]_emu
  BY StepOnHistory
<1> QED
  BY <1>1, <1>2, Invariance, PTL DEF Spec, StaysOnHistory, History!Spec


-----------------------------------------------------------------------------
(***************************************************************************)
(* No silent drift, for every value of RollbackEngine's constants: which    *)
(* inputs the frames of the emulator's timeline ran with.                   *)
(*                                                                         *)
(* The engine remembers the inputs and the guesses of InputRing frames, and *)
(* a rewind never goes further back than MaxFrames frames from the newest   *)
(* frame it ever began.  Call that frame top: every part of the invariant   *)
(* speaks of the frames of the window that ends there, the only ones whose  *)
(* places in the rings have not been used again.                            *)
(***************************************************************************)

AllDelays == Delays \cup {InitDelay}

(* Frame f has its place in the input ring still.                           *)
Held(f, top) == f > top - InputRing

(* How far back the timeline can have gone from the newest frame begun.     *)
HasBegun(top) ==
  /\ top \in Int /\ top >= -1 /\ top < MaxFrame
  /\ frame <= top + 1 /\ frame + replay_remaining <= top + 1
  /\ frame >= top - MaxFrames

(* Every frame begun has its tag, some delay before it.                     *)
TagsOf(top) ==
  /\ \A i \in Idx : applied_tag[i].frame <= top
  /\ \A f \in 0..top : Held(f, top) => Tagged(f)
  /\ \A f \in 0..top : Tagged(f) => \E d \in AllDelays : TagOf(f) = f - d

(* The slot of a frame begun holds no older frame.                          *)
Saved(r, top) == \A f \in 0..top : r[f % RingSize].frame >= f

(* The local inputs of the frames begun are in the input ring.              *)
LocalsOf(top) ==
  \A f \in 0..top :
    Held(f, top) => inputs[Local][f % InputRing] = [frame |-> f, in |-> LocalInput[f]]

TagInv(top) == /\ HasBegun(top) /\ TagsOf(top) /\ Saved(ring, top) /\ LocalsOf(top)
               /\ delay_frames \in AllDelays /\ LocalAsSent

(***************************************************************************)
(* One frame, replayed or new.                                             *)
(***************************************************************************)

(* The engine runs, or begins to run, frame f on input frame a, guessing    *)
(* the input of the slots of S.                                             *)
RunsFrame(f, a, S, ins) ==
  /\ f \in 0..frame /\ a \in Int
  /\ S \subseteq Remote /\ StoreGuess(S, a, ins)
  /\ RecordTag(f, a)
  /\ ring' = [RingNow EXCEPT ![f % RingSize] = [frame |-> f, state |-> SubSeq(emu, 1, f)]]
  /\ \/ frame' = f /\ emu' = SubSeq(emu, 1, f)
     \/ frame' = f + 1 /\ emu' = Append(SubSeq(emu, 1, f), Applied(inputs', a))
  /\ UNCHANGED <<delay_frames, real, trusted, slot_active>>

LEMMA NormalRuns ==
  ASSUME IInv, NEW adv, NEW stepped \in BOOLEAN, TickNormal(adv, stepped)
  PROVE  /\ RunsFrame(frame, frame - delay_frames, Guessed(frame - delay_frames), StoreLocal)
         /\ frame < MaxFrame /\ replay_remaining = 0 /\ replay_remaining' = 0
         /\ pending_rollback < 0 /\ pending_rollback' < 0 /\ failed' = failed
<1>1. /\ frame \in Nat /\ emu \in Seq(Vector) /\ Len(emu) = frame
      /\ delay_frames \in Int
  BY DEF IInv, TypeOK, LengthIsFrame
<1>2. SubSeq(emu, 1, frame) = emu
  BY <1>1, WholePrefix
<1>3. /\ StoreGuess(Guessed(frame - delay_frames), frame - delay_frames, StoreLocal)
      /\ RecordTag(frame, frame - delay_frames) /\ frame < MaxFrame
      /\ UNCHANGED <<delay_frames, real, trusted>>
      /\ \/ frame' = frame /\ emu' = emu
         \/ Step(emu, frame, frame - delay_frames)
  BY DEF TickNormal, ghostVars
<1>4. UNCHANGED slot_active /\ Guessed(frame - delay_frames) \subseteq Remote
  BY <1>3 DEF StoreGuess, Guessed
<1> QED
  BY <1>1, <1>2, <1>3, <1>4, NormalFacts DEF RunsFrame, Step

(* The first frame a replay runs in this tick, and the frames it has left.  *)
ReplayedFrame == IF Restores THEN pending_rollback ELSE frame
FramesLeft    == IF Restores THEN frame - pending_rollback ELSE replay_remaining

LEMMA ReplayRuns ==
  ASSUME IInv, NEW adv, NEW stepped \in BOOLEAN, TickReplay(adv, stepped)
  PROVE  /\ RunsFrame(ReplayedFrame, ReplayTag(ReplayedFrame),
                      Reguessed(ReplayTag(ReplayedFrame)), inputs)
         /\ FramesLeft \in Nat \ {0}
         /\ ReplayedFrame + FramesLeft <= frame + replay_remaining
         /\ frame' + replay_remaining' = ReplayedFrame + FramesLeft
         /\ \/ /\ RingHas(RingNow, ReplayedFrame) /\ ReplayedFrame < frame
               /\ pending_rollback = ReplayedFrame /\ pending_rollback' = -1
            \/ ReplayedFrame = frame /\ pending_rollback' = pending_rollback
         /\ failed' = failed
<1> DEFINE f == ReplayedFrame
           state == IF Restores THEN RingNow[f % RingSize].state ELSE emu
           a == ReplayTag(f)
<1>1. /\ frame \in Nat /\ emu \in Seq(Vector) /\ Len(emu) = frame
      /\ pending_rollback \in Int /\ RingNow \in RingType /\ replay_remaining \in Nat
      /\ Timely(RingNow, emu, frame)
  BY RingNowFacts DEF IInv, TypeOK, LengthIsFrame
<1>2. Restores => /\ f \in 0..frame-1 /\ f = pending_rollback
                  /\ frame - f \in 1..MaxFrames /\ RingHas(RingNow, f)
  BY <1>1, RingAssumption DEF Restores, StartsRollback, ReplayedFrame
<1>3. ~Restores => f = frame /\ replay_remaining > 0
  BY DEF TickReplay, ReplayedFrame
<1>4. f \in 0..frame /\ FramesLeft \in Nat \ {0}
      /\ f + FramesLeft <= frame + replay_remaining
  <2>1. CASE Restores
    BY <1>1, <1>2, <2>1, RingAssumption DEF FramesLeft
  <2>2. CASE ~Restores
    BY <1>1, <1>3, <2>2 DEF FramesLeft
  <2> QED
    BY <2>1, <2>2
<1>5. state = SubSeq(emu, 1, f)
  <2>1. CASE Restores
    <3>1. f \in 0..frame-1 /\ RingNow[f % RingSize].frame = f
      BY <1>2, <2>1 DEF RingHas
    <3>2. state = RingNow[f % RingSize].state
      BY <2>1
    <3> HIDE DEF f, state
    <3>3. f % RingSize \in 0..MaxFrames
      BY <1>1, <3>1, RingIndex
    <3>4. RingNow[f % RingSize].state = SubSeq(emu, 1, f)
      BY <1>1, <3>1, <3>3 DEF Timely
    <3> QED
      BY <3>2, <3>4
  <2>2. CASE ~Restores
    BY <1>1, <1>3, <2>2, WholePrefix
  <2> QED
    BY <2>1, <2>2
<1>6. a \in Int
  <2>1. f \in Int
    BY <1>4
  <2> HIDE DEF f
  <2> QED
    BY <2>1, ReplayTagType DEF IInv
<1>7. /\ StoreGuess(Reguessed(a), a, inputs) /\ RecordTag(f, a)
      /\ ring' = [RingNow EXCEPT ![f % RingSize] = [frame |-> f, state |-> state]]
      /\ stepped => Step(state, f, a) /\ replay_remaining' = FramesLeft - 1
      /\ ~stepped => emu' = state /\ frame' = f /\ replay_remaining' = FramesLeft
      /\ pending_rollback' = IF Restores THEN -1 ELSE pending_rollback
      /\ UNCHANGED <<delay_frames, failed, real, trusted>>
  BY DEF TickReplay, ReplayedFrame, FramesLeft, ghostVars
<1>8. UNCHANGED slot_active /\ Reguessed(a) \subseteq Remote
  BY <1>7 DEF StoreGuess, Reguessed
<1> HIDE DEF state, f, a
<1>9. /\ \/ frame' = f /\ emu' = SubSeq(emu, 1, f)
         \/ frame' = f + 1 /\ emu' = Append(SubSeq(emu, 1, f), Applied(inputs', a))
      /\ frame' + replay_remaining' = f + FramesLeft
  <2>1. CASE stepped
    BY <1>4, <1>5, <1>7, <2>1 DEF Step
  <2>2. CASE ~stepped
    BY <1>4, <1>5, <1>7, <2>2
  <2> QED
    BY <2>1, <2>2
<1>10. RunsFrame(f, a, Reguessed(a), inputs)
  BY <1>4, <1>5, <1>6, <1>7, <1>8, <1>9 DEF RunsFrame
<1>11. \/ RingHas(RingNow, f) /\ f < frame /\ pending_rollback = f /\ pending_rollback' = -1
       \/ f = frame /\ pending_rollback' = pending_rollback
  <2>1. CASE Restores
    BY <1>1, <1>2, <1>7, <2>1
  <2>2. CASE ~Restores
    BY <1>3, <1>7, <2>2
  <2> QED
    BY <2>1, <2>2
<1>12. failed' = failed
  BY <1>7
<1> QED
  BY <1>4, <1>9, <1>10, <1>11, <1>12 DEF f, a

(* The frames before the one that runs ran as they did.                     *)
LEMMA PastKept ==
  ASSUME IInv, TypeOK', NEW f, NEW a, NEW S, NEW ins, RunsFrame(f, a, S, ins)
  PROVE  /\ \A g \in 0..f-1 : emu'[g+1] = emu[g+1]
         /\ frame' \in {f, f+1}
         /\ frame' = f + 1 => emu'[f+1] = Applied(inputs', a)
<1> DEFINE p == SubSeq(emu, 1, f)
<1>1. emu \in Seq(Vector) /\ Len(emu) = frame /\ f \in 0..Len(emu) /\ frame \in Nat
      /\ a \in Int
  BY DEF IInv, TypeOK, LengthIsFrame, RunsFrame
<1>2. p \in Seq(Vector) /\ Len(p) = f /\ \A i \in 1..f : p[i] = emu[i]
  BY <1>1, SubSeqProperties
<1>3. Applied(inputs', a) \in Vector
  BY <1>1, AppliedType DEF TypeOK, InputsType
<1> DEFINE v == Applied(inputs', a)
<1>4. \/ frame' = f /\ emu' = p
      \/ frame' = f + 1 /\ emu' = Append(p, v)
  BY DEF RunsFrame
<1> HIDE DEF p, v
<1>5. Append(p, v)[f+1] = v /\ \A i \in 1..f : Append(p, v)[i] = p[i]
  BY <1>1, <1>2, <1>3, AppendProperties DEF v
<1>6. f \in Int /\ \A g \in 0..f-1 : g + 1 \in 1..f
  BY <1>1
<1>7. \A i \in 1..f : emu'[i] = emu[i]
  BY <1>2, <1>4, <1>5
<1>8. \A g \in 0..f-1 : emu'[g+1] = emu[g+1]
  BY <1>6, <1>7
<1>9. ASSUME frame' = f + 1 PROVE emu'[f+1] = v
  <2>1. frame' # f
    BY <1>6, <1>9
  <2>2. emu' = Append(p, v)
    BY <1>4, <2>1
  <2> QED
    BY <1>5, <2>2
<1> QED
  BY <1>4, <1>8, <1>9 DEF v

(***************************************************************************)
(* Places in the rings.                                                    *)
(***************************************************************************)

LEMMA ModPlus ==
  ASSUME NEW n \in Nat \ {0}, NEW a \in Int
  PROVE  (a + n) % n = a % n
<1>1. \A m \in Int : /\ m \div n \in Int /\ m % n \in 0..n-1
                     /\ m = n * (m \div n) + (m % n)
  OBVIOUS
<1>2. \A k \in Int : k >= 1 => n * k >= n
  OBVIOUS
<1>3. \A k \in Int : k <= -1 => n * k <= -n
  OBVIOUS
<1> DEFINE b == a + n
           p == a \div n
           q == b \div n
           u == a % n
           v == b % n
<1>b. b \in Int /\ b = a + n
  OBVIOUS
<1> HIDE DEF b
<1>p. p \in Int /\ u \in 0..n-1 /\ a = n * p + u
  BY <1>1
<1>q. q \in Int /\ v \in 0..n-1 /\ b = n * q + v
  BY <1>1, <1>b
<1> HIDE DEF p, q, u, v
<1>4. /\ p \in Int /\ q \in Int /\ u \in 0..n-1 /\ v \in 0..n-1
      /\ a = n * p + u /\ a + n = n * q + v
  BY <1>b, <1>p, <1>q
<1>5. n * (q - p - 1) = n * q - n * p - n
  BY <1>4
<1>6. n * (q - p - 1) = u - v
  BY <1>4, <1>5
<1>7. q - p - 1 = 0
  BY <1>2, <1>3, <1>4, <1>6
<1> QED
  BY <1>4, <1>6, <1>7 DEF u, v, b

(* Two frames of the window have places of their own in the input ring.     *)
LEMMA HeldDistinct ==
  ASSUME NEW top \in Int, NEW f \in Int, NEW g \in Int, f # g,
         f <= top, g <= top, Held(f, top), Held(g, top)
  PROVE  f % InputRing # g % InputRing
<1>1. InputRing \in Nat \ {0}
  BY RingAssumption
<1>2. CASE f < g
  <2>1. g - f < InputRing
    BY <1>1, <1>2 DEF Held
  <2> QED
    BY <1>1, <1>2, <2>1, ModDistinct
<1>3. CASE g < f
  <2>1. f - g < InputRing
    BY <1>1, <1>3 DEF Held
  <2> QED
    BY <1>1, <1>3, <2>1, ModDistinct
<1> QED
  BY <1>2, <1>3

(* A frame the timeline can have gone back to is held, with its tag.        *)
LEMMA TimelineHeld ==
  ASSUME NEW top \in Int, NEW f \in Int, f >= top - MaxFrames, NEW d \in AllDelays
  PROVE  Held(f, top) /\ Held(f - d, top) /\ d \in Nat \ {0}
<1>1. d \in Nat \ {0} /\ MaxFrames \in Nat /\ InputRing \in Nat /\ MaxFrames + d < InputRing
  BY DelayAssumption, RingAssumption, WindowFits DEF AllDelays
<1> QED
  BY <1>1 DEF Held

(* Saving frame f leaves no slot with an older frame than it should hold.   *)
LEMMA SaveKeepsSaved ==
  ASSUME NEW r \in RingType, NEW top \in Int, NEW f \in Nat, NEW x, Saved(r, top),
         f >= top - MaxFrames, f <= top + 1
  PROVE  LET r2 == [r EXCEPT ![f % RingSize] = [frame |-> f, state |-> x]]
         IN Saved(r2, top) /\ (f > top => Saved(r2, f))
<1> DEFINE r2 == [r EXCEPT ![f % RingSize] = [frame |-> f, state |-> x]]
<1>1. /\ r2[f % RingSize].frame = f
      /\ \A g \in Nat : g % RingSize # f % RingSize => r2[g % RingSize] = r[g % RingSize]
  BY RingIndex DEF RingType
<1> HIDE DEF r2
<1>2. ASSUME NEW g \in Nat, g <= top \/ g = f PROVE r2[g % RingSize].frame >= g
  <2>1. CASE g % RingSize = f % RingSize
    <3>1. SUFFICES ASSUME g > f PROVE FALSE
      BY <1>1, <2>1
    <3>2. RingSize \in Nat \ {0} /\ g - f < RingSize /\ f \in Int /\ g \in Int
      BY <1>2, <3>1, RingAssumption DEF RingSize
    <3> QED
      BY <2>1, <3>1, <3>2, ModDistinct
  <2>2. CASE g % RingSize # f % RingSize
    <3>1. g \in 0..top
      BY <1>2, <2>2
    <3> QED
      BY <1>1, <2>2, <3>1 DEF Saved
  <2> QED
    BY <2>1, <2>2
<1>3. Saved(r2, top)
  BY <1>2 DEF Saved
<1>4. f > top => Saved(r2, f)
  <2>1. f > top => \A g \in 0..f : g \in Nat /\ (g <= top \/ g = f)
    OBVIOUS
  <2> QED
    BY <1>2, <2>1 DEF Saved
<1> QED
  BY <1>3, <1>4 DEF r2

LEMMA RingNowSaved ==
  ASSUME IInv, NEW top, HasBegun(top), Saved(ring, top)
  PROVE  Saved(RingNow, top)
<1>1. ring \in RingType /\ frame \in Nat
  BY DEF IInv, TypeOK, RingType
<1>2. CASE SavesEndpoint
  BY <1>1, <1>2, SaveKeepsSaved DEF RingNow, SaveAt, HasBegun
<1>3. CASE ~SavesEndpoint
  BY <1>3 DEF RingNow
<1> QED
  BY <1>2, <1>3

(* A frame whose state is in the ring is one of the last MaxFrames.         *)
LEMMA SavedIsRecent ==
  ASSUME NEW top \in Int, top >= -1, NEW r \in RingType, Saved(r, top),
         NEW f \in Nat, RingHas(r, f)
  PROVE  f >= top - MaxFrames
<1> SUFFICES ASSUME f < top - MaxFrames PROVE FALSE
  BY RingAssumption
<1> DEFINE g == f + RingSize
<1>1. RingSize \in Nat \ {0} /\ RingSize = MaxFrames + 1 /\ MaxFrames \in Nat
  BY RingAssumption DEF RingSize
<1>2. g \in 0..top /\ g > f
  BY <1>1
<1>3. g % RingSize = f % RingSize
  <2>1. f \in Int
    OBVIOUS
  <2>2. (f + RingSize) % RingSize = f % RingSize
    BY <1>1, <2>1, ModPlus
  <2> QED
    BY <2>2
<1> HIDE DEF g
<1>4. r[f % RingSize].frame >= g
  BY <1>2, <1>3 DEF Saved
<1>5. r[f % RingSize].frame = f
  BY DEF RingHas
<1>6. f >= g
  BY <1>4, <1>5
<1>7. f \in Int /\ g \in Int
  BY <1>2
<1> QED
  BY <1>2, <1>6, <1>7

(***************************************************************************)
(* The tags and the local inputs.                                          *)
(***************************************************************************)

(* The newest frame begun, once frame f has.                                *)
NewTop(top, f) == IF f > top THEN f ELSE top

(* What a frame's tag is after frame f recorded its own.                    *)
LEMMA RecordedTags ==
  ASSUME TypeOK, NEW f \in Nat, NEW a \in Int, RecordTag(f, a)
  PROVE  /\ Tagged(f)' /\ TagOf(f)' = a
         /\ \A g \in Nat : g # f /\ Tagged(g)' => Tagged(g) /\ TagOf(g)' = TagOf(g)
         /\ \A g \in Nat : g % InputRing # f % InputRing /\ Tagged(g) => Tagged(g)'
<1>1. f % InputRing \in Idx /\ \A g \in Nat : g % InputRing \in Idx
  BY InputIndex
<1>2. /\ applied_tag'[f % InputRing] = [frame |-> f, tag |-> a]
      /\ \A g \in Nat : g % InputRing # f % InputRing =>
           applied_tag'[g % InputRing] = applied_tag[g % InputRing]
  BY <1>1 DEF RecordTag, TypeOK
<1>3. Tagged(f)' /\ TagOf(f)' = a
  BY <1>2 DEF Tagged, TagOf
<1>4. ASSUME NEW g \in Nat, g # f, Tagged(g)'
      PROVE  Tagged(g) /\ TagOf(g)' = TagOf(g)
  <2>1. g % InputRing # f % InputRing
    BY <1>2, <1>4 DEF Tagged
  <2> QED
    BY <1>2, <1>4, <2>1 DEF Tagged, TagOf
<1>5. ASSUME NEW g \in Nat, g % InputRing # f % InputRing, Tagged(g)
      PROVE  Tagged(g)'
  BY <1>2, <1>5 DEF Tagged
<1> QED
  BY <1>3, <1>4, <1>5

(* What one frame does to the tags, the saved states and the local inputs:  *)
(* f is replayed, or it is new; a is its input frame, some delay d before.  *)
LEMMA RunsTags ==
  ASSUME IInv, TypeOK', NEW top, TagInv(top), NEW f, NEW a, NEW S, NEW ins,
         RunsFrame(f, a, S, ins), NEW d \in AllDelays, a = f - d, f < MaxFrame,
         f >= top - MaxFrames, f <= top + 1,
         frame' + replay_remaining' <= NewTop(top, f) + 1,
         ins[Local] = inputs[Local] \/ (ins = StoreLocal /\ f = frame),
         f > top => ins = StoreLocal
  PROVE  TagInv(NewTop(top, f))'
<1> DEFINE new == NewTop(top, f)
<1>1. /\ frame \in Nat /\ f \in Nat /\ a \in Int /\ top \in Int /\ top >= -1
      /\ top < MaxFrame /\ frame' \in Nat /\ MaxFrames \in Nat /\ InputRing \in Nat
      /\ emu \in Seq(Vector) /\ MaxFrame \in Nat
  BY RingAssumption, WindowAssumption
  DEF IInv, TypeOK, TagInv, HasBegun, RunsFrame
<1>2. /\ new \in Int /\ new >= top /\ f <= new /\ new <= top + 1
      /\ (new > top => new = f)
  BY <1>1 DEF NewTop
<1>3. /\ Held(f, new) /\ Held(a, new) /\ f >= new - MaxFrames /\ d \in Nat \ {0}
      /\ a < f
  <2>1. f >= new - MaxFrames
    BY <1>1, <1>2
  <2> HIDE DEF new
  <2>2. Held(f, new) /\ Held(f - d, new) /\ d \in Nat \ {0}
    <3>1. f \in Int
      BY <1>1
    <3> QED
      BY <1>2, <2>1, <3>1, TimelineHeld
  <2> QED
    BY <1>1, <2>1, <2>2
<1>4. HasBegun(new)'
  <2>1. frame' \in {f, f+1}
    BY DEF RunsFrame
  <2>2. new < MaxFrame
    BY <1>1, <1>2
  <2> HIDE DEF new
  <2>3. frame' <= new + 1 /\ frame' >= new - MaxFrames /\ new >= -1
    BY <1>1, <1>2, <1>3, <2>1, SMTT(30)
  <2>4. frame' + replay_remaining' <= new + 1
    BY DEF new
  <2> QED
    BY <1>2, <2>2, <2>3, <2>4 DEF HasBegun
<1>5. /\ Tagged(f)' /\ TagOf(f)' = a
      /\ \A g \in Nat : g # f /\ Tagged(g)' => Tagged(g) /\ TagOf(g)' = TagOf(g)
      /\ \A g \in Nat : g % InputRing # f % InputRing /\ Tagged(g) => Tagged(g)'
  BY <1>1, RecordedTags DEF IInv, RunsFrame
<1> HIDE DEF new
<1>6. TagsOf(new)'
  <2>1. ASSUME NEW i \in Idx PROVE applied_tag'[i].frame <= new
    <3>1. top \in Int /\ new \in Int /\ f \in Int /\ top <= new /\ f <= new
      BY <1>1, <1>2
    <3>2. applied_tag[i].frame <= top /\ applied_tag[i].frame \in Int
      BY DEF TagInv, TagsOf, IInv, TypeOK
    <3>3. applied_tag'[i] = applied_tag[i] \/ applied_tag'[i].frame = f
      <4>1. applied_tag \in [Idx -> [frame : Int, tag : Int]]
        BY DEF IInv, TypeOK
      <4>2. RecordTag(f, a)
        BY DEF RunsFrame
      <4> QED
        BY <4>1, <4>2 DEF RecordTag
    <3>4. CASE applied_tag'[i].frame = f
      BY <3>1, <3>4
    <3>5. CASE applied_tag'[i] = applied_tag[i]
      BY <3>1, <3>2, <3>5
    <3> QED
      BY <3>3, <3>4, <3>5
  <2>2. ASSUME NEW g \in 0..new, Held(g, new) PROVE Tagged(g)'
    <3>1. CASE g = f
      BY <1>5, <3>1
    <3>2. CASE g # f
      <4>1. g \in 0..top /\ Held(g, top)
        BY <1>1, <1>2, <2>2, <3>2, SMTT(30) DEF Held
      <4>2. g % InputRing # f % InputRing
        BY <1>1, <1>2, <1>3, <2>2, <3>2, HeldDistinct
      <4> QED
        BY <1>5, <4>1, <4>2 DEF TagInv, TagsOf
    <3> QED
      BY <3>1, <3>2
  <2>3. ASSUME NEW g \in 0..new, Tagged(g)' PROVE \E e \in AllDelays : TagOf(g)' = g - e
    <3>1. CASE g = f
      BY <1>5, <3>1
    <3>2. CASE g # f
      <4>1. g \in 0..top /\ Tagged(g) /\ TagOf(g)' = TagOf(g)
        BY <1>1, <1>2, <1>5, <2>3, <3>2, SMTT(30)
      <4> QED
        BY <4>1 DEF TagInv, TagsOf
    <3> QED
      BY <3>1, <3>2
  <2> QED
    BY <2>1, <2>2, <2>3 DEF TagsOf
<1>7. Saved(ring', new)
  <2>1. Saved(RingNow, top) /\ RingNow \in RingType
    BY RingNowSaved, RingNowFacts DEF TagInv
  <2>2. ring' = [RingNow EXCEPT ![f % RingSize] = [frame |-> f, state |-> SubSeq(emu, 1, f)]]
    BY DEF RunsFrame
  <2>3. Saved(ring', top) /\ (f > top => Saved(ring', f))
    BY <1>1, <2>1, <2>2, SaveKeepsSaved
  <2>4. new = top \/ (f > top /\ new = f)
    BY <1>1 DEF new, NewTop
  <2> QED
    BY <2>3, <2>4
<1>8. LocalsOf(new)'
  <2>1. inputs' = [s \in Slots |-> IF s \in S
                     THEN [ins[s] EXCEPT ![a % InputRing] =
                             [frame |-> a, in |-> PredictInput(s)]]
                     ELSE ins[s]]
        /\ Local \notin S /\ Local \in Slots
    BY SlotAssumption DEF RunsFrame, StoreGuess, Slots
  <2>2. inputs'[Local] = ins[Local]
    BY <2>1
  <2>3. ASSUME NEW g \in 0..new, Held(g, new)
        PROVE  inputs'[Local][g % InputRing] = [frame |-> g, in |-> LocalInput[g]]
    <3>1. g \in Nat /\ g % InputRing \in Idx
      BY <1>2, InputIndex
    <3>2. g \in 0..top => inputs[Local][g % InputRing] = [frame |-> g, in |-> LocalInput[g]]
      BY <1>1, <1>2, <2>3 DEF TagInv, LocalsOf, Held
    <3>3. CASE ins[Local] = inputs[Local] /\ g <= top
      BY <2>2, <3>1, <3>2, <3>3
    <3>4. CASE ins = StoreLocal /\ f = frame
      <4>1. ins[Local] = [inputs[Local] EXCEPT ![frame % InputRing] =
                            [frame |-> frame, in |-> LocalInput[frame]]]
            /\ inputs[Local] \in [Idx -> Known]
        BY <2>1, <3>4 DEF StoreLocal, IInv, TypeOK
      <4>2. CASE g = frame
        BY <2>2, <3>1, <4>1, <4>2
      <4>3. CASE g # frame
        <5>1. g % InputRing # frame % InputRing
          BY <1>1, <1>2, <1>3, <2>3, <3>4, <4>3, HeldDistinct
        <5>2. g \in 0..top
          BY <1>1, <1>2, <3>1, <3>4, <4>3
        <5> QED
          BY <2>2, <3>1, <3>2, <4>1, <5>1, <5>2
      <4> QED
        BY <4>2, <4>3
    <3>5. g <= top \/ f > top
      BY <1>1, <1>2
    <3>6. f > top => f = frame
      BY <1>1 DEF TagInv, HasBegun, RunsFrame
    <3> QED
      BY <3>3, <3>4, <3>5, <3>6
  <2> QED
    BY <2>3 DEF LocalsOf
<1>9. LocalAsSent'
  <2> SUFFICES ASSUME NEW g \in 0..frame'-1, Tagged(g)', TagOf(g)' >= 0
               PROVE  emu'[g+1][Local] = LocalInput[TagOf(g)']
    BY DEF LocalAsSent
  <2>1. /\ \A h \in 0..f-1 : emu'[h+1] = emu[h+1]
        /\ frame' \in {f, f+1}
        /\ frame' = f + 1 => emu'[f+1] = Applied(inputs', a)
    BY PastKept
  <2>2. CASE g < f
    <3>1. g \in 0..f-1 /\ g \in 0..frame-1 /\ g \in Nat
      BY <1>1, <2>2 DEF RunsFrame
    <3>2. Tagged(g) /\ TagOf(g)' = TagOf(g)
      BY <1>1, <1>5, <2>2, <3>1
    <3>3. emu[g+1][Local] = LocalInput[TagOf(g)]
      BY <3>1, <3>2 DEF TagInv, LocalAsSent
    <3> QED
      BY <2>1, <3>1, <3>2, <3>3
  <2>3. CASE g = f
    <3>1. emu'[g+1] = Applied(inputs', a) /\ TagOf(g)' = a /\ a >= 0
      <4>1. frame' = f + 1
        <5>1. frame' \in Nat /\ g \in 0..frame'-1
          BY <1>1
        <5>2. ASSUME frame' = f PROVE FALSE
          <6>1. f \in 0..f-1 /\ f \in Nat
            BY <1>1, <2>3, <5>1, <5>2
          <6> QED
            BY <6>1
        <5> QED
          BY <2>1, <5>2
      <4>2. TagOf(g)' = a
        BY <1>5, <2>3
      <4> QED
        BY <2>1, <2>3, <4>1, <4>2
    <3>2. a \in 0..new
      BY <1>1, <1>2, <1>3, <3>1
    <3>3. inputs'[Local][a % InputRing] = [frame |-> a, in |-> LocalInput[a]]
      BY <1>3, <1>8, <3>2 DEF LocalsOf
    <3> QED
      BY <3>1, <3>3 DEF Applied, InputAt, Slots
  <2> QED
    BY <1>1, <2>1, <2>2, <2>3
<1>10. delay_frames' \in AllDelays
  BY DEF RunsFrame, TagInv
<1> QED
  BY <1>4, <1>6, <1>7, <1>8, <1>9, <1>10 DEF TagInv, new

LEMMA NormalTags ==
  ASSUME IInv, NEW top, TagInv(top), NEW adv, NEW stepped \in BOOLEAN,
         TickNormal(adv, stepped), NEW f, f = frame
  PROVE  TagInv(NewTop(top, f))'
<1> DEFINE a == f - delay_frames
<1>1. /\ RunsFrame(f, a, Guessed(a), StoreLocal)
      /\ f < MaxFrame /\ replay_remaining' = 0
  BY NormalRuns
<1>2. /\ f \in Nat /\ top \in Int /\ f >= top - MaxFrames /\ f <= top + 1
  BY DEF IInv, TypeOK, TagInv, HasBegun
<1>t. TypeOK'
  BY NormalType DEF IInv
<1>3. delay_frames \in AllDelays
  BY DEF TagInv
<1>4. frame' + replay_remaining' <= NewTop(top, f) + 1
  <2>1. frame' = f \/ frame' = f + 1
    BY <1>1 DEF RunsFrame
  <2>2. NewTop(top, f) \in Int /\ f <= NewTop(top, f)
    BY <1>2 DEF NewTop
  <2> QED
    BY <1>1, <1>2, <2>1, <2>2
<1>5. a = f - delay_frames
  OBVIOUS
<1> HIDE DEF a
<1> QED
  BY <1>1, <1>2, <1>t, <1>3, <1>4, <1>5, RunsTags

(* A replayed frame is of the window, and applies the tag it has.           *)
LEMMA ReplayedTag ==
  ASSUME IInv, NEW top, TagInv(top), NEW adv, NEW stepped \in BOOLEAN,
         TickReplay(adv, stepped)
  PROVE  /\ ReplayedFrame \in 0..top /\ ReplayedFrame >= top - MaxFrames
         /\ ReplayedFrame <= frame + replay_remaining - 1
         /\ Tagged(ReplayedFrame) /\ ReplayTag(ReplayedFrame) = TagOf(ReplayedFrame)
<1> DEFINE f == ReplayedFrame
<1>1. /\ frame \in Nat /\ top \in Int /\ top >= -1 /\ frame >= top - MaxFrames
      /\ frame + replay_remaining <= top + 1 /\ replay_remaining \in Nat
  BY DEF IInv, TypeOK, TagInv, HasBegun
<1>2. /\ f \in 0..frame /\ FramesLeft \in Nat \ {0}
      /\ f + FramesLeft <= frame + replay_remaining
      /\ (RingHas(RingNow, f) /\ f < frame) \/ f = frame
  BY ReplayRuns DEF RunsFrame
<1> HIDE DEF f
<1>3. f \in 0..top /\ f \in Nat /\ f <= frame + replay_remaining - 1
  BY <1>1, <1>2
<1>4. f >= top - MaxFrames
  <2>1. RingHas(RingNow, f) => f >= top - MaxFrames
    BY <1>1, <1>3, RingNowFacts, RingNowSaved, SavedIsRecent DEF TagInv
  <2> QED
    BY <1>1, <1>2, <2>1
<1>5. Tagged(f)
  <2>1. delay_frames \in AllDelays /\ f \in Int
    BY <1>3 DEF TagInv
  <2>2. Held(f, top)
    BY <1>1, <1>4, <2>1, TimelineHeld
  <2> QED
    BY <1>3, <2>2 DEF TagInv, TagsOf
<1>6. ReplayTag(f) = TagOf(f)
  BY <1>5 DEF ReplayTag, Tagged, TagOf
<1> QED
  BY <1>3, <1>4, <1>5, <1>6 DEF f

LEMMA ReplayTags ==
  ASSUME IInv, NEW top, TagInv(top), NEW adv, NEW stepped \in BOOLEAN,
         TickReplay(adv, stepped)
  PROVE  TagInv(top)'
<1>f. PICK f : f = ReplayedFrame
  OBVIOUS
<1> DEFINE a == ReplayTag(f)
<1>1. /\ f \in 0..top /\ f >= top - MaxFrames /\ f <= frame + replay_remaining - 1
      /\ Tagged(f) /\ a = TagOf(f)
  BY <1>f, ReplayedTag
<1>2. /\ RunsFrame(f, a, Reguessed(a), inputs)
      /\ f + FramesLeft <= frame + replay_remaining
      /\ frame' + replay_remaining' = f + FramesLeft /\ FramesLeft \in Nat
  BY <1>f, ReplayRuns
<1>3. top \in Int /\ top < MaxFrame /\ frame + replay_remaining <= top + 1
      /\ frame \in Nat /\ replay_remaining \in Nat
  BY DEF IInv, TypeOK, TagInv, HasBegun
<1>t. TypeOK'
  BY ReplayType DEF IInv
<1>4. PICK d \in AllDelays : a = f - d
  BY <1>1 DEF TagInv, TagsOf
<1> HIDE DEF a
<1>5. f \in Nat /\ f <= top + 1 /\ ~(f > top) /\ f < MaxFrame /\ MaxFrame \in Nat
  BY <1>1, <1>3, WindowAssumption
<1>6. NewTop(top, f) = top
  BY <1>5 DEF NewTop
<1>7. frame' + replay_remaining' <= NewTop(top, f) + 1
  BY <1>1, <1>2, <1>3, <1>6
<1>8. TagInv(NewTop(top, f))'
  BY <1>1, <1>2, <1>3, <1>t, <1>4, <1>5, <1>7, RunsTags
<1> QED
  BY <1>6, <1>8

(* An action that runs no frame.                                            *)
LEMMA QuietTags ==
  ASSUME NEW top, TagInv(top), Saved(ring', top), delay_frames' \in AllDelays,
         inputs'[Local] = inputs[Local],
         UNCHANGED <<frame, applied_tag, replay_remaining, emu>>
  PROVE  TagInv(top)'
<1>1. HasBegun(top)' /\ TagsOf(top)' /\ LocalsOf(top)' /\ LocalAsSent'
  BY DEF TagInv, HasBegun, TagsOf, LocalsOf, LocalAsSent, Tagged, TagOf
<1> QED
  BY <1>1 DEF TagInv

LEMMA InitTags == Init => TagInv(-1)
<1> SUFFICES ASSUME Init PROVE TagInv(-1)
  OBVIOUS
<1>1. /\ frame = 0 /\ replay_remaining = 0 /\ delay_frames = InitDelay
      /\ applied_tag = [i \in Idx |-> [frame |-> -1, tag |-> 0]]
  BY DEF Init
<1>2. MaxFrame \in Nat /\ MaxFrames \in Nat
  BY WindowAssumption, RingAssumption
<1>3. HasBegun(-1)
  BY <1>1, <1>2 DEF HasBegun
<1>4. TagsOf(-1)
  BY <1>1 DEF TagsOf
<1> QED
  BY <1>1, <1>3, <1>4 DEF TagInv, Saved, LocalsOf, LocalAsSent, AllDelays

LEMMA PacedTags ==
  ASSUME IInv, NEW top, TagInv(top), NEW adv, TickPaced(adv)
  PROVE  TagInv(top)'
<1>1. Saved(RingNow, top) /\ RingNow \in RingType
  BY RingNowSaved, RingNowFacts DEF TagInv
<1>2. frame \in Nat /\ top \in Int /\ frame >= top - MaxFrames /\ frame <= top + 1
  BY DEF IInv, TypeOK, TagInv, HasBegun
<1>3. Saved(SaveAt(RingNow, frame), top)
  BY <1>1, <1>2, SaveKeepsSaved DEF SaveAt
<1>4. Saved(ring', top)
  BY <1>1, <1>3 DEF TickPaced, MaintainRing
<1> QED
  BY <1>4, QuietTags DEF TickPaced, TagInv, inputVars, replayVars

LEMMA FeedTags ==
  ASSUME IInv, NEW top, TagInv(top), NEW s \in Remote, NEW f \in 0..MaxFrame,
         NEW v \in RealInputs, FeedInput(s, f, v)
  PROVE  TagInv(top)'
<1>1. /\ inputs' = [inputs EXCEPT ![s][f % InputRing] = [frame |-> f, in |-> v]]
      /\ UNCHANGED <<frame, delay_frames, applied_tag, ringVars, replayVars, emu>>
  BY DEF FeedInput, StoreReal
<1>2. inputs'[Local] = inputs[Local]
  BY <1>1, SlotAssumption DEF IInv, TypeOK, Slots
<1> QED
  BY <1>1, <1>2, QuietTags DEF TagInv, ringVars, replayVars

LEMMA SetDelayTags ==
  ASSUME NEW top, TagInv(top), NEW d \in Delays, SetDelay(d)
  PROVE  TagInv(top)'
<1>1. delay_frames' \in AllDelays
  BY DEF SetDelay, AllDelays
<1> QED
  BY <1>1, QuietTags DEF SetDelay, TagInv, inputVars, ringVars, replayVars

LEMMA SlotResetTags ==
  ASSUME IInv, NEW top, TagInv(top), NEW s \in ResetSlots, SlotReset(s)
  PROVE  TagInv(top)'
<1>1. /\ inputs' = [inputs EXCEPT ![s] = [i \in Idx |-> [@[i] EXCEPT !.frame = -1]]]
      /\ UNCHANGED <<frame, delay_frames, applied_tag, ringVars, replayVars, emu>>
  BY DEF SlotReset
<1>2. inputs'[Local] = inputs[Local]
  BY <1>1, SlotAssumption DEF IInv, TypeOK, Slots
<1> QED
  BY <1>1, <1>2, QuietTags DEF TagInv, ringVars, replayVars

TagsInv == IInv /\ \E top \in Int : TagInv(top)

LEMMA NextTags == TagsInv /\ [Next]_vars => TagsInv'
<1> SUFFICES ASSUME TagsInv, [Next]_vars PROVE \E top \in Int : TagInv(top)'
  BY NextInv DEF TagsInv
<1>1. PICK top \in Int : TagInv(top)
  BY DEF TagsInv
<1>2. IInv
  BY DEF TagsInv
<1>3. ASSUME NEW adv \in FrameAdvantages, TickPaced(adv) PROVE TagInv(top)'
  BY <1>1, <1>2, <1>3, PacedTags
<1>4. ASSUME NEW adv \in FrameAdvantages, NEW stepped \in BOOLEAN,
             TickReplay(adv, stepped)
      PROVE  TagInv(top)'
  BY <1>1, <1>2, <1>4, ReplayTags
<1>5. ASSUME NEW adv \in FrameAdvantages, NEW stepped \in BOOLEAN,
             TickNormal(adv, stepped)
      PROVE  \E n \in Int : TagInv(n)'
  <2>1. PICK f : f = frame
    OBVIOUS
  <2>2. TagInv(NewTop(top, f))'
    BY <1>1, <1>2, <1>5, <2>1, NormalTags
  <2>3. NewTop(top, f) \in Int
    BY <1>2, <2>1 DEF NewTop, IInv, TypeOK
  <2> QED
    BY <2>2, <2>3
<1>6. CASE Feed
  BY <1>1, <1>2, <1>6, FeedTags DEF Feed
<1>7. ASSUME NEW d \in Delays, SetDelay(d) PROVE TagInv(top)'
  BY <1>1, <1>7, SetDelayTags
<1>8. ASSUME NEW s \in ResetSlots, SlotReset(s) PROVE TagInv(top)'
  BY <1>1, <1>2, <1>8, SlotResetTags
<1>9. CASE UNCHANGED vars
  <2>1. UNCHANGED <<frame, delay_frames, inputs, applied_tag, replay_remaining, emu, ring>>
    BY <1>9 DEF vars, inputVars, ringVars, replayVars
  <2> QED
    BY <1>1, <2>1, QuietTags DEF TagInv
<1> QED
  BY <1>3, <1>4, <1>5, <1>6, <1>7, <1>8, <1>9 DEF Next, Tick

(* What every frame of the window ran with, under which tag, and what the   *)
(* rings hold of it, whatever is fed, replayed, reset or delayed.          *)
THEOREM TagsInvariance == Spec => []TagsInv
<1>1. Init => TagsInv
  BY InitInv, InitTags DEF TagsInv
<1> QED
  BY <1>1, NextTags, PTL DEF Spec

(* Every frame, replayed ones included, applies the local input that was    *)
(* sampled for its tag and sent to the other players: whatever the delay    *)
(* was when it ran, and though the delay has changed since.                 *)
THEOREM LocalInputsAreSent == Spec => []LocalAsSent
<1>1. TagsInv => LocalAsSent
  BY DEF TagsInv, TagInv
<1> QED
  BY <1>1, TagsInvariance, PTL

(* A frame that is replayed applies the input frame it applied the first    *)
(* time, whatever the delay is by then (kn_pre_tick's replay reads           *)
(* applied_tag): the tag a replay files is the one that was there, and no    *)
(* other step touches the tags while a replay is under way.                 *)
THEOREM ReplaysKeepTags == Spec => TagsKept
<1>1. ASSUME TagsInv, [Next]_vars PROVE KeepsTags
  <2> SUFFICES ASSUME replay_remaining' > 0 \/ replay_remaining > 0
               PROVE  applied_tag' = applied_tag
    BY DEF KeepsTags, TagOf
  <2>1. PICK top \in Int : TagInv(top)
    BY <1>1 DEF TagsInv
  <2>2. IInv
    BY <1>1 DEF TagsInv
  <2>3. ASSUME NEW adv \in FrameAdvantages, NEW stepped \in BOOLEAN,
               TickReplay(adv, stepped)
        PROVE  applied_tag' = applied_tag
    <3>1. PICK f : f = ReplayedFrame
      OBVIOUS
    <3>2. Tagged(f) /\ ReplayTag(f) = TagOf(f)
      BY <2>1, <2>2, <2>3, <3>1, ReplayedTag
    <3>3. RecordTag(f, ReplayTag(f))
      BY <2>2, <2>3, <3>1, ReplayRuns DEF RunsFrame
    <3>4. f \in Int /\ f % InputRing \in Idx
      BY <2>1, <2>2, <2>3, <3>1, ReplayedTag, RingAssumption DEF Idx
    <3>5. applied_tag[f % InputRing] = [frame |-> f, tag |-> TagOf(f)]
      BY <2>2, <3>2, <3>4 DEF IInv, TypeOK, Tagged, TagOf
    <3> QED
      BY <2>2, <3>2, <3>3, <3>4, <3>5 DEF RecordTag, IInv, TypeOK
  <2>4. ASSUME NEW adv \in FrameAdvantages, NEW stepped \in BOOLEAN,
               TickNormal(adv, stepped)
        PROVE  FALSE
    BY <2>2, <2>4, NormalRuns
  <2>5. CASE Feed
    BY <2>5 DEF Feed, FeedInput
  <2>6. ASSUME NEW adv \in FrameAdvantages, TickPaced(adv) PROVE applied_tag' = applied_tag
    BY <2>6 DEF TickPaced
  <2>7. ASSUME NEW d \in Delays, SetDelay(d) PROVE applied_tag' = applied_tag
    BY <2>7 DEF SetDelay
  <2>8. ASSUME NEW s \in ResetSlots, SlotReset(s) PROVE applied_tag' = applied_tag
    BY <2>8 DEF SlotReset
  <2>9. CASE UNCHANGED vars
    BY <2>9 DEF vars
  <2> QED
    BY <1>1, <2>3, <2>4, <2>5, <2>6, <2>7, <2>8, <2>9 DEF Next, Tick
<1>2. TagsInv /\ [Next]_vars => [KeepsTags]_vars
  BY <1>1
<1> QED
  BY <1>2, TagsInvariance, PTL DEF Spec, TagsKept

(***************************************************************************)
(* The guesses, while the delay is not raised.                             *)
(*                                                                         *)
(* A delay raised between two frames makes them share an input frame, and   *)
(* the guess the engine keeps for it is the one the later frame ran with    *)
(* (SharesTag): what follows is false then.                                *)
(***************************************************************************)

(* What the engine takes the input t of slot s to be, until it hears more.  *)
Expected(s, t) ==
  IF Checked(s, t) THEN predicted[s][t % InputRing].in ELSE real[s][t]

(* Frame f is of the timeline, those still to be replayed included.         *)
OnTimeline(f) == f < frame + replay_remaining

(* The frames of the timeline applied input frames in order: no two of them *)
(* the same.                                                               *)
TagsRise ==
  \A f, g \in Nat :
    f < g /\ OnTimeline(g) /\ Tagged(f) /\ Tagged(g) => TagOf(f) - f <= TagOf(g) - g
DelaysRise ==
  \A f \in Nat : OnTimeline(f) /\ Tagged(f) => TagOf(f) <= f - delay_frames

(* A place of the input ring holds the input, or the guess it is checked by.*)
GuessIsHeld ==
  \A s \in trusted, t \in 0..MaxFrame :
    inputs[s][t % InputRing].frame = t => inputs[s][t % InputRing].in = Expected(s, t)

AllActive == \A s \in trusted : slot_active[s]

(* A frame ran with what its inputs are taken to be, or will be replayed.   *)
RanExpected(top) ==
  \A s \in trusted, f \in 0..frame-1 :
    Tagged(f) /\ TagOf(f) >= 0 /\ Held(TagOf(f), top)
      => Covered(f) \/ emu[f+1][s] = Expected(s, TagOf(f))

GuessInv(top) == /\ TagsRise /\ DelaysRise /\ GuessIsHeld /\ AllActive
                 /\ ~failed => RanExpected(top)

(* No two frames before f applied input a.                                  *)
TagsBelow(f, a) == \A g \in 0..f-1 : Tagged(g) => TagOf(g) < a

(* Every trusted slot has an input for a, or gets a guess.                  *)
InputsGiven(S, a) ==
  \A s \in trusted : a >= 0 => s \in S \/ inputs[s][a % InputRing].frame = a

(* The frames before f that are to be replayed still are.                   *)
StaysCovered(f) == \A g \in 0..f-1 : Covered(g) => Covered(g)'

RemoteOf(ins) == \A s \in Remote : ins[s] = inputs[s]

(* The place of input a holds a guess, not checked yet, that the ring of    *)
(* inputs repeats.                                                         *)
FreshGuess(s, a) ==
  /\ inputs[s][a % InputRing].frame = a
  /\ inputs[s][a % InputRing].in = predicted[s][a % InputRing].in
  /\ Checked(s, a)

(* The step leaves the inputs of slot s, at all places or at all but a's.   *)
SlotKept(s) == inputs'[s] = inputs[s] /\ predicted'[s] = predicted[s]

OtherCellsKept(s, a) ==
  \A i \in Idx : i # a % InputRing =>
    inputs'[s][i] = inputs[s][i] /\ predicted'[s][i] = predicted[s][i]

(* A guess for input a leaves those of the other inputs of the window.      *)
LEMMA GuessedCells ==
  ASSUME TypeOK, NEW S, NEW a \in Int, NEW ins, S \subseteq Remote, StoreGuess(S, a, ins),
         NEW s \in Remote, ins[s] = inputs[s]
  PROVE  /\ s \in S => FreshGuess(s, a)'
         /\ s \notin S => SlotKept(s)
         /\ OtherCellsKept(s, a)
<1>1. s \in Slots /\ a % InputRing \in Idx
  BY InputIndex DEF Slots
<1>2. inputs[s] \in [Idx -> Known]
      /\ predicted[s] \in [Idx -> [on : BOOLEAN, frame : Int, in : Input]]
  BY <1>1 DEF TypeOK
<1>3. inputs'[s] = (IF s \in S THEN [inputs[s] EXCEPT ![a % InputRing] =
                                       [frame |-> a, in |-> PredictInput(s)]]
                    ELSE inputs[s])
  BY <1>1 DEF StoreGuess
<1>4. predicted'[s] = (IF s \in S THEN [predicted[s] EXCEPT ![a % InputRing] =
                                          [on |-> TRUE, frame |-> a, in |-> PredictInput(s)]]
                       ELSE predicted[s])
  BY <1>1 DEF StoreGuess
<1>5. OtherCellsKept(s, a)
  BY <1>2, <1>3, <1>4 DEF OtherCellsKept
<1>6. ASSUME s \in S PROVE FreshGuess(s, a)'
  <2>1. inputs'[s][a % InputRing] = [frame |-> a, in |-> PredictInput(s)]
    BY <1>1, <1>2, <1>3, <1>6
  <2>2. predicted'[s][a % InputRing] = [on |-> TRUE, frame |-> a, in |-> PredictInput(s)]
    BY <1>1, <1>2, <1>4, <1>6
  <2> QED
    BY <2>1, <2>2 DEF FreshGuess, Checked
<1>7. ASSUME s \notin S PROVE SlotKept(s)
  BY <1>3, <1>4, <1>7 DEF SlotKept
<1> QED
  BY <1>5, <1>6, <1>7

(* One frame, replayed or new: f runs on input a with the guesses of the    *)
(* slots of S; the other trusted slots have an input for a.                *)
LEMMA RunsDrift ==
  ASSUME IInv, TypeOK', NEW top \in Int, TagInv(top), GuessIsHeld, AllActive,
         NEW f \in 0..MaxFrame, NEW a \in Int, a < f, NEW S, NEW ins,
         RunsFrame(f, a, S, ins),
         RemoteOf(ins), InputsGiven(S, a), TagsBelow(f, a), StaysCovered(f),
         NEW new \in Int, top <= new, f <= new
  PROVE  GuessIsHeld' /\ AllActive' /\ (RanExpected(top) => RanExpected(new)')
<1>1. /\ frame \in Nat /\ f \in Nat /\ a \in Int /\ f \in 0..frame /\ MaxFrame \in Nat
      /\ UNCHANGED <<real, trusted, slot_active>> /\ S \subseteq Remote
      /\ StoreGuess(S, a, ins) /\ RecordTag(f, a) /\ top \in Int
      /\ trusted \subseteq Remote /\ TypeOK /\ frame' \in Nat
  <2>1. TypeOK /\ frame \in Nat /\ trusted \subseteq Remote
    BY DEF IInv, TypeOK
  <2>2. frame' \in Nat
    BY DEF TypeOK
  <2> QED
    BY <2>1, <2>2, WindowAssumption DEF RunsFrame, TagInv, HasBegun
<1>2. AllActive'
  BY <1>1 DEF AllActive
<1>3. \A t \in Int : t % InputRing \in Idx
  BY InputIndex
<1>4. ASSUME NEW s \in trusted, NEW t \in Int, t % InputRing # a % InputRing \/ s \notin S
      PROVE  /\ inputs'[s][t % InputRing] = inputs[s][t % InputRing]
             /\ Expected(s, t)' = Expected(s, t)
  <2>1. /\ inputs'[s][t % InputRing] = inputs[s][t % InputRing]
        /\ predicted'[s][t % InputRing] = predicted[s][t % InputRing]
    <3>1. s \in Remote /\ t % InputRing \in Idx
      BY <1>1, <1>3
    <3>2. (s \notin S => SlotKept(s)) /\ OtherCellsKept(s, a)
      <4>1. TypeOK /\ a \in Int /\ S \subseteq Remote /\ StoreGuess(S, a, ins)
            /\ s \in Remote /\ ins[s] = inputs[s]
        BY <1>1, <3>1 DEF RemoteOf
      <4> QED
        BY <4>1, GuessedCells
    <3> QED
      BY <1>4, <3>1, <3>2 DEF SlotKept, OtherCellsKept
  <2> QED
    BY <1>1, <2>1 DEF Expected, Checked
<1>5. ASSUME NEW s \in trusted, s \in S
      PROVE  /\ inputs'[s][a % InputRing].frame = a
             /\ inputs'[s][a % InputRing].in = Expected(s, a)'
  <2>1. FreshGuess(s, a)'
    <3>1. TypeOK /\ a \in Int /\ S \subseteq Remote /\ StoreGuess(S, a, ins)
          /\ s \in Remote /\ ins[s] = inputs[s]
      BY <1>1 DEF RemoteOf
    <3> QED
      BY <1>5, <3>1, GuessedCells
  <2> QED
    BY <2>1 DEF Expected, FreshGuess
<1>6. GuessIsHeld'
  <2> SUFFICES ASSUME NEW s \in trusted', NEW t \in 0..MaxFrame,
                      inputs'[s][t % InputRing].frame = t
               PROVE  inputs'[s][t % InputRing].in = Expected(s, t)'
    BY DEF GuessIsHeld
  <2>0. s \in trusted /\ t \in Int
    BY <1>1
  <2>1. CASE t % InputRing # a % InputRing \/ s \notin S
    BY <1>4, <2>0, <2>1 DEF GuessIsHeld
  <2>2. CASE t % InputRing = a % InputRing /\ s \in S
    <3>1. t = a
      BY <1>5, <2>0, <2>2
    <3> QED
      BY <1>5, <2>0, <2>2, <3>1
  <2> QED
    BY <2>1, <2>2
<1>7. ASSUME RanExpected(top) PROVE RanExpected(new)'
  <2>n. PICK n \in Nat : n = frame'
    BY <1>1
  <2> SUFFICES ASSUME NEW s \in trusted', NEW g \in 0..n-1, Tagged(g)',
                      TagOf(g)' >= 0, Held(TagOf(g)', new)
               PROVE  (Covered(g) \/ emu[g+1][s] = Expected(s, TagOf(g)))'
    BY <2>n DEF RanExpected
  <2>0. s \in trusted /\ s \in Slots /\ g \in Nat
    BY <1>1 DEF Slots
  <2>1. /\ \A h \in 0..f-1 : emu'[h+1] = emu[h+1]
        /\ frame' \in {f, f+1}
        /\ frame' = f + 1 => emu'[f+1] = Applied(inputs', a)
    BY PastKept
  <2>2. /\ TagOf(f)' = a
        /\ \A h \in Nat : h # f /\ Tagged(h)' => Tagged(h) /\ TagOf(h)' = TagOf(h)
    BY <1>1, RecordedTags
  <2>3. CASE g < f
    <3> DEFINE t == TagOf(g)
    <3>1. g \in 0..f-1 /\ g \in 0..frame-1 /\ Tagged(g) /\ TagOf(g)' = t
      BY <1>1, <2>0, <2>2, <2>3
    <3>2. t < a
      BY <3>1 DEF TagsBelow
    <3>3. t \in Int /\ t >= 0 /\ Held(t, new) /\ Held(t, top)
      <4>1. g % InputRing \in Idx
        BY <1>3, <2>0
      <4>2. t \in Int
        BY <1>1, <4>1 DEF TypeOK, TagOf
      <4>3. InputRing \in Nat
        BY RingAssumption
      <4> QED
        BY <1>1, <3>1, <4>2, <4>3 DEF Held
    <3>4. t % InputRing # a % InputRing
      <4>1. a <= new /\ t <= new /\ Held(a, new) /\ t # a
        <5>1. InputRing \in Nat
          BY RingAssumption
        <5> HIDE DEF t
        <5> QED
          BY <1>1, <3>2, <3>3, <5>1 DEF Held
      <4> HIDE DEF t
      <4> QED
        BY <1>1, <3>3, <4>1, HeldDistinct
    <3>5. Covered(g) \/ emu[g+1][s] = Expected(s, t)
      BY <1>7, <2>0, <3>1, <3>3 DEF RanExpected
    <3>6. PICK u : u = t
      OBVIOUS
    <3>7. Expected(s, u)' = Expected(s, u)
      BY <1>4, <2>0, <3>3, <3>4, <3>6
    <3>8. emu'[g+1][s] = emu[g+1][s]
      BY <2>1, <3>1
    <3>9. Covered(g) => Covered(g)'
      BY <3>1 DEF StaysCovered
    <3> QED
      BY <3>1, <3>5, <3>6, <3>7, <3>8, <3>9
  <2>4. CASE g = f
    <3>1. emu'[g+1] = Applied(inputs', a) /\ TagOf(g)' = a /\ a >= 0
      <4>1. n # f
        BY <2>4
      <4>2. TagOf(g)' = a
        BY <2>2, <2>4
      <4> QED
        BY <2>1, <2>4, <2>n, <4>1, <4>2
    <3>2. inputs'[s][a % InputRing].frame = a
      <4>1. CASE s \in S
        BY <1>5, <2>0, <4>1
      <4>2. CASE s \notin S
        BY <1>1, <1>4, <2>0, <3>1, <4>2 DEF InputsGiven
      <4> QED
        BY <4>1, <4>2
    <3>3. emu'[g+1][s] = inputs'[s][a % InputRing].in
      BY <2>0, <3>1, <3>2 DEF Applied, InputAt
    <3>4. a \in 0..MaxFrame
      BY <1>1, <3>1
    <3>5. inputs'[s][a % InputRing].in = Expected(s, a)'
      BY <1>6, <3>2, <3>4 DEF GuessIsHeld
    <3> QED
      BY <3>1, <3>3, <3>5
  <2> QED
    <3>1. n <= f + 1
      BY <2>1, <2>n
    <3> QED
      BY <2>3, <2>4, <3>1
<1> QED
  BY <1>2, <1>6, <1>7

LEMMA TagType ==
  ASSUME TypeOK, NEW f \in Int
  PROVE  TagOf(f) \in Int
BY InputIndex DEF TypeOK, TagOf

(* Replaying a frame leaves every tag of the timeline as it is.             *)
LEMMA ReplayKeepsOrder ==
  ASSUME IInv, NEW top \in Int, TagInv(top), TagsRise, DelaysRise, NEW adv,
         NEW stepped \in BOOLEAN, TickReplay(adv, stepped)
  PROVE  TagsRise' /\ DelaysRise'
<1>1. PICK f : f = ReplayedFrame
  OBVIOUS
<1>2. PICK a : a = ReplayTag(f)
  OBVIOUS
<1>3. /\ RunsFrame(f, a, Reguessed(a), inputs) /\ f \in Nat
      /\ Tagged(f) /\ a = TagOf(f)
  BY <1>1, <1>2, ReplayRuns, ReplayedTag
<1>4. ASSUME NEW g \in Nat, OnTimeline(g)' PROVE OnTimeline(g)
  <2>1. PICK n \in Nat, r \in Nat : n = frame' /\ r = replay_remaining'
    BY ReplayType DEF IInv, TypeOK
  <2>2. PICK m \in Nat, q \in Nat : m = frame /\ q = replay_remaining
    BY DEF IInv, TypeOK
  <2>3. n + r <= m + q
    BY <1>1, <2>1, <2>2, ReplayRuns
  <2>4. g < n + r
    BY <1>4, <2>1 DEF OnTimeline
  <2>5. g < m + q
    BY <2>3, <2>4
  <2> QED
    BY <2>2, <2>5 DEF OnTimeline
<1>5. \A g \in Nat : Tagged(g)' => Tagged(g) /\ TagOf(g)' = TagOf(g)
  <2>1. a \in Int /\ RecordTag(f, a) /\ TypeOK
    BY <1>3 DEF RunsFrame, IInv
  <2> QED
    BY <1>3, <2>1, RecordedTags
<1>7. DelaysRise'
  <2>1. delay_frames' = delay_frames
    BY <1>3 DEF RunsFrame
  <2> QED
    BY <1>4, <1>5, <2>1 DEF DelaysRise
<1>8. TagsRise'
  BY <1>4, <1>5 DEF TagsRise
<1> QED
  BY <1>7, <1>8

(* A new frame applies the input of the current delay: no lower than those  *)
(* of the frames before it.                                                *)
LEMMA NormalKeepsOrder ==
  ASSUME IInv, NEW top \in Int, TagInv(top), TagsRise, DelaysRise, NEW adv,
         NEW stepped \in BOOLEAN, TickNormal(adv, stepped)
  PROVE  TagsRise' /\ DelaysRise'
<1>1. PICK f \in Nat : f = frame
  BY DEF IInv, TypeOK
<1>2. PICK d \in Int : d = delay_frames
  BY DEF IInv, TypeOK
<1>3. /\ RecordTag(f, f - d) /\ TypeOK /\ delay_frames' = d
      /\ frame' = f \/ frame' = f + 1
  BY <1>1, <1>2, NormalRuns DEF RunsFrame, IInv
<1>4. replay_remaining = 0 /\ replay_remaining' = 0
  BY NormalRuns
<1>5. \A g \in Nat : OnTimeline(g)' => g <= f
  BY <1>3, <1>4 DEF OnTimeline
<1>6. \A g \in Nat : g < f => OnTimeline(g)
  BY <1>1, <1>4 DEF OnTimeline
<1>7. /\ TagOf(f)' = f - d
      /\ \A g \in Nat : g # f /\ Tagged(g)' => Tagged(g) /\ TagOf(g)' = TagOf(g)
  BY <1>3, RecordedTags
<1>8. \A g \in Nat : TagOf(g) \in Int
  BY <1>3, TagType
<1>9. ASSUME NEW g \in Nat, OnTimeline(g)', Tagged(g)'
      PROVE  TagOf(g)' \in Int /\ TagOf(g)' <= g - d
  <2>1. CASE g = f
    BY <1>7, <2>1
  <2>2. CASE g # f
    <3>1. Tagged(g) /\ TagOf(g)' = TagOf(g) /\ OnTimeline(g)
      BY <1>5, <1>6, <1>7, <1>9, <2>2
    <3>2. TagOf(g) <= g - d
      BY <1>2, <3>1 DEF DelaysRise
    <3> QED
      BY <1>8, <3>1, <3>2
  <2> QED
    BY <2>1, <2>2
<1>10. DelaysRise'
  BY <1>3, <1>9 DEF DelaysRise
<1>11. ASSUME NEW g \in Nat, NEW h \in Nat, g < h, OnTimeline(h)', Tagged(g)', Tagged(h)'
       PROVE  TagOf(g)' - g <= TagOf(h)' - h
  <2>1. g # f /\ g < f /\ OnTimeline(g)
    BY <1>5, <1>6, <1>11
  <2>2. Tagged(g) /\ TagOf(g)' = TagOf(g) /\ TagOf(g) \in Int
    BY <1>7, <1>8, <1>11, <2>1
  <2>3. CASE h = f
    <3>1. TagOf(g) <= g - d
      BY <1>2, <2>1, <2>2 DEF DelaysRise
    <3> QED
      BY <1>7, <2>2, <2>3, <3>1
  <2>4. CASE h # f
    <3>1. Tagged(h) /\ TagOf(h)' = TagOf(h) /\ OnTimeline(h)
      BY <1>5, <1>6, <1>7, <1>11, <2>4
    <3>2. TagOf(g) - g <= TagOf(h) - h
      BY <1>11, <2>2, <3>1 DEF TagsRise
    <3> QED
      BY <2>2, <3>1, <3>2
  <2> QED
    BY <2>3, <2>4
<1>12. TagsRise'
  BY <1>11 DEF TagsRise
<1> QED
  BY <1>10, <1>12

LEMMA NormalGuess ==
  ASSUME IInv, NEW top \in Int, TagInv(top), GuessInv(top), NEW adv,
         NEW stepped \in BOOLEAN, TickNormal(adv, stepped), NEW f \in Nat, f = frame
  PROVE  GuessInv(NewTop(top, f))'
<1>1. PICK d \in Int : d = delay_frames
  BY DEF IInv, TypeOK
<1>2. PICK a \in Int : a = f - d
  BY <1>1
<1>3. /\ RunsFrame(f, a, Guessed(a), StoreLocal) /\ f \in 0..MaxFrame
      /\ replay_remaining = 0 /\ pending_rollback < 0 /\ failed' = failed
  BY <1>1, <1>2, NormalRuns, WindowAssumption
<1>4. d >= 1 /\ pending_rollback \in Int /\ trusted \subseteq Remote /\ TypeOK
  BY <1>1 DEF IInv, TypeOK
<1>5. a < f
  BY <1>2, <1>4
<1>6. TagsBelow(f, a)
  <2> SUFFICES ASSUME NEW g \in 0..f-1, Tagged(g) PROVE TagOf(g) < a
    BY DEF TagsBelow
  <2>1. g \in Nat /\ OnTimeline(g) /\ TagOf(g) \in Int
    BY <1>3, <1>4, TagType DEF OnTimeline
  <2>2. TagOf(g) <= g - d
    BY <1>1, <2>1 DEF GuessInv, DelaysRise
  <2> QED
    BY <1>2, <2>1, <2>2
<1>7. InputsGiven(Guessed(a), a)
  BY <1>4 DEF InputsGiven, Guessed, GuessInv, AllActive
<1>8. StaysCovered(f)
  BY <1>3, <1>4 DEF StaysCovered, Covered
<1>9. RemoteOf(StoreLocal)
  BY <1>4, SlotAssumption DEF RemoteOf, StoreLocal, TypeOK, Slots
<1>t. TypeOK'
  BY NormalType DEF IInv
<1>10. PICK new \in Int : new = NewTop(top, f) /\ top <= new /\ f <= new
  BY DEF NewTop
<1>11. GuessIsHeld' /\ AllActive' /\ (RanExpected(top) => RanExpected(new)')
  BY <1>3, <1>t, <1>5, <1>6, <1>7, <1>8, <1>9, <1>10, RunsDrift DEF GuessInv
<1>12. TagsRise' /\ DelaysRise'
  BY NormalKeepsOrder DEF GuessInv
<1>13. GuessInv(new)'
  BY <1>3, <1>11, <1>12 DEF GuessInv
<1> QED
  BY <1>10, <1>13

LEMMA ReplayGuess ==
  ASSUME TrueRollback, IInv, NEW top \in Int, TagInv(top), GuessInv(top), NEW adv,
         NEW stepped \in BOOLEAN, TickReplay(adv, stepped)
  PROVE  GuessInv(top)'
<1>1. /\ ReplayedFrame \in 0..top /\ ReplayedFrame <= frame + replay_remaining - 1
      /\ Tagged(ReplayedFrame) /\ ReplayTag(ReplayedFrame) = TagOf(ReplayedFrame)
  BY ReplayedTag
<1>2. PICK f \in Nat : f = ReplayedFrame /\ f <= top
  BY <1>1
<1>3. TypeOK /\ trusted \subseteq Remote /\ top < MaxFrame /\ MaxFrame \in Nat
      /\ pending_rollback \in Int
  BY WindowAssumption DEF IInv, TypeOK, TagInv, HasBegun
<1>4. PICK a \in Int : a = TagOf(f)
  BY <1>3, TagType
<1>5. /\ RunsFrame(f, a, Reguessed(a), inputs) /\ failed' = failed
      /\ \/ pending_rollback = f
         \/ pending_rollback' = pending_rollback
  BY <1>1, <1>2, <1>4, ReplayRuns
<1>6. OnTimeline(f) /\ Tagged(f)
  <2>1. frame \in Int /\ replay_remaining \in Int
    BY DEF IInv, TypeOK
  <2> QED
    BY <1>1, <1>2, <2>1 DEF OnTimeline
<1>7. a < f
  <2>1. delay_frames \in Int /\ delay_frames >= 1
    BY DEF IInv, TypeOK
  <2>2. a <= f - delay_frames
    BY <1>4, <1>6 DEF GuessInv, DelaysRise
  <2> QED
    BY <2>1, <2>2
<1>8. TagsBelow(f, a)
  <2> SUFFICES ASSUME NEW g \in 0..f-1, Tagged(g) PROVE TagOf(g) < a
    BY DEF TagsBelow
  <2>1. g \in Nat /\ TagOf(g) \in Int
    BY <1>3, TagType
  <2>2. TagOf(g) - g <= a - f
    BY <1>4, <1>6, <2>1 DEF GuessInv, TagsRise
  <2> QED
    BY <2>1, <2>2
<1>9. InputsGiven(Reguessed(a), a)
  BY <1>3 DEF InputsGiven, Reguessed, GuessInv, AllActive
<1>10. StaysCovered(f)
  <2> SUFFICES ASSUME NEW g \in 0..f-1, Covered(g) PROVE Covered(g)'
    BY DEF StaysCovered
  <2>1. pending_rollback # f
    BY <1>3 DEF Covered
  <2>2. pending_rollback' = pending_rollback
    BY <1>5, <2>1
  <2> QED
    BY <2>2 DEF Covered
<1>11. RemoteOf(inputs)
  BY DEF RemoteOf
<1>t. TypeOK'
  BY ReplayType DEF IInv
<1>12. f \in 0..MaxFrame
  BY <1>2, <1>3
<1>13. GuessIsHeld' /\ AllActive' /\ (RanExpected(top) => RanExpected(top)')
  BY <1>2, <1>5, <1>t, <1>7, <1>8, <1>9, <1>10, <1>11, <1>12, RunsDrift DEF GuessInv
<1>14. TagsRise' /\ DelaysRise'
  BY ReplayKeepsOrder DEF GuessInv
<1> QED
  BY <1>5, <1>13, <1>14 DEF GuessInv

(* A misprediction rewinds to the first suspect frame or an earlier one.    *)
LEMMA TargetLeast ==
  ASSUME NEW t, NEW g \in Suspect(t)
  PROVE  RollbackTarget(t) \in Suspect(t) /\ RollbackTarget(t) \in 0..g
<1>1. Suspect(t) \subseteq Nat /\ Suspect(t) # {}
  BY DEF Suspect
<1>2. \E f \in Suspect(t) : \A h \in Suspect(t) : f <= h
  BY <1>1, LeastNat
<1>3. RollbackTarget(t) \in Suspect(t) /\ RollbackTarget(t) <= g
  BY <1>1, <1>2 DEF RollbackTarget
<1> QED
  BY <1>1, <1>3

(* What a real input changes of the inputs expected.                        *)
LEMMA FeedExpected ==
  ASSUME TypeOK, NEW s \in Remote, NEW f \in 0..MaxFrame, NEW v \in RealInputs,
         FeedInput(s, f, v)
  PROVE  /\ inputs'[s][f % InputRing].frame = f /\ inputs'[s][f % InputRing].in = v
         /\ Expected(s, f)' = v /\ ~Checked(s, f)' /\ real'[s][f] = v
         /\ \A r \in Remote, t \in 0..MaxFrame : r # s \/ t # f =>
              /\ Expected(r, t)' = Expected(r, t)
              /\ Checked(r, t)' = Checked(r, t)
              /\ real'[r][t] = real[r][t]
         /\ \A r \in Remote, i \in Idx : r # s \/ i # f % InputRing =>
              inputs'[r][i] = inputs[r][i]
<1>1. /\ s \in Slots /\ Remote \subseteq Slots /\ f % InputRing \in Idx
      /\ \A t \in 0..MaxFrame : t % InputRing \in Idx
  BY InputIndex DEF Slots
<1>2. /\ inputs' = [inputs EXCEPT ![s][f % InputRing] = [frame |-> f, in |-> v]]
      /\ real' = [real EXCEPT ![s][f] = v]
      /\ predicted' = IF Checked(s, f)
                      THEN [predicted EXCEPT ![s][f % InputRing].on = FALSE] ELSE predicted
  BY DEF FeedInput, StoreReal, CheckPrediction
<1>3. /\ inputs \in [Slots -> [Idx -> Known]]
      /\ real \in [Remote -> [0..MaxFrame -> Input \cup {NoInput}]]
      /\ predicted \in [Slots -> [Idx -> [on : BOOLEAN, frame : Int, in : Input]]]
  BY DEF TypeOK
<1>4. inputs'[s][f % InputRing].frame = f /\ inputs'[s][f % InputRing].in = v
  <2>1. inputs'[s][f % InputRing] = [frame |-> f, in |-> v]
    BY <1>1, <1>2, <1>3
  <2> QED
    BY <2>1
<1>5. \A r \in Remote, i \in Idx : r # s \/ i # f % InputRing =>
              inputs'[r][i] = inputs[r][i]
  BY <1>1, <1>2, <1>3
<1>6. /\ real'[s][f] = v
      /\ \A r \in Remote, t \in 0..MaxFrame : r # s \/ t # f => real'[r][t] = real[r][t]
  BY <1>2, <1>3
<1>7. /\ Checked(s, f)' = FALSE
      /\ \A r \in Remote, t \in 0..MaxFrame : r # s \/ t # f =>
           /\ Checked(r, t)' = Checked(r, t)
           /\ predicted'[r][t % InputRing].in = predicted[r][t % InputRing].in
  <2>1. CASE Checked(s, f)
    <3>1. \A r \in Remote, i \in Idx : r # s \/ i # f % InputRing =>
            predicted'[r][i] = predicted[r][i]
      BY <1>1, <1>2, <1>3, <2>1
    <3>2. /\ predicted'[s][f % InputRing].on = FALSE
          /\ predicted'[s][f % InputRing].frame = predicted[s][f % InputRing].frame
          /\ predicted'[s][f % InputRing].in = predicted[s][f % InputRing].in
      BY <1>1, <1>2, <1>3, <2>1
    <3>3. predicted[s][f % InputRing].frame = f
      BY <2>1 DEF Checked
    <3>4. Checked(s, f)' = FALSE
      BY <3>2 DEF Checked
    <3>5. ASSUME NEW r \in Remote, NEW t \in 0..MaxFrame, r # s \/ t # f
          PROVE  /\ Checked(r, t)' = Checked(r, t)
                 /\ predicted'[r][t % InputRing].in = predicted[r][t % InputRing].in
      <4>1. CASE r # s \/ t % InputRing # f % InputRing
        BY <1>1, <3>1, <4>1 DEF Checked
      <4>2. CASE r = s /\ t % InputRing = f % InputRing
        BY <3>2, <3>3, <3>5, <4>2 DEF Checked
      <4> QED
        BY <4>1, <4>2
    <3> QED
      BY <3>4, <3>5
  <2>2. CASE ~Checked(s, f)
    BY <1>2, <2>2 DEF Checked
  <2> QED
    BY <2>1, <2>2
<1>8. Expected(s, f)' = v
  BY <1>6, <1>7 DEF Expected
<1>9. \A r \in Remote, t \in 0..MaxFrame : r # s \/ t # f => Expected(r, t)' = Expected(r, t)
  BY <1>6, <1>7 DEF Expected
<1> QED
  BY <1>4, <1>5, <1>6, <1>7, <1>8, <1>9

(* A real input leaves what is to be rewound to be rewound.                 *)
LEMMA FeedCovers ==
  ASSUME TypeOK, NEW s \in Remote, NEW f \in 0..MaxFrame, NEW v \in RealInputs,
         FeedInput(s, f, v)
  PROVE  \A g \in Nat : Covered(g) => Covered(g)'
<1>1. RollbackTarget(f) # -1 => RollbackTarget(f) \in 0..frame-1
  BY TargetType
<1>2. CheckPrediction(s, f, v) /\ pending_rollback \in Int /\ frame \in Nat
  BY DEF FeedInput, TypeOK
<1> QED
  BY <1>1, <1>2 DEF CheckPrediction, Covered, Earliest

LEMMA FeedGuess ==
  ASSUME IInv, NEW top \in Int, TagInv(top), GuessInv(top), NEW s0 \in Remote,
         NEW f0 \in 0..MaxFrame, NEW v \in RealInputs, FeedInput(s0, f0, v)
  PROVE  GuessInv(top)'
<1>1. /\ TypeOK /\ trusted \subseteq Remote /\ frame \in Nat /\ emu \in Seq(Vector)
      /\ Len(emu) = frame /\ pending_rollback \in Int /\ failed \in BOOLEAN
      /\ MaxFrame \in Nat /\ top < MaxFrame /\ frame <= top + 1
  BY WindowAssumption DEF IInv, TypeOK, LengthIsFrame, TagInv, HasBegun
<1>2. /\ UNCHANGED <<frame, delay_frames, applied_tag, replay_remaining, emu, trusted>>
      /\ real[s0][f0] \in {v, NoInput} /\ CheckPrediction(s0, f0, v)
      /\ slot_active' = [slot_active EXCEPT ![s0] = TRUE]
  BY DEF FeedInput, StoreReal, replayVars
<1>3. TagsRise' /\ DelaysRise'
  BY <1>2 DEF GuessInv, TagsRise, DelaysRise, OnTimeline, Tagged, TagOf
<1>4. AllActive'
  BY <1>1, <1>2 DEF AllActive, GuessInv, TypeOK, Slots
<1>5. GuessIsHeld'
  <2> SUFFICES ASSUME NEW s \in trusted', NEW t \in 0..MaxFrame,
                      inputs'[s][t % InputRing].frame = t
               PROVE  inputs'[s][t % InputRing].in = Expected(s, t)'
    BY DEF GuessIsHeld
  <2>1. s \in trusted /\ s \in Remote /\ t % InputRing \in Idx
    BY <1>1, <1>2, InputIndex
  <2>2. CASE s = s0 /\ t % InputRing = f0 % InputRing
    BY <1>1, <2>2, FeedExpected
  <2>3. CASE s # s0 \/ t % InputRing # f0 % InputRing
    <3>1. inputs'[s][t % InputRing] = inputs[s][t % InputRing]
      BY <1>1, <2>1, <2>3, FeedExpected
    <3>2. s # s0 \/ t # f0
      BY <2>3
    <3>3. Expected(s, t)' = Expected(s, t)
      <4>1. TypeOK /\ s \in Remote /\ t \in 0..MaxFrame
        BY <1>1, <2>1
      <4> QED
        BY <3>2, <4>1, FeedExpected, SMTT(60)
    <3> QED
      BY <2>1, <3>1, <3>3 DEF GuessInv, GuessIsHeld
  <2> QED
    BY <2>2, <2>3
<1>6. \A g \in Nat : Covered(g) => Covered(g)'
  BY <1>1, FeedCovers
<1>7. ASSUME ~failed' PROVE RanExpected(top)'
  <2>1. ~failed
    BY <1>2, <1>7 DEF CheckPrediction
  <2> SUFFICES ASSUME NEW s \in trusted', NEW g \in 0..frame-1, Tagged(g)',
                      TagOf(g)' >= 0, Held(TagOf(g)', top)
               PROVE  (Covered(g) \/ emu[g+1][s] = Expected(s, TagOf(g)))'
    BY <1>2 DEF RanExpected
  <2>2. PICK t \in Int : t = TagOf(g)
    BY <1>1, TagType
  <2>3. s \in Remote /\ s \in trusted /\ Tagged(g) /\ TagOf(g)' = t /\ t >= 0 /\ Held(t, top)
    BY <1>1, <1>2, <2>2 DEF Tagged, TagOf
  <2>4. g \in 0..top /\ g \in Nat
    BY <1>1
  <2>5. t < g /\ t \in 0..MaxFrame
    <3>1. PICK d \in AllDelays : t = g - d
      BY <2>2, <2>3, <2>4 DEF TagInv, TagsOf
    <3>2. d \in Nat \ {0}
      BY DelayAssumption DEF AllDelays
    <3> QED
      BY <1>1, <2>3, <2>4, <3>1, <3>2
  <2>6. Covered(g) \/ emu[g+1][s] = Expected(s, t)
    BY <2>1, <2>2, <2>3 DEF GuessInv, RanExpected
  <2>7. CASE Covered(g)
    BY <1>6, <2>4, <2>7
  <2>8. CASE emu[g+1][s] = Expected(s, t) /\ (s # s0 \/ t # f0)
    <3>1. Expected(s, t)' = Expected(s, t)
      <4>1. TypeOK /\ s \in Remote /\ t \in 0..MaxFrame /\ (s # s0 \/ t # f0)
        BY <1>1, <2>3, <2>5, <2>8
      <4> QED
        BY <4>1, FeedExpected, SMTT(60)
    <3> QED
      BY <1>2, <2>3, <2>8, <3>1
  <2>9. CASE emu[g+1][s] = Expected(s, t) /\ s = s0 /\ t = f0
    <3>1. Expected(s, t)' = v
      BY <1>1, <2>9, FeedExpected
    <3>2. CASE emu[g+1][s] = v
      BY <1>2, <2>3, <3>1, <3>2
    <3>3. CASE emu[g+1][s] # v
      <4>1. emu[g+1][s] \in Input
        <5>1. g+1 \in 1..Len(emu)
          BY <1>1
        <5>2. emu[g+1] \in Vector
          BY <1>1, <5>1
        <5> QED
          BY <2>3, <5>2 DEF Vector, Slots
      <4>2. Checked(s0, f0)
        BY <1>2, <2>9, <3>3, <4>1, InputAssumption DEF Expected
      <4>3. predicted[s0][f0 % InputRing].in # v
        BY <2>9, <3>3, <4>2 DEF Expected
      <4>4. Mispredicts(s0, f0, v)
        BY <1>1, <2>4, <2>5, <2>9, <4>2, <4>3 DEF Mispredicts
      <4>5. g \in Suspect(f0)
        <5>1. g >= f0 /\ applied_tag[g % InputRing].tag >= f0
          BY <2>2, <2>5, <2>9 DEF TagOf
        <5> QED
          BY <5>1 DEF Suspect
      <4>6. RollbackTarget(f0) \in 0..g
        BY <4>5, TargetLeast
      <4>7. Rewinds(f0)
        BY <1>2, <1>7, <4>4, <4>6 DEF CheckPrediction
      <4>8. pending_rollback' = Earliest(RollbackTarget(f0))
        BY <1>2, <4>4, <4>6, <4>7 DEF CheckPrediction
      <4> QED
        BY <1>1, <2>4, <4>6, <4>8 DEF Earliest, Covered
    <3> QED
      BY <3>2, <3>3
  <2> QED
    BY <2>6, <2>7, <2>8, <2>9
<1> QED
  BY <1>3, <1>4, <1>5, <1>7 DEF GuessInv

(* An action that runs no frame and feeds no input.                         *)
LEMMA QuietGuess ==
  ASSUME NEW top, GuessInv(top), NEW d \in Int, NEW e \in Int, d = delay_frames,
         e = delay_frames', e <= d, IInv,
         UNCHANGED <<frame, applied_tag, replay_remaining, emu, inputVars,
                     pending_rollback, failed, real, trusted>>
  PROVE  GuessInv(top)'
<1>1. TagsRise' /\ GuessIsHeld' /\ AllActive' /\ (RanExpected(top) => RanExpected(top)')
  <2>1. TagsRise'
    <3>1. \A f \in Nat : /\ OnTimeline(f)' <=> OnTimeline(f)
                         /\ Tagged(f)' <=> Tagged(f)
                         /\ TagOf(f)' = TagOf(f)
      BY DEF OnTimeline, Tagged, TagOf
    <3> QED
      BY <3>1 DEF GuessInv, TagsRise
  <2>2. GuessIsHeld' /\ AllActive'
    BY DEF GuessInv, GuessIsHeld, AllActive, Expected, Checked, inputVars
  <2>3. RanExpected(top) => RanExpected(top)'
    <3>1. \A f : (Covered(f)' <=> Covered(f)) /\ (Tagged(f)' <=> Tagged(f))
      BY DEF Tagged, Covered
    <3>2. \A f : TagOf(f)' = TagOf(f)
      BY DEF TagOf
    <3>3. \A s, a : Expected(s, a)' = Expected(s, a)
      BY DEF Expected, Checked, inputVars
    <3> QED
      BY <3>1, <3>2, <3>3 DEF RanExpected
  <2> QED
    BY <2>1, <2>2, <2>3
<1>2. DelaysRise'
  <2> SUFFICES ASSUME NEW f \in Nat, OnTimeline(f), Tagged(f) PROVE TagOf(f) <= f - e
    BY DEF DelaysRise, OnTimeline, Tagged, TagOf
  <2>1. TagOf(f) \in Int
    BY TagType DEF IInv
  <2>2. TagOf(f) <= f - d
    BY DEF GuessInv, DelaysRise
  <2> QED
    BY <2>1, <2>2
<1> QED
  BY <1>1, <1>2 DEF GuessInv

(* A slot that is forgotten is trusted no longer; the others keep what they *)
(* have.                                                                   *)
LEMMA SlotResetGuess ==
  ASSUME IInv, NEW top, GuessInv(top), NEW s0 \in ResetSlots, SlotReset(s0)
  PROVE  GuessInv(top)'
<1>1. /\ UNCHANGED <<frame, delay_frames, applied_tag, replay_remaining, emu,
                     pending_rollback, failed, real>>
      /\ trusted' = trusted \ {s0}
  BY DEF SlotReset, replayVars
<1>2. \A s \in trusted' : /\ inputs'[s] = inputs[s] /\ predicted'[s] = predicted[s]
                          /\ slot_active'[s] = slot_active[s]
  BY <1>1 DEF SlotReset, IInv, TypeOK, Slots
<1>3. \A s \in trusted', t \in Int : Expected(s, t)' = Expected(s, t)
  BY <1>1, <1>2 DEF Expected, Checked
<1>4. TagsRise' /\ DelaysRise'
  BY <1>1 DEF GuessInv, TagsRise, DelaysRise, OnTimeline, Tagged, TagOf
<1>5. GuessIsHeld' /\ AllActive'
  BY <1>1, <1>2, <1>3 DEF GuessInv, GuessIsHeld, AllActive
<1>6. ASSUME RanExpected(top) PROVE RanExpected(top)'
  <2> SUFFICES ASSUME NEW s \in trusted', NEW g \in 0..frame-1, Tagged(g)',
                      TagOf(g)' >= 0, Held(TagOf(g)', top)
               PROVE  (Covered(g) \/ emu[g+1][s] = Expected(s, TagOf(g)))'
    BY <1>1 DEF RanExpected
  <2>1. PICK t \in Int : t = TagOf(g)
    BY TagType DEF IInv
  <2>2. s \in trusted /\ Tagged(g) /\ TagOf(g)' = t /\ t >= 0 /\ Held(t, top)
    BY <1>1, <2>1 DEF Tagged, TagOf
  <2>3. Covered(g) \/ emu[g+1][s] = Expected(s, t)
    BY <1>6, <2>1, <2>2 DEF RanExpected
  <2> QED
    BY <1>1, <1>3, <2>2, <2>3 DEF Covered
<1> QED
  BY <1>1, <1>4, <1>5, <1>6 DEF GuessInv

LEMMA InitGuess ==
  ASSUME Init
  PROVE  GuessInv(-1)
<1>1. /\ frame = 0 /\ replay_remaining = 0 /\ trusted \subseteq Backfilled
      /\ predicted = [s \in Slots |-> [i \in Idx |-> NoGuess]]
      /\ inputs = [s \in Slots |-> [i \in Idx |->
           IF s \in Backfilled /\ i = 0 THEN [frame |-> 0, in |-> real[s][0]] ELSE Absent]]
      /\ slot_active = [s \in Slots |-> s \in Backfilled]
  BY DEF Init
<1>2. Backfilled \subseteq Slots /\ \A t \in Int : t % InputRing \in Idx
  BY SlotAssumption, InputIndex DEF Slots
<1>3. TagsRise /\ DelaysRise
  BY <1>1 DEF TagsRise, DelaysRise, OnTimeline
<1>4. AllActive
  BY <1>1, <1>2 DEF AllActive
<1>5. \A s \in trusted, t \in Int : ~Checked(s, t)
  BY <1>1, <1>2 DEF Checked, NoGuess
<1>6. GuessIsHeld
  <2> SUFFICES ASSUME NEW s \in trusted, NEW t \in 0..MaxFrame,
                      inputs[s][t % InputRing].frame = t
               PROVE  inputs[s][t % InputRing].in = real[s][t]
    BY <1>5 DEF GuessIsHeld, Expected
  <2>1. t % InputRing \in Idx /\ s \in Slots /\ s \in Backfilled
    BY <1>1, <1>2
  <2>2. CASE t % InputRing = 0
    <3>1. inputs[s][t % InputRing] = [frame |-> 0, in |-> real[s][0]]
      BY <1>1, <2>1, <2>2
    <3> QED
      BY <3>1
  <2>3. CASE t % InputRing # 0
    <3>1. inputs[s][t % InputRing] = Absent
      BY <1>1, <2>1, <2>3
    <3> QED
      BY <3>1 DEF Absent
  <2> QED
    BY <2>2, <2>3
<1>7. RanExpected(-1)
  BY <1>1 DEF RanExpected
<1> QED
  BY <1>3, <1>4, <1>6, <1>7 DEF GuessInv

DriftInv == IInv /\ \E top \in Int : TagInv(top) /\ GuessInv(top)

LEMMA NextDrift ==
  ASSUME TrueRollback, DriftInv, [Next]_vars, delay_frames' <= delay_frames
  PROVE  DriftInv'
<1>1. PICK top \in Int : TagInv(top) /\ GuessInv(top)
  BY DEF DriftInv
<1>2. IInv
  BY DEF DriftInv
<1>3. IInv'
  BY <1>2, NextInv
<1>4. PICK d \in Int, e \in Int : d = delay_frames /\ e = delay_frames' /\ e <= d
  <2>1. PICK d \in Int : d = delay_frames
    BY <1>2 DEF IInv, TypeOK
  <2>2. PICK e \in Int : e = delay_frames'
    BY <1>3 DEF IInv, TypeOK
  <2>3. e <= d
    BY <2>1, <2>2
  <2> QED
    BY <2>1, <2>2, <2>3
<1>5. ASSUME NEW adv \in FrameAdvantages, TickPaced(adv) PROVE (TagInv(top) /\ GuessInv(top))'
  <2>1. TagInv(top)'
    BY <1>1, <1>2, <1>5, PacedTags
  <2>2. UNCHANGED <<frame, applied_tag, replay_remaining, emu, inputVars,
                    pending_rollback, failed, real, trusted>>
    BY <1>5 DEF TickPaced, replayVars, ghostVars
  <2>3. GuessInv(top)'
    BY <1>1, <1>2, <1>4, <2>2, QuietGuess
  <2> QED
    BY <2>1, <2>3
<1>6. ASSUME NEW adv \in FrameAdvantages, NEW stepped \in BOOLEAN,
             TickReplay(adv, stepped)
      PROVE  (TagInv(top) /\ GuessInv(top))'
  BY <1>1, <1>2, <1>6, ReplayTags, ReplayGuess
<1>7. ASSUME NEW adv \in FrameAdvantages, NEW stepped \in BOOLEAN,
             TickNormal(adv, stepped)
      PROVE  \E n \in Int : (TagInv(n) /\ GuessInv(n))'
  <2>1. PICK f \in Nat : f = frame
    BY <1>2 DEF IInv, TypeOK
  <2>2. TagInv(NewTop(top, f))' /\ GuessInv(NewTop(top, f))'
    BY <1>1, <1>2, <1>7, <2>1, NormalTags, NormalGuess
  <2>3. NewTop(top, f) \in Int
    BY DEF NewTop
  <2> QED
    BY <2>2, <2>3
<1>8. ASSUME Feed PROVE (TagInv(top) /\ GuessInv(top))'
  BY <1>1, <1>2, <1>8, FeedTags, FeedGuess DEF Feed
<1>9. ASSUME NEW x \in Delays, SetDelay(x) PROVE (TagInv(top) /\ GuessInv(top))'
  <2>1. TagInv(top)'
    BY <1>1, <1>9, SetDelayTags
  <2>2. UNCHANGED <<frame, applied_tag, replay_remaining, emu, inputVars,
                    pending_rollback, failed, real, trusted>>
    BY <1>9 DEF SetDelay, replayVars, ghostVars
  <2>3. GuessInv(top)'
    BY <1>1, <1>2, <1>4, <2>2, QuietGuess
  <2> QED
    BY <2>1, <2>3
<1>10. ASSUME NEW s \in ResetSlots, SlotReset(s) PROVE (TagInv(top) /\ GuessInv(top))'
  BY <1>1, <1>2, <1>10, SlotResetTags, SlotResetGuess
<1>11. ASSUME UNCHANGED vars PROVE (TagInv(top) /\ GuessInv(top))'
  <2>1. UNCHANGED <<frame, delay_frames, inputs, applied_tag, replay_remaining, emu, ring>>
    BY <1>11 DEF vars, inputVars, ringVars, replayVars
  <2>2. TagInv(top)'
    BY <1>1, <2>1, QuietTags DEF TagInv
  <2>3. UNCHANGED <<frame, applied_tag, replay_remaining, emu, inputVars,
                    pending_rollback, failed, real, trusted>>
    BY <1>11 DEF vars, replayVars, ghostVars
  <2>4. GuessInv(top)'
    BY <1>1, <1>2, <1>4, <2>3, QuietGuess
  <2> QED
    BY <2>2, <2>4
<1>12. \E n \in Int : (TagInv(n) /\ GuessInv(n))'
  BY <1>5, <1>6, <1>7, <1>8, <1>9, <1>10, <1>11 DEF Next, Tick
<1> QED
  BY <1>3, <1>12 DEF DriftInv

(* The delay is lowered at most.                                            *)
NeverRaised == [][delay_frames' <= delay_frames]_delay_frames

LEMMA NextDriftNotRaised ==
  ASSUME TrueRollback
  PROVE  DriftInv /\ [Next]_vars /\ [delay_frames' <= delay_frames]_delay_frames => DriftInv'
<1> SUFFICES ASSUME DriftInv, [Next]_vars, [delay_frames' <= delay_frames]_delay_frames
             PROVE  DriftInv'
  OBVIOUS
<1>1. delay_frames' <= delay_frames
  BY DEF DriftInv, IInv, TypeOK
<1> QED
  BY <1>1, NextDrift

(* A recent frame ran with the input its player produced, or with a guess   *)
(* the engine still remembers and checks when that input arrives, or it is  *)
(* about to be replayed: no guess is forgotten, however long the match,     *)
(* however the inputs arrive and whichever replays are preempted, as long   *)
(* as no misprediction was given up and the delay is not raised.            *)
THEOREM NoGuessForgotten ==
  ASSUME TrueRollback
  PROVE  Spec /\ NeverRaised => []GuessesRemembered
<1>1. Init => DriftInv
  BY InitInv, InitTags, InitGuess DEF DriftInv
<1>2. DriftInv => GuessesRemembered
  <2> SUFFICES ASSUME DriftInv, ~failed, NEW s \in trusted, NEW f \in 0..frame-1, Recent(f)
               PROVE  \/ emu[f+1][s] = real[s][TagOf(f)]
                      \/ GuessOpen(s, f) \/ Covered(f) \/ SharesTag(f)
    BY DEF GuessesRemembered
  <2>1. PICK top \in Int : TagInv(top) /\ GuessInv(top)
    BY DEF DriftInv
  <2>2. PICK t \in Int : t = TagOf(f)
    BY TagType DEF DriftInv, IInv
  <2>3. Held(t, top) /\ Tagged(f) /\ t >= 0
    <3>1. frame \in Int /\ MaxFrames \in Int /\ InputRing \in Int /\ frame >= top - MaxFrames
      BY <2>1, RingAssumption DEF DriftInv, IInv, TypeOK, TagInv, HasBegun
    <3>2. t > frame + MaxFrames - InputRing
      BY <2>2 DEF Recent
    <3>3. Held(t, top)
      BY <3>1, <3>2 DEF Held
    <3> QED
      BY <2>2, <3>3 DEF Recent
  <2>4. Covered(f) \/ emu[f+1][s] = Expected(s, t)
    BY <2>1, <2>2, <2>3 DEF GuessInv, RanExpected
  <2> QED
    BY <2>2, <2>4 DEF Expected, GuessOpen
<1> QED
  BY <1>1, <1>2, NextDriftNotRaised, PTL DEF Spec, NeverRaised

(***************************************************************************)
(* Before the input ring is used a second time, no input that arrived is    *)
(* lost.  Once it is, a late packet can take the place of an input that was *)
(* received ahead of its frame.                                            *)
(***************************************************************************)

(* An input received stays where it is, and is not guessed any more.        *)
RealHeld ==
  \A s \in trusted, t \in 0..MaxFrame :
    real[s][t] # NoInput => inputs[s][t % InputRing].frame = t /\ ~Checked(s, t)

(* A prediction stands at the place of its frame.                           *)
OwnPlace ==
  \A s \in trusted, i \in Idx : predicted[s][i].on => predicted[s][i].frame = i

HeldInv == RealHeld /\ OwnPlace

LEMMA ShortMatch ==
  ASSUME MaxFrame < InputRing, NEW t \in Int, t >= 0, t <= MaxFrame
  PROVE  t % InputRing = t /\ t \in Idx
<1>1. InputRing \in Nat \ {0} /\ MaxFrame \in Nat /\ t \in 0..InputRing-1
  BY RingAssumption, WindowAssumption
<1>2. \A k \in Nat \ {0} : \A m \in 0..k-1 : m % k = m
  OBVIOUS
<1> QED
  BY <1>1, <1>2 DEF Idx

(* The slots guessed have no input yet.                                     *)
GuessesMissing(S, a) == \A s \in S : s \in trusted => a >= 0 /\ real[s][a] = NoInput

LEMMA RunsHeld ==
  ASSUME MaxFrame < InputRing, TypeOK, HeldInv, NEW a \in Int, a <= MaxFrame, NEW S,
         NEW ins, S \subseteq Remote, StoreGuess(S, a, ins), RemoteOf(ins),
         GuessesMissing(S, a), UNCHANGED <<real, trusted>>
  PROVE  HeldInv'
<1>1. trusted \subseteq Remote
  BY DEF TypeOK
<1> DEFINE c == a % InputRing
<1>2. ASSUME NEW s \in trusted, s \notin S PROVE SlotKept(s)
  <2>1. s \in Remote /\ ins[s] = inputs[s]
    BY <1>1 DEF RemoteOf
  <2> QED
    BY <1>2, <2>1, GuessedCells
<1>3. ASSUME NEW s \in trusted, s \in S
      PROVE  /\ predicted'[s][c].frame = a /\ c = a /\ real[s][a] = NoInput
             /\ a \in 0..MaxFrame
             /\ \A i \in Idx : i # a =>
                  inputs'[s][i] = inputs[s][i] /\ predicted'[s][i] = predicted[s][i]
  <2>1. s \in Remote /\ ins[s] = inputs[s]
    BY <1>1 DEF RemoteOf
  <2>2. FreshGuess(s, a)' /\ OtherCellsKept(s, a)
    BY <1>3, <2>1, GuessedCells
  <2>3. a >= 0 /\ real[s][a] = NoInput
    BY <1>3 DEF GuessesMissing
  <2>4. c = a
    BY <2>3, ShortMatch
  <2> QED
    BY <2>2, <2>3, <2>4 DEF FreshGuess, OtherCellsKept, Checked
<1> HIDE DEF c
<1>4. RealHeld'
  <2> SUFFICES ASSUME NEW s \in trusted', NEW t \in 0..MaxFrame, real'[s][t] # NoInput
               PROVE  (inputs[s][t % InputRing].frame = t /\ ~Checked(s, t))'
    BY DEF RealHeld
  <2>1. s \in trusted /\ real[s][t] # NoInput /\ t % InputRing \in Idx /\ t % InputRing = t
    BY ShortMatch, WindowAssumption
  <2>2. /\ inputs'[s][t % InputRing] = inputs[s][t % InputRing]
        /\ predicted'[s][t % InputRing] = predicted[s][t % InputRing]
    BY <1>2, <1>3, <2>1 DEF SlotKept
  <2> QED
    BY <2>1, <2>2 DEF HeldInv, RealHeld, Checked
<1>5. OwnPlace'
  <2> SUFFICES ASSUME NEW s \in trusted', NEW i \in Idx, predicted'[s][i].on
               PROVE  predicted'[s][i].frame = i
    BY DEF OwnPlace
  <2>1. s \in trusted
    OBVIOUS
  <2>2. CASE s \in S /\ i = a
    BY <1>3, <2>1, <2>2
  <2>3. CASE s \notin S \/ i # a
    BY <1>2, <1>3, <2>1, <2>3 DEF SlotKept, HeldInv, OwnPlace
  <2> QED
    BY <2>2, <2>3
<1> QED
  BY <1>4, <1>5 DEF HeldInv

LEMMA NormalHeld ==
  ASSUME MaxFrame < InputRing, IInv, HeldInv, NEW adv, NEW stepped \in BOOLEAN,
         TickNormal(adv, stepped)
  PROVE  HeldInv'
<1>1. PICK a \in Int : a = frame - delay_frames
  BY DEF IInv, TypeOK
<1>2. /\ RunsFrame(frame, a, Guessed(a), StoreLocal) /\ a <= MaxFrame /\ TypeOK
  <2>1. frame \in Nat /\ delay_frames \in Nat /\ MaxFrame \in Nat /\ TypeOK
    BY WindowAssumption DEF IInv, TypeOK
  <2> QED
    BY <1>1, <2>1, NormalRuns
<1>3. GuessesMissing(Guessed(a), a)
  <2> SUFFICES ASSUME NEW s \in Guessed(a), s \in trusted
               PROVE  a >= 0 /\ real[s][a] = NoInput
    BY DEF GuessesMissing
  <2>1. a >= 0 /\ inputs[s][a % InputRing].frame # a
    BY DEF Guessed
  <2> QED
    BY <1>2, <2>1, WindowAssumption DEF HeldInv, RealHeld
<1>4. RemoteOf(StoreLocal)
  BY <1>2, SlotAssumption DEF RemoteOf, StoreLocal, TypeOK, Slots
<1> QED
  BY <1>2, <1>3, <1>4, RunsHeld DEF RunsFrame

LEMMA ReplayHeld ==
  ASSUME MaxFrame < InputRing, IInv, NEW top \in Int, TagInv(top), HeldInv, NEW adv,
         NEW stepped \in BOOLEAN, TickReplay(adv, stepped)
  PROVE  HeldInv'
<1>1. PICK a : a = ReplayTag(ReplayedFrame)
  OBVIOUS
<1>2. PICK f : f = ReplayedFrame
  OBVIOUS
<1>3. /\ RunsFrame(f, a, Reguessed(a), inputs) /\ f \in 0..top /\ Tagged(f) /\ a = TagOf(f)
  BY <1>1, <1>2, ReplayRuns, ReplayedTag
<1>4. TypeOK /\ top < MaxFrame /\ MaxFrame \in Nat
  BY WindowAssumption DEF IInv, TagInv, HasBegun
<1>5. a \in Int /\ a <= MaxFrame
  <2>1. PICK d \in AllDelays : a = f - d
    BY <1>3 DEF TagInv, TagsOf
  <2>2. d \in Nat
    BY DelayAssumption DEF AllDelays
  <2> QED
    BY <1>3, <1>4, <2>1, <2>2
<1>6. GuessesMissing(Reguessed(a), a)
  <2> SUFFICES ASSUME NEW s \in Reguessed(a), s \in trusted
               PROVE  a >= 0 /\ real[s][a] = NoInput
    BY DEF GuessesMissing
  <2>1. a >= 0 /\ (inputs[s][a % InputRing].frame # a \/ predicted[s][a % InputRing].on)
    BY DEF Reguessed
  <2>2. a % InputRing = a /\ a \in Idx
    BY <1>5, <2>1, ShortMatch
  <2>3. predicted[s][a % InputRing].on => Checked(s, a)
    BY <2>2 DEF HeldInv, OwnPlace, Checked
  <2>4. a \in 0..MaxFrame
    BY <1>4, <1>5, <2>1
  <2> QED
    BY <2>1, <2>3, <2>4 DEF HeldInv, RealHeld
<1>7. RemoteOf(inputs)
  BY DEF RemoteOf
<1> QED
  BY <1>3, <1>4, <1>5, <1>6, <1>7, RunsHeld DEF RunsFrame

LEMMA FeedHeld ==
  ASSUME MaxFrame < InputRing, IInv, HeldInv, NEW s0 \in Remote,
         NEW f0 \in 0..MaxFrame, NEW v \in RealInputs, FeedInput(s0, f0, v)
  PROVE  HeldInv'
<1>1. TypeOK /\ trusted \subseteq Remote /\ trusted' = trusted
  BY DEF IInv, TypeOK, FeedInput
<1>2. RealHeld'
  <2> SUFFICES ASSUME NEW s \in trusted', NEW t \in 0..MaxFrame, real'[s][t] # NoInput
               PROVE  (inputs[s][t % InputRing].frame = t /\ ~Checked(s, t))'
    BY DEF RealHeld
  <2>1. s \in trusted /\ s \in Remote
    BY <1>1
  <2>2. CASE s = s0 /\ t = f0
    BY <1>1, <2>2, FeedExpected
  <2>3. CASE s # s0 \/ t # f0
    <3>1. real'[s][t] = real[s][t] /\ Checked(s, t)' = Checked(s, t)
      BY <1>1, <2>1, <2>3, FeedExpected, SMTT(60)
    <3>2. t % InputRing = t /\ f0 % InputRing = f0 /\ t \in Idx
      BY ShortMatch, WindowAssumption
    <3>3. inputs'[s][t] = inputs[s][t]
      BY <1>1, <2>1, <2>3, <3>2, FeedExpected, SMTT(60)
    <3> QED
      BY <2>1, <3>1, <3>2, <3>3 DEF HeldInv, RealHeld
  <2> QED
    BY <2>2, <2>3
<1>3. OwnPlace'
  <2>1. \A s \in trusted, i \in Idx : /\ predicted'[s][i].on => predicted[s][i].on
                                      /\ predicted'[s][i].frame = predicted[s][i].frame
    <3>1. predicted' = IF Checked(s0, f0)
                       THEN [predicted EXCEPT ![s0][f0 % InputRing].on = FALSE]
                       ELSE predicted
      BY DEF FeedInput, CheckPrediction
    <3>2. predicted \in [Slots -> [Idx -> [on : BOOLEAN, frame : Int, in : Input]]]
          /\ \A s \in trusted : s \in Slots
      BY <1>1 DEF TypeOK, Slots
    <3> QED
      BY <3>1, <3>2
  <2> QED
    BY <1>1, <2>1 DEF HeldInv, OwnPlace
<1> QED
  BY <1>2, <1>3 DEF HeldInv

LEMMA SlotResetHeld ==
  ASSUME IInv, HeldInv, NEW s0 \in ResetSlots, SlotReset(s0)
  PROVE  HeldInv'
<1>1. real' = real /\ trusted' = trusted \ {s0}
  BY DEF SlotReset
<1>2. \A s \in trusted' : s \in trusted /\ inputs'[s] = inputs[s] /\ predicted'[s] = predicted[s]
  BY <1>1 DEF SlotReset, IInv, TypeOK, Slots
<1> QED
  BY <1>1, <1>2 DEF HeldInv, RealHeld, OwnPlace, Checked

LEMMA QuietHeld ==
  ASSUME HeldInv, UNCHANGED <<inputs, predicted, real, trusted>>
  PROVE  HeldInv'
BY DEF HeldInv, RealHeld, OwnPlace, Checked

LEMMA InitHeld ==
  ASSUME MaxFrame < InputRing, Init
  PROVE  HeldInv
<1>1. /\ trusted \subseteq Backfilled
      /\ predicted = [s \in Slots |-> [i \in Idx |-> NoGuess]]
      /\ inputs = [s \in Slots |-> [i \in Idx |->
           IF s \in Backfilled /\ i = 0 THEN [frame |-> 0, in |-> real[s][0]] ELSE Absent]]
  BY DEF Init
<1>2. PICK first : real = [s \in Remote |-> [f \in 0..MaxFrame |->
                     IF s \in Backfilled /\ f = 0 THEN first[s] ELSE NoInput]]
  BY DEF Init
<1>3. Backfilled \subseteq Slots /\ Backfilled \subseteq Remote
      /\ \A t \in Int : t % InputRing \in Idx
  BY SlotAssumption, InputIndex DEF Slots
<1>4. \A s \in trusted, i \in Idx : predicted[s][i].on = FALSE
  BY <1>1, <1>3 DEF NoGuess
<1>5. RealHeld
  <2> SUFFICES ASSUME NEW s \in trusted, NEW t \in 0..MaxFrame, real[s][t] # NoInput
               PROVE  inputs[s][t % InputRing].frame = t /\ ~Checked(s, t)
    BY DEF RealHeld
  <2>1. t = 0
    BY <1>1, <1>2, <1>3
  <2>2. t % InputRing = 0 /\ 0 \in Idx
    BY <2>1, ShortMatch, WindowAssumption
  <2>3. inputs[s][0] = [frame |-> 0, in |-> real[s][0]]
    BY <1>1, <1>3, <2>2
  <2> QED
    BY <1>3, <1>4, <2>1, <2>2, <2>3 DEF Checked
<1> QED
  BY <1>4, <1>5 DEF HeldInv, OwnPlace

LEMMA NextHeld ==
  ASSUME MaxFrame < InputRing
  PROVE  TagsInv /\ HeldInv /\ [Next]_vars => HeldInv'
<1> SUFFICES ASSUME TagsInv, HeldInv, [Next]_vars PROVE HeldInv'
  OBVIOUS
<1>1. PICK top \in Int : TagInv(top)
  BY DEF TagsInv
<1>2. IInv
  BY DEF TagsInv
<1>3. ASSUME NEW adv \in FrameAdvantages, TickPaced(adv) PROVE HeldInv'
  BY <1>3, QuietHeld DEF TickPaced, inputVars, ghostVars
<1>4. ASSUME NEW adv \in FrameAdvantages, NEW stepped \in BOOLEAN,
             TickReplay(adv, stepped)
      PROVE  HeldInv'
  BY <1>1, <1>2, <1>4, ReplayHeld
<1>5. ASSUME NEW adv \in FrameAdvantages, NEW stepped \in BOOLEAN,
             TickNormal(adv, stepped)
      PROVE  HeldInv'
  BY <1>2, <1>5, NormalHeld
<1>6. ASSUME Feed PROVE HeldInv'
  BY <1>2, <1>6, FeedHeld DEF Feed
<1>7. ASSUME NEW d \in Delays, SetDelay(d) PROVE HeldInv'
  BY <1>7, QuietHeld DEF SetDelay, inputVars, ghostVars
<1>8. ASSUME NEW s \in ResetSlots, SlotReset(s) PROVE HeldInv'
  BY <1>2, <1>8, SlotResetHeld
<1>9. ASSUME UNCHANGED vars PROVE HeldInv'
  BY <1>9, QuietHeld DEF vars, inputVars, ghostVars
<1> QED
  BY <1>3, <1>4, <1>5, <1>6, <1>7, <1>8, <1>9 DEF Next, Tick

(* An input that arrived stands in the input ring for as long as the match  *)
(* is shorter than the ring, and no replay guesses it a second time.        *)
THEOREM ArrivedInputsStay ==
  ASSUME MaxFrame < InputRing
  PROVE  Spec => []RealHeld
<1>1. Init => TagsInv /\ HeldInv
  BY InitInv, InitTags, InitHeld DEF TagsInv
<1>2. HeldInv => RealHeld
  BY DEF HeldInv
<1> QED
  BY <1>1, <1>2, NextTags, NextHeld, PTL DEF Spec

(* The frames in which a frame can be stale: none.                          *)
LEMMA NoneStale ==
  ASSUME MaxFrame < InputRing, DriftInv, HeldInv
  PROVE  StaleIsPending
<1> SUFFICES ASSUME ~failed, NEW s \in trusted, NEW f \in 0..frame-1,
                    ~Covered(f), NEW t \in Int, t = TagOf(f), t >= 0, real[s][t] # NoInput
             PROVE  emu[f+1][s] = real[s][t]
  <2>1. \A f \in Int : TagOf(f) \in Int
    BY TagType DEF DriftInv, IInv
  <2> QED
    BY <2>1 DEF StaleIsPending, RanReal
<1>1. PICK top \in Int : TagInv(top) /\ GuessInv(top)
  BY DEF DriftInv
<1>2. f \in 0..top /\ top < MaxFrame /\ InputRing \in Nat /\ MaxFrame \in Nat
  BY <1>1, RingAssumption, WindowAssumption DEF DriftInv, IInv, TypeOK, TagInv, HasBegun
<1>3. Held(f, top) /\ Held(t, top)
  BY <1>2 DEF Held
<1>4. Tagged(f)
  BY <1>1, <1>2, <1>3 DEF TagInv, TagsOf
<1>5. emu[f+1][s] = Expected(s, t)
  BY <1>1, <1>3, <1>4 DEF GuessInv, RanExpected
<1>6. t \in 0..MaxFrame
  <2>1. PICK d \in AllDelays : t = f - d
    BY <1>1, <1>2, <1>4 DEF TagInv, TagsOf
  <2>2. d \in Nat
    BY DelayAssumption DEF AllDelays
  <2> QED
    BY <1>2, <2>1, <2>2
<1>7. ~Checked(s, t)
  BY <1>6 DEF HeldInv, RealHeld
<1> QED
  BY <1>5, <1>7 DEF Expected

(* No silent drift: a frame that ran with a remote input other than the one *)
(* received by now is covered by the pending rollback.                     *)
THEOREM NoStaleFrame ==
  ASSUME TrueRollback, MaxFrame < InputRing
  PROVE  Spec /\ NeverRaised => []StaleIsPending
<1>1. Init => DriftInv /\ TagsInv /\ HeldInv
  BY InitInv, InitTags, InitGuess, InitHeld DEF DriftInv, TagsInv
<1>2. DriftInv /\ HeldInv => StaleIsPending
  BY NoneStale
<1> QED
  BY <1>1, <1>2, NextDriftNotRaised, NextTags, NextHeld, PTL DEF Spec, NeverRaised

(* The legacy mode answers for no guess: its replays keep the first one.     *)
TrustsNobody == trusted = {}

LEMMA LegacyTrustsNobody ==
  ASSUME ~TrueRollback
  PROVE  Spec => []TrustsNobody
<1>1. Init => TrustsNobody
  BY DEF Init, TrustsNobody
<1>2. TrustsNobody /\ [Next]_vars => TrustsNobody'
  BY DEF Next, Tick, TickPaced, TickReplay, TickNormal, Feed, FeedInput, SetDelay, SlotReset,
         vars, ghostVars, TrustsNobody
<1> QED
  BY <1>1, <1>2, PTL DEF Spec

(* No silent drift, all of it: a frame that ran on a wrong input is about to *)
(* be rewound, a guess is remembered until it is checked, and the local      *)
(* input runs in the frame it was sent for (kn_feed_input's comparison with  *)
(* predicted_values, and the re-guess of a replay).                         *)
THEOREM DriftIsNeverSilent ==
  ASSUME MaxFrame < InputRing
  PROVE  Spec /\ NeverRaised => []NoSilentDrift
<1>1. StaleIsPending /\ GuessesRemembered /\ LocalAsSent => NoSilentDrift
  BY DEF NoSilentDrift
<1>2. CASE TrueRollback
  BY <1>1, <1>2, NoStaleFrame, NoGuessForgotten, LocalInputsAreSent, PTL
<1>3. CASE ~TrueRollback
  <2>1. TrustsNobody => StaleIsPending /\ GuessesRemembered
    BY DEF StaleIsPending, GuessesRemembered, TrustsNobody
  <2> QED
    BY <1>1, <1>3, <2>1, LegacyTrustsNobody, LocalInputsAreSent, PTL
<1> QED
  BY <1>2, <1>3

=============================================================================
