--------------------------- MODULE RollbackEngine ---------------------------
(***************************************************************************)
(* The C rollback engine of one peer (build/kn_rollback/kn_rollback.c).    *)
(*                                                                         *)
(* The engine runs the emulator ahead on predicted remote input, keeps a   *)
(* ring of saved states, and when a real input contradicts a prediction    *)
(* restores the state of the first frame that used it and replays.         *)
(*                                                                         *)
(* The emulator is deterministic, so its state is what it was fed: emu is  *)
(* the sequence of input vectors of the frames run so far, and a saved     *)
(* state is such a sequence.  JavaScript runs kn_pre_tick, the emulator    *)
(* step and kn_post_tick in one turn of the event loop and feeds the       *)
(* inputs it received between two turns: one action per turn and one per   *)
(* fed input.  A step that does not run (stepOneFrame returns false)       *)
(* leaves the effects of kn_pre_tick without those of kn_post_tick.        *)
(*                                                                         *)
(* The definitions marked "variant" are plausible mistakes in the one that *)
(* follows; no action uses them, and PROJECT.json names the property that  *)
(* each of them breaks when it takes the other's place.                    *)
(***************************************************************************)
EXTENDS Integers, Sequences

CONSTANTS
  Remote,         (* the slots of the other players                         *)
  Local,          (* rb.local_slot                                          *)
  Buttons,        (* button words                                           *)
  StickMax,       (* 83: the range the predicted stick is clamped to        *)
  RealInputs,     (* the inputs the other players produce                   *)
  NoInput,        (* marks an input the environment has not produced yet    *)
  LocalInput,     (* the input sampled for each local frame, fixed once     *)
  InitDelay,      (* delay_frames given to kn_rollback_init                 *)
  Delays,         (* the delays kn_set_delay_frames is called with          *)
  MaxFrames,      (* max_frames: the state ring holds MaxFrames + 1 states  *)
  InputRing,      (* KN_INPUT_RING_SIZE                                     *)
  VisibleCap,     (* KN_MAX_VISIBLE_ROLLBACK_DEPTH                          *)
  TrueRollback,   (* rb.true_rollback                                       *)
  FrameAdvantages,(* the frame advantages JavaScript reports                *)
  PastWindow,     (* INPUT_PAST_WINDOW_FRAMES                               *)
  FutureMargin,   (* INPUT_FUTURE_MARGIN_FRAMES                             *)
  ResetSlots,     (* slots JavaScript resets (a peer that disconnects)      *)
  Backfilled,     (* remote slots whose first input was fed at init         *)
  MaxFrame        (* bound: frames run, and frames inputs are fed for       *)

Input == [b : Buttons, x : -StickMax..StickMax]
Zero  == [b |-> 0, x |-> 0]

ASSUME SlotAssumption   == Local \notin Remote /\ Backfilled \subseteq Remote
                           /\ ResetSlots \subseteq Remote
ASSUME InputAssumption  == 0 \in Buttons /\ StickMax \in Nat /\ NoInput \notin Input
                           /\ RealInputs \subseteq Input
ASSUME LocalAssumption  == LocalInput \in [0..MaxFrame -> Input]
ASSUME DelayAssumption  == InitDelay \in Nat \ {0} /\ Delays \subseteq Nat \ {0}
ASSUME RingAssumption   == MaxFrames \in Nat \ {0} /\ InputRing \in Nat \ {0}
(* The code: 256 places, at most 30 frames of replay, a delay of at most 20. *)
ASSUME WindowFits       == \A d \in Delays \cup {InitDelay} : MaxFrames + d < InputRing
ASSUME CapAssumption    == VisibleCap \in Nat /\ TrueRollback \in BOOLEAN
ASSUME WindowAssumption == /\ PastWindow \in Nat /\ FutureMargin \in Nat
                           /\ MaxFrame \in Nat /\ FrameAdvantages \subseteq Int

VARIABLES
  frame,                  (* rb.frame                                       *)
  delay_frames,           (* rb.delay_frames                                *)
  inputs,                 (* input ring per slot; frame -1 is present = 0   *)
  predicted,              (* predicted[] and predicted_values[]             *)
  last_known, prev_known, (* the two newest real inputs per slot            *)
  slot_active,            (* slots kn_feed_input has ever seen              *)
  applied_tag,            (* the input frame each emulated frame applied    *)
  ring,                   (* saved states with ring_frames                  *)
  last_save_frame,
  endpoint_save_pending,
  pending_rollback,       (* first frame to rewind to, or -1                *)
  replay_remaining, replay_depth, replay_start,
  failed,                 (* failed_rollbacks > 0                           *)
  emu,                    (* the emulator's state: the inputs it applied    *)
  real,                   (* the inputs the other players really produced   *)
  trusted                 (* slots whose guesses the engine answers for: in  *)
                          (* true rollback, until it is told to forget them *)

inputVars  == <<inputs, predicted, last_known, prev_known, slot_active>>
ringVars   == <<ring, last_save_frame, endpoint_save_pending>>
replayVars == <<replay_remaining, replay_depth, replay_start>>
ghostVars  == <<real, trusted>>
vars == <<frame, delay_frames, inputVars, applied_tag, ringVars,
          pending_rollback, replayVars, failed, emu, ghostVars>>

Slots    == Remote \cup {Local}
Vector   == [Slots -> Input]
Idx      == 0..InputRing-1
RingSize == MaxFrames + 1
Known    == [frame : Int, in : Input]
Absent   == [frame |-> -1, in |-> Zero]
Zeroed   == [frame |-> 0, in |-> Zero]
NoGuess  == [on |-> FALSE, frame |-> 0, in |-> Zero]

TypeOK ==
  /\ frame \in Nat /\ delay_frames \in Nat \ {0}
  /\ inputs \in [Slots -> [Idx -> Known]]
  /\ predicted \in [Slots -> [Idx -> [on : BOOLEAN, frame : Int, in : Input]]]
  /\ last_known \in [Slots -> Known] /\ prev_known \in [Slots -> Known]
  /\ slot_active \in [Slots -> BOOLEAN]
  /\ applied_tag \in [Idx -> [frame : Int, tag : Int]]
  /\ ring \in [0..MaxFrames -> [frame : Int, state : Seq(Vector)]]
  /\ last_save_frame \in Int /\ endpoint_save_pending \in BOOLEAN
  /\ pending_rollback \in Int
  /\ replay_remaining \in Nat /\ replay_depth \in Nat /\ replay_start \in Nat
  /\ failed \in BOOLEAN /\ emu \in Seq(Vector)
  /\ real \in [Remote -> [0..MaxFrame -> Input \cup {NoInput}]]
  /\ trusted \subseteq Remote

(***************************************************************************)
(* Operators of the engine.                                                *)
(***************************************************************************)

Clamp(v) == IF v < -StickMax THEN -StickMax ELSE IF v > StickMax THEN StickMax ELSE v

(* rb_predict_input: repeat the buttons, extrapolate the stick. *)
PredictInput(s) ==
  [b |-> last_known[s].in.b, x |-> Clamp(2 * last_known[s].in.x - prev_known[s].in.x)]

(* The input kn_get_input returns, ZERO_INPUT when it has none. *)
InputAt(ins, s, f) ==
  IF f >= 0 /\ ins[s][f % InputRing].frame = f THEN ins[s][f % InputRing].in ELSE Zero

Applied(ins, f) == [s \in Slots |-> InputAt(ins, s, f)]

(* The frames a wrong guess for input t can have changed; rb_rollback_target *)
(* is the first of them, -1 if there is none.                               *)
Suspect(t) ==
  {f \in 0..frame-1 : /\ f >= t
                      /\ \/ applied_tag[f % InputRing].frame # f
                         \/ applied_tag[f % InputRing].tag >= t}

RollbackTarget(t) ==
  IF Suspect(t) = {} THEN -1
  ELSE CHOOSE f \in Suspect(t) : \A g \in Suspect(t) : f <= g

VisibleMax ==
  IF ~TrueRollback THEN delay_frames + 4
  ELSE IF delay_frames + 10 < VisibleCap THEN delay_frames + 10 ELSE VisibleCap

PacingThreshold == delay_frames + (IF TrueRollback THEN 8 ELSE 2)

RingHas(r, f) == r[f % RingSize].frame = f

(* rb_save_slot: the current state goes to the slot of frame f. *)
SaveAt(r, f) == [r EXCEPT ![f % RingSize] = [frame |-> f, state |-> emu]]

(***************************************************************************)
(* kn_feed_input: a real input of a remote slot reaches the engine.        *)
(***************************************************************************)

Checked(s, f)      == LET p == predicted[s][f % InputRing] IN p.on /\ p.frame = f
Mispredicts(s, f, v) ==
  Checked(s, f) /\ predicted[s][f % InputRing].in # v /\ f < frame

(* The misprediction of input f can be rewound: not too deep, still saved. *)
(* variant: the ring is not asked whether it has the frame *)
RewindsUnsaved(f) == RollbackTarget(f) # -1 /\ frame - RollbackTarget(f) <= VisibleMax
Rewinds(f) ==
  LET depth == frame - RollbackTarget(f)
  IN /\ RollbackTarget(f) # -1
     /\ depth <= VisibleMax /\ depth <= MaxFrames
     /\ RingHas(ring, RollbackTarget(f))

StoreReal(s, f, v) ==
  LET new == [frame |-> f, in |-> v]
      newer == f > last_known[s].frame
  IN /\ inputs' = [inputs EXCEPT ![s][f % InputRing] = new]
     /\ slot_active' = [slot_active EXCEPT ![s] = TRUE]
     /\ prev_known' = [prev_known EXCEPT ![s] =
          IF ~slot_active[s] THEN new ELSE IF newer THEN last_known[s] ELSE @]
     /\ last_known' = [last_known EXCEPT ![s] =
          IF ~slot_active[s] \/ f >= @.frame THEN new ELSE @]

(* variant: the newest misprediction wins *)
Latest(target)   == target
Earliest(target) ==
  IF pending_rollback < 0 \/ target < pending_rollback THEN target ELSE pending_rollback

CheckPrediction(s, f, v) ==
  /\ predicted' = IF Checked(s, f)
                  THEN [predicted EXCEPT ![s][f % InputRing].on = FALSE] ELSE predicted
  /\ IF Mispredicts(s, f, v) /\ RollbackTarget(f) # -1
     THEN IF Rewinds(f)
          THEN /\ pending_rollback' = Earliest(RollbackTarget(f))
               /\ UNCHANGED failed
          ELSE failed' = TRUE /\ UNCHANGED pending_rollback
     ELSE UNCHANGED <<failed, pending_rollback>>

(* _processInputPacket feeds only frames of its acceptance window.         *)
FeedInput(s, f, v) ==
  /\ f >= frame - PastWindow /\ f <= frame + delay_frames + FutureMargin
  /\ real[s][f] \in {v, NoInput}
  /\ real' = [real EXCEPT ![s][f] = v]
  /\ CheckPrediction(s, f, v)
  /\ StoreReal(s, f, v)
  /\ UNCHANGED <<frame, delay_frames, applied_tag, ringVars, replayVars, emu, trusted>>

(***************************************************************************)
(* kn_pre_tick, the emulator step and kn_post_tick.                        *)
(***************************************************************************)

(* The endpoint of a finished replay is saved first. *)
(* variant: the endpoint of a replay is not saved *)
NeverSavesEndpoint == FALSE
SavesEndpoint == endpoint_save_pending /\ replay_remaining = 0
RingNow       == IF SavesEndpoint THEN SaveAt(ring, frame) ELSE ring
LastSaveNow   == IF SavesEndpoint THEN frame ELSE last_save_frame
EndpointWaits == endpoint_save_pending /\ ~SavesEndpoint

Paces(adv) == /\ adv >= 0 /\ adv >= PacingThreshold
              /\ pending_rollback < 0 /\ replay_remaining = 0

(* The gate saves the frame when the ring is about to become useless. *)
RingIsStale ==
  \/ LastSaveNow < 0
  \/ frame - LastSaveNow >= RingSize \div 2
  \/ frame > MaxFrames /\ ~RingHas(RingNow, frame - MaxFrames)
MaintainRing ==
  /\ ring' = IF RingIsStale THEN SaveAt(RingNow, frame) ELSE RingNow
  /\ last_save_frame' = IF RingIsStale THEN frame ELSE LastSaveNow

(* Too far ahead: keep the ring usable, do not run the frame.  Returns 3. *)
TickPaced(adv) ==
  /\ Paces(adv)
  /\ MaintainRing
  /\ endpoint_save_pending' = FALSE
  /\ UNCHANGED <<frame, delay_frames, inputVars, applied_tag, pending_rollback,
                 replayVars, failed, emu, ghostVars>>

(* A pending rollback starts, or preempts a replay that began later. *)
StartsRollback ==
  /\ pending_rollback >= 0
  /\ replay_remaining = 0 \/ pending_rollback < replay_start
Restores ==
  /\ StartsRollback /\ RingHas(RingNow, pending_rollback)
  /\ frame - pending_rollback \in 1..MaxFrames

(* The slots whose input a replay of frame input a guesses again. *)
Reguessed(a) ==
  {s \in Remote : /\ TrueRollback /\ a >= 0 /\ slot_active[s]
                  /\ \/ inputs[s][a % InputRing].frame # a
                     \/ predicted[s][a % InputRing].on}

(* The slots whose input the normal path guesses: the missing ones. *)
Guessed(a) ==
  {s \in Remote : a >= 0 /\ slot_active[s] /\ inputs[s][a % InputRing].frame # a}

StoreGuess(S, a, ins) ==
  /\ inputs' = [s \in Slots |->
       IF s \in S THEN [ins[s] EXCEPT ![a % InputRing] =
                          [frame |-> a, in |-> PredictInput(s)]] ELSE ins[s]]
  /\ predicted' = [s \in Slots |->
       IF s \in S THEN [predicted[s] EXCEPT ![a % InputRing] =
                          [on |-> TRUE, frame |-> a, in |-> PredictInput(s)]]
       ELSE predicted[s]]
  /\ UNCHANGED <<last_known, prev_known, slot_active>>

RecordTag(f, a) ==
  applied_tag' = [applied_tag EXCEPT ![f % InputRing] = [frame |-> f, tag |-> a]]

(* The emulator runs the frame from the given state with the inputs of a. *)
Step(state, f, a) ==
  /\ emu' = Append(state, Applied(inputs', a))
  /\ frame' = f + 1

(* A replayed frame applies the input frame it applied the first time. *)
(* variant: the tag is recomputed from the current delay *)
ReplayTagOfDelay(f) == f - delay_frames
ReplayTag(f) ==
  LET tag == applied_tag[f % InputRing]
  IN IF tag.frame = f THEN tag.tag ELSE f - delay_frames

(* kn_post_tick clears the depth with the last replayed frame. *)
(* variant: the depth survives the replay *)
DepthKept(remaining, depth)  == depth
DepthAfter(remaining, depth) == IF remaining = 1 THEN 0 ELSE depth

(* One replayed frame, the first of them after the restore.  Returns 2. *)
TickReplay(adv, stepped) ==
  LET f         == IF Restores THEN pending_rollback ELSE frame
      state     == IF Restores THEN RingNow[f % RingSize].state ELSE emu
      remaining == IF Restores THEN frame - pending_rollback ELSE replay_remaining
      depth     == IF Restores THEN remaining ELSE replay_depth
      a         == ReplayTag(f)
  IN /\ ~Paces(adv)
     /\ IF StartsRollback THEN Restores ELSE replay_remaining > 0
     /\ pending_rollback' = IF Restores THEN -1 ELSE pending_rollback
     /\ replay_start' = IF Restores THEN f ELSE replay_start
     /\ RecordTag(f, a)
     /\ ring' = [RingNow EXCEPT ![f % RingSize] = [frame |-> f, state |-> state]]
     /\ last_save_frame' = LastSaveNow
     /\ StoreGuess(Reguessed(a), a, inputs)
     /\ IF stepped
        THEN /\ Step(state, f, a)
             /\ replay_remaining' = remaining - 1
             /\ replay_depth' = DepthAfter(remaining, depth)
             /\ endpoint_save_pending' = (remaining = 1 \/ EndpointWaits)
        ELSE /\ emu' = state /\ frame' = f
             /\ replay_remaining' = remaining
             /\ replay_depth' = depth
             /\ endpoint_save_pending' = EndpointWaits
     /\ UNCHANGED <<delay_frames, failed, ghostVars>>

(* variant: the local input is filed under the frame it is applied at *)
StoreLocalAsApplied ==
  [inputs EXCEPT ![Local][frame % InputRing] =
     [frame |-> frame - delay_frames, in |-> LocalInput[frame]]]
StoreLocal ==
  [inputs EXCEPT ![Local][frame % InputRing] =
     [frame |-> frame, in |-> LocalInput[frame]]]

(* A frame that runs forward.  Returns 0. *)
TickNormal(adv, stepped) ==
  LET a == frame - delay_frames
  IN /\ frame < MaxFrame /\ ~Paces(adv)
     /\ IF StartsRollback THEN ~Restores ELSE replay_remaining = 0
     /\ pending_rollback' = IF StartsRollback THEN -1 ELSE pending_rollback
     /\ failed' = (failed \/ StartsRollback)
     /\ replay_remaining' = 0 /\ replay_depth' = 0
     /\ RecordTag(frame, a)
     /\ StoreGuess(Guessed(a), a, StoreLocal)
     /\ ring' = IF LastSaveNow # frame THEN SaveAt(RingNow, frame) ELSE RingNow
     /\ last_save_frame' = frame
     /\ endpoint_save_pending' = EndpointWaits
     /\ IF stepped THEN Step(emu, frame, a) ELSE UNCHANGED <<emu, frame>>
     /\ UNCHANGED <<delay_frames, replay_start, ghostVars>>

(***************************************************************************)
(* Calls from outside the tick.                                            *)
(***************************************************************************)

(* kn_set_delay_frames: refused while a replay runs. *)
SetDelay(d) ==
  /\ replay_remaining = 0 /\ d # delay_frames
  /\ delay_frames' = d
  /\ UNCHANGED <<frame, inputVars, applied_tag, ringVars, pending_rollback,
                 replayVars, failed, emu, ghostVars>>

(* kn_rollback_slot_reset: a disconnected peer's slot is forgotten. *)
SlotReset(s) ==
  /\ slot_active' = [slot_active EXCEPT ![s] = FALSE]
  /\ last_known' = [last_known EXCEPT ![s] = Zeroed]
  /\ prev_known' = [prev_known EXCEPT ![s] = Zeroed]
  /\ inputs' = [inputs EXCEPT ![s] = [i \in Idx |-> [@[i] EXCEPT !.frame = -1]]]
  /\ predicted' = [predicted EXCEPT ![s] = [i \in Idx |-> NoGuess]]
  /\ trusted' = trusted \ {s}
  /\ UNCHANGED <<frame, delay_frames, applied_tag, ringVars, pending_rollback,
                 replayVars, failed, emu, real>>

(***************************************************************************)
(* The specification.                                                      *)
(***************************************************************************)

(* kn_rollback_init at frame 0, after _backfillCInputsFromJs fed the first  *)
(* input of the Backfilled slots.                                          *)
Init ==
  /\ frame = 0 /\ delay_frames = InitDelay /\ emu = <<>>
  /\ \E first \in [Backfilled -> RealInputs] :
       real = [s \in Remote |-> [f \in 0..MaxFrame |->
                 IF s \in Backfilled /\ f = 0 THEN first[s] ELSE NoInput]]
  /\ inputs = [s \in Slots |-> [i \in Idx |->
       IF s \in Backfilled /\ i = 0 THEN [frame |-> 0, in |-> real[s][0]] ELSE Absent]]
  /\ predicted = [s \in Slots |-> [i \in Idx |-> NoGuess]]
  /\ last_known = [s \in Slots |->
       IF s \in Backfilled THEN [frame |-> 0, in |-> real[s][0]] ELSE Zeroed]
  /\ prev_known = last_known
  /\ slot_active = [s \in Slots |-> s \in Backfilled]
  /\ applied_tag = [i \in Idx |-> [frame |-> -1, tag |-> 0]]
  /\ ring = [i \in 0..MaxFrames |-> [frame |-> -1, state |-> <<>>]]
  /\ last_save_frame = -1 /\ endpoint_save_pending = FALSE
  /\ pending_rollback = -1 /\ failed = FALSE
  /\ replay_remaining = 0 /\ replay_depth = 0 /\ replay_start = 0
  /\ trusted = IF TrueRollback THEN Backfilled ELSE {}

Tick ==
  \/ \E adv \in FrameAdvantages : TickPaced(adv)
  \/ \E adv \in FrameAdvantages, stepped \in BOOLEAN :
       TickReplay(adv, stepped) \/ TickNormal(adv, stepped)

Feed == \E s \in Remote, f \in 0..MaxFrame, v \in RealInputs : FeedInput(s, f, v)

Next ==
  \/ Tick
  \/ Feed
  \/ \E d \in Delays : SetDelay(d)
  \/ \E s \in ResetSlots : SlotReset(s)

Spec == Init /\ [][Next]_vars

(* requestAnimationFrame calls the tick for ever and the emulator's step,   *)
(* though it may fail, does not fail for ever.                             *)
Fairness ==
  WF_vars(\E adv \in FrameAdvantages : TickReplay(adv, TRUE) \/ TickNormal(adv, TRUE))

FairSpec == Spec /\ Fairness

(***************************************************************************)
(* Properties.                                                             *)
(***************************************************************************)

TagOf(f)  == applied_tag[f % InputRing].tag
Tagged(f) == applied_tag[f % InputRing].frame = f

(* The rewind that is pending goes back to frame f or to an earlier one.    *)
Covered(f) == 0 <= pending_rollback /\ pending_rollback <= f

(* The frame ran with the input the player of slot s produced for its tag,  *)
(* as far as that input has reached the engine.                             *)
RanReal(s, f) ==
  TagOf(f) >= 0 /\ real[s][TagOf(f)] # NoInput => emu[f+1][s] = real[s][TagOf(f)]

(* The engine remembers the guess frame f ran with, and will compare it     *)
(* with the input when that arrives.                                       *)
GuessOpen(s, f) ==
  /\ Checked(s, TagOf(f))
  /\ emu[f+1][s] = predicted[s][TagOf(f) % InputRing].in

(* Another frame applied the same input frame: the delay was raised between *)
(* them.  A replay that guesses the input again for the later one forgets   *)
(* what the earlier one ran with.                                          *)
SharesTag(f) ==
  \E i \in Idx : applied_tag[i].frame \notin {-1, f} /\ applied_tag[i].tag = TagOf(f)

(* No silent drift: as long as no misprediction was given up, a frame that *)
(* ran with a remote input other than the one received by now is covered   *)
(* by the pending rollback, in the middle of a replay too.                 *)
StaleIsPending ==
  ~failed => \A s \in trusted, f \in 0..frame-1 :
               RanReal(s, f) \/ Covered(f) \/ SharesTag(f)

(* The frames whose inputs have their places in the input ring still.       *)
Recent(f) == Tagged(f) /\ TagOf(f) >= 0 /\ TagOf(f) > frame + MaxFrames - InputRing

(* No guess is forgotten: a frame ran with the input its player produced,   *)
(* or with a guess that the engine will check, or it is about to be rewound.*)
GuessesRemembered ==
  ~failed => \A s \in trusted, f \in 0..frame-1 :
               Recent(f) => \/ emu[f+1][s] = real[s][TagOf(f)]
                            \/ GuessOpen(s, f) \/ Covered(f) \/ SharesTag(f)

(* Every frame, replayed ones included, applies the local input sampled for *)
(* its tag: the input the other peers were sent.                            *)
LocalAsSent ==
  \A f \in 0..frame-1 :
    Tagged(f) /\ TagOf(f) >= 0 => emu[f+1][Local] = LocalInput[TagOf(f)]

(* No silent drift: a frame that ran on a wrong guess is always about to be *)
(* rolled back, and the local input runs in the frame it was sent for.      *)
NoSilentDrift == StaleIsPending /\ GuessesRemembered /\ LocalAsSent

(* A saved state of an earlier frame is the state the current timeline had  *)
(* there, so restoring it never revives an abandoned timeline.              *)
RingOnTimeline ==
  \A i \in 0..MaxFrames :
    ring[i].frame \in 0..frame-1 => ring[i].state = SubSeq(emu, 1, ring[i].frame)

(* R5: replay_depth is set exactly while a replay is under way, so a tick   *)
(* that finds it set always returns the replay code.                        *)
ReplayDepthHonest == (replay_depth > 0) <=> (replay_remaining > 0)

(* A rollback that was accepted can be carried out: kn_pre_tick never finds *)
(* the state gone (RESTORE-FAILED).                                         *)
PendingRestorable ==
  pending_rollback >= 0 =>
    frame - pending_rollback \in 1..MaxFrames /\ RingHas(ring, pending_rollback)

(* A rewind is never deeper than the error: the frame it goes back to did  *)
(* run with an input its player did not produce.  Restoring from the frame *)
(* of the input itself would replay delay_frames correct frames.           *)
RewindIsNeeded ==
  pending_rollback >= 0 => \E s \in Remote : ~RanReal(s, pending_rollback)

(* A frame keeps the input frame it applied the first time when it is      *)
(* replayed, whatever the delay is by then.                                *)
KeepsTags ==
  replay_remaining' > 0 \/ replay_remaining > 0 =>
    \A f \in 0..frame'-1 : f < Len(emu) => TagOf(f)' = TagOf(f)
TagsKept == [][KeepsTags]_vars

(* The emulator only moves along its own history.                          *)
History == INSTANCE Timeline WITH timeline <- emu
StaysOnHistory == History!Spec

(* Every accepted rollback is carried out to the end of its replay.        *)
RollbackCompletes ==
  (pending_rollback >= 0 \/ replay_remaining > 0)
    ~> (pending_rollback < 0 /\ replay_remaining = 0)

(***************************************************************************)
(* The inductive invariant behind ReplayDepthHonest, RingOnTimeline,       *)
(* PendingRestorable and StaysOnHistory.                                   *)
(***************************************************************************)

LengthIsFrame == Len(emu) = frame

(* A saved frame is found at its own slot only. *)
RingIndexed ==
  \A i \in 0..MaxFrames : ring[i].frame >= 0 => ring[i].frame % RingSize = i

(* kn_pre_tick skips the save of a frame it saved already: the state that  *)
(* slot holds is then the current one.                                     *)
SavedIsCurrent ==
  last_save_frame = frame /\ replay_remaining = 0 /\ ~endpoint_save_pending
    => ring[frame % RingSize] = [frame |-> frame, state |-> emu]

EndpointAfterReplay == endpoint_save_pending => replay_remaining = 0

(* A replay, from its start to its end, spans no more than the ring saves. *)
ReplayBounded ==
  replay_remaining > 0 =>
    replay_start <= frame /\ frame + replay_remaining - replay_start <= MaxFrames

(* The inductive invariant: what the proofs carry from step to step.       *)
IInv ==
  /\ TypeOK /\ LengthIsFrame
  /\ RingIndexed /\ RingOnTimeline /\ SavedIsCurrent
  /\ EndpointAfterReplay /\ ReplayDepthHonest /\ ReplayBounded
  /\ PendingRestorable

=============================================================================
