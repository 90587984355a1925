--------------------------- MODULE RollbackSession ---------------------------
(***************************************************************************)
(* One peer's tick loop around its rollback engine (netplay-rollback.js):  *)
(* receiving input packets, measuring how far it is ahead, stalling before *)
(* a prediction can get too old to correct, declaring a silent peer a      *)
(* phantom, and handing the frame to kn_pre_tick.                          *)
(*                                                                         *)
(* The network is the choice of the next input that arrives: any frame not *)
(* received yet, in any order, or none ever again.  A packet with a        *)
(* redundant tail is the arrival of its frames one by one.  The inputs of  *)
(* a packet wait in _pendingCInputs until the next tick feeds them; nothing*)
(* reads the engine in between, so they are fed when they arrive.  Waiting *)
(* has no step of its own: a tick that stalls changes nothing modelled     *)
(* here, and a wall-clock deadline may fire whenever its condition holds.  *)
(***************************************************************************)
EXTENDS RollbackEngine

CONSTANTS
  AdvBias,      (* 2: added to the frame advantage handed to kn_pre_tick    *)
  MayPhantom    (* the slots that may stay silent past a deadline           *)

ASSUME SessionAssumption == AdvBias \in Nat /\ MayPhantom \subseteq Remote

VARIABLES
  newest,       (* _lastRemoteFramePerSlot, -1 if nothing arrived           *)
  phantom,      (* the slots with _peerPhantom                              *)
  adv,          (* _frameAdvRaw                                             *)
  throttled     (* _runSubstate = RUN_PACING                                *)

peerVars    == <<newest, phantom, adv, throttled>>
sessionVars == <<vars, peerVars>>

SessionTypeOK ==
  /\ TypeOK
  /\ newest \in [Remote -> -1..MaxFrame] /\ phantom \subseteq Remote
  /\ adv \in Int /\ throttled \in BOOLEAN

Live == Remote \ phantom
Slowest == CHOOSE n \in {newest[s] : s \in Live} : \A s \in Live : n <= newest[s]

(* The advantage over the slowest live peer; the old one if there is none.   *)
AdvNow == IF Live # {} /\ Slowest >= 0 THEN frame - Slowest ELSE adv

(***************************************************************************)
(* Stalling: an input that is still missing when the window leaves it can  *)
(* no longer be corrected, so the frame waits.                             *)
(***************************************************************************)

HasInput(s, f) == real[s][f] # NoInput
ApplyFrame     == frame - delay_frames
(* variant: the edge taken one frame too late *)
LateWindowEdge == frame - delay_frames - VisibleCap - 1
WindowEdge     == frame - delay_frames - VisibleCap

(* A lost packet left a gap at the edge, behind inputs that did arrive.     *)
GapAtEdge(s) ==
  /\ TrueRollback /\ WindowEdge >= 0
  /\ WindowEdge < newest[s] /\ ~HasInput(s, WindowEdge)

StallThreshold == IF TrueRollback THEN delay_frames + VisibleCap + 1 ELSE delay_frames + 4

(* The peer has produced nothing new for too long. *)
Behind(s) ==
  /\ ~HasInput(s, ApplyFrame)
  /\ newest[s] >= 0 /\ frame - newest[s] >= StallThreshold

(* variant: a phantom is waited for as well *)
StallsOnAll(s) == ApplyFrame >= 0 /\ (GapAtEdge(s) \/ Behind(s))
Stalls(s)      == s \in Live /\ ApplyFrame >= 0 /\ (GapAtEdge(s) \/ Behind(s))

(***************************************************************************)
(* Actions.                                                                *)
(***************************************************************************)

(* _processInputPacket: an input not received before; news of a phantom    *)
(* makes it a live peer again.                                             *)
Receive(s, f, v) ==
  /\ ~HasInput(s, f)
  /\ FeedInput(s, f, v)
  /\ newest' = [newest EXCEPT ![s] = IF f > @ THEN f ELSE @]
  /\ phantom' = IF f > newest[s] THEN phantom \ {s} ELSE phantom
  /\ UNCHANGED <<adv, throttled>>

(* With no live peer left the tick ignores code 3: it steps the emulator    *)
(* on the inputs the engine has and calls kn_post_tick, although           *)
(* kn_pre_tick returned before it stored the local input and saved.        *)
TickOverridden(a, stepped) ==
  /\ Paces(a) /\ frame < MaxFrame
  /\ MaintainRing /\ endpoint_save_pending' = FALSE
  /\ IF stepped
     THEN emu' = Append(emu, Applied(inputs, ApplyFrame)) /\ frame' = frame + 1
     ELSE UNCHANGED <<emu, frame>>
  /\ UNCHANGED <<delay_frames, inputVars, applied_tag, pending_rollback,
                 replayVars, failed, ghostVars>>

(* One frame of a tick.  A replay may run several frames in one tick, so    *)
(* only its first is subject to the stall.                                 *)
RunFrame(stepped) ==
  /\ replay_remaining > 0 \/ \A s \in Remote : ~Stalls(s)
  /\ adv' = AdvNow
  /\ LET a == AdvNow + AdvBias
     IN \/ TickReplay(a, stepped) /\ throttled' = FALSE
        \/ TickNormal(a, stepped) /\ throttled' = FALSE
        \/ Live # {} /\ TickPaced(a) /\ throttled' = TRUE
        \/ Live = {} /\ TickOverridden(a, stepped) /\ throttled' = FALSE
  /\ UNCHANGED <<newest, phantom>>

(* The deadlines.  A tick that gives a peer up goes on to run its frame;    *)
(* here an input may arrive in between.                                    *)
BecomesPhantom(s) ==
  /\ s \in MayPhantom \cap Live
  /\ phantom' = phantom \cup {s}
  /\ adv' = AdvNow
  /\ UNCHANGED <<vars, newest>>

(* markPeerPhantomForStallTimeout: the stall lasted MAX_STALL_MS +          *)
(* RESEND_TIMEOUT_MS.                                                      *)
StallTimeout(s) == Stalls(s) /\ BecomesPhantom(s) /\ UNCHANGED throttled

(* PACING_THROTTLE_TIMEOUT_MS of pacing: the slowest peer is given up.      *)
PacingTimeout(s) ==
  throttled /\ s \in Live /\ newest[s] = Slowest /\ BecomesPhantom(s) /\ throttled' = FALSE

(* No newer input for PEER_DEAD_MS. *)
PeerDead(s) == BecomesPhantom(s) /\ UNCHANGED throttled

SessionInit ==
  /\ Init
  /\ newest = [s \in Remote |-> IF s \in Backfilled THEN 0 ELSE -1]
  /\ phantom = {} /\ adv = 0 /\ throttled = FALSE

SessionNext ==
  \/ \E stepped \in BOOLEAN : RunFrame(stepped)
  \/ \E s \in Remote, f \in 0..MaxFrame, v \in RealInputs : Receive(s, f, v)
  \/ \E s \in Remote : StallTimeout(s) \/ PacingTimeout(s) \/ PeerDead(s)

SessionSpec == SessionInit /\ [][SessionNext]_sessionVars

(* The tick keeps being called, the emulator does not fail for ever, and a  *)
(* deadline whose condition stays true passes.  Nothing is assumed of the   *)
(* network: no input needs to arrive.                                      *)
SessionFairness ==
  /\ WF_sessionVars(RunFrame(TRUE))
  /\ \A s \in Remote : WF_sessionVars(StallTimeout(s)) /\ WF_sessionVars(PacingTimeout(s))

FairSession == SessionSpec /\ SessionFairness

(***************************************************************************)
(* Properties.                                                             *)
(***************************************************************************)

(* "Stall before any unconfirmed input can get that old": while no peer is *)
(* given up, the stall makes DEEP-MISPREDICT-SKIP, FATAL-RING-STALE and     *)
(* RESTORE-FAILED impossible, whatever the network loses or reorders and    *)
(* however replays, preemptions and ticks interleave.                      *)
NothingGivenUp == phantom = {} /\ MayPhantom = {} => ~failed

(* A rewind is never deeper than the error, and never deeper than the window. *)
RewindsAreRight == SessionTypeOK /\ RewindIsNeeded /\ NothingGivenUp

(* The vector every peer applies at frame f. *)
Agreed(f) ==
  [s \in Slots |-> IF f < delay_frames THEN Zero
                   ELSE IF s = Local THEN LocalInput[f - delay_frames]
                   ELSE real[s][f - delay_frames]]

(* The peers stay together: once the inputs of frame f have arrived and no  *)
(* rollback to it is outstanding, the frame has run with exactly the inputs *)
(* its players produced, so two peers agree on every confirmed frame.       *)
ConfirmedFramesAgree ==
  \A f \in 0..frame-1 :
    (/\ \A s \in Remote : f >= delay_frames => HasInput(s, f - delay_frames)
     /\ ~(0 <= pending_rollback /\ pending_rollback <= f))
    => emu[f+1] = Agreed(f)

(* I1: no stall without a bounded action.  The game reaches any frame even  *)
(* if the other players fall silent at any moment.                         *)
NeverFrozen == <>(frame = MaxFrame)

(* The game goes on, and every rollback is replayed to its end.              *)
GameGoesOn == NeverFrozen /\ RollbackCompletes

(* "Every slot, local included, is applied at applyFrame = frame - delay,   *)
(* so an input sampled at frame F runs at F + delay on every peer"          *)
(* (netplay-rollback.js, above NORMAL-INPUT-TR).                            *)
LocalRunsAsSampled ==
  \A f \in delay_frames..frame-1 : emu[f+1][Local] = LocalInput[f - delay_frames]

=============================================================================
