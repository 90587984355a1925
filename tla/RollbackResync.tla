---------------------------- MODULE RollbackResync ----------------------------
(***************************************************************************)
(* A guest's coordinated resync (netplay-rollback.js) around its rollback  *)
(* engine: the guest asks for the host's state at a target frame, buffers  *)
(* the state that arrives, holds it until it reaches the frame, and loads  *)
(* it over the emulator, while the engine keeps predicting and replaying.  *)
(*                                                                         *)
(* The host's emulator ran the same inputs from another boot state: a      *)
(* state of the host is its history, whose first vector is HostBoot.  The  *)
(* host sends confirmed states (CoordSync), so every later vector is what   *)
(* the players produced.                                                   *)
(*                                                                         *)
(* A tick is its sync section, then the engine's part: two actions, as the *)
(* inputs received before the tick are fed in between.  The input map of   *)
(* JavaScript, which applySyncState purges, is not part of this module:    *)
(* an input may be fed again.                                              *)
(***************************************************************************)
EXTENDS RollbackEngine

CONSTANTS
  Host,         (* slot 0                                                   *)
  HostBoot,     (* the first vector of the host's history                   *)
  SyncDelta,    (* SYNC_COORD_DELTA                                         *)
  HoldMax,      (* SYNC_HOLD_MAX_FRAMES                                     *)
  MaxRequests,  (* bound: states the guest asks for                         *)
  MaxArrivals   (* bound: states that arrive                                *)

ASSUME ResyncAssumption ==
  /\ Host \in Remote /\ HostBoot \in Vector
  /\ SyncDelta \in Nat /\ HoldMax \in Nat
  /\ MaxRequests \in Nat /\ MaxArrivals \in Nat

VARIABLES
  jsFrame,      (* _frameNum                                                *)
  target,       (* _syncTargetFrame, -1 if none                             *)
  pendingState, (* _pendingResyncState, NoState if none                     *)
  awaiting,     (* _runSubstate = RUN_AWAITING_RESYNC                       *)
  lastApplied,  (* _lastAppliedSyncHostFrame                                *)
  loaded,       (* the host history loaded last                             *)
  requests,     (* the requests sent                                        *)
  arrivals      (* the states received                                      *)

syncVars   == <<jsFrame, target, pendingState, awaiting, lastApplied, loaded,
                requests, arrivals>>
resyncVars == <<vars, syncVars>>

NoState == [frame |-> -1, state |-> <<>>, held |-> FALSE]
HasState == pendingState.frame >= 0

ResyncTypeOK ==
  /\ TypeOK
  /\ jsFrame \in Nat /\ target \in Int /\ awaiting \in BOOLEAN
  /\ pendingState \in [frame : Int, state : Seq(Vector), held : BOOLEAN]
  /\ lastApplied \in Int /\ loaded \in Seq(Vector) /\ requests \in 0..MaxRequests
  /\ arrivals \in 0..MaxArrivals

(***************************************************************************)
(* The host's state, and its arrival.                                      *)
(***************************************************************************)

(* Frame f of the host, which drifted at boot, given its own inputs.        *)
HostVector(own, f) ==
  IF f = 0 THEN HostBoot
  ELSE [s \in Slots |-> IF f < delay_frames THEN Zero
                        ELSE IF s = Local THEN LocalInput[f - delay_frames]
                        ELSE IF s = Host  THEN own[f - delay_frames]
                        ELSE real[s][f - delay_frames]]

HostHistory(own, n) == [i \in 1..n |-> HostVector(own, i-1)]

(* The inputs the host's state of frame n consumed.                        *)
Consumed(n) == {f \in 0..MaxFrame : f <= n - 1 - delay_frames}

(* _handleDecodedSyncPayload: a state no newer than the applied one is      *)
(* discarded, any other replaces the buffered one.  The host may be ahead, *)
(* but it has waited for every input of this guest that it consumed.       *)
StateArrives(n) ==
  /\ n \in 1..MaxFrame /\ n <= jsFrame + delay_frames + 1
  /\ \A s \in Remote \ {Host}, f \in Consumed(n) : real[s][f] # NoInput
  /\ n > lastApplied
  /\ arrivals < MaxArrivals /\ arrivals' = arrivals + 1
  /\ \E own \in [0..MaxFrame -> RealInputs] :
       /\ \A f \in Consumed(n) : real[Host][f] \in {NoInput, own[f]}
       /\ real' = [real EXCEPT ![Host] =
                     [f \in 0..MaxFrame |-> IF f \in Consumed(n) THEN own[f] ELSE @[f]]]
       /\ pendingState' = [frame |-> n, state |-> HostHistory(own, n), held |-> FALSE]
  /\ UNCHANGED <<frame, delay_frames, inputVars, applied_tag, ringVars,
                 pending_rollback, replayVars, failed, emu, trusted>>
  /\ UNCHANGED <<jsFrame, target, awaiting, lastApplied, loaded, requests>>

(* sync-request-full-at: the guest asks for the state of a coming frame.    *)
RequestSync ==
  /\ requests < MaxRequests /\ requests' = requests + 1 /\ UNCHANGED arrivals
  /\ target' = jsFrame + SyncDelta
  /\ UNCHANGED <<vars, jsFrame, pendingState, awaiting, lastApplied, loaded>>

(***************************************************************************)
(* The sync section of a tick.                                             *)
(***************************************************************************)

(* variant: only a running replay blocks the load *)
BlockedByReplay    == replay_depth > 0
ReplayBlocksApply == replay_depth > 0 \/ pending_rollback >= 0

Ahead      == HasState /\ pendingState.frame > jsFrame
              /\ pendingState.frame - jsFrame <= HoldMax
AtTarget   == target > 0 /\ jsFrame >= target

(* The state is of a coming frame: it is held until the guest is there.     *)
Holds ==
  /\ Ahead /\ ~ReplayBlocksApply
  /\ AtTarget \/ (target <= 0 /\ ~pendingState.held)

HoldState ==
  /\ Holds
  /\ target' = pendingState.frame
  /\ pendingState' = [pendingState EXCEPT !.held = TRUE]
  /\ awaiting' = IF AtTarget THEN FALSE ELSE awaiting
  /\ UNCHANGED <<vars, jsFrame, lastApplied, loaded, requests, arrivals>>

Loads ==
  /\ HasState /\ ~ReplayBlocksApply
  /\ target <= 0 \/ AtTarget
  /\ ~Holds

(* kn_set_frame: refused while a replay runs or is pending.                 *)
CounterSet(n) == IF replay_remaining # 0 \/ pending_rollback >= 0 THEN frame ELSE n

(* applySyncState: the state is loaded over the emulator and both counters  *)
(* move to its frame.                                                      *)
ApplySync ==
  /\ Loads
  /\ emu' = pendingState.state
  /\ jsFrame' = pendingState.frame
  /\ frame' = IF jsFrame # pendingState.frame THEN CounterSet(pendingState.frame) ELSE frame
  /\ lastApplied' = pendingState.frame
  /\ loaded' = pendingState.state
  /\ pendingState' = NoState
  /\ target' = -1 /\ awaiting' = FALSE
  /\ UNCHANGED <<delay_frames, inputVars, applied_tag, ringVars, pending_rollback,
                 replayVars, failed, ghostVars, requests, arrivals>>

(* variant: the depth of the dropped replay is kept *)
DepthUndropped   == replay_depth
DepthWhenDropped == 0

(* SYNC_APPLY_REPLAY_WAIT_MS: the replay in the way is dropped              *)
(* (kn_clear_replay_state), even if the state still waits for its target.  *)
DropReplay ==
  /\ HasState /\ ReplayBlocksApply
  /\ pending_rollback' = -1 /\ replay_remaining' = 0
  /\ replay_depth' = DepthWhenDropped
  /\ UNCHANGED <<frame, delay_frames, inputVars, applied_tag, ringVars, replay_start,
                 failed, emu, ghostVars, syncVars>>

(* The target is reached without its state.                                *)
AwaitState ==
  /\ AtTarget /\ ~HasState /\ ~awaiting
  /\ awaiting' = TRUE
  /\ UNCHANGED <<vars, jsFrame, target, pendingState, lastApplied, loaded, requests, arrivals>>

(* variant: the deadline only counts while the guest stalls at the target *)
OverdueWhenAwaiting == target > 0 /\ awaiting
Overdue == target > 0

(* COORD-SYNC-TIMEOUT: the target is dropped, and the state, if it is here, *)
(* is applied where the guest stands.                                      *)
DropTarget ==
  /\ Overdue
  /\ target' = -1 /\ awaiting' = FALSE
  /\ UNCHANGED <<vars, jsFrame, pendingState, lastApplied, loaded, requests, arrivals>>

(***************************************************************************)
(* The rest of the tick, and the specification.                            *)
(***************************************************************************)

(* The sync section has nothing left to do in this tick.  Waiting for the   *)
(* state stops the legacy tick only, not this one.                         *)
SyncDone == ~Holds /\ ~Loads /\ (AtTarget /\ ~HasState => awaiting)

EngineTick ==
  /\ SyncDone
  /\ Tick
  /\ jsFrame' = frame'
  /\ UNCHANGED <<target, pendingState, awaiting, lastApplied, loaded, requests, arrivals>>

FeedRemote == Feed /\ UNCHANGED syncVars

ResyncInit ==
  /\ Init
  /\ jsFrame = 0 /\ target = -1 /\ pendingState = NoState
  /\ awaiting = FALSE /\ lastApplied = -1 /\ loaded = <<>> /\ requests = 0 /\ arrivals = 0

SyncSection == HoldState \/ ApplySync \/ AwaitState

ResyncNext ==
  \/ EngineTick \/ FeedRemote
  \/ SyncSection \/ DropTarget \/ DropReplay
  \/ RequestSync \/ \E n \in 1..MaxFrame : StateArrives(n)

ResyncSpec == ResyncInit /\ [][ResyncNext]_resyncVars

(* The tick is called for ever and a deadline passes; no frame needs to     *)
(* run, as a stall or the pacing gate may hold the guest where it is.      *)
ResyncFairness ==
  WF_resyncVars(SyncSection) /\ WF_resyncVars(DropTarget) /\ WF_resyncVars(DropReplay)

FairResync == ResyncSpec /\ ResyncFairness

(***************************************************************************)
(* Properties.                                                             *)
(***************************************************************************)

(* The guest's two frame counters and the emulator never come apart: the    *)
(* loaded state, _frameNum and rb.frame are at the same frame, whatever     *)
(* replay, rollback or deadline the load meets (SYNC-FRAME-MISMATCH, and    *)
(* "applied the inputs to the wrong frame").                               *)
CountersAgree == jsFrame = frame /\ Len(emu) = frame

(* A saved state, and a state that waits to be loaded, is of the frame it   *)
(* is filed under.                                                         *)
RingLengths ==
  \A i \in 0..MaxFrames : ring[i].frame >= 0 => Len(ring[i].state) = ring[i].frame
StateFits == HasState => Len(pendingState.state) = pendingState.frame

(* A dropped replay leaves nothing behind: the depth still says whether a   *)
(* replay runs, and an accepted rollback can still be restored, to a state *)
(* of its frame, though the load left the states of another timeline in    *)
(* the ring.                                                               *)
EngineSound ==
  /\ ResyncTypeOK /\ RingIndexed /\ RingLengths /\ StateFits
  /\ EndpointAfterReplay /\ ReplayDepthHonest /\ ReplayBounded
  /\ PendingRestorable

(* I1: a state that has arrived does not wait for ever, whatever the target *)
(* and the replays do.                                                     *)
StateIsUsed == HasState ~> ~HasState

(* "The host is authoritative": once the host's state of a frame is loaded, *)
(* the guest stays on the host's timeline.                                 *)
SyncSticks == loaded # <<>> /\ emu # <<>> => emu[1] = HostBoot

(* "Guest: pause emulator while waiting for resync data ... the emulator    *)
(* doesn't advance (no divergent frames)."                                 *)
PausedWhileAwaiting == [][awaiting /\ awaiting' => frame' = frame]_resyncVars

=============================================================================
