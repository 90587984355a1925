------------------------------ MODULE MatchStart ------------------------------
(***************************************************************************)
(* The start of a match (netplay-rollback.js): every player boots an         *)
(* emulator after a tap, tells the others, gets the host's starting state    *)
(* (from a cache or captured by the host), announces that it is ready,       *)
(* starts, and initialises the C rollback engine with the delay and the      *)
(* frame the host broadcasts.                                              *)
(*                                                                         *)
(* Data channels are ordered; the starting state goes by the signalling      *)
(* server, in no order with them.  Lookups, captures and decodings are       *)
(* asynchronous: their continuations are tasks that run later.  A timer may   *)
(* fire at any time after it was set.  A handler is an operator that returns  *)
(* the new state s of player p.                                            *)
(***************************************************************************)
EXTENDS Naturals, Sequences, FiniteSets

CONSTANTS
  Host, Guests,   (* the players                                            *)
  OwnDelay,       (* the delay each player computes from its own RTTs       *)
  Deferred,       (* _remixMenuLockstep(): the engine starts with gameplay  *)
  MaxFrame,       (* bound: frames a player runs                            *)
  Slack,          (* how far lockstep lets a player run ahead of another    *)
  MaxLost         (* bound: peers lost during a start                       *)

Players == {Host} \cup Guests

ASSUME StartAssumption ==
  /\ Host \notin Guests /\ OwnDelay \in [Players -> Nat \ {0}] /\ Deferred \in BOOLEAN
  /\ MaxFrame \in Nat /\ Slack \in Nat \ {0} /\ MaxLost \in Nat

Frames == 0..MaxFrame
None   == MaxFrame + 1
Delays == {0} \cup {OwnDelay[p] : p \in Players}

VARIABLES
  player,     (* of each player: the engine's variables                     *)
  relay,      (* save-state messages on their way to each guest             *)
  lost,       (* history: peers lost                                        *)
  late        (* history: the deadlines that passed, and renderer retries   *)

vars == <<player, relay, lost, late>>

Phases == {"idle", "booting", "emuReady", "syncing", "lockstepReady", "running"}
(* _guestStateBytes: a cached state or the host's capture.                   *)
States == {"none", "cached", "captured"}
Message == [type : {"emu-ready", "lockstep-ready", "input"}]
           \cup [type : {"rb-delay"}, n : Delays] \cup [type : {"rb-init-frame"}, n : Frames]
SaveState == [bytes : States, sram : BOOLEAN]
Off == [delay |-> 0, at |-> None]

(* boot: the prompt is shown, the boot is polled, or neither.  emu, ready:   *)
(* whose emu-ready and lockstep-ready came.  open: whose channel is open.    *)
(* sram: the host's save RAM came with bytes.  tried: _cacheAttempted.  got: *)
(* whose first inputs are buffered; sent: one's own.  pending: _rbPendingInit, with its       *)
(* catch-up frame.  began: what the match was started from.                *)
Player == [phase : Phases, boot : {"off", "prompt", "polling"},
           peers : SUBSET Players, open : SUBSET Players,
           emu : SUBSET Players, ready : SUBSET Players, rtt : BOOLEAN,
           bytes : States, sram : BOOLEAN, tried : BOOLEAN,
           timers : SUBSET {"sync", "hostWait"},
           tasks : SUBSET ([kind : {"lookup", "capture"}] \cup SaveState),
           got : SUBSET Players, sent : BOOLEAN, frame : Frames, delay : Delays,
           hostDelay : Delays, hostInit : Frames \cup {None},
           pending : {<<"no">>, <<"wait">>} \cup ({"catchup"} \X Frames \X Delays), deferred : BOOLEAN,
           engine : [delay : Delays, at : Frames \cup {None}], began : SaveState,
           out : [Players -> Seq(Message)]]

TypeOK ==
  /\ player \in [Players -> Player] /\ relay \in [Players -> SUBSET SaveState]
  /\ lost \in 0..MaxLost
  /\ late \subseteq {"sync", "hostWait", "rbInit", "renderer"}

(***************************************************************************)
(* Handlers.                                                               *)
(***************************************************************************)

(* To every peer whose data channel is open.                               *)
Broadcast(s, m) ==
  [s EXCEPT !.out = [q \in Players |-> IF q \in s.open THEN Append(s.out[q], m) ELSE s.out[q]]]

(* doRollbackInit: the host tells the frame at which it did it.             *)
DoInit(p, s, delay, at) ==
  LET t == [s EXCEPT !.engine = [delay |-> delay, at |-> at], !.pending = <<"no">>, !.deferred = FALSE]
  IN IF p = Host THEN Broadcast(t, [type |-> "rb-init-frame", n |-> at]) ELSE t

(* _requestRollbackInit of a guest: behind the host's frame it catches up     *)
(* first, beyond it the engine starts at the local frame.                  *)
RequestInit(p, s, delay, at) ==
  IF at > s.frame THEN [s EXCEPT !.delay = delay, !.pending = <<"catchup", at, delay>>]
  ELSE DoInit(p, [s EXCEPT !.delay = delay], delay, s.frame)

(* tryInitRollback: a guest waits for both of the host's broadcasts.        *)
TryInit(p, s) ==
  IF p = Host THEN DoInit(p, s, s.delay, s.frame)
  ELSE IF s.hostDelay > 0 /\ s.hostInit # None THEN RequestInit(p, s, s.hostDelay, s.hostInit)
  ELSE [s EXCEPT !.pending = <<"wait">>, !.deferred = FALSE]

(* startLockstep.                                                          *)
StartLockstep(p, s) ==
  LET t == [s EXCEPT !.phase = "running"]
  IN IF Deferred THEN [t EXCEPT !.deferred = TRUE] ELSE TryInit(p, t)

(* The starting state is loaded with the save RAM that came with it; a guest  *)
(* without a state cannot start.                                           *)
LoadState(p, s) ==
  IF s.bytes = "none" /\ p # Host THEN s
  ELSE StartLockstep(p, [s EXCEPT !.began = [bytes |-> s.bytes, sram |-> p = Host \/ s.sram],
                                  !.bytes = "none", !.sram = FALSE])

(* The delay is the player's own; the host broadcasts its one.              *)
Go(p, s) ==
  LET t == [s EXCEPT !.delay = OwnDelay[p]]
  IN LoadState(p, IF p = Host THEN Broadcast(t, [type |-> "rb-delay", n |-> OwnDelay[p]]) ELSE t)

(* checkAllLockstepReady: not before the round-trip times are known, as the  *)
(* announcement waits for them.                                            *)
CheckAllLockstepReady(p, s) ==
  IF s.phase # "lockstepReady" THEN s
  ELSE IF s.peers = {} \/ (s.rtt /\ s.peers \subseteq s.ready) THEN Go(p, s) ELSE s

BroadcastLockstepReady(s) == Broadcast(s, [type |-> "lockstep-ready"])

(* The input buffers are cleared before readiness is announced.             *)
EnterLockstepReady(p, s) ==
  LET t == [s EXCEPT !.phase = "lockstepReady", !.got = IF s.frame = 0 THEN {} ELSE @]
  IN CheckAllLockstepReady(p, IF s.rtt THEN BroadcastLockstepReady(t) ELSE t)

(* _markInitialStateReady.                                                 *)
MarkInitialStateReady(p, s) == EnterLockstepReady(p, [s EXCEPT !.timers = @ \ {"hostWait"}])

(* variant: a guest with a cached copy does not wait for the host's state *)
CachedInitialStateUnawaited(p, s) == MarkInitialStateReady(p, s)
(* A guest's cached copy waits for the host's state and save RAM.           *)
CachedInitialStateReady(p, s) ==
  IF p = Host THEN MarkInitialStateReady(p, s)
  ELSE [s EXCEPT !.timers = @ \cup {"hostWait"}]

(* variant: a measurement that ends late is not followed by the announcement *)
FinishRttSilent(p, s) == [s EXCEPT !.rtt = TRUE]

(* _finishRttMeasurement.                                                  *)
FinishRtt(p, s) ==
  LET t == [s EXCEPT !.rtt = TRUE]
  IN IF s.phase = "lockstepReady" THEN CheckAllLockstepReady(p, BroadcastLockstepReady(t)) ELSE t

Done(s, t) == [s EXCEPT !.tasks = @ \ {t}]
Kind(k) == [kind |-> k]

(* checkAllEmuReady: once all are, the state is looked up.                   *)
CheckAllEmuReady(p, s) ==
  IF s.phase = "emuReady" /\ s.peers \subseteq s.emu
  THEN [s EXCEPT !.phase = "syncing", !.tasks = @ \cup {Kind("lookup")},
                 !.timers = @ \cup {"sync"}]
  ELSE s

Step(p, s) == /\ player' = [player EXCEPT ![p] = s]
              /\ UNCHANGED <<relay, lost, late>>

(***************************************************************************)
(* Boot.                                                                   *)
(***************************************************************************)

(* onOpen: a player whose emulator is ready says so; startGameSequence.      *)
ChannelOpens(p, q) ==
  LET s == player[p]
      t == [s EXCEPT !.open = @ \cup {q}, !.out[q] =
              IF s.phase \in {"idle", "booting"} THEN @ ELSE Append(@, [type |-> "emu-ready"])]
  IN /\ q \in s.peers \ s.open
     /\ Step(p, IF s.phase = "idle" THEN [t EXCEPT !.phase = "booting", !.boot = "prompt"] ELSE t)

Taps(p) == player[p].boot = "prompt" /\ Step(p, [player[p] EXCEPT !.boot = "polling"])

(* waitForEmu: enough frames ran.  The phase is set whatever it was.        *)
EmulatorReady(p) ==
  /\ player[p].boot = "polling"
  /\ Step(p, CheckAllEmuReady(p, Broadcast([player[p] EXCEPT !.phase = "emuReady", !.boot = "off"], [type |-> "emu-ready"])))

(* A blank canvas is retried with another renderer: showGesturePrompt is not *)
(* in scope there, the callback throws and polls no more.                  *)
RendererRetry(p) ==
  /\ player[p].boot = "polling" /\ "renderer" \notin late
  /\ player' = [player EXCEPT ![p].boot = "off"] /\ late' = late \cup {"renderer"}
  /\ UNCHANGED <<relay, lost>>

(* 22 pings were answered, one could not be sent, or START_WAIT_RTT_MS is     *)
(* over.                                                                   *)
RttDone(p) == player[p].open # {} /\ ~player[p].rtt /\ Step(p, FinishRtt(p, player[p]))

(***************************************************************************)
(* The starting state.                                                     *)
(***************************************************************************)

AlreadyLoaded(p, s) == p # Host /\ s.phase \in {"lockstepReady", "running"}

ToGuests(m) == relay' = [q \in Players |-> IF q = Host THEN {} ELSE relay[q] \cup {m}]

(* fetchCachedState: IndexedDB or the server has a state, which the host      *)
(* sends to the guests with its save RAM, or the host captures one, once.    *)
LooksUp(p, hit) ==
  LET s == Done(player[p], Kind("lookup"))
  IN /\ Kind("lookup") \in player[p].tasks
     /\ player' = [player EXCEPT ![p] =
          IF hit THEN IF AlreadyLoaded(p, s) THEN s
                      ELSE CachedInitialStateReady(p, [s EXCEPT !.bytes = "cached", !.sram = FALSE])
          ELSE IF p = Host /\ ~s.tried
               THEN [s EXCEPT !.tried = TRUE, !.tasks = @ \cup {Kind("capture")}] ELSE s]
     /\ IF hit /\ p = Host THEN ToGuests([bytes |-> "cached", sram |-> TRUE]) ELSE UNCHANGED relay
     /\ UNCHANGED <<lost, late>>

(* sendInitialState after its awaits.                                       *)
HostCaptures ==
  LET m == [bytes |-> "captured", sram |-> TRUE]
  IN /\ Kind("capture") \in player[Host].tasks
     /\ player' = [player EXCEPT ![Host] =
          EnterLockstepReady(Host, [Done(@, Kind("capture")) EXCEPT !.bytes = m.bytes])]
     /\ ToGuests(m) /\ UNCHANGED <<lost, late>>

(* handleSaveStateMsg up to its await, and after it.                        *)
ReceiveSaveState(p, m) ==
  /\ m \in relay[p] /\ relay' = [relay EXCEPT ![p] = @ \ {m}]
  /\ player' = [player EXCEPT ![p].tasks =
       IF player[p].phase \in {"lockstepReady", "running"} THEN @ ELSE @ \cup {m}]
  /\ UNCHANGED <<lost, late>>

(* variant: the phase is not looked at again after the await *)
DecodedUnchecked(p, m) ==
  /\ m \in player[p].tasks \cap SaveState
  /\ Step(p, MarkInitialStateReady(p, [Done(player[p], m) EXCEPT !.bytes = m.bytes, !.sram = m.sram]))
Decoded(p, m) ==
  LET s == Done(player[p], m)
  IN /\ m \in player[p].tasks \cap SaveState
     /\ Step(p, IF s.phase \in {"lockstepReady", "running"} THEN s
                ELSE MarkInitialStateReady(p, [s EXCEPT !.bytes = m.bytes, !.sram = m.sram]))

(***************************************************************************)
(* Messages of the data channel.                                           *)
(***************************************************************************)

Handled(p, q, s, m) ==
  CASE m.type = "emu-ready"      -> CheckAllEmuReady(p, [s EXCEPT !.emu = @ \cup {q}])
    [] m.type = "lockstep-ready" -> CheckAllLockstepReady(p, [s EXCEPT !.ready = @ \cup {q}])
    [] m.type = "input"          -> [s EXCEPT !.got = @ \cup {q}]
    [] m.type = "rb-delay"       ->
         LET t == [s EXCEPT !.hostDelay = m.n]
         IN IF s.pending # <<"no">> /\ s.hostInit # None THEN RequestInit(p, t, m.n, s.hostInit)
            ELSE [t EXCEPT !.delay = m.n]
    [] m.type = "rb-init-frame"  ->
         LET t == [s EXCEPT !.hostInit = m.n]
         IN IF s.pending # <<"no">> /\ s.hostDelay > 0 THEN RequestInit(p, t, s.hostDelay, m.n) ELSE t

Receive(p, q) ==
  /\ player[q].out[p] # <<>>
  /\ LET m     == Head(player[q].out[p])
         taken == [player EXCEPT ![q].out[p] = Tail(@)]
     IN player' = [taken EXCEPT ![p] = IF q \in @.peers THEN Handled(p, q, @, m) ELSE @]
  /\ UNCHANGED <<relay, lost, late>>

(***************************************************************************)
(* Ticks and timers.                                                       *)
(***************************************************************************)

(* A tick sends its input, also while the engine waits for the host; a        *)
(* waiting guest does not advance, one that catches up does.  Lockstep and   *)
(* the stall keep the players together.                                    *)
SendInput(s) == [(IF s.sent THEN s ELSE Broadcast(s, [type |-> "input"])) EXCEPT !.sent = TRUE]

Tick(p) ==
  LET s == player[p]
  IN /\ s.phase = "running"
     /\ \/ s.pending = <<"wait">> /\ ~s.sent /\ Step(p, SendInput(s))
        \/ /\ s.pending # <<"wait">> /\ s.frame < MaxFrame
           /\ \A q \in s.peers : s.frame < player[q].frame + Slack
           /\ Step(p, [SendInput(s) EXCEPT !.frame = @ + 1])

CatchUpDone(p) ==
  LET s == player[p]
  IN /\ s.pending[1] = "catchup" /\ s.frame >= s.pending[2]
     /\ Step(p, DoInit(p, s, s.pending[3], s.frame))

(* MENU->GAMEPLAY, where the deferred engine starts.                        *)
EntersGameplay(p) ==
  /\ player[p].deferred /\ player[p].phase = "running" /\ player[p].frame > 0
  /\ player[p].pending = <<"no">> /\ Step(p, TryInit(p, player[p]))

(* variant: the deadline is only looked at once the delay came *)
RbInitTimeoutWithDelay(p) ==
  LET s == player[p]
  IN /\ s.pending = <<"wait">> /\ s.hostDelay > 0
     /\ player' = [player EXCEPT ![p] = DoInit(p, s, s.delay, s.frame)]
     /\ late' = late \cup {"rbInit"} /\ UNCHANGED <<relay, lost>>

(* RB-INIT-TIMEOUT: with the delay and the frame the guest has.              *)
RbInitTimeout(p) ==
  LET s == player[p]
  IN /\ s.pending = <<"wait">>
     /\ player' = [player EXCEPT ![p] = DoInit(p, s, s.delay, s.frame)]
     /\ late' = late \cup {"rbInit"} /\ UNCHANGED <<relay, lost>>

(* The sync timeout gives up what was agreed, for another try.               *)
SyncTimeout(p, s) ==
  IF s.phase \in {"emuReady", "syncing", "lockstepReady"}
  THEN [s EXCEPT !.phase = "emuReady", !.ready = {}] ELSE s

HostStateWaitTimeout(p, s) ==
  IF s.phase \in {"lockstepReady", "running"} THEN s ELSE MarkInitialStateReady(p, s)

Expired(p, s, t) ==
  CASE t = "sync" -> SyncTimeout(p, s) [] t = "hostWait" -> HostStateWaitTimeout(p, s)

TimerFires(p, t) ==
  LET s == [player[p] EXCEPT !.timers = @ \ {t}]
      u == Expired(p, s, t)
  IN /\ t \in player[p].timers /\ player' = [player EXCEPT ![p] = u]
     /\ late' = IF u = s THEN late ELSE late \cup {t}
     /\ UNCHANGED <<relay, lost>>

(* During a start a closed channel removes the peer (hardDisconnectPeer).     *)
PeerLost(p, q) ==
  LET s == player[p]
  IN /\ lost < MaxLost /\ q \in s.open /\ s.phase \notin {"idle", "running"}
     /\ player' = [player EXCEPT ![p] =
          [s EXCEPT !.peers = @ \ {q}, !.open = @ \ {q}, !.ready = @ \ {q}, !.emu = @ \ {q},
                    !.got = @ \ {q}, !.out[q] = <<>>]]
     /\ lost' = lost + 1 /\ UNCHANGED <<relay, late>>

(* init.                                                                   *)
Fresh(p) ==
  [phase |-> "idle", boot |-> "off", peers |-> Players \ {p}, open |-> {},
   emu |-> {}, ready |-> {}, rtt |-> FALSE, bytes |-> "none", sram |-> FALSE, tried |-> FALSE,
   timers |-> {}, tasks |-> {}, got |-> {}, sent |-> FALSE, frame |-> 0, delay |-> 0,
   hostDelay |-> 0, hostInit |-> None, pending |-> <<"no">>, deferred |-> FALSE, engine |-> Off,
   began |-> [bytes |-> "none", sram |-> FALSE], out |-> [q \in Players |-> <<>>]]

Init ==
  /\ player = [p \in Players |-> Fresh(p)] /\ relay = [p \in Players |-> {}]
  /\ lost = 0 /\ late = {}

(* Channels open, messages and states arrive, taps come, continuations and   *)
(* ticks run, and the deadline of the engine's start passes.               *)
Progress ==
  \/ HostCaptures
  \/ \E p \in Players :
       \/ \E q \in Players : ChannelOpens(p, q) \/ Receive(p, q)
       \/ Taps(p) \/ EmulatorReady(p) \/ RttDone(p) \/ Tick(p) \/ CatchUpDone(p)
       \/ EntersGameplay(p) \/ RbInitTimeout(p)
       \/ \E hit \in BOOLEAN : LooksUp(p, hit)
       \/ \E m \in SaveState : ReceiveSaveState(p, m) \/ Decoded(p, m)

Next ==
  \/ Progress
  \/ \E p \in Players :
       \/ RendererRetry(p) \/ \E q \in Players : PeerLost(p, q)
       \/ \E t \in {"sync", "hostWait"} : TimerFires(p, t)

Spec == Init /\ [][Next]_vars

(* Something of Progress goes on as long as there is any.                   *)
FairSpec == Spec /\ WF_vars(Progress)

(***************************************************************************)
(* Properties.                                                             *)
(***************************************************************************)

Running(p) == player[p].phase = "running"

(* A start that no deadline and no loss interrupted reaches everybody: no    *)
(* order of announcements, states and measurements leaves players waiting   *)
(* for each other.                                                         *)
EveryoneStarts ==
  <>(\/ \A p \in Players : Running(p)
     \/ late \cap {"sync", "renderer"} # {} \/ lost > 0)

(* Everybody starts from the host's state with the host's save RAM, unless a  *)
(* guest stopped waiting for it.                                           *)
SameBeginning ==
  "hostWait" \notin late =>
    \A p, q \in Players :
      Running(p) /\ Running(q) => player[p].began = player[q].began

(* A first input that came is still there when the match starts: the one who *)
(* started first sends each only once.  Among three players a loss may break   *)
(* this: whom the host lost gets its state while booting, and then boots.    *)
FirstInputsKept ==
  [][\A p \in Players : lost' = 0 /\ "sync" \notin late
                           => player[p].got \subseteq player'[p].got]_vars

(* The engines of a match run with the same delay unless one did not wait for  *)
(* the host's.                                                             *)
On(p) == player[p].engine # Off
EnginesAgree ==
  "rbInit" \notin late =>
    \A p, q \in Players : On(p) /\ On(q) => player[p].engine.delay = player[q].engine.delay

(* What the players of a match have in common.                              *)
BeginningsAgree == TypeOK /\ SameBeginning /\ EnginesAgree

(* A retried renderer asks for another tap (the status says so) before the    *)
(* boot goes on.                                                           *)
RetryAwaitsTap ==
  \A p \in Players : player[p].phase = "booting" => player[p].boot # "off"

(* A guest never waits for ever for the host's delay and frame.              *)
GuestsEngineStarts ==
  \A p \in Guests : player[p].pending = <<"wait">> ~> player[p].pending # <<"wait">>

=============================================================================
