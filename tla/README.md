# kaillera-next: verification

kaillera-next runs one N64 emulator per player in the browser and keeps the emulators
together by rollback netcode. This directory holds TLA+ models of the parts whose mistakes
show as silent drift, frozen games, lost players or lost data, the TLC runs that check them
and the TLAPS proofs of the rollback engine, of the session and the resync around it, of the
connections, the start of a match, late joins, the server's rooms and most parts of the page. Paths below are relative to the repository's
source; J is `web/static/netplay-rollback.js`, C is `build/kn_rollback/kn_rollback.c`, W is
`web/static/rollback-shadow-worker.js`, play.js, shared.js and the like are in `web/static`.

## 1. Inventory

| Part | Code | State | Operations | Hard part |
|---|---|---|---|---|
| C rollback engine | C | input rings, guesses, newest inputs, applied tags, ring of saved states, pending rollback, replay counters | `kn_feed_input`, `kn_pre_tick` / `kn_post_tick`, `kn_set_delay_frames`, `kn_rollback_slot_reset`, `kn_set_frame`, `kn_clear_replay_state` | late and reordered inputs, preempted replays, failing steps, the age of saved states |
| Tick loop of a peer | J 13467-15430 | `_lastRemoteFramePerSlot`, `_peerPhantom`, `_frameAdvRaw`, `_runSubstate` | receive, stall, pace, give up, run a frame | lost packets against a bounded window, deadlines that race with late packets |
| Start of a match | J 8943-10127, 11876-12396, 13517-13583 | boot phases, announcements, caches, `_rbPendingInit` | boot, exchange state and save RAM, announce, agree on delay and first frame | asynchronous lookups, deadlines on one side only |
| Menus in lockstep | J 10754-10833, 13958-14121, 16371-16742 | `_menuStartReadyPeers`, `_menuStartBarrierReleased`, remote inputs | sample, send, wait, ask again, release | two peers in different phases of the same wait |
| Late join | J 10131-10557 | `RUN_LATE_JOIN_PAUSE`, `_lateJoinPausedAt`, `_lateJoinReadyHandled`, roster | request, pause, send, load, announce, resume | what ends a pause may come twice or never |
| Coordinated resync | J 13239-13481, 13597-13684, 17051-17585 | `_syncTargetFrame`, `_pendingResyncState`, `RUN_AWAITING_RESYNC`, `_scheduledSyncRequests`, `_pushingSyncState` | request, queue, capture and send (host), receive, hold, load (guest) | awaits in the middle of a push, two frame counters, three deadlines |
| Peer connections | J 7143-7565, 7787-7939, 8605-8810 | `_peers`, `reconnecting`, timers | offer, answer, reconnect, give up, reset | timers against events of an older connection |
| Running a frame | J 10848-11690, 15146-15400, 16230-16370 | `_pendingRunner`, the captured runner, exceptions at a frame | step, refresh, replay burst, recover, abort | calls that run nothing, exceptions in the middle |
| Shadow worker | J 768-918, 2109-4130, 14686-14955, W | steps in flight, overlay, prewarm, owed resyncs; epoch and sequence of a dispatched replay | step, show, hide, load; dispatch, answer, refuse | late answers of an asynchronous worker |
| Audio | `kn-audio.js` | contexts, worklet node, listeners | make, load, resume, stop | a module that loads while matches come and go |
| Local input | `shared.js`, `virtual-gamepad.js`, `gamepad-manager.js` | keys, fingers, pads, profiles | press, release, lose focus, sample | releases that never arrive |
| Streaming mode | `netplay-streaming.js` | host's connections, stream, slot inputs | offer, answer, capture, add tracks, input | who is ready first |
| ROM sharing | play.js 1536-2466 | pieces, channel, timers, states of the request | accept, send, pause, resume, retry | old channels and timers |
| Lobby page | play.js 275-1518, 2490-3854 | room and match of the page; ROM, hash, emulator | connect, join, start, end, come back; load, hash, boot, sleep | events across reconnects and awaits |
| Session logs | J 5802-6248, 17652-17686, `signaling.py`, `app.py`, `db.py` | ring of lines, acknowledged number, rows | log, flush by three ways, acknowledge, append | duplicates and late acknowledgements |
| Rooms | `server/src/api/signaling.py`, `state.py` | `rooms`, `_sid_to_room`, `_disconnect_grace_tasks`, the copy in Redis | open, join, return, leave, claim, release, start, end, disconnect, timers, cleanup | late disconnects, timers, restarts, an unlocked scan |
| Hash registry and desync detector, HTTP API and retention, demo and admin pages, rate limits, edge worker | see `PROJECT.json` | | | not modelled, section 7 |

The parts meet like this. The page joins a room by Socket.IO; the server's `users-updated`
tells it the slots; peers connect by WebRTC, boot, exchange a starting state and run the menus
in lockstep; then each peer samples its input for frame F, sends it to all and applies it at
F + delay. The tick feeds the inputs that arrived to the C engine, decides whether to wait, and
calls `kn_pre_tick`, the emulator and `kn_post_tick`. When the state hashes differ, or a silent
peer comes back, a guest asks slot 0 for its state and loads it. The worker covers or computes
replays; audio, local input and logs hang on the tick.

What makes each part correct is what section 3 says its run checks. `PROJECT.json` lists the
hazards at their lines and the properties that would catch them.

## 2. Modules

| Module | Models | Uses |
|---|---|---|
| `Timeline` | what the engine promises the emulator: its state is one history, a step runs a frame of it or goes back within it | |
| `RollbackEngine` | the C engine of one peer | `Timeline` |
| `RollbackEngineProofs` | theorems about it | `RollbackEngine` |
| `RollbackSession` | a peer's tick around the engine, with a lossy network | `RollbackEngine` |
| `RollbackSessionProofs` | theorems about it | `RollbackSession`, `RollbackEngineProofs` |
| `RollbackResync` | a guest's resync around the engine | `RollbackEngine` |
| `RollbackResyncProofs` | theorems about it | `RollbackResync`, `RollbackEngineProofs` |
| `CoordSync` | the host's side of the resync | |
| `PeerConnections` | the connection of two players | |
| `LinksProofs` | theorems about both | `MCLinks`, which has either as an instance for any constants |
| `MatchStart` | from the tap to the engine's first frame | |
| `MatchStartProofs` | theorems about it | `MatchStart` |
| `MenuLockstep` | lockstep through boot and menus | |
| `LateJoin` | joining a match that runs | |
| `LateJoinProofs` | theorems about it | `LateJoin` |
| `FrameRunner` | running a frame of the core, replay bursts, exceptions | |
| `ShadowOverlay`, `WorkerCoproc` | the worker as a picture and as a coprocessor | |
| `MatchAudio`, `LocalInput` | sound and controllers of one page | |
| `Streaming` | streaming mode | |
| `RomTransfer`, `LobbyPage`, `RomAndEmulator` | the page: ROM sharing, following the room, ROM and emulator | |
| `SessionLog` | the log from the ring to the database | |
| `PageParts` | seven parts of one page side by side, for any constants | `WorkerCoproc`, `LocalInput`, `RomAndEmulator`, `MatchAudio`, `FrameRunner`, `ShadowOverlay`, `SessionLog` |
| `PagePartsProofs` | theorems about these seven | `PageParts` |
| `SignalingRooms` | the rooms of the server | |
| `SignalingRoomsProofs` | theorems about it | `SignalingRooms` |
| `MC*` | small instances for TLC; `MCLogTail.cfg` and `MCAudioTap.cfg` are for `SessionLog` and `MatchAudio` themselves | each its own |

Conventions. A handler is one action with all it changes; an await splits it, and what runs
after the await is an action of its own that finds the state it then finds. Where a module has
many handlers that call each other (connections, start, late join), a handler is an operator
from the old record of its side to the new one, and the actions apply them. A timer or deadline
may fire at any time after it was set, which covers every value of its constant. Operators marked
"variant" are plausible mistakes; `PROJECT.json` says which property notices each.

### RollbackEngine

The emulator is deterministic, so its state is modelled by what it was fed: `emu` is the
sequence of input vectors of the frames run so far, and a saved state is such a sequence.
Two states are equal exactly when the emulators ran the same frames on the same inputs. An
input is a button word and one stick axis; all axes are treated alike by the code.

| Action | Code |
|---|---|
| `FeedInput` | `kn_feed_input` (C 1408), under the acceptance window of `_processInputPacket` (J 7586) |
| `TickPaced` | `kn_pre_tick` that returns 3 (C 1606-1632) |
| `TickReplay` | `kn_pre_tick` that returns 2, with or without the restore before it, the step and `kn_post_tick` |
| `TickNormal` | `kn_pre_tick` that returns 0, the step and `kn_post_tick` |
| `SetDelay`, `SlotReset` | `kn_set_delay_frames`, `kn_rollback_slot_reset` |

Feeding happens between ticks, never inside one, so a tick is one action. `stepped = FALSE`
is a step that did not run: `kn_pre_tick` has taken effect and `kn_post_tick` has not.
Two ghost variables say what the environment did: `real` (the inputs the players produced,
chosen when first fed and the same ever after) and `trusted` (the slots whose guesses true rollback
answers for: those not reset; none in legacy mode).
Left out: statistics; the split-RDRAM format of saves (a restore succeeds); the FIXUP after a
restore, which no state reaches. `Backfilled = Remote` in every run because strict menu lockstep
(`MenuLockstep`) and `_backfillCInputsFromJs` feed every slot before gameplay.

### RollbackSession, RollbackResync, CoordSync

`RollbackSession` adds `newest` (`_lastRemoteFramePerSlot`), `phantom`, `adv` (`_frameAdvRaw`)
and `throttled`. The network is the choice of the next input that arrives: in any order, with
gaps that are filled later or never. `Receive` is an arriving input, `RunFrame` a tick that
is not stalled, `TickOverridden` the tick that ignores code 3 when no live peer is left
(J 14955-14998), `StallTimeout`, `PacingTimeout`, `PeerDead` the three deadlines. Waiting
changes nothing and has no step. ROLLBACK_STALL and the boot waits end by PEER_DEAD and are not
separate actions. The order in which a tick drains `_pendingCInputs` (sorted) is one of the
arrival orders.

In `RollbackResync` the host is known by the states it sends: `HostHistory`, the vectors of its
frames, whose first one (`HostBoot`) stands for a drift the inputs do not explain. That a sent
state consumed only inputs the host had is `_liveStateConfirmed` (J 13365); `CoordSync` checks that
what goes out without it is followed up. The sync section of the tick and the engine are two
actions because inputs are fed in between. `_remoteInputs`, which `applySyncState` purges, is not
part of it: an input may be fed again.

`CoordSync` has the queue of requests, the push in flight with the guests it is for and the
generation of each guest's session when it began, the follow-ups of speculative states, replays of
the host, phantoms and closed channels. Every request asks for a full state; that empties the delta
base, so the delta branch (J 8245-8303) is dead and not modelled. `owed` and `got` are ghosts: the
requests accepted and the last kind of state each guest got.

### PeerConnections, MatchStart, MenuLockstep, LateJoin

`PeerConnections`: the lower slot makes the attempts, the other answers; a connection is the number
of the offer it was made from, so that a signal or event of an older one is told from the current.
`down` is what the network currently loses. ICE candidates belong to a connection coming up.

`MatchStart`: a host and its guests, each with boot phase, announcements, round-trip measurement,
starting state (from the cache, captured, or relayed by the server in no order with the channels),
save RAM, start, and the wait for the host's delay and frame. Continuations of lookups and decodings
are tasks. `lost` counts departed peers, `late` names the deadlines that passed.

`MenuLockstep`: a game is a few screens, left by a press. `trail` records for each peer the screen
and inputs of each frame. Packets may be lost or overtake; channels of text keep their order.

`LateJoin`: pauses, the transfers (`sending`, `loading`), the announcements over channels (ordered)
and the server (not ordered), and the roster of each player.

### FrameRunner, ShadowOverlay, WorkerCoproc

`FrameRunner` counts what the core emulated (`ran`) and what the engine or tick moved past
(`counted`). `ShadowOverlay` has the queue of posts to the worker, its answers, the overlay with its
timers and prewarm; the options are those of `shadowFrameBlit=1`. `WorkerCoproc` has one state per
frame: the set of the frames in it that ran on a wrong input; an answer is computed from what was
known at its dispatch and arrives at any time, refused, lost or overtaken.

### The page

`LobbyPage` is the page of one member against the server's idea of the room; what is sent without a
socket goes out first when there is one. `RomAndEmulator` is the same page's ROM (its bytes, hash and
name as numbers) and emulator (none, booting, awake, asleep). `RomTransfer` has one guest and pieces
`<<rom, i>>`. `Streaming` has offers as sets of tracks. `MatchAudio` numbers the AudioContexts;
`LocalInput` names keys and buttons by what they do. `SessionLog` numbers lines and rings; every limit
of bytes (the keepalive request of a hidden page, `_SESSION_LOG_MAX` for what the server keeps of a flush,
`_SESSION_LOG_CHUNK_MAX` and `_SESSION_LOG_CHUNK_CAP` of the database) is one of lines. A message of the
socket is below the second of them anyway (4 MB, `signaling.py` 271), which the model does not use. The
audit of the inputs has numbers, chunks and budgets of its own, under the same rules. A flush the server
refuses as too large is one of its refusals.

### SignalingRooms

`srv` is the memory of the server: `rooms`, `where` (`_sid_to_room`), `grace`
(`_disconnect_grace_tasks`), and `saved`, the rooms in Redis. A socket is a tab's id and a
number. Every handler takes `_room_lock` for its whole body, so it is one action; what does
not hold the lock is separate: `SocketDrops` is the head of `disconnect`, `HandleDisconnect`
its rest, `Scan` and `Delete` the two halves of the cleanup. A scan may also fall on an await
of a handler that has just emptied a room (`Handle`). `Restart` loads `saved` and forgets
sockets, timers and the sweep; a crash inside a handler is a restart before it, as a handler
saves once, at its end. A tab asks for one room, as `play.js` does, comes back to it under new
sockets (`Return`), and ends with `leave-room`; a request sent before a socket dropped may still
run after it (`CanAsk`). A claim names a slot its page was shown, 0 to 3 (`payloads.py` 97 checks that). Passwords, MAX_ROOMS, spectator caps, rate limits and ROM readiness may
refuse a request; since no request has to be made, a refusal is a request not made.

## 3. Runs

| Run | Configuration | Instance | Shows |
|---|---|---|---|
| `engine` | `MCRollbackEngine.cfg` | one remote, ring of 3 states; true rollback with delays 1 and 2, failing steps, 4 frames; legacy mode with pacing, slot resets, 5 frames | the invariant that is proved (`IInv`), accepted rollbacks can be carried out, no wrong frame escapes and the local input runs as sent (`NoSilentDrift`), replays keep their input frames, the emulator stays on its history (`Timeline`) |
| `session` | `MCSession.cfg` | depth cap 2, ring of 5, 5 frames | the stall keeps every misprediction correctable, no rewind is deeper than the error; confirmed frames agree |
| `session_live` | `MCSessionLive.cfg` | depth cap 1, the peer may fall silent | the game reaches every frame and every rollback completes |
| `resync` | `MCResync.cfg` | a request, a state, pacing, ring of 3 | counters agree, dropped replays leave nothing behind, a state is used |
| `rooms` | `MCRooms.cfg` | 3 tabs with 2 sockets, 2 places, a restart | membership, slots, ownership, Redis, no ghosts |
| `rooms_deserted` | `MCRoomsDeserted.cfg` | 2 tabs with 2 sockets, 2 rooms, cleanup, a restart; no tab in two rooms, no late sweep | deserted rooms go away |
| `links` | `MCLinks.cfg` | two players with 2 attempts each way and a break; a host with 2 guests, 2 requests, a fault, one follow-up | reconnects end, a working link is not torn down by leftovers; requests are answered, followed up and not stacked |
| `start` | `MCStart.cfg` | a host and a guest with different own delays, a loss, a deferred engine | same state, save RAM and delay; nobody waits for ever; first inputs are kept |
| `latejoin` | `MCLateJoin.cfg` | host, guest, joiner, each fault once | the roster never names who has not started; pauses end; a join is completed |
| `page_parts` | `MCPageParts.cfg` | eleven parts: the seven of `PageParts` with bounds in the configuration, four more with bounds in the module | one property for each part, below |
| `resync_sticks`, `log_tail` | | | disagreements, section 5 |

A run may hold several small instances that share no variable: `part` (in `MCLinks`,
`MCPageParts`) or `legacy` (in `MCRollbackEngine`) is chosen in the initial state and never
changes, so a behaviour is one instance's for good and each property speaks of its own.
`MCPageParts` extends `PageParts`: a behaviour of `MCSpec` that is one of the seven parts' is a
behaviour of `PageSpec`, which the theorems are about.

What the parts of `page_parts` show: `ShadowSound` (steps in flight counted exactly, the game's
canvas hidden only under a live overlay, an owed resync has the hide that sends it), `CoprocSound`
(tick and engine stay at one frame under answers, refusals and aborts; the last dispatch is the
only one whose answer counts), `RunnerSound` (counted = emulated, frame numbers agree, the fatal end
once, the picture only off during a replay), `AudioSound` (own open context, nothing leaks),
`InputSound` (no stuck key or button, pads with their own profile, taps played), `StreamSound`
(everybody sees a settled stream; no input of somebody gone), `TransferSound` (the ROM is the host's,
a waiting guest has a timer), `PageFollowsRoom`, `EmulatorRunsTheRom`, `LogSound` (acknowledged
lines were stored or left out of a flush that was too large, each once; the budget of a match costs the
oldest chunks only), `MenuSound` (same path, real inputs, no deadlock). Several
have exceptions in their premises (`~lost.status`, `~seen.overlap`, `~hazard.loading`,
`past.left`, `~past.reloads`): each is a case in which the code does not hold it, named and listed in section 5.

Bounds. Rings, windows and caps are scaled down together, and the frames run past the ring's
length, so that slots are overwritten, a window slides and a rollback can be too deep. Two inputs
(stick at rest and moved) are enough for a guess to be wrong in either direction: the guess
extrapolates, so it can also overshoot and be clamped. One remote slot: slots interact only by the
earliest pending rollback, which late inputs of two frames of one slot exercise as well. The legacy
half runs a frame further so that an input can be too old for the ring, and is fed up to frame 2.
`RewindIsNeeded` is checked with a constant delay; after a delay change a gap in the tags makes the
rewind start one frame early, which costs a frame of replay and nothing else. In `rooms` three tabs
are the owner, the one who inherits and the one who competes for the freed slot; two sockets per tab
are an old and a new one, one restart separates two lives of the server. The cleanup is off there (the
minute before its first scan), as its stale deletion breaks membership by itself (section 5); in
`rooms_deserted` it runs, beside two rooms, and tabs come back under a second socket. Its property has the
premise `[]Orderly`: a tab is a member of one room at a time, and no room comes back to life between the
scan and the deletion. Without either the code leaves a deserted room for ever (section 5). The run stops at
the states that are not orderly (`CONSTRAINT Orderly`): what passes through one satisfies the property. `rooms` has one room: a second one is in section 5.
In `links` two attempts and three connections give an older and a newer one with all their timers; two
guests give a request that meets another's push. In `latejoin` every message may come last, and
`MaxReady` 2 is two announcements of one joiner. In `page_parts` every bound is at least 2 where
something can be old and new (connections, matches, links, contexts, rollbacks), and retries and
timers reach their last attempt. The log has two matches, two flushes of up to three lines, a ring of three
lines out of four, a hidden page that may send one line, a server that keeps two of a flush and two of a
match, in chunks of one; `RingFillsOnce` lets the ring overflow in one of the matches only. The ROM transfer
has three clicks: share, stop, share again. `CHECK_DEADLOCK FALSE` stands where the instance ends: frames,
requests or sockets are used up; that menus do not deadlock is a property of its own (`NobodyIsStuck`).

Fairness. `FairSession`: ticks that are not stalled run, the emulator's step does not fail for ever,
a deadline whose condition stays true passes; no packet needs to arrive. `FairResync`: the sync
section runs and its two deadlines pass. Rooms: the server runs disconnect handlers, the timer of each
player and the cleanup, whose scan and deletion are one loop; nobody has to ask or return. `PeerConnections`: timers fire; nothing is assumed of the
network. `CoordSync`: a request that can be dispatched again and again is (its deadline, once passed,
stays passed, while replays come and go: strong fairness), a push ends, a replay ends, a closed channel
is replaced or given up. `MatchStart` and `LateJoin`: something of what goes on by itself (messages,
continuations, ticks, the deadline the code sets) goes on; their faults and retries need never happen.
Their instances are finite, so this is no assumption about which of several things goes first. None
assumes that a peer answers.

## 4. Proofs

A theorem holds for every value of the constants that satisfies the named assumptions of its
module and what its own row says; the runs show the same properties on their instances. An
"invariance" theorem is the inductive invariant the others of its group follow from.

| Module | Theorem | States |
|---|---|---|
| `RollbackEngineProofs` | `TypeCorrect` | `Spec => []TypeOK`: among others that a guess stays in the range of the stick |
| | `Invariance` | `Spec => []IInv` |
| | `RingTimely` | `Spec => []RingOnTimeline` |
| | `RollbackRestorable` | `Spec => []PendingRestorable` |
| | `DepthHonest` | `Spec => []ReplayDepthHonest` (R5 of `docs/netplay-invariants.md`) |
| | `ImplementsTimeline` | `Spec => StaysOnHistory` |
| | `TagsInvariance` | `Spec => []TagsInv` |
| | `LocalInputsAreSent` | `Spec => []LocalAsSent`, delay changes included |
| | `NoGuessForgotten` | `Spec /\ NeverRaised => []GuessesRemembered`, true rollback |
| | `ArrivedInputsStay` | `Spec => []RealHeld`, `MaxFrame < InputRing` |
| | `NoStaleFrame` | `Spec /\ NeverRaised => []StaleIsPending`, both |
| | `DriftIsNeverSilent` | `Spec /\ NeverRaised => []NoSilentDrift`, `MaxFrame < InputRing`, both modes |
| | `ReplaysKeepTags` | `Spec => TagsKept` |
| `RollbackSessionProofs` | `SessionInvariance` | `SessionSpec => []SessionInvariant`, ordinary session |
| | `RewindsRight` | `SessionSpec => []RewindsAreRight`, ordinary session |
| | `ConfirmedAgree` | `SessionSpec => []ConfirmedFramesAgree`, ordinary session |
| `RollbackResyncProofs` | `ResyncInvariance` | `ResyncSpec => []ResyncInv` |
| | `CountersStayTogether` | `ResyncSpec => []CountersAgree` |
| | `EngineStaysSound` | `ResyncSpec => []EngineSound` |
| `MatchStartProofs` | `StartInvariance` | `Spec => []Inv` |
| | `MatchBeginningsAgree` | `Spec => []BeginningsAgree` |
| `LateJoinProofs` | `LateJoinInvariance` | `Spec => []Inv` |
| | `JoinersAreHeldBack` | `Spec => []RosterSound` |
| | `SingleJoinerStartsWithHost` | `Spec => StartsWithHost` |
| `LinksProofs` | `LinksStaySound` | `MCSpec => []LinksSound` |
| | `NothingOldEndsTheLink` | `MCSpec => WorkingLinkKept` |
| `PagePartsProofs` | `CoprocStaysSound` | `PageSpec => []CoprocSound` |
| | `InputStaysSound` | `PageSpec => []InputSound` |
| | `TheRomRuns` | `PageSpec => []EmulatorRunsTheRom` |
| | `AudioStaysSound` | `PageSpec => []AudioSound` |
| | `RunnerStaysSound` | `PageSpec => []RunnerSound` |
| | `ShadowStaysSound` | `PageSpec => []ShadowSound` |
| | `LogStaysSound` | `PageSpec => []LogSound` |
| `SignalingRoomsProofs` | `RoomsInvariance` | `Spec /\ FreshSweeps => []RoomsInv` |
| | `RoomsStaySound` | `Spec /\ FreshSweeps => []RoomsSound` |
| | `NoGhosts` | `Spec /\ FreshSweeps /\ []OnePageEach => []NobodyIsAGhost` |
| | `SlotsStayFixed` | `Spec /\ FreshSweeps => SlotsFixedInAMatch` |
| | `OnlyOwnRequests` | `Spec /\ FreshSweeps => OnlyOwnRequestUnseats` |
| | `FirstMinute` | `Spec => FreshSweeps` when the cleanup does not run |

What the assumptions stand for in the code:

- `WindowFits`: window and delay together are smaller than the input ring (30 + 20 < 256). Without it
  a replay would read a tag whose place a newer frame has taken.
- `NeverRaised`: the delay is only ever lowered. Raising it lets two frames share an input tag, the first
  case of section 5. The properties except such frames (`SharesTag`) and run `engine` raises the delay on its
  instance; the proofs of the two that depend on guesses do not cover it, `TagsInvariance` and
  `LocalInputsAreSent` do.
- `MaxFrame < InputRing`: the match is shorter than the input ring, some four seconds. It is needed for a bare
  engine, to which the environment may feed an input 240 frames late. In a session the stall excludes that,
  and `ConfirmedAgree` has no such bound: what the short theorem says of any feeding, the long one says of
  the feeding there is.
- ordinary session (`OrdinarySession`): true rollback, no peer is given up, every peer's first input was fed
  (`_backfillCInputsFromJs`), and sizes that leave room for one another (depth cap 7, window 12 to 30, delay
  at most 20, 60 frames of future margin, ring 256).
- `FreshSweeps`: the cleanup deletes no room that came back to life between its scan and its deletion. That it
  may do so is in section 5 (`CleanupSparesLiveRooms`), and the entries of the deleted room's sockets then name a
  room that is gone. Restarts, lost sockets and all timers are covered.
- the parts of the page: `CoprocAssumption`, `InputAssumption`, `RomAssumption`, `AudioAssumption`,
  `RunnerAssumption`, `OverlayAssumption` and `LogAssumption` say which constants are numbers, and little else: a
  replay burst is at least a frame and a coprocessor is given up after at least one refusal; no finger or gamepad is
  called "none"; a player starts in slot 0; a ROM's number is not 0. Rings, flushes and limits may be of any size.
- `OnePageEach`: no tab is a member of two rooms; section 5 has the ghost a second room leaves behind.

The engine's argument. That an accepted rollback finds its state is not inductive: `kn_feed_input`
looks into the ring when it accepts, and many ticks may pass before `kn_pre_tick` restores.
What carries it is that a tick overwrites only the place of the current frame, which cannot be the
place of a pending target as long as the target is within `MaxFrames` (`RingIndexed`,
`PendingRestorable`, `ReplayBounded`), and that a pending rollback stops the pacing gate and is
taken by the next tick unless a replay that began earlier is under way. That the saved state
belongs to the current timeline needs `SavedIsCurrent`: `kn_pre_tick` skips the save of a frame
it saved already, so whenever `last_save_frame = frame` that place must hold the current state,
except between the end of a replay and the save of its endpoint (`endpoint_save_pending`,
`EndpointAfterReplay`).

No silent drift. A frame is compared with the input that arrives for its tag, not for its number, and
what it is compared with is `predicted_values`, which every replay overwrites. `TagInv` says which tags the
frames of the window have: one delay back from the frame, and each tag's place in the three rings is its own
as far back as a replay can reach. `GuessInv` says that a frame whose real input is not there ran on exactly the
value `predicted_values` has under its tag, or lies in the part a pending or running replay runs again.
`HeldInv` keeps a real input in its place.

The session. The stall compares the frame with the newest input of each live peer, not with the oldest one
that is missing. `SessionInv` bounds both: the frame never passes the newest input by more than cap and delay,
gaps inside are filled from `_pendingCInputs` before the tick, and so every frame that ran on a guess is within
`MaxFrames` of the frame that runs, where `kn_feed_input` can still rewind to it and where neither an old nor an
early input takes the place of one that is needed.

The resync. The counters agree although the engine may refuse a load: the page does not start one while a
replay runs or a rollback is pending, except after the deadline, and then it drops the replay first. What
`IInv` has of the ring's place in the timeline is lost by a load (`resync_sticks`), and `ResyncInv` is what
remains: shapes and lengths, which are enough for `CountersAgree` and `EngineSound`.

The start. What everybody begins with is decided by what is under way, so `Inv` speaks of messages, tasks and
caches: the only delay on its way is the host's own (`DelaysOf`), and either no state has been sent and nobody
holds one (`Unsent`), or one state has and it is the one in every relay, task and player (`Sent`). That the host
looks for a state once rests on each emulator being announced to it once (`SaidOnce`); what a deadline lets somebody
begin alone is behind `"hostWait" \notin late` and `"rbInit" \notin late`, as in the property. Any number of
guests may be lost or come late.

Late joins. The host's roster is what it is connected to less what it holds back, and it holds back every
joiner who does not run (`Sound`); a roster under way is one it sent, and who runs never stops running. That
the transfer's frame is the one the host stopped at needs that nothing under way ends the pause: only a `resume`
or a `ready` does, and before anybody runs there is neither (`QuietInv`, `FrozenInv`). With two joiners the first
one's end resumes the host while the second still loads, so the theorem is about one.

The links. `LinkInv` orders the offers under way: each is for a newer connection than the other side has, none for
a newer one than was made last. So when both sides use the same connection no offer is under way, the close event
of the current channel is the only one that counts and every timer finds a side that is connected and waits for
nothing: `WorkingLinkKept`. Of the host, `PushInv` says whom the push in flight is for and in which session each
was when it began; with it a request that leaves the queue is with the push until the push has sent it or puts
it back, and what is put back is of the session the guest is in.

The coprocessor. What it replays is checked in the invariant by frame numbers only: a replay under way ends no
later than the highest frame of the tick, an open dispatch aims no higher, and a coprocessor at its limit of
refusals was given up (`CoprocInv`). Which answer is the last one's follows from the sequence number, however many
others are late.

Local input. A finger that is up, cannot be heard any more or moves the stick is on no button (`FingersInv`), and a key
tapped since the last sample is among the keys just pressed, which the loss of the focus empties (`TapsInv`). That each
gamepad is read with the profile and the rest position of its own model, and that a slot's gamepad is there, is `PadsOwn`.

The ROM. Whatever overlaps, an emulator that sleeps is labelled with the hash the page has (`RomAlways`); but only while
loads and boots come one at a time (`Orderly`, the premise of the property) is that the hash of the blob (`BlobIsHashed`)
and the ROM of the emulator (`EmulatorKnown`), and is there one load, none during a match, and one boot, which is of the
match that runs (`OneLoad`, `OneBoot`).

Audio. A module that loads belongs to a context that may be gone when it is loaded. The match's context and the one
made in advance are different open contexts of matches, and there is no third (`TwoContexts`); that a new match closes
or takes the one made in advance rests on when the constructor is replaced (`StageInv`). With and without worklets.

The runner. An outcome of a step says whether the core ran a frame, and between the steps of a tick (`Mid`) the
tick's number and the engine's may differ, while what ran and what was counted do not unless an exception tore a frame;
a tick that ends settles them (`Settled`). A replay
burst is a recursive function of its frames; that it exists, and that every frame of it is settled, is shown by
induction over a set of naturals (`AllNaturals`).

The shadow worker. The number of steps in flight is a count over a queue: it is shown to grow by one with a step that
is posted and to shrink by one with a step that is answered; before the worker is ready the only message is its start
(`WorkerOk`). A visible overlay and an owed resync are those of the worker that runs (`CoverOk`).

The log. A number in a flush or an answer is about the ring it was taken from, and rings may be gone when it
arrives. `Fine` says of each number under way, and of what is stored, that its ring had that many lines and that the
lines before it are accounted for as far as the ring still holds them (`Covered`): stored, or stored until the budget
of the match was used up, or left out of a flush larger than the page may send or the server keeps. A ring that ended
has nothing to keep, and what is accounted for stays so (`Later`). What the budget may cost is seen by the position of
a chunk among all lines ever stored of a match (`Full`). That a log is in order needs that every match has one ring (`AtHome`): a page begins no match
twice, as the room has the match only once, unless it is loaded anew.

The rooms. `Good` relates four dictionaries that are only kept in step by the order of statements in the
handlers. The parts that are not among the checked properties are what makes it inductive: a connected
member has an entry (`LiveIsBound`); a timer is that of a closed socket whose entry still stands (`TimerOK`);
an owner who does not play is a socket gone for good (`OwnerGone`), so that nobody can become owner by
coming back; a socket belongs to one room (`SocketsApart`) and had been connected (`SocketsUsed`), so that a
new connection resembles no member. Each handler then changes one room for the sake of one member
(`Touches`) or takes a room out (`Drops`), and two lemmas show that this is all the invariant needs.

Each file has one lemma per action, with a step per conjunct, over lemmas about the operators
(`RollbackTarget`, rings, prefixes, `Pop`, `Seat`, `Departed`, dictionaries).

Only model-checked: `FirstInputsKept` of the start; of the page `StreamSound`, `TransferSound` and
`PageFollowsRoom`; the menus, whose `NobodyIsStuck` is about ENABLED; and all liveness
(`GameGoesOn`, `StateIsUsed`, `DesertedRoomGoes`, `ReconnectEnds`, `EveryRequestServed`, `QueueDrains`,
`EveryoneStarts`, `GuestsEngineStarts`, `EverybodyResumes`, `JoinIsCompleted`), which is outside the reach of the prover.

## 5. Where code and its own statements disagree

With a run whose counterexample shows it; `PROJECT.json` quotes the lines.

- `resync_sticks`: `applySyncState` leaves ring and guesses of the replaced timeline in the engine;
  a late input of the host then rolls the guest back to before the sync.
- `log_tail`: the last flush of a match comes when the room has no match any more and is turned away
  with an answer that counts as delivered.

Definitions of the modules that do not hold; those with a configuration fail under it, the others
fail when put in place of the property of their part.

| Definition | What happens |
|---|---|
| `NoSilentDrift` without its exception `SharesTag`, a delay raised between two frames of the window | the two frames share one input tag; a replay guesses the later one anew from a newer input and overwrites `predicted_values` (C 1804-1823, whose comment says later arrivals are "checked against what this replay ran"); when the real input equals the new guess, the earlier frame keeps its wrong one and nothing is rewound. The delay is retuned during a match (J 467) |
| `EveryPlayerHasASlot` (`MCRoomsSlot.cfg`) | a handover in the lobby takes slot 0 from whoever has it (`signaling.py` 629) |
| `NobodyIsAGhost` with two rooms (`MCRoomsGhost.cfg`) | timers are keyed by the player (`signaling.py` 515) and cancelled from another room; the player stays in the first for ever |
| `CleanupSparesLiveRooms` (`MCRoomsCleanup.cfg`), `CleanupKeepsRunning` | the cleanup deletes rooms that came back to life after its scan (`signaling.py` 679); the room may also be gone, and the `KeyError` ends the task |
| `AnyDesertedRoomGoes` | a late deletion takes a room that lives; it is opened again, and the `leave-room` of the player's older socket cancels the timer of the new membership: nobody is left to remove it. With two rooms the `KeyError` above ends the task, and what a restart restored stays for ever |
| `NoRoomIsOwnerless` | the last player leaves a lobby with a spectator, who then claims a slot in a room whose owner is gone |
| `LocalRunsAsSampled` (`MayPhantom = {p1}`, `AdvBias = 7`, 6 frames) | once every peer is a phantom `_frameAdvRaw` keeps its value; if that paces, code 3 is overridden every tick (J 14972) and the local input never reaches the engine |
| `PausedWhileAwaiting` | the pause of J 16697 is behind the return of the rollback branch: a guest that waits for the host's state runs on |
| `RetryAwaitsTap` (`MCStartRetry.cfg`) | the retry of the renderer calls `showGesturePrompt`, which is not in scope there (J 9215); the callback throws before it sets its timer, and the boot stands still |
| `AnnouncementsCome` (`MCMenuStuck.cfg`) | who is released stops announcing (J 10784-10833), while another may still need the announcement of the next menu (`docs/netplay-invariants.md:51`) |
| `StateIsWhole` (of `CoordSync`) | a send that throws in the middle of a state is caught and not reported as skipped (J 17269-17283): the guest has its beginning, the host counts it as served, and only a new request repairs it |
| `AnsweredReconnectEnds`, `GaveUpTogether` | the side that learns of a break by the offer it answers sets no 45 s timer; one side may give the other up alone |
| `OnlyWaitingAreCutOff` | the deadline of an earlier joiner is not cancelled (J 10255-10283) and cuts off him who started, in the pause for the next (`docs/netplay-invariants.md:45`) |
| `NotActiveUntilReady` (`MCLateJoinFails.cfg`) | when sending the state fails, `sendLateJoinState` takes the joiner out of those held back but not out of `_peers` (J 10300-10308), and the next roster names its slot (J 10131-10143), though J 5205 has "running-phase players not active until late-join-ready"; `RosterSound` excepts a failed send |
| `ShownOverlayWillGo` | a prewarm's answer after the replay shows an overlay that no hide takes away (J 2209-2219) |
| `OvertakenAnswersAreDropped`, `MistakesAreCorrected`, `DeferralEndsWithItsAnswer` | a preempting misprediction leaves the epoch (J 14903-14907 against 769-774); a correction is forgotten when the answer is taken (J 14686-14693); a refusal leaves the engine deferred (J 14772) |
| `LockstepIsVisible` | three exceptions during a replay leave the match in lockstep with picture and sound off |
| `EveryoneHears`, `NobodyIsCutOff` | sound found after the capture reaches nobody who is connected; a guest whose stream failed has no way back |
| `BytesAreVerified` | in a match two channels feed the same pieces when a request that timed out is answered after all; the size is checked, the bytes are not (play.js 2407-2409) |
| `JoinSeesTheMatch`, `ReturnSeesTheMatch` | the page acts on the status it looked up before it joined (play.js 1110) |
| `OneEmulator`, `HashIsTheBlobs` | a boot that waits for the core is not seen by the next (play.js 2747, 2780); the hash that comes last wins (play.js 3000-3091) |
| `AckedIsKept` (of `SessionLog`) | a hidden page sends the newest lines that fit (J 6134-6147), and the server keeps the newest of a flush (`signaling.py` 1722-1729); the acknowledgement of the newest covers the older ones left out (J 5805-5810) |
| `InterruptedCanTap` (`MCAudioTap.cfg`), `PlaysThroughTheElement` | the player asked to tap may have no listener left (`kn-audio.js` 448-453 and 331-335 against 376-379); without worklets the context of the gesture is played without its element (J 9000-9004) |
| `SuppressedIsGone`, `MySlotHasAPad`, `HeldIsPressed` | a tap during suppression reaches the game later (shared.js 497-498); a slot may be without a pad while one is there (play.js 4500-4516); a finger on a button that another finger left holds nothing |

Seen while modelling, without a definition: R3 of `docs/netplay-invariants.md` (line 227) holds from
the frame a replay will reach, not from `rb.frame`. After the 30 s sync timeout (J 9383-9392) a peer goes
back to ready while the other runs alone; `sendInitialState` and `fetchCachedState` do not compare the
session when they continue; RB-INIT-TIMEOUT takes the peer's own delay (J 13574-13583), which is why
`EnginesAgree` excepts it; a peer lost during the start leaves the rest waiting (`EveryoneStarts` excepts
it), and among three players the host may lose one who boots, who still receives the state and first inputs
and then boots over them (`FirstInputsKept` excepts losses). An immediate request during a push is dropped without an answer, and an immediate speculative push has
no follow-up. The first 45 s timer of a reconnect is not cleared by the second. The worker applies the
local input without the delay (W 1091-1098, J 2931 against 15264-15272). `startLockstep` installs the flush
interval twice (J 12013, 12548). When sending the state fails, only the host resumes (J 10300-10310;
`EverybodyResumes` excepts it). Retry after a wrong size resumes at the old byte count; play.js 681-753 and
3606-3611 are dead.

## 6. Plan

1. Done: engine with proofs; session; both sides of the resync; connections; start; menus; late join;
   runner; worker; audio and local input; streaming; page; logs; rooms.
2. Proofs: done for engine, session, resync, connections, start, late join, rooms and seven parts of the page.
   Next: `RomTransfer`, `Streaming`, `LobbyPage`.
3. Compositions: `CoordSync` with two `RollbackResync` guests, so that the confirmed state a guest loads is
   the one the queue sent; two engines after a departure (which confirmed frames of the survivors may
   differ); `LobbyPage` against `SignalingRooms` instead of its own idea of the room.
4. Save format of the ring (full and delta saves) as a refinement of `RollbackEngine`'s ring; an engine
   run with an acceptance window wider than the input ring.
5. Log rotation and retention of the server.

## 7. Not modelled

The hash registry and the desync detector observe and report, and change nothing of the game. The HTTP
API is request and answer over a database (its session-log route is in `SessionLog`); migration and
retention have no second actor. Demo, landing, settings, diagnostics and admin pages show what others hold.
Rate limits and payload checks refuse requests, which the models allow at any time. The edge worker has no
state. Of the modelled parts: statistics, debug surfaces, wording, layout, compression and encodings, stick
scaling and dead zones, audio resampling, what WebRTC does below its events.

Steps that are coarser than the code. In `PeerConnections` an offer is made and set in one step: the awaits
of `createOffer` and `setLocalDescription` (J 8798-8809, 7458-7472) take milliseconds beside timers of seconds,
and the catch of a reconnect offer calls at once what the timer of the attempt calls later. In `CoordSync` the host's
core lives: `pushSyncState` of a dead one returns nothing (J 17064), which counts as sent, and its requests are
forgotten with its match; a target that is joining late meanwhile (J 17242) gets its state by the join.
`RollbackEngine` is the engine without a coprocessor; a rollback it leaves to one
(`rb_deferred_rollback_flag`, C 1633-1654) is in `WorkerCoproc`.
