------------------------------- MODULE LateJoin -------------------------------
(***************************************************************************)
(* Joining a match that runs (netplay-rollback.js).  A joiner asks the host    *)
(* through the signalling server; the host pauses everybody, captures a       *)
(* state, compresses and sends it; the joiner loads it, starts at its frame   *)
(* and announces itself on its data channels and through the server; the     *)
(* host resumes the others and makes the joiner's slot active by a roster.    *)
(*                                                                         *)
(* Data channels keep their order; messages of the server come in any order.  *)
(* A player is named where the code has its sid and where it has its slot.   *)
(***************************************************************************)
EXTENDS Naturals, Sequences, FiniteSets

CONSTANTS
  Host, Guests,   (* the players of the match                               *)
  Joiners,        (* those who come later                                   *)
  MaxFrame,       (* bound: frames the host runs                            *)
  MaxReady,       (* readyAttempts: how often a joiner announces itself      *)
  MaxLost         (* bound: channels to joiners that fail, and transfers     *)

Running == {Host} \cup Guests
Players == Running \cup Joiners

ASSUME LateJoinAssumption ==
  /\ Host \notin Guests /\ Running \cap Joiners = {}
  /\ MaxFrame \in Nat /\ MaxReady \in Nat \ {0} /\ MaxLost \in Nat

VARIABLES
  player,     (* of each player: the variables below                        *)
  sending,    (* sendLateJoinState calls waiting for the compression         *)
  deadlines,  (* joiners whose LATE_JOIN_TIMEOUT_MS timer is set             *)
  loading,    (* handleLateJoinState calls waiting for the decompression     *)
  chan,       (* data channel messages on their way                         *)
  socket,     (* data-messages of the signalling server on their way         *)
  lost, late  (* history: failures, and the joiners whose deadline passed    *)

vars == <<player, sending, deadlines, loading, chan, socket, lost, late>>

Frames == 0..MaxFrame

(* on: PHASE_RUNNING.  paused: RUN_LATE_JOIN_PAUSE.  late: _lateJoin.  seen:   *)
(* _knownPlayers.  pending: _pendingLateJoinPeerSids.  roster: _activeRoster,  *)
(* {} before the first.  ready: _pendingLateJoinReadySids.  handled:          *)
(* _lateJoinReadyHandled.  tries: announcements left.                        *)
Player == [on : BOOLEAN, paused : BOOLEAN, late : BOOLEAN, asked : BOOLEAN, frame : Frames,
           seen : SUBSET Players, peers : SUBSET Players, open : SUBSET Players,
           pending : SUBSET Players, roster : SUBSET Players,
           ready : SUBSET Players, handled : SUBSET Players, tries : 0..MaxReady]

Transfer == [to : Joiners, frame : Frames]
SocketMessage == [type : {"state"}, to : Joiners, from : {Host}, frame : Frames]
  \cup [type : {"request", "ready"}, to : Players, from : Joiners, frame : {0}]
Message == [type : {"pause", "resume", "ready"}, slots : {{}}]
  \cup [type : {"roster"}, slots : SUBSET Players]

TypeOK ==
  /\ player \in [Players -> Player]
  /\ sending \subseteq Transfer /\ loading \subseteq Transfer /\ deadlines \subseteq Joiners
  /\ chan \in [Players -> [Players -> Seq(Message)]]
  /\ socket \subseteq SocketMessage /\ lost \subseteq {"channel", "send", "load"} /\ late \subseteq Joiners

(***************************************************************************)
(* Handlers.  Each gives w, the players and channels after it.              *)
(***************************************************************************)

World == [pl |-> player, ch |-> chan]
Put(w, p, s) == [w EXCEPT !.pl[p] = s]
Plain(t) == [type |-> t, slots |-> {}]

(* To those of to whose channel is open.                                    *)
Send(w, p, to, m) ==
  [w EXCEPT !.ch[p] = [q \in Players |-> IF q \in to \cap w.pl[p].open THEN Append(@[q], m) ELSE @[q]]]

(* variant: a player who has not loaded the state yet is in the roster *)
RosterOfPeers(s, p) == {p} \cup s.peers
(* The slots of _broadcastRoster.                                           *)
RosterOf(s, p) == {p} \cup (s.peers \ s.pending)

BroadcastRoster(w, p) ==
  IF p # Host THEN w
  ELSE LET r == RosterOf(w.pl[p], p)
       IN Send(Put(w, p, [w.pl[p] EXCEPT !.roster = r]), p, Players \ w.pl[p].pending,
               [type |-> "roster", slots |-> r])

(* resumeLateJoinPause of somebody who is paused.                           *)
Resume(w, p, includeRoster) ==
  LET v == Put(w, p, [w.pl[p] EXCEPT !.paused = FALSE])
  IN Send(IF includeRoster THEN BroadcastRoster(v, p) ELSE v, p, Players, Plain("resume"))

ClearPending(s, q) == [s EXCEPT !.pending = @ \ {q}]

(* variant: the roster is left to the announcement that resumed the others *)
FinishWithoutRoster(w, p, j) ==
  IF p = Host /\ j \in w.pl[p].handled THEN w
  ELSE IF p = Host /\ j \notin w.pl[p].open
  THEN IF j \in w.pl[p].ready THEN w
       ELSE LET v == Put(w, p, [w.pl[p] EXCEPT !.ready = @ \cup {j}]) IN IF v.pl[p].paused THEN Resume(v, p, FALSE) ELSE v
  ELSE LET v == IF p = Host
                THEN Put(w, p, [ClearPending(w.pl[p], j) EXCEPT !.ready = @ \ {j}, !.handled = @ \cup {j}])
                ELSE w
       IN IF v.pl[p].paused THEN Resume(v, p, TRUE) ELSE v
(* finishLateJoinReady.  Before the joiner's channel to the host is open the   *)
(* others are resumed, the roster waits for it.  A guest who is paused takes  *)
(* the announcement for its own resume and passes it on.                     *)
FinishLateJoinReady(w, p, j) ==
  IF p = Host /\ j \in w.pl[p].handled THEN w
  ELSE IF p = Host /\ j \notin w.pl[p].open
  THEN IF j \in w.pl[p].ready THEN w
       ELSE LET v == Put(w, p, [w.pl[p] EXCEPT !.ready = @ \cup {j}]) IN IF v.pl[p].paused THEN Resume(v, p, FALSE) ELSE v
  ELSE LET v == IF p = Host
                THEN Put(w, p, [ClearPending(w.pl[p], j) EXCEPT !.ready = @ \ {j}, !.handled = @ \cup {j}])
                ELSE w
       IN IF v.pl[p].paused THEN Resume(v, p, TRUE) ELSE BroadcastRoster(v, p)

(* hardDisconnectPeer forgets the peer but does not close its connection;    *)
(* resetPeerState lifts the gate of a pending joiner.                        *)
HardDisconnect(w, p, q) ==
  LET v == Put(w, p, [ClearPending(w.pl[p], q) EXCEPT !.peers = @ \ {q}, !.open = @ \ {q}])
  IN IF w.pl[p].on THEN BroadcastRoster(v, p) ELSE v

Becomes(w) == player' = w.pl /\ chan' = w.ch

(***************************************************************************)
(* Rooms and connections.                                                  *)
(***************************************************************************)

(* Who is in the room: the players, and the joiners who came.                *)
Room == Running \cup {j \in Joiners : player[j].seen # {}}

(* The page joins the room of a running match.                              *)
Comes(j) ==
  /\ player[j].seen = {}
  /\ player' = Put(World, j, [player[j] EXCEPT !.seen = Room \cup {j}, !.peers = Room \ {j}]).pl
  /\ UNCHANGED <<sending, deadlines, loading, chan, socket, lost, late>>

(* A peer that runs holds back a newcomer, unless it joins itself.           *)
Holds(s, q) == s.on /\ ~s.late /\ q \notin s.roster

(* onUsersUpdated with somebody new in it.                                  *)
UsersUpdated(p) ==
  LET s == player[p]
      others == Room \ {p}
      held == {q \in others \ (IF s.roster = {} THEN Running ELSE {}) : Holds(s, q)}
  IN /\ s.seen # {} /\ s.seen # Room
     /\ player' = Put(World, p,
          [s EXCEPT !.seen = Room, !.peers = @ \cup others,
                    !.pending = (@ \cup held) \ (s.roster \cap s.peers)]).pl
     /\ UNCHANGED <<sending, deadlines, loading, chan, socket, lost, late>>

(* onOpen of a data channel: the host sends its roster to somebody it does    *)
(* not hold back, and an announcement that came before is handled.  The peer  *)
(* entry may be gone.                                                      *)
OnOpen(w, p, q) ==
  LET v == Put(w, p, [w.pl[p] EXCEPT !.open = IF q \in w.pl[p].peers THEN @ \cup {q} ELSE @])
      s == v.pl[p]
      u == IF p = Host /\ s.roster # {} /\ q \notin s.pending
           THEN [v EXCEPT !.ch[p][q] = Append(@, [type |-> "roster", slots |-> s.roster])] ELSE v
  IN IF p = Host /\ q \in s.ready THEN FinishLateJoinReady(u, p, q) ELSE u

(* The channel between a joiner and somebody opens on both sides.  Once it     *)
(* runs, a joiner has sent new offers where it had no channel, and an offer   *)
(* makes the peer entry where there is none.                                *)
Opens(p, j) ==
  /\ j \in Joiners /\ p # j /\ p \notin player[j].open
  /\ j \in player[p].seen /\ p \in player[j].peers
  /\ LET w == Put(World, p, [player[p] EXCEPT !.peers = IF player[j].on THEN @ \cup {j} ELSE @])
     IN Becomes(OnOpen(OnOpen(w, p, j), j, p))
  /\ UNCHANGED <<sending, deadlines, loading, socket, lost, late>>

(* The connection of the host and a joiner who has not started breaks: each   *)
(* drops the other (handlePeerDisconnect of a pending peer, and before a      *)
(* match runs).                                                            *)
Emptied(w, p, q) ==
  [w EXCEPT !.ch = [a \in Players |-> [b \in Players |-> IF {a, b} = {p, q} THEN <<>> ELSE w.ch[a][b]]]]
Breaks(j) ==
  /\ Cardinality(lost) < MaxLost /\ j \in player[Host].open \cap player[Host].pending /\ ~player[j].on
  /\ Becomes(Emptied(HardDisconnect(HardDisconnect(World, Host, j), j, Host), Host, j))
  /\ lost' = lost \cup {"channel"} /\ UNCHANGED <<sending, deadlines, loading, socket, late>>

(***************************************************************************)
(* The transfer.                                                           *)
(***************************************************************************)

(* The joiner's emulator has booted.                                        *)
Asks(j) ==
  /\ player[j].seen # {} /\ ~player[j].asked
  /\ player' = Put(World, j, [player[j] EXCEPT !.asked = TRUE, !.late = TRUE]).pl
  /\ socket' = socket \cup {[type |-> "request", to |-> Host, from |-> j, frame |-> 0]}
  /\ UNCHANGED <<sending, deadlines, loading, chan, lost, late>>

(* variant: only the others are paused before the capture *)
PauseOthers(w, j) == Send(Put(w, Host, [w.pl[Host] EXCEPT !.pending = @ \cup {j}]), Host, Players \ {j}, Plain("pause"))
(* The joiner itself is not paused.                                        *)
Pause(w, j) ==
  Send(Put(w, Host, [w.pl[Host] EXCEPT !.paused = TRUE, !.pending = @ \cup {j}]), Host, Players \ {j}, Plain("pause"))

(* handleLateJoinRequest and sendLateJoinState up to the compression.  A       *)
(* joiner asks once, so that the cool-down of its requests does not matter;   *)
(* the host does not know the slot of one it has not heard of.               *)
ReceiveRequest(m) ==
  LET j == m.from
      w == Put(World, Host, [player[Host] EXCEPT !.handled = @ \ {j}, !.ready = @ \ {j}])
  IN /\ m \in socket /\ m.type = "request" /\ socket' = socket \ {m}
     /\ IF j \in player[Host].peers \cup player[Host].seen
        THEN /\ Becomes(Pause(w, j))
             /\ sending' = sending \cup {[to |-> j, frame |-> player[Host].frame]}
        ELSE Becomes(w) /\ UNCHANGED sending
     /\ UNCHANGED <<deadlines, loading, lost, late>>

(* The compression is done: the deadline is set and the state goes out.      *)
SendState(t) ==
  /\ t \in sending /\ sending' = sending \ {t}
  /\ deadlines' = deadlines \cup {t.to}
  /\ socket' = socket \cup {[type |-> "state", to |-> t.to, from |-> Host, frame |-> t.frame]}
  /\ UNCHANGED <<player, loading, chan, lost, late>>

(* It fails: the host goes on, the guests are not told.                      *)
SendFails(t) ==
  /\ Cardinality(lost) < MaxLost /\ t \in sending /\ sending' = sending \ {t}
  /\ player' = Put(World, Host, [ClearPending(player[Host], t.to) EXCEPT !.paused = FALSE]).pl
  /\ lost' = lost \cup {"send"} /\ UNCHANGED <<deadlines, loading, chan, socket, late>>

(* variant: the host resumes alone *)
DeadlineAlone(w, j) == HardDisconnect(BroadcastRoster(Put(w, Host, [w.pl[Host] EXCEPT !.paused = FALSE]), Host), Host, j)
(* LATE-JOIN-TIMEOUT of somebody's transfer while there is a pause, be it for  *)
(* somebody else.                                                          *)
DeadlineWhilePaused(w, j) ==
  HardDisconnect(Send(BroadcastRoster(Put(w, Host, [w.pl[Host] EXCEPT !.paused = FALSE]), Host),
                      Host, Players, Plain("resume")), Host, j)

DeadlinePasses(j) ==
  /\ j \in deadlines /\ deadlines' = deadlines \ {j}
  /\ IF player[Host].paused
     THEN Becomes(DeadlineWhilePaused(World, j)) /\ late' = late \cup {j}
     ELSE UNCHANGED <<player, chan, late>>
  /\ UNCHANGED <<sending, loading, socket, lost>>

(* handleLateJoinState up to the decompression: one at a time.               *)
ReceiveState(m) ==
  /\ m \in socket /\ m.type = "state" /\ socket' = socket \ {m}
  /\ loading' = IF player[m.to].on \/ \E t \in loading : t.to = m.to THEN loading
                ELSE loading \cup {[to |-> m.to, frame |-> m.frame]}
  /\ UNCHANGED <<player, sending, deadlines, chan, lost, late>>

(* sendLateJoinReady: on every open channel, and through the server.         *)
Announce(w, j) ==
  Send(Put(w, j, [w.pl[j] EXCEPT !.tries = @ - 1]), j, Players, Plain("ready"))
Announced(j) == {[type |-> "ready", to |-> p, from |-> j, frame |-> 0] : p \in Room \ {j}}

(* The state is loaded and the joiner starts; its roster is everybody it       *)
(* knows.                                                                  *)
Loads(t) ==
  LET s == player[t.to]
      w == Put(World, t.to, [s EXCEPT !.on = TRUE, !.frame = t.frame, !.paused = FALSE,
                         !.roster = s.seen \cup {t.to}, !.peers = s.seen \ {t.to}, !.tries = MaxReady])
  IN /\ t \in loading /\ loading' = loading \ {t}
     /\ Becomes(Announce(w, t.to)) /\ socket' = socket \cup Announced(t.to)
     /\ UNCHANGED <<sending, deadlines, lost, late>>

(* WORKER-STALL, or a malformed state: nothing further happens.              *)
LoadFails(t) ==
  /\ Cardinality(lost) < MaxLost /\ t \in loading /\ loading' = loading \ {t} /\ lost' = lost \cup {"load"}
  /\ UNCHANGED <<player, sending, deadlines, chan, socket, late>>

(* _lateJoinReadyRetryTimer, until somebody resumes the joiner.              *)
AnnouncesAgain(j) ==
  /\ player[j].on /\ player[j].tries > 0
  /\ Becomes(Announce(World, j)) /\ socket' = socket \cup Announced(j)
  /\ UNCHANGED <<sending, deadlines, loading, lost, late>>

ReceiveReady(m) ==
  /\ m \in socket /\ m.type = "ready" /\ socket' = socket \ {m}
  /\ Becomes(FinishLateJoinReady(World, m.to, m.from))
  /\ UNCHANGED <<sending, deadlines, loading, lost, late>>

(***************************************************************************)
(* Messages of the data channels, and ticks.                               *)
(***************************************************************************)

Handled(w, p, q, m) ==
  CASE m.type = "pause"  -> Put(w, p, [w.pl[p] EXCEPT !.paused = TRUE])
    [] m.type = "resume" -> Put(w, p, [w.pl[p] EXCEPT !.paused = FALSE, !.late = FALSE, !.tries = 0])
    [] m.type = "ready"  -> FinishLateJoinReady(w, p, q)
    [] m.type = "roster" -> Put(w, p, [w.pl[p] EXCEPT !.roster = m.slots, !.pending = @ \ m.slots])

Receive(p, q) ==
  /\ chan[q][p] # <<>>
  /\ LET w == [World EXCEPT !.ch[q][p] = Tail(@)]
     IN Becomes(Handled(w, p, q, Head(chan[q][p])))
  /\ UNCHANGED <<sending, deadlines, loading, socket, lost, late>>

(* Only the host's frames count here.                                       *)
Tick ==
  /\ ~player[Host].paused /\ player[Host].frame < MaxFrame
  /\ player' = Put(World, Host, [player[Host] EXCEPT !.frame = @ + 1]).pl
  /\ UNCHANGED <<sending, deadlines, loading, chan, socket, lost, late>>

Init ==
  /\ player = [p \in Players |->
       [on |-> p \in Running, paused |-> FALSE, late |-> FALSE, asked |-> FALSE, frame |-> 0,
        seen |-> IF p \in Running THEN Running ELSE {},
        peers |-> IF p \in Running THEN Running \ {p} ELSE {},
        open |-> IF p \in Running THEN Running \ {p} ELSE {},
        pending |-> {}, roster |-> {}, ready |-> {}, handled |-> {}, tries |-> 0]]
  /\ sending = {} /\ deadlines = {} /\ loading = {}
  /\ chan = [p \in Players |-> [q \in Players |-> <<>>]]
  /\ socket = {} /\ lost = {} /\ late = {}

(* Messages arrive, channels open, conversions end, timers fire.             *)
Progress ==
  \/ \E p \in Players : UsersUpdated(p) \/ \E q \in Players : Receive(p, q) \/ Opens(p, q)
  \/ \E j \in Joiners : AnnouncesAgain(j) \/ DeadlinePasses(j)
  \/ \E t \in sending : SendState(t)
  \/ \E t \in loading : Loads(t)
  \/ \E m \in socket : ReceiveRequest(m) \/ ReceiveState(m) \/ ReceiveReady(m)

Next ==
  \/ Progress \/ Tick
  \/ \E j \in Joiners : Comes(j) \/ Asks(j) \/ Breaks(j)
  \/ \E t \in sending : SendFails(t)
  \/ \E t \in loading : LoadFails(t)

Spec == Init /\ [][Next]_vars

(* Something of Progress goes on as long as there is any.                   *)
FairSpec == Spec /\ WF_vars(Progress)

(***************************************************************************)
(* Properties.                                                             *)
(***************************************************************************)

(* The host and the guests wait for the inputs of a newcomer (its slot is in   *)
(* their roster) only once it runs.                                        *)
NotActiveUntilReady ==
  \A p \in Running : \A j \in player[p].roster \cap Joiners : player[j].on

(* When a transfer fails the host no longer holds the joiner back, and the    *)
(* next roster takes it in.                                                *)
ActiveAreLoaded == "send" \notin lost => NotActiveUntilReady

(* What the rosters say, whatever announcements cross.                         *)
RosterSound == TypeOK /\ ActiveAreLoaded

(* Once the joins are over nobody of the match is left paused: an             *)
(* announcement or the deadline ends every pause, unless a transfer failed.   *)
EverybodyResumes ==
  <>[]("send" \in lost \/ \A p \in Running : ~player[p].paused)

(* A joiner who started is taken into everybody's roster in the end.          *)
JoinIsCompleted ==
  <>[](late # {} \/ \A j \in Joiners, p \in Running : player[j].on => j \in player[p].roster)

(* A single joiner starts at the frame at which the host still is.            *)
StartsWithHost ==
  [][\A j \in Joiners :
       player'[j].on /\ ~player[j].on /\ late = {} /\ (\A k \in Joiners \ {j} : ~player[k].asked)
         => player'[j].frame = player[Host].frame]_vars

(* Only somebody who has not started is cut off by the deadline.  It does not  *)
(* hold: the deadline of a joiner who started long ago is not cancelled, and  *)
(* finds the pause made for the next one.                                   *)
OnlyWaitingAreCutOff ==
  [][\A j \in Joiners : j \in late' \ late => j \notin player[Host].roster]_vars

=============================================================================
