--------------------------- MODULE PeerConnections ---------------------------
(***************************************************************************)
(* The WebRTC connection of two players (netplay-rollback.js): making it    *)
(* before the match, noticing during it that it broke, reconnecting in     *)
(* several attempts, giving up.  The player of the lower slot, Lo, makes    *)
(* the attempts; the other, Hi, answers.  Each side has an entry for the other *)
(* in _peers, with the current RTCPeerConnection and the current data      *)
(* channel, and leaves timers behind that fire whatever happened since.    *)
(*                                                                         *)
(* A connection is the number of the offer it was made from; both sides'   *)
(* ends of it carry that number.  Signals may be lost or late but keep     *)
(* their order; candidates are part of a connection coming up.  A timer    *)
(* may fire at any time after it was set.  A handler is an operator that   *)
(* returns the new state p of its side.                                    *)
(***************************************************************************)
EXTENDS Naturals, Sequences, FiniteSets

CONSTANTS
  Lo, Hi,       (* the two players                                          *)
  MaxAttempts,  (* _MAX_RECONNECT_ATTEMPTS                                  *)
  MaxStartup,   (* STARTUP_CONNECT_MAX_ATTEMPTS                             *)
  MaxPc,        (* bound: connections made; then attempts have no effect    *)
  MaxDrops      (* bound: connections the network breaks                    *)

VARIABLES
  peer,     (* of each side: its entry for the other, its timers and signals *)
  down      (* the connections the network broke                            *)

vars == <<peer, down>>

Sides == {Lo, Hi}
Other(s) == IF s = Lo THEN Hi ELSE Lo
Pcs == 0..MaxPc

(* The onconnectionstatechange installed: createPeer's, that of attempt n,  *)
(* of an answered reconnect offer, or of a startup retry.                  *)
First     == 0
Answering == MaxAttempts + 1
Startup   == MaxAttempts + 2

(* giveUp: 45 s, held while _reconnectTimeout refers to it.  grace: 3 s of   *)
(* a disconnected state.  attempt, retry: 10 s and 3 s of attempt n.        *)
(* answer: 10 s of an answered offer.  startup: 8 s of the first offers.    *)
Timer == [kind : {"giveUp", "grace", "attempt", "retry", "answer", "startup"},
          n : 0..MaxAttempts, held : BOOLEAN]

Offer == [pc : Pcs, kind : {"first", "startup", "reconnect", "answer"}]

(* exists: in _peers.  pc, state, remote: the connection, connectionState,   *)
(* and the offer of the description set last.  dc, open: the connection      *)
(* peer.dc belongs to, and whether that channel is open.  phase: _phase.    *)
PeerEntry == [exists : BOOLEAN, reconnecting : BOOLEAN, pc : Pcs, remote : Pcs,
              state : {"new", "connected", "disconnected", "failed", "closed"},
              dc : Pcs, open : BOOLEAN, watch : First..Startup,
              phase : {"starting", "started", "running"}, tries : 0..MaxStartup,
              timers : SUBSET Timer, out : Seq(Offer), made : Pcs]

TypeOK == peer \in [Sides -> PeerEntry] /\ down \subseteq Pcs

(* Both sides use the same connection and described it to each other.       *)
LinkUp ==
  /\ peer[Lo].pc = peer[Hi].pc /\ peer[Lo].pc \notin down \cup {0}
  /\ \A s \in Sides : peer[s].remote = peer[s].pc /\ peer[s].state # "closed"

(***************************************************************************)
(* Handlers.                                                               *)
(***************************************************************************)

Set(p, kind, n) == [p EXCEPT !.timers = @ \cup {[kind |-> kind, n |-> n, held |-> TRUE]}]
Clear(p, kind)  == [p EXCEPT !.timers = {t \in @ : t.kind # kind \/ ~t.held}]
Done(p, t)      == [p EXCEPT !.timers = @ \ {t}]

(* hardDisconnectPeer: the entry goes, the connection is left as it is.      *)
HardDisconnect(p) == [Clear(p, "giveUp") EXCEPT !.exists = FALSE, !.reconnecting = FALSE]

(* resetPeerConnection: the old connection is closed, a new one begins.      *)
Fresh(p, k, watch, remote) ==
  [p EXCEPT !.pc = k, !.state = "new", !.remote = remote, !.open = FALSE, !.watch = watch]

(* The channels of a new connection, and its offer (sendOffer).             *)
Offering(p, k, kind) ==
  [p EXCEPT !.made = k, !.dc = k, !.out = Append(@, [pc |-> k, kind |-> kind])]

(* retryStartupConnection: only before the game, and not while it is open;   *)
(* after the last attempt the player has to reload.                        *)
RetryStartup(s, p) ==
  IF s # Lo \/ ~p.exists \/ p.phase # "starting" \/ p.open THEN p
  ELSE IF p.tries = MaxStartup \/ p.made = MaxPc THEN Clear(p, "startup")
  ELSE LET k == p.made + 1
       IN Set(Offering(Fresh([p EXCEPT !.tries = @ + 1], k, Startup, 0), k, "startup"), "startup", 0)

(* attemptReconnect: a new connection with new channels, and its offer.      *)
AttemptReconnect(p, n) ==
  IF p.exists /\ p.reconnecting /\ p.made < MaxPc
  THEN LET k == p.made + 1
       IN Set(Offering(Fresh(p, k, n, 0), k, "reconnect"), "attempt", n)
  ELSE p

RetryOrGiveUp(p, n) ==
  IF ~p.exists \/ ~p.reconnecting THEN p
  ELSE IF n < MaxAttempts THEN Set(p, "retry", n + 1)
  ELSE HardDisconnect(p)

(* The variable of a timer is overwritten: an earlier one stays set.        *)
SetBeside(p, kind) ==
  Set([p EXCEPT !.timers =
         {IF t.kind = kind THEN [t EXCEPT !.held = FALSE] ELSE t : t \in @}], kind, 0)

GiveUpLater(p) == SetBeside(p, "giveUp")

Reconnecting(p) == Clear([p EXCEPT !.reconnecting = TRUE], "grace")

(* variant: the answering side sets no timeout *)
DisconnectUntimed(s, p) ==
  IF p.phase = "running"
  THEN IF s = Lo THEN AttemptReconnect(GiveUpLater(Reconnecting(p)), 1) ELSE Reconnecting(p)
  ELSE IF p.phase = "starting" /\ s = Lo THEN RetryStartup(s, p) ELSE HardDisconnect(p)
(* handlePeerDisconnect of a player who did not leave on purpose: before the *)
(* game the initiator tries again, in it the lower slot does.              *)
HandlePeerDisconnect(s, p) ==
  IF p.phase = "starting" /\ s = Lo THEN RetryStartup(s, Clear(p, "grace"))
  ELSE IF p.phase # "running" THEN HardDisconnect(Clear(p, "grace"))
  ELSE LET q == GiveUpLater(Reconnecting(p)) IN IF s = Lo THEN AttemptReconnect(q, 1) ELSE q

Step(s, p) == peer' = [peer EXCEPT ![s] = p] /\ UNCHANGED down

(***************************************************************************)
(* Signals.                                                                *)
(***************************************************************************)

Heard(p) == [p EXCEPT !.out = Tail(p.out)]
Received(s, p) == /\ peer[Other(s)].out # <<>>
                  /\ peer' = [peer EXCEPT ![s] = p, ![Other(s)] = Heard(@)]
                  /\ UNCHANGED down

Answer(p, k) == [p EXCEPT !.out = Append(@, [pc |-> k, kind |-> "answer"])]

(* The first offer is for the connection the entry has, or for one made on    *)
(* demand.  A reconnect offer replaces it; peer.dc stays the old channel     *)
(* until the new one comes.                                                *)
ReceiveOffer ==
  LET m == Head(peer[Lo].out)
      p == peer[Hi]
      k == m.pc
      startup == m.kind = "startup" \/ p.phase = "starting"
  IN Received(Hi,
       IF m.kind = "first"
       THEN Answer([Fresh(p, k, First, k) EXCEPT !.exists = TRUE], k)
       ELSE SetBeside(Answer([Fresh(p, k, Answering, k)
                                EXCEPT !.exists = TRUE, !.reconnecting = ~startup], k), "answer"))

(* An answer: a connection takes the first that comes, whatever offer it is *)
(* for, and refuses the next.                                              *)
ReceiveAnswer ==
  LET p == peer[Lo]
  IN Received(Lo, IF p.exists /\ p.state = "new" /\ p.remote = 0
                  THEN [p EXCEPT !.remote = Head(peer[Hi].out).pc] ELSE p)

(* The signalling server delivers only to a socket that is there.           *)
SignalLost(s) == peer[s].out # <<>> /\ Step(s, Heard(peer[s]))

(***************************************************************************)
(* Connections and channels.                                               *)
(***************************************************************************)

(* connected: the timer of the installed handler is over.                   *)
Connected(s) ==
  /\ LinkUp /\ peer[s].state \in {"new", "disconnected"}
  /\ LET p == [peer[s] EXCEPT !.state = "connected"]
     IN Step(s, IF p.watch = First THEN Clear(p, "grace")
                ELSE IF p.watch = Answering THEN Clear(p, "answer")
                ELSE IF p.watch = Startup THEN p
                ELSE Done(p, [kind |-> "attempt", n |-> p.watch, held |-> TRUE]))

Opened(p) ==
  [Clear(IF p.reconnecting THEN Clear(p, "giveUp") ELSE p, "startup")
     EXCEPT !.dc = p.pc, !.open = TRUE, !.reconnecting = FALSE]

(* The lockstep channel opens (setupDataChannel): a reconnect is over.      *)
ChannelOpens(s) ==
  /\ LinkUp /\ peer[s].state = "connected" /\ ~peer[s].open
  /\ Step(s, IF peer[s].exists THEN Opened(peer[s]) ELSE [peer[s] EXCEPT !.open = TRUE])

NetworkDrops ==
  /\ Cardinality(down) < MaxDrops /\ LinkUp /\ \A s \in Sides : peer[s].state = "connected"
  /\ down' = down \cup {peer[Lo].pc} /\ UNCHANGED peer

(* disconnected: createPeer's handler gives it a grace period.              *)
Unstable(s) ==
  /\ ~LinkUp /\ peer[s].state = "connected"
  /\ LET p == [peer[s] EXCEPT !.state = "disconnected"]
     IN Step(s, IF p.watch = First /\ p.exists THEN Set(p, "grace", 0) ELSE p)

(* failed: createPeer's handler reconnects at once, an attempt's tries       *)
(* again, and the one of an answered offer has nothing left to do.          *)
Fails(s) ==
  /\ ~LinkUp /\ peer[s].state \in {"new", "disconnected"} /\ peer[s].remote = peer[s].pc
  /\ LET p == [peer[s] EXCEPT !.state = "failed"]
         n == p.watch
     IN Step(s, IF n = First THEN IF p.exists THEN HandlePeerDisconnect(s, p) ELSE p
                ELSE IF n = Answering THEN Clear(p, "answer")
                ELSE IF n = Startup THEN RetryStartup(s, p)
                ELSE RetryOrGiveUp(Done(p, [kind |-> "attempt", n |-> n, held |-> TRUE]), n))

Broken(s, k) ==
  \/ k \in down \/ peer[Other(s)].pc > k
  \/ peer[Other(s)].pc = k /\ peer[Other(s)].state = "closed"

(* variant: the close of a channel that was replaced counts as well *)
AnyChannel(p, k)     == p.exists
CurrentChannel(p, k) == p.exists /\ p.dc = k

(* onclose of the channel of connection k: the other side or the network     *)
(* closed it.  That of a channel that was replaced is ignored.             *)
ChannelCloses(s, k) ==
  /\ k <= peer[s].dc /\ Broken(s, k) /\ (k = peer[s].dc => peer[s].open)
  /\ CurrentChannel(peer[s], k)
  /\ Step(s, HandlePeerDisconnect(s, [peer[s] EXCEPT !.open = FALSE]))

(***************************************************************************)
(* Timers.                                                                 *)
(***************************************************************************)

(* Each looks at the connection the peer has when it fires.                 *)
Expired(s, p, t) ==
  CASE t.kind = "giveUp"  -> IF p.exists /\ p.reconnecting THEN HardDisconnect(p) ELSE p
    [] t.kind = "grace"   -> IF p.state \in {"disconnected", "failed"} /\ p.exists
                             THEN HandlePeerDisconnect(s, p) ELSE p
    [] t.kind = "attempt" -> IF p.state # "connected" THEN RetryOrGiveUp(p, t.n) ELSE p
    [] t.kind = "retry"   -> AttemptReconnect(p, t.n)
    [] t.kind = "startup" -> RetryStartup(s, p)
    [] t.kind = "answer"  -> IF p.state # "connected"
                             THEN [p EXCEPT !.state = "closed", !.open = FALSE] ELSE p

TimerFires(s, t) == t \in peer[s].timers /\ Step(s, Expired(s, Done(peer[s], t), t))

(* The start sequence goes on once the channel is open; where it leads is   *)
(* MatchStart's concern.                                                   *)
GameGoesOn(s) ==
  /\ peer[s].exists
  /\ \/ peer[s].phase = "starting" /\ peer[s].open /\ Step(s, [peer[s] EXCEPT !.phase = "started"])
     \/ peer[s].phase = "started" /\ Step(s, [peer[s] EXCEPT !.phase = "running"])

(* onUsersUpdated on both sides: createPeer, and Lo's first offer.           *)
Init ==
  /\ LET p == [exists |-> TRUE, reconnecting |-> FALSE, pc |-> 0, remote |-> 0, state |-> "new",
               dc |-> 0, open |-> FALSE, watch |-> First, phase |-> "starting", tries |-> 0,
               timers |-> {}, out |-> <<>>, made |-> 0]
     IN peer = [s \in Sides |->
                  IF s = Hi THEN p
                  ELSE Set(Offering([p EXCEPT !.pc = 1, !.tries = 1], 1, "first"), "startup", 0)]
  /\ down = {}

Next ==
  \/ ReceiveOffer \/ ReceiveAnswer \/ NetworkDrops
  \/ \E s \in Sides :
       \/ SignalLost(s) \/ Connected(s) \/ ChannelOpens(s) \/ Unstable(s) \/ Fails(s)
       \/ GameGoesOn(s)
       \/ \E k \in Pcs : ChannelCloses(s, k)
       \/ \E t \in Timer : TimerFires(s, t)

Spec == Init /\ [][Next]_vars

(* Timers fire.  Nothing is assumed of the network.                        *)
FairSpec == Spec /\ \A s \in Sides, t \in Timer : WF_vars(TimerFires(s, t))

(***************************************************************************)
(* Properties.                                                             *)
(***************************************************************************)

(* The offers under way are for newer and newer connections, newer than the *)
(* one the other side has, none newer than the last one made.               *)
OffersRise ==
  LET out == peer[Lo].out
  IN /\ \A i \in DOMAIN out : out[i].pc \in (peer[Hi].pc + 1)..peer[Lo].made
     /\ \A i, j \in DOMAIN out : i < j => out[i].pc < out[j].pc
     /\ peer[Hi].pc <= peer[Lo].made

(* A channel that is open belongs to the connection that is used.           *)
ChannelIsCurrent == \A s \in Sides : peer[s].exists /\ peer[s].open => peer[s].dc = peer[s].pc

(* Only the lower slot makes connections; the other has no timer of an       *)
(* attempt and no handler of one.                                           *)
OneSideOffers ==
  /\ peer[Lo].pc = peer[Lo].made
  /\ peer[Hi].watch \in {First, Answering}
  /\ \A t \in peer[Hi].timers : t.kind \in {"giveUp", "grace", "answer"}

LinkInv == TypeOK /\ OffersRise /\ ChannelIsCurrent /\ OneSideOffers

(* A reconnect that a side began because it noticed the break ends: the      *)
(* other is back or given up, whatever happens to offers and answers.      *)
Waits(s) == peer[s].reconnecting /\ peer[s].watch # Answering
ReconnectEnds == \A s \in Sides : Waits(s) ~> ~peer[s].reconnecting

Working == LinkUp /\ \A s \in Sides :
             peer[s].exists /\ peer[s].open /\ peer[s].state = "connected" /\ ~peer[s].reconnecting

(* A connection that works is not torn down by what an older one left       *)
(* behind: its close event, its timers, its late signals.                   *)
KeepsWorkingLink ==
  Working /\ down' = down =>
    \A s \in Sides : peer'[s].exists /\ peer'[s].pc = peer[s].pc /\ peer'[s].state # "closed"
WorkingLinkKept == [][KeepsWorkingLink]_vars

(* "45-second timeout - give up and hard disconnect": one that a side only   *)
(* learnt of by the offer it answered has no timeout.                      *)
AnsweredReconnectEnds == \A s \in Sides : peer[s].reconnecting ~> ~peer[s].reconnecting

(* A player one side gave up does not play on with it.                      *)
GaveUpTogether ==
  \A s \in Sides : peer[Other(s)].open /\ peer[Other(s)].exists /\ LinkUp => peer[s].exists

=============================================================================
