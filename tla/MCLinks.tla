------------------------------- MODULE MCLinks -------------------------------
(* The two things peers do about each other besides playing, each on a small *)
(* instance of its own: keeping connected, and the host's serving of resyncs. *)
(* A behaviour is one of them for good; part says which.                     *)
EXTENDS Naturals

CONSTANTS
  Guests, FollowUpMax, SyncDelta, MaxFrame, MaxAsks, MaxFaults,
  Lo, Hi, MaxAttempts, MaxStartup, MaxPc, MaxDrops

VARIABLES
  part,
  peer, down,
  frame, replaying, gap, phantom, open, queue, push, gen, asks, faults, owed, got

ASSUME CoordAssumption ==
  /\ FollowUpMax \in Nat /\ SyncDelta \in Nat /\ MaxFrame \in Nat
  /\ MaxAsks \in Nat /\ MaxFaults \in Nat

(* Two players, and at least one attempt of either kind.                    *)
ASSUME PeersAssumption ==
  /\ Lo # Hi /\ MaxAttempts \in Nat \ {0} /\ MaxStartup \in Nat \ {0}
  /\ MaxPc \in Nat \ {0} /\ MaxDrops \in Nat

Coord == INSTANCE CoordSync
Peers == INSTANCE PeerConnections

peerVars  == <<peer, down>>
coordVars == <<frame, replaying, gap, phantom, open, queue, push, gen, asks, faults, owed, got>>
allVars   == <<part, peerVars, coordVars>>

NoCoord ==
  /\ frame = 0 /\ replaying = 0 /\ gap = 0 /\ phantom = 0 /\ open = 0 /\ queue = 0
  /\ push = 0 /\ gen = 0 /\ asks = 0 /\ faults = 0 /\ owed = 0 /\ got = 0

MCInit ==
  \/ part = "peers" /\ Peers!Init /\ NoCoord
  \/ part = "coord" /\ Coord!Init /\ peer = 0 /\ down = 0

OfPeers(A) == part = "peers" /\ A /\ UNCHANGED <<part, coordVars>>
OfCoord(A) == part = "coord" /\ A /\ UNCHANGED <<part, peerVars>>

MCNext == OfPeers(Peers!Next) \/ OfCoord(Coord!Next)

(* The fairness of PeerConnections!FairSpec and CoordSync!FairSpec.          *)
MCFairness ==
  /\ \A s \in Peers!Sides, t \in Peers!Timer : WF_allVars(OfPeers(Peers!TimerFires(s, t)))
  /\ \A g \in Guests : /\ SF_allVars(OfCoord(Coord!DispatchTo(g)))
                       /\ WF_allVars(OfCoord(Coord!Reconnect(g)))
  /\ WF_allVars(OfCoord(Coord!PushCompletes)) /\ WF_allVars(OfCoord(Coord!ReplayEnds))

MCSpec == MCInit /\ [][MCNext]_allVars /\ MCFairness

(* The properties of the two modules, said of the behaviours that are theirs. *)

(* Offers arrive in the order of the connections, and a live channel is     *)
(* never that of an older one.  No accepted request for a resync is         *)
(* forgotten or stacked, a speculative answer is followed up, and nothing   *)
(* of an older session is queued.                                           *)
LinksSound ==
  /\ part = "peers" => Peers!LinkInv
  /\ part = "coord" => Coord!PushInv /\ Coord!QueueSound

(* A reconnect a side began ends: with the other back, or given up.         *)
ReconnectEnds ==
  \A s \in Peers!Sides :
    part = "peers" /\ Peers!Waits(s) ~> part = "peers" /\ ~peer[s].reconnecting

(* Timers and events of an older connection never tear down the one that    *)
(* works.                                                                   *)
WorkingLinkKept == [][part = "peers" => Peers!KeepsWorkingLink]_allVars

(* Every accepted request for a resync is answered in the end, or its       *)
(* session ends.                                                            *)
EveryRequestServed ==
  \A g \in Guests : part = "coord" /\ g \in owed ~> part = "coord" /\ g \notin owed

(* Follow-ups of a guest that stays silent do not keep the host pushing     *)
(* states for ever.                                                         *)
QueueDrains == []<>(part = "coord" => queue = {})

==============================================================================
