------------------------------ MODULE CoordSync ------------------------------
(***************************************************************************)
(* The host's side of the coordinated resync (netplay-rollback.js): the    *)
(* queue of scheduled requests, their dispatch when the host's state is    *)
(* confirmed or a deadline passed, the push of a state, which awaits its   *)
(* compression while ticks, messages and disconnects go on, and what is    *)
(* queued again afterwards.                                                *)
(*                                                                         *)
(* A state counts as confirmed for a guest by what the host knows when it  *)
(* is captured; RollbackSession checks that a confirmed state is final.    *)
(* Every request this version sends asks for a full state, which empties   *)
(* the host's delta base, so no delta is ever computed and the base is not *)
(* modelled.  A deadline of a request may pass at any time.                *)
(***************************************************************************)
EXTENDS Naturals, FiniteSets

CONSTANTS
  Guests,       (* the sids in _peers                                       *)
  FollowUpMax,  (* SYNC_FOLLOW_UP_MAX                                       *)
  SyncDelta,    (* SYNC_COORD_DELTA                                         *)
  MaxFrame,     (* bound: frames of the host                                *)
  MaxAsks,      (* bound: requests of the guests, and recoveries            *)
  MaxFaults     (* bound: channels that close, pushes that fail, resets     *)

VARIABLES
  frame,        (* _frameNum                                                *)
  replaying,    (* a replay runs or is pending (kn_get_replay_depth)        *)
  gap,          (* guests with an input that was consumed but is missing    *)
  phantom,      (* guests with _peerPhantom                                 *)
  open,         (* guests with an open channel                              *)
  queue,        (* _scheduledSyncRequests                                   *)
  push,         (* the explicit push in flight, NoPush if none              *)
  gen,          (* _syncQueueGen                                            *)
  asks,         (* requests so far, the host's own after a recovery included *)
  faults,       (* faults so far                                            *)
  owed,         (* ghost: guests with an accepted request not yet answered  *)
  got           (* ghost: what the last state sent to each guest was        *)

envVars  == <<frame, replaying, gap, phantom, open>>
syncVars == <<queue, push, gen>>
auxVars  == <<asks, faults, owed, got>>
vars     == <<envVars, syncVars, auxVars>>

Request == [sid : Guests, target : 0..MaxFrame + SyncDelta, followUp : 0..FollowUpMax, of : Nat]
NoPush  == [due |-> {}, targets |-> {}, gens |-> [g \in Guests |-> 0], unconfirmed |-> {}]
Busy    == push.targets # {}

(* of: ghost, the generation of the guest's session the request belongs to. *)
RequestOf(g, target, followUp) ==
  [sid |-> g, target |-> target, followUp |-> followUp, of |-> gen[g]]

(* A newer request replaces the one the guest has in the queue.             *)
Replaced(r) == {q \in queue : q.sid # r.sid} \cup {r}

Scheduled(g) == \E q \in queue : q.sid = g

TypeOK ==
  /\ frame \in 0..MaxFrame /\ replaying \in BOOLEAN
  /\ gap \subseteq Guests /\ phantom \subseteq Guests /\ open \subseteq Guests
  /\ queue \subseteq Request
  /\ push.due \subseteq Request /\ push.targets \subseteq Guests
  /\ gen \in [Guests -> Nat]
  /\ asks \in 0..MaxAsks /\ faults \in 0..MaxFaults
  /\ owed \subseteq Guests /\ got \in [Guests -> {"nothing", "final", "speculative", "unasked", "cut"}]

(***************************************************************************)
(* The requests.                                                           *)
(***************************************************************************)

Schedule(r) == queue' = Replaced(r) /\ owed' = owed \cup {r.sid}

Asks == asks < MaxAsks /\ asks' = asks + 1

(* sync-request-full-at: answered at the target frame.  (A request within   *)
(* _SYNC_REQUEST_COOLDOWN_MS of the last one is dropped: a request not made.)*)
ScheduledRequest(g, target) ==
  /\ Asks /\ g \in open /\ target > frame
  /\ Schedule(RequestOf(g, target, 0))
  /\ UNCHANGED <<envVars, push, gen, faults, got>>

(* pushSyncState captures the state and starts to compress it.              *)
StartPush(due, targets, unconfirmed) ==
  push' = [due |-> due, targets |-> targets, gens |-> gen, unconfirmed |-> unconfirmed]

(* sync-request-full, sync-request-full-at for a frame that is over, and the *)
(* request over the socket: the state is pushed at once.  While a push is   *)
(* in flight the request is lost.                                          *)
ImmediateRequest(g) ==
  /\ Asks /\ ~Busy
  /\ StartPush({}, {g}, {})
  /\ UNCHANGED <<envVars, queue, gen, faults, owed, got>>

(***************************************************************************)
(* The dispatch.                                                           *)
(***************************************************************************)

(* _liveStateConfirmed: no replay, and every live guest's inputs are here.   *)
LiveStateConfirmed == ~replaying /\ gap \subseteq phantom

(* The confirmation skips phantoms, so it says nothing to a follow-up whose *)
(* own guest is one.                                                       *)
ConfirmedFor(r)    == LiveStateConfirmed /\ ~(r.followUp > 0 /\ r.sid \in phantom)

Reachable(r) == r.sid \in open
Timely(r)    == ConfirmedFor(r) /\ r.target <= frame /\ Reachable(r)

(* The targets the state is not confirmed for.                              *)
UnconfirmedFor(D) ==
  {r.sid : r \in {q \in D : ~LiveStateConfirmed \/ q.sid \in phantom}}

(* One request is answered alone, several by a broadcast to every guest.    *)
TargetsOf(D) == IF Cardinality(D) = 1 THEN {r.sid : r \in D} ELSE Guests

(* _dispatchScheduledSyncs: D is due, by its frame or by its deadline.  The *)
(* pass at the head of a tick serves deadlines only and the one at its end  *)
(* both; never in the middle of a replay.                                  *)
Dispatch(D) ==
  /\ ~Busy /\ D # {} /\ D \subseteq queue
  /\ \A r \in D : Reachable(r)
  /\ \/ ~replaying /\ \A r \in queue : Timely(r) => r \in D
     \/ \A r \in D : ~Timely(r)
  /\ queue' = queue \ D
  /\ StartPush(D, TargetsOf(D), UnconfirmedFor(D))
  /\ UNCHANGED <<envVars, gen, auxVars>>

(***************************************************************************)
(* The end of a push.                                                      *)
(***************************************************************************)

(* The guest was not reset in between and did not ask again.                *)
StillConcerns(r) == push.gens[r.sid] = gen[r.sid] /\ ~Scheduled(r.sid)

(* variant: a follow-up is not counted *)
NextUncounted(r) == r.followUp
NextFollowUp(r)  == r.followUp + 1

Again(r, followUp) == [r EXCEPT !.target = frame, !.followUp = followUp]

(* variant: a target that was skipped is not queued again *)
RetryForgotten(skipped) == {}
(* A send that did not go out is tried again, as it was.                    *)
Retry(skipped) ==
  {Again(r, r.followUp) : r \in {q \in push.due : StillConcerns(q) /\ q.sid \in skipped}}

(* After an unconfirmed state a fresh one follows, a few times at most.     *)
FollowUp(skipped) ==
  {Again(r, NextFollowUp(r)) :
     r \in {q \in push.due : /\ StillConcerns(q) /\ q.sid \notin skipped
                             /\ q.sid \in push.unconfirmed /\ NextFollowUp(q) <= FollowUpMax}}

(* What the guest has now: a state sent without a request of its own, one   *)
(* that was not confirmed and may change again, or a final one.  After the  *)
(* last follow-up the host gives up.                                       *)
Received(g) ==
  IF \A r \in push.due : r.sid # g THEN "unasked"
  ELSE IF g \in push.unconfirmed /\ \E r \in push.due : r.sid = g /\ r.followUp < FollowUpMax
       THEN "speculative" ELSE "final"

(* sendSyncChunks runs through the targets whose channel is open; the       *)
(* continuation of the dispatch follows before anything else runs.  A send *)
(* that throws on the way cuts the state short and counts as one that went *)
(* out.                                                                    *)
Finish(skipped, cut) ==
  /\ queue' = queue \cup Retry(skipped) \cup FollowUp(skipped)
  /\ LET sent == {g \in push.targets \ skipped : push.gens[g] = gen[g]}
     IN /\ got' = [g \in Guests |-> IF g \in sent \cap cut THEN "cut"
                                    ELSE IF g \in sent THEN Received(g) ELSE got[g]]
        /\ owed' = owed \ {r.sid : r \in {q \in push.due : q.sid \in sent}}
  /\ push' = NoPush
  /\ UNCHANGED <<envVars, gen, asks>>

PushCompletes == Busy /\ Finish(push.targets \ open, {}) /\ UNCHANGED faults

SendThrows ==
  /\ Busy /\ faults < MaxFaults /\ faults' = faults + 1
  /\ \E g \in push.targets \cap open : Finish(push.targets \ open, {g})

(* Compression or capture fails: nothing went out to anyone.                *)
PushFails ==
  /\ Busy /\ faults < MaxFaults /\ faults' = faults + 1
  /\ Finish(Guests, {})

(***************************************************************************)
(* The guests and their connections.                                       *)
(***************************************************************************)

(* A frame runs; it may consume inputs that are not here.                   *)
RunFrame ==
  /\ frame < MaxFrame /\ frame' = frame + 1 /\ ~replaying
  /\ gap' \in {G \in SUBSET Guests : gap \subseteq G}
  /\ UNCHANGED <<replaying, phantom, open, syncVars, auxVars>>

(* An input of g arrives.  It may fill the gap, and it may be a             *)
(* misprediction.  The host gives a guest that was a phantom its state.     *)
InputArrives(g) ==
  /\ g \in open /\ g \in gap \cup phantom
  /\ gap' \in {gap, gap \ {g}}
  /\ replaying' \in {replaying, TRUE}
  /\ phantom' = phantom \ {g}
  /\ IF g \in phantom THEN Asks /\ Schedule(RequestOf(g, frame, 0))
     ELSE UNCHANGED <<asks, queue, owed>>
  /\ <<gap', phantom'>> # <<gap, phantom>>
  /\ UNCHANGED <<frame, open, push, gen, faults, got>>

ReplayEnds ==
  replaying /\ replaying' = FALSE
  /\ UNCHANGED <<frame, gap, phantom, open, syncVars, auxVars>>

PeerDead(g) ==
  g \in gap \ phantom /\ phantom' = phantom \cup {g}
  /\ UNCHANGED <<frame, replaying, gap, open, syncVars, auxVars>>

ChannelCloses(g) ==
  /\ g \in open /\ open' = open \ {g}
  /\ faults < MaxFaults /\ faults' = faults + 1
  /\ UNCHANGED <<frame, replaying, gap, phantom, syncVars, asks, owed, got>>

(* resetPeerState: the guest reconnects or is given up; its requests are     *)
(* dropped, and those a push in flight would queue again are void.         *)
ResetPeer(g) ==
  /\ queue' = {q \in queue : q.sid # g}
  /\ gen' = [gen EXCEPT ![g] = @ + 1]
  /\ gap' = gap \ {g} /\ phantom' = phantom \ {g} /\ open' = open \cup {g}
  /\ owed' = owed \ {g} /\ got' = [got EXCEPT ![g] = "nothing"]
  /\ UNCHANGED <<frame, replaying, push, asks>>

Reconnect(g) == g \notin open /\ ResetPeer(g) /\ UNCHANGED faults

Init ==
  /\ frame = 0 /\ replaying = FALSE /\ gap = {} /\ phantom = {} /\ open = Guests
  /\ queue = {} /\ gen = [g \in Guests |-> 0] /\ push = NoPush
  /\ asks = 0 /\ faults = 0
  /\ owed = {} /\ got = [g \in Guests |-> "nothing"]

(* variant: no request is dispatched by its deadline alone *)
DispatchTimelyTo(g) ==
  \E D \in SUBSET queue : (\E r \in D : r.sid = g /\ Timely(r)) /\ Dispatch(D)
DispatchTo(g) == \E D \in SUBSET queue : (\E r \in D : r.sid = g) /\ Dispatch(D)

Next ==
  \/ \E g \in Guests : ScheduledRequest(g, frame + SyncDelta) \/ ImmediateRequest(g)
  \/ \E g \in Guests : DispatchTo(g)
  \/ PushCompletes \/ SendThrows \/ PushFails
  \/ RunFrame \/ ReplayEnds
  \/ \E g \in Guests : InputArrives(g) \/ PeerDead(g) \/ ChannelCloses(g) \/ Reconnect(g)

Spec == Init /\ [][Next]_vars

(* Ticks go on, a replay ends, a push ends, a closed channel is replaced or  *)
(* given up.  A deadline that passed stays passed, so a request that can be *)
(* dispatched time and again is.  No input needs to arrive.                *)
Fairness ==
  /\ \A g \in Guests : SF_vars(DispatchTo(g)) /\ WF_vars(Reconnect(g))
  /\ WF_vars(PushCompletes) /\ WF_vars(ReplayEnds)

FairSpec == Spec /\ Fairness

(***************************************************************************)
(* Properties.                                                             *)
(***************************************************************************)

(* An accepted request is never lost: until its state has gone out it is in  *)
(* the queue or with the push in flight, whatever closes, fails, is reset   *)
(* or asked again while the push awaits its compression.  (What a throw cut *)
(* short counts as gone out: StateIsWhole.)                                *)
NoRequestLost ==
  \A g \in owed : Scheduled(g) \/ \E r \in push.due : r.sid = g /\ push.gens[g] = gen[g]

(* "A guest that applied a speculative state would diverge again": as long   *)
(* as the last state a guest asked for was not confirmed, another one is on *)
(* its way, until the follow-ups are used up.                              *)
SpeculativeIsFollowedUp ==
  \A g \in Guests :
    got[g] = "speculative" => Scheduled(g) \/ \E r \in push.due : r.sid = g

(* "A state push still in flight for this sid must not requeue into the new *)
(* peer session", and requests of a guest do not stack.                    *)
QueueIsCurrent ==
  /\ \A q \in queue : q.of = gen[q.sid]
  /\ \A q, r \in queue : q.sid = r.sid => q = r

(* Whom the push in flight is for: requests of those it goes to, one each,  *)
(* of the session their guest was in when it began.  A guest left with a    *)
(* speculative state and no request queued is still in that session.       *)
PushInv ==
  /\ TypeOK
  /\ push.gens \in [Guests -> Nat] /\ push.unconfirmed \subseteq Guests
  /\ \A r \in push.due : r.sid \in push.targets /\ r.of = push.gens[r.sid]
  /\ \A q, r \in push.due : q.sid = r.sid => q = r
  /\ \A g \in Guests :
       got[g] = "speculative" /\ ~Scheduled(g) => push.gens[g] = gen[g]

(* What the queue owes the guests.                                         *)
QueueSound == NoRequestLost /\ SpeculativeIsFollowedUp /\ QueueIsCurrent

(* I1: every accepted request is answered in the end, or its session ends.   *)
EveryRequestServed == \A g \in Guests : g \in owed ~> g \notin owed

(* Broken by the code: whoever got only the beginning of a state it had      *)
(* asked for gets another, without asking again.                           *)
StateIsWhole ==
  \A g \in Guests : got[g] = "cut" => Scheduled(g) \/ g \in push.targets

(* Follow-ups end: a guest that stays a phantom does not keep the host       *)
(* pushing states for ever.                                                *)
QueueDrains == []<>(queue = {})

=============================================================================
