----------------------------- MODULE LinksProofs -----------------------------
(***************************************************************************)
(* What MCLinks says of connections and of the host's queue of resyncs, for *)
(* every value of their constants.                                         *)
(*                                                                         *)
(* The queue: a request accepted is in the queue or with the push under     *)
(* way.  What makes this inductive is that the push remembers the session   *)
(* of each guest (_syncQueueGen) and that the requests it answers are of    *)
(* those sessions, one per guest, each of a guest it is sent to.            *)
(*                                                                         *)
(* The connection: only the lower slot makes connections, and its offers    *)
(* are heard in order, so that while both sides use the newest connection   *)
(* nothing of an older one is under way; an open channel is that of the     *)
(* current connection, so that a channel that closes is not it.             *)
(***************************************************************************)
EXTENDS MCLinks, Sequences, TLAPS

(***************************************************************************)
(* The queue of resyncs.                                                   *)
(***************************************************************************)

CoordInv == Coord!PushInv /\ Coord!QueueSound

LEMMA CoordInit == Coord!Init => CoordInv
<1> SUFFICES ASSUME Coord!Init PROVE CoordInv
  OBVIOUS
<1>1. /\ queue = {} /\ owed = {} /\ gen = [g \in Guests |-> 0] /\ push = Coord!NoPush
      /\ got = [g \in Guests |-> "nothing"]
      /\ frame = 0 /\ replaying = FALSE /\ gap = {} /\ phantom = {} /\ open = Guests
      /\ asks = 0 /\ faults = 0
  BY DEF Coord!Init
<1>2. /\ push.due = {} /\ push.targets = {} /\ push.gens = [g \in Guests |-> 0]
      /\ push.unconfirmed = {}
  BY <1>1 DEF Coord!NoPush
<1>3. Coord!TypeOK
  <2>1. 0 \in 0..MaxFrame /\ 0 \in 0..MaxAsks /\ 0 \in 0..MaxFaults
    BY CoordAssumption
  <2>2. /\ gen \in [Guests -> Nat]
        /\ got \in [Guests -> {"nothing", "final", "speculative", "unasked", "cut"}]
    BY <1>1
  <2> QED
    BY <1>1, <1>2, <2>1, <2>2 DEF Coord!TypeOK
<1>4. Coord!PushInv
  BY <1>1, <1>2, <1>3 DEF Coord!PushInv
<1>5. Coord!QueueSound
  BY <1>1 DEF Coord!QueueSound, Coord!NoRequestLost, Coord!SpeculativeIsFollowedUp,
              Coord!QueueIsCurrent
<1> QED
  BY <1>4, <1>5 DEF CoordInv

(* A request takes the place of the one its guest has in the queue.         *)
LEMMA RequestTyped ==
  ASSUME Coord!TypeOK, NEW g \in Guests, NEW t \in 0..MaxFrame + SyncDelta, NEW n \in 0..FollowUpMax
  PROVE  /\ Coord!RequestOf(g, t, n) \in Coord!Request
         /\ Coord!RequestOf(g, t, n).sid = g /\ Coord!RequestOf(g, t, n).of = gen[g]
BY DEF Coord!TypeOK, Coord!RequestOf, Coord!Request

LEMMA ScheduleKeeps ==
  ASSUME CoordInv, NEW r \in Coord!Request, r.of = gen[r.sid], Coord!Schedule(r),
         UNCHANGED <<push, gen, got, faults>>,
         Coord!TypeOK'
  PROVE  CoordInv'
<1>1. r.sid \in Guests
  BY DEF Coord!Request
<1>2. /\ queue' = {q \in queue : q.sid # r.sid} \cup {r} /\ owed' = owed \cup {r.sid}
  BY DEF Coord!Schedule, Coord!Replaced
<1>3. \A g : Coord!Scheduled(g) \/ g = r.sid => Coord!Scheduled(g)'
  BY <1>2 DEF Coord!Scheduled
<1>4. Coord!PushInv'
  BY <1>3 DEF CoordInv, Coord!PushInv
<1>5. Coord!NoRequestLost'
  BY <1>2, <1>3 DEF CoordInv, Coord!QueueSound, Coord!NoRequestLost
<1>6. Coord!SpeculativeIsFollowedUp'
  BY <1>3 DEF CoordInv, Coord!QueueSound, Coord!SpeculativeIsFollowedUp
<1>7. Coord!QueueIsCurrent'
  BY <1>2 DEF CoordInv, Coord!QueueSound, Coord!QueueIsCurrent
<1> QED
  BY <1>4, <1>5, <1>6, <1>7 DEF CoordInv, Coord!QueueSound

LEMMA ScheduledRequestKeeps ==
  ASSUME CoordInv, NEW g \in Guests, Coord!ScheduledRequest(g, frame + SyncDelta)
  PROVE  CoordInv'
<1> DEFINE r == Coord!RequestOf(g, frame + SyncDelta, 0)
<1>1. Coord!TypeOK /\ frame \in 0..MaxFrame /\ frame + SyncDelta \in 0..MaxFrame + SyncDelta
  BY CoordAssumption DEF CoordInv, Coord!PushInv, Coord!TypeOK
<1>2. r \in Coord!Request /\ r.sid = g /\ r.of = gen[g]
  BY <1>1, RequestTyped, CoordAssumption
<1>3. Coord!Schedule(r) /\ UNCHANGED <<push, gen, got, faults>>
  BY DEF Coord!ScheduledRequest
<1>4. Coord!TypeOK'
  <2>1. queue' \subseteq Coord!Request /\ owed' \subseteq Guests
    BY <1>1, <1>2, <1>3 DEF Coord!Schedule, Coord!Replaced, Coord!TypeOK
  <2>2. asks' \in 0..MaxAsks
    BY <1>1, CoordAssumption DEF Coord!ScheduledRequest, Coord!Asks, Coord!TypeOK
  <2> QED
    BY <1>1, <1>3, <2>1, <2>2 DEF Coord!ScheduledRequest, Coord!TypeOK, Coord!envVars
<1> HIDE DEF r
<1> QED
  BY <1>2, <1>3, <1>4, ScheduleKeeps

(* A push that answers requests of the queue, or one that answers none.     *)
LEMMA StartPushKeeps ==
  ASSUME CoordInv, ~Coord!Busy, NEW D \in SUBSET queue, NEW T \in SUBSET Guests,
         NEW U \in SUBSET Guests, \A r \in D : r.sid \in T,
         Coord!StartPush(D, T, U), queue' = queue \ D, UNCHANGED <<gen, owed, got>>,
         Coord!TypeOK'
  PROVE  CoordInv'
<1>1. /\ push'.due = D /\ push'.targets = T /\ push'.gens = gen /\ push'.unconfirmed = U
  BY DEF Coord!StartPush
<1>2. /\ gen \in [Guests -> Nat] /\ queue \subseteq Coord!Request /\ owed \subseteq Guests
      /\ \A q \in queue : q.of = gen[q.sid]
      /\ \A q, r \in queue : q.sid = r.sid => q = r
  BY DEF CoordInv, Coord!PushInv, Coord!TypeOK, Coord!QueueSound, Coord!QueueIsCurrent
<1>3. push.due = {}
  BY DEF CoordInv, Coord!PushInv, Coord!Busy
<1>4. \A g : Coord!Scheduled(g) => Coord!Scheduled(g)' \/ \E r \in D : r.sid = g
  BY DEF Coord!Scheduled
<1>5. Coord!PushInv'
  BY <1>1, <1>2 DEF Coord!PushInv
<1>6. Coord!NoRequestLost'
  <2>1. \A g \in owed : Coord!Scheduled(g)
    BY <1>3 DEF CoordInv, Coord!QueueSound, Coord!NoRequestLost
  <2> QED
    BY <1>1, <1>4, <2>1 DEF Coord!NoRequestLost
<1>7. Coord!SpeculativeIsFollowedUp'
  <2>1. \A g \in Guests : got[g] = "speculative" => Coord!Scheduled(g)
    BY <1>3 DEF CoordInv, Coord!QueueSound, Coord!SpeculativeIsFollowedUp
  <2> QED
    BY <1>1, <1>4, <2>1 DEF Coord!SpeculativeIsFollowedUp
<1>8. Coord!QueueIsCurrent'
  BY <1>2 DEF Coord!QueueIsCurrent
<1> QED
  BY <1>5, <1>6, <1>7, <1>8 DEF CoordInv, Coord!QueueSound

LEMMA ImmediateRequestKeeps ==
  ASSUME CoordInv, NEW g \in Guests, Coord!ImmediateRequest(g)
  PROVE  CoordInv'
<1>1. /\ ~Coord!Busy /\ Coord!StartPush({}, {g}, {}) /\ queue' = queue \ {}
      /\ UNCHANGED <<gen, owed, got>>
  BY DEF Coord!ImmediateRequest
<1>2. Coord!TypeOK'
  <2>1. /\ push'.due = {} /\ push'.targets = {g}
    BY <1>1 DEF Coord!StartPush
  <2>2. asks' \in 0..MaxAsks
    BY CoordAssumption DEF Coord!ImmediateRequest, Coord!Asks, Coord!TypeOK, CoordInv, Coord!PushInv
  <2> QED
    BY <2>1, <2>2 DEF CoordInv, Coord!PushInv, Coord!ImmediateRequest, Coord!TypeOK, Coord!envVars
<1> QED
  BY <1>1, <1>2, StartPushKeeps

LEMMA DispatchKeeps ==
  ASSUME CoordInv, NEW D \in SUBSET queue, Coord!Dispatch(D)
  PROVE  CoordInv'
<1> DEFINE T == Coord!TargetsOf(D)
           U == Coord!UnconfirmedFor(D)
<1>1. \A r \in D : r \in Coord!Request /\ r.sid \in Guests
  BY DEF CoordInv, Coord!PushInv, Coord!TypeOK, Coord!Request
<1>2. T \in SUBSET Guests /\ U \in SUBSET Guests /\ \A r \in D : r.sid \in T
  BY <1>1 DEF Coord!UnconfirmedFor, Coord!TargetsOf
<1>3. /\ ~Coord!Busy /\ Coord!StartPush(D, T, U) /\ queue' = queue \ D
      /\ UNCHANGED <<gen, owed, got>>
  BY DEF Coord!Dispatch, Coord!auxVars
<1>4. Coord!TypeOK'
  <2>1. push'.due = D /\ push'.targets = T
    BY <1>3 DEF Coord!StartPush
  <2> HIDE DEF T, U
  <2> QED
    BY <1>2, <1>3, <2>1
    DEF CoordInv, Coord!PushInv, Coord!Dispatch, Coord!TypeOK, Coord!envVars, Coord!auxVars
<1> HIDE DEF T, U
<1> QED
  BY <1>2, <1>3, <1>4, StartPushKeeps


(* The end of a push: what it owes and did not send is queued again, unless *)
(* the guest asked anew or its session ended; what it sent and did not have *)
(* confirmed is followed up.                                               *)
LEMMA FinishKeeps ==
  ASSUME CoordInv, NEW skipped \in SUBSET Guests, NEW cut, Coord!Finish(skipped, cut),
         Coord!TypeOK'
  PROVE  CoordInv'
<1> DEFINE R == Coord!Retry(skipped)
           F == Coord!FollowUp(skipped)
           sent == {g \in push.targets \ skipped : push.gens[g] = gen[g]}
<1>1. /\ queue' = queue \cup R \cup F /\ gen' = gen /\ push' = Coord!NoPush
      /\ got' = [g \in Guests |-> IF g \in sent \cap cut THEN "cut"
                                  ELSE IF g \in sent THEN Coord!Received(g) ELSE got[g]]
      /\ owed' = owed \ {r.sid : r \in {q \in push.due : q.sid \in sent}}
  BY DEF Coord!Finish
<1>2. /\ gen \in [Guests -> Nat] /\ queue \subseteq Coord!Request /\ owed \subseteq Guests
      /\ push.gens \in [Guests -> Nat] /\ push.targets \subseteq Guests
      /\ push.due \subseteq Coord!Request /\ \A r \in Coord!Request : r.sid \in Guests
      /\ \A q \in queue : q.of = gen[q.sid]
      /\ \A q, r \in queue : q.sid = r.sid => q = r
      /\ \A r \in push.due : r.sid \in push.targets /\ r.of = push.gens[r.sid]
      /\ \A q, r \in push.due : q.sid = r.sid => q = r
  BY DEF CoordInv, Coord!PushInv, Coord!TypeOK, Coord!QueueSound, Coord!QueueIsCurrent, Coord!Request
<1>3. \A r \in Coord!Request : \A n : Coord!Again(r, n).sid = r.sid /\ Coord!Again(r, n).of = r.of
  BY DEF Coord!Again, Coord!Request
<1>4. \A r \in push.due :
        push.gens[r.sid] = gen[r.sid] /\ ~Coord!Scheduled(r.sid) <=> Coord!StillConcerns(r)
  BY DEF Coord!StillConcerns
(* What is queued again, and for whom. *)
<1>5. \A a \in R : \E r \in push.due : /\ Coord!StillConcerns(r) /\ r.sid \in skipped
                                       /\ a = Coord!Again(r, r.followUp)
  BY DEF Coord!Retry
<1>6. \A a \in F : \E r \in push.due : /\ Coord!StillConcerns(r) /\ r.sid \notin skipped
                                       /\ a = Coord!Again(r, Coord!NextFollowUp(r))
  BY DEF Coord!FollowUp
<1>7. \A r \in push.due : Coord!StillConcerns(r) /\ r.sid \in skipped
                            => Coord!Again(r, r.followUp) \in R
  BY DEF Coord!Retry
<1>8. \A r \in push.due :
        (/\ Coord!StillConcerns(r) /\ r.sid \notin skipped
         /\ r.sid \in push.unconfirmed /\ Coord!NextFollowUp(r) <= FollowUpMax)
          => Coord!Again(r, Coord!NextFollowUp(r)) \in F
  BY DEF Coord!FollowUp
<1> HIDE DEF R, F
(* Who is in the queue then. *)
<1>9. \A g : Coord!Scheduled(g) => Coord!Scheduled(g)'
  BY <1>1 DEF Coord!Scheduled
<1>10. \A r \in push.due : push.gens[r.sid] = gen[r.sid] /\ r.sid \in skipped
                             => Coord!Scheduled(r.sid)'
  <2> SUFFICES ASSUME NEW r \in push.due, push.gens[r.sid] = gen[r.sid], r.sid \in skipped,
                      ~Coord!Scheduled(r.sid)
               PROVE  Coord!Scheduled(r.sid)'
    BY <1>9
  <2>1. Coord!Again(r, r.followUp) \in queue' /\ Coord!Again(r, r.followUp).sid = r.sid
    BY <1>1, <1>2, <1>3, <1>4, <1>7
  <2> QED
    BY <2>1 DEF Coord!Scheduled
<1>11. \A r \in push.due :
         (/\ push.gens[r.sid] = gen[r.sid] /\ r.sid \notin skipped
          /\ r.sid \in push.unconfirmed /\ Coord!NextFollowUp(r) <= FollowUpMax)
           => Coord!Scheduled(r.sid)'
  <2> SUFFICES ASSUME NEW r \in push.due, push.gens[r.sid] = gen[r.sid], r.sid \notin skipped,
                      r.sid \in push.unconfirmed, Coord!NextFollowUp(r) <= FollowUpMax,
                      ~Coord!Scheduled(r.sid)
               PROVE  Coord!Scheduled(r.sid)'
    BY <1>9
  <2>1. /\ Coord!Again(r, Coord!NextFollowUp(r)) \in queue'
        /\ Coord!Again(r, Coord!NextFollowUp(r)).sid = r.sid
    BY <1>1, <1>2, <1>3, <1>4, <1>8
  <2> QED
    BY <2>1 DEF Coord!Scheduled
<1>12. push'.due = {} /\ push'.targets = {} /\ push'.gens \in [Guests -> Nat] /\ push'.unconfirmed = {}
  BY <1>1 DEF Coord!NoPush
<1>13. Coord!NoRequestLost'
  <2> SUFFICES ASSUME NEW g \in owed' PROVE Coord!Scheduled(g)'
    BY DEF Coord!NoRequestLost
  <2>1. g \in owed /\ g \in Guests /\ \A r \in push.due : r.sid = g => g \notin sent
    BY <1>1, <1>2
  <2>2. CASE Coord!Scheduled(g)
    BY <1>9, <2>2
  <2>3. CASE ~Coord!Scheduled(g)
    <3>1. PICK r \in push.due : r.sid = g /\ push.gens[g] = gen[g]
      BY <2>1, <2>3 DEF CoordInv, Coord!QueueSound, Coord!NoRequestLost
    <3>2. g \in skipped
      BY <1>2, <2>1, <3>1
    <3> QED
      BY <1>10, <3>1, <3>2
  <2> QED
    BY <2>2, <2>3
<1>14. \A g \in Guests : got'[g] = "speculative" => Coord!Scheduled(g)'
  <2> SUFFICES ASSUME NEW g \in Guests, got'[g] = "speculative" PROVE Coord!Scheduled(g)'
    OBVIOUS
  <2>1. CASE g \in sent
    <3>1. Coord!Received(g) = "speculative" /\ push.gens[g] = gen[g] /\ g \notin skipped
      BY <1>1, <2>1
    <3>2. g \in push.unconfirmed /\ \E r \in push.due : r.sid = g /\ r.followUp < FollowUpMax
      BY <3>1 DEF Coord!Received
    <3>3. PICK r \in push.due : r.sid = g /\ r.followUp < FollowUpMax
      BY <3>2
    <3>4. r.followUp \in Nat
      BY <1>2, CoordAssumption DEF Coord!Request
    <3>5. Coord!NextFollowUp(r) <= FollowUpMax
      BY <3>3, <3>4, CoordAssumption DEF Coord!NextFollowUp
    <3> QED
      BY <1>11, <3>1, <3>2, <3>3, <3>5
  <2>2. CASE g \notin sent
    <3>1. got[g] = "speculative"
      BY <1>1, <2>2
    <3>2. CASE Coord!Scheduled(g)
      BY <1>9, <3>2
    <3>3. CASE ~Coord!Scheduled(g)
      <4>1. PICK r \in push.due : r.sid = g
        BY <3>1, <3>3 DEF CoordInv, Coord!QueueSound, Coord!SpeculativeIsFollowedUp
      <4>2. push.gens[g] = gen[g]
        BY <3>1, <3>3 DEF CoordInv, Coord!PushInv
      <4>3. g \in skipped
        BY <1>2, <2>2, <4>1, <4>2
      <4> QED
        BY <1>10, <4>1, <4>2, <4>3
    <3> QED
      BY <3>2, <3>3
  <2> QED
    BY <2>1, <2>2
<1>15. Coord!PushInv'
  BY <1>12, <1>14 DEF Coord!PushInv
<1>16. Coord!SpeculativeIsFollowedUp'
  BY <1>14 DEF Coord!SpeculativeIsFollowedUp
<1>17. Coord!QueueIsCurrent'
  <2>1. \A a \in R \cup F : \E r \in push.due : /\ a.sid = r.sid /\ a.of = gen[a.sid]
                                               /\ ~Coord!Scheduled(a.sid)
    BY <1>2, <1>3, <1>4, <1>5, <1>6
  <2>2. \A q \in queue : Coord!Scheduled(q.sid)
    BY DEF Coord!Scheduled
  <2>3. \A a, b \in R \cup F : a.sid = b.sid => a = b
    BY <1>2, <1>3, <1>5, <1>6
  <2> QED
    BY <1>1, <1>2, <2>1, <2>2, <2>3 DEF Coord!QueueIsCurrent
<1> QED
  BY <1>13, <1>15, <1>16, <1>17 DEF CoordInv, Coord!QueueSound


(* The bounds of the types of the rest.                                     *)
LEMMA FinishTypes ==
  ASSUME CoordInv, NEW skipped \in SUBSET Guests, NEW cut, Coord!Finish(skipped, cut),
         faults' \in 0..MaxFaults
  PROVE  Coord!TypeOK'
<1>1. /\ Coord!TypeOK /\ push.due \subseteq Coord!Request /\ frame \in 0..MaxFrame
      /\ \A r \in Coord!Request : r.sid \in Guests /\ r.followUp \in 0..FollowUpMax
  BY DEF CoordInv, Coord!PushInv, Coord!TypeOK, Coord!Request
<1>2. frame \in 0..MaxFrame + SyncDelta
  BY <1>1, CoordAssumption
<1>3. \A r \in Coord!Request, n \in 0..FollowUpMax : Coord!Again(r, n) \in Coord!Request
  BY <1>2 DEF Coord!Again, Coord!Request
<1>4. Coord!Retry(skipped) \subseteq Coord!Request
  BY <1>1, <1>3 DEF Coord!Retry
<1>5. Coord!FollowUp(skipped) \subseteq Coord!Request
  <2>1. \A r \in Coord!Request : Coord!NextFollowUp(r) <= FollowUpMax
                                   => Coord!NextFollowUp(r) \in 0..FollowUpMax
    BY <1>1, CoordAssumption DEF Coord!NextFollowUp
  <2> QED
    BY <1>1, <1>3, <2>1 DEF Coord!FollowUp
<1>6. queue' \subseteq Coord!Request /\ owed' \subseteq Guests
  BY <1>1, <1>4, <1>5 DEF Coord!Finish, Coord!TypeOK
<1>7. got' \in [Guests -> {"nothing", "final", "speculative", "unasked", "cut"}]
  <2>1. \A g \in Guests : Coord!Received(g) \in {"nothing", "final", "speculative", "unasked", "cut"}
    BY DEF Coord!Received
  <2> QED
    BY <1>1, <2>1 DEF Coord!Finish, Coord!TypeOK
<1>8. push'.due = {} /\ push'.targets = {}
  BY DEF Coord!Finish, Coord!NoPush
<1> QED
  BY <1>1, <1>6, <1>7, <1>8 DEF Coord!Finish, Coord!TypeOK, Coord!envVars

LEMMA PushCompletesKeeps ==
  ASSUME CoordInv, Coord!PushCompletes
  PROVE  CoordInv'
<1>1. push.targets \ open \in SUBSET Guests /\ faults' \in 0..MaxFaults
  BY DEF CoordInv, Coord!PushInv, Coord!TypeOK, Coord!PushCompletes
<1>2. Coord!Finish(push.targets \ open, {})
  BY DEF Coord!PushCompletes
<1> QED
  BY <1>1, <1>2, FinishKeeps, FinishTypes

LEMMA SendThrowsKeeps ==
  ASSUME CoordInv, Coord!SendThrows
  PROVE  CoordInv'
<1>1. push.targets \ open \in SUBSET Guests /\ faults' \in 0..MaxFaults
  BY CoordAssumption DEF CoordInv, Coord!PushInv, Coord!TypeOK, Coord!SendThrows
<1>2. PICK g \in Guests : Coord!Finish(push.targets \ open, {g})
  BY DEF Coord!SendThrows, CoordInv, Coord!PushInv, Coord!TypeOK
<1> QED
  BY <1>1, <1>2, FinishKeeps, FinishTypes

LEMMA PushFailsKeeps ==
  ASSUME CoordInv, Coord!PushFails
  PROVE  CoordInv'
<1>1. Guests \in SUBSET Guests /\ faults' \in 0..MaxFaults
  BY CoordAssumption DEF CoordInv, Coord!PushInv, Coord!TypeOK, Coord!PushFails
<1>2. Coord!Finish(Guests, {})
  BY DEF Coord!PushFails
<1> QED
  BY <1>1, <1>2, FinishKeeps, FinishTypes

(* Steps that leave the queue, the push, the sessions and what was sent.    *)
LEMMA QuietKeeps ==
  ASSUME CoordInv, UNCHANGED <<queue, push, gen, owed, got>>, Coord!TypeOK'
  PROVE  CoordInv'
BY DEF CoordInv, Coord!PushInv, Coord!QueueSound, Coord!NoRequestLost, Coord!Scheduled,
       Coord!SpeculativeIsFollowedUp, Coord!QueueIsCurrent

LEMMA EnvironmentKeeps ==
  ASSUME CoordInv,
         \/ Coord!RunFrame \/ Coord!ReplayEnds
         \/ \E g \in Guests : Coord!PeerDead(g) \/ Coord!ChannelCloses(g)
  PROVE  CoordInv'
<1>1. Coord!TypeOK
  BY DEF CoordInv, Coord!PushInv
<1>2. CASE Coord!RunFrame
  <2>1. frame' \in 0..MaxFrame
    BY <1>1, <1>2, CoordAssumption DEF Coord!RunFrame, Coord!TypeOK
  <2> QED
    BY <1>1, <1>2, <2>1, QuietKeeps
    DEF Coord!RunFrame, Coord!TypeOK, Coord!syncVars, Coord!auxVars
<1>3. CASE Coord!ReplayEnds
  BY <1>1, <1>3, QuietKeeps DEF Coord!ReplayEnds, Coord!TypeOK, Coord!syncVars, Coord!auxVars
<1>4. ASSUME NEW g \in Guests, Coord!PeerDead(g) PROVE CoordInv'
  BY <1>1, <1>4, QuietKeeps DEF Coord!PeerDead, Coord!TypeOK, Coord!syncVars, Coord!auxVars
<1>5. ASSUME NEW g \in Guests, Coord!ChannelCloses(g) PROVE CoordInv'
  <2>1. faults' \in 0..MaxFaults
    BY <1>1, <1>5, CoordAssumption DEF Coord!ChannelCloses, Coord!TypeOK
  <2> QED
    BY <1>1, <1>5, <2>1, QuietKeeps DEF Coord!ChannelCloses, Coord!TypeOK, Coord!syncVars
<1> QED
  BY <1>2, <1>3, <1>4, <1>5

LEMMA InputArrivesKeeps ==
  ASSUME CoordInv, NEW g \in Guests, Coord!InputArrives(g)
  PROVE  CoordInv'
<1> DEFINE r == Coord!RequestOf(g, frame, 0)
<1>1. /\ Coord!TypeOK /\ frame \in 0..MaxFrame
      /\ frame \in 0..MaxFrame + SyncDelta /\ 0 \in 0..FollowUpMax
  BY CoordAssumption DEF CoordInv, Coord!PushInv, Coord!TypeOK
<1>2. r \in Coord!Request /\ r.sid = g /\ r.of = gen[g]
  BY <1>1, RequestTyped
<1> HIDE DEF r
<1>3. /\ frame' = frame /\ open' = open /\ push' = push /\ gen' = gen /\ faults' = faults
      /\ got' = got
      /\ gap' \subseteq Guests /\ phantom' \subseteq Guests /\ replaying' \in BOOLEAN
  BY <1>1 DEF Coord!InputArrives, Coord!TypeOK
<1>4. CASE g \in phantom
  <2>1. Coord!Asks /\ Coord!Schedule(r)
    BY <1>4 DEF Coord!InputArrives, r
  <2>2. /\ queue' \subseteq Coord!Request /\ owed' \subseteq Guests /\ asks' \in 0..MaxAsks
    BY <1>1, <1>2, <2>1, CoordAssumption
    DEF Coord!Asks, Coord!Schedule, Coord!Replaced, Coord!TypeOK
  <2>3. Coord!TypeOK'
    BY <1>1, <1>3, <2>2 DEF Coord!TypeOK
  <2> QED
    BY <1>2, <1>3, <2>1, <2>3, ScheduleKeeps
<1>5. CASE g \notin phantom
  <2>1. UNCHANGED <<asks, queue, owed>>
    BY <1>5 DEF Coord!InputArrives
  <2>2. Coord!TypeOK'
    BY <1>1, <1>3, <2>1 DEF Coord!TypeOK
  <2> QED
    BY <1>3, <2>1, <2>2, QuietKeeps
<1> QED
  BY <1>4, <1>5

(* A reset ends the session: its requests go, and what the push under way   *)
(* would queue again for it is void.                                       *)
LEMMA ReconnectKeeps ==
  ASSUME CoordInv, NEW g \in Guests, Coord!Reconnect(g)
  PROVE  CoordInv'
<1>1. /\ queue' = {q \in queue : q.sid # g} /\ gen' = [gen EXCEPT ![g] = @ + 1]
      /\ owed' = owed \ {g} /\ got' = [got EXCEPT ![g] = "nothing"]
      /\ UNCHANGED <<frame, replaying, push, asks, faults>>
      /\ gap' = gap \ {g} /\ phantom' = phantom \ {g} /\ open' = open \cup {g}
  BY DEF Coord!Reconnect, Coord!ResetPeer
<1>2. /\ Coord!TypeOK /\ gen \in [Guests -> Nat] /\ owed \subseteq Guests
      /\ got \in [Guests -> {"nothing", "final", "speculative", "unasked", "cut"}]
      /\ \A q \in queue : q.sid \in Guests
  BY DEF CoordInv, Coord!PushInv, Coord!TypeOK, Coord!Request
<1>3. /\ gen' \in [Guests -> Nat] /\ \A h \in Guests \ {g} : gen'[h] = gen[h] /\ got'[h] = got[h]
      /\ got'[g] = "nothing"
      /\ got' \in [Guests -> {"nothing", "final", "speculative", "unasked", "cut"}]
  BY <1>1, <1>2
<1>4. Coord!TypeOK'
  BY <1>1, <1>2, <1>3 DEF Coord!TypeOK
<1>5. \A h \in Guests \ {g} : Coord!Scheduled(h) => Coord!Scheduled(h)'
  BY <1>1 DEF Coord!Scheduled
<1>7. Coord!PushInv'
  BY <1>1, <1>3, <1>4, <1>5 DEF CoordInv, Coord!PushInv
<1>8. Coord!NoRequestLost'
  BY <1>1, <1>2, <1>3, <1>5 DEF CoordInv, Coord!QueueSound, Coord!NoRequestLost
<1>9. Coord!SpeculativeIsFollowedUp'
  BY <1>1, <1>3, <1>5 DEF CoordInv, Coord!QueueSound, Coord!SpeculativeIsFollowedUp
<1>10. Coord!QueueIsCurrent'
  BY <1>1, <1>2, <1>3 DEF CoordInv, Coord!QueueSound, Coord!QueueIsCurrent
<1> QED
  BY <1>7, <1>8, <1>9, <1>10 DEF CoordInv, Coord!QueueSound

LEMMA CoordNext == CoordInv /\ Coord!Next => CoordInv'
<1> SUFFICES ASSUME CoordInv, Coord!Next PROVE CoordInv'
  OBVIOUS
<1>1. ASSUME NEW g \in Guests, Coord!DispatchTo(g) PROVE CoordInv'
  BY <1>1, DispatchKeeps DEF Coord!DispatchTo
<1> QED
  BY <1>1, ScheduledRequestKeeps, ImmediateRequestKeeps, PushCompletesKeeps, SendThrowsKeeps, PushFailsKeeps,
     EnvironmentKeeps, InputArrivesKeeps, ReconnectKeeps
  DEF Coord!Next


(***************************************************************************)
(* The connection.                                                         *)
(***************************************************************************)

PeerEntry == Peers!PeerEntry
Timer     == Peers!Timer
Offer     == Peers!Offer

(* What the answering side's timers may be.                                 *)
Answers(p) == \A t \in p.timers : t.kind \in {"giveUp", "grace", "answer"}

Current(p) == p.exists /\ p.open => p.dc = p.pc

(* A handler leaves the connection as it is,                                *)
Keeps(s, p, q) ==
  /\ q \in PeerEntry
  /\ q.pc = p.pc /\ q.made = p.made /\ q.out = p.out /\ q.dc = p.dc /\ q.watch = p.watch
  /\ q.open => p.open
  /\ q.exists => p.exists
  /\ s = Hi => (Answers(p) => Answers(q))

(* or makes the next one and sends an offer.                                *)
Makes(s, p, q) ==
  /\ q \in PeerEntry /\ s = Lo /\ p.made < MaxPc
  /\ q.pc = p.made + 1 /\ q.made = p.made + 1 /\ ~q.open
  /\ \E k \in {"first", "startup", "reconnect", "answer"} :
       q.out = Append(p.out, [pc |-> p.made + 1, kind |-> k])

Handles(s, p, q) == Keeps(s, p, q) \/ Makes(s, p, q)

LEMMA KeepsThenHandles ==
  ASSUME NEW s, NEW p, NEW q, NEW r, Keeps(s, p, q), Handles(s, q, r)
  PROVE  Handles(s, p, r)
BY DEF Keeps, Makes, Handles

LEMMA KeepsItself ==
  ASSUME NEW s, NEW p \in PeerEntry
  PROVE  Keeps(s, p, p) /\ Handles(s, p, p)
BY DEF Keeps, Handles

LEMMA EntryFields ==
  ASSUME NEW p \in PeerEntry
  PROVE  /\ p.exists \in BOOLEAN /\ p.reconnecting \in BOOLEAN /\ p.open \in BOOLEAN
         /\ p.pc \in 0..MaxPc /\ p.remote \in 0..MaxPc /\ p.dc \in 0..MaxPc /\ p.made \in 0..MaxPc
         /\ p.state \in {"new", "connected", "disconnected", "failed", "closed"}
         /\ p.watch \in 0..MaxAttempts + 2 /\ p.phase \in {"starting", "started", "running"}
         /\ p.tries \in 0..MaxStartup /\ p.timers \in SUBSET Timer /\ p.out \in Seq(Offer)
BY DEF PeerEntry, Timer, Offer, Peers!PeerEntry, Peers!Pcs, Peers!First, Peers!Startup

(* Fields that no handler of the other side depends on.                     *)
LEMMA FieldsKeep ==
  ASSUME NEW s, NEW p \in PeerEntry, NEW T \in SUBSET Timer, NEW e \in BOOLEAN, NEW r \in BOOLEAN,
         NEW o \in BOOLEAN, NEW n \in 0..MaxStartup, e => p.exists, o => p.open,
         s = Hi => (Answers(p) => \A t \in T : t.kind \in {"giveUp", "grace", "answer"}),
         NEW q, q = [p EXCEPT !.timers = T, !.exists = e, !.reconnecting = r, !.open = o, !.tries = n]
  PROVE  /\ Keeps(s, p, q)
         /\ q.exists = e /\ q.reconnecting = r /\ q.timers = T /\ q.open = o
         /\ q.state = p.state /\ q.phase = p.phase
BY DEF Keeps, Answers, PeerEntry, Timer, Peers!PeerEntry


LEMMA HeardFields ==
  ASSUME NEW p \in PeerEntry, p.out # <<>>, NEW q, q = Peers!Heard(p)
  PROVE  /\ q \in PeerEntry /\ q.out = Tail(p.out)
         /\ q.pc = p.pc /\ q.made = p.made /\ q.dc = p.dc /\ q.watch = p.watch
         /\ q.open = p.open /\ q.exists = p.exists /\ q.timers = p.timers /\ q.state = p.state
<1>1. p.out \in Seq(Offer)
  BY EntryFields
<1>2. Tail(p.out) \in Seq(Offer)
  BY <1>1
<1> QED
  BY <1>2 DEF PeerEntry, Offer, Peers!PeerEntry, Peers!Heard

(* The operators on timers.                                                 *)
LEMMA SetKeeps ==
  ASSUME NEW s, NEW p \in PeerEntry, NEW n \in 0..MaxAttempts,
         NEW kind \in {"giveUp", "grace", "attempt", "retry", "answer", "startup"},
         s = Hi => kind \in {"giveUp", "grace", "answer"},
         NEW q, q = Peers!Set(p, kind, n)
  PROVE  /\ Keeps(s, p, q) /\ q.exists = p.exists /\ q.reconnecting = p.reconnecting
         /\ q.open = p.open /\ q.state = p.state /\ q.phase = p.phase
<1> DEFINE T == p.timers \cup {[kind |-> kind, n |-> n, held |-> TRUE]}
<1>1. T \in SUBSET Timer
  <2>1. [kind |-> kind, n |-> n, held |-> TRUE] \in Timer
    BY DEF Timer, Peers!Timer
  <2> QED
    BY <2>1, EntryFields
<1>2. q = [p EXCEPT !.timers = T]
  BY DEF Peers!Set
<1>3. s = Hi => (Answers(p) => \A t \in T : t.kind \in {"giveUp", "grace", "answer"})
  BY DEF Answers
<1> HIDE DEF T
<1> QED
  BY <1>1, <1>2, <1>3 DEF Keeps, Answers, PeerEntry, Timer, Peers!PeerEntry

LEMMA ClearKeeps ==
  ASSUME NEW s, NEW p \in PeerEntry, NEW kind, NEW q, q = Peers!Clear(p, kind)
  PROVE  /\ Keeps(s, p, q) /\ q.exists = p.exists /\ q.reconnecting = p.reconnecting
         /\ q.open = p.open /\ q.state = p.state /\ q.phase = p.phase
<1> DEFINE T == {t \in p.timers : t.kind # kind \/ ~t.held}
<1>1. T \in SUBSET Timer /\ T \subseteq p.timers
  BY EntryFields
<1>2. q = [p EXCEPT !.timers = T]
  BY DEF Peers!Clear
<1> HIDE DEF T
<1> QED
  BY <1>1, <1>2 DEF Keeps, Answers, PeerEntry, Timer, Peers!PeerEntry

LEMMA DoneKeeps ==
  ASSUME NEW s, NEW p \in PeerEntry, NEW t, NEW q, q = Peers!Done(p, t)
  PROVE  /\ Keeps(s, p, q) /\ q.exists = p.exists /\ q.reconnecting = p.reconnecting
         /\ q.open = p.open /\ q.state = p.state /\ q.phase = p.phase
<1> DEFINE T == p.timers \ {t}
<1>1. T \in SUBSET Timer /\ T \subseteq p.timers
  BY EntryFields
<1>2. q = [p EXCEPT !.timers = T]
  BY DEF Peers!Done
<1> HIDE DEF T
<1> QED
  BY <1>1, <1>2 DEF Keeps, Answers, PeerEntry, Timer, Peers!PeerEntry

LEMMA SetBesideKeeps ==
  ASSUME NEW s, NEW p \in PeerEntry, NEW kind \in {"giveUp", "answer"},
         NEW q, q = Peers!SetBeside(p, kind)
  PROVE  /\ Keeps(s, p, q) /\ q.exists = p.exists /\ q.reconnecting = p.reconnecting
         /\ q.open = p.open /\ q.state = p.state /\ q.phase = p.phase
<1> DEFINE T == {IF t.kind = kind THEN [t EXCEPT !.held = FALSE] ELSE t : t \in p.timers}
           r == [p EXCEPT !.timers = T]
<1>1. T \in SUBSET Timer /\ \A t \in T : \E u \in p.timers : t.kind = u.kind
  <2>1. \A t \in Timer : /\ [t EXCEPT !.held = FALSE] \in Timer
                         /\ [t EXCEPT !.held = FALSE].kind = t.kind
    BY DEF Timer, Peers!Timer
  <2>2. p.timers \subseteq Timer
    BY EntryFields
  <2> QED
    BY <2>1, <2>2
<1>2. q = Peers!Set(r, kind, 0)
  BY DEF Peers!SetBeside
<1> HIDE DEF T
<1>3. /\ Keeps(s, p, r) /\ r.exists = p.exists /\ r.reconnecting = p.reconnecting
      /\ r.open = p.open /\ r.state = p.state /\ r.phase = p.phase
  BY <1>1 DEF Keeps, Answers, PeerEntry, Timer, Peers!PeerEntry
<1> HIDE DEF r
<1>4. /\ Keeps(s, r, q) /\ q.exists = r.exists /\ q.reconnecting = r.reconnecting
      /\ q.open = r.open /\ q.state = r.state /\ q.phase = r.phase
  <2>1. r \in PeerEntry /\ 0 \in 0..MaxAttempts
    BY <1>3, PeersAssumption DEF Keeps
  <2>2. /\ kind \in {"giveUp", "grace", "attempt", "retry", "answer", "startup"}
        /\ kind \in {"giveUp", "grace", "answer"}
    OBVIOUS
  <2> QED
    BY <1>2, <2>1, <2>2, SetKeeps
<1> QED
  BY <1>3, <1>4 DEF Keeps

(* A side that gives the other up forgets it.                               *)
LEMMA HardDisconnectKeeps ==
  ASSUME NEW s, NEW p \in PeerEntry, NEW q, q = Peers!HardDisconnect(p)
  PROVE  Keeps(s, p, q)
<1> DEFINE r == Peers!Clear(p, "giveUp")
<1>1. Keeps(s, p, r)
  BY ClearKeeps
<1>2. q = [r EXCEPT !.exists = FALSE, !.reconnecting = FALSE]
  BY DEF Peers!HardDisconnect
<1> HIDE DEF r
<1>3. Keeps(s, r, q)
  BY <1>1, <1>2 DEF Keeps, Answers, PeerEntry, Peers!PeerEntry
<1> QED
  BY <1>1, <1>3 DEF Keeps

(***************************************************************************)
(* Attempts: only the lower slot makes connections.                        *)
(***************************************************************************)

LEMMA OfferMakes ==
  ASSUME NEW p \in PeerEntry, p.made < MaxPc, NEW w \in 0..MaxAttempts + 2,
         NEW m \in 0..MaxStartup, NEW kind \in {"first", "startup", "reconnect", "answer"},
         NEW r, r = [p EXCEPT !.tries = m],
         NEW q, q = Peers!Offering(Peers!Fresh(r, p.made + 1, w, 0), p.made + 1, kind)
  PROVE  Makes(Lo, p, q)
<1> DEFINE k == p.made + 1
           o == [pc |-> k, kind |-> kind]
           f == Peers!Fresh(r, k, w, 0)
<1>1. k \in 0..MaxPc /\ p.out \in Seq(Offer) /\ o \in Offer
  <2>1. p.made \in 0..MaxPc /\ p.out \in Seq(Offer)
    BY EntryFields
  <2>2. k \in 0..MaxPc
    BY <2>1, PeersAssumption
  <2> QED
    BY <2>1, <2>2 DEF Offer, Peers!Offer, Peers!Pcs
<1>2. Append(p.out, o) \in Seq(Offer)
  BY <1>1
<1>3. r \in PeerEntry /\ r.out = p.out
  BY DEF PeerEntry, Peers!PeerEntry
<1> HIDE DEF k, o
<1>4. f \in PeerEntry /\ f.pc = k /\ ~f.open /\ f.out = p.out
  <2>1. k \in Peers!Pcs /\ 0 \in Peers!Pcs /\ w \in Peers!First..Peers!Startup
    BY <1>1, PeersAssumption DEF Peers!Pcs, Peers!First, Peers!Startup
  <2>2. f = [r EXCEPT !.pc = k, !.state = "new", !.remote = 0, !.open = FALSE, !.watch = w]
    BY DEF Peers!Fresh
  <2> HIDE DEF f
  <2> QED
    BY <1>3, <2>1, <2>2 DEF PeerEntry, Peers!PeerEntry
<1>5. q = [f EXCEPT !.made = k, !.dc = k, !.out = Append(p.out, o)]
  BY <1>4 DEF Peers!Offering, k, o
<1> HIDE DEF f
<1>6. q \in PeerEntry /\ q.pc = k /\ q.made = k /\ ~q.open /\ q.out = Append(p.out, o)
  BY <1>1, <1>2, <1>4, <1>5 DEF PeerEntry, Offer, Peers!PeerEntry, Peers!Pcs
<1> QED
  BY <1>6 DEF Makes, k, o


LEMMA AttemptHandles ==
  ASSUME NEW p \in PeerEntry, NEW n \in 0..MaxAttempts, NEW q, q = Peers!AttemptReconnect(p, n)
  PROVE  Handles(Lo, p, q)
<1>1. CASE ~(p.exists /\ p.reconnecting /\ p.made < MaxPc)
  BY <1>1, KeepsItself DEF Peers!AttemptReconnect
<1>2. CASE p.exists /\ p.reconnecting /\ p.made < MaxPc
  <2> DEFINE f == Peers!Offering(Peers!Fresh(p, p.made + 1, n, 0), p.made + 1, "reconnect")
  <2>1. q = Peers!Set(f, "attempt", n)
    BY <1>2 DEF Peers!AttemptReconnect
  <2>2. n \in 0..MaxAttempts + 2 /\ n \in 0..MaxAttempts /\ p.tries \in 0..MaxStartup
    BY EntryFields, PeersAssumption
  <2>3. p = [p EXCEPT !.tries = p.tries]
    BY DEF PeerEntry, Peers!PeerEntry
  <2>4. Makes(Lo, p, f)
    BY <1>2, <2>2, <2>3, OfferMakes
  <2> HIDE DEF f
  <2>5. Keeps(Lo, f, q)
    BY <2>1, <2>2, <2>4, SetKeeps, PeersAssumption DEF Makes
  <2> QED
    BY <2>4, <2>5 DEF Makes, Keeps, Handles
<1> QED
  BY <1>1, <1>2

LEMMA RetryStartupHandles ==
  ASSUME NEW s \in {Lo, Hi}, NEW p \in PeerEntry, NEW q, q = Peers!RetryStartup(s, p)
  PROVE  /\ Handles(s, p, q)
         /\ s = Hi \/ p.phase # "starting" \/ p.open => q = p
<1>1. CASE s # Lo \/ ~p.exists \/ p.phase # "starting" \/ p.open
  BY <1>1, KeepsItself, PeersAssumption DEF Peers!RetryStartup
<1>2. CASE ~(s # Lo \/ ~p.exists \/ p.phase # "starting" \/ p.open)
  <2>1. CASE p.tries = MaxStartup \/ p.made = MaxPc
    BY <1>2, <2>1, ClearKeeps, PeersAssumption DEF Peers!RetryStartup, Handles
  <2>2. CASE ~(p.tries = MaxStartup \/ p.made = MaxPc)
    <3> DEFINE r == [p EXCEPT !.tries = p.tries + 1]
               f == Peers!Offering(Peers!Fresh(r, p.made + 1, Peers!Startup, 0),
                                   p.made + 1, "startup")
    <3>1. q = Peers!Set(f, "startup", 0)
      BY <1>2, <2>2 DEF Peers!RetryStartup
    <3>2. /\ p.made < MaxPc /\ p.tries + 1 \in 0..MaxStartup
          /\ Peers!Startup \in 0..MaxAttempts + 2 /\ 0 \in 0..MaxAttempts
      BY <2>2, EntryFields, PeersAssumption DEF Peers!Startup
    <3>3. Makes(Lo, p, f)
      BY <3>2, OfferMakes
    <3> HIDE DEF f, r
    <3>4. Keeps(Lo, f, q)
      BY <3>1, <3>2, <3>3, SetKeeps, PeersAssumption DEF Makes
    <3> QED
      BY <1>2, <3>3, <3>4, PeersAssumption DEF Makes, Keeps, Handles
  <2> QED
    BY <2>1, <2>2
<1> QED
  BY <1>1, <1>2

LEMMA RetryOrGiveUpHandles ==
  ASSUME NEW p \in PeerEntry, NEW n \in 0..MaxAttempts, NEW q, q = Peers!RetryOrGiveUp(p, n)
  PROVE  Handles(Lo, p, q)
<1>1. CASE ~p.exists \/ ~p.reconnecting
  BY <1>1, KeepsItself DEF Peers!RetryOrGiveUp
<1>2. CASE ~(~p.exists \/ ~p.reconnecting) /\ n < MaxAttempts
  <2>1. n + 1 \in 0..MaxAttempts
    BY <1>2, PeersAssumption
  <2> QED
    BY <1>2, <2>1, SetKeeps, PeersAssumption DEF Peers!RetryOrGiveUp, Handles
<1>3. CASE ~(~p.exists \/ ~p.reconnecting) /\ ~(n < MaxAttempts)
  BY <1>3, HardDisconnectKeeps DEF Peers!RetryOrGiveUp, Handles
<1> QED
  BY <1>1, <1>2, <1>3

LEMMA DisconnectHandles ==
  ASSUME NEW s \in {Lo, Hi}, NEW p \in PeerEntry, NEW q, q = Peers!HandlePeerDisconnect(s, p)
  PROVE  Handles(s, p, q)
<1> DEFINE c == Peers!Clear(p, "grace")
           w == [p EXCEPT !.reconnecting = TRUE]
           r == Peers!Clear(w, "grace")
           g == Peers!SetBeside(r, "giveUp")
<1>1. Keeps(s, p, c)
  BY ClearKeeps
<1>2. Keeps(s, p, w)
  BY DEF Keeps, Answers, PeerEntry, Peers!PeerEntry
<1>3. Keeps(s, w, r)
  <2>1. w \in PeerEntry
    BY <1>2 DEF Keeps
  <2> HIDE DEF w
  <2> QED
    BY <2>1, ClearKeeps
<1>4. Keeps(s, r, g)
  BY <1>3, SetBesideKeeps DEF Keeps
<1>5. Keeps(s, p, g) /\ g \in PeerEntry /\ c \in PeerEntry
  BY <1>1, <1>2, <1>3, <1>4 DEF Keeps
<1>6. CASE p.phase = "starting" /\ s = Lo
  <2>1. q = Peers!RetryStartup(s, c)
    BY <1>6 DEF Peers!HandlePeerDisconnect
  <2> HIDE DEF c
  <2> QED
    BY <1>1, <1>5, <2>1, RetryStartupHandles, KeepsThenHandles
<1>7. CASE ~(p.phase = "starting" /\ s = Lo) /\ p.phase # "running"
  <2>1. q = Peers!HardDisconnect(c)
    BY <1>7 DEF Peers!HandlePeerDisconnect
  <2> HIDE DEF c
  <2> QED
    BY <1>1, <1>5, <2>1, HardDisconnectKeeps, KeepsThenHandles DEF Handles
<1>8. CASE ~(p.phase = "starting" /\ s = Lo) /\ p.phase = "running"
  <2>1. q = IF s = Lo THEN Peers!AttemptReconnect(g, 1) ELSE g
    BY <1>8 DEF Peers!HandlePeerDisconnect, Peers!GiveUpLater, Peers!Reconnecting
  <2> HIDE DEF g
  <2>2. 1 \in 0..MaxAttempts
    BY PeersAssumption
  <2> QED
    BY <1>5, <2>1, <2>2, AttemptHandles, KeepsThenHandles DEF Handles
<1> QED
  BY <1>6, <1>7, <1>8


(***************************************************************************)
(* The steps of the connection.                                            *)
(***************************************************************************)

LinkInv == Peers!LinkInv

(* A step of one side that makes no connection.                             *)
Follows(s, p, q) ==
  /\ q \in PeerEntry /\ q.pc = p.pc /\ q.made = p.made /\ q.out = p.out /\ q.watch = p.watch
  /\ s = Hi => (Answers(p) => Answers(q))
  /\ Current(q)

LEMMA HandlesCurrent ==
  ASSUME NEW s, NEW p \in PeerEntry, NEW q, Current(p), Handles(s, p, q)
  PROVE  Follows(s, p, q) \/ (Makes(s, p, q) /\ Current(q))
<1>1. CASE Makes(s, p, q)
  BY <1>1 DEF Makes, Current
<1>2. CASE Keeps(s, p, q)
  BY <1>2 DEF Keeps, Current, Follows
<1> QED
  BY <1>1, <1>2 DEF Handles

(* The invariant, of the two entries.                                       *)
LinkOf(a, b) ==
  /\ a \in PeerEntry /\ b \in PeerEntry
  /\ \A i \in DOMAIN a.out : a.out[i].pc \in (b.pc + 1)..a.made
  /\ \A i, j \in DOMAIN a.out : i < j => a.out[i].pc < a.out[j].pc
  /\ b.pc <= a.made /\ a.pc = a.made
  /\ Current(a) /\ Current(b)
  /\ b.watch \in {0, MaxAttempts + 1} /\ Answers(b)

LEMMA LinkParts ==
  /\ LinkInv <=> /\ peer \in [{Lo, Hi} -> PeerEntry] /\ down \subseteq 0..MaxPc
                 /\ LinkOf(peer[Lo], peer[Hi])
  /\ LinkInv' <=> /\ peer' \in [{Lo, Hi} -> PeerEntry] /\ down' \subseteq 0..MaxPc
                  /\ LinkOf(peer'[Lo], peer'[Hi])
<1>1. LinkInv <=> /\ peer \in [{Lo, Hi} -> PeerEntry] /\ down \subseteq 0..MaxPc
                  /\ LinkOf(peer[Lo], peer[Hi])
  BY DEF LinkInv, LinkOf, Peers!LinkInv, Peers!TypeOK, Peers!OffersRise, Peers!ChannelIsCurrent,
         Peers!OneSideOffers, Peers!Sides, Peers!Pcs, Peers!First, Peers!Answering,
         Answers, Current, PeerEntry
<1>2. LinkInv' <=> /\ peer' \in [{Lo, Hi} -> PeerEntry] /\ down' \subseteq 0..MaxPc
                   /\ LinkOf(peer'[Lo], peer'[Hi])
  BY DEF LinkInv, LinkOf, Peers!LinkInv, Peers!TypeOK, Peers!OffersRise, Peers!ChannelIsCurrent,
         Peers!OneSideOffers, Peers!Sides, Peers!Pcs, Peers!First, Peers!Answering,
         Answers, Current, PeerEntry
<1> QED
  BY <1>1, <1>2

LEMMA FollowsKeepsInv ==
  ASSUME LinkInv, NEW s \in {Lo, Hi}, NEW q, Follows(s, peer[s], q),
         peer' = [peer EXCEPT ![s] = q], down' \subseteq 0..MaxPc
  PROVE  LinkInv'
<1>1. peer \in [{Lo, Hi} -> PeerEntry] /\ LinkOf(peer[Lo], peer[Hi])
  BY LinkParts
<1>2. q \in PeerEntry
  BY DEF Follows
<1>3. peer' \in [{Lo, Hi} -> PeerEntry] /\ peer'[s] = q /\ Lo # Hi
      /\ \A t \in {Lo, Hi} : t # s => peer'[t] = peer[t]
  BY <1>1, <1>2, PeersAssumption
<1>4. LinkOf(peer'[Lo], peer'[Hi])
  BY <1>1, <1>3 DEF Follows, LinkOf
<1> QED
  BY <1>3, <1>4, LinkParts

LEMMA MakesKeepsInv ==
  ASSUME LinkInv, NEW s \in {Lo, Hi}, NEW q, Makes(s, peer[s], q), Current(q),
         peer' = [peer EXCEPT ![s] = q], down' \subseteq 0..MaxPc
  PROVE  LinkInv'
<1> DEFINE a == peer[Lo]
           b == peer[Hi]
<1>1. peer \in [{Lo, Hi} -> PeerEntry] /\ LinkOf(a, b)
  BY LinkParts
<1>2. q \in PeerEntry /\ s = Lo
  BY DEF Makes
<1>3. peer' \in [{Lo, Hi} -> PeerEntry] /\ peer'[Lo] = q /\ peer'[Hi] = b
  BY <1>1, <1>2, PeersAssumption
<1>4. PICK k : q.out = Append(a.out, [pc |-> a.made + 1, kind |-> k])
  BY <1>2 DEF Makes
<1>5. q.pc = a.made + 1 /\ q.made = a.made + 1
  BY <1>2 DEF Makes
<1>6. /\ a.made \in Nat /\ b.pc \in Nat /\ a.out \in Seq(Offer)
      /\ \A i \in DOMAIN a.out : a.out[i].pc \in Nat
  <2>1. /\ a.made \in 0..MaxPc /\ b.pc \in 0..MaxPc /\ a.out \in Seq(Offer)
    BY <1>1, EntryFields DEF LinkOf
  <2>2. \A o \in Offer : o.pc \in 0..MaxPc
    BY DEF Offer, Peers!Offer, Peers!Pcs
  <2> QED
    BY <2>1, <2>2, PeersAssumption
<1> DEFINE o == [pc |-> a.made + 1, kind |-> k]
           l == Len(a.out)
<1>7. /\ DOMAIN q.out = 1..l + 1 /\ q.out[l + 1].pc = a.made + 1
      /\ \A i \in DOMAIN a.out : q.out[i] = a.out[i]
      /\ DOMAIN a.out = 1..l /\ l \in Nat
  <2>1. o.pc = a.made + 1
    OBVIOUS
  <2> HIDE DEF o
  <2> QED
    BY <1>4, <1>6, <2>1 DEF o
<1> HIDE DEF a, b, o, l
<1>8. LinkOf(q, b)
  <2>0. \A i \in DOMAIN a.out : a.out[i].pc >= b.pc + 1 /\ a.out[i].pc <= a.made
    BY <1>1, <1>6 DEF LinkOf
  <2>3. \A i, j \in DOMAIN a.out : i < j => a.out[i].pc < a.out[j].pc
    BY <1>1 DEF LinkOf
  <2>4. b.pc <= a.made
    BY <1>1 DEF LinkOf
  <2>5. \A i \in DOMAIN q.out : i \in DOMAIN a.out \/ i = l + 1
    BY <1>7
  <2>6. \A i \in DOMAIN a.out : i < l + 1
    BY <1>7
  <2>1. \A i \in DOMAIN q.out : q.out[i].pc \in (b.pc + 1)..q.made
    <3> TAKE i \in DOMAIN q.out
    <3>1. CASE i \in DOMAIN a.out
      <4>1. q.out[i].pc = a.out[i].pc /\ a.out[i].pc \in Nat
        BY <3>1, <1>6, <1>7
      <4> QED
        BY <3>1, <4>1, <2>0, <1>5, <1>6
    <3>2. CASE i = l + 1
      BY <3>2, <2>4, <1>5, <1>6, <1>7
    <3> QED
      BY <3>1, <3>2, <2>5
  <2>2. \A i, j \in DOMAIN q.out : i < j => q.out[i].pc < q.out[j].pc
    <3> SUFFICES ASSUME NEW i \in DOMAIN q.out, NEW j \in DOMAIN q.out, i < j
                 PROVE  q.out[i].pc < q.out[j].pc
      OBVIOUS
    <3>1. i \in DOMAIN a.out
      BY <1>7
    <3>2. q.out[i].pc = a.out[i].pc /\ a.out[i].pc \in Nat
      BY <3>1, <1>6, <1>7
    <3>3. CASE j \in DOMAIN a.out
      BY <3>1, <3>2, <3>3, <2>3, <1>7
    <3>4. CASE j = l + 1
      BY <3>1, <3>2, <3>4, <2>0, <1>6, <1>7
    <3> QED
      BY <3>3, <3>4, <2>5
  <2> QED
    BY <1>1, <1>2, <1>5, <1>6, <2>1, <2>2 DEF LinkOf
<1> QED
  BY <1>3, <1>8, LinkParts

(* A step that changes one side by a handler.                               *)
LEMMA HandlesKeepsInv ==
  ASSUME LinkInv, NEW s \in {Lo, Hi}, NEW p, NEW q, Follows(s, peer[s], p), Handles(s, p, q),
         peer' = [peer EXCEPT ![s] = q], down' = down
  PROVE  LinkInv'
<1>1. down' \subseteq 0..MaxPc
  BY LinkParts
<1>2. Follows(s, p, q) \/ (Makes(s, p, q) /\ Current(q))
  BY HandlesCurrent DEF Follows
<1>3. Follows(s, peer[s], q) \/ (Makes(s, peer[s], q) /\ Current(q))
  BY <1>2 DEF Follows, Makes
<1> QED
  BY <1>1, <1>3, FollowsKeepsInv, MakesKeepsInv

LEMMA SideFacts ==
  ASSUME LinkInv, NEW s \in {Lo, Hi}
  PROVE  /\ peer[s] \in PeerEntry /\ Current(peer[s]) /\ Follows(s, peer[s], peer[s])
         /\ down \subseteq 0..MaxPc
BY LinkParts DEF LinkOf, Follows

LEMMA StateFollows ==
  ASSUME NEW s \in {Lo, Hi}, NEW p \in PeerEntry, Current(p),
         NEW st \in {"new", "connected", "disconnected", "failed", "closed"},
         NEW q, q = [p EXCEPT !.state = st]
  PROVE  Follows(s, p, q) /\ q \in PeerEntry /\ q.watch = p.watch
BY DEF Follows, Current, Answers, PeerEntry, Peers!PeerEntry

(* The next signal of a side.                                               *)
LEMMA HeadAndTail ==
  ASSUME NEW o \in Seq(Offer), o # <<>>
  PROVE  /\ Head(o) \in Offer /\ Head(o) = o[1] /\ 1 \in DOMAIN o
         /\ \A i \in DOMAIN Tail(o) : /\ Tail(o)[i] = o[i + 1] /\ i + 1 \in DOMAIN o
                                      /\ i \in Nat /\ 1 < i + 1
OBVIOUS

(* The first offer is heard or lost: what the answering side has then is the *)
(* connection it had, or that of the offer.                                *)
LEMMA HearingKeepsLink ==
  ASSUME NEW a, NEW b, LinkOf(a, b), a.out # <<>>,
         NEW c \in PeerEntry, c.pc = b.pc \/ c.pc = Head(a.out).pc,
         Current(c), c.watch \in {0, MaxAttempts + 1}, Answers(c),
         NEW q, q = Peers!Heard(a)
  PROVE  LinkOf(q, c)
<1> DEFINE o == a.out
<1>1. /\ a \in PeerEntry /\ b \in PeerEntry /\ Current(a) /\ a.pc = a.made /\ b.pc <= a.made
      /\ \A i \in DOMAIN o : o[i].pc \in (b.pc + 1)..a.made
      /\ \A i, j \in DOMAIN o : i < j => o[i].pc < o[j].pc
  BY DEF LinkOf
<1>2. /\ q \in PeerEntry /\ q.out = Tail(o) /\ q.pc = a.pc /\ q.made = a.made /\ Current(q)
  BY <1>1, HeardFields DEF Current
<1>3. o \in Seq(Offer) /\ a.made \in Nat /\ b.pc \in Nat /\ c.pc \in Nat
  BY <1>1, EntryFields, PeersAssumption
<1>4. /\ Head(o) = o[1] /\ 1 \in DOMAIN o
      /\ \A i \in DOMAIN Tail(o) : /\ Tail(o)[i] = o[i + 1] /\ i + 1 \in DOMAIN o
                                   /\ i \in Nat /\ 1 < i + 1
  BY <1>3, HeadAndTail
<1>5. c.pc = b.pc \/ c.pc = o[1].pc
  BY <1>4
<1>6. \A i \in DOMAIN o : o[i].pc \in Nat /\ o[i].pc > b.pc /\ o[i].pc <= a.made
  BY <1>1, <1>3
<1> HIDE DEF o
<1>7. c.pc <= a.made
  BY <1>1, <1>3, <1>4, <1>5, <1>6
<1>8. \A i \in DOMAIN Tail(o) : Tail(o)[i].pc \in (c.pc + 1)..a.made
  <2> TAKE i \in DOMAIN Tail(o)
  <2>1. Tail(o)[i] = o[i + 1] /\ i + 1 \in DOMAIN o /\ o[1].pc < o[i + 1].pc
    BY <1>1, <1>4
  <2>2. /\ o[1].pc \in Nat /\ o[i + 1].pc \in Nat /\ o[i + 1].pc > b.pc
        /\ o[i + 1].pc <= a.made
    BY <2>1, <1>4, <1>6
  <2> QED
    BY <2>1, <2>2, <1>3, <1>5
<1>9. \A i, j \in DOMAIN Tail(o) : i < j => Tail(o)[i].pc < Tail(o)[j].pc
  <2> SUFFICES ASSUME NEW i \in DOMAIN Tail(o), NEW j \in DOMAIN Tail(o), i < j
               PROVE  Tail(o)[i].pc < Tail(o)[j].pc
    OBVIOUS
  <2>1. i + 1 < j + 1 /\ i + 1 \in DOMAIN o /\ j + 1 \in DOMAIN o
    BY <1>4
  <2> QED
    BY <2>1, <1>1, <1>4
<1> QED
  BY <1>1, <1>2, <1>7, <1>8, <1>9 DEF LinkOf

LEMMA SignalLostKeeps ==
  ASSUME LinkInv, NEW s \in {Lo, Hi}, Peers!SignalLost(s)
  PROVE  LinkInv'
<1>1. /\ peer \in [{Lo, Hi} -> PeerEntry] /\ down \subseteq 0..MaxPc
      /\ LinkOf(peer[Lo], peer[Hi])
  BY LinkParts
<1> DEFINE q == Peers!Heard(peer[s])
<1>2. peer[s].out # <<>> /\ peer' = [peer EXCEPT ![s] = q] /\ down' = down
  BY DEF Peers!SignalLost, Peers!Step
<1>3. /\ q \in PeerEntry /\ q.pc = peer[s].pc /\ q.watch = peer[s].watch
      /\ Current(q) /\ q.timers = peer[s].timers
  BY <1>1, <1>2, SideFacts, HeardFields DEF Current
<1>4. CASE s = Lo
  <2>1. peer' \in [{Lo, Hi} -> PeerEntry] /\ peer'[Lo] = q /\ peer'[Hi] = peer[Hi]
    BY <1>1, <1>2, <1>3, <1>4, PeersAssumption
  <2>2. /\ peer[Hi] \in PeerEntry /\ Current(peer[Hi]) /\ Answers(peer[Hi])
        /\ peer[Hi].watch \in {0, MaxAttempts + 1}
    BY <1>1 DEF LinkOf
  <2>3. LinkOf(q, peer[Hi])
    BY <1>1, <1>2, <1>4, <2>2, HearingKeepsLink
  <2> QED
    BY <1>1, <1>2, <2>1, <2>3, LinkParts
<1>5. CASE s = Hi
  <2> HIDE DEF q
  <2>1. peer' \in [{Lo, Hi} -> PeerEntry] /\ peer'[Hi] = q /\ peer'[Lo] = peer[Lo]
    BY <1>1, <1>2, <1>3, <1>5, PeersAssumption
  <2>2. LinkOf(peer[Lo], q)
    BY <1>1, <1>3, <1>5 DEF LinkOf, Answers
  <2> QED
    BY <1>1, <1>2, <2>1, <2>2, LinkParts
<1> QED
  BY <1>4, <1>5

LEMMA AnswerFields ==
  ASSUME NEW p \in PeerEntry, NEW k \in 0..MaxPc, NEW q, q = Peers!Answer(p, k)
  PROVE  /\ q \in PeerEntry /\ q.pc = p.pc /\ q.watch = p.watch /\ q.open = p.open
         /\ q.timers = p.timers
<1> DEFINE o == [pc |-> k, kind |-> "answer"]
           l == Append(p.out, o)
<1>1. o \in Offer
  BY DEF Offer, Peers!Offer, Peers!Pcs
<1>2. q = [p EXCEPT !.out = l]
  BY DEF Peers!Answer
<1> HIDE DEF o
<1>3. l \in Seq(Offer)
  <2>1. p.out \in Seq(Offer)
    BY EntryFields
  <2> QED
    BY <1>1, <2>1
<1> HIDE DEF l
<1> QED
  BY <1>2, <1>3 DEF PeerEntry, Offer, Peers!PeerEntry

LEMMA ReceiveOfferKeeps ==
  ASSUME LinkInv, Peers!ReceiveOffer
  PROVE  LinkInv'
<1> DEFINE a == peer[Lo]
           p == peer[Hi]
           m == Head(a.out)
           k == m.pc
           startup == m.kind = "startup" \/ p.phase = "starting"
           f1 == [Peers!Fresh(p, k, Peers!First, k) EXCEPT !.exists = TRUE]
           f2 == [Peers!Fresh(p, k, Peers!Answering, k)
                    EXCEPT !.exists = TRUE, !.reconnecting = ~startup]
           q1 == Peers!Answer(f1, k)
           q2 == Peers!Answer(f2, k)
           c == IF m.kind = "first" THEN q1 ELSE Peers!SetBeside(q2, "answer")
<1>1. /\ peer \in [{Lo, Hi} -> PeerEntry] /\ down \subseteq 0..MaxPc /\ LinkOf(a, p)
  BY LinkParts
<1>2. /\ a.out # <<>> /\ down' = down
      /\ peer' = [peer EXCEPT ![Hi] = c, ![Lo] = Peers!Heard(a)]
  BY PeersAssumption DEF Peers!ReceiveOffer, Peers!Received, Peers!Other
<1>3. /\ a \in PeerEntry /\ p \in PeerEntry /\ Answers(p)
  BY <1>1 DEF LinkOf
<1>4. m \in Offer /\ k \in 0..MaxPc
  <2>1. a.out \in Seq(Offer)
    BY <1>3, EntryFields
  <2>2. m \in Offer
    BY <1>2, <2>1, HeadAndTail
  <2> QED
    BY <2>2 DEF Offer, Peers!Offer, Peers!Pcs
<1>5. q1 \in PeerEntry /\ q1.pc = k /\ q1.watch = 0 /\ ~q1.open /\ q1.timers = p.timers
  <2>1. p.reconnecting \in BOOLEAN /\ Peers!First = 0
    BY <1>3, EntryFields DEF Peers!First
  <2>2. f1 = [p EXCEPT !.pc = k, !.state = "new", !.remote = k, !.open = FALSE,
                       !.watch = 0, !.exists = TRUE, !.reconnecting = p.reconnecting]
    BY <1>3, <2>1 DEF PeerEntry, Peers!PeerEntry, Peers!Fresh
  <2>4. /\ k \in Peers!Pcs /\ 0 \in Peers!First..Peers!Startup
    BY <1>4, PeersAssumption DEF Peers!Pcs, Peers!First, Peers!Startup
  <2> HIDE DEF f1, k, p
  <2>3. /\ f1 \in PeerEntry /\ f1.pc = k /\ f1.watch = 0 /\ ~f1.open /\ f1.timers = p.timers
    BY <1>3, <2>1, <2>2, <2>4 DEF PeerEntry, Peers!PeerEntry
  <2> QED
    BY <1>4, <2>3, AnswerFields
<1>6. /\ q2 \in PeerEntry /\ q2.pc = k /\ q2.watch = MaxAttempts + 1 /\ ~q2.open
      /\ q2.timers = p.timers
  <2> DEFINE r == ~startup
  <2>1. r \in BOOLEAN
    OBVIOUS
  <2>2. Peers!Answering = MaxAttempts + 1
    BY DEF Peers!Answering
  <2> HIDE DEF r
  <2>3. f2 = [p EXCEPT !.pc = k, !.state = "new", !.remote = k, !.open = FALSE,
                       !.watch = MaxAttempts + 1, !.exists = TRUE, !.reconnecting = r]
    BY <2>2 DEF r, Peers!Fresh
  <2>5. /\ k \in Peers!Pcs /\ MaxAttempts + 1 \in Peers!First..Peers!Startup
    BY <1>4, PeersAssumption DEF Peers!Pcs, Peers!First, Peers!Startup
  <2> HIDE DEF k, f2, p
  <2>4. /\ f2 \in PeerEntry /\ f2.pc = k /\ f2.watch = MaxAttempts + 1 /\ ~f2.open
        /\ f2.timers = p.timers
    BY <1>3, <2>1, <2>3, <2>5 DEF PeerEntry, Peers!PeerEntry
  <2> QED
    BY <1>4, <2>4, AnswerFields
<1>7. /\ c \in PeerEntry /\ c.pc = k /\ c.watch \in {0, MaxAttempts + 1} /\ Answers(c) /\ ~c.open
  <2>1. CASE m.kind = "first"
    BY <1>3, <1>5, <2>1 DEF Answers
  <2>2. CASE m.kind # "first"
    <3> HIDE DEF q2
    <3>1. c = Peers!SetBeside(q2, "answer")
      BY <2>2
    <3> HIDE DEF c
    <3>2. Keeps(Hi, q2, c) /\ c.open = q2.open
      BY <1>6, <3>1, SetBesideKeeps
    <3> QED
      BY <1>3, <1>6, <3>2 DEF Keeps, Answers
  <2> QED
    BY <2>1, <2>2
<1> DEFINE h == Peers!Heard(a)
<1> HIDE DEF c
<1>8. LinkOf(h, c)
  BY <1>1, <1>2, <1>7, HearingKeepsLink DEF Current
<1>9. peer' \in [{Lo, Hi} -> PeerEntry] /\ peer'[Lo] = h /\ peer'[Hi] = c
  <2>1. h \in PeerEntry
    BY <1>8 DEF LinkOf
  <2> HIDE DEF h, a
  <2> QED
    BY <1>1, <1>2, <1>7, <2>1, PeersAssumption DEF h
<1> QED
  BY <1>1, <1>2, <1>8, <1>9, LinkParts

LEMMA ReceiveAnswerKeeps ==
  ASSUME LinkInv, Peers!ReceiveAnswer
  PROVE  LinkInv'
<1> DEFINE p == peer[Lo]
           b == peer[Hi]
           k == Head(b.out).pc
           q == IF p.exists /\ p.state = "new" /\ p.remote = 0 THEN [p EXCEPT !.remote = k] ELSE p
           h == Peers!Heard(b)
<1>1. /\ peer \in [{Lo, Hi} -> PeerEntry] /\ down \subseteq 0..MaxPc /\ LinkOf(p, b)
  BY LinkParts
<1>2. /\ b.out # <<>> /\ down' = down /\ peer' = [peer EXCEPT ![Lo] = q, ![Hi] = h]
  BY PeersAssumption DEF Peers!ReceiveAnswer, Peers!Received, Peers!Other
<1>3. p \in PeerEntry /\ b \in PeerEntry
  BY <1>1 DEF LinkOf
<1>4. k \in 0..MaxPc
  <2>1. Head(b.out) \in Offer
    BY <1>2, <1>3, EntryFields, HeadAndTail
  <2> QED
    BY <2>1 DEF Offer, Peers!Offer, Peers!Pcs
<1>5. /\ h \in PeerEntry /\ h.pc = b.pc /\ h.watch = b.watch /\ h.timers = b.timers
      /\ h.dc = b.dc /\ h.open = b.open /\ h.exists = b.exists
  BY <1>2, <1>3, HeardFields
<1> HIDE DEF k, h
<1>6. /\ q \in PeerEntry /\ q.pc = p.pc /\ q.made = p.made /\ q.out = p.out /\ q.dc = p.dc
      /\ q.open = p.open /\ q.exists = p.exists
  BY <1>3, <1>4 DEF PeerEntry, Peers!PeerEntry, Peers!Pcs
<1> HIDE DEF q
<1>7. LinkOf(q, h)
  BY <1>1, <1>5, <1>6 DEF LinkOf, Current, Answers
<1>8. peer' \in [{Lo, Hi} -> PeerEntry] /\ peer'[Lo] = q /\ peer'[Hi] = h
  BY <1>1, <1>2, <1>5, <1>6, PeersAssumption
<1> QED
  BY <1>1, <1>2, <1>7, <1>8, LinkParts

LEMMA ConnectedKeeps ==
  ASSUME LinkInv, NEW s \in {Lo, Hi}, Peers!Connected(s)
  PROVE  LinkInv'
<1> DEFINE p == [peer[s] EXCEPT !.state = "connected"]
           t == [kind |-> "attempt", n |-> p.watch, held |-> TRUE]
           q == IF p.watch = Peers!First THEN Peers!Clear(p, "grace")
                ELSE IF p.watch = Peers!Answering THEN Peers!Clear(p, "answer")
                ELSE IF p.watch = Peers!Startup THEN p
                ELSE Peers!Done(p, t)
<1>1. peer[s] \in PeerEntry /\ Current(peer[s])
  BY SideFacts
<1>2. Follows(s, peer[s], p) /\ p \in PeerEntry
  BY <1>1, StateFollows
<1>3. peer' = [peer EXCEPT ![s] = q] /\ down' = down
  BY DEF Peers!Connected, Peers!Step
<1> HIDE DEF p, t
<1>4. Handles(s, p, q)
  BY <1>2, ClearKeeps, DoneKeeps, KeepsItself DEF Handles
<1> QED
  BY <1>2, <1>3, <1>4, HandlesKeepsInv

LEMMA ChannelOpensKeeps ==
  ASSUME LinkInv, NEW s \in {Lo, Hi}, Peers!ChannelOpens(s)
  PROVE  LinkInv'
<1> DEFINE p == peer[s]
           c == IF p.reconnecting THEN Peers!Clear(p, "giveUp") ELSE p
           d == Peers!Clear(c, "startup")
           q == IF p.exists
                THEN [d EXCEPT !.dc = p.pc, !.open = TRUE, !.reconnecting = FALSE]
                ELSE [p EXCEPT !.open = TRUE]
<1>1. p \in PeerEntry /\ down \subseteq 0..MaxPc
  BY SideFacts
<1>2. peer' = [peer EXCEPT ![s] = q] /\ down' = down
  BY DEF Peers!ChannelOpens, Peers!Opened, Peers!Step
<1> HIDE DEF p
<1>3. Keeps(s, p, c)
  BY <1>1, ClearKeeps, KeepsItself
<1>4. Keeps(s, c, d)
  BY <1>3, ClearKeeps DEF Keeps
<1>5. Keeps(s, p, d) /\ d.exists = p.exists
  <2>1. c.exists = p.exists
    BY <1>1, ClearKeeps
  <2>2. d.exists = c.exists
    BY <1>3, ClearKeeps DEF Keeps
  <2> QED
    BY <1>3, <1>4, <2>1, <2>2 DEF Keeps
<1> HIDE DEF d
<1>6. Follows(s, p, q)
  <2>1. p.pc \in Peers!Pcs
    BY <1>1, EntryFields DEF Peers!Pcs
  <2>2. CASE p.exists
    BY <1>5, <2>1, <2>2 DEF Keeps, Follows, Current, Answers, PeerEntry, Peers!PeerEntry
  <2>3. CASE ~p.exists
    BY <1>1, <2>3 DEF Follows, Current, Answers, PeerEntry, Peers!PeerEntry
  <2> QED
    BY <2>2, <2>3
<1> HIDE DEF q
<1>7. Follows(s, peer[s], q)
  BY <1>6 DEF p
<1> QED
  BY <1>1, <1>2, <1>7, FollowsKeepsInv

LEMMA NetworkDropsKeeps ==
  ASSUME LinkInv, Peers!NetworkDrops
  PROVE  LinkInv'
<1>1. /\ peer \in [{Lo, Hi} -> PeerEntry] /\ down \subseteq 0..MaxPc
      /\ LinkOf(peer[Lo], peer[Hi])
  BY LinkParts
<1>2. peer' = peer /\ down' = down \cup {peer[Lo].pc}
  BY DEF Peers!NetworkDrops
<1>3. peer[Lo].pc \in 0..MaxPc
  BY <1>1, EntryFields DEF LinkOf
<1> QED
  BY <1>1, <1>2, <1>3, LinkParts

LEMMA UnstableKeeps ==
  ASSUME LinkInv, NEW s \in {Lo, Hi}, Peers!Unstable(s)
  PROVE  LinkInv'
<1> DEFINE p == [peer[s] EXCEPT !.state = "disconnected"]
           q == IF p.watch = Peers!First /\ p.exists THEN Peers!Set(p, "grace", 0) ELSE p
<1>1. peer[s] \in PeerEntry /\ Current(peer[s])
  BY SideFacts
<1>2. Follows(s, peer[s], p) /\ p \in PeerEntry
  BY <1>1, StateFollows
<1>3. peer' = [peer EXCEPT ![s] = q] /\ down' = down
  BY DEF Peers!Unstable, Peers!Step
<1> HIDE DEF p
<1>4. Handles(s, p, q)
  <2>1. 0 \in 0..MaxAttempts
    BY PeersAssumption
  <2>2. Keeps(s, p, Peers!Set(p, "grace", 0))
    BY <1>2, <2>1, SetKeeps
  <2> QED
    BY <1>2, <2>2, KeepsItself DEF Handles
<1> QED
  BY <1>2, <1>3, <1>4, HandlesKeepsInv

LEMMA FailsKeeps ==
  ASSUME LinkInv, NEW s \in {Lo, Hi}, Peers!Fails(s)
  PROVE  LinkInv'
<1> DEFINE p == [peer[s] EXCEPT !.state = "failed"]
           n == p.watch
           d == Peers!Done(p, [kind |-> "attempt", n |-> n, held |-> TRUE])
           q == IF n = Peers!First
                THEN IF p.exists THEN Peers!HandlePeerDisconnect(s, p) ELSE p
                ELSE IF n = Peers!Answering THEN Peers!Clear(p, "answer")
                ELSE IF n = Peers!Startup THEN Peers!RetryStartup(s, p)
                ELSE Peers!RetryOrGiveUp(d, n)
<1>1. peer[s] \in PeerEntry /\ Current(peer[s])
  BY SideFacts
<1>2. Follows(s, peer[s], p) /\ p \in PeerEntry /\ p.watch = peer[s].watch
  BY <1>1, StateFollows
<1>3. peer' = [peer EXCEPT ![s] = q] /\ down' = down
  BY DEF Peers!Fails, Peers!Step
<1>4. s = Hi => n = Peers!First \/ n = Peers!Answering
  BY <1>2, LinkParts DEF LinkOf, Peers!First, Peers!Answering
<1>5. n \in 0..MaxAttempts + 2
  BY <1>2, EntryFields
<1> HIDE DEF p
<1>6. Handles(s, p, q)
  <2>1. CASE n = Peers!First
    BY <1>2, <2>1, DisconnectHandles, KeepsItself
  <2>2. CASE n # Peers!First /\ n = Peers!Answering
    BY <1>2, <2>2, ClearKeeps DEF Handles
  <2>3. CASE n # Peers!First /\ n # Peers!Answering /\ n = Peers!Startup
    BY <1>2, <2>3, RetryStartupHandles
  <2>4. CASE n # Peers!First /\ n # Peers!Answering /\ n # Peers!Startup
    <3>1. n \in 0..MaxAttempts
      BY <1>5, <2>4, PeersAssumption DEF Peers!First, Peers!Answering, Peers!Startup
    <3>2. Keeps(s, p, d) /\ d \in PeerEntry
      BY <1>2, DoneKeeps DEF Keeps
    <3>3. s = Lo
      BY <1>4, <2>4
    <3> HIDE DEF d, n
    <3>4. Handles(Lo, d, Peers!RetryOrGiveUp(d, n))
      BY <3>1, <3>2, RetryOrGiveUpHandles
    <3>5. q = Peers!RetryOrGiveUp(d, n)
      BY <2>4
    <3> QED
      BY <3>2, <3>3, <3>4, <3>5, KeepsThenHandles
  <2> QED
    BY <2>1, <2>2, <2>3, <2>4
<1> HIDE DEF q, n, d
<1> QED
  BY <1>2, <1>3, <1>6, HandlesKeepsInv

LEMMA ChannelClosesKeeps ==
  ASSUME LinkInv, NEW s \in {Lo, Hi}, NEW k, Peers!ChannelCloses(s, k)
  PROVE  LinkInv'
<1> DEFINE p == [peer[s] EXCEPT !.open = FALSE]
           q == Peers!HandlePeerDisconnect(s, p)
<1>1. peer[s] \in PeerEntry
  BY SideFacts
<1>2. Follows(s, peer[s], p) /\ p \in PeerEntry
  BY <1>1 DEF Follows, Current, Answers, PeerEntry, Peers!PeerEntry
<1>3. peer' = [peer EXCEPT ![s] = q] /\ down' = down
  BY DEF Peers!ChannelCloses, Peers!Step
<1> HIDE DEF p
<1>4. Handles(s, p, q)
  BY <1>2, DisconnectHandles
<1> QED
  BY <1>2, <1>3, <1>4, HandlesKeepsInv

LEMMA GameGoesOnKeeps ==
  ASSUME LinkInv, NEW s \in {Lo, Hi}, Peers!GameGoesOn(s)
  PROVE  LinkInv'
<1>1. peer[s] \in PeerEntry /\ Current(peer[s]) /\ down \subseteq 0..MaxPc
  BY SideFacts
<1>2. PICK ph \in {"started", "running"} :
        peer' = [peer EXCEPT ![s] = [peer[s] EXCEPT !.phase = ph]] /\ down' = down
  BY DEF Peers!GameGoesOn, Peers!Step
<1> DEFINE q == [peer[s] EXCEPT !.phase = ph]
<1>3. Follows(s, peer[s], q)
  BY <1>1 DEF Follows, Current, Answers, PeerEntry, Peers!PeerEntry
<1> QED
  BY <1>1, <1>2, <1>3, FollowsKeepsInv


LEMMA TimerFiresKeeps ==
  ASSUME LinkInv, NEW s \in {Lo, Hi}, NEW t, Peers!TimerFires(s, t)
  PROVE  LinkInv'
<1> DEFINE p == Peers!Done(peer[s], t)
           q == Peers!Expired(s, p, t)
           x == [p EXCEPT !.state = "closed", !.open = FALSE]
<1>1. peer[s] \in PeerEntry /\ Current(peer[s]) /\ t \in peer[s].timers
  BY SideFacts DEF Peers!TimerFires
<1>2. Keeps(s, peer[s], p) /\ p \in PeerEntry
  <2>1. Keeps(s, peer[s], p)
    BY <1>1, DoneKeeps
  <2> HIDE DEF p
  <2> QED
    BY <2>1 DEF Keeps
<1>4. peer' = [peer EXCEPT ![s] = q] /\ down' = down
  BY DEF Peers!TimerFires, Peers!Step
<1>3. Follows(s, peer[s], p)
  <2> HIDE DEF p
  <2> QED
    BY <1>1, <1>2 DEF Keeps, Follows, Current
<1>5. t \in Timer
  BY <1>1, EntryFields
<1>6. /\ t.kind \in {"giveUp", "grace", "attempt", "retry", "answer", "startup"}
      /\ t.n \in 0..MaxAttempts
  BY <1>5 DEF Timer, Peers!Timer
<1>7. t.kind \in {"attempt", "retry"} => s = Lo
  BY <1>1, LinkParts, PeersAssumption DEF LinkOf, Answers
<1> HIDE DEF p
<1>8. Keeps(s, p, x)
  BY <1>2 DEF Keeps, Answers, PeerEntry, Peers!PeerEntry
<1> HIDE DEF x
<1>9. Handles(s, p, q)
  <2>1. CASE t.kind = "giveUp"
    <3>1. q = IF p.exists /\ p.reconnecting THEN Peers!HardDisconnect(p) ELSE p
      BY <2>1 DEF Peers!Expired
    <3> QED
      BY <1>2, <3>1, HardDisconnectKeeps, KeepsItself DEF Handles
  <2>2. CASE t.kind = "grace"
    <3>1. q = Peers!HandlePeerDisconnect(s, p) \/ q = p
      BY <2>2 DEF Peers!Expired
    <3> QED
      BY <1>2, <3>1, DisconnectHandles, KeepsItself
  <2>3. CASE t.kind = "attempt"
    <3>1. q = Peers!RetryOrGiveUp(p, t.n) \/ q = p
      BY <2>3 DEF Peers!Expired
    <3> QED
      BY <1>2, <1>6, <1>7, <2>3, <3>1, RetryOrGiveUpHandles, KeepsItself
  <2>4. CASE t.kind = "retry"
    <3>1. q = Peers!AttemptReconnect(p, t.n)
      BY <2>4 DEF Peers!Expired
    <3> QED
      BY <1>2, <1>6, <1>7, <2>4, <3>1, AttemptHandles
  <2>5. CASE t.kind = "startup"
    <3>1. q = Peers!RetryStartup(s, p)
      BY <2>5 DEF Peers!Expired
    <3> QED
      BY <1>2, <3>1, RetryStartupHandles
  <2>6. CASE t.kind = "answer"
    <3>1. q = x \/ q = p
      BY <2>6 DEF Peers!Expired, x
    <3> QED
      BY <1>2, <1>8, <3>1, KeepsItself DEF Handles
  <2> QED
    BY <1>6, <2>1, <2>2, <2>3, <2>4, <2>5, <2>6
<1> HIDE DEF q
<1> QED
  BY <1>3, <1>4, <1>9, HandlesKeepsInv

LEMMA PeersNext ==
  LinkInv /\ Peers!Next => LinkInv'
<1> SUFFICES ASSUME LinkInv, Peers!Next
             PROVE  LinkInv'
  OBVIOUS
<1>1. CASE Peers!ReceiveOffer \/ Peers!ReceiveAnswer \/ Peers!NetworkDrops
  BY <1>1, ReceiveOfferKeeps, ReceiveAnswerKeeps, NetworkDropsKeeps
<1>2. ASSUME NEW s \in {Lo, Hi},
             \/ Peers!SignalLost(s) \/ Peers!Connected(s) \/ Peers!ChannelOpens(s)
             \/ Peers!Unstable(s) \/ Peers!Fails(s) \/ Peers!GameGoesOn(s)
             \/ \E k \in Peers!Pcs : Peers!ChannelCloses(s, k)
             \/ \E t \in Timer : Peers!TimerFires(s, t)
      PROVE  LinkInv'
  BY <1>2, SignalLostKeeps, ConnectedKeeps, ChannelOpensKeeps, UnstableKeeps, FailsKeeps,
     GameGoesOnKeeps, ChannelClosesKeeps, TimerFiresKeeps
<1> QED
  BY <1>1, <1>2 DEF Peers!Next, Peers!Sides, Timer

LEMMA PeersInit ==
  Peers!Init => LinkInv
<1> SUFFICES ASSUME Peers!Init
             PROVE  LinkInv
  OBVIOUS
<1> DEFINE b == [exists |-> TRUE, reconnecting |-> FALSE, pc |-> 0, remote |-> 0, state |-> "new",
                 dc |-> 0, open |-> FALSE, watch |-> Peers!First, phase |-> "starting", tries |-> 0,
                 timers |-> {}, out |-> <<>>, made |-> 0]
           v == [b EXCEPT !.pc = 1, !.tries = 1]
           o == Peers!Offering(v, 1, "first")
           a == Peers!Set(o, "startup", 0)
           f == [pc |-> 1, kind |-> "first"]
           l == <<f>>
<1>1. peer = [s \in {Lo, Hi} |-> IF s = Hi THEN b ELSE a] /\ down = {}
  BY DEF Peers!Init, Peers!Sides
<1>2. /\ Peers!First \in Peers!First..Peers!Startup /\ 0 \in Peers!Pcs /\ 1 \in Peers!Pcs
      /\ 0 \in 0..MaxStartup /\ 1 \in 0..MaxStartup /\ 0 \in 0..MaxAttempts
  BY PeersAssumption DEF Peers!First, Peers!Startup, Peers!Pcs
<1>3. f \in Offer /\ f.pc = 1
  BY <1>2 DEF Offer, Peers!Offer
<1> HIDE DEF f
<1>4. l \in Seq(Offer) /\ l[1] = f /\ DOMAIN l = {1} /\ l = Append(<<>>, f) /\ <<>> \in Seq(Offer)
  BY <1>3
<1> HIDE DEF l
<1>5. b \in PeerEntry
  BY <1>2, <1>4 DEF PeerEntry, Timer, Offer, Peers!PeerEntry
<1>6. /\ b.pc = 0 /\ ~b.open /\ b.watch = 0 /\ b.timers = {} /\ b.out = <<>>
  BY DEF Peers!First
<1> HIDE DEF b
<1>7. v \in PeerEntry /\ v.pc = 1 /\ ~v.open /\ v.out = <<>>
  BY <1>2, <1>5, <1>6 DEF PeerEntry, Peers!PeerEntry
<1> HIDE DEF v
<1>8. o = [v EXCEPT !.made = 1, !.dc = 1, !.out = l]
  BY <1>4, <1>7 DEF Peers!Offering, f
<1>9. o \in PeerEntry /\ o.pc = 1 /\ o.made = 1 /\ o.out = l /\ ~o.open
  BY <1>2, <1>4, <1>7, <1>8 DEF PeerEntry, Offer, Peers!PeerEntry
<1> HIDE DEF o
<1>10. Keeps(Lo, o, a)
  BY <1>2, <1>9, SetKeeps, PeersAssumption
<1> HIDE DEF a
<1>11. LinkOf(a, b)
  BY <1>3, <1>4, <1>5, <1>6, <1>9, <1>10 DEF Keeps, LinkOf, Current, Answers
<1>12. /\ peer \in [{Lo, Hi} -> PeerEntry] /\ down \subseteq 0..MaxPc
       /\ peer[Lo] = a /\ peer[Hi] = b
  BY <1>1, <1>5, <1>10, PeersAssumption DEF Keeps
<1> QED
  BY <1>11, <1>12, LinkParts

(***************************************************************************)
(* A connection that works.                                                *)
(***************************************************************************)

LEMMA WorkingFacts ==
  ASSUME LinkInv, Peers!Working, NEW s \in {Lo, Hi}
  PROVE  /\ peer \in [{Lo, Hi} -> PeerEntry] /\ peer[s] \in PeerEntry
         /\ peer[s].exists /\ peer[s].open /\ peer[s].state = "connected" /\ ~peer[s].reconnecting
         /\ peer[s].dc = peer[s].pc /\ peer[s].pc = peer[Peers!Other(s)].pc
         /\ peer[s].pc \notin down /\ peer[s].pc \in Nat /\ peer[Peers!Other(s)].state = "connected"
         /\ peer[Lo].out = <<>> /\ Peers!LinkUp
<1>1. /\ Peers!LinkUp /\ peer[Lo].pc = peer[Hi].pc /\ peer[Lo].pc \notin down
      /\ \A t \in {Lo, Hi} : /\ peer[t].exists /\ peer[t].open /\ peer[t].state = "connected"
                             /\ ~peer[t].reconnecting
  BY DEF Peers!Working, Peers!LinkUp, Peers!Sides
<1>2. peer \in [{Lo, Hi} -> PeerEntry] /\ LinkOf(peer[Lo], peer[Hi])
  BY LinkParts
<1>3. Peers!Other(s) \in {Lo, Hi} /\ peer[s].pc = peer[Peers!Other(s)].pc
  BY <1>1 DEF Peers!Other
<1>4. peer[s] \in PeerEntry /\ peer[Lo] \in PeerEntry /\ peer[s].dc = peer[s].pc
  BY <1>1, <1>2 DEF LinkOf, Current
<1>5. peer[s].pc \in Nat /\ peer[Lo].pc \in Nat /\ peer[Lo].out \in Seq(Offer)
  BY <1>4, EntryFields, PeersAssumption
<1>6. peer[Lo].out = <<>>
  <2> DEFINE o == peer[Lo].out
  <2> SUFFICES ASSUME o # <<>> PROVE FALSE
    OBVIOUS
  <2>1. 1 \in DOMAIN o
    BY <1>5, HeadAndTail
  <2>2. o[1].pc \in (peer[Hi].pc + 1)..peer[Lo].made /\ peer[Lo].made = peer[Lo].pc
    BY <1>2, <2>1 DEF LinkOf
  <2>3. o[1].pc \in (peer[Lo].pc + 1)..peer[Lo].pc
    BY <2>2, <1>1
  <2> QED
    BY <2>3, <1>5
<1> QED
  BY <1>1, <1>2, <1>3, <1>4, <1>5, <1>6

LEMMA OneSideKept ==
  ASSUME LinkInv, Peers!Working, NEW s \in {Lo, Hi}, NEW q \in PeerEntry,
         q.exists = peer[s].exists, q.pc = peer[s].pc, q.state = peer[s].state,
         peer' = [peer EXCEPT ![s] = q]
  PROVE  \A t \in {Lo, Hi} :
           peer'[t].exists /\ peer'[t].pc = peer[t].pc /\ peer'[t].state # "closed"
<1>1. \A t \in {Lo, Hi} : peer[t].exists /\ peer[t].state = "connected"
  BY WorkingFacts
<1>2. peer \in [{Lo, Hi} -> PeerEntry]
  BY WorkingFacts
<1>3. peer'[s] = q /\ \A t \in {Lo, Hi} : t # s => peer'[t] = peer[t]
  BY <1>2
<1> QED
  BY <1>1, <1>3

LEMMA PeersKeepLink ==
  LinkInv /\ Peers!Next => Peers!KeepsWorkingLink
<1> SUFFICES ASSUME LinkInv, Peers!Next, Peers!Working, down' = down
             PROVE  \A t \in {Lo, Hi} :
                      peer'[t].exists /\ peer'[t].pc = peer[t].pc /\ peer'[t].state # "closed"
  BY DEF Peers!KeepsWorkingLink, Peers!Sides
<1> DEFINE Kept == \A t \in {Lo, Hi} :
                     peer'[t].exists /\ peer'[t].pc = peer[t].pc /\ peer'[t].state # "closed"
<1>1. CASE Peers!ReceiveOffer
  <2>1. peer[Lo].out # <<>>
    BY <1>1, PeersAssumption DEF Peers!ReceiveOffer, Peers!Received, Peers!Other
  <2> QED
    BY <2>1, WorkingFacts
<1>2. CASE Peers!ReceiveAnswer
  <2> DEFINE h == Peers!Heard(peer[Hi])
  <2>1. peer[Lo].state = "connected" /\ peer[Hi] \in PeerEntry /\ peer[Lo] \in PeerEntry
        /\ peer \in [{Lo, Hi} -> PeerEntry]
    BY WorkingFacts
  <2>2. peer[Hi].out # <<>> /\ peer' = [peer EXCEPT ![Lo] = peer[Lo], ![Hi] = h]
    BY <1>2, <2>1, PeersAssumption DEF Peers!ReceiveAnswer, Peers!Received, Peers!Other
  <2>3. /\ h \in PeerEntry /\ h.exists = peer[Hi].exists /\ h.pc = peer[Hi].pc
        /\ h.state = peer[Hi].state
    BY <2>1, <2>2, HeardFields
  <2> HIDE DEF h
  <2>4. peer' = [peer EXCEPT ![Hi] = h]
    BY <2>1, <2>2
  <2> QED
    BY <2>3, <2>4, OneSideKept
<1>3. CASE Peers!NetworkDrops
  <2>1. peer[Lo].pc \in down'
    BY <1>3 DEF Peers!NetworkDrops
  <2> QED
    BY <2>1, WorkingFacts
<1>4. ASSUME NEW s \in {Lo, Hi}, Peers!SignalLost(s)
      PROVE  Kept
  <2> DEFINE h == Peers!Heard(peer[s])
  <2>1. peer[s].out # <<>> /\ peer' = [peer EXCEPT ![s] = h] /\ peer[s] \in PeerEntry
    BY <1>4, WorkingFacts DEF Peers!SignalLost, Peers!Step
  <2>2. h \in PeerEntry /\ h.exists = peer[s].exists /\ h.pc = peer[s].pc /\ h.state = peer[s].state
    BY <2>1, HeardFields
  <2> HIDE DEF h
  <2> QED
    BY <2>1, <2>2, OneSideKept
<1>5. ASSUME NEW s \in {Lo, Hi},
             Peers!Connected(s) \/ Peers!ChannelOpens(s) \/ Peers!Unstable(s) \/ Peers!Fails(s)
      PROVE  Kept
  BY <1>5, WorkingFacts DEF Peers!Connected, Peers!ChannelOpens, Peers!Unstable, Peers!Fails
<1>6. ASSUME NEW s \in {Lo, Hi}, Peers!GameGoesOn(s)
      PROVE  Kept
  <2>1. PICK ph \in {"started", "running"} : peer' = [peer EXCEPT ![s] = [peer[s] EXCEPT !.phase = ph]]
    BY <1>6 DEF Peers!GameGoesOn, Peers!Step
  <2> DEFINE q == [peer[s] EXCEPT !.phase = ph]
  <2>2. q \in PeerEntry /\ q.exists = peer[s].exists /\ q.pc = peer[s].pc /\ q.state = peer[s].state
    BY WorkingFacts DEF PeerEntry, Peers!PeerEntry
  <2> QED
    BY <2>1, <2>2, OneSideKept
<1>7. ASSUME NEW s \in {Lo, Hi}, NEW k \in Peers!Pcs, Peers!ChannelCloses(s, k)
      PROVE  Kept
  <2>1. peer[s].dc = k /\ Peers!Broken(s, k)
    BY <1>7 DEF Peers!ChannelCloses, Peers!CurrentChannel
  <2>2. peer[s].pc = k /\ peer[Peers!Other(s)].pc = k /\ k \notin down /\ k \in Nat
        /\ peer[Peers!Other(s)].state = "connected"
    BY <2>1, WorkingFacts
  <2> QED
    BY <2>1, <2>2 DEF Peers!Broken
<1>8. ASSUME NEW s \in {Lo, Hi}, NEW t, Peers!TimerFires(s, t)
      PROVE  Kept
  <2> DEFINE p == Peers!Done(peer[s], t)
  <2>1. /\ peer[s] \in PeerEntry /\ peer[s].exists /\ peer[s].open /\ peer[s].state = "connected"
        /\ ~peer[s].reconnecting
    BY WorkingFacts
  <2>2. Keeps(s, peer[s], p) /\ p.exists = peer[s].exists /\ p.reconnecting = peer[s].reconnecting
        /\ p.open = peer[s].open /\ p.state = peer[s].state
    <3>1. peer[s] \in PeerEntry
      BY <2>1
    <3> QED
      BY <3>1, DoneKeeps
  <2>3. peer' = [peer EXCEPT ![s] = Peers!Expired(s, p, t)] /\ t \in peer[s].timers
    BY <1>8 DEF Peers!TimerFires, Peers!Step
  <2>4. t.kind \in {"giveUp", "grace", "attempt", "retry", "answer", "startup"}
    BY <2>1, <2>3, EntryFields DEF Timer, Peers!Timer
  <2> HIDE DEF p
  <2>5. Peers!RetryStartup(s, p) = p /\ Peers!AttemptReconnect(p, t.n) = p
    BY <2>1, <2>2 DEF Peers!RetryStartup, Peers!AttemptReconnect
  <2>6. Peers!Expired(s, p, t) = p
    BY <2>1, <2>2, <2>4, <2>5 DEF Peers!Expired
  <2> QED
    BY <2>2, <2>3, <2>6, OneSideKept DEF Keeps
<1> QED
  BY <1>1, <1>2, <1>3, <1>4, <1>5, <1>6, <1>7, <1>8 DEF Peers!Next, Peers!Sides

(***************************************************************************)
(* The theorems, of whichever of the two a behaviour is.                   *)
(***************************************************************************)

LEMMA LinksInit == MCInit => LinksSound
BY CoordInit, PeersInit DEF MCInit, LinksSound, LinkInv, CoordInv

LEMMA LinksNext == LinksSound /\ [MCNext]_allVars => LinksSound'
<1> SUFFICES ASSUME LinksSound, [MCNext]_allVars
             PROVE  LinksSound'
  OBVIOUS
<1>1. CASE OfPeers(Peers!Next)
  BY <1>1, PeersNext DEF OfPeers, LinksSound, LinkInv
<1>2. CASE OfCoord(Coord!Next)
  BY <1>2, CoordNext DEF OfCoord, LinksSound, CoordInv
<1>3. CASE UNCHANGED allVars
  <2>1. part = "peers" => LinkInv'
    <3>1. UNCHANGED <<peer, down>>
      BY <1>3 DEF allVars, peerVars
    <3> QED
      BY <3>1, LinkParts DEF LinksSound, LinkInv
  <2>2. part = "coord" => Coord!PushInv' /\ Coord!QueueSound'
    <3> SUFFICES ASSUME part = "coord"
                 PROVE  CoordInv'
      BY DEF CoordInv
    <3>1. CoordInv /\ Coord!TypeOK
      BY DEF LinksSound, CoordInv, Coord!PushInv
    <3>2. Coord!TypeOK'
      BY <1>3, <3>1 DEF allVars, coordVars, Coord!TypeOK
    <3> QED
      BY <1>3, <3>1, <3>2, QuietKeeps DEF allVars, coordVars
  <2> QED
    BY <1>3, <2>1, <2>2 DEF allVars, LinksSound, LinkInv
<1> QED
  BY <1>1, <1>2, <1>3 DEF MCNext

(* Whichever of the two a behaviour is: offers arrive in the order of the    *)
(* connections and a live channel is never that of an older one; no         *)
(* accepted request for a resync is forgotten, served twice at a time or    *)
(* left from an older session.                                             *)
THEOREM LinksStaySound == MCSpec => []LinksSound
<1>1. MCSpec => MCInit /\ [][MCNext]_allVars
  BY DEF MCSpec
<1> QED
  BY <1>1, LinksInit, LinksNext, PTL

(* What an older connection left behind, its close event, its timers and    *)
(* its signals under way, never tears down the one that works.             *)
THEOREM NothingOldEndsTheLink == MCSpec => WorkingLinkKept
<1> DEFINE Keeping == part = "peers" => Peers!KeepsWorkingLink
<1>1. LinksSound /\ [MCNext]_allVars => [Keeping]_allVars
  <2> SUFFICES ASSUME LinksSound, MCNext
               PROVE  Keeping
    OBVIOUS
  <2> QED
    BY PeersKeepLink DEF MCNext, OfPeers, OfCoord, LinksSound, LinkInv
<1>2. MCSpec => MCInit /\ [][MCNext]_allVars
  BY DEF MCSpec
<1> QED
  BY <1>1, <1>2, LinksStaySound, PTL DEF WorkingLinkKept


=============================================================================
