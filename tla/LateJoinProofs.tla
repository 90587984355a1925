---------------------------- MODULE LateJoinProofs ----------------------------
(***************************************************************************)
(* Joining a match that runs, for every number of guests and joiners.        *)
(*                                                                         *)
(* Rosters: the host's roster leaves out whoever it holds back, and it holds *)
(* back every joiner it is connected to who does not run.  What others hold  *)
(* is a roster the host sent.                                              *)
(*                                                                         *)
(* Starting frame: a joiner's request, its transfer and its load exclude each *)
(* other, and as long as nobody has joined nobody sends what would end the   *)
(* host's pause.                                                           *)
(***************************************************************************)
EXTENDS LateJoin, TLAPS

(***************************************************************************)
(* The invariant.                                                          *)
(***************************************************************************)

Worlds == [pl : [Players -> Player], ch : [Players -> [Players -> Seq(Message)]]]

(* Only joiners who run announce themselves.                                *)
Said(w) ==
  /\ \A p, q \in Players : \A i \in DOMAIN w.ch[p][q] :
       w.ch[p][q][i].type = "ready" => p \in Joiners /\ w.pl[p].on
  /\ \A j \in w.pl[Host].ready : j \in Joiners /\ w.pl[j].on

(* The joiners among some players run.                                      *)
Run(w, S) == \A j \in S \cap Joiners : w.pl[j].on

Sound(w) ==
  /\ w.pl[Host].on /\ ~w.pl[Host].late
  /\ \A p \in Running : Run(w, w.pl[p].roster)
  /\ \A p, q \in Players : \A i \in DOMAIN w.ch[p][q] : Run(w, w.ch[p][q][i].slots)
  /\ Run(w, w.pl[Host].peers \ w.pl[Host].pending)

(* Nothing is on its way that ends a pause.                                 *)
Quiet(w) ==
  \A p, q \in Players : \A i \in DOMAIN w.ch[p][q] : w.ch[p][q][i].type \notin {"resume", "ready"}

SaidInv ==
  /\ Said(World)
  /\ \A m \in socket : m.type = "ready" => player[m.from].on

RosterInv == "send" \notin lost => Sound(World)

Requests == {m \in socket : m.type = "request"}
States   == {m \in socket : m.type = "state"}
Moving   == sending \cup loading \cup States

(* Every joiner asks once, and its request becomes one transfer.              *)
OnceInv ==
  /\ \A j \in Joiners : player[j].on => player[j].asked
  /\ \A t \in Moving : player[t.to].asked
  /\ \A m \in Requests : player[m.from].asked
  /\ \A s, t \in sending : s.to = t.to => s = t
  /\ \A s, t \in loading : s.to = t.to => s = t
  /\ \A s, t \in States : s.to = t.to => s = t
  /\ \A s, t \in Requests : s.from = t.from => s = t
  /\ \A s \in sending : \A t \in loading \cup States : s.to # t.to
  /\ \A s \in loading : \A t \in States : s.to # t.to
  /\ \A s \in Moving : \A m \in Requests : s.to # m.from

Nobody  == late = {} /\ \A j \in Joiners : ~player[j].on
OneAsks == \A j, k \in Joiners : player[j].asked /\ player[k].asked => j = k

QuietInv  == Nobody => Quiet(World)
FrozenInv == Nobody /\ OneAsks =>
               \A t \in Moving : player[Host].paused /\ t.frame = player[Host].frame

Inv == TypeOK /\ SaidInv /\ RosterInv /\ OnceInv /\ QuietInv /\ FrozenInv

(***************************************************************************)
(* Handlers.                                                               *)
(***************************************************************************)

(* What no handler changes but those that ask, load and count frames.        *)
Same(w, v) ==
  \A k \in Players :
    /\ (v.pl[k].on <=> w.pl[k].on) /\ (v.pl[k].asked <=> w.pl[k].asked)
    /\ v.pl[k].frame = w.pl[k].frame /\ (v.pl[k].late => w.pl[k].late)

Moves(w, v) == v \in Worlds /\ Same(w, v) /\ (Said(w) => Said(v))
Steps(w, v) == Moves(w, v) /\ (Sound(w) => Sound(v))

(* It does not end the host's pause, nor make others do so.                   *)
Calm(w, v) == (Quiet(w) => Quiet(v)) /\ (w.pl[Host].paused => v.pl[Host].paused)

LEMMA Parts == Host \in Players /\ Host \in Running /\ Running \subseteq Players
               /\ Joiners \subseteq Players /\ Running \cap Joiners = {}
               /\ 0 \in Frames /\ MaxReady \in Nat \ {0}
  BY LateJoinAssumption DEF Running, Players, Frames

LEMMA WorldFields ==
  ASSUME NEW w \in Worlds
  PROVE  /\ w.pl \in [Players -> Player] /\ w.ch \in [Players -> [Players -> Seq(Message)]]
         /\ \A k \in Players : w.pl[k] \in Player
         /\ \A p, q \in Players : w.ch[p][q] \in Seq(Message)
         /\ w = [pl |-> w.pl, ch |-> w.ch]
  BY DEF Worlds

LEMMA StepsTrans ==
  ASSUME NEW u, NEW v, NEW w, Steps(u, v), Steps(v, w) PROVE Steps(u, w)
  <1>1. Same(u, w)  BY DEF Steps, Moves, Same
  <1> QED  BY <1>1 DEF Steps, Moves

LEMMA CalmTrans ==
  ASSUME NEW u, NEW v, NEW w, Calm(u, v), Calm(v, w) PROVE Calm(u, w)
  BY DEF Calm

LEMMA StepsSelf ==
  ASSUME NEW w \in Worlds PROVE Steps(w, w) /\ Calm(w, w)
  BY DEF Steps, Moves, Same, Calm

(* A player changes.                                                        *)
PutRuns(w, p, s) ==
  /\ (s.on <=> w.pl[p].on) /\ (s.asked <=> w.pl[p].asked)
  /\ s.frame = w.pl[p].frame /\ (s.late => w.pl[p].late)
PutSaid(w, p, s) == p = Host => \A j \in s.ready \ w.pl[p].ready : j \in Joiners /\ w.pl[j].on
PutSound(w, p, s) ==
  Sound(w) => /\ p \in Running => Run(w, s.roster)
              /\ p = Host => Run(w, s.peers \ s.pending)

LEMMA PutIs ==
  ASSUME NEW w \in Worlds, NEW p \in Players, NEW s \in Player
  PROVE  /\ Put(w, p, s) \in Worlds /\ Put(w, p, s).ch = w.ch
         /\ \A k \in Players : Put(w, p, s).pl[k] = IF k = p THEN s ELSE w.pl[k]
  BY DEF Put, Worlds

LEMMA PutSteps ==
  ASSUME NEW w \in Worlds, NEW p \in Players, NEW s \in Player, NEW v, v = Put(w, p, s),
         PutRuns(w, p, s), PutSaid(w, p, s)
  PROVE  Moves(w, v) /\ (PutSound(w, p, s) => Steps(w, v)) /\ ((p = Host => (w.pl[p].paused => s.paused)) => Calm(w, v))
  <1>1. /\ v \in Worlds /\ v.ch = w.ch
        /\ \A k \in Players : v.pl[k] = IF k = p THEN s ELSE w.pl[k]
    BY PutIs
  <1>2. Same(w, v)
    <2> SUFFICES ASSUME NEW k \in Players
                 PROVE /\ (v.pl[k].on <=> w.pl[k].on) /\ (v.pl[k].asked <=> w.pl[k].asked)
                       /\ v.pl[k].frame = w.pl[k].frame /\ (v.pl[k].late => w.pl[k].late)
      BY DEF Same
    <2> CASE k = p  BY <1>1 DEF PutRuns
    <2> CASE k # p  BY <1>1
    <2> QED  OBVIOUS
  <1>3. \A S : Run(w, S) => Run(v, S)
    BY <1>2, Parts DEF Run, Same
  <1>4. ASSUME Said(w) PROVE Said(v)
    <2>1. \A a, b \in Players : \A i \in DOMAIN v.ch[a][b] :
            v.ch[a][b][i].type = "ready" => a \in Joiners /\ v.pl[a].on
      BY <1>1, <1>2, <1>4 DEF Said, Same
    <2>2. ASSUME NEW j \in v.pl[Host].ready PROVE j \in Joiners /\ v.pl[j].on
      <3>1. j \in Joiners /\ w.pl[j].on
        BY <1>1, <1>4, <2>2, Parts DEF Said, PutSaid
      <3> QED  BY <3>1, <1>2, Parts DEF Same
    <2> QED  BY <2>1, <2>2 DEF Said
  <1>5. ASSUME Sound(w), PutSound(w, p, s) PROVE Sound(v)
    <2>1. v.pl[Host].on /\ ~v.pl[Host].late
      BY <1>2, <1>5, Parts DEF Sound, Same
    <2>2. ASSUME NEW r \in Running PROVE Run(v, v.pl[r].roster)
      <3> CASE r = p  BY <1>1, <1>3, <1>5, Parts DEF PutSound
      <3> CASE r # p  BY <1>1, <1>3, <1>5, Parts DEF Sound
      <3> QED  OBVIOUS
    <2>3. \A a, b \in Players : \A i \in DOMAIN v.ch[a][b] : Run(v, v.ch[a][b][i].slots)
      BY <1>1, <1>3, <1>5 DEF Sound
    <2>4. Run(v, v.pl[Host].peers \ v.pl[Host].pending)
      <3> CASE p = Host  BY <1>1, <1>3, <1>5, Parts DEF PutSound
      <3> CASE p # Host  BY <1>1, <1>3, <1>5, Parts DEF Sound
      <3> QED  OBVIOUS
    <2> QED  BY <2>1, <2>2, <2>3, <2>4 DEF Sound
  <1>6. ASSUME p = Host => (w.pl[p].paused => s.paused) PROVE Calm(w, v)
    <2>1. Quiet(w) => Quiet(v)  BY <1>1 DEF Quiet
    <2>2. w.pl[Host].paused => v.pl[Host].paused
      <3> CASE p = Host  BY <1>1, <1>6, Parts
      <3> CASE p # Host  BY <1>1, <1>6, Parts
      <3> QED  OBVIOUS
    <2> QED  BY <2>1, <2>2 DEF Calm
  <1> QED  BY <1>1, <1>2, <1>4, <1>5, <1>6 DEF Steps, Moves

LEMMA PlainType ==
  /\ \A t \in {"pause", "resume", "ready"} : Plain(t) \in Message /\ Plain(t).type = t /\ Plain(t).slots = {}
  /\ \A S \in SUBSET Players : [type |-> "roster", slots |-> S] \in Message
  BY DEF Plain, Message

(* A message goes out to some.                                              *)
LEMMA SendIs ==
  ASSUME NEW w \in Worlds, NEW p \in Players, NEW to, NEW m \in Message, NEW v, v = Send(w, p, to, m)
  PROVE  /\ v \in Worlds /\ v.pl = w.pl
         /\ \A a, b \in Players : v.ch[a][b] = w.ch[a][b] \/ (a = p /\ v.ch[a][b] = Append(w.ch[a][b], m))
  <1> DEFINE c == [q \in Players |-> IF q \in to \cap w.pl[p].open THEN Append(w.ch[p][q], m) ELSE w.ch[p][q]]
  <1>1. v = [w EXCEPT !.ch[p] = c]  BY DEF Send
  <1>2. c \in [Players -> Seq(Message)]  BY WorldFields
  <1>3. \A q \in Players : c[q] = w.ch[p][q] \/ c[q] = Append(w.ch[p][q], m)  OBVIOUS
  <1> HIDE DEF c
  <1>4. v \in Worlds /\ v.pl = w.pl /\ v.ch = [w.ch EXCEPT ![p] = c]
    BY <1>1, <1>2 DEF Worlds
  <1> QED  BY <1>3, <1>4, WorldFields

LEMMA AppendedHas ==
  ASSUME NEW c \in Seq(Message), NEW m \in Message, NEW i \in DOMAIN Append(c, m)
  PROVE  (i \in DOMAIN c /\ Append(c, m)[i] = c[i]) \/ Append(c, m)[i] = m
  OBVIOUS

LEMMA GrowSteps ==
  ASSUME NEW w \in Worlds, NEW p \in Players, NEW m \in Message, NEW v \in Worlds, v.pl = w.pl,
         \A a, b \in Players : v.ch[a][b] = w.ch[a][b] \/ (a = p /\ v.ch[a][b] = Append(w.ch[a][b], m)),
         m.type = "ready" => p \in Joiners /\ w.pl[p].on,
         Sound(w) => Run(w, m.slots)
  PROVE  Steps(w, v) /\ (m.type \notin {"resume", "ready"} => Calm(w, v))
  <1>1. /\ v \in Worlds /\ v.pl = w.pl
        /\ \A a, b \in Players : v.ch[a][b] = w.ch[a][b] \/ (a = p /\ v.ch[a][b] = Append(w.ch[a][b], m))
    OBVIOUS
  <1>2. \A a, b \in Players : \A i \in DOMAIN v.ch[a][b] :
          (i \in DOMAIN w.ch[a][b] /\ v.ch[a][b][i] = w.ch[a][b][i]) \/ (a = p /\ v.ch[a][b][i] = m)
    <2> SUFFICES ASSUME NEW a \in Players, NEW b \in Players, NEW i \in DOMAIN v.ch[a][b]
                 PROVE (i \in DOMAIN w.ch[a][b] /\ v.ch[a][b][i] = w.ch[a][b][i]) \/ (a = p /\ v.ch[a][b][i] = m)
      OBVIOUS
    <2>1. w.ch[a][b] \in Seq(Message)  BY WorldFields
    <2> CASE v.ch[a][b] = w.ch[a][b]  OBVIOUS
    <2> CASE a = p /\ v.ch[a][b] = Append(w.ch[a][b], m)
      BY <2>1, AppendedHas
    <2> QED  BY <1>1
  <1>3. Same(w, v) /\ \A S : Run(v, S) <=> Run(w, S)
    BY <1>1 DEF Same, Run
  <1>4. Said(w) => Said(v)
    BY <1>1, <1>2 DEF Said
  <1>5. Sound(w) => Sound(v)
    BY <1>1, <1>2, <1>3 DEF Sound
  <1>6. m.type \notin {"resume", "ready"} => Calm(w, v)
    BY <1>1, <1>2 DEF Calm, Quiet
  <1> QED  BY <1>1, <1>3, <1>4, <1>5, <1>6 DEF Steps, Moves

LEMMA SendSteps ==
  ASSUME NEW w \in Worlds, NEW p \in Players, NEW to, NEW m \in Message, NEW v, v = Send(w, p, to, m),
         m.type = "ready" => p \in Joiners /\ w.pl[p].on,
         Sound(w) => Run(w, m.slots)
  PROVE  Steps(w, v) /\ v.pl = w.pl /\ (m.type \notin {"resume", "ready"} => Calm(w, v))
  BY SendIs, GrowSteps

(***************************************************************************)
(* The handlers of a join.                                                 *)
(***************************************************************************)

LEMMA RosterSteps ==
  ASSUME NEW w \in Worlds, NEW p \in Players, NEW v, v = BroadcastRoster(w, p)
  PROVE  Steps(w, v) /\ Calm(w, v)
  <1> CASE p # Host  BY StepsSelf DEF BroadcastRoster
  <1> CASE p = Host
    <2> DEFINE r == RosterOf(w.pl[p], p)
               s == [w.pl[p] EXCEPT !.roster = r]
               u == Put(w, p, s)
               m == [type |-> "roster", slots |-> r]
               to == Players \ w.pl[p].pending
    <2>1. v = Send(u, p, to, m)  BY DEF BroadcastRoster
    <2>2. w.pl[p] \in Player  BY WorldFields
    <2>3. r = {p} \cup (w.pl[p].peers \ w.pl[p].pending)  BY DEF RosterOf
    <2>4. r \in SUBSET Players  BY <2>2, <2>3 DEF Player
    <2> HIDE DEF r
    <2>5. m \in Message /\ m.type = "roster" /\ m.slots = r  BY <2>4, PlainType
    <2>6. /\ s \in Player /\ s.roster = r /\ s.on = w.pl[p].on /\ s.asked = w.pl[p].asked
          /\ s.frame = w.pl[p].frame /\ s.late = w.pl[p].late /\ s.paused = w.pl[p].paused
          /\ s.ready = w.pl[p].ready /\ s.peers = w.pl[p].peers /\ s.pending = w.pl[p].pending
      BY <2>2, <2>4 DEF Player
    <2> HIDE DEF s, m, to
    <2>7. Sound(w) => Run(w, r)
      BY <2>3, Parts DEF Sound, Run
    <2>8. PutRuns(w, p, s) /\ PutSaid(w, p, s) /\ PutSound(w, p, s)
      <3>1. PutRuns(w, p, s)  BY <2>6 DEF PutRuns
      <3>2. PutSaid(w, p, s)  BY <2>6 DEF PutSaid
      <3>3. PutSound(w, p, s)  BY <2>6, <2>7 DEF PutSound, Sound
      <3> QED  BY <3>1, <3>2, <3>3
    <2>9. Steps(w, u) /\ Calm(w, u)  BY <2>6, <2>8, PutSteps
    <2>10. u \in Worlds /\ (Run(w, r) => Run(u, r))
      BY <2>9, Parts DEF Steps, Moves, Same, Run
    <2> HIDE DEF u
    <2>11. Steps(u, v) /\ Calm(u, v)
      <3>1. Sound(u) => Run(u, m.slots)
        <4> SUFFICES ASSUME Sound(u), NEW j \in r \cap Joiners PROVE u.pl[j].on
          BY <2>5 DEF Run
        <4>1. u.pl[p].peers = w.pl[p].peers /\ u.pl[p].pending = w.pl[p].pending
          BY <2>6, PutIs DEF u
        <4> QED  BY <4>1, <2>3, Parts DEF Sound, Run
      <3> QED  BY <2>1, <2>5, <2>10, <3>1, SendSteps
    <2> QED  BY <2>9, <2>11, StepsTrans, CalmTrans
  <1> QED  OBVIOUS

LEMMA ResumeSteps ==
  ASSUME NEW w \in Worlds, NEW p \in Players, NEW b \in BOOLEAN, NEW v, v = Resume(w, p, b)
  PROVE  Steps(w, v)
  <1> DEFINE s == [w.pl[p] EXCEPT !.paused = FALSE]
             u == Put(w, p, s)
             x == IF b THEN BroadcastRoster(u, p) ELSE u
  <1>1. v = Send(x, p, Players, Plain("resume"))  BY DEF Resume
  <1>2. w.pl[p] \in Player  BY WorldFields
  <1>3. /\ s \in Player /\ s.on = w.pl[p].on /\ s.asked = w.pl[p].asked
        /\ s.frame = w.pl[p].frame /\ s.late = w.pl[p].late /\ s.roster = w.pl[p].roster
        /\ s.ready = w.pl[p].ready /\ s.peers = w.pl[p].peers /\ s.pending = w.pl[p].pending
    BY <1>2 DEF Player
  <1> HIDE DEF s
  <1>4. PutRuns(w, p, s)  BY <1>3 DEF PutRuns
  <1>5. PutSaid(w, p, s)  BY <1>3 DEF PutSaid
  <1>6. PutSound(w, p, s)  BY <1>3 DEF PutSound, Sound
  <1>7. Steps(w, u)  BY <1>3, <1>4, <1>5, <1>6, PutSteps
  <1>8. u \in Worlds  BY <1>7 DEF Steps, Moves
  <1> HIDE DEF u
  <1>9. Steps(u, x)
    <2>1. Steps(u, u)  BY <1>8, StepsSelf
    <2>2. Steps(u, BroadcastRoster(u, p))  BY <1>8, RosterSteps
    <2> QED  BY <2>1, <2>2
  <1>10. x \in Worlds  BY <1>9 DEF Steps, Moves
  <1> HIDE DEF x
  <1>11. Run(x, Plain("resume").slots) /\ Plain("resume") \in Message /\ Plain("resume").type = "resume"
    BY PlainType DEF Run
  <1>12. Steps(x, v)  BY <1>1, <1>10, <1>11, SendSteps
  <1> QED  BY <1>7, <1>9, <1>12, StepsTrans

LEMMA ClearSteps ==
  ASSUME NEW w \in Worlds, NEW p \in Players, NEW j, NEW P \in SUBSET Players, NEW O \in SUBSET Players,
         NEW s, s = [w.pl[p] EXCEPT !.pending = @ \ {j}, !.peers = P, !.open = O],
         P \subseteq w.pl[p].peers, j \in P => j \in Joiners /\ w.pl[j].on
  PROVE  Steps(w, Put(w, p, s)) /\ Calm(w, Put(w, p, s))
  <1>1. w.pl[p] \in Player  BY WorldFields
  <1>2. /\ s \in Player /\ s.on = w.pl[p].on /\ s.asked = w.pl[p].asked
        /\ s.frame = w.pl[p].frame /\ s.late = w.pl[p].late /\ s.roster = w.pl[p].roster
        /\ s.ready = w.pl[p].ready /\ s.peers = P /\ s.pending = w.pl[p].pending \ {j}
        /\ s.paused = w.pl[p].paused
    BY <1>1 DEF Player
  <1>4. PutRuns(w, p, s)  BY <1>2 DEF PutRuns
  <1>5. PutSaid(w, p, s)  BY <1>2 DEF PutSaid
  <1>6. PutSound(w, p, s)
    <2>1. Sound(w) /\ p = Host => Run(w, P \ (w.pl[p].pending \ {j}))
      BY DEF Sound, Run
    <2> QED  BY <1>2, <2>1 DEF PutSound, Sound
  <1> QED  BY <1>2, <1>4, <1>5, <1>6, PutSteps

LEMMA HardDisconnectSteps ==
  ASSUME NEW w \in Worlds, NEW p \in Players, NEW q, NEW v, v = HardDisconnect(w, p, q)
  PROVE  Steps(w, v) /\ Calm(w, v)
  <1> DEFINE P == w.pl[p].peers \ {q}
             O == w.pl[p].open \ {q}
             s == [w.pl[p] EXCEPT !.pending = @ \ {q}, !.peers = P, !.open = O]
             u == Put(w, p, s)
  <1>1. w.pl[p] \in Player  BY WorldFields
  <1>2. v = IF w.pl[p].on THEN BroadcastRoster(u, p) ELSE u
    <2>1. s = [ClearPending(w.pl[p], q) EXCEPT !.peers = @ \ {q}, !.open = @ \ {q}]
      BY <1>1 DEF ClearPending, Player
    <2> QED  BY <2>1 DEF HardDisconnect
  <1>3. P \in SUBSET Players /\ O \in SUBSET Players  BY <1>1 DEF Player
  <1>4. Steps(w, u) /\ Calm(w, u)  BY <1>3, ClearSteps
  <1>5. u \in Worlds  BY <1>4 DEF Steps, Moves
  <1> HIDE DEF u
  <1>6. Steps(u, BroadcastRoster(u, p)) /\ Calm(u, BroadcastRoster(u, p))
    BY <1>5, RosterSteps
  <1> QED  BY <1>2, <1>4, <1>6, StepsTrans, CalmTrans


LEMMA FinishSteps ==
  ASSUME NEW w \in Worlds, NEW p \in Players, NEW j \in Joiners, w.pl[j].on,
         NEW v, v = FinishLateJoinReady(w, p, j)
  PROVE  Steps(w, v)
  <1>0. w.pl[p] \in Player /\ j \in Players  BY WorldFields, Parts
  <1> CASE p = Host /\ j \in w.pl[p].handled
    BY StepsSelf DEF FinishLateJoinReady
  <1> CASE p = Host /\ j \notin w.pl[p].handled /\ j \notin w.pl[p].open
    <2> CASE j \in w.pl[p].ready  BY StepsSelf DEF FinishLateJoinReady
    <2> CASE j \notin w.pl[p].ready
      <3> DEFINE s == [w.pl[p] EXCEPT !.ready = @ \cup {j}]
                 u == Put(w, p, s)
      <3>1. v = IF u.pl[p].paused THEN Resume(u, p, FALSE) ELSE u
        BY DEF FinishLateJoinReady
      <3>2. /\ s \in Player /\ s.on = w.pl[p].on /\ s.asked = w.pl[p].asked
            /\ s.frame = w.pl[p].frame /\ s.late = w.pl[p].late /\ s.roster = w.pl[p].roster
            /\ s.ready = w.pl[p].ready \cup {j} /\ s.peers = w.pl[p].peers /\ s.pending = w.pl[p].pending
        BY <1>0 DEF Player
      <3> HIDE DEF s
      <3>3. PutRuns(w, p, s)  BY <3>2 DEF PutRuns
      <3>4. PutSaid(w, p, s)  BY <3>2 DEF PutSaid
      <3>5. PutSound(w, p, s)  BY <3>2 DEF PutSound, Sound
      <3>6. Steps(w, u)  BY <3>2, <3>3, <3>4, <3>5, PutSteps
      <3>7. u \in Worlds  BY <3>6 DEF Steps, Moves
      <3> HIDE DEF u
      <3>8. Steps(u, Resume(u, p, FALSE))  BY <3>7, ResumeSteps
      <3> QED  BY <3>1, <3>6, <3>8, StepsTrans
    <2> QED  OBVIOUS
  <1> CASE ~(p = Host /\ j \in w.pl[p].handled) /\ ~(p = Host /\ j \notin w.pl[p].open)
    <2> DEFINE s == [ClearPending(w.pl[p], j) EXCEPT !.ready = @ \ {j}, !.handled = @ \cup {j}]
               u == IF p = Host THEN Put(w, p, s) ELSE w
    <2>1. v = IF u.pl[p].paused THEN Resume(u, p, TRUE) ELSE BroadcastRoster(u, p)
      BY DEF FinishLateJoinReady
    <2>2. /\ s \in Player /\ s.on = w.pl[p].on /\ s.asked = w.pl[p].asked
          /\ s.frame = w.pl[p].frame /\ s.late = w.pl[p].late /\ s.roster = w.pl[p].roster
          /\ s.ready = w.pl[p].ready \ {j} /\ s.peers = w.pl[p].peers
          /\ s.pending = w.pl[p].pending \ {j}
      BY <1>0 DEF Player, ClearPending
    <2> HIDE DEF s
    <2>3. PutRuns(w, p, s)  BY <2>2 DEF PutRuns
    <2>4. PutSaid(w, p, s)  BY <2>2 DEF PutSaid
    <2>5. PutSound(w, p, s)
      <3>1. Sound(w) /\ p = Host => Run(w, w.pl[p].peers \ (w.pl[p].pending \ {j}))
        BY DEF Sound, Run
      <3> QED  BY <2>2, <3>1 DEF PutSound, Sound
    <2>6. Steps(w, Put(w, p, s))  BY <2>2, <2>3, <2>4, <2>5, PutSteps
    <2>7. Steps(w, u)  BY <2>6, StepsSelf
    <2>8. u \in Worlds  BY <2>7 DEF Steps, Moves
    <2> HIDE DEF u
    <2>9. Steps(u, Resume(u, p, TRUE))  BY <2>8, ResumeSteps
    <2>10. Steps(u, BroadcastRoster(u, p))  BY <2>8, RosterSteps
    <2>11. Steps(u, v)  BY <2>1, <2>9, <2>10
    <2> QED  BY <2>7, <2>11, StepsTrans
  <1> QED  OBVIOUS

LEMMA OnOpenSteps ==
  ASSUME NEW w \in Worlds, NEW p \in Players, NEW q \in Players, NEW v, v = OnOpen(w, p, q), Said(w)
  PROVE  Steps(w, v) /\ ((\A j \in Joiners : ~w.pl[j].on) => Calm(w, v))
  <1> DEFINE s == [w.pl[p] EXCEPT !.open = IF q \in w.pl[p].peers THEN @ \cup {q} ELSE @]
             x == Put(w, p, s)
             m == [type |-> "roster", slots |-> s.roster]
             y == [x EXCEPT !.ch[p][q] = Append(@, m)]
             u == IF p = Host /\ s.roster # {} /\ q \notin s.pending THEN y ELSE x
  <1>0. w.pl[p] \in Player  BY WorldFields
  <1>1. /\ s \in Player /\ s.on = w.pl[p].on /\ s.asked = w.pl[p].asked
        /\ s.frame = w.pl[p].frame /\ s.late = w.pl[p].late /\ s.roster = w.pl[p].roster
        /\ s.ready = w.pl[p].ready /\ s.peers = w.pl[p].peers /\ s.pending = w.pl[p].pending
        /\ s.paused = w.pl[p].paused /\ s.roster \in SUBSET Players
    BY <1>0 DEF Player
  <1>2. x \in Worlds /\ x.pl[p] = s  BY <1>1, PutIs
  <1>3. v = IF p = Host /\ q \in s.ready THEN FinishLateJoinReady(u, p, q) ELSE u
    <2>1. v = LET z == x.pl[p]
                  u1 == IF p = Host /\ z.roster # {} /\ q \notin z.pending
                        THEN [x EXCEPT !.ch[p][q] = Append(@, [type |-> "roster", slots |-> z.roster])] ELSE x
              IN IF p = Host /\ q \in z.ready THEN FinishLateJoinReady(u1, p, q) ELSE u1
      BY DEF OnOpen
    <2> HIDE DEF x, s
    <2> QED  BY <1>2, <2>1
  <1> HIDE DEF s
  <1>4. PutRuns(w, p, s)  BY <1>1 DEF PutRuns
  <1>5. PutSaid(w, p, s)  BY <1>1 DEF PutSaid
  <1>6. PutSound(w, p, s)  BY <1>1 DEF PutSound, Sound
  <1>7. Steps(w, x) /\ Calm(w, x)  BY <1>1, <1>4, <1>5, <1>6, PutSteps
  <1>8. m \in Message /\ m.type = "roster" /\ m.slots = s.roster  BY <1>1, PlainType
  <1> HIDE DEF m, x
  <1>9. p = Host => Steps(x, y) /\ Calm(x, y)
    <2> SUFFICES ASSUME p = Host PROVE Steps(x, y) /\ Calm(x, y)
      OBVIOUS
    <2> DEFINE c == Append(x.ch[p][q], m)
    <2>1. c \in Seq(Message)  BY <1>2, <1>8, WorldFields
    <2>2. y = [x EXCEPT !.ch[p][q] = c]  OBVIOUS
    <2> HIDE DEF y
    <2>3. y \in Worlds /\ y.pl = x.pl
          /\ \A a, b \in Players : y.ch[a][b] = IF a = p /\ b = q THEN c ELSE x.ch[a][b]
      <3> HIDE DEF c
      <3> QED  BY <1>2, <2>1, <2>2 DEF Worlds
    <2>4. Sound(x) => Run(x, m.slots)  BY <1>2, <1>8, Parts DEF Sound
    <2> QED  BY <1>2, <1>8, <2>3, <2>4, GrowSteps
  <1> HIDE DEF y
  <1>10. Steps(w, u) /\ Calm(w, u)  BY <1>7, <1>9, StepsTrans, CalmTrans
  <1> HIDE DEF u
  <1>11. ASSUME p = Host, q \in s.ready
         PROVE  q \in Joiners /\ w.pl[q].on /\ Steps(w, FinishLateJoinReady(u, p, q))
    <2>1. q \in Joiners /\ w.pl[q].on  BY <1>1, <1>11 DEF Said
    <2>2. u \in Worlds /\ u.pl[q].on  BY <1>10, <2>1 DEF Steps, Moves, Same
    <2>3. Steps(u, FinishLateJoinReady(u, p, q))  BY <2>1, <2>2, FinishSteps
    <2> QED  BY <1>10, <2>1, <2>3, StepsTrans
  <1> QED  BY <1>3, <1>10, <1>11


LEMMA HandledSteps ==
  ASSUME NEW w \in Worlds, NEW p \in Players, NEW q \in Players, NEW m \in Message,
         m.type = "ready" => q \in Joiners /\ w.pl[q].on,
         NEW v, v = Handled(w, p, q, m)
  PROVE  Moves(w, v) /\ (Run(w, m.slots) => Steps(w, v)) /\ (m.type \notin {"resume", "ready"} => Calm(w, v))
  <1>0. w.pl[p] \in Player  BY WorldFields
  <1>1. m.type \in {"pause", "resume", "ready", "roster"} /\ m.slots \in SUBSET Players
    BY DEF Message
  <1>2. CASE m.type = "pause"
    <2> DEFINE s == [w.pl[p] EXCEPT !.paused = TRUE]
    <2>1. v = Put(w, p, s)  BY <1>2 DEF Handled
    <2>2. /\ s \in Player /\ s.on = w.pl[p].on /\ s.asked = w.pl[p].asked
          /\ s.frame = w.pl[p].frame /\ s.late = w.pl[p].late /\ s.roster = w.pl[p].roster
          /\ s.ready = w.pl[p].ready /\ s.peers = w.pl[p].peers
          /\ s.pending = w.pl[p].pending /\ s.paused = TRUE
      BY <1>0 DEF Player
    <2> HIDE DEF s
    <2>3. PutRuns(w, p, s)  BY <2>2 DEF PutRuns
    <2>4. PutSaid(w, p, s)  BY <2>2 DEF PutSaid
    <2>5. PutSound(w, p, s)  BY <2>2 DEF PutSound, Sound
    <2> QED  BY <2>1, <2>2, <2>3, <2>4, <2>5, PutSteps
  <1>3. CASE m.type = "resume"
    <2> DEFINE s == [w.pl[p] EXCEPT !.paused = FALSE, !.late = FALSE, !.tries = 0]
    <2>1. v = Put(w, p, s)  BY <1>3 DEF Handled
    <2>2. /\ s \in Player /\ s.on = w.pl[p].on /\ s.asked = w.pl[p].asked
          /\ s.frame = w.pl[p].frame /\ s.late = FALSE /\ s.roster = w.pl[p].roster
          /\ s.ready = w.pl[p].ready /\ s.peers = w.pl[p].peers
          /\ s.pending = w.pl[p].pending
      <3>1. 0 \in 0..MaxReady  BY Parts
      <3> QED  BY <1>0, <3>1 DEF Player
    <2> HIDE DEF s
    <2>3. PutRuns(w, p, s)  BY <2>2 DEF PutRuns
    <2>4. PutSaid(w, p, s)  BY <2>2 DEF PutSaid
    <2>5. PutSound(w, p, s)  BY <2>2 DEF PutSound, Sound
    <2> QED  BY <1>3, <2>1, <2>2, <2>3, <2>4, <2>5, PutSteps
  <1>4. CASE m.type = "ready"
    <2>1. v = FinishLateJoinReady(w, p, q)  BY <1>4 DEF Handled
    <2>2. Steps(w, v)  BY <1>4, <2>1, FinishSteps
    <2> QED  BY <1>4, <2>2 DEF Steps
  <1>5. CASE m.type = "roster"
    <2> DEFINE s == [w.pl[p] EXCEPT !.roster = m.slots, !.pending = @ \ m.slots]
    <2>1. v = Put(w, p, s)  BY <1>5 DEF Handled
    <2>2. /\ s \in Player /\ s.on = w.pl[p].on /\ s.asked = w.pl[p].asked
          /\ s.frame = w.pl[p].frame /\ s.late = w.pl[p].late /\ s.roster = m.slots
          /\ s.ready = w.pl[p].ready /\ s.peers = w.pl[p].peers
          /\ s.pending = w.pl[p].pending \ m.slots /\ s.paused = w.pl[p].paused
      BY <1>0, <1>1 DEF Player
    <2> HIDE DEF s
    <2>3. PutRuns(w, p, s)  BY <2>2 DEF PutRuns
    <2>4. PutSaid(w, p, s)  BY <2>2 DEF PutSaid
    <2>5. Run(w, m.slots) => PutSound(w, p, s)
      <3>1. Sound(w) /\ Run(w, m.slots) /\ p = Host => Run(w, w.pl[p].peers \ (w.pl[p].pending \ m.slots))
        BY DEF Sound, Run
      <3> QED  BY <2>2, <3>1 DEF PutSound
    <2> QED  BY <2>1, <2>2, <2>3, <2>4, <2>5, PutSteps
  <1> QED  BY <1>1, <1>2, <1>3, <1>4, <1>5

LEMMA PauseSteps ==
  ASSUME NEW w \in Worlds, NEW j \in Joiners, NEW v, v = Pause(w, j)
  PROVE  Steps(w, v) /\ Calm(w, v) /\ v.pl[Host].paused
  <1> DEFINE s == [w.pl[Host] EXCEPT !.paused = TRUE, !.pending = @ \cup {j}]
             u == Put(w, Host, s)
  <1>0. w.pl[Host] \in Player /\ j \in Players  BY WorldFields, Parts
  <1>1. v = Send(u, Host, Players \ {j}, Plain("pause"))  BY DEF Pause
  <1>2. /\ s \in Player /\ s.on = w.pl[Host].on /\ s.asked = w.pl[Host].asked
        /\ s.frame = w.pl[Host].frame /\ s.late = w.pl[Host].late /\ s.roster = w.pl[Host].roster
        /\ s.ready = w.pl[Host].ready /\ s.peers = w.pl[Host].peers
        /\ s.pending = w.pl[Host].pending \cup {j} /\ s.paused = TRUE
    BY <1>0 DEF Player
  <1> HIDE DEF s
  <1>3. PutRuns(w, Host, s)  BY <1>2 DEF PutRuns
  <1>4. PutSaid(w, Host, s)  BY <1>2 DEF PutSaid
  <1>5. PutSound(w, Host, s)
    <2>1. Sound(w) => Run(w, w.pl[Host].peers \ (w.pl[Host].pending \cup {j}))
      BY DEF Sound, Run
    <2> QED  BY <1>2, <2>1, Parts DEF PutSound, Sound
  <1>6. Steps(w, u) /\ Calm(w, u) /\ u.pl[Host].paused
    BY <1>2, <1>3, <1>4, <1>5, Parts, PutSteps, PutIs
  <1>7. u \in Worlds  BY <1>6 DEF Steps, Moves
  <1> HIDE DEF u
  <1>8. Run(u, Plain("pause").slots) /\ Plain("pause") \in Message /\ Plain("pause").type = "pause"
    BY PlainType DEF Run
  <1>9. Steps(u, v) /\ Calm(u, v) /\ v.pl = u.pl  BY <1>1, <1>7, <1>8, Parts, SendSteps
  <1> QED  BY <1>6, <1>9, StepsTrans, CalmTrans

LEMMA DeadlineSteps ==
  ASSUME NEW w \in Worlds, NEW j \in Joiners, NEW v, v = DeadlineWhilePaused(w, j)
  PROVE  Steps(w, v)
  <1> DEFINE x == Resume(w, Host, TRUE)
  <1>1. v = HardDisconnect(x, Host, j)  BY DEF DeadlineWhilePaused, Resume
  <1>2. Steps(w, x)  BY Parts, ResumeSteps
  <1>3. x \in Worlds  BY <1>2 DEF Steps, Moves
  <1> HIDE DEF x
  <1>4. Steps(x, v)  BY <1>1, <1>3, Parts, HardDisconnectSteps
  <1> QED  BY <1>2, <1>4, StepsTrans

LEMMA AnnounceSteps ==
  ASSUME NEW w \in Worlds, NEW j \in Joiners, w.pl[j].on, w.pl[j].tries > 0,
         NEW v, v = Announce(w, j)
  PROVE  Steps(w, v)
  <1> DEFINE s == [w.pl[j] EXCEPT !.tries = @ - 1]
             u == Put(w, j, s)
  <1>0. w.pl[j] \in Player /\ j \in Players /\ j # Host /\ j \notin Running  BY WorldFields, Parts
  <1>1. v = Send(u, j, Players, Plain("ready"))  BY DEF Announce
  <1>2. /\ s \in Player /\ s.on = w.pl[j].on /\ s.asked = w.pl[j].asked
        /\ s.frame = w.pl[j].frame /\ s.late = w.pl[j].late
    <2>1. w.pl[j].tries - 1 \in 0..MaxReady  BY <1>0, Parts DEF Player
    <2> QED  BY <1>0, <2>1 DEF Player
  <1> HIDE DEF s
  <1>3. PutRuns(w, j, s)  BY <1>2 DEF PutRuns
  <1>4. PutSaid(w, j, s)  BY <1>0 DEF PutSaid
  <1>5. PutSound(w, j, s)  BY <1>0 DEF PutSound
  <1>6. Steps(w, u)  BY <1>0, <1>2, <1>3, <1>4, <1>5, PutSteps
  <1>7. u \in Worlds /\ u.pl[j].on  BY <1>0, <1>6 DEF Steps, Moves, Same
  <1> HIDE DEF u
  <1>8. Run(u, Plain("ready").slots) /\ Plain("ready") \in Message /\ Plain("ready").type = "ready"
    BY PlainType DEF Run
  <1>9. Steps(u, v)  BY <1>0, <1>1, <1>7, <1>8, SendSteps
  <1> QED  BY <1>6, <1>9, StepsTrans

(* Messages are taken out of channels.                                       *)
LEMMA LessSteps ==
  ASSUME NEW w \in Worlds, NEW v \in Worlds, v.pl = w.pl,
         \A a, b \in Players : \A i \in DOMAIN v.ch[a][b] :
           \E k \in DOMAIN w.ch[a][b] : v.ch[a][b][i] = w.ch[a][b][k]
  PROVE  Steps(w, v) /\ Calm(w, v)
  <1>1. Same(w, v) /\ \A S : Run(v, S) <=> Run(w, S)  BY DEF Same, Run
  <1>2. Said(w) => Said(v)  BY DEF Said
  <1>3. Sound(w) => Sound(v)  BY <1>1 DEF Sound
  <1>4. Calm(w, v)  BY DEF Calm, Quiet
  <1> QED  BY <1>1, <1>2, <1>3, <1>4 DEF Steps, Moves

LEMMA TailSteps ==
  ASSUME NEW w \in Worlds, NEW p \in Players, NEW q \in Players, w.ch[q][p] # <<>>,
         NEW v, v = [w EXCEPT !.ch[q][p] = Tail(@)]
  PROVE  Steps(w, v) /\ Calm(w, v) /\ v.pl = w.pl
  <1> DEFINE c == Tail(w.ch[q][p])
  <1>1. w.ch[q][p] \in Seq(Message)  BY WorldFields
  <1>2. c \in Seq(Message) /\ \A i \in DOMAIN c : \E k \in DOMAIN w.ch[q][p] : c[i] = w.ch[q][p][k]
    <2>1. c \in Seq(Message)  BY <1>1
    <2>2. ASSUME NEW i \in DOMAIN c PROVE \E k \in DOMAIN w.ch[q][p] : c[i] = w.ch[q][p][k]
      <3>1. i \in 1..Len(c) /\ Len(c) = Len(w.ch[q][p]) - 1  BY <1>1, <2>1
      <3>2. i + 1 \in DOMAIN w.ch[q][p]  BY <1>1, <3>1
      <3>3. c[i] = w.ch[q][p][i + 1]  BY <1>1, <3>1
      <3> QED  BY <3>2, <3>3
    <2> QED  BY <2>1, <2>2
  <1>3. v = [w EXCEPT !.ch[q][p] = c]  OBVIOUS
  <1> HIDE DEF c
  <1>4. /\ v \in Worlds /\ v.pl = w.pl
        /\ \A a, b \in Players : v.ch[a][b] = IF a = q /\ b = p THEN c ELSE w.ch[a][b]
    <2> DEFINE row == [w.ch[q] EXCEPT ![p] = c]
    <2>1. v = [w EXCEPT !.ch = [w.ch EXCEPT ![q] = row]]  BY <1>3
    <2>2. w.ch \in [Players -> [Players -> Seq(Message)]]  BY WorldFields
    <2>3. row \in [Players -> Seq(Message)] /\ \A b \in Players : row[b] = IF b = p THEN c ELSE w.ch[q][b]
      BY <1>2, <2>2
    <2> HIDE DEF row
    <2>4. /\ [w.ch EXCEPT ![q] = row] \in [Players -> [Players -> Seq(Message)]]
          /\ \A a \in Players : [w.ch EXCEPT ![q] = row][a] = IF a = q THEN row ELSE w.ch[a]
      BY <2>2, <2>3
    <2>5. v \in Worlds /\ v.pl = w.pl /\ v.ch = [w.ch EXCEPT ![q] = row]
      BY <2>1, <2>4 DEF Worlds
    <2>6. ASSUME NEW a \in Players, NEW b \in Players
          PROVE  v.ch[a][b] = IF a = q /\ b = p THEN c ELSE w.ch[a][b]
      <3> CASE a = q
        <4>1. v.ch[a] = row  BY <2>4, <2>5
        <4> QED  BY <2>3, <4>1
      <3> CASE a # q
        <4>1. v.ch[a] = w.ch[a]  BY <2>4, <2>5
        <4> QED  BY <4>1
      <3> QED  OBVIOUS
    <2> QED  BY <2>5, <2>6
  <1>5. ASSUME NEW a \in Players, NEW b \in Players, NEW i \in DOMAIN v.ch[a][b]
        PROVE  \E k \in DOMAIN w.ch[a][b] : v.ch[a][b][i] = w.ch[a][b][k]
    <2> CASE a = q /\ b = p
      <3>1. v.ch[a][b] = c  BY <1>4
      <3>2. i \in DOMAIN c  BY <3>1
      <3>3. \E k \in DOMAIN w.ch[q][p] : c[i] = w.ch[q][p][k]  BY <1>2, <3>2
      <3> QED  BY <3>1, <3>3
    <2> CASE ~(a = q /\ b = p)  BY <1>4
    <2> QED  OBVIOUS
  <1> QED  BY <1>4, <1>5, LessSteps

LEMMA EmptiedSteps ==
  ASSUME NEW w \in Worlds, NEW p \in Players, NEW q \in Players, NEW v, v = Emptied(w, p, q)
  PROVE  Steps(w, v) /\ Calm(w, v)
  <1> DEFINE e(a, b) == IF {a, b} = {p, q} THEN <<>> ELSE w.ch[a][b]
             c == [a \in Players |-> [b \in Players |-> e(a, b)]]
  <1>1. v = [w EXCEPT !.ch = c]  BY DEF Emptied
  <1>2. \A a, b \in Players : e(a, b) \in Seq(Message) /\ (e(a, b) = <<>> \/ e(a, b) = w.ch[a][b])
    <2>1. <<>> \in Seq(Message)  OBVIOUS
    <2> QED  BY <2>1, WorldFields
  <1> HIDE DEF e
  <1>4. /\ c \in [Players -> [Players -> Seq(Message)]]
        /\ \A a, b \in Players : c[a][b] = e(a, b)
    BY <1>2
  <1> HIDE DEF c
  <1>3. v \in Worlds /\ v.pl = w.pl /\ v.ch = c  BY <1>1, <1>4 DEF Worlds
  <1>5. \A a, b \in Players : \A i \in DOMAIN v.ch[a][b] :
          \E k \in DOMAIN w.ch[a][b] : v.ch[a][b][i] = w.ch[a][b][k]
    <2> SUFFICES ASSUME NEW a \in Players, NEW b \in Players, NEW i \in DOMAIN v.ch[a][b]
                 PROVE  \E k \in DOMAIN w.ch[a][b] : v.ch[a][b][i] = w.ch[a][b][k]
      OBVIOUS
    <2>1. v.ch[a][b] = e(a, b)  BY <1>3, <1>4
    <2>2. DOMAIN <<>> = {}  OBVIOUS
    <2>3. v.ch[a][b] = w.ch[a][b]  BY <1>2, <2>1, <2>2
    <2> QED  BY <2>3
  <1> QED  BY <1>3, <1>5, LessSteps


(* A joiner changes, and runs if it ran.                                     *)
LEMMA JoinerPuts ==
  ASSUME NEW w \in Worlds, NEW j \in Joiners, NEW s \in Player, w.pl[j].on => s.on,
         NEW v, v = Put(w, j, s)
  PROVE  /\ v \in Worlds /\ v.ch = w.ch
         /\ \A k \in Players : v.pl[k] = IF k = j THEN s ELSE w.pl[k]
         /\ v.pl[Host] = w.pl[Host]
         /\ (Said(w) => Said(v)) /\ (Sound(w) => Sound(v)) /\ (Quiet(w) => Quiet(v))
  <1>1. /\ v \in Worlds /\ v.ch = w.ch
        /\ \A k \in Players : v.pl[k] = IF k = j THEN s ELSE w.pl[k]
    BY Parts, PutIs
  <1>2. \A r \in Running : r # j /\ r \in Players /\ v.pl[r] = w.pl[r]
    BY <1>1, Parts
  <1>3. v.pl[Host] = w.pl[Host]  BY <1>2, Parts
  <1>4. \A k \in Players : w.pl[k].on => v.pl[k].on  BY <1>1
  <1>5. \A S : Run(w, S) => Run(v, S)  BY <1>4, Parts DEF Run
  <1>6. Said(w) => Said(v)  BY <1>1, <1>3, <1>4, Parts DEF Said
  <1>7. Sound(w) => Sound(v)  BY <1>1, <1>2, <1>3, <1>5 DEF Sound
  <1>8. Quiet(w) => Quiet(v)  BY <1>1 DEF Quiet
  <1> QED  BY <1>1, <1>3, <1>6, <1>7, <1>8

(***************************************************************************)
(* Steps.                                                                  *)
(***************************************************************************)

LEMMA WorldIs ==
  ASSUME TypeOK
  PROVE  World \in Worlds /\ World.pl = player /\ World.ch = chan
  BY DEF TypeOK, World, Worlds

LEMMA NextWorld ==
  ASSUME NEW v \in Worlds, player' = v.pl, chan' = v.ch
  PROVE  World' = v /\ player' \in [Players -> Player]
         /\ chan' \in [Players -> [Players -> Seq(Message)]]
  BY WorldFields DEF World

(* The announcements a joiner sends through the server.                       *)
LEMMA AnnouncedIs ==
  ASSUME NEW j \in Joiners
  PROVE  Announced(j) \subseteq SocketMessage
         /\ \A m \in Announced(j) : m.type = "ready" /\ m.from = j
  BY Parts DEF Announced, SocketMessage, Room

(* A step in which nobody asks, captures, sends, loads or counts a frame.     *)
Less(ready) ==
  /\ sending' \subseteq sending /\ loading' \subseteq loading /\ deadlines' \subseteq deadlines
  /\ socket' \subseteq socket \cup ready
  /\ lost \subseteq lost' /\ lost' \subseteq {"channel", "send", "load"}
  /\ late \subseteq late' /\ late' \subseteq Joiners

NoneStarts == \A k \in Joiners : player'[k].on => player[k].on

LEMMA LessStep ==
  ASSUME Inv, NEW v, Moves(World, v), "send" \notin lost => Steps(World, v), player' = v.pl, chan' = v.ch,
         Nobody /\ late' = {} => Calm(World, v),
         NEW ready \in SUBSET SocketMessage, Less(ready),
         \A m \in ready : m.type = "ready" /\ player[m.from].on
  PROVE  Inv' /\ NoneStarts
  <1>1. World \in Worlds /\ World.pl = player /\ World.ch = chan  BY WorldIs DEF Inv
  <1>0. /\ sending' \subseteq sending /\ loading' \subseteq loading /\ deadlines' \subseteq deadlines
        /\ socket' \subseteq socket \cup ready
        /\ lost \subseteq lost' /\ lost' \subseteq {"channel", "send", "load"}
        /\ late \subseteq late' /\ late' \subseteq Joiners
    BY DEF Less
  <1>2. v \in Worlds /\ Same(World, v) /\ (Said(World) => Said(v))
        /\ ("send" \notin lost => (Sound(World) => Sound(v)))
    BY DEF Steps, Moves
  <1>3. /\ World' = v /\ player' \in [Players -> Player]
        /\ chan' \in [Players -> [Players -> Seq(Message)]]
    BY <1>2, NextWorld
  <1>4. \A k \in Players : /\ (player'[k].on <=> player[k].on) /\ (player'[k].asked <=> player[k].asked)
                           /\ player'[k].frame = player[k].frame
    BY <1>1, <1>2 DEF Same
  <1>5. TypeOK'
    <2>1. socket \subseteq SocketMessage /\ sending \subseteq Transfer /\ loading \subseteq Transfer
      BY DEF Inv, TypeOK
    <2>2. deadlines \subseteq Joiners  BY DEF Inv, TypeOK
    <2> QED  BY <1>0, <1>3, <2>1, <2>2 DEF TypeOK
  <1>6. \A m \in socket' : m \in SocketMessage /\ m.from \in Players /\ m.to \in Players
    BY <1>5, Parts DEF TypeOK, SocketMessage
  <1>7. SaidInv'
    <2>1. Said(World')  BY <1>2, <1>3 DEF Inv, SaidInv
    <2>2. ASSUME NEW m \in socket', m.type = "ready" PROVE player'[m.from].on
      BY <1>0, <1>4, <1>6, <2>2 DEF Inv, SaidInv
    <2> QED  BY <2>1, <2>2 DEF SaidInv
  <1>8. RosterInv'
    BY <1>0, <1>2, <1>3 DEF Inv, RosterInv
  <1>9. /\ Requests' \subseteq Requests /\ States' \subseteq States /\ Moving' \subseteq Moving
        /\ \A t \in Moving : t.to \in Joiners
        /\ \A t \in Requests : t.from \in Joiners
    <2>1. Requests' \subseteq Requests /\ States' \subseteq States  BY <1>0 DEF Requests, States
    <2>2. Moving' \subseteq Moving  BY <1>0, <2>1 DEF Moving
    <2>3. \A t \in Moving : t.to \in Joiners
      BY DEF Moving, States, Inv, TypeOK, Transfer, SocketMessage
    <2>4. \A t \in Requests : t.from \in Joiners
      BY DEF Requests, Inv, TypeOK, SocketMessage
    <2> QED  BY <2>1, <2>2, <2>3, <2>4
  <1>10. OnceInv'
    <2>1. OnceInv  BY DEF Inv
    <2>2. \A j \in Joiners : player'[j].on => player'[j].asked
      BY <1>4, <2>1, Parts DEF OnceInv
    <2>3. (\A t \in Moving' : player'[t.to].asked) /\ (\A m \in Requests' : player'[m.from].asked)
      BY <1>4, <1>9, <2>1, Parts DEF OnceInv
    <2>4. /\ \A s, t \in sending' : s.to = t.to => s = t
          /\ \A s, t \in loading' : s.to = t.to => s = t
          /\ \A s, t \in States' : s.to = t.to => s = t
          /\ \A s, t \in Requests' : s.from = t.from => s = t
      BY <1>0, <1>9, <2>1 DEF OnceInv
    <2>5. /\ \A s \in sending' : \A t \in loading' \cup States' : s.to # t.to
          /\ \A s \in loading' : \A t \in States' : s.to # t.to
          /\ \A s \in Moving' : \A m \in Requests' : s.to # m.from
      BY <1>0, <1>9, <2>1 DEF OnceInv
    <2> QED  BY <2>2, <2>3, <2>4, <2>5 DEF OnceInv
  <1>11. Nobody' => Nobody /\ late' = {}
    BY <1>0, <1>4, Parts DEF Nobody
  <1>12. QuietInv'
    BY <1>3, <1>11 DEF Inv, QuietInv, Calm
  <1>13. FrozenInv'
    <2> SUFFICES ASSUME Nobody', OneAsks', NEW t \in Moving'
                 PROVE  player'[Host].paused /\ t.frame = player'[Host].frame
      BY DEF FrozenInv
    <2>1. OneAsks  BY <1>4, Parts DEF OneAsks
    <2>2. player[Host].paused /\ t.frame = player[Host].frame
      BY <1>9, <1>11, <2>1 DEF Inv, FrozenInv
    <2> QED  BY <1>1, <1>3, <1>4, <1>11, <2>2, Parts DEF Calm
  <1>14. NoneStarts  BY <1>4, Parts DEF NoneStarts
  <1> QED  BY <1>5, <1>7, <1>8, <1>10, <1>12, <1>13, <1>14 DEF Inv


LEMMA HandlerStep ==
  ASSUME Inv, NEW v, Steps(World, v), player' = v.pl, chan' = v.ch,
         Nobody /\ late' = {} => Calm(World, v), Less({})
  PROVE  Inv' /\ NoneStarts
  <1>1. Moves(World, v)  BY DEF Steps
  <1>2. {} \in SUBSET SocketMessage  OBVIOUS
  <1> QED  BY <1>1, <1>2, LessStep

LEMMA ComesStep ==
  ASSUME Inv, NEW j \in Joiners, Comes(j) PROVE Inv' /\ NoneStarts
  <1> DEFINE s == [player[j] EXCEPT !.seen = Room \cup {j}, !.peers = Room \ {j}]
             v == Put(World, j, s)
  <1>0. World \in Worlds /\ World.pl = player /\ World.ch = chan  BY WorldIs DEF Inv
  <1>1. player[j] \in Player /\ j \in Players /\ j \notin Running /\ j # Host
    BY <1>0, WorldFields, Parts
  <1>2. Room \in SUBSET Players  BY Parts DEF Room
  <1>3. player' = v.pl  BY DEF Comes
  <1>4. /\ s \in Player /\ s.on = player[j].on /\ s.asked = player[j].asked
        /\ s.frame = player[j].frame /\ s.late = player[j].late
    BY <1>1, <1>2 DEF Player
  <1> HIDE DEF s
  <1>5. PutRuns(World, j, s)  BY <1>0, <1>4 DEF PutRuns
  <1>6. PutSaid(World, j, s)  BY <1>1 DEF PutSaid
  <1>7. PutSound(World, j, s)  BY <1>1 DEF PutSound
  <1>8. Steps(World, v) /\ Calm(World, v)  BY <1>0, <1>1, <1>4, <1>5, <1>6, <1>7, PutSteps
  <1>9. chan' = v.ch  BY <1>0, <1>1, <1>4, PutIs DEF Comes
  <1> HIDE DEF v
  <1>10. Less({})  BY DEF Less, Comes, Inv, TypeOK
  <1> QED  BY <1>3, <1>8, <1>9, <1>10, HandlerStep

LEMMA UsersStep ==
  ASSUME Inv, NEW p \in Players, UsersUpdated(p) PROVE Inv' /\ NoneStarts
  <1> DEFINE z == player[p]
             others == Room \ {p}
             held == {q \in others \ (IF z.roster = {} THEN Running ELSE {}) : Holds(z, q)}
             s == [z EXCEPT !.seen = Room, !.peers = @ \cup others,
                            !.pending = (@ \cup held) \ (z.roster \cap z.peers)]
             v == Put(World, p, s)
  <1>0. World \in Worlds /\ World.pl = player /\ World.ch = chan  BY WorldIs DEF Inv
  <1>1. player[p] \in Player  BY <1>0, WorldFields
  <1>2. Room \in SUBSET Players  BY Parts DEF Room
  <1>3. player' = v.pl  BY DEF UsersUpdated
  <1>4. others \in SUBSET Players /\ held \in SUBSET Players  BY <1>2
  <1>5. Sound(World) /\ p = Host => Run(World, (z.peers \cup others) \ ((z.pending \cup held) \ (z.roster \cap z.peers)))
    <2> SUFFICES ASSUME Sound(World), p = Host, NEW q \in Joiners, q \in z.peers \cup others,
                        q \notin (z.pending \cup held) \ (z.roster \cap z.peers)
                 PROVE  World.pl[q].on
      BY DEF Run
    <2> CASE q \in z.roster  BY <1>0, Parts DEF Sound, Run
    <2> CASE q \notin z.roster
      <3>1. q \notin z.pending /\ q \notin held  OBVIOUS
      <3>2. CASE q \in z.peers  BY <1>0, <3>1, <3>2 DEF Sound, Run
      <3>3. CASE q \in others
        <4>1. Holds(z, q)  BY <1>0 DEF Sound, Holds
        <4>2. q \in held  BY <3>3, <4>1, Parts
        <4> QED  BY <3>1, <4>2
      <3> QED  BY <3>2, <3>3
    <2> QED  OBVIOUS
  <1> HIDE DEF others, held
  <1>6. /\ s \in Player /\ s.on = player[p].on /\ s.asked = player[p].asked
        /\ s.frame = player[p].frame /\ s.late = player[p].late /\ s.paused = player[p].paused
        /\ s.ready = player[p].ready /\ s.roster = player[p].roster
        /\ s.peers = z.peers \cup others
        /\ s.pending = (z.pending \cup held) \ (z.roster \cap z.peers)
    BY <1>1, <1>2, <1>4 DEF Player
  <1> HIDE DEF s
  <1>7. PutRuns(World, p, s)  BY <1>0, <1>6 DEF PutRuns
  <1>8. PutSaid(World, p, s)  BY <1>0, <1>6 DEF PutSaid
  <1>9. PutSound(World, p, s)  BY <1>0, <1>5, <1>6 DEF PutSound, Sound
  <1>10. Steps(World, v) /\ Calm(World, v)  BY <1>0, <1>6, <1>7, <1>8, <1>9, PutSteps
  <1>11. chan' = v.ch  BY <1>0, <1>6, PutIs DEF UsersUpdated
  <1> HIDE DEF v
  <1>12. Less({})  BY DEF Less, UsersUpdated, Inv, TypeOK
  <1> QED  BY <1>3, <1>10, <1>11, <1>12, HandlerStep

LEMMA OpensStep ==
  ASSUME Inv, NEW p \in Players, NEW j \in Players, Opens(p, j) PROVE Inv' /\ NoneStarts
  <1> DEFINE s == [player[p] EXCEPT !.peers = IF player[j].on THEN @ \cup {j} ELSE @]
             w == Put(World, p, s)
             x == OnOpen(w, p, j)
             v == OnOpen(x, j, p)
  <1>0. World \in Worlds /\ World.pl = player /\ World.ch = chan  BY WorldIs DEF Inv
  <1>1. player[p] \in Player /\ player[j] \in Player /\ j \in Joiners
    BY <1>0, WorldFields DEF Opens
  <1>2. player' = v.pl /\ chan' = v.ch  BY DEF Opens, Becomes
  <1>3. /\ s \in Player /\ s.on = player[p].on /\ s.asked = player[p].asked
        /\ s.frame = player[p].frame /\ s.late = player[p].late /\ s.paused = player[p].paused
        /\ s.ready = player[p].ready /\ s.roster = player[p].roster /\ s.pending = player[p].pending
        /\ s.peers = IF player[j].on THEN player[p].peers \cup {j} ELSE player[p].peers
    BY <1>1 DEF Player
  <1> HIDE DEF s
  <1>4. PutRuns(World, p, s)  BY <1>0, <1>3 DEF PutRuns
  <1>5. PutSaid(World, p, s)  BY <1>0, <1>3 DEF PutSaid
  <1>6. PutSound(World, p, s)
    <2>1. Sound(World) /\ p = Host => Run(World, s.peers \ s.pending)
      <3> SUFFICES ASSUME Sound(World), p = Host PROVE Run(World, s.peers \ s.pending)
        OBVIOUS
      <3> CASE player[j].on  BY <1>0, <1>3 DEF Sound, Run
      <3> CASE ~player[j].on  BY <1>0, <1>3 DEF Sound
      <3> QED  OBVIOUS
    <2> QED  BY <1>0, <1>3, <2>1 DEF PutSound, Sound
  <1>7. Steps(World, w) /\ Calm(World, w)  BY <1>0, <1>3, <1>4, <1>5, <1>6, PutSteps
  <1>8. w \in Worlds /\ Said(w) /\ (Nobody => \A k \in Joiners : ~w.pl[k].on)
    BY <1>0, <1>7, Parts DEF Inv, SaidInv, Steps, Moves, Same, Nobody
  <1> HIDE DEF w
  <1>9. Steps(w, x) /\ (Nobody => Calm(w, x))  BY <1>8, OnOpenSteps
  <1>10. x \in Worlds /\ Said(x) /\ (Nobody => \A k \in Joiners : ~x.pl[k].on)
    BY <1>8, <1>9, Parts DEF Steps, Moves, Same
  <1> HIDE DEF x
  <1>11. Steps(x, v) /\ (Nobody => Calm(x, v))  BY <1>10, OnOpenSteps
  <1> HIDE DEF v
  <1>12. Steps(World, v)  BY <1>7, <1>9, <1>11, StepsTrans
  <1>13. Nobody => Calm(World, v)  BY <1>7, <1>9, <1>11, CalmTrans
  <1>14. Less({})  BY DEF Less, Opens, Inv, TypeOK
  <1> QED  BY <1>2, <1>12, <1>13, <1>14, HandlerStep

LEMMA BreaksStep ==
  ASSUME Inv, NEW j \in Joiners, Breaks(j) PROVE Inv' /\ NoneStarts
  <1> DEFINE w == HardDisconnect(World, Host, j)
             x == HardDisconnect(w, j, Host)
             v == Emptied(x, Host, j)
  <1>0. World \in Worlds  BY WorldIs DEF Inv
  <1>1. player' = v.pl /\ chan' = v.ch  BY DEF Breaks, Becomes
  <1>2. Steps(World, w) /\ Calm(World, w)  BY <1>0, Parts, HardDisconnectSteps
  <1>3. w \in Worlds  BY <1>2 DEF Steps, Moves
  <1> HIDE DEF w
  <1>4. Steps(w, x) /\ Calm(w, x)  BY <1>3, Parts, HardDisconnectSteps
  <1>5. x \in Worlds  BY <1>4 DEF Steps, Moves
  <1> HIDE DEF x
  <1>6. Steps(x, v) /\ Calm(x, v)  BY <1>5, Parts, EmptiedSteps
  <1> HIDE DEF v
  <1>7. Steps(World, v) /\ Calm(World, v)  BY <1>2, <1>4, <1>6, StepsTrans, CalmTrans
  <1>8. Less({})  BY DEF Less, Breaks, Inv, TypeOK
  <1> QED  BY <1>1, <1>7, <1>8, HandlerStep

LEMMA DeadlineStep ==
  ASSUME Inv, NEW j \in Joiners, DeadlinePasses(j) PROVE Inv' /\ NoneStarts
  <1>0. World \in Worlds /\ World.pl = player /\ World.ch = chan  BY WorldIs DEF Inv
  <1>1. CASE player[Host].paused
    <2> DEFINE v == DeadlineWhilePaused(World, j)
    <2>1. player' = v.pl /\ chan' = v.ch /\ late' = late \cup {j}
      BY <1>1 DEF DeadlinePasses, Becomes
    <2>2. Steps(World, v)  BY <1>0, DeadlineSteps
    <2> HIDE DEF v
    <2>3. Less({})  BY <2>1 DEF Less, DeadlinePasses, Inv, TypeOK
    <2>4. late' # {}  BY <2>1
    <2> QED  BY <2>1, <2>2, <2>3, <2>4, HandlerStep
  <1>2. CASE ~player[Host].paused
    <2>1. Steps(World, World) /\ Calm(World, World)  BY <1>0, StepsSelf
    <2>2. UNCHANGED <<player, chan, late>>  BY <1>2 DEF DeadlinePasses
    <2>3. Less({})  BY <2>2 DEF Less, DeadlinePasses, Inv, TypeOK
    <2> QED  BY <1>0, <2>1, <2>2, <2>3, HandlerStep
  <1> QED  BY <1>1, <1>2

LEMMA AnnouncesAgainStep ==
  ASSUME Inv, NEW j \in Joiners, AnnouncesAgain(j) PROVE Inv' /\ NoneStarts
  <1> DEFINE v == Announce(World, j)
  <1>0. World \in Worlds /\ World.pl = player /\ World.ch = chan  BY WorldIs DEF Inv
  <1>1. player' = v.pl /\ chan' = v.ch /\ player[j].on /\ player[j].tries > 0
    BY DEF AnnouncesAgain, Becomes
  <1>2. Steps(World, v)  BY <1>0, <1>1, AnnounceSteps
  <1> HIDE DEF v
  <1>3. Announced(j) \in SUBSET SocketMessage /\ \A m \in Announced(j) : m.type = "ready" /\ player[m.from].on
    BY <1>1, AnnouncedIs
  <1>4. ~Nobody  BY <1>1 DEF Nobody
  <1>5. Less(Announced(j))  BY DEF Less, AnnouncesAgain, Inv, TypeOK
  <1>6. Moves(World, v)  BY <1>2 DEF Steps
  <1> QED  BY <1>1, <1>2, <1>3, <1>4, <1>5, <1>6, LessStep

LEMMA ReceiveReadyStep ==
  ASSUME Inv, NEW m \in socket, ReceiveReady(m) PROVE Inv' /\ NoneStarts
  <1> DEFINE v == FinishLateJoinReady(World, m.to, m.from)
  <1>0. World \in Worlds /\ World.pl = player /\ World.ch = chan  BY WorldIs DEF Inv
  <1>1. player' = v.pl /\ chan' = v.ch  BY DEF ReceiveReady, Becomes
  <1>2. m.to \in Players /\ m.from \in Joiners /\ player[m.from].on
    <2>1. m \in SocketMessage /\ m.type = "ready"  BY DEF ReceiveReady, Inv, TypeOK
    <2> QED  BY <2>1 DEF SocketMessage, Inv, SaidInv
  <1>3. Steps(World, v)  BY <1>0, <1>2, FinishSteps
  <1> HIDE DEF v
  <1>4. ~Nobody  BY <1>2 DEF Nobody
  <1>5. Less({})  BY DEF Less, ReceiveReady, Inv, TypeOK
  <1> QED  BY <1>1, <1>3, <1>4, <1>5, HandlerStep

LEMMA ReceiveStep ==
  ASSUME Inv, NEW p \in Players, NEW q \in Players, Receive(p, q) PROVE Inv' /\ NoneStarts
  <1> DEFINE w == [World EXCEPT !.ch[q][p] = Tail(@)]
             m == Head(chan[q][p])
             v == Handled(w, p, q, m)
  <1>0. World \in Worlds /\ World.pl = player /\ World.ch = chan  BY WorldIs DEF Inv
  <1>1. player' = v.pl /\ chan' = v.ch /\ chan[q][p] # <<>>
    BY DEF Receive, Becomes
  <1>2. Steps(World, w) /\ Calm(World, w) /\ w.pl = player  BY <1>0, <1>1, TailSteps
  <1>3. w \in Worlds  BY <1>2 DEF Steps, Moves
  <1> HIDE DEF w
  <1>4. m \in Message /\ 1 \in DOMAIN chan[q][p] /\ m = chan[q][p][1]
    BY <1>0, <1>1, WorldFields
  <1> HIDE DEF m
  <1>5. m.type = "ready" => q \in Joiners /\ player[q].on
    BY <1>0, <1>4 DEF Inv, SaidInv, Said
  <1>6. Moves(w, v) /\ (Run(w, m.slots) => Steps(w, v)) /\ (m.type \notin {"resume", "ready"} => Calm(w, v))
    BY <1>2, <1>3, <1>4, <1>5, HandledSteps
  <1> HIDE DEF v
  <1>7. Moves(World, v)
    <2>1. Same(World, v)  BY <1>2, <1>6 DEF Steps, Moves, Same
    <2> QED  BY <1>2, <1>6, <2>1 DEF Steps, Moves
  <1>8. "send" \notin lost => Steps(World, v)
    <2> SUFFICES ASSUME "send" \notin lost PROVE Steps(World, v)
      OBVIOUS
    <2>1. Run(w, m.slots)
      BY <1>0, <1>2, <1>4 DEF Inv, RosterInv, Sound, Run
    <2> QED  BY <1>2, <1>6, <2>1, StepsTrans
  <1>9. Nobody => Calm(World, v)
    <2>1. Nobody => m.type \notin {"resume", "ready"}
      BY <1>0, <1>4 DEF Inv, QuietInv, Quiet
    <2> QED  BY <1>2, <1>6, <2>1, CalmTrans
  <1>10. Less({})  BY DEF Less, Receive, Inv, TypeOK
  <1>11. {} \in SUBSET SocketMessage  OBVIOUS
  <1> QED  BY <1>1, <1>7, <1>8, <1>9, <1>10, <1>11, LessStep


(* What is asked, captured, sent and loaded.                                *)
LEMMA MovingIs ==
  ASSUME Inv
  PROVE  /\ sending \subseteq Transfer /\ loading \subseteq Transfer /\ socket \subseteq SocketMessage
         /\ \A t \in Moving : t.to \in Joiners /\ t.to \in Players /\ t.frame \in Frames
         /\ \A m \in Requests : m.from \in Joiners /\ m.from \in Players
         /\ \A t \in Transfer : t.to \in Joiners /\ t.frame \in Frames /\ t = [to |-> t.to, frame |-> t.frame]
  <1>1. sending \subseteq Transfer /\ loading \subseteq Transfer /\ socket \subseteq SocketMessage
    BY DEF Inv, TypeOK
  <1>2. \A t \in Transfer : t.to \in Joiners /\ t.frame \in Frames /\ t = [to |-> t.to, frame |-> t.frame]
    BY DEF Transfer
  <1>3. \A t \in States : t.to \in Joiners /\ t.frame \in Frames
    BY <1>1 DEF States, SocketMessage
  <1>4. \A m \in Requests : m.from \in Joiners
    BY <1>1 DEF Requests, SocketMessage
  <1> QED  BY <1>1, <1>2, <1>3, <1>4, Parts DEF Moving

LEMMA AsksStep ==
  ASSUME Inv, NEW j \in Joiners, Asks(j) PROVE Inv' /\ NoneStarts
  <1> DEFINE s == [player[j] EXCEPT !.asked = TRUE, !.late = TRUE]
             v == Put(World, j, s)
             m == [type |-> "request", to |-> Host, from |-> j, frame |-> 0]
  <1>0. World \in Worlds /\ World.pl = player /\ World.ch = chan  BY WorldIs DEF Inv
  <1>1. player[j] \in Player /\ j \in Players /\ j # Host  BY <1>0, WorldFields, Parts
  <1>2. player' = v.pl /\ socket' = socket \cup {m} /\ ~player[j].asked
        /\ UNCHANGED <<sending, deadlines, loading, chan, lost, late>>
    BY DEF Asks
  <1>3. /\ s \in Player /\ s.on = player[j].on /\ s.asked = TRUE /\ s.frame = player[j].frame
    BY <1>1 DEF Player
  <1>4. m \in SocketMessage /\ m.type = "request" /\ m.from = j
    BY Parts DEF SocketMessage
  <1> HIDE DEF s, m
  <1>5. /\ v \in Worlds /\ v.ch = chan /\ v.pl[Host] = player[Host]
        /\ \A k \in Players : v.pl[k] = IF k = j THEN s ELSE player[k]
        /\ (Said(World) => Said(v)) /\ (Sound(World) => Sound(v)) /\ (Quiet(World) => Quiet(v))
    BY <1>0, <1>3, JoinerPuts
  <1> HIDE DEF v
  <1>6. /\ World' = v /\ player' \in [Players -> Player]
        /\ chan' \in [Players -> [Players -> Seq(Message)]]
    BY <1>2, <1>5, NextWorld
  <1>7. /\ \A k \in Players : (player'[k].on <=> player[k].on) /\ (player[k].asked => player'[k].asked)
        /\ player'[j].asked /\ player'[Host] = player[Host]
    <2>1. \A k \in Players : (player'[k].on <=> player[k].on) /\ (player[k].asked => player'[k].asked)
      BY <1>2, <1>3, <1>5
    <2>2. player'[j].asked  BY <1>1, <1>2, <1>3, <1>5
    <2> QED  BY <1>2, <1>5, <2>1, <2>2
  <1>8. TypeOK'  BY <1>2, <1>4, <1>6 DEF TypeOK, Inv
  <1>9. SaidInv'
    <2>1. Said(World')  BY <1>5, <1>6 DEF Inv, SaidInv
    <2>2. ASSUME NEW n \in socket', n.type = "ready" PROVE player'[n.from].on
      <3>1. n \in socket  BY <1>2, <1>4, <2>2
      <3>2. n.from \in Players  BY <3>1, MovingIs, Parts DEF SocketMessage
      <3> QED  BY <1>7, <2>2, <3>1, <3>2 DEF Inv, SaidInv
    <2> QED  BY <2>1, <2>2 DEF SaidInv
  <1>10. RosterInv'  BY <1>2, <1>5, <1>6 DEF Inv, RosterInv
  <1>11. Requests' = Requests \cup {m} /\ States' = States /\ Moving' = Moving
    <2>1. Requests' = Requests \cup {m} /\ States' = States  BY <1>2, <1>4 DEF Requests, States
    <2> QED  BY <1>2, <2>1 DEF Moving
  <1>12. OnceInv'
    <2>1. OnceInv  BY DEF Inv
    <2>2. (\A t \in Moving : t.to # j) /\ (\A n \in Requests : n.from # j)
      BY <1>2, <2>1 DEF OnceInv
    <2>3. \A k \in Joiners : player'[k].on => player'[k].asked
      BY <1>7, <2>1, Parts DEF OnceInv
    <2>4. (\A t \in Moving' : player'[t.to].asked) /\ (\A n \in Requests' : player'[n.from].asked)
      BY <1>4, <1>7, <1>11, <2>1, MovingIs DEF OnceInv
    <2>5. \A a, b \in Requests' : a.from = b.from => a = b
      BY <1>4, <1>11, <2>1, <2>2 DEF OnceInv
    <2>6. \A a \in Moving' : \A n \in Requests' : a.to # n.from
      BY <1>4, <1>11, <2>1, <2>2 DEF OnceInv
    <2> QED  BY <1>2, <1>11, <2>1, <2>3, <2>4, <2>5, <2>6 DEF OnceInv
  <1>13. Nobody' => Nobody  BY <1>2, <1>7, Parts DEF Nobody
  <1>14. QuietInv'  BY <1>5, <1>6, <1>13 DEF Inv, QuietInv
  <1>15. FrozenInv'
    <2>1. OneAsks' => OneAsks  BY <1>7, Parts DEF OneAsks
    <2> QED  BY <1>7, <1>11, <1>13, <2>1 DEF Inv, FrozenInv
  <1>16. NoneStarts  BY <1>7, Parts DEF NoneStarts
  <1> QED  BY <1>8, <1>9, <1>10, <1>12, <1>14, <1>15, <1>16 DEF Inv

LEMMA SendStateStep ==
  ASSUME Inv, NEW t \in sending, SendState(t) PROVE Inv' /\ NoneStarts
  <1> DEFINE m == [type |-> "state", to |-> t.to, from |-> Host, frame |-> t.frame]
  <1>1. /\ sending' = sending \ {t} /\ deadlines' = deadlines \cup {t.to} /\ socket' = socket \cup {m}
        /\ UNCHANGED <<player, loading, chan, lost, late>>
    BY DEF SendState
  <1>2. t \in Moving /\ t.to \in Joiners /\ t.frame \in Frames  BY MovingIs DEF Moving
  <1>3. m \in SocketMessage /\ m.type = "state" /\ m.to = t.to /\ m.frame = t.frame
    BY <1>2, Parts DEF SocketMessage
  <1> HIDE DEF m
  <1>4. World' = World  BY <1>1 DEF World
  <1>5. TypeOK'  BY <1>1, <1>2, <1>3 DEF Inv, TypeOK
  <1>6. SaidInv'  BY <1>1, <1>3, <1>4 DEF Inv, SaidInv
  <1>7. RosterInv'  BY <1>1, <1>4 DEF Inv, RosterInv
  <1>8. Requests' = Requests /\ States' = States \cup {m}  BY <1>1, <1>3 DEF Requests, States
  <1>9. Moving' \subseteq Moving \cup {m}  BY <1>1, <1>8 DEF Moving
  <1>10. OnceInv'
    <2>1. OnceInv  BY DEF Inv
    <2>2. \A k \in Joiners : player'[k].on => player'[k].asked  BY <1>1, <2>1 DEF OnceInv
    <2>3. (\A s \in Moving' : player'[s.to].asked) /\ (\A n \in Requests' : player'[n.from].asked)
      BY <1>1, <1>2, <1>3, <1>8, <1>9, <2>1 DEF OnceInv
    <2>4. /\ \A a, b \in sending' : a.to = b.to => a = b
          /\ \A a, b \in loading' : a.to = b.to => a = b
          /\ \A a, b \in Requests' : a.from = b.from => a = b
      BY <1>1, <1>8, <2>1 DEF OnceInv
    <2>5. \A a, b \in States' : a.to = b.to => a = b
      BY <1>3, <1>8, <2>1 DEF OnceInv
    <2>6. \A a \in sending' : \A b \in loading' \cup States' : a.to # b.to
      BY <1>1, <1>3, <1>8, <2>1 DEF OnceInv
    <2>7. \A a \in loading' : \A b \in States' : a.to # b.to
      BY <1>1, <1>3, <1>8, <2>1 DEF OnceInv
    <2>8. \A a \in Moving' : \A n \in Requests' : a.to # n.from
      BY <1>2, <1>3, <1>8, <1>9, <2>1 DEF OnceInv
    <2> QED  BY <2>2, <2>3, <2>4, <2>5, <2>6, <2>7, <2>8 DEF OnceInv
  <1>11. QuietInv'  BY <1>1, <1>4 DEF Inv, QuietInv, Nobody
  <1>12. FrozenInv'
    BY <1>1, <1>2, <1>3, <1>9 DEF Inv, FrozenInv, Nobody, OneAsks
  <1>13. NoneStarts  BY <1>1 DEF NoneStarts
  <1> QED  BY <1>5, <1>6, <1>7, <1>10, <1>11, <1>12, <1>13 DEF Inv

LEMMA ReceiveStateStep ==
  ASSUME Inv, NEW m \in socket, ReceiveState(m) PROVE Inv' /\ NoneStarts
  <1> DEFINE t == [to |-> m.to, frame |-> m.frame]
  <1>1. /\ m.type = "state" /\ socket' = socket \ {m}
        /\ loading' \subseteq loading \cup {t}
        /\ UNCHANGED <<player, sending, deadlines, chan, lost, late>>
    BY DEF ReceiveState
  <1>2. m \in States /\ m \in Moving /\ m.to \in Joiners /\ m.frame \in Frames
    BY <1>1, MovingIs DEF Moving, States
  <1>3. t \in Transfer /\ t.to = m.to /\ t.frame = m.frame  BY <1>2 DEF Transfer
  <1> HIDE DEF t
  <1>4. World' = World  BY <1>1 DEF World
  <1>5. TypeOK'  BY <1>1, <1>3 DEF Inv, TypeOK
  <1>6. SaidInv'  BY <1>1, <1>4 DEF Inv, SaidInv
  <1>7. RosterInv'  BY <1>1, <1>4 DEF Inv, RosterInv
  <1>8. Requests' = Requests /\ States' = States \ {m}  BY <1>1 DEF Requests, States
  <1>9. Moving' \subseteq Moving \cup {t}  BY <1>1, <1>8 DEF Moving
  <1>10. OnceInv'
    <2>1. OnceInv  BY DEF Inv
    <2>2. \A k \in Joiners : player'[k].on => player'[k].asked  BY <1>1, <2>1 DEF OnceInv
    <2>3. (\A s \in Moving' : player'[s.to].asked) /\ (\A n \in Requests' : player'[n.from].asked)
      BY <1>1, <1>2, <1>3, <1>8, <1>9, <2>1 DEF OnceInv
    <2>4. /\ \A a, b \in sending' : a.to = b.to => a = b
          /\ \A a, b \in States' : a.to = b.to => a = b
          /\ \A a, b \in Requests' : a.from = b.from => a = b
      BY <1>1, <1>8, <2>1 DEF OnceInv
    <2>5. \A a, b \in loading' : a.to = b.to => a = b
      BY <1>1, <1>2, <1>3, <2>1 DEF OnceInv
    <2>6. \A a \in sending' : \A b \in loading' \cup States' : a.to # b.to
      BY <1>1, <1>2, <1>3, <1>8, <2>1 DEF OnceInv
    <2>7. \A a \in loading' : \A b \in States' : a.to # b.to
      BY <1>1, <1>2, <1>3, <1>8, <2>1 DEF OnceInv
    <2>8. \A a \in Moving' : \A n \in Requests' : a.to # n.from
      BY <1>2, <1>3, <1>8, <1>9, <2>1 DEF OnceInv
    <2> QED  BY <2>2, <2>3, <2>4, <2>5, <2>6, <2>7, <2>8 DEF OnceInv
  <1>11. QuietInv'  BY <1>1, <1>4 DEF Inv, QuietInv, Nobody
  <1>12. FrozenInv'
    BY <1>1, <1>2, <1>3, <1>9 DEF Inv, FrozenInv, Nobody, OneAsks
  <1>13. NoneStarts  BY <1>1 DEF NoneStarts
  <1> QED  BY <1>5, <1>6, <1>7, <1>10, <1>11, <1>12, <1>13 DEF Inv


LEMMA ReceiveRequestStep ==
  ASSUME Inv, NEW m \in socket, ReceiveRequest(m) PROVE Inv' /\ NoneStarts
  <1> DEFINE j == m.from
             s == [player[Host] EXCEPT !.handled = @ \ {j}, !.ready = @ \ {j}]
             w == Put(World, Host, s)
             v == Pause(w, j)
             t == [to |-> j, frame |-> player[Host].frame]
  <1>0. World \in Worlds /\ World.pl = player /\ World.ch = chan  BY WorldIs DEF Inv
  <1>1. /\ m.type = "request" /\ socket' = socket \ {m}
        /\ UNCHANGED <<deadlines, loading, lost, late>>
        /\ \/ Becomes(v) /\ sending' = sending \cup {t}
           \/ Becomes(w) /\ sending' = sending
    BY DEF ReceiveRequest
  <1>2. m \in Requests /\ j \in Joiners /\ j \in Players
    BY <1>1, MovingIs, Parts DEF Requests
  <1>3. player[Host] \in Player  BY <1>0, WorldFields, Parts
  <1>4. /\ s \in Player /\ s.on = player[Host].on /\ s.asked = player[Host].asked
        /\ s.frame = player[Host].frame /\ s.late = player[Host].late /\ s.paused = player[Host].paused
        /\ s.ready = player[Host].ready \ {j} /\ s.roster = player[Host].roster
        /\ s.pending = player[Host].pending /\ s.peers = player[Host].peers
    BY <1>3 DEF Player
  <1>5. t \in Transfer /\ t.to = j /\ t.frame = player[Host].frame
    <2>1. player[Host].frame \in Frames  BY <1>3 DEF Player
    <2> QED  BY <1>2, <2>1 DEF Transfer
  <1> HIDE DEF s, t
  <1>6. PutRuns(World, Host, s)  BY <1>0, <1>4 DEF PutRuns
  <1>7. PutSaid(World, Host, s)  BY <1>0, <1>4 DEF PutSaid
  <1>8. PutSound(World, Host, s)  BY <1>0, <1>4, Parts DEF PutSound, Sound
  <1>9. Steps(World, w) /\ Calm(World, w)  BY <1>0, <1>4, <1>6, <1>7, <1>8, Parts, PutSteps
  <1>10. w \in Worlds  BY <1>9 DEF Steps, Moves
  <1> HIDE DEF w
  <1>11. CASE Becomes(w) /\ sending' = sending
    <2>1. Less({})  BY <1>1, <1>11 DEF Less, Inv, TypeOK
    <2>2. player' = w.pl /\ chan' = w.ch  BY <1>11 DEF Becomes
    <2> QED  BY <1>9, <2>1, <2>2, HandlerStep
  <1>12. CASE Becomes(v) /\ sending' = sending \cup {t}
    <2>1. Steps(w, v) /\ Calm(w, v) /\ v.pl[Host].paused  BY <1>2, <1>10, PauseSteps
    <2>2. player' = v.pl /\ chan' = v.ch  BY <1>12 DEF Becomes
    <2> HIDE DEF v, j
    <2>3. Steps(World, v) /\ Calm(World, v)  BY <1>9, <2>1, StepsTrans, CalmTrans
    <2>4. v \in Worlds /\ Same(World, v)  BY <2>3 DEF Steps, Moves
    <2>5. /\ World' = v /\ player' \in [Players -> Player]
          /\ chan' \in [Players -> [Players -> Seq(Message)]]
      BY <2>2, <2>4, NextWorld
    <2>6. \A k \in Players : /\ (player'[k].on <=> player[k].on) /\ (player'[k].asked <=> player[k].asked)
                             /\ player'[k].frame = player[k].frame
      BY <1>0, <2>2, <2>4 DEF Same
    <2>7. TypeOK'  BY <1>1, <1>5, <1>12, <2>5 DEF Inv, TypeOK
    <2>8. SaidInv'
      <3>1. Said(World')  BY <2>3, <2>5 DEF Inv, SaidInv, Steps, Moves
      <3>2. ASSUME NEW n \in socket', n.type = "ready" PROVE player'[n.from].on
        <4>1. n.from \in Players  BY <1>1, MovingIs, Parts DEF SocketMessage
        <4> QED  BY <1>1, <2>6, <3>2, <4>1 DEF Inv, SaidInv
      <3> QED  BY <3>1, <3>2 DEF SaidInv
    <2>9. RosterInv'  BY <1>1, <2>3, <2>5 DEF Inv, RosterInv, Steps
    <2>10. Requests' = Requests \ {m} /\ States' = States  BY <1>1 DEF Requests, States
    <2>11. Moving' = Moving \cup {t}  BY <1>1, <1>12, <2>10 DEF Moving
    <2>12. OnceInv'
      <3>1. OnceInv  BY DEF Inv
      <3>2. \A a \in Moving : a.to # j  BY <1>2, <3>1 DEF OnceInv, j
      <3>3. \A n \in Requests' : n.from # j  BY <1>2, <2>10, <3>1 DEF OnceInv, j
      <3>4. \A k \in Joiners : player'[k].on => player'[k].asked  BY <2>6, <3>1, Parts DEF OnceInv
      <3>5. \A n \in Requests' : player'[n.from].asked
        BY <2>6, <2>10, <3>1, MovingIs DEF OnceInv
      <3>6. \A a \in Moving' : player'[a.to].asked
        <4>1. player[j].asked  BY <1>2, <3>1 DEF OnceInv, j
        <4> QED  BY <1>2, <1>5, <2>6, <2>11, <3>1, <4>1, MovingIs DEF OnceInv
      <3>7. \A a, b \in sending' : a.to = b.to => a = b
        BY <1>5, <1>12, <3>1, <3>2 DEF OnceInv, Moving
      <3>8. \A a \in sending' : \A b \in loading' \cup States' : a.to # b.to
        BY <1>1, <1>5, <1>12, <2>10, <3>1, <3>2 DEF OnceInv, Moving
      <3>9. \A a \in Moving' : \A n \in Requests' : a.to # n.from
        BY <1>5, <2>10, <2>11, <3>1, <3>3 DEF OnceInv
      <3> QED  BY <1>1, <2>10, <3>1, <3>4, <3>5, <3>6, <3>7, <3>8, <3>9 DEF OnceInv
    <2>13. Nobody' => Nobody  BY <1>1, <2>6, Parts DEF Nobody
    <2>14. QuietInv'  BY <2>3, <2>5, <2>13 DEF Inv, QuietInv, Calm
    <2>15. FrozenInv'
      <3> SUFFICES ASSUME Nobody', OneAsks', NEW a \in Moving'
                   PROVE  player'[Host].paused /\ a.frame = player'[Host].frame
        BY DEF FrozenInv
      <3>1. OneAsks  BY <2>6, Parts DEF OneAsks
      <3>2. player'[Host].paused /\ player'[Host].frame = player[Host].frame
        BY <2>1, <2>2, <2>6, Parts
      <3>3. a.frame = player[Host].frame
        BY <1>5, <2>11, <2>13, <3>1 DEF Inv, FrozenInv
      <3> QED  BY <3>2, <3>3
    <2>16. NoneStarts  BY <2>6, Parts DEF NoneStarts
    <2> QED  BY <2>7, <2>8, <2>9, <2>12, <2>14, <2>15, <2>16 DEF Inv
  <1> QED  BY <1>1, <1>11, <1>12

LEMMA SendFailsStep ==
  ASSUME Inv, NEW t \in sending, SendFails(t) PROVE Inv' /\ NoneStarts
  <1> DEFINE s == [ClearPending(player[Host], t.to) EXCEPT !.paused = FALSE]
             v == Put(World, Host, s)
  <1>0. World \in Worlds /\ World.pl = player /\ World.ch = chan  BY WorldIs DEF Inv
  <1>1. /\ player' = v.pl /\ sending' = sending \ {t} /\ lost' = lost \cup {"send"}
        /\ UNCHANGED <<deadlines, loading, chan, socket, late>>
    BY DEF SendFails
  <1>2. player[Host] \in Player  BY <1>0, WorldFields, Parts
  <1>3. /\ s \in Player /\ s.on = player[Host].on /\ s.asked = player[Host].asked
        /\ s.frame = player[Host].frame /\ s.late = player[Host].late
        /\ s.ready = player[Host].ready
    BY <1>2 DEF Player, ClearPending
  <1> HIDE DEF s
  <1>4. PutRuns(World, Host, s)  BY <1>0, <1>3 DEF PutRuns
  <1>5. PutSaid(World, Host, s)  BY <1>0, <1>3 DEF PutSaid
  <1>6. Moves(World, v)  BY <1>0, <1>3, <1>4, <1>5, Parts, PutSteps
  <1>7. v \in Worlds /\ v.ch = chan /\ Same(World, v)
    BY <1>0, <1>3, <1>6, Parts, PutIs DEF Moves
  <1> HIDE DEF v
  <1>8. /\ World' = v /\ player' \in [Players -> Player]
        /\ chan' \in [Players -> [Players -> Seq(Message)]]
    BY <1>1, <1>7, NextWorld
  <1>9. \A k \in Players : (player'[k].on <=> player[k].on) /\ (player'[k].asked <=> player[k].asked)
    BY <1>0, <1>1, <1>7 DEF Same
  <1>10. TypeOK'  BY <1>1, <1>8 DEF Inv, TypeOK
  <1>11. SaidInv'
    <2>1. Said(World')  BY <1>6, <1>8 DEF Inv, SaidInv, Moves
    <2>2. ASSUME NEW n \in socket', n.type = "ready" PROVE player'[n.from].on
      <3>1. n.from \in Players  BY <1>1, MovingIs, Parts DEF SocketMessage
      <3> QED  BY <1>1, <1>9, <2>2, <3>1 DEF Inv, SaidInv
    <2> QED  BY <2>1, <2>2 DEF SaidInv
  <1>12. RosterInv'  BY <1>1 DEF RosterInv
  <1>13. Requests' = Requests /\ States' = States /\ Moving' \subseteq Moving
    BY <1>1 DEF Requests, States, Moving
  <1>14. OnceInv'
    <2>1. OnceInv  BY DEF Inv
    <2>2. \A k \in Joiners : player'[k].on => player'[k].asked  BY <1>9, <2>1, Parts DEF OnceInv
    <2>3. (\A a \in Moving' : player'[a.to].asked) /\ (\A n \in Requests' : player'[n.from].asked)
      BY <1>9, <1>13, <2>1, MovingIs DEF OnceInv
    <2>4. \A a \in Moving' : \A n \in Requests' : a.to # n.from
      BY <1>13, <2>1 DEF OnceInv
    <2> QED  BY <1>1, <1>13, <2>1, <2>2, <2>3, <2>4 DEF OnceInv
  <1>15. QuietInv'
    <2>1. Nobody' => Nobody  BY <1>1, <1>9, Parts DEF Nobody
    <2> QED  BY <1>0, <1>7, <1>8, <2>1 DEF Inv, QuietInv, Quiet
  <1>16. FrozenInv'
    <2> SUFFICES ASSUME OneAsks', NEW a \in Moving' PROVE FALSE
      BY DEF FrozenInv
    <2>1. OnceInv  BY DEF Inv
    <2>2. a \in Moving /\ t \in Moving  BY <1>13 DEF Moving
    <2>3. a.to = t.to
      BY <1>9, <2>1, <2>2, MovingIs DEF OnceInv, OneAsks
    <2>4. a \in sending \/ a \in loading \cup States  BY <2>2 DEF Moving
    <2>5. a = t  BY <2>1, <2>3, <2>4 DEF OnceInv
    <2>6. t \notin loading \cup States  BY <2>1 DEF OnceInv
    <2> QED  BY <1>1, <1>13, <2>5, <2>6 DEF Moving
  <1>17. NoneStarts  BY <1>9, Parts DEF NoneStarts
  <1> QED  BY <1>10, <1>11, <1>12, <1>14, <1>15, <1>16, <1>17 DEF Inv

LEMMA LoadsStep ==
  ASSUME Inv, NEW t \in loading, Loads(t)
  PROVE  /\ Inv' /\ t.to \in Joiners /\ player'[t.to].frame = t.frame
         /\ \A k \in Joiners : player'[k].on => k = t.to \/ player[k].on
  <1> DEFINE j == t.to
             z == player[j]
             s == [z EXCEPT !.on = TRUE, !.frame = t.frame, !.paused = FALSE,
                            !.roster = z.seen \cup {j}, !.peers = z.seen \ {j}, !.tries = MaxReady]
             w == Put(World, j, s)
             v == Announce(w, j)
  <1>0. World \in Worlds /\ World.pl = player /\ World.ch = chan  BY WorldIs DEF Inv
  <1>1. /\ loading' = loading \ {t} /\ Becomes(v) /\ socket' = socket \cup Announced(j)
        /\ UNCHANGED <<sending, deadlines, lost, late>>
    BY DEF Loads
  <1>2. t \in Moving /\ j \in Joiners /\ j \in Players /\ t.frame \in Frames
    BY MovingIs DEF Moving
  <1>3. z \in Player  BY <1>0, <1>2, WorldFields
  <1>4. s \in Player /\ s.on = TRUE /\ s.asked = z.asked /\ s.tries = MaxReady
        /\ s.frame = t.frame
    <2>1. MaxReady \in 0..MaxReady  BY Parts
    <2> QED  BY <1>2, <1>3, <2>1 DEF Player
  <1> HIDE DEF s
  <1>5. /\ w \in Worlds /\ w.ch = chan
        /\ \A k \in Players : w.pl[k] = IF k = j THEN s ELSE player[k]
        /\ (Said(World) => Said(w)) /\ (Sound(World) => Sound(w))
    BY <1>0, <1>2, <1>4, JoinerPuts
  <1>6. w.pl[j].on /\ w.pl[j].tries > 0  BY <1>2, <1>4, <1>5, Parts
  <1> HIDE DEF w
  <1>7. Steps(w, v)  BY <1>2, <1>5, <1>6, AnnounceSteps
  <1>8. v \in Worlds /\ Same(w, v) /\ (Said(w) => Said(v)) /\ (Sound(w) => Sound(v))
    BY <1>7 DEF Steps, Moves
  <1> HIDE DEF v, j, z
  <1>9. player' = v.pl /\ chan' = v.ch  BY <1>1 DEF Becomes
  <1>10. /\ World' = v /\ player' \in [Players -> Player]
         /\ chan' \in [Players -> [Players -> Seq(Message)]]
    BY <1>8, <1>9, NextWorld
  <1>11. /\ player'[j].on
         /\ \A k \in Players : (player[k].on => player'[k].on) /\ (player'[k].asked <=> player[k].asked)
                               /\ (player'[k].on => k = j \/ player[k].on)
    <2>1. \A k \in Players : (player'[k].on <=> w.pl[k].on) /\ (player'[k].asked <=> w.pl[k].asked)
      BY <1>8, <1>9 DEF Same
    <2>2. \A k \in Players : w.pl[k].asked <=> player[k].asked
      BY <1>4, <1>5 DEF z
    <2>3. \A k \in Players : (player[k].on => w.pl[k].on) /\ (w.pl[k].on => k = j \/ player[k].on)
      BY <1>4, <1>5
    <2> QED  BY <1>2, <1>6, <2>1, <2>2, <2>3
  <1>12. Announced(j) \subseteq SocketMessage /\ \A m \in Announced(j) : m.type = "ready" /\ m.from = j
    BY <1>2, AnnouncedIs
  <1>13. TypeOK'  BY <1>1, <1>10, <1>12 DEF Inv, TypeOK
  <1>14. SaidInv'
    <2>1. Said(World')  BY <1>5, <1>8, <1>10 DEF Inv, SaidInv
    <2>2. ASSUME NEW n \in socket', n.type = "ready" PROVE player'[n.from].on
      <3> CASE n \in Announced(j)  BY <1>11, <1>12
      <3> CASE n \in socket
        <4>1. n.from \in Players  BY MovingIs, Parts DEF SocketMessage
        <4> QED  BY <1>11, <2>2, <4>1 DEF Inv, SaidInv
      <3> QED  BY <1>1
    <2> QED  BY <2>1, <2>2 DEF SaidInv
  <1>15. RosterInv'  BY <1>1, <1>5, <1>8, <1>10 DEF Inv, RosterInv
  <1>16. Requests' = Requests /\ States' = States /\ Moving' \subseteq Moving
    <2>1. Requests' = Requests /\ States' = States  BY <1>1, <1>12 DEF Requests, States
    <2> QED  BY <1>1, <2>1 DEF Moving
  <1>17. OnceInv'
    <2>1. OnceInv  BY DEF Inv
    <2>2. \A k \in Joiners : player'[k].on => player'[k].asked
      BY <1>2, <1>11, <2>1, Parts DEF OnceInv, j
    <2>3. (\A a \in Moving' : player'[a.to].asked) /\ (\A n \in Requests' : player'[n.from].asked)
      BY <1>11, <1>16, <2>1, MovingIs DEF OnceInv
    <2>4. \A a \in Moving' : \A n \in Requests' : a.to # n.from
      BY <1>16, <2>1 DEF OnceInv
    <2> QED  BY <1>1, <1>16, <2>1, <2>2, <2>3, <2>4 DEF OnceInv
  <1>18. ~Nobody'  BY <1>2, <1>11 DEF Nobody
  <1>19. player'[j].frame = t.frame  BY <1>2, <1>4, <1>5, <1>8, <1>9 DEF Same
  <1>20. \A k \in Joiners : player'[k].on => k = j \/ player[k].on  BY <1>11, Parts
  <1>21. Inv'  BY <1>13, <1>14, <1>15, <1>17, <1>18 DEF Inv, QuietInv, FrozenInv
  <1> QED  BY <1>2, <1>19, <1>20, <1>21 DEF j

LEMMA LoadFailsStep ==
  ASSUME Inv, NEW t \in loading, LoadFails(t) PROVE Inv' /\ NoneStarts
  <1>1. World \in Worlds /\ World.pl = player /\ World.ch = chan  BY WorldIs DEF Inv
  <1>2. Steps(World, World) /\ Calm(World, World)  BY <1>1, StepsSelf
  <1>3. Less({})  BY DEF Less, LoadFails, Inv, TypeOK
  <1>4. player' = World.pl /\ chan' = World.ch  BY <1>1 DEF LoadFails
  <1> QED  BY <1>2, <1>3, <1>4, HandlerStep

LEMMA TickStep ==
  ASSUME Inv, Tick PROVE Inv' /\ NoneStarts
  <1> DEFINE s == [player[Host] EXCEPT !.frame = @ + 1]
             v == Put(World, Host, s)
  <1>0. World \in Worlds /\ World.pl = player /\ World.ch = chan  BY WorldIs DEF Inv
  <1>1. /\ player' = v.pl /\ ~player[Host].paused /\ player[Host].frame < MaxFrame
        /\ UNCHANGED <<sending, deadlines, loading, chan, socket, lost, late>>
    BY DEF Tick
  <1>2. player[Host] \in Player  BY <1>0, WorldFields, Parts
  <1>3. /\ s \in Player /\ s.on = player[Host].on /\ s.asked = player[Host].asked /\ s.late = player[Host].late
        /\ s.ready = player[Host].ready /\ s.roster = player[Host].roster
        /\ s.peers = player[Host].peers /\ s.pending = player[Host].pending
    <2>1. player[Host].frame \in Frames  BY <1>2 DEF Player
    <2>2. player[Host].frame + 1 \in Frames  BY <1>1, <2>1, LateJoinAssumption DEF Frames
    <2> QED  BY <1>2, <2>2 DEF Player
  <1> HIDE DEF s
  <1>4. /\ v \in Worlds /\ v.ch = chan
        /\ \A k \in Players : v.pl[k] = IF k = Host THEN s ELSE player[k]
    BY <1>0, <1>3, Parts, PutIs
  <1> HIDE DEF v
  <1>5. /\ World' = v /\ player' \in [Players -> Player]
        /\ chan' \in [Players -> [Players -> Seq(Message)]]
    BY <1>1, <1>4, NextWorld
  <1>6. \A k \in Players : /\ (v.pl[k].on <=> player[k].on) /\ (v.pl[k].asked <=> player[k].asked)
                           /\ (v.pl[k].late <=> player[k].late) /\ v.pl[k].ready = player[k].ready
                           /\ v.pl[k].roster = player[k].roster /\ v.pl[k].peers = player[k].peers
                           /\ v.pl[k].pending = player[k].pending
    BY <1>3, <1>4
  <1>7. TypeOK'  BY <1>1, <1>5 DEF Inv, TypeOK
  <1>8. SaidInv'
    <2>1. Said(v)  BY <1>0, <1>4, <1>6, Parts DEF Inv, SaidInv, Said
    <2>2. ASSUME NEW n \in socket, n.type = "ready" PROVE v.pl[n.from].on
      <3>1. n.from \in Players  BY MovingIs, Parts DEF SocketMessage
      <3> QED  BY <1>6, <2>2, <3>1 DEF Inv, SaidInv
    <2> QED  BY <1>1, <1>5, <2>1, <2>2 DEF SaidInv
  <1>9. RosterInv'
    <2>1. \A S : Run(World, S) => Run(v, S)  BY <1>0, <1>6, Parts DEF Run
    <2>2. ASSUME Sound(World) PROVE Sound(v)
      <3>1. v.pl[Host].on /\ ~v.pl[Host].late  BY <1>0, <1>6, <2>2, Parts DEF Sound
      <3>2. \A r \in Running : Run(v, v.pl[r].roster)
        BY <1>0, <1>6, <2>1, <2>2, Parts DEF Sound
      <3>3. \A p, q \in Players : \A i \in DOMAIN v.ch[p][q] : Run(v, v.ch[p][q][i].slots)
        BY <1>0, <1>4, <2>1, <2>2 DEF Sound
      <3>4. Run(v, v.pl[Host].peers \ v.pl[Host].pending)
        BY <1>0, <1>6, <2>1, <2>2, Parts DEF Sound
      <3> QED  BY <3>1, <3>2, <3>3, <3>4 DEF Sound
    <2> QED  BY <1>1, <1>5, <2>2 DEF Inv, RosterInv
  <1>10. Requests' = Requests /\ States' = States /\ Moving' = Moving
    BY <1>1 DEF Requests, States, Moving
  <1>11. OnceInv'
    <2>1. OnceInv  BY DEF Inv
    <2>2. \A k \in Joiners : player'[k].on => player'[k].asked  BY <1>1, <1>6, <2>1, Parts DEF OnceInv
    <2>3. (\A a \in Moving' : player'[a.to].asked) /\ (\A n \in Requests' : player'[n.from].asked)
      BY <1>1, <1>6, <1>10, <2>1, MovingIs DEF OnceInv
    <2> QED  BY <1>1, <1>10, <2>1, <2>2, <2>3 DEF OnceInv
  <1>12. Nobody' => Nobody  BY <1>1, <1>6, Parts DEF Nobody
  <1>13. QuietInv'  BY <1>0, <1>4, <1>5, <1>12 DEF Inv, QuietInv, Quiet
  <1>14. FrozenInv'
    <2>1. OneAsks' => OneAsks  BY <1>1, <1>6, Parts DEF OneAsks
    <2> QED  BY <1>1, <1>10, <1>12, <2>1 DEF Inv, FrozenInv
  <1>15. NoneStarts  BY <1>1, <1>6, Parts DEF NoneStarts
  <1> QED  BY <1>7, <1>8, <1>9, <1>11, <1>13, <1>14, <1>15 DEF Inv


(***************************************************************************)
(* Theorems.                                                               *)
(***************************************************************************)

LEMMA InitInv == Init => Inv
  <1> SUFFICES ASSUME Init PROVE Inv
    OBVIOUS
  <1> DEFINE S(p) ==
        [on |-> p \in Running, paused |-> FALSE, late |-> FALSE, asked |-> FALSE, frame |-> 0,
         seen |-> IF p \in Running THEN Running ELSE {},
         peers |-> IF p \in Running THEN Running \ {p} ELSE {},
         open |-> IF p \in Running THEN Running \ {p} ELSE {},
         pending |-> {}, roster |-> {}, ready |-> {}, handled |-> {}, tries |-> 0]
  <1>1. player = [p \in Players |-> S(p)] /\ chan = [p \in Players |-> [q \in Players |-> <<>>]]
        /\ sending = {} /\ deadlines = {} /\ loading = {} /\ socket = {} /\ lost = {} /\ late = {}
    BY DEF Init
  <1>2. ASSUME NEW p \in Players PROVE S(p) \in Player
    <2>1. 0 \in 0..MaxReady  BY Parts
    <2> QED  BY <2>1, Parts DEF Player
  <1>3. \A p \in Players : /\ (S(p).on <=> p \in Running) /\ ~S(p).late /\ S(p).roster = {}
                           /\ S(p).ready = {} /\ S(p).peers = IF p \in Running THEN Running \ {p} ELSE {}
    OBVIOUS
  <1> HIDE DEF S
  <1>4. /\ player \in [Players -> Player] /\ \A p \in Players : player[p] = S(p)
    BY <1>1, <1>2
  <1>5. /\ chan \in [Players -> [Players -> Seq(Message)]]
        /\ \A p, q \in Players : chan[p][q] = <<>> /\ DOMAIN chan[p][q] = {}
    BY <1>1
  <1>6. TypeOK  BY <1>1, <1>4, <1>5 DEF TypeOK
  <1>7. World.pl = player /\ World.ch = chan  BY DEF World
  <1>8. SaidInv  BY <1>1, <1>3, <1>4, <1>5, <1>7, Parts DEF SaidInv, Said
  <1>9. Sound(World)
    <2>1. World.pl[Host].on /\ ~World.pl[Host].late  BY <1>3, <1>4, <1>7, Parts
    <2>2. \A p \in Running : Run(World, World.pl[p].roster)  BY <1>3, <1>4, <1>7, Parts DEF Run
    <2>3. \A p, q \in Players : \A i \in DOMAIN World.ch[p][q] : Run(World, World.ch[p][q][i].slots)
      BY <1>5, <1>7
    <2>4. Run(World, World.pl[Host].peers \ World.pl[Host].pending)
      BY <1>3, <1>4, <1>7, Parts DEF Run
    <2> QED  BY <2>1, <2>2, <2>3, <2>4 DEF Sound
  <1>10. Requests = {} /\ States = {} /\ Moving = {}  BY <1>1 DEF Requests, States, Moving
  <1>11. OnceInv
    <2>1. \A j \in Joiners : ~player[j].on  BY <1>3, <1>4, Parts
    <2> QED  BY <1>1, <1>10, <2>1 DEF OnceInv
  <1>12. QuietInv  BY <1>5, <1>7 DEF QuietInv, Quiet
  <1>13. FrozenInv  BY <1>10 DEF FrozenInv
  <1> QED  BY <1>6, <1>8, <1>9, <1>11, <1>12, <1>13 DEF Inv, RosterInv

(* A step starts nobody, or the joiner whose state was loaded.                *)
LoadedOne ==
  \E t \in loading : /\ t.to \in Joiners /\ player'[t.to].frame = t.frame
                     /\ \A k \in Joiners : player'[k].on => k = t.to \/ player[k].on

LEMMA NextInv == ASSUME Inv, [Next]_vars PROVE Inv' /\ (NoneStarts \/ LoadedOne)
  <1>1. ASSUME NEW p \in Players, UsersUpdated(p) PROVE Inv' /\ NoneStarts
    BY <1>1, UsersStep
  <1>2. ASSUME NEW p \in Players, NEW q \in Players, Receive(p, q) PROVE Inv' /\ NoneStarts
    BY <1>2, ReceiveStep
  <1>3. ASSUME NEW p \in Players, NEW q \in Players, Opens(p, q) PROVE Inv' /\ NoneStarts
    BY <1>3, OpensStep
  <1>4. ASSUME NEW j \in Joiners, AnnouncesAgain(j) PROVE Inv' /\ NoneStarts
    BY <1>4, AnnouncesAgainStep
  <1>5. ASSUME NEW j \in Joiners, DeadlinePasses(j) PROVE Inv' /\ NoneStarts
    BY <1>5, DeadlineStep
  <1>6. ASSUME NEW t \in sending, SendState(t) PROVE Inv' /\ NoneStarts
    BY <1>6, SendStateStep
  <1>7. ASSUME NEW t \in loading, Loads(t) PROVE Inv' /\ LoadedOne
    BY <1>7, LoadsStep DEF LoadedOne
  <1>8. ASSUME NEW m \in socket, ReceiveRequest(m) PROVE Inv' /\ NoneStarts
    BY <1>8, ReceiveRequestStep
  <1>9. ASSUME NEW m \in socket, ReceiveState(m) PROVE Inv' /\ NoneStarts
    BY <1>9, ReceiveStateStep
  <1>10. ASSUME NEW m \in socket, ReceiveReady(m) PROVE Inv' /\ NoneStarts
    BY <1>10, ReceiveReadyStep
  <1>11. CASE Progress
    BY <1>11, <1>1, <1>2, <1>3, <1>4, <1>5, <1>6, <1>7, <1>8, <1>9, <1>10 DEF Progress
  <1>12. CASE Tick  BY <1>12, TickStep
  <1>13. ASSUME NEW j \in Joiners, Comes(j) PROVE Inv' /\ NoneStarts
    BY <1>13, ComesStep
  <1>14. ASSUME NEW j \in Joiners, Asks(j) PROVE Inv' /\ NoneStarts
    BY <1>14, AsksStep
  <1>15. ASSUME NEW j \in Joiners, Breaks(j) PROVE Inv' /\ NoneStarts
    BY <1>15, BreaksStep
  <1>16. ASSUME NEW t \in sending, SendFails(t) PROVE Inv' /\ NoneStarts
    BY <1>16, SendFailsStep
  <1>17. ASSUME NEW t \in loading, LoadFails(t) PROVE Inv' /\ NoneStarts
    BY <1>17, LoadFailsStep
  <1>18. CASE UNCHANGED vars
    <2>1. Inv' <=> Inv
      BY <1>18 DEF vars, Inv, TypeOK, SaidInv, RosterInv, OnceInv, QuietInv, FrozenInv, World,
                   Requests, States, Moving, Nobody, OneAsks
    <2>2. NoneStarts  BY <1>18 DEF vars, NoneStarts
    <2> QED  BY <2>1, <2>2
  <1> QED
    BY <1>11, <1>12, <1>13, <1>14, <1>15, <1>16, <1>17, <1>18 DEF Next

(* At every moment of a match somebody joins, the announcements on their way  *)
(* are of joiners who run, and the host's roster, and the rosters it sent,   *)
(* leave out all others.                                                   *)
THEOREM LateJoinInvariance == Spec => []Inv
  BY InitInv, NextInv, PTL DEF Spec

(* The host and the guests wait for the inputs of a joiner only once it runs,  *)
(* unless a transfer failed: no order of announcements, opening channels and  *)
(* rosters lets a slot into a roster too early (_broadcastRoster).            *)
THEOREM JoinersAreHeldBack == Spec => []RosterSound
  <1>1. Inv => RosterSound
    <2>1. ASSUME Inv, "send" \notin lost PROVE NotActiveUntilReady
      BY <2>1, WorldIs DEF Inv, RosterInv, Sound, Run, NotActiveUntilReady
    <2> QED  BY <2>1 DEF Inv, RosterSound, ActiveAreLoaded
  <1> QED  BY <1>1, LateJoinInvariance, PTL

(* A single joiner starts at the frame at which the host paused, and the host *)
(* is still there: nothing ends its pause before (sendLateJoinState,         *)
(* handleLateJoinState).                                                   *)
SingleStart ==
  \A j \in Joiners :
    player'[j].on /\ ~player[j].on /\ late = {} /\ (\A k \in Joiners \ {j} : ~player[k].asked)
      => player'[j].frame = player[Host].frame

LEMMA SingleStartStep == ASSUME Inv, [Next]_vars PROVE SingleStart
  <1> SUFFICES ASSUME NEW j \in Joiners, player'[j].on, ~player[j].on, late = {},
                      \A k \in Joiners \ {j} : ~player[k].asked
               PROVE  player'[j].frame = player[Host].frame
    BY DEF SingleStart
  <1>1. LoadedOne  BY NextInv DEF NoneStarts
  <1>2. PICK t \in loading : t.to \in Joiners /\ player'[t.to].frame = t.frame
                             /\ \A k \in Joiners : player'[k].on => k = t.to \/ player[k].on
    BY <1>1 DEF LoadedOne
  <1>3. j = t.to  BY <1>2
  <1>4. Nobody  BY DEF Inv, OnceInv, Nobody
  <1>5. OneAsks  BY DEF OneAsks
  <1>6. t.frame = player[Host].frame  BY <1>4, <1>5 DEF Inv, FrozenInv, Moving
  <1> QED  BY <1>2, <1>3, <1>6

THEOREM SingleJoinerStartsWithHost == Spec => StartsWithHost
  <1>1. Inv /\ [Next]_vars => [SingleStart]_vars  BY SingleStartStep
  <1>2. Spec => [][SingleStart]_vars  BY <1>1, LateJoinInvariance, PTL DEF Spec
  <1> QED  BY <1>2 DEF StartsWithHost, SingleStart


=============================================================================
