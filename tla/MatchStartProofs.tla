--------------------------- MODULE MatchStartProofs ---------------------------
(***************************************************************************)
(* What the players of a match start from, for every value of MatchStart's   *)
(* constants.                                                              *)
(*                                                                         *)
(* Engines: the only delay on its way is the host's own, and an engine       *)
(* starts with it unless its deadline passed.                              *)
(*                                                                         *)
(* Starting states: every peer says once to the host that its emulator is    *)
(* ready, so the host looks for a state once.  It sends one state, which is  *)
(* all that anybody who does not give up waiting can start from.           *)
(***************************************************************************)
EXTENDS MatchStart, TLAPS

(***************************************************************************)
(* The invariant.                                                          *)
(***************************************************************************)

D == OwnDelay[Host]
h == player[Host]

Early  == {"idle", "booting"}
Loaded == {"lockstepReady", "running"}

(* The delays of a player: those on their way, agreed or waited for.         *)
DelaysOf(p, s) ==
  \A q \in Players : \A i \in DOMAIN s.out[q] :
    /\ s.out[q][i].type \in {"rb-delay", "rb-init-frame"} => p = Host
    /\ s.out[q][i].type = "rb-delay" => s.out[q][i].n = D

EngineOK(p, s) ==
  /\ s.hostDelay \in {0, D}
  /\ s.pending[1] = "catchup" => s.pending[3] = D
  /\ p = Host /\ s.phase = "running" => s.delay = D
  /\ DelaysOf(p, s)

Agrees(s) == s.engine # Off => s.engine.delay = D

EngineInv ==
  /\ \A p \in Players : p \notin player[p].peers /\ EngineOK(p, player[p])
  /\ "rbInit" \notin late => \A p \in Players : Agrees(player[p])

(* Somebody who has no state yet; somebody who has the state of bytes b.     *)
StateTasks(s) == s.tasks \cap SaveState
FromHost(b)   == [bytes |-> b, sram |-> TRUE]

NoState(s) == s.phase \notin Loaded /\ StateTasks(s) = {}

StateOK(b, p, s) ==
  /\ s.phase = "lockstepReady" => s.bytes = b /\ (p = Host \/ s.sram)
  /\ s.phase = "running" => s.began = FromHost(b)
  /\ StateTasks(s) \subseteq {FromHost(b)}

(* What a peer q of the host says of its emulator, it says once.             *)
Says(s) == {i \in DOMAIN s.out[Host] : s.out[Host][i].type = "emu-ready"}

BootOver(s) == s.phase \notin Early => s.boot = "off"

SaidOnce(q, s) ==
  /\ BootOver(s)
  /\ q \in h.emu => Says(s) = {}
  /\ \A i, j \in Says(s) : i = j
  /\ q \in h.emu \/ Says(s) # {} => s.phase \notin Early /\ Host \notin s.peers \ s.open

LookedUp == h.phase \notin Early /\ h.peers \subseteq h.emu

Unsent ==
  /\ \A p \in Players : relay[p] = {} /\ NoState(player[p])
  /\ Kind("lookup") \in h.tasks \/ Kind("capture") \in h.tasks => LookedUp
  /\ Kind("lookup") \notin h.tasks \/ Kind("capture") \notin h.tasks

Sent(b) ==
  /\ \A p \in Players : relay[p] \subseteq {FromHost(b)} /\ StateOK(b, p, player[p])
  /\ Kind("lookup") \notin h.tasks /\ Kind("capture") \notin h.tasks
  /\ LookedUp

StateInv ==
  /\ relay[Host] = {} /\ StateTasks(h) = {} /\ BootOver(h)
  /\ \A q \in h.peers : SaidOnce(q, player[q])
  /\ Unsent \/ \E b \in States \ {"none"} : Sent(b)

BeginInv == "hostWait" \notin late => StateInv

Inv == TypeOK /\ EngineInv /\ BeginInv

(***************************************************************************)
(* Handlers: what one does to the state s of player p.                      *)
(***************************************************************************)

(* The messages of q are those of p and others, none of which is an           *)
(* announcement that an emulator is ready.                                  *)
Grown(a, b) ==
  /\ Len(a) <= Len(b) /\ \A i \in 1..Len(a) : b[i] = a[i]
  /\ \A i \in 1..Len(b) : i > Len(a) => b[i].type # "emu-ready"

(* What the starting states depend on is left alone.                        *)
Quiet(s, t) ==
  /\ t.boot = s.boot /\ t.peers = s.peers /\ t.open = s.open /\ t.emu = s.emu
  /\ t.tasks = s.tasks /\ (t.phase \in Early <=> s.phase \in Early)
  /\ (t.phase \in Loaded <=> s.phase \in Loaded)
  /\ \A q \in Players : Grown(s.out[q], t.out[q])

KeepsState(p, s, t) == \A b \in States \ {"none"} : StateOK(b, p, s) => StateOK(b, p, t)

(* A handler that may start the match, or its engine, but announces nothing. *)
Result(p, s, t) ==
  t \in Player /\ EngineOK(p, t) /\ (Agrees(s) => Agrees(t)) /\ Quiet(s, t) /\ KeepsState(p, s, t)

LEMMA DelayTypes == D \in Delays /\ D \in Nat \ {0} /\ Host \in Players
                    /\ \A p \in Players : OwnDelay[p] \in Delays /\ OwnDelay[p] \in Nat \ {0}
  BY StartAssumption DEF D, Delays, Players

LEMMA AppendGrows ==
  ASSUME NEW a \in Seq(Message), NEW m \in Message, m.type # "emu-ready"
  PROVE  Append(a, m) \in Seq(Message) /\ Grown(a, Append(a, m))
  BY DEF Grown

LEMMA GrownTwice ==
  ASSUME NEW a \in Seq(Message), NEW b \in Seq(Message), NEW c \in Seq(Message),
         Grown(a, b), Grown(b, c)
  PROVE  Grown(a, c)
  BY DEF Grown

LEMMA SameGrows == ASSUME NEW a \in Seq(Message) PROVE Grown(a, a)
  BY DEF Grown

LEMMA ResultTwice ==
  ASSUME NEW p \in Players, NEW s \in Player, NEW t \in Player, NEW u \in Player,
         Result(p, s, t), Result(p, t, u)
  PROVE  Result(p, s, u)
<1>1. \A q \in Players : /\ s.out[q] \in Seq(Message) /\ t.out[q] \in Seq(Message)
                         /\ u.out[q] \in Seq(Message)
  BY DEF Player
<1>2. \A q \in Players : Grown(s.out[q], u.out[q])
  BY <1>1, GrownTwice DEF Result, Quiet
<1>3. Quiet(s, u)
  BY <1>2 DEF Result, Quiet
<1> QED
  BY <1>3 DEF Result, KeepsState

(* A state that differs in nothing said above gives the same.               *)
LEMMA QuietFields ==
  ASSUME NEW s \in Player, NEW t \in Player, t.boot = s.boot, t.peers = s.peers,
         t.open = s.open, t.emu = s.emu, t.tasks = s.tasks, t.phase = s.phase, t.out = s.out
  PROVE  Quiet(s, t)
<1>1. \A q \in Players : s.out[q] \in Seq(Message)
  BY DEF Player
<1> QED
  BY <1>1, SameGrows DEF Quiet

LEMMA StateFields ==
  ASSUME NEW p, NEW s, NEW t, t.phase = s.phase, t.bytes = s.bytes, t.sram = s.sram,
         t.began = s.began, t.tasks = s.tasks
  PROVE  KeepsState(p, s, t)
  BY DEF KeepsState, StateOK, StateTasks

LEMMA Broadcasts ==
  ASSUME NEW p \in Players, NEW s \in Player, EngineOK(p, s), NEW m \in Message,
         m.type # "emu-ready", m.type \in {"rb-delay", "rb-init-frame"} => p = Host,
         m.type = "rb-delay" => m.n = D
  PROVE  Result(p, s, Broadcast(s, m))
<1> DEFINE o == [q \in Players |-> IF q \in s.open THEN Append(s.out[q], m) ELSE s.out[q]]
           t == [s EXCEPT !.out = o]
<1>1. s.out \in [Players -> Seq(Message)]
  BY DEF Player
<1>2. o \in [Players -> Seq(Message)] /\ \A q \in Players : Grown(s.out[q], o[q])
  BY <1>1, AppendGrows, SameGrows
<1>3. \A q \in Players : \A i \in DOMAIN o[q] :
        o[q][i] = m \/ (i \in DOMAIN s.out[q] /\ o[q][i] = s.out[q][i])
  BY <1>1
<1> HIDE DEF o
<1>4. t \in Player
  BY <1>2 DEF Player
<1>5. /\ t.boot = s.boot /\ t.peers = s.peers /\ t.open = s.open /\ t.emu = s.emu
      /\ t.tasks = s.tasks /\ t.phase = s.phase /\ t.out = o
      /\ t.bytes = s.bytes /\ t.sram = s.sram /\ t.began = s.began /\ t.engine = s.engine
      /\ t.hostDelay = s.hostDelay /\ t.pending = s.pending /\ t.delay = s.delay
  BY DEF Player
<1> HIDE DEF t
<1>6. EngineOK(p, t)
  BY <1>3, <1>5 DEF EngineOK, DelaysOf
<1>7. Quiet(s, t) /\ KeepsState(p, s, t) /\ (Agrees(s) => Agrees(t))
  BY <1>2, <1>5, StateFields DEF Quiet, Agrees
<1> QED
  BY <1>4, <1>6, <1>7 DEF Result, Broadcast, t, o

(* The engine starts.  It agrees when it was given the host's delay.         *)
LEMMA DoesInit ==
  ASSUME NEW p \in Players, NEW s \in Player, EngineOK(p, s), NEW delay \in Delays,
         NEW at \in Frames
  PROVE  LET t == DoInit(p, s, delay, at)
         IN /\ t \in Player /\ EngineOK(p, t) /\ (delay = D => Agrees(t))
            /\ Quiet(s, t) /\ KeepsState(p, s, t)
<1> DEFINE e == [delay |-> delay, at |-> at]
           t == [s EXCEPT !.engine = e, !.pending = <<"no">>, !.deferred = FALSE]
           m == [type |-> "rb-init-frame", n |-> at]
<1>1. e \in [delay : Delays, at : Frames \cup {None}] /\ e.delay = delay
  OBVIOUS
<1> HIDE DEF e
<1>2. t \in Player
  BY <1>1 DEF Player
<1>3. /\ t.boot = s.boot /\ t.peers = s.peers /\ t.open = s.open /\ t.emu = s.emu
      /\ t.tasks = s.tasks /\ t.phase = s.phase /\ t.out = s.out
      /\ t.bytes = s.bytes /\ t.sram = s.sram /\ t.began = s.began /\ t.engine = e
      /\ t.hostDelay = s.hostDelay /\ t.pending = <<"no">> /\ t.delay = s.delay
  BY DEF Player
<1> HIDE DEF t
<1>4. EngineOK(p, t) /\ (delay = D => Agrees(t))
  BY <1>1, <1>3 DEF EngineOK, DelaysOf, Agrees
<1>5. Quiet(s, t) /\ KeepsState(p, s, t)
  BY <1>2, <1>3, QuietFields, StateFields
<1>6. m \in Message /\ m.type = "rb-init-frame"
  BY DEF Message
<1> HIDE DEF m
<1>7. ASSUME p = Host PROVE Result(p, t, Broadcast(t, m))
  BY <1>2, <1>4, <1>6, <1>7, Broadcasts
<1>8. ASSUME p = Host
      PROVE  Quiet(s, Broadcast(t, m)) /\ KeepsState(p, s, Broadcast(t, m))
  <2>2. \A q \in Players : /\ s.out[q] \in Seq(Message) /\ t.out[q] \in Seq(Message)
                           /\ Broadcast(t, m).out[q] \in Seq(Message)
    BY <1>2, <1>7, <1>8 DEF Player, Result
  <2>3. \A q \in Players : Grown(s.out[q], Broadcast(t, m).out[q])
    BY <1>5, <1>7, <1>8, <2>2, GrownTwice DEF Result, Quiet
  <2> QED
    BY <1>5, <1>7, <1>8, <2>3 DEF Result, Quiet, KeepsState
<1> QED
  BY <1>2, <1>4, <1>5, <1>7, <1>8 DEF DoInit, Result, t, e, m

LEMMA Waits ==
  ASSUME NEW p \in Players, NEW s \in Player, EngineOK(p, s),
         NEW w \in {<<"no">>, <<"wait">>} \cup ({"catchup"} \X Frames \X {D}), NEW b \in BOOLEAN,
         NEW delay \in Delays, p = Host => delay = D \/ s.phase # "running"
  PROVE  Result(p, s, [s EXCEPT !.delay = delay, !.pending = w, !.deferred = b])
<1> DEFINE t == [s EXCEPT !.delay = delay, !.pending = w, !.deferred = b]
<1>1. w \in {<<"no">>, <<"wait">>} \cup ({"catchup"} \X Frames \X Delays)
      /\ (w[1] = "catchup" => w[3] = D)
  BY DelayTypes
<1>2. t \in Player
  BY <1>1 DEF Player
<1>3. /\ t.boot = s.boot /\ t.peers = s.peers /\ t.open = s.open /\ t.emu = s.emu
      /\ t.tasks = s.tasks /\ t.phase = s.phase /\ t.out = s.out
      /\ t.bytes = s.bytes /\ t.sram = s.sram /\ t.began = s.began /\ t.engine = s.engine
      /\ t.hostDelay = s.hostDelay /\ t.pending = w /\ t.delay = delay
  BY DEF Player
<1> HIDE DEF t
<1>4. EngineOK(p, t) /\ (Agrees(s) => Agrees(t))
  BY <1>1, <1>3 DEF EngineOK, DelaysOf, Agrees
<1>5. Quiet(s, t) /\ KeepsState(p, s, t)
  BY <1>2, <1>3, QuietFields, StateFields
<1> QED
  BY <1>2, <1>4, <1>5 DEF Result, t

LEMMA RequestsInit ==
  ASSUME NEW p \in Players \ {Host}, NEW s \in Player, EngineOK(p, s), NEW at \in Frames
  PROVE  Result(p, s, RequestInit(p, s, D, at))
<1>1. D \in Delays /\ s.frame \in Frames
  BY DelayTypes DEF Player
<1>2. CASE at > s.frame
  <2> DEFINE t == [s EXCEPT !.delay = D, !.pending = <<"catchup", at, D>>, !.deferred = s.deferred]
  <2>1. Result(p, s, t)
    BY <1>1, Waits DEF Player
  <2>2. t = [s EXCEPT !.delay = D, !.pending = <<"catchup", at, D>>]
    BY DEF Player
  <2> QED
    BY <1>2, <2>1, <2>2 DEF RequestInit
<1>3. CASE ~ (at > s.frame)
  <2> DEFINE t == [s EXCEPT !.delay = D, !.pending = s.pending, !.deferred = s.deferred]
             u == DoInit(p, t, D, s.frame)
  <2>1. Result(p, s, t) /\ t = [s EXCEPT !.delay = D]
    <3>1. s.pending \in {<<"no">>, <<"wait">>} \cup ({"catchup"} \X Frames \X {D})
      BY DEF Player, EngineOK
    <3>2. t = [s EXCEPT !.delay = D]
      BY DEF Player
    <3> QED
      BY <1>1, <3>1, <3>2, Waits DEF Player
  <2> HIDE DEF t
  <2>2. /\ u \in Player /\ EngineOK(p, u) /\ Agrees(u) /\ Quiet(t, u) /\ KeepsState(p, t, u)
    BY <1>1, <2>1, DoesInit DEF Result
  <2>3. Result(p, t, u)
    BY <2>2 DEF Result
  <2>4. Result(p, s, u)
    BY <2>1, <2>3, <2>2, ResultTwice DEF Result
  <2> QED
    BY <1>3, <2>1, <2>4 DEF RequestInit
<1> QED
  BY <1>2, <1>3

LEMMA TriesInit ==
  ASSUME NEW p \in Players, NEW s \in Player, EngineOK(p, s), p = Host => s.delay = D
  PROVE  Result(p, s, TryInit(p, s))
<1>1. s.delay \in Delays /\ s.frame \in Frames /\ s.hostInit \in Frames \cup {None}
  BY DEF Player
<1>2. CASE p = Host
  BY <1>1, <1>2, DoesInit DEF Result, TryInit
<1>3. CASE p # Host /\ s.hostDelay > 0 /\ s.hostInit # None
  <2>1. s.hostDelay = D
    BY <1>3 DEF EngineOK
  <2>2. TryInit(p, s) = RequestInit(p, s, D, s.hostInit)
    BY <1>3, <2>1 DEF TryInit
  <2> QED
    BY <1>1, <1>3, <2>2, RequestsInit
<1>4. CASE p # Host /\ ~ (s.hostDelay > 0 /\ s.hostInit # None)
  <2> DEFINE t == [s EXCEPT !.delay = s.delay, !.pending = <<"wait">>, !.deferred = FALSE]
  <2>1. Result(p, s, t)
    BY <1>1, <1>4, Waits
  <2>2. t = [s EXCEPT !.pending = <<"wait">>, !.deferred = FALSE]
    BY DEF Player
  <2> QED
    BY <1>4, <2>1, <2>2 DEF TryInit
<1> QED
  BY <1>2, <1>3, <1>4

(* The state is loaded and the match starts, by somebody who is ready.       *)
LEMMA LoadsState ==
  ASSUME NEW p \in Players, NEW s \in Player, EngineOK(p, s), s.phase = "lockstepReady",
         p = Host => s.delay = D
  PROVE  Result(p, s, LoadState(p, s))
<1>1. CASE s.bytes = "none" /\ p # Host
  <2>1. Quiet(s, s) /\ KeepsState(p, s, s)
    BY QuietFields, StateFields
  <2> QED
    BY <1>1, <2>1 DEF Result, LoadState
<1>2. CASE ~ (s.bytes = "none" /\ p # Host)
  <2> DEFINE began == [bytes |-> s.bytes, sram |-> p = Host \/ s.sram]
             t == [s EXCEPT !.began = began, !.bytes = "none", !.sram = FALSE,
                            !.phase = "running"]
             u == IF Deferred THEN [t EXCEPT !.deferred = TRUE] ELSE TryInit(p, t)
  <2>1. began \in SaveState
    BY DEF Player, SaveState
  <2>2. \A b \in States : s.bytes = b /\ (p = Host \/ s.sram) => began = FromHost(b)
    BY DEF FromHost
  <2> HIDE DEF began
  <2>3. t \in Player
    BY <2>1 DEF Player, Phases, States
  <2>4. /\ t.boot = s.boot /\ t.peers = s.peers /\ t.open = s.open /\ t.emu = s.emu
        /\ t.tasks = s.tasks /\ t.phase = "running" /\ t.out = s.out
        /\ t.began = began /\ t.engine = s.engine
        /\ t.hostDelay = s.hostDelay /\ t.pending = s.pending /\ t.delay = s.delay
    BY DEF Player
  <2>5. LoadState(p, s) = u
    <3>1. [[s EXCEPT !.began = began, !.bytes = "none", !.sram = FALSE] EXCEPT !.phase = "running"]
          = t
      OBVIOUS
    <3> QED
      BY <1>2, <3>1 DEF LoadState, StartLockstep, began
  <2> HIDE DEF t
  <2>6. EngineOK(p, t) /\ (Agrees(s) => Agrees(t))
    BY <2>4 DEF EngineOK, DelaysOf, Agrees
  <2>7. Quiet(s, t)
    <3>1. \A q \in Players : s.out[q] \in Seq(Message)
      BY DEF Player
    <3> QED
      BY <2>4, <3>1, SameGrows DEF Quiet, Early, Loaded
  <2>8. KeepsState(p, s, t)
    BY <2>2, <2>4 DEF KeepsState, StateOK, StateTasks
  <2>9. Result(p, t, u)
    <3>1. CASE Deferred
      <4> DEFINE v == [t EXCEPT !.delay = t.delay, !.pending = t.pending, !.deferred = TRUE]
      <4>1. t.pending \in {<<"no">>, <<"wait">>} \cup ({"catchup"} \X Frames \X {D})
            /\ t.delay \in Delays
        BY <2>3, <2>6 DEF Player, EngineOK
      <4>2. Result(p, t, v)
        BY <2>3, <2>4, <2>6, <4>1, Waits
      <4>3. v = [t EXCEPT !.deferred = TRUE]
        BY <2>3 DEF Player
      <4> QED
        BY <3>1, <4>2, <4>3
    <3>2. CASE ~Deferred
      BY <2>3, <2>4, <2>6, <3>2, TriesInit
    <3> QED
      BY <3>1, <3>2
  <2>10. Result(p, s, t) /\ u \in Player
    BY <2>3, <2>6, <2>7, <2>8, <2>9 DEF Result
  <2> QED
    BY <2>3, <2>5, <2>9, <2>10, ResultTwice
<1> QED
  BY <1>1, <1>2

LEMMA Goes ==
  ASSUME NEW p \in Players, NEW s \in Player, EngineOK(p, s), s.phase = "lockstepReady"
  PROVE  Result(p, s, Go(p, s))
<1> DEFINE t == [s EXCEPT !.delay = OwnDelay[p], !.pending = s.pending, !.deferred = s.deferred]
           m == [type |-> "rb-delay", n |-> OwnDelay[p]]
           u == IF p = Host THEN Broadcast(t, m) ELSE t
<1>1. /\ s.pending \in {<<"no">>, <<"wait">>} \cup ({"catchup"} \X Frames \X {D})
      /\ s.deferred \in BOOLEAN /\ OwnDelay[p] \in Delays /\ (p = Host => OwnDelay[p] = D)
  BY DelayTypes DEF Player, EngineOK, D
<1>2. Result(p, s, t)
  BY <1>1, Waits
<1>3. t = [s EXCEPT !.delay = OwnDelay[p]] /\ t.phase = "lockstepReady" /\ t.delay = OwnDelay[p]
  BY DEF Player
<1> HIDE DEF t
<1>4. m \in Message /\ m.type = "rb-delay" /\ m.n = OwnDelay[p]
  BY <1>1 DEF Message
<1>5. Broadcast(t, m).phase = t.phase /\ Broadcast(t, m).delay = t.delay
  BY <1>2 DEF Broadcast, Player, Result
<1> HIDE DEF m
<1>6. Result(p, t, u)
  <2>1. CASE p = Host
    BY <1>1, <1>2, <1>4, <2>1, Broadcasts DEF Result
  <2>2. CASE p # Host
    BY <1>2, <2>2, QuietFields, StateFields DEF Result
  <2> QED
    BY <2>1, <2>2
<1>7. u \in Player /\ EngineOK(p, u) /\ u.phase = "lockstepReady" /\ (p = Host => u.delay = D)
  BY <1>1, <1>3, <1>5, <1>6 DEF Result
<1>8. Go(p, s) = LoadState(p, u)
  BY <1>3 DEF Go, m
<1> HIDE DEF u
<1>9. Result(p, u, LoadState(p, u))
  BY <1>7, LoadsState
<1>10. Result(p, s, u)
  BY <1>2, <1>6, <1>7, ResultTwice DEF Result
<1>11. LoadState(p, u) \in Player
  BY <1>9 DEF Result
<1> QED
  BY <1>7, <1>8, <1>9, <1>10, <1>11, ResultTwice

LEMMA SameResult ==
  ASSUME NEW p \in Players, NEW s \in Player, EngineOK(p, s)
  PROVE  Result(p, s, s)
  BY QuietFields, StateFields DEF Result

LEMMA ChecksLockstepReady ==
  ASSUME NEW p \in Players, NEW s \in Player, EngineOK(p, s)
  PROVE  Result(p, s, CheckAllLockstepReady(p, s))
  BY Goes, SameResult DEF CheckAllLockstepReady

LEMMA PlainMessage == \A t \in {"emu-ready", "lockstep-ready", "input"} : [type |-> t] \in Message
  BY DEF Message

(* Somebody is ready: with bytes b if it holds them.                         *)
Entered(p, s, t) ==
  /\ t \in Player /\ EngineOK(p, t) /\ (Agrees(s) => Agrees(t))
  /\ t.boot = s.boot /\ t.peers = s.peers /\ t.open = s.open /\ t.emu = s.emu
  /\ t.tasks = s.tasks /\ t.phase \in Loaded
  /\ \A q \in Players : Grown(s.out[q], t.out[q])
  /\ \A b \in States \ {"none"} :
       s.bytes = b /\ (p = Host \/ s.sram) /\ StateTasks(s) \subseteq {FromHost(b)}
         => StateOK(b, p, t)

LEMMA EntersLockstepReady ==
  ASSUME NEW p \in Players, NEW s \in Player, EngineOK(p, s)
  PROVE  Entered(p, s, EnterLockstepReady(p, s))
<1> DEFINE got == IF s.frame = 0 THEN {} ELSE s.got
           t == [s EXCEPT !.phase = "lockstepReady", !.got = got]
           m == [type |-> "lockstep-ready"]
           u == IF s.rtt THEN Broadcast(t, m) ELSE t
           v == CheckAllLockstepReady(p, u)
<1>1. EnterLockstepReady(p, s) = v
  BY DEF EnterLockstepReady, BroadcastLockstepReady
<1>2. got \in SUBSET Players
  BY DEF Player
<1> HIDE DEF got
<1>3. t \in Player
  BY <1>2 DEF Player, Phases
<1>4. /\ t.boot = s.boot /\ t.peers = s.peers /\ t.open = s.open /\ t.emu = s.emu
      /\ t.tasks = s.tasks /\ t.phase = "lockstepReady" /\ t.out = s.out
      /\ t.bytes = s.bytes /\ t.sram = s.sram /\ t.engine = s.engine
      /\ t.hostDelay = s.hostDelay /\ t.pending = s.pending /\ t.delay = s.delay
  BY DEF Player
<1> HIDE DEF t
<1>5. EngineOK(p, t)
  BY <1>4 DEF EngineOK, DelaysOf
<1>6. m \in Message /\ m.type = "lockstep-ready"
  BY PlainMessage
<1> HIDE DEF m
<1>7. Result(p, t, u)
  BY <1>3, <1>5, <1>6, Broadcasts, SameResult
<1> HIDE DEF u
<1>8. Result(p, u, v)
  BY <1>7, ChecksLockstepReady DEF Result
<1>9. Result(p, t, v)
  BY <1>3, <1>7, <1>8, ResultTwice DEF Result
<1> HIDE DEF v
<1>10. \A q \in Players : Grown(s.out[q], v.out[q])
  BY <1>4, <1>9 DEF Result, Quiet
<1> QED
  BY <1>1, <1>4, <1>9, <1>10
  DEF Entered, Result, Quiet, KeepsState, StateOK, StateTasks, Agrees, Loaded

LEMMA MarksReady ==
  ASSUME NEW p \in Players, NEW s \in Player, EngineOK(p, s)
  PROVE  Entered(p, s, MarkInitialStateReady(p, s))
<1> DEFINE t == [s EXCEPT !.timers = @ \ {"hostWait"}]
<1>1. t \in Player
  BY DEF Player
<1>2. /\ t.boot = s.boot /\ t.peers = s.peers /\ t.open = s.open /\ t.emu = s.emu
      /\ t.tasks = s.tasks /\ t.phase = s.phase /\ t.out = s.out
      /\ t.bytes = s.bytes /\ t.sram = s.sram /\ t.engine = s.engine
      /\ t.hostDelay = s.hostDelay /\ t.pending = s.pending /\ t.delay = s.delay
  BY DEF Player
<1> HIDE DEF t
<1>3. EngineOK(p, t)
  BY <1>2 DEF EngineOK, DelaysOf
<1>4. Entered(p, t, EnterLockstepReady(p, t))
  BY <1>1, <1>3, EntersLockstepReady
<1> QED
  BY <1>2, <1>4 DEF Entered, StateTasks, Agrees, MarkInitialStateReady, t

LEMMA FinishesRtt ==
  ASSUME NEW p \in Players, NEW s \in Player, EngineOK(p, s)
  PROVE  Result(p, s, FinishRtt(p, s))
<1> DEFINE t == [s EXCEPT !.rtt = TRUE]
           m == [type |-> "lockstep-ready"]
           u == Broadcast(t, m)
<1>1. t \in Player
  BY DEF Player
<1>2. /\ t.boot = s.boot /\ t.peers = s.peers /\ t.open = s.open /\ t.emu = s.emu
      /\ t.tasks = s.tasks /\ t.phase = s.phase /\ t.out = s.out /\ t.began = s.began
      /\ t.bytes = s.bytes /\ t.sram = s.sram /\ t.engine = s.engine
      /\ t.hostDelay = s.hostDelay /\ t.pending = s.pending /\ t.delay = s.delay
  BY DEF Player
<1>3. FinishRtt(p, s) = IF s.phase = "lockstepReady" THEN CheckAllLockstepReady(p, u) ELSE t
  BY DEF FinishRtt, BroadcastLockstepReady
<1> HIDE DEF t
<1>4. EngineOK(p, t) /\ (Agrees(s) => Agrees(t))
  BY <1>2 DEF EngineOK, DelaysOf, Agrees
<1>5. Result(p, s, t)
  BY <1>1, <1>2, <1>4, QuietFields, StateFields DEF Result
<1>6. m \in Message /\ m.type = "lockstep-ready"
  BY PlainMessage
<1> HIDE DEF m
<1>7. Result(p, t, u)
  BY <1>1, <1>4, <1>6, Broadcasts
<1> HIDE DEF u
<1>8. Result(p, u, CheckAllLockstepReady(p, u))
  BY <1>7, ChecksLockstepReady DEF Result
<1>9. Result(p, s, u)
  BY <1>1, <1>5, <1>7, ResultTwice DEF Result
<1>10. Result(p, s, CheckAllLockstepReady(p, u))
  BY <1>8, <1>9, ResultTwice DEF Result
<1> QED
  BY <1>3, <1>5, <1>10

(***************************************************************************)
(* Steps.                                                                  *)
(***************************************************************************)

Speaks(s, t) ==
  /\ Says(s) = {} => Says(t) = {}
  /\ (\A i, j \in Says(s) : i = j) => (\A i, j \in Says(t) : i = j)

(* Nobody gets a state, and the host hears of nobody.                        *)
Holds(p, s, t) ==
  /\ t.peers \subseteq s.peers
  /\ p = Host => /\ \A r \in t.peers : r \in t.emu <=> r \in s.emu
                 /\ t.tasks \subseteq s.tasks
                 /\ (t.phase \in Early <=> s.phase \in Early)
  /\ StateTasks(t) \subseteq StateTasks(s)
  /\ (t.phase \in Loaded => s.phase \in Loaded)
  /\ KeepsState(p, s, t)

(* Nor does anybody say that an emulator is ready.                          *)
Calm(p, s, t) ==
  /\ Holds(p, s, t)
  /\ BootOver(s) => BootOver(t)
  /\ t.peers \ t.open \subseteq s.peers \ s.open
  /\ (t.phase \in Early <=> s.phase \in Early)
  /\ Speaks(s, t)

LEMMA GrownSpeaks ==
  ASSUME NEW s \in Player, NEW t \in Player, Grown(s.out[Host], t.out[Host])
  PROVE  Says(t) = Says(s) /\ Speaks(s, t)
<1>1. s.out[Host] \in Seq(Message) /\ t.out[Host] \in Seq(Message)
  BY DelayTypes DEF Player
<1>2. Says(t) = Says(s)
  BY <1>1 DEF Says, Grown
<1> QED
  BY <1>2 DEF Speaks

LEMMA ResultIsCalm ==
  ASSUME NEW p \in Players, NEW s \in Player, NEW t, Result(p, s, t)
  PROVE  Calm(p, s, t)
<1>1. t \in Player /\ Speaks(s, t)
  BY GrownSpeaks, DelayTypes DEF Result, Quiet
<1> QED
  BY <1>1 DEF Result, Quiet, Calm, Holds, BootOver, StateTasks

LEMMA SameIsCalm == ASSUME NEW p, NEW s PROVE Calm(p, s, s)
  BY DEF Calm, Holds, BootOver, Speaks, KeepsState

LEMMA HoldStep ==
  ASSUME StateInv, player \in [Players -> Player], relay' = relay,
         \A p \in Players : Holds(p, player[p], player'[p]),
         BootOver(h'), \A q \in h'.peers : SaidOnce(q, player[q])'
  PROVE  StateInv'
<1> USE DelayTypes
<1>1. /\ h'.peers \subseteq h.peers /\ \A r \in h'.peers : r \in h'.emu <=> r \in h.emu
      /\ h'.tasks \subseteq h.tasks
      /\ (h'.phase \in Early <=> h.phase \in Early) /\ StateTasks(h') \subseteq StateTasks(h)
  BY DEF Holds, h
<1>2. relay'[Host] = {} /\ StateTasks(h') = {}
  BY <1>1 DEF StateInv
<1>3. LookedUp => LookedUp'
  BY <1>1 DEF LookedUp
<1>5. CASE Unsent
  <2>1. \A p \in Players : NoState(player'[p])
    BY <1>5 DEF Unsent, NoState, Holds
  <2> QED
    BY <1>1, <1>2, <1>3, <1>5, <2>1 DEF Unsent, StateInv
<1>6. ASSUME NEW b \in States \ {"none"}, Sent(b) PROVE Sent(b)'
  BY <1>1, <1>3, <1>6 DEF Sent, Holds, KeepsState
<1> QED
  BY <1>2, <1>5, <1>6 DEF StateInv

LEMMA CalmStep ==
  ASSUME StateInv, player \in [Players -> Player], relay' = relay,
         \A p \in Players : Calm(p, player[p], player'[p])
  PROVE  StateInv'
<1> USE DelayTypes
<1>1. \A p \in Players : Holds(p, player[p], player'[p])
  BY DEF Calm
<1>2. BootOver(h')
  BY DEF Calm, h, StateInv
<1>3. ASSUME NEW q \in h'.peers PROVE SaidOnce(q, player[q])'
  <2>1. q \in Players /\ q \in h.peers /\ (q \in h'.emu <=> q \in h.emu)
    BY <1>1 DEF Player, h, Holds
  <2>2. SaidOnce(q, player[q]) /\ Calm(q, player[q], player'[q])
    BY <2>1 DEF StateInv
  <2> QED
    BY <2>1, <2>2 DEF Calm, SaidOnce, Speaks
<1> QED
  BY <1>1, <1>2, <1>3, HoldStep

(* One player steps.                                                       *)
LEMMA EngineStep ==
  ASSUME TypeOK, EngineInv, NEW p \in Players, NEW t \in Player, EngineOK(p, t), p \notin t.peers,
         "rbInit" \in late' \/ (Agrees(player[p]) => Agrees(t)), late \subseteq late',
         player' = [player EXCEPT ![p] = t]
  PROVE  EngineInv' /\ player' \in [Players -> Player]
<1>1. player' \in [Players -> Player]
  BY DEF TypeOK
<1>2. \A q \in Players : player'[q] = IF q = p THEN t ELSE player[q]
  BY DEF TypeOK
<1> QED
  BY <1>1, <1>2 DEF EngineInv

LEMMA LocalStep ==
  ASSUME Inv, NEW p \in Players, NEW t \in Player, EngineOK(p, t), Calm(p, player[p], t),
         "rbInit" \in late' \/ (Agrees(player[p]) => Agrees(t)), late \subseteq late',
         player' = [player EXCEPT ![p] = t], relay' = relay, lost' \in 0..MaxLost,
         late' \subseteq {"sync", "hostWait", "rbInit", "renderer"}
  PROVE  Inv'
<1>1. p \notin t.peers
  BY DEF Inv, EngineInv, Calm, Holds
<1>2. EngineInv' /\ TypeOK'
  BY <1>1, EngineStep DEF Inv, TypeOK
<1>3. \A q \in Players : Calm(q, player[q], player'[q])
  BY SameIsCalm DEF Inv, TypeOK
<1>4. BeginInv'
  BY <1>3, CalmStep DEF Inv, BeginInv, TypeOK
<1> QED
  BY <1>2, <1>4 DEF Inv

LEMMA SameEngine ==
  ASSUME NEW p, NEW s, NEW t, EngineOK(p, s), t.out = s.out, t.engine = s.engine,
         t.hostDelay = s.hostDelay, t.pending = s.pending, t.delay = s.delay,
         t.phase = "running" => s.phase = "running"
  PROVE  EngineOK(p, t) /\ (Agrees(s) => Agrees(t))
  BY DEF EngineOK, DelaysOf, Agrees

LEMMA StepInv ==
  ASSUME Inv, NEW p \in Players, NEW t \in Player, Step(p, t), EngineOK(p, t),
         Agrees(player[p]) => Agrees(t), Calm(p, player[p], t)
  PROVE  Inv'
  BY LocalStep DEF Step, Inv, TypeOK

LEMMA InvOf ==
  ASSUME Inv, NEW p \in Players
  PROVE  player[p] \in Player /\ EngineOK(p, player[p]) /\ p \notin player[p].peers
  BY DEF Inv, TypeOK, EngineInv

LEMMA TapsInv == ASSUME Inv, NEW p \in Players, Taps(p) PROVE Inv'
<1> DEFINE s == player[p]
           t == [s EXCEPT !.boot = "polling"]
<1>1. s \in Player /\ EngineOK(p, s) /\ s.boot = "prompt" /\ Step(p, t)
  BY InvOf DEF Taps
<1> HIDE DEF s
<1>2. t \in Player
  BY <1>1 DEF Player
<1>3. /\ t.peers = s.peers /\ t.open = s.open /\ t.emu = s.emu
      /\ t.tasks = s.tasks /\ t.phase = s.phase /\ t.out = s.out /\ t.began = s.began
      /\ t.bytes = s.bytes /\ t.sram = s.sram /\ t.engine = s.engine
      /\ t.hostDelay = s.hostDelay /\ t.pending = s.pending /\ t.delay = s.delay
  BY <1>1 DEF Player
<1> HIDE DEF t
<1>4. EngineOK(p, t) /\ (Agrees(s) => Agrees(t)) /\ KeepsState(p, s, t)
  BY <1>1, <1>3, SameEngine, StateFields
<1>5. Calm(p, s, t)
  BY <1>1, <1>3, <1>4 DEF Calm, Holds, BootOver, Speaks, Says, StateTasks
<1> QED
  BY <1>1, <1>2, <1>4, <1>5, StepInv DEF s

LEMMA RendererRetryInv == ASSUME Inv, NEW p \in Players, RendererRetry(p) PROVE Inv'
<1> DEFINE s == player[p]
           t == [s EXCEPT !.boot = "off"]
<1>1. s \in Player /\ EngineOK(p, s)
  BY InvOf
<1>2. player' = [player EXCEPT ![p] = t] /\ relay' = relay /\ late \subseteq late'
      /\ lost' \in 0..MaxLost /\ late' \subseteq {"sync", "hostWait", "rbInit", "renderer"}
  BY DEF RendererRetry, Inv, TypeOK
<1> HIDE DEF s
<1>3. t \in Player
  BY <1>1 DEF Player
<1>4. /\ t.peers = s.peers /\ t.open = s.open /\ t.emu = s.emu /\ t.boot = "off"
      /\ t.tasks = s.tasks /\ t.phase = s.phase /\ t.out = s.out /\ t.began = s.began
      /\ t.bytes = s.bytes /\ t.sram = s.sram /\ t.engine = s.engine
      /\ t.hostDelay = s.hostDelay /\ t.pending = s.pending /\ t.delay = s.delay
  BY <1>1 DEF Player
<1> HIDE DEF t
<1>5. EngineOK(p, t) /\ (Agrees(s) => Agrees(t)) /\ KeepsState(p, s, t)
  BY <1>1, <1>4, SameEngine, StateFields
<1>6. Calm(p, s, t)
  BY <1>1, <1>4, <1>5 DEF Calm, Holds, BootOver, Speaks, Says, StateTasks
<1> QED
  BY <1>2, <1>3, <1>5, <1>6, LocalStep DEF s

LEMMA RttDoneInv == ASSUME Inv, NEW p \in Players, RttDone(p) PROVE Inv'
<1>1. player[p] \in Player /\ EngineOK(p, player[p])
  BY InvOf
<1>2. Result(p, player[p], FinishRtt(p, player[p]))
  BY <1>1, FinishesRtt
<1> QED
  BY <1>1, <1>2, ResultIsCalm, StepInv DEF RttDone, Result

LEMMA SendsInput ==
  ASSUME NEW p \in Players, NEW s \in Player, EngineOK(p, s), s.phase = "running",
         NEW n \in Frames
  PROVE  LET t == [SendInput(s) EXCEPT !.frame = n]
         IN t \in Player /\ EngineOK(p, t) /\ (Agrees(s) => Agrees(t)) /\ Calm(p, s, t)
<1> DEFINE m == [type |-> "input"]
           u == IF s.sent THEN s ELSE Broadcast(s, m)
           t == [u EXCEPT !.sent = TRUE, !.frame = n]
<1>1. m \in Message /\ m.type = "input"
  BY PlainMessage
<1>2. [SendInput(s) EXCEPT !.frame = n] = t
  BY DEF SendInput
<1> HIDE DEF m
<1>3. Result(p, s, u)
  BY <1>1, Broadcasts, SameResult
<1> HIDE DEF u
<1>4. u \in Player
  BY <1>3 DEF Result
<1>5. t \in Player
  BY <1>4 DEF Player
<1>6. /\ t.peers = u.peers /\ t.open = u.open /\ t.emu = u.emu /\ t.boot = u.boot
      /\ t.tasks = u.tasks /\ t.phase = u.phase /\ t.out = u.out /\ t.began = u.began
      /\ t.bytes = u.bytes /\ t.sram = u.sram /\ t.engine = u.engine
      /\ t.hostDelay = u.hostDelay /\ t.pending = u.pending /\ t.delay = u.delay
  BY <1>4 DEF Player
<1> HIDE DEF t
<1>7. Result(p, u, t)
  BY <1>3, <1>4, <1>5, <1>6, SameEngine, QuietFields, StateFields DEF Result
<1>8. Result(p, s, t)
  BY <1>3, <1>4, <1>5, <1>7, ResultTwice
<1> QED
  BY <1>2, <1>5, <1>8, ResultIsCalm DEF Result

LEMMA TickInv == ASSUME Inv, NEW p \in Players, Tick(p) PROVE Inv'
<1> DEFINE s == player[p]
<1>1. s \in Player /\ EngineOK(p, s) /\ s.phase = "running"
  BY InvOf DEF Tick
<1>2. PICK n \in Frames : Step(p, [SendInput(s) EXCEPT !.frame = n])
  <2>1. CASE Step(p, SendInput(s))
    <3>1. SendInput(s) = [SendInput(s) EXCEPT !.frame = s.frame] /\ s.frame \in Frames
      <4>1. s.frame \in Frames /\ Broadcast(s, [type |-> "input"]).frame = s.frame
        BY <1>1 DEF Player, Broadcast
      <4> QED
        BY <1>1, <4>1 DEF SendInput, Broadcast, Player
    <3> QED
      BY <2>1, <3>1
  <2>2. CASE s.frame < MaxFrame /\ Step(p, [SendInput(s) EXCEPT !.frame = @ + 1])
    <3>1. s.frame + 1 \in Frames /\ SendInput(s).frame = s.frame
      <4>1. s.frame \in Frames /\ Broadcast(s, [type |-> "input"]).frame = s.frame
        BY <1>1 DEF Player, Broadcast
      <4>2. s.frame + 1 \in Frames
        BY <2>2, <4>1, StartAssumption DEF Frames
      <4> QED
        BY <1>1, <4>1, <4>2 DEF SendInput, Broadcast, Player
    <3> QED
      BY <2>2, <3>1
  <2> QED
    BY <2>1, <2>2 DEF Tick
<1> QED
  BY <1>1, <1>2, SendsInput, StepInv

LEMMA CatchUpDoneInv == ASSUME Inv, NEW p \in Players, CatchUpDone(p) PROVE Inv'
<1> DEFINE s == player[p]
<1>1. s \in Player /\ EngineOK(p, s) /\ s.pending[3] = D /\ s.frame \in Frames /\ D \in Delays
  BY InvOf, DelayTypes DEF CatchUpDone, EngineOK, Player
<1>2. Step(p, DoInit(p, s, D, s.frame))
  BY <1>1 DEF CatchUpDone
<1> HIDE DEF s
<1>3. Result(p, s, DoInit(p, s, D, s.frame))
  BY <1>1, DoesInit DEF Result
<1> QED
  BY <1>1, <1>2, <1>3, ResultIsCalm, StepInv DEF Result, s

LEMMA EntersGameplayInv == ASSUME Inv, NEW p \in Players, EntersGameplay(p) PROVE Inv'
<1>1. /\ player[p] \in Player /\ EngineOK(p, player[p])
      /\ p = Host => player[p].delay = D
  BY InvOf DEF EntersGameplay, EngineOK
<1>2. Result(p, player[p], TryInit(p, player[p]))
  BY <1>1, TriesInit
<1> QED
  BY <1>1, <1>2, ResultIsCalm, StepInv DEF EntersGameplay, Result

LEMMA RbInitTimeoutInv == ASSUME Inv, NEW p \in Players, RbInitTimeout(p) PROVE Inv'
<1> DEFINE s == player[p]
           t == DoInit(p, s, s.delay, s.frame)
<1>1. s \in Player /\ EngineOK(p, s) /\ s.delay \in Delays /\ s.frame \in Frames
  BY InvOf DEF Player
<1>2. /\ player' = [player EXCEPT ![p] = t] /\ relay' = relay
      /\ "rbInit" \in late' /\ late \subseteq late' /\ lost' \in 0..MaxLost
      /\ late' \subseteq {"sync", "hostWait", "rbInit", "renderer"}
  BY DEF RbInitTimeout, Inv, TypeOK
<1> HIDE DEF s
<1>3. t \in Player /\ EngineOK(p, t) /\ Quiet(s, t) /\ KeepsState(p, s, t)
  BY <1>1, DoesInit
<1> HIDE DEF t
<1>4. Calm(p, s, t)
  BY <1>1, <1>3, GrownSpeaks, DelayTypes DEF Calm, Holds, BootOver, Quiet, StateTasks
<1> QED
  BY <1>2, <1>3, <1>4, LocalStep DEF s

(* A start that is given up may be tried again.                              *)
LEMMA SyncTimes ==
  ASSUME NEW p \in Players, NEW s \in Player, EngineOK(p, s)
  PROVE  LET t == SyncTimeout(p, [s EXCEPT !.timers = @ \ {"sync"}])
         IN t \in Player /\ EngineOK(p, t) /\ (Agrees(s) => Agrees(t)) /\ Calm(p, s, t)
<1> DEFINE u == [s EXCEPT !.timers = @ \ {"sync"}]
           v == [u EXCEPT !.phase = "emuReady", !.ready = {}]
           t == SyncTimeout(p, u)
<1>1. u \in Player /\ v \in Player
  BY DEF Player, Phases
<1>2. /\ u.peers = s.peers /\ u.open = s.open /\ u.emu = s.emu /\ u.boot = s.boot
      /\ u.tasks = s.tasks /\ u.out = s.out /\ u.began = s.began /\ u.phase = s.phase
      /\ u.bytes = s.bytes /\ u.sram = s.sram /\ u.engine = s.engine
      /\ u.hostDelay = s.hostDelay /\ u.pending = s.pending /\ u.delay = s.delay
  BY DEF Player
<1>3. t \in Player /\ (t = u \/ (t = v /\ s.phase \in {"emuReady", "syncing", "lockstepReady"}))
  BY <1>1, <1>2 DEF SyncTimeout
<1>7. /\ v.peers = s.peers /\ v.open = s.open /\ v.emu = s.emu /\ v.boot = s.boot
      /\ v.tasks = s.tasks /\ v.out = s.out /\ v.began = s.began /\ v.phase = "emuReady"
      /\ v.bytes = s.bytes /\ v.sram = s.sram /\ v.engine = s.engine
      /\ v.hostDelay = s.hostDelay /\ v.pending = s.pending /\ v.delay = s.delay
  BY DEF Player
<1> HIDE DEF t, u, v
<1>4. EngineOK(p, t) /\ (Agrees(s) => Agrees(t))
  BY <1>2, <1>3, <1>7, SameEngine
<1>5. KeepsState(p, s, t)
  BY <1>2, <1>3, <1>7 DEF KeepsState, StateOK, StateTasks
<1>6. Calm(p, s, t)
  BY <1>2, <1>3, <1>5, <1>7 DEF Calm, Holds, BootOver, Speaks, Says, StateTasks, Early, Loaded
<1> QED
  BY <1>3, <1>4, <1>6 DEF t, u

LEMMA TimerFiresInv ==
  ASSUME Inv, NEW p \in Players, NEW k \in {"sync", "hostWait"}, TimerFires(p, k)
  PROVE  Inv'
<1> DEFINE s == player[p]
           w == [s EXCEPT !.timers = @ \ {k}]
           u == Expired(p, w, k)
<1>1. s \in Player /\ EngineOK(p, s) /\ p \notin s.peers
  BY InvOf
<1>2. /\ player' = [player EXCEPT ![p] = u] /\ relay' = relay /\ lost' \in 0..MaxLost
      /\ late \subseteq late' /\ late' \subseteq {"sync", "hostWait", "rbInit", "renderer"}
      /\ u = w \/ k \in late'
  BY DEF TimerFires, Inv, TypeOK
<1> HIDE DEF s
<1>3. CASE k = "sync"
  <2>1. u = SyncTimeout(p, [s EXCEPT !.timers = @ \ {"sync"}])
    BY <1>3 DEF Expired
  <2> QED
    BY <1>1, <1>2, <2>1, SyncTimes, LocalStep DEF s
<1>4. CASE k = "hostWait"
  <2>1. w \in Player
    BY <1>1 DEF Player
  <2>2. /\ w.peers = s.peers /\ w.open = s.open /\ w.emu = s.emu /\ w.boot = s.boot
        /\ w.tasks = s.tasks /\ w.out = s.out /\ w.began = s.began /\ w.phase = s.phase
        /\ w.bytes = s.bytes /\ w.sram = s.sram /\ w.engine = s.engine
        /\ w.hostDelay = s.hostDelay /\ w.pending = s.pending /\ w.delay = s.delay
    BY <1>1 DEF Player
  <2>3. u = HostStateWaitTimeout(p, w)
    BY <1>4 DEF Expired
  <2> HIDE DEF w, u
  <2>4. EngineOK(p, w) /\ (Agrees(s) => Agrees(w))
    BY <1>1, <2>2, SameEngine
  <2>5. CASE w.phase \in Loaded
    <3>1. u = w
      BY <2>3, <2>5 DEF HostStateWaitTimeout, Loaded
    <3>2. Calm(p, s, w)
      BY <1>1, <2>1, <2>2, QuietFields, StateFields, ResultIsCalm, <2>4 DEF Result
    <3> QED
      BY <1>2, <2>1, <2>4, <3>1, <3>2, LocalStep DEF s
  <2>6. CASE w.phase \notin Loaded
    <3>1. u = MarkInitialStateReady(p, w)
      BY <2>3, <2>6 DEF HostStateWaitTimeout, Loaded
    <3>2. Entered(p, w, u)
      BY <2>1, <2>4, <3>1, MarksReady
    <3>3. u # w
      BY <2>6, <3>2 DEF Entered
    <3>4. EngineInv' /\ player' \in [Players -> Player]
      BY <1>1, <1>2, <2>2, <2>4, <3>2, EngineStep DEF Inv, Entered, s
    <3>5. BeginInv'
      BY <1>2, <1>4, <3>3 DEF BeginInv
    <3> QED
      BY <1>2, <3>4, <3>5 DEF Inv, TypeOK
  <2> QED
    BY <2>5, <2>6
<1> QED
  BY <1>3, <1>4

(***************************************************************************)
(* Messages.                                                               *)
(***************************************************************************)

LEMMA KindsDiffer == /\ Kind("lookup") \notin SaveState /\ Kind("capture") \notin SaveState
                     /\ Kind("lookup") # Kind("capture")
  BY DEF Kind, SaveState

LEMMA ChecksEmuReady ==
  ASSUME NEW p \in Players, NEW s \in Player, EngineOK(p, s)
  PROVE  LET t == CheckAllEmuReady(p, s)
         IN /\ t \in Player /\ EngineOK(p, t) /\ (Agrees(s) => Agrees(t))
            /\ t.peers = s.peers /\ t.open = s.open /\ t.emu = s.emu /\ t.boot = s.boot
            /\ t.out = s.out /\ t.began = s.began /\ t.bytes = s.bytes /\ t.sram = s.sram
            /\ StateTasks(t) = StateTasks(s)
            /\ \/ t.phase = s.phase /\ t.tasks = s.tasks
               \/ /\ s.phase = "emuReady" /\ t.phase = "syncing" /\ s.peers \subseteq s.emu
                  /\ t.tasks = s.tasks \cup {Kind("lookup")}
<1>1. CASE ~ (s.phase = "emuReady" /\ s.peers \subseteq s.emu)
  BY <1>1 DEF CheckAllEmuReady
<1>2. CASE s.phase = "emuReady" /\ s.peers \subseteq s.emu
  <2> DEFINE ts == s.tasks \cup {Kind("lookup")}
             t == [s EXCEPT !.phase = "syncing", !.tasks = ts, !.timers = @ \cup {"sync"}]
  <2>1. ts \subseteq [kind : {"lookup", "capture"}] \cup SaveState
    BY DEF Player, Kind
  <2>2. ts \cap SaveState = s.tasks \cap SaveState
    BY KindsDiffer
  <2>3. CheckAllEmuReady(p, s) = t
    BY <1>2 DEF CheckAllEmuReady
  <2>4. ts = s.tasks \cup {Kind("lookup")}
    OBVIOUS
  <2> HIDE DEF ts
  <2>5. t \in Player
    BY <2>1 DEF Player, Phases
  <2>6. /\ t.peers = s.peers /\ t.open = s.open /\ t.emu = s.emu /\ t.boot = s.boot
        /\ t.out = s.out /\ t.began = s.began /\ t.bytes = s.bytes /\ t.sram = s.sram
        /\ t.hostDelay = s.hostDelay /\ t.pending = s.pending /\ t.delay = s.delay
        /\ t.engine = s.engine /\ t.phase = "syncing" /\ t.tasks = ts
    BY DEF Player
  <2> HIDE DEF t
  <2>7. EngineOK(p, t) /\ (Agrees(s) => Agrees(t))
    BY <2>6, SameEngine
  <2> QED
    BY <1>2, <2>2, <2>3, <2>4, <2>5, <2>6, <2>7 DEF StateTasks
<1> QED
  BY <1>1, <1>2

(* A peer's announcement is noted.                                         *)
LEMMA NotesReady ==
  ASSUME NEW p \in Players, NEW q \in Players, NEW s \in Player, EngineOK(p, s),
         NEW m \in Message, m.type = "emu-ready"
  PROVE  LET t == Handled(p, q, s, m)
         IN /\ t \in Player /\ EngineOK(p, t) /\ (Agrees(s) => Agrees(t))
            /\ t.peers = s.peers /\ t.open = s.open /\ t.emu = s.emu \cup {q}
            /\ t.boot = s.boot /\ t.out = s.out /\ t.began = s.began
            /\ t.bytes = s.bytes /\ t.sram = s.sram /\ StateTasks(t) = StateTasks(s)
            /\ \/ t.phase = s.phase /\ t.tasks = s.tasks
               \/ /\ s.phase = "emuReady" /\ t.phase = "syncing"
                  /\ s.peers \subseteq s.emu \cup {q} /\ t.tasks = s.tasks \cup {Kind("lookup")}
<1> DEFINE u == [s EXCEPT !.emu = @ \cup {q}]
<1>1. u \in Player
  BY DEF Player
<1>2. /\ u.peers = s.peers /\ u.open = s.open /\ u.boot = s.boot
      /\ u.out = s.out /\ u.began = s.began /\ u.bytes = s.bytes /\ u.sram = s.sram
      /\ u.hostDelay = s.hostDelay /\ u.pending = s.pending /\ u.delay = s.delay
      /\ u.engine = s.engine /\ u.phase = s.phase /\ u.tasks = s.tasks
      /\ u.emu = s.emu \cup {q}
  BY DEF Player
<1>3. Handled(p, q, s, m) = CheckAllEmuReady(p, u)
  BY DEF Handled
<1> HIDE DEF u
<1>4. EngineOK(p, u) /\ (Agrees(s) => Agrees(u))
  BY <1>2, SameEngine
<1> DEFINE t == CheckAllEmuReady(p, u)
<1>5. /\ t \in Player /\ EngineOK(p, t) /\ (Agrees(u) => Agrees(t))
      /\ t.peers = u.peers /\ t.open = u.open /\ t.emu = u.emu /\ t.boot = u.boot
      /\ t.out = u.out /\ t.began = u.began /\ t.bytes = u.bytes /\ t.sram = u.sram
      /\ StateTasks(t) = StateTasks(u)
      /\ \/ t.phase = u.phase /\ t.tasks = u.tasks
         \/ /\ u.phase = "emuReady" /\ t.phase = "syncing" /\ u.peers \subseteq u.emu
            /\ t.tasks = u.tasks \cup {Kind("lookup")}
  BY <1>1, <1>4, ChecksEmuReady
<1> HIDE DEF t
<1>6. StateTasks(u) = StateTasks(s)
  BY <1>2 DEF StateTasks
<1>7. Handled(p, q, s, m) = t
  BY <1>3 DEF t
<1> QED
  BY <1>2, <1>4, <1>5, <1>6, <1>7

LEMMA HandlesOther ==
  ASSUME NEW p \in Players, NEW q \in Players, NEW s \in Player, EngineOK(p, s),
         NEW m \in Message, m.type # "emu-ready",
         m.type \in {"rb-delay", "rb-init-frame"} => p # Host, m.type = "rb-delay" => m.n = D
  PROVE  Result(p, s, Handled(p, q, s, m))
<1>1. CASE m.type = "lockstep-ready"
  <2> DEFINE u == [s EXCEPT !.ready = @ \cup {q}]
  <2>1. u \in Player
    BY DEF Player
  <2>2. /\ u.peers = s.peers /\ u.open = s.open /\ u.boot = s.boot /\ u.emu = s.emu
        /\ u.out = s.out /\ u.began = s.began /\ u.bytes = s.bytes /\ u.sram = s.sram
        /\ u.hostDelay = s.hostDelay /\ u.pending = s.pending /\ u.delay = s.delay
        /\ u.engine = s.engine /\ u.phase = s.phase /\ u.tasks = s.tasks
    BY DEF Player
  <2>3. Handled(p, q, s, m) = CheckAllLockstepReady(p, u)
    BY <1>1 DEF Handled
  <2> HIDE DEF u
  <2>4. Result(p, s, u)
    BY <2>1, <2>2, SameEngine, QuietFields, StateFields DEF Result
  <2> QED
    BY <2>1, <2>3, <2>4, ChecksLockstepReady, ResultTwice DEF Result
<1>2. CASE m.type = "input"
  <2> DEFINE u == [s EXCEPT !.got = @ \cup {q}]
  <2>1. u \in Player
    BY DEF Player
  <2>2. /\ u.peers = s.peers /\ u.open = s.open /\ u.boot = s.boot /\ u.emu = s.emu
        /\ u.out = s.out /\ u.began = s.began /\ u.bytes = s.bytes /\ u.sram = s.sram
        /\ u.hostDelay = s.hostDelay /\ u.pending = s.pending /\ u.delay = s.delay
        /\ u.engine = s.engine /\ u.phase = s.phase /\ u.tasks = s.tasks
    BY DEF Player
  <2>3. Handled(p, q, s, m) = u
    BY <1>2 DEF Handled
  <2> HIDE DEF u
  <2> QED
    BY <2>1, <2>2, <2>3, SameEngine, QuietFields, StateFields DEF Result
<1>3. CASE m.type = "rb-delay"
  <2> DEFINE u == [s EXCEPT !.hostDelay = D]
             v == [u EXCEPT !.delay = D, !.pending = u.pending, !.deferred = u.deferred]
  <2>1. u \in Player
    BY DelayTypes DEF Player
  <2>2. /\ u.peers = s.peers /\ u.open = s.open /\ u.boot = s.boot /\ u.emu = s.emu
        /\ u.out = s.out /\ u.began = s.began /\ u.bytes = s.bytes /\ u.sram = s.sram
        /\ u.hostDelay = D /\ u.pending = s.pending /\ u.delay = s.delay
        /\ u.engine = s.engine /\ u.phase = s.phase /\ u.tasks = s.tasks
    BY DEF Player
  <2>3. \/ Handled(p, q, s, m) = RequestInit(p, u, D, s.hostInit) /\ s.hostInit \in Frames
        \/ Handled(p, q, s, m) = [u EXCEPT !.delay = D]
    BY <1>3 DEF Handled, Player
  <2> HIDE DEF u
  <2>4. EngineOK(p, u) /\ Result(p, s, u)
    BY <2>1, <2>2, QuietFields, StateFields DEF Result, EngineOK, DelaysOf, Agrees
  <2>5. Result(p, u, v) /\ v = [u EXCEPT !.delay = D]
    <3>1. /\ u.pending \in {<<"no">>, <<"wait">>} \cup ({"catchup"} \X Frames \X {D})
          /\ u.deferred \in BOOLEAN /\ D \in Delays /\ p # Host
      BY <1>3, <2>1, <2>4, DelayTypes DEF Player, EngineOK
    <3>2. v = [u EXCEPT !.delay = D]
      BY <2>1 DEF Player
    <3> QED
      BY <2>1, <2>4, <3>1, <3>2, Waits
  <2> HIDE DEF v
  <2>6. \E t \in Player : Result(p, u, t) /\ Handled(p, q, s, m) = t
    BY <1>3, <2>1, <2>3, <2>4, <2>5, RequestsInit DEF Result
  <2> QED
    BY <2>1, <2>4, <2>6, ResultTwice
<1>4. CASE m.type = "rb-init-frame"
  <2> DEFINE u == [s EXCEPT !.hostInit = m.n]
  <2>1. m.n \in Frames
    BY <1>4 DEF Message
  <2>2. u \in Player
    BY <2>1 DEF Player
  <2>3. /\ u.peers = s.peers /\ u.open = s.open /\ u.boot = s.boot /\ u.emu = s.emu
        /\ u.out = s.out /\ u.began = s.began /\ u.bytes = s.bytes /\ u.sram = s.sram
        /\ u.hostDelay = s.hostDelay /\ u.pending = s.pending /\ u.delay = s.delay
        /\ u.engine = s.engine /\ u.phase = s.phase /\ u.tasks = s.tasks
    BY DEF Player
  <2>4. Handled(p, q, s, m) = u \/ Handled(p, q, s, m) = RequestInit(p, u, D, m.n)
    <3>1. s.hostDelay > 0 => s.hostDelay = D
      BY DEF EngineOK
    <3> QED
      BY <1>4, <3>1 DEF Handled
  <2> HIDE DEF u
  <2>5. EngineOK(p, u) /\ Result(p, s, u)
    BY <2>2, <2>3, SameEngine, QuietFields, StateFields DEF Result
  <2>6. Result(p, u, RequestInit(p, u, D, m.n))
    BY <1>4, <2>1, <2>2, <2>5, RequestsInit
  <2> QED
    BY <2>2, <2>4, <2>5, <2>6, ResultTwice DEF Result
<1>5. m.type \in {"lockstep-ready", "input", "rb-delay", "rb-init-frame"}
  BY DEF Message
<1> QED
  BY <1>1, <1>2, <1>3, <1>4, <1>5

(* A message is taken from the channel.                                    *)
LEMMA Takes ==
  ASSUME NEW p \in Players, NEW q \in Players, NEW s \in Player, EngineOK(q, s),
         s.out[p] # <<>>
  PROVE  LET m == Head(s.out[p])
             u == [s EXCEPT !.out[p] = Tail(@)]
         IN /\ m \in Message
            /\ m.type \in {"rb-delay", "rb-init-frame"} => q = Host
            /\ m.type = "rb-delay" => m.n = D
            /\ u \in Player /\ EngineOK(q, u) /\ (Agrees(s) => Agrees(u)) /\ Calm(q, s, u)
            /\ u.peers = s.peers /\ u.boot = s.boot /\ u.open = s.open /\ u.phase = s.phase
            /\ p = Host /\ m.type = "emu-ready" /\ (\A i, j \in Says(s) : i = j)
                 => Says(s) # {} /\ Says(u) = {}
<1> DEFINE a == s.out[p]
           b == Tail(a)
           m == Head(a)
           u == [s EXCEPT !.out[p] = b]
<1>1. a \in Seq(Message) /\ a # <<>> /\ s.out \in [Players -> Seq(Message)]
  BY DEF Player
<1>2. /\ m \in Message /\ m = a[1] /\ 1 \in DOMAIN a /\ b \in Seq(Message)
      /\ \A i \in DOMAIN b : i + 1 \in DOMAIN a /\ b[i] = a[i + 1] /\ i \in Nat /\ i # 0
  BY <1>1
<1>3. /\ u.boot = s.boot /\ u.peers = s.peers /\ u.open = s.open /\ u.emu = s.emu
      /\ u.tasks = s.tasks /\ u.phase = s.phase /\ u.began = s.began
      /\ u.bytes = s.bytes /\ u.sram = s.sram /\ u.engine = s.engine
      /\ u.hostDelay = s.hostDelay /\ u.pending = s.pending /\ u.delay = s.delay
      /\ u.out = [s.out EXCEPT ![p] = b]
  BY DEF Player
<1>4. u \in Player
  <2> DEFINE o == [s.out EXCEPT ![p] = b]
  <2>1. o \in [Players -> Seq(Message)] /\ u = [s EXCEPT !.out = o]
    BY <1>1, <1>2
  <2> HIDE DEF u, o
  <2> QED
    BY <2>1 DEF Player
<1>5. \A r \in Players : u.out[r] = IF r = p THEN b ELSE s.out[r]
  BY <1>1, <1>3
<1>9. [s EXCEPT !.out[p] = Tail(@)] = u
  OBVIOUS
<1> HIDE DEF u, b
<1>6. EngineOK(q, u) /\ (Agrees(s) => Agrees(u))
  <2>1. DelaysOf(q, u)
    BY <1>2, <1>5 DEF EngineOK, DelaysOf, a
  <2> QED
    BY <1>3, <2>1 DEF EngineOK, Agrees
<1>7. m.type \in {"rb-delay", "rb-init-frame"} => q = Host
  BY <1>2 DEF EngineOK, DelaysOf, a
<1>8. m.type = "rb-delay" => m.n = D
  BY <1>2 DEF EngineOK, DelaysOf, a
<1>10. CASE p = Host
  <2>1. \A i \in Says(u) : i + 1 \in Says(s) /\ i \in Nat /\ i # 0
    BY <1>2, <1>5, <1>10 DEF Says, a
  <2>2. Speaks(s, u)
    BY <2>1 DEF Speaks
  <2>3. m.type = "emu-ready" => 1 \in Says(s)
    BY <1>2, <1>10 DEF Says, a
  <2>4. m.type = "emu-ready" /\ (\A i, j \in Says(s) : i = j) => Says(s) # {} /\ Says(u) = {}
    BY <2>1, <2>3
  <2>5. Calm(q, s, u)
    BY <1>3, <2>2, StateFields DEF Calm, Holds, BootOver, StateTasks
  <2> HIDE DEF a, m
  <2> QED
    BY <1>2, <1>3, <1>4, <1>6, <1>7, <1>8, <1>9, <2>4, <2>5 DEF m, a
<1>11. CASE p # Host
  <2>1. Says(u) = Says(s)
    BY <1>5, <1>11, DelayTypes DEF Says
  <2>2. Calm(q, s, u)
    BY <1>3, <2>1, StateFields DEF Calm, Holds, BootOver, StateTasks, Speaks
  <2> HIDE DEF a, m
  <2> QED
    BY <1>2, <1>3, <1>4, <1>6, <1>7, <1>8, <1>9, <1>11, <2>2 DEF m, a
<1> QED
  BY <1>10, <1>11

(* Two players change, of which one takes a message of the other.            *)
LEMMA PairStep ==
  ASSUME EngineInv, NEW p \in Players, NEW q \in Players,
         NEW t, EngineOK(p, t), t.peers = player[p].peers, Agrees(player[p]) => Agrees(t),
         NEW u, EngineOK(q, u), u.peers = player[q].peers, Agrees(player[q]) => Agrees(u),
         late' = late,
         \A r \in Players : player'[r] = IF r = p THEN t ELSE IF r = q THEN u ELSE player[r]
  PROVE  EngineInv'
  BY DEF EngineInv

(* The host hears that q is ready.                                         *)
LEMMA HostNotes ==
  ASSUME Inv, NEW q \in Players \ {Host}, q \in h.peers, "hostWait" \notin late,
         NEW t, t.peers = h.peers, t.emu = h.emu \cup {q}, t.boot = h.boot,
         t.out = h.out, t.began = h.began, t.bytes = h.bytes, t.sram = h.sram,
         StateTasks(t) = StateTasks(h),
         \/ t.phase = h.phase /\ t.tasks = h.tasks
         \/ /\ h.phase = "emuReady" /\ t.phase = "syncing"
            /\ h.peers \subseteq h.emu \cup {q} /\ t.tasks = h.tasks \cup {Kind("lookup")},
         NEW u, Calm(q, player[q], u), Says(player[q]) # {}, Says(u) = {},
         UNCHANGED relay,
         \A r \in Players : player'[r] = IF r = Host THEN t ELSE IF r = q THEN u ELSE player[r]
  PROVE  StateInv'
<1> USE DelayTypes
<1>1. StateInv /\ SaidOnce(q, player[q])
  BY DEF Inv, BeginInv, StateInv
<1>2. Unsent /\ Kind("lookup") \notin h.tasks /\ Kind("capture") \notin h.tasks
  BY <1>1 DEF StateInv, Unsent, Sent, LookedUp, SaidOnce
<1>3. h' = t /\ player'[q] = u
  BY DEF h
<1>4. relay'[Host] = {} /\ StateTasks(h') = {} /\ BootOver(h')
  BY <1>1, <1>3 DEF StateInv, BootOver, Early
<1>5. ASSUME NEW r \in h'.peers PROVE SaidOnce(r, player[r])'
  <2>1. r \in h.peers /\ r \in Players /\ r # Host
    BY <1>3, InvOf DEF Player, h
  <2>2. SaidOnce(r, player[r])
    BY <1>1, <2>1 DEF StateInv
  <2>3. CASE r = q
    <3>1. BootOver(u) /\ u.phase \notin Early /\ Host \notin u.peers \ u.open
      BY <1>1 DEF Calm, BootOver, SaidOnce
    <3> QED
      BY <1>3, <2>3, <3>1 DEF SaidOnce
  <2>4. CASE r # q
    <3>1. player'[r] = player[r] /\ (r \in h'.emu <=> r \in h.emu)
      BY <1>3, <2>1, <2>4
    <3> QED
      BY <2>2, <3>1 DEF SaidOnce
  <2> QED
    BY <2>3, <2>4
<1>6. Kind("capture") \notin h'.tasks
  BY <1>2, <1>3, KindsDiffer
<1>7. Kind("lookup") \in h'.tasks => LookedUp'
  BY <1>2, <1>3 DEF LookedUp, Early
<1>8. \A r \in Players : NoState(player'[r])
  <2>1. NoState(t)
    BY <1>2 DEF Unsent, NoState, h, Loaded
  <2>2. NoState(u)
    BY <1>2 DEF Unsent, NoState, Calm, Holds
  <2> QED
    BY <1>2, <2>1, <2>2 DEF Unsent
<1>9. Unsent'
  BY <1>2, <1>6, <1>7, <1>8 DEF Unsent
<1> QED
  BY <1>4, <1>5, <1>9 DEF StateInv

LEMMA ReceiveInv == ASSUME Inv, NEW p \in Players, NEW q \in Players, Receive(p, q) PROVE Inv'
<1> DEFINE s == player[p]
           o == player[q]
           a == o.out[p]
           m == Head(a)
           u == [o EXCEPT !.out[p] = Tail(@)]
           t == Handled(p, q, s, m)
<1>1. /\ s \in Player /\ EngineOK(p, s) /\ p \notin s.peers
      /\ o \in Player /\ EngineOK(q, o) /\ q \notin o.peers /\ a # <<>>
  BY InvOf DEF Receive
<1> DEFINE w == [player EXCEPT ![q] = u]
<1>6. player' = [w EXCEPT ![p] = IF q \in @.peers THEN Handled(p, q, @, m) ELSE @]
  BY DEF Receive
<1>7. w \in [Players -> Player] /\ w[q] = u /\ (p # q => w[p] = s)
  <2>1. u \in Player
    BY <1>1, Takes
  <2> QED
    BY <2>1 DEF Inv, TypeOK
<1> HIDE DEF o
<1>2. /\ m \in Message
      /\ m.type \in {"rb-delay", "rb-init-frame"} => q = Host
      /\ m.type = "rb-delay" => m.n = D
      /\ u \in Player /\ EngineOK(q, u) /\ (Agrees(o) => Agrees(u))
      /\ Calm(q, o, u) /\ u.peers = o.peers
      /\ p = Host /\ m.type = "emu-ready" /\ (\A i, j \in Says(o) : i = j)
           => Says(o) # {} /\ Says(u) = {}
  BY <1>1, Takes
<1> HIDE DEF u, t, m, s, a
<1>3. UNCHANGED <<relay, lost, late>>
  BY DEF Receive
<1>4. CASE q \notin s.peers
  <2>1. player' = [player EXCEPT ![q] = u]
    <3>1. CASE p = q
      <4>1. w[p] = u /\ q \notin u.peers
        BY <1>1, <1>2, <1>7, <3>1
      <4>2. player' = [w EXCEPT ![p] = u]
        BY <1>6, <4>1
      <4> HIDE DEF w
      <4>3. player' = w
        BY <1>7, <4>1, <4>2
      <4> QED
        BY <4>3 DEF w
    <3>2. CASE p # q
      <4>1. player' = [w EXCEPT ![p] = s]
        BY <1>4, <1>6, <1>7, <3>2
      <4> HIDE DEF w
      <4>2. player' = w
        BY <1>7, <3>2, <4>1
      <4> QED
        BY <4>2 DEF w
    <3> QED
      BY <3>1, <3>2
  <2> QED
    BY <1>2, <1>3, <2>1, LocalStep DEF Inv, TypeOK, o
<1>5. CASE q \in s.peers
  <2>1. p # q
    BY <1>1, <1>5
  <2>2. player' = [player EXCEPT ![q] = u, ![p] = t]
    <3>1. player' = [w EXCEPT ![p] = t]
      BY <1>5, <1>6, <1>7, <2>1 DEF t
    <3> QED
      BY <3>1
  <2>3. /\ t \in Player /\ EngineOK(p, t) /\ (Agrees(s) => Agrees(t)) /\ t.peers = s.peers
        /\ ~ (p = Host /\ m.type = "emu-ready") => Calm(p, s, t)
    <3>1. CASE m.type # "emu-ready"
      <4>1. m.type \in {"rb-delay", "rb-init-frame"} => p # Host
        BY <1>2, <2>1
      <4>2. Result(p, s, t)
        BY <1>1, <1>2, <3>1, <4>1, HandlesOther DEF t
      <4> QED
        BY <1>1, <4>2, ResultIsCalm DEF Result, Quiet
    <3>2. CASE m.type = "emu-ready"
      <4>1. /\ t \in Player /\ EngineOK(p, t) /\ (Agrees(s) => Agrees(t))
            /\ t.peers = s.peers /\ t.open = s.open /\ t.emu = s.emu \cup {q}
            /\ t.boot = s.boot /\ t.out = s.out /\ t.began = s.began
            /\ t.bytes = s.bytes /\ t.sram = s.sram /\ StateTasks(t) = StateTasks(s)
            /\ \/ t.phase = s.phase
               \/ s.phase = "emuReady" /\ t.phase = "syncing"
        BY <1>1, <1>2, <3>2, NotesReady DEF t
      <4>2. KeepsState(p, s, t)
        BY <4>1 DEF KeepsState, StateOK
      <4>3. ASSUME p # Host PROVE Calm(p, s, t)
        BY <4>1, <4>2, <4>3 DEF Calm, Holds, BootOver, Early, Loaded, Speaks, Says
      <4> QED
        BY <3>2, <4>1, <4>3
    <3> QED
      BY <3>1, <3>2
  <2>4. /\ EngineInv' /\ TypeOK'
        /\ \A r \in Players : player'[r] = IF r = p THEN t ELSE IF r = q THEN u ELSE player[r]
    <3>1. /\ t.peers = player[p].peers /\ (Agrees(player[p]) => Agrees(t))
          /\ u.peers = player[q].peers /\ (Agrees(player[q]) => Agrees(u))
      BY <1>2, <2>3 DEF s, o
    <3>2. /\ \A r \in Players :
               player'[r] = IF r = p THEN t ELSE IF r = q THEN u ELSE player[r]
          /\ player' \in [Players -> Player]
      BY <1>2, <2>1, <2>2, <2>3 DEF Inv, TypeOK
    <3>3. EngineInv'
      BY <1>2, <1>3, <2>3, <3>1, <3>2, PairStep DEF Inv
    <3> QED
      BY <1>3, <3>2, <3>3 DEF Inv, TypeOK
  <2>5. BeginInv'
    <3> SUFFICES ASSUME "hostWait" \notin late PROVE StateInv'
      BY <1>3 DEF BeginInv
    <3>1. CASE ~ (p = Host /\ m.type = "emu-ready")
      <4>1. \A r \in Players : Calm(r, player[r], player'[r])
        BY <1>2, <2>3, <2>4, <3>1, SameIsCalm DEF s, o
      <4> QED
        BY <1>3, <4>1, CalmStep DEF Inv, BeginInv, TypeOK
    <3>2. CASE p = Host /\ m.type = "emu-ready"
      <4>1. q \in Players \ {Host} /\ q \in h.peers /\ s = h
        BY <1>5, <2>1, <3>2 DEF s, h
      <4>2. Says(player[q]) # {} /\ Says(u) = {}
        BY <1>2, <3>2, <4>1 DEF Inv, BeginInv, StateInv, SaidOnce, o
      <4>3. /\ t.peers = h.peers /\ t.emu = h.emu \cup {q} /\ t.boot = h.boot
            /\ t.out = h.out /\ t.began = h.began /\ t.bytes = h.bytes /\ t.sram = h.sram
            /\ StateTasks(t) = StateTasks(h)
            /\ \/ t.phase = h.phase /\ t.tasks = h.tasks
               \/ /\ h.phase = "emuReady" /\ t.phase = "syncing"
                  /\ h.peers \subseteq h.emu \cup {q} /\ t.tasks = h.tasks \cup {Kind("lookup")}
        BY <1>1, <1>2, <3>2, <4>1, NotesReady DEF t
      <4>4. \A r \in Players : player'[r] = IF r = Host THEN t ELSE IF r = q THEN u ELSE player[r]
        BY <2>4, <3>2
      <4> QED
        BY <1>2, <1>3, <4>1, <4>2, <4>3, <4>4, HostNotes DEF o
    <3> QED
      BY <3>1, <3>2
  <2> QED
    BY <2>4, <2>5 DEF Inv
<1> QED
  BY <1>4, <1>5

(***************************************************************************)
(* Channels and boots.                                                     *)
(***************************************************************************)

LEMMA PeerLostInv == ASSUME Inv, NEW p \in Players, NEW q \in Players, PeerLost(p, q) PROVE Inv'
<1> DEFINE s == player[p]
           o == [s.out EXCEPT ![q] = <<>>]
           t == [s EXCEPT !.peers = @ \ {q}, !.open = @ \ {q}, !.ready = @ \ {q}, !.emu = @ \ {q},
                          !.got = @ \ {q}, !.out = o]
<1>1. s \in Player /\ EngineOK(p, s) /\ s.out \in [Players -> Seq(Message)]
  BY InvOf DEF Player
<1>2. /\ player' = [player EXCEPT ![p] = t] /\ relay' = relay /\ late' = late
      /\ lost' \in 0..MaxLost /\ s.phase # "running"
  BY StartAssumption DEF PeerLost, Inv, TypeOK
<1> HIDE DEF s
<1>3. o \in [Players -> Seq(Message)] /\ \A r \in Players : o[r] = IF r = q THEN <<>> ELSE s.out[r]
  BY <1>1
<1> HIDE DEF o
<1>4. t \in Player
  BY <1>1, <1>3 DEF Player
<1>5. /\ t.peers = s.peers \ {q} /\ t.open = s.open \ {q} /\ t.boot = s.boot
      /\ t.emu = s.emu \ {q} /\ t.out = o /\ t.began = s.began /\ t.bytes = s.bytes
      /\ t.sram = s.sram /\ t.hostDelay = s.hostDelay /\ t.pending = s.pending
      /\ t.delay = s.delay /\ t.engine = s.engine /\ t.phase = s.phase /\ t.tasks = s.tasks
  BY <1>1 DEF Player
<1> HIDE DEF t
<1>6. EngineOK(p, t) /\ (Agrees(s) => Agrees(t))
  BY <1>1, <1>3, <1>5 DEF EngineOK, DelaysOf, Agrees
<1>7. Speaks(s, t)
  <2>1. Says(t) = IF q = Host THEN {} ELSE Says(s)
    BY <1>3, <1>5, DelayTypes DEF Says
  <2> QED
    BY <2>1 DEF Speaks
<1>8. Calm(p, s, t)
  BY <1>5, <1>7, StateFields DEF Calm, Holds, BootOver, StateTasks
<1> QED
  BY <1>2, <1>4, <1>6, <1>8, LocalStep DEF s, Inv, TypeOK

(* The host's channel opens, or a boot ends.  A player who is ready says so.  *)
LEMMA SaysStep ==
  ASSUME Inv, NEW p \in Players, NEW t \in Player, EngineOK(p, t), Step(p, t),
         Agrees(player[p]) => Agrees(t), Holds(p, player[p], t),
         p = Host /\ BootOver(player[p]) => BootOver(t),
         StateInv /\ p \in h.peers => SaidOnce(p, t)
  PROVE  Inv'
<1>1. p \notin t.peers
  BY DEF Inv, EngineInv, Holds
<1>2. /\ player' = [player EXCEPT ![p] = t] /\ UNCHANGED <<relay, lost, late>>
  BY DEF Step
<1>3. EngineInv' /\ TypeOK'
  BY <1>1, <1>2, EngineStep DEF Inv, TypeOK
<1>4. ASSUME StateInv PROVE StateInv'
  <2>1. \A q \in Players : player'[q] = IF q = p THEN t ELSE player[q]
    BY <1>2 DEF Inv, TypeOK
  <2>2. \A q \in Players : Holds(q, player[q], player'[q])
    BY <2>1 DEF Holds, KeepsState
  <2>3. BootOver(h')
    BY <1>4, <2>1, DelayTypes DEF StateInv, h
  <2>4. ASSUME NEW q \in h'.peers PROVE SaidOnce(q, player[q])'
    <3>1. q \in Players /\ q \in h.peers /\ (q \in h'.emu <=> q \in h.emu)
      BY <2>2, InvOf, DelayTypes DEF Player, h, Holds
    <3>2. SaidOnce(q, player'[q])
      BY <1>4, <2>1, <3>1 DEF StateInv
    <3> QED
      BY <3>1, <3>2 DEF SaidOnce
  <2> QED
    BY <1>2, <1>4, <2>2, <2>3, <2>4, HoldStep DEF Inv, TypeOK
<1> QED
  BY <1>2, <1>3, <1>4 DEF Inv, BeginInv

LEMMA ChannelOpensInv ==
  ASSUME Inv, NEW p \in Players, NEW q \in Players, ChannelOpens(p, q)
  PROVE  Inv'
<1> DEFINE s == player[p]
           m == [type |-> "emu-ready"]
           a == IF s.phase \in {"idle", "booting"} THEN s.out[q] ELSE Append(s.out[q], m)
           o == [s.out EXCEPT ![q] = a]
           t == [s EXCEPT !.open = @ \cup {q}, !.out = o]
           z == [t EXCEPT !.phase = "booting", !.boot = "prompt"]
           u == IF s.phase = "idle" THEN z ELSE t
<1>1. /\ s \in Player /\ EngineOK(p, s) /\ s.out \in [Players -> Seq(Message)] /\ q \in s.peers
      /\ q \notin s.open /\ m \in Message /\ m.type = "emu-ready" /\ p \notin s.peers
  BY InvOf, PlainMessage DEF Player, ChannelOpens
<1>2. Step(p, u)
  BY DEF ChannelOpens
<1> HIDE DEF s, m
<1>3. /\ a \in Seq(Message) /\ s.out[q] \in Seq(Message)
      /\ s.phase \in Early => a = s.out[q]
      /\ s.phase \notin Early => a = Append(s.out[q], m)
  BY <1>1 DEF Early
<1>4. \A i \in DOMAIN a : (i = Len(s.out[q]) + 1 /\ a[i] = m)
                          \/ (i \in DOMAIN s.out[q] /\ a[i] = s.out[q][i])
  BY <1>1, <1>3
<1> HIDE DEF a
<1>5. o \in [Players -> Seq(Message)] /\ \A r \in Players : o[r] = IF r = q THEN a ELSE s.out[r]
  BY <1>1, <1>3
<1> HIDE DEF o
<1>6. t \in Player
  BY <1>1, <1>5 DEF Player
<1>7. u \in Player
  <2>1. z \in Player
    BY <1>6 DEF Player, Phases
  <2> QED
    BY <1>6, <2>1
<1>8. /\ u.peers = s.peers /\ u.open = s.open \cup {q} /\ u.emu = s.emu /\ u.out = o
      /\ u.began = s.began /\ u.bytes = s.bytes /\ u.sram = s.sram /\ u.tasks = s.tasks
      /\ u.hostDelay = s.hostDelay /\ u.pending = s.pending
      /\ u.delay = s.delay /\ u.engine = s.engine
  BY <1>1 DEF Player
<1>9. (u.phase = s.phase /\ u.boot = s.boot) \/ (s.phase = "idle" /\ u.phase = "booting")
  BY <1>1 DEF Player
<1> HIDE DEF u
<1>10. EngineOK(p, u) /\ (Agrees(s) => Agrees(u))
  <2>1. \A r \in Players : \A i \in DOMAIN u.out[r] :
          \/ u.out[r][i].type = "emu-ready"
          \/ i \in DOMAIN s.out[r] /\ u.out[r][i] = s.out[r][i]
    BY <1>1, <1>4, <1>5, <1>8
  <2>2. DelaysOf(p, s)
    BY <1>1 DEF EngineOK
  <2>3. DelaysOf(p, u)
    BY <2>1, <2>2 DEF DelaysOf
  <2> QED
    BY <1>1, <1>8, <1>9, <2>3 DEF EngineOK, Agrees
<1>11. /\ (u.phase \in Early <=> s.phase \in Early) /\ (u.phase \in Loaded <=> s.phase \in Loaded)
       /\ (BootOver(s) => BootOver(u))
  BY <1>9 DEF Early, Loaded, BootOver
<1>12. Holds(p, s, u)
  <2>1. KeepsState(p, s, u)
    BY <1>8, <1>9 DEF KeepsState, StateOK, StateTasks
  <2> QED
    BY <1>8, <1>11, <2>1 DEF Holds, StateTasks
<1>13. ASSUME StateInv, p \in h.peers PROVE SaidOnce(p, u)
  <2>1. SaidOnce(p, s)
    BY <1>13 DEF StateInv, s
  <2>2. CASE q # Host \/ s.phase \in Early
    <3>1. Says(u) = Says(s)
      BY <1>3, <1>5, <1>8, <2>2, DelayTypes DEF Says
    <3> QED
      BY <1>8, <1>11, <2>1, <3>1 DEF SaidOnce
  <2>3. CASE q = Host /\ s.phase \notin Early
    <3>1. p \notin h.emu /\ Says(s) = {}
      BY <1>1, <2>1, <2>3 DEF SaidOnce
    <3>2. Says(u) \subseteq {Len(s.out[q]) + 1}
      BY <1>4, <1>5, <1>8, <2>3, <3>1, DelayTypes DEF Says
    <3> QED
      BY <1>8, <1>11, <2>1, <2>3, <3>1, <3>2 DEF SaidOnce
  <2> QED
    BY <2>2, <2>3
<1> QED
  BY <1>2, <1>7, <1>10, <1>11, <1>12, <1>13, SaysStep DEF s

(* The emulator is ready; everybody whose channel is open is told.           *)
LEMMA BootEnds ==
  ASSUME NEW p \in Players, NEW s \in Player, EngineOK(p, s)
  PROVE  LET u == CheckAllEmuReady(p, Broadcast([s EXCEPT !.phase = "emuReady", !.boot = "off"],
                                                [type |-> "emu-ready"]))
         IN /\ u \in Player /\ EngineOK(p, u) /\ (Agrees(s) => Agrees(u))
            /\ u.peers = s.peers /\ u.open = s.open /\ u.emu = s.emu /\ u.boot = "off"
            /\ u.phase \in {"emuReady", "syncing"} /\ StateTasks(u) = StateTasks(s)
            /\ u.tasks = s.tasks \/ (u.tasks = s.tasks \cup {Kind("lookup")} /\ u.peers \subseteq u.emu)
            /\ Says(s) = {} => /\ \A i, j \in Says(u) : i = j
                               /\ Host \notin u.open => Says(u) = {}
<1> DEFINE m == [type |-> "emu-ready"]
           o == [q \in Players |-> IF q \in s.open THEN Append(s.out[q], m) ELSE s.out[q]]
           v == [s EXCEPT !.phase = "emuReady", !.boot = "off"]
           w == [v EXCEPT !.out = o]
           u == CheckAllEmuReady(p, w)
<1>1. m \in Message /\ m.type = "emu-ready" /\ s.out \in [Players -> Seq(Message)]
  BY PlainMessage DEF Player
<1> HIDE DEF m
<1>2. o \in [Players -> Seq(Message)]
  BY <1>1
<1>3. \A q \in Players : \A i \in DOMAIN o[q] :
        (q \in s.open /\ i = Len(s.out[q]) + 1 /\ o[q][i] = m)
        \/ (i \in DOMAIN s.out[q] /\ o[q][i] = s.out[q][i])
  BY <1>1
<1>4. w = Broadcast(v, m)
  BY <1>1 DEF Broadcast
<1> HIDE DEF o
<1>5. w \in Player
  BY <1>2 DEF Player, Phases
<1>6. /\ w.peers = s.peers /\ w.open = s.open /\ w.emu = s.emu /\ w.out = o
      /\ w.began = s.began /\ w.bytes = s.bytes /\ w.sram = s.sram /\ w.tasks = s.tasks
      /\ w.hostDelay = s.hostDelay /\ w.pending = s.pending /\ w.boot = "off"
      /\ w.delay = s.delay /\ w.engine = s.engine /\ w.phase = "emuReady"
  BY DEF Player
<1> HIDE DEF v, w
<1>7. EngineOK(p, w) /\ (Agrees(s) => Agrees(w))
  <2>1. DelaysOf(p, w)
    BY <1>1, <1>3, <1>6 DEF EngineOK, DelaysOf
  <2> QED
    BY <1>6, <2>1 DEF EngineOK, Agrees
<1>8. Says(s) = {} => /\ \A i, j \in Says(w) : i = j
                      /\ Host \notin w.open => Says(w) = {}
  <2>1. \A i \in Says(w) : i \in Says(s) \/ (Host \in s.open /\ i = Len(s.out[Host]) + 1)
    BY <1>3, <1>6, DelayTypes DEF Says
  <2> QED
    BY <1>6, <2>1
<1>9. /\ u \in Player /\ EngineOK(p, u) /\ (Agrees(w) => Agrees(u))
      /\ u.peers = w.peers /\ u.open = w.open /\ u.emu = w.emu /\ u.boot = w.boot
      /\ u.out = w.out /\ StateTasks(u) = StateTasks(w)
      /\ \/ u.phase = w.phase /\ u.tasks = w.tasks
         \/ /\ w.phase = "emuReady" /\ u.phase = "syncing" /\ w.peers \subseteq w.emu
            /\ u.tasks = w.tasks \cup {Kind("lookup")}
  BY <1>5, <1>7, ChecksEmuReady
<1>10. CheckAllEmuReady(p, Broadcast(v, m)) = u
  BY <1>4 DEF u
<1> HIDE DEF u
<1>11. Says(u) = Says(w) /\ StateTasks(w) = StateTasks(s)
  BY <1>6, <1>9 DEF Says, StateTasks
<1> QED
  BY <1>6, <1>7, <1>8, <1>9, <1>10, <1>11 DEF v, m

(* The host steps.                                                         *)
LEMMA HostStep ==
  ASSUME Inv, NEW t \in Player, EngineOK(Host, t), Agrees(h) => Agrees(t),
         player' = [player EXCEPT ![Host] = t], UNCHANGED <<lost, late>>,
         relay' \in [Players -> SUBSET SaveState], t.peers = h.peers, t.emu = h.emu,
         StateInv => /\ relay'[Host] = {} /\ StateTasks(t) = {} /\ BootOver(t)
                     /\ Unsent' \/ \E b \in States \ {"none"} : Sent(b)'
  PROVE  Inv'
<1> USE DelayTypes
<1>1. Host \notin t.peers
  BY InvOf DEF h
<1>2. EngineInv' /\ TypeOK'
  BY <1>1, EngineStep DEF Inv, TypeOK, h
<1>3. ASSUME StateInv PROVE StateInv'
  <2>1. \A q \in Players : player'[q] = IF q = Host THEN t ELSE player[q]
    BY DEF Inv, TypeOK
  <2>2. h' = t
    BY <2>1 DEF h
  <2>3. ASSUME NEW q \in h'.peers PROVE SaidOnce(q, player[q])'
    <3>1. q \in h.peers /\ q \in Players /\ q # Host
      BY <1>1, <2>2 DEF Player
    <3> QED
      BY <1>3, <2>1, <2>2, <3>1 DEF StateInv, SaidOnce
  <2> QED
    BY <1>3, <2>2, <2>3 DEF StateInv
<1> QED
  BY <1>2, <1>3 DEF Inv, BeginInv

LEMMA EmulatorReadyInv == ASSUME Inv, NEW p \in Players, EmulatorReady(p) PROVE Inv'
<1> DEFINE s == player[p]
           u == CheckAllEmuReady(p, Broadcast([s EXCEPT !.phase = "emuReady", !.boot = "off"],
                                              [type |-> "emu-ready"]))
<1>1. s \in Player /\ EngineOK(p, s) /\ s.boot = "polling" /\ Step(p, u) /\ p \notin s.peers
  BY InvOf DEF EmulatorReady
<1>2. /\ u \in Player /\ EngineOK(p, u) /\ (Agrees(s) => Agrees(u))
      /\ u.peers = s.peers /\ u.open = s.open /\ u.emu = s.emu /\ u.boot = "off"
      /\ u.phase \in {"emuReady", "syncing"} /\ StateTasks(u) = StateTasks(s)
      /\ u.tasks = s.tasks \/ (u.tasks = s.tasks \cup {Kind("lookup")} /\ u.peers \subseteq u.emu)
      /\ Says(s) = {} => /\ \A i, j \in Says(u) : i = j
                         /\ Host \notin u.open => Says(u) = {}
  BY <1>1, BootEnds
<1> HIDE DEF u
<1>3. BootOver(u) /\ u.phase \notin Loaded /\ u.phase \notin Early
  BY <1>2 DEF BootOver, Loaded, Early
<1>4. CASE p # Host
  <2>1. Holds(p, s, u)
    BY <1>2, <1>3, <1>4 DEF Holds, KeepsState, StateOK, Loaded
  <2>2. ASSUME StateInv, p \in h.peers PROVE SaidOnce(p, u)
    <3>1. SaidOnce(p, s) /\ s.phase \in Early
      BY <1>1, <2>2 DEF StateInv, SaidOnce, BootOver
    <3>2. p \notin h.emu /\ Says(s) = {}
      BY <3>1 DEF SaidOnce
    <3> QED
      BY <1>2, <1>3, <3>2 DEF SaidOnce
  <2> HIDE DEF s
  <2> QED
    BY <1>1, <1>2, <1>4, <2>1, <2>2, SaysStep DEF s
<1>5. CASE p = Host
  <2>1. s = h
    BY <1>5 DEF h
  <2>2. player' = [player EXCEPT ![Host] = u] /\ UNCHANGED <<relay, lost, late>>
    BY <1>1, <1>5 DEF Step
  <2>3. ASSUME StateInv
        PROVE  relay'[Host] = {} /\ StateTasks(u) = {} /\ Unsent'
    <3>1. ~LookedUp
      BY <1>1, <2>1, <2>3 DEF StateInv, BootOver, LookedUp
    <3>2. Unsent /\ Kind("lookup") \notin h.tasks /\ Kind("capture") \notin h.tasks
      BY <2>3, <3>1 DEF StateInv, Unsent, Sent
    <3>3. h' = u /\ \A q \in Players : player'[q] = IF q = Host THEN u ELSE player[q]
      BY <2>2, DelayTypes DEF h, Inv, TypeOK
    <3>4. NoState(u) /\ StateTasks(u) = {}
      BY <1>2, <1>3, <2>1, <2>3 DEF NoState, StateInv
    <3>5. Kind("lookup") \in u.tasks => LookedUp'
      BY <1>2, <1>3, <2>1, <3>2, <3>3 DEF LookedUp
    <3>6. Kind("capture") \notin u.tasks
      BY <1>2, <2>1, <3>2, KindsDiffer
    <3> QED
      BY <2>2, <2>3, <3>2, <3>3, <3>4, <3>5, <3>6 DEF Unsent, StateInv
  <2>4. relay' \in [Players -> SUBSET SaveState]
    BY <2>2 DEF Inv, TypeOK
  <2> HIDE DEF s
  <2> QED
    BY <1>2, <1>3, <1>5, <2>1, <2>2, <2>3, <2>4, HostStep
<1> QED
  BY <1>4, <1>5

(***************************************************************************)
(* The starting state.                                                     *)
(***************************************************************************)

LEMMA DoneTask ==
  ASSUME NEW s \in Player, NEW k
  PROVE  LET t == Done(s, k)
         IN /\ t \in Player /\ t.peers = s.peers /\ t.open = s.open /\ t.emu = s.emu
            /\ t.boot = s.boot /\ t.out = s.out /\ t.began = s.began /\ t.bytes = s.bytes
            /\ t.sram = s.sram /\ t.hostDelay = s.hostDelay /\ t.pending = s.pending
            /\ t.delay = s.delay /\ t.engine = s.engine /\ t.phase = s.phase
            /\ t.tasks = s.tasks \ {k}
<1> DEFINE ts == s.tasks \ {k}
           t == [s EXCEPT !.tasks = ts]
<1>1. ts \subseteq [kind : {"lookup", "capture"}] \cup SaveState
  BY DEF Player
<1>2. Done(s, k) = t /\ ts = s.tasks \ {k}
  BY DEF Done
<1> HIDE DEF ts
<1>3. t \in Player
  BY <1>1 DEF Player
<1>4. /\ t.peers = s.peers /\ t.open = s.open /\ t.emu = s.emu
      /\ t.boot = s.boot /\ t.out = s.out /\ t.began = s.began /\ t.bytes = s.bytes
      /\ t.sram = s.sram /\ t.hostDelay = s.hostDelay /\ t.pending = s.pending
      /\ t.delay = s.delay /\ t.engine = s.engine /\ t.phase = s.phase
      /\ t.tasks = ts
  BY DEF Player
<1> HIDE DEF t
<1> QED
  BY <1>2, <1>3, <1>4

(* The host's state is ready and goes to the guests.                         *)
LEMMA Sends ==
  ASSUME Inv, NEW b \in States \ {"none"}, NEW k \in {"lookup", "capture"}, Kind(k) \in h.tasks,
         NEW w \in Player, w.peers = h.peers, w.emu = h.emu, w.tasks = h.tasks \ {Kind(k)},
         w.bytes = b, w.boot = h.boot, NEW t, Entered(Host, w, t), Agrees(h) => Agrees(w),
         player' = [player EXCEPT ![Host] = t], ToGuests(FromHost(b)), UNCHANGED <<lost, late>>
  PROVE  Inv'
<1> USE DelayTypes
<1>1. FromHost(b) \in SaveState
  BY DEF FromHost, SaveState
<1>2. /\ relay' \in [Players -> SUBSET SaveState] /\ relay'[Host] = {}
      /\ \A q \in Players : relay'[q] \subseteq relay[q] \cup {FromHost(b)}
  BY <1>1 DEF ToGuests, Inv, TypeOK
<1>3. /\ t \in Player /\ EngineOK(Host, t) /\ (Agrees(h) => Agrees(t))
      /\ t.peers = h.peers /\ t.emu = h.emu /\ t.boot = h.boot
      /\ t.tasks = w.tasks /\ t.phase \in Loaded
  BY DEF Entered
<1>4. ASSUME StateInv
      PROVE  StateTasks(t) = {} /\ BootOver(t) /\ Sent(b)'
  <2>1. Unsent /\ LookedUp
    BY <1>4 DEF StateInv, Unsent, Sent
  <2>2. Kind("lookup") \notin t.tasks /\ Kind("capture") \notin t.tasks
    BY <1>3, <2>1 DEF Unsent
  <2>3. StateTasks(w) = {} /\ StateTasks(t) = {}
    BY <1>3, <1>4 DEF StateInv, StateTasks
  <2>4. BootOver(t)
    BY <1>3, <1>4, <2>1 DEF StateInv, BootOver, LookedUp
  <2>5. h' = t /\ \A q \in Players : player'[q] = IF q = Host THEN t ELSE player[q]
    BY DEF h, Inv, TypeOK
  <2>6. LookedUp'
    BY <1>3, <2>1, <2>5 DEF LookedUp, Loaded, Early
  <2>7. StateOK(b, Host, t)
    BY <2>3 DEF Entered
  <2>8. \A q \in Players : StateOK(b, q, player'[q])
    BY <2>1, <2>5, <2>7 DEF Unsent, NoState, StateOK, Loaded
  <2>9. \A q \in Players : relay'[q] \subseteq {FromHost(b)}
    BY <1>2, <2>1 DEF Unsent
  <2> QED
    BY <2>2, <2>3, <2>4, <2>5, <2>6, <2>8, <2>9 DEF Sent
<1> QED
  BY <1>2, <1>3, <1>4, HostStep

LEMMA HostCapturesInv == ASSUME Inv, HostCaptures PROVE Inv'
<1> DEFINE s == Done(h, Kind("capture"))
           ram == s.sram
           w == [s EXCEPT !.bytes = "captured", !.sram = ram]
           t == EnterLockstepReady(Host, w)
<1> USE DelayTypes
<1>1. h \in Player /\ EngineOK(Host, h) /\ Kind("capture") \in h.tasks
  BY InvOf DEF HostCaptures, h
<1>2. /\ s \in Player /\ s.peers = h.peers /\ s.emu = h.emu /\ s.boot = h.boot /\ s.out = h.out
      /\ s.hostDelay = h.hostDelay /\ s.pending = h.pending /\ s.delay = h.delay
      /\ s.engine = h.engine /\ s.phase = h.phase /\ s.tasks = h.tasks \ {Kind("capture")}
  BY <1>1, DoneTask
<1>3. player' = [player EXCEPT ![Host] = t] /\ ToGuests(FromHost("captured"))
      /\ UNCHANGED <<lost, late>>
  <2>1. w = [s EXCEPT !.bytes = "captured"]
    BY <1>2 DEF Player
  <2> QED
    BY <2>1 DEF HostCaptures, FromHost, h
<1> HIDE DEF s
<1>4. /\ w \in Player /\ w.peers = s.peers /\ w.emu = s.emu /\ w.boot = s.boot /\ w.out = s.out
      /\ w.hostDelay = s.hostDelay /\ w.pending = s.pending /\ w.delay = s.delay
      /\ w.engine = s.engine /\ w.phase = s.phase /\ w.tasks = s.tasks /\ w.bytes = "captured"
  <2>1. ram \in BOOLEAN /\ "captured" \in States
    BY <1>2 DEF Player, States
  <2> HIDE DEF ram
  <2>2. w \in Player
    BY <1>2, <2>1 DEF Player
  <2> QED
    BY <1>2, <2>2 DEF Player
<1> HIDE DEF w
<1>5. EngineOK(Host, w) /\ (Agrees(h) => Agrees(w))
  BY <1>1, <1>2, <1>4, SameEngine
<1>6. Entered(Host, w, t)
  BY <1>4, <1>5, EntersLockstepReady
<1> HIDE DEF t
<1>7. "captured" \in States \ {"none"}
  BY DEF States
<1> QED
  BY <1>1, <1>2, <1>3, <1>4, <1>5, <1>6, <1>7, Sends

(* The cache has a state, which the host sends.                              *)
LEMMA HostHits ==
  ASSUME Inv, LooksUp(Host, TRUE)
  PROVE  Inv'
<1> DEFINE s == Done(h, Kind("lookup"))
           w == [s EXCEPT !.bytes = "cached", !.sram = FALSE]
           t == MarkInitialStateReady(Host, w)
<1> USE DelayTypes
<1>1. h \in Player /\ EngineOK(Host, h) /\ Kind("lookup") \in h.tasks
  BY InvOf DEF LooksUp, h
<1>2. /\ s \in Player /\ s.peers = h.peers /\ s.emu = h.emu /\ s.boot = h.boot /\ s.out = h.out
      /\ s.hostDelay = h.hostDelay /\ s.pending = h.pending /\ s.delay = h.delay
      /\ s.engine = h.engine /\ s.phase = h.phase /\ s.tasks = h.tasks \ {Kind("lookup")}
  BY <1>1, DoneTask
<1>3. player' = [player EXCEPT ![Host] = t] /\ ToGuests(FromHost("cached"))
      /\ UNCHANGED <<lost, late>>
  BY DEF LooksUp, AlreadyLoaded, CachedInitialStateReady, FromHost, h
<1> HIDE DEF s
<1>4. w \in Player
  BY <1>2 DEF Player, States
<1>5. /\ w.peers = s.peers /\ w.emu = s.emu /\ w.boot = s.boot /\ w.out = s.out
      /\ w.hostDelay = s.hostDelay /\ w.pending = s.pending /\ w.delay = s.delay
      /\ w.engine = s.engine /\ w.phase = s.phase /\ w.tasks = s.tasks /\ w.bytes = "cached"
  BY <1>2 DEF Player
<1> HIDE DEF w
<1>6. EngineOK(Host, w) /\ (Agrees(h) => Agrees(w))
  BY <1>1, <1>2, <1>5, SameEngine
<1>7. Entered(Host, w, t)
  BY <1>4, <1>6, MarksReady
<1> HIDE DEF t
<1>8. "cached" \in States \ {"none"}
  BY DEF States
<1> QED
  BY <1>1, <1>2, <1>3, <1>4, <1>5, <1>6, <1>7, <1>8, Sends

LEMMA LooksUpInv ==
  ASSUME Inv, NEW p \in Players, NEW hit \in BOOLEAN, LooksUp(p, hit)
  PROVE  Inv'
<1> DEFINE s0 == player[p]
           s == Done(s0, Kind("lookup"))
           c == [s EXCEPT !.bytes = "cached", !.sram = FALSE, !.timers = @ \cup {"hostWait"}]
           k == [s EXCEPT !.tried = TRUE, !.tasks = @ \cup {Kind("capture")}]
<1>1. s0 \in Player /\ EngineOK(p, s0)
  BY InvOf
<1>2. /\ s \in Player /\ s.peers = s0.peers /\ s.open = s0.open /\ s.emu = s0.emu
      /\ s.boot = s0.boot /\ s.out = s0.out /\ s.began = s0.began /\ s.bytes = s0.bytes
      /\ s.sram = s0.sram /\ s.hostDelay = s0.hostDelay /\ s.pending = s0.pending
      /\ s.delay = s0.delay /\ s.engine = s0.engine /\ s.phase = s0.phase
      /\ s.tasks = s0.tasks \ {Kind("lookup")}
  BY <1>1, DoneTask
<1>3. UNCHANGED <<lost, late>>
  BY DEF LooksUp
<1>4. \/ hit /\ p = Host
      \/ Step(p, s)
      \/ hit /\ ~AlreadyLoaded(p, s) /\ p # Host /\ Step(p, c)
      \/ ~hit /\ p = Host /\ Kind("lookup") \in s0.tasks /\ Step(p, k)
  <2>1. CASE hit /\ p # Host /\ ~AlreadyLoaded(p, s)
    <3>1. c = CachedInitialStateReady(p, [s EXCEPT !.bytes = "cached", !.sram = FALSE])
      BY <1>2, <2>1 DEF CachedInitialStateReady, Player
    <3> QED
      BY <2>1, <3>1 DEF LooksUp, Step
  <2>2. CASE ~ (hit /\ p # Host /\ ~AlreadyLoaded(p, s))
    BY <2>2 DEF LooksUp, Step
  <2> QED
    BY <2>1, <2>2
<1> HIDE DEF s0, s
<1>5. StateTasks(s) = StateTasks(s0) /\ EngineOK(p, s) /\ (Agrees(s0) => Agrees(s))
  <2>1. StateTasks(s) = StateTasks(s0)
    BY <1>2, KindsDiffer DEF StateTasks
  <2> QED
    BY <1>1, <1>2, <2>1, SameEngine
<1>6. CASE hit /\ p = Host
  BY <1>6, HostHits
<1>7. CASE Step(p, s)
  <2>1. Calm(p, s0, s)
    BY <1>2, <1>5 DEF Calm, Holds, BootOver, Speaks, Says, KeepsState, StateOK
  <2> QED
    BY <1>2, <1>5, <1>7, <2>1, StepInv DEF s0
<1>8. CASE hit /\ ~AlreadyLoaded(p, s) /\ p # Host /\ Step(p, c)
  <2>1. c \in Player
    BY <1>2 DEF Player, States
  <2>2. /\ c.peers = s.peers /\ c.open = s.open /\ c.emu = s.emu
        /\ c.boot = s.boot /\ c.out = s.out /\ c.began = s.began
        /\ c.hostDelay = s.hostDelay /\ c.pending = s.pending
        /\ c.delay = s.delay /\ c.engine = s.engine /\ c.phase = s.phase /\ c.tasks = s.tasks
    BY <1>2 DEF Player
  <2> HIDE DEF c
  <2>3. EngineOK(p, c) /\ (Agrees(s0) => Agrees(c))
    BY <1>5, <2>2, SameEngine
  <2>4. s.phase \notin Loaded
    BY <1>8 DEF AlreadyLoaded, Loaded
  <2>5. KeepsState(p, s0, c) /\ StateTasks(c) = StateTasks(s0)
    BY <1>2, <1>5, <2>2, <2>4 DEF KeepsState, StateOK, Loaded, StateTasks
  <2>6. Calm(p, s0, c)
    BY <1>2, <1>8, <2>2, <2>5 DEF Calm, Holds, BootOver, Speaks, Says
  <2> QED
    BY <1>8, <2>1, <2>3, <2>6, StepInv DEF s0
<1>9. CASE ~hit /\ p = Host /\ Kind("lookup") \in s0.tasks /\ Step(p, k)
  <2> DEFINE ts == s.tasks \cup {Kind("capture")}
             v == [s EXCEPT !.tried = TRUE, !.tasks = ts]
  <2>1. ts \subseteq [kind : {"lookup", "capture"}] \cup SaveState
    BY <1>2 DEF Player, Kind
  <2>2. k = v /\ ts = (h.tasks \ {Kind("lookup")}) \cup {Kind("capture")} /\ s0 = h
    BY <1>2, <1>9 DEF h, s0
  <2> HIDE DEF k, ts
  <2>3. v \in Player
    BY <1>2, <2>1 DEF Player
  <2>4. /\ v.peers = s.peers /\ v.open = s.open /\ v.emu = s.emu
        /\ v.boot = s.boot /\ v.out = s.out
        /\ v.hostDelay = s.hostDelay /\ v.pending = s.pending
        /\ v.delay = s.delay /\ v.engine = s.engine /\ v.phase = s.phase /\ v.tasks = ts
    BY <1>2 DEF Player
  <2> HIDE DEF v
  <2>5. EngineOK(p, v) /\ (Agrees(s0) => Agrees(v))
    BY <1>5, <2>4, SameEngine
  <2>6. player' = [player EXCEPT ![Host] = v] /\ UNCHANGED <<relay, lost, late>>
    BY <1>9, <2>2 DEF Step
  <2>7. relay' \in [Players -> SUBSET SaveState]
    BY <2>6 DEF Inv, TypeOK
  <2>8. ASSUME StateInv
        PROVE  relay'[Host] = {} /\ StateTasks(v) = {} /\ BootOver(v) /\ Unsent'
    <3>1. Unsent /\ LookedUp /\ Kind("capture") \notin h.tasks
      BY <1>9, <2>2, <2>8 DEF StateInv, Unsent, Sent
    <3>2. h' = v /\ \A q \in Players : player'[q] = IF q = Host THEN v ELSE player[q]
      BY <2>6, DelayTypes DEF h, Inv, TypeOK
    <3>3. StateTasks(v) = {} /\ Kind("lookup") \notin v.tasks
      BY <2>2, <2>4, <2>8, KindsDiffer DEF StateInv, StateTasks
    <3>4. LookedUp'
      BY <1>2, <2>2, <2>4, <3>1, <3>2 DEF LookedUp
    <3>5. NoState(v)
      BY <1>2, <2>2, <2>4, <3>1, <3>3, DelayTypes DEF Unsent, NoState, h
    <3>6. relay'[Host] = {} /\ BootOver(v)
      BY <1>2, <2>2, <2>4, <2>6, <2>8 DEF StateInv, BootOver
    <3> QED
      BY <2>6, <3>1, <3>2, <3>3, <3>4, <3>5, <3>6 DEF Unsent
  <2> QED
    BY <1>2, <1>3, <1>9, <2>2, <2>3, <2>4, <2>5, <2>6, <2>7, <2>8, HostStep
<1> QED
  BY <1>4, <1>6, <1>7, <1>8, <1>9

(* A guest gets or decodes a state.                                          *)
LEMMA GuestStep ==
  ASSUME Inv, NEW p \in Players, NEW t \in Player, EngineOK(p, t), Agrees(player[p]) => Agrees(t),
         player' = [player EXCEPT ![p] = t], UNCHANGED <<lost, late>>,
         relay' \in [Players -> SUBSET SaveState],
         \A q \in Players : relay'[q] \subseteq relay[q], t.peers = player[p].peers,
         StateInv => p # Host,
         \A b \in States \ {"none"} : Sent(b) /\ StateInv =>
           StateOK(b, p, t) /\ (p \in h.peers => SaidOnce(p, t)),
         Unsent /\ StateInv => FALSE
  PROVE  Inv'
<1> USE DelayTypes
<1>1. p \notin t.peers
  BY InvOf
<1>2. EngineInv' /\ TypeOK'
  BY <1>1, EngineStep DEF Inv, TypeOK
<1>3. ASSUME StateInv PROVE StateInv'
  <2>1. \A q \in Players : player'[q] = IF q = p THEN t ELSE player[q]
    BY DEF Inv, TypeOK
  <2>2. h' = h
    BY <1>3, <2>1 DEF h
  <2>3. PICK b \in States \ {"none"} : Sent(b)
    BY <1>3 DEF StateInv
  <2>4. \A q \in h.peers : q \in Players
    BY InvOf DEF Player, h
  <2>5. ASSUME NEW q \in h'.peers PROVE SaidOnce(q, player[q])'
    <3>1. q \in h.peers /\ q \in Players
      BY <2>2, <2>4
    <3>2. SaidOnce(q, player'[q])
      BY <1>3, <2>1, <2>3, <3>1 DEF StateInv
    <3> QED
      BY <2>2, <3>2 DEF SaidOnce
  <2>6. \A q \in Players : relay'[q] \subseteq {FromHost(b)} /\ StateOK(b, q, player'[q])
    BY <1>3, <2>1, <2>3 DEF Sent
  <2>7. Sent(b)'
    BY <2>2, <2>3, <2>6 DEF Sent, LookedUp
  <2>8. relay'[Host] = {}
    BY <1>3 DEF StateInv
  <2> QED
    BY <1>3, <2>2, <2>5, <2>7, <2>8 DEF StateInv, BootOver
<1> QED
  BY <1>2, <1>3 DEF Inv, BeginInv

LEMMA ReceiveSaveStateInv ==
  ASSUME Inv, NEW p \in Players, NEW m \in SaveState, ReceiveSaveState(p, m)
  PROVE  Inv'
<1> DEFINE s == player[p]
           ts == IF s.phase \in {"lockstepReady", "running"} THEN s.tasks ELSE s.tasks \cup {m}
           t == [s EXCEPT !.tasks = ts]
<1>1. s \in Player /\ EngineOK(p, s) /\ m \in relay[p] /\ relay \in [Players -> SUBSET SaveState]
  BY InvOf DEF ReceiveSaveState, Inv, TypeOK
<1>2. player' = [player EXCEPT ![p] = t] /\ UNCHANGED <<lost, late>>
  BY DEF ReceiveSaveState
<1>3. /\ relay' \in [Players -> SUBSET SaveState]
      /\ \A q \in Players : relay'[q] \subseteq relay[q]
  BY <1>1 DEF ReceiveSaveState
<1> HIDE DEF s
<1>4. ts \subseteq [kind : {"lookup", "capture"}] \cup SaveState /\ ts \subseteq s.tasks \cup {m}
  BY <1>1 DEF Player
<1> HIDE DEF ts
<1>5. t \in Player
  BY <1>1, <1>4 DEF Player
<1>6. /\ t.peers = s.peers /\ t.open = s.open /\ t.emu = s.emu
      /\ t.boot = s.boot /\ t.out = s.out /\ t.began = s.began /\ t.bytes = s.bytes
      /\ t.sram = s.sram /\ t.hostDelay = s.hostDelay /\ t.pending = s.pending
      /\ t.delay = s.delay /\ t.engine = s.engine /\ t.phase = s.phase /\ t.tasks = ts
  BY <1>1 DEF Player
<1> HIDE DEF t
<1>7. EngineOK(p, t) /\ (Agrees(s) => Agrees(t))
  BY <1>1, <1>6, SameEngine
<1>8. StateInv => p # Host
  BY <1>1 DEF StateInv
<1>9. Unsent => FALSE
  BY <1>1 DEF Unsent
<1>10. ASSUME NEW b \in States \ {"none"}, Sent(b) PROVE StateOK(b, p, t)
  <2>1. m = FromHost(b) /\ StateOK(b, p, s)
    BY <1>1, <1>10 DEF Sent, s
  <2> QED
    BY <1>4, <1>6, <2>1 DEF StateOK, StateTasks
<1>11. ASSUME StateInv, p \in h.peers PROVE SaidOnce(p, t)
  BY <1>6, <1>11 DEF StateInv, SaidOnce, Says, BootOver, s
<1> QED
  BY <1>2, <1>3, <1>5, <1>6, <1>7, <1>8, <1>9, <1>10, <1>11, GuestStep DEF s

LEMMA DecodedInv ==
  ASSUME Inv, NEW p \in Players, NEW m \in SaveState, Decoded(p, m)
  PROVE  Inv'
<1> DEFINE s0 == player[p]
           s == Done(s0, m)
           w == [s EXCEPT !.bytes = m.bytes, !.sram = m.sram]
           t == MarkInitialStateReady(p, w)
<1>1. s0 \in Player /\ EngineOK(p, s0) /\ m \in StateTasks(s0)
  BY InvOf DEF Decoded, StateTasks
<1>2. /\ s \in Player /\ s.peers = s0.peers /\ s.open = s0.open /\ s.emu = s0.emu
      /\ s.boot = s0.boot /\ s.out = s0.out /\ s.began = s0.began /\ s.bytes = s0.bytes
      /\ s.sram = s0.sram /\ s.hostDelay = s0.hostDelay /\ s.pending = s0.pending
      /\ s.delay = s0.delay /\ s.engine = s0.engine /\ s.phase = s0.phase
      /\ s.tasks = s0.tasks \ {m}
  BY <1>1, DoneTask
<1>3. \/ Step(p, s) /\ s.phase \in Loaded
      \/ Step(p, t) /\ s.phase \notin Loaded
  BY DEF Decoded, Loaded
<1> HIDE DEF s0, s
<1>4. EngineOK(p, s) /\ (Agrees(s0) => Agrees(s)) /\ StateTasks(s) \subseteq StateTasks(s0)
  BY <1>1, <1>2, SameEngine DEF StateTasks
<1>5. /\ StateInv => p # Host
      /\ StateInv => ~Unsent
  BY <1>1 DEF StateInv, s0, h, Unsent, NoState
<1>6. CASE Step(p, s)
  <2>1. ASSUME p # Host PROVE Calm(p, s0, s)
    BY <1>2, <1>4, <2>1 DEF Calm, Holds, BootOver, Speaks, Says, KeepsState, StateOK
  <2>2. ASSUME NEW b \in States \ {"none"}, Sent(b) PROVE StateOK(b, p, s)
    BY <1>2, <1>4, <2>2 DEF Sent, StateOK, s0
  <2>3. ASSUME StateInv, p \in h.peers PROVE SaidOnce(p, s)
    BY <1>2, <2>3 DEF StateInv, SaidOnce, Says, BootOver, s0
  <2>4. /\ player' = [player EXCEPT ![p] = s] /\ UNCHANGED <<lost, late>>
        /\ relay' \in [Players -> SUBSET SaveState]
        /\ \A q \in Players : relay'[q] \subseteq relay[q]
    BY <1>6 DEF Step, Inv, TypeOK
  <2> QED
    BY <1>2, <1>4, <1>5, <2>2, <2>3, <2>4, GuestStep DEF s0
<1>7. CASE Step(p, t) /\ s.phase \notin Loaded
  <2>1. m.bytes \in States /\ m.sram \in BOOLEAN
    BY DEF SaveState
  <2>2. w \in Player
    BY <1>2, <2>1 DEF Player
  <2>3. /\ w.peers = s.peers /\ w.open = s.open /\ w.emu = s.emu
        /\ w.boot = s.boot /\ w.out = s.out /\ w.hostDelay = s.hostDelay /\ w.pending = s.pending
        /\ w.delay = s.delay /\ w.engine = s.engine /\ w.phase = s.phase /\ w.tasks = s.tasks
        /\ w.bytes = m.bytes
    BY <1>2 DEF Player
  <2>4. w.sram = m.sram
    BY <1>2 DEF Player
  <2> HIDE DEF w
  <2>5. EngineOK(p, w) /\ (Agrees(s0) => Agrees(w))
    BY <1>4, <2>3, SameEngine
  <2>6. Entered(p, w, t)
    BY <2>2, <2>5, MarksReady
  <2> HIDE DEF t
  <2>7. /\ t \in Player /\ EngineOK(p, t) /\ (Agrees(s0) => Agrees(t))
        /\ t.peers = s0.peers /\ t.open = s0.open /\ t.boot = s0.boot /\ t.phase \in Loaded
    BY <1>2, <2>3, <2>5, <2>6 DEF Entered
  <2>8. ASSUME NEW b \in States \ {"none"}, Sent(b) PROVE StateOK(b, p, t)
    <3>1. StateTasks(s0) \subseteq {FromHost(b)}
      BY <2>8 DEF Sent, StateOK, s0
    <3>2. m.bytes = b /\ m.sram = TRUE /\ StateTasks(w) \subseteq {FromHost(b)}
      BY <1>1, <1>4, <2>3, <3>1 DEF FromHost, StateTasks
    <3> QED
      BY <2>3, <2>4, <2>6, <3>2 DEF Entered
  <2>9. ASSUME NEW b \in States \ {"none"}, Sent(b), StateInv, p \in h.peers PROVE SaidOnce(p, t)
    <3>1. SaidOnce(p, s0) /\ p \in h.emu
      BY <2>9 DEF StateInv, Sent, LookedUp, s0
    <3>2. Says(s0) = {} /\ s0.boot = "off" /\ Host \notin s0.peers \ s0.open
      BY <3>1 DEF SaidOnce, BootOver
    <3>3. Says(t) = Says(w)
      BY <2>2, <2>6, <2>7, GrownSpeaks, DelayTypes DEF Entered
    <3>4. Says(w) = Says(s0)
      BY <1>2, <2>3 DEF Says
    <3>5. t.phase \notin Early
      BY <2>7 DEF Early, Loaded
    <3> QED
      BY <2>7, <3>2, <3>3, <3>4, <3>5 DEF SaidOnce, BootOver
  <2>10. /\ player' = [player EXCEPT ![p] = t] /\ UNCHANGED <<lost, late>>
         /\ relay' \in [Players -> SUBSET SaveState]
         /\ \A q \in Players : relay'[q] \subseteq relay[q]
    BY <1>7 DEF Step, Inv, TypeOK
  <2> QED
    BY <1>5, <2>7, <2>8, <2>9, <2>10, GuestStep DEF s0
<1> QED
  BY <1>3, <1>6, <1>7

(***************************************************************************)
(* Theorems.                                                               *)
(***************************************************************************)

LEMMA InitInv == Init => Inv
<1> SUFFICES ASSUME Init PROVE Inv
  OBVIOUS
<1> USE DelayTypes
<1>1. ASSUME NEW p \in Players
      PROVE  Fresh(p) \in Player /\ EngineOK(p, Fresh(p)) /\ Fresh(p).phase = "idle"
             /\ Fresh(p).tasks = {} /\ Fresh(p).emu = {} /\ Fresh(p).boot = "off"
             /\ Fresh(p).peers = Players \ {p} /\ Fresh(p).engine = Off /\ Says(Fresh(p)) = {}
  <2> DEFINE o == [q \in Players |-> <<>>]
  <2>1. o \in [Players -> Seq(Message)] /\ \A q \in Players : DOMAIN o[q] = {}
    OBVIOUS
  <2> HIDE DEF o
  <2>2. 0 \in Frames /\ None \in Frames \cup {None} /\ 0 \in Delays /\ "none" \in States
        /\ "idle" \in Phases
    BY StartAssumption DEF Frames, Delays, States, Phases
  <2>3. Fresh(p) \in Player
    BY <2>1, <2>2 DEF Fresh, Player, Off, SaveState, o
  <2>4. /\ Fresh(p).phase = "idle" /\ Fresh(p).tasks = {} /\ Fresh(p).emu = {}
        /\ Fresh(p).boot = "off" /\ Fresh(p).peers = Players \ {p} /\ Fresh(p).engine = Off
        /\ Fresh(p).out = o /\ Fresh(p).hostDelay = 0 /\ Fresh(p).pending = <<"no">>
    BY DEF Fresh, o
  <2>5. EngineOK(p, Fresh(p)) /\ Says(Fresh(p)) = {}
    BY <2>1, <2>4 DEF EngineOK, DelaysOf, Says
  <2> QED
    BY <2>3, <2>4, <2>5
<1>2. \A p \in Players : player[p] = Fresh(p)
  BY DEF Init
<1>3. TypeOK
  BY <1>1, StartAssumption DEF Init, TypeOK
<1>4. EngineInv
  BY <1>1, <1>2 DEF EngineInv, Agrees
<1>5. StateInv
  <2>1. \A p \in Players : relay[p] = {} /\ NoState(player[p]) /\ BootOver(player[p])
    BY <1>1, <1>2 DEF Init, NoState, Loaded, StateTasks, BootOver
  <2>2. \A p \in Players : SaidOnce(p, player[p])
    BY <1>1, <1>2, <2>1 DEF SaidOnce, h
  <2>3. h.tasks = {} /\ h.peers \subseteq Players
    BY <1>1, <1>2 DEF h
  <2> QED
    BY <2>1, <2>2, <2>3 DEF StateInv, Unsent, h, StateTasks
<1> QED
  BY <1>3, <1>4, <1>5 DEF Inv, BeginInv

LEMMA NextInv == Inv /\ [Next]_vars => Inv'
<1> SUFFICES ASSUME Inv, [Next]_vars PROVE Inv'
  OBVIOUS
<1>1. CASE UNCHANGED vars
  BY <1>1 DEF vars, Inv, TypeOK, EngineInv, BeginInv, StateInv, Unsent, Sent, LookedUp, h, SaidOnce
<1>2. CASE HostCaptures
  BY <1>2, HostCapturesInv
<1>3. ASSUME NEW p \in Players,
             \/ \E q \in Players : ChannelOpens(p, q) \/ Receive(p, q) \/ PeerLost(p, q)
             \/ Taps(p) \/ EmulatorReady(p) \/ RttDone(p) \/ Tick(p) \/ CatchUpDone(p)
             \/ EntersGameplay(p) \/ RbInitTimeout(p) \/ RendererRetry(p)
      PROVE  Inv'
  BY <1>3, ChannelOpensInv, ReceiveInv, PeerLostInv, TapsInv, EmulatorReadyInv, RttDoneInv, TickInv,
     CatchUpDoneInv, EntersGameplayInv, RbInitTimeoutInv, RendererRetryInv
<1>4. ASSUME NEW p \in Players,
             \/ \E hit \in BOOLEAN : LooksUp(p, hit)
             \/ \E m \in SaveState : ReceiveSaveState(p, m) \/ Decoded(p, m)
             \/ \E t \in {"sync", "hostWait"} : TimerFires(p, t)
      PROVE  Inv'
  BY <1>4, LooksUpInv, ReceiveSaveStateInv, DecodedInv, TimerFiresInv
<1> QED
  BY <1>1, <1>2, <1>3, <1>4 DEF Next, Progress

(* Through every start, however announcements, states, measurements, taps,    *)
(* deadlines and losses are interleaved: an emulator is announced once to the  *)
(* host, the host looks for a state once and sends one, the only delay on its  *)
(* way is the host's (checkAllEmuReady, fetchCachedState, sendInitialState,    *)
(* handleSaveStateMsg, the rb-delay messages).                              *)
THEOREM StartInvariance == Spec => []Inv
  BY InitInv, NextInv, PTL DEF Spec

LEMMA InvAgrees == Inv => BeginningsAgree
<1> SUFFICES ASSUME Inv PROVE BeginningsAgree
  OBVIOUS
<1>1. SameBeginning
  <2> SUFFICES ASSUME "hostWait" \notin late, NEW p \in Players, NEW q \in Players,
                      Running(p), Running(q)
               PROVE  player[p].began = player[q].began
    BY DEF SameBeginning
  <2>1. ~Unsent
    BY DEF Unsent, NoState, Loaded, Running
  <2>2. PICK b \in States \ {"none"} : Sent(b)
    BY <2>1 DEF Inv, BeginInv, StateInv
  <2> QED
    BY <2>2 DEF Sent, StateOK, Running
<1>2. EnginesAgree
  BY DEF Inv, EngineInv, Agrees, EnginesAgree, On
<1> QED
  BY <1>1, <1>2 DEF Inv, BeginningsAgree

(* Everybody starts from the host's state with the host's save RAM unless a    *)
(* guest gave up waiting for it, and every engine that started runs with the   *)
(* host's delay unless a guest gave up waiting for that.                     *)
THEOREM MatchBeginningsAgree == Spec => []BeginningsAgree
  BY StartInvariance, InvAgrees, PTL

=============================================================================
