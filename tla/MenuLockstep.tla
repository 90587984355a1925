----------------------------- MODULE MenuLockstep -----------------------------
(***************************************************************************)
(* From the first frame to the first frame of gameplay, Smash Remix runs   *)
(* without the rollback engine: the tick loop of netplay-rollback.js waits *)
(* for the inputs of every frame.  In a menu it never makes one up, since  *)
(* a single press decides which screen comes next; while the game boots it  *)
(* does, and the menu-start barrier keeps the players' own inputs at    *)
(* zero until everybody shows a menu.                                      *)
(*                                                                         *)
(* The game is a few screens that a press leaves.  Input packets may be    *)
(* lost or overtake each other (they carry no redundancy before the engine *)
(* runs); text messages keep their order and arrive.  Time is the choice   *)
(* of a tick: a delay may be over whenever its wait goes on.               *)
(***************************************************************************)
EXTENDS Integers, Sequences, FiniteSets

CONSTANTS
  Peers,       (* the players                                              *)
  Delay,       (* DELAY_FRAMES, the same for all                           *)
  BootFrames,  (* frames the game takes to show its first menu             *)
  MenuCount,   (* the menus a player presses through before the match loads *)
  MaxFrame,    (* bound: frames a peer runs                                *)
  MaxPresses,  (* of each player, a bound: how often it presses             *)
  MaxLost      (* bound: input packets lost                                *)

VARIABLES
  frame,       (* _frameNum                                                *)
  scene,       (* the screen of the emulator                               *)
  local,       (* _localInputs: what was sampled for each frame            *)
  remote,      (* _remoteInputs                                            *)
  newest,      (* _lastRemoteFramePerSlot                                  *)
  barrier,     (* the menu-start barrier of each peer                      *)
  engine,      (* the frame the deferred rollback init fired at, or -1     *)
  net,         (* input packets on their way                               *)
  dc,          (* text messages on their way                               *)
  lost,        (* history: packets lost                                    *)
  trail        (* history: the screen each frame was run in, and its inputs *)

sim   == <<frame, scene, trail>>
links == <<net, dc, lost>>
vars  == <<sim, local, remote, newest, barrier, engine, links>>

Frames == 0..MaxFrame
Input  == {"none", "zero", "press"}
(* The screens in their order: boot, the menus, the match (the frames that  *)
(* load it ignore the inputs and are left out).                            *)
Menus == 1..MenuCount
Boot  == 0
Play  == MenuCount + 1
Others(p) == Peers \ {p}

Barrier == [released : BOOLEAN, scene : 0..MenuCount, settling : BOOLEAN,
            ready : [Peers -> 0..MenuCount]]
Packet  == [from : Peers, to : Peers, frame : Frames, input : Input]
Message == [ready : Menus] \cup [resend : Frames]

MenuTypeOK ==
  /\ frame \in [Peers -> Frames] /\ scene \in [Peers -> Boot..Play]
  /\ local \in [Peers -> [Frames -> Input]] /\ remote \in [Peers -> [Peers -> [Frames -> Input]]]
  /\ newest \in [Peers -> [Peers -> -1..MaxFrame]]
  /\ barrier \in [Peers -> Barrier] /\ engine \in [Peers -> -1..MaxFrame]
  /\ net \subseteq Packet /\ lost \in 0..MaxLost
  /\ \A p, q \in Peers : \A i \in DOMAIN dc[p][q] : dc[p][q][i] \in Message
  /\ \A p \in Peers : Len(trail[p]) = frame[p]

(***************************************************************************)
(* The game.                                                               *)
(***************************************************************************)

_isControllableMenuScene(sc) == sc \in Menus

(* What a frame makes of a screen: a press also skips the intro.           *)
Pressed(inputs) == \E p \in Peers : inputs[p] = "press"
NextScene(sc, f, inputs) ==
  IF \/ sc = Boot /\ f + 1 >= BootFrames
     \/ sc \in Menus \cup {Boot} /\ Pressed(inputs)
  THEN sc + 1 ELSE sc

(* _readMenuLockstepPhase without the engine.                              *)
(* variant: the first menu is taken for boot *)
StrictAfterTitle(p)    == scene[p] \in Menus \ {1}
strictInputLockstep(p) == _isControllableMenuScene(scene[p])

(***************************************************************************)
(* updateMenuStartBarrier.                                                 *)
(***************************************************************************)

Announces(b, sc) == _isControllableMenuScene(sc) /\ b.scene # sc

(* Everybody else has announced the screen this peer shows now.            *)
allPeersReady(p, b) == \A q \in Others(p) : b.ready[q] = scene[p]

(* The barrier after a tick; `over` says whether the settling time is over. *)
NextBarrier(p, over) ==
  LET b == barrier[p]
      a == IF Announces(b, scene[p]) THEN [b EXCEPT !.scene = scene[p], !.settling = FALSE] ELSE b
  IN IF b.released THEN b
     ELSE IF a.scene = 0 \/ ~allPeersReady(p, a) THEN a
     ELSE IF ~a.settling THEN [a EXCEPT !.settling = TRUE]
     ELSE [a EXCEPT !.released = over]

(* _broadcastMenuStartReady.  Its repetition every 500 ms brings nothing new *)
(* on a channel that keeps its messages, and is left out.                  *)
Broadcasts(p) == ~barrier[p].released /\ Announces(barrier[p], scene[p])

ToAll(p, msg) == [dc EXCEPT ![p] = [q \in Peers |-> IF q = p THEN <<>> ELSE Append(dc[p][q], msg)]]

(***************************************************************************)
(* The tick.                                                               *)
(***************************************************************************)

applyFrame(p) == frame[p] - Delay

Missing(p) ==
  IF applyFrame(p) < 0 THEN {} ELSE {q \in Others(p) : remote[p][q][applyFrame(p)] = "none"}

(* A later input arrived: this one is thought to never arrive.             *)
GapSlots(p) == {q \in Missing(p) : newest[p][q] > applyFrame(p)}

Sample(p, v, b) ==
  IF local[p][frame[p]] # "none" THEN local[p][frame[p]] ELSE IF b.released THEN v ELSE "zero"

Zeroes(p, slots) ==
  remote' = [remote EXCEPT ![p] = [q \in Peers |->
    IF q \in slots THEN [remote[p][q] EXCEPT ![applyFrame(p)] = "zero"] ELSE remote[p][q]]]

(* Writes the inputs of the frame and steps it.                            *)
StepFrame(p, mine, made) ==
  LET a      == applyFrame(p)
      inputs == [q \in Peers |-> IF a < 0 THEN "zero" ELSE IF q = p THEN mine[a]
                                 ELSE IF q \in made THEN "zero" ELSE remote[p][q][a]]
  IN /\ frame[p] < MaxFrame
     /\ frame' = [frame EXCEPT ![p] = @ + 1]
     /\ scene' = [scene EXCEPT ![p] = NextScene(@, frame[p], inputs)]
     /\ trail' = [trail EXCEPT ![p] = Append(@, [scene |-> scene[p], inputs |-> inputs])]
     /\ remote' = [remote EXCEPT ![p] = [q \in Peers |->
          IF a < 0 \/ q = p THEN remote[p][q] ELSE [remote[p][q] EXCEPT ![a] = "none"]]]

(* The deferred rollback init fires: the engine takes the frames over.     *)
HandOver(p) ==
  /\ scene[p] = Play /\ engine[p] = -1
  /\ engine' = [engine EXCEPT ![p] = frame[p]]
  /\ UNCHANGED <<sim, remote>>

Advance(p, mine) ==
  /\ scene[p] # Play /\ Missing(p) = {}
  /\ StepFrame(p, mine, {}) /\ UNCHANGED engine

(* In a menu the tick waits.                                               *)
MenuWait(p) ==
  /\ strictInputLockstep(p) /\ Missing(p) # {}
  /\ UNCHANGED <<sim, remote, engine>>

(* Elsewhere a gap is filled at once ...                                   *)
GapFill(p) ==
  /\ scene[p] # Play /\ ~strictInputLockstep(p) /\ GapSlots(p) # {}
  /\ Zeroes(p, GapSlots(p))
  /\ UNCHANGED <<sim, engine>>

(* ... and an input that stays away is waited for, and in the end made up.  *)
Stall(p) ==
  /\ scene[p] # Play /\ ~strictInputLockstep(p) /\ Missing(p) # {} /\ GapSlots(p) = {}
  /\ UNCHANGED <<sim, remote, engine>>
HardTimeout(p, mine) ==
  /\ scene[p] # Play /\ ~strictInputLockstep(p) /\ Missing(p) # {} /\ GapSlots(p) = {}
  /\ StepFrame(p, mine, Missing(p)) /\ UNCHANGED engine

(* A wait of MAX_STALL_MS asks for the input again (_requestStrictMenuResends *)
(* in a menu).  By then nothing asked for before is on its way any more.    *)
(* The peer ignores a request for an input it has not sampled: left out.    *)
OnItsWay(q, p, f) == dc[p][q] # <<>> \/ \E m \in net : m.from = q /\ m.to = p /\ m.frame = f
AsksFor(p) ==
  {q \in Missing(p) : local[q][applyFrame(p)] # "none" /\ ~OnItsWay(q, p, applyFrame(p))}

(* Sends what the tick has to say.  A packet the peer has or is about to   *)
(* get changes nothing and is left out.                                    *)
Packets(p, f, input) ==
  {[from |-> p, to |-> q, frame |-> f, input |-> input] :
     q \in {q \in Others(p) : frame[q] - Delay <= f /\ remote[q][p][f] # input}}

Tick(p) ==
  \E v \in {"zero", "press"}, over \in {FALSE, barrier[p].settling} :
    LET b    == NextBarrier(p, over)
        mine == [local[p] EXCEPT ![frame[p]] = Sample(p, v, b)]
        said == IF Broadcasts(p) THEN ToAll(p, [ready |-> b.scene]) ELSE dc
    IN /\ engine[p] = -1
       /\ v = "press" => /\ mine # local[p]
                         /\ Cardinality({f \in Frames : mine[f] = "press"}) <= MaxPresses[p]
       /\ \/ /\ dc' = said
             /\ HandOver(p) \/ Advance(p, mine) \/ MenuWait(p) \/ GapFill(p) \/ Stall(p) \/ HardTimeout(p, mine)
          \/ /\ AsksFor(p) # {} /\ (MenuWait(p) \/ Stall(p))
             /\ dc' = [said EXCEPT ![p] = [q \in Peers |->
                  IF q \in AsksFor(p) THEN Append(said[p][q], [resend |-> applyFrame(p)]) ELSE said[p][q]]]
       /\ barrier' = [barrier EXCEPT ![p] = b]
       /\ local' = [local EXCEPT ![p] = mine]
       /\ net' = net \cup Packets(p, frame[p], mine[frame[p]])
       /\ UNCHANGED <<newest, lost>>

(***************************************************************************)
(* Messages.                                                               *)
(***************************************************************************)

(* _processInputPacket without the engine.  What comes too late is kept by  *)
(* the code and never read.                                                *)
ReceiveInput(m) ==
  /\ m \in net /\ net' = net \ {m}
  /\ remote' = IF m.frame < applyFrame(m.to) THEN remote
               ELSE [remote EXCEPT ![m.to][m.from][m.frame] = m.input]
  /\ newest' = [newest EXCEPT ![m.to][m.from] = IF m.frame > @ THEN m.frame ELSE @]
  /\ UNCHANGED <<sim, local, barrier, engine, dc, lost>>

Lose(m) ==
  /\ m \in net /\ lost < MaxLost
  /\ net' = net \ {m} /\ lost' = lost + 1
  /\ UNCHANGED <<sim, local, remote, newest, barrier, engine, dc>>

(* menu-ready and resend.                                                  *)
ReceiveMessage(p, q) ==
  /\ dc[p][q] # <<>> /\ dc' = [dc EXCEPT ![p][q] = Tail(@)]
  /\ LET msg == Head(dc[p][q]) IN
     \/ /\ "ready" \in DOMAIN msg
        /\ barrier' = [barrier EXCEPT ![q].ready[p] = msg.ready]
        /\ UNCHANGED net
     \/ /\ "resend" \in DOMAIN msg
        /\ net' = net \cup {m \in Packets(q, msg.resend, local[q][msg.resend]) : m.to = p}
        /\ UNCHANGED barrier
  /\ UNCHANGED <<sim, local, remote, newest, engine, lost>>

Init ==
  /\ frame = [p \in Peers |-> 0] /\ scene = [p \in Peers |-> Boot]
  /\ local = [p \in Peers |-> [f \in Frames |-> "none"]]
  /\ remote = [p \in Peers |-> [q \in Peers |-> [f \in Frames |-> "none"]]]
  /\ newest = [p \in Peers |-> [q \in Peers |-> -1]] 
  /\ barrier = [p \in Peers |-> [released |-> FALSE, scene |-> 0, settling |-> FALSE,
                                 ready |-> [q \in Peers |-> 0]]]
  /\ engine = [p \in Peers |-> -1] /\ net = {} /\ lost = 0
  /\ dc = [p \in Peers |-> [q \in Peers |-> <<>>]] /\ trail = [p \in Peers |-> <<>>]

Next ==
  \/ \E p \in Peers : Tick(p)
  \/ \E m \in net : ReceiveInput(m) \/ Lose(m)
  \/ \E p, q \in Peers : ReceiveMessage(p, q)

Spec == Init /\ [][Next]_vars

(***************************************************************************)
(* Properties.                                                             *)
(***************************************************************************)

(* Two peers show the same screen on the same frame: no input that decided *)
(* about a screen was made up, lost or sampled before everybody saw a menu. *)
SamePath ==
  \A p, q \in Peers : \A f \in 1..MaxFrame :
    f <= frame[p] /\ f <= frame[q] => trail[p][f].scene = trail[q][f].scene

(* Every frame up to the match runs on the inputs its players really gave: *)
(* a zero is only made up for a player the barrier still holds back.       *)
InputsAreReal ==
  \A p, q \in Peers : \A f \in Delay + 1..MaxFrame :
    f <= frame[p] => trail[p][f].inputs[q] = local[q][f - Delay - 1]
      \/ /\ local[q][f - Delay - 1] = "none" /\ trail[p][f].inputs[q] = "zero"
         /\ trail[p][f].scene = Boot

(* Waiting for each other never ends in everybody waiting: until all have  *)
(* run as far as the bound allows, something is on its way, or a peer has   *)
(* an input to send or to ask for.                                         *)
Finished(p) == frame[p] = MaxFrame \/ engine[p] >= 0
NobodyIsStuck == (\E p \in Peers : ~Finished(p)) => ENABLED <<Next>>_vars

(* What the menus owe the players.                                         *)
MenuSound == SamePath /\ InputsAreReal /\ NobodyIsStuck

(* A peer whose inputs the barrier holds back waits for announcements that *)
(* will come: nobody has stopped announcing before.                        *)
AnnouncementsCome ==
  \A p, q \in Peers :
    p # q /\ ~barrier[p].released /\ barrier[p].scene = scene[p] /\ barrier[q].released
      /\ scene[q] = scene[p] /\ dc[q][p] = <<>>
      => barrier[p].ready[q] = scene[p]

=============================================================================
