------------------------------- MODULE Streaming -------------------------------
(***************************************************************************)
(* Streaming mode (netplay-streaming.js): only the host runs the emulator.   *)
(* It offers a connection to every guest and spectator, starts the emulator  *)
(* when the first channel opens, captures the canvas and the sound, adds the *)
(* tracks to every connection and negotiates again.  A guest who joins a     *)
(* running stream is offered nothing until it says that it is ready, for an  *)
(* offer before that is lost.  Guests send the state of their controller,    *)
(* over and over, on an unordered and lossy channel, and the host applies    *)
(* what arrives.                                                            *)
(*                                                                         *)
(* The signalling server keeps the order between two clients.  createOffer   *)
(* and setLocalDescription are one step.  An offer is the set of tracks in   *)
(* it; an answer names the offer it is for.                                  *)
(***************************************************************************)
EXTENDS Naturals, Sequences, FiniteSets

CONSTANTS
  Guests,      (* everybody but the host                                    *)
  Spectators,  (* those of them who send no input                           *)
  Early,       (* those in the room when the game starts                    *)
  MaxOffers,   (* bound: offers made                                       *)
  MaxLosses,   (* bound: connections that fail                             *)
  MaxPresses   (* bound: changes of a controller                           *)

VARIABLES
  stage,     (* how far the host's emulator and capture are                 *)
  stream,    (* the tracks of _hostStream                                  *)
  hostPeer,  (* the host's _peers                                          *)
  guest,     (* each guest's page, its peer and its controller             *)
  wire,      (* signalling messages under way                              *)
  inputs,    (* input packets under way                                    *)
  applied,   (* the input the core has for each guest's slot               *)
  used       (* how much of the bounds is used                             *)

streamVars == <<stage, stream, hostPeer, guest, wire, inputs, applied, used>>

Tracks == {"video", "audio"}
Players == Guests \ Spectators

(* exists: there is a connection.  sent: the tracks added to it.  offer: the *)
(* number of its localDescription, 0 for none.                               *)
HostPeer == [exists : BOOLEAN, sent : SUBSET Tracks, offer : 0..MaxOffers,
             stable : BOOLEAN, open : BOOLEAN]
(* page: not in the room, in it without the engine, with it, gone.           *)
Guest == [page : {"away", "joined", "ready", "gone"}, exists : BOOLEAN,
          sees : SUBSET Tracks, answered : 0..MaxOffers, open : BOOLEAN, held : 0..1]

StreamTypeOK ==
  /\ stage \in {"idle", "booting", "retry", "failed", "live"}
  /\ stream \subseteq Tracks
  /\ hostPeer \in [Guests -> HostPeer] /\ guest \in [Guests -> Guest]
  /\ applied \in [Guests -> 0..1]
  /\ inputs \in [Guests -> SUBSET (0..1)]
  /\ used \in [offers : 0..MaxOffers, losses : 0..MaxLosses, presses : 0..MaxPresses]

NoPeer == [exists |-> FALSE, sent |-> {}, offer |-> 0, stable |-> TRUE, open |-> FALSE]

OfferOf(n, tracks) == [kind |-> "offer", number |-> n, tracks |-> tracks]

(* init of everybody in the room; the host has offered to each (by the users *)
(* it was given).                                                           *)
Init ==
  /\ stage = "idle"
  /\ stream = {}
  /\ \E f \in [Early -> 1..Cardinality(Early)] :
       /\ \A g, h \in Early : f[g] = f[h] => g = h
       /\ hostPeer = [g \in Guests |-> IF g \in Early
            THEN [NoPeer EXCEPT !.exists = TRUE, !.offer = f[g], !.stable = FALSE] ELSE NoPeer]
       /\ wire = [toHost |-> [g \in Guests |-> <<>>],
                  toGuest |-> [g \in Guests |->
                    IF g \in Early THEN <<OfferOf(f[g], {})>> ELSE <<>>]]
  /\ guest = [g \in Guests |->
       [page |-> IF g \in Early THEN "ready" ELSE "away", exists |-> FALSE,
        sees |-> {}, answered |-> 0, open |-> FALSE, held |-> 0]]
  /\ inputs = [g \in Guests |-> {}]
  /\ applied = [g \in Guests |-> 0]
  /\ used = [offers |-> Cardinality(Early), losses |-> 0, presses |-> 0]

Live == stage = "live"

-----------------------------------------------------------------------------
(* Offers                                                                   *)

(* sendOffer and renegotiate: every offer replaces the connection's local    *)
(* description.  s holds the host's peers, the wire and the bounds.          *)
Here == [hp |-> hostPeer, w |-> wire, u |-> used]
Signals(s) == hostPeer' = s.hp /\ wire' = s.w /\ used' = s.u

CanOffer(s) == s.u.offers < MaxOffers

Emit(s, g, n) ==
  [s EXCEPT !.w.toGuest[g] = Append(@, OfferOf(n, s.hp[g].sent))]

SendOffer(s, g) ==
  LET n == s.u.offers + 1 IN
  Emit([s EXCEPT !.u.offers = n, !.hp[g].offer = n, !.hp[g].stable = FALSE], g, n)

(* createPeer on the host: the tracks there are go in at once.               *)
CreatePeer(s, g) ==
  [s EXCEPT !.hp[g] = [NoPeer EXCEPT !.exists = TRUE, !.sent = stream]]

(* onUsersUpdated: a connection for whoever has none; the offer waits for    *)
(* the guest when the stream is on.                                        *)
HostSeesUsers(g) ==
  /\ wire.toHost[g] # <<>> /\ Head(wire.toHost[g]).kind = "users"
  /\ LET s == [Here EXCEPT !.w.toHost[g] = Tail(@)] IN
     IF s.hp[g].exists THEN Signals(s)
     ELSE LET p == CreatePeer(s, g) IN
          IF Live THEN Signals(p) ELSE CanOffer(p) /\ Signals(SendOffer(p, g))
  /\ UNCHANGED <<stage, stream, guest, inputs, applied>>

(* onDataMessage, streaming-late-join-ready: the last offer again, when one  *)
(* has been made.                                                           *)
Offered(s, g) ==
  IF s.hp[g].offer # 0 THEN Emit(s, g, s.hp[g].offer) ELSE SendOffer(s, g)

HostSeesReady(g) ==
  /\ wire.toHost[g] # <<>> /\ Head(wire.toHost[g]).kind = "ready"
  /\ LET s == [Here EXCEPT !.w.toHost[g] = Tail(@)] IN
     IF s.hp[g].open THEN Signals(s)
     ELSE LET p == IF s.hp[g].exists THEN s ELSE CreatePeer(s, g) IN
          CanOffer(p) /\ Signals(Offered(p, g))
  /\ UNCHANGED <<stage, stream, guest, inputs, applied>>

(* onWebRTCSignal on the host.  An answer to an offer that has been replaced *)
(* is refused by the browser, and so is a second one.                        *)
HostSeesAnswer(g) ==
  /\ wire.toHost[g] # <<>> /\ Head(wire.toHost[g]).kind = "answer"
  /\ LET a == Head(wire.toHost[g])
         s == [Here EXCEPT !.w.toHost[g] = Tail(@)] IN
     Signals(IF s.hp[g].exists /\ s.hp[g].offer = a.number
             THEN [s EXCEPT !.hp[g].stable = TRUE] ELSE s)
  /\ UNCHANGED <<stage, stream, guest, inputs, applied>>

(* onWebRTCSignal on a guest, which answers; before its engine is there      *)
(* nobody listens.                                                          *)
GuestSeesOffer(g) ==
  /\ wire.toGuest[g] # <<>>
  /\ LET o == Head(wire.toGuest[g]) IN
     IF guest[g].page = "ready"
     THEN /\ guest' = [guest EXCEPT ![g] = [@ EXCEPT !.exists = TRUE, !.sees = o.tracks,
                                                     !.answered = o.number]]
          /\ wire' = [wire EXCEPT !.toGuest[g] = Tail(@),
                        !.toHost[g] = Append(@, [kind |-> "answer", number |-> o.number])]
     ELSE /\ wire' = [wire EXCEPT !.toGuest[g] = Tail(@)]
          /\ UNCHANGED guest
  /\ UNCHANGED <<stage, stream, hostPeer, inputs, applied, used>>

-----------------------------------------------------------------------------
(* The host's emulator                                                       *)

(* Both ends have the same offer and its answer. *)
Linked(g) ==
  /\ hostPeer[g].exists /\ hostPeer[g].stable /\ hostPeer[g].offer # 0
  /\ guest[g].exists /\ guest[g].answered = hostPeer[g].offer

(* onOpen of a channel: the first one starts the emulator (startHost); when  *)
(* the stream is on, a connection without tracks gets them.                 *)
ChannelOpens(g) ==
  /\ Linked(g) /\ ~hostPeer[g].open
  /\ guest' = [guest EXCEPT ![g].open = TRUE]
  /\ LET s == [Here EXCEPT !.hp[g].open = TRUE] IN
     IF Live /\ s.hp[g].sent = {}
     THEN CanOffer(s) /\ Signals(SendOffer([s EXCEPT !.hp[g].sent = stream], g))
     ELSE Signals(s)
  /\ stage' = IF stage = "idle" THEN "booting" ELSE stage
  /\ UNCHANGED <<stream, inputs, applied>>

(* waitForEmu: the renderer is dead and there is, or is not, another profile *)
(* to try; _gameRunning is off until the second startHost.                   *)
BootFails ==
  /\ stage = "booting"
  /\ stage' \in {"retry", "failed"}
  /\ UNCHANGED <<stream, hostPeer, guest, wire, inputs, applied, used>>

BootAgain ==
  /\ stage = "retry"
  /\ stage' = "booting"
  /\ UNCHANGED <<stream, hostPeer, guest, wire, inputs, applied, used>>

(* variant: only connections made later get the tracks *)
KeepsItsPeers(s, tracks) == {s}

(* Every connection gets the tracks and is negotiated again; the order does  *)
(* not matter.                                                              *)
AddTracks(s, tracks) ==
  LET Sids == {g \in Guests : s.hp[g].exists}
      numbers == {f \in [Sids -> s.u.offers + 1 .. s.u.offers + Cardinality(Sids)] :
                    \A g, h \in Sids : f[g] = f[h] => g = h} IN
  {[hp |-> [g \in Guests |-> IF g \in Sids
              THEN [s.hp[g] EXCEPT !.sent = tracks, !.offer = f[g], !.stable = FALSE]
              ELSE s.hp[g]],
    w |-> [s.w EXCEPT !.toGuest = [g \in Guests |-> IF g \in Sids
              THEN Append(@[g], OfferOf(f[g], tracks))
              ELSE @[g]]],
    u |-> [s.u EXCEPT !.offers = @ + Cardinality(Sids)]] : f \in numbers}

(* waitForEmu, the emulator runs: the canvas is captured, directly or by     *)
(* blitting, and the sound if there is any yet.                             *)
CaptureStarts ==
  /\ stage = "booting"
  /\ used.offers + Cardinality({g \in Guests : hostPeer[g].exists}) <= MaxOffers
  /\ stage' = "live"
  /\ stream' \in {{"video"}, {"video", "audio"}}
  /\ \E s \in AddTracks(Here, stream') : Signals(s)
  /\ UNCHANGED <<guest, inputs, applied>>

(* waitForAudio: the sound found later joins _hostStream, and no connection. *)
SoundFound ==
  /\ Live /\ "audio" \notin stream
  /\ stream' = stream \cup {"audio"}
  /\ UNCHANGED <<stage, hostPeer, guest, wire, inputs, applied, used>>

-----------------------------------------------------------------------------
(* Guests                                                                   *)

Joins(g) ==
  /\ guest[g].page = "away"
  /\ guest' = [guest EXCEPT ![g].page = "joined"]
  /\ wire' = [wire EXCEPT !.toHost[g] = Append(@, [kind |-> "users"])]
  /\ UNCHANGED <<stage, stream, hostPeer, inputs, applied, used>>

(* init, of a late joiner: it listens from now on, and says so.              *)
EngineReady(g) ==
  /\ guest[g].page = "joined"
  /\ guest' = [guest EXCEPT ![g].page = "ready"]
  /\ wire' = [wire EXCEPT !.toHost[g] = Append(@, [kind |-> "ready"])]
  /\ UNCHANGED <<stage, stream, hostPeer, inputs, applied, used>>

(* A key, a stick, or the loss of the window's focus.                        *)
Press(g) ==
  /\ g \in Players /\ guest[g].page = "ready" /\ used.presses < MaxPresses
  /\ guest' = [guest EXCEPT ![g].held = 1 - @]
  /\ used' = [used EXCEPT !.presses = @ + 1]
  /\ UNCHANGED <<stage, stream, hostPeer, wire, inputs, applied>>

(* sendGuestInput: at once when something changes, and sixty times a second. *)
SendInput(g) ==
  /\ g \in Players /\ guest[g].open
  /\ inputs' = [inputs EXCEPT ![g] = @ \cup {guest[g].held}]
  /\ inputs' # inputs
  /\ UNCHANGED <<stage, stream, hostPeer, guest, wire, applied, used>>

(* A packet arrives, in any order, or never does.                            *)
InputArrives(g) ==
  /\ \E i \in inputs[g] :
       /\ inputs' = [inputs EXCEPT ![g] = @ \ {i}]
       /\ applied' \in {[applied EXCEPT ![g] = IF hostPeer[g].open THEN i ELSE @], applied}
  /\ UNCHANGED <<stage, stream, hostPeer, guest, wire, used>>

(* handlePeerDisconnect on the host: the state of a connection that was open *)
(* or answered, or its channel, says that it is over.  What was under way on *)
(* it is lost.                                                              *)
HandleDisconnect(g) ==
  /\ hostPeer' = [hostPeer EXCEPT ![g] = NoPeer]
  /\ applied' = [applied EXCEPT ![g] = 0]

HostLoses(g) ==
  /\ hostPeer[g].open \/ (hostPeer[g].stable /\ hostPeer[g].offer # 0)
  /\ \/ guest[g].page = "gone" /\ UNCHANGED used
     \/ used.losses < MaxLosses /\ used' = [used EXCEPT !.losses = @ + 1]
  /\ HandleDisconnect(g)
  /\ inputs' = [inputs EXCEPT ![g] = {}]
  /\ UNCHANGED <<stage, stream, guest, wire>>

GuestLoses(g) ==
  /\ guest[g].exists /\ ~hostPeer[g].exists
  /\ guest' = [guest EXCEPT ![g] = [@ EXCEPT !.exists = FALSE, !.sees = {}, !.open = FALSE]]
  /\ UNCHANGED <<stage, stream, hostPeer, wire, inputs, applied, used>>

(* A guest closes the page, whatever it is pressing.                         *)
Leaves(g) ==
  /\ guest[g].page = "ready" /\ used.losses < MaxLosses
  /\ used' = [used EXCEPT !.losses = @ + 1]
  /\ guest' = [guest EXCEPT ![g] = [@ EXCEPT !.page = "gone", !.exists = FALSE,
                                             !.sees = {}, !.open = FALSE]]
  /\ UNCHANGED <<stage, stream, hostPeer, wire, inputs, applied>>

-----------------------------------------------------------------------------
Next ==
  \/ BootFails \/ BootAgain \/ CaptureStarts \/ SoundFound
  \/ \E g \in Guests :
       \/ HostSeesUsers(g) \/ HostSeesReady(g) \/ HostSeesAnswer(g) \/ GuestSeesOffer(g)
       \/ ChannelOpens(g) \/ Joins(g) \/ EngineReady(g)
       \/ Press(g) \/ SendInput(g) \/ InputArrives(g)
       \/ HostLoses(g) \/ GuestLoses(g) \/ Leaves(g)

Spec == Init /\ [][Next]_streamVars

-----------------------------------------------------------------------------
(* Properties                                                               *)

(* Nobody's last input stays pressed: a slot whose connection is gone has    *)
(* none.                                                                    *)
NoGhostInput == \A g \in Guests : ~hostPeer[g].open => applied[g] = 0

(* However joining, starting, negotiating and capturing interleave, when     *)
(* everything sent has been received a guest of a live stream sees it: with  *)
(* no failed connection, and no message or event to come.                    *)
Settled(g) ==
  /\ Live /\ guest[g].page = "ready"
  /\ wire.toHost[g] = <<>> /\ wire.toGuest[g] = <<>>
  /\ ~(Linked(g) /\ ~hostPeer[g].open)
  /\ used.losses = 0 /\ used.offers < MaxOffers

EveryoneSees == \A g \in Guests : Settled(g) => guest[g].open /\ "video" \in guest[g].sees

StreamSound == NoGhostInput /\ EveryoneSees

(* Broken by the code: sound found after the capture started is added to     *)
(* _hostStream only, and those connected by then never hear it.              *)
EveryoneHears == \A g \in Guests : Settled(g) /\ "audio" \in stream => "audio" \in guest[g].sees

(* Broken by the code: a guest whose connection failed has no way back, for   *)
(* only a page that joins says that it is ready.                             *)
NobodyIsCutOff ==
  \A g \in Guests :
    Live /\ guest[g].page = "ready" /\ ~hostPeer[g].exists =>
      wire.toHost[g] # <<>>

=============================================================================
