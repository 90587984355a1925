------------------------------ MODULE LocalInput ------------------------------
(***************************************************************************)
(* What a player does with keys, fingers and gamepads, and the sample the tick   *)
(* takes of it once a frame (shared.js, virtual-gamepad.js, gamepad-manager.js;   *)
(* the focus handlers of netplay-rollback.js).  Events set state, a sample reads   *)
(* it: the keys held, and those pressed since the last one read, the touch state   *)
(* that the overlay writes, and the gamepad assigned to the player's slot, with     *)
(* the profile found for it when it was detected.                              *)
(*                                                                         *)
(* The analogue values and their scaling are left out: a stick is off centre or    *)
(* is not, a key and a button are named by what they do.                        *)
(***************************************************************************)
EXTENDS Naturals, FiniteSets

CONSTANTS
  Keys,       (* keys that do something                                     *)
  Buttons,    (* buttons of the overlay; "stick" is its stick                   *)
  Fingers,
  Pads,       (* places of getGamepads, from 1 on; 0 is none                   *)
  Models,     (* ids of gamepads                                           *)
  Slots,      (* slots the player may get                                   *)
  MaxMoves    (* bound: what the player does                                  *)

VARIABLES
  keyboard,   (* the keys that are down, those held and those just pressed       *)
  touch,      (* the overlay and the touch state                              *)
  pad,        (* the variables of gamepad-manager.js                           *)
  world,      (* the gamepads plugged in, the focus, the profiles that are stored *)
  sample      (* the last sample that was read, and what the properties need     *)

inputVars == <<keyboard, touch, pad, world, sample>>

Nothing == "none"
Places == Buttons \cup {"stick"}

(* held: _heldKeys.  recent: _recentlyPressedKeys.  overlay: the overlay exists.    *)
(* on: what a finger of _buttonTouches is on.  stick: _stickTouch.  state:          *)
(* touchInput, what is not 0.  deaf: fingers whose events find nothing, for another *)
(* finger took the stick or the overlay they went down on is gone.   detected: the model and the profile of an index.      *)
(* prev: _prevIds.  centre: the model whose rest position is known.                *)
Init ==
  /\ keyboard = [down |-> {}, held |-> {}, recent |-> {}]
  /\ touch = [overlay |-> FALSE, on |-> [f \in Fingers |-> {}], stick |-> Nothing,
              state |-> {}, down |-> {}, deaf |-> {}]
  /\ pad = [detected |-> [i \in Pads |-> Nothing], profile |-> [i \in Pads |-> Nothing],
            prev |-> [i \in Pads |-> Nothing], centre |-> [i \in Pads |-> Nothing],
            assigned |-> [s \in Slots |-> 0], slot |-> 0]
  /\ world = [plugged |-> [i \in Pads |-> Nothing], focus |-> TRUE, custom |-> {}, remap |-> FALSE, moves |-> 0]
  /\ sample = [keys |-> {}, down |-> {}, taps |-> {}, since |-> {}]

InputTypeOK ==
  /\ keyboard \in [down : SUBSET Keys, held : SUBSET Keys, recent : SUBSET Keys]
  /\ touch.state \subseteq Places /\ touch.down \subseteq Fingers
  /\ touch.stick \in Fingers \cup {Nothing} /\ touch.on \in [Fingers -> SUBSET Buttons]
  /\ \A i \in Pads : {pad.detected[i], pad.prev[i], pad.centre[i], world.plugged[i]} \subseteq Models \cup {Nothing}
  /\ pad.assigned \in [Slots -> Pads \cup {0}] /\ pad.slot \in Slots
  /\ world.custom \subseteq Models /\ world.moves \in 0..MaxMoves

Moves == world.moves < MaxMoves
Moved == [world EXCEPT !.moves = @ + 1]

-----------------------------------------------------------------------------
(* Keys: keydown, keyup and what clears them                                  *)

Pressed(k) == [keyboard EXCEPT !.down = @ \cup {k}, !.held = @ \cup {k}, !.recent = @ \cup {k}]

KeyDown ==
  /\ Moves /\ world.focus
  /\ \E k \in Keys \ keyboard.down :
       /\ keyboard' = Pressed(k)
       /\ sample' = [sample EXCEPT !.since = @ \cup {k}]
  /\ world' = Moved
  /\ UNCHANGED <<touch, pad>>

(* The page hears that a key is released only while it has the focus.           *)
Released(k) == [keyboard EXCEPT !.down = @ \ {k}, !.held = IF world.focus THEN @ \ {k} ELSE @]

KeyUp ==
  /\ \E k \in keyboard.down : keyboard' = Released(k)
  /\ UNCHANGED <<touch, pad, world, sample>>

(* A key that stays down repeats. *)
KeyRepeats ==
  /\ world.focus
  /\ \E k \in keyboard.down \ keyboard.held : keyboard' = Pressed(k)
  /\ UNCHANGED <<touch, pad, world, sample>>

(* clearHeldKeysOnFocusLoss and the handlers of the match (_releaseLocalFocusInput) *)
Blur ==
  /\ Moves /\ world.focus
  /\ keyboard' = [keyboard EXCEPT !.held = {}, !.recent = {}]
  /\ touch' = [touch EXCEPT !.state = {}]
  /\ world' = [Moved EXCEPT !.focus = FALSE]
  /\ sample' = [sample EXCEPT !.since = {}]
  /\ UNCHANGED pad

(* focus, visible, pageshow, a click on the game: the controls start afresh.     *)
FocusReturns ==
  /\ Moves
  /\ keyboard' = [keyboard EXCEPT !.held = {}]
  /\ touch' = [touch EXCEPT !.state = {}]
  /\ world' = [Moved EXCEPT !.focus = TRUE]
  /\ UNCHANGED <<pad, sample>>

-----------------------------------------------------------------------------
(* Fingers                                                                  *)

OverlayShows ==
  /\ ~touch.overlay
  /\ touch' = [touch EXCEPT !.overlay = TRUE]
  /\ UNCHANGED <<keyboard, pad, world, sample>>

(* destroy. *)
OverlayGoes ==
  /\ touch.overlay
  /\ touch' = [touch EXCEPT !.overlay = FALSE, !.state = {}, !.stick = Nothing,
                            !.on = [f \in Fingers |-> {}], !.deaf = touch.down]
  /\ UNCHANGED <<keyboard, pad, world, sample>>

(* onTouchStart: on the stick, on a button, or beside both. *)
FingerDown ==
  /\ Moves /\ touch.overlay
  /\ \E f \in Fingers \ touch.down :
       \/ touch' = [touch EXCEPT !.down = @ \cup {f}, !.stick = f, !.state = @ \cup {"stick"},
                                 !.deaf = @ \cup ({touch.stick} \ {Nothing})]
       \/ \E b \in {{}} \cup {{b} : b \in Buttons} :
            touch' = [touch EXCEPT !.down = @ \cup {f}, !.on[f] = b, !.state = @ \cup b]
  /\ world' = Moved
  /\ UNCHANGED <<keyboard, pad, sample>>

(* onTouchMove: the stick goes where its finger goes, also back to the centre; a     *)
(* finger that slides covers other buttons.                                    *)
FingerMoves ==
  /\ Moves /\ touch.overlay
  /\ \E f \in touch.down \ touch.deaf :
       \/ /\ f = touch.stick
          /\ \E off \in BOOLEAN :
               touch' = [touch EXCEPT !.state = IF off THEN @ \cup {"stick"} ELSE @ \ {"stick"}]
       \/ /\ f # touch.stick
          /\ \E next \in SUBSET Buttons :
               touch' = [touch EXCEPT !.on[f] = next,
                                      !.state = (@ \ (touch.on[f] \ next)) \cup (next \ touch.on[f])]
  /\ world' = Moved
  /\ UNCHANGED <<keyboard, pad, sample>>

(* onTouchEnd, for touchend and touchcancel. *)
(* variant: a finger lets go of the button it went down on *)
LiftedFromOne(f) ==
  [touch EXCEPT !.down = @ \ {f}, !.on[f] = {},
                !.stick = IF @ = f THEN Nothing ELSE @,
                !.state = @ \ (IF touch.stick = f THEN {"stick"}
                               ELSE IF touch.on[f] = {} THEN {} ELSE {CHOOSE b \in touch.on[f] : TRUE})]
Lifted(f) ==
  [touch EXCEPT !.down = @ \ {f}, !.on[f] = {},
                !.stick = IF @ = f THEN Nothing ELSE @,
                !.state = @ \ (IF touch.stick = f THEN {"stick"} ELSE touch.on[f])]

FingerUp ==
  /\ \E f \in touch.down :
       touch' = IF f \in touch.deaf THEN [touch EXCEPT !.down = @ \ {f}, !.deaf = @ \ {f}] ELSE Lifted(f)
  /\ UNCHANGED <<keyboard, pad, world, sample>>

-----------------------------------------------------------------------------
(* Gamepads                                                                 *)

(* resolveProfile: the one that is stored for the model, or a built-in one.       *)
Profile(id, custom) == IF id = Nothing THEN Nothing ELSE IF id \in custom THEN "custom" ELSE id

(* poll: gamepads that went leave their slots; one that is new, or is another       *)
(* model than at the last poll, gets its profile, and the player's slot if that is   *)
(* free.  A rest position is only known of a gamepad that stayed.                *)
Polled(p) ==
  LET now == world.plugged
      gone == {i \in Pads : now[i] = Nothing /\ p.detected[i] # Nothing}
      fresh == {i \in Pads : now[i] # Nothing /\ (p.detected[i] = Nothing \/ p.prev[i] # now[i])}
      left == [s \in Slots |-> IF p.assigned[s] \in gone THEN 0 ELSE p.assigned[s]]
      first == IF fresh = {} THEN 0 ELSE CHOOSE i \in fresh : \A k \in fresh : i <= k
  IN [p EXCEPT !.detected = [i \in Pads |-> IF i \in gone \cup fresh THEN now[i] ELSE p.detected[i]],
               !.profile = [i \in Pads |-> IF i \in gone \cup fresh THEN Profile(now[i], world.custom)
                                                                    ELSE p.profile[i]],
               !.centre = [i \in Pads |-> IF i \in gone \cup fresh THEN Nothing ELSE p.centre[i]],
               !.prev = now,
               !.assigned = [left EXCEPT ![p.slot] = IF @ = 0 THEN first ELSE @]]
(* _updateCenter, when two polls in a row found the sticks at rest. *)
Centred(p) == [p EXCEPT !.centre = [i \in Pads |-> IF p.centre[i] = Nothing THEN p.detected[i] ELSE p.centre[i]]]

Poll ==
  /\ pad' \in {Polled(pad), Centred(Polled(pad))}
  /\ UNCHANGED <<keyboard, touch, world, sample>>

(* The player plugs a gamepad in, pulls one, or swaps it between two polls.         *)
Plug ==
  /\ Moves
  /\ \E i \in Pads, id \in Models \cup {Nothing} :
       id # world.plugged[i] /\ world' = [Moved EXCEPT !.plugged[i] = id]
  /\ UNCHANGED <<keyboard, touch, pad, sample>>

(* start, with the slot the room gave the player: it polls at once.                *)
SlotGiven ==
  /\ \E s \in Slots : pad' = Polled([pad EXCEPT !.slot = s])
  /\ UNCHANGED <<keyboard, touch, world, sample>>

(* reassignSlot, on a click in the list of players. *)
Reassign ==
  /\ Moves
  /\ \E i \in Pads : pad.detected[i] # Nothing /\ pad' = [pad EXCEPT !.assigned[pad.slot] = i]
  /\ world' = Moved
  /\ UNCHANGED <<keyboard, touch, sample>>

(* saveGamepadProfile and clearGamepadProfile, for a gamepad that is detected.       *)
ProfileChanges ==
  /\ Moves
  /\ \E i \in Pads :
       LET id == pad.detected[i]
           custom == IF id \in world.custom THEN world.custom \ {id} ELSE world.custom \cup {id}
       IN /\ id # Nothing
          /\ world' = [Moved EXCEPT !.custom = custom]
          /\ pad' = [pad EXCEPT !.profile = [k \in Pads |-> IF pad.detected[k] = id THEN Profile(id, custom)
                                                            ELSE pad.profile[k]]]
  /\ UNCHANGED <<keyboard, touch, sample>>

-----------------------------------------------------------------------------
(* The sample                                                               *)

(* The wizard that maps keys and buttons opens and closes. *)
Remap ==
  /\ Moves
  /\ world' = [Moved EXCEPT !.remap = ~@]
  /\ UNCHANGED <<keyboard, touch, pad, sample>>

(* readLocalInput: the keys that are held and those that were pressed, even if they    *)
(* were let go.  Without the focus they are all forgotten.                        *)
Read ==
  /\ ~world.remap
  /\ sample' = [keys |-> IF world.focus THEN keyboard.held \cup keyboard.recent ELSE {},
                down |-> keyboard.down, taps |-> sample.since, since |-> {}]
  /\ keyboard' = [keyboard EXCEPT !.recent = {}, !.held = IF world.focus THEN @ ELSE {}]
  /\ UNCHANGED <<touch, pad, world>>

(* The frame gets nothing: the wizard is open, or the tick does not read, for it waits    *)
(* at the barrier of the menus or has just come back (netplay-rollback.js).         *)
Suppressed ==
  /\ sample' = [sample EXCEPT !.since = {}]
  /\ UNCHANGED <<keyboard, touch, pad, world>>

Next ==
  \/ KeyDown \/ KeyUp \/ KeyRepeats \/ Blur \/ FocusReturns
  \/ OverlayShows \/ OverlayGoes \/ FingerDown \/ FingerMoves \/ FingerUp
  \/ Poll \/ Plug \/ SlotGiven \/ Reassign \/ ProfileChanges
  \/ Remap \/ Read \/ Suppressed

Spec == Init /\ [][Next]_inputVars

-----------------------------------------------------------------------------
(* No key is held for the game that the player let go, though the release came while  *)
(* another window had the focus.                                                *)
NoStuckKey == world.focus => keyboard.held \subseteq keyboard.down

(* Nothing of the overlay stays pressed that no finger is on, whatever the fingers     *)
(* slid over and whether the overlay was removed under them.                       *)
NoStuckButton ==
  /\ "stick" \in touch.state => touch.stick \in touch.down
  /\ \A b \in touch.state \ {"stick"} : \E f \in touch.down : b \in touch.on[f]

(* A gamepad is read with the profile that is stored for it and with its own rest        *)
(* position, and no slot is left with a gamepad that is not there.                  *)
PadsAreTheirOwn ==
  /\ \A i \in Pads : /\ pad.profile[i] = Profile(pad.detected[i], world.custom)
                     /\ pad.centre[i] \in {Nothing, pad.detected[i]}
  /\ \A s \in Slots : pad.assigned[s] # 0 => pad.detected[pad.assigned[s]] # Nothing

(* A key that was pressed since the last read is in the sample, even if it was let go     *)
(* before (shared.js:84-94).                                                   *)
TapsArePlayed == sample.taps \subseteq sample.keys

InputSound == NoStuckKey /\ NoStuckButton /\ PadsAreTheirOwn /\ TapsArePlayed

(* Not true: what was pressed and let go while all input was suppressed does not reach    *)
(* the game later (shared.js:497-498).                                        *)
SuppressedIsGone == sample.keys \subseteq sample.taps \cup sample.down

(* Not true: while a gamepad is there the player's slot has one.                    *)
MySlotHasAPad ==
  (\E i \in Pads : pad.detected[i] # Nothing) => pad.assigned[pad.slot] # 0

(* Not true: a button that a finger is on is pressed.                              *)
HeldIsPressed == \A f \in touch.down : touch.on[f] \subseteq touch.state
=============================================================================
