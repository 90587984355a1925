------------------------------ MODULE MatchAudio ------------------------------
(***************************************************************************)
(* The sound of a match (kn-audio.js): an AudioContext that a gesture made in   *)
(* advance or that the start of the match makes, a node that the pump feeds   *)
(* with the core's samples, and the attempts to get a context running that     *)
(* the browser has suspended or that runs with a clock that stands still.      *)
(* The contexts the page makes for the emulator and for the match go through   *)
(* one constructor, which the gesture of a boot replaces for one call, so that  *)
(* the emulator gets a context that was unlocked (netplay-rollback.js).        *)
(*                                                                         *)
(* What the samples are and how many wait in the ring is left out.            *)
(***************************************************************************)
EXTENDS Naturals

CONSTANTS
  HasWorklet,   (* the browser has audioWorklet                              *)
  Attempts,     (* automatic recoveries before the player is asked: 3          *)
  MaxCtx,       (* bound: contexts made                                      *)
  MaxTrouble    (* bound: times the system suspends a context or its clock     *)

VARIABLES
  made,     (* id |-> context, for those made so far                         *)
  page,     (* what window holds: the context made in advance and the like     *)
  audio,    (* the variables of kn-audio.js                                  *)
  due,      (* promises that are not settled                                 *)
  stage,    (* "none", "boot" or "running", and what the boot has done         *)
  trouble

audioVars == <<made, page, audio, due, stage, trouble>>

Ids == 1..MaxCtx

(* preloaded: _kn_preloadedAudioCtx.  dest: the context of _kn_gestureAudioDest.  *)
(* osc: that of _kn_keepAliveOsc.  hijack: the context the replaced constructor  *)
(* returns next; 0 when the constructor is the browser's.                      *)
NoPage == [preloaded |-> 0, dest |-> 0, osc |-> 0, hijack |-> 0]

(* node: the context of the node samples go to.  worklet: it is a worklet.     *)
(* element: it plays through the <audio> element of the gesture.  listening:    *)
(* _resumeAudioHandler is installed.  toast: what the player was last told.      *)
Silent == [ctx |-> 0, node |-> 0, worklet |-> FALSE, element |-> FALSE, ready |-> FALSE,
           listening |-> FALSE, toast |-> "none", zombie |-> FALSE, tries |-> 0]

AudioTypeOK ==
  /\ \E n \in 0..MaxCtx : DOMAIN made = 1..n
  /\ \A c \in DOMAIN made : made[c] \in [kind : {"match", "emulator"},
                                         state : {"suspended", "running", "closed"}, ticks : BOOLEAN]
  /\ page \in [preloaded : 0..MaxCtx, dest : 0..MaxCtx, osc : 0..MaxCtx, hijack : 0..MaxCtx]
  /\ audio \in [ctx : 0..MaxCtx, node : 0..MaxCtx, worklet : BOOLEAN, element : BOOLEAN, ready : BOOLEAN,
                listening : BOOLEAN, toast : {"none", "blocked", "interrupted"}, zombie : BOOLEAN, tries : 0..Attempts]
  /\ trouble \in 0..MaxTrouble

NoMatch == [is |-> "none", tapped |-> FALSE, built |-> FALSE]

Init ==
  /\ made = [c \in {} |-> [kind |-> "match", state |-> "running", ticks |-> TRUE]]
  /\ page = NoPage
  /\ audio = Silent
  /\ due = {}
  /\ stage = NoMatch
  /\ trouble = 0

-----------------------------------------------------------------------------
(* Contexts                                                                 *)

Open(m, c) == c # 0 /\ m[c].state # "closed"
Runs(m, c) == c # 0 /\ m[c].state = "running"

With(m, c, ctx) == [k \in DOMAIN m \cup {c} |-> IF k \in DOMAIN m THEN m[k] ELSE ctx]

(* A call of window.AudioContext: the browser's constructor gives a context that *)
(* runs or is suspended, the replaced one the emulator's, once.                *)
Constructed(m, p, kind) ==
  IF p.hijack # 0 THEN {<<m, [p EXCEPT !.hijack = 0], p.hijack>>}
  ELSE UNION {{<<With(m, c, [kind |-> kind, state |-> s, ticks |-> TRUE]), p, c>> :
                 s \in {"running", "suspended"}} : c \in {i \in Ids : DOMAIN m = 1..(i - 1)}}

(* _preloadAudioCtx, on a click in the lobby: a context, an element it plays     *)
(* through and an oscillator that keeps it awake.                             *)
Preloaded(m, p) ==
  {<<n[1], [n[2] EXCEPT !.preloaded = n[3], !.dest = n[3], !.osc = n[3]]>> : n \in Constructed(m, p, "match")}

Preload ==
  /\ stage.is = "none"
  /\ ~Open(made, page.preloaded)
  /\ \E n \in Preloaded(made, page) : made' = n[1] /\ page' = n[2]
  /\ UNCHANGED <<audio, due, stage, trouble>>

(* A match starts to boot, in a fresh emulator or in one that is woken.        *)
Boot ==
  /\ stage.is = "none"
  /\ \E woken \in BOOLEAN : stage' = [is |-> "boot", tapped |-> FALSE, built |-> woken]
  /\ UNCHANGED <<made, page, audio, due, trouble>>

(* onPromptClick, the first time. *)
PromptTap ==
  /\ stage.is = "boot" /\ ~stage.tapped
  /\ \E e \in Constructed(made, page, "emulator") :
       \E n \in IF e[2].preloaded # 0 THEN {<<e[1], e[2]>>} ELSE Preloaded(e[1], e[2]) :
         made' = n[1] /\ page' = [n[2] EXCEPT !.hijack = e[3]]
  /\ stage' = [stage EXCEPT !.tapped = TRUE]
  /\ UNCHANGED <<audio, due, trouble>>

(* A fresh emulator makes its context; one that is woken has it.               *)
EmulatorBuilt ==
  /\ stage.is = "boot" /\ stage.tapped /\ ~stage.built
  /\ \E n \in Constructed(made, page, "emulator") : made' = n[1] /\ page' = n[2]
  /\ stage' = [stage EXCEPT !.built = TRUE]
  /\ UNCHANGED <<audio, due, trouble>>

-----------------------------------------------------------------------------
(* Keeping it running                                                       *)

(* _removeResumeAudioListeners, _installResumeAudioListeners. *)
Deaf(a) == [a EXCEPT !.listening = FALSE]
Armed(m, a) == [a EXCEPT !.listening = Open(m, a.ctx) /\ ~Runs(m, a.ctx)]

(* ensureRunning: what becomes of the variables, and what it asks for (once a     *)
(* second at most, which the set of promises stands for).                      *)
EnsureRunning(m, a) ==
  IF ~Open(m, a.ctx) THEN [a |-> a, ask |-> {}]
  ELSE IF Runs(m, a.ctx) THEN [a |-> [Deaf(a) EXCEPT !.toast = "none"], ask |-> {}]
  ELSE [a |-> Armed(m, a), ask |-> {[ctx |-> a.ctx, by |-> "ensure"]}]

(* The player is told, but not at the init.                                     *)
Told(a) == [a EXCEPT !.toast = IF @ = "none" THEN "blocked" ELSE @]

(* The end of init, in the context of that moment: the node, and the oscillator   *)
(* goes.  Without a context it throws.                                        *)
Finished(a, m, p, worklet) ==
  IF a.ctx = 0 THEN [a |-> [a EXCEPT !.ready = FALSE], p |-> p, ask |-> {}]
  ELSE LET b == [a EXCEPT !.node = a.ctx, !.worklet = worklet, !.ready = TRUE,
                          !.element = ~worklet /\ p.dest = a.ctx]
           e == IF Runs(m, a.ctx) THEN [a |-> b, ask |-> {}] ELSE EnsureRunning(m, b)
       IN [a |-> e.a, p |-> [p EXCEPT !.osc = 0], ask |-> e.ask]

(* The beginning of init: the context there is, the one made in advance, or a new  *)
(* one, made with the constructor the window holds.                           *)
Taken(m, p, a) ==
  IF Open(m, a.ctx) THEN {<<m, p, a>>}
  ELSE IF Open(m, p.preloaded)
       THEN {<<m, [p EXCEPT !.preloaded = 0], [a EXCEPT !.ctx = p.preloaded]>>}
       ELSE {<<n[1], n[2], [a EXCEPT !.ctx = n[3]]>> : n \in Constructed(m, p, "match")}

(* startLockstep: init, which waits for the worklet's module where there is one.  *)
Start ==
  /\ stage.is = "boot"
  /\ stage' = [stage EXCEPT !.is = "running"]
  /\ \E t \in Taken(made, page, audio) :
       /\ made' = t[1]
       /\ IF HasWorklet
          THEN page' = t[2] /\ audio' = t[3] /\ due' = due \cup {[ctx |-> t[3].ctx, by |-> "module"]}
          ELSE LET f == Finished(t[3], t[1], t[2], FALSE) IN
               page' = f.p /\ audio' = f.a /\ due' = due \cup f.ask
  /\ UNCHANGED trouble

(* The module is there, or it is not and the old kind of node has to do.        *)
ModuleSettles ==
  \E d \in due, ok \in BOOLEAN :
    /\ d.by = "module"
    /\ LET f == Finished(audio, made, page, ok) IN
       page' = f.p /\ audio' = f.a /\ due' = (due \ {d}) \cup f.ask
    /\ UNCHANGED <<made, stage, trouble>>

(* feed, while the context does not run: it feeds nothing and asks.              *)
FeedBlocked ==
  /\ stage.is = "running" /\ audio.ready /\ audio.ctx # 0 /\ ~Runs(made, audio.ctx)
  /\ LET e == EnsureRunning(made, audio) IN audio' = Told(e.a) /\ due' = due \cup e.ask
  /\ UNCHANGED <<made, page, stage, trouble>>

(* _attemptZombieRecovery: suspend and resume, and when that did not help often   *)
(* enough the player is asked to tap.                                         *)
Recovery(m, a) ==
  LET b == [a EXCEPT !.zombie = TRUE, !.tries = IF @ < Attempts THEN @ + 1 ELSE @] IN
  IF b.tries = Attempts /\ b.toast = "none" THEN Armed(m, [b EXCEPT !.toast = "interrupted"]) ELSE b

(* _checkCtxClockHealth, from feed. *)
FeedStalled ==
  /\ stage.is = "running" /\ audio.ready /\ Runs(made, audio.ctx) /\ ~made[audio.ctx].ticks
  /\ audio' = Recovery(made, audio)
  /\ due' = due \cup {[ctx |-> audio.ctx, by |-> "suspend"]}
  /\ UNCHANGED <<made, page, stage, trouble>>

FeedHeard ==
  /\ stage.is = "running" /\ audio.ready /\ Runs(made, audio.ctx) /\ made[audio.ctx].ticks
  /\ audio.zombie
  /\ audio' = [audio EXCEPT !.zombie = FALSE, !.tries = 0, !.toast = "none"]
  /\ UNCHANGED <<made, page, due, stage, trouble>>

(* The context is suspended by the recovery, which goes on to resume it.        *)
SuspendSettles ==
  \E d \in due :
    /\ d.by = "suspend"
    /\ due' = (due \ {d}) \cup (IF Open(made, d.ctx) THEN {[ctx |-> d.ctx, by |-> "recovery"]} ELSE {})
    /\ made' = IF Open(made, d.ctx) THEN [made EXCEPT ![d.ctx].state = "suspended"] ELSE made
    /\ UNCHANGED <<page, audio, stage, trouble>>

(* What waits for a resume looks at the context of that moment.                 *)
Resumed(m, a, by) ==
  IF by \in {"ensure", "tap"} /\ Runs(m, a.ctx) THEN [Deaf(a) EXCEPT !.toast = "none"] ELSE a

(* A resume settles: the context runs, with a clock that moves or does not, or the  *)
(* browser refuses.                                                          *)
ResumeSettles ==
  \E d \in due, runs, ticks \in BOOLEAN :
    /\ d.by \in {"ensure", "recovery", "tap"}
    /\ ticks \/ (runs /\ ~made[d.ctx].ticks)
    /\ due' = due \ {d}
    /\ made' = IF runs /\ Open(made, d.ctx)
               THEN [made EXCEPT ![d.ctx].state = "running", ![d.ctx].ticks = ticks] ELSE made
    /\ audio' = IF runs THEN Resumed(made', audio, d.by) ELSE audio
    /\ UNCHANGED <<page, stage, trouble>>

(* _resumeAudioHandler, on any click, key or touch. *)
Tap ==
  /\ audio.listening
  /\ IF ~Open(made, audio.ctx) \/ Runs(made, audio.ctx)
     THEN audio' = Deaf(audio) /\ UNCHANGED due
     ELSE due' = due \cup {[ctx |-> audio.ctx, by |-> "tap"]} /\ UNCHANGED audio
  /\ UNCHANGED <<made, page, stage, trouble>>

(* _visChangeHandler, when the page comes back. *)
Visible ==
  /\ stage.is = "running" /\ audio.ctx # 0 /\ ~Runs(made, audio.ctx)
  /\ LET e == EnsureRunning(made, audio) IN audio' = Told(e.a) /\ due' = due \cup e.ask
  /\ UNCHANGED <<made, page, stage, trouble>>

(* The system takes the sound away: the context is suspended, or says that it      *)
(* runs while its clock stands still.                                         *)
Interrupted ==
  /\ trouble < MaxTrouble
  /\ \E c \in {audio.ctx, page.preloaded} :
       /\ Runs(made, c)
       /\ \/ made' = [made EXCEPT ![c].state = "suspended"]
          \/ made[c].ticks /\ made' = [made EXCEPT ![c].ticks = FALSE]
  /\ trouble' = trouble + 1
  /\ UNCHANGED <<page, audio, due, stage>>

-----------------------------------------------------------------------------
(* The end                                                                  *)

(* cleanup, and what stop does to the window. *)
Cleaned(m, a) == IF a.ctx = 0 THEN m ELSE [m EXCEPT ![a.ctx].state = "closed"]
(* variant: the constructor stays replaced *)
KeepsConstructor(p) == [p EXCEPT !.osc = 0, !.dest = 0]
Restored(p) == [p EXCEPT !.osc = 0, !.dest = 0, !.hijack = 0]

Stop ==
  /\ stage.is # "none"
  /\ made' = Cleaned(made, audio)
  /\ audio' = Silent
  /\ page' = Restored(page)
  /\ due' = {d \in due : d.by = "module" \/ d.ctx # audio.ctx}
  /\ stage' = NoMatch
  /\ UNCHANGED trouble

Next ==
  \/ Preload \/ Boot \/ PromptTap \/ EmulatorBuilt
  \/ Start \/ ModuleSettles
  \/ FeedBlocked \/ FeedStalled \/ FeedHeard
  \/ SuspendSettles \/ ResumeSettles \/ Tap \/ Visible
  \/ Interrupted \/ Stop

Spec == Init /\ [][Next]_audioVars

-----------------------------------------------------------------------------
(* The match never plays through the emulator's context, whose rate is not the   *)
(* core's: neither now nor through the one that waits for the next match, though  *)
(* a constructor that was replaced and not called may be left over             *)
(* (netplay-rollback.js:17849-17862).                                        *)
OwnContext ==
  \A c \in {audio.ctx, page.preloaded} \ {0} : made[c].kind = "match"

(* What feed believes is ready is a node of a context that is open, also when a    *)
(* stop and the next start overtook the loading of the module.                 *)
NodeIsLive == audio.ready => audio.node = audio.ctx /\ Open(made, audio.ctx)

(* No context of a match is left open when it is over: the device allows a few.  *)
NothingLeaks ==
  \A c \in DOMAIN made :
    made[c].kind = "match" /\ made[c].state # "closed" => c \in {audio.ctx, page.preloaded}

(* Nobody listens for a tap once the context is gone (kn-audio.js:507-511): a      *)
(* promise that settles after the stop installs nothing.                      *)
NobodyListensAfterwards == audio.listening => Open(made, audio.ctx)

AudioSound == OwnContext /\ NodeIsLive /\ NothingLeaks /\ NobodyListensAfterwards

(* Not true: the player who is asked to tap because the clock of a running context  *)
(* stands still has a listener for the tap (kn-audio.js:376-379).               *)
InterruptedCanTap == audio.toast = "interrupted" => audio.listening \/ ~audio.zombie

(* Not true: on a browser without worklets the match plays through the element of    *)
(* the gesture that made its context (netplay-rollback.js:9000-9004).           *)
PlaysThroughTheElement ==
  audio.ready /\ ~audio.worklet /\ stage.tapped => audio.element
=============================================================================
