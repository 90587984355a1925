------------------------------- MODULE PageParts -------------------------------
(* The parts of the page that meet nothing of each other in what they check, for  *)
(* any constants.  A behaviour is one part's for good; part says whose, and the  *)
(* part keeps its variables in v1, v2, ...                                      *)
EXTENDS Naturals

CONSTANTS
  InFlight, ShadowPosts, ShadowStarts,
  Modes, RejectLimit, CoprocFrames, Dispatches,
  BurstSize, RunnerFrames, RunnerRewinds, RunnerTrouble,
  Keys, Buttons, Fingers, Pads, Models, Slots, MaxMoves,
  RomIds, Library, RomStarts,
  HasWorklet, Attempts, MaxCtx, AudioTrouble,
  Ring, FlushMax, HiddenMax, TakeMax, ChunkMax, Cap, LogLines, LogMatches, LogFlushes, LogTrouble

VARIABLES part, v1, v2, v3, v4, v5, v6, v7, v8

ASSUME OverlayAssumption ==
  InFlight \in Nat /\ ShadowPosts \in Nat /\ ShadowStarts \in Nat

(* The coprocessor waits in one of three ways, and is given up at some refusal.  *)
ASSUME CoprocAssumption ==
  /\ Modes \subseteq {"parallel", "waiting", "deferred"}
  /\ RejectLimit \in Nat \ {0} /\ CoprocFrames \in Nat /\ Dispatches \in Nat

(* A burst of a replay is at least a frame.                                   *)
ASSUME RunnerAssumption ==
  /\ BurstSize \in Nat \ {0} /\ RunnerFrames \in Nat
  /\ RunnerRewinds \in Nat /\ RunnerTrouble \in Nat

(* "none" is no finger and no gamepad, and the stick is not one of the buttons;  *)
(* a player has slot 0 until the room says otherwise.                          *)
ASSUME InputAssumption ==
  /\ "none" \notin Fingers \cup Models /\ "stick" \notin Buttons
  /\ Pads \subseteq Nat \ {0} /\ 0 \in Slots /\ MaxMoves \in Nat

(* A ROM is a number, 0 is none.                                             *)
ASSUME RomAssumption ==
  /\ RomIds \subseteq Nat \ {0} /\ Library \subseteq RomIds /\ RomStarts \in Nat

(* The player is asked after some attempts, at least one.                     *)
ASSUME AudioAssumption ==
  /\ HasWorklet \in BOOLEAN /\ Attempts \in Nat \ {0}
  /\ MaxCtx \in Nat /\ AudioTrouble \in Nat

(* What is sent of a log may be nothing, and a ring may hold nothing; a chunk   *)
(* fits the budget of a match.                                               *)
ASSUME LogAssumption ==
  /\ TakeMax \in Nat \ {0} /\ ChunkMax \in Nat \ {0} /\ Cap \in Nat /\ ChunkMax <= Cap
  /\ Ring \in Nat /\ FlushMax \in Nat /\ HiddenMax \in Nat
  /\ LogLines \in Nat /\ LogMatches \in Nat /\ LogFlushes \in Nat /\ LogTrouble \in Nat

Overlay == INSTANCE ShadowOverlay WITH
  MaxInFlight <- InFlight, MaxPosts <- ShadowPosts, MaxStarts <- ShadowStarts,
  shadow <- v1, overlay <- v2, resync <- v3, replaying <- v4

Coproc == INSTANCE WorkerCoproc WITH
  MaxFrame <- CoprocFrames, MaxSeq <- Dispatches, mode <- v1, differs <- v2, known <- v3, engine <- v4, ring <- v5,
  main <- v6, pend <- v7, answers <- v8

Runner == INSTANCE FrameRunner WITH
  Burst <- BurstSize, MaxFrame <- RunnerFrames, MaxRewinds <- RunnerRewinds, MaxTrouble <- RunnerTrouble,
  manual <- v1, runner <- v2, core <- v3, main <- v4, ghost <- v5

Audio == INSTANCE MatchAudio WITH
  MaxTrouble <- AudioTrouble, made <- v1,
  page <- v2, audio <- v3, due <- v4, stage <- v5, trouble <- v6

Input == INSTANCE LocalInput WITH
  keyboard <- v1, touch <- v2,
  pad <- v3, world <- v4, sample <- v5

Rom == INSTANCE RomAndEmulator WITH
  MaxStarts <- RomStarts, guest <- v1, rom <- v2,
  loads <- v3, emu <- v4, match <- v5, hazard <- v6

Logs == INSTANCE SessionLog WITH
  MaxLines <- LogLines, MaxMatches <- LogMatches, MaxFlushes <- LogFlushes,
  MaxTrouble <- LogTrouble, client <- v1, roomMatch <- v2, rows <- v3,
  appends <- v4, sock <- v5, http <- v6, past <- v7

(* A part of fewer variables leaves the last ones at 0. *)
Only7 == v8 = 0
Only6 == v7 = 0 /\ Only7
Only5 == v6 = 0 /\ Only6
Only4 == v5 = 0 /\ Only5

Keep8 == UNCHANGED part
Keep7 == UNCHANGED v8 /\ Keep8
Keep6 == UNCHANGED v7 /\ Keep7
Keep5 == UNCHANGED v6 /\ Keep6
Keep4 == UNCHANGED v5 /\ Keep5

PageInit ==
  \/ part = "shadow" /\ Overlay!Init /\ Only4
  \/ part = "coproc" /\ Coproc!Init
  \/ part = "runner" /\ Runner!Init /\ Only5
  \/ part = "audio" /\ Audio!Init /\ Only6
  \/ part = "input" /\ Input!Init /\ Only5
  \/ part = "rom" /\ Rom!Init /\ Only6
  \/ part = "log" /\ Logs!Init /\ Only7

PageNext ==
  \/ part = "shadow" /\ Overlay!Next /\ Keep4
  \/ part = "coproc" /\ Coproc!Next /\ Keep8
  \/ part = "runner" /\ Runner!Next /\ Keep5
  \/ part = "audio" /\ Audio!Next /\ Keep6
  \/ part = "input" /\ Input!Next /\ Keep5
  \/ part = "rom" /\ Rom!Next /\ Keep6
  \/ part = "log" /\ Logs!Next /\ Keep7

pageVars == <<part, v1, v2, v3, v4, v5, v6, v7, v8>>

PageSpec == PageInit /\ [][PageNext]_pageVars

(* The overlay never leaves the player before a dead picture, the steps in  *)
(* flight are counted exactly, and a resync put off for the overlay is sent *)
(* when it goes.                                                            *)
ShadowSound == part = "shadow" => Overlay!ShadowTypeOK /\ Overlay!ShadowSound

(* The worker's answers never set the engine and the tick apart, and none   *)
(* but that of the last rollback is taken.                                  *)
CoprocSound == part = "coproc" => Coproc!CoprocTypeOK /\ Coproc!CoprocSound

(* Whatever runner is stale or throws, a frame is counted exactly when the  *)
(* core ran it, and no picture stays off after its replay.                  *)
RunnerSound == part = "runner" => Runner!RunnerTypeOK /\ Runner!RunnerSound

(* However starts, stops and taps overtake the loading of the worklet, a    *)
(* match plays through its own open context and leaves none behind.         *)
AudioSound == part = "audio" => Audio!AudioTypeOK /\ Audio!AudioSound

(* No key or button stays down when its finger, window or gamepad went      *)
(* away, and a tap shorter than a frame is played.                          *)
InputSound == part = "input" => Input!InputTypeOK /\ Input!InputSound

(* What runs in a match is the ROM of the match, in one emulator; in the    *)
(* lobby nothing runs.                                                      *)
EmulatorRunsTheRom == part = "rom" => Rom!RomTypeOK /\ Rom!EmulatorRunsTheRom

(* Whatever is refused, answered late, sent twice or two ways: a line the   *)
(* page counts as acknowledged and still holds was stored, or was left out of *)
(* a flush larger than a hidden page may send or the server keeps; the lines *)
(* are stored once and in order unless another page of the player came into *)
(* the match; the budget of a match costs only its oldest chunks.            *)
LogSound == part = "log" => Logs!LogTypeOK /\ Logs!LogSound

================================================================================
