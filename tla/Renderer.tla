------------------------------ MODULE Renderer ------------------------------
(***************************************************************************)
(* The render thread (environment/render.rs).  It shares RendererControls  *)
(* with the learner and the stdin thread behind a mutex and a condition    *)
(* variable.  The setters hold the lock for an assignment, so a section    *)
(* under it is one step; they notify after they have let it go.            *)
(***************************************************************************)
EXTENDS Naturals, Sequences

VARIABLES
    controls,   \* RendererControls; model is <<>> or the <<model>> handed over
    renderer    \* at: its place in run; model: the one it plays

rendererVars == <<controls, renderer>>

(* Renderer::new and RendererControls::new *)
RendererInit(render) ==
    /\ controls = [model |-> <<>>, deterministic |-> FALSE, render |-> render, quit |-> FALSE]
    /\ renderer = [at |-> "start", model |-> <<>>]

-----------------------------------------------------------------------------
(* The setters. *)
HandOver(model) == controls' = [controls EXCEPT !.model = <<model>>]
FlipRender == controls' = [controls EXCEPT !.render = ~@]
FlipDeterministic == controls' = [controls EXCEPT !.deterministic = ~@]

AskToQuit == controls' = [controls EXCEPT !.quit = TRUE]

(* notify_all *)
Roused == CASE renderer.at = "waiting" -> "woken"
            [] renderer.at = "resting" -> "stirred"
            [] OTHER -> renderer.at

(* Faulty: only a renderer that waits for its first model is woken. *)
FaultyNotifyAll ==
    renderer' = [renderer EXCEPT !.at = IF @ = "waiting" THEN "woken" ELSE @]

NotifyAll == renderer' = [renderer EXCEPT !.at = Roused]

-----------------------------------------------------------------------------
(* The thread. *)
Leaves == renderer' = [renderer EXCEPT !.at = "gone"]

(* Until there is a model and it is to be shown.  Waiting gives up the     *)
(* lock in the same step.                                                  *)
AwaitsModel ==
    /\ renderer.at \in {"start", "woken"}
    /\ IF controls.quit THEN Leaves /\ UNCHANGED controls
       ELSE IF controls.model = <<>> \/ ~controls.render
       THEN renderer' = [renderer EXCEPT !.at = "waiting"] /\ UNCHANGED controls
       ELSE /\ renderer' = [renderer EXCEPT !.at = "messages", !.model = controls.model]
            /\ controls' = [controls EXCEPT !.model = <<>>]

(* handle_rlviser_messages; RLViser may be gone. *)
ReadsMessages ==
    /\ renderer.at = "messages"
    /\ renderer' = [renderer EXCEPT !.at = "lock"]
    /\ UNCHANGED controls

MessagesFail == renderer.at = "messages" /\ Leaves /\ UNCHANGED controls

(* It rests while it is not to render, and takes a newer model.            *)
LooksAtControls ==
    /\ renderer.at \in {"lock", "stirred"}
    /\ IF controls.quit THEN Leaves /\ UNCHANGED controls
       ELSE IF ~controls.render
       THEN renderer' = [renderer EXCEPT !.at = "resting"] /\ UNCHANGED controls
       ELSE /\ renderer' = [renderer EXCEPT !.at = "act",
                               !.model = IF controls.model = <<>> THEN @ ELSE controls.model]
            /\ controls' = [controls EXCEPT !.model = <<>>]

(* It plays a step with its model, unless RLViser has paused the game.     *)
Acts ==
    /\ renderer.at = "act"
    /\ renderer' = [renderer EXCEPT !.at = "messages"]
    /\ UNCHANGED controls

RendererStep == AwaitsModel \/ LooksAtControls \/ ReadsMessages \/ Acts
=============================================================================
