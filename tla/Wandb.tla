-------------------------------- MODULE Wandb --------------------------------
(***************************************************************************)
(* The thread that logs to Weights & Biases (spawned by learn and          *)
(* transfer_learn around rlgymppo_wandb::MetricSender).  Its channel has   *)
(* room for one report; the metrics actor drops a report when it is full.  *)
(***************************************************************************)
EXTENDS Sequences

VARIABLE wandb  \* the thread's place; queue: <<>> or <<report>>; open: not hung up

(* MetricSender::new; without it, or if it fails, the thread is "off". *)
WandbInit(enabled) ==
    wandb = [at |-> IF enabled THEN "receives" ELSE "off", queue |-> <<>>, open |-> enabled]

(* try_send *)
Offer(report) ==
    wandb' = IF wandb.open /\ wandb.queue = <<>> THEN [wandb EXCEPT !.queue = <<report>>] ELSE wandb

(* The actor drops its end. *)
HangsUp == wandb' = [wandb EXCEPT !.open = FALSE]

WandbReceives ==
    /\ wandb.at = "receives" /\ wandb.queue # <<>>
    /\ wandb' = [wandb EXCEPT !.at = "logs", !.queue = <<>>]

(* MetricSender::send; a failure is only warned of. *)
WandbLogs == wandb.at = "logs" /\ wandb' = [wandb EXCEPT !.at = "receives"]

(* What is in the channel is logged before the run is finished. *)
WandbFinishes ==
    /\ wandb.at = "receives" /\ wandb.queue = <<>> /\ ~wandb.open
    /\ wandb' = [wandb EXCEPT !.at = "gone"]

WandbStep == WandbReceives \/ WandbLogs \/ WandbFinishes

WandbIsGone == wandb.at \in {"off", "gone"}
=============================================================================
