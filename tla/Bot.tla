--------------------------------- MODULE Bot ---------------------------------
(***************************************************************************)
(* The RLBot agent (rlgymppo-rlbot/src/agent.rs): it is given game packets *)
(* with a frame number and decides anew once enough frames have passed;    *)
(* between decisions it holds its controls.  Packets may skip frames, and  *)
(* a match that starts again counts its frames from the beginning.         *)
(***************************************************************************)
EXTENDS Integers, FiniteSetsExt

CONSTANTS
    DecisionFrames, \* get_tick_skip
    FramesApart,    \* bound: how many frames apart two packets may be
    FramesBack,     \* bound: how many frames a new start may take back
    MaxStarts       \* bound: matches that start again

VARIABLES
    due,        \* next_decision_frame: <<>> or how many frames it is ahead,
                \* where -1 stands for any frame that has passed
    packet,     \* history: whether the last one could be, and was, decided on, and
                \* odd, which every packet flips
    starts      \* of the match

botVars == <<due, packet, starts>>

(* BotAgent::new *)
BotInit ==
    /\ due = <<>> /\ starts = 0
    /\ packet = [usable |-> FALSE, decided |-> FALSE, odd |-> FALSE]

Ahead(frames) == IF due = <<>> THEN <<>> ELSE <<Max({-1, due[1] - frames})>>

(* Faulty: a decision is due at its frame only. *)
FaultyIsDue(ahead) == ahead = <<>> \/ ahead[1] = 0

IsDue(ahead) == ahead = <<>> \/ ahead[1] <= 0

(* tick; a packet is usable if the enricher takes it, the ball is in play  *)
(* and the agent's car is there.  infer sets the next decision.            *)
Tick(ahead, usable) ==
    LET decides == usable /\ IsDue(ahead)
    IN  /\ due' = IF decides THEN <<DecisionFrames>> ELSE ahead
        /\ packet' = [usable |-> usable, decided |-> decides, odd |-> ~packet.odd]

NextPacket ==
    /\ \E frames \in 1..FramesApart, usable \in BOOLEAN : Tick(Ahead(frames), usable)
    /\ UNCHANGED starts

MatchStartsAgain ==
    /\ starts < MaxStarts /\ starts' = starts + 1
    /\ \E frames \in 1..FramesBack, usable \in BOOLEAN : Tick(Ahead(-frames), usable)

-----------------------------------------------------------------------------
(* As long as packets keep being usable, the agent keeps deciding, however *)
(* the frames skip, and even after a match that has started again with a   *)
(* decision scheduled far ahead (tick).                                    *)
KeepsDeciding == packet.usable ~> (packet.decided \/ ~packet.usable)
=============================================================================
