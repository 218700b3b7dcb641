----------------------------- MODULE MCBatchSim -----------------------------
(* Two games; the first has one player of each team, the second one player. *)
EXTENDS BatchSim

MCGameOf == <<1, 1, 2>>
MCTeams == {0, 1}
FixedTeams == {<<1, 0, 0>>}

Base == [ complete |-> FALSE, overbatching |-> FALSE, retain |-> FALSE, delay |-> FALSE,
          maxEpisode |-> <<>>, oldTeams |-> {NoTeam} ]
Retaining == [Base EXCEPT !.retain = TRUE]
Complete == [Base EXCEPT !.complete = TRUE]

(* Each way of claiming, with and without retained leftovers; some with a  *)
(* delay, an episode limit, an old policy, or one that comes and goes.     *)
AllConfigs ==
    { [Base EXCEPT !.delay = TRUE],
      [Base EXCEPT !.overbatching = TRUE, !.maxEpisode = <<2>>],
      [Retaining EXCEPT !.maxEpisode = <<2>>],
      [Retaining EXCEPT !.overbatching = TRUE],
      [Retaining EXCEPT !.oldTeams = {NoTeam, 1}],
      [Complete EXCEPT !.oldTeams = {1}],
      [Complete EXCEPT !.maxEpisode = <<2>>] }

(* A complete-trajectory collector with self-play. *)
SelfPlayConfigs == {[Complete EXCEPT !.oldTeams = {NoTeam, 1}]}
=============================================================================
