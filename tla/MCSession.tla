------------------------------ MODULE MCSession ------------------------------
(* The sessions a configuration file cannot write, and the planner of      *)
(* layouts compared with its reference for all small sets of groups.       *)
EXTENDS Session

Group(key, width, entries, history) ==
    [key |-> key, width |-> width, entries |-> entries, history |-> history]

SomeMetrics ==
    << <<Group("Loss", 2, 3, "always"), Group("Timing", 3, 2, "never")>>,
       <<Group("Loss", 2, 3, "always"), Group("Timing", 3, 2, "never"),
         Group("Rating", 2, 1, "fresh")>> >>

Screen(w, h) == [w |-> w, h |-> h]
Small == Screen(7, 9)
Tall == Screen(7, 14)

Session(program, dashboard, render, keys, presses, screens, evaluates, iterations, limited) ==
    [program |-> program, dashboard |-> dashboard # "none", fails |-> dashboard = "fails",
     wandb |-> FALSE, render |-> render, keys |-> keys, presses |-> presses, screens |-> screens,
     evaluates |-> evaluates, iterations |-> iterations, limited |-> limited]

SomeSessions ==
    { Session("learn", "none", FALSE, {"q", "r", "s"}, 2, {Small}, "never", 2, FALSE),
      Session("learn", "shows", FALSE, {}, 0, {Small}, "later", 3, FALSE),
      Session("learn", "fails", FALSE, {"q", "s", "p", "end"}, 2, {Small}, "never", 1, FALSE),
      [Session("learn", "shows", FALSE, {}, 0, {Small, Tall}, "never", 1, TRUE)
          EXCEPT !.wandb = TRUE],
      [Session("learn", "none", FALSE, {}, 0, {Small}, "never", 1, TRUE) EXCEPT !.wandb = TRUE],
      Session("learn", "none", FALSE, {}, 0, {Small}, "waits", 3, TRUE),
      Session("transfer", "none", TRUE, {"q", "d"}, 2, {Small}, "never", 1, TRUE),
      Session("render", "none", TRUE, {"q", "r", "s"}, 2, {Small}, "never", 1, TRUE),
      Session("bot", "none", FALSE, {}, 0, {Small}, "never", 1, TRUE) }

SomeScreens == {Small, Tall}

(* The planner finds a best layout for up to three groups of six           *)
(* dimensions on four grids, whatever it prunes (ColumnSearch).            *)
Dimension == [w : {2, 3}, h : {3, 4, 6}]
ASSUME PlannerIsExact ==
    \A n \in 1..3 : \A groups \in [1..n -> Dimension] :
        \A grid \in [w : {4, 7}, h : {5, 9}] :
            IsBest(groups, grid, Plan(groups, grid))

OneVersion == {<<"previous", 1>>}
=============================================================================
