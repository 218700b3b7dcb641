------------------------------ MODULE Dashboard ------------------------------
(***************************************************************************)
(* The terminal dashboard (rlgymppo-tui): a thread that takes commands     *)
(* from a bounded channel and metrics from a slot that holds the latest    *)
(* update only.  In a turn it handles the commands there are, then draws.  *)
(*                                                                         *)
(* An update is the number of its report and the evaluations whose ratings *)
(* it is marked to bring (fresh_rating is whether there are any).          *)
(***************************************************************************)
EXTENDS Layout

CONSTANTS
    TuiBuffer,       \* TUI_COMMAND_BUFFER_SIZE
    SparklineWidth,  \* SPARKLINE_HISTORY_LEN
    Screens,         \* the sizes the terminal may have
    Metrics          \* the groups of metrics of each report, in display order:
                     \* key, width without sparklines, entries, and whether
                     \* their history is kept "always", when "fresh" or "never"

VARIABLES
    tui,         \* the thread and its display
    tuiRx,       \* the commands sent to it
    slot,        \* pending_update: <<>> or <<update>>
    latest,      \* <<>> or <<update>>: what it draws
    drawn,       \* history: <<>> or the last layout drawn
    marked,      \* history: evaluations whose ratings were sent as fresh
    shown,       \* history: those that entered the metric history
    overtaken    \* history: those replaced before they could

updateVars == <<slot, latest, overtaken>>
drawingVars == <<drawn, shown>>
displayVars == <<tui, updateVars, drawingVars, marked>>
dashboardVars == <<tuiRx, displayVars>>

(* TuiDisplay::new; without a dashboard the thread is "off". *)
DashboardInit(enabled, screen) ==
    /\ tui = [at |-> IF enabled THEN "recv" ELSE "off", got |-> FALSE, redraw |-> FALSE,
              offset |-> 0, max |-> 0, sparklines |-> TRUE, notice |-> FALSE,
              screen |-> screen, tracked |-> {}, cache |-> <<>>]
    /\ tuiRx = <<>> /\ slot = <<>> /\ latest = <<>> /\ drawn = <<>>
    /\ marked = {} /\ shown = {} /\ overtaken = {}

-----------------------------------------------------------------------------
(* The senders' side. *)
Listens == tui.at \notin {"off", "gone"}

(* send: it blocks while the channel is full, and fails once the thread is *)
(* gone, which every sender ignores.                                       *)
Send(command) ==
    IF Listens THEN Len(tuiRx) < TuiBuffer /\ tuiRx' = Append(tuiRx, command)
    ELSE UNCHANGED tuiRx

(* Faulty: a new update's mark replaces that of the one not yet read. *)
FaultyMerged(marks) == marks

Merged(marks) == IF slot = <<>> THEN marks ELSE slot[1].marks \cup marks

(* The wake-up is dropped when there is no room. *)
WakeUp ==
    tuiRx' = IF Listens /\ Len(tuiRx) < TuiBuffer THEN Append(tuiRx, "wake") ELSE tuiRx

(* update_with_fresh_rating *)
Update(n, marks) ==
    /\ marked' = marked \cup marks
    /\ slot' = <<[n |-> n, marks |-> Merged(marks)]>>
    /\ WakeUp

-----------------------------------------------------------------------------
(* The thread takes commands. *)
PageHeight == Max({1, Over(tui.screen.h, 4)})

(* apply_scroll_command *)
Scrolled(command) ==
    LET Up(lines) == Over(tui.offset, lines)
        Down(lines) == Min({tui.offset + lines, tui.max})
    IN  CASE command = "up" -> Up(1)
          [] command = "down" -> Down(1)
          [] command = "mouse up" -> Up(3)
          [] command = "mouse down" -> Down(3)
          [] command = "page up" -> Up(PageHeight)
          [] command = "page down" -> Down(PageHeight)
          [] command = "home" -> 0
          [] command = "end" -> tui.max

Received(command) ==
    /\ tui.at \in {"recv", "more"} /\ tuiRx # <<>> /\ Head(tuiRx) = command
    /\ tuiRx' = Tail(tuiRx)
    /\ UNCHANGED <<drawingVars, marked>>

(* take_pending_update; a second update of the turn replaces the first. *)
TakesUpdate ==
    /\ latest' = slot /\ slot' = <<>>
    /\ overtaken' = IF tui.got THEN overtaken \cup latest[1].marks ELSE overtaken

ReceivesWake ==
    /\ Received("wake")
    /\ IF slot = <<>> THEN UNCHANGED updateVars ELSE TakesUpdate
    /\ tui' = [tui EXCEPT !.at = "more", !.got = @ \/ slot # <<>>,
                          !.redraw = @ \/ slot # <<>>]

ReceivesNotice ==
    /\ Received("notice")
    /\ tui' = [tui EXCEPT !.at = "more", !.notice = TRUE, !.redraw = TRUE]
    /\ UNCHANGED updateVars

ReceivesScroll(command) ==
    /\ Received(command)
    /\ tui' = [tui EXCEPT !.at = "more", !.offset = Scrolled(command), !.redraw = TRUE]
    /\ UNCHANGED updateVars

ReceivesSparklines ==
    /\ Received("sparklines")
    /\ tui' = [tui EXCEPT !.at = "more", !.sparklines = ~@, !.redraw = TRUE]
    /\ UNCHANGED updateVars

(* The mouse is the terminal's again. *)
ReceivesMouseOff ==
    /\ Received("mouse off")
    /\ tui' = [tui EXCEPT !.at = "more"]
    /\ UNCHANGED updateVars

(* It goes at once, without drawing what it has taken this turn. *)
ReceivesClose ==
    /\ Received("close")
    /\ tui' = [tui EXCEPT !.at = "gone"]
    /\ UNCHANGED updateVars

(* recv_timeout gives up after 100 ms; a notice may have had its time. *)
ReceivesNothing(expired) ==
    /\ tui.at = "recv" /\ tuiRx = <<>> /\ (expired => tui.notice)
    /\ tui' = [tui EXCEPT !.at = "more", !.redraw = expired, !.notice = @ /\ ~expired]
    /\ UNCHANGED <<tuiRx, updateVars, drawingVars, marked>>

DrainEnds ==
    /\ tui.at = "more" /\ tuiRx = <<>>
    /\ tui' = [tui EXCEPT !.at = "end"]
    /\ UNCHANGED <<tuiRx, updateVars, drawingVars, marked>>

(* The terminal fails, or cannot be asked for its size. *)
TuiFails ==
    /\ Listens
    /\ tui' = [tui EXCEPT !.at = "gone"] /\ tuiRx' = <<>>
    /\ UNCHANGED <<updateVars, drawingVars, marked>>

-----------------------------------------------------------------------------
(* The thread draws. *)
KeysOf(groups, kept) == {groups[g].key : g \in {i \in DOMAIN groups : groups[i].history = kept}}

(* update_metric_history; ratings are kept when they are fresh. *)
Tracked(update) ==
    tui.tracked \cup KeysOf(Metrics[update.n], "always")
                \cup (IF update.marks = {} THEN {} ELSE KeysOf(Metrics[update.n], "fresh"))

(* required_group_width and desired_group_height *)
Dimensions(group, tracked) ==
    [w |-> group.width + IF group.key \in tracked THEN SparklineWidth ELSE 0,
     h |-> Max({3, group.entries + 2})]

(* Faulty: a cached layout is used again when only the height has changed. *)
FaultyCacheKey(groups, grid) == [groups |-> groups, w |-> grid.w]

CacheKey(groups, grid) == [groups |-> groups, w |-> grid.w, h |-> grid.h]

Grid(screen) == [w |-> screen.w, h |-> Over(screen.h, 4)]

GroupsOf(metrics, tracked) == [g \in DOMAIN metrics |-> Dimensions(metrics[g], tracked)]

(* The plans there may be. *)
AllGroups == {GroupsOf(metrics, tracked) :
                 metrics \in Range(Metrics), tracked \in SUBSET UNION {KeysOf(m, kept) :
                     m \in Range(Metrics), kept \in {"always", "fresh"}}}

Plans == {[groups |-> groups, grid |-> grid, columns |-> Plan(groups, grid)] :
             groups \in AllGroups, grid \in {Grid(screen) : screen \in Screens}}

(* plan_metric_columns; the cache holds the last plan. *)
Planned(groups, grid, plan) ==
    IF tui.cache # <<>> /\ CacheKey(tui.cache[1].groups, tui.cache[1].grid) = CacheKey(groups, grid)
    THEN plan = tui.cache[1]
    ELSE plan.groups = groups /\ plan.grid = grid

(* render_metrics_grid, below a header of 3 lines and above a status line. *)
Draws(update, tracked, screen) ==
    LET grid == Grid(screen)
        turned == [tui EXCEPT !.at = "recv", !.got = FALSE, !.redraw = FALSE,
                              !.screen = screen, !.tracked = tracked]
    IN  IF update = <<>> \/ grid.w = 0 \/ grid.h = 0
        THEN drawn' = <<>> /\ tui' = [turned EXCEPT !.max = 0, !.offset = 0]
        ELSE LET groups == GroupsOf(Metrics[update[1].n], IF tui.sparklines THEN tracked ELSE {})
             IN  \E plan \in Plans :
                    LET max == Over(Max(Heights(groups, plan.columns)), grid.h)
                    IN  /\ Planned(groups, grid, plan)
                        /\ drawn' = <<[groups |-> groups, grid |-> grid, columns |-> plan.columns]>>
                        /\ tui' = [turned EXCEPT !.max = max, !.offset = Min({@, max}),
                                                 !.cache = <<plan>>]

(* The turn ends: an update that has had no wake-up is taken too, and the  *)
(* screen may have another size.                                           *)
EndsTurn(screen) ==
    /\ tui.at = "end"
    /\ LET fetches == ~tui.got /\ slot # <<>>
           got == tui.got \/ fetches
           update == IF fetches THEN slot ELSE latest
       IN  /\ IF fetches THEN TakesUpdate ELSE UNCHANGED updateVars
           /\ shown' = IF got THEN shown \cup update[1].marks ELSE shown
           /\ IF got \/ tui.redraw \/ screen # tui.screen
              THEN Draws(update, IF got THEN Tracked(update[1]) ELSE tui.tracked, screen)
              ELSE /\ tui' = [tui EXCEPT !.at = "recv"] /\ UNCHANGED drawn
    /\ UNCHANGED <<tuiRx, marked>>

ScrollCommands ==
    {"up", "down", "mouse up", "mouse down", "page up", "page down", "home", "end"}

TuiStep(screens) ==
    \/ ReceivesWake \/ ReceivesNotice \/ ReceivesSparklines \/ ReceivesMouseOff
    \/ ReceivesClose \/ DrainEnds
    \/ \E command \in ScrollCommands : ReceivesScroll(command)
    \/ \E expired \in BOOLEAN : ReceivesNothing(expired)
    \/ \E screen \in screens : EndsTurn(screen)
=============================================================================
