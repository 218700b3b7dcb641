------------------------------- MODULE Layout -------------------------------
(***************************************************************************)
(* The layout planner of the dashboard (rlgymppo-tui/src/render.rs): it    *)
(* packs the groups of metrics into columns with a branch-and-bound        *)
(* search.  A group is its dimensions [w, h]; a column is the set of the   *)
(* positions of its groups.                                                *)
(***************************************************************************)
EXTENDS Naturals, Sequences, SequencesExt, FiniteSetsExt

CONSTANT PartitionLimit \* above so many groups, equal heights are taken to be possible

(* Dimensions of a column. *)
WidthOf(groups, column) == Max({0} \cup {groups[g].w : g \in column})
HeightOf(groups, column) == MapThenSumSet(LAMBDA g : groups[g].h, column)

TotalWidth(groups, columns) ==
    FoldLeft(LAMBDA sum, column : sum + WidthOf(groups, column), 0, columns)

AllHeight(groups) == HeightOf(groups, DOMAIN groups)
Heights(groups, columns) == {HeightOf(groups, columns[c]) : c \in DOMAIN columns}
Over(a, b) == IF a > b THEN a - b ELSE 0    \* saturating_sub

(* The j smallest, or largest, widths among some groups, added up. *)
Added(groups, some, j, narrowest) ==
    LET sorted == SetToSortSeq(some, LAMBDA a, b :
            \/ groups[a].w < groups[b].w /\ narrowest
            \/ groups[a].w > groups[b].w /\ ~narrowest
            \/ groups[a].w = groups[b].w /\ a < b)
    IN  FoldLeft(LAMBDA sum, g : sum + groups[g].w, 0, SubSeq(sorted, 1, j))

(* Scores are compared from the left: overflow, wasted area, height        *)
(* imbalance, unused width, column penalty, maximal height.                *)
Less(a, b) == \E i \in DOMAIN a : a[i] < b[i] /\ \A j \in 1..(i - 1) : a[j] = b[j]

Score(groups, screen, columns) ==
    LET tallest == Max(Heights(groups, columns))
        used == FoldLeft(LAMBDA sum, column :
                    sum + WidthOf(groups, column) * HeightOf(groups, column), 0, columns)
        width == TotalWidth(groups, columns)
    IN  <<Over(tallest, screen.h), width * tallest - used,
          tallest - Min(Heights(groups, columns)), Over(screen.w, width),
          Len(groups) - Len(columns), tallest>>

(* best_possible_score: no completion of these columns scores less. *)
Bound(groups, screen, columns) ==
    LET k == Len(columns)
        tallest == Max(Heights(groups, columns))
        narrowest == Min({groups[g].w : g \in DOMAIN groups})
    IN  <<Over(tallest, screen.h), Over(k * tallest, AllHeight(groups)) * narrowest,
          Over(tallest, AllHeight(groups) \div k),
          Over(screen.w, Added(groups, DOMAIN groups, k, FALSE)),
          Len(groups) - k, tallest>>

(* A search result is <<>> or the best score with its columns. *)
Improves(score, best) == best = <<>> \/ Less(score, best[1])

(* The largest groups are placed first. *)
PlacingOrder(groups) ==
    LET area(g) == groups[g].w * groups[g].h
    IN  SetToSortSeq(DOMAIN groups, LAMBDA a, b :
            \/ area(a) > area(b)
            \/ area(a) = area(b) /\ a < b)

(* A group may go to any column that has groups, or to the first that has  *)
(* none; a cap is the height every column must end at.                     *)
MayPlace(groups, screen, cap, rest, columns, c, g) ==
    LET after == [columns EXCEPT ![c] = @ \cup {g}]
        height == HeightOf(groups, after[c])
    IN  /\ columns[c] = {} => \A d \in 1..(c - 1) : columns[d] # {}
        /\ TotalWidth(groups, after) <= screen.w
        /\ cap # <<>> => \/ height = cap[1]
                         \/ /\ height < cap[1]
                            /\ \E r \in rest : groups[r].h <= cap[1] - height

EmptyColumns(columns) == Cardinality({c \in DOMAIN columns : columns[c] = {}})

FillsColumns(groups, screen, rest, columns) ==
    TotalWidth(groups, columns) + Added(groups, rest, EmptyColumns(columns), TRUE) <= screen.w

Hopeless(groups, screen, best, rest, columns) ==
    \/ Cardinality(rest) < EmptyColumns(columns)
    \/ ~FillsColumns(groups, screen, rest, columns)
    \/ ~Improves(Bound(groups, screen, columns), best)

(* ColumnSearch::run *)
RECURSIVE Search(_, _, _, _, _, _)
Search(groups, screen, cap, best, todo, columns) ==
    IF Hopeless(groups, screen, best, ToSet(todo), columns) THEN best
    ELSE IF todo = <<>>
         THEN IF Improves(Score(groups, screen, columns), best)
              THEN <<Score(groups, screen, columns), columns>> ELSE best
    ELSE FoldLeft(LAMBDA found, c :
            IF MayPlace(groups, screen, cap, ToSet(Tail(todo)), columns, c, Head(todo))
            THEN Search(groups, screen, cap, found, Tail(todo),
                        [columns EXCEPT ![c] = @ \cup {Head(todo)}])
            ELSE found,
         best, [c \in DOMAIN columns |-> c])

(* can_partition_heights *)
MayBeEqual(groups, k) ==
    /\ AllHeight(groups) % k = 0
    /\ \A g \in DOMAIN groups : groups[g].h <= AllHeight(groups) \div k
    /\ \/ Len(groups) > PartitionLimit
       \/ \E place \in [DOMAIN groups -> 1..k] : \A c \in 1..k :
             HeightOf(groups, {g \in DOMAIN groups : place[g] = c}) = AllHeight(groups) \div k

Perfect(best) == best # <<>> /\ \A i \in 1..3 : best[1][i] = 0

(* plan_metric_columns_uncached: more and more columns, as long as the     *)
(* narrowest fit.  A perfect layout is only beaten by one as perfect.      *)
Plan(groups, screen) ==
    LET Fits(k) == Added(groups, DOMAIN groups, k, TRUE) <= screen.w
        best == FoldLeft(LAMBDA found, k :
                    IF ~Fits(k) \/ (Perfect(found) /\ ~MayBeEqual(groups, k)) THEN found
                    ELSE Search(groups, screen,
                                IF Perfect(found) THEN <<AllHeight(groups) \div k>> ELSE <<>>,
                                found, PlacingOrder(groups), [c \in 1..k |-> {}]),
                <<>>, [k \in DOMAIN groups |-> k])
    IN  IF best = <<>> THEN <<DOMAIN groups>> ELSE best[2]

(* The reference: every way to fill some columns, if it fits.              *)
Layouts(groups, screen) ==
    UNION {{layout \in {[c \in 1..k |-> {g \in DOMAIN groups : place[g] = c}] :
                            place \in [DOMAIN groups -> 1..k]} :
                /\ \A c \in 1..k : layout[c] # {}
                /\ TotalWidth(groups, layout) <= screen.w} : k \in DOMAIN groups}

IsBest(groups, screen, columns) ==
    LET layouts == Layouts(groups, screen)
    IN  IF layouts = {} THEN columns = <<DOMAIN groups>>
        ELSE /\ columns \in layouts
             /\ \A layout \in layouts :
                    ~Less(Score(groups, screen, layout), Score(groups, screen, columns))
=============================================================================
