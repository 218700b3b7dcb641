--------------------------- MODULE BatchSimProofs ---------------------------
(***************************************************************************)
(* Proofs about one collector, for every batch of games, configuration and *)
(* share.                                                                  *)
(***************************************************************************)
EXTENDS BatchSim, Ranks, SequenceTheorems, FiniteSetTheorems, TLAPS

(* Saturating subtraction and minimum stay natural. *)
LEMMA MinusNat == \A a, b \in Nat : Minus(a, b) \in Nat /\ (Minus(a, b) = 0 <=> a <= b)
                                    /\ (a >= b => Minus(a, b) = a - b)
  BY DEF Minus

(* A one-element sequence over a set is one of the set's options. *)
LEMMA OptionFacts ==
    ASSUME NEW S
    PROVE  /\ <<>> \in Option(S)
           /\ \A x \in S : <<x>> \in Option(S)
           /\ \A o \in Option(S) : o # <<>> => o[1] \in S /\ Len(o) = 1
           /\ \A o \in Option(S) : o \in Seq(S)
<1>1. <<>> \in Seq(S) /\ Len(<<>>) = 0
  OBVIOUS
<1>2. \A x \in S : <<x>> \in Seq(S) /\ Len(<<x>>) = 1
  OBVIOUS
<1>3. ASSUME NEW o \in Option(S), o # <<>>
      PROVE  o[1] \in S /\ Len(o) = 1
  <2>1. o \in Seq(S) /\ Len(o) <= 1 /\ Len(o) \in Nat
    BY DEF Option
  <2>2. Len(o) \in Nat \ {0}
    BY <1>3, <2>1, EmptySeq
  <2>3. Len(o) = 1 /\ 1 \in 1..Len(o)
    BY <2>1, <2>2
  <2> QED
    BY <2>1, <2>3, ElementOfSeq
<1> QED
  BY <1>1, <1>2, <1>3 DEF Option

(* Pushing a trajectory adds exactly its rows. *)
LEMMA PushTrajFacts ==
    ASSUME NEW m \in [rows: Seq(Row), nexts: Seq(Observation)], NEW t \in Trajectory
    PROVE  /\ PushTraj(m, t) \in [rows: Seq(Row), nexts: Seq(Observation)]
           /\ Len(PushTraj(m, t).rows) = Len(m.rows) + Len(t.rows)
<1> DEFINE n == Len(t.rows)
           rows == IF t.next # <<>> /\ n > 0 
                   THEN [t.rows EXCEPT ![n].term = "Truncated"] ELSE t.rows
<1>1. t.rows \in Seq(Row) /\ t.next \in Seq(Observation) /\ n \in Nat
  BY OptionFacts DEF Trajectory
<1>2. rows \in Seq(Row) /\ Len(rows) = n
  <2>1. CASE t.next # <<>> /\ n > 0
    <3>1. t.rows[n] \in Row
      BY <1>1, <2>1
    <3>2. [t.rows[n] EXCEPT !.term = "Truncated"] \in Row
      BY <3>1 DEF Row, Terminals
    <3>3. rows = [t.rows EXCEPT ![n] = [t.rows[n] EXCEPT !.term = "Truncated"]]
      BY <2>1
    <3> QED
      BY <1>1, <2>1, <3>2, <3>3
  <2>2. CASE ~(t.next # <<>> /\ n > 0)
    BY <1>1, <2>2
  <2> QED
    BY <2>1, <2>2
<1>3. PushTraj(m, t) = PushPlayer(m, rows, t.next)
  BY DEF PushTraj
<1> HIDE DEF rows
<1>4. CASE rows = <<>>
  BY <1>1, <1>2, <1>3, <1>4 DEF PushPlayer
<1>5. CASE rows # <<>>
  <2>1. m.rows \in Seq(Row) /\ m.nexts \in Seq(Observation)
    OBVIOUS
  <2>2. PushTraj(m, t) = [rows |-> m.rows \o rows, nexts |-> m.nexts \o t.next]
    BY <1>3, <1>5 DEF PushPlayer
  <2>3. m.nexts \o t.next \in Seq(Observation)
    BY <1>1, <2>1
  <2>4. m.rows \o rows \in Seq(Row) /\ Len(m.rows \o rows) = Len(m.rows) + n
    <3>1. \A a, b \in Seq(Row) : a \o b \in Seq(Row) /\ Len(a \o b) = Len(a) + Len(b)
      BY ConcatProperties
    <3> QED
      BY <1>2, <2>1, <3>1
  <2> QED
    BY <1>3, <2>2, <2>3, <2>4
<1> QED
  BY <1>4, <1>5

(* Splitting a trajectory yields typed parts, the first with as many rows  *)
(* as were claimed.                                                        *)
LEMMA PartitionFacts ==
    ASSUME NEW t \in Trajectory, NEW claimed \in 0..Len(t.rows), NEW retain \in BOOLEAN
    PROVE  LET part == Partition(t, claimed, retain)
           IN  /\ part.claimed \in Option(Trajectory)
               /\ part.overflow \in Option(Trajectory)
               /\ part.claimed = <<>> => claimed = 0
               /\ part.claimed # <<>> => Len(part.claimed[1].rows) = claimed
<1> DEFINE n == Len(t.rows)
           suffix == [rows |-> SubSeq(t.rows, claimed + 1, n), next |-> t.next]
           prefix == [rows |-> SubSeq(t.rows, 1, claimed),
                      next |-> <<ObservationOf(t.rows[claimed + 1])>>]
           part == Partition(t, claimed, retain)
<1>1. t.rows \in Seq(Row) /\ t.next \in Option(Observation) /\ n \in Nat
  BY DEF Trajectory
<1>2. suffix \in Trajectory
  BY <1>1 DEF Trajectory
<1>3. ASSUME claimed # n
      PROVE  prefix \in Trajectory /\ Len(prefix.rows) = claimed
  <2>1. t.rows[claimed + 1] \in Row
    BY <1>1, <1>3
  <2>2. ObservationOf(t.rows[claimed + 1]) \in Observation
    BY <2>1 DEF ObservationOf, Row, Observation
  <2>3. SubSeq(t.rows, 1, claimed) \in Seq(Row) /\ Len(SubSeq(t.rows, 1, claimed)) = claimed
    BY <1>1
  <2> QED
    BY <2>2, <2>3, OptionFacts DEF Trajectory
<1>4. part = [ claimed |-> IF claimed = n THEN <<t>>
                           ELSE IF claimed = 0 THEN <<>> ELSE <<prefix>>,
               overflow |-> IF claimed < n /\ retain THEN <<suffix>> ELSE <<>> ]
  BY DEF Partition
<1> HIDE DEF part, suffix, prefix
<1> QED
  BY <1>1, <1>2, <1>3, <1>4, OptionFacts DEF part

MemoryType == [rows: Seq(Row), nexts: Seq(Observation)]

(* An optional claimed prefix adds its rows, and nothing when absent. *)
LEMMA PushClaimedFacts ==
    ASSUME NEW m \in MemoryType, NEW c \in Option(Trajectory)
    PROVE  /\ PushClaimed(m, c) \in MemoryType
           /\ c = <<>> => PushClaimed(m, c) = m
           /\ c # <<>> => Len(PushClaimed(m, c).rows) = Len(m.rows) + Len(c[1].rows)
<1>1. CASE c = <<>>
  BY <1>1 DEF PushClaimed
<1>2. CASE c # <<>>
  <2>1. c[1] \in Trajectory
    BY <1>2, OptionFacts
  <2>2. PushClaimed(m, c) = PushTraj(m, c[1])
    BY <1>2 DEF PushClaimed
  <2> QED
    BY <1>2, <2>1, <2>2, PushTrajFacts DEF MemoryType
<1> QED
  BY <1>1, <1>2

(* Splitting a trajectory and pushing the claimed part adds exactly the    *)
(* claimed steps.                                                          *)
LEMMA SplitAndPush ==
    ASSUME NEW m \in MemoryType, NEW t \in Trajectory,
           NEW claimed \in 0..Len(t.rows), NEW retain \in BOOLEAN
    PROVE  LET part == Partition(t, claimed, retain)
               pushed == PushClaimed(m, part.claimed)
           IN  /\ pushed \in MemoryType
               /\ Len(pushed.rows) = Len(m.rows) + claimed
               /\ part.overflow \in Option(Trajectory)
<1> DEFINE part == Partition(t, claimed, retain)
<1>1. /\ part.claimed \in Option(Trajectory)
      /\ part.overflow \in Option(Trajectory)
      /\ part.claimed = <<>> => claimed = 0
      /\ part.claimed # <<>> => Len(part.claimed[1].rows) = claimed
  BY PartitionFacts
<1> HIDE DEF part
<1>2. Len(m.rows) \in Nat
  BY LenProperties DEF MemoryType
<1>3. /\ PushClaimed(m, part.claimed) \in MemoryType
      /\ Len(PushClaimed(m, part.claimed).rows) = Len(m.rows) + claimed
  <2>1. CASE part.claimed = <<>>
    <3>1. PushClaimed(m, part.claimed) = m /\ claimed = 0
      BY <1>1, <2>1, PushClaimedFacts
    <3> QED
      BY <1>2, <3>1
  <2>2. CASE part.claimed # <<>>
    BY <1>1, <2>2, PushClaimedFacts
  <2> QED
    BY <2>1, <2>2
<1> QED
  BY <1>1, <1>3 DEF part

(* What a claim outside complete mode may be granted. *)
LEMMA GrantFacts ==
    ASSUME TypeOK, BudgetAccounting, NEW steps \in Nat
    PROVE  /\ Grant(steps) \in 0..steps
           /\ remaining = 0 => Grant(steps) = 0
           /\ ~config.overbatching => Grant(steps) <= remaining
           /\ remaining > 0 => Grant(steps) < remaining + share
<1>1. /\ remaining \in Nat /\ share \in Nat
      /\ config.overbatching \in BOOLEAN
      /\ Collected \in Nat
  BY BatchAssumption, LenProperties DEF TypeOK, Config, Collected
<1>2. remaining > 0 => share > 0
  BY <1>1 DEF BudgetAccounting
<1>3. Minus(share, 1) \in Nat /\ (share > 0 => Minus(share, 1) = share - 1)
  BY <1>1, MinusNat
<1>4. CASE config.overbatching
  BY <1>1, <1>2, <1>3, <1>4 DEF Grant, ClaimOverbatch, Least
<1>5. CASE ~config.overbatching
  BY <1>1, <1>2, <1>5 DEF Grant, ClaimAvailable, Least
<1> QED
  BY <1>4, <1>5

-----------------------------------------------------------------------------
(* The types of a memory and of the other pieces of state an action uses. *)
LEMMA StateTypes ==
    ASSUME TypeOK
    PROVE  /\ memory \in MemoryType
           /\ Collected \in Nat
           /\ config.complete \in BOOLEAN /\ config.overbatching \in BOOLEAN
           /\ config.retain \in BOOLEAN /\ config.delay \in BOOLEAN
           /\ \A p \in Players : flushed[p] # <<>> => flushed[p][1] \in Trajectory
<1>1. \A p \in Players : flushed[p] \in Option(Trajectory)
  BY DEF TypeOK
<1>2. \A p \in Players : flushed[p] # <<>> => flushed[p][1] \in Trajectory
  BY <1>1, OptionFacts
<1>3. memory \in MemoryType
  BY DEF TypeOK, MemoryType
<1>4. Collected \in Nat
  BY <1>3, LenProperties DEF MemoryType, Collected
<1>5. config \in Config
  BY BatchAssumption DEF TypeOK
<1> QED
  BY <1>2, <1>3, <1>4, <1>5 DEF Config

(* The arithmetic of one claim outside complete mode. *)
LEMMA ClaimKeepsAccount ==
    ASSUME TypeOK, TypeOK', BudgetAccounting, NEW steps \in Nat,
           Collected' = Collected + Grant(steps),
           remaining' = Minus(remaining, Grant(steps)),
           UNCHANGED <<config, share>>
    PROVE  BudgetAccounting'
<1> DEFINE claimed == Grant(steps)
<1>1. /\ remaining \in Nat /\ share \in Nat /\ Collected \in Nat
      /\ config.overbatching \in BOOLEAN
  BY StateTypes DEF TypeOK
<1>2. /\ claimed \in Nat
      /\ remaining = 0 => claimed = 0
      /\ ~config.overbatching => claimed <= remaining
      /\ remaining > 0 => claimed < remaining + share
  BY GrantFacts
<1>3. /\ claimed >= remaining => remaining' = 0
      /\ claimed < remaining => remaining' = remaining - claimed
  BY <1>1, <1>2 DEF Minus
<1>4. Collected' = Collected + claimed
  OBVIOUS
<1> HIDE DEF claimed
<1>5. remaining' > 0 => Collected' + remaining' = share
  BY <1>1, <1>2, <1>3, <1>4 DEF BudgetAccounting
<1>6. remaining' = 0 => Collected' >= share
  BY <1>1, <1>2, <1>3, <1>4 DEF BudgetAccounting
<1>7. ~config.complete => IF config.overbatching /\ share > 0
                          THEN Collected' < 2 * share ELSE Collected' <= share
  <2>1. CASE remaining = 0
    BY <1>1, <1>2, <1>4, <2>1 DEF BudgetAccounting
  <2>2. CASE remaining > 0
    BY <1>1, <1>2, <1>4, <2>2 DEF BudgetAccounting
  <2> QED
    BY <1>1, <2>1, <2>2
<1> QED
  BY <1>5, <1>6, <1>7 DEF BudgetAccounting

(* Each action preserves TypeOK; the actions that claim need the account   *)
(* too, which bounds a grant by the trajectory it is granted to.           *)
LEMMA BeginRunTypes ==
    ASSUME TypeOK, NEW budget \in Shares, NEW oldTeam, BeginRun(budget, oldTeam)
    PROVE  TypeOK'
<1>1. budget \in Nat
  BY BatchAssumption
<1>2. <<>> \in Seq(Trajectory) /\ EmptyMemory \in [rows: Seq(Row), nexts: Seq(Observation)]
  BY DEF EmptyMemory
<1> QED
  BY <1>1, <1>2 DEF TypeOK, BeginRun, envVars

(* A leftover is typed, split and pushed. *)
LEMMA DrainOverflowTypes ==
    ASSUME TypeOK, BudgetAccounting, DrainOverflow
    PROVE  /\ TypeOK'
           /\ Collected' = Collected + Grant(Len(Head(overflow).rows))
<1> DEFINE claimed == Grant(Len(Head(overflow).rows))
           part == Partition(Head(overflow), claimed, TRUE)
<1>1. Head(overflow) \in Trajectory /\ Tail(overflow) \in Seq(Trajectory)
  BY HeadTailProperties DEF TypeOK, DrainOverflow
<1>2. Len(Head(overflow).rows) \in Nat
  BY <1>1, LenProperties DEF Trajectory
<1>3. claimed \in 0..Len(Head(overflow).rows)
  BY <1>2, GrantFacts
<1>4. /\ PushClaimed(memory, part.claimed) \in MemoryType
      /\ Len(PushClaimed(memory, part.claimed).rows) = Len(memory.rows) + claimed
      /\ part.overflow \in Option(Trajectory)
  BY <1>1, <1>3, StateTypes, SplitAndPush
<1>5. part.overflow \o Tail(overflow) \in Seq(Trajectory)
  BY <1>1, <1>4, OptionFacts, ConcatProperties
<1>6. Minus(remaining, claimed) \in Nat
  <2>1. claimed \in Nat /\ remaining \in Nat
    BY <1>2, <1>3 DEF TypeOK
  <2> HIDE DEF claimed
  <2> QED
    BY <2>1, MinusNat
<1>7. /\ memory' = PushClaimed(memory, part.claimed)
      /\ overflow' = part.overflow \o Tail(overflow)
      /\ remaining' = Minus(remaining, claimed)
      /\ pc' \in {"loop", "drain"}
      /\ UNCHANGED <<config, envVars, trajs, runVars, completed, pending, flushed>>
  BY DEF DrainOverflow, Requeue
<1> HIDE DEF claimed, part
<1>8. TypeOK'
  BY <1>4, <1>5, <1>6, <1>7 DEF TypeOK, MemoryType, envVars, runVars
<1>9. Collected' = Collected + claimed
  BY <1>4, <1>7 DEF Collected
<1> QED
  BY <1>8, <1>9 DEF claimed

(* A recorded step extends the player's rows by a row of its own. *)
LEMMA RecordedTypes ==
    ASSUME TypeOK, NEW p \in Players, NEW term \in Terminals
    PROVE  Recorded(p, term) \in Seq(Row) /\ FlushOf(p, term) \in Trajectory
<1>1. clock[GameOf[p]] \in Nat /\ trajs[p] \in Seq(Row)
  BY BatchAssumption DEF TypeOK
<1>2. [pl |-> p, at |-> clock[GameOf[p]], term |-> term] \in Row
  BY <1>1 DEF Row
<1>3. Recorded(p, term) \in Seq(Row)
  BY <1>1, <1>2 DEF Recorded
<1>4. [pl |-> p, at |-> clock[GameOf[p]] + 1] \in Observation
  BY <1>1 DEF Observation
<1> QED
  BY <1>3, <1>4, OptionFacts DEF FlushOf, Trajectory

(* A step types the rows, the clock and the teams of its game. *)
LEMMA StepGameTypes ==
    ASSUME TypeOK, NEW g \in Games, NEW ending \in Terminals, StepGame(g, ending)
    PROVE  TypeOK'
<1> DEFINE term == TerminalType(g, ending)
<1>1. term \in Terminals
  BY DEF TerminalType, Terminals
<1>2. \A p \in Players : Recorded(p, term) \in Seq(Row) /\ <<FlushOf(p, term)>> \in Option(Trajectory)
  BY <1>1, RecordedTypes, OptionFacts
<1>3. /\ trajs' = [p \in Players |->
                 IF GameOf[p] # g THEN trajs[p]
                 ELSE IF term # "None" THEN <<>>
                 ELSE IF p \in tracked THEN Recorded(p, term)
                 ELSE trajs[p]]
      /\ flushed' = [p \in Players |->
                 IF GameOf[p] = g /\ p \in tracked /\ term # "None"
                 THEN <<FlushOf(p, term)>> ELSE flushed[p]]
      /\ pending' = pending \ {g}
      /\ pc' \in {"claim", "step"}
      /\ UNCHANGED <<config, overflow, tracked, share, remaining, completed, memory>>
  BY DEF StepGame, runVars
<1> HIDE DEF term
<1>4. trajs' \in [Players -> Seq(Row)]
  BY <1>2, <1>3, EmptySeq DEF TypeOK
<1>5. flushed' \in [Players -> Option(Trajectory)]
  BY <1>2, <1>3 DEF TypeOK
<1>6. Advance(g, ending)
  BY DEF StepGame
<1>7. /\ clock' \in [Games -> Nat]
      /\ primed' \in [Games -> BOOLEAN]
      /\ held' \in [Games -> Nat]
      /\ lead' \in [Games -> {"none", "neutral", "held"}]
  <2>1. clock[g] \in Nat /\ PrimedAfter(ending) \in BOOLEAN
    BY DEF TypeOK, PrimedAfter
  <2>2. clock' \in [Games -> Nat]
    BY <1>6, <2>1 DEF Advance, TypeOK
  <2>3. primed' = [primed EXCEPT ![g] = PrimedAfter(ending)]
    BY <1>6 DEF Advance
  <2>4. primed' \in [Games -> BOOLEAN]
    BY <2>1, <2>3 DEF TypeOK
  <2>5. held' \in [Games -> Nat]
    BY <1>6, <2>1 DEF Advance, TypeOK
  <2>6. lead' \in [Games -> {"none", "neutral", "held"}]
    BY <1>6 DEF Advance, TypeOK
  <2> QED
    BY <2>2, <2>4, <2>5, <2>6
<1>8. teams' \in [Players -> Teams]
  <2>1. CASE ending # "None"
    <3>1. PICK layout \in Layouts :
            teams' = [p \in Players |-> IF GameOf[p] = g THEN layout[p] ELSE teams[p]]
      BY <1>6, <2>1 DEF Advance
    <3>2. layout \in [Players -> Teams]
      BY BatchAssumption
    <3> QED
      BY <3>1, <3>2 DEF TypeOK
  <2>2. CASE ending = "None"
    BY <1>6, <2>2 DEF Advance, TypeOK
  <2> QED
    BY <2>1, <2>2
<1> QED
  BY <1>3, <1>4, <1>5, <1>7, <1>8 DEF TypeOK

(* A whole claim: types, and its arithmetic. *)
LEMMA ClaimWholeFacts ==
    ASSUME TypeOK, NEW traj \in Trajectory, ClaimWhole(traj)
    PROVE  /\ remaining' \in Nat /\ completed' \in BOOLEAN
           /\ memory' \in MemoryType /\ overflow' = overflow
           /\ \/ /\ Collected' = Collected + Len(traj.rows)
                 /\ remaining' = Minus(remaining, Len(traj.rows))
              \/ remaining = 0 /\ remaining' = 0 /\ Collected' = Collected
<1> DEFINE steps == Len(traj.rows)
           claimed == ClaimComplete(remaining, steps, ~completed)
<1>1. steps \in Nat /\ remaining \in Nat /\ memory \in MemoryType
  BY StateTypes, LenProperties DEF TypeOK, Trajectory
<1>2. /\ remaining' = Minus(remaining, steps)
      /\ completed' = (completed \/ claimed = steps)
      /\ memory' = IF claimed = steps THEN PushTraj(memory, traj) ELSE memory
      /\ overflow' = overflow
  BY DEF ClaimWhole
<1>3. /\ PushTraj(memory, traj) \in MemoryType
      /\ Len(PushTraj(memory, traj).rows) = Len(memory.rows) + steps
  BY <1>1, PushTrajFacts DEF MemoryType
<1>4. claimed = steps \/ remaining = 0
  BY <1>1 DEF ClaimComplete
<1> HIDE DEF steps, claimed
<1>5. remaining' \in Nat /\ (remaining = 0 => remaining' = 0)
  BY <1>1, <1>2, MinusNat
<1>6. completed' \in BOOLEAN
  BY <1>2 DEF TypeOK
<1>7. memory' \in MemoryType
  BY <1>1, <1>2, <1>3
<1>8. CASE claimed = steps
  BY <1>2, <1>3, <1>5, <1>6, <1>7, <1>8 DEF Collected, steps
<1>9. CASE claimed # steps
  BY <1>2, <1>4, <1>5, <1>6, <1>7, <1>9 DEF Collected
<1> QED
  BY <1>8, <1>9

(* A partial claim: types, and its arithmetic. *)
LEMMA ClaimPartFacts ==
    ASSUME TypeOK, BudgetAccounting, NEW traj \in Trajectory, ClaimPart(traj)
    PROVE  /\ remaining' \in Nat /\ completed' = completed
           /\ memory' \in MemoryType /\ overflow' \in Seq(Trajectory)
           /\ Collected' = Collected + Grant(Len(traj.rows))
           /\ remaining' = Minus(remaining, Grant(Len(traj.rows)))
<1> DEFINE claimed == Grant(Len(traj.rows))
           part == Partition(traj, claimed, config.retain)
<1>1. Len(traj.rows) \in Nat /\ remaining \in Nat /\ memory \in MemoryType
      /\ overflow \in Seq(Trajectory)
  BY StateTypes, LenProperties DEF TypeOK, Trajectory
<1>2. claimed \in 0..Len(traj.rows)
  BY <1>1, GrantFacts
<1>3. /\ PushClaimed(memory, part.claimed) \in MemoryType
      /\ Len(PushClaimed(memory, part.claimed).rows) = Len(memory.rows) + claimed
      /\ part.overflow \in Option(Trajectory)
  BY <1>1, <1>2, StateTypes, SplitAndPush
<1>4. /\ remaining' = Minus(remaining, claimed)
      /\ memory' = PushClaimed(memory, part.claimed)
      /\ overflow' = overflow \o part.overflow
      /\ completed' = completed
  BY DEF ClaimPart
<1>5. claimed \in Nat
  BY <1>1, <1>2
<1> HIDE DEF claimed, part
<1>6. remaining' \in Nat
  BY <1>1, <1>4, <1>5, MinusNat
<1>7. overflow' \in Seq(Trajectory)
  BY <1>1, <1>3, <1>4, OptionFacts, ConcatProperties
<1>8. Collected' = Collected + claimed
  BY <1>3, <1>4 DEF Collected
<1> QED
  BY <1>3, <1>4, <1>6, <1>7, <1>8 DEF claimed

(* A claim in either mode is typed. *)
LEMMA ClaimFlushTypes ==
    ASSUME TypeOK, BudgetAccounting, ClaimFlush
    PROVE  TypeOK'
<1>1. PICK p \in Unclaimed :
        /\ IF config.complete THEN ClaimWhole(flushed[p][1]) ELSE ClaimPart(flushed[p][1])
        /\ flushed' = [flushed EXCEPT ![p] = <<>>]
  BY DEF ClaimFlush
<1>2. p \in Players /\ flushed[p][1] \in Trajectory
  BY StateTypes DEF Unclaimed
<1>3. /\ remaining' \in Nat /\ completed' \in BOOLEAN
      /\ memory' \in MemoryType /\ overflow' \in Seq(Trajectory)
  <2>1. CASE config.complete
    BY <1>1, <1>2, <2>1, ClaimWholeFacts DEF TypeOK
  <2>2. CASE ~config.complete
    BY <1>1, <1>2, <2>2, ClaimPartFacts DEF TypeOK
  <2> QED
    BY <2>1, <2>2
<1>4. flushed' \in [Players -> Option(Trajectory)]
  BY <1>1, <1>2, OptionFacts DEF TypeOK
<1>5. UNCHANGED <<config, pc, envVars, trajs, runVars, pending>>
  BY DEF ClaimFlush
<1> QED
  BY <1>3, <1>4, <1>5 DEF TypeOK, MemoryType, envVars, runVars

-----------------------------------------------------------------------------
(* The inductive invariant: the types are preserved only together with the *)
(* account, since a grant is bounded by what is left and by the share.     *)
Account == TypeOK /\ BudgetAccounting

(* Nothing is owed at first. *)
LEMMA InitAccount == Init => Account
<1> SUFFICES ASSUME Init PROVE Account
  OBVIOUS
<1>1. /\ <<>> \in Seq(Row) /\ <<>> \in Seq(Trajectory) /\ <<>> \in Option(Trajectory)
      /\ EmptyMemory \in [rows: Seq(Row), nexts: Seq(Observation)]
  BY OptionFacts DEF EmptyMemory
<1>2. TypeOK
  BY <1>1, BatchAssumption DEF Init, TypeOK, NoFlush
<1>3. Collected = 0
  BY DEF Init, Collected, EmptyMemory
<1>4. BudgetAccounting
  BY <1>3 DEF Init, BudgetAccounting
<1> QED
  BY <1>2, <1>4 DEF Account

(* Every step keeps types and account together. *)
LEMMA NextAccount == Account /\ [Next]_vars => Account'
<1> SUFFICES ASSUME TypeOK, BudgetAccounting, [Next]_vars PROVE Account'
  BY DEF Account
<1>1. ASSUME NEW budget \in Shares, NEW oldTeam \in config.oldTeams, BeginRun(budget, oldTeam)
      PROVE  Account'
  <2>1. TypeOK'
    BY <1>1, BeginRunTypes
  <2>2. Collected' = 0 /\ remaining' = share' /\ share' \in Nat
    BY <1>1, BatchAssumption DEF BeginRun, Collected, EmptyMemory
  <2>3. BudgetAccounting'
    BY <2>2 DEF BudgetAccounting
  <2> QED
    BY <2>1, <2>3 DEF Account
<1>2. CASE DrainOverflow
  <2>1. TypeOK' /\ Collected' = Collected + Grant(Len(Head(overflow).rows))
    BY <1>2, DrainOverflowTypes
  <2>2. /\ remaining' = Minus(remaining, Grant(Len(Head(overflow).rows)))
        /\ UNCHANGED <<config, share>>
    BY <1>2 DEF DrainOverflow, runVars
  <2>3. Head(overflow) \in Trajectory
    BY <1>2, HeadTailProperties DEF DrainOverflow, TypeOK
  <2>4. Len(Head(overflow).rows) \in Nat
    BY <2>3, LenProperties DEF Trajectory
  <2> QED
    BY <2>1, <2>2, <2>4, ClaimKeepsAccount DEF Account
<1>3. CASE DrainDone \/ Decide \/ ClaimDone \/ EndRun
  <2>1. UNCHANGED <<config, teams, clock, primed, held, trajs, overflow, tracked, share,
                    remaining, completed, flushed, memory>>
    BY <1>3 DEF DrainDone, Decide, ClaimDone, EndRun, envVars, runVars
  <2>2. pc' \in {"idle", "drain", "loop", "step", "claim"} /\ pending' \subseteq Games
    BY <1>3 DEF DrainDone, Decide, ClaimDone, EndRun, TypeOK
  <2>3. lead' \in [Games -> {"none", "neutral", "held"}]
    BY <1>3 DEF DrainDone, Decide, ClaimDone, EndRun, TypeOK, envVars
  <2>4. TypeOK'
    BY <2>1, <2>2, <2>3 DEF TypeOK
  <2>5. BudgetAccounting'
    BY <2>1 DEF BudgetAccounting, Collected
  <2> QED
    BY <2>4, <2>5 DEF Account
<1>4. ASSUME NEW g \in Games, NEW ending \in Terminals, StepGame(g, ending)
      PROVE  Account'
  <2>1. TypeOK'
    BY <1>4, StepGameTypes
  <2>2. UNCHANGED <<config, share, remaining, memory>>
    BY <1>4 DEF StepGame, runVars
  <2> QED
    BY <2>1, <2>2 DEF Account, BudgetAccounting, Collected
<1>5. CASE ClaimFlush
  <2>1. TypeOK'
    BY <1>5, ClaimFlushTypes
  <2>2. PICK p \in Unclaimed :
          IF config.complete THEN ClaimWhole(flushed[p][1]) ELSE ClaimPart(flushed[p][1])
    BY <1>5 DEF ClaimFlush
  <2>3. flushed[p][1] \in Trajectory
    BY StateTypes DEF Unclaimed
  <2>4. UNCHANGED <<config, share>>
    BY <1>5 DEF ClaimFlush, runVars
  <2>5. Len(flushed[p][1].rows) \in Nat
    BY <2>3, LenProperties DEF Trajectory
  <2>6. CASE config.complete
    <3>1. \/ /\ Collected' = Collected + Len(flushed[p][1].rows)
             /\ remaining' = Minus(remaining, Len(flushed[p][1].rows))
          \/ remaining = 0 /\ remaining' = 0 /\ Collected' = Collected
      BY <2>2, <2>3, <2>6, ClaimWholeFacts
    <3>2. remaining \in Nat /\ share \in Nat /\ Collected \in Nat
      BY StateTypes DEF TypeOK
    <3> DEFINE n == Len(flushed[p][1].rows)
    <3>3. BudgetAccounting'
      <4>1. /\ config'.complete /\ share' = share
            /\ remaining > 0 => Collected + remaining = share
            /\ remaining = 0 => Collected >= share
        BY <2>4, <2>6 DEF Account, BudgetAccounting
      <4>2. CASE remaining = 0 /\ remaining' = 0 /\ Collected' = Collected
        BY <4>1, <4>2 DEF BudgetAccounting
      <4>3. CASE Collected' = Collected + n /\ remaining' = Minus(remaining, n)
        <5>1. remaining' = IF remaining > n THEN remaining - n ELSE 0
          BY <2>5, <3>2, <4>3 DEF Minus
        <5> HIDE DEF n
        <5>2. n \in Nat
          BY <2>5 DEF n
        <5>3. /\ remaining' > 0 => Collected' + remaining' = share
              /\ remaining' = 0 => Collected' >= share
          BY <3>2, <4>1, <4>3, <5>1, <5>2
        <5> QED
          BY <4>1, <5>3 DEF BudgetAccounting
      <4> QED
        BY <3>1, <4>2, <4>3
    <3> QED
      BY <2>1, <3>3 DEF Account
  <2>7. CASE ~config.complete
    <3>1. /\ Collected' = Collected + Grant(Len(flushed[p][1].rows))
          /\ remaining' = Minus(remaining, Grant(Len(flushed[p][1].rows)))
      BY <2>2, <2>3, <2>7, ClaimPartFacts
    <3> QED
      BY <2>1, <2>4, <2>5, <3>1, ClaimKeepsAccount DEF Account
  <2> QED
    BY <2>6, <2>7
<1>6. CASE UNCHANGED vars
  BY <1>6 DEF Account, TypeOK, BudgetAccounting, Collected, vars, envVars, runVars
<1> QED
  BY <1>1, <1>2, <1>3, <1>4, <1>5, <1>6 DEF Next, Run

(* Every reachable state is typed (the whole of run_with_budget). *)
THEOREM TypeCorrect == Spec => []TypeOK
<1>1. Account => TypeOK
  BY DEF Account
<1> QED
  BY InitAccount, NextAccount, <1>1, PTL DEF Spec

(* The memory and the budget left always account for the share: an exact   *)
(* run returns exactly its share, an overbatching one less than twice it,  *)
(* a complete one at least it, for every batch, configuration and share.   *)
THEOREM BudgetKept == Spec => []BudgetAccounting
<1>1. Account => BudgetAccounting
  BY DEF Account
<1> QED
  BY InitAccount, NextAccount, <1>1, PTL DEF Spec

-----------------------------------------------------------------------------
(* Why the delayed part is right: a primed game holds the decision before  *)
(* its current observation, an unprimed one has just been reset.           *)
PrimedMeansHeld ==
    \A g \in Games : IF primed[g] THEN clock[g] = held[g] + 1 ELSE clock[g] = 0

DelayInv == PrimedMeansHeld /\ DelayReplaysPrevious

(* Only Decide and StepGame touch what a delayed interval depends on. *)
LEMMA NextDelay == TypeOK /\ TypeOK' /\ DelayInv /\ [Next]_vars => DelayInv'
<1> SUFFICES ASSUME TypeOK, TypeOK', PrimedMeansHeld, DelayReplaysPrevious, [Next]_vars
             PROVE  DelayInv'
  BY DEF DelayInv
<1>1. CASE Decide
  <2>1. UNCHANGED <<clock, primed, held, config>> /\ pending' = Games
    BY <1>1 DEF Decide
  <2>2. PrimedMeansHeld'
    BY <2>1 DEF PrimedMeansHeld
  <2>3. config.delay => lead' = [g \in Games |-> IF primed[g] THEN "held" ELSE "neutral"]
    BY <1>1 DEF Decide
  <2>4. DelayReplaysPrevious'
    BY <2>1, <2>3 DEF DelayReplaysPrevious, PrimedMeansHeld
  <2> QED
    BY <2>2, <2>4 DEF DelayInv
<1>2. ASSUME NEW g \in Games, NEW ending \in Terminals, StepGame(g, ending)
      PROVE  DelayInv'
  <2>1. /\ held' = [held EXCEPT ![g] = clock[g]]
        /\ lead' = [lead EXCEPT ![g] = "none"]
        /\ primed' = [primed EXCEPT ![g] = (ending = "None")]
        /\ clock' = [clock EXCEPT ![g] = IF ending # "None" THEN 0 ELSE clock[g] + 1]
    BY <1>2 DEF StepGame, Advance, PrimedAfter
  <2>2. pc = "step" /\ pending' = pending \ {g} /\ config' = config
    BY <1>2 DEF StepGame
  <2>3. \A h \in Games \ {g} : /\ held'[h] = held[h] /\ lead'[h] = lead[h]
                               /\ primed'[h] = primed[h] /\ clock'[h] = clock[h]
    BY <2>1 DEF TypeOK
  <2>4. held'[g] = clock[g] /\ (primed'[g] <=> ending = "None")
        /\ clock'[g] = IF ending # "None" THEN 0 ELSE clock[g] + 1
    BY <2>1 DEF TypeOK
  <2>5. PrimedMeansHeld'
    <3> SUFFICES ASSUME NEW h \in Games
                 PROVE  IF primed'[h] THEN clock'[h] = held'[h] + 1 ELSE clock'[h] = 0
      BY DEF PrimedMeansHeld
    <3>1. CASE h = g
      BY <2>4, <3>1
    <3>2. CASE h # g
      BY <2>3, <3>2 DEF PrimedMeansHeld
    <3> QED
      BY <3>1, <3>2
  <2>6. DelayReplaysPrevious'
    BY <2>2, <2>3 DEF DelayReplaysPrevious, TypeOK
  <2> QED
    BY <2>5, <2>6 DEF DelayInv
<1>3. CASE \/ \E budget \in Shares, oldTeam \in config.oldTeams : BeginRun(budget, oldTeam)
           \/ DrainOverflow \/ DrainDone \/ ClaimFlush \/ ClaimDone \/ EndRun
  <2>1. UNCHANGED <<clock, primed, held>> /\ pc' # "step"
    BY <1>3 DEF BeginRun, DrainOverflow, DrainDone, ClaimFlush, ClaimDone, EndRun, envVars
  <2> QED
    BY <2>1 DEF DelayInv, PrimedMeansHeld, DelayReplaysPrevious
<1>4. CASE UNCHANGED vars
  BY <1>4 DEF DelayInv, PrimedMeansHeld, DelayReplaysPrevious, vars, envVars
<1> QED
  BY <1>1, <1>2, <1>3, <1>4 DEF Next, Run

(* With an action delay, every delayed part of an interval replays the     *)
(* previous decision of the same episode and is neutral after a reset      *)
(* (step_game, begin_delayed_phase).                                       *)
THEOREM DelayIsRight == Spec => []DelayReplaysPrevious
<1>1. Init => DelayInv
  BY DEF Init, DelayInv, PrimedMeansHeld, DelayReplaysPrevious
<1>2. DelayInv => DelayReplaysPrevious
  BY DEF DelayInv
<1> QED
  BY TypeCorrect, NextDelay, <1>1, <1>2, PTL DEF Spec

-----------------------------------------------------------------------------
(* Why the memory can be trusted.  A trajectory in a player's buffer is    *)
(* open; one that was handed out, and what a split leaves of it, is closed *)
(* at its end only and knows the observation after a truncation.           *)
Closed(t) ==
    /\ t.rows # <<>>
    /\ \A i \in DOMAIN t.rows : t.rows[i].term = "None" <=> i < Len(t.rows)
    /\ t.next # <<>> <=> t.rows[Len(t.rows)].term = "Truncated"

(* Consecutive rows are consecutive decisions, and a bootstrap observation *)
(* is the one after the last row.                                          *)
Path(t) ==
    /\ \A i \in DOMAIN t.rows : i < Len(t.rows) =>
            ObservationOf(t.rows[i + 1]) = SuccessorOf(t.rows[i])
    /\ t.next # <<>> => t.next[1] = SuccessorOf(t.rows[Len(t.rows)])

(* What waits to be delivered. *)
Deliverable == {t \in Trajectory : Closed(t) /\ (SteadyTracking => Path(t))}

ShapeInv ==
    /\ \A p \in Players : \A i \in DOMAIN trajs[p] : trajs[p][i].term = "None"
    /\ \A p \in Players : flushed[p] # <<>> => flushed[p][1] \in Deliverable
    /\ overflow \in Seq(Deliverable)

(* A complete run has no leftovers, and has rows as soon as it claimed a   *)
(* trajectory.                                                             *)
CompleteInv == config.complete => overflow = <<>> /\ (completed <=> Collected > 0)

(* With a steady set of players nobody else's rows are ever recorded.      *)
TrackedInv ==
    SteadyTracking =>
        /\ teams \in Layouts
        /\ \A p \in Players : teams[p] \in config.oldTeams => trajs[p] = <<>>
        /\ pc # "idle" => tracked = {p \in Players : teams[p] \notin config.oldTeams}

(* The rows of player p end with the decision before its current one. *)
OpenPath(p) ==
    \A i \in DOMAIN trajs[p] :
        /\ trajs[p][i].pl = p
        /\ trajs[p][i].at + Len(trajs[p]) + 1 = clock[GameOf[p]] + i

PathInv == SteadyTracking => \A p \in Players : OpenPath(p)

(* What the memory owes the learner. *)
MemoryInv == Valid(memory) /\ SteadyContiguous /\ SteadyBootstraps

(* The inductive invariant. *)
IInv == Account /\ ShapeInv /\ CompleteInv /\ TrackedInv /\ PathInv /\ MemoryInv
        /\ OneFinalOverrun

-----------------------------------------------------------------------------
(* What may be pushed into a memory: rows that nothing closes but the last *)
(* one, which is closed or followed by an observation.                     *)
Pushable(t) ==
    /\ t.rows # <<>>
    /\ \A i \in DOMAIN t.rows : i < Len(t.rows) => t.rows[i].term = "None"
    /\ IF t.next # <<>> THEN t.rows[Len(t.rows)].term \in {"None", "Truncated"}
       ELSE t.rows[Len(t.rows)].term = "Normal"

(* Whether such a trajectory ends in a truncated row once it is pushed. *)
Cut(t) == t.next # <<>>

(* A memory m and what it becomes, row by row. *)
Extends(after, m, t) ==
    /\ after.rows \in Seq(Row) /\ after.nexts \in Seq(Observation)
    /\ Len(after.rows) = Len(m.rows) + Len(t.rows)
    /\ after.nexts = m.nexts \o t.next
    /\ \A i \in 1..Len(m.rows) : after.rows[i] = m.rows[i]
    /\ \A i \in 1..Len(t.rows) :
          /\ ObservationOf(after.rows[Len(m.rows) + i]) = ObservationOf(t.rows[i])
          /\ i < Len(t.rows) => after.rows[Len(m.rows) + i].term = "None"
    /\ after.rows[Len(m.rows) + Len(t.rows)].term = IF Cut(t) THEN "Truncated" ELSE "Normal"

(* push_traj_prefix appends the rows in order and closes the last one. *)
LEMMA PushExtends ==
    ASSUME NEW m \in MemoryType, NEW t \in Trajectory, Pushable(t)
    PROVE  Extends(PushTraj(m, t), m, t)
<1> DEFINE n == Len(t.rows)
           rows == IF t.next # <<>> /\ n > 0
                   THEN [t.rows EXCEPT ![n].term = "Truncated"] ELSE t.rows
<1>1. t.rows \in Seq(Row) /\ t.next \in Seq(Observation) /\ t.next \in Option(Observation)
  BY OptionFacts DEF Trajectory
<1>2. n \in Nat \ {0} /\ n \in 1..n
  BY <1>1, EmptySeq DEF Pushable
<1>3. \A i \in 1..n : t.rows[i] \in Row
  BY <1>1, ElementOfSeq
<1>4. /\ rows \in Seq(Row) /\ Len(rows) = n
      /\ \A i \in 1..n : i < n => rows[i] = t.rows[i]
      /\ rows[n].term = IF Cut(t) THEN "Truncated" ELSE "Normal"
      /\ ObservationOf(rows[n]) = ObservationOf(t.rows[n])
  <2>1. CASE t.next # <<>>
    <3>1. t.rows[n] \in Row
      BY <1>2, <1>3
    <3> DEFINE r == [t.rows[n] EXCEPT !.term = "Truncated"]
    <3>2. r \in Row /\ r.term = "Truncated" /\ r.pl = t.rows[n].pl /\ r.at = t.rows[n].at
      BY <3>1 DEF Row, Terminals
    <3>3. rows = [t.rows EXCEPT ![n] = r]
      BY <1>2, <2>1
    <3> HIDE DEF r, rows
    <3>4. rows \in Seq(Row) /\ Len(rows) = n /\ \A i \in 1..n : rows[i] = IF i = n THEN r ELSE t.rows[i]
      BY <1>1, <1>2, <3>2, <3>3, ExceptSeq
    <3>5. rows[n] = r
      BY <1>2, <3>4
    <3>6. \A i \in 1..n : i < n => rows[i] = t.rows[i]
      BY <1>2, <3>4
    <3>7. ObservationOf(rows[n]) = ObservationOf(t.rows[n])
      BY <3>2, <3>5 DEF ObservationOf
    <3> QED
      BY <2>1, <3>2, <3>4, <3>5, <3>6, <3>7 DEF Cut
  <2>2. CASE t.next = <<>>
    BY <1>1, <1>2, <2>2 DEF Pushable, Cut
  <2> QED
    BY <2>1, <2>2
<1>5. PushTraj(m, t) = PushPlayer(m, rows, t.next)
  BY DEF PushTraj
<1> HIDE DEF rows
<1>6. rows # <<>>
  BY <1>2, <1>4, EmptySeq
<1>7. PushTraj(m, t) = [rows |-> m.rows \o rows, nexts |-> m.nexts \o t.next]
  BY <1>5, <1>6 DEF PushPlayer
<1>8. m.rows \in Seq(Row) /\ m.nexts \in Seq(Observation) /\ Len(m.rows) \in Nat
  BY LenProperties DEF MemoryType
<1> DEFINE L == Len(m.rows)
<1>9. \A a, b \in Seq(Row) :
        /\ a \o b \in Seq(Row)
        /\ Len(a \o b) = Len(a) + Len(b)
        /\ \A i \in 1..Len(a) + Len(b) :
              (a \o b)[i] = IF i <= Len(a) THEN a[i] ELSE b[i - Len(a)]
  BY ConcatProperties
<1> DEFINE joined == m.rows \o rows
           nexts == m.nexts \o t.next
<1>10. nexts \in Seq(Observation)
  BY <1>1, <1>8, ConcatProperties
<1>11. PushTraj(m, t) = [rows |-> joined, nexts |-> nexts]
  BY <1>7
<1> HIDE DEF n
<1>12. /\ joined \in Seq(Row) /\ Len(joined) = L + n
       /\ \A i \in 1..L + n : joined[i] = IF i <= L THEN m.rows[i] ELSE rows[i - L]
  BY <1>4, <1>8, <1>9
<1> HIDE DEF joined, L
<1>13. /\ \A i \in 1..L : joined[i] = m.rows[i]
       /\ \A i \in 1..n : joined[L + i] = rows[i]
  <2>1. L \in Nat /\ n \in Nat
    BY <1>2, <1>8 DEF L
  <2>2. \A i \in 1..n : L + i \in 1..L + n /\ ~(L + i <= L) /\ (L + i) - L = i
    BY <2>1
  <2>3. \A i \in 1..L : i \in 1..L + n /\ i <= L
    BY <2>1
  <2> QED
    BY <1>12, <2>2, <2>3
<1> HIDE DEF nexts
<1>14. \A i \in 1..n : /\ ObservationOf(joined[L + i]) = ObservationOf(t.rows[i])
                       /\ i < n => joined[L + i].term = "None"
  <2> SUFFICES ASSUME NEW i \in 1..n
               PROVE  /\ ObservationOf(joined[L + i]) = ObservationOf(t.rows[i])
                      /\ i < n => joined[L + i].term = "None"
    OBVIOUS
  <2>1. joined[L + i] = rows[i]
    BY <1>13
  <2>2. CASE i < n
    <3>1. rows[i] = t.rows[i] /\ i \in DOMAIN t.rows
      BY <1>1, <1>4, <2>2, LenProperties DEF n
    <3> QED
      BY <2>1, <2>2, <3>1 DEF Pushable, n
  <2>3. CASE i = n
    BY <1>2, <1>4, <2>1, <2>3
  <2> QED
    BY <1>2, <2>2, <2>3
<1>15. joined[L + n].term = IF Cut(t) THEN "Truncated" ELSE "Normal"
  BY <1>2, <1>4, <1>13
<1> QED
  <2>1. PushTraj(m, t).rows = joined /\ PushTraj(m, t).nexts = nexts
    BY <1>11
  <2>2. nexts = m.nexts \o t.next
    BY DEF nexts
  <2> QED
    BY <1>10, <1>12, <1>13, <1>14, <1>15, <2>1, <2>2 DEF Extends, n, L

(* The truncated rows of the longer memory. *)
LEMMA TruncatedGrows ==
    ASSUME NEW m \in MemoryType, NEW t \in Trajectory, Pushable(t),
           NEW after, Extends(after, m, t)
    PROVE  /\ Len(m.rows) \in Nat /\ Len(t.rows) \in Nat \ {0}
           /\ TruncatedIn(after.rows) =
                 IF Cut(t) THEN TruncatedIn(m.rows) \cup {Len(m.rows) + Len(t.rows)}
                 ELSE TruncatedIn(m.rows)
           /\ TruncatedIn(m.rows) \subseteq 1..Len(m.rows)
           /\ IsFiniteSet(TruncatedIn(m.rows))
           /\ Len(t.next) = IF Cut(t) THEN 1 ELSE 0
           /\ t.next \in Seq(Observation)
<1> DEFINE L == Len(m.rows)
           n == Len(t.rows)
<1>1. m.rows \in Seq(Row) /\ t.rows \in Seq(Row) /\ t.next \in Option(Observation)
  BY DEF MemoryType, Trajectory
<1>2. L \in Nat /\ n \in Nat \ {0} /\ DOMAIN m.rows = 1..L /\ DOMAIN t.rows = 1..n
  BY <1>1, EmptySeq, LenProperties DEF Pushable
<1>3. DOMAIN after.rows = 1..L + n
  BY LenProperties DEF Extends
<1>4. Len(t.next) = IF Cut(t) THEN 1 ELSE 0
  BY <1>1, OptionFacts, EmptySeq DEF Cut
<1>5. /\ \A i \in 1..L : after.rows[i] = m.rows[i]
      /\ \A i \in 1..n : i < n => after.rows[L + i].term = "None"
      /\ after.rows[L + n].term = IF Cut(t) THEN "Truncated" ELSE "Normal"
  BY DEF Extends
<1> HIDE DEF L, n
<1>6. ASSUME NEW i
      PROVE  i \in TruncatedIn(after.rows) <=>
                 i \in TruncatedIn(m.rows) \/ (Cut(t) /\ i = L + n)
  <2>1. CASE i \in 1..L
    BY <1>2, <1>3, <1>5, <2>1 DEF TruncatedIn
  <2>2. CASE i \in L + 1..L + n - 1
    <3>1. i - L \in 1..n /\ i - L < n /\ L + (i - L) = i
      BY <1>2, <2>2
    <3>2. after.rows[i].term = "None"
      BY <1>5, <3>1
    <3>3. i \notin 1..L /\ i # L + n
      BY <1>2, <2>2
    <3> QED
      BY <1>2, <3>2, <3>3 DEF TruncatedIn
  <2>3. CASE i = L + n
    BY <1>2, <1>3, <1>5, <2>3 DEF TruncatedIn
  <2>4. CASE i \notin 1..L + n
    BY <1>2, <1>3, <2>4 DEF TruncatedIn
  <2> QED
    BY <1>2, <2>1, <2>2, <2>3, <2>4
<1>7. TruncatedIn(after.rows) = IF Cut(t) THEN TruncatedIn(m.rows) \cup {L + n}
                                ELSE TruncatedIn(m.rows)
  <2>1. CASE Cut(t)
    BY <1>6, <2>1
  <2>2. CASE ~Cut(t)
    BY <1>6, <2>2
  <2> QED
    BY <2>1, <2>2
<1>8. TruncatedIn(m.rows) \subseteq 1..L
  BY <1>2 DEF TruncatedIn
<1>9. IsFiniteSet(TruncatedIn(m.rows))
  BY <1>2, <1>8, FS_Interval, FS_Subset
<1> QED
  BY <1>1, <1>2, <1>4, <1>7, <1>8, <1>9, OptionFacts DEF L, n

(* The contract of the learner is kept by every push. *)
LEMMA ExtendsValid ==
    ASSUME NEW m \in MemoryType, NEW t \in Trajectory, Pushable(t),
           NEW after, Extends(after, m, t), Valid(m)
    PROVE  Valid(after)
<1> DEFINE T == TruncatedIn(m.rows)
           k == Len(m.rows) + Len(t.rows)
<1>1. /\ Len(m.rows) \in Nat /\ Len(t.rows) \in Nat \ {0}
      /\ TruncatedIn(after.rows) = IF Cut(t) THEN T \cup {k} ELSE T
      /\ T \subseteq 1..Len(m.rows) /\ IsFiniteSet(T)
      /\ Len(t.next) = (IF Cut(t) THEN 1 ELSE 0)
      /\ t.next \in Seq(Observation)
  BY TruncatedGrows
<1>2. k \notin T
  <2>1. k \notin 1..Len(m.rows)
    <3>1. \A a \in Nat, b \in Nat \ {0} : a + b \notin 1..a
      OBVIOUS
    <3>2. Len(m.rows) \in Nat /\ Len(t.rows) \in Nat \ {0}
      BY <1>1
    <3> QED
      BY <3>1, <3>2
  <2> QED
    BY <1>1, <2>1
<1>3. m.nexts \in Seq(Observation)
  BY DEF MemoryType
<1>4. Len(m.nexts) = Cardinality(T)
  BY DEF Valid
<1> HIDE DEF T
<1>5. Cardinality(TruncatedIn(after.rows)) = IF Cut(t) THEN Cardinality(T) + 1 ELSE Cardinality(T)
  BY <1>1, <1>2, FS_AddElement
<1>6. Len(after.nexts) = Len(m.nexts) + Len(t.next)
  <2>1. after.nexts = m.nexts \o t.next
    BY DEF Extends
  <2>2. t.next \in Seq(Observation)
    BY <1>1
  <2> QED
    BY <1>3, <2>1, <2>2, ConcatProperties
<1>7. Len(after.nexts) = Cardinality(TruncatedIn(after.rows))
  BY <1>1, <1>3, <1>4, <1>5, <1>6, LenProperties
<1>8. after.rows[Len(after.rows)].term # "None"
  BY DEF Extends
<1> QED
  BY <1>7, <1>8 DEF Valid

(* The two path properties of a memory. *)
ContiguousIn(m) ==
    \A i \in DOMAIN m.rows : m.rows[i].term = "None" =>
        i < Len(m.rows) /\ ObservationOf(m.rows[i + 1]) = SuccessorOf(m.rows[i])

BootstrapsIn(m) ==
    \A i \in TruncatedIn(m.rows) :
        m.nexts[BootstrapIndex(m.rows, i)] = SuccessorOf(m.rows[i])

(* A successor is determined by the observation. *)
LEMMA SuccessorFacts ==
    ASSUME NEW r \in Row, NEW s \in Row, ObservationOf(r) = ObservationOf(s)
    PROVE  SuccessorOf(r) = SuccessorOf(s)
<1>1. r.pl = s.pl /\ r.at = s.at
  BY DEF ObservationOf
<1> QED
  BY <1>1 DEF SuccessorOf

(* Consecutive decisions stay consecutive. *)
LEMMA ExtendsContiguous ==
    ASSUME NEW m \in MemoryType, NEW t \in Trajectory, Pushable(t), Path(t),
           NEW after, Extends(after, m, t), ContiguousIn(m)
    PROVE  ContiguousIn(after)
<1> DEFINE L == Len(m.rows)
           n == Len(t.rows)
<1>1. m.rows \in Seq(Row) /\ t.rows \in Seq(Row) /\ after.rows \in Seq(Row)
  BY DEF MemoryType, Trajectory, Extends
<1>2. /\ L \in Nat /\ n \in Nat \ {0} /\ Len(after.rows) = L + n
      /\ DOMAIN m.rows = 1..L /\ DOMAIN t.rows = 1..n /\ DOMAIN after.rows = 1..L + n
  BY <1>1, EmptySeq, LenProperties DEF Pushable, Extends
<1>3. /\ \A i \in 1..L : after.rows[i] = m.rows[i]
      /\ \A i \in 1..n : ObservationOf(after.rows[L + i]) = ObservationOf(t.rows[i])
      /\ after.rows[L + n].term # "None"
  BY DEF Extends
<1>4. \A i \in 1..L : m.rows[i].term = "None" =>
         i < L /\ ObservationOf(m.rows[i + 1]) = SuccessorOf(m.rows[i])
  BY <1>2 DEF ContiguousIn
<1>5. \A i \in 1..n : i < n => ObservationOf(t.rows[i + 1]) = SuccessorOf(t.rows[i])
  BY <1>2 DEF Path
<1>6. \A i \in 1..n : t.rows[i] \in Row
  BY <1>1, ElementOfSeq
<1>7. \A i \in 1..L + n : after.rows[i] \in Row
  BY <1>1, <1>2, ElementOfSeq
<1> HIDE DEF L, n
<1>8. ASSUME NEW i \in 1..L + n, after.rows[i].term = "None"
      PROVE  i < L + n /\ ObservationOf(after.rows[i + 1]) = SuccessorOf(after.rows[i])
  <2>1. CASE i <= L
    <3>1. i \in 1..L /\ after.rows[i] = m.rows[i]
      BY <1>2, <1>3, <2>1
    <3>2. i < L /\ ObservationOf(m.rows[i + 1]) = SuccessorOf(m.rows[i])
      BY <1>4, <1>8, <3>1
    <3>3. i + 1 \in 1..L
      BY <1>2, <3>1, <3>2
    <3>4. after.rows[i + 1] = m.rows[i + 1]
      BY <1>3, <3>3
    <3> QED
      BY <1>2, <3>1, <3>2, <3>4
  <2>2. CASE i > L
    <3>1. i # L + n
      BY <1>3, <1>8
    <3> DEFINE j == i - L
               next == j + 1
    <3>2. j \in 1..n /\ j < n /\ next \in 1..n /\ L + j = i /\ L + next = i + 1
      BY <1>2, <2>2, <3>1
    <3>3. ObservationOf(t.rows[next]) = SuccessorOf(t.rows[j])
      BY <1>5, <3>2
    <3> HIDE DEF j, next
    <3>4. ObservationOf(after.rows[i + 1]) = ObservationOf(t.rows[next])
      BY <1>3, <3>2
    <3>5. ObservationOf(after.rows[i]) = ObservationOf(t.rows[j])
      BY <1>3, <3>2
    <3>6. SuccessorOf(after.rows[i]) = SuccessorOf(t.rows[j])
      BY <1>6, <1>7, <3>2, <3>5, SuccessorFacts
    <3> QED
      BY <1>2, <3>1, <3>3, <3>4, <3>6
  <2> QED
    BY <1>2, <2>1, <2>2
<1> QED
  BY <1>2, <1>8 DEF ContiguousIn

(* Bootstrap observations stay with their rows. *)
LEMMA ExtendsBootstraps ==
    ASSUME NEW m \in MemoryType, NEW t \in Trajectory, Pushable(t), Path(t),
           NEW after, Extends(after, m, t), Valid(m), BootstrapsIn(m)
    PROVE  BootstrapsIn(after)
<1> DEFINE L == Len(m.rows)
           n == Len(t.rows)
           T == TruncatedIn(m.rows)
           U == TruncatedIn(after.rows)
<1>1. /\ L \in Nat /\ n \in Nat \ {0}
      /\ U = IF Cut(t) THEN T \cup {L + n} ELSE T
      /\ T \subseteq 1..L /\ IsFiniteSet(T)
      /\ Len(t.next) = (IF Cut(t) THEN 1 ELSE 0)
      /\ t.next \in Seq(Observation)
  BY TruncatedGrows
<1>2. /\ m.nexts \in Seq(Observation) /\ Len(m.nexts) = Cardinality(T)
      /\ Len(m.nexts) \in Nat
  BY LenProperties DEF Valid, MemoryType
<1>3. \A i \in T : m.nexts[Cardinality({j \in T : j <= i})] = SuccessorOf(m.rows[i])
  BY DEF BootstrapsIn, BootstrapIndex
<1>4. \A i \in 1..L : after.rows[i] = m.rows[i]
  BY DEF Extends
<1>5. \A i \in 1..Len(m.nexts) + Len(t.next) :
        after.nexts[i] = IF i <= Len(m.nexts) THEN m.nexts[i] ELSE t.next[i - Len(m.nexts)]
  <2>1. after.nexts = m.nexts \o t.next
    BY DEF Extends
  <2>2. t.next \in Seq(Observation) /\ m.nexts \in Seq(Observation)
    BY <1>1, <1>2
  <2>3. \A a, b \in Seq(Observation) : \A i \in 1..Len(a) + Len(b) :
           (a \o b)[i] = IF i <= Len(a) THEN a[i] ELSE b[i - Len(a)]
    BY ConcatProperties
  <2> QED
    BY <2>1, <2>2, <2>3
<1>6. Valid(after)
  BY ExtendsValid
<1>7. ObservationOf(after.rows[L + n]) = ObservationOf(t.rows[n])
  <2>1. n \in 1..n
    BY <1>1
  <2> QED
    BY <2>1 DEF Extends
<1>8. after.rows[L + n] \in Row /\ t.rows[n] \in Row
  <2>1. after.rows \in Seq(Row) /\ Len(after.rows) = L + n /\ t.rows \in Seq(Row)
    BY DEF Extends, Trajectory
  <2>2. n \in 1..n /\ L + n \in 1..L + n
    <3>1. \A a \in Nat, b \in Nat \ {0} : b \in 1..b /\ a + b \in 1..a + b
      OBVIOUS
    <3>2. L \in Nat /\ n \in Nat \ {0}
      BY <1>1
    <3> QED
      BY <3>1, <3>2
  <2>3. \A s \in Seq(Row) : \A i \in 1..Len(s) : s[i] \in Row
    BY ElementOfSeq
  <2>4. t.rows[n] \in Row
    BY <2>1, <2>2, <2>3
  <2> HIDE DEF n, L
  <2>5. after.rows[L + n] \in Row
    BY <2>1, <2>2, <2>3
  <2> QED
    BY <2>4, <2>5
<1>9. SuccessorOf(after.rows[L + n]) = SuccessorOf(t.rows[n])
  BY <1>7, <1>8, SuccessorFacts
<1> HIDE DEF L, n, T, U
<1>10. ASSUME NEW i \in U
       PROVE  after.nexts[Cardinality({j \in U : j <= i})] = SuccessorOf(after.rows[i])
  <2>1. CASE i \in T
    <3> DEFINE B == {j \in T : j <= i}
    <3>1. {j \in U : j <= i} = B
      BY <1>1, <2>1
    <3>2. B \subseteq T /\ i \in B
      BY <1>1, <2>1
    <3>3. IsFiniteSet(B) /\ Cardinality(B) <= Cardinality(T)
      BY <1>1, <3>2, FS_Subset
    <3>4. Cardinality(B) \in Nat /\ Cardinality(B) # 0
      BY <3>2, <3>3, FS_CardinalityType, FS_EmptySet
    <3>5. m.nexts[Cardinality(B)] = SuccessorOf(m.rows[i])
      BY <1>3, <2>1
    <3>6. after.rows[i] = m.rows[i]
      BY <1>1, <1>4, <2>1
    <3> HIDE DEF B
    <3>7. Cardinality(B) \in 1..Len(m.nexts) + Len(t.next) /\ Cardinality(B) <= Len(m.nexts)
      BY <1>1, <1>2, <3>3, <3>4
    <3>8. after.nexts[Cardinality(B)] = m.nexts[Cardinality(B)]
      BY <1>5, <3>7
    <3> QED
      BY <3>1, <3>5, <3>6, <3>8
  <2>2. CASE i \notin T
    <3>1. Cut(t) /\ i = L + n
      BY <1>1, <2>2
    <3>2. {j \in U : j <= i} = U
      <4>1. \A j \in U : j <= L + n
        BY <1>1
      <4> QED
        BY <3>1, <4>1
    <3>3. Cardinality(U) = Len(m.nexts) + 1
      <4>1. L + n \notin T
        BY <1>1
      <4>2. Cardinality(U) = Cardinality(T) + 1
        BY <1>1, <3>1, <4>1, FS_AddElement
      <4> QED
        BY <1>2, <4>2
    <3>4. after.nexts[Len(m.nexts) + 1] = t.next[1]
      <4>1. Len(m.nexts) + 1 \in 1..Len(m.nexts) + Len(t.next)
            /\ ~(Len(m.nexts) + 1 <= Len(m.nexts)) /\ (Len(m.nexts) + 1) - Len(m.nexts) = 1
        BY <1>1, <1>2, <3>1
      <4> QED
        BY <1>5, <4>1
    <3>5. t.next[1] = SuccessorOf(t.rows[n])
      BY <3>1 DEF Path, Cut, n
    <3> QED
      BY <1>9, <3>1, <3>2, <3>3, <3>4, <3>5
  <2> QED
    BY <2>1, <2>2
<1> QED
  BY <1>10 DEF BootstrapsIn, BootstrapIndex, U

(* Splitting a closed trajectory leaves a prefix that can be pushed and a  *)
(* closed rest, and both keep the path.                                    *)
LEMMA SplitClosed ==
    ASSUME NEW t \in Trajectory, Closed(t), NEW claimed \in 0..Len(t.rows), NEW retain \in BOOLEAN
    PROVE  LET part == Partition(t, claimed, retain)
           IN  /\ part.claimed \in Option(Trajectory)
               /\ part.overflow \in Option(Trajectory)
               /\ part.claimed = <<>> <=> claimed = 0
               /\ part.claimed # <<>> => /\ Pushable(part.claimed[1])
                                         /\ Len(part.claimed[1].rows) = claimed
                                         /\ Path(t) => Path(part.claimed[1])
               /\ part.overflow # <<>> => /\ Closed(part.overflow[1])
                                          /\ Path(t) => Path(part.overflow[1])
<1> DEFINE n == Len(t.rows)
           suffix == [rows |-> SubSeq(t.rows, claimed + 1, n), next |-> t.next]
           prefix == [rows |-> SubSeq(t.rows, 1, claimed),
                      next |-> <<ObservationOf(t.rows[claimed + 1])>>]
           part == Partition(t, claimed, retain)
<1>1. t.rows \in Seq(Row) /\ n \in Nat \ {0} /\ DOMAIN t.rows = 1..n
  BY EmptySeq, LenProperties DEF Trajectory, Closed
<1>2. /\ part.claimed \in Option(Trajectory) /\ part.overflow \in Option(Trajectory)
      /\ part.claimed # <<>> => Len(part.claimed[1].rows) = claimed
  BY PartitionFacts
<1>3. part = [ claimed |-> IF claimed = n THEN <<t>>
                           ELSE IF claimed = 0 THEN <<>> ELSE <<prefix>>,
               overflow |-> IF claimed < n /\ retain THEN <<suffix>> ELSE <<>> ]
  BY DEF Partition
<1>4. /\ \A i \in 1..n : t.rows[i].term = "None" <=> i < n
      /\ t.next # <<>> <=> t.rows[n].term = "Truncated"
  BY <1>1 DEF Closed
<1>5. \A i \in 1..n : t.rows[i].term \in Terminals
  <2>1. \A i \in 1..n : t.rows[i] \in Row
    BY <1>1, ElementOfSeq
  <2> QED
    BY <2>1 DEF Row
<1>6. Pushable(t)
  BY <1>1, <1>4, <1>5 DEF Pushable, Terminals
<1>7. ASSUME claimed # n, claimed # 0
      PROVE  Pushable(prefix) /\ (Path(t) => Path(prefix))
  <2> DEFINE rows == SubSeq(t.rows, 1, claimed)
             obs == ObservationOf(t.rows[claimed + 1])
  <2>1. claimed \in 1..n /\ claimed < n /\ claimed \in Nat
    BY <1>1, <1>7
  <2>2. /\ Len(rows) = claimed /\ DOMAIN rows = 1..claimed
        /\ \A i \in 1..claimed : rows[i] = t.rows[i]
    BY <1>1, <2>1, SubSeqProperties
  <2> HIDE DEF rows
  <2>3. \A i \in 1..claimed : rows[i].term = "None"
    BY <1>1, <1>4, <2>1, <2>2
  <2>4. rows # <<>>
    BY <1>7, <2>2, EmptySeq
  <2>5. prefix = [rows |-> rows, next |-> <<obs>>]
    BY DEF rows
  <2>6. prefix.rows = rows /\ prefix.next = <<obs>> /\ <<obs>> # <<>> /\ <<obs>>[1] = obs
    BY <2>5
  <2> HIDE DEF prefix, obs
  <2>7. Pushable(prefix)
    BY <2>1, <2>2, <2>3, <2>4, <2>6 DEF Pushable
  <2>8. ASSUME Path(t)
        PROVE  Path(prefix)
    <3>1. \A i \in 1..n : i < n => ObservationOf(t.rows[i + 1]) = SuccessorOf(t.rows[i])
      BY <1>1, <2>8 DEF Path
    <3>2. \A i \in 1..claimed : i < claimed => ObservationOf(rows[i + 1]) = SuccessorOf(rows[i])
      <4> SUFFICES ASSUME NEW i \in 1..claimed, i < claimed
                   PROVE  ObservationOf(rows[i + 1]) = SuccessorOf(rows[i])
        OBVIOUS
      <4>1. i \in 1..n /\ i < n /\ i + 1 \in 1..claimed
        BY <1>1, <2>1
      <4> QED
        BY <2>2, <3>1, <4>1
    <3>3. obs = SuccessorOf(rows[claimed])
      BY <2>1, <2>2, <3>1 DEF obs
    <3> QED
      BY <2>2, <2>6, <3>2, <3>3 DEF Path
  <2> QED
    BY <2>7, <2>8
<1>8. ASSUME claimed < n
      PROVE  Closed(suffix) /\ (Path(t) => Path(suffix))
  <2> DEFINE rows == SubSeq(t.rows, claimed + 1, n)
             k == n - claimed
  <2>1. claimed \in Nat /\ k \in Nat \ {0} /\ claimed + k = n
    BY <1>1, <1>8
  <2>2. /\ Len(rows) = k /\ DOMAIN rows = 1..k
        /\ \A i \in 1..k : rows[i] = t.rows[claimed + i]
    <3>1. /\ rows \in Seq(Row) /\ Len(rows) = n - (claimed + 1) + 1
          /\ \A i \in 1..n - (claimed + 1) + 1 : rows[i] = t.rows[claimed + 1 + i - 1]
      BY <1>1, <1>8, SubSeqProperties
    <3>2. n - (claimed + 1) + 1 = k /\ \A i \in 1..k : claimed + 1 + i - 1 = claimed + i
      BY <1>1, <2>1
    <3> QED
      BY <3>1, <3>2, LenProperties
  <2>3. suffix.rows = rows /\ suffix.next = t.next
    OBVIOUS
  <2> HIDE DEF rows, suffix, k, n
  <2>4. \A i \in 1..k : claimed + i \in 1..n /\ (claimed + i < n <=> i < k)
    BY <1>1, <2>1
  <2>5. \A i \in 1..k : rows[i].term = "None" <=> i < k
    BY <1>4, <2>2, <2>4
  <2>6. rows[k] = t.rows[n]
    BY <2>1, <2>2
  <2>7. rows # <<>>
    BY <2>1, <2>2, EmptySeq
  <2>8. Closed(suffix)
    BY <1>4, <2>2, <2>3, <2>5, <2>6, <2>7 DEF Closed
  <2>9. ASSUME Path(t)
        PROVE  Path(suffix)
    <3>1. /\ \A i \in 1..n : i < n => ObservationOf(t.rows[i + 1]) = SuccessorOf(t.rows[i])
          /\ t.next # <<>> => t.next[1] = SuccessorOf(t.rows[n])
      BY <1>1, <2>9 DEF Path, n
    <3>2. \A i \in 1..k : i < k => ObservationOf(rows[i + 1]) = SuccessorOf(rows[i])
      <4> SUFFICES ASSUME NEW i \in 1..k, i < k
                   PROVE  ObservationOf(rows[i + 1]) = SuccessorOf(rows[i])
        OBVIOUS
      <4> DEFINE j == i + 1
      <4>1. j \in 1..k /\ claimed + j = (claimed + i) + 1
        BY <2>1
      <4> HIDE DEF j
      <4>2. rows[j] = t.rows[(claimed + i) + 1] /\ rows[i] = t.rows[claimed + i]
        BY <2>2, <4>1
      <4> QED
        BY <2>4, <3>1, <4>2 DEF j
    <3> QED
      BY <2>2, <2>3, <2>6, <3>1, <3>2 DEF Path
  <2> QED
    BY <2>8, <2>9
<1> HIDE DEF part, suffix, prefix, n
<1>9. /\ claimed = n => part.claimed = <<t>>
      /\ claimed # n /\ claimed = 0 => part.claimed = <<>>
      /\ claimed # n /\ claimed # 0 => part.claimed = <<prefix>>
      /\ claimed < n /\ retain => part.overflow = <<suffix>>
      /\ ~(claimed < n /\ retain) => part.overflow = <<>>
  BY <1>3
<1>10. /\ part.claimed = <<>> <=> claimed = 0
       /\ part.claimed # <<>> => Pushable(part.claimed[1]) /\ (Path(t) => Path(part.claimed[1]))
  <2>1. CASE claimed = n
    BY <1>1, <1>6, <1>9, <2>1
  <2>2. CASE claimed # n /\ claimed = 0
    BY <1>9, <2>2
  <2>3. CASE claimed # n /\ claimed # 0
    BY <1>7, <1>9, <2>3
  <2> QED
    BY <2>1, <2>2, <2>3
<1>11. part.overflow # <<>> => Closed(part.overflow[1]) /\ (Path(t) => Path(part.overflow[1]))
  BY <1>8, <1>9
<1> QED
  BY <1>2, <1>10, <1>11 DEF part

(* A step of the claim loops: nothing, or one more trajectory, that the    *)
(* contract allows at this point.                                          *)
Delivers ==
    \/ memory' = memory
    \/ \E t \in Trajectory :
          /\ Pushable(t) /\ (SteadyTracking => Path(t))
          /\ memory' = PushTraj(memory, t)
          /\ Contract!MayAdd(Mode, share, memory.rows, Len(t.rows))

(* An open prefix is granted only what the contract allows. *)
LEMMA GrantMay ==
    ASSUME TypeOK, BudgetAccounting, ~config.complete, NEW steps \in Nat, Grant(steps) # 0
    PROVE  Contract!MayAdd(Mode, share, memory.rows, Grant(steps))
<1> DEFINE g == Grant(steps)
<1>1. /\ g \in 0..steps
      /\ remaining = 0 => g = 0
      /\ ~config.overbatching => g <= remaining
      /\ remaining > 0 => g < remaining + share
  BY GrantFacts
<1>2. /\ remaining \in Nat /\ share \in Nat /\ Collected \in Nat
      /\ config.overbatching \in BOOLEAN
  BY StateTypes DEF TypeOK
<1>3. g \in Nat /\ g # 0
  BY <1>1
<1> HIDE DEF g
<1>4. remaining > 0 /\ Collected + remaining = share
  BY <1>1, <1>2, <1>3 DEF BudgetAccounting
<1>5. Mode = IF config.overbatching THEN "overbatch" ELSE "exact"
  BY DEF Mode
<1>6. Collected < share
  BY <1>2, <1>4
<1>7. ~config.overbatching => Collected + g <= share
  BY <1>1, <1>2, <1>3, <1>4
<1>8. Collected + g < 2 * share
  BY <1>1, <1>2, <1>3, <1>4
<1> QED
  BY <1>5, <1>6, <1>7, <1>8 DEF Contract!MayAdd, Contract!Wanted, Collected, g

(* The types of what waits. *)
LEMMA DeliverableFacts ==
    ASSUME NEW t \in Deliverable
    PROVE  /\ t \in Trajectory /\ Closed(t) /\ (SteadyTracking => Path(t))
           /\ Len(t.rows) \in Nat \ {0}
           /\ Pushable(t)
<1>1. t \in Trajectory /\ Closed(t) /\ (SteadyTracking => Path(t))
  BY DEF Deliverable
<1>2. t.rows \in Seq(Row) /\ Len(t.rows) \in Nat \ {0} /\ DOMAIN t.rows = 1..Len(t.rows)
  BY <1>1, EmptySeq, LenProperties DEF Trajectory, Closed
<1>3. Len(t.rows) \in 1..Len(t.rows)
  BY <1>2
<1>4. t.rows[Len(t.rows)] \in Row
  BY <1>2, <1>3, ElementOfSeq
<1>5. t.rows[Len(t.rows)].term \in Terminals
  BY <1>4 DEF Row
<1>6. Pushable(t)
  BY <1>1, <1>2, <1>3, <1>5 DEF Pushable, Closed, Terminals
<1> QED
  BY <1>1, <1>2, <1>6

(* A split of something that waits: the prefix is delivered, the rest      *)
(* waits on.                                                               *)
LEMMA SplitDelivers ==
    ASSUME TypeOK, BudgetAccounting, ~config.complete, NEW t \in Deliverable,
           NEW retain \in BOOLEAN,
           memory' = PushClaimed(memory, Partition(t, Grant(Len(t.rows)), retain).claimed)
    PROVE  /\ Delivers
           /\ Partition(t, Grant(Len(t.rows)), retain).overflow \in Option(Deliverable)
<1> DEFINE g == Grant(Len(t.rows))
           part == Partition(t, g, retain)
<1>1. /\ t \in Trajectory /\ Closed(t) /\ (SteadyTracking => Path(t))
      /\ Len(t.rows) \in Nat
  BY DeliverableFacts
<1>2. g \in 0..Len(t.rows)
  BY <1>1, GrantFacts
<1>3. g # 0 => Contract!MayAdd(Mode, share, memory.rows, g)
  BY <1>1, GrantMay
<1> HIDE DEF g
<1>4. /\ part.claimed \in Option(Trajectory)
      /\ part.overflow \in Option(Trajectory)
      /\ part.claimed = <<>> <=> g = 0
      /\ part.claimed # <<>> => /\ Pushable(part.claimed[1])
                                /\ Len(part.claimed[1].rows) = g
                                /\ Path(t) => Path(part.claimed[1])
      /\ part.overflow # <<>> => /\ Closed(part.overflow[1])
                                 /\ Path(t) => Path(part.overflow[1])
  BY <1>1, <1>2, SplitClosed
<1>5. memory' = PushClaimed(memory, part.claimed)
  BY DEF g
<1> HIDE DEF part
<1>6. Delivers
  <2>1. CASE g = 0
    BY <1>4, <1>5, <2>1 DEF PushClaimed, Delivers
  <2>2. CASE g # 0
    <3>1. memory' = PushTraj(memory, part.claimed[1])
      BY <1>4, <1>5, <2>2 DEF PushClaimed
    <3>2. part.claimed[1] \in Trajectory
      BY <1>4, <2>2, OptionFacts
    <3> QED
      BY <1>1, <1>3, <1>4, <2>2, <3>1, <3>2 DEF Delivers
  <2> QED
    BY <2>1, <2>2
<1>7. part.overflow \in Option(Deliverable)
  <2>1. CASE part.overflow = <<>>
    BY <2>1, OptionFacts
  <2>2. CASE part.overflow # <<>>
    <3>1. part.overflow[1] \in Deliverable
      BY <1>1, <1>4, <2>2, OptionFacts DEF Deliverable
    <3>2. part.overflow = <<part.overflow[1]>>
      <4>1. part.overflow \in Seq(Trajectory) /\ Len(part.overflow) = 1
        BY <1>4, <2>2, OptionFacts
      <4> QED
        BY <4>1
    <3> QED
      BY <3>1, <3>2, OptionFacts
  <2> QED
    BY <2>1, <2>2
<1> QED
  BY <1>6, <1>7 DEF part, g

(* A turn of the loop that serves the leftovers first. *)
LEMMA DrainDelivers ==
    ASSUME Account, ShapeInv, CompleteInv, DrainOverflow
    PROVE  Delivers /\ overflow' \in Seq(Deliverable) /\ ~config.complete
<1>1. /\ ~config.complete
      /\ overflow \in Seq(Deliverable) /\ overflow # <<>>
      /\ TypeOK /\ BudgetAccounting
  BY DEF DrainOverflow, CompleteInv, Account, ShapeInv
<1> DEFINE t == Head(overflow)
           g == Grant(Len(t.rows))
           part == Partition(t, g, TRUE)
<1>2. t \in Deliverable /\ Tail(overflow) \in Seq(Deliverable)
  BY <1>1, HeadTailProperties
<1>3. memory' = PushClaimed(memory, part.claimed) /\ overflow' = part.overflow \o Tail(overflow)
  BY DEF DrainOverflow, Requeue
<1>4. Delivers /\ part.overflow \in Option(Deliverable)
  BY <1>1, <1>2, <1>3, SplitDelivers
<1> HIDE DEF t, part
<1>5. part.overflow \o Tail(overflow) \in Seq(Deliverable)
  BY <1>2, <1>4, OptionFacts, ConcatProperties
<1> QED
  BY <1>1, <1>3, <1>4, <1>5

(* A turn of claim_game_outcomes, in either mode. *)
LEMMA ClaimDelivers ==
    ASSUME Account, ShapeInv, CompleteInv, ClaimFlush
    PROVE  /\ Delivers /\ overflow' \in Seq(Deliverable)
           /\ config.complete => /\ overflow' = <<>>
                                 /\ completed' <=> completed \/ memory' # memory
<1>1. PICK p \in Unclaimed :
        IF config.complete THEN ClaimWhole(flushed[p][1]) ELSE ClaimPart(flushed[p][1])
  BY DEF ClaimFlush
<1> DEFINE t == flushed[p][1]
<1>2. t \in Deliverable
  BY DEF ShapeInv, Unclaimed
<1>3. TypeOK /\ BudgetAccounting /\ overflow \in Seq(Deliverable)
  BY DEF Account, ShapeInv
<1>4. config.complete \in BOOLEAN /\ config.retain \in BOOLEAN /\ memory \in MemoryType
      /\ remaining \in Nat /\ share \in Nat /\ Collected \in Nat /\ completed \in BOOLEAN
  BY <1>3, StateTypes DEF TypeOK
<1>5. CASE config.complete
  <2> DEFINE steps == Len(t.rows)
             claimed == ClaimComplete(remaining, steps, ~completed)
  <2>1. /\ completed' = (completed \/ claimed = steps)
        /\ memory' = IF claimed = steps THEN PushTraj(memory, t) ELSE memory
        /\ overflow' = overflow
    BY <1>1, <1>5 DEF ClaimWhole
  <2>2. /\ t \in Trajectory /\ Pushable(t) /\ (SteadyTracking => Path(t))
        /\ steps \in Nat \ {0}
    BY <1>2, DeliverableFacts
  <2>3. claimed = IF remaining > 0 \/ ~completed THEN steps ELSE 0
    BY DEF ClaimComplete
  <2>4. Extends(PushTraj(memory, t), memory, t)
    BY <1>4, <2>2, PushExtends
  <2>5. Len(PushTraj(memory, t).rows) = Collected + steps
    BY <2>4 DEF Extends, Collected
  <2>6. PushTraj(memory, t) # memory
    <3> SUFFICES ASSUME PushTraj(memory, t) = memory PROVE FALSE
      OBVIOUS
    <3>1. Collected = Collected + steps
      BY <2>5 DEF Collected
    <3> HIDE DEF steps
    <3> QED
      BY <1>4, <2>2, <3>1
  <2>7. overflow = <<>> /\ (completed <=> Collected > 0)
    BY <1>5 DEF CompleteInv
  <2>8. claimed = steps => Contract!MayAdd(Mode, share, memory.rows, steps)
    <3> SUFFICES ASSUME claimed = steps
                 PROVE  Contract!MayAdd(Mode, share, memory.rows, steps)
      OBVIOUS
    <3>1. remaining > 0 \/ ~completed
      BY <2>2, <2>3
    <3>2. Collected < share \/ Collected = 0
      BY <1>3, <1>4, <2>7, <3>1 DEF BudgetAccounting
    <3>3. Mode = "complete"
      BY <1>5 DEF Mode
    <3>4. memory.rows \in Seq(Row)
      BY <1>4 DEF MemoryType
    <3>5. Collected = 0 => memory.rows = <<>>
      BY <3>4, EmptySeq DEF Collected
    <3> HIDE DEF steps
    <3> QED
      BY <3>2, <3>3, <3>5 DEF Contract!MayAdd, Contract!Wanted, Collected
  <2> HIDE DEF claimed, t
  <2>9. Delivers
    BY <2>1, <2>2, <2>8 DEF Delivers
  <2>10. completed' <=> completed \/ memory' # memory
    BY <1>4, <2>1, <2>6
  <2> QED
    BY <1>3, <1>5, <2>1, <2>7, <2>9, <2>10
<1>6. CASE ~config.complete
  <2> DEFINE part == Partition(t, Grant(Len(t.rows)), config.retain)
  <2>1. memory' = PushClaimed(memory, part.claimed) /\ overflow' = overflow \o part.overflow
    BY <1>1, <1>6 DEF ClaimPart
  <2>2. Delivers /\ part.overflow \in Option(Deliverable)
    BY <1>2, <1>3, <1>4, <1>6, <2>1, SplitDelivers
  <2> HIDE DEF part, t
  <2>3. overflow \o part.overflow \in Seq(Deliverable)
    BY <1>3, <2>2, OptionFacts, ConcatProperties
  <2> QED
    BY <1>6, <2>1, <2>2, <2>3
<1> QED
  BY <1>5, <1>6

(* A delivery keeps the learner's contract and the paths. *)
LEMMA DeliversMemory ==
    ASSUME Account, MemoryInv, Delivers, config' = config
    PROVE  MemoryInv'
<1>1. memory \in MemoryType
  BY StateTypes DEF Account
<1>2. SteadyTracking' <=> SteadyTracking
  BY DEF SteadyTracking
<1>3. /\ SteadyContiguous <=> (SteadyTracking => ContiguousIn(memory))
      /\ SteadyBootstraps <=> (SteadyTracking => BootstrapsIn(memory))
      /\ SteadyContiguous' <=> (SteadyTracking => ContiguousIn(memory'))
      /\ SteadyBootstraps' <=> (SteadyTracking => BootstrapsIn(memory'))
  BY <1>2 DEF SteadyContiguous, SteadyBootstraps, Contiguous, Bootstraps, ContiguousIn,
              BootstrapsIn, Collected
<1>4. MemoryInv' <=> Valid(memory') /\ SteadyContiguous' /\ SteadyBootstraps'
  BY DEF MemoryInv, Valid
<1>5. CASE memory' = memory
  BY <1>3, <1>4, <1>5 DEF MemoryInv
<1>6. CASE memory' # memory
  <2>1. PICK t \in Trajectory : /\ Pushable(t) /\ (SteadyTracking => Path(t))
                                /\ memory' = PushTraj(memory, t)
    BY <1>6 DEF Delivers
  <2>2. Extends(memory', memory, t)
    BY <1>1, <2>1, PushExtends
  <2>3. Valid(memory')
    BY <1>1, <2>1, <2>2, ExtendsValid DEF MemoryInv
  <2>4. ASSUME SteadyTracking
        PROVE  ContiguousIn(memory') /\ BootstrapsIn(memory')
    BY <1>1, <1>3, <2>1, <2>2, <2>4, ExtendsContiguous, ExtendsBootstraps DEF MemoryInv
  <2> QED
    BY <1>3, <1>4, <2>3, <2>4
<1> QED
  BY <1>5, <1>6

(* A delivery in complete mode happens only while the share is not         *)
(* reached, or first.                                                      *)
LEMMA DeliversFinal ==
    ASSUME Account, MemoryInv, OneFinalOverrun, Delivers, UNCHANGED <<config, share>>
    PROVE  OneFinalOverrun'
<1>1. memory \in MemoryType /\ Collected \in Nat /\ share \in Nat /\ memory.rows \in Seq(Row)
  BY StateTypes DEF Account, TypeOK, MemoryType
<1>2. CASE memory' = memory
  BY <1>2 DEF OneFinalOverrun, Collected
<1>3. CASE memory' # memory /\ config.complete
  <2>1. PICK t \in Trajectory : /\ Pushable(t) /\ memory' = PushTraj(memory, t)
                                /\ Contract!MayAdd(Mode, share, memory.rows, Len(t.rows))
    BY <1>3 DEF Delivers
  <2>2. Extends(memory', memory, t)
    BY <1>1, <2>1, PushExtends
  <2>3. Collected < share \/ Collected = 0
    BY <1>1, <2>1, EmptySeq DEF Contract!MayAdd, Contract!Wanted, Collected
  <2> DEFINE L == Collected
             n == Len(t.rows)
  <2>4. n \in Nat \ {0}
    BY <2>1, EmptySeq DEF Pushable, Trajectory
  <2>5. /\ Collected' = L + n
        /\ \A i \in 1..L : memory'.rows[i] = memory.rows[i]
        /\ \A i \in 1..n : i < n => memory'.rows[L + i].term = "None"
    BY <2>2 DEF Extends, Collected
  <2>6. L > 0 => memory.rows[L].term # "None"
    <3>1. L > 0 => memory.rows # <<>>
      BY <1>1, EmptySeq DEF Collected
    <3> QED
      BY <3>1 DEF MemoryInv, Valid, Collected
  <2> HIDE DEF L, n
  <2>7. L \in Nat
    BY <1>1 DEF L
  <2>8. \A j \in L + 1..L + n - 1 : memory'.rows[j].term = "None"
    <3> SUFFICES ASSUME NEW j \in L + 1..L + n - 1 PROVE memory'.rows[j].term = "None"
      OBVIOUS
    <3>1. j - L \in 1..n /\ j - L < n /\ L + (j - L) = j
      BY <2>4, <2>7
    <3> QED
      BY <2>5, <3>1
  <2>9. L > 0 => L \in 1..L
    BY <2>7
  <2>10. /\ L \in 0..Collected' - 1
         /\ L > 0 => memory'.rows[L].term # "None" /\ L < share
         /\ \A j \in L + 1..Collected' - 1 : memory'.rows[j].term = "None"
    BY <2>3, <2>4, <2>5, <2>6, <2>7, <2>8, <2>9 DEF L
  <2> QED
    BY <2>10 DEF OneFinalOverrun
<1>4. CASE ~config.complete
  BY <1>4 DEF OneFinalOverrun
<1> QED
  BY <1>2, <1>3, <1>4

(* The contract counts as this module does. *)
LEMMA ContractCardinality == \A S : Contract!Cardinality(S) = Cardinality(S)
  BY DEF Contract!Cardinality, Cardinality

(* A delivery is a step of the contract. *)
LEMMA DeliversContract ==
    ASSUME Account, Delivers, UNCHANGED <<config, share>>, pc # "idle", pc' # "idle"
    PROVE  [Contract!Next]_Contract!vars
<1>1. memory \in MemoryType /\ memory.rows \in Seq(Row) /\ memory.nexts \in Seq(Observation)
  BY StateTypes DEF Account, MemoryType
<1>2. Mode' = Mode
  BY DEF Mode
<1>3. CASE memory' = memory
  BY <1>2, <1>3 DEF Contract!vars
<1>4. CASE memory' # memory
  <2>1. PICK t \in Trajectory : /\ Pushable(t) /\ memory' = PushTraj(memory, t)
                                /\ Contract!MayAdd(Mode, share, memory.rows, Len(t.rows))
    BY <1>4 DEF Delivers
  <2>2. Extends(memory', memory, t)
    BY <1>1, <2>1, PushExtends
  <2> DEFINE L == Len(memory.rows)
             n == Len(t.rows)
             K == Len(memory.nexts)
             part == Contract!Gained(memory', memory)
             rows == SubSeq(memory'.rows, L + 1, Len(memory'.rows))
             nexts == SubSeq(memory'.nexts, K + 1, Len(memory'.nexts))
  <2>3. n \in Nat \ {0} /\ L \in Nat /\ K \in Nat /\ t.next \in Seq(Observation)
        /\ Len(t.next) = (IF Cut(t) THEN 1 ELSE 0)
    BY <1>1, <2>1, <2>2, TruncatedGrows, LenProperties
  <2>4. part = [rows |-> rows, nexts |-> nexts]
    BY DEF Contract!Gained
  <2>5. /\ memory'.rows \in Seq(Row) /\ Len(memory'.rows) = L + n
        /\ memory'.nexts = memory.nexts \o t.next
        /\ \A i \in 1..L : memory'.rows[i] = memory.rows[i]
        /\ \A i \in 1..n : i < n => memory'.rows[L + i].term = "None"
        /\ memory'.rows[L + n].term = IF Cut(t) THEN "Truncated" ELSE "Normal"
    BY <2>2 DEF Extends
  <2>6. nexts = t.next
    <3>1. Len(memory.nexts \o t.next) = K + Len(t.next)
      BY <1>1, <2>3, ConcatProperties
    <3>2. SubSeq(memory.nexts \o t.next, K + 1, K + Len(t.next)) = SubSeq(t.next, 1, Len(t.next))
      <4>1. CASE Cut(t)
        <5>1. \A a, b \in Seq(Observation) : \A i, j \in Len(a) + 1..Len(a) + Len(b) :
                 SubSeq(a \o b, i, j) = SubSeq(b, i - Len(a), j - Len(a))
          BY SubSeqOfConcat2
        <5>2. Len(t.next) = 1
          BY <2>3, <4>1
        <5> HIDE DEF K
        <5>3. K + 1 \in K + 1..K + 1 /\ (K + 1) - K = 1
          BY <2>3
        <5>4. K + 1 \in Len(memory.nexts) + 1..Len(memory.nexts) + Len(t.next)
          BY <5>2, <5>3 DEF K
        <5>5. SubSeq(memory.nexts \o t.next, K + 1, K + 1)
                = SubSeq(t.next, (K + 1) - Len(memory.nexts), (K + 1) - Len(memory.nexts))
          BY <1>1, <2>3, <5>1, <5>4
        <5>6. (K + 1) - Len(memory.nexts) = 1
          BY <5>3 DEF K
        <5> QED
          BY <5>2, <5>5, <5>6
      <4>2. CASE ~Cut(t)
        <5>1. Len(t.next) = 0
          BY <2>3, <4>2
        <5> HIDE DEF K
        <5>2. K + 1 \in Int /\ K + 0 \in Int /\ K + 0 < K + 1
          BY <2>3
        <5>3. SubSeq(memory.nexts \o t.next, K + 1, K + 0) = <<>>
          BY <5>2, SubSeqEmpty
        <5>4. SubSeq(t.next, 1, 0) = <<>>
          BY SubSeqEmpty
        <5> QED
          BY <5>1, <5>3, <5>4
      <4> QED
        BY <4>1, <4>2
    <3>3. SubSeq(t.next, 1, Len(t.next)) = t.next
      BY <2>3, SubSeqFull
    <3> QED
      BY <2>5, <3>1, <3>2, <3>3
  <2>7. /\ rows \in Seq(Row) /\ Len(rows) = n
        /\ \A i \in 1..n : rows[i] = memory'.rows[L + i]
    <3> HIDE DEF L, n
    <3>1. \A i \in L + 1..L + n : memory'.rows[i] \in Row
      <4>1. \A s \in Seq(Row) : \A i \in 1..Len(s) : s[i] \in Row
        BY ElementOfSeq
      <4>2. \A i \in L + 1..L + n : i \in 1..L + n
        BY <2>3
      <4> QED
        BY <2>5, <4>1, <4>2
    <3>2. rows = SubSeq(memory'.rows, L + 1, L + n)
      BY <2>5
    <3> HIDE DEF rows
    <3>3. ASSUME NEW s, NEW a \in Int, NEW b \in Int, \A i \in a..b : s[i] \in Row
          PROVE  /\ SubSeq(s, a, b) \in Seq(Row)
                 /\ Len(SubSeq(s, a, b)) = IF a <= b THEN b - a + 1 ELSE 0
                 /\ \A i \in 1..b - a + 1 : SubSeq(s, a, b)[i] = s[a + i - 1]
      BY <3>3, SubSeqProperties
    <3> DEFINE a == L + 1
               b == L + n
    <3>4. /\ a \in Int /\ b \in Int /\ a <= b /\ b - a + 1 = n
          /\ \A i \in 1..n : a + i - 1 = L + i
      BY <2>3
    <3>5. rows = SubSeq(memory'.rows, a, b) /\ \A i \in a..b : memory'.rows[i] \in Row
      BY <3>1, <3>2
    <3> HIDE DEF a, b
    <3>6. /\ SubSeq(memory'.rows, a, b) \in Seq(Row)
          /\ Len(SubSeq(memory'.rows, a, b)) = IF a <= b THEN b - a + 1 ELSE 0
          /\ \A i \in 1..b - a + 1 : SubSeq(memory'.rows, a, b)[i] = memory'.rows[a + i - 1]
      BY <3>3, <3>4, <3>5
    <3> QED
      BY <3>4, <3>5, <3>6
  <2> HIDE DEF rows, nexts, L, n, K, part
  <2>8. /\ part.rows = rows /\ part.nexts = t.next
    BY <2>4, <2>6
  <2>9. Contract!IsSegment(part)
    <3>1. rows # <<>> /\ DOMAIN rows = 1..n
      BY <2>3, <2>7, EmptySeq, LenProperties
    <3>2. n \in 1..n
      BY <2>3
    <3>3. rows[n].term = IF Cut(t) THEN "Truncated" ELSE "Normal"
      BY <2>5, <2>7, <3>2
    <3>4. \A i \in 1..n : i < n => rows[i].term = "None"
      BY <2>5, <2>7
    <3>5. \A i \in 1..n : rows[i].term = "None" <=> i < n
      <4> SUFFICES ASSUME NEW i \in 1..n, ~(i < n) PROVE rows[i].term # "None"
        BY <3>4
      <4>1. i = n
        BY <2>3
      <4> QED
        BY <3>3, <4>1
    <3>6. TruncatedIn(rows) = IF Cut(t) THEN {n} ELSE {}
      <4>1. \A i \in 1..n : rows[i].term = "Truncated" <=> Cut(t) /\ i = n
        <5> SUFFICES ASSUME NEW i \in 1..n
                     PROVE  rows[i].term = "Truncated" <=> Cut(t) /\ i = n
          OBVIOUS
        <5>1. CASE i < n
          BY <2>3, <3>4, <5>1
        <5>2. CASE i = n
          BY <3>3, <5>2
        <5> QED
          BY <2>3, <5>1, <5>2
      <4>2. TruncatedIn(rows) = {i \in 1..n : Cut(t) /\ i = n}
        BY <3>1, <4>1 DEF TruncatedIn
      <4> QED
        BY <3>2, <4>2
    <3>7. Cardinality(TruncatedIn(rows)) = IF Cut(t) THEN 1 ELSE 0
      BY <3>6, FS_Singleton, FS_EmptySet
    <3> QED
      <4>1. Contract!TruncatedIn(rows) = TruncatedIn(rows)
        BY DEF Contract!TruncatedIn, TruncatedIn
      <4>2. Len(part.nexts) = Contract!Cardinality(Contract!TruncatedIn(part.rows))
        BY <2>3, <2>8, <3>7, <4>1, ContractCardinality
      <4>3. /\ part.rows # <<>>
            /\ \A i \in DOMAIN part.rows : part.rows[i].term = "None" <=> i < Len(part.rows)
        BY <2>7, <2>8, <3>1, <3>5
      <4> QED
        BY <4>2, <4>3 DEF Contract!IsSegment
  <2>10. memory' = Contract!Merge(memory, part)
    <3>1. memory.rows \o rows = memory'.rows
      <4>1. \A a, b \in Seq(Row) :
              /\ a \o b \in Seq(Row)
              /\ Len(a \o b) = Len(a) + Len(b)
              /\ \A i \in 1..Len(a) + Len(b) :
                    (a \o b)[i] = IF i <= Len(a) THEN a[i] ELSE b[i - Len(a)]
        BY ConcatProperties
      <4> DEFINE joined == memory.rows \o rows
      <4>2. /\ joined \in Seq(Row) /\ Len(joined) = L + n
            /\ \A i \in 1..L + n : joined[i] = IF i <= L THEN memory.rows[i] ELSE rows[i - L]
        BY <1>1, <2>7, <4>1 DEF L
      <4> HIDE DEF joined
      <4>3. \A i \in 1..L + n : joined[i] = memory'.rows[i]
        <5> SUFFICES ASSUME NEW i \in 1..L + n PROVE joined[i] = memory'.rows[i]
          OBVIOUS
        <5>1. CASE i <= L
          <6>1. i \in 1..L
            BY <2>3, <5>1
          <6>2. memory'.rows[i] = memory.rows[i]
            BY <2>5, <6>1
          <6>3. joined[i] = memory.rows[i]
            BY <4>2, <5>1
          <6> QED
            BY <6>2, <6>3
        <5>2. CASE ~(i <= L)
          <6>1. i - L \in 1..n /\ L + (i - L) = i
            BY <2>3, <5>2
          <6> QED
            BY <2>7, <4>2, <5>2, <6>1
        <5> QED
          BY <5>1, <5>2
      <4>4. \A a, b \in Seq(Row) : Len(a) = Len(b) /\ (\A i \in 1..Len(a) : a[i] = b[i]) => a = b
        BY SeqEqual
      <4>5. joined = memory'.rows
        BY <2>5, <4>2, <4>3, <4>4
      <4> QED
        BY <4>5 DEF joined
    <3>2. memory' = [rows |-> memory'.rows, nexts |-> memory'.nexts]
      <4>1. memory' \in MemoryType
        BY <1>1, <2>1, PushTrajFacts DEF MemoryType
      <4> QED
        BY <4>1 DEF MemoryType
    <3> QED
      BY <2>5, <2>8, <3>1, <3>2 DEF Contract!Merge
  <2>11. Contract!MayAdd(Mode, share, memory.rows, Len(part.rows))
    BY <2>1, <2>7, <2>8 DEF n
  <2>12. Contract!Deliver
    BY <1>2, <2>9, <2>10, <2>11 DEF Contract!Deliver, part
  <2> QED
    BY <2>12 DEF Contract!Next
<1> QED
  BY <1>3, <1>4

(* Who is steadily tracked depends on the configuration alone. *)
LEMMA SteadyFixed == config' = config => Deliverable' = Deliverable
                                         /\ (SteadyTracking' <=> SteadyTracking)
  BY DEF Deliverable, SteadyTracking, Closed, Path

(* With one old team and one layout, who is tracked does not change. *)
LEMMA SteadyFacts ==
    ASSUME Account, SteadyTracking
    PROVE  /\ \E team : config.oldTeams = {team}
           /\ \A l, k \in Layouts : l = k
           /\ Layouts \subseteq [Players -> Teams]
  BY BatchAssumption DEF SteadyTracking

(* Nothing is accumulated or delivered at first. *)
LEMMA InitIInv == Init => IInv
<1> SUFFICES ASSUME Init PROVE IInv
  OBVIOUS
<1>1. Account
  BY InitAccount
<1>2. /\ \A p \in Players : trajs[p] = <<>> /\ flushed[p] = <<>>
      /\ overflow = <<>> /\ memory = EmptyMemory /\ Collected = 0 /\ completed = FALSE
      /\ pc = "idle" /\ teams \in Layouts
  BY DEF Init, NoFlush, Collected, EmptyMemory
<1>3. ShapeInv
  BY <1>2 DEF ShapeInv
<1>4. CompleteInv /\ TrackedInv /\ PathInv /\ OneFinalOverrun
  BY <1>2 DEF CompleteInv, TrackedInv, PathInv, OpenPath, OneFinalOverrun
<1>5. MemoryInv
  <2>1. memory.rows = <<>> /\ memory.nexts = <<>>
    BY <1>2 DEF EmptyMemory
  <2>2. TruncatedIn(memory.rows) = {}
    BY <2>1 DEF TruncatedIn
  <2>3. Len(memory.nexts) = Cardinality(TruncatedIn(memory.rows))
    BY <2>1, <2>2, FS_EmptySet
  <2>4. Contiguous /\ Bootstraps
    BY <2>1, <2>2 DEF Contiguous, Bootstraps
  <2> QED
    BY <2>1, <2>3, <2>4 DEF MemoryInv, Valid, SteadyContiguous, SteadyBootstraps
<1> QED
  BY <1>1, <1>3, <1>4, <1>5 DEF IInv

(* A new run starts from nothing delivered; leftovers and buffers stay. *)
LEMMA BeginKeeps ==
    ASSUME IInv, Account', NEW budget \in Shares, NEW oldTeam \in config.oldTeams,
           BeginRun(budget, oldTeam)
    PROVE  IInv'
<1>1. /\ config' = config /\ trajs' = trajs /\ flushed' = flushed /\ teams' = teams
      /\ clock' = clock /\ completed' = FALSE /\ memory' = EmptyMemory /\ pc' = "drain"
      /\ overflow' = IF config.complete THEN <<>> ELSE overflow
      /\ tracked' = {p \in Players : teams[p] # oldTeam}
  BY DEF BeginRun, envVars
<1>2. Deliverable' = Deliverable /\ (SteadyTracking' <=> SteadyTracking)
  BY <1>1, SteadyFixed
<1>3. Collected' = 0 /\ memory'.rows = <<>> /\ memory'.nexts = <<>>
  BY <1>1 DEF Collected, EmptyMemory
<1>4. ShapeInv'
  BY <1>1, <1>2 DEF IInv, ShapeInv
<1>5. CompleteInv'
  BY <1>1, <1>3 DEF CompleteInv
<1>6. TrackedInv'
  <2> SUFFICES ASSUME SteadyTracking PROVE TrackedInv'
    BY <1>2 DEF TrackedInv
  <2>1. config.oldTeams = {oldTeam}
    BY SteadyFacts DEF IInv
  <2> QED
    BY <1>1, <2>1 DEF TrackedInv, IInv
<1>7. PathInv'
  BY <1>1, <1>2 DEF IInv, PathInv, OpenPath
<1>8. OneFinalOverrun'
  BY <1>3 DEF OneFinalOverrun
<1>9. MemoryInv'
  <2>1. TruncatedIn(memory'.rows) = {}
    BY <1>3 DEF TruncatedIn
  <2>2. Len(memory'.nexts) = Cardinality(TruncatedIn(memory'.rows))
    <3>1. Len(memory'.nexts) = 0
      BY <1>3
    <3> QED
      BY <2>1, <3>1, FS_EmptySet
  <2>3. Contiguous' /\ Bootstraps'
    BY <1>3, <2>1 DEF Contiguous, Bootstraps
  <2> QED
    BY <1>3, <2>2, <2>3 DEF MemoryInv, Valid, SteadyContiguous, SteadyBootstraps
<1> QED
  BY <1>4, <1>5, <1>6, <1>7, <1>8, <1>9 DEF IInv

(* A claim moves one trajectory from those that wait into the memory. *)
LEMMA ClaimKeeps ==
    ASSUME IInv, Account', DrainOverflow \/ ClaimFlush
    PROVE  IInv'
<1>1. Account /\ ShapeInv /\ CompleteInv /\ MemoryInv /\ OneFinalOverrun
  BY DEF IInv
<1>2. UNCHANGED <<config, share, trajs, teams, clock, tracked>> /\ pc # "idle"
  BY DEF DrainOverflow, ClaimFlush, envVars, runVars
<1>3. Delivers /\ overflow' \in Seq(Deliverable)
  BY <1>1, DrainDelivers, ClaimDelivers
<1>4. Deliverable' = Deliverable /\ (SteadyTracking' <=> SteadyTracking)
  BY <1>2, SteadyFixed
<1>5. MemoryInv' /\ OneFinalOverrun'
  BY <1>1, <1>2, <1>3, DeliversMemory, DeliversFinal
<1>6. \A p \in Players : flushed'[p] # <<>> => flushed'[p] = flushed[p]
  <2>1. CASE DrainOverflow
    BY <2>1 DEF DrainOverflow
  <2>2. CASE ClaimFlush
    <3>1. PICK p \in Unclaimed : flushed' = [flushed EXCEPT ![p] = <<>>]
      BY <2>2 DEF ClaimFlush
    <3>2. flushed \in [Players -> Option(Trajectory)]
      BY <1>1 DEF Account, TypeOK
    <3> QED
      BY <3>1, <3>2
  <2> QED
    BY <2>1, <2>2
<1>7. ShapeInv'
  BY <1>1, <1>2, <1>3, <1>4, <1>6 DEF ShapeInv
<1>8. CompleteInv'
  <2>1. CASE DrainOverflow
    BY <1>1, <1>2, <2>1, DrainDelivers DEF CompleteInv
  <2>2. CASE ClaimFlush /\ config.complete
    <3>1. overflow' = <<>> /\ (completed' <=> completed \/ memory' # memory)
      BY <1>1, <2>2, ClaimDelivers
    <3>2. memory \in MemoryType /\ Collected \in Nat
      BY <1>1, StateTypes DEF Account
    <3>3. CASE memory' = memory
      BY <1>1, <2>2, <3>1, <3>3 DEF CompleteInv, Collected
    <3>4. CASE memory' # memory
      <4>1. PICK t \in Trajectory : Pushable(t) /\ memory' = PushTraj(memory, t)
        BY <1>3, <3>4 DEF Delivers
      <4>2. Extends(memory', memory, t) /\ Len(t.rows) \in Nat \ {0}
        BY <3>2, <4>1, PushExtends, TruncatedGrows
      <4>3. Collected' > 0
        <5>1. Len(memory'.rows) = Len(memory.rows) + Len(t.rows)
          BY <4>2 DEF Extends
        <5>2. Len(memory.rows) \in Nat
          BY <3>2 DEF Collected
        <5>3. Collected' > 0
          <6>1. Len(memory'.rows) > 0
            <7>1. \A x \in Nat, y \in Nat \ {0} : \A z : z = x + y => z > 0
              OBVIOUS
            <7>2. Len(t.rows) \in Nat \ {0}
              BY <4>2
            <7> QED
              BY <5>1, <5>2, <7>1, <7>2
          <6> QED
            BY <6>1 DEF Collected
        <5> QED
          BY <5>3
      <4> QED
        BY <3>1, <3>4, <4>3 DEF CompleteInv
    <3> QED
      BY <3>3, <3>4
  <2>3. CASE ~config.complete
    BY <1>2, <2>3 DEF CompleteInv
  <2> QED
    BY <2>1, <2>2, <2>3
<1>9. TrackedInv' /\ PathInv'
  BY <1>2, <1>4 DEF IInv, TrackedInv, PathInv, OpenPath
<1> QED
  BY <1>5, <1>7, <1>8, <1>9 DEF IInv

(* What a step adds to a buffer of open rows. *)
LEMMA RecordedFacts ==
    ASSUME TypeOK, NEW p \in Players, NEW term \in Terminals,
           \A i \in DOMAIN trajs[p] : trajs[p][i].term = "None"
    PROVE  LET r == Recorded(p, term)
               n == Len(trajs[p])
           IN  /\ n \in Nat /\ r \in Seq(Row) /\ Len(r) = n + 1
               /\ DOMAIN trajs[p] = 1..n /\ DOMAIN r = 1..n + 1
               /\ \A i \in 1..n : r[i] = trajs[p][i] /\ r[i].term = "None"
               /\ r[n + 1] = [pl |-> p, at |-> clock[GameOf[p]], term |-> term]
               /\ clock[GameOf[p]] \in Nat
<1>1. clock[GameOf[p]] \in Nat /\ trajs[p] \in Seq(Row)
  BY BatchAssumption DEF TypeOK
<1>2. [pl |-> p, at |-> clock[GameOf[p]], term |-> term] \in Row
  BY <1>1 DEF Row
<1> DEFINE row == [pl |-> p, at |-> clock[GameOf[p]], term |-> term]
<1>3. Recorded(p, term) = Append(trajs[p], row)
  BY DEF Recorded
<1> HIDE DEF row
<1>4. /\ Append(trajs[p], row) \in Seq(Row)
      /\ Len(Append(trajs[p], row)) = Len(trajs[p]) + 1
      /\ \A i \in 1..Len(trajs[p]) : Append(trajs[p], row)[i] = trajs[p][i]
      /\ Append(trajs[p], row)[Len(trajs[p]) + 1] = row
  BY <1>1, <1>2, AppendProperties DEF row
<1>5. Len(trajs[p]) \in Nat /\ DOMAIN trajs[p] = 1..Len(trajs[p])
  BY <1>1, LenProperties
<1>6. DOMAIN Recorded(p, term) = 1..Len(trajs[p]) + 1
  BY <1>3, <1>4, LenProperties
<1> QED
  BY <1>1, <1>3, <1>4, <1>5, <1>6 DEF row

(* What a player hands out at the end of its trajectory can be delivered.  *)
LEMMA FlushDeliverable ==
    ASSUME TypeOK, NEW p \in Players, NEW term \in Terminals, term # "None",
           \A i \in DOMAIN trajs[p] : trajs[p][i].term = "None",
           SteadyTracking => OpenPath(p)
    PROVE  FlushOf(p, term) \in Deliverable
<1> DEFINE r == Recorded(p, term)
           n == Len(trajs[p])
           c == clock[GameOf[p]]
           next == IF term = "Truncated" THEN <<[pl |-> p, at |-> c + 1]>> ELSE <<>>
           t == FlushOf(p, term)
<1>1. /\ n \in Nat /\ r \in Seq(Row) /\ Len(r) = n + 1
      /\ DOMAIN trajs[p] = 1..n /\ DOMAIN r = 1..n + 1
      /\ \A i \in 1..n : r[i] = trajs[p][i] /\ r[i].term = "None"
      /\ r[n + 1] = [pl |-> p, at |-> c, term |-> term]
      /\ c \in Nat
  BY RecordedFacts
<1>2. t \in Trajectory
  BY RecordedTypes
<1>3. t.rows = r /\ t.next = next
  BY DEF FlushOf
<1>4. SteadyTracking => \A i \in 1..n : trajs[p][i].pl = p /\ trajs[p][i].at + n + 1 = c + i
  BY <1>1 DEF OpenPath
<1>5. next # <<>> <=> term = "Truncated"
  OBVIOUS
<1>6. term = "Truncated" => next[1] = [pl |-> p, at |-> c + 1]
  OBVIOUS
<1>7. \A i \in 1..n : r[i] \in Row
  <2>1. \A i \in 1..n : i \in 1..n + 1
    BY <1>1
  <2> QED
    BY <1>1, <2>1, ElementOfSeq
<1> HIDE DEF r, n, c, next, t
<1>8. Closed(t)
  <2>1. r # <<>>
    BY <1>1, EmptySeq
  <2>2. \A i \in 1..n + 1 : r[i].term = "None" <=> i < n + 1
    <3> SUFFICES ASSUME NEW i \in 1..n + 1 PROVE r[i].term = "None" <=> i < n + 1
      OBVIOUS
    <3>1. CASE i = n + 1
      BY <1>1, <3>1
    <3>2. CASE i # n + 1
      BY <1>1, <3>2
    <3> QED
      BY <3>1, <3>2
  <2>3. r[n + 1].term = term
    BY <1>1
  <2> QED
    BY <1>1, <1>3, <1>5, <2>1, <2>2, <2>3 DEF Closed
<1>9. ASSUME SteadyTracking
      PROVE  Path(t)
  <2>1. \A i \in 1..n : r[i].pl = p /\ r[i].at + n + 1 = c + i /\ r[i].at \in Nat
    BY <1>1, <1>4, <1>7, <1>9 DEF Row
  <2>2. \A i \in 1..n + 1 : i < n + 1 => ObservationOf(r[i + 1]) = SuccessorOf(r[i])
    <3> SUFFICES ASSUME NEW i \in 1..n PROVE ObservationOf(r[i + 1]) = SuccessorOf(r[i])
      BY <1>1
    <3>1. CASE i = n
      <4>1. r[i + 1].pl = p /\ r[i + 1].at = c
        BY <1>1, <3>1
      <4>2. r[i].pl = p /\ r[i].at + 1 = c
        BY <1>1, <2>1, <3>1
      <4> QED
        BY <4>1, <4>2 DEF ObservationOf, SuccessorOf
    <3>2. CASE i # n
      <4> DEFINE j == i + 1
      <4>1. j \in 1..n
        BY <1>1, <3>2
      <4>2. r[j].pl = p /\ r[j].at + n + 1 = c + j /\ r[j].at \in Nat
        BY <2>1, <4>1
      <4>3. r[i].pl = p /\ r[i].at + n + 1 = c + i /\ r[i].at \in Nat
        BY <2>1
      <4>4. r[j].at = r[i].at + 1
        <5>1. n \in Nat /\ c \in Nat /\ i \in Nat
          BY <1>1
        <5> HIDE DEF r, c
        <5> QED
          BY ONLY <4>2, <4>3, <5>1 DEF j
      <4>5. ObservationOf(r[j]) = [pl |-> p, at |-> r[i].at + 1]
        BY <4>2, <4>4 DEF ObservationOf
      <4>6. SuccessorOf(r[i]) = [pl |-> p, at |-> r[i].at + 1]
        BY <4>3 DEF SuccessorOf
      <4> QED
        BY <4>5, <4>6
    <3> QED
      BY <3>1, <3>2
  <2>3. SuccessorOf(r[n + 1]) = [pl |-> p, at |-> c + 1]
    BY <1>1 DEF SuccessorOf
  <2> QED
    BY <1>1, <1>3, <1>5, <1>6, <2>2, <2>3 DEF Path
<1> QED
  BY <1>2, <1>8, <1>9 DEF Deliverable, t

(* A game that advances records a row of each tracked player, or hands out *)
(* their trajectories.                                                     *)
LEMMA StepKeeps ==
    ASSUME IInv, Account', NEW g \in Games, NEW ending \in Terminals, StepGame(g, ending)
    PROVE  IInv'
<1> DEFINE term == TerminalType(g, ending)
<1>1. Account /\ ShapeInv /\ CompleteInv /\ MemoryInv /\ OneFinalOverrun /\ TypeOK
      /\ TrackedInv /\ PathInv
  BY DEF IInv, Account
<1>2. UNCHANGED <<config, overflow, tracked, share, completed, memory>> /\ pc # "idle"
  BY DEF StepGame, runVars
<1>3. term \in Terminals /\ (term = "None" => ending = "None")
  BY DEF TerminalType, Terminals
<1>4. /\ trajs' = [p \in Players |->
                 IF GameOf[p] # g THEN trajs[p]
                 ELSE IF term # "None" THEN <<>>
                 ELSE IF p \in tracked THEN Recorded(p, term)
                 ELSE trajs[p]]
      /\ flushed' = [p \in Players |->
                 IF GameOf[p] = g /\ p \in tracked /\ term # "None"
                 THEN <<FlushOf(p, term)>> ELSE flushed[p]]
      /\ Advance(g, ending)
  BY DEF StepGame
<1> HIDE DEF term
<1>5. Deliverable' = Deliverable /\ (SteadyTracking' <=> SteadyTracking)
  BY <1>2, SteadyFixed
<1>6. CompleteInv' /\ MemoryInv' /\ OneFinalOverrun'
  BY <1>1, <1>2, <1>5 DEF CompleteInv, MemoryInv, Valid, OneFinalOverrun, Collected,
                           SteadyContiguous, SteadyBootstraps, Contiguous, Bootstraps
<1>7. \A p \in Players : \A i \in DOMAIN trajs[p] : trajs[p][i].term = "None"
  BY <1>1 DEF ShapeInv
<1>8. ShapeInv'
  <2>1. ASSUME NEW p \in Players
        PROVE  \A i \in DOMAIN trajs'[p] : trajs'[p][i].term = "None"
    <3>1. CASE trajs'[p] = trajs[p]
      BY <1>7, <3>1
    <3>2. CASE trajs'[p] = <<>>
      BY <3>2
    <3>3. CASE term = "None" /\ trajs'[p] = Recorded(p, term)
      <4> DEFINE r == Recorded(p, term)
                 n == Len(trajs[p])
      <4>1. /\ n \in Nat /\ DOMAIN r = 1..n + 1
            /\ \A i \in 1..n : r[i].term = "None"
            /\ r[n + 1] = [pl |-> p, at |-> clock[GameOf[p]], term |-> term]
        BY <1>1, <1>3, <1>7, RecordedFacts
      <4> HIDE DEF r, n
      <4>2. \A i \in 1..n + 1 : r[i].term = "None"
        BY <3>3, <4>1
      <4> QED
        BY <3>3, <4>1, <4>2 DEF r
    <3> QED
      BY <1>4, <3>1, <3>2, <3>3
  <2>2. ASSUME NEW p \in Players, flushed'[p] # <<>>
        PROVE  flushed'[p][1] \in Deliverable
    <3>1. CASE flushed'[p] = flushed[p]
      BY <1>1, <2>2, <3>1 DEF ShapeInv
    <3>2. CASE term # "None" /\ flushed'[p] = <<FlushOf(p, term)>>
      <4>1. FlushOf(p, term) \in Deliverable
        BY <1>1, <1>3, <1>7, <3>2, FlushDeliverable DEF PathInv
      <4> QED
        BY <3>2, <4>1
    <3> QED
      BY <1>4, <3>1, <3>2
  <2> QED
    BY <1>1, <1>2, <1>5, <2>1, <2>2 DEF ShapeInv
<1>9. ASSUME SteadyTracking
      PROVE  TrackedInv' /\ PathInv'
  <2>1. /\ teams \in Layouts
        /\ \A p \in Players : teams[p] \in config.oldTeams => trajs[p] = <<>>
        /\ tracked = {p \in Players : teams[p] \notin config.oldTeams}
    BY <1>1, <1>2, <1>9 DEF TrackedInv
  <2>2. teams' = teams
    <3>1. CASE ending = "None"
      BY <1>4, <3>1 DEF Advance
    <3>2. CASE ending # "None"
      <4>1. PICK layout \in Layouts :
              teams' = [p \in Players |-> IF GameOf[p] = g THEN layout[p] ELSE teams[p]]
        BY <1>4, <3>2 DEF Advance
      <4>2. layout = teams /\ teams \in [Players -> Teams]
        BY <1>1, <1>9, <2>1, SteadyFacts
      <4> QED
        BY <4>1, <4>2
    <3> QED
      BY <3>1, <3>2
  <2>3. \A p \in Players : trajs[p] = <<>> /\ p \notin tracked => trajs'[p] = <<>>
    BY <1>4
  <2>4. TrackedInv'
    BY <1>2, <2>1, <2>2, <2>3 DEF TrackedInv
  <2>5. clock' = [clock EXCEPT ![g] = IF ending # "None" THEN 0 ELSE clock[g] + 1]
    BY <1>4 DEF Advance
  <2>6. clock \in [Games -> Nat] /\ \A p \in Players : GameOf[p] \in Games
    BY <1>1, BatchAssumption DEF TypeOK
  <2>7. ASSUME NEW p \in Players
        PROVE  OpenPath(p)'
    <3>1. OpenPath(p)
      BY <1>1, <1>9 DEF PathInv
    <3>2. CASE GameOf[p] # g
      <4>1. trajs'[p] = trajs[p] /\ clock'[GameOf[p]] = clock[GameOf[p]]
        BY <1>4, <2>5, <2>6, <3>2
      <4> QED
        BY <3>1, <4>1 DEF OpenPath
    <3>3. CASE trajs'[p] = <<>>
      BY <3>3 DEF OpenPath
    <3>4. CASE GameOf[p] = g /\ term = "None" /\ trajs'[p] = Recorded(p, term)
      <4> DEFINE r == Recorded(p, term)
                 n == Len(trajs[p])
                 c == clock[g]
      <4>1. /\ n \in Nat /\ Len(r) = n + 1
            /\ DOMAIN trajs[p] = 1..n /\ DOMAIN r = 1..n + 1
            /\ \A i \in 1..n : r[i] = trajs[p][i]
            /\ r[n + 1] = [pl |-> p, at |-> c, term |-> term]
            /\ c \in Nat
        BY <1>1, <1>3, <1>7, <3>4, RecordedFacts
      <4>2. \A i \in 1..n : trajs[p][i].pl = p /\ trajs[p][i].at + n + 1 = c + i
        BY <3>1, <3>4, <4>1 DEF OpenPath
      <4>3. clock'[GameOf[p]] = c + 1
        BY <1>3, <2>5, <2>6, <3>4
      <4>4. \A i \in 1..n : trajs[p][i].at \in Nat
        <5>1. trajs[p] \in Seq(Row)
          BY <1>1 DEF TypeOK
        <5>2. \A i \in 1..n : trajs[p][i] \in Row
          BY <5>1, ElementOfSeq
        <5> QED
          BY <5>2 DEF Row
      <4> HIDE DEF r, n, c
      <4>5. \A i \in 1..n + 1 : r[i].pl = p /\ r[i].at + (n + 1) + 1 = (c + 1) + i
        <5> SUFFICES ASSUME NEW i \in 1..n + 1
                     PROVE  r[i].pl = p /\ r[i].at + (n + 1) + 1 = (c + 1) + i
          OBVIOUS
        <5>1. CASE i = n + 1
          <6>1. r[i].pl = p /\ r[i].at = c
            BY <4>1, <5>1
          <6> QED
            BY <4>1, <5>1, <6>1
        <5>2. CASE i # n + 1
          <6>1. i \in 1..n
            BY <4>1, <5>2
          <6>2. r[i].pl = p /\ r[i].at + n + 1 = c + i /\ r[i].at \in Nat
            BY <4>1, <4>2, <4>4, <6>1
          <6> QED
            BY <4>1, <6>1, <6>2
        <5> QED
          BY <5>1, <5>2
      <4> QED
        BY <3>4, <4>1, <4>3, <4>5 DEF OpenPath, r
    <3>5. GameOf[p] = g /\ p \notin tracked => trajs'[p] = <<>>
      BY <1>4, <2>1
    <3> QED
      BY <1>4, <3>2, <3>3, <3>4, <3>5
  <2> QED
    BY <1>5, <2>4, <2>7 DEF PathInv
<1>10. TrackedInv' /\ PathInv'
  BY <1>5, <1>9 DEF TrackedInv, PathInv
<1> QED
  BY <1>6, <1>8, <1>10 DEF IInv

(* The steps that only move the program counter. *)
LEMMA OtherKeeps ==
    ASSUME IInv, Account', DrainDone \/ Decide \/ ClaimDone \/ EndRun \/ UNCHANGED vars
    PROVE  IInv'
<1>1. /\ UNCHANGED <<config, teams, clock, trajs, overflow, tracked, share, completed,
                     flushed, memory>>
      /\ pc' # "idle" => pc # "idle"
  BY DEF DrainDone, Decide, ClaimDone, EndRun, envVars, runVars, vars
<1>2. Deliverable' = Deliverable /\ (SteadyTracking' <=> SteadyTracking)
  BY <1>1, SteadyFixed
<1>3. ShapeInv' /\ CompleteInv'
  BY <1>1, <1>2 DEF IInv, ShapeInv, CompleteInv, Collected
<1>4. TrackedInv' /\ PathInv'
  BY <1>1, <1>2 DEF IInv, TrackedInv, PathInv, OpenPath
<1>5. MemoryInv' /\ OneFinalOverrun'
  BY <1>1, <1>2 DEF IInv, MemoryInv, Valid, OneFinalOverrun, Collected,
                     SteadyContiguous, SteadyBootstraps, Contiguous, Bootstraps
<1> QED
  BY <1>3, <1>4, <1>5 DEF IInv

(* The invariant is inductive. *)
LEMMA NextIInv == IInv /\ [Next]_vars => IInv'
<1> SUFFICES ASSUME IInv, [Next]_vars PROVE IInv'
  OBVIOUS
<1>1. Account'
  BY NextAccount DEF IInv
<1>2. \/ \E budget \in Shares, oldTeam \in config.oldTeams : BeginRun(budget, oldTeam)
      \/ DrainOverflow \/ ClaimFlush
      \/ \E g \in Games, ending \in Terminals : StepGame(g, ending)
      \/ DrainDone \/ Decide \/ ClaimDone \/ EndRun \/ UNCHANGED vars
  BY DEF Next, Run
<1> QED
  BY <1>1, <1>2, BeginKeeps, ClaimKeeps, StepKeeps, OtherKeeps

(* Whatever the games, the budget, the mode and the splits: the memory a   *)
(* collector returns satisfies what Ppo::learn panics without.             *)
THEOREM LearnerContractKept == Spec => []LearnerContract
<1>1. IInv => LearnerContract
  BY DEF IInv, MemoryInv, LearnerContract
<1> QED
  BY InitIInv, NextIInv, <1>1, PTL DEF Spec

(* Only the last trajectory of a complete run goes past the share. *)
THEOREM OneOverrunOnly == Spec => []OneFinalOverrun
<1>1. IInv => OneFinalOverrun
  BY DEF IInv
<1> QED
  BY InitIInv, NextIInv, <1>1, PTL DEF Spec

(* While the same players are tracked in every run, the rows the learner   *)
(* takes for consecutive are consecutive.                                  *)
THEOREM RowsConsecutive == Spec => []SteadyContiguous
<1>1. IInv => SteadyContiguous
  BY DEF IInv, MemoryInv
<1> QED
  BY InitIInv, NextIInv, <1>1, PTL DEF Spec

(* While the same players are tracked in every run, a truncated row is     *)
(* bootstrapped from the observation that followed it.                     *)
THEOREM BootstrapsRight == Spec => []SteadyBootstraps
<1>1. IInv => SteadyBootstraps
  BY DEF IInv, MemoryInv
<1> QED
  BY InitIInv, NextIInv, <1>1, PTL DEF Spec

-----------------------------------------------------------------------------
(* The collector implements the contract, initial state and every step.    *)
LEMMA InitContract == Init => Contract!Init
<1> SUFFICES ASSUME Init PROVE Contract!Init
  OBVIOUS
<1>1. config \in Config
  BY BatchAssumption DEF Init
<1>2. Mode \in {"exact", "overbatch", "complete"}
  BY DEF Mode
<1>3. memory = Contract!EmptyMemory
  BY DEF Init, EmptyMemory, Contract!EmptyMemory
<1>4. pc = "idle" /\ share = 0
  BY DEF Init
<1> QED
  BY <1>2, <1>3, <1>4 DEF Contract!Init

(* Claims are deliveries, a run starts and finishes as promised, and       *)
(* everything else leaves the contract alone.                              *)
LEMMA NextContract == IInv /\ [Next]_vars => [Contract!Next]_Contract!vars
<1> SUFFICES ASSUME IInv, [Next]_vars PROVE [Contract!Next]_Contract!vars
  OBVIOUS
<1>1. Account /\ ShapeInv /\ CompleteInv /\ TypeOK /\ BudgetAccounting
  BY DEF IInv, Account
<1>2. ASSUME NEW budget \in Shares, NEW oldTeam \in config.oldTeams, BeginRun(budget, oldTeam)
      PROVE  Contract!Start
  <2>1. /\ pc = "idle" /\ pc' = "drain" /\ share' = budget /\ memory' = EmptyMemory
        /\ config' = config
    BY <1>2 DEF BeginRun
  <2>2. Mode' = Mode
    BY <2>1 DEF Mode
  <2> QED
    BY <2>1, <2>2 DEF Contract!Start, EmptyMemory, Contract!EmptyMemory
<1>3. CASE DrainOverflow \/ ClaimFlush
  <2>1. Delivers
    BY <1>1, <1>3, DrainDelivers, ClaimDelivers
  <2>2. UNCHANGED <<config, share>> /\ pc # "idle" /\ pc' # "idle"
    BY <1>3 DEF DrainOverflow, ClaimFlush, runVars
  <2> QED
    BY <1>1, <2>1, <2>2, DeliversContract
<1>4. CASE EndRun
  <2>1. /\ pc = "loop" /\ pc' = "idle" /\ ~WantsMore
        /\ UNCHANGED <<config, share, memory>>
    BY <1>4 DEF EndRun, runVars
  <2>2. Mode' = Mode
    BY <2>1 DEF Mode
  <2>3. remaining \in Nat /\ share \in Nat /\ Collected \in Nat
        /\ config.complete \in BOOLEAN /\ completed \in BOOLEAN
    BY <1>1, StateTypes DEF TypeOK
  <2>4. Collected >= share
    BY <1>1, <2>1, <2>3 DEF WantsMore, BudgetAccounting
  <2>5. Mode = "complete" => memory.rows # <<>>
    <3>1. Mode = "complete" => config.complete
      BY DEF Mode
    <3>2. config.complete => Collected > 0
      BY <1>1, <2>1 DEF WantsMore, CompleteInv
    <3> QED
      BY <3>1, <3>2 DEF Collected
  <2>6. ~Contract!Wanted(Mode, share, memory.rows)
    BY <2>3, <2>4, <2>5 DEF Contract!Wanted, Collected
  <2> QED
    BY <2>1, <2>2, <2>6 DEF Contract!Next, Contract!Finish
<1>5. ASSUME \/ \E g \in Games, ending \in Terminals : StepGame(g, ending)
             \/ DrainDone \/ Decide \/ ClaimDone \/ UNCHANGED vars
      PROVE  UNCHANGED Contract!vars
  <2>1. UNCHANGED <<config, share, memory>> /\ ((pc' # "idle") <=> (pc # "idle"))
    BY <1>5 DEF StepGame, DrainDone, Decide, ClaimDone, vars, envVars, runVars
  <2>2. Mode' = Mode
    BY <2>1 DEF Mode
  <2> QED
    BY <2>1, <2>2 DEF Contract!vars
<1> QED
  BY <1>2, <1>3, <1>4, <1>5 DEF Next, Run, Contract!Next

(* The collector implements PoolContract: it delivers whole closed         *)
(* segments only while they are wanted and fit the mode, and returns only  *)
(* when its share is reached.                                              *)
THEOREM CollectorImplements == Spec => ImplementsContract
<1>1. ImplementsContract <=> Contract!Init /\ [][Contract!Next]_Contract!vars
  BY DEF ImplementsContract, Contract!Spec
<1> QED
  BY InitIInv, NextIInv, InitContract, NextContract, <1>1, PTL DEF Spec

-----------------------------------------------------------------------------
(* Nothing is lost: rows on their way to the learner, by their             *)
(* observations.                                                           *)
Obs(rows) == [i \in DOMAIN rows |-> ObservationOf(rows[i])]

(* The observations of rows one after another. *)
LEMMA ObsConcat ==
    ASSUME NEW a \in Seq(Row), NEW b \in Seq(Row)
    PROVE  /\ Obs(a) \in Seq(Observation)
           /\ Obs(a \o b) = Obs(a) \o Obs(b)
<1>1. ASSUME NEW r \in Seq(Row)
      PROVE  /\ Obs(r) \in Seq(Observation) /\ Len(Obs(r)) = Len(r)
             /\ \A i \in 1..Len(r) : Obs(r)[i] = ObservationOf(r[i])
  <2>1. Len(r) \in Nat /\ DOMAIN r = 1..Len(r) /\ \A i \in 1..Len(r) : r[i] \in Row
    OBVIOUS
  <2>2. \A x \in Row : ObservationOf(x) \in Observation
    BY DEF Row, Observation, ObservationOf
  <2>3. Obs(r) = [i \in 1..Len(r) |-> ObservationOf(r[i])]
    BY <2>1 DEF Obs
  <2>4. \A i \in 1..Len(r) : ObservationOf(r[i]) \in Observation
    BY <2>1, <2>2
  <2> QED
    BY <2>1, <2>3, <2>4
<1>2. /\ a \o b \in Seq(Row) /\ Len(a \o b) = Len(a) + Len(b) /\ Len(a) \in Nat /\ Len(b) \in Nat
      /\ \A i \in 1..Len(a) + Len(b) :
            (a \o b)[i] = IF i <= Len(a) THEN a[i] ELSE b[i - Len(a)]
  BY ConcatProperties
<1> DEFINE ab == a \o b
           x == Obs(a)
           y == Obs(b)
<1>3. /\ x \in Seq(Observation) /\ y \in Seq(Observation) /\ Len(x) = Len(a) /\ Len(y) = Len(b)
      /\ \A i \in 1..Len(a) : x[i] = ObservationOf(a[i])
      /\ \A i \in 1..Len(b) : y[i] = ObservationOf(b[i])
  BY <1>1
<1>4. /\ Obs(ab) \in Seq(Observation) /\ Len(Obs(ab)) = Len(a) + Len(b)
      /\ \A i \in 1..Len(a) + Len(b) : Obs(ab)[i] = ObservationOf(ab[i])
  BY <1>1, <1>2
<1> HIDE DEF x, y
<1>5. /\ x \o y \in Seq(Observation) /\ Len(x \o y) = Len(a) + Len(b)
      /\ \A i \in 1..Len(a) + Len(b) :
            (x \o y)[i] = IF i <= Len(a) THEN x[i] ELSE y[i - Len(a)]
  <2>1. /\ x \o y \in Seq(Observation) /\ Len(x \o y) = Len(x) + Len(y)
        /\ \A i \in 1..Len(x) + Len(y) :
              (x \o y)[i] = IF i <= Len(x) THEN x[i] ELSE y[i - Len(x)]
    <3>1. x \in Seq(Observation) /\ y \in Seq(Observation)
      BY <1>3
    <3> QED
      BY <3>1, ConcatProperties
  <2> QED
    BY <1>3, <2>1
<1>6. \A i \in 1..Len(a) + Len(b) : Obs(ab)[i] = (x \o y)[i]
  <2> TAKE i \in 1..Len(a) + Len(b)
  <2>1. CASE i <= Len(a)
    <3>1. i \in 1..Len(a)
      BY <1>2, <2>1
    <3> QED
      BY <1>2, <1>3, <1>4, <1>5, <2>1, <3>1
  <2>2. CASE ~(i <= Len(a))
    <3>1. i - Len(a) \in 1..Len(b)
      BY <1>2, <2>2
    <3> QED
      BY <1>2, <1>3, <1>4, <1>5, <2>2, <3>1
  <2> QED
    BY <2>1, <2>2
<1>7. Obs(ab) = x \o y
  <2> HIDE DEF ab
  <2> DEFINE p == Obs(ab)
             q == x \o y
  <2>1. /\ p \in Seq(Observation) /\ q \in Seq(Observation) /\ Len(p) = Len(q)
        /\ \A i \in 1..Len(p) : p[i] = q[i]
    BY <1>4, <1>5, <1>6
  <2> HIDE DEF p, q
  <2>2. p = q
    BY <2>1, SeqEqual
  <2> QED
    BY <2>2 DEF p, q
<1> QED
  BY <1>3, <1>7 DEF x, y

(* One part of a stream after another. *)
Then(a, b) == a \o b

(* The parts may be grouped as one likes. *)
LEMMA ThenFacts ==
    \A a, b, c \in Seq(Observation) :
        /\ Then(a, b) \in Seq(Observation)
        /\ Then(Then(a, b), c) = Then(a, Then(b, c))
<1> SUFFICES ASSUME NEW a \in Seq(Observation), NEW b \in Seq(Observation),
                    NEW c \in Seq(Observation)
             PROVE  /\ Then(a, b) \in Seq(Observation)
                    /\ Then(Then(a, b), c) = Then(a, Then(b, c))
  OBVIOUS
<1>1. a \o b \in Seq(Observation)
  BY ConcatProperties
<1>2. (a \o b) \o c = a \o (b \o c)
  BY ConcatAssociative, SMTT(60)
<1> QED
  BY <1>1, <1>2 DEF Then

(* A part that goes from the back of one to the front of another. *)
LEMMA ThenRegroup ==
    \A a, b, c, d \in Seq(Observation) :
        Then(a, Then(Then(b, c), d)) = Then(Then(a, b), Then(c, d))
<1> SUFFICES ASSUME NEW a \in Seq(Observation), NEW b \in Seq(Observation),
                    NEW c \in Seq(Observation), NEW d \in Seq(Observation)
             PROVE  Then(a, Then(Then(b, c), d)) = Then(Then(a, b), Then(c, d))
  OBVIOUS
<1>1. Then(Then(b, c), d) = Then(b, Then(c, d)) /\ Then(c, d) \in Seq(Observation)
  BY ThenFacts
<1>2. Then(Then(a, b), Then(c, d)) = Then(a, Then(b, Then(c, d)))
  BY <1>1, ThenFacts
<1> QED
  BY <1>1, <1>2

(* The rows of trajectories one after another. *)
LEMMA RowsOfFacts ==
    /\ RowsOf(<<>>) = <<>>
    /\ \A t \in Trajectory : RowsOf(<<t>>) = t.rows /\ t.rows \in Seq(Row)
    /\ \A s \in Seq(Trajectory) : RowsOf(s) \in Seq(Row)
    /\ \A s, t \in Seq(Trajectory) : RowsOf(s \o t) = RowsOf(s) \o RowsOf(t)
<1> DEFINE All(s) == [i \in DOMAIN s |-> s[i].rows]
<1>1. \A t \in Trajectory : t.rows \in Seq(Row)
  BY DEF Trajectory
<1>2. ASSUME NEW s \in Seq(Trajectory)
      PROVE  /\ All(s) \in Seq(Seq(Row)) /\ Len(All(s)) = Len(s)
             /\ \A i \in 1..Len(s) : All(s)[i] = s[i].rows
  <2>1. Len(s) \in Nat /\ DOMAIN s = 1..Len(s) /\ \A i \in 1..Len(s) : s[i] \in Trajectory
    OBVIOUS
  <2>2. All(s) = [i \in 1..Len(s) |-> s[i].rows]
    BY <2>1
  <2>3. \A i \in 1..Len(s) : s[i].rows \in Seq(Row)
    BY <1>1, <2>1
  <2> HIDE DEF All
  <2> QED
    BY <2>1, <2>2, <2>3
<1>3. RowsOf(<<>>) = <<>>
  <2>1. All(<<>>) = <<>>
    OBVIOUS
  <2> QED
    BY <2>1, FlattenFew DEF RowsOf
<1>4. ASSUME NEW t \in Trajectory
      PROVE  RowsOf(<<t>>) = t.rows
  <2>1. All(<<t>>) = <<t.rows>>
    <3>1. DOMAIN <<t>> = 1..1 /\ <<t>>[1] = t
      OBVIOUS
    <3>2. All(<<t>>) = [i \in 1..1 |-> t.rows]
      BY <3>1
    <3> QED
      BY <3>2
  <2> QED
    BY <1>1, <2>1, FlattenFew DEF RowsOf
<1>5. ASSUME NEW s \in Seq(Trajectory)
      PROVE  RowsOf(s) \in Seq(Row)
  <2>1. All(s) \in Seq(Seq(Row))
    BY <1>2
  <2> HIDE DEF All
  <2>2. FlattenSeq(All(s)) \in Seq(Row)
    BY <2>1, FlattenFew
  <2> QED
    BY <2>2 DEF RowsOf, All
<1>6. ASSUME NEW s \in Seq(Trajectory), NEW t \in Seq(Trajectory)
      PROVE  RowsOf(s \o t) = RowsOf(s) \o RowsOf(t)
  <2>1. /\ s \o t \in Seq(Trajectory) /\ Len(s \o t) = Len(s) + Len(t)
        /\ Len(s) \in Nat /\ Len(t) \in Nat
        /\ \A i \in 1..Len(s) + Len(t) :
              (s \o t)[i] = IF i <= Len(s) THEN s[i] ELSE t[i - Len(s)]
    BY ConcatProperties
  <2> DEFINE st == s \o t
             x == All(s)
             y == All(t)
             z == All(st)
  <2>2. /\ x \in Seq(Seq(Row)) /\ Len(x) = Len(s) /\ \A i \in 1..Len(s) : x[i] = s[i].rows
        /\ y \in Seq(Seq(Row)) /\ Len(y) = Len(t) /\ \A i \in 1..Len(t) : y[i] = t[i].rows
    BY <1>2
  <2>3. /\ z \in Seq(Seq(Row)) /\ Len(z) = Len(s) + Len(t)
        /\ \A i \in 1..Len(s) + Len(t) : z[i] = st[i].rows
    BY <1>2, <2>1
  <2> HIDE DEF x, y, z, All
  <2>4. /\ x \o y \in Seq(Seq(Row)) /\ Len(x \o y) = Len(s) + Len(t)
        /\ \A i \in 1..Len(s) + Len(t) :
              (x \o y)[i] = IF i <= Len(s) THEN x[i] ELSE y[i - Len(s)]
    <3>1. /\ x \o y \in Seq(Seq(Row)) /\ Len(x \o y) = Len(x) + Len(y)
          /\ \A i \in 1..Len(x) + Len(y) :
                (x \o y)[i] = IF i <= Len(x) THEN x[i] ELSE y[i - Len(x)]
      <4>1. x \in Seq(Seq(Row)) /\ y \in Seq(Seq(Row))
        BY <2>2
      <4> QED
        BY ONLY <4>1, ConcatProperties
    <3> QED
      BY <2>2, <3>1
  <2>5. \A i \in 1..Len(s) + Len(t) : z[i] = (x \o y)[i]
    <3> TAKE i \in 1..Len(s) + Len(t)
    <3>1. CASE i <= Len(s)
      <4>1. i \in 1..Len(s)
        BY <2>1, <3>1
      <4> QED
        BY <2>1, <2>2, <2>3, <2>4, <3>1, <4>1
    <3>2. CASE ~(i <= Len(s))
      <4>1. i - Len(s) \in 1..Len(t)
        BY <2>1, <3>2
      <4> QED
        BY <2>1, <2>2, <2>3, <2>4, <3>2, <4>1
    <3> QED
      BY <3>1, <3>2
  <2>6. z = x \o y
    <3> DEFINE p == x \o y
    <3>1. /\ p \in Seq(Seq(Row)) /\ z \in Seq(Seq(Row)) /\ Len(p) = Len(z)
          /\ \A i \in 1..Len(p) : p[i] = z[i]
      BY <2>3, <2>4, <2>5
    <3> HIDE DEF p
    <3>2. p = z
      BY <3>1, SeqEqual
    <3> QED
      BY <3>2 DEF p
  <2>7. FlattenSeq(z) = FlattenSeq(x) \o FlattenSeq(y)
    BY <2>2, <2>6, FlattenConcat
  <2> QED
    BY <2>7 DEF RowsOf, x, y, z, All
<1> QED
  BY <1>1, <1>3, <1>4, <1>5, <1>6

(* Cutting a sequence in two. *)
LEMMA TwoParts ==
    ASSUME NEW S, NEW r \in Seq(S), NEW k \in 0..Len(r)
    PROVE  /\ SubSeq(r, 1, k) \in Seq(S) /\ SubSeq(r, k + 1, Len(r)) \in Seq(S)
           /\ SubSeq(r, 1, k) \o SubSeq(r, k + 1, Len(r)) = r
<1>1. Len(r) \in Nat /\ k \in Nat
  OBVIOUS
<1>2. 1 \in 1..Len(r) + 1 /\ k \in 1 - 1..Len(r) /\ Len(r) \in k..Len(r)
  BY <1>1
<1>3. SubSeq(r, 1, k) \o SubSeq(r, k + 1, Len(r)) = SubSeq(r, 1, Len(r))
  BY <1>2, ConcatAdjacentSubSeq
<1>4. SubSeq(r, 1, Len(r)) = r
  BY SubSeqFull
<1>5. SubSeq(r, 1, k) \in Seq(S) /\ SubSeq(r, k + 1, Len(r)) \in Seq(S)
  BY <1>1
<1> QED
  BY <1>3, <1>4, <1>5

(* A split of a trajectory is a split of its rows: the prefix goes to the  *)
(* memory, the rest is what overflows.                                     *)
LEMMA SplitStream ==
    ASSUME NEW m \in MemoryType, NEW t \in Trajectory, Closed(t),
           NEW claimed \in 0..Len(t.rows)
    PROVE  LET part == Partition(t, claimed, TRUE)
           IN  Obs(PushClaimed(m, part.claimed).rows) \o Obs(RowsOf(part.overflow))
                   = Obs(m.rows) \o Obs(t.rows)
<1> DEFINE n == Len(t.rows)
           part == Partition(t, claimed, TRUE)
           first == SubSeq(t.rows, 1, claimed)
           rest == SubSeq(t.rows, claimed + 1, n)
           after == PushClaimed(m, part.claimed).rows
           left == RowsOf(part.overflow)
<1>1. t.rows \in Seq(Row) /\ n \in Nat /\ claimed \in Nat /\ m.rows \in Seq(Row)
  BY DEF Trajectory, MemoryType
<1>2. first \in Seq(Row) /\ rest \in Seq(Row) /\ first \o rest = t.rows
  BY <1>1, TwoParts
<1>3. part.overflow = IF claimed < n THEN <<[rows |-> rest, next |-> t.next]>> ELSE <<>>
  BY DEF Partition
<1>4. left = rest
  <2>1. CASE claimed < n
    <3>1. [rows |-> rest, next |-> t.next] \in Trajectory
      BY <1>2 DEF Trajectory
    <3> QED
      BY <1>3, <2>1, <3>1, RowsOfFacts
  <2>2. CASE ~(claimed < n)
    <3>1. rest = <<>>
      BY <1>1, <2>2
    <3> QED
      BY <1>3, <2>2, <3>1, RowsOfFacts
  <2> QED
    BY <2>1, <2>2
<1>5. after \in Seq(Row) /\ Obs(after) = Obs(m.rows) \o Obs(first)
  <2>1. /\ part.claimed \in Option(Trajectory)
        /\ part.claimed = <<>> <=> claimed = 0
        /\ part.claimed # <<>> => /\ Pushable(part.claimed[1])
                                  /\ Len(part.claimed[1].rows) = claimed
    BY SplitClosed
  <2>2. CASE claimed = 0
    <3>1. after = m.rows
      BY <2>1, <2>2 DEF PushClaimed
    <3>2. first = <<>> /\ Obs(<<>>) = <<>>
      BY <1>1, <2>2 DEF Obs
    <3>3. Obs(m.rows) \in Seq(Observation)
      BY <1>1, ObsConcat
    <3> QED
      BY <1>1, <3>1, <3>2, <3>3, ConcatEmptySeq
  <2>3. CASE claimed # 0
    <3> DEFINE c == part.claimed[1]
               pushed == PushTraj(m, c)
    <3>1. c \in Trajectory /\ Pushable(c) /\ Len(c.rows) = claimed
      BY <2>1, <2>3, OptionFacts
    <3>2. after = pushed.rows
      BY <2>1, <2>3 DEF PushClaimed
    <3>3. c.rows = first
      <4>1. part.claimed = IF claimed = n THEN <<t>>
                           ELSE <<[rows |-> first,
                                   next |-> <<ObservationOf(t.rows[claimed + 1])>>]>>
        BY <2>3 DEF Partition
      <4>2. claimed = n => first = t.rows
        BY <1>1, SubSeqFull
      <4> HIDE DEF part, first
      <4>3. CASE claimed = n
        <5>1. c = t
          BY <4>1, <4>3
        <5> QED
          BY <4>2, <4>3, <5>1
      <4>4. CASE claimed # n
        <5>1. c = [rows |-> first, next |-> <<ObservationOf(t.rows[claimed + 1])>>]
          BY <4>1, <4>4
        <5> HIDE DEF c
        <5> QED
          BY <5>1
      <4> QED
        BY <4>3, <4>4
    <3> HIDE DEF c, pushed
    <3>4. Extends(pushed, m, c)
      BY <3>1, PushExtends DEF pushed
    <3> HIDE DEF first, after, part
    <3>5. /\ pushed.rows \in Seq(Row) /\ m.rows \o first \in Seq(Row)
          /\ Len(pushed.rows) = Len(m.rows) + claimed
          /\ Len(m.rows) \in Nat /\ Len(first) = claimed
      <4>1. pushed.rows \in Seq(Row) /\ Len(pushed.rows) = Len(m.rows) + claimed
        BY <3>1, <3>4 DEF Extends
      <4>2. m.rows \o first \in Seq(Row) /\ Len(m.rows) \in Nat
        BY <1>1, <1>2, ConcatProperties
      <4> QED
        BY <3>1, <3>3, <4>1, <4>2
    <3>6. /\ Len(m.rows \o first) = Len(m.rows) + claimed
          /\ \A i \in 1..Len(m.rows) + claimed :
                (m.rows \o first)[i] = IF i <= Len(m.rows) THEN m.rows[i]
                                       ELSE first[i - Len(m.rows)]
      <4>1. m.rows \in Seq(Row) /\ first \in Seq(Row)
        BY <1>1, <1>2
      <4>2. /\ Len(m.rows \o first) = Len(m.rows) + Len(first)
            /\ \A i \in 1..Len(m.rows) + Len(first) :
                  (m.rows \o first)[i] = IF i <= Len(m.rows) THEN m.rows[i]
                                         ELSE first[i - Len(m.rows)]
        BY <4>1, ConcatProperties
      <4> QED
        BY <3>5, <4>2
    <3>7. \A i \in 1..Len(m.rows) + claimed :
             ObservationOf(pushed.rows[i]) = ObservationOf((m.rows \o first)[i])
      <4> TAKE i \in 1..Len(m.rows) + claimed
      <4>1. CASE i <= Len(m.rows)
        <5>1. i \in 1..Len(m.rows)
          BY <3>5, <4>1
        <5> QED
          BY <3>4, <3>6, <4>1, <5>1 DEF Extends
      <4>2. CASE ~(i <= Len(m.rows))
        <5>1. PICK k \in 1..claimed : i = Len(m.rows) + k /\ k = i - Len(m.rows)
          <6>1. i - Len(m.rows) \in 1..claimed /\ i = Len(m.rows) + (i - Len(m.rows))
            BY <1>1, <3>5, <4>2
          <6> QED
            BY <6>1
        <5>2. (m.rows \o first)[i] = first[k]
          BY <3>6, <4>2, <5>1
        <5>3. ObservationOf(pushed.rows[Len(m.rows) + k]) = ObservationOf(c.rows[k])
          BY <3>1, <3>4, <5>1 DEF Extends
        <5> QED
          BY <3>3, <5>1, <5>2, <5>3
      <4> QED
        BY <4>1, <4>2
    <3>8. Obs(pushed.rows) = Obs(m.rows \o first)
      <4>1. /\ DOMAIN pushed.rows = 1..Len(m.rows) + claimed
            /\ DOMAIN (m.rows \o first) = 1..Len(m.rows) + claimed
        BY <3>5, <3>6, LenProperties
      <4> DEFINE p == pushed.rows
                 q == m.rows \o first
      <4>2. DOMAIN p = DOMAIN q /\ \A i \in DOMAIN p : ObservationOf(p[i]) = ObservationOf(q[i])
        BY <3>7, <4>1
      <4> HIDE DEF p, q
      <4>3. Obs(p) = Obs(q)
        BY <4>2 DEF Obs
      <4> QED
        BY <4>3 DEF p, q
    <3>9. Obs(m.rows \o first) = Obs(m.rows) \o Obs(first)
      BY <1>1, <1>2, ObsConcat
    <3> QED
      BY <3>2, <3>5, <3>8, <3>9
  <2> QED
    BY <2>2, <2>3
<1>6. Obs(t.rows) = Obs(first) \o Obs(rest)
  BY <1>2, ObsConcat
<1>7. Obs(m.rows) \in Seq(Observation) /\ Obs(first) \in Seq(Observation)
      /\ Obs(rest) \in Seq(Observation)
  BY <1>1, <1>2, ObsConcat
<1> HIDE DEF after, left, first, rest, part
<1>8. (Obs(m.rows) \o Obs(first)) \o Obs(rest) = Obs(m.rows) \o (Obs(first) \o Obs(rest))
  <2>1. Then(Then(Obs(m.rows), Obs(first)), Obs(rest))
          = Then(Obs(m.rows), Then(Obs(first), Obs(rest)))
    BY <1>7, ThenFacts
  <2> QED
    BY <2>1 DEF Then
<1> QED
  BY <1>4, <1>5, <1>6, <1>8 DEF after, left, part

(* The stream, from what it is made of. *)
StreamOf(m, queue, outcomes) ==
    LET rows == m.rows \o RowsOf(queue) \o RowsOf(FlattenSeq([p \in Players |-> outcomes[p]]))
    IN  [i \in DOMAIN rows |-> ObservationOf(rows[i])]

(* Its three parts. *)
LEMMA StreamParts ==
    ASSUME NEW m \in MemoryType, NEW queue \in Seq(Trajectory),
           NEW outcomes \in [Players -> Option(Trajectory)],
           FlattenSeq(outcomes) \in Seq(Trajectory)
    PROVE  /\ StreamOf(m, queue, outcomes)
                  = Obs(m.rows) \o (Obs(RowsOf(queue)) \o Obs(RowsOf(FlattenSeq(outcomes))))
           /\ Obs(m.rows) \in Seq(Observation) /\ Obs(RowsOf(queue)) \in Seq(Observation)
           /\ Obs(RowsOf(FlattenSeq(outcomes))) \in Seq(Observation)
<1> DEFINE a == m.rows
           b == RowsOf(queue)
           c == RowsOf(FlattenSeq(outcomes))
<1>1. a \in Seq(Row) /\ b \in Seq(Row) /\ c \in Seq(Row)
  BY RowsOfFacts DEF MemoryType
<1>2. [p \in Players |-> outcomes[p]] = outcomes
  OBVIOUS
<1> HIDE DEF a, b, c
<1>3. StreamOf(m, queue, outcomes) = Obs(a \o b \o c)
  BY <1>2 DEF StreamOf, Obs, a, b, c
<1>4. a \o b \in Seq(Row) /\ Obs(a \o b) = Obs(a) \o Obs(b)
  BY <1>1, ObsConcat, ConcatProperties
<1> DEFINE ab == a \o b
<1>5. ab \in Seq(Row) /\ Obs(ab) = Obs(a) \o Obs(b)
  BY <1>4
<1> HIDE DEF ab
<1>6. Obs(ab \o c) = Obs(ab) \o Obs(c)
  BY <1>1, <1>5, ObsConcat
<1>7. /\ Obs(a) \in Seq(Observation) /\ Obs(b) \in Seq(Observation)
      /\ Obs(c) \in Seq(Observation)
  BY <1>1, ObsConcat
<1> DEFINE x == Obs(a)
           y == Obs(b)
           z == Obs(c)
<1>8. x \in Seq(Observation) /\ y \in Seq(Observation) /\ z \in Seq(Observation)
  BY <1>7
<1> HIDE DEF x, y, z
<1>9. (x \o y) \o z = x \o (y \o z)
  <2>1. Then(Then(x, y), z) = Then(x, Then(y, z))
    BY <1>8, ThenFacts
  <2> QED
    BY <2>1 DEF Then
<1>10. Obs(ab \o c) = (x \o y) \o z
  BY <1>5, <1>6 DEF x, y, z
<1>11. StreamOf(m, queue, outcomes) = x \o (y \o z)
  BY <1>3, <1>9, <1>10 DEF ab
<1> QED
  BY <1>8, <1>11 DEF x, y, z, a, b, c

(* The outcomes of a decision, first the first player's. *)
LEMMA FirstFlushed ==
    ASSUME NEW outcomes \in [Players -> Option(Trajectory)],
           NEW p \in Players, outcomes[p] # <<>>,
           \A q \in Players : outcomes[q] # <<>> => p <= q
    PROVE  LET others == FlattenSeq([outcomes EXCEPT ![p] = <<>>])
           IN  others \in Seq(Trajectory) /\ FlattenSeq(outcomes) = outcomes[p] \o others
<1> DEFINE n == NumPlayers
           after == [outcomes EXCEPT ![p] = <<>>]
           before == SubSeq(outcomes, 1, p - 1)
           behind == SubSeq(outcomes, p + 1, n)
<1>1. n \in Nat /\ p \in 1..n /\ Players = 1..n /\ DOMAIN outcomes = 1..n
  BY BatchAssumption DEF Players
<1>2. ASSUME NEW f \in [Players -> Option(Trajectory)]
      PROVE  /\ f \in Seq(Seq(Trajectory)) /\ Len(f) = n
             /\ \A i \in 1..n : f[i] \in Seq(Trajectory)
  <2>1. \A i \in 1..n : f[i] \in Seq(Trajectory)
    BY <1>1 DEF Option
  <2>2. f \in [1..n -> Seq(Trajectory)]
    BY <1>1, <2>1
  <2> QED
    BY <1>1, <2>1, <2>2
<1>3. /\ outcomes \in Seq(Seq(Trajectory)) /\ Len(outcomes) = n
      /\ outcomes[p] \in Seq(Trajectory)
  BY <1>1, <1>2
<1>4. after \in [Players -> Option(Trajectory)]
  BY OptionFacts
<1>5. after \in Seq(Seq(Trajectory)) /\ Len(after) = n
  <2> HIDE DEF after
  <2> QED
    BY <1>2, <1>4
<1>6. ASSUME NEW f \in Seq(Seq(Trajectory)), Len(f) = n
      PROVE  /\ SubSeq(f, 1, p - 1) \in Seq(Seq(Trajectory))
             /\ SubSeq(f, p + 1, n) \in Seq(Seq(Trajectory))
             /\ FlattenSeq(f) = FlattenSeq(SubSeq(f, 1, p - 1))
                                \o (f[p] \o FlattenSeq(SubSeq(f, p + 1, n)))
  <2> DEFINE x == SubSeq(f, 1, p - 1)
             y == SubSeq(f, p, n)
             z == SubSeq(f, p + 1, n)
  <2>1. p - 1 \in 0..Len(f) /\ p - 1 + 1 = p
    BY <1>1, <1>6
  <2>2. x \in Seq(Seq(Trajectory)) /\ y \in Seq(Seq(Trajectory)) /\ x \o y = f
    BY <1>6, <2>1, TwoParts
  <2>3. y = <<f[p]>> \o z
    <3>1. p \in 1..Len(f) /\ n \in p..Len(f)
      BY <1>1, <1>6
    <3> QED
      BY <3>1, SubSeqRecursiveFirst
  <2>4. z \in Seq(Seq(Trajectory)) /\ <<f[p]>> \in Seq(Seq(Trajectory))
        /\ f[p] \in Seq(Trajectory)
    BY <1>1, <1>6
  <2> HIDE DEF x, y, z
  <2>5. FlattenSeq(x \o y) = FlattenSeq(x) \o FlattenSeq(y)
    BY <2>2, FlattenConcat
  <2>6. FlattenSeq(<<f[p]>> \o z) = FlattenSeq(<<f[p]>>) \o FlattenSeq(z)
    BY <2>4, FlattenConcat
  <2>7. FlattenSeq(<<f[p]>>) = f[p]
    BY <2>4, FlattenFew
  <2> QED
    BY <2>2, <2>3, <2>4, <2>5, <2>6, <2>7 DEF x, z
<1>7. /\ SubSeq(after, 1, p - 1) = before /\ SubSeq(after, p + 1, n) = behind
      /\ before \in Seq({<<>>})
  <2>1. \A i \in 1..(p - 1) : after[i] = outcomes[i] /\ outcomes[i] = <<>>
    <3> TAKE i \in 1..(p - 1)
    <3>1. i \in Players /\ ~(p <= i)
      BY <1>1
    <3> QED
      BY <3>1
  <2>2. \A i \in (p + 1)..n : after[i] = outcomes[i]
    BY <1>1
  <2> HIDE DEF after
  <2>3. before = [i \in 1..(p - 1) |-> <<>>] /\ SubSeq(after, 1, p - 1) = [i \in 1..(p - 1) |-> <<>>]
    BY <1>1, <1>3, <1>5, <2>1
  <2>4. SubSeq(after, p + 1, n) = behind
    BY <1>1, <1>3, <1>5, <2>2
  <2>5. [i \in 1..(p - 1) |-> <<>>] \in Seq({<<>>})
    BY <1>1
  <2> QED
    BY <2>3, <2>4, <2>5
<1>8. FlattenSeq(before) = <<>>
  BY <1>7, FlattenEmpties
<1>9. after[p] = <<>>
  BY <1>1
<1>10. behind \in Seq(Seq(Trajectory))
  BY <1>3, <1>6
<1>11. FlattenSeq(behind) \in Seq(Trajectory)
  BY <1>10, FlattenFew
<1>12. FlattenSeq(outcomes) = <<>> \o (outcomes[p] \o FlattenSeq(behind))
  BY <1>3, <1>6, <1>8
<1>13. FlattenSeq(after) = <<>> \o (<<>> \o FlattenSeq(behind))
  <2> HIDE DEF after, before, behind
  <2>1. FlattenSeq(after) = FlattenSeq(SubSeq(after, 1, p - 1))
                            \o (after[p] \o FlattenSeq(SubSeq(after, p + 1, n)))
    BY ONLY <1>5, <1>6
  <2> QED
    BY <1>7, <1>8, <1>9, <2>1
<1> HIDE DEF after, behind, before
<1>14. FlattenSeq(after) = FlattenSeq(behind)
  BY <1>11, <1>13, ConcatEmptySeq
<1>15. outcomes[p] \o FlattenSeq(behind) \in Seq(Trajectory)
  BY <1>3, <1>11, ConcatProperties
<1>16. FlattenSeq(outcomes) = outcomes[p] \o FlattenSeq(behind)
  BY <1>12, <1>15, ConcatEmptySeq
<1> QED
  BY <1>11, <1>14, <1>16 DEF after

-----------------------------------------------------------------------------
(* A collector goes on stepping its games only when nothing is left over   *)
(* or nothing wanted: leftovers are served first.                          *)
ServedFirst == pc \in {"loop", "step", "claim"} /\ overflow # <<>> => remaining = 0

(* What a claim leaves over is more than was wanted.                       *)
LEMMA GrantExhausts ==
    ASSUME TypeOK, BudgetAccounting, NEW steps \in Nat, Grant(steps) < steps
    PROVE  Minus(remaining, Grant(steps)) = 0
<1> DEFINE g == Grant(steps)
<1>1. /\ remaining \in Nat /\ share \in Nat /\ Collected \in Nat
      /\ config.overbatching \in BOOLEAN
  BY StateTypes DEF TypeOK
<1>2. g \in 0..steps /\ (remaining = 0 => g = 0)
  BY GrantFacts
<1>3. g >= remaining
  <2>1. CASE remaining = 0
    BY <1>2, <2>1
  <2>2. CASE remaining > 0
    <3>1. share > 0 /\ Minus(share, 1) \in Nat
      BY <1>1, <2>2, MinusNat DEF BudgetAccounting
    <3>2. g = IF config.overbatching THEN Least(steps, remaining + Minus(share, 1))
              ELSE Least(remaining, steps)
      BY <2>2 DEF Grant, ClaimOverbatch, ClaimAvailable
    <3> QED
      BY <1>1, <3>1, <3>2 DEF Least
  <2> QED
    BY <1>1, <2>1, <2>2
<1> HIDE DEF g
<1>4. Minus(remaining, g) = 0
  BY <1>1, <1>2, <1>3, MinusNat
<1> QED
  BY <1>4 DEF g

(* The steps of a trajectory that waits, and what is granted of them.      *)
LEMMA GrantOf ==
    ASSUME TypeOK, BudgetAccounting, NEW t \in Deliverable
    PROVE  /\ t \in Trajectory /\ Closed(t) /\ Len(t.rows) \in Nat \ {0}
           /\ Grant(Len(t.rows)) \in 0..Len(t.rows)
BY DeliverableFacts, GrantFacts

(* Every step keeps leftovers first: a claim that leaves something over     *)
(* leaves nothing wanted.                                                  *)
LEMMA NextServed ==
    ASSUME Account, ShapeInv, CompleteInv, ServedFirst, [Next]_vars
    PROVE  ServedFirst'
<1>1. TypeOK /\ BudgetAccounting /\ remaining \in Nat
  BY DEF Account, TypeOK
<1>2. CASE UNCHANGED vars
  BY <1>2 DEF ServedFirst, vars
<1>3. ASSUME NEW budget \in Shares, NEW oldTeam \in config.oldTeams, BeginRun(budget, oldTeam)
      PROVE  ServedFirst'
  BY <1>3 DEF BeginRun, ServedFirst
<1>4. CASE DrainOverflow
  <2> DEFINE t == Head(overflow)
             g == Grant(Len(t.rows))
  <2>1. t \in Deliverable
    BY <1>4, HeadTailProperties DEF DrainOverflow, ShapeInv
  <2>2. Len(t.rows) \in Nat \ {0} /\ g \in 0..Len(t.rows)
    BY <1>1, <2>1, GrantOf
  <2>3. remaining > 0 /\ pc' = IF g = 0 THEN "loop" ELSE "drain"
    BY <1>4 DEF DrainOverflow
  <2>4. g # 0
    <3>1. g = 0 => Minus(remaining, g) = 0
      BY <1>1, <2>2, GrantExhausts
    <3> HIDE DEF g
    <3> QED
      BY <1>1, <2>3, <3>1, MinusNat
  <2> QED
    BY <2>3, <2>4 DEF ServedFirst
<1>5. CASE DrainDone
  BY <1>5 DEF DrainDone, ServedFirst
<1>6. CASE Decide \/ EndRun \/ ClaimDone
  BY <1>6 DEF Decide, EndRun, ClaimDone, ServedFirst
<1>7. ASSUME NEW g \in Games, NEW ending \in Terminals, StepGame(g, ending)
      PROVE  ServedFirst'
  BY <1>7 DEF StepGame, ServedFirst
<1>8. CASE ClaimFlush
  <2>1. PICK p \in Unclaimed :
          IF config.complete THEN ClaimWhole(flushed[p][1]) ELSE ClaimPart(flushed[p][1])
    BY <1>8 DEF ClaimFlush
  <2>2. pc' = pc /\ pc = "claim"
    BY <1>8 DEF ClaimFlush
  <2>3. CASE config.complete
    BY <2>1, <2>3 DEF ClaimWhole, CompleteInv, ServedFirst
  <2>4. CASE ~config.complete
    <3> DEFINE t == flushed[p][1]
               g == Grant(Len(t.rows))
    <3>1. p \in Players /\ flushed[p] # <<>> /\ t \in Deliverable
      BY DEF Unclaimed, ShapeInv
    <3>2. Len(t.rows) \in Nat /\ g \in 0..Len(t.rows)
      BY <1>1, <3>1, GrantOf
    <3>3. /\ remaining' = Minus(remaining, g)
          /\ overflow' = overflow \o Partition(t, g, config.retain).overflow
      BY <2>1, <2>4 DEF ClaimPart
    <3>4. g < Len(t.rows) => remaining' = 0
      BY <1>1, <3>2, <3>3, GrantExhausts
    <3> HIDE DEF g
    <3>5. CASE g < Len(t.rows)
      BY <3>4, <3>5 DEF ServedFirst
    <3>6. CASE g = Len(t.rows)
      <4>1. Partition(t, g, config.retain).overflow = <<>>
        BY <3>2, <3>6 DEF Partition
      <4>2. overflow' = overflow
        BY <3>3, <4>1, ConcatEmptySeq DEF ShapeInv
      <4>3. remaining = 0 => remaining' = 0
        BY <1>1, <3>2, <3>3, MinusNat
      <4> QED
        BY <2>2, <4>2, <4>3 DEF ServedFirst
    <3> QED
      BY <3>2, <3>5, <3>6
  <2> QED
    BY <2>3, <2>4
<1> QED
  BY <1>2, <1>3, <1>4, <1>5, <1>6, <1>7, <1>8 DEF Next, Run

(* The outcomes of a decision are trajectories, one after another.         *)
LEMMA OutcomesTyped ==
    ASSUME NEW outcomes \in [Players -> Option(Trajectory)]
    PROVE  FlattenSeq(outcomes) \in Seq(Trajectory)
<1>1. NumPlayers \in Nat /\ Players = 1..NumPlayers
  BY BatchAssumption DEF Players
<1>2. \A i \in 1..NumPlayers : outcomes[i] \in Seq(Trajectory)
  BY <1>1 DEF Option
<1>3. outcomes \in [1..NumPlayers -> Seq(Trajectory)]
  BY <1>1, <1>2
<1>4. outcomes \in Seq(Seq(Trajectory))
  BY <1>1, <1>3
<1> QED
  BY <1>4, FlattenFew

(* The stream of a state, in its three parts.                              *)
LEMMA StreamNow ==
    ASSUME TypeOK
    PROVE  /\ Stream = Obs(memory.rows)
                       \o (Obs(RowsOf(overflow)) \o Obs(RowsOf(FlattenSeq(flushed))))
           /\ Obs(memory.rows) \in Seq(Observation)
           /\ Obs(RowsOf(overflow)) \in Seq(Observation)
           /\ Obs(RowsOf(FlattenSeq(flushed))) \in Seq(Observation)
           /\ memory \in MemoryType
<1>1. /\ memory \in MemoryType /\ overflow \in Seq(Trajectory)
      /\ flushed \in [Players -> Option(Trajectory)]
  BY DEF TypeOK, MemoryType
<1>2. FlattenSeq(flushed) \in Seq(Trajectory)
  BY <1>1, OutcomesTyped
<1>3. Stream = StreamOf(memory, overflow, flushed)
  BY DEF Stream, StreamOf
<1> QED
  BY <1>1, <1>2, <1>3, StreamParts

(* The stream of the next state. *)
LEMMA StreamNext ==
    ASSUME TypeOK'
    PROVE  /\ Stream' = Obs(memory'.rows)
                        \o (Obs(RowsOf(overflow')) \o Obs(RowsOf(FlattenSeq(flushed'))))
           /\ Obs(memory'.rows) \in Seq(Observation)
           /\ Obs(RowsOf(overflow')) \in Seq(Observation)
           /\ Obs(RowsOf(FlattenSeq(flushed'))) \in Seq(Observation)
<1>1. /\ memory' \in MemoryType /\ overflow' \in Seq(Trajectory)
      /\ flushed' \in [Players -> Option(Trajectory)]
  BY DEF TypeOK, MemoryType
<1>2. FlattenSeq(flushed') \in Seq(Trajectory)
  BY <1>1, OutcomesTyped
<1>3. Stream' = StreamOf(memory', overflow', flushed')
  BY DEF Stream, StreamOf
<1> QED
  BY <1>1, <1>2, <1>3, StreamParts

(* Leftovers and more of them, by their observations.                      *)
LEMMA ObsRows ==
    ASSUME NEW s \in Seq(Trajectory), NEW t \in Seq(Trajectory)
    PROVE  /\ Obs(RowsOf(s \o t)) = Obs(RowsOf(s)) \o Obs(RowsOf(t))
           /\ Obs(RowsOf(s)) \in Seq(Observation) /\ Obs(RowsOf(t)) \in Seq(Observation)
<1>1. RowsOf(s) \in Seq(Row) /\ RowsOf(t) \in Seq(Row) /\ RowsOf(s \o t) = RowsOf(s) \o RowsOf(t)
  BY RowsOfFacts
<1> QED
  BY <1>1, ObsConcat

(* Serving a leftover keeps the stream.                                    *)
LEMMA DrainKeepsStream ==
    ASSUME Account, Account', ShapeInv, DrainOverflow
    PROVE  Stream' = Stream
<1> DEFINE t == Head(overflow)
           rest == Tail(overflow)
           g == Grant(Len(t.rows))
           part == Partition(t, g, TRUE)
<1>1. TypeOK /\ TypeOK' /\ BudgetAccounting
  BY DEF Account
<1>2. /\ t \in Deliverable /\ rest \in Seq(Deliverable) /\ overflow = <<t>> \o rest
  BY HeadTailProperties DEF DrainOverflow, ShapeInv
<1>3. t \in Trajectory /\ Closed(t) /\ g \in 0..Len(t.rows)
  BY <1>1, <1>2, GrantOf
<1>4. <<t>> \in Seq(Trajectory) /\ rest \in Seq(Trajectory)
  BY <1>1, <1>3, HeadTailProperties DEF TypeOK, DrainOverflow
<1>5. /\ memory' = PushClaimed(memory, part.claimed)
      /\ overflow' = part.overflow \o rest /\ flushed' = flushed
  BY DEF DrainOverflow, Requeue
<1>6. part.overflow \in Seq(Trajectory)
  <2>1. part.overflow \in Option(Trajectory)
    BY <1>3, PartitionFacts
  <2> HIDE DEF part
  <2> QED
    BY <2>1, OptionFacts
<1> DEFINE a == Obs(memory.rows)
           b == Obs(t.rows)
           c == Obs(RowsOf(rest))
           d == Obs(RowsOf(FlattenSeq(flushed)))
           x == Obs(RowsOf(part.overflow))
           after == Obs(memory'.rows)
<1>7. after \o x = a \o b
  <2>1. memory \in MemoryType
    BY <1>1, StreamNow
  <2> QED
    BY <1>3, <1>5, <2>1, SplitStream
<1> HIDE DEF t, rest, part, g
<1>8. Obs(RowsOf(overflow)) = b \o c /\ b \in Seq(Observation) /\ c \in Seq(Observation)
  <2>1. RowsOf(<<t>>) = t.rows
    BY <1>3, RowsOfFacts
  <2> QED
    BY <1>2, <1>4, <2>1, ObsRows
<1>9. Obs(RowsOf(overflow')) = x \o c /\ x \in Seq(Observation)
  BY <1>4, <1>5, <1>6, ObsRows
<1>10. Stream = a \o ((b \o c) \o d) /\ a \in Seq(Observation) /\ d \in Seq(Observation)
  BY <1>1, <1>8, StreamNow
<1>11. Stream' = after \o ((x \o c) \o d) /\ after \in Seq(Observation)
  BY <1>1, <1>5, <1>9, StreamNext
<1> HIDE DEF a, b, c, d, x, after
<1>12. a \o ((b \o c) \o d) = (a \o b) \o (c \o d)
  <2>1. Then(a, Then(Then(b, c), d)) = Then(Then(a, b), Then(c, d))
    BY <1>8, <1>10, ThenRegroup
  <2> QED
    BY <2>1 DEF Then
<1>13. after \o ((x \o c) \o d) = (after \o x) \o (c \o d)
  <2>1. Then(after, Then(Then(x, c), d)) = Then(Then(after, x), Then(c, d))
    BY <1>8, <1>9, <1>10, <1>11, ThenRegroup
  <2> QED
    BY <2>1 DEF Then
<1> QED
  BY <1>7, <1>10, <1>11, <1>12, <1>13

(* Claiming a finished trajectory keeps the stream: while leftovers wait   *)
(* nothing is wanted, and the trajectory joins them at the back.           *)
LEMMA ClaimKeepsStream ==
    ASSUME Account, Account', ShapeInv, ServedFirst, ClaimFlush,
           ~config.complete, config.retain
    PROVE  Stream' = Stream
<1>1. TypeOK /\ TypeOK' /\ BudgetAccounting /\ remaining \in Nat /\ config.retain = TRUE
  BY DEF Account, TypeOK
<1>2. PICK p \in Unclaimed :
         /\ \A q \in Unclaimed : p <= q
         /\ ClaimPart(flushed[p][1])
         /\ flushed' = [flushed EXCEPT ![p] = <<>>]
  BY DEF ClaimFlush
<1> DEFINE t == flushed[p][1]
           g == Grant(Len(t.rows))
           part == Partition(t, g, TRUE)
           others == FlattenSeq([flushed EXCEPT ![p] = <<>>])
<1>3. p \in Players /\ flushed[p] # <<>> /\ t \in Deliverable
  BY DEF Unclaimed, ShapeInv
<1>4. /\ t \in Trajectory /\ Closed(t) /\ Len(t.rows) \in Nat \ {0}
      /\ g \in 0..Len(t.rows)
  BY <1>1, <1>3, GrantOf
<1>5. /\ memory' = PushClaimed(memory, part.claimed)
      /\ overflow' = overflow \o part.overflow
  BY <1>1, <1>2 DEF ClaimPart
<1>6. flushed[p] = <<t>>
  <2>1. flushed[p] \in Option(Trajectory)
    BY <1>1, <1>3 DEF TypeOK
  <2>2. flushed[p] \in Seq(Trajectory) /\ Len(flushed[p]) = 1
    BY <1>3, <2>1, OptionFacts
  <2> QED
    BY <2>2
<1>7. others \in Seq(Trajectory) /\ FlattenSeq(flushed) = <<t>> \o others
  <2>1. \A q \in Players : flushed[q] # <<>> => p <= q
    BY <1>2 DEF Unclaimed
  <2>2. flushed \in [Players -> Option(Trajectory)]
    BY <1>1 DEF TypeOK
  <2> QED
    BY <1>3, <1>6, <2>1, <2>2, FirstFlushed
<1>8. part.overflow \in Seq(Trajectory) /\ <<t>> \in Seq(Trajectory)
      /\ overflow \in Seq(Trajectory) /\ memory \in MemoryType
  <2>1. part.overflow \in Option(Trajectory)
    BY <1>4, PartitionFacts
  <2> HIDE DEF part, t
  <2> QED
    BY <1>1, <1>4, <2>1, OptionFacts, StreamNow DEF TypeOK
<1> DEFINE a == Obs(memory.rows)
           o == Obs(RowsOf(overflow))
           b == Obs(t.rows)
           d == Obs(RowsOf(others))
           x == Obs(RowsOf(part.overflow))
           after == Obs(memory'.rows)
<1>9. after \o x = a \o b
  BY <1>4, <1>5, <1>8, SplitStream
<1>10. remaining = 0 => after = a /\ x = b
  <2> SUFFICES ASSUME remaining = 0 PROVE after = a /\ x = b
    OBVIOUS
  <2>1. g = 0
    BY <1>1, <1>4, GrantFacts
  <2>2. part.claimed = <<>>
    <3> HIDE DEF g, t
    <3>1. part.claimed = <<>> <=> g = 0
      BY <1>4, SplitClosed
    <3> HIDE DEF part
    <3> QED
      BY <2>1, <3>1
  <2>3. memory' = memory
    BY <1>5, <2>2 DEF PushClaimed
  <2>4. part.overflow = <<[rows |-> SubSeq(t.rows, 1, Len(t.rows)), next |-> t.next]>>
    <3> HIDE DEF t, g
    <3>1. g < Len(t.rows) /\ g + 1 = 1
      BY <1>4, <2>1
    <3>2. part.overflow = IF g < Len(t.rows) /\ TRUE
                          THEN <<[rows |-> SubSeq(t.rows, g + 1, Len(t.rows)),
                                  next |-> t.next]>>
                          ELSE <<>>
      BY DEF Partition
    <3> HIDE DEF part
    <3> QED
      BY <3>1, <3>2
  <2>5. t.rows \in Seq(Row) /\ t.next \in Option(Observation)
    BY <1>4 DEF Trajectory
  <2>6. SubSeq(t.rows, 1, Len(t.rows)) = t.rows
    BY <2>5, SubSeqFull
  <2> DEFINE copy == [rows |-> t.rows, next |-> t.next]
  <2>7. copy \in Trajectory /\ copy.rows = t.rows
    BY <2>5 DEF Trajectory
  <2>8. part.overflow = <<copy>>
    BY <2>4, <2>6
  <2> HIDE DEF part, copy, t
  <2>9. RowsOf(part.overflow) = t.rows
    BY <2>7, <2>8, RowsOfFacts
  <2> QED
    BY <2>3, <2>9
<1>11. remaining # 0 => o = <<>>
  <2>1. pc = "claim"
    BY DEF ClaimFlush
  <2>2. remaining # 0 => overflow = <<>>
    BY <2>1 DEF ServedFirst
  <2>3. Obs(<<>>) = <<>>
    BY DEF Obs
  <2> QED
    BY <2>2, <2>3, RowsOfFacts
<1> HIDE DEF t, part, others, g
<1>12. Obs(RowsOf(FlattenSeq(flushed))) = b \o d /\ b \in Seq(Observation)
       /\ d \in Seq(Observation)
  <2>1. RowsOf(<<t>>) = t.rows
    BY <1>4, RowsOfFacts
  <2> QED
    BY <1>7, <1>8, <2>1, ObsRows
<1>13. Obs(RowsOf(overflow')) = o \o x /\ o \in Seq(Observation) /\ x \in Seq(Observation)
  BY <1>5, <1>8, ObsRows
<1>14. Stream = a \o (o \o (b \o d)) /\ a \in Seq(Observation)
  BY <1>1, <1>12, StreamNow
<1>15. Stream' = after \o ((o \o x) \o d) /\ after \in Seq(Observation)
  <2>1. FlattenSeq(flushed') = others
    BY <1>2 DEF others
  <2> QED
    BY <1>1, <1>13, <2>1, StreamNext
<1> HIDE DEF a, o, b, d, x, after
<1>16. CASE remaining = 0
  <2>1. (o \o b) \o d = o \o (b \o d)
    <3>1. Then(Then(o, b), d) = Then(o, Then(b, d))
      BY <1>12, <1>13, ThenFacts
    <3> QED
      BY <3>1 DEF Then
  <2> QED
    BY <1>10, <1>14, <1>15, <1>16, <2>1
<1>17. CASE remaining # 0
  <2>1. o = <<>>
    BY <1>11, <1>17
  <2>2. o \o x = x /\ o \o (b \o d) = b \o d
    <3>1. b \o d \in Seq(Observation)
      BY <1>12, ConcatProperties
    <3> DEFINE bd == b \o d
    <3> HIDE DEF bd
    <3>2. bd \in Seq(Observation) => o \o bd = bd
      BY <2>1, ConcatEmptySeq
    <3>3. o \o x = x
      BY <1>13, <2>1, ConcatEmptySeq
    <3> QED
      BY <3>1, <3>2, <3>3 DEF bd
  <2>3. (a \o b) \o d = a \o (b \o d)
    <3>1. Then(Then(a, b), d) = Then(a, Then(b, d))
      BY <1>12, <1>14, ThenFacts
    <3> QED
      BY <3>1 DEF Then
  <2>4. (after \o x) \o d = after \o (x \o d)
    <3>1. Then(Then(after, x), d) = Then(after, Then(x, d))
      BY <1>12, <1>13, <1>15, ThenFacts
    <3> QED
      BY <3>1 DEF Then
  <2> QED
    BY <1>9, <1>14, <1>15, <2>2, <2>3, <2>4
<1> QED
  BY <1>16, <1>17

(* What a step of the draining or the claiming loop must keep.             *)
Kept == pc \in {"drain", "claim"} /\ config.retain /\ ~config.complete => Stream' = Stream

(* Every step keeps it.                                                    *)
LEMMA StepKept ==
    ASSUME IInv, IInv', ServedFirst, [Next]_vars
    PROVE  Kept
<1> SUFFICES ASSUME pc \in {"drain", "claim"}, config.retain, ~config.complete
             PROVE  Stream' = Stream
  BY DEF Kept
<1>1. Account /\ Account' /\ ShapeInv
  BY DEF IInv
<1>2. DrainOverflow \/ ClaimFlush \/ DrainDone \/ ClaimDone \/ UNCHANGED vars
  BY DEF Next, Run, BeginRun, Decide, StepGame, EndRun
<1>3. CASE DrainOverflow
  BY <1>1, <1>3, DrainKeepsStream
<1>4. CASE ClaimFlush
  BY <1>1, <1>4, ClaimKeepsStream
<1>5. CASE DrainDone \/ ClaimDone \/ UNCHANGED vars
  <2>1. memory' = memory /\ overflow' = overflow /\ flushed' = flushed
    BY <1>5 DEF DrainDone, ClaimDone, vars
  <2>2. TypeOK /\ TypeOK'
    BY <1>1 DEF Account
  <2> QED
    BY <2>1, <2>2, StreamNow, StreamNext
<1> QED
  BY <1>2, <1>3, <1>4, <1>5

(* With retained overflow no claim loses, repeats or reorders a step.      *)
THEOREM StreamKept == Spec => NothingLost
<1> DEFINE Inv == IInv /\ ServedFirst
<1>1. Init => Inv
  BY InitIInv DEF Init, ServedFirst
<1>2. Inv /\ [Next]_vars => Inv'
  BY NextIInv, NextServed DEF IInv
<1>3. Inv /\ Inv' /\ [Next]_vars => [Kept]_vars
  BY StepKept
<1>4. NothingLost <=> [][Kept]_vars
  BY DEF NothingLost, Kept
<1> QED
  BY <1>1, <1>2, <1>3, <1>4, PTL DEF Spec
=============================================================================
