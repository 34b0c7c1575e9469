--------------------------- MODULE ScheduleProofs ---------------------------
(***************************************************************************)
(* Coalescing is sound and the block ranges are exact, for every program,  *)
(* buffer set and grid.                                                    *)
(*                                                                         *)
(* The safety properties of coalescing are about pairs of instructions;    *)
(* what makes them inductive is that the merged windows are unions of the  *)
(* given windows the loop is past, in order, each of them whole and none   *)
(* of them twice.  The ranges are partial sums of the shares: a window no  *)
(* instruction is in twice is cut where the sums climb past a block.       *)
(***************************************************************************)
EXTENDS Schedule, Sums, FiniteSetTheorems, TLAPS

\* The program and its windows are those of some input.
InputInv ==
  /\ \E in \in Inputs : prog = in.prog /\ given = in.windows
  /\ next \in 1 .. Len(given) + 1
  /\ windows \in Seq(Seq(1 .. Len(prog)))
  /\ phase \in {"coalesce", "ranges", "split", "check", "done", "failed", "aborted"}

\* What is placed comes from a window the loop is past, and no window twice.
FreshInv ==
  /\ \A v \in 1 .. Len(windows) : \A i \in Members(windows[v]) :
       \E x \in 1 .. Len(given) :
         i \in Members(given[x]) /\ (phase = "coalesce" => x < next)
  /\ \A v, u \in 1 .. Len(windows) : \A i \in Members(windows[v]) :
       i \in Members(windows[u]) => v = u

\* A window the loop is past is whole in one of the merged ones.
WholeInv ==
  \A x \in 1 .. Len(given) : phase # "coalesce" \/ x < next =>
    \E v \in 1 .. Len(windows) : Members(given[x]) \subseteq Members(windows[v])

\* Instructions emitted in order are in windows in order, or share one and do not clash.
ApartInv ==
  \A x, y \in 1 .. Len(given) : \A v, u \in 1 .. Len(windows) :
    \A i \in Members(given[x]), j \in Members(given[y]) :
      x < y /\ i \in Members(windows[v]) /\ j \in Members(windows[u]) =>
        v < u \/ (v = u /\ ~ Clash(i, j) /\ ~ Clash(j, i))

\* A window with an exchange op, or with two heavy instructions, is a given one.
AsGivenInv ==
  \A v \in 1 .. Len(windows) :
    HasXchg(windows[v]) \/ NHeavy(windows[v]) > 1 =>
      \E x \in 1 .. Len(given) : windows[v] = given[x]

\* What the lifetime check found.
CheckInv ==
  /\ phase = "failed" => \E v \in 1 .. Len(windows) : HasClash(windows[v])
  /\ phase = "done"   => \A v \in 1 .. Len(windows) : ~ HasClash(windows[v])

IInv ==
  InputInv /\ FreshInv /\ WholeInv /\ ApartInv /\ AsGivenInv /\ CheckInv

-----------------------------------------------------------------------------
\* The members of a concatenation are those of its parts.
LEMMA MembersConcat ==
  ASSUME NEW S, NEW u \in Seq(S), NEW v \in Seq(S)
  PROVE  Members(u \o v) = Members(u) \cup Members(v)
<1>1. ASSUME NEW k \in 1 .. Len(u \o v)
      PROVE  (u \o v)[k] \in Members(u) \cup Members(v)
  <2>1. CASE k <= Len(u)
    BY <2>1 DEF Members
  <2>2. CASE k > Len(u)
    <3>1. k - Len(u) \in 1 .. Len(v) /\ (u \o v)[k] = v[k - Len(u)]
      BY <2>2
    <3> QED BY <3>1 DEF Members
  <2> QED BY <2>1, <2>2
<1>2. ASSUME NEW k \in 1 .. Len(u)
      PROVE  u[k] \in Members(u \o v)
  <2>1. k \in 1 .. Len(u \o v) /\ (u \o v)[k] = u[k]
    OBVIOUS
  <2> QED BY <2>1 DEF Members
<1>3. ASSUME NEW k \in 1 .. Len(v)
      PROVE  v[k] \in Members(u \o v)
  <2>1. k + Len(u) \in 1 .. Len(u \o v) /\ (u \o v)[k + Len(u)] = v[k]
    OBVIOUS
  <2> QED BY <2>1 DEF Members
<1> QED BY <1>1, <1>2, <1>3 DEF Members

\* A sequence of elements of T is one over T.
LEMMA SeqRetype ==
  ASSUME NEW S, NEW T, NEW s \in Seq(S), \A k \in 1 .. Len(s) : s[k] \in T
  PROVE  s \in Seq(T)
OBVIOUS

\* Replacing one element of a sequence.
LEMMA SeqExcept ==
  ASSUME NEW T, NEW s \in Seq(T), NEW k \in 1 .. Len(s), NEW e \in T
  PROVE  /\ [s EXCEPT ![k] = e] \in Seq(T)
         /\ Len([s EXCEPT ![k] = e]) = Len(s)
         /\ [s EXCEPT ![k] = e][k] = e
         /\ \A m \in 1 .. Len(s) : m # k => [s EXCEPT ![k] = e][m] = s[m]
OBVIOUS

\* What the assumption on Inputs says of the state.
LEMMA InputFacts ==
  ASSUME InputInv
  PROVE  /\ prog \in Seq(Instruction)
         /\ given \in Seq(Seq(1 .. Len(prog)))
         /\ \A i \in 1 .. Len(prog) : \E x \in 1 .. Len(given) : i \in Members(given[x])
         /\ \A x, y \in 1 .. Len(given) : \A i \in Members(given[x]) :
              i \in Members(given[y]) => x = y
<1>1. PICK in \in Inputs : prog = in.prog /\ given = in.windows
  BY DEF InputInv
<1>2. prog \in Seq(Instruction) /\ given \in Seq(Seq(Nat)) /\ EachOnce(Len(prog), given)
  BY <1>1, ScheduleAssumption
<1>3. ASSUME NEW x \in 1 .. Len(given)
      PROVE  given[x] \in Seq(1 .. Len(prog))
  <2>1. given[x] \in Seq(Nat)
    BY <1>2
  <2>2. \A i \in Members(given[x]) : i \in 1 .. Len(prog)
    BY <1>2 DEF EachOnce
  <2>3. \A k \in 1 .. Len(given[x]) : given[x][k] \in 1 .. Len(prog)
    BY <2>2 DEF Members
  <2> QED BY <2>1, <2>3
<1>4. given \in Seq(Seq(1 .. Len(prog)))
  BY <1>2, <1>3, SeqRetype
<1>5. \A i \in 1 .. Len(prog) : \E x \in 1 .. Len(given) : i \in Members(given[x])
  BY <1>2 DEF EachOnce
<1>6. \A x, y \in 1 .. Len(given) : \A i \in Members(given[x]) :
        i \in Members(given[y]) => x = y
  BY <1>2 DEF EachOnce, Members
<1> QED BY <1>2, <1>4, <1>5, <1>6

-----------------------------------------------------------------------------
\* The initial states: nothing is placed.
LEMMA IInvInit ==
  ASSUME Init
  PROVE  IInv
<1>1. Len(given) \in Nat
  <2>1. PICK in \in Inputs : given = in.windows
    BY DEF Init
  <2> QED BY <2>1, ScheduleAssumption
<1>2. windows = <<>> /\ next = 1 /\ phase = "coalesce"
  BY DEF Init
<1>3. InputInv
  BY <1>1, <1>2 DEF Init, InputInv
<1>4. FreshInv /\ WholeInv /\ ApartInv /\ AsGivenInv /\ CheckInv
  BY <1>2 DEF FreshInv, WholeInv, ApartInv, AsGivenInv, CheckInv
<1> QED BY <1>3, <1>4 DEF IInv

\* What one turn of the coalescing loop does to the windows: it extends the last
\* one by the next given window or appends that.
LEMMA CoalesceStep ==
  ASSUME InputInv, Coalesce
  PROVE  /\ windows' \in Seq(Seq(1 .. Len(prog)))
         /\ Len(windows') \in {Len(windows), Len(windows) + 1} /\ Len(windows') > 0
         /\ \A v \in 1 .. Len(windows) :
              v # Len(windows') => windows'[v] = windows[v]
         /\ \/ /\ Len(windows') = Len(windows) + 1
               /\ windows'[Len(windows')] = given[next]
            \/ /\ Len(windows') = Len(windows)
               /\ MayMerge(windows[Len(windows)], given[next])
               /\ Members(windows'[Len(windows')])
                    = Members(windows[Len(windows)]) \cup Members(given[next])
<1> DEFINE n == Len(prog)
           g == given[next]
           L == Len(windows)
<1>1. windows \in Seq(Seq(1 .. n)) /\ L \in Nat
  BY DEF InputInv
<1>2. next \in 1 .. Len(given) /\ g \in Seq(1 .. n)
  BY InputFacts DEF InputInv, Coalesce
<1>3. CASE windows # <<>> /\ MayMerge(LastWindow, g)
  <2>1. L > 0 /\ windows[L] \in Seq(1 .. n)
    BY <1>1, <1>3
  <2>2. windows' = [windows EXCEPT ![L] = windows[L] \o g]
    BY <1>3 DEF Coalesce
  <2>3. windows[L] \o g \in Seq(1 .. n)
    BY <2>1, <1>2
  <2>4. /\ windows' \in Seq(Seq(1 .. n)) /\ Len(windows') = L
        /\ windows'[L] = windows[L] \o g
        /\ \A v \in 1 .. L : v # L => windows'[v] = windows[v]
    <3> HIDE DEF n, g
    <3> QED BY <1>1, <2>1, <2>2, <2>3, SeqExcept
  <2>5. Members(windows[L] \o g) = Members(windows[L]) \cup Members(g)
    BY <2>1, <1>2, MembersConcat
  <2> QED BY <1>1, <1>3, <2>1, <2>4, <2>5 DEF LastWindow
<1>4. CASE ~ (windows # <<>> /\ MayMerge(LastWindow, g))
  <2>1. windows' = Append(windows, g)
    BY <1>4 DEF Coalesce
  <2>2. windows' \in Seq(Seq(1 .. n))
    <3> HIDE DEF n, g
    <3>1. \A S : windows \in Seq(S) /\ g \in S => Append(windows, g) \in Seq(S)
      OBVIOUS
    <3> QED BY <1>1, <1>2, <2>1, <3>1
  <2>3. /\ Len(windows') = L + 1 /\ windows'[L + 1] = g
        /\ \A v \in 1 .. L : windows'[v] = windows[v]
    BY <1>1, <2>1
  <2> QED BY <1>1, <2>2, <2>3
<1> QED BY <1>3, <1>4

\* An instruction of the new windows was in the same window before, or is in the
\* last one and comes from the next given window.
LEMMA PlacedBefore ==
  ASSUME InputInv, Coalesce,
         NEW v \in 1 .. Len(windows'), NEW i \in Members(windows'[v])
  PROVE  \/ v \in 1 .. Len(windows) /\ i \in Members(windows[v])
         \/ v = Len(windows') /\ i \in Members(given[next])
<1>1. Len(windows) \in Nat
  BY DEF InputInv
<1>2. CASE v # Len(windows')
  BY <1>1, <1>2, CoalesceStep
<1>3. CASE v = Len(windows') /\ Len(windows') = Len(windows) + 1
  BY <1>1, <1>3, CoalesceStep
<1>4. CASE v = Len(windows') /\ Len(windows') = Len(windows)
  BY <1>1, <1>4, CoalesceStep
<1> QED BY <1>1, <1>2, <1>3, <1>4, CoalesceStep

\* Nothing placed is in the next given window.
LEMMA NextIsFresh ==
  ASSUME InputInv, FreshInv, Coalesce,
         NEW v \in 1 .. Len(windows), NEW i \in Members(windows[v])
  PROVE  i \notin Members(given[next])
<1>1. PICK x \in 1 .. Len(given) : i \in Members(given[x]) /\ x < next
  BY DEF FreshInv, Coalesce
<1>2. next \in 1 .. Len(given) /\ x # next
  BY <1>1 DEF InputInv, Coalesce
<1> QED BY <1>1, <1>2, InputFacts

LEMMA CoalesceFresh ==
  ASSUME IInv, Coalesce
  PROVE  FreshInv'
<1>0. InputInv /\ FreshInv /\ next \in 1 .. Len(given) /\ next' = next + 1
      /\ given' = given /\ phase' = phase /\ phase = "coalesce"
  BY DEF IInv, Coalesce, InputInv
<1>1. ASSUME NEW v \in 1 .. Len(windows'), NEW i \in Members(windows'[v])
      PROVE  \E x \in 1 .. Len(given) : i \in Members(given[x]) /\ x < next + 1
  <2>1. CASE v \in 1 .. Len(windows) /\ i \in Members(windows[v])
    <3>1. PICK x \in 1 .. Len(given) : i \in Members(given[x]) /\ x < next
      BY <1>0, <2>1 DEF FreshInv
    <3> QED BY <1>0, <3>1
  <2>2. CASE i \in Members(given[next])
    BY <1>0, <2>2
  <2> QED BY <1>0, <2>1, <2>2, PlacedBefore
<1>2. ASSUME NEW v \in 1 .. Len(windows'), NEW u \in 1 .. Len(windows'),
             NEW i \in Members(windows'[v]), i \in Members(windows'[u])
      PROVE  v = u
  <2>1. CASE i \in Members(given[next])
    BY <1>0, <1>2, <2>1, PlacedBefore, NextIsFresh
  <2>2. CASE i \notin Members(given[next])
    <3>1. /\ v \in 1 .. Len(windows) /\ i \in Members(windows[v])
          /\ u \in 1 .. Len(windows) /\ i \in Members(windows[u])
      BY <1>0, <1>2, <2>2, PlacedBefore
    <3> QED BY <1>0, <3>1 DEF FreshInv
  <2> QED BY <2>1, <2>2
<1>3. \A v \in 1 .. Len(windows)' : \A i \in Members(windows[v])' :
        \E x \in 1 .. Len(given)' :
          i \in Members(given[x])' /\ (phase' = "coalesce" => x < next')
  BY <1>0, <1>1 DEF Members
<1>4. \A v, u \in 1 .. Len(windows)' : \A i \in Members(windows[v])' :
        i \in Members(windows[u])' => v = u
  BY <1>2 DEF Members
<1> QED BY <1>3, <1>4 DEF FreshInv

LEMMA CoalesceWhole ==
  ASSUME IInv, Coalesce
  PROVE  WholeInv'
<1>0. InputInv /\ WholeInv /\ next \in 1 .. Len(given) /\ next' = next + 1
      /\ given' = given /\ phase' = "coalesce" /\ Len(windows) \in Nat
      /\ phase = "coalesce"
  BY DEF IInv, Coalesce, InputInv
<1>1. Members(given[next]) \subseteq Members(windows'[Len(windows')])
  BY <1>0, CoalesceStep
<1>2. ASSUME NEW v \in 1 .. Len(windows)
      PROVE  v \in 1 .. Len(windows') /\ Members(windows[v]) \subseteq Members(windows'[v])
  BY <1>0, CoalesceStep
<1>3. ASSUME NEW x \in 1 .. Len(given), x < next + 1
      PROVE  \E v \in 1 .. Len(windows') : Members(given[x]) \subseteq Members(windows'[v])
  <2>1. CASE x = next
    <3>1. Len(windows') \in 1 .. Len(windows')
      BY <1>0, CoalesceStep
    <3> QED BY <1>1, <2>1, <3>1
  <2>2. CASE x < next
    <3>1. PICK v \in 1 .. Len(windows) : Members(given[x]) \subseteq Members(windows[v])
      BY <1>0, <2>2 DEF WholeInv
    <3> QED BY <1>2, <3>1
  <2> QED BY <1>0, <1>3, <2>1, <2>2
<1>4. \A x \in 1 .. Len(given)' : (phase # "coalesce" \/ x < next)' =>
        \E v \in 1 .. Len(windows)' : Members(given[x])' \subseteq Members(windows[v])'
  BY <1>0, <1>3
<1> QED BY <1>4 DEF WholeInv

\* Instructions of windows that may merge do not clash, either way round.
LEMMA MergeNoClash ==
  ASSUME NEW u, NEW v, MayMerge(u, v), NEW i \in Members(u), NEW j \in Members(v)
  PROVE  ~ Clash(i, j) /\ ~ Clash(j, i)
<1>1. prog[i].w \subseteq Writes(u) /\ prog[i].r \subseteq Reads(u)
  BY DEF Writes, Reads
<1>2. prog[j].w \subseteq Writes(v) /\ prog[j].r \subseteq Reads(v)
  BY DEF Writes, Reads
<1> QED BY <1>1, <1>2 DEF MayMerge, Independent, Clash

LEMMA CoalesceApart ==
  ASSUME IInv, Coalesce
  PROVE  ApartInv'
<1>0. InputInv /\ FreshInv /\ ApartInv /\ next \in 1 .. Len(given)
      /\ given' = given /\ prog' = prog /\ phase = "coalesce" /\ Len(windows) \in Nat
  BY DEF IInv, Coalesce, InputInv
<1>1. ASSUME NEW x \in 1 .. Len(given), NEW y \in 1 .. Len(given),
             NEW v \in 1 .. Len(windows'), NEW u \in 1 .. Len(windows'),
             NEW i \in Members(given[x]), NEW j \in Members(given[y]),
             x < y, i \in Members(windows'[v]), j \in Members(windows'[u])
      PROVE  v < u \/ (v = u /\ ~ Clash(i, j) /\ ~ Clash(j, i))
  <2>1. CASE i \in Members(given[next])
    <3>1. x = next
      BY <1>0, <2>1, InputFacts
    <3>2. u \in 1 .. Len(windows) /\ j \in Members(windows[u])
      <4>1. j \notin Members(given[next])
        <5>1. SUFFICES ASSUME j \in Members(given[next])
                       PROVE  FALSE
          OBVIOUS
        <5>2. y = next
          BY <1>0, <5>1, InputFacts
        <5> QED BY <1>1, <3>1, <5>2
      <4> QED BY <1>0, <1>1, <4>1, PlacedBefore
    <3>3. PICK z \in 1 .. Len(given) : j \in Members(given[z]) /\ z < next
      BY <1>0, <3>2 DEF FreshInv
    <3>4. z = y
      BY <1>0, <3>3, InputFacts
    <3> QED BY <1>1, <3>1, <3>3, <3>4
  <2>2. CASE i \notin Members(given[next]) /\ j \in Members(given[next])
    <3>1. v \in 1 .. Len(windows) /\ i \in Members(windows[v])
      BY <1>0, <1>1, <2>2, PlacedBefore
    <3>2. u = Len(windows')
      BY <1>0, <1>1, <2>2, PlacedBefore, NextIsFresh
    <3>3. CASE v < u
      BY <3>3
    <3>4. CASE v = u
      <4>1. MayMerge(windows[v], given[next])
        BY <1>0, <3>1, <3>2, <3>4, CoalesceStep
      <4> QED BY <2>2, <3>1, <3>4, <4>1, MergeNoClash
    <3> QED BY <1>0, <3>1, <3>2, <3>3, <3>4, CoalesceStep
  <2>3. CASE i \notin Members(given[next]) /\ j \notin Members(given[next])
    <3>1. /\ v \in 1 .. Len(windows) /\ i \in Members(windows[v])
          /\ u \in 1 .. Len(windows) /\ j \in Members(windows[u])
      BY <1>0, <1>1, <2>3, PlacedBefore
    <3> QED BY <1>0, <1>1, <3>1 DEF ApartInv
  <2> QED BY <2>1, <2>2, <2>3
<1>2. \A i, j : Clash(i, j)' <=> Clash(i, j)
  BY <1>0 DEF Clash
<1>3. \A x, y \in 1 .. Len(given)' : \A v, u \in 1 .. Len(windows)' :
        \A i \in Members(given[x])', j \in Members(given[y])' :
          x < y /\ i \in Members(windows[v])' /\ j \in Members(windows[u])' =>
            v < u \/ (v = u /\ ~ Clash(i, j)' /\ ~ Clash(j, i)')
  BY <1>0, <1>1, <1>2
<1> QED BY <1>3 DEF ApartInv

\* The members of a window are finitely many: its cardinalities are numbers.
LEMMA HeavyFinite ==
  ASSUME NEW n \in Nat, NEW w \in Seq(1 .. n)
  PROVE  IsFiniteSet({i \in Members(w) : Heavy(i)})
<1>1. IsFiniteSet(1 .. n)
  BY FS_Interval
<1>2. {i \in Members(w) : Heavy(i)} \subseteq 1 .. n
  BY DEF Members
<1> QED BY <1>1, <1>2, FS_Subset

\* The heavy instructions of two windows together are at most as many as apart.
LEMMA HeavyUnion ==
  ASSUME NEW n \in Nat, NEW u \in Seq(1 .. n), NEW v \in Seq(1 .. n), NEW w,
         Members(w) = Members(u) \cup Members(v)
  PROVE  NHeavy(w) \in Nat /\ NHeavy(u) + NHeavy(v) >= NHeavy(w)
<1> DEFINE HU == {i \in Members(u) : Heavy(i)}
           HV == {i \in Members(v) : Heavy(i)}
<1>1. IsFiniteSet(HU) /\ IsFiniteSet(HV)
  BY HeavyFinite
<1>2. {i \in Members(w) : Heavy(i)} = HU \cup HV
  OBVIOUS
<1> HIDE DEF HU, HV
<1>3. IsFiniteSet(HU \cap HV) /\ IsFiniteSet(HU \cup HV)
  <2>1. HU \cap HV \in SUBSET HU
    OBVIOUS
  <2> QED BY <1>1, <2>1, FS_Subset, FS_Union
<1>4. Cardinality(HU \cup HV) = Cardinality(HU) + Cardinality(HV) - Cardinality(HU \cap HV)
  BY <1>1, FS_Union
<1>5. /\ Cardinality(HU) \in Nat /\ Cardinality(HV) \in Nat
      /\ Cardinality(HU \cap HV) \in Nat /\ Cardinality(HU \cup HV) \in Nat
  BY <1>1, <1>3, FS_CardinalityType
<1>6. Cardinality(HU \cup HV) \in Nat
      /\ Cardinality(HU) + Cardinality(HV) >= Cardinality(HU \cup HV)
  BY <1>4, <1>5
<1> QED BY <1>2, <1>6 DEF NHeavy, HU, HV

LEMMA CoalesceAsGiven ==
  ASSUME IInv, Coalesce
  PROVE  AsGivenInv'
<1>0. InputInv /\ AsGivenInv /\ next \in 1 .. Len(given)
      /\ given' = given /\ prog' = prog /\ Len(windows) \in Nat
      /\ windows \in Seq(Seq(1 .. Len(prog))) /\ Len(prog) \in Nat
  <2>1. Len(prog) \in Nat
    BY InputFacts DEF IInv
  <2> QED BY <2>1 DEF IInv, Coalesce, InputInv
<1>1. ASSUME NEW v \in 1 .. Len(windows'),
             HasXchg(windows'[v]) \/ NHeavy(windows'[v]) > 1
      PROVE  \E x \in 1 .. Len(given) : windows'[v] = given[x]
  <2>1. CASE v # Len(windows')
    <3>1. v \in 1 .. Len(windows) /\ windows'[v] = windows[v]
      <4>1. Len(windows') \in {Len(windows), Len(windows) + 1}
        BY <1>0, CoalesceStep
      <4>2. v \in 1 .. Len(windows)
        BY <1>0, <2>1, <4>1
      <4> QED BY <1>0, <2>1, <4>2, CoalesceStep
    <3> QED BY <1>0, <1>1, <3>1 DEF AsGivenInv
  <2>2. CASE v = Len(windows') /\ windows'[v] = given[next]
    BY <1>0, <2>2
  <2>3. CASE /\ v = Len(windows') /\ Len(windows') = Len(windows)
             /\ MayMerge(windows[v], given[next])
             /\ Members(windows'[v]) = Members(windows[v]) \cup Members(given[next])
    <3>1. windows[v] \in Seq(1 .. Len(prog)) /\ given[next] \in Seq(1 .. Len(prog))
      BY <1>0, <2>3, InputFacts
    <3>2. NHeavy(windows'[v]) \in Nat
          /\ NHeavy(windows[v]) + NHeavy(given[next]) >= NHeavy(windows'[v])
      BY <1>0, <2>3, <3>1, HeavyUnion
    <3>3. NHeavy(windows[v]) + NHeavy(given[next]) <= 1
      BY <2>3 DEF MayMerge, OneHeavy
    <3>4. ~ HasXchg(windows'[v])
      BY <2>3 DEF MayMerge, HasXchg
    <3>5. NHeavy(windows[v]) + NHeavy(given[next]) \in Int
      <4>1. \A w \in Seq(1 .. Len(prog)) : NHeavy(w) \in Nat
        BY <1>0, HeavyFinite, FS_CardinalityType DEF NHeavy
      <4> QED BY <3>1, <4>1
    <3> QED BY <1>1, <3>2, <3>3, <3>4, <3>5
  <2> QED BY <1>0, <2>1, <2>2, <2>3, CoalesceStep
<1>2. \A w : (HasXchg(w)' <=> HasXchg(w)) /\ NHeavy(w)' = NHeavy(w)
  BY <1>0 DEF HasXchg, NHeavy, Heavy
<1>3. \A v \in 1 .. Len(windows)' :
        HasXchg(windows[v])' \/ NHeavy(windows[v])' > 1 =>
          \E x \in 1 .. Len(given)' : windows[v]' = given[x]'
  BY <1>0, <1>1, <1>2
<1> QED BY <1>3 DEF AsGivenInv

-----------------------------------------------------------------------------
\* A step that leaves the windows alone, coalescing done or not.
LEMMA WindowsKept ==
  ASSUME IInv, UNCHANGED <<prog, given, next, windows>>,
         phase' \in {"coalesce", "ranges", "split", "check", "done", "failed", "aborted"},
         phase' = "coalesce" => phase = "coalesce",
         phase = "coalesce" /\ phase' # "coalesce" => next > Len(given)
  PROVE  (InputInv /\ FreshInv /\ WholeInv /\ ApartInv /\ AsGivenInv)'
<1>0. \A i, j : Clash(i, j)' <=> Clash(i, j)
  BY DEF Clash
<1>1. \A w : (HasXchg(w)' <=> HasXchg(w)) /\ NHeavy(w)' = NHeavy(w)
  BY DEF HasXchg, NHeavy, Heavy
<1>2. InputInv'
  BY DEF IInv, InputInv
<1>3. FreshInv'
  BY DEF IInv, FreshInv
<1>4. WholeInv'
  <2>1. ASSUME NEW x \in 1 .. Len(given), phase' # "coalesce" \/ x < next
        PROVE  phase # "coalesce" \/ x < next
    BY <2>1 DEF IInv, InputInv
  <2> QED BY <2>1 DEF IInv, WholeInv
<1>5. ApartInv'
  <2>1. ApartInv /\ given' = given /\ windows' = windows
    BY DEF IInv
  <2>2. \A x, y \in 1 .. Len(given) : \A v, u \in 1 .. Len(windows) :
          \A i \in Members(given[x]), j \in Members(given[y]) :
            x < y /\ i \in Members(windows[v]) /\ j \in Members(windows[u]) =>
              v < u \/ (v = u /\ ~ Clash(i, j)' /\ ~ Clash(j, i)')
    <3> TAKE x, y \in 1 .. Len(given)
    <3> TAKE v, u \in 1 .. Len(windows)
    <3> TAKE i \in Members(given[x]), j \in Members(given[y])
    <3> HAVE x < y /\ i \in Members(windows[v]) /\ j \in Members(windows[u])
    <3>1. v < u \/ (v = u /\ ~ Clash(i, j) /\ ~ Clash(j, i))
      BY <2>1 DEF ApartInv
    <3>2. (Clash(i, j)' <=> Clash(i, j)) /\ (Clash(j, i)' <=> Clash(j, i))
      BY <1>0
    <3> QED BY <3>1, <3>2
  <2> QED BY <2>1, <2>2 DEF ApartInv
<1>6. AsGivenInv'
  BY <1>1 DEF IInv, AsGivenInv
<1> QED BY <1>2, <1>3, <1>4, <1>5, <1>6

\* Without coalescing the windows are the given ones.
LEMMA NoCoalesceKeeps ==
  ASSUME IInv, NoCoalesce
  PROVE  IInv'
<1>0. /\ InputInv /\ windows' = given /\ given' = given /\ prog' = prog
      /\ next' = next /\ phase' = "ranges"
  BY DEF IInv, NoCoalesce
<1>1. \A x, y \in 1 .. Len(given) : \A i \in Members(given[x]) :
        i \in Members(given[y]) => x = y
  BY <1>0, InputFacts
<1>2. InputInv'
  BY <1>0, InputFacts DEF InputInv
<1>3. FreshInv'
  BY <1>0, <1>1 DEF FreshInv
<1>4. WholeInv'
  BY <1>0 DEF WholeInv
<1>5. ApartInv'
  <2>1. ASSUME NEW x \in 1 .. Len(given), NEW y \in 1 .. Len(given),
               NEW v \in 1 .. Len(windows'), NEW u \in 1 .. Len(windows'),
               NEW i \in Members(given[x]), NEW j \in Members(given[y]),
               x < y, i \in Members(windows'[v]), j \in Members(windows'[u])
        PROVE  v < u
    <3>1. v = x /\ u = y
      BY <1>0, <1>1, <2>1
    <3> QED BY <2>1, <3>1
  <2>2. \A x, y \in 1 .. Len(given)' : \A v, u \in 1 .. Len(windows)' :
          \A i \in Members(given[x])', j \in Members(given[y])' :
            x < y /\ i \in Members(windows[v])' /\ j \in Members(windows[u])' => v < u
    <3>1. given' = given
      BY <1>0
    <3> QED BY <2>1, <3>1
  <2> QED BY <2>2 DEF ApartInv
<1>6. AsGivenInv'
  BY <1>0 DEF AsGivenInv
<1>7. CheckInv'
  BY <1>0 DEF CheckInv
<1> QED BY <1>2, <1>3, <1>4, <1>5, <1>6, <1>7 DEF IInv

\* The other steps: only the lifetime check says something about the windows.
LEMMA RestKeeps ==
  ASSUME IInv,
         Coalesced \/ WholeGrid \/ BeginSplit \/ TooWide \/ Adjust \/ EndSplit \/ Ranged
           \/ CheckLifetimes \/ UNCHANGED vars
  PROVE  IInv'
<1>0. UNCHANGED <<prog, given, next, windows>>
  BY DEF Coalesced, WholeGrid, BeginSplit, TooWide, Adjust, EndSplit, Ranged,
         CheckLifetimes, vars
<1>1. /\ phase' \in {"coalesce", "ranges", "split", "check", "done", "failed", "aborted"}
      /\ phase' = "coalesce" => phase = "coalesce"
      /\ phase = "coalesce" /\ phase' # "coalesce" => next > Len(given)
  BY DEF IInv, InputInv, Coalesced, WholeGrid, BeginSplit, TooWide, Adjust, EndSplit,
         Ranged, CheckLifetimes, vars
<1>2. (InputInv /\ FreshInv /\ WholeInv /\ ApartInv /\ AsGivenInv)'
  BY <1>0, <1>1, WindowsKept
<1>3. \A w : HasClash(w)' <=> HasClash(w)
  BY <1>0 DEF HasClash, Clash
<1>4. CheckInv'
  <2>1. CASE CheckLifetimes
    BY <1>0, <1>3, <2>1 DEF CheckLifetimes, CheckInv
  <2>2. CASE ~ CheckLifetimes
    <3>1. phase' \notin {"failed", "done"} \/ phase' = phase
      BY <2>2 DEF Coalesced, WholeGrid, BeginSplit, TooWide, Adjust, EndSplit, Ranged, vars
    <3> QED BY <1>0, <1>3, <3>1 DEF IInv, CheckInv
  <2> QED BY <2>1, <2>2
<1> QED BY <1>2, <1>4 DEF IInv

LEMMA CoalesceKeeps ==
  ASSUME IInv, Coalesce
  PROVE  IInv'
<1>1. InputInv'
  BY CoalesceStep DEF IInv, InputInv, Coalesce
<1>2. CheckInv'
  BY DEF IInv, CheckInv, Coalesce
<1> QED BY <1>1, <1>2, CoalesceFresh, CoalesceWhole, CoalesceApart, CoalesceAsGiven DEF IInv

\* The invariant of the schedule compiler's back end (compile_schedule.py:773-830)
\* holds in every reachable state, for every program, buffer set and grid.
THEOREM Invariance == Spec => []IInv
<1>1. Init => IInv
  BY IInvInit
<1>2. IInv /\ [Next]_vars => IInv'
  BY CoalesceKeeps, NoCoalesceKeeps, RestKeeps DEF Next, Compile, Terminated
<1> QED BY <1>1, <1>2, PTL DEF Spec

-----------------------------------------------------------------------------
\* A placed instruction is in one of the windows, and only there.
LEMMA WindowOfPlaced ==
  ASSUME IInv, NEW i, NEW v \in 1 .. Len(windows), i \in Members(windows[v])
  PROVE  WindowOf(windows, i) = v
BY DEF IInv, FreshInv, WindowOf

LEMMA WindowOfGiven ==
  ASSUME IInv, NEW i, NEW x \in 1 .. Len(given), i \in Members(given[x])
  PROVE  WindowOf(given, i) = x
<1>1. \A y \in 1 .. Len(given) : i \in Members(given[y]) => y = x
  BY InputFacts DEF IInv
<1> QED BY <1>1 DEF WindowOf

\* Clashing instructions emitted a boundary apart keep a boundary between them and
\* stay in order (the union test of the coalescing pass, compile_schedule.py:758-780).
THEOREM DependentStayApartHolds == Spec => []DependentStayApart
<1>1. ASSUME IInv
      PROVE  DependentStayApart
  <2>1. SUFFICES ASSUME NEW i \in 1 .. Len(prog), NEW j \in 1 .. Len(prog),
                        Placed(i), Placed(j), WindowOf(given, i) < WindowOf(given, j),
                        Clash(i, j) \/ Clash(j, i)
                 PROVE  WindowOf(windows, i) < WindowOf(windows, j)
    BY DEF DependentStayApart
  <2>2. PICK v \in 1 .. Len(windows) : i \in Members(windows[v])
    BY <2>1 DEF Placed
  <2>3. PICK u \in 1 .. Len(windows) : j \in Members(windows[u])
    BY <2>1 DEF Placed
  <2>4. PICK x \in 1 .. Len(given) : i \in Members(given[x])
    BY <1>1, InputFacts DEF IInv
  <2>5. PICK y \in 1 .. Len(given) : j \in Members(given[y])
    BY <1>1, InputFacts DEF IInv
  <2>6. /\ WindowOf(windows, i) = v /\ WindowOf(windows, j) = u
        /\ WindowOf(given, i) = x /\ WindowOf(given, j) = y
    BY <1>1, <2>2, <2>3, <2>4, <2>5, WindowOfPlaced, WindowOfGiven
  <2>7. x < y
    BY <2>1, <2>6
  <2>8. v < u \/ (v = u /\ ~ Clash(i, j) /\ ~ Clash(j, i))
    BY <1>1, <2>2, <2>3, <2>4, <2>5, <2>7 DEF IInv, ApartInv
  <2> QED BY <2>1, <2>6, <2>8
<1> QED BY <1>1, Invariance, PTL

\* A window with an exchange op is a window as emitted (compile_schedule.py:742-744).
THEOREM XchgKeepsItsBoundaryHolds == Spec => []XchgKeepsItsBoundary
<1>1. ASSUME IInv
      PROVE  XchgKeepsItsBoundary
  <2>1. SUFFICES ASSUME NEW i \in 1 .. Len(prog), Placed(i), prog[i].xchg
                 PROVE  windows[WindowOf(windows, i)] = given[WindowOf(given, i)]
    BY DEF XchgKeepsItsBoundary
  <2>2. PICK v \in 1 .. Len(windows) : i \in Members(windows[v])
    BY <2>1 DEF Placed
  <2>3. HasXchg(windows[v])
    BY <2>1, <2>2 DEF HasXchg
  <2>4. PICK x \in 1 .. Len(given) : windows[v] = given[x]
    BY <1>1, <2>3 DEF IInv, AsGivenInv
  <2>5. WindowOf(windows, i) = v /\ WindowOf(given, i) = x
    BY <1>1, <2>2, <2>4, WindowOfPlaced, WindowOfGiven
  <2> QED BY <2>4, <2>5
<1> QED BY <1>1, Invariance, PTL

\* A merge never puts two heavy instructions in a window (compile_schedule.py:735-740).
THEOREM HeavyKeepTheirGridHolds == Spec => []HeavyKeepTheirGrid
<1>1. IInv => HeavyKeepTheirGrid
  BY DEF IInv, AsGivenInv, HeavyKeepTheirGrid
<1> QED BY <1>1, Invariance, PTL

\* Two instructions of a merged window that clash are of one given window.
LEMMA ClashWasGiven ==
  ASSUME IInv, NEW v \in 1 .. Len(windows), HasClash(windows[v])
  PROVE  \E x \in 1 .. Len(given) : HasClash(given[x])
<1>1. PICK i, j \in Members(windows[v]) : i # j /\ Clash(i, j)
  BY DEF HasClash
<1>2. PICK x \in 1 .. Len(given) : i \in Members(given[x])
  BY DEF IInv, FreshInv
<1>3. PICK y \in 1 .. Len(given) : j \in Members(given[y])
  BY DEF IInv, FreshInv
<1>4. ~ (x < y)
  <2>1. SUFFICES ASSUME x < y
                 PROVE  FALSE
    OBVIOUS
  <2>2. v < v \/ ~ Clash(i, j)
    BY <1>1, <1>2, <1>3, <2>1 DEF IInv, ApartInv
  <2> QED BY <1>1, <2>2
<1>5. ~ (y < x)
  <2>1. SUFFICES ASSUME y < x
                 PROVE  FALSE
    OBVIOUS
  <2>2. v < v \/ ~ Clash(i, j)
    BY <1>1, <1>2, <1>3, <2>1 DEF IInv, ApartInv
  <2> QED BY <1>1, <2>2
<1>6. x = y
  BY <1>4, <1>5
<1> QED BY <1>1, <1>2, <1>3, <1>6 DEF HasClash

\* The lifetime check (compile_schedule.py:816-830) fails for a window the emitters
\* wrote, never for a merge, and what it lets through has no clash.
THEOREM ChecksTheEmittersHolds == Spec => []ChecksTheEmitters
<1>1. ASSUME IInv
      PROVE  ChecksTheEmitters
  <2>1. phase = "failed" => \E x \in 1 .. Len(given) : HasClash(given[x])
    BY <1>1, ClashWasGiven DEF IInv, CheckInv
  <2>2. ASSUME phase = "done", NEW x \in 1 .. Len(given), HasClash(given[x])
        PROVE  FALSE
    <3>1. PICK v \in 1 .. Len(windows) : Members(given[x]) \subseteq Members(windows[v])
      BY <1>1, <2>2 DEF IInv, WholeInv
    <3>2. HasClash(windows[v])
      BY <2>2, <3>1 DEF HasClash
    <3> QED BY <1>1, <2>2, <3>2 DEF IInv, CheckInv
  <2> QED BY <2>1, <2>2 DEF ChecksTheEmitters
<1> QED BY <1>1, Invariance, PTL

-----------------------------------------------------------------------------
(***************************************************************************)
(* The block ranges.                                                       *)
(***************************************************************************)
\* No window holds an instruction twice.
OnceInv ==
  \A v \in 1 .. Len(windows) : \A k, m \in 1 .. Len(windows[v]) :
    windows[v][k] = windows[v][m] => k = m

\* The ranges r give every block exactly one instruction of window w, and every
\* instruction of it a block.
Exact(w, r) ==
  /\ \A b \in 0 .. GRID-1 :
       Cardinality({i \in Members(w) : r[i][1] <= b /\ b < r[i][2]}) = 1
  /\ \A i \in Members(w) : r[i][1] < r[i][2]

\* Inside split_grid the window is no wider than the grid, and every instruction of
\* it has a block at least and the grid at most.
SplitInv ==
  IF phase = "split"
  THEN /\ at <= Len(windows) /\ Len(Window) <= GRID
       /\ share \in [1 .. Len(Window) -> 1 .. GRID]
       /\ turn \in 0 .. Len(Window) - 1
  ELSE share = <<>> /\ turn = 0

\* The windows the loop is past have their ranges.
RangeInv ==
  /\ at \in 1 .. Len(windows) + 1
  /\ phase = "coalesce" => at = 1
  /\ phase \in {"check", "done", "failed"} => at > Len(windows)
  /\ range \in [1 .. Len(prog) -> (0 .. GRID) \X (0 .. GRID)]
  /\ \A v \in 1 .. at - 1 : Exact(windows[v], range)

GInv == OnceInv /\ SplitInv /\ RangeInv
-----------------------------------------------------------------------------
\* A staircase: L climbs by s[k] at step k.
Climbs(L, s, n) ==
  /\ L \in [1 .. n + 1 -> Nat] /\ L[1] = 0
  /\ \A k \in 1 .. n : L[k + 1] = L[k] + s[k]

LEMMA ClimbsUp ==
  ASSUME NEW n \in Nat, NEW s \in [1 .. n -> Nat], NEW L, Climbs(L, s, n),
         NEW j \in 1 .. n + 1
  PROVE  \A k \in j .. n + 1 : L[j] <= L[k]
<1> DEFINE N == {d \in Nat : j + d <= n + 1 => L[j] <= L[j + d]}
<1>1. L \in [1 .. n + 1 -> Nat]
  BY DEF Climbs
<1>2. 0 \in N
  BY <1>1
<1>3. ASSUME NEW d \in Nat, d \in N
      PROVE  d + 1 \in N
  <2>1. ASSUME j + (d + 1) <= n + 1
        PROVE  L[j] <= L[j + (d + 1)]
    <3> DEFINE k == j + d
    <3>1. k \in 1 .. n /\ k + 1 = j + (d + 1) /\ k + 1 \in 1 .. n + 1
      BY <2>1
    <3>2. L[j] <= L[k]
      BY <1>3, <3>1
    <3> HIDE DEF k
    <3>3. L[k + 1] = L[k] + s[k] /\ s[k] \in Nat
      BY <3>1 DEF Climbs
    <3>4. L[j] \in Nat /\ L[k] \in Nat
      BY <1>1, <3>1
    <3> QED
      BY <3>1, <3>2, <3>3, <3>4
  <2> QED
    BY <2>1
<1> HIDE DEF N
<1>4. \A d \in Nat : d \in N
  BY <1>2, <1>3, SetOfNaturals
<1>5. ASSUME NEW k \in j .. n + 1
      PROVE  L[j] <= L[k]
  <2>1. k - j \in Nat /\ j + (k - j) = k /\ k <= n + 1
    OBVIOUS
  <2>2. k - j \in N
    BY <1>4, <2>1
  <2> QED
    BY <2>1, <2>2 DEF N
<1> QED
  BY <1>5

\* Every number below the top is on one step.
LEMMA ClimbsPast ==
  ASSUME NEW n \in Nat, NEW s \in [1 .. n -> Nat], NEW L, Climbs(L, s, n),
         NEW b \in Nat, b < L[n + 1]
  PROVE  \E k \in 1 .. n : L[k] <= b /\ b < L[k] + s[k]
<1> DEFINE N == {m \in Nat : m <= n /\ b < L[m + 1] => \E k \in 1 .. n : L[k] <= b /\ b < L[k] + s[k]}
<1>1. 0 \in N
  BY DEF Climbs
<1>2. ASSUME NEW m \in Nat, m \in N
      PROVE  m + 1 \in N
  <2>1. ASSUME m + 1 <= n, b < L[(m + 1) + 1]
        PROVE  \E k \in 1 .. n : L[k] <= b /\ b < L[k] + s[k]
    <3>1. m + 1 \in 1 .. n /\ m + 1 \in 1 .. n + 1 /\ m <= n
      BY <2>1
    <3>2. L[(m + 1) + 1] = L[m + 1] + s[m + 1] /\ L[m + 1] \in Nat
      BY <3>1 DEF Climbs
    <3>3. CASE b < L[m + 1]
      BY <1>2, <3>1, <3>3
    <3>4. CASE ~ (b < L[m + 1])
      <4>1. L[m + 1] <= b /\ b < L[m + 1] + s[m + 1]
        BY <2>1, <3>2, <3>4
      <4> QED
        BY <3>1, <4>1
    <3> QED
      BY <3>3, <3>4
  <2> QED
    BY <2>1
<1> HIDE DEF N
<1>3. \A m \in Nat : m \in N
  BY <1>1, <1>2, SetOfNaturals
<1>4. n \in N
  BY <1>3
<1> QED
  BY <1>4 DEF N

\* ... and on no other.
LEMMA ClimbsOnce ==
  ASSUME NEW n \in Nat, NEW s \in [1 .. n -> Nat], NEW L, Climbs(L, s, n),
         NEW b \in Nat, NEW k \in 1 .. n, NEW m \in 1 .. n,
         L[k] <= b, b < L[k] + s[k], L[m] <= b, b < L[m] + s[m]
  PROVE  k = m
<1>1. ASSUME NEW i \in 1 .. n, NEW j \in 1 .. n, b < L[i] + s[i], L[j] <= b
      PROVE  ~ (i < j)
  <2>1. SUFFICES ASSUME i < j PROVE FALSE
    OBVIOUS
  <2>2. i + 1 \in 1 .. n + 1 /\ j \in i + 1 .. n + 1 /\ j \in 1 .. n + 1
    BY <2>1
  <2>3. L[i + 1] <= L[j]
    BY <2>2, ClimbsUp
  <2>4. L[i + 1] = L[i] + s[i] /\ L[i + 1] \in Nat /\ L[j] \in Nat
    BY <2>2 DEF Climbs
  <2> QED
    BY <1>1, <2>3, <2>4
<1> QED
  BY <1>1

\* Adjacent ranges of the lengths s, of which there are GRID blocks in all, are exact.
LEMMA AdjacentIsExact ==
  ASSUME NEW n \in Nat, NEW w, Len(w) = n, NEW s \in [1 .. n -> Nat \ {0}], NEW L,
         Climbs(L, s, n), L[n + 1] = GRID, NEW r,
         \A k, m \in 1 .. n : w[k] = w[m] => k = m,
         \A k \in 1 .. n : r[w[k]] = <<L[k], L[k] + s[k]>>
  PROVE  Exact(w, r)
<1>1. GRID \in Nat /\ s \in [1 .. n -> Nat]
  BY ScheduleAssumption
<1>2. \A i \in Members(w) : \E k \in 1 .. n : i = w[k]
  BY DEF Members
<1>3. \A k \in 1 .. n : w[k] \in Members(w) /\ r[w[k]][1] = L[k] /\ r[w[k]][2] = L[k] + s[k]
  BY DEF Members
<1>4. ASSUME NEW b \in 0 .. GRID-1
      PROVE  Cardinality({i \in Members(w) : r[i][1] <= b /\ b < r[i][2]}) = 1
  <2>1. b \in Nat /\ b < L[n + 1]
    BY <1>1
  <2>2. PICK k \in 1 .. n : L[k] <= b /\ b < L[k] + s[k]
    BY <1>1, <2>1, ClimbsPast
  <2>3. ASSUME NEW i \in Members(w), r[i][1] <= b, b < r[i][2]
        PROVE  i = w[k]
    <3>1. PICK m \in 1 .. n : i = w[m]
      BY <1>2
    <3>2. L[m] <= b /\ b < L[m] + s[m]
      BY <1>3, <2>3, <3>1
    <3>3. k = m
      BY <1>1, <2>1, <2>2, <3>2, ClimbsOnce
    <3> QED
      BY <3>1, <3>3
  <2>4. {i \in Members(w) : r[i][1] <= b /\ b < r[i][2]} = {w[k]}
    BY <1>3, <2>2, <2>3
  <2> QED
    BY <2>4, FS_Singleton
<1>5. ASSUME NEW i \in Members(w)
      PROVE  r[i][1] < r[i][2]
  <2>1. PICK k \in 1 .. n : i = w[k]
    BY <1>2
  <2>2. L[k] \in Nat /\ s[k] \in Nat \ {0}
    BY DEF Climbs
  <2> QED
    BY <1>3, <2>1, <2>2
<1> QED
  BY <1>4, <1>5 DEF Exact

\* What is exact stays so when the ranges of the window do not change.
LEMMA ExactSame ==
  ASSUME NEW w, NEW r, NEW q, Exact(w, r), \A i \in Members(w) : q[i] = r[i]
  PROVE  Exact(w, q)
<1>1. ASSUME NEW b \in 0 .. GRID-1
      PROVE  {i \in Members(w) : q[i][1] <= b /\ b < q[i][2]}
               = {i \in Members(w) : r[i][1] <= b /\ b < r[i][2]}
  OBVIOUS
<1> QED
  BY <1>1 DEF Exact

-----------------------------------------------------------------------------
\* The estimates of a window are numbers, and none is above their total.
EstAdds(g, S) ==
  g = [s \in SUBSET S |-> IF s = {} THEN 0 ELSE prog[FirstOf(s)].est + g[s \ {FirstOf(s)}]]

LEMMA TotalIsChosen ==
  Total = (CHOOSE g : EstAdds(g, Members(Window)))[Members(Window)]
BY DEF Total, MapThenSumSet, MapThenFoldSet, EstAdds, FirstOf

LEMMA TotalIsSum ==
  ASSUME IsFiniteSet(Members(Window))
  PROVE  Total = SumOf([i \in Members(Window) |-> prog[i].est], Members(Window))
<1> DEFINE S == Members(Window)
           e == [i \in S |-> prog[i].est]
           h == CHOOSE g : EstAdds(g, S)
<1>1. ASSUME NEW g, NEW s \in SUBSET S
      PROVE  StepOf(e, g, s) = IF s = {} THEN 0 ELSE prog[FirstOf(s)].est + g[s \ {FirstOf(s)}]
  <2>1. CASE s = {}
    BY <2>1 DEF StepOf
  <2>2. CASE s # {}
    <3>1. FirstOf(s) \in S
      BY <2>2, FirstIn
    <3>2. e[FirstOf(s)] = prog[FirstOf(s)].est
      BY <3>1
    <3> HIDE DEF e
    <3> QED
      BY <2>2, <3>2 DEF StepOf
  <2> QED
    BY <2>1, <2>2
<1> HIDE DEF S, e
<1>2. \A g : Adds(g, e, S) <=> EstAdds(g, S)
  BY <1>1 DEF Adds, EstAdds
<1>3. EstAdds(h, S)
  <2>1. \E g : EstAdds(g, S)
    BY <1>2, AddsExists DEF S
  <2> QED
    BY <2>1
<1>4. Total = h[S]
  BY TotalIsChosen DEF S
<1> HIDE DEF h
<1>5. SumOf(e, S) = h[S]
  BY <1>2, <1>3, SumOfAdds DEF S
<1> QED
  BY <1>4, <1>5 DEF S, e

\* The first share of an instruction of a window: a block at least, the grid at most.
LEMMA QuotientBound ==
  ASSUME NEW g \in Nat, NEW e \in Nat, NEW t \in Nat \ {0}, e <= t
  PROVE  (g * e) \div t \in Int /\ (g * e) \div t <= g
<1> DEFINE a == g * e
           q == a \div t
           r == a % t
<1>1. a \in Nat /\ a <= t * g
  <2>1. t * g = g * e + g * (t - e) /\ g * (t - e) \in Nat /\ g * e \in Nat
    BY SMTT(30)
  <2> QED
    BY <2>1
<1> HIDE DEF a
<1>2. q \in Nat /\ r \in Nat /\ a = t * q + r
  BY <1>1, SMTT(30)
<1> HIDE DEF q, r
<1>3. ASSUME q > g PROVE FALSE
  <2>1. t * q = t * g + t * (q - g) /\ t * (q - g) \in Nat \ {0} /\ t * g \in Nat
    BY <1>2, <1>3, SMTT(30)
  <2> QED
    BY <1>1, <1>2, <2>1
<1> QED
  BY <1>2, <1>3 DEF q, a

LEMMA MembersFinite ==
  ASSUME NEW n \in Nat, NEW w \in Seq(1 .. n)
  PROVE  IsFiniteSet(Members(w)) /\ Members(w) \subseteq 1 .. n
<1>1. Members(w) \subseteq 1 .. n
  BY DEF Members
<1> QED
  BY <1>1, FS_Interval, FS_Subset

LEMMA FirstShareBounds ==
  ASSUME prog \in Seq(Instruction), Window \in Seq(1 .. Len(prog)), NEW i \in Members(Window)
  PROVE  FirstShare(i) \in 1 .. GRID
<1> DEFINE S == Members(Window)
           e == [j \in S |-> prog[j].est]
<1>1. IsFiniteSet(S) /\ S \subseteq 1 .. Len(prog)
  BY MembersFinite
<1>2. \A j \in S : prog[j].est \in Nat \ {0}
  <2>1. \A j \in 1 .. Len(prog) : prog[j] \in Instruction
    OBVIOUS
  <2>2. \A in \in Instruction : in.est \in Nat \ {0}
    BY DEF Instruction
  <2> QED
    BY <1>1, <2>1, <2>2
<1>3. \A j \in S : e[j] \in Nat
  BY <1>2
<1>4. Total = SumOf(e, S)
  BY <1>1, TotalIsSum
<1>5. e[i] = prog[i].est /\ i \in S
  OBVIOUS
<1> HIDE DEF e, S
<1>6. Total \in Nat /\ prog[i].est <= Total
  BY <1>1, <1>3, <1>4, <1>5, SumBounds
<1>7. prog[i].est \in Nat \ {0} /\ Total \in Nat \ {0} /\ GRID \in Nat \ {0}
  BY <1>2, <1>5, <1>6, ScheduleAssumption
<1> DEFINE q == (GRID * prog[i].est) \div Total
<1>8. q \in Int /\ q <= GRID
  BY <1>6, <1>7, QuotientBound
<1>9. FirstShare(i) = IF q > 1 THEN q ELSE 1
  BY DEF FirstShare
<1> HIDE DEF q
<1> QED
  BY <1>7, <1>8, <1>9

\* The shares of a split, and the blocks before a position, are sums of share.
LEMMA SharesIsSum ==
  /\ Shares = SumOf(share, DOMAIN share)
  /\ \A k : Lo(k) = SumOf(share, 1 .. k - 1)
BY DEF Shares, Lo, SumOf

LEMMA AdjustedBounds ==
  ASSUME NEW n \in Nat, share \in [1 .. n -> 1 .. GRID], Shares # GRID, NEW k \in 1 .. n
  PROVE  Adjusted(k) \in 1 .. GRID
<1>1. GRID \in Nat /\ IsFiniteSet(1 .. n) /\ \A m \in 1 .. n : share[m] \in Nat
  <2>1. GRID \in Nat /\ IsFiniteSet(1 .. n)
    BY FS_Interval, ScheduleAssumption
  <2>2. \A m \in 1 .. n : share[m] \in 1 .. GRID
    OBVIOUS
  <2> QED
    BY <2>1, <2>2
<1>2. Shares = SumOf(share, 1 .. n)
  BY SharesIsSum
<1>3. Shares \in Nat /\ share[k] <= Shares
  BY <1>1, <1>2, SumBounds
<1>4. share[k] \in 1 .. GRID
  OBVIOUS
<1> QED
  BY <1>1, <1>3, <1>4 DEF Adjusted

\* The blocks before the positions of a split window make a staircase.
LEMMA LoClimbs ==
  ASSUME NEW n \in Nat, share \in [1 .. n -> 1 .. GRID]
  PROVE  /\ Climbs([k \in 1 .. n + 1 |-> Lo(k)], share, n)
         /\ Lo(n + 1) = Shares
<1>1. GRID \in Nat /\ IsFiniteSet(1 .. n) /\ \A m \in 1 .. n : share[m] \in Nat
  <2>1. GRID \in Nat /\ IsFiniteSet(1 .. n)
    BY FS_Interval, ScheduleAssumption
  <2>2. \A m \in 1 .. n : share[m] \in 1 .. GRID
    OBVIOUS
  <2> QED
    BY <2>1, <2>2
<1>2. Lo(n + 1) = Shares
  <2>1. 1 .. (n + 1) - 1 = DOMAIN share
    OBVIOUS
  <2> QED
    BY <2>1, SharesIsSum
<1>3. Lo(1) = 0
  <2>1. 1 .. 1 - 1 = {}
    OBVIOUS
  <2> QED
    BY <2>1, SharesIsSum, SumEmpty
<1>4. ASSUME NEW k \in 1 .. n + 1
      PROVE  Lo(k) \in Nat
  <2>1. IsFiniteSet(1 .. k - 1)
    BY FS_Interval
  <2>2. \A m \in 1 .. k - 1 : share[m] \in Nat
    BY <1>1
  <2> QED
    BY <2>1, <2>2, SharesIsSum, SumNat
<1>5. ASSUME NEW k \in 1 .. n
      PROVE  Lo(k + 1) = Lo(k) + share[k]
  <2>1. IsFiniteSet(1 .. k) /\ \A m \in 1 .. k : share[m] \in Int
    BY <1>1, FS_Interval
  <2>2. k \in 1 .. k /\ (1 .. k) \ {k} = 1 .. k - 1 /\ (k + 1) - 1 = k
    OBVIOUS
  <2>3. SumOf(share, 1 .. k) = share[k] + SumOf(share, 1 .. k - 1)
    BY <2>1, <2>2, SumSplit
  <2>4. Lo(k + 1) = SumOf(share, 1 .. k) /\ Lo(k) = SumOf(share, 1 .. k - 1)
    BY <2>2, SharesIsSum
  <2>5. Lo(k) \in Nat /\ share[k] \in Nat
    BY <1>1, <1>4
  <2> QED
    BY <2>3, <2>4, <2>5
<1> QED
  BY <1>2, <1>3, <1>4, <1>5 DEF Climbs

-----------------------------------------------------------------------------
(***************************************************************************)
(* What the steps do to the ranges.                                        *)
(***************************************************************************)
\* No given window holds an instruction twice.
LEMMA GivenOnce ==
  ASSUME InputInv, NEW x \in 1 .. Len(given), NEW k \in 1 .. Len(given[x]),
         NEW m \in 1 .. Len(given[x]), given[x][k] = given[x][m]
  PROVE  k = m
<1>1. PICK in \in Inputs : prog = in.prog /\ given = in.windows
  BY DEF InputInv
<1>2. EachOnce(Len(prog), given)
  BY <1>1, ScheduleAssumption
<1> QED
  BY <1>2 DEF EachOnce

LEMMA WindowLen ==
  ASSUME IInv, NEW v \in 1 .. Len(windows)
  PROVE  Len(windows[v]) \in Nat /\ windows[v] \in Seq(1 .. Len(prog))
BY DEF IInv, InputInv

\* Positions of a concatenation.
LEMMA ConcatOnce ==
  ASSUME NEW S, NEW u \in Seq(S), NEW v \in Seq(S),
         \A k, m \in 1 .. Len(u) : u[k] = u[m] => k = m,
         \A k, m \in 1 .. Len(v) : v[k] = v[m] => k = m,
         \A i \in Members(u) : i \notin Members(v)
  PROVE  \A k, m \in 1 .. Len(u \o v) : (u \o v)[k] = (u \o v)[m] => k = m
<1> DEFINE c == u \o v
<1>1. Len(u) \in Nat /\ Len(v) \in Nat /\ Len(c) = Len(u) + Len(v)
  OBVIOUS
<1>2. ASSUME NEW k \in 1 .. Len(c)
      PROVE  \/ k \in 1 .. Len(u) /\ c[k] = u[k] /\ c[k] \in Members(u)
             \/ k - Len(u) \in 1 .. Len(v) /\ c[k] = v[k - Len(u)] /\ c[k] \in Members(v)
  <2>1. CASE k <= Len(u)
    BY <1>1, <2>1 DEF Members
  <2>2. CASE k > Len(u)
    <3>1. k - Len(u) \in 1 .. Len(v) /\ c[k] = v[k - Len(u)]
      BY <1>1, <2>2
    <3> QED
      BY <3>1 DEF Members
  <2> QED
    BY <1>1, <2>1, <2>2
<1> HIDE DEF c
<1>3. ASSUME NEW k \in 1 .. Len(c), NEW m \in 1 .. Len(c), c[k] = c[m]
      PROVE  k = m
  <2>1. CASE c[k] \in Members(u)
    BY <1>2, <1>3, <2>1
  <2>2. CASE c[k] \notin Members(u)
    <3>1. /\ k - Len(u) \in 1 .. Len(v) /\ c[k] = v[k - Len(u)]
          /\ m - Len(u) \in 1 .. Len(v) /\ c[m] = v[m - Len(u)]
      BY <1>2, <1>3, <2>2
    <3>2. k - Len(u) = m - Len(u)
      BY <1>3, <3>1
    <3> QED
      BY <1>1, <3>2
  <2> QED
    BY <2>1, <2>2
<1> QED
  BY <1>3 DEF c

LEMMA CoalesceOnce ==
  ASSUME IInv, OnceInv, Coalesce
  PROVE  OnceInv'
<1> DEFINE g == given[next]
           W == Len(windows)
<1>1. InputInv /\ FreshInv /\ next \in 1 .. Len(given) /\ W \in Nat
      /\ windows \in Seq(Seq(1 .. Len(prog)))
  BY DEF IInv, InputInv, Coalesce
<1>2. g \in Seq(1 .. Len(prog)) /\ \A k, m \in 1 .. Len(g) : g[k] = g[m] => k = m
  BY <1>1, InputFacts, GivenOnce
<1>3. \A v \in 1 .. W : \A k, m \in 1 .. Len(windows[v]) : windows[v][k] = windows[v][m] => k = m
  BY DEF OnceInv
<1>4. \A v \in 1 .. W : \A i \in Members(windows[v]) : i \notin Members(g)
  BY <1>1, NextIsFresh
<1> HIDE DEF g
<1>5. CASE windows # <<>> /\ MayMerge(LastWindow, g)
  <2>1. W \in 1 .. W /\ windows[W] \in Seq(1 .. Len(prog))
    BY <1>1, <1>5
  <2> DEFINE c == windows[W] \o g
  <2>2. \A k, m \in 1 .. Len(c) : c[k] = c[m] => k = m
    BY <1>2, <1>3, <1>4, <2>1, ConcatOnce
  <2>3. windows' = [windows EXCEPT ![W] = c]
    BY <1>5 DEF Coalesce, g
  <2>4. c \in Seq(1 .. Len(prog))
    BY <1>2, <2>1
  <2> HIDE DEF c
  <2> DEFINE ws == windows'
  <2>5. Len(ws) = W /\ ws[W] = c /\ \A v \in 1 .. W : v # W => ws[v] = windows[v]
    BY <1>1, <2>1, <2>3, <2>4, SeqExcept
  <2> HIDE DEF ws
  <2>6. \A v \in 1 .. Len(ws) : \A k, m \in 1 .. Len(ws[v]) : ws[v][k] = ws[v][m] => k = m
    <3> TAKE v \in 1 .. Len(ws)
    <3>1. CASE v = W
      BY <2>2, <2>5, <3>1
    <3>2. CASE v # W
      <4>1. v \in 1 .. W /\ ws[v] = windows[v]
        BY <2>5, <3>2
      <4> QED
        BY <1>3, <4>1
    <3> QED
      BY <3>1, <3>2
  <2> QED
    BY <2>6 DEF OnceInv, ws
<1>6. CASE ~ (windows # <<>> /\ MayMerge(LastWindow, g))
  <2> DEFINE ws == windows'
  <2>1. ws = Append(windows, g)
    BY <1>6 DEF Coalesce, g
  <2> HIDE DEF ws
  <2>2. Len(ws) = W + 1 /\ ws[W + 1] = g /\ \A v \in 1 .. W : ws[v] = windows[v]
    BY <1>1, <2>1
  <2>3. \A v \in 1 .. Len(ws) : \A k, m \in 1 .. Len(ws[v]) : ws[v][k] = ws[v][m] => k = m
    <3> TAKE v \in 1 .. Len(ws)
    <3>1. CASE v = W + 1
      BY <1>2, <2>2, <3>1
    <3>2. CASE v # W + 1
      <4>1. v \in 1 .. W /\ ws[v] = windows[v]
        BY <1>1, <2>2, <3>2
      <4> QED
        BY <1>3, <4>1
    <3> QED
      BY <3>1, <3>2
  <2> QED
    BY <2>3 DEF OnceInv, ws
<1> QED
  BY <1>5, <1>6

\* The loop has not begun on the ranges: nothing of theirs changes.
LEMMA CoalesceRanges ==
  ASSUME IInv, GInv, Coalesce
  PROVE  (SplitInv /\ RangeInv)'
<1>1. phase = "coalesce" /\ phase' = "coalesce" /\ UNCHANGED <<prog, at, share, turn, range>>
  BY DEF Coalesce
<1>2. at = 1
  BY <1>1 DEF GInv, RangeInv
<1>3. SplitInv'
  BY <1>1 DEF GInv, SplitInv
<1>4. Len(windows') \in Nat
  <2>1. windows' \in Seq(Seq(1 .. Len(prog)))
    BY CoalesceStep DEF IInv
  <2> QED
    BY <2>1
<1>5. at' \in 1 .. Len(windows') + 1
  BY <1>1, <1>2, <1>4
<1>6. \A v \in 1 .. at' - 1 : Exact(windows'[v], range')
  BY <1>1, <1>2
<1>7. range' \in [1 .. Len(prog') -> (0 .. GRID) \X (0 .. GRID)]
  BY <1>1 DEF GInv, RangeInv
<1> QED
  BY <1>1, <1>2, <1>3, <1>5, <1>6, <1>7 DEF RangeInv

LEMMA NoCoalesceRanges ==
  ASSUME IInv, GInv, NoCoalesce
  PROVE  GInv'
<1>1. /\ phase = "coalesce" /\ phase' = "ranges" /\ UNCHANGED <<prog, at, share, turn, range>>
      /\ windows' = given /\ at = 1
  BY DEF NoCoalesce, GInv, RangeInv
<1>2. Len(given) \in Nat
  BY InputFacts DEF IInv
<1>3. OnceInv'
  <2>1. \A x \in 1 .. Len(given) : \A k, m \in 1 .. Len(given[x]) :
          given[x][k] = given[x][m] => k = m
    BY GivenOnce DEF IInv
  <2> QED
    BY <1>1, <2>1 DEF OnceInv
<1>4. SplitInv'
  BY <1>1 DEF GInv, SplitInv
<1>5. RangeInv'
  BY <1>1, <1>2 DEF GInv, RangeInv
<1> QED
  BY <1>3, <1>4, <1>5 DEF GInv

\* A step that leaves the windows alone keeps what they hold.
LEMMA OnceKept ==
  ASSUME OnceInv, windows' = windows
  PROVE  OnceInv'
BY DEF OnceInv

\* Windows share no instruction: ranges given to one leave those of the others alone.
LEMMA ExactKept ==
  ASSUME IInv, NEW v \in 1 .. Len(windows), NEW u \in 1 .. Len(windows), v # u,
         NEW r, NEW q, Exact(windows[v], r),
         \A i \in 1 .. Len(prog) : i \notin Members(windows[u]) => q[i] = r[i]
  PROVE  Exact(windows[v], q)
<1>1. windows \in Seq(Seq(1 .. Len(prog))) /\ FreshInv
  BY DEF IInv, InputInv
<1>2. windows[v] \in Seq(1 .. Len(prog))
  BY <1>1
<1>3. \A i \in Members(windows[v]) : i \in 1 .. Len(prog)
  BY <1>2 DEF Members
<1>4. \A i \in Members(windows[v]) : i \notin Members(windows[u])
  BY <1>1 DEF FreshInv
<1>5. \A i \in Members(windows[v]) : q[i] = r[i]
  BY <1>3, <1>4
<1> HIDE DEF Exact, Members
<1> QED
  BY <1>5, ExactSame

\* A turn of the loop over the windows: those behind it keep their ranges.
LEMMA RangeAdvances ==
  ASSUME IInv, RangeInv, at <= Len(windows), at' = at + 1, windows' = windows, prog' = prog,
         phase' = "ranges", range' \in [1 .. Len(prog) -> (0 .. GRID) \X (0 .. GRID)],
         \A i \in 1 .. Len(prog) : i \notin Members(Window) => range'[i] = range[i],
         Exact(Window, range')
  PROVE  RangeInv'
<1>1. at \in 1 .. Len(windows) /\ Len(windows) \in Nat /\ at \in Nat
  BY DEF RangeInv, IInv, InputInv
<1>2. ASSUME NEW v \in 1 .. at
      PROVE  Exact(windows[v], range')
  <2>1. CASE v = at
    BY <2>1 DEF Window
  <2>2. CASE v # at
    <3>1. v \in 1 .. at - 1 /\ v \in 1 .. Len(windows)
      BY <1>1, <2>2
    <3>2. Exact(windows[v], range)
      BY <3>1 DEF RangeInv
    <3> DEFINE q == range'
    <3>3. \A i \in 1 .. Len(prog) : i \notin Members(windows[at]) => q[i] = range[i]
      BY DEF Window
    <3> HIDE DEF q
    <3>4. Exact(windows[v], q)
      BY <1>1, <2>2, <3>1, <3>2, <3>3, ExactKept
    <3> QED
      BY <3>4 DEF q
  <2> QED
    BY <2>1, <2>2
<1>3. at' \in 1 .. Len(windows') + 1 /\ at' - 1 = at
  BY <1>1
<1>4. \A v \in 1 .. at' - 1 : Exact(windows'[v], range')
  BY <1>2, <1>3
<1> QED
  BY <1>3, <1>4 DEF RangeInv

LEMMA WholeGridRanges ==
  ASSUME IInv, GInv, WholeGrid
  PROVE  GInv'
<1> DEFINE w == Window
           r == range'
<1>1. /\ phase = "ranges" /\ phase' = "ranges" /\ at' = at + 1 /\ at <= Len(windows)
      /\ UNCHANGED <<prog, windows, share, turn>> /\ Len(w) = 1
      /\ r = [range EXCEPT ![w[1]] = <<0, GRID>>]
  BY DEF WholeGrid
<1>2. at \in 1 .. Len(windows) /\ RangeInv /\ OnceInv
  BY <1>1 DEF GInv, RangeInv, IInv, InputInv
<1>3. w \in Seq(1 .. Len(prog))
  BY <1>2, WindowLen DEF Window
<1> HIDE DEF w, r
<1>4. w[1] \in 1 .. Len(prog) /\ Members(w) = {w[1]}
  <2>1. 1 .. Len(w) = {1}
    BY <1>1
  <2>2. \A k \in 1 .. Len(w) : w[k] \in 1 .. Len(prog)
    BY <1>3
  <2>3. Members(w) = {w[k] : k \in {1}}
    BY <2>1 DEF Members
  <2> QED
    BY <2>1, <2>2, <2>3
<1>5. range \in [1 .. Len(prog) -> (0 .. GRID) \X (0 .. GRID)]
  BY <1>2 DEF RangeInv
<1>6. GRID \in Nat \ {0}
  BY ScheduleAssumption
<1>7. /\ r \in [1 .. Len(prog) -> (0 .. GRID) \X (0 .. GRID)]
      /\ r[w[1]] = <<0, GRID>>
      /\ \A i \in 1 .. Len(prog) : i # w[1] => r[i] = range[i]
  <2>1. <<0, GRID>> \in (0 .. GRID) \X (0 .. GRID)
    BY <1>6
  <2> QED
    BY <1>1, <1>4, <1>5, <2>1
<1>8. Exact(w, r)
  <2>1. ASSUME NEW b \in 0 .. GRID-1
        PROVE  {i \in Members(w) : r[i][1] <= b /\ b < r[i][2]} = {w[1]}
    BY <1>4, <1>6, <1>7
  <2>2. \A i \in Members(w) : r[i][1] < r[i][2]
    BY <1>4, <1>6, <1>7
  <2> QED
    BY <2>1, <2>2, FS_Singleton DEF Exact
<1>9. \A i \in 1 .. Len(prog) : i \notin Members(w) => r[i] = range[i]
  BY <1>4, <1>7
<1>10. RangeInv'
  BY <1>1, <1>2, <1>7, <1>8, <1>9, RangeAdvances DEF r, w
<1>11. SplitInv'
  BY <1>1 DEF GInv, SplitInv
<1> QED
  BY <1>1, <1>2, <1>10, <1>11, OnceKept DEF GInv

LEMMA BeginSplitRanges ==
  ASSUME IInv, GInv, BeginSplit
  PROVE  GInv'
<1> DEFINE n == Len(Window)
<1>1. /\ phase = "ranges" /\ phase' = "split" /\ at <= Len(windows)
      /\ UNCHANGED <<prog, windows, at, range>> /\ n > 1 /\ n <= GRID
      /\ share' = [k \in 1 .. n |-> FirstShare(Window[k])] /\ turn' = 0
  BY DEF BeginSplit
<1>2. at \in 1 .. Len(windows) /\ RangeInv /\ OnceInv
  BY <1>1 DEF GInv, RangeInv, IInv, InputInv
<1>3. Window \in Seq(1 .. Len(prog)) /\ prog \in Seq(Instruction) /\ n \in Nat
  BY <1>2, WindowLen, InputFacts DEF Window, IInv
<1>4. ASSUME NEW k \in 1 .. n
      PROVE  FirstShare(Window[k]) \in 1 .. GRID
  <2>1. Window[k] \in Members(Window)
    BY DEF Members
  <2> QED
    BY <1>3, <2>1, FirstShareBounds
<1>5. share' \in [1 .. n -> 1 .. GRID]
  BY <1>1, <1>4
<1>6. Window' = Window
  BY <1>1 DEF Window
<1>7. SplitInv'
  BY <1>1, <1>3, <1>5, <1>6 DEF SplitInv
<1>8. RangeInv'
  BY <1>1, <1>2 DEF RangeInv
<1> QED
  BY <1>1, <1>2, <1>7, <1>8, OnceKept DEF GInv

LEMMA AdjustRanges ==
  ASSUME IInv, GInv, Adjust
  PROVE  GInv'
<1> DEFINE n == Len(Window)
           k == Order(turn)
           s == share'
<1>1. /\ phase = "split" /\ phase' = "split" /\ Shares # GRID
      /\ UNCHANGED <<prog, windows, at, range>>
      /\ s = [share EXCEPT ![k] = Adjusted(k)] /\ turn' = (turn + 1) % n
  BY DEF Adjust
<1>2. /\ at <= Len(windows) /\ RangeInv /\ OnceInv
      /\ share \in [1 .. n -> 1 .. GRID] /\ turn \in 0 .. n - 1 /\ n <= GRID
  BY <1>1 DEF GInv, SplitInv
<1>3. n \in Nat
  <2>1. at \in 1 .. Len(windows)
    BY <1>2 DEF RangeInv, IInv, InputInv
  <2> QED
    BY <1>2, <2>1, WindowLen DEF Window
<1> HIDE DEF n, k, s
<1>4. s \in [1 .. n -> 1 .. GRID]
  <2>1. k \in 1 .. n => Adjusted(k) \in 1 .. GRID
    BY <1>1, <1>2, <1>3, AdjustedBounds
  <2> QED
    BY <1>1, <1>2, <2>1
<1>5. turn' \in 0 .. n - 1
  BY <1>1, <1>2, <1>3
<1>6. Len(Window') = n
  BY <1>1 DEF Window, n
<1>7. SplitInv'
  BY <1>1, <1>2, <1>4, <1>5, <1>6 DEF SplitInv, s
<1>8. RangeInv'
  BY <1>1, <1>2 DEF RangeInv
<1> QED
  BY <1>1, <1>2, <1>7, <1>8, OnceKept DEF GInv

LEMMA EndSplitRanges ==
  ASSUME IInv, GInv, EndSplit
  PROVE  GInv'
<1> DEFINE w == Window
           n == Len(w)
           L == [k \in 1 .. n + 1 |-> Lo(k)]
           r == range'
<1>1. /\ phase = "split" /\ phase' = "ranges" /\ Shares = GRID /\ at' = at + 1
      /\ UNCHANGED <<prog, windows>> /\ share' = <<>> /\ turn' = 0
      /\ r = [i \in DOMAIN range |->
                IF i \in Members(w)
                THEN LET k == CHOOSE k \in DOMAIN share : w[k] = i
                     IN <<Lo(k), Lo(k) + share[k]>>
                ELSE range[i]]
  BY DEF EndSplit
<1>2. /\ at <= Len(windows) /\ RangeInv /\ OnceInv
      /\ share \in [1 .. n -> 1 .. GRID]
  BY <1>1 DEF GInv, SplitInv
<1>3. at \in 1 .. Len(windows)
  BY <1>2 DEF RangeInv, IInv, InputInv
<1>4. /\ n \in Nat /\ w \in Seq(1 .. Len(prog))
      /\ \A k, m \in 1 .. n : w[k] = w[m] => k = m
  <2>1. \A k, m \in 1 .. n : w[k] = w[m] => k = m
    BY <1>2, <1>3 DEF OnceInv, Window
  <2> QED
    BY <1>2, <1>3, <2>1, WindowLen DEF Window
<1>5. range \in [1 .. Len(prog) -> (0 .. GRID) \X (0 .. GRID)]
  BY <1>2 DEF RangeInv
<1>6. GRID \in Nat \ {0}
  BY ScheduleAssumption
<1> HIDE DEF w, n, r
<1>7. Climbs(L, share, n) /\ L[n + 1] = GRID /\ \A k \in 1 .. n : L[k] = Lo(k)
  <2>1. n + 1 \in 1 .. n + 1 /\ \A k \in 1 .. n : k \in 1 .. n + 1
    BY <1>4
  <2> QED
    BY <1>1, <1>2, <1>4, <2>1, LoClimbs
<1> HIDE DEF L
<1>8. ASSUME NEW k \in 1 .. n
      PROVE  w[k] \in 1 .. Len(prog) /\ r[w[k]] = <<L[k], L[k] + share[k]>>
  <2>1. w[k] \in 1 .. Len(prog) /\ w[k] \in Members(w)
    BY <1>4 DEF Members, n
  <2>2. (CHOOSE m \in DOMAIN share : w[m] = w[k]) = k
    BY <1>2, <1>4
  <2> QED
    BY <1>1, <1>5, <1>7, <2>1, <2>2
<1>9. Exact(w, r)
  <2>1. share \in [1 .. n -> Nat \ {0}]
    BY <1>2, <1>6
  <2>2. Len(w) = n
    BY DEF n
  <2>3. \A k \in 1 .. n : r[w[k]] = <<L[k], L[k] + share[k]>>
    BY <1>8
  <2>4. n \in Nat /\ \A k, m \in 1 .. n : w[k] = w[m] => k = m
    BY <1>4
  <2>5. Climbs(L, share, n) /\ L[n + 1] = GRID
    BY <1>7
  <2> DEFINE s == share
  <2>6. s \in [1 .. n -> Nat \ {0}] /\ Climbs(L, s, n)
        /\ \A k \in 1 .. n : r[w[k]] = <<L[k], L[k] + s[k]>>
    BY <2>1, <2>3, <2>5
  <2> HIDE DEF s
  <2> QED
    BY ONLY <2>2, <2>4, <2>5, <2>6, AdjacentIsExact
<1>10. DOMAIN r = 1 .. Len(prog)
       /\ \A i \in 1 .. Len(prog) : i \notin Members(w) => r[i] = range[i]
  BY <1>1, <1>5
<1>11. ASSUME NEW k \in 1 .. n
       PROVE  <<L[k], L[k] + share[k]>> \in (0 .. GRID) \X (0 .. GRID)
  <2>1. share \in [1 .. n -> Nat]
    BY <1>2, <1>6
  <2>2. k \in 1 .. n + 1 /\ k + 1 \in 1 .. n + 1 /\ n + 1 \in k + 1 .. n + 1
        /\ L[k + 1] = L[k] + share[k] /\ L[k] \in Nat /\ share[k] \in Nat
    BY <1>4, <1>7, <2>1 DEF Climbs
  <2>3. L[k + 1] <= L[n + 1]
    BY <1>4, <1>7, <2>1, <2>2, ClimbsUp
  <2> QED
    BY <1>6, <1>7, <2>2, <2>3
<1>12. r \in [1 .. Len(prog) -> (0 .. GRID) \X (0 .. GRID)]
  <2>1. ASSUME NEW i \in 1 .. Len(prog)
        PROVE  r[i] \in (0 .. GRID) \X (0 .. GRID)
    <3>1. CASE i \in Members(w)
      <4>1. PICK k \in 1 .. n : i = w[k]
        BY <3>1 DEF Members, n
      <4> QED
        BY <1>8, <1>11, <4>1
    <3>2. CASE i \notin Members(w)
      BY <1>5, <1>10, <3>2
    <3> QED
      BY <3>1, <3>2
  <2>2. r = [i \in 1 .. Len(prog) |-> r[i]]
    BY <1>1, <1>5
  <2> QED
    BY <2>1, <2>2
<1>13. RangeInv'
  BY <1>1, <1>2, <1>9, <1>10, <1>12, RangeAdvances DEF r, w
<1>14. SplitInv'
  BY <1>1 DEF SplitInv
<1> QED
  BY <1>1, <1>2, <1>13, <1>14, OnceKept DEF GInv

LEMMA RestRanges ==
  ASSUME IInv, GInv,
         Coalesced \/ TooWide \/ Ranged \/ CheckLifetimes \/ UNCHANGED vars
  PROVE  GInv'
<1>1. UNCHANGED <<prog, windows, at, share, turn, range>>
  BY DEF Coalesced, TooWide, Ranged, CheckLifetimes, vars
<1>2. /\ phase' = "split" <=> phase = "split"
      /\ phase' = "coalesce" => phase = "coalesce"
      /\ phase' \in {"check", "done", "failed"} =>
           phase \in {"check", "done", "failed"} \/ at > Len(windows)
  BY DEF Coalesced, TooWide, Ranged, CheckLifetimes, vars
<1>3. SplitInv'
  <2>1. Window' = Window
    BY <1>1 DEF Window
  <2> QED
    BY <1>1, <1>2, <2>1 DEF GInv, SplitInv
<1>4. RangeInv'
  BY <1>1, <1>2 DEF GInv, RangeInv
<1> QED
  BY <1>1, <1>3, <1>4, OnceKept DEF GInv

\* The invariant of the block ranges (compile_schedule.py:781-813) holds in every
\* reachable state, for every program, grid and estimate.
THEOREM RangesInvariance == Spec => []GInv
<1>1. Init => GInv
  <2>1. ASSUME Init
        PROVE  GInv
    <3>1. /\ windows = <<>> /\ at = 1 /\ share = <<>> /\ turn = 0 /\ phase = "coalesce"
          /\ range = [i \in 1 .. Len(prog) |-> <<0, 0>>] /\ GRID \in Nat
      BY <2>1, ScheduleAssumption DEF Init
    <3>2. range \in [1 .. Len(prog) -> (0 .. GRID) \X (0 .. GRID)]
      BY <3>1
    <3> QED
      BY <3>1, <3>2 DEF GInv, OnceInv, SplitInv, RangeInv
  <2> QED
    BY <2>1
<1>2. IInv /\ GInv /\ [Next]_vars => GInv'
  <2>1. IInv /\ GInv /\ Coalesce => GInv'
    BY CoalesceOnce, CoalesceRanges DEF GInv
  <2> QED
    BY <2>1, NoCoalesceRanges, WholeGridRanges, BeginSplitRanges, AdjustRanges,
       EndSplitRanges, RestRanges DEF Next, Compile, Terminated
<1> QED
  BY <1>1, <1>2, Invariance, PTL DEF Spec

\* Every variable has its type.
THEOREM TypesHold == Spec => []TypeOK
<1>1. ASSUME IInv, GInv
      PROVE  TypeOK
  <2>1. /\ next \in 1 .. Len(given) + 1 /\ windows \in Seq(Seq(1 .. Len(prog)))
        /\ phase \in {"coalesce", "ranges", "split", "check", "done", "failed", "aborted"}
    BY <1>1 DEF IInv, InputInv
  <2>2. /\ at \in 1 .. Len(windows) + 1
        /\ range \in [1 .. Len(prog) -> (0 .. GRID) \X (0 .. GRID)]
    BY <1>1 DEF GInv, RangeInv
  <2>3. share \in Seq(1 .. GRID) /\ turn \in 0 .. GRID
    <3>1. GRID \in Nat
      BY ScheduleAssumption
    <3>2. CASE phase = "split"
      <4>1. /\ at <= Len(windows) /\ share \in [1 .. Len(Window) -> 1 .. GRID]
            /\ turn \in 0 .. Len(Window) - 1 /\ Len(Window) <= GRID
        BY <1>1, <3>2 DEF GInv, SplitInv
      <4>2. at \in 1 .. Len(windows)
        BY <2>1, <2>2, <4>1
      <4>3. Len(Window) \in 0 .. GRID
        BY <1>1, <3>1, <4>1, <4>2, WindowLen DEF Window
      <4> QED
        BY <3>1, <4>1, <4>3
    <3>3. CASE phase # "split"
      BY <1>1, <3>1, <3>3 DEF GInv, SplitInv
    <3> QED
      BY <3>2, <3>3
  <2> QED
    BY <2>1, <2>2, <2>3 DEF TypeOK
<1> QED
  BY <1>1, Invariance, RangesInvariance, PTL

\* When the compiler is done, every block runs exactly one instruction of each window
\* and every instruction has a block, whatever the estimates rounded to (split_grid,
\* compile_schedule.py:781-813).
THEOREM RangesPartitionTheGridHolds == Spec => []RangesPartitionTheGrid
<1>1. ASSUME IInv, GInv
      PROVE  RangesPartitionTheGrid
  <2>1. ASSUME phase = "done", NEW v \in 1 .. Len(windows)
        PROVE  Exact(windows[v], range)
    <3>1. at > Len(windows) /\ at \in 1 .. Len(windows) + 1 /\ Len(windows) \in Nat
      BY <1>1, <2>1 DEF GInv, RangeInv, IInv, InputInv
    <3>2. v \in 1 .. at - 1
      BY <3>1
    <3> QED
      BY <1>1, <3>2 DEF GInv, RangeInv
  <2> QED
    BY <2>1 DEF RangesPartitionTheGrid, Exact
<1> QED
  BY <1>1, Invariance, RangesInvariance, PTL
=============================================================================
