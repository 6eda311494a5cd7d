-------------------------- MODULE JobAuthoringProofs --------------------------
(***************************************************************************)
(* What an author writes, for any library of names, steps and settings:    *)
(*                                                                         *)
(* - Whatever states of a job are combined, validation accepts the steps   *)
(*   of each, its references say which outputs may be read, and the job    *)
(*   that they are lowered to prepares once before its tasks.              *)
(* - A project of workflows that is accepted can run to its end and grants *)
(*   no more than its callers have.                                        *)
(* - The rows of a matrix are those of GitHub's definition.                *)
(***************************************************************************)
EXTENDS JobAuthoring, WorkflowAuthoring, Matrix, FiniteSetTheorems, SequenceTheorems,
        WellFoundedInduction, TLAPS

\* What holds of 0 and, with a number, of the next one, holds up to any number.
LEMMA Stepwise ==
    ASSUME NEW n \in Nat, NEW S, 0 \in S,
           \A k \in 0 .. n - 1 : k \in S => k + 1 \in S
    PROVE  \A k \in 0 .. n : k \in S
  <1> SUFFICES ASSUME NEW k \in 0 .. n, k \notin S PROVE FALSE
    OBVIOUS
  <1> DEFINE T == {m \in 0 .. n : m \notin S}
  <1>1. PICK t \in T : \A u \in T : ~(<<u, t>> \in OpToRel(<, Nat))
    <2>1. T \subseteq Nat /\ T # {}
      OBVIOUS
    <2> HIDE DEF T
    <2> QED BY <2>1, NatLessThanWellFounded, WFMin
  <1>2. t # 0 /\ t \in 0 .. n
    OBVIOUS
  <1>3. t - 1 \in 0 .. n - 1 /\ t - 1 \in 0 .. n /\ t - 1 + 1 = t /\ t - 1 < t
    BY <1>2
  <1>4. t - 1 \notin T
    <2>1. <<t - 1, t>> \in OpToRel(<, Nat)
      BY <1>2, <1>3 DEF OpToRel
    <2> HIDE DEF T
    <2> QED BY <1>1, <2>1
  <1> QED BY <1>3, <1>4

-----------------------------------------------------------------------------
(* The recursive functions of Lowering meet their equations.                *)

\* One step of Picked.
PickOne(kind, acc, leaf) == IF leaf.kind = kind THEN Append(acc, leaf) ELSE acc

\* f is what Picked has picked from the first n leaves, for every n.
Picks(f, kind, leaves) ==
    /\ f[0] = <<>>
    /\ \A n \in 1 .. Len(leaves) : f[n] = PickOne(kind, f[n - 1], leaves[n])

\* Picked does what its recursion says.
LEMMA PickedRuns ==
    ASSUME NEW kind, NEW L, NEW leaves \in Seq(L)
    PROVE  \E f : Picks(f, kind, leaves) /\ Picked(kind, leaves) = f[Len(leaves)]
  <1> DEFINE Eq(f, m) == f = [n \in 0 .. m |-> IF n = 0 THEN <<>>
                                  ELSE IF leaves[n].kind = kind THEN Append(f[n - 1], leaves[n])
                                  ELSE f[n - 1]]
  <1> DEFINE S == {m \in 0 .. Len(leaves) : \E f : Eq(f, m)}
  <1>1. Len(leaves) \in Nat
    OBVIOUS
  <1>2. 0 \in S
    <2> DEFINE f == [n \in 0 .. 0 |-> <<>>]
    <2>1. Eq(f, 0)
      OBVIOUS
    <2> HIDE DEF f, Eq
    <2> QED BY <1>1, <2>1
  <1>3. ASSUME NEW m \in 0 .. Len(leaves) - 1, m \in S PROVE m + 1 \in S
    <2>1. PICK f : Eq(f, m)
      BY <1>3
    <2> DEFINE g == [n \in 0 .. m + 1 |->
                       IF n = m + 1 THEN IF leaves[m + 1].kind = kind
                                         THEN Append(f[m], leaves[m + 1]) ELSE f[m]
                       ELSE f[n]]
    <2>2. \A n \in 0 .. m + 1 : n = m + 1 \/ n \in 0 .. m
      OBVIOUS
    <2>3. \A n \in 0 .. m : g[n] = f[n] /\ (n # 0 => n - 1 \in 0 .. m)
      BY <1>1
    <2>4. g[m + 1] = IF leaves[m + 1].kind = kind
                     THEN Append(g[m + 1 - 1], leaves[m + 1]) ELSE g[m + 1 - 1]
      BY <1>1
    <2>5. \A n \in 0 .. m : g[n] = IF n = 0 THEN <<>>
                                  ELSE IF leaves[n].kind = kind THEN Append(g[n - 1], leaves[n])
                                  ELSE g[n - 1]
      <3> HIDE DEF g
      <3> QED BY <2>1, <2>3
    <2>6. g = [n \in 0 .. m + 1 |-> g[n]]
      OBVIOUS
    <2>7. Eq(g, m + 1)
      <3> HIDE DEF g
      <3> QED BY <2>2, <2>4, <2>5, <2>6, <1>1
    <2> HIDE DEF Eq, g
    <2> QED BY <1>1, <2>7
  <1>4. Len(leaves) \in S
    <2> HIDE DEF S
    <2>1. \A k \in 0 .. Len(leaves) - 1 : k \in S => k + 1 \in S
      BY <1>3
    <2>2. \A k \in 0 .. Len(leaves) : k \in S
      BY ONLY <1>1, <1>2, <2>1, Stepwise
    <2> QED BY <1>1, <2>2
  <1>5. PICK f : Eq(f, Len(leaves))
    BY <1>4
  <1> DEFINE p == CHOOSE p : Eq(p, Len(leaves))
  <1>6. Eq(p, Len(leaves))
    <2> HIDE DEF Eq
    <2> QED BY <1>5
  <1>7. Picked(kind, leaves) = p[Len(leaves)]
    BY DEF Picked
  <1> HIDE DEF p
  <1>8. Picks(p, kind, leaves)
    <2>1. p[0] = <<>>
      BY <1>1, <1>6
    <2>2. \A n \in 1 .. Len(leaves) : n # 0 /\ n \in 0 .. Len(leaves)
      BY <1>1
    <2> QED BY <1>6, <2>1, <2>2 DEF Picks, PickOne
  <1> QED BY <1>7, <1>8

\* Nothing is picked from nothing.
LEMMA PickedEmpty ==
    ASSUME NEW kind PROVE Picked(kind, <<>>) = <<>>
  <1>1. <<>> \in Seq({}) /\ Len(<<>>) = 0
    OBVIOUS
  <1>2. PICK f : Picks(f, kind, <<>>) /\ Picked(kind, <<>>) = f[Len(<<>>)]
    BY <1>1, PickedRuns
  <1> QED BY <1>1, <1>2 DEF Picks

\* One more leaf is picked last, if it is of the kind.
LEMMA PickedAppend ==
    ASSUME NEW kind, NEW L, NEW leaves \in Seq(L), NEW leaf \in L
    PROVE  Picked(kind, Append(leaves, leaf)) = PickOne(kind, Picked(kind, leaves), leaf)
  <1>1. PICK more : more = Append(leaves, leaf)
    OBVIOUS
  <1>2. /\ more \in Seq(L) /\ Len(leaves) \in Nat /\ Len(more) = Len(leaves) + 1
        /\ \A n \in 1 .. Len(leaves) : more[n] = leaves[n]
        /\ more[Len(leaves) + 1] = leaf
    BY <1>1
  <1>3. PICK f : Picks(f, kind, leaves) /\ Picked(kind, leaves) = f[Len(leaves)]
    BY PickedRuns
  <1>4. PICK g : Picks(g, kind, more) /\ Picked(kind, more) = g[Len(more)]
    BY <1>2, PickedRuns
  <1> DEFINE S == {n \in 0 .. Len(leaves) : f[n] = g[n]}
  <1>5. 0 \in S
    BY <1>2, <1>3, <1>4 DEF Picks
  <1>6. ASSUME NEW n \in 0 .. Len(leaves) - 1, n \in S PROVE n + 1 \in S
    <2>1. n + 1 \in 1 .. Len(leaves) /\ n + 1 \in 1 .. Len(more) /\ n + 1 - 1 = n
      BY <1>2
    <2>2. f[n + 1] = PickOne(kind, f[n], leaves[n + 1]) /\ g[n + 1] = PickOne(kind, g[n], more[n + 1])
      BY <2>1, <1>3, <1>4 DEF Picks
    <2> QED BY <1>2, <1>6, <2>1, <2>2
  <1> HIDE DEF S
  <1>7. \A n \in 0 .. Len(leaves) : n \in S
    BY ONLY <1>2, <1>5, <1>6, Stepwise
  <1>8. f[Len(leaves)] = g[Len(leaves)]
    BY <1>2, <1>7 DEF S
  <1>9. g[Len(leaves) + 1] = PickOne(kind, g[Len(leaves)], more[Len(leaves) + 1])
    <2>1. Len(leaves) + 1 \in 1 .. Len(more) /\ Len(leaves) + 1 - 1 = Len(leaves)
      BY <1>2
    <2> QED BY <2>1, <1>4 DEF Picks
  <1> QED BY <1>1, <1>2, <1>3, <1>4, <1>8, <1>9

\* What is picked are leaves of the kind, and nothing is if there are none.
LEMMA PickedFacts ==
    ASSUME NEW kind, NEW L, NEW leaves \in Seq(L)
    PROVE  /\ Picked(kind, leaves) \in Seq({leaf \in L : leaf.kind = kind})
           /\ Len(Picked(kind, leaves)) <= Len(leaves)
           /\ Picked(kind, leaves) = <<>> <=> \A n \in DOMAIN leaves : leaves[n].kind # kind
  <1>1. PICK f : Picks(f, kind, leaves) /\ Picked(kind, leaves) = f[Len(leaves)]
    BY PickedRuns
  <1>2. PICK M : M = {leaf \in L : leaf.kind = kind}
    OBVIOUS
  <1>3. Len(leaves) \in Nat /\ DOMAIN leaves = 1 .. Len(leaves)
        /\ \A n \in 1 .. Len(leaves) : leaves[n] \in L
    OBVIOUS
  <1> DEFINE Holds(n) == /\ f[n] \in Seq(M) /\ Len(f[n]) <= n
                         /\ f[n] = <<>> <=> \A m \in 1 .. n : leaves[m].kind # kind
             S == {n \in 0 .. Len(leaves) : Holds(n)}
  <1>4. 0 \in S
    <2>1. f[0] = <<>> /\ <<>> \in Seq(M) /\ Len(<<>>) = 0 /\ 1 .. 0 = {} /\ 0 \in 0 .. Len(leaves)
      BY <1>1, <1>3 DEF Picks
    <2>2. Holds(0)
      BY <2>1
    <2> QED BY <2>1, <2>2
  <1>5. ASSUME NEW n \in 0 .. Len(leaves) - 1, n \in S PROVE n + 1 \in S
    <2>1. n \in Nat /\ n + 1 \in 1 .. Len(leaves) /\ n + 1 - 1 = n /\ n + 1 \in 0 .. Len(leaves)
      BY <1>3
    <2>2. f[n + 1] = PickOne(kind, f[n], leaves[n + 1])
      BY <2>1, <1>1 DEF Picks
    <2>3. Holds(n)
      BY <1>5
    <2>4. PICK leaf \in L : leaf = leaves[n + 1]
      BY <1>3, <2>1
    <2>5. CASE leaf.kind = kind
      <3>1. leaf \in M
        BY <1>2, <2>5
      <3>2. f[n + 1] = Append(f[n], leaf)
        BY <2>2, <2>4, <2>5 DEF PickOne
      <3>3. f[n + 1] \in Seq(M) /\ Len(f[n + 1]) = Len(f[n]) + 1 /\ f[n + 1] # <<>>
            /\ Len(f[n]) \in Nat
        BY <2>3, <3>1, <3>2
      <3>4. ~\A m \in 1 .. n + 1 : leaves[m].kind # kind
        BY <2>1, <2>4, <2>5
      <3> QED BY <2>1, <2>3, <3>3, <3>4
    <2>6. CASE leaf.kind # kind
      <3>1. f[n + 1] = f[n]
        BY <2>2, <2>4, <2>6 DEF PickOne
      <3>2. \A m \in 1 .. n + 1 : m \in 1 .. n \/ m = n + 1
        BY <2>1
      <3>3. (\A m \in 1 .. n + 1 : leaves[m].kind # kind) <=> (\A m \in 1 .. n : leaves[m].kind # kind)
        <4>1. \A m \in 1 .. n : m \in 1 .. n + 1
          BY <2>1
        <4> QED BY <2>4, <2>6, <3>2, <4>1
      <3>4. Len(f[n]) \in Nat
        BY <2>3
      <3> QED BY <2>1, <2>3, <3>1, <3>3, <3>4
    <2> QED BY <2>5, <2>6
  <1> HIDE DEF S
  <1>6. \A n \in 0 .. Len(leaves) : n \in S
    BY ONLY <1>3, <1>4, <1>5, Stepwise
  <1>7. Holds(Len(leaves))
    BY <1>3, <1>6 DEF S
  <1> QED BY <1>1, <1>2, <1>3, <1>7

\* One step of OfKind.
Joined(found, kind, step) == found \o Picked(kind, Members(step))

\* f is what OfKind has found in the first n steps, for every n.
Finds(f, kind, steps) ==
    /\ f[0] = <<>>
    /\ \A n \in 1 .. Len(steps) : f[n] = Joined(f[n - 1], kind, steps[n])

\* OfKind does what its recursion says.
LEMMA OfKindRuns ==
    ASSUME NEW kind, NEW T, NEW steps \in Seq(T)
    PROVE  \E f : Finds(f, kind, steps) /\ OfKind(kind, steps) = f[Len(steps)]
  <1> DEFINE Eq(f, m) == f = [n \in 0 .. m |-> IF n = 0 THEN <<>>
                                  ELSE Joined(f[n - 1], kind, steps[n])]
  <1> DEFINE S == {m \in 0 .. Len(steps) : \E f : Eq(f, m)}
  <1>1. Len(steps) \in Nat
    OBVIOUS
  <1>2. 0 \in S
    <2> DEFINE f == [n \in 0 .. 0 |-> <<>>]
    <2>1. Eq(f, 0)
      OBVIOUS
    <2> HIDE DEF f, Eq
    <2> QED BY <1>1, <2>1
  <1>3. ASSUME NEW m \in 0 .. Len(steps) - 1, m \in S PROVE m + 1 \in S
    <2>1. PICK f : Eq(f, m)
      BY <1>3
    <2> DEFINE g == [n \in 0 .. m + 1 |->
                       IF n = m + 1 THEN Joined(f[m], kind, steps[m + 1])
                       ELSE f[n]]
    <2>2. \A n \in 0 .. m + 1 : n = m + 1 \/ n \in 0 .. m
      OBVIOUS
    <2>3. \A n \in 0 .. m : g[n] = f[n] /\ (n # 0 => n - 1 \in 0 .. m)
      BY <1>1
    <2>4. g[m + 1] = Joined(g[m + 1 - 1], kind, steps[m + 1])
      BY <1>1
    <2>5. \A n \in 0 .. m : g[n] = IF n = 0 THEN <<>>
                                  ELSE Joined(g[n - 1], kind, steps[n])
      <3> HIDE DEF g
      <3> QED BY <2>1, <2>3
    <2>6. g = [n \in 0 .. m + 1 |-> g[n]]
      OBVIOUS
    <2>7. Eq(g, m + 1)
      <3> HIDE DEF g
      <3>1. \A n \in 0 .. m + 1 : g[n] = IF n = 0 THEN <<>> ELSE Joined(g[n - 1], kind, steps[n])
        BY <2>2, <2>4, <2>5, <1>1
      <3> QED BY <2>6, <3>1
    <2> HIDE DEF Eq, g
    <2> QED BY <1>1, <2>7
  <1>4. Len(steps) \in S
    <2> HIDE DEF S
    <2>1. \A k \in 0 .. Len(steps) - 1 : k \in S => k + 1 \in S
      BY <1>3
    <2>2. \A k \in 0 .. Len(steps) : k \in S
      BY ONLY <1>1, <1>2, <2>1, Stepwise
    <2> QED BY <1>1, <2>2
  <1>5. PICK f : Eq(f, Len(steps))
    BY <1>4
  <1> DEFINE p == CHOOSE p : Eq(p, Len(steps))
  <1>6. Eq(p, Len(steps))
    <2> HIDE DEF Eq
    <2> QED BY <1>5
  <1>7. OfKind(kind, steps) = p[Len(steps)]
    BY DEF OfKind, Joined
  <1> HIDE DEF p
  <1>8. Finds(p, kind, steps)
    <2>1. p[0] = <<>>
      BY <1>1, <1>6
    <2>2. \A n \in 1 .. Len(steps) : n # 0 /\ n \in 0 .. Len(steps)
      BY <1>1
    <2> QED BY <1>6, <2>1, <2>2 DEF Finds
  <1> QED BY <1>7, <1>8

\* What is found are members of steps, of the kind.
LEMMA FindsType ==
    ASSUME NEW kind, NEW T, NEW L, \A step \in T : Members(step) \in Seq(L),
           NEW steps \in Seq(T), NEW f, Finds(f, kind, steps)
    PROVE  \A n \in 0 .. Len(steps) : f[n] \in Seq({leaf \in L : leaf.kind = kind})
  <1>1. PICK M : M = {leaf \in L : leaf.kind = kind}
    OBVIOUS
  <1>2. Len(steps) \in Nat /\ \A n \in 1 .. Len(steps) : steps[n] \in T
    OBVIOUS
  <1> DEFINE S == {n \in 0 .. Len(steps) : f[n] \in Seq(M)}
  <1>3. 0 \in S
    <2>1. <<>> \in Seq(M) /\ f[0] = <<>> /\ 0 \in 0 .. Len(steps)
      BY <1>2 DEF Finds
    <2> QED BY ONLY <2>1 DEF S
  <1>4. ASSUME NEW n \in 0 .. Len(steps) - 1, n \in S PROVE n + 1 \in S
    <2>1. n + 1 \in 1 .. Len(steps) /\ n + 1 - 1 = n /\ n + 1 \in 0 .. Len(steps)
      BY <1>2
    <2>2. f[n + 1] = Joined(f[n], kind, steps[n + 1])
      BY <2>1 DEF Finds
    <2>3. Picked(kind, Members(steps[n + 1])) \in Seq(M)
      BY <1>1, <1>2, <2>1, PickedFacts
    <2>4. f[n + 1] \in Seq(M)
      <3>1. f[n] \in Seq(M)
        BY <1>4
      <3> QED BY ONLY <3>1, <2>2, <2>3, ConcatProperties DEF Joined
    <2> QED BY <2>1, <2>4
  <1> HIDE DEF S
  <1>5. \A n \in 0 .. Len(steps) : n \in S
    BY ONLY <1>2, <1>3, <1>4, Stepwise
  <1> QED BY <1>1, <1>5 DEF S

\* What OfKind gives are members of the steps, of the kind.
LEMMA OfKindType ==
    ASSUME NEW kind, NEW T, NEW L, \A step \in T : Members(step) \in Seq(L),
           NEW steps \in Seq(T)
    PROVE  OfKind(kind, steps) \in Seq({leaf \in L : leaf.kind = kind})
  <1>1. PICK f : Finds(f, kind, steps) /\ OfKind(kind, steps) = f[Len(steps)]
    BY OfKindRuns
  <1>2. \A n \in 0 .. Len(steps) : f[n] \in Seq({leaf \in L : leaf.kind = kind})
    BY <1>1, FindsType
  <1>3. Len(steps) \in 0 .. Len(steps)
    OBVIOUS
  <1> QED BY <1>1, <1>2, <1>3

\* Nothing is found where there is no step.
LEMMA OfKindEmpty ==
    ASSUME NEW kind PROVE OfKind(kind, <<>>) = <<>>
  <1>1. <<>> \in Seq({}) /\ Len(<<>>) = 0
    OBVIOUS
  <1>2. PICK f : Finds(f, kind, <<>>) /\ OfKind(kind, <<>>) = f[Len(<<>>)]
    BY <1>1, OfKindRuns
  <1> QED BY <1>1, <1>2 DEF Finds

\* In the steps of one list and then another, what is found in the one comes
\* before what is found in the other.
LEMMA OfKindConcat ==
    ASSUME NEW kind, NEW T, NEW L, \A step \in T : Members(step) \in Seq(L),
           NEW s \in Seq(T), NEW t \in Seq(T)
    PROVE  OfKind(kind, s \o t) = OfKind(kind, s) \o OfKind(kind, t)
  <1>1. PICK u : u = s \o t
    OBVIOUS
  <1>2. /\ u \in Seq(T) /\ Len(u) = Len(s) + Len(t) /\ Len(s) \in Nat /\ Len(t) \in Nat
        /\ \A n \in 1 .. Len(s) : u[n] = s[n] /\ n \in 1 .. Len(u)
        /\ \A n \in 1 .. Len(t) : u[Len(s) + n] = t[n] /\ Len(s) + n \in 1 .. Len(u)
    BY <1>1
  <1>3. PICK f : Finds(f, kind, s) /\ OfKind(kind, s) = f[Len(s)]
    BY OfKindRuns
  <1>4. PICK g : Finds(g, kind, t) /\ OfKind(kind, t) = g[Len(t)]
    BY OfKindRuns
  <1>5. PICK h : Finds(h, kind, u) /\ OfKind(kind, u) = h[Len(u)]
    BY <1>2, OfKindRuns
  <1>6. h[Len(s)] = f[Len(s)]
    <2> DEFINE S == {n \in 0 .. Len(s) : h[n] = f[n]}
    <2>1. 0 \in S
      BY <1>2, <1>3, <1>5 DEF Finds
    <2>2. ASSUME NEW n \in 0 .. Len(s) - 1, n \in S PROVE n + 1 \in S
      <3>1. n + 1 \in 1 .. Len(s) /\ n + 1 - 1 = n /\ n + 1 \in 0 .. Len(s)
        BY <1>2
      <3>2. /\ f[n + 1] = Joined(f[n], kind, s[n + 1])
            /\ h[n + 1] = Joined(h[n], kind, u[n + 1])
        BY <1>2, <1>3, <1>5, <3>1 DEF Finds
      <3> QED BY <1>2, <2>2, <3>1, <3>2
    <2> HIDE DEF S
    <2>3. \A n \in 0 .. Len(s) : n \in S
      BY ONLY <1>2, <2>1, <2>2, Stepwise
    <2> QED BY <1>2, <2>3 DEF S
  <1>7. PICK M : M = {leaf \in L : leaf.kind = kind}
    OBVIOUS
  <1>8. /\ \A n \in 0 .. Len(t) : g[n] \in Seq(M)
        /\ f[Len(s)] \in Seq(M)
        /\ \A n \in 1 .. Len(t) : Picked(kind, Members(t[n])) \in Seq(M)
    <2>1. \A n \in 1 .. Len(t) : Members(t[n]) \in Seq(L)
      OBVIOUS
    <2>2. \A n \in 1 .. Len(t) : Picked(kind, Members(t[n])) \in Seq(M)
      BY <1>7, <2>1, PickedFacts
    <2>3. \A n \in 0 .. Len(t) : g[n] \in Seq(M)
      BY <1>4, <1>7, FindsType
    <2>4. OfKind(kind, s) \in Seq(M)
      BY <1>7, OfKindType
    <2> QED BY <1>3, <2>2, <2>3, <2>4
  <1> DEFINE S == {n \in 0 .. Len(t) : h[Len(s) + n] = f[Len(s)] \o g[n]}
  <1>9. 0 \in S
    <2>1. f[Len(s)] \o <<>> = f[Len(s)]
      BY ONLY <1>8, ConcatEmptySeq
    <2>2. g[0] = <<>> /\ Len(s) + 0 = Len(s) /\ 0 \in 0 .. Len(t)
      BY <1>2, <1>4 DEF Finds
    <2>3. h[Len(s) + 0] = f[Len(s)] \o g[0]
      BY ONLY <1>6, <2>1, <2>2
    <2> QED BY ONLY <2>2, <2>3 DEF S
  <1>10. ASSUME NEW n \in 0 .. Len(t) - 1, n \in S PROVE n + 1 \in S
    <2>1. /\ n + 1 \in 1 .. Len(t) /\ n + 1 - 1 = n /\ n + 1 \in 0 .. Len(t) /\ n \in 0 .. Len(t)
          /\ Len(s) + (n + 1) - 1 = Len(s) + n
      BY <1>2
    <2>2. g[n + 1] = Joined(g[n], kind, t[n + 1])
      BY <1>4, <2>1 DEF Finds
    <2>3. h[Len(s) + (n + 1)] = Joined(h[Len(s) + n], kind, t[n + 1])
      <3>1. Len(s) + (n + 1) \in 1 .. Len(u) /\ u[Len(s) + (n + 1)] = t[n + 1]
        BY <1>2, <2>1
      <3>2. h[Len(s) + (n + 1)] = Joined(h[Len(s) + (n + 1) - 1], kind, u[Len(s) + (n + 1)])
        BY <1>5, <3>1 DEF Finds
      <3> QED BY <2>1, <3>1, <3>2
    <2>4. Joined(f[Len(s)] \o g[n], kind, t[n + 1]) = f[Len(s)] \o Joined(g[n], kind, t[n + 1])
      <3>1. /\ g[n] \in Seq(M) /\ f[Len(s)] \in Seq(M)
            /\ Picked(kind, Members(t[n + 1])) \in Seq(M)
        BY <1>8, <2>1
      <3>2. PICK x \in Seq(M), y \in Seq(M), z \in Seq(M) :
              x = f[Len(s)] /\ y = g[n] /\ z = Picked(kind, Members(t[n + 1]))
        BY ONLY <3>1
      <3>3. (x \o y) \o z = x \o (y \o z)
        BY ONLY ConcatAssociative
      <3> QED BY ONLY <3>2, <3>3 DEF Joined
    <2>5. h[Len(s) + n] = f[Len(s)] \o g[n]
      BY <1>10
    <2>6. h[Len(s) + (n + 1)] = f[Len(s)] \o g[n + 1]
      BY ONLY <2>2, <2>3, <2>4, <2>5
    <2> QED BY ONLY <2>1, <2>6 DEF S
  <1> HIDE DEF S
  <1>11. \A n \in 0 .. Len(t) : n \in S
    BY ONLY <1>2, <1>9, <1>10, Stepwise
  <1>12. h[Len(s) + Len(t)] = f[Len(s)] \o g[Len(t)]
    <2>1. Len(t) \in S
      BY <1>2, <1>11
    <2> QED BY ONLY <2>1 DEF S
  <1> QED BY <1>1, <1>2, <1>3, <1>4, <1>5, <1>12

\* In one step its members are looked at.
LEMMA OfKindOne ==
    ASSUME NEW kind, NEW L, NEW step, Members(step) \in Seq(L)
    PROVE  OfKind(kind, <<step>>) = Picked(kind, Members(step))
  <1>1. <<step>> \in Seq({step}) /\ Len(<<step>>) = 1 /\ <<step>>[1] = step
    OBVIOUS
  <1>2. PICK f : Finds(f, kind, <<step>>) /\ OfKind(kind, <<step>>) = f[Len(<<step>>)]
    BY <1>1, OfKindRuns
  <1>3. f[0] = <<>> /\ f[1] = Joined(f[0], kind, step)
    <2>1. 1 \in 1 .. Len(<<step>>) /\ 1 - 1 = 0
      BY <1>1
    <2>2. f[1] = Joined(f[1 - 1], kind, <<step>>[1])
      BY <1>2, <2>1 DEF Finds
    <2> QED BY <1>1, <1>2, <2>1, <2>2 DEF Finds
  <1>4. <<>> \o Picked(kind, Members(step)) = Picked(kind, Members(step))
    BY PickedFacts, ConcatEmptySeq
  <1> QED BY <1>1, <1>2, <1>3, <1>4 DEF Joined

\* What is found in one more step comes last.
LEMMA OfKindAppend ==
    ASSUME NEW kind, NEW T, NEW L, \A step \in T : Members(step) \in Seq(L),
           NEW steps \in Seq(T), NEW step \in T
    PROVE  OfKind(kind, Append(steps, step)) = OfKind(kind, steps) \o Picked(kind, Members(step))
  <1>1. Append(steps, step) = steps \o <<step>> /\ <<step>> \in Seq(T)
    BY AppendIsConcat
  <1>2. OfKind(kind, steps \o <<step>>) = OfKind(kind, steps) \o OfKind(kind, <<step>>)
    BY <1>1, OfKindConcat
  <1>3. OfKind(kind, <<step>>) = Picked(kind, Members(step))
    BY OfKindOne
  <1> QED BY <1>1, <1>2, <1>3

-----------------------------------------------------------------------------
(* Names.                                                                   *)

\* While a name is free, the first one is taken that is.
LEMMA FirstIsFree ==
    ASSUME NEW names \in Seq(Ids), NEW used, Range(names) \ used # {}
    PROVE  First(names, used) \in Range(names) \ used
  <1> DEFINE T == {n \in 1 .. Len(names) : names[n] \notin used}
  <1>1. DOMAIN names = 1 .. Len(names) /\ Len(names) \in Nat
    OBVIOUS
  <1>2. T \subseteq Nat /\ T # {}
    <2>1. PICK name \in Range(names) : name \notin used
      OBVIOUS
    <2>2. PICK n \in DOMAIN names : names[n] = name
      BY <2>1 DEF Range
    <2> QED BY <1>1, <2>1, <2>2
  <1>3. PICK t \in T : \A u \in T : ~(<<u, t>> \in OpToRel(<, Nat))
    <2> HIDE DEF T
    <2> QED BY <1>2, NatLessThanWellFounded, WFMin
  <1>4. ASSUME NEW m \in 1 .. t - 1 PROVE names[m] \in used
    <2>1. m \in 1 .. Len(names) /\ m < t /\ m \in Nat /\ t \in Nat
      BY <1>1
    <2>2. <<m, t>> \in OpToRel(<, Nat)
      BY <2>1 DEF OpToRel
    <2>3. m \notin T
      <3> HIDE DEF T
      <3> QED BY <1>3, <2>2
    <2> QED BY <2>1, <2>3
  <1>5. t \in DOMAIN names /\ names[t] \notin used /\ \A m \in 1 .. t - 1 : names[m] \in used
    BY <1>1, <1>4
  <1>6. PICK first : first = CHOOSE n \in DOMAIN names :
            names[n] \notin used /\ \A m \in 1 .. n - 1 : names[m] \in used
    OBVIOUS
  <1>7. first \in DOMAIN names /\ names[first] \notin used
    BY <1>5, <1>6
  <1>8. First(names, used) = names[first]
    BY <1>6 DEF First
  <1> QED BY <1>7, <1>8 DEF Range

\* One step of EntryNames.
NameOne(entries, task, used) ==
    Append(entries, IF task.id # Anonymous THEN task.id
                    ELSE First(TaskNames, Range(entries) \cup used))

\* f is how EntryNames has named the first n tasks, for every n.
Names(f, tasks, used) ==
    /\ f[0] = <<>>
    /\ \A n \in 1 .. Len(tasks) : f[n] = NameOne(f[n - 1], tasks[n], used)

\* EntryNames does what its recursion says.
LEMMA EntryNamesRuns ==
    ASSUME NEW L, NEW tasks \in Seq(L), NEW used
    PROVE  \E f : Names(f, tasks, used) /\ EntryNames(tasks, used) = f[Len(tasks)]
  <1> DEFINE Eq(f, m) == f = [n \in 0 .. m |-> IF n = 0 THEN <<>>
                                  ELSE NameOne(f[n - 1], tasks[n], used)]
  <1> DEFINE S == {m \in 0 .. Len(tasks) : \E f : Eq(f, m)}
  <1>1. Len(tasks) \in Nat
    OBVIOUS
  <1>2. 0 \in S
    <2> DEFINE f == [n \in 0 .. 0 |-> <<>>]
    <2>1. Eq(f, 0)
      OBVIOUS
    <2> HIDE DEF f, Eq
    <2> QED BY <1>1, <2>1
  <1>3. ASSUME NEW m \in 0 .. Len(tasks) - 1, m \in S PROVE m + 1 \in S
    <2>1. PICK f : Eq(f, m)
      BY <1>3
    <2> DEFINE g == [n \in 0 .. m + 1 |->
                       IF n = m + 1 THEN NameOne(f[m], tasks[m + 1], used) ELSE f[n]]
    <2>2. \A n \in 0 .. m + 1 : n = m + 1 \/ n \in 0 .. m
      OBVIOUS
    <2>3. \A n \in 0 .. m : g[n] = f[n] /\ (n # 0 => n - 1 \in 0 .. m)
      BY <1>1
    <2>4. g[m + 1] = NameOne(g[m + 1 - 1], tasks[m + 1], used)
      BY <1>1
    <2>5. \A n \in 0 .. m : g[n] = IF n = 0 THEN <<>> ELSE NameOne(g[n - 1], tasks[n], used)
      <3> HIDE DEF g
      <3> QED BY <2>1, <2>3
    <2>6. g = [n \in 0 .. m + 1 |-> g[n]]
      OBVIOUS
    <2>7. Eq(g, m + 1)
      <3> HIDE DEF g
      <3>1. \A n \in 0 .. m + 1 : g[n] = IF n = 0 THEN <<>> ELSE NameOne(g[n - 1], tasks[n], used)
        BY <2>2, <2>4, <2>5, <1>1
      <3> QED BY <2>6, <3>1
    <2> HIDE DEF Eq, g
    <2> QED BY <1>1, <2>7
  <1>4. Len(tasks) \in S
    <2> HIDE DEF S
    <2>1. \A k \in 0 .. Len(tasks) - 1 : k \in S => k + 1 \in S
      BY <1>3
    <2>2. \A k \in 0 .. Len(tasks) : k \in S
      BY ONLY <1>1, <1>2, <2>1, Stepwise
    <2> QED BY <1>1, <2>2
  <1>5. PICK f : Eq(f, Len(tasks))
    BY <1>4
  <1> DEFINE p == CHOOSE p : Eq(p, Len(tasks))
  <1>6. Eq(p, Len(tasks))
    <2> HIDE DEF Eq
    <2> QED BY <1>5
  <1>7. EntryNames(tasks, used) = p[Len(tasks)]
    BY DEF EntryNames, NameOne
  <1> HIDE DEF p
  <1>8. Names(p, tasks, used)
    <2>1. p[0] = <<>>
      BY <1>1, <1>6
    <2>2. \A n \in 1 .. Len(tasks) : n # 0 /\ n \in 0 .. Len(tasks)
      BY <1>1
    <2> QED BY <1>6, <2>1, <2>2 DEF Names
  <1> QED BY <1>7, <1>8

\* No two leaves have the same id.
Distinct(leaves) ==
    \A c, d \in DOMAIN leaves :
        c # d /\ leaves[c].id # Anonymous => leaves[c].id # leaves[d].id

\* Tasks with different ids get different names, if there are enough: those
\* with an id that id, the others one that is no such id.
LEMMA EntryNamesDiffer ==
    ASSUME NEW L, \A leaf \in L : leaf.id \in Ids \cup {Anonymous},
           NEW tasks \in Seq(L), Distinct(tasks),
           NEW taken, IdsOf(tasks) \subseteq taken,
           Cardinality(Range(TaskNames) \ taken) >= Len(tasks)
    PROVE  /\ EntryNames(tasks, IdsOf(tasks)) \in Seq(Ids)
           /\ Len(EntryNames(tasks, IdsOf(tasks))) = Len(tasks)
           /\ IsInjective(EntryNames(tasks, IdsOf(tasks)))
           /\ \A n \in DOMAIN tasks : tasks[n].id # Anonymous =>
                 EntryNames(tasks, IdsOf(tasks))[n] = tasks[n].id
  <1>1. PICK used : used = IdsOf(tasks)
    OBVIOUS
  <1>2. PICK f : Names(f, tasks, used) /\ EntryNames(tasks, used) = f[Len(tasks)]
    BY EntryNamesRuns
  <1>3. /\ Len(tasks) \in Nat /\ DOMAIN tasks = 1 .. Len(tasks)
        /\ \A n \in 1 .. Len(tasks) : tasks[n] \in L
        /\ \A n \in 1 .. Len(tasks) : tasks[n].id \in Ids \cup {Anonymous}
        /\ \A n \in 1 .. Len(tasks) : tasks[n].id # Anonymous => tasks[n].id \in used
    <2>1. /\ Len(tasks) \in Nat /\ DOMAIN tasks = 1 .. Len(tasks)
          /\ \A n \in 1 .. Len(tasks) : tasks[n] \in L
      OBVIOUS
    <2> QED BY <1>1, <2>1 DEF IdsOf
  <1> DEFINE Good(n) ==
          /\ f[n] \in Seq(Ids) /\ Len(f[n]) = n
          /\ \A i \in 1 .. n : IF tasks[i].id # Anonymous THEN f[n][i] = tasks[i].id
                                ELSE f[n][i] \notin used
          /\ \A i, j \in 1 .. n : i # j => f[n][i] # f[n][j]
             S == {n \in 0 .. Len(tasks) : Good(n)}
  <1>4. 0 \in S
    <2>1. f[0] = <<>> /\ <<>> \in Seq(Ids) /\ Len(<<>>) = 0 /\ 1 .. 0 = {} /\ 0 \in 0 .. Len(tasks)
      BY <1>2, <1>3 DEF Names
    <2> QED BY <2>1
  <1>5. ASSUME NEW n \in 0 .. Len(tasks) - 1, n \in S PROVE n + 1 \in S
    <2>1. n \in Nat /\ n + 1 \in 1 .. Len(tasks) /\ n + 1 - 1 = n /\ n + 1 \in 0 .. Len(tasks)
      BY <1>3
    <2>2. f[n + 1] = NameOne(f[n], tasks[n + 1], used)
      BY <1>2, <2>1 DEF Names
    <2>3. Good(n)
      BY <1>5
    <2>4. PICK name : name = IF tasks[n + 1].id # Anonymous THEN tasks[n + 1].id
                             ELSE First(TaskNames, Range(f[n]) \cup used)
      OBVIOUS
    <2>5. f[n + 1] = Append(f[n], name)
      BY <2>2, <2>4 DEF NameOne
    <2>6. Range(f[n]) = {f[n][i] : i \in 1 .. n}
      BY <2>3 DEF Range
    <2>7. ASSUME tasks[n + 1].id = Anonymous
          PROVE  name \in Range(TaskNames) \ (Range(f[n]) \cup used)
      <3>1. IsFiniteSet(1 .. n) /\ Cardinality(1 .. n) = n
        BY <2>1, FS_Interval
      <3>2. /\ IsFiniteSet({f[n][i] : i \in 1 .. n})
            /\ Cardinality({f[n][i] : i \in 1 .. n}) <= n
        <4>1. f[n] \in Surjection(1 .. n, {f[n][i] : i \in 1 .. n})
          BY <2>3 DEF Surjection
        <4> QED BY <3>1, <4>1, FS_Surjection
      <3>3. ~(Range(TaskNames) \ taken \subseteq Range(f[n]))
        <4> SUFFICES ASSUME Range(TaskNames) \ taken \subseteq Range(f[n]) PROVE FALSE
          OBVIOUS
        <4>1. /\ IsFiniteSet(Range(TaskNames) \ taken)
              /\ Cardinality(Range(TaskNames) \ taken) <= Cardinality({f[n][i] : i \in 1 .. n})
          BY <2>6, <3>2, FS_Subset
        <4>2. /\ Cardinality(Range(TaskNames) \ taken) \in Nat
              /\ Cardinality({f[n][i] : i \in 1 .. n}) \in Nat
          BY <3>2, <4>1, FS_CardinalityType
        <4> QED BY <1>3, <2>1, <3>2, <4>1, <4>2
      <3>4. Range(TaskNames) \ (Range(f[n]) \cup used) # {}
        BY <1>1, <3>3
      <3>5. First(TaskNames, Range(f[n]) \cup used) \in Range(TaskNames) \ (Range(f[n]) \cup used)
        BY <3>4, NamesAssumption, FirstIsFree
      <3> QED BY <2>4, <2>7, <3>5
    <2>8. name \in Ids
      <3>1. Range(TaskNames) \subseteq Ids
        BY NamesAssumption DEF Range
      <3> QED BY <1>3, <2>1, <2>4, <2>7, <3>1
    <2>9. /\ f[n + 1] \in Seq(Ids) /\ Len(f[n + 1]) = n + 1
          /\ \A i \in 1 .. n : f[n + 1][i] = f[n][i]
          /\ f[n + 1][n + 1] = name
      BY <2>3, <2>5, <2>8
    <2>10. \A i \in 1 .. n + 1 : i \in 1 .. n \/ i = n + 1
      BY <2>1
    <2>11. \A i \in 1 .. n : f[n][i] # name
      <3> SUFFICES ASSUME NEW i \in 1 .. n, f[n][i] = name PROVE FALSE
        OBVIOUS
      <3>1. tasks[n + 1].id # Anonymous /\ name = tasks[n + 1].id /\ name \in used
        BY <1>3, <2>1, <2>4, <2>6, <2>7
      <3>2. tasks[i].id = name
        BY <2>3, <3>1
      <3>3. i \in DOMAIN tasks /\ n + 1 \in DOMAIN tasks /\ i # n + 1
        BY <1>3, <2>1
      <3> QED BY <3>1, <3>2, <3>3 DEF Distinct
    <2>12. \A i \in 1 .. n + 1 : IF tasks[i].id # Anonymous THEN f[n + 1][i] = tasks[i].id
                                 ELSE f[n + 1][i] \notin used
      BY <2>3, <2>4, <2>7, <2>9, <2>10
    <2>13. \A i, j \in 1 .. n + 1 : i # j => f[n + 1][i] # f[n + 1][j]
      BY <2>3, <2>9, <2>10, <2>11
    <2> QED BY <2>1, <2>9, <2>12, <2>13
  <1> HIDE DEF S
  <1>6. \A n \in 0 .. Len(tasks) : n \in S
    BY ONLY <1>3, <1>4, <1>5, Stepwise
  <1>7. Good(Len(tasks))
    BY <1>3, <1>6 DEF S
  <1>8. IsInjective(f[Len(tasks)])
    BY <1>7 DEF IsInjective
  <1> QED BY <1>1, <1>2, <1>3, <1>7, <1>8

-----------------------------------------------------------------------------
(* The tasks of a job's steps.                                              *)

\* What a step of an authored job, or a member of one, can be.
AnyLeaf == Leaf({"run", "task"}) \cup Control

\* A step has the ids of its members, and a control has none.
LEMMA MembersFacts ==
    ASSUME NEW step \in Authored
    PROVE  /\ Members(step) \in Seq(AnyLeaf)
           /\ ~IsControl(step) => /\ Members(step) \in Seq(Leaf({"run", "task"}))
                                  /\ IdsOf(Members(step)) = StepIds(step)
           /\ IsControl(step) => Members(step) = <<step>>
  <1>1. Leaf({"run", "task"}) \subseteq AnyLeaf /\ Control \subseteq AnyLeaf
    BY DEF AnyLeaf
  <1>2. CASE step \in Leaf({"run", "task"})
    <2>1. step.kind \in {"run", "task"}
      BY <1>2 DEF Leaf
    <2>2. Members(step) = <<step>> /\ ~IsControl(step)
      BY <2>1 DEF Members, IsControl
    <2>3. DOMAIN <<step>> = {1} /\ <<step>>[1] = step
      OBVIOUS
    <2>4. IdsOf(<<step>>) = {step.id} \ {Anonymous}
      BY <2>3 DEF IdsOf
    <2>5. StepIds(step) = {step.id} \ {Anonymous}
      BY <2>1, <2>2 DEF StepIds
    <2> QED BY <1>1, <1>2, <2>2, <2>4, <2>5
  <1>3. CASE step \in Group({"run", "task"})
    <2>1. step.kind = "parallel" /\ step.children \in Seq(Leaf({"run", "task"}))
      BY <1>3 DEF Group
    <2>2. Members(step) = step.children /\ ~IsControl(step)
      BY <2>1 DEF Members, IsControl
    <2>3. IdsOf(step.children) = StepIds(step)
      BY <2>1 DEF IdsOf, StepIds
    <2>4. step.children \in Seq(AnyLeaf)
      BY <1>1, <2>1
    <2> QED BY <2>1, <2>2, <2>3, <2>4
  <1>4. CASE step \in Control
    <2>1. step.kind \in {"wait", "wait-all", "cancel"}
      BY <1>4 DEF Control
    <2> QED BY <1>1, <1>4, <2>1 DEF Members, IsControl
  <1> QED BY <1>2, <1>3, <1>4 DEF Authored

\* Different leaves stay different when some are picked.
LEMMA PickedDistinct ==
    ASSUME NEW kind, NEW L, NEW leaves \in Seq(L), Distinct(leaves)
    PROVE  /\ Distinct(Picked(kind, leaves))
           /\ IdsOf(Picked(kind, leaves)) \subseteq IdsOf(leaves)
  <1>1. PICK f : Picks(f, kind, leaves) /\ Picked(kind, leaves) = f[Len(leaves)]
    BY PickedRuns
  <1>2. Len(leaves) \in Nat /\ DOMAIN leaves = 1 .. Len(leaves)
        /\ \A n \in 1 .. Len(leaves) : leaves[n] \in L
    OBVIOUS
  <1> DEFINE Good(n) ==
          /\ f[n] \in Seq(L)
          /\ \A c \in 1 .. Len(f[n]) : \E m \in 1 .. n : f[n][c] = leaves[m]
          /\ \A c, d \in 1 .. Len(f[n]) :
               c # d /\ f[n][c].id # Anonymous => f[n][c].id # f[n][d].id
             S == {n \in 0 .. Len(leaves) : Good(n)}
  <1>3. 0 \in S
    <2>1. f[0] = <<>> /\ <<>> \in Seq(L) /\ Len(<<>>) = 0 /\ 1 .. 0 = {} /\ 0 \in 0 .. Len(leaves)
      BY <1>1, <1>2 DEF Picks
    <2> QED BY <2>1
  <1>4. ASSUME NEW n \in 0 .. Len(leaves) - 1, n \in S PROVE n + 1 \in S
    <2>1. n \in Nat /\ n + 1 \in 1 .. Len(leaves) /\ n + 1 - 1 = n /\ n + 1 \in 0 .. Len(leaves)
          /\ \A m \in 1 .. n : m \in 1 .. n + 1 /\ m \in 1 .. Len(leaves) /\ m # n + 1
      BY <1>2
    <2>2. f[n + 1] = PickOne(kind, f[n], leaves[n + 1])
      BY <1>1, <2>1 DEF Picks
    <2>3. Good(n)
      BY <1>4
    <2>4. PICK leaf \in L : leaf = leaves[n + 1]
      BY <1>2, <2>1
    <2>5. PICK old \in Seq(L), last \in Nat : old = f[n] /\ last = Len(old)
      BY <2>3
    <2>6. CASE leaf.kind # kind
      <3>1. f[n + 1] = f[n]
        BY <2>2, <2>4, <2>6 DEF PickOne
      <3>2. Good(n + 1)
        BY <2>1, <2>3, <3>1
      <3> QED BY <2>1, <3>2
    <2>7. CASE leaf.kind = kind
      <3>1. f[n + 1] = Append(old, leaf)
        BY <2>2, <2>4, <2>5, <2>7 DEF PickOne
      <3>2. /\ f[n + 1] \in Seq(L) /\ Len(f[n + 1]) = last + 1
            /\ \A c \in 1 .. last : f[n + 1][c] = old[c]
            /\ f[n + 1][last + 1] = leaf
            /\ \A c \in 1 .. last + 1 : c \in 1 .. last \/ c = last + 1
        BY <2>5, <3>1
      <3>3. ASSUME NEW c \in 1 .. Len(f[n + 1])
            PROVE  \E m \in 1 .. n + 1 : f[n + 1][c] = leaves[m]
        <4>1. CASE c \in 1 .. last
          <5>1. PICK m \in 1 .. n : old[c] = leaves[m]
            BY <2>3, <2>5, <4>1
          <5> QED BY <2>1, <3>2, <4>1, <5>1
        <4>2. CASE c = last + 1
          BY <2>1, <2>4, <3>2, <4>2
        <4> QED BY <3>2, <4>1, <4>2
      <3>4. \A c \in 1 .. last : (old[c].id # Anonymous \/ leaf.id # Anonymous) => old[c].id # leaf.id
        <4> SUFFICES ASSUME NEW c \in 1 .. last, old[c].id # Anonymous \/ leaf.id # Anonymous
                     PROVE  old[c].id # leaf.id
          OBVIOUS
        <4>1. PICK m \in 1 .. n : old[c] = leaves[m]
          BY <2>3, <2>5
        <4>2. m \in DOMAIN leaves /\ n + 1 \in DOMAIN leaves /\ m # n + 1
          BY <1>2, <2>1
        <4> QED BY <2>4, <4>1, <4>2 DEF Distinct
      <3>5. ASSUME NEW c \in 1 .. Len(f[n + 1]), NEW d \in 1 .. Len(f[n + 1]),
                   c # d, f[n + 1][c].id # Anonymous
            PROVE  f[n + 1][c].id # f[n + 1][d].id
        <4>1. CASE c \in 1 .. last /\ d \in 1 .. last
          <5>1. \A k, l \in 1 .. last : k # l /\ old[k].id # Anonymous => old[k].id # old[l].id
            BY <2>3, <2>5
          <5> QED BY <3>2, <3>5, <4>1, <5>1
        <4>2. CASE c = last + 1 \/ d = last + 1
          BY <3>2, <3>4, <3>5, <4>2
        <4> QED BY <3>2, <4>1, <4>2
      <3>6. Good(n + 1)
        BY <3>2, <3>3, <3>5
      <3> QED BY <2>1, <3>6
    <2> QED BY <2>6, <2>7
  <1> HIDE DEF S, Good
  <1>5. \A n \in 0 .. Len(leaves) : n \in S
    BY ONLY <1>2, <1>3, <1>4, Stepwise
  <1>6. Good(Len(leaves))
    <2>1. Len(leaves) \in S
      BY <1>2, <1>5
    <2> QED BY ONLY <2>1 DEF S
  <1> USE DEF Good
  <1>7. DOMAIN f[Len(leaves)] = 1 .. Len(f[Len(leaves)])
    BY <1>6
  <1>8. IdsOf(f[Len(leaves)]) \subseteq IdsOf(leaves)
    <2>1. \A c \in DOMAIN f[Len(leaves)] : \E m \in DOMAIN leaves : f[Len(leaves)][c] = leaves[m]
      BY <1>2, <1>6, <1>7
    <2> QED BY ONLY <2>1 DEF IdsOf
  <1> QED BY <1>1, <1>6, <1>7, <1>8 DEF Distinct

\* Whether some leaf of a kind is among the members of steps.
Having(kind, steps) == \E n \in DOMAIN steps : Picked(kind, Members(steps[n])) # <<>>

\* Nothing of a kind is found exactly if no step has it.
LEMMA OfKindNone ==
    ASSUME NEW kind, NEW T, NEW L, \A step \in T : Members(step) \in Seq(L),
           NEW steps \in Seq(T)
    PROVE  OfKind(kind, steps) = <<>> <=> ~Having(kind, steps)
  <1>1. PICK f : Finds(f, kind, steps) /\ OfKind(kind, steps) = f[Len(steps)]
    BY OfKindRuns
  <1>2. Len(steps) \in Nat /\ DOMAIN steps = 1 .. Len(steps)
        /\ \A n \in 1 .. Len(steps) : steps[n] \in T
    OBVIOUS
  <1>3. PICK M : M = {leaf \in L : leaf.kind = kind}
    OBVIOUS
  <1>4. /\ \A n \in 0 .. Len(steps) : f[n] \in Seq(M)
        /\ \A n \in 1 .. Len(steps) : Picked(kind, Members(steps[n])) \in Seq(M)
    <2>1. \A n \in 0 .. Len(steps) : f[n] \in Seq(M)
      BY <1>1, <1>3, FindsType
    <2>2. \A n \in 1 .. Len(steps) : Members(steps[n]) \in Seq(L)
      BY <1>2
    <2>3. \A n \in 1 .. Len(steps) : Picked(kind, Members(steps[n])) \in Seq(M)
      BY <1>3, <2>2, PickedFacts
    <2> QED BY <2>1, <2>3
  <1> DEFINE Good(n) ==
          f[n] = <<>> <=> \A m \in 1 .. n : Picked(kind, Members(steps[m])) = <<>>
             S == {n \in 0 .. Len(steps) : Good(n)}
  <1>5. 0 \in S
    <2>1. f[0] = <<>> /\ 1 .. 0 = {} /\ 0 \in 0 .. Len(steps)
      BY <1>1, <1>2 DEF Finds
    <2> QED BY <2>1
  <1>6. ASSUME NEW n \in 0 .. Len(steps) - 1, n \in S PROVE n + 1 \in S
    <2>1. n \in Nat /\ n + 1 \in 1 .. Len(steps) /\ n + 1 - 1 = n /\ n + 1 \in 0 .. Len(steps)
          /\ n \in 0 .. Len(steps)
          /\ \A m : m \in 1 .. n + 1 <=> m \in 1 .. n \/ m = n + 1
      BY <1>2
    <2>2. f[n + 1] = Joined(f[n], kind, steps[n + 1])
      BY <1>1, <2>1 DEF Finds
    <2>3. PICK x \in Seq(M), y \in Seq(M) : x = f[n] /\ y = Picked(kind, Members(steps[n + 1]))
      BY <1>4, <2>1
    <2>4. x \o y = <<>> <=> x = <<>> /\ y = <<>>
      BY ONLY ConcatEqualIffEmpty
    <2>5. f[n + 1] = x \o y
      BY ONLY <2>2, <2>3 DEF Joined
    <2>6. Good(n)
      BY <1>6
    <2>7. Good(n + 1)
      BY ONLY <2>1, <2>3, <2>4, <2>5, <2>6
    <2> QED BY <2>1, <2>7
  <1> HIDE DEF S
  <1>7. \A n \in 0 .. Len(steps) : n \in S
    BY ONLY <1>2, <1>5, <1>6, Stepwise
  <1>8. Good(Len(steps))
    BY <1>2, <1>7 DEF S
  <1> QED BY <1>1, <1>2, <1>8 DEF Having

\* Different leaves followed by others with other ids are different.
LEMMA ConcatDistinct ==
    ASSUME NEW L, NEW x \in Seq(L), NEW y \in Seq(L), Distinct(x), Distinct(y),
           IdsOf(x) \cap IdsOf(y) = {}
    PROVE  Distinct(x \o y) /\ IdsOf(x \o y) = IdsOf(x) \cup IdsOf(y)
  <1>1. PICK z : z = x \o y
    OBVIOUS
  <1>2. PICK k \in Nat, l \in Nat : k = Len(x) /\ l = Len(y)
    OBVIOUS
  <1>3. /\ DOMAIN x = 1 .. k /\ DOMAIN y = 1 .. l /\ DOMAIN z = 1 .. k + l
        /\ \A n \in 1 .. k : z[n] = x[n] /\ n \in 1 .. k + l
        /\ \A n \in 1 .. l : z[k + n] = y[n] /\ k + n \in 1 .. k + l
        /\ \A n \in 1 .. k + l : n \in 1 .. k \/ (n - k \in 1 .. l /\ z[n] = y[n - k])
    BY <1>1, <1>2
  <1>4. ASSUME NEW c \in DOMAIN z, NEW d \in DOMAIN z, c # d, z[c].id # Anonymous
        PROVE  z[c].id # z[d].id
    <2>1. CASE c \in 1 .. k /\ d \in 1 .. k
      BY <1>3, <1>4, <2>1 DEF Distinct
    <2>2. CASE c \notin 1 .. k /\ d \notin 1 .. k
      <3>1. c - k \in 1 .. l /\ d - k \in 1 .. l /\ c - k # d - k
        BY <1>2, <1>3, <1>4, <2>2
      <3> QED BY <1>3, <1>4, <2>2, <3>1 DEF Distinct
    <2>3. CASE c \in 1 .. k /\ d \notin 1 .. k
      <3>1. d - k \in DOMAIN y /\ z[d] = y[d - k] /\ c \in DOMAIN x /\ z[c] = x[c]
        BY <1>3, <2>3
      <3> QED BY <1>4, <3>1 DEF IdsOf
    <2>4. CASE c \notin 1 .. k /\ d \in 1 .. k
      <3>1. c - k \in DOMAIN y /\ z[c] = y[c - k] /\ d \in DOMAIN x /\ z[d] = x[d]
        BY <1>3, <2>4
      <3> QED BY <1>4, <3>1 DEF IdsOf
    <2> QED BY <2>1, <2>2, <2>3, <2>4
  <1>5. IdsOf(z) = IdsOf(x) \cup IdsOf(y)
    <2>1. \A id : (\E n \in DOMAIN z : z[n].id = id) <=>
                 (\E n \in DOMAIN x : x[n].id = id) \/ (\E n \in DOMAIN y : y[n].id = id)
      BY <1>3
    <2>2. {z[n].id : n \in DOMAIN z} = {x[n].id : n \in DOMAIN x} \cup {y[n].id : n \in DOMAIN y}
      BY ONLY <2>1
    <2> QED BY ONLY <2>2 DEF IdsOf
  <1> QED BY <1>1, <1>4, <1>5 DEF Distinct

\* No id occurs twice among steps or within one.
Apart(steps) ==
    /\ \A n \in DOMAIN steps : ~IsControl(steps[n]) => Distinct(Members(steps[n]))
    /\ \A m, n \in DOMAIN steps : m # n => StepIds(steps[m]) \cap StepIds(steps[n]) = {}

\* No id occurs twice in steps that validation accepts.
LEMMA AcceptedApart ==
    ASSUME NEW steps \in Seq(Authored), steps = <<>> \/ Accepted(steps)
    PROVE  Apart(steps)
  <1>1. CASE steps = <<>>
    BY <1>1 DEF Apart
  <1>2. CASE Accepted(steps)
    <2>1. ASSUME NEW n \in DOMAIN steps, ~IsControl(steps[n]) PROVE Distinct(Members(steps[n]))
      <3>1. CASE steps[n].kind = "parallel"
        BY <1>2, <3>1 DEF Accepted, GroupAccepted, Distinct, Members
      <3>2. CASE steps[n].kind # "parallel"
        <4>1. Members(steps[n]) = <<steps[n]>> /\ DOMAIN <<steps[n]>> = {1}
          BY <3>2 DEF Members
        <4> QED BY <4>1 DEF Distinct
      <3> QED BY <3>1, <3>2
    <2> QED BY <1>2, <2>1 DEF Accepted, Apart
  <1> QED BY <1>1, <1>2

\* A control is no task, nor calls or prepares anything.
LEMMA ControlHasNone ==
    ASSUME NEW step \in Control, NEW kind \in {"run", "task", "entry", "prepare"}
    PROVE  Picked(kind, <<step>>) = <<>>
  <1>1. <<step>> \in Seq({step}) /\ DOMAIN <<step>> = {1} /\ <<step>>[1] = step
    OBVIOUS
  <1>2. step.kind # kind
    BY DEF Control
  <1> QED BY <1>1, <1>2, PickedFacts

\* The tasks of such steps have different ids, which are those of steps.
LEMMA TasksFacts ==
    ASSUME NEW steps \in Seq(Authored), Apart(steps)
    PROVE  /\ Tasks(steps) \in Seq(Leaf({"task"}))
           /\ Distinct(Tasks(steps))
           /\ IdsOf(Tasks(steps)) \subseteq TakenIds(steps)
  <1>1. PICK f : Finds(f, "task", steps) /\ Tasks(steps) = f[Len(steps)]
    BY OfKindRuns DEF Tasks
  <1>2. Len(steps) \in Nat /\ DOMAIN steps = 1 .. Len(steps)
        /\ \A n \in 1 .. Len(steps) : steps[n] \in Authored
    OBVIOUS
  <1>3. PICK L : L = Leaf({"task"})
    OBVIOUS
  <1>4. L = {leaf \in AnyLeaf : leaf.kind = "task"}
    BY <1>3 DEF AnyLeaf, Leaf, Control
  <1>5. ASSUME NEW n \in 1 .. Len(steps)
        PROVE  LET picked == Picked("task", Members(steps[n]))
               IN  /\ picked \in Seq(L) /\ Distinct(picked)
                   /\ IdsOf(picked) \subseteq StepIds(steps[n])
    <2>1. Members(steps[n]) \in Seq(AnyLeaf)
      BY <1>2, MembersFacts
    <2>2. Picked("task", Members(steps[n])) \in Seq(L)
      BY <1>4, <2>1, PickedFacts
    <2>3. CASE IsControl(steps[n])
      <3>1. steps[n] \in Control /\ Members(steps[n]) = <<steps[n]>>
        <4>1. steps[n] \notin Leaf({"run", "task"}) /\ steps[n] \notin Group({"run", "task"})
          BY <2>3 DEF IsControl, Leaf, Group
        <4> QED BY <1>2, <2>3, <4>1, MembersFacts DEF Authored
      <3>2. Picked("task", Members(steps[n])) = <<>>
        BY <3>1, ControlHasNone
      <3> QED BY <2>2, <3>2 DEF Distinct, IdsOf
    <2>4. CASE ~IsControl(steps[n])
      <3>1. Distinct(Members(steps[n])) /\ IdsOf(Members(steps[n])) = StepIds(steps[n])
        BY <1>2, <2>4, MembersFacts DEF Apart
      <3> QED BY <2>1, <2>2, <3>1, PickedDistinct
    <2> QED BY <2>3, <2>4
  <1> DEFINE Ids_(n) == UNION {StepIds(steps[m]) : m \in 1 .. n}
             Good(n) == /\ f[n] \in Seq(L) /\ Distinct(f[n])
                        /\ IdsOf(f[n]) \subseteq Ids_(n)
             S == {n \in 0 .. Len(steps) : Good(n)}
  <1>6. 0 \in S
    <2>1. f[0] = <<>> /\ <<>> \in Seq(L) /\ 0 \in 0 .. Len(steps) /\ DOMAIN <<>> = {}
      BY <1>1, <1>2 DEF Finds
    <2>2. Distinct(<<>>) /\ IdsOf(<<>>) = {}
      BY <2>1 DEF Distinct, IdsOf
    <2> QED BY <2>1, <2>2
  <1>7. ASSUME NEW n \in 0 .. Len(steps) - 1, n \in S PROVE n + 1 \in S
    <2>1. /\ n \in Nat /\ n + 1 \in 1 .. Len(steps) /\ n + 1 - 1 = n /\ n + 1 \in 0 .. Len(steps)
          /\ \A m : m \in 1 .. n + 1 <=> m \in 1 .. n \/ m = n + 1
          /\ \A m \in 1 .. n : m \in 1 .. Len(steps) /\ m # n + 1
      BY <1>2
    <2>2. f[n + 1] = Joined(f[n], "task", steps[n + 1])
      BY <1>1, <2>1 DEF Finds
    <2>3. Good(n)
      BY <1>7
    <2>4. PICK x \in Seq(L), y \in Seq(L) : x = f[n] /\ y = Picked("task", Members(steps[n + 1]))
      BY <1>5, <2>1, <2>3
    <2>5. f[n + 1] = x \o y
      BY ONLY <2>2, <2>4 DEF Joined
    <2>6. Distinct(x) /\ Distinct(y) /\ IdsOf(x) \subseteq Ids_(n) /\ IdsOf(y) \subseteq StepIds(steps[n + 1])
      BY <1>5, <2>1, <2>3, <2>4
    <2>7. Ids_(n) \cap StepIds(steps[n + 1]) = {}
      BY <1>2, <2>1 DEF Apart
    <2>8. Ids_(n + 1) = Ids_(n) \cup StepIds(steps[n + 1])
      BY <2>1
    <2>9. IdsOf(x) \cap IdsOf(y) = {}
      BY <2>6, <2>7
    <2>10. Distinct(x \o y) /\ IdsOf(x \o y) = IdsOf(x) \cup IdsOf(y)
      BY ONLY <2>6, <2>9, ConcatDistinct
    <2>11. x \o y \in Seq(L)
      BY ONLY ConcatProperties
    <2> HIDE DEF Ids_
    <2>12. Good(n + 1)
      BY ONLY <2>5, <2>6, <2>8, <2>10, <2>11
    <2> QED BY ONLY <2>1, <2>12 DEF S
  <1> HIDE DEF S, Good
  <1>8. \A n \in 0 .. Len(steps) : n \in S
    BY ONLY <1>2, <1>6, <1>7, Stepwise
  <1>9. Good(Len(steps))
    <2>1. Len(steps) \in S
      BY <1>2, <1>8
    <2> QED BY ONLY <2>1 DEF S
  <1>10. Ids_(Len(steps)) = TakenIds(steps)
    BY <1>2 DEF TakenIds
  <1> QED BY <1>1, <1>3, <1>9, <1>10 DEF Good

\* Steps of at most so many members each have at most so many tasks.
LEMMA TasksBounded ==
    ASSUME NEW steps \in Seq(Authored), NEW most \in Nat,
           \A n \in DOMAIN steps : Len(Members(steps[n])) <= most
    PROVE  Len(Tasks(steps)) <= most * Len(steps)
  <1>1. PICK f : Finds(f, "task", steps) /\ Tasks(steps) = f[Len(steps)]
    BY OfKindRuns DEF Tasks
  <1>2. Len(steps) \in Nat /\ DOMAIN steps = 1 .. Len(steps)
        /\ \A n \in 1 .. Len(steps) : steps[n] \in Authored
    OBVIOUS
  <1>3. PICK L : L = {leaf \in AnyLeaf : leaf.kind = "task"}
    OBVIOUS
  <1>4. \A n \in 0 .. Len(steps) : f[n] \in Seq(L)
    <2>1. \A step \in Authored : Members(step) \in Seq(AnyLeaf)
      BY MembersFacts
    <2> QED BY <1>1, <1>3, <2>1, FindsType
  <1>5. ASSUME NEW n \in 1 .. Len(steps)
        PROVE  LET picked == Picked("task", Members(steps[n]))
               IN  picked \in Seq(L) /\ Len(picked) <= most
    <2>1. Members(steps[n]) \in Seq(AnyLeaf) /\ Len(Members(steps[n])) <= most
      BY <1>2, MembersFacts
    <2>2. /\ Picked("task", Members(steps[n])) \in Seq(L)
          /\ Len(Picked("task", Members(steps[n]))) <= Len(Members(steps[n]))
      BY <1>3, <2>1, PickedFacts
    <2>3. Len(Members(steps[n])) \in Nat /\ Len(Picked("task", Members(steps[n]))) \in Nat
      BY <2>1, <2>2
    <2> QED BY <2>1, <2>2, <2>3
  <1> DEFINE S == {n \in 0 .. Len(steps) : Len(f[n]) <= most * n}
  <1>6. 0 \in S
    <2>1. f[0] = <<>> /\ Len(<<>>) = 0 /\ 0 \in 0 .. Len(steps) /\ most * 0 = 0
      BY <1>1, <1>2 DEF Finds
    <2> QED BY <2>1
  <1>7. ASSUME NEW n \in 0 .. Len(steps) - 1, n \in S PROVE n + 1 \in S
    <2>1. /\ n \in Nat /\ n + 1 \in 1 .. Len(steps) /\ n + 1 - 1 = n /\ n + 1 \in 0 .. Len(steps)
          /\ n \in 0 .. Len(steps)
      BY <1>2
    <2>2. f[n + 1] = Joined(f[n], "task", steps[n + 1])
      BY <1>1, <2>1 DEF Finds
    <2>3. PICK x \in Seq(L), y \in Seq(L) : x = f[n] /\ y = Picked("task", Members(steps[n + 1]))
      BY <1>4, <1>5, <2>1
    <2>4. f[n + 1] = x \o y
      BY ONLY <2>2, <2>3 DEF Joined
    <2>5. Len(x) <= most * n /\ Len(y) <= most
      BY <1>5, <1>7, <2>1, <2>3
    <2>6. Len(x \o y) = Len(x) + Len(y) /\ Len(x) \in Nat /\ Len(y) \in Nat
      BY ONLY ConcatProperties, LenProperties, <2>3
    <2>7. most * (n + 1) = most * n + most /\ most * n \in Nat
      BY <2>1
    <2>8. Len(f[n + 1]) <= most * (n + 1)
      BY ONLY <2>4, <2>5, <2>6, <2>7
    <2> QED BY ONLY <2>1, <2>8 DEF S
  <1> HIDE DEF S
  <1>8. \A n \in 0 .. Len(steps) : n \in S
    BY ONLY <1>2, <1>6, <1>7, Stepwise
  <1>9. Len(steps) \in S
    BY <1>2, <1>8
  <1> QED BY <1>1, <1>9 DEF S

-----------------------------------------------------------------------------
(* What lowering makes of one step.                                         *)

\* What lowering emits: steps that call one of the entrypoints E, the runs and
\* calls that a group holds, what stands for an authored step, and any of a job.
CallsOf(E) == [kind : {"entry"}, id : Ids \cup {Anonymous}, background : Settings, entry : E]
InGroup(E) == Leaf({"run"}) \cup CallsOf(E)
Lowered(E) == InGroup(E) \cup [kind : {"parallel"}, children : Seq(InGroup(E))] \cup Control
Emitted(E) == Lowered(E) \cup Leaf({"prepare"})
\* The preparation step.
PrepareStep(id) == [kind |-> "prepare", id |-> id, background |-> "unset"]

\* A step that calls a task stands for the task; every other leaf is itself.
Like(new, leaf) ==
    /\ new.id = leaf.id /\ new.background = leaf.background
    /\ new.kind = IF leaf.kind = "task" THEN "entry" ELSE leaf.kind

\* Calls of the entrypoints after the first so many are those of tasks.
Match(calls, tasks, before, entries) ==
    /\ Len(calls) = Len(tasks)
    /\ \A n \in 1 .. Len(tasks) : /\ calls[n].id = tasks[n].id
                                  /\ calls[n].entry = entries[before + n]

\* What lowerSteps keeps: the steps emitted so far, how many tasks it has met
\* and whether it has prepared.
Accs(X) == [out : X, tasks : Nat, prepared : BOOLEAN]

\* The steps emitted once the preparation step is among them.
Readied(acc, id) == IF acc.prepared THEN acc.out ELSE Append(acc.out, PrepareStep(id))

\* Prepare emits the preparation step unless it is there, and does no more.
LEMMA PrepareIs ==
    ASSUME NEW G, NEW acc \in Accs(Seq(G)), NEW id,
           acc.prepared \/ PrepareStep(id) \in G, NEW new, new = Prepare(acc, id)
    PROVE  /\ new \in Accs(Seq(G)) /\ new.out = Readied(acc, id)
           /\ new.tasks = acc.tasks /\ new.prepared
  <1>1. CASE acc.prepared
    <2>1. new = acc
      BY <1>1 DEF Prepare
    <2> QED BY <1>1, <2>1 DEF Readied
  <1>2. CASE ~acc.prepared
    <2>1. acc.out \in Seq(G)
      BY DEF Accs
    <2>2. PICK Y : Y = Seq(G)
      OBVIOUS
    <2>6. PICK q \in Y : q = Append(acc.out, PrepareStep(id))
      BY <1>2, <2>1, <2>2, AppendProperties
    <2>3. new = [acc EXCEPT !.out = Append(acc.out, PrepareStep(id)), !.prepared = TRUE]
      BY ONLY <1>2, new = Prepare(acc, id) DEF Prepare, PrepareStep
    <2>4. new = [acc EXCEPT !.out = q, !.prepared = TRUE]
      BY ONLY <2>6, <2>3
    <2>7. acc \in Accs(Y)
      BY <2>2
    <2>5. new \in Accs(Y) /\ new.out = q /\ new.tasks = acc.tasks /\ new.prepared
      <3>1. new.prepared
        BY ONLY <2>4, <2>6, <2>7 DEF Accs
      <3> QED BY ONLY <2>4, <2>6, <2>7, <3>1 DEF Accs
    <2> QED BY ONLY <1>2, <2>2, <2>5, <2>6 DEF Readied
  <1> QED BY <1>1, <1>2

\* The step that calls the entrypoint of a task.
CallOf(leaf, entry) == [kind |-> "entry", id |-> leaf.id, background |-> leaf.background,
                        entry |-> entry]

\* A run is emitted as it is; for a task, the preparation step comes first, and
\* its call counts.
LEMMA LowerLeafIs ==
    ASSUME NEW G, NEW acc \in Accs(Seq(G)), NEW leaf, NEW id, NEW entries,
           acc.prepared \/ leaf.kind # "task" \/ PrepareStep(id) \in G,
           NEW new, new = LowerLeaf(acc, leaf, id, entries)
    PROVE  /\ leaf \in G /\ leaf.kind # "task" =>
                /\ new \in Accs(Seq(G))
                /\ new.out = Append(acc.out, leaf)
                /\ new.tasks = acc.tasks
                /\ new.prepared <=> acc.prepared
           /\ CallOf(leaf, entries[acc.tasks + 1]) \in G /\ leaf.kind = "task" =>
                /\ new \in Accs(Seq(G))
                /\ new.out = Append(Readied(acc, id), CallOf(leaf, entries[acc.tasks + 1]))
                /\ new.tasks = acc.tasks + 1
                /\ new.prepared
  <1>1. ASSUME leaf \in G, leaf.kind # "task"
        PROVE  /\ new \in Accs(Seq(G))
               /\ new.out = Append(acc.out, leaf)
               /\ new.tasks = acc.tasks
               /\ new.prepared <=> acc.prepared
    <2>1. new = [acc EXCEPT !.out = Append(acc.out, leaf)]
      BY ONLY <1>1, new = LowerLeaf(acc, leaf, id, entries) DEF LowerLeaf
    <2>2. acc.out \in Seq(G)
      BY DEF Accs
    <2>3. PICK Y : Y = Seq(G)
      OBVIOUS
    <2>4. PICK q \in Y : q = Append(acc.out, leaf)
      BY <1>1, <2>2, <2>3, AppendProperties
    <2>5. new = [acc EXCEPT !.out = q] /\ acc \in Accs(Y)
      BY <2>1, <2>3, <2>4
    <2>6. new \in Accs(Y) /\ new.out = q /\ new.tasks = acc.tasks /\ (new.prepared <=> acc.prepared)
      <3>1. new.prepared <=> acc.prepared
        BY ONLY <2>4, <2>5 DEF Accs
      <3> QED BY ONLY <2>4, <2>5, <3>1 DEF Accs
    <2> QED BY ONLY <2>3, <2>4, <2>6
  <1>2. ASSUME CallOf(leaf, entries[acc.tasks + 1]) \in G, leaf.kind = "task"
        PROVE  /\ new \in Accs(Seq(G))
               /\ new.out = Append(Readied(acc, id), CallOf(leaf, entries[acc.tasks + 1]))
               /\ new.tasks = acc.tasks + 1
               /\ new.prepared
    <2>1. PICK ready : ready = Prepare(acc, id)
      OBVIOUS
    <2>2. PICK call \in G : call = CallOf(leaf, entries[acc.tasks + 1])
      BY <1>2
    <2>3. /\ ready \in Accs(Seq(G)) /\ ready.out = Readied(acc, id)
          /\ ready.tasks = acc.tasks /\ ready.prepared
      BY <1>2, <2>1, PrepareIs
    <2>4. new = [ready EXCEPT !.out = Append(ready.out, call), !.tasks = acc.tasks + 1]
      BY ONLY <1>2, <2>1, <2>2, new = LowerLeaf(acc, leaf, id, entries) DEF LowerLeaf, CallOf
    <2>5. PICK Y : Y = Seq(G)
      OBVIOUS
    <2>6. PICK t \in Nat : t = acc.tasks + 1
      BY DEF Accs
    <2>7. PICK q \in Y : q = Append(ready.out, call)
      <3>1. ready.out \in Seq(G)
        BY <2>3 DEF Accs
      <3> QED BY <2>5, <3>1, AppendProperties
    <2>8. new = [ready EXCEPT !.out = q, !.tasks = t] /\ ready \in Accs(Y)
      BY <2>3, <2>4, <2>5, <2>6, <2>7
    <2>9. new \in Accs(Y) /\ new.out = q /\ new.tasks = t /\ (new.prepared <=> ready.prepared)
      <3>1. new.prepared <=> ready.prepared
        BY ONLY <2>6, <2>7, <2>8 DEF Accs
      <3> QED BY ONLY <2>6, <2>7, <2>8, <3>1 DEF Accs
    <2> QED BY ONLY <2>2, <2>3, <2>5, <2>6, <2>7, <2>9
  <1> QED BY <1>1, <1>2

\* Calls that match some tasks, followed by calls that match the next ones.
LEMMA MatchConcat ==
    ASSUME NEW C, NEW T, NEW x \in Seq(C), NEW y \in Seq(T), NEW u \in Seq(C), NEW v \in Seq(T),
           NEW t \in Nat, NEW entries, Match(x, y, t, entries), Match(u, v, t + Len(y), entries)
    PROVE  Match(x \o u, y \o v, t, entries)
  <1>1. PICK a : a = x \o u
    OBVIOUS
  <1>2. PICK b : b = y \o v
    OBVIOUS
  <1>3. PICK k \in Nat, l \in Nat : k = Len(y) /\ l = Len(v) /\ k = Len(x) /\ l = Len(u)
    BY DEF Match
  <1>31. k = Len(y) /\ l = Len(v)
    BY <1>3
  <1>4. /\ Len(a) = k + l
        /\ \A n \in 1 .. k + l : a[n] = IF n <= k THEN x[n] ELSE u[n - k]
    BY ONLY <1>1, <1>3, ConcatProperties, x \in Seq(C), u \in Seq(C)
  <1>5. /\ Len(b) = k + l
        /\ \A n \in 1 .. k + l : b[n] = IF n <= k THEN y[n] ELSE v[n - k]
    BY ONLY <1>2, <1>31, ConcatProperties, y \in Seq(T), v \in Seq(T)
  <1>6. /\ \A n \in 1 .. k : x[n].id = y[n].id /\ x[n].entry = entries[t + n]
        /\ \A n \in 1 .. l : u[n].id = v[n].id /\ u[n].entry = entries[t + k + n]
    BY <1>3 DEF Match
  <1>7. ASSUME NEW n \in 1 .. k + l
        PROVE  a[n].id = b[n].id /\ a[n].entry = entries[t + n]
    <2>1. CASE n <= k
      <3>1. n \in 1 .. k /\ a[n] = x[n] /\ b[n] = y[n]
        BY ONLY <1>3, <1>4, <1>5, <2>1, n \in 1 .. k + l
      <3> QED BY ONLY <1>6, <3>1
    <2>2. CASE ~(n <= k)
      <3>1. n - k \in 1 .. l /\ t + k + (n - k) = t + n /\ a[n] = u[n - k] /\ b[n] = v[n - k]
        BY ONLY <1>3, <1>4, <1>5, <2>2, n \in 1 .. k + l, t \in Nat
      <3> QED BY ONLY <1>6, <3>1
    <2> QED BY <2>1, <2>2
  <1> QED BY ONLY <1>1, <1>2, <1>4, <1>5, <1>7 DEF Match

\* What a group starts from.
Emptied(acc) == [acc EXCEPT !.out = <<>>]

\* inner is what LowerGroup has made of the first n members, for every n.
Lowers(inner, acc, children, id, entries) ==
    /\ inner[0] = Emptied(acc)
    /\ \A n \in 1 .. Len(children) : inner[n] = LowerLeaf(inner[n - 1], children[n], id, entries)

\* The group that stands for a group, after what came before it.
Wrapped(last, acc) ==
    [last EXCEPT !.out = Append(acc.out, [kind |-> "parallel", children |-> last.out])]

\* LowerGroup does what its recursion says.
LEMMA LowerGroupRuns ==
    ASSUME NEW L, NEW children \in Seq(L), NEW acc, NEW id, NEW entries
    PROVE  \E f : /\ Lowers(f, acc, children, id, entries)
                  /\ LowerGroup(acc, children, id, entries) = Wrapped(f[Len(children)], acc)
  <1> DEFINE Eq(f, m) == f = [n \in 0 .. m |-> IF n = 0 THEN Emptied(acc)
                                  ELSE LowerLeaf(f[n - 1], children[n], id, entries)]
  <1> DEFINE S == {m \in 0 .. Len(children) : \E f : Eq(f, m)}
  <1>1. Len(children) \in Nat
    OBVIOUS
  <1>2. 0 \in S
    <2> DEFINE f == [n \in 0 .. 0 |-> Emptied(acc)]
    <2>1. Eq(f, 0)
      OBVIOUS
    <2> HIDE DEF f, Eq
    <2> QED BY <1>1, <2>1
  <1>3. ASSUME NEW m \in 0 .. Len(children) - 1, m \in S PROVE m + 1 \in S
    <2>1. PICK f : Eq(f, m)
      BY <1>3
    <2> DEFINE g == [n \in 0 .. m + 1 |->
                       IF n = m + 1 THEN LowerLeaf(f[m], children[m + 1], id, entries) ELSE f[n]]
    <2>2. \A n \in 0 .. m + 1 : n = m + 1 \/ n \in 0 .. m
      OBVIOUS
    <2>3. \A n \in 0 .. m : g[n] = f[n] /\ (n # 0 => n - 1 \in 0 .. m)
      BY <1>1
    <2>4. g[m + 1] = LowerLeaf(g[m + 1 - 1], children[m + 1], id, entries)
      BY <1>1
    <2>5. \A n \in 0 .. m : g[n] = IF n = 0 THEN Emptied(acc)
                                   ELSE LowerLeaf(g[n - 1], children[n], id, entries)
      <3> HIDE DEF g
      <3> QED BY <2>1, <2>3
    <2>6. g = [n \in 0 .. m + 1 |-> g[n]]
      OBVIOUS
    <2>7. Eq(g, m + 1)
      <3> HIDE DEF g
      <3>1. \A n \in 0 .. m + 1 : g[n] = IF n = 0 THEN Emptied(acc)
                                         ELSE LowerLeaf(g[n - 1], children[n], id, entries)
        BY <2>2, <2>4, <2>5, <1>1
      <3> QED BY <2>6, <3>1
    <2> HIDE DEF Eq, g
    <2> QED BY <1>1, <2>7
  <1>4. Len(children) \in S
    <2> HIDE DEF S
    <2>1. \A k \in 0 .. Len(children) - 1 : k \in S => k + 1 \in S
      BY <1>3
    <2>2. \A k \in 0 .. Len(children) : k \in S
      BY ONLY <1>1, <1>2, <2>1, Stepwise
    <2> QED BY <1>1, <2>2
  <1>5. PICK f : Eq(f, Len(children))
    BY <1>4
  <1> DEFINE p == CHOOSE p : Eq(p, Len(children))
  <1>6. Eq(p, Len(children))
    <2> HIDE DEF Eq
    <2> QED BY <1>5
  <1>7. LowerGroup(acc, children, id, entries) = Wrapped(p[Len(children)], acc)
    BY DEF LowerGroup, Emptied, Wrapped
  <1> HIDE DEF p
  <1>8. Lowers(p, acc, children, id, entries)
    <2>1. p[0] = Emptied(acc)
      BY <1>1, <1>6
    <2>2. \A n \in 1 .. Len(children) : n # 0 /\ n \in 0 .. Len(children)
      BY <1>1
    <2> QED BY <1>6, <2>1, <2>2 DEF Lowers
  <1> QED BY <1>7, <1>8

\* Calls that match some tasks, followed by the call of the next one.
LEMMA MatchAppend ==
    ASSUME NEW C, NEW T, NEW x \in Seq(C), NEW y \in Seq(T), NEW c \in C, NEW d \in T,
           NEW t \in Nat, NEW entries, Match(x, y, t, entries),
           c.id = d.id, c.entry = entries[t + Len(y) + 1]
    PROVE  Match(Append(x, c), Append(y, d), t, entries)
  <1>1. PICK a : a = Append(x, c)
    OBVIOUS
  <1>2. PICK b : b = Append(y, d)
    OBVIOUS
  <1>3. PICK k \in Nat : k = Len(y) /\ k = Len(x)
    BY DEF Match
  <1>4. Len(a) = k + 1 /\ (\A n \in 1 .. k : a[n] = x[n]) /\ a[k + 1] = c
    BY ONLY <1>1, <1>3, AppendProperties, x \in Seq(C), c \in C
  <1>5. Len(b) = k + 1 /\ (\A n \in 1 .. k : b[n] = y[n]) /\ b[k + 1] = d
    <2>1. k = Len(y)
      BY <1>3
    <2> QED BY ONLY <1>2, <2>1, AppendProperties, y \in Seq(T), d \in T
  <1>6. \A n \in 1 .. k + 1 : n \in 1 .. k \/ n = k + 1
    OBVIOUS
  <1>7. \A n \in 1 .. k : x[n].id = y[n].id /\ x[n].entry = entries[t + n]
    BY <1>3 DEF Match
  <1>8. t + k + 1 = t + (k + 1) /\ t + Len(y) + 1 = t + (k + 1)
    BY <1>3
  <1>9. \A n \in 1 .. k + 1 : a[n].id = b[n].id /\ a[n].entry = entries[t + n]
    BY ONLY <1>4, <1>5, <1>6, <1>7, <1>8, c.id = d.id, c.entry = entries[t + Len(y) + 1]
  <1> QED BY ONLY <1>1, <1>2, <1>4, <1>5, <1>9 DEF Match

\* What a group of these children becomes, if the preparation step is before it
\* or it has no task.
GroupBecomes(inside, children, acc, new, entries, E) ==
    /\ inside \in Seq(InGroup(E)) /\ Len(inside) = Len(children)
    /\ \A n \in 1 .. Len(children) : Like(inside[n], children[n])
    /\ Match(Picked("entry", inside), Picked("task", children), acc.tasks, entries)
    /\ new \in Accs(Seq(Emitted(E)))
    /\ new.out = Append(acc.out, [kind |-> "parallel", children |-> inside])
    /\ new.tasks = acc.tasks + Len(Picked("task", children))
    /\ new.prepared <=> acc.prepared

\* A group becomes a group of as many members, each like the one it stands for.
LEMMA GroupIs ==
    ASSUME NEW E, NEW entries, \A k \in Nat : entries[k] \in E,
           NEW children \in Seq(Leaf({"run", "task"})),
           NEW acc \in Accs(Seq(Emitted(E))), NEW id,
           acc.prepared \/ Picked("task", children) = <<>>,
           NEW new, new = LowerGroup(acc, children, id, entries)
    PROVE  \E inside : GroupBecomes(inside, children, acc, new, entries, E)
  <1>1. PICK f : /\ Lowers(f, acc, children, id, entries)
                 /\ LowerGroup(acc, children, id, entries) = Wrapped(f[Len(children)], acc)
    <2>1. PICK L : L = Leaf({"run", "task"})
      OBVIOUS
    <2>2. children \in Seq(L)
      BY <2>1
    <2> QED BY ONLY <2>2, LowerGroupRuns
  <1>2. PICK g : Picks(g, "task", children) /\ Picked("task", children) = g[Len(children)]
    BY PickedRuns
  <1>3. PICK L : L = Leaf({"run", "task"})
    OBVIOUS
  <1>4. PICK G : G = InGroup(E)
    OBVIOUS
  <1>5. Len(children) \in Nat /\ DOMAIN children = 1 .. Len(children)
        /\ \A n \in 1 .. Len(children) : children[n] \in L
    BY <1>3
  <1>6. acc.out \in Seq(Emitted(E)) /\ acc.tasks \in Nat /\ acc.prepared \in BOOLEAN
    BY DEF Accs
  <1>7. \A n \in 1 .. Len(children) : children[n].kind = "task" => acc.prepared
    <2>1. Picked("task", children) = <<>> => \A n \in DOMAIN children : children[n].kind # "task"
      BY PickedFacts
    <2> QED BY <1>5, <2>1
  <1> DEFINE Good(n) ==
          /\ f[n] \in Accs(Seq(G)) /\ f[n].out \in Seq(G) /\ Len(f[n].out) = n
          /\ \A m \in 1 .. n : Like(f[n].out[m], children[m])
          /\ g[n] \in Seq(L)
          /\ Match(Picked("entry", f[n].out), g[n], acc.tasks, entries)
          /\ f[n].tasks = acc.tasks + Len(g[n])
          /\ f[n].prepared <=> acc.prepared
             S == {n \in 0 .. Len(children) : Good(n)}
  <1>8. 0 \in S
    <2>1. f[0] = [acc EXCEPT !.out = <<>>] /\ g[0] = <<>>
      BY <1>1, <1>2 DEF Lowers, Emptied, Picks
    <2>2. PICK Y : Y = Seq(G)
      OBVIOUS
    <2>3. PICK q \in Y : q = <<>>
      <3>1. <<>> \in Seq(G)
        OBVIOUS
      <3> QED BY ONLY <2>2, <3>1
    <2>4. PICK Z : Z = Seq(Emitted(E))
      OBVIOUS
    <2>5. acc \in Accs(Z) /\ f[0] = [acc EXCEPT !.out = q]
      BY <2>1, <2>3, <2>4
    <2>6. f[0] \in Accs(Y) /\ f[0].out = q /\ f[0].tasks = acc.tasks
      BY ONLY <2>3, <2>5 DEF Accs
    <2>7. f[0].prepared <=> acc.prepared
      BY ONLY <2>3, <2>5 DEF Accs
    <2>8. Match(Picked("entry", <<>>), <<>>, acc.tasks, entries)
      <3>1. Len(<<>>) = 0 /\ 1 .. 0 = {}
        OBVIOUS
      <3> QED BY ONLY <3>1, PickedEmpty DEF Match
    <2>9. <<>> \in Seq(L) /\ <<>> \in Seq(G) /\ Len(<<>>) = 0 /\ 1 .. 0 = {} /\ 0 \in 0 .. Len(children)
          /\ acc.tasks + 0 = acc.tasks
      BY <1>5, <1>6
    <2>10. Good(0)
      BY ONLY <2>1, <2>2, <2>3, <2>6, <2>7, <2>8, <2>9
    <2> QED BY <2>9, <2>10
  <1>9. ASSUME NEW n \in 0 .. Len(children) - 1, n \in S PROVE n + 1 \in S
    <2>1. n \in Nat /\ n + 1 \in 1 .. Len(children) /\ n + 1 - 1 = n /\ n + 1 \in 0 .. Len(children)
          /\ \A m \in 1 .. n + 1 : m \in 1 .. n \/ m = n + 1
      BY <1>5
    <2>2. f[n + 1] = LowerLeaf(f[n], children[n + 1], id, entries)
      BY <1>1, <2>1 DEF Lowers
    <2>3. g[n + 1] = PickOne("task", g[n], children[n + 1])
      BY <1>2, <2>1 DEF Picks
    <2>4. Good(n)
      BY <1>9
    <2>5. PICK leaf \in L : leaf = children[n + 1]
      BY <1>5, <2>1
    <2>6. leaf.kind = "task" => acc.prepared
      BY <1>7, <2>1, <2>5
    <2>7. PICK was \in Accs(Seq(G)), is \in {f[n + 1]} : was = f[n] /\ is = f[n + 1]
      BY <2>4
    <2>8. PICK old \in Seq(G), tasks \in Seq(L) : old = was.out /\ tasks = g[n]
      BY <2>4, <2>7
    <2>9. Picked("entry", old) \in Seq(G)
      <3>1. Picked("entry", old) \in Seq({call \in G : call.kind = "entry"})
        BY PickedFacts
      <3>2. {call \in G : call.kind = "entry"} \subseteq G
        OBVIOUS
      <3> QED BY <3>1, <3>2
    <2>10. PICK calls \in Seq(G) : calls = Picked("entry", old)
      BY <2>9
    <2>11. Match(calls, tasks, acc.tasks, entries) /\ was.tasks = acc.tasks + Len(tasks)
           /\ (was.prepared <=> acc.prepared) /\ Len(old) = n
           /\ \A m \in 1 .. n : Like(old[m], children[m])
      BY <2>4, <2>7, <2>8, <2>10
    <2>12. is = LowerLeaf(was, leaf, id, entries)
      BY <2>2, <2>5, <2>7
    <2>13. ASSUME NEW one \in G, is.out = Append(old, one), Like(one, leaf)
           PROVE  /\ is.out \in Seq(G) /\ Len(is.out) = n + 1
                  /\ \A m \in 1 .. n + 1 : Like(is.out[m], children[m])
                  /\ Picked("entry", is.out) = PickOne("entry", calls, one)
      <3>1. /\ Append(old, one) \in Seq(G) /\ Len(Append(old, one)) = n + 1
            /\ \A m \in 1 .. n : Append(old, one)[m] = old[m]
            /\ Append(old, one)[n + 1] = one
        BY <2>11, AppendProperties
      <3>2. Picked("entry", Append(old, one)) = PickOne("entry", Picked("entry", old), one)
        BY PickedAppend
      <3> QED BY ONLY <2>1, <2>5, <2>10, <2>11, <2>13, <3>1, <3>2
    <2>14. CASE leaf.kind # "task"
      <3>1. leaf \in G /\ leaf.kind = "run"
        BY <1>3, <1>4, <2>14 DEF InGroup, Leaf
      <3>2. is \in Accs(Seq(G)) /\ is.out = Append(old, leaf) /\ is.tasks = was.tasks
            /\ (is.prepared <=> was.prepared)
        BY <2>7, <2>8, <2>12, <2>14, <3>1, LowerLeafIs
      <3>3. Like(leaf, leaf)
        BY <2>14 DEF Like
      <3>4. /\ is.out \in Seq(G) /\ Len(is.out) = n + 1
            /\ \A m \in 1 .. n + 1 : Like(is.out[m], children[m])
            /\ Picked("entry", is.out) = PickOne("entry", calls, leaf)
        BY <2>13, <3>1, <3>2, <3>3
      <3>5. Picked("entry", is.out) = calls
        BY ONLY <3>1, <3>4 DEF PickOne
      <3>6. g[n + 1] = tasks
        BY ONLY <2>3, <2>5, <2>8, <2>14 DEF PickOne
      <3>7. Good(n + 1)
        BY ONLY <2>7, <2>11, <3>2, <3>4, <3>5, <3>6, tasks \in Seq(L)
      <3> QED BY <2>1, <3>7
    <2>15. CASE leaf.kind = "task"
      <3>1. PICK call : call = CallOf(leaf, entries[was.tasks + 1])
        OBVIOUS
      <3>2. entries[was.tasks + 1] \in E
        <4>1. was.tasks \in Nat
          BY DEF Accs
        <4> QED BY <4>1
      <3>3. call \in G /\ Like(call, leaf) /\ call.kind = "entry"
        BY <1>3, <1>4, <2>15, <3>1, <3>2 DEF InGroup, CallsOf, Leaf, CallOf, Like
      <3>4. was.prepared /\ Readied(was, id) = old
        BY <2>6, <2>8, <2>11, <2>15 DEF Readied
      <3>5. is \in Accs(Seq(G)) /\ is.out = Append(old, call) /\ is.tasks = was.tasks + 1 /\ is.prepared
        BY <2>7, <2>12, <2>15, <3>1, <3>3, <3>4, LowerLeafIs
      <3>6. /\ is.out \in Seq(G) /\ Len(is.out) = n + 1
            /\ \A m \in 1 .. n + 1 : Like(is.out[m], children[m])
            /\ Picked("entry", is.out) = PickOne("entry", calls, call)
        BY <2>13, <3>3, <3>5
      <3>7. Picked("entry", is.out) = Append(calls, call)
        BY ONLY <3>3, <3>6 DEF PickOne
      <3>8. g[n + 1] = Append(tasks, leaf)
        BY ONLY <2>3, <2>5, <2>8, <2>15 DEF PickOne
      <3>9. call.id = leaf.id /\ call.entry = entries[acc.tasks + Len(tasks) + 1]
        BY ONLY <2>11, <3>1 DEF CallOf
      <3>10. Match(Append(calls, call), Append(tasks, leaf), acc.tasks, entries)
        BY ONLY <1>6, <2>11, <3>3, <3>9, MatchAppend, calls \in Seq(G), tasks \in Seq(L), leaf \in L
      <3>11. Append(tasks, leaf) \in Seq(L) /\ Len(Append(tasks, leaf)) = Len(tasks) + 1
        BY ONLY AppendProperties, tasks \in Seq(L), leaf \in L
      <3>12. acc.tasks + Len(tasks) + 1 = acc.tasks + (Len(tasks) + 1)
        <4>1. Len(tasks) \in Nat
          OBVIOUS
        <4>2. PICK t \in Nat, l \in Nat : t = acc.tasks /\ l = Len(tasks)
          BY <1>6, <4>1
        <4>3. t + l + 1 = t + (l + 1)
          OBVIOUS
        <4> QED BY <4>2, <4>3
      <3>13. Good(n + 1)
        BY ONLY <2>6, <2>7, <2>11, <2>15, <3>5, <3>6, <3>7, <3>8, <3>10, <3>11, <3>12
      <3> QED BY <2>1, <3>13
    <2> QED BY <2>14, <2>15
  <1> HIDE DEF S, Good
  <1>10. \A n \in 0 .. Len(children) : n \in S
    BY ONLY <1>5, <1>8, <1>9, Stepwise
  <1>11. Good(Len(children))
    <2>1. Len(children) \in S
      BY <1>5, <1>10
    <2> QED BY ONLY <2>1 DEF S
  <1> USE DEF Good
  <1>12. PICK last \in Accs(Seq(G)), inside \in Seq(G) : last = f[Len(children)] /\ inside = last.out
    BY ONLY <1>11
  <1>13. PICK group : group = [kind |-> "parallel", children |-> inside]
    OBVIOUS
  <1>14. group \in Emitted(E)
    BY <1>4, <1>13 DEF Emitted, Lowered
  <1>15. PICK Y, Z : Y = Seq(G) /\ Z = Seq(Emitted(E))
    OBVIOUS
  <1>16. PICK q \in Z : q = Append(acc.out, group)
    BY <1>6, <1>14, <1>15, AppendProperties
  <1>17. new = [last EXCEPT !.out = q] /\ last \in Accs(Y)
    <2>1. new = Wrapped(last, acc)
      BY <1>1, <1>12
    <2>2. Append(acc.out, [kind |-> "parallel", children |-> last.out]) = q
      BY <1>12, <1>13, <1>16
    <2>3. new = [last EXCEPT !.out = q]
      BY ONLY <2>1, <2>2 DEF Wrapped
    <2> QED BY <1>15, <2>3
  <1>18. new \in Accs(Z) /\ new.out = q /\ new.tasks = last.tasks
    BY ONLY <1>16, <1>17 DEF Accs
  <1>19. new.prepared <=> last.prepared
    BY ONLY <1>16, <1>17 DEF Accs
  <1>20. /\ Len(inside) = Len(children)
         /\ \A n \in 1 .. Len(children) : Like(inside[n], children[n])
         /\ Match(Picked("entry", inside), Picked("task", children), acc.tasks, entries)
         /\ last.tasks = acc.tasks + Len(Picked("task", children))
         /\ last.prepared <=> acc.prepared
    BY ONLY <1>2, <1>11, <1>12
  <1> QED BY ONLY <1>4, <1>13, <1>15, <1>16, <1>18, <1>19, <1>20, inside \in Seq(G)
          DEF GroupBecomes

\* Of one leaf, that leaf is picked or nothing.
LEMMA PickedSingle ==
    ASSUME NEW kind, NEW leaf
    PROVE  Picked(kind, <<leaf>>) = IF leaf.kind = kind THEN <<leaf>> ELSE <<>>
  <1>1. PICK none, one : none = <<>> /\ one = <<leaf>>
    OBVIOUS
  <1>4. PICK L : L = {leaf}
    OBVIOUS
  <1>5. one = Append(none, leaf) /\ none \in Seq(L) /\ leaf \in L
    BY <1>1, <1>4
  <1>6. Picked(kind, Append(none, leaf)) = PickOne(kind, Picked(kind, none), leaf)
    BY ONLY <1>5, PickedAppend
  <1>2. Picked(kind, <<leaf>>) = PickOne(kind, Picked(kind, <<>>), leaf)
    BY ONLY <1>1, <1>5, <1>6
  <1>3. Picked(kind, <<leaf>>) = PickOne(kind, <<>>, leaf)
    BY ONLY <1>2, PickedEmpty
  <1> QED BY <1>1, <1>3 DEF PickOne

\* A step has a task if a task is among its members.
LEMMA HasTaskIs ==
    ASSUME NEW step \in Authored
    PROVE  HasTask(step) <=> Picked("task", Members(step)) # <<>>
  <1>1. Members(step) \in Seq(AnyLeaf)
    BY MembersFacts
  <1>2. OfKind("task", <<step>>) = Picked("task", Members(step))
    BY <1>1, OfKindOne
  <1> QED BY <1>2 DEF HasTask, Tasks

\* The three sorts of authored step.
LEMMA AuthoredSorts ==
    ASSUME NEW step \in Authored
    PROVE  \/ /\ step \in Leaf({"run", "task"}) /\ step.kind \in {"run", "task"}
              /\ ~IsControl(step) /\ Members(step) = <<step>>
           \/ /\ step.kind = "parallel" /\ ~IsControl(step)
              /\ step.children \in Seq(Leaf({"run", "task"})) /\ Members(step) = step.children
           \/ /\ step \in Control /\ step.kind # "parallel" /\ IsControl(step)
              /\ Members(step) = <<step>>
  <1>1. CASE step \in Leaf({"run", "task"})
    <2>1. step.kind \in {"run", "task"}
      BY <1>1 DEF Leaf
    <2> QED BY <1>1, <2>1 DEF Members, IsControl
  <1>2. CASE step \in Group({"run", "task"})
    <2>1. step.kind = "parallel" /\ step.children \in Seq(Leaf({"run", "task"}))
      BY <1>2 DEF Group
    <2> QED BY <2>1 DEF Members, IsControl
  <1>3. CASE step \in Control
    <2>1. step.kind \in {"wait", "wait-all", "cancel"}
      BY <1>3 DEF Control
    <2> QED BY <1>3, <2>1 DEF Members, IsControl
  <1> QED BY <1>1, <1>2, <1>3 DEF Authored

\* The members of what stands for a step are runs, calls or a control: none of
\* them prepares.
LEMMA LoweredMembers ==
    ASSUME NEW E, NEW image \in Lowered(E)
    PROVE  Members(image) \in Seq(InGroup(E) \cup Control) /\ Picked("prepare", Members(image)) = <<>>
  <1>1. Members(image) \in Seq(InGroup(E) \cup Control)
    <2>1. CASE image \in InGroup(E) \cup Control
      <3>1. image.kind # "parallel"
        BY <2>1 DEF InGroup, CallsOf, Leaf, Control
      <3> QED BY <2>1, <3>1 DEF Members
    <2>2. CASE image \in [kind : {"parallel"}, children : Seq(InGroup(E))]
      <3>1. image.kind = "parallel" /\ image.children \in Seq(InGroup(E))
        BY <2>2
      <3>2. Members(image) = image.children
        BY <3>1 DEF Members
      <3> QED BY <3>1, <3>2
    <2> QED BY <2>1, <2>2 DEF Lowered
  <1>2. \A leaf \in InGroup(E) \cup Control : leaf.kind # "prepare"
    BY DEF InGroup, CallsOf, Leaf, Control
  <1>3. PICK L : L = InGroup(E) \cup Control
    OBVIOUS
  <1>4. PICK leaves \in Seq(L) : leaves = Members(image)
    BY <1>1, <1>3
  <1>5. \A n \in DOMAIN leaves : leaves[n].kind # "prepare"
    BY <1>2, <1>3
  <1>6. Picked("prepare", leaves) = <<>>
    BY <1>5, PickedFacts
  <1> QED BY <1>1, <1>4, <1>6

\* What stands for a step in the generated job.
Stands(image, step) ==
    /\ step.kind = "parallel" =>
         /\ image.kind = "parallel" /\ Len(image.children) = Len(step.children)
         /\ \A n \in 1 .. Len(step.children) : Like(image.children[n], step.children[n])
    /\ IsControl(step) => image = step
    /\ step.kind # "parallel" /\ ~IsControl(step) => Like(image, step)

\* What lowering makes of one step.
StepBecomes(image, step, acc, new, id, entries, E) ==
    /\ image \in Lowered(E) /\ Stands(image, step)
    /\ Match(Picked("entry", Members(image)), Picked("task", Members(step)), acc.tasks, entries)
    /\ new \in Accs(Seq(Emitted(E)))
    /\ new.out = Append(IF HasTask(step) THEN Readied(acc, id) ELSE acc.out, image)
    /\ new.tasks = acc.tasks + Len(Picked("task", Members(step)))
    /\ new.prepared <=> acc.prepared \/ HasTask(step)

\* Exactly a step with a task needs the preparation step before it.
LEMMA LowerStepIs ==
    ASSUME NEW E, NEW entries, \A k \in Nat : entries[k] \in E,
           NEW step \in Authored, NEW acc \in Accs(Seq(Emitted(E))),
           NEW id \in Ids \cup {Anonymous},
           NEW new, new = LowerStep(acc, step, id, entries)
    PROVE  \E image : StepBecomes(image, step, acc, new, id, entries, E)
  <1>1. PICK G : G = Emitted(E)
    OBVIOUS
  <1>2. acc \in Accs(Seq(G)) /\ acc.out \in Seq(G) /\ acc.tasks \in Nat
    BY <1>1 DEF Accs
  <1>3. PrepareStep(id) \in G /\ InGroup(E) \subseteq Lowered(E) /\ Control \subseteq Lowered(E)
        /\ Lowered(E) \subseteq G
    BY <1>1 DEF PrepareStep, Emitted, Lowered, Leaf, Settings
  <1>4. HasTask(step) <=> Picked("task", Members(step)) # <<>>
    BY HasTaskIs
  <1>5. Len(<<>>) = 0 /\ 1 .. 0 = {} /\ acc.tasks + 0 = acc.tasks
    BY <1>2
  <1>6. Match(<<>>, <<>>, acc.tasks, entries)
    BY ONLY <1>5 DEF Match
  <1>7. CASE step.kind = "parallel"
    <2>1. step.children \in Seq(Leaf({"run", "task"})) /\ Members(step) = step.children /\ ~IsControl(step)
      BY <1>7, AuthoredSorts
    <2>2. PICK from : from = IF HasTask(step) THEN Prepare(acc, id) ELSE acc
      OBVIOUS
    <2>3. new = LowerGroup(from, step.children, id, entries)
      <3>1. from = PrepareFor(acc, step, id)
        BY ONLY <2>2 DEF PrepareFor
      <3>2. LowerStep(acc, step, id, entries) =
              LowerGroup(PrepareFor(acc, step, id), step.children, id, entries)
        BY ONLY <1>7, <2>1 DEF LowerStep
      <3> QED BY ONLY <3>1, <3>2, new = LowerStep(acc, step, id, entries)
    <2>4. /\ from \in Accs(Seq(Emitted(E))) /\ from.tasks = acc.tasks
          /\ from.out = IF HasTask(step) THEN Readied(acc, id) ELSE acc.out
          /\ from.prepared <=> acc.prepared \/ HasTask(step)
      <3>1. CASE HasTask(step)
        <4>1. from = Prepare(acc, id)
          BY <2>2, <3>1
        <4>2. /\ from \in Accs(Seq(G)) /\ from.out = Readied(acc, id)
              /\ from.tasks = acc.tasks /\ from.prepared
          BY <1>2, <1>3, <4>1, PrepareIs
        <4> QED BY <1>1, <3>1, <4>2
      <3>2. CASE ~HasTask(step)
        BY <2>2, <3>2
      <3> QED BY <3>1, <3>2
    <2>5. from.prepared \/ Picked("task", step.children) = <<>>
      BY <1>4, <2>1, <2>4
    <2>6. PICK inside : GroupBecomes(inside, step.children, from, new, entries, E)
      BY <2>1, <2>3, <2>4, <2>5, GroupIs
    <2>7. PICK image \in Lowered(E) : image = [kind |-> "parallel", children |-> inside]
      BY <2>6 DEF Lowered, GroupBecomes
    <2>8. image.kind = "parallel" /\ image.children = inside /\ Members(image) = inside
      BY <2>7 DEF Members
    <2>9. Stands(image, step)
      BY ONLY <1>7, <2>1, <2>6, <2>8 DEF Stands, GroupBecomes
    <2> QED BY ONLY <2>1, <2>4, <2>6, <2>7, <2>8, <2>9, image \in Lowered(E) DEF GroupBecomes, StepBecomes
  <1>8. CASE IsControl(step)
    <2>1. step \in Control /\ step.kind # "parallel" /\ Members(step) = <<step>>
      BY <1>8, AuthoredSorts
    <2>2. new = [acc EXCEPT !.out = Append(acc.out, step)]
      BY <1>8, <2>1 DEF LowerStep
    <2>3. PICK Z : Z = Seq(Emitted(E))
      OBVIOUS
    <2>4. step \in G
      BY <1>3, <2>1
    <2>5. PICK q \in Z : q = Append(acc.out, step)
      BY <1>1, <1>2, <2>3, <2>4, AppendProperties
    <2>6. new = [acc EXCEPT !.out = q] /\ acc \in Accs(Z)
      BY <2>2, <2>3, <2>5
    <2>7. new \in Accs(Z) /\ new.out = q /\ new.tasks = acc.tasks
      BY ONLY <2>5, <2>6 DEF Accs
    <2>8. new.prepared <=> acc.prepared
      BY ONLY <2>5, <2>6 DEF Accs
    <2>9. Picked("task", <<step>>) = <<>> /\ Picked("entry", <<step>>) = <<>>
      BY <2>1, ControlHasNone
    <2>10. ~HasTask(step) /\ step \in Lowered(E) /\ Stands(step, step)
      BY <1>3, <1>4, <1>8, <2>1, <2>9 DEF Stands
    <2>11. Match(Picked("entry", Members(step)), Picked("task", Members(step)), acc.tasks, entries)
      BY ONLY <1>6, <2>1, <2>9
    <2>12. acc.tasks + Len(Picked("task", Members(step))) = acc.tasks
      BY ONLY <1>5, <2>1, <2>9
    <2> QED BY ONLY <2>3, <2>5, <2>7, <2>8, <2>10, <2>11, <2>12 DEF StepBecomes
  <1>9. CASE step.kind # "parallel" /\ ~IsControl(step)
    <2>1. step \in Leaf({"run", "task"}) /\ step.kind \in {"run", "task"} /\ Members(step) = <<step>>
      BY <1>9, AuthoredSorts
    <2>2. new = LowerLeaf(acc, step, id, entries)
      BY <1>9 DEF LowerStep
    <2>3. CASE step.kind = "task"
      <3>1. PICK call : call = CallOf(step, entries[acc.tasks + 1])
        OBVIOUS
      <3>2. call \in InGroup(E) /\ Like(call, step) /\ call.kind = "entry"
            /\ call.id = step.id /\ call.entry = entries[acc.tasks + 1]
        BY <1>2, <2>1, <2>3, <3>1 DEF InGroup, CallsOf, Leaf, CallOf, Like
      <3>3. call \in G /\ call \in Lowered(E)
        BY <1>3, <3>2
      <3>4. /\ new \in Accs(Seq(G)) /\ new.out = Append(Readied(acc, id), call)
            /\ new.tasks = acc.tasks + 1 /\ new.prepared
        BY <1>2, <1>3, <2>2, <2>3, <3>1, <3>3, LowerLeafIs
      <3>5. Members(call) = <<call>>
        BY <3>2 DEF Members
      <3>6. Picked("task", <<step>>) = <<step>> /\ Picked("entry", <<call>>) = <<call>>
        BY <2>3, <3>2, PickedSingle
      <3>7. Match(<<call>>, <<step>>, acc.tasks, entries)
        <4>1. Len(<<call>>) = 1 /\ Len(<<step>>) = 1 /\ <<call>>[1] = call /\ <<step>>[1] = step
              /\ \A n \in 1 .. 1 : n = 1
          OBVIOUS
        <4> QED BY ONLY <3>2, <4>1 DEF Match
      <3>8. HasTask(step) /\ Len(<<step>>) = 1
        <4>1. <<step>> # <<>> /\ Len(<<step>>) = 1
          OBVIOUS
        <4> QED BY ONLY <1>4, <2>1, <3>6, <4>1
      <3>9. Stands(call, step)
        BY ONLY <1>9, <3>2 DEF Stands
      <3> QED BY ONLY <1>1, <2>1, <3>3, <3>4, <3>5, <3>6, <3>7, <3>8, <3>9 DEF StepBecomes
    <2>4. CASE step.kind # "task"
      <3>1. step \in InGroup(E) /\ Like(step, step) /\ step.kind = "run"
        BY <2>1, <2>4 DEF InGroup, Leaf, Like
      <3>2. step \in G /\ step \in Lowered(E)
        BY <1>3, <3>1
      <3>3. /\ new \in Accs(Seq(G)) /\ new.out = Append(acc.out, step)
            /\ new.tasks = acc.tasks /\ (new.prepared <=> acc.prepared)
        BY <1>2, <2>2, <2>4, <3>2, LowerLeafIs
      <3>4. Picked("task", <<step>>) = <<>> /\ Picked("entry", <<step>>) = <<>>
        BY <3>1, PickedSingle
      <3>5. ~HasTask(step) /\ Stands(step, step)
        BY <1>4, <1>9, <2>1, <3>1, <3>4 DEF Stands
      <3>6. Match(Picked("entry", Members(step)), Picked("task", Members(step)), acc.tasks, entries)
        BY ONLY <1>6, <2>1, <3>4
      <3>7. acc.tasks + Len(Picked("task", Members(step))) = acc.tasks
        BY ONLY <1>5, <2>1, <3>4
      <3> QED BY ONLY <1>1, <3>2, <3>3, <3>5, <3>6, <3>7 DEF StepBecomes
    <2> QED BY <2>3, <2>4
  <1> QED BY <1>7, <1>8, <1>9

\* The members of any step of a generated job.
LEMMA EmittedMembers ==
    ASSUME NEW E, NEW image \in Emitted(E)
    PROVE  Members(image) \in Seq(InGroup(E) \cup Control \cup Leaf({"prepare"}))
  <1>1. CASE image \in Lowered(E)
    <2>1. Members(image) \in Seq(InGroup(E) \cup Control)
      BY <1>1, LoweredMembers
    <2> QED BY <2>1
  <1>2. CASE image \in Leaf({"prepare"})
    <2>1. image.kind = "prepare"
      BY <1>2 DEF Leaf
    <2>2. Members(image) = <<image>>
      BY <2>1 DEF Members
    <2> QED BY <1>2, <2>2
  <1> QED BY <1>1, <1>2 DEF Emitted

\* Some of the first n steps has a task; and where the nth stands in the
\* generated job, after the preparation step or before it.
Tasked(all, n) == \E k \in 1 .. n : HasTask(all[k])
Place(all, n) == IF Tasked(all, n) THEN n + 1 ELSE n

\* What n steps have become: each has its place, and the one step that stands for
\* none of them prepares, before the first that has a task.
Places(out, all, n, id, E) ==
    /\ out \in Seq(Emitted(E)) /\ Len(out) = Place(all, n)
    /\ \A m \in 1 .. n :
         /\ out[Place(all, m)] \in Lowered(E) /\ Stands(out[Place(all, m)], all[m])
         /\ Picked("entry", Members(out[Place(all, m)])) = <<>> <=> ~HasTask(all[m])
    /\ \A k \in 1 .. Len(out) :
         \/ \E m \in 1 .. n : k = Place(all, m)
         \/ k \in 1 .. n /\ out[k] = PrepareStep(id) /\ Tasked(all, k) /\ ~Tasked(all, k - 1)

\* One more step.
LEMMA TaskedNext ==
    ASSUME NEW all, NEW n \in Nat
    PROVE  /\ Tasked(all, n + 1) <=> Tasked(all, n) \/ HasTask(all[n + 1])
           /\ ~Tasked(all, 0)
  <1>1. \A k : k \in 1 .. n + 1 <=> k \in 1 .. n \/ k = n + 1
    OBVIOUS
  <1>2. 1 .. 0 = {}
    OBVIOUS
  <1> QED BY ONLY <1>1, <1>2 DEF Tasked

\* Once a step had a task, some step has had one.
LEMMA TaskedGrows ==
    ASSUME NEW all, NEW n \in Nat, NEW m \in 0 .. n, Tasked(all, m)
    PROVE  Tasked(all, n)
  <1>1. \A k \in 1 .. m : k \in 1 .. n
    OBVIOUS
  <1> QED BY <1>1 DEF Tasked

\* Steps stand in the order in which they were authored.
LEMMA PlaceRange ==
    ASSUME NEW all, NEW n \in Nat, NEW m \in 1 .. n
    PROVE  Place(all, m) \in 1 .. Place(all, n) /\ Place(all, n) \in Nat
           /\ (m # n => Place(all, m) < Place(all, n))
  <1>1. Tasked(all, m) => Tasked(all, n)
    BY TaskedGrows
  <1>2. CASE Tasked(all, m)
    BY <1>1, <1>2 DEF Place
  <1>3. CASE ~Tasked(all, m) /\ Tasked(all, n)
    BY <1>3 DEF Place
  <1>4. CASE ~Tasked(all, m) /\ ~Tasked(all, n)
    BY <1>4 DEF Place
  <1> QED BY <1>2, <1>3, <1>4

\* One more step is lowered, with the preparation step before it if it is the
\* first with a task.
LEMMA PlacesNext ==
    ASSUME NEW E, NEW id \in Ids \cup {Anonymous}, NEW all, NEW n \in Nat, NEW out, NEW new, NEW image \in Lowered(E),
           Places(out, all, n, id, E), Stands(image, all[n + 1]),
           Picked("entry", Members(image)) = <<>> <=> ~HasTask(all[n + 1]),
           new = Append(IF HasTask(all[n + 1]) /\ ~Tasked(all, n)
                        THEN Append(out, PrepareStep(id)) ELSE out, image)
    PROVE  Places(new, all, n + 1, id, E)
  <1>1. PICK G : G = Emitted(E)
    OBVIOUS
  <1>2. /\ out \in Seq(G) /\ image \in G /\ PrepareStep(id) \in G
        /\ Len(out) \in Nat /\ Len(out) = Place(all, n)
    BY <1>1 DEF Places, Emitted, PrepareStep, Leaf, Settings
  <1>3. Tasked(all, n + 1) <=> Tasked(all, n) \/ HasTask(all[n + 1])
    BY TaskedNext
  <1>4. \A m \in 1 .. n + 1 : m \in 1 .. n \/ m = n + 1
    OBVIOUS
  <1>5. \A m \in 1 .. n : Place(all, m) \in 1 .. Len(out)
    BY <1>2, PlaceRange
  <1>6. CASE ~(HasTask(all[n + 1]) /\ ~Tasked(all, n))
    <2>1. new = Append(out, image)
      BY ONLY <1>6, new = Append(IF HasTask(all[n + 1]) /\ ~Tasked(all, n)
                          THEN Append(out, PrepareStep(id)) ELSE out, image)
    <2>2. /\ new \in Seq(G) /\ Len(new) = Len(out) + 1
          /\ \A k \in 1 .. Len(out) : new[k] = out[k]
          /\ new[Len(out) + 1] = image
      BY ONLY <1>2, <2>1, AppendProperties
    <2>3. Place(all, n + 1) = Len(out) + 1
      BY <1>2, <1>3, <1>6 DEF Place
    <2>4. ASSUME NEW m \in 1 .. n + 1
          PROVE  /\ new[Place(all, m)] \in Lowered(E) /\ Stands(new[Place(all, m)], all[m])
                 /\ Picked("entry", Members(new[Place(all, m)])) = <<>> <=> ~HasTask(all[m])
      <3>1. CASE m \in 1 .. n
        <4>1. new[Place(all, m)] = out[Place(all, m)]
          BY <1>5, <2>2, <3>1
        <4> QED BY <3>1, <4>1 DEF Places
      <3>2. CASE m = n + 1
        BY <2>2, <2>3, <3>2
      <3> QED BY <1>4, <3>1, <3>2
    <2>5. ASSUME NEW k \in 1 .. Len(new)
          PROVE  \/ \E m \in 1 .. n + 1 : k = Place(all, m)
                 \/ k \in 1 .. n + 1 /\ new[k] = PrepareStep(id) /\ Tasked(all, k) /\ ~Tasked(all, k - 1)
      <3>1. CASE k \in 1 .. Len(out)
        <4>1. new[k] = out[k] /\ \A m \in 1 .. n : m \in 1 .. n + 1
          BY <2>2, <3>1
        <4> QED BY <3>1, <4>1 DEF Places
      <3>2. CASE k = Len(out) + 1
        BY <2>3, <3>2
      <3> QED BY <1>2, <2>2, <3>1, <3>2
    <2> QED BY <1>1, <2>2, <2>3, <2>4, <2>5 DEF Places
  <1>7. CASE HasTask(all[n + 1]) /\ ~Tasked(all, n)
    <2>1. PICK mid : mid = Append(out, PrepareStep(id))
      OBVIOUS
    <2>2. new = Append(mid, image)
      BY ONLY <1>7, <2>1, new = Append(IF HasTask(all[n + 1]) /\ ~Tasked(all, n)
                          THEN Append(out, PrepareStep(id)) ELSE out, image)
    <2>3. /\ mid \in Seq(G) /\ Len(mid) = Len(out) + 1
          /\ \A k \in 1 .. Len(out) : mid[k] = out[k]
          /\ mid[Len(out) + 1] = PrepareStep(id)
      BY ONLY <1>2, <2>1, AppendProperties
    <2>4. /\ new \in Seq(G) /\ Len(new) = Len(mid) + 1
          /\ \A k \in 1 .. Len(mid) : new[k] = mid[k]
          /\ new[Len(mid) + 1] = image
      BY ONLY <1>2, <2>2, <2>3, AppendProperties
    <2>5. Len(out) = n /\ Len(mid) = n + 1 /\ Place(all, n + 1) = n + 2 /\ Tasked(all, n + 1)
      BY <1>2, <1>3, <1>7, <2>3 DEF Place
    <2>6. /\ Len(new) = n + 2 /\ (\A k \in 1 .. n : new[k] = out[k])
          /\ new[n + 1] = PrepareStep(id) /\ new[n + 2] = image
      <3>1. \A k \in 1 .. n : k \in 1 .. n + 1
        OBVIOUS
      <3> QED BY <2>3, <2>4, <2>5, <3>1
    <2>7. ASSUME NEW m \in 1 .. n + 1
          PROVE  /\ new[Place(all, m)] \in Lowered(E) /\ Stands(new[Place(all, m)], all[m])
                 /\ Picked("entry", Members(new[Place(all, m)])) = <<>> <=> ~HasTask(all[m])
      <3>1. CASE m \in 1 .. n
        <4>1. new[Place(all, m)] = out[Place(all, m)]
          BY <1>5, <2>5, <2>6, <3>1
        <4> QED BY <3>1, <4>1 DEF Places
      <3>2. CASE m = n + 1
        BY <2>5, <2>6, <3>2
      <3> QED BY <1>4, <3>1, <3>2
    <2>8. ASSUME NEW k \in 1 .. Len(new)
          PROVE  \/ \E m \in 1 .. n + 1 : k = Place(all, m)
                 \/ k \in 1 .. n + 1 /\ new[k] = PrepareStep(id) /\ Tasked(all, k) /\ ~Tasked(all, k - 1)
      <3>1. CASE k \in 1 .. n
        <4>1. new[k] = out[k] /\ k \in 1 .. Len(out) /\ \A m \in 1 .. n : m \in 1 .. n + 1
          BY <2>5, <2>6, <3>1
        <4> QED BY <3>1, <4>1 DEF Places
      <3>2. CASE k = n + 1
        <4>1. k - 1 = n
          BY <3>2
        <4> QED BY <1>7, <2>5, <2>6, <3>2, <4>1
      <3>3. CASE k = n + 2
        BY <2>5, <3>3
      <3> QED BY <2>6, <3>1, <3>2, <3>3
    <2> QED BY <1>1, <2>4, <2>5, <2>6, <2>7, <2>8 DEF Places
  <1> QED BY <1>6, <1>7

\* What lowerSteps starts from.
Nothing == [out |-> <<>>, tasks |-> 0, prepared |-> FALSE]

\* f is what Lower has made of the first n steps, for every n.
LowersAll(f, all, id, entries) ==
    /\ f[0] = Nothing
    /\ \A n \in 1 .. Len(all) : f[n] = LowerStep(f[n - 1], all[n], id, entries)

\* The id of the preparation step.
LowerId(steps, setup) == IF Tasks(steps) = <<>> THEN Anonymous ELSE PrepareId(steps, setup)

\* Lower does what its recursion says.
LEMMA LowerRuns ==
    ASSUME NEW steps, NEW setup, NEW T, NEW all \in Seq(T), all = WithSetup(steps, setup),
           NEW id, id = LowerId(steps, setup), NEW entries, entries = Entrypoints(steps)
    PROVE  \E f : LowersAll(f, all, id, entries) /\ Lower(steps, setup) = f[Len(all)].out
  <1> DEFINE Eq(f, m) == f = [n \in 0 .. m |-> IF n = 0 THEN Nothing
                                  ELSE LowerStep(f[n - 1], all[n], id, entries)]
  <1> DEFINE S == {m \in 0 .. Len(all) : \E f : Eq(f, m)}
  <1>1. Len(all) \in Nat
    OBVIOUS
  <1>2. 0 \in S
    <2> DEFINE f == [n \in 0 .. 0 |-> Nothing]
    <2>1. Eq(f, 0)
      OBVIOUS
    <2> HIDE DEF f, Eq
    <2> QED BY <1>1, <2>1
  <1>3. ASSUME NEW m \in 0 .. Len(all) - 1, m \in S PROVE m + 1 \in S
    <2>1. PICK f : Eq(f, m)
      BY <1>3
    <2> DEFINE g == [n \in 0 .. m + 1 |->
                       IF n = m + 1 THEN LowerStep(f[m], all[m + 1], id, entries) ELSE f[n]]
    <2>2. \A n \in 0 .. m + 1 : n = m + 1 \/ n \in 0 .. m
      OBVIOUS
    <2>3. \A n \in 0 .. m : g[n] = f[n] /\ (n # 0 => n - 1 \in 0 .. m)
      BY <1>1
    <2>4. g[m + 1] = LowerStep(g[m + 1 - 1], all[m + 1], id, entries)
      BY <1>1
    <2>5. \A n \in 0 .. m : g[n] = IF n = 0 THEN Nothing
                                   ELSE LowerStep(g[n - 1], all[n], id, entries)
      <3> HIDE DEF g
      <3> QED BY <2>1, <2>3
    <2>6. g = [n \in 0 .. m + 1 |-> g[n]]
      OBVIOUS
    <2>7. Eq(g, m + 1)
      <3> HIDE DEF g
      <3>1. \A n \in 0 .. m + 1 : g[n] = IF n = 0 THEN Nothing
                                         ELSE LowerStep(g[n - 1], all[n], id, entries)
        BY <2>2, <2>4, <2>5, <1>1
      <3> QED BY <2>6, <3>1
    <2> HIDE DEF Eq, g
    <2> QED BY <1>1, <2>7
  <1>4. Len(all) \in S
    <2> HIDE DEF S
    <2>1. \A k \in 0 .. Len(all) - 1 : k \in S => k + 1 \in S
      BY <1>3
    <2>2. \A k \in 0 .. Len(all) : k \in S
      BY ONLY <1>1, <1>2, <2>1, Stepwise
    <2> QED BY <1>1, <2>2
  <1>5. PICK f : Eq(f, Len(all))
    BY <1>4
  <1> DEFINE p == CHOOSE p : Eq(p, Len(all))
  <1>6. Eq(p, Len(all))
    <2> HIDE DEF Eq
    <2> QED BY <1>5
  <1>7. Lower(steps, setup) = p[Len(all)].out
    BY DEF Lower, LowerId, Nothing
  <1> HIDE DEF p
  <1>8. LowersAll(p, all, id, entries)
    <2>1. p[0] = Nothing
      BY <1>1, <1>6
    <2>2. \A n \in 1 .. Len(all) : n # 0 /\ n \in 0 .. Len(all)
      BY <1>1
    <2> QED BY <1>6, <2>1, <2>2 DEF LowersAll
  <1> QED BY <1>7, <1>8

\* The invariant of lowerSteps: what it keeps after n of the steps, which have
\* these tasks.
Follows(acc, all, n, tasks, id, entries, E) ==
    /\ acc \in Accs(Seq(Emitted(E)))
    /\ acc.prepared <=> Tasked(all, n)
    /\ tasks \in Seq(AnyLeaf) /\ acc.tasks = Len(tasks)
    /\ Match(OfKind("entry", acc.out), tasks, 0, entries)
    /\ OfKind("prepare", acc.out) = IF Tasked(all, n) THEN <<PrepareStep(id)>> ELSE <<>>
    /\ Places(acc.out, all, n, id, E)

\* It holds before the first step.
LEMMA FollowsNothing ==
    ASSUME NEW E, NEW entries, NEW all, NEW id
    PROVE  Follows(Nothing, all, 0, <<>>, id, entries, E)
  <1>1. ~Tasked(all, 0)
    BY TaskedNext
  <1>2. Nothing.out = <<>> /\ Nothing.tasks = 0 /\ ~Nothing.prepared
    BY DEF Nothing
  <1>3. Nothing \in Accs(Seq(Emitted(E)))
    BY DEF Nothing, Accs
  <1>4. Len(<<>>) = 0 /\ 1 .. 0 = {} /\ <<>> \in Seq(AnyLeaf) /\ <<>> \in Seq(Emitted(E))
    OBVIOUS
  <1>5. OfKind("entry", <<>>) = <<>> /\ OfKind("prepare", <<>>) = <<>>
    BY OfKindEmpty
  <1>6. Match(<<>>, <<>>, 0, entries)
    BY ONLY <1>4 DEF Match
  <1>7. Places(<<>>, all, 0, id, E)
    BY ONLY <1>1, <1>4 DEF Places, Place
  <1> QED BY ONLY <1>1, <1>2, <1>3, <1>4, <1>5, <1>6, <1>7 DEF Follows

\* What is found in a generated job with one more step.
LEMMA EmittedAppend ==
    ASSUME NEW E, NEW kind, NEW out \in Seq(Emitted(E)), NEW step \in Emitted(E)
    PROVE  OfKind(kind, Append(out, step)) = OfKind(kind, out) \o Picked(kind, Members(step))
  <1>1. PICK T, L : T = Emitted(E) /\ L = InGroup(E) \cup Control \cup Leaf({"prepare"})
    OBVIOUS
  <1>2. \A any \in T : Members(any) \in Seq(L)
    BY <1>1, EmittedMembers
  <1>3. out \in Seq(T) /\ step \in T
    BY <1>1
  <1> QED BY ONLY <1>2, <1>3, OfKindAppend

\* What is found in a generated job.
LEMMA EmittedOfKind ==
    ASSUME NEW E, NEW kind, NEW out \in Seq(Emitted(E))
    PROVE  OfKind(kind, out) \in Seq(InGroup(E) \cup Control \cup Leaf({"prepare"}))
  <1>1. PICK T, L : T = Emitted(E) /\ L = InGroup(E) \cup Control \cup Leaf({"prepare"})
    OBVIOUS
  <1>2. \A any \in T : Members(any) \in Seq(L)
    BY <1>1, EmittedMembers
  <1>3. out \in Seq(T)
    BY <1>1
  <1>4. OfKind(kind, out) \in Seq({leaf \in L : leaf.kind = kind})
    BY ONLY <1>2, <1>3, OfKindType
  <1>5. {leaf \in L : leaf.kind = kind} \subseteq L
    OBVIOUS
  <1>6. OfKind(kind, out) \in Seq(L)
    BY <1>4, <1>5
  <1> QED BY <1>1, <1>6

\* It holds after one more step.
LEMMA FollowsNext ==
    ASSUME NEW E, NEW entries, \A k \in Nat : entries[k] \in E,
           NEW all, NEW n \in Nat, all[n + 1] \in Authored,
           NEW id \in Ids \cup {Anonymous},
           NEW acc, NEW tasks, Follows(acc, all, n, tasks, id, entries, E),
           NEW new, new = LowerStep(acc, all[n + 1], id, entries)
    PROVE  Follows(new, all, n + 1, Joined(tasks, "task", all[n + 1]), id, entries, E)
  <1>1. PICK step \in Authored : step = all[n + 1]
    OBVIOUS
  <1>2. PICK G : G = Emitted(E)
    OBVIOUS
  <1>3. /\ acc \in Accs(Seq(Emitted(E))) /\ acc.out \in Seq(G) /\ acc.tasks \in Nat
        /\ tasks \in Seq(AnyLeaf) /\ acc.tasks = Len(tasks)
        /\ acc.prepared <=> Tasked(all, n)
    BY <1>2 DEF Follows, Accs
  <1>4. PICK image \in Lowered(E) : StepBecomes(image, step, acc, new, id, entries, E)
    <2>1. PICK image : StepBecomes(image, step, acc, new, id, entries, E)
      <3>1. new = LowerStep(acc, step, id, entries) /\ acc \in Accs(Seq(Emitted(E)))
        BY <1>1, <1>3
      <3> QED BY ONLY <3>1, LowerStepIs, step \in Authored, id \in Ids \cup {Anonymous},
              \A k \in Nat : entries[k] \in E
    <2> QED BY <2>1 DEF StepBecomes
  <1>5. PICK mid : mid = IF HasTask(step) /\ ~Tasked(all, n)
                         THEN Append(acc.out, PrepareStep(id)) ELSE acc.out
    OBVIOUS
  <1>6. new.out = Append(mid, image)
    <2>1. (IF HasTask(step) THEN Readied(acc, id) ELSE acc.out) = mid
      BY ONLY <1>3, <1>5 DEF Readied
    <2> QED BY ONLY <1>4, <2>1 DEF StepBecomes
  <1>7. Tasked(all, n + 1) <=> Tasked(all, n) \/ HasTask(step)
    BY <1>1, TaskedNext
  <1>8. PICK more \in Seq(AnyLeaf) : more = Picked("task", Members(step))
    <2>1. Members(step) \in Seq(AnyLeaf)
      BY MembersFacts
    <2>2. Picked("task", Members(step)) \in Seq({leaf \in AnyLeaf : leaf.kind = "task"})
      BY <2>1, PickedFacts
    <2>3. {leaf \in AnyLeaf : leaf.kind = "task"} \subseteq AnyLeaf
      OBVIOUS
    <2> QED BY <2>2, <2>3
  <1>9. PICK C : C = InGroup(E) \cup Control \cup Leaf({"prepare"})
    OBVIOUS
  <1>10. PICK calls \in Seq(C) : calls = Picked("entry", Members(image))
    <2>1. PICK L : L = InGroup(E) \cup Control
      OBVIOUS
    <2>2. Members(image) \in Seq(L)
      BY <2>1, LoweredMembers
    <2>3. Picked("entry", Members(image)) \in Seq({leaf \in L : leaf.kind = "entry"})
      BY ONLY <2>2, PickedFacts
    <2>4. {leaf \in L : leaf.kind = "entry"} \subseteq C
      BY <1>9, <2>1
    <2> QED BY <2>3, <2>4
  <1>11. Picked("prepare", Members(image)) = <<>>
    BY LoweredMembers
  <1>12. calls = <<>> <=> ~HasTask(step)
    <2>1. Len(calls) = Len(more)
      BY <1>4, <1>8, <1>10 DEF Match, StepBecomes
    <2>2. calls = <<>> <=> more = <<>>
      BY ONLY <2>1, EmptySeq, calls \in Seq(C), more \in Seq(AnyLeaf)
    <2>3. HasTask(step) <=> more # <<>>
      BY <1>8, HasTaskIs
    <2> QED BY <2>2, <2>3
  <1>13. PrepareStep(id) \in G /\ Members(PrepareStep(id)) = <<PrepareStep(id)>>
         /\ PrepareStep(id).kind = "prepare" /\ image \in G
    BY <1>2 DEF Emitted, PrepareStep, Leaf, Settings, Members
  <1>14. Picked("entry", <<PrepareStep(id)>>) = <<>>
         /\ Picked("prepare", <<PrepareStep(id)>>) = <<PrepareStep(id)>>
    BY <1>13, PickedSingle
  <1>15. mid \in Seq(G)
    <2>1. CASE HasTask(step) /\ ~Tasked(all, n)
      <3>1. mid = Append(acc.out, PrepareStep(id))
        BY <1>5, <2>1
      <3> QED BY ONLY <1>3, <1>13, <3>1, AppendProperties
    <2>2. CASE ~(HasTask(step) /\ ~Tasked(all, n))
      BY <1>3, <1>5, <2>2
    <2> QED BY <2>1, <2>2
  <1>16. PICK was \in Seq(C) : was = OfKind("entry", acc.out)
    <2>1. acc.out \in Seq(Emitted(E))
      BY <1>2, <1>3
    <2> QED BY <1>9, <2>1, EmittedOfKind
  <1>17. OfKind("entry", mid) = was
         /\ OfKind("prepare", mid) = IF Tasked(all, n + 1) THEN <<PrepareStep(id)>> ELSE <<>>
    <2>1. OfKind("prepare", acc.out) = IF Tasked(all, n) THEN <<PrepareStep(id)>> ELSE <<>>
      BY DEF Follows
    <2>2. CASE HasTask(step) /\ ~Tasked(all, n)
      <3>1. mid = Append(acc.out, PrepareStep(id))
        BY <1>5, <2>2
      <3>2. acc.out \in Seq(Emitted(E)) /\ PrepareStep(id) \in Emitted(E)
        BY <1>2, <1>3, <1>13
      <3>3. OfKind("entry", mid) = OfKind("entry", acc.out) \o Picked("entry", Members(PrepareStep(id)))
        BY ONLY <3>1, <3>2, EmittedAppend
      <3>4. OfKind("prepare", mid) = OfKind("prepare", acc.out) \o Picked("prepare", Members(PrepareStep(id)))
        BY ONLY <3>1, <3>2, EmittedAppend
      <3>5. OfKind("entry", mid) = was \o <<>>
        BY ONLY <1>13, <1>14, <1>16, <3>3
      <3>6. was \o <<>> = was
        BY ONLY ConcatEmptySeq, was \in Seq(C)
      <3>7. OfKind("prepare", mid) = <<>> \o <<PrepareStep(id)>>
        BY ONLY <1>13, <1>14, <2>1, <2>2, <3>4
      <3>8. <<>> \o <<PrepareStep(id)>> = <<PrepareStep(id)>>
        <4>1. <<PrepareStep(id)>> \in Seq({PrepareStep(id)})
          OBVIOUS
        <4> QED BY ONLY <4>1, ConcatEmptySeq
      <3> QED BY ONLY <1>7, <2>2, <3>5, <3>6, <3>7, <3>8
    <2>3. CASE ~(HasTask(step) /\ ~Tasked(all, n))
      <3>1. mid = acc.out /\ (Tasked(all, n + 1) <=> Tasked(all, n))
        BY <1>5, <1>7, <2>3
      <3> QED BY ONLY <1>16, <2>1, <3>1
    <2> QED BY <2>2, <2>3
  <1>18. OfKind("entry", new.out) = was \o calls
         /\ OfKind("prepare", new.out) = IF Tasked(all, n + 1) THEN <<PrepareStep(id)>> ELSE <<>>
    <2>1. mid \in Seq(Emitted(E)) /\ image \in Emitted(E)
      BY <1>2, <1>13, <1>15
    <2>2. OfKind("entry", new.out) = OfKind("entry", mid) \o Picked("entry", Members(image))
      BY ONLY <1>6, <2>1, EmittedAppend
    <2>3. OfKind("prepare", new.out) = OfKind("prepare", mid) \o Picked("prepare", Members(image))
      BY ONLY <1>6, <2>1, EmittedAppend
    <2>4. OfKind("prepare", mid) \o <<>> = OfKind("prepare", mid)
      <3>1. OfKind("prepare", mid) \in Seq({PrepareStep(id)})
        <4>1. <<>> \in Seq({PrepareStep(id)}) /\ <<PrepareStep(id)>> \in Seq({PrepareStep(id)})
          OBVIOUS
        <4> QED BY ONLY <1>17, <4>1
      <3> QED BY ONLY <3>1, ConcatEmptySeq
    <2> QED BY ONLY <1>10, <1>11, <1>17, <2>2, <2>3, <2>4
  <1>19. Match(was \o calls, tasks \o more, 0, entries)
    <2>1. Match(was, tasks, 0, entries)
      BY <1>16 DEF Follows
    <2>2. 0 + Len(tasks) = acc.tasks
      BY <1>3
    <2>3. Match(calls, more, 0 + Len(tasks), entries)
      BY ONLY <1>4, <1>8, <1>10, <2>2 DEF StepBecomes
    <2>4. 0 \in Nat
      OBVIOUS
    <2> QED BY ONLY <1>3, <2>1, <2>3, <2>4, MatchConcat, was \in Seq(C), calls \in Seq(C), more \in Seq(AnyLeaf)
  <1>20. Joined(tasks, "task", all[n + 1]) = tasks \o more
    BY ONLY <1>1, <1>8 DEF Joined
  <1>21. tasks \o more \in Seq(AnyLeaf) /\ Len(tasks \o more) = Len(tasks) + Len(more)
    BY ONLY <1>3, ConcatProperties, more \in Seq(AnyLeaf)
  <1>22. Places(new.out, all, n + 1, id, E)
    <2>1. Places(acc.out, all, n, id, E)
      BY DEF Follows
    <2>2. new.out = Append(IF HasTask(all[n + 1]) /\ ~Tasked(all, n)
                           THEN Append(acc.out, PrepareStep(id)) ELSE acc.out, image)
      BY ONLY <1>1, <1>5, <1>6
    <2>3. Stands(image, all[n + 1]) /\ (Picked("entry", Members(image)) = <<>> <=> ~HasTask(all[n + 1]))
      BY ONLY <1>1, <1>4, <1>10, <1>12 DEF StepBecomes
    <2> QED BY <2>1, <2>2, <2>3, PlacesNext
  <1>23. new.prepared <=> Tasked(all, n + 1)
    BY <1>3, <1>4, <1>7 DEF StepBecomes
  <1>24. new.tasks = Len(tasks \o more)
    BY ONLY <1>3, <1>4, <1>8, <1>21 DEF StepBecomes
  <1>25. new \in Accs(Seq(Emitted(E)))
    BY ONLY <1>4 DEF StepBecomes
  <1> QED BY ONLY <1>18, <1>19, <1>20, <1>21, <1>22, <1>23, <1>24, <1>25 DEF Follows

\* It holds when all steps are lowered.
LEMMA FollowsAll ==
    ASSUME NEW E, NEW entries, \A k \in Nat : entries[k] \in E,
           NEW all \in Seq(Authored), NEW id \in Ids \cup {Anonymous},
           NEW f, LowersAll(f, all, id, entries)
    PROVE  Follows(f[Len(all)], all, Len(all), Tasks(all), id, entries, E)
  <1>1. PICK g : Finds(g, "task", all) /\ Tasks(all) = g[Len(all)]
    BY OfKindRuns DEF Tasks
  <1>2. Len(all) \in Nat /\ \A n \in 1 .. Len(all) : all[n] \in Authored
    OBVIOUS
  <1> DEFINE S == {n \in 0 .. Len(all) : Follows(f[n], all, n, g[n], id, entries, E)}
  <1>3. 0 \in S
    <2>1. f[0] = Nothing /\ g[0] = <<>> /\ 0 \in 0 .. Len(all)
      BY <1>1, <1>2 DEF LowersAll, Finds
    <2> QED BY <2>1, FollowsNothing
  <1>4. ASSUME NEW n \in 0 .. Len(all) - 1, n \in S PROVE n + 1 \in S
    <2>1. n \in Nat /\ n + 1 \in 1 .. Len(all) /\ n + 1 - 1 = n /\ n + 1 \in 0 .. Len(all)
      BY <1>2
    <2>2. f[n + 1] = LowerStep(f[n], all[n + 1], id, entries)
          /\ g[n + 1] = Joined(g[n], "task", all[n + 1])
      BY <1>1, <2>1 DEF LowersAll, Finds
    <2>3. Follows(f[n], all, n, g[n], id, entries, E)
      BY <1>4
    <2>4. all[n + 1] \in Authored
      BY <1>2, <2>1
    <2>5. Follows(f[n + 1], all, n + 1, Joined(g[n], "task", all[n + 1]), id, entries, E)
      BY <2>1, <2>2, <2>3, <2>4, FollowsNext
    <2>6. Follows(f[n + 1], all, n + 1, g[n + 1], id, entries, E)
      BY ONLY <2>2, <2>5
    <2> QED BY ONLY <2>1, <2>6 DEF S
  <1> HIDE DEF S
  <1>5. \A n \in 0 .. Len(all) : n \in S
    BY ONLY <1>2, <1>3, <1>4, Stepwise
  <1>6. Len(all) \in S
    BY <1>2, <1>5
  <1> QED BY ONLY <1>1, <1>6 DEF S

-----------------------------------------------------------------------------
(* The cache setup.                                                         *)

\* A number that satisfies something has a least one below it that does.
LEMMA Least ==
    ASSUME NEW T \in SUBSET Nat, T # {}
    PROVE  \E t \in T : \A u \in T : t <= u
  <1>1. PICK t \in T : \A u \in T : ~(<<u, t>> \in OpToRel(<, Nat))
    BY NatLessThanWellFounded, WFMin
  <1>2. ASSUME NEW u \in T PROVE t <= u
    <2>1. u \in Nat /\ t \in Nat
      OBVIOUS
    <2>2. u < t => <<u, t>> \in OpToRel(<, Nat)
      BY <2>1 DEF OpToRel
    <2>3. ~(u < t)
      BY <1>1, <2>2
    <2> QED BY ONLY <2>1, <2>3
  <1> QED BY <1>2

\* A job has no tasks exactly if no step of it is or has one.
LEMMA NoTasks ==
    ASSUME NEW steps \in Seq(Authored)
    PROVE  /\ Tasks(steps) = <<>> <=> \A n \in 1 .. Len(steps) : ~HasTask(steps[n])
           /\ Tasks(steps) = <<>> <=> ~Tasked(steps, Len(steps))
  <1>1. \A step \in Authored : Members(step) \in Seq(AnyLeaf)
    BY MembersFacts
  <1>2. OfKind("task", steps) = <<>> <=> ~Having("task", steps)
    BY <1>1, OfKindNone
  <1>3. DOMAIN steps = 1 .. Len(steps) /\ \A n \in 1 .. Len(steps) : steps[n] \in Authored
    OBVIOUS
  <1>4. \A n \in 1 .. Len(steps) : HasTask(steps[n]) <=> Picked("task", Members(steps[n])) # <<>>
    BY <1>3, HasTaskIs
  <1> QED BY <1>2, <1>3, <1>4 DEF Tasks, Having, Tasked

\* The setup comes before what is left of the steps, and has no task.
LEMMA WithSetupIs ==
    ASSUME NEW steps \in Seq(Authored), NEW setup,
           NEW made \in Seq(Leaf({"run"})), made = Setup(setup, TakenIds(steps)),
           Tasks(steps) # <<>>
    PROVE  \E at \in 0 .. Len(steps) - 1 :
             WithSetup(steps, setup) = SubSeq(steps, 1, at) \o made
                                         \o SubSeq(steps, at + 1, Len(steps))
  <1> DEFINE tasked == {n \in DOMAIN steps : HasTask(steps[n])}
             first == CHOOSE n \in tasked : \A m \in tasked : n <= m
  <1>1. DOMAIN steps = 1 .. Len(steps) /\ Len(steps) \in Nat
    OBVIOUS
  <1>2. tasked # {} /\ tasked \subseteq Nat
    BY <1>1, NoTasks
  <1>3. first \in tasked
    <2>1. \E n \in tasked : \A m \in tasked : n <= m
      <3> HIDE DEF tasked
      <3> QED BY <1>2, Least
    <2> HIDE DEF tasked
    <2> QED BY <2>1
  <1>4. WithSetup(steps, setup) = SubSeq(steps, 1, first - 1) \o Setup(setup, TakenIds(steps))
                                    \o SubSeq(steps, first, Len(steps))
    <2>1. WithSetup(steps, setup) =
            IF tasked = {} THEN steps
            ELSE SubSeq(steps, 1, first - 1) \o Setup(setup, TakenIds(steps))
                   \o SubSeq(steps, first, Len(steps))
      BY DEF WithSetup
    <2> HIDE DEF first, tasked
    <2> QED BY <1>2, <2>1
  <1>5. first \in 1 .. Len(steps)
    <2> HIDE DEF first
    <2> QED BY <1>1, <1>3
  <1>6. PICK at \in 0 .. Len(steps) - 1 : at = first - 1 /\ at + 1 = first
    <2> HIDE DEF first
    <2> QED BY <1>1, <1>5
  <1> HIDE DEF first, tasked
  <1>7. WithSetup(steps, setup) = SubSeq(steps, 1, at) \o made \o SubSeq(steps, at + 1, Len(steps))
    BY ONLY <1>4, <1>6, made = Setup(setup, TakenIds(steps))
  <1> QED BY <1>7

\* Steps that only run have no task.
LEMMA RunsHaveNoTasks ==
    ASSUME NEW made \in Seq(Leaf({"run"}))
    PROVE  made \in Seq(Authored) /\ Tasks(made) = <<>>
  <1>1. Leaf({"run"}) \subseteq Authored
    BY DEF Leaf, Authored
  <1>2. made \in Seq(Authored)
    BY <1>1
  <1>3. ASSUME NEW n \in 1 .. Len(made) PROVE ~HasTask(made[n])
    <2>1. made[n] \in Leaf({"run"})
      OBVIOUS
    <2>2. made[n].kind = "run" /\ made[n] \in Authored
      BY <1>1, <2>1 DEF Leaf
    <2>3. Members(made[n]) = <<made[n]>>
      BY <2>2 DEF Members
    <2>4. Picked("task", <<made[n]>>) = <<>>
      BY <2>2, PickedSingle
    <2> QED BY <2>2, <2>3, <2>4, HasTaskIs
  <1> QED BY <1>2, <1>3, NoTasks

\* The tasks of a list of steps and of another.
LEMMA TasksConcat ==
    ASSUME NEW s \in Seq(Authored), NEW t \in Seq(Authored)
    PROVE  Tasks(s \o t) = Tasks(s) \o Tasks(t)
  <1>1. \A step \in Authored : Members(step) \in Seq(AnyLeaf)
    BY MembersFacts
  <1>2. OfKind("task", s \o t) = OfKind("task", s) \o OfKind("task", t)
    BY <1>1, OfKindConcat
  <1> QED BY <1>2 DEF Tasks

\* Tasks are members of authored steps.
LEMMA TasksType ==
    ASSUME NEW s \in Seq(Authored)
    PROVE  Tasks(s) \in Seq(AnyLeaf)
  <1>1. \A step \in Authored : Members(step) \in Seq(AnyLeaf)
    BY MembersFacts
  <1>2. OfKind("task", s) \in Seq({leaf \in AnyLeaf : leaf.kind = "task"})
    BY <1>1, OfKindType
  <1>3. {leaf \in AnyLeaf : leaf.kind = "task"} \subseteq AnyLeaf
    OBVIOUS
  <1> QED BY <1>2, <1>3 DEF Tasks

\* The setup leaves the tasks of a job as they are.
LEMMA SetupKeepsTasks ==
    ASSUME NEW steps \in Seq(Authored), NEW setup,
           NEW made \in Seq(Leaf({"run"})), made = Setup(setup, TakenIds(steps))
    PROVE  WithSetup(steps, setup) \in Seq(Authored) /\ Tasks(WithSetup(steps, setup)) = Tasks(steps)
  <1>1. CASE Tasks(steps) = <<>>
    <2>1. WithSetup(steps, setup) = steps
      <3>1. {n \in DOMAIN steps : HasTask(steps[n])} = {}
        BY <1>1, NoTasks
      <3> QED BY <3>1 DEF WithSetup
    <2> QED BY <2>1
  <1>2. CASE Tasks(steps) # <<>>
    <2>1. PICK at \in 0 .. Len(steps) - 1 :
             WithSetup(steps, setup) = SubSeq(steps, 1, at) \o made \o SubSeq(steps, at + 1, Len(steps))
      BY <1>2, WithSetupIs
    <2>2. PICK before, after : before = SubSeq(steps, 1, at) /\ after = SubSeq(steps, at + 1, Len(steps))
      OBVIOUS
    <2>3. before \in Seq(Authored) /\ after \in Seq(Authored) /\ made \in Seq(Authored) /\ Tasks(made) = <<>>
      BY <2>2, RunsHaveNoTasks
    <2>4. steps = before \o after
      BY <2>2
    <2>5. before \o made \in Seq(Authored) /\ before \o made \o after \in Seq(Authored)
      BY ONLY <2>3, ConcatProperties
    <2>6. Tasks(before \o made) = Tasks(before) \o Tasks(made)
          /\ Tasks(before \o made \o after) = Tasks(before \o made) \o Tasks(after)
          /\ Tasks(before \o after) = Tasks(before) \o Tasks(after)
      BY ONLY <2>3, <2>5, TasksConcat
    <2>7. Tasks(before) \o <<>> = Tasks(before)
      BY ONLY <2>3, TasksType, ConcatEmptySeq
    <2> QED BY ONLY <2>1, <2>2, <2>3, <2>4, <2>5, <2>6, <2>7
  <1> QED BY <1>1, <1>2

-----------------------------------------------------------------------------
(* What a generated job keeps of the authored one.                          *)

\* A step keeps what validation looks at.
Keeps(image, step) ==
    /\ step.kind = "parallel" =>
         /\ image.kind = "parallel"
         /\ DOMAIN image.children = DOMAIN step.children
         /\ image.children = <<>> <=> step.children = <<>>
         /\ \A n \in DOMAIN step.children :
              /\ image.children[n].id = step.children[n].id
              /\ image.children[n].background = step.children[n].background
    /\ IsControl(step) => image = step
    /\ step.kind # "parallel" /\ ~IsControl(step) =>
         /\ image.kind # "parallel" /\ ~IsControl(image)
         /\ image.id = step.id /\ image.background = step.background

\* A step that keeps that is accepted wherever the other was.
LEMMA KeepsIds ==
    ASSUME NEW image, NEW step, Keeps(image, step), step.kind = "parallel" => ~IsControl(step)
    PROVE  /\ StepIds(image) = StepIds(step)
           /\ IsControl(image) => IsControl(step)
           /\ image.kind = "parallel" => step.kind = "parallel"
           /\ step.kind = "parallel" /\ GroupAccepted(step.children) => GroupAccepted(image.children)
  <1>1. CASE step.kind = "parallel"
    <2>1. /\ image.kind = "parallel" /\ DOMAIN image.children = DOMAIN step.children
          /\ image.children = <<>> <=> step.children = <<>>
          /\ \A n \in DOMAIN step.children :
               /\ image.children[n].id = step.children[n].id
               /\ image.children[n].background = step.children[n].background
      BY <1>1 DEF Keeps
    <2>2. ~IsControl(image)
      BY <2>1 DEF IsControl
    <2>3. StepIds(image) = StepIds(step)
      BY <1>1, <2>1 DEF StepIds
    <2>4. GroupAccepted(step.children) => GroupAccepted(image.children)
      BY <2>1 DEF GroupAccepted
    <2> QED BY <1>1, <2>1, <2>2, <2>3, <2>4
  <1>2. CASE IsControl(step)
    BY <1>2 DEF Keeps
  <1>3. CASE step.kind # "parallel" /\ ~IsControl(step)
    BY <1>3 DEF Keeps, StepIds
  <1> QED BY <1>1, <1>2, <1>3

\* Steps in the order of others, each keeping what validation looks at, with
\* steps between them that take ids of their own.
Embeds(new, old, at) ==
    /\ \A m \in DOMAIN old : at[m] \in DOMAIN new /\ Keeps(new[at[m]], old[m])
    /\ \A l, m \in DOMAIN old : l < m => at[l] < at[m]
    /\ \A k \in DOMAIN new : (\E m \in DOMAIN old : k = at[m]) \/
         /\ new[k].kind # "parallel" /\ ~IsControl(new[k])
         /\ \A j \in DOMAIN new : j # k => StepIds(new[j]) \cap StepIds(new[k]) = {}

\* Such steps are accepted if those that they keep are.
LEMMA AcceptedEmbedded ==
    ASSUME NEW T, \A any \in T : any.kind = "parallel" => ~IsControl(any),
           NEW old \in Seq(T), NEW U, NEW new \in Seq(U), NEW at, Embeds(new, old, at),
           Accepted(old)
    PROVE  Accepted(new)
  <1>1. /\ DOMAIN old = 1 .. Len(old) /\ DOMAIN new = 1 .. Len(new)
        /\ Len(old) \in Nat /\ Len(new) \in Nat
        /\ \A m \in DOMAIN old : old[m] \in T
    OBVIOUS
  <1>2. \A m \in DOMAIN old : at[m] \in DOMAIN new /\ Keeps(new[at[m]], old[m])
    BY DEF Embeds
  <1>3. \A m \in DOMAIN old :
          /\ StepIds(new[at[m]]) = StepIds(old[m])
          /\ IsControl(new[at[m]]) => IsControl(old[m])
          /\ new[at[m]].kind = "parallel" => old[m].kind = "parallel"
          /\ old[m].kind = "parallel" /\ GroupAccepted(old[m].children) => GroupAccepted(new[at[m]].children)
    BY <1>1, <1>2, KeepsIds
  <1>4. new # <<>>
    <2>1. old # <<>>
      BY DEF Accepted
    <2>2. 1 \in DOMAIN old
      BY <1>1, <2>1
    <2> QED BY <1>1, <1>2, <2>2
  <1>5. ASSUME NEW k \in DOMAIN new, IsControl(new[k]) PROVE ControlAccepted(new, k)
    <2>1. PICK m \in DOMAIN old : k = at[m]
      BY <1>5 DEF Embeds
    <2>2. IsControl(old[m]) /\ new[k] = old[m]
      BY <1>2, <1>3, <1>5, <2>1 DEF Keeps
    <2>3. ControlAccepted(old, m)
      BY <2>2 DEF Accepted
    <2>4. BackgroundBefore(old, m) \subseteq BackgroundBefore(new, k)
      <3> SUFFICES ASSUME NEW id \in BackgroundBefore(old, m) PROVE id \in BackgroundBefore(new, k)
        OBVIOUS
      <3>1. PICK l \in 1 .. m - 1 : /\ id = old[l].id /\ id # Anonymous
                                    /\ old[l].kind \notin {"parallel", "wait", "wait-all", "cancel"}
                                    /\ old[l].background = "true"
        BY DEF BackgroundBefore
      <3>2. l \in DOMAIN old /\ l < m
        BY <1>1
      <3>3. at[l] \in DOMAIN new /\ at[l] < at[m] /\ Keeps(new[at[l]], old[l])
        BY <1>2, <3>2 DEF Embeds
      <3>4. at[l] \in 1 .. k - 1
        BY <1>1, <2>1, <3>3
      <3>5. /\ new[at[l]].kind \notin {"parallel", "wait", "wait-all", "cancel"}
            /\ new[at[l]].id = id /\ new[at[l]].background = "true"
        BY <3>1, <3>3 DEF Keeps, IsControl
      <3> QED BY <3>1, <3>4, <3>5 DEF BackgroundBefore
    <2> QED BY <2>2, <2>3, <2>4 DEF ControlAccepted
  <1>6. ASSUME NEW k \in DOMAIN new, new[k].kind = "parallel" PROVE GroupAccepted(new[k].children)
    <2>1. PICK m \in DOMAIN old : k = at[m]
      BY <1>6 DEF Embeds
    <2>2. old[m].kind = "parallel"
      BY <1>3, <1>6, <2>1
    <2>3. GroupAccepted(old[m].children)
      BY <2>2 DEF Accepted
    <2> QED BY <1>3, <2>1, <2>2, <2>3
  <1>7. ASSUME NEW j \in DOMAIN new, NEW k \in DOMAIN new, j # k
        PROVE  StepIds(new[j]) \cap StepIds(new[k]) = {}
    <2>1. CASE (\E m \in DOMAIN old : j = at[m]) /\ (\E m \in DOMAIN old : k = at[m])
      <3>1. PICK l \in DOMAIN old, m \in DOMAIN old : j = at[l] /\ k = at[m]
        BY <2>1
      <3>2. l # m
        BY <1>7, <3>1
      <3>3. StepIds(old[l]) \cap StepIds(old[m]) = {}
        BY <3>2 DEF Accepted
      <3> QED BY <1>3, <3>1, <3>3
    <2>2. CASE ~\E m \in DOMAIN old : k = at[m]
      BY <1>7, <2>2 DEF Embeds
    <2>3. CASE ~\E m \in DOMAIN old : j = at[m]
      BY <1>7, <2>3 DEF Embeds
    <2> QED BY <2>1, <2>2, <2>3
  <1> QED BY <1>4, <1>5, <1>6, <1>7 DEF Accepted

\* What stands for a step keeps what validation looks at.
LEMMA StandsKeeps ==
    ASSUME NEW E, NEW step \in Authored, NEW image \in Lowered(E), Stands(image, step)
    PROVE  Keeps(image, step)
  <1>1. CASE step.kind = "parallel"
    <2>1. /\ image.kind = "parallel" /\ Len(image.children) = Len(step.children)
          /\ \A n \in 1 .. Len(step.children) : Like(image.children[n], step.children[n])
      BY <1>1 DEF Stands
    <2>2. image.children \in Seq(InGroup(E)) /\ step.children \in Seq(Leaf({"run", "task"}))
          /\ ~IsControl(step)
      <3>1. image.children \in Seq(InGroup(E))
        BY <2>1 DEF Lowered, InGroup, CallsOf, Leaf, Control
      <3> QED BY <1>1, <3>1, AuthoredSorts
    <2>3. DOMAIN image.children = DOMAIN step.children /\ (image.children = <<>> <=> step.children = <<>>)
          /\ DOMAIN step.children = 1 .. Len(step.children)
      BY ONLY <2>1, <2>2, EmptySeq, LenProperties
    <2> QED BY <1>1, <2>1, <2>2, <2>3 DEF Keeps, Like
  <1>2. CASE IsControl(step)
    BY <1>2, AuthoredSorts DEF Stands, Keeps
  <1>3. CASE step.kind # "parallel" /\ ~IsControl(step)
    <2>1. Like(image, step) /\ step.kind \in {"run", "task"}
      BY <1>3, AuthoredSorts DEF Stands
    <2> QED BY <1>3, <2>1 DEF Keeps, Like, IsControl
  <1> QED BY <1>1, <1>2, <1>3

\* Only one step is the first with a task.
LEMMA FirstTaskedOnce ==
    ASSUME NEW all, NEW j \in Nat, NEW k \in Nat,
           Tasked(all, j), ~Tasked(all, j - 1), Tasked(all, k), ~Tasked(all, k - 1),
           j # 0, k # 0
    PROVE  j = k
  <1>1. CASE j < k
    <2>1. k - 1 \in Nat /\ j \in 0 .. k - 1
      BY <1>1
    <2> QED BY <2>1, TaskedGrows
  <1>2. CASE k < j
    <2>1. j - 1 \in Nat /\ k \in 0 .. j - 1
      BY <1>2
    <2> QED BY <2>1, TaskedGrows
  <1> QED BY <1>1, <1>2

\* A group is no control.
LEMMA AuthoredKinds ==
    \A step \in Authored : step.kind = "parallel" => ~IsControl(step)
  BY AuthoredSorts

\* What lowering makes of accepted steps is accepted, if the id of the
\* preparation step is free.
LEMMA PlacesAccepted ==
    ASSUME NEW E, NEW all \in Seq(Authored), Accepted(all), NEW id \in Ids \cup {Anonymous},
           NEW out, Places(out, all, Len(all), id, E),
           id \notin TakenIds(all) \/ ~Tasked(all, Len(all))
    PROVE  Accepted(out)
  <1>1. PICK n \in Nat : n = Len(all)
    OBVIOUS
  <1>2. DOMAIN all = 1 .. n /\ \A m \in 1 .. n : all[m] \in Authored
    BY <1>1
  <1>3. PICK at : at = [m \in 1 .. n |-> Place(all, m)]
    OBVIOUS
  <1>4. /\ out \in Seq(Emitted(E)) /\ Len(out) = Place(all, n) /\ DOMAIN out = 1 .. Place(all, n)
        /\ \A m \in 1 .. n : out[Place(all, m)] \in Lowered(E) /\ Stands(out[Place(all, m)], all[m])
        /\ \A k \in 1 .. Place(all, n) :
             \/ \E m \in 1 .. n : k = Place(all, m)
             \/ k \in 1 .. n /\ out[k] = PrepareStep(id) /\ Tasked(all, k) /\ ~Tasked(all, k - 1)
    <2>1. Places(out, all, n, id, E)
      BY <1>1
    <2> QED BY <2>1 DEF Places
  <1>5. \A m \in 1 .. n : at[m] = Place(all, m) /\ at[m] \in DOMAIN out /\ Keeps(out[at[m]], all[m])
    BY <1>2, <1>3, <1>4, PlaceRange, StandsKeeps
  <1>6. ASSUME NEW l \in 1 .. n, NEW m \in 1 .. n, l < m PROVE at[l] < at[m]
    <2>1. m \in Nat /\ l \in 1 .. m /\ l # m
      BY <1>6
    <2> QED BY <1>5, <2>1, PlaceRange
  <1>7. ASSUME NEW k \in DOMAIN out, ~\E m \in 1 .. n : k = at[m]
        PROVE  /\ out[k].kind # "parallel" /\ ~IsControl(out[k])
               /\ \A j \in DOMAIN out : j # k => StepIds(out[j]) \cap StepIds(out[k]) = {}
    <2>1. k \in 1 .. n /\ out[k] = PrepareStep(id) /\ Tasked(all, k) /\ ~Tasked(all, k - 1)
      BY <1>4, <1>5, <1>7
    <2>2. out[k].kind = "prepare" /\ out[k].id = id
      BY <2>1 DEF PrepareStep
    <2>3. out[k].kind # "parallel" /\ ~IsControl(out[k]) /\ StepIds(out[k]) \subseteq {id}
      BY <2>2 DEF IsControl, StepIds
    <2>4. id \notin TakenIds(all)
      <3>1. k \in 0 .. n
        BY <2>1
      <3> QED BY <1>1, <2>1, <3>1, TaskedGrows
    <2>5. ASSUME NEW j \in DOMAIN out, j # k PROVE StepIds(out[j]) \cap StepIds(out[k]) = {}
      <3>1. CASE \E m \in 1 .. n : j = at[m]
        <4>1. PICK m \in 1 .. n : j = at[m]
          BY <3>1
        <4>2. all[m].kind = "parallel" => ~IsControl(all[m])
          BY <1>2, AuthoredKinds
        <4>3. StepIds(out[j]) = StepIds(all[m])
          BY <1>5, <4>1, <4>2, KeepsIds
        <4>4. StepIds(all[m]) \subseteq TakenIds(all)
          BY <1>2 DEF TakenIds
        <4> QED BY <2>3, <2>4, <4>3, <4>4
      <3>2. CASE ~\E m \in 1 .. n : j = at[m]
        <4>1. j \in 1 .. n /\ Tasked(all, j) /\ ~Tasked(all, j - 1)
          BY <1>4, <1>5, <3>2
        <4>2. j \in Nat /\ k \in Nat /\ j # 0 /\ k # 0
          BY <2>1, <4>1
        <4>3. j = k
          BY <2>1, <4>1, <4>2, FirstTaskedOnce
        <4> QED BY <2>5, <4>3
      <3> QED BY <3>1, <3>2
    <2> QED BY <2>3, <2>5
  <1>8. Embeds(out, all, at)
    BY <1>2, <1>5, <1>6, <1>7 DEF Embeds
  <1>9. PICK T, U : T = Authored /\ U = Emitted(E)
    OBVIOUS
  <1>10. all \in Seq(T) /\ out \in Seq(U) /\ \A any \in T : any.kind = "parallel" => ~IsControl(any)
    BY <1>4, <1>9, AuthoredKinds
  <1> QED BY ONLY <1>8, <1>10, AcceptedEmbedded, Accepted(all)

\* Steps with others put between them.
Insert(steps, a, made) == SubSeq(steps, 1, a) \o made \o SubSeq(steps, a + 1, Len(steps))

\* Where the steps, and those that were put between them, then are.
InsertedAt(all, steps, a, made, T) ==
    /\ all \in Seq(T) /\ Len(all) = Len(steps) + Len(made)
    /\ \A m \in 1 .. a : all[m] = steps[m]
    /\ \A m \in 1 .. Len(made) : all[a + m] = made[m]
    /\ \A m \in a + 1 .. Len(steps) : all[m + Len(made)] = steps[m]

\* Every step keeps its place or moves up by the number of the others.
LEMMA Inserted ==
    ASSUME NEW T, NEW steps \in Seq(T), NEW a \in 0 .. Len(steps), NEW made \in Seq(T),
           NEW all, all = Insert(steps, a, made)
    PROVE  InsertedAt(all, steps, a, made, T)
  <1>1. PICK n \in Nat, l \in Nat, k \in Nat, r \in Nat, h \in Nat :
           /\ n = Len(steps) /\ l = Len(made) /\ k = a /\ r = n - a /\ h = a + l
    OBVIOUS
  <1>2. PICK before, after : before = SubSeq(steps, 1, a) /\ after = SubSeq(steps, a + 1, Len(steps))
    OBVIOUS
  <1>3. /\ before \in Seq(T) /\ Len(before) = a /\ \A m \in 1 .. a : before[m] = steps[m]
        /\ after \in Seq(T) /\ Len(after) = n - a
        /\ \A m \in 1 .. n - a : after[m] = steps[a + m]
    BY <1>1, <1>2
  <1>4. PICK mid : mid = before \o made
    OBVIOUS
  <1>5. a \in 0 .. n /\ a \in Nat /\ a + l \in Nat /\ n - a \in Nat
    BY <1>1
  <1>6. /\ mid \in Seq(T) /\ Len(mid) = h
        /\ \A m \in 1 .. a : mid[m] = before[m]
        /\ \A m \in 1 .. l : mid[a + m] = made[m]
    <2>1. k = Len(before) /\ l = Len(made) /\ before \in Seq(T) /\ made \in Seq(T)
      BY <1>1, <1>3
    <2>2. mid \in Seq(T) /\ Len(mid) = k + l
      BY ONLY <1>4, <2>1, k \in Nat, l \in Nat
    <2>3. \A m \in 1 .. k : mid[m] = before[m]
      BY ONLY <1>4, <2>1, k \in Nat, l \in Nat
    <2>4. \A m \in 1 .. l : mid[k + m] = made[m]
      BY ONLY <1>4, <2>1, k \in Nat, l \in Nat
    <2> QED BY ONLY <1>1, <2>2, <2>3, <2>4
  <1>7. /\ all \in Seq(T) /\ Len(all) = a + l + (n - a)
        /\ \A m \in 1 .. a + l : all[m] = mid[m]
        /\ \A m \in 1 .. n - a : all[a + l + m] = after[m]
    <2>1. all = mid \o after /\ h = Len(mid) /\ r = Len(after)
      BY <1>1, <1>2, <1>3, <1>4, <1>6 DEF Insert
    <2>2. mid \in Seq(T) /\ after \in Seq(T)
      BY <1>3, <1>6
    <2>3. all \in Seq(T) /\ Len(all) = h + r
      BY ONLY <2>1, <2>2, h \in Nat, r \in Nat
    <2>4. \A m \in 1 .. h : all[m] = mid[m]
      BY ONLY <2>1, <2>2, h \in Nat, r \in Nat
    <2>5. \A m \in 1 .. r : all[h + m] = after[m]
      BY ONLY <2>1, <2>2, h \in Nat, r \in Nat
    <2> QED BY ONLY <1>1, <2>3, <2>4, <2>5
  <1>8. ASSUME NEW m \in 1 .. a PROVE all[m] = steps[m]
    <2>1. m \in 1 .. a + l
      BY <1>5
    <2> QED BY <1>3, <1>6, <1>7, <2>1
  <1>9. ASSUME NEW m \in 1 .. l PROVE all[a + m] = made[m]
    <2>1. a + m \in 1 .. a + l
      BY <1>5
    <2> QED BY <1>6, <1>7, <2>1
  <1>10. ASSUME NEW m \in a + 1 .. n PROVE all[m + l] = steps[m]
    <2>1. m - a \in 1 .. n - a /\ a + (m - a) = m /\ a + l + (m - a) = m + l
      BY <1>5
    <2>2. all[a + l + (m - a)] = after[m - a] /\ after[m - a] = steps[a + (m - a)]
      BY ONLY <1>3, <1>7, <2>1
    <2> QED BY ONLY <2>1, <2>2
  <1>11. a + l + (n - a) = n + l
    BY <1>5
  <1>12. Len(all) = n + l
    BY ONLY <1>7, <1>11
  <1> QED BY ONLY <1>1, <1>7, <1>8, <1>9, <1>10, <1>12 DEF InsertedAt

\* An authored step keeps what it is.
LEMMA KeepsItself ==
    ASSUME NEW step \in Authored PROVE Keeps(step, step)
  BY DEF Keeps

\* With a setup that takes other ids, steps that were accepted still are.
LEMMA SetupAccepted ==
    ASSUME NEW steps \in Seq(Authored), Accepted(steps), NEW setup,
           NEW made \in Seq(Leaf({"run"})), made = Setup(setup, TakenIds(steps)),
           \A j, k \in DOMAIN made : j # k => StepIds(made[j]) \cap StepIds(made[k]) = {},
           IdsOf(made) \cap TakenIds(steps) = {}
    PROVE  /\ Accepted(WithSetup(steps, setup))
           /\ TakenIds(WithSetup(steps, setup)) \subseteq TakenIds(steps) \cup IdsOf(made)
           /\ Len(WithSetup(steps, setup)) >= Len(steps)
  <1>1. CASE Tasks(steps) = <<>>
    <2>1. WithSetup(steps, setup) = steps
      <3>1. {n \in DOMAIN steps : HasTask(steps[n])} = {}
        BY <1>1, NoTasks
      <3> QED BY <3>1 DEF WithSetup
    <2> QED BY <2>1
  <1>2. CASE Tasks(steps) # <<>>
    <2>1. PICK a \in 0 .. Len(steps) - 1 :
             WithSetup(steps, setup) = SubSeq(steps, 1, a) \o made \o SubSeq(steps, a + 1, Len(steps))
      BY <1>2, WithSetupIs
    <2>2. PICK all : all = WithSetup(steps, setup)
      OBVIOUS
    <2>3. PICK n \in Nat, l \in Nat : n = Len(steps) /\ l = Len(made)
      OBVIOUS
    <2>4. made \in Seq(Authored) /\ a \in 0 .. Len(steps) /\ a \in 0 .. n
      BY <2>3, RunsHaveNoTasks
    <2>5. /\ all \in Seq(Authored) /\ Len(all) = Len(steps) + Len(made)
          /\ \A m \in 1 .. a : all[m] = steps[m]
          /\ \A m \in 1 .. Len(made) : all[a + m] = made[m]
          /\ \A m \in a + 1 .. Len(steps) : all[m + Len(made)] = steps[m]
      <3>1. PICK T : T = Authored
        OBVIOUS
      <3>2. /\ steps \in Seq(T) /\ made \in Seq(T) /\ a \in 0 .. Len(steps)
            /\ all = Insert(steps, a, made)
        BY <2>1, <2>2, <2>4, <3>1 DEF Insert
      <3>3. InsertedAt(all, steps, a, made, T)
        BY ONLY <3>2, Inserted
      <3> QED BY ONLY <3>1, <3>3 DEF InsertedAt
    <2>6. /\ all \in Seq(Authored) /\ DOMAIN all = 1 .. n + l /\ DOMAIN steps = 1 .. n
          /\ DOMAIN made = 1 .. l
          /\ \A m \in 1 .. a : all[m] = steps[m]
          /\ \A m \in 1 .. l : all[a + m] = made[m]
          /\ \A m \in a + 1 .. n : all[m + l] = steps[m]
          /\ \A m \in 1 .. n : steps[m] \in Authored
      <3>1. DOMAIN all = 1 .. Len(all) /\ DOMAIN steps = 1 .. Len(steps) /\ DOMAIN made = 1 .. Len(made)
        BY <2>5
      <3>2. \A m \in 1 .. Len(steps) : steps[m] \in Authored
        OBVIOUS
      <3> QED BY ONLY <2>3, <2>5, <3>1, <3>2
    <2>7. PICK at : at = [m \in 1 .. n |-> IF m <= a THEN m ELSE m + l]
      OBVIOUS
    <2>8. ASSUME NEW m \in 1 .. n
          PROVE  at[m] \in 1 .. n + l /\ all[at[m]] = steps[m] /\ Keeps(all[at[m]], steps[m])
      <3>1. at[m] \in 1 .. n + l /\ all[at[m]] = steps[m]
        <4>1. CASE m <= a
          <5>1. m \in 1 .. a /\ at[m] = m /\ m \in 1 .. n + l
            BY <2>4, <2>7, <4>1
          <5> QED BY <2>6, <5>1
        <4>2. CASE ~(m <= a)
          <5>1. m \in a + 1 .. n /\ at[m] = m + l /\ m + l \in 1 .. n + l
            BY <2>4, <2>7, <4>2
          <5> QED BY <2>6, <5>1
        <4> QED BY <4>1, <4>2
      <3>2. steps[m] \in Authored
        BY <2>6
      <3> QED BY <3>1, <3>2, KeepsItself
    <2>9. ASSUME NEW i \in 1 .. n, NEW m \in 1 .. n, i < m PROVE at[i] < at[m]
      BY <2>4, <2>7, <2>9
    <2>10. ASSUME NEW k \in 1 .. n + l, ~\E m \in 1 .. n : k = at[m]
           PROVE  k - a \in 1 .. l /\ all[k] = made[k - a]
      <3>1. ~(k \in 1 .. a)
        <4> SUFFICES ASSUME k \in 1 .. a PROVE FALSE
          OBVIOUS
        <4>1. k \in 1 .. n /\ at[k] = k
          BY <2>4, <2>7
        <4> QED BY <2>10, <4>1
      <3>2. ~(k > a + l)
        <4> SUFFICES ASSUME k > a + l PROVE FALSE
          OBVIOUS
        <4>1. k - l \in 1 .. n /\ ~(k - l <= a) /\ k - l + l = k
          BY <2>4
        <4>2. at[k - l] = k
          BY <2>7, <4>1
        <4> QED BY <2>10, <4>1, <4>2
      <3>3. k - a \in 1 .. l /\ a + (k - a) = k
        BY <2>4, <3>1, <3>2
      <3> QED BY <2>6, <3>3
    <2>11. ASSUME NEW m \in 1 .. l
           PROVE  /\ made[m].kind # "parallel" /\ ~IsControl(made[m])
                  /\ StepIds(made[m]) \subseteq IdsOf(made)
      <3>1. made[m].kind = "run"
        <4>1. made[m] \in Leaf({"run"})
          BY <2>6
        <4> QED BY <4>1 DEF Leaf
      <3>2. StepIds(made[m]) = {made[m].id} \ {Anonymous} /\ ~IsControl(made[m])
        BY <3>1 DEF StepIds, IsControl
      <3> QED BY <2>6, <3>1, <3>2 DEF IdsOf
    <2>12. ASSUME NEW k \in 1 .. n + l, ~\E m \in 1 .. n : k = at[m]
           PROVE  /\ all[k].kind # "parallel" /\ ~IsControl(all[k])
                  /\ \A j \in 1 .. n + l : j # k => StepIds(all[j]) \cap StepIds(all[k]) = {}
      <3>1. k - a \in 1 .. l /\ all[k] = made[k - a]
        BY <2>10, <2>12
      <3>2. ASSUME NEW j \in 1 .. n + l, j # k PROVE StepIds(all[j]) \cap StepIds(all[k]) = {}
        <4>1. CASE \E m \in 1 .. n : j = at[m]
          <5>1. PICK m \in 1 .. n : j = at[m]
            BY <4>1
          <5>2. StepIds(all[j]) \subseteq TakenIds(steps)
            BY <2>6, <2>8, <5>1 DEF TakenIds
          <5> QED BY <2>11, <3>1, <5>2
        <4>2. CASE ~\E m \in 1 .. n : j = at[m]
          <5>1. j - a \in 1 .. l /\ all[j] = made[j - a]
            BY <2>10, <4>2
          <5>2. j - a # k - a
            BY <2>4, <3>2
          <5> QED BY <2>6, <3>1, <5>1, <5>2
        <4> QED BY <4>1, <4>2
      <3> QED BY <2>11, <3>1, <3>2
    <2>13. Embeds(all, steps, at)
      BY <2>6, <2>8, <2>9, <2>12 DEF Embeds
    <2>14. Accepted(all)
      <3>1. PICK T : T = Authored
        OBVIOUS
      <3>2. steps \in Seq(T) /\ all \in Seq(T) /\ \A any \in T : any.kind = "parallel" => ~IsControl(any)
        BY <2>6, <3>1, AuthoredKinds
      <3> QED BY ONLY <2>13, <3>2, AcceptedEmbedded, Accepted(steps)
    <2>15. TakenIds(all) \subseteq TakenIds(steps) \cup IdsOf(made)
      <3> SUFFICES ASSUME NEW k \in 1 .. n + l
                   PROVE  StepIds(all[k]) \subseteq TakenIds(steps) \cup IdsOf(made)
        BY <2>6 DEF TakenIds
      <3>1. CASE \E m \in 1 .. n : k = at[m]
        BY <2>6, <2>8, <3>1 DEF TakenIds
      <3>2. CASE ~\E m \in 1 .. n : k = at[m]
        BY <2>10, <2>11, <3>2
      <3> QED BY <3>1, <3>2
    <2>16. Len(all) >= Len(steps)
      BY <2>3, <2>5
    <2> QED BY <2>2, <2>14, <2>15, <2>16
  <1> QED BY <1>1, <1>2

-----------------------------------------------------------------------------
(* A generated job.                                                         *)

\* The cache setup is steps that run, with ids that are the author's or the
\* generated one.
LEMMA SetupMade ==
    ASSUME NEW taken, taken \subseteq AuthorIds, NEW setup \in Setups
    PROVE  \E made \in Seq(Leaf({"run"})) :
             /\ made = Setup(setup, taken)
             /\ IdsOf(made) \subseteq AuthorIds \cup Range(CacheNames)
             /\ setup = DefaultSetup => Len(made) = 1 /\ IdsOf(made) \cap taken = {}
             /\ setup # DefaultSetup => made = setup
  <1>1. CASE setup = DefaultSetup
    <2>1. PICK id : id = First(CacheNames, taken)
      OBVIOUS
    <2>2. CacheNames \in Seq(Ids) /\ Range(CacheNames) \ taken # {}
      BY NamesAssumption, NamesNeverRunOut
    <2>3. id \in Range(CacheNames) \ taken
      BY <2>1, <2>2, FirstIsFree
    <2>4. id \in Ids
      BY <2>2, <2>3 DEF Range
    <2>5. PICK step : step = [kind |-> "run", id |-> id, background |-> "unset"]
      OBVIOUS
    <2>6. step \in Leaf({"run"}) /\ step.id = id
      BY <2>4, <2>5 DEF Leaf, Settings
    <2>7. Setup(setup, taken) = <<step>>
      BY <1>1, <2>1, <2>5 DEF Setup
    <2>8. IdsOf(<<step>>) \subseteq {id}
      BY <2>6 DEF IdsOf
    <2>9. <<step>> \in Seq(Leaf({"run"})) /\ Len(<<step>>) = 1
      BY <2>6
    <2> QED BY <1>1, <2>3, <2>7, <2>8, <2>9
  <1>2. CASE setup # DefaultSetup
    <2>1. setup \in Seq(Leaf({"run"}))
      BY <1>2, ConstantsAssumption
    <2>2. IdsOf(setup) \subseteq AuthorIds
      BY <1>2 DEF AuthorIds, IdsOf
    <2>3. Setup(setup, taken) = setup
      BY <1>2 DEF Setup
    <2> QED BY <1>2, <2>1, <2>2, <2>3
  <1> QED BY <1>1, <1>2

\* What Lower makes of a job: all is the steps with the cache setup, made, id
\* that of the preparation step, and E the entrypoints it may call.
LoweredAs(out, steps, setup, all, made, id, E) ==
    /\ made \in Seq(Leaf({"run"})) /\ made = Setup(setup, TakenIds(steps))
    /\ IdsOf(made) \subseteq AuthorIds \cup Range(CacheNames)
    /\ setup = DefaultSetup => Len(made) = 1 /\ IdsOf(made) \cap TakenIds(steps) = {}
    /\ setup # DefaultSetup => made = setup
    /\ all \in Seq(Authored) /\ all = WithSetup(steps, setup)
    /\ Tasks(steps) = <<>> <=> ~Tasked(all, Len(all))
    /\ id \in Ids \cup {Anonymous}
    /\ Tasks(steps) # <<>> => id \notin TakenIds(steps) \cup IdsOf(made)
    /\ Places(out, all, Len(all), id, E)
    /\ Match(OfKind("entry", out), Tasks(steps), 0, Entrypoints(steps))
    /\ OfKind("prepare", out) = IF Tasks(steps) = <<>> THEN <<>> ELSE <<PrepareStep(id)>>

\* Lower gives what LoweredAs says, for setups of the project and ids of the author.
LEMMA LoweredJob ==
    ASSUME NEW steps \in Seq(Authored), TakenIds(steps) \subseteq AuthorIds,
           NEW setup \in Setups
    PROVE  \E all, made, id, E : LoweredAs(Lower(steps, setup), steps, setup, all, made, id, E)
  <1>1. PICK made \in Seq(Leaf({"run"})) :
             /\ made = Setup(setup, TakenIds(steps))
             /\ IdsOf(made) \subseteq AuthorIds \cup Range(CacheNames)
             /\ setup = DefaultSetup => Len(made) = 1 /\ IdsOf(made) \cap TakenIds(steps) = {}
             /\ setup # DefaultSetup => made = setup
    BY SetupMade
  <1>2. PICK all : all = WithSetup(steps, setup)
    OBVIOUS
  <1>3. all \in Seq(Authored) /\ Tasks(all) = Tasks(steps)
    BY <1>1, <1>2, SetupKeepsTasks
  <1>4. PICK id : id = LowerId(steps, setup)
    OBVIOUS
  <1>5. /\ id \in Ids \cup {Anonymous}
        /\ Tasks(steps) # <<>> => id \notin TakenIds(steps) \cup IdsOf(made)
    <2>1. CASE Tasks(steps) = <<>>
      BY <1>4, <2>1 DEF LowerId
    <2>2. CASE Tasks(steps) # <<>>
      <3>1. PICK used : used = TakenIds(steps) \cup IdsOf(made)
        OBVIOUS
      <3>2. id = First(PrepareNames, used)
        BY <1>1, <1>4, <2>2, <3>1 DEF LowerId, PrepareId
      <3>3. used \subseteq AuthorIds \cup Range(CacheNames)
        BY <1>1, <3>1
      <3>4. PrepareNames \in Seq(Ids) /\ Range(PrepareNames) \ used # {}
        BY <3>3, NamesAssumption, NamesNeverRunOut
      <3>5. id \in Range(PrepareNames) \ used
        BY <3>2, <3>4, FirstIsFree
      <3>6. id \in Ids
        BY <3>4, <3>5 DEF Range
      <3> QED BY <3>1, <3>5, <3>6
    <2> QED BY <2>1, <2>2
  <1>6. PICK entries, E : entries = Entrypoints(steps) /\ E = {entries[k] : k \in Nat}
    OBVIOUS
  <1>7. \A k \in Nat : entries[k] \in E
    BY <1>6
  <1>8. PICK f : LowersAll(f, all, id, entries) /\ Lower(steps, setup) = f[Len(all)].out
    BY <1>2, <1>3, <1>4, <1>6, LowerRuns
  <1>9. Follows(f[Len(all)], all, Len(all), Tasks(all), id, entries, E)
    BY <1>3, <1>5, <1>7, <1>8, FollowsAll
  <1>10. PICK out : out = f[Len(all)].out
    OBVIOUS
  <1>11. Tasks(steps) = <<>> <=> ~Tasked(all, Len(all))
    BY <1>3, NoTasks
  <1>12. /\ Places(out, all, Len(all), id, E)
         /\ Match(OfKind("entry", out), Tasks(steps), 0, entries)
         /\ OfKind("prepare", out) = IF Tasked(all, Len(all)) THEN <<PrepareStep(id)>> ELSE <<>>
    BY <1>3, <1>9, <1>10 DEF Follows
  <1>13. LoweredAs(out, steps, setup, all, made, id, E)
    BY <1>1, <1>2, <1>3, <1>5, <1>6, <1>11, <1>12 DEF LoweredAs
  <1> QED BY <1>8, <1>10, <1>13

\* Validation accepts it.
LEMMA GeneratedAccepted ==
    ASSUME NEW steps \in Seq(Authored), TakenIds(steps) \subseteq AuthorIds, Accepted(steps),
           NEW setup \in Setups,
           \/ setup \in {DefaultSetup, <<>>}
           \/ Accepted(setup) /\ IdsOf(setup) \cap TakenIds(steps) = {}
    PROVE  Accepted(Lower(steps, setup))
  <1>1. PICK out : out = Lower(steps, setup)
    OBVIOUS
  <1>2. PICK all, made, id, E : LoweredAs(out, steps, setup, all, made, id, E)
    BY <1>1, LoweredJob
  <1>3. \A j, k \in DOMAIN made : j # k => StepIds(made[j]) \cap StepIds(made[k]) = {}
    <2>1. CASE setup = DefaultSetup
      <3>1. DOMAIN made = 1 .. 1
        BY <1>2, <2>1 DEF LoweredAs
      <3> QED BY <3>1
    <2>2. CASE setup # DefaultSetup
      <3>1. made = setup
        BY <1>2, <2>2 DEF LoweredAs
      <3>2. CASE setup = <<>>
        BY <3>1, <3>2
      <3>3. CASE Accepted(setup)
        BY <3>1, <3>3 DEF Accepted
      <3> QED BY <2>2, <3>2, <3>3
    <2> QED BY <2>1, <2>2
  <1>4. IdsOf(made) \cap TakenIds(steps) = {}
    <2>1. CASE setup = DefaultSetup
      BY <1>2, <2>1 DEF LoweredAs
    <2>2. CASE setup # DefaultSetup
      <3>1. made = setup
        BY <1>2, <2>2 DEF LoweredAs
      <3>2. CASE setup = <<>>
        BY <3>1, <3>2 DEF IdsOf
      <3> QED BY <3>1, <3>2, <2>2
    <2> QED BY <2>1, <2>2
  <1>5. /\ made \in Seq(Leaf({"run"})) /\ made = Setup(setup, TakenIds(steps))
        /\ all \in Seq(Authored) /\ all = WithSetup(steps, setup)
        /\ id \in Ids \cup {Anonymous} /\ Places(out, all, Len(all), id, E)
        /\ Tasks(steps) = <<>> <=> ~Tasked(all, Len(all))
        /\ Tasks(steps) # <<>> => id \notin TakenIds(steps) \cup IdsOf(made)
    BY <1>2 DEF LoweredAs
  <1>6. Accepted(all) /\ TakenIds(all) \subseteq TakenIds(steps) \cup IdsOf(made)
    BY <1>3, <1>4, <1>5, SetupAccepted
  <1>7. id \notin TakenIds(all) \/ ~Tasked(all, Len(all))
    BY <1>5, <1>6
  <1> QED BY <1>1, <1>5, <1>6, <1>7, PlacesAccepted

\* Nothing that stands for a step prepares.
LEMMA LoweredKinds ==
    ASSUME NEW E, NEW image \in Lowered(E)
    PROVE  image.kind # "prepare"
  BY DEF Lowered, InGroup, CallsOf, Leaf, Control

\* Where the preparation step is, everything that stands for a task is later.
LEMMA PreparedOnce ==
    ASSUME NEW steps, NEW setup, NEW out, NEW all, NEW made, NEW id, NEW E,
           LoweredAs(out, steps, setup, all, made, id, E)
    PROVE  LET prepares == {n \in DOMAIN out : out[n].kind = "prepare"}
               calls == {n \in DOMAIN out : OfKind("entry", <<out[n]>>) # <<>>}
           IN  /\ Cardinality(prepares) = IF Tasks(steps) = <<>> THEN 0 ELSE 1
               /\ Len(OfKind("prepare", out)) = Cardinality(prepares)
               /\ \A p \in prepares, c \in calls : p < c
  <1>1. PICK prepares : prepares = {n \in DOMAIN out : out[n].kind = "prepare"}
    OBVIOUS
  <1>2. PICK calls : calls = {n \in DOMAIN out : OfKind("entry", <<out[n]>>) # <<>>}
    OBVIOUS
  <1>3. PICK n \in Nat : n = Len(all) /\ all \in Seq(Authored)
    BY DEF LoweredAs
  <1>4. /\ out \in Seq(Emitted(E)) /\ DOMAIN out = 1 .. Len(out)
        /\ id \in Ids \cup {Anonymous}
        /\ \A m \in 1 .. n :
             /\ out[Place(all, m)] \in Lowered(E)
             /\ Picked("entry", Members(out[Place(all, m)])) = <<>> <=> ~HasTask(all[m])
        /\ \A k \in 1 .. Len(out) :
             \/ \E m \in 1 .. n : k = Place(all, m)
             \/ k \in 1 .. n /\ out[k] = PrepareStep(id) /\ Tasked(all, k) /\ ~Tasked(all, k - 1)
    BY <1>3 DEF LoweredAs, Places
  <1>5. /\ Tasks(steps) = <<>> <=> ~Tasked(all, n)
        /\ OfKind("prepare", out) = IF Tasks(steps) = <<>> THEN <<>> ELSE <<PrepareStep(id)>>
    BY <1>3 DEF LoweredAs
  <1>6. ASSUME NEW k \in prepares
        PROVE  k \in 1 .. n /\ out[k] = PrepareStep(id) /\ Tasked(all, k) /\ ~Tasked(all, k - 1)
    <2>1. k \in 1 .. Len(out) /\ out[k].kind = "prepare"
      BY <1>1, <1>4
    <2>2. ASSUME NEW m \in 1 .. n, k = Place(all, m) PROVE FALSE
      BY <2>1, <2>2, <1>4, LoweredKinds
    <2> QED BY <2>1, <2>2, <1>4
  <1>7. ASSUME NEW c \in calls, NEW k \in prepares PROVE k < c
    <2>1. c \in 1 .. Len(out) /\ OfKind("entry", <<out[c]>>) # <<>>
      BY <1>2, <1>4
    <2>2. PICK L : L = InGroup(E) \cup Control \cup Leaf({"prepare"})
      OBVIOUS
    <2>3. out[c] \in Emitted(E)
      BY <1>4, <2>1
    <2>4. Members(out[c]) \in Seq(L)
      BY <2>2, <2>3, EmittedMembers
    <2>5. Picked("entry", Members(out[c])) # <<>>
      BY <2>1, <2>4, OfKindOne
    <2>6. out[c] # PrepareStep(id)
      <3>1. PICK step : step = PrepareStep(id)
        OBVIOUS
      <3>2. step.kind = "prepare"
        BY <3>1 DEF PrepareStep
      <3>3. Members(step) = <<step>>
        BY <3>2 DEF Members
      <3>4. Picked("entry", <<step>>) = <<>>
        BY <3>2, PickedSingle
      <3> QED BY <3>1, <3>3, <3>4, <2>5
    <2>7. PICK m \in 1 .. n : c = Place(all, m)
      BY <2>1, <2>6, <1>4
    <2>8. HasTask(all[m])
      BY <2>5, <2>7, <1>4
    <2>9. Tasked(all, m)
      BY <2>8 DEF Tasked
    <2>10. c = m + 1
      BY <2>7, <2>9 DEF Place
    <2>11. k \in 1 .. n /\ ~Tasked(all, k - 1)
      BY <1>6
    <2>12. CASE m <= k - 1
      <3>1. k - 1 \in Nat /\ m \in 0 .. k - 1
        BY <2>11, <2>12
      <3> QED BY <3>1, <2>9, <2>11, TaskedGrows
    <2> QED BY <2>10, <2>11, <2>12
  <1>8. CASE Tasks(steps) = <<>>
    <2>1. prepares = {}
      <3> SUFFICES ASSUME NEW k \in prepares PROVE FALSE
        OBVIOUS
      <3>1. k \in 0 .. n /\ Tasked(all, k)
        BY <1>6
      <3> QED BY <3>1, <1>5, <1>8, TaskedGrows
    <2>2. Cardinality(prepares) = 0
      BY <2>1, FS_EmptySet
    <2>3. Len(OfKind("prepare", out)) = 0
      BY <1>5, <1>8
    <2> QED BY <2>1, <2>2, <2>3, <1>8, <1>1, <1>2
  <1>9. CASE Tasks(steps) # <<>>
    <2>1. OfKind("prepare", out) # <<>> /\ Len(OfKind("prepare", out)) = 1
      BY <1>5, <1>9
    <2>2. PICK T, L : T = Emitted(E) /\ L = InGroup(E) \cup Control \cup Leaf({"prepare"})
      OBVIOUS
    <2>3. out \in Seq(T) /\ \A step \in T : Members(step) \in Seq(L)
      BY <1>4, <2>2, EmittedMembers
    <2>4. Having("prepare", out)
      BY <2>1, <2>3, OfKindNone
    <2>5. PICK k \in 1 .. Len(out) : Picked("prepare", Members(out[k])) # <<>>
      BY <2>4, <1>4 DEF Having
    <2>6. ASSUME NEW m \in 1 .. n, k = Place(all, m) PROVE FALSE
      BY <2>5, <2>6, <1>4, LoweredMembers
    <2>7. out[k] = PrepareStep(id)
      BY <2>6, <1>4
    <2>8. k \in prepares
      BY <2>7, <1>1, <1>4 DEF PrepareStep
    <2>9. ASSUME NEW j \in prepares PROVE j = k
      <3>1. /\ j \in 1 .. n /\ Tasked(all, j) /\ ~Tasked(all, j - 1)
            /\ k \in 1 .. n /\ Tasked(all, k) /\ ~Tasked(all, k - 1)
        BY <1>6, <2>8
      <3>2. j \in Nat /\ k \in Nat /\ j # 0 /\ k # 0
        BY <3>1
      <3> QED BY ONLY <3>1, <3>2, FirstTaskedOnce
    <2>10. prepares = {k}
      BY <2>8, <2>9
    <2>11. Cardinality(prepares) = 1
      BY <2>10, FS_Singleton
    <2> QED BY <2>1, <2>11, <1>7, <1>9, <1>1, <1>2
  <1> QED BY <1>8, <1>9

\* The entrypoints are those of the tasks.
LEMMA EntrypointsReach ==
    ASSUME NEW steps \in Seq(Authored), steps = <<>> \/ Accepted(steps),
           TakenIds(steps) \subseteq AuthorIds,
           Cardinality(Range(TaskNames) \ AuthorIds) >= Len(Tasks(steps)),
           NEW setup, NEW out, NEW all, NEW made, NEW id, NEW E,
           LoweredAs(out, steps, setup, all, made, id, E)
    PROVE  LET entries == Entrypoints(steps)
               tasks == Tasks(steps)
               calls == OfKind("entry", out)
           IN  /\ IsInjective(entries)
               /\ Len(calls) = Len(tasks)
               /\ \A n \in DOMAIN tasks :
                    /\ calls[n].entry = entries[n]
                    /\ calls[n].id = tasks[n].id
                    /\ tasks[n].id # Anonymous => entries[n] = tasks[n].id
  <1>1. Apart(steps)
    BY AcceptedApart
  <1>2. PICK tasks, L : tasks = Tasks(steps) /\ L = Leaf({"task"})
    OBVIOUS
  <1>3. tasks \in Seq(L) /\ Distinct(tasks) /\ IdsOf(tasks) \subseteq AuthorIds
    BY <1>1, <1>2, TasksFacts
  <1>4. \A leaf \in L : leaf.id \in Ids \cup {Anonymous}
    BY <1>2 DEF Leaf
  <1>5. PICK entries : entries = Entrypoints(steps)
    OBVIOUS
  <1>6. entries = EntryNames(tasks, IdsOf(tasks))
    BY <1>2, <1>5 DEF Entrypoints
  <1>7. Cardinality(Range(TaskNames) \ AuthorIds) >= Len(tasks)
    BY <1>2
  <1>8. /\ IsInjective(entries)
        /\ \A n \in DOMAIN tasks : tasks[n].id # Anonymous => entries[n] = tasks[n].id
    BY ONLY <1>3, <1>4, <1>6, <1>7, EntryNamesDiffer
  <1>9. PICK calls : calls = OfKind("entry", out)
    OBVIOUS
  <1>10. Match(calls, tasks, 0, entries)
    BY <1>2, <1>5, <1>9 DEF LoweredAs
  <1>11. /\ Len(calls) = Len(tasks)
         /\ \A n \in 1 .. Len(tasks) : calls[n].id = tasks[n].id /\ calls[n].entry = entries[0 + n]
    BY <1>10 DEF Match
  <1>12. DOMAIN tasks = 1 .. Len(tasks) /\ \A n \in 1 .. Len(tasks) : 0 + n = n
    BY <1>3
  <1> QED BY <1>2, <1>5, <1>8, <1>9, <1>11, <1>12

-----------------------------------------------------------------------------
\* A step whose outputs a later step has to join before they can be read.
Held(step) == step.kind # "parallel" /\ step.background = "true"

\* A step that joins the background step with this id.
Joins(step, id) ==
    \/ step.kind = "wait-all"
    \/ step.kind = "wait" /\ id \in Range(step.targets)

At(steps, id) == {n \in DOMAIN steps : id \in StepIds(steps[n])}
Readable(steps, id) ==
    \E n \in At(steps, id) :
        ~Held(steps[n]) \/ \E m \in n + 1 .. Len(steps) : Joins(steps[m], id)

\* The references of a state agree with its steps.
Hidden(steps, refs) ==
    \A id \in Ids :
        /\ refs[id] = "none" <=> At(steps, id) = {}
        /\ refs[id] = "ready" <=> Readable(steps, id)

References == [Ids -> {"none", "pending", "ready"}]
StateType == [steps : Seq(Authored), refs : References,
              origin : {NoGroup} \cup 1 .. MaxGroups, outputs : BOOLEAN]

Sound(state) ==
    /\ state \in StateType
    /\ Hidden(state.steps, state.refs)
    /\ state.steps # <<>> => Accepted(state.steps)

IInv ==
    /\ groups \in 0 .. MaxGroups
    /\ \A state \in states : Sound(state)
    /\ open \in Seq([base : StateType, branch : StateType])
    /\ \A n \in DOMAIN open : Sound(open[n].base) /\ Sound(open[n].branch)

-----------------------------------------------------------------------------
(* One more step.                                                           *)

\* The last of the steps is the one that was appended, the others stay.
LEMMA Appending ==
    ASSUME NEW S, NEW s \in Seq(S), NEW e \in S
    PROVE  /\ Append(s, e) \in Seq(S)
           /\ Len(s) \in Nat
           /\ DOMAIN s = 1 .. Len(s)
           /\ Len(Append(s, e)) = Len(s) + 1
           /\ DOMAIN Append(s, e) = 1 .. Len(s) + 1
           /\ \A n \in 1 .. Len(s) : Append(s, e)[n] = s[n]
           /\ Append(s, e)[Len(s) + 1] = e
           /\ Append(s, e) # <<>>
  OBVIOUS

\* The ids a step takes are ids an author may choose, and a control takes none.
LEMMA StepIdsProperties ==
    ASSUME NEW step \in Authored
    PROVE  /\ StepIds(step) \subseteq Ids
           /\ IsControl(step) => StepIds(step) = {}
           /\ step.kind \notin {"parallel", "wait", "wait-all", "cancel"}
                => StepIds(step) = {step.id} \ {Anonymous}
  <1>1. CASE step \in Leaf({"run", "task"})
    BY <1>1, NamesAssumption DEF Leaf, StepIds, IsControl
  <1>2. CASE step \in Group({"run", "task"})
    <2>1. step.kind = "parallel" /\ step.children \in Seq(Leaf({"run", "task"}))
      BY <1>2 DEF Group
    <2>2. \A n \in DOMAIN step.children : step.children[n].id \in Ids \cup {Anonymous}
      <3>1. \A n \in DOMAIN step.children : step.children[n] \in Leaf({"run", "task"})
        BY <2>1
      <3> QED BY <3>1 DEF Leaf
    <2> QED BY <2>1, <2>2 DEF StepIds, IsControl
  <1>3. CASE step \in Control
    BY <1>3 DEF Control, StepIds, IsControl
  <1> QED BY <1>1, <1>2, <1>3 DEF Authored

\* A step with ids that are still free, whose own references hide the outputs
\* exactly if it is a background step, and after which those references are
\* readable that it joins, leaves the references in agreement with the steps.
LEMMA AddingHides ==
    ASSUME NEW steps \in Seq(Authored), NEW refs \in References,
           NEW step \in Authored, NEW next \in References,
           Hidden(steps, refs),
           \A id \in StepIds(step) :
               /\ refs[id] = "none"
               /\ next[id] = IF Held(step) THEN "pending" ELSE "ready",
           \A id \in Ids \ StepIds(step) :
               next[id] = IF refs[id] = "pending" /\ Joins(step, id)
                          THEN "ready" ELSE refs[id]
    PROVE  Hidden(Append(steps, step), next)
  <1>1. PICK more \in Seq(Authored) : more = Append(steps, step)
    BY Appending
  <1>2. PICK last \in Nat : last = Len(steps)
    BY Appending
  <1>3. /\ DOMAIN steps = 1 .. last /\ DOMAIN more = 1 .. last + 1
        /\ Len(more) = last + 1
        /\ \A n \in 1 .. last : more[n] = steps[n]
        /\ more[last + 1] = step
    BY <1>1, <1>2, Appending
  <1> SUFFICES ASSUME NEW id \in Ids
               PROVE  /\ next[id] = "none" <=> At(more, id) = {}
                      /\ next[id] = "ready" <=> Readable(more, id)
    BY <1>1 DEF Hidden
  <1>4. /\ refs[id] = "none" <=> At(steps, id) = {}
        /\ refs[id] = "ready" <=> Readable(steps, id)
        /\ refs[id] \in {"none", "pending", "ready"}
    BY DEF Hidden, References
  <1>5. CASE id \in StepIds(step)
    <2>1. At(steps, id) = {} /\ next[id] = IF Held(step) THEN "pending" ELSE "ready"
      BY <1>4, <1>5
    <2>2. At(more, id) = {last + 1}
      <3>1. \A n \in 1 .. last : id \notin StepIds(more[n])
        BY <2>1, <1>3 DEF At
      <3>2. \A n \in 1 .. last + 1 : n \in 1 .. last \/ n = last + 1
        OBVIOUS
      <3> QED BY <3>1, <3>2, <1>3, <1>5 DEF At
    <2>3. Readable(more, id) <=> ~Held(step)
      <3>1. \A m \in last + 1 + 1 .. Len(more) : FALSE
        BY <1>3
      <3> QED BY <2>2, <3>1, <1>3 DEF Readable
    <2> QED BY <2>1, <2>2, <2>3
  <1>6. CASE id \notin StepIds(step)
    <2>1. At(more, id) = At(steps, id)
      BY <1>3, <1>6 DEF At
    <2>2. next[id] = IF refs[id] = "pending" /\ Joins(step, id)
                     THEN "ready" ELSE refs[id]
      BY <1>6
    <2>3. Readable(more, id) <=>
            Readable(steps, id) \/ (At(steps, id) # {} /\ Joins(step, id))
      <3>1. ASSUME Readable(more, id)
            PROVE  Readable(steps, id) \/ (At(steps, id) # {} /\ Joins(step, id))
        <4>1. PICK n \in At(more, id) :
                ~Held(more[n]) \/ \E m \in n + 1 .. Len(more) : Joins(more[m], id)
          BY <3>1 DEF Readable
        <4>2. n \in At(steps, id) /\ n \in 1 .. last
          BY <2>1, <1>3 DEF At
        <4>3. CASE ~Held(more[n])
          BY <4>2, <4>3, <1>3 DEF Readable
        <4>4. CASE \E m \in n + 1 .. Len(more) : Joins(more[m], id)
          <5>1. PICK m \in n + 1 .. Len(more) : Joins(more[m], id)
            BY <4>4
          <5>2. CASE m = last + 1
            BY <5>1, <5>2, <4>2, <1>3
          <5>3. CASE m # last + 1
            <6>1. m \in n + 1 .. Len(steps) /\ m \in 1 .. last
              BY <5>1, <5>3, <4>2, <1>2, <1>3
            <6> QED BY <6>1, <5>1, <4>2, <1>3 DEF Readable
          <5> QED BY <5>2, <5>3
        <4> QED BY <4>1, <4>3, <4>4
      <3>2. ASSUME Readable(steps, id) PROVE Readable(more, id)
        <4>1. PICK n \in At(steps, id) :
                ~Held(steps[n]) \/ \E m \in n + 1 .. Len(steps) : Joins(steps[m], id)
          BY <3>2 DEF Readable
        <4>2. n \in At(more, id) /\ n \in 1 .. last
          BY <2>1, <1>3 DEF At
        <4>3. CASE ~Held(steps[n])
          BY <4>2, <4>3, <1>3 DEF Readable
        <4>4. CASE \E m \in n + 1 .. Len(steps) : Joins(steps[m], id)
          <5>1. PICK m \in n + 1 .. Len(steps) : Joins(steps[m], id)
            BY <4>4
          <5>2. m \in n + 1 .. Len(more) /\ m \in 1 .. last
            BY <4>2, <1>2, <1>3
          <5> QED BY <5>1, <5>2, <4>2, <1>3 DEF Readable
        <4> QED BY <4>1, <4>3, <4>4
      <3>3. ASSUME At(steps, id) # {}, Joins(step, id) PROVE Readable(more, id)
        <4>1. PICK n : n \in At(steps, id)
          BY <3>3
        <4>2. n \in At(more, id) /\ n \in 1 .. last
          BY <4>1, <2>1, <1>3 DEF At
        <4>3. last + 1 \in n + 1 .. Len(more)
          BY <4>2, <1>3
        <4> QED BY <4>2, <4>3, <3>3, <1>3 DEF Readable
      <3> QED BY <3>1, <3>2, <3>3
    <2> QED BY <2>1, <2>2, <2>3, <1>4
  <1> QED BY <1>5, <1>6

\* Validation accepts the steps with one more, if the ids of that one are free
\* and validation accepts it where it stands.
LEMMA AddingAccepted ==
    ASSUME NEW steps \in Seq(Authored), NEW step \in Authored,
           steps # <<>> => Accepted(steps),
           \A id \in StepIds(step) : At(steps, id) = {},
           IsControl(step) => ControlAccepted(Append(steps, step), Len(steps) + 1),
           step.kind = "parallel" => GroupAccepted(step.children)
    PROVE  Accepted(Append(steps, step))
  <1>1. PICK more \in Seq(Authored) : more = Append(steps, step)
    BY Appending
  <1>2. PICK last \in Nat : last = Len(steps)
    BY Appending
  <1>3. /\ DOMAIN steps = 1 .. last /\ DOMAIN more = 1 .. last + 1
        /\ more # <<>>
        /\ \A n \in 1 .. last : more[n] = steps[n]
        /\ more[last + 1] = step
    BY <1>1, <1>2, Appending
  <1>4. \A n \in 1 .. last + 1 : n \in 1 .. last \/ n = last + 1
    OBVIOUS
  <1>5. last # 0 => Accepted(steps)
    BY <1>2
  <1>6. ASSUME NEW n \in 1 .. last + 1
        PROVE  /\ IsControl(more[n]) => ControlAccepted(more, n)
               /\ more[n].kind = "parallel" => GroupAccepted(more[n].children)
    <2>1. CASE n \in 1 .. last
      <3>1. last # 0
        BY <2>1
      <3>2. /\ IsControl(steps[n]) => ControlAccepted(steps, n)
            /\ steps[n].kind = "parallel" => GroupAccepted(steps[n].children)
        BY <3>1, <1>5, <1>3, <2>1 DEF Accepted
      <3>3. \A m \in 1 .. n - 1 : more[m] = steps[m]
        BY <2>1, <1>3
      <3>4. BackgroundBefore(more, n) = BackgroundBefore(steps, n)
        BY <3>3 DEF BackgroundBefore
      <3>5. more[n] = steps[n]
        BY <2>1, <1>3
      <3> QED BY <3>2, <3>4, <3>5 DEF ControlAccepted
    <2>2. CASE n = last + 1
      BY <2>2, <1>1, <1>2, <1>3
    <2> QED BY <2>1, <2>2, <1>4
  <1>7. ASSUME NEW n \in 1 .. last
        PROVE  StepIds(more[n]) \cap StepIds(step) = {}
    BY <1>3 DEF At
  <1>8. ASSUME NEW m \in 1 .. last + 1, NEW n \in 1 .. last + 1, m # n
        PROVE  StepIds(more[m]) \cap StepIds(more[n]) = {}
    <2>1. CASE m \in 1 .. last /\ n \in 1 .. last
      <3>1. last # 0
        BY <2>1
      <3> QED BY <3>1, <2>1, <1>3, <1>5, <1>8 DEF Accepted
    <2>2. CASE m = last + 1
      BY <2>2, <1>3, <1>4, <1>7, <1>8
    <2>3. CASE n = last + 1
      BY <2>3, <1>3, <1>4, <1>7, <1>8
    <2> QED BY <2>1, <2>2, <2>3, <1>4
  <1> QED BY <1>1, <1>3, <1>6, <1>8 DEF Accepted

\* A reference that is pending is one to a background step of the same steps.
LEMMA PendingIsBackground ==
    ASSUME NEW steps \in Seq(Authored), NEW refs, NEW step \in Authored,
           Hidden(steps, refs), NEW id \in Ids, refs[id] = "pending"
    PROVE  id \in BackgroundBefore(Append(steps, step), Len(steps) + 1)
  <1>1. At(steps, id) # {} /\ ~Readable(steps, id)
    BY DEF Hidden
  <1>2. PICK n \in DOMAIN steps : id \in StepIds(steps[n])
    BY <1>1 DEF At
  <1>3. steps[n].kind # "parallel" /\ steps[n].background = "true"
    BY <1>1, <1>2 DEF Readable, At, Held
  <1>4. steps[n] \in Authored
    BY <1>2
  <1>5. ~IsControl(steps[n])
    BY <1>2, <1>4, StepIdsProperties
  <1>6. id = steps[n].id /\ id # Anonymous
    BY <1>2, <1>3, <1>5 DEF StepIds
  <1>7. n \in 1 .. (Len(steps) + 1) - 1 /\ Append(steps, step)[n] = steps[n]
    BY Appending
  <1> QED BY <1>3, <1>5, <1>6, <1>7 DEF BackgroundBefore, IsControl

\* The state with one more step is sound, under the conditions above.
LEMMA Adding ==
    ASSUME NEW state, Sound(state), NEW step \in Authored, NEW next \in References,
           \A id \in StepIds(step) :
               /\ state.refs[id] = "none"
               /\ next[id] = IF Held(step) THEN "pending" ELSE "ready",
           \A id \in Ids \ StepIds(step) :
               next[id] = IF state.refs[id] = "pending" /\ Joins(step, id)
                          THEN "ready" ELSE state.refs[id],
           IsControl(step) =>
               ControlAccepted(Append(state.steps, step), Len(state.steps) + 1),
           step.kind = "parallel" => GroupAccepted(step.children)
    PROVE  Sound([state EXCEPT !.steps = Append(state.steps, step), !.refs = next])
  <1>1. /\ state.steps \in Seq(Authored) /\ state.refs \in References
        /\ Hidden(state.steps, state.refs)
        /\ state.steps # <<>> => Accepted(state.steps)
    BY DEF Sound, StateType
  <1>2. PICK steps \in Seq(Authored) : steps = Append(state.steps, step)
    BY <1>1, Appending
  <1>3. Hidden(steps, next)
    BY <1>1, <1>2, AddingHides
  <1>4. \A id \in StepIds(step) : At(state.steps, id) = {}
    BY <1>1, StepIdsProperties DEF Hidden
  <1>5. Accepted(steps)
    BY <1>1, <1>2, <1>4, AddingAccepted
  <1>6. PICK after : after = [state EXCEPT !.steps = steps, !.refs = next]
    OBVIOUS
  <1>7. after \in StateType /\ after.steps = steps /\ after.refs = next
    BY <1>6 DEF Sound, StateType
  <1>8. Sound(after)
    BY <1>3, <1>5, <1>7 DEF Sound
  <1> QED BY <1>2, <1>6, <1>8

-----------------------------------------------------------------------------
(* The calls.                                                               *)

\* A plain step is appended to a sound state.
LEMMA AppendedSound ==
    ASSUME NEW state, Sound(state), NEW leaf \in Shapes, ~Duplicated(state, leaf)
    PROVE  Sound(Appended(state, leaf))
  <1>1. /\ leaf \in Leaf({"run", "task"}) /\ leaf \in Authored
        /\ leaf.kind \in {"run", "task"} /\ leaf.id \in Ids \cup {Anonymous}
        /\ leaf.background \in Settings
    BY ConstantsAssumption DEF Leaf, Authored
  <1>2. StepIds(leaf) = {leaf.id} \ {Anonymous} /\ ~IsControl(leaf)
    BY <1>1 DEF StepIds, IsControl
  <1>3. /\ state.steps \in Seq(Authored) /\ state.refs \in References
        /\ Hidden(state.steps, state.refs)
    BY DEF Sound, StateType
  <1>4. PICK next : next = IF leaf.id = Anonymous THEN state.refs
                           ELSE [state.refs EXCEPT ![leaf.id] = Reference(leaf)]
    OBVIOUS
  <1>5. Reference(leaf) = IF Held(leaf) THEN "pending" ELSE "ready"
    BY <1>1 DEF Reference, Held
  <1>6. next \in References
    BY <1>1, <1>3, <1>4, <1>5 DEF References
  <1>7. ASSUME NEW id \in StepIds(leaf)
        PROVE  /\ state.refs[id] = "none"
               /\ next[id] = IF Held(leaf) THEN "pending" ELSE "ready"
    <2>1. id = leaf.id /\ id \in Ids /\ leaf.id # Anonymous
      BY <1>1, <1>2, <1>7
    <2>2. At(state.steps, id) = {}
      BY <2>1 DEF Duplicated, TakenIds, At
    <2> QED BY <2>1, <2>2, <1>3, <1>4, <1>5 DEF Hidden, References
  <1>8. ASSUME NEW id \in Ids \ StepIds(leaf)
        PROVE  next[id] = IF state.refs[id] = "pending" /\ Joins(leaf, id)
                          THEN "ready" ELSE state.refs[id]
    <2>1. ~Joins(leaf, id)
      BY <1>1 DEF Joins
    <2>2. next[id] = state.refs[id]
      BY <1>2, <1>3, <1>4, <1>8 DEF References
    <2> QED BY <2>1, <2>2
  <1>9. Sound([state EXCEPT !.steps = Append(state.steps, leaf), !.refs = next])
    BY <1>1, <1>2, <1>6, <1>7, <1>8, Adding
  <1> QED BY <1>4, <1>9 DEF Appended

\* A control is appended, whose targets are pending.
LEMMA ControlSound ==
    ASSUME NEW state, Sound(state), NEW kind \in {"wait", "wait-all", "cancel"},
           NEW targets \in Seq(Ids),
           kind = "wait" => targets # <<>>,
           kind = "wait-all" => targets = <<>>,
           kind = "cancel" => Len(targets) = 1,
           IsInjective(targets),
           \A n \in DOMAIN targets : state.refs[targets[n]] = "pending"
    PROVE  Sound([state EXCEPT
               !.steps = Append(state.steps, [kind |-> kind, targets |-> targets]),
               !.refs = CASE kind = "cancel" -> state.refs
                          [] kind = "wait-all" -> Synchronize(state.refs, Ids)
                          [] OTHER -> Synchronize(state.refs, Range(targets))])
  <1>1. PICK step \in Control : step = [kind |-> kind, targets |-> targets]
    BY DEF Control
  <1>2. /\ step \in Authored /\ step.kind = kind /\ step.targets = targets
        /\ IsControl(step) /\ StepIds(step) = {} /\ step.kind # "parallel"
    BY <1>1 DEF Authored, IsControl, StepIds
  <1>3. /\ state.steps \in Seq(Authored) /\ state.refs \in References
        /\ Hidden(state.steps, state.refs)
    BY DEF Sound, StateType
  <1>4. PICK next : next = CASE kind = "cancel" -> state.refs
                             [] kind = "wait-all" -> Synchronize(state.refs, Ids)
                             [] OTHER -> Synchronize(state.refs, Range(targets))
    OBVIOUS
  <1>5. /\ kind = "cancel" => next = state.refs
        /\ kind = "wait-all" => next = Synchronize(state.refs, Ids)
        /\ kind = "wait" => next = Synchronize(state.refs, Range(targets))
    BY <1>4
  <1>6. next \in References
    BY <1>3, <1>5 DEF References, Synchronize
  <1>7. ASSUME NEW id \in Ids
        PROVE  next[id] = IF state.refs[id] = "pending" /\ Joins(step, id)
                          THEN "ready" ELSE state.refs[id]
    BY <1>2, <1>3, <1>5 DEF References, Synchronize, Joins
  <1>8. ControlAccepted(Append(state.steps, step), Len(state.steps) + 1)
    <2>1. Append(state.steps, step)[Len(state.steps) + 1] = step
      BY <1>2, <1>3, Appending
    <2>2. Range(targets) \subseteq
            BackgroundBefore(Append(state.steps, step), Len(state.steps) + 1)
      <3>1. ASSUME NEW n \in DOMAIN targets
            PROVE  targets[n] \in
                BackgroundBefore(Append(state.steps, step), Len(state.steps) + 1)
        <4>1. targets[n] \in Ids /\ state.refs[targets[n]] = "pending"
          OBVIOUS
        <4> QED BY <4>1, <1>2, <1>3, PendingIsBackground
      <3> QED BY <3>1 DEF Range
    <2>3. (CASE step.kind = "wait-all" -> targets = <<>>
             [] step.kind = "cancel" -> Len(targets) = 1
             [] OTHER -> targets # <<>>)
      BY <1>2
    <2> QED BY <2>1, <2>2, <2>3, <1>2 DEF ControlAccepted
  <1>9. Sound([state EXCEPT !.steps = Append(state.steps, step), !.refs = next])
    BY <1>2, <1>6, <1>7, <1>8, Adding
  <1> QED BY <1>1, <1>4, <1>9

\* The step that a child of a group adds is readable for that child, if it has
\* an id.
LEMMA ChildIsReadable ==
    ASSUME NEW group, NEW child, Sound(child), NEW last \in Nat,
           Len(child.steps) = last + 1, IsChild(group, child)
    PROVE  LET leaf == child.steps[Len(child.steps)]
           IN  /\ leaf \in Leaf({"run", "task"})
               /\ leaf.background = "unset"
               /\ leaf.id # Anonymous => child.refs[leaf.id] = "ready"
  <1>1. child.steps \in Seq(Authored) /\ Hidden(child.steps, child.refs)
    BY DEF Sound, StateType
  <1>2. PICK leaf : leaf = child.steps[Len(child.steps)]
    OBVIOUS
  <1>3. last + 1 \in DOMAIN child.steps /\ leaf = child.steps[last + 1]
    BY <1>1, <1>2
  <1>4. leaf \in Authored /\ leaf.kind \in {"run", "task"} /\ leaf.background = "unset"
    BY <1>1, <1>2, <1>3 DEF IsChild
  <1>5. leaf \in Leaf({"run", "task"})
    BY <1>4 DEF Authored, Group, Control
  <1>6. ASSUME leaf.id # Anonymous PROVE child.refs[leaf.id] = "ready"
    <2>1. leaf.id \in Ids
      BY <1>5, <1>6 DEF Leaf
    <2>2. leaf.id \in StepIds(leaf)
      BY <1>4, <1>6 DEF StepIds, IsControl
    <2>3. ~Held(leaf)
      BY <1>4 DEF Held
    <2>4. last + 1 \in At(child.steps, leaf.id)
      BY <1>3, <2>2 DEF At
    <2>5. Readable(child.steps, leaf.id)
      BY <2>3, <2>4, <1>3 DEF Readable
    <2> QED BY <2>1, <2>5, <1>1 DEF Hidden
  <1> QED BY <1>2, <1>4, <1>5, <1>6

\* The steps that the children of a group add, in a sequence.
LEMMA AddedByProperties ==
    ASSUME NEW m \in Nat, NEW children, DOMAIN children = 1 .. m, NEW S,
           \A n \in 1 .. m : children[n].steps[Len(children[n].steps)] \in S
    PROVE  /\ AddedBy(children) \in Seq(S) /\ DOMAIN AddedBy(children) = 1 .. m
           /\ \A n \in 1 .. m :
                AddedBy(children)[n] = children[n].steps[Len(children[n].steps)]
  BY DEF AddedBy

\* The ids of those steps, for those that have one.
LEMMA OwnIdsProperties ==
    ASSUME NEW m \in Nat, NEW leaves, DOMAIN leaves = 1 .. m
    PROVE  /\ DOMAIN OwnIds(leaves) = {n \in 1 .. m : leaves[n].id # Anonymous}
           /\ \A n \in DOMAIN OwnIds(leaves) : OwnIds(leaves)[n] = leaves[n].id
           /\ Range(OwnIds(leaves)) = {leaves[n].id : n \in 1 .. m} \ {Anonymous}
  <1>1. PICK named : named = OwnIds(leaves)
    OBVIOUS
  <1>2. DOMAIN named = {n \in 1 .. m : leaves[n].id # Anonymous}
    BY <1>1 DEF OwnIds
  <1>3. \A n \in DOMAIN named : named[n] = leaves[n].id
    BY <1>1 DEF OwnIds
  <1>4. Range(named) = {named[n] : n \in DOMAIN named}
    BY DEF Range
  <1>5. Range(named) = {leaves[n].id : n \in 1 .. m} \ {Anonymous}
    BY <1>2, <1>3, <1>4
  <1> QED BY <1>1, <1>2, <1>3, <1>5

\* The reference to a member of the group is that of a child that added a step
\* with its id.
LEMMA GroupReferencesProperties ==
    ASSUME NEW refs, NEW children, NEW named
    PROVE  LET next == GroupReferences(refs, children, named)
           IN  /\ next \in [Ids -> {next[id] : id \in Ids}]
               /\ \A id \in Ids \ Range(named) : next[id] = refs[id]
               /\ \A id \in Ids : id \in Range(named) => \E n \in DOMAIN named :
                     named[n] = id /\ next[id] = children[n].refs[id]
  <1>1. PICK next : next = GroupReferences(refs, children, named)
    OBVIOUS
  <1>2. next \in [Ids -> {next[id] : id \in Ids}]
    BY <1>1 DEF GroupReferences
  <1>3. \A id \in Ids \ Range(named) : next[id] = refs[id]
    BY <1>1 DEF GroupReferences
  <1>4. ASSUME NEW id \in Ids, id \in Range(named)
        PROVE  \E n \in DOMAIN named :
                 named[n] = id /\ next[id] = children[n].refs[id]
    <2>1. \E n \in DOMAIN named : named[n] = id
      BY <1>4 DEF Range
    <2>2. PICK k : k = CHOOSE n \in DOMAIN named : named[n] = id
      OBVIOUS
    <2>3. k \in DOMAIN named /\ named[k] = id
      BY <2>1, <2>2
    <2>4. next[id] = children[k].refs[id]
      BY <1>1, <1>4, <2>2 DEF GroupReferences
    <2> QED BY <2>3, <2>4
  <1> QED BY <1>1, <1>2, <1>3, <1>4

\* A group fits a state: its members are readable for the children that added
\* them, have different ids that are free in that state, and are referred to as
\* the children do.
GroupFits(m, children, leaves, named, refs, next) ==
    /\ DOMAIN leaves = 1 .. m
    /\ \A n \in 1 .. m :
         /\ leaves[n].background = "unset"
         /\ leaves[n].id # Anonymous => children[n].refs[leaves[n].id] = "ready"
    /\ DOMAIN named = {n \in 1 .. m : leaves[n].id # Anonymous}
    /\ \A n \in DOMAIN named : named[n] = leaves[n].id
    /\ Range(named) = {leaves[n].id : n \in 1 .. m} \ {Anonymous}
    /\ IsInjective(named)
    /\ \A n \in DOMAIN named : refs[named[n]] = "none"
    /\ next \in [Ids -> {next[id] : id \in Ids}]
    /\ \A id \in Ids \ Range(named) : next[id] = refs[id]
    /\ \A id \in Ids : id \in Range(named) => \E n \in DOMAIN named :
         named[n] = id /\ next[id] = children[n].refs[id]

\* A group of steps that fits is appended to the state the group began at.
LEMMA GroupSound ==
    ASSUME NEW base, Sound(base), NEW m \in Nat, m # 0,
           NEW children, NEW leaves \in Seq(Leaf({"run", "task"})), NEW named, NEW next,
           GroupFits(m, children, leaves, named, base.refs, next)
    PROVE  Sound([base EXCEPT
               !.steps = Append(base.steps, [kind |-> "parallel", children |-> leaves]),
               !.refs = next])
  <1> USE DEF GroupFits
  <1>1. base.steps \in Seq(Authored) /\ base.refs \in References
    BY DEF Sound, StateType
  <1>2. PICK step : step = [kind |-> "parallel", children |-> leaves]
    OBVIOUS
  <1>3. /\ step \in Authored /\ step.kind = "parallel" /\ step.children = leaves
        /\ ~IsControl(step) /\ ~Held(step) /\ \A id \in Ids : ~Joins(step, id)
    BY <1>2 DEF Authored, Group, IsControl, Held, Joins
  <1>4. StepIds(step) = Range(named) /\ StepIds(step) \subseteq Ids
    <2>1. StepIds(step) = {leaves[n].id : n \in 1 .. m} \ {Anonymous}
      BY <1>3 DEF StepIds
    <2> QED BY <1>3, <2>1, StepIdsProperties
  <1>5. ASSUME NEW id \in StepIds(step)
        PROVE  base.refs[id] = "none" /\ next[id] = "ready"
    <2>1. id \in Ids /\ id \in Range(named)
      BY <1>4
    <2>2. PICK n \in DOMAIN named : named[n] = id /\ next[id] = children[n].refs[id]
      BY <2>1
    <2>3. n \in 1 .. m /\ leaves[n].id = id /\ leaves[n].id # Anonymous
      BY <2>2
    <2> QED BY <2>2, <2>3
  <1>6. \A id \in Ids \ StepIds(step) : next[id] = base.refs[id]
    BY <1>4
  <1>7. next \in References
    <2>1. \A id \in Ids : next[id] \in {"none", "pending", "ready"}
      BY <1>1, <1>5, <1>6 DEF References
    <2> QED BY <2>1 DEF References
  <1>8. GroupAccepted(leaves)
    <2>1. leaves # <<>>
      OBVIOUS
    <2>2. ASSUME NEW c \in 1 .. m, NEW d \in 1 .. m, c # d, leaves[c].id # Anonymous
          PROVE  leaves[c].id # leaves[d].id
      BY <2>2 DEF IsInjective
    <2> QED BY <2>1, <2>2 DEF GroupAccepted
  <1>9. /\ \A id \in StepIds(step) :
               /\ base.refs[id] = "none"
               /\ next[id] = IF Held(step) THEN "pending" ELSE "ready"
        /\ \A id \in Ids \ StepIds(step) :
               next[id] = IF base.refs[id] = "pending" /\ Joins(step, id)
                          THEN "ready" ELSE base.refs[id]
        /\ IsControl(step) =>
               ControlAccepted(Append(base.steps, step), Len(base.steps) + 1)
        /\ step.kind = "parallel" => GroupAccepted(step.children)
    BY <1>3, <1>5, <1>6, <1>8
  <1>10. Sound([base EXCEPT !.steps = Append(base.steps, step), !.refs = next])
    BY <1>3, <1>7, <1>9, Adding
  <1> QED BY <1>2, <1>10

-----------------------------------------------------------------------------
(* The invariant.                                                           *)

\* The empty job has no step and no reference.
LEMMA StartSound == Sound(Start)
  <1>1. Start.steps = <<>> /\ Start.refs = [id \in Ids |-> "none"] /\ Start \in StateType
    BY DEF Start, StateType, References
  <1>2. \A id \in Ids : At(<<>>, id) = {}
    BY DEF At
  <1>3. Hidden(<<>>, [id \in Ids |-> "none"])
    BY <1>2 DEF Hidden, Readable
  <1> QED BY <1>1, <1>3 DEF Sound

\* What is left of the open groups after the innermost one has ended.
LEMMA FrontProperties ==
    ASSUME NEW S, NEW s \in Seq(S), s # <<>>
    PROVE  /\ Front(s) \in Seq(S)
           /\ \A n \in DOMAIN Front(s) : n \in DOMAIN s /\ Front(s)[n] = s[n]
  BY DEF Front

\* The innermost open group began at a sound state.
LEMMA LastIsSound ==
    ASSUME IInv, open # <<>> PROVE Sound(open[Len(open)].base)
  <1>1. Len(open) \in DOMAIN open
    BY DEF IInv
  <1> QED BY <1>1 DEF IInv

\* Every call leaves every state sound that it adds.
LEMMA Invariance == IInv /\ [Next]_vars => IInv'
  <1> SUFFICES ASSUME IInv, [Next]_vars PROVE IInv'
    OBVIOUS
  <1> USE DEF IInv
  <1>1. ASSUME NEW state, Sound(state), Return(state), open' = open
        PROVE  IInv'
    BY <1>1 DEF Return
  <1>2. CASE AppendStep
    <2>1. PICK state \in states \cup {open[n].branch : n \in DOMAIN open},
               leaf \in Shapes :
                 /\ ~Duplicated(state, leaf)
                 /\ Return(Appended(state, leaf))
                 /\ open' = open
      BY <1>2 DEF AppendStep
    <2>2. Sound(state)
      OBVIOUS
    <2> QED BY <2>1, <2>2, <1>1, AppendedSound
  <1>3. CASE CallControl
    <2>1. PICK state \in states, kind \in {"wait", "wait-all", "cancel"},
               handles \in BoundedSeq(Handles, 2) :
                 ControlWith(state, kind, handles) /\ open' = open
      BY <1>3 DEF CallControl
    <2>2. PICK m \in 0 .. 2 : handles \in [1 .. m -> Handles]
      <3>1. handles \in UNION {[1 .. m -> Handles] : m \in 0 .. 2}
        BY DEF BoundedSeq, SeqOf
      <3> QED BY <3>1
    <2>3. PICK targets : targets = [n \in DOMAIN handles |-> handles[n].id]
      OBVIOUS
    <2>4. ASSUME NEW n \in 1 .. m
          PROVE  targets[n] \in Ids /\ state.refs[targets[n]] = "pending"
      <3>1. handles[n].id \in Ids
        BY <2>2 DEF Handles
      <3> QED BY <2>1, <2>2, <2>3, <3>1 DEF ControlWith, IsTarget
    <2>5. targets \in Seq(Ids) /\ DOMAIN targets = 1 .. m
      <3>1. DOMAIN targets = 1 .. m
        BY <2>2, <2>3
      <3>2. targets \in [1 .. m -> Ids]
        BY <2>3, <2>4, <3>1
      <3> QED BY <3>1, <3>2
    <2>6. /\ kind = "wait" => targets # <<>>
          /\ kind = "wait-all" => targets = <<>>
          /\ kind = "cancel" => Len(targets) = 1
          /\ IsInjective(targets)
      <3>1. handles \in Seq(Handles) /\ Len(handles) = m /\ Len(targets) = m
        BY <2>2, <2>5
      <3> QED BY <2>1, <2>3, <2>5, <3>1 DEF ControlWith
    <2>7. Return([state EXCEPT
               !.steps = Append(state.steps, [kind |-> kind, targets |-> targets]),
               !.refs = CASE kind = "cancel" -> state.refs
                          [] kind = "wait-all" -> Synchronize(state.refs, Ids)
                          [] OTHER -> Synchronize(state.refs, Range(targets))])
      BY <2>1, <2>3 DEF ControlWith
    <2>8. Sound([state EXCEPT
               !.steps = Append(state.steps, [kind |-> kind, targets |-> targets]),
               !.refs = CASE kind = "cancel" -> state.refs
                          [] kind = "wait-all" -> Synchronize(state.refs, Ids)
                          [] OTHER -> Synchronize(state.refs, Range(targets))])
      BY <2>1, <2>4, <2>5, <2>6, ControlSound
    <2> QED BY <2>1, <2>7, <2>8, <1>1
  <1>4. CASE MapOutputs
    <2>1. PICK state \in states : Return([state EXCEPT !.outputs = TRUE]) /\ open' = open
      BY <1>4 DEF MapOutputs
    <2>2. PICK after : after = [state EXCEPT !.outputs = TRUE]
      OBVIOUS
    <2>3. /\ after \in StateType /\ after.steps = state.steps
          /\ after.refs = state.refs
      BY <2>2 DEF Sound, StateType
    <2>4. Sound(after)
      BY <2>3 DEF Sound
    <2> QED BY <2>1, <2>2, <2>4, <1>1
  <1>5. CASE BeginParallel
    <2>1. PICK state \in states :
            open' = Append(open, [base |-> state,
                                  branch |-> [state EXCEPT !.origin = groups + 1]])
      BY <1>5 DEF BeginParallel
    <2>2. groups < MaxGroups /\ groups' = groups + 1 /\ states' = states
      BY <1>5 DEF BeginParallel
    <2>3. PICK branch : branch = [state EXCEPT !.origin = groups + 1]
      OBVIOUS
    <2>4. /\ branch \in StateType /\ branch.steps = state.steps
          /\ branch.refs = state.refs
      BY <2>2, <2>3, ConstantsAssumption DEF Sound, StateType
    <2>5. Sound(branch) /\ Sound(state)
      BY <2>4 DEF Sound
    <2>6. PICK group \in [base : StateType, branch : StateType] :
            group = [base |-> state, branch |-> branch]
      BY <2>4 DEF Sound
    <2>7. open' \in Seq([base : StateType, branch : StateType])
      BY <2>1, <2>3, <2>6
    <2>8. \A n \in DOMAIN open' : Sound(open'[n].base) /\ Sound(open'[n].branch)
      BY <2>1, <2>3, <2>5, <2>6
    <2> QED BY <2>2, <2>7, <2>8, ConstantsAssumption
  <1>6. ASSUME open # <<>>, open' = Front(open)
        PROVE  /\ open' \in Seq([base : StateType, branch : StateType])
               /\ \A n \in DOMAIN open' : Sound(open'[n].base) /\ Sound(open'[n].branch)
    BY <1>6, FrontProperties
  <1>7. CASE EndParallel
    <2>1. PICK group : group = open[Len(open)]
      OBVIOUS
    <2>2. PICK children \in BoundedSeq(states, MaxMembers) :
            /\ open # <<>>
            /\ children # <<>>
            /\ \A n \in DOMAIN children : IsChild(group, children[n])
            /\ IsInjective(OwnIds(AddedBy(children)))
            /\ \A n \in DOMAIN OwnIds(AddedBy(children)) :
                 group.base.refs[OwnIds(AddedBy(children))[n]] = "none"
            /\ Return(Grouped(group.base, children))
            /\ open' = Front(open)
      BY <1>7, <2>1 DEF EndParallel
    <2>3. PICK m \in 0 .. MaxMembers : children \in [1 .. m -> states]
      <3>1. children \in UNION {[1 .. m -> states] : m \in 0 .. MaxMembers}
        BY DEF BoundedSeq, SeqOf
      <3> QED BY <3>1
    <2>4. m # 0 /\ m \in Nat /\ DOMAIN children = 1 .. m
      BY <2>2, <2>3
    <2>5. PICK base : base = group.base
      OBVIOUS
    <2>6. Sound(base)
      BY <2>1, <2>2, <2>5, LastIsSound
    <2>7. Len(base.steps) \in Nat
      BY <2>6 DEF Sound, StateType
    <2>8. \A n \in 1 .. m : Sound(children[n]) /\ IsChild(group, children[n])
      BY <2>2, <2>3
    <2>9. ASSUME NEW n \in 1 .. m
          PROVE  LET leaf == children[n].steps[Len(children[n].steps)]
                 IN  /\ leaf \in Leaf({"run", "task"})
                     /\ leaf.background = "unset"
                     /\ leaf.id # Anonymous => children[n].refs[leaf.id] = "ready"
      <3>1. Len(children[n].steps) = Len(base.steps) + 1
        BY <2>5, <2>8 DEF IsChild
      <3> QED BY <2>7, <2>8, <3>1, ChildIsReadable
    <2>10. PICK leaves : leaves = AddedBy(children)
      OBVIOUS
    <2>11. /\ leaves \in Seq(Leaf({"run", "task"})) /\ DOMAIN leaves = 1 .. m
           /\ \A n \in 1 .. m : leaves[n] = children[n].steps[Len(children[n].steps)]
      <3>1. PICK kinds : kinds = Leaf({"run", "task"})
        OBVIOUS
      <3>2. \A n \in 1 .. m : children[n].steps[Len(children[n].steps)] \in kinds
        BY <2>9, <3>1
      <3>3. /\ AddedBy(children) \in Seq(kinds) /\ DOMAIN AddedBy(children) = 1 .. m
            /\ \A n \in 1 .. m :
                 AddedBy(children)[n] = children[n].steps[Len(children[n].steps)]
        BY ONLY <2>4, <3>2, AddedByProperties
      <3> QED BY <2>10, <3>1, <3>3
    <2>12. PICK named : named = OwnIds(leaves)
      OBVIOUS
    <2>13. /\ DOMAIN named = {n \in 1 .. m : leaves[n].id # Anonymous}
           /\ \A n \in DOMAIN named : named[n] = leaves[n].id
           /\ Range(named) = {leaves[n].id : n \in 1 .. m} \ {Anonymous}
      BY <2>4, <2>11, <2>12, OwnIdsProperties
    <2>14. PICK next : next = GroupReferences(base.refs, children, named)
      OBVIOUS
    <2>15. /\ next \in [Ids -> {next[id] : id \in Ids}]
           /\ \A id \in Ids \ Range(named) : next[id] = base.refs[id]
           /\ \A id \in Ids : id \in Range(named) => \E n \in DOMAIN named :
                 named[n] = id /\ next[id] = children[n].refs[id]
      BY <2>14, GroupReferencesProperties
    <2>16. IsInjective(named) /\ \A n \in DOMAIN named : base.refs[named[n]] = "none"
      BY <2>2, <2>5, <2>10, <2>12
    <2>17. Grouped(base, children) = [base EXCEPT
             !.steps = Append(base.steps, [kind |-> "parallel", children |-> leaves]),
             !.refs = next]
      BY <2>10, <2>12, <2>14 DEF Grouped
    <2>18. \A n \in 1 .. m :
               /\ leaves[n].background = "unset"
               /\ leaves[n].id # Anonymous => children[n].refs[leaves[n].id] = "ready"
      BY <2>9, <2>11
    <2>19. GroupFits(m, children, leaves, named, base.refs, next)
      BY ONLY <2>11, <2>13, <2>15, <2>16, <2>18 DEF GroupFits
    <2>20. Sound([base EXCEPT
             !.steps = Append(base.steps, [kind |-> "parallel", children |-> leaves]),
             !.refs = next])
      BY ONLY <2>4, <2>6, <2>11, <2>19, GroupSound
    <2>21. Sound(Grouped(group.base, children))
      BY <2>5, <2>17, <2>20
    <2> QED BY <2>2, <2>21, <1>6 DEF Return
  <1>8. CASE AbandonParallel
    BY <1>6, <1>8 DEF AbandonParallel
  <1>9. CASE UNCHANGED vars
    BY <1>9 DEF vars
  <1> QED BY <1>2, <1>3, <1>4, <1>5, <1>7, <1>8, <1>9 DEF Next

\* The invariant holds of every state of a behaviour.
LEMMA Invariant == Spec => []IInv
  <1>1. Init => IInv
    BY StartSound, ConstantsAssumption DEF Init, IInv
  <1> QED BY <1>1, Invariance, PTL DEF Spec

-----------------------------------------------------------------------------
(* What the author wrote.                                                   *)

\* Steps that an author has written with at most so many calls: they take ids
\* that the author chose, and no group is larger than allowed.
Written(steps, calls) ==
    /\ Len(steps) <= calls
    /\ \A n \in DOMAIN steps : /\ StepIds(steps[n]) \subseteq AuthorIds
                               /\ Len(Members(steps[n])) <= MaxMembers

\* Every call that returns a state makes at most one step, so that there are
\* never more steps than calls.
WrittenInv ==
    /\ IsFiniteSet(states) /\ Calls \in 0 .. MaxCalls
    /\ \A state \in states : Written(state.steps, Calls)
    /\ \A n \in DOMAIN open : /\ Written(open[n].base.steps, Calls)
                              /\ Written(open[n].branch.steps, Calls)

\* One more step takes one more call.
LEMMA WritingMore ==
    ASSUME NEW T, NEW steps \in Seq(T), NEW step \in T, NEW calls \in Nat,
           Written(steps, calls), StepIds(step) \subseteq AuthorIds,
           Len(Members(step)) <= MaxMembers
    PROVE  Written(Append(steps, step), calls + 1)
  <1>1. PICK more \in Seq(T), last \in Nat : more = Append(steps, step) /\ last = Len(steps)
    BY Appending
  <1>2. /\ DOMAIN more = 1 .. last + 1 /\ Len(more) = last + 1
        /\ DOMAIN steps = 1 .. last
        /\ \A n \in 1 .. last : more[n] = steps[n]
        /\ more[last + 1] = step
    BY <1>1, Appending
  <1>3. last <= calls
    BY <1>1 DEF Written
  <1>4. ASSUME NEW n \in 1 .. last + 1
        PROVE  StepIds(more[n]) \subseteq AuthorIds /\ Len(Members(more[n])) <= MaxMembers
    <2>1. CASE n \in 1 .. last
      BY <2>1, <1>2 DEF Written
    <2>2. CASE n = last + 1
      BY <2>2, <1>2
    <2> QED BY <2>1, <2>2
  <1> QED BY <1>1, <1>2, <1>3, <1>4 DEF Written

\* Steps that so many calls write, more calls can write.
LEMMA WrittenLater ==
    ASSUME NEW T, NEW steps \in Seq(T), NEW calls \in Nat, NEW more \in Nat, calls <= more,
           Written(steps, calls)
    PROVE  Written(steps, more)
  <1>1. Len(steps) \in Nat
    OBVIOUS
  <1> QED BY <1>1 DEF Written

\* A call returns a state that one call more can write.
LEMMA ReturnWrites ==
    ASSUME WrittenInv, NEW state, Written(state.steps, Calls + 1), Return(state), IInv'
    PROVE  /\ IsFiniteSet(states') /\ Calls' \in 0 .. MaxCalls /\ Calls <= Calls'
           /\ \A other \in states' : Written(other.steps, Calls')
  <1>1. /\ IsFiniteSet(states) /\ states' = states \cup {state}
        /\ Calls \in Nat /\ Calls < MaxCalls /\ MaxCalls \in Nat
        /\ Cardinality(states) \in Nat
        /\ \A other \in states : Written(other.steps, Calls)
    BY ConstantsAssumption, FS_CardinalityType DEF WrittenInv, Return
  <1>2. \A other \in states' : other.steps \in Seq(Authored)
    BY DEF IInv, Sound, StateType
  <1>3. CASE state \in states
    <2>1. states' = states
      BY <1>1, <1>3
    <2>2. Calls' = Calls
      BY <2>1 DEF Calls
    <2> QED BY <1>1, <2>1, <2>2
  <1>4. CASE state \notin states
    <2>1. IsFiniteSet(states') /\ Cardinality(states') = Cardinality(states) + 1
      BY <1>1, <1>4, FS_AddElement
    <2>2. Calls' = Calls + 1
      BY <1>1, <2>1 DEF Calls
    <2>3. ASSUME NEW other \in states' PROVE Written(other.steps, Calls + 1)
      <3>1. CASE other = state
        BY <3>1
      <3>2. CASE other \in states
        <4>1. Written(other.steps, Calls) /\ other.steps \in Seq(Authored)
          BY <1>1, <1>2, <2>3, <3>2
        <4>2. Calls + 1 \in Nat /\ Calls <= Calls + 1
          BY <1>1
        <4> QED BY <1>1, <4>1, <4>2, WrittenLater
      <3> QED BY <1>1, <2>3, <3>1, <3>2
    <2> QED BY <1>1, <2>1, <2>2, <2>3
  <1> QED BY <1>3, <1>4

\* A group that ends holds the steps that its children added.
LEMMA GroupWritten ==
    ASSUME NEW m \in Nat, NEW children, DOMAIN children = 1 .. m, m <= MaxMembers,
           NEW base, Sound(base), NEW calls \in Nat,
           Written(base.steps, calls), NEW group, group.base = base,
           \A n \in 1 .. m : /\ Sound(children[n]) /\ IsChild(group, children[n])
                             /\ Written(children[n].steps, calls)
    PROVE  Written(Grouped(base, children).steps, calls + 1)
  <1>1. base \in StateType /\ base.steps \in Seq(Authored) /\ Len(base.steps) \in Nat
    BY DEF Sound, StateType
  <1>2. ASSUME NEW n \in 1 .. m
        PROVE  LET leaf == children[n].steps[Len(children[n].steps)]
               IN  leaf \in Leaf({"run", "task"}) /\ {leaf.id} \ {Anonymous} \subseteq AuthorIds
    <2>1. PICK child, leaf : child = children[n] /\ leaf = child.steps[Len(child.steps)]
      OBVIOUS
    <2>2. /\ Sound(child) /\ IsChild(group, child) /\ Written(child.steps, calls)
          /\ Len(child.steps) = Len(base.steps) + 1
      BY <2>1 DEF IsChild
    <2>3. leaf \in Leaf({"run", "task"})
      BY <1>1, <2>1, <2>2, ChildIsReadable
    <2>4. child.steps \in Seq(Authored)
      BY <2>2 DEF Sound, StateType
    <2>5. Len(child.steps) \in DOMAIN child.steps
      BY <1>1, <2>2, <2>4
    <2>6. StepIds(leaf) \subseteq AuthorIds
      BY <2>1, <2>2, <2>5 DEF Written
    <2>7. leaf \in Authored /\ leaf.kind \in {"run", "task"}
      BY <2>3 DEF Authored, Leaf
    <2>8. StepIds(leaf) = {leaf.id} \ {Anonymous}
      BY <2>7, StepIdsProperties
    <2> QED BY <2>1, <2>3, <2>6, <2>8
  <1>3. PICK S : S = {leaf \in Leaf({"run", "task"}) : {leaf.id} \ {Anonymous} \subseteq AuthorIds}
    OBVIOUS
  <1>4. \A n \in 1 .. m : children[n].steps[Len(children[n].steps)] \in S
    BY <1>2, <1>3
  <1>5. PICK leaves : leaves = AddedBy(children)
    OBVIOUS
  <1>6. leaves \in Seq(S) /\ DOMAIN leaves = 1 .. m
    BY <1>4, <1>5, AddedByProperties
  <1>7. Len(leaves) = m /\ \A n \in 1 .. m : leaves[n] \in S
    BY <1>6
  <1>8. leaves \in Seq(Leaf({"run", "task"}))
    BY <1>3, <1>6
  <1>9. PICK step : step = [kind |-> "parallel", children |-> leaves]
    OBVIOUS
  <1>10. step \in Authored /\ step.kind = "parallel" /\ step.children = leaves
    BY <1>8, <1>9 DEF Authored, Group
  <1>11. StepIds(step) \subseteq AuthorIds
    <2>1. \A n \in 1 .. m : {leaves[n].id} \ {Anonymous} \subseteq AuthorIds
      BY <1>3, <1>7
    <2> QED BY <1>6, <1>10, <2>1 DEF StepIds
  <1>12. Len(Members(step)) <= MaxMembers
    BY <1>7, <1>10 DEF Members
  <1>13. Written(Append(base.steps, step), calls + 1)
    BY <1>1, <1>10, <1>11, <1>12, WritingMore
  <1>14. Grouped(base, children).steps = Append(base.steps, step)
    <2>1. PICK refs : refs = GroupReferences(base.refs, children, OwnIds(leaves))
      OBVIOUS
    <2>2. Grouped(base, children)
            = [base EXCEPT !.steps = Append(base.steps, step), !.refs = refs]
      BY <1>5, <1>9, <2>1 DEF Grouped
    <2> QED BY <1>1, <2>2 DEF StateType
  <1> QED BY <1>13, <1>14

\* Every call keeps to what the author wrote.
LEMMA WritingInvariance == IInv /\ WrittenInv /\ [Next]_vars => WrittenInv'
  <1> SUFFICES ASSUME IInv, WrittenInv, [Next]_vars, IInv' PROVE WrittenInv'
    BY Invariance
  <1> DEFINE Open(now, calls) == \A n \in DOMAIN now : /\ Written(now[n].base.steps, calls)
                                                       /\ Written(now[n].branch.steps, calls)
  <1>1. /\ IsFiniteSet(states) /\ Calls \in 0 .. MaxCalls /\ Calls \in Nat
        /\ \A state \in states : Sound(state) /\ Written(state.steps, Calls)
        /\ \A n \in DOMAIN open : Sound(open[n].base) /\ Sound(open[n].branch)
        /\ Open(open, Calls)
        /\ open \in Seq([base : StateType, branch : StateType])
    BY ConstantsAssumption DEF IInv, WrittenInv
  <1>2. ASSUME NEW calls \in Nat, Calls <= calls PROVE Open(open, calls)
    <2>1. ASSUME NEW n \in DOMAIN open
          PROVE  Written(open[n].base.steps, calls) /\ Written(open[n].branch.steps, calls)
      <3>1. /\ open[n].base.steps \in Seq(Authored) /\ open[n].branch.steps \in Seq(Authored)
            /\ Written(open[n].base.steps, Calls) /\ Written(open[n].branch.steps, Calls)
        BY <1>1, <2>1 DEF Sound, StateType
      <3> QED BY <1>1, <1>2, <3>1, WrittenLater
    <2> QED BY <2>1
  <1>3. ASSUME NEW state, Written(state.steps, Calls + 1), Return(state),
               \/ open' = open
               \/ open # <<>> /\ open' = Front(open)
        PROVE  WrittenInv'
    <2>1. /\ IsFiniteSet(states') /\ Calls' \in 0 .. MaxCalls /\ Calls <= Calls'
          /\ \A other \in states' : Written(other.steps, Calls')
      BY <1>3, ReturnWrites
    <2>2. Calls' \in Nat
      BY <2>1, ConstantsAssumption
    <2>3. Open(open, Calls')
      BY <1>2, <2>1, <2>2
    <2>4. Open(open', Calls')
      <3>1. CASE open' = open
        BY <2>3, <3>1
      <3>2. CASE open # <<>> /\ open' = Front(open)
        <4>1. \A n \in DOMAIN open' : n \in DOMAIN open /\ open'[n] = open[n]
          BY <1>1, <3>2, FrontProperties
        <4> QED BY <2>3, <4>1
      <3> QED BY <1>3, <3>1, <3>2
    <2> QED BY <2>1, <2>4 DEF WrittenInv
  <1>4. ASSUME open # <<>>, open' = Front(open), states' = states
        PROVE  WrittenInv'
    <2>1. \A n \in DOMAIN open' : n \in DOMAIN open /\ open'[n] = open[n]
      BY <1>1, <1>4, FrontProperties
    <2>2. Open(open', Calls)
      BY <1>1, <2>1
    <2>3. Calls' = Calls
      BY <1>4 DEF Calls
    <2> QED BY <1>1, <1>4, <2>2, <2>3 DEF WrittenInv
  <1>5. CASE AppendStep
    <2>1. PICK state \in states \cup {open[n].branch : n \in DOMAIN open},
               leaf \in Shapes :
                 /\ ~Duplicated(state, leaf)
                 /\ Return(Appended(state, leaf))
                 /\ open' = open
      BY <1>5 DEF AppendStep
    <2>2. Sound(state) /\ Written(state.steps, Calls)
      BY <1>1
    <2>3. state \in StateType /\ state.steps \in Seq(Authored)
      BY <2>2 DEF Sound, StateType
    <2>4. leaf \in Leaf({"run", "task"}) /\ leaf \in Authored /\ leaf.kind \in {"run", "task"}
      BY ConstantsAssumption DEF Leaf, Authored
    <2>5. StepIds(leaf) \subseteq AuthorIds
      <3>1. StepIds(leaf) = {leaf.id} \ {Anonymous}
        BY <2>4, StepIdsProperties
      <3> QED BY <3>1 DEF AuthorIds
    <2>6. Len(Members(leaf)) <= MaxMembers
      <3>1. Members(leaf) = <<leaf>>
        BY <2>4 DEF Members
      <3> QED BY <3>1, ConstantsAssumption
    <2>7. Written(Append(state.steps, leaf), Calls + 1)
      BY <1>1, <2>2, <2>3, <2>4, <2>5, <2>6, WritingMore
    <2>8. Appended(state, leaf).steps = Append(state.steps, leaf)
      BY <2>3 DEF Appended, StateType
    <2> QED BY <2>1, <2>7, <2>8, <1>3
  <1>6. CASE CallControl
    <2>1. PICK state \in states, kind \in {"wait", "wait-all", "cancel"},
               handles \in BoundedSeq(Handles, 2) :
                 ControlWith(state, kind, handles) /\ open' = open
      BY <1>6 DEF CallControl
    <2>2. PICK step, refs, after :
            /\ step = [kind |-> kind, targets |-> [n \in DOMAIN handles |-> handles[n].id]]
            /\ after = [state EXCEPT !.steps = Append(state.steps, step), !.refs = refs]
            /\ Return(after)
      BY <2>1 DEF ControlWith
    <2>3. state \in StateType /\ state.steps \in Seq(Authored) /\ Written(state.steps, Calls)
      BY <1>1 DEF Sound, StateType
    <2>4. step.kind = kind /\ IsControl(step) /\ step.kind # "parallel"
      BY <2>2 DEF IsControl
    <2>5. StepIds(step) = {} /\ Len(Members(step)) <= MaxMembers
      BY <2>4, ConstantsAssumption DEF StepIds, Members
    <2>6. PICK T : T = Authored \cup {step}
      OBVIOUS
    <2>7. state.steps \in Seq(T) /\ step \in T
      BY <2>3, <2>6
    <2>8. Written(Append(state.steps, step), Calls + 1)
      BY <1>1, <2>3, <2>5, <2>7, WritingMore
    <2>9. after.steps = Append(state.steps, step)
      BY <2>2, <2>3 DEF StateType
    <2> QED BY <2>1, <2>2, <2>8, <2>9, <1>3
  <1>7. CASE MapOutputs
    <2>1. PICK state \in states : Return([state EXCEPT !.outputs = TRUE]) /\ open' = open
      BY <1>7 DEF MapOutputs
    <2>2. PICK after : after = [state EXCEPT !.outputs = TRUE]
      OBVIOUS
    <2>3. after.steps = state.steps /\ state.steps \in Seq(Authored)
      BY <1>1, <2>2 DEF Sound, StateType
    <2>4. Written(state.steps, Calls) /\ Calls + 1 \in Nat /\ Calls <= Calls + 1
      BY <1>1
    <2>5. Written(after.steps, Calls + 1)
      BY <1>1, <2>3, <2>4, WrittenLater
    <2> QED BY <2>1, <2>2, <2>5, <1>3
  <1>8. CASE BeginParallel
    <2>1. PICK state \in states :
            open' = Append(open, [base |-> state,
                                  branch |-> [state EXCEPT !.origin = groups + 1]])
      BY <1>8 DEF BeginParallel
    <2>2. states' = states /\ Calls' = Calls
      BY <1>8 DEF BeginParallel, Calls
    <2>3. PICK branch : branch = [state EXCEPT !.origin = groups + 1]
      OBVIOUS
    <2>4. state \in StateType /\ Written(state.steps, Calls)
      BY <1>1 DEF Sound
    <2>5. branch \in StateType /\ branch.steps = state.steps
      <3>1. groups \in 0 .. MaxGroups /\ groups < MaxGroups
        BY <1>8 DEF BeginParallel, IInv
      <3>2. groups + 1 \in 1 .. MaxGroups
        BY <3>1, ConstantsAssumption
      <3> QED BY <2>3, <2>4, <3>2 DEF StateType
    <2>6. PICK group \in [base : StateType, branch : StateType] :
            group = [base |-> state, branch |-> branch]
      BY <2>4, <2>5
    <2>7. open' = Append(open, group)
      BY <2>1, <2>3, <2>6
    <2>8. /\ DOMAIN open' = 1 .. Len(open) + 1 /\ DOMAIN open = 1 .. Len(open)
          /\ \A n \in 1 .. Len(open) : open'[n] = open[n]
          /\ open'[Len(open) + 1] = group
          /\ Len(open) \in Nat
      BY <1>1, <2>7, Appending
    <2>9. \A n \in 1 .. Len(open) + 1 : n \in 1 .. Len(open) \/ n = Len(open) + 1
      BY <2>8
    <2>10. Written(group.base.steps, Calls) /\ Written(group.branch.steps, Calls)
      BY <2>4, <2>5, <2>6
    <2>11. Open(open', Calls)
      BY <1>1, <2>8, <2>9, <2>10
    <2> QED BY <1>1, <2>2, <2>11 DEF WrittenInv
  <1>9. CASE EndParallel
    <2>1. PICK group : group = open[Len(open)]
      OBVIOUS
    <2>2. PICK children \in BoundedSeq(states, MaxMembers) :
            /\ open # <<>>
            /\ \A n \in DOMAIN children : IsChild(group, children[n])
            /\ Return(Grouped(group.base, children))
            /\ open' = Front(open)
      BY <1>9, <2>1 DEF EndParallel
    <2>3. PICK m \in 0 .. MaxMembers : children \in [1 .. m -> states]
      <3>1. children \in UNION {[1 .. m -> states] : m \in 0 .. MaxMembers}
        BY DEF BoundedSeq, SeqOf
      <3> QED BY <3>1
    <2>4. m \in Nat /\ m <= MaxMembers /\ DOMAIN children = 1 .. m
      BY <2>3, ConstantsAssumption
    <2>5. Len(open) \in DOMAIN open
      BY <1>1, <2>2
    <2>6. PICK base : base = group.base
      OBVIOUS
    <2>7. Sound(base) /\ Written(base.steps, Calls)
      BY <1>1, <2>1, <2>5, <2>6
    <2>8. \A n \in 1 .. m : /\ Sound(children[n]) /\ IsChild(group, children[n])
                            /\ Written(children[n].steps, Calls)
      BY <1>1, <2>2, <2>3, <2>4
    <2>9. Written(Grouped(base, children).steps, Calls + 1)
      BY <1>1, <2>4, <2>6, <2>7, <2>8, GroupWritten
    <2> QED BY <2>2, <2>6, <2>9, <1>3
  <1>10. CASE AbandonParallel
    BY <1>4, <1>10 DEF AbandonParallel
  <1>11. CASE UNCHANGED vars
    BY <1>1, <1>11 DEF vars, WrittenInv, Calls
  <1> QED BY <1>5, <1>6, <1>7, <1>8, <1>9, <1>10, <1>11 DEF Next

\* It holds of every state of a behaviour.
LEMMA Writing == Spec => []WrittenInv
  <1>1. Init => WrittenInv
    <2> SUFFICES ASSUME Init PROVE WrittenInv
      OBVIOUS
    <2>1. states = {Start} /\ open = <<>>
      BY DEF Init
    <2>2. IsFiniteSet(states) /\ Cardinality(states) = 1
      BY <2>1, FS_Singleton
    <2>3. Calls = 0
      BY <2>2 DEF Calls
    <2>4. Written(Start.steps, 0)
      BY DEF Start, Written
    <2> QED BY <2>1, <2>2, <2>3, <2>4, ConstantsAssumption DEF WrittenInv
  <1> QED BY <1>1, Invariant, WritingInvariance, PTL DEF Spec

\* What holds of the steps of a state, that lowering relies on.
LEMMA WrittenFacts ==
    ASSUME IInv, WrittenInv, NEW state \in states
    PROVE  /\ state.steps \in Seq(Authored)
           /\ state.steps = <<>> \/ Accepted(state.steps)
           /\ TakenIds(state.steps) \subseteq AuthorIds
           /\ Cardinality(Range(TaskNames) \ AuthorIds) >= Len(Tasks(state.steps))
  <1>1. /\ state.steps \in Seq(Authored)
        /\ state.steps = <<>> \/ Accepted(state.steps)
    BY DEF IInv, Sound, StateType
  <1>2. Written(state.steps, Calls) /\ Calls \in 0 .. MaxCalls
    BY DEF WrittenInv
  <1>3. TakenIds(state.steps) \subseteq AuthorIds
    BY <1>2 DEF Written, TakenIds
  <1>4. PICK total \in Nat, last \in Nat, most \in Nat, calls \in Nat :
          /\ total = Len(Tasks(state.steps)) /\ last = Len(state.steps)
          /\ most = MaxMembers /\ calls = MaxCalls
    <2>1. Tasks(state.steps) \in Seq(AnyLeaf)
      BY <1>1, TasksType
    <2> QED BY <1>1, <2>1, ConstantsAssumption
  <1>5. last <= calls
    BY <1>2, <1>4 DEF Written
  <1>6. total <= most * last
    <2>1. \A n \in DOMAIN state.steps : Len(Members(state.steps[n])) <= most
      BY <1>2, <1>4 DEF Written
    <2> QED BY <1>1, <1>4, <2>1, TasksBounded
  <1>7. most * last <= most * calls /\ most * last \in Nat /\ most * calls \in Nat
    BY ONLY <1>5, most \in Nat, last \in Nat, calls \in Nat
  <1>8. total <= most * calls
    BY ONLY <1>6, <1>7, total \in Nat
  <1>9. PICK names : names = Cardinality(Range(TaskNames) \ AuthorIds)
    OBVIOUS
  <1>10. names >= most * calls /\ names \in Nat
    <2>1. IsFiniteSet(Range(TaskNames) \ AuthorIds)
      <3>1. TaskNames \in Seq(Ids)
        BY NamesAssumption
      <3>2. IsFiniteSet(1 .. Len(TaskNames)) /\ DOMAIN TaskNames = 1 .. Len(TaskNames)
        BY <3>1, FS_Interval
      <3>3. TaskNames \in Surjection(1 .. Len(TaskNames), Range(TaskNames))
        BY <3>1, <3>2 DEF Surjection, Range
      <3>4. IsFiniteSet(Range(TaskNames))
        BY <3>2, <3>3, FS_Surjection
      <3> QED BY <3>4, FS_Subset
    <2> QED BY <1>4, <1>9, <2>1, FS_CardinalityType, NamesNeverRunOut
  <1>11. names >= total
    BY ONLY <1>7, <1>8, <1>10, total \in Nat
  <1> QED BY <1>1, <1>3, <1>4, <1>9, <1>11

-----------------------------------------------------------------------------
(* Theorems.                                                                *)

\* Whatever states an author combines, a state lets its author read exactly
\* the outputs of steps that are no background steps or that a later wait of
\* the same job joins.
THEOREM OutputsHidden == Spec => []OutputsHiddenUntilJoined
  <1>1. IInv => OutputsHiddenUntilJoined
    BY DEF IInv, Sound, Hidden, At, Readable, Held, Joins, OutputsHiddenUntilJoined
  <1> QED BY <1>1, Invariant, PTL

\* Whatever states an author combines, validation accepts the steps of every
\* state, and the job generated from them with any cache setup of the project
\* that is accepted itself and takes none of its ids.
THEOREM AuthoredAccepted == Spec => []AuthoredJobsAreAccepted
  <1>1. ASSUME IInv, WrittenInv PROVE AuthoredJobsAreAccepted
    <2>1. ASSUME NEW state \in states, state.steps # <<>>
          PROVE  /\ Accepted(state.steps)
                 /\ \A setup \in Setups :
                      \/ setup \in {DefaultSetup, <<>>}
                      \/ Accepted(setup) /\ IdsOf(setup) \cap TakenIds(state.steps) = {}
                      => Accepted(Lower(state.steps, setup))
      <3>1. /\ state.steps \in Seq(Authored) /\ Accepted(state.steps)
            /\ TakenIds(state.steps) \subseteq AuthorIds
        BY <1>1, <2>1, WrittenFacts
      <3> QED BY <3>1, GeneratedAccepted
    <2> QED BY <2>1 DEF AuthoredJobsAreAccepted
  <1> QED BY <1>1, Invariant, Writing, PTL

\* However a state was made, the job generated from it prepares exactly once
\* if it has tasks, by a step outside every group, before any step calls one.
THEOREM PreparedOnceFirst == Spec => []PreparedOnceBeforeTasks
  <1>1. ASSUME IInv, WrittenInv PROVE PreparedOnceBeforeTasks
    <2>1. ASSUME NEW state \in states, NEW setup \in Setups
          PROVE  LET out == Lower(state.steps, setup)
                     prepares == {n \in DOMAIN out : out[n].kind = "prepare"}
                     calls == {n \in DOMAIN out : OfKind("entry", <<out[n]>>) # <<>>}
                 IN  /\ Cardinality(prepares) = IF Tasks(state.steps) = <<>> THEN 0 ELSE 1
                     /\ Len(OfKind("prepare", out)) = Cardinality(prepares)
                     /\ \A p \in prepares, c \in calls : p < c
      <3>1. state.steps \in Seq(Authored) /\ TakenIds(state.steps) \subseteq AuthorIds
        BY <1>1, <2>1, WrittenFacts
      <3>2. PICK out, all, made, id, E :
              out = Lower(state.steps, setup) /\ LoweredAs(out, state.steps, setup, all, made, id, E)
        BY <2>1, <3>1, LoweredJob
      <3> QED BY <3>2, PreparedOnce
    <2> QED BY <2>1 DEF PreparedOnceBeforeTasks
  <1> QED BY <1>1, Invariant, Writing, PTL

\* However a state was made, each of its tasks has an entrypoint of its own,
\* which the step calls that stands for the task, in the author's order.
THEOREM EntrypointsReached == Spec => []EntrypointsReachTheirTasks
  <1>1. ASSUME IInv, WrittenInv PROVE EntrypointsReachTheirTasks
    <2>1. ASSUME NEW state \in states, NEW setup \in Setups
          PROVE  LET entries == Entrypoints(state.steps)
                     tasks == Tasks(state.steps)
                     calls == OfKind("entry", Lower(state.steps, setup))
                 IN  /\ IsInjective(entries)
                     /\ Len(calls) = Len(tasks)
                     /\ \A n \in DOMAIN tasks :
                          /\ calls[n].entry = entries[n]
                          /\ calls[n].id = tasks[n].id
                          /\ tasks[n].id # Anonymous => entries[n] = tasks[n].id
      <3>1. /\ state.steps \in Seq(Authored) /\ TakenIds(state.steps) \subseteq AuthorIds
            /\ state.steps = <<>> \/ Accepted(state.steps)
            /\ Cardinality(Range(TaskNames) \ AuthorIds) >= Len(Tasks(state.steps))
        BY <1>1, <2>1, WrittenFacts
      <3>2. PICK out, all, made, id, E :
              out = Lower(state.steps, setup) /\ LoweredAs(out, state.steps, setup, all, made, id, E)
        BY <2>1, <3>1, LoweredJob
      <3> QED BY <3>1, <3>2, EntrypointsReach
    <2> QED BY <2>1 DEF EntrypointsReachTheirTasks
  <1> QED BY <1>1, Invariant, Writing, PTL

-----------------------------------------------------------------------------
(* Validation and scenarios of workflows.                                   *)

\* The visits accepted above those of below.
VisitsAbove(project, below) ==
    {visit \in (project \cup UNION {Reachable(w) : w \in project}) \X (CacheModes \cup {Unset}) :
        VisitAccepted(visit[1], visit[2], project, below)}

\* f has the visits accepted with so many levels of calls left.
Visiting(f, project) ==
    /\ f[0] = {}
    /\ \A n \in 1 .. MaxNesting : f[n] = VisitsAbove(project, f[n - 1])

\* Visits does what its recursion says.
LEMMA VisitsRun ==
    ASSUME NEW project
    PROVE  \E f : Visiting(f, project) /\ Visits(project) = f[MaxNesting]
  <1> DEFINE Eq(f, m) ==
        f = [n \in 0 .. m |->
              IF n = 0 THEN {} ELSE VisitsAbove(project, f[n - 1])]
  <1> DEFINE S == {m \in 0 .. MaxNesting : \E f : Eq(f, m)}
  <1>1. MaxNesting \in Nat
    BY NestingAssumption
  <1>2. 0 \in S
    <2> DEFINE f == [n \in 0 .. 0 |-> {}]
    <2>1. Eq(f, 0)
      OBVIOUS
    <2> HIDE DEF f, Eq
    <2> QED BY <1>1, <2>1
  <1>3. ASSUME NEW m \in 0 .. MaxNesting - 1, m \in S PROVE m + 1 \in S
    <2>1. PICK f : Eq(f, m)
      BY <1>3
    <2> DEFINE g == [n \in 0 .. m + 1 |->
                       IF n = m + 1 THEN VisitsAbove(project, f[m])
                       ELSE f[n]]
    <2>2. \A n \in 0 .. m + 1 : n = m + 1 \/ n \in 0 .. m
      OBVIOUS
    <2>3. \A n \in 0 .. m : g[n] = f[n] /\ (n # 0 => n - 1 \in 0 .. m)
      BY <1>1
    <2>4. g[m + 1] = VisitsAbove(project, g[m + 1 - 1])
      BY <1>1
    <2>5. \A n \in 0 .. m :
            g[n] = IF n = 0 THEN {} ELSE VisitsAbove(project, g[n - 1])
      <3> HIDE DEF g
      <3> QED BY <2>1, <2>3
    <2>6. g = [n \in 0 .. m + 1 |-> g[n]]
      OBVIOUS
    <2>7. Eq(g, m + 1)
      <3> HIDE DEF g
      <3>1. m + 1 # 0
        BY <1>1
      <3>2. \A n \in 0 .. m + 1 :
              g[n] = IF n = 0 THEN {} ELSE VisitsAbove(project, g[n - 1])
        BY <2>2, <2>4, <2>5, <3>1
      <3> QED BY ONLY <2>6, <3>2
    <2> HIDE DEF Eq, g
    <2> QED BY <1>1, <2>7
  <1>4. MaxNesting \in S
    <2> HIDE DEF S
    <2>1. \A k \in 0 .. MaxNesting - 1 : k \in S => k + 1 \in S
      BY <1>3
    <2>2. \A k \in 0 .. MaxNesting : k \in S
      BY ONLY <1>1, <1>2, <2>1, Stepwise
    <2> QED BY <1>1, <2>2
  <1>5. PICK f : Eq(f, MaxNesting)
    BY <1>4
  <1> DEFINE p == CHOOSE p : Eq(p, MaxNesting)
  <1>6. Eq(p, MaxNesting)
    <2> HIDE DEF Eq
    <2> QED BY <1>5
  <1>7. Visits(project) = p[MaxNesting]
    BY DEF Visits, VisitsAbove
  <1> HIDE DEF p
  <1>8. Visiting(p, project)
    <2>1. p[0] = {}
      BY <1>1, <1>6
    <2>2. \A n \in 1 .. MaxNesting : n # 0 /\ n \in 0 .. MaxNesting
      BY <1>1
    <2> QED BY <1>6, <2>1, <2>2 DEF Visiting
  <1> QED BY <1>7, <1>8

\* What runs first, and what runs one level below.
FirstRuns(project) ==
    {[workflow |-> w, caller |-> Triggered(default, restrict)] :
        w \in project, default \in 0 .. 2, restrict \in BOOLEAN}

\* What runs for calls of what runs.
Called(project, above) == above \cup UNION {CalledBy(project, run) : run \in above}

\* f has the runs so many calls below the first.
Running(f, project) ==
    /\ f[0] = FirstRuns(project)
    /\ \A n \in 1 .. MaxNesting : f[n] = Called(project, f[n - 1])

\* Runs does what its recursion says.
LEMMA RunsRun ==
    ASSUME NEW project
    PROVE  \E f : Running(f, project) /\ Runs(project) = f[MaxNesting]
  <1> DEFINE Eq(f, m) ==
        f = [n \in 0 .. m |->
              IF n = 0 THEN FirstRuns(project) ELSE Called(project, f[n - 1])]
  <1> DEFINE S == {m \in 0 .. MaxNesting : \E f : Eq(f, m)}
  <1>1. MaxNesting \in Nat
    BY NestingAssumption
  <1>2. 0 \in S
    <2> DEFINE f == [n \in 0 .. 0 |-> FirstRuns(project)]
    <2>1. Eq(f, 0)
      OBVIOUS
    <2> HIDE DEF f, Eq
    <2> QED BY <1>1, <2>1
  <1>3. ASSUME NEW m \in 0 .. MaxNesting - 1, m \in S PROVE m + 1 \in S
    <2>1. PICK f : Eq(f, m)
      BY <1>3
    <2> DEFINE g == [n \in 0 .. m + 1 |->
                       IF n = m + 1 THEN Called(project, f[m])
                       ELSE f[n]]
    <2>2. \A n \in 0 .. m + 1 : n = m + 1 \/ n \in 0 .. m
      OBVIOUS
    <2>3. \A n \in 0 .. m : g[n] = f[n] /\ (n # 0 => n - 1 \in 0 .. m)
      BY <1>1
    <2>4. g[m + 1] = Called(project, g[m + 1 - 1])
      BY <1>1
    <2>5. \A n \in 0 .. m :
            g[n] = IF n = 0 THEN FirstRuns(project) ELSE Called(project, g[n - 1])
      <3> HIDE DEF g
      <3> QED BY <2>1, <2>3
    <2>6. g = [n \in 0 .. m + 1 |-> g[n]]
      OBVIOUS
    <2>7. Eq(g, m + 1)
      <3> HIDE DEF g
      <3>1. m + 1 # 0
        BY <1>1
      <3>2. \A n \in 0 .. m + 1 :
              g[n] = IF n = 0 THEN FirstRuns(project) ELSE Called(project, g[n - 1])
        BY <2>2, <2>4, <2>5, <3>1
      <3> QED BY ONLY <2>6, <3>2
    <2> HIDE DEF Eq, g
    <2> QED BY <1>1, <2>7
  <1>4. MaxNesting \in S
    <2> HIDE DEF S
    <2>1. \A k \in 0 .. MaxNesting - 1 : k \in S => k + 1 \in S
      BY <1>3
    <2>2. \A k \in 0 .. MaxNesting : k \in S
      BY ONLY <1>1, <1>2, <2>1, Stepwise
    <2> QED BY <1>1, <2>2
  <1>5. PICK f : Eq(f, MaxNesting)
    BY <1>4
  <1> DEFINE p == CHOOSE p : Eq(p, MaxNesting)
  <1>6. Eq(p, MaxNesting)
    <2> HIDE DEF Eq
    <2> QED BY <1>5
  <1>7. Runs(project) = p[MaxNesting]
    BY DEF Runs, FirstRuns, Called
  <1> HIDE DEF p
  <1>8. Running(p, project)
    <2>1. p[0] = FirstRuns(project)
      BY <1>1, <1>6
    <2>2. \A n \in 1 .. MaxNesting : n # 0 /\ n \in 0 .. MaxNesting
      BY <1>1
    <2> QED BY <1>6, <2>1, <2>2 DEF Running
  <1> QED BY <1>7, <1>8

\* What the author of a library declares stays declared, and every state a call
\* returns is one of a workflow.
WorkflowsInv ==
    /\ library = [starts |-> library.starts, settings |-> library.settings,
                  built |-> library.built, calls |-> library.calls]
    /\ \A settings \in library.starts \cup library.settings : Declared(settings)
    /\ \A w \in built : IsWorkflow(w)

\* A workflow that is begun is one.
LEMMA BegunIsWorkflow ==
    ASSUME NEW start, Declared(start) PROVE IsWorkflow(Begun(start))
  <1>1. JobsOf(Begun(start)) = {}
    BY DEF Begun, JobsOf, Range
  <1>2. Begun(start) = [Begun(Begun(start)) EXCEPT !.jobs = Begun(start).jobs]
    BY DEF Begun
  <1>3. Declared(Begun(start))
    BY DEF Begun, Declared
  <1>4. Begun(start).jobs = <<>>
    BY DEF Begun
  <1> QED BY <1>1, <1>2, <1>3, <1>4 DEF IsWorkflow

\* One more job of a sequence.
LEMMA RangeAppended ==
    ASSUME NEW S, NEW s \in Seq(S), NEW e
    PROVE  Range(Append(s, e)) = Range(s) \cup {e}
  <1>1. Len(s) \in Nat /\ DOMAIN s = 1 .. Len(s)
    OBVIOUS
  <1>2. DOMAIN Append(s, e) = 1 .. Len(s) + 1
    BY <1>1 DEF Append
  <1>3. \A n \in DOMAIN s : n \in DOMAIN Append(s, e) /\ Append(s, e)[n] = s[n]
    BY <1>1, <1>2
  <1>4. Append(s, e)[Len(s) + 1] = e /\ Len(s) + 1 \in DOMAIN Append(s, e)
    BY <1>1, <1>2
  <1>5. \A n \in DOMAIN Append(s, e) : n \in DOMAIN s \/ n = Len(s) + 1
    BY <1>1, <1>2
  <1> QED BY <1>3, <1>4, <1>5 DEF Range

\* With a job of another id, it stays one.
LEMMA WithJobIsWorkflow ==
    ASSUME NEW w, IsWorkflow(w), NEW job, Declared(job), job.id \notin JobIdsOf(w)
    PROVE  IsWorkflow(WithJob(w, job))
  <1> DEFINE v == WithJob(w, job)
  <1>1. w.jobs \in Seq(JobsOf(w))
    BY DEF IsWorkflow
  <1>2. v.jobs = Append(w.jobs, job) /\ v.mode = w.mode /\ v.token = w.token
    BY DEF WithJob, IsWorkflow, Begun
  <1>3. JobsOf(v) = JobsOf(w) \cup {job}
    BY <1>1, <1>2, RangeAppended DEF JobsOf
  <1>4. v = [Begun(v) EXCEPT !.jobs = v.jobs]
    BY DEF WithJob, IsWorkflow, Begun
  <1>5. Declared(v) /\ \A j \in JobsOf(v) : Declared(j)
    BY <1>2, <1>3 DEF IsWorkflow, Declared
  <1>6. v.jobs \in Seq(JobsOf(v))
    BY <1>1, <1>2, <1>3
  <1>7. \A m, n \in DOMAIN v.jobs : v.jobs[m].id = v.jobs[n].id => m = n
    <2>1. Len(w.jobs) \in Nat /\ DOMAIN w.jobs = 1 .. Len(w.jobs)
      BY <1>1
    <2>2. DOMAIN v.jobs = 1 .. Len(w.jobs) + 1
      BY <1>1, <1>2, <2>1
    <2>3. \A n \in DOMAIN v.jobs : n = Len(w.jobs) + 1 \/ n \in DOMAIN w.jobs
      BY <2>1, <2>2
    <2>4. \A n \in DOMAIN w.jobs : v.jobs[n] = w.jobs[n] /\ v.jobs[n].id # job.id
      BY <1>1, <1>2, <2>1 DEF JobIdsOf, JobsOf, Range
    <2>5. v.jobs[Len(w.jobs) + 1] = job
      BY <1>1, <1>2, <2>1
    <2>6. \A m, n \in DOMAIN w.jobs : w.jobs[m].id = w.jobs[n].id => m = n
      BY DEF IsWorkflow
    <2> HIDE DEF v
    <2> QED BY <2>3, <2>4, <2>5, <2>6
  <1> HIDE DEF v
  <1>8. IsWorkflow(v)
    BY <1>4, <1>5, <1>6, <1>7 DEF IsWorkflow
  <1> QED BY <1>8 DEF v

\* The invariant is one of the specification.
LEMMA Workflows == WorkflowSpec => []WorkflowsInv
  <1>1. WorkflowInit => WorkflowsInv
    BY LibrariesAssumption DEF WorkflowInit, WorkflowsInv
  <1>2. WorkflowsInv /\ [WorkflowNext]_workflowVars => WorkflowsInv'
    <2> SUFFICES ASSUME WorkflowsInv, [WorkflowNext]_workflowVars PROVE WorkflowsInv'
      OBVIOUS
    <2>1. ASSUME NEW w, IsWorkflow(w), Made(w) PROVE WorkflowsInv'
      BY <2>1 DEF Made, WorkflowsInv
    <2>2. CASE BeginWorkflow
      <3>1. PICK start \in library.starts : Made(Begun(start))
        BY <2>2 DEF BeginWorkflow
      <3>2. IsWorkflow(Begun(start))
        BY <3>1, BegunIsWorkflow DEF WorkflowsInv
      <3> QED BY <2>1, <3>1, <3>2
    <2>3. CASE AddJob
      <3>1. PICK w \in built, settings \in library.settings :
                 /\ settings.id \notin JobIdsOf(w)
                 /\ \E job \in Completed(w, settings) \cup Kept(w, settings.id) :
                        Made(WithJob(w, job))
        BY <2>3 DEF AddJob
      <3>2. PICK job \in Completed(w, settings) \cup Kept(w, settings.id) :
                 Made(WithJob(w, job))
        BY <3>1
      <3>3. Declared(settings) /\ IsWorkflow(w)
        BY <3>1 DEF WorkflowsInv
      <3>4. job.id = settings.id /\ Declared(job)
        <4>1. CASE job \in Completed(w, settings)
          <5>1. PICK needs, callee :
                     job = [id |-> settings.id, needs |-> needs, callee |-> callee,
                            mode |-> settings.mode, token |-> settings.token,
                            gives |-> settings.gives]
            <6> DEFINE subsets == SUBSET IF w.jobs = <<>> THEN {}
                                  ELSE UNION {JobIdsOf(other) : other \in built}
                       callees == {NoCallee} \cup {other \in Definitions : other.callable}
            <6>1. Completed(w, settings) =
                    {Linked(Job(settings), needs, callee) : needs \in subsets, callee \in callees}
              BY DEF Completed
            <6> HIDE DEF subsets, callees
            <6>2. \E needs \in subsets, callee \in callees :
                     job = Linked(Job(settings), needs, callee)
              BY <4>1, <6>1
            <6> QED BY <6>2 DEF Job, Linked
          <5>2. job.id = settings.id /\ job.mode = settings.mode /\ job.token = settings.token
            BY <5>1
          <5> QED BY <3>3, <5>2 DEF Declared
        <4>2. CASE job \in Kept(w, settings.id)
          <5>1. PICK other \in built : job \in JobsOf(other) /\ job.id = settings.id
            BY <4>2 DEF Kept
          <5> QED BY <5>1 DEF WorkflowsInv, IsWorkflow
        <4> QED BY <3>2, <4>1, <4>2
      <3>5. IsWorkflow(WithJob(w, job))
        BY <3>1, <3>3, <3>4, WithJobIsWorkflow
      <3> QED BY <2>1, <3>2, <3>5
    <2>4. CASE UNCHANGED workflowVars
      BY <2>4 DEF workflowVars, WorkflowsInv
    <2> QED BY <2>2, <2>3, <2>4 DEF WorkflowNext
  <1> QED BY <1>1, <1>2, PTL DEF WorkflowSpec

-----------------------------------------------------------------------------
(* Grants.                                                                  *)

\* No two outputs are at one path: what runs for a listed workflow's path is it.
LEMMA RunsListed ==
    ASSUME NEW project, \A v, w \in project : v.path = w.path => v = w,
           NEW w \in project
    PROVE  Run(project, w.path) = w
  <1>1. {v \in project : v.path = w.path} = {w}
    OBVIOUS
  <1> QED BY <1>1 DEF Run

\* What a caller grants is of these types.
Caller(caller) ==
    /\ caller = [mode |-> caller.mode, limits |-> caller.limits, token |-> caller.token,
                 called |-> caller.called, restrict |-> caller.restrict,
                 restricted |-> caller.restricted]
    /\ caller.mode \in CacheModes \cup {Unset}
    /\ caller.token \in 0 .. 2
    /\ caller.called \in BOOLEAN /\ caller.restrict \in BOOLEAN /\ caller.restricted \in BOOLEAN

\* What a run is granted: it is accepted under the mode of its caller, which is
\* within every explicit one above, and has no token to write after a
\* restriction.
Granted(run, project, f) ==
    /\ run.workflow \in project
    /\ \E k \in 1 .. MaxNesting : <<run.workflow, run.caller.mode>> \in f[k]
    /\ Caller(run.caller)
    /\ \A limit \in run.caller.limits :
         run.caller.mode # Unset /\ CacheModeWithin(run.caller.mode, limit)
    /\ run.caller.restricted => IF run.caller.called THEN run.caller.token < 2
                                ELSE run.caller.restrict
    /\ run.caller.called => ~run.caller.restrict

\* What a job of it gets.
GrantsJob(run, job) ==
    LET mode == Explicit(run.workflow, job, run.caller.mode)
        token == Token(run.workflow, job, run.caller)
    IN  \/ token = Refused
        \/ /\ \A limit \in run.caller.limits : mode # Unset /\ CacheModeWithin(mode, limit)
           /\ run.caller.called => token <= run.caller.token
           /\ run.caller.restricted => token < 2
           /\ token \in 0 .. 2

\* What is granted limits what each job of a run gets.
LEMMA GrantedJob ==
    ASSUME NEW project, NEW f, Visiting(f, project), \A w \in project : IsWorkflow(w),
           NEW run, Granted(run, project, f), NEW job \in JobsOf(run.workflow)
    PROVE  GrantsJob(run, job)
  <1> DEFINE caller == run.caller
             w == run.workflow
             mode == Explicit(w, job, caller.mode)
             token == Token(w, job, caller)
  <1>1. Declared(w) /\ Declared(job)
    BY DEF Granted, IsWorkflow
  <1>2. PICK k \in 1 .. MaxNesting : <<w, caller.mode>> \in f[k]
    BY DEF Granted
  <1>3. VisitAccepted(w, caller.mode, project, f[k - 1])
    BY <1>2 DEF Visiting, VisitsAbove
  <1>4. /\ w.mode = Unset \/ caller.mode = Unset \/ CacheModeWithin(w.mode, caller.mode)
        /\ job.mode = Unset \/ caller.mode = Unset \/ CacheModeWithin(job.mode, caller.mode)
    BY <1>3 DEF VisitAccepted
  <1>5. ASSUME NEW limit \in caller.limits PROVE mode # Unset /\ CacheModeWithin(mode, limit)
    <2>1. caller.mode # Unset /\ CacheModeWithin(caller.mode, limit)
      BY DEF Granted
    <2>2. \/ mode = job.mode /\ job.mode # Unset
          \/ mode = w.mode /\ w.mode # Unset
          \/ mode = caller.mode
      BY DEF Explicit, Or
    <2>3. mode # Unset /\ (CacheModeWithin(mode, caller.mode) \/ mode = caller.mode)
      BY <1>4, <2>1, <2>2
    <2> HIDE DEF mode
    <2> QED BY <2>1, <2>3 DEF CacheModeWithin
  <1>6. token = Refused \/ /\ caller.called => token <= caller.token
                           /\ caller.restricted => token < 2
                           /\ token \in 0 .. 2
    <2> DEFINE demand == Or(job.token, Or(w.token, caller.token))
    <2>1. demand \in 0 .. 2 /\ caller.token \in 0 .. 2
      BY <1>1 DEF Or, Declared, Granted, Caller
    <2>2. token = IF caller.called /\ demand > caller.token THEN Refused
                  ELSE IF caller.restrict /\ demand = 2 THEN 1 ELSE demand
      BY DEF Token
    <2>3. /\ caller.called \in BOOLEAN /\ caller.restrict \in BOOLEAN
          /\ caller.restricted \in BOOLEAN
          /\ caller.restricted => IF caller.called THEN caller.token < 2 ELSE caller.restrict
          /\ caller.called => ~caller.restrict
      BY DEF Granted, Caller
    <2> HIDE DEF demand, token, caller
    <2>4. CASE caller.called
      BY <2>1, <2>2, <2>3, <2>4
    <2>5. CASE ~caller.called
      BY <2>1, <2>2, <2>3, <2>5
    <2> QED BY <2>4, <2>5
  <1> QED BY <1>5, <1>6 DEF GrantsJob

\* What a run calls is granted no more than it.
LEMMA GrantedCallee ==
    ASSUME NEW project, NEW f, Visiting(f, project), \A w \in project : IsWorkflow(w),
           \A v, w \in project : v.path = w.path => v = w,
           NEW run, Granted(run, project, f), NEW called \in CalledBy(project, run)
    PROVE  Granted(called, project, f)
  <1> DEFINE caller == run.caller
             w == run.workflow
  <1>1. PICK job \in JobsOf(w) :
             /\ job.callee # NoCallee /\ Token(w, job, caller) # Refused
             /\ called = [workflow |-> Run(project, job.callee.path),
                          caller |-> Call(caller, Explicit(w, job, caller.mode),
                                          Token(w, job, caller))]
    BY DEF CalledBy
  <1> DEFINE mode == Explicit(w, job, caller.mode)
             token == Token(w, job, caller)
             next == Call(caller, mode, token)
  <1>2. PICK k \in 1 .. MaxNesting : <<w, caller.mode>> \in f[k]
    BY DEF Granted
  <1>3. VisitAccepted(w, caller.mode, project, f[k - 1])
    BY <1>2 DEF Visiting, VisitsAbove
  <1>4. job.callee \in project /\ <<job.callee, mode>> \in f[k - 1]
    BY <1>1, <1>3 DEF VisitAccepted, Listed, Requested, Explicit
  <1>5. k - 1 \in 1 .. MaxNesting
    BY <1>2, <1>4, NestingAssumption DEF Visiting
  <1>6. called.workflow = job.callee /\ called.caller = next
    BY <1>1, <1>4, RunsListed
  <1>7. mode \in CacheModes \cup {Unset}
    BY DEF Explicit, Or, Granted, IsWorkflow, Declared, Caller
  <1>8. /\ \A limit \in caller.limits : mode # Unset /\ CacheModeWithin(mode, limit)
        /\ caller.called => token <= caller.token
        /\ caller.restricted => token < 2
        /\ token \in 0 .. 2
    BY <1>1, GrantedJob DEF GrantsJob
  <1>9. /\ next.mode = mode /\ next.token = token /\ next.called = TRUE
        /\ next.restrict = FALSE /\ next.restricted = caller.restricted
        /\ next.limits = caller.limits \cup ({mode} \ {Unset})
        /\ next = [mode |-> next.mode, limits |-> next.limits, token |-> next.token,
                   called |-> next.called, restrict |-> next.restrict,
                   restricted |-> next.restricted]
    <2>1. next = [caller EXCEPT !.mode = mode, !.limits = @ \cup ({mode} \ {Unset}),
                                !.token = token, !.called = TRUE, !.restrict = FALSE]
      BY DEF Call
    <2>2. Caller(caller)
      BY DEF Granted
    <2>3. caller = [mode |-> caller.mode, limits |-> caller.limits, token |-> caller.token,
                    called |-> caller.called, restrict |-> caller.restrict,
                    restricted |-> caller.restricted]
      BY <2>2 DEF Caller
    <2> HIDE DEF mode, token, next, caller
    <2>4. next = [mode |-> mode, limits |-> caller.limits \cup ({mode} \ {Unset}),
                  token |-> token, called |-> TRUE, restrict |-> FALSE,
                  restricted |-> caller.restricted]
      BY <2>1, <2>3
    <2> QED BY <2>4
  <1>10. caller.restricted \in BOOLEAN
    BY DEF Granted, Caller
  <1> HIDE DEF mode, token, next
  <1>11. Caller(next)
    BY <1>7, <1>8, <1>9, <1>10 DEF Caller
  <1>12. \A limit \in next.limits : next.mode # Unset /\ CacheModeWithin(next.mode, limit)
    BY <1>8, <1>9 DEF CacheModeWithin
  <1>13. next.restricted => IF next.called THEN next.token < 2 ELSE next.restrict
    BY <1>8, <1>9
  <1>14. next.called => ~next.restrict
    BY <1>9
  <1> QED BY <1>4, <1>5, <1>6, <1>9, <1>11, <1>12, <1>13, <1>14 DEF Granted

\* Every run of an accepted project is granted what its callers are.
LEMMA AllGranted ==
    ASSUME NEW project, NEW f, Visiting(f, project), Visits(project) = f[MaxNesting],
           \A w \in project : IsWorkflow(w), ProjectAccepted(project)
    PROVE  \A run \in Runs(project) : Granted(run, project, f)
  <1>1. PICK at : Running(at, project) /\ Runs(project) = at[MaxNesting]
    BY RunsRun
  <1> DEFINE S == {depth \in 0 .. MaxNesting : \A run \in at[depth] : Granted(run, project, f)}
  <1>2. MaxNesting \in Nat
    BY NestingAssumption
  <1>3. \A v, w \in project : v.path = w.path => v = w
    BY DEF ProjectAccepted
  <1>4. 0 \in S
    <2>1. ASSUME NEW run \in at[0] PROVE Granted(run, project, f)
      <3>1. PICK w \in project, default \in 0 .. 2, restrict \in BOOLEAN :
                 run = [workflow |-> w, caller |-> Triggered(default, restrict)]
        BY <1>1, <2>1 DEF Running, FirstRuns
      <3>2. <<w, Unset>> \in f[MaxNesting]
        BY <3>1 DEF ProjectAccepted
      <3>3. MaxNesting \in 1 .. MaxNesting
        BY <1>2, <3>2 DEF Visiting
      <3>4. /\ run.workflow = w /\ run.caller.mode = Unset /\ run.caller.limits = {}
            /\ run.caller.token = default /\ run.caller.called = FALSE
            /\ run.caller.restrict = restrict /\ run.caller.restricted = restrict
            /\ run.caller = [mode |-> run.caller.mode, limits |-> run.caller.limits,
                             token |-> run.caller.token, called |-> run.caller.called,
                             restrict |-> run.caller.restrict,
                             restricted |-> run.caller.restricted]
        BY <3>1 DEF Triggered
      <3>5. Caller(run.caller)
        BY <3>1, <3>4 DEF Caller
      <3> QED BY <3>1, <3>2, <3>3, <3>4, <3>5 DEF Granted
    <2> QED BY <1>2, <2>1
  <1>5. ASSUME NEW depth \in 0 .. MaxNesting - 1, depth \in S PROVE depth + 1 \in S
    <2>1. at[depth + 1] = Called(project, at[depth])
      BY <1>1, <1>2 DEF Running
    <2>2. ASSUME NEW run \in at[depth + 1] PROVE Granted(run, project, f)
      <3>1. CASE run \in at[depth]
        BY <1>5, <3>1
      <3>2. CASE run \notin at[depth]
        <4>1. PICK above \in at[depth] : run \in CalledBy(project, above)
          BY <2>1, <2>2, <3>2 DEF Called
        <4>2. Granted(above, project, f)
          BY <1>5, <4>1
        <4> QED BY <1>3, <4>1, <4>2, GrantedCallee
      <3> QED BY <3>1, <3>2
    <2> QED BY <1>2, <2>2
  <1>6. MaxNesting \in S
    <2> HIDE DEF S
    <2>1. \A depth \in 0 .. MaxNesting - 1 : depth \in S => depth + 1 \in S
      BY <1>5
    <2>2. \A depth \in 0 .. MaxNesting : depth \in S
      BY ONLY <1>2, <1>4, <2>1, Stepwise
    <2> QED BY <1>2, <2>2
  <1> QED BY <1>1, <1>6

\* Whatever an author builds, in every scenario of a project that generation
\* accepts, no job gets more than its callers.
THEOREM GrantsWithinCallers == WorkflowSpec => []GrantsStayWithinCallers
  <1>1. ASSUME WorkflowsInv PROVE GrantsStayWithinCallers
    <2>1. ASSUME NEW project \in Projects, NEW run \in Runs(project),
                 NEW job \in JobsOf(run.workflow)
          PROVE  GrantsJob(run, job)
      <3>1. ProjectAccepted(project) /\ project \subseteq built
        BY <2>1 DEF Projects, Definitions
      <3>2. \A w \in project : IsWorkflow(w)
        BY <1>1, <3>1 DEF WorkflowsInv
      <3>3. PICK f : Visiting(f, project) /\ Visits(project) = f[MaxNesting]
        BY VisitsRun
      <3>4. Granted(run, project, f)
        BY <2>1, <3>1, <3>2, <3>3, AllGranted
      <3> QED BY <2>1, <3>2, <3>3, <3>4, GrantedJob
    <2> QED BY <2>1 DEF GrantsStayWithinCallers, GrantsJob
  <1> QED BY <1>1, Workflows, PTL

-----------------------------------------------------------------------------
(* The search for strongly connected components.                            *)

\* A finite set is listed, each element once.
LEMMA Listing ==
    ASSUME NEW S, IsFiniteSet(S)
    PROVE  /\ SetToSeq(S) \in Seq(S) /\ Len(SetToSeq(S)) = Cardinality(S)
           /\ Range(SetToSeq(S)) = S /\ Cardinality(S) \in Nat
  <1> DEFINE n == Cardinality(S)
             s == SetToSeq(S)
  <1>1. n \in Nat /\ ExistsBijection(1 .. n, S)
    BY FS_CardinalityType
  <1>2. PICK f : f \in Bijection(1 .. n, S)
    BY <1>1 DEF ExistsBijection
  <1>3. f \in [1 .. n -> S] /\ IsInjective(f)
    BY <1>2 DEF Bijection, Injection
  <1>4. s \in [1 .. n -> S] /\ IsInjective(s)
    BY <1>3 DEF SetToSeq
  <1> HIDE DEF n, s
  <1>5. s \in Injection(1 .. n, S)
    BY <1>4 DEF Injection
  <1>6. Cardinality(1 .. n) = n
    BY <1>1, FS_Interval
  <1>7. s \in Surjection(1 .. n, S)
    BY <1>5, <1>6, FS_Injection DEF n
  <1>8. Range(s) = S
    BY <1>4, <1>7 DEF Surjection, Range
  <1>9. s \in Seq(S) /\ Len(s) = n
    BY <1>1, <1>4
  <1> QED BY <1>1, <1>8, <1>9 DEF n, s

\* The smaller one of two numbers.
LEMMA MinOfTwo ==
    ASSUME NEW a \in Nat, NEW b \in Nat
    PROVE  Min({a, b}) \in {a, b} /\ Min({a, b}) <= a /\ Min({a, b}) <= b
  <1>1. \E x \in {a, b} : \A y \in {a, b} : x <= y
    BY DEF Min
  <1> QED BY <1>1 DEF Min

\* Needs among finitely many jobs, none of itself.
Graph(needs) ==
    /\ IsFiniteSet(DOMAIN needs)
    /\ \A id \in DOMAIN needs : needs[id] \subseteq DOMAIN needs \ {id}

\* The jobs whose components were found.
Popped(acc) == UNION acc.found

\* What jobs of these need is among them, and no set of them waits for itself.
Settled(needs, done) ==
    /\ \A id \in done : needs[id] \subseteq done
    /\ \A loop \in SUBSET done : loop # {} => \E id \in loop : needs[id] \cap loop = {}

\* They stay settled with one that needs only them.
LEMMA OneMoreSettled ==
    ASSUME NEW needs, NEW done, Settled(needs, done), NEW id, id \notin done,
           needs[id] \subseteq done
    PROVE  Settled(needs, done \cup {id})
  <1>1. \A other \in done \cup {id} : needs[other] \subseteq done \cup {id}
    BY DEF Settled
  <1>2. ASSUME NEW loop \in SUBSET (done \cup {id}), loop # {},
               \A other \in loop : needs[other] \cap loop # {}
        PROVE  FALSE
    <2>1. loop \ {id} \in SUBSET done
      OBVIOUS
    <2>2. \A other \in loop \ {id} : needs[other] \cap (loop \ {id}) # {}
      BY <1>2 DEF Settled
    <2>3. loop \ {id} # {}
      BY <1>2
    <2> QED BY <2>1, <2>2, <2>3 DEF Settled
  <1> QED BY <1>1, <1>2 DEF Settled

\* What a search has found so far: the indices grow along the stack, the jobs that
\* were searched are on the stack or popped, and if only components of one job
\* were, those are settled.
Consistent(acc, needs) ==
    /\ acc \in Searches(DOMAIN needs) /\ acc.next >= 1
    /\ \A n \in DOMAIN acc.stack : acc.index[acc.stack[n]] \in 1 .. acc.next - 1
    /\ \A m, n \in DOMAIN acc.stack : m < n => acc.index[acc.stack[m]] < acc.index[acc.stack[n]]
    /\ \A id \in DOMAIN needs : acc.index[id] # 0 <=> id \in Range(acc.stack) \cup Popped(acc)
    /\ Range(acc.stack) \cap Popped(acc) = {}
    /\ (\A component \in acc.found : Cardinality(component) < 2) => Settled(needs, Popped(acc))

\* What a later state keeps of an earlier one.
Later(acc, after) ==
    /\ acc.found \subseteq after.found
    /\ Len(acc.stack) <= Len(after.stack)
    /\ \A n \in DOMAIN acc.stack : after.stack[n] = acc.stack[n]
    /\ \A id \in DOMAIN acc.index : acc.index[id] # 0 => after.index[id] = acc.index[id]

\* The index of the first job of the stack, or that of the next one.
Lowest(acc) == IF acc.stack = <<>> THEN acc.next ELSE acc.index[acc.stack[1]]

\* The jobs no search has come to.
Unvisited(acc) == {id \in DOMAIN acc.index : acc.index[id] = 0}

\* What the search from a job makes of a state.
Searched(needs, acc, id, after) ==
    /\ Consistent(after, needs) /\ Later(acc, after)
    /\ \A other \in DOMAIN needs : acc.index[other] # 0 => after.low[other] = acc.low[other]
    /\ after.index[id] = acc.next
    /\ Lowest(acc) <= after.low[id] /\ after.low[id] <= after.index[id]
    /\ after.low[id] = after.index[id] => Len(after.stack) = Len(acc.stack)

\* It does so, with no more than so many jobs left.
SearchesWell(needs, search, depth) ==
    \A acc \in Searches(DOMAIN needs), id \in DOMAIN needs :
        /\ Consistent(acc, needs) /\ acc.index[id] = 0 /\ Cardinality(Unvisited(acc)) <= depth
        => Searched(needs, acc, id, search[acc][id])

\* A dependency that was followed is popped, or the job's low tells of it.
Cleared(acc, id, dependency) ==
    \/ dependency \in Popped(acc)
    \/ /\ dependency \in Range(acc.stack)
       /\ \/ acc.index[dependency] > acc.index[id]
          \/ acc.low[id] <= acc.index[dependency]

\* What is kept twice is kept.
LEMMA LaterTrans ==
    ASSUME NEW needs, NEW a, NEW b, NEW c, Consistent(a, needs), Consistent(b, needs),
           Consistent(c, needs), Later(a, b), Later(b, c)
    PROVE  Later(a, c)
  <1>1. /\ DOMAIN a.index = DOMAIN needs /\ DOMAIN b.index = DOMAIN needs
        /\ a.stack \in Seq(DOMAIN needs) /\ b.stack \in Seq(DOMAIN needs)
        /\ c.stack \in Seq(DOMAIN needs)
    BY DEF Consistent, Searches
  <1>2. a.found \subseteq c.found
    BY DEF Later
  <1>3. \A id \in DOMAIN a.index : a.index[id] # 0 => c.index[id] = a.index[id]
    BY <1>1 DEF Later
  <1>4. /\ Len(a.stack) \in Nat /\ Len(b.stack) \in Nat /\ Len(c.stack) \in Nat
        /\ DOMAIN a.stack = 1 .. Len(a.stack) /\ DOMAIN b.stack = 1 .. Len(b.stack)
    BY <1>1
  <1>5. Len(a.stack) <= Len(c.stack)
    BY <1>4 DEF Later
  <1>6. \A n \in DOMAIN a.stack : n \in DOMAIN b.stack
    BY <1>4 DEF Later
  <1>7. \A n \in DOMAIN a.stack : c.stack[n] = a.stack[n]
    BY <1>6 DEF Later
  <1> QED BY <1>2, <1>3, <1>5, <1>7 DEF Later

\* What was visited stays so, on the stack or popped.
LEMMA LaterKeeps ==
    ASSUME NEW needs, NEW a, NEW b, Consistent(a, needs), Consistent(b, needs), Later(a, b)
    PROVE  /\ Popped(a) \subseteq Popped(b) /\ Range(a.stack) \subseteq Range(b.stack)
           /\ Unvisited(b) \subseteq Unvisited(a)
           /\ a.stack # <<>> => Lowest(b) = Lowest(a) /\ b.stack # <<>>
  <1>1. /\ DOMAIN a.index = DOMAIN needs /\ DOMAIN b.index = DOMAIN needs
        /\ a.stack \in Seq(DOMAIN needs) /\ b.stack \in Seq(DOMAIN needs)
        /\ \A id \in DOMAIN needs : a.index[id] \in Nat /\ b.index[id] \in Nat
    BY DEF Consistent, Searches
  <1>2. /\ Len(a.stack) \in Nat /\ Len(b.stack) \in Nat
        /\ DOMAIN a.stack = 1 .. Len(a.stack) /\ DOMAIN b.stack = 1 .. Len(b.stack)
    BY <1>1
  <1>3. Popped(a) \subseteq Popped(b)
    BY DEF Later, Popped
  <1>4. \A n \in DOMAIN a.stack : n \in DOMAIN b.stack /\ b.stack[n] = a.stack[n]
    BY <1>2 DEF Later
  <1>5. Range(a.stack) \subseteq Range(b.stack)
    BY <1>4 DEF Range
  <1>6. Unvisited(b) \subseteq Unvisited(a)
    BY <1>1 DEF Unvisited, Later
  <1>7. ASSUME a.stack # <<>> PROVE Lowest(b) = Lowest(a) /\ b.stack # <<>>
    <2>1. 1 \in DOMAIN a.stack
      BY <1>1, <1>2, <1>7
    <2>2. b.stack # <<>> /\ b.stack[1] = a.stack[1]
      BY <1>4, <2>1
    <2>3. a.stack[1] \in DOMAIN needs /\ a.index[a.stack[1]] # 0
      BY <1>1, <2>1 DEF Consistent
    <2> QED BY <1>1, <1>7, <2>2, <2>3 DEF Lowest, Later
  <1> QED BY <1>3, <1>5, <1>6, <1>7

\* A state but for the low of a job.
WithLow(acc, id, low) == [acc EXCEPT !.low[id] = low]

\* A later low does not matter to the state.
LEMMA LowChanges ==
    ASSUME NEW needs, NEW acc, Consistent(acc, needs), NEW id \in DOMAIN needs, NEW low \in Nat
    PROVE  LET after == WithLow(acc, id, low)
           IN  /\ Consistent(after, needs) /\ Later(acc, after)
               /\ after.next = acc.next /\ after.stack = acc.stack
               /\ after.index = acc.index /\ after.found = acc.found /\ after.low[id] = low
               /\ \A other \in DOMAIN needs : other # id => after.low[other] = acc.low[other]
  <1> DEFINE after == WithLow(acc, id, low)
  <1>1. acc \in Searches(DOMAIN needs)
    BY DEF Consistent
  <1>2. /\ after.next = acc.next /\ after.stack = acc.stack /\ after.index = acc.index
        /\ after.found = acc.found /\ after.low = [acc.low EXCEPT ![id] = low]
        /\ after \in Searches(DOMAIN needs)
    BY <1>1 DEF Searches, WithLow
  <1> HIDE DEF after
  <1>3. Popped(after) = Popped(acc)
    BY <1>2 DEF Popped
  <1>4. Consistent(after, needs)
    BY <1>2, <1>3 DEF Consistent
  <1>5. Len(acc.stack) \in Nat
    BY <1>1 DEF Searches
  <1>6. Later(acc, after)
    BY <1>2, <1>5 DEF Later
  <1>7. acc.low \in [DOMAIN needs -> Nat]
    BY <1>1 DEF Searches
  <1> QED BY <1>2, <1>4, <1>6, <1>7 DEF after

\* A job that is entered is on the stack, last.
LEMMA Entered ==
    ASSUME NEW needs, NEW acc, Consistent(acc, needs), NEW id \in DOMAIN needs,
           acc.index[id] = 0, NEW after, after = Enter(acc, id)
    PROVE  /\ Consistent(after, needs) /\ Later(acc, after)
           /\ after.stack = Append(acc.stack, id) /\ after.found = acc.found
           /\ after.index[id] = acc.next /\ after.low[id] = acc.next
           /\ \A other \in DOMAIN needs : other # id => /\ after.low[other] = acc.low[other]
                                                       /\ after.index[other] = acc.index[other]
           /\ after.stack # <<>> /\ Lowest(after) = Lowest(acc)
           /\ Unvisited(after) = Unvisited(acc) \ {id}
  <1>1. acc \in Searches(DOMAIN needs) /\ acc.next \in Nat \ {0}
    BY DEF Consistent, Searches
  <1>2. /\ acc.stack \in Seq(DOMAIN needs) /\ acc.low \in [DOMAIN needs -> Nat]
        /\ acc.index \in [DOMAIN needs -> Nat]
    BY <1>1 DEF Searches
  <1>3. /\ after.next = acc.next + 1 /\ after.stack = Append(acc.stack, id)
        /\ after.index = [acc.index EXCEPT ![id] = acc.next]
        /\ after.low = [acc.low EXCEPT ![id] = acc.next]
        /\ after.found = acc.found /\ after \in Searches(DOMAIN needs)
    <2>1. acc = [next |-> acc.next, stack |-> acc.stack, index |-> acc.index, low |-> acc.low,
                 found |-> acc.found] /\ acc.found \in SUBSET SUBSET DOMAIN needs
      BY <1>1 DEF Searches
    <2>2. after = [next |-> acc.next + 1, stack |-> Append(acc.stack, id),
                   index |-> [acc.index EXCEPT ![id] = acc.next],
                   low |-> [acc.low EXCEPT ![id] = acc.next], found |-> acc.found]
      BY <2>1 DEF Enter
    <2>3. /\ acc.next + 1 \in Nat /\ Append(acc.stack, id) \in Seq(DOMAIN needs)
          /\ [acc.index EXCEPT ![id] = acc.next] \in [DOMAIN needs -> Nat]
          /\ [acc.low EXCEPT ![id] = acc.next] \in [DOMAIN needs -> Nat]
      BY <1>1, <1>2
    <2> QED BY <2>1, <2>2, <2>3 DEF Searches
  <1>4. /\ Len(acc.stack) \in Nat /\ DOMAIN acc.stack = 1 .. Len(acc.stack)
        /\ Len(after.stack) = Len(acc.stack) + 1 /\ DOMAIN after.stack = 1 .. Len(acc.stack) + 1
        /\ \A n \in DOMAIN acc.stack : after.stack[n] = acc.stack[n]
        /\ after.stack[Len(acc.stack) + 1] = id
    BY <1>2, <1>3
  <1>5. \A n \in DOMAIN after.stack : n \in DOMAIN acc.stack \/ n = Len(acc.stack) + 1
    BY <1>4
  <1>6. Range(after.stack) = Range(acc.stack) \cup {id} /\ Popped(after) = Popped(acc)
    <2>1. \A n \in DOMAIN acc.stack : n \in DOMAIN after.stack
      BY <1>4
    <2>2. Len(acc.stack) + 1 \in DOMAIN after.stack
      BY <1>4
    <2> QED BY <1>3, <1>4, <1>5, <2>1, <2>2 DEF Range, Popped
  <1>7. /\ after.index[id] = acc.next /\ after.low[id] = acc.next
        /\ \A other \in DOMAIN needs : other # id => /\ after.low[other] = acc.low[other]
                                                    /\ after.index[other] = acc.index[other]
    BY <1>2, <1>3
  <1>8. \A n \in DOMAIN acc.stack :
           /\ acc.stack[n] \in DOMAIN needs /\ acc.stack[n] # id
           /\ after.index[after.stack[n]] = acc.index[acc.stack[n]]
           /\ after.index[after.stack[n]] \in 1 .. acc.next - 1
    <2>1. ASSUME NEW n \in DOMAIN acc.stack
          PROVE  acc.stack[n] \in DOMAIN needs /\ acc.index[acc.stack[n]] \in 1 .. acc.next - 1
      BY <1>2 DEF Consistent
    <2> QED BY <1>1, <1>4, <1>7, <2>1
  <1>9. after.next >= 1
    BY <1>1, <1>3
  <1>10. \A n \in DOMAIN after.stack : after.index[after.stack[n]] \in 1 .. after.next - 1
    BY <1>1, <1>3, <1>4, <1>5, <1>7, <1>8
  <1>11. \A m, n \in DOMAIN after.stack :
            m < n => after.index[after.stack[m]] < after.index[after.stack[n]]
    <2> SUFFICES ASSUME NEW m \in DOMAIN after.stack, NEW n \in DOMAIN after.stack, m < n
                 PROVE  after.index[after.stack[m]] < after.index[after.stack[n]]
      OBVIOUS
    <2>1. m \in DOMAIN acc.stack
      BY <1>4, <1>5
    <2>2. CASE n \in DOMAIN acc.stack
      <3>1. acc.index[acc.stack[m]] < acc.index[acc.stack[n]]
        BY <2>1, <2>2 DEF Consistent
      <3> QED BY <1>8, <2>1, <2>2, <3>1
    <2>3. CASE n = Len(acc.stack) + 1
      <3>1. after.index[after.stack[n]] = acc.next
        BY <1>4, <1>7, <2>3
      <3>2. after.index[after.stack[m]] \in 1 .. acc.next - 1
        BY <1>8, <2>1
      <3> QED BY <1>1, <3>1, <3>2
    <2> QED BY <1>5, <2>2, <2>3
  <1>12. id \notin Range(acc.stack) \cup Popped(acc)
    BY DEF Consistent
  <1>13. \A other \in DOMAIN needs :
            after.index[other] # 0 <=> other \in Range(after.stack) \cup Popped(after)
    BY <1>1, <1>6, <1>7 DEF Consistent
  <1>14. Range(after.stack) \cap Popped(after) = {}
    BY <1>6, <1>12 DEF Consistent
  <1>15. Consistent(after, needs)
    <2>1. (\A component \in after.found : Cardinality(component) < 2)
          => Settled(needs, Popped(after))
      BY <1>3, <1>6 DEF Consistent
    <2> QED BY <1>3, <1>9, <1>10, <1>11, <1>13, <1>14, <2>1 DEF Consistent
  <1>16. Later(acc, after)
    BY <1>2, <1>3, <1>4, <1>7 DEF Later
  <1>17. after.stack # <<>> /\ Lowest(after) = Lowest(acc)
    <2>1. after.stack # <<>>
      <3>1. Len(after.stack) # 0
        BY <1>4
      <3> QED BY <3>1
    <2>2. CASE acc.stack = <<>>
      <3>1. after.stack[1] = id
        BY <1>4, <2>2
      <3> QED BY <1>7, <2>1, <2>2, <3>1 DEF Lowest
    <2>3. CASE acc.stack # <<>>
      <3>1. 1 \in DOMAIN acc.stack
        BY <1>2, <1>4, <2>3
      <3>2. after.index[after.stack[1]] = acc.index[acc.stack[1]]
        BY <1>8, <3>1
      <3> QED BY <2>1, <2>3, <3>2 DEF Lowest
    <2> QED BY <2>1, <2>2, <2>3
  <1>18. Unvisited(after) = Unvisited(acc) \ {id}
    <2>1. DOMAIN after.index = DOMAIN needs /\ DOMAIN acc.index = DOMAIN needs
      BY <1>2, <1>3
    <2> QED BY <1>1, <1>7, <2>1 DEF Unvisited
  <1> QED BY <1>3, <1>7, <1>15, <1>16, <1>17, <1>18

\* Nothing later undoes that a dependency is popped or told of.
LEMMA ClearedLater ==
    ASSUME NEW needs, NEW a, NEW b, Consistent(a, needs), Consistent(b, needs), Later(a, b),
           NEW id \in DOMAIN needs, a.index[id] # 0, b.low[id] <= a.low[id],
           NEW dependency \in DOMAIN needs, Cleared(a, id, dependency)
    PROVE  Cleared(b, id, dependency)
  <1>1. /\ Popped(a) \subseteq Popped(b) /\ Range(a.stack) \subseteq Range(b.stack)
    BY LaterKeeps
  <1>2. /\ a.index \in [DOMAIN needs -> Nat] /\ b.index \in [DOMAIN needs -> Nat]
        /\ a.low \in [DOMAIN needs -> Nat] /\ b.low \in [DOMAIN needs -> Nat]
    BY DEF Consistent, Searches
  <1>3. b.index[id] = a.index[id]
    BY <1>2 DEF Later
  <1>4. CASE dependency \in Range(a.stack)
    <2>1. a.index[dependency] # 0
      BY <1>4 DEF Consistent
    <2>2. b.index[dependency] = a.index[dependency]
      BY <1>2, <2>1 DEF Later
    <2>3. CASE dependency \in Popped(a)
      BY <1>1, <2>3 DEF Cleared
    <2>4. CASE dependency \notin Popped(a)
      <3>1. a.index[dependency] > a.index[id] \/ a.low[id] <= a.index[dependency]
        BY <2>4 DEF Cleared
      <3>2. a.low[id] \in Nat /\ b.low[id] \in Nat /\ a.index[dependency] \in Nat
        BY <1>2
      <3>3. b.index[dependency] > b.index[id] \/ b.low[id] <= b.index[dependency]
        BY <1>3, <2>2, <3>1, <3>2
      <3> QED BY <1>1, <1>4, <3>3 DEF Cleared
    <2> QED BY <2>3, <2>4
  <1>5. CASE dependency \notin Range(a.stack)
    BY <1>1, <1>5 DEF Cleared
  <1> QED BY <1>4, <1>5

\* No index of the stack is below the lowest.
LEMMA LowestOfStack ==
    ASSUME NEW needs, NEW acc, Consistent(acc, needs), NEW id \in Range(acc.stack)
    PROVE  Lowest(acc) <= acc.index[id]
  <1>1. acc.stack \in Seq(DOMAIN needs) /\ acc.index \in [DOMAIN needs -> Nat]
    BY DEF Consistent, Searches
  <1>2. PICK n \in DOMAIN acc.stack : acc.stack[n] = id
    BY DEF Range
  <1>3. 1 \in DOMAIN acc.stack /\ acc.stack # <<>> /\ n \in Nat /\ 1 <= n
    BY <1>1, <1>2
  <1>4. acc.stack[1] \in DOMAIN needs /\ id \in DOMAIN needs
    BY <1>1, <1>2, <1>3
  <1>5. n = 1 \/ acc.index[acc.stack[1]] < acc.index[acc.stack[n]]
    BY <1>2, <1>3 DEF Consistent
  <1> QED BY <1>1, <1>2, <1>3, <1>4, <1>5 DEF Lowest

\* What was found after so many dependencies of a job that was entered.
Following(needs, entered, id, order, n, acc) ==
    /\ Consistent(acc, needs) /\ Later(entered, acc)
    /\ \A other \in DOMAIN needs :
         entered.index[other] # 0 /\ other # id => acc.low[other] = entered.low[other]
    /\ Lowest(entered) <= acc.low[id] /\ acc.low[id] <= acc.index[id]
    /\ \A k \in 1 .. n : order[k] \in DOMAIN needs /\ Cleared(acc, id, order[k])

\* One dependency more.
LEMMA FollowedOne ==
    ASSUME NEW needs, Graph(needs), NEW depth \in Nat, NEW search,
           SearchesWell(needs, search, depth),
           NEW entered, Consistent(entered, needs), NEW id \in Range(entered.stack),
           Cardinality(Unvisited(entered)) <= depth,
           NEW order, NEW n \in Nat, NEW acc, Following(needs, entered, id, order, n, acc),
           NEW dependency, dependency = order[n + 1], dependency \in DOMAIN needs \ {id},
           NEW after, after = Follow(acc, search[acc][dependency], id, dependency)
    PROVE  Following(needs, entered, id, order, n + 1, after)
  <1>1. Consistent(acc, needs) /\ Later(entered, acc)
    BY DEF Following
  <1>2. /\ acc \in Searches(DOMAIN needs) /\ entered \in Searches(DOMAIN needs)
        /\ entered.stack \in Seq(DOMAIN needs)
        /\ acc.index \in [DOMAIN needs -> Nat] /\ acc.low \in [DOMAIN needs -> Nat]
        /\ entered.index \in [DOMAIN needs -> Nat] /\ acc.next \in Nat
    BY <1>1 DEF Consistent, Searches
  <1>3. id \in DOMAIN needs /\ entered.index[id] # 0 /\ entered.stack # <<>>
    <2>1. id \in DOMAIN needs /\ entered.stack # <<>>
      BY <1>2 DEF Range
    <2> QED BY <2>1 DEF Consistent
  <1>4. id \in Range(acc.stack) /\ Lowest(acc) = Lowest(entered) /\ acc.stack # <<>>
        /\ Unvisited(acc) \subseteq Unvisited(entered)
    BY <1>1, <1>3, LaterKeeps
  <1>5. acc.index[id] = entered.index[id] /\ acc.index[id] # 0
    BY <1>1, <1>2, <1>3 DEF Later
  <1>6. Cardinality(Unvisited(acc)) <= depth
    <2>1. Unvisited(entered) \subseteq DOMAIN needs
      BY <1>2 DEF Unvisited
    <2>2. IsFiniteSet(Unvisited(entered))
      BY <2>1, FS_Subset DEF Graph
    <2>3. Cardinality(Unvisited(acc)) <= Cardinality(Unvisited(entered))
          /\ IsFiniteSet(Unvisited(acc))
      BY <1>4, <2>2, FS_Subset
    <2> QED BY <2>2, <2>3, FS_CardinalityType
  <1>7. Lowest(acc) <= acc.low[id] /\ acc.low[id] <= acc.index[id] /\ Lowest(acc) \in Nat
    <2>1. Lowest(acc) \in Nat
      <3>1. acc.stack \in Seq(DOMAIN needs)
        BY <1>2 DEF Searches
      <3>2. acc.stack[1] \in DOMAIN needs
        BY <1>4, <3>1
      <3> QED BY <1>2, <1>4, <3>2 DEF Lowest
    <2> QED BY <1>4, <2>1 DEF Following
  <1>8. ASSUME NEW b, Consistent(b, needs), Later(acc, b), NEW low \in Nat,
               b.low[id] = acc.low[id],
               \A other \in DOMAIN needs :
                  acc.index[other] # 0 /\ other # id => b.low[other] = acc.low[other],
               low <= acc.low[id], Lowest(acc) <= low,
               after = WithLow(b, id, low),
               Cleared(after, id, dependency)
        PROVE  Following(needs, entered, id, order, n + 1, after)
    <2> DEFINE a == WithLow(b, id, low)
    <2>0. id \in DOMAIN needs /\ Consistent(b, needs) /\ low \in Nat /\ after = a
      BY <1>3, <1>8
    <2>1. /\ Consistent(after, needs) /\ Later(b, after)
          /\ after.index = b.index /\ after.low[id] = low
          /\ \A other \in DOMAIN needs : other # id => after.low[other] = b.low[other]
      <3>1. /\ Consistent(a, needs) /\ Later(b, a)
            /\ a.index = b.index /\ a.low[id] = low
            /\ \A other \in DOMAIN needs : other # id => a.low[other] = b.low[other]
        BY ONLY <2>0, LowChanges
      <3> HIDE DEF a
      <3> QED BY ONLY <2>0, <3>1
    <2>2. Later(acc, after)
      BY <1>1, <1>8, <2>1, LaterTrans
    <2>3. Later(entered, after)
      BY <1>1, <2>1, <2>2, LaterTrans
    <2>4. \A other \in DOMAIN needs :
            entered.index[other] # 0 /\ other # id => after.low[other] = entered.low[other]
      <3>1. \A other \in DOMAIN needs :
              entered.index[other] # 0 /\ other # id =>
                acc.index[other] # 0 /\ acc.low[other] = entered.low[other]
        BY <1>1, <1>2 DEF Following, Later
      <3> QED BY <1>8, <2>1, <3>1
    <2>5. after.index[id] = acc.index[id]
      BY <1>2, <1>3, <1>5, <2>2 DEF Later
    <2>6. Lowest(entered) <= after.low[id] /\ after.low[id] <= after.index[id]
      <3>1. low \in Nat /\ acc.low[id] \in Nat /\ acc.index[id] \in Nat
        BY <1>2, <1>3, <1>8
      <3> QED BY <1>4, <1>7, <1>8, <2>1, <2>5, <3>1
    <2>7. ASSUME NEW k \in 1 .. n + 1
          PROVE  order[k] \in DOMAIN needs /\ Cleared(after, id, order[k])
      <3>1. CASE k = n + 1
        BY <1>8, <3>1
      <3>2. CASE k \in 1 .. n
        <4>1. order[k] \in DOMAIN needs /\ Cleared(acc, id, order[k])
          BY <3>2 DEF Following
        <4> QED BY <1>1, <1>3, <1>5, <1>8, <2>1, <2>2, <4>1, ClearedLater
      <3> QED BY <3>1, <3>2
    <2> QED BY <2>1, <2>3, <2>4, <2>6, <2>7 DEF Following
  <1>9. CASE acc.index[dependency] = 0
    <2> DEFINE found == search[acc][dependency]
               low == Min({found.low[id], found.low[dependency]})
    <2>1. Searched(needs, acc, dependency, found)
      BY <1>1, <1>2, <1>6, <1>9 DEF SearchesWell
    <2>2. after = WithLow(found, id, low)
      BY <1>9 DEF Follow, WithLow
    <2>3. Consistent(found, needs) /\ Later(acc, found) /\ found.low[id] = acc.low[id]
      BY <1>3, <1>5, <2>1 DEF Searched
    <2>4. found.low \in [DOMAIN needs -> Nat]
      BY <2>3 DEF Consistent, Searches
    <2>5. low \in Nat /\ low <= acc.low[id] /\ Lowest(acc) <= low
      <3>1. found.low[id] \in Nat /\ found.low[dependency] \in Nat
        BY <1>3, <2>4
      <3>2. low \in {found.low[id], found.low[dependency]} /\ low <= found.low[id]
        BY <3>1, MinOfTwo
      <3>3. Lowest(acc) <= found.low[dependency]
        BY <2>1 DEF Searched
      <3> QED BY <1>7, <2>3, <3>1, <3>2, <3>3
    <2>6. \A other \in DOMAIN needs :
            acc.index[other] # 0 /\ other # id => found.low[other] = acc.low[other]
      BY <2>1 DEF Searched
    <2>7. found.index[dependency] = acc.next
      BY <2>1 DEF Searched
    <2> HIDE DEF found, low
    <2>8. /\ after.index = found.index /\ after.stack = found.stack /\ after.found = found.found
      <3> DEFINE a == WithLow(found, id, low)
      <3>1. id \in DOMAIN needs /\ Consistent(found, needs) /\ low \in Nat /\ after = a
        BY <1>3, <2>2, <2>3, <2>5
      <3>2. a.index = found.index /\ a.stack = found.stack /\ a.found = found.found
        BY ONLY <3>1, LowChanges
      <3> HIDE DEF a
      <3> QED BY ONLY <3>1, <3>2
    <2>9. Cleared(after, id, dependency)
      <3>1. found.index[id] = acc.index[id] /\ acc.index[id] < acc.next
        <4>1. PICK m \in DOMAIN acc.stack : acc.stack[m] = id
          BY <1>4 DEF Range
        <4>2. acc.index[id] \in 1 .. acc.next - 1
          BY <1>1, <4>1 DEF Consistent
        <4> QED BY <1>2, <1>3, <1>5, <2>3, <4>2 DEF Later
      <3>2. found.index[dependency] > found.index[id] /\ found.index[dependency] # 0
        BY <1>2, <1>3, <2>7, <3>1
      <3>3. dependency \in Range(found.stack) \cup Popped(found)
        BY <2>3, <3>2 DEF Consistent
      <3> QED BY <2>8, <3>2, <3>3 DEF Cleared, Popped
    <2> QED BY <1>8, <2>2, <2>3, <2>5, <2>6, <2>9
  <1>10. CASE acc.index[dependency] # 0 /\ dependency \in Range(acc.stack)
    <2> DEFINE low == Min({acc.low[id], acc.index[dependency]})
    <2>1. after = WithLow(acc, id, low)
      BY <1>10 DEF Follow, WithLow
    <2>2. acc.low[id] \in Nat /\ acc.index[dependency] \in Nat
      BY <1>2, <1>3
    <2>3. /\ low \in {acc.low[id], acc.index[dependency]} /\ low <= acc.low[id]
          /\ low <= acc.index[dependency]
      BY <2>2, MinOfTwo
    <2>4. Lowest(acc) <= acc.index[dependency]
      BY <1>1, <1>10, LowestOfStack
    <2> HIDE DEF low
    <2>5. low \in Nat /\ Lowest(acc) <= low
      BY <1>7, <2>2, <2>3, <2>4
    <2>6. Later(acc, acc)
      <3>1. Len(acc.stack) \in Nat
        BY <1>2 DEF Searches
      <3> QED BY <3>1 DEF Later
    <2>7. /\ after.index = acc.index /\ after.stack = acc.stack /\ after.low[id] = low
      BY ONLY <1>1, <1>3, <2>1, <2>5, LowChanges
    <2>8. Cleared(after, id, dependency)
      BY <1>10, <2>3, <2>7 DEF Cleared
    <2> QED BY <1>1, <1>8, <2>1, <2>3, <2>5, <2>6, <2>8
  <1>11. CASE acc.index[dependency] # 0 /\ dependency \notin Range(acc.stack)
    <2>1. after = acc
      BY <1>11 DEF Follow
    <2>2. dependency \in Popped(acc)
      BY <1>1, <1>11 DEF Consistent
    <2>3. \A k \in 1 .. n + 1 : k \in 1 .. n \/ k = n + 1
      OBVIOUS
    <2>4. \A k \in 1 .. n + 1 : order[k] \in DOMAIN needs /\ Cleared(acc, id, order[k])
      BY <2>2, <2>3 DEF Cleared, Following
    <2> QED BY <2>1, <2>4 DEF Following
  <1> QED BY <1>9, <1>10, <1>11

\* With one more dependency, searched first if need be.
FollowNext(acc, id, search, dependency) ==
    Follow(acc, search[acc][dependency], id, dependency)

\* f has what was found after so many dependencies.
FollowsEach(f, acc, id, dependencies, search) ==
    /\ f[0] = acc
    /\ \A n \in 1 .. Len(SetToSeq(dependencies)) :
         f[n] = FollowNext(f[n - 1], id, search, SetToSeq(dependencies)[n])

\* FollowEach does what its recursion says.
LEMMA FollowRuns ==
    ASSUME NEW acc, NEW id, NEW dependencies, IsFiniteSet(dependencies), NEW search
    PROVE  \E f : /\ FollowsEach(f, acc, id, dependencies, search)
                  /\ FollowEach(acc, id, dependencies, search) = f[Len(SetToSeq(dependencies))]
  <1> DEFINE Eq(f, m) ==
        f = [n \in 0 .. m |->
              IF n = 0 THEN acc
              ELSE FollowNext(f[n - 1], id, search, SetToSeq(dependencies)[n])]
  <1> DEFINE S == {m \in 0 .. Len(SetToSeq(dependencies)) : \E f : Eq(f, m)}
  <1>1. Len(SetToSeq(dependencies)) \in Nat
    BY Listing
  <1>2. 0 \in S
    <2> DEFINE f == [n \in 0 .. 0 |-> acc]
    <2>1. Eq(f, 0)
      OBVIOUS
    <2> HIDE DEF f, Eq
    <2> QED BY <1>1, <2>1
  <1>3. ASSUME NEW m \in 0 .. Len(SetToSeq(dependencies)) - 1, m \in S PROVE m + 1 \in S
    <2>1. PICK f : Eq(f, m)
      BY <1>3
    <2> DEFINE g == [n \in 0 .. m + 1 |->
                       IF n = m + 1 THEN FollowNext(f[m], id, search, SetToSeq(dependencies)[m + 1])
                       ELSE f[n]]
    <2>2. \A n \in 0 .. m + 1 : n = m + 1 \/ n \in 0 .. m
      OBVIOUS
    <2>3. \A n \in 0 .. m : g[n] = f[n] /\ (n # 0 => n - 1 \in 0 .. m)
      BY <1>1
    <2>4. g[m + 1] = FollowNext(g[m + 1 - 1], id, search, SetToSeq(dependencies)[m + 1])
      BY <1>1
    <2>5. \A n \in 0 .. m :
            g[n] = IF n = 0 THEN acc
                   ELSE FollowNext(g[n - 1], id, search, SetToSeq(dependencies)[n])
      <3> HIDE DEF g
      <3> QED BY <2>1, <2>3
    <2>6. g = [n \in 0 .. m + 1 |-> g[n]]
      OBVIOUS
    <2>7. Eq(g, m + 1)
      <3> HIDE DEF g
      <3>1. m + 1 # 0
        BY <1>1
      <3>2. \A n \in 0 .. m + 1 :
              g[n] = IF n = 0 THEN acc
                     ELSE FollowNext(g[n - 1], id, search, SetToSeq(dependencies)[n])
        BY <2>2, <2>4, <2>5, <3>1
      <3> QED BY ONLY <2>6, <3>2
    <2> HIDE DEF Eq, g
    <2> QED BY <1>1, <2>7
  <1>4. Len(SetToSeq(dependencies)) \in S
    <2> HIDE DEF S
    <2>1. \A k \in 0 .. Len(SetToSeq(dependencies)) - 1 : k \in S => k + 1 \in S
      BY <1>3
    <2>2. \A k \in 0 .. Len(SetToSeq(dependencies)) : k \in S
      BY ONLY <1>1, <1>2, <2>1, Stepwise
    <2> QED BY <1>1, <2>2
  <1>5. PICK f : Eq(f, Len(SetToSeq(dependencies)))
    BY <1>4
  <1> DEFINE p == CHOOSE p : Eq(p, Len(SetToSeq(dependencies)))
  <1>6. Eq(p, Len(SetToSeq(dependencies)))
    <2> HIDE DEF Eq
    <2> QED BY <1>5
  <1>7. FollowEach(acc, id, dependencies, search) = p[Len(SetToSeq(dependencies))]
    BY DEF FollowEach, FollowNext
  <1> HIDE DEF p
  <1>8. FollowsEach(p, acc, id, dependencies, search)
    <2>1. p[0] = acc
      BY <1>1, <1>6
    <2>2. \A n \in 1 .. Len(SetToSeq(dependencies)) : n # 0 /\ n \in 0 .. Len(SetToSeq(dependencies))
      BY <1>1
    <2> QED BY <1>6, <2>1, <2>2 DEF FollowsEach
  <1> QED BY <1>7, <1>8

\* All dependencies of a job that was entered.
LEMMA FollowedAll ==
    ASSUME NEW needs, Graph(needs), NEW depth \in Nat, NEW search,
           SearchesWell(needs, search, depth),
           NEW entered, Consistent(entered, needs), NEW id \in Range(entered.stack),
           Cardinality(Unvisited(entered)) <= depth,
           Lowest(entered) <= entered.low[id], entered.low[id] <= entered.index[id],
           NEW dependencies \in SUBSET (DOMAIN needs \ {id})
    PROVE  \E order : /\ Range(order) = dependencies /\ order \in Seq(dependencies)
                      /\ Following(needs, entered, id, order, Len(order),
                                   FollowEach(entered, id, dependencies, search))
  <1> DEFINE order == SetToSeq(dependencies)
  <1>1. IsFiniteSet(dependencies)
    BY FS_Subset DEF Graph
  <1>2. order \in Seq(dependencies) /\ Range(order) = dependencies /\ Len(order) \in Nat
    BY <1>1, Listing
  <1>3. PICK f : /\ FollowsEach(f, entered, id, dependencies, search)
                 /\ FollowEach(entered, id, dependencies, search) = f[Len(order)]
    BY <1>1, FollowRuns
  <1>4. /\ f[0] = entered
        /\ \A n \in 1 .. Len(order) :
             f[n] = FollowNext(f[n - 1], id, search, order[n])
    BY <1>3 DEF FollowsEach
  <1> HIDE DEF order
  <1> DEFINE S == {n \in 0 .. Len(order) : Following(needs, entered, id, order, n, f[n])}
  <1>5. 0 \in S
    <2>1. entered.stack \in Seq(DOMAIN needs)
      BY DEF Consistent, Searches
    <2>2. Later(entered, entered)
      BY <2>1 DEF Later
    <2> QED BY <1>2, <1>4, <2>2 DEF Following
  <1>6. ASSUME NEW n \in 0 .. Len(order) - 1, n \in S PROVE n + 1 \in S
    <2>1. f[n + 1] = Follow(f[n], search[f[n]][order[n + 1]], id, order[n + 1])
      <3>1. n + 1 \in 1 .. Len(order) /\ n + 1 - 1 = n
        BY <1>2
      <3>2. f[n + 1] = FollowNext(f[n], id, search, order[n + 1])
        BY ONLY <1>4, <3>1
      <3> QED BY <3>2 DEF FollowNext
    <2>2. order[n + 1] \in DOMAIN needs \ {id}
      BY <1>2
    <2>3. Following(needs, entered, id, order, n, f[n])
      BY <1>6
    <2>4. Following(needs, entered, id, order, n + 1, f[n + 1])
      BY <2>1, <2>2, <2>3, FollowedOne
    <2> QED BY <1>2, <2>4
  <1>7. Len(order) \in S
    <2> HIDE DEF S
    <2>1. \A n \in 0 .. Len(order) - 1 : n \in S => n + 1 \in S
      BY <1>6
    <2>2. \A n \in 0 .. Len(order) : n \in S
      BY ONLY <1>2, <1>5, <2>1, Stepwise
    <2> QED BY <1>2, <2>2
  <1> QED BY <1>2, <1>3, <1>7 DEF order

\* No job is on the stack twice.
LEMMA StackedOnce ==
    ASSUME NEW needs, NEW acc, Consistent(acc, needs),
           NEW m \in DOMAIN acc.stack, NEW n \in DOMAIN acc.stack, acc.stack[m] = acc.stack[n]
    PROVE  m = n
  <1>1. acc.stack \in Seq(DOMAIN needs)
    BY DEF Consistent, Searches
  <1>2. m \in Nat /\ n \in Nat /\ acc.index[acc.stack[m]] \in Nat
    BY <1>1 DEF Consistent
  <1>3. ~(m < n) /\ ~(n < m)
    BY <1>2 DEF Consistent
  <1> QED BY <1>2, <1>3

\* What Leave pops from a place of the stack on.
From(stack, place) == {stack[n] : n \in place .. Len(stack)}

\* A component is popped.
PopFrom(acc, place) ==
    [acc EXCEPT !.stack = SubSeq(@, 1, place - 1), !.found = @ \cup {From(acc.stack, place)}]

\* A job that ends a component is left with it.
LEMMA LeftWith ==
    ASSUME NEW needs, NEW acc, Consistent(acc, needs), NEW place \in DOMAIN acc.stack,
           NEW id, id = acc.stack[place], acc.low[id] = acc.index[id]
    PROVE  Leave(acc, id) = PopFrom(acc, place)
  <1>1. acc.stack \in Seq(DOMAIN needs) /\ Len(acc.stack) \in Nat
        /\ DOMAIN acc.stack = 1 .. Len(acc.stack)
    BY DEF Consistent, Searches
  <1> DEFINE at == CHOOSE n \in DOMAIN acc.stack : acc.stack[n] = id
  <1>2. at \in DOMAIN acc.stack /\ acc.stack[at] = id
    OBVIOUS
  <1>3. at = place
    <2> HIDE DEF at
    <2> QED BY <1>2, StackedOnce
  <1>4. Range(SubSeq(acc.stack, place, Len(acc.stack))) = From(acc.stack, place)
    <2> DEFINE top == SubSeq(acc.stack, place, Len(acc.stack))
    <2>1. place \in Nat /\ 1 <= place /\ place <= Len(acc.stack)
      BY <1>1
    <2>2. /\ DOMAIN top = 1 .. Len(acc.stack) - place + 1
          /\ \A n \in DOMAIN top : top[n] = acc.stack[place + n - 1]
      BY <1>1, <2>1
    <2> HIDE DEF top
    <2>3. \A n \in DOMAIN top : place + n - 1 \in place .. Len(acc.stack)
      BY <1>1, <2>1, <2>2
    <2>4. \A n \in place .. Len(acc.stack) :
            n - place + 1 \in DOMAIN top /\ place + (n - place + 1) - 1 = n
      BY <1>1, <2>1, <2>2
    <2>5. \A n \in place .. Len(acc.stack) : acc.stack[n] \in Range(top)
      <3>1. ASSUME NEW n \in place .. Len(acc.stack) PROVE acc.stack[n] \in Range(top)
        <4>1. top[n - place + 1] = acc.stack[n]
          BY <2>2, <2>4
        <4> QED BY <2>4, <4>1 DEF Range
      <3> QED BY <3>1
    <2>6. \A job \in Range(top) : job \in From(acc.stack, place)
      BY <2>2, <2>3 DEF Range, From
    <2>7. Range(top) = From(acc.stack, place)
      BY <2>5, <2>6 DEF From
    <2> QED BY <2>7 DEF top
  <1>5. Leave(acc, id) = [acc EXCEPT !.stack = SubSeq(@, 1, at - 1),
                !.found = @ \cup {Range(SubSeq(acc.stack, at, Len(acc.stack)))}]
    BY DEF Leave
  <1> HIDE DEF at
  <1> QED BY <1>3, <1>4, <1>5 DEF PopFrom

\* A state after a component was popped is one that a search has found.
LEMMA PoppedConsistent ==
    ASSUME NEW needs, Graph(needs), NEW acc, Consistent(acc, needs),
           NEW place \in DOMAIN acc.stack, NEW id, id = acc.stack[place],
           acc.low[id] = acc.index[id],
           \A dependency \in needs[id] : Cleared(acc, id, dependency),
           NEW after, after = PopFrom(acc, place)
    PROVE  /\ Consistent(after, needs) /\ after.index = acc.index /\ after.low = acc.low
           /\ after.stack = SubSeq(acc.stack, 1, place - 1) /\ acc.found \subseteq after.found
           /\ Len(after.stack) = place - 1
           /\ \A n \in 1 .. place - 1 : after.stack[n] = acc.stack[n]
  <1>1. acc \in Searches(DOMAIN needs)
    BY DEF Consistent
  <1>2. /\ acc.stack \in Seq(DOMAIN needs) /\ Len(acc.stack) \in Nat
        /\ DOMAIN acc.stack = 1 .. Len(acc.stack)
        /\ acc.index \in [DOMAIN needs -> Nat] /\ acc.low \in [DOMAIN needs -> Nat]
        /\ acc.found \in SUBSET SUBSET DOMAIN needs
    BY <1>1 DEF Searches
  <1>3. place \in 1 .. Len(acc.stack) /\ place \in Nat
    BY <1>2
  <1>4. From(acc.stack, place) \subseteq DOMAIN needs
    <2>1. \A n \in place .. Len(acc.stack) : n \in DOMAIN acc.stack
      BY <1>2, <1>3
    <2> QED BY <1>2, <2>1 DEF From
  <1>5. /\ after.next = acc.next /\ after.stack = SubSeq(acc.stack, 1, place - 1)
        /\ after.index = acc.index /\ after.low = acc.low
        /\ after.found = acc.found \cup {From(acc.stack, place)}
        /\ after \in Searches(DOMAIN needs)
    <2>1. acc = [next |-> acc.next, stack |-> acc.stack, index |-> acc.index, low |-> acc.low,
                 found |-> acc.found] /\ acc.next \in Nat
      BY <1>1 DEF Searches
    <2>2. after = [next |-> acc.next, stack |-> SubSeq(acc.stack, 1, place - 1),
                   index |-> acc.index, low |-> acc.low,
                   found |-> acc.found \cup {From(acc.stack, place)}]
      BY <2>1 DEF PopFrom
    <2>3. /\ SubSeq(acc.stack, 1, place - 1) \in Seq(DOMAIN needs)
          /\ acc.found \cup {From(acc.stack, place)} \in SUBSET SUBSET DOMAIN needs
      BY <1>2, <1>3, <1>4
    <2> QED BY <1>2, <2>1, <2>2, <2>3 DEF Searches
  <1>6. /\ Len(after.stack) = place - 1 /\ DOMAIN after.stack = 1 .. place - 1
        /\ \A n \in 1 .. place - 1 : after.stack[n] = acc.stack[n]
    <2> DEFINE k == place - 1
    <2>1. k \in Nat /\ k <= Len(acc.stack) /\ k - 1 + 1 = k
      BY <1>2, <1>3
    <2> HIDE DEF k
    <2>2. /\ Len(SubSeq(acc.stack, 1, k)) = k /\ DOMAIN SubSeq(acc.stack, 1, k) = 1 .. k
          /\ \A n \in 1 .. k : SubSeq(acc.stack, 1, k)[n] = acc.stack[n]
      BY <1>2, <2>1
    <2> QED BY <1>5, <2>2 DEF k
  <1>7. \A n \in 1 .. place - 1 : n \in DOMAIN acc.stack
    BY <1>2, <1>3
  <1>8. Range(after.stack) = {acc.stack[n] : n \in 1 .. place - 1}
    BY <1>6 DEF Range
  <1>9. \A n \in DOMAIN acc.stack : n \in 1 .. place - 1 \/ n \in place .. Len(acc.stack)
    BY <1>2, <1>3
  <1>10. \A n \in place .. Len(acc.stack) : n \in DOMAIN acc.stack /\ n \notin 1 .. place - 1
    BY <1>2, <1>3
  <1>11. /\ Range(acc.stack) = Range(after.stack) \cup From(acc.stack, place)
         /\ Range(after.stack) \cap From(acc.stack, place) = {}
    <2>1. ASSUME NEW m \in 1 .. place - 1, NEW n \in place .. Len(acc.stack)
          PROVE  acc.stack[m] # acc.stack[n]
      BY <1>7, <1>10, StackedOnce
    <2>2. Range(after.stack) \cap From(acc.stack, place) = {}
      BY <1>8, <2>1 DEF From
    <2> QED BY <1>7, <1>8, <1>9, <1>10, <2>2 DEF From, Range
  <1>12. Popped(after) = Popped(acc) \cup From(acc.stack, place)
    BY <1>5 DEF Popped
  <1>13. after.next >= 1
    BY <1>5 DEF Consistent
  <1>14. \A n \in DOMAIN after.stack : after.index[after.stack[n]] \in 1 .. after.next - 1
    BY <1>5, <1>6, <1>7 DEF Consistent
  <1>15. \A m, n \in DOMAIN after.stack :
            m < n => after.index[after.stack[m]] < after.index[after.stack[n]]
    <2>1. \A n \in DOMAIN after.stack :
            n \in DOMAIN acc.stack /\ after.index[after.stack[n]] = acc.index[acc.stack[n]]
      BY <1>5, <1>6, <1>7
    <2> QED BY <2>1 DEF Consistent
  <1>16. \A other \in DOMAIN needs :
            after.index[other] # 0 <=> other \in Range(after.stack) \cup Popped(after)
    BY <1>5, <1>11, <1>12 DEF Consistent
  <1>17. Range(after.stack) \cap Popped(after) = {}
    BY <1>11, <1>12 DEF Consistent
  <1>18. ASSUME \A component \in after.found : Cardinality(component) < 2
         PROVE  Settled(needs, Popped(after))
    <2>1. Settled(needs, Popped(acc))
      BY <1>5, <1>18 DEF Consistent
    <2>2. Cardinality(From(acc.stack, place)) < 2
      BY <1>5, <1>18
    <2>3. id \in From(acc.stack, place) /\ id \in Range(acc.stack) /\ id \in DOMAIN needs
      <3>1. place \in place .. Len(acc.stack)
        BY <1>3
      <3> QED BY <1>2, <3>1 DEF From, Range
    <2>4. IsFiniteSet(From(acc.stack, place))
      BY <1>4, FS_Subset DEF Graph
    <2>5. From(acc.stack, place) = {id}
      <3>1. Cardinality(From(acc.stack, place)) \in Nat
        BY <2>4, FS_CardinalityType
      <3>2. Cardinality(From(acc.stack, place)) # 0
        BY <2>3, <2>4, FS_EmptySet
      <3>3. Cardinality(From(acc.stack, place)) = 1
        BY <2>2, <3>1, <3>2
      <3> QED BY <2>3, <2>4, <3>3, FS_Singleton
    <2>6. ASSUME NEW dependency \in needs[id], dependency \notin Popped(acc) PROVE FALSE
      <3>1. dependency \in DOMAIN needs /\ dependency # id
        BY <2>3, <2>6 DEF Graph
      <3>2. /\ dependency \in Range(acc.stack)
            /\ acc.index[dependency] > acc.index[id] \/ acc.low[id] <= acc.index[dependency]
        BY <2>6 DEF Cleared
      <3>3. dependency \in Range(after.stack)
        BY <1>11, <2>5, <3>1, <3>2
      <3>4. PICK n \in 1 .. place - 1 : acc.stack[n] = dependency
        BY <1>8, <3>3
      <3>5. n \in DOMAIN acc.stack /\ n < place
        BY <1>3, <1>7, <3>4
      <3>6. acc.index[dependency] < acc.index[id]
        BY <3>4, <3>5 DEF Consistent
      <3>7. acc.index[dependency] \in Nat /\ acc.index[id] \in Nat
        BY <1>2, <2>3, <3>1
      <3> QED BY <3>2, <3>6, <3>7
    <2>7. id \notin Popped(acc)
      BY <2>3 DEF Consistent
    <2> QED BY <1>12, <2>1, <2>5, <2>6, <2>7, OneMoreSettled
  <1>19. Consistent(after, needs)
    BY <1>5, <1>13, <1>14, <1>15, <1>16, <1>17, <1>18 DEF Consistent
  <1> QED BY <1>5, <1>6, <1>19

\* A search that does well does so one level deeper.
LEMMA DeeperWell ==
    ASSUME NEW needs, Graph(needs), NEW depth \in Nat, NEW search,
           SearchesWell(needs, search, depth)
    PROVE  SearchesWell(needs, Deeper(needs, search), depth + 1)
  <1> SUFFICES ASSUME NEW acc \in Searches(DOMAIN needs), NEW id \in DOMAIN needs,
                      Consistent(acc, needs), acc.index[id] = 0,
                      Cardinality(Unvisited(acc)) <= depth + 1
               PROVE  Searched(needs, acc, id, Deeper(needs, search)[acc][id])
    BY DEF SearchesWell
  <1> DEFINE entered == Enter(acc, id)
             all == FollowEach(entered, id, needs[id] \ {id}, search)
             after == Leave(all, id)
             place == Len(acc.stack) + 1
  <1>1. Deeper(needs, search)[acc][id] = after
    BY DEF Deeper
  <1>2. /\ Consistent(entered, needs) /\ Later(acc, entered)
        /\ entered.stack = Append(acc.stack, id) /\ entered.found = acc.found
        /\ entered.index[id] = acc.next /\ entered.low[id] = acc.next
        /\ \A other \in DOMAIN needs : other # id => entered.low[other] = acc.low[other]
        /\ \A other \in DOMAIN needs : other # id => entered.index[other] = acc.index[other]
        /\ entered.stack # <<>> /\ Lowest(entered) = Lowest(acc)
        /\ Unvisited(entered) = Unvisited(acc) \ {id}
    BY Entered
  <1> HIDE DEF entered
  <1>3. /\ acc.stack \in Seq(DOMAIN needs) /\ Len(acc.stack) \in Nat /\ acc.next \in Nat \ {0}
        /\ acc.index \in [DOMAIN needs -> Nat]
        /\ DOMAIN acc.stack = 1 .. Len(acc.stack)
    BY DEF Searches, Consistent
  <1>4. place \in DOMAIN entered.stack /\ entered.stack[place] = id
    BY <1>2, <1>3
  <1>5. id \in Range(entered.stack)
    BY <1>4 DEF Range
  <1>6. Cardinality(Unvisited(entered)) <= depth
    <2>1. Unvisited(acc) \subseteq DOMAIN needs /\ id \in Unvisited(acc)
      BY <1>3 DEF Unvisited
    <2>2. IsFiniteSet(Unvisited(acc))
      BY <2>1, FS_Subset DEF Graph
    <2>3. Cardinality(Unvisited(acc)) \in Nat
      BY <2>2, FS_CardinalityType
    <2>4. Cardinality(Unvisited(acc) \ {id}) = Cardinality(Unvisited(acc)) - 1
      BY <2>1, <2>2, FS_RemoveElement
    <2> QED BY <1>2, <2>3, <2>4
  <1>7. Lowest(entered) <= entered.low[id] /\ entered.low[id] <= entered.index[id]
    <2>1. Lowest(entered) <= entered.index[id]
      BY <1>2, <1>5, LowestOfStack
    <2> QED BY <1>2, <1>3, <2>1
  <1>8. needs[id] \ {id} \in SUBSET (DOMAIN needs \ {id}) /\ needs[id] \ {id} = needs[id]
    BY DEF Graph
  <1>9. PICK order : /\ Range(order) = needs[id] /\ order \in Seq(needs[id])
                     /\ Following(needs, entered, id, order, Len(order), all)
    BY <1>2, <1>5, <1>6, <1>7, <1>8, FollowedAll
  <1> HIDE DEF all
  <1>10. /\ Consistent(all, needs) /\ Later(entered, all)
         /\ \A other \in DOMAIN needs :
              entered.index[other] # 0 /\ other # id => all.low[other] = entered.low[other]
         /\ Lowest(entered) <= all.low[id] /\ all.low[id] <= all.index[id]
    BY <1>9 DEF Following
  <1>11. \A dependency \in needs[id] : Cleared(all, id, dependency)
    <2>1. ASSUME NEW dependency \in needs[id] PROVE Cleared(all, id, dependency)
      <3>1. PICK k \in DOMAIN order : order[k] = dependency
        BY <1>9 DEF Range
      <3>2. k \in 1 .. Len(order)
        BY <1>9
      <3> QED BY <1>9, <3>1, <3>2 DEF Following
    <2> QED BY <2>1
  <1>12. Later(acc, all)
    BY <1>2, <1>10, LaterTrans
  <1>13. \A other \in DOMAIN needs : acc.index[other] # 0 => all.low[other] = acc.low[other]
    <2>1. \A other \in DOMAIN needs : acc.index[other] # 0 =>
            other # id /\ entered.index[other] # 0 /\ entered.low[other] = acc.low[other]
      BY <1>2
    <2> QED BY <1>10, <2>1
  <1>14. all.index[id] = acc.next
    <2>1. entered.index \in [DOMAIN needs -> Nat]
      BY <1>2 DEF Consistent, Searches
    <2> QED BY <1>2, <1>3, <1>10, <2>1 DEF Later
  <1>15. /\ place \in DOMAIN all.stack /\ all.stack[place] = id /\ place \in Nat
         /\ \A n \in 1 .. place - 1 : all.stack[n] = acc.stack[n]
    <2>1. /\ Len(entered.stack) = place /\ Len(entered.stack) <= Len(all.stack)
          /\ \A n \in DOMAIN entered.stack : all.stack[n] = entered.stack[n]
      BY <1>2, <1>3, <1>10 DEF Later
    <2>2. all.stack \in Seq(DOMAIN needs)
      BY <1>10 DEF Consistent, Searches
    <2>3. place \in DOMAIN all.stack /\ place \in Nat
      BY <1>3, <2>1, <2>2
    <2>4. \A n \in 1 .. place - 1 : n \in DOMAIN acc.stack
      BY <1>3
    <2> QED BY <1>4, <1>12, <2>1, <2>3, <2>4 DEF Later
  <1>16. CASE all.low[id] # all.index[id]
    <2>1. after = all
      BY <1>16 DEF Leave
    <2> QED BY <1>1, <1>2, <1>10, <1>12, <1>13, <1>14, <1>16, <2>1 DEF Searched
  <1>17. CASE all.low[id] = all.index[id]
    <2>1. after = PopFrom(all, place)
      BY <1>10, <1>15, <1>17, LeftWith
    <2> HIDE DEF after, place
    <2>2. /\ Consistent(after, needs) /\ after.index = all.index /\ after.low = all.low
          /\ all.found \subseteq after.found /\ Len(after.stack) = place - 1
          /\ \A n \in 1 .. place - 1 : after.stack[n] = all.stack[n]
      BY <1>10, <1>11, <1>15, <1>17, <2>1, PoppedConsistent
    <2>3. Len(after.stack) = Len(acc.stack)
      BY <1>3, <2>2 DEF place
    <2>4. \A n \in DOMAIN acc.stack : after.stack[n] = acc.stack[n]
      BY <1>3, <1>15, <2>2 DEF place
    <2>5. Later(acc, after)
      BY <1>3, <1>12, <2>2, <2>3, <2>4 DEF Later
    <2> QED BY <1>1, <1>2, <1>10, <1>13, <1>14, <2>2, <2>3, <2>5 DEF Searched
  <1> QED BY <1>16, <1>17

\* A search that goes no level deep.
NoSearch(needs) == [acc \in Searches(DOMAIN needs) |-> [id \in DOMAIN needs |-> acc]]

\* f has the searches that go so deep.
Deepens(f, needs) ==
    /\ f[0] = NoSearch(needs)
    /\ \A n \in 1 .. Cardinality(DOMAIN needs) : f[n] = Deeper(needs, f[n - 1])

\* Search does what its recursion says.
LEMMA SearchRuns ==
    ASSUME NEW needs, IsFiniteSet(DOMAIN needs)
    PROVE  \E f : Deepens(f, needs) /\ Search(needs) = f[Cardinality(DOMAIN needs)]
  <1> DEFINE Eq(f, m) ==
        f = [n \in 0 .. m |->
              IF n = 0 THEN NoSearch(needs) ELSE Deeper(needs, f[n - 1])]
  <1> DEFINE S == {m \in 0 .. Cardinality(DOMAIN needs) : \E f : Eq(f, m)}
  <1>1. Cardinality(DOMAIN needs) \in Nat
    BY FS_CardinalityType
  <1>2. 0 \in S
    <2> DEFINE f == [n \in 0 .. 0 |-> NoSearch(needs)]
    <2>1. Eq(f, 0)
      OBVIOUS
    <2> HIDE DEF f, Eq
    <2> QED BY <1>1, <2>1
  <1>3. ASSUME NEW m \in 0 .. Cardinality(DOMAIN needs) - 1, m \in S PROVE m + 1 \in S
    <2>1. PICK f : Eq(f, m)
      BY <1>3
    <2> DEFINE g == [n \in 0 .. m + 1 |->
                       IF n = m + 1 THEN Deeper(needs, f[m])
                       ELSE f[n]]
    <2>2. \A n \in 0 .. m + 1 : n = m + 1 \/ n \in 0 .. m
      OBVIOUS
    <2>3. \A n \in 0 .. m : g[n] = f[n] /\ (n # 0 => n - 1 \in 0 .. m)
      BY <1>1
    <2>4. g[m + 1] = Deeper(needs, g[m + 1 - 1])
      BY <1>1
    <2>5. \A n \in 0 .. m :
            g[n] = IF n = 0 THEN NoSearch(needs) ELSE Deeper(needs, g[n - 1])
      <3> HIDE DEF g
      <3> QED BY <2>1, <2>3
    <2>6. g = [n \in 0 .. m + 1 |-> g[n]]
      OBVIOUS
    <2>7. Eq(g, m + 1)
      <3> HIDE DEF g
      <3>1. m + 1 # 0
        BY <1>1
      <3>2. \A n \in 0 .. m + 1 :
              g[n] = IF n = 0 THEN NoSearch(needs) ELSE Deeper(needs, g[n - 1])
        BY <2>2, <2>4, <2>5, <3>1
      <3> QED BY ONLY <2>6, <3>2
    <2> HIDE DEF Eq, g
    <2> QED BY <1>1, <2>7
  <1>4. Cardinality(DOMAIN needs) \in S
    <2> HIDE DEF S
    <2>1. \A k \in 0 .. Cardinality(DOMAIN needs) - 1 : k \in S => k + 1 \in S
      BY <1>3
    <2>2. \A k \in 0 .. Cardinality(DOMAIN needs) : k \in S
      BY ONLY <1>1, <1>2, <2>1, Stepwise
    <2> QED BY <1>1, <2>2
  <1>5. PICK f : Eq(f, Cardinality(DOMAIN needs))
    BY <1>4
  <1> DEFINE p == CHOOSE p : Eq(p, Cardinality(DOMAIN needs))
  <1>6. Eq(p, Cardinality(DOMAIN needs))
    <2> HIDE DEF Eq
    <2> QED BY <1>5
  <1>7. Search(needs) = p[Cardinality(DOMAIN needs)]
    BY DEF Search, NoSearch
  <1> HIDE DEF p
  <1>8. Deepens(p, needs)
    <2>1. p[0] = NoSearch(needs)
      BY <1>1, <1>6
    <2>2. \A n \in 1 .. Cardinality(DOMAIN needs) : n # 0 /\ n \in 0 .. Cardinality(DOMAIN needs)
      BY <1>1
    <2> QED BY <1>6, <2>1, <2>2 DEF Deepens
  <1> QED BY <1>7, <1>8

\* The search from a job goes deep enough.
LEMMA SearchWell ==
    ASSUME NEW needs, Graph(needs)
    PROVE  SearchesWell(needs, Search(needs), Cardinality(DOMAIN needs))
  <1> DEFINE size == Cardinality(DOMAIN needs)
  <1>1. size \in Nat
    BY FS_CardinalityType DEF Graph
  <1>2. PICK f : Deepens(f, needs) /\ Search(needs) = f[size]
    BY SearchRuns DEF Graph
  <1> HIDE DEF size
  <1> DEFINE S == {depth \in 0 .. size : SearchesWell(needs, f[depth], depth)}
  <1>3. 0 \in S
    <2>1. ASSUME NEW acc \in Searches(DOMAIN needs), NEW id \in DOMAIN needs, acc.index[id] = 0
          PROVE  ~(Cardinality(Unvisited(acc)) <= 0)
      <3>1. acc.index \in [DOMAIN needs -> Nat]
        BY DEF Searches
      <3>2. id \in Unvisited(acc) /\ Unvisited(acc) \subseteq DOMAIN needs
        BY <2>1, <3>1 DEF Unvisited
      <3>3. IsFiniteSet(Unvisited(acc))
        BY <3>2, FS_Subset DEF Graph
      <3> QED BY <3>2, <3>3, FS_EmptySet, FS_CardinalityType
    <2>2. SearchesWell(needs, f[0], 0)
      BY <2>1 DEF SearchesWell
    <2> QED BY <1>1, <2>2
  <1>4. ASSUME NEW depth \in 0 .. size - 1, depth \in S PROVE depth + 1 \in S
    <2>1. f[depth + 1] = Deeper(needs, f[depth])
      BY <1>1, <1>2 DEF Deepens, size
    <2>2. SearchesWell(needs, f[depth + 1], depth + 1)
      BY <1>4, <2>1, DeeperWell
    <2> QED BY <1>1, <2>2
  <1>5. size \in S
    <2> HIDE DEF S
    <2>1. \A depth \in 0 .. size - 1 : depth \in S => depth + 1 \in S
      BY <1>4
    <2>2. \A depth \in 0 .. size : depth \in S
      BY ONLY <1>1, <1>3, <2>1, Stepwise
    <2> QED BY <1>1, <2>2
  <1> QED BY <1>2, <1>5 DEF size

\* The search from one job after the other.
SearchNext(needs, acc, id) == IF acc.index[id] # 0 THEN acc ELSE Search(needs)[acc][id]

\* f has what the searches from so many jobs have found.
SearchesAll(f, needs) ==
    /\ f[0] = Unsearched(DOMAIN needs)
    /\ \A n \in 1 .. Len(SetToSeq(DOMAIN needs)) :
         f[n] = SearchNext(needs, f[n - 1], SetToSeq(DOMAIN needs)[n])

\* Components does what its recursion says.
LEMMA ComponentsRun ==
    ASSUME NEW needs, IsFiniteSet(DOMAIN needs)
    PROVE  \E f : /\ SearchesAll(f, needs)
                  /\ Components(needs) = f[Len(SetToSeq(DOMAIN needs))].found
  <1> DEFINE Eq(f, m) ==
        f = [n \in 0 .. m |->
              IF n = 0 THEN Unsearched(DOMAIN needs)
              ELSE SearchNext(needs, f[n - 1], SetToSeq(DOMAIN needs)[n])]
  <1> DEFINE S == {m \in 0 .. Len(SetToSeq(DOMAIN needs)) : \E f : Eq(f, m)}
  <1>1. Len(SetToSeq(DOMAIN needs)) \in Nat
    BY Listing
  <1>2. 0 \in S
    <2> DEFINE f == [n \in 0 .. 0 |-> Unsearched(DOMAIN needs)]
    <2>1. Eq(f, 0)
      OBVIOUS
    <2> HIDE DEF f, Eq
    <2> QED BY <1>1, <2>1
  <1>3. ASSUME NEW m \in 0 .. Len(SetToSeq(DOMAIN needs)) - 1, m \in S PROVE m + 1 \in S
    <2>1. PICK f : Eq(f, m)
      BY <1>3
    <2> DEFINE g == [n \in 0 .. m + 1 |->
                       IF n = m + 1 THEN SearchNext(needs, f[m], SetToSeq(DOMAIN needs)[m + 1])
                       ELSE f[n]]
    <2>2. \A n \in 0 .. m + 1 : n = m + 1 \/ n \in 0 .. m
      OBVIOUS
    <2>3. \A n \in 0 .. m : g[n] = f[n] /\ (n # 0 => n - 1 \in 0 .. m)
      BY <1>1
    <2>4. g[m + 1] = SearchNext(needs, g[m + 1 - 1], SetToSeq(DOMAIN needs)[m + 1])
      BY <1>1
    <2>5. \A n \in 0 .. m :
            g[n] = IF n = 0 THEN Unsearched(DOMAIN needs)
                   ELSE SearchNext(needs, g[n - 1], SetToSeq(DOMAIN needs)[n])
      <3> HIDE DEF g
      <3> QED BY <2>1, <2>3
    <2>6. g = [n \in 0 .. m + 1 |-> g[n]]
      OBVIOUS
    <2>7. Eq(g, m + 1)
      <3> HIDE DEF g
      <3>1. m + 1 # 0
        BY <1>1
      <3>2. \A n \in 0 .. m + 1 :
              g[n] = IF n = 0 THEN Unsearched(DOMAIN needs)
                     ELSE SearchNext(needs, g[n - 1], SetToSeq(DOMAIN needs)[n])
        BY <2>2, <2>4, <2>5, <3>1
      <3> QED BY ONLY <2>6, <3>2
    <2> HIDE DEF Eq, g
    <2> QED BY <1>1, <2>7
  <1>4. Len(SetToSeq(DOMAIN needs)) \in S
    <2> HIDE DEF S
    <2>1. \A k \in 0 .. Len(SetToSeq(DOMAIN needs)) - 1 : k \in S => k + 1 \in S
      BY <1>3
    <2>2. \A k \in 0 .. Len(SetToSeq(DOMAIN needs)) : k \in S
      BY ONLY <1>1, <1>2, <2>1, Stepwise
    <2> QED BY <1>1, <2>2
  <1>5. PICK f : Eq(f, Len(SetToSeq(DOMAIN needs)))
    BY <1>4
  <1> DEFINE p == CHOOSE p : Eq(p, Len(SetToSeq(DOMAIN needs)))
  <1>6. Eq(p, Len(SetToSeq(DOMAIN needs)))
    <2> HIDE DEF Eq
    <2> QED BY <1>5
  <1>7. Components(needs) = p[Len(SetToSeq(DOMAIN needs))].found
    BY DEF Components, SearchNext
  <1> HIDE DEF p
  <1>8. SearchesAll(p, needs)
    <2>1. p[0] = Unsearched(DOMAIN needs)
      BY <1>1, <1>6
    <2>2. \A n \in 1 .. Len(SetToSeq(DOMAIN needs)) : n # 0 /\ n \in 0 .. Len(SetToSeq(DOMAIN needs))
      BY <1>1
    <2> QED BY <1>6, <2>1, <2>2 DEF SearchesAll
  <1> QED BY <1>7, <1>8

\* If no component that was found has two jobs, no set of jobs waits for itself.
LEMMA ComponentsSettle ==
    ASSUME NEW needs, Graph(needs),
           \A component \in Components(needs) : Cardinality(component) < 2
    PROVE  Settled(needs, DOMAIN needs)
  <1> DEFINE order == SetToSeq(DOMAIN needs)
             size == Len(order)
  <1>1. /\ order \in Seq(DOMAIN needs) /\ size = Cardinality(DOMAIN needs)
        /\ Range(order) = DOMAIN needs /\ size \in Nat
    BY Listing DEF Graph
  <1>2. PICK f : SearchesAll(f, needs) /\ Components(needs) = f[size].found
    BY ComponentsRun DEF Graph
  <1>3. /\ f[0] = Unsearched(DOMAIN needs)
        /\ \A n \in 1 .. size : f[n] = SearchNext(needs, f[n - 1], order[n])
    BY <1>2 DEF SearchesAll
  <1> HIDE DEF order, size
  <1>4. DOMAIN order = 1 .. size
    BY <1>1 DEF size
  <1>5. SearchesWell(needs, Search(needs), Cardinality(DOMAIN needs))
    BY SearchWell
  <1> DEFINE Done(n) == /\ Consistent(f[n], needs) /\ f[n].stack = <<>>
                        /\ \A k \in 1 .. n : f[n].index[order[k]] # 0
             S == {n \in 0 .. size : Done(n)}
  <1>6. 0 \in S
    <2> DEFINE none == Unsearched(DOMAIN needs)
    <2>1. /\ none.next = 1 /\ none.stack = <<>> /\ none.found = {}
          /\ none.index = [id \in DOMAIN needs |-> 0] /\ none \in Searches(DOMAIN needs)
      BY DEF Unsearched, Searches
    <2> HIDE DEF none
    <2>2. Popped(none) = {} /\ Range(none.stack) = {} /\ DOMAIN none.stack = {}
      BY <2>1 DEF Popped, Range
    <2>3. Settled(needs, {})
      BY DEF Settled
    <2>4. Consistent(none, needs)
      BY <2>1, <2>2, <2>3 DEF Consistent
    <2>5. f[0] = none
      BY <1>3 DEF none
    <2>6. Done(0)
      BY <2>1, <2>4, <2>5
    <2> HIDE DEF Done
    <2> QED BY <1>1, <2>6
  <1>7. ASSUME NEW n \in 0 .. size - 1, n \in S PROVE n + 1 \in S
    <2> DEFINE acc == f[n]
               id == order[n + 1]
               after == f[n + 1]
    <2>1. n + 1 \in 1 .. size /\ n + 1 \in 0 .. size /\ n + 1 - 1 = n
      BY <1>1
    <2>2. after = SearchNext(needs, acc, id) /\ id \in DOMAIN needs
      BY <1>1, <1>3, <1>4, <2>1
    <2>3. /\ Consistent(acc, needs) /\ acc.stack = <<>>
          /\ \A k \in 1 .. n : acc.index[order[k]] # 0
      BY <1>7
    <2>4. \A k \in 1 .. n + 1 : k \in 1 .. n \/ k = n + 1
      BY <1>1
    <2>5. \A k \in 1 .. n : order[k] \in DOMAIN needs
      BY <1>1, <1>4
    <2> HIDE DEF acc, id, after
    <2>6. CASE acc.index[id] # 0
      <3>1. after = acc
        BY <2>2, <2>6 DEF SearchNext
      <3>2. Done(n + 1)
        BY <2>3, <2>4, <2>6, <3>1 DEF after, id
      <3> HIDE DEF Done
      <3> QED BY <2>1, <3>2
    <2>7. CASE acc.index[id] = 0
      <3>1. after = Search(needs)[acc][id]
        BY <2>2, <2>7 DEF SearchNext
      <3>2. /\ acc \in Searches(DOMAIN needs) /\ acc.next \in Nat
            /\ acc.index \in [DOMAIN needs -> Nat]
        BY <2>3 DEF Consistent, Searches
      <3>3. Cardinality(Unvisited(acc)) <= Cardinality(DOMAIN needs)
        <4>1. Unvisited(acc) \subseteq DOMAIN needs
          BY <3>2 DEF Unvisited
        <4> QED BY <4>1, FS_Subset DEF Graph
      <3>4. Searched(needs, acc, id, after)
        BY <1>5, <2>2, <2>3, <2>7, <3>1, <3>2, <3>3 DEF SearchesWell
      <3>5. /\ Consistent(after, needs) /\ Later(acc, after) /\ after.index[id] = acc.next
            /\ Lowest(acc) <= after.low[id] /\ after.low[id] <= after.index[id]
            /\ after.low[id] = after.index[id] => Len(after.stack) = Len(acc.stack)
        BY <3>4 DEF Searched
      <3>6. Lowest(acc) = acc.next
        BY <2>3 DEF Lowest
      <3>7. /\ after.low \in [DOMAIN needs -> Nat] /\ after.stack \in Seq(DOMAIN needs)
        BY <3>5 DEF Consistent, Searches
      <3>8. after.low[id] \in Nat
        BY <2>2, <3>7
      <3>9. after.low[id] = after.index[id]
        BY <3>2, <3>5, <3>6, <3>8
      <3>10. after.stack = <<>>
        <4>1. Len(after.stack) = 0
          BY <2>3, <3>5, <3>9
        <4> QED BY <3>7, <4>1
      <3>11. \A k \in 1 .. n + 1 : after.index[order[k]] # 0
        <4>1. \A k \in 1 .. n : after.index[order[k]] = acc.index[order[k]]
          BY <2>3, <2>5, <3>2, <3>5 DEF Later
        <4>2. acc.next # 0
          BY <2>3, <3>2 DEF Consistent
        <4> QED BY <2>3, <2>4, <3>5, <4>1, <4>2 DEF id
      <3>12. Done(n + 1)
        BY <3>5, <3>10, <3>11 DEF after
      <3> HIDE DEF Done
      <3> QED BY <2>1, <3>12
    <2> QED BY <2>6, <2>7
  <1>8. Done(size)
    <2> HIDE DEF Done
    <2> DEFINE T == S
    <2>1. 0 \in T /\ \A n \in 0 .. size - 1 : n \in T => n + 1 \in T
      BY <1>6, <1>7
    <2> HIDE DEF T
    <2>2. \A n \in 0 .. size : n \in T
      BY ONLY <1>1, <2>1, Stepwise
    <2> QED BY <1>1, <2>2 DEF T
  <1>9. Popped(f[size]) = DOMAIN needs
    <2>1. ASSUME NEW id \in DOMAIN needs PROVE id \in Popped(f[size])
      <3>1. PICK k \in DOMAIN order : order[k] = id
        BY <1>1 DEF Range
      <3>2. f[size].index[id] # 0
        BY <1>4, <1>8, <3>1
      <3>3. Range(f[size].stack) = {}
        BY <1>8 DEF Range
      <3> QED BY <1>8, <3>2, <3>3 DEF Consistent
    <2>2. Popped(f[size]) \subseteq DOMAIN needs
      BY <1>8 DEF Consistent, Searches, Popped
    <2> QED BY <2>1, <2>2
  <1>10. Consistent(f[size], needs)
    BY <1>8
  <1> QED BY <1>2, <1>9, <1>10 DEF Consistent

\* A workflow has finitely many jobs.
LEMMA FiniteJobs ==
    ASSUME NEW w, IsWorkflow(w) PROVE IsFiniteSet(JobIdsOf(w))
  <1>1. w.jobs \in Seq(JobsOf(w)) /\ Len(w.jobs) \in Nat /\ DOMAIN w.jobs = 1 .. Len(w.jobs)
    BY DEF IsWorkflow
  <1> DEFINE f == [n \in 1 .. Len(w.jobs) |-> w.jobs[n].id]
  <1>2. f \in Surjection(1 .. Len(w.jobs), JobIdsOf(w))
    <2>1. \A n \in 1 .. Len(w.jobs) : w.jobs[n] \in JobsOf(w) /\ f[n] \in JobIdsOf(w)
      BY <1>1 DEF JobsOf, JobIdsOf, Range
    <2>2. ASSUME NEW id \in JobIdsOf(w) PROVE \E n \in 1 .. Len(w.jobs) : f[n] = id
      BY <1>1 DEF JobsOf, JobIdsOf, Range
    <2>3. f \in [1 .. Len(w.jobs) -> JobIdsOf(w)]
      BY <2>1
    <2> HIDE DEF f
    <2> QED BY <2>2, <2>3 DEF Surjection
  <1>3. IsFiniteSet(1 .. Len(w.jobs))
    BY <1>1, FS_Interval
  <1> HIDE DEF f
  <1> QED BY <1>2, <1>3, FS_Surjection

\* The job of an id.
JobOf(w, id) == CHOOSE j \in JobsOf(w) : j.id = id

\* No jobs of an accepted workflow wait for each other by needs only.
LEMMA NeedsSettled ==
    ASSUME NEW w, IsWorkflow(w), NeedsAccepted(w),
           NEW loop \in SUBSET JobIdsOf(w), loop # {}
    PROVE  \E id \in loop : JobOf(w, id).needs \cap loop = {}
  <1> DEFINE job == [id \in JobIdsOf(w) |-> CHOOSE j \in JobsOf(w) : j.id = id]
             needs == [id \in JobIdsOf(w) |-> job[id].needs]
  <1>1. /\ \A id \in JobIdsOf(w) : needs[id] \subseteq JobIdsOf(w) \ {id}
        /\ \A component \in Components(needs) : Cardinality(component) < 2
    BY DEF NeedsAccepted
  <1>2. \A id \in JobIdsOf(w) : needs[id] = JobOf(w, id).needs
    BY DEF JobOf
  <1>3. DOMAIN needs = JobIdsOf(w)
    OBVIOUS
  <1> HIDE DEF needs, job
  <1>4. Graph(needs)
    BY <1>1, <1>3, FiniteJobs DEF Graph
  <1>5. Settled(needs, JobIdsOf(w))
    BY <1>1, <1>3, <1>4, ComponentsSettle
  <1> QED BY <1>2, <1>5 DEF Settled

\* What runs for the call of a job that is accepted gets what it requires, one
\* level below.
LEMMA CalleeAccepted ==
    ASSUME NEW project, NEW f, Visiting(f, project), ProjectAccepted(project),
           NEW w, NEW limit, NEW k \in 0 .. MaxNesting, <<w, limit>> \in f[k],
           NEW job \in JobsOf(w), job.callee # NoCallee
    PROVE  /\ k # 0 /\ job.callee \in project /\ Run(project, job.callee.path) = job.callee
           /\ Contract(job) /\ \E below : <<job.callee, below>> \in f[k - 1]
  <1>1. k \in 1 .. MaxNesting
    BY NestingAssumption DEF Visiting
  <1>2. VisitAccepted(w, limit, project, f[k - 1])
    BY <1>1 DEF Visiting, VisitsAbove
  <1>3. /\ job.callee \in project /\ Contract(job)
        /\ <<job.callee, Requested(w, job, limit)>> \in f[k - 1]
    BY <1>2 DEF VisitAccepted, Listed
  <1>4. \A v, u \in project : v.path = u.path => v = u
    BY DEF ProjectAccepted
  <1>5. Run(project, job.callee.path) = job.callee
    BY ONLY <1>3, <1>4, RunsListed
  <1>6. \E below : <<job.callee, below>> \in f[k - 1]
    BY ONLY <1>3
  <1>7. k # 0
    BY ONLY <1>1
  <1> QED BY <1>3, <1>5, <1>6, <1>7

\* In an accepted project no set of jobs waits for itself.
LEMMA NoLoop ==
    ASSUME NEW project, ProjectAccepted(project), \A w \in project : IsWorkflow(w),
           NEW loop \in (SUBSET Instances(project)) \ {{}}
    PROVE  \E job \in loop : Before(project, job[1], job[2]) \cap loop = {}
  <1> SUFFICES ASSUME \A job \in loop : Before(project, job[1], job[2]) \cap loop # {}
               PROVE  FALSE
    OBVIOUS
  <1>1. PICK f : Visiting(f, project) /\ Visits(project) = f[MaxNesting]
    BY VisitsRun
  <1>2. \A v, w \in project : v.path = w.path => v = w
    BY DEF ProjectAccepted
  <1>3. \A x \in loop : \E w \in project : \E job \in JobsOf(w) : x = <<w.path, job.id>>
    BY DEF Instances
  <1> DEFINE AtLevel(k, w) == /\ \E limit : <<w, limit>> \in f[k]
                         /\ w \in project
                         /\ \E id : <<w.path, id>> \in loop
             K == {k \in 0 .. MaxNesting : \E w : AtLevel(k, w)}
  <1>4. MaxNesting \in Nat
    BY NestingAssumption
  <1>5. MaxNesting \in K
    <2>1. PICK x : x \in loop
      <3>1. loop # {}
        OBVIOUS
      <3> QED BY <3>1
    <2>2. PICK w \in project : \E job \in JobsOf(w) : x = <<w.path, job.id>>
      BY <1>3, <2>1
    <2>3. <<w, Unset>> \in f[MaxNesting]
      BY <1>1, <2>2 DEF ProjectAccepted
    <2>4. \E id : <<w.path, id>> \in loop
      BY <2>1, <2>2
    <2>5. AtLevel(MaxNesting, w)
      BY <2>2, <2>3, <2>4
    <2> HIDE DEF AtLevel
    <2> QED BY <1>4, <2>5
  <1>6. PICK k \in K : \A m \in K : k <= m
    <2>1. K \in SUBSET Nat /\ K # {}
      <3> HIDE DEF AtLevel
      <3>1. K \subseteq 0 .. MaxNesting
        OBVIOUS
      <3>2. 0 .. MaxNesting \subseteq Nat
        BY ONLY <1>4
      <3>3. K # {}
        BY ONLY <1>5
      <3> QED BY ONLY <3>1, <3>2, <3>3
    <2> HIDE DEF K
    <2> QED BY <2>1, Least
  <1>7. PICK w : AtLevel(k, w)
    BY <1>6
  <1>8. PICK limit : <<w, limit>> \in f[k]
    BY <1>7
  <1>9. w \in project /\ Run(project, w.path) = w /\ IsWorkflow(w) /\ NeedsAccepted(w)
    BY <1>2, <1>7, RunsListed DEF ProjectAccepted
  <1> DEFINE L == {id \in JobIdsOf(w) : <<w.path, id>> \in loop}
  <1>10. \A id : <<w.path, id>> \in loop => id \in JobIdsOf(w)
    <2>1. ASSUME NEW id, <<w.path, id>> \in loop PROVE id \in JobIdsOf(w)
      <3>1. PICK v \in project : \E job \in JobsOf(v) : <<w.path, id>> = <<v.path, job.id>>
        BY <1>3, <2>1
      <3>2. v = w
        BY <1>2, <1>9, <3>1
      <3> QED BY <3>1, <3>2 DEF JobIdsOf
    <2> QED BY <2>1
  <1>11. L # {}
    BY <1>7, <1>10
  <1>12. ASSUME NEW id \in L PROVE JobOf(w, id).needs \cap L # {}
    <2> DEFINE job == JobOf(w, id)
    <2>1. job \in JobsOf(w) /\ <<w.path, id>> \in loop
      <3>1. \E j \in JobsOf(w) : j.id = id
        BY <1>12 DEF JobIdsOf
      <3> QED BY <1>12, <3>1 DEF JobOf
    <2>2. PICK x : x \in Before(project, w.path, id) /\ x \in loop
      <3>1. <<w.path, id>>[1] = w.path /\ <<w.path, id>>[2] = id
        OBVIOUS
      <3> QED BY <2>1, <3>1
    <2>3. Before(project, w.path, id) =
            {<<w.path, other>> : other \in job.needs} \cup
            IF job.callee = NoCallee THEN {}
            ELSE {<<Run(project, job.callee.path).path, other>> :
                     other \in JobIdsOf(Run(project, job.callee.path))}
      BY <1>9 DEF Before, JobOf
    <2> HIDE DEF job
    <2>4. CASE \E other \in job.needs : x = <<w.path, other>>
      BY <1>10, <2>2, <2>4 DEF job
    <2>5. CASE ~\E other \in job.needs : x = <<w.path, other>>
      <3>1. /\ job.callee # NoCallee
            /\ \E other : x = <<Run(project, job.callee.path).path, other>>
        BY <2>2, <2>3, <2>5
      <3>2. k \in 0 .. MaxNesting
        BY <1>6
      <3>3. /\ k # 0 /\ job.callee \in project /\ Run(project, job.callee.path) = job.callee
            /\ \E below : <<job.callee, below>> \in f[k - 1]
        BY <1>1, <1>8, <2>1, <3>1, <3>2, CalleeAccepted
      <3>4. AtLevel(k - 1, job.callee)
        BY <2>2, <3>1, <3>3
      <3>5. k - 1 \in K
        <4>1. k - 1 \in 0 .. MaxNesting
          BY <1>4, <3>2, <3>3
        <4> HIDE DEF AtLevel
        <4> QED BY <3>4, <4>1
      <3>6. ~(k <= k - 1)
        BY <3>2
      <3> HIDE DEF K, AtLevel
      <3> QED BY <1>6, <3>5, <3>6
    <2> QED BY <2>4, <2>5
  <1> HIDE DEF L
  <1>13. L \in SUBSET JobIdsOf(w)
    BY DEF L
  <1> QED BY <1>9, <1>11, <1>12, <1>13, NeedsSettled

\* Whatever an author builds, every job of a project that generation accepts can
\* run and end.
THEOREM AcceptedRun == WorkflowSpec => []AcceptedProjectsRun
  <1>1. ASSUME WorkflowsInv PROVE AcceptedProjectsRun
    <2> SUFFICES ASSUME NEW project \in Projects
                 PROVE  /\ \A w \in project : \A job \in JobsOf(w) : job.callee # NoCallee =>
                             (Run(project, job.callee.path).input = "required" => job.gives)
                        /\ \A loop \in (SUBSET Instances(project)) \ {{}} :
                             \E job \in loop : Before(project, job[1], job[2]) \cap loop = {}
      BY DEF AcceptedProjectsRun
    <2>1. ProjectAccepted(project) /\ project \subseteq built
      BY DEF Projects, Definitions
    <2>2. \A w \in project : IsWorkflow(w)
      BY <1>1, <2>1 DEF WorkflowsInv
    <2>3. PICK f : Visiting(f, project) /\ Visits(project) = f[MaxNesting]
      BY VisitsRun
    <2>4. ASSUME NEW w \in project, NEW job \in JobsOf(w), job.callee # NoCallee,
                 Run(project, job.callee.path).input = "required"
          PROVE  job.gives
      <3>1. <<w, Unset>> \in f[MaxNesting] /\ MaxNesting \in 0 .. MaxNesting
        BY <2>1, <2>3, NestingAssumption DEF ProjectAccepted
      <3>2. Run(project, job.callee.path) = job.callee /\ Contract(job)
        BY <2>1, <2>3, <2>4, <3>1, CalleeAccepted
      <3> QED BY <2>4, <3>2 DEF Contract
    <2> QED BY <2>1, <2>2, <2>4, NoLoop
  <1> QED BY <1>1, Workflows, PTL

-----------------------------------------------------------------------------
(* The rows of a matrix.                                                    *)

\* f[n] is the rows of the first n axes.
Combines(f, axes) ==
    /\ f[0] = <<[key \in {} |-> 0]>>
    /\ \A n \in 1 .. Len(axes) : f[n] = Widened(f[n - 1], axes[n])

LEMMA CombinationsRuns ==
    ASSUME NEW A, NEW axes \in Seq(A)
    PROVE  \E f : Combines(f, axes) /\ CombinationsOf(axes) = f[Len(axes)]
  <1> DEFINE Eq(f, m) ==
        f = [n \in 0 .. m |->
              IF n = 0 THEN <<[key \in {} |-> 0]>> ELSE Widened(f[n - 1], axes[n])]
  <1> DEFINE S == {m \in 0 .. Len(axes) : \E f : Eq(f, m)}
  <1>1. Len(axes) \in Nat
    OBVIOUS
  <1>2. 0 \in S
    <2> DEFINE f == [n \in 0 .. 0 |-> <<[key \in {} |-> 0]>>]
    <2>1. Eq(f, 0)
      OBVIOUS
    <2> HIDE DEF f, Eq
    <2> QED BY <1>1, <2>1
  <1>3. ASSUME NEW m \in 0 .. Len(axes) - 1, m \in S PROVE m + 1 \in S
    <2>1. PICK f : Eq(f, m)
      BY <1>3
    <2> DEFINE g == [n \in 0 .. m + 1 |->
                       IF n = m + 1 THEN Widened(f[m], axes[m + 1])
                       ELSE f[n]]
    <2>2. \A n \in 0 .. m + 1 : n = m + 1 \/ n \in 0 .. m
      OBVIOUS
    <2>3. \A n \in 0 .. m : g[n] = f[n] /\ (n # 0 => n - 1 \in 0 .. m)
      BY <1>1
    <2>4. g[m + 1] = Widened(g[m + 1 - 1], axes[m + 1])
      BY <1>1
    <2>5. \A n \in 0 .. m :
            g[n] = IF n = 0 THEN <<[key \in {} |-> 0]>> ELSE Widened(g[n - 1], axes[n])
      <3> HIDE DEF g
      <3> QED BY <2>1, <2>3
    <2>6. g = [n \in 0 .. m + 1 |-> g[n]]
      OBVIOUS
    <2>7. Eq(g, m + 1)
      <3> HIDE DEF g
      <3>1. m + 1 # 0
        BY <1>1
      <3>2. \A n \in 0 .. m + 1 :
              g[n] = IF n = 0 THEN <<[key \in {} |-> 0]>> ELSE Widened(g[n - 1], axes[n])
        BY ONLY <2>2, <2>4, <2>5, <3>1
      <3> QED BY ONLY <2>6, <3>2
    <2> HIDE DEF Eq, g
    <2> QED BY <1>1, <2>7
  <1>4. Len(axes) \in S
    <2> HIDE DEF S
    <2>1. \A k \in 0 .. Len(axes) - 1 : k \in S => k + 1 \in S
      BY <1>3
    <2>2. \A k \in 0 .. Len(axes) : k \in S
      BY ONLY <1>1, <1>2, <2>1, Stepwise
    <2> QED BY <1>1, <2>2
  <1>5. PICK f : Eq(f, Len(axes))
    BY <1>4
  <1> DEFINE p == CHOOSE p : Eq(p, Len(axes))
  <1>6. Eq(p, Len(axes))
    <2> HIDE DEF Eq
    <2> QED BY <1>5
  <1>7. CombinationsOf(axes) = p[Len(axes)]
    BY DEF CombinationsOf
  <1> HIDE DEF p
  <1>8. Combines(p, axes)
    <2>1. p[0] = <<[key \in {} |-> 0]>>
      BY <1>1, <1>6
    <2>2. \A n \in 1 .. Len(axes) : n # 0 /\ n \in 0 .. Len(axes)
      BY <1>1
    <2> QED BY <1>6, <2>1, <2>2 DEF Combines
  <1> QED BY <1>7, <1>8

\* f[n] is what remains of the first n rows.
Remains(f, rows, x) ==
    /\ f[0] = <<>>
    /\ \A n \in 1 .. Len(rows) :
         f[n] = IF Excluded(rows[n], x) THEN f[n - 1] ELSE Append(f[n - 1], rows[n])

LEMMA RemainingRuns ==
    ASSUME NEW R, NEW rows \in Seq(R), NEW x
    PROVE  \E f : Remains(f, rows, x) /\ Remaining(rows, x) = f[Len(rows)]
  <1> DEFINE Eq(f, m) ==
        f = [n \in 0 .. m |->
              IF n = 0 THEN <<>>
              ELSE IF Excluded(rows[n], x) THEN f[n - 1] ELSE Append(f[n - 1], rows[n])]
  <1> DEFINE S == {m \in 0 .. Len(rows) : \E f : Eq(f, m)}
  <1>1. Len(rows) \in Nat
    OBVIOUS
  <1>2. 0 \in S
    <2> DEFINE f == [n \in 0 .. 0 |-> <<>>]
    <2>1. Eq(f, 0)
      OBVIOUS
    <2> HIDE DEF f, Eq
    <2> QED BY <1>1, <2>1
  <1>3. ASSUME NEW m \in 0 .. Len(rows) - 1, m \in S PROVE m + 1 \in S
    <2>1. PICK f : Eq(f, m)
      BY <1>3
    <2> DEFINE g == [n \in 0 .. m + 1 |->
                       IF n = m + 1 THEN IF Excluded(rows[m + 1], x) THEN f[m] ELSE Append(f[m], rows[m + 1])
                       ELSE f[n]]
    <2>2. \A n \in 0 .. m + 1 : n = m + 1 \/ n \in 0 .. m
      OBVIOUS
    <2>3. \A n \in 0 .. m : g[n] = f[n] /\ (n # 0 => n - 1 \in 0 .. m)
      BY <1>1
    <2>4. g[m + 1] = IF Excluded(rows[m + 1], x) THEN g[m + 1 - 1] ELSE Append(g[m + 1 - 1], rows[m + 1])
      BY <1>1
    <2>5. \A n \in 0 .. m :
            g[n] = IF n = 0 THEN <<>>
                   ELSE IF Excluded(rows[n], x) THEN g[n - 1] ELSE Append(g[n - 1], rows[n])
      <3> HIDE DEF g
      <3> QED BY <2>1, <2>3
    <2>6. g = [n \in 0 .. m + 1 |-> g[n]]
      OBVIOUS
    <2>7. Eq(g, m + 1)
      <3> HIDE DEF g
      <3>1. m + 1 # 0
        BY <1>1
      <3>2. \A n \in 0 .. m + 1 :
              g[n] = IF n = 0 THEN <<>>
                     ELSE IF Excluded(rows[n], x) THEN g[n - 1] ELSE Append(g[n - 1], rows[n])
        BY ONLY <2>2, <2>4, <2>5, <3>1
      <3> QED BY ONLY <2>6, <3>2
    <2> HIDE DEF Eq, g
    <2> QED BY <1>1, <2>7
  <1>4. Len(rows) \in S
    <2> HIDE DEF S
    <2>1. \A k \in 0 .. Len(rows) - 1 : k \in S => k + 1 \in S
      BY <1>3
    <2>2. \A k \in 0 .. Len(rows) : k \in S
      BY ONLY <1>1, <1>2, <2>1, Stepwise
    <2> QED BY <1>1, <2>2
  <1>5. PICK f : Eq(f, Len(rows))
    BY <1>4
  <1> DEFINE p == CHOOSE p : Eq(p, Len(rows))
  <1>6. Eq(p, Len(rows))
    <2> HIDE DEF Eq
    <2> QED BY <1>5
  <1>7. Remaining(rows, x) = p[Len(rows)]
    BY DEF Remaining
  <1> HIDE DEF p
  <1>8. Remains(p, rows, x)
    <2>1. p[0] = <<>>
      BY <1>1, <1>6
    <2>2. \A n \in 1 .. Len(rows) : n # 0 /\ n \in 0 .. Len(rows)
      BY <1>1
    <2> QED BY <1>6, <2>1, <2>2 DEF Remains
  <1> QED BY <1>7, <1>8

\* f[n] is the rows after the first n entries were included.
Includes(f, x, originals) ==
    /\ f[0] = originals
    /\ \A n \in 1 .. Len(x.include) : f[n] = Include(f[n - 1], originals, x.include[n])

LEMMA IncludedRuns ==
    ASSUME NEW x, NEW originals, x.include \in Seq(Range(x.include))
    PROVE  \E f : /\ Includes(f, x, originals)
                  /\ IncludedIn(x, originals) = f[Len(x.include)]
  <1> DEFINE Eq(f, m) ==
        f = [n \in 0 .. m |->
              IF n = 0 THEN originals ELSE Include(f[n - 1], originals, x.include[n])]
  <1> DEFINE S == {m \in 0 .. Len(x.include) : \E f : Eq(f, m)}
  <1>1. Len(x.include) \in Nat
    OBVIOUS
  <1>2. 0 \in S
    <2> DEFINE f == [n \in 0 .. 0 |-> originals]
    <2>1. Eq(f, 0)
      OBVIOUS
    <2> HIDE DEF f, Eq
    <2> QED BY <1>1, <2>1
  <1>3. ASSUME NEW m \in 0 .. Len(x.include) - 1, m \in S PROVE m + 1 \in S
    <2>1. PICK f : Eq(f, m)
      BY <1>3
    <2> DEFINE g == [n \in 0 .. m + 1 |->
                       IF n = m + 1 THEN Include(f[m], originals, x.include[m + 1])
                       ELSE f[n]]
    <2>2. \A n \in 0 .. m + 1 : n = m + 1 \/ n \in 0 .. m
      OBVIOUS
    <2>3. \A n \in 0 .. m : g[n] = f[n] /\ (n # 0 => n - 1 \in 0 .. m)
      BY <1>1
    <2>4. g[m + 1] = Include(g[m + 1 - 1], originals, x.include[m + 1])
      BY <1>1
    <2>5. \A n \in 0 .. m :
            g[n] = IF n = 0 THEN originals ELSE Include(g[n - 1], originals, x.include[n])
      <3> HIDE DEF g
      <3> QED BY <2>1, <2>3
    <2>6. g = [n \in 0 .. m + 1 |-> g[n]]
      OBVIOUS
    <2>7. Eq(g, m + 1)
      <3> HIDE DEF g
      <3>1. m + 1 # 0
        BY <1>1
      <3>2. \A n \in 0 .. m + 1 :
              g[n] = IF n = 0 THEN originals
                     ELSE Include(g[n - 1], originals, x.include[n])
        BY ONLY <2>2, <2>4, <2>5, <3>1
      <3> QED BY ONLY <2>6, <3>2
    <2> HIDE DEF Eq, g
    <2> QED BY <1>1, <2>7
  <1>4. Len(x.include) \in S
    <2> HIDE DEF S
    <2>1. \A k \in 0 .. Len(x.include) - 1 : k \in S => k + 1 \in S
      BY <1>3
    <2>2. \A k \in 0 .. Len(x.include) : k \in S
      BY ONLY <1>1, <1>2, <2>1, Stepwise
    <2> QED BY <1>1, <2>2
  <1>5. PICK f : Eq(f, Len(x.include))
    BY <1>4
  <1> DEFINE p == CHOOSE p : Eq(p, Len(x.include))
  <1>6. Eq(p, Len(x.include))
    <2> HIDE DEF Eq
    <2> QED BY <1>5
  <1>7. IncludedIn(x, originals) = p[Len(x.include)]
    BY DEF IncludedIn
  <1> HIDE DEF p
  <1>8. Includes(p, x, originals)
    <2>1. p[0] = originals
      BY <1>1, <1>6
    <2>2. \A n \in 1 .. Len(x.include) : n # 0 /\ n \in 0 .. Len(x.include)
      BY <1>1
    <2> QED BY <1>6, <2>1, <2>2 DEF Includes
  <1> QED BY <1>7, <1>8

\* The row and the place in it, in rows of equal length.
RowAt(n, L) == (n - 1) \div L + 1
PlaceAt(n, L) == ((n - 1) % L) + 1

LEMMA RowsAndPlaces ==
    ASSUME NEW N \in Nat, NEW L \in Nat \ {0}
    PROVE  /\ \A n \in 1 .. N * L : RowAt(n, L) \in 1 .. N /\ PlaceAt(n, L) \in 1 .. L
           /\ \A m, n \in 1 .. N * L :
                RowAt(m, L) = RowAt(n, L) /\ PlaceAt(m, L) = PlaceAt(n, L) => m = n
           /\ \A i \in 1 .. N, v \in 1 .. L :
                \E n \in 1 .. N * L : RowAt(n, L) = i /\ PlaceAt(n, L) = v
  <1>1. ASSUME NEW n \in 1 .. N * L
        PROVE  /\ (n - 1) \div L \in Nat /\ (n - 1) % L \in Nat
               /\ n = ((n - 1) \div L) * L + ((n - 1) % L) + 1
               /\ RowAt(n, L) \in 1 .. N /\ PlaceAt(n, L) \in 1 .. L
    BY DEF RowAt, PlaceAt
  <1>2. ASSUME NEW m \in 1 .. N * L, NEW n \in 1 .. N * L,
               RowAt(m, L) = RowAt(n, L), PlaceAt(m, L) = PlaceAt(n, L)
        PROVE  m = n
    <2>1. (m - 1) \div L = (n - 1) \div L
      BY <1>1, <1>2 DEF RowAt
    <2>2. (m - 1) % L = (n - 1) % L
      BY <1>1, <1>2 DEF PlaceAt
    <2> QED BY <1>1, <2>1, <2>2
  <1>3. ASSUME NEW i \in 1 .. N, NEW v \in 1 .. L
        PROVE  \E n \in 1 .. N * L : RowAt(n, L) = i /\ PlaceAt(n, L) = v
    <2> DEFINE n == (i - 1) * L + v
    <2>1. n \in 1 .. N * L /\ RowAt(n, L) = i /\ PlaceAt(n, L) = v
      BY DEF RowAt, PlaceAt
    <2> QED BY <2>1
  <1> QED BY <1>1, <1>2, <1>3

\* Axes of different keys, each with values.
Axes(axes) ==
    /\ axes \in Seq(Range(axes))
    /\ \A n \in DOMAIN axes : axes[n].values \in Seq(Range(axes[n].values)) \ {<<>>}
    /\ \A i, j \in DOMAIN axes : axes[i].key = axes[j].key => i = j

\* The selections from the first axes, and their rows.
SelectionsTo(axes, k) ==
    {choice \in [1 .. k -> UNION {DOMAIN axes[n].values : n \in DOMAIN axes}] :
        \A n \in 1 .. k : choice[n] \in DOMAIN axes[n].values}
KeysTo(axes, k) == {axes[n].key : n \in 1 .. k}
AxisAt(axes, key) == CHOOSE n \in DOMAIN axes : axes[n].key = key
RowTo(axes, k, choice) ==
    [key \in KeysTo(axes, k) |-> axes[AxisAt(axes, key)].values[choice[AxisAt(axes, key)]]]
SelectedTo(axes, k) == [choice \in SelectionsTo(axes, k) |-> RowTo(axes, k, choice)]

\* The rows are those of some selections, each selected once.
Lists(rows, S, row) ==
    /\ rows = [n \in 1 .. Len(rows) |-> rows[n]] /\ Len(rows) \in Nat
    /\ \E f \in [1 .. Len(rows) -> S] :
         /\ \A m, n \in 1 .. Len(rows) : f[m] = f[n] => m = n
         /\ \A s \in S : \E n \in 1 .. Len(rows) : f[n] = s
         /\ \A n \in 1 .. Len(rows) : rows[n] = row[f[n]]

LEMMA ListsBy ==
    ASSUME NEW rows, NEW S, NEW row, NEW n \in Nat, Len(rows) = n,
           rows = [i \in 1 .. n |-> rows[i]], NEW f \in [1 .. n -> S],
           \A i, j \in 1 .. n : f[i] = f[j] => i = j,
           \A s \in S : \E i \in 1 .. n : f[i] = s,
           \A i \in 1 .. n : rows[i] = row[f[i]]
    PROVE  Lists(rows, S, row)
  <1>1. \E h \in [1 .. n -> S] :
          /\ \A i, j \in 1 .. n : h[i] = h[j] => i = j
          /\ \A s \in S : \E i \in 1 .. n : h[i] = s
          /\ \A i \in 1 .. n : rows[i] = row[h[i]]
    OBVIOUS
  <1> QED BY <1>1 DEF Lists

LEMMA KeyAt ==
    ASSUME NEW axes, Axes(axes), NEW n \in DOMAIN axes
    PROVE  AxisAt(axes, axes[n].key) = n
  BY DEF Axes, AxisAt

\* The selection with a value of the next axis.
OneMore(choice, k, v) == [n \in 1 .. k |-> IF n = k THEN v ELSE choice[n]]

LEMMA OneMoreAxis ==
    ASSUME NEW axes, Axes(axes), NEW k \in 1 .. Len(axes), NEW choice \in SelectionsTo(axes, k - 1),
           NEW v \in DOMAIN axes[k].values
    PROVE  /\ OneMore(choice, k, v) \in SelectionsTo(axes, k)
           /\ Extended(RowTo(axes, k - 1, choice), Single(axes[k].key, axes[k].values[v]))
                = RowTo(axes, k, OneMore(choice, k, v))
  <1> DEFINE more == OneMore(choice, k, v)
  <1>1. Len(axes) \in Nat /\ DOMAIN axes = 1 .. Len(axes) /\ k \in Nat /\ k \in DOMAIN axes
    BY DEF Axes
  <1>2. \A n \in 1 .. k : n = k \/ n \in 1 .. k - 1
    BY <1>1
  <1>3. \A n \in 1 .. k - 1 : n # k /\ n \in 1 .. k /\ n \in DOMAIN axes
    BY <1>1
  <1>4. more[k] = v /\ \A n \in 1 .. k - 1 : more[n] = choice[n]
    BY <1>1, <1>3 DEF OneMore
  <1>5. more \in SelectionsTo(axes, k)
    <2>1. \A n \in 1 .. k : more[n] \in DOMAIN axes[n].values
      BY <1>2, <1>4 DEF SelectionsTo
    <2>2. \A n \in 1 .. k : n \in DOMAIN axes
      BY <1>1
    <2>3. more \in [1 .. k -> UNION {DOMAIN axes[n].values : n \in DOMAIN axes}]
      <3>1. \A n \in 1 .. k : more[n] \in UNION {DOMAIN axes[i].values : i \in DOMAIN axes}
        BY <2>1, <2>2
      <3>2. more = [n \in 1 .. k |-> more[n]]
        BY DEF OneMore
      <3> HIDE DEF more
      <3> QED BY ONLY <3>1, <3>2
    <2> HIDE DEF more
    <2> QED BY <2>1, <2>3 DEF SelectionsTo
  <1>6. KeysTo(axes, k) = KeysTo(axes, k - 1) \cup {axes[k].key}
    BY <1>1, <1>2, <1>3 DEF KeysTo
  <1>7. AxisAt(axes, axes[k].key) = k
    BY <1>1, KeyAt
  <1>8. ASSUME NEW key \in KeysTo(axes, k - 1)
        PROVE  key # axes[k].key /\ AxisAt(axes, key) \in 1 .. k - 1
    <2>1. PICK n \in 1 .. k - 1 : key = axes[n].key
      BY DEF KeysTo
    <2> QED BY <1>1, <1>3, <2>1, KeyAt DEF Axes
  <1> DEFINE last == Single(axes[k].key, axes[k].values[v])
             row == RowTo(axes, k - 1, choice)
  <1>9. DOMAIN row = KeysTo(axes, k - 1) /\ DOMAIN last = {axes[k].key}
    BY DEF RowTo, Single
  <1>10. \A key \in KeysTo(axes, k - 1) :
            Extended(row, last)[key] = axes[AxisAt(axes, key)].values[more[AxisAt(axes, key)]]
    <2>1. ASSUME NEW key \in KeysTo(axes, k - 1)
          PROVE  Extended(row, last)[key] = axes[AxisAt(axes, key)].values[more[AxisAt(axes, key)]]
      <3>1. row[key] = axes[AxisAt(axes, key)].values[choice[AxisAt(axes, key)]]
        BY DEF RowTo
      <3>2. Extended(row, last)[key] = row[key]
        <4> HIDE DEF row, last
        <4> QED BY <1>8, <1>9 DEF Extended
      <3> QED BY <1>4, <1>8, <3>1, <3>2
    <2> QED BY <2>1
  <1>11. Extended(row, last)[axes[k].key] = axes[k].values[more[k]]
    <2>1. last[axes[k].key] = axes[k].values[v]
      BY DEF Single
    <2> HIDE DEF row, last
    <2> QED BY <1>4, <1>9, <2>1 DEF Extended
  <1>12. Extended(row, last) = RowTo(axes, k, more)
    <2> HIDE DEF row, last, more
    <2>1. Extended(row, last) = [key \in KeysTo(axes, k) |-> Extended(row, last)[key]]
      BY <1>6, <1>9 DEF Extended
    <2>2. \A key \in KeysTo(axes, k) :
            Extended(row, last)[key] = axes[AxisAt(axes, key)].values[more[AxisAt(axes, key)]]
      BY <1>6, <1>7, <1>10, <1>11
    <2> QED BY <2>1, <2>2 DEF RowTo
  <1> QED BY <1>5, <1>12

LEMMA WidenedAs ==
    ASSUME NEW rows, NEW axis
    PROVE  Widened(rows, axis) =
             [n \in 1 .. Len(rows) * Len(axis.values) |->
                Extended(rows[RowAt(n, Len(axis.values))],
                         Single(axis.key, axis.values[PlaceAt(n, Len(axis.values))]))]
  BY DEF Widened, RowAt, PlaceAt

\* One more axis lists its selections.
LEMMA WidenedLists ==
    ASSUME NEW axes, Axes(axes), NEW k \in 1 .. Len(axes), NEW rows,
           Lists(rows, SelectionsTo(axes, k - 1), SelectedTo(axes, k - 1))
    PROVE  Lists(Widened(rows, axes[k]), SelectionsTo(axes, k), SelectedTo(axes, k))
  <1> DEFINE N == Len(rows)
             L == Len(axes[k].values)
             wide == Widened(rows, axes[k])
             InRow(n) == RowAt(n, L)
             InPlace(n) == PlaceAt(n, L)
             S == SelectionsTo(axes, k - 1)
  <1>1. k \in DOMAIN axes /\ k \in Nat
    BY DEF Axes
  <1>2. N \in Nat /\ L \in Nat \ {0} /\ DOMAIN axes[k].values = 1 .. L
    <2>1. axes[k].values \in Seq(Range(axes[k].values)) \ {<<>>}
      BY <1>1 DEF Axes
    <2> QED BY <2>1 DEF Lists
  <1>3. PICK f \in [1 .. N -> S] :
          /\ \A m, n \in 1 .. N : f[m] = f[n] => m = n
          /\ \A s \in S : \E n \in 1 .. N : f[n] = s
          /\ \A n \in 1 .. N : rows[n] = SelectedTo(axes, k - 1)[f[n]]
    BY DEF Lists
  <1>4. N * L \in Nat
    BY <1>2
  <1>5. \A n \in 1 .. N * L : InRow(n) \in 1 .. N /\ InPlace(n) \in 1 .. L
    <2> HIDE DEF N, L
    <2> QED BY <1>2, RowsAndPlaces
  <1>6. \A m, n \in 1 .. N * L : InRow(m) = InRow(n) /\ InPlace(m) = InPlace(n) => m = n
    <2> HIDE DEF N, L
    <2> QED BY <1>2, RowsAndPlaces
  <1>7. \A i \in 1 .. N, v \in 1 .. L : \E n \in 1 .. N * L : InRow(n) = i /\ InPlace(n) = v
    <2> HIDE DEF N, L
    <2> QED BY <1>2, RowsAndPlaces
  <1>8. wide = [n \in 1 .. N * L |->
                 Extended(rows[InRow(n)], Single(axes[k].key, axes[k].values[InPlace(n)]))]
    BY WidenedAs
  <1> HIDE DEF InRow, InPlace, N, L
  <1>9. Len(wide) = N * L /\ wide = [n \in 1 .. Len(wide) |-> wide[n]]
    <2>1. \A s : s = [n \in 1 .. N * L |-> s[n]] => Len(s) = N * L
      BY <1>4
    <2>2. wide = [n \in 1 .. N * L |-> wide[n]]
      BY <1>8
    <2> HIDE DEF wide
    <2> QED BY <2>1, <2>2
  <1> DEFINE g == [n \in 1 .. N * L |-> OneMore(f[InRow(n)], k, InPlace(n))]
  <1>10. \A n \in 1 .. N * L : f[InRow(n)] \in S /\ InPlace(n) \in DOMAIN axes[k].values
    BY <1>2, <1>3, <1>5
  <1>11. g \in [1 .. N * L -> SelectionsTo(axes, k)]
    <2>1. \A n \in 1 .. N * L : OneMore(f[InRow(n)], k, InPlace(n)) \in SelectionsTo(axes, k)
      BY <1>10, OneMoreAxis
    <2> QED BY <2>1
  <1>12. \A n \in 1 .. N * L : wide[n] = SelectedTo(axes, k)[g[n]]
    <2>1. ASSUME NEW n \in 1 .. N * L PROVE wide[n] = SelectedTo(axes, k)[g[n]]
      <3>1. wide[n] = Extended(rows[InRow(n)],
                               Single(axes[k].key, axes[k].values[InPlace(n)]))
        BY <1>8
      <3>2. rows[InRow(n)] = RowTo(axes, k - 1, f[InRow(n)])
        BY <1>3, <1>5, <1>10 DEF SelectedTo
      <3>3. wide[n] = RowTo(axes, k, OneMore(f[InRow(n)], k, InPlace(n)))
        BY <1>10, <3>1, <3>2, OneMoreAxis
      <3>4. g[n] = OneMore(f[InRow(n)], k, InPlace(n)) /\ g[n] \in SelectionsTo(axes, k)
        BY <1>11
      <3> QED BY <3>3, <3>4 DEF SelectedTo
    <2> QED BY <2>1
  <1>13. \A m, n \in 1 .. N * L : g[m] = g[n] => m = n
    <2>1. ASSUME NEW m \in 1 .. N * L, NEW n \in 1 .. N * L, g[m] = g[n] PROVE m = n
      <3>1. OneMore(f[InRow(m)], k, InPlace(m)) = OneMore(f[InRow(n)], k, InPlace(n))
        BY <2>1
      <3>2. InPlace(m) = InPlace(n)
        <4>1. OneMore(f[InRow(m)], k, InPlace(m))[k] = InPlace(m)
          BY <1>1 DEF OneMore, Axes
        <4>2. OneMore(f[InRow(n)], k, InPlace(n))[k] = InPlace(n)
          BY <1>1 DEF OneMore, Axes
        <4> QED BY <3>1, <4>1, <4>2
      <3>3. \A i \in 1 .. k - 1 : f[InRow(m)][i] = f[InRow(n)][i]
        <4>1. ASSUME NEW i \in 1 .. k - 1 PROVE f[InRow(m)][i] = f[InRow(n)][i]
          <5>1. i \in 1 .. k /\ i # k
            BY <1>1
          <5>2. OneMore(f[InRow(m)], k, InPlace(m))[i] = f[InRow(m)][i]
            BY <5>1 DEF OneMore
          <5>3. OneMore(f[InRow(n)], k, InPlace(n))[i] = f[InRow(n)][i]
            BY <5>1 DEF OneMore
          <5> QED BY <3>1, <5>2, <5>3
        <4> QED BY <4>1
      <3>4. f[InRow(m)] = [i \in 1 .. k - 1 |-> f[InRow(m)][i]]
            /\ f[InRow(n)] = [i \in 1 .. k - 1 |-> f[InRow(n)][i]]
        BY <1>10 DEF SelectionsTo
      <3>5. f[InRow(m)] = f[InRow(n)]
        BY ONLY <3>3, <3>4
      <3>6. InRow(m) = InRow(n)
        BY <1>3, <1>5, <3>5
      <3> QED BY <1>6, <3>2, <3>6
    <2> QED BY <2>1
  <1>14. \A s \in SelectionsTo(axes, k) : \E n \in 1 .. N * L : g[n] = s
    <2>1. ASSUME NEW s \in SelectionsTo(axes, k) PROVE \E n \in 1 .. N * L : g[n] = s
      <3> DEFINE t == [i \in 1 .. k - 1 |-> s[i]]
      <3>1. \A i \in 1 .. k - 1 : i \in 1 .. k
        BY <1>1
      <3>2. t \in S
        <4>1. \A i \in 1 .. k - 1 : t[i] = s[i]
          OBVIOUS
        <4>2. t \in [1 .. k - 1 -> UNION {DOMAIN axes[n].values : n \in DOMAIN axes}]
          BY <3>1 DEF SelectionsTo
        <4> HIDE DEF t
        <4> QED BY <3>1, <4>1, <4>2 DEF SelectionsTo
      <3>3. PICK i \in 1 .. N : f[i] = t
        BY <1>3, <3>2
      <3>4. s[k] \in 1 .. L
        BY <1>1, <1>2 DEF SelectionsTo
      <3>5. PICK n \in 1 .. N * L : InRow(n) = i /\ InPlace(n) = s[k]
        BY <1>7, <3>4
      <3>6. g[n] = OneMore(t, k, s[k])
        BY <3>3, <3>5
      <3>7. OneMore(t, k, s[k]) = s
        <4>1. s = [j \in 1 .. k |-> s[j]]
          BY DEF SelectionsTo
        <4>2. \A j \in 1 .. k : (IF j = k THEN s[k] ELSE t[j]) = s[j]
          <5>1. \A j \in 1 .. k : j = k \/ j \in 1 .. k - 1
            BY <1>1
          <5> QED BY <5>1
        <4> HIDE DEF t
        <4> QED BY <4>1, <4>2 DEF OneMore
      <3> QED BY <3>6, <3>7
    <2> QED BY <2>1
  <1> HIDE DEF g, wide
  <1>15. wide = [n \in 1 .. N * L |-> wide[n]]
    BY <1>9
  <1>16. Lists(wide, SelectionsTo(axes, k), SelectedTo(axes, k))
    BY ONLY <1>4, <1>9, <1>11, <1>12, <1>13, <1>14, <1>15, ListsBy
  <1> QED BY <1>16 DEF wide

\* No axis has one selection.
LEMMA NoAxisLists ==
    ASSUME NEW axes
    PROVE  Lists(<<[key \in {} |-> 0]>>, SelectionsTo(axes, 0), SelectedTo(axes, 0))
  <1> DEFINE rows == <<[key \in {} |-> 0]>>
             none == [n \in 1 .. 0 |-> 0]
             S == SelectionsTo(axes, 0)
  <1>1. 1 .. 0 = {}
    OBVIOUS
  <1>2. none \in S
    <2>1. none \in [1 .. 0 -> UNION {DOMAIN axes[n].values : n \in DOMAIN axes}]
      BY <1>1
    <2> HIDE DEF none
    <2> QED BY <1>1, <2>1 DEF SelectionsTo
  <1>3. \A s \in S : s = none
    BY <1>1 DEF SelectionsTo
  <1>4. SelectedTo(axes, 0)[none] = [key \in {} |-> 0]
    <2>1. KeysTo(axes, 0) = {}
      BY <1>1 DEF KeysTo
    <2>2. SelectedTo(axes, 0)[none] = RowTo(axes, 0, none)
      <3> HIDE DEF none
      <3> QED BY <1>2 DEF SelectedTo
    <2>3. RowTo(axes, 0, none) = [key \in {} |-> 0]
      <3> HIDE DEF none
      <3> QED BY <2>1 DEF RowTo
    <2> QED BY <2>2, <2>3
  <1> DEFINE one == 1
             f == [i \in 1 .. one |-> none]
  <1>5. f \in [1 .. one -> S]
    BY <1>2
  <1>6. \A i \in 1 .. one : i = one /\ f[i] = none
    OBVIOUS
  <1>7. one \in 1 .. one /\ one \in Nat
    OBVIOUS
  <1>8. Len(rows) = one /\ rows = [i \in 1 .. one |-> rows[i]] /\ rows[one] = [key \in {} |-> 0]
    OBVIOUS
  <1> HIDE DEF rows, none, f, one, S
  <1>9. \A i, j \in 1 .. one : f[i] = f[j] => i = j
    BY <1>6
  <1>10. \A s \in S : \E i \in 1 .. one : f[i] = s
    BY <1>3, <1>6, <1>7
  <1>11. \A i \in 1 .. one : rows[i] = SelectedTo(axes, 0)[f[i]]
    BY <1>4, <1>6, <1>8
  <1>12. Lists(rows, S, SelectedTo(axes, 0))
    BY ONLY <1>5, <1>7, <1>8, <1>9, <1>10, <1>11, ListsBy
  <1> QED BY <1>12 DEF rows, S

\* The combinations list the selections from all axes.
LEMMA CombinationsList ==
    ASSUME NEW axes, Axes(axes)
    PROVE  Lists(CombinationsOf(axes), SelectionsTo(axes, Len(axes)), SelectedTo(axes, Len(axes)))
  <1>1. Len(axes) \in Nat /\ axes \in Seq(Range(axes))
    BY DEF Axes
  <1>2. PICK f : Combines(f, axes) /\ CombinationsOf(axes) = f[Len(axes)]
    BY <1>1, CombinationsRuns
  <1> DEFINE T == {k \in 0 .. Len(axes) : Lists(f[k], SelectionsTo(axes, k), SelectedTo(axes, k))}
  <1>3. 0 \in T
    BY <1>1, <1>2, NoAxisLists DEF Combines
  <1>4. \A k \in 0 .. Len(axes) - 1 : k \in T => k + 1 \in T
    <2>1. ASSUME NEW k \in 0 .. Len(axes) - 1, k \in T PROVE k + 1 \in T
      <3>1. k + 1 \in 1 .. Len(axes) /\ k + 1 \in 0 .. Len(axes) /\ k + 1 - 1 = k
        BY <1>1
      <3>2. f[k + 1] = Widened(f[k], axes[k + 1])
        BY <1>2, <3>1 DEF Combines
      <3>3. Lists(f[k], SelectionsTo(axes, k + 1 - 1), SelectedTo(axes, k + 1 - 1))
        BY <2>1, <3>1
      <3>4. Lists(Widened(f[k], axes[k + 1]), SelectionsTo(axes, k + 1), SelectedTo(axes, k + 1))
        <4> DEFINE next == k + 1
        <4>1. next \in 1 .. Len(axes)
          BY <3>1
        <4>2. Lists(f[k], SelectionsTo(axes, next - 1), SelectedTo(axes, next - 1))
          BY <3>3
        <4> HIDE DEF next
        <4>3. Lists(Widened(f[k], axes[next]), SelectionsTo(axes, next), SelectedTo(axes, next))
          BY <4>1, <4>2, WidenedLists
        <4> QED BY <4>3 DEF next
      <3> QED BY <3>1, <3>2, <3>4
    <2> QED BY <2>1
  <1> HIDE DEF T
  <1>5. \A k \in 0 .. Len(axes) : k \in T
    BY ONLY <1>1, <1>3, <1>4, Stepwise
  <1>6. Len(axes) \in 0 .. Len(axes)
    BY <1>1
  <1> QED BY <1>2, <1>5, <1>6 DEF T

\* No rows.
LEMMA NoneListed ==
    ASSUME NEW row
    PROVE  Lists(<<>>, {}, row)
  <1> DEFINE g == [i \in 1 .. 0 |-> 0]
  <1>1. g \in [1 .. 0 -> {}] /\ 1 .. 0 = {}
    OBVIOUS
  <1>2. Len(<<>>) = 0 /\ <<>> = [i \in 1 .. 0 |-> <<>>[i]] /\ 0 \in Nat
    OBVIOUS
  <1> HIDE DEF g
  <1> QED BY <1>1, <1>2 DEF Lists

\* A row more for a selection more.
LEMMA OneMoreListed ==
    ASSUME NEW rows, NEW S, NEW row, NEW new, Lists(rows, S, row), new \notin S
    PROVE  Lists(Append(rows, row[new]), S \cup {new}, row)
  <1> DEFINE N == Len(rows)
             more == Append(rows, row[new])
  <1>1. N \in Nat /\ rows = [n \in 1 .. N |-> rows[n]]
    BY DEF Lists
  <1>2. PICK f \in [1 .. N -> S] :
          /\ \A m, n \in 1 .. N : f[m] = f[n] => m = n
          /\ \A s \in S : \E n \in 1 .. N : f[n] = s
          /\ \A n \in 1 .. N : rows[n] = row[f[n]]
    BY DEF Lists
  <1>3. /\ \A n \in 1 .. N + 1 : n = N + 1 \/ n \in 1 .. N
        /\ \A n \in 1 .. N : n \in 1 .. N + 1 /\ n # N + 1
        /\ N + 1 \in 1 .. N + 1 /\ N + 1 \in Nat
    BY <1>1
  <1>4. /\ Len(more) = N + 1 /\ more = [n \in 1 .. N + 1 |-> more[n]]
        /\ more[N + 1] = row[new] /\ \A n \in 1 .. N : more[n] = rows[n]
    <2>1. \A n \in 1 .. N : rows[n] \in Range(rows) /\ DOMAIN rows = 1 .. N
      BY <1>1 DEF Range
    <2>2. rows \in Seq(Range(rows) \cup {row[new]})
      BY <1>1, <2>1
    <2> QED BY <1>1, <2>2
  <1> DEFINE g == [n \in 1 .. N + 1 |-> IF n = N + 1 THEN new ELSE f[n]]
  <1>5. g \in [1 .. N + 1 -> S \cup {new}] /\ g[N + 1] = new /\ \A n \in 1 .. N : g[n] = f[n]
    BY <1>2, <1>3
  <1> HIDE DEF g, more, N
  <1>6. \A m, n \in 1 .. N + 1 : g[m] = g[n] => m = n
    BY <1>2, <1>3, <1>5
  <1>7. \A s \in S \cup {new} : \E n \in 1 .. N + 1 : g[n] = s
    BY <1>2, <1>3, <1>5
  <1>8. \A n \in 1 .. N + 1 : more[n] = row[g[n]]
    BY <1>2, <1>3, <1>4, <1>5
  <1>9. Lists(more, S \cup {new}, row)
    BY ONLY <1>3, <1>4, <1>5, <1>6, <1>7, <1>8, ListsBy
  <1> QED BY <1>9 DEF more

\* What remains lists the selections that are not excluded.
Left(S, row, x) == {s \in S : ~Excluded(row[s], x)}

LEMMA RemainingLists ==
    ASSUME NEW rows, NEW S, NEW row, NEW x, Lists(rows, S, row)
    PROVE  Lists(Remaining(rows, x), Left(S, row, x), row)
  <1> DEFINE N == Len(rows)
  <1>1. N \in Nat /\ rows \in Seq(Range(rows)) /\ DOMAIN rows = 1 .. N
    <2>1. N \in Nat /\ rows = [n \in 1 .. N |-> rows[n]]
      BY DEF Lists
    <2>2. \A n \in 1 .. N : rows[n] \in Range(rows)
      BY <2>1 DEF Range
    <2> QED BY <2>1, <2>2
  <1>2. PICK f \in [1 .. N -> S] :
          /\ \A m, n \in 1 .. N : f[m] = f[n] => m = n
          /\ \A s \in S : \E n \in 1 .. N : f[n] = s
          /\ \A n \in 1 .. N : rows[n] = row[f[n]]
    BY DEF Lists
  <1>3. PICK kept : Remains(kept, rows, x) /\ Remaining(rows, x) = kept[N]
    BY <1>1, RemainingRuns
  <1> DEFINE Sub(n) == {s \in Left(S, row, x) : \E i \in 1 .. n : f[i] = s}
             T == {n \in 0 .. N : Lists(kept[n], Sub(n), row)}
  <1>4. 0 \in T
    <2>1. kept[0] = <<>>
      BY <1>3 DEF Remains
    <2>2. Sub(0) = {}
      OBVIOUS
    <2>3. Lists(<<>>, {}, row)
      BY NoneListed
    <2>4. 0 \in 0 .. N
      BY <1>1
    <2>5. Lists(kept[0], Sub(0), row)
      <3> HIDE DEF Sub
      <3> QED BY ONLY <2>1, <2>2, <2>3
    <2> HIDE DEF Sub
    <2> QED BY <2>4, <2>5
  <1>5. \A k \in 0 .. N - 1 : k \in T => k + 1 \in T
    <2> HIDE DEF N
    <2>1. ASSUME NEW k \in 0 .. N - 1, k \in T PROVE k + 1 \in T
      <3>1. k + 1 \in 1 .. N /\ k + 1 \in 0 .. N /\ k + 1 - 1 = k
            /\ \A i \in 1 .. k + 1 : i = k + 1 \/ i \in 1 .. k
        BY <1>1
      <3>2. /\ \A i \in 1 .. k : i \in 1 .. k + 1 /\ i # k + 1 /\ i \in 1 .. N
            /\ k + 1 \in 1 .. k + 1
        BY <1>1
      <3> DEFINE new == f[k + 1]
      <3>3. rows[k + 1] = row[new] /\ new \in S
        BY <1>2, <3>1
      <3>4. kept[k + 1] = IF Excluded(rows[k + 1], x) THEN kept[k] ELSE Append(kept[k], rows[k + 1])
        BY <1>3, <3>1 DEF Remains, N
      <3>5. CASE Excluded(row[new], x)
        <4>1. kept[k + 1] = kept[k]
          BY <3>3, <3>4, <3>5
        <4>2. Sub(k + 1) = Sub(k)
          BY <3>1, <3>2, <3>5 DEF Left
        <4> HIDE DEF Sub
        <4> QED BY <2>1, <3>1, <4>1, <4>2
      <3>6. CASE ~Excluded(row[new], x)
        <4>1. kept[k + 1] = Append(kept[k], row[new])
          BY <3>3, <3>4, <3>6
        <4>2. Sub(k + 1) = Sub(k) \cup {new}
          BY <3>1, <3>2, <3>3, <3>6 DEF Left
        <4>3. new \notin Sub(k)
          BY <1>2, <3>1, <3>2
        <4>4. Lists(kept[k], Sub(k), row)
          BY <2>1
        <4> HIDE DEF Sub, new
        <4>5. Lists(Append(kept[k], row[new]), Sub(k) \cup {new}, row)
          BY <4>3, <4>4, OneMoreListed
        <4> QED BY <3>1, <4>1, <4>2, <4>5
      <3> QED BY <3>5, <3>6
    <2> QED BY <2>1
  <1> HIDE DEF T
  <1>6. \A k \in 0 .. N : k \in T
    BY ONLY <1>1, <1>4, <1>5, Stepwise
  <1>7. N \in T
    BY <1>1, <1>6
  <1>8. Sub(N) = Left(S, row, x)
    BY <1>2 DEF Left
  <1> HIDE DEF Sub
  <1> QED BY <1>3, <1>7, <1>8 DEF T

\* A matrix of the assumption.
IsMatrix(x) ==
    Axes(x.axes) /\ x.exclude \in Seq(Range(x.exclude)) /\ x.include \in Seq(Range(x.include))

ChosenRows(x) == [choice \in Selections(x.axes) |-> Chosen(x.axes, choice)]

LEMMA OriginalsList ==
    ASSUME NEW x, IsMatrix(x)
    PROVE  Lists(OriginalsOf(x), Combined(x), ChosenRows(x))
  <1> DEFINE axes == x.axes
             all == Len(axes)
  <1>1. Axes(axes) /\ all \in Nat /\ DOMAIN axes = 1 .. all
    BY DEF IsMatrix, Axes
  <1>2. CASE axes = <<>>
    <2>1. OriginalsOf(x) = <<>> /\ Combined(x) = {}
      BY <1>2 DEF OriginalsOf, Combined
    <2> QED BY ONLY <2>1, NoneListed
  <1>3. CASE axes # <<>>
    <2>1. SelectionsTo(axes, all) = Selections(axes)
      BY <1>1 DEF SelectionsTo, Selections
    <2>2. \A choice : RowTo(axes, all, choice) = Chosen(axes, choice)
      BY <1>1 DEF RowTo, Chosen, KeysTo, AxisAt
    <2>3. SelectedTo(axes, all) = ChosenRows(x)
      BY <2>1, <2>2 DEF SelectedTo, ChosenRows
    <2>4. Lists(CombinationsOf(axes), Selections(axes), ChosenRows(x))
      <3>1. Lists(CombinationsOf(axes), SelectionsTo(axes, all), SelectedTo(axes, all))
        <4> HIDE DEF axes
        <4> QED BY <1>1, CombinationsList
      <3> QED BY ONLY <2>1, <2>3, <3>1
    <2>5. Lists(Remaining(CombinationsOf(axes), x), Left(Selections(axes), ChosenRows(x), x),
                ChosenRows(x))
      BY ONLY <2>4, RemainingLists
    <2>6. Left(Selections(axes), ChosenRows(x), x) = Combined(x)
      BY <1>3 DEF Left, ChosenRows, Combined
    <2>7. OriginalsOf(x) = Remaining(CombinationsOf(axes), x)
      BY <1>3 DEF OriginalsOf
    <2> QED BY ONLY <2>5, <2>6, <2>7
  <1> QED BY <1>2, <1>3

\* What the first entries to include give a row, and those that fit none.
FittingTo(x, k, row) == {n \in 1 .. k : Fits(x.include[n], row)}
NamingTo(x, k, row, key) == {n \in FittingTo(x, k, row) : key \in DOMAIN x.include[n]}
GivenKeys(x, k, row) == DOMAIN row \cup UNION {DOMAIN x.include[n] : n \in FittingTo(x, k, row)}
GivenTo(x, k, row) == [key \in GivenKeys(x, k, row) |->
    IF key \in DOMAIN row THEN row[key] ELSE x.include[Max(NamingTo(x, k, row, key))][key]]
AloneTo(x, k) ==
    {n \in 1 .. k : \A choice \in Combined(x) : ~Fits(x.include[n], Chosen(x.axes, choice))}

LEMMA GivenNothing ==
    ASSUME NEW x, NEW row, row = [key \in DOMAIN row |-> row[key]]
    PROVE  GivenTo(x, 0, row) = row
  <1>1. FittingTo(x, 0, row) = {}
    BY DEF FittingTo
  <1>2. GivenKeys(x, 0, row) = DOMAIN row
    BY <1>1 DEF GivenKeys
  <1> QED BY <1>2 DEF GivenTo

\* An entry that does not fit gives nothing.
LEMMA GivenNoMore ==
    ASSUME NEW x, NEW k \in Nat \ {0}, NEW row, ~Fits(x.include[k], row)
    PROVE  GivenTo(x, k, row) = GivenTo(x, k - 1, row)
  <1>1. FittingTo(x, k, row) = FittingTo(x, k - 1, row)
    <2>1. \A n \in 1 .. k : n = k \/ n \in 1 .. k - 1
      OBVIOUS
    <2>2. \A n \in 1 .. k - 1 : n \in 1 .. k
      OBVIOUS
    <2> QED BY <2>1, <2>2 DEF FittingTo
  <1>2. GivenKeys(x, k, row) = GivenKeys(x, k - 1, row)
    BY <1>1 DEF GivenKeys
  <1>3. \A key : NamingTo(x, k, row, key) = NamingTo(x, k - 1, row, key)
    BY <1>1 DEF NamingTo
  <1> QED BY <1>2, <1>3 DEF GivenTo

\* One that fits extends what the earlier ones gave.
LEMMA GivenMore ==
    ASSUME NEW x, NEW k \in Nat \ {0}, NEW row, Fits(x.include[k], row)
    PROVE  GivenTo(x, k, row) = Extended(GivenTo(x, k - 1, row), x.include[k])
  <1> DEFINE entry == x.include[k]
             before == GivenTo(x, k - 1, row)
             after == GivenTo(x, k, row)
  <1>1. FittingTo(x, k, row) = FittingTo(x, k - 1, row) \cup {k}
    <2>1. \A n \in 1 .. k : n = k \/ n \in 1 .. k - 1
      OBVIOUS
    <2>2. k \in 1 .. k /\ \A n \in 1 .. k - 1 : n \in 1 .. k
      OBVIOUS
    <2> QED BY <2>1, <2>2 DEF FittingTo
  <1>2. GivenKeys(x, k, row) = GivenKeys(x, k - 1, row) \cup DOMAIN entry
    BY <1>1 DEF GivenKeys
  <1>3. DOMAIN before = GivenKeys(x, k - 1, row)
    BY DEF GivenTo
  <1>4. ASSUME NEW key \in GivenKeys(x, k, row) PROVE after[key] = Extended(before, entry)[key]
    <2>1. after[key] = IF key \in DOMAIN row THEN row[key]
                       ELSE x.include[Max(NamingTo(x, k, row, key))][key]
      BY DEF GivenTo
    <2>2. CASE key \in DOMAIN entry
      <3>1. Extended(before, entry)[key] = entry[key]
        <4> HIDE DEF before, entry
        <4> QED BY <1>2, <1>3, <2>2 DEF Extended
      <3>2. CASE key \in DOMAIN row
        BY <2>1, <2>2, <3>1, <3>2 DEF Fits
      <3>3. CASE key \notin DOMAIN row
        <4>1. k \in NamingTo(x, k, row, key) /\ \A n \in NamingTo(x, k, row, key) : k >= n /\ n \in Nat
          BY <1>1, <2>2 DEF NamingTo, FittingTo
        <4>2. Max(NamingTo(x, k, row, key)) = k
          BY <4>1 DEF Max
        <4> QED BY <2>1, <3>1, <3>3, <4>2
      <3> QED BY <3>2, <3>3
    <2>3. CASE key \notin DOMAIN entry
      <3>1. key \in GivenKeys(x, k - 1, row)
        BY <1>2, <2>3
      <3>2. Extended(before, entry)[key] = before[key]
        <4> HIDE DEF before, entry
        <4> QED BY <1>2, <1>3, <2>3, <3>1 DEF Extended
      <3>3. before[key] = IF key \in DOMAIN row THEN row[key]
                          ELSE x.include[Max(NamingTo(x, k - 1, row, key))][key]
        BY <3>1 DEF GivenTo
      <3>4. NamingTo(x, k, row, key) = NamingTo(x, k - 1, row, key)
        BY <1>1, <2>3 DEF NamingTo
      <3> QED BY <2>1, <3>2, <3>3, <3>4
    <2> QED BY <2>2, <2>3
  <1>5. after = [key \in GivenKeys(x, k, row) |-> after[key]]
    BY DEF GivenTo
  <1>6. Extended(before, entry) = [key \in GivenKeys(x, k, row) |-> Extended(before, entry)[key]]
    <2> HIDE DEF before, entry
    <2> QED BY <1>2, <1>3 DEF Extended
  <1> HIDE DEF before, after, entry
  <1>7. after = Extended(before, entry)
    BY <1>4, <1>5, <1>6
  <1> QED BY <1>7 DEF before, after, entry

\* All entries give what GitHub's definition says.
LEMMA GivenAll ==
    ASSUME NEW x, IsMatrix(x), NEW row
    PROVE  /\ GivenTo(x, Len(x.include), row) = Given(x, row)
           /\ AloneTo(x, Len(x.include)) = Alone(x)
  <1>1. DOMAIN x.include = 1 .. Len(x.include)
    BY DEF IsMatrix
  <1> DEFINE fitting == {n \in DOMAIN x.include : Fits(x.include[n], row)}
             added == (UNION {DOMAIN x.include[n] : n \in fitting}) \ DOMAIN row
  <1>2. fitting = FittingTo(x, Len(x.include), row)
    BY <1>1 DEF FittingTo
  <1>3. Given(x, row) = [key \in DOMAIN row \cup added |->
            IF key \in DOMAIN row THEN row[key]
            ELSE x.include[Max({n \in fitting : key \in DOMAIN x.include[n]})][key]]
    BY DEF Given
  <1> HIDE DEF fitting
  <1>4. DOMAIN row \cup added = GivenKeys(x, Len(x.include), row)
    <2> DEFINE named == UNION {DOMAIN x.include[n] : n \in fitting}
    <2>1. GivenKeys(x, Len(x.include), row) = DOMAIN row \cup named
      BY <1>2 DEF GivenKeys
    <2>2. added = named \ DOMAIN row
      OBVIOUS
    <2> HIDE DEF named, added
    <2> QED BY <2>1, <2>2
  <1>5. \A key : {n \in fitting : key \in DOMAIN x.include[n]}
                   = NamingTo(x, Len(x.include), row, key)
    BY <1>2 DEF NamingTo
  <1> HIDE DEF added
  <1>6. GivenTo(x, Len(x.include), row) = Given(x, row)
    BY <1>3, <1>4, <1>5 DEF GivenTo
  <1>7. AloneTo(x, Len(x.include)) = Alone(x)
    BY <1>1 DEF AloneTo, Alone
  <1> QED BY <1>6, <1>7

\* After the first entries: the originals with what those gave them, and a row
\* for each of those that fit none.
Progress(x, originals, k, rows) ==
    /\ rows = [n \in 1 .. Len(rows) |-> rows[n]]
    /\ Len(rows) = Len(originals) + Cardinality(AloneTo(x, k))
    /\ \A n \in 1 .. Len(originals) : rows[n] = GivenTo(x, k, originals[n])
    /\ \A n \in Len(originals) + 1 .. Len(rows) : \E e \in AloneTo(x, k) : rows[n] = x.include[e]
    /\ \A e \in AloneTo(x, k) : \E n \in Len(originals) + 1 .. Len(rows) : rows[n] = x.include[e]

LEMMA AloneFinite ==
    ASSUME NEW x, NEW k \in Nat
    PROVE  IsFiniteSet(AloneTo(x, k)) /\ Cardinality(AloneTo(x, k)) \in Nat
  <1>1. AloneTo(x, k) \subseteq 1 .. k /\ IsFiniteSet(1 .. k)
    BY FS_Interval DEF AloneTo
  <1>2. IsFiniteSet(AloneTo(x, k))
    BY <1>1, FS_Subset
  <1> QED BY <1>2, FS_CardinalityType

\* An entry fits an original if it fits the selection.
LEMMA FitsSome ==
    ASSUME NEW x, NEW originals, Lists(originals, Combined(x), ChosenRows(x)), NEW entry
    PROVE  (\E n \in 1 .. Len(originals) : Fits(entry, originals[n]))
             <=> (\E choice \in Combined(x) : Fits(entry, Chosen(x.axes, choice)))
  <1>1. \A choice \in Combined(x) : ChosenRows(x)[choice] = Chosen(x.axes, choice)
    <2>1. Combined(x) \subseteq Selections(x.axes)
      BY DEF Combined
    <2> QED BY <2>1 DEF ChosenRows
  <1>2. PICK f \in [1 .. Len(originals) -> Combined(x)] :
          /\ \A s \in Combined(x) : \E n \in 1 .. Len(originals) : f[n] = s
          /\ \A n \in 1 .. Len(originals) : originals[n] = ChosenRows(x)[f[n]]
    BY DEF Lists
  <1>3. \A n \in 1 .. Len(originals) : originals[n] = Chosen(x.axes, f[n])
    BY <1>1, <1>2
  <1> QED BY <1>2, <1>3

\* An entry that fits none is a row of its own.
LEMMA IncludeAlone ==
    ASSUME NEW x, NEW originals, Len(originals) \in Nat, NEW k \in Nat \ {0}, NEW rows,
           Progress(x, originals, k - 1, rows), k \in AloneTo(x, k),
           \A n \in 1 .. Len(originals) : ~Fits(x.include[k], originals[n])
    PROVE  Progress(x, originals, k, Append(rows, x.include[k]))
  <1> DEFINE N == Len(originals)
             L == Len(rows)
             entry == x.include[k]
             more == Append(rows, entry)
             A == AloneTo(x, k - 1)
             B == AloneTo(x, k)
  <1>1. IsFiniteSet(A) /\ Cardinality(A) \in Nat /\ k - 1 \in Nat
    BY AloneFinite
  <1>2. N \in Nat /\ L \in Nat /\ L >= N /\ rows = [n \in 1 .. L |-> rows[n]]
        /\ L = N + Cardinality(A)
    BY <1>1 DEF Progress
  <1>3. B = A \cup {k} /\ k \notin A
    <2>1. \A n \in 1 .. k : n = k \/ n \in 1 .. k - 1
      OBVIOUS
    <2>2. \A n \in 1 .. k - 1 : n \in 1 .. k /\ n # k
      OBVIOUS
    <2> QED BY <2>1, <2>2 DEF AloneTo
  <1>4. Cardinality(B) = Cardinality(A) + 1
    BY <1>1, <1>3, FS_AddElement
  <1>5. /\ Len(more) = L + 1 /\ more = [n \in 1 .. L + 1 |-> more[n]]
        /\ more[L + 1] = entry /\ \A n \in 1 .. L : more[n] = rows[n]
    <2>1. \A n \in 1 .. L : rows[n] \in Range(rows) /\ DOMAIN rows = 1 .. L
      BY <1>2 DEF Range
    <2>2. rows \in Seq(Range(rows) \cup {entry})
      BY <1>2, <2>1
    <2> QED BY <1>2, <2>2
  <1>6. \A n \in 1 .. N : more[n] = GivenTo(x, k, originals[n])
    <2>1. ASSUME NEW n \in 1 .. N PROVE more[n] = GivenTo(x, k, originals[n])
      <3>1. n \in 1 .. L
        BY <1>2
      <3>2. more[n] = GivenTo(x, k - 1, originals[n])
        <4> HIDE DEF more
        <4> QED BY <1>5, <3>1 DEF Progress
      <3> QED BY <3>2, GivenNoMore
    <2> QED BY <2>1
  <1>7. \A n \in N + 1 .. L + 1 : n = L + 1 \/ n \in N + 1 .. L
    BY <1>2
  <1>8. \A n \in N + 1 .. L : n \in 1 .. L /\ n \in N + 1 .. L + 1
    BY <1>2
  <1>9. L + 1 \in N + 1 .. L + 1
    BY <1>2
  <1>10. \A n \in N + 1 .. L : \E e \in A : rows[n] = x.include[e]
    BY DEF Progress
  <1>11. \A e \in A : \E n \in N + 1 .. L : rows[n] = x.include[e]
    BY DEF Progress
  <1> HIDE DEF more, A, B
  <1>12. \A n \in N + 1 .. L + 1 : \E e \in B : more[n] = x.include[e]
    BY <1>3, <1>5, <1>7, <1>8, <1>10
  <1>13. \A e \in B : \E n \in N + 1 .. L + 1 : more[n] = x.include[e]
    BY <1>3, <1>5, <1>8, <1>9, <1>11
  <1> HIDE DEF L
  <1>14. Len(more) = N + Cardinality(B)
    BY <1>1, <1>2, <1>4, <1>5
  <1>15. Progress(x, originals, k, more)
    BY <1>5, <1>6, <1>12, <1>13, <1>14 DEF Progress, B
  <1> QED BY <1>15 DEF more

\* Any other extends the rows that it fits.
ExtendedAt(rows, fitting, entry) ==
    [n \in DOMAIN rows |-> IF n \in fitting THEN Extended(rows[n], entry) ELSE rows[n]]

LEMMA IncludeFitting ==
    ASSUME NEW x, NEW originals, Len(originals) \in Nat, NEW k \in Nat \ {0}, NEW rows,
           Progress(x, originals, k - 1, rows), k \notin AloneTo(x, k), NEW fitting,
           fitting = {n \in 1 .. Len(originals) : Fits(x.include[k], originals[n])}
    PROVE  Progress(x, originals, k,
                    ExtendedAt(rows, fitting, x.include[k]))
  <1> DEFINE N == Len(originals)
             L == Len(rows)
             entry == x.include[k]
             more == ExtendedAt(rows, fitting, entry)
             A == AloneTo(x, k - 1)
  <1>1. IsFiniteSet(A) /\ Cardinality(A) \in Nat /\ k - 1 \in Nat
    BY AloneFinite
  <1>2. N \in Nat /\ L \in Nat /\ L >= N /\ rows = [n \in 1 .. L |-> rows[n]]
        /\ L = N + Cardinality(A)
    BY <1>1 DEF Progress
  <1>3. AloneTo(x, k) = A
    <2>1. \A n \in 1 .. k : n = k \/ n \in 1 .. k - 1
      OBVIOUS
    <2>2. \A n \in 1 .. k - 1 : n \in 1 .. k /\ n # k
      OBVIOUS
    <2> QED BY <2>1, <2>2 DEF AloneTo
  <1>4. more = [n \in 1 .. L |-> more[n]] /\ Len(more) = L
    <2>1. DOMAIN rows = 1 .. L
      BY <1>2
    <2>2. more = [n \in 1 .. L |-> more[n]]
      BY <2>1 DEF ExtendedAt
    <2>3. \A s : s = [n \in 1 .. L |-> s[n]] => Len(s) = L
      BY <1>2
    <2> HIDE DEF more
    <2> QED BY <2>2, <2>3
  <1>5. \A n \in 1 .. L : more[n] = IF n \in fitting THEN Extended(rows[n], entry) ELSE rows[n]
    BY <1>2 DEF ExtendedAt
  <1>6. \A n \in 1 .. N : more[n] = GivenTo(x, k, originals[n])
    <2>1. ASSUME NEW n \in 1 .. N PROVE more[n] = GivenTo(x, k, originals[n])
      <3>1. n \in 1 .. L
        BY <1>2
      <3>2. rows[n] = GivenTo(x, k - 1, originals[n])
        BY DEF Progress
      <3>3. more[n] = IF n \in fitting THEN Extended(rows[n], entry) ELSE rows[n]
        BY <1>5, <3>1
      <3> HIDE DEF more
      <3>4. CASE Fits(entry, originals[n])
        BY <3>2, <3>3, <3>4, GivenMore
      <3>5. CASE ~Fits(entry, originals[n])
        BY <3>2, <3>3, <3>5, GivenNoMore
      <3> QED BY <3>4, <3>5
    <2> QED BY <2>1
  <1>7. \A n \in N + 1 .. L : n \in 1 .. L /\ n \notin fitting
    BY <1>2
  <1>8. \A n \in N + 1 .. L : more[n] = rows[n]
    <2> HIDE DEF more
    <2> QED BY <1>5, <1>7
  <1>9. \A n \in N + 1 .. L : \E e \in A : rows[n] = x.include[e]
    BY DEF Progress
  <1>10. \A e \in A : \E n \in N + 1 .. L : rows[n] = x.include[e]
    BY DEF Progress
  <1>11. \A n \in N + 1 .. L : \E e \in A : more[n] = x.include[e]
    <2> HIDE DEF more, L, A
    <2> QED BY ONLY <1>8, <1>9
  <1>12. \A e \in A : \E n \in N + 1 .. L : more[n] = x.include[e]
    <2> HIDE DEF more, L, A
    <2> QED BY ONLY <1>8, <1>10
  <1> HIDE DEF more, L, A
  <1>13. Len(more) = N + Cardinality(AloneTo(x, k)) /\ Len(more) = L
    BY ONLY <1>2, <1>3, <1>4
  <1>14. /\ more = [n \in 1 .. Len(more) |-> more[n]]
         /\ \A n \in N + 1 .. Len(more) : \E e \in AloneTo(x, k) : more[n] = x.include[e]
         /\ \A e \in AloneTo(x, k) : \E n \in N + 1 .. Len(more) : more[n] = x.include[e]
    BY ONLY <1>3, <1>4, <1>11, <1>12
  <1>15. Progress(x, originals, k, more)
    BY ONLY <1>6, <1>13, <1>14 DEF Progress
  <1> QED BY <1>15 DEF more

\* So the rows that include leaves are those of the definition.
LEMMA IncludedProgress ==
    ASSUME NEW x, IsMatrix(x), NEW originals, Lists(originals, Combined(x), ChosenRows(x))
    PROVE  Progress(x, originals, Len(x.include), IncludedIn(x, originals))
  <1> DEFINE K == Len(x.include)
             N == Len(originals)
  <1>1. K \in Nat /\ x.include \in Seq(Range(x.include))
    BY DEF IsMatrix
  <1>2. N \in Nat /\ originals = [n \in 1 .. N |-> originals[n]] /\ DOMAIN originals = 1 .. N
    BY DEF Lists
  <1>3. PICK f : Includes(f, x, originals) /\ IncludedIn(x, originals) = f[K]
    BY <1>1, IncludedRuns
  <1> DEFINE T == {k \in 0 .. K : Progress(x, originals, k, f[k])}
  <1>4. 0 \in T
    <2>1. f[0] = originals
      BY <1>3 DEF Includes
    <2>2. AloneTo(x, 0) = {} /\ Cardinality({}) = 0
      BY FS_EmptySet DEF AloneTo
    <2>3. \A n \in 1 .. N : originals[n] = GivenTo(x, 0, originals[n])
      <3>1. ASSUME NEW n \in 1 .. N PROVE originals[n] = GivenTo(x, 0, originals[n])
        <4>1. PICK choice \in Combined(x) : originals[n] = ChosenRows(x)[choice]
          BY DEF Lists
        <4>2. choice \in Selections(x.axes)
          BY DEF Combined
        <4>3. originals[n] = Chosen(x.axes, choice)
          BY <4>1, <4>2 DEF ChosenRows
        <4>4. originals[n] = [key \in DOMAIN originals[n] |-> originals[n][key]]
          BY <4>3 DEF Chosen
        <4> QED BY <4>4, GivenNothing
      <3> QED BY <3>1
    <2>4. N + 1 .. N = {}
      BY <1>2
    <2>5. N = N + 0
      BY <1>2
    <2>6. Progress(x, originals, 0, originals)
      BY <1>2, <2>2, <2>3, <2>4, <2>5 DEF Progress
    <2> QED BY <1>1, <2>1, <2>6
  <1>5. \A k \in 0 .. K - 1 : k \in T => k + 1 \in T
    <2>1. ASSUME NEW k \in 0 .. K - 1, k \in T PROVE k + 1 \in T
      <3> DEFINE next == k + 1
                 entry == x.include[next]
                 fitting == {n \in 1 .. N : Fits(entry, originals[n])}
      <3>1. next \in 1 .. K /\ next \in 0 .. K /\ next \in Nat \ {0} /\ next - 1 = k
            /\ next \in 1 .. next
        BY <1>1
      <3>2. f[next] = Include(f[k], originals, entry)
        BY <1>3, <3>1 DEF Includes
      <3>3. Progress(x, originals, next - 1, f[k])
        BY <2>1, <3>1
      <3>4. {n \in DOMAIN originals : Agrees(originals[n], entry)} = fitting
        BY <1>2 DEF Agrees, Fits
      <3>5. fitting = {} <=> next \in AloneTo(x, next)
        <4>1. (\E n \in 1 .. N : Fits(entry, originals[n]))
                <=> (\E choice \in Combined(x) : Fits(entry, Chosen(x.axes, choice)))
          <5> HIDE DEF entry
          <5> QED BY FitsSome
        <4> HIDE DEF next
        <4> QED BY <3>1, <4>1 DEF AloneTo
      <3> HIDE DEF next
      <3>6. CASE fitting = {}
        <4>1. f[next] = Append(f[k], entry)
          BY <3>2, <3>4, <3>6 DEF Include
        <4>2. \A n \in 1 .. N : ~Fits(entry, originals[n])
          BY <3>6
        <4>3. Progress(x, originals, next, Append(f[k], entry))
          BY <1>2, <3>1, <3>3, <3>5, <3>6, <4>2, IncludeAlone
        <4> QED BY <3>1, <4>1, <4>3 DEF next
      <3>7. CASE fitting # {}
        <4>1. f[next] = ExtendedAt(f[k], fitting, entry)
          BY <3>2, <3>4, <3>7 DEF Include, ExtendedAt
        <4>2. Progress(x, originals, next, ExtendedAt(f[k], fitting, entry))
          BY <1>2, <3>1, <3>3, <3>5, <3>7, IncludeFitting
        <4>3. Progress(x, originals, next, f[next])
          BY ONLY <4>1, <4>2
        <4> QED BY <3>1, <4>3 DEF next
      <3> QED BY <3>6, <3>7
    <2> QED BY <2>1
  <1> HIDE DEF T, K
  <1>6. \A k \in 0 .. K : k \in T
    BY ONLY <1>1, <1>4, <1>5, Stepwise
  <1>7. K \in T
    BY <1>1, <1>6
  <1> QED BY <1>3, <1>7 DEF T, K

\* A matrix expands as GitHub defines it.
LEMMA RowsOfMatrix ==
    ASSUME NEW x, IsMatrix(x)
    PROVE  LET rows == IncludedIn(x, OriginalsOf(x))
           IN  /\ Len(rows) = Cardinality(Combined(x)) + Cardinality(Alone(x))
               /\ Range(rows) = {Given(x, Chosen(x.axes, choice)) : choice \in Combined(x)}
                                  \cup {x.include[n] : n \in Alone(x)}
  <1> DEFINE O == OriginalsOf(x)
             N == Len(O)
             rows == IncludedIn(x, O)
             L == Len(rows)
             K == Len(x.include)
             given == {Given(x, Chosen(x.axes, choice)) : choice \in Combined(x)}
             own == {x.include[n] : n \in Alone(x)}
  <1>1. Lists(O, Combined(x), ChosenRows(x))
    BY OriginalsList
  <1>2. Progress(x, O, K, rows)
    <2> HIDE DEF O
    <2> QED BY <1>1, IncludedProgress
  <1>3. PICK f \in [1 .. N -> Combined(x)] :
          /\ \A m, n \in 1 .. N : f[m] = f[n] => m = n
          /\ \A s \in Combined(x) : \E n \in 1 .. N : f[n] = s
          /\ \A n \in 1 .. N : O[n] = ChosenRows(x)[f[n]]
    BY <1>1 DEF Lists
  <1>4. N \in Nat
    BY <1>1 DEF Lists
  <1>5. Cardinality(Combined(x)) = N
    <2>1. f \in Bijection(1 .. N, Combined(x))
      <3>1. IsInjective(f)
        <4>1. DOMAIN f = 1 .. N
          BY <1>3
        <4> QED BY <1>3, <4>1 DEF IsInjective
      <3> QED BY <1>3, <3>1 DEF Bijection, Injection, Surjection
    <2>2. ExistsBijection(1 .. N, Combined(x))
      BY <2>1 DEF ExistsBijection
    <2> HIDE DEF N
    <2> QED BY <1>4, <2>2, FS_CountingElements
  <1>6. \A n \in 1 .. N : f[n] \in Combined(x) /\ O[n] = Chosen(x.axes, f[n])
    <2>1. Combined(x) \subseteq Selections(x.axes)
      BY DEF Combined
    <2> QED BY <1>3, <2>1 DEF ChosenRows
  <1>7. AloneTo(x, K) = Alone(x) /\ \A row : GivenTo(x, K, row) = Given(x, row)
    BY GivenAll
  <1>8. L = Cardinality(Combined(x)) + Cardinality(Alone(x))
    BY <1>2, <1>5, <1>7 DEF Progress
  <1>9. K \in Nat
    BY DEF IsMatrix
  <1>10. Cardinality(Alone(x)) \in Nat
    BY <1>7, <1>9, AloneFinite
  <1>11. L \in Nat /\ N <= L
    BY <1>4, <1>5, <1>8, <1>10
  <1>12. DOMAIN rows = 1 .. L
    BY <1>2 DEF Progress
  <1> HIDE DEF O, N, L, rows
  <1>13. \A n \in 1 .. N : rows[n] = Given(x, Chosen(x.axes, f[n])) /\ n \in 1 .. L
    BY <1>2, <1>4, <1>6, <1>7, <1>11 DEF Progress, N
  <1>14. \A n \in 1 .. L : n \in 1 .. N \/ n \in N + 1 .. L
    BY <1>4, <1>11
  <1>15. \A n \in N + 1 .. L : n \in 1 .. L
    BY <1>4, <1>11
  <1>16. \A n \in N + 1 .. L : \E e \in Alone(x) : rows[n] = x.include[e]
    BY <1>2, <1>7 DEF Progress, N, L
  <1>17. \A e \in Alone(x) : \E n \in N + 1 .. L : rows[n] = x.include[e]
    BY <1>2, <1>7 DEF Progress, N, L
  <1>18. \A row \in Range(rows) : row \in given \cup own
    BY <1>6, <1>12, <1>13, <1>14, <1>16 DEF Range
  <1>19. \A row \in given : row \in Range(rows)
    BY <1>3, <1>12, <1>13 DEF Range
  <1>20. \A row \in own : row \in Range(rows)
    BY <1>12, <1>15, <1>17 DEF Range
  <1>21. Range(rows) = given \cup own
    <2> HIDE DEF given, own
    <2> QED BY <1>18, <1>19, <1>20
  <1> QED BY <1>8, <1>21 DEF rows, L, O

\* For any axes, exclusions and inclusions: the rows of a matrix are those of
\* GitHub's definition, each once, and it is refused exactly if they are too many.
THEOREM MatrixFollows == MatrixInit => MatrixFollowsDefinition
  <1> SUFFICES ASSUME MatrixInit PROVE MatrixFollowsDefinition
    OBVIOUS
  <1>1. IsMatrix(matrix)
    BY MatricesAssumption DEF MatrixInit, IsMatrix, Axes
  <1> DEFINE rows == IncludedIn(matrix, OriginalsOf(matrix))
             total == Cardinality(Combined(matrix)) + Cardinality(Alone(matrix))
  <1>2. /\ Len(rows) = total
        /\ Range(rows) = {Given(matrix, Chosen(matrix.axes, choice)) : choice \in Combined(matrix)}
                           \cup {matrix.include[n] : n \in Alone(matrix)}
    BY <1>1, RowsOfMatrix
  <1>3. MatrixRows(matrix) = IF Len(rows) > MaxRows THEN TooMany ELSE rows
    BY DEF MatrixRows
  <1> HIDE DEF rows, total
  <1>4. CASE total > MaxRows
    BY <1>2, <1>3, <1>4 DEF MatrixFollowsDefinition, total
  <1>5. CASE ~(total > MaxRows)
    <2>1. MatrixRows(matrix) = rows
      BY <1>2, <1>3, <1>5
    <2> QED BY <1>2, <1>5, <2>1 DEF MatrixFollowsDefinition, total
  <1> QED BY <1>4, <1>5

=============================================================================
