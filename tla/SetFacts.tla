------------------------------ MODULE SetFacts ------------------------------
(***************************************************************************)
(* What the proofs about lists and counters use of finite sets, one formula*)
(* per fact.  The lemmas of a proof module assume SetFacts; at its end,    *)
(* where it instantiates FiniteSetTheorems, the module proves SetFacts and *)
(* with it its theorems.  The prover looks at every fact in scope for each *)
(* step, so that extending FiniteSetTheorems would more than double its    *)
(* work.                                                                   *)
(***************************************************************************)
EXTENDS Integers, Sequences, FiniteSets

CardinalityIsNatural == \A S : IsFiniteSet(S) => Cardinality(S) \in Nat

EmptySetCounts == IsFiniteSet({}) /\ Cardinality({}) = 0

SubsetsCount ==
    \A S, T : IsFiniteSet(S) /\ T \subseteq S =>
       /\ IsFiniteSet(T) /\ Cardinality(T) <= Cardinality(S)
       /\ Cardinality(T) = Cardinality(S) => T = S

AddingCounts ==
    \A S, x : IsFiniteSet(S) /\ x \notin S =>
       IsFiniteSet(S \cup {x}) /\ Cardinality(S \cup {x}) = Cardinality(S) + 1

RemovingCounts ==
    \A S, x : IsFiniteSet(S) /\ x \in S =>
       IsFiniteSet(S \ {x}) /\ Cardinality(S \ {x}) = Cardinality(S) - 1

UnionsCount ==
    \A S, T : IsFiniteSet(S) /\ IsFiniteSet(T) /\ S \cap T = {} =>
       IsFiniteSet(S \cup T) /\ Cardinality(S \cup T) = Cardinality(S) + Cardinality(T)

IntervalsCount ==
    \A m \in Nat : /\ IsFiniteSet(1 .. m) /\ Cardinality(1 .. m) = m
                   /\ IsFiniteSet(0 .. m - 1) /\ Cardinality(0 .. m - 1) = m

\* f is one-to-one, and covers T when the two sets have as many elements.
InjectionsCount ==
    \A S, T : \A f \in [S -> T] :
       IsFiniteSet(T) /\ (\A s, t \in S : f[s] = f[t] => s = t) =>
          /\ IsFiniteSet(S) /\ Cardinality(S) <= Cardinality(T)
          /\ Cardinality(S) = Cardinality(T) <=> \A t \in T : \E s \in S : f[s] = t

\* The facts on counting alone, and all of them.
CountingFacts ==
    /\ CardinalityIsNatural /\ EmptySetCounts /\ SubsetsCount
    /\ AddingCounts /\ RemovingCounts

SetFacts ==
    /\ CardinalityIsNatural /\ EmptySetCounts /\ SubsetsCount /\ AddingCounts
    /\ RemovingCounts /\ UnionsCount /\ IntervalsCount /\ InjectionsCount

\* The definitions of FiniteSets.  To the prover the operators of an instance are
\* others than those of FiniteSets itself; they agree because both mean these.
Enumerable(S) == \E list \in Seq(S) : \A s \in S : \E n \in 1 .. Len(list) : list[n] = s
CountOf(S) == LET count[T \in SUBSET S] ==
                      IF T = {} THEN 0 ELSE 1 + count[T \ {CHOOSE x : x \in T}]
              IN  count[S]
=============================================================================
