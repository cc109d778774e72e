-------------------------- MODULE LinkedListProofs --------------------------
(***************************************************************************)
(* What walks along linked lists visit, and how it changes when a node is  *)
(* unlinked, relinked or appended.  N is the array of nodes, without NULL. *)
(***************************************************************************)
EXTENDS LinkedList, Naturals, WellFoundedInduction, TLAPS

\* A non-empty set of numbers has a least one: induction along the natural
\* numbers, in a form the provers can instantiate.
LEMMA LeastNumber ==
    ASSUME NEW T \in SUBSET Nat, T # {}
    PROVE  \E x \in T : \A y \in T : x <= y
<1> DEFINE R == {p \in Nat \X Nat : p[1] < p[2]}
<1>1. IsWellFoundedOn(R, Nat)
  BY NatLessThanWellFounded DEF OpToRel
<1>2. \A x, y \in Nat : y < x => <<y, x>> \in R
  OBVIOUS
<1> HIDE DEF R
<1>3. PICK x \in T : \A y \in T : ~(<<y, x>> \in R)
  BY <1>1, WFMin, Zenon
<1>4. ASSUME NEW y \in T PROVE x <= y
  <2>1. x \in Nat /\ y \in Nat
    OBVIOUS
  <2>2. ~(y < x)
    BY <1>2, <1>3, <2>1, Zenon
  <2> QED BY <2>1, <2>2
<1> QED BY <1>4

\* A set that holds n and, with a positive number, the one below it holds all
\* numbers up to n.
LEMMA Downward ==
    ASSUME NEW n \in Nat, NEW S, n \in S,
           \A k \in S : k \in 2..n => k - 1 \in S
    PROVE  1..n \subseteq S
<1> SUFFICES ASSUME NEW m \in 1..n, m \notin S PROVE FALSE
  OBVIOUS
<1> DEFINE T == {k \in Nat : n - k \in 1..n /\ n - k \notin S}
<1>1. T \in SUBSET Nat /\ n - m \in T
  OBVIOUS
<1> HIDE DEF T
<1>2. PICK k \in T : \A y \in T : k <= y
  BY <1>1, LeastNumber
<1>3. k \in Nat /\ n - k \in 1..n /\ n - k \notin S
  BY DEF T
<1>4. k # 0
  BY <1>3
<1>5. k - 1 \notin T
  BY <1>2, <1>3, <1>4
<1>6. n - (k - 1) \in S
  BY <1>3, <1>4, <1>5 DEF T
<1> QED BY <1>3, <1>4, <1>6

\* A walk stays in the array, visits its first node, and is closed.
LEMMA ReachClosed ==
    ASSUME NEW N, 0 \notin N, NEW f \in [N -> N \cup {0}], NEW h \in N \cup {0}
    PROVE  /\ Reach(f, h) \subseteq N
           /\ h \in Reach(f, h) \cup {0}
           /\ Closed(f, Reach(f, h))
<1>1. Reach(f, h) \subseteq N
  BY DEF Reach
<1>2. h \in Reach(f, h) \cup {0}
  BY DEF Reach
<1>3. ASSUME NEW n \in Reach(f, h) PROVE f[n] \in Reach(f, h) \cup {0}
  <2>1. n \in N /\ f[n] \in N \cup {0}
    BY <1>1
  <2>2. ASSUME NEW S \in SUBSET N, Closed(f, S), h \in S \cup {0}, f[n] # 0
        PROVE  f[n] \in S
    <3>1. n \in S
      BY <2>2 DEF Reach
    <3> QED BY <3>1, <2>2 DEF Closed
  <2> QED BY <2>1, <2>2 DEF Reach
<1> QED BY <1>1, <1>2, <1>3 DEF Closed

\* Induction along a list: a closed set with the first node has all of it.
LEMMA ReachLeast ==
    ASSUME NEW N, NEW f \in [N -> N \cup {0}], NEW h,
           NEW S, Closed(f, S \cap N), h \in S \cup {0}, h \in N \cup {0}
    PROVE  Reach(f, h) \subseteq S
<1>1. S \cap N \in SUBSET DOMAIN f /\ h \in (S \cap N) \cup {0}
  OBVIOUS
<1> QED BY <1>1 DEF Reach

\* The empty list.
LEMMA ReachNull ==
    ASSUME NEW N, 0 \notin N, NEW f \in [N -> N \cup {0}]
    PROVE  Reach(f, 0) = {}
<1>1. Closed(f, {} \cap N)
  BY DEF Closed
<1> QED BY <1>1, ReachLeast

\* A list is its first node and the list behind it.
LEMMA ReachUnfold ==
    ASSUME NEW N, 0 \notin N, NEW f \in [N -> N \cup {0}], NEW h \in N
    PROVE  Reach(f, h) = {h} \cup Reach(f, f[h])
<1> DEFINE T == {h} \cup Reach(f, f[h])
<1>1. f[h] \in N \cup {0}
  OBVIOUS
<1>2. /\ Reach(f, f[h]) \subseteq N /\ f[h] \in Reach(f, f[h]) \cup {0}
      /\ Closed(f, Reach(f, f[h]))
  BY <1>1, ReachClosed
<1>3. Closed(f, T \cap N)
  BY <1>2 DEF Closed
<1>4. Reach(f, h) \subseteq T
  <2> HIDE DEF T
  <2>1. h \in T
    BY DEF T
  <2> QED BY <1>3, <2>1, ReachLeast
<1>5. Reach(f, h) \subseteq N /\ h \in Reach(f, h) /\ Closed(f, Reach(f, h))
  BY ReachClosed
<1>6. Closed(f, Reach(f, h) \cap N) /\ f[h] \in Reach(f, h) \cup {0}
  BY <1>5 DEF Closed
<1>7. Reach(f, f[h]) \subseteq Reach(f, h)
  BY <1>1, <1>6, ReachLeast
<1> QED BY <1>4, <1>5, <1>7

\* What is behind a node of a list is on the list.
LEMMA ReachTransitive ==
    ASSUME NEW N, 0 \notin N, NEW f \in [N -> N \cup {0}], NEW h \in N \cup {0},
           NEW n \in Reach(f, h)
    PROVE  Reach(f, n) \subseteq Reach(f, h)
<1>1. Reach(f, h) \subseteq N /\ Closed(f, Reach(f, h))
  BY ReachClosed
<1>2. Closed(f, Reach(f, h) \cap N) /\ n \in N
  BY <1>1 DEF Closed
<1> QED BY <1>2, ReachLeast

\* A store into a node that is not on a list does not change the list.
LEMMA ReachFrame ==
    ASSUME NEW N, 0 \notin N, NEW f \in [N -> N \cup {0}], NEW h \in N \cup {0},
           NEW g \in [N -> N \cup {0}],
           \A n \in Reach(f, h) : g[n] = f[n]
    PROVE  Reach(g, h) = Reach(f, h)
<1>1. /\ Reach(f, h) \subseteq N /\ h \in Reach(f, h) \cup {0}
      /\ Closed(f, Reach(f, h))
  BY ReachClosed
<1>2. Closed(g, Reach(f, h) \cap N)
  BY <1>1 DEF Closed
<1>3. Reach(g, h) \subseteq Reach(f, h)
  BY <1>1, <1>2, ReachLeast
<1>4. /\ Reach(g, h) \subseteq N /\ h \in Reach(g, h) \cup {0}
      /\ Closed(g, Reach(g, h))
  BY ReachClosed
<1>5. Closed(f, Reach(g, h) \cap N)
  BY <1>3, <1>4 DEF Closed
<1>6. Reach(f, h) \subseteq Reach(g, h)
  BY <1>4, <1>5, ReachLeast
<1> QED BY <1>3, <1>6

\* A node appended behind the last one is all that a list gains.
LEMMA ReachAppend ==
    ASSUME NEW N, 0 \notin N, NEW f \in [N -> N \cup {0}], NEW h \in N,
           NEW t \in Reach(f, h), f[t] = 0,
           NEW n \in N, n \notin Reach(f, h),
           NEW g \in [N -> N \cup {0}], g[n] = 0, g[t] = n,
           \A m \in Reach(f, h) : m # t => g[m] = f[m]
    PROVE  Reach(g, h) = Reach(f, h) \cup {n}
<1> DEFINE T == Reach(f, h) \cup {n}
<1>1. Reach(f, h) \subseteq N /\ h \in Reach(f, h) /\ Closed(f, Reach(f, h))
  BY ReachClosed
<1>2. Closed(g, T \cap N) /\ h \in T
  BY <1>1 DEF Closed
<1>3. Reach(g, h) \subseteq T
  <2> HIDE DEF T
  <2> QED BY <1>2, ReachLeast
<1>4. Reach(g, h) \subseteq N /\ h \in Reach(g, h) /\ Closed(g, Reach(g, h))
  BY ReachClosed
<1>5. Closed(f, (Reach(g, h) \ {n}) \cap N) /\ h \in Reach(g, h) \ {n}
  BY <1>1, <1>3, <1>4 DEF Closed
<1>6. Reach(f, h) \subseteq Reach(g, h)
  BY <1>5, ReachLeast
<1>7. n \in Reach(g, h)
  BY <1>4, <1>6 DEF Closed
<1> QED BY <1>3, <1>6, <1>7
=============================================================================
