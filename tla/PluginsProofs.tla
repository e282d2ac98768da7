------------------------------ MODULE PluginsProofs ------------------------------
(***************************************************************************)
(* Proofs about the plugin registry: what lists of specs, and chains in    *)
(* them, make.  The flattening of a list of lists is a recursive function; *)
(* its equation is shown first, and what it computes by the least length   *)
(* at which it would be otherwise.                                         *)
(***************************************************************************)
EXTENDS Plugins, SequenceTheorems, FiniteSetTheorems, WellFoundedInduction, TLAPS

--------------------------------------------------------------------------------
(* Sequences of sequences.                                                   *)

\* A sequence of any values.
IsSeq(s) == s \in Seq(ToSet(s))

\* A set of numbers has a smallest one.
LEMMA LeastNumber ==
  ASSUME NEW S \in SUBSET Nat, S # {}
  PROVE  \E x \in S : \A y \in S : x <= y
<1> DEFINE R == {p \in Nat \X Nat : p[1] < p[2]}
<1>1. IsWellFoundedOn(R, Nat)
  BY NatLessThanWellFounded DEF OpToRel
<1>2. PICK x \in S : \A y \in S : <<y, x>> \notin R
  <2> HIDE DEF R
  <2> QED BY <1>1, WFMin
<1>3. ASSUME NEW y \in S
      PROVE  x <= y
  <2>1. x \in Nat /\ y \in Nat
    OBVIOUS
  <2>2. y < x => <<y, x>> \in R
    BY <2>1
  <2> QED BY <1>2, <2>1, <2>2
<1> QED BY <1>3

\* A set of indices has a first one.
LEMMA MinIsMember ==
  ASSUME NEW S \in SUBSET Nat, S # {}
  PROVE  Min(S) \in S
BY LeastNumber DEF Min

\* What is in S for no places, and for one place more whenever it is, is there for
\* all: induction on a set.
LEMMA EveryNumber ==
  ASSUME NEW n \in Nat, NEW S, 0 \in S, \A m \in 0..(n - 1) : m \in S => m + 1 \in S
  PROVE  \A m \in 0..n : m \in S
<1> DEFINE missing == {m \in 0..n : m \notin S}
<1> SUFFICES ASSUME missing # {} PROVE FALSE
  OBVIOUS
<1>1. PICK m \in missing : \A k \in missing : m <= k
  <2>1. missing \in SUBSET Nat
    OBVIOUS
  <2> HIDE DEF missing
  <2> QED BY <2>1, LeastNumber
<1>2. m \in 1..n /\ m - 1 \in 0..(n - 1) /\ m - 1 \in 0..n /\ (m - 1) + 1 = m /\ m \notin S
  BY <1>1
<1>3. m - 1 \in S
  BY <1>1, <1>2
<1> QED BY <1>2, <1>3

\* A sequence of any values is one of its own values.
LEMMA OwnValues ==
  ASSUME NEW S, NEW s \in Seq(S)
  PROVE  IsSeq(s) /\ \A T : ToSet(s) \subseteq T => s \in Seq(T)
<1>1. s = [i \in 1..Len(s) |-> s[i]] /\ DOMAIN s = 1..Len(s) /\ Len(s) \in Nat
  OBVIOUS
<1>2. \A i \in 1..Len(s) : s[i] \in ToSet(s)
  BY <1>1 DEF ToSet
<1>3. ASSUME NEW T, ToSet(s) \subseteq T
      PROVE  s \in Seq(T)
  <2>1. s \in [1..Len(s) -> T]
    BY <1>1, <1>2, <1>3
  <2> QED BY <1>1, <2>1
<1> QED BY <1>3 DEF IsSeq

\* The function by which FlattenSeq is defined, for the first n.
Flattens(f, seqs, n) ==
  f = [i \in 1..n |-> IF i = 1 THEN seqs[i] ELSE f[i - 1] \o seqs[i]]

\* It exists.
LEMMA FlattenExists ==
  ASSUME NEW seqs, NEW n \in Nat
  PROVE  \E f : Flattens(f, seqs, n)
<1> DEFINE S == {m \in Nat : \E f : Flattens(f, seqs, m)}
<1>1. 0 \in S
  <2>1. Flattens([i \in 1..0 |-> <<>>], seqs, 0)
    BY DEF Flattens
  <2> QED BY <2>1
<1>2. ASSUME NEW m \in 0..(n - 1), m \in S
      PROVE  m + 1 \in S
  <2>1. PICK f : Flattens(f, seqs, m)
    BY <1>2
  <2> DEFINE g == [i \in 1..(m + 1) |-> IF i = m + 1 THEN IF i = 1 THEN seqs[i] ELSE f[i - 1] \o seqs[i]
                                                    ELSE f[i]]
             h == [i \in 1..(m + 1) |-> IF i = 1 THEN seqs[i] ELSE g[i - 1] \o seqs[i]]
  <2>2. ASSUME NEW i \in 1..(m + 1)
        PROVE  g[i] = h[i]
    <3>1. CASE i = m + 1
      <4>1. i # 1 => i - 1 \in 1..(m + 1) /\ i - 1 # m + 1
        BY <3>1
      <4> QED BY <3>1, <4>1
    <3>2. CASE i # m + 1
      <4>1. i \in 1..m
        BY <3>2
      <4>2. i # 1 => i - 1 \in 1..(m + 1) /\ i - 1 # m + 1
        BY <3>2
      <4>3. f[i] = IF i = 1 THEN seqs[i] ELSE f[i - 1] \o seqs[i]
        BY <2>1, <4>1 DEF Flattens
      <4> QED BY <3>2, <4>2, <4>3
    <3> QED BY <3>1, <3>2
  <2>3. g = [i \in 1..(m + 1) |-> g[i]] /\ h = [i \in 1..(m + 1) |-> h[i]]
    OBVIOUS
  <2>4. g = h
    <3> HIDE DEF g, h
    <3> QED BY <2>2, <2>3
  <2>5. Flattens(g, seqs, m + 1)
    <3> HIDE DEF g
    <3> QED BY <2>4 DEF Flattens
  <2> QED BY <2>5
<1> HIDE DEF S
<1>3. n \in 0..n
  OBVIOUS
<1>4. n \in S
  BY <1>1, <1>2, <1>3, EveryNumber
<1> QED BY <1>4 DEF S

\* The flattening of no sequences, and of one more.
LEMMA FlattenSteps ==
  ASSUME NEW n \in Nat, NEW seqs, seqs = [i \in 1..n |-> seqs[i]]
  PROVE  /\ n = 0 => FlattenSeq(seqs) = <<>>
         /\ n # 0 => \E f : /\ f[1] = seqs[1]
                            /\ \A m \in 1..(n - 1) : f[m + 1] = f[m] \o seqs[m + 1]
                            /\ FlattenSeq(seqs) = f[n]
<1> DEFINE Values == {seqs[i] : i \in 1..n}
<1>1. seqs \in Seq(Values) /\ Len(seqs) = n
  <2>1. seqs \in [1..n -> Values]
    OBVIOUS
  <2> QED BY <2>1
<1> HIDE DEF Values
<1>2. CASE n = 0
  <2>1. seqs = <<>>
    BY <1>1, <1>2
  <2>2. FlattenSeq(seqs) = seqs
    BY <1>1, <1>2 DEF FlattenSeq
  <2> QED BY <1>2, <2>1, <2>2
<1>3. CASE n # 0
  <2> DEFINE f == CHOOSE g : Flattens(g, seqs, n)
  <2>1. Flattens(f, seqs, n)
    BY FlattenExists
  <2>2. FlattenSeq(seqs) = f[n]
    <3>1. ~ (Len(seqs) = 0) /\ Len(seqs) = n
      BY <1>1, <1>3
    <3> QED BY <3>1, Zenon DEF FlattenSeq, Flattens
  <2> HIDE DEF f
  <2>3. f[1] = seqs[1]
    BY <1>3, <2>1 DEF Flattens
  <2>4. ASSUME NEW m \in 1..(n - 1)
        PROVE  f[m + 1] = f[m] \o seqs[m + 1]
    <3>1. m + 1 \in 1..n /\ m + 1 # 1 /\ (m + 1) - 1 = m
      OBVIOUS
    <3> QED BY <2>1, <3>1 DEF Flattens
  <2> QED BY <1>3, <2>2, <2>3, <2>4
<1> QED BY <1>2, <1>3

\* The flattening of one sequence more.
LEMMA FlattenGrows ==
  ASSUME NEW n \in Nat, NEW seqs, seqs = [i \in 1..(n + 1) |-> seqs[i]],
         \A i \in 1..(n + 1) : IsSeq(seqs[i])
  PROVE  FlattenSeq(seqs) = FlattenSeq([i \in 1..n |-> seqs[i]]) \o seqs[n + 1]
<1> DEFINE first == [i \in 1..n |-> seqs[i]]
<1> SUFFICES FlattenSeq(seqs) = FlattenSeq(first) \o seqs[n + 1]
  OBVIOUS
<1>1. first = [i \in 1..n |-> first[i]] /\ \A i \in 1..n : first[i] = seqs[i]
  OBVIOUS
<1>2. n + 1 \in Nat /\ n + 1 # 0 /\ (n + 1) - 1 = n /\ n + 1 \in 1..(n + 1)
  OBVIOUS
<1> HIDE DEF first
<1>3. PICK f : /\ f[1] = seqs[1]
               /\ \A m \in 1..n : f[m + 1] = f[m] \o seqs[m + 1]
               /\ FlattenSeq(seqs) = f[n + 1]
  <2> DEFINE k == n + 1
  <2>1. k \in Nat /\ k # 0 /\ k - 1 = n /\ seqs = [i \in 1..k |-> seqs[i]]
    OBVIOUS
  <2> HIDE DEF k
  <2>2. \E f : /\ f[1] = seqs[1]
               /\ \A m \in 1..(k - 1) : f[m + 1] = f[m] \o seqs[m + 1]
               /\ FlattenSeq(seqs) = f[k]
    BY <2>1, FlattenSteps
  <2> QED BY <2>1, <2>2 DEF k
<1>4. CASE n = 0
  <2>1. FlattenSeq(first) = <<>>
    BY <1>1, <1>4, FlattenSteps
  <2>2. seqs[1] \in Seq(ToSet(seqs[1]))
    BY <1>2, <1>4 DEF IsSeq
  <2>3. seqs[1] = <<>> \o seqs[1]
    BY <2>2
  <2> QED BY <1>3, <1>4, <2>1, <2>3
<1>5. CASE n # 0
  <2>1. PICK g : /\ g[1] = first[1]
                 /\ \A m \in 1..(n - 1) : g[m + 1] = g[m] \o first[m + 1]
                 /\ FlattenSeq(first) = g[n]
    BY <1>1, <1>5, FlattenSteps
  <2> DEFINE S == {m \in 0..n : m > 0 => f[m] = g[m]}
  <2>2. 0 \in S
    OBVIOUS
  <2>3. ASSUME NEW m \in 0..(n - 1), m \in S
        PROVE  m + 1 \in S
    <3>0. m + 1 \in 1..n /\ m + 1 \in 0..n
      OBVIOUS
    <3>1. m + 1 \in 1..n /\ m + 1 \in 0..n /\ first[m + 1] = seqs[m + 1]
      BY <1>1, <3>0
    <3>2. CASE m = 0
      BY <1>3, <2>1, <3>1, <3>2
    <3>3. CASE m # 0
      <4>1. m \in 1..(n - 1) /\ m \in 1..n /\ f[m] = g[m]
        BY <2>3, <3>3
      <4>2. f[m + 1] = g[m + 1]
        BY <1>3, <2>1, <3>1, <4>1
      <4> QED BY <3>1, <4>2
    <3> QED BY <3>2, <3>3
  <2>4. n \in S
    <3> HIDE DEF S
    <3> QED BY <2>2, <2>3, EveryNumber
  <2>5. f[n] = g[n] /\ n \in 1..n
    BY <1>5, <2>4
  <2> QED BY <1>3, <2>1, <2>5
<1> QED BY <1>4, <1>5

\* The members of sequences make a sequence.
LEMMA FlattenIsSeq ==
  ASSUME NEW n \in Nat, NEW seqs, seqs = [i \in 1..n |-> seqs[i]], \A i \in 1..n : IsSeq(seqs[i])
  PROVE  IsSeq(FlattenSeq(seqs))
<1> DEFINE X == UNION {ToSet(seqs[i]) : i \in 1..n}
<1>1. \A i \in 1..n : seqs[i] \in Seq(X)
  <2>1. ASSUME NEW i \in 1..n
        PROVE  seqs[i] \in Seq(X)
    <3>1. seqs[i] \in Seq(ToSet(seqs[i])) /\ ToSet(seqs[i]) \subseteq X
      BY DEF IsSeq
    <3> HIDE DEF X
    <3> QED BY <3>1, OwnValues
  <2> QED BY <2>1
<1> HIDE DEF X
<1>2. CASE n = 0
  <2>1. <<>> \in Seq(X)
    OBVIOUS
  <2>2. FlattenSeq(seqs) = <<>>
    BY <1>2, FlattenSteps
  <2> QED BY <2>1, <2>2, OwnValues
<1>3. CASE n # 0
  <2>1. PICK f : /\ f[1] = seqs[1]
                 /\ \A m \in 1..(n - 1) : f[m + 1] = f[m] \o seqs[m + 1]
                 /\ FlattenSeq(seqs) = f[n]
    BY <1>3, FlattenSteps
  <2> DEFINE S == {m \in 0..n : m > 0 => f[m] \in Seq(X)}
  <2>2. 0 \in S
    OBVIOUS
  <2>3. ASSUME NEW m \in 0..(n - 1), m \in S
        PROVE  m + 1 \in S
    <3>1. m + 1 \in 1..n /\ m + 1 \in 0..n
      OBVIOUS
    <3>2. seqs[m + 1] \in Seq(X)
      BY <1>1, <3>1
    <3>3. CASE m = 0
      BY <2>1, <3>1, <3>2, <3>3
    <3>4. CASE m # 0
      <4>1. m \in 1..(n - 1) /\ f[m] \in Seq(X)
        BY <2>3, <3>4
      <4>2. f[m + 1] = f[m] \o seqs[m + 1]
        BY <2>1, <4>1
      <4>3. f[m + 1] \in Seq(X)
        BY <3>2, <4>1, <4>2
      <4> QED BY <3>1, <4>3
    <3> QED BY <3>3, <3>4
  <2>4. n \in S
    <3> HIDE DEF S
    <3> QED BY <2>2, <2>3, EveryNumber
  <2>5. f[n] \in Seq(X)
    BY <1>3, <2>4
  <2> QED BY <2>1, <2>5, OwnValues
<1> QED BY <1>2, <1>3

\* Of sequences that are empty but for one, that one.
LEMMA FlattenOne ==
  ASSUME NEW n \in Nat, NEW k \in Nat, NEW s, IsSeq(s), NEW seqs,
         seqs = [i \in 1..n |-> IF i = k THEN s ELSE <<>>]
  PROVE  FlattenSeq(seqs) = IF k \in 1..n THEN s ELSE <<>>
<1> DEFINE first(m) == [i \in 1..m |-> IF i = k THEN s ELSE <<>>]
           S == {m \in Nat : FlattenSeq(first(m)) = IF k \in 1..m THEN s ELSE <<>>}
<1>0. <<>> \in Seq({}) /\ s \in Seq(ToSet(s)) /\ IsSeq(<<>>)
  <2>1. <<>> \in Seq({})
    OBVIOUS
  <2> QED BY <2>1, OwnValues DEF IsSeq
<1>1. 0 \in S
  <2>1. FlattenSeq(first(0)) = <<>>
    <3>1. first(0) = [i \in 1..0 |-> first(0)[i]]
      OBVIOUS
    <3> HIDE DEF first
    <3> QED BY <3>1, FlattenSteps
  <2>2. ~ (k \in 1..0)
    OBVIOUS
  <2> HIDE DEF first
  <2> QED BY <2>1, <2>2
<1>2. ASSUME NEW m \in 0..(n - 1), m \in S
      PROVE  m + 1 \in S
  <2>1. /\ first(m + 1) = [i \in 1..(m + 1) |-> first(m + 1)[i]]
        /\ \A i \in 1..(m + 1) : IsSeq(first(m + 1)[i])
        /\ [i \in 1..m |-> first(m + 1)[i]] = first(m)
        /\ first(m + 1)[m + 1] = IF m + 1 = k THEN s ELSE <<>>
    BY <1>0
  <2> HIDE DEF first
  <2>2. m \in Nat /\ m + 1 \in Nat
    OBVIOUS
  <2>3. FlattenSeq(first(m + 1)) = FlattenSeq(first(m)) \o first(m + 1)[m + 1]
    BY <2>1, <2>2, FlattenGrows
  <2>4. CASE m + 1 = k
    <3>1. FlattenSeq(first(m)) = <<>> /\ k \in 1..(m + 1)
      BY <1>2, <2>4
    <3>2. <<>> \o s = s
      BY <1>0
    <3> QED BY <2>1, <2>2, <2>3, <2>4, <3>1, <3>2
  <2>5. CASE m + 1 # k
    <3>1. k \in 1..(m + 1) <=> k \in 1..m
      BY <2>2, <2>5
    <3>2. s \o <<>> = s /\ <<>> \o <<>> = <<>>
      BY <1>0
    <3> QED BY <1>2, <2>1, <2>2, <2>3, <2>5, <3>1, <3>2
  <2> QED BY <2>4, <2>5
<1>3. n \in S
  <2>1. n \in 0..n
    OBVIOUS
  <2> HIDE DEF S
  <2> QED BY <1>1, <1>2, <2>1, EveryNumber
<1>4. seqs = first(n)
  OBVIOUS
<1> QED BY <1>3, <1>4

--------------------------------------------------------------------------------
(* What the registry makes of a list of specs.                               *)

\* The outcome of a factory, and what it made.
LEMMA Outcomes ==
  /\ \A adapters : Built(adapters).out = "ok" /\ Built(adapters).made = adapters
  /\ \A err : Failed(err).out = err /\ Failed(err).made = <<>>
BY DEF Built, Failed

\* No adapters, and one, are sequences of them.
LEMMA FewAreSeq ==
  /\ IsSeq(<<>>) /\ NotMine.made = <<>>
  /\ \A err : Failed(err).made = <<>>
  /\ \A x : IsSeq(Built(<<x>>).made)
<1>1. IsSeq(<<>>)
  <2>1. <<>> \in Seq({})
    OBVIOUS
  <2> QED BY <2>1, OwnValues
<1>2. ASSUME NEW x
      PROVE  IsSeq(<<x>>)
  <2>1. <<x>> \in Seq({x})
    OBVIOUS
  <2> QED BY <2>1, OwnValues
<1> QED BY <1>1, <1>2 DEF NotMine, Failed, Built

\* A list of results whose adapters are sequences has a sequence of adapters.
LEMMA AllOfIsSeq ==
  ASSUME NEW n \in Nat, NEW results, results = [i \in 1..n |-> results[i]],
         \A i \in 1..n : IsSeq(results[i].made)
  PROVE  IsSeq(AllOf(results).made)
<1> DEFINE made == [i \in 1..n |-> results[i].made]
<1>1. DOMAIN results = 1..n
  OBVIOUS
<1>2. made = [i \in 1..n |-> made[i]] /\ \A i \in 1..n : IsSeq(made[i])
  OBVIOUS
<1> HIDE DEF made
<1>3. IsSeq(FlattenSeq(made))
  BY <1>2, FlattenIsSeq
<1>4. \/ AllOf(results) = Built(FlattenSeq(made))
      \/ \E err : AllOf(results) = Failed(err)
  BY <1>1 DEF AllOf, made
<1> QED BY <1>3, <1>4, FewAreSeq DEF Built

\* What a list of results gives when none of them failed, and when one did.
LEMMA AllOfGives ==
  ASSUME NEW n \in Nat, NEW results, results = [i \in 1..n |-> results[i]]
  PROVE  \/ /\ AllOf(results).out = "ok" /\ \A i \in 1..n : results[i].out = "ok"
            /\ AllOf(results).made = FlattenSeq([i \in 1..n |-> results[i].made])
         \/ /\ AllOf(results).out # "ok" /\ AllOf(results).made = <<>>
            /\ \E i \in 1..n : AllOf(results).out = results[i].out
<1> DEFINE failures == {i \in 1..n : results[i].out # "ok"}
<1>1. DOMAIN results = 1..n
  OBVIOUS
<1>2. CASE failures = {}
  <2>1. AllOf(results) = Built(FlattenSeq([i \in 1..n |-> results[i].made]))
    BY <1>1, <1>2, Zenon DEF AllOf
  <2>2. /\ AllOf(results).out = "ok"
        /\ AllOf(results).made = FlattenSeq([i \in 1..n |-> results[i].made])
    BY <2>1, Outcomes, Zenon
  <2>3. \A i \in 1..n : results[i].out = "ok"
    BY <1>2
  <2> QED BY <2>2, <2>3, Zenon
<1>3. CASE failures # {}
  <2>1. AllOf(results) = Failed(results[Min(failures)].out)
    BY <1>1, <1>3, Zenon DEF AllOf
  <2>2. Min(failures) \in failures
    <3>1. failures \in SUBSET Nat
      OBVIOUS
    <3> HIDE DEF failures
    <3> QED BY <1>3, <3>1, MinIsMember
  <2>3. AllOf(results).out = results[Min(failures)].out /\ AllOf(results).made = <<>>
    BY <2>1, Outcomes, Zenon
  <2>4. AllOf(results).out # "ok" /\ \E i \in 1..n : AllOf(results).out = results[i].out
    BY <2>2, <2>3
  <2> QED BY <2>3, <2>4, Zenon
<1> QED BY <1>2, <1>3

\* No adapter, or one.
AtMostOne(s) == s = <<>> \/ \E x : s = <<x>>

\* At most one logger, and at most one dashboard: one or none of the results has
\* something, and nothing else is made (load_request_loggers and load_dashboard in
\* registry.rs).
THEOREM OnlyOneGives ==
  ASSUME NEW n \in Nat, NEW results, results = [i \in 1..n |-> results[i]],
         \A i \in 1..n : AtMostOne(results[i].made)
  PROVE  /\ AtMostOne(OnlyOne(results).made)
         /\ OnlyOne(results).out = "ok" =>
              /\ \A i \in 1..n : results[i].out = "ok"
              /\ \A k \in 1..n : results[k].made # <<>> =>
                   /\ OnlyOne(results).made = results[k].made
                   /\ \A i \in 1..n : i # k => results[i].made = <<>>
              /\ OnlyOne(results).made # <<>> => \E k \in 1..n : results[k].made # <<>>
<1> DEFINE second(i) == results[i].made # <<>> /\ \E j \in 1..(i - 1) : results[j].made # <<>>
           marked == [i \in 1..n |-> IF second(i) THEN Failed("BadParams") ELSE results[i]]
           mades == [i \in 1..n |-> marked[i].made]
<1>1. OnlyOne(results) = AllOf(marked)
  <2>1. DOMAIN results = 1..n
    OBVIOUS
  <2> QED BY <2>1, Zenon DEF OnlyOne
<1>2. CASE AllOf(marked).out # "ok"
  <2>1. AllOf(marked).made = <<>>
    <3>1. marked = [i \in 1..n |-> marked[i]]
      OBVIOUS
    <3> HIDE DEF marked
    <3> QED BY <1>2, <3>1, AllOfGives
  <2> QED BY <1>1, <1>2, <2>1 DEF AtMostOne
<1>3. CASE AllOf(marked).out = "ok"
  <2>1. /\ \A i \in 1..n : marked[i].out = "ok"
        /\ AllOf(marked).made = FlattenSeq(mades)
    <3>1. marked = [i \in 1..n |-> marked[i]]
      OBVIOUS
    <3> HIDE DEF marked
    <3> QED BY <1>3, <3>1, AllOfGives
  <2>2. \A i \in 1..n : ~ second(i) /\ marked[i] = results[i]
    BY <2>1 DEF Failed
  <2>3. mades = [i \in 1..n |-> results[i].made]
    BY <2>2
  <2> HIDE DEF marked, mades
  <2>4. \A i, j \in 1..n : results[i].made # <<>> /\ results[j].made # <<>> => i = j
    <3> SUFFICES ASSUME NEW i \in 1..n, NEW j \in 1..n, i < j,
                        results[i].made # <<>>, results[j].made # <<>>
                 PROVE  FALSE
      OBVIOUS
    <3>1. i \in 1..(j - 1)
      OBVIOUS
    <3> QED BY <2>2, <3>1
  <2> HIDE DEF second
  <2>5. CASE \A i \in 1..n : results[i].made = <<>>
    <3>1. mades = [i \in 1..n |-> IF i = 0 THEN <<>> ELSE <<>>]
      BY <2>3, <2>5
    <3>2. FlattenSeq(mades) = <<>>
      BY <3>1, FlattenOne, FewAreSeq
    <3> QED BY <1>1, <2>1, <2>2, <2>5, <3>2 DEF AtMostOne
  <2>6. ASSUME NEW k \in 1..n, results[k].made # <<>>
        PROVE  FlattenSeq(mades) = results[k].made /\ \A i \in 1..n : i # k => results[i].made = <<>>
    <3>1. \A i \in 1..n : i # k => results[i].made = <<>>
      BY <2>4, <2>6
    <3> DEFINE s == results[k].made
    <3>2. mades = [i \in 1..n |-> IF i = k THEN s ELSE <<>>]
      BY <2>3, <3>1
    <3>3. IsSeq(s)
      <4>1. PICK x : s = <<x>>
        BY <2>6 DEF AtMostOne
      <4>2. <<x>> \in Seq({x})
        OBVIOUS
      <4> QED BY <4>1, <4>2, OwnValues
    <3>4. FlattenSeq(mades) = s
      <4> HIDE DEF s
      <4> QED BY <3>2, <3>3, FlattenOne
    <3> QED BY <3>1, <3>4
  <2>7. CASE \E k \in 1..n : results[k].made # <<>>
    <3>1. PICK k \in 1..n : results[k].made # <<>>
      BY <2>7
    <3>2. AtMostOne(FlattenSeq(mades))
      BY <2>6, <3>1
    <3> QED BY <1>1, <2>1, <2>2, <2>6, <2>7, <3>2
  <2> QED BY <2>5, <2>7
<1> QED BY <1>2, <1>3

\* A factory fails, or makes one adapter of its kind.
Errors == {"BadParams", "UnknownPlugin", "UnsupportedKind", "panic"}
Makes(result, name) ==
  \/ \E err \in Errors : result = Failed(err)
  \/ \E x : x.kind = name /\ result = Built(<<x>>)

\* A leaf filter is made by the factory of its name, and its kind is that name.
LEMMA LeafMakes ==
  ASSUME NEW p
  PROVE  /\ Makes(Keyword(p), "keyword")
         /\ Makes(QwenGuard(p), "qwen_guard")
         /\ Makes(ResultCache(p), "result_cache")
<1>1. Makes(Keyword(p), "keyword")
  <2> DEFINE ci == Get(p, "case_insensitive", TRUE)
             words == FlattenSeq([i \in DOMAIN p.keywords |-> Items(p.keywords[i])])
             bad == Refused(p, "keywords") \/ words = <<>>
             filter == [kind |-> "keyword", ci |-> ci,
                        words |-> {IF ci THEN Lower(w) ELSE w : w \in ToSet(words)}]
  <2>1. CASE bad
    <3>1. Keyword(p) = Failed("BadParams")
      BY <2>1, Zenon DEF Keyword
    <3> QED BY <3>1 DEF Makes, Errors
  <2>2. CASE ~ bad
    <3>1. Keyword(p) = Built(<<filter>>)
      BY <2>2, Zenon DEF Keyword
    <3>2. filter.kind = "keyword"
      OBVIOUS
    <3> HIDE DEF filter
    <3> QED BY <3>1, <3>2 DEF Makes
  <2> QED BY <2>1, <2>2
<1>2. Makes(QwenGuard(p), "qwen_guard")
  <2> DEFINE levels == Get(p, "reject_levels", <<"Unsafe">>)
             categories == Get(p, "reject_categories", <<>>)
             actions == [a \in {"on_error", "on_unparseable"} |-> Get(p, a, "accept")]
             bad == \/ Refused(p, "url")
                    \/ p.url \in Blank
                    \/ ~ ToSet(levels) \subseteq Levels
                    \/ ~ ToSet(categories) \subseteq Categories
                    \/ ~ Range(actions) \subseteq DOMAIN FailAction
             filter == [kind |-> "qwen_guard",
                        levels |-> ToSet(levels), categories |-> ToSet(categories),
                        onError |-> FailAction[actions.on_error],
                        onUnparseable |-> FailAction[actions.on_unparseable],
                        cap |-> Get(p, "cache_max", 0)]
  <2>1. CASE bad
    <3>1. QwenGuard(p) = Failed("BadParams")
      BY <2>1, Zenon DEF QwenGuard
    <3> QED BY <3>1 DEF Makes, Errors
  <2>2. CASE ~ bad
    <3>1. QwenGuard(p) = Built(<<filter>>)
      BY <2>2, Zenon DEF QwenGuard
    <3>2. filter.kind = "qwen_guard"
      OBVIOUS
    <3> HIDE DEF filter
    <3> QED BY <3>1, <3>2 DEF Makes
  <2> QED BY <2>1, <2>2
<1>3. Makes(ResultCache(p), "result_cache")
  <2> DEFINE ttl == Get(p, "ttl_secs", Seconds(300))
             cleanup == Get(p, "cleanup", "none")
             bad == Refused(p, "dir") \/ ~ IsNumber(ttl)
             wrong == cleanup \notin {"none", "remove_after_serve"}
             filter == [kind |-> "result_cache", dir |-> p.dir,
                        ttl |-> IF ttl.class = "negative" THEN 0 ELSE ttl.secs,
                        oneShot |-> cleanup = "remove_after_serve",
                        streams |-> Get(p, "cache_streaming", FALSE),
                        noCache |-> Get(p, "cache_control", FALSE)]
  <2>1. CASE bad \/ p.dir \in Blank \/ ttl.class = "huge" \/ wrong
    <3>1. CASE bad
      BY <3>1, Zenon DEF ResultCache, Makes, Errors
    <3>2. CASE ~ bad /\ p.dir \in Blank
      BY <3>2, Zenon DEF ResultCache, Makes, Errors
    <3>3. CASE ~ bad /\ p.dir \notin Blank /\ ttl.class = "huge"
      BY <3>3, Zenon DEF ResultCache, Makes, Errors
    <3>4. CASE ~ bad /\ p.dir \notin Blank /\ ttl.class # "huge" /\ wrong
      BY <3>4, Zenon DEF ResultCache, Makes, Errors
    <3> QED BY <2>1, <3>1, <3>2, <3>3, <3>4
  <2>2. CASE ~ (bad \/ p.dir \in Blank \/ ttl.class = "huge" \/ wrong)
    <3>1. ResultCache(p) = Built(<<filter>>)
      BY <2>2 DEF ResultCache
    <3>2. filter.kind = "result_cache"
      OBVIOUS
    <3> HIDE DEF filter
    <3> QED BY <3>1, <3>2 DEF Makes
  <2> QED BY <2>1, <2>2
<1> QED BY <1>1, <1>2, <1>3

\* So a spec makes a sequence of leaf filters.
LEMMA LeafIsSeq ==
  ASSUME NEW spec
  PROVE  IsSeq(LeafPrefilter(spec).made)
<1>1. ASSUME NEW result, NEW name, Makes(result, name)
      PROVE  IsSeq(result.made)
  BY <1>1, FewAreSeq DEF Makes
<1> QED BY <1>1, LeafMakes, FewAreSeq DEF LeafPrefilter

\* The members of a chain, where its filters are a list.
LEMMA ChainIsSeq ==
  ASSUME NEW p, "filters" \in DOMAIN p => IsSeq(p.filters)
  PROVE  IsSeq(Chain(p).made)
<1>1. CASE Refused(p, "filters")
  BY <1>1, FewAreSeq DEF Chain
<1>2. CASE ~ Refused(p, "filters")
  <2> DEFINE n == Len(p.filters)
             results == [i \in DOMAIN p.filters |-> Member(SpecOf(p.filters[i]))]
  <2>1. n \in Nat /\ DOMAIN p.filters = 1..n
    BY <1>2 DEF Refused, IsSeq
  <2>2. results = [i \in 1..n |-> results[i]]
    BY <2>1
  <2>3. ASSUME NEW spec
        PROVE  IsSeq(Member(spec).made)
    BY LeafIsSeq, FewAreSeq DEF Member
  <2>4. \A i \in 1..n : IsSeq(results[i].made)
    BY <2>1, <2>3
  <2> HIDE DEF n
  <2>5. IsSeq(AllOf(results).made)
    <3> HIDE DEF results
    <3> QED BY <2>1, <2>2, <2>4, AllOfIsSeq
  <2> QED BY <2>5, FewAreSeq, Zenon DEF Chain
<1> QED BY <1>1, <1>2

\* What a list of specs loads is a sequence of filters.
LEMMA LoadedIsSeq ==
  ASSUME NEW list, IsSeq(list),
         \A i \in DOMAIN list :
           list[i].name = "chain" /\ "filters" \in DOMAIN list[i].params =>
             IsSeq(list[i].params.filters)
  PROVE  IsSeq(LoadPrefilters(list).made)
<1> DEFINE n == Len(list)
           results == [i \in DOMAIN list |-> Known(list[i], CreatePrefilter(list[i]))]
<1>1. n \in Nat /\ DOMAIN list = 1..n
  BY DEF IsSeq
<1>2. results = [i \in 1..n |-> results[i]]
  BY <1>1
<1>3. ASSUME NEW i \in 1..n
      PROVE  IsSeq(results[i].made)
  <2>1. IsSeq(CreatePrefilter(list[i]).made)
    BY <1>1, ChainIsSeq, LeafIsSeq DEF CreatePrefilter
  <2> QED BY <1>1, <2>1, FewAreSeq DEF Known
<1> HIDE DEF n
<1>4. IsSeq(AllOf(results).made)
  <2> HIDE DEF results
  <2> QED BY <1>1, <1>2, <1>3, AllOfIsSeq
<1> QED BY <1>4 DEF LoadPrefilters

\* The other factories make one adapter or fail.
LEMMA OthersMake ==
  ASSUME NEW p
  PROVE  /\ \/ RequestLog(p) = Failed("BadParams")
            \/ \E x : x.path = Get(p, "path", "lpcache-request.log") /\ RequestLog(p) = Built(<<x>>)
         /\ Dashboard(p) = Failed("BadParams") \/ \E x : Dashboard(p) = Built(<<x>>)
         /\ \A fails : \/ Llama(p, fails) = Failed("BadParams")
                       \/ \E x : x.url = p.url /\ Llama(p, fails) = Built(<<x>>)
<1>1. \/ RequestLog(p) = Failed("BadParams")
      \/ \E x : x.path = Get(p, "path", "lpcache-request.log") /\ RequestLog(p) = Built(<<x>>)
  <2> DEFINE path == Get(p, "path", "lpcache-request.log")
             fields == Get(p, "fields", DefaultFields)
             bad == \/ "mistyped" \in DOMAIN p
                    \/ path \in Blank
                    \/ fields = <<>>
                    \/ ~ ToSet(fields) \subseteq KnownFields
                    \/ ~ IsInjective(fields)
             logger == [path |-> path, fields |-> fields,
                        maxBytes |-> Get(p, "max_bytes", DEFAULT_MAX_BYTES),
                        keep |-> Get(p, "keep", 5)]
  <2>1. CASE bad
    BY <2>1, Zenon DEF RequestLog
  <2>2. CASE ~ bad
    <3>1. RequestLog(p) = Built(<<logger>>)
      BY <2>2, Zenon DEF RequestLog
    <3>2. logger.path = path
      OBVIOUS
    <3> HIDE DEF logger
    <3> QED BY <3>1, <3>2
  <2> QED BY <2>1, <2>2
<1>2. Dashboard(p) = Failed("BadParams") \/ \E x : Dashboard(p) = Built(<<x>>)
  BY Zenon DEF Dashboard
<1>3. ASSUME NEW fails
      PROVE  \/ Llama(p, fails) = Failed("BadParams")
             \/ \E x : x.url = p.url /\ Llama(p, fails) = Built(<<x>>)
  <2> DEFINE bad == \/ Refused(p, "url")
                    \/ ~ IsNumber(Get(p, "timeout_secs", Seconds(600)))
             client == [url |-> p.url, key |-> Get(p, "api_key", <<>>)]
  <2>1. CASE bad \/ p.url \in Blank \/ fails
    <3>1. CASE bad
      BY <3>1, Zenon DEF Llama
    <3>2. CASE ~ bad /\ (p.url \in Blank \/ fails)
      BY <3>2, Zenon DEF Llama
    <3> QED BY <2>1, <3>1, <3>2
  <2>2. CASE ~ (bad \/ p.url \in Blank \/ fails)
    <3>1. Llama(p, fails) = Built(<<client>>)
      BY <2>2, Zenon DEF Llama
    <3>2. client.url = p.url
      OBVIOUS
    <3> HIDE DEF client
    <3> QED BY <3>1, <3>2
  <2> QED BY <2>1, <2>2
<1> QED BY <1>1, <1>2, <1>3

\* The one spec of a request log makes the logger, and without one there is none.
LEMMA LoggersLoaded ==
  ASSUME NEW list, IsSeq(list)
  PROVE  /\ AtMostOne(LoadRequestLoggers(list).made)
         /\ LoadRequestLoggers(list).out = "ok" =>
              /\ (\A i \in DOMAIN list : list[i].name # "request_log") =>
                   LoadRequestLoggers(list).made = <<>>
              /\ \A k \in DOMAIN list : list[k].name = "request_log" =>
                   /\ \A i \in DOMAIN list : list[i].name = "request_log" => i = k
                   /\ \E x : /\ x.path = Get(list[k].params, "path", "lpcache-request.log")
                             /\ LoadRequestLoggers(list).made = <<x>>
<1> DEFINE n == Len(list)
           results == [i \in DOMAIN list |-> Known(list[i], CreateRequestLogger(list[i]))]
           made == OnlyOne(results).made
<1>1. n \in Nat /\ DOMAIN list = 1..n
  BY DEF IsSeq
<1>2. results = [i \in 1..n |-> results[i]] /\ LoadRequestLoggers(list) = OnlyOne(results)
  BY <1>1 DEF LoadRequestLoggers
<1>3. \A x : <<x>> # <<>>
  OBVIOUS
<1>4. ASSUME NEW i \in 1..n
      PROVE  /\ AtMostOne(results[i].made)
             /\ list[i].name # "request_log" => results[i].made = <<>>
             /\ list[i].name = "request_log" /\ results[i].out = "ok" =>
                  \E x : /\ x.path = Get(list[i].params, "path", "lpcache-request.log")
                         /\ results[i].made = <<x>>
  <2>1. results[i] = Known(list[i], CreateRequestLogger(list[i]))
    BY <1>1
  <2> HIDE DEF results
  <2>2. CASE list[i].name = "request_log"
    <3>1. results[i] = RequestLog(list[i].params)
      BY <2>1, <2>2 DEF Known, CreateRequestLogger, Registered
    <3>2. CASE results[i] = Failed("BadParams")
      <4>1. results[i].made = <<>> /\ results[i].out = "BadParams"
        BY <3>2, Outcomes, Zenon
      <4> QED BY <2>2, <4>1 DEF AtMostOne
    <3>3. CASE \E x : /\ x.path = Get(list[i].params, "path", "lpcache-request.log")
                      /\ results[i] = Built(<<x>>)
      <4>1. PICK x : /\ x.path = Get(list[i].params, "path", "lpcache-request.log")
                     /\ results[i] = Built(<<x>>)
        BY <3>3
      <4>2. results[i].made = <<x>>
        BY <4>1, Outcomes, Zenon
      <4> QED BY <2>2, <4>1, <4>2 DEF AtMostOne
    <3> QED BY <3>1, <3>2, <3>3, OthersMake, Zenon
  <2>3. CASE list[i].name # "request_log"
    <3>1. results[i] = NotMine \/ results[i] = Failed("UnknownPlugin")
      BY <2>1, <2>3 DEF Known, CreateRequestLogger
    <3>2. results[i].made = <<>>
      BY <3>1, FewAreSeq, Zenon
    <3> QED BY <2>3, <3>2 DEF AtMostOne
  <2> QED BY <2>2, <2>3
<1> HIDE DEF results, n
<1>5. /\ AtMostOne(made)
      /\ OnlyOne(results).out = "ok" =>
           /\ \A i \in 1..n : results[i].out = "ok"
           /\ \A k \in 1..n : results[k].made # <<>> =>
                /\ made = results[k].made
                /\ \A i \in 1..n : i # k => results[i].made = <<>>
           /\ made # <<>> => \E k \in 1..n : results[k].made # <<>>
  BY <1>1, <1>2, <1>4, OnlyOneGives
<1>6. ASSUME OnlyOne(results).out = "ok", \A i \in 1..n : list[i].name # "request_log"
      PROVE  made = <<>>
  BY <1>4, <1>5, <1>6
<1>7. ASSUME OnlyOne(results).out = "ok", NEW k \in 1..n, list[k].name = "request_log"
      PROVE  /\ \A i \in 1..n : list[i].name = "request_log" => i = k
             /\ \E x : /\ x.path = Get(list[k].params, "path", "lpcache-request.log")
                       /\ made = <<x>>
  <2>1. \A i \in 1..n : list[i].name = "request_log" =>
          \E x : /\ x.path = Get(list[i].params, "path", "lpcache-request.log")
                 /\ results[i].made = <<x>>
    BY <1>4, <1>5, <1>7
  <2>2. \A i \in 1..n : list[i].name = "request_log" => results[i].made # <<>>
    BY <1>3, <2>1
  <2>3. made = results[k].made /\ \A i \in 1..n : i # k => results[i].made = <<>>
    BY <1>5, <1>7, <2>2
  <2> QED BY <1>7, <2>1, <2>2, <2>3
<1> HIDE DEF made
<1>8. LoadRequestLoggers(list).made = made
  BY <1>2 DEF made
<1>9. LoadRequestLoggers(list).out = OnlyOne(results).out
  BY <1>2
<1>10. ASSUME LoadRequestLoggers(list).out = "ok"
       PROVE  /\ (\A i \in 1..n : list[i].name # "request_log") => made = <<>>
              /\ \A k \in 1..n : list[k].name = "request_log" =>
                   /\ \A i \in 1..n : list[i].name = "request_log" => i = k
                   /\ \E x : /\ x.path = Get(list[k].params, "path", "lpcache-request.log")
                             /\ made = <<x>>
  <2>1. OnlyOne(results).out = "ok"
    BY <1>9, <1>10
  <2> QED BY <1>6, <1>7, <2>1, Zenon
<1> QED BY <1>1, <1>5, <1>8, <1>10, Zenon

\* So does the one spec of a dashboard.
LEMMA BoardLoaded ==
  ASSUME NEW list, IsSeq(list)
  PROVE  /\ AtMostOne(LoadDashboard(list).made)
         /\ LoadDashboard(list).out = "ok" =>
              (LoadDashboard(list).made # <<>> <=> \E i \in DOMAIN list : list[i].name = "dashboard")
<1> DEFINE n == Len(list)
           results == [i \in DOMAIN list |-> Known(list[i], CreateDashboard(list[i]))]
           made == OnlyOne(results).made
<1>1. n \in Nat /\ DOMAIN list = 1..n
  BY DEF IsSeq
<1>2. results = [i \in 1..n |-> results[i]] /\ LoadDashboard(list) = OnlyOne(results)
  BY <1>1 DEF LoadDashboard
<1>3. \A x : <<x>> # <<>>
  OBVIOUS
<1>4. ASSUME NEW i \in 1..n
      PROVE  /\ AtMostOne(results[i].made)
             /\ list[i].name # "dashboard" => results[i].made = <<>>
             /\ list[i].name = "dashboard" /\ results[i].out = "ok" => results[i].made # <<>>
  <2>1. results[i] = Known(list[i], CreateDashboard(list[i]))
    BY <1>1
  <2> HIDE DEF results
  <2>2. CASE list[i].name = "dashboard"
    <3>1. results[i] = Dashboard(list[i].params)
      BY <2>1, <2>2 DEF Known, CreateDashboard, Registered
    <3>2. CASE results[i] = Failed("BadParams")
      <4>1. results[i].made = <<>> /\ results[i].out = "BadParams"
        BY <3>2, Outcomes, Zenon
      <4> QED BY <2>2, <4>1 DEF AtMostOne
    <3>3. CASE \E x : results[i] = Built(<<x>>)
      <4>1. \E x : results[i].made = <<x>>
        BY <3>3, Outcomes, Zenon
      <4> QED BY <1>3, <2>2, <4>1 DEF AtMostOne
    <3>4. results[i] = Failed("BadParams") \/ \E x : results[i] = Built(<<x>>)
      BY <3>1, OthersMake, Zenon
    <3> QED BY <3>2, <3>3, <3>4
  <2>3. CASE list[i].name # "dashboard"
    <3>1. results[i] = NotMine \/ results[i] = Failed("UnknownPlugin")
      BY <2>1, <2>3 DEF Known, CreateDashboard
    <3>2. results[i].made = <<>>
      BY <3>1, FewAreSeq, Zenon
    <3> QED BY <2>3, <3>2 DEF AtMostOne
  <2> QED BY <2>2, <2>3
<1> HIDE DEF results, n
<1>5. /\ AtMostOne(made)
      /\ OnlyOne(results).out = "ok" =>
           /\ \A i \in 1..n : results[i].out = "ok"
           /\ \A k \in 1..n : results[k].made # <<>> => made = results[k].made
           /\ made # <<>> => \E k \in 1..n : results[k].made # <<>>
  BY <1>1, <1>2, <1>4, OnlyOneGives
<1>6. ASSUME OnlyOne(results).out = "ok"
      PROVE  made # <<>> <=> \E i \in 1..n : list[i].name = "dashboard"
  BY <1>4, <1>5, <1>6
<1> HIDE DEF made
<1>7. LoadDashboard(list).made = made
  BY <1>2 DEF made
<1> QED BY <1>1, <1>2, <1>5, <1>6, <1>7

================================================================================
