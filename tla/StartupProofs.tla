------------------------------ MODULE StartupProofs ------------------------------
(***************************************************************************)
(* Proofs about start-up, for every command line, every environment, every *)
(* table of what the parsers make of texts, and every failure on the way.  *)
(***************************************************************************)
EXTENDS Startup, PluginsProofs

--------------------------------------------------------------------------------
(* The command line.                                                         *)

\* What the parse is from an argument on, by what it is from the later ones on.
Argument(args, from, i) ==
  LET n == Len(args)
  IN  IF i = n + 1 THEN NoOptions
      ELSE LET inline == args[i].inline # <<>>
               next   == IF inline THEN i + 1 ELSE i + 2
           IN CASE args[i].name = "help" -> [from[i + 1] EXCEPT !.help = TRUE]
                [] args[i].name = "version" -> [from[i + 1] EXCEPT !.version = TRUE]
                [] args[i].name \notin {"help", "version"} /\ next > n + 1
                     -> [NoOptions EXCEPT !.out = "MissingValue"]
                [] args[i].name \notin {"help", "version"} \cup Variables /\ next <= n + 1
                     -> [NoOptions EXCEPT !.out = "UnknownArgument"]
                [] OTHER
                     -> [from[next] EXCEPT !.set = Over(@, [v \in {args[i].name} |->
                           IF inline THEN args[i].inline[1] ELSE args[i + 1].text])]

\* The function by which Parse is defined, for the arguments from a on.
Parses(f, args, a) ==
  f = [i \in a..(Len(args) + 1) |-> Argument(args, f, i)]

\* The parse looks forward only.
LEMMA ArgumentLooksForward ==
  ASSUME NEW args, Len(args) \in Nat, NEW i \in 1..(Len(args) + 1), NEW f, NEW g,
         \A j \in (i + 1)..(Len(args) + 1) : f[j] = g[j]
  PROVE  Argument(args, f, i) = Argument(args, g, i)
<1> DEFINE n == Len(args)
           inline == args[i].inline # <<>>
           next   == IF inline THEN i + 1 ELSE i + 2
<1>1. CASE i = n + 1
  BY <1>1 DEF Argument
<1>2. CASE i # n + 1
  <2>1. f[i + 1] = g[i + 1] /\ (next <= n + 1 => f[next] = g[next])
    BY <1>2
  <2> QED BY <1>2, <2>1 DEF Argument
<1> QED BY <1>1, <1>2

\* Such functions exist.
LEMMA ParseExists ==
  ASSUME NEW args, Len(args) \in Nat
  PROVE  \E f : Parses(f, args, 1)
<1> DEFINE n == Len(args)
           S == {m \in 0..n : \E f : Parses(f, args, (n + 1) - m)}
<1>1. 0 \in S
  <2>1. Parses([i \in (n + 1)..(n + 1) |-> NoOptions], args, (n + 1) - 0)
    BY DEF Parses, Argument
  <2> QED BY <2>1
<1>2. ASSUME NEW m \in 0..(n - 1), m \in S
      PROVE  m + 1 \in S
  <2>1. PICK f : Parses(f, args, (n + 1) - m)
    BY <1>2
  <2> DEFINE a == (n + 1) - (m + 1)
             g == [i \in a..(n + 1) |-> IF i = a THEN Argument(args, f, a) ELSE f[i]]
             h == [i \in a..(n + 1) |-> Argument(args, g, i)]
  <2>2. a \in 1..n /\ a + 1 = (n + 1) - m
    OBVIOUS
  <2>3. \A i \in (a + 1)..(n + 1) : g[i] = f[i]
    BY <2>2
  <2>4. ASSUME NEW i \in a..(n + 1)
        PROVE  g[i] = h[i]
    <3>1. Argument(args, g, i) = Argument(args, f, i)
      <4>1. i \in 1..(n + 1) /\ \A j \in (i + 1)..(n + 1) : j \in (a + 1)..(n + 1)
        BY <2>2
      <4> HIDE DEF g
      <4> QED BY <2>3, <4>1, ArgumentLooksForward
    <3>2. i # a => f[i] = Argument(args, f, i)
      <4>1. i # a => i \in ((n + 1) - m)..(n + 1)
        BY <2>2
      <4> QED BY <2>1, <4>1 DEF Parses
    <3> QED BY <3>1, <3>2
  <2>5. g = [i \in a..(n + 1) |-> g[i]] /\ h = [i \in a..(n + 1) |-> h[i]]
    OBVIOUS
  <2>6. g = h
    <3> HIDE DEF g, h
    <3> QED BY <2>4, <2>5
  <2>7. Parses(g, args, a)
    <3> HIDE DEF g
    <3> QED BY <2>6 DEF Parses
  <2>8. m + 1 \in 0..n
    OBVIOUS
  <2> HIDE DEF g
  <2> QED BY <2>7, <2>8
<1>3. n \in S
  <2>1. n \in 0..n
    OBVIOUS
  <2> HIDE DEF S
  <2> QED BY <1>1, <1>2, <2>1, EveryNumber
<1> QED BY <1>3

\* What Parse returns is what one of them is at the first argument.
LEMMA ParseIsOne ==
  ASSUME NEW args, Len(args) \in Nat
  PROVE  \E f : Parses(f, args, 1) /\ Parse(args) = f[1]
<1> DEFINE f == CHOOSE g : Parses(g, args, 1)
<1>1. Parses(f, args, 1)
  BY ParseExists
<1>2. Parse(args) = f[1]
  BY Zenon DEF Parse, Parses, Argument
<1> QED BY <1>1, <1>2

\* An option with "=" that no later one overrides, and that is no other's value.
IsLast(args, i) ==
  /\ args[i].inline # <<>> /\ args[i].name \in Variables
  /\ \A j \in (i + 1)..Len(args) : args[j].name # args[i].name
  /\ i > 1 => args[i - 1].inline # <<>>

\* What a parse from the argument k on may return.
Reads(args, r, k) ==
  /\ r = [out |-> r.out, help |-> r.help, version |-> r.version, set |-> r.set]
  /\ DOMAIN r.set \subseteq {args[j].name : j \in k..Len(args)}
  /\ r.out = "ok" =>
       \A i \in k..Len(args) : IsLast(args, i) =>
         args[i].name \in DOMAIN r.set /\ r.set[args[i].name] = args[i].inline[1]

\* One argument more.
LEMMA ArgumentReads ==
  ASSUME NEW args, Len(args) \in Nat, NEW k \in 1..Len(args), NEW f,
         \A j \in (k + 1)..(Len(args) + 1) : Reads(args, f[j], j)
  PROVE  Reads(args, Argument(args, f, k), k)
<1> DEFINE n == Len(args)
           name == args[k].name
           inline == args[k].inline # <<>>
           next == IF inline THEN k + 1 ELSE k + 2
           val == IF inline THEN args[k].inline[1] ELSE args[k + 1].text
           r == Argument(args, f, k)
<1> SUFFICES Reads(args, r, k)
  OBVIOUS
<1>1. k \in Nat /\ k # n + 1 /\ k + 1 \in (k + 1)..(n + 1) /\ \A i \in k..n : i # k => i \in (k + 1)..n
  OBVIOUS
<1>2. CASE name \in {"help", "version"}
  <2> DEFINE q == f[k + 1]
  <2>1. Reads(args, q, k + 1)
    BY <1>1
  <2>2. r = IF name = "help" THEN [q EXCEPT !.help = TRUE] ELSE [q EXCEPT !.version = TRUE]
    BY <1>1, <1>2 DEF Argument
  <2> HIDE DEF q, r
  <2>3. /\ r = [out |-> r.out, help |-> r.help, version |-> r.version, set |-> r.set]
        /\ r.out = q.out /\ r.set = q.set
    BY <2>1, <2>2 DEF Reads
  <2>4. ~ IsLast(args, k)
    BY <1>2 DEF IsLast, Variables
  <2>5. DOMAIN r.set \subseteq {args[j].name : j \in k..n}
    BY <1>1, <2>1, <2>3 DEF Reads
  <2> QED BY <1>1, <2>1, <2>3, <2>4, <2>5 DEF Reads
<1>3. CASE name \notin {"help", "version"} /\ (next > n + 1 \/ name \notin Variables)
  <2>1. \E err \in {"MissingValue", "UnknownArgument"} : r = [NoOptions EXCEPT !.out = err]
    BY <1>1, <1>3 DEF Argument
  <2> HIDE DEF r
  <2>2. /\ r = [out |-> r.out, help |-> r.help, version |-> r.version, set |-> r.set]
        /\ r.out # "ok" /\ DOMAIN r.set = {}
    BY <2>1 DEF NoOptions
  <2> QED BY <2>2 DEF Reads
<1>4. CASE name \in Variables /\ name \notin {"help", "version"} /\ next <= n + 1
  <2> DEFINE q == f[next]
  <2>1. next \in (k + 1)..(n + 1) /\ Reads(args, q, next)
    BY <1>1, <1>4
  <2>2. r = [q EXCEPT !.set = Over(@, [v \in {name} |-> val])]
    BY <1>1, <1>4 DEF Argument
  <2> HIDE DEF q, r
  <2>3. /\ r = [out |-> r.out, help |-> r.help, version |-> r.version, set |-> r.set]
        /\ r.out = q.out /\ r.set = Over(q.set, [v \in {name} |-> val])
    BY <2>1, <2>2 DEF Reads
  <2>4. /\ DOMAIN r.set = DOMAIN q.set \cup {name}
        /\ \A v \in DOMAIN q.set : r.set[v] = q.set[v]
        /\ name \notin DOMAIN q.set => r.set[name] = val
    BY <2>3 DEF Over
  <2>5. DOMAIN r.set \subseteq {args[j].name : j \in k..n}
    <3>1. DOMAIN q.set \subseteq {args[j].name : j \in next..n}
      BY <2>1 DEF Reads
    <3>2. \A j \in next..n : j \in k..n
      BY <1>1, <2>1
    <3> QED BY <1>1, <2>4, <3>1, <3>2
  <2>6. ASSUME r.out = "ok", NEW i \in k..n, IsLast(args, i)
        PROVE  args[i].name \in DOMAIN r.set /\ r.set[args[i].name] = args[i].inline[1]
    <3>1. CASE i = k
      <4>1. next = k + 1 /\ val = args[k].inline[1]
        BY <2>6, <3>1 DEF IsLast
      <4>2. name \notin DOMAIN q.set
        BY <2>1, <2>6, <3>1, <4>1 DEF IsLast, Reads
      <4> QED BY <2>4, <3>1, <4>1, <4>2
    <3>2. CASE i # k
      <4>1. i \in next..n
        <5>1. i = k + 1 => inline
          BY <1>1, <2>6 DEF IsLast
        <5> QED BY <1>1, <3>2, <5>1
      <4>2. args[i].name \in DOMAIN q.set /\ q.set[args[i].name] = args[i].inline[1]
        BY <2>1, <2>3, <2>6, <4>1 DEF Reads
      <4> QED BY <2>4, <4>2
    <3> QED BY <3>1, <3>2
  <2> QED BY <2>3, <2>5, <2>6 DEF Reads
<1>5. name \in Variables => name \notin {"help", "version"}
  BY DEF Variables
<1>6. n + 1 \in Nat /\ next \in Nat
  BY <1>1
<1> QED BY <1>2, <1>3, <1>4, <1>5, <1>6

\* The last of two equal options wins, and nothing is set that was not given
\* (Cli::parse in config.rs, for every command line).
THEOREM ParseReads ==
  ASSUME NEW args, Len(args) \in Nat
  PROVE  Reads(args, Parse(args), 1)
<1> DEFINE n == Len(args)
<1>1. PICK f : Parses(f, args, 1) /\ Parse(args) = f[1]
  BY ParseIsOne
<1> DEFINE S == {m \in 0..n : \A k \in ((n + 1) - m)..(n + 1) : Reads(args, f[k], k)}
<1>2. \A k \in 1..(n + 1) : f[k] = Argument(args, f, k)
  BY <1>1 DEF Parses
<1>3. 0 \in S
  <2>1. f[n + 1] = NoOptions
    <3>1. Argument(args, f, n + 1) = NoOptions
      BY DEF Argument
    <3> QED BY <1>2, <3>1
  <2>2. Reads(args, NoOptions, n + 1)
    BY DEF Reads, NoOptions
  <2>3. \A k \in ((n + 1) - 0)..(n + 1) : k = n + 1
    OBVIOUS
  <2> QED BY <2>1, <2>2, <2>3
<1>4. ASSUME NEW m \in 0..(n - 1), m \in S
      PROVE  m + 1 \in S
  <2> DEFINE a == (n + 1) - (m + 1)
  <2>1. a \in 1..n /\ a \in 1..(n + 1) /\ a + 1 = (n + 1) - m /\ m + 1 \in 0..n
    OBVIOUS
  <2>2. \A k \in (a + 1)..(n + 1) : Reads(args, f[k], k)
    BY <1>4, <2>1
  <2>3. Reads(args, f[a], a)
    BY <1>2, <2>1, <2>2, ArgumentReads
  <2>4. \A k \in a..(n + 1) : k = a \/ k \in (a + 1)..(n + 1)
    BY <2>1
  <2> QED BY <2>1, <2>2, <2>3, <2>4
<1>5. n \in S
  <2>1. n \in 0..n
    OBVIOUS
  <2> HIDE DEF S
  <2> QED BY <1>3, <1>4, <2>1, EveryNumber
<1>6. 1 \in ((n + 1) - n)..(n + 1)
  OBVIOUS
<1> QED BY <1>1, <1>5, <1>6

--------------------------------------------------------------------------------
(* The kinds of the filters that a list of specs makes.                      *)

\* The kinds of filters are a sequence, and those of two lists are those of each.
LEMMA KindsJoin ==
  ASSUME NEW s, NEW t, IsSeq(s), IsSeq(t)
  PROVE  IsSeq(Kinds(s)) /\ IsSeq(s \o t) /\ Kinds(s \o t) = Kinds(s) \o Kinds(t)
<1>1. /\ Len(s) \in Nat /\ DOMAIN s = 1..Len(s) /\ Len(t) \in Nat /\ DOMAIN t = 1..Len(t)
      /\ s \in Seq(ToSet(s)) /\ t \in Seq(ToSet(t))
  BY DEF IsSeq
<1>2. ASSUME NEW q, Len(q) \in Nat, DOMAIN q = 1..Len(q)
      PROVE  /\ Kinds(q) \in Seq({q[i].kind : i \in 1..Len(q)})
             /\ Len(Kinds(q)) = Len(q) /\ \A i \in 1..Len(q) : Kinds(q)[i] = q[i].kind
  <2>1. Kinds(q) \in [1..Len(q) -> {q[i].kind : i \in 1..Len(q)}]
    BY <1>2 DEF Kinds
  <2> QED BY <1>2, <2>1 DEF Kinds
<1>3. IsSeq(Kinds(s))
  BY <1>1, <1>2, OwnValues
<1> DEFINE X == ToSet(s) \cup ToSet(t)
           K == {s[i].kind : i \in 1..Len(s)} \cup {t[i].kind : i \in 1..Len(t)}
<1>4. s \in Seq(X) /\ t \in Seq(X)
  BY <1>1, OwnValues
<1>5. s \o t \in Seq(X) /\ Len(s \o t) = Len(s) + Len(t)
  <2> HIDE DEF X
  <2> QED BY <1>4
<1>6. IsSeq(s \o t)
  BY <1>5, OwnValues
<1>7. Kinds(s) \in Seq(K) /\ Kinds(t) \in Seq(K)
  <2>1. /\ Kinds(s) \in Seq({s[i].kind : i \in 1..Len(s)})
        /\ Kinds(t) \in Seq({t[i].kind : i \in 1..Len(t)})
    BY <1>1, <1>2
  <2>2. ToSet(Kinds(s)) \subseteq K /\ ToSet(Kinds(t)) \subseteq K
    BY <1>1 DEF ToSet, Kinds
  <2> HIDE DEF K
  <2> QED BY <2>1, <2>2, OwnValues
<1>8. Kinds(s \o t) = Kinds(s) \o Kinds(t)
  <2> DEFINE both == Kinds(s) \o Kinds(t)
  <2>1. both \in Seq(K) /\ Len(both) = Len(s) + Len(t)
    <3>1. Len(Kinds(s)) = Len(s) /\ Len(Kinds(t)) = Len(t)
      BY <1>1, <1>2
    <3> HIDE DEF K
    <3> QED BY <1>7, <3>1
  <2>2. DOMAIN (s \o t) = 1..(Len(s) + Len(t)) /\ DOMAIN both = 1..(Len(s) + Len(t))
    BY <1>1, <1>5, <2>1
  <2>3. ASSUME NEW i \in 1..(Len(s) + Len(t))
        PROVE  (s \o t)[i].kind = both[i]
    <3>1. CASE i <= Len(s)
      <4>0. i \in 1..Len(s)
        BY <1>1, <3>1
      <4>1. (s \o t)[i] = s[i] /\ both[i] = Kinds(s)[i]
        <5>1. Len(Kinds(s)) = Len(s)
          BY <1>1, <1>2
        <5> HIDE DEF X, K
        <5> QED BY <1>1, <1>4, <1>7, <4>0, <5>1
      <4> QED BY <1>1, <1>2, <4>0, <4>1
    <3>2. CASE ~ (i <= Len(s))
      <4>1. i - Len(s) \in 1..Len(t)
        BY <1>1, <3>2
      <4>2. (s \o t)[i] = t[i - Len(s)] /\ both[i] = Kinds(t)[i - Len(s)]
        <5>1. Len(Kinds(s)) = Len(s) /\ Len(Kinds(t)) = Len(t)
          BY <1>1, <1>2
        <5> HIDE DEF X, K
        <5> QED BY <1>1, <1>4, <1>7, <3>2, <4>1, <5>1
      <4> QED BY <1>1, <1>2, <4>1, <4>2
    <3> QED BY <3>1, <3>2
  <2>4. both = [i \in 1..(Len(s) + Len(t)) |-> both[i]]
    <3> HIDE DEF both, K
    <3> QED BY <2>1, <2>2
  <2> HIDE DEF both
  <2>5. Kinds(s \o t) = [i \in 1..(Len(s) + Len(t)) |-> (s \o t)[i].kind]
    BY <2>2 DEF Kinds
  <2>6. Kinds(s \o t) = both
    BY <2>3, <2>4, <2>5
  <2> QED BY <2>6 DEF both
<1> QED BY <1>3, <1>6, <1>8

\* The kinds of a flattened list are those of its parts.
LEMMA KindsFlatten ==
  ASSUME NEW n \in Nat, NEW seqs, \A i \in 1..n : IsSeq(seqs[i])
  PROVE  Kinds(FlattenSeq([i \in 1..n |-> seqs[i]])) = FlattenSeq([i \in 1..n |-> Kinds(seqs[i])])
<1> DEFINE first(m) == [i \in 1..m |-> seqs[i]]
           kinds(m) == [i \in 1..m |-> Kinds(seqs[i])]
           S == {m \in 0..n : /\ IsSeq(FlattenSeq(first(m)))
                              /\ Kinds(FlattenSeq(first(m))) = FlattenSeq(kinds(m))}
<1>1. 0 \in S
  <2>1. first(0) = [i \in 1..0 |-> first(0)[i]] /\ kinds(0) = [i \in 1..0 |-> kinds(0)[i]]
    OBVIOUS
  <2>2. Kinds(<<>>) = <<>>
    BY DEF Kinds
  <2> HIDE DEF first, kinds
  <2>3. FlattenSeq(first(0)) = <<>> /\ FlattenSeq(kinds(0)) = <<>>
    BY <2>1, FlattenSteps
  <2> QED BY <2>2, <2>3, FewAreSeq
<1>2. ASSUME NEW m \in 0..(n - 1), m \in S
      PROVE  m + 1 \in S
  <2>0. m \in Nat /\ m + 1 \in 0..n /\ m + 1 \in 1..n /\ \A i \in 1..(m + 1) : i \in 1..n
    OBVIOUS
  <2>1. /\ first(m + 1) = [i \in 1..(m + 1) |-> first(m + 1)[i]]
        /\ \A i \in 1..(m + 1) : IsSeq(first(m + 1)[i])
        /\ [i \in 1..m |-> first(m + 1)[i]] = first(m)
        /\ first(m + 1)[m + 1] = seqs[m + 1]
    BY <2>0
  <2>2. /\ kinds(m + 1) = [i \in 1..(m + 1) |-> kinds(m + 1)[i]]
        /\ \A i \in 1..(m + 1) : IsSeq(kinds(m + 1)[i])
        /\ [i \in 1..m |-> kinds(m + 1)[i]] = kinds(m)
        /\ kinds(m + 1)[m + 1] = Kinds(seqs[m + 1])
    BY <2>0, KindsJoin
  <2>3. IsSeq(seqs[m + 1])
    BY <2>0
  <2> HIDE DEF first, kinds
  <2>4. FlattenSeq(first(m + 1)) = FlattenSeq(first(m)) \o seqs[m + 1]
    BY <2>0, <2>1, FlattenGrows
  <2>5. FlattenSeq(kinds(m + 1)) = FlattenSeq(kinds(m)) \o Kinds(seqs[m + 1])
    BY <2>0, <2>2, FlattenGrows
  <2>6. IsSeq(FlattenSeq(first(m))) /\ Kinds(FlattenSeq(first(m))) = FlattenSeq(kinds(m))
    BY <1>2
  <2> QED BY <2>0, <2>3, <2>4, <2>5, <2>6, KindsJoin
<1>3. n \in S
  <2>1. n \in 0..n
    OBVIOUS
  <2> HIDE DEF S
  <2> QED BY <1>1, <1>2, <2>1, EveryNumber
<1> QED BY <1>3

\* No adapters have no kinds, and one has its own.
LEMMA FewKinds ==
  /\ IsSeq(<<>>) /\ Kinds(<<>>) = <<>>
  /\ \A x : IsSeq(<<x>>) /\ Kinds(<<x>>) = <<x.kind>>
<1>1. IsSeq(<<>>) /\ \A x : IsSeq(<<x>>)
  BY FewAreSeq, Outcomes
<1>2. Kinds(<<>>) = <<>>
  BY DEF Kinds
<1>3. ASSUME NEW x
      PROVE  Kinds(<<x>>) = <<x.kind>>
  BY DEF Kinds
<1> QED BY <1>1, <1>2, <1>3

\* A leaf filter has the kind that its spec names.
LEMMA LeafKinds ==
  ASSUME NEW spec, LeafPrefilter(spec).out = "ok"
  PROVE  IsSeq(LeafPrefilter(spec).made) /\ Kinds(LeafPrefilter(spec).made) = KindOf(spec)
<1>1. ASSUME NEW result, NEW name, Makes(result, name), result.out = "ok"
      PROVE  IsSeq(result.made) /\ Kinds(result.made) = <<name>>
  <2>1. \A err \in Errors : Failed(err).out # "ok"
    BY Outcomes DEF Errors
  <2>2. PICK x : x.kind = name /\ result = Built(<<x>>)
    BY <1>1, <2>1 DEF Makes
  <2> QED BY <2>2, Outcomes, FewKinds
<1>2. CASE spec.name \in FilterKinds
  <2>1. Makes(LeafPrefilter(spec), spec.name)
    BY <1>2, LeafMakes DEF LeafPrefilter, FilterKinds
  <2> QED BY <1>1, <1>2, <2>1 DEF KindOf
<1>3. CASE spec.name \notin FilterKinds
  <2>1. LeafPrefilter(spec) = NotMine
    BY <1>3 DEF LeafPrefilter, FilterKinds
  <2> QED BY <1>3, <2>1, FewAreSeq, FewKinds DEF KindOf
<1> QED BY <1>2, <1>3

\* A chain has those of its members, in order.
LEMMA ChainKinds ==
  ASSUME NEW p, "filters" \in DOMAIN p => IsSeq(p.filters), Chain(p).out = "ok"
  PROVE  /\ IsSeq(Chain(p).made)
         /\ "filters" \in DOMAIN p
         /\ Kinds(Chain(p).made) = FlattenSeq([i \in DOMAIN p.filters |-> KindOf(p.filters[i])])
<1> DEFINE n == Len(p.filters)
           results == [i \in DOMAIN p.filters |-> Member(SpecOf(p.filters[i]))]
<1>1. ~ Refused(p, "filters") /\ Chain(p) = AllOf(results)
  <2>1. Failed("BadParams").out # "ok"
    BY Outcomes
  <2> QED BY <2>1, Zenon DEF Chain
<1>2. "filters" \in DOMAIN p /\ IsSeq(p.filters)
  BY <1>1 DEF Refused
<1>3. n \in Nat /\ DOMAIN p.filters = 1..n
  BY <1>2 DEF IsSeq
<1>4. \A i \in 1..n : results[i] = Member(SpecOf(p.filters[i]))
  BY <1>3
<1>5. /\ \A i \in 1..n : results[i].out = "ok"
      /\ Chain(p).made = FlattenSeq([i \in 1..n |-> results[i].made])
  <2>1. results = [i \in 1..n |-> results[i]]
    BY <1>3
  <2> HIDE DEF results, n
  <2> QED BY <1>1, <1>3, <2>1, AllOfGives
<1>6. ASSUME NEW i \in 1..n
      PROVE  IsSeq(results[i].made) /\ Kinds(results[i].made) = KindOf(p.filters[i])
  <2> DEFINE spec == SpecOf(p.filters[i])
  <2>1. results[i] = Member(spec) /\ Member(spec).out = "ok"
    BY <1>4, <1>5
  <2> HIDE DEF results
  <2>2. spec.name = p.filters[i].name
    BY DEF SpecOf
  <2> HIDE DEF spec
  <2>3. Member(spec) = LeafPrefilter(spec)
    BY <2>1, Outcomes DEF Member
  <2> QED BY <2>1, <2>2, <2>3, LeafKinds DEF KindOf
<1> DEFINE mades == [i \in 1..n |-> results[i].made]
<1>7. \A i \in 1..n : IsSeq(mades[i]) /\ Kinds(mades[i]) = KindOf(p.filters[i])
  BY <1>6
<1>8. Chain(p).made = FlattenSeq([i \in 1..n |-> mades[i]])
  <2>1. Chain(p).made = FlattenSeq(mades)
    BY <1>5
  <2>2. mades = [i \in 1..n |-> mades[i]]
    <3> HIDE DEF results
    <3> QED OBVIOUS
  <2> HIDE DEF mades
  <2> QED BY <2>1, <2>2
<1> HIDE DEF results, mades, n
<1>9. Kinds(Chain(p).made) = FlattenSeq([i \in 1..n |-> Kinds(mades[i])])
  BY <1>3, <1>7, <1>8, KindsFlatten
<1>10. [i \in 1..n |-> Kinds(mades[i])] = [i \in DOMAIN p.filters |-> KindOf(p.filters[i])]
  BY <1>3, <1>7
<1>11. IsSeq(Chain(p).made)
  BY <1>2, ChainIsSeq
<1> QED BY <1>2, <1>9, <1>10, <1>11

\* A list of specs that loads makes the filters that its specs name, the members
\* of a chain in its place, in order (load_prefilters in registry.rs).
THEOREM ListKinds ==
  ASSUME NEW list, IsSeq(list),
         \A i \in DOMAIN list :
           list[i].name = "chain" /\ "filters" \in DOMAIN list[i].params =>
             IsSeq(list[i].params.filters),
         LoadPrefilters(list).out = "ok"
  PROVE  /\ \A i \in DOMAIN list : list[i].name \in Registered
         /\ Kinds(LoadPrefilters(list).made) = FlattenSeq([i \in DOMAIN list |-> KindsOf(list[i])])
         /\ \A i \in DOMAIN list : list[i].name = "chain" => "filters" \in DOMAIN list[i].params
<1> DEFINE n == Len(list)
           results == [i \in DOMAIN list |-> Known(list[i], CreatePrefilter(list[i]))]
<1>1. n \in Nat /\ DOMAIN list = 1..n
  BY DEF IsSeq
<1>2. /\ \A i \in 1..n : results[i].out = "ok"
      /\ LoadPrefilters(list).made = FlattenSeq([i \in 1..n |-> results[i].made])
  <2>1. results = [i \in 1..n |-> results[i]]
    BY <1>1
  <2>2. LoadPrefilters(list) = AllOf(results)
    BY DEF LoadPrefilters
  <2> HIDE DEF results, n
  <2> QED BY <1>1, <2>1, <2>2, AllOfGives
<1>3. ASSUME NEW i \in 1..n
      PROVE  /\ list[i].name \in Registered
             /\ IsSeq(results[i].made) /\ Kinds(results[i].made) = KindsOf(list[i])
             /\ list[i].name = "chain" => "filters" \in DOMAIN list[i].params
  <2> DEFINE spec == list[i]
  <2>1. Known(spec, CreatePrefilter(spec)).out = "ok" /\ results[i] = Known(spec, CreatePrefilter(spec))
    BY <1>1, <1>2
  <2>2. spec.name = "chain" /\ "filters" \in DOMAIN spec.params => IsSeq(spec.params.filters)
    BY <1>1
  <2> HIDE DEF results, spec
  <2>3. spec.name \in Registered /\ results[i] = CreatePrefilter(spec) /\ CreatePrefilter(spec).out = "ok"
    BY <2>1, Outcomes DEF Known
  <2>4. CASE spec.name = "chain"
    <3>1. CreatePrefilter(spec) = Chain(spec.params)
      BY <2>4 DEF CreatePrefilter
    <3>2. KindsOf(spec) = FlattenSeq([j \in DOMAIN spec.params.filters |-> KindOf(spec.params.filters[j])])
      BY <2>4, Zenon DEF KindsOf, Members
    <3> QED BY <2>2, <2>3, <2>4, <3>1, <3>2, ChainKinds DEF spec
  <2>5. CASE spec.name # "chain"
    <3>1. CreatePrefilter(spec) = LeafPrefilter(spec)
      BY <2>5 DEF CreatePrefilter
    <3>2. KindsOf(spec) = KindOf(spec)
      <4> DEFINE kinds == [j \in DOMAIN Members(spec) |-> KindOf(Members(spec)[j])]
                 s == KindOf(spec)
      <4>1. kinds = [j \in 1..1 |-> IF j = 1 THEN s ELSE <<>>]
        BY <2>5 DEF Members
      <4>2. IsSeq(s)
        BY FewKinds DEF KindOf
      <4>3. FlattenSeq(kinds) = s
        <5> HIDE DEF kinds, s
        <5>1. 1 \in Nat /\ 1 \in 1..1
          OBVIOUS
        <5>2. FlattenSeq(kinds) = IF 1 \in 1..1 THEN s ELSE <<>>
          BY <4>1, <4>2, <5>1, FlattenOne, Zenon
        <5> QED BY <5>1, <5>2
      <4> QED BY <4>3 DEF KindsOf
    <3> QED BY <2>3, <2>5, <3>1, <3>2, LeafKinds DEF spec
  <2> QED BY <2>4, <2>5
<1> DEFINE mades == [i \in 1..n |-> results[i].made]
<1>4. \A i \in 1..n : IsSeq(mades[i]) /\ Kinds(mades[i]) = KindsOf(list[i])
  BY <1>3
<1>5. LoadPrefilters(list).made = FlattenSeq([i \in 1..n |-> mades[i]])
  <2>1. LoadPrefilters(list).made = FlattenSeq(mades)
    BY <1>2
  <2>2. mades = [i \in 1..n |-> mades[i]]
    <3> HIDE DEF results
    <3> QED OBVIOUS
  <2> HIDE DEF mades
  <2> QED BY <2>1, <2>2
<1>6. \A i \in DOMAIN list : /\ list[i].name \in Registered
                             /\ list[i].name = "chain" => "filters" \in DOMAIN list[i].params
  BY <1>1, <1>3
<1> HIDE DEF results, mades, n
<1>7. Kinds(LoadPrefilters(list).made) = FlattenSeq([i \in 1..n |-> Kinds(mades[i])])
  BY <1>1, <1>4, <1>5, KindsFlatten
<1>8. [i \in 1..n |-> Kinds(mades[i])] = [i \in DOMAIN list |-> KindsOf(list[i])]
  BY <1>1, <1>4
<1> QED BY <1>6, <1>7, <1>8

--------------------------------------------------------------------------------
(* What the settings are, and the specs made of them.                        *)

Given == {[args |-> s[1], env |-> s[2]] : s \in Settings}

\* Options before environment.
LEMMA OptionsFirst ==
  ASSUME given \in Given, Options.out = "ok"
  PROVE  OptionsWin
<1> DEFINE args == given.args
<1>1. Len(args) \in Nat /\ DOMAIN args = 1..Len(args)
  <2>1. args \in Seq(ToSet(args))
    BY SettingsAssumption DEF Given
  <2> QED BY <2>1
<1>2. Reads(args, Options, 1)
  BY <1>1, ParseReads DEF Options
<1>3. Told = Over(Options.set, given.env)
  BY DEF Told, MergedEnv
<1>4. ASSUME NEW i \in DOMAIN args, LastWord(i)
      PROVE  Told[args[i].name] = args[i].inline[1]
  <2>1. IsLast(args, i)
    BY <1>4 DEF LastWord, IsLast
  <2>2. args[i].name \in DOMAIN Options.set /\ Options.set[args[i].name] = args[i].inline[1]
    BY <1>1, <1>2, <2>1 DEF Reads
  <2> QED BY <1>3, <2>2 DEF Over
<1>5. ASSUME NEW v \in DOMAIN given.env, \A i \in DOMAIN args : args[i].name # v
      PROVE  Told[v] = given.env[v]
  <2>1. v \notin DOMAIN Options.set
    BY <1>1, <1>2, <1>5 DEF Reads
  <2> QED BY <1>3, <2>1 DEF Over
<1> QED BY <1>4, <1>5 DEF OptionsWin

\* The port and the queue are in their bounds.
LEMMA ConfigNumbers ==
  ASSUME NEW e, NEW c, c = FromEnvMap(e)
  PROVE  c.port \in Nat /\ c.port < 65536 /\ c.queue >= 1
<1>1. ASSUME NEW key, NEW default \in Nat
      PROVE  EnvInt(e, key, default) \in Nat
  BY <1>1, ConfigAssumption, Zenon DEF EnvInt, Parsed, Get
<1>2. c.port \in Nat /\ c.port < 65536
  <2> DEFINE n == EnvInt(e, "PORT", 8081)
  <2>1. n \in Nat
    <3>1. 8081 \in Nat
      BY SMT
    <3> QED BY <1>1, <3>1, SMT
  <2>2. c.port = n % 65536
    BY SMT DEF FromEnvMap
  <2> HIDE DEF n
  <2>3. n % 65536 \in Nat /\ n % 65536 < 65536
    BY <2>1, SMT
  <2> QED BY <2>2, <2>3, SMT
<1>3. c.queue >= 1
  <2>1. EnvInt(e, "STREAM_QUEUE_SIZE", 16) \in Nat
    BY <1>1
  <2>2. c.queue = EnvStreamQueueSize(e)
    BY SMT DEF FromEnvMap
  <2> QED BY <2>1, <2>2, SMT DEF EnvStreamQueueSize
<1> QED BY <1>2, <1>3, SMT

\* The settings that decide on the backends and the plugins.
LEMMA ConfigFields ==
  ASSUME NEW e, NEW c, c = FromEnvMap(e)
  PROVE  /\ c # <<>>
         /\ c.backends = Backends(e)
         /\ c.plugins = IF "PLUGINS" \in DOMAIN e THEN <<e["PLUGINS"]>> ELSE <<>>
         /\ c.blocked = EnvList(e, "PREFILTER_BLOCKLIST")
         /\ c.cacheDir = EnvText(e, "PREFILTER_RESULT_CACHE_DIR", <<>>)
<1>1. /\ c.backends = Backends(e)
      /\ c.plugins = IF "PLUGINS" \in DOMAIN e THEN <<e["PLUGINS"]>> ELSE <<>>
      /\ c.blocked = EnvList(e, "PREFILTER_BLOCKLIST")
      /\ c.cacheDir = EnvText(e, "PREFILTER_RESULT_CACHE_DIR", <<>>)
      /\ "port" \in DOMAIN c
  BY SMT DEF FromEnvMap
<1>2. DOMAIN <<>> = {}
  OBVIOUS
<1> QED BY <1>1, <1>2, Zenon

\* So does REQUEST_LOG.
LEMMA ConfigLogs ==
  ASSUME NEW e, NEW c, c = FromEnvMap(e)
  PROVE  c.logs = Parsed(BoolOf, e, "REQUEST_LOG", FALSE) /\ c.logs \in BOOLEAN
<1>1. c.logs = EnvBool(e, "REQUEST_LOG", FALSE)
  BY SMT DEF FromEnvMap
<1>2. Parsed(BoolOf, e, "REQUEST_LOG", FALSE) \in BOOLEAN
  BY ConfigAssumption, Zenon DEF Parsed, Get
<1> QED BY <1>1, <1>2, Zenon DEF EnvBool

\* The backends are a list.
LEMMA BackendsAreSeq ==
  ASSUME NEW e
  PROVE  IsSeq(Backends(e))
<1>1. \A x : IsSeq(<<x>>)
  BY FewKinds
<1>2. IsSeq(<<>>)
  BY FewKinds
<1> QED BY <1>1, <1>2, ConfigAssumption, Zenon DEF Backends, Get, IsSeq

\* The specs are those that PLUGINS lists, or those of the older settings, and one
\* of a request log in the end where the settings ask for it and none is listed.
LEMMA SpecsAsTold ==
  ASSUME NEW c, c = FromEnvMap(Told), PluginSpecs(c).out = "ok"
  PROVE  \E base :
           /\ IsSeq(base) /\ PluginSpecs(c).made = WithRequestLog(c, base)
           /\ PluginsRule => /\ IsSeq(Listed) /\ \A i \in DOMAIN Listed : IsSpec(Listed[i])
                             /\ Told["PLUGINS"] \in DOMAIN ItemsOf
                             /\ base = [i \in DOMAIN Listed |-> SpecOf(Listed[i])]
           /\ ~ PluginsRule => Listed = <<>> /\ base = LegacySpecs(c)
<1>0. c.plugins = IF "PLUGINS" \in DOMAIN Told THEN <<Told["PLUGINS"]>> ELSE <<>>
  BY ConfigFields, Zenon
<1>1. UsesPlugins(c) <=> PluginsRule
  BY <1>0 DEF UsesPlugins, PluginsRule
<1>2. CASE PluginsRule
  <2>1. c.plugins[1] = Told["PLUGINS"]
    <3>1. c.plugins = <<Told["PLUGINS"]>>
      BY <1>0, <1>2, Zenon DEF PluginsRule
    <3> QED BY <3>1
  <2> DEFINE base == [i \in DOMAIN Listed |-> SpecOf(Listed[i])]
  <2>2. Listed = ItemsOf[c.plugins[1]]
    BY <1>2, <2>1 DEF Listed
  <2>3. Failed("BadPlugins").out # "ok"
    BY Outcomes
  <2>4. /\ c.plugins[1] \in DOMAIN ItemsOf /\ \A i \in DOMAIN Listed : IsSpec(Listed[i])
        /\ PluginSpecs(c) = Built(WithRequestLog(c, base))
    BY <1>1, <1>2, <2>2, <2>3, Zenon DEF PluginSpecs
  <2>5. IsSeq(Listed)
    BY <2>2, <2>4, ConfigAssumption DEF IsSeq
  <2>6. IsSeq(base)
    <3>1. Len(Listed) \in Nat /\ DOMAIN Listed = 1..Len(Listed)
      BY <2>5 DEF IsSeq
    <3>2. base \in Seq({SpecOf(Listed[i]) : i \in DOMAIN Listed})
      BY <3>1
    <3> HIDE DEF base
    <3> QED BY <3>2, OwnValues
  <2>7. PluginSpecs(c).made = WithRequestLog(c, base)
    BY <2>4, Outcomes, Zenon
  <2> QED BY <1>2, <2>1, <2>4, <2>5, <2>6, <2>7
<1>3. CASE ~ PluginsRule
  <2>1. PluginSpecs(c) = Built(WithRequestLog(c, LegacySpecs(c)))
    BY <1>1, <1>3 DEF PluginSpecs
  <2>2. PluginSpecs(c).made = WithRequestLog(c, LegacySpecs(c))
    BY <2>1, Outcomes, Zenon
  <2>3. IsSeq(LegacySpecs(c))
    <3> DEFINE a == KeywordSpec(c)
               b == CacheSpec(c)
               blocks == IF c.blocked # <<>> THEN <<a>> ELSE <<>>
               caches == IF c.cacheDir # <<>> THEN <<b>> ELSE <<>>
    <3>1. LegacySpecs(c) = blocks \o caches
      BY Zenon DEF LegacySpecs
    <3> HIDE DEF a, b
    <3>2. blocks \in Seq({a, b}) /\ caches \in Seq({a, b})
      <4>1. <<a>> \in Seq({a, b}) /\ <<b>> \in Seq({a, b}) /\ <<>> \in Seq({a, b})
        OBVIOUS
      <4> QED BY <4>1, Zenon
    <3> HIDE DEF blocks, caches
    <3>3. blocks \o caches \in Seq({a, b})
      BY <3>2
    <3> QED BY <3>1, <3>3, OwnValues
  <2>4. Listed = <<>>
    BY <1>3 DEF Listed
  <2> QED BY <1>3, <2>2, <2>3, <2>4
<1> QED BY <1>2, <1>3

\* One spec of a request log more, or none.
LEMMA LogAdded ==
  ASSUME NEW c, NEW base, IsSeq(base)
  PROVE  LET s == WithRequestLog(c, base)
             no == \A i \in DOMAIN base : base[i].name # "request_log"
         IN  /\ IsSeq(s)
             /\ ~ (c.logs /\ no) => s = base
             /\ c.logs /\ no => /\ DOMAIN s = 1..(Len(base) + 1)
                                /\ \A i \in DOMAIN base : s[i] = base[i]
                                /\ s[Len(base) + 1] = RequestLogSpec(c)
<1> DEFINE no == \A i \in DOMAIN base : base[i].name # "request_log"
<1>1. CASE c.logs /\ no
  <2> DEFINE X == ToSet(base) \cup {RequestLogSpec(c)}
             last == RequestLogSpec(c)
             s == Append(base, last)
  <2>1. WithRequestLog(c, base) = s
    BY <1>1, Zenon DEF WithRequestLog
  <2>2. base \in Seq(X) /\ last \in X
    <3>1. base \in Seq(ToSet(base)) /\ ToSet(base) \subseteq X
      BY DEF IsSeq
    <3> QED BY <3>1, OwnValues
  <2> HIDE DEF X, last
  <2>3. /\ s \in Seq(X) /\ DOMAIN s = 1..(Len(base) + 1)
        /\ \A i \in DOMAIN base : s[i] = base[i]
        /\ s[Len(base) + 1] = last
    BY <2>2
  <2> HIDE DEF s
  <2>4. IsSeq(s)
    BY <2>3, OwnValues
  <2> QED BY <1>1, <2>1, <2>3, <2>4 DEF last
<1>2. CASE ~ (c.logs /\ no)
  BY <1>2, Zenon DEF WithRequestLog
<1> QED BY <1>1, <1>2

--------------------------------------------------------------------------------
(* The plugins that a serving proxy has.                                     *)

\* One list of kinds, and two, flattened.
LEMMA FlattenFew ==
  ASSUME NEW s, NEW t, IsSeq(s), IsSeq(t)
  PROVE  /\ FlattenSeq(<<>>) = <<>>
         /\ FlattenSeq(<<s>>) = s
         /\ FlattenSeq(<<s, t>>) = s \o t
<1>1. FlattenSeq(<<>>) = <<>>
  <2>1. <<>> = [i \in 1..0 |-> <<>>[i]] /\ 0 \in Nat
    OBVIOUS
  <2> QED BY <2>1, FlattenSteps
<1>2. FlattenSeq(<<s>>) = s
  <2>1. <<s>> = [i \in 1..1 |-> IF i = 1 THEN s ELSE <<>>] /\ 1 \in Nat /\ 1 \in 1..1
    OBVIOUS
  <2>2. FlattenSeq(<<s>>) = IF 1 \in 1..1 THEN s ELSE <<>>
    BY <2>1, FlattenOne, Zenon
  <2> QED BY <2>1, <2>2
<1>3. FlattenSeq(<<s, t>>) = s \o t
  <2> DEFINE two == <<s, t>>
  <2>1. /\ two = [i \in 1..(1 + 1) |-> two[i]]
        /\ \A i \in 1..(1 + 1) : IsSeq(two[i])
        /\ [i \in 1..1 |-> two[i]] = <<s>> /\ two[1 + 1] = t /\ 1 \in Nat
    OBVIOUS
  <2> HIDE DEF two
  <2>2. FlattenSeq(two) = FlattenSeq([i \in 1..1 |-> two[i]]) \o two[1 + 1]
    BY <2>1, FlattenGrows
  <2> QED BY <1>2, <2>1, <2>2 DEF two
<1> QED BY <1>1, <1>2, <1>3

\* An item that is no chain stands for one filter or none.
LEMMA KindsOfLeaf ==
  ASSUME NEW item, item.name # "chain"
  PROVE  KindsOf(item) = KindOf(item) /\ IsSeq(KindOf(item))
<1> DEFINE s == KindOf(item)
           kinds == [i \in DOMAIN Members(item) |-> KindOf(Members(item)[i])]
<1>1. kinds = <<s>>
  BY DEF Members
<1>2. IsSeq(s)
  BY FewKinds DEF KindOf
<1>3. KindsOf(item) = FlattenSeq(kinds)
  BY DEF KindsOf
<1> HIDE DEF s, kinds
<1>4. FlattenSeq(<<s>>) = s
  BY <1>2, FlattenFew
<1> QED BY <1>1, <1>2, <1>3, <1>4 DEF s

\* A chain stands for a list of filters.
LEMMA KindsOfIsSeq ==
  ASSUME NEW item, item.name = "chain" => IsSeq(item.params.filters)
  PROVE  IsSeq(KindsOf(item))
<1>1. CASE item.name = "chain"
  <2> DEFINE list == item.params.filters
             kinds == [i \in DOMAIN list |-> KindOf(list[i])]
             n == Len(list)
  <2>1. n \in Nat /\ DOMAIN list = 1..n
    BY <1>1 DEF IsSeq
  <2>2. \A x : IsSeq(KindOf(x))
    BY FewKinds DEF KindOf
  <2>3. kinds = [i \in 1..n |-> kinds[i]] /\ \A i \in 1..n : IsSeq(kinds[i])
    BY <2>1, <2>2
  <2>4. KindsOf(item) = FlattenSeq(kinds)
    BY <1>1, Zenon DEF KindsOf, Members
  <2> HIDE DEF kinds, n
  <2> QED BY <2>1, <2>3, <2>4, FlattenIsSeq
<1>2. CASE item.name # "chain"
  BY <1>2, KindsOfLeaf
<1> QED BY <1>1, <1>2

\* A spec stands for the filters of its item.
LEMMA KindsOfSpec ==
  ASSUME NEW item, item.name = "chain" => "filters" \in DOMAIN SpecOf(item).params
  PROVE  /\ SpecOf(item).name = item.name
         /\ KindsOf(SpecOf(item)) = KindsOf(item)
         /\ item.name = "chain" => "params" \in DOMAIN item /\ SpecOf(item).params = item.params
<1>1. /\ SpecOf(item).name = item.name
      /\ SpecOf(item).params = Get(item, "params", [p \in {} |-> 0])
  BY DEF SpecOf
<1>2. CASE item.name = "chain"
  <2>1. "params" \in DOMAIN item
    BY <1>1, <1>2 DEF Get
  <2>2. SpecOf(item).params = item.params
    BY <1>1, <2>1 DEF Get
  <2>3. Members(SpecOf(item)) = Members(item)
    BY <1>1, <1>2, <2>2 DEF Members
  <2> QED BY <1>1, <2>1, <2>2, <2>3 DEF KindsOf
<1>3. CASE item.name # "chain"
  <2>1. KindOf(SpecOf(item)) = KindOf(item)
    BY <1>1 DEF KindOf
  <2> QED BY <1>1, <1>3, <2>1, KindsOfLeaf
<1> QED BY <1>2, <1>3

\* The specs that are made of the older settings, and of those of the request log.
LEMMA MadeSpecs ==
  ASSUME NEW c
  PROVE  /\ LegacySpecs(c) =
              IF c.blocked # <<>>
              THEN IF c.cacheDir # <<>> THEN <<KeywordSpec(c), CacheSpec(c)>> ELSE <<KeywordSpec(c)>>
              ELSE IF c.cacheDir # <<>> THEN <<CacheSpec(c)>> ELSE <<>>
         /\ KeywordSpec(c).name = "keyword" /\ DOMAIN KeywordSpec(c) = {"name", "params"}
         /\ CacheSpec(c).name = "result_cache" /\ DOMAIN CacheSpec(c) = {"name", "params"}
         /\ RequestLogSpec(c).name = "request_log" /\ DOMAIN RequestLogSpec(c) = {"name", "params"}
<1> DEFINE a == KeywordSpec(c)
           b == CacheSpec(c)
           blocks == IF c.blocked # <<>> THEN <<a>> ELSE <<>>
           caches == IF c.cacheDir # <<>> THEN <<b>> ELSE <<>>
<1>1. /\ a.name = "keyword" /\ DOMAIN a = {"name", "params"}
      /\ b.name = "result_cache" /\ DOMAIN b = {"name", "params"}
  BY DEF KeywordSpec, CacheSpec
<1>2. RequestLogSpec(c).name = "request_log" /\ DOMAIN RequestLogSpec(c) = {"name", "params"}
  BY DEF RequestLogSpec
<1>3. LegacySpecs(c) = blocks \o caches
  BY Zenon DEF LegacySpecs
<1> HIDE DEF a, b
<1>4. /\ <<a>> \o <<b>> = <<a, b>> /\ <<a>> \o <<>> = <<a>>
      /\ <<>> \o <<b>> = <<b>> /\ <<>> \o <<>> = <<>>
  <2>1. <<a>> \in Seq({a}) /\ <<b>> \in Seq({b}) /\ <<>> \in Seq({a})
    OBVIOUS
  <2>2. <<a>> \o <<b>> = <<a, b>>
    <3> DEFINE two == <<a>> \o <<b>>
    <3>1. <<a>> \in Seq({a, b}) /\ <<b>> \in Seq({a, b}) /\ Len(<<a>>) = 1 /\ Len(<<b>>) = 1
      OBVIOUS
    <3>2. two \in Seq({a, b}) /\ Len(two) = 2 /\ two[1] = a /\ two[2] = b
      BY <3>1
    <3> HIDE DEF two
    <3>3. two = <<a, b>>
      BY <3>2
    <3> QED BY <3>3 DEF two
  <2>3. <<a>> \o <<>> = <<a>> /\ <<>> \o <<b>> = <<b>> /\ <<>> \o <<>> = <<>>
    BY <2>1
  <2> QED BY <2>2, <2>3
<1>5. LegacySpecs(c) = IF c.blocked # <<>>
                       THEN IF c.cacheDir # <<>> THEN <<a, b>> ELSE <<a>>
                       ELSE IF c.cacheDir # <<>> THEN <<b>> ELSE <<>>
  BY <1>3, <1>4, Zenon
<1> QED BY <1>1, <1>2, <1>5 DEF a, b

\* A spec has a name and params, and the filters of a chain are a list.
IsASpec(s) ==
  /\ DOMAIN s = {"name", "params"}
  /\ s.name = "chain" /\ "filters" \in DOMAIN s.params => IsSeq(s.params.filters)

\* All that PluginSpecs makes are specs.
LEMMA SpecsAreSpecs ==
  ASSUME NEW c, c = FromEnvMap(Told), PluginSpecs(c).out = "ok"
  PROVE  IsSeq(PluginSpecs(c).made) /\ \A i \in DOMAIN PluginSpecs(c).made : IsASpec(PluginSpecs(c).made[i])
<1> DEFINE s == PluginSpecs(c).made
<1>1. PICK base :
        /\ IsSeq(base) /\ s = WithRequestLog(c, base)
        /\ PluginsRule => /\ IsSeq(Listed) /\ \A i \in DOMAIN Listed : IsSpec(Listed[i])
                          /\ Told["PLUGINS"] \in DOMAIN ItemsOf
                          /\ base = [i \in DOMAIN Listed |-> SpecOf(Listed[i])]
        /\ ~ PluginsRule => Listed = <<>> /\ base = LegacySpecs(c)
  BY SpecsAsTold
<1>2. ASSUME NEW i \in DOMAIN base
      PROVE  IsASpec(base[i])
  <2>1. CASE PluginsRule
    <3> DEFINE item == Listed[i]
    <3>1. base[i] = SpecOf(item) /\ IsSpec(item) /\ i \in DOMAIN Listed
      BY <1>1, <1>2, <2>1
    <3>2. DOMAIN SpecOf(item) = {"name", "params"}
      BY DEF SpecOf
    <3>3. ASSUME SpecOf(item).name = "chain", "filters" \in DOMAIN SpecOf(item).params
          PROVE  IsSeq(SpecOf(item).params.filters)
      <4>1. item.name = "chain"
        BY <3>3 DEF SpecOf
      <4>2. "params" \in DOMAIN item /\ SpecOf(item).params = item.params
        BY <3>3, <4>1, KindsOfSpec
      <4>3. item \in ToSet(ItemsOf[Told["PLUGINS"]])
        BY <2>1, <3>1 DEF Listed, ToSet
      <4>4. {"name", "params"} \subseteq DOMAIN item
        BY <3>1, <4>2 DEF IsSpec
      <4> QED BY <1>1, <2>1, <3>3, <4>1, <4>2, <4>3, <4>4, ConfigAssumption DEF IsSeq
    <3> QED BY <3>1, <3>2, <3>3 DEF IsASpec
  <2>2. CASE ~ PluginsRule
    <3> DEFINE a == KeywordSpec(c)
               b == CacheSpec(c)
    <3>0. base = <<a, b>> \/ base = <<a>> \/ base = <<b>> \/ base = <<>>
      BY <1>1, <2>2, MadeSpecs, Zenon
    <3> HIDE DEF a, b
    <3>1. base[i] \in {a, b}
      BY <1>2, <3>0
    <3> QED BY <3>1, MadeSpecs DEF IsASpec, a, b
  <2> QED BY <2>1, <2>2
<1>3. IsASpec(RequestLogSpec(c))
  BY MadeSpecs DEF IsASpec
<1> DEFINE no == \A i \in DOMAIN base : base[i].name # "request_log"
<1>4. /\ IsSeq(s)
      /\ ~ (c.logs /\ no) => s = base
      /\ c.logs /\ no => /\ DOMAIN s = 1..(Len(base) + 1)
                         /\ \A i \in DOMAIN base : s[i] = base[i]
                         /\ s[Len(base) + 1] = RequestLogSpec(c)
  BY <1>1, LogAdded
<1>5. Len(base) \in Nat /\ DOMAIN base = 1..Len(base)
  BY <1>1 DEF IsSeq
<1> HIDE DEF s, no
<1>6. ASSUME NEW i \in DOMAIN s
      PROVE  IsASpec(s[i])
  <2>1. CASE c.logs /\ no
    <3>1. i \in DOMAIN base \/ i = Len(base) + 1
      BY <1>4, <1>5, <1>6, <2>1
    <3> QED BY <1>2, <1>3, <1>4, <2>1, <3>1
  <2>2. CASE ~ (c.logs /\ no)
    BY <1>2, <1>4, <1>6, <2>2
  <2> QED BY <2>1, <2>2
<1> QED BY <1>4, <1>6 DEF s

\* The filters are those that were told, and no name is unknown.
LEMMA FiltersAsTold ==
  ASSUME NEW c, c = FromEnvMap(Told), PluginSpecs(c).out = "ok",
         NEW s, s = PluginSpecs(c).made, LoadPrefilters(s).out = "ok"
  PROVE  /\ PluginsRule => \A i \in DOMAIN Listed : Listed[i].name \in Registered
         /\ Kinds(LoadPrefilters(s).made) = IF PluginsRule THEN KindsListed ELSE KindsOfOldSettings
<1>1. PICK base :
        /\ IsSeq(base) /\ s = WithRequestLog(c, base)
        /\ PluginsRule => /\ IsSeq(Listed) /\ \A i \in DOMAIN Listed : IsSpec(Listed[i])
                          /\ Told["PLUGINS"] \in DOMAIN ItemsOf
                          /\ base = [i \in DOMAIN Listed |-> SpecOf(Listed[i])]
        /\ ~ PluginsRule => Listed = <<>> /\ base = LegacySpecs(c)
  BY SpecsAsTold
<1> DEFINE no == \A i \in DOMAIN base : base[i].name # "request_log"
           n == Len(base)
<1>2. /\ ~ (c.logs /\ no) => s = base
      /\ c.logs /\ no => /\ DOMAIN s = 1..(n + 1)
                         /\ \A i \in DOMAIN base : s[i] = base[i]
                         /\ s[n + 1] = RequestLogSpec(c)
  BY <1>1, LogAdded
<1>3. n \in Nat /\ DOMAIN base = 1..n
  BY <1>1 DEF IsSeq
<1>4. IsSeq(s) /\ \A i \in DOMAIN s : IsASpec(s[i])
  BY SpecsAreSpecs
<1>5. /\ \A i \in DOMAIN s : /\ s[i].name \in Registered
                             /\ s[i].name = "chain" => "filters" \in DOMAIN s[i].params
      /\ Kinds(LoadPrefilters(s).made) = FlattenSeq([i \in DOMAIN s |-> KindsOf(s[i])])
  BY <1>4, ListKinds DEF IsASpec
<1>6. \A i \in DOMAIN base : i \in DOMAIN s /\ s[i] = base[i]
  BY <1>2, <1>3
<1> DEFINE kinds == [i \in 1..n |-> KindsOf(base[i])]
<1>7. Kinds(LoadPrefilters(s).made) = FlattenSeq(kinds)
  <2>1. \A i \in 1..n : IsSeq(KindsOf(base[i]))
    BY <1>3, <1>4, <1>5, <1>6, KindsOfIsSeq DEF IsASpec
  <2>2. CASE c.logs /\ no
    <3> DEFINE more == [i \in 1..(n + 1) |-> KindsOf(s[i])]
               last == KindsOf(s[n + 1])
    <3>1. last = <<>>
      <4>1. s[n + 1].name = "request_log"
        BY <1>2, <2>2, MadeSpecs
      <4> QED BY <4>1, KindsOfLeaf DEF KindOf, FilterKinds
    <3>2. [i \in DOMAIN s |-> KindsOf(s[i])] = more
      BY <1>2, <2>2
    <3>3. /\ more = [i \in 1..(n + 1) |-> more[i]]
          /\ [i \in 1..n |-> more[i]] = kinds
          /\ more[n + 1] = last
      BY <1>3, <1>6
    <3>4. \A i \in 1..(n + 1) : IsSeq(more[i])
      <4>1. \A i \in 1..(n + 1) : i = n + 1 \/ i \in 1..n
        BY <1>3
      <4> QED BY <1>3, <1>6, <2>1, <3>1, <4>1, FewKinds
    <3> HIDE DEF more, last, kinds
    <3>5. FlattenSeq(more) = FlattenSeq(kinds) \o <<>>
      BY <1>3, <3>1, <3>3, <3>4, FlattenGrows
    <3>6. IsSeq(FlattenSeq(kinds))
      BY <1>3, <2>1, FlattenIsSeq DEF kinds
    <3>7. FlattenSeq(kinds) \o <<>> = FlattenSeq(kinds)
      BY <3>6 DEF IsSeq
    <3> QED BY <1>5, <3>2, <3>5, <3>7
  <2>3. CASE ~ (c.logs /\ no)
    BY <1>2, <1>3, <1>5, <2>3
  <2> QED BY <2>2, <2>3
<1>8. CASE PluginsRule
  <2>1. DOMAIN Listed = 1..n /\ \A i \in 1..n : base[i] = SpecOf(Listed[i])
    BY <1>1, <1>3, <1>8
  <2>2. ASSUME NEW i \in 1..n
        PROVE  Listed[i].name \in Registered /\ KindsOf(base[i]) = KindsOf(Listed[i])
    <3>1. SpecOf(Listed[i]).name = Listed[i].name
      BY DEF SpecOf
    <3>2. /\ SpecOf(Listed[i]).name \in Registered
          /\ SpecOf(Listed[i]).name = "chain" => "filters" \in DOMAIN SpecOf(Listed[i]).params
      BY <1>3, <1>5, <1>6, <2>1
    <3> QED BY <2>1, <3>1, <3>2, KindsOfSpec
  <2>3. kinds = [i \in DOMAIN Listed |-> KindsOf(Listed[i])]
    BY <2>1, <2>2
  <2>4. FlattenSeq(kinds) = KindsListed
    BY <2>3, Zenon DEF KindsListed
  <2> QED BY <1>7, <1>8, <2>1, <2>2, <2>4
<1>9. CASE ~ PluginsRule
  <2> DEFINE a == KeywordSpec(c)
             b == CacheSpec(c)
             blocks == c.blocked # <<>>
             caches == c.cacheDir # <<>>
  <2>1. base = IF blocks THEN IF caches THEN <<a, b>> ELSE <<a>>
               ELSE IF caches THEN <<b>> ELSE <<>>
    BY <1>1, <1>9, MadeSpecs, Zenon
  <2>2. KindsOf(a) = <<"keyword">> /\ KindsOf(b) = <<"result_cache">>
    BY MadeSpecs, KindsOfLeaf DEF KindOf, FilterKinds
  <2>3. /\ blocks <=> "PREFILTER_BLOCKLIST" \in DOMAIN Told /\ Items(Told["PREFILTER_BLOCKLIST"]) # <<>>
        /\ caches <=> /\ "PREFILTER_RESULT_CACHE_DIR" \in DOMAIN Told
                      /\ Told["PREFILTER_RESULT_CACHE_DIR"] \notin Blank
    <3>1. c.blocked = EnvList(Told, "PREFILTER_BLOCKLIST")
      BY ConfigFields, Zenon
    <3>2. c.cacheDir = EnvText(Told, "PREFILTER_RESULT_CACHE_DIR", <<>>)
      BY ConfigFields, Zenon
    <3>3. \A x : <<x>> # <<>>
      OBVIOUS
    <3> QED BY <3>1, <3>2, <3>3, Zenon DEF EnvList, EnvText
  <2> HIDE DEF a, b, blocks, caches
  <2>4. KindsOfOldSettings = (IF blocks THEN <<"keyword">> ELSE <<>>)
                             \o (IF caches THEN <<"result_cache">> ELSE <<>>)
    BY <2>3, Zenon DEF KindsOfOldSettings
  <2>5. kinds = IF blocks THEN IF caches THEN <<<<"keyword">>, <<"result_cache">>>> ELSE <<<<"keyword">>>>
                ELSE IF caches THEN <<<<"result_cache">>>> ELSE <<>>
    <3>1. CASE blocks /\ caches
      BY <2>1, <2>2, <3>1
    <3>2. CASE blocks /\ ~ caches
      BY <2>1, <2>2, <3>2
    <3>3. CASE ~ blocks /\ caches
      BY <2>1, <2>2, <3>3
    <3>4. CASE ~ blocks /\ ~ caches
      BY <2>1, <2>2, <3>4
    <3> QED BY <3>1, <3>2, <3>3, <3>4
  <2> DEFINE k == <<"keyword">>
             r == <<"result_cache">>
  <2>6. IsSeq(k) /\ IsSeq(r) /\ IsSeq(<<>>)
    BY FewKinds
  <2> HIDE DEF kinds
  <2>7. FlattenSeq(kinds) = KindsOfOldSettings
    <3> HIDE DEF k, r
    <3>1. k \o <<>> = k /\ <<>> \o r = r /\ <<>> \o <<>> = <<>>
      BY <2>6 DEF IsSeq
    <3>2. /\ FlattenSeq(<<>>) = <<>> /\ FlattenSeq(<<k>>) = k /\ FlattenSeq(<<r>>) = r
          /\ FlattenSeq(<<k, r>>) = k \o r
      BY <2>6, FlattenFew
    <3>3. /\ kinds = IF blocks THEN IF caches THEN <<k, r>> ELSE <<k>>
                     ELSE IF caches THEN <<r>> ELSE <<>>
          /\ KindsOfOldSettings = (IF blocks THEN k ELSE <<>>) \o (IF caches THEN r ELSE <<>>)
      BY <2>4, <2>5, Zenon DEF k, r
    <3> QED BY <3>1, <3>2, <3>3, Zenon
  <2> QED BY <1>7, <1>9, <2>7
<1> QED BY <1>8, <1>9

\* The one log is that of PLUGINS, or that of the settings where PLUGINS has none.
LEMMA LoggerAsTold ==
  ASSUME NEW c, c = FromEnvMap(Told), PluginSpecs(c).out = "ok",
         NEW s, s = PluginSpecs(c).made,
         LoadRequestLoggers(s).out = "ok", logger = LoadRequestLoggers(s).made
  PROVE  LogAsTold
<1>1. PICK base :
        /\ IsSeq(base) /\ s = WithRequestLog(c, base)
        /\ PluginsRule => /\ IsSeq(Listed) /\ \A i \in DOMAIN Listed : IsSpec(Listed[i])
                          /\ Told["PLUGINS"] \in DOMAIN ItemsOf
                          /\ base = [i \in DOMAIN Listed |-> SpecOf(Listed[i])]
        /\ ~ PluginsRule => Listed = <<>> /\ base = LegacySpecs(c)
  BY SpecsAsTold
<1> DEFINE no == \A i \in DOMAIN base : base[i].name # "request_log"
           n == Len(base)
<1>2. /\ IsSeq(s)
      /\ ~ (c.logs /\ no) => s = base
      /\ c.logs /\ no => /\ DOMAIN s = 1..(n + 1)
                         /\ \A i \in DOMAIN base : s[i] = base[i]
                         /\ s[n + 1] = RequestLogSpec(c)
  BY <1>1, LogAdded
<1>3. n \in Nat /\ DOMAIN base = 1..n
  BY <1>1 DEF IsSeq
<1>4. /\ (\A i \in DOMAIN s : s[i].name # "request_log") => logger = <<>>
      /\ \A k \in DOMAIN s : s[k].name = "request_log" =>
           /\ \A i \in DOMAIN s : s[i].name = "request_log" => i = k
           /\ \E x : x.path = Get(s[k].params, "path", "lpcache-request.log") /\ logger = <<x>>
  BY <1>2, LoggersLoaded
<1>5. \A x : <<x>> # <<>> /\ <<x>>[1] = x
  OBVIOUS
<1>6. CASE LogsListed # {}
  <2>1. PICK k \in LogsListed : TRUE
    BY <1>6
  <2>2. PluginsRule
    <3>1. DOMAIN <<>> = {}
      OBVIOUS
    <3> QED BY <1>1, <2>1, <3>1 DEF LogsListed
  <2>3. \A i \in DOMAIN Listed : i \in DOMAIN base /\ base[i] = SpecOf(Listed[i])
    BY <1>1, <2>2
  <2>4. \A i \in DOMAIN Listed : /\ base[i].name = Listed[i].name
                                 /\ base[i].params = Get(Listed[i], "params", [p \in {} |-> 0])
    <3>1. ASSUME NEW item
          PROVE  /\ SpecOf(item).name = item.name
                 /\ SpecOf(item).params = Get(item, "params", [p \in {} |-> 0])
      BY DEF SpecOf
    <3> QED BY <2>3, <3>1, Zenon
  <2>5. k \in DOMAIN Listed /\ Listed[k].name = "request_log"
    BY <2>1 DEF LogsListed
  <2>6. s = base
    BY <1>2, <2>3, <2>4, <2>5
  <2>7. /\ \A i \in DOMAIN Listed : Listed[i].name = "request_log" => i = k
        /\ \E x : x.path = Get(base[k].params, "path", "lpcache-request.log") /\ logger = <<x>>
    BY <1>4, <2>3, <2>4, <2>5, <2>6
  <2>8. LogsListed = {k}
    BY <2>5, <2>7 DEF LogsListed
  <2>9. logger # <<>> /\ logger[1].path = Get(base[k].params, "path", "lpcache-request.log")
    BY <1>5, <2>7
  <2> QED BY <1>6, <2>4, <2>5, <2>8, <2>9 DEF LogAsTold, DefaultLog
<1>7. CASE LogsListed = {}
  <2>1. no
    <3>1. CASE PluginsRule
      <4>1. \A i \in DOMAIN base : i \in DOMAIN Listed /\ base[i].name = Listed[i].name
        BY <1>1, <3>1 DEF SpecOf
      <4> QED BY <1>7, <4>1 DEF LogsListed
    <3>2. CASE ~ PluginsRule
      <4> DEFINE a == KeywordSpec(c)
                 b == CacheSpec(c)
      <4>1. base = <<a, b>> \/ base = <<a>> \/ base = <<b>> \/ base = <<>>
        BY <1>1, <3>2, MadeSpecs, Zenon
      <4>2. a.name # "request_log" /\ b.name # "request_log"
        BY MadeSpecs
      <4> HIDE DEF a, b
      <4> QED BY <4>1, <4>2
    <3> QED BY <3>1, <3>2
  <2>2. c.logs = Parsed(BoolOf, Told, "REQUEST_LOG", FALSE) /\ c.logs \in BOOLEAN
    BY ConfigLogs, Zenon
  <2>3. CASE c.logs
    <3>1. n + 1 \in DOMAIN s /\ s[n + 1].name = "request_log"
      <4>1. DOMAIN s = 1..(n + 1) /\ s[n + 1] = RequestLogSpec(c)
        BY <1>2, <2>1, <2>3, Zenon
      <4>2. n + 1 \in 1..(n + 1)
        BY <1>3
      <4>3. RequestLogSpec(c).name = "request_log"
        BY MadeSpecs, Zenon
      <4> HIDE DEF n
      <4> QED BY <4>1, <4>2, <4>3, Zenon
    <3>2. logger # <<>>
      BY <1>4, <1>5, <3>1
    <3>3. (logger # <<>>) = c.logs
      BY <2>2, <2>3, <3>2
    <3> QED BY <1>7, <2>2, <3>3, Zenon DEF LogAsTold
  <2>4. CASE ~ c.logs
    <3>1. logger = <<>>
      BY <1>2, <1>4, <2>1, <2>4
    <3>2. (logger # <<>>) = c.logs
      BY <2>2, <2>4, <3>1
    <3> QED BY <1>7, <2>2, <3>2, Zenon DEF LogAsTold
  <2> QED BY <2>3, <2>4
<1> QED BY <1>6, <1>7

\* There is a dashboard where PLUGINS lists one.
LEMMA DashboardAsTold ==
  ASSUME NEW c, c = FromEnvMap(Told), PluginSpecs(c).out = "ok",
         NEW s, s = PluginSpecs(c).made,
         LoadDashboard(s).out = "ok", board = LoadDashboard(s).made
  PROVE  BoardAsTold
<1>1. PICK base :
        /\ IsSeq(base) /\ s = WithRequestLog(c, base)
        /\ PluginsRule => /\ IsSeq(Listed) /\ \A i \in DOMAIN Listed : IsSpec(Listed[i])
                          /\ Told["PLUGINS"] \in DOMAIN ItemsOf
                          /\ base = [i \in DOMAIN Listed |-> SpecOf(Listed[i])]
        /\ ~ PluginsRule => Listed = <<>> /\ base = LegacySpecs(c)
  BY SpecsAsTold
<1> DEFINE no == \A i \in DOMAIN base : base[i].name # "request_log"
           n == Len(base)
<1>2. /\ IsSeq(s)
      /\ ~ (c.logs /\ no) => s = base
      /\ c.logs /\ no => /\ DOMAIN s = 1..(n + 1)
                         /\ \A i \in DOMAIN base : s[i] = base[i]
                         /\ s[n + 1] = RequestLogSpec(c)
  BY <1>1, LogAdded
<1>3. n \in Nat /\ DOMAIN base = 1..n
  BY <1>1 DEF IsSeq
<1>4. board # <<>> <=> \E i \in DOMAIN s : s[i].name = "dashboard"
  BY <1>2, BoardLoaded
<1>5. (\E i \in DOMAIN s : s[i].name = "dashboard") <=> \E i \in DOMAIN base : base[i].name = "dashboard"
  <2>1. CASE c.logs /\ no
    <3>1. \A i \in DOMAIN s : i \in DOMAIN base \/ i = n + 1
      BY <1>2, <1>3, <2>1
    <3>2. \A i \in DOMAIN base : i \in DOMAIN s
      BY <1>2, <1>3, <2>1
    <3>3. s[n + 1].name = "request_log"
      BY <1>2, <2>1, MadeSpecs
    <3> QED BY <1>2, <2>1, <3>1, <3>2, <3>3
  <2>2. CASE ~ (c.logs /\ no)
    BY <1>2, <2>2
  <2> QED BY <2>1, <2>2
<1>6. (\E i \in DOMAIN base : base[i].name = "dashboard") <=> \E i \in DOMAIN Listed : Listed[i].name = "dashboard"
  <2>1. CASE PluginsRule
    <3>1. DOMAIN base = DOMAIN Listed /\ \A i \in DOMAIN Listed : base[i].name = Listed[i].name
      BY <1>1, <2>1 DEF SpecOf
    <3> QED BY <3>1
  <2>2. CASE ~ PluginsRule
    <3> DEFINE a == KeywordSpec(c)
               b == CacheSpec(c)
    <3>1. base = <<a, b>> \/ base = <<a>> \/ base = <<b>> \/ base = <<>>
      BY <1>1, <2>2, MadeSpecs, Zenon
    <3>2. a.name # "dashboard" /\ b.name # "dashboard"
      BY MadeSpecs
    <3>3. Listed = <<>>
      BY <1>1, <2>2
    <3> HIDE DEF a, b
    <3> QED BY <3>1, <3>2, <3>3
  <2> QED BY <2>1, <2>2
<1> QED BY <1>4, <1>5, <1>6 DEF BoardAsTold

--------------------------------------------------------------------------------
(* The inductive invariant: what each stage has behind it.                   *)

Configured == Stages \ {"cli", "config"}
Specified == Configured \ {"specs"}
Filtered == Specified \ {"prefilter"}
Logged == Filtered \ {"logger"}
Boarded == Logged \ {"logFile", "dashboard"}

\* The settings, and the config made of them.
SettingsInv ==
  /\ pc \in Stages \cup Ends
  /\ given \in Given
  /\ pc \in Stages \ {"cli"} => Options.out = "ok"
  /\ cfg = <<>> \/ cfg = FromEnvMap(Told)
  /\ pc \in {"cli", "config"} => cfg = <<>>
  /\ pc \in Configured => cfg = FromEnvMap(Told)

\* What each loader made was made of what it was told.
PluginsInv ==
  /\ \A i \in DOMAIN specs : DOMAIN specs[i] = {"name", "params"}
  /\ Len(logger) <= 1 /\ Len(board) <= 1 /\ Len(store) <= 1
  /\ pc \in Specified => PluginSpecs(cfg).out = "ok" /\ specs = PluginSpecs(cfg).made
  /\ pc \in Filtered => /\ LoadPrefilters(specs).out = "ok"
                        /\ filters = LoadPrefilters(specs).made /\ store = ResultStore(filters)
  /\ pc \in Logged => /\ LoadRequestLoggers(specs).out = "ok"
                      /\ logger = LoadRequestLoggers(specs).made
  /\ pc \in Boarded => LoadDashboard(specs).out = "ok" /\ board = LoadDashboard(specs).made

\* The backends left are the last ones, and while every one so far has its client,
\* the clients are those of the first ones.
ClientsInv ==
  /\ IsSeq(clients) /\ IsSeq(left)
  /\ cfg = <<>> => clients = <<>> /\ left = <<>>
  /\ cfg # <<>> =>
       /\ IsSeq(cfg.backends)
       /\ Len(clients) + Len(left) <= Len(cfg.backends)
       /\ \A j \in DOMAIN left : left[j] = cfg.backends[(Len(cfg.backends) - Len(left)) + j]
       /\ Len(clients) + Len(left) = Len(cfg.backends) =>
            \A i \in DOMAIN clients : clients[i].url = cfg.backends[i].url
  /\ pc \in {"slots", "bind", "router", "serving"} => left = <<>>
  /\ pc \in {"bind", "router", "serving"} => Len(clients) = Len(cfg.backends)

StartupInv == SettingsInv /\ PluginsInv /\ ClientsInv

\* The stages after one another.
LEMMA StageSets ==
  /\ Configured = {"specs", "prefilter", "logger", "logFile", "dashboard",
                   "clients", "slots", "bind", "router", "serving"}
  /\ Specified = {"prefilter", "logger", "logFile", "dashboard",
                  "clients", "slots", "bind", "router", "serving"}
  /\ Filtered = {"logger", "logFile", "dashboard", "clients", "slots", "bind", "router", "serving"}
  /\ Logged = {"logFile", "dashboard", "clients", "slots", "bind", "router", "serving"}
  /\ Boarded = {"clients", "slots", "bind", "router", "serving"}
BY DEF Configured, Specified, Filtered, Logged, Boarded, Stages

\* No adapter or one is at most one.
LEMMA AtMostOneLength ==
  ASSUME NEW s, AtMostOne(s)
  PROVE  Len(s) <= 1
<1>1. Len(<<>>) <= 1 /\ \A x : Len(<<x>>) <= 1
  OBVIOUS
<1> QED BY <1>1 DEF AtMostOne

\* It holds before the first stage.
LEMMA StartupInit ==
  Init => StartupInv
<1> SUFFICES ASSUME Init PROVE StartupInv
  OBVIOUS
<1>1. IsSeq(<<>>) /\ Len(<<>>) = 0 /\ DOMAIN <<>> = {}
  BY FewKinds
<1>2. SettingsInv
  BY StageSets DEF Init, SettingsInv, Given, Stages
<1>3. PluginsInv
  BY <1>1, StageSets DEF Init, PluginsInv
<1>4. ClientsInv
  BY <1>1 DEF Init, ClientsInv
<1> QED BY <1>2, <1>3, <1>4 DEF StartupInv

\* What was given stays as it was given.
LEMMA GivenStays ==
  ASSUME [Next]_vars
  PROVE  given' = given /\ Options' = Options /\ Told' = Told
<1>1. given' = given
  BY DEF Next, vars, plugins, ReadArguments, ReadConfig, ReadSpecs, LoadPrefilter, LoadLogger,
         PrepareLog, LoadBoard, MakeClient, ClientsMade, MakeSlots, Bind, Serve, Shutdown
<1> QED BY <1>1, Zenon DEF Options, Told

\* Every stage is reached with the settings read, and the config made of them.
LEMMA SettingsStep ==
  ASSUME SettingsInv, [Next]_vars
  PROVE  SettingsInv'
<1> USE StageSets DEF SettingsInv, Stages, Ends, EndFor
<1>1. given' = given /\ Options' = Options /\ Told' = Told
  BY GivenStays
<1>2. CASE ReadArguments
  BY <1>1, <1>2 DEF ReadArguments
<1>3. CASE ReadConfig
  BY <1>1, <1>3 DEF ReadConfig
<1>4. CASE ReadSpecs
  BY <1>1, <1>4 DEF ReadSpecs
<1>5. CASE LoadPrefilter
  BY <1>1, <1>5 DEF LoadPrefilter
<1>6. CASE LoadLogger
  BY <1>1, <1>6 DEF LoadLogger
<1>7. CASE LoadBoard
  BY <1>1, <1>7 DEF LoadBoard
<1>8. CASE ClientsMade
  BY <1>1, <1>8 DEF ClientsMade
<1>9. CASE MakeSlots
  BY <1>1, <1>9 DEF MakeSlots
<1>10. CASE Serve
  BY <1>1, <1>10 DEF Serve
<1>11. CASE Shutdown
  BY <1>1, <1>11 DEF Shutdown
<1>12. ASSUME NEW good \in BOOLEAN, PrepareLog(good) \/ MakeClient(~ good) \/ Bind(good)
       PROVE  SettingsInv'
  BY <1>1, <1>12 DEF PrepareLog, MakeClient, Bind
<1>13. CASE UNCHANGED vars
  BY <1>1, <1>13 DEF vars
<1> QED BY <1>2, <1>3, <1>4, <1>5, <1>6, <1>7, <1>8, <1>9, <1>10, <1>11, <1>12, <1>13 DEF Next

\* A loader that fails ends the process, and a stage that passes keeps what it made.
LEMMA PluginsStep ==
  ASSUME SettingsInv, PluginsInv, [Next]_vars
  PROVE  PluginsInv'
<1>0. pc \in Specified => IsSeq(specs)
  BY StageSets, SpecsAreSpecs DEF SettingsInv, PluginsInv
<1> USE StageSets DEF PluginsInv, Ends, EndFor
<1>1. CASE ReadArguments
  BY <1>1 DEF ReadArguments, plugins
<1>2. CASE ReadConfig
  BY <1>2 DEF ReadConfig, plugins
<1>3. CASE ReadSpecs
  <2>1. cfg = FromEnvMap(Told) /\ cfg' = cfg
    BY <1>3 DEF ReadSpecs, SettingsInv
  <2>2. \A i \in DOMAIN PluginSpecs(cfg).made : DOMAIN PluginSpecs(cfg).made[i] = {"name", "params"}
    <3>1. CASE PluginSpecs(cfg).out = "ok"
      BY <2>1, <3>1, SpecsAreSpecs DEF IsASpec
    <3>2. CASE PluginSpecs(cfg).out # "ok"
      <4>1. PluginSpecs(cfg) = Failed("BadPlugins") \/ \E s : PluginSpecs(cfg) = Built(s)
        BY Zenon DEF PluginSpecs
      <4>2. PluginSpecs(cfg).made = <<>> /\ DOMAIN <<>> = {}
        BY <3>2, <4>1, Outcomes
      <4> QED BY <4>2
    <3> QED BY <3>1, <3>2
  <2> QED BY <1>3, <2>1, <2>2 DEF ReadSpecs
<1>4. CASE LoadPrefilter
  <2> DEFINE made == LoadPrefilters(specs)
  <2>1. Len(ResultStore(made.made)) <= 1
    BY DEF ResultStore
  <2> QED BY <1>4, <2>1 DEF LoadPrefilter
<1>5. CASE LoadLogger
  <2>1. Len(LoadRequestLoggers(specs).made) <= 1
    <3>1. AtMostOne(LoadRequestLoggers(specs).made)
      BY <1>5, <1>0, LoggersLoaded DEF LoadLogger
    <3> QED BY <3>1, AtMostOneLength
  <2> QED BY <1>5, <2>1 DEF LoadLogger
<1>6. CASE LoadBoard
  <2>1. Len(LoadDashboard(specs).made) <= 1
    <3>1. AtMostOne(LoadDashboard(specs).made)
      BY <1>6, <1>0, BoardLoaded DEF LoadBoard
    <3> QED BY <3>1, AtMostOneLength
  <2> QED BY <1>6, <2>1 DEF LoadBoard
<1>7. CASE ClientsMade
  BY <1>7 DEF ClientsMade, plugins
<1>8. CASE MakeSlots
  BY <1>8 DEF MakeSlots, plugins
<1>9. CASE Serve
  BY <1>9 DEF Serve, plugins
<1>10. CASE Shutdown
  BY <1>10 DEF Shutdown, plugins
<1>11. ASSUME NEW good \in BOOLEAN, PrepareLog(good) \/ MakeClient(~ good) \/ Bind(good)
       PROVE  PluginsInv'
  BY <1>11 DEF PrepareLog, MakeClient, Bind, plugins
<1>12. CASE UNCHANGED vars
  BY <1>12 DEF vars, plugins
<1> QED BY <1>1, <1>2, <1>3, <1>4, <1>5, <1>6, <1>7, <1>8, <1>9, <1>10, <1>11, <1>12 DEF Next

\* The backends get their clients in order, and one that fails is never made up for.
LEMMA ClientsStep ==
  ASSUME SettingsInv, ClientsInv, [Next]_vars
  PROVE  ClientsInv'
<1> USE DEF ClientsInv, Ends, EndFor
<1>1. CASE ReadArguments
  BY <1>1 DEF ReadArguments
<1>2. CASE ReadConfig
  <2>1. CASE FromEnvPanics(Told)
    BY <1>2, <2>1 DEF ReadConfig
  <2>2. CASE ~ FromEnvPanics(Told)
    <3> DEFINE n == Len(left')
    <3>1. /\ cfg = <<>> /\ clients = <<>> /\ clients' = clients
          /\ cfg' = FromEnvMap(Told) /\ left' = cfg'.backends /\ pc' = "specs"
      BY <1>2, <2>2 DEF ReadConfig, SettingsInv
    <3>2. cfg' # <<>> /\ IsSeq(left')
      <4> DEFINE c == FromEnvMap(Told)
      <4>1. c # <<>> /\ c.backends = Backends(Told)
        BY ConfigFields, Zenon
      <4>2. IsSeq(c.backends)
        BY <4>1, BackendsAreSeq, Zenon
      <4> QED BY <3>1, <4>1, <4>2, Zenon
    <3>3. n \in Nat /\ DOMAIN left' = 1..n
      BY <3>2 DEF IsSeq
    <3>4. Len(clients') = 0 /\ DOMAIN clients' = {} /\ IsSeq(clients')
      BY <3>1, FewKinds
    <3>5. \A j \in DOMAIN left' : (n - n) + j = j
      BY <3>3
    <3> QED BY <3>1, <3>2, <3>3, <3>4, <3>5
  <2> QED BY <2>1, <2>2
<1>3. CASE ReadSpecs
  BY <1>3 DEF ReadSpecs
<1>4. CASE LoadPrefilter
  BY <1>4 DEF LoadPrefilter
<1>5. CASE LoadLogger
  BY <1>5 DEF LoadLogger
<1>6. CASE LoadBoard
  BY <1>6 DEF LoadBoard
<1>7. CASE ClientsMade
  BY <1>7 DEF ClientsMade
<1>8. CASE MakeSlots
  BY <1>8 DEF MakeSlots
<1>9. CASE Serve
  BY <1>9 DEF Serve
<1>10. CASE Shutdown
  BY <1>10 DEF Shutdown
<1>11. ASSUME NEW good \in BOOLEAN, PrepareLog(good) \/ Bind(good)
       PROVE  ClientsInv'
  BY <1>11 DEF PrepareLog, Bind
<1>12. ASSUME NEW good \in BOOLEAN, MakeClient(~ good)
       PROVE  ClientsInv'
  <2> DEFINE made == Llama([url |-> Head(left).url, api_key |-> cfg.apiKey,
                            timeout_secs |-> cfg.timeout], ~ good).made
             n == Len(cfg.backends)
             k == n - Len(left)
  <2>1. /\ pc = "clients" /\ pc' = pc /\ cfg' = cfg /\ left # <<>>
        /\ clients' = clients \o made /\ left' = Tail(left)
    BY <1>12 DEF MakeClient
  <2>2. cfg # <<>>
    BY <2>1
  <2>3. /\ IsSeq(cfg.backends) /\ Len(clients) + Len(left) <= n
        /\ \A j \in DOMAIN left : left[j] = cfg.backends[k + j]
        /\ Len(clients) + Len(left) = n =>
             \A i \in DOMAIN clients : clients[i].url = cfg.backends[i].url
    BY <2>2
  <2>0. IsSeq(clients) /\ IsSeq(left)
    OBVIOUS
  <2> HIDE DEF ClientsInv
  <2>4. /\ n \in Nat /\ Len(left) \in Nat /\ DOMAIN left = 1..Len(left)
        /\ Len(clients) \in Nat /\ DOMAIN clients = 1..Len(clients)
    BY <2>0, <2>3 DEF IsSeq
  <2>5. Len(left) >= 1
    BY <2>0, <2>1, <2>4 DEF IsSeq
  <2>6. /\ IsSeq(left') /\ Len(left') = Len(left) - 1 /\ DOMAIN left' = 1..(Len(left) - 1)
        /\ \A j \in DOMAIN left' : left'[j] = left[j + 1]
    <3>1. left \in Seq(ToSet(left))
      BY <2>0 DEF IsSeq
    <3>2. /\ Tail(left) \in Seq(ToSet(left)) /\ Len(Tail(left)) = Len(left) - 1
          /\ DOMAIN Tail(left) = 1..(Len(left) - 1)
          /\ \A j \in 1..(Len(left) - 1) : Tail(left)[j] = left[j + 1]
      BY <2>1, <3>1
    <3> QED BY <2>1, <3>2, OwnValues
  <2>7. \A j \in DOMAIN left' : left'[j] = cfg.backends[(n - Len(left')) + j]
    <3>1. \A j \in DOMAIN left' : j + 1 \in DOMAIN left /\ k + (j + 1) = (n - Len(left')) + j
      BY <2>4, <2>6
    <3> QED BY <2>3, <2>6, <3>1
  <2>8. made = <<>> \/ \E x : x.url = Head(left).url /\ made = <<x>>
    <3> DEFINE p == [url |-> Head(left).url, api_key |-> cfg.apiKey, timeout_secs |-> cfg.timeout]
    <3>1. p.url = Head(left).url
      OBVIOUS
    <3> HIDE DEF p
    <3>2. \/ Llama(p, ~ good) = Failed("BadParams")
          \/ \E x : x.url = p.url /\ Llama(p, ~ good) = Built(<<x>>)
      BY OthersMake, Zenon
    <3>3. CASE Llama(p, ~ good) = Failed("BadParams")
      BY <3>3, Outcomes, Zenon DEF p
    <3>4. CASE \E x : x.url = p.url /\ Llama(p, ~ good) = Built(<<x>>)
      <4>1. PICK x : x.url = p.url /\ Llama(p, ~ good) = Built(<<x>>)
        BY <3>4
      <4>2. Llama(p, ~ good).made = <<x>>
        BY <4>1, Outcomes, Zenon
      <4> QED BY <3>1, <4>1, <4>2 DEF p
    <3> QED BY <3>2, <3>3, <3>4
  <2> HIDE DEF made
  <2>9. CASE made = <<>>
    <3>1. clients' = clients
      BY <2>0, <2>1, <2>9 DEF IsSeq
    <3>2. Len(clients') + Len(left') < n
      BY <2>3, <2>4, <2>6, <3>1
    <3> QED BY <2>0, <2>1, <2>2, <2>3, <2>4, <2>6, <2>7, <3>1, <3>2 DEF ClientsInv
  <2>10. ASSUME NEW x, x.url = Head(left).url, made = <<x>>
         PROVE  ClientsInv'
    <3> DEFINE m == Len(clients)
    <3>1. /\ IsSeq(clients') /\ Len(clients') = m + 1 /\ DOMAIN clients' = 1..(m + 1)
          /\ \A i \in 1..m : clients'[i] = clients[i]
          /\ clients'[m + 1] = x
      <4> DEFINE X == ToSet(clients) \cup {x}
      <4>1. clients \in Seq(X)
        <5>1. clients \in Seq(ToSet(clients)) /\ ToSet(clients) \subseteq X
          BY <2>0 DEF IsSeq
        <5> HIDE DEF X
        <5> QED BY <5>1, OwnValues
      <4>2. <<x>> \in Seq(X) /\ Len(<<x>>) = 1 /\ <<x>>[1] = x
        OBVIOUS
      <4> HIDE DEF X
      <4>3. /\ clients \o <<x>> \in Seq(X) /\ Len(clients \o <<x>>) = m + 1
            /\ DOMAIN (clients \o <<x>>) = 1..(m + 1)
            /\ \A i \in 1..m : (clients \o <<x>>)[i] = clients[i]
            /\ (clients \o <<x>>)[m + 1] = x
        BY <4>1, <4>2
      <4> QED BY <2>1, <2>10, <4>3, OwnValues
    <3>2. x.url = cfg.backends[k + 1].url
      <4>1. Head(left) = left[1] /\ 1 \in DOMAIN left
        BY <2>0, <2>4, <2>5 DEF IsSeq
      <4> QED BY <2>3, <2>10, <4>1
    <3>3. Len(clients') + Len(left') <= n
      BY <2>3, <2>4, <2>6, <3>1
    <3>4. ASSUME Len(clients') + Len(left') = n, NEW i \in DOMAIN clients'
          PROVE  clients'[i].url = cfg.backends[i].url
      <4>1. m + Len(left) = n /\ k = m
        BY <2>4, <2>6, <3>1, <3>4
      <4>2. i \in 1..m \/ i = m + 1
        BY <2>4, <3>1, <3>4
      <4> HIDE DEF k
      <4> QED BY <2>3, <2>4, <3>1, <3>2, <4>1, <4>2
    <3> QED BY <2>1, <2>2, <2>3, <2>6, <2>7, <3>1, <3>3, <3>4 DEF ClientsInv
  <2> QED BY <2>8, <2>9, <2>10
<1>13. CASE UNCHANGED vars
  BY <1>13 DEF vars
<1> QED BY <1>1, <1>2, <1>3, <1>4, <1>5, <1>6, <1>7, <1>8, <1>9, <1>10, <1>11, <1>12, <1>13 DEF Next

--------------------------------------------------------------------------------
(* Theorems about start-up.                                                  *)

\* The inductive invariant.
THEOREM StartupInvariant == Spec => []StartupInv
<1>1. StartupInv /\ [Next]_vars => StartupInv'
  <2> SUFFICES ASSUME StartupInv, [Next]_vars PROVE StartupInv'
    OBVIOUS
  <2>1. SettingsInv' /\ PluginsInv' /\ ClientsInv'
    BY SettingsStep, PluginsStep, ClientsStep DEF StartupInv
  <2> QED BY <2>1 DEF StartupInv
<1> QED BY StartupInit, <1>1, PTL DEF Spec

\* The variables keep their types: there is at most one logger, one dashboard and
\* one result store, the port and the queue are in their bounds, and every backend
\* has a client, has none, or waits for one (main.rs, load_* in registry.rs).
THEOREM StartupTypeCorrect == Spec => []StartupTypeOK
<1>1. StartupInv => StartupTypeOK
  <2> SUFFICES ASSUME StartupInv PROVE StartupTypeOK
    OBVIOUS
  <2>1. cfg # <<>> => cfg.port \in Nat /\ cfg.port < 65536 /\ cfg.queue >= 1
    <3>1. cfg # <<>> => cfg = FromEnvMap(Told)
      BY DEF StartupInv, SettingsInv
    <3> QED BY <3>1, ConfigNumbers
  <2> QED BY <2>1 DEF StartupInv, SettingsInv, PluginsInv, ClientsInv, StartupTypeOK, Given
<1> QED BY StartupInvariant, <1>1, PTL

\* A proxy that serves has every plugin it was told to have and no other, in the
\* order it was told, one client for each backend in its place, and options before
\* environment: main got there by way of every loader (main.rs, config.rs,
\* registry.rs).
THEOREM ServesAsTold == Spec => []ServesAsConfigured
<1>1. StartupInv => ServesAsConfigured
  <2> SUFFICES ASSUME StartupInv, pc = "serving"
               PROVE  /\ OptionsWin
                      /\ PluginsRule => \A i \in DOMAIN Listed : Listed[i].name \in Registered
                      /\ Kinds(filters) = IF PluginsRule THEN KindsListed ELSE KindsOfOldSettings
                      /\ store # <<>> <=> \E i \in DOMAIN filters : filters[i].kind = "result_cache"
                      /\ LogAsTold /\ BoardAsTold
                      /\ Len(clients) = Len(cfg.backends)
                      /\ \A i \in DOMAIN clients : clients[i].url = cfg.backends[i].url
    BY DEF ServesAsConfigured
  <2>1. /\ given \in Given /\ Options.out = "ok" /\ cfg = FromEnvMap(Told)
        /\ PluginSpecs(cfg).out = "ok" /\ specs = PluginSpecs(cfg).made
        /\ LoadPrefilters(specs).out = "ok"
        /\ filters = LoadPrefilters(specs).made /\ store = ResultStore(filters)
        /\ LoadRequestLoggers(specs).out = "ok" /\ logger = LoadRequestLoggers(specs).made
        /\ LoadDashboard(specs).out = "ok" /\ board = LoadDashboard(specs).made
    BY StageSets DEF StartupInv, SettingsInv, PluginsInv, Stages
  <2>2. OptionsWin
    BY <2>1, OptionsFirst
  <2>3. /\ PluginsRule => \A i \in DOMAIN Listed : Listed[i].name \in Registered
        /\ Kinds(filters) = IF PluginsRule THEN KindsListed ELSE KindsOfOldSettings
    BY <2>1, FiltersAsTold
  <2>4. store # <<>> <=> \E i \in DOMAIN filters : filters[i].kind = "result_cache"
    BY <2>1 DEF ResultStore
  <2>5. LogAsTold /\ BoardAsTold
    BY <2>1, LoggerAsTold, DashboardAsTold
  <2>6. /\ Len(clients) = Len(cfg.backends)
        /\ \A i \in DOMAIN clients : clients[i].url = cfg.backends[i].url
    <3>1. cfg # <<>> /\ left = <<>> /\ Len(left) = 0 /\ Len(clients) = Len(cfg.backends)
      <4>1. cfg # <<>>
        BY <2>1, ConfigFields, Zenon
      <4> QED BY <4>1 DEF StartupInv, ClientsInv
    <3>2. Len(clients) \in Nat
      BY DEF StartupInv, ClientsInv, IsSeq
    <3> QED BY <3>1, <3>2 DEF StartupInv, ClientsInv
  <2> QED BY <2>2, <2>3, <2>4, <2>5, <2>6
<1> QED BY StartupInvariant, <1>1, PTL

================================================================================
