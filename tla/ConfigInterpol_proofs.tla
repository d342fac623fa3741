----------------------- MODULE ConfigInterpol_proofs -----------------------
(***************************************************************************)
(* Proofs about ConfigInterpol, for any configurations and environments.   *)
(***************************************************************************)
EXTENDS ConfigInterpol, Induction

-----------------------------------------------------------------------------
\* A level of the recursion in Expansion, which looks at the level below.
Level(map, f, n) ==
  [o \in Option |->
     IF n = 0 \/ o \notin DOMAIN map THEN Raise
     ELSE IF map[o].ref = None THEN <<map[o].text>>
     ELSE LET rest == f[n - 1][map[o].ref] IN
          IF rest = Raise THEN Raise ELSE <<map[o].text>> \o rest]

\* A function that has the first m + 1 levels.
Levels(map, f, m) == f = [n \in 0 .. m |-> Level(map, f, n)]

LEMMA LevelDepends ==
  ASSUME NEW map, NEW f, NEW g, NEW n, n = 0 \/ f[n - 1] = g[n - 1]
  PROVE  Level(map, f, n) = Level(map, g, n)
BY DEF Level

LEMMA LevelsExist ==
  ASSUME NEW map PROVE \E f : Levels(map, f, Depth)
<1> DEFINE S == {n \in 0 .. Depth : \E f : Levels(map, f, n)}
<1>1. 0 \in S
  <2> DEFINE f == [n \in 0 .. 0 |-> Level(map, << >>, 0)]
  <2>1. \A n \in 0 .. 0 : f[n] = Level(map, f, n)
    BY LevelDepends
  <2>2. f = [n \in 0 .. 0 |-> f[n]]
    OBVIOUS
  <2> HIDE DEF f
  <2>3. Levels(map, f, 0)
    BY <2>1, <2>2 DEF Levels
  <2>4. QED
    BY <2>3, ConfigAssumption
<1>2. ASSUME NEW m \in 0 .. Depth - 1, m \in S PROVE m + 1 \in S
  <2>1. PICK f : Levels(map, f, m)
    BY <1>2
  <2> DEFINE g == [n \in 0 .. m + 1 |-> IF n <= m THEN f[n] ELSE Level(map, f, n)]
  <2>2. ASSUME NEW n \in 0 .. m + 1
        PROVE  g[n] = Level(map, g, n)
    <3>1. g[n] = Level(map, f, n)
      BY <2>1 DEF Levels
    <3>2. n = 0 \/ f[n - 1] = g[n - 1]
      OBVIOUS
    <3> HIDE DEF g
    <3>3. QED
      BY <3>1, <3>2, LevelDepends
  <2>3. g = [n \in 0 .. m + 1 |-> g[n]]
    OBVIOUS
  <2> HIDE DEF g
  <2>4. Levels(map, g, m + 1)
    BY <2>2, <2>3 DEF Levels
  <2>5. QED
    BY <2>4, ConfigAssumption
<1>3. Depth \in Nat
  BY ConfigAssumption
<1> HIDE DEF S
<1>4. 0 .. Depth \subseteq S
  BY <1>1, <1>2, <1>3, RangeInduction
<1>5. QED
  BY <1>3, <1>4 DEF S

\* The recursive function is what its equation says.
LEMMA ExpansionLevels ==
  ASSUME NEW map PROVE Levels(map, Expansion(map), Depth)
<1> DEFINE P(f) == Levels(map, f, Depth)
<1>1. Expansion(map) = CHOOSE f : P(f)
  BY DEF Levels, Level, Expansion
<1>2. \E f : P(f)
  BY LevelsExist
<1> HIDE DEF P
<1>3. P(CHOOSE f : P(f))
  BY <1>2, Zenon
<1>4. P(Expansion(map))
  BY <1>1, <1>3, Zenon
<1>5. QED
  BY <1>4 DEF P

\* The references of map lead along p to the text t.
Chain(map, p, t) ==
  /\ p \in Seq(Option) /\ t \in Seq(Text) /\ Len(t) = Len(p) /\ Len(p) > 0
  /\ \A i \in 1 .. Len(p) : /\ p[i] \in DOMAIN map
                            /\ map[p[i]] = [text |-> t[i], ref |-> IF i = Len(p) THEN None ELSE p[i + 1]]

\* What the value v of option o after n levels says of the chains from o.
Means(map, o, n, v) ==
  /\ v # Raise => \E p : Chain(map, p, v) /\ p[1] = o /\ Len(p) <= n
  /\ v = Raise => \A p, t : Chain(map, p, t) /\ p[1] = o => Len(p) > n

LEMMA Single ==
  ASSUME NEW X, NEW x \in X
  PROVE  <<x>> \in Seq(X) /\ Len(<<x>>) = 1 /\ <<x>>[1] = x
OBVIOUS

LEMMA Cons ==
  ASSUME NEW X, NEW x \in X, NEW s \in Seq(X)
  PROVE  <<x>> \o s \in Seq(X)
OBVIOUS

LEMMA ChainStart ==
  ASSUME NEW map, NEW p, NEW t, Chain(map, p, t)
  PROVE  /\ p \in Seq(Option) /\ t \in Seq(Text) /\ Len(p) \in Nat \ {0} /\ p[1] \in DOMAIN map
         /\ Len(p) = 1 => map[p[1]].ref = None
         /\ Len(p) # 1 => map[p[1]].ref = p[2]
<1>1. /\ p \in Seq(Option) /\ t \in Seq(Text) /\ Len(p) \in Nat \ {0}
      /\ \A i \in 1 .. Len(p) : /\ p[i] \in DOMAIN map
                                /\ map[p[i]] = [text |-> t[i], ref |-> IF i = Len(p) THEN None ELSE p[i + 1]]
  BY DEF Chain
<1>2. 1 \in 1 .. Len(p) /\ 1 + 1 = 2
  BY <1>1
<1>3. map[p[1]] = [text |-> t[1], ref |-> IF 1 = Len(p) THEN None ELSE p[1 + 1]]
  BY <1>1, <1>2
<1>4. map[p[1]].ref = IF 1 = Len(p) THEN None ELSE p[2]
  BY <1>2, <1>3
<1>5. QED
  BY <1>1, <1>2, <1>4

LEMMA ChainCons ==
  ASSUME NEW map, NEW o \in Option, NEW x \in Text, NEW q, NEW t, Chain(map, q, t),
         o \in DOMAIN map, map[o] = [text |-> x, ref |-> q[1]]
  PROVE  /\ Chain(map, <<o>> \o q, <<x>> \o t) /\ (<<o>> \o q)[1] = o
         /\ Len(<<o>> \o q) = Len(q) + 1
<1> DEFINE p == <<o>> \o q
           u == <<x>> \o t
<1>1. /\ q \in Seq(Option) /\ t \in Seq(Text) /\ Len(t) = Len(q) /\ Len(q) \in Nat /\ Len(q) > 0
      /\ \A i \in 1 .. Len(q) : /\ q[i] \in DOMAIN map
                                /\ map[q[i]] = [text |-> t[i], ref |-> IF i = Len(q) THEN None ELSE q[i + 1]]
  BY DEF Chain
<1>2. /\ p \in Seq(Option) /\ Len(p) = Len(q) + 1 /\ p[1] = o
      /\ \A i \in 2 .. Len(q) + 1 : p[i] = q[i - 1]
  BY <1>1
<1>3. /\ u \in Seq(Text) /\ Len(u) = Len(t) + 1 /\ u[1] = x
      /\ \A i \in 2 .. Len(t) + 1 : u[i] = t[i - 1]
  BY <1>1
<1> HIDE DEF p, u
<1>4. ASSUME NEW i \in 1 .. Len(p)
      PROVE  /\ p[i] \in DOMAIN map
             /\ map[p[i]] = [text |-> u[i], ref |-> IF i = Len(p) THEN None ELSE p[i + 1]]
  <2>1. CASE i = 1
    <3>1. p[2] = q[1] /\ i # Len(p)
      BY <1>1, <1>2, <2>1
    <3>2. QED
      BY <1>2, <1>3, <2>1, <3>1
  <2>2. CASE i # 1
    <3>1. i - 1 \in 1 .. Len(q) /\ i \in 2 .. Len(q) + 1 /\ p[i] = q[i - 1] /\ u[i] = t[i - 1]
      BY <1>1, <1>2, <1>3, <2>2
    <3>2. CASE i = Len(p)
      BY <1>1, <1>2, <3>1, <3>2
    <3>3. CASE i # Len(p)
      <4>1. p[i + 1] = q[i - 1 + 1] /\ i - 1 # Len(q)
        BY <1>1, <1>2, <3>1, <3>3
      <4>2. QED
        BY <1>1, <3>1, <3>3, <4>1
    <3>4. QED
      BY <3>2, <3>3
  <2>3. QED
    BY <2>1, <2>2
<1>5. Chain(map, p, u)
  BY <1>1, <1>2, <1>3, <1>4 DEF Chain
<1>6. QED
  BY <1>2, <1>5 DEF p, u

LEMMA ChainTail ==
  ASSUME NEW map, NEW p, NEW t, Chain(map, p, t), Len(p) > 1
  PROVE  /\ Chain(map, Tail(p), Tail(t)) /\ Tail(p)[1] = map[p[1]].ref
         /\ Len(Tail(p)) = Len(p) - 1
<1> DEFINE q == Tail(p)
           u == Tail(t)
<1>1. /\ p \in Seq(Option) /\ t \in Seq(Text) /\ Len(t) = Len(p) /\ Len(p) \in Nat
      /\ \A i \in 1 .. Len(p) : /\ p[i] \in DOMAIN map
                                /\ map[p[i]] = [text |-> t[i], ref |-> IF i = Len(p) THEN None ELSE p[i + 1]]
  BY DEF Chain
<1>2. /\ q \in Seq(Option) /\ Len(q) = Len(p) - 1 /\ \A i \in 1 .. Len(p) - 1 : q[i] = p[i + 1]
      /\ u \in Seq(Text) /\ Len(u) = Len(p) - 1 /\ \A i \in 1 .. Len(p) - 1 : u[i] = t[i + 1]
  BY <1>1
<1> HIDE DEF q, u
<1>3. ASSUME NEW i \in 1 .. Len(q)
      PROVE  /\ q[i] \in DOMAIN map
             /\ map[q[i]] = [text |-> u[i], ref |-> IF i = Len(q) THEN None ELSE q[i + 1]]
  <2>1. i + 1 \in 1 .. Len(p) /\ i \in 1 .. Len(p) - 1 /\ q[i] = p[i + 1] /\ u[i] = t[i + 1]
    BY <1>1, <1>2
  <2>2. CASE i = Len(q)
    BY <1>1, <1>2, <2>1, <2>2
  <2>3. CASE i # Len(q)
    <3>1. q[i + 1] = p[i + 1 + 1] /\ i + 1 # Len(p)
      BY <1>1, <1>2, <2>1, <2>3
    <3>2. QED
      BY <1>1, <2>1, <2>3, <3>1
  <2>4. QED
    BY <2>2, <2>3
<1>4. Chain(map, q, u)
  BY <1>1, <1>2, <1>3 DEF Chain
<1>5. q[1] = map[p[1]].ref
  <2>1. q[1] = p[2] /\ Len(p) # 1
    BY <1>1, <1>2
  <2>2. QED
    BY <2>1, ChainStart
<1>6. QED
  BY <1>2, <1>4, <1>5 DEF q, u

\* One level up from a right level is a right one.
LEMMA LevelMeans ==
  ASSUME NEW map, IsPartial(map, Option, Value), NEW f, NEW n \in Nat, NEW o \in Option,
         \A q \in Option : Means(map, q, n, f[n][q])
  PROVE  Means(map, o, n + 1, Level(map, f, n + 1)[o])
<1> DEFINE v == Level(map, f, n + 1)[o]
<1>1. CASE o \notin DOMAIN map
  <2>1. v = Raise
    BY <1>1 DEF Level
  <2>2. \A p, t : Chain(map, p, t) => p[1] \in DOMAIN map
    BY ChainStart
  <2>3. QED
    BY <1>1, <2>1, <2>2 DEF Means
<1>2. ASSUME o \in DOMAIN map
      PROVE  /\ map[o] \in Value /\ map[o].text \in Text /\ map[o].ref \in Option \cup {None}
             /\ map[o] = [text |-> map[o].text, ref |-> map[o].ref]
  BY <1>2 DEF IsPartial, Value
<1>3. CASE o \in DOMAIN map /\ map[o].ref = None
  <2>1. v = <<map[o].text>>
    BY <1>3 DEF Level
  <2>2. v \in Seq(Text) /\ Len(v) = 1 /\ v[1] = map[o].text
    <3>1. map[o].text \in Text
      BY <1>2, <1>3
    <3> HIDE DEF v
    <3>2. QED
      BY <2>1, <3>1, Single
  <2> HIDE DEF v
  <2>3. v # Raise
    BY <2>2, ConfigAssumption
  <2>5. Chain(map, <<o>>, v) /\ <<o>>[1] = o /\ Len(<<o>>) <= n + 1
    <3> DEFINE p == <<o>>
    <3>1. p \in Seq(Option) /\ Len(p) = 1 /\ p[1] = o
      BY Single
    <3>2. map[o] = [text |-> v[1], ref |-> None]
      BY <1>2, <1>3, <2>2
    <3> HIDE DEF p
    <3>3. \A i \in 1 .. Len(p) : i = 1
      BY <3>1
    <3>4. Chain(map, p, v)
      <4>1. \A i \in 1 .. Len(p) : p[i] \in DOMAIN map /\ i = Len(p) /\ map[p[i]] = [text |-> v[i], ref |-> None]
        BY <1>3, <3>1, <3>2, <3>3
      <4>2. p \in Seq(Option) /\ v \in Seq(Text) /\ Len(v) = Len(p) /\ Len(p) > 0
        BY <2>2, <3>1
      <4>3. QED
        BY <4>1, <4>2 DEF Chain
    <3>6. Len(p) <= n + 1
      BY <3>1
    <3>5. QED
      BY <3>1, <3>4, <3>6 DEF p
  <2>4. Means(map, o, n + 1, v)
    BY <2>3, <2>5 DEF Means
  <2>6. QED
    BY <2>4 DEF v
<1>4. CASE o \in DOMAIN map /\ map[o].ref # None
  <2> DEFINE r == map[o].ref
             rest == f[n][r]
  <2>1. r \in Option /\ Means(map, r, n, rest)
    BY <1>2, <1>4
  <2>2. v = IF rest = Raise THEN Raise ELSE <<map[o].text>> \o rest
    BY <1>4 DEF Level
  <2>3. CASE rest = Raise
    <3>1. ASSUME NEW p, NEW t, Chain(map, p, t), p[1] = o PROVE Len(p) > n + 1
      <4>1. PICK k \in Nat \ {0} : k = Len(p)
        BY <3>1, ChainStart
      <4>2. k > 1 /\ Len(p) > 1
        <5>1. Len(p) = 1 => map[p[1]].ref = None
          BY <3>1, ChainStart
        <5>2. Len(p) # 1
          BY <1>4, <3>1, <5>1
        <5>3. QED
          BY <4>1, <5>2
      <4>3. Chain(map, Tail(p), Tail(t)) /\ Tail(p)[1] = r /\ Len(Tail(p)) = Len(p) - 1
        BY <3>1, <4>2, ChainTail
      <4>4. Len(Tail(p)) > n
        BY <2>1, <2>3, <4>3 DEF Means
      <4>5. QED
        BY <4>1, <4>3, <4>4
    <3>2. QED
      BY <2>2, <2>3, <3>1 DEF Means
  <2>4. CASE rest # Raise
    <3>1. PICK q : Chain(map, q, rest) /\ q[1] = r /\ Len(q) <= n
      BY <2>1, <2>4 DEF Means
    <3>2. map[o].text \in Text /\ map[o] = [text |-> map[o].text, ref |-> q[1]]
      BY <1>2, <1>4, <3>1
    <3>3. /\ Chain(map, <<o>> \o q, <<map[o].text>> \o rest) /\ (<<o>> \o q)[1] = o
          /\ Len(<<o>> \o q) = Len(q) + 1
      BY <1>4, <3>1, <3>2, ChainCons
    <3>4. v = <<map[o].text>> \o rest /\ Len(q) \in Nat /\ v \in Seq(Text)
      <4>1. rest \in Seq(Text) /\ Len(q) \in Nat
        BY <3>1, ChainStart
      <4>2. <<map[o].text>> \o rest \in Seq(Text)
        BY <3>2, <4>1, Cons
      <4>3. QED
        BY <2>2, <2>4, <4>1, <4>2
    <3>5. Len(<<o>> \o q) <= n + 1
      BY <3>1, <3>3, <3>4
    <3>6. v # Raise
      BY <3>4, ConfigAssumption
    <3>7. Chain(map, <<o>> \o q, v)
      BY <3>3, <3>4
    <3> HIDE DEF v
    <3>8. QED
      <4>1. Means(map, o, n + 1, v)
        BY <3>3, <3>5, <3>6, <3>7 DEF Means
      <4>2. QED
        BY <4>1 DEF v
  <2>5. QED
    BY <2>3, <2>4
<1>5. QED
  BY <1>1, <1>3, <1>4

\* The value of an option is the text along the chain from it, if there is one of
\* at most Depth options, and an exception otherwise.
LEMMA ExpansionMeans ==
  ASSUME NEW map, IsPartial(map, Option, Value), NEW o \in Option
  PROVE  Means(map, o, Depth, Expansion(map)[Depth][o])
<1> DEFINE f == Expansion(map)
           S == {n \in 0 .. Depth : \A q \in Option : Means(map, q, n, f[n][q])}
<1>1. Levels(map, f, Depth) /\ Depth \in Nat
  BY ExpansionLevels, ConfigAssumption
<1> HIDE DEF f
<1>2. \A n \in 0 .. Depth : f[n] = Level(map, f, n)
  BY <1>1 DEF Levels
<1>3. 0 \in S
  <2>1. ASSUME NEW q \in Option PROVE f[0][q] = Raise
    <3>1. f[0] = Level(map, f, 0)
      BY <1>1, <1>2
    <3>2. Level(map, f, 0)[q] = Raise
      BY DEF Level
    <3>3. QED
      BY <3>1, <3>2
  <2>2. \A p, t : Chain(map, p, t) => Len(p) > 0
    BY ChainStart
  <2>3. \A q \in Option : Means(map, q, 0, f[0][q])
    BY <2>1, <2>2 DEF Means
  <2>4. QED
    BY <1>1, <2>3
<1>4. ASSUME NEW n \in 0 .. Depth - 1, n \in S PROVE n + 1 \in S
  <2>1. \A q \in Option : Means(map, q, n, f[n][q])
    BY <1>4
  <2>2. ASSUME NEW q \in Option PROVE Means(map, q, n + 1, f[n + 1][q])
    <3>1. f[n + 1] = Level(map, f, n + 1) /\ n \in Nat
      BY <1>1, <1>2
    <3>2. QED
      BY <2>1, <3>1, LevelMeans
  <2>3. QED
    BY <1>1, <2>2
<1> HIDE DEF S
<1>5. 0 .. Depth \subseteq S
  BY <1>1, <1>3, <1>4, RangeInduction
<1>6. QED
  BY <1>1, <1>5 DEF S, f

-----------------------------------------------------------------------------
\* What has the types of TypeOK by itself; the types of values follow from Inv.
TypeInv ==
  /\ config \in Bases /\ overlay_config \in Overlays \cup {None} /\ environ \in Environs
  /\ todo \subseteq IF pc = "print" THEN Section \ {FAKE} ELSE Section \X Option
  /\ sections = [x \in DOMAIN sections |-> sections[x]]

\* A configuration has the option that it is the source of.
LEMMA SourceHas ==
  ASSUME TypeInv, NEW k \in Wanted
  PROVE  /\ IsConfig(Source(k)) /\ k \in Options(Source(k)) /\ k[1] \in DOMAIN Source(k).section
         /\ k \in Section \X Option
<1>1. IsConfig(Source(k))
  BY ConfigAssumption DEF TypeInv, Source, Overlaid
<1>2. k \in Options(Source(k))
  BY DEF Wanted, Source, Overlaid
<1>3. QED
  BY <1>1, <1>2 DEF Options

\* The dictionary that get() looks into.
LEMMA UnifiedSays ==
  ASSUME TypeInv, NEW c, IsConfig(c), NEW s \in DOMAIN c.section
  PROVE  /\ IsPartial(Unified(environ, c, s), Option, Value)
         /\ \A o, v : Says(c, s, o, v) <=>
              o \in DOMAIN Unified(environ, c, s) /\ v = Unified(environ, c, s)[o]
<1> DEFINE m == Unified(environ, c, s)
<1>1. /\ IsPartial(environ, Option, Value) /\ IsPartial(c.section[s], Option, Value)
      /\ IsPartial(c.DEFAULT, Option, Value)
  BY ConfigAssumption DEF TypeInv, IsConfig
<1>2. /\ m = [o \in DOMAIN m |-> m[o]]
      /\ DOMAIN m = DOMAIN environ \cup DOMAIN c.section[s] \cup DOMAIN c.DEFAULT
      /\ \A o \in DOMAIN m : m[o] = IF o \in DOMAIN environ THEN environ[o]
                                   ELSE IF o \in DOMAIN c.section[s] THEN c.section[s][o]
                                   ELSE c.DEFAULT[o]
  BY DEF Unified, Over
<1> HIDE DEF m
<1>3. IsPartial(m, Option, Value)
  BY <1>1, <1>2 DEF IsPartial
<1>4. ASSUME NEW o, NEW v PROVE Says(c, s, o, v) <=> o \in DOMAIN m /\ v = m[o]
  BY <1>2 DEF Says
<1>5. QED
  BY <1>3, <1>4 DEF m

LEMMA ResolvesChain ==
  ASSUME TypeInv, NEW k \in Wanted, NEW p, NEW t, p \in Seq(Option), t \in Seq(Text)
  PROVE  (Len(p) > 0 /\ Resolves(k, p, t)) <=>
         (Chain(Unified(environ, Source(k), k[1]), p, t) /\ p[1] = k[2])
<1> DEFINE m == Unified(environ, Source(k), k[1])
<1>1. \A o, v : Says(Source(k), k[1], o, v) <=> o \in DOMAIN m /\ v = m[o]
  BY SourceHas, UnifiedSays
<1> HIDE DEF m
<1>2. \A i \in 1 .. Len(p) :
        Says(Source(k), k[1], p[i], [text |-> t[i], ref |-> IF i = Len(p) THEN None ELSE p[i + 1]])
        <=> /\ p[i] \in DOMAIN m
            /\ m[p[i]] = [text |-> t[i], ref |-> IF i = Len(p) THEN None ELSE p[i + 1]]
  BY <1>1
<1>3. (Len(p) > 0 /\ Resolves(k, p, t)) <=> (Chain(m, p, t) /\ p[1] = k[2])
  BY <1>2 DEF Chain, Resolves
<1>4. QED
  BY <1>3 DEF m

\* get() returns the text along the references from the option, in the one file
\* that counts, or raises if there is no such text.
LEMMA GetResolves ==
  ASSUME TypeInv, NEW k \in Wanted
  PROVE  LET v == Get(environ, Source(k), k) IN
         /\ v # Raise => v \in Seq(Text) /\ \E p \in Paths : Resolves(k, p, v)
         /\ v = Raise => \A p \in Paths : \A t \in [1 .. Len(p) -> Text] : ~Resolves(k, p, t)
<1> DEFINE m == Unified(environ, Source(k), k[1])
           v == Get(environ, Source(k), k)
<1>1. IsPartial(m, Option, Value) /\ k[2] \in Option
  BY SourceHas, UnifiedSays
<1>2. Means(m, k[2], Depth, v)
  BY <1>1, ExpansionMeans DEF Get
<1> HIDE DEF m, v
<1>3. Depth \in Nat
  BY ConfigAssumption
<1>4. ASSUME v # Raise PROVE v \in Seq(Text) /\ \E p \in Paths : Resolves(k, p, v)
  <2>1. PICK p : Chain(m, p, v) /\ p[1] = k[2] /\ Len(p) <= Depth
    BY <1>2, <1>4 DEF Means
  <2>2. p \in Seq(Option) /\ v \in Seq(Text)
    BY <2>1, ChainStart
  <2>3. PICK n \in Nat \ {0} : n = Len(p)
    BY <2>1, ChainStart
  <2>4. n \in 1 .. Depth /\ p \in [1 .. n -> Option]
    BY <1>3, <2>1, <2>2, <2>3
  <2>5. p \in Paths
    BY <2>4 DEF Paths
  <2>6. Resolves(k, p, v)
    BY <2>1, <2>2, ResolvesChain DEF m
  <2>7. QED
    BY <2>2, <2>5, <2>6
<1>5. ASSUME v = Raise, NEW p \in Paths, NEW t \in [1 .. Len(p) -> Text], Resolves(k, p, t) PROVE FALSE
  <2>1. PICK n \in 1 .. Depth : p \in [1 .. n -> Option]
    BY DEF Paths
  <2>2. p \in Seq(Option) /\ Len(p) = n /\ n > 0
    BY <1>3, <2>1
  <2>3. t \in Seq(Text)
    BY <1>3, <2>2
  <2>4. Chain(m, p, t) /\ p[1] = k[2]
    BY <1>5, <2>2, <2>3, ResolvesChain DEF m
  <2>5. Len(p) > Depth
    BY <1>2, <1>5, <2>4 DEF Means
  <2>6. QED
    BY <1>3, <2>1, <2>2, <2>5
<1>6. QED
  BY <1>4, <1>5 DEF v

-----------------------------------------------------------------------------
\* Which options the loops have dealt with.
LoopInv ==
  /\ pc \in {"base", "overlay", "default", "print", "failed"}
  /\ DOMAIN sections \subseteq Section \X Option
  /\ pc = "base" => DOMAIN sections \cup todo = Options(config)
  /\ pc = "overlay" => DOMAIN sections \cup todo = Wanted /\ overlay_config # None
                       /\ todo \subseteq Options(overlay_config)
  /\ pc \in {"default", "print"} => DOMAIN sections = Wanted
  /\ DOMAIN sections \subseteq Wanted

\* What PrintDefault and PrintSection can print.
Blocks == {Block(h, s) : h \in Section \cup {None}, s \in Section}

\* What has been printed, and what is left: a section is in one or the other.
PrintInv ==
  /\ pc # "print" => output = << >>
  /\ pc = "print" =>
       /\ output \in Seq(Blocks)
       /\ FAKE \notin todo
       /\ todo \cup {SectionOf(i) : i \in DOMAIN output} = Found
       /\ \A i \in DOMAIN output :
            /\ SectionOf(i) \in Section /\ SectionOf(i) \notin todo
            /\ output[i].header # FAKE
            /\ output[i].options = Block(None, SectionOf(i)).options
       /\ \A i, j \in DOMAIN output : SectionOf(i) = SectionOf(j) => i = j

\* What has been noted is the value that counts.
ValueInv ==
  \A k \in DOMAIN sections : sections[k] = Get(environ, Source(k), k) /\ sections[k] # Raise

Inv == LoopInv /\ PrintInv /\ ValueInv

LEMMA BlockFields ==
  ASSUME NEW h, NEW s
  PROVE  /\ Block(h, s).header = h /\ Block(h, s).options = Block(None, s).options
         /\ DOMAIN Block(h, s).options = {o \in Option : <<s, o>> \in DOMAIN sections}
BY DEF Block

LEMMA InitInv == Init => Inv
<1> SUFFICES ASSUME Init PROVE Inv
  OBVIOUS
<1>1. DOMAIN sections = {}
  BY DEF Init
<1>2. QED
  BY <1>1 DEF Init, Inv, LoopInv, PrintInv, ValueInv

\* A step of a loop deals with one option of its file.
LEMMA NoteStep ==
  ASSUME Inv, NEW k \in todo, pc \in {"base", "overlay"}, Note(k, Get(environ, Source(k), k)),
         UNCHANGED <<config, overlay_config, environ, output>>
  PROVE  Inv'
<1>1. LoopInv /\ PrintInv /\ ValueInv
  BY DEF Inv
<1>2. /\ Options(config)' = Options(config) /\ Wanted' = Wanted
      /\ Options(overlay_config)' = Options(overlay_config)
      /\ \A x : Source(x)' = Source(x)
  BY DEF Options, Wanted, Source, Overlaid
<1>3. Options(config) \subseteq Section \X Option /\ (overlay_config # None => Options(overlay_config) \subseteq Section \X Option)
  BY DEF Options
<1>4. CASE Get(environ, Source(k), k) = Raise
  BY <1>1, <1>2, <1>4 DEF Note, Inv, LoopInv, PrintInv, ValueInv
<1>5. CASE Get(environ, Source(k), k) # Raise
  <2>1. /\ todo' = todo \ {k} /\ pc' = pc
        /\ sections' = [x \in DOMAIN sections \cup {k} |-> IF x = k THEN Get(environ, Source(k), k) ELSE sections[x]]
    BY <1>5 DEF Note
  <2>2. /\ DOMAIN sections' = DOMAIN sections \cup {k}
        /\ \A x \in DOMAIN sections' : sections'[x] = IF x = k THEN Get(environ, Source(k), k) ELSE sections[x]
    BY <2>1
  <2>3. LoopInv'
    <3>1. Options(config) \subseteq Wanted /\ (overlay_config # None => Options(overlay_config) \subseteq Wanted)
      BY DEF Wanted
    <3>2. k \in Wanted /\ DOMAIN sections' \subseteq Wanted'
      BY <1>1, <1>2, <2>2, <3>1 DEF LoopInv
    <3>3. QED
      BY <1>1, <1>2, <1>3, <2>1, <2>2, <3>2 DEF LoopInv
  <2>4. ValueInv'
    BY <1>1, <1>2, <1>5, <2>2 DEF ValueInv
  <2>5. QED
    BY <1>1, <2>1, <2>3, <2>4 DEF Inv, PrintInv
<1>6. QED
  BY <1>4, <1>5

LEMMA NextInv == Inv /\ [Next]_vars => Inv'
<1> SUFFICES ASSUME Inv, [Next]_vars PROVE Inv'
  OBVIOUS
<1>1. LoopInv /\ PrintInv /\ ValueInv
  BY DEF Inv
<1>2. CASE Base
  <2>1. PICK k \in todo : Note(k, Get(environ, Source(k), k))
    BY <1>2 DEF Base, Source
  <2>2. QED
    BY <1>2, <2>1, NoteStep DEF Base
<1>3. CASE Supplement
  <2>1. PICK k \in todo : Note(k, Get(environ, overlay_config, k))
    BY <1>3 DEF Supplement
  <2>2. Source(k) = overlay_config
    BY <1>1, <1>3, <2>1 DEF Supplement, LoopInv, Source, Overlaid
  <2>3. QED
    BY <1>3, <2>1, <2>2, NoteStep DEF Supplement
<1>4. ASSUME UNCHANGED <<config, overlay_config, environ, sections>>
      PROVE  /\ Wanted' = Wanted /\ Options(config)' = Options(config) /\ Found' = Found
             /\ Options(overlay_config)' = Options(overlay_config)
             /\ ValueInv'
             /\ \A h, s : Block(h, s)' = Block(h, s)
  BY <1>1, <1>4 DEF Options, Wanted, Source, Overlaid, ValueInv, Found, Block
<1>5. CASE BaseDone
  BY <1>1, <1>4, <1>5 DEF BaseDone, Inv, LoopInv, PrintInv, Wanted
<1>6. CASE SupplementDone
  BY <1>1, <1>4, <1>6 DEF SupplementDone, Inv, LoopInv, PrintInv
<1>7. CASE PrintDefault
  <2>1. LoopInv'
    BY <1>1, <1>4, <1>7 DEF PrintDefault, LoopInv
  <2>2. CASE FAKE \in Found
    <3>1. output' = <<Block(None, FAKE)>> /\ DOMAIN output' = {1} /\ output'[1] = Block(None, FAKE)
      BY <1>7, <2>2 DEF PrintDefault
    <3>2. output'[1].header = None /\ output'[1].options = Block(None, FAKE).options
      BY <3>1, BlockFields
    <3>3. SectionOf(1)' = FAKE
      BY <3>2 DEF SectionOf
    <3>4. output' \in Seq(Blocks')
      <4>1. Block(None, FAKE)' \in Blocks'
        BY ConfigAssumption DEF Blocks
      <4>2. QED
        BY <1>4, <1>7, <3>1, <4>1 DEF PrintDefault
    <3>5. PrintInv'
      BY <1>4, <1>7, <2>2, <3>1, <3>2, <3>3, <3>4, ConfigAssumption DEF PrintDefault, PrintInv
    <3>6. QED
      BY <1>4, <1>7, <2>1, <3>5 DEF PrintDefault, Inv
  <2>3. CASE FAKE \notin Found
    <3>1. output' = << >> /\ DOMAIN output' = {} /\ Len(output') = 0
      BY <1>7, <2>3 DEF PrintDefault
    <3>2. QED
      BY <1>4, <1>7, <2>1, <2>3, <3>1 DEF PrintDefault, Inv, PrintInv
  <2>4. QED
    BY <2>2, <2>3
<1>8. CASE PrintSection
  <2> USE <1>8
  <2>1. PICK s \in todo : output' = Append(output, Block(s, s)) /\ todo' = todo \ {s}
    BY DEF PrintSection
  <2>2. pc = "print" /\ pc' = "print" /\ UNCHANGED <<config, overlay_config, environ, sections>>
    BY DEF PrintSection
  <2>3. LoopInv'
    BY <1>1, <1>4, <2>2 DEF LoopInv
  <2>4. PICK n \in Nat : output \in Seq(Blocks) /\ n = Len(output) /\ DOMAIN output = 1 .. n
    <3>1. output \in Seq(Blocks)
      BY <1>1, <2>2 DEF PrintInv
    <3>2. QED
      BY <3>1
  <2>5. s \in Found /\ s \in Section /\ s # FAKE /\ s # None
    BY <1>1, <2>1, <2>2, ConfigAssumption DEF PrintInv, LoopInv, Found
  <2>6. /\ Block(s, s) \in Blocks /\ output' \in Seq(Blocks) /\ Blocks' = Blocks
        /\ DOMAIN output' = 1 .. n + 1 /\ output'[n + 1] = Block(s, s)
        /\ \A i \in 1 .. n : output'[i] = output[i]
    <3>1. Block(s, s) \in Blocks /\ Blocks' = Blocks
      BY <1>4, <2>2, <2>5 DEF Blocks
    <3>2. QED
      BY <2>1, <2>4, <3>1
  <2>7. /\ \A i \in 1 .. n : SectionOf(i)' = SectionOf(i)
        /\ SectionOf(n + 1)' = s
    <3>1. output'[n + 1].header = s
      BY <2>6, BlockFields
    <3>2. QED
      BY <2>5, <2>6, <3>1 DEF SectionOf
  <2>8. PrintInv'
    <3>1. /\ Found' = Found /\ todo' = todo \ {s}
          /\ todo \cup {SectionOf(i) : i \in 1 .. n} = Found
          /\ \A i \in 1 .. n : /\ SectionOf(i) \in Section /\ SectionOf(i) \notin todo
                              /\ output[i].header # FAKE
                              /\ output[i].options = Block(None, SectionOf(i)).options
          /\ \A i, j \in 1 .. n : SectionOf(i) = SectionOf(j) => i = j
          /\ FAKE \notin todo
      BY <1>1, <1>4, <2>1, <2>2, <2>4 DEF PrintInv
    <3>2. \A i \in 1 .. n + 1 : i \in 1 .. n \/ i = n + 1
      BY <2>4
    <3>3. n + 1 \in 1 .. n + 1 /\ \A i \in 1 .. n : i \in 1 .. n + 1
      BY <2>4
    <3>4. {SectionOf(i)' : i \in DOMAIN output'} = {SectionOf(i) : i \in 1 .. n} \cup {s}
      BY <2>6, <2>7, <3>2, <3>3
    <3>5. \A i \in DOMAIN output' :
            /\ SectionOf(i)' \in Section /\ SectionOf(i)' \notin todo'
            /\ output'[i].header # FAKE
            /\ output'[i].options = Block(None, SectionOf(i)').options
      <4>1. output'[n + 1].header = s /\ output'[n + 1].options = Block(None, s).options
        BY <2>6, BlockFields
      <4>2. QED
        BY <2>5, <2>6, <2>7, <3>1, <3>2, <4>1
    <3>6. \A i, j \in DOMAIN output' : SectionOf(i)' = SectionOf(j)' => i = j
      BY <2>1, <2>6, <2>7, <3>1, <3>2
    <3>7. QED
      <4>1. \A t : Block(None, t)' = Block(None, t)
        BY <1>4, <2>2
      <4>2. todo' \cup {SectionOf(i)' : i \in DOMAIN output'} = Found'
        BY <2>1, <3>1, <3>4
      <4>3. QED
        BY <2>2, <2>6, <3>1, <3>5, <3>6, <4>1, <4>2 DEF PrintInv
  <2>9. QED
    BY <1>4, <2>2, <2>3, <2>8 DEF Inv
<1>9. CASE UNCHANGED vars
  <2>1. /\ \A i : SectionOf(i)' = SectionOf(i)
        /\ Blocks' = Blocks /\ Found' = Found /\ \A h, s : Block(h, s)' = Block(h, s)
    BY <1>4, <1>9 DEF vars, SectionOf, Blocks
  <2>2. PrintInv'
    BY <1>1, <1>9, <2>1 DEF vars, PrintInv
  <2>3. QED
    BY <1>1, <1>4, <1>9, <2>2 DEF vars, Inv, LoopInv
<1>10. QED
  BY <1>2, <1>3, <1>5, <1>6, <1>7, <1>8, <1>9 DEF Next

\* The invariant of the loops and of the output.
THEOREM Invariant == Spec => []Inv
<1>1. QED
  BY InitInv, NextInv, PTL DEF Spec

LEMMA InvComplete == Inv => OutputComplete
<1> SUFFICES ASSUME Inv, pc = "print", todo = {}
             PROVE  /\ \A i, j \in DOMAIN output : SectionOf(i) = SectionOf(j) => i = j
                    /\ \A i \in DOMAIN output : output[i].header # FAKE
                    /\ Own \subseteq Printed /\ Printed \subseteq Wanted
  BY DEF OutputComplete
<1>1. LoopInv /\ PrintInv
  BY DEF Inv
<1>2. ASSUME NEW k \in Section \X Option
      PROVE  k \in Wanted <=> \E i \in DOMAIN output : k[1] = SectionOf(i) /\ k[2] \in DOMAIN output[i].options
  <2>1. DOMAIN sections = Wanted /\ {SectionOf(i) : i \in DOMAIN output} = Found
    BY <1>1 DEF LoopInv, PrintInv
  <2>2. k = <<k[1], k[2]>> /\ k[2] \in Option
    OBVIOUS
  <2>3. \A i \in DOMAIN output : DOMAIN output[i].options = {o \in Option : <<SectionOf(i), o>> \in DOMAIN sections}
    BY <1>1, BlockFields DEF PrintInv
  <2>4. k \in DOMAIN sections => k[1] \in Found
    BY DEF Found
  <2>5. QED
    BY <2>1, <2>2, <2>3, <2>4
<1>3. Wanted \subseteq Section \X Option
  BY <1>1 DEF LoopInv
<1>4. Own \subseteq Printed /\ Printed \subseteq Wanted
  BY <1>2, <1>3 DEF Own, Printed
<1>5. QED
  BY <1>1, <1>4 DEF PrintInv

\* A reader of the complete output of main() finds each section once, and in it
\* all that either file has in it and nothing that neither has, whatever they say.
THEOREM Complete == Spec => []OutputComplete
<1>1. QED
  BY Invariant, InvComplete, PTL

-----------------------------------------------------------------------------
\* The program fails for an option whose value counts.
FailInv == pc = "failed" => \E k \in Wanted : Get(environ, Source(k), k) = Raise

LEMMA InitTypes == Init => TypeInv /\ FailInv
<1> SUFFICES ASSUME Init PROVE TypeInv /\ FailInv
  OBVIOUS
<1>1. sections = [x \in DOMAIN sections |-> sections[x]]
  BY DEF Init
<1>2. QED
  BY <1>1 DEF Init, TypeInv, FailInv, Options

LEMMA TypeStep ==
  ASSUME LoopInv, TypeInv, [Next]_vars PROVE TypeInv'
<1>1. \A c : Options(c) \subseteq Section \X Option
  BY DEF Options
<1>2. ASSUME NEW k, NEW value, pc \in {"base", "overlay"}, Note(k, value),
             UNCHANGED <<config, overlay_config, environ, output>>
      PROVE  TypeInv'
  <2>1. CASE value = Raise
    BY <1>2, <2>1 DEF Note, TypeInv
  <2>2. CASE value # Raise
    <3>1. sections' = [x \in DOMAIN sections' |-> sections'[x]]
      BY <1>2, <2>2 DEF Note
    <3>2. QED
      BY <1>2, <2>2, <3>1 DEF Note, TypeInv
  <2>3. QED
    BY <2>1, <2>2
<1>3. CASE Base \/ Supplement
  BY <1>2, <1>3 DEF Base, Supplement
<1>4. CASE BaseDone \/ SupplementDone
  BY <1>1, <1>4 DEF BaseDone, SupplementDone, TypeInv
<1>5. CASE PrintDefault
  <2>1. Found \subseteq Section
    BY DEF LoopInv, Found
  <2>2. QED
    BY <1>5, <2>1 DEF PrintDefault, TypeInv
<1>6. CASE PrintSection
  BY <1>6 DEF PrintSection, TypeInv
<1>7. CASE UNCHANGED vars
  BY <1>7 DEF vars, TypeInv
<1>8. QED
  BY <1>3, <1>4, <1>5, <1>6, <1>7 DEF Next

LEMMA FailStep ==
  ASSUME LoopInv, FailInv, [Next]_vars PROVE FailInv'
<1>1. ASSUME UNCHANGED <<config, overlay_config, environ>>
      PROVE  Wanted' = Wanted /\ \A k : Get(environ, Source(k), k)' = Get(environ, Source(k), k)
  BY <1>1 DEF Wanted, Options, Source, Overlaid
<1>2. CASE Base
  <2>1. PICK k \in todo : Note(k, Get(environ, Source(k), k))
    BY <1>2 DEF Base, Source
  <2>2. k \in Wanted
    BY <1>2, <2>1 DEF Base, LoopInv, Wanted
  <2>3. QED
    BY <1>1, <1>2, <2>1, <2>2 DEF Base, Note, FailInv
<1>3. CASE Supplement
  <2>1. PICK k \in todo : Note(k, Get(environ, overlay_config, k))
    BY <1>3 DEF Supplement
  <2>2. k \in Wanted /\ Source(k) = overlay_config
    BY <1>3, <2>1 DEF Supplement, LoopInv, Source, Overlaid
  <2>3. QED
    BY <1>1, <1>3, <2>1, <2>2 DEF Supplement, Note, FailInv
<1>4. CASE BaseDone \/ SupplementDone \/ PrintDefault \/ PrintSection \/ UNCHANGED vars
  <2>1. pc' = "failed" => pc = "failed"
    BY <1>4 DEF BaseDone, SupplementDone, PrintDefault, PrintSection, vars
  <2>2. UNCHANGED <<config, overlay_config, environ>>
    BY <1>4 DEF BaseDone, SupplementDone, PrintDefault, PrintSection, vars
  <2>3. QED
    BY <1>1, <2>1, <2>2 DEF FailInv
<1>5. QED
  BY <1>2, <1>3, <1>4 DEF Next

\* What the two previous sections have shown of each step, together.
THEOREM TypesInvariant == Spec => [](Inv /\ TypeInv /\ FailInv)
<1>1. Init => Inv /\ TypeInv /\ FailInv
  BY InitInv, InitTypes
<1>2. Inv /\ TypeInv /\ FailInv /\ [Next]_vars => (Inv /\ TypeInv /\ FailInv)'
  BY NextInv, TypeStep, FailStep DEF Inv
<1>3. QED
  BY <1>1, <1>2, PTL DEF Spec

\* What is noted is wanted, until the loops are through and from then on.
LEMMA NotedWanted ==
  ASSUME Inv, TypeInv, NEW k \in DOMAIN sections
  PROVE  /\ k \in Wanted /\ k \in Section \X Option /\ sections[k] \in Seq(Text)
         /\ \E p \in Paths : Resolves(k, p, sections[k])
<1>1. k \in Wanted /\ k \in Section \X Option
  BY DEF Inv, LoopInv
<1>2. sections[k] = Get(environ, Source(k), k) /\ sections[k] # Raise
  BY DEF Inv, ValueInv
<1>3. QED
  BY <1>1, <1>2, GetResolves

\* A printed option is one that was noted.
LEMMA PrintedNoted ==
  ASSUME Inv, TypeInv, NEW i \in DOMAIN output, NEW o \in DOMAIN output[i].options
  PROVE  /\ pc = "print" /\ o \in Option /\ <<SectionOf(i), o>> \in DOMAIN sections
         /\ output[i].options[o] = sections[<<SectionOf(i), o>>]
<1>1. pc = "print"
  <2>1. pc # "print" => DOMAIN output = {}
    BY DEF Inv, PrintInv
  <2>2. QED
    BY <2>1
<1>2. output[i].options = Block(None, SectionOf(i)).options
  BY <1>1 DEF Inv, PrintInv
<1>3. QED
  BY <1>1, <1>2 DEF Block

LEMMA InvTypeOK ==
  ASSUME Inv, TypeInv PROVE TypeOK
<1>1. pc \in {"base", "overlay", "default", "print", "failed"}
  BY DEF Inv, LoopInv
<1>2. IsPartial(sections, Section \X Option, Seq(Text))
  BY NotedWanted DEF IsPartial, TypeInv
<1>3. ASSUME NEW i \in DOMAIN output
      PROVE  output[i].header \in Section \cup {None} /\ IsPartial(output[i].options, Option, Seq(Text))
  <2>1. pc = "print"
    <3>1. pc # "print" => DOMAIN output = {}
      BY DEF Inv, PrintInv
    <3>2. QED
      BY <3>1
  <2>2. output[i] \in Blocks
    BY <2>1 DEF Inv, PrintInv
  <2>3. PICK h \in Section \cup {None}, s \in Section : output[i] = Block(h, s)
    BY <2>2 DEF Blocks
  <2>4. output[i].options = [o \in DOMAIN output[i].options |-> output[i].options[o]]
    BY <2>3 DEF Block
  <2>5. \A o \in DOMAIN output[i].options : o \in Option /\ output[i].options[o] \in Seq(Text)
    BY PrintedNoted, NotedWanted
  <2>6. QED
    BY <2>3, <2>4, <2>5, BlockFields DEF IsPartial
<1>4. QED
  BY <1>1, <1>2, <1>3 DEF TypeOK, TypeInv

\* Everything main() reads, notes and prints has its type, for any files and
\* environment; in particular get() returns texts.
THEOREM TypeCorrect == Spec => []TypeOK
<1>1. QED
  BY TypesInvariant, InvTypeOK, PTL

\* A printed value is the text along the references from its option in the file
\* that counts, for any files, environment and depth of references.
THEOREM ValuesSafe == Spec => []ValuesResolve
<1>1. Inv /\ TypeInv => ValuesResolve
  <2> SUFFICES ASSUME Inv, TypeInv, NEW i \in DOMAIN output, NEW o \in DOMAIN output[i].options
               PROVE  \E p \in Paths : Resolves(<<SectionOf(i), o>>, p, output[i].options[o])
    BY DEF ValuesResolve
  <2>1. QED
    BY PrintedNoted, NotedWanted
<1>2. QED
  BY <1>1, TypesInvariant, PTL

\* The program fails only if some value that counts does not resolve, and before it
\* has printed anything.
THEOREM FailureSafe == Spec => []FailsForAReason
<1>1. Inv /\ TypeInv /\ FailInv => FailsForAReason
  <2> SUFFICES ASSUME Inv, TypeInv, FailInv, pc = "failed"
               PROVE  /\ output = << >>
                      /\ \E k \in Wanted : \A p \in Paths : \A t \in [1 .. Len(p) -> Text] : ~Resolves(k, p, t)
    BY DEF FailsForAReason
  <2>1. output = << >>
    BY DEF Inv, PrintInv
  <2>2. PICK k \in Wanted : Get(environ, Source(k), k) = Raise
    BY DEF FailInv
  <2>3. QED
    BY <2>1, <2>2, GetResolves
<1>2. QED
  BY <1>1, TypesInvariant, PTL
=============================================================================
