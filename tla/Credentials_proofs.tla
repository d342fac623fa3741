------------------------- MODULE Credentials_proofs -------------------------
(***************************************************************************)
(* Proofs about Credentials, for any callers, vaults and environments.     *)
(***************************************************************************)
EXTENDS Credentials, Induction

\* A store exists before anybody uses it, and is made once.
MadeInv ==
  /\ _creds = None => \A s \in Caller : store[s] = None
  /\ _creds # None => store[_creds] # None
  /\ \A s \in Caller : store[s] # None => store[s].clients = Clients
  /\ \A s \in validated : store[s] # None
  /\ \A c \in Caller : /\ pc[c] = "construct" => store[c] = None
                       /\ pc[c] \in {"connect", "ask"} => _creds # None
                       /\ pc[c] = "service" => store[self[c]] # None

\* The vault of store s is one that a client has listed.
Known(s) == \E k \in Clients : store[s].op_vault \in environment.vaults[k]

KnownInv ==
  /\ Clients # {} => \A s \in validated : Known(s)
  /\ "connect" \in Clients => \A c \in Caller : pc[c] = "service" => Known(self[c])

\* Somebody is about to validate the cached store, if nobody has done so.
WatchInv ==
  _creds # None /\ _creds \notin validated =>
    failed \/ \E c \in Caller : pc[c] = "connect" \/ (pc[c] = "service" /\ self[c] = _creds)

Inv == TypeOK /\ MadeInv /\ KnownInv /\ WatchInv /\ AsksKnownVault

LEMMA InitInv == Init => Inv
<1> SUFFICES ASSUME Init PROVE Inv
  OBVIOUS
<1>1. TypeOK
  BY DEF Init, TypeOK
<1>2. MadeInv /\ KnownInv /\ WatchInv /\ AsksKnownVault
  BY DEF Init, MadeInv, KnownInv, WatchInv, AsksKnownVault
<1>3. QED
  BY <1>1, <1>2 DEF Inv

LEMMA Environs ==
  ASSUME TypeOK
  PROVE  /\ Clients \subseteq Client
         /\ get_secret_or_env(environment.OP_VAULT) \in Vault \cup {None}
         /\ \A k \in Client : environment.vaults[k] \subseteq Vault
<1>1. environment \in Environment
  BY CredentialsAssumption DEF TypeOK
<1>2. QED
  BY <1>1 DEF Environment, Secret, Clients, get_secret_or_env

LEMMA AdoptedKnown ==
  ASSUME NEW vaults, NEW vault, Found(vault, vaults) PROVE Adopted(vault, vaults) \in vaults
BY DEF Found, Adopted

-----------------------------------------------------------------------------
\* The first of some places.
LEMMA LeastFirst ==
  ASSUME NEW T, T \subseteq Nat, T # {}
  PROVE  Least(T) \in T /\ \A j \in T : Least(T) <= j
<1> DEFINE P(i) == i \in T /\ \A j \in T : i <= j
<1>1. \E i \in T : P(i)
  BY LeastNumber
<1>2. Least(T) = CHOOSE i \in T : \A j \in T : i <= j
  BY DEF Least
<1>3. QED
  BY <1>1, <1>2

LEMMA Places ==
  ASSUME NEW item \in Items
  PROVE  /\ Len(item.fields) \in Nat /\ DOMAIN item.fields = 1 .. Len(item.fields)
         /\ Len(SectionsOf(item)) \in Nat /\ DOMAIN SectionsOf(item) = 1 .. Len(SectionsOf(item))
         /\ DOMAIN item.fields \subseteq Nat /\ DOMAIN SectionsOf(item) \subseteq Nat
BY CredentialsAssumption DEF IsSequence

\* What get_creds() of the connect client returns.
LookupExact(path, item, result) ==
  LET fields == item.fields
      sections == SectionsOf(item)
      hits == {i \in DOMAIN fields : Matches(fields[i], path, item)}
      first(i) == Len(path) > 1 /\ \A j \in hits : i <= j
  IN /\ result # Raise =>
          \E i \in hits : result = fields[i].value /\ (Len(path) = 1 => hits = {i})
     /\ (\A i, j \in DOMAIN sections : sections[i].label = sections[j].label => i = j) =>
          \A i \in hits : hits = {i} \/ first(i) => result = fields[i].value

\* A result that is taken from the first of the hits is exact.
LEMMA FirstExact ==
  ASSUME NEW item \in Items, NEW hits, hits \subseteq DOMAIN item.fields
  PROVE  /\ FirstValue(item, hits) # Raise => \E i \in hits : FirstValue(item, hits) = item.fields[i].value
         /\ \A i \in hits : (\A j \in hits : i <= j) => FirstValue(item, hits) = item.fields[i].value
<1>1. hits # {} => Least(hits) \in hits /\ \A j \in hits : Least(hits) <= j
  BY Places, LeastFirst
<1>2. ASSUME NEW i \in hits, \A j \in hits : i <= j PROVE i = Least(hits)
  <2>1. i \in Nat /\ Least(hits) \in Nat /\ i <= Least(hits) /\ Least(hits) <= i
    BY <1>1, <1>2, Places
  <2>2. QED
    BY <2>1
<1>3. QED
  BY <1>1, <1>2 DEF FirstValue

\* The fields that a path describes, and no two sections with the same label.
Hits(path, item) == {i \in DOMAIN item.fields : Matches(item.fields[i], path, item)}
Unique(item) ==
  \A i, j \in DOMAIN SectionsOf(item) : SectionsOf(item)[i].label = SectionsOf(item)[j].label => i = j

LEMMA FoundExact ==
  ASSUME NEW item \in Items, NEW path, Len(path) # 1,
         NEW found, found \subseteq Hits(path, item),
         Unique(item) => found = Hits(path, item)
  PROVE  LookupExact(path, item, FirstValue(item, found))
<1> DEFINE hits == Hits(path, item)
           result == FirstValue(item, found)
<1>1. hits \subseteq DOMAIN item.fields /\ \A i \in hits : i \in Nat
  BY Places DEF Hits
<1>2. result # Raise => \E i \in hits : result = item.fields[i].value
  BY <1>1, FirstExact
<1>3. ASSUME Unique(item), NEW i \in hits, hits = {i} \/ \A j \in hits : i <= j
      PROVE  result = item.fields[i].value
  <2>1. \A j \in hits : i <= j
    BY <1>1, <1>3
  <2>2. QED
    BY <1>1, <1>3, <2>1, FirstExact
<1> HIDE DEF result
<1>4. LookupExact(path, item, result)
  BY <1>2, <1>3 DEF LookupExact, Hits, Unique
<1>5. QED
  BY <1>4 DEF result

LEMMA LookupsExact ==
  ASSUME NEW item \in Items, NEW path
  PROVE  LookupExact(path, item, Lookup(path, item))
<1> DEFINE fields == item.fields
           sections == SectionsOf(item)
<1>1. CASE Len(path) = 1
  <2> DEFINE result == Lookup(path, item)
             hits == DOMAIN fields
  <2>1. result = IF Len(fields) = 1 THEN fields[1].value ELSE Raise
    BY <1>1 DEF Lookup
  <2>2. Hits(path, item) = hits /\ hits = 1 .. Len(fields) /\ Len(fields) \in Nat
    BY <1>1, Places DEF Matches, Hits
  <2>3. result # Raise => \E i \in hits : result = fields[i].value /\ hits = {i}
    <3>1. Len(fields) = 1 => hits = {1}
      BY <2>2
    <3>2. QED
      BY <2>1, <3>1
  <2>4. ASSUME NEW i \in hits, hits = {i} PROVE result = fields[i].value
    <3>1. PICK n \in Nat : n = Len(fields) /\ 1 .. n = {i}
      BY <2>2, <2>4
    <3>2. n = 1 /\ i = 1
      <4>1. i \in 1 .. n /\ n \in 1 .. n /\ 1 \in 1 .. n
        BY <3>1
      <4>2. QED
        BY <3>1, <4>1
    <3>3. QED
      BY <2>1, <3>1, <3>2
  <2> HIDE DEF result
  <2>5. LookupExact(path, item, result)
    BY <1>1, <2>2, <2>3, <2>4 DEF LookupExact, Hits
  <2>6. QED
    BY <2>5 DEF result
<1>2. CASE Len(path) = 2
  <2>1. Lookup(path, item) = FirstValue(item, Labelled(fields, path[2]))
    BY <1>2 DEF Lookup
  <2>2. Labelled(fields, path[2]) = Hits(path, item)
    BY <1>2 DEF Labelled, Matches, Hits
  <2>3. QED
    BY <1>2, <2>1, <2>2, FoundExact
<1>3. CASE Len(path) = 3
  <2> DEFINE named == Labelled(sections, path[2])
             found == {i \in Labelled(fields, path[3]) : fields[i].section = sections[Least(named)].id}
  <2>1. Lookup(path, item) = IF named = {} THEN Raise ELSE FirstValue(item, found)
    BY <1>3 DEF Lookup
  <2>2. Hits(path, item) =
          {i \in DOMAIN fields : fields[i].label = path[3] /\
             \E j \in DOMAIN sections : sections[j].id = fields[i].section /\ sections[j].label = path[2]}
    BY <1>3 DEF Matches, InSections, Hits
  <2>3. CASE named = {}
    <3>1. Hits(path, item) = {}
      BY <2>2, <2>3 DEF Labelled
    <3>2. FirstValue(item, {}) = Raise
      BY DEF FirstValue
    <3>3. LookupExact(path, item, FirstValue(item, {}))
      BY <1>3, <3>1, FoundExact
    <3>4. QED
      BY <2>1, <2>3, <3>2, <3>3
  <2>4. CASE named # {}
    <3>1. Least(named) \in DOMAIN sections /\ sections[Least(named)].label = path[2]
      <4>1. named \subseteq Nat
        BY Places DEF Labelled
      <4>2. Least(named) \in named
        BY <2>4, <4>1, LeastFirst
      <4>3. QED
        BY <4>2 DEF Labelled
    <3>2. found \subseteq Hits(path, item)
      BY <2>2, <3>1 DEF Labelled
    <3>3. ASSUME Unique(item) PROVE Hits(path, item) \subseteq found
      BY <2>2, <3>1, <3>3 DEF Labelled, Unique
    <3>4. Lookup(path, item) = FirstValue(item, found)
      BY <2>1, <2>4
    <3> HIDE DEF found
    <3>5. QED
      BY <1>3, <3>2, <3>3, <3>4, FoundExact
  <2>5. QED
    BY <2>3, <2>4
<1>4. CASE Len(path) # 1 /\ Len(path) # 2 /\ Len(path) # 3
  <2>1. Lookup(path, item) = FirstValue(item, {}) /\ Hits(path, item) = {}
    BY <1>4 DEF Lookup, Matches, Hits, FirstValue
  <2>2. QED
    BY <1>4, <2>1, FoundExact
<1>5. QED
  BY <1>1, <1>2, <1>3, <1>4

-----------------------------------------------------------------------------
\* The dictionary after n fields, when f has the dictionaries after fewer.
Fill(names, item, strict, f, n) ==
  IF n = 0 THEN << >>
  ELSE LET field == item.fields[n]
           taken == InSections(field, names, item)
           d == f[n - 1]
       IN  IF d = Raise \/ (strict /\ (Orphan(field, item) \/ (taken /\ field.label \in DOMAIN d)))
           THEN Raise
           ELSE IF taken THEN With(d, field) ELSE d

\* A function that has the dictionaries after 0 to m fields.
Fills(names, item, strict, f, m) == f = [n \in 0 .. m |-> Fill(names, item, strict, f, n)]

LEMMA FillDepends ==
  ASSUME NEW names, NEW item, NEW strict, NEW f, NEW g, NEW n, n = 0 \/ f[n - 1] = g[n - 1]
  PROVE  Fill(names, item, strict, f, n) = Fill(names, item, strict, g, n)
BY DEF Fill

LEMMA FillsExist ==
  ASSUME NEW names, NEW item \in Items, NEW strict
  PROVE  \E f : Fills(names, item, strict, f, Len(item.fields))
<1> DEFINE B(f, n) == Fill(names, item, strict, f, n)
           len == Len(item.fields)
           S == {n \in 0 .. len : \E f : Fills(names, item, strict, f, n)}
<1>0. len \in Nat
  BY Places
<1>1. 0 \in S
  <2> DEFINE f == [n \in 0 .. 0 |-> B(<< >>, 0)]
  <2>1. \A n \in 0 .. 0 : f[n] = B(f, n)
    BY FillDepends
  <2>2. f = [n \in 0 .. 0 |-> f[n]]
    OBVIOUS
  <2> HIDE DEF f
  <2>3. Fills(names, item, strict, f, 0)
    BY <2>1, <2>2 DEF Fills
  <2>4. QED
    BY <1>0, <2>3
<1>2. ASSUME NEW m \in 0 .. len - 1, m \in S PROVE m + 1 \in S
  <2>1. PICK f : Fills(names, item, strict, f, m)
    BY <1>2
  <2> DEFINE g == [n \in 0 .. m + 1 |-> IF n <= m THEN f[n] ELSE B(f, n)]
  <2>2. ASSUME NEW n \in 0 .. m + 1
        PROVE  g[n] = B(g, n)
    <3>1. g[n] = B(f, n)
      BY <2>1 DEF Fills
    <3>2. n = 0 \/ f[n - 1] = g[n - 1]
      OBVIOUS
    <3> HIDE DEF g
    <3>3. QED
      BY <3>1, <3>2, FillDepends
  <2>3. g = [n \in 0 .. m + 1 |-> g[n]]
    OBVIOUS
  <2> HIDE DEF g
  <2>4. Fills(names, item, strict, g, m + 1)
    BY <2>2, <2>3 DEF Fills
  <2>5. QED
    BY <1>0, <2>4
<1> HIDE DEF S, len
<1>3. 0 .. len \subseteq S
  BY <1>0, <1>1, <1>2, RangeInduction
<1>4. QED
  BY <1>0, <1>3 DEF S, len

\* The recursive function is what its equation says.
LEMMA FillingFills ==
  ASSUME NEW names, NEW item \in Items, NEW strict
  PROVE  Fills(names, item, strict, Filling(names, item, strict), Len(item.fields))
<1> DEFINE P(f) == Fills(names, item, strict, f, Len(item.fields))
<1>1. Filling(names, item, strict) = CHOOSE f : P(f)
  BY DEF Fills, Fill, Filling
<1>2. \E f : P(f)
  BY FillsExist
<1> HIDE DEF P
<1>3. P(CHOOSE f : P(f))
  BY <1>2, Zenon
<1>4. P(Filling(names, item, strict))
  BY <1>1, <1>3, Zenon
<1>5. QED
  BY <1>4 DEF P

\* What the dictionary d says of the first n fields.
Taken(names, item, n) == {i \in 1 .. n : InSections(item.fields[i], names, item)}

Clash(names, item, n) ==
  \E i, j \in Taken(names, item, n) : i # j /\ item.fields[i].label = item.fields[j].label

Filled(names, item, strict, n, d) ==
  /\ d = Raise <=> strict /\ (Clash(names, item, n) \/ \E i \in 1 .. n : Orphan(item.fields[i], item))
  /\ d # Raise =>
       /\ d \in Dictionaries(item)
       /\ DOMAIN d = {item.fields[i].label : i \in Taken(names, item, n)}
       /\ \A i \in Taken(names, item, n) :
            (\A j \in Taken(names, item, n) : item.fields[j].label = item.fields[i].label => j <= i) =>
              d[item.fields[i].label] = item.fields[i].value

\* A dictionary is none of the exceptions, and one more field leaves it one.
LEMMA DictionaryEmpty ==
  ASSUME NEW item \in Items PROVE << >> \in Dictionaries(item) /\ << >> # Raise
<1> DEFINE labels == {item.fields[i].label : i \in DOMAIN item.fields}
           values == {item.fields[i].value : i \in DOMAIN item.fields}
<1>1. Dictionaries(item) = UNION {[L -> values] : L \in SUBSET labels}
  BY DEF Dictionaries
<1> HIDE DEF labels, values
<1>2. << >> \in [{} -> values]
  OBVIOUS
<1>3. << >> \in Dictionaries(item)
  BY <1>1, <1>2
<1>4. QED
  BY <1>3, CredentialsAssumption

LEMMA DictionaryWith ==
  ASSUME NEW item \in Items, NEW d \in Dictionaries(item), NEW n \in 1 .. Len(item.fields)
  PROVE  With(d, item.fields[n]) \in Dictionaries(item) /\ With(d, item.fields[n]) # Raise
<1> DEFINE f == item.fields
           e == With(d, f[n])
           labels == {f[i].label : i \in DOMAIN f}
           values == {f[i].value : i \in DOMAIN f}
<1>1. Dictionaries(item) = UNION {[L -> values] : L \in SUBSET labels}
  BY DEF Dictionaries
<1>2. PICK L \in SUBSET labels : d \in [L -> values]
  BY <1>1
<1>3. f[n].label \in labels /\ f[n].value \in values
  BY Places
<1> HIDE DEF labels, values
<1>4. e \in [L \cup {f[n].label} -> values]
  BY <1>2, <1>3 DEF With
<1>5. e \in Dictionaries(item)
  BY <1>1, <1>2, <1>3, <1>4
<1>6. QED
  BY <1>5, CredentialsAssumption

\* One field more.
LEMMA FillStep ==
  ASSUME NEW names, NEW item \in Items, NEW strict \in BOOLEAN, NEW f, NEW n \in 1 .. Len(item.fields),
         Filled(names, item, strict, n - 1, f[n - 1])
  PROVE  Filled(names, item, strict, n, Fill(names, item, strict, f, n))
<1> DEFINE field == item.fields[n]
           takes == InSections(field, names, item)
           orphans(m) == \E i \in 1 .. m : Orphan(item.fields[i], item)
           d == f[n - 1]
           e == Fill(names, item, strict, f, n)
           old == Taken(names, item, n - 1)
           all == Taken(names, item, n)
<1>0. Len(item.fields) \in Nat /\ n \in Nat /\ n # 0 /\ n \notin 1 .. n - 1 /\ 1 .. n = 1 .. n - 1 \cup {n}
  BY Places
<1>1. all = IF takes THEN old \cup {n} ELSE old
  BY <1>0 DEF Taken
<1>2. n \notin old /\ \A i \in old : i \in Nat /\ i < n
  BY <1>0 DEF Taken
<1>3. orphans(n) <=> orphans(n - 1) \/ Orphan(field, item)
  BY <1>0
<1>4. Clash(names, item, n) <=>
        Clash(names, item, n - 1) \/ (takes /\ \E i \in old : item.fields[i].label = field.label)
  BY <1>1, <1>2 DEF Clash
<1>5. e = IF d = Raise \/ (strict /\ (Orphan(field, item) \/ (takes /\ field.label \in DOMAIN d)))
          THEN Raise ELSE IF takes THEN With(d, field) ELSE d
  BY <1>0 DEF Fill
<1>6. /\ d = Raise <=> strict /\ (Clash(names, item, n - 1) \/ orphans(n - 1))
      /\ d # Raise =>
           /\ d \in Dictionaries(item)
           /\ DOMAIN d = {item.fields[i].label : i \in old}
           /\ \A i \in old :
                (\A j \in old : item.fields[j].label = item.fields[i].label => j <= i) =>
                  d[item.fields[i].label] = item.fields[i].value
  BY DEF Filled
<1> HIDE DEF e, d, orphans, old, all
<1>7. d # Raise => With(d, field) \in Dictionaries(item) /\ With(d, field) # Raise
  BY <1>6, DictionaryWith
<1>8. d # Raise => (field.label \in DOMAIN d <=> \E i \in old : item.fields[i].label = field.label)
  BY <1>6
<1>9. e = Raise <=> strict /\ (Clash(names, item, n) \/ orphans(n))
  <2> HIDE DEF takes, field
  <2>1. CASE d = Raise
    BY <1>3, <1>4, <1>5, <1>6, <2>1
  <2>2. CASE d # Raise
    BY <1>3, <1>4, <1>5, <1>6, <1>7, <1>8, <2>2
  <2>3. QED
    BY <2>1, <2>2
<1>10. ASSUME e # Raise
       PROVE  /\ e \in Dictionaries(item)
              /\ DOMAIN e = {item.fields[i].label : i \in all}
              /\ \A i \in all :
                   (\A j \in all : item.fields[j].label = item.fields[i].label => j <= i) =>
                     e[item.fields[i].label] = item.fields[i].value
  <2>1. d # Raise /\ e = IF takes THEN With(d, field) ELSE d
    BY <1>5, <1>10
  <2>2. CASE ~ takes
    BY <1>1, <1>6, <2>1, <2>2
  <2>3. CASE takes
    <3>1. e = With(d, field) /\ all = old \cup {n} /\ e \in Dictionaries(item)
      BY <1>1, <1>7, <2>1, <2>3
    <3>2. DOMAIN e = DOMAIN d \cup {field.label} /\ e[field.label] = field.value
          /\ \A l \in DOMAIN d : l # field.label => e[l] = d[l]
      BY <3>1 DEF With
    <3>3. DOMAIN e = {item.fields[i].label : i \in all}
      BY <1>6, <2>1, <3>1, <3>2
    <3>4. ASSUME NEW i \in all, \A j \in all : item.fields[j].label = item.fields[i].label => j <= i
          PROVE  e[item.fields[i].label] = item.fields[i].value
      <4>1. CASE i = n
        BY <3>2, <4>1
      <4>2. CASE i # n
        <5>1. i \in old /\ i < n /\ n \in all
          BY <1>2, <3>1, <4>2
        <5>2. item.fields[i].label # field.label
          <6>1. ~ (n <= i)
            BY <1>0, <1>2, <5>1
          <6>2. QED
            BY <3>4, <5>1, <6>1
        <5>3. d[item.fields[i].label] = item.fields[i].value /\ item.fields[i].label \in DOMAIN d
          BY <1>6, <2>1, <3>1, <3>4, <5>1
        <5>4. QED
          BY <3>2, <5>2, <5>3
      <4>3. QED
        BY <4>1, <4>2
    <3>5. QED
      BY <3>1, <3>3, <3>4
  <2>4. QED
    BY <2>2, <2>3
<1>11. QED
  <2>1. Filled(names, item, strict, n, e)
    BY <1>9, <1>10 DEF Filled, orphans, all
  <2>2. QED
    BY <2>1 DEF e

\* The dictionary after all the fields.
LEMMA FillingExact ==
  ASSUME NEW names, NEW item \in Items, NEW strict \in BOOLEAN
  PROVE  Filled(names, item, strict, Len(item.fields), Filling(names, item, strict)[Len(item.fields)])
<1> DEFINE len == Len(item.fields)
           filled == Filling(names, item, strict)
           S == {n \in 0 .. len : Filled(names, item, strict, n, filled[n])}
<1>0. len \in Nat
  BY Places
<1>1. \A n \in 0 .. len : filled[n] = Fill(names, item, strict, filled, n)
  BY FillingFills DEF Fills
<1> HIDE DEF filled
<1>2. 0 \in S
  <2>1. filled[0] = << >>
    BY <1>0, <1>1 DEF Fill
  <2>2. Taken(names, item, 0) = {} /\ 1 .. 0 = {}
    BY DEF Taken
  <2>3. Filled(names, item, strict, 0, << >>)
    BY <2>2, DictionaryEmpty DEF Filled, Clash
  <2>4. QED
    BY <1>0, <2>1, <2>3
<1>3. ASSUME NEW m \in 0 .. len - 1, m \in S PROVE m + 1 \in S
  <2>1. m + 1 \in 1 .. len /\ m + 1 - 1 = m /\ m + 1 \in 0 .. len
    BY <1>0
  <2>2. Filled(names, item, strict, m, filled[m])
    BY <1>3
  <2> DEFINE n == m + 1
  <2>3. n \in 1 .. len /\ n - 1 = m
    BY <2>1
  <2> HIDE DEF n
  <2>4. Filled(names, item, strict, n, Fill(names, item, strict, filled, n))
    BY <2>2, <2>3, FillStep
  <2>5. QED
    BY <1>1, <2>1, <2>4 DEF n
<1> HIDE DEF S, len
<1>4. 0 .. len \subseteq S
  BY <1>0, <1>2, <1>3, RangeInduction
<1>5. len \in S
  BY <1>0, <1>4
<1>6. QED
  BY <1>5 DEF S, len, filled

-----------------------------------------------------------------------------
\* Whatever is asked, and whichever client answers, the answer is exact.
LEMMA AnswerInit == Init => LookupIsExact /\ FieldsAreExact
BY DEF Init, LookupIsExact, FieldsAreExact

LEMMA AskedStep ==
  ASSUME NEW c \in Caller, get_creds(c) \/ get_fields_from_sections(c)
  PROVE  LookupIsExact' /\ FieldsAreExact'
<1>1. CASE answer' = None
  BY <1>1 DEF LookupIsExact, FieldsAreExact
<1>2. ASSUME NEW p \in Paths, NEW i \in Items,
             answer' = [method |-> "get_creds", client |-> Preferred, wanted |-> p, item |-> i,
                        result |-> Lookup(p, i)]
      PROVE  LookupIsExact' /\ FieldsAreExact'
  <2>1. LookupExact(p, i, Lookup(p, i))
    BY LookupsExact
  <2>2. answer'.method = "get_creds" /\ answer'.wanted = p /\ answer'.item = i /\ answer'.result = Lookup(p, i)
    BY <1>2
  <2>3. LookupIsExact'
    BY <2>1, <2>2 DEF LookupIsExact, LookupExact
  <2>4. FieldsAreExact'
    BY <2>2 DEF FieldsAreExact
  <2>5. QED
    BY <2>3, <2>4
<1>3. ASSUME NEW n \in Sections, NEW i \in Items, Preferred # None,
             answer' = [method |-> "get_fields", client |-> Preferred, wanted |-> n, item |-> i,
                        result |-> IF Preferred = "connect" THEN ConnectFields(n, i) ELSE ServiceFields(n, i)]
      PROVE  LookupIsExact' /\ FieldsAreExact'
  <2> DEFINE strict == Preferred = "service"
             result == answer'.result
  <2>1. strict \in BOOLEAN /\ Preferred \in {"connect", "service"}
    BY <1>3 DEF Preferred
  <2>2. result = IF i.sections = None THEN Raise ELSE Filling(n, i, strict)[Len(i.fields)]
    BY <1>3, <2>1 DEF ConnectFields, ServiceFields
  <2>3. i.sections # None => Filled(n, i, strict, Len(i.fields), result)
    BY <2>1, <2>2, FillingExact
  <2>4. /\ answer'.method = "get_fields" /\ answer'.wanted = n /\ answer'.item = i
        /\ answer'.client = "service" <=> strict
    BY <1>3
  <2>5. DOMAIN i.fields = 1 .. Len(i.fields)
    BY Places
  <2> HIDE DEF strict
  <2>6. FieldsAreExact'
    <3>1. CASE i.sections = None
      BY <2>2, <2>4, <3>1 DEF FieldsAreExact
    <3>2. CASE i.sections # None
      BY <2>3, <2>4, <2>5, <3>2 DEF FieldsAreExact, Filled, Taken, Clash
    <3>3. QED
      BY <3>1, <3>2
  <2>7. LookupIsExact'
    BY <2>4 DEF LookupIsExact
  <2>8. QED
    BY <2>6, <2>7
<1>4. QED
  BY <1>1, <1>2, <1>3 DEF get_creds, get_fields_from_sections

LEMMA AnswerStep ==
  LookupIsExact /\ FieldsAreExact /\ [Next]_vars => LookupIsExact' /\ FieldsAreExact'
<1> SUFFICES ASSUME LookupIsExact, FieldsAreExact, [Next]_vars
             PROVE  LookupIsExact' /\ FieldsAreExact'
  OBVIOUS
<1>1. CASE UNCHANGED answer
  BY <1>1 DEF LookupIsExact, FieldsAreExact
<1>2. ASSUME NEW c \in Caller,
             Call(c) \/ Construct(c) \/ ValidateConnect(c) \/ ValidateService(c)
      PROVE  UNCHANGED answer
  BY <1>2 DEF Call, Construct, ValidateConnect, ValidateService
<1>3. QED
  BY <1>1, <1>2, AskedStep DEF Next, vars

-----------------------------------------------------------------------------
\* The constructor makes a store where there was none.
LEMMA ConstructStep ==
  ASSUME Inv, NEW c \in Caller, Construct(c) PROVE Inv'
<1>0. TypeOK /\ MadeInv /\ KnownInv /\ WatchInv /\ AsksKnownVault
  BY DEF Inv
<1>1. UNCHANGED <<environment, self, validated, failed, question>> /\ Clients' = Clients
  BY DEF Construct, Clients, Enabled, get_secret_or_env
<1>2. CASE "service" \in Clients /\ Goto(c, "idle") /\ UNCHANGED <<store, _creds>>
  <2>1. pc[c] = "construct" /\ pc' = [pc EXCEPT ![c] = "idle"]
    BY <1>2 DEF Construct, Goto
  <2>2. TypeOK'
    BY <1>0, <1>1, <1>2, <2>1 DEF TypeOK
  <2>3. MadeInv'
    BY <1>0, <1>1, <1>2, <2>1 DEF MadeInv, TypeOK
  <2>4. KnownInv'
    BY <1>0, <1>1, <1>2, <2>1 DEF KnownInv, Known, TypeOK
  <2>5. WatchInv'
    BY <1>0, <1>1, <1>2, <2>1 DEF WatchInv, TypeOK
  <2>6. AsksKnownVault'
    BY <1>0, <1>1 DEF AsksKnownVault
  <2>7. QED
    BY <2>2, <2>3, <2>4, <2>5, <2>6 DEF Inv
<1>3. CASE _creds' = c /\ Goto(c, "connect") /\
           store' = [store EXCEPT ![c] =
             [clients |-> Clients, op_vault |-> get_secret_or_env(environment.OP_VAULT)]]
  <2> DEFINE made == [clients |-> Clients, op_vault |-> get_secret_or_env(environment.OP_VAULT)]
  <2>1. pc[c] = "construct" /\ pc' = [pc EXCEPT ![c] = "connect"] /\ c # None
    BY <1>3, CredentialsAssumption DEF Construct, Goto
  <2>2. made \in Store /\ made.clients = Clients
    BY <1>0, Environs DEF Store
  <2>3. made # None
    BY <2>2, CredentialsAssumption
  <2> HIDE DEF made
  <2>4. store' = [store EXCEPT ![c] = made]
    BY <1>3 DEF made
  <2>5. store[c] = None /\ c \notin validated
    BY <1>0, <2>1 DEF MadeInv
  <2>6. \A d \in Caller : pc[d] = "service" => self[d] # c
    BY <1>0, <2>5 DEF MadeInv
  <2>7. TypeOK'
    BY <1>0, <1>1, <1>3, <2>1, <2>2, <2>4 DEF TypeOK
  <2>8. MadeInv'
    BY <1>0, <1>1, <1>3, <2>1, <2>2, <2>3, <2>4, <2>6 DEF MadeInv, TypeOK
  <2>9. KnownInv'
    BY <1>0, <1>1, <2>1, <2>4, <2>5, <2>6 DEF KnownInv, Known, TypeOK
  <2>10. WatchInv'
    BY <1>0, <2>1 DEF WatchInv, TypeOK
  <2>11. AsksKnownVault'
    BY <1>0, <1>1 DEF AsksKnownVault
  <2>12. QED
    BY <2>7, <2>8, <2>9, <2>10, <2>11 DEF Inv
<1>4. QED
  BY <1>2, <1>3 DEF Construct

-----------------------------------------------------------------------------
\* What a check of the vaults leaves of a store.
LEMMA Checked ==
  ASSUME Inv, NEW c \in Caller, NEW s \in Caller, NEW k \in Client, NEW next,
         next \in {"service", "ask"}, store[s] # None, CheckVaults(c, s, k, next),
         UNCHANGED environment
  PROVE  /\ Clients' = Clients
         /\ store' \in [Caller -> Store \cup {None}]
         /\ \A t \in Caller : /\ store'[t] = None <=> store[t] = None
                              /\ store[t] # None => store'[t].clients = Clients
                              /\ t # s => store'[t] = store[t]
         /\ \A t \in Caller : Known(t) => Known(t)'
         /\ failed' \in BOOLEAN /\ (failed => failed')
         /\ \/ pc' = [pc EXCEPT ![c] = "idle"] /\ failed'
            \/ pc' = [pc EXCEPT ![c] = next] /\ (k \in Clients => Known(s)')
<1>0. TypeOK /\ MadeInv /\ store[s] \in Store /\ store[s].clients = Clients
  BY DEF Inv, TypeOK, MadeInv
<1>1. Clients' = Clients
  BY DEF Clients, Enabled, get_secret_or_env
<1>2. CASE k \notin store[s].clients /\ Goto(c, next) /\ UNCHANGED <<store, failed>>
  <2>1. \A t \in Caller : Known(t) => Known(t)'
    BY <1>1, <1>2 DEF Known
  <2>2. QED
    BY <1>0, <1>1, <1>2, <2>1 DEF Goto, TypeOK, MadeInv
<1>3. CASE k \in store[s].clients /\ failed' = TRUE /\ Goto(c, "idle") /\ UNCHANGED store
  <2>1. \A t \in Caller : Known(t) => Known(t)'
    BY <1>1, <1>3 DEF Known
  <2>2. QED
    BY <1>0, <1>1, <1>3, <2>1 DEF Goto, TypeOK, MadeInv
<1>4. CASE /\ k \in store[s].clients /\ Found(store[s].op_vault, environment.vaults[k])
           /\ store' = [store EXCEPT ![s].op_vault = Adopted(@, environment.vaults[k])]
           /\ Goto(c, next) /\ UNCHANGED failed
  <2> DEFINE v == Adopted(store[s].op_vault, environment.vaults[k])
  <2>1. v \in environment.vaults[k] /\ v \in Vault /\ k \in Clients
    BY <1>0, <1>4, AdoptedKnown, Environs
  <2>2. store' = [store EXCEPT ![s] = [store[s] EXCEPT !.op_vault = v]]
    BY <1>4
  <2> HIDE DEF v
  <2>3. [store[s] EXCEPT !.op_vault = v] \in Store
    BY <1>0, <2>1 DEF Store
  <2>4. /\ [store[s] EXCEPT !.op_vault = v] # None
        /\ [store[s] EXCEPT !.op_vault = v].clients = Clients
        /\ [store[s] EXCEPT !.op_vault = v].op_vault = v
    BY <1>0, <2>3, CredentialsAssumption DEF Store
  <2>5. store' \in [Caller -> Store \cup {None}] /\ store'[s] = [store[s] EXCEPT !.op_vault = v]
        /\ \A t \in Caller : t # s => store'[t] = store[t]
    BY <1>0, <2>2, <2>3 DEF TypeOK
  <2>6. Known(s)'
    BY <1>1, <2>1, <2>4, <2>5 DEF Known
  <2>7. \A t \in Caller : Known(t) => Known(t)'
    BY <1>1, <2>5, <2>6 DEF Known
  <2>8. \A t \in Caller : /\ store'[t] = None <=> store[t] = None
                          /\ store[t] # None => store'[t].clients = Clients
    BY <1>0, <2>4, <2>5 DEF MadeInv
  <2>9. QED
    BY <1>0, <1>1, <1>4, <2>5, <2>6, <2>7, <2>8 DEF Goto, TypeOK
<1>5. QED
  BY <1>2, <1>3, <1>4 DEF CheckVaults

LEMMA ConnectStep ==
  ASSUME Inv, NEW c \in Caller, ValidateConnect(c) PROVE Inv'
<1>0. TypeOK /\ MadeInv /\ KnownInv /\ WatchInv /\ AsksKnownVault
  BY DEF Inv
<1>1. /\ UNCHANGED <<environment, _creds, validated, question>>
      /\ self' = [self EXCEPT ![c] = _creds] /\ pc[c] = "connect"
      /\ CheckVaults(c, _creds, "connect", "service")
  BY DEF ValidateConnect
<1>2. _creds \in Caller /\ _creds # None /\ store[_creds] # None
  BY <1>0, <1>1 DEF TypeOK, MadeInv
<1>3. /\ Clients' = Clients
      /\ store' \in [Caller -> Store \cup {None}]
      /\ \A t \in Caller : /\ store'[t] = None <=> store[t] = None
                           /\ store[t] # None => store'[t].clients = Clients
      /\ \A t \in Caller : Known(t) => Known(t)'
      /\ failed' \in BOOLEAN /\ (failed => failed')
      /\ \/ pc' = [pc EXCEPT ![c] = "idle"] /\ failed'
         \/ pc' = [pc EXCEPT ![c] = "service"] /\ ("connect" \in Clients => Known(_creds)')
  BY <1>1, <1>2, Checked DEF Client
<1>4. /\ self' \in [Caller -> Caller] /\ self'[c] = _creds
      /\ \A d \in Caller : d # c => self'[d] = self[d] /\ pc'[d] = pc[d]
  BY <1>0, <1>1, <1>2, <1>3 DEF TypeOK
<1>5. pc' \in [Caller -> {"idle", "construct", "connect", "service", "ask"}]
      /\ (pc'[c] = "idle" \/ pc'[c] = "service")
  BY <1>0, <1>3 DEF TypeOK
<1>6. TypeOK'
  BY <1>0, <1>1, <1>3, <1>4, <1>5 DEF TypeOK
<1>7. MadeInv'
  <2>1. \A s \in Caller : store'[s] # None => store'[s].clients = Clients'
    BY <1>3
  <2>2. \A s \in validated' : store'[s] # None
    BY <1>0, <1>1, <1>3 DEF MadeInv, TypeOK
  <2>3. _creds' # None /\ store'[_creds'] # None
    BY <1>1, <1>2, <1>3
  <2>4. ASSUME NEW d \in Caller
        PROVE  /\ pc'[d] = "construct" => store'[d] = None
               /\ pc'[d] = "service" => store'[self'[d]] # None
    BY <1>0, <1>1, <1>2, <1>3, <1>4, <1>5 DEF MadeInv, TypeOK
  <2>5. QED
    BY <2>1, <2>2, <2>3, <2>4 DEF MadeInv
<1>8. KnownInv'
  <2>1. Clients' # {} => \A s \in validated' : Known(s)'
    BY <1>0, <1>1, <1>3 DEF KnownInv, TypeOK
  <2>2. ASSUME "connect" \in Clients, NEW d \in Caller, pc'[d] = "service"
        PROVE  Known(self[d])'
    <3>1. CASE d = c
      <4>1. Known(_creds)'
        BY <1>0, <1>3, <2>2, <3>1 DEF TypeOK
      <4>2. QED
        BY <1>1, <1>4, <3>1, <4>1 DEF Known
    <3>2. CASE d # c
      <4>1. self'[d] = self[d] /\ pc[d] = "service" /\ self[d] \in Caller
        BY <1>0, <1>4, <2>2, <3>2 DEF TypeOK
      <4>2. Known(self[d])
        BY <1>0, <2>2, <4>1 DEF KnownInv
      <4>3. PICK s \in Caller : s = self[d]
        BY <4>1
      <4>4. Known(s)'
        BY <1>3, <4>2, <4>3
      <4>5. QED
        BY <4>1, <4>3, <4>4 DEF Known
    <3>3. QED
      BY <3>1, <3>2
  <2>3. QED
    BY <1>3, <2>1, <2>2 DEF KnownInv
<1>9. WatchInv'
  BY <1>0, <1>1, <1>3, <1>4, <1>5 DEF WatchInv, TypeOK
<1>10. AsksKnownVault'
  BY <1>0, <1>1, <1>3 DEF AsksKnownVault
<1>11. QED
  BY <1>6, <1>7, <1>8, <1>9, <1>10 DEF Inv

LEMMA ServiceStep ==
  ASSUME Inv, NEW c \in Caller, ValidateService(c) PROVE Inv'
<1>0. TypeOK /\ MadeInv /\ KnownInv /\ WatchInv /\ AsksKnownVault
  BY DEF Inv
<1>1. /\ UNCHANGED <<environment, _creds, self, question>> /\ pc[c] = "service"
      /\ CheckVaults(c, self[c], "service", "ask")
      /\ validated' = IF pc'[c] = "ask" THEN validated \cup {self[c]} ELSE validated
  BY DEF ValidateService
<1>2. self[c] \in Caller /\ store[self[c]] # None
  BY <1>0, <1>1 DEF TypeOK, MadeInv
<1>3. /\ Clients' = Clients
      /\ store' \in [Caller -> Store \cup {None}]
      /\ \A t \in Caller : /\ store'[t] = None <=> store[t] = None
                           /\ store[t] # None => store'[t].clients = Clients
      /\ \A t \in Caller : Known(t) => Known(t)'
      /\ failed' \in BOOLEAN /\ (failed => failed')
      /\ \/ pc' = [pc EXCEPT ![c] = "idle"] /\ failed'
         \/ pc' = [pc EXCEPT ![c] = "ask"] /\ ("service" \in Clients => Known(self[c])')
  BY <1>1, <1>2, Checked DEF Client
<1>4. /\ \A d \in Caller : d # c => pc'[d] = pc[d]
      /\ pc' \in [Caller -> {"idle", "construct", "connect", "service", "ask"}]
      /\ pc'[c] = "idle" \/ pc'[c] = "ask"
  BY <1>0, <1>3 DEF TypeOK
<1>5. validated' \subseteq Caller /\ \A s \in validated' : s \in validated \/ s = self[c]
  BY <1>0, <1>1, <1>2 DEF TypeOK
<1>6. TypeOK'
  BY <1>0, <1>1, <1>3, <1>4, <1>5 DEF TypeOK
<1>7. MadeInv'
  <2>1. \A s \in validated' : store'[s] # None
    BY <1>0, <1>2, <1>3, <1>5 DEF MadeInv, TypeOK
  <2>2. _creds # None
    <3>1. _creds = None => store[self[c]] = None
      BY <1>0, <1>2 DEF MadeInv
    <3>2. QED
      BY <1>2, <3>1
  <2>3. store'[_creds'] # None /\ _creds' # None
    BY <1>0, <1>1, <1>3, <2>2 DEF MadeInv, TypeOK
  <2>4. ASSUME NEW d \in Caller
        PROVE  /\ pc'[d] = "construct" => store'[d] = None
               /\ pc'[d] = "service" => store'[self'[d]] # None
    BY <1>0, <1>1, <1>3, <1>4 DEF MadeInv, TypeOK
  <2>5. QED
    BY <1>3, <2>1, <2>3, <2>4 DEF MadeInv
<1>8. KnownInv'
  <2>2. ASSUME NEW d \in Caller, Known(self[d]) PROVE Known(self[d])'
    <3>1. PICK s \in Caller : s = self[d]
      BY <1>0 DEF TypeOK
    <3>2. Known(s) => Known(s)'
      BY <1>3
    <3>3. QED
      BY <1>1, <2>2, <3>1, <3>2 DEF Known
  <2>3. ASSUME Clients # {}, NEW s \in validated' PROVE Known(s)'
    <3>1. CASE s \in validated
      BY <1>0, <1>3, <2>3, <3>1 DEF KnownInv, TypeOK
    <3>2. CASE s \notin validated
      <4>1. s = self[c] /\ pc'[c] = "ask"
        BY <1>1, <1>5, <2>3, <3>2
      <4>2. "service" \in Clients \/ "connect" \in Clients
        BY <1>0, <2>3, Environs DEF Client
      <4>3. CASE "service" \in Clients
        <5>1. Known(self[c])'
          BY <1>0, <1>3, <4>1, <4>3 DEF TypeOK
        <5>2. QED
          BY <1>1, <4>1, <5>1 DEF Known
      <4>4. CASE "connect" \in Clients
        <5>1. Known(self[c])
          BY <1>0, <1>1, <4>4 DEF KnownInv
        <5>2. Known(self[c])'
          BY <2>2, <5>1
        <5>3. QED
          BY <1>1, <4>1, <5>2 DEF Known
      <4>5. QED
        BY <4>2, <4>3, <4>4
    <3>3. QED
      BY <3>1, <3>2
  <2>4. ASSUME "connect" \in Clients, NEW d \in Caller, pc'[d] = "service"
        PROVE  Known(self[d])'
    <3>1. pc[d] = "service"
      BY <1>4, <2>4
    <3>2. Known(self[d])
      BY <1>0, <2>4, <3>1 DEF KnownInv
    <3>3. QED
      BY <2>2, <3>2
  <2>5. QED
    BY <1>3, <2>3, <2>4 DEF KnownInv
<1>9. WatchInv'
  <2> SUFFICES ASSUME _creds' # None, _creds' \notin validated', ~failed'
               PROVE  \E d \in Caller : pc'[d] = "connect" \/
                                         (pc'[d] = "service" /\ self'[d] = _creds')
    BY DEF WatchInv
  <2>1. pc'[c] = "ask" /\ _creds # self[c] /\ _creds \notin validated /\ ~failed
    BY <1>0, <1>1, <1>3, <1>4 DEF TypeOK
  <2>2. PICK d \in Caller : pc[d] = "connect" \/ (pc[d] = "service" /\ self[d] = _creds)
    BY <1>0, <1>1, <2>1 DEF WatchInv
  <2>3. d # c
    BY <1>1, <2>1, <2>2
  <2>4. QED
    BY <1>1, <1>4, <2>2, <2>3
<1>10. AsksKnownVault'
  BY <1>0, <1>1, <1>3 DEF AsksKnownVault
<1>11. QED
  BY <1>6, <1>7, <1>8, <1>9, <1>10 DEF Inv

-----------------------------------------------------------------------------
\* The steps that make and validate nothing.
LEMMA OtherSteps ==
  ASSUME Inv, NEW c \in Caller,
         UNCHANGED <<environment, store, _creds, self, validated, failed>>,
         \/ pc[c] = "idle" /\ _creds = None /\ pc' = [pc EXCEPT ![c] = "construct"]
         \/ pc[c] = "idle" /\ _creds # None /\ pc' = [pc EXCEPT ![c] = "ask"]
         \/ pc[c] = "ask" /\ pc' = [pc EXCEPT ![c] = "idle"]
         \/ pc' = pc,
         \/ question' = question
         \/ _creds # None /\ Preferred # None /\ Asked(Preferred)
  PROVE  Inv'
<1>0. TypeOK /\ MadeInv /\ KnownInv /\ WatchInv /\ AsksKnownVault
  BY DEF Inv
<1>1. Clients' = Clients /\ \A s \in Caller : Known(s) => Known(s)'
  BY DEF Clients, Enabled, get_secret_or_env, Known
<1>2. /\ pc' \in [Caller -> {"idle", "construct", "connect", "service", "ask"}]
      /\ \A d \in Caller : d # c => pc'[d] = pc[d]
      /\ \A d \in Caller : /\ pc'[d] = "construct" => pc[d] = "construct" \/ _creds = None
                           /\ pc'[d] = "ask" => pc[d] = "ask" \/ _creds # None
                           /\ pc'[d] = "connect" <=> pc[d] = "connect"
                           /\ pc'[d] = "service" <=> pc[d] = "service"
  BY <1>0 DEF TypeOK
<1>4. question' \in [client : Client, vault : Vault \cup {None}, trusted : BOOLEAN] \cup {None}
      /\ AsksKnownVault'
  <2>1. CASE question' = question
    BY <1>0, <1>1, <2>1 DEF AsksKnownVault, TypeOK
  <2>2. CASE question' # question
    <3>1. /\ _creds \in Caller /\ store[_creds] \in Store /\ store[_creds].clients = Clients
          /\ Preferred \in Client /\ Preferred \in Clients
      BY <1>0, <2>2 DEF TypeOK, MadeInv, Preferred, Client
    <3>2. question' = [client |-> Preferred, vault |-> store[_creds].op_vault,
                       trusted |-> _creds \in validated]
      BY <2>2 DEF Asked
    <3>3. question' \in [client : Client, vault : Vault \cup {None}, trusted : BOOLEAN]
      BY <3>1, <3>2 DEF Store
    <3>4. question'.trusted => Known(_creds)
      BY <1>0, <3>1, <3>2 DEF KnownInv
    <3>5. QED
      BY <1>1, <3>2, <3>3, <3>4 DEF AsksKnownVault, Known
  <2>3. QED
    BY <2>1, <2>2
<1>5. TypeOK'
  BY <1>0, <1>2, <1>4 DEF TypeOK
<1>6. MadeInv'
  BY <1>0, <1>1, <1>2 DEF MadeInv, TypeOK
<1>7. KnownInv'
  BY <1>0, <1>1, <1>2 DEF KnownInv, Known
<1>8. WatchInv'
  BY <1>0, <1>2 DEF WatchInv
<1>9. QED
  BY <1>4, <1>5, <1>6, <1>7, <1>8 DEF Inv

LEMMA NextInv == Inv /\ [Next]_vars => Inv'
<1> SUFFICES ASSUME Inv, [Next]_vars PROVE Inv'
  OBVIOUS
<1>1. ASSUME NEW c \in Caller, Call(c) PROVE Inv'
  BY <1>1, OtherSteps DEF Call, Goto
<1>2. ASSUME NEW c \in Caller, get_creds(c) \/ get_fields_from_sections(c) PROVE Inv'
  <2>1. /\ UNCHANGED <<environment, store, _creds, self, validated, failed>>
        /\ pc[c] = "ask" /\ pc' = [pc EXCEPT ![c] = "idle"] /\ Asked(Preferred)
    BY <1>2 DEF get_creds, get_fields_from_sections, Goto
  <2>2. _creds # None
    BY <2>1 DEF Inv, MadeInv
  <2>3. question' = question \/ (_creds # None /\ Preferred # None /\ Asked(Preferred))
    BY <2>1, <2>2 DEF Asked
  <2>4. QED
    BY <2>1, <2>3, OtherSteps
<1>3. CASE UNCHANGED vars
  <2>1. /\ UNCHANGED <<environment, store, _creds, self, validated, failed, question>>
        /\ pc' = pc
    BY <1>3 DEF vars
  <2>2. CASE Caller = {}
    <3>1. TypeOK' /\ MadeInv'
      BY <2>1 DEF Inv, TypeOK, MadeInv, Clients, Enabled, get_secret_or_env
    <3>2. KnownInv' /\ WatchInv' /\ AsksKnownVault'
      BY <2>1 DEF Inv, KnownInv, Known, WatchInv, AsksKnownVault, Clients, Enabled,
         get_secret_or_env
    <3>3. QED
      BY <3>1, <3>2 DEF Inv
  <2>3. CASE Caller # {}
    BY <2>1, <2>3, OtherSteps
  <2>4. QED
    BY <2>2, <2>3
<1>4. QED
  BY <1>1, <1>2, <1>3, ConstructStep, ConnectStep, ServiceStep DEF Next

THEOREM Invariant == Spec => []Inv
BY InitInv, NextInv, PTL DEF Spec

\* Stores, caches and questions keep their types.
THEOREM TypeCorrect == Spec => []TypeOK
<1>1. Inv => TypeOK
  BY DEF Inv
<1>2. QED
  BY <1>1, Invariant, PTL

\* However callers race for the first store, the cached one is validated unless
\* a validation failed or goes on: nobody leaves an unvalidated store behind.
THEOREM CachedSafe == Spec => []CachedStoreIsValidated
<1>1. Inv => CachedStoreIsValidated
  BY DEF Inv, WatchInv, CachedStoreIsValidated
<1>2. QED
  BY <1>1, Invariant, PTL

\* The connect client's get_creds() answers, for any item and any path, with the
\* first field that the path describes, if no two sections share a label, and in
\* any case with a field that the path describes or an exception, which it is for a
\* path that leaves the choice between several.
THEOREM LookupSafe == Spec => []LookupIsExact
<1>1. Spec => [](LookupIsExact /\ FieldsAreExact)
  BY AnswerInit, AnswerStep, PTL DEF Spec
<1>2. QED
  BY <1>1, PTL

\* The loops of get_fields_from_sections() collect, for any item, the fields of
\* the sections and nothing else; both clients refuse an item without a list of
\* sections, and the service client one in which two of the fields share a label
\* or a field has a section that the item does not have.
THEOREM FieldsSafe == Spec => []FieldsAreExact
<1>1. Spec => [](LookupIsExact /\ FieldsAreExact)
  BY AnswerInit, AnswerStep, PTL DEF Spec
<1>2. QED
  BY <1>1, PTL

\* A validated store asks for a vault that a client of it has listed.
THEOREM VaultSafe == Spec => []AsksKnownVault
<1>1. Inv => AsksKnownVault
  BY DEF Inv
<1>2. QED
  BY <1>1, Invariant, PTL
=============================================================================
